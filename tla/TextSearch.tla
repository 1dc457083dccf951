----------------------------- MODULE TextSearch ------------------------------
(***************************************************************************)
(* From text to index and from query to words: the index enters words in    *)
(* the dynamic trie, and at a reindexing lays all of them out as a frozen   *)
(* one; the machine of a query's word finds the words.                      *)
(***************************************************************************)
EXTENDS TextReading, Tries

CONSTANTS Vocabulary,    \* the words that are entered
          MaxWords       \* a bound on the words entered

VARIABLES words,           \* the words of the index: words[off] is at off
          frozen, dynamic  \* its two tries

index == <<words, frozen, dynamic>>
vars == <<reading, index, query>>

Init ==
  /\ ReadingInit
  /\ words = <<>> /\ frozen = FrozenTrie(<<>>) /\ dynamic = Placeholder

(* What is made of text leaves the index alone.  Bound: a text is read and  *)
(* a query asked before the words are entered; the query stays as they come. *)
ReadBefore(t) == words = <<>> /\ Read(t) /\ UNCHANGED index
AskBefore(utterance) == words = <<>> /\ Ask(utterance) /\ UNCHANGED index
SquishNext == SquishOne /\ UNCHANGED index
FinishDfa == MakeDfa /\ UNCHANGED index

(* DynamicIndex::tryAddZgrams enters one word at a time.                    *)
Enter(word) ==
  /\ Idle
  /\ Len(words) < MaxWords
  /\ words' = Append(words, word)
  /\ dynamic' = Insert(dynamic, word, <<Len(words) + 1>>)
  /\ UNCHANGED <<reading, frozen, query>>

PlacesOf(word) == SelectSeq([off \in DOMAIN words |-> off], LAMBDA off : words[off] = word)

Before(v, w) ==
  \/ Len(v) < Len(w) /\ StartsWith(w, v)
  \/ \E i \in 1..Len(v) : /\ i <= Len(w) /\ v[i] < w[i]
                          /\ SubSeq(v, 1, i - 1) = SubSeq(w, 1, i - 1)

(* The words the builder sorts, each with its places.                       *)
Entries ==
  LET all == {words[off] : off \in DOMAIN words}
      sorted == [i \in 1..Cardinality(all) |->
                   CHOOSE w \in all : Cardinality({v \in all : Before(v, w)}) = i - 1]
  IN  [i \in DOMAIN sorted |-> <<sorted[i], PlacesOf(sorted[i])>>]

(* A reindexing: the frozen trie has every word, the dynamic one is new.    *)
Reindex ==
  /\ Idle /\ dynamic # Placeholder
  /\ frozen' = FrozenTrie(Entries)
  /\ dynamic' = Placeholder
  /\ UNCHANGED <<words, reading, query>>

(* ConsolidatedIndex::findMatching: the lists of places it calls back with.  *)
Found ==
  FindMatchingFrozen(frozen, dfa, dfa.start) \o FindMatching(dynamic, dfa, dfa.start)

Next ==
  \/ \E t \in Texts : ReadBefore(t)
  \/ \E w \in Vocabulary : Enter(w)
  \/ Reindex
  \/ \E u \in Utterances : AskBefore(u)
  \/ SquishNext
  \/ FinishDfa

Spec == Init /\ [][Next]_vars

-----------------------------------------------------------------------------
(* Properties *)

(* Each word is found at all its places and no other, in order; the places  *)
(* before the last reindexing in the frozen trie, the others in the dynamic *)
(* one.                                                                     *)
TriesHoldTheWords ==
  \A w \in Vocabulary : TryFindFrozen(frozen, w) \o TryFind(dynamic, w) = PlacesOf(w)

(* ConsolidatedIndex::findMatching calls back with every place of a word    *)
(* the pattern means, once.                                                 *)
MatchesAreFoundOnce ==
  dfa # Nothing =>
    LET found == FlattenSeq(Found)
    IN  /\ IsInjective(found)
        /\ Range(found) = {off \in DOMAIN words : Means(Translate(typed), words[off])}
=============================================================================
