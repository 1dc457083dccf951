---------------------------- MODULE TextReading ------------------------------
(***************************************************************************)
(* What the server makes of text, before any index comes in: a text is read *)
(* into its words and plus-pluses, and a query's word becomes a pattern and *)
(* the pattern a machine.                                                   *)
(*                                                                         *)
(* Converter::squish takes the nodes in the order of a hash table keyed by  *)
(* addresses, so here it takes any of them.                                 *)
(***************************************************************************)
EXTENDS WordText

CONSTANTS Texts,         \* the texts that are read
          Utterances,    \* the words of queries, as they are typed
          Probes         \* the words the machine is held against

ASSUME TextsAssumption == \A t \in Texts \cup Utterances \cup Probes : t \in Seq(Nat)

VARIABLES text, tokens, counts,  \* the text just read, and what was made of it
          typed, conv, dfa       \* the query's word, its converter, its machine

query == <<typed, conv, dfa>>
reading == <<text, tokens, counts>>

Nothing == <<>>

ReadingInit ==
  /\ text = Nothing /\ tokens = <<>> /\ counts = <<>>
  /\ typed = Nothing /\ conv = Nothing /\ dfa = Nothing

(* A text is split and scanned.  Bound: one text, before anything else.     *)
Read(t) ==
  /\ text = Nothing /\ typed = Nothing
  /\ text' = t
  /\ tokens' = Split(t)
  /\ counts' = Scan(t, 1)
  /\ UNCHANGED query

(* The server's thread is not in the middle of making a machine.            *)
Idle == conv = Nothing /\ text = Nothing

(* MyParseListener makes a machine of a typed word.  Bound: one per         *)
(* behaviour.                                                               *)
Ask(utterance) ==
  /\ Idle /\ dfa = Nothing
  /\ typed' = utterance
  /\ conv' = Converter(Translate(utterance))
  /\ UNCHANGED <<dfa, reading>>

SquishOne ==
  /\ conv # Nothing
  /\ \E item \in conv.squishWork : conv' = Squish(conv, item)
  /\ UNCHANGED <<typed, dfa, reading>>

MakeDfa ==
  /\ conv # Nothing /\ conv.squishWork = {}
  /\ dfa' = Finish(conv)
  /\ conv' = Nothing
  /\ UNCHANGED <<typed, reading>>

ReadingNext ==
  \/ \E t \in Texts : Read(t)
  \/ \E u \in Utterances : Ask(u)
  \/ SquishOne
  \/ MakeDfa

ReadingSpec == ReadingInit /\ [][ReadingNext]_<<reading, query>>

-----------------------------------------------------------------------------
(* Properties *)

(* The machine accepts what the pattern means, whichever nodes were merged  *)
(* and in whatever order.                                                   *)
AcceptsWhatThePatternMeans ==
  dfa # Nothing =>
    \A probe \in Probes :
      Accepting(dfa, TryAdvanceAll(dfa, dfa.start, probe)) <=> Means(Translate(typed), probe)

(* The words of a text: what lies between letters, letters included, with   *)
(* nothing but letters and apostrophes; and any other character that is not *)
(* white space by itself.                                                   *)
Places(t) == {p \in (1..Len(t)) \X (1..Len(t)) : p[1] <= p[2]}
Wordy(t, p) ==
  /\ IsAlphabet(t[p[1]]) /\ IsAlphabet(t[p[2]])
  /\ \A k \in p[1]..p[2] : IsAlphabet(t[k]) \/ t[k] = Apostrophe
Widest(t) ==
  LET wordy == {p \in Places(t) : Wordy(t, p)}
  IN  {p \in wordy : \A q \in wordy : q[1] <= p[1] /\ p[2] <= q[2] => q = p}
Single(t) ==
  {<<k, k>> : k \in {i \in 1..Len(t) : ~IsWhitespace(t[i]) /\
                                        \A p \in Widest(t) : i \notin p[1]..p[2]}}
Spans(t) == Widest(t) \cup Single(t)

TextAt(t, p) == SubSeq(t, p[1], p[2])

(* The n-th of them, from left to right.                                    *)
AtRank(spans, n) == {s \in spans : Cardinality({q \in spans : q[1] < s[1]}) = n - 1}
Nth(spans, n) == CHOOSE p \in AtRank(spans, n) : TRUE
InOrder(t, spans) == [n \in 1..Cardinality(spans) |-> TextAt(t, Nth(spans, n))]

TokensAreTheWords == tokens = InOrder(text, Spans(text))

(* The scanner finds what its regular expression does, except for C and     *)
(* for keys that are too long: a run of key characters from the first that  *)
(* can begin a key, with a doubled operator behind it.                      *)
Mentions(t) ==
  {p \in Places(t) :
     /\ p[2] + 2 <= Len(t)
     /\ IsFirstCharOfKey(t[p[1]])
     /\ \A k \in p[1]..p[2] : IsMiddleCharOfKey(t[k])
     /\ \A j \in 1..(p[1] - 1) :
          IsFirstCharOfKey(t[j]) => \E k \in j..p[1] : ~IsMiddleCharOfKey(t[k])
     /\ t[p[2] + 1] \in Operators /\ t[p[2] + 2] = t[p[2] + 1]
     /\ IsAcceptable(TextAt(t, p))
     /\ p[2] - p[1] < MaxPlusPlusKeySize}

(* How many of the mentions are of this key with this operator.             *)
Tally(t, mentions, key, op) ==
  Cardinality({p \in mentions : TextAt(t, p) = key /\ t[p[2] + 1] = op})

ScanFindsEveryMention ==
  LET mentions == Mentions(text)
  IN  counts = [key \in {TextAt(text, p) : p \in mentions} |->
                  Tally(text, mentions, key, Plus) - Tally(text, mentions, key, Minus)]
=============================================================================
