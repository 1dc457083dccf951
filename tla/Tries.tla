-------------------------------- MODULE Tries --------------------------------
(***************************************************************************)
(* The two tries that lead from a word to the places it occurs at: the      *)
(* DynamicNodes of reverse_index/trie/dynamic_node.cc, which words are      *)
(* added to in any order, and the FrozenNodes of frozen_node.cc, which      *)
(* builder/trie_builder.cc lays out from words that come sorted.            *)
(*                                                                         *)
(* A word is a sequence of characters, a place (wordOff) a number.  What    *)
(* the C++ hands to a callback, a list of places at a time, is a sequence   *)
(* of lists here.                                                           *)
(***************************************************************************)
EXTENDS Naturals, Sequences, SequencesExt, FiniteSets, Automaton

From(word, n) == SubSeq(word, n, Len(word))
StartsWith(word, prefix) == IsPrefix(prefix, word)

(* std::mismatch: how many characters the two words begin with in common.   *)
Agreement(word, probe) ==
  LET shorter == IF Len(word) < Len(probe) THEN Len(word) ELSE Len(probe)
  IN  CHOOSE n \in 0..shorter :
        /\ SubSeq(word, 1, n) = SubSeq(probe, 1, n)
        /\ n = shorter \/ word[n + 1] # probe[n + 1]

(* The keys of a std::map, in their order.                                  *)
Keys(transitions) ==
  LET keys == DOMAIN transitions
  IN  [i \in 1..Cardinality(keys) |->
         CHOOSE ch \in keys : Cardinality({c \in keys : c < ch}) = i - 1]

-----------------------------------------------------------------------------
(* The dynamic trie *)

DynamicNode(prefix, wordsHere, transitions) ==
  [prefix |-> prefix, wordsHere |-> wordsHere, transitions |-> transitions]
Placeholder == DynamicNode(<<>>, <<>>, <<>>)

With(transitions, ch, child) ==
  [c \in DOMAIN transitions \cup {ch} |-> IF c = ch THEN child ELSE transitions[c]]

RECURSIVE Insert(_, _, _), InsertHelper(_, _, _)

(* The upper half of a node that is split at an index, with the lower half  *)
(* behind the character they part at.                                       *)
SplitWithItsWords(node, at) ==   \* mutant: wordsHere_ is not cleared
  DynamicNode(SubSeq(node.prefix, 1, at), node.wordsHere,
              With(<<>>, node.prefix[at + 1], [node EXCEPT !.prefix = From(@, at + 2)]))
SplitNode(node, at) ==
  DynamicNode(SubSeq(node.prefix, 1, at), <<>>,
              With(<<>>, node.prefix[at + 1], [node EXCEPT !.prefix = From(@, at + 2)]))

(* DynamicNode::insert.  A node whose prefix the probe leaves half way is   *)
(* split: what was in it moves down behind the character they part at.      *)
Insert(node, probe, offs) ==
  LET diffIndex == Agreement(node.prefix, probe)
      residual == From(probe, diffIndex + 1)
  IN  IF offs = <<>> THEN node
      ELSE IF node = Placeholder THEN DynamicNode(probe, offs, <<>>)
      ELSE IF diffIndex = Len(node.prefix) THEN InsertHelper(node, residual, offs)
      ELSE InsertHelper(SplitNode(node, diffIndex), residual, offs)

(* DynamicNode::insertHelper: append here, go on below, or start a child.   *)
InsertHelper(node, probe, offs) ==
  IF probe = <<>> THEN [node EXCEPT !.wordsHere = @ \o offs]
  ELSE LET child == IF probe[1] \in DOMAIN node.transitions
                    THEN Insert(node.transitions[probe[1]], Tail(probe), offs)
                    ELSE DynamicNode(Tail(probe), offs, <<>>)
       IN  [node EXCEPT !.transitions = With(@, probe[1], child)]

RECURSIVE TryFind(_, _), FindMatching(_, _, _)

(* DynamicNode::tryFind; an empty list when the word is not there.          *)
TryFind(node, probe) ==
  LET residual == From(probe, Len(node.prefix) + 1)
  IN  IF ~StartsWith(probe, node.prefix) THEN <<>>
      ELSE IF residual = <<>> THEN node.wordsHere
      ELSE IF residual[1] \notin DOMAIN node.transitions THEN <<>>
      ELSE TryFind(node.transitions[residual[1]], Tail(residual))

(* The walk of a trie and a machine together, which both kinds of trie do:  *)
(* children[i] is behind the character keys[i].                             *)
Walk(Below(_, _), dfa, at, prefix, wordsHere, keys, children) ==
  LET here == TryAdvanceAll(dfa, at, prefix)
      found == IF wordsHere # <<>> /\ Accepting(dfa, here) THEN <<wordsHere>> ELSE <<>>
      next == TryAdvanceMulti(dfa, here, keys)
      below[i \in 0..Len(keys)] ==
        IF i = 0 THEN <<>>
        ELSE below[i - 1] \o IF next[i] = NoKey THEN <<>> ELSE Below(children[i], next[i])
  IN  IF here = NoKey THEN <<>> ELSE found \o below[Len(keys)]

(* DynamicNode::findMatchingHelper.                                         *)
FindMatching(node, dfa, at) ==
  LET keys == Keys(node.transitions)
  IN  Walk(LAMBDA child, next : FindMatching(child, dfa, next), dfa, at, node.prefix,
           node.wordsHere, keys, [i \in DOMAIN keys |-> node.transitions[keys[i]]])

-----------------------------------------------------------------------------
(* The frozen trie and its builder *)

FrozenNode(prefix, wordsHere, keys, children) ==
  [prefix |-> prefix, wordsHere |-> wordsHere, transitionKeys |-> keys, transitions |-> children]

NoChild == <<>>
BuilderNode(prefix, wordsHere, transition, child, frozen) ==
  [prefix |-> prefix, wordsHere |-> wordsHere, dynamicTransition |-> transition,
   dynamicChild |-> child, frozenTransitions |-> frozen]
Root == BuilderNode(<<>>, <<>>, 0, NoChild, <<>>)

RECURSIVE Freeze(_), BuilderInsert(_, _, _)

(* The child still growing is frozen and joins the frozen ones.             *)
WithChildFrozen(node) ==
  IF node.dynamicChild = NoChild THEN node
  ELSE [node EXCEPT
          !.frozenTransitions = Append(@, <<node.dynamicTransition, Freeze(node.dynamicChild[1])>>),
          !.dynamicTransition = 0, !.dynamicChild = NoChild]

(* TrieBuilderNode::tryFreeze.                                              *)
Freeze(node) ==
  LET ready == WithChildFrozen(node).frozenTransitions
  IN  FrozenNode(node.prefix, node.wordsHere,
                 [i \in DOMAIN ready |-> ready[i][1]], [i \in DOMAIN ready |-> ready[i][2]])

(* TrieBuilderNode::tryInsertHelper: a new transition means that the words  *)
(* behind the last one are all there, for they come sorted.                 *)
BuilderInsertHelper(node, probe, offs) ==
  IF probe = <<>> THEN [node EXCEPT !.wordsHere = @ \o offs]
  ELSE IF node.dynamicChild # NoChild /\ probe[1] = node.dynamicTransition
  THEN [node EXCEPT !.dynamicChild = <<BuilderInsert(@[1], Tail(probe), offs)>>]
  ELSE [WithChildFrozen(node) EXCEPT
          !.dynamicTransition = probe[1],
          !.dynamicChild = <<BuilderNode(Tail(probe), offs, 0, NoChild, <<>>)>>]

(* TrieBuilderNode::tryInsert.                                              *)
BuilderInsert(node, probe, offs) ==
  LET diffIndex == Agreement(node.prefix, probe)
      clone == [node EXCEPT !.prefix = From(@, diffIndex + 2)]
      split == BuilderNode(SubSeq(node.prefix, 1, diffIndex), <<>>,
                           node.prefix[diffIndex + 1], <<clone>>, <<>>)
      residual == From(probe, diffIndex + 1)
  IN  IF offs = <<>> THEN node
      ELSE IF diffIndex = Len(node.prefix) THEN BuilderInsertHelper(node, residual, offs)
      ELSE BuilderInsertHelper(split, residual, offs)

(* A frozen trie of entries <<word, places>>, which come in the order of    *)
(* their words.                                                             *)
FrozenTrie(entries) ==
  LET root[i \in 0..Len(entries)] ==
        IF i = 0 THEN Root ELSE BuilderInsert(root[i - 1], entries[i][1], entries[i][2])
  IN  Freeze(root[Len(entries)])

RECURSIVE TryFindFrozen(_, _), FindMatchingFrozen(_, _, _)

(* FrozenNodeView::tryFind: std::equal_range wants the keys sorted.         *)
TryFindFrozen(node, probe) ==
  LET residual == From(probe, Len(node.prefix) + 1)
      index == 1 + Cardinality({i \in DOMAIN node.transitionKeys :
                                  node.transitionKeys[i] < residual[1]})
  IN  IF ~StartsWith(probe, node.prefix) THEN <<>>
      ELSE IF residual = <<>> THEN node.wordsHere
      ELSE IF index > Len(node.transitionKeys) THEN <<>>
      ELSE IF node.transitionKeys[index] # residual[1] THEN <<>>
      ELSE TryFindFrozen(node.transitions[index], Tail(residual))

(* FrozenNodeView::findMatching.                                            *)
FindMatchingFrozen(node, dfa, at) ==
  Walk(LAMBDA child, next : FindMatchingFrozen(child, dfa, next), dfa, at, node.prefix,
       node.wordsHere, node.transitionKeys, node.transitions)
=============================================================================
