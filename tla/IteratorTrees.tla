---------------------------- MODULE IteratorTrees ----------------------------
(* The iterators of src/backend/src/reverse_index/iterators as they are made  *)
(* of a query: the create functions of every iterator, and the way the        *)
(* parser's listener puts the words of one field together.                    *)
EXTENDS Naturals, Sequences, SequencesExt

CONSTANTS FieldTags,      \* the fields, in the order of their tags
          AnyTerm         \* the pattern whose automaton accepts everything

AllFields == ToSet(FieldTags)

(* Making iterators.  The create functions simplify: what they return need    *)
(* not be the operator they are named for.                                    *)

PopOrNot(populated, unpopulated) ==
  [op |-> "popornot", populated |-> populated, unpopulated |-> unpopulated]

MatchesEverything(it) == it = PopOrNot(AllFields, AllFields)
MatchesNothing(it) == it = PopOrNot({}, {})

PatternCreate(pattern, fields) ==
  IF pattern = AnyTerm
  THEN [op |-> "anyword", fields |-> fields]
  ELSE [op |-> "pattern", pattern |-> pattern, fields |-> fields]

AnchoredCreate(child, left, right) ==
  LET anchored == child.op = "anchored"
  IN IF ~left /\ ~right
     THEN child
     ELSE [op |-> "anchored",
           child |-> IF anchored THEN child.child ELSE child,
           left |-> left \/ (anchored /\ child.left),
           right |-> right \/ (anchored /\ child.right)]

WordAdaptorCreate(child) ==
  IF child.op = "anyword"
  THEN PopOrNot(child.fields, {})
  ELSE [op |-> "wordadaptor", child |-> child]

NearCreate(margin, children) ==
  CASE Len(children) = 0 -> PopOrNot(AllFields, AllFields)
    [] Len(children) = 1 -> WordAdaptorCreate(children[1])
    [] OTHER -> [op |-> "near", margin |-> margin, children |-> children]

\* And and Or are duals: each drops its neutral children and is its dominant one.
Neutral(op, c) == IF op = "and" THEN MatchesEverything(c) ELSE MatchesNothing(c)
Dominant(op, c) == IF op = "and" THEN MatchesNothing(c) ELSE MatchesEverything(c)

Combine(op, children) ==
  LET dominant == SelectSeq(children, LAMBDA c: Dominant(op, c))
      Spread(c) == CASE Neutral(op, c) -> <<>> [] c.op = op -> c.children [] OTHER -> <<c>>
      flat == FlattenSeq([i \in 1..Len(children) |-> Spread(children[i])])
  IN IF \A i \in 1..Len(children): Neutral(op, children[i])
     THEN IF op = "and" THEN PopOrNot(AllFields, AllFields) ELSE PopOrNot({}, {})
     ELSE IF dominant # <<>> THEN Head(dominant)
     ELSE IF Len(flat) = 1 THEN Head(flat)
     ELSE [op |-> op, children |-> flat]

AndCreate(children) == Combine("and", children)

OrCreate(children) == Combine("or", children)

NotCreate(child) == IF child.op = "not" THEN child.child ELSE [op |-> "not", child |-> child]

\* exitScopedAdjacency: words in some fields, the first and last maybe anchored.
AdjacencyCreate(q) ==
  LET n == Len(q.words)
      Word(i) == AnchoredCreate(
                   AnchoredCreate(PatternCreate(q.words[i], q.fields), q.left /\ i = 1, FALSE),
                   FALSE, q.right /\ i = n)
  IN IF n = 0
     THEN PopOrNot({}, q.fields)
     ELSE NearCreate(q.margin, [i \in 1..n |-> Word(i)])
==============================================================================
