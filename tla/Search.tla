-------------------------------- MODULE Search --------------------------------
(* One side of one subscription (PerSideStatus in coordinator/subscription.cc) *)
(* pulling from the iterators while zgrams are posted: tryCreate,              *)
(* getMoreZgrams and the topping up that follows every post.                   *)
EXTENDS SearchIterators

CONSTANTS Texts,       \* the zgrams that may be posted
          Queries,     \* the queries, as written
          MaxZgrams,   \* bound: zgrams posted
          Counts,      \* the sizes of getMoreZgrams, already cut to the page size
          QueryMargin

VARIABLES index,
          posted,      \* history: the texts, in the order of their offsets
          sub,         \* the subscription, or None
          delivered    \* history: the offsets getMoreZgrams took from the residual

vars == <<index, posted, sub, delivered>>

Context(idx, forward) == [index |-> idx, forward |-> forward]

\* A forward side that was exhausted is so until there are more zgrams, a
\* backward one for ever.
ExhaustVersion(idx, forward) == IF forward THEN Len(idx.zgrams) ELSE 0

IsExhausted(idx, s) == s.exhaustVersion = ExhaustVersion(idx, s.forward)

RECURSIVE TopUp(_, _, _, _)

Pulled(s, more) == [s EXCEPT !.iteratorState = more.state, !.residual = @ \o more.items]

AfterChunk(idx, s, more, lowerBound, minItems) ==
  IF more.items = <<>>
  THEN [Pulled(s, more) EXCEPT !.exhaustVersion = ExhaustVersion(idx, s.forward)]
  ELSE TopUp(idx, Pulled(s, more), lowerBound, minItems)

TopUp(idx, s, lowerBound, minItems) ==
  IF Len(s.residual) >= minItems \/ IsExhausted(idx, s)
  THEN s
  ELSE AfterChunk(idx, s,
         GetMore(Context(idx, s.forward), s.query, s.iteratorState, lowerBound, ChunkSize),
         lowerBound, minItems)

--------------------------------------------------------------------------------
(* What a query means, written from the definitions in the comments and tests: *)
(* the reference the iterators are compared with.                              *)

MatchesTerm(pattern, term) == pattern = AnyTerm \/ term \in pattern

\* Places for the words in one field, in order, each near the one before it.
MatchesWords(q, words) ==
  \E at \in [1..Len(q.words) -> 1..Len(words)]:
    /\ \A i \in DOMAIN at: MatchesTerm(q.words[i], words[at[i]])
    /\ \A i \in 2..Len(q.words): at[i] - at[i - 1] \in 1..q.margin
    /\ q.left => at[1] = 1
    /\ q.right => at[Len(q.words)] = Len(words)

RECURSIVE Matches(_, _)
Matches(q, text) ==
  CASE q.op = "adjacency" ->
         \E f \in q.fields: IF q.words = <<>> THEN text[f] = <<>> ELSE MatchesWords(q, text[f])
    [] q.op = "and" -> Matches(q.left, text) /\ Matches(q.right, text)
    [] q.op = "or" -> Matches(q.left, text) \/ Matches(q.right, text)
    [] q.op = "not" -> ~Matches(q.child, text)

\* All there is to find, in the order of the search.
Answer ==
  LET InOrder == IF sub.forward
                 THEN [i \in 1..(Len(posted) - sub.start) |-> sub.start + i - 1]
                 ELSE [i \in 1..sub.start |-> sub.start - i]
  IN SelectSeq(InOrder, LAMBDA off: Matches(sub.asWritten, posted[off + 1]))

\* What the search has found so far.
Results ==
  delivered \o [i \in 1..Len(sub.residual) |->
                 Flip(Context(index, sub.forward), sub.residual[i])]

--------------------------------------------------------------------------------

Init ==
  /\ index = EmptyIndex
  /\ posted = <<>>
  /\ sub = None
  /\ delivered = <<>>

\* PerSideStatus::create, at the offset of a zgram or at the end.
Fresh(ctx, it, q, start) ==
  [query |-> it, forward |-> ctx.forward, iteratorState |-> CreateState(ctx, it),
   residual |-> <<>>, exhaustVersion |-> -1, asWritten |-> q, start |-> start]

Subscribe(q, start, forward) ==
  LET ctx == Context(index, forward)
      lowerBound == IF forward THEN Flip(ctx, start) ELSE Flip(ctx, start) + 1
  IN /\ sub = None
     /\ sub' = TopUp(index, Fresh(ctx, Parse(q), q, start), lowerBound, QueryMargin)
     /\ UNCHANGED <<index, posted, delivered>>

\* postZgrams, and updateEstimates for the subscription.
Post(text) ==
  /\ Len(posted) < MaxZgrams
  /\ index' = AddZgram(index, text)
  /\ posted' = Append(posted, text)
  /\ sub' = IF sub = None THEN None ELSE TopUp(index', sub, 0, QueryMargin)
  /\ UNCHANGED delivered

Deliver(s, taken) ==
  /\ sub' = [s EXCEPT !.residual = SubSeq(@, Len(taken) + 1, Len(@))]
  /\ delivered' = delivered \o [i \in 1..Len(taken) |-> Flip(Context(index, s.forward), taken[i])]

GetMoreZgrams(count) ==
  /\ sub # None
  /\ \E s \in {TopUp(index, sub, 0, count + QueryMargin)}: Deliver(s, FirstOf(s.residual, count))
  /\ UNCHANGED <<index, posted>>

Next ==
  \/ \E text \in Texts: Post(text)
  \/ \E q \in Queries, start \in 0..Len(posted), forward \in BOOLEAN: Subscribe(q, start, forward)
  \/ \E count \in Counts: GetMoreZgrams(count)

Spec == Init /\ [][Next]_vars

--------------------------------------------------------------------------------

\* What a search has found is the beginning of what there is to find: matches
\* only, none left out, none twice, in order; and when the residual is shorter
\* than the margin, so that its length is sent as an exact count, there is no
\* more.  It holds for both directions and across the chunks of topUp and the
\* buffers of the streamers, whatever is posted between two of them (getMore of
\* every iterator).
ResultsAreTheAnswer ==
  sub # None =>
    /\ IsPrefix(Results, Answer)
    /\ Len(sub.residual) < QueryMargin => Results = Answer

\* Nothing a search finds contradicts its query: of "sender:kosak and not
\* signature:kosak", no zgram signed by kosak (test_reverse_index.cc).
ResultsMatch ==
  sub # None => \A i \in 1..Len(Results): Matches(sub.asWritten, posted[Results[i] + 1])

==============================================================================
