--------------------------- MODULE SearchIterators ---------------------------
(* The iterators of src/backend/src/reverse_index/iterators: a query is a     *)
(* tree of iterators that a subscription pulls zgrams from, in chunks, in one *)
(* of two directions, while the index grows.                                  *)
(*                                                                            *)
(* An iterator is a value; what moves is its state, so getMore takes a state  *)
(* and returns the new one with the items found.  ctx is the IteratorContext: *)
(* the index and the direction.  A Rel is a position in the direction of the  *)
(* search: in a backward search the last offset comes first.                  *)
EXTENDS Integers, IteratorTrees

CONSTANTS RelSpace,       \* the width of a Rel (2^32 - 1 in the code)
          BufferCapacity, \* ZgramStreamer and WordStreamer (128)
          ChunkSize,      \* iteratorChunkSize (256)
          None

ASSUME SearchSizes ==
  RelSpace \in Nat /\ BufferCapacity \in Nat \ {0} /\ ChunkSize \in Nat \ {0}

Greater(a, b) == IF a >= b THEN a ELSE b

--------------------------------------------------------------------------------
(* The index: offsets start at 0, a ZgramInfo has the offset of its first     *)
(* word and the length of each field, a WordInfo its zgram and its field.     *)

EmptyIndex == [zgrams |-> <<>>, words |-> <<>>]

ZgramInfo(ctx, zgramOff) == ctx.index.zgrams[zgramOff + 1]
WordInfo(ctx, wordOff) == ctx.index.words[wordOff + 1]

AddZgram(index, text) ==
  LET zgramOff == Len(index.zgrams)
      Words(field) == [i \in 1..Len(text[field]) |->
                        [zgramOff |-> zgramOff, field |-> field, term |-> text[field][i]]]
  IN [zgrams |-> Append(index.zgrams,
                        [start |-> Len(index.words),
                         length |-> [f \in AllFields |-> Len(text[f])]]),
      words |-> index.words \o FlattenSeq([i \in 1..Len(FieldTags) |-> Words(FieldTags[i])])]

Flip(ctx, v) == IF ctx.forward THEN v ELSE RelSpace - 1 - v

FlipPair(ctx, begin, end) ==
  IF ctx.forward THEN <<begin, end>> ELSE <<Flip(ctx, end) + 1, Flip(ctx, begin) + 1>>

ZgramBounds(ctx) == FlipPair(ctx, 0, Len(ctx.index.zgrams))
WordBounds(ctx) == FlipPair(ctx, 0, Len(ctx.index.words))

\* Where field number k of a zgram starts; the last k is one past the fields.
FieldStart(zg, k) ==
  FoldLeft(LAMBDA sum, f: sum + zg.length[f], zg.start, SubSeq(FieldTags, 1, k - 1))

WordBoundsOf(ctx, zg) == FlipPair(ctx, zg.start, FieldStart(zg, Len(FieldTags) + 1))

FieldBoundsOf(ctx, zg, field) ==
  LET k == CHOOSE i \in 1..Len(FieldTags): FieldTags[i] = field
  IN FlipPair(ctx, FieldStart(zg, k), FieldStart(zg, k + 1))

WordAt(ctx, wordRel) == WordInfo(ctx, Flip(ctx, wordRel))
ZgramRelOf(ctx, wordRel) == Flip(ctx, WordAt(ctx, wordRel).zgramOff)

\* The Rels from first up to end that pass the test, in order.
RelsThat(Test(_), first, end) ==
  SelectSeq([i \in 1..(IF first < end THEN end - first ELSE 0) |-> first + i - 1], Test)

FirstOf(s, n) == SubSeq(s, 1, IF Len(s) < n THEN Len(s) ELSE n)

--------------------------------------------------------------------------------
\* The parser's listener: from the query as written to its iterator.
RECURSIVE Parse(_)
Parse(q) ==
  CASE q.op = "adjacency" -> AdjacencyCreate(q)
    [] q.op = "and" -> AndCreate(<<Parse(q.left), Parse(q.right)>>)
    [] q.op = "or" -> OrCreate(<<Parse(q.left), Parse(q.right)>>)
    [] q.op = "not" -> NotCreate(Parse(q.child))

--------------------------------------------------------------------------------
(* States.  A streamer buffers what its child returned.                       *)

RECURSIVE CreateState(_, _)

Streamer(ctx, child) ==
  [child |-> child, state |-> CreateState(ctx, child), buffer |-> <<>>]

CreateState(ctx, it) ==
  LET Streamers(children) == [i \in 1..Len(children) |-> Streamer(ctx, children[i])]
  IN CASE it.op = "anchored" -> CreateState(ctx, it.child)
       [] it.op = "wordadaptor" -> [nextStart |-> 0, child |-> CreateState(ctx, it.child)]
       [] it.op = "near" ->
            [nextStart |-> 0,
             streamers |-> Streamers(IF ctx.forward THEN it.children ELSE Reverse(it.children))]
       [] it.op \in {"and", "or"} -> [nextStart |-> 0, streamers |-> Streamers(it.children)]
       [] it.op = "not" ->
            [nextStart |-> 0, streamer |-> Streamer(ctx, it.child), lastChildHit |-> None]
       [] OTHER -> [nextStart |-> 0]

\* updateNextStart keeps its new value even when there is nothing more to find.
UpdateWordStart(ctx, state, lowerBound) ==
  [state EXCEPT !.nextStart = Greater(@, lowerBound)]

\* Slip: the caller's lower bound is forgotten.
UpdateZgramStartFromState(ctx, state, lowerBound) ==
  [state EXCEPT !.nextStart = Greater(ZgramBounds(ctx)[1], @)]

UpdateZgramStart(ctx, state, lowerBound) ==
  [state EXCEPT !.nextStart = Greater(ZgramBounds(ctx)[1], Greater(@, lowerBound))]

Found(state, items) == [state |-> state, items |-> items]

RECURSIVE GetMore(_, _, _, _, _)

\* ZgramStreamer and WordStreamer::tryGetOrAdvance: the first item not below
\* lowerBound, or None when the child is exhausted.
RECURSIVE TryGetOrAdvance(_, _, _)

Filled(str, more) == [str EXCEPT !.state = more.state, !.buffer = more.items]

SkipTo(ctx, str, lowerBound) ==
  LET rest == SelectSeq(str.buffer, LAMBDA v: v >= lowerBound)
      advanced == [str EXCEPT !.buffer = rest]
  IN CASE str.buffer = <<>> -> [streamer |-> str, value |-> None]
       [] rest # <<>> -> [streamer |-> advanced, value |-> Head(rest)]
       [] OTHER -> TryGetOrAdvance(ctx, advanced, lowerBound)

TryGetOrAdvance(ctx, str, lowerBound) ==
  SkipTo(ctx,
         IF str.buffer = <<>>
         THEN Filled(str, GetMore(ctx, str.child, str.state, lowerBound, BufferCapacity))
         ELSE str,
         lowerBound)

--------------------------------------------------------------------------------
(* Word iterators.                                                            *)

InFields(ctx, it, wordRel) == WordAt(ctx, wordRel).field \in it.fields

AnyWordGetMore(ctx, it, state, capacity) ==
  LET end == WordBounds(ctx)[2]
      items == FirstOf(RelsThat(LAMBDA v: InFields(ctx, it, v), state.nextStart, end), capacity)
      next == IF Len(items) = capacity THEN Last(items) + 1 ELSE Greater(state.nextStart, end)
  IN Found([state EXCEPT !.nextStart = next], items)

\* findMatching calls back once for each word of the pattern, with the places
\* where it occurs; what remains in the heap are the least of them all.
PatternGetMore(ctx, it, state, capacity) ==
  LET Occurs(v) == WordAt(ctx, v).term \in it.pattern
      bounds == WordBounds(ctx)
      items == FirstOf(RelsThat(LAMBDA v: Occurs(v) /\ InFields(ctx, it, v),
                                state.nextStart, bounds[2]), capacity)
      \* The Rel of the last offset of each word; the greatest of these.
      IsLast(v) == Occurs(v) /\ \A o \in (Flip(ctx, v) + 1)..(Len(ctx.index.words) - 1):
                                   WordInfo(ctx, o).term # WordAt(ctx, v).term
      lasts == RelsThat(IsLast, bounds[1], bounds[2])
      maximumSeen == IF lasts = <<>> THEN 0 ELSE Last(lasts)
  IN Found([state EXCEPT !.nextStart = 1 + IF items = <<>> THEN maximumSeen ELSE Last(items)],
           items)

\* applyFilter: is the word the first, or the last, or the only one of a field?
AtAnchors(ctx, it, wordRel) ==
  LET off == Flip(ctx, wordRel)
      zg == ZgramInfo(ctx, WordInfo(ctx, off).zgramOff)
  IN \E k \in 1..Len(FieldTags):
       /\ FieldStart(zg, k) < FieldStart(zg, k + 1)
       /\ it.left => off = FieldStart(zg, k)
       /\ it.right => off = FieldStart(zg, k + 1) - 1

RECURSIVE AnchoredGetMore(_, _, _, _, _)

KeepAnchored(ctx, it, child, lowerBound, capacity) ==
  LET kept == SelectSeq(child.items, LAMBDA v: AtAnchors(ctx, it, v))
  IN IF child.items = <<>> \/ kept # <<>>
     THEN Found(child.state, kept)
     ELSE AnchoredGetMore(ctx, it, child.state, lowerBound, capacity)

AnchoredGetMore(ctx, it, state, lowerBound, capacity) ==
  KeepAnchored(ctx, it, GetMore(ctx, it.child, state, lowerBound, capacity), lowerBound, capacity)

--------------------------------------------------------------------------------
(* Iterators on the boundary: from words to zgrams.                           *)

\* The zgrams of the child's words, each of them once.
AdaptWords(ctx, state, child) ==
  LET zgrams == [i \in 1..Len(child.items) |-> ZgramRelOf(ctx, child.items[i])]
      items == FoldLeft(LAMBDA s, z: IF s = <<>> \/ z > Last(s) THEN Append(s, z) ELSE s,
                        <<>>, zgrams)
      next == IF items = <<>> THEN state.nextStart ELSE Last(items) + 1
  IN Found([state EXCEPT !.nextStart = next, !.child = child.state], items)

WordAdaptorGetMore(ctx, it, state, capacity) ==
  LET zg == ZgramInfo(ctx, Flip(ctx, state.nextStart))
  IN AdaptWords(ctx, state,
                GetMore(ctx, it.child, state.child, WordBoundsOf(ctx, zg)[1], capacity))

\* Each streamer at or after the bound and after the one before it.  positions
\* is None when one of them is exhausted.
RECURSIVE EnsureMonotonic(_, _, _, _)

Monotonic(ctx, streamers, positions, got) ==
  LET moved == [streamers EXCEPT ![Len(positions) + 1] = got.streamer]
  IN IF got.value = None
     THEN [streamers |-> moved, positions |-> None]
     ELSE EnsureMonotonic(ctx, moved, Append(positions, got.value), got.value + 1)

EnsureMonotonic(ctx, streamers, positions, lowerBound) ==
  IF Len(positions) = Len(streamers)
  THEN [streamers |-> streamers, positions |-> positions]
  ELSE Monotonic(ctx, streamers, positions,
                 TryGetOrAdvance(ctx, streamers[Len(positions) + 1], lowerBound))

AllSameWordInfo(ctx, positions) ==
  \A i \in 1..Len(positions):
    /\ WordAt(ctx, positions[i]).zgramOff = WordAt(ctx, positions[1]).zgramOff
    /\ WordAt(ctx, positions[i]).field = WordAt(ctx, positions[1]).field

\* From right to left.  The positions are not changed when a streamer moves.
RECURSIVE EnforceMaximumDistance(_, _, _, _, _)

Enforced(ctx, streamers, positions, margin, right, got) ==
  LET moved == [streamers EXCEPT ![right - 1] = got.streamer]
  IN IF got.value = None THEN [streamers |-> moved, verdict |-> "Abort"]
     ELSE IF got.value >= positions[right] THEN [streamers |-> moved, verdict |-> "Continue"]
     ELSE EnforceMaximumDistance(ctx, moved, positions, margin, right - 1)

EnforceMaximumDistance(ctx, streamers, positions, margin, right) ==
  IF right = 1 THEN [streamers |-> streamers, verdict |-> "Valid"]
  ELSE IF positions[right] - positions[right - 1] <= margin
       THEN EnforceMaximumDistance(ctx, streamers, positions, margin, right - 1)
  ELSE Enforced(ctx, streamers, positions, margin, right,
                TryGetOrAdvance(ctx, streamers[right - 1], positions[right] - margin))

RECURSIVE NearNext(_, _, _, _)

\* From the rightmost word's field on, once more; then in one field; then near.
NearDistant(ctx, it, twice, ef, wordLowerBound) ==
  CASE ef.verdict = "Abort" -> [streamers |-> ef.streamers, value |-> None]
    [] ef.verdict = "Continue" -> NearNext(ctx, it, ef.streamers, wordLowerBound)
    [] OTHER -> [streamers |-> ef.streamers,
                 value |-> ZgramRelOf(ctx, Last(twice.positions))]

NearInOneField(ctx, it, twice, wordLowerBound) ==
  IF twice.positions = None THEN [streamers |-> twice.streamers, value |-> None]
  ELSE IF ~AllSameWordInfo(ctx, twice.positions)
       THEN NearNext(ctx, it, twice.streamers, wordLowerBound)
  ELSE NearDistant(ctx, it, twice,
                   EnforceMaximumDistance(ctx, twice.streamers, twice.positions, it.margin,
                                          Len(twice.streamers)),
                   wordLowerBound)

NearMonotonic(ctx, it, once, wordLowerBound) ==
  LET right == WordAt(ctx, Last(once.positions))
      fieldStart == FieldBoundsOf(ctx, ZgramInfo(ctx, right.zgramOff), right.field)[1]
  IN IF once.positions = None
     THEN [streamers |-> once.streamers, value |-> None]
     ELSE NearInOneField(ctx, it, EnsureMonotonic(ctx, once.streamers, <<>>, fieldStart),
                         wordLowerBound)

NearNext(ctx, it, streamers, wordLowerBound) ==
  NearMonotonic(ctx, it, EnsureMonotonic(ctx, streamers, <<>>, wordLowerBound), wordLowerBound)

\* What one result adds in front of the rest.
Prepend(value, rest) == Found(rest.state, <<value>> \o rest.items)

RECURSIVE NearGetMore(_, _, _, _)

NearThen(ctx, it, state, got, capacity) ==
  LET moved == [state EXCEPT !.streamers = got.streamers]
  IN IF got.value = None
     THEN Found(moved, <<>>)
     ELSE Prepend(got.value,
            NearGetMore(ctx, it, [moved EXCEPT !.nextStart = got.value + 1], capacity - 1))

NearGetMore(ctx, it, state, capacity) ==
  LET zg == ZgramInfo(ctx, Flip(ctx, state.nextStart))
  IN IF capacity = 0 \/ state.nextStart = ZgramBounds(ctx)[2]
     THEN Found(state, <<>>)
     ELSE NearThen(ctx, it, state,
                   NearNext(ctx, it, state.streamers, WordBoundsOf(ctx, zg)[1]), capacity)

--------------------------------------------------------------------------------
(* Zgram iterators.                                                           *)

PopOrNotGetMore(ctx, it, state, capacity) ==
  LET end == ZgramBounds(ctx)[2]
      Populated(v) == {f \in AllFields: ZgramInfo(ctx, Flip(ctx, v)).length[f] # 0}
      Included(v) == \/ MatchesEverything(it)
                     \/ it.populated \cap Populated(v) # {}
                     \/ it.unpopulated \cap (AllFields \ Populated(v)) # {}
      items == FirstOf(RelsThat(Included, state.nextStart, end), capacity)
      next == IF Len(items) = capacity THEN Last(items) + 1 ELSE end
  IN Found([state EXCEPT !.nextStart = next], items)

\* Round robin until all the streamers agree on a zgram, or one is exhausted.
RECURSIVE AndNext(_, _, _, _)

AndAgreed(ctx, state, this, inAgreement, got) ==
  LET moved == [state EXCEPT !.streamers[this] = got.streamer]
      agreed == IF got.value = state.nextStart THEN inAgreement + 1 ELSE 1
      n == Len(state.streamers)
  IN CASE got.value = None -> [state |-> moved, value |-> None]
       [] got.value = state.nextStart /\ agreed = n ->
            [state |-> [moved EXCEPT !.nextStart = @ + 1], value |-> got.value]
       [] OTHER -> AndNext(ctx, [moved EXCEPT !.nextStart = got.value], (this % n) + 1, agreed)

AndNext(ctx, state, this, inAgreement) ==
  AndAgreed(ctx, state, this, inAgreement,
            TryGetOrAdvance(ctx, state.streamers[this], state.nextStart))

\* The least of the streamers.
OrLeast(state, gots) ==
  LET moved == [state EXCEPT !.streamers = [i \in 1..Len(gots) |-> gots[i].streamer]]
      values == {gots[i].value: i \in 1..Len(gots)} \ {None}
      least == CHOOSE v \in values: \A w \in values: v <= w
  IN IF values = {}
     THEN [state |-> moved, value |-> None]
     ELSE [state |-> [moved EXCEPT !.nextStart = least + 1], value |-> least]

OrNext(ctx, state) ==
  OrLeast(state, [i \in 1..Len(state.streamers) |->
                   TryGetOrAdvance(ctx, state.streamers[i], state.nextStart)])

RECURSIVE CombinedGetMore(_, _, _, _)

CombinedThen(ctx, it, got, capacity) ==
  IF got.value = None
  THEN Found(got.state, <<>>)
  ELSE Prepend(got.value, CombinedGetMore(ctx, it, got.state, capacity - 1))

CombinedGetMore(ctx, it, state, capacity) ==
  IF capacity = 0
  THEN Found(state, <<>>)
  ELSE CombinedThen(ctx, it,
                    IF it.op = "and" THEN AndNext(ctx, state, 1, 0) ELSE OrNext(ctx, state),
                    capacity)

\* Everything up to the next hit of the child.  A hit beyond what the capacity
\* allows stays in lastChildHit for the next call.
RECURSIVE NotGetMore(_, _, _)

NextHit(state, got) == [state EXCEPT !.streamer = got.streamer, !.lastChildHit = got.value]

NotThen(items, rest) == Found(rest.state, items \o rest.items)

NotUpToHit(ctx, s, capacity) ==
  LET end == ZgramBounds(ctx)[2]
      items == FirstOf(RelsThat(LAMBDA v: \A h \in s.nextStart..v: h # s.lastChildHit,
                                s.nextStart, end), capacity)
      reached == s.nextStart + Len(items)
  IN IF Len(items) = capacity \/ reached = end
     THEN Found([s EXCEPT !.nextStart = reached], items)
     ELSE NotThen(items,
            NotGetMore(ctx, [s EXCEPT !.nextStart = reached + 1, !.lastChildHit = None],
                       capacity - Len(items)))

NotGetMore(ctx, state, capacity) ==
  NotUpToHit(ctx,
             IF state.lastChildHit = None
             THEN NextHit(state, TryGetOrAdvance(ctx, state.streamer, state.nextStart))
             ELSE state,
             capacity)

GetMore(ctx, it, state, lowerBound, capacity) ==
  LET w == UpdateWordStart(ctx, state, lowerBound)
      z == UpdateZgramStart(ctx, state, lowerBound)
      ByOp == CASE it.op = "popornot" -> PopOrNotGetMore(ctx, it, z, capacity)
                [] it.op = "wordadaptor" -> WordAdaptorGetMore(ctx, it, z, capacity)
                [] it.op = "near" -> NearGetMore(ctx, it, z, capacity)
                [] it.op = "not" -> NotGetMore(ctx, z, capacity)
                [] it.op \in {"and", "or"} -> CombinedGetMore(ctx, it, z, capacity)
  IN IF it.op = "anchored" THEN AnchoredGetMore(ctx, it, state, lowerBound, capacity)
     ELSE IF it.op \in {"anyword", "pattern"}
     THEN IF it.fields = {} THEN Found(state, <<>>)
          ELSE IF w.nextStart >= WordBounds(ctx)[2] THEN Found(w, <<>>)
          ELSE IF it.op = "anyword" THEN AnyWordGetMore(ctx, it, w, capacity)
          ELSE PatternGetMore(ctx, it, w, capacity)
     ELSE IF MatchesNothing(it) THEN Found(state, <<>>)
     ELSE IF z.nextStart >= ZgramBounds(ctx)[2] THEN Found(z, <<>>)
     ELSE ByOp
==============================================================================
