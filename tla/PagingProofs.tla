---------------------------- MODULE PagingProofs ----------------------------
(***************************************************************************)
(* What holds of a page and its subscription for every page size, margin,  *)
(* number of zgrams, posts, reindexings and failed look-ups.               *)
(***************************************************************************)
EXTENDS Paging, FiniteSetTheorems, SequenceTheorems, TLAPS

StoredZgrams == [id: Nat, matches: BOOLEAN, logged: BOOLEAN]
EstimatesSet == [Sides -> [count: Nat, exact: BOOLEAN]]
Requests ==
  [type: {"Subscribe"}, start: Nat \union {End}]
    \union [type: {"GetMoreZgrams"}, side: Sides, count: Nat]
Responses ==
  ([type: {"AckSubscribe", "EstimatesUpdate"}, estimates: EstimatesSet] \union [type: {"GeneralError"}])
    \union [type: {"AckMoreZgrams"}, side: Sides, zgrams: Seq(Nat), estimates: EstimatesSet]
StatusSet == [residual: Seq(Nat), next: Nat]

\* What the variables hold.
SubscriptionTypeOK ==
  /\ index \subseteq StoredZgrams /\ IsFiniteSet(index)
  /\ subscribed \in BOOLEAN /\ displayed \in [Sides -> Nat] /\ status \in [Sides -> StatusSet]
  /\ lastEstimates \in EstimatesSet
  /\ resets \in Nat /\ failures \in Nat /\ purged \in BOOLEAN
PagingTypeOK ==
  /\ SubscriptionTypeOK
  /\ requests \in Seq(Requests) /\ responses \in Seq(Responses)
  /\ zgrams \in Seq(Nat) /\ appetite \in [Sides -> Nat \union {Undefined}]
  /\ estimate \in EstimatesSet /\ outstanding \in BOOLEAN

\* The answers with zgrams that are on their way, and what they bring.
AnswersIn(resp) == {i \in DOMAIN resp: resp[i].type = "AckMoreZgrams"}
Answers == AnswersIn(responses)
ComingIn(resp, side) ==
  LET answers == {i \in DOMAIN resp: resp[i].type = "AckMoreZgrams" /\ resp[i].side = side}
  IN IF answers = {} THEN <<>> ELSE resp[Min(answers)].zgrams

OneAnswer(resp) == \A i, j \in AnswersIn(resp): i = j

\* Estimates that make the page ask for more, if it wants any.
Promises(e) == ~e.exact \/ e.count # 0

\* The page asks for one thing at a time, and for no more than it wants.
RequestsOK ==
  /\ Len(requests) <= 1
  /\ requests # <<>> /\ Head(requests).type = "Subscribe" =>
       /\ responses = <<>> /\ ~subscribed /\ ~outstanding /\ failures = 0
       /\ Head(requests).start = End \/ Head(requests).start <= ZgramEnd
       /\ \A side \in Sides: ~Promises(estimate[side])
  /\ requests # <<>> /\ Head(requests).type = "GetMoreZgrams" =>
       /\ outstanding /\ Answers = {}
       /\ Head(requests).count > 0
       /\ LET wanted == appetite[Head(requests).side]
          IN wanted = Undefined \/ Head(requests).count <= wanted
AnswersOK ==
  /\ Answers # {} => outstanding
  /\ OneAnswer(responses)
  /\ \A i \in Answers:
       LET wanted == appetite[responses[i].side]
       IN wanted = Undefined \/ (wanted > 0 /\ Len(responses[i].zgrams) <= wanted)

\* Nothing is shown without a subscription.
NothingBefore ==
  ~subscribed => zgrams = <<>> /\ Answers = {} /\ displayed = [side \in Sides |-> 0]

\* One is reached before the other on this side.
Nearer(side, id, other) == IF side = "back" THEN id < other ELSE id > other
Sorted(side, ids) == \A i, j \in DOMAIN ids: i < j => Nearer(side, ids[i], ids[j])

\* An identifier is beyond a place on this side.
Past(side, id, place) == IF side = "back" THEN id >= place ELSE id < place

\* What is beyond what is displayed has been found, nearest first, or is beyond
\* the place that was reached; and when too little has been found, that is all.
Held(side, s, idx, place) ==
  /\ IdsBeyond(idx, side, place) = Range(s.residual) \union IdsBeyond(idx, side, s.next)
  /\ Sorted(side, s.residual)
  /\ \A id \in Range(s.residual): ~Past(side, id, s.next)
SideOK(side, s, idx, place) ==
  /\ Held(side, s, idx, place)
  /\ Len(s.residual) < QueryMargin => IdsBeyond(idx, side, s.next) = {}
SidesOK ==
  subscribed =>
    /\ \A side \in Sides: SideOK(side, status[side], index, displayed[side]) /\ status[side].next <= ZgramEnd
    /\ displayed["front"] <= displayed["back"] /\ displayed["back"] <= ZgramEnd

\* What the page shows and what comes is between the two ends of what the
\* backend holds for displayed, in order, and all there is.
AllBefore(ids, others) == \A id \in Range(ids), other \in Range(others): id < other
InOrder(front, shown, back) ==
  /\ Sorted("front", front) /\ Sorted("back", shown) /\ Sorted("back", back)
  /\ AllBefore(front, shown) /\ AllBefore(shown, back) /\ AllBefore(front, back)
Together == InOrder(Coming("front"), zgrams, Coming("back"))
OnThePage == Range(zgrams) \union Range(Coming("front")) \union Range(Coming("back"))
WithinDisplayed == \A id \in OnThePage: displayed["front"] <= id /\ id < displayed["back"]
AllThereIs ==
  failures = 0 =>
    \A z \in index: z.matches /\ displayed["front"] <= z.id /\ z.id < displayed["back"] => z.id \in OnThePage

\* Until a reindexing drops zgrams or a look-up fails, the last estimates are the
\* truth, they are the last that the page heard or will hear, and those it will
\* act on never promise what is not there.
TrueEstimate(idx, side, place) ==
  LET n == Cardinality(IdsBeyond(idx, side, place))
  IN [count |-> IF n < QueryMargin THEN n ELSE QueryMargin, exact |-> n < QueryMargin]
Undisturbed == subscribed /\ ~purged /\ failures = 0
Kept(estimates) ==
  \A side \in Sides: Promises(estimates[side]) => IdsBeyond(index, side, displayed[side]) # {}
LastTrue == \A side \in Sides: lastEstimates[side] = TrueEstimate(index, side, displayed[side])
NoneEmpty ==
  \A i \in DOMAIN responses:
    /\ responses[i].type # "GeneralError"
    /\ responses[i].type = "AckMoreZgrams" => responses[i].zgrams # <<>>
LastTold ==
  IF responses = <<>> THEN estimate = lastEstimates
                      ELSE responses[Len(responses)].estimates = lastEstimates
PromisesKept ==
  /\ Answers = {} => Kept(estimate)
  /\ \A i \in DOMAIN responses: (\A j \in Answers: j <= i) => Kept(responses[i].estimates)
AskedIsThere ==
  requests # <<>> /\ Head(requests).type = "GetMoreZgrams" =>
    LET side == Head(requests).side
    IN IdsBeyond(index, side, displayed[side]) # {}
Informed == Undisturbed => LastTrue /\ NoneEmpty /\ LastTold /\ PromisesKept /\ AskedIsThere

PagingInvariant ==
  /\ PagingTypeOK /\ RequestsOK /\ AnswersOK /\ NothingBefore /\ SidesOK
  /\ Together /\ WithinDisplayed /\ AllThereIs /\ Informed
-----------------------------------------------------------------------------
(* Listing a set nearest first. *)

LEMMA SideNames == Sides = {"front", "back"} /\ "front" # "back"
BY DEF Sides

\* The place of an element among those of a finite set.
Rank(side, ids, id) == Cardinality(NotFarther(side, ids, id))

LEMMA RankGrows ==
    ASSUME NEW side \in Sides, NEW ids \in SUBSET Nat, IsFiniteSet(ids), NEW x \in ids
    PROVE  /\ Rank(side, ids, x) \in 1..Cardinality(ids)
           /\ \A y \in ids: Nearer(side, x, y) => Rank(side, ids, x) < Rank(side, ids, y)
<1>1. ASSUME NEW z \in ids
      PROVE  /\ NotFarther(side, ids, z) \in SUBSET ids /\ z \in NotFarther(side, ids, z)
             /\ IsFiniteSet(NotFarther(side, ids, z)) /\ Rank(side, ids, z) \in Nat
  <2>1. NotFarther(side, ids, z) \in SUBSET ids /\ z \in NotFarther(side, ids, z)
    BY DEF NotFarther
  <2>2. IsFiniteSet(NotFarther(side, ids, z))
    BY <2>1, FS_Subset
  <2> QED BY <2>1, <2>2, FS_CardinalityType DEF Rank
<1>2. Rank(side, ids, x) \in 1..Cardinality(ids)
  <2>1. Rank(side, ids, x) <= Cardinality(ids) /\ Cardinality(ids) \in Nat
    BY <1>1, FS_Subset, FS_CardinalityType DEF Rank
  <2>2. Rank(side, ids, x) # 0
    BY <1>1, FS_EmptySet DEF Rank
  <2> QED BY <1>1, <2>1, <2>2
<1>3. ASSUME NEW y \in ids, Nearer(side, x, y) PROVE Rank(side, ids, x) < Rank(side, ids, y)
  <2>1. /\ NotFarther(side, ids, x) \in SUBSET NotFarther(side, ids, y)
        /\ y \notin NotFarther(side, ids, x)
    <3>1. x \in Nat /\ y \in Nat /\ ids \subseteq Nat
      OBVIOUS
    <3>2. y \notin NotFarther(side, ids, x)
      BY <1>3, <3>1 DEF NotFarther, Nearer
    <3>3. ASSUME NEW z \in NotFarther(side, ids, x) PROVE z \in NotFarther(side, ids, y)
      <4>1. z \in ids /\ z \in Nat
        BY DEF NotFarther
      <4>2. CASE side = "back"
        BY <1>3, <3>1, <4>1, <4>2 DEF NotFarther, Nearer
      <4>3. CASE side # "back"
        BY <1>3, <3>1, <4>1, <4>3 DEF NotFarther, Nearer
      <4> QED BY <4>2, <4>3
    <3> QED BY <3>2, <3>3
  <2>2. Rank(side, ids, x) <= Rank(side, ids, y) /\ Rank(side, ids, x) # Rank(side, ids, y)
    BY <1>1, <2>1, FS_Subset DEF Rank
  <2> QED BY <1>1, <2>2
<1> QED BY <1>2, <1>3

LEMMA Comparable ==
    ASSUME NEW side \in Sides, NEW x \in Nat, NEW y \in Nat
    PROVE  x = y \/ Nearer(side, x, y) \/ Nearer(side, y, x)
BY DEF Nearer

LEMMA RankedAll ==
    ASSUME NEW side \in Sides, NEW ids \in SUBSET Nat, IsFiniteSet(ids), NEW n \in 1..Cardinality(ids)
    PROVE  \E id \in ids: Rank(side, ids, id) = n
<1> DEFINE f == [id \in ids |-> Rank(side, ids, id)]
<1>1. f \in [ids -> 1..Cardinality(ids)]
  BY RankGrows
<1>2. ASSUME NEW x \in ids, NEW y \in ids, f[x] = f[y] PROVE x = y
  <2>1. Rank(side, ids, x) = Rank(side, ids, y) /\ Rank(side, ids, x) \in Nat /\ x \in Nat /\ y \in Nat
    BY <1>2, RankGrows
  <2> QED BY <2>1, Comparable, RankGrows
<1>3. Cardinality(ids) \in Nat
  BY FS_CardinalityType
<1>4. IsFiniteSet(1..Cardinality(ids)) /\ Cardinality(1..Cardinality(ids)) = Cardinality(ids)
  BY <1>3, FS_Interval
<1>5. f \in Injection(ids, 1..Cardinality(ids))
  BY <1>1, <1>2 DEF Injection, IsInjective
<1> HIDE DEF f
<1>6. f \in Surjection(ids, 1..Cardinality(ids))
  BY <1>4, <1>5, FS_Injection
<1>7. PICK id \in ids: f[id] = n
  BY <1>6 DEF Surjection
<1> QED BY <1>7 DEF f

LEMMA Nearest ==
    ASSUME NEW side \in Sides, NEW ids \in SUBSET Nat, IsFiniteSet(ids)
    PROVE  /\ NearestFirst(side, ids) \in Seq(Nat) /\ Len(NearestFirst(side, ids)) = Cardinality(ids)
           /\ Range(NearestFirst(side, ids)) = ids /\ Sorted(side, NearestFirst(side, ids))
<1> DEFINE s == NearestFirst(side, ids)
           m == Cardinality(ids)
<1>1. m \in Nat
  BY FS_CardinalityType
<1>2. ASSUME NEW n \in 1..m PROVE s[n] \in ids /\ Rank(side, ids, s[n]) = n
  <2>1. s[n] = CHOOSE id \in ids: Rank(side, ids, id) = n
    BY DEF NearestFirst, Rank
  <2> HIDE DEF s
  <2> QED BY <2>1, RankedAll
<1>3. DOMAIN s = 1..m /\ s \in [1..m -> ids]
  BY <1>2 DEF NearestFirst
<1> HIDE DEF s, m
<1>4. s \in Seq(Nat) /\ Len(s) = m
  <2>1. s \in [1..m -> Nat]
    BY <1>3
  <2> QED BY <1>1, <2>1
<1>5. ASSUME NEW id \in ids PROVE \E n \in 1..m: s[n] = id
  <2>1. PICK n \in 1..m: n = Rank(side, ids, id)
    BY RankGrows DEF m
  <2>2. s[n] \in ids /\ Rank(side, ids, s[n]) = Rank(side, ids, id) /\ Rank(side, ids, id) \in Nat
    BY <1>2, <2>1
  <2>3. s[n] = id
    <3> DEFINE other == s[n]
    <3>1. other \in ids /\ Rank(side, ids, other) = Rank(side, ids, id) /\ Rank(side, ids, id) \in Nat
      BY <2>2
    <3> HIDE DEF other
    <3>2. ~Nearer(side, other, id) /\ ~Nearer(side, id, other)
      <4>1. ASSUME Nearer(side, other, id) PROVE FALSE
        <5>1. Rank(side, ids, other) < Rank(side, ids, id)
          BY <3>1, <4>1, RankGrows
        <5> QED BY <3>1, <5>1
      <4>2. ASSUME Nearer(side, id, other) PROVE FALSE
        <5>1. Rank(side, ids, id) < Rank(side, ids, other)
          BY <3>1, <4>2, RankGrows
        <5> QED BY <3>1, <5>1
      <4> QED BY <4>1, <4>2
    <3> QED BY <3>1, <3>2, Comparable DEF other
  <2> QED BY <2>3
<1>6. Range(s) = ids
  BY <1>2, <1>3, <1>5 DEF Range
<1>7. ASSUME NEW i \in 1..m, NEW j \in 1..m, i < j PROVE Nearer(side, s[i], s[j])
  <2>1. s[i] \in ids /\ s[j] \in ids /\ Rank(side, ids, s[i]) = i /\ Rank(side, ids, s[j]) = j
    BY <1>2
  <2>2. s[i] # s[j] /\ ~Nearer(side, s[j], s[i])
    <3>1. ASSUME Nearer(side, s[j], s[i]) PROVE FALSE
      <4>1. Rank(side, ids, s[j]) < Rank(side, ids, s[i])
        BY <2>1, <3>1, RankGrows
      <4> QED BY <1>1, <1>7, <2>1, <4>1
    <3>2. s[i] # s[j]
      BY <1>1, <1>7, <2>1
    <3> QED BY <3>1, <3>2
  <2> QED BY <2>1, <2>2, Comparable
<1> QED BY <1>3, <1>4, <1>6, <1>7 DEF Sorted, s, m

-----------------------------------------------------------------------------
(* What there is in an index beyond a place. *)

IndexOK(idx) == idx \subseteq StoredZgrams /\ IsFiniteSet(idx)
Matching(idx) == {z.id: z \in {z \in idx: z.matches}}

LEMMA BeyondIs ==
    ASSUME NEW idx, NEW side, NEW place
    PROVE  IdsBeyond(idx, side, place) = {id \in Matching(idx): Past(side, id, place)}
<1>1. CASE side = "back"
  BY <1>1 DEF IdsBeyond, Matching, Past
<1>2. CASE side # "back"
  BY <1>2 DEF IdsBeyond, Matching, Past
<1> QED BY <1>1, <1>2

LEMMA MatchingMembers ==
    ASSUME NEW idx, NEW id
    PROVE  id \in Matching(idx) <=> \E z \in idx: z.matches /\ z.id = id
BY DEF Matching

LEMMA IdsFinite ==
    ASSUME NEW idx, IndexOK(idx)
    PROVE  /\ {z.id + 1: z \in idx} \in SUBSET Nat /\ IsFiniteSet({z.id + 1: z \in idx})
           /\ Matching(idx) \in SUBSET Nat /\ IsFiniteSet(Matching(idx))
<1> DEFINE ends == {z.id + 1: z \in idx}
           matching == {z \in idx: z.matches}
           f == [z \in idx |-> z.id + 1]
           g == [z \in matching |-> z.id]
<1>1. \A z \in idx: z.id \in Nat
  BY DEF IndexOK, StoredZgrams
<1>2. ends \in SUBSET Nat /\ Matching(idx) \in SUBSET Nat
  BY <1>1 DEF Matching
<1>3. f \in Surjection(idx, ends)
  BY DEF Surjection
<1>4. g \in Surjection(matching, Matching(idx))
  BY DEF Surjection, Matching
<1>5. IsFiniteSet(idx) /\ IsFiniteSet(matching)
  <2>1. IsFiniteSet(idx) /\ matching \in SUBSET idx
    BY DEF IndexOK
  <2> QED BY <2>1, FS_Subset
<1> HIDE DEF f, g, matching, ends
<1>6. IsFiniteSet(ends) /\ IsFiniteSet(Matching(idx))
  BY <1>3, <1>4, <1>5, FS_Surjection
<1> QED BY <1>2, <1>6 DEF ends

LEMMA BeyondType ==
    ASSUME NEW idx, IndexOK(idx), NEW side, NEW place
    PROVE  IdsBeyond(idx, side, place) \in SUBSET Nat /\ IsFiniteSet(IdsBeyond(idx, side, place))
<1>1. IdsBeyond(idx, side, place) \in SUBSET Matching(idx)
  BY BeyondIs
<1> QED BY <1>1, IdsFinite, FS_Subset

LEMMA LeastAndGreatest ==
    ASSUME NEW ids \in SUBSET Nat, IsFiniteSet(ids), ids # {}
    PROVE  /\ Min(ids) \in ids /\ \A id \in ids: Min(ids) <= id
           /\ Max(ids) \in ids /\ \A id \in ids: id <= Max(ids)
<1> DEFINE s == NearestFirst("back", ids)
<1>1. s \in Seq(Nat) /\ Range(s) = ids /\ Sorted("back", s)
  BY Nearest, SideNames
<1> HIDE DEF s
<1>2. Len(s) \in Nat /\ Len(s) # 0 /\ DOMAIN s = 1..Len(s)
  <2>1. Len(s) \in Nat /\ DOMAIN s = 1..Len(s)
    BY <1>1
  <2> QED BY <1>1, <2>1 DEF Range
<1>3. \A id \in ids: s[1] <= id /\ id <= s[Len(s)]
  <2> SUFFICES ASSUME NEW id \in ids PROVE s[1] <= id /\ id <= s[Len(s)]
    OBVIOUS
  <2>1. PICK i \in 1..Len(s): s[i] = id
    BY <1>1, <1>2 DEF Range
  <2>2. s[1] \in Nat /\ s[Len(s)] \in Nat /\ id \in Nat
    BY <1>1, <1>2
  <2>3. s[1] <= s[i]
    BY <1>1, <1>2, <2>1, <2>2 DEF Sorted, Nearer
  <2>4. s[i] <= s[Len(s)]
    BY <1>1, <1>2, <2>1, <2>2 DEF Sorted, Nearer
  <2> QED BY <2>1, <2>3, <2>4
<1>4. s[1] \in ids /\ s[Len(s)] \in ids
  BY <1>1, <1>2 DEF Range
<1>5. Min(ids) \in ids /\ \A id \in ids: Min(ids) <= id
  <2>1. \E x \in ids: \A y \in ids: x <= y
    BY <1>3, <1>4
  <2> QED BY <2>1 DEF Min
<1>6. Max(ids) \in ids /\ \A id \in ids: id <= Max(ids)
  <2>1. \E x \in ids: \A y \in ids: x >= y
    <3>1. \A y \in ids: s[Len(s)] >= y
      BY <1>3, <1>4
    <3> QED BY <1>4, <3>1
  <2> QED BY <2>1 DEF Max
<1> QED BY <1>5, <1>6

\* The end of an index is after each of its zgrams, and no later than that.
EndOf(idx) == Max({0} \union {z.id + 1: z \in idx})

LEMMA EndIs ==
    ASSUME NEW idx, IndexOK(idx)
    PROVE  /\ EndOf(idx) \in Nat
           /\ \A z \in idx: z.id \in Nat /\ z.id < EndOf(idx)
           /\ \A n \in Nat: (\A z \in idx: z.id < n) => EndOf(idx) <= n
           /\ EndOf(idx) # 0 => \E z \in idx: z.id + 1 = EndOf(idx)
<1> DEFINE after == {z.id + 1: z \in idx}
           ends == {0} \union after
<1>1. ends \in SUBSET Nat /\ IsFiniteSet(ends) /\ ends # {}
  <2>1. after \in SUBSET Nat /\ IsFiniteSet(after)
    BY IdsFinite
  <2> HIDE DEF after
  <2>2. IsFiniteSet({0})
    BY FS_Singleton
  <2>3. IsFiniteSet({0} \union after)
    BY <2>1, <2>2, FS_Union
  <2> QED BY <2>1, <2>3
<1>2. Max(ends) \in ends /\ \A n \in ends: n <= Max(ends)
  BY <1>1, LeastAndGreatest
<1>3. \A z \in idx: z.id \in Nat /\ z.id + 1 \in ends
  BY DEF IndexOK, StoredZgrams
<1>4. \A n \in ends: n # 0 => \E z \in idx: z.id + 1 = n
  OBVIOUS
<1>5. EndOf(idx) = Max(ends)
  BY DEF EndOf
<1> HIDE DEF ends
<1>6. EndOf(idx) \in Nat /\ \A z \in idx: z.id \in Nat /\ z.id < EndOf(idx)
  <2>1. EndOf(idx) \in Nat
    BY <1>1, <1>2, <1>5
  <2>2. ASSUME NEW z \in idx PROVE z.id \in Nat /\ z.id < EndOf(idx)
    <3>1. z.id \in Nat /\ z.id + 1 <= EndOf(idx)
      BY <1>2, <1>3, <1>5
    <3> QED BY <2>1, <3>1
  <2> QED BY <2>1, <2>2
<1>7. ASSUME NEW n \in Nat, \A z \in idx: z.id < n PROVE EndOf(idx) <= n
  <2>1. CASE EndOf(idx) = 0
    BY <2>1
  <2>2. CASE EndOf(idx) # 0
    <3>1. PICK z \in idx: z.id + 1 = EndOf(idx)
      BY <1>2, <1>4, <1>5, <2>2
    <3> QED BY <1>3, <1>6, <1>7, <3>1
  <2> QED BY <2>1, <2>2
<1> QED BY <1>2, <1>4, <1>5, <1>6, <1>7

-----------------------------------------------------------------------------
(* Finding more, and taking from what was found. *)

LEMMA SortedParts ==
    ASSUME NEW side \in Sides, NEW s \in Seq(Nat), NEW t \in Seq(Nat),
           Sorted(side, s), Sorted(side, t),
           \A x \in Range(s), y \in Range(t): Nearer(side, x, y)
    PROVE  Sorted(side, s \o t)
<1> SUFFICES ASSUME NEW i \in 1..Len(s) + Len(t), NEW j \in 1..Len(s) + Len(t), i < j
             PROVE  Nearer(side, (s \o t)[i], (s \o t)[j])
  BY ConcatProperties, LenProperties DEF Sorted
<1>1. Len(s) \in Nat /\ Len(t) \in Nat /\ DOMAIN s = 1..Len(s) /\ DOMAIN t = 1..Len(t)
  BY LenProperties
<1>2. /\ (s \o t)[i] = IF i <= Len(s) THEN s[i] ELSE t[i - Len(s)]
      /\ (s \o t)[j] = IF j <= Len(s) THEN s[j] ELSE t[j - Len(s)]
  BY ConcatProperties
<1>3. CASE j <= Len(s)
  <2>1. i \in DOMAIN s /\ j \in DOMAIN s /\ i <= Len(s)
    BY <1>1, <1>3
  <2>2. Nearer(side, s[i], s[j])
    BY <2>1 DEF Sorted
  <2> QED BY <1>2, <1>3, <2>1, <2>2
<1>4. CASE i > Len(s)
  <2>1. i - Len(s) \in DOMAIN t /\ j - Len(s) \in DOMAIN t /\ i - Len(s) < j - Len(s)
    BY <1>1, <1>4
  <2>2. Nearer(side, t[i - Len(s)], t[j - Len(s)])
    BY <2>1 DEF Sorted
  <2> QED BY <1>1, <1>2, <1>4, <2>2
<1>5. CASE i <= Len(s) /\ j > Len(s)
  <2>1. i \in DOMAIN s /\ j - Len(s) \in DOMAIN t
    BY <1>1, <1>5
  <2>2. s[i] \in Range(s) /\ t[j - Len(s)] \in Range(t)
    BY <2>1 DEF Range
  <2> QED BY <1>1, <1>2, <1>5, <2>2
<1> QED BY <1>1, <1>3, <1>4, <1>5

\* The first n of a sorted sequence and the rest.
LEMMA Split ==
    ASSUME NEW side \in Sides, NEW s \in Seq(Nat), Sorted(side, s), NEW n \in 0..Len(s)
    PROVE  /\ SubSeq(s, 1, n) \in Seq(Nat) /\ Len(SubSeq(s, 1, n)) = n
           /\ AllBut(s, n) \in Seq(Nat) /\ Len(AllBut(s, n)) = Len(s) - n
           /\ Sorted(side, SubSeq(s, 1, n)) /\ Sorted(side, AllBut(s, n))
           /\ Range(s) = Range(SubSeq(s, 1, n)) \union Range(AllBut(s, n))
           /\ \A x \in Range(SubSeq(s, 1, n)), y \in Range(AllBut(s, n)): Nearer(side, x, y)
<1> DEFINE p == SubSeq(s, 1, n)
           r == SubSeq(s, n + 1, Len(s))
<1>1. Len(s) \in Nat /\ DOMAIN s = 1..Len(s) /\ n \in Nat /\ n <= Len(s)
  BY LenProperties
<1>2. \A i \in 1..Len(s): s[i] \in Nat
  BY ElementOfSeq
<1>3. p \in Seq(Nat) /\ Len(p) = n /\ \A i \in 1..n: p[i] = s[i]
  <2>1. \A i \in 1..n: s[i] \in Nat
    BY <1>1, <1>2
  <2>2. p \in Seq(Nat) /\ Len(p) = IF 1 <= n THEN n - 1 + 1 ELSE 0
    BY <1>1, <2>1, SubSeqProperties
  <2>3. \A i \in 1..n - 1 + 1: p[i] = s[1 + i - 1]
    BY <1>1, <2>1, SubSeqProperties
  <2> HIDE DEF p
  <2> QED BY <1>1, <2>2, <2>3
<1>4. r \in Seq(Nat) /\ Len(r) = Len(s) - n /\ \A i \in 1..Len(s) - n: r[i] = s[n + i]
  <2>1. \A i \in n + 1..Len(s): s[i] \in Nat
    BY <1>1, <1>2
  <2>2. r \in Seq(Nat) /\ Len(r) = IF n + 1 <= Len(s) THEN Len(s) - (n + 1) + 1 ELSE 0
    BY <1>1, <2>1, SubSeqProperties
  <2>3. \A i \in 1..Len(s) - (n + 1) + 1: r[i] = s[n + 1 + i - 1]
    BY <1>1, <2>1, SubSeqProperties
  <2> HIDE DEF r
  <2>4. Len(s) - (n + 1) + 1 = Len(s) - n
    BY <1>1
  <2>5. Len(r) = Len(s) - n
    <3>1. CASE n + 1 <= Len(s)
      <4>1. Len(r) = Len(s) - (n + 1) + 1
        BY <2>2, <3>1, Zenon
      <4> QED BY <2>4, <4>1, Zenon
    <3>2. CASE ~(n + 1 <= Len(s))
      <4>1. Len(r) = 0
        BY <2>2, <3>2, Zenon
      <4>2. Len(s) - n = 0
        <5>1. PICK m \in Nat: m = Len(s)
          BY <1>1
        <5>2. n \in Nat /\ n <= m /\ ~(n + 1 <= m)
          BY <1>1, <3>2, <5>1, Zenon
        <5>3. m = n
          BY <5>2
        <5>4. n - n = 0
          BY <5>2
        <5> QED BY <5>1, <5>3, <5>4, Zenon
      <4> QED BY <4>1, <4>2, Zenon
    <3> QED BY <3>1, <3>2, Zenon
  <2>6. ASSUME NEW i \in 1..Len(s) - n PROVE r[i] = s[n + i]
    <3>1. r[i] = s[n + 1 + i - 1] /\ n + 1 + i - 1 = n + i
      BY <1>1, <2>3, <2>4
    <3> QED BY <3>1
  <2> QED BY <2>2, <2>5, <2>6
<1>5. AllBut(s, n) = r
  BY DEF AllBut
<1> HIDE DEF p, r
<1>6. DOMAIN p = 1..n /\ DOMAIN r = 1..Len(s) - n
  BY <1>3, <1>4, LenProperties
<1>7. Sorted(side, p) /\ Sorted(side, r)
  <2>1. ASSUME NEW i \in 1..n, NEW j \in 1..n, i < j PROVE Nearer(side, p[i], p[j])
    <3>1. i \in DOMAIN s /\ j \in DOMAIN s
      BY <1>1
    <3>2. Nearer(side, s[i], s[j])
      BY <2>1, <3>1 DEF Sorted
    <3> QED BY <1>3, <3>2
  <2>2. ASSUME NEW i \in 1..Len(s) - n, NEW j \in 1..Len(s) - n, i < j PROVE Nearer(side, r[i], r[j])
    <3>1. n + i \in DOMAIN s /\ n + j \in DOMAIN s /\ n + i < n + j
      BY <1>1, <2>2
    <3>2. Nearer(side, s[n + i], s[n + j])
      BY <3>1 DEF Sorted
    <3> QED BY <1>4, <3>2
  <2> QED BY <1>6, <2>1, <2>2 DEF Sorted
<1>8. ASSUME NEW i \in 1..n, NEW j \in 1..Len(s) - n PROVE Nearer(side, p[i], r[j])
  <2>1. i \in DOMAIN s /\ n + j \in DOMAIN s /\ i < n + j
    BY <1>1
  <2>2. Nearer(side, s[i], s[n + j])
    BY <2>1 DEF Sorted
  <2> QED BY <1>3, <1>4, <2>2
<1>9. Range(s) = Range(p) \union Range(r)
  <2>1. ASSUME NEW i \in 1..n PROVE p[i] \in Range(s)
    <3>1. i \in DOMAIN s
      BY <1>1
    <3> QED BY <1>3, <3>1 DEF Range
  <2>2. ASSUME NEW i \in 1..Len(s) - n PROVE r[i] \in Range(s)
    <3>1. n + i \in DOMAIN s
      BY <1>1
    <3> QED BY <1>4, <3>1 DEF Range
  <2>3. ASSUME NEW i \in 1..Len(s) PROVE s[i] \in Range(p) \union Range(r)
    <3>1. CASE i <= n
      BY <1>1, <1>3, <1>6, <3>1 DEF Range
    <3>2. CASE i > n
      <4>1. i - n \in 1..Len(s) - n /\ n + (i - n) = i
        BY <1>1, <3>2
      <4>2. r[i - n] = s[i]
        BY <1>4, <4>1
      <4> QED BY <1>6, <4>1, <4>2 DEF Range
    <3> QED BY <1>1, <3>1, <3>2
  <2>4. \A x \in Range(p): x \in Range(s)
    BY <1>6, <2>1 DEF Range
  <2>5. \A x \in Range(r): x \in Range(s)
    BY <1>6, <2>2 DEF Range
  <2>6. \A x \in Range(s): x \in Range(p) \union Range(r)
    BY <1>1, <2>3 DEF Range
  <2> QED BY <2>4, <2>5, <2>6
<1>10. \A x \in Range(p), y \in Range(r): Nearer(side, x, y)
  BY <1>6, <1>8 DEF Range
<1> QED BY <1>3, <1>4, <1>5, <1>7, <1>9, <1>10 DEF p

LEMMA Order ==
    ASSUME NEW side \in Sides, NEW x \in Nat, NEW y \in Nat, NEW place \in Nat
    PROVE  /\ Nearer(side, x, y) => ~Nearer(side, y, x) /\ x # y
           /\ Past(side, x, place) /\ Nearer(side, x, y) => Past(side, y, place)
           /\ ~Past(side, x, place) /\ Past(side, y, place) => Nearer(side, x, y)
           /\ Past(side, y, IF side = "back" THEN x + 1 ELSE x) <=> Nearer(side, x, y)
<1>1. CASE side = "back"
  BY <1>1 DEF Nearer, Past
<1>2. CASE side # "back"
  BY <1>2 DEF Nearer, Past
<1> QED BY <1>1, <1>2

LEMMA FoundHolds ==
    ASSUME NEW side \in Sides, NEW idx, IndexOK(idx), NEW s \in StatusSet, NEW place \in Nat,
           Held(side, s, idx, place), NEW n \in 0..Len(Beyond(idx, side, s.next))
    PROVE  LET s2 == Found(side, s, SubSeq(Beyond(idx, side, s.next), 1, n))
           IN /\ s2 \in StatusSet /\ Held(side, s2, idx, place)
              /\ Len(s2.residual) = Len(s.residual) + n
              /\ n = Len(Beyond(idx, side, s.next)) => IdsBeyond(idx, side, s2.next) = {}
              /\ \A m \in Nat: s.next <= m /\ EndOf(idx) <= m => s2.next <= m
<1> DEFINE ids == IdsBeyond(idx, side, s.next)
           coming == Beyond(idx, side, s.next)
           items == SubSeq(coming, 1, n)
           rest == AllBut(coming, n)
           s2 == Found(side, s, items)
<1>1. s.residual \in Seq(Nat) /\ s.next \in Nat
  BY DEF StatusSet
<1>2. ids \in SUBSET Nat /\ IsFiniteSet(ids)
  BY BeyondType
<1>3. coming \in Seq(Nat) /\ Len(coming) = Cardinality(ids) /\ Range(coming) = ids /\ Sorted(side, coming)
  BY <1>2, Nearest DEF Beyond
<1>4. n \in 0..Len(coming)
  OBVIOUS
<1>5. s2.residual = s.residual \o items /\ s2 = [residual |-> s.residual \o items, next |-> s2.next]
  BY DEF Found
<1>6. s2.next = IF items = <<>> THEN s.next ELSE IF side = "back" THEN items[Len(items)] + 1 ELSE items[Len(items)]
  BY DEF Found, Last
<1> HIDE DEF coming
<1>7. /\ items \in Seq(Nat) /\ Len(items) = n
      /\ rest \in Seq(Nat) /\ Len(rest) = Len(coming) - n
      /\ Sorted(side, items) /\ Sorted(side, rest)
      /\ Range(coming) = Range(items) \union Range(rest)
      /\ \A x \in Range(items), y \in Range(rest): Nearer(side, x, y)
  BY <1>3, <1>4, Split
<1> HIDE DEF items, rest, s2, ids
<1>8. DOMAIN items = 1..n /\ n \in Nat /\ n <= Len(coming) /\ Len(coming) \in Nat
  BY <1>3, <1>4, <1>7, LenProperties
<1>9. Range(items) \subseteq Nat /\ Range(rest) \subseteq Nat /\ Range(s.residual) \subseteq Nat
  BY <1>1, <1>7, RangeOfSeq
<1>10. \A x \in ids: x \in Matching(idx) /\ Past(side, x, s.next)
  BY BeyondIs DEF ids
<1>11. \A x \in Matching(idx): Past(side, x, s.next) => x \in ids
  BY BeyondIs DEF ids
<1>12. Matching(idx) \subseteq Nat
  BY IdsFinite
<1>13. /\ s2.next \in Nat
       /\ \A x \in Range(items): ~Past(side, x, s2.next)
       /\ \A x \in Range(s.residual): ~Past(side, x, s2.next)
       /\ \A x \in Range(rest): Past(side, x, s2.next)
       /\ \A x \in Matching(idx): Past(side, x, s2.next) => x \in Range(rest)
       /\ \A m \in Nat: s.next <= m /\ EndOf(idx) <= m => s2.next <= m
  <2>1. CASE items = <<>>
    <3>1. Range(items) = {}
      BY <2>1 DEF Range
    <3>2. s2.next = s.next
      BY <1>6, <2>1
    <3> QED BY <1>1, <1>3, <1>7, <1>10, <1>11, <3>1, <3>2 DEF Held
  <2>2. CASE items # <<>>
    <3> DEFINE last == items[Len(items)]
    <3>1. n # 0 /\ Len(items) \in DOMAIN items
      <4>1. n # 0
        BY <1>7, <2>2, EmptySeq
      <4> QED BY <1>7, <1>8, <4>1
    <3>2. last \in Range(items) /\ last \in Nat
      BY <1>9, <3>1 DEF Range
    <3>3. ASSUME NEW x \in Range(items) PROVE x = last \/ Nearer(side, x, last)
      <4>1. PICK i \in DOMAIN items: items[i] = x
        BY DEF Range
      <4>2. CASE i = Len(items)
        BY <4>1, <4>2
      <4>3. CASE i # Len(items)
        <5>1. i < Len(items)
          BY <1>7, <1>8, <4>3
        <5> QED BY <1>7, <3>1, <4>1, <5>1 DEF Sorted
      <4> QED BY <4>2, <4>3
    <3>4. s2.next = IF side = "back" THEN last + 1 ELSE last
      BY <1>6, <2>2
    <3> HIDE DEF last
    <3>5. s2.next \in Nat
      BY <3>2, <3>4
    <3>6. \A x \in Nat: Past(side, x, s2.next) <=> Nearer(side, last, x)
      <4> SUFFICES ASSUME NEW x \in Nat PROVE Past(side, x, s2.next) <=> Nearer(side, last, x)
        OBVIOUS
      <4>1. CASE side = "back"
        BY <3>2, <3>4, <4>1 DEF Past, Nearer
      <4>2. CASE side # "back"
        BY <3>2, <3>4, <4>2 DEF Past, Nearer
      <4> QED BY <4>1, <4>2
    <3>7. \A x \in Range(items): ~Past(side, x, s2.next)
      BY <1>1, <1>9, <3>2, <3>3, <3>6, Order
    <3>8. last \in ids /\ Past(side, last, s.next) /\ last \in Matching(idx)
      BY <1>3, <1>7, <1>10, <3>2
    <3>9. ASSUME NEW x \in Range(s.residual) PROVE ~Past(side, x, s2.next)
      <4>1. x \in Nat /\ ~Past(side, x, s.next)
        BY <1>9 DEF Held
      <4>2. Nearer(side, x, last)
        BY <1>1, <3>2, <3>8, <4>1, Order
      <4> QED BY <1>1, <3>2, <3>6, <4>1, <4>2, Order
    <3>10. \A x \in Range(rest): Past(side, x, s2.next)
      BY <1>7, <1>9, <3>2, <3>6
    <3>11. ASSUME NEW x \in Matching(idx), Past(side, x, s2.next) PROVE x \in Range(rest)
      <4>1. x \in Nat /\ Nearer(side, last, x)
        BY <1>12, <3>6, <3>11
      <4>2. x \in ids
        BY <1>1, <1>11, <3>2, <3>8, <4>1, Order
      <4>3. x \notin Range(items)
        BY <3>7, <3>11
      <4> QED BY <1>3, <1>7, <4>2, <4>3
    <3>12. ASSUME NEW m \in Nat, EndOf(idx) <= m PROVE s2.next <= m
      <4>1. PICK z \in idx: z.id = last
        BY <3>8, MatchingMembers
      <4>2. last < EndOf(idx) /\ EndOf(idx) \in Nat
        BY <4>1, EndIs
      <4>3. last + 1 <= m
        BY <3>2, <3>12, <4>2
      <4> QED BY <3>2, <3>4, <4>3
    <3> QED BY <3>5, <3>7, <3>9, <3>10, <3>11, <3>12
  <2> QED BY <2>1, <2>2
<1>14. IdsBeyond(idx, side, s2.next) = Range(rest)
  <2>1. \A x \in IdsBeyond(idx, side, s2.next): x \in Matching(idx) /\ Past(side, x, s2.next)
    BY BeyondIs
  <2>2. \A x \in Matching(idx): Past(side, x, s2.next) => x \in IdsBeyond(idx, side, s2.next)
    BY BeyondIs
  <2>3. \A x \in Range(rest): x \in Matching(idx)
    BY <1>3, <1>7, <1>10
  <2> QED BY <1>13, <2>1, <2>2, <2>3
<1>15. /\ s.residual \o items \in Seq(Nat) /\ Len(s.residual \o items) = Len(s.residual) + n
       /\ Range(s.residual \o items) = Range(s.residual) \union Range(items)
  <2>1. s.residual \o items \in Seq(Nat) /\ Len(s.residual \o items) = Len(s.residual) + Len(items)
    BY <1>1, <1>7, ConcatProperties
  <2>2. Range(s.residual \o items) = Range(s.residual) \union Range(items)
    BY <1>1, <1>7, RangeConcatenation
  <2> QED BY <1>7, <2>1, <2>2
<1>16. Sorted(side, s.residual \o items)
  <2>1. ASSUME NEW x \in Range(s.residual), NEW y \in Range(items) PROVE Nearer(side, x, y)
    <3>1. x \in Nat /\ y \in Nat /\ ~Past(side, x, s.next) /\ Past(side, y, s.next)
      BY <1>3, <1>7, <1>9, <1>10 DEF Held
    <3> QED BY <1>1, <3>1, Order
  <2>2. Sorted(side, s.residual)
    BY DEF Held
  <2> QED BY <1>1, <1>7, <2>1, <2>2, SortedParts
<1>17. s2 \in StatusSet
  BY <1>5, <1>13, <1>15 DEF StatusSet
<1>18. Held(side, s2, idx, place)
  <2>1. IdsBeyond(idx, side, place) = Range(s.residual) \union ids
    BY DEF Held, ids
  <2>2. IdsBeyond(idx, side, place) = Range(s2.residual) \union IdsBeyond(idx, side, s2.next)
    BY <1>3, <1>5, <1>7, <1>14, <1>15, <2>1
  <2>3. \A x \in Range(s2.residual): ~Past(side, x, s2.next)
    BY <1>5, <1>13, <1>15
  <2> QED BY <1>5, <1>16, <2>2, <2>3 DEF Held
<1>19. n = Len(coming) => Range(rest) = {}
  <2> SUFFICES ASSUME n = Len(coming) PROVE Range(rest) = {}
    OBVIOUS
  <2>1. Len(rest) = 0
    BY <1>7, <1>8
  <2>2. DOMAIN rest = {}
    BY <1>7, <2>1, LenProperties
  <2> QED BY <2>2 DEF Range
<1> QED BY <1>5, <1>13, <1>14, <1>15, <1>17, <1>18, <1>19 DEF s2, items, coming

LEMMA TopUpHolds ==
    ASSUME NEW side \in Sides, NEW idx, IndexOK(idx), NEW s \in StatusSet, NEW place \in Nat,
           Held(side, s, idx, place), NEW minItems \in Nat, NEW s2 \in TopUp(idx, side, s, minItems)
    PROVE  /\ s2 \in StatusSet /\ Held(side, s2, idx, place)
           /\ Len(s2.residual) < minItems => IdsBeyond(idx, side, s2.next) = {}
           /\ \A m \in Nat: s.next <= m /\ EndOf(idx) <= m => s2.next <= m
<1> DEFINE coming == Beyond(idx, side, s.next)
           wanted == minItems - Len(s.residual)
           least == IF Len(coming) < wanted THEN Len(coming) ELSE wanted
<1>1. Len(s.residual) \in Nat
  BY DEF StatusSet
<1>2. Len(coming) \in Nat
  BY BeyondType, Nearest, LenProperties DEF Beyond
<1>3. CASE Len(s.residual) >= minItems
  <2>1. s2 = s
    BY <1>3 DEF TopUp
  <2> QED BY <1>1, <1>3, <2>1
<1>4. CASE ~(Len(s.residual) >= minItems)
  <2>1. PICK n \in least..Len(coming): s2 = Found(side, s, SubSeq(coming, 1, n))
    BY <1>4 DEF TopUp
  <2> HIDE DEF coming
  <2>2. least \in Nat
    BY <1>1, <1>2, <1>4
  <2>3. n \in 0..Len(coming)
    BY <1>2, <2>2
  <2>4. /\ s2 \in StatusSet /\ Held(side, s2, idx, place)
        /\ Len(s2.residual) = Len(s.residual) + n
        /\ n = Len(coming) => IdsBeyond(idx, side, s2.next) = {}
        /\ \A m \in Nat: s.next <= m /\ EndOf(idx) <= m => s2.next <= m
    <3>1. n \in 0..Len(Beyond(idx, side, s.next)) /\ s2 = Found(side, s, SubSeq(Beyond(idx, side, s.next), 1, n))
      BY <2>1, <2>3 DEF coming
    <3> HIDE DEF coming
    <3>2. /\ s2 \in StatusSet /\ Held(side, s2, idx, place)
          /\ Len(s2.residual) = Len(s.residual) + n
          /\ n = Len(Beyond(idx, side, s.next)) => IdsBeyond(idx, side, s2.next) = {}
          /\ \A m \in Nat: s.next <= m /\ EndOf(idx) <= m => s2.next <= m
      <4> DEFINE f == Found(side, s, SubSeq(Beyond(idx, side, s.next), 1, n))
      <4>1. /\ f \in StatusSet /\ Held(side, f, idx, place)
            /\ Len(f.residual) = Len(s.residual) + n
            /\ n = Len(Beyond(idx, side, s.next)) => IdsBeyond(idx, side, f.next) = {}
            /\ \A m \in Nat: s.next <= m /\ EndOf(idx) <= m => f.next <= m
        BY <3>1, FoundHolds
      <4>2. s2 = f
        BY <3>1
      <4> HIDE DEF f
      <4> QED BY <4>1, <4>2
    <3> QED BY <3>2 DEF coming
  <2>5. ASSUME Len(s2.residual) < minItems PROVE n = Len(coming)
    <3>1. n < wanted /\ n \in Nat
      BY <1>1, <2>3, <2>4, <2>5
    <3>2. ~(least = wanted)
      <4>1. least <= n
        BY <1>2, <2>1, <2>2, <2>3
      <4>2. least \in Nat /\ wanted \in Int
        BY <1>1, <2>2
      <4> HIDE DEF least, wanted
      <4> QED BY <3>1, <4>1, <4>2
    <3>3. least = Len(coming)
      BY <3>2
    <3> QED BY <1>2, <2>1, <3>3
  <2> QED BY <2>4, <2>5
<1> QED BY <1>3, <1>4

LEMMA CreateHolds ==
    ASSUME NEW side \in Sides, NEW idx, IndexOK(idx), NEW place \in Nat, NEW s \in CreateSide(idx, side, place)
    PROVE  /\ s \in StatusSet /\ SideOK(side, s, idx, place)
           /\ place <= EndOf(idx) => s.next <= EndOf(idx)
<1> DEFINE none == [residual |-> <<>>, next |-> place]
<1>1. none \in StatusSet
  BY DEF StatusSet
<1>2. Held(side, none, idx, place)
  BY DEF Held, Sorted, Range
<1>3. s \in TopUp(idx, side, none, QueryMargin) /\ QueryMargin \in Nat
  BY SubscriptionAssumption DEF CreateSide
<1>4. EndOf(idx) \in Nat /\ none.next = place
  BY EndIs
<1> HIDE DEF none
<1>5. /\ s \in StatusSet /\ Held(side, s, idx, place)
      /\ Len(s.residual) < QueryMargin => IdsBeyond(idx, side, s.next) = {}
      /\ \A m \in Nat: none.next <= m /\ EndOf(idx) <= m => s.next <= m
  BY <1>1, <1>2, <1>3, TopUpHolds
<1>6. EndOf(idx) <= EndOf(idx)
  BY <1>4
<1> QED BY <1>4, <1>5, <1>6 DEF SideOK

\* A new zgram comes after the places of both sides.
LEMMA HeldAfterPost ==
    ASSUME NEW side \in Sides, NEW idx, IndexOK(idx), NEW s \in StatusSet, NEW place \in Nat,
           Held(side, s, idx, place), NEW z \in StoredZgrams, s.next <= z.id, place <= z.id
    PROVE  Held(side, s, idx \union {z}, place)
<1> DEFINE new == idx \union {z}
<1>1. z.id \in Nat /\ s.next \in Nat
  BY DEF StoredZgrams, StatusSet
<1>2. Matching(new) = Matching(idx) \union (IF z.matches THEN {z.id} ELSE {})
  BY DEF Matching
<1>3. Past(side, z.id, place) <=> Past(side, z.id, s.next)
  BY <1>1 DEF Past
<1>4. IdsBeyond(idx, side, place) = Range(s.residual) \union IdsBeyond(idx, side, s.next)
  BY DEF Held
<1> HIDE DEF new
<1>5. IdsBeyond(new, side, place) = Range(s.residual) \union IdsBeyond(new, side, s.next)
  <2>1. \A x, p: x \in IdsBeyond(new, side, p) <=> x \in Matching(new) /\ Past(side, x, p)
    BY BeyondIs
  <2>2. \A x, p: x \in IdsBeyond(idx, side, p) <=> x \in Matching(idx) /\ Past(side, x, p)
    BY BeyondIs
  <2>3. ASSUME NEW x PROVE x \in IdsBeyond(new, side, place)
                             <=> x \in Range(s.residual) \/ x \in IdsBeyond(new, side, s.next)
    <3>1. x \in Matching(new) <=> x \in Matching(idx) \/ (z.matches /\ x = z.id)
      BY <1>2
    <3>2. x \in IdsBeyond(idx, side, place)
            <=> x \in Range(s.residual) \/ x \in IdsBeyond(idx, side, s.next)
      BY <1>4
    <3> QED BY <1>3, <2>1, <2>2, <3>1, <3>2
  <2> QED BY <2>3
<1> QED BY <1>5 DEF Held, new

LEMMA IncreasingIsOnce ==
    ASSUME NEW side \in Sides, NEW s \in Seq(Nat), Sorted(side, s)
    PROVE  IsFiniteSet(Range(s)) /\ Cardinality(Range(s)) = Len(s)
<1>1. Len(s) \in Nat /\ DOMAIN s = 1..Len(s) /\ \A i \in 1..Len(s): s[i] \in Nat
  BY LenProperties, ElementOfSeq
<1>2. s \in [1..Len(s) -> Range(s)]
  BY <1>1 DEF Range
<1>3. s \in Surjection(1..Len(s), Range(s))
  BY <1>1, <1>2 DEF Surjection, Range
<1>4. ASSUME NEW i \in 1..Len(s), NEW j \in 1..Len(s), i # j PROVE s[i] # s[j]
  <2>1. CASE i < j
    <3>1. Nearer(side, s[i], s[j])
      BY <1>1, <2>1 DEF Sorted
    <3> QED BY <1>1, <3>1 DEF Nearer
  <2>2. CASE j < i
    <3>1. Nearer(side, s[j], s[i])
      BY <1>1, <2>2 DEF Sorted
    <3> QED BY <1>1, <3>1 DEF Nearer
  <2> QED BY <1>4, <2>1, <2>2
<1>5. s \in Injection(1..Len(s), Range(s))
  BY <1>2, <1>4 DEF Injection, IsInjective
<1>6. IsFiniteSet(1..Len(s)) /\ Cardinality(1..Len(s)) = Len(s)
  BY <1>1, FS_Interval
<1> QED BY <1>3, <1>5, <1>6, FS_Surjection

\* What was found tells how much there is.
LEMMA CountedRight ==
    ASSUME NEW side \in Sides, NEW idx, IndexOK(idx), NEW s \in StatusSet, NEW place \in Nat,
           SideOK(side, s, idx, place)
    PROVE  LET n == Cardinality(IdsBeyond(idx, side, place))
           IN  /\ Len(s.residual) < QueryMargin => n = Len(s.residual)
               /\ Len(s.residual) >= QueryMargin => n >= QueryMargin
<1> DEFINE ids == IdsBeyond(idx, side, place)
<1>1. IsFiniteSet(ids)
  BY BeyondType
<1>2. s.residual \in Seq(Nat) /\ Len(s.residual) \in Nat
  BY DEF StatusSet
<1>3. /\ ids = Range(s.residual) \union IdsBeyond(idx, side, s.next) /\ Sorted(side, s.residual)
      /\ Len(s.residual) < QueryMargin => IdsBeyond(idx, side, s.next) = {}
  BY DEF SideOK, Held
<1> HIDE DEF ids
<1>4. Cardinality(Range(s.residual)) = Len(s.residual)
  BY <1>2, <1>3, IncreasingIsOnce
<1>5. Range(s.residual) \in SUBSET ids
  BY <1>3
<1>6. Cardinality(Range(s.residual)) <= Cardinality(ids)
  BY <1>1, <1>5, FS_Subset
<1>7. Len(s.residual) < QueryMargin => ids = Range(s.residual)
  BY <1>3
<1>8. QueryMargin \in Nat /\ Cardinality(ids) \in Nat
  BY <1>1, FS_CardinalityType, SubscriptionAssumption
<1>9. Len(s.residual) >= QueryMargin => Cardinality(ids) >= QueryMargin
  BY <1>2, <1>4, <1>6, <1>8
<1> QED BY <1>4, <1>7, <1>9 DEF ids

Wider(places, ids, new) ==
  /\ new \in [Sides -> Nat]
  /\ new["front"] <= places["front"] /\ places["back"] <= new["back"]
  /\ \A id \in Range(ids): new["front"] <= id /\ id < new["back"]
  /\ new["front"] # places["front"] => new["front"] \in Range(ids)
  /\ new["back"] # places["back"] => \E id \in Range(ids): new["back"] = id + 1

LEMMA DisplayedWidens ==
    ASSUME NEW side \in Sides, NEW places \in [Sides -> Nat], NEW ids \in Seq(Nat), Sorted(side, ids)
    PROVE  Wider(places, ids, UpdateDisplayed(places, ids))
<1> DEFINE old == places["front"]
           end == places["back"]
           fronts == {old} \union Range(ids)
           after == {id + 1: id \in Range(ids)}
           backs == {end} \union after
           f == [id \in Range(ids) |-> id + 1]
           new == UpdateDisplayed(places, ids)
<1>1. Range(ids) \in SUBSET Nat /\ IsFiniteSet(Range(ids))
  BY RangeOfSeq, IncreasingIsOnce
<1>2. old \in Nat /\ end \in Nat
  BY SideNames
<1>3. f \in Surjection(Range(ids), after)
  BY DEF Surjection
<1>4. IsFiniteSet(after)
  <2> HIDE DEF f, after
  <2> QED BY <1>1, <1>3, FS_Surjection
<1>5. after \in SUBSET Nat
  BY <1>1
<1>6. IsFiniteSet({old}) /\ IsFiniteSet({end})
  BY FS_Singleton
<1>7. fronts \in SUBSET Nat /\ IsFiniteSet(fronts) /\ fronts # {}
  <2>1. IsFiniteSet(fronts)
    <3> HIDE DEF old
    <3> QED BY <1>1, <1>6, FS_Union
  <2> QED BY <1>1, <1>2, <2>1
<1>8. backs \in SUBSET Nat /\ IsFiniteSet(backs) /\ backs # {}
  <2> HIDE DEF after, end
  <2>1. IsFiniteSet(backs)
    BY <1>4, <1>6, FS_Union
  <2> QED BY <1>2, <1>5, <2>1
<1>9. new = [front |-> Min(fronts), back |-> Max(backs)]
  BY DEF UpdateDisplayed
<1>10. Min(fronts) \in fronts /\ \A id \in fronts: Min(fronts) <= id
  BY <1>7, LeastAndGreatest
<1>11. Max(backs) \in backs /\ \A id \in backs: id <= Max(backs)
  BY <1>8, LeastAndGreatest
<1> DEFINE least == Min(fronts)
           greatest == Max(backs)
<1>12. new \in [Sides -> Nat] /\ new["front"] = least /\ new["back"] = greatest
  <2>1. least \in Nat /\ greatest \in Nat
    BY <1>7, <1>8, <1>10, <1>11
  <2>2. new = [front |-> least, back |-> greatest]
    BY <1>9
  <2> HIDE DEF new, least, greatest
  <2> QED BY <2>1, <2>2 DEF Sides
<1>13. least <= old /\ (least = old \/ least \in Range(ids)) /\ \A id \in Range(ids): least <= id
  BY <1>10
<1>14. end <= greatest /\ (greatest = end \/ greatest \in after) /\ \A id \in after: id <= greatest
  BY <1>11
<1>15. ASSUME NEW id \in Range(ids) PROVE id < greatest
  <2>1. id + 1 \in after /\ id \in Nat
    BY <1>1
  <2>2. id + 1 <= greatest /\ greatest \in Nat
    BY <1>8, <1>11, <1>14, <2>1
  <2> HIDE DEF greatest
  <2> QED BY <2>1, <2>2
<1>16. greatest \in after => \E id \in Range(ids): greatest = id + 1
  OBVIOUS
<1> HIDE DEF new, least, greatest, after
<1>17. new["front"] <= places["front"] /\ places["back"] <= new["back"]
  BY <1>12, <1>13, <1>14
<1>18. \A id \in Range(ids): new["front"] <= id /\ id < new["back"]
  BY <1>12, <1>13, <1>15
<1>19. new["front"] # places["front"] => new["front"] \in Range(ids)
  BY <1>12, <1>13
<1>20. new["back"] # places["back"] => \E id \in Range(ids): new["back"] = id + 1
  BY <1>12, <1>14, <1>16
<1>21. Wider(places, ids, new)
  BY <1>12, <1>17, <1>18, <1>19, <1>20 DEF Wider
<1> QED BY <1>21 DEF new

\* Taking ids, the first of what was found, moves the end of what is displayed
\* past them and past nothing else.
MovesPast(side, idx, places, s, k, ids, s2, new) ==
  /\ ids \in Seq(Nat) /\ Len(ids) <= k /\ Sorted(side, ids)
  /\ k # 0 /\ s.residual # <<>> => ids # <<>>
  /\ s2 \in StatusSet /\ Held(side, s2, idx, new[side]) /\ s2.next = s.next
  /\ \A n \in Nat: Len(s2.residual) < n => Len(s.residual) < k + n
  /\ new \in [Sides -> Nat] /\ new["front"] <= new["back"] /\ new["back"] <= EndOf(idx)
  /\ new["front"] <= places["front"] /\ places["back"] <= new["back"]
  /\ \A other \in Sides: other # side => new[other] = places[other]
  /\ \A id \in Range(ids): Past(side, id, places[side]) /\ new["front"] <= id /\ id < new["back"]
  /\ \A x \in IdsBeyond(idx, side, places[side]):
       x \in Range(ids) \/ x \in IdsBeyond(idx, side, new[side])

LEMMA Taken ==
    ASSUME NEW side \in Sides, NEW idx, IndexOK(idx), NEW places \in [Sides -> Nat],
           places["front"] <= places["back"], places["back"] <= EndOf(idx),
           NEW s \in StatusSet, Held(side, s, idx, places[side]), s.next <= EndOf(idx),
           NEW k \in Nat, NEW ids, ids = FirstOf(s.residual, k),
           NEW s2, s2 = [s EXCEPT !.residual = AllBut(s.residual, Len(ids))],
           NEW new, new = UpdateDisplayed(places, ids)
    PROVE  MovesPast(side, idx, places, s, k, ids, s2, new)
<1> DEFINE n == IF Len(s.residual) < k THEN Len(s.residual) ELSE k
           rest == AllBut(s.residual, n)
<1>1. s.residual \in Seq(Nat) /\ s.next \in Nat /\ Len(s.residual) \in Nat /\ Sorted(side, s.residual)
  BY DEF StatusSet, Held
<1>2. n \in 0..Len(s.residual) /\ n <= k /\ n \in Nat
  BY <1>1
<1>3. ids = SubSeq(s.residual, 1, n)
  BY DEF FirstOf
<1>4. n # k => n = Len(s.residual)
  OBVIOUS
<1> HIDE DEF n, rest
<1>5. /\ ids \in Seq(Nat) /\ Len(ids) = n
      /\ rest \in Seq(Nat) /\ Len(rest) = Len(s.residual) - n
      /\ Sorted(side, ids) /\ Sorted(side, rest)
      /\ Range(s.residual) = Range(ids) \union Range(rest)
      /\ \A x \in Range(ids), y \in Range(rest): Nearer(side, x, y)
  <2> DEFINE found == s.residual
  <2>1. found \in Seq(Nat) /\ Sorted(side, found) /\ n \in 0..Len(found)
    BY <1>1, <1>2
  <2> HIDE DEF found
  <2>2. /\ SubSeq(found, 1, n) \in Seq(Nat) /\ Len(SubSeq(found, 1, n)) = n
        /\ AllBut(found, n) \in Seq(Nat) /\ Len(AllBut(found, n)) = Len(found) - n
        /\ Sorted(side, SubSeq(found, 1, n)) /\ Sorted(side, AllBut(found, n))
        /\ Range(found) = Range(SubSeq(found, 1, n)) \union Range(AllBut(found, n))
        /\ \A x \in Range(SubSeq(found, 1, n)), y \in Range(AllBut(found, n)): Nearer(side, x, y)
    BY <2>1, Split
  <2>3. SubSeq(found, 1, n) = ids /\ AllBut(found, n) = rest
    BY <1>3 DEF found, rest
  <2>4. /\ ids \in Seq(Nat) /\ Len(ids) = n
        /\ rest \in Seq(Nat) /\ Len(rest) = Len(found) - n
        /\ Sorted(side, ids) /\ Sorted(side, rest)
        /\ Range(found) = Range(ids) \union Range(rest)
        /\ \A x \in Range(ids), y \in Range(rest): Nearer(side, x, y)
    BY <2>2, <2>3
  <2> QED BY <2>4 DEF found
<1>6. s2.residual = rest /\ s2.next = s.next /\ s2 \in StatusSet
  <2>1. s2 = [s EXCEPT !.residual = rest]
    BY <1>5 DEF rest
  <2> QED BY <1>1, <1>5, <2>1 DEF StatusSet
<1>7. Wider(places, ids, new)
  BY <1>5, DisplayedWidens
<1>8. new \in [Sides -> Nat] /\ new[side] \in Nat /\ places[side] \in Nat
  BY <1>7 DEF Wider
<1>9. Range(ids) \subseteq Nat /\ Range(rest) \subseteq Nat
  BY <1>5, RangeOfSeq
<1>10. /\ IdsBeyond(idx, side, places[side]) = Range(s.residual) \union IdsBeyond(idx, side, s.next)
       /\ \A x \in Range(s.residual): ~Past(side, x, s.next)
  BY DEF Held
<1>11. \A x, p: x \in IdsBeyond(idx, side, p) <=> x \in Matching(idx) /\ Past(side, x, p)
  BY BeyondIs
<1>12. Matching(idx) \subseteq Nat
  BY IdsFinite
<1>13. ASSUME NEW x \in Range(ids)
       PROVE  Past(side, x, places[side]) /\ ~Past(side, x, new[side]) /\ x < EndOf(idx) /\ x \in Nat
  <2>1. x \in IdsBeyond(idx, side, places[side])
    BY <1>5, <1>10
  <2>2. x \in Matching(idx) /\ Past(side, x, places[side])
    BY <1>11, <2>1
  <2>3. PICK z \in idx: z.id = x
    BY <2>2, MatchingMembers
  <2>4. x < EndOf(idx) /\ x \in Nat
    BY <2>3, EndIs
  <2>5. new["front"] <= x /\ x < new["back"] /\ new["front"] \in Nat /\ new["back"] \in Nat
    BY <1>7, SideNames DEF Wider
  <2>6. ~Past(side, x, new[side])
    <3>1. CASE side = "back"
      BY <2>4, <2>5, <3>1 DEF Past
    <3>2. CASE side = "front"
      BY <2>4, <2>5, <3>2, SideNames DEF Past
    <3> QED BY <3>1, <3>2, SideNames
  <2> QED BY <2>2, <2>4, <2>6
<1>14. ASSUME NEW x \in Nat, Past(side, x, places[side]), \A id \in Range(ids): Nearer(side, id, x)
       PROVE  Past(side, x, new[side])
  <2>1. CASE side = "back"
    <3>1. new[side] # places[side] => \E id \in Range(ids): new[side] = id + 1
      BY <1>7, <2>1 DEF Wider
    <3>2. CASE new[side] # places[side]
      <4>1. PICK id \in Range(ids): new[side] = id + 1
        BY <3>1, <3>2
      <4>2. id < x /\ id \in Nat
        BY <1>9, <1>14, <2>1 DEF Nearer
      <4> QED BY <2>1, <4>1, <4>2 DEF Past
    <3> QED BY <1>14, <3>2
  <2>2. CASE side = "front"
    <3>1. new[side] # places[side] => new[side] \in Range(ids)
      BY <1>7, <2>2 DEF Wider
    <3>2. CASE new[side] # places[side]
      <4>1. Nearer(side, new[side], x)
        BY <1>14, <3>1, <3>2
      <4> QED BY <2>2, <4>1, SideNames DEF Nearer, Past
    <3> QED BY <1>14, <3>2
  <2> QED BY <2>1, <2>2, SideNames
<1>15. ASSUME NEW x \in Nat, Past(side, x, new[side]) PROVE Past(side, x, places[side])
  <2>1. new["front"] <= places["front"] /\ places["back"] <= new["back"]
    BY <1>7 DEF Wider
  <2>2. CASE side = "back"
    BY <1>8, <1>15, <2>1, <2>2 DEF Past
  <2>3. CASE side = "front"
    BY <1>8, <1>15, <2>1, <2>3, SideNames DEF Past
  <2> QED BY <2>2, <2>3, SideNames
<1>16. ASSUME NEW x \in Range(rest) \union IdsBeyond(idx, side, s.next)
       PROVE  x \in IdsBeyond(idx, side, new[side])
  <2>1. x \in IdsBeyond(idx, side, places[side])
    BY <1>5, <1>10
  <2>2. x \in Matching(idx) /\ x \in Nat /\ Past(side, x, places[side])
    BY <1>11, <1>12, <2>1
  <2>3. ASSUME NEW id \in Range(ids) PROVE Nearer(side, id, x)
    <3>1. CASE x \in Range(rest)
      BY <1>5, <3>1
    <3>2. CASE x \in IdsBeyond(idx, side, s.next)
      <4>1. Past(side, x, s.next) /\ ~Past(side, id, s.next) /\ id \in Nat
        BY <1>5, <1>9, <1>10, <1>11, <3>2
      <4> QED BY <1>1, <2>2, <4>1, Order
    <3> QED BY <3>1, <3>2
  <2>4. Past(side, x, new[side])
    BY <1>14, <2>2, <2>3
  <2> QED BY <1>11, <2>2, <2>4
<1>17. ASSUME NEW x \in IdsBeyond(idx, side, new[side])
       PROVE  x \in Range(rest) \union IdsBeyond(idx, side, s.next)
  <2>1. x \in Matching(idx) /\ x \in Nat /\ Past(side, x, new[side])
    BY <1>11, <1>12
  <2>2. x \in IdsBeyond(idx, side, places[side])
    BY <1>11, <1>15, <2>1
  <2>3. x \notin Range(ids)
    BY <1>13, <2>1
  <2> QED BY <1>5, <1>10, <2>2, <2>3
<1>18. Held(side, s2, idx, new[side])
  <2>1. IdsBeyond(idx, side, new[side]) = Range(rest) \union IdsBeyond(idx, side, s.next)
    BY <1>16, <1>17
  <2> QED BY <1>5, <1>6, <1>10, <2>1 DEF Held
<1>19. ASSUME NEW x \in IdsBeyond(idx, side, places[side])
       PROVE  x \in Range(ids) \/ x \in IdsBeyond(idx, side, new[side])
  BY <1>5, <1>10, <1>16, <1>19
<1>20. ASSUME NEW other \in Sides, other # side PROVE new[other] = places[other]
  <2>1. new[other] \in Nat /\ places[other] \in Nat /\ places["front"] \in Nat /\ places["back"] \in Nat
    BY <1>8, SideNames
  <2>2. CASE other = "back"
    <3>1. side = "front"
      BY <1>20, <2>2, SideNames
    <3>2. ASSUME NEW id \in Range(ids) PROVE id + 1 <= places["back"]
      <4>1. id < places["front"] /\ id \in Nat
        BY <1>13, <3>1, SideNames DEF Past
      <4> QED BY <2>1, <4>1
    <3>3. ASSUME new[other] # places[other] PROVE FALSE
      <4>1. PICK id \in Range(ids): new["back"] = id + 1
        BY <1>7, <2>2, <3>3 DEF Wider
      <4>2. places["back"] <= new["back"] /\ id + 1 <= places["back"] /\ id \in Nat
        BY <1>7, <1>9, <3>2 DEF Wider
      <4> QED BY <2>1, <2>2, <3>3, <4>1, <4>2
    <3> QED BY <3>3
  <2>3. CASE other = "front"
    <3>1. side = "back"
      BY <1>20, <2>3, SideNames
    <3>2. ASSUME new[other] # places[other] PROVE FALSE
      <4>1. new["front"] \in Range(ids) /\ new["front"] <= places["front"]
        BY <1>7, <2>3, <3>2 DEF Wider
      <4>2. new["front"] >= places["back"]
        BY <1>13, <3>1, <4>1 DEF Past
      <4> QED BY <2>1, <2>3, <3>2, <4>1, <4>2
    <3> QED BY <3>2
  <2> QED BY <2>2, <2>3, SideNames
<1>21. new["back"] <= EndOf(idx) /\ new["front"] <= new["back"]
  <2>1. /\ new["front"] \in Nat /\ new["back"] \in Nat /\ EndOf(idx) \in Nat
        /\ places["front"] \in Nat /\ places["back"] \in Nat
    BY <1>8, EndIs, SideNames
  <2>2. new["front"] <= places["front"] /\ places["back"] <= new["back"]
    BY <1>7 DEF Wider
  <2>3. CASE new["back"] # places["back"]
    <3>1. PICK id \in Range(ids): new["back"] = id + 1
      BY <1>7, <2>3 DEF Wider
    <3>2. id < EndOf(idx) /\ id \in Nat
      BY <1>13
    <3> QED BY <2>1, <2>2, <3>1, <3>2
  <2> QED BY <2>1, <2>2, <2>3
<1>22. k # 0 /\ s.residual # <<>> => ids # <<>>
  <2> SUFFICES ASSUME k # 0, s.residual # <<>>, ids = <<>> PROVE FALSE
    OBVIOUS
  <2>1. n = 0
    BY <1>5, EmptySeq
  <2>2. Len(s.residual) \in Nat \ {0}
    BY <1>1, EmptySeq
  <2> QED BY <1>4, <2>1, <2>2
<1>23. ASSUME NEW m \in Nat, Len(s2.residual) < m PROVE Len(s.residual) < k + m
  <2>1. Len(s.residual) - n < m
    BY <1>5, <1>6, <1>23
  <2> QED BY <1>1, <1>2, <2>1
<1>24. /\ new["front"] <= places["front"] /\ places["back"] <= new["back"]
       /\ \A id \in Range(ids): new["front"] <= id /\ id < new["back"]
  BY <1>7 DEF Wider
<1>25. Len(ids) <= k
  BY <1>2, <1>5
<1> QED BY <1>5, <1>6, <1>8, <1>13, <1>18, <1>19, <1>20, <1>21, <1>22, <1>23, <1>24, <1>25 DEF MovesPast

LEMMA EstimatesRight ==
    ASSUME NEW idx, IndexOK(idx), NEW places \in [Sides -> Nat], NEW sides \in [Sides -> StatusSet],
           \A side \in Sides: SideOK(side, sides[side], idx, places[side])
    PROVE  /\ Estimates(sides) \in EstimatesSet
           /\ \A side \in Sides:
                /\ Estimates(sides)[side] = TrueEstimate(idx, side, places[side])
                /\ Promises(Estimates(sides)[side]) => IdsBeyond(idx, side, places[side]) # {}
<1>1. QueryMargin \in Nat \ {0}
  BY SubscriptionAssumption
<1>2. ASSUME NEW side \in Sides
      PROVE  /\ Estimates(sides)[side] = TrueEstimate(idx, side, places[side])
             /\ Estimates(sides)[side] \in [count: Nat, exact: BOOLEAN]
             /\ Promises(Estimates(sides)[side]) => IdsBeyond(idx, side, places[side]) # {}
  <2> DEFINE s == sides[side]
             ids == IdsBeyond(idx, side, places[side])
             m == Len(s.residual)
             n == Cardinality(ids)
  <2>1. s \in StatusSet /\ places[side] \in Nat /\ SideOK(side, s, idx, places[side])
    OBVIOUS
  <2>2. m \in Nat /\ n \in Nat
    BY <2>1, BeyondType, FS_CardinalityType DEF StatusSet
  <2>3. Estimates(sides)[side] = [count |-> IF m < QueryMargin THEN m ELSE QueryMargin, exact |-> m < QueryMargin]
    BY DEF Estimates
  <2>4. TrueEstimate(idx, side, places[side])
          = [count |-> IF n < QueryMargin THEN n ELSE QueryMargin, exact |-> n < QueryMargin]
    BY DEF TrueEstimate
  <2> HIDE DEF s
  <2>5. (m < QueryMargin => n = m) /\ (m >= QueryMargin => n >= QueryMargin)
    BY <2>1, CountedRight
  <2>6. n # 0 => ids # {}
    BY FS_EmptySet
  <2> HIDE DEF m, n, ids
  <2>7. CASE m < QueryMargin
    <3>1. n = m /\ n < QueryMargin
      BY <2>5, <2>7
    <3>2. Estimates(sides)[side] = [count |-> m, exact |-> TRUE]
      BY <2>3, <2>7
    <3>3. TrueEstimate(idx, side, places[side]) = [count |-> m, exact |-> TRUE]
      BY <2>4, <2>7, <3>1
    <3> QED BY <2>2, <2>6, <3>1, <3>2, <3>3 DEF Promises, ids
  <2>8. CASE ~(m < QueryMargin)
    <3>1. n >= QueryMargin /\ ~(n < QueryMargin) /\ n # 0
      BY <1>1, <2>2, <2>5, <2>8
    <3>2. Estimates(sides)[side] = [count |-> QueryMargin, exact |-> FALSE]
      <4>1. (m < QueryMargin) = FALSE
        BY <2>8
      <4> QED BY <2>3, <2>8, <4>1, Zenon
    <3>3. TrueEstimate(idx, side, places[side]) = [count |-> QueryMargin, exact |-> FALSE]
      <4>1. (n < QueryMargin) = FALSE
        BY <3>1
      <4> QED BY <2>4, <3>1, <4>1, Zenon
    <3> QED BY <1>1, <2>6, <3>1, <3>2, <3>3 DEF Promises, ids
  <2> QED BY <2>7, <2>8
<1>3. Estimates(sides) \in EstimatesSet
  <2>1. Estimates(sides) = [side \in Sides |-> Estimates(sides)[side]]
    BY DEF Estimates
  <2> DEFINE e == Estimates(sides)
  <2> HIDE DEF e
  <2>2. e = [side \in Sides |-> e[side]] /\ \A side \in Sides: e[side] \in [count: Nat, exact: BOOLEAN]
    BY <1>2, <2>1 DEF e
  <2>3. e \in [Sides -> [count: Nat, exact: BOOLEAN]]
    BY <2>2
  <2> QED BY <2>3 DEF EstimatesSet, e
<1> QED BY <1>2, <1>3

-----------------------------------------------------------------------------
(* What is on its way when a message is sent or taken. *)

LEMMA NoneComing ==
    ASSUME NEW resp, AnswersIn(resp) = {}, NEW side
    PROVE  ComingIn(resp, side) = <<>>
BY DEF AnswersIn, ComingIn

LEMMA OneComing ==
    ASSUME NEW resp \in Seq(Responses), OneAnswer(resp), NEW i \in AnswersIn(resp), NEW side
    PROVE  ComingIn(resp, side) = IF side = resp[i].side THEN resp[i].zgrams ELSE <<>>
<1> DEFINE answers == {j \in DOMAIN resp: resp[j].type = "AckMoreZgrams" /\ resp[j].side = side}
<1>1. i \in DOMAIN resp /\ i \in Nat /\ resp[i].type = "AckMoreZgrams"
  BY LenProperties DEF AnswersIn
<1>2. \A j \in answers: j = i
  BY DEF OneAnswer, AnswersIn
<1>3. CASE side = resp[i].side
  <2>1. answers = {i}
    BY <1>1, <1>2, <1>3
  <2>2. Min({i}) = i
    BY <1>1 DEF Min
  <2> QED BY <1>3, <2>1, <2>2 DEF ComingIn
<1>4. CASE side # resp[i].side
  <2>1. answers = {}
    BY <1>2, <1>4
  <2> QED BY <1>4, <2>1 DEF ComingIn
<1> QED BY <1>3, <1>4

LEMMA TailAnswers ==
    ASSUME NEW resp \in Seq(Responses), resp # <<>>, OneAnswer(resp)
    PROVE  /\ Tail(resp) \in Seq(Responses) /\ OneAnswer(Tail(resp))
           /\ \A i \in DOMAIN Tail(resp): i + 1 \in DOMAIN resp /\ Tail(resp)[i] = resp[i + 1] /\ i \in Nat
           /\ \A i \in AnswersIn(Tail(resp)): i + 1 \in AnswersIn(resp)
           /\ \A i \in AnswersIn(resp): i # 1 => i - 1 \in AnswersIn(Tail(resp))
           /\ 1 \in DOMAIN resp /\ Head(resp) = resp[1] /\ Head(resp) \in Responses
           /\ Head(resp).type = "AckMoreZgrams" <=> 1 \in AnswersIn(resp)
<1>1. /\ Tail(resp) \in Seq(Responses) /\ Len(Tail(resp)) = Len(resp) - 1
      /\ \A i \in 1..Len(Tail(resp)): Tail(resp)[i] = resp[i + 1]
      /\ Head(resp) \in Responses
  BY HeadTailProperties
<1>2. Len(resp) \in Nat /\ DOMAIN resp = 1..Len(resp) /\ DOMAIN Tail(resp) = 1..Len(Tail(resp))
  BY <1>1, LenProperties
<1>3. Len(resp) # 0
  BY EmptySeq
<1>4. 1 \in DOMAIN resp /\ Head(resp) = resp[1]
  BY <1>2, <1>3
<1> DEFINE rest == Tail(resp)
<1> HIDE DEF rest
<1>5. \A i \in DOMAIN rest: i + 1 \in DOMAIN resp /\ rest[i] = resp[i + 1] /\ i \in Nat
  BY <1>1, <1>2 DEF rest
<1>6. \A i \in DOMAIN resp: i # 1 => i - 1 \in DOMAIN rest /\ rest[i - 1] = resp[i]
  <2> SUFFICES ASSUME NEW i \in DOMAIN resp, i # 1 PROVE i - 1 \in DOMAIN rest /\ rest[i - 1] = resp[i]
    OBVIOUS
  <2>1. i \in Nat /\ i - 1 \in DOMAIN rest
    BY <1>1, <1>2 DEF rest
  <2>2. rest[i - 1] = resp[(i - 1) + 1] /\ (i - 1) + 1 = i
    BY <1>5, <2>1
  <2> QED BY <2>1, <2>2
<1>7. \A i \in AnswersIn(rest): i + 1 \in AnswersIn(resp) /\ i \in Nat
  BY <1>5 DEF AnswersIn
<1>8. \A i \in AnswersIn(resp): i # 1 => i - 1 \in AnswersIn(rest)
  BY <1>6 DEF AnswersIn
<1>9. OneAnswer(rest)
  <2> SUFFICES ASSUME NEW i \in AnswersIn(rest), NEW j \in AnswersIn(rest) PROVE i = j
    BY DEF OneAnswer
  <2>1. i + 1 = j + 1 /\ i \in Nat /\ j \in Nat
    BY <1>7 DEF OneAnswer
  <2> QED BY <2>1
<1>10. Head(resp).type = "AckMoreZgrams" <=> 1 \in AnswersIn(resp)
  BY <1>4 DEF AnswersIn
<1> QED BY <1>1, <1>4, <1>5, <1>7, <1>8, <1>9, <1>10 DEF rest

LEMMA OtherTaken ==
    ASSUME NEW resp \in Seq(Responses), resp # <<>>, OneAnswer(resp), Head(resp).type # "AckMoreZgrams"
    PROVE  /\ AnswersIn(Tail(resp)) = {} <=> AnswersIn(resp) = {}
           /\ \A side: ComingIn(Tail(resp), side) = ComingIn(resp, side)
<1> DEFINE rest == Tail(resp)
<1>1. /\ rest \in Seq(Responses) /\ OneAnswer(rest)
      /\ \A i \in DOMAIN rest: i + 1 \in DOMAIN resp /\ rest[i] = resp[i + 1] /\ i \in Nat
      /\ \A i \in AnswersIn(rest): i + 1 \in AnswersIn(resp)
      /\ \A i \in AnswersIn(resp): i # 1 => i - 1 \in AnswersIn(rest)
      /\ 1 \notin AnswersIn(resp)
  BY TailAnswers
<1> HIDE DEF rest
<1>2. AnswersIn(rest) = {} <=> AnswersIn(resp) = {}
  BY <1>1
<1>3. ASSUME NEW side PROVE ComingIn(rest, side) = ComingIn(resp, side)
  <2>1. CASE AnswersIn(rest) = {}
    BY <1>2, <2>1, NoneComing
  <2>2. CASE AnswersIn(rest) # {}
    <3>1. PICK i \in AnswersIn(rest): TRUE
      BY <2>2
    <3>2. i + 1 \in AnswersIn(resp) /\ rest[i] = resp[i + 1]
      BY <1>1 DEF AnswersIn
    <3>3. ComingIn(rest, side) = IF side = rest[i].side THEN rest[i].zgrams ELSE <<>>
      BY <1>1, OneComing
    <3>4. ComingIn(resp, side) = IF side = resp[i + 1].side THEN resp[i + 1].zgrams ELSE <<>>
      BY <3>2, OneComing
    <3> QED BY <3>2, <3>3, <3>4
  <2> QED BY <2>1, <2>2
<1> QED BY <1>2, <1>3 DEF rest

LEMMA AnswerTaken ==
    ASSUME NEW resp \in Seq(Responses), resp # <<>>, OneAnswer(resp), Head(resp).type = "AckMoreZgrams"
    PROVE  /\ AnswersIn(Tail(resp)) = {} /\ AnswersIn(resp) # {}
           /\ \A side: /\ ComingIn(Tail(resp), side) = <<>>
                       /\ ComingIn(resp, side) = IF side = Head(resp).side THEN Head(resp).zgrams ELSE <<>>
<1>1. 1 \in AnswersIn(resp) /\ Head(resp) = resp[1]
  BY TailAnswers
<1>2. ASSUME NEW i \in AnswersIn(Tail(resp)) PROVE FALSE
  <2>1. i + 1 \in AnswersIn(resp) /\ i \in DOMAIN Tail(resp)
    BY TailAnswers DEF AnswersIn
  <2>2. i + 1 = 1
    BY <1>1, <2>1 DEF OneAnswer
  <2>3. Tail(resp) \in Seq(Responses)
    BY TailAnswers
  <2>4. i \in Nat /\ i >= 1
    BY <2>1, <2>3, LenProperties
  <2> QED BY <2>2, <2>4
<1>3. AnswersIn(Tail(resp)) = {}
  BY <1>2
<1>4. \A side: ComingIn(Tail(resp), side) = <<>>
  BY <1>3, NoneComing
<1>5. ASSUME NEW side PROVE ComingIn(resp, side) = IF side = resp[1].side THEN resp[1].zgrams ELSE <<>>
  BY <1>1, OneComing
<1> QED BY <1>1, <1>3, <1>4, <1>5

LEMMA AppendMembers ==
    ASSUME NEW resp \in Seq(Responses), NEW r \in Responses
    PROVE  /\ Append(resp, r) \in Seq(Responses) /\ Append(resp, r) # <<>>
           /\ Len(resp) \in Nat /\ DOMAIN Append(resp, r) = 1..Len(resp) + 1 /\ DOMAIN resp = 1..Len(resp)
           /\ \A i \in DOMAIN resp: Append(resp, r)[i] = resp[i]
           /\ Append(resp, r)[Len(resp) + 1] = r
           /\ Len(Append(resp, r)) = Len(resp) + 1
<1>1. /\ Append(resp, r) \in Seq(Responses) /\ Append(resp, r) # <<>>
      /\ Len(Append(resp, r)) = Len(resp) + 1
      /\ \A i \in 1..Len(resp): Append(resp, r)[i] = resp[i]
      /\ Append(resp, r)[Len(resp) + 1] = r
  BY AppendProperties
<1>2. Len(resp) \in Nat /\ DOMAIN resp = 1..Len(resp) /\ DOMAIN Append(resp, r) = 1..Len(Append(resp, r))
  BY <1>1, LenProperties
<1> QED BY <1>1, <1>2

LEMMA OtherSent ==
    ASSUME NEW resp \in Seq(Responses), OneAnswer(resp), NEW r \in Responses, r.type # "AckMoreZgrams"
    PROVE  /\ AnswersIn(Append(resp, r)) = AnswersIn(resp)
           /\ \A side: ComingIn(Append(resp, r), side) = ComingIn(resp, side)
<1> DEFINE more == Append(resp, r)
<1>1. /\ more \in Seq(Responses) /\ Len(resp) \in Nat /\ DOMAIN more = 1..Len(resp) + 1
      /\ DOMAIN resp = 1..Len(resp) /\ \A i \in DOMAIN resp: more[i] = resp[i]
      /\ more[Len(resp) + 1] = r
  BY AppendMembers
<1> HIDE DEF more
<1>2. AnswersIn(more) = AnswersIn(resp)
  BY <1>1 DEF AnswersIn
<1>3. OneAnswer(more)
  BY <1>2 DEF OneAnswer
<1>4. ASSUME NEW side PROVE ComingIn(more, side) = ComingIn(resp, side)
  <2>1. CASE AnswersIn(resp) = {}
    BY <1>2, <2>1, NoneComing
  <2>2. CASE AnswersIn(resp) # {}
    <3>1. PICK i \in AnswersIn(resp): TRUE
      BY <2>2
    <3>2. i \in AnswersIn(more) /\ more[i] = resp[i]
      BY <1>1, <1>2 DEF AnswersIn
    <3>3. ComingIn(more, side) = IF side = more[i].side THEN more[i].zgrams ELSE <<>>
      BY <1>1, <1>3, <3>2, OneComing
    <3>4. ComingIn(resp, side) = IF side = resp[i].side THEN resp[i].zgrams ELSE <<>>
      BY OneComing
    <3> QED BY <3>2, <3>3, <3>4
  <2> QED BY <2>1, <2>2
<1> QED BY <1>2, <1>4 DEF more

LEMMA AnswerSent ==
    ASSUME NEW resp \in Seq(Responses), AnswersIn(resp) = {}, NEW r \in Responses, r.type = "AckMoreZgrams"
    PROVE  /\ AnswersIn(Append(resp, r)) = {Len(resp) + 1}
           /\ \A side: ComingIn(Append(resp, r), side) = IF side = r.side THEN r.zgrams ELSE <<>>
<1> DEFINE more == Append(resp, r)
           n == Len(resp) + 1
<1>1. /\ more \in Seq(Responses) /\ Len(resp) \in Nat /\ DOMAIN more = 1..n
      /\ DOMAIN resp = 1..Len(resp) /\ \A i \in DOMAIN resp: more[i] = resp[i]
      /\ more[n] = r
  BY AppendMembers
<1> HIDE DEF more
<1>2. AnswersIn(more) = {n}
  <2>1. n \in AnswersIn(more)
    BY <1>1 DEF AnswersIn
  <2>2. ASSUME NEW i \in AnswersIn(more), i # n PROVE FALSE
    <3>1. i \in DOMAIN resp
      BY <1>1, <2>2 DEF AnswersIn
    <3> QED BY <1>1, <3>1 DEF AnswersIn
  <2> QED BY <2>1, <2>2
<1> HIDE DEF n
<1>3. OneAnswer(more) /\ n \in AnswersIn(more)
  BY <1>2 DEF OneAnswer
<1>4. ASSUME NEW side PROVE ComingIn(more, side) = IF side = r.side THEN r.zgrams ELSE <<>>
  <2>1. ComingIn(more, side) = IF side = more[n].side THEN more[n].zgrams ELSE <<>>
    BY <1>1, <1>3, OneComing
  <2> QED BY <1>1, <2>1
<1> QED BY <1>2, <1>4 DEF more, n

LEMMA ResponseFields ==
    ASSUME NEW r \in Responses
    PROVE  /\ r.type # "GeneralError" => r.estimates \in EstimatesSet
           /\ r.type = "AckMoreZgrams" => r.side \in Sides /\ r.zgrams \in Seq(Nat)
BY DEF Responses

LEMMA RequestFields ==
    ASSUME NEW r \in Requests
    PROVE  /\ r.type \in {"Subscribe", "GetMoreZgrams"}
           /\ r.type = "Subscribe" => r.start \in Nat \union {End}
           /\ r.type = "GetMoreZgrams" => r.side \in Sides /\ r.count \in Nat
BY DEF Requests

-----------------------------------------------------------------------------
(* The sides are made anew, and more is asked for. *)

LEMMA ResetHolds ==
    ASSUME NEW idx, IndexOK(idx), NEW places \in [Sides -> Nat], NEW sides \in ResetSides(idx, places),
           places["front"] <= EndOf(idx), places["back"] <= EndOf(idx)
    PROVE  /\ sides \in [Sides -> StatusSet]
           /\ \A side \in Sides: SideOK(side, sides[side], idx, places[side]) /\ sides[side].next <= EndOf(idx)
<1>1. PICK f \in CreateSide(idx, "front", places["front"]), b \in CreateSide(idx, "back", places["back"]):
        sides = [front |-> f, back |-> b]
  BY DEF ResetSides
<1>2. places["front"] \in Nat /\ places["back"] \in Nat
  BY SideNames
<1>3. /\ f \in StatusSet /\ SideOK("front", f, idx, places["front"])
      /\ f.next <= EndOf(idx)
  BY <1>2, CreateHolds, SideNames
<1>4. /\ b \in StatusSet /\ SideOK("back", b, idx, places["back"])
      /\ b.next <= EndOf(idx)
  BY <1>2, CreateHolds, SideNames
<1>5. sides["front"] = f /\ sides["back"] = b /\ sides \in [Sides -> StatusSet]
  BY <1>1, <1>3, <1>4 DEF Sides
<1> QED BY <1>3, <1>4, <1>5, SideNames

Sends(waiting) ==
  \E side \in Sides, n \in Nat \ {0}:
    /\ ~waiting /\ outstanding' = TRUE
    /\ requests' = Append(requests, GetMoreRequest(side, n))
    /\ appetite'[side] = Undefined \/ n <= appetite'[side]
    /\ Promises(estimate'[side])

LEMMA SendMoreSends ==
    ASSUME estimate' \in EstimatesSet, appetite' \in [Sides -> Nat \union {Undefined}],
           NEW waiting \in BOOLEAN, SendMore(waiting)
    PROVE  \/ requests' = requests /\ outstanding' = waiting
           \/ Sends(waiting)
<1> DEFINE Amount(s) == CalcGetMoreAmount(estimate'[s], appetite'[s])
           side == IF Amount("back") # 0 THEN "back" ELSE "front"
<1>1. CASE waiting \/ Amount(side) = 0
  BY <1>1 DEF SendMore
<1>2. CASE ~(waiting \/ Amount(side) = 0)
  <2>1. outstanding' = TRUE /\ requests' = Append(requests, GetMoreRequest(side, Amount(side)))
    BY <1>2 DEF SendMore
  <2>2. side \in Sides
    BY SideNames
  <2> HIDE DEF side
  <2>3. estimate'[side] \in [count: Nat, exact: BOOLEAN] /\ appetite'[side] \in Nat \union {Undefined}
    BY <2>2 DEF EstimatesSet
  <2> DEFINE e == estimate'[side]
             a == appetite'[side]
             available == IF e.exact THEN e.count ELSE MaxSafeInteger
             desired == IF a = Undefined THEN MaxSafeInteger ELSE a
  <2>4. available \in Nat /\ desired \in Nat
    BY <2>3, PageAssumption
  <2>5. Amount(side) = IF available < desired THEN available ELSE desired
    BY DEF CalcGetMoreAmount
  <2>6. Promises(e) <=> ~e.exact \/ e.count # 0
    BY DEF Promises
  <2> DEFINE n == Amount(side)
  <2>7. n # 0 /\ ~waiting
    BY <1>2
  <2>8. a # Undefined => desired = a
    OBVIOUS
  <2>9. available # 0 => Promises(e)
    BY <2>6
  <2> HIDE DEF available, desired, e, Amount
  <2>10. n \in Nat \ {0} /\ n <= desired /\ available # 0
    BY <2>4, <2>5, <2>7
  <2>11. Promises(estimate'[side]) /\ (a = Undefined \/ n <= a)
    BY <2>8, <2>9, <2>10 DEF e
  <2> HIDE DEF n
  <2>12. requests' = Append(requests, GetMoreRequest(side, n))
    BY <2>1 DEF n
  <2> QED BY <2>1, <2>2, <2>7, <2>10, <2>11, <2>12 DEF Sends
<1> QED BY <1>1, <1>2

LEMMA RequestTaken ==
    ASSUME requests \in Seq(Requests), Len(requests) <= 1, NEW type, TakeRequest(type)
    PROVE  requests' = <<>> /\ Head(requests) \in Requests /\ Head(requests).type = type /\ requests # <<>>
<1>1. requests # <<>> /\ Head(requests).type = type /\ requests' = Tail(requests)
  BY DEF TakeRequest
<1>2. Tail(requests) \in Seq(Requests) /\ Len(Tail(requests)) = Len(requests) - 1 /\ Head(requests) \in Requests
  BY <1>1, HeadTailProperties
<1>3. Len(requests) \in Nat /\ Len(Tail(requests)) \in Nat
  BY <1>2, LenProperties
<1>4. ~(Len(Tail(requests)) \in Nat \ {0})
  BY <1>2, <1>3
<1>5. Tail(requests) = <<>>
  BY <1>2, <1>4, EmptySeq
<1> QED BY <1>1, <1>2, <1>5

-----------------------------------------------------------------------------
(* The steps of the Server thread. *)

LEMMA Facts ==
    ASSUME PagingTypeOK
    PROVE  /\ IndexOK(index) /\ ZgramEnd = EndOf(index) /\ ZgramEnd \in Nat
           /\ displayed["front"] \in Nat /\ displayed["back"] \in Nat
<1>1. IndexOK(index)
  BY DEF PagingTypeOK, SubscriptionTypeOK, IndexOK
<1>2. ZgramEnd = EndOf(index)
  BY DEF ZgramEnd, EndOf
<1>3. displayed["front"] \in Nat /\ displayed["back"] \in Nat
  BY SideNames DEF PagingTypeOK, SubscriptionTypeOK
<1> QED BY <1>1, <1>2, <1>3, EndIs

LEMMA ComingIs ==
    /\ \A side: Coming(side) = ComingIn(responses, side)
    /\ \A side: Coming(side)' = ComingIn(responses', side)
BY DEF Coming, ComingIn

\* What the page shows and what comes is the same as before.
SameShown ==
  /\ zgrams' = zgrams /\ Coming("front")' = Coming("front") /\ Coming("back")' = Coming("back")

LEMMA ShownKept ==
    ASSUME SameShown, Together, WithinDisplayed, AllThereIs
    PROVE  /\ Together' /\ OnThePage' = OnThePage
           /\ displayed' = displayed => WithinDisplayed'
           /\ displayed' = displayed /\ index' = index /\ (failures' = 0 => failures = 0) => AllThereIs'
<1>1. Together'
  BY DEF SameShown, Together
<1>2. OnThePage' = OnThePage
  BY DEF SameShown, OnThePage
<1>3. displayed' = displayed => WithinDisplayed'
  BY <1>2 DEF WithinDisplayed
<1>4. displayed' = displayed /\ index' = index /\ (failures' = 0 => failures = 0) => AllThereIs'
  BY <1>2 DEF AllThereIs
<1> QED BY <1>1, <1>2, <1>3, <1>4

LEMMA SubscribeStep ==
    ASSUME PagingInvariant, Subscribe, UNCHANGED pageVars
    PROVE  PagingInvariant'
<1> DEFINE start == IF Head(requests).start = End THEN ZgramEnd ELSE Head(requests).start
<1>1. /\ PagingTypeOK /\ RequestsOK /\ AnswersOK /\ NothingBefore
      /\ SidesOK /\ Together /\ WithinDisplayed /\ AllThereIs /\ Informed
  BY DEF PagingInvariant
<1>2. requests' = <<>> /\ Head(requests) \in Requests /\ Head(requests).type = "Subscribe" /\ requests # <<>>
  BY <1>1, RequestTaken DEF Subscribe, PagingTypeOK, RequestsOK
<1>3. /\ responses = <<>> /\ ~subscribed /\ ~outstanding /\ failures = 0
      /\ Head(requests).start = End \/ Head(requests).start <= ZgramEnd
      /\ \A side \in Sides: ~Promises(estimate[side])
  BY <1>1, <1>2 DEF RequestsOK
<1>4. IndexOK(index) /\ ZgramEnd = EndOf(index) /\ ZgramEnd \in Nat
  BY <1>1, Facts
<1>5. start \in Nat /\ start <= EndOf(index)
  BY <1>2, <1>3, <1>4, RequestFields
<1>6. /\ displayed' = [side \in Sides |-> start] /\ status' \in ResetSides(index, displayed')
      /\ subscribed' = TRUE /\ lastEstimates' = Estimates(status')
      /\ responses' = Append(responses, AckSubscribe(lastEstimates'))
      /\ index' = index /\ resets' = resets /\ failures' = failures /\ purged' = purged
  BY DEF Subscribe
<1> HIDE DEF start
<1>7. displayed' \in [Sides -> Nat] /\ displayed'["front"] = start /\ displayed'["back"] = start
  BY <1>5, <1>6, SideNames
<1>8. /\ status' \in [Sides -> StatusSet]
      /\ \A side \in Sides: SideOK(side, status'[side], index, displayed'[side]) /\ status'[side].next <= EndOf(index)
  BY <1>4, <1>5, <1>6, <1>7, ResetHolds
<1>9. /\ lastEstimates' \in EstimatesSet
      /\ \A side \in Sides:
           /\ lastEstimates'[side] = TrueEstimate(index, side, displayed'[side])
           /\ Promises(lastEstimates'[side]) => IdsBeyond(index, side, displayed'[side]) # {}
  BY <1>4, <1>6, <1>7, <1>8, EstimatesRight
<1>10. zgrams' = zgrams /\ appetite' = appetite /\ estimate' = estimate /\ outstanding' = outstanding
  BY DEF pageVars
<1>11. zgrams = <<>> /\ Answers = {}
  BY <1>1, <1>3 DEF NothingBefore
<1>12. AckSubscribe(lastEstimates') \in Responses /\ AckSubscribe(lastEstimates').type = "AckSubscribe"
  BY <1>9 DEF Responses, AckSubscribe
<1>13. responses \in Seq(Responses) /\ OneAnswer(responses)
  BY <1>1 DEF PagingTypeOK, AnswersOK
<1>14. /\ responses' \in Seq(Responses) /\ responses' # <<>> /\ Len(responses') = 1 /\ DOMAIN responses' = {1}
       /\ responses'[1] = AckSubscribe(lastEstimates')
  <2>1. responses' = <<AckSubscribe(lastEstimates')>>
    BY <1>3, <1>6
  <2> QED BY <1>12, <2>1
<1>15. AnswersIn(responses') = {}
  BY <1>12, <1>14 DEF AnswersIn
<1>16. Coming("front")' = <<>> /\ Coming("back")' = <<>> /\ Coming("front") = <<>> /\ Coming("back") = <<>>
  BY <1>11, <1>15, ComingIs, NoneComing DEF Answers
<1>17. Answers' = {}
  BY <1>15 DEF Answers
<1>18. PagingTypeOK'
  BY <1>1, <1>2, <1>6, <1>7, <1>8, <1>9, <1>10, <1>14 DEF PagingTypeOK, SubscriptionTypeOK
<1>19. RequestsOK' /\ AnswersOK'
  BY <1>2, <1>15, <1>17 DEF RequestsOK, AnswersOK, OneAnswer
<1>20. SidesOK'
  <2>1. ZgramEnd' = EndOf(index)
    BY <1>6 DEF ZgramEnd, EndOf
  <2> QED BY <1>4, <1>5, <1>6, <1>7, <1>8, <2>1 DEF SidesOK
<1>21. Together' /\ OnThePage' = {}
  <2>1. zgrams' = <<>> /\ Range(<<>>) = {}
    BY <1>10, <1>11 DEF Range
  <2> QED BY <1>16, <2>1 DEF Together, InOrder, Sorted, AllBefore, OnThePage
<1>22. WithinDisplayed' /\ AllThereIs'
  <2>1. \A z \in index': z.id \in Nat
    BY <1>4, <1>6, EndIs
  <2>2. ASSUME NEW z \in index', displayed'["front"] <= z.id, z.id < displayed'["back"] PROVE FALSE
    BY <1>5, <1>7, <2>1, <2>2
  <2> QED BY <1>21, <2>2 DEF WithinDisplayed, AllThereIs
<1>23. Informed'
  <2>1. LastTrue'
    BY <1>6, <1>9 DEF LastTrue
  <2>2. NoneEmpty' /\ LastTold'
    BY <1>12, <1>14 DEF NoneEmpty, LastTold, AckSubscribe
  <2>3. Kept(lastEstimates)'
    BY <1>6, <1>9 DEF Kept
  <2>4. Kept(estimate)'
    BY <1>3, <1>10 DEF Kept
  <2>5. PromisesKept'
    <3>1. responses'[1].estimates = lastEstimates'
      BY <1>14 DEF AckSubscribe
    <3>2. Kept(responses[1].estimates)'
      BY <2>3, <3>1 DEF Kept
    <3> QED BY <1>14, <2>4, <3>2 DEF PromisesKept
  <2>6. AskedIsThere'
    BY <1>2 DEF AskedIsThere
  <2> QED BY <2>1, <2>2, <2>5, <2>6 DEF Informed
<1>24. NothingBefore'
  BY <1>6 DEF NothingBefore
<1> QED BY <1>18, <1>19, <1>20, <1>21, <1>22, <1>23, <1>24 DEF PagingInvariant

\* A response that is no answer with zgrams changes nothing of what comes.
LEMMA OtherResponse ==
    ASSUME PagingTypeOK, AnswersOK, NEW r \in Responses, r.type # "AckMoreZgrams",
           responses' = Append(responses, r)
    PROVE  /\ responses' \in Seq(Responses) /\ Answers' = Answers
           /\ Coming("front")' = Coming("front") /\ Coming("back")' = Coming("back")
           /\ appetite' = appetite /\ outstanding' = outstanding => AnswersOK'
<1>1. responses \in Seq(Responses) /\ OneAnswer(responses)
  BY DEF PagingTypeOK, AnswersOK
<1>2. /\ responses' \in Seq(Responses) /\ Len(responses) \in Nat
      /\ DOMAIN responses = 1..Len(responses)
      /\ \A i \in DOMAIN responses: responses'[i] = responses[i]
  BY <1>1, AppendMembers
<1>3. /\ AnswersIn(responses') = AnswersIn(responses)
      /\ \A side: ComingIn(responses', side) = ComingIn(responses, side)
  BY <1>1, OtherSent
<1>4. Answers' = Answers
  BY <1>3 DEF Answers
<1>5. \A i \in Answers: responses'[i] = responses[i]
  BY <1>2 DEF Answers, AnswersIn
<1>6. OneAnswer(responses)'
  BY <1>1, <1>3 DEF OneAnswer
<1> QED BY <1>2, <1>3, <1>4, <1>5, <1>6, ComingIs DEF AnswersOK

LEMMA RefusalStep ==
    ASSUME PagingInvariant, RefuseSubscribe \/ RefuseRequest, UNCHANGED pageVars
    PROVE  PagingInvariant'
<1>1. /\ PagingTypeOK /\ RequestsOK /\ AnswersOK /\ NothingBefore
      /\ SidesOK /\ Together /\ WithinDisplayed /\ AllThereIs /\ Informed
  BY DEF PagingInvariant
<1>2. requests' = <<>>
  BY <1>1, RequestTaken DEF RefuseSubscribe, RefuseRequest, PagingTypeOK, RequestsOK
<1>3. ~subscribed
  <2>1. CASE RefuseSubscribe
    BY <1>1, <2>1 DEF RefuseSubscribe, TakeRequest, RequestsOK
  <2>2. CASE RefuseRequest
    BY <2>2 DEF RefuseRequest
  <2> QED BY <2>1, <2>2
<1>4. /\ index' = index /\ subscribed' = subscribed /\ displayed' = displayed /\ status' = status
      /\ lastEstimates' = lastEstimates /\ resets' = resets /\ failures' = failures /\ purged' = purged
  BY DEF RefuseSubscribe, RefuseRequest, subscriptionVars
<1>5. zgrams' = zgrams /\ appetite' = appetite /\ estimate' = estimate /\ outstanding' = outstanding
  BY DEF pageVars
<1>6. PICK r \in Responses: r.type # "AckMoreZgrams" /\ responses' = Append(responses, r)
  <2>1. CASE RefuseSubscribe
    <3>1. NoEstimates \in EstimatesSet
      BY DEF NoEstimates, EstimatesSet
    <3>2. AckSubscribe(NoEstimates) \in Responses /\ AckSubscribe(NoEstimates).type # "AckMoreZgrams"
      BY <3>1 DEF Responses, AckSubscribe
    <3> QED BY <2>1, <3>2 DEF RefuseSubscribe
  <2>2. CASE RefuseRequest
    <3>1. GeneralError \in Responses /\ GeneralError.type # "AckMoreZgrams"
      BY DEF Responses, GeneralError
    <3> QED BY <2>2, <3>1 DEF RefuseRequest
  <2> QED BY <2>1, <2>2
<1>7. responses' \in Seq(Responses) /\ Answers' = Answers /\ SameShown /\ AnswersOK'
  BY <1>1, <1>5, <1>6, OtherResponse DEF SameShown
<1>8. PagingTypeOK'
  BY <1>1, <1>2, <1>4, <1>5, <1>7 DEF PagingTypeOK, SubscriptionTypeOK
<1>9. RequestsOK'
  BY <1>2 DEF RequestsOK
<1>10. NothingBefore'
  BY <1>1, <1>4, <1>5, <1>7 DEF NothingBefore
<1>11. SidesOK' /\ Informed'
  BY <1>3, <1>4 DEF SidesOK, Informed, Undisturbed
<1>12. Together' /\ WithinDisplayed' /\ AllThereIs'
  BY <1>1, <1>4, <1>7, ShownKept
<1> QED BY <1>7, <1>8, <1>9, <1>10, <1>11, <1>12 DEF PagingInvariant

\* What a taken request leaves, whether or not the zgrams are then found.
LEMMA GetMoreMoves ==
    ASSUME PagingInvariant, GetMoreZgrams, UNCHANGED pageVars
    PROVE  \E side \in Sides, ids \in Seq(Nat):
             /\ requests # <<>> /\ Head(requests).type = "GetMoreZgrams" /\ Head(requests).side = side
             /\ Len(ids) <= Head(requests).count /\ Sorted(side, ids)
             /\ IdsBeyond(index, side, displayed[side]) # {} => ids # <<>>
             /\ status' \in [Sides -> StatusSet] /\ displayed' \in [Sides -> Nat]
             /\ SidesOK'
             /\ displayed'["front"] <= displayed["front"] /\ displayed["back"] <= displayed'["back"]
             /\ \A id \in Range(ids): /\ Past(side, id, displayed[side])
                                      /\ displayed'["front"] <= id /\ id < displayed'["back"]
             /\ \A other \in Sides: other # side => displayed'[other] = displayed[other]
             /\ \A x \in IdsBeyond(index, side, displayed[side]):
                  x \in Range(ids) \/ x \in IdsBeyond(index, side, displayed'[side])
             /\ \/ /\ lastEstimates' = Estimates(status')
                   /\ responses' = Append(responses, AckMoreZgrams(side, ids, lastEstimates'))
                   /\ UNCHANGED failures
                \/ /\ failures' = failures + 1
                   /\ responses' = Append(responses, GeneralError)
                   /\ UNCHANGED lastEstimates
<1> DEFINE req == Head(requests)
           k == IF req.count < PageSize THEN req.count ELSE PageSize
           side == req.side
<1>1. PagingTypeOK /\ RequestsOK /\ SidesOK
  BY DEF PagingInvariant
<1>2. subscribed /\ requests # <<>> /\ req.type = "GetMoreZgrams" /\ req \in Requests
  BY <1>1, RequestTaken DEF GetMoreZgrams, PagingTypeOK, RequestsOK
<1>3. side \in Sides /\ req.count \in Nat /\ req.count > 0
  BY <1>1, <1>2, RequestFields DEF RequestsOK
<1>4. k \in Nat /\ k # 0 /\ k <= req.count
  BY <1>3, SubscriptionAssumption
<1>5. PICK s \in TopUp(index, side, status[side], k + QueryMargin):
        LET ids == FirstOf(s.residual, k)
        IN /\ status' = [status EXCEPT ![side] = [s EXCEPT !.residual = AllBut(s.residual, Len(ids))]]
           /\ displayed' = UpdateDisplayed(displayed, ids)
           /\ \/ /\ lastEstimates' = Estimates(status')
                 /\ responses' = Append(responses, AckMoreZgrams(side, ids, lastEstimates'))
                 /\ UNCHANGED failures
              \/ /\ failures < MaxFailures /\ ids # <<>>
                 /\ failures' = failures + 1
                 /\ responses' = Append(responses, GeneralError)
                 /\ UNCHANGED lastEstimates
  BY DEF GetMoreZgrams
<1> DEFINE ids == FirstOf(s.residual, k)
           s2 == [s EXCEPT !.residual = AllBut(s.residual, Len(ids))]
<1>6. /\ status' = [status EXCEPT ![side] = s2]
      /\ displayed' = UpdateDisplayed(displayed, ids)
      /\ \/ /\ lastEstimates' = Estimates(status')
            /\ responses' = Append(responses, AckMoreZgrams(side, ids, lastEstimates'))
            /\ UNCHANGED failures
         \/ /\ failures' = failures + 1
            /\ responses' = Append(responses, GeneralError)
            /\ UNCHANGED lastEstimates
  BY <1>5
<1> HIDE DEF k, side, req
<1>7. IndexOK(index) /\ ZgramEnd = EndOf(index) /\ ZgramEnd \in Nat
  BY <1>1, Facts
<1>8. displayed \in [Sides -> Nat] /\ status \in [Sides -> StatusSet] /\ QueryMargin \in Nat
  BY <1>1, SubscriptionAssumption DEF PagingTypeOK, SubscriptionTypeOK
<1>9. /\ \A other \in Sides: /\ SideOK(other, status[other], index, displayed[other])
                             /\ status[other].next <= ZgramEnd
      /\ displayed["front"] <= displayed["back"] /\ displayed["back"] <= ZgramEnd
  BY <1>1, <1>2 DEF SidesOK
<1>10. Held(side, status[side], index, displayed[side]) /\ status[side] \in StatusSet /\ displayed[side] \in Nat
  BY <1>3, <1>8, <1>9 DEF SideOK
<1>11. k + QueryMargin \in Nat
  BY <1>4, <1>8
<1>12. /\ s \in StatusSet /\ Held(side, s, index, displayed[side])
       /\ Len(s.residual) < k + QueryMargin => IdsBeyond(index, side, s.next) = {}
       /\ \A m \in Nat: status[side].next <= m /\ EndOf(index) <= m => s.next <= m
  BY <1>3, <1>7, <1>10, <1>11, TopUpHolds
<1>13. s.next <= EndOf(index)
  BY <1>3, <1>7, <1>9, <1>12
<1> HIDE DEF ids, s2
<1>14. /\ ids \in Seq(Nat) /\ Len(ids) <= k /\ Sorted(side, ids)
       /\ k # 0 /\ s.residual # <<>> => ids # <<>>
       /\ s2 \in StatusSet /\ Held(side, s2, index, displayed'[side]) /\ s2.next = s.next
       /\ \A n \in Nat: Len(s2.residual) < n => Len(s.residual) < k + n
       /\ displayed' \in [Sides -> Nat] /\ displayed'["front"] <= displayed'["back"] /\ displayed'["back"] <= EndOf(index)
       /\ displayed'["front"] <= displayed["front"] /\ displayed["back"] <= displayed'["back"]
       /\ \A other \in Sides: other # side => displayed'[other] = displayed[other]
       /\ \A id \in Range(ids): /\ Past(side, id, displayed[side])
                                /\ displayed'["front"] <= id /\ id < displayed'["back"]
       /\ \A x \in IdsBeyond(index, side, displayed[side]):
            x \in Range(ids) \/ x \in IdsBeyond(index, side, displayed'[side])
  <2>1. ids = FirstOf(s.residual, k) /\ s2 = [s EXCEPT !.residual = AllBut(s.residual, Len(ids))]
    BY DEF ids, s2
  <2> DEFINE new == displayed'
  <2>2. new = UpdateDisplayed(displayed, ids)
    BY <1>6
  <2> HIDE DEF new
  <2>3. /\ IndexOK(index) /\ displayed \in [Sides -> Nat] /\ displayed["front"] <= displayed["back"]
        /\ displayed["back"] <= EndOf(index) /\ s \in StatusSet
        /\ Held(side, s, index, displayed[side]) /\ s.next <= EndOf(index) /\ k \in Nat
    BY <1>4, <1>7, <1>8, <1>9, <1>12, <1>13
  <2>4. /\ ids \in Seq(Nat) /\ Len(ids) <= k /\ Sorted(side, ids)
        /\ k # 0 /\ s.residual # <<>> => ids # <<>>
        /\ s2 \in StatusSet /\ Held(side, s2, index, new[side]) /\ s2.next = s.next
        /\ \A n \in Nat: Len(s2.residual) < n => Len(s.residual) < k + n
        /\ new \in [Sides -> Nat] /\ new["front"] <= new["back"] /\ new["back"] <= EndOf(index)
        /\ new["front"] <= displayed["front"] /\ displayed["back"] <= new["back"]
        /\ \A other \in Sides: other # side => new[other] = displayed[other]
        /\ \A id \in Range(ids): /\ Past(side, id, displayed[side])
                                 /\ new["front"] <= id /\ id < new["back"]
        /\ \A x \in IdsBeyond(index, side, displayed[side]):
             x \in Range(ids) \/ x \in IdsBeyond(index, side, new[side])
    <3>1. MovesPast(side, index, displayed, s, k, ids, s2, new)
      BY <1>3, <2>1, <2>2, <2>3, Taken
    <3> QED BY <3>1 DEF MovesPast
  <2> QED BY <2>4 DEF new
<1>15. index' = index /\ subscribed' = subscribed
  BY DEF GetMoreZgrams
<1>16. status' \in [Sides -> StatusSet] /\ status'[side] = s2
       /\ \A other \in Sides: other # side => status'[other] = status[other]
  BY <1>3, <1>6, <1>8, <1>14
<1>17. SidesOK'
  <2>1. SideOK(side, s2, index, displayed'[side])
    BY <1>8, <1>12, <1>14 DEF SideOK
  <2>2. \A other \in Sides: SideOK(other, status'[other], index, displayed'[other])
    BY <1>9, <1>14, <1>16, <2>1
  <2>3. \A other \in Sides: status'[other].next <= EndOf(index)
    BY <1>7, <1>9, <1>13, <1>14, <1>16
  <2>4. ZgramEnd' = EndOf(index)
    BY <1>15 DEF ZgramEnd, EndOf
  <2> QED BY <1>14, <1>15, <2>2, <2>3, <2>4 DEF SidesOK
<1>18. ASSUME IdsBeyond(index, side, displayed[side]) # {} PROVE ids # <<>>
  <2>1. IdsBeyond(index, side, displayed[side]) = Range(s.residual) \union IdsBeyond(index, side, s.next)
    BY <1>12 DEF Held
  <2>2. CASE s.residual = <<>>
    <3>1. Len(s.residual) < k + QueryMargin
      BY <1>4, <1>8, <2>2
    <3>2. Range(s.residual) = {}
      BY <2>2 DEF Range
    <3> QED BY <1>12, <1>18, <2>1, <3>1, <3>2
  <2> QED BY <1>4, <1>14, <2>2
<1>19. Len(ids) <= req.count
  <2>1. Len(ids) \in Nat
    BY <1>14, LenProperties
  <2> QED BY <1>3, <1>4, <1>14, <2>1
<1>20. Head(requests).side = side /\ Head(requests).count = req.count /\ Head(requests).type = "GetMoreZgrams"
  BY <1>2 DEF req, side
<1>21. \/ /\ lastEstimates' = Estimates(status')
          /\ responses' = Append(responses, AckMoreZgrams(side, ids, lastEstimates'))
          /\ UNCHANGED failures
       \/ /\ failures' = failures + 1
          /\ responses' = Append(responses, GeneralError)
          /\ UNCHANGED lastEstimates
  BY <1>6
<1>22. /\ requests # <<>> /\ Head(requests).type = "GetMoreZgrams" /\ Head(requests).side = side
       /\ Len(ids) <= Head(requests).count /\ Sorted(side, ids)
       /\ IdsBeyond(index, side, displayed[side]) # {} => ids # <<>>
       /\ status' \in [Sides -> StatusSet] /\ displayed' \in [Sides -> Nat]
       /\ SidesOK'
       /\ displayed'["front"] <= displayed["front"] /\ displayed["back"] <= displayed'["back"]
       /\ \A id \in Range(ids): /\ Past(side, id, displayed[side])
                                /\ displayed'["front"] <= id /\ id < displayed'["back"]
       /\ \A other \in Sides: other # side => displayed'[other] = displayed[other]
       /\ \A x \in IdsBeyond(index, side, displayed[side]):
            x \in Range(ids) \/ x \in IdsBeyond(index, side, displayed'[side])
       /\ \/ /\ lastEstimates' = Estimates(status')
             /\ responses' = Append(responses, AckMoreZgrams(side, ids, lastEstimates'))
             /\ UNCHANGED failures
          \/ /\ failures' = failures + 1
             /\ responses' = Append(responses, GeneralError)
             /\ UNCHANGED lastEstimates
  BY <1>2, <1>14, <1>16, <1>17, <1>18, <1>19, <1>20, <1>21
<1> QED BY <1>3, <1>14, <1>22

LEMMA GetMoreStep ==
    ASSUME PagingInvariant, GetMoreZgrams, UNCHANGED pageVars
    PROVE  PagingInvariant'
<1>1. /\ PagingTypeOK /\ RequestsOK /\ AnswersOK /\ NothingBefore
      /\ SidesOK /\ Together /\ WithinDisplayed /\ AllThereIs /\ Informed
  BY DEF PagingInvariant
<1>2. PICK side \in Sides, ids \in Seq(Nat):
             /\ requests # <<>> /\ Head(requests).type = "GetMoreZgrams" /\ Head(requests).side = side
             /\ Len(ids) <= Head(requests).count /\ Sorted(side, ids)
             /\ IdsBeyond(index, side, displayed[side]) # {} => ids # <<>>
             /\ status' \in [Sides -> StatusSet] /\ displayed' \in [Sides -> Nat]
             /\ SidesOK'
             /\ displayed'["front"] <= displayed["front"] /\ displayed["back"] <= displayed'["back"]
             /\ \A id \in Range(ids): /\ Past(side, id, displayed[side])
                                      /\ displayed'["front"] <= id /\ id < displayed'["back"]
             /\ \A other \in Sides: other # side => displayed'[other] = displayed[other]
             /\ \A x \in IdsBeyond(index, side, displayed[side]):
                  x \in Range(ids) \/ x \in IdsBeyond(index, side, displayed'[side])
             /\ \/ /\ lastEstimates' = Estimates(status')
                   /\ responses' = Append(responses, AckMoreZgrams(side, ids, lastEstimates'))
                   /\ UNCHANGED failures
                \/ /\ failures' = failures + 1
                   /\ responses' = Append(responses, GeneralError)
                   /\ UNCHANGED lastEstimates
  BY GetMoreMoves
<1>3. requests' = <<>> /\ Head(requests) \in Requests
  BY <1>1, RequestTaken DEF GetMoreZgrams, PagingTypeOK, RequestsOK
<1>4. /\ outstanding /\ Answers = {} /\ Head(requests).count > 0 /\ Head(requests).count \in Nat
      /\ appetite[side] = Undefined \/ Head(requests).count <= appetite[side]
  BY <1>1, <1>2, <1>3, RequestFields DEF RequestsOK
<1>5. subscribed /\ subscribed' = subscribed /\ index' = index /\ resets' = resets /\ purged' = purged
  BY DEF GetMoreZgrams
<1>6. zgrams' = zgrams /\ appetite' = appetite /\ estimate' = estimate /\ outstanding' = outstanding
  BY DEF pageVars
<1>7. /\ IndexOK(index) /\ displayed["front"] \in Nat /\ displayed["back"] \in Nat
      /\ displayed'["front"] \in Nat /\ displayed'["back"] \in Nat /\ displayed[side] \in Nat /\ displayed'[side] \in Nat
  BY <1>1, <1>2, Facts, SideNames DEF PagingTypeOK, SubscriptionTypeOK
<1>8. \A other \in Sides: SideOK(other, status'[other], index, displayed'[other])
  BY <1>2, <1>5 DEF SidesOK
<1>9. /\ Estimates(status') \in EstimatesSet
      /\ \A other \in Sides:
           /\ Estimates(status')[other] = TrueEstimate(index, other, displayed'[other])
           /\ Promises(Estimates(status')[other]) => IdsBeyond(index, other, displayed'[other]) # {}
  BY <1>2, <1>7, <1>8, EstimatesRight
<1>10. /\ responses \in Seq(Responses) /\ AnswersIn(responses) = {} /\ failures \in Nat
       /\ zgrams \in Seq(Nat) /\ appetite \in [Sides -> Nat \union {Undefined}] /\ lastEstimates \in EstimatesSet
  BY <1>1, <1>4 DEF Answers, PagingTypeOK, SubscriptionTypeOK
<1>11. Coming("front") = <<>> /\ Coming("back") = <<>>
  BY <1>10, ComingIs, NoneComing
<1>12. Range(zgrams) \subseteq Nat /\ Range(ids) \subseteq Nat /\ Range(<<>>) = {}
  <2>1. Range(zgrams) \subseteq Nat
    BY <1>10, RangeOfSeq
  <2>2. ids \in Seq(Nat)
    BY <1>2
  <2>3. Range(ids) \subseteq Nat
    BY <2>2, RangeOfSeq
  <2>4. Range(<<>>) = {}
    BY DEF Range
  <2> QED BY <2>1, <2>3, <2>4
<1>13. \A id \in Range(zgrams): displayed["front"] <= id /\ id < displayed["back"]
  BY <1>1 DEF WithinDisplayed, OnThePage
<1>14. Sorted("back", zgrams)
  BY <1>1 DEF Together, InOrder
<1>15. RequestsOK'
  BY <1>3 DEF RequestsOK
<1>16. NothingBefore'
  BY <1>5 DEF NothingBefore
<1>17. ASSUME NEW r \in Responses, responses' = Append(responses, r), failures' \in Nat, lastEstimates' \in EstimatesSet
       PROVE  PagingTypeOK'
  <2>1. responses' \in Seq(Responses)
    BY <1>10, <1>17, AppendProperties
  <2> QED BY <1>1, <1>2, <1>3, <1>5, <1>6, <1>17, <2>1 DEF PagingTypeOK, SubscriptionTypeOK
<1>18. CASE /\ lastEstimates' = Estimates(status')
            /\ responses' = Append(responses, AckMoreZgrams(side, ids, lastEstimates'))
            /\ UNCHANGED failures
  <2> DEFINE r == AckMoreZgrams(side, ids, lastEstimates')
             n == Len(responses) + 1
  <2>1. r \in Responses /\ r.type = "AckMoreZgrams" /\ r.side = side /\ r.zgrams = ids /\ r.estimates = lastEstimates'
    BY <1>9, <1>18 DEF Responses, AckMoreZgrams
  <2>2. responses' = Append(responses, r)
    BY <1>18
  <2> HIDE DEF r
  <2>3. /\ AnswersIn(responses') = {n}
        /\ \A other: ComingIn(responses', other) = IF other = side THEN ids ELSE <<>>
    BY <1>10, <2>1, <2>2, AnswerSent
  <2>4. /\ Len(responses) \in Nat /\ DOMAIN responses' = 1..n /\ DOMAIN responses = 1..Len(responses)
        /\ \A i \in DOMAIN responses: responses'[i] = responses[i]
        /\ responses'[n] = r /\ responses' # <<>> /\ Len(responses') = n
    BY <1>10, <2>1, <2>2, AppendMembers
  <2>5. Answers' = {n}
    BY <2>3 DEF Answers
  <2>6. /\ Coming("front")' = IF side = "front" THEN ids ELSE <<>>
        /\ Coming("back")' = IF side = "back" THEN ids ELSE <<>>
    BY <2>3, ComingIs, SideNames
  <2> HIDE DEF n
  <2>7. PagingTypeOK'
    BY <1>9, <1>10, <1>17, <1>18, <2>1, <2>2
  <2>8. AnswersOK'
    <3>1. OneAnswer(responses')
      BY <2>3 DEF OneAnswer
    <3>2. Len(ids) \in Nat /\ appetite[side] \in Nat \union {Undefined}
      BY <1>2, <1>10, LenProperties
    <3>3. appetite[side] = Undefined \/ (appetite[side] > 0 /\ Len(ids) <= appetite[side])
      BY <1>2, <1>4, <3>2
    <3> QED BY <1>4, <1>6, <2>1, <2>4, <2>5, <3>1, <3>3 DEF AnswersOK
  <2>9. OnThePage' = Range(zgrams) \union Range(ids)
    BY <1>6, <1>12, <2>6, SideNames DEF OnThePage
  <2>10. Together'
    <3>1. Sorted("front", <<>>) /\ Sorted("back", <<>>)
      BY DEF Sorted
    <3>2. CASE side = "back"
      <4>1. AllBefore(zgrams, ids)
        <5> SUFFICES ASSUME NEW x \in Range(zgrams), NEW y \in Range(ids) PROVE x < y
          BY DEF AllBefore
        <5>1. x < displayed["back"] /\ y >= displayed["back"] /\ x \in Nat /\ y \in Nat
          BY <1>2, <1>12, <1>13, <3>2 DEF Past
        <5> QED BY <1>7, <5>1
      <4>2. AllBefore(<<>>, zgrams) /\ AllBefore(<<>>, ids)
        BY <1>12 DEF AllBefore
      <4>3. InOrder(<<>>, zgrams, ids)
        BY <1>2, <1>14, <3>1, <3>2, <4>1, <4>2 DEF InOrder
      <4> QED BY <1>6, <2>6, <3>2, <4>3, SideNames DEF Together
    <3>3. CASE side = "front"
      <4>1. AllBefore(ids, zgrams)
        <5> SUFFICES ASSUME NEW x \in Range(zgrams), NEW y \in Range(ids) PROVE y < x
          BY DEF AllBefore
        <5>1. displayed["front"] <= x /\ y < displayed["front"] /\ x \in Nat /\ y \in Nat
          BY <1>2, <1>12, <1>13, <3>3, SideNames DEF Past
        <5> QED BY <1>7, <5>1
      <4>2. AllBefore(zgrams, <<>>) /\ AllBefore(ids, <<>>)
        BY <1>12 DEF AllBefore
      <4>3. InOrder(ids, zgrams, <<>>)
        BY <1>2, <1>14, <3>1, <3>3, <4>1, <4>2 DEF InOrder
      <4> QED BY <1>6, <2>6, <3>3, <4>3, SideNames DEF Together
    <3> QED BY <3>2, <3>3, SideNames
  <2>11. WithinDisplayed'
    <3>1. ASSUME NEW id \in Range(zgrams) PROVE displayed'["front"] <= id /\ id < displayed'["back"]
      BY <1>2, <1>7, <1>12, <1>13
    <3> QED BY <1>2, <2>9, <3>1 DEF WithinDisplayed
  <2>12. AllThereIs'
    <3> SUFFICES ASSUME failures' = 0, NEW z \in index, z.matches,
                        displayed'["front"] <= z.id, z.id < displayed'["back"]
                 PROVE  z.id \in Range(zgrams) \union Range(ids)
      BY <1>5, <2>9 DEF AllThereIs
    <3>1. z.id \in Nat /\ z.id \in Matching(index)
      BY <1>7, EndIs, MatchingMembers
    <3>2. CASE displayed["front"] <= z.id /\ z.id < displayed["back"]
      <4>1. z.id \in OnThePage
        BY <1>1, <1>18, <3>2 DEF AllThereIs
      <4> QED BY <1>11, <1>12, <4>1 DEF OnThePage
    <3>3. CASE ~(displayed["front"] <= z.id /\ z.id < displayed["back"])
      <4>1. Past(side, z.id, displayed[side]) /\ ~Past(side, z.id, displayed'[side])
        <5>1. CASE side = "back"
          <6>1. displayed'["front"] = displayed["front"]
            BY <1>2, <5>1, SideNames
          <6> QED BY <1>7, <3>1, <3>3, <5>1, <6>1 DEF Past
        <5>2. CASE side = "front"
          <6>1. displayed'["back"] = displayed["back"]
            BY <1>2, <5>2, SideNames
          <6> QED BY <1>7, <3>1, <3>3, <5>2, <6>1, SideNames DEF Past
        <5> QED BY <5>1, <5>2, SideNames
      <4>2. z.id \in IdsBeyond(index, side, displayed[side]) /\ z.id \notin IdsBeyond(index, side, displayed'[side])
        BY <3>1, <4>1, BeyondIs
      <4> QED BY <1>2, <4>2
    <3> QED BY <3>2, <3>3
  <2>13. Informed'
    <3> SUFFICES ASSUME Undisturbed' PROVE (LastTrue /\ NoneEmpty /\ LastTold /\ PromisesKept /\ AskedIsThere)'
      BY DEF Informed
    <3>1. Undisturbed
      BY <1>5, <1>18 DEF Undisturbed
    <3>2. NoneEmpty /\ ids # <<>>
      BY <1>1, <1>2, <3>1 DEF Informed, AskedIsThere
    <3>3. LastTrue'
      BY <1>5, <1>9, <1>18 DEF LastTrue
    <3>4. NoneEmpty'
      <4> SUFFICES ASSUME NEW i \in DOMAIN responses'
                   PROVE  /\ responses'[i].type # "GeneralError"
                          /\ responses'[i].type = "AckMoreZgrams" => responses'[i].zgrams # <<>>
        BY DEF NoneEmpty
      <4>1. CASE i = n
        BY <2>1, <2>4, <3>2, <4>1
      <4>2. CASE i # n
        <5>1. i \in DOMAIN responses
          BY <2>4, <4>2 DEF n
        <5> QED BY <2>4, <3>2, <5>1 DEF NoneEmpty
      <4> QED BY <4>1, <4>2
    <3>5. LastTold'
      BY <2>1, <2>4 DEF LastTold
    <3>6. Kept(lastEstimates)'
      BY <1>5, <1>9, <1>18 DEF Kept
    <3>7. PromisesKept'
      <4>1. ASSUME NEW i \in DOMAIN responses', \A j \in Answers': j <= i PROVE i = n
        BY <2>4, <2>5, <4>1 DEF n
      <4>2. Answers' # {}
        BY <2>5
      <4>3. ASSUME NEW i \in DOMAIN responses', \A j \in Answers': j <= i PROVE Kept(responses[i].estimates)'
        <5>1. i = n
          BY <4>1, <4>3
        <5>2. responses'[i].estimates = lastEstimates'
          BY <2>1, <2>4, <5>1
        <5> QED BY <3>6, <5>2 DEF Kept
      <4> QED BY <4>2, <4>3 DEF PromisesKept
    <3>8. AskedIsThere'
      BY <1>3 DEF AskedIsThere
    <3> QED BY <3>3, <3>4, <3>5, <3>7, <3>8
  <2> QED BY <1>2, <1>15, <1>16, <2>7, <2>8, <2>10, <2>11, <2>12, <2>13 DEF PagingInvariant
<1>19. CASE /\ failures' = failures + 1
            /\ responses' = Append(responses, GeneralError)
            /\ UNCHANGED lastEstimates
  <2>1. GeneralError \in Responses /\ GeneralError.type # "AckMoreZgrams"
    BY DEF Responses, GeneralError
  <2>2. Answers' = Answers /\ SameShown /\ AnswersOK'
    BY <1>1, <1>6, <1>19, <2>1, OtherResponse DEF SameShown
  <2>3. PagingTypeOK'
    BY <1>10, <1>17, <1>19, <2>1
  <2>4. Together' /\ OnThePage' = OnThePage
    BY <1>1, <2>2, ShownKept
  <2>5. WithinDisplayed'
    <3>1. OnThePage = Range(zgrams)
      BY <1>11, <1>12 DEF OnThePage
    <3>2. ASSUME NEW id \in Range(zgrams) PROVE displayed'["front"] <= id /\ id < displayed'["back"]
      BY <1>2, <1>7, <1>12, <1>13
    <3> QED BY <2>4, <3>1, <3>2 DEF WithinDisplayed
  <2>6. failures' # 0
    BY <1>10, <1>19
  <2>7. AllThereIs' /\ Informed'
    BY <2>6 DEF AllThereIs, Informed, Undisturbed
  <2> QED BY <1>2, <1>15, <1>16, <2>2, <2>3, <2>4, <2>5, <2>7 DEF PagingInvariant
<1> QED BY <1>2, <1>18, <1>19

-----------------------------------------------------------------------------
(* A post and a reindexing. *)

LEMMA PostStep ==
    ASSUME PagingInvariant, NEW matches \in BOOLEAN, NEW logged \in BOOLEAN,
           PostZgrams(matches, logged), UNCHANGED pageVars
    PROVE  PagingInvariant'
<1> DEFINE z == [id |-> ZgramEnd, matches |-> matches, logged |-> logged]
           new == index \union {z}
<1>1. /\ PagingTypeOK /\ RequestsOK /\ AnswersOK /\ NothingBefore
      /\ SidesOK /\ Together /\ WithinDisplayed /\ AllThereIs /\ Informed
  BY DEF PagingInvariant
<1>2. /\ index' = new /\ requests' = requests /\ subscribed' = subscribed /\ displayed' = displayed
      /\ resets' = resets /\ failures' = failures /\ purged' = purged
  BY DEF PostZgrams
<1>3. IF subscribed
      THEN /\ \E f \in TopUp(index', "front", status["front"], QueryMargin),
                 b \in TopUp(index', "back", status["back"], QueryMargin):
                status' = [front |-> f, back |-> b]
           /\ lastEstimates' = Estimates(status')
           /\ responses' = IF lastEstimates' = lastEstimates
                           THEN responses
                           ELSE Append(responses, EstimatesUpdate(lastEstimates'))
      ELSE UNCHANGED <<status, lastEstimates, responses>>
  BY DEF PostZgrams
<1>4. zgrams' = zgrams /\ appetite' = appetite /\ estimate' = estimate /\ outstanding' = outstanding
  BY DEF pageVars
<1>5. /\ IndexOK(index) /\ ZgramEnd = EndOf(index) /\ ZgramEnd \in Nat
      /\ displayed["front"] \in Nat /\ displayed["back"] \in Nat
  BY <1>1, Facts
<1>6. z \in StoredZgrams /\ z.id = ZgramEnd
  BY <1>5 DEF StoredZgrams
<1> HIDE DEF z
<1>7. IndexOK(new)
  <2>1. index \subseteq StoredZgrams /\ IsFiniteSet(index)
    BY <1>5 DEF IndexOK
  <2>2. IsFiniteSet(new)
    BY <2>1, FS_AddElement
  <2> QED BY <1>6, <2>1, <2>2 DEF IndexOK
<1>8. ZgramEnd' = EndOf(new) /\ ZgramEnd < EndOf(new) /\ EndOf(new) \in Nat
  <2>1. ZgramEnd' = EndOf(new)
    BY <1>2 DEF ZgramEnd, EndOf
  <2>2. z \in new
    OBVIOUS
  <2> QED BY <1>6, <1>7, <2>1, <2>2, EndIs
<1>9. ASSUME NEW side, NEW place PROVE IdsBeyond(index, side, place) \subseteq IdsBeyond(new, side, place)
  <2>1. Matching(index) \subseteq Matching(new)
    BY DEF Matching
  <2> QED BY <2>1, BeyondIs
<1> HIDE DEF new
<1>10. ASSUME NEW x \in new, x \notin index PROVE x.id = ZgramEnd
  BY <1>6, <1>10 DEF new
<1>11. /\ responses \in Seq(Responses) /\ displayed \in [Sides -> Nat] /\ status \in [Sides -> StatusSet]
       /\ lastEstimates \in EstimatesSet /\ QueryMargin \in Nat
  BY <1>1, SubscriptionAssumption DEF PagingTypeOK, SubscriptionTypeOK
<1>12. ASSUME subscribed
       PROVE  /\ status' \in [Sides -> StatusSet]
              /\ \A side \in Sides: SideOK(side, status'[side], new, displayed[side]) /\ status'[side].next <= EndOf(new)
  <2>1. PICK f \in TopUp(new, "front", status["front"], QueryMargin),
             b \in TopUp(new, "back", status["back"], QueryMargin):
               status' = [front |-> f, back |-> b]
    BY <1>2, <1>3, <1>12
  <2>2. ASSUME NEW side \in Sides, NEW s \in TopUp(new, side, status[side], QueryMargin)
        PROVE  s \in StatusSet /\ SideOK(side, s, new, displayed[side]) /\ s.next <= EndOf(new)
    <3>1. /\ Held(side, status[side], index, displayed[side]) /\ status[side].next <= ZgramEnd
          /\ displayed["front"] <= displayed["back"] /\ displayed["back"] <= ZgramEnd
      BY <1>1, <1>12 DEF SidesOK, SideOK
    <3>2. displayed[side] <= ZgramEnd /\ displayed[side] \in Nat
      BY <1>5, <3>1, SideNames
    <3>3. status[side] \in StatusSet /\ status[side].next \in Nat
      BY <1>11 DEF StatusSet
    <3>4. Held(side, status[side], new, displayed[side])
      BY <1>5, <1>6, <3>1, <3>2, <3>3, HeldAfterPost DEF new
    <3>5. /\ s \in StatusSet /\ Held(side, s, new, displayed[side])
          /\ Len(s.residual) < QueryMargin => IdsBeyond(new, side, s.next) = {}
          /\ \A m \in Nat: status[side].next <= m /\ EndOf(new) <= m => s.next <= m
      BY <1>7, <1>11, <3>2, <3>3, <3>4, TopUpHolds
    <3>6. status[side].next <= EndOf(new) /\ EndOf(new) <= EndOf(new)
      BY <1>5, <1>8, <3>1, <3>3
    <3>7. s.next <= EndOf(new)
      BY <1>8, <3>5, <3>6
    <3> QED BY <3>5, <3>7 DEF SideOK
  <2>3. /\ f \in StatusSet /\ SideOK("front", f, new, displayed["front"]) /\ f.next <= EndOf(new)
        /\ b \in StatusSet /\ SideOK("back", b, new, displayed["back"]) /\ b.next <= EndOf(new)
    BY <2>2, SideNames
  <2>4. status'["front"] = f /\ status'["back"] = b /\ status' \in [Sides -> StatusSet]
    BY <2>1, <2>3 DEF Sides
  <2> QED BY <2>3, <2>4, SideNames
<1>13. ASSUME subscribed
       PROVE  /\ lastEstimates' = Estimates(status') /\ lastEstimates' \in EstimatesSet
              /\ \A side \in Sides:
                   /\ lastEstimates'[side] = TrueEstimate(new, side, displayed[side])
                   /\ Promises(lastEstimates'[side]) => IdsBeyond(new, side, displayed[side]) # {}
  <2>1. lastEstimates' = Estimates(status')
    BY <1>3, <1>13
  <2>2. /\ Estimates(status') \in EstimatesSet
        /\ \A side \in Sides:
             /\ Estimates(status')[side] = TrueEstimate(new, side, displayed[side])
             /\ Promises(Estimates(status')[side]) => IdsBeyond(new, side, displayed[side]) # {}
    BY <1>7, <1>11, <1>12, <1>13, EstimatesRight
  <2> QED BY <2>1, <2>2
<1>14. lastEstimates' \in EstimatesSet /\ status' \in [Sides -> StatusSet]
  BY <1>3, <1>11, <1>12, <1>13
<1> DEFINE r == EstimatesUpdate(lastEstimates')
<1>15. r \in Responses /\ r.type = "EstimatesUpdate" /\ r.estimates = lastEstimates'
  BY <1>14 DEF Responses, EstimatesUpdate
<1>16. \/ responses' = responses /\ lastEstimates' = lastEstimates
       \/ subscribed /\ responses' = Append(responses, r)
  BY <1>3
<1> HIDE DEF r
<1>17. responses' \in Seq(Responses) /\ Answers' = Answers /\ SameShown /\ AnswersOK'
  <2>1. CASE responses' = responses
    <3>1. Answers' = Answers /\ SameShown
      BY <1>4, <2>1 DEF Answers, SameShown, ComingIn, Coming
    <3> QED BY <1>1, <1>4, <1>11, <2>1, <3>1 DEF AnswersOK, OneAnswer
  <2>2. CASE responses' = Append(responses, r)
    BY <1>1, <1>4, <1>15, <2>2, OtherResponse DEF SameShown
  <2> QED BY <1>16, <2>1, <2>2
<1>18. PagingTypeOK'
  <2>1. index' \subseteq StoredZgrams /\ IsFiniteSet(index')
    BY <1>2, <1>7 DEF IndexOK
  <2> QED BY <1>1, <1>2, <1>4, <1>14, <1>17, <2>1 DEF PagingTypeOK, SubscriptionTypeOK
<1>19. RequestsOK'
  <2>1. ASSUME requests # <<>>, Head(requests).type = "Subscribe"
        PROVE  /\ responses' = <<>> /\ ~subscribed /\ ~outstanding /\ failures = 0
               /\ Head(requests).start = End \/ Head(requests).start <= EndOf(new)
    <3>1. /\ responses = <<>> /\ ~subscribed /\ ~outstanding /\ failures = 0
          /\ Head(requests).start = End \/ Head(requests).start <= ZgramEnd
      BY <1>1, <2>1 DEF RequestsOK
    <3>2. Head(requests).start \in Nat \union {End}
      <4>1. Head(requests) \in Requests
        BY <1>1, <2>1, HeadTailProperties DEF PagingTypeOK
      <4> QED BY <2>1, <4>1, RequestFields
    <3>3. Head(requests).start <= ZgramEnd /\ Head(requests).start \in Nat => Head(requests).start <= EndOf(new)
      BY <1>5, <1>8
    <3> QED BY <1>16, <3>1, <3>2, <3>3
  <2> QED BY <1>1, <1>2, <1>4, <1>8, <1>17, <2>1 DEF RequestsOK
<1>20. NothingBefore'
  BY <1>1, <1>2, <1>4, <1>17 DEF NothingBefore
<1>21. SidesOK'
  <2> SUFFICES ASSUME subscribed
               PROVE  /\ \A side \in Sides: SideOK(side, status'[side], new, displayed[side]) /\ status'[side].next <= EndOf(new)
                      /\ displayed["front"] <= displayed["back"] /\ displayed["back"] <= EndOf(new)
    BY <1>2, <1>8 DEF SidesOK
  <2>1. displayed["front"] <= displayed["back"] /\ displayed["back"] <= ZgramEnd
    BY <1>1 DEF SidesOK
  <2> QED BY <1>5, <1>8, <1>12, <2>1
<1>22. Together' /\ WithinDisplayed' /\ OnThePage' = OnThePage
  BY <1>1, <1>2, <1>17, ShownKept
<1>23. AllThereIs'
  <2> SUFFICES ASSUME failures = 0, NEW x \in new, x.matches, displayed["front"] <= x.id, x.id < displayed["back"]
               PROVE  x.id \in OnThePage
    BY <1>2, <1>22 DEF AllThereIs
  <2>1. displayed["back"] <= ZgramEnd
    <3>1. CASE subscribed
      BY <1>1, <3>1 DEF SidesOK
    <3>2. CASE ~subscribed
      BY <1>1, <1>5, <3>2, SideNames DEF NothingBefore
    <3> QED BY <3>1, <3>2
  <2>2. x \in index
    <3> SUFFICES ASSUME x \notin index PROVE FALSE
      OBVIOUS
    <3>1. x.id = ZgramEnd
      BY <1>10
    <3> QED BY <1>5, <2>1, <3>1
  <2> QED BY <1>1, <2>2 DEF AllThereIs
<1>24. Informed'
  <2> SUFFICES ASSUME Undisturbed' PROVE (LastTrue /\ NoneEmpty /\ LastTold /\ PromisesKept /\ AskedIsThere)'
    BY DEF Informed
  <2>1. subscribed /\ LastTrue /\ NoneEmpty /\ LastTold /\ PromisesKept /\ AskedIsThere
    BY <1>1, <1>2 DEF Informed, Undisturbed
  <2>2. LastTrue'
    BY <1>2, <1>13, <2>1 DEF LastTrue
  <2>3. ASSUME NEW e, Kept(e) PROVE Kept(e)'
    BY <1>2, <1>9, <2>3 DEF Kept
  <2>4. Kept(lastEstimates)'
    BY <1>2, <1>13, <2>1 DEF Kept
  <2>5. AskedIsThere'
    <3> SUFFICES ASSUME requests # <<>>, Head(requests).type = "GetMoreZgrams"
                 PROVE  IdsBeyond(new, Head(requests).side, displayed[Head(requests).side]) # {}
      BY <1>2 DEF AskedIsThere
    <3>1. IdsBeyond(index, Head(requests).side, displayed[Head(requests).side]) # {}
      BY <2>1 DEF AskedIsThere
    <3> QED BY <1>9, <3>1
  <2>6. Answers' = {} => Kept(estimate)'
    <3> SUFFICES ASSUME Answers' = {} PROVE Kept(estimate)'
      OBVIOUS
    <3>1. Kept(estimate)
      BY <1>17, <2>1 DEF PromisesKept
    <3> QED BY <1>2, <1>4, <1>9, <3>1 DEF Kept
  <2>7. CASE responses' = responses /\ lastEstimates' = lastEstimates
    <3>1. NoneEmpty' /\ LastTold'
      BY <1>4, <2>1, <2>7 DEF NoneEmpty, LastTold
    <3>2. ASSUME NEW i \in DOMAIN responses', \A j \in Answers': j <= i PROVE Kept(responses[i].estimates)'
      <4>1. Kept(responses[i].estimates)
        BY <1>17, <2>1, <2>7, <3>2 DEF PromisesKept
      <4> QED BY <1>2, <1>9, <2>7, <4>1 DEF Kept
    <3> QED BY <2>2, <2>5, <2>6, <3>1, <3>2 DEF PromisesKept
  <2>8. CASE responses' = Append(responses, r)
    <3> DEFINE n == Len(responses) + 1
    <3>1. /\ Len(responses) \in Nat /\ DOMAIN responses' = 1..n /\ DOMAIN responses = 1..Len(responses)
          /\ \A i \in DOMAIN responses: responses'[i] = responses[i]
          /\ responses'[n] = r /\ responses' # <<>> /\ Len(responses') = n
      BY <1>11, <1>15, <2>8, AppendMembers
    <3>2. \A i \in DOMAIN responses': i = n \/ i \in DOMAIN responses
      BY <3>1
    <3> HIDE DEF n
    <3>3. NoneEmpty'
      <4> SUFFICES ASSUME NEW i \in DOMAIN responses'
                   PROVE  /\ responses'[i].type # "GeneralError"
                          /\ responses'[i].type = "AckMoreZgrams" => responses'[i].zgrams # <<>>
        BY DEF NoneEmpty
      <4>1. CASE i = n
        BY <1>15, <3>1, <4>1
      <4>2. CASE i \in DOMAIN responses
        BY <2>1, <3>1, <4>2 DEF NoneEmpty
      <4> QED BY <3>2, <4>1, <4>2
    <3>4. LastTold'
      BY <1>15, <3>1 DEF LastTold
    <3>5. ASSUME NEW i \in DOMAIN responses', \A j \in Answers': j <= i PROVE Kept(responses[i].estimates)'
      <4>1. CASE i = n
        <5>1. responses'[i].estimates = lastEstimates'
          BY <1>15, <3>1, <4>1
        <5> QED BY <2>4, <5>1 DEF Kept
      <4>2. CASE i \in DOMAIN responses
        <5>1. Kept(responses[i].estimates) /\ responses'[i] = responses[i]
          BY <1>17, <2>1, <3>1, <3>5, <4>2 DEF PromisesKept
        <5> QED BY <1>2, <1>9, <5>1 DEF Kept
      <4> QED BY <3>2, <4>1, <4>2
    <3> QED BY <2>2, <2>5, <2>6, <3>3, <3>4, <3>5 DEF PromisesKept
  <2> QED BY <1>16, <2>7, <2>8
<1> QED BY <1>17, <1>18, <1>19, <1>20, <1>21, <1>22, <1>23, <1>24 DEF PagingInvariant

LEMMA ResetStep ==
    ASSUME PagingInvariant, NEW oldest \in Nat, ResetIndex(oldest), UNCHANGED pageVars
    PROVE  PagingInvariant'
<1>1. /\ PagingTypeOK /\ RequestsOK /\ AnswersOK /\ NothingBefore
      /\ SidesOK /\ Together /\ WithinDisplayed /\ AllThereIs /\ Informed
  BY DEF PagingInvariant
<1>2. /\ oldest < ZgramEnd /\ index' = {z \in index: z.logged \/ z.id >= oldest}
      /\ IF subscribed THEN status' \in ResetSides(index', displayed) ELSE UNCHANGED status
      /\ resets' = resets + 1 /\ purged' = (purged \/ index' # index)
      /\ requests' = requests /\ responses' = responses /\ subscribed' = subscribed
      /\ displayed' = displayed /\ lastEstimates' = lastEstimates /\ failures' = failures
  BY DEF ResetIndex
<1>3. zgrams' = zgrams /\ appetite' = appetite /\ estimate' = estimate /\ outstanding' = outstanding
  BY DEF pageVars
<1>4. /\ IndexOK(index) /\ ZgramEnd = EndOf(index) /\ ZgramEnd \in Nat
      /\ displayed["front"] \in Nat /\ displayed["back"] \in Nat
  BY <1>1, Facts
<1>5. IndexOK(index') /\ index' \subseteq index
  <2>1. index \subseteq StoredZgrams /\ IsFiniteSet(index) /\ index' \in SUBSET index
    BY <1>2, <1>4 DEF IndexOK
  <2>2. IsFiniteSet(index')
    BY <2>1, FS_Subset
  <2> QED BY <2>1, <2>2 DEF IndexOK
<1>6. ZgramEnd' = EndOf(index') /\ EndOf(index') = EndOf(index)
  <2>1. ZgramEnd' = EndOf(index')
    BY DEF ZgramEnd, EndOf
  <2>2. PICK z \in index: z.id + 1 = EndOf(index)
    BY <1>2, <1>4, EndIs
  <2>3. z.id \in Nat
    BY <1>4, EndIs
  <2>4. z \in index'
    BY <1>2, <1>4, <2>2, <2>3
  <2>5. EndOf(index') \in Nat /\ z.id < EndOf(index')
    BY <1>5, <2>4, EndIs
  <2>6. \A x \in index': x.id < EndOf(index)
    BY <1>4, <1>5, EndIs
  <2>7. EndOf(index') <= EndOf(index)
    BY <1>4, <1>5, <2>6, EndIs
  <2>8. EndOf(index) <= EndOf(index')
    BY <1>4, <2>2, <2>3, <2>5
  <2> QED BY <1>4, <2>1, <2>5, <2>7, <2>8
<1>7. displayed \in [Sides -> Nat] /\ status \in [Sides -> StatusSet]
  BY <1>1 DEF PagingTypeOK, SubscriptionTypeOK
<1>8. ASSUME subscribed
      PROVE  /\ status' \in [Sides -> StatusSet] /\ displayed["front"] <= displayed["back"] /\ displayed["back"] <= EndOf(index)
             /\ \A side \in Sides: /\ SideOK(side, status'[side], index', displayed[side])
                                   /\ status'[side].next <= EndOf(index)
  <2>1. displayed["front"] <= displayed["back"] /\ displayed["back"] <= EndOf(index)
    BY <1>1, <1>4, <1>8 DEF SidesOK
  <2>2. displayed["front"] <= EndOf(index)
    BY <1>4, <2>1
  <2>3. status' \in ResetSides(index', displayed)
    BY <1>2, <1>8
  <2>4. /\ status' \in [Sides -> StatusSet]
        /\ \A side \in Sides: /\ SideOK(side, status'[side], index', displayed[side])
                              /\ status'[side].next <= EndOf(index')
    BY <1>5, <1>6, <1>7, <2>1, <2>2, <2>3, ResetHolds
  <2> QED BY <1>6, <2>1, <2>4
<1>9. Answers' = Answers /\ SameShown /\ AnswersOK'
  <2>1. Answers' = Answers /\ SameShown
    BY <1>2, <1>3 DEF Answers, SameShown, Coming
  <2> QED BY <1>1, <1>2, <1>3, <2>1 DEF AnswersOK, OneAnswer
<1>10. PagingTypeOK'
  <2>1. index' \subseteq StoredZgrams /\ IsFiniteSet(index') /\ status' \in [Sides -> StatusSet]
    BY <1>2, <1>5, <1>7, <1>8 DEF IndexOK
  <2>2. resets' \in Nat /\ purged' \in BOOLEAN
    BY <1>1, <1>2 DEF PagingTypeOK, SubscriptionTypeOK
  <2> QED BY <1>1, <1>2, <1>3, <2>1, <2>2 DEF PagingTypeOK, SubscriptionTypeOK
<1>11. RequestsOK' /\ NothingBefore'
  BY <1>1, <1>2, <1>3, <1>4, <1>6, <1>9 DEF RequestsOK, NothingBefore
<1>12. SidesOK'
  BY <1>2, <1>6, <1>8 DEF SidesOK
<1>13. Together' /\ WithinDisplayed' /\ OnThePage' = OnThePage
  BY <1>1, <1>2, <1>9, ShownKept
<1>14. AllThereIs'
  BY <1>1, <1>2, <1>5, <1>13 DEF AllThereIs
<1>15. Informed'
  <2> SUFFICES ASSUME Undisturbed' PROVE (LastTrue /\ NoneEmpty /\ LastTold /\ PromisesKept /\ AskedIsThere)'
    BY DEF Informed
  <2>1. index' = index /\ Undisturbed
    BY <1>2 DEF Undisturbed
  <2>2. LastTrue /\ NoneEmpty /\ LastTold /\ PromisesKept /\ AskedIsThere
    BY <1>1, <2>1 DEF Informed
  <2>3. LastTrue' /\ NoneEmpty' /\ LastTold' /\ AskedIsThere'
    BY <1>2, <1>3, <2>1, <2>2 DEF LastTrue, NoneEmpty, LastTold, AskedIsThere
  <2>4. PromisesKept'
    BY <1>2, <1>3, <1>9, <2>1, <2>2 DEF PromisesKept, Kept
  <2> QED BY <2>3, <2>4
<1> QED BY <1>9, <1>10, <1>11, <1>12, <1>13, <1>14, <1>15 DEF PagingInvariant

-----------------------------------------------------------------------------
(* The steps of the page. *)

\* What is kept when a response is taken, whatever it is.
LEMMA ResponseTaken ==
    ASSUME PagingTypeOK, AnswersOK, responses # <<>>, responses' = Tail(responses),
           UNCHANGED subscriptionVars
    PROVE  /\ responses' \in Seq(Responses) /\ OneAnswer(responses')
           /\ Head(responses) \in Responses
           /\ NoneEmpty => NoneEmpty' /\ Head(responses).type # "GeneralError"
                             /\ (Head(responses).type = "AckMoreZgrams" => Head(responses).zgrams # <<>>)
           /\ LastTold => IF responses' = <<>> THEN Head(responses).estimates = lastEstimates'
                          ELSE responses'[Len(responses')].estimates = lastEstimates'
           /\ PromisesKept /\ (Answers = {} \/ Head(responses).type = "AckMoreZgrams") => Kept(Head(responses).estimates)
           /\ PromisesKept => \A i \in DOMAIN responses':
                                (\A j \in Answers': j <= i) => Kept(responses'[i].estimates)
           /\ \A i \in Answers': i + 1 \in Answers /\ responses'[i] = responses[i + 1]
<1>1. responses \in Seq(Responses) /\ OneAnswer(responses)
  BY DEF PagingTypeOK, AnswersOK
<1>2. /\ responses' \in Seq(Responses) /\ OneAnswer(responses')
      /\ \A i \in DOMAIN responses': i + 1 \in DOMAIN responses /\ responses'[i] = responses[i + 1] /\ i \in Nat
      /\ \A i \in AnswersIn(responses'): i + 1 \in AnswersIn(responses)
      /\ \A i \in AnswersIn(responses): i # 1 => i - 1 \in AnswersIn(responses')
      /\ 1 \in DOMAIN responses /\ Head(responses) = responses[1] /\ Head(responses) \in Responses
      /\ Head(responses).type = "AckMoreZgrams" <=> 1 \in AnswersIn(responses)
  BY <1>1, TailAnswers
<1>3. Answers = AnswersIn(responses) /\ Answers' = AnswersIn(responses') /\ lastEstimates' = lastEstimates
  BY DEF Answers, subscriptionVars
<1>4. Len(responses) \in Nat /\ Len(responses') = Len(responses) - 1 /\ DOMAIN responses = 1..Len(responses)
  BY <1>1, HeadTailProperties, LenProperties
<1>5. ASSUME NoneEmpty
      PROVE  /\ NoneEmpty' /\ Head(responses).type # "GeneralError"
             /\ Head(responses).type = "AckMoreZgrams" => Head(responses).zgrams # <<>>
  BY <1>2, <1>5 DEF NoneEmpty
<1>6. ASSUME LastTold
      PROVE  IF responses' = <<>> THEN Head(responses).estimates = lastEstimates'
             ELSE responses'[Len(responses')].estimates = lastEstimates'
  <2>1. responses[Len(responses)].estimates = lastEstimates
    BY <1>6 DEF LastTold
  <2>2. CASE responses' = <<>>
    <3>1. Len(responses') = 0
      BY <2>2, EmptySeq
    <3>2. Len(responses) = 1
      <4>1. PICK m \in Nat: m = Len(responses)
        BY <1>4
      <4>2. m - 1 = 0
        BY <1>4, <3>1, <4>1
      <4>3. m = 1
        BY <4>2
      <4> QED BY <4>1, <4>3, Zenon
    <3>3. responses[1].estimates = lastEstimates
      BY <2>1, <3>2
    <3> QED BY <1>2, <1>3, <2>2, <3>3
  <2>3. CASE responses' # <<>>
    <3> DEFINE n == Len(responses')
    <3>1. n \in DOMAIN responses' /\ n \in Nat
      <4>1. n \in Nat \ {0} /\ DOMAIN responses' = 1..n
        BY <1>2, <2>3, EmptySeq, LenProperties
      <4> QED BY <4>1
    <3>2. n + 1 = Len(responses)
      BY <1>4, <3>1
    <3> HIDE DEF n
    <3>3. responses'[n] = responses[n + 1]
      BY <1>2, <3>1
    <3>4. responses'[n].estimates = lastEstimates'
      BY <1>3, <2>1, <3>2, <3>3
    <3> QED BY <2>3, <3>4 DEF n
  <2> QED BY <2>2, <2>3
<1>7. ASSUME PromisesKept, Answers = {} \/ Head(responses).type = "AckMoreZgrams"
      PROVE  Kept(Head(responses).estimates)
  <2>1. \A j \in Answers: j <= 1
    BY <1>1, <1>2, <1>3, <1>7 DEF OneAnswer
  <2>2. Kept(responses[1].estimates)
    BY <1>2, <1>7, <2>1 DEF PromisesKept
  <2> QED BY <1>2, <2>2
<1>8. ASSUME PromisesKept, NEW i \in DOMAIN responses', \A j \in Answers': j <= i
      PROVE  Kept(responses'[i].estimates)
  <2>1. i + 1 \in DOMAIN responses /\ responses'[i] = responses[i + 1] /\ i \in Nat
    BY <1>2
  <2>2. ASSUME NEW j \in Answers PROVE j <= i + 1
    <3>1. j \in Nat
      BY <1>3, <1>4 DEF AnswersIn
    <3>2. CASE j = 1
      BY <2>1, <3>2
    <3>3. CASE j # 1
      <4>1. j - 1 <= i
        BY <1>2, <1>3, <1>8, <3>3
      <4> QED BY <2>1, <3>1, <4>1
    <3> QED BY <3>2, <3>3
  <2>3. Kept(responses[i + 1].estimates)
    BY <1>8, <2>1, <2>2 DEF PromisesKept
  <2> QED BY <2>1, <2>3
<1>9. \A i \in Answers': i + 1 \in Answers /\ responses'[i] = responses[i + 1]
  BY <1>2, <1>3 DEF AnswersIn
<1> QED BY <1>2, <1>5, <1>6, <1>7, <1>8, <1>9

\* A new request is for something that is wanted and, if nothing disturbed, there.
LEMMA Asked ==
    ASSUME requests = <<>>, NEW waiting, Sends(waiting), Answers' = {}
    PROVE  /\ requests' \in Seq(Requests) /\ outstanding' = TRUE /\ RequestsOK'
           /\ Kept(estimate)' => AskedIsThere'
<1>1. PICK side \in Sides, n \in Nat \ {0}:
        /\ outstanding' = TRUE
        /\ requests' = Append(requests, GetMoreRequest(side, n))
        /\ appetite'[side] = Undefined \/ n <= appetite'[side]
        /\ Promises(estimate'[side])
  BY DEF Sends
<1> DEFINE r == GetMoreRequest(side, n)
<1>2. r \in Requests /\ r.type = "GetMoreZgrams" /\ r.side = side /\ r.count = n
  BY DEF Requests, GetMoreRequest
<1>3. requests' = <<r>>
  BY <1>1
<1> HIDE DEF r
<1>4. requests' \in Seq(Requests) /\ Len(requests') = 1 /\ Head(requests') = r /\ requests' # <<>>
  BY <1>2, <1>3
<1>5. RequestsOK'
  <2>1. Len(requests') <= 1
    BY <1>4
  <2>2. Head(requests').type = "GetMoreZgrams" /\ Head(requests').side = side /\ Head(requests').count = n
    BY <1>2, <1>4
  <2>3. n > 0
    OBVIOUS
  <2> QED BY <1>1, <2>1, <2>2, <2>3 DEF RequestsOK
<1>6. ASSUME Kept(estimate)' PROVE AskedIsThere'
  BY <1>1, <1>2, <1>4, <1>6 DEF Kept, AskedIsThere
<1> QED BY <1>1, <1>4, <1>5, <1>6

LEMMA VisitEstimatesStep ==
    ASSUME PagingInvariant, VisitEstimates, UNCHANGED subscriptionVars
    PROVE  PagingInvariant'
<1>1. /\ PagingTypeOK /\ RequestsOK /\ AnswersOK /\ NothingBefore
      /\ SidesOK /\ Together /\ WithinDisplayed /\ AllThereIs /\ Informed
  BY DEF PagingInvariant
<1>2. /\ index' = index /\ subscribed' = subscribed /\ displayed' = displayed /\ status' = status
      /\ lastEstimates' = lastEstimates /\ resets' = resets /\ failures' = failures /\ purged' = purged
  BY DEF subscriptionVars
<1>3. /\ responses # <<>> /\ responses' = Tail(responses)
      /\ Head(responses).type \in {"AckSubscribe", "EstimatesUpdate"}
      /\ estimate' = Head(responses).estimates /\ zgrams' = zgrams /\ appetite' = appetite
      /\ SendMore(outstanding)
  BY DEF VisitEstimates, TakeResponse
<1>4. /\ responses' \in Seq(Responses) /\ OneAnswer(responses') /\ Head(responses) \in Responses
      /\ \A i \in Answers': i + 1 \in Answers /\ responses'[i] = responses[i + 1]
  BY <1>1, <1>3, ResponseTaken
<1>5. estimate' \in EstimatesSet
  BY <1>3, <1>4, ResponseFields
<1>6. (Answers' = {} <=> Answers = {}) /\ SameShown
  <2>1. responses \in Seq(Responses) /\ OneAnswer(responses) /\ Head(responses).type # "AckMoreZgrams"
    BY <1>1, <1>3 DEF PagingTypeOK, AnswersOK
  <2>2. /\ AnswersIn(Tail(responses)) = {} <=> AnswersIn(responses) = {}
        /\ \A side: ComingIn(Tail(responses), side) = ComingIn(responses, side)
    BY <1>3, <2>1, OtherTaken
  <2> QED BY <1>3, <2>2, ComingIs DEF Answers, SameShown
<1>7. outstanding \in BOOLEAN /\ appetite' \in [Sides -> Nat \union {Undefined}] /\ requests \in Seq(Requests)
  BY <1>1, <1>3 DEF PagingTypeOK
<1>8. (requests' = requests /\ outstanding' = outstanding) \/ Sends(outstanding)
  BY <1>3, <1>5, <1>7, SendMoreSends
<1>9. requests # <<>> => Head(requests).type = "GetMoreZgrams" /\ outstanding /\ Answers = {}
  <2> SUFFICES ASSUME requests # <<>> PROVE Head(requests).type = "GetMoreZgrams" /\ outstanding /\ Answers = {}
    OBVIOUS
  <2>1. Head(requests).type \in {"Subscribe", "GetMoreZgrams"}
    BY <1>7, HeadTailProperties, RequestFields
  <2> QED BY <1>1, <1>3, <2>1 DEF RequestsOK
<1>10. Sends(outstanding) => requests = <<>> /\ Answers' = {}
  BY <1>1, <1>6, <1>9 DEF Sends, AnswersOK
<1>11. requests' \in Seq(Requests) /\ outstanding' \in BOOLEAN /\ RequestsOK' /\ (outstanding => outstanding')
  <2>1. CASE requests' = requests /\ outstanding' = outstanding
    BY <1>1, <1>3, <1>6, <1>7, <1>9, <2>1 DEF RequestsOK
  <2>2. CASE Sends(outstanding)
    BY <1>10, <2>2, Asked
  <2> QED BY <1>8, <2>1, <2>2
<1>12. PagingTypeOK'
  BY <1>1, <1>2, <1>3, <1>4, <1>5, <1>11 DEF PagingTypeOK, SubscriptionTypeOK
<1>13. AnswersOK'
  BY <1>1, <1>3, <1>4, <1>6, <1>11 DEF AnswersOK
<1>14. NothingBefore' /\ SidesOK'
  <2>1. ZgramEnd' = ZgramEnd
    BY <1>2 DEF ZgramEnd
  <2> QED BY <1>1, <1>2, <1>3, <1>6, <2>1 DEF NothingBefore, SidesOK
<1>15. Together' /\ WithinDisplayed' /\ AllThereIs'
  BY <1>1, <1>2, <1>6, ShownKept
<1>16. Informed'
  <2> SUFFICES ASSUME Undisturbed' PROVE (LastTrue /\ NoneEmpty /\ LastTold /\ PromisesKept /\ AskedIsThere)'
    BY DEF Informed
  <2>1. LastTrue /\ NoneEmpty /\ LastTold /\ PromisesKept /\ AskedIsThere
    BY <1>1, <1>2 DEF Informed, Undisturbed
  <2>2. /\ NoneEmpty'
        /\ IF responses' = <<>> THEN Head(responses).estimates = lastEstimates'
           ELSE responses'[Len(responses')].estimates = lastEstimates'
        /\ Answers = {} => Kept(Head(responses).estimates)
        /\ \A i \in DOMAIN responses': (\A j \in Answers': j <= i) => Kept(responses'[i].estimates)
    BY <1>1, <1>3, <2>1, ResponseTaken
  <2>3. LastTrue' /\ LastTold'
    BY <1>2, <1>3, <2>1, <2>2 DEF LastTrue, LastTold
  <2>4. ASSUME Answers' = {} PROVE Kept(estimate)'
    <3>1. Kept(Head(responses).estimates)
      BY <1>6, <2>2, <2>4
    <3> QED BY <1>2, <1>3, <3>1 DEF Kept
  <2>5. PromisesKept'
    BY <1>2, <2>2, <2>4 DEF PromisesKept, Kept
  <2>6. AskedIsThere'
    <3>1. CASE requests' = requests
      BY <1>2, <2>1, <3>1 DEF AskedIsThere
    <3>2. CASE Sends(outstanding)
      BY <1>10, <2>4, <3>2, Asked
    <3> QED BY <1>8, <3>1, <3>2
  <2> QED BY <2>2, <2>3, <2>5, <2>6
<1> QED BY <1>11, <1>12, <1>13, <1>14, <1>15, <1>16 DEF PagingInvariant

LEMMA VisitGeneralErrorStep ==
    ASSUME PagingInvariant, VisitGeneralError, UNCHANGED subscriptionVars
    PROVE  PagingInvariant'
<1>1. /\ PagingTypeOK /\ RequestsOK /\ AnswersOK /\ NothingBefore
      /\ SidesOK /\ Together /\ WithinDisplayed /\ AllThereIs /\ Informed
  BY DEF PagingInvariant
<1>2. /\ index' = index /\ subscribed' = subscribed /\ displayed' = displayed /\ status' = status
      /\ lastEstimates' = lastEstimates /\ resets' = resets /\ failures' = failures /\ purged' = purged
  BY DEF subscriptionVars
<1>3. /\ responses # <<>> /\ responses' = Tail(responses) /\ Head(responses).type = "GeneralError"
      /\ requests' = requests /\ zgrams' = zgrams /\ appetite' = appetite /\ estimate' = estimate
      /\ outstanding' = outstanding
  BY DEF VisitGeneralError, TakeResponse
<1>4. /\ responses' \in Seq(Responses) /\ OneAnswer(responses')
      /\ \A i \in Answers': i + 1 \in Answers /\ responses'[i] = responses[i + 1]
  BY <1>1, <1>3, ResponseTaken
<1>5. (Answers' = {} <=> Answers = {}) /\ SameShown
  <2>1. responses \in Seq(Responses) /\ OneAnswer(responses) /\ Head(responses).type # "AckMoreZgrams"
    BY <1>1, <1>3 DEF PagingTypeOK, AnswersOK
  <2>2. /\ AnswersIn(Tail(responses)) = {} <=> AnswersIn(responses) = {}
        /\ \A side: ComingIn(Tail(responses), side) = ComingIn(responses, side)
    BY <1>3, <2>1, OtherTaken
  <2> QED BY <1>3, <2>2, ComingIs DEF Answers, SameShown
<1>6. PagingTypeOK'
  BY <1>1, <1>2, <1>3, <1>4 DEF PagingTypeOK, SubscriptionTypeOK
<1>7. RequestsOK'
  BY <1>1, <1>3, <1>5 DEF RequestsOK
<1>8. AnswersOK'
  BY <1>1, <1>3, <1>4, <1>5 DEF AnswersOK
<1>9. NothingBefore' /\ SidesOK'
  <2>1. ZgramEnd' = ZgramEnd
    BY <1>2 DEF ZgramEnd
  <2> QED BY <1>1, <1>2, <1>3, <1>5, <2>1 DEF NothingBefore, SidesOK
<1>10. Together' /\ WithinDisplayed' /\ AllThereIs'
  BY <1>1, <1>2, <1>5, ShownKept
<1>11. Informed'
  <2> SUFFICES ASSUME Undisturbed' PROVE FALSE
    BY DEF Informed
  <2>1. NoneEmpty
    BY <1>1, <1>2 DEF Informed, Undisturbed
  <2> QED BY <1>1, <1>3, <2>1, ResponseTaken
<1> QED BY <1>6, <1>7, <1>8, <1>9, <1>10, <1>11 DEF PagingInvariant

\* The front zgrams come nearest first and are shown the other way round.
LEMMA Reversed ==
    ASSUME NEW s \in Seq(Nat), Sorted("front", s)
    PROVE  Reverse(s) \in Seq(Nat) /\ Range(Reverse(s)) = Range(s) /\ Sorted("back", Reverse(s))
<1> DEFINE r == Reverse(s)
           n == Len(s)
<1>1. n \in Nat /\ DOMAIN s = 1..n /\ \A i \in 1..n: s[i] \in Nat
  BY LenProperties, ElementOfSeq
<1>2. r = [i \in 1..n |-> s[(n - i) + 1]]
  BY DEF Reverse
<1> HIDE DEF n, r
<1>3. \A i \in 1..n: (n - i) + 1 \in 1..n
  BY <1>1
<1>4. DOMAIN r = 1..n /\ \A i \in 1..n: r[i] = s[(n - i) + 1] /\ r[i] \in Nat
  BY <1>1, <1>2, <1>3
<1>5. r \in [1..n -> Nat]
  BY <1>1, <1>2, <1>3
<1>6. r \in Seq(Nat)
  BY <1>1, <1>5
<1>7. \A x \in Range(r): x \in Range(s)
  BY <1>1, <1>3, <1>4 DEF Range
<1>8. ASSUME NEW x \in Range(s) PROVE x \in Range(r)
  <2>1. PICK i \in 1..n: s[i] = x
    BY <1>1 DEF Range
  <2>2. (n - i) + 1 \in 1..n /\ (n - ((n - i) + 1)) + 1 = i
    BY <1>1
  <2>3. r[(n - i) + 1] = x
    BY <1>4, <2>1, <2>2
  <2> QED BY <1>4, <2>2, <2>3 DEF Range
<1>9. ASSUME NEW i \in 1..n, NEW j \in 1..n, i < j PROVE r[i] < r[j]
  <2>1. (n - j) + 1 \in DOMAIN s /\ (n - i) + 1 \in DOMAIN s /\ (n - j) + 1 < (n - i) + 1
    BY <1>1, <1>3, <1>9
  <2>2. Nearer("front", s[(n - j) + 1], s[(n - i) + 1])
    BY <2>1 DEF Sorted
  <2>3. Nearer("front", r[j], r[i])
    BY <1>4, <2>2
  <2> QED BY <1>4, <2>3, SideNames DEF Nearer
<1>10. Sorted("back", r)
  BY <1>4, <1>9 DEF Sorted, Nearer
<1> QED BY <1>6, <1>7, <1>8, <1>10 DEF r

LEMMA AnswerShown ==
    ASSUME NEW shown \in Seq(Nat), NEW found \in Seq(Nat), NEW side \in Sides,
           InOrder(IF side = "front" THEN found ELSE <<>>, shown, IF side = "back" THEN found ELSE <<>>)
    PROVE  LET more == IF side = "front" THEN Reverse(found) \o shown ELSE shown \o found
           IN /\ more \in Seq(Nat) /\ Range(more) = Range(shown) \union Range(found)
              /\ InOrder(<<>>, more, <<>>)
<1>1. \A s: InOrder(<<>>, s, <<>>) <=> Sorted("back", s)
  BY DEF InOrder, Sorted, AllBefore, Range
<1>2. Range(shown) \subseteq Nat /\ Range(found) \subseteq Nat
  BY RangeOfSeq
<1>3. CASE side = "front"
  <2> DEFINE r == Reverse(found)
  <2>1. Sorted("front", found) /\ Sorted("back", shown) /\ AllBefore(found, shown)
    BY <1>3 DEF InOrder
  <2>2. r \in Seq(Nat) /\ Range(r) = Range(found) /\ Sorted("back", r)
    BY <2>1, Reversed
  <2> HIDE DEF r
  <2>3. \A x \in Range(r), y \in Range(shown): Nearer("back", x, y)
    BY <2>1, <2>2 DEF AllBefore, Nearer
  <2>4. Sorted("back", r \o shown)
    BY <2>1, <2>2, <2>3, SideNames, SortedParts
  <2>5. r \o shown \in Seq(Nat) /\ Range(r \o shown) = Range(r) \union Range(shown)
    BY <2>2, ConcatProperties, RangeConcatenation
  <2> QED BY <1>1, <1>3, <2>2, <2>4, <2>5 DEF r
<1>4. CASE side = "back"
  <2>1. Sorted("back", found) /\ Sorted("back", shown) /\ AllBefore(shown, found)
    BY <1>4, SideNames DEF InOrder
  <2>2. \A x \in Range(shown), y \in Range(found): Nearer("back", x, y)
    BY <2>1 DEF AllBefore, Nearer
  <2>3. Sorted("back", shown \o found)
    BY <2>1, <2>2, SideNames, SortedParts
  <2>4. shown \o found \in Seq(Nat) /\ Range(shown \o found) = Range(shown) \union Range(found)
    BY ConcatProperties, RangeConcatenation
  <2> QED BY <1>1, <1>4, <2>3, <2>4, SideNames
<1> QED BY <1>3, <1>4, SideNames

LEMMA VisitAckMoreZgramsStep ==
    ASSUME PagingInvariant, VisitAckMoreZgrams, UNCHANGED subscriptionVars
    PROVE  PagingInvariant'
<1> DEFINE ack == Head(responses)
           found == ack.zgrams
<1>1. /\ PagingTypeOK /\ RequestsOK /\ AnswersOK /\ NothingBefore
      /\ SidesOK /\ Together /\ WithinDisplayed /\ AllThereIs /\ Informed
  BY DEF PagingInvariant
<1>2. /\ index' = index /\ subscribed' = subscribed /\ displayed' = displayed /\ status' = status
      /\ lastEstimates' = lastEstimates /\ resets' = resets /\ failures' = failures /\ purged' = purged
  BY DEF subscriptionVars
<1>3. responses # <<>> /\ responses' = Tail(responses) /\ ack.type = "AckMoreZgrams"
  BY DEF VisitAckMoreZgrams, TakeResponse
<1>4. IF found = <<>>
      THEN /\ outstanding' = FALSE
           /\ UNCHANGED <<zgrams, appetite, estimate, requests>>
      ELSE /\ zgrams' = IF ack.side = "front" THEN Reverse(found) \o zgrams ELSE zgrams \o found
           /\ appetite' = IF appetite[ack.side] = Undefined THEN appetite
                          ELSE [appetite EXCEPT ![ack.side] = @ - Len(found)]
           /\ estimate' = ack.estimates
           /\ SendMore(FALSE)
  BY DEF VisitAckMoreZgrams
<1>5. responses' \in Seq(Responses) /\ OneAnswer(responses') /\ ack \in Responses
  BY <1>1, <1>3, ResponseTaken
<1>6. ack.side \in Sides /\ found \in Seq(Nat) /\ ack.estimates \in EstimatesSet
  BY <1>3, <1>5, ResponseFields
<1>7. responses \in Seq(Responses) /\ OneAnswer(responses)
  BY <1>1 DEF PagingTypeOK, AnswersOK
<1>8. 1 \in AnswersIn(responses) /\ ack = responses[1]
  BY <1>3, <1>7, TailAnswers
<1>9. /\ AnswersIn(responses') = {} /\ AnswersIn(responses) # {}
      /\ \A side: /\ ComingIn(responses', side) = <<>>
                  /\ ComingIn(responses, side) = IF side = ack.side THEN found ELSE <<>>
  BY <1>3, <1>7, AnswerTaken
<1>10. appetite[ack.side] = Undefined \/ (appetite[ack.side] > 0 /\ Len(found) <= appetite[ack.side])
  BY <1>1, <1>8 DEF AnswersOK, Answers
<1> DEFINE side == ack.side
<1> HIDE DEF ack, found
<1>11. /\ Answers' = {} /\ Answers # {} /\ Coming("front")' = <<>> /\ Coming("back")' = <<>>
       /\ Coming("front") = IF side = "front" THEN found ELSE <<>>
       /\ Coming("back") = IF side = "back" THEN found ELSE <<>>
  BY <1>9, ComingIs DEF Answers
<1> HIDE DEF side
<1>12. requests \in Seq(Requests) /\ requests = <<>>
  <2>1. requests \in Seq(Requests)
    BY <1>1 DEF PagingTypeOK
  <2>2. ASSUME requests # <<>> PROVE FALSE
    <3>1. Head(requests).type \in {"Subscribe", "GetMoreZgrams"}
      BY <2>1, <2>2, HeadTailProperties, RequestFields
    <3> QED BY <1>1, <1>3, <1>11, <2>2, <3>1 DEF RequestsOK
  <2> QED BY <2>1, <2>2
<1>13. NothingBefore' /\ SidesOK'
  <2>1. ZgramEnd' = ZgramEnd
    BY <1>2 DEF ZgramEnd
  <2> QED BY <1>1, <1>2, <1>11, <2>1 DEF NothingBefore, SidesOK
<1>14. AnswersOK'
  BY <1>5, <1>11 DEF AnswersOK
<1>15. /\ zgrams \in Seq(Nat) /\ appetite \in [Sides -> Nat \union {Undefined}]
       /\ estimate \in EstimatesSet /\ side \in Sides
  BY <1>1, <1>6 DEF PagingTypeOK, side
<1>16. Range(<<>>) = {}
  BY DEF Range
<1>17. CASE found = <<>>
  <2>1. outstanding' = FALSE /\ zgrams' = zgrams /\ appetite' = appetite /\ estimate' = estimate /\ requests' = requests
    BY <1>4, <1>17
  <2>2. SameShown
    BY <1>11, <1>17, <2>1 DEF SameShown
  <2>3. PagingTypeOK'
    BY <1>1, <1>2, <1>5, <2>1 DEF PagingTypeOK, SubscriptionTypeOK
  <2>4. RequestsOK'
    BY <1>1, <1>12, <2>1 DEF RequestsOK
  <2>5. Together' /\ WithinDisplayed' /\ AllThereIs'
    BY <1>1, <1>2, <2>2, ShownKept
  <2>6. Informed'
    <3> SUFFICES ASSUME Undisturbed' PROVE FALSE
      BY DEF Informed
    <3>1. NoneEmpty
      BY <1>1, <1>2 DEF Informed, Undisturbed
    <3>2. found # <<>>
      BY <1>1, <1>3, <3>1, ResponseTaken DEF found, ack
    <3> QED BY <1>17, <3>2
  <2> QED BY <1>13, <1>14, <2>3, <2>4, <2>5, <2>6 DEF PagingInvariant
<1>18. CASE found # <<>>
  <2>1. /\ zgrams' = IF side = "front" THEN Reverse(found) \o zgrams ELSE zgrams \o found
        /\ appetite' = IF appetite[side] = Undefined THEN appetite
                       ELSE [appetite EXCEPT ![side] = @ - Len(found)]
        /\ estimate' = ack.estimates
        /\ SendMore(FALSE)
    BY <1>4, <1>18 DEF side
  <2>2. InOrder(IF side = "front" THEN found ELSE <<>>, zgrams, IF side = "back" THEN found ELSE <<>>)
    BY <1>1, <1>11 DEF Together
  <2>3. zgrams' \in Seq(Nat) /\ Range(zgrams') = Range(zgrams) \union Range(found) /\ InOrder(<<>>, zgrams', <<>>)
    BY <1>6, <1>15, <2>1, <2>2, AnswerShown
  <2>4. appetite' \in [Sides -> Nat \union {Undefined}]
    <3>1. CASE appetite[side] = Undefined
      BY <1>15, <2>1, <3>1
    <3>2. CASE appetite[side] # Undefined
      <4>1. appetite[side] \in Nat /\ Len(found) \in Nat /\ Len(found) <= appetite[side]
        BY <1>6, <1>10, <1>15, <3>2, LenProperties DEF side
      <4>2. appetite[side] - Len(found) \in Nat
        BY <4>1
      <4>3. appetite' = [appetite EXCEPT ![side] = appetite[side] - Len(found)]
        BY <2>1, <3>2
      <4> QED BY <1>15, <4>2, <4>3
    <3> QED BY <3>1, <3>2
  <2>5. (requests' = requests /\ outstanding' = FALSE) \/ Sends(FALSE)
    BY <1>6, <2>1, <2>4, SendMoreSends
  <2>6. requests' \in Seq(Requests) /\ outstanding' \in BOOLEAN /\ RequestsOK'
    <3>1. CASE requests' = requests /\ outstanding' = FALSE
      BY <1>1, <1>12, <3>1 DEF RequestsOK
    <3>2. CASE Sends(FALSE)
      BY <1>11, <1>12, <3>2, Asked
    <3> QED BY <2>5, <3>1, <3>2
  <2>7. PagingTypeOK'
    BY <1>1, <1>2, <1>5, <1>6, <2>1, <2>3, <2>4, <2>6 DEF PagingTypeOK, SubscriptionTypeOK
  <2>8. Together'
    BY <1>11, <2>3 DEF Together
  <2>9. OnThePage' = OnThePage
    <3>1. OnThePage' = Range(zgrams')
      BY <1>11, <1>16 DEF OnThePage
    <3>2. OnThePage = Range(zgrams) \union Range(found)
      BY <1>11, <1>15, <1>16, SideNames DEF OnThePage
    <3> QED BY <2>3, <3>1, <3>2
  <2>10. WithinDisplayed' /\ AllThereIs'
    BY <1>1, <1>2, <2>9 DEF WithinDisplayed, AllThereIs
  <2>11. Informed'
    <3> SUFFICES ASSUME Undisturbed' PROVE (LastTrue /\ NoneEmpty /\ LastTold /\ PromisesKept /\ AskedIsThere)'
      BY DEF Informed
    <3>1. LastTrue /\ NoneEmpty /\ LastTold /\ PromisesKept /\ AskedIsThere
      BY <1>1, <1>2 DEF Informed, Undisturbed
    <3>2. /\ NoneEmpty'
          /\ IF responses' = <<>> THEN ack.estimates = lastEstimates'
             ELSE responses'[Len(responses')].estimates = lastEstimates'
          /\ Kept(ack.estimates)
          /\ \A i \in DOMAIN responses': (\A j \in Answers': j <= i) => Kept(responses'[i].estimates)
      BY <1>1, <1>3, <3>1, ResponseTaken DEF ack
    <3>3. LastTrue' /\ LastTold'
      BY <1>2, <2>1, <3>1, <3>2 DEF LastTrue, LastTold
    <3>4. Kept(estimate)'
      BY <1>2, <2>1, <3>2 DEF Kept
    <3>5. PromisesKept'
      BY <1>2, <3>2, <3>4 DEF PromisesKept, Kept
    <3>6. AskedIsThere'
      <4>1. CASE requests' = requests
        BY <1>12, <4>1 DEF AskedIsThere
      <4>2. CASE Sends(FALSE)
        BY <1>11, <1>12, <3>4, <4>2, Asked
      <4> QED BY <2>5, <4>1, <4>2
    <3> QED BY <3>2, <3>3, <3>5, <3>6
  <2> QED BY <1>13, <1>14, <2>6, <2>7, <2>8, <2>10, <2>11 DEF PagingInvariant
<1> QED BY <1>17, <1>18

LEMMA ClickStep ==
    ASSUME PagingInvariant, NEW side \in Sides, Click(side), UNCHANGED subscriptionVars
    PROVE  PagingInvariant'
<1>1. /\ PagingTypeOK /\ RequestsOK /\ AnswersOK /\ NothingBefore
      /\ SidesOK /\ Together /\ WithinDisplayed /\ AllThereIs /\ Informed
  BY DEF PagingInvariant
<1>2. /\ index' = index /\ subscribed' = subscribed /\ displayed' = displayed /\ status' = status
      /\ lastEstimates' = lastEstimates /\ resets' = resets /\ failures' = failures /\ purged' = purged
  BY DEF subscriptionVars
<1>3. responses' = responses /\ zgrams' = zgrams /\ estimate' = estimate /\ SendMore(outstanding)
  BY DEF Click
<1>4. PICK n \in Buttons(side): appetite' = [appetite EXCEPT ![side] = n]
  BY DEF Click
<1>5. /\ appetite \in [Sides -> Nat \union {Undefined}] /\ estimate \in EstimatesSet /\ outstanding \in BOOLEAN
      /\ requests \in Seq(Requests) /\ responses \in Seq(Responses)
  BY <1>1 DEF PagingTypeOK
<1>6. estimate[side].count \in Nat
  BY <1>5 DEF EstimatesSet
<1>7. n \in Nat \union {Undefined} /\ appetite[side] # Undefined /\ ~(appetite[side] > 0)
  <2>1. Buttons(side) # {}
    BY <1>4
  <2>2. ~(appetite[side] = Undefined \/ appetite[side] > 0)
    BY <2>1 DEF Buttons
  <2>3. n \in ButtonSizes \/ n = Undefined \/ n = estimate[side].count
    BY <1>4, <2>2 DEF Buttons
  <2>4. ButtonSizes \subseteq Nat
    BY PageAssumption
  <2> QED BY <1>6, <2>2, <2>3, <2>4
<1>8. appetite' \in [Sides -> Nat \union {Undefined}] /\ \A other \in Sides: other # side => appetite'[other] = appetite[other]
  BY <1>4, <1>5, <1>7
<1>9. (requests' = requests /\ outstanding' = outstanding) \/ Sends(outstanding)
  BY <1>3, <1>5, <1>8, SendMoreSends
<1>10. Answers' = Answers /\ SameShown
  BY <1>3 DEF Answers, SameShown, Coming
<1>11. requests # <<>> =>
         \/ Head(requests).type = "Subscribe"
         \/ /\ Head(requests).type = "GetMoreZgrams" /\ Head(requests).side \in Sides
            /\ Head(requests).count \in Nat
  BY <1>5, HeadTailProperties, RequestFields
<1>12. ASSUME Sends(outstanding) PROVE requests = <<>> /\ Answers' = {}
  <2>1. ~outstanding /\ \E s \in Sides: Promises(estimate[s])
    BY <1>3, <1>12 DEF Sends
  <2>2. Answers' = {}
    BY <1>1, <1>10, <2>1 DEF AnswersOK
  <2>3. ASSUME requests # <<>> PROVE FALSE
    BY <1>1, <1>11, <2>1, <2>3 DEF RequestsOK
  <2> QED BY <2>2, <2>3
<1>13. RequestsOK' /\ requests' \in Seq(Requests) /\ outstanding' \in BOOLEAN /\ (outstanding => outstanding')
  <2>1. CASE Sends(outstanding)
    BY <1>12, <2>1, Asked
  <2>2. CASE requests' = requests /\ outstanding' = outstanding
    <3>1. ASSUME requests # <<>>, Head(requests).type = "GetMoreZgrams"
          PROVE  appetite'[Head(requests).side] = appetite[Head(requests).side]
      <4>1. Head(requests).side \in Sides /\ Head(requests).count \in Nat
        BY <1>11, <3>1
      <4>2. /\ Head(requests).count > 0
            /\ appetite[Head(requests).side] = Undefined \/ Head(requests).count <= appetite[Head(requests).side]
        BY <1>1, <3>1 DEF RequestsOK
      <4>3. Head(requests).side # side
        BY <1>5, <1>7, <4>1, <4>2
      <4> QED BY <1>8, <4>1, <4>3
    <3>2. ZgramEnd' = ZgramEnd
      BY <1>2 DEF ZgramEnd
    <3> QED BY <1>1, <1>2, <1>3, <1>5, <1>10, <2>2, <3>1, <3>2 DEF RequestsOK
  <2> QED BY <1>9, <2>1, <2>2
<1>14. PagingTypeOK'
  BY <1>1, <1>2, <1>3, <1>8, <1>13 DEF PagingTypeOK, SubscriptionTypeOK
<1>15. AnswersOK'
  <2>1. ASSUME NEW i \in Answers PROVE appetite'[responses[i].side] = appetite[responses[i].side]
    <3>1. appetite[responses[i].side] = Undefined \/ appetite[responses[i].side] > 0
      BY <1>1 DEF AnswersOK
    <3>2. responses[i].side # side
      BY <1>7, <3>1
    <3>3. responses[i].side \in Sides
      <4>1. i \in 1..Len(responses) /\ responses[i].type = "AckMoreZgrams"
        BY <1>5, LenProperties DEF Answers, AnswersIn
      <4>2. responses[i] \in Responses
        BY <1>5, <4>1, ElementOfSeq
      <4> QED BY <4>1, <4>2, ResponseFields
    <3> QED BY <1>8, <3>2, <3>3
  <2>2. OneAnswer(responses)'
    BY <1>1, <1>3 DEF AnswersOK, OneAnswer
  <2>3. Answers' # {} => outstanding'
    BY <1>1, <1>10, <1>13 DEF AnswersOK
  <2>4. ASSUME NEW i \in Answers
        PROVE  LET wanted == appetite'[responses'[i].side]
               IN wanted = Undefined \/ (wanted > 0 /\ Len(responses'[i].zgrams) <= wanted)
    BY <1>1, <1>3, <2>1 DEF AnswersOK
  <2> QED BY <1>10, <2>2, <2>3, <2>4 DEF AnswersOK
<1>16. NothingBefore' /\ SidesOK'
  <2>1. ZgramEnd' = ZgramEnd
    BY <1>2 DEF ZgramEnd
  <2> QED BY <1>1, <1>2, <1>3, <1>10, <2>1 DEF NothingBefore, SidesOK
<1>17. Together' /\ WithinDisplayed' /\ AllThereIs'
  BY <1>1, <1>2, <1>10, ShownKept
<1>18. Informed'
  <2> SUFFICES ASSUME Undisturbed' PROVE (LastTrue /\ NoneEmpty /\ LastTold /\ PromisesKept /\ AskedIsThere)'
    BY DEF Informed
  <2>1. LastTrue /\ NoneEmpty /\ LastTold /\ PromisesKept /\ AskedIsThere
    BY <1>1, <1>2 DEF Informed, Undisturbed
  <2>2. LastTrue' /\ NoneEmpty' /\ LastTold' /\ PromisesKept'
    BY <1>2, <1>3, <1>10, <2>1 DEF LastTrue, NoneEmpty, LastTold, PromisesKept, Kept
  <2>3. AskedIsThere'
    <3>1. CASE requests' = requests
      BY <1>2, <2>1, <3>1 DEF AskedIsThere
    <3>2. CASE Sends(outstanding)
      <4>1. Kept(estimate)'
        BY <1>12, <2>2, <3>2 DEF PromisesKept
      <4> QED BY <1>12, <3>2, <4>1, Asked
    <3> QED BY <1>9, <3>1, <3>2
  <2> QED BY <2>2, <2>3
<1> QED BY <1>13, <1>14, <1>15, <1>16, <1>17, <1>18 DEF PagingInvariant
-----------------------------------------------------------------------------
(* Every step, and what follows. *)

LEMMA InitInvariant == Init => PagingInvariant
<1> SUFFICES ASSUME Init PROVE PagingInvariant
  OBVIOUS
<1>1. PICK start \in {End} \union 0..ZgramEnd: PageInit(start)
  BY DEF Init
<1>2. /\ ~subscribed /\ subscribed \in BOOLEAN /\ displayed = [side \in Sides |-> 0]
      /\ status = [side \in Sides |-> [residual |-> <<>>, next |-> 0]]
      /\ lastEstimates = NoEstimates /\ responses = <<>> /\ resets = 0 /\ failures = 0 /\ purged = FALSE
  BY DEF Init, SubscriptionInit
<1>3. index \subseteq StoredZgrams /\ IsFiniteSet(index)
  <2>0. PICK n \in 0..MaxStored:
          \E kinds \in [1..n -> BOOLEAN \X BOOLEAN]:
            index = {[id |-> i - 1, matches |-> kinds[i][1], logged |-> kinds[i][2]]: i \in 1..n}
    BY DEF Init, SubscriptionInit
  <2>1. PICK kinds \in [1..n -> BOOLEAN \X BOOLEAN]:
           index = {[id |-> i - 1, matches |-> kinds[i][1], logged |-> kinds[i][2]]: i \in 1..n}
    BY <2>0
  <2> DEFINE f == [i \in 1..n |-> [id |-> i - 1, matches |-> kinds[i][1], logged |-> kinds[i][2]]]
  <2>2. n \in Nat /\ IsFiniteSet(1..n)
    BY FS_Interval, SubscriptionAssumption
  <2>3. f \in Surjection(1..n, index)
    BY <2>1 DEF Surjection
  <2> HIDE DEF f
  <2>4. IsFiniteSet(index)
    BY <2>2, <2>3, FS_Surjection
  <2>5. ASSUME NEW i \in 1..n
        PROVE  [id |-> i - 1, matches |-> kinds[i][1], logged |-> kinds[i][2]] \in StoredZgrams
    <3>1. kinds[i] \in BOOLEAN \X BOOLEAN /\ i - 1 \in Nat
      BY <2>2
    <3>2. kinds[i][1] \in BOOLEAN /\ kinds[i][2] \in BOOLEAN
      BY <3>1
    <3> QED BY <3>1, <3>2 DEF StoredZgrams
  <2> QED BY <2>1, <2>4, <2>5
<1>4. displayed \in [Sides -> Nat] /\ status \in [Sides -> StatusSet]
  <2>1. [residual |-> <<>>, next |-> 0] \in StatusSet
    BY DEF StatusSet
  <2> QED BY <1>2, <2>1
<1>5. lastEstimates \in EstimatesSet /\ estimate \in EstimatesSet /\ \A side \in Sides: ~Promises(estimate[side])
  BY <1>1, <1>2 DEF PageInit, NoEstimates, EstimatesSet, Promises
<1>6. /\ requests = <<SubscribeRequest(start)>> /\ SubscribeRequest(start) \in Requests
      /\ Len(requests) = 1 /\ Head(requests) = SubscribeRequest(start)
      /\ zgrams = <<>> /\ outstanding = FALSE
  <2>1. ZgramEnd \in Nat
    BY <1>3, EndIs DEF ZgramEnd, EndOf, IndexOK
  <2>2. SubscribeRequest(start) \in Requests
    BY <2>1 DEF SubscribeRequest, Requests
  <2> QED BY <1>1, <2>2 DEF PageInit
<1>7. appetite \in [Sides -> Nat \union {Undefined}]
  <2>1. InitialQuerySize \in Nat /\ InitialQuerySize \div 2 \in Nat
    BY PageAssumption
  <2>2. CASE start = End
    BY <1>1, <2>1, <2>2 DEF PageInit, Sides
  <2>3. CASE start # End
    BY <1>1, <2>1, <2>3 DEF PageInit
  <2> QED BY <2>2, <2>3
<1>8. PagingTypeOK
  <2>1. SubscriptionTypeOK
    BY <1>2, <1>3, <1>4, <1>5 DEF SubscriptionTypeOK
  <2>2. requests \in Seq(Requests) /\ responses \in Seq(Responses) /\ zgrams \in Seq(Nat)
    BY <1>2, <1>6
  <2> QED BY <1>5, <1>6, <1>7, <2>1, <2>2 DEF PagingTypeOK
<1>9. RequestsOK
  BY <1>2, <1>5, <1>6 DEF RequestsOK, SubscribeRequest
<1>10. Answers = {} /\ AnswersOK /\ NothingBefore
  BY <1>2, <1>6 DEF Answers, AnswersIn, OneAnswer, AnswersOK, NothingBefore
<1>11. Together /\ WithinDisplayed /\ AllThereIs
  <2>1. Coming("front") = <<>> /\ Coming("back") = <<>>
    BY <1>10, ComingIs, NoneComing DEF Answers
  <2>2. Range(<<>>) = {}
    BY DEF Range
  <2>3. displayed["front"] = 0 /\ displayed["back"] = 0
    BY <1>2, SideNames
  <2>4. \A z \in index: z.id \in Nat
    BY <1>3 DEF StoredZgrams
  <2>5. Together
    BY <1>6, <2>1, <2>2 DEF Together, InOrder, AllBefore, Sorted
  <2>6. OnThePage = {}
    BY <1>6, <2>1, <2>2 DEF OnThePage
  <2> QED BY <2>3, <2>4, <2>5, <2>6 DEF WithinDisplayed, AllThereIs
<1>12. SidesOK /\ Informed
  BY <1>2 DEF SidesOK, Informed, Undisturbed
<1> QED BY <1>8, <1>9, <1>10, <1>11, <1>12 DEF PagingInvariant

LEMMA NextInvariant == PagingInvariant /\ [Next]_vars => PagingInvariant'
<1> SUFFICES ASSUME PagingInvariant, [Next]_vars PROVE PagingInvariant'
  OBVIOUS
<1>1. CASE Post
  BY <1>1, PostStep DEF Post
<1>2. CASE Reset
  <2>1. PICK oldest \in 0..MaxZgrams: ResetIndex(oldest) /\ UNCHANGED pageVars
    BY <1>2 DEF Reset
  <2>2. oldest \in Nat
    BY SubscriptionAssumption
  <2> QED BY <2>1, <2>2, ResetStep
<1>3. CASE Server
  BY <1>3, SubscribeStep, RefusalStep, GetMoreStep DEF Server, ServeRequest
<1>4. CASE Browser
  BY <1>4, VisitEstimatesStep, VisitAckMoreZgramsStep, VisitGeneralErrorStep DEF Browser, VisitResponse
<1>5. CASE User
  BY <1>5, ClickStep DEF User
<1>6. CASE UNCHANGED vars
  <2>1. /\ requests' = requests /\ responses' = responses /\ zgrams' = zgrams /\ appetite' = appetite
        /\ estimate' = estimate /\ outstanding' = outstanding
        /\ index' = index /\ subscribed' = subscribed /\ displayed' = displayed /\ status' = status
        /\ lastEstimates' = lastEstimates /\ resets' = resets /\ failures' = failures /\ purged' = purged
    BY <1>6 DEF vars, subscriptionVars, pageVars
  <2>2. /\ PagingTypeOK' = PagingTypeOK /\ RequestsOK' = RequestsOK /\ AnswersOK' = AnswersOK
        /\ NothingBefore' = NothingBefore /\ SidesOK' = SidesOK
    BY <2>1 DEF PagingTypeOK, SubscriptionTypeOK, RequestsOK, ZgramEnd, AnswersOK, Answers, NothingBefore,
                SidesOK
  <2>3. OnThePage' = OnThePage /\ Together' = Together
    BY <2>1 DEF OnThePage, Together, Coming
  <2>4. WithinDisplayed' = WithinDisplayed /\ AllThereIs' = AllThereIs
    BY <2>1, <2>3 DEF WithinDisplayed, AllThereIs
  <2>5. Informed' = Informed
    BY <2>1 DEF Informed, Undisturbed, LastTrue, NoneEmpty, LastTold, PromisesKept, Kept, Answers, AskedIsThere
  <2> QED BY <2>2, <2>3, <2>4, <2>5 DEF PagingInvariant
<1> QED BY <1>1, <1>2, <1>3, <1>4, <1>5, <1>6 DEF Next

LEMMA ComingType ==
    ASSUME PagingTypeOK, AnswersOK, NEW side \in Sides
    PROVE  Coming(side) \in Seq(Nat)
<1>1. responses \in Seq(Responses) /\ OneAnswer(responses) /\ Coming(side) = ComingIn(responses, side)
  BY ComingIs DEF PagingTypeOK, AnswersOK
<1>2. CASE AnswersIn(responses) = {}
  <2>1. Coming(side) = <<>>
    BY <1>1, <1>2, NoneComing
  <2> QED BY <2>1
<1>3. ASSUME NEW i \in AnswersIn(responses) PROVE Coming(side) \in Seq(Nat)
  <2>1. Coming(side) = IF side = responses[i].side THEN responses[i].zgrams ELSE <<>>
    BY <1>1, OneComing
  <2>2. i \in 1..Len(responses) /\ responses[i].type = "AckMoreZgrams"
    BY <1>1, LenProperties DEF AnswersIn
  <2>3. responses[i] \in Responses
    BY <1>1, <2>2, ElementOfSeq
  <2>4. responses[i].zgrams \in Seq(Nat)
    BY <2>2, <2>3, ResponseFields
  <2> QED BY <2>1, <2>4
<1> QED BY <1>2, <1>3

LEMMA InvariantShowsOrder == PagingInvariant => ShownInOrder
<1> SUFFICES ASSUME PagingInvariant PROVE ShownInOrder
  OBVIOUS
<1> DEFINE front == Coming("front")
           back == Coming("back")
           before == Reverse(front)
<1>1. front \in Seq(Nat) /\ back \in Seq(Nat) /\ zgrams \in Seq(Nat)
  BY ComingType, SideNames DEF PagingInvariant, PagingTypeOK
<1>2. InOrder(front, zgrams, back)
  BY DEF PagingInvariant, Together
<1>3. before \in Seq(Nat) /\ Range(before) = Range(front) /\ Sorted("back", before)
  BY <1>1, <1>2, Reversed DEF InOrder
<1>4. \A s, t: AllBefore(s, t) <=> \A x \in Range(s), y \in Range(t): Nearer("back", x, y)
  BY DEF AllBefore, Nearer
<1>5. "back" \in Sides /\ (before \o zgrams) \o back = before \o zgrams \o back
  BY SideNames
<1> HIDE DEF front, back, before
<1>6. before \o zgrams \in Seq(Nat) /\ Sorted("back", before \o zgrams)
  <2>1. Sorted("back", zgrams) /\ AllBefore(front, zgrams)
    BY <1>2 DEF InOrder
  <2>2. \A x \in Range(before), y \in Range(zgrams): Nearer("back", x, y)
    BY <1>3, <1>4, <2>1
  <2>3. Sorted("back", before \o zgrams)
    BY <1>1, <1>3, <1>5, <2>1, <2>2, SortedParts
  <2> QED BY <1>1, <1>3, <2>3, ConcatProperties
<1>7. Range(before \o zgrams) = Range(before) \union Range(zgrams)
  BY <1>1, <1>3, RangeConcatenation
<1>8. before \o zgrams \o back \in Seq(Nat) /\ Sorted("back", before \o zgrams \o back)
  <2> DEFINE first == before \o zgrams
  <2>1. \A x \in Range(first), y \in Range(back): Nearer("back", x, y)
    BY <1>2, <1>3, <1>4, <1>7 DEF InOrder
  <2>2. Sorted("back", back) /\ first \in Seq(Nat) /\ Sorted("back", first)
    BY <1>2, <1>6 DEF InOrder
  <2>3. first \o back = before \o zgrams \o back
    BY <1>5
  <2> HIDE DEF first
  <2>4. Sorted("back", first \o back) /\ first \o back \in Seq(Nat)
    BY <1>1, <1>5, <2>1, <2>2, SortedParts, ConcatProperties
  <2> QED BY <2>3, <2>4
<1> DEFINE run == before \o zgrams \o back
<1>9. run \in Seq(Nat) /\ Sorted("back", run)
  BY <1>8
<1>10. ShownInOrder <=> \A i \in 1..Len(run) - 1: run[i] < run[i + 1]
  BY DEF ShownInOrder, before, front, back
<1> HIDE DEF run
<1>11. ASSUME NEW i \in 1..Len(run) - 1 PROVE run[i] < run[i + 1]
  <2>1. Len(run) \in Nat /\ DOMAIN run = 1..Len(run)
    BY <1>9, LenProperties
  <2>2. i \in DOMAIN run /\ i + 1 \in DOMAIN run /\ i < i + 1
    BY <2>1
  <2>3. Nearer("back", run[i], run[i + 1])
    BY <1>9, <2>2 DEF Sorted
  <2> QED BY <2>3 DEF Nearer
<1> QED BY <1>10, <1>11

LEMMA InvariantMissesNothing == PagingInvariant => NothingMissing
<1> SUFFICES ASSUME PagingInvariant, failures = 0,
                    NEW z \in index, z.matches, displayed["front"] <= z.id, z.id < displayed["back"]
             PROVE  \E side \in Sides: Contains(zgrams \o Coming(side), z.id)
  BY DEF NothingMissing
<1>1. z.id \in OnThePage
  BY DEF PagingInvariant, AllThereIs
<1>2. PICK side \in Sides: z.id \in Range(zgrams) \union Range(Coming(side))
  BY <1>1, SideNames DEF OnThePage
<1> DEFINE coming == Coming(side)
<1>3. zgrams \in Seq(Nat) /\ coming \in Seq(Nat)
  BY ComingType DEF PagingInvariant, PagingTypeOK
<1>4. z.id \in Range(zgrams) \union Range(coming)
  BY <1>2
<1> HIDE DEF coming
<1>5. z.id \in Range(zgrams \o coming)
  BY <1>3, <1>4, RangeConcatenation
<1>6. Contains(zgrams \o coming, z.id)
  BY <1>5 DEF Contains, Range
<1> QED BY <1>6 DEF coming

LEMMA InvariantInforms == PagingInvariant => EstimatesAreTrue
<1> SUFFICES ASSUME PagingInvariant, subscribed, responses = <<>>, ~purged, failures = 0,
                    NEW side \in Sides
             PROVE  LET beyond == Cardinality(IdsBeyond(index, side, displayed[side]))
                    IN IF estimate[side].exact THEN estimate[side].count = beyond
                                               ELSE beyond >= QueryMargin
  BY DEF EstimatesAreTrue
<1> DEFINE beyond == Cardinality(IdsBeyond(index, side, displayed[side]))
<1>1. estimate[side] = [count |-> IF beyond < QueryMargin THEN beyond ELSE QueryMargin,
                        exact |-> beyond < QueryMargin]
  BY DEF PagingInvariant, Informed, Undisturbed, LastTrue, LastTold, TrueEstimate
<1>2. beyond \in Nat /\ QueryMargin \in Nat
  <2>1. IsFiniteSet(IdsBeyond(index, side, displayed[side]))
    BY Facts, BeyondType DEF PagingInvariant
  <2> QED BY <2>1, FS_CardinalityType, SubscriptionAssumption
<1> HIDE DEF beyond
<1>3. ASSUME beyond < QueryMargin PROVE estimate[side].exact /\ estimate[side].count = beyond
  <2>1. (beyond < QueryMargin) = TRUE
    BY <1>3
  <2>2. estimate[side] = [count |-> beyond, exact |-> TRUE]
    BY <1>1, <2>1, Zenon
  <2> QED BY <2>2
<1>4. ASSUME ~(beyond < QueryMargin) PROVE ~estimate[side].exact /\ beyond >= QueryMargin
  <2>1. (beyond < QueryMargin) = FALSE
    BY <1>4
  <2>2. estimate[side] = [count |-> QueryMargin, exact |-> FALSE]
    BY <1>1, <2>1, Zenon
  <2>3. beyond >= QueryMargin
    BY <1>2, <1>4
  <2>4. ~estimate[side].exact
    BY <2>2
  <2> QED BY <2>3, <2>4
<1>5. IF estimate[side].exact THEN estimate[side].count = beyond ELSE beyond >= QueryMargin
  BY <1>3, <1>4, Zenon
<1> QED BY <1>5 DEF beyond

LEMMA Invariant == Spec => []PagingInvariant
BY InitInvariant, NextInvariant, PTL DEF Spec

\* What the page shows, with what is on its way to it, is in order and never
\* twice: visitAckMoreZgrams only prepends and appends, whatever is posted,
\* reindexed or not found meanwhile.
THEOREM ShownAlwaysInOrder == Spec => []ShownInOrder
BY Invariant, InvariantShowsOrder, PTL

\* As long as no look-up has failed, no zgram that the query finds is missing
\* between the two ends of what the backend takes to be displayed.
THEOREM NothingGoesMissing == Spec => []NothingMissing
BY Invariant, InvariantMissesNothing, PTL

\* A page that has heard everything sent knows how much there is beyond what it
\* shows, as long as no look-up has failed and no reindexing dropped zgrams.
THEOREM EstimatesStayTrue == Spec => []EstimatesAreTrue
BY Invariant, InvariantInforms, PTL

=============================================================================
