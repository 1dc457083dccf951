---------------------------- MODULE ContentsProofs ----------------------------
(***************************************************************************)
(* Theorems about IndexContents, for every set of drafts and offers, every *)
(* number of shards and every capacity of the cache: what the cache holds  *)
(* is what the logs hold, and every zgram of the logs is found where it is *)
(* written, because every index, built, read back or added to, lists the   *)
(* zgrams of its part of the logs at their places.                         *)
(***************************************************************************)
EXTENDS IndexContents, FiniteSetTheorems, SequenceTheorems, WellFoundedInduction, TLAPS

-------------------------------------------------------------------------------
(* Numbers and orders                                                          *)

LEMMA SmallestElement ==
    ASSUME NEW T \in SUBSET Nat, T # {}
    PROVE  \E x \in T : \A y \in T : x <= y
<1>1. \A x, y \in Nat : <<y, x>> \in OpToRel(<, Nat) => y < x
  BY Zenon DEF OpToRel
<1>2. \A x, y \in Nat : y < x => <<y, x>> \in OpToRel(<, Nat)
  BY Zenon DEF OpToRel
<1>3. PICK R : IsWellFoundedOn(R, Nat) /\ \A x, y \in Nat : <<y, x>> \in R <=> y < x
  BY NatLessThanWellFounded, <1>1, <1>2, Zenon
<1>4. PICK x \in T : \A y \in T : <<y, x>> \notin R
  BY <1>3, WFMin
<1>5. ASSUME NEW y \in T PROVE x <= y
  <2>1. x \in Nat /\ y \in Nat
    OBVIOUS
  <2>2. ~(y < x)
    BY <1>3, <1>4, <2>1, Zenon
  <2> QED BY <2>1, <2>2
<1> QED BY <1>5

LEMMA GreatestElement ==
    ASSUME NEW T \in SUBSET Nat, T # {}, NEW n \in Nat, \A x \in T : x <= n
    PROVE  \E x \in T : \A y \in T : y <= x
<1> DEFINE S == {m \in Nat : \E x \in T : m + x = n}
<1>1. ASSUME NEW x \in T PROVE \E m \in S : m + x = n
  <2>1. x \in Nat /\ x <= n
    OBVIOUS
  <2>2. n - x \in Nat /\ (n - x) + x = n
    BY <2>1
  <2> QED BY <2>2
<1>2. PICK least \in S : \A y \in S : least <= y
  <2>1. S \in SUBSET Nat /\ S # {}
    BY <1>1
  <2> HIDE DEF S
  <2> QED BY <2>1, SmallestElement
<1>3. PICK x \in T : least + x = n
  OBVIOUS
<1>4. ASSUME NEW y \in T PROVE y <= x
  <2>1. PICK m \in S : m + y = n
    BY <1>1
  <2>2. least <= m /\ m \in Nat /\ least \in Nat /\ x \in Nat /\ y \in Nat
    BY <1>2
  <2> QED BY <1>3, <2>1, <2>2
<1> QED BY <1>4

\* The elements of S before x.
Under(S, R, x) == {y \in S : <<y, x>> \in R}

\* R is a strict total order of S.
Orders(R, S) ==
  /\ \A x \in S : <<x, x>> \notin R
  /\ \A x, y, z \in S : <<x, y>> \in R /\ <<y, z>> \in R => <<x, z>> \in R
  /\ \A x, y \in S : x # y => <<x, y>> \in R \/ <<y, x>> \in R

\* Every place in the order is one element's.
Ranks(S, R) ==
  /\ Cardinality(S) \in Nat
  /\ \A x \in S : Cardinality(Under(S, R, x)) \in 0..(Cardinality(S) - 1)
  /\ \A x, y \in S : <<x, y>> \in R => Cardinality(Under(S, R, x)) < Cardinality(Under(S, R, y))
  /\ \A x, y \in S : Cardinality(Under(S, R, x)) = Cardinality(Under(S, R, y)) => x = y
  /\ \A k \in 0..(Cardinality(S) - 1) : \E x \in S : Cardinality(Under(S, R, x)) = k

LEMMA RanksAreUnique ==
    ASSUME NEW S, IsFiniteSet(S), NEW R, Orders(R, S)
    PROVE  Ranks(S, R)
<1> DEFINE n == Cardinality(S)
           rank == [x \in S |-> Cardinality(Under(S, R, x))]
<1>1. n \in Nat
  BY FS_CardinalityType
<1>2. \A x \in S : IsFiniteSet(Under(S, R, x)) /\ Cardinality(Under(S, R, x)) \in Nat
  BY FS_Subset, FS_CardinalityType DEF Under
<1>3. ASSUME NEW x \in S, NEW y \in S, <<x, y>> \in R
      PROVE  Cardinality(Under(S, R, x)) < Cardinality(Under(S, R, y))
  <2>1. Under(S, R, x) \subseteq Under(S, R, y)
    BY <1>3 DEF Under, Orders
  <2>2. x \in Under(S, R, y) /\ x \notin Under(S, R, x)
    BY <1>3 DEF Under, Orders
  <2>3. Cardinality(Under(S, R, x)) <= Cardinality(Under(S, R, y))
    BY <2>1, <1>2, FS_Subset
  <2>4. Cardinality(Under(S, R, x)) # Cardinality(Under(S, R, y))
    BY <2>1, <2>2, <1>2, FS_Subset
  <2> QED BY <2>3, <2>4, <1>2
<1>4. ASSUME NEW x \in S PROVE Cardinality(Under(S, R, x)) \in 0..(n - 1)
  <2>1. Under(S, R, x) \subseteq S /\ x \notin Under(S, R, x)
    BY DEF Under, Orders
  <2>2. Cardinality(Under(S, R, x)) <= n /\ Cardinality(Under(S, R, x)) # n
    BY <2>1, FS_Subset
  <2> QED BY <2>2, <1>1, <1>2
<1>5. ASSUME NEW x \in S, NEW y \in S, Cardinality(Under(S, R, x)) = Cardinality(Under(S, R, y))
      PROVE  x = y
  <2>1. <<x, y>> \notin R /\ <<y, x>> \notin R
    BY <1>2, <1>3, <1>5
  <2> QED BY <2>1 DEF Orders
<1>6. rank \in Injection(S, 0..(n - 1))
  <2>1. rank \in [S -> 0..(n - 1)]
    BY <1>4
  <2>2. \A x, y \in S : rank[x] = rank[y] => x = y
    BY <1>5
  <2> HIDE DEF rank
  <2> QED BY <2>1, <2>2 DEF Injection, IsInjective
<1>7. IsFiniteSet(0..(n - 1)) /\ Cardinality(0..(n - 1)) = n
  BY <1>1, FS_Interval
<1>8. rank \in Surjection(S, 0..(n - 1))
  BY <1>6, <1>7, FS_Injection
<1>9. \A k \in 0..(n - 1) : \E x \in S : Cardinality(Under(S, R, x)) = k
  <2>1. \A k \in 0..(n - 1) : \E x \in S : rank[x] = k
    <3> HIDE DEF rank
    <3> QED BY <1>8 DEF Surjection
  <2> QED BY <2>1
<1> QED BY <1>1, <1>3, <1>4, <1>5, <1>9 DEF Ranks

\* How many elements of a set of numbers are less than one.
Below(S, x) == Cardinality({y \in S : y < x})

\* The sequence of a set in order.
LEMMA AscendingLists ==
    ASSUME NEW S \in SUBSET Int, IsFiniteSet(S)
    PROVE  /\ Cardinality(S) \in Nat
           /\ Ascending(S) \in [1..Cardinality(S) -> S]
           /\ Len(Ascending(S)) = Cardinality(S)
           /\ \A x \in S : Below(S, x) \in 0..(Cardinality(S) - 1) /\ Ascending(S)[Below(S, x) + 1] = x
           /\ \A i \in 1..Cardinality(S) : Below(S, Ascending(S)[i]) = i - 1
           /\ \A i, j \in 1..Cardinality(S) : i < j => Ascending(S)[i] < Ascending(S)[j]
<1> DEFINE R == {p \in S \X S : p[1] < p[2]}
           n == Cardinality(S)
           at == [i \in 1..n |-> CHOOSE x \in S : Below(S, x) = i - 1]
<1>1. Orders(R, S)
  BY DEF Orders
<1>2. \A x \in S : Cardinality(Under(S, R, x)) = Below(S, x)
  <2> SUFFICES ASSUME NEW x \in S PROVE Cardinality(Under(S, R, x)) = Below(S, x)
    OBVIOUS
  <2>1. Under(S, R, x) = {y \in S : y < x}
    BY DEF Under
  <2> QED BY <2>1 DEF Below
<1>3. \A x, y \in S : <<x, y>> \in R <=> x < y
  OBVIOUS
<1> HIDE DEF R
<1>4. /\ n \in Nat
      /\ \A x \in S : Below(S, x) \in 0..(n - 1)
      /\ \A x, y \in S : x < y => Below(S, x) < Below(S, y)
      /\ \A x, y \in S : Below(S, x) = Below(S, y) => x = y
      /\ \A k \in 0..(n - 1) : \E x \in S : Below(S, x) = k
  <2>1. /\ n \in Nat
        /\ \A x \in S : Cardinality(Under(S, R, x)) \in 0..(n - 1)
        /\ \A x, y \in S : <<x, y>> \in R => Cardinality(Under(S, R, x)) < Cardinality(Under(S, R, y))
        /\ \A x, y \in S : Cardinality(Under(S, R, x)) = Cardinality(Under(S, R, y)) => x = y
        /\ \A k \in 0..(n - 1) : \E x \in S : Cardinality(Under(S, R, x)) = k
    <3>1. Ranks(S, R)
      BY <1>1, RanksAreUnique
    <3> QED BY <3>1, Zenon DEF Ranks
  <2> HIDE DEF n
  <2>2. \A x \in S : Below(S, x) \in 0..(n - 1)
    BY <2>1, <1>2
  <2>3. \A x, y \in S : x < y => Below(S, x) < Below(S, y)
    <3> SUFFICES ASSUME NEW x \in S, NEW y \in S, x < y PROVE Below(S, x) < Below(S, y)
      OBVIOUS
    <3>1. <<x, y>> \in R
      BY <1>3
    <3> QED BY <3>1, <2>1, <1>2
  <2>4. \A x, y \in S : Below(S, x) = Below(S, y) => x = y
    BY <2>1, <1>2
  <2>5. \A k \in 0..(n - 1) : \E x \in S : Below(S, x) = k
    BY <2>1, <1>2
  <2> QED BY <2>1, <2>2, <2>3, <2>4, <2>5
<1>5. \A i \in 1..n : at[i] \in S /\ Below(S, at[i]) = i - 1
  <2> SUFFICES ASSUME NEW i \in 1..n PROVE at[i] \in S /\ Below(S, at[i]) = i - 1
    OBVIOUS
  <2>1. i - 1 \in 0..(n - 1)
    BY <1>4
  <2>2. \E x \in S : Below(S, x) = i - 1
    BY <2>1, <1>4
  <2>3. at[i] = CHOOSE x \in S : Below(S, x) = i - 1
    OBVIOUS
  <2> QED BY <2>2, <2>3
<1>6. at \in [1..n -> S]
  <2>1. DOMAIN at = 1..n
    OBVIOUS
  <2>2. at = [i \in DOMAIN at |-> at[i]]
    OBVIOUS
  <2> HIDE DEF at
  <2> QED BY <2>1, <2>2, <1>5
<1>7. Ascending(S) = SubSeq(at, 1, Len(at))
  BY DEF Ascending, Evaluated, Below
<1> HIDE DEF at
<1>8. at \in Seq(S) /\ Len(at) = n
  BY <1>4, <1>6
<1>9. Ascending(S) = at
  BY <1>7, <1>8, SubSeqFull
<1>10. \A i, j \in 1..n : i < j => at[i] < at[j]
  <2> SUFFICES ASSUME NEW i \in 1..n, NEW j \in 1..n, i < j, ~(at[i] < at[j]) PROVE FALSE
    OBVIOUS
  <2>1. at[i] \in Int /\ at[j] \in Int /\ at[i] \in S /\ at[j] \in S
    BY <1>5
  <2>2. at[j] < at[i] \/ at[j] = at[i]
    BY <2>1
  <2>3. Below(S, at[i]) = i - 1 /\ Below(S, at[j]) = j - 1
    BY <1>5
  <2>4. Below(S, at[j]) <= Below(S, at[i])
    BY <2>1, <2>2, <2>3, <1>4
  <2> QED BY <2>3, <2>4
<1>11. ASSUME NEW x \in S PROVE at[Below(S, x) + 1] = x
  <2>1. PICK k \in 0..(n - 1) : k = Below(S, x)
    BY <1>4
  <2>2. k + 1 \in 1..n /\ (k + 1) - 1 = k
    BY <1>4
  <2>3. Below(S, at[k + 1]) = k /\ at[k + 1] \in S
    BY <2>2, <1>5
  <2> QED BY <2>1, <2>3, <1>4
<1> QED BY <1>4, <1>5, <1>6, <1>8, <1>9, <1>10, <1>11

\* out is the rows at the places of keep.
Picks(out, rows, keep) ==
  /\ \A i \in keep : Below(keep, i) + 1 \in DOMAIN out /\ out[Below(keep, i) + 1] = rows[i]
  /\ \A n \in DOMAIN out : \E i \in keep : Below(keep, i) = n - 1 /\ out[n] = rows[i]
  /\ \A i, j \in keep : i < j => Below(keep, i) < Below(keep, j)

LEMMA RowsAtPicks ==
    ASSUME NEW X, NEW rows \in Seq(X), NEW keep \in SUBSET DOMAIN rows
    PROVE  /\ RowsAt(rows, keep) \in Seq(X)
           /\ Len(RowsAt(rows, keep)) = Cardinality(keep)
           /\ Picks(RowsAt(rows, keep), rows, keep)
<1>1. keep \in SUBSET Int /\ IsFiniteSet(keep) /\ keep \in SUBSET (1..Len(rows))
  <2>1. DOMAIN rows = 1..Len(rows) /\ Len(rows) \in Nat
    OBVIOUS
  <2>2. IsFiniteSet(1..Len(rows))
    BY <2>1, FS_Interval
  <2> QED BY <2>1, <2>2, FS_Subset
<1> DEFINE n == Cardinality(keep)
           at == Ascending(keep)
           out == [k \in 1..n |-> rows[at[k]]]
<1>2. /\ n \in Nat
      /\ at \in [1..n -> keep]
      /\ \A i \in keep : Below(keep, i) \in 0..(n - 1) /\ at[Below(keep, i) + 1] = i
      /\ \A k \in 1..n : Below(keep, at[k]) = k - 1
      /\ \A k, m \in 1..n : k < m => at[k] < at[m]
  BY <1>1, AscendingLists
<1>3. RowsAt(rows, keep) = SubSeq(out, 1, Len(out))
  BY DEF RowsAt, Evaluated
<1> HIDE DEF n, at
<1>4. out \in [1..n -> X]
  BY <1>1, <1>2
<1>5. out \in Seq(X) /\ Len(out) = n
  BY <1>2, <1>4
<1>6. \A k \in 1..n : out[k] = rows[at[k]]
  OBVIOUS
<1>7. DOMAIN out = 1..n
  OBVIOUS
<1> HIDE DEF out
<1>8. RowsAt(rows, keep) = out
  BY <1>3, <1>5, SubSeqFull
<1>9. ASSUME NEW i \in keep PROVE Below(keep, i) + 1 \in 1..n /\ out[Below(keep, i) + 1] = rows[i]
  <2>1. Below(keep, i) + 1 \in 1..n
    BY <1>2
  <2> QED BY <2>1, <1>2, <1>6
<1>10. \A k \in 1..n : at[k] \in keep /\ Below(keep, at[k]) = k - 1 /\ out[k] = rows[at[k]]
  BY <1>2, <1>6
<1>11. ASSUME NEW i \in keep, NEW j \in keep, i < j PROVE Below(keep, i) < Below(keep, j)
  <2>1. i \in Int /\ j \in Int
    BY <1>1
  <2> DEFINE k == Below(keep, i) + 1
             m == Below(keep, j) + 1
  <2>2. k \in 1..n /\ m \in 1..n /\ at[k] = i /\ at[m] = j
    BY <1>2
  <2> HIDE DEF k, m
  <2>3. k < m
    <3> SUFFICES ASSUME ~(k < m) PROVE FALSE
      OBVIOUS
    <3>1. m < k \/ m = k
      BY <2>2
    <3>2. at[m] < at[k] \/ at[m] = at[k]
      BY <3>1, <2>2, <1>2
    <3> QED BY <3>2, <2>1, <2>2, <1>11
  <2>4. Below(keep, i) \in Nat /\ Below(keep, j) \in Nat
    BY <1>2
  <2> QED BY <2>3, <2>4 DEF k, m
<1>12. Picks(out, rows, keep)
  BY <1>7, <1>9, <1>10, <1>11 DEF Picks
<1> QED BY <1>5, <1>8, <1>12 DEF n

\* The members of a sequence.
Members(s) == {s[i] : i \in DOMAIN s}

LEMMA RowsAtMembers ==
    ASSUME NEW X, NEW rows \in Seq(X), NEW keep \in SUBSET DOMAIN rows
    PROVE  /\ RowsAt(rows, keep) \in Seq(X)
           /\ Members(RowsAt(rows, keep)) = {rows[i] : i \in keep}
<1>1. Picks(RowsAt(rows, keep), rows, keep)
  BY RowsAtPicks
<1> QED BY <1>1, RowsAtPicks DEF Picks, Members

-------------------------------------------------------------------------------
(* Sequences                                                                   *)

\* The concatenation of the first sequences, from that of the ones before.
FlatStep(seqs, flat, i) == IF i = 1 THEN seqs[i] ELSE flat[i - 1] \o seqs[i]

LEMMA FlattenSolves ==
    ASSUME NEW X, NEW seqs \in Seq(Seq(X)), seqs # <<>>
    PROVE  \E flat : /\ \A i \in 1..Len(seqs) : flat[i] = FlatStep(seqs, flat, i)
                     /\ FlattenSeq(seqs) = flat[Len(seqs)]
<1> DEFINE D == 1..Len(seqs)
           T == {n \in D : \E f : \A i \in 1..n : f[i] = FlatStep(seqs, f, i)}
<1>1. Len(seqs) \in Nat /\ Len(seqs) # 0 /\ 1 \in D
  OBVIOUS
<1>2. 1 \in T
  <2> DEFINE f == [i \in D |-> seqs[1]]
  <2>1. \A i \in 1..1 : f[i] = FlatStep(seqs, f, i)
    BY <1>1 DEF FlatStep
  <2> HIDE DEF f
  <2> QED BY <1>1, <2>1
<1>3. PICK n \in T : \A m \in T : m <= n
  <2>1. T \subseteq D
    OBVIOUS
  <2> HIDE DEF T
  <2>2. T \in SUBSET Nat /\ T # {} /\ \A m \in T : m <= Len(seqs)
    BY <1>1, <1>2, <2>1
  <2> QED BY <2>2, <1>1, GreatestElement
<1>4. PICK f : \A i \in 1..n : f[i] = FlatStep(seqs, f, i)
  OBVIOUS
<1>5. n = Len(seqs)
  <2> SUFFICES ASSUME n # Len(seqs) PROVE FALSE
    OBVIOUS
  <2>1. n + 1 \in D /\ n \in D /\ n \in Nat
    BY <1>1
  <2> DEFINE g == [i \in D |-> IF i = n + 1 THEN FlatStep(seqs, f, n + 1) ELSE f[i]]
  <2>2. \A i \in 1..n : g[i] = f[i]
    BY <2>1
  <2>3. g[n + 1] = FlatStep(seqs, f, n + 1)
    BY <2>1
  <2> HIDE DEF g
  <2>4. ASSUME NEW i \in 1..(n + 1) PROVE g[i] = FlatStep(seqs, g, i)
    <3>1. FlatStep(seqs, g, i) = FlatStep(seqs, f, i)
      <4>1. i # 1 => i - 1 \in 1..n
        BY <2>1
      <4> QED BY <4>1, <2>2 DEF FlatStep
    <3>2. i = n + 1 \/ i \in 1..n
      BY <2>1
    <3> QED BY <3>1, <3>2, <2>2, <2>3, <1>4
  <2>5. n + 1 \in T
    BY <2>1, <2>4
  <2> HIDE DEF T
  <2>6. n + 1 <= n
    BY <2>5, <1>3
  <2> QED BY <2>6, <2>1
<1>6. \E g : g = [i \in D |-> FlatStep(seqs, g, i)]
  <2> DEFINE g == [i \in D |-> f[i]]
  <2>1. \A i \in D : g[i] = f[i]
    OBVIOUS
  <2>2. ASSUME NEW i \in D PROVE FlatStep(seqs, g, i) = f[i]
    <3>1. i # 1 => i - 1 \in D
      BY <1>1
    <3> HIDE DEF g
    <3> QED BY <3>1, <2>1, <1>4, <1>5 DEF FlatStep
  <2>3. g = [i \in D |-> FlatStep(seqs, g, i)]
    BY <2>2
  <2> HIDE DEF g
  <2> QED BY <2>3
<1> DEFINE flat == CHOOSE g : g = [i \in D |-> FlatStep(seqs, g, i)]
<1>7. flat = [i \in D |-> FlatStep(seqs, flat, i)]
  BY <1>6, Zenon
<1>8. FlattenSeq(seqs) = flat[Len(seqs)]
  BY <1>1 DEF FlattenSeq, FlatStep
<1> HIDE DEF flat
<1> QED BY <1>7, <1>8

LEMMA FlattenMembers ==
    ASSUME NEW X, NEW seqs \in Seq(Seq(X))
    PROVE  /\ FlattenSeq(seqs) \in Seq(X)
           /\ \A x : x \in Members(FlattenSeq(seqs)) <=> \E i \in DOMAIN seqs : x \in Members(seqs[i])
<1>1. CASE seqs = <<>>
  <2>1. FlattenSeq(seqs) = <<>>
    BY <1>1 DEF FlattenSeq
  <2>2. DOMAIN seqs = {} /\ DOMAIN FlattenSeq(seqs) = {}
    BY <1>1, <2>1
  <2> QED BY <2>1, <2>2 DEF Members
<1>2. CASE seqs # <<>>
  <2>1. PICK flat : /\ \A i \in 1..Len(seqs) : flat[i] = FlatStep(seqs, flat, i)
                    /\ FlattenSeq(seqs) = flat[Len(seqs)]
    BY <1>2, FlattenSolves
  <2>2. Len(seqs) \in Nat /\ Len(seqs) # 0 /\ DOMAIN seqs = 1..Len(seqs)
    BY <1>2
  <2>3. \A s, t \in Seq(X) : /\ s \o t \in Seq(X)
                             /\ Members(s \o t) = Members(s) \cup Members(t)
    <3> SUFFICES ASSUME NEW s \in Seq(X), NEW t \in Seq(X)
                 PROVE  s \o t \in Seq(X) /\ Members(s \o t) = Members(s) \cup Members(t)
      OBVIOUS
    <3>1. /\ s \o t \in Seq(X) /\ Len(s \o t) = Len(s) + Len(t)
          /\ \A i \in 1..(Len(s) + Len(t)) : (s \o t)[i] = IF i <= Len(s) THEN s[i] ELSE t[i - Len(s)]
      BY ConcatProperties
    <3>2. Len(s) \in Nat /\ Len(t) \in Nat /\ DOMAIN s = 1..Len(s) /\ DOMAIN t = 1..Len(t)
          /\ DOMAIN (s \o t) = 1..(Len(s) + Len(t))
      BY <3>1, LenProperties
    <3> DEFINE both == s \o t
    <3> HIDE DEF both
    <3>3. \A i \in DOMAIN s : i \in DOMAIN both /\ both[i] = s[i]
      BY <3>1, <3>2 DEF both
    <3>4. ASSUME NEW i \in DOMAIN t PROVE Len(s) + i \in DOMAIN both /\ both[Len(s) + i] = t[i]
      BY <3>1, <3>2 DEF both
    <3>5. ASSUME NEW i \in DOMAIN both
          PROVE  (i \in DOMAIN s /\ both[i] = s[i]) \/ (i - Len(s) \in DOMAIN t /\ both[i] = t[i - Len(s)])
      BY <3>1, <3>2 DEF both
    <3>6. Members(both) = Members(s) \cup Members(t)
      BY <3>3, <3>4, <3>5 DEF Members
    <3> QED BY <3>1, <3>6 DEF both
  <2> DEFINE Good(n) == /\ flat[n] \in Seq(X)
                        /\ \A x : x \in Members(flat[n]) <=> \E i \in 1..n : x \in Members(seqs[i])
             Bad == {n \in 1..Len(seqs) : ~Good(n)}
  <2>4. Bad = {}
    <3> SUFFICES ASSUME Bad # {} PROVE FALSE
      OBVIOUS
    <3>1. PICK n \in Bad : \A m \in Bad : n <= m
      <4>1. Bad \in SUBSET Nat
        BY <2>2
      <4> HIDE DEF Bad
      <4> QED BY <4>1, SmallestElement
    <3>2. n \in 1..Len(seqs) /\ flat[n] = FlatStep(seqs, flat, n) /\ seqs[n] \in Seq(X) /\ ~Good(n)
      BY <2>1, <2>2
    <3>3. CASE n = 1
      <4>1. flat[n] = seqs[1]
        BY <3>2, <3>3 DEF FlatStep
      <4>2. 1..n = {1}
        BY <3>3
      <4>3. Good(n)
        BY <4>1, <4>2, <3>2, <3>3
      <4> QED BY <4>3, <3>2
    <3>4. CASE n # 1
      <4>1. n - 1 \in 1..Len(seqs) /\ ~(n <= n - 1)
        BY <3>2, <3>4, <2>2
      <4>2. Good(n - 1)
        BY <4>1, <3>1
      <4>3. flat[n] = flat[n - 1] \o seqs[n]
        BY <3>2, <3>4 DEF FlatStep
      <4>4. 1..n = (1..(n - 1)) \cup {n}
        BY <3>2, <2>2
      <4>5. Members(flat[n]) = Members(flat[n - 1]) \cup Members(seqs[n]) /\ flat[n] \in Seq(X)
        BY <4>2, <4>3, <2>3, <3>2
      <4>6. Good(n)
        BY <4>2, <4>4, <4>5
      <4> QED BY <4>6, <3>2
    <3> QED BY <3>3, <3>4
  <2>5. Good(Len(seqs))
    <3>1. Len(seqs) \in 1..Len(seqs)
      BY <2>2
    <3> HIDE DEF Good
    <3> QED BY <3>1, <2>4
  <2> QED BY <2>1, <2>2, <2>5
<1> QED BY <1>1, <1>2

-------------------------------------------------------------------------------
(* The log                                                                     *)

Files == [day : Nat, logged : BOOLEAN]
Locations == [day : Nat, logged : BOOLEAN, offset : Nat]
Records ==
  Offers \cup [tag : {"zgram"}, id : Nat, sender : {Poster}, signature : {Poster},
               instance : {d.instance : d \in Drafts}, body : {d.body : d \in Drafts}, logged : BOOLEAN]
LogEntry == [day : Nat, logged : BOOLEAN, rec : Records, location : Locations]

\* The places of the log that are in a file, and those of the zgrams.
FileAt(l, f) == {i \in DOMAIN l : l[i].day = f.day /\ l[i].logged = f.logged}
ZgramsAt(l) == {i \in DOMAIN l : l[i].rec.tag = "zgram"}
FileOf(e) == [day |-> e.day, logged |-> e.logged]
Placed(l, i) == [day |-> l[i].day, logged |-> l[i].logged, offset |-> Below(FileAt(l, l[i]), i)]

\* Every zgram knows its place, and identifiers ascend.
IsLog(l) ==
  /\ l \in Seq(LogEntry)
  /\ \A i \in ZgramsAt(l) : l[i].rec.id \in Nat /\ l[i].location = Placed(l, i)
  /\ \A i, j \in ZgramsAt(l) : i < j => l[i].rec.id < l[j].rec.id

LEMMA ElementsAscend ==
    ASSUME NEW n \in Nat, NEW s, \A i \in 1..n : s[i] \in Int /\ (i > 1 => s[i - 1] < s[i])
    PROVE  \A i, j \in 1..n : i < j => s[i] < s[j]
<1> SUFFICES ASSUME NEW i \in 1..n, NEW k \in 1..n, i < k, ~(s[i] < s[k]) PROVE FALSE
  OBVIOUS
<1> DEFINE Bad == {j \in 1..n : i < j /\ ~(s[i] < s[j])}
<1>1. PICK j \in Bad : \A m \in Bad : j <= m
  <2>1. Bad \in SUBSET Nat /\ Bad # {}
    OBVIOUS
  <2> HIDE DEF Bad
  <2> QED BY <2>1, SmallestElement
<1>2. j - 1 \in 1..n /\ j > 1 /\ ~(j <= j - 1)
  OBVIOUS
<1>3. s[j - 1] < s[j] /\ s[j - 1] \in Int /\ s[j] \in Int /\ s[i] \in Int
  BY <1>2
<1>4. i = j - 1 \/ s[i] < s[j - 1]
  BY <1>1, <1>2
<1> QED BY <1>3, <1>4

LEMMA FileTextHolds ==
    ASSUME NEW l \in Seq(LogEntry), NEW f
    PROVE  /\ FileText(l, f) \in Seq(LogEntry)
           /\ Picks(FileText(l, f), l, FileAt(l, f))
<1>1. FileAt(l, f) \in SUBSET DOMAIN l
  BY DEF FileAt
<1>2. FileText(l, f) = RowsAt(l, FileAt(l, f))
  BY DEF FileText, FileAt
<1> QED BY <1>1, <1>2, RowsAtPicks

\* Every file with a record is among the ranges.
LEMMA RangesAreTheFiles ==
    ASSUME NEW l \in Seq(LogEntry), NEW loggedFirst \in BOOLEAN
    PROVE  /\ AllRanges(l, loggedFirst) \in Seq(Files)
           /\ \A i \in DOMAIN l : FileOf(l[i]) \in Members(AllRanges(l, loggedFirst))
<1> DEFINE files == {FileOf(e) : e \in ToSet(l)}
           Earlier(f, g) == f.day < g.day \/ (f.day = g.day /\ f # g /\ f.logged = loggedFirst)
           R == {p \in files \X files : Earlier(p[1], p[2])}
           n == Cardinality(files)
           at == [p \in 1..n |-> CHOOSE f \in files : Cardinality({g \in files : Earlier(g, f)}) = p - 1]
<1>1. files \subseteq Files
  <2>1. \A i \in DOMAIN l : l[i] \in LogEntry
    OBVIOUS
  <2>2. \A e \in LogEntry : FileOf(e) \in Files
    BY DEF LogEntry, FileOf, Files
  <2> QED BY <2>1, <2>2 DEF ToSet
<1>2. IsFiniteSet(files)
  <2>1. IsFiniteSet(DOMAIN l)
    <3>1. DOMAIN l = 1..Len(l) /\ Len(l) \in Nat
      OBVIOUS
    <3> QED BY <3>1, FS_Interval
  <2> DEFINE g == [i \in DOMAIN l |-> FileOf(l[i])]
  <2>2. g \in Surjection(DOMAIN l, files)
    BY DEF Surjection, ToSet
  <2> HIDE DEF g, files
  <2> QED BY <2>1, <2>2, FS_Surjection
<1>3. Orders(R, files)
  <2>1. \A f, g \in files : <<f, g>> \in R <=> Earlier(f, g)
    OBVIOUS
  <2>2. \A f, g \in Files : f # g => Earlier(f, g) \/ Earlier(g, f)
    BY DEF Files
  <2>3. \A f \in Files : ~Earlier(f, f)
    BY DEF Files
  <2>4. \A f, g, h \in Files : Earlier(f, g) /\ Earlier(g, h) => Earlier(f, h)
    BY DEF Files
  <2> HIDE DEF R, Earlier, files
  <2> QED BY <2>1, <2>2, <2>3, <2>4, <1>1 DEF Orders
<1>4. \A f \in files : Under(files, R, f) = {g \in files : Earlier(g, f)}
  BY DEF Under
<1> HIDE DEF R, Earlier
<1>5. Ranks(files, R)
  BY <1>2, <1>3, RanksAreUnique
<1> HIDE DEF files
<1> DEFINE rank(f) == Cardinality({g \in files : Earlier(g, f)})
<1>6. \A f \in files : rank(f) = Cardinality(Under(files, R, f))
  BY <1>4
<1> HIDE DEF rank
<1>7. /\ n \in Nat
      /\ \A f \in files : rank(f) \in 0..(n - 1)
      /\ \A f, g \in files : rank(f) = rank(g) => f = g
      /\ \A k \in 0..(n - 1) : \E f \in files : rank(f) = k
  <2>1. n \in Nat
    BY <1>5 DEF Ranks
  <2>2. \A f \in files : rank(f) \in 0..(n - 1)
    BY <1>5, <1>6 DEF Ranks
  <2>3. \A f, g \in files : rank(f) = rank(g) => f = g
    BY <1>5, <1>6 DEF Ranks
  <2>4. \A k \in 0..(n - 1) : \E f \in files : rank(f) = k
    BY <1>5, <1>6 DEF Ranks
  <2> QED BY <2>1, <2>2, <2>3, <2>4
<1>8. at = [p \in 1..n |-> CHOOSE f \in files : rank(f) = p - 1]
  BY DEF rank
<1>9. \A p \in 1..n : at[p] \in files /\ rank(at[p]) = p - 1
  <2> SUFFICES ASSUME NEW p \in 1..n PROVE at[p] \in files /\ rank(at[p]) = p - 1
    OBVIOUS
  <2>1. p - 1 \in 0..(n - 1)
    BY <1>7
  <2>2. \E f \in files : rank(f) = p - 1
    BY <2>1, <1>7
  <2>3. at[p] = CHOOSE f \in files : rank(f) = p - 1
    BY <1>8
  <2> QED BY <2>2, <2>3
<1>10. DOMAIN at = 1..n /\ at = [p \in DOMAIN at |-> at[p]]
  <2>1. DOMAIN at = 1..n
    OBVIOUS
  <2> HIDE DEF at
  <2>2. at = [p \in DOMAIN at |-> at[p]]
    BY <1>8
  <2> QED BY <2>1, <2>2
<1>11. AllRanges(l, loggedFirst) = SubSeq(at, 1, Len(at))
  BY DEF AllRanges, Evaluated, FileOf, Earlier, files
<1> HIDE DEF at, n
<1>12. at \in Seq(Files) /\ Len(at) = n
  <2>1. at \in [1..n -> Files]
    BY <1>1, <1>9, <1>10
  <2> QED BY <2>1, <1>7
<1>13. AllRanges(l, loggedFirst) = at
  BY <1>11, <1>12, SubSeqFull
<1>14. ASSUME NEW f \in files PROVE f \in Members(at)
  <2>1. PICK k \in 0..(n - 1) : k = rank(f)
    BY <1>7
  <2>2. k + 1 \in 1..n /\ (k + 1) - 1 = k
    BY <1>7
  <2>3. at[k + 1] = f
    BY <2>1, <2>2, <1>7, <1>9
  <2> QED BY <2>2, <2>3, <1>10 DEF Members
<1>15. \A i \in DOMAIN l : FileOf(l[i]) \in files
  BY DEF files, ToSet
<1> QED BY <1>12, <1>13, <1>14, <1>15

-------------------------------------------------------------------------------
(* The splitter                                                                *)

\* Where a shard ends, from where the one before it does.
EndStep(ranges, end, i) ==
  IF i = 0 THEN 0
  ELSE LET next == end[i - 1] + (Len(ranges) - end[i - 1]) \div (NumShards - i + 1)
       IN  IF /\ next # end[i - 1] /\ next # Len(ranges)
              /\ ranges[next].day = ranges[next + 1].day
           THEN next + 1
           ELSE next

LEMMA ShardEndsSolve ==
    ASSUME NEW ranges \in Seq(Files)
    PROVE  \A i \in 0..NumShards : ShardEnds(ranges)[i] = EndStep(ranges, ShardEnds(ranges), i)
<1> DEFINE D == 0..NumShards
           T == {n \in D : \E f : \A i \in 0..n : f[i] = EndStep(ranges, f, i)}
<1>1. NumShards \in Nat /\ 0 \in D
  BY ShardsAssumption
<1>2. 0 \in T
  <2> DEFINE f == [i \in D |-> 0]
  <2>1. \A i \in 0..0 : f[i] = EndStep(ranges, f, i)
    BY <1>1 DEF EndStep
  <2> HIDE DEF f
  <2> QED BY <1>1, <2>1
<1>3. PICK n \in T : \A m \in T : m <= n
  <2>1. T \subseteq D
    OBVIOUS
  <2> HIDE DEF T
  <2>2. T \in SUBSET Nat /\ T # {} /\ \A m \in T : m <= NumShards
    BY <1>1, <1>2, <2>1
  <2> QED BY <2>2, <1>1, GreatestElement
<1>4. PICK f : \A i \in 0..n : f[i] = EndStep(ranges, f, i)
  OBVIOUS
<1>5. n = NumShards
  <2> SUFFICES ASSUME n # NumShards PROVE FALSE
    OBVIOUS
  <2>1. n + 1 \in D /\ n \in D /\ n \in Nat
    BY <1>1
  <2> DEFINE g == [i \in D |-> IF i = n + 1 THEN EndStep(ranges, f, n + 1) ELSE f[i]]
  <2>2. \A i \in 0..n : g[i] = f[i]
    BY <1>1, <2>1
  <2>3. g[n + 1] = EndStep(ranges, f, n + 1)
    BY <2>1
  <2> HIDE DEF g
  <2>4. ASSUME NEW i \in 0..(n + 1) PROVE g[i] = EndStep(ranges, g, i)
    <3>1. EndStep(ranges, g, i) = EndStep(ranges, f, i)
      <4>1. i # 0 => i - 1 \in 0..n
        BY <2>1
      <4>2. i # 0 => g[i - 1] = f[i - 1]
        BY <4>1, <2>2
      <4> QED BY <4>2 DEF EndStep
    <3>2. i = n + 1 \/ i \in 0..n
      BY <2>1
    <3> QED BY <3>1, <3>2, <2>2, <2>3, <1>4
  <2>5. n + 1 \in T
    BY <2>1, <2>4
  <2> HIDE DEF T
  <2>6. n + 1 <= n
    BY <2>5, <1>3
  <2> QED BY <2>6, <2>1
<1>6. \E g : g = [i \in D |-> EndStep(ranges, g, i)]
  <2> DEFINE g == [i \in D |-> f[i]]
  <2>1. \A i \in D : g[i] = f[i]
    OBVIOUS
  <2>2. ASSUME NEW i \in D PROVE EndStep(ranges, g, i) = f[i]
    <3>1. i # 0 => i - 1 \in D
      BY <1>1
    <3> HIDE DEF g
    <3>2. i # 0 => g[i - 1] = f[i - 1]
      BY <3>1, <2>1
    <3>3. EndStep(ranges, g, i) = EndStep(ranges, f, i)
      BY <3>2 DEF EndStep
    <3> QED BY <3>3, <1>4, <1>5
  <2>3. g = [i \in D |-> EndStep(ranges, g, i)]
    BY <2>2
  <2> HIDE DEF g
  <2> QED BY <2>3
<1> DEFINE ends == CHOOSE g : g = [i \in D |-> EndStep(ranges, g, i)]
<1>7. ends = [i \in D |-> EndStep(ranges, ends, i)]
  BY <1>6, Zenon
<1>8. ShardEnds(ranges) = ends
  BY Zenon DEF ShardEnds, EndStep
<1> HIDE DEF ends
<1> QED BY <1>7, <1>8

LEMMA ShareIsNoMore ==
    ASSUME NEW a \in Nat, NEW b \in Nat \ {0}
    PROVE  a \div b \in 0..a /\ a \div 1 = a
OBVIOUS

\* Every range is in a shard.
LEMMA ShardsCover ==
    ASSUME NEW ranges \in Seq(Files), NEW ends, ends = ShardEnds(ranges)
    PROVE  /\ \A i \in 0..NumShards : ends[i] \in 0..Len(ranges)
           /\ \A p \in DOMAIN ranges : \E i \in 1..NumShards : p \in (ends[i - 1] + 1)..ends[i]
<1> DEFINE L == Len(ranges)
           Bad == {i \in 0..NumShards : ends[i] \notin 0..L}
<1>1. L \in Nat /\ DOMAIN ranges = 1..L /\ NumShards \in Nat \ {0}
  BY ShardsAssumption
<1>2. \A i \in 0..NumShards : ends[i] = EndStep(ranges, ends, i)
  BY ShardEndsSolve
<1> HIDE DEF L
<1>3. ends[0] = 0
  BY <1>1, <1>2 DEF EndStep
<1>4. ASSUME NEW i \in 1..NumShards, ends[i - 1] \in 0..L
      PROVE  /\ ends[i] \in 0..L
             /\ i = NumShards => ends[i] = L
  <2> DEFINE share == (L - ends[i - 1]) \div (NumShards - i + 1)
             next == ends[i - 1] + share
  <2>1. L - ends[i - 1] \in Nat /\ NumShards - i + 1 \in Nat \ {0}
    BY <1>1, <1>4
  <2>2. share \in 0..(L - ends[i - 1])
    BY <2>1, ShareIsNoMore
  <2>3. i = NumShards => share = L - ends[i - 1]
    BY <2>1, ShareIsNoMore
  <2>4. ends[i] = IF /\ next # ends[i - 1] /\ next # L /\ ranges[next].day = ranges[next + 1].day
                  THEN next + 1 ELSE next
    BY <1>2 DEF EndStep, L
  <2> HIDE DEF share
  <2>5. next \in 0..L /\ (i = NumShards => next = L)
    BY <2>2, <2>3, <1>1, <1>4
  <2> HIDE DEF next
  <2> QED BY <2>4, <2>5, <1>1
<1>5. Bad = {}
  <2> SUFFICES ASSUME Bad # {} PROVE FALSE
    OBVIOUS
  <2>1. PICK i \in Bad : \A j \in Bad : i <= j
    <3>1. Bad \in SUBSET Nat
      OBVIOUS
    <3> HIDE DEF Bad
    <3> QED BY <3>1, SmallestElement
  <2>2. i # 0
    BY <1>1, <1>3
  <2>3. i \in 1..NumShards /\ i - 1 \in 0..NumShards /\ ~(i <= i - 1)
    BY <2>2, <1>1
  <2> QED BY <2>1, <2>3, <1>4
<1>6. \A i \in 0..NumShards : ends[i] \in 0..L
  BY <1>5
<1>7. ends[NumShards] = L
  <2>1. NumShards \in 1..NumShards /\ NumShards - 1 \in 0..NumShards
    BY <1>1
  <2> QED BY <2>1, <1>4, <1>6
<1>8. ASSUME NEW p \in DOMAIN ranges PROVE \E i \in 1..NumShards : p \in (ends[i - 1] + 1)..ends[i]
  <2> DEFINE Far == {i \in 0..NumShards : p <= ends[i]}
  <2>1. PICK i \in Far : \A j \in Far : i <= j
    <3>1. NumShards \in Far
      BY <1>1, <1>7
    <3>2. Far \in SUBSET Nat
      OBVIOUS
    <3> HIDE DEF Far
    <3> QED BY <3>1, <3>2, SmallestElement
  <2>2. i # 0
    BY <1>1, <1>3
  <2>3. i \in 1..NumShards /\ i - 1 \in 0..NumShards /\ ~(i <= i - 1)
    BY <2>2, <1>1
  <2>4. ~(p <= ends[i - 1])
    BY <2>1, <2>3
  <2> QED BY <2>1, <2>3, <2>4, <1>1, <1>6
<1> QED BY <1>6, <1>8 DEF L

\* A row or an info tells the identifier and the place of a zgram.
Tells(r, e) == r.id = e.rec.id /\ r.location = e.location

SplitRows == {ZephyrgramRow(e, offset) : e \in LogEntry, offset \in Nat}

\* The rows of one file.
FileRows(l, f) ==
  LET text == FileText(l, f)
      at == Ascending({i \in DOMAIN text : text[i].rec.tag = "zgram"})
  IN  [n \in DOMAIN at |-> ZephyrgramRow(text[at[n]], at[n] - 1)]

LEMMA FileRowsTell ==
    ASSUME NEW l, IsLog(l), NEW f \in Files
    PROVE  /\ FileRows(l, f) \in Seq(SplitRows)
           /\ \A r \in Members(FileRows(l, f)) : \E i \in ZgramsAt(l) : Tells(r, l[i])
           /\ \A i \in ZgramsAt(l) : FileOf(l[i]) = f => \E r \in Members(FileRows(l, f)) : Tells(r, l[i])
<1>1. PICK text : text = FileText(l, f)
  OBVIOUS
<1>2. l \in Seq(LogEntry)
  BY DEF IsLog
<1>3. text \in Seq(LogEntry) /\ Picks(text, l, FileAt(l, f))
  BY <1>1, <1>2, FileTextHolds
<1> DEFINE S == {i \in DOMAIN text : text[i].rec.tag = "zgram"}
           n == Cardinality(S)
           at == Ascending(S)
           row(p) == ZephyrgramRow(text[p], p - 1)
           rows == [k \in DOMAIN at |-> row(at[k])]
<1>4. DOMAIN text = 1..Len(text) /\ Len(text) \in Nat
  BY <1>3
<1>5. S \in SUBSET Int /\ IsFiniteSet(S) /\ S \subseteq 1..Len(text)
  <2>1. S \subseteq 1..Len(text)
    BY <1>4
  <2> HIDE DEF S
  <2>2. IsFiniteSet(1..Len(text))
    BY <1>4, FS_Interval
  <2>3. IsFiniteSet(S)
    BY <2>1, <2>2, FS_Subset
  <2>4. S \in SUBSET Int
    BY <2>1, <1>4
  <2> QED BY <2>1, <2>3, <2>4
<1>6. \A p \in S : text[p].rec.tag = "zgram" /\ text[p] \in LogEntry
  BY <1>3
<1>7. \A p \in DOMAIN text : text[p].rec.tag = "zgram" => p \in S
  OBVIOUS
<1>8. FileRows(l, f) = rows
  BY <1>1 DEF FileRows
<1> HIDE DEF S
<1>9. /\ n \in Nat /\ at \in [1..n -> S]
      /\ \A p \in S : Below(S, p) \in 0..(n - 1) /\ at[Below(S, p) + 1] = p
  BY <1>5, AscendingLists
<1> HIDE DEF at, n
<1>10. DOMAIN rows = 1..n /\ \A k \in 1..n : rows[k] = row(at[k]) /\ at[k] \in S
  BY <1>9
<1>11. \A p \in S : row(p) \in SplitRows
  BY <1>5, <1>6 DEF SplitRows
<1>12. rows \in Seq(SplitRows)
  <2>1. rows \in [1..n -> SplitRows]
    <3> HIDE DEF row
    <3> QED BY <1>9, <1>11
  <2> QED BY <2>1, <1>9
<1> HIDE DEF rows
\* The rows of a place of the text, and of the log.
<1>13. ASSUME NEW i \in FileAt(l, f), l[i].rec.tag = "zgram"
       PROVE  /\ i \in ZgramsAt(l)
              /\ Below(FileAt(l, f), i) \in Nat
              /\ Tells(ZephyrgramRow(l[i], Below(FileAt(l, f), i)), l[i])
  <2>1. i \in ZgramsAt(l) /\ i \in DOMAIN l
    BY <1>13 DEF ZgramsAt, FileAt
  <2>2. FileAt(l, l[i]) = FileAt(l, f)
    BY <1>13 DEF FileAt
  <2>3. l[i].location = [day |-> l[i].day, logged |-> l[i].logged, offset |-> Below(FileAt(l, f), i)]
    BY <2>1, <2>2 DEF IsLog, Placed
  <2>4. l[i] \in LogEntry
    BY <1>2, <2>1
  <2>5. Below(FileAt(l, f), i) \in Nat
    BY <2>3, <2>4 DEF LogEntry, Locations
  <2> QED BY <2>1, <2>3, <2>5 DEF Tells, ZephyrgramRow
<1>14. ASSUME NEW p \in S
       PROVE  \E i \in ZgramsAt(l) : Tells(row(p), l[i])
  <2>1. PICK i \in FileAt(l, f) : Below(FileAt(l, f), i) = p - 1 /\ text[p] = l[i]
    BY <1>3, <1>4, <1>5 DEF Picks
  <2>2. l[i].rec.tag = "zgram"
    BY <2>1, <1>6
  <2>3. row(p) = ZephyrgramRow(l[i], Below(FileAt(l, f), i))
    BY <2>1
  <2> HIDE DEF row
  <2> QED BY <2>2, <2>3, <1>13
<1>15. ASSUME NEW i \in ZgramsAt(l), FileOf(l[i]) = f
       PROVE  \E r \in Members(rows) : Tells(r, l[i])
  <2>1. i \in FileAt(l, f) /\ l[i].rec.tag = "zgram"
    BY <1>15 DEF FileAt, FileOf, ZgramsAt
  <2>2. PICK p : p = Below(FileAt(l, f), i) + 1
    OBVIOUS
  <2>3. p \in DOMAIN text /\ text[p] = l[i]
    BY <2>1, <2>2, <1>3 DEF Picks
  <2>4. p \in S
    BY <2>1, <2>3, <1>7
  <2>5. PICK k \in 1..n : at[k] = p
    <3>1. Below(S, p) + 1 \in 1..n
      BY <2>4, <1>9
    <3> QED BY <3>1, <2>4, <1>9
  <2>6. rows[k] = row(p) /\ rows[k] \in Members(rows)
    BY <2>5, <1>10 DEF Members
  <2>7. Below(FileAt(l, f), i) \in Nat /\ Tells(ZephyrgramRow(l[i], Below(FileAt(l, f), i)), l[i])
    BY <2>1, <1>13
  <2>8. row(p) = ZephyrgramRow(l[i], Below(FileAt(l, f), i))
    BY <2>2, <2>3, <2>7
  <2> HIDE DEF row
  <2> QED BY <2>6, <2>7, <2>8
<1>16. ASSUME NEW r \in Members(rows) PROVE \E i \in ZgramsAt(l) : Tells(r, l[i])
  <2>1. PICK k \in 1..n : r = rows[k]
    BY <1>10 DEF Members
  <2> HIDE DEF row
  <2> QED BY <2>1, <1>10, <1>14
<1> QED BY <1>8, <1>12, <1>15, <1>16

LEMMA ZgramRowsTell ==
    ASSUME NEW l, IsLog(l), NEW files \in Seq(Files), NEW logged \in BOOLEAN,
           NEW rows, rows = ZgramRows(l, files, logged)
    PROVE  /\ rows \in Seq(SplitRows)
           /\ \A r \in Members(rows) : \E i \in ZgramsAt(l) : Tells(r, l[i])
           /\ \A i \in ZgramsAt(l) : FileOf(l[i]) \in Members(files) /\ l[i].logged = logged
                => \E r \in Members(rows) : Tells(r, l[i])
<1>1. PICK own : own = RowsAt(files, {i \in DOMAIN files : files[i].logged = logged})
  OBVIOUS
<1>2. own \in Seq(Files) /\ Members(own) = {files[i] : i \in {k \in DOMAIN files : files[k].logged = logged}}
  <2> DEFINE keep == {i \in DOMAIN files : files[i].logged = logged}
  <2>1. keep \in SUBSET DOMAIN files
    OBVIOUS
  <2> HIDE DEF keep
  <2>2. RowsAt(files, keep) \in Seq(Files) /\ Members(RowsAt(files, keep)) = {files[i] : i \in keep}
    BY <2>1, RowsAtMembers
  <2> QED BY <1>1, <2>2 DEF keep
<1> DEFINE seqs == [i \in DOMAIN own |-> FileRows(l, own[i])]
<1>3. rows = FlattenSeq(seqs)
  BY <1>1 DEF ZgramRows, FileRows
<1>4. \A i \in DOMAIN own : own[i] \in Files
  BY <1>2
<1>5. \A f \in Files :
        /\ FileRows(l, f) \in Seq(SplitRows)
        /\ \A r \in Members(FileRows(l, f)) : \E i \in ZgramsAt(l) : Tells(r, l[i])
        /\ \A i \in ZgramsAt(l) : FileOf(l[i]) = f => \E r \in Members(FileRows(l, f)) : Tells(r, l[i])
  BY FileRowsTell
<1>6. seqs \in Seq(Seq(SplitRows))
  <2>1. DOMAIN own = 1..Len(own) /\ Len(own) \in Nat
    BY <1>2
  <2>2. seqs \in [1..Len(own) -> Seq(SplitRows)]
    BY <2>1, <1>4, <1>5
  <2> QED BY <2>1, <2>2
<1>7. DOMAIN seqs = DOMAIN own /\ \A i \in DOMAIN own : seqs[i] = FileRows(l, own[i])
  OBVIOUS
<1> HIDE DEF seqs
<1>8. /\ rows \in Seq(SplitRows)
      /\ \A r : r \in Members(rows) <=> \E i \in DOMAIN own : r \in Members(FileRows(l, own[i]))
  BY <1>3, <1>6, <1>7, FlattenMembers
<1>9. \A r \in Members(rows) : \E i \in ZgramsAt(l) : Tells(r, l[i])
  BY <1>4, <1>5, <1>8
<1>10. ASSUME NEW i \in ZgramsAt(l), FileOf(l[i]) \in Members(files), l[i].logged = logged
       PROVE  \E r \in Members(rows) : Tells(r, l[i])
  <2>1. FileOf(l[i]) \in Members(own)
    <3>1. PICK k \in DOMAIN files : files[k] = FileOf(l[i])
      BY <1>10 DEF Members
    <3>2. files[k].logged = logged
      BY <3>1, <1>10 DEF FileOf
    <3>3. files[k] \in {files[m] : m \in {m \in DOMAIN files : files[m].logged = logged}}
      BY <3>2
    <3> QED BY <3>1, <3>3, <1>2
  <2>2. PICK k \in DOMAIN own : own[k] = FileOf(l[i])
    BY <2>1 DEF Members
  <2>3. PICK r \in Members(FileRows(l, own[k])) : Tells(r, l[i])
    BY <2>2, <1>4, <1>5
  <2> QED BY <2>3, <1>8
<1> QED BY <1>8, <1>9, <1>10

\* Every member of either sequence, by identifier.
LEMMA MergeHasAll ==
    ASSUME NEW X, NEW a \in Seq(X), NEW b \in Seq(X),
           \A r \in Members(a) \cup Members(b) : r.id \in Int,
           \A i, j \in DOMAIN a : i < j => a[i].id < a[j].id,
           \A i, j \in DOMAIN b : i < j => b[i].id < b[j].id,
           NEW merged, merged = MergeZgrams(a, b), merged.ok
    PROVE  /\ merged.rows \in Seq(X)
           /\ Members(merged.rows) = Members(a) \cup Members(b)
<1> DEFINE all == a \o b
           n == Len(a) + Len(b)
<1>1. /\ Len(a) \in Nat /\ Len(b) \in Nat /\ DOMAIN a = 1..Len(a) /\ DOMAIN b = 1..Len(b)
      /\ all \in Seq(X) /\ Len(all) = n /\ DOMAIN all = 1..n
      /\ \A i \in 1..n : all[i] = IF i <= Len(a) THEN a[i] ELSE b[i - Len(a)]
  BY ConcatProperties, LenProperties
<1> HIDE DEF all
<1>2. \A i \in 1..n : (i \in DOMAIN a /\ all[i] = a[i]) \/ (i - Len(a) \in DOMAIN b /\ all[i] = b[i - Len(a)] /\ i > Len(a))
  BY <1>1
<1>3. Members(all) = Members(a) \cup Members(b)
  <2>1. \A i \in DOMAIN a : i \in 1..n /\ all[i] = a[i]
    BY <1>1
  <2>2. ASSUME NEW i \in DOMAIN b PROVE i + Len(a) \in 1..n /\ all[i + Len(a)] = b[i]
    BY <1>1
  <2>3. Members(all) = {all[i] : i \in 1..n}
    BY <1>1 DEF Members
  <2> HIDE DEF n
  <2>4. \A r \in Members(all) : r \in Members(a) \cup Members(b)
    BY <2>3, <1>2 DEF Members
  <2>5. \A r \in Members(a) : r \in Members(all)
    BY <2>1, <2>3 DEF Members
  <2>6. \A r \in Members(b) : r \in Members(all)
    BY <2>2, <2>3 DEF Members
  <2> QED BY <2>4, <2>5, <2>6
<1> DEFINE at(i) == Cardinality({j \in DOMAIN all : all[j].id < all[i].id}) + 1
           sorted == [p \in DOMAIN all |-> all[CHOOSE i \in DOMAIN all : at(i) = p]]
<1>4. /\ \A x \in Members(a), y \in Members(b) : x.id # y.id
      /\ merged.rows = SubSeq(sorted, 1, Len(sorted))
  <2> DEFINE twice == \E x \in ToSet(a), y \in ToSet(b) : x.id = y.id
  <2>1. merged = IF twice THEN Failure
                 ELSE [ok |-> TRUE, rows |-> SubSeq(sorted, 1, Len(sorted))]
    BY DEF MergeZgrams, Evaluated, all
  <2>2. ~Failure.ok
    BY DEF Failure
  <2> HIDE DEF sorted, twice
  <2>3. ~twice /\ merged.rows = SubSeq(sorted, 1, Len(sorted))
    BY <2>1, <2>2
  <2> QED BY <2>3 DEF twice, ToSet, Members
<1> DEFINE R == {p \in (1..n) \X (1..n) : all[p[1]].id < all[p[2]].id}
<1>5. \A i \in 1..n : all[i].id \in Int
  BY <1>1, <1>3 DEF Members
<1>6. \A i, j \in 1..n : i # j => all[i].id # all[j].id
  <2> SUFFICES ASSUME NEW i \in 1..n, NEW j \in 1..n, i < j PROVE all[i].id # all[j].id
    OBVIOUS
  <2>1. CASE j \in DOMAIN a /\ all[j] = a[j]
    <3>1. i \in DOMAIN a /\ all[i] = a[i]
      BY <2>1, <1>1
    <3>2. a[i].id < a[j].id
      BY <2>1, <3>1
    <3> QED BY <3>1, <3>2, <2>1, <1>5
  <2>2. CASE j - Len(a) \in DOMAIN b /\ all[j] = b[j - Len(a)] /\ j > Len(a)
    <3>1. CASE i \in DOMAIN a /\ all[i] = a[i]
      BY <3>1, <2>2, <1>4 DEF Members
    <3>2. CASE i - Len(a) \in DOMAIN b /\ all[i] = b[i - Len(a)]
      <4>1. i - Len(a) < j - Len(a)
        BY <1>1
      <4>2. b[i - Len(a)].id < b[j - Len(a)].id
        BY <4>1, <3>2, <2>2
      <4> QED BY <4>2, <3>2, <2>2, <1>5
    <3> QED BY <3>1, <3>2, <1>2
  <2> QED BY <2>1, <2>2, <1>2
<1>7. Orders(R, 1..n)
  <2>1. \A i, j \in 1..n : <<i, j>> \in R <=> all[i].id < all[j].id
    OBVIOUS
  <2> HIDE DEF R, n
  <2>2. \A i \in 1..n : ~(all[i].id < all[i].id)
    BY <1>5
  <2>3. \A i, j, k \in 1..n : all[i].id < all[j].id /\ all[j].id < all[k].id => all[i].id < all[k].id
    BY <1>5
  <2>4. \A i, j \in 1..n : i # j => all[i].id < all[j].id \/ all[j].id < all[i].id
    BY <1>5, <1>6
  <2> QED BY <2>1, <2>2, <2>3, <2>4 DEF Orders
<1>8. \A i \in 1..n : Under(1..n, R, i) = {j \in 1..n : all[j].id < all[i].id}
  BY DEF Under
<1> HIDE DEF R
<1>9. Ranks(1..n, R) /\ Cardinality(1..n) = n
  <2>1. n \in Nat
    BY <1>1
  <2>2. IsFiniteSet(1..n) /\ Cardinality(1..n) = n
    BY <2>1, FS_Interval
  <2> QED BY <2>2, <1>7, RanksAreUnique
<1>10. \A i \in 1..n : at(i) = Cardinality(Under(1..n, R, i)) + 1
  BY <1>1, <1>8
<1>11. sorted = [p \in 1..n |-> all[CHOOSE i \in 1..n : at(i) = p]]
  BY <1>1
<1> HIDE DEF at, n
<1>12. /\ \A i \in 1..n : at(i) \in 1..n
       /\ \A i, j \in 1..n : at(i) = at(j) => i = j
       /\ \A p \in 1..n : \E i \in 1..n : at(i) = p
  <2>1. n \in Nat
    BY <1>1 DEF n
  <2>2. \A i \in 1..n : Cardinality(Under(1..n, R, i)) \in 0..(n - 1)
    BY <1>9 DEF Ranks
  <2>3. \A i, j \in 1..n : Cardinality(Under(1..n, R, i)) = Cardinality(Under(1..n, R, j)) => i = j
    BY <1>9 DEF Ranks
  <2>4. \A k \in 0..(n - 1) : \E i \in 1..n : Cardinality(Under(1..n, R, i)) = k
    BY <1>9 DEF Ranks
  <2>5. ASSUME NEW p \in 1..n PROVE \E i \in 1..n : at(i) = p
    <3>1. p - 1 \in 0..(n - 1)
      BY <2>1
    <3> QED BY <3>1, <2>4, <1>10
  <2>6. \A i \in 1..n : at(i) \in 1..n
    BY <2>1, <2>2, <1>10
  <2>7. \A i, j \in 1..n : at(i) = at(j) => i = j
    BY <2>2, <2>3, <1>10
  <2> QED BY <2>5, <2>6, <2>7
<1>13. \A p \in 1..n : \E i \in 1..n : at(i) = p /\ sorted[p] = all[i]
  <2> SUFFICES ASSUME NEW p \in 1..n PROVE \E i \in 1..n : at(i) = p /\ sorted[p] = all[i]
    OBVIOUS
  <2>1. sorted[p] = all[CHOOSE i \in 1..n : at(i) = p]
    BY <1>11
  <2> HIDE DEF sorted
  <2> QED BY <2>1, <1>12
<1>14. DOMAIN sorted = 1..n
  BY <1>11
<1>15. sorted \in [1..n -> X]
  <2>1. sorted = [p \in 1..n |-> sorted[p]]
    BY <1>11
  <2> HIDE DEF sorted
  <2>2. \A p \in 1..n : sorted[p] \in X
    BY <1>13, <1>1
  <2> QED BY <2>1, <2>2
<1> HIDE DEF sorted
<1>16. sorted \in Seq(X)
  <2>1. n \in Nat
    BY <1>1 DEF n
  <2> QED BY <2>1, <1>15
<1>17. merged.rows = sorted
  BY <1>4, <1>16, SubSeqFull
<1>18. Members(sorted) = Members(all)
  <2>1. ASSUME NEW i \in 1..n PROVE \E p \in 1..n : sorted[p] = all[i]
    <3>1. at(i) \in 1..n
      BY <1>12
    <3>2. PICK j \in 1..n : at(j) = at(i) /\ sorted[at(i)] = all[j]
      BY <3>1, <1>13
    <3> QED BY <3>1, <3>2, <1>12
  <2>2. Members(all) = {all[i] : i \in 1..n} /\ Members(sorted) = {sorted[p] : p \in 1..n}
    BY <1>1, <1>14 DEF Members, n
  <2>3. \A r \in Members(all) : r \in Members(sorted)
    BY <2>1, <2>2
  <2>4. \A r \in Members(sorted) : r \in Members(all)
    BY <2>2, <1>13
  <2> QED BY <2>3, <2>4
<1> QED BY <1>3, <1>16, <1>17, <1>18

-------------------------------------------------------------------------------
(* Lists                                                                       *)

IsList(s) == s \in Seq(Members(s))

LEMMA SequencesAreLists ==
    ASSUME NEW X, NEW s \in Seq(X)
    PROVE  IsList(s) /\ Members(s) \subseteq X /\ Len(s) \in Nat /\ DOMAIN s = 1..Len(s)
<1>1. Len(s) \in Nat /\ DOMAIN s = 1..Len(s) /\ s = [i \in 1..Len(s) |-> s[i]]
  OBVIOUS
<1>2. \A i \in 1..Len(s) : s[i] \in Members(s) /\ s[i] \in X
  BY <1>1 DEF Members
<1>3. s \in [1..Len(s) -> Members(s)]
  BY <1>1, <1>2
<1>4. s \in Seq(Members(s))
  BY <1>1, <1>3
<1> QED BY <1>1, <1>2, <1>4 DEF IsList, Members

LEMMA AppendToList ==
    ASSUME NEW s, IsList(s), NEW x
    PROVE  /\ IsList(Append(s, x))
           /\ Append(s, x) # <<>>
           /\ Len(s) \in Nat
           /\ DOMAIN s = 1..Len(s)
           /\ DOMAIN Append(s, x) = 1..(Len(s) + 1)
           /\ Len(Append(s, x)) = Len(s) + 1
           /\ \A n \in 1..Len(s) : Append(s, x)[n] = s[n]
           /\ Append(s, x)[Len(s) + 1] = x
           /\ Members(Append(s, x)) = Members(s) \cup {x}
<1> DEFINE X == Members(s) \cup {x}
           t == Append(s, x)
<1>1. s \in Seq(X) /\ Len(s) \in Nat /\ DOMAIN s = 1..Len(s)
  <2>1. s \in Seq(Members(s))
    BY DEF IsList
  <2>2. Members(s) \subseteq X
    OBVIOUS
  <2> HIDE DEF X
  <2>3. Len(s) \in Nat /\ DOMAIN s = 1..Len(s)
    BY <2>1
  <2>4. \A i \in 1..Len(s) : s[i] \in X
    BY <2>1, <2>2
  <2>5. s \in [1..Len(s) -> X]
    BY <2>1, <2>3, <2>4
  <2> QED BY <2>3, <2>5
<1>2. x \in X
  OBVIOUS
<1> HIDE DEF X
<1>3. /\ t \in Seq(X) /\ Len(t) = Len(s) + 1
      /\ \A n \in 1..Len(s) : t[n] = s[n]
      /\ t[Len(s) + 1] = x
  BY <1>1, <1>2, AppendProperties
<1>4. DOMAIN t = 1..(Len(s) + 1) /\ t # <<>>
  <2> HIDE DEF t
  <2>1. DOMAIN t = 1..Len(t)
    BY <1>3
  <2>2. Len(t) # 0
    BY <1>1, <1>3
  <2> QED BY <1>3, <2>1, <2>2
<1>5. IsList(t)
  BY <1>3, SequencesAreLists
<1>6. Members(t) = Members(s) \cup {x}
  <2> HIDE DEF t
  <2>1. \A r \in Members(t) : r \in Members(s) \/ r = x
    <3> SUFFICES ASSUME NEW n \in DOMAIN t PROVE t[n] \in Members(s) \/ t[n] = x
      BY DEF Members
    <3>1. n \in 1..Len(s) \/ n = Len(s) + 1
      BY <1>1, <1>4
    <3> QED BY <3>1, <1>1, <1>3 DEF Members
  <2>2. \A r \in Members(s) : r \in Members(t)
    <3> SUFFICES ASSUME NEW n \in DOMAIN s PROVE s[n] \in Members(t)
      BY DEF Members
    <3>1. n \in DOMAIN t /\ t[n] = s[n]
      BY <1>1, <1>3, <1>4
    <3> QED BY <3>1 DEF Members
  <2>3. x \in Members(t)
    <3>1. Len(s) + 1 \in DOMAIN t
      BY <1>1, <1>4
    <3> QED BY <3>1, <1>3 DEF Members
  <2> QED BY <2>1, <2>2, <2>3
<1> QED BY <1>1, <1>3, <1>4, <1>5, <1>6

LEMMA ConcatLists ==
    ASSUME NEW s, IsList(s), NEW t, IsList(t)
    PROVE  /\ IsList(s \o t)
           /\ Len(s) \in Nat /\ Len(t) \in Nat
           /\ Len(s \o t) = Len(s) + Len(t)
           /\ DOMAIN s = 1..Len(s) /\ DOMAIN t = 1..Len(t)
           /\ DOMAIN (s \o t) = 1..(Len(s) + Len(t))
           /\ \A n \in 1..Len(s) : (s \o t)[n] = s[n]
           /\ \A n \in 1..Len(t) : (s \o t)[Len(s) + n] = t[n]
           /\ Members(s \o t) = Members(s) \cup Members(t)
<1> DEFINE X == Members(s) \cup Members(t)
           u == s \o t
<1>1. /\ s \in Seq(X) /\ Len(s) \in Nat /\ DOMAIN s = 1..Len(s)
      /\ t \in Seq(X) /\ Len(t) \in Nat /\ DOMAIN t = 1..Len(t)
  <2>1. s \in Seq(Members(s)) /\ t \in Seq(Members(t))
    BY DEF IsList
  <2>2. Members(s) \subseteq X /\ Members(t) \subseteq X
    OBVIOUS
  <2> HIDE DEF X
  <2>3. Len(s) \in Nat /\ DOMAIN s = 1..Len(s) /\ Len(t) \in Nat /\ DOMAIN t = 1..Len(t)
    BY <2>1
  <2>4. (\A i \in 1..Len(s) : s[i] \in X) /\ (\A i \in 1..Len(t) : t[i] \in X)
    BY <2>1, <2>2
  <2>5. s \in [1..Len(s) -> X] /\ t \in [1..Len(t) -> X]
    BY <2>1, <2>3, <2>4
  <2> QED BY <2>3, <2>5
<1> HIDE DEF X
<1>2. /\ u \in Seq(X) /\ Len(u) = Len(s) + Len(t)
      /\ \A n \in 1..(Len(s) + Len(t)) : u[n] = IF n <= Len(s) THEN s[n] ELSE t[n - Len(s)]
  BY <1>1, ConcatProperties
<1>3. DOMAIN u = 1..(Len(s) + Len(t))
  BY <1>1, <1>2
<1>4. IsList(u)
  BY <1>2, SequencesAreLists
<1> HIDE DEF u
<1>5. \A n \in 1..Len(s) : n \in DOMAIN u /\ u[n] = s[n]
  BY <1>1, <1>2, <1>3
<1>6. ASSUME NEW n \in 1..Len(t) PROVE Len(s) + n \in DOMAIN u /\ u[Len(s) + n] = t[n]
  <2>1. PICK m \in Nat : m = Len(s) + n
    BY <1>1
  <2>2. m \in 1..(Len(s) + Len(t)) /\ ~(m <= Len(s)) /\ m - Len(s) = n
    BY <1>1, <2>1
  <2> QED BY <1>2, <1>3, <2>1, <2>2
<1>7. ASSUME NEW n \in DOMAIN u
      PROVE  (n \in 1..Len(s) /\ u[n] = s[n]) \/ (n - Len(s) \in 1..Len(t) /\ u[n] = t[n - Len(s)])
  BY <1>1, <1>2, <1>3
<1>8. Members(u) = Members(s) \cup Members(t)
  BY <1>1, <1>5, <1>6, <1>7 DEF Members
<1> QED BY <1>1, <1>2, <1>3, <1>4, <1>5, <1>6, <1>8 DEF u

-------------------------------------------------------------------------------
(* Folds                                                                       *)

LEMMA MaxIsGreatest ==
    ASSUME NEW n \in Nat, NEW s \in SUBSET (1..n), s # {}
    PROVE  Max(s) \in s /\ \A x \in s : x <= Max(s)
<1>1. s \in SUBSET Nat /\ \A x \in s : x <= n
  OBVIOUS
<1>2. \E x \in s : \A y \in s : x >= y
  <2>1. PICK x \in s : \A y \in s : y <= x
    BY <1>1, GreatestElement
  <2>2. \A y \in s : x >= y
    BY <1>1, <2>1
  <2> QED BY <2>2
<1>3. Max(s) \in s /\ \A y \in s : Max(s) >= y
  BY <1>2 DEF Max
<1> QED BY <1>1, <1>3

\* One step of each of the model's folds, which take c besides.
FoldStep(fold, c, v, x) ==
  CASE fold = "digest" -> DigestRow(v, x, c)
    [] fold = "index" -> AddLogRecord(c, v, x)
    [] fold = "deltas" -> PpmAdd(c[1], c[2], v, x)
    [] fold = "cache" -> Cached(v, ZgramAt(c[1], c[2][x[4]].location))

\* A fold of the rows at a set of places, from that without the last.
SetStep(fold, c, base, rows, f, s) ==
  IF s = {} THEN base ELSE FoldStep(fold, c, f[s \ {Max(s)}], rows[Max(s)])

\* f has the fold of every set of the first n places, acc that of the first ones.
SolvesSets(fold, c, base, rows, n, f) ==
  \A s \in SUBSET (1..n) : f[s] = SetStep(fold, c, base, rows, f, s)
Solves(fold, c, base, rows, n, acc) ==
  acc[0] = base /\ \A i \in 1..n : acc[i] = FoldStep(fold, c, acc[i - 1], rows[i])

LEMMA SetFoldsSolve ==
    ASSUME NEW fold, NEW c, NEW base, NEW rows, NEW N \in Nat
    PROVE  \E f : SolvesSets(fold, c, base, rows, N, f)
<1> DEFINE D == 0..N
           T == {n \in D : \E f : \A s \in SUBSET (1..n) : f[s] = SetStep(fold, c, base, rows, f, s)}
<1>1. 0 \in T
  <2> DEFINE f == [s \in SUBSET (1..N) |-> base]
  <2>1. 0 \in D /\ {} \in SUBSET (1..N) /\ 1..0 = {}
    OBVIOUS
  <2>2. f[{}] = base
    BY <2>1
  <2> HIDE DEF f
  <2>3. \A s \in SUBSET (1..0) : f[s] = SetStep(fold, c, base, rows, f, s)
    <3>1. \A s \in SUBSET (1..0) : s = {}
      BY <2>1
    <3> QED BY <2>2, <3>1 DEF SetStep
  <2> QED BY <2>1, <2>3
<1>2. PICK n \in T : \A m \in T : m <= n
  <2>1. T \subseteq D
    OBVIOUS
  <2> HIDE DEF T
  <2>2. T \in SUBSET Nat /\ T # {} /\ \A m \in T : m <= N
    BY <1>1, <2>1
  <2> QED BY <2>2, GreatestElement
<1>3. PICK f : \A s \in SUBSET (1..n) : f[s] = SetStep(fold, c, base, rows, f, s)
  OBVIOUS
<1>4. n = N
  <2> SUFFICES ASSUME n # N PROVE FALSE
    OBVIOUS
  <2>1. n + 1 \in D /\ n \in D /\ n \in Nat
    OBVIOUS
  <2> DEFINE g == [s \in SUBSET (1..(n + 1)) |->
                     IF n + 1 \in s THEN SetStep(fold, c, base, rows, f, s) ELSE f[s]]
  <2>2. \A s \in SUBSET (1..n) : s \in SUBSET (1..(n + 1)) /\ n + 1 \notin s
    BY <2>1
  <2>3. \A s \in SUBSET (1..n) : g[s] = f[s]
    BY <2>2
  <2>4. \A s \in SUBSET (1..(n + 1)) : n + 1 \in s => g[s] = SetStep(fold, c, base, rows, f, s)
    OBVIOUS
  <2> HIDE DEF g
  <2>5. ASSUME NEW s \in SUBSET (1..(n + 1)) PROVE g[s] = SetStep(fold, c, base, rows, g, s)
    <3>1. CASE s = {}
      <4>1. s \in SUBSET (1..n)
        BY <3>1
      <4> QED BY <3>1, <4>1, <1>3, <2>3 DEF SetStep
    <3>2. CASE s # {}
      <4>1. Max(s) \in s /\ \A x \in s : x <= Max(s)
        <5>1. n + 1 \in Nat
          BY <2>1
        <5> QED BY <5>1, <3>2, MaxIsGreatest
      <4>2. s \ {Max(s)} \in SUBSET (1..n)
        <5> SUFFICES ASSUME NEW x \in s, x # Max(s) PROVE x \in 1..n
          OBVIOUS
        <5>1. x \in 1..(n + 1) /\ Max(s) \in 1..(n + 1) /\ x <= Max(s)
          BY <4>1
        <5> QED BY <5>1, <2>1
      <4>3. SetStep(fold, c, base, rows, g, s) = SetStep(fold, c, base, rows, f, s)
        BY <3>2, <4>2, <2>3 DEF SetStep
      <4>4. CASE n + 1 \in s
        BY <4>3, <4>4, <2>4
      <4>5. CASE n + 1 \notin s
        <5>1. s \in SUBSET (1..n)
          BY <4>5, <2>1
        <5> QED BY <5>1, <4>3, <2>3, <1>3
      <4> QED BY <4>4, <4>5
    <3> QED BY <3>1, <3>2
  <2>6. n + 1 \in T
    BY <2>1, <2>5
  <2> HIDE DEF T
  <2>7. n + 1 <= n
    BY <2>6, <1>2
  <2> QED BY <2>7, <2>1
<1> QED BY <1>3, <1>4 DEF SolvesSets

LEMMA SetFoldIsFold ==
    ASSUME NEW fold, NEW c, NEW base, NEW rows, NEW n \in Nat, NEW f,
           SolvesSets(fold, c, base, rows, n, f)
    PROVE  \E acc : Solves(fold, c, base, rows, n, acc) /\ acc[n] = f[1..n]
<1> DEFINE acc == [i \in 0..n |-> f[1..i]]
<1>1. \A i \in 0..n : acc[i] = f[1..i] /\ (1..i) \in SUBSET (1..n)
  OBVIOUS
<1> HIDE DEF acc
<1>2. acc[0] = base
  <2>1. 0 \in 0..n /\ 1..0 = {} /\ {} \in SUBSET (1..n)
    OBVIOUS
  <2>2. acc[0] = f[{}]
    BY <1>1, <2>1
  <2> QED BY <2>1, <2>2 DEF SolvesSets, SetStep
<1>3. ASSUME NEW i \in 1..n PROVE acc[i] = FoldStep(fold, c, acc[i - 1], rows[i])
  <2> DEFINE s == 1..i
  <2>1. i \in 0..n /\ i - 1 \in 0..n /\ i \in s /\ s \ {i} = 1..(i - 1) /\ i \in Nat
    OBVIOUS
  <2>2. Max(s) = i
    <3>1. Max(s) \in s /\ \A x \in s : x <= Max(s)
      BY <2>1, MaxIsGreatest
    <3>2. i <= Max(s) /\ Max(s) \in 1..i
      BY <2>1, <3>1
    <3> QED BY <3>2
  <2>3. s \in SUBSET (1..n) /\ acc[i] = f[s] /\ s # {}
    BY <1>1, <2>1
  <2>4. acc[i - 1] = f[s \ {i}]
    BY <1>1, <2>1
  <2> HIDE DEF s
  <2> QED BY <2>2, <2>3, <2>4 DEF SolvesSets, SetStep
<1>4. acc[n] = f[1..n]
  BY <1>1
<1> QED BY <1>2, <1>3, <1>4 DEF Solves

\* A shard of some rows, deltas of some records, and the cache after some reads.
DigestOf(rows, lastRevisions) == FoldLeft(LAMBDA s, zgram : DigestRow(s, zgram, lastRevisions), EmptyShard, rows)
DeltasOf(fz, dyn, ppm, rows) == FoldLeft(LAMBDA p, r : PpmAdd(fz, dyn, p, r), ppm, rows)
CacheOf(l, infos, ca, rows) == FoldLeft(LAMBDA c, t : Cached(c, ZgramAt(l, infos[t[4]].location)), ca, rows)

LEMMA DigestFolds ==
    ASSUME NEW X, NEW rows \in Seq(X), NEW lastRevisions
    PROVE  \E acc : /\ acc[0] = EmptyShard
                    /\ \A i \in 1..Len(rows) : acc[i] = DigestRow(acc[i - 1], rows[i], lastRevisions)
                    /\ DigestOf(rows, lastRevisions) = acc[Len(rows)]
<1>1. DOMAIN rows = 1..Len(rows) /\ Len(rows) \in Nat
  OBVIOUS
<1> DEFINE D == DOMAIN rows
           Step(f, s) == IF s = {} THEN EmptyShard
                         ELSE LET x == Max(s) IN DigestRow(f[s \ {x}], rows[x], lastRevisions)
           iter == CHOOSE f : f = [s \in SUBSET D |-> Step(f, s)]
<1>2. \A f, s : Step(f, s) = SetStep("digest", lastRevisions, EmptyShard, rows, f, s)
  BY DEF SetStep, FoldStep
<1> HIDE DEF Step
<1>3. PICK f : \A s \in SUBSET D : f[s] = Step(f, s)
  <2>1. PICK f : SolvesSets("digest", lastRevisions, EmptyShard, rows, Len(rows), f)
    BY <1>1, SetFoldsSolve
  <2>2. \A s \in SUBSET D : f[s] = Step(f, s)
    BY <1>1, <1>2, <2>1 DEF SolvesSets
  <2> QED BY <2>2
<1>4. \E g : g = [s \in SUBSET D |-> Step(g, s)]
  <2> DEFINE g == [s \in SUBSET D |-> f[s]]
  <2>1. \A s \in SUBSET D : g[s] = f[s]
    OBVIOUS
  <2>2. ASSUME NEW s \in SUBSET D PROVE Step(g, s) = f[s]
    <3>1. g[s \ {Max(s)}] = f[s \ {Max(s)}]
      <4>1. s \ {Max(s)} \in SUBSET D
        OBVIOUS
      <4> QED BY <4>1, <2>1
    <3> HIDE DEF g
    <3>2. Step(g, s) = Step(f, s)
      BY <3>1 DEF Step
    <3> QED BY <3>2, <1>3
  <2>3. g = [s \in SUBSET D |-> Step(g, s)]
    BY <2>2
  <2> HIDE DEF g
  <2> QED BY <2>3
<1>5. iter = [s \in SUBSET D |-> Step(iter, s)]
  BY <1>4, Zenon
<1>6. DigestOf(rows, lastRevisions) = iter[D]
  BY Zenon DEF FoldLeft, MapThenFoldSet, Step, DigestOf
<1> HIDE DEF iter
<1>7. SolvesSets("digest", lastRevisions, EmptyShard, rows, Len(rows), iter)
  BY <1>1, <1>2, <1>5 DEF SolvesSets
<1>8. PICK acc : /\ Solves("digest", lastRevisions, EmptyShard, rows, Len(rows), acc)
                 /\ acc[Len(rows)] = iter[1..Len(rows)]
  BY <1>1, <1>7, SetFoldIsFold
<1>9. /\ acc[0] = EmptyShard
      /\ \A i \in 1..Len(rows) : acc[i] = DigestRow(acc[i - 1], rows[i], lastRevisions)
  BY <1>8 DEF Solves, FoldStep
<1> QED BY <1>1, <1>6, <1>8, <1>9

LEMMA IndexFolds ==
    ASSUME NEW X, NEW rows \in Seq(X), NEW fz, NEW dyn
    PROVE  \E acc : /\ acc[0] = dyn
                    /\ \A i \in 1..Len(rows) : acc[i] = AddLogRecord(fz, acc[i - 1], rows[i])
                    /\ AddLogRecords(fz, dyn, rows) = acc[Len(rows)]
<1>1. DOMAIN rows = 1..Len(rows) /\ Len(rows) \in Nat
  OBVIOUS
<1> DEFINE D == DOMAIN rows
           Step(f, s) == IF s = {} THEN dyn
                         ELSE LET x == Max(s) IN AddLogRecord(fz, f[s \ {x}], rows[x])
           iter == CHOOSE f : f = [s \in SUBSET D |-> Step(f, s)]
<1>2. \A f, s : Step(f, s) = SetStep("index", fz, dyn, rows, f, s)
  BY DEF SetStep, FoldStep
<1> HIDE DEF Step
<1>3. PICK f : \A s \in SUBSET D : f[s] = Step(f, s)
  <2>1. PICK f : SolvesSets("index", fz, dyn, rows, Len(rows), f)
    BY <1>1, SetFoldsSolve
  <2>2. \A s \in SUBSET D : f[s] = Step(f, s)
    BY <1>1, <1>2, <2>1 DEF SolvesSets
  <2> QED BY <2>2
<1>4. \E g : g = [s \in SUBSET D |-> Step(g, s)]
  <2> DEFINE g == [s \in SUBSET D |-> f[s]]
  <2>1. \A s \in SUBSET D : g[s] = f[s]
    OBVIOUS
  <2>2. ASSUME NEW s \in SUBSET D PROVE Step(g, s) = f[s]
    <3>1. g[s \ {Max(s)}] = f[s \ {Max(s)}]
      <4>1. s \ {Max(s)} \in SUBSET D
        OBVIOUS
      <4> QED BY <4>1, <2>1
    <3> HIDE DEF g
    <3>2. Step(g, s) = Step(f, s)
      BY <3>1 DEF Step
    <3> QED BY <3>2, <1>3
  <2>3. g = [s \in SUBSET D |-> Step(g, s)]
    BY <2>2
  <2> HIDE DEF g
  <2> QED BY <2>3
<1>5. iter = [s \in SUBSET D |-> Step(iter, s)]
  BY <1>4, Zenon
<1>6. AddLogRecords(fz, dyn, rows) = iter[D]
  BY Zenon DEF FoldLeft, MapThenFoldSet, Step, AddLogRecords
<1> HIDE DEF iter
<1>7. SolvesSets("index", fz, dyn, rows, Len(rows), iter)
  BY <1>1, <1>2, <1>5 DEF SolvesSets
<1>8. PICK acc : /\ Solves("index", fz, dyn, rows, Len(rows), acc)
                 /\ acc[Len(rows)] = iter[1..Len(rows)]
  BY <1>1, <1>7, SetFoldIsFold
<1>9. /\ acc[0] = dyn
      /\ \A i \in 1..Len(rows) : acc[i] = AddLogRecord(fz, acc[i - 1], rows[i])
  BY <1>8 DEF Solves, FoldStep
<1> QED BY <1>1, <1>6, <1>8, <1>9

LEMMA DeltaFolds ==
    ASSUME NEW X, NEW rows \in Seq(X), NEW fz, NEW dyn, NEW ppm
    PROVE  \E acc : /\ acc[0] = ppm
                    /\ \A i \in 1..Len(rows) : acc[i] = PpmAdd(fz, dyn, acc[i - 1], rows[i])
                    /\ DeltasOf(fz, dyn, ppm, rows) = acc[Len(rows)]
<1>1. DOMAIN rows = 1..Len(rows) /\ Len(rows) \in Nat
  OBVIOUS
<1> DEFINE D == DOMAIN rows
           Step(f, s) == IF s = {} THEN ppm
                         ELSE LET x == Max(s) IN PpmAdd(fz, dyn, f[s \ {x}], rows[x])
           iter == CHOOSE f : f = [s \in SUBSET D |-> Step(f, s)]
<1>2. \A f, s : Step(f, s) = SetStep("deltas", <<fz, dyn>>, ppm, rows, f, s)
  BY DEF SetStep, FoldStep
<1> HIDE DEF Step
<1>3. PICK f : \A s \in SUBSET D : f[s] = Step(f, s)
  <2>1. PICK f : SolvesSets("deltas", <<fz, dyn>>, ppm, rows, Len(rows), f)
    BY <1>1, SetFoldsSolve
  <2>2. \A s \in SUBSET D : f[s] = Step(f, s)
    BY <1>1, <1>2, <2>1 DEF SolvesSets
  <2> QED BY <2>2
<1>4. \E g : g = [s \in SUBSET D |-> Step(g, s)]
  <2> DEFINE g == [s \in SUBSET D |-> f[s]]
  <2>1. \A s \in SUBSET D : g[s] = f[s]
    OBVIOUS
  <2>2. ASSUME NEW s \in SUBSET D PROVE Step(g, s) = f[s]
    <3>1. g[s \ {Max(s)}] = f[s \ {Max(s)}]
      <4>1. s \ {Max(s)} \in SUBSET D
        OBVIOUS
      <4> QED BY <4>1, <2>1
    <3> HIDE DEF g
    <3>2. Step(g, s) = Step(f, s)
      BY <3>1 DEF Step
    <3> QED BY <3>2, <1>3
  <2>3. g = [s \in SUBSET D |-> Step(g, s)]
    BY <2>2
  <2> HIDE DEF g
  <2> QED BY <2>3
<1>5. iter = [s \in SUBSET D |-> Step(iter, s)]
  BY <1>4, Zenon
<1>6. DeltasOf(fz, dyn, ppm, rows) = iter[D]
  BY Zenon DEF FoldLeft, MapThenFoldSet, Step, DeltasOf
<1> HIDE DEF iter
<1>7. SolvesSets("deltas", <<fz, dyn>>, ppm, rows, Len(rows), iter)
  BY <1>1, <1>2, <1>5 DEF SolvesSets
<1>8. PICK acc : /\ Solves("deltas", <<fz, dyn>>, ppm, rows, Len(rows), acc)
                 /\ acc[Len(rows)] = iter[1..Len(rows)]
  BY <1>1, <1>7, SetFoldIsFold
<1>9. /\ acc[0] = ppm
      /\ \A i \in 1..Len(rows) : acc[i] = PpmAdd(fz, dyn, acc[i - 1], rows[i])
  BY <1>8 DEF Solves, FoldStep
<1> QED BY <1>1, <1>6, <1>8, <1>9

LEMMA CacheFolds ==
    ASSUME NEW X, NEW rows \in Seq(X), NEW l, NEW infos, NEW ca
    PROVE  \E acc : /\ acc[0] = ca
                    /\ \A i \in 1..Len(rows) : acc[i] = Cached(acc[i - 1], ZgramAt(l, infos[rows[i][4]].location))
                    /\ CacheOf(l, infos, ca, rows) = acc[Len(rows)]
<1>1. DOMAIN rows = 1..Len(rows) /\ Len(rows) \in Nat
  OBVIOUS
<1> DEFINE D == DOMAIN rows
           Step(f, s) == IF s = {} THEN ca
                         ELSE LET x == Max(s) IN Cached(f[s \ {x}], ZgramAt(l, infos[rows[x][4]].location))
           iter == CHOOSE f : f = [s \in SUBSET D |-> Step(f, s)]
<1>2. \A f, s : Step(f, s) = SetStep("cache", <<l, infos>>, ca, rows, f, s)
  BY DEF SetStep, FoldStep
<1> HIDE DEF Step
<1>3. PICK f : \A s \in SUBSET D : f[s] = Step(f, s)
  <2>1. PICK f : SolvesSets("cache", <<l, infos>>, ca, rows, Len(rows), f)
    BY <1>1, SetFoldsSolve
  <2>2. \A s \in SUBSET D : f[s] = Step(f, s)
    BY <1>1, <1>2, <2>1 DEF SolvesSets
  <2> QED BY <2>2
<1>4. \E g : g = [s \in SUBSET D |-> Step(g, s)]
  <2> DEFINE g == [s \in SUBSET D |-> f[s]]
  <2>1. \A s \in SUBSET D : g[s] = f[s]
    OBVIOUS
  <2>2. ASSUME NEW s \in SUBSET D PROVE Step(g, s) = f[s]
    <3>1. g[s \ {Max(s)}] = f[s \ {Max(s)}]
      <4>1. s \ {Max(s)} \in SUBSET D
        OBVIOUS
      <4> QED BY <4>1, <2>1
    <3> HIDE DEF g
    <3>2. Step(g, s) = Step(f, s)
      BY <3>1 DEF Step
    <3> QED BY <3>2, <1>3
  <2>3. g = [s \in SUBSET D |-> Step(g, s)]
    BY <2>2
  <2> HIDE DEF g
  <2> QED BY <2>3
<1>5. iter = [s \in SUBSET D |-> Step(iter, s)]
  BY <1>4, Zenon
<1>6. CacheOf(l, infos, ca, rows) = iter[D]
  BY Zenon DEF FoldLeft, MapThenFoldSet, Step, CacheOf
<1> HIDE DEF iter
<1>7. SolvesSets("cache", <<l, infos>>, ca, rows, Len(rows), iter)
  BY <1>1, <1>2, <1>5 DEF SolvesSets
<1>8. PICK acc : /\ Solves("cache", <<l, infos>>, ca, rows, Len(rows), acc)
                 /\ acc[Len(rows)] = iter[1..Len(rows)]
  BY <1>1, <1>7, SetFoldIsFold
<1>9. /\ acc[0] = ca
      /\ \A i \in 1..Len(rows) : acc[i] = Cached(acc[i - 1], ZgramAt(l, infos[rows[i][4]].location))
  BY <1>8 DEF Solves, FoldStep
<1> QED BY <1>1, <1>6, <1>8, <1>9

-------------------------------------------------------------------------------
(* The digestor                                                                *)

\* An info and a row are of one zgram.
Same(info, row) ==
  {"id", "location"} \subseteq DOMAIN info /\ info.id = row.id /\ info.location = row.location

AppendsInfo(s, t, row) ==
  "zgramInfos" \in DOMAIN t /\ \E info : Same(info, row) /\ t.zgramInfos = Append(s.zgramInfos, info)

LEMMA DigestRowAppends ==
    ASSUME NEW s, "zgramInfos" \in DOMAIN s, NEW lastRevisions, NEW zgram,
           NEW t, t = DigestRow(s, zgram, lastRevisions)
    PROVE  AppendsInfo(s, t, zgram)
<1>1. PICK fields : fields = CheckOrAdvance(zgram, lastRevisions)
  OBVIOUS
<1>2. PICK u : u = AddZgramRow(s, zgram, fields)
  OBVIOUS
<1>3. t = AddPlusPluses(u, zgram, fields[4])
  BY <1>1, <1>2 DEF DigestRow
<1> DEFINE info == [id |-> zgram.id, location |-> zgram.location,
                    startingWordOff |-> Len(s.words), lengths |-> Lengths(fields)]
<1>4. DOMAIN u = DOMAIN s /\ u.zgramInfos = Append(s.zgramInfos, info)
  BY <1>2 DEF AddZgramRow
<1>5. DOMAIN t = DOMAIN u /\ t.zgramInfos = u.zgramInfos
  BY <1>3, <1>4 DEF AddPlusPluses
<1>6. Same(info, zgram)
  BY DEF Same
<1> HIDE DEF info
<1> QED BY <1>4, <1>5, <1>6 DEF AppendsInfo

LEMMA DigestListsRows ==
    ASSUME NEW X, NEW rows \in Seq(X), NEW lastRevisions, NEW shard,
           shard = DigestOf(rows, lastRevisions)
    PROVE  /\ IsList(shard.zgramInfos)
           /\ \A x \in Members(shard.zgramInfos) : \E r \in Members(rows) : Same(x, r)
           /\ \A r \in Members(rows) : \E x \in Members(shard.zgramInfos) : Same(x, r)
<1>1. PICK acc : /\ acc[0] = EmptyShard
                 /\ \A i \in 1..Len(rows) : acc[i] = DigestRow(acc[i - 1], rows[i], lastRevisions)
                 /\ shard = acc[Len(rows)]
  BY DigestFolds
<1>2. Len(rows) \in Nat /\ DOMAIN rows = 1..Len(rows)
  OBVIOUS
<1> DEFINE Good(n) == /\ "zgramInfos" \in DOMAIN acc[n]
                      /\ IsList(acc[n].zgramInfos)
                      /\ \A x \in Members(acc[n].zgramInfos) : \E i \in 1..n : Same(x, rows[i])
                      /\ \A i \in 1..n : \E x \in Members(acc[n].zgramInfos) : Same(x, rows[i])
           Bad == {n \in 0..Len(rows) : ~Good(n)}
<1>3. Good(0)
  <2>1. IsList(<<>>) /\ Members(<<>>) = {} /\ 1..0 = {}
    BY DEF IsList, Members
  <2> QED BY <1>1, <2>1 DEF EmptyShard
<1>4. ASSUME NEW n \in 1..Len(rows), Good(n - 1) PROVE Good(n)
  <2>1. /\ "zgramInfos" \in DOMAIN acc[n]
        /\ \E info : Same(info, rows[n]) /\ acc[n].zgramInfos = Append(acc[n - 1].zgramInfos, info)
    <3>1. AppendsInfo(acc[n - 1], acc[n], rows[n])
      BY <1>1, <1>4, DigestRowAppends
    <3> QED BY <3>1 DEF AppendsInfo
  <2>2. PICK info : Same(info, rows[n]) /\ acc[n].zgramInfos = Append(acc[n - 1].zgramInfos, info)
    BY <2>1
  <2>3. /\ IsList(acc[n].zgramInfos)
        /\ Members(acc[n].zgramInfos) = Members(acc[n - 1].zgramInfos) \cup {info}
    BY <1>4, <2>2, AppendToList
  <2>4. 1..n = (1..(n - 1)) \cup {n}
    OBVIOUS
  <2>5. \A x \in Members(acc[n - 1].zgramInfos) : \E i \in 1..(n - 1) : Same(x, rows[i])
    BY <1>4
  <2>6. \A i \in 1..(n - 1) : \E x \in Members(acc[n - 1].zgramInfos) : Same(x, rows[i])
    BY <1>4
  <2>7. \A x \in Members(acc[n].zgramInfos) : \E i \in 1..n : Same(x, rows[i])
    BY <2>2, <2>3, <2>4, <2>5
  <2>8. \A i \in 1..n : \E x \in Members(acc[n].zgramInfos) : Same(x, rows[i])
    BY <2>2, <2>3, <2>4, <2>6
  <2> QED BY <2>1, <2>3, <2>7, <2>8
<1> HIDE DEF Good
<1>5. Bad = {}
  <2> SUFFICES ASSUME Bad # {} PROVE FALSE
    OBVIOUS
  <2>1. PICK n \in Bad : \A m \in Bad : n <= m
    <3>1. Bad \in SUBSET Nat
      BY <1>2
    <3> HIDE DEF Bad
    <3> QED BY <3>1, SmallestElement
  <2>2. n # 0
    BY <1>3
  <2>3. n \in 1..Len(rows) /\ n - 1 \in 0..Len(rows) /\ ~(n <= n - 1)
    BY <1>2, <2>2
  <2> QED BY <2>1, <2>3, <1>4
<1>6. Good(Len(rows))
  BY <1>2, <1>5
<1> QED BY <1>1, <1>2, <1>6 DEF Good, Members

LEMMA ShardListsZgrams ==
    ASSUME NEW split, NEW i, NEW shard, shard = DigestShard(split, i), shard.ok,
           NEW X, NEW a \in Seq(X), a = split.loggedZgrams[i], NEW b \in Seq(X), b = split.unloggedZgrams[i],
           \A r \in Members(a) \cup Members(b) : r.id \in Int,
           \A j, k \in DOMAIN a : j < k => a[j].id < a[k].id,
           \A j, k \in DOMAIN b : j < k => b[j].id < b[k].id
    PROVE  /\ IsList(shard.zgramInfos)
           /\ \A x \in Members(shard.zgramInfos) : \E r \in Members(a) \cup Members(b) : Same(x, r)
           /\ \A r \in Members(a) \cup Members(b) : \E x \in Members(shard.zgramInfos) : Same(x, r)
<1>1. PICK merged : merged = MergeZgrams(a, b)
  OBVIOUS
<1>2. PICK lastRevisions : lastRevisions = LastKeeper(split.zgramRevisions, 1)
  OBVIOUS
<1>3. shard = IF merged.ok
              THEN DigestOf(merged.rows, lastRevisions)
              ELSE Failure
  <2>1. DigestShard(split, i) =
          IF MergeZgrams(split.loggedZgrams[i], split.unloggedZgrams[i]).ok
          THEN DigestOf(MergeZgrams(split.loggedZgrams[i], split.unloggedZgrams[i]).rows,
                        LastKeeper(split.zgramRevisions, 1))
          ELSE Failure
    BY Zenon DEF DigestShard, DigestOf
  <2> QED BY <2>1, <1>1, <1>2, Zenon
<1>4. merged.ok
  <2>1. ~Failure.ok
    BY DEF Failure
  <2> QED BY <1>3, <2>1, Zenon
<1>5. shard = DigestOf(merged.rows, lastRevisions)
  BY <1>3, <1>4, Zenon
<1>6. merged.rows \in Seq(X) /\ Members(merged.rows) = Members(a) \cup Members(b)
  BY <1>1, <1>4, MergeHasAll
<1>7. /\ IsList(shard.zgramInfos)
      /\ \A x \in Members(shard.zgramInfos) : \E r \in Members(merged.rows) : Same(x, r)
      /\ \A r \in Members(merged.rows) : \E x \in Members(shard.zgramInfos) : Same(x, r)
  BY <1>5, <1>6, DigestListsRows
<1> QED BY <1>6, <1>7

LEMMA EvaluatedIsIt ==
    ASSUME NEW n \in Nat, NEW s, s = [i \in 1..n |-> s[i]]
    PROVE  Evaluated(s) = s /\ IsList(s) /\ Len(s) = n /\ DOMAIN s = 1..n
<1>1. DOMAIN s = 1..n
  OBVIOUS
<1>2. \A i \in 1..n : s[i] \in Members(s)
  BY <1>1 DEF Members
<1>3. s \in [1..n -> Members(s)]
  BY <1>2
<1>4. s \in Seq(Members(s)) /\ Len(s) = n
  BY <1>1, <1>3
<1>5. SubSeq(s, 1, Len(s)) = s
  BY <1>4, SubSeqFull
<1> QED BY <1>1, <1>4, <1>5 DEF IsList, Evaluated

\* The shards of a split that was accepted.
IsSplit(l, split, shards) ==
  /\ \A i \in 1..NumShards :
       /\ shards[i] \in Seq(Files) /\ SplitterAccepts(l, shards[i])
       /\ split.loggedZgrams[i] = ZgramRows(l, shards[i], TRUE)
       /\ split.unloggedZgrams[i] = ZgramRows(l, shards[i], FALSE)
  /\ \A i \in DOMAIN l : \E k \in 1..NumShards : FileOf(l[i]) \in Members(shards[k])

LEMMA SplitShards ==
    ASSUME NEW l, IsLog(l), NEW loggedFirst \in BOOLEAN, NEW split, split = Split(l, loggedFirst), split.ok
    PROVE  \E shards : IsSplit(l, split, shards)
<1>1. PICK ranges : ranges = AllRanges(l, loggedFirst)
  OBVIOUS
<1>2. PICK ends : ends = ShardEnds(ranges)
  OBVIOUS
<1>3. l \in Seq(LogEntry) /\ NumShards \in Nat \ {0}
  BY ShardsAssumption DEF IsLog
<1>4. ranges \in Seq(Files) /\ \A i \in DOMAIN l : FileOf(l[i]) \in Members(ranges)
  BY <1>1, <1>3, RangesAreTheFiles
<1>5. /\ \A i \in 0..NumShards : ends[i] \in 0..Len(ranges)
      /\ \A p \in DOMAIN ranges : \E i \in 1..NumShards : p \in (ends[i - 1] + 1)..ends[i]
  BY <1>2, <1>4, ShardsCover
<1> DEFINE shards == [i \in 1..NumShards |-> SubSeq(ranges, ends[i - 1] + 1, ends[i])]
           logged == [i \in 1..NumShards |-> ZgramRows(l, shards[i], TRUE)]
           unlogged == [i \in 1..NumShards |-> ZgramRows(l, shards[i], FALSE)]
<1>6. Evaluated(shards) = shards
  <2>1. shards = [i \in 1..NumShards |-> shards[i]]
    OBVIOUS
  <2> HIDE DEF shards
  <2> QED BY <2>1, <1>3, EvaluatedIsIt
<1>7. Evaluated(logged) = logged /\ Evaluated(unlogged) = unlogged
  <2>1. logged = [i \in 1..NumShards |-> logged[i]] /\ unlogged = [i \in 1..NumShards |-> unlogged[i]]
    OBVIOUS
  <2> HIDE DEF logged, unlogged
  <2> QED BY <2>1, <1>3, EvaluatedIsIt
<1>8. /\ \A i \in 1..NumShards : SplitterAccepts(l, shards[i])
      /\ split.loggedZgrams = logged /\ split.unloggedZgrams = unlogged
  <2> DEFINE sh == Evaluated(shards)
             refused == \E i \in 1..NumShards : ~SplitterAccepts(l, sh[i])
             a == Evaluated([i \in 1..NumShards |-> ZgramRows(l, sh[i], TRUE)])
             b == Evaluated([i \in 1..NumShards |-> ZgramRows(l, sh[i], FALSE)])
  <2>1. \E r1, r2, r3, r4, r5 :
          split = IF refused THEN Failure
                  ELSE [ok |-> TRUE, loggedZgrams |-> a, unloggedZgrams |-> b,
                        reactionsByZgramId |-> r1, reactionsByReaction |-> r2,
                        zgramRevisions |-> r3, zgramRefersTo |-> r4, zmojis |-> r5]
    BY <1>1, <1>2, Zenon DEF Split
  <2> HIDE DEF refused, a, b
  <2>2. ~refused /\ split.loggedZgrams = a /\ split.unloggedZgrams = b
    BY <2>1 DEF Failure
  <2>3. sh = shards
    BY <1>6
  <2>4. a = Evaluated(logged) /\ b = Evaluated(unlogged)
    BY <2>3 DEF a, b
  <2> HIDE DEF sh, logged, unlogged
  <2> QED BY <2>2, <2>3, <2>4, <1>7 DEF refused
<1>9. \A i \in 1..NumShards : shards[i] = SubSeq(ranges, ends[i - 1] + 1, ends[i])
  OBVIOUS
<1>10. \A i \in 1..NumShards : logged[i] = ZgramRows(l, shards[i], TRUE) /\ unlogged[i] = ZgramRows(l, shards[i], FALSE)
  OBVIOUS
<1> HIDE DEF shards, logged, unlogged
<1>11. ASSUME NEW i \in 1..NumShards
       PROVE  /\ shards[i] \in Seq(Files)
              /\ \A p \in (ends[i - 1] + 1)..ends[i] : ranges[p] \in Members(shards[i])
  <2> DEFINE a == ends[i - 1] + 1
             b == ends[i]
  <2>1. a \in 1..(Len(ranges) + 1) /\ b \in 0..Len(ranges) /\ Len(ranges) \in Nat
    <3>1. i - 1 \in 0..NumShards /\ i \in 0..NumShards
      BY <1>3
    <3> QED BY <3>1, <1>4, <1>5
  <2>2. shards[i] = SubSeq(ranges, a, b)
    BY <1>9
  <2> HIDE DEF a, b
  <2>3. /\ shards[i] \in Seq(Files)
        /\ a <= b => Len(shards[i]) = b - a + 1
        /\ \A k \in 1..(b - a + 1) : shards[i][k] = ranges[a + k - 1]
    BY <2>1, <2>2, <1>4, SubSeqProperties
  <2>4. ASSUME NEW p \in a..b PROVE ranges[p] \in Members(shards[i])
    <3>1. PICK k \in Nat : k = p - a + 1
      BY <2>1
    <3>2. k \in 1..(b - a + 1) /\ a + k - 1 = p /\ a <= b
      BY <2>1, <3>1
    <3>3. shards[i][k] = ranges[p] /\ k \in DOMAIN shards[i]
      BY <3>2, <2>3
    <3> QED BY <3>3 DEF Members
  <2> QED BY <2>3, <2>4 DEF a, b
<1>12. ASSUME NEW j \in DOMAIN l PROVE \E k \in 1..NumShards : FileOf(l[j]) \in Members(shards[k])
  <2>1. PICK p \in DOMAIN ranges : ranges[p] = FileOf(l[j])
    BY <1>4 DEF Members
  <2>2. PICK i \in 1..NumShards : p \in (ends[i - 1] + 1)..ends[i]
    BY <1>5
  <2> QED BY <2>1, <2>2, <1>11
<1>13. IsSplit(l, split, shards)
  BY <1>8, <1>10, <1>11, <1>12 DEF IsSplit
<1> QED BY <1>13

\* What becomes of the digested shards, of a digest, of a pool, of a split.
OfShards(shards) ==
    LET infos == GatherZgramInfos(shards)
        trie == MakeTrie(shards)
        Gather(Rows(_), keys) == StableSort(FlattenSeq([i \in 1 .. NumShards |-> Rows(shards[i])]), keys)
    IN  IF \/ \E i \in 1 .. NumShards : ~shards[i].ok
           \/ ~Ascends([n \in DOMAIN infos |-> infos[n].id])
           \/ \E word \in DOMAIN trie : ~Ascends(trie[word])
        THEN Failure
        ELSE [ok |-> TRUE, zgramInfos |-> infos, wordInfos |-> GatherWordInfos(shards), trie |-> trie,
              plusPluses   |-> Gather(LAMBDA s : s.plusPluses, <<1, 2>>),
              minusMinuses |-> Gather(LAMBDA s : s.minusMinuses, <<1, 2>>),
              plusPlusKeys |-> Gather(LAMBDA s : s.plusPlusKeys, <<1, 2>>)]
OfMaps(digest, pool, maps) ==
  IF \E m \in DOMAIN maps : ~maps[m].ok THEN Failure
  ELSE [ok |-> TRUE, strings |-> pool,
        zgramInfos |-> digest.zgramInfos, wordInfos |-> digest.wordInfos, trie |-> digest.trie,
        metadata |-> [m \in DOMAIN maps |-> maps[m].value]]
OfPool(split, digest, pool) == Then(MakeMetadata(split, digest, pool), LAMBDA maps : OfMaps(digest, pool, maps))
OfDigest(split, digest) ==
  IF ~digest.ok THEN Failure ELSE Then(StringPool(split, digest), LAMBDA pool : OfPool(split, digest, pool))
OfSplit(split) ==
  IF ~split.ok THEN Failure ELSE Then(Digest(split), LAMBDA digest : OfDigest(split, digest))

LEMMA StagesFollow ==
    ASSUME NEW l, NEW loggedFirst, NEW fz, fz = BuildIndex(l, loggedFirst), fz.ok
    PROVE  LET split == Split(l, loggedFirst)
               digest == Digest(split)
           IN  split.ok /\ digest.ok /\ fz.zgramInfos = digest.zgramInfos
<1> DEFINE split == Split(l, loggedFirst)
           digest == Digest(split)
           pool == StringPool(split, digest)
           maps == MakeMetadata(split, digest, pool)
<1>1. fz = OfSplit(split)
  <2>1. BuildIndex(l, loggedFirst) = Then(split, LAMBDA s : OfSplit(s))
    BY Zenon DEF BuildIndex, OfSplit, OfDigest, OfPool, OfMaps
  <2> HIDE DEF split
  <2>2. Then(split, LAMBDA s : OfSplit(s)) = OfSplit(split)
    BY DEF Then
  <2> QED BY <2>1, <2>2
<1>2. split.ok /\ fz = Then(digest, LAMBDA d : OfDigest(split, d))
  <2>1. OfSplit(split) = IF ~split.ok THEN Failure ELSE Then(digest, LAMBDA d : OfDigest(split, d))
    BY Zenon DEF OfSplit
  <2> HIDE DEF split, digest
  <2>2. ~Failure.ok
    BY DEF Failure
  <2> QED BY <1>1, <2>1, <2>2, Zenon
<1> HIDE DEF split
<1>3. fz = OfDigest(split, digest)
  <2> HIDE DEF digest
  <2>1. Then(digest, LAMBDA d : OfDigest(split, d)) = OfDigest(split, digest)
    BY DEF Then
  <2> QED BY <1>2, <2>1, Zenon
<1> HIDE DEF digest
<1>4. digest.ok /\ fz = Then(pool, LAMBDA p : OfPool(split, digest, p))
  <2>1. OfDigest(split, digest) = IF ~digest.ok THEN Failure ELSE Then(pool, LAMBDA p : OfPool(split, digest, p))
    BY Zenon DEF OfDigest
  <2> HIDE DEF pool
  <2>2. ~Failure.ok
    BY DEF Failure
  <2> QED BY <1>3, <2>1, <2>2, Zenon
<1> HIDE DEF pool
<1>5. fz = OfPool(split, digest, pool)
  <2>1. Then(pool, LAMBDA p : OfPool(split, digest, p)) = OfPool(split, digest, pool)
    BY DEF Then
  <2> QED BY <1>4, <2>1, Zenon
<1>6. fz = OfMaps(digest, pool, maps)
  <2> HIDE DEF maps
  <2>1. Then(maps, LAMBDA m : OfMaps(digest, pool, m)) = OfMaps(digest, pool, maps)
    BY DEF Then
  <2>2. OfPool(split, digest, pool) = Then(maps, LAMBDA m : OfMaps(digest, pool, m))
    BY Zenon DEF OfPool, maps
  <2> QED BY <1>5, <2>1, <2>2, Zenon
<1> HIDE DEF maps
<1>7. fz.zgramInfos = digest.zgramInfos
  BY <1>6 DEF OfMaps, Failure
<1> QED BY <1>2, <1>4, <1>7 DEF split, digest

IsDigest(split, infos, shards) ==
  /\ shards = [i \in 1..NumShards |-> DigestShard(split, i)]
  /\ \A i \in 1..NumShards : shards[i].ok
  /\ infos = GatherZgramInfos(shards)
  /\ Ascends([n \in DOMAIN infos |-> infos[n].id])

LEMMA DigestFollows ==
    ASSUME NEW split, NEW digest, digest = Digest(split), digest.ok
    PROVE  \E shards : IsDigest(split, digest.zgramInfos, shards)
<1> DEFINE shards == [i \in 1..NumShards |-> DigestShard(split, i)]
<1>1. digest = OfShards(shards)
  <2>1. Digest(split) = Then(Evaluated(shards), LAMBDA s : OfShards(s))
    BY Zenon DEF Digest, OfShards
  <2>2. shards = [i \in 1..NumShards |-> shards[i]] /\ NumShards \in Nat
    BY ShardsAssumption
  <2> HIDE DEF shards
  <2>3. Evaluated(shards) = shards
    BY <2>2, EvaluatedIsIt
  <2>4. Then(shards, LAMBDA s : OfShards(s)) = OfShards(shards)
    BY DEF Then
  <2> QED BY <2>1, <2>3, <2>4
<1>2. shards = [i \in 1..NumShards |-> DigestShard(split, i)]
  OBVIOUS
<1> HIDE DEF shards
<1> DEFINE infos == GatherZgramInfos(shards)
           bad == \E i \in 1..NumShards : ~shards[i].ok
           unordered == ~Ascends([n \in DOMAIN infos |-> infos[n].id])
           trie == MakeTrie(shards)
           untrue == \E word \in DOMAIN trie : ~Ascends(trie[word])
<1>3. \E r1, r2, r3, r4 :
         digest = IF bad \/ unordered \/ untrue THEN Failure
                  ELSE [ok |-> TRUE, zgramInfos |-> infos, wordInfos |-> r1, trie |-> trie,
                        plusPluses |-> r2, minusMinuses |-> r3, plusPlusKeys |-> r4]
  BY <1>1, Zenon DEF OfShards
<1> HIDE DEF infos, bad, unordered, untrue, trie
<1>4. ~bad /\ ~unordered /\ digest.zgramInfos = infos
  BY <1>3 DEF Failure
<1>5. IsDigest(split, digest.zgramInfos, shards)
  BY <1>2, <1>4 DEF bad, unordered, infos, IsDigest
<1> QED BY <1>5

\* The infos of the shards are those of the index.
Gathers(infos, shards) ==
  /\ IsList(infos)
  /\ \A x \in Members(infos) : \E i \in DOMAIN shards : \E y \in Members(shards[i].zgramInfos) : Same(x, y)
  /\ \A i \in DOMAIN shards : \A y \in Members(shards[i].zgramInfos) : \E x \in Members(infos) : Same(x, y)

LEMMA InfosGather ==
    ASSUME NEW n \in Nat, NEW shards, shards = [i \in 1..n |-> shards[i]],
           \A i \in 1..n : IsList(shards[i].zgramInfos),
           \A i \in 1..n : \A y \in Members(shards[i].zgramInfos) : {"id", "location"} \subseteq DOMAIN y,
           NEW infos, infos = GatherZgramInfos(shards)
    PROVE  Gathers(infos, shards)
<1> DEFINE X == UNION {Members(shards[i].zgramInfos) : i \in 1..n}
           seqs == [i \in DOMAIN shards |-> shards[i].zgramInfos]
           all == FlattenSeq(seqs)
           lengths(k) == FlattenSeq([i \in 1..k |-> all[i].lengths])
           off(k) == FoldLeft(+, 0, lengths(k - 1))
           moved == [k \in DOMAIN all |-> [all[k] EXCEPT !.startingWordOff = off(k)]]
<1>1. DOMAIN shards = 1..n
  OBVIOUS
<1>2. \A i \in 1..n : seqs[i] = shards[i].zgramInfos
  BY <1>1
<1>3. DOMAIN seqs = 1..n /\ seqs = [i \in 1..n |-> seqs[i]]
  BY <1>1
<1>4. infos = Evaluated(moved)
  BY Zenon DEF GatherZgramInfos
<1> HIDE DEF seqs
<1>5. seqs \in Seq(Seq(X))
  <2>1. ASSUME NEW i \in 1..n PROVE seqs[i] \in Seq(X)
    <3>1. PICK s : s = seqs[i]
      OBVIOUS
    <3>2. s \in Seq(Members(s)) /\ Members(s) \subseteq X
      BY <1>2, <3>1 DEF IsList
    <3> HIDE DEF X
    <3>3. Len(s) \in Nat /\ DOMAIN s = 1..Len(s) /\ s = [k \in 1..Len(s) |-> s[k]]
      BY <3>2
    <3>4. \A k \in 1..Len(s) : s[k] \in X
      BY <3>2, <3>3 DEF Members
    <3>5. s \in [1..Len(s) -> X]
      BY <3>3, <3>4
    <3> QED BY <3>1, <3>3, <3>5
  <2> HIDE DEF X
  <2>2. seqs \in [1..n -> Seq(X)]
    BY <1>3, <2>1
  <2> QED BY <2>2
<1> HIDE DEF X
<1>6. /\ all \in Seq(X)
      /\ \A x : x \in Members(all) <=> \E i \in DOMAIN seqs : x \in Members(seqs[i])
  BY <1>5, FlattenMembers
<1> HIDE DEF all, off
<1>7. Len(all) \in Nat /\ DOMAIN all = 1..Len(all) /\ moved = [k \in 1..Len(all) |-> moved[k]]
  BY <1>6
<1>8. ASSUME NEW k \in 1..Len(all) PROVE Same(moved[k], all[k])
  <2>1. all[k] \in Members(all)
    BY <1>7 DEF Members
  <2>2. {"id", "location"} \subseteq DOMAIN all[k]
    BY <2>1, <1>2, <1>3, <1>6
  <2>3. moved[k] = [all[k] EXCEPT !.startingWordOff = off(k)]
    BY <1>7
  <2> HIDE DEF moved
  <2> QED BY <2>2, <2>3 DEF Same
<1> HIDE DEF moved
<1>9. infos = moved /\ IsList(infos) /\ DOMAIN infos = 1..Len(all)
  BY <1>4, <1>7, EvaluatedIsIt
<1>10. ASSUME NEW x \in Members(infos)
       PROVE  \E i \in DOMAIN shards : \E y \in Members(shards[i].zgramInfos) : Same(x, y)
  <2>1. PICK k \in 1..Len(all) : x = moved[k]
    BY <1>9 DEF Members
  <2>2. all[k] \in Members(all) /\ Same(x, all[k])
    BY <2>1, <1>7, <1>8 DEF Members
  <2>3. PICK i \in 1..n : all[k] \in Members(shards[i].zgramInfos)
    BY <2>2, <1>2, <1>3, <1>6
  <2> QED BY <2>2, <2>3, <1>1
<1>11. ASSUME NEW i \in DOMAIN shards, NEW y \in Members(shards[i].zgramInfos)
       PROVE  \E x \in Members(infos) : Same(x, y)
  <2>1. y \in Members(all)
    BY <1>1, <1>2, <1>3, <1>6
  <2>2. PICK k \in 1..Len(all) : y = all[k]
    BY <2>1, <1>7 DEF Members
  <2>3. infos[k] \in Members(infos) /\ Same(infos[k], y)
    BY <2>2, <1>8, <1>9 DEF Members
  <2> QED BY <2>3
<1> QED BY <1>9, <1>10, <1>11 DEF Gathers

\* The infos are those of the zgrams from place a + 1 to place b of the log,
\* in order.
Lists(infos, l, a, b) ==
  /\ IsList(infos)
  /\ \A x \in Members(infos) : \E i \in ZgramsAt(l) : i \in (a + 1)..b /\ Tells(x, l[i])
  /\ \A i \in ZgramsAt(l) : i \in (a + 1)..b => \E x \in Members(infos) : Tells(x, l[i])
  /\ \A m, n \in DOMAIN infos : m < n => infos[m].id < infos[n].id

LEMMA BuildLists ==
    ASSUME NEW l, IsLog(l), NEW loggedFirst \in BOOLEAN, NEW fz, fz = BuildIndex(l, loggedFirst), fz.ok
    PROVE  Lists(fz.zgramInfos, l, 0, Len(l))
<1>1. PICK split, digest : /\ split = Split(l, loggedFirst) /\ digest = Digest(split)
                           /\ split.ok /\ digest.ok /\ fz.zgramInfos = digest.zgramInfos
  BY StagesFollow
<1>2. PICK parts : IsSplit(l, split, parts)
  BY <1>1, SplitShards
<1>3. PICK shards : /\ shards = [i \in 1..NumShards |-> DigestShard(split, i)]
                    /\ \A i \in 1..NumShards : shards[i].ok
                    /\ fz.zgramInfos = GatherZgramInfos(shards)
                    /\ Ascends([n \in DOMAIN fz.zgramInfos |-> fz.zgramInfos[n].id])
  <2>1. PICK shards : IsDigest(split, digest.zgramInfos, shards)
    BY <1>1, DigestFollows
  <2> QED BY <2>1, <1>1 DEF IsDigest
<1>4. l \in Seq(LogEntry) /\ NumShards \in Nat /\ DOMAIN l = 1..Len(l) /\ Len(l) \in Nat
  BY ShardsAssumption DEF IsLog
<1>5. \A i \in ZgramsAt(l) : l[i].rec.id \in Nat /\ i \in DOMAIN l /\ l[i].logged \in BOOLEAN
  <2>1. \A i \in DOMAIN l : l[i] \in LogEntry
    BY <1>4
  <2>2. \A e \in LogEntry : e.logged \in BOOLEAN
    BY DEF LogEntry
  <2> QED BY <2>1, <2>2 DEF IsLog, ZgramsAt
\* Every shard has the zgrams of its files.
<1>6. ASSUME NEW i \in 1..NumShards
      PROVE  /\ IsList(shards[i].zgramInfos)
             /\ \A y \in Members(shards[i].zgramInfos) :
                  {"id", "location"} \subseteq DOMAIN y /\ \E j \in ZgramsAt(l) : Tells(y, l[j])
             /\ \A j \in ZgramsAt(l) : FileOf(l[j]) \in Members(parts[i])
                  => \E y \in Members(shards[i].zgramInfos) : Tells(y, l[j])
  <2>1. PICK a, b : a = ZgramRows(l, parts[i], TRUE) /\ b = ZgramRows(l, parts[i], FALSE)
    OBVIOUS
  <2>2. /\ parts[i] \in Seq(Files) /\ SplitterAccepts(l, parts[i])
        /\ a = split.loggedZgrams[i] /\ b = split.unloggedZgrams[i]
    BY <1>2, <2>1 DEF IsSplit
  <2>3. /\ a \in Seq(SplitRows)
        /\ \A r \in Members(a) : \E j \in ZgramsAt(l) : Tells(r, l[j])
        /\ \A j \in ZgramsAt(l) : FileOf(l[j]) \in Members(parts[i]) /\ l[j].logged = TRUE
             => \E r \in Members(a) : Tells(r, l[j])
    BY <2>1, <2>2, ZgramRowsTell
  <2>4. /\ b \in Seq(SplitRows)
        /\ \A r \in Members(b) : \E j \in ZgramsAt(l) : Tells(r, l[j])
        /\ \A j \in ZgramsAt(l) : FileOf(l[j]) \in Members(parts[i]) /\ l[j].logged = FALSE
             => \E r \in Members(b) : Tells(r, l[j])
    BY <2>1, <2>2, ZgramRowsTell
  <2>5. \A r \in Members(a) \cup Members(b) : r.id \in Int
    BY <2>3, <2>4, <1>5 DEF Tells
  <2>6. /\ \A j \in DOMAIN a : j > 1 => a[j - 1].id < a[j].id
        /\ \A j \in DOMAIN b : j > 1 => b[j - 1].id < b[j].id
    BY <2>1, <2>2 DEF SplitterAccepts
  <2>7. \A j, k \in DOMAIN a : j < k => a[j].id < a[k].id
    <3>1. Len(a) \in Nat /\ DOMAIN a = 1..Len(a)
      BY <2>3
    <3> DEFINE s == [j \in 1..Len(a) |-> a[j].id]
    <3>2. \A j \in 1..Len(a) : s[j] = a[j].id /\ a[j].id \in Int
      BY <2>5, <3>1 DEF Members
    <3> HIDE DEF s
    <3>3. ASSUME NEW j \in 1..Len(a), j > 1 PROVE s[j - 1] < s[j]
      <4>1. j - 1 \in 1..Len(a)
        BY <3>1, <3>3
      <4> QED BY <4>1, <2>6, <3>1, <3>2, <3>3
    <3>4. \A j, k \in 1..Len(a) : j < k => s[j] < s[k]
      BY <3>1, <3>2, <3>3, ElementsAscend
    <3> QED BY <3>1, <3>2, <3>4
  <2>8. \A j, k \in DOMAIN b : j < k => b[j].id < b[k].id
    <3>1. Len(b) \in Nat /\ DOMAIN b = 1..Len(b)
      BY <2>4
    <3> DEFINE s == [j \in 1..Len(b) |-> b[j].id]
    <3>2. \A j \in 1..Len(b) : s[j] = b[j].id /\ b[j].id \in Int
      BY <2>5, <3>1 DEF Members
    <3> HIDE DEF s
    <3>3. ASSUME NEW j \in 1..Len(b), j > 1 PROVE s[j - 1] < s[j]
      <4>1. j - 1 \in 1..Len(b)
        BY <3>1, <3>3
      <4> QED BY <4>1, <2>6, <3>1, <3>2, <3>3
    <3>4. \A j, k \in 1..Len(b) : j < k => s[j] < s[k]
      BY <3>1, <3>2, <3>3, ElementsAscend
    <3> QED BY <3>1, <3>2, <3>4
  <2>9. shards[i] = DigestShard(split, i) /\ shards[i].ok
    BY <1>3
  <2>10. /\ IsList(shards[i].zgramInfos)
         /\ \A x \in Members(shards[i].zgramInfos) : \E r \in Members(a) \cup Members(b) : Same(x, r)
         /\ \A r \in Members(a) \cup Members(b) : \E x \in Members(shards[i].zgramInfos) : Same(x, r)
    BY <2>2, <2>3, <2>4, <2>5, <2>7, <2>8, <2>9, ShardListsZgrams
  <2>11. ASSUME NEW y \in Members(shards[i].zgramInfos)
         PROVE  {"id", "location"} \subseteq DOMAIN y /\ \E j \in ZgramsAt(l) : Tells(y, l[j])
    <3>1. PICK r \in Members(a) \cup Members(b) : Same(y, r)
      BY <2>10
    <3>2. PICK j \in ZgramsAt(l) : Tells(r, l[j])
      BY <2>3, <2>4
    <3> QED BY <3>1, <3>2 DEF Same, Tells
  <2>12. ASSUME NEW j \in ZgramsAt(l), FileOf(l[j]) \in Members(parts[i])
         PROVE  \E y \in Members(shards[i].zgramInfos) : Tells(y, l[j])
    <3>1. PICK r \in Members(a) \cup Members(b) : Tells(r, l[j])
      BY <2>3, <2>4, <2>12, <1>5
    <3>2. PICK y \in Members(shards[i].zgramInfos) : Same(y, r)
      BY <2>10, <3>1
    <3> QED BY <3>1, <3>2 DEF Same, Tells
  <2> QED BY <2>10, <2>11, <2>12
<1>7. DOMAIN shards = 1..NumShards /\ Gathers(fz.zgramInfos, shards)
  <2>1. shards = [i \in 1..NumShards |-> shards[i]]
    BY <1>3
  <2>2. \A i \in 1..NumShards : IsList(shards[i].zgramInfos)
    BY <1>6
  <2>3. \A i \in 1..NumShards : \A y \in Members(shards[i].zgramInfos) : {"id", "location"} \subseteq DOMAIN y
    BY <1>6
  <2>4. fz.zgramInfos = GatherZgramInfos(shards)
    BY <1>3
  <2>5. Gathers(fz.zgramInfos, shards)
    BY <2>1, <2>2, <2>3, <2>4, <1>4, InfosGather
  <2> QED BY <2>1, <2>5
<1>8. PICK infos : infos = fz.zgramInfos
  OBVIOUS
<1>9. ASSUME NEW x \in Members(infos) PROVE \E j \in ZgramsAt(l) : j \in (0 + 1)..Len(l) /\ Tells(x, l[j])
  <2>1. PICK i \in 1..NumShards : \E y \in Members(shards[i].zgramInfos) : Same(x, y)
    BY <1>7, <1>8 DEF Gathers
  <2>2. PICK y \in Members(shards[i].zgramInfos) : Same(x, y)
    BY <2>1
  <2>3. PICK j \in ZgramsAt(l) : Tells(y, l[j])
    BY <1>6
  <2> QED BY <2>2, <2>3, <1>4, <1>5 DEF Same, Tells
<1>10. ASSUME NEW j \in ZgramsAt(l) PROVE \E x \in Members(infos) : Tells(x, l[j])
  <2>1. PICK i \in 1..NumShards : FileOf(l[j]) \in Members(parts[i])
    BY <1>2, <1>5 DEF IsSplit
  <2>2. PICK y \in Members(shards[i].zgramInfos) : Tells(y, l[j])
    BY <1>6, <2>1
  <2>3. PICK x \in Members(infos) : Same(x, y)
    BY <1>7, <1>8, <2>2 DEF Gathers
  <2> QED BY <2>2, <2>3 DEF Same, Tells
<1>11. \A m, n \in DOMAIN infos : m < n => infos[m].id < infos[n].id
  <2>1. IsList(infos)
    BY <1>7, <1>8 DEF Gathers
  <2>2. Len(infos) \in Nat /\ DOMAIN infos = 1..Len(infos)
    BY <2>1 DEF IsList
  <2> DEFINE s == [n \in DOMAIN infos |-> infos[n].id]
  <2>3. \A n \in 1..Len(infos) : s[n] = infos[n].id
    BY <2>2
  <2>4. Ascends(s) /\ DOMAIN s = 1..Len(infos)
    BY <1>3, <1>8, <2>2
  <2> HIDE DEF s
  <2>5. \A n \in 1..Len(infos) : infos[n].id \in Int
    <3> SUFFICES ASSUME NEW n \in 1..Len(infos) PROVE infos[n].id \in Int
      OBVIOUS
    <3>1. infos[n] \in Members(infos)
      BY <2>2 DEF Members
    <3> QED BY <3>1, <1>5, <1>9 DEF Tells
  <2>6. \A n \in 1..Len(infos) : s[n] \in Int /\ (n > 1 => s[n - 1] < s[n])
    BY <2>3, <2>4, <2>5 DEF Ascends
  <2>7. \A m, n \in 1..Len(infos) : m < n => s[m] < s[n]
    BY <2>2, <2>6, ElementsAscend
  <2> QED BY <2>2, <2>3, <2>7
<1> QED BY <1>7, <1>8, <1>9, <1>10, <1>11 DEF Gathers, Lists

-------------------------------------------------------------------------------
(* The sort                                                                    *)

KeysAreNumbers(W, keys) == \A w \in W : \A k \in DOMAIN keys : w[keys[k]] \in Int

LEMMA KeysOrder ==
    ASSUME NEW keys \in Seq(Nat), NEW W, KeysAreNumbers(W, keys)
    PROVE  /\ \A a \in W : ~KeyBefore(a, a, keys)
           /\ \A a, b, c \in W : KeyBefore(a, b, keys) /\ KeyBefore(b, c, keys) => KeyBefore(a, c, keys)
           /\ \A a, b, c \in W : KeyBefore(a, c, keys) => KeyBefore(a, b, keys) \/ KeyBefore(b, c, keys)
<1>1. DOMAIN keys = 1..Len(keys) /\ Len(keys) \in Nat
  OBVIOUS
<1>2. \A w \in W : \A k \in DOMAIN keys : w[keys[k]] \in Int
  BY DEF KeysAreNumbers
<1>3. ASSUME NEW a \in W PROVE ~KeyBefore(a, a, keys)
  BY <1>2 DEF KeyBefore
<1>4. ASSUME NEW a \in W, NEW b \in W, NEW c \in W, KeyBefore(a, b, keys), KeyBefore(b, c, keys)
      PROVE  KeyBefore(a, c, keys)
  <2>1. PICK k \in DOMAIN keys : a[keys[k]] < b[keys[k]] /\ \A j \in 1..(k - 1) : a[keys[j]] = b[keys[j]]
    BY <1>4 DEF KeyBefore
  <2>2. PICK m \in DOMAIN keys : b[keys[m]] < c[keys[m]] /\ \A j \in 1..(m - 1) : b[keys[j]] = c[keys[j]]
    BY <1>4 DEF KeyBefore
  <2>3. PICK n \in DOMAIN keys : n <= k /\ n <= m /\ (n = k \/ n = m)
    <3>1. k \in Nat /\ m \in Nat
      BY <1>1
    <3>2. k <= m \/ m <= k
      BY <3>1
    <3> QED BY <3>1, <3>2
  <2>4. \A j \in 1..(n - 1) : j \in DOMAIN keys /\ a[keys[j]] = c[keys[j]]
    BY <1>1, <2>1, <2>2, <2>3
  <2>5. a[keys[n]] < c[keys[n]]
    <3>1. n < k => a[keys[n]] = b[keys[n]]
      BY <1>1, <2>1
    <3>2. n < m => b[keys[n]] = c[keys[n]]
      BY <1>1, <2>2
    <3>3. a[keys[n]] \in Int /\ b[keys[n]] \in Int /\ c[keys[n]] \in Int
      BY <1>2
    <3>4. (n = k \/ n < k) /\ (n = m \/ n < m)
      BY <1>1, <2>3
    <3> QED BY <2>1, <2>2, <2>3, <3>1, <3>2, <3>3, <3>4
  <2> QED BY <2>4, <2>5 DEF KeyBefore
<1>5. ASSUME NEW a \in W, NEW b \in W, NEW c \in W, KeyBefore(a, c, keys)
      PROVE  KeyBefore(a, b, keys) \/ KeyBefore(b, c, keys)
  <2>1. PICK k \in DOMAIN keys : a[keys[k]] < c[keys[k]] /\ \A j \in 1..(k - 1) : a[keys[j]] = c[keys[j]]
    BY <1>5 DEF KeyBefore
  <2> DEFINE D == {j \in DOMAIN keys : a[keys[j]] # b[keys[j]] \/ b[keys[j]] # c[keys[j]]}
  <2>2. k \in D
    BY <1>2, <2>1
  <2>3. PICK m \in D : \A j \in D : m <= j
    <3>1. D \in SUBSET Nat
      BY <1>1
    <3> HIDE DEF D
    <3> QED BY <2>2, <3>1, SmallestElement
  <2>4. m \in DOMAIN keys /\ m <= k /\ (m = k \/ m < k)
    <3>1. m <= k
      BY <2>2, <2>3
    <3> QED BY <3>1, <1>1
  <2>5. \A j \in 1..(m - 1) : j \in DOMAIN keys /\ j \notin D
    BY <2>3, <2>4, <1>1
  <2>6. \A j \in 1..(m - 1) : a[keys[j]] = b[keys[j]] /\ b[keys[j]] = c[keys[j]]
    BY <2>5
  <2>7. a[keys[m]] \in Int /\ b[keys[m]] \in Int /\ c[keys[m]] \in Int
    BY <1>2, <2>4
  <2>8. m < k => a[keys[m]] = c[keys[m]]
    BY <1>1, <2>1, <2>4
  <2>9. a[keys[m]] # b[keys[m]] \/ b[keys[m]] # c[keys[m]]
    BY <2>3
  <2>10. a[keys[m]] < b[keys[m]] \/ b[keys[m]] < c[keys[m]]
    BY <2>1, <2>4, <2>7, <2>8, <2>9
  <2> QED BY <2>4, <2>6, <2>10 DEF KeyBefore
<1> QED BY <1>3, <1>4, <1>5

\* A sort neither loses nor makes rows.
LEMMA SortMembers ==
    ASSUME NEW keys \in Seq(Nat), NEW X, NEW rows \in Seq(X), KeysAreNumbers(Members(rows), keys)
    PROVE  /\ StableSort(rows, keys) \in Seq(X)
           /\ Members(StableSort(rows, keys)) = Members(rows)
<1> DEFINE n == Len(rows)
           Earlier(i, j) == \/ KeyBefore(rows[i], rows[j], keys)
                            \/ ~KeyBefore(rows[j], rows[i], keys) /\ i < j
           R == {p \in (1..n) \X (1..n) : Earlier(p[1], p[2])}
           rank(i) == Cardinality({j \in DOMAIN rows : Earlier(j, i)}) + 1
           place == [i \in DOMAIN rows |-> rank(i)]
           seat == Evaluated(place)
           sorted == [p \in DOMAIN rows |-> rows[CHOOSE i \in DOMAIN rows : seat[i] = p]]
<1>1. n \in Nat /\ DOMAIN rows = 1..n /\ \A i \in 1..n : rows[i] \in Members(rows) /\ rows[i] \in X
  BY DEF Members
<1>2. /\ \A i \in 1..n : ~KeyBefore(rows[i], rows[i], keys)
      /\ \A i, j, k \in 1..n : KeyBefore(rows[i], rows[j], keys) /\ KeyBefore(rows[j], rows[k], keys)
                               => KeyBefore(rows[i], rows[k], keys)
      /\ \A i, j, k \in 1..n : KeyBefore(rows[i], rows[k], keys)
                               => KeyBefore(rows[i], rows[j], keys) \/ KeyBefore(rows[j], rows[k], keys)
  BY <1>1, KeysOrder
<1>3. /\ \A i \in 1..n : ~Earlier(i, i)
      /\ \A i, j, k \in 1..n : Earlier(i, j) /\ Earlier(j, k) => Earlier(i, k)
      /\ \A i, j \in 1..n : i # j => Earlier(i, j) \/ Earlier(j, i)
  BY <1>1, <1>2
<1> HIDE DEF Earlier
<1>4. Orders(R, 1..n)
  <2>1. \A i, j \in 1..n : <<i, j>> \in R <=> Earlier(i, j)
    OBVIOUS
  <2> HIDE DEF R, n
  <2> QED BY <2>1, <1>3 DEF Orders
<1>5. \A i \in 1..n : Under(1..n, R, i) = {j \in 1..n : Earlier(j, i)}
  BY DEF Under
<1> HIDE DEF R
<1>6. Ranks(1..n, R) /\ Cardinality(1..n) = n
  <2>1. IsFiniteSet(1..n) /\ Cardinality(1..n) = n
    <3> HIDE DEF n
    <3> QED BY <1>1, FS_Interval
  <2> QED BY <2>1, <1>4, RanksAreUnique
<1>7. \A i \in 1..n : rank(i) = Cardinality(Under(1..n, R, i)) + 1
  BY <1>1, <1>5
<1> HIDE DEF rank, n
<1>8. /\ \A i \in 1..n : rank(i) \in 1..n
      /\ \A i, j \in 1..n : rank(i) = rank(j) => i = j
      /\ \A p \in 1..n : \E i \in 1..n : rank(i) = p
  <2>1. n \in Nat
    BY <1>1
  <2>2. \A i \in 1..n : Cardinality(Under(1..n, R, i)) \in 0..(n - 1)
    BY <1>6 DEF Ranks
  <2>3. \A i, j \in 1..n : Cardinality(Under(1..n, R, i)) = Cardinality(Under(1..n, R, j)) => i = j
    BY <1>6 DEF Ranks
  <2>4. \A k \in 0..(n - 1) : \E i \in 1..n : Cardinality(Under(1..n, R, i)) = k
    BY <1>6 DEF Ranks
  <2>5. ASSUME NEW p \in 1..n PROVE \E i \in 1..n : rank(i) = p
    <3>1. p - 1 \in 0..(n - 1)
      BY <2>1
    <3> QED BY <3>1, <2>4, <1>7
  <2>6. \A i \in 1..n : rank(i) \in 1..n
    BY <2>1, <2>2, <1>7
  <2>7. \A i, j \in 1..n : rank(i) = rank(j) => i = j
    BY <2>2, <2>3, <1>7
  <2> QED BY <2>5, <2>6, <2>7
<1>9. \A i \in 1..n : seat[i] = rank(i)
  <2>1. place = [i \in 1..n |-> place[i]] /\ \A i \in 1..n : place[i] = rank(i)
    BY <1>1
  <2> HIDE DEF place
  <2>2. seat = place
    BY <1>1, <2>1, EvaluatedIsIt
  <2> QED BY <2>1, <2>2
<1>10. sorted = [p \in 1..n |-> rows[CHOOSE i \in 1..n : seat[i] = p]]
  BY <1>1
<1>11. StableSort(rows, keys) = Evaluated(sorted)
  BY Zenon DEF StableSort, Earlier, rank
<1> HIDE DEF seat
<1>12. \A p \in 1..n : \E i \in 1..n : rank(i) = p /\ sorted[p] = rows[i]
  <2> SUFFICES ASSUME NEW p \in 1..n PROVE \E i \in 1..n : rank(i) = p /\ sorted[p] = rows[i]
    OBVIOUS
  <2>1. sorted[p] = rows[CHOOSE i \in 1..n : seat[i] = p]
    BY <1>10
  <2>2. \E i \in 1..n : seat[i] = p
    BY <1>8, <1>9
  <2> HIDE DEF sorted
  <2> QED BY <2>1, <2>2, <1>9
<1>13. DOMAIN sorted = 1..n /\ sorted = [p \in 1..n |-> sorted[p]]
  <2>1. DOMAIN sorted = 1..n
    BY <1>10
  <2> QED BY <1>10, <2>1
<1> HIDE DEF sorted
<1>14. Evaluated(sorted) = sorted
  BY <1>1, <1>13, EvaluatedIsIt
<1>15. sorted \in Seq(X)
  <2>1. \A p \in 1..n : sorted[p] \in X
    BY <1>1, <1>12
  <2>2. sorted \in [1..n -> X]
    BY <1>13, <2>1
  <2> QED BY <1>1, <2>2
<1>16. Members(sorted) = Members(rows)
  <2>1. ASSUME NEW i \in 1..n PROVE \E p \in 1..n : sorted[p] = rows[i]
    <3>1. rank(i) \in 1..n
      BY <1>8
    <3>2. PICK j \in 1..n : rank(j) = rank(i) /\ sorted[rank(i)] = rows[j]
      BY <3>1, <1>12
    <3> QED BY <3>1, <3>2, <1>8
  <2>2. Members(rows) = {rows[i] : i \in 1..n} /\ Members(sorted) = {sorted[p] : p \in 1..n}
    BY <1>1, <1>13 DEF Members
  <2>3. \A r \in Members(rows) : r \in Members(sorted)
    BY <2>1, <2>2
  <2>4. \A r \in Members(sorted) : r \in Members(rows)
    BY <2>2, <1>12
  <2> QED BY <2>3, <2>4
<1> QED BY <1>11, <1>14, <1>15, <1>16

-------------------------------------------------------------------------------
(* The dynamic index                                                           *)

Shape(dyn) == {"ok", "zgramInfos"} \subseteq DOMAIN dyn

\* t is the index with one more zgram, which comes after the others.
JoinsInfo(dyn, t, e) ==
  /\ Shape(t) /\ t.ok = dyn.ok
  /\ \E info : Tells(info, e) /\ t.zgramInfos = Append(dyn.zgramInfos, info)
  /\ dyn.zgramInfos # <<>> => ~(e.rec.id <= Last(dyn.zgramInfos).id)

LEMMA AddZgramAppends ==
    ASSUME NEW fz, NEW dyn, Shape(dyn), NEW e, NEW t, t = AddZgram(fz, dyn, e.rec, e.location)
    PROVE  t = Failure \/ JoinsInfo(dyn, t, e)
<1> DEFINE zgram == e.rec
           fields == <<zgram.sender, zgram.signature, zgram.instance, zgram.body>>
           tags == TagsOf(fields)
           words == WordsIn(fields)
           zgramOff == Len(fz.zgramInfos) + Len(dyn.zgramInfos)
           wordOff == Len(fz.wordInfos) + Len(dyn.wordInfos)
           late == dyn.zgramInfos # <<>> /\ zgram.id <= Last(dyn.zgramInfos).id
           info == [id |-> zgram.id, location |-> e.location, startingWordOff |-> wordOff, lengths |-> Lengths(fields)]
<1>1. \E a, b : t = IF late THEN Failure
                    ELSE [dyn EXCEPT !.wordInfos = a, !.trie = b, !.zgramInfos = Append(dyn.zgramInfos, info)]
  BY Zenon DEF AddZgram
<1>2. info.id = e.rec.id /\ info.location = e.location
  OBVIOUS
<1> HIDE DEF info, late
<1>3. CASE late
  BY <1>1, <1>3
<1>4. CASE ~late
  <2>1. PICK a, b : t = [dyn EXCEPT !.wordInfos = a, !.trie = b, !.zgramInfos = Append(dyn.zgramInfos, info)]
    BY <1>1, <1>4
  <2>2. Shape(t) /\ t.ok = dyn.ok /\ t.zgramInfos = Append(dyn.zgramInfos, info)
    BY <2>1 DEF Shape
  <2> QED BY <2>2, <1>2, <1>4 DEF JoinsInfo, Tells, late
<1> QED BY <1>3, <1>4

\* The dynamic index, unless it has failed, lists the zgrams of the entries.
ListsEntries(dyn, entries, n) ==
  /\ dyn.ok \in BOOLEAN
  /\ dyn.ok =>
       /\ Shape(dyn)
       /\ IsList(dyn.zgramInfos)
       /\ \A x \in Members(dyn.zgramInfos) : \E i \in 1..n : IsZgram(entries[i]) /\ Tells(x, entries[i])
       /\ \A i \in 1..n : IsZgram(entries[i]) => \E x \in Members(dyn.zgramInfos) : Tells(x, entries[i])
       /\ \A j, k \in DOMAIN dyn.zgramInfos : j < k => dyn.zgramInfos[j].id < dyn.zgramInfos[k].id

LEMMA EntryJoins ==
    ASSUME NEW entries, NEW n \in Nat \ {0}, NEW fz, NEW dyn, ListsEntries(dyn, entries, n - 1),
           \A i \in 1..n : IsZgram(entries[i]) => entries[i].rec.id \in Nat,
           NEW t, t = AddLogRecord(fz, dyn, entries[n])
    PROVE  ListsEntries(t, entries, n)
<1>1. 1..n = (1..(n - 1)) \cup {n}
  OBVIOUS
<1>2. CASE ~dyn.ok
  <2>1. t = dyn
    BY <1>2 DEF AddLogRecord
  <2> QED BY <2>1, <1>2 DEF ListsEntries
<1>3. CASE dyn.ok /\ ~IsZgram(entries[n])
  <2>1. t = [dyn EXCEPT !.metadata = AddMetadataRecord(fz, @, entries[n].rec)]
    BY <1>3 DEF AddLogRecord, IsZgram
  <2>2. Shape(dyn)
    BY <1>3 DEF ListsEntries
  <2>3. Shape(t) /\ t.ok = dyn.ok /\ t.zgramInfos = dyn.zgramInfos
    BY <2>1, <2>2 DEF Shape
  <2> QED BY <2>3, <1>1, <1>3 DEF ListsEntries
<1>4. CASE dyn.ok /\ IsZgram(entries[n])
  <2>1. t = AddZgram(fz, dyn, entries[n].rec, entries[n].location)
    BY <1>4 DEF AddLogRecord, IsZgram
  <2>2. Shape(dyn)
    BY <1>4 DEF ListsEntries
  <2>3. t = Failure \/ JoinsInfo(dyn, t, entries[n])
    BY <2>1, <2>2, AddZgramAppends
  <2>4. CASE t = Failure
    BY <2>4 DEF Failure, ListsEntries
  <2>5. CASE JoinsInfo(dyn, t, entries[n])
    <3>1. PICK info : Tells(info, entries[n]) /\ t.zgramInfos = Append(dyn.zgramInfos, info)
      BY <2>5 DEF JoinsInfo
    <3>2. PICK s : s = dyn.zgramInfos
      OBVIOUS
    <3>3. /\ IsList(s)
          /\ \A x \in Members(s) : \E i \in 1..(n - 1) : IsZgram(entries[i]) /\ Tells(x, entries[i])
          /\ \A i \in 1..(n - 1) : IsZgram(entries[i]) => \E x \in Members(s) : Tells(x, entries[i])
          /\ \A j, k \in DOMAIN s : j < k => s[j].id < s[k].id
      BY <1>4, <3>2 DEF ListsEntries
    <3>4. PICK u : u = t.zgramInfos
      OBVIOUS
    <3>5. /\ IsList(u) /\ Len(s) \in Nat /\ DOMAIN s = 1..Len(s) /\ DOMAIN u = 1..(Len(s) + 1)
          /\ \A k \in 1..Len(s) : u[k] = s[k]
          /\ u[Len(s) + 1] = info
          /\ Members(u) = Members(s) \cup {info}
      BY <3>1, <3>2, <3>3, <3>4, AppendToList
    <3>6. \A x \in Members(u) : \E i \in 1..n : IsZgram(entries[i]) /\ Tells(x, entries[i])
      BY <1>1, <1>4, <3>1, <3>3, <3>5
    <3>7. \A i \in 1..n : IsZgram(entries[i]) => \E x \in Members(u) : Tells(x, entries[i])
      BY <1>1, <3>1, <3>3, <3>5
    <3>8. \A x \in Members(u) : x.id \in Nat
      <4> SUFFICES ASSUME NEW x \in Members(u) PROVE x.id \in Nat
        OBVIOUS
      <4>1. PICK i \in 1..n : IsZgram(entries[i]) /\ Tells(x, entries[i])
        BY <3>6
      <4> QED BY <4>1 DEF Tells
    <3>9. ASSUME NEW k \in 1..Len(s) PROVE s[k].id < info.id
      <4>1. Len(s) \in 1..Len(s) /\ s # <<>>
        BY <3>5
      <4>2. Last(s) = s[Len(s)]
        BY DEF Last
      <4>3. ~(info.id <= s[Len(s)].id)
        BY <2>5, <3>1, <3>2, <4>1, <4>2 DEF JoinsInfo, Tells
      <4>4. s[k] \in Members(u) /\ s[Len(s)] \in Members(u) /\ info \in Members(u)
        BY <3>5, <4>1 DEF Members
      <4>5. k = Len(s) \/ s[k].id < s[Len(s)].id
        <5>1. Len(s) \in Nat
          BY <3>5
        <5>3. k = Len(s) \/ k < Len(s)
          BY <5>1
        <5>2. k \in DOMAIN s /\ Len(s) \in DOMAIN s
          BY <3>5, <4>1
        <5> QED BY <3>3, <5>2, <5>3
      <4> QED BY <3>8, <4>3, <4>4, <4>5
    <3>10. ASSUME NEW j \in DOMAIN u, NEW k \in DOMAIN u, j < k PROVE u[j].id < u[k].id
      <4>1. j \in 1..Len(s)
        BY <3>5, <3>10
      <4>2. CASE k \in 1..Len(s)
        BY <3>3, <3>5, <3>10, <4>1, <4>2
      <4>3. CASE k = Len(s) + 1
        BY <3>5, <3>9, <4>1, <4>3
      <4> QED BY <3>5, <4>2, <4>3
    <3>11. Shape(t) /\ t.ok \in BOOLEAN
      BY <2>5, <1>4 DEF JoinsInfo, ListsEntries
    <3> QED BY <3>4, <3>5, <3>6, <3>7, <3>10, <3>11 DEF ListsEntries
  <2> QED BY <2>3, <2>4, <2>5
<1>5. dyn.ok \in BOOLEAN
  BY DEF ListsEntries
<1> QED BY <1>2, <1>3, <1>4, <1>5

LEMMA EntriesJoin ==
    ASSUME NEW X, NEW entries \in Seq(X), NEW fz, NEW added, added = AddLogRecords(fz, EmptyIndex, entries),
           \A i \in DOMAIN entries : IsZgram(entries[i]) => entries[i].rec.id \in Nat
    PROVE  ListsEntries(added, entries, Len(entries))
<1>1. PICK acc : /\ acc[0] = EmptyIndex
                 /\ \A i \in 1..Len(entries) : acc[i] = AddLogRecord(fz, acc[i - 1], entries[i])
                 /\ added = acc[Len(entries)]
  BY IndexFolds
<1>2. Len(entries) \in Nat /\ DOMAIN entries = 1..Len(entries)
  OBVIOUS
<1> DEFINE Bad == {n \in 0..Len(entries) : ~ListsEntries(acc[n], entries, n)}
<1>3. ListsEntries(acc[0], entries, 0)
  <2>1. IsList(<<>>) /\ Members(<<>>) = {} /\ 1..0 = {} /\ DOMAIN <<>> = {}
    BY DEF IsList, Members
  <2> QED BY <1>1, <2>1 DEF EmptyIndex, ListsEntries, Shape
<1>4. Bad = {}
  <2> SUFFICES ASSUME Bad # {} PROVE FALSE
    OBVIOUS
  <2>1. PICK n \in Bad : \A m \in Bad : n <= m
    <3>1. Bad \in SUBSET Nat
      BY <1>2
    <3> HIDE DEF Bad
    <3> QED BY <3>1, SmallestElement
  <2>2. n # 0
    BY <1>3
  <2>3. n \in 1..Len(entries) /\ n - 1 \in 0..Len(entries) /\ ~(n <= n - 1) /\ n \in Nat \ {0}
    BY <1>2, <2>2
  <2>4. ListsEntries(acc[n - 1], entries, n - 1)
    BY <2>1, <2>3
  <2>5. \A i \in 1..n : IsZgram(entries[i]) => entries[i].rec.id \in Nat
    BY <1>2, <2>3
  <2>6. ListsEntries(acc[n], entries, n)
    BY <1>1, <2>3, <2>4, <2>5, EntryJoins
  <2> QED BY <2>1, <2>6
<1> QED BY <1>1, <1>2, <1>4

-------------------------------------------------------------------------------
(* What a bootstrap reads                                                      *)

LEMMA RestOfLog ==
    ASSUME NEW l \in Seq(LogEntry), NEW a \in 0..Len(l), NEW b \in a..Len(l)
    PROVE  /\ SubSeq(l, a + 1, b) \in Seq(LogEntry)
           /\ Len(SubSeq(l, a + 1, b)) = b - a
           /\ \A i \in 1..(b - a) : SubSeq(l, a + 1, b)[i] = l[a + i]
<1>1. Len(l) \in Nat /\ \A i \in (a + 1)..b : l[i] \in LogEntry
  BY LenProperties
<1>2. a \in Nat /\ b \in Nat /\ a <= b
  BY <1>1
<1>3. /\ SubSeq(l, a + 1, b) \in Seq(LogEntry)
      /\ Len(SubSeq(l, a + 1, b)) = IF a + 1 <= b THEN b - (a + 1) + 1 ELSE 0
      /\ \A i \in 1..(b - (a + 1) + 1) : SubSeq(l, a + 1, b)[i] = l[(a + 1) + i - 1]
  BY <1>1, <1>2, SubSeqProperties
<1>4. \A i \in 1..(b - a) : i \in 1..(b - (a + 1) + 1) /\ (a + 1) + i - 1 = a + i
  BY <1>2
<1> QED BY <1>2, <1>3, <1>4

LEMMA DynamicRecordsRead ==
    ASSUME IsLog(log), NEW end \in 0..Len(log)
    PROVE  /\ DynamicRecords(end) \in Seq(LogEntry)
           /\ Members(DynamicRecords(end)) = {log[i] : i \in (end + 1)..Len(log)}
<1>1. log \in Seq(LogEntry) /\ Len(log) \in Nat /\ DOMAIN log = 1..Len(log) /\ end \in Nat
  BY DEF IsLog
<1>2. PICK rest : rest = SubSeq(log, end + 1, Len(log))
  OBVIOUS
<1>3. rest \in Seq(LogEntry) /\ Members(rest) = {log[i] : i \in (end + 1)..Len(log)}
  <2>1. /\ rest \in Seq(LogEntry) /\ Len(rest) = Len(log) - end
        /\ \A i \in 1..(Len(log) - end) : rest[i] = log[end + i]
    <3>1. Len(log) \in end..Len(log)
      BY <1>1
    <3> QED BY <1>1, <1>2, <3>1, RestOfLog
  <2>2. DOMAIN rest = 1..(Len(log) - end)
    BY <2>1
  <2>3. ASSUME NEW i \in (end + 1)..Len(log) PROVE \E k \in DOMAIN rest : rest[k] = log[i]
    <3>1. PICK k \in Nat : k = i - end
      BY <1>1
    <3>2. k \in 1..(Len(log) - end) /\ end + k = i
      BY <1>1, <3>1
    <3> QED BY <2>1, <2>2, <3>2
  <2>4. ASSUME NEW k \in DOMAIN rest PROVE \E i \in (end + 1)..Len(log) : rest[k] = log[i]
    <3>1. end + k \in (end + 1)..Len(log)
      BY <1>1, <2>2
    <3> QED BY <2>1, <2>2, <3>1
  <2> QED BY <2>1, <2>3, <2>4 DEF Members
<1> DEFINE isLogged == {i \in DOMAIN rest : rest[i].logged}
           isNot == {i \in DOMAIN rest : ~rest[i].logged}
<1>4. PICK inFiles : inFiles = RowsAt(rest, isLogged) \o RowsAt(rest, isNot)
  OBVIOUS
<1>5. inFiles \in Seq(LogEntry) /\ Members(inFiles) = Members(rest)
  <2>1. isLogged \in SUBSET DOMAIN rest /\ isNot \in SUBSET DOMAIN rest /\ isLogged \cup isNot = DOMAIN rest
    OBVIOUS
  <2> HIDE DEF isLogged, isNot
  <2>2. /\ RowsAt(rest, isLogged) \in Seq(LogEntry) /\ Members(RowsAt(rest, isLogged)) = {rest[i] : i \in isLogged}
        /\ RowsAt(rest, isNot) \in Seq(LogEntry) /\ Members(RowsAt(rest, isNot)) = {rest[i] : i \in isNot}
    BY <1>3, <2>1, RowsAtMembers
  <2>3. IsList(RowsAt(rest, isLogged)) /\ IsList(RowsAt(rest, isNot))
    BY <2>2, SequencesAreLists
  <2>4. Members(inFiles) = Members(RowsAt(rest, isLogged)) \cup Members(RowsAt(rest, isNot))
    BY <1>4, <2>3, ConcatLists
  <2>5. Members(inFiles) = Members(rest)
    BY <2>1, <2>2, <2>4 DEF Members
  <2> QED BY <1>4, <2>2, <2>5, ConcatProperties
<1>6. Len(inFiles) \in Nat /\ DOMAIN inFiles = 1..Len(inFiles)
  BY <1>5
<1>7. \A i \in DOMAIN inFiles : IsZgram(inFiles[i]) => inFiles[i].rec.id \in Nat
  <2> SUFFICES ASSUME NEW i \in DOMAIN inFiles, IsZgram(inFiles[i]) PROVE inFiles[i].rec.id \in Nat
    OBVIOUS
  <2>1. PICK k \in (end + 1)..Len(log) : inFiles[i] = log[k]
    <3>1. inFiles[i] \in Members(rest)
      BY <1>5 DEF Members
    <3> QED BY <3>1, <1>3
  <2>2. k \in ZgramsAt(log)
    BY <2>1, <1>1 DEF IsZgram, ZgramsAt
  <2> QED BY <2>1, <2>2 DEF IsLog
<1> DEFINE key(i) == IF IsZgram(inFiles[i]) THEN <<0, inFiles[i].rec.id, i>> ELSE <<1, 0, i>>
           keyed == [i \in DOMAIN inFiles |-> key(i)]
           sorted == StableSort(keyed, <<1, 2>>)
           entries == [i \in DOMAIN sorted |-> inFiles[sorted[i][3]]]
<1>8. DynamicRecords(end) = entries
  BY <1>2, <1>4 DEF DynamicRecords
<1>9. \A i \in DOMAIN inFiles : key(i)[1] \in Int /\ key(i)[2] \in Int /\ key(i)[3] = i
  BY <1>6, <1>7
<1> HIDE DEF key
<1>10. IsList(keyed) /\ Members(keyed) = {key(i) : i \in DOMAIN inFiles}
  <2>1. keyed = [i \in 1..Len(inFiles) |-> keyed[i]]
    BY <1>6
  <2>2. DOMAIN keyed = DOMAIN inFiles /\ \A i \in DOMAIN inFiles : keyed[i] = key(i)
    OBVIOUS
  <2> HIDE DEF keyed
  <2>3. IsList(keyed)
    BY <1>6, <2>1, EvaluatedIsIt
  <2> QED BY <2>2, <2>3 DEF Members
<1> HIDE DEF keyed
<1>11. KeysAreNumbers(Members(keyed), <<1, 2>>)
  <2>1. \A w \in Members(keyed) : w[1] \in Int /\ w[2] \in Int
    BY <1>9, <1>10
  <2>2. DOMAIN <<1, 2>> = {1, 2} /\ <<1, 2>>[1] = 1 /\ <<1, 2>>[2] = 2
    OBVIOUS
  <2> QED BY <2>1, <2>2 DEF KeysAreNumbers
<1>12. sorted \in Seq(Members(keyed)) /\ Members(sorted) = Members(keyed)
  <2>1. keyed \in Seq(Members(keyed)) /\ <<1, 2>> \in Seq(Nat)
    BY <1>10 DEF IsList
  <2> QED BY <2>1, <1>11, SortMembers
<1> HIDE DEF sorted
<1>13. Len(sorted) \in Nat /\ DOMAIN sorted = 1..Len(sorted)
  BY <1>12
<1>14. \A p \in DOMAIN sorted : sorted[p][3] \in DOMAIN inFiles
  <2> SUFFICES ASSUME NEW p \in DOMAIN sorted PROVE sorted[p][3] \in DOMAIN inFiles
    OBVIOUS
  <2>1. sorted[p] \in Members(keyed)
    BY <1>12 DEF Members
  <2> QED BY <2>1, <1>9, <1>10
<1>15. ASSUME NEW i \in DOMAIN inFiles PROVE \E p \in DOMAIN sorted : sorted[p][3] = i
  <2>1. key(i) \in Members(sorted)
    BY <1>10, <1>12
  <2>2. PICK p \in DOMAIN sorted : sorted[p] = key(i)
    BY <2>1 DEF Members
  <2> QED BY <2>2, <1>9
<1>16. DOMAIN entries = DOMAIN sorted /\ \A p \in DOMAIN sorted : entries[p] = inFiles[sorted[p][3]]
  OBVIOUS
<1>17. entries \in Seq(LogEntry)
  <2>1. entries \in [1..Len(sorted) -> LogEntry]
    BY <1>5, <1>13, <1>14
  <2> QED BY <2>1, <1>13
<1> HIDE DEF entries
<1>18. Members(entries) = Members(inFiles)
  <2>1. \A x \in Members(entries) : x \in Members(inFiles)
    BY <1>14, <1>16 DEF Members
  <2>2. \A x \in Members(inFiles) : x \in Members(entries)
    BY <1>15, <1>16 DEF Members
  <2> QED BY <2>1, <2>2
<1> QED BY <1>3, <1>5, <1>8, <1>17, <1>18

LEMMA BootstrapLists ==
    ASSUME IsLog(log), NEW end \in 0..Len(log), NEW fz,
           NEW added, added = AddLogRecords(fz, EmptyIndex, DynamicRecords(end))
    PROVE  /\ added.ok \in BOOLEAN
           /\ added.ok => Shape(added) /\ Lists(added.zgramInfos, log, end, Len(log))
<1>1. PICK entries : entries = DynamicRecords(end)
  OBVIOUS
<1>2. entries \in Seq(LogEntry) /\ Members(entries) = {log[i] : i \in (end + 1)..Len(log)}
  BY <1>1, DynamicRecordsRead
<1>3. log \in Seq(LogEntry) /\ Len(log) \in Nat /\ DOMAIN log = 1..Len(log) /\ end \in Nat
  BY DEF IsLog
<1>4. DOMAIN entries = 1..Len(entries)
  BY <1>2
<1>5. ASSUME NEW i \in DOMAIN entries, IsZgram(entries[i])
      PROVE  \E k \in ZgramsAt(log) : k \in (end + 1)..Len(log) /\ entries[i] = log[k]
  <2>1. PICK k \in (end + 1)..Len(log) : entries[i] = log[k]
    BY <1>2 DEF Members
  <2>2. k \in ZgramsAt(log)
    BY <1>3, <1>5, <2>1 DEF IsZgram, ZgramsAt
  <2> QED BY <2>1, <2>2
<1>6. \A i \in DOMAIN entries : IsZgram(entries[i]) => entries[i].rec.id \in Nat
  BY <1>5 DEF IsLog
<1>7. ListsEntries(added, entries, Len(entries))
  BY <1>1, <1>2, <1>6, EntriesJoin
<1>8. ASSUME added.ok PROVE Shape(added) /\ Lists(added.zgramInfos, log, end, Len(log))
  <2>1. PICK s : s = added.zgramInfos
    OBVIOUS
  <2>2. /\ Shape(added)
        /\ IsList(s)
        /\ \A x \in Members(s) : \E i \in DOMAIN entries : IsZgram(entries[i]) /\ Tells(x, entries[i])
        /\ \A i \in DOMAIN entries : IsZgram(entries[i]) => \E x \in Members(s) : Tells(x, entries[i])
        /\ \A j, k \in DOMAIN s : j < k => s[j].id < s[k].id
    BY <1>4, <1>7, <1>8, <2>1 DEF ListsEntries
  <2>3. \A x \in Members(s) : \E k \in ZgramsAt(log) : k \in (end + 1)..Len(log) /\ Tells(x, log[k])
    BY <1>5, <2>2
  <2>4. ASSUME NEW k \in ZgramsAt(log), k \in (end + 1)..Len(log)
        PROVE  \E x \in Members(s) : Tells(x, log[k])
    <3>1. log[k] \in Members(entries)
      BY <1>2, <2>4
    <3>2. PICK i \in DOMAIN entries : entries[i] = log[k]
      BY <3>1 DEF Members
    <3>3. IsZgram(entries[i])
      BY <2>4, <3>2 DEF IsZgram, ZgramsAt
    <3> QED BY <2>2, <3>2, <3>3
  <2> QED BY <2>1, <2>2, <2>3, <2>4 DEF Lists
<1> QED BY <1>7, <1>8 DEF ListsEntries

-------------------------------------------------------------------------------
(* Finding a zgram                                                             *)

LEMMA LowerBounds ==
    ASSUME NEW infos, IsList(infos), \A k \in DOMAIN infos : infos[k].id \in Int,
           \A j, k \in DOMAIN infos : j < k => infos[j].id < infos[k].id,
           NEW id \in Int
    PROVE  /\ LowerBound(infos, id) \in 0..Len(infos)
           /\ \A k \in DOMAIN infos : infos[k].id = id => LowerBound(infos, id) = k - 1
           /\ (\A k \in DOMAIN infos : infos[k].id < id) => LowerBound(infos, id) = Len(infos)
<1> DEFINE S == {i \in DOMAIN infos : \A j \in 1..i : infos[j].id < id}
           n == Len(infos)
<1>1. n \in Nat /\ DOMAIN infos = 1..n
  BY DEF IsList
<1>2. LowerBound(infos, id) = Cardinality(S)
  BY DEF LowerBound
<1>3. \A i : i \in S <=> i \in DOMAIN infos /\ \A j \in 1..i : infos[j].id < id
  OBVIOUS
<1> HIDE DEF S, n
<1>4. Cardinality(S) \in 0..n
  <2>1. S \subseteq 1..n /\ IsFiniteSet(1..n) /\ Cardinality(1..n) = n
    BY <1>1, <1>3, FS_Interval
  <2>2. IsFiniteSet(S) /\ Cardinality(S) <= n
    BY <2>1, FS_Subset
  <2>3. Cardinality(S) \in Nat
    BY <2>2, FS_CardinalityType
  <2> QED BY <1>1, <2>2, <2>3
<1>5. ASSUME NEW k \in DOMAIN infos, infos[k].id = id PROVE Cardinality(S) = k - 1
  <2>1. ASSUME NEW i \in 1..(k - 1) PROVE i \in S
    <3>1. i \in DOMAIN infos /\ \A j \in 1..i : j \in DOMAIN infos /\ j < k
      BY <1>1
    <3>2. \A j \in 1..i : infos[j].id < id
      BY <3>1, <1>5
    <3> QED BY <1>3, <3>1, <3>2
  <2>2. ASSUME NEW i \in S PROVE i \in 1..(k - 1)
    <3> SUFFICES ASSUME i \notin 1..(k - 1) PROVE FALSE
      OBVIOUS
    <3>1. k \in 1..i
      BY <1>1, <1>3
    <3>2. infos[k].id < id
      BY <1>3, <3>1
    <3> QED BY <3>2, <1>5
  <2>3. S = 1..(k - 1)
    BY <2>1, <2>2
  <2>4. k - 1 \in Nat
    BY <1>1
  <2> QED BY <2>3, <2>4, FS_Interval
<1>6. ASSUME \A k \in DOMAIN infos : infos[k].id < id PROVE Cardinality(S) = n
  <2>1. \A i \in DOMAIN infos : \A j \in 1..i : j \in DOMAIN infos
    BY <1>1
  <2>2. S = 1..n
    BY <1>1, <1>3, <1>6, <2>1
  <2> QED BY <2>2, <1>1, FS_Interval
<1> QED BY <1>2, <1>4, <1>5, <1>6 DEF n

LEMMA FoundIsIt ==
    ASSUME NEW fz, IsList(fz.zgramInfos), NEW dyn, IsList(dyn.zgramInfos), NEW id,
           FindZgram(fz, dyn, id) # 0
    PROVE  /\ FindZgram(fz, dyn, id) \in DOMAIN ZgramInfos(fz, dyn)
           /\ ZgramInfos(fz, dyn)[FindZgram(fz, dyn, id)].id = id
<1>1. PICK infos : infos = ZgramInfos(fz, dyn)
  OBVIOUS
<1>2. PICK lb : lb = LowerBoundOff(fz, dyn, id)
  OBVIOUS
<1>3. lb < Len(infos) /\ infos[lb + 1].id = id /\ FindZgram(fz, dyn, id) = lb + 1
  BY <1>1, <1>2 DEF FindZgram
<1>4. /\ Len(infos) \in Nat /\ DOMAIN infos = 1..Len(infos)
      /\ DOMAIN fz.zgramInfos = 1..Len(fz.zgramInfos) /\ DOMAIN dyn.zgramInfos = 1..Len(dyn.zgramInfos)
      /\ Len(fz.zgramInfos) \in Nat /\ Len(dyn.zgramInfos) \in Nat
  BY <1>1, ConcatLists DEF ZgramInfos
<1>5. ASSUME NEW s, NEW n \in Nat, DOMAIN s = 1..n PROVE LowerBound(s, id) \in Nat
  <2> DEFINE S == {i \in DOMAIN s : \A j \in 1..i : s[j].id < id}
  <2>1. S \subseteq 1..n
    BY <1>5
  <2>2. LowerBound(s, id) = Cardinality(S)
    BY DEF LowerBound
  <2> HIDE DEF S
  <2>3. IsFiniteSet(1..n)
    BY FS_Interval
  <2>4. IsFiniteSet(S)
    BY <2>1, <2>3, FS_Subset
  <2> QED BY <2>2, <2>4, FS_CardinalityType
<1>6. lb \in Nat
  <2>1. LowerBound(fz.zgramInfos, id) \in Nat /\ LowerBound(dyn.zgramInfos, id) \in Nat
    BY <1>4, <1>5
  <2> QED BY <2>1, <1>2 DEF LowerBoundOff
<1>7. lb + 1 \in DOMAIN infos
  BY <1>3, <1>4, <1>6
<1> QED BY <1>1, <1>3, <1>7

\* The two indexes together list the zgrams of the log.
Indexes(fz, dyn, l, end) ==
  /\ end \in 0..Len(l)
  /\ Lists(fz.zgramInfos, l, 0, end)
  /\ Lists(dyn.zgramInfos, l, end, Len(l))

LEMMA IndexesTell ==
    ASSUME NEW l, IsLog(l), NEW end, NEW fz, NEW dyn, Indexes(fz, dyn, l, end),
           NEW infos, infos = ZgramInfos(fz, dyn)
    PROVE  /\ IsList(fz.zgramInfos) /\ IsList(dyn.zgramInfos) /\ IsList(infos)
           /\ Members(infos) = Members(fz.zgramInfos) \cup Members(dyn.zgramInfos)
           /\ \A x \in Members(infos) : \E i \in ZgramsAt(l) : Tells(x, l[i])
           /\ \A i \in ZgramsAt(l) : \E x \in Members(infos) : Tells(x, l[i])
           /\ \A x \in Members(fz.zgramInfos), y \in Members(dyn.zgramInfos) : x.id \in Nat /\ y.id \in Nat /\ x.id < y.id
<1>1. /\ l \in Seq(LogEntry) /\ Len(l) \in Nat /\ DOMAIN l = 1..Len(l) /\ end \in Nat
      /\ \A i \in ZgramsAt(l) : i \in 1..Len(l) /\ l[i].rec.id \in Nat
  BY DEF IsLog, Indexes, ZgramsAt
<1>2. IsList(fz.zgramInfos) /\ IsList(dyn.zgramInfos)
  BY DEF Indexes, Lists
<1>3. IsList(infos) /\ Members(infos) = Members(fz.zgramInfos) \cup Members(dyn.zgramInfos)
  BY <1>2, ConcatLists DEF ZgramInfos
<1>4. \A x \in Members(fz.zgramInfos) : \E i \in ZgramsAt(l) : i \in (0 + 1)..end /\ Tells(x, l[i])
  BY DEF Indexes, Lists
<1>5. \A x \in Members(dyn.zgramInfos) : \E i \in ZgramsAt(l) : i \in (end + 1)..Len(l) /\ Tells(x, l[i])
  BY DEF Indexes, Lists
<1>6. ASSUME NEW i \in ZgramsAt(l) PROVE \E x \in Members(infos) : Tells(x, l[i])
  <2>1. i \in (0 + 1)..end \/ i \in (end + 1)..Len(l)
    BY <1>1 DEF Indexes
  <2>2. CASE i \in (0 + 1)..end
    BY <2>2, <1>3 DEF Indexes, Lists
  <2>3. CASE i \in (end + 1)..Len(l)
    BY <2>3, <1>3 DEF Indexes, Lists
  <2> QED BY <2>1, <2>2, <2>3
<1>7. ASSUME NEW x \in Members(fz.zgramInfos), NEW y \in Members(dyn.zgramInfos)
      PROVE  x.id \in Nat /\ y.id \in Nat /\ x.id < y.id
  <2>1. PICK i \in ZgramsAt(l) : i \in (0 + 1)..end /\ Tells(x, l[i])
    BY <1>4
  <2>2. PICK j \in ZgramsAt(l) : j \in (end + 1)..Len(l) /\ Tells(y, l[j])
    BY <1>5
  <2>3. i < j
    BY <1>1, <2>1, <2>2
  <2>4. l[i].rec.id < l[j].rec.id
    BY <2>3 DEF IsLog
  <2> QED BY <1>1, <2>1, <2>2, <2>4 DEF Tells
<1>8. \A x \in Members(infos) : \E i \in ZgramsAt(l) : Tells(x, l[i])
  BY <1>3, <1>4, <1>5
<1> QED BY <1>2, <1>3, <1>6, <1>7, <1>8

LEMMA ZgramIsFound ==
    ASSUME NEW l, IsLog(l), NEW end, NEW fz, NEW dyn, Indexes(fz, dyn, l, end), NEW i \in ZgramsAt(l)
    PROVE  FindZgram(fz, dyn, l[i].rec.id) # 0
<1>1. PICK infos, a, b, id : /\ infos = ZgramInfos(fz, dyn) /\ a = fz.zgramInfos /\ b = dyn.zgramInfos
                             /\ id = l[i].rec.id
  OBVIOUS
<1>2. /\ IsList(a) /\ IsList(b)
      /\ Members(infos) = Members(a) \cup Members(b)
      /\ \A x \in Members(infos) : \E j \in ZgramsAt(l) : Tells(x, l[j])
      /\ \E x \in Members(infos) : Tells(x, l[i])
      /\ \A x \in Members(a), y \in Members(b) : x.id \in Nat /\ y.id \in Nat /\ x.id < y.id
  BY <1>1, IndexesTell
<1>3. /\ Len(a) \in Nat /\ DOMAIN a = 1..Len(a)
      /\ Len(b) \in Nat /\ DOMAIN b = 1..Len(b)
      /\ Len(infos) = Len(a) + Len(b)
      /\ \A k \in 1..Len(a) : infos[k] = a[k]
      /\ \A k \in 1..Len(b) : infos[Len(a) + k] = b[k]
  <2>1. infos = a \o b
    BY <1>1 DEF ZgramInfos
  <2> QED BY <2>1, <1>2, ConcatLists
<1>4. id \in Nat
  BY <1>1 DEF IsLog
<1>5. \A x \in Members(infos) : x.id \in Nat
  BY <1>2 DEF Tells, IsLog
<1>6. (\A k \in DOMAIN a : a[k] \in Members(a) /\ a[k].id \in Int) /\ (\A k \in DOMAIN b : b[k] \in Members(b) /\ b[k].id \in Int)
  <2>1. (\A k \in DOMAIN a : a[k] \in Members(a)) /\ (\A k \in DOMAIN b : b[k] \in Members(b))
    BY DEF Members
  <2> QED BY <1>2, <1>5, <2>1
<1>7. /\ \A j, k \in DOMAIN a : j < k => a[j].id < a[k].id
      /\ \A j, k \in DOMAIN b : j < k => b[j].id < b[k].id
  BY <1>1 DEF Indexes, Lists
<1>8. /\ LowerBound(a, id) \in 0..Len(a)
      /\ \A k \in DOMAIN a : a[k].id = id => LowerBound(a, id) = k - 1
      /\ (\A k \in DOMAIN a : a[k].id < id) => LowerBound(a, id) = Len(a)
  BY <1>2, <1>4, <1>6, <1>7, LowerBounds
<1>9. \A k \in DOMAIN b : b[k].id = id => LowerBound(b, id) = k - 1
  BY <1>2, <1>4, <1>6, <1>7, LowerBounds
<1>10. PICK lb : lb = LowerBoundOff(fz, dyn, id)
  OBVIOUS
<1>11. lb = IF LowerBound(a, id) < Len(a) THEN LowerBound(a, id) ELSE LowerBound(a, id) + LowerBound(b, id)
  BY <1>1, <1>10 DEF LowerBoundOff
<1>12. PICK x \in Members(a) \cup Members(b) : x.id = id
  BY <1>1, <1>2 DEF Tells
<1>13. CASE x \in Members(a)
  <2>1. PICK k \in DOMAIN a : x = a[k]
    BY <1>13 DEF Members
  <2>2. LowerBound(a, id) = k - 1
    BY <1>8, <1>12, <2>1
  <2>3. lb = k - 1 /\ lb < Len(infos) /\ lb + 1 = k
    BY <1>3, <1>11, <2>1, <2>2
  <2>4. infos[lb + 1].id = id
    BY <1>3, <1>12, <2>1, <2>3
  <2>5. FindZgram(fz, dyn, id) = k
    BY <1>1, <1>10, <2>3, <2>4 DEF FindZgram
  <2> QED BY <1>1, <1>3, <2>5
<1>14. CASE x \in Members(b)
  <2>1. PICK k \in DOMAIN b : x = b[k]
    BY <1>14 DEF Members
  <2>2. \A j \in DOMAIN a : a[j].id < id
    BY <1>2, <1>6, <1>12, <1>14
  <2>3. LowerBound(a, id) = Len(a)
    BY <1>8, <2>2
  <2>4. LowerBound(b, id) = k - 1
    BY <1>9, <1>12, <2>1
  <2>5. lb = Len(a) + k - 1 /\ lb < Len(infos) /\ lb + 1 = Len(a) + k
    BY <1>3, <1>11, <2>1, <2>3, <2>4
  <2>6. infos[lb + 1].id = id
    BY <1>3, <1>12, <2>1, <2>5
  <2>7. FindZgram(fz, dyn, id) = lb + 1
    BY <1>1, <1>10, <2>5, <2>6 DEF FindZgram
  <2> QED BY <1>1, <1>3, <2>5, <2>7
<1> QED BY <1>12, <1>13, <1>14

\* What is found of an identifier tells a zgram of the log, which has it.
LEMMA FoundTells ==
    ASSUME NEW l, IsLog(l), NEW end, NEW fz, NEW dyn, Indexes(fz, dyn, l, end), NEW id,
           FindZgram(fz, dyn, id) # 0, NEW info, info = ZgramInfos(fz, dyn)[FindZgram(fz, dyn, id)]
    PROVE  info.id = id /\ \E i \in ZgramsAt(l) : Tells(info, l[i])
<1>1. IsList(fz.zgramInfos) /\ IsList(dyn.zgramInfos)
  BY IndexesTell
<1>2. info \in Members(ZgramInfos(fz, dyn)) /\ info.id = id
  BY <1>1, FoundIsIt DEF Members
<1> QED BY <1>2, IndexesTell

-------------------------------------------------------------------------------
(* The cache                                                                   *)

\* The cache holds zgrams of the log, and no more than it may.
CacheHolds(c, l) ==
  /\ IsFiniteSet(DOMAIN c) /\ Cardinality(DOMAIN c) <= CacheCapacity
  /\ \A id \in DOMAIN c : \E i \in ZgramsAt(l) : l[i].rec.id = id /\ c[id] = l[i].rec

LEMMA PutKeeps ==
    ASSUME NEW l, NEW c, IsFiniteSet(DOMAIN c), Cardinality(DOMAIN c) < CacheCapacity,
           \A id \in DOMAIN c : \E i \in ZgramsAt(l) : l[i].rec.id = id /\ c[id] = l[i].rec,
           NEW i \in ZgramsAt(l), NEW d, d = Put(c, l[i].rec.id, l[i].rec)
    PROVE  CacheHolds(d, l)
<1>1. DOMAIN d = DOMAIN c \cup {l[i].rec.id}
  BY DEF Put
<1>2. IsFiniteSet(DOMAIN d) /\ Cardinality(DOMAIN d) <= Cardinality(DOMAIN c) + 1
  <2>1. /\ IsFiniteSet(DOMAIN d)
        /\ Cardinality(DOMAIN d) = IF l[i].rec.id \in DOMAIN c THEN Cardinality(DOMAIN c) ELSE Cardinality(DOMAIN c) + 1
    BY <1>1, FS_AddElement
  <2>2. Cardinality(DOMAIN c) \in Nat
    BY FS_CardinalityType
  <2> QED BY <2>1, <2>2
<1>3. Cardinality(DOMAIN d) <= CacheCapacity
  <2>1. Cardinality(DOMAIN c) \in Nat /\ Cardinality(DOMAIN d) \in Nat /\ CacheCapacity \in Nat
    BY <1>2, FS_CardinalityType, CapacityAssumption
  <2> QED BY <1>2, <2>1
<1>4. ASSUME NEW id \in DOMAIN d PROVE \E j \in ZgramsAt(l) : l[j].rec.id = id /\ d[id] = l[j].rec
  <2>1. CASE id = l[i].rec.id
    <3>1. d[id] = l[i].rec
      BY <2>1, <1>1 DEF Put
    <3> QED BY <2>1, <3>1
  <2>2. CASE id # l[i].rec.id
    <3>1. id \in DOMAIN c
      BY <2>2, <1>1
    <3>2. d[id] = c[id]
      BY <2>2, <1>1 DEF Put
    <3> QED BY <3>1, <3>2
  <2> QED BY <2>1, <2>2
<1> QED BY <1>2, <1>3, <1>4 DEF CacheHolds

LEMMA CachedHolds ==
    ASSUME NEW l, IsLog(l), NEW c, CacheHolds(c, l), NEW i \in ZgramsAt(l), NEW d, d = Cached(c, l[i].rec)
    PROVE  CacheHolds(d, l)
<1>1. /\ IsFiniteSet(DOMAIN c) /\ Cardinality(DOMAIN c) \in Nat /\ CacheCapacity \in Nat
      /\ Cardinality(DOMAIN c) <= CacheCapacity
      /\ \A id \in DOMAIN c : \E j \in ZgramsAt(l) : l[j].rec.id = id /\ c[id] = l[j].rec
  BY CapacityAssumption, FS_CardinalityType DEF CacheHolds
<1>2. CASE Cardinality(DOMAIN c) < CacheCapacity
  <2>1. d = Put(c, l[i].rec.id, l[i].rec)
    BY <1>2 DEF Cached
  <2> QED BY <2>1, <1>1, <1>2, PutKeeps
<1>3. CASE ~(Cardinality(DOMAIN c) < CacheCapacity)
  <2>1. PICK oldest : oldest = Ascending(DOMAIN c)[1]
    OBVIOUS
  <2> DEFINE rest == [id \in DOMAIN c \ {oldest} |-> c[id]]
             full == DOMAIN c # {} /\ oldest < l[i].rec.id
  <2>2. d = IF full THEN Put(rest, l[i].rec.id, l[i].rec) ELSE c
    BY <1>3, <2>1 DEF Cached
  <2>3. DOMAIN rest = DOMAIN c \ {oldest} /\ \A id \in DOMAIN rest : rest[id] = c[id]
    OBVIOUS
  <2> HIDE DEF rest
  <2>4. CASE ~full
    BY <2>2, <2>4
  <2>5. CASE full
    <3>1. DOMAIN c \in SUBSET Int
      <4> SUFFICES ASSUME NEW id \in DOMAIN c PROVE id \in Int
        OBVIOUS
      <4>1. PICK j \in ZgramsAt(l) : l[j].rec.id = id
        BY <1>1
      <4> QED BY <4>1 DEF IsLog
    <3>2. Cardinality(DOMAIN c) # 0
      BY <2>5, <1>1, FS_EmptySet
    <3>3. Ascending(DOMAIN c) \in [1..Cardinality(DOMAIN c) -> DOMAIN c]
      BY <1>1, <3>1, AscendingLists
    <3>4. oldest \in DOMAIN c
      <4>1. 1 \in 1..Cardinality(DOMAIN c)
        BY <1>1, <3>2
      <4> QED BY <2>1, <3>3, <4>1
    <3>5. IsFiniteSet(DOMAIN rest) /\ Cardinality(DOMAIN rest) = Cardinality(DOMAIN c) - 1
      BY <1>1, <2>3, <3>4, FS_RemoveElement
    <3>6. Cardinality(DOMAIN rest) < CacheCapacity
      BY <1>1, <3>5
    <3>7. \A id \in DOMAIN rest : \E j \in ZgramsAt(l) : l[j].rec.id = id /\ rest[id] = l[j].rec
      BY <1>1, <2>3
    <3>8. d = Put(rest, l[i].rec.id, l[i].rec)
      BY <2>2, <2>5
    <3> QED BY <3>5, <3>6, <3>7, <3>8, PutKeeps
  <2> QED BY <2>4, <2>5
<1> QED BY <1>2, <1>3

LEMMA ZgramIsThere ==
    ASSUME NEW l, IsLog(l), NEW i \in ZgramsAt(l)
    PROVE  ZgramAt(l, l[i].location) = l[i].rec
<1>1. l \in Seq(LogEntry) /\ i \in DOMAIN l /\ l[i].location = Placed(l, i)
  BY DEF IsLog, ZgramsAt
<1>2. PICK f : f = l[i].location
  OBVIOUS
<1>3. FileAt(l, f) = FileAt(l, l[i]) /\ i \in FileAt(l, f) /\ f.offset = Below(FileAt(l, f), i)
  BY <1>1, <1>2 DEF FileAt, Placed
<1>4. Picks(FileText(l, f), l, FileAt(l, f))
  BY <1>1, FileTextHolds
<1>5. FileText(l, f)[f.offset + 1] = l[i]
  BY <1>3, <1>4 DEF Picks
<1> QED BY <1>2, <1>5 DEF ZgramAt

\* A look-up leaves the cache as it should be.
LEMMA LookUpHolds ==
    ASSUME NEW l, IsLog(l), NEW c, CacheHolds(c, l), NEW infos, IsList(infos),
           \A k \in DOMAIN infos : \E i \in ZgramsAt(l) : Tells(infos[k], l[i])
    PROVE  CacheHolds(LookupOrResolve(c, l, infos).cache, l)
<1>1. Len(infos) \in Nat /\ DOMAIN infos = 1..Len(infos)
  BY DEF IsList
<1>2. \A k \in DOMAIN infos : infos[k].location \in Locations
  <2> SUFFICES ASSUME NEW k \in DOMAIN infos PROVE infos[k].location \in Locations
    OBVIOUS
  <2>1. PICK i \in ZgramsAt(l) : Tells(infos[k], l[i])
    OBVIOUS
  <2>2. l[i] \in LogEntry
    BY DEF IsLog, ZgramsAt
  <2> QED BY <2>1, <2>2 DEF Tells, LogEntry
<1> DEFINE hit(k) == infos[k].id \in DOMAIN c
           key(k) == <<IF hit(k) THEN 0 ELSE 1, infos[k].location.day, IF infos[k].location.logged THEN 0 ELSE 1, k>>
           keyed == [k \in 1..Len(infos) |-> key(k)]
           todo == StableSort(keyed, <<1, 2, 3>>)
           misses == {t \in DOMAIN todo : todo[t][1] = 1}
           read == RowsAt(todo, misses)
<1>3. LookupOrResolve(c, l, infos).cache = CacheOf(l, infos, c, read)
  <2>1. \E z : LookupOrResolve(c, l, infos) = [zgrams |-> z, cache |-> CacheOf(l, infos, c, read)]
    BY Zenon DEF LookupOrResolve, CacheOf
  <2> HIDE DEF read
  <2> QED BY <2>1
<1>4. \A k \in 1..Len(infos) : key(k)[1] \in Int /\ key(k)[2] \in Int /\ key(k)[3] \in Int /\ key(k)[4] = k
  BY <1>1, <1>2 DEF Locations
<1> HIDE DEF key
<1>5. IsList(keyed) /\ Members(keyed) = {key(k) : k \in 1..Len(infos)}
  <2>1. keyed = [k \in 1..Len(infos) |-> keyed[k]] /\ \A k \in 1..Len(infos) : keyed[k] = key(k)
    OBVIOUS
  <2> HIDE DEF keyed
  <2>2. IsList(keyed) /\ DOMAIN keyed = 1..Len(infos)
    BY <1>1, <2>1, EvaluatedIsIt
  <2> QED BY <2>1, <2>2 DEF Members
<1> HIDE DEF keyed
<1>6. KeysAreNumbers(Members(keyed), <<1, 2, 3>>)
  <2>1. \A w \in Members(keyed) : w[1] \in Int /\ w[2] \in Int /\ w[3] \in Int
    BY <1>4, <1>5
  <2>2. DOMAIN <<1, 2, 3>> = {1, 2, 3} /\ <<1, 2, 3>>[1] = 1 /\ <<1, 2, 3>>[2] = 2 /\ <<1, 2, 3>>[3] = 3
    OBVIOUS
  <2> QED BY <2>1, <2>2 DEF KeysAreNumbers
<1>7. todo \in Seq(Members(keyed))
  <2>1. keyed \in Seq(Members(keyed)) /\ <<1, 2, 3>> \in Seq(Nat)
    BY <1>5 DEF IsList
  <2> QED BY <2>1, <1>6, SortMembers
<1> HIDE DEF todo
<1>8. read \in Seq(Members(keyed))
  <2>1. misses \in SUBSET DOMAIN todo
    OBVIOUS
  <2> HIDE DEF misses
  <2> QED BY <2>1, <1>7, RowsAtMembers
<1> HIDE DEF read
<1>9. Len(read) \in Nat /\ DOMAIN read = 1..Len(read)
  BY <1>8
<1>10. ASSUME NEW t \in 1..Len(read)
       PROVE  \E i \in ZgramsAt(l) : ZgramAt(l, infos[read[t][4]].location) = l[i].rec
  <2>1. read[t] \in Members(keyed)
    BY <1>8, <1>9
  <2>2. read[t][4] \in DOMAIN infos
    BY <2>1, <1>1, <1>4, <1>5
  <2>3. PICK i \in ZgramsAt(l) : Tells(infos[read[t][4]], l[i])
    BY <2>2
  <2>4. ZgramAt(l, infos[read[t][4]].location) = l[i].rec
    BY <2>3, ZgramIsThere DEF Tells
  <2> QED BY <2>4
<1>11. PICK acc : /\ acc[0] = c
                  /\ \A t \in 1..Len(read) : acc[t] = Cached(acc[t - 1], ZgramAt(l, infos[read[t][4]].location))
                  /\ CacheOf(l, infos, c, read) = acc[Len(read)]
  BY <1>8, CacheFolds
<1> DEFINE Bad == {n \in 0..Len(read) : ~CacheHolds(acc[n], l)}
<1>12. Bad = {}
  <2> SUFFICES ASSUME Bad # {} PROVE FALSE
    OBVIOUS
  <2>1. PICK n \in Bad : \A m \in Bad : n <= m
    <3>1. Bad \in SUBSET Nat
      BY <1>9
    <3> HIDE DEF Bad
    <3> QED BY <3>1, SmallestElement
  <2>2. n # 0
    BY <1>11
  <2>3. n \in 1..Len(read) /\ n - 1 \in 0..Len(read) /\ ~(n <= n - 1)
    BY <1>9, <2>2
  <2>4. CacheHolds(acc[n - 1], l)
    BY <2>1, <2>3
  <2>5. PICK i \in ZgramsAt(l) : ZgramAt(l, infos[read[n][4]].location) = l[i].rec
    BY <1>10, <2>3
  <2>6. acc[n] = Cached(acc[n - 1], l[i].rec)
    BY <1>11, <2>3, <2>5
  <2>7. CacheHolds(acc[n], l)
    BY <2>4, <2>6, CachedHolds
  <2> QED BY <2>1, <2>7
<1> QED BY <1>3, <1>9, <1>11, <1>12

-------------------------------------------------------------------------------
(* The plus-plus manager                                                       *)

\* The originals to look up are those before, and that of a revision.
Locates(p, q, r) ==
  /\ "locators" \in DOMAIN q /\ IsList(q.locators)
  /\ \A x \in Members(q.locators) : x \in Members(p.locators) \/ (r.tag = "revision" /\ r.id = x)

LEMMA RecordLocates ==
    ASSUME NEW fz, NEW dyn, NEW p, "locators" \in DOMAIN p, IsList(p.locators), NEW r,
           NEW q, q = PpmAdd(fz, dyn, p, r)
    PROVE  Locates(p, q, r)
<1> DEFINE prior == GetZgramRevsFor(fz, dyn, r.id)
           added == [p EXCEPT !.delta = Scan(@, r.id, r.body, 1)]
           less == [added EXCEPT !.delta = Scan(@, r.id, Last(prior)[2], -1)]
           more == [added EXCEPT !.locators = Append(@, r.id)]
<1>1. q = CASE r.tag = "zgram" -> added
            [] r.tag = "revision" -> IF prior # <<>> THEN less ELSE more
            [] OTHER -> p
  BY DEF PpmAdd
<1>2. "locators" \in DOMAIN added /\ added.locators = p.locators
  OBVIOUS
<1>3. "locators" \in DOMAIN less /\ less.locators = p.locators
  BY <1>2
<1>4. "locators" \in DOMAIN more /\ more.locators = Append(p.locators, r.id)
  BY <1>2
<1> HIDE DEF added, less, more, prior
<1>5. IsList(Append(p.locators, r.id)) /\ Members(Append(p.locators, r.id)) = Members(p.locators) \cup {r.id}
  BY AppendToList
<1>6. q \in {added, less, p} \/ (r.tag = "revision" /\ q = more)
  BY <1>1
<1>7. CASE q \in {added, less, p}
  BY <1>2, <1>3, <1>7 DEF Locates
<1>8. CASE r.tag = "revision" /\ q = more
  BY <1>4, <1>5, <1>8 DEF Locates
<1> QED BY <1>6, <1>7, <1>8

LEMMA LocatorsAreRevised ==
    ASSUME NEW X, NEW records \in Seq(X), NEW fz, NEW dyn, NEW ppm, ppm = PpmAddAll(fz, dyn, records)
    PROVE  /\ IsList(ppm.locators)
           /\ \A x \in Members(ppm.locators) : \E i \in DOMAIN records : records[i].tag = "revision" /\ records[i].id = x
<1> DEFINE base == [delta |-> Nothing, locators |-> <<>>]
<1>1. ppm = DeltasOf(fz, dyn, base, records)
  BY Zenon DEF PpmAddAll, DeltasOf
<1>2. "locators" \in DOMAIN base /\ base.locators = <<>>
  OBVIOUS
<1> HIDE DEF base
<1>3. PICK acc : /\ acc[0] = base
                 /\ \A i \in 1..Len(records) : acc[i] = PpmAdd(fz, dyn, acc[i - 1], records[i])
                 /\ ppm = acc[Len(records)]
  BY <1>1, DeltaFolds
<1>4. Len(records) \in Nat /\ DOMAIN records = 1..Len(records)
  OBVIOUS
<1> DEFINE Good(n) == /\ "locators" \in DOMAIN acc[n] /\ IsList(acc[n].locators)
                      /\ \A x \in Members(acc[n].locators) :
                           \E i \in 1..n : records[i].tag = "revision" /\ records[i].id = x
           Bad == {n \in 0..Len(records) : ~Good(n)}
<1>5. Good(0)
  <2>1. IsList(<<>>) /\ Members(<<>>) = {}
    BY DEF IsList, Members
  <2> QED BY <1>2, <1>3, <2>1
<1>6. ASSUME NEW n \in 1..Len(records), Good(n - 1) PROVE Good(n)
  <2>1. acc[n] = PpmAdd(fz, dyn, acc[n - 1], records[n])
    BY <1>3
  <2>2. /\ "locators" \in DOMAIN acc[n] /\ IsList(acc[n].locators)
        /\ \A x \in Members(acc[n].locators) :
             x \in Members(acc[n - 1].locators) \/ (records[n].tag = "revision" /\ records[n].id = x)
    <3>1. Locates(acc[n - 1], acc[n], records[n])
      BY <1>6, <2>1, RecordLocates
    <3> QED BY <3>1 DEF Locates
  <2>3. 1..n = (1..(n - 1)) \cup {n}
    OBVIOUS
  <2>4. \A x \in Members(acc[n - 1].locators) :
          \E i \in 1..(n - 1) : records[i].tag = "revision" /\ records[i].id = x
    BY <1>6
  <2> QED BY <2>2, <2>3, <2>4
<1> HIDE DEF Good
<1>7. Bad = {}
  <2> SUFFICES ASSUME Bad # {} PROVE FALSE
    OBVIOUS
  <2>1. PICK n \in Bad : \A m \in Bad : n <= m
    <3>1. Bad \in SUBSET Nat
      BY <1>4
    <3> HIDE DEF Bad
    <3> QED BY <3>1, SmallestElement
  <2>2. n # 0
    BY <1>5
  <2>3. n \in 1..Len(records) /\ n - 1 \in 0..Len(records) /\ ~(n <= n - 1)
    BY <1>4, <2>2
  <2> QED BY <2>1, <2>3, <1>6
<1>8. Good(Len(records))
  BY <1>4, <1>7
<1> QED BY <1>3, <1>4, <1>8 DEF Good

\* Looking up the originals leaves the cache as it should be.
LEMMA FinishHolds ==
    ASSUME NEW l, IsLog(l), NEW end, NEW fz, NEW dyn, Indexes(fz, dyn, l, end), NEW c, CacheHolds(c, l),
           NEW ppm, IsList(ppm.locators), \A x \in Members(ppm.locators) : FindZgram(fz, dyn, x) # 0
    PROVE  CacheHolds(PpmFinish(fz, dyn, c, l, ppm).cache, l)
<1> DEFINE found(k) == ZgramInfos(fz, dyn)[FindZgram(fz, dyn, ppm.locators[k])]
           infos == [k \in DOMAIN ppm.locators |-> found(k)]
<1>1. PpmFinish(fz, dyn, c, l, ppm).cache = LookupOrResolve(c, l, infos).cache
  <2>1. \E d : PpmFinish(fz, dyn, c, l, ppm) = [delta |-> d, cache |-> LookupOrResolve(c, l, infos).cache]
    BY Zenon DEF PpmFinish
  <2> HIDE DEF infos
  <2> QED BY <2>1
<1>2. DOMAIN ppm.locators = 1..Len(ppm.locators) /\ Len(ppm.locators) \in Nat
  BY DEF IsList
<1>3. ASSUME NEW k \in DOMAIN ppm.locators PROVE \E i \in ZgramsAt(l) : Tells(found(k), l[i])
  <2>1. FindZgram(fz, dyn, ppm.locators[k]) # 0
    BY DEF Members
  <2>2. PICK info : info = ZgramInfos(fz, dyn)[FindZgram(fz, dyn, ppm.locators[k])]
    OBVIOUS
  <2>3. \E i \in ZgramsAt(l) : Tells(info, l[i])
    BY <2>1, <2>2, FoundTells
  <2> QED BY <2>2, <2>3
<1> HIDE DEF found
<1>4. infos = [k \in 1..Len(ppm.locators) |-> infos[k]] /\ \A k \in DOMAIN ppm.locators : infos[k] = found(k)
  BY <1>2
<1> HIDE DEF infos
<1>5. IsList(infos) /\ DOMAIN infos = DOMAIN ppm.locators
  BY <1>2, <1>4, EvaluatedIsIt
<1> QED BY <1>1, <1>3, <1>4, <1>5, LookUpHolds

-------------------------------------------------------------------------------
(* The bootstrap                                                               *)

\* Every revision is of a zgram of the log.
RevisionsKnown(l) ==
  \A i \in DOMAIN l : l[i].rec.tag = "revision" => \E j \in ZgramsAt(l) : l[j].rec.id = l[i].rec.id

\* The dynamic index, unless it has failed, lists the zgrams behind end.
DynamicLists(dyn, l, end) ==
  dyn.ok \in BOOLEAN /\ (dyn.ok => Shape(dyn) /\ Lists(dyn.zgramInfos, l, end, Len(l)))

LEMMA CountsKeepLists ==
    ASSUME NEW dyn, NEW l, NEW end, DynamicLists(dyn, l, end), Shape(dyn), NEW delta,
           NEW t, t = BatchUpdatePlusPlusCounts(dyn, delta)
    PROVE  DynamicLists(t, l, end)
<1>1. PICK m : t = [dyn EXCEPT !.metadata = m]
  BY Zenon DEF BatchUpdatePlusPlusCounts
<1>2. Shape(t) /\ t.ok = dyn.ok /\ t.zgramInfos = dyn.zgramInfos
  BY <1>1 DEF Shape
<1> QED BY <1>2 DEF DynamicLists

OfFinished(added, finished) ==
  [dynamic |-> BatchUpdatePlusPlusCounts(added, finished.delta), cache |-> finished.cache]
OfAdded(fz, records, added) ==
  IF ~added.ok THEN [dynamic |-> Failure, cache |-> Nothing]
  ELSE Then(PpmFinish(fz, added, Nothing, log, PpmAddAll(fz, added, records)),
            LAMBDA finished : OfFinished(added, finished))

LEMMA BootstrapHolds ==
    ASSUME IsLog(log), RevisionsKnown(log), NEW end \in 0..Len(log), NEW fz, Lists(fz.zgramInfos, log, 0, end),
           NEW b, b = Bootstrapped(fz, end)
    PROVE  CacheHolds(b.cache, log) /\ DynamicLists(b.dynamic, log, end)
<1> DEFINE entries == DynamicRecords(end)
           records == [i \in DOMAIN entries |-> entries[i].rec]
           added == AddLogRecords(fz, EmptyIndex, entries)
<1>1. b = OfAdded(fz, records, added)
  <2>1. Bootstrapped(fz, end) = Then(added, LAMBDA a : OfAdded(fz, records, a))
    BY Zenon DEF Bootstrapped, OfAdded, OfFinished
  <2> HIDE DEF added, records
  <2>2. Then(added, LAMBDA a : OfAdded(fz, records, a)) = OfAdded(fz, records, added)
    BY DEF Then
  <2> QED BY <2>1, <2>2
<1>2. entries \in Seq(LogEntry) /\ Members(entries) = {log[i] : i \in (end + 1)..Len(log)}
  BY DynamicRecordsRead
<1>3. /\ added.ok \in BOOLEAN
      /\ added.ok => Shape(added) /\ Lists(added.zgramInfos, log, end, Len(log))
  BY BootstrapLists
<1>4. CacheHolds(Nothing, log)
  <2>1. DOMAIN Nothing = {}
    BY DEF Nothing
  <2> QED BY <2>1, FS_EmptySet, CapacityAssumption DEF CacheHolds
<1>5. DOMAIN entries = 1..Len(entries) /\ Len(entries) \in Nat
  BY <1>2
<1> HIDE DEF entries, added
<1>6. records \in Seq(Members(records)) /\ DOMAIN records = DOMAIN entries
      /\ \A i \in DOMAIN entries : records[i] = entries[i].rec
  <2>1. records = [i \in 1..Len(entries) |-> records[i]]
    BY <1>5
  <2>2. DOMAIN records = DOMAIN entries /\ \A i \in DOMAIN entries : records[i] = entries[i].rec
    OBVIOUS
  <2> HIDE DEF records
  <2> QED BY <1>5, <2>1, <2>2, EvaluatedIsIt DEF IsList
<1> HIDE DEF records
<1>7. CASE ~added.ok
  <2>1. b = [dynamic |-> Failure, cache |-> Nothing]
    BY <1>1, <1>7, Zenon DEF OfAdded
  <2>2. b.cache = Nothing /\ b.dynamic.ok = FALSE
    BY <2>1 DEF Failure
  <2>3. DynamicLists(b.dynamic, log, end)
    BY <2>2 DEF DynamicLists
  <2> QED BY <1>4, <2>2, <2>3
<1>8. CASE added.ok
  <2> DEFINE ppm == PpmAddAll(fz, added, records)
             finished == PpmFinish(fz, added, Nothing, log, ppm)
  <2>1. b = OfFinished(added, finished)
    <3>1. OfAdded(fz, records, added) = IF ~added.ok THEN [dynamic |-> Failure, cache |-> Nothing]
                                        ELSE Then(finished, LAMBDA f : OfFinished(added, f))
      BY Zenon DEF OfAdded
    <3> HIDE DEF finished
    <3>2. Then(finished, LAMBDA f : OfFinished(added, f)) = OfFinished(added, finished)
      BY DEF Then
    <3> QED BY <1>1, <1>8, <3>1, <3>2, Zenon
  <2>2. Indexes(fz, added, log, end)
    BY <1>3, <1>8 DEF Indexes
  <2>3. /\ IsList(ppm.locators)
        /\ \A x \in Members(ppm.locators) : \E i \in DOMAIN records : records[i].tag = "revision" /\ records[i].id = x
    <3>1. PICK q : q = ppm
      OBVIOUS
    <3>2. PICK X : records \in Seq(X)
      BY <1>6
    <3>3. /\ IsList(q.locators)
          /\ \A x \in Members(q.locators) : \E i \in DOMAIN records : records[i].tag = "revision" /\ records[i].id = x
      BY <3>1, <3>2, LocatorsAreRevised
    <3> QED BY <3>1, <3>3
  <2> HIDE DEF ppm
  <2>4. ASSUME NEW x \in Members(ppm.locators) PROVE FindZgram(fz, added, x) # 0
    <3>1. PICK i \in DOMAIN records : records[i].tag = "revision" /\ records[i].id = x
      BY <2>3
    <3>2. entries[i] \in Members(entries) /\ entries[i].rec.tag = "revision" /\ entries[i].rec.id = x
      BY <1>6, <3>1 DEF Members
    <3>3. PICK k \in (end + 1)..Len(log) : entries[i] = log[k]
      BY <1>2, <3>2
    <3>4. k \in DOMAIN log
      <4>1. DOMAIN log = 1..Len(log) /\ Len(log) \in Nat
        BY DEF IsLog
      <4> QED BY <4>1
    <3>5. PICK j \in ZgramsAt(log) : log[j].rec.id = x
      BY <3>2, <3>3, <3>4 DEF RevisionsKnown
    <3> QED BY <2>2, <3>5, ZgramIsFound
  <2>5. CacheHolds(finished.cache, log)
    BY <1>4, <2>2, <2>3, <2>4, FinishHolds
  <2> HIDE DEF finished
  <2>6. DynamicLists(added, log, end) /\ Shape(added)
    BY <1>3, <1>8 DEF DynamicLists
  <2>7. DynamicLists(b.dynamic, log, end) /\ b.cache = finished.cache
    <3>1. b.dynamic = BatchUpdatePlusPlusCounts(added, finished.delta) /\ b.cache = finished.cache
      BY <2>1 DEF OfFinished
    <3> QED BY <2>6, <3>1, CountsKeepLists
  <2> QED BY <2>5, <2>7
<1> QED BY <1>3, <1>7, <1>8

-------------------------------------------------------------------------------
(* A log that grows                                                            *)

\* The later log begins with the earlier one.
Begins(l, m) ==
  /\ l \in Seq(LogEntry) /\ m \in Seq(LogEntry) /\ Len(l) <= Len(m)
  /\ \A i \in 1..Len(l) : m[i] = l[i]

LEMMA PlacesStay ==
    ASSUME NEW l, NEW m, Begins(l, m)
    PROVE  /\ \A i \in 1..Len(l) : Placed(m, i) = Placed(l, i)
           /\ ZgramsAt(l) = ZgramsAt(m) \cap (1..Len(l))
<1>1. /\ Len(l) \in Nat /\ DOMAIN l = 1..Len(l) /\ Len(m) \in Nat /\ DOMAIN m = 1..Len(m)
      /\ Len(l) <= Len(m) /\ \A i \in 1..Len(l) : m[i] = l[i]
  BY DEF Begins
<1>2. ASSUME NEW i \in 1..Len(l) PROVE Placed(m, i) = Placed(l, i)
  <2>1. i \in DOMAIN m /\ m[i] = l[i]
    BY <1>1
  <2>2. {j \in FileAt(m, m[i]) : j < i} = {j \in FileAt(l, l[i]) : j < i}
    <3>1. ASSUME NEW j \in FileAt(m, m[i]), j < i PROVE j \in FileAt(l, l[i])
      <4>1. j \in 1..Len(l) /\ m[j] = l[j]
        BY <1>1, <3>1 DEF FileAt
      <4> QED BY <1>1, <2>1, <4>1 DEF FileAt
    <3>2. ASSUME NEW j \in FileAt(l, l[i]), j < i PROVE j \in FileAt(m, m[i])
      <4>1. j \in 1..Len(l) /\ m[j] = l[j] /\ j \in DOMAIN m
        BY <1>1 DEF FileAt
      <4> QED BY <1>1, <2>1, <4>1 DEF FileAt
    <3> QED BY <3>1, <3>2
  <2> QED BY <2>1, <2>2 DEF Placed, Below
<1>3. ZgramsAt(l) = ZgramsAt(m) \cap (1..Len(l))
  <2>1. \A i \in ZgramsAt(l) : i \in ZgramsAt(m) \cap (1..Len(l))
    BY <1>1 DEF ZgramsAt
  <2>2. \A i \in ZgramsAt(m) \cap (1..Len(l)) : i \in ZgramsAt(l)
    BY <1>1 DEF ZgramsAt
  <2> QED BY <2>1, <2>2
<1> QED BY <1>2, <1>3

LEMMA PrefixIsLog ==
    ASSUME NEW l, NEW m, IsLog(m), Begins(l, m)
    PROVE  IsLog(l)
<1>1. /\ \A i \in 1..Len(l) : Placed(m, i) = Placed(l, i) /\ m[i] = l[i]
      /\ ZgramsAt(l) = ZgramsAt(m) \cap (1..Len(l))
  BY PlacesStay DEF Begins
<1> QED BY <1>1 DEF IsLog, Begins

\* What lists a part of a log lists that part of what it grows into.
LEMMA ListsStay ==
    ASSUME NEW l, NEW m, Begins(l, m), NEW infos, NEW a \in Nat, NEW b \in 0..Len(l)
    PROVE  Lists(infos, l, a, b) <=> Lists(infos, m, a, b)
<1>1. /\ \A i \in 1..Len(l) : m[i] = l[i]
      /\ ZgramsAt(l) = ZgramsAt(m) \cap (1..Len(l))
      /\ Len(l) \in Nat
  BY PlacesStay DEF Begins
<1>2. \A i \in (a + 1)..b : i \in 1..Len(l)
  BY <1>1
<1> QED BY <1>1, <1>2 DEF Lists

LEMMA CacheStays ==
    ASSUME NEW l, NEW m, Begins(l, m), NEW c, CacheHolds(c, l)
    PROVE  CacheHolds(c, m)
<1>1. /\ \A i \in 1..Len(l) : m[i] = l[i]
      /\ ZgramsAt(l) = ZgramsAt(m) \cap (1..Len(l))
  BY PlacesStay DEF Begins
<1> QED BY <1>1 DEF CacheHolds

\* Records that are no zgrams may follow.
LEMMA MetadataFollow ==
    ASSUME NEW l, IsLog(l), NEW m, Begins(l, m), \A i \in (Len(l) + 1)..Len(m) : m[i].rec.tag # "zgram",
           NEW fz, NEW dyn, NEW end, Indexes(fz, dyn, l, end)
    PROVE  IsLog(m) /\ ZgramsAt(m) = ZgramsAt(l) /\ Indexes(fz, dyn, m, end)
<1>1. /\ \A i \in 1..Len(l) : Placed(m, i) = Placed(l, i) /\ m[i] = l[i]
      /\ ZgramsAt(l) = ZgramsAt(m) \cap (1..Len(l))
      /\ Len(l) \in Nat /\ Len(m) \in Nat /\ Len(l) <= Len(m) /\ DOMAIN m = 1..Len(m) /\ m \in Seq(LogEntry)
  BY PlacesStay DEF Begins
<1>2. ZgramsAt(m) = ZgramsAt(l) /\ \A i \in ZgramsAt(l) : i \in 1..Len(l)
  <2>1. \A i \in ZgramsAt(m) : i \in 1..Len(l)
    BY <1>1 DEF ZgramsAt
  <2> QED BY <1>1, <2>1
<1>3. IsLog(m)
  BY <1>1, <1>2 DEF IsLog
<1>4. end \in 0..Len(l) /\ end \in Nat
  BY <1>1 DEF Indexes
<1>5. Lists(fz.zgramInfos, m, 0, end)
  BY <1>4, ListsStay DEF Indexes
<1>6. Lists(dyn.zgramInfos, m, end, Len(m))
  <2>1. \A i \in ZgramsAt(l) : i \in (end + 1)..Len(l) <=> i \in (end + 1)..Len(m)
    BY <1>1, <1>2, <1>4
  <2>2. \A i \in ZgramsAt(l) : m[i] = l[i]
    BY <1>1, <1>2
  <2> QED BY <1>2, <2>1, <2>2 DEF Indexes, Lists
<1>7. end \in 0..Len(m)
  BY <1>1, <1>4
<1> QED BY <1>2, <1>3, <1>5, <1>6, <1>7 DEF Indexes

\* The entry of a record is at the end of its file.
AtEnd(l, e) == e.location = [day |-> e.day, logged |-> e.logged, offset |-> Len(FileText(l, FileOf(e)))]

LEMMA ZgramFollows ==
    ASSUME NEW l, IsLog(l), NEW e \in LogEntry, e.rec.tag = "zgram", e.rec.id \in Nat, AtEnd(l, e),
           \A i \in ZgramsAt(l) : l[i].rec.id < e.rec.id,
           NEW m, m = Append(l, e)
    PROVE  /\ Begins(l, m) /\ IsLog(m) /\ Len(m) = Len(l) + 1 /\ m[Len(m)] = e
           /\ ZgramsAt(m) = ZgramsAt(l) \cup {Len(m)} /\ \A i \in ZgramsAt(l) : i \in 1..Len(l)
<1>1. /\ l \in Seq(LogEntry) /\ Len(l) \in Nat /\ DOMAIN l = 1..Len(l)
      /\ m \in Seq(LogEntry) /\ Len(m) = Len(l) + 1 /\ DOMAIN m = 1..(Len(l) + 1) /\ m[Len(m)] = e
      /\ \A i \in 1..Len(l) : m[i] = l[i]
  BY DEF IsLog
<1>2. Begins(l, m)
  BY <1>1 DEF Begins
<1>3. /\ \A i \in 1..Len(l) : Placed(m, i) = Placed(l, i)
      /\ ZgramsAt(l) = ZgramsAt(m) \cap (1..Len(l))
  BY <1>2, PlacesStay
<1>4. \A i \in ZgramsAt(l) : i \in 1..Len(l)
  BY <1>3
<1>5. ZgramsAt(m) = ZgramsAt(l) \cup {Len(m)}
  <2>1. Len(m) \in ZgramsAt(m)
    BY <1>1 DEF ZgramsAt
  <2>2. \A i \in ZgramsAt(m) : i \in 1..Len(l) \/ i = Len(m)
    BY <1>1 DEF ZgramsAt
  <2> QED BY <1>3, <2>1, <2>2
<1>6. e.location = Placed(m, Len(m))
  <2>1. PICK f : f = FileOf(e)
    OBVIOUS
  <2>2. FileText(l, f) = RowsAt(l, FileAt(l, f)) /\ FileAt(l, f) \in SUBSET DOMAIN l
    BY DEF FileText, FileAt
  <2>3. Len(FileText(l, f)) = Cardinality(FileAt(l, f))
    BY <1>1, <2>2, RowsAtPicks
  <2>4. {j \in FileAt(m, e) : j < Len(m)} = FileAt(l, f)
    <3>1. ASSUME NEW j \in FileAt(m, e), j < Len(m) PROVE j \in FileAt(l, f)
      <4>1. j \in 1..Len(l) /\ m[j] = l[j]
        BY <1>1, <3>1 DEF FileAt
      <4> QED BY <1>1, <2>1, <4>1 DEF FileAt, FileOf
    <3>2. ASSUME NEW j \in FileAt(l, f) PROVE j \in FileAt(m, e) /\ j < Len(m)
      <4>1. j \in 1..Len(l) /\ m[j] = l[j] /\ j \in DOMAIN m
        BY <1>1 DEF FileAt
      <4> QED BY <1>1, <2>1, <4>1 DEF FileAt, FileOf
    <3> QED BY <3>1, <3>2
  <2>5. Below(FileAt(m, e), Len(m)) = Len(FileText(l, f))
    BY <2>3, <2>4 DEF Below
  <2> QED BY <1>1, <2>1, <2>5 DEF AtEnd, Placed
<1>7. ASSUME NEW i \in ZgramsAt(m) PROVE m[i].rec.id \in Nat /\ m[i].location = Placed(m, i)
  <2>1. CASE i \in ZgramsAt(l)
    BY <2>1, <1>1, <1>3, <1>4 DEF IsLog
  <2>2. CASE i = Len(m)
    BY <2>2, <1>1, <1>6
  <2> QED BY <2>1, <2>2, <1>5
<1>8. ASSUME NEW i \in ZgramsAt(m), NEW j \in ZgramsAt(m), i < j PROVE m[i].rec.id < m[j].rec.id
  <2>1. i \in ZgramsAt(l)
    BY <1>1, <1>4, <1>5, <1>8
  <2>2. CASE j \in ZgramsAt(l)
    BY <2>1, <2>2, <1>1, <1>4, <1>8 DEF IsLog
  <2>3. CASE j = Len(m)
    BY <2>1, <2>3, <1>1, <1>4
  <2> QED BY <2>2, <2>3, <1>5
<1>9. IsLog(m)
  BY <1>1, <1>7, <1>8 DEF IsLog
<1> QED BY <1>1, <1>2, <1>4, <1>5, <1>9

\* A new identifier is beyond all that were given.
LEMMA ZgramEndIsNew ==
    ASSUME NEW l, IsLog(l), NEW end, NEW fz, NEW dyn, Indexes(fz, dyn, l, end)
    PROVE  ZgramEnd(fz, dyn) \in Nat /\ \A i \in ZgramsAt(l) : l[i].rec.id < ZgramEnd(fz, dyn)
<1>1. PICK infos, a, b : infos = ZgramInfos(fz, dyn) /\ a = fz.zgramInfos /\ b = dyn.zgramInfos
  OBVIOUS
<1>2. /\ IsList(a) /\ IsList(b) /\ IsList(infos)
      /\ Members(infos) = Members(a) \cup Members(b)
      /\ \A x \in Members(infos) : \E i \in ZgramsAt(l) : Tells(x, l[i])
      /\ \A i \in ZgramsAt(l) : \E x \in Members(infos) : Tells(x, l[i])
      /\ \A x \in Members(a), y \in Members(b) : x.id \in Nat /\ y.id \in Nat /\ x.id < y.id
  BY <1>1, IndexesTell
<1>3. /\ \A m, n \in DOMAIN a : m < n => a[m].id < a[n].id
      /\ \A m, n \in DOMAIN b : m < n => b[m].id < b[n].id
  BY <1>1 DEF Indexes, Lists
<1>4. /\ infos = a \o b
      /\ Len(a) \in Nat /\ Len(b) \in Nat /\ Len(infos) = Len(a) + Len(b)
      /\ DOMAIN a = 1..Len(a) /\ DOMAIN b = 1..Len(b) /\ DOMAIN infos = 1..(Len(a) + Len(b))
      /\ \A n \in 1..Len(a) : infos[n] = a[n]
      /\ \A n \in 1..Len(b) : infos[Len(a) + n] = b[n]
  <2>1. infos = a \o b
    BY <1>1 DEF ZgramInfos
  <2> QED BY <2>1, <1>2, ConcatLists
<1>5. \A x \in Members(infos) : x.id \in Nat
  BY <1>2 DEF IsLog, Tells
<1>6. CASE Len(infos) = 0
  <2>1. infos = <<>>
    BY <1>2, <1>6 DEF IsList
  <2>2. Members(infos) = {}
    BY <1>4, <1>6 DEF Members
  <2> QED BY <1>1, <1>2, <2>1, <2>2 DEF ZgramEnd
<1>7. CASE Len(infos) # 0
  <2>1. infos # <<>> /\ Last(infos) = infos[Len(infos)] /\ Len(infos) \in DOMAIN infos
    BY <1>4, <1>7 DEF Last
  <2>2. PICK top : top = infos[Len(infos)]
    OBVIOUS
  <2>3. top \in Members(infos) /\ top.id \in Nat
    BY <2>1, <2>2, <1>5 DEF Members
  <2>4. ZgramEnd(fz, dyn) = top.id + 1
    BY <1>1, <2>1, <2>2 DEF ZgramEnd
  <2>5. ASSUME NEW x \in Members(infos) PROVE x.id <= top.id
    <3>1. CASE Len(b) = 0
      <4>1. Members(b) = {}
        BY <1>4, <3>1 DEF Members
      <4>2. PICK k \in DOMAIN a : x = a[k]
        BY <1>2, <4>1 DEF Members
      <4>3. top = a[Len(a)] /\ Len(a) \in DOMAIN a /\ (k = Len(a) \/ k < Len(a))
        BY <1>4, <1>7, <2>2, <3>1
      <4>4. x = top \/ x.id < top.id
        BY <1>3, <4>2, <4>3
      <4> QED BY <1>5, <2>3, <4>4
    <3>2. CASE Len(b) # 0
      <4>1. top = b[Len(b)] /\ Len(b) \in DOMAIN b /\ top \in Members(b)
        BY <1>4, <2>2, <3>2 DEF Members
      <4>2. CASE x \in Members(a)
        BY <1>2, <4>1, <4>2
      <4>3. CASE x \in Members(b)
        <5>1. PICK k \in DOMAIN b : x = b[k]
          BY <4>3 DEF Members
        <5>2. k = Len(b) \/ k < Len(b)
          BY <1>4
        <5>3. x = top \/ x.id < top.id
          BY <1>3, <4>1, <5>1, <5>2
        <5> QED BY <1>5, <2>3, <5>3
      <4> QED BY <1>2, <4>2, <4>3
    <3> QED BY <3>1, <3>2
  <2>6. ASSUME NEW i \in ZgramsAt(l) PROVE l[i].rec.id < top.id + 1
    <3>1. PICK x \in Members(infos) : Tells(x, l[i])
      BY <1>2
    <3> QED BY <1>5, <2>3, <2>5, <3>1 DEF Tells
  <2> QED BY <2>3, <2>4, <2>6
<1>8. Len(infos) \in Nat
  BY <1>4
<1> QED BY <1>6, <1>7

-------------------------------------------------------------------------------
(* The invariant                                                               *)

\* Whatever the indexes are, the cache holds zgrams of the log; and the indexes
\* of a running backend list them all.
Listed(l, c, fz, dyn, end) ==
  /\ IsLog(l) /\ RevisionsKnown(l) /\ CacheHolds(c, l)
  /\ fz.ok /\ dyn.ok => Shape(dyn) /\ Indexes(fz, dyn, l, end)
IndexInv ==
  /\ day \in Nat /\ checkpoint \in {Idle} \cup 0..Len(log) /\ frozenEnd \in 0..Len(log)
  /\ Listed(log, cache, frozen, dynamic, frozenEnd)

\* One zgram, with the next identifier, joins the log and the dynamic index.
Posts(l, e, fz, dyn, end, m, delta, t) ==
  /\ IsLog(l) /\ fz.ok /\ dyn.ok /\ Shape(dyn) /\ Indexes(fz, dyn, l, end)
  /\ e \in LogEntry /\ e.rec.tag = "zgram" /\ e.rec.id \in Nat /\ AtEnd(l, e) /\ e.rec.id = ZgramEnd(fz, dyn)
  /\ m = Append(l, e) /\ t = BatchUpdatePlusPlusCounts(AddLogRecord(fz, dyn, e), delta)
Posted(l, fz, end, m, t) ==
  Begins(l, m) /\ IsLog(m) /\ (t.ok => Shape(t) /\ Indexes(fz, t, m, end))

LEMMA ZgramIsListed ==
    ASSUME NEW l, NEW e, NEW fz, NEW dyn, NEW end, NEW m, NEW delta, NEW t, Posts(l, e, fz, dyn, end, m, delta, t)
    PROVE  Posted(l, fz, end, m, t)
<1>0. PICK added :
        /\ IsLog(l) /\ fz.ok /\ dyn.ok /\ Shape(dyn) /\ Indexes(fz, dyn, l, end)
        /\ e \in LogEntry /\ e.rec.tag = "zgram" /\ e.rec.id \in Nat /\ AtEnd(l, e) /\ e.rec.id = ZgramEnd(fz, dyn)
        /\ m = Append(l, e) /\ added = AddLogRecord(fz, dyn, e) /\ t = BatchUpdatePlusPlusCounts(added, delta)
  BY DEF Posts
<1>1. \A i \in ZgramsAt(l) : l[i].rec.id < e.rec.id
  BY <1>0, ZgramEndIsNew
<1>2. /\ Begins(l, m) /\ IsLog(m) /\ Len(m) = Len(l) + 1 /\ m[Len(m)] = e
      /\ ZgramsAt(m) = ZgramsAt(l) \cup {Len(m)} /\ \A i \in ZgramsAt(l) : i \in 1..Len(l)
  BY <1>0, <1>1, ZgramFollows
<1>3. added = Failure \/ JoinsInfo(dyn, added, e)
  <2>1. added = AddZgram(fz, dyn, e.rec, e.location)
    BY <1>0 DEF AddLogRecord
  <2> QED BY <1>0, <2>1, AddZgramAppends
<1>4. PICK meta : t = [added EXCEPT !.metadata = meta]
  BY <1>0, Zenon DEF BatchUpdatePlusPlusCounts
<1>5. CASE added = Failure
  <2>1. t.ok = FALSE
    BY <1>4, <1>5 DEF Failure
  <2> QED BY <1>2, <2>1 DEF Posted
<1>6. CASE JoinsInfo(dyn, added, e)
  <2>1. Shape(t) /\ t.zgramInfos = added.zgramInfos
    BY <1>4, <1>6 DEF JoinsInfo, Shape
  <2>2. PICK info : Tells(info, e) /\ t.zgramInfos = Append(dyn.zgramInfos, info)
    BY <1>6, <2>1 DEF JoinsInfo
  <2>3. PICK infos, news : infos = dyn.zgramInfos /\ news = t.zgramInfos
    OBVIOUS
  <2>4. /\ IsList(infos) /\ news = Append(infos, info)
        /\ \A x \in Members(infos) : \E i \in ZgramsAt(l) : i \in (end + 1)..Len(l) /\ Tells(x, l[i])
        /\ \A i \in ZgramsAt(l) : i \in (end + 1)..Len(l) => \E x \in Members(infos) : Tells(x, l[i])
        /\ \A j, k \in DOMAIN infos : j < k => infos[j].id < infos[k].id
    BY <1>0, <2>2, <2>3 DEF Indexes, Lists
  <2>5. /\ IsList(news) /\ Members(news) = Members(infos) \cup {info}
        /\ Len(infos) \in Nat /\ DOMAIN infos = 1..Len(infos) /\ DOMAIN news = 1..(Len(infos) + 1)
        /\ news[Len(infos) + 1] = info /\ \A k \in 1..Len(infos) : news[k] = infos[k]
    BY <2>4, AppendToList
  <2>6. end \in Nat /\ Len(l) \in Nat /\ end <= Len(l) /\ \A i \in 1..Len(l) : m[i] = l[i]
    BY <1>0, <1>2 DEF Indexes, Begins
  <2>7. \A x \in Members(news) : \E i \in ZgramsAt(m) : i \in (end + 1)..Len(m) /\ Tells(x, m[i])
    <3>1. ASSUME NEW x \in Members(infos) PROVE \E i \in ZgramsAt(m) : i \in (end + 1)..Len(m) /\ Tells(x, m[i])
      <4>1. PICK i \in ZgramsAt(l) : i \in (end + 1)..Len(l) /\ Tells(x, l[i])
        BY <2>4
      <4>2. i \in (end + 1)..Len(m) /\ m[i] = l[i] /\ i \in ZgramsAt(m)
        BY <1>2, <2>6, <4>1
      <4> QED BY <4>1, <4>2
    <3>2. Len(m) \in (end + 1)..Len(m) /\ Len(m) \in ZgramsAt(m) /\ Tells(info, m[Len(m)])
      BY <1>2, <2>2, <2>6
    <3> QED BY <2>5, <3>1, <3>2
  <2>8. \A i \in ZgramsAt(m) : i \in (end + 1)..Len(m) => \E x \in Members(news) : Tells(x, m[i])
    <3> SUFFICES ASSUME NEW i \in ZgramsAt(m), i \in (end + 1)..Len(m) PROVE \E x \in Members(news) : Tells(x, m[i])
      OBVIOUS
    <3>1. CASE i \in ZgramsAt(l)
      <4>1. i \in (end + 1)..Len(l) /\ m[i] = l[i]
        BY <1>2, <2>6, <3>1
      <4> QED BY <2>4, <2>5, <3>1, <4>1
    <3>2. CASE i = Len(m)
      BY <1>2, <2>2, <2>5, <3>2
    <3> QED BY <1>2, <3>1, <3>2
  <2>9. \A j, k \in DOMAIN news : j < k => news[j].id < news[k].id
    <3> SUFFICES ASSUME NEW j \in DOMAIN news, NEW k \in DOMAIN news, j < k PROVE news[j].id < news[k].id
      OBVIOUS
    <3>1. j \in 1..Len(infos) /\ (k \in 1..Len(infos) \/ k = Len(infos) + 1)
      BY <2>5
    <3>2. CASE k \in 1..Len(infos)
      BY <2>4, <2>5, <3>1, <3>2
    <3>3. CASE k = Len(infos) + 1
      <4>1. infos[j] \in Members(infos)
        BY <2>5, <3>1 DEF Members
      <4>2. PICK i \in ZgramsAt(l) : Tells(infos[j], l[i])
        BY <2>4, <4>1
      <4> QED BY <1>1, <2>2, <2>5, <3>1, <3>3, <4>2 DEF Tells
    <3> QED BY <3>1, <3>2, <3>3
  <2>10. Lists(t.zgramInfos, m, end, Len(m))
    BY <2>3, <2>5, <2>7, <2>8, <2>9 DEF Lists
  <2>11. Lists(fz.zgramInfos, m, 0, end)
    <3>1. end \in 0..Len(l)
      BY <1>0 DEF Indexes
    <3> QED BY <1>0, <1>2, <3>1, ListsStay DEF Indexes
  <2>12. end \in 0..Len(m)
    BY <1>2, <2>6
  <2> QED BY <1>2, <2>1, <2>10, <2>11, <2>12 DEF Indexes, Posted
<1> QED BY <1>3, <1>5, <1>6

\* Every revision stays known as the log grows, if the new ones are.
LEMMA RevisionsStay ==
    ASSUME NEW l, RevisionsKnown(l), NEW m, Begins(l, m),
           \A i \in (Len(l) + 1)..Len(m) : m[i].rec.tag = "revision" => \E j \in ZgramsAt(l) : l[j].rec.id = m[i].rec.id
    PROVE  RevisionsKnown(m)
<1>1. /\ ZgramsAt(l) = ZgramsAt(m) \cap (1..Len(l))
      /\ Len(l) \in Nat /\ Len(m) \in Nat /\ DOMAIN l = 1..Len(l) /\ DOMAIN m = 1..Len(m)
      /\ \A i \in 1..Len(l) : m[i] = l[i]
  BY PlacesStay DEF Begins
<1>2. ASSUME NEW i \in DOMAIN m, m[i].rec.tag = "revision" PROVE \E j \in ZgramsAt(m) : m[j].rec.id = m[i].rec.id
  <2>1. \E j \in ZgramsAt(l) : l[j].rec.id = m[i].rec.id
    <3>1. i \in 1..Len(l) \/ i \in (Len(l) + 1)..Len(m)
      BY <1>1
    <3>2. CASE i \in 1..Len(l)
      <4>1. i \in DOMAIN l /\ m[i] = l[i]
        BY <1>1, <3>2
      <4> QED BY <1>2, <4>1 DEF RevisionsKnown
    <3> QED BY <1>2, <3>1, <3>2
  <2> QED BY <1>1, <2>1
<1> QED BY <1>2 DEF RevisionsKnown

LEMMA PostZgramHolds ==
    ASSUME IndexInv, NEW draft \in Drafts, PostZgram(draft)
    PROVE  IndexInv'
<1>1. /\ day \in Nat /\ checkpoint \in {Idle} \cup 0..Len(log) /\ frozenEnd \in 0..Len(log)
      /\ IsLog(log) /\ RevisionsKnown(log) /\ CacheHolds(cache, log)
      /\ frozen.ok /\ dynamic.ok /\ Shape(dynamic) /\ Indexes(frozen, dynamic, log, frozenEnd)
  BY DEF IndexInv, Listed, PostZgram, Running
<1>2. PICK now : /\ now = AddZgrams(Written, Poster, draft)
                 /\ log' = now.log /\ dynamic' = now.dynamic /\ cache' = now.cache
                 /\ UNCHANGED <<day, checkpoint, builds, frozenEnd, frozen>>
  BY Zenon DEF PostZgram, Write
<1> DEFINE logged == draft.instance \notin Graffiti
           zgram == [tag |-> "zgram", id |-> ZgramEnd(frozen, dynamic), sender |-> Poster, signature |-> Poster,
                     instance |-> draft.instance, body |-> draft.body, logged |-> logged]
           e == Entry(Written, zgram, logged)
           added == AddLogRecord(frozen, dynamic, e)
<1>3. Written.log = log /\ Written.dynamic = dynamic /\ Written.cache = cache
  BY DEF Written
<1>4. PICK delta : now = [log |-> Append(log, e), dynamic |-> BatchUpdatePlusPlusCounts(added, delta),
                          cache |-> cache, delta |-> delta]
  BY <1>2, <1>3, Zenon DEF AddZgrams
<1>5. e = [day |-> day, logged |-> logged, rec |-> zgram,
           location |-> [day |-> day, logged |-> logged,
                         offset |-> Len(FileText(log, [day |-> day, logged |-> logged]))]]
  BY <1>3 DEF Entry
<1>6. ZgramEnd(frozen, dynamic) \in Nat
  BY <1>1, ZgramEndIsNew
<1>7. zgram \in Records /\ zgram.tag = "zgram" /\ zgram.id = ZgramEnd(frozen, dynamic) /\ logged \in BOOLEAN
  BY <1>6 DEF Records
<1> HIDE DEF zgram, logged
<1>8. e \in LogEntry /\ e.rec = zgram /\ AtEnd(log, e)
  <2>1. Len(FileText(log, [day |-> day, logged |-> logged])) \in Nat
    BY <1>1, FileTextHolds DEF IsLog
  <2>2. FileOf(e) = [day |-> day, logged |-> logged] /\ e.rec = zgram /\ e.day = day /\ e.logged = logged
    BY <1>5 DEF FileOf
  <2>3. AtEnd(log, e)
    BY <1>5, <2>2 DEF AtEnd
  <2>4. e \in LogEntry
    BY <1>1, <1>5, <1>7, <2>1 DEF LogEntry, Locations
  <2> QED BY <2>2, <2>3, <2>4
<1> HIDE DEF e
<1>9. /\ log' = Append(log, e) /\ dynamic' = BatchUpdatePlusPlusCounts(added, delta) /\ cache' = cache
      /\ day' = day /\ checkpoint' = checkpoint /\ frozenEnd' = frozenEnd /\ frozen' = frozen
  BY <1>2, <1>4
<1> HIDE DEF added
<1>10. /\ Begins(log, log') /\ IsLog(log')
       /\ dynamic'.ok => Shape(dynamic') /\ Indexes(frozen, dynamic', log', frozenEnd)
  <2>1. dynamic' = BatchUpdatePlusPlusCounts(AddLogRecord(frozen, dynamic, e), delta)
    BY <1>9 DEF added
  <2>2. Posts(log, e, frozen, dynamic, frozenEnd, log', delta, dynamic')
    BY <1>1, <1>6, <1>7, <1>8, <1>9, <2>1 DEF Posts
  <2> QED BY <2>2, ZgramIsListed DEF Posted
<1>11. /\ Len(log) \in Nat /\ Len(log') = Len(log) + 1 /\ log'[Len(log')] = e
  BY <1>1, <1>8, <1>9 DEF IsLog
<1>12. RevisionsKnown(log')
  <2>1. \A i \in (Len(log) + 1)..Len(log') : log'[i].rec.tag # "revision"
    BY <1>7, <1>8, <1>11
  <2> QED BY <1>1, <1>10, <2>1, RevisionsStay
<1>13. CacheHolds(cache', log')
  BY <1>1, <1>9, <1>10, CacheStays
<1>14. /\ day' \in Nat /\ checkpoint' \in {Idle} \cup 0..Len(log') /\ frozenEnd' \in 0..Len(log')
  BY <1>1, <1>9, <1>11 DEF Idle
<1> QED BY <1>9, <1>10, <1>12, <1>13, <1>14 DEF IndexInv, Listed

\* The entries a batch makes in one kind of file.
EntriesOf(now, records, logged) ==
  LET own == RowsAt(records, {i \in DOMAIN records : DetermineLogged(now.dynamic, records[i]) = logged})
  IN  [i \in DOMAIN own |-> Entry(now, own[i], logged)]

LEMMA EntriesAreMetadata ==
    ASSUME NEW now, now.log \in Seq(LogEntry), day \in Nat, NEW records \in Seq(Offers), NEW logged \in BOOLEAN
    PROVE  /\ EntriesOf(now, records, logged) \in Seq(LogEntry)
           /\ \A e \in Members(EntriesOf(now, records, logged)) : \E i \in DOMAIN records : e.rec = records[i]
<1> DEFINE keep == {i \in DOMAIN records : DetermineLogged(now.dynamic, records[i]) = logged}
           own == RowsAt(records, keep)
           entries == [i \in DOMAIN own |-> Entry(now, own[i], logged)]
<1>1. EntriesOf(now, records, logged) = entries
  BY Zenon DEF EntriesOf
<1>2. keep \in SUBSET DOMAIN records
  OBVIOUS
<1> HIDE DEF keep
<1>3. own \in Seq(Offers) /\ Members(own) = {records[i] : i \in keep}
  BY <1>2, RowsAtMembers
<1>4. Len(own) \in Nat /\ DOMAIN own = 1..Len(own) /\ \A i \in DOMAIN own : own[i] \in Offers
  BY <1>3
<1> HIDE DEF own
<1>5. ASSUME NEW i \in DOMAIN own PROVE Entry(now, own[i], logged) \in LogEntry /\ Entry(now, own[i], logged).rec = own[i]
  <2>1. PICK offset : offset = Len(FileText(now.log, [day |-> day, logged |-> logged]))
    OBVIOUS
  <2>2. offset \in Nat
    BY <2>1, FileTextHolds
  <2>3. Entry(now, own[i], logged) = [day |-> day, logged |-> logged, rec |-> own[i],
                                      location |-> [day |-> day, logged |-> logged, offset |-> offset]]
    BY <2>1 DEF Entry
  <2>4. own[i] \in Records
    BY <1>4 DEF Records
  <2> QED BY <2>2, <2>3, <2>4 DEF LogEntry, Locations
<1>6. entries = [i \in 1..Len(own) |-> entries[i]] /\ \A i \in DOMAIN own : entries[i] = Entry(now, own[i], logged)
  BY <1>4
<1> HIDE DEF entries
<1>7. IsList(entries) /\ DOMAIN entries = DOMAIN own /\ Len(entries) = Len(own)
  BY <1>4, <1>6, EvaluatedIsIt
<1>8. entries \in Seq(LogEntry)
  <2>1. \A i \in DOMAIN entries : entries[i] \in LogEntry
    BY <1>5, <1>6, <1>7
  <2>2. entries \in [1..Len(own) -> LogEntry]
    BY <1>4, <1>6, <1>7, <2>1
  <2> QED BY <1>4, <2>2
<1>9. ASSUME NEW e \in Members(entries) PROVE \E i \in DOMAIN records : e.rec = records[i]
  <2>1. PICK i \in DOMAIN own : e = entries[i]
    BY <1>7 DEF Members
  <2>2. e.rec = own[i] /\ own[i] \in Members(own)
    BY <1>5, <1>6, <2>1 DEF Members
  <2> QED BY <1>2, <1>3, <2>2
<1> QED BY <1>1, <1>8, <1>9

LEMMA PostMetadataHolds ==
    ASSUME IndexInv, NEW records \in Batches, PostMetadata(records)
    PROVE  IndexInv'
<1>1. /\ day \in Nat /\ checkpoint \in {Idle} \cup 0..Len(log) /\ frozenEnd \in 0..Len(log)
      /\ IsLog(log) /\ RevisionsKnown(log) /\ CacheHolds(cache, log)
      /\ frozen.ok /\ dynamic.ok /\ Shape(dynamic) /\ Indexes(frozen, dynamic, log, frozenEnd)
      /\ \A i \in DOMAIN records : records[i].tag # "zmojis" => FindZgram(frozen, dynamic, records[i].id) # 0
  BY DEF IndexInv, Listed, PostMetadata, Running, Known
<1>2. records \in Seq(Offers) /\ \A i \in DOMAIN records : records[i].tag # "zgram"
  BY ContentsAssumption
<1>3. PICK now : /\ now = AddMetadata(Written, records)
                 /\ log' = now.log /\ dynamic' = now.dynamic /\ cache' = now.cache
                 /\ UNCHANGED <<day, checkpoint, builds, frozenEnd, frozen>>
  BY Zenon DEF PostMetadata, Write
<1>4. PICK w : w = Written
  OBVIOUS
<1>5. w.log = log /\ w.dynamic = dynamic /\ w.cache = cache
  BY <1>4 DEF Written
<1> DEFINE ppm == PpmAddAll(frozen, w.dynamic, records)
           entries(logged) == EntriesOf(w, records, logged)
<1>6. PICK meta, d :
        LET added == [w.dynamic EXCEPT !.metadata = meta]
            finished == PpmFinish(frozen, added, w.cache, w.log, ppm)
        IN  now = [log |-> w.log \o entries(TRUE) \o entries(FALSE),
                   dynamic |-> BatchUpdatePlusPlusCounts(added, finished.delta),
                   cache |-> finished.cache, delta |-> d]
  BY <1>3, <1>4, Zenon DEF AddMetadata, EntriesOf
<1> HIDE DEF ppm, entries
<1>7. PICK added, finished :
        /\ added = [dynamic EXCEPT !.metadata = meta]
        /\ finished = PpmFinish(frozen, added, cache, log, ppm)
        /\ log' = log \o entries(TRUE) \o entries(FALSE)
        /\ dynamic' = BatchUpdatePlusPlusCounts(added, finished.delta) /\ cache' = finished.cache
        /\ day' = day /\ checkpoint' = checkpoint /\ frozenEnd' = frozenEnd /\ frozen' = frozen
  <2>1. PICK added : added = [dynamic EXCEPT !.metadata = meta]
    OBVIOUS
  <2>2. PICK finished : finished = PpmFinish(frozen, added, cache, log, ppm)
    OBVIOUS
  <2>3. now = [log |-> log \o entries(TRUE) \o entries(FALSE),
               dynamic |-> BatchUpdatePlusPlusCounts(added, finished.delta),
               cache |-> finished.cache, delta |-> d]
    BY <1>5, <1>6, <2>1, <2>2, Zenon
  <2>4. /\ log' = log \o entries(TRUE) \o entries(FALSE)
        /\ dynamic' = BatchUpdatePlusPlusCounts(added, finished.delta) /\ cache' = finished.cache
    <3>1. PICK longer, counted : /\ longer = log \o entries(TRUE) \o entries(FALSE)
                                 /\ counted = BatchUpdatePlusPlusCounts(added, finished.delta)
      OBVIOUS
    <3>2. now = [log |-> longer, dynamic |-> counted, cache |-> finished.cache, delta |-> d]
      BY <2>3, <3>1, Zenon
    <3>3. now.log = longer /\ now.dynamic = counted /\ now.cache = finished.cache
      BY <3>2
    <3> QED BY <1>3, <3>1, <3>3, Zenon
  <2> QED BY <1>3, <2>1, <2>2, <2>4
<1>8. log \in Seq(LogEntry) /\ Len(log) \in Nat
  BY <1>1 DEF IsLog
<1>9. PICK rest : rest = entries(TRUE) \o entries(FALSE)
  OBVIOUS
<1>10. /\ rest \in Seq(LogEntry)
       /\ \A k \in DOMAIN rest : \E i \in DOMAIN records : rest[k].rec = records[i]
  <2>1. \A logged \in BOOLEAN : /\ entries(logged) \in Seq(LogEntry)
                                /\ \A e \in Members(entries(logged)) : \E i \in DOMAIN records : e.rec = records[i]
    BY <1>1, <1>2, <1>5, <1>8, EntriesAreMetadata DEF entries
  <2>2. IsList(entries(TRUE)) /\ IsList(entries(FALSE))
    BY <2>1, SequencesAreLists
  <2>3. Members(rest) = Members(entries(TRUE)) \cup Members(entries(FALSE))
    BY <1>9, <2>2, ConcatLists
  <2>4. \A e \in Members(rest) : \E i \in DOMAIN records : e.rec = records[i]
    BY <2>1, <2>3
  <2>5. \A k \in DOMAIN rest : rest[k] \in Members(rest)
    BY DEF Members
  <2>6. rest \in Seq(LogEntry)
    BY <1>9, <2>1, ConcatProperties
  <2> QED BY <2>4, <2>5, <2>6
<1>11. /\ Begins(log, log')
       /\ \A k \in (Len(log) + 1)..Len(log') : \E i \in DOMAIN records : log'[k].rec = records[i]
  <2>1. log' = log \o rest
    <3>1. entries(TRUE) \in Seq(LogEntry) /\ entries(FALSE) \in Seq(LogEntry)
      BY <1>1, <1>2, <1>5, <1>8, EntriesAreMetadata DEF entries
    <3>2. PICK a, b : a = entries(TRUE) /\ b = entries(FALSE)
      OBVIOUS
    <3>3. log' = (log \o a) \o b
      BY <1>7, <3>2, Zenon
    <3>4. (log \o a) \o b = log \o (a \o b)
      <4>1. log \in Seq(LogEntry) /\ a \in Seq(LogEntry) /\ b \in Seq(LogEntry)
        BY <1>8, <3>1, <3>2
      <4> QED BY <4>1, SMTT(30)
    <3>5. rest = a \o b
      BY <1>9, <3>2, Zenon
    <3> QED BY <3>3, <3>4, <3>5
  <2>2. /\ log' \in Seq(LogEntry) /\ Len(rest) \in Nat /\ Len(log') = Len(log) + Len(rest)
        /\ DOMAIN rest = 1..Len(rest)
        /\ \A i \in 1..Len(log) : log'[i] = log[i]
        /\ \A k \in 1..Len(rest) : log'[Len(log) + k] = rest[k]
    BY <1>8, <1>10, <2>1
  <2>3. ASSUME NEW k \in (Len(log) + 1)..Len(log') PROVE \E i \in DOMAIN records : log'[k].rec = records[i]
    <3>1. PICK n \in Nat : n = k - Len(log)
      BY <1>8
    <3>2. n \in 1..Len(rest) /\ k = Len(log) + n
      BY <1>8, <2>2, <3>1
    <3> QED BY <1>10, <2>2, <3>2
  <2> QED BY <1>8, <2>2, <2>3 DEF Begins
<1>12. \A k \in (Len(log) + 1)..Len(log') : log'[k].rec.tag # "zgram"
  BY <1>2, <1>11
<1>13. /\ Shape(added) /\ added.zgramInfos = dynamic.zgramInfos /\ added.ok = dynamic.ok
       /\ Indexes(frozen, added, log, frozenEnd)
  <2>1. Shape(added) /\ added.zgramInfos = dynamic.zgramInfos /\ added.ok = dynamic.ok
    BY <1>1, <1>7 DEF Shape
  <2> QED BY <1>1, <2>1 DEF Indexes
<1>14. Shape(dynamic') /\ dynamic'.zgramInfos = added.zgramInfos
  <2>1. PICK counts : dynamic' = [added EXCEPT !.metadata = counts]
    BY <1>7, Zenon DEF BatchUpdatePlusPlusCounts
  <2> QED BY <1>13, <2>1 DEF Shape
<1>15. IsLog(log') /\ Indexes(frozen, dynamic', log', frozenEnd)
  <2>1. Indexes(frozen, dynamic', log, frozenEnd)
    BY <1>13, <1>14 DEF Indexes
  <2> QED BY <1>1, <1>11, <1>12, <2>1, MetadataFollow
<1>16. RevisionsKnown(log')
  <2>1. ASSUME NEW k \in (Len(log) + 1)..Len(log'), log'[k].rec.tag = "revision"
        PROVE  \E j \in ZgramsAt(log) : log[j].rec.id = log'[k].rec.id
    <3>1. PICK i \in DOMAIN records : log'[k].rec = records[i]
      BY <1>11
    <3>2. PICK x, info : x = records[i].id /\ info = ZgramInfos(frozen, dynamic)[FindZgram(frozen, dynamic, x)]
      OBVIOUS
    <3>3. FindZgram(frozen, dynamic, x) # 0
      BY <1>1, <2>1, <3>1, <3>2
    <3>4. info.id = x /\ \E j \in ZgramsAt(log) : Tells(info, log[j])
      BY <1>1, <3>2, <3>3, FoundTells
    <3> QED BY <3>1, <3>2, <3>4 DEF Tells
  <2> QED BY <1>1, <1>11, <2>1, RevisionsStay
<1>17. CacheHolds(cache', log')
  <2>1. PICK p : p = ppm
    OBVIOUS
  <2>2. p = PpmAddAll(frozen, dynamic, records)
    BY <1>5, <2>1 DEF ppm
  <2>3. /\ IsList(p.locators)
        /\ \A x \in Members(p.locators) : \E i \in DOMAIN records : records[i].tag = "revision" /\ records[i].id = x
    BY <1>2, <2>2, LocatorsAreRevised
  <2>4. ASSUME NEW x \in Members(p.locators) PROVE FindZgram(frozen, added, x) # 0
    <3>1. FindZgram(frozen, dynamic, x) # 0
      BY <1>1, <2>3
    <3>2. PICK info : info = ZgramInfos(frozen, dynamic)[FindZgram(frozen, dynamic, x)]
      OBVIOUS
    <3>3. info.id = x /\ \E j \in ZgramsAt(log) : Tells(info, log[j])
      BY <1>1, <3>1, <3>2, FoundTells
    <3>4. PICK j \in ZgramsAt(log) : log[j].rec.id = x
      BY <3>3 DEF Tells
    <3> QED BY <1>1, <1>13, <3>4, ZgramIsFound
  <2>5. CacheHolds(PpmFinish(frozen, added, cache, log, p).cache, log)
    BY <1>1, <1>13, <2>3, <2>4, FinishHolds
  <2>6. CacheHolds(cache', log)
    BY <1>7, <2>1, <2>5
  <2> QED BY <1>11, <2>6, CacheStays
<1>18. day' \in Nat /\ checkpoint' \in {Idle} \cup 0..Len(log') /\ frozenEnd' \in 0..Len(log')
  <2>1. Len(log') \in Nat /\ Len(log) <= Len(log')
    BY <1>11 DEF Begins
  <2>2. \A n \in 0..Len(log) : n \in 0..Len(log')
    BY <1>8, <2>1
  <2>3. checkpoint' = Idle \/ checkpoint' \in 0..Len(log')
    BY <1>1, <1>7, <2>2
  <2> QED BY <1>1, <1>7, <2>2, <2>3
<1> QED BY <1>7, <1>14, <1>15, <1>16, <1>17, <1>18 DEF IndexInv, Listed

\* The identifiers are those of the zgrams of the log.
LEMMA ZgramsListed ==
    ASSUME IsLog(log)
    PROVE  /\ \A k \in DOMAIN Zgrams : \E i \in ZgramsAt(log) : Zgrams[k] = log[i]
           /\ \A i \in ZgramsAt(log) : \E k \in DOMAIN Zgrams : Zgrams[k] = log[i]
           /\ IsFiniteSet(Ids) /\ Ids \in SUBSET Int
<1>1. log \in Seq(LogEntry) /\ ZgramsAt(log) \in SUBSET DOMAIN log /\ Zgrams = RowsAt(log, ZgramsAt(log))
  BY DEF IsLog, ZgramsAt, Zgrams, IsZgram
<1>2. Zgrams \in Seq(LogEntry) /\ Members(Zgrams) = {log[i] : i \in ZgramsAt(log)}
  BY <1>1, RowsAtMembers
<1>3. \A k \in DOMAIN Zgrams : \E i \in ZgramsAt(log) : Zgrams[k] = log[i]
  <2>1. \A k \in DOMAIN Zgrams : Zgrams[k] \in Members(Zgrams)
    BY DEF Members
  <2> QED BY <1>2, <2>1
<1>4. \A i \in ZgramsAt(log) : \E k \in DOMAIN Zgrams : Zgrams[k] = log[i]
  <2>1. \A x \in Members(Zgrams) : \E k \in DOMAIN Zgrams : Zgrams[k] = x
    BY DEF Members
  <2> QED BY <1>2, <2>1
<1>5. IsFiniteSet(DOMAIN Zgrams)
  <2>1. DOMAIN Zgrams = 1..Len(Zgrams) /\ Len(Zgrams) \in Nat
    BY <1>2
  <2> QED BY <2>1, FS_Interval
<1>6. IsFiniteSet(Ids)
  <2>1. Ids = {Zgrams[i].rec.id : i \in DOMAIN Zgrams}
    BY DEF Ids
  <2> HIDE DEF Ids
  <2>2. IsFiniteSet({Zgrams[i].rec.id : i \in DOMAIN Zgrams})
    <3> DEFINE id(i) == Zgrams[i].rec.id
               given == {id(i) : i \in DOMAIN Zgrams}
               f == [i \in DOMAIN Zgrams |-> id(i)]
    <3>1. f \in Surjection(DOMAIN Zgrams, given)
      BY DEF Surjection
    <3>2. IsFiniteSet(given)
      <4> HIDE DEF f, given
      <4> QED BY <1>5, <3>1, FS_Surjection
    <3> QED BY <3>2
  <2> QED BY <2>1, <2>2
<1>7. Ids \in SUBSET Int
  BY <1>3 DEF IsLog, Ids
<1> QED BY <1>3, <1>4, <1>6, <1>7

LEMMA LookUpStepHolds ==
    ASSUME IndexInv, LookUp(Ids)
    PROVE  IndexInv'
<1>1. PICK ids : ids = Ids
  OBVIOUS
<1>2. /\ IsLog(log) /\ RevisionsKnown(log) /\ CacheHolds(cache, log)
      /\ Indexes(frozen, dynamic, log, frozenEnd)
      /\ \A id \in ids : FindZgram(frozen, dynamic, id) # 0
  BY <1>1 DEF IndexInv, Listed, LookUp, Running, Known
<1>3. cache' = LookupOrResolve(cache, log, InfosOf(ids)).cache
  BY <1>1, Zenon DEF LookUp
<1>4. UNCHANGED <<log, day, checkpoint, frozenEnd, frozen, dynamic>>
  BY DEF LookUp
<1>5. ids \in SUBSET Int /\ IsFiniteSet(ids)
  BY <1>1, <1>2, ZgramsListed
<1> DEFINE n == Cardinality(ids)
           found(k) == ZgramInfos(frozen, dynamic)[FindZgram(frozen, dynamic, Ascending(ids)[k])]
           infos == [k \in 1..n |-> found(k)]
<1>6. n \in Nat /\ \A k \in 1..n : Ascending(ids)[k] \in ids
  BY <1>5, AscendingLists
<1>7. ASSUME NEW k \in 1..n PROVE \E i \in ZgramsAt(log) : Tells(found(k), log[i])
  <2>1. PICK id, info : id = Ascending(ids)[k] /\ info = ZgramInfos(frozen, dynamic)[FindZgram(frozen, dynamic, id)]
    OBVIOUS
  <2>2. FindZgram(frozen, dynamic, id) # 0
    BY <1>2, <1>6, <2>1
  <2>3. \E i \in ZgramsAt(log) : Tells(info, log[i])
    BY <1>2, <2>1, <2>2, FoundTells
  <2> QED BY <2>1, <2>3
<1>8. infos = [k \in 1..n |-> infos[k]] /\ \A k \in 1..n : infos[k] = found(k)
  OBVIOUS
<1>9. InfosOf(ids) = infos
  BY Zenon DEF InfosOf
<1> HIDE DEF infos, found, n
<1>10. IsList(infos) /\ DOMAIN infos = 1..n
  BY <1>6, <1>8, EvaluatedIsIt
<1>11. CacheHolds(cache', log)
  <2>1. \A k \in DOMAIN infos : \E i \in ZgramsAt(log) : Tells(infos[k], log[i])
    BY <1>7, <1>8, <1>10
  <2>2. CacheHolds(LookupOrResolve(cache, log, infos).cache, log)
    BY <1>2, <1>10, <2>1, LookUpHolds
  <2> QED BY <1>3, <1>9, <2>2
<1> QED BY <1>2, <1>4, <1>11 DEF IndexInv, Listed

LEMMA InitHolds ==
    ASSUME StateInit
    PROVE  IndexInv
<1>1. /\ log = <<>> /\ day = 0 /\ checkpoint = Idle /\ frozenEnd = 0
      /\ frozen = BuildIndex(log, TRUE) /\ dynamic = EmptyIndex /\ cache = Nothing
  BY DEF StateInit, EmptyLog
<1>2. log \in Seq(LogEntry) /\ Len(log) = 0 /\ ZgramsAt(log) = {} /\ DOMAIN log = {}
  BY <1>1 DEF ZgramsAt
<1>3. IsLog(log) /\ RevisionsKnown(log)
  BY <1>2 DEF IsLog, RevisionsKnown
<1>4. CacheHolds(cache, log)
  <2>1. DOMAIN cache = {}
    BY <1>1 DEF Nothing
  <2> QED BY <2>1, FS_EmptySet, CapacityAssumption DEF CacheHolds
<1>5. Shape(dynamic) /\ dynamic.zgramInfos = <<>>
  BY <1>1 DEF EmptyIndex, Shape
<1>6. ASSUME frozen.ok PROVE Indexes(frozen, dynamic, log, frozenEnd)
  <2>1. Lists(frozen.zgramInfos, log, 0, Len(log))
    BY <1>1, <1>3, <1>6, BuildLists
  <2>2. Lists(dynamic.zgramInfos, log, 0, 0)
    <3>1. IsList(<<>>) /\ Members(<<>>) = {} /\ DOMAIN <<>> = {}
      BY DEF IsList, Members
    <3> QED BY <1>2, <1>5, <3>1 DEF Lists
  <2>3. Lists(frozen.zgramInfos, log, 0, 0) /\ Len(log) = 0 /\ frozenEnd = 0
    BY <1>1, <1>2, <2>1, Zenon
  <2>4. frozenEnd \in 0..Len(log)
    BY <2>3
  <2> QED BY <2>2, <2>3, <2>4, Zenon DEF Indexes
<1>7. Listed(log, cache, frozen, dynamic, frozenEnd)
  BY <1>3, <1>4, <1>5, <1>6 DEF Listed
<1>8. day \in Nat /\ checkpoint \in {Idle} \cup 0..Len(log) /\ frozenEnd \in 0..Len(log)
  <2>1. day = 0 /\ checkpoint = Idle /\ frozenEnd = 0 /\ Len(log) = 0
    BY <1>1, <1>2, Zenon
  <2> QED BY <2>1
<1> QED BY <1>7, <1>8 DEF IndexInv

\* A bootstrap behind an index that lists its part of the log.
LEMMA BootstrapStepHolds ==
    ASSUME IsLog(log), RevisionsKnown(log), NEW end \in 0..Len(log), NEW fz, Lists(fz.zgramInfos, log, 0, end),
           Bootstrap(fz, end)
    PROVE  Listed(log, cache', fz, dynamic', end)
<1>1. PICK b : b = Bootstrapped(fz, end) /\ dynamic' = b.dynamic /\ cache' = b.cache
  BY Zenon DEF Bootstrap
<1>2. CacheHolds(b.cache, log) /\ DynamicLists(b.dynamic, log, end)
  BY <1>1, BootstrapHolds
<1> QED BY <1>1, <1>2 DEF Listed, DynamicLists, Indexes

LEMMA ResetIndexHolds ==
    ASSUME IndexInv, ResetIndex
    PROVE  IndexInv'
<1>1. /\ day \in Nat /\ checkpoint \in 0..Len(log)
      /\ IsLog(log) /\ RevisionsKnown(log) /\ CacheHolds(cache, log)
  BY DEF IndexInv, Listed, ResetIndex
<1>2. PICK loggedFirst \in BOOLEAN : frozen' = BuildIndex(SubSeq(log, 1, checkpoint), loggedFirst)
  BY Zenon DEF ResetIndex
<1>3. /\ day' \in Nat /\ frozenEnd' = checkpoint /\ checkpoint' = Idle /\ log' = log
  <2>1. day' \in Today
    BY DEF ResetIndex
  <2>2. day' \in Nat
    BY <1>1, <2>1 DEF Today
  <2> QED BY <2>2 DEF ResetIndex
<1>4. PICK l : l = SubSeq(log, 1, checkpoint)
  OBVIOUS
<1>5. log \in Seq(LogEntry) /\ Len(log) \in Nat /\ checkpoint \in Nat /\ checkpoint <= Len(log)
  BY <1>1 DEF IsLog
<1>6. l \in Seq(LogEntry) /\ Len(l) = checkpoint /\ \A i \in 1..checkpoint : l[i] = log[i]
  <2>1. 0 \in 0..Len(log) /\ checkpoint \in 0..Len(log) /\ 0 + 1 = 1 /\ checkpoint - 0 = checkpoint
    BY <1>5
  <2>2. /\ SubSeq(log, 0 + 1, checkpoint) \in Seq(LogEntry)
        /\ Len(SubSeq(log, 0 + 1, checkpoint)) = checkpoint - 0
        /\ \A i \in 1..(checkpoint - 0) : SubSeq(log, 0 + 1, checkpoint)[i] = log[0 + i]
    BY <1>5, <2>1, RestOfLog
  <2>3. \A i \in 1..checkpoint : 0 + i = i
    OBVIOUS
  <2> QED BY <1>4, <2>1, <2>2, <2>3
<1>7. Begins(l, log) /\ IsLog(l)
  <2>1. Begins(l, log)
    BY <1>5, <1>6 DEF Begins
  <2> QED BY <1>1, <2>1, PrefixIsLog
<1>8. CASE frozen'.ok
  <2>1. Bootstrap(frozen', checkpoint)
    BY <1>8, Zenon DEF ResetIndex
  <2>2. Lists(frozen'.zgramInfos, log, 0, checkpoint)
    <3>1. PICK fz : fz = frozen'
      OBVIOUS
    <3>2. Lists(fz.zgramInfos, l, 0, Len(l))
      BY <1>2, <1>4, <1>7, <1>8, <3>1, BuildLists
    <3>3. Len(l) \in 0..Len(l)
      BY <1>5, <1>6
    <3> QED BY <1>6, <1>7, <3>1, <3>2, <3>3, ListsStay
  <2>3. Listed(log, cache', frozen', dynamic', checkpoint)
    BY <1>1, <2>1, <2>2, BootstrapStepHolds
  <2> QED BY <1>1, <1>3, <2>3 DEF IndexInv
<1>9. CASE ~frozen'.ok
  <2>1. UNCHANGED <<dynamic, cache>>
    BY <1>9, Zenon DEF ResetIndex
  <2>2. Listed(log', cache', frozen', dynamic', frozenEnd')
    BY <1>1, <1>3, <1>9, <2>1 DEF Listed
  <2> QED BY <1>1, <1>3, <2>2 DEF IndexInv
<1> QED BY <1>8, <1>9

LEMMA RestartHolds ==
    ASSUME IndexInv, Restart
    PROVE  IndexInv'
<1>1. /\ day \in Nat /\ frozenEnd \in 0..Len(log) /\ IsLog(log) /\ RevisionsKnown(log)
      /\ Lists(frozen.zgramInfos, log, 0, frozenEnd)
  BY DEF IndexInv, Listed, Indexes, Restart, Running
<1>2. /\ day' \in Nat /\ frozenEnd' = frozenEnd /\ checkpoint' = Idle /\ log' = log /\ frozen' = frozen
  <2>1. day' \in Today
    BY DEF Restart
  <2>2. day' \in Nat
    BY <1>1, <2>1 DEF Today
  <2> QED BY <2>2 DEF Restart
<1>3. Bootstrap(frozen, frozenEnd)
  BY Zenon DEF Restart
<1>4. Listed(log, cache', frozen, dynamic', frozenEnd)
  BY <1>1, <1>3, BootstrapStepHolds
<1> QED BY <1>1, <1>2, <1>4 DEF IndexInv

LEMMA NextHolds ==
    ASSUME IndexInv, [Next]_vars
    PROVE  IndexInv'
<1>1. ASSUME NEW draft \in Drafts, PostZgram(draft) PROVE IndexInv'
  BY <1>1, PostZgramHolds
<1>2. ASSUME NEW batch \in Batches, PostMetadata(batch) PROVE IndexInv'
  BY <1>2, PostMetadataHolds
<1>3. CASE StartReindexing
  <2>1. Len(log) \in Nat
    BY DEF IndexInv, Listed, IsLog
  <2>2. Len(log) \in 0..Len(log)
    BY <2>1
  <2> QED BY <1>3, <2>2 DEF IndexInv, StartReindexing
<1>4. CASE ResetIndex
  BY <1>4, ResetIndexHolds
<1>5. CASE Restart
  BY <1>5, RestartHolds
<1>6. CASE LookUp(Ids)
  BY <1>6, LookUpStepHolds
<1>7. ASSUME NEW batch \in Batches, PostBeforeZgrams(batch) PROVE IndexInv'
  BY <1>7, RestartHolds DEF PostBeforeZgrams
<1>8. CASE UNCHANGED vars
  BY <1>8 DEF IndexInv, vars, stateVars
<1> QED BY <1>1, <1>2, <1>3, <1>4, <1>5, <1>6, <1>7, <1>8 DEF Next

-------------------------------------------------------------------------------
(* The cache                                                                   *)

LEMMA HeldIsOriginal ==
    ASSUME IsLog(log), NEW i \in ZgramsAt(log)
    PROVE  log[i].rec.id \in Ids /\ Original(log[i].rec.id) = log[i].rec
<1>1. PICK id : id = log[i].rec.id
  OBVIOUS
<1>2. PICK z : z = Zgrams
  OBVIOUS
<1>3. /\ \A k \in DOMAIN z : \E j \in ZgramsAt(log) : z[k] = log[j]
      /\ \E k \in DOMAIN z : z[k] = log[i]
  BY <1>2, ZgramsListed
<1>4. id \in Ids
  BY <1>1, <1>2, <1>3 DEF Ids
<1>5. PICK k : k = CHOOSE n \in DOMAIN z : z[n].rec.id = id
  OBVIOUS
<1>6. k \in DOMAIN z /\ z[k].rec.id = id
  BY <1>1, <1>3, <1>5
<1>7. PICK j \in ZgramsAt(log) : z[k] = log[j]
  BY <1>3, <1>6
<1>8. j = i
  <2>1. i \in Nat /\ j \in Nat /\ log[i].rec.id = log[j].rec.id /\ log[i].rec.id \in Nat
    BY <1>1, <1>6, <1>7 DEF IsLog, ZgramsAt
  <2>2. ~(i < j) /\ ~(j < i)
    BY <2>1 DEF IsLog
  <2> QED BY <2>1, <2>2
<1> QED BY <1>1, <1>2, <1>4, <1>5, <1>7, <1>8 DEF Original

LEMMA CacheIsRight == IndexInv => CacheIsTrue
<1> SUFFICES ASSUME IndexInv PROVE CacheIsTrue
  OBVIOUS
<1>1. IsLog(log) /\ CacheHolds(cache, log)
  BY DEF IndexInv, Listed
<1>2. ASSUME NEW id \in DOMAIN cache PROVE id \in Ids /\ cache[id] = Original(id)
  <2>1. PICK i \in ZgramsAt(log) : log[i].rec.id = id /\ cache[id] = log[i].rec
    BY <1>1 DEF CacheHolds
  <2> QED BY <1>1, <2>1, HeldIsOriginal
<1> QED BY <1>1, <1>2 DEF CacheHolds, CacheIsTrue

\* A running backend finds every zgram of the log files, and where the index
\* says a zgram is, there is the record it was posted as.
EveryZgramIsFound ==
  Running => \A id \in Ids :
    /\ Known(id)
    /\ ZgramAt(log, ZgramInfos(frozen, dynamic)[FindZgram(frozen, dynamic, id)].location) = Original(id)

LEMMA ZgramsAreRight == IndexInv => EveryZgramIsFound
<1> SUFFICES ASSUME IndexInv, frozen.ok, dynamic.ok, NEW id \in Ids
             PROVE  /\ Known(id)
                    /\ ZgramAt(log, ZgramInfos(frozen, dynamic)[FindZgram(frozen, dynamic, id)].location) = Original(id)
  BY DEF EveryZgramIsFound, Running
<1>1. IsLog(log) /\ Indexes(frozen, dynamic, log, frozenEnd)
  BY DEF IndexInv, Listed
<1>2. PICK i \in ZgramsAt(log) : log[i].rec.id = id
  BY <1>1, ZgramsListed DEF Ids
<1>3. FindZgram(frozen, dynamic, id) # 0
  BY <1>1, <1>2, ZgramIsFound
<1>4. PICK info : info = ZgramInfos(frozen, dynamic)[FindZgram(frozen, dynamic, id)]
  OBVIOUS
<1>5. info.id = id /\ \E j \in ZgramsAt(log) : Tells(info, log[j])
  BY <1>1, <1>3, <1>4, FoundTells
<1>6. PICK j \in ZgramsAt(log) : Tells(info, log[j])
  BY <1>5
<1>7. log[j].rec.id = id /\ info.location = log[j].location
  BY <1>5, <1>6 DEF Tells
<1>8. ZgramAt(log, log[j].location) = log[j].rec
  BY <1>1, ZgramIsThere
<1>9. Original(id) = log[j].rec
  BY <1>1, <1>7, HeldIsOriginal
<1> QED BY <1>3, <1>4, <1>7, <1>8, <1>9 DEF Known

\* What the zgram cache holds is what the log files hold, and it holds no more
\* than it may, however posts, metadata, rebuilds, restarts and look-ups follow
\* one another: ZgramCache trusts the locations of the two indexes.
THEOREM CacheTheorem == Spec => []CacheIsTrue
<1>1. StateInit => IndexInv
  BY InitHolds
<1>2. IndexInv /\ [Next]_vars => IndexInv'
  BY NextHolds
<1> QED BY <1>1, <1>2, CacheIsRight, PTL DEF Spec

\* Whatever posts, metadata, rebuilds, restarts and look-ups came before, a
\* running backend finds each zgram of the log files by its identifier, in the
\* frozen or in the dynamic index, and reads it where that says it is.
THEOREM FoundTheorem == Spec => []EveryZgramIsFound
<1>1. StateInit => IndexInv
  BY InitHolds
<1>2. IndexInv /\ [Next]_vars => IndexInv'
  BY NextHolds
<1> QED BY <1>1, <1>2, ZgramsAreRight, PTL DEF Spec
===============================================================================
