----------------------------- MODULE TextProofs ------------------------------
(***************************************************************************)
(* Theorems about TextReading, for every text, every query and every table  *)
(* of look-alikes: the tokens of a text are its words, the scanner finds    *)
(* every mention, and the machine made of a query's word accepts what the   *)
(* word means, whatever squish merged on the way.                           *)
(***************************************************************************)
EXTENDS TextReading, FiniteSetTheorems, SequenceTheorems, WellFoundedInduction, TLAPS

-------------------------------------------------------------------------------
(* Numbers                                                                     *)

LEMMA SmallestElement ==
    ASSUME NEW T \in SUBSET Nat, T # {}
    PROVE  \E x \in T : \A y \in T : x <= y
<1>1. \A x, y \in Nat : <<y, x>> \in OpToRel(<, Nat) => y < x
  BY Zenon DEF OpToRel
<1>2. \A x, y \in Nat : y < x => <<y, x>> \in OpToRel(<, Nat)
  BY Zenon DEF OpToRel
<1>3. PICK R : IsWellFoundedOn(R, Nat) /\ \A x, y \in Nat : <<y, x>> \in R <=> y < x
  BY NatLessThanWellFounded, <1>1, <1>2, Zenon
<1>4. PICK x \in T : \A y \in T : <<y, x>> \notin R
  BY <1>3, WFMin
<1>5. ASSUME NEW y \in T PROVE x <= y
  <2>1. x \in Nat /\ y \in Nat
    OBVIOUS
  <2>2. ~(y < x)
    BY <1>3, <1>4, <2>1, Zenon
  <2> QED BY <2>1, <2>2
<1> QED BY <1>5

LEMMA GreatestElement ==
    ASSUME NEW T \in SUBSET Nat, T # {}, NEW n \in Nat, \A x \in T : x <= n
    PROVE  \E x \in T : \A y \in T : y <= x
<1> DEFINE S == {m \in Nat : \E x \in T : m + x = n}
<1>1. ASSUME NEW x \in T PROVE \E m \in S : m + x = n
  <2>1. x \in Nat /\ x <= n
    OBVIOUS
  <2>2. n - x \in Nat /\ (n - x) + x = n
    BY <2>1
  <2> QED BY <2>2
<1>2. PICK least \in S : \A y \in S : least <= y
  <2>1. S \in SUBSET Nat /\ S # {}
    BY <1>1
  <2> HIDE DEF S
  <2> QED BY <2>1, SmallestElement
<1>3. PICK x \in T : least + x = n
  OBVIOUS
<1>4. ASSUME NEW y \in T PROVE y <= x
  <2>1. PICK m \in S : m + y = n
    BY <1>1
  <2>2. least <= m /\ m \in Nat /\ least \in Nat /\ x \in Nat /\ y \in Nat
    BY <1>2
  <2> QED BY <1>3, <2>1, <2>2
<1> QED BY <1>4

-------------------------------------------------------------------------------
(* The words of a text                                                         *)

WordChar(ch) == IsAlphabet(ch) \/ ch = Apostrophe

LEMMA ApostropheIsNoLetter == ~IsAlphabet(Apostrophe)
BY DEF IsAlphabet, IsLetter, IsUpper, IsLower, IsDigit, Apostrophe

LEMMA SpaceIsNoLetter == \A ch \in Nat : IsAlphabet(ch) => ~IsWhitespace(ch)
BY DEF IsWhitespace, IsAlphabet, IsLetter, IsUpper, IsLower, IsDigit, Space

LEMMA WordRunStops ==
    ASSUME NEW t \in Seq(Nat), NEW at \in 1..Len(t)
    PROVE  /\ WordRun(t, at) \in (at - 1)..Len(t)
           /\ \A i \in at..WordRun(t, at) : WordChar(t[i])
           /\ WordRun(t, at) = Len(t) \/ ~WordChar(t[WordRun(t, at) + 1])
<1> DEFINE T == {n \in (at - 1)..Len(t) : \A i \in at..n : WordChar(t[i])}
<1>1. T \in SUBSET Nat /\ at - 1 \in T /\ Len(t) \in Nat /\ \A n \in T : n <= Len(t)
  OBVIOUS
<1>2. PICK n \in T : \A m \in T : m <= n
  <2> HIDE DEF T
  <2> QED BY <1>1, GreatestElement
<1>3. n = Len(t) \/ ~WordChar(t[n + 1])
  <2> SUFFICES ASSUME n # Len(t), WordChar(t[n + 1]) PROVE FALSE
    OBVIOUS
  <2>1. n + 1 \in T
    OBVIOUS
  <2> QED BY <2>1, <1>2
<1>4. WordRun(t, at) = CHOOSE r \in (at - 1)..Len(t) :
                         /\ \A i \in at..r : WordChar(t[i])
                         /\ r = Len(t) \/ ~WordChar(t[r + 1])
  BY Zenon DEF WordRun, LastWhile, WordChar
<1> HIDE DEF WordChar
<1> QED BY <1>2, <1>3, <1>4

LEMMA WordEndIsALetter ==
    ASSUME NEW t \in Seq(Nat), NEW at \in 1..Len(t), IsAlphabet(t[at])
    PROVE  /\ WordEnd(t, at) \in at..Len(t)
           /\ IsAlphabet(t[WordEnd(t, at)])
           /\ \A i \in at..WordEnd(t, at) : WordChar(t[i])
           /\ \A p \in Places(t) :
                Wordy(t, p) /\ at <= p[1] /\ p[1] <= WordEnd(t, at) => p[2] <= WordEnd(t, at)
<1> DEFINE r == WordRun(t, at)
           T == {n \in at..r : t[n] # Apostrophe}
<1>1. /\ r \in (at - 1)..Len(t) /\ Len(t) \in Nat
      /\ \A i \in at..r : WordChar(t[i])
      /\ r = Len(t) \/ ~WordChar(t[r + 1])
  BY WordRunStops
<1>2. t[at] # Apostrophe
  BY ApostropheIsNoLetter
<1>3. at \in T
  <2>1. WordChar(t[at])
    BY DEF WordChar
  <2> HIDE DEF r
  <2>2. at <= r
    BY <1>1, <2>1
  <2> QED BY <1>1, <1>2, <2>2
<1> HIDE DEF r
<1>4. PICK n \in T : \A m \in T : m <= n
  <2>1. T \in SUBSET Nat /\ T # {} /\ r \in Nat /\ \A m \in T : m <= r
    BY <1>1, <1>3
  <2> HIDE DEF T
  <2> QED BY <2>1, GreatestElement
<1>5. n \in at..r /\ t[n] # Apostrophe /\ \A i \in (n + 1)..r : t[i] = Apostrophe
  BY <1>1, <1>4
<1>6. WordEnd(t, at) = CHOOSE e \in at..r : /\ t[e] # Apostrophe
                                            /\ \A i \in (e + 1)..r : t[i] = Apostrophe
  BY DEF WordEnd, r
<1> DEFINE e == WordEnd(t, at)
<1>7. e \in at..r /\ t[e] # Apostrophe /\ \A i \in (e + 1)..r : t[i] = Apostrophe
  BY <1>5, <1>6
<1> HIDE DEF e
<1>8. e \in at..Len(t) /\ \A i \in at..e : WordChar(t[i])
  BY <1>1, <1>7
<1>9. IsAlphabet(t[e])
  BY <1>7, <1>8 DEF WordChar
<1>10. ASSUME NEW p \in Places(t), Wordy(t, p), at <= p[1], p[1] <= e, p[2] > e
       PROVE  FALSE
  <2>1. PICK i \in 1..Len(t), j \in 1..Len(t) : p = <<i, j>> /\ i <= j
    BY DEF Places
  <2>2. IsAlphabet(t[j]) /\ \A k \in i..j : WordChar(t[k])
    BY <1>10, <2>1 DEF Wordy, WordChar
  <2>3. at <= i /\ i <= e /\ e < j
    BY <1>10, <2>1
  <2>4. CASE j <= r
    <3>1. t[j] = Apostrophe
      BY <2>3, <2>4, <1>7, <1>1
    <3> QED BY <3>1, <2>2, ApostropheIsNoLetter
  <2>5. CASE j > r
    <3>1. r + 1 \in i..j /\ r # Len(t)
      BY <2>3, <2>5, <1>7, <1>1
    <3> QED BY <3>1, <2>2, <1>1
  <2> QED BY <2>4, <2>5, <1>1
<1> QED
  <2>1. \A p \in Places(t) : Wordy(t, p) /\ at <= p[1] /\ p[1] <= e => p[2] <= e
    <3> SUFFICES ASSUME NEW p \in Places(t), Wordy(t, p), at <= p[1], p[1] <= e
                 PROVE p[2] <= e
      OBVIOUS
    <3>1. e \in Nat /\ p[2] \in Nat
      BY <1>8 DEF Places
    <3> QED BY <1>10, <3>1
  <2> QED BY <1>8, <1>9, <2>1 DEF e

\* No word goes on across the place.
Clear(t, at) == \A p \in Places(t) : Wordy(t, p) => p[2] < at \/ at <= p[1]

\* The words and single characters from the place on.
Rest(t, at) == {p \in Spans(t) : at <= p[1]}

LEMMA PlacesArePairs ==
    ASSUME NEW t \in Seq(Nat)
    PROVE  /\ Len(t) \in Nat
           /\ \A p \in Places(t) : /\ p = <<p[1], p[2]>> /\ p[1] <= p[2]
                                   /\ p[1] \in 1..Len(t) /\ p[2] \in 1..Len(t)
           /\ \A i, j \in 1..Len(t) : i <= j => <<i, j>> \in Places(t)
           /\ Widest(t) \subseteq Places(t) /\ Single(t) \subseteq Places(t)
           /\ Spans(t) \subseteq Places(t)
<1>1. Widest(t) \subseteq Places(t)
  BY DEF Widest
<1>2. \A i, j \in 1..Len(t) : i <= j => <<i, j>> \in Places(t)
  BY DEF Places
<1>3. Single(t) \subseteq Places(t)
  BY <1>2 DEF Single
<1> QED BY <1>1, <1>2, <1>3 DEF Places, Spans

LEMMA AWordIsASpan ==
    ASSUME NEW t \in Seq(Nat), NEW at \in 1..Len(t), Clear(t, at), IsAlphabet(t[at])
    PROVE  /\ <<at, WordEnd(t, at)>> \in Widest(t)
           /\ Clear(t, WordEnd(t, at) + 1)
           /\ Rest(t, at) = {<<at, WordEnd(t, at)>>} \cup Rest(t, WordEnd(t, at) + 1)
<1>1. PICK e : e = WordEnd(t, at)
  OBVIOUS
<1>2. /\ e \in at..Len(t) /\ IsAlphabet(t[e])
      /\ \A i \in at..e : WordChar(t[i])
      /\ \A p \in Places(t) : Wordy(t, p) /\ at <= p[1] /\ p[1] <= e => p[2] <= e
  BY <1>1, WordEndIsALetter
<1>3. PICK word : word = <<at, e>>
  OBVIOUS
<1>4. word \in Places(t) /\ Wordy(t, word)
  BY <1>2, <1>3, PlacesArePairs DEF Wordy, WordChar
<1>5. \A q \in Places(t) : Wordy(t, q) /\ q[1] <= word[1] /\ word[2] <= q[2] => q = word
  <2> SUFFICES ASSUME NEW q \in Places(t), Wordy(t, q), q[1] <= at, e <= q[2]
               PROVE  q = word
    BY <1>3
  <2>1. at <= q[1] /\ q[2] <= e
    BY <1>2, PlacesArePairs DEF Clear
  <2> QED BY <2>1, <1>2, <1>3, PlacesArePairs
<1>6. word \in Widest(t)
  BY <1>4, <1>5 DEF Widest
<1>7. Clear(t, e + 1)
  <2> SUFFICES ASSUME NEW p \in Places(t), Wordy(t, p)
               PROVE  p[2] < e + 1 \/ e + 1 <= p[1]
    BY DEF Clear
  <2>1. p[2] < at \/ at <= p[1]
    BY DEF Clear
  <2>2. p[1] \in Nat /\ p[2] \in Nat /\ e \in Nat /\ at \in Nat /\ at <= e
    BY <1>2, PlacesArePairs
  <2>3. at <= p[1] /\ p[1] <= e => p[2] <= e
    BY <1>2
  <2> QED BY <2>1, <2>2, <2>3
<1>8. ASSUME NEW s \in Spans(t), at <= s[1], s[1] <= e PROVE s = word
  <2>1. CASE s \in Widest(t)
    <3>1. Wordy(t, s) /\ s \in Places(t)
      BY <2>1 DEF Widest
    <3>2. word[1] <= s[1] /\ s[2] <= word[2]
      BY <3>1, <1>2, <1>3, <1>8
    <3> QED BY <3>1, <3>2, <2>1, <1>4 DEF Widest
  <2>2. CASE s \in Single(t)
    <3>1. PICK k \in 1..Len(t) : s = <<k, k>> /\ \A p \in Widest(t) : k \notin p[1]..p[2]
      BY <2>2 DEF Single
    <3>2. k \notin at..e
      BY <3>1, <1>3, <1>6
    <3>3. s[1] = k
      BY <3>1
    <3> QED BY <3>2, <3>3, <1>2, <1>8
  <2> QED BY <2>1, <2>2 DEF Spans
<1>9. Rest(t, at) = {word} \cup Rest(t, e + 1)
  <2>1. ASSUME NEW s \in Rest(t, at) PROVE s = word \/ s \in Rest(t, e + 1)
    <3>1. s \in Spans(t) /\ at <= s[1] /\ s[1] \in Nat
      BY <2>1, PlacesArePairs DEF Rest
    <3>2. s[1] <= e \/ e + 1 <= s[1]
      BY <3>1, <1>2
    <3> QED BY <3>1, <3>2, <1>8 DEF Rest
  <2>2. word \in Rest(t, at)
    BY <1>3, <1>6 DEF Rest, Spans
  <2>3. ASSUME NEW s \in Rest(t, e + 1) PROVE s \in Rest(t, at)
    <3>1. s \in Spans(t) /\ e + 1 <= s[1] /\ s[1] \in Nat
      BY <2>3, PlacesArePairs DEF Rest
    <3> QED BY <3>1, <1>2 DEF Rest
  <2> QED BY <2>1, <2>2, <2>3
<1> QED BY <1>1, <1>3, <1>6, <1>7, <1>9

\* A character no word begins with: at the place there is at most itself.
LEMMA ACharacterByItself ==
    ASSUME NEW t \in Seq(Nat), NEW at \in 1..Len(t), Clear(t, at), ~IsAlphabet(t[at])
    PROVE  /\ Clear(t, at + 1)
           /\ Rest(t, at) = (IF IsWhitespace(t[at]) THEN {} ELSE {<<at, at>>}) \cup Rest(t, at + 1)
<1>1. \A p \in Places(t) : Wordy(t, p) => p[2] < at \/ at + 1 <= p[1]
  <2> SUFFICES ASSUME NEW p \in Places(t), Wordy(t, p) PROVE p[2] < at \/ at + 1 <= p[1]
    OBVIOUS
  <2>1. p[1] # at
    BY DEF Wordy
  <2>2. p[1] \in Nat /\ (p[2] < at \/ at <= p[1])
    BY PlacesArePairs DEF Clear
  <2> QED BY <2>1, <2>2
<1>2. \A p \in Widest(t) : at \notin p[1]..p[2]
  <2> SUFFICES ASSUME NEW p \in Widest(t), at \in p[1]..p[2] PROVE FALSE
    OBVIOUS
  <2>1. Wordy(t, p) /\ p \in Places(t)
    BY DEF Widest
  <2> QED BY <2>1, <1>1, PlacesArePairs
<1>3. \A s \in Spans(t) : s[1] = at => s = <<at, at>> /\ ~IsWhitespace(t[at])
  <2> SUFFICES ASSUME NEW s \in Spans(t), s[1] = at PROVE s = <<at, at>> /\ ~IsWhitespace(t[at])
    OBVIOUS
  <2>1. s \notin Widest(t)
    <3> SUFFICES ASSUME s \in Widest(t) PROVE FALSE
      OBVIOUS
    <3>1. s \in Places(t)
      BY DEF Widest
    <3> QED BY <3>1, <1>2, PlacesArePairs
  <2>2. PICK k \in 1..Len(t) : s = <<k, k>> /\ ~IsWhitespace(t[k])
    BY <2>1 DEF Spans, Single
  <2> QED BY <2>2
<1>4. ~IsWhitespace(t[at]) => <<at, at>> \in Spans(t)
  BY <1>2 DEF Spans, Single
<1>5. \A s \in Rest(t, at) : s \in Rest(t, at + 1) \/ (s = <<at, at>> /\ ~IsWhitespace(t[at]))
  <2> SUFFICES ASSUME NEW s \in Rest(t, at), s \notin Rest(t, at + 1)
               PROVE  s = <<at, at>> /\ ~IsWhitespace(t[at])
    OBVIOUS
  <2>1. s \in Spans(t) /\ at <= s[1] /\ s[1] \in Nat /\ ~(at + 1 <= s[1])
    BY PlacesArePairs DEF Rest
  <2>2. s[1] = at
    BY <2>1
  <2> QED BY <2>1, <2>2, <1>3
<1>6. \A s \in Rest(t, at + 1) : s \in Rest(t, at)
  <2> SUFFICES ASSUME NEW s \in Rest(t, at + 1) PROVE s \in Rest(t, at)
    OBVIOUS
  <2>1. s \in Spans(t) /\ at + 1 <= s[1] /\ s[1] \in Nat
    BY PlacesArePairs DEF Rest
  <2> QED BY <2>1 DEF Rest
<1>7. ~IsWhitespace(t[at]) => <<at, at>> \in Rest(t, at)
  BY <1>4 DEF Rest
<1>8. Clear(t, at + 1)
  <2> SUFFICES ASSUME NEW p \in Places(t), Wordy(t, p) PROVE p[2] < at + 1 \/ at + 1 <= p[1]
    BY DEF Clear
  <2>1. p[2] \in Nat /\ (p[2] < at \/ at + 1 <= p[1])
    BY <1>1, PlacesArePairs
  <2> QED BY <2>1
<1>9. Rest(t, at) = (IF IsWhitespace(t[at]) THEN {} ELSE {<<at, at>>}) \cup Rest(t, at + 1)
  BY <1>5, <1>6, <1>7
<1> QED BY <1>8, <1>9

LEMMA NothingBehindTheEnd ==
    ASSUME NEW t \in Seq(Nat)
    PROVE  Rest(t, Len(t) + 1) = {}
<1> SUFFICES ASSUME NEW s \in Rest(t, Len(t) + 1) PROVE FALSE
  OBVIOUS
<1>1. s \in Places(t) /\ Len(t) + 1 <= s[1]
  BY PlacesArePairs DEF Rest
<1> QED BY <1>1, PlacesArePairs

LEMMA EverythingFromTheStart ==
    ASSUME NEW t \in Seq(Nat)
    PROVE  Clear(t, 1) /\ Rest(t, 1) = Spans(t)
<1>1. \A p \in Places(t) : 1 <= p[1]
  BY PlacesArePairs
<1>2. \A s \in Spans(t) : 1 <= s[1]
  BY <1>1, PlacesArePairs
<1> QED BY <1>1, <1>2 DEF Clear, Rest

\* What stands behind a place, from what stands behind the later ones.
SplitStep(t, from, at) ==
  IF at > Len(t) THEN <<>>
  ELSE IF IsWhitespace(t[at]) THEN from[at + 1]
  ELSE IF IsAlphabet(t[at])
  THEN <<SubSeq(t, at, WordEnd(t, at))>> \o from[WordEnd(t, at) + 1]
  ELSE <<<<t[at]>>>> \o from[at + 1]

\* The recursive definition has a solution: each place refers to later ones.
LEMMA SplitFromSolves ==
    ASSUME NEW t \in Seq(Nat)
    PROVE  \A at \in 1..(Len(t) + 1) : SplitFrom(t)[at] = SplitStep(t, SplitFrom(t), at)
<1> DEFINE D == 1..(Len(t) + 1)
           T == {n \in D : \E f : \A at \in n..(Len(t) + 1) : f[at] = SplitStep(t, f, at)}
<1>1. Len(t) \in Nat
  OBVIOUS
<1>2. Len(t) + 1 \in T
  <2> DEFINE f == [at \in D |-> <<>>]
  <2>1. \A at \in (Len(t) + 1)..(Len(t) + 1) : f[at] = SplitStep(t, f, at)
    BY <1>1 DEF SplitStep
  <2> HIDE DEF f
  <2> QED BY <1>1, <2>1
<1>3. PICK n \in T : \A m \in T : n <= m
  <2>1. T \in SUBSET Nat /\ T # {}
    BY <1>2
  <2> HIDE DEF T
  <2> QED BY <2>1, SmallestElement
<1>4. PICK f : \A at \in n..(Len(t) + 1) : f[at] = SplitStep(t, f, at)
  OBVIOUS
<1>5. n = 1
  <2> SUFFICES ASSUME n # 1 PROVE FALSE
    OBVIOUS
  <2>1. n \in 2..(Len(t) + 1)
    BY <1>3
  <2> DEFINE g == [at \in D |-> IF at = n - 1 THEN SplitStep(t, f, n - 1) ELSE f[at]]
  <2>2. \A at \in n..(Len(t) + 1) : g[at] = f[at]
    BY <2>1
  <2>3. g[n - 1] = SplitStep(t, f, n - 1)
    BY <2>1
  <2> HIDE DEF g
  <2>4. ASSUME NEW at \in (n - 1)..(Len(t) + 1) PROVE SplitStep(t, g, at) = SplitStep(t, f, at)
    <3>1. CASE at = Len(t) + 1
      BY <3>1, <1>1 DEF SplitStep
    <3>2. CASE at \in 1..Len(t)
      <4>1. at + 1 \in n..(Len(t) + 1)
        BY <3>2, <2>1
      <4>2. IsAlphabet(t[at]) => WordEnd(t, at) + 1 \in n..(Len(t) + 1)
        BY <3>2, <2>1, WordEndIsALetter
      <4> QED BY <4>1, <4>2, <2>2 DEF SplitStep
    <3> QED BY <3>1, <3>2, <2>1
  <2>5. \A at \in (n - 1)..(Len(t) + 1) : g[at] = SplitStep(t, g, at)
    <3> SUFFICES ASSUME NEW at \in (n - 1)..(Len(t) + 1) PROVE g[at] = SplitStep(t, g, at)
      OBVIOUS
    <3>1. SplitStep(t, g, at) = SplitStep(t, f, at)
      BY <2>4
    <3>2. at = n - 1 \/ at \in n..(Len(t) + 1)
      BY <2>1
    <3> QED BY <3>1, <3>2, <2>2, <2>3, <1>4
  <2>6. n - 1 \in T
    BY <2>5, <2>1
  <2> HIDE DEF T
  <2>7. n <= n - 1
    BY <2>6, <1>3
  <2> QED BY <2>7, <2>1
<1>6. \E g : g = [at \in D |-> SplitStep(t, g, at)]
  <2> DEFINE g == [at \in D |-> f[at]]
  <2>1. \A at \in D : g[at] = f[at]
    OBVIOUS
  <2>2. ASSUME NEW at \in D PROVE SplitStep(t, g, at) = f[at]
    <3>1. f[at] = SplitStep(t, f, at)
      BY <1>4, <1>5
    <3>2. CASE at = Len(t) + 1
      BY <3>1, <3>2, <1>1 DEF SplitStep
    <3>3. CASE at \in 1..Len(t)
      <4>1. at + 1 \in D
        BY <3>3
      <4>2. IsAlphabet(t[at]) => WordEnd(t, at) + 1 \in D
        BY <3>3, WordEndIsALetter
      <4> HIDE DEF g, D
      <4> QED BY <4>1, <4>2, <3>1, <2>1 DEF SplitStep
    <3> QED BY <3>2, <3>3, <1>1
  <2>3. g = [at \in D |-> SplitStep(t, g, at)]
    BY <2>2
  <2> HIDE DEF g
  <2> QED BY <2>3
<1>7. SplitFrom(t) = [at \in D |-> SplitStep(t, SplitFrom(t), at)]
  <2>1. SplitFrom(t) = CHOOSE g : g = [at \in D |-> SplitStep(t, g, at)]
    BY DEF SplitFrom, SplitStep
  <2> QED BY <2>1, <1>6, Zenon
<1> HIDE DEF T
<1> QED BY <1>7

\* The first of the spans comes first, and the others follow in their order.
LEMMA TheFirstComesFirst ==
    ASSUME NEW t, NEW S, IsFiniteSet(S), NEW p,
           p[1] \in Nat, \A q \in S : q[1] \in Nat /\ p[1] < q[1]
    PROVE  InOrder(t, {p} \cup S) = <<TextAt(t, p)>> \o InOrder(t, S)
<1> DEFINE U == {p} \cup S
           Below(R, s) == {q \in R : q[1] < s[1]}
<1>1. p \notin S
  <2>1. ~(p[1] < p[1])
    OBVIOUS
  <2> QED BY <2>1
<1>2. Cardinality(S) \in Nat /\ IsFiniteSet(U) /\ Cardinality(U) = Cardinality(S) + 1
  BY <1>1, FS_CardinalityType, FS_AddElement
<1>3. Cardinality(Below(U, p)) = 0
  <2>1. Below(U, p) = {}
    <3> SUFFICES ASSUME NEW q \in U, q[1] < p[1] PROVE FALSE
      OBVIOUS
    <3> QED OBVIOUS
  <2> QED BY <2>1, FS_EmptySet
<1>4. ASSUME NEW s \in S
      PROVE  /\ Cardinality(Below(S, s)) \in Nat
             /\ Cardinality(Below(U, s)) = Cardinality(Below(S, s)) + 1
  <2>1. IsFiniteSet(Below(S, s))
    BY FS_Subset
  <2>2. Below(U, s) = Below(S, s) \cup {p} /\ p \notin Below(S, s)
    BY <1>1
  <2> HIDE DEF Below
  <2> QED BY <2>1, <2>2, FS_CardinalityType, FS_AddElement
<1>5. \A n : AtRank(U, n) = {s \in U : Cardinality(Below(U, s)) = n - 1}
  BY DEF AtRank
<1>6. \A n : AtRank(S, n) = {s \in S : Cardinality(Below(S, s)) = n - 1}
  BY DEF AtRank
<1> HIDE DEF Below
<1>7. AtRank(U, 1) = {p}
  <2>1. \A s \in S : Cardinality(Below(U, s)) # 1 - 1
    BY <1>4
  <2> QED BY <1>3, <1>5, <2>1
<1>8. ASSUME NEW n \in Nat \ {0} PROVE AtRank(U, n + 1) = AtRank(S, n)
  <2>1. Cardinality(Below(U, p)) # (n + 1) - 1
    BY <1>3
  <2>2. \A s \in S : Cardinality(Below(U, s)) = (n + 1) - 1 <=> Cardinality(Below(S, s)) = n - 1
    BY <1>4
  <2>3. AtRank(U, n + 1) = {s \in U : Cardinality(Below(U, s)) = (n + 1) - 1}
    BY <1>5
  <2>4. AtRank(S, n) = {s \in S : Cardinality(Below(S, s)) = n - 1}
    BY <1>6
  <2> QED BY <2>1, <2>2, <2>3, <2>4
<1>9. Nth(U, 1) = p
  BY <1>7 DEF Nth
<1>10. \A n \in Nat \ {0} : Nth(U, n + 1) = Nth(S, n)
  BY <1>8 DEF Nth
<1> HIDE DEF U
<1>11. PICK c \in Nat : c = Cardinality(S)
  BY <1>2
<1>12. InOrder(t, S) = [n \in 1..c |-> TextAt(t, Nth(S, n))]
  BY <1>11 DEF InOrder
<1>13. InOrder(t, U) = [n \in 1..(c + 1) |-> TextAt(t, Nth(U, n))]
  BY <1>2, <1>11 DEF InOrder
<1>14. ASSUME NEW n \in 1..(c + 1)
       PROVE  (<<TextAt(t, p)>> \o InOrder(t, S))[n] = TextAt(t, Nth(U, n))
  <2>1. CASE n = 1
    BY <2>1, <1>9, <1>12
  <2>2. CASE n # 1
    <3>1. n - 1 \in 1..c /\ n - 1 \in Nat \ {0} /\ (n - 1) + 1 = n
      BY <2>2
    <3>2. Nth(U, n) = Nth(S, n - 1)
      BY <3>1, <1>10
    <3>3. (<<TextAt(t, p)>> \o InOrder(t, S))[n] = InOrder(t, S)[n - 1]
      BY <3>1, <2>2, <1>12
    <3> QED BY <3>1, <3>2, <3>3, <1>12
  <2> QED BY <2>1, <2>2
<1>15. <<TextAt(t, p)>> \o InOrder(t, S)
         = [n \in 1..(c + 1) |-> (<<TextAt(t, p)>> \o InOrder(t, S))[n]]
  BY <1>12
<1> QED
  <2>1. InOrder(t, U) = <<TextAt(t, p)>> \o InOrder(t, S)
    BY <1>13, <1>14, <1>15
  <2> QED BY <2>1 DEF U

LEMMA RestIsFinite ==
    ASSUME NEW t \in Seq(Nat), NEW at
    PROVE  /\ IsFiniteSet(Rest(t, at))
           /\ \A s \in Rest(t, at) : s[1] \in Nat /\ at <= s[1]
<1>1. IsFiniteSet(Places(t))
  <2>1. IsFiniteSet(1..Len(t))
    BY FS_Interval
  <2>2. IsFiniteSet((1..Len(t)) \X (1..Len(t)))
    BY <2>1, FS_Product
  <2> QED BY <2>2, FS_Subset DEF Places
<1>2. Rest(t, at) \subseteq Places(t)
  BY PlacesArePairs DEF Rest
<1> QED BY <1>1, <1>2, FS_Subset, PlacesArePairs DEF Rest

\* The splitter's words from a place on are the words of the text from there on.
LEMMA SplitFromIsTheRest ==
    ASSUME NEW t \in Seq(Nat)
    PROVE  \A at \in 1..(Len(t) + 1) :
             Clear(t, at) => SplitFrom(t)[at] = InOrder(t, Rest(t, at))
<1> DEFINE Bad == {n \in 1..(Len(t) + 1) :
                     Clear(t, n) /\ SplitFrom(t)[n] # InOrder(t, Rest(t, n))}
<1> SUFFICES ASSUME Bad # {} PROVE FALSE
  OBVIOUS
<1>1. PICK at \in Bad : \A n \in Bad : n <= at
  <2>1. Bad \in SUBSET Nat /\ Len(t) + 1 \in Nat /\ \A n \in Bad : n <= Len(t) + 1
    OBVIOUS
  <2> HIDE DEF Bad
  <2> QED BY <2>1, GreatestElement
<1>2. at \in 1..(Len(t) + 1) /\ Clear(t, at) /\ SplitFrom(t)[at] # InOrder(t, Rest(t, at))
  OBVIOUS
<1>3. \A n \in (at + 1)..(Len(t) + 1) : Clear(t, n) => SplitFrom(t)[n] = InOrder(t, Rest(t, n))
  <2> SUFFICES ASSUME NEW n \in (at + 1)..(Len(t) + 1), Clear(t, n),
                      SplitFrom(t)[n] # InOrder(t, Rest(t, n))
               PROVE  FALSE
    OBVIOUS
  <2>1. n \in Bad
    BY <1>2
  <2> HIDE DEF Bad
  <2> QED BY <1>1, <1>2, <2>1
<1> HIDE DEF Bad
<1>4. SplitFrom(t)[at] = SplitStep(t, SplitFrom(t), at)
  BY <1>2, SplitFromSolves
<1>5. CASE at = Len(t) + 1
  <2>1. Rest(t, at) = {}
    BY <1>5, NothingBehindTheEnd
  <2>2. InOrder(t, {}) = <<>>
    BY FS_EmptySet DEF InOrder
  <2>3. SplitFrom(t)[at] = <<>>
    BY <1>4, <1>5 DEF SplitStep
  <2> QED BY <1>2, <2>1, <2>2, <2>3
<1>6. CASE at \in 1..Len(t) /\ IsAlphabet(t[at])
  <2>1. PICK e \in at..Len(t) : e = WordEnd(t, at)
    BY <1>6, WordEndIsALetter
  <2>2. Clear(t, e + 1) /\ Rest(t, at) = {<<at, e>>} \cup Rest(t, e + 1)
    BY <1>2, <1>6, <2>1, AWordIsASpan
  <2>3. SplitFrom(t)[e + 1] = InOrder(t, Rest(t, e + 1))
    BY <1>2, <1>3, <2>1, <2>2
  <2>4. InOrder(t, {<<at, e>>} \cup Rest(t, e + 1))
          = <<TextAt(t, <<at, e>>)>> \o InOrder(t, Rest(t, e + 1))
    <3>1. IsFiniteSet(Rest(t, e + 1)) /\ \A s \in Rest(t, e + 1) : s[1] \in Nat /\ e + 1 <= s[1]
      BY RestIsFinite
    <3>2. <<at, e>>[1] \in Nat /\ \A s \in Rest(t, e + 1) : s[1] \in Nat /\ <<at, e>>[1] < s[1]
      BY <3>1, <1>2, <2>1
    <3> QED BY <3>1, <3>2, TheFirstComesFirst
  <2>5. TextAt(t, <<at, e>>) = SubSeq(t, at, e)
    BY DEF TextAt
  <2>6. ~IsWhitespace(t[at])
    BY <1>6, SpaceIsNoLetter
  <2>7. SplitFrom(t)[at] = <<SubSeq(t, at, e)>> \o SplitFrom(t)[e + 1]
    <3>1. ~(at > Len(t))
      BY <1>6
    <3> QED BY <1>4, <1>6, <2>1, <2>6, <3>1, Zenon DEF SplitStep
  <2> QED BY <1>2, <2>2, <2>3, <2>4, <2>5, <2>7
<1>7. CASE at \in 1..Len(t) /\ ~IsAlphabet(t[at])
  <2>1. /\ Clear(t, at + 1)
        /\ Rest(t, at) = (IF IsWhitespace(t[at]) THEN {} ELSE {<<at, at>>}) \cup Rest(t, at + 1)
    BY <1>2, <1>7, ACharacterByItself
  <2>2. SplitFrom(t)[at + 1] = InOrder(t, Rest(t, at + 1))
    BY <1>2, <1>3, <1>7, <2>1
  <2>3. CASE IsWhitespace(t[at])
    <3>1. Rest(t, at) = Rest(t, at + 1)
      BY <2>1, <2>3
    <3>2. SplitFrom(t)[at] = SplitFrom(t)[at + 1]
      BY <1>4, <1>7, <2>3 DEF SplitStep
    <3> QED BY <1>2, <2>2, <3>1, <3>2
  <2>4. CASE ~IsWhitespace(t[at])
    <3>1. Rest(t, at) = {<<at, at>>} \cup Rest(t, at + 1)
      BY <2>1, <2>4
    <3>2. InOrder(t, {<<at, at>>} \cup Rest(t, at + 1))
            = <<TextAt(t, <<at, at>>)>> \o InOrder(t, Rest(t, at + 1))
      <4>1. IsFiniteSet(Rest(t, at + 1)) /\ \A s \in Rest(t, at + 1) : s[1] \in Nat /\ at + 1 <= s[1]
        BY RestIsFinite
      <4>2. /\ <<at, at>>[1] \in Nat
            /\ \A s \in Rest(t, at + 1) : s[1] \in Nat /\ <<at, at>>[1] < s[1]
        BY <4>1, <1>2
      <4> QED BY <4>1, <4>2, TheFirstComesFirst
    <3>3. TextAt(t, <<at, at>>) = <<t[at]>>
      <4>1. SubSeq(t, at, at) = <<t[at]>> \o SubSeq(t, at + 1, at)
        <5>1. at \in 1..Len(t) /\ at \in at..Len(t)
          BY <1>7
        <5> QED BY <5>1, SubSeqRecursiveFirst
      <4>2. SubSeq(t, at + 1, at) = <<>>
        BY <1>7, SubSeqEmpty
      <4>3. PICK ch \in Nat : ch = t[at]
        BY <1>7
      <4>4. <<ch>> \o <<>> = <<ch>>
        <5>1. <<ch>> \in Seq(Nat)
          OBVIOUS
        <5> QED BY <5>1, ConcatEmptySeq
      <4> QED BY <4>1, <4>2, <4>3, <4>4 DEF TextAt
    <3>4. SplitFrom(t)[at] = <<<<t[at]>>>> \o SplitFrom(t)[at + 1]
      BY <1>4, <1>7, <2>4 DEF SplitStep
    <3> QED BY <1>2, <2>2, <3>1, <3>2, <3>3, <3>4
  <2> QED BY <2>3, <2>4
<1> QED BY <1>2, <1>5, <1>6, <1>7

\* WordSplitter::split: the tokens of a text are its words, from left to right.
LEMMA SplitIsTheWords ==
    ASSUME NEW t \in Seq(Nat)
    PROVE  Split(t) = InOrder(t, Spans(t))
<1>1. 1 \in 1..(Len(t) + 1)
  OBVIOUS
<1> QED BY <1>1, EverythingFromTheStart, SplitFromIsTheRest DEF Split

-------------------------------------------------------------------------------
(* The plus-pluses of a text                                                   *)

KeyEnd(t, at) == LastWhile(t, at + 1, IsMiddleCharOfKey)

LEMMA KeyEndStops ==
    ASSUME NEW t \in Seq(Nat), NEW at \in 1..Len(t)
    PROVE  /\ KeyEnd(t, at) \in at..Len(t)
           /\ \A i \in (at + 1)..KeyEnd(t, at) : IsMiddleCharOfKey(t[i])
           /\ KeyEnd(t, at) = Len(t) \/ ~IsMiddleCharOfKey(t[KeyEnd(t, at) + 1])
<1> DEFINE T == {n \in at..Len(t) : \A i \in (at + 1)..n : IsMiddleCharOfKey(t[i])}
<1>1. T \in SUBSET Nat /\ at \in T /\ Len(t) \in Nat /\ \A n \in T : n <= Len(t)
  OBVIOUS
<1>2. PICK n \in T : \A m \in T : m <= n
  <2> HIDE DEF T
  <2> QED BY <1>1, GreatestElement
<1>3. n = Len(t) \/ ~IsMiddleCharOfKey(t[n + 1])
  <2> SUFFICES ASSUME n # Len(t), IsMiddleCharOfKey(t[n + 1]) PROVE FALSE
    OBVIOUS
  <2>1. n + 1 \in T
    OBVIOUS
  <2> QED BY <2>1, <1>2
<1>4. KeyEnd(t, at) = CHOOSE r \in at..Len(t) :
                        /\ \A i \in (at + 1)..r : IsMiddleCharOfKey(t[i])
                        /\ r = Len(t) \/ ~IsMiddleCharOfKey(t[r + 1])
  <2>1. (at + 1) - 1 = at
    OBVIOUS
  <2> QED BY <2>1, Zenon DEF KeyEnd, LastWhile
<1> QED BY <1>2, <1>3, <1>4

LEMMA OperatorsEndKeys ==
    /\ \A ch \in Operators : ~IsMiddleCharOfKey(ch) /\ ~IsFirstCharOfKey(ch)
    /\ 0 \notin Operators
    /\ \A ch : IsFirstCharOfKey(ch) => IsMiddleCharOfKey(ch)
BY DEF Operators, IsMiddleCharOfKey, IsFirstCharOfKey, IsLetter, IsUpper, IsLower, IsDigit,
       Plus, Minus, Question, Tilde, Underscore

\* Where the scan goes on behind a key, and when the key counts.
LEMMA PotentialKeyReads ==
    ASSUME NEW t \in Seq(Nat), NEW at \in 1..Len(t), NEW e \in at..Len(t),
           NEW found, found = PotentialKey(t, at, e)
    PROVE  /\ found.resume \in (e + 1)..(Len(t) + 1)
           /\ \A i \in (e + 1)..(found.resume - 1) : t[i] \in Operators
           /\ found.counts \in BOOLEAN
           /\ found.counts <=> /\ e + 2 <= Len(t)
                               /\ t[e + 1] \in Operators /\ t[e + 2] = t[e + 1]
                               /\ IsAcceptable(SubSeq(t, at, e))
                               /\ e - at < MaxPlusPlusKeySize
           /\ found.counts => found.resume = e + 3
<1> DEFINE op == IF e = Len(t) THEN 0 ELSE t[e + 1]
           long == Len(SubSeq(t, at, e)) > MaxPlusPlusKeySize
<1>1. Len(SubSeq(t, at, e)) = e - at + 1
  <2>1. \A i \in at..e : t[i] \in Nat
    OBVIOUS
  <2>2. at \in Int /\ e \in Int /\ at <= e
    OBVIOUS
  <2> QED BY <2>1, <2>2, SubSeqProperties
<1>2. MaxPlusPlusKeySize \in Nat /\ (long <=> ~(e - at < MaxPlusPlusKeySize))
  BY <1>1, KeySizeAssumption
<1>3. IsAcceptable(SubSeq(t, at, e)) \in BOOLEAN
  BY DEF IsAcceptable
<1> HIDE DEF long
<1>4. found = IF long \/ op \notin Operators
              THEN [counts |-> FALSE, resume |-> e + 1]
              ELSE IF e + 1 = Len(t) \/ t[e + 2] # op
              THEN [counts |-> FALSE, resume |-> e + 2]
              ELSE [counts |-> IsAcceptable(SubSeq(t, at, e)), resume |-> e + 3]
  BY Zenon DEF PotentialKey, long
<1>5. CASE long \/ op \notin Operators
  <2>1. found = [counts |-> FALSE, resume |-> e + 1]
    BY <1>4, <1>5
  <2>2. ~long => ~(e + 2 <= Len(t) /\ t[e + 1] \in Operators)
    BY <1>5
  <2>3. found.counts = FALSE /\ found.resume = e + 1
    BY <2>1
  <2>4. found.resume \in (e + 1)..(Len(t) + 1)
    BY <2>3
  <2>5. \A i \in (e + 1)..(found.resume - 1) : t[i] \in Operators
    BY <2>3
  <2>6. ~ /\ e + 2 <= Len(t)
          /\ t[e + 1] \in Operators /\ t[e + 2] = t[e + 1]
          /\ IsAcceptable(SubSeq(t, at, e))
          /\ e - at < MaxPlusPlusKeySize
    BY <1>2, <2>2
  <2> QED BY <2>3, <2>4, <2>5, <2>6
<1>6. CASE ~long /\ op \in Operators /\ (e + 1 = Len(t) \/ t[e + 2] # op)
  <2>1. found = [counts |-> FALSE, resume |-> e + 2]
    BY <1>4, <1>6
  <2>2. e # Len(t) /\ t[e + 1] \in Operators
    BY <1>6, OperatorsEndKeys
  <2>3. ~(e + 2 <= Len(t) /\ t[e + 2] = t[e + 1])
    BY <1>6, <2>2
  <2>4. found.counts = FALSE /\ found.resume = e + 2
    BY <2>1
  <2>5. found.resume \in (e + 1)..(Len(t) + 1)
    BY <2>2, <2>4
  <2>6. \A i \in (e + 1)..(found.resume - 1) : t[i] \in Operators
    BY <2>2, <2>4
  <2> QED BY <2>3, <2>4, <2>5, <2>6
<1>7. CASE ~long /\ op \in Operators /\ ~(e + 1 = Len(t) \/ t[e + 2] # op)
  <2>1. found = [counts |-> IsAcceptable(SubSeq(t, at, e)), resume |-> e + 3]
    BY <1>4, <1>7
  <2>2. e # Len(t) /\ e + 1 # Len(t) /\ t[e + 1] \in Operators /\ t[e + 2] = t[e + 1]
    BY <1>7, OperatorsEndKeys
  <2>3. found.resume = e + 3
    BY <2>1
  <2>4. found.counts = IsAcceptable(SubSeq(t, at, e))
    BY <2>1
  <2>5. e + 2 <= Len(t)
    BY <2>2
  <2>6. \A i \in (e + 1)..((e + 3) - 1) : t[i] \in Operators
    BY <2>2
  <2>7. e + 3 \in (e + 1)..(Len(t) + 1)
    BY <2>5
  <2>8. e - at < MaxPlusPlusKeySize
    BY <1>2, <1>7
  <2> QED BY <1>3, <2>2, <2>3, <2>4, <2>5, <2>6, <2>7, <2>8
<1> QED BY <1>5, <1>6, <1>7

\* No key goes on across the place.
Fresh(t, at) ==
  \A j \in 1..(at - 1) :
    IsFirstCharOfKey(t[j]) => \E k \in j..at : k > Len(t) \/ ~IsMiddleCharOfKey(t[k])

\* The mentions from the place on.
LaterMentions(t, at) == {p \in Mentions(t) : at <= p[1]}

LEMMA MentionsArePlaces ==
    ASSUME NEW t \in Seq(Nat)
    PROVE  Mentions(t) \subseteq Places(t)
BY DEF Mentions

\* A character no key begins with.
LEMMA NoKeyBegins ==
    ASSUME NEW t \in Seq(Nat), NEW at \in 1..Len(t), Fresh(t, at), ~IsFirstCharOfKey(t[at])
    PROVE  Fresh(t, at + 1) /\ LaterMentions(t, at) = LaterMentions(t, at + 1)
<1>1. Fresh(t, at + 1)
  <2> SUFFICES ASSUME NEW j \in 1..((at + 1) - 1), IsFirstCharOfKey(t[j])
               PROVE  \E k \in j..(at + 1) : k > Len(t) \/ ~IsMiddleCharOfKey(t[k])
    BY DEF Fresh
  <2>1. j # at
    OBVIOUS
  <2>2. j \in 1..(at - 1)
    BY <2>1
  <2>3. PICK k \in j..at : k > Len(t) \/ ~IsMiddleCharOfKey(t[k])
    BY <2>2 DEF Fresh
  <2>4. k \in j..(at + 1)
    OBVIOUS
  <2> QED BY <2>3, <2>4
<1>2. \A p \in Mentions(t) : p[1] # at
  BY DEF Mentions
<1>3. \A p \in Mentions(t) : p[1] \in Nat
  BY PlacesArePairs, MentionsArePlaces
<1>4. \A p \in Mentions(t) : at <= p[1] <=> at + 1 <= p[1]
  BY <1>2, <1>3
<1> QED BY <1>1, <1>4 DEF LaterMentions

\* A key that begins at the place: from there on it is the next mention, if it is one.
LEMMA AKeyIsRead ==
    ASSUME NEW t \in Seq(Nat), NEW at \in 1..Len(t), Fresh(t, at), IsFirstCharOfKey(t[at]),
           NEW found, found = PotentialKey(t, at, KeyEnd(t, at))
    PROVE  /\ Fresh(t, found.resume)
           /\ LaterMentions(t, at) = (IF found.counts THEN {<<at, KeyEnd(t, at)>>} ELSE {})
                                       \cup LaterMentions(t, found.resume)
<1>1. PICK e : e = KeyEnd(t, at)
  OBVIOUS
<1>2. /\ e \in at..Len(t) /\ \A i \in (at + 1)..e : IsMiddleCharOfKey(t[i])
      /\ e = Len(t) \/ ~IsMiddleCharOfKey(t[e + 1])
  BY <1>1, KeyEndStops
<1>3. PICK r : r = found.resume
  OBVIOUS
<1>4. /\ r \in (e + 1)..(Len(t) + 1)
      /\ \A i \in (e + 1)..(r - 1) : t[i] \in Operators
      /\ found.counts \in BOOLEAN
      /\ found.counts <=> /\ e + 2 <= Len(t)
                          /\ t[e + 1] \in Operators /\ t[e + 2] = t[e + 1]
                          /\ IsAcceptable(SubSeq(t, at, e))
                          /\ e - at < MaxPlusPlusKeySize
  BY <1>1, <1>2, <1>3, PotentialKeyReads
<1>5. \A i \in at..e : IsMiddleCharOfKey(t[i])
  <2> SUFFICES ASSUME NEW i \in at..e PROVE IsMiddleCharOfKey(t[i])
    OBVIOUS
  <2>1. i = at \/ i \in (at + 1)..e
    OBVIOUS
  <2> QED BY <2>1, <1>2, OperatorsEndKeys
<1>6. Fresh(t, r)
  <2> SUFFICES ASSUME NEW j \in 1..(r - 1), IsFirstCharOfKey(t[j])
               PROVE  \E k \in j..r : k > Len(t) \/ ~IsMiddleCharOfKey(t[k])
    BY DEF Fresh
  <2>1. j <= e
    <3> SUFFICES ASSUME ~(j <= e) PROVE FALSE
      OBVIOUS
    <3>1. j \in (e + 1)..(r - 1)
      BY <1>2, <1>4
    <3> QED BY <3>1, <1>4, OperatorsEndKeys
  <2>2. e + 1 \in j..r
    BY <2>1, <1>2, <1>4
  <2>3. e + 1 > Len(t) \/ ~IsMiddleCharOfKey(t[e + 1])
    BY <1>2
  <2> QED BY <2>2, <2>3
<1>7. ASSUME NEW p \in Mentions(t), at <= p[1], p[1] < r PROVE p = <<at, e>> /\ found.counts
  <2>1. PICK i \in 1..Len(t), j \in 1..Len(t) : p = <<i, j>> /\ i <= j
    BY MentionsArePlaces DEF Places
  <2>2. /\ j + 2 <= Len(t) /\ IsFirstCharOfKey(t[i])
        /\ \A k \in i..j : IsMiddleCharOfKey(t[k])
        /\ \A m \in 1..(i - 1) :
             IsFirstCharOfKey(t[m]) => \E k \in m..i : ~IsMiddleCharOfKey(t[k])
        /\ t[j + 1] \in Operators /\ t[j + 2] = t[j + 1]
        /\ IsAcceptable(SubSeq(t, i, j))
        /\ j - i < MaxPlusPlusKeySize
    <3>1. p[1] = i /\ p[2] = j
      BY <2>1
    <3> QED BY <3>1 DEF Mentions, TextAt
  <2>3. i <= e
    <3> SUFFICES ASSUME ~(i <= e) PROVE FALSE
      OBVIOUS
    <3>1. i \in (e + 1)..(r - 1)
      BY <1>2, <1>4, <1>7, <2>1
    <3> QED BY <3>1, <1>4, <2>2, OperatorsEndKeys
  <2>4. i = at
    <3> SUFFICES ASSUME i # at PROVE FALSE
      OBVIOUS
    <3>1. at \in 1..(i - 1)
      BY <1>7, <2>1
    <3>2. PICK k \in at..i : ~IsMiddleCharOfKey(t[k])
      BY <3>1, <2>2
    <3>3. k \in at..e
      BY <2>3, <1>2
    <3> QED BY <3>2, <3>3, <1>5
  <2>5. j = e
    <3>1. ~(j < e)
      <4> SUFFICES ASSUME j < e PROVE FALSE
        OBVIOUS
      <4>1. j + 1 \in at..e
        BY <2>1, <2>4, <1>2
      <4> QED BY <4>1, <1>5, <2>2, OperatorsEndKeys
    <3>2. ~(j > e)
      <4> SUFFICES ASSUME j > e PROVE FALSE
        OBVIOUS
      <4>1. e + 1 \in i..j /\ e # Len(t)
        BY <2>1, <2>4, <1>2
      <4> QED BY <4>1, <1>2, <2>2
    <3> QED BY <3>1, <3>2, <1>2
  <2> QED BY <2>1, <2>2, <2>4, <2>5, <1>4
<1>8. found.counts => <<at, e>> \in Mentions(t)
  <2> SUFFICES ASSUME found.counts PROVE <<at, e>> \in Mentions(t)
    OBVIOUS
  <2>1. PICK p : p = <<at, e>>
    OBVIOUS
  <2>2. p[1] = at /\ p[2] = e /\ p \in Places(t)
    BY <2>1, <1>2, PlacesArePairs
  <2>3. \A j \in 1..(at - 1) : IsFirstCharOfKey(t[j]) => \E k \in j..at : ~IsMiddleCharOfKey(t[k])
    <3> SUFFICES ASSUME NEW j \in 1..(at - 1), IsFirstCharOfKey(t[j])
                 PROVE  \E k \in j..at : ~IsMiddleCharOfKey(t[k])
      OBVIOUS
    <3>1. PICK k \in j..at : k > Len(t) \/ ~IsMiddleCharOfKey(t[k])
      BY DEF Fresh
    <3>2. ~(k > Len(t))
      OBVIOUS
    <3> QED BY <3>1, <3>2
  <2>4. p \in Mentions(t)
    BY <2>2, <2>3, <1>4, <1>5 DEF Mentions, TextAt
  <2> QED BY <2>1, <2>4
<1>9. LaterMentions(t, at) = (IF found.counts THEN {<<at, e>>} ELSE {}) \cup LaterMentions(t, r)
  <2>1. ASSUME NEW p \in LaterMentions(t, at)
        PROVE  p \in LaterMentions(t, r) \/ (p = <<at, e>> /\ found.counts)
    <3>1. p \in Mentions(t) /\ at <= p[1] /\ p[1] \in Nat
      BY <2>1, MentionsArePlaces, PlacesArePairs DEF LaterMentions
    <3>2. p[1] < r \/ r <= p[1]
      BY <3>1, <1>4, <1>2
    <3> QED BY <3>1, <3>2, <1>7 DEF LaterMentions
  <2>2. ASSUME NEW p \in LaterMentions(t, r) PROVE p \in LaterMentions(t, at)
    <3>1. p \in Mentions(t) /\ r <= p[1] /\ p[1] \in Nat
      BY <2>2, MentionsArePlaces, PlacesArePairs DEF LaterMentions
    <3>2. at <= p[1]
      BY <3>1, <1>4, <1>2
    <3> QED BY <3>1, <3>2 DEF LaterMentions
  <2>3. found.counts => <<at, e>> \in LaterMentions(t, at)
    BY <1>8 DEF LaterMentions
  <2> QED BY <2>1, <2>2, <2>3
<1> QED BY <1>1, <1>3, <1>6, <1>9

\* What the mentions come to, a key at a time.
Tallies(t, S) ==
  [key \in {TextAt(t, p) : p \in S} |-> Tally(t, S, key, Plus) - Tally(t, S, key, Minus)]

LEMMA TallyOfOneMore ==
    ASSUME NEW t, NEW S, IsFiniteSet(S), NEW p, p \notin S, NEW key, NEW op
    PROVE  /\ Tally(t, S, key, op) \in Nat
           /\ Tally(t, {p} \cup S, key, op)
                = Tally(t, S, key, op) + IF TextAt(t, p) = key /\ t[p[2] + 1] = op THEN 1 ELSE 0
<1> DEFINE Of(R) == {q \in R : TextAt(t, q) = key /\ t[q[2] + 1] = op}
<1>1. IsFiniteSet(Of(S)) /\ p \notin Of(S)
  BY FS_Subset
<1>2. Of({p} \cup S) = IF TextAt(t, p) = key /\ t[p[2] + 1] = op THEN Of(S) \cup {p} ELSE Of(S)
  OBVIOUS
<1>3. Tally(t, S, key, op) = Cardinality(Of(S))
      /\ Tally(t, {p} \cup S, key, op) = Cardinality(Of({p} \cup S))
  BY Zenon DEF Tally
<1> HIDE DEF Of
<1>4. Cardinality(Of(S)) \in Nat /\ Cardinality(Of(S) \cup {p}) = Cardinality(Of(S)) + 1
  BY <1>1, FS_CardinalityType, FS_AddElement
<1> QED BY <1>2, <1>3, <1>4

LEMMA NoTallyWithoutAMention ==
    ASSUME NEW t, NEW S, NEW key, key \notin {TextAt(t, p) : p \in S}, NEW op
    PROVE  Tally(t, S, key, op) = 0
<1>1. {q \in S : TextAt(t, q) = key /\ t[q[2] + 1] = op} = {}
  OBVIOUS
<1> QED BY <1>1, FS_EmptySet DEF Tally

\* netPlusPlusCounts: counting a mention adds it to the tallies.
LEMMA CountedIsOneMore ==
    ASSUME NEW t, NEW S, IsFiniteSet(S), NEW p, p \notin S
    PROVE  Tallies(t, {p} \cup S)
             = Counted(Tallies(t, S), TextAt(t, p), OperatorCharToDelta(t[p[2] + 1], 1))
<1> DEFINE K == {TextAt(t, q) : q \in S}
           key == TextAt(t, p)
           op == t[p[2] + 1]
           delta == OperatorCharToDelta(op, 1)
           Net(R, k) == Tally(t, R, k, Plus) - Tally(t, R, k, Minus)
<1>1. {TextAt(t, q) : q \in {p} \cup S} = K \cup {key}
  OBVIOUS
<1>2. Plus # Minus
  BY DEF Plus, Minus
<1>3. delta = (IF op = Plus THEN 1 ELSE 0) - (IF op = Minus THEN 1 ELSE 0)
  BY <1>2 DEF OperatorCharToDelta
<1>4. ASSUME NEW k
      PROVE  /\ Net(S, k) \in Int
             /\ Net({p} \cup S, k) = Net(S, k) + (IF k = key THEN delta ELSE 0)
  <2>1. PICK a \in Nat : a = Tally(t, S, k, Plus)
    BY TallyOfOneMore
  <2>2. PICK b \in Nat : b = Tally(t, S, k, Minus)
    BY TallyOfOneMore
  <2>3. Tally(t, {p} \cup S, k, Plus) = a + IF key = k /\ op = Plus THEN 1 ELSE 0
    BY <2>1, TallyOfOneMore
  <2>4. Tally(t, {p} \cup S, k, Minus) = b + IF key = k /\ op = Minus THEN 1 ELSE 0
    BY <2>2, TallyOfOneMore
  <2> HIDE DEF key, op, delta
  <2> QED BY <2>1, <2>2, <2>3, <2>4, <1>3
<1>5. \A k : k \notin K => Net(S, k) = 0
  BY NoTallyWithoutAMention
<1>6. Tallies(t, S) = [k \in K |-> Net(S, k)]
  BY DEF Tallies
<1>7. Tallies(t, {p} \cup S) = [k \in K \cup {key} |-> Net({p} \cup S, k)]
  BY <1>1 DEF Tallies
<1> HIDE DEF K, key, delta, Net
<1>8. Counted(Tallies(t, S), key, delta)
        = [k \in K \cup {key} |-> (IF k \in K THEN Net(S, k) ELSE 0)
                                    + (IF k = key THEN delta ELSE 0)]
  BY <1>6 DEF Counted
<1>9. \A k : (IF k \in K THEN Net(S, k) ELSE 0) = Net(S, k)
  BY <1>5
<1>10. Counted(Tallies(t, S), key, delta) = Tallies(t, {p} \cup S)
  BY <1>4, <1>7, <1>8, <1>9
<1> QED BY <1>10 DEF key, delta, op

\* What the keys from a place on count, from what those from the later ones do.
ScanStep(t, parity, from, at) ==
  LET keyEnd == KeyEnd(t, at)
      found == PotentialKey(t, at, keyEnd)
      delta == OperatorCharToDelta(t[keyEnd + 1], parity)
  IN  IF at > Len(t) THEN <<>>
      ELSE IF ~IsFirstCharOfKey(t[at]) THEN from[at + 1]
      ELSE IF found.counts
      THEN Counted(from[found.resume], SubSeq(t, at, keyEnd), delta)
      ELSE from[found.resume]

LEMMA ScanStepLooksBehind ==
    ASSUME NEW t \in Seq(Nat), NEW parity, NEW f, NEW g, NEW at \in 1..(Len(t) + 1),
           \A n \in (at + 1)..(Len(t) + 1) : f[n] = g[n]
    PROVE  ScanStep(t, parity, f, at) = ScanStep(t, parity, g, at)
<1>1. CASE at = Len(t) + 1
  <2>1. at > Len(t)
    BY <1>1
  <2> QED BY <2>1 DEF ScanStep
<1>2. CASE at \in 1..Len(t)
  <2>1. PICK found : found = PotentialKey(t, at, KeyEnd(t, at))
    OBVIOUS
  <2>2. found.resume \in (at + 1)..(Len(t) + 1)
    <3>1. PICK e \in at..Len(t) : e = KeyEnd(t, at)
      BY <1>2, KeyEndStops
    <3>2. found.resume \in (e + 1)..(Len(t) + 1)
      BY <1>2, <2>1, <3>1, PotentialKeyReads
    <3> QED BY <3>1, <3>2, <1>2
  <2>3. at + 1 \in (at + 1)..(Len(t) + 1)
    BY <1>2
  <2>4. f[found.resume] = g[found.resume] /\ f[at + 1] = g[at + 1]
    BY <2>2, <2>3
  <2> QED BY <2>1, <2>4, Zenon DEF ScanStep
<1> QED BY <1>1, <1>2

\* The recursive definition has a solution: each place refers to later ones.
LEMMA ScanFromSolves ==
    ASSUME NEW t \in Seq(Nat), NEW parity
    PROVE  \A at \in 1..(Len(t) + 1) :
             ScanFrom(t, parity)[at] = ScanStep(t, parity, ScanFrom(t, parity), at)
<1> DEFINE D == 1..(Len(t) + 1)
           T == {n \in D : \E f : \A at \in n..(Len(t) + 1) : f[at] = ScanStep(t, parity, f, at)}
<1>1. Len(t) \in Nat
  OBVIOUS
<1>2. Len(t) + 1 \in T
  <2> DEFINE f == [at \in D |-> <<>>]
  <2>1. \A at \in (Len(t) + 1)..(Len(t) + 1) : at > Len(t) /\ f[at] = <<>>
    BY <1>1
  <2> HIDE DEF f
  <2>2. \A at \in (Len(t) + 1)..(Len(t) + 1) : f[at] = ScanStep(t, parity, f, at)
    BY <2>1 DEF ScanStep
  <2> QED BY <1>1, <2>2
<1>3. PICK n \in T : \A m \in T : n <= m
  <2>1. T \in SUBSET Nat /\ T # {}
    BY <1>2
  <2> HIDE DEF T
  <2> QED BY <2>1, SmallestElement
<1>4. PICK f : \A at \in n..(Len(t) + 1) : f[at] = ScanStep(t, parity, f, at)
  OBVIOUS
<1>5. n = 1
  <2> SUFFICES ASSUME n # 1 PROVE FALSE
    OBVIOUS
  <2>1. n \in 2..(Len(t) + 1)
    BY <1>3
  <2> DEFINE g == [at \in D |-> IF at = n - 1 THEN ScanStep(t, parity, f, n - 1) ELSE f[at]]
  <2>2. \A at \in n..(Len(t) + 1) : g[at] = f[at]
    BY <2>1
  <2>3. g[n - 1] = ScanStep(t, parity, f, n - 1)
    BY <2>1
  <2> HIDE DEF g
  <2>4. ASSUME NEW at \in (n - 1)..(Len(t) + 1) PROVE g[at] = ScanStep(t, parity, g, at)
    <3>1. at \in 1..(Len(t) + 1) /\ \A m \in (at + 1)..(Len(t) + 1) : g[m] = f[m]
      BY <2>1, <2>2
    <3>2. ScanStep(t, parity, g, at) = ScanStep(t, parity, f, at)
      BY <3>1, ScanStepLooksBehind
    <3>3. at = n - 1 \/ at \in n..(Len(t) + 1)
      BY <2>1
    <3> QED BY <3>2, <3>3, <2>2, <2>3, <1>4
  <2>5. n - 1 \in T
    BY <2>4, <2>1
  <2> HIDE DEF T
  <2>6. n <= n - 1
    BY <2>5, <1>3
  <2> QED BY <2>6, <2>1
<1>6. \E g : g = [at \in D |-> ScanStep(t, parity, g, at)]
  <2> DEFINE g == [at \in D |-> f[at]]
  <2>1. \A at \in D : g[at] = f[at]
    OBVIOUS
  <2> HIDE DEF g
  <2>2. ASSUME NEW at \in D PROVE ScanStep(t, parity, g, at) = f[at]
    <3>1. \A m \in (at + 1)..(Len(t) + 1) : g[m] = f[m]
      BY <2>1
    <3>2. ScanStep(t, parity, g, at) = ScanStep(t, parity, f, at)
      BY <3>1, ScanStepLooksBehind
    <3> QED BY <3>2, <1>4, <1>5
  <2>3. g = [at \in D |-> ScanStep(t, parity, g, at)]
    BY <2>2 DEF g
  <2> QED BY <2>3
<1>7. ScanFrom(t, parity) = [at \in D |-> ScanStep(t, parity, ScanFrom(t, parity), at)]
  <2>1. ScanFrom(t, parity) = CHOOSE g : g = [at \in D |-> ScanStep(t, parity, g, at)]
    BY Zenon DEF ScanFrom, ScanStep, KeyEnd
  <2> QED BY <2>1, <1>6, Zenon
<1> HIDE DEF T
<1> QED BY <1>7

LEMMA LaterMentionsAreFinite ==
    ASSUME NEW t \in Seq(Nat), NEW at
    PROVE  IsFiniteSet(LaterMentions(t, at))
<1>1. IsFiniteSet(Places(t))
  <2>1. IsFiniteSet(1..Len(t))
    BY FS_Interval
  <2>2. IsFiniteSet((1..Len(t)) \X (1..Len(t)))
    BY <2>1, FS_Product
  <2> QED BY <2>2, FS_Subset DEF Places
<1>2. LaterMentions(t, at) \subseteq Places(t)
  BY MentionsArePlaces DEF LaterMentions
<1> QED BY <1>1, <1>2, FS_Subset

\* What the scanner counts from a place on are the mentions from there on.
LEMMA ScanFromIsTheLater ==
    ASSUME NEW t \in Seq(Nat)
    PROVE  \A at \in 1..(Len(t) + 1) :
             Fresh(t, at) => ScanFrom(t, 1)[at] = Tallies(t, LaterMentions(t, at))
<1> DEFINE Bad == {n \in 1..(Len(t) + 1) :
                     Fresh(t, n) /\ ScanFrom(t, 1)[n] # Tallies(t, LaterMentions(t, n))}
<1> SUFFICES ASSUME Bad # {} PROVE FALSE
  OBVIOUS
<1>1. PICK at \in Bad : \A n \in Bad : n <= at
  <2>1. Bad \in SUBSET Nat /\ Len(t) + 1 \in Nat /\ \A n \in Bad : n <= Len(t) + 1
    OBVIOUS
  <2> HIDE DEF Bad
  <2> QED BY <2>1, GreatestElement
<1>2. at \in 1..(Len(t) + 1) /\ Fresh(t, at) /\ ScanFrom(t, 1)[at] # Tallies(t, LaterMentions(t, at))
  OBVIOUS
<1>3. \A n \in (at + 1)..(Len(t) + 1) :
        Fresh(t, n) => ScanFrom(t, 1)[n] = Tallies(t, LaterMentions(t, n))
  <2> SUFFICES ASSUME NEW n \in (at + 1)..(Len(t) + 1), Fresh(t, n),
                      ScanFrom(t, 1)[n] # Tallies(t, LaterMentions(t, n))
               PROVE  FALSE
    OBVIOUS
  <2>1. n \in Bad
    BY <1>2
  <2> HIDE DEF Bad
  <2> QED BY <1>1, <1>2, <2>1
<1> HIDE DEF Bad
<1>4. ScanFrom(t, 1)[at] = ScanStep(t, 1, ScanFrom(t, 1), at)
  BY <1>2, ScanFromSolves
<1>5. CASE at = Len(t) + 1
  <2>1. LaterMentions(t, at) = {}
    <3> SUFFICES ASSUME NEW p \in LaterMentions(t, at) PROVE FALSE
      OBVIOUS
    <3>1. p \in Places(t) /\ Len(t) + 1 <= p[1]
      BY <1>5, MentionsArePlaces DEF LaterMentions
    <3> QED BY <3>1, PlacesArePairs
  <2>2. Tallies(t, {}) = <<>>
    BY DEF Tallies
  <2>3. at > Len(t)
    BY <1>5
  <2>4. ScanFrom(t, 1)[at] = <<>>
    BY <1>4, <2>3 DEF ScanStep
  <2> QED BY <1>2, <2>1, <2>2, <2>4
<1>6. CASE at \in 1..Len(t) /\ ~IsFirstCharOfKey(t[at])
  <2>1. Fresh(t, at + 1) /\ LaterMentions(t, at) = LaterMentions(t, at + 1)
    BY <1>2, <1>6, NoKeyBegins
  <2>2. at + 1 \in (at + 1)..(Len(t) + 1) /\ ~(at > Len(t))
    BY <1>6
  <2>3. ScanFrom(t, 1)[at] = ScanFrom(t, 1)[at + 1]
    BY <1>4, <1>6, <2>2, Zenon DEF ScanStep
  <2> QED BY <1>2, <1>3, <2>1, <2>2, <2>3
<1>7. CASE at \in 1..Len(t) /\ IsFirstCharOfKey(t[at])
  <2>1. PICK e \in at..Len(t) : e = KeyEnd(t, at)
    BY <1>7, KeyEndStops
  <2>2. PICK found : found = PotentialKey(t, at, KeyEnd(t, at))
    OBVIOUS
  <2>3. /\ Fresh(t, found.resume)
        /\ LaterMentions(t, at) = (IF found.counts THEN {<<at, e>>} ELSE {})
                                    \cup LaterMentions(t, found.resume)
    BY <1>2, <1>7, <2>1, <2>2, AKeyIsRead
  <2>4. PICK r \in (at + 1)..(Len(t) + 1) : r = found.resume
    <3>1. found.resume \in (e + 1)..(Len(t) + 1)
      BY <1>7, <2>1, <2>2, PotentialKeyReads
    <3> QED BY <3>1, <2>1, <1>7
  <2>5. ScanFrom(t, 1)[r] = Tallies(t, LaterMentions(t, r))
    BY <1>3, <2>3, <2>4
  <2>6. ~(at > Len(t))
    BY <1>7
  <2>7. CASE found.counts
    <3>1. ScanFrom(t, 1)[at] = Counted(ScanFrom(t, 1)[r], SubSeq(t, at, e),
                                       OperatorCharToDelta(t[e + 1], 1))
      BY <1>4, <1>7, <2>1, <2>2, <2>4, <2>6, <2>7, Zenon DEF ScanStep
    <3>2. LaterMentions(t, at) = {<<at, e>>} \cup LaterMentions(t, r)
      BY <2>3, <2>4, <2>7
    <3>3. <<at, e>> \notin LaterMentions(t, r)
      <4>1. ~(r <= at)
        BY <2>4, <1>7
      <4> QED BY <4>1 DEF LaterMentions
    <3>4. PICK p : p = <<at, e>>
      OBVIOUS
    <3>5. TextAt(t, p) = SubSeq(t, at, e) /\ p[2] = e
      BY <3>4 DEF TextAt
    <3>6. Tallies(t, {p} \cup LaterMentions(t, r))
            = Counted(Tallies(t, LaterMentions(t, r)), TextAt(t, p),
                      OperatorCharToDelta(t[p[2] + 1], 1))
      BY <3>3, <3>4, LaterMentionsAreFinite, CountedIsOneMore
    <3> QED BY <1>2, <2>5, <3>1, <3>2, <3>4, <3>5, <3>6
  <2>8. CASE ~found.counts
    <3>1. ScanFrom(t, 1)[at] = ScanFrom(t, 1)[r]
      BY <1>4, <1>7, <2>2, <2>4, <2>6, <2>8, Zenon DEF ScanStep
    <3>2. LaterMentions(t, at) = LaterMentions(t, r)
      BY <2>3, <2>4, <2>8
    <3> QED BY <1>2, <2>5, <3>1, <3>2
  <2> QED BY <2>7, <2>8
<1> QED BY <1>2, <1>5, <1>6, <1>7

\* PlusPlusScanner::scan: the counts are what the mentions come to.
LEMMA ScanIsTheMentions ==
    ASSUME NEW t \in Seq(Nat)
    PROVE  Scan(t, 1) = Tallies(t, Mentions(t))
<1>1. 1 \in 1..(Len(t) + 1)
  OBVIOUS
<1>2. Fresh(t, 1)
  BY DEF Fresh
<1>3. LaterMentions(t, 1) = Mentions(t)
  <2>1. \A p \in Mentions(t) : 1 <= p[1]
    BY MentionsArePlaces, PlacesArePairs
  <2> QED BY <2>1 DEF LaterMentions
<1> QED BY <1>1, <1>2, <1>3, ScanFromIsTheLater DEF Scan

-------------------------------------------------------------------------------
(* The theorems about the readers                                              *)

LEMMA ReadingOfNothing ==
    InOrder(<<>>, Spans(<<>>)) = <<>> /\ Tallies(<<>>, Mentions(<<>>)) = <<>>
<1>1. <<>> \in Seq(Nat) /\ Len(<<>>) = 0
  OBVIOUS
<1>2. Places(<<>>) = {}
  BY <1>1 DEF Places
<1>3. Spans(<<>>) = {} /\ Mentions(<<>>) = {}
  BY <1>1, <1>2, PlacesArePairs, MentionsArePlaces
<1>4. InOrder(<<>>, {}) = <<>>
  BY FS_EmptySet DEF InOrder
<1>5. Tallies(<<>>, {}) = <<>>
  BY DEF Tallies
<1> QED BY <1>3, <1>4, <1>5

LEMMA ScanFindsEveryMentionIsTallies ==
    ScanFindsEveryMention <=> counts = Tallies(text, Mentions(text))
BY DEF ScanFindsEveryMention, Tallies

\* WordSplitter::split, for every text: the tokens are the words of the text and
\* the characters between them, from left to right.
THEOREM TokensTheorem == ReadingSpec => []TokensAreTheWords
<1>1. ReadingInit => TokensAreTheWords
  BY ReadingOfNothing DEF ReadingInit, Nothing, TokensAreTheWords
<1>2. TokensAreTheWords /\ [ReadingNext]_<<reading, query>> => TokensAreTheWords'
  <2> SUFFICES ASSUME TokensAreTheWords, [ReadingNext]_<<reading, query>>
               PROVE  TokensAreTheWords'
    OBVIOUS
  <2>1. CASE UNCHANGED <<text, tokens>>
    BY <2>1 DEF TokensAreTheWords
  <2>2. ASSUME NEW t \in Texts, Read(t) PROVE TokensAreTheWords'
    <3>1. t \in Seq(Nat)
      BY TextsAssumption
    <3>2. text' = t /\ tokens' = InOrder(t, Spans(t))
      BY <2>2, <3>1, SplitIsTheWords DEF Read
    <3> QED BY <3>2 DEF TokensAreTheWords
  <2> QED
    BY <2>1, <2>2 DEF ReadingNext, reading, query, Ask, SquishOne, MakeDfa
<1> QED BY <1>1, <1>2, PTL DEF ReadingSpec

\* PlusPlusScanner::scan, for every text: each key's count is the number of its
\* mentions with ++ less that of those with --, and no other key has one.
THEOREM MentionsTheorem == ReadingSpec => []ScanFindsEveryMention
<1>1. ReadingInit => ScanFindsEveryMention
  BY ReadingOfNothing, ScanFindsEveryMentionIsTallies DEF ReadingInit, Nothing
<1>2. ScanFindsEveryMention /\ [ReadingNext]_<<reading, query>> => ScanFindsEveryMention'
  <2> SUFFICES ASSUME ScanFindsEveryMention, [ReadingNext]_<<reading, query>>
               PROVE  ScanFindsEveryMention'
    OBVIOUS
  <2>1. CASE UNCHANGED <<text, counts>>
    BY <2>1 DEF ScanFindsEveryMention
  <2>2. ASSUME NEW t \in Texts, Read(t) PROVE ScanFindsEveryMention'
    <3>1. t \in Seq(Nat)
      BY TextsAssumption
    <3>2. text' = t /\ counts' = Tallies(t, Mentions(t))
      BY <2>2, <3>1, ScanIsTheMentions DEF Read
    <3> QED BY <3>2 DEF ScanFindsEveryMention, Tallies
  <2> QED
    BY <2>1, <2>2 DEF ReadingNext, reading, query, Ask, SquishOne, MakeDfa
<1> QED BY <1>1, <1>2, PTL DEF ReadingSpec

-------------------------------------------------------------------------------
(* What a pattern means                                                        *)

IsPattern(pat) ==
  \E S : /\ pat \in Seq(S)
         /\ \A p \in 1..Len(pat) : pat[p].type \in {"Loose", "Exact", "MatchOne", "MatchN"}

LEMMA TranslateMakesAPattern ==
    ASSUME NEW t \in Seq(Nat)
    PROVE  IsPattern(Translate(t))
<1> DEFINE kept == {i \in 1..Len(t) : i \in Escaped(t) \/ t[i] # Backslash \/ i = Len(t)}
           nth(n) == CHOOSE i \in kept : Cardinality({j \in kept : j < i}) = n - 1
           PatternOf(i) ==
             IF i \notin Escaped(t) /\ t[i] = Question THEN MatchOne
             ELSE IF i \notin Escaped(t) /\ t[i] = Star THEN MatchN
             ELSE Char(t[i], ~ForceExact(t))
<1>1. Translate(t) = [n \in 1..Cardinality(kept) |-> PatternOf(nth(n))]
  BY Zenon DEF Translate
<1>2. PICK c \in Nat : c = Cardinality(kept)
  <2>1. IsFiniteSet(1..Len(t))
    BY FS_Interval
  <2>2. IsFiniteSet(kept)
    BY <2>1, FS_Subset
  <2> QED BY <2>2, FS_CardinalityType
<1>3. \A i : PatternOf(i).type \in {"Loose", "Exact", "MatchOne", "MatchN"}
  BY DEF MatchOne, MatchN, Char
<1> HIDE DEF kept, nth, PatternOf
<1> DEFINE S == {PatternOf(nth(n)) : n \in 1..c}
<1>4. Translate(t) \in Seq(S) /\ Len(Translate(t)) = c
  BY <1>1, <1>2
<1>5. \A p \in 1..c : Translate(t)[p] = PatternOf(nth(p))
  BY <1>1, <1>2
<1> HIDE DEF S
<1> QED BY <1>3, <1>4, <1>5 DEF IsPattern

\* Where what the pattern stands for from a place on may begin, from the same
\* of the next place.
StartsStep(pat, w, starts, p) ==
  LET later == starts[p + 1]
  IN  IF p > Len(pat) THEN {Len(w) + 1}
      ELSE IF pat[p].type = "MatchN"
      THEN {i \in 1..(Len(w) + 1) : \E j \in later : i <= j}
      ELSE {i \in 1..Len(w) : /\ pat[p].type = "MatchOne" \/ w[i] \in Class(pat[p])
                              /\ i + 1 \in later}

LEMMA StartsStepLooksBehind ==
    ASSUME NEW pat, NEW w, NEW f, NEW g, NEW p, p > Len(pat) \/ f[p + 1] = g[p + 1]
    PROVE  StartsStep(pat, w, f, p) = StartsStep(pat, w, g, p)
<1>1. CASE p > Len(pat)
  BY <1>1 DEF StartsStep
<1>2. CASE f[p + 1] = g[p + 1]
  BY <1>2, Zenon DEF StartsStep
<1> QED BY <1>1, <1>2

LEMMA StartsSolves ==
    ASSUME NEW pat, IsPattern(pat), NEW w \in Seq(Nat)
    PROVE  \A p \in 1..(Len(pat) + 1) : Starts(pat, w)[p] = StartsStep(pat, w, Starts(pat, w), p)
<1> DEFINE D == 1..(Len(pat) + 1)
           T == {n \in D : \E f : \A p \in n..(Len(pat) + 1) : f[p] = StartsStep(pat, w, f, p)}
<1>1. Len(pat) \in Nat
  BY DEF IsPattern
<1>2. Len(pat) + 1 \in T
  <2> DEFINE f == [p \in D |-> {Len(w) + 1}]
  <2>1. \A p \in (Len(pat) + 1)..(Len(pat) + 1) : p > Len(pat) /\ f[p] = {Len(w) + 1}
    BY <1>1
  <2> HIDE DEF f
  <2>2. \A p \in (Len(pat) + 1)..(Len(pat) + 1) : f[p] = StartsStep(pat, w, f, p)
    BY <2>1, Zenon DEF StartsStep
  <2> QED BY <1>1, <2>2
<1>3. PICK n \in T : \A m \in T : n <= m
  <2>1. T \in SUBSET Nat /\ T # {}
    BY <1>1, <1>2
  <2> HIDE DEF T
  <2> QED BY <2>1, SmallestElement
<1>4. PICK f : \A p \in n..(Len(pat) + 1) : f[p] = StartsStep(pat, w, f, p)
  OBVIOUS
<1>5. n = 1
  <2> SUFFICES ASSUME n # 1 PROVE FALSE
    OBVIOUS
  <2>1. n \in 2..(Len(pat) + 1)
    BY <1>1, <1>3
  <2> DEFINE g == [p \in D |-> IF p = n - 1 THEN StartsStep(pat, w, f, n - 1) ELSE f[p]]
  <2>2. \A p \in n..(Len(pat) + 1) : g[p] = f[p]
    BY <1>1, <2>1
  <2>3. g[n - 1] = StartsStep(pat, w, f, n - 1)
    BY <1>1, <2>1
  <2> HIDE DEF g
  <2>4. ASSUME NEW p \in (n - 1)..(Len(pat) + 1) PROVE g[p] = StartsStep(pat, w, g, p)
    <3>1. p > Len(pat) \/ g[p + 1] = f[p + 1]
      BY <1>1, <2>1, <2>2
    <3>2. StartsStep(pat, w, g, p) = StartsStep(pat, w, f, p)
      BY <3>1, StartsStepLooksBehind
    <3>3. p = n - 1 \/ p \in n..(Len(pat) + 1)
      BY <1>1, <2>1
    <3> QED BY <3>2, <3>3, <2>2, <2>3, <1>4
  <2>5. n - 1 \in T
    BY <1>1, <2>4, <2>1
  <2> HIDE DEF T
  <2>6. n <= n - 1
    BY <2>5, <1>3
  <2> QED BY <1>1, <2>6, <2>1
<1>6. \E g : g = [p \in D |-> StartsStep(pat, w, g, p)]
  <2> DEFINE g == [p \in D |-> f[p]]
  <2>1. \A p \in D : g[p] = f[p]
    OBVIOUS
  <2> HIDE DEF g
  <2>2. ASSUME NEW p \in D PROVE StartsStep(pat, w, g, p) = f[p]
    <3>1. p > Len(pat) \/ g[p + 1] = f[p + 1]
      BY <1>1, <2>1
    <3>2. StartsStep(pat, w, g, p) = StartsStep(pat, w, f, p)
      BY <3>1, StartsStepLooksBehind
    <3> QED BY <3>2, <1>4, <1>5
  <2>3. g = [p \in D |-> StartsStep(pat, w, g, p)]
    BY <2>2 DEF g
  <2> QED BY <2>3
<1>7. Starts(pat, w) = [p \in D |-> StartsStep(pat, w, Starts(pat, w), p)]
  <2>1. Starts(pat, w) = CHOOSE g : g = [p \in D |-> StartsStep(pat, w, g, p)]
    BY Zenon DEF Starts, StartsStep
  <2> QED BY <2>1, <1>6, Zenon
<1> HIDE DEF T
<1> QED BY <1>7

\* One place of the pattern at a time: the end of the pattern is the end of the
\* probe, a MatchN takes another character or none, the others take one.
LEMMA StartsOneByOne ==
    ASSUME NEW pat, IsPattern(pat), NEW w \in Seq(Nat), NEW i \in 1..(Len(w) + 1)
    PROVE  /\ i \in Starts(pat, w)[Len(pat) + 1] <=> i = Len(w) + 1
           /\ \A p \in 1..Len(pat) :
                /\ pat[p].type = "MatchN" =>
                     (i \in Starts(pat, w)[p] <=>
                        \/ i \in Starts(pat, w)[p + 1]
                        \/ i <= Len(w) /\ i + 1 \in Starts(pat, w)[p])
                /\ pat[p].type # "MatchN" =>
                     (i \in Starts(pat, w)[p] <=>
                        /\ i <= Len(w) /\ i + 1 \in Starts(pat, w)[p + 1]
                        /\ pat[p].type = "MatchOne" \/ w[i] \in Class(pat[p]))
<1>1. Len(pat) \in Nat /\ Len(w) \in Nat
  BY DEF IsPattern
<1>2. PICK f : f = Starts(pat, w)
  OBVIOUS
<1>3. \A p \in 1..(Len(pat) + 1) : f[p] = StartsStep(pat, w, f, p)
  BY <1>2, StartsSolves
<1>4. f[Len(pat) + 1] = {Len(w) + 1}
  <2>1. Len(pat) + 1 > Len(pat) /\ Len(pat) + 1 \in 1..(Len(pat) + 1)
    BY <1>1
  <2> QED BY <1>3, <2>1, Zenon DEF StartsStep
<1>5. ASSUME NEW p \in 1..(Len(pat) + 1) PROVE f[p] \subseteq 1..(Len(w) + 1)
  <2>1. f[p] = StartsStep(pat, w, f, p)
    BY <1>3
  <2>2. StartsStep(pat, w, f, p) \subseteq 1..(Len(w) + 1)
    <3> SUFFICES ASSUME NEW j \in StartsStep(pat, w, f, p) PROVE j \in 1..(Len(w) + 1)
      OBVIOUS
    <3>1. CASE p > Len(pat)
      BY <3>1, <1>1 DEF StartsStep
    <3>2. CASE ~(p > Len(pat)) /\ pat[p].type = "MatchN"
      BY <3>2, Zenon DEF StartsStep
    <3>3. CASE ~(p > Len(pat)) /\ pat[p].type # "MatchN"
      <4>1. j \in 1..Len(w)
        BY <3>3, Zenon DEF StartsStep
      <4> QED BY <4>1, <1>1
    <3> QED BY <3>1, <3>2, <3>3
  <2> QED BY <2>1, <2>2
<1>6. ASSUME NEW p \in 1..Len(pat), pat[p].type = "MatchN"
      PROVE  i \in f[p] <=> i \in f[p + 1] \/ (i <= Len(w) /\ i + 1 \in f[p])
  <2>1. p \in 1..(Len(pat) + 1) /\ p + 1 \in 1..(Len(pat) + 1) /\ ~(p > Len(pat))
    BY <1>1
  <2>2. f[p] = {k \in 1..(Len(w) + 1) : \E j \in f[p + 1] : k <= j}
    BY <1>3, <1>6, <2>1, Zenon DEF StartsStep
  <2>3. \A j \in f[p + 1] : j \in 1..(Len(w) + 1)
    BY <1>5, <2>1
  <2>4. ASSUME i \in f[p], i \notin f[p + 1] PROVE i <= Len(w) /\ i + 1 \in f[p]
    <3>1. PICK j \in f[p + 1] : i <= j
      BY <2>2, <2>4
    <3>2. j # i
      BY <2>4
    <3>3. i + 1 <= j /\ i + 1 \in 1..(Len(w) + 1)
      BY <3>1, <3>2, <2>3, <1>1
    <3> QED BY <3>1, <3>3, <2>2, <1>1
  <2>5. i \in f[p + 1] => i \in f[p]
    BY <2>2
  <2>6. ASSUME i <= Len(w), i + 1 \in f[p] PROVE i \in f[p]
    <3>1. PICK j \in f[p + 1] : i + 1 <= j
      BY <2>2, <2>6
    <3>2. i <= j
      BY <3>1, <2>3
    <3> QED BY <3>1, <3>2, <2>2
  <2> QED BY <2>4, <2>5, <2>6
<1>7. ASSUME NEW p \in 1..Len(pat), pat[p].type # "MatchN"
      PROVE  i \in f[p] <=> /\ i <= Len(w) /\ i + 1 \in f[p + 1]
                            /\ pat[p].type = "MatchOne" \/ w[i] \in Class(pat[p])
  <2>1. p \in 1..(Len(pat) + 1) /\ ~(p > Len(pat))
    BY <1>1
  <2>2. f[p] = {k \in 1..Len(w) : /\ pat[p].type = "MatchOne" \/ w[k] \in Class(pat[p])
                                  /\ k + 1 \in f[p + 1]}
    BY <1>3, <1>7, <2>1, Zenon DEF StartsStep
  <2> QED BY <2>2, <1>1
<1> QED BY <1>2, <1>4, <1>6, <1>7

-------------------------------------------------------------------------------
(* The nondeterministic machine and its keys                                   *)

\* Where place n of the pattern goes on ch.
PlaceGoes(pat, n, ch) ==
  IF n > Len(pat) THEN NoNode
  ELSE IF pat[n].type = "MatchN" THEN n
  ELSE IF pat[n].type = "MatchOne" \/ ch \in Class(pat[n]) THEN n + 1 ELSE NoNode

LEMMA NdfaFollowsThePattern ==
    ASSUME NEW pat, IsPattern(pat)
    PROVE  /\ Len(pat) \in Nat /\ Len(NDFA(pat)) = Len(pat) + 1
           /\ \A n \in 1..(Len(pat) + 1) :
                /\ NDFA(pat)[n].accepting <=> n = Len(pat) + 1
                /\ NDFA(pat)[n].empty =
                     IF n <= Len(pat) /\ pat[n].type = "MatchN" THEN n + 1 ELSE NoNode
                /\ \A ch : Goes(NDFA(pat)[n], ch) = PlaceGoes(pat, n, ch)
                /\ \A ch : ch \notin DOMAIN NDFA(pat)[n].transitions =>
                             NDFA(pat)[n].otherwise = PlaceGoes(pat, n, ch)
                /\ \A ch \in DOMAIN NDFA(pat)[n].transitions :
                     NDFA(pat)[n].transitions[ch] = PlaceGoes(pat, n, ch)
<1>1. Len(pat) \in Nat
  BY DEF IsPattern
<1> DEFINE Type(n) == IF n > Len(pat) THEN "done" ELSE pat[n].type
           Trans(n) == [ch \in IF Type(n) \in {"Loose", "Exact"} THEN Class(pat[n]) ELSE {}
                          |-> n + 1]
           Other(n) == CASE Type(n) = "MatchOne" -> n + 1
                         [] Type(n) = "MatchN" -> n
                         [] OTHER -> NoNode
           Empty(n) == IF Type(n) = "MatchN" THEN n + 1 ELSE NoNode
<1>2. NDFA(pat) = [n \in 1..(Len(pat) + 1) |->
                     [accepting |-> Type(n) = "done", transitions |-> Trans(n),
                      otherwise |-> Other(n), empty |-> Empty(n)]]
  BY Zenon DEF NDFA
<1> HIDE DEF Type, Trans, Other, Empty
<1>3. Len(NDFA(pat)) = Len(pat) + 1
  BY <1>1, <1>2
<1>4. ASSUME NEW n \in 1..(Len(pat) + 1)
      PROVE  /\ NDFA(pat)[n].accepting <=> n = Len(pat) + 1
             /\ NDFA(pat)[n].empty =
                  IF n <= Len(pat) /\ pat[n].type = "MatchN" THEN n + 1 ELSE NoNode
             /\ \A ch : ch \notin DOMAIN NDFA(pat)[n].transitions =>
                          NDFA(pat)[n].otherwise = PlaceGoes(pat, n, ch)
             /\ \A ch \in DOMAIN NDFA(pat)[n].transitions :
                  NDFA(pat)[n].transitions[ch] = PlaceGoes(pat, n, ch)
  <2>1. NDFA(pat)[n] = [accepting |-> Type(n) = "done", transitions |-> Trans(n),
                        otherwise |-> Other(n), empty |-> Empty(n)]
    BY <1>2
  <2>2. /\ NDFA(pat)[n].accepting = (Type(n) = "done")
        /\ NDFA(pat)[n].transitions = Trans(n)
        /\ NDFA(pat)[n].otherwise = Other(n)
        /\ NDFA(pat)[n].empty = Empty(n)
    <3>1. NDFA(pat)[n].accepting = (Type(n) = "done")
      BY <2>1
    <3>2. /\ NDFA(pat)[n].transitions = Trans(n)
          /\ NDFA(pat)[n].otherwise = Other(n)
          /\ NDFA(pat)[n].empty = Empty(n)
      BY <2>1
    <3> QED BY <3>1, <3>2
  <2>3. n <= Len(pat) => pat[n].type \in {"Loose", "Exact", "MatchOne", "MatchN"}
    BY <1>1 DEF IsPattern
  <2>4. CASE n = Len(pat) + 1
    <3>1. Type(n) = "done" /\ n > Len(pat) /\ ~(n <= Len(pat))
      BY <1>1, <2>4 DEF Type
    <3>2. Trans(n) = [ch \in {} |-> n + 1] /\ Other(n) = NoNode /\ Empty(n) = NoNode
      BY <3>1 DEF Trans, Other, Empty
    <3>3. \A ch : PlaceGoes(pat, n, ch) = NoNode
      BY <3>1, Zenon DEF PlaceGoes
    <3> QED BY <2>2, <2>4, <3>1, <3>2, <3>3
  <2>5. CASE n <= Len(pat)
    <3>1. Type(n) = pat[n].type /\ Type(n) # "done" /\ ~(n > Len(pat)) /\ n # Len(pat) + 1
      BY <1>1, <2>3, <2>5 DEF Type
    <3>2. CASE pat[n].type = "MatchN"
      <4>1. Trans(n) = [ch \in {} |-> n + 1] /\ Other(n) = n /\ Empty(n) = n + 1
        BY <3>1, <3>2 DEF Trans, Other, Empty
      <4>2. \A ch : PlaceGoes(pat, n, ch) = n
        BY <3>1, <3>2, Zenon DEF PlaceGoes
      <4> QED BY <2>2, <2>5, <3>1, <3>2, <4>1, <4>2
    <3>3. CASE pat[n].type = "MatchOne"
      <4>1. Trans(n) = [ch \in {} |-> n + 1] /\ Other(n) = n + 1 /\ Empty(n) = NoNode
        BY <3>1, <3>3 DEF Trans, Other, Empty
      <4>2. \A ch : PlaceGoes(pat, n, ch) = n + 1
        BY <3>1, <3>3 DEF PlaceGoes
      <4> QED BY <2>2, <2>5, <3>1, <3>3, <4>1, <4>2
    <3>4. CASE pat[n].type \in {"Loose", "Exact"}
      <4>1. Trans(n) = [ch \in Class(pat[n]) |-> n + 1] /\ Other(n) = NoNode /\ Empty(n) = NoNode
        BY <3>1, <3>4 DEF Trans, Other, Empty
      <4>2. \A ch : PlaceGoes(pat, n, ch) = IF ch \in Class(pat[n]) THEN n + 1 ELSE NoNode
        BY <3>1, <3>4 DEF PlaceGoes
      <4>3. DOMAIN Trans(n) = Class(pat[n]) /\ \A ch \in Class(pat[n]) : Trans(n)[ch] = n + 1
        BY <4>1
      <4> QED BY <2>2, <2>5, <3>1, <3>4, <4>1, <4>2, <4>3
    <3> QED BY <2>3, <2>5, <3>2, <3>3, <3>4
  <2> QED BY <1>1, <2>4, <2>5
<1>5. ASSUME NEW n \in 1..(Len(pat) + 1), NEW ch
      PROVE  Goes(NDFA(pat)[n], ch) = PlaceGoes(pat, n, ch)
  BY <1>4, Zenon DEF Goes
<1> QED BY <1>1, <1>3, <1>4, <1>5

KeyPlaces(pat) == 1..(Len(pat) + 1)

\* A key has the place behind each MatchN in it.
EpsClosed(pat, key) ==
  \A n \in key : n <= Len(pat) /\ pat[n].type = "MatchN" => n + 1 \in key

LEMMA LastEmptyStops ==
    ASSUME NEW pat, IsPattern(pat), NEW n \in KeyPlaces(pat)
    PROVE  /\ LastEmpty(NDFA(pat), n) \in n..(Len(pat) + 1)
           /\ \A k \in n..(LastEmpty(NDFA(pat), n) - 1) : k <= Len(pat) /\ pat[k].type = "MatchN"
           /\ LastEmpty(NDFA(pat), n) <= Len(pat) => pat[LastEmpty(NDFA(pat), n)].type # "MatchN"
<1> DEFINE P == Len(pat) + 1
           Eps(k) == k <= Len(pat) /\ pat[k].type = "MatchN"
           T == {k \in n..P : ~Eps(k)}
<1>1. Len(pat) \in Nat /\ n \in 1..P
  BY NdfaFollowsThePattern DEF KeyPlaces
<1>2. PICK e \in T : \A k \in T : e <= k
  <2>1. T \in SUBSET Nat /\ P \in T
    BY <1>1
  <2> HIDE DEF T
  <2> QED BY <2>1, SmallestElement
<1>3. e \in n..P /\ ~Eps(e)
  OBVIOUS
<1>4. \A k \in n..(e - 1) : Eps(k)
  <2> SUFFICES ASSUME NEW k \in n..(e - 1), ~Eps(k) PROVE FALSE
    OBVIOUS
  <2>1. k \in T /\ k < e
    BY <1>1, <1>3
  <2> HIDE DEF T
  <2>2. e <= k
    BY <1>2, <2>1
  <2> QED BY <1>1, <1>3, <2>1, <2>2
<1> HIDE DEF T
<1>5. \A k \in n..P : NDFA(pat)[k].empty = IF Eps(k) THEN k + 1 ELSE NoNode
  BY <1>1, NdfaFollowsThePattern
<1>6. Len(NDFA(pat)) = P
  BY NdfaFollowsThePattern
<1> DEFINE Q(r) == NDFA(pat)[r].empty = NoNode /\ \A k \in n..(r - 1) : NDFA(pat)[k].empty = k + 1
<1>7. LastEmpty(NDFA(pat), n) = CHOOSE r \in n..P : Q(r)
  BY <1>6, Zenon DEF LastEmpty
<1>8. Q(e)
  <2>1. NDFA(pat)[e].empty = NoNode
    BY <1>3, <1>5
  <2>2. \A k \in n..(e - 1) : k \in n..P
    BY <1>1, <1>3
  <2> HIDE DEF Eps
  <2> QED BY <1>4, <1>5, <2>1, <2>2
<1>9. PICK last : last = LastEmpty(NDFA(pat), n)
  OBVIOUS
<1>10. last \in n..P /\ Q(last)
  <2> HIDE DEF Q
  <2> QED BY <1>3, <1>7, <1>8, <1>9
<1>11. ~Eps(last)
  <2>1. last + 1 # NoNode
    BY <1>1, <1>10 DEF NoNode
  <2> QED BY <1>5, <1>10, <2>1
<1>12. ASSUME NEW k \in n..(last - 1) PROVE Eps(k)
  <2>1. k \in n..P /\ k + 1 # NoNode
    BY <1>1, <1>10 DEF NoNode
  <2> QED BY <1>5, <1>10, <2>1
<1> QED BY <1>9, <1>10, <1>11, <1>12

\* A key has the nodes it is made of, and is closed.
LEMMA KeyOfIsClosed ==
    ASSUME NEW pat, IsPattern(pat), NEW nodes \in SUBSET KeyPlaces(pat)
    PROVE  /\ KeyOf(NDFA(pat), nodes) \in SUBSET KeyPlaces(pat)
           /\ nodes \subseteq KeyOf(NDFA(pat), nodes)
           /\ EpsClosed(pat, KeyOf(NDFA(pat), nodes))
           /\ \A q \in KeyOf(NDFA(pat), nodes) : \E n \in nodes :
                n <= q /\ \A k \in n..(q - 1) : k <= Len(pat) /\ pat[k].type = "MatchN"
<1> DEFINE Farthest(n) == LastEmpty(NDFA(pat), n)
<1>1. Len(pat) \in Nat
  BY NdfaFollowsThePattern
<1>2. KeyOf(NDFA(pat), nodes) = UNION {n..Farthest(n) : n \in nodes}
  BY DEF KeyOf
<1>3. ASSUME NEW n \in nodes
      PROVE  /\ n \in 1..(Len(pat) + 1) /\ Farthest(n) \in n..(Len(pat) + 1)
             /\ \A k \in n..(Farthest(n) - 1) : k <= Len(pat) /\ pat[k].type = "MatchN"
             /\ Farthest(n) <= Len(pat) => pat[Farthest(n)].type # "MatchN"
  BY LastEmptyStops DEF KeyPlaces
<1> HIDE DEF Farthest
<1>4. KeyOf(NDFA(pat), nodes) \in SUBSET KeyPlaces(pat)
  <2> SUFFICES ASSUME NEW n \in nodes, NEW q \in n..Farthest(n) PROVE q \in 1..(Len(pat) + 1)
    BY <1>2 DEF KeyPlaces
  <2> QED BY <1>1, <1>3
<1>5. nodes \subseteq KeyOf(NDFA(pat), nodes)
  <2> SUFFICES ASSUME NEW n \in nodes PROVE n \in n..Farthest(n)
    BY <1>2
  <2> QED BY <1>1, <1>3
<1>6. EpsClosed(pat, KeyOf(NDFA(pat), nodes))
  <2> SUFFICES ASSUME NEW n \in nodes, NEW q \in n..Farthest(n), q <= Len(pat), pat[q].type = "MatchN"
               PROVE  q + 1 \in n..Farthest(n)
    BY <1>2 DEF EpsClosed
  <2>1. q # Farthest(n)
    BY <1>3
  <2> QED BY <1>1, <1>3, <2>1
<1>7. ASSUME NEW q \in KeyOf(NDFA(pat), nodes)
      PROVE  \E n \in nodes :
               n <= q /\ \A k \in n..(q - 1) : k <= Len(pat) /\ pat[k].type = "MatchN"
  <2>1. PICK n \in nodes : q \in n..Farthest(n)
    BY <1>2
  <2>2. n <= q /\ \A k \in n..(q - 1) : k \in n..(Farthest(n) - 1)
    BY <1>1, <1>3, <2>1
  <2> QED BY <1>3, <2>2
<1> QED BY <1>4, <1>5, <1>6, <1>7

\* The rest of the probe from i on is what some place of the key stands for.
Lang(pat, key, w, i) == \E p \in key : i \in Starts(pat, w)[p]

LEMMA AKeyMeansItsNodes ==
    ASSUME NEW pat, IsPattern(pat), NEW nodes \in SUBSET KeyPlaces(pat),
           NEW w \in Seq(Nat), NEW i \in 1..(Len(w) + 1)
    PROVE  Lang(pat, KeyOf(NDFA(pat), nodes), w, i) <=> Lang(pat, nodes, w, i)
<1> DEFINE In(p) == i \in Starts(pat, w)[p]
<1>1. Len(pat) \in Nat
  BY NdfaFollowsThePattern
<1>2. ASSUME Lang(pat, nodes, w, i) PROVE Lang(pat, KeyOf(NDFA(pat), nodes), w, i)
  BY <1>2, KeyOfIsClosed DEF Lang
<1>3. ASSUME Lang(pat, KeyOf(NDFA(pat), nodes), w, i) PROVE Lang(pat, nodes, w, i)
  <2>1. PICK q \in KeyOf(NDFA(pat), nodes) : In(q)
    BY <1>3 DEF Lang
  <2>2. PICK n \in nodes :
          n <= q /\ \A k \in n..(q - 1) : k <= Len(pat) /\ pat[k].type = "MatchN"
    BY KeyOfIsClosed
  <2>3. n \in 1..(Len(pat) + 1) /\ q \in 1..(Len(pat) + 1)
    BY KeyOfIsClosed DEF KeyPlaces
  <2> DEFINE T == {k \in n..q : In(k)}
  <2>4. PICK k \in T : \A m \in T : k <= m
    <3>1. T \in SUBSET Nat /\ q \in T
      BY <2>1, <2>2, <2>3
    <3> HIDE DEF T
    <3> QED BY <3>1, SmallestElement
  <2>5. k = n
    <3> SUFFICES ASSUME k # n PROVE FALSE
      OBVIOUS
    <3>1. k \in n..q /\ In(k)
      OBVIOUS
    <3>2. PICK j : j = k - 1
      OBVIOUS
    <3>3. j \in n..(q - 1) /\ j + 1 = k /\ j \in n..q /\ j < k
      BY <2>3, <3>1, <3>2
    <3>4. j \in 1..Len(pat) /\ pat[j].type = "MatchN"
      BY <2>2, <2>3, <3>3
    <3>5. In(j)
      BY <3>1, <3>3, <3>4, StartsOneByOne
    <3>6. j \in T
      BY <3>3, <3>5
    <3> HIDE DEF T
    <3>7. k <= j
      BY <2>4, <3>6
    <3> QED BY <3>1, <3>3, <3>7, <2>3
  <2> QED BY <2>4, <2>5 DEF Lang
<1> QED BY <1>2, <1>3

\* The places a key's places go to on ch.
KeyGoes(pat, key, ch) == {PlaceGoes(pat, n, ch) : n \in key} \ {NoNode}

LEMMA KeyGoesToPlaces ==
    ASSUME NEW pat, IsPattern(pat), NEW key \in SUBSET KeyPlaces(pat), NEW ch
    PROVE  KeyGoes(pat, key, ch) \in SUBSET KeyPlaces(pat)
<1>1. Len(pat) \in Nat
  BY NdfaFollowsThePattern
<1>2. ASSUME NEW n \in KeyPlaces(pat)
      PROVE  PlaceGoes(pat, n, ch) = NoNode \/ PlaceGoes(pat, n, ch) \in KeyPlaces(pat)
  <2>1. n \in 1..(Len(pat) + 1)
    BY DEF KeyPlaces
  <2>2. n > Len(pat) \/ n + 1 \in 1..(Len(pat) + 1)
    BY <1>1, <2>1
  <2>3. PlaceGoes(pat, n, ch) \in {NoNode, n, n + 1}
    BY DEF PlaceGoes
  <2>4. n > Len(pat) => PlaceGoes(pat, n, ch) = NoNode
    BY DEF PlaceGoes
  <2> QED BY <2>1, <2>2, <2>3, <2>4 DEF KeyPlaces
<1> QED BY <1>2 DEF KeyGoes

\* A closed key means the rest of the probe exactly if what it goes to on the next
\* character means what is left then.
LEMMA AKeyGoesOn ==
    ASSUME NEW pat, IsPattern(pat), NEW key \in SUBSET KeyPlaces(pat), EpsClosed(pat, key),
           NEW w \in Seq(Nat), NEW i \in 1..Len(w)
    PROVE  Lang(pat, key, w, i) <=> Lang(pat, KeyGoes(pat, key, w[i]), w, i + 1)
<1> DEFINE In(p, j) == j \in Starts(pat, w)[p]
           ch == w[i]
<1>1. Len(pat) \in Nat /\ Len(w) \in Nat /\ i \in 1..(Len(w) + 1) /\ i + 1 \in 1..(Len(w) + 1)
  BY NdfaFollowsThePattern
<1>2. \A p \in key : p \in 1..(Len(pat) + 1)
  BY DEF KeyPlaces
<1>3. ~In(Len(pat) + 1, i)
  BY <1>1, StartsOneByOne
<1>4. ASSUME NEW p \in 1..Len(pat), pat[p].type = "MatchN"
      PROVE  In(p, i) <=> In(p + 1, i) \/ In(p, i + 1)
  BY <1>1, <1>4, StartsOneByOne
<1>5. ASSUME NEW p \in 1..Len(pat), pat[p].type # "MatchN"
      PROVE  In(p, i) <=> In(p + 1, i + 1) /\ (pat[p].type = "MatchOne" \/ ch \in Class(pat[p]))
  BY <1>1, <1>5, StartsOneByOne
<1> HIDE DEF In, ch
<1>6. ASSUME Lang(pat, key, w, i) PROVE Lang(pat, KeyGoes(pat, key, ch), w, i + 1)
  <2> DEFINE T == {p \in key : In(p, i)}
  <2>1. PICK p \in T : \A q \in T : q <= p
    <3>1. T # {}
      BY <1>6 DEF Lang, In
    <3>2. T \in SUBSET Nat /\ Len(pat) + 1 \in Nat /\ \A q \in T : q <= Len(pat) + 1
      BY <1>1, <1>2
    <3> HIDE DEF T
    <3> QED BY <3>1, <3>2, GreatestElement
  <2>2. p \in key /\ In(p, i)
    OBVIOUS
  <2>3. p \in 1..Len(pat) /\ ~(p > Len(pat))
    <3>1. p # Len(pat) + 1
      BY <1>3, <2>2
    <3> QED BY <1>1, <1>2, <2>2, <3>1
  <2>4. CASE pat[p].type = "MatchN"
    <3>1. ~In(p + 1, i)
      <4> SUFFICES ASSUME In(p + 1, i) PROVE FALSE
        OBVIOUS
      <4>1. p + 1 \in T
        BY <1>1, <2>2, <2>3, <2>4 DEF EpsClosed
      <4> HIDE DEF T
      <4>2. p + 1 <= p
        BY <2>1, <4>1
      <4> QED BY <2>3, <4>2
    <3>2. In(p, i + 1)
      BY <1>4, <2>2, <2>3, <2>4, <3>1
    <3>3. PlaceGoes(pat, p, ch) = p /\ p # NoNode
      BY <2>3, <2>4 DEF PlaceGoes, NoNode
    <3>4. p \in KeyGoes(pat, key, ch)
      BY <2>2, <3>3 DEF KeyGoes
    <3> QED BY <3>2, <3>4 DEF Lang, In
  <2>5. CASE pat[p].type # "MatchN"
    <3>1. In(p + 1, i + 1) /\ (pat[p].type = "MatchOne" \/ ch \in Class(pat[p]))
      BY <1>5, <2>2, <2>3, <2>5
    <3>2. PlaceGoes(pat, p, ch) = p + 1 /\ p + 1 # NoNode
      BY <2>3, <2>5, <3>1 DEF PlaceGoes, NoNode
    <3>3. p + 1 \in KeyGoes(pat, key, ch)
      BY <2>2, <3>2 DEF KeyGoes
    <3> QED BY <3>1, <3>3 DEF Lang, In
  <2> QED BY <2>4, <2>5
<1>7. ASSUME Lang(pat, KeyGoes(pat, key, ch), w, i + 1) PROVE Lang(pat, key, w, i)
  <2>1. PICK p \in key : PlaceGoes(pat, p, ch) # NoNode /\ In(PlaceGoes(pat, p, ch), i + 1)
    BY <1>7 DEF Lang, KeyGoes, In
  <2>2. p \in 1..Len(pat) /\ ~(p > Len(pat))
    <3>1. ~(p > Len(pat))
      BY <2>1 DEF PlaceGoes
    <3> QED BY <1>1, <1>2, <3>1
  <2>3. In(p, i)
    <3>1. CASE pat[p].type = "MatchN"
      <4>1. PlaceGoes(pat, p, ch) = p
        BY <2>2, <3>1 DEF PlaceGoes
      <4> QED BY <1>4, <2>1, <2>2, <3>1, <4>1
    <3>2. CASE pat[p].type # "MatchN"
      <4>1. /\ PlaceGoes(pat, p, ch) = p + 1
            /\ pat[p].type = "MatchOne" \/ ch \in Class(pat[p])
        BY <2>1, <2>2, <3>2 DEF PlaceGoes
      <4> QED BY <1>5, <2>1, <2>2, <3>2, <4>1
    <3> QED BY <3>1, <3>2
  <2> QED BY <2>3 DEF Lang, In
<1> QED BY <1>6, <1>7 DEF ch

\* A closed key means the end of the probe exactly if the pattern's end is in it.
LEMMA AKeyAccepts ==
    ASSUME NEW pat, IsPattern(pat), NEW key \in SUBSET KeyPlaces(pat), EpsClosed(pat, key),
           NEW w \in Seq(Nat)
    PROVE  Lang(pat, key, w, Len(w) + 1) <=> Len(pat) + 1 \in key
<1> DEFINE end == Len(w) + 1
           In(p) == end \in Starts(pat, w)[p]
<1>1. Len(pat) \in Nat /\ Len(w) \in Nat /\ end \in 1..(Len(w) + 1)
  BY NdfaFollowsThePattern
<1>2. \A p \in key : p \in 1..(Len(pat) + 1)
  BY DEF KeyPlaces
<1>3. In(Len(pat) + 1)
  BY <1>1, StartsOneByOne
<1>4. ASSUME NEW p \in 1..Len(pat), In(p) PROVE pat[p].type = "MatchN" /\ In(p + 1)
  <2>1. ~(end <= Len(w))
    BY <1>1
  <2> HIDE DEF end
  <2> QED BY <1>1, <1>4, <2>1, StartsOneByOne
<1> HIDE DEF In
<1>5. Len(pat) + 1 \in key => Lang(pat, key, w, end)
  BY <1>3 DEF Lang, In
<1>6. ASSUME Lang(pat, key, w, end) PROVE Len(pat) + 1 \in key
  <2> DEFINE T == {p \in key : In(p)}
  <2>1. PICK p \in T : \A q \in T : q <= p
    <3>1. T # {}
      BY <1>6 DEF Lang, In
    <3>2. T \in SUBSET Nat /\ Len(pat) + 1 \in Nat /\ \A q \in T : q <= Len(pat) + 1
      BY <1>1, <1>2
    <3> HIDE DEF T
    <3> QED BY <3>1, <3>2, GreatestElement
  <2>2. p \in key /\ In(p)
    OBVIOUS
  <2>3. ~(p \in 1..Len(pat))
    <3> SUFFICES ASSUME p \in 1..Len(pat) PROVE FALSE
      OBVIOUS
    <3>1. pat[p].type = "MatchN" /\ In(p + 1)
      BY <1>4, <2>2
    <3>2. p + 1 \in T
      BY <1>1, <2>2, <3>1 DEF EpsClosed
    <3> HIDE DEF T
    <3>3. p + 1 <= p
      BY <2>1, <3>2
    <3> QED BY <3>3
  <2>4. p = Len(pat) + 1
    BY <1>1, <1>2, <2>2, <2>3
  <2> QED BY <2>2, <2>4
<1> QED BY <1>5, <1>6

\* The keys of the intermediate nodes.
KeysOf(pat) == {key \in SUBSET KeyPlaces(pat) : key # NoKey /\ EpsClosed(pat, key)}

\* Converter::populateIntermediateNode: the node leads where its places go.
LEMMA PopulatedGoesWhereItsPlacesGo ==
    ASSUME NEW pat, IsPattern(pat), NEW key \in SUBSET KeyPlaces(pat),
           NEW inode, inode = Populated(NDFA(pat), key)
    PROVE  /\ inode.accepting <=> Len(pat) + 1 \in key
           /\ \A ch : Goes(inode, ch) = KeyOf(NDFA(pat), KeyGoes(pat, key, ch))
           /\ \A ch \in DOMAIN inode.transitions :
                inode.transitions[ch] \in KeysOf(pat) \cup {NoKey}
           /\ inode.otherwise \in KeysOf(pat) \cup {NoKey}
<1> DEFINE ndfa == NDFA(pat)
           chars == UNION {DOMAIN ndfa[n].transitions : n \in key}
           T(ch) == KeyOf(ndfa, {Goes(ndfa[n], ch) : n \in key} \ {NoNode})
           O == KeyOf(ndfa, {ndfa[n].otherwise : n \in key} \ {NoNode})
           A == \E n \in key : ndfa[n].accepting
<1>1. inode = [accepting |-> A, transitions |-> [ch \in chars |-> T(ch)], otherwise |-> O]
  BY Zenon DEF Populated
<1>2. key \subseteq 1..(Len(pat) + 1)
  BY DEF KeyPlaces
<1>3. A <=> Len(pat) + 1 \in key
  <2>1. \A n \in key : ndfa[n].accepting <=> n = Len(pat) + 1
    BY <1>2, NdfaFollowsThePattern
  <2> QED BY <2>1
<1>4. ASSUME NEW ch PROVE T(ch) = KeyOf(ndfa, KeyGoes(pat, key, ch))
  <2>1. \A n \in key : Goes(ndfa[n], ch) = PlaceGoes(pat, n, ch)
    BY <1>2, NdfaFollowsThePattern
  <2>2. {Goes(ndfa[n], ch) : n \in key} = {PlaceGoes(pat, n, ch) : n \in key}
    BY <2>1
  <2> QED BY <2>2 DEF KeyGoes
<1>5. ASSUME NEW ch, ch \notin chars PROVE O = KeyOf(ndfa, KeyGoes(pat, key, ch))
  <2>1. \A n \in key : ndfa[n].otherwise = PlaceGoes(pat, n, ch)
    BY <1>2, <1>5, NdfaFollowsThePattern
  <2>2. {ndfa[n].otherwise : n \in key} = {PlaceGoes(pat, n, ch) : n \in key}
    BY <2>1
  <2> QED BY <2>2 DEF KeyGoes
<1>6. \A nodes \in SUBSET KeyPlaces(pat) : KeyOf(ndfa, nodes) \in KeysOf(pat) \cup {NoKey}
  BY KeyOfIsClosed DEF KeysOf
<1>7. \A ch : T(ch) \in KeysOf(pat) \cup {NoKey}
  BY <1>4, <1>6, KeyGoesToPlaces
<1>8. O \in KeysOf(pat) \cup {NoKey}
  <2>1. \A n \in key : ndfa[n].otherwise \in KeyPlaces(pat) \cup {NoNode}
    <3> SUFFICES ASSUME NEW n \in key PROVE ndfa[n].otherwise \in KeyPlaces(pat) \cup {NoNode}
      OBVIOUS
    <3>1. PICK ch : ch \notin DOMAIN ndfa[n].transitions
      <4> DEFINE S == DOMAIN ndfa[n].transitions
                 odd == {x \in S : x \notin x}
      <4>1. odd \notin S
        OBVIOUS
      <4> QED BY <4>1
    <3>2. ndfa[n].otherwise = PlaceGoes(pat, n, ch)
      BY <1>2, <3>1, NdfaFollowsThePattern
    <3>3. KeyGoes(pat, {n}, ch) \in SUBSET KeyPlaces(pat)
      BY KeyGoesToPlaces
    <3> QED BY <3>2, <3>3 DEF KeyGoes
  <2>2. {ndfa[n].otherwise : n \in key} \ {NoNode} \in SUBSET KeyPlaces(pat)
    BY <2>1
  <2> QED BY <1>6, <2>2
<1> HIDE DEF A, T, O, chars
<1>9. inode.accepting <=> A
  BY <1>1
<1>10. inode.transitions = [ch \in chars |-> T(ch)] /\ inode.otherwise = O
  BY <1>1
<1>11. \A ch : Goes(inode, ch) = KeyOf(ndfa, KeyGoes(pat, key, ch))
  <2> SUFFICES ASSUME NEW ch PROVE Goes(inode, ch) = KeyOf(ndfa, KeyGoes(pat, key, ch))
    OBVIOUS
  <2>1. CASE ch \in chars
    <3>1. ch \in DOMAIN inode.transitions /\ inode.transitions[ch] = T(ch)
      BY <1>10, <2>1
    <3> QED BY <1>4, <3>1 DEF Goes
  <2>2. CASE ch \notin chars
    <3>1. ch \notin DOMAIN inode.transitions
      BY <1>10, <2>2
    <3> QED BY <1>5, <1>10, <2>2, <3>1 DEF Goes
  <2> QED BY <2>1, <2>2
<1> QED BY <1>3, <1>7, <1>8, <1>9, <1>10, <1>11

-------------------------------------------------------------------------------
(* The work list of the subset construction                                    *)

\* Nothing a node leads to is missing.
Closed(ndfa, keys) == \A k \in keys : Targets(Populated(ndfa, k)) \subseteq keys

\* The keys with all that they lead to at once.
Grown(ndfa, keys) == keys \cup UNION {Targets(Populated(ndfa, key)) : key \in keys}

LEMMA TargetsAreKeys ==
    ASSUME NEW pat, IsPattern(pat), NEW key \in SUBSET KeyPlaces(pat)
    PROVE  Targets(Populated(NDFA(pat), key)) \subseteq KeysOf(pat)
<1>1. PICK inode : inode = Populated(NDFA(pat), key)
  OBVIOUS
<1>2. /\ \A ch \in DOMAIN inode.transitions : inode.transitions[ch] \in KeysOf(pat) \cup {NoKey}
      /\ inode.otherwise \in KeysOf(pat) \cup {NoKey}
  BY <1>1, PopulatedGoesWhereItsPlacesGo
<1> QED BY <1>1, <1>2 DEF Targets

LEMMA LookupOrCreateSolves ==
    ASSUME NEW pat, IsPattern(pat)
    PROVE  \E f : /\ LookupOrCreate(NDFA(pat)) = f[{StartKey(NDFA(pat))}]
                  /\ \A keys \in SUBSET SUBSET KeyPlaces(pat) :
                       f[keys] = IF Grown(NDFA(pat), keys) = keys THEN keys
                                 ELSE f[Grown(NDFA(pat), keys)]
<1> DEFINE ndfa == NDFA(pat)
           D == SUBSET SUBSET KeyPlaces(pat)
           Least(keys) == {x \in SUBSET KeyPlaces(pat) :
                             \A C \in D : keys \subseteq C /\ Closed(ndfa, C) => x \in C}
           Step(f, keys) == IF Grown(ndfa, keys) = keys THEN keys ELSE f[Grown(ndfa, keys)]
           w == [keys \in D |-> Least(keys)]
<1>1. Len(ndfa) = Len(pat) + 1
  BY NdfaFollowsThePattern
<1>2. ASSUME NEW keys \in D PROVE Grown(ndfa, keys) \in D
  <2>1. \A key \in keys : Targets(Populated(ndfa, key)) \subseteq SUBSET KeyPlaces(pat)
    BY TargetsAreKeys DEF KeysOf
  <2> QED BY <2>1 DEF Grown
<1>3. ASSUME NEW keys \in D, NEW C \in D
      PROVE  keys \subseteq C /\ Closed(ndfa, C) <=> Grown(ndfa, keys) \subseteq C /\ Closed(ndfa, C)
  BY DEF Grown, Closed
<1>4. ASSUME NEW keys \in D PROVE Least(keys) = Least(Grown(ndfa, keys))
  BY <1>3
<1>5. ASSUME NEW keys \in D, Grown(ndfa, keys) = keys PROVE Least(keys) = keys
  <2>1. Closed(ndfa, keys)
    BY <1>5 DEF Grown, Closed
  <2>2. Least(keys) \subseteq keys
    BY <2>1
  <2>3. keys \subseteq Least(keys)
    OBVIOUS
  <2> QED BY <2>2, <2>3
<1> HIDE DEF Least
<1>6. \A keys \in D : w[keys] = Least(keys)
  OBVIOUS
<1>7. ASSUME NEW keys \in D PROVE w[keys] = Step(w, keys)
  <2>1. CASE Grown(ndfa, keys) = keys
    BY <1>5, <1>6, <2>1
  <2>2. CASE Grown(ndfa, keys) # keys
    <3>1. w[Grown(ndfa, keys)] = Least(Grown(ndfa, keys))
      BY <1>2, <1>6
    <3> HIDE DEF w
    <3> QED BY <1>4, <1>6, <2>2, <3>1
  <2> QED BY <2>1, <2>2
<1>8. \E f : f = [keys \in D |-> Step(f, keys)]
  <2>1. w = [keys \in D |-> Step(w, keys)]
    <3>1. w = [keys \in D |-> w[keys]]
      OBVIOUS
    <3> HIDE DEF w, Step
    <3> QED BY <1>7, <3>1
  <2> HIDE DEF w, Step
  <2> QED BY <2>1
<1> DEFINE f == CHOOSE g : g = [keys \in D |-> Step(g, keys)]
<1>9. f = [keys \in D |-> Step(f, keys)]
  <2> HIDE DEF Step
  <2> QED BY <1>8, Zenon
<1>10. LookupOrCreate(ndfa) = f[{StartKey(ndfa)}]
  <2>1. 1..Len(ndfa) = KeyPlaces(pat)
    BY <1>1 DEF KeyPlaces
  <2>2. LookupOrCreate(ndfa)
          = (CHOOSE g : g = [keys \in SUBSET SUBSET (1..Len(ndfa)) |-> Step(g, keys)])[{StartKey(ndfa)}]
    BY Zenon DEF LookupOrCreate, Grown
  <2> HIDE DEF Step, ndfa
  <2> QED BY <2>1, <2>2
<1>11. \A keys \in D : f[keys] = Step(f, keys)
  <2> HIDE DEF f, Step
  <2> QED BY <1>9
<1> HIDE DEF f
<1> QED BY <1>10, <1>11

\* The nodes that are made: one for the start and for every key some node leads to.
LEMMA EveryKeyIsCreated ==
    ASSUME NEW pat, IsPattern(pat)
    PROVE  /\ StartKey(NDFA(pat)) \in LookupOrCreate(NDFA(pat))
           /\ LookupOrCreate(NDFA(pat)) \subseteq KeysOf(pat)
           /\ Closed(NDFA(pat), LookupOrCreate(NDFA(pat)))
<1> DEFINE ndfa == NDFA(pat)
           D == SUBSET SUBSET KeyPlaces(pat)
<1>1. PICK f : /\ LookupOrCreate(NDFA(pat)) = f[{StartKey(NDFA(pat))}]
               /\ \A keys \in SUBSET SUBSET KeyPlaces(pat) :
                    f[keys] = IF Grown(NDFA(pat), keys) = keys THEN keys
                              ELSE f[Grown(NDFA(pat), keys)]
  BY LookupOrCreateSolves
<1>2. IsFiniteSet(SUBSET KeyPlaces(pat))
  <2>1. Len(pat) + 1 \in Int
    BY NdfaFollowsThePattern
  <2>2. IsFiniteSet(KeyPlaces(pat))
    BY <2>1, FS_Interval DEF KeyPlaces
  <2> QED BY <2>2, FS_SUBSET
<1> DEFINE Good(keys) == /\ keys \subseteq f[keys] /\ f[keys] \subseteq KeysOf(pat)
                         /\ Closed(ndfa, f[keys])
<1>3. \A keys \in SUBSET KeysOf(pat) : keys \in D
  BY DEF KeysOf
<1>4. ASSUME NEW keys \in SUBSET KeysOf(pat) PROVE Grown(ndfa, keys) \in SUBSET KeysOf(pat)
  <2>1. \A key \in keys : Targets(Populated(ndfa, key)) \subseteq KeysOf(pat)
    BY TargetsAreKeys DEF KeysOf
  <2> QED BY <2>1 DEF Grown
<1>5. \A keys \in SUBSET KeysOf(pat) : Good(keys)
  <2> DEFINE Bad == {keys \in SUBSET KeysOf(pat) : ~Good(keys)}
             Sizes == {Cardinality(keys) : keys \in Bad}
  <2> SUFFICES ASSUME Bad # {} PROVE FALSE
    OBVIOUS
  <2>1. \A keys \in SUBSET KeysOf(pat) : IsFiniteSet(keys) /\ Cardinality(keys) \in Nat
                                           /\ Cardinality(keys) <= Cardinality(SUBSET KeyPlaces(pat))
    BY <1>2, <1>3, FS_Subset, FS_CardinalityType
  <2>2. PICK n \in Sizes : \A m \in Sizes : m <= n
    <3>1. Sizes # {}
      OBVIOUS
    <3>2. Cardinality(SUBSET KeyPlaces(pat)) \in Nat
      BY <1>2, FS_CardinalityType
    <3>3. Sizes \in SUBSET Nat /\ \A m \in Sizes : m <= Cardinality(SUBSET KeyPlaces(pat))
      <4> HIDE DEF Good
      <4> QED BY <2>1
    <3> HIDE DEF Sizes
    <3> QED BY <3>1, <3>2, <3>3, GreatestElement
  <2>3. PICK keys \in Bad : n = Cardinality(keys)
    OBVIOUS
  <2>4. keys \in SUBSET KeysOf(pat) /\ ~Good(keys)
    OBVIOUS
  <2>5. \A more \in SUBSET KeysOf(pat) : Cardinality(more) <= n \/ Good(more)
    <3> SUFFICES ASSUME NEW more \in SUBSET KeysOf(pat), ~Good(more) PROVE Cardinality(more) <= n
      OBVIOUS
    <3>1. Cardinality(more) \in Sizes
      OBVIOUS
    <3> HIDE DEF Sizes
    <3> QED BY <2>2, <3>1
  <2> HIDE DEF Bad, Sizes
  <2>6. PICK all : all = Grown(ndfa, keys)
    OBVIOUS
  <2>7. all \in SUBSET KeysOf(pat) /\ keys \subseteq all
    BY <1>4, <2>4, <2>6 DEF Grown
  <2>8. CASE all = keys
    <3>1. f[keys] = keys
      BY <1>1, <1>3, <2>4, <2>6, <2>8
    <3>2. Closed(ndfa, keys)
      BY <2>6, <2>8 DEF Closed, Grown
    <3> QED BY <2>4, <3>1, <3>2
  <2>9. CASE all # keys
    <3>1. f[keys] = f[all]
      BY <1>1, <1>3, <2>4, <2>6, <2>9
    <3>2. Cardinality(keys) < Cardinality(all)
      <4>1. IsFiniteSet(all)
        BY <2>1, <2>7
      <4>2. keys \in SUBSET all /\ Cardinality(keys) \in Nat /\ Cardinality(all) \in Nat
        BY <2>1, <2>4, <2>7
      <4>3. Cardinality(keys) <= Cardinality(all)
            /\ (Cardinality(keys) = Cardinality(all) => keys = all)
        BY <4>1, <4>2, FS_Subset
      <4> QED BY <2>9, <4>2, <4>3
    <3>3. ~(Cardinality(all) <= n)
      BY <2>1, <2>3, <2>4, <2>7, <3>2
    <3>4. Good(all)
      BY <2>5, <2>7, <3>3
    <3> QED BY <2>4, <2>7, <3>1, <3>4
  <2> QED BY <2>8, <2>9
<1>6. {StartKey(ndfa)} \in SUBSET KeysOf(pat)
  <2>1. {1} \in SUBSET KeyPlaces(pat)
    BY NdfaFollowsThePattern DEF KeyPlaces
  <2> QED BY <2>1, KeyOfIsClosed DEF StartKey, KeysOf, NoKey
<1>7. Good({StartKey(ndfa)})
  BY <1>5, <1>6
<1> QED BY <1>1, <1>7

-------------------------------------------------------------------------------
(* Squishing                                                                   *)

Same(pat, j, k) ==
  \A w \in Seq(Nat) : \A i \in 1..(Len(w) + 1) : Lang(pat, j, w, i) <=> Lang(pat, k, w, i)

\* The edge of node k in slot s leads to m.
Leads(inodes, k, s, m) ==
  \/ \E ch \in DOMAIN inodes[k].transitions : s = Slot(ch) /\ inodes[k].transitions[ch] = m
  \/ s = Otherwise /\ inodes[k].otherwise = m

\* Each node means what the key it was made for does, whatever its edges are by now.
NodesMean(pat, inodes) ==
  /\ DOMAIN inodes \subseteq KeysOf(pat)
  /\ \A k \in DOMAIN inodes :
       /\ inodes[k].accepting <=> Len(pat) + 1 \in k
       /\ \A ch : Goes(inodes[k], ch) \in DOMAIN inodes \cup {NoKey}
       /\ \A w \in Seq(Nat) : \A i \in 1..Len(w) :
            Lang(pat, k, w, i) <=> Lang(pat, Goes(inodes[k], w[i]), w, i + 1)

\* The nodes in use lead to nodes in use; the edges noted as incoming are there, and
\* all that come from another node in use are noted.
EdgesKnown(inodes, live) ==
  /\ \A k \in live : \A s, m : Leads(inodes, k, s, m) => m \in live \cup {NoKey}
  /\ \A k, m \in live : \A s : Leads(inodes, k, s, m) /\ k # m => <<k, s>> \in inodes[m].incoming
  /\ \A m \in live : \A e \in inodes[m].incoming :
       \E k \in DOMAIN inodes : \E s : e = <<k, s>> /\ Leads(inodes, k, s, m)

Live(c) == c.unique \cup c.squishWork

AreNodes(inodes) ==
  \A k \in DOMAIN inodes :
    /\ inodes[k] = [accepting   |-> inodes[k].accepting,
                    transitions |-> inodes[k].transitions,
                    otherwise   |-> inodes[k].otherwise,
                    isStart     |-> inodes[k].isStart,
                    incoming    |-> inodes[k].incoming]
    /\ inodes[k].isStart \in BOOLEAN

\* A converter at work.
ConvOK(pat, c) ==
  /\ c = [inodes |-> c.inodes, squishWork |-> c.squishWork, unique |-> c.unique]
  /\ AreNodes(c.inodes)
  /\ NodesMean(pat, c.inodes)
  /\ Live(c) \subseteq DOMAIN c.inodes
  /\ c.unique \cap c.squishWork = {}
  /\ EdgesKnown(c.inodes, Live(c))
  /\ \E k \in Live(c) : c.inodes[k].isStart
  /\ \A k \in Live(c) : c.inodes[k].isStart => Same(pat, k, StartKey(NDFA(pat)))

LEMMA NoKeyMeansNothing == \A pat, w, i : ~Lang(pat, NoKey, w, i)
BY DEF Lang, NoKey

LEMMA KeysAreNoPointers ==
    ASSUME NEW pat, NEW key \in KeysOf(pat)
    PROVE  key # {NoNode} /\ key # NoKey /\ key \in SUBSET KeyPlaces(pat) /\ EpsClosed(pat, key)
<1>1. NoNode \notin KeyPlaces(pat)
  BY DEF NoNode, KeyPlaces
<1> QED BY <1>1 DEF KeysOf

\* INodeEqual: nodes that look alike mean the same.
LEMMA TwinsMeanTheSame ==
    ASSUME NEW pat, IsPattern(pat), NEW N, NodesMean(pat, N),
           NEW j \in DOMAIN N, NEW k \in DOMAIN N, INodeEqual(N, j, k)
    PROVE  Same(pat, j, k)
<1> SUFFICES ASSUME NEW w \in Seq(Nat)
             PROVE  \A i \in 1..(Len(w) + 1) : Lang(pat, j, w, i) <=> Lang(pat, k, w, i)
  BY DEF Same
<1> DEFINE Bad == {i \in 1..(Len(w) + 1) : ~(Lang(pat, j, w, i) <=> Lang(pat, k, w, i))}
<1> SUFFICES ASSUME Bad # {} PROVE FALSE
  OBVIOUS
<1>1. PICK i \in Bad : \A n \in Bad : n <= i
  <2>1. Bad \in SUBSET Nat /\ Len(w) + 1 \in Nat /\ \A n \in Bad : n <= Len(w) + 1
    OBVIOUS
  <2> HIDE DEF Bad
  <2> QED BY <2>1, GreatestElement
<1>2. i \in 1..(Len(w) + 1) /\ ~(Lang(pat, j, w, i) <=> Lang(pat, k, w, i))
  OBVIOUS
<1>3. \A n \in 1..(Len(w) + 1) : n > i => (Lang(pat, j, w, n) <=> Lang(pat, k, w, n))
  <2> SUFFICES ASSUME NEW n \in 1..(Len(w) + 1), n > i,
                      ~(Lang(pat, j, w, n) <=> Lang(pat, k, w, n))
               PROVE  FALSE
    OBVIOUS
  <2>1. n \in Bad
    OBVIOUS
  <2> HIDE DEF Bad
  <2> QED BY <1>1, <1>2, <2>1
<1> HIDE DEF Bad
<1>4. j \in KeysOf(pat) /\ k \in KeysOf(pat)
  BY DEF NodesMean
<1>5. CASE i = Len(w) + 1
  <2>1. Lang(pat, j, w, i) <=> Len(pat) + 1 \in j
    BY <1>4, <1>5, KeysAreNoPointers, AKeyAccepts
  <2>2. Lang(pat, k, w, i) <=> Len(pat) + 1 \in k
    BY <1>4, <1>5, KeysAreNoPointers, AKeyAccepts
  <2>3. Len(pat) + 1 \in j <=> Len(pat) + 1 \in k
    BY DEF INodeEqual, NodesMean
  <2> QED BY <1>2, <2>1, <2>2, <2>3
<1>6. CASE i \in 1..Len(w)
  <2>1. PICK ch : ch = w[i]
    OBVIOUS
  <2>2. PICK gj : gj = Goes(N[j], ch)
    OBVIOUS
  <2>3. PICK gk : gk = Goes(N[k], ch)
    OBVIOUS
  <2>4. Lang(pat, j, w, i) <=> Lang(pat, gj, w, i + 1)
    BY <1>6, <2>1, <2>2 DEF NodesMean
  <2>5. Lang(pat, k, w, i) <=> Lang(pat, gk, w, i + 1)
    BY <1>6, <2>1, <2>3 DEF NodesMean
  <2>6. Canonical(gj, j) = Canonical(gk, k)
    BY <2>2, <2>3, Zenon DEF INodeEqual, Goes
  <2>7. gj # {NoNode} /\ gk # {NoNode}
    <3>1. \A g \in DOMAIN N \cup {NoKey} : g # {NoNode}
      BY KeysAreNoPointers DEF NodesMean, NoKey
    <3> QED BY <2>2, <2>3, <3>1 DEF NodesMean
  <2>8. (gj = j /\ gk = k) \/ gj = gk
    BY <2>6, <2>7 DEF Canonical
  <2>9. Lang(pat, j, w, i + 1) <=> Lang(pat, k, w, i + 1)
    BY <1>3, <1>6
  <2> QED BY <1>2, <2>4, <2>5, <2>8, <2>9
<1> QED BY <1>2, <1>5, <1>6

\* The edges of the nodes, as they are noted.
LEMMA EdgesAreTheSlots ==
    ASSUME NEW inodes
    PROVE  /\ \A e \in Edges(inodes) : \E k \in DOMAIN inodes : \E s, m :
                e = <<k, s, m>> /\ Leads(inodes, k, s, m)
           /\ \A k \in DOMAIN inodes : \A s, m :
                Leads(inodes, k, s, m) => <<k, s, m>> \in Edges(inodes)
<1> DEFINE Of(k) == {<<k, Slot(ch), inodes[k].transitions[ch]>> : ch \in DOMAIN inodes[k].transitions}
                      \cup {<<k, Otherwise, inodes[k].otherwise>>}
<1>1. Edges(inodes) = UNION {Of(k) : k \in DOMAIN inodes}
  BY DEF Edges
<1>2. ASSUME NEW k \in DOMAIN inodes, NEW e \in Of(k)
      PROVE  \E s, m : e = <<k, s, m>> /\ Leads(inodes, k, s, m)
  <2>1. CASE e = <<k, Otherwise, inodes[k].otherwise>>
    BY <2>1 DEF Leads
  <2>2. CASE e # <<k, Otherwise, inodes[k].otherwise>>
    <3>1. PICK ch \in DOMAIN inodes[k].transitions : e = <<k, Slot(ch), inodes[k].transitions[ch]>>
      BY <2>2
    <3> QED BY <3>1 DEF Leads
  <2> QED BY <2>1, <2>2
<1>3. ASSUME NEW k \in DOMAIN inodes, NEW s, NEW m, Leads(inodes, k, s, m)
      PROVE  <<k, s, m>> \in Of(k)
  BY <1>3 DEF Leads
<1> HIDE DEF Of
<1> QED BY <1>1, <1>2, <1>3

\* Converter::Converter.
LEMMA TheConverterStartsWell ==
    ASSUME NEW pat, IsPattern(pat)
    PROVE  ConvOK(pat, Converter(pat))
<1> DEFINE ndfa == NDFA(pat)
           first == [key \in LookupOrCreate(ndfa) |-> Populated(ndfa, key)]
           edges == Edges(first)
           Node(k) == [accepting   |-> first[k].accepting,
                       transitions |-> first[k].transitions,
                       otherwise   |-> first[k].otherwise,
                       isStart     |-> k = StartKey(ndfa),
                       incoming    |-> Incoming(edges, k)]
<1>1. PICK K : K = LookupOrCreate(ndfa)
  OBVIOUS
<1>2. StartKey(ndfa) \in K /\ K \subseteq KeysOf(pat) /\ Closed(ndfa, K)
  BY <1>1, EveryKeyIsCreated
<1>3. PICK N : N = Intermediates(pat)
  OBVIOUS
<1>4. N = [k \in K |-> Node(k)]
  <2>1. Intermediates(pat) = [k \in DOMAIN first |-> Node(k)]
    BY Zenon DEF Intermediates
  <2>2. DOMAIN first = K
    BY <1>1
  <2> HIDE DEF first, Node
  <2> QED BY <1>3, <2>1, <2>2
<1>5. \A k \in K : first[k] = Populated(ndfa, k)
  BY <1>1
<1>6. DOMAIN first = K
  BY <1>1
<1> HIDE DEF first, edges
<1>7. DOMAIN N = K /\ \A k \in K : N[k] = Node(k)
  BY <1>4
<1>8. ASSUME NEW k \in K
      PROVE  /\ N[k].transitions = first[k].transitions /\ N[k].otherwise = first[k].otherwise
             /\ N[k].accepting = first[k].accepting
             /\ N[k].isStart <=> k = StartKey(ndfa)
             /\ N[k].incoming = Incoming(edges, k)
  <2>1. PICK node : node = N[k]
    OBVIOUS
  <2>2. node = [accepting   |-> first[k].accepting,
                transitions |-> first[k].transitions,
                otherwise   |-> first[k].otherwise,
                isStart     |-> k = StartKey(ndfa),
                incoming    |-> Incoming(edges, k)]
    BY <1>7, <2>1
  <2>3. /\ node.transitions = first[k].transitions /\ node.otherwise = first[k].otherwise
        /\ node.accepting = first[k].accepting
        /\ node.incoming = Incoming(edges, k)
    BY <2>2
  <2>4. node.isStart <=> k = StartKey(ndfa)
    BY <2>2
  <2> QED BY <2>1, <2>3, <2>4
<1>9. AreNodes(N)
  <2> SUFFICES ASSUME NEW k \in K
               PROVE  N[k] = [accepting |-> N[k].accepting, transitions |-> N[k].transitions,
                              otherwise |-> N[k].otherwise, isStart |-> N[k].isStart,
                              incoming |-> N[k].incoming]
                      /\ N[k].isStart \in BOOLEAN
    BY <1>7 DEF AreNodes
  <2>1. N[k] = Node(k)
    BY <1>7
  <2>2. PICK start \in BOOLEAN : start = (k = StartKey(ndfa))
    OBVIOUS
  <2>3. N[k] = [accepting |-> first[k].accepting, transitions |-> first[k].transitions,
                otherwise |-> first[k].otherwise, isStart |-> start,
                incoming |-> Incoming(edges, k)]
    BY <2>1, <2>2
  <2> QED BY <2>3
<1> HIDE DEF Node
<1>10. ASSUME NEW k \in K
       PROVE  /\ N[k].accepting <=> Len(pat) + 1 \in k
              /\ \A ch : Goes(N[k], ch) = KeyOf(ndfa, KeyGoes(pat, k, ch))
              /\ \A ch : Goes(N[k], ch) \in K \cup {NoKey}
              /\ \A s, m : Leads(N, k, s, m) => m \in K \cup {NoKey}
  <2>1. k \in SUBSET KeyPlaces(pat) /\ first[k] = Populated(ndfa, k)
    BY <1>2, <1>5, KeysAreNoPointers
  <2>2. /\ first[k].accepting <=> Len(pat) + 1 \in k
        /\ \A ch : Goes(first[k], ch) = KeyOf(ndfa, KeyGoes(pat, k, ch))
    BY <2>1, PopulatedGoesWhereItsPlacesGo
  <2>3. \A ch : Goes(N[k], ch) = Goes(first[k], ch)
    BY <1>8 DEF Goes
  <2>4. Targets(first[k]) \subseteq K
    BY <1>2, <2>1 DEF Closed
  <2>5. /\ \A ch \in DOMAIN N[k].transitions : N[k].transitions[ch] \in K \cup {NoKey}
        /\ N[k].otherwise \in K \cup {NoKey}
    BY <1>8, <2>4 DEF Targets
  <2>6. \A ch : Goes(N[k], ch) \in K \cup {NoKey}
    BY <2>5 DEF Goes
  <2>7. \A s, m : Leads(N, k, s, m) => m \in K \cup {NoKey}
    BY <2>5 DEF Leads
  <2> QED BY <1>8, <2>2, <2>3, <2>6, <2>7
<1>11. NodesMean(pat, N)
  <2>1. ASSUME NEW k \in K, NEW w \in Seq(Nat), NEW i \in 1..Len(w)
        PROVE  Lang(pat, k, w, i) <=> Lang(pat, Goes(N[k], w[i]), w, i + 1)
    <3>1. k \in SUBSET KeyPlaces(pat) /\ EpsClosed(pat, k)
      BY <1>2, KeysAreNoPointers
    <3>2. PICK nodes \in SUBSET KeyPlaces(pat) : nodes = KeyGoes(pat, k, w[i])
      BY <3>1, KeyGoesToPlaces
    <3>3. Lang(pat, k, w, i) <=> Lang(pat, nodes, w, i + 1)
      BY <3>1, <3>2, AKeyGoesOn
    <3>4. i + 1 \in 1..(Len(w) + 1)
      OBVIOUS
    <3>5. Lang(pat, KeyOf(ndfa, nodes), w, i + 1) <=> Lang(pat, nodes, w, i + 1)
      BY <3>4, AKeyMeansItsNodes
    <3>6. Goes(N[k], w[i]) = KeyOf(ndfa, nodes)
      BY <1>10, <3>2
    <3> QED BY <3>3, <3>5, <3>6
  <2> QED BY <1>2, <1>7, <1>10, <2>1 DEF NodesMean
<1>12. \A k \in K : \A s, m : Leads(N, k, s, m) <=> Leads(first, k, s, m)
  BY <1>8 DEF Leads
<1>13. EdgesKnown(N, K)
  <2>1. ASSUME NEW k \in K, NEW m \in K, NEW s, Leads(N, k, s, m), k # m
        PROVE  <<k, s>> \in N[m].incoming
    <3>1. <<k, s, m>> \in edges
      BY <1>6, <1>12, <2>1, EdgesAreTheSlots DEF edges
    <3>2. PICK e : e = <<k, s, m>>
      OBVIOUS
    <3>3. e \in {f \in edges : f[3] = m /\ f[1] # m} /\ <<e[1], e[2]>> = <<k, s>>
      BY <2>1, <3>1, <3>2
    <3>4. <<k, s>> \in Incoming(edges, m)
      BY <3>3, Zenon DEF Incoming
    <3> QED BY <1>8, <3>4
  <2>2. ASSUME NEW m \in K, NEW e \in N[m].incoming
        PROVE  \E k \in DOMAIN N : \E s : e = <<k, s>> /\ Leads(N, k, s, m)
    <3>1. e \in Incoming(edges, m)
      BY <1>8
    <3>2. PICK f \in edges : f[3] = m /\ e = <<f[1], f[2]>>
      BY <3>1 DEF Incoming
    <3>3. PICK k, s, to : k \in K /\ f = <<k, s, to>> /\ Leads(first, k, s, to)
      BY <1>6, EdgesAreTheSlots DEF edges
    <3>4. e = <<k, s>> /\ to = m
      BY <3>2, <3>3
    <3> QED BY <1>7, <1>12, <3>3, <3>4
  <2> QED BY <1>10, <2>1, <2>2 DEF EdgesKnown
<1>14. Converter(pat) = [inodes |-> N, squishWork |-> K, unique |-> {}]
  BY <1>3, <1>7 DEF Converter
<1>15. PICK c : c = Converter(pat)
  OBVIOUS
<1>16. c.inodes = N /\ c.squishWork = K /\ c.unique = {} /\ Live(c) = K
  BY <1>14, <1>15 DEF Live
<1>17. c = [inodes |-> c.inodes, squishWork |-> c.squishWork, unique |-> c.unique]
  BY <1>14, <1>15, <1>16
<1>18. Same(pat, StartKey(ndfa), StartKey(ndfa))
  BY DEF Same
<1> QED BY <1>2, <1>7, <1>8, <1>9, <1>11, <1>13, <1>15, <1>16, <1>17, <1>18 DEF ConvOK

\* What a merge makes of the nodes.
MergedNode(inodes, edges, item, u, k) ==
  [accepting   |-> inodes[k].accepting,
   transitions |-> [ch \in DOMAIN inodes[k].transitions |->
                      IF <<k, Slot(ch)>> \in edges THEN u ELSE inodes[k].transitions[ch]],
   otherwise   |-> IF <<k, Otherwise>> \in edges THEN u ELSE inodes[k].otherwise,
   isStart     |-> inodes[k].isStart \/ (k = u /\ inodes[item].isStart),
   incoming    |-> IF k = u THEN inodes[k].incoming \cup edges ELSE inodes[k].incoming]

Merged(inodes, edges, item, u) ==
  [k \in DOMAIN inodes |-> MergedNode(inodes, edges, item, u, k)]

Forwarded(inodes, edges, item, u) ==
  [Redirected(inodes, edges, u) EXCEPT
     ![u].incoming = @ \cup edges,
     ![u].isStart = @ \/ inodes[item].isStart]

Sources(edges) == {e[1] : e \in edges}

ConvOf(inodes, squishWork, unique) ==
  [inodes |-> inodes, squishWork |-> squishWork, unique |-> unique]

LEMMA ForwardingMergesTheNodes ==
    ASSUME NEW N, AreNodes(N), NEW edges, NEW item \in DOMAIN N, NEW u \in DOMAIN N
    PROVE  Forwarded(N, edges, item, u) = Merged(N, edges, item, u)
<1> DEFINE T(k) == [ch \in DOMAIN N[k].transitions |->
                      IF <<k, Slot(ch)>> \in edges THEN u ELSE N[k].transitions[ch]]
           O(k) == IF <<k, Otherwise>> \in edges THEN u ELSE N[k].otherwise
           New(k) == [N[k] EXCEPT
                        !.transitions = [ch \in DOMAIN @ |->
                                           IF <<k, Slot(ch)>> \in edges THEN u ELSE @[ch]],
                        !.otherwise = IF <<k, Otherwise>> \in edges THEN u ELSE @]
<1>1. ASSUME NEW k \in DOMAIN N
      PROVE  New(k) = [accepting |-> N[k].accepting, transitions |-> T(k), otherwise |-> O(k),
                       isStart |-> N[k].isStart, incoming |-> N[k].incoming]
  <2>1. PICK acc, trans, oth, start, inc :
          /\ N[k] = [accepting |-> acc, transitions |-> trans, otherwise |-> oth,
                     isStart |-> start, incoming |-> inc]
          /\ acc = N[k].accepting /\ trans = N[k].transitions /\ oth = N[k].otherwise
          /\ start = N[k].isStart /\ inc = N[k].incoming
    BY DEF AreNodes
  <2>2. New(k) = [N[k] EXCEPT !.transitions = T(k), !.otherwise = O(k)]
    OBVIOUS
  <2> HIDE DEF New, T, O
  <2> QED BY <2>1, <2>2
<1>2. Redirected(N, edges, u) = [k \in DOMAIN N |-> New(k)]
  BY DEF Redirected
<1>3. Redirected(N, edges, u) =
        [k \in DOMAIN N |-> [accepting |-> N[k].accepting, transitions |-> T(k), otherwise |-> O(k),
                             isStart |-> N[k].isStart, incoming |-> N[k].incoming]]
  <2> HIDE DEF New, T, O
  <2> QED BY <1>1, <1>2
<1> HIDE DEF New
<1>5. PICK R : R = Redirected(N, edges, u)
  OBVIOUS
<1> DEFINE M == [R EXCEPT ![u].incoming = @ \cup edges, ![u].isStart = @ \/ N[item].isStart]
<1>6. DOMAIN M = DOMAIN N /\ M = [k \in DOMAIN N |-> M[k]]
  BY <1>3, <1>5
<1>7. ASSUME NEW k \in DOMAIN N, k # u PROVE M[k] = MergedNode(N, edges, item, u, k)
  <2>1. M[k] = R[k]
    BY <1>3, <1>5, <1>7
  <2>2. R[k] = [accepting |-> N[k].accepting, transitions |-> T(k), otherwise |-> O(k),
                isStart |-> N[k].isStart, incoming |-> N[k].incoming]
    BY <1>3, <1>5
  <2>3. (N[k].isStart \/ (k = u /\ N[item].isStart)) = N[k].isStart
    BY <1>7 DEF AreNodes
  <2>4. PICK st : st = (N[k].isStart \/ (k = u /\ N[item].isStart))
    OBVIOUS
  <2>5. MergedNode(N, edges, item, u, k)
          = [accepting |-> N[k].accepting, transitions |-> T(k), otherwise |-> O(k),
             isStart |-> st,
             incoming |-> IF k = u THEN N[k].incoming \cup edges ELSE N[k].incoming]
    BY <2>4, Zenon DEF MergedNode
  <2> HIDE DEF T, O, M
  <2> QED BY <1>7, <2>1, <2>2, <2>3, <2>4, <2>5
<1>8. M[u] = MergedNode(N, edges, item, u, u)
  <2>1. R[u] = [accepting |-> N[u].accepting, transitions |-> T(u), otherwise |-> O(u),
                isStart |-> N[u].isStart, incoming |-> N[u].incoming]
    BY <1>3, <1>5
  <2>2. u \in DOMAIN R
    BY <1>3, <1>5
  <2>3. M[u] = [R[u] EXCEPT !.incoming = @ \cup edges, !.isStart = @ \/ N[item].isStart]
    BY <2>2
  <2>4. PICK st : st = (N[u].isStart \/ N[item].isStart)
    OBVIOUS
  <2>5. [R[u] EXCEPT !.incoming = @ \cup edges, !.isStart = @ \/ N[item].isStart]
          = [accepting |-> N[u].accepting, transitions |-> T(u), otherwise |-> O(u),
             isStart |-> st, incoming |-> N[u].incoming \cup edges]
    <3>1. R[u].isStart = N[u].isStart /\ R[u].incoming = N[u].incoming
      <4> HIDE DEF T, O, M
      <4> QED BY <2>1
    <3>2. (R[u].isStart \/ N[item].isStart) = st
      BY <2>4, <3>1
    <3>3. [R[u] EXCEPT !.incoming = @ \cup edges, !.isStart = @ \/ N[item].isStart]
            = [R[u] EXCEPT !.incoming = @ \cup edges, !.isStart = st]
      BY <3>2, Zenon
    <3>4. [R[u] EXCEPT !.incoming = @ \cup edges, !.isStart = st]
            = [accepting |-> N[u].accepting, transitions |-> T(u), otherwise |-> O(u),
               isStart |-> st, incoming |-> N[u].incoming \cup edges]
      <4> HIDE DEF T, O, M
      <4>1. [R[u] EXCEPT !.incoming = R[u].incoming \cup edges, !.isStart = st]
              = [accepting |-> N[u].accepting, transitions |-> T(u), otherwise |-> O(u),
                 isStart |-> st, incoming |-> R[u].incoming \cup edges]
        <5>1. PICK acc, trans, oth, first, inc, r, more :
                /\ acc = N[u].accepting /\ trans = T(u) /\ oth = O(u)
                /\ first = N[u].isStart /\ inc = N[u].incoming
                /\ r = R[u] /\ more = R[u].incoming \cup edges
          OBVIOUS
        <5>2. r = [accepting |-> acc, transitions |-> trans, otherwise |-> oth,
                   isStart |-> first, incoming |-> inc]
          BY <2>1, <5>1
        <5>3. [r EXCEPT !.incoming = more, !.isStart = st]
                = [accepting |-> acc, transitions |-> trans, otherwise |-> oth,
                   isStart |-> st, incoming |-> more]
          <6>1. PICK half : half = [r EXCEPT !.incoming = more]
            OBVIOUS
          <6>2. half = [accepting |-> acc, transitions |-> trans, otherwise |-> oth,
                        isStart |-> first, incoming |-> more]
            BY <5>2, <6>1
          <6>3. [half EXCEPT !.isStart = st]
                  = [accepting |-> acc, transitions |-> trans, otherwise |-> oth,
                     isStart |-> st, incoming |-> more]
            BY <6>2
          <6>4. [r EXCEPT !.incoming = more, !.isStart = st]
                  = [[r EXCEPT !.incoming = more] EXCEPT !.isStart = st]
            OBVIOUS
          <6> QED BY <6>1, <6>3, <6>4
        <5> QED BY <5>1, <5>3
      <4> QED BY <3>1, <4>1, Zenon
    <3> HIDE DEF T, O, M
    <3> QED BY <3>3, <3>4, Zenon
  <2>6. st = (N[u].isStart \/ (u = u /\ N[item].isStart))
    BY <2>4
  <2>7. MergedNode(N, edges, item, u, u)
          = [accepting |-> N[u].accepting, transitions |-> T(u), otherwise |-> O(u),
             isStart |-> st,
             incoming |-> IF u = u THEN N[u].incoming \cup edges ELSE N[u].incoming]
    BY <2>6, Zenon DEF MergedNode
  <2> HIDE DEF T, O, M
  <2> QED BY <2>3, <2>5, <2>7
<1> HIDE DEF M
<1>9. M = Merged(N, edges, item, u)
  BY <1>6, <1>7, <1>8 DEF Merged
<1> QED BY <1>5, <1>9, Zenon DEF M, Forwarded
LEMMA ForwardingMakes ==
    ASSUME NEW N, AreNodes(N), NEW item \in DOMAIN N, NEW u \in DOMAIN N, NEW work, NEW uniq
    PROVE  ForwardReferences(ConvOf(N, work, uniq), item, u)
             = ConvOf(Merged(N, N[item].incoming, item, u),
                      work \cup (Sources(N[item].incoming) \cap uniq),
                      uniq \ Sources(N[item].incoming))
<1>1. PICK edges, nodes, rest, d :
        /\ edges = N[item].incoming /\ nodes = Sources(edges)
        /\ rest = ConvOf(N, work, uniq) /\ d = ForwardReferences(rest, item, u)
  OBVIOUS
<1>2. nodes = {e[1] : e \in edges}
  BY <1>1 DEF Sources
<1>3. PICK merged, more, less :
        /\ merged = Merged(N, edges, item, u)
        /\ more = work \cup (nodes \cap uniq) /\ less = uniq \ nodes
  OBVIOUS
<1>4. rest = [inodes |-> N, squishWork |-> work, unique |-> uniq]
  BY <1>1 DEF ConvOf
<1>5. rest.inodes = N /\ rest.squishWork = work /\ rest.unique = uniq
  BY <1>4
<1>7. [Redirected(N, edges, u) EXCEPT ![u].incoming = @ \cup edges,
                                      ![u].isStart = @ \/ N[item].isStart] = merged
  <2>1. Forwarded(N, edges, item, u) = merged
    BY <1>3, ForwardingMergesTheNodes
  <2> QED BY <2>1, Zenon DEF Forwarded
<1>8. PICK evicted : evicted = EvictFromUnique(rest, nodes)
  OBVIOUS
<1>9. evicted = [inodes |-> N, squishWork |-> more, unique |-> less]
  <2>1. evicted = [rest EXCEPT !.unique = @ \ nodes, !.squishWork = @ \cup (nodes \cap rest.unique)]
    BY <1>8 DEF EvictFromUnique
  <2>3. PICK half : half = [rest EXCEPT !.unique = less]
    OBVIOUS
  <2>4. half = [inodes |-> N, squishWork |-> work, unique |-> less]
    BY <1>4, <2>3
  <2>5. [half EXCEPT !.squishWork = more]
          = [inodes |-> N, squishWork |-> more, unique |-> less]
    BY <2>4
  <2>6. [rest EXCEPT !.unique = less, !.squishWork = more]
          = [[rest EXCEPT !.unique = less] EXCEPT !.squishWork = more]
    OBVIOUS
  <2>7. evicted = [rest EXCEPT !.unique = less, !.squishWork = more]
    BY <1>3, <1>5, <2>1
  <2> QED BY <2>3, <2>5, <2>6, <2>7
<1>11. d = [evicted EXCEPT !.inodes = merged]
  <2>1. rest.inodes[item].incoming = edges /\ rest.inodes = N
    BY <1>1, <1>5
  <2>2. d = [EvictFromUnique(rest, nodes) EXCEPT
               !.inodes = [Redirected(rest.inodes, edges, u) EXCEPT
                             ![u].incoming = @ \cup edges,
                             ![u].isStart = @ \/ rest.inodes[item].isStart]]
    BY <1>1, <1>2, <2>1, Zenon DEF ForwardReferences
  <2>3. [Redirected(rest.inodes, edges, u) EXCEPT
           ![u].incoming = @ \cup edges,
           ![u].isStart = @ \/ rest.inodes[item].isStart] = merged
    BY <1>7, <2>1, Zenon
  <2> QED BY <1>8, <2>2, <2>3, Zenon
<1>12. d = ConvOf(merged, more, less)
  BY <1>9, <1>11 DEF ConvOf
<1> QED BY <1>1, <1>3, <1>12, Zenon

LEMMA AnEdgeLeadsOnce ==
    ASSUME NEW N, NEW k, NEW s, NEW m, NEW to, Leads(N, k, s, m), Leads(N, k, s, to)
    PROVE  m = to
BY DEF Leads, Slot, Otherwise

\* What led to the item leads to its twin, all else where it did.
LEMMA MergedNodesLead ==
    ASSUME NEW N, NEW edges, NEW item, NEW u \in DOMAIN N, NEW k \in DOMAIN N,
           NEW M, M = Merged(N, edges, item, u)
    PROVE  /\ M[k].accepting = N[k].accepting
           /\ M[k].isStart <=> N[k].isStart \/ (k = u /\ N[item].isStart)
           /\ \A e : e \in M[k].incoming <=> e \in N[k].incoming \/ (k = u /\ e \in edges)
           /\ DOMAIN M[k].transitions = DOMAIN N[k].transitions
           /\ \A s, m : Leads(M, k, s, m) <=>
                \E old : /\ Leads(N, k, s, old)
                         /\ m = IF <<k, s>> \in edges THEN u ELSE old
<1> DEFINE T == [ch \in DOMAIN N[k].transitions |->
                   IF <<k, Slot(ch)>> \in edges THEN u ELSE N[k].transitions[ch]]
           O == IF <<k, Otherwise>> \in edges THEN u ELSE N[k].otherwise
           I == IF k = u THEN N[k].incoming \cup edges ELSE N[k].incoming
<1>1. PICK trans, oth, st, inc :
        /\ trans = T /\ oth = O /\ inc = I
        /\ st = (N[k].isStart \/ (k = u /\ N[item].isStart))
  OBVIOUS
<1>2. M[k] = [accepting |-> N[k].accepting, transitions |-> trans, otherwise |-> oth,
              isStart |-> st, incoming |-> inc]
  <2>1. M[k] = MergedNode(N, edges, item, u, k)
    BY DEF Merged
  <2> QED BY <1>1, <2>1, Zenon DEF MergedNode
<1>3. /\ M[k].accepting = N[k].accepting /\ M[k].transitions = T /\ M[k].otherwise = O
      /\ M[k].isStart = st /\ M[k].incoming = I
  <2> HIDE DEF T, O, I
  <2> QED BY <1>1, <1>2
<1>4. M[k].isStart <=> N[k].isStart \/ (k = u /\ N[item].isStart)
  BY <1>1, <1>3, Zenon
<1>5. /\ DOMAIN M[k].transitions = DOMAIN N[k].transitions
      /\ \A ch \in DOMAIN N[k].transitions :
           M[k].transitions[ch] = IF <<k, Slot(ch)>> \in edges THEN u ELSE N[k].transitions[ch]
  BY <1>3
<1>6. M[k].otherwise = IF <<k, Otherwise>> \in edges THEN u ELSE N[k].otherwise
  BY <1>3
<1>7. ASSUME NEW s, NEW m
      PROVE  Leads(M, k, s, m) <=>
               \E old : Leads(N, k, s, old) /\ m = IF <<k, s>> \in edges THEN u ELSE old
  BY <1>5, <1>6 DEF Leads
<1>8. \A e : e \in I <=> e \in N[k].incoming \/ (k = u /\ e \in edges)
  OBVIOUS
<1> HIDE DEF T, O, I
<1> QED BY <1>3, <1>4, <1>5, <1>7, <1>8

\* One turn of Converter::squish.
LEMMA SquishKeepsTheMeaning ==
    ASSUME NEW pat, IsPattern(pat), NEW c, ConvOK(pat, c), NEW item \in c.squishWork
    PROVE  ConvOK(pat, Squish(c, item))
<1> DEFINE twins == {u \in c.unique : INodeEqual(c.inodes, item, u)}
           start == StartKey(NDFA(pat))
<1>1. PICK d : d = Squish(c, item)
  OBVIOUS
<1>2. PICK N, work, uniq : N = c.inodes /\ work = c.squishWork /\ uniq = c.unique
  OBVIOUS
<1>3. /\ c = [inodes |-> N, squishWork |-> work, unique |-> uniq]
      /\ AreNodes(N) /\ NodesMean(pat, N) /\ EdgesKnown(N, uniq \cup work)
      /\ uniq \cup work \subseteq DOMAIN N /\ uniq \cap work = {} /\ item \in work
      /\ \E k \in uniq \cup work : N[k].isStart
      /\ \A k \in uniq \cup work : N[k].isStart => Same(pat, k, start)
  BY <1>2, Zenon DEF ConvOK, Live
<1>4. CASE twins = {}
  <2>1. d = [[c EXCEPT !.squishWork = @ \ {item}] EXCEPT !.unique = @ \cup {item}]
    BY <1>1, <1>4, Zenon DEF Squish
  <2>2. PICK less, more : less = work \ {item} /\ more = uniq \cup {item}
    OBVIOUS
  <2>3. PICK rest : rest = [c EXCEPT !.squishWork = @ \ {item}]
    OBVIOUS
  <2>4. rest = [inodes |-> N, squishWork |-> less, unique |-> uniq]
    BY <1>2, <1>3, <2>2, <2>3
  <2>5. d = [rest EXCEPT !.unique = more]
    <3>1. rest.unique = uniq
      BY <2>4
    <3> QED BY <2>1, <2>2, <2>3, <3>1
  <2>6. d = [inodes |-> N, squishWork |-> less, unique |-> more]
    BY <2>4, <2>5
  <2>7. d.inodes = N /\ d.squishWork = less /\ d.unique = more
    BY <2>6
  <2>8. Live(d) = uniq \cup work /\ less \cap more = {}
    BY <1>3, <2>2, <2>7 DEF Live
  <2>9. d = [inodes |-> d.inodes, squishWork |-> d.squishWork, unique |-> d.unique]
    BY <2>6, <2>7
  <2> QED BY <1>1, <1>3, <2>7, <2>8, <2>9 DEF ConvOK
<1>5. CASE twins # {}
  <2>1. PICK u : u = CHOOSE twin \in twins : TRUE
    OBVIOUS
  <2>2. u \in uniq /\ INodeEqual(N, item, u)
    <3>1. u \in twins
      BY <1>5, <2>1
    <3> QED BY <1>2, <3>1
  <2>3. item \in DOMAIN N /\ u \in DOMAIN N /\ u # item
    BY <1>3, <2>2
  <2>4. Same(pat, item, u)
    BY <1>3, <2>2, <2>3, TwinsMeanTheSame
  <2>5. PICK edges, nodes : edges = N[item].incoming /\ nodes = Sources(edges)
    OBVIOUS
  <2>6. PICK left : left = work \ {item}
    OBVIOUS
  <2>7. d = ForwardReferences(ConvOf(N, left, uniq), item, u)
    <3>1. PICK rest : rest = [c EXCEPT !.squishWork = @ \ {item}]
      OBVIOUS
    <3>2. d = ForwardReferences(rest, item, u)
      BY <1>1, <1>5, <2>1, <3>1, Zenon DEF Squish
    <3>3. rest = [inodes |-> N, squishWork |-> left, unique |-> uniq]
      BY <1>2, <1>3, <2>6, <3>1
    <3> QED BY <3>2, <3>3 DEF ConvOf
  <2>8. PICK M, more, less : /\ M = Merged(N, edges, item, u)
                             /\ more = left \cup (nodes \cap uniq) /\ less = uniq \ nodes
    OBVIOUS
  <2>9. d = [inodes |-> M, squishWork |-> more, unique |-> less]
    <3>1. d = ConvOf(Merged(N, N[item].incoming, item, u),
                     left \cup (Sources(N[item].incoming) \cap uniq),
                     uniq \ Sources(N[item].incoming))
      BY <1>3, <2>3, <2>7, ForwardingMakes
    <3> QED BY <2>5, <2>8, <3>1, Zenon DEF ConvOf
  <2>10. d.inodes = M /\ d.squishWork = more /\ d.unique = less
    BY <2>9
  <2>11. d = [inodes |-> d.inodes, squishWork |-> d.squishWork, unique |-> d.unique]
    BY <2>9, <2>10
  <2>12. PICK live : live = uniq \cup work
    OBVIOUS
  <2>13. Live(d) = live \ {item} /\ less \cap more = {}
    BY <1>3, <2>6, <2>8, <2>10, <2>12 DEF Live
  <2>14. DOMAIN M = DOMAIN N
    BY <2>8 DEF Merged
  <2>15. item \in live /\ u \in live \ {item} /\ live \subseteq DOMAIN N
    BY <1>3, <2>2, <2>3, <2>12
  <2>16. /\ \A k \in live : \A s, m : Leads(N, k, s, m) => m \in live \cup {NoKey}
         /\ \A k, m \in live : \A s : Leads(N, k, s, m) /\ k # m => <<k, s>> \in N[m].incoming
         /\ \A m \in live : \A e \in N[m].incoming :
              \E k \in DOMAIN N : \E s : e = <<k, s>> /\ Leads(N, k, s, m)
    BY <1>3, <2>12, Zenon DEF EdgesKnown
  <2>17. \A k, s : <<k, s>> \in edges => k \in DOMAIN N /\ Leads(N, k, s, item)
    <3> SUFFICES ASSUME NEW k, NEW s, <<k, s>> \in edges
                 PROVE  k \in DOMAIN N /\ Leads(N, k, s, item)
      OBVIOUS
    <3>1. PICK kk, ss : kk \in DOMAIN N /\ <<k, s>> = <<kk, ss>> /\ Leads(N, kk, ss, item)
      BY <2>5, <2>15, <2>16
    <3> QED BY <3>1
  <2>18. NoKey \notin DOMAIN N
    BY <1>3, KeysAreNoPointers DEF NodesMean
  <2>19. ASSUME NEW k \in DOMAIN N
         PROVE  /\ M[k].accepting = N[k].accepting
                /\ M[k].isStart <=> N[k].isStart \/ (k = u /\ N[item].isStart)
                /\ \A e : e \in M[k].incoming <=> e \in N[k].incoming \/ (k = u /\ e \in edges)
                /\ DOMAIN M[k].transitions = DOMAIN N[k].transitions
    BY <2>3, <2>8, MergedNodesLead
  <2>20. ASSUME NEW k \in DOMAIN N, NEW s, NEW m
         PROVE  Leads(M, k, s, m) <=>
                  \E old : Leads(N, k, s, old) /\ m = IF <<k, s>> \in edges THEN u ELSE old
    BY <2>3, <2>8, MergedNodesLead
  <2>27. ASSUME NEW k \in DOMAIN N, NEW ch
         PROVE  Goes(M[k], ch) = Goes(N[k], ch) \/ (Goes(M[k], ch) = u /\ Goes(N[k], ch) = item)
    <3>1. PICK s : Leads(N, k, s, Goes(N[k], ch)) /\ Leads(M, k, s, Goes(M[k], ch))
      BY <2>19 DEF Leads, Goes
    <3>2. PICK old : /\ Leads(N, k, s, old)
                     /\ Goes(M[k], ch) = IF <<k, s>> \in edges THEN u ELSE old
      BY <2>20, <3>1
    <3>3. old = Goes(N[k], ch)
      BY <3>1, <3>2, AnEdgeLeadsOnce
    <3>4. <<k, s>> \in edges => old = item
      BY <2>17, <3>2, AnEdgeLeadsOnce
    <3> QED BY <3>2, <3>3, <3>4
  <2>21. AreNodes(M)
    <3> SUFFICES ASSUME NEW k \in DOMAIN N
                 PROVE  /\ M[k] = [accepting |-> M[k].accepting, transitions |-> M[k].transitions,
                                   otherwise |-> M[k].otherwise, isStart |-> M[k].isStart,
                                   incoming |-> M[k].incoming]
                        /\ M[k].isStart \in BOOLEAN
      BY <2>14 DEF AreNodes
    <3>1. M[k] = MergedNode(N, edges, item, u, k)
      BY <2>8 DEF Merged
    <3>2. PICK acc, trans, oth, inc, st :
            /\ MergedNode(N, edges, item, u, k)
                 = [accepting |-> acc, transitions |-> trans, otherwise |-> oth,
                    isStart |-> st, incoming |-> inc]
            /\ st \in BOOLEAN
      BY Zenon DEF MergedNode
    <3> QED BY <3>1, <3>2
  <2>22. NodesMean(pat, M)
    <3>1. ASSUME NEW k \in DOMAIN N
          PROVE  /\ M[k].accepting <=> Len(pat) + 1 \in k
                 /\ \A ch : Goes(M[k], ch) \in DOMAIN N \cup {NoKey}
                 /\ \A w \in Seq(Nat) : \A i \in 1..Len(w) :
                      Lang(pat, k, w, i) <=> Lang(pat, Goes(M[k], w[i]), w, i + 1)
      <4>1. /\ N[k].accepting <=> Len(pat) + 1 \in k
            /\ \A ch : Goes(N[k], ch) \in DOMAIN N \cup {NoKey}
            /\ \A w \in Seq(Nat) : \A i \in 1..Len(w) :
                 Lang(pat, k, w, i) <=> Lang(pat, Goes(N[k], w[i]), w, i + 1)
        BY <1>3, Zenon DEF NodesMean
      <4>2. \A ch : Goes(M[k], ch) \in DOMAIN N \cup {NoKey}
        BY <2>3, <2>27, <4>1
      <4>3. ASSUME NEW w \in Seq(Nat), NEW i \in 1..Len(w)
            PROVE  Lang(pat, k, w, i) <=> Lang(pat, Goes(M[k], w[i]), w, i + 1)
        <5>1. Lang(pat, item, w, i + 1) <=> Lang(pat, u, w, i + 1)
          BY <2>4 DEF Same
        <5>2. PICK ch : ch = w[i]
          OBVIOUS
        <5>3. Lang(pat, k, w, i) <=> Lang(pat, Goes(N[k], ch), w, i + 1)
          BY <4>1, <5>2
        <5> QED BY <2>27, <5>1, <5>2, <5>3
      <4> QED BY <2>19, <4>1, <4>2, <4>3
    <3> QED BY <1>3, <2>14, <3>1 DEF NodesMean
  <2>23. EdgesKnown(M, live \ {item})
    <3>1. ASSUME NEW k \in live \ {item}, NEW s, NEW m, Leads(M, k, s, m)
          PROVE  m \in (live \ {item}) \cup {NoKey}
      <4>1. PICK old : Leads(N, k, s, old) /\ m = IF <<k, s>> \in edges THEN u ELSE old
        <5>1. k \in DOMAIN N
          BY <2>15
        <5> QED BY <2>20, <3>1, <5>1
      <4>2. old = item => <<k, s>> \in edges
        BY <2>5, <2>15, <2>16, <4>1
      <4> QED BY <2>15, <2>16, <4>1, <4>2
    <3>2. ASSUME NEW k \in live \ {item}, NEW m \in live \ {item}, NEW s, Leads(M, k, s, m), k # m
          PROVE  <<k, s>> \in M[m].incoming
      <4>1. PICK old : Leads(N, k, s, old) /\ m = IF <<k, s>> \in edges THEN u ELSE old
        <5>1. k \in DOMAIN N
          BY <2>15
        <5> QED BY <2>20, <3>2, <5>1
      <4>2. CASE <<k, s>> \in edges
        BY <2>3, <2>19, <4>1, <4>2
      <4>3. CASE <<k, s>> \notin edges
        <5>1. m = old /\ <<k, s>> \in N[m].incoming
          BY <2>15, <2>16, <3>2, <4>1, <4>3
        <5> QED BY <2>15, <2>19, <5>1
      <4> QED BY <4>2, <4>3
    <3>3. ASSUME NEW m \in live \ {item}, NEW e \in M[m].incoming
          PROVE  \E k \in DOMAIN N : \E s : e = <<k, s>> /\ Leads(M, k, s, m)
      <4>1. CASE e \in N[m].incoming
        <5>1. PICK k, s : k \in DOMAIN N /\ e = <<k, s>> /\ Leads(N, k, s, m)
          BY <2>16, <4>1
        <5>2. <<k, s>> \notin edges
          BY <2>17, <5>1, AnEdgeLeadsOnce
        <5> QED BY <2>20, <5>1, <5>2
      <4>2. CASE e \notin N[m].incoming
        <5>1. m = u /\ e \in edges
          BY <2>15, <2>19, <4>2
        <5>2. PICK k, s : k \in DOMAIN N /\ e = <<k, s>> /\ Leads(N, k, s, item)
          BY <2>5, <2>15, <2>16, <5>1
        <5> QED BY <2>20, <5>1, <5>2
      <4> QED BY <4>1, <4>2
    <3> QED BY <2>14, <3>1, <3>2, <3>3 DEF EdgesKnown
  <2>24. \E k \in live \ {item} : M[k].isStart
    <3>1. PICK k \in live : N[k].isStart
      BY <1>3, <2>12
    <3> QED BY <2>15, <2>19, <3>1
  <2>25. ASSUME NEW k \in live \ {item}, M[k].isStart PROVE Same(pat, k, start)
    <3>1. N[k].isStart \/ (k = u /\ N[item].isStart)
      BY <2>15, <2>19, <2>25
    <3>2. \A n \in live : N[n].isStart => Same(pat, n, start)
      BY <1>3, <2>12
    <3> HIDE DEF start
    <3> QED BY <2>4, <2>15, <3>1, <3>2 DEF Same
  <2> HIDE DEF start
  <2>26. \A k \in live \ {item} : M[k].isStart => Same(pat, k, start)
    BY <2>25
  <2> QED BY <1>1, <2>10, <2>11, <2>13, <2>14, <2>15, <2>21, <2>22, <2>23, <2>24, <2>26
        DEF ConvOK, start
<1> QED BY <1>4, <1>5
-------------------------------------------------------------------------------
(* The machine                                                                 *)

\* A machine that means what the pattern does.
DfaOK(pat, m) ==
  /\ NodesMean(pat, m.nodes)
  /\ m.start \in DOMAIN m.nodes
  /\ Same(pat, m.start, StartKey(NDFA(pat)))

\* Converter::finish.
LEMMA FinishKeepsTheMeaning ==
    ASSUME NEW pat, IsPattern(pat), NEW c, ConvOK(pat, c), c.squishWork = {}
    PROVE  DfaOK(pat, Finish(c))
<1> DEFINE start == StartKey(NDFA(pat))
<1>1. PICK N, uniq : N = c.inodes /\ uniq = c.unique
  OBVIOUS
<1>2. Live(c) = uniq
  BY <1>1 DEF Live
<1>3. /\ NodesMean(pat, N) /\ EdgesKnown(N, uniq) /\ uniq \subseteq DOMAIN N
      /\ \E k \in uniq : N[k].isStart
      /\ \A k \in uniq : N[k].isStart => Same(pat, k, start)
  BY <1>1, <1>2, Zenon DEF ConvOK
<1>4. PICK first : first = CHOOSE k \in uniq : N[k].isStart
  OBVIOUS
<1>5. first \in uniq /\ N[first].isStart
  BY <1>3, <1>4
<1> DEFINE Node(k) == [accepting |-> N[k].accepting, transitions |-> N[k].transitions,
                       otherwise |-> N[k].otherwise]
<1>6. PICK nodes : nodes = [k \in uniq |-> Node(k)]
  OBVIOUS
<1>7. PICK m : m = Finish(c)
  OBVIOUS
<1>8. m = [start |-> first, nodes |-> nodes]
  BY <1>1, <1>4, <1>6, <1>7, Zenon DEF Finish
<1>9. m.start = first /\ m.nodes = nodes
  BY <1>8
<1>10. DOMAIN nodes = uniq
  BY <1>6
<1>11. ASSUME NEW k \in uniq
       PROVE  /\ nodes[k].accepting = N[k].accepting
              /\ nodes[k].transitions = N[k].transitions
              /\ nodes[k].otherwise = N[k].otherwise
  BY <1>6
<1>12. ASSUME NEW k \in uniq, NEW ch
       PROVE  Goes(nodes[k], ch) = Goes(N[k], ch) /\ Goes(nodes[k], ch) \in uniq \cup {NoKey}
  <2>1. Goes(nodes[k], ch) = Goes(N[k], ch)
    BY <1>11 DEF Goes
  <2>2. \E s : Leads(N, k, s, Goes(N[k], ch))
    BY DEF Leads, Goes
  <2>3. \A s, to : Leads(N, k, s, to) => to \in uniq \cup {NoKey}
    BY <1>3 DEF EdgesKnown
  <2> QED BY <2>1, <2>2, <2>3
<1>13. NodesMean(pat, nodes)
  <2>1. DOMAIN nodes \subseteq KeysOf(pat)
    BY <1>3, <1>10 DEF NodesMean
  <2>2. ASSUME NEW k \in uniq
        PROVE  /\ nodes[k].accepting <=> Len(pat) + 1 \in k
               /\ \A w \in Seq(Nat) : \A i \in 1..Len(w) :
                    Lang(pat, k, w, i) <=> Lang(pat, Goes(nodes[k], w[i]), w, i + 1)
    <3>1. k \in DOMAIN N
      BY <1>3
    <3>2. /\ N[k].accepting <=> Len(pat) + 1 \in k
          /\ \A w \in Seq(Nat) : \A i \in 1..Len(w) :
               Lang(pat, k, w, i) <=> Lang(pat, Goes(N[k], w[i]), w, i + 1)
      BY <1>3, <3>1, Zenon DEF NodesMean
    <3> QED BY <1>11, <1>12, <3>2
  <2> QED BY <1>10, <1>12, <2>1, <2>2 DEF NodesMean
<1>14. Same(pat, first, start)
  BY <1>3, <1>5
<1> QED BY <1>5, <1>7, <1>9, <1>10, <1>13, <1>14 DEF DfaOK

\* DFANode::tryAdvance, one character further.
AdvanceStep(m, node, key, at, i) ==
  IF i = 0 THEN node
  ELSE IF at[i - 1] = NoKey THEN NoKey
  ELSE TryAdvance(m, at[i - 1], key[i])

LEMMA AdvanceStepLooksBehind ==
    ASSUME NEW m, NEW node, NEW key, NEW f, NEW g, NEW i, i = 0 \/ f[i - 1] = g[i - 1]
    PROVE  AdvanceStep(m, node, key, f, i) = AdvanceStep(m, node, key, g, i)
<1>1. CASE i = 0
  BY <1>1 DEF AdvanceStep
<1>2. CASE f[i - 1] = g[i - 1]
  BY <1>2, Zenon DEF AdvanceStep
<1> QED BY <1>1, <1>2

LEMMA AdvanceSolves ==
    ASSUME NEW m, NEW node, NEW key \in Seq(Nat)
    PROVE  \E f : /\ TryAdvanceAll(m, node, key) = f[Len(key)]
                  /\ \A i \in 0..Len(key) : f[i] = AdvanceStep(m, node, key, f, i)
<1> DEFINE D == 0..Len(key)
           T == {n \in D : \E f : \A i \in 0..n : f[i] = AdvanceStep(m, node, key, f, i)}
<1>1. Len(key) \in Nat
  OBVIOUS
<1>2. 0 \in T
  <2> DEFINE f == [i \in D |-> node]
  <2>1. \A i \in 0..0 : i = 0 /\ f[i] = node
    BY <1>1
  <2> HIDE DEF f
  <2>2. \A i \in 0..0 : f[i] = AdvanceStep(m, node, key, f, i)
    BY <2>1, Zenon DEF AdvanceStep
  <2> QED BY <1>1, <2>2
<1>3. PICK n \in T : \A k \in T : k <= n
  <2>1. T \in SUBSET Nat /\ T # {} /\ \A k \in T : k <= Len(key)
    BY <1>1, <1>2
  <2> HIDE DEF T
  <2> QED BY <1>1, <2>1, GreatestElement
<1>4. PICK f : \A i \in 0..n : f[i] = AdvanceStep(m, node, key, f, i)
  OBVIOUS
<1>5. n = Len(key)
  <2> SUFFICES ASSUME n # Len(key) PROVE FALSE
    OBVIOUS
  <2>1. n \in 0..(Len(key) - 1)
    BY <1>1, <1>3
  <2> DEFINE g == [i \in D |-> IF i = n + 1 THEN AdvanceStep(m, node, key, f, n + 1) ELSE f[i]]
  <2>2. \A i \in 0..n : g[i] = f[i]
    BY <1>1, <2>1
  <2>3. g[n + 1] = AdvanceStep(m, node, key, f, n + 1)
    BY <1>1, <2>1
  <2> HIDE DEF g
  <2>4. ASSUME NEW i \in 0..(n + 1) PROVE g[i] = AdvanceStep(m, node, key, g, i)
    <3>1. i = 0 \/ g[i - 1] = f[i - 1]
      BY <1>1, <2>1, <2>2
    <3>2. AdvanceStep(m, node, key, g, i) = AdvanceStep(m, node, key, f, i)
      BY <3>1, AdvanceStepLooksBehind
    <3>3. i = n + 1 \/ i \in 0..n
      BY <1>1, <2>1
    <3> QED BY <3>2, <3>3, <2>2, <2>3, <1>4
  <2>5. n + 1 \in T
    BY <1>1, <2>4, <2>1
  <2> HIDE DEF T
  <2>6. n + 1 <= n
    BY <2>5, <1>3
  <2> QED BY <1>1, <2>6, <2>1
<1>6. \E g : g = [i \in D |-> AdvanceStep(m, node, key, g, i)]
  <2> DEFINE g == [i \in D |-> f[i]]
  <2>1. \A i \in D : g[i] = f[i]
    OBVIOUS
  <2> HIDE DEF g
  <2>2. ASSUME NEW i \in D PROVE AdvanceStep(m, node, key, g, i) = f[i]
    <3>1. i = 0 \/ g[i - 1] = f[i - 1]
      BY <1>1, <2>1
    <3>2. AdvanceStep(m, node, key, g, i) = AdvanceStep(m, node, key, f, i)
      BY <3>1, AdvanceStepLooksBehind
    <3> QED BY <3>2, <1>4, <1>5
  <2>3. g = [i \in D |-> AdvanceStep(m, node, key, g, i)]
    BY <2>2 DEF g
  <2> QED BY <2>3
<1> HIDE DEF T
<1> DEFINE at == CHOOSE g : g = [i \in D |-> AdvanceStep(m, node, key, g, i)]
<1>7. TryAdvanceAll(m, node, key) = at[Len(key)]
  BY Zenon DEF TryAdvanceAll, AdvanceStep
<1>8. at = [i \in D |-> AdvanceStep(m, node, key, at, i)]
  BY <1>6, Zenon
<1> HIDE DEF at
<1>9. \A i \in D : at[i] = AdvanceStep(m, node, key, at, i)
  BY <1>8
<1> QED BY <1>7, <1>9

\* The machine accepts what the pattern means.
LEMMA TheMachineAccepts ==
    ASSUME NEW pat, IsPattern(pat), NEW m, DfaOK(pat, m), NEW w \in Seq(Nat)
    PROVE  Accepting(m, TryAdvanceAll(m, m.start, w)) <=> Means(pat, w)
<1>1. PICK nodes, start : nodes = m.nodes /\ start = m.start
  OBVIOUS
<1>2. NodesMean(pat, nodes) /\ start \in DOMAIN nodes /\ Same(pat, start, StartKey(NDFA(pat)))
  BY <1>1 DEF DfaOK
<1>3. PICK at : /\ TryAdvanceAll(m, start, w) = at[Len(w)]
                /\ \A i \in 0..Len(w) : at[i] = AdvanceStep(m, start, w, at, i)
  BY AdvanceSolves
<1>4. Len(w) \in Nat /\ Len(pat) \in Nat
  BY NdfaFollowsThePattern
<1> DEFINE Good(i) == /\ at[i] \in DOMAIN nodes \cup {NoKey}
                      /\ Lang(pat, at[i], w, i + 1) <=> Lang(pat, start, w, 1)
<1>5. Good(0)
  BY <1>2, <1>3, <1>4 DEF AdvanceStep
<1>6. ASSUME NEW i \in 1..Len(w), Good(i - 1) PROVE Good(i)
  <2>1. PICK before, ch : before = at[i - 1] /\ ch = w[i]
    OBVIOUS
  <2>2. at[i] = IF before = NoKey THEN NoKey ELSE Goes(nodes[before], ch)
    BY <1>1, <1>3, <2>1 DEF AdvanceStep, TryAdvance
  <2>3. before \in DOMAIN nodes \cup {NoKey}
    BY <1>6, <2>1
  <2>4. Lang(pat, before, w, i) <=> Lang(pat, start, w, 1)
    <3>1. (i - 1) + 1 = i
      OBVIOUS
    <3> QED BY <1>6, <2>1, <3>1
  <2> HIDE DEF Good
  <2>5. CASE before = NoKey
    BY <2>2, <2>4, <2>5, NoKeyMeansNothing DEF Good
  <2>6. CASE before # NoKey
    <3>1. at[i] = Goes(nodes[before], ch) /\ before \in DOMAIN nodes
      BY <2>2, <2>3, <2>6
    <3>2. at[i] \in DOMAIN nodes \cup {NoKey}
      BY <1>2, <3>1 DEF NodesMean
    <3>3. Lang(pat, before, w, i) <=> Lang(pat, at[i], w, i + 1)
      BY <1>2, <2>1, <3>1 DEF NodesMean
    <3> QED BY <2>4, <3>2, <3>3 DEF Good
  <2> QED BY <2>5, <2>6
<1> HIDE DEF Good
<1>7. Good(Len(w))
  <2> DEFINE Bad == {i \in 0..Len(w) : ~Good(i)}
  <2> SUFFICES ASSUME Bad # {} PROVE FALSE
    BY <1>4
  <2>1. PICK i \in Bad : \A k \in Bad : i <= k
    <3>1. Bad \in SUBSET Nat
      OBVIOUS
    <3> HIDE DEF Bad
    <3> QED BY <3>1, SmallestElement
  <2>2. i \in 0..Len(w) /\ ~Good(i)
    OBVIOUS
  <2>3. i \in 1..Len(w)
    BY <1>4, <1>5, <2>2
  <2>4. Good(i - 1)
    <3> SUFFICES ASSUME ~Good(i - 1) PROVE FALSE
      OBVIOUS
    <3>1. i - 1 \in Bad
      BY <1>4, <2>3
    <3> HIDE DEF Bad
    <3>2. i <= i - 1
      BY <2>1, <3>1
    <3> QED BY <2>3, <3>2
  <2> QED BY <1>6, <2>2, <2>3, <2>4
<1>8. PICK end : end = at[Len(w)]
  OBVIOUS
<1>9. /\ end \in DOMAIN nodes \cup {NoKey}
      /\ Lang(pat, end, w, Len(w) + 1) <=> Lang(pat, start, w, 1)
  BY <1>7, <1>8 DEF Good
<1>10. Accepting(m, end) <=> Lang(pat, end, w, Len(w) + 1)
  <2>1. CASE end = NoKey
    BY <2>1, NoKeyMeansNothing DEF Accepting
  <2>2. CASE end # NoKey
    <3>1. end \in DOMAIN nodes /\ end \in KeysOf(pat)
      BY <1>2, <1>9, <2>2 DEF NodesMean
    <3>2. Lang(pat, end, w, Len(w) + 1) <=> Len(pat) + 1 \in end
      BY <3>1, KeysAreNoPointers, AKeyAccepts
    <3>3. nodes[end].accepting <=> Len(pat) + 1 \in end
      BY <1>2, <3>1 DEF NodesMean
    <3> QED BY <1>1, <2>2, <3>2, <3>3 DEF Accepting
  <2> QED BY <2>1, <2>2
<1>11. 1 \in 1..(Len(w) + 1)
  BY <1>4
<1>12. Lang(pat, start, w, 1) <=> Lang(pat, StartKey(NDFA(pat)), w, 1)
  BY <1>2, <1>11 DEF Same
<1>13. Lang(pat, StartKey(NDFA(pat)), w, 1) <=> Lang(pat, {1}, w, 1)
  <2>1. {1} \in SUBSET KeyPlaces(pat)
    BY <1>4 DEF KeyPlaces
  <2> QED BY <1>11, <2>1, AKeyMeansItsNodes DEF StartKey
<1>14. Lang(pat, {1}, w, 1) <=> Means(pat, w)
  BY DEF Lang, Means
<1> QED BY <1>1, <1>3, <1>8, <1>9, <1>10, <1>12, <1>13, <1>14

\* A query's word, the work on it, and its machine.
MachineInvariant ==
  /\ typed \in Utterances \cup {Nothing}
  /\ conv # Nothing => ConvOK(Translate(typed), conv)
  /\ dfa # Nothing => DfaOK(Translate(typed), dfa)

LEMMA UtterancesMakePatterns ==
    MachineInvariant => IsPattern(Translate(typed))
<1>1. Nothing \in Seq(Nat)
  BY DEF Nothing
<1>2. \A t \in Utterances \cup {Nothing} : t \in Seq(Nat)
  BY <1>1, TextsAssumption
<1> QED BY <1>2, TranslateMakesAPattern DEF MachineInvariant

LEMMA MachineInductive ==
    ReadingSpec => []MachineInvariant
<1>1. ReadingInit => MachineInvariant
  BY DEF ReadingInit, MachineInvariant
<1>2. MachineInvariant /\ [ReadingNext]_<<reading, query>> => MachineInvariant'
  <2> SUFFICES ASSUME MachineInvariant, [ReadingNext]_<<reading, query>>
               PROVE  MachineInvariant'
    OBVIOUS
  <2>1. IsPattern(Translate(typed))
    BY UtterancesMakePatterns
  <2>2. ASSUME NEW t \in Texts, Read(t) PROVE MachineInvariant'
    BY <2>2 DEF Read, query, MachineInvariant
  <2>3. ASSUME NEW u \in Utterances, Ask(u) PROVE MachineInvariant'
    <3>1. typed' = u /\ conv' = Converter(Translate(u)) /\ dfa' = dfa /\ dfa = Nothing
      BY <2>3 DEF Ask
    <3>2. u \in Seq(Nat)
      BY TextsAssumption
    <3>3. ConvOK(Translate(u), Converter(Translate(u)))
      BY <3>2, TranslateMakesAPattern, TheConverterStartsWell
    <3> QED BY <3>1, <3>3 DEF MachineInvariant
  <2>4. ASSUME SquishOne PROVE MachineInvariant'
    <3>1. PICK item \in conv.squishWork : conv' = Squish(conv, item)
      BY <2>4 DEF SquishOne
    <3>2. conv # Nothing /\ typed' = typed /\ dfa' = dfa
      BY <2>4 DEF SquishOne
    <3>3. ConvOK(Translate(typed), Squish(conv, item))
      BY <2>1, <3>2, SquishKeepsTheMeaning DEF MachineInvariant
    <3> QED BY <3>1, <3>2, <3>3 DEF MachineInvariant
  <2>5. ASSUME MakeDfa PROVE MachineInvariant'
    <3>1. /\ conv # Nothing /\ conv.squishWork = {} /\ dfa' = Finish(conv)
          /\ conv' = Nothing /\ typed' = typed
      BY <2>5 DEF MakeDfa
    <3>2. DfaOK(Translate(typed), Finish(conv))
      BY <2>1, <3>1, FinishKeepsTheMeaning DEF MachineInvariant
    <3> QED BY <3>1, <3>2 DEF MachineInvariant
  <2>6. CASE UNCHANGED <<reading, query>>
    BY <2>6 DEF query, MachineInvariant
  <2> QED BY <2>2, <2>3, <2>4, <2>5, <2>6 DEF ReadingNext
<1> QED BY <1>1, <1>2, PTL DEF ReadingSpec

\* AcceptsWhatThePatternMeans, from whichever nodes squish merges and in whatever order:
\* the machine made of a query's word accepts a word exactly if the word's pattern
\* means it.
THEOREM MachineTheorem == ReadingSpec => []AcceptsWhatThePatternMeans
<1>1. MachineInvariant => AcceptsWhatThePatternMeans
  <2> SUFFICES ASSUME MachineInvariant, dfa # Nothing, NEW probe \in Probes
               PROVE  Accepting(dfa, TryAdvanceAll(dfa, dfa.start, probe))
                        <=> Means(Translate(typed), probe)
    BY DEF AcceptsWhatThePatternMeans
  <2>1. IsPattern(Translate(typed)) /\ DfaOK(Translate(typed), dfa)
    BY UtterancesMakePatterns DEF MachineInvariant
  <2>2. probe \in Seq(Nat)
    BY TextsAssumption
  <2> QED BY <2>1, <2>2, TheMachineAccepts
<1> QED BY <1>1, MachineInductive, PTL
=============================================================================
