--------------------------- MODULE TupleIterators ---------------------------
(***************************************************************************)
(* The stages a file of tuples goes through while an index is built: the   *)
(* external sort, the filters chained behind it, and the inflator, which   *)
(* turns the flat rows into nested maps.  A file of rows is a sequence of  *)
(* tuples and a stage is a function of one; numbers stand for strings, in  *)
(* their order.  A column of a tuple keeps the position it has in C++,     *)
(* plus one.                                                               *)
(***************************************************************************)
EXTENDS Integers, Sequences, FiniteSets, SequencesExt, TLC

\* The value of a function at an argument, or another one outside its domain.
At(f, x, none) == IF x \in DOMAIN f THEN f[x] ELSE none
\* The function with one more, or another, value.
Put(f, x, v) == [y \in DOMAIN f \union {x} |-> IF y = x THEN v ELSE f[y]]
Nothing == <<>>

\* The sequence itself; TLC then evaluates its elements once.
Evaluated(s) == SubSeq(s, 1, Len(s))
\* The stage F on the result of the one before it, which TLC then has once.
Then(x, F(_)) == CHOOSE y \in {F(v) : v \in {x}} : TRUE

\* The elements of a set of numbers in order.
Ascending(S) == Evaluated([i \in 1 .. Cardinality(S) |-> CHOOSE x \in S : Cardinality({y \in S : y < x}) = i - 1])

\* The first n columns of a row.
Prefix(row, n) == SubSeq(row, 1, n)

\* The first column, counted from 0, in which two rows differ among the first
\* n; n when they agree.
FirstDifference(left, right, n) ==
  LET D == {k \in 1 .. n : left[k] # right[k]}
  IN  IF D = {} THEN n ELSE (CHOOSE k \in D : \A j \in D : k <= j) - 1

\* left sorts before right by the columns of keys, in the order they are given.
KeyBefore(left, right, keys) ==
  \E k \in DOMAIN keys :
    /\ left[keys[k]] < right[keys[k]]
    /\ \A j \in 1 .. k - 1 : left[keys[j]] = right[keys[j]]

\* What sort(1) makes of the concatenated inputs with -s: rows whose keys agree
\* keep the order they arrived in.
StableSort(rows, keys) ==
  LET Earlier(i, j) == \/ KeyBefore(rows[i], rows[j], keys)
                       \/ ~KeyBefore(rows[j], rows[i], keys) /\ i < j
      place == Evaluated([i \in DOMAIN rows |-> Cardinality({j \in DOMAIN rows : Earlier(j, i)}) + 1])
  IN  Evaluated([p \in DOMAIN rows |-> rows[CHOOSE i \in DOMAIN rows : place[i] = p]])

\* The rows at the places of keep, in order.
RowsAt(rows, keep) ==
  LET places == Ascending(keep)
  IN  Evaluated([n \in 1 .. Cardinality(keep) |-> rows[places[n]]])

\* A mutant: the first one comes through.
FirstKeeper(rows, keySize) ==
  RowsAt(rows, {i \in DOMAIN rows : i > 1 => FirstDifference(rows[i - 1], rows[i], keySize) < keySize})

\* Of neighbouring rows with one key only the last comes through.
LastKeeper(rows, keySize) ==
  RowsAt(rows, {i \in DOMAIN rows :
                  i < Len(rows) => FirstDifference(rows[i], rows[i + 1], keySize) < keySize})

\* Only rows whose flag, the column behind the key, is set come through.
TrueKeeper(rows, keySize) == RowsAt(rows, {i \in DOMAIN rows : rows[i][keySize + 1]})

\* Every row is cut to its first columns.
PrefixGrabber(rows, size) == Evaluated([i \in DOMAIN rows |-> Prefix(rows[i], size)])

\* Neighbouring rows with one key become one row that ends in their number.
Counter(rows, keySize) ==
  FoldLeft(LAMBDA counted, row :
             IF counted # <<>> /\ FirstDifference(row, Last(counted), keySize) = keySize
             THEN [counted EXCEPT ![Len(counted)][keySize + 1] = @ + 1]
             ELSE Append(counted, Append(Prefix(row, keySize), 1)),
           <<>>, rows)

\* Every string of a row must be in the pool: the columns of cols are strings.
CanFreeze(rows, cols, pool) == \A i \in DOMAIN rows : \A c \in cols : rows[i][c] \in pool

-----------------------------------------------------------------------------
\* How far into the tree a row starts something new; the first row starts it
\* all.
Diffs(rows) ==
  Evaluated([i \in DOMAIN rows |->
     IF i = 1 THEN 0 ELSE FirstDifference(rows[i - 1], rows[i], Len(rows[i]))])

\* The sizes of the collections below a node, each before those inside it.
\* s.at is the row the diffs are read from and s.counts what was written; slot
\* is where the size of the collection is kept, or 0 when it is yet to begin.
CountLevel(diffs, height) ==
  LET count[level \in 0 .. height, slot \in Nat, s \in [at : Nat, counts : Seq(Nat)]] ==
        IF level = height THEN [s EXCEPT !.at = @ + 1]
        ELSE IF slot = 0 THEN count[level, Len(s.counts) + 1, [s EXCEPT !.counts = Append(@, 1)]]
        ELSE LET t == count[level + 1, 0, s]
             IN  IF t.at > Len(diffs) \/ diffs[t.at] < level THEN t
                 ELSE count[level, slot, [t EXCEPT !.counts[slot] = @ + 1]]
  IN  count

\* The sizes of all collections of a tree with height levels of them.
TupleCounts(rows, height) ==
  IF rows = <<>> THEN <<0>>
  ELSE CountLevel(Diffs(rows), height)[0, 0, [at |-> 1, counts |-> <<>>]].counts

\* What a collection holds from a row on, when so many entries are left of it.
\* A collection takes its size from the counts, and what it holds from the rows
\* that follow; an entry of a collection above the innermost is a pair of a
\* column and a collection, and whatever columns are left make the entry of the
\* innermost one.
InflateItems(rows, counts, height) ==
  LET items[level \in 1 .. height, left \in Nat, row \in Nat, count \in Nat] ==
        LET Result(ok, r, c, value) == [ok |-> ok, row |-> r, count |-> c, value |-> value]
            inner ==
              IF level = height
              THEN Result(TRUE, row + 1, count, SubSeq(rows[row], level, Len(rows[row])))
              ELSE IF count > Len(counts) THEN Result(FALSE, row, count, <<>>)
              ELSE items[level + 1, counts[count], row, count + 1]
            entry == IF level = height THEN inner.value ELSE <<rows[row][level], inner.value>>
            rest == items[level, left - 1, inner.row, inner.count]
        IN  IF left = 0 THEN Result(TRUE, row, count, <<>>)
            ELSE IF row > Len(rows) \/ ~inner.ok THEN Result(FALSE, row, count, <<>>)
            ELSE [rest EXCEPT !.value = <<entry>> \o @]
  IN  items

\* The nested maps of the rows; it fails when a count is missing or is left.
Inflate(rows, height) ==
  Then(TupleCounts(rows, height), LAMBDA counts :
  Then(InflateItems(rows, counts, height)[1, counts[1], 1, 2], LAMBDA s :
    [ok |-> s.ok /\ s.count = Len(counts) + 1, value |-> s.value]))

\* The value of a key in an inflated map, whose entries are pairs.
FrozenFind(map, key, none) ==
  LET I == {i \in DOMAIN map : map[i][1] = key}
  IN  IF I = {} THEN none ELSE map[CHOOSE i \in I : \A j \in I : i <= j][2]

\* A map or a set holds every key once, and in order: the searches in the
\* index are binary.
KeysAscend(map) == \A i \in DOMAIN map : i > 1 => map[i - 1][1] < map[i][1]

=============================================================================
