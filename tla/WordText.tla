------------------------------ MODULE WordText -------------------------------
(***************************************************************************)
(* The three readers of text: WordSplitter::split, which cuts a field of a  *)
(* zgram into the words it is indexed by, WordSplitter::                    *)
(* translateToPatternChar, which turns a word of a query into a pattern     *)
(* (both queryparsing/util.cc), and PlusPlusScanner::scan                   *)
(* (shared/plusplus_scanner.cc), which finds what a body counts up or down. *)
(*                                                                         *)
(* A text is a sequence of code points.  The C++ reads the bytes of UTF-8:  *)
(* those of a character beyond ASCII are all 128 or more, so that the       *)
(* classes below say of the character what the code says of its bytes, and  *)
(* the size of a key is that of one in ASCII.                               *)
(***************************************************************************)
EXTENDS Integers, Sequences, SequencesExt, FiniteSets, Automaton

CONSTANT MaxPlusPlusKeySize     \* magicConstants::maxPlusPlusKeySize

ASSUME KeySizeAssumption == MaxPlusPlusKeySize \in Nat \ {0}

Space == 32        Apostrophe == 39   Star == 42     Plus == 43     Minus == 45
Question == 63     Backslash == 92    Underscore == 95              Tilde == 126

IsDigit(ch) == ch \in 48..57
IsLetter(ch) == IsUpper(ch) \/ IsLower(ch) \/ ch >= 128

-----------------------------------------------------------------------------
(* WordSplitter::split *)

IsAlphabet(ch) == IsLetter(ch) \/ IsDigit(ch)
IsWhitespace(ch) == ch < 32 \/ ch = Space \/ ch = 127

(* The last of the characters from `at` on that all satisfy Test; at - 1    *)
(* when the first does not.                                                 *)
LastWhile(text, at, Test(_)) ==
  CHOOSE n \in (at - 1)..Len(text) :
    /\ \A i \in at..n : Test(text[i])
    /\ n = Len(text) \/ ~Test(text[n + 1])

(* The end of the word that begins at `at`: it takes letters and            *)
(* apostrophes as they come, then gives trailing apostrophes back.          *)
WordRun(text, at) == LastWhile(text, at, LAMBDA ch : IsAlphabet(ch) \/ ch = Apostrophe)
WordEndGreedy(text, at) == WordRun(text, at)   \* mutant: keeps the trailing ones
WordEnd(text, at) ==
  CHOOSE n \in at..WordRun(text, at) :
    /\ text[n] # Apostrophe
    /\ \A i \in (n + 1)..WordRun(text, at) : text[i] = Apostrophe

(* The words of a text from each place on.                                  *)
SplitFrom(text) ==
  LET from[at \in 1..(Len(text) + 1)] ==
        IF at > Len(text) THEN <<>>
        ELSE IF IsWhitespace(text[at]) THEN from[at + 1]
        ELSE IF IsAlphabet(text[at])
        THEN <<SubSeq(text, at, WordEnd(text, at))>> \o from[WordEnd(text, at) + 1]
        ELSE <<<<text[at]>>>> \o from[at + 1]
  IN  from

Split(text) == SplitFrom(text)[1]

-----------------------------------------------------------------------------
(* WordSplitter::translateToPatternChar *)

(* The characters a backslash stands before: the second of each pair.       *)
Escaped(text) ==
  LET odd[i \in 0..Len(text)] ==    \* is the character after i escaped?
        i > 0 /\ text[i] = Backslash /\ ~odd[i - 1]
  IN  {i \in 1..Len(text) : odd[i - 1]}

(* An unescaped capital or an escaped small letter makes the whole exact.   *)
ForceExact(text) ==
  \E i \in 1..Len(text) :
    IF i \in Escaped(text) THEN IsLower(text[i]) ELSE IsUpper(text[i])

(* A backslash is dropped, unless nothing follows it.                       *)
Translate(text) ==
  LET escaped == Escaped(text)
      kept == {i \in 1..Len(text) :
                 i \in escaped \/ text[i] # Backslash \/ i = Len(text)}
      nth(n) == CHOOSE i \in kept : Cardinality({j \in kept : j < i}) = n - 1
      PatternOf(i) ==
        IF i \notin escaped /\ text[i] = Question THEN MatchOne
        ELSE IF i \notin escaped /\ text[i] = Star THEN MatchN
        ELSE Char(text[i], ~ForceExact(text))
  IN  [n \in 1..Cardinality(kept) |-> PatternOf(nth(n))]

-----------------------------------------------------------------------------
(* PlusPlusScanner::scan *)

IsFirstCharOfKey(ch) == IsLetter(ch) \/ ch = Underscore
IsMiddleCharOfKey(ch) == IsFirstCharOfKey(ch) \/ IsDigit(ch)
IsAcceptable(key) == key \notin {<<67>>, <<99>>}      \* C and c
Operators == {Plus, Minus, Question, Tilde}
OperatorCharToDelta(ch, parity) ==
  IF ch = Plus THEN parity ELSE IF ch = Minus THEN -parity ELSE 0

(* netPlusPlusCounts: try_emplace(key, 0), then the delta is added.         *)
Counted(counts, key, delta) ==
  [k \in DOMAIN counts \cup {key} |->
     (IF k \in DOMAIN counts THEN counts[k] ELSE 0) + (IF k = key THEN delta ELSE 0)]

(* A mutant: it goes on behind the two characters after the key in any case, *)
(* and so misses a key that begins among them.                              *)
PotentialKeyInPairs(body, at, keyEnd) ==
  LET doubled == /\ keyEnd + 2 <= Len(body)
                 /\ body[keyEnd + 1] \in Operators /\ body[keyEnd + 2] = body[keyEnd + 1]
      key == SubSeq(body, at, keyEnd)
  IN  [counts |-> doubled /\ IsAcceptable(key) /\ Len(key) <= MaxPlusPlusKeySize,
       resume |-> IF keyEnd + 2 <= Len(body) THEN keyEnd + 3 ELSE Len(body) + 1]

(* What the key body[at..keyEnd] comes to: whether it counts, and where the *)
(* scan goes on, behind the characters that were looked at.                 *)
PotentialKey(body, at, keyEnd) ==
  LET key == SubSeq(body, at, keyEnd)
      op == IF keyEnd = Len(body) THEN 0 ELSE body[keyEnd + 1]
  IN  IF Len(key) > MaxPlusPlusKeySize \/ op \notin Operators
      THEN [counts |-> FALSE, resume |-> keyEnd + 1]
      ELSE IF keyEnd + 1 = Len(body) \/ body[keyEnd + 2] # op
      THEN [counts |-> FALSE, resume |-> keyEnd + 2]
      ELSE [counts |-> IsAcceptable(key), resume |-> keyEnd + 3]

(* What the keys from each place on count.                                  *)
ScanFrom(body, parity) ==
  LET from[at \in 1..(Len(body) + 1)] ==
        LET keyEnd == LastWhile(body, at + 1, IsMiddleCharOfKey)
            found == PotentialKey(body, at, keyEnd)
            delta == OperatorCharToDelta(body[keyEnd + 1], parity)
        IN  IF at > Len(body) THEN <<>>
            ELSE IF ~IsFirstCharOfKey(body[at]) THEN from[at + 1]
            ELSE IF found.counts
            THEN Counted(from[found.resume], SubSeq(body, at, keyEnd), delta)
            ELSE from[found.resume]
  IN  from

Scan(body, parity) == ScanFrom(body, parity)[1]
=============================================================================
