---------------------------- MODULE MCTextSearch -----------------------------
(* A small instance of TextSearch: 'a' with its capital and one look-alike,  *)
(* 'b', and the characters the readers of text treat specially.              *)
EXTENDS TextSearch

MCLookAlikes == [ch \in 97..122 |-> IF ch = 97 THEN {225} ELSE {}]

Strings(chars, n) == UNION {[1..k -> chars] : k \in 0..n}

MCTexts ==
  Strings({97, 55, Apostrophe, Space}, 5) \cup
  Strings({97, 55, Plus, Minus}, 5) \cup Strings({67, 97, Plus, Question}, 4)
MCVocabulary ==
  {<<97>>, <<97, 98>>, <<97, 98, 97, 98>>, <<65, 98>>, <<225, 98, 98>>}
(* The last four are ones whose machine has states to squish; in *a??*? one  *)
(* merge makes others possible.                                             *)
MCUtterances ==
  (Strings({97, Star, Question}, 3) \ {<<>>}) \cup
  {<<97, 98>>, <<65, 98>>, <<Backslash, 65, 98>>, <<Backslash, 97, 98>>, <<Backslash, Star>>,
   <<97, Backslash>>, <<Star, 97, Star, 98, Star>>, <<Question, Question, Star, Star>>,
   <<Star, 97, Question, Star, Question>>, <<Star, 97, 97, Star, 98, Question>>,
   <<Star, 97, Question, Star, Question, Question>>,
   <<Star, 97, Question, Question, Star, Question>>}
MCProbes == Strings({97, 98}, 5) \cup Strings({97, 65, 225}, 2) \cup MCVocabulary
=============================================================================
