------------------------------ MODULE MCSearch ------------------------------
(* Texts and queries for TLC.                                                 *)
EXTENDS Search

\* Two of the four fields.
MCFieldTags == <<"instance", "body">>

Text(instance, body) == [instance |-> instance, body |-> body]

Adjacent(fields, margin, words) ==
  [op |-> "adjacency", fields |-> fields, left |-> FALSE, right |-> FALSE,
   margin |-> margin, words |-> words]
Word(fields, term) == Adjacent(fields, 1, <<{term}>>)
Both(a, b) == [op |-> "and", left |-> a, right |-> b]
Either(a, b) == [op |-> "or", left |-> a, right |-> b]
Not(a) == [op |-> "not", child |-> a]

A == Word({"instance", "body"}, "a")
B == Word({"body"}, "b")
AB == Adjacent({"body"}, 1, <<{"a"}, {"b"}>>)

\* Short enough for all combinations, with a word twice in a zgram and in two
\* fields, and an empty field.
MCTexts ==
  {Text(<<"a">>, <<"b">>), Text(<<>>, <<"a", "b">>), Text(<<"b">>, <<"a", "a">>)}

\* One query for each iterator and each simplification.
MCQueries ==
  {A,
   Adjacent({"body"}, 1, <<{"a", "b"}>>),
   Adjacent({"instance", "body"}, 1, <<AnyTerm>>),
   Adjacent({"instance"}, 1, <<>>),
   [A EXCEPT !.left = TRUE, !.right = TRUE],
   [B EXCEPT !.right = TRUE],
   AB,
   [AB EXCEPT !.margin = 3, !.words = <<{"a"}, AnyTerm>>, !.left = TRUE],
   Both(A, B),
   Both(Both(A, B), Not(Not(AB))),
   Either(Either(AB, Word({"instance"}, "b")), Not(A)),
   Not(B)}

\* test_reverse_index.cc: "sender:kosak and not signature:kosak".
MCNegatedTexts == {Text(<<"a">>, <<>>), Text(<<"a">>, <<"b">>), Text(<<>>, <<"b">>), Text(<<>>, <<"a">>)}
MCNegatedQueries == {Both(Word({"instance"}, "a"), Not(B))}

\* A phrase of three words, and texts where the second word comes twice.
MCPhraseTexts ==
  {Text(<<>>, <<"a", "b", "c">>), Text(<<>>, <<"a", "b", "b", "c">>)}
MCPhraseQueries == {Adjacent({"body"}, 1, <<{"a"}, {"b"}, {"c"}>>)}
==============================================================================
