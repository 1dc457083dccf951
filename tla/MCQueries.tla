------------------------------- MODULE MCQueries -------------------------------
(* Queries and texts for TLC.                                                 *)
EXTENDS Queries

MCFieldTags == <<"sender", "signature", "instance", "body">>
MCAnyTerm == <<MatchN>>
MCLookAlikes == [ch \in 97..122 |-> IF ch = 97 THEN {225} ELSE {}]

Adj(fields, style, words) ==
  [op |-> "adjacency", fields |-> fields, separator |-> Chars(","), style |-> style,
   words |-> [n \in DOMAIN words |-> Chars(words[n])], left |-> FALSE, right |-> FALSE]
Anchor(q, left, right) == [q EXCEPT !.left = left, !.right = right]
Not(q) == [op |-> "not", child |-> q]
Pair(op, l, r) == [op |-> op, left |-> l, right |-> r]
Ops == {"or", "and", "implied"}

P == Adj({"sender"}, "adjacent", <<"a">>)
Q == Adj({"body"}, "adjacent", <<"b">>)
R == Adj({"instance"}, "quoted", <<>>)

Leaves ==
  {Adj({"body"}, "adjacent", <<"a", "+">>), Adj({"body"}, "quoted", <<"a", "b">>),
   Adj({"body", "instance"}, "tilded", <<"a", "b", "a">>), Adj({"body"}, "quoted", <<"*", "b">>),
   Anchor(Adj({"body"}, "quoted", <<"a", "b">>), TRUE, FALSE),
   Anchor(Adj({"body"}, "tilded", <<"a", "b">>), FALSE, TRUE),
   Anchor(Adj({"sender", "signature"}, "adjacent", <<"*">>), FALSE, TRUE),
   Anchor(Adj({"body"}, "adjacent", <<"A">>), TRUE, TRUE),
   Adj({"body"}, "adjacent", <<"*">>), Adj({"body"}, "tilded", <<>>),
   [op |-> "hasreaction", reaction |-> Chars("a\"\\")], [op |-> "zgramid", id |-> "12"]}

Trees ==
  LET Signed(q) == {q, Not(q)}
      pairs == {Pair(op, l, r) : op \in Ops, l \in Signed(P), r \in Signed(Q)}
      few == {Pair(op, P, Q) : op \in Ops} \cup {Pair(op, P, Not(Q)) : op \in Ops}
  IN  Signed(Not(P)) \cup pairs \cup {Not(q) : q \in few}
      \cup {Pair(op, q, r) : op \in Ops, q \in few, r \in Signed(R)}
      \cup {Pair(op, r, q) : op \in Ops, q \in few, r \in Signed(R)}

Strings(chars, n) == UNION {[1..k -> chars] : k \in 0..n}
Literals ==
  {[op |-> "literally", text |-> t] :
     t \in Strings({97, 65, Space, Apostrophe, Star, Backslash, Code["\""]}, 3)}

MCAsked == Leaves \cup Trees \cup Literals

Chunked(chunks, n) == {FlattenSeq([i \in DOMAIN c |-> Chars(c[i])]) : c \in Strings(chunks, n)}
MCRawTexts ==
  Chunked({"a", " ", "(", ")", "not ", " and ", " or ", "\"", "^", "$", "body:"}, 3)
  \cup Chunked({"a", "(", ")", "not ", " and "}, 5)

Zgram(id, reactions, sender, instance, body) ==
  [id |-> id, reactions |-> {Chars(r) : r \in reactions},
   text |-> [sender |-> Chars(sender), signature |-> <<>>,
             instance |-> Chars(instance), body |-> Chars(body)]]
Bodies == {"", "A", "b", "a+", "b a b", "a b a", "a c b"}
MCZgrams ==
  {Zgram("12", {"a\"\\"}, s, i, b) : s \in {"", "a"}, i \in {"", "a b a"}, b \in Bodies}
  \cup {Zgram("2", {"a\""}, "", "", "")}

-----------------------------------------------------------------------------
(* test_parsing.cc: "let's test something like instance, body: kosak".      *)
MCSpaced ==
  {[Adj(fields, "adjacent", <<"a">>) EXCEPT !.separator = s] :
     fields \in {{"body"}, {"instance", "body"}, {"signature", "body"}},
     s \in {Chars(","), Chars(", ")}}

(* ZarchiveParser.g4: a word against one that looks like it.                *)
MCAlike == {[op |-> "literally", text |-> t] : t \in Strings({97, 98}, 3)}
MCAlikeZgrams ==
  {[id |-> "0", reactions |-> {},
    text |-> [sender |-> <<>>, signature |-> <<>>, instance |-> t, body |-> <<>>]] :
     t \in Strings({97, 98, 225}, 3)}
=============================================================================
