------------------------------ MODULE QueryLexer ------------------------------
(***************************************************************************)
(* The tokens of a query: queryparsing/ZarchiveLexer.g4.  At each place the *)
(* lexer takes the rule of its mode that matches the most characters, the   *)
(* first of these if there are several; some rules change the mode.         *)
(*                                                                         *)
(* The texts are sequences of code points, as in WordText.  A token is its  *)
(* rule and its text.                                                       *)
(***************************************************************************)
EXTENDS WordText

(* Printable ASCII as it is written: Chars("and") = <<97, 110, 100>>.  The   *)
(* backquote, 96, is left out: a string of TLA+ cannot have it.             *)
Printable ==
  [low  |-> " !\"#$%&'()*+,-./0123456789:;<=>?@ABCDEFGHIJKLMNOPQRSTUVWXYZ[\\]^_",
   high |-> "abcdefghijklmnopqrstuvwxyz{|}~"]
CodesFrom(first, s) ==
  [c \in {SubSeq(s, i, i) : i \in 1..Len(s)} |->
     first + (CHOOSE i \in 1..Len(s) : SubSeq(s, i, i) = c) - 1]
Code == CodesFrom(32, Printable.low) @@ CodesFrom(97, Printable.high)
Chars(s) == [i \in 1..Len(s) |-> Code[SubSeq(s, i, i)]]
CharSet(s) == Range(Chars(s))

-----------------------------------------------------------------------------
(* Character classes *)

WSF == {9, 10, 12, 13, 32}
PunctQuoting == CharSet("\"~\\")
PunctParens == CharSet("()")
PunctAnchors == CharSet("$^")
PunctNormal == CharSet("!#%&+,-./:;<=>@[_{|}]") \cup {96}
PunctEscaped == CharSet("\"~\\*?'")
NotLetter ==
  WSF \cup PunctQuoting \cup PunctParens \cup PunctAnchors \cup {Apostrophe} \cup PunctNormal
Letter(ch) == ch \notin NotLetter

-----------------------------------------------------------------------------
(* Where a match of each rule that begins at `at` ends; at - 1 when there   *)
(* is none.                                                                 *)

StartsAt(text, at, word) ==
  at + Len(word) - 1 <= Len(text) /\ SubSeq(text, at, at + Len(word) - 1) = word

Keyword(text, at, word) ==
  IF StartsAt(text, at, word) THEN at + Len(word) - 1 ELSE at - 1

WsEnd(text, at) == LastWhile(text, at, LAMBDA ch : ch \in WSF)

(* WORD: letters, with single apostrophes between them.                     *)
WordTokenEnd(text, at) ==
  CHOOSE n \in (at - 1)..Len(text) :
    LET IsWord(end) == \A i \in at..end :
          \/ Letter(text[i])
          \/ /\ text[i] = Apostrophe /\ i > at /\ i < end
             /\ text[i - 1] # Apostrophe
    IN  IsWord(n) /\ \A m \in (n + 1)..Len(text) : ~IsWord(m)

(* PUNCT, with more characters that count as punctuation.                   *)
PunctEnd(text, at, more) ==
  IF text[at] \in PunctNormal \cup {Apostrophe} \cup more THEN at
  ELSE IF /\ text[at] = Backslash /\ at < Len(text)
          /\ text[at + 1] \in PunctEscaped THEN at + 1
  ELSE at - 1

WordOrPunctEnd(text, at, more) ==
  LET word == WordTokenEnd(text, at)
  IN  IF word >= at THEN word ELSE PunctEnd(text, at, more)

FieldSpecifiers == {Chars("sender"), Chars("signature"), Chars("instance"), Chars("body")}

RECURSIVE FieldSpecEnd(_, _)
FieldSpecEnd(text, at) ==
  LET names == {name \in FieldSpecifiers : StartsAt(text, at, name)}
      next == WsEnd(text, at + Len(CHOOSE name \in names : TRUE)) + 1
  IN  IF names = {} \/ next > Len(text) THEN 0
      ELSE IF text[next] = Code[":"] THEN next
      ELSE IF text[next] = Code[","] THEN FieldSpecEnd(text, WsEnd(text, next + 1) + 1)
      ELSE 0

(* LITERAL: up to the first quote that is not escaped; a backslash escapes  *)
(* a quote or a backslash and may not stand before anything else.           *)
LiteralEnd(text, at) ==
  LET body == SubSeq(text, at + 1, Len(text))
      escaped == Escaped(body)
      quotes == {i \in DOMAIN body : body[i] = Code["\""] /\ i \notin escaped}
      close == CHOOSE i \in quotes : \A j \in quotes : i <= j
  IN  IF /\ text[at] = Code["\""] /\ quotes # {}
         /\ \A i \in escaped : i < close => body[i] \in {Backslash, Code["\""]}
      THEN at + close
      ELSE at - 1

RuleEnd(rule, text, at) ==
  CASE rule = "METADATA_FN_ARGS_STRING" -> Keyword(text, at, Chars("hasreaction("))
    [] rule = "METADATA_FN_ARGS_WHOLE_NUMBER" -> Keyword(text, at, Chars("zgramid("))
    [] rule = "LITERALLY" -> Keyword(text, at, Chars("literally("))
    [] rule = "AND" -> Keyword(text, at, Chars("and"))
    [] rule = "OR" -> Keyword(text, at, Chars("or"))
    [] rule = "NOT" -> Keyword(text, at, Chars("not"))
    [] rule = "LPAREN" -> Keyword(text, at, Chars("("))
    [] rule = "RPAREN" -> Keyword(text, at, Chars(")"))
    [] rule = "LANCHOR" -> Keyword(text, at, Chars("^"))
    [] rule = "RANCHOR" -> Keyword(text, at, Chars("$"))
    [] rule = "FIELD_SPECIFICATION" -> FieldSpecEnd(text, at)
    [] rule = "UNQUOTED_WORD_OR_PUNCT" -> WordOrPunctEnd(text, at, {})
    [] rule = "QUOTED_WORD_OR_PUNCT" ->
         WordOrPunctEnd(text, at, PunctParens \cup PunctAnchors \cup CharSet("~"))
    [] rule = "TILDED_WORD_OR_PUNCT" ->
         WordOrPunctEnd(text, at, PunctParens \cup PunctAnchors \cup CharSet("\""))
    [] rule \in {"QUOTE", "ENDQUOTE"} -> Keyword(text, at, Chars("\""))
    [] rule \in {"TILDE", "ENDTILDE"} -> Keyword(text, at, Chars("~"))
    [] rule \in {"WS", "QUOTED_WS", "TILDED_WS"} -> WsEnd(text, at)
    [] rule = "LITERAL" -> LiteralEnd(text, at)
    [] rule = "WHOLE_NUMBER" -> LastWhile(text, at, IsDigit)

(* The rules of each mode, in their order.                                  *)
Rules(mode) ==
  CASE mode = "DEFAULT" ->
         <<"METADATA_FN_ARGS_STRING", "METADATA_FN_ARGS_WHOLE_NUMBER", "LITERALLY", "AND", "OR",
           "NOT", "LPAREN", "RPAREN", "LANCHOR", "RANCHOR", "FIELD_SPECIFICATION",
           "UNQUOTED_WORD_OR_PUNCT", "QUOTE", "TILDE", "WS">>
    [] mode = "QUOTE" -> <<"QUOTED_WORD_OR_PUNCT", "QUOTED_WS", "ENDQUOTE">>
    [] mode = "TILDE" -> <<"TILDED_WORD_OR_PUNCT", "TILDED_WS", "ENDTILDE">>
    [] mode = "LITERAL" -> <<"LITERAL">>
    [] mode = "WHOLE_NUMBER" -> <<"WHOLE_NUMBER">>

(* Only one mode is ever pushed on top of the default one.                  *)
ModeAfter(rule, mode) ==
  CASE rule = "QUOTE" -> "QUOTE"
    [] rule = "TILDE" -> "TILDE"
    [] rule \in {"METADATA_FN_ARGS_STRING", "LITERALLY"} -> "LITERAL"
    [] rule = "METADATA_FN_ARGS_WHOLE_NUMBER" -> "WHOLE_NUMBER"
    [] rule \in {"ENDQUOTE", "ENDTILDE", "LITERAL", "WHOLE_NUMBER"} -> "DEFAULT"
    [] OTHER -> mode

Token(rule, text) == [rule |-> rule, text |-> text]
EndOfText == Token("EOF", <<>>)
BadToken == Token("ERROR", <<>>)

RECURSIVE TokensFrom(_, _, _)
TokensFrom(text, at, mode) ==
  LET rules == Rules(mode)
      ends == [k \in DOMAIN rules |-> RuleEnd(rules[k], text, at)]
      best == CHOOSE k \in DOMAIN rules :
                /\ \A j \in DOMAIN rules : ends[j] <= ends[k]
                /\ \A j \in 1..(k - 1) : ends[j] < ends[k]
  IN  IF at > Len(text) THEN <<EndOfText>>
      ELSE IF ends[best] < at THEN <<BadToken>>     \* a syntax error is reported
      ELSE <<Token(rules[best], SubSeq(text, at, ends[best]))>> \o
             TokensFrom(text, ends[best] + 1, ModeAfter(rules[best], mode))

Tokens(text) == TokensFrom(text, 1, "DEFAULT")
=============================================================================
