------------------------------ MODULE QueryParser ------------------------------
(***************************************************************************)
(* From the tokens of a query to what its parse tree tells the listener:    *)
(* queryparsing/generated/ZarchiveParser.cpp and the walk over its tree.    *)
(* The walk leaves a rule after the rules below it, so that the tree is the *)
(* sequence of the rules it leaves, each with the tokens its handler reads. *)
(*                                                                         *)
(* A text with a syntax error is refused whatever the walk does; what the   *)
(* generated parser does to recover is left out.                            *)
(***************************************************************************)
EXTENDS QueryLexer

(* What is read of the tokens before `next`; next = 0 is a syntax error.     *)
Parsed(next, exits) == [next |-> next, exits |-> exits]
NoParse == Parsed(0, <<>>)
Then(parsed, exit) == IF parsed.next = 0 THEN NoParse
                      ELSE Parsed(parsed.next, Append(parsed.exits, exit))

Exit(rule) == [rule |-> rule]
ExitWith(rule, texts) == [rule |-> rule, texts |-> texts]

Rule(tokens, at) == IF at \in DOMAIN tokens THEN tokens[at].rule ELSE "EOF"
Are(tokens, at, rules) == \A i \in DOMAIN rules : Rule(tokens, at + i - 1) = rules[i]
Past(tokens, at, rule) == IF Rule(tokens, at) = rule THEN at + 1 ELSE at

-----------------------------------------------------------------------------
(* scopedAdjacency and the rules below it *)

TextsOf(tokens, first, last, rule) ==
  LET words == SelectSeq(SubSeq(tokens, first, last), LAMBDA t : t.rule = rule)
  IN  [i \in DOMAIN words |-> words[i].text]

AdjacentWords(tokens, at) ==
  LET last == LastWhile(tokens, at, LAMBDA t : t.rule = "UNQUOTED_WORD_OR_PUNCT")
  IN  Parsed(last + 1,
        <<ExitWith("AdjacentWords", TextsOf(tokens, at, last, "UNQUOTED_WORD_OR_PUNCT"))>>)

(* quotedAdjacency and tildedAdjacency: words and white space up to `close`. *)
Delimited(tokens, at, word, ws, close, exit) ==
  LET last == LastWhile(tokens, at + 1, LAMBDA t : t.rule \in {word, ws})
  IN  IF Rule(tokens, last + 1) # close THEN NoParse
      ELSE Parsed(last + 2, <<ExitWith(exit, TextsOf(tokens, at, last, word))>>)

(* A function and its argument: only an argument can follow at once, since   *)
(* the modes of the lexer for arguments have no white space.                *)
Call(tokens, at, argument, exit) ==
  IF ~Are(tokens, at + 1, <<argument>>) THEN NoParse
  ELSE LET close == Past(tokens, at + 2, "WS")
       IN  IF Rule(tokens, close) # "RPAREN" THEN NoParse
           ELSE Parsed(close + 1, <<ExitWith(exit, <<tokens[at + 1].text>>)>>)

QuotedAdjacency(tokens, at) ==
  Delimited(tokens, at, "QUOTED_WORD_OR_PUNCT", "QUOTED_WS", "ENDQUOTE", "QuotedAdjacency")
TildedAdjacency(tokens, at) ==
  Delimited(tokens, at, "TILDED_WORD_OR_PUNCT", "TILDED_WS", "ENDTILDE", "TildedAdjacency")
Literally(tokens, at) == Call(tokens, at, "LITERAL", "Literally")

Words(tokens, at) ==
  CASE Rule(tokens, at) = "UNQUOTED_WORD_OR_PUNCT" -> AdjacentWords(tokens, at)
    [] Rule(tokens, at) = "QUOTE" -> QuotedAdjacency(tokens, at)
    [] Rule(tokens, at) = "TILDE" -> TildedAdjacency(tokens, at)
    [] Rule(tokens, at) = "LITERALLY" -> Literally(tokens, at)
    [] OTHER -> NoParse

(* Without a field specification, field is the empty text.                  *)
ScopedAdjacency(tokens, at) ==
  LET named == Rule(tokens, at) = "FIELD_SPECIFICATION"
      left == IF named THEN Past(tokens, at + 1, "WS") ELSE at
      words == Words(tokens, Past(tokens, left, "LANCHOR"))
  IN  Then([words EXCEPT !.next = IF @ = 0 THEN 0 ELSE Past(tokens, @, "RANCHOR")],
           [rule  |-> "ScopedAdjacency",
            field |-> IF named THEN tokens[at].text ELSE <<>>,
            left  |-> Rule(tokens, left) = "LANCHOR",
            right |-> words.next # 0 /\ Rule(tokens, words.next) = "RANCHOR"])

-----------------------------------------------------------------------------
(* booleanQuery.  A rule with an operator has a level; the operand to its    *)
(* right is of a higher one, so that it groups to the left.                 *)

Operator(rule, level, tokens) == [rule |-> rule, level |-> level, tokens |-> tokens]
(* A mutant: OR binds as tightly as AND.                                    *)
BooleanOperatorsAlike ==
  {Operator("ImpliedAnd", 4, <<"WS">>),
   Operator("And", 3, <<"WS", "AND", "WS">>),
   Operator("Or", 3, <<"WS", "OR", "WS">>)}

BooleanOperators ==
  {Operator("ImpliedAnd", 4, <<"WS">>),
   Operator("And", 3, <<"WS", "AND", "WS">>),
   Operator("Or", 2, <<"WS", "OR", "WS">>)}
LevelOfNot == 5

PrimaryBegins ==
  {"METADATA_FN_ARGS_STRING", "METADATA_FN_ARGS_WHOLE_NUMBER", "LITERALLY", "LANCHOR",
   "FIELD_SPECIFICATION", "UNQUOTED_WORD_OR_PUNCT", "QUOTE", "TILDE", "NOT", "LPAREN"}

RECURSIVE BooleanQuery(_, _, _), Operands(_, _, _)

Primary(tokens, at) ==
  LET rule == Rule(tokens, at)
      inside == BooleanQuery(tokens, Past(tokens, at + 1, "WS"), 0)
      close == Past(tokens, inside.next, "WS")
  IN  CASE rule = "METADATA_FN_ARGS_STRING" ->
             Call(tokens, at, "LITERAL", "MetadataFnArgsString")
        [] rule = "METADATA_FN_ARGS_WHOLE_NUMBER" ->
             Call(tokens, at, "WHOLE_NUMBER", "MetadataFnArgsWholeNumber")
        [] rule = "NOT" ->
             IF Rule(tokens, at + 1) # "WS" THEN NoParse
             ELSE Then(BooleanQuery(tokens, at + 2, LevelOfNot), Exit("Not"))
        [] rule = "LPAREN" ->
             IF inside.next = 0 \/ Rule(tokens, close) # "RPAREN" THEN NoParse
             ELSE Then(Parsed(close + 1, inside.exits), Exit("Parens"))
        [] OTHER -> Then(ScopedAdjacency(tokens, at), Exit("Adj"))

(* What may follow `left` at the precedence the rule was entered with.      *)
Operands(tokens, left, precedence) ==
  LET found == {op \in BooleanOperators :
                  /\ op.level >= precedence
                  /\ Are(tokens, left.next, op.tokens)
                  /\ Rule(tokens, left.next + Len(op.tokens)) \in PrimaryBegins}
      op == CHOOSE o \in found : TRUE
      right == BooleanQuery(tokens, left.next + Len(op.tokens), op.level + 1)
  IN  IF left.next = 0 \/ found = {} THEN left
      ELSE Operands(tokens,
                    Then([right EXCEPT !.exits = left.exits \o @], Exit(op.rule)), precedence)

BooleanQuery(tokens, at, precedence) == Operands(tokens, Primary(tokens, at), precedence)

(* query: the whole text, which Parse has trimmed.                          *)
Query(tokens) ==
  LET whole == BooleanQuery(tokens, Past(tokens, 1, "WS"), 0)
  IN  IF whole.next = 0 \/ Rule(tokens, Past(tokens, whole.next, "WS")) # "EOF" THEN NoParse
      ELSE Then(whole, Exit("Query"))
=============================================================================
