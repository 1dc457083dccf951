-------------------------------- MODULE Queries --------------------------------
(***************************************************************************)
(* queryparsing/parser.cc: parse, which reads the text of a query, and      *)
(* MyParseListener, which walks the parse tree with four stacks and makes   *)
(* the query's iterator.                                                    *)
(*                                                                         *)
(* Asked are queries as trees, written down by Written and understood by    *)
(* Matches; RawTexts are texts that need not be queries.                    *)
(***************************************************************************)
EXTENDS QueryParser, IteratorTrees

CONSTANTS Asked, RawTexts,
          Zgrams,          \* what the iterators are held against
          NearMargin,      \* magicConstants::nearMargin
          IdModulus        \* bound: 2^64 in the program

ASSUME QueriesAssumption == NearMargin \in Nat \ {0} /\ IdModulus \in Nat \ {0}

VARIABLES asked,             \* the query, or Nothing for a raw text
          text, phase,       \* "reading", "walking", "refused" or "done"
          exits,             \* the rules that the walk has yet to leave
          zgramIterators, adjacencies, adjacencyGroups, query, ok

stacks == <<zgramIterators, adjacencies, adjacencyGroups>>
vars == <<asked, text, phase, exits, stacks, query, ok>>

Nothing == [op |-> "nothing"]

-----------------------------------------------------------------------------
(* Helpers of the listener *)

Trim(t) ==
  LET printed == {i \in DOMAIN t : t[i] \notin 9..13 \cup {Space}}
      first == CHOOSE i \in printed : \A j \in printed : i <= j
      last == CHOOSE i \in printed : \A j \in printed : i >= j
  IN  IF printed = {} THEN <<>> ELSE SubSeq(t, first, last)

(* tryStripQuotesAndUnescape, of a LITERAL.                                 *)
KeepingBackslashes(literal) == SubSeq(literal, 2, Len(literal) - 1)    \* a mutant
StripQuotesAndUnescape(literal) ==
  LET body == SubSeq(literal, 2, Len(literal) - 1)
      escaped == Escaped(body)
      kept == SelectSeq([i \in DOMAIN body |-> i],
                        LAMBDA i : i \in escaped \/ body[i] # Backslash)
  IN  [k \in DOMAIN kept |-> body[kept[k]]]

FieldName(k) == Chars(FieldTags[k])

(* FieldTag's tryParse: strncmp over the length of the text, so that any     *)
(* prefix of a name names it, the empty one the first.                      *)
FieldsNamed(name) == {k \in DOMAIN FieldTags : IsPrefix(name, FieldName(k))}

(* tryParseFieldMask, the tags in place of bits; {} when a name is not one.  *)
FieldMask(field) ==
  LET ends == SelectSeq([i \in DOMAIN field |-> i], LAMBDA i : field[i] \in CharSet(" ,:"))
      Name(n) == SubSeq(field, (IF n = 1 THEN 0 ELSE ends[n - 1]) + 1, ends[n] - 1)
      First(tags) == CHOOSE k \in tags : \A j \in tags : k <= j
  IN  IF \E n \in DOMAIN ends : FieldsNamed(Name(n)) = {} THEN {}
      ELSE {FieldTags[First(FieldsNamed(Name(n)))] : n \in DOMAIN ends}

(* A word as Pattern::create takes it: a machine that accepts everything is  *)
(* known for what it is.                                                    *)
Term(word) ==
  LET pattern == Translate(word)
  IN  IF \A i \in DOMAIN pattern : pattern[i] = MatchN THEN AnyTerm ELSE pattern

(* tryParseDecimal of a 64-bit number.  The check against the largest one    *)
(* comes after the sum, which has wrapped by then.                          *)
Decimal(digits) == FoldLeft(LAMBDA n, d : (10 * n + (d - 48)) % IdModulus, 0, digits)

-----------------------------------------------------------------------------
Init ==
  /\ \/ /\ asked \in Asked /\ text = <<>>
     \/ /\ asked = Nothing /\ text \in RawTexts
  /\ phase = "reading" /\ exits = <<>>
  /\ zgramIterators = <<>> /\ adjacencies = <<>> /\ adjacencyGroups = <<>>
  /\ query = Nothing /\ ok = TRUE

-----------------------------------------------------------------------------
(* How the queries of Asked are written, and what they mean.                *)

FieldSpecification(fields, separator) ==
  LET named == SelectSeq(FieldTags, LAMBDA f : f \in fields)
  IN  FlattenSeq([n \in DOMAIN named |->
        (IF n = 1 THEN <<>> ELSE separator) \o Chars(named[n])]) \o Chars(":")

Escape(t) ==
  FlattenSeq([i \in DOMAIN t |->
    IF t[i] \in {Backslash, Code["\""]} THEN <<Backslash, t[i]>> ELSE <<t[i]>>])

Spaced(words) ==
  FlattenSeq([n \in DOMAIN words |-> (IF n = 1 THEN <<>> ELSE <<Space>>) \o words[n]])

WrittenWords(q) ==
  CASE q.style = "adjacent" -> FlattenSeq(q.words)
    [] q.style = "quoted" -> Chars("\"") \o Spaced(q.words) \o Chars("\"")
    [] q.style = "tilded" -> Chars("~") \o Spaced(q.words) \o Chars("~")

(* The rules of the grammar, from the one that binds least.                 *)
Binding(q) == CASE q.op = "or" -> 2 [] q.op = "and" -> 3 [] q.op = "implied" -> 4
                [] q.op = "not" -> 5 [] OTHER -> 6
Between(op) == CASE op = "or" -> Chars(" or ") [] op = "and" -> Chars(" and ")
                 [] op = "implied" -> Chars(" ")

RECURSIVE Written(_, _)
Written(q, level) ==
  IF Binding(q) < level THEN Chars("(") \o Written(q, 0) \o Chars(")")
  ELSE CASE q.op = "adjacency" ->
              FieldSpecification(q.fields, q.separator)
              \o (IF q.left THEN Chars("^") ELSE <<>>) \o WrittenWords(q)
              \o (IF q.right THEN Chars("$") ELSE <<>>)
         [] q.op = "literally" ->
              Chars("instance:^literally(\"") \o Escape(q.text) \o Chars("\")$")
         [] q.op = "hasreaction" ->
              Chars("hasreaction(\"") \o Escape(q.reaction) \o Chars("\")")
         [] q.op = "zgramid" -> Chars("zgramid(") \o Chars(q.id) \o Chars(")")
         [] q.op = "not" -> Chars("not ") \o Written(q.child, Binding(q))
         [] OTHER -> Written(q.left, Binding(q)) \o Between(q.op)
                     \o Written(q.right, Binding(q) + 1)

MatchesWords(q, words) ==
  \E at \in [DOMAIN q.words -> DOMAIN words] :
    /\ \A n \in DOMAIN at : Means(Translate(q.words[n]), words[at[n]])
    /\ \A n \in DOMAIN at \ {1} :
         at[n] - at[n - 1] \in 1..(IF q.style = "tilded" THEN NearMargin ELSE 1)
    /\ q.left => at[1] = 1
    /\ q.right => at[Len(q.words)] = Len(words)

RECURSIVE Matches(_, _)
Matches(q, zg) ==
  CASE q.op = "adjacency" ->
         \E f \in q.fields : LET words == Split(zg.text[f])
                             IN  IF q.words = <<>> THEN words = <<>> ELSE MatchesWords(q, words)
    [] q.op = "literally" -> zg.text["instance"] = q.text
    [] q.op = "hasreaction" -> q.reaction \in zg.reactions
    [] q.op = "zgramid" -> zg.id = q.id
    [] q.op \in {"and", "implied"} -> Matches(q.left, zg) /\ Matches(q.right, zg)
    [] q.op = "or" -> Matches(q.left, zg) \/ Matches(q.right, zg)
    [] q.op = "not" -> ~Matches(q.child, zg)

(* What an iterator finds; the iterators themselves are in Search.          *)
RECURSIVE MatchesAt(_, _, _), FieldsOf(_)
MatchesAt(it, words, i) ==
  CASE it.op = "anyword" -> TRUE
    [] it.op = "pattern" -> Means(it.pattern, words[i])
    [] it.op = "anchored" -> /\ MatchesAt(it.child, words, i)
                             /\ it.left => i = 1
                             /\ it.right => i = Len(words)

FieldsOf(it) == IF it.op = "anchored" THEN FieldsOf(it.child) ELSE it.fields

Adjacent(children, margin, zg) ==
  \E f \in FieldsOf(children[1]) :
    LET words == Split(zg.text[f])
    IN  \E at \in [DOMAIN children -> DOMAIN words] :
          /\ \A n \in DOMAIN at : MatchesAt(children[n], words, at[n])
          /\ \A n \in DOMAIN at \ {1} : at[n] - at[n - 1] \in 1..margin

RECURSIVE Denotes(_, _)
Denotes(it, zg) ==
  CASE it.op = "popornot" -> \/ \E f \in it.populated : Split(zg.text[f]) # <<>>
                             \/ \E f \in it.unpopulated : Split(zg.text[f]) = <<>>
    [] it.op = "wordadaptor" -> Adjacent(<<it.child>>, 1, zg)
    [] it.op = "near" -> Adjacent(it.children, it.margin, zg)
    [] it.op = "havingreaction" -> it.reaction \in zg.reactions
    [] it.op = "zgramid" -> Decimal(Chars(zg.id)) = it.id
    [] it.op = "and" -> \A n \in DOMAIN it.children : Denotes(it.children[n], zg)
    [] it.op = "or" -> \E n \in DOMAIN it.children : Denotes(it.children[n], zg)
    [] it.op = "not" -> ~Denotes(it.child, zg)

-----------------------------------------------------------------------------
(* parse *)

Raw == Trim(IF asked = Nothing THEN text ELSE Written(asked, 0))

ReadEmpty(emptyMeansEverything) ==
  LET fields == IF emptyMeansEverything THEN AllFields ELSE {}
  IN  /\ phase = "reading" /\ Raw = <<>>
      /\ query' = PopOrNot(fields, fields)
      /\ phase' = "done"
      /\ UNCHANGED <<asked, text, exits, stacks, ok>>

ReadText(t) ==
  \E tokens \in {Tokens(t)} : \E tree \in {Query(tokens)} :
    /\ phase' = IF BadToken \in Range(tokens) \/ tree.next = 0 THEN "refused" ELSE "walking"
    /\ exits' = IF phase' = "walking" THEN tree.exits ELSE <<>>
    /\ text' = t

Read ==
  /\ phase = "reading" /\ Raw # <<>>
  /\ ReadText(Raw)
  /\ UNCHANGED <<asked, stacks, query, ok>>

(* tryGetResult: the failures of the walk, and anything left on the stacks.  *)
Conclude ==
  /\ phase = "walking" /\ exits = <<>>
  /\ ok' = (ok /\ query # Nothing /\ stacks = <<<<>>, <<>>, <<>>>>)
  /\ phase' = IF ok' THEN "done" ELSE "refused"
  /\ UNCHANGED <<asked, text, exits, stacks, query>>

-----------------------------------------------------------------------------
(* MyParseListener: one action for each exit handler                        *)

Leaving(rule) ==
  /\ phase = "walking" /\ exits # <<>> /\ Head(exits).rule = rule
  /\ exits' = Tail(exits)
  /\ UNCHANGED <<asked, text, phase>>

(* A handler that fails returns and leaves what it has not popped; the walk  *)
(* goes on.                                                                 *)
Failing == ok' = FALSE /\ UNCHANGED <<stacks, query>>

Pushing(group) ==
  /\ adjacencyGroups' = Append(adjacencyGroups, group)
  /\ UNCHANGED <<zgramIterators, adjacencies, query, ok>>

Group(margin, words) == [margin |-> margin, words |-> words]

ExitAdjacentWords == Leaving("AdjacentWords") /\ Pushing(Group(1, Head(exits).texts))
ExitQuotedAdjacency == Leaving("QuotedAdjacency") /\ Pushing(Group(1, Head(exits).texts))
ExitTildedAdjacency == Leaving("TildedAdjacency") /\ Pushing(Group(NearMargin, Head(exits).texts))

ExitLiterally ==
  /\ Leaving("Literally")
  /\ Pushing(Group(1, Split(StripQuotesAndUnescape(Head(exits).texts[1]))))

DefaultField == Chars("instance,body:")

ScopedOf(group, exit, mask) ==
  AdjacencyCreate([fields |-> mask, left |-> exit.left, right |-> exit.right,
                   margin |-> group.margin,
                   words |-> [n \in DOMAIN group.words |-> Term(group.words[n])]])

ExitScopedAdjacency ==
  /\ Leaving("ScopedAdjacency")
  /\ LET exit == Head(exits)
         mask == FieldMask(IF exit.field = <<>> THEN DefaultField ELSE exit.field)
     IN  IF mask = {} \/ adjacencyGroups = <<>> THEN Failing
         ELSE /\ adjacencies' = Append(adjacencies, ScopedOf(Last(adjacencyGroups), exit, mask))
              /\ adjacencyGroups' = Front(adjacencyGroups)
              /\ UNCHANGED <<zgramIterators, query, ok>>

ExitAdj ==
  /\ Leaving("Adj")
  /\ IF adjacencies = <<>> THEN Failing
     ELSE /\ zgramIterators' = Append(zgramIterators, Last(adjacencies))
          /\ adjacencies' = Front(adjacencies)
          /\ UNCHANGED <<adjacencyGroups, query, ok>>

(* The top n iterators give way to one.                                     *)
Replacing(n, Make(_)) ==
  LET under == Len(zgramIterators) - n
  IN  IF under < 0 THEN Failing
      ELSE /\ zgramIterators' =
                Append(SubSeq(zgramIterators, 1, under),
                       Make(SubSeq(zgramIterators, under + 1, under + n)))
           /\ UNCHANGED <<adjacencies, adjacencyGroups, query, ok>>

ExitMetadataFnArgsString ==
  /\ Leaving("MetadataFnArgsString")
  /\ Replacing(0, LAMBDA none :
       [op |-> "havingreaction", reaction |-> StripQuotesAndUnescape(Head(exits).texts[1])])

ExitMetadataFnArgsWholeNumber ==
  /\ Leaving("MetadataFnArgsWholeNumber")
  /\ Replacing(0, LAMBDA none : [op |-> "zgramid", id |-> Decimal(Head(exits).texts[1])])

ExitNot == Leaving("Not") /\ Replacing(1, LAMBDA top : NotCreate(top[1]))
ExitImpliedAnd == Leaving("ImpliedAnd") /\ Replacing(2, AndCreate)
ExitAnd == Leaving("And") /\ Replacing(2, AndCreate)
ExitOr == Leaving("Or") /\ Replacing(2, OrCreate)
(* It pops an iterator and pushes it back.                                  *)
ExitParens == Leaving("Parens") /\ Replacing(1, LAMBDA top : top[1])

ExitQuery ==
  /\ Leaving("Query")
  /\ IF zgramIterators = <<>> THEN Failing
     ELSE /\ query' = Last(zgramIterators)
          /\ zgramIterators' = Front(zgramIterators)
          /\ UNCHANGED <<adjacencies, adjacencyGroups, ok>>

Next ==
  \/ \E emptyMeansEverything \in BOOLEAN : ReadEmpty(emptyMeansEverything)
  \/ Read
  \/ ExitAdjacentWords \/ ExitQuotedAdjacency \/ ExitTildedAdjacency \/ ExitLiterally
  \/ ExitScopedAdjacency \/ ExitAdj
  \/ ExitMetadataFnArgsString \/ ExitMetadataFnArgsWholeNumber
  \/ ExitNot \/ ExitImpliedAnd \/ ExitAnd \/ ExitOr \/ ExitParens
  \/ ExitQuery \/ Conclude

Spec == Init /\ [][Next]_vars

-----------------------------------------------------------------------------
(* Properties *)

(* A query, written with no more parentheses than the grammar needs, is      *)
(* taken and finds what it means: the levels of the operators, the words    *)
(* and anchors of an adjacency, the order of the stacks and what the create *)
(* functions simplify all come together here.  And whatever text the grammar *)
(* takes, the handlers find on the stacks what they pop, and leave nothing. *)
QueryMeansWhatItSays ==
  /\ ok
  /\ asked.op \notin {"nothing", "literally"} /\ phase \in {"refused", "done"} =>
       phase = "done" /\ \A zg \in Zgrams : Denotes(query, zg) <=> Matches(asked, zg)

(* The front end asks for an instance by literally(), escaping no more than  *)
(* quotes and backslashes; the query is taken and finds that instance.      *)
LiterallyFindsItself ==
  asked.op = "literally" /\ phase \in {"refused", "done"} =>
    /\ phase = "done"
    /\ Denotes(query, [id |-> "0", reactions |-> {},
                       text |-> [f \in AllFields |-> IF f = "instance" THEN asked.text ELSE <<>>]])

(* ZarchiveLexer.g4 allows white space around the names of the fields; the   *)
(* query is about the fields it names.                                      *)
FieldsAreTheOnesNamed ==
  asked.op = "adjacency" /\ phase = "done" =>
    \A zg \in Zgrams : Denotes(query, zg) => Matches(asked, zg)

(* ZarchiveParser.g4: literally() does not match what only looks alike.     *)
LiterallyIsExact ==
  asked.op = "literally" /\ phase = "done" =>
    \A zg \in Zgrams : Denotes(query, zg) => Split(zg.text["instance"]) = Split(asked.text)
=============================================================================
