----------------------------- MODULE AthParser -----------------------------
(* The lexer and the parser of the !~ATH interpreter                          *)
(* (personal/ath/tildeath.js): from characters to tokens, and from tokens to  *)
(* a program.                                                                 *)
EXTENDS AthValues, TLC

CONSTANTS Digit, Letter,   \* characters; "m", "s" and "h" are letters
          Keyword          \* a keyword's characters -> its token type

------------------------------------------------------------------------------
(* The lexer. A source text is a sequence of characters; a token is its type  *)
(* and the span of characters it was read from (line, column and parsed value *)
(* are functions of the span). Tokenize gives the tokens, or an error.        *)

Blank     == {" ", "\n"}
Escapable == {"n", "t", "\\", "\""}

Pair == [s \in {<<"&","&">>, <<"|","|">>, <<"<","<">>, <<">",">">>,
                <<"=","=">>, <<"!","=">>, <<"<","=">>, <<">","=">>} |->
    CASE s = <<"&","&">> -> "&&" [] s = <<"|","|">> -> "||"
      [] s = <<"<","<">> -> "<<" [] s = <<">",">">> -> ">>"
      [] s = <<"=","=">> -> "==" [] s = <<"!","=">> -> "!="
      [] s = <<"<","=">> -> "<=" [] s = <<">","=">> -> ">="]

\* A character that is a token of its own has itself as the type.
Single == {"+","-","*","/","%","<",">","=","!","(",")","{","}","[","]",
           ";",",",".",":","&","|","^","~"}

\* The types after which a minus sign is a subtraction.
EndsOperand == {"IDENTIFIER", "INTEGER", "FLOAT", "STRING", "DURATION",
                "ALIVE", "DEAD", "VOID", ")", "]"}

At(s, p)    == IF p <= Len(s) THEN s[p] ELSE "end of text"
Upto(s, p, q) == SubSeq(s, p, q - 1)
Token(type, p, q) == [type |-> type, from |-> p, upto |-> q]

\* The first position from p on whose character is not in set.
RunEnd(s, p, set) ==
    CHOOSE q \in p .. Len(s) + 1 :
        /\ At(s, q) \notin set
        /\ \A r \in p .. q - 1 : s[r] \in set

RECURSIVE SkipBlank(_, _)
SkipBlank(s, p) ==
    CASE At(s, p) \in Blank -> SkipBlank(s, p + 1)
      [] At(s, p) = "/" /\ At(s, p + 1) = "/" ->
             LET eol == {q \in p .. Len(s) : s[q] = "\n"}
             IN  IF eol = {} THEN Len(s) + 1
                 ELSE SkipBlank(s, CHOOSE q \in eol : \A r \in eol : q <= r)
      [] OTHER -> p

\* The position after the closing quote, 0 if there is none or an escape is
\* unknown.
RECURSIVE StringEnd(_, _)
StringEnd(s, p) ==
    CASE p > Len(s)    -> 0
      [] At(s, p) = "\"" -> p + 1
      [] At(s, p) = "\\" -> IF At(s, p + 1) \in Escapable THEN StringEnd(s, p + 2) ELSE 0
      [] OTHER         -> StringEnd(s, p + 1)

ReadNumber(s, p) ==
    LET d == RunEnd(s, IF s[p] = "-" THEN p + 1 ELSE p, Digit) IN
    IF At(s, d) = "." /\ At(s, d + 1) \in Digit
    THEN Token("FLOAT", p, RunEnd(s, d + 1, Digit))
    ELSE CASE At(s, d) = "m" /\ At(s, d + 1) = "s" -> Token("DURATION", p, d + 2)
           [] At(s, d) = "m" /\ At(s, d + 1) # "s" -> Token("DURATION", p, d + 1)
           [] At(s, d) \in {"s", "h"}              -> Token("DURATION", p, d + 1)
           [] OTHER                                -> Token("INTEGER", p, d)

ReadIdentifier(s, p) ==
    LET q    == RunEnd(s, p, Letter \cup Digit)
        name == Upto(s, p, q)
    IN  Token(IF name \in DOMAIN Keyword THEN Keyword[name] ELSE "IDENTIFIER", p, q)

\* Whether the minus at p starts a number: a digit follows and the token
\* before is not the end of an operand.
StartsNegative(s, p, tokens) ==
    /\ s[p] = "-" /\ At(s, p + 1) \in Digit
    /\ \/ tokens = <<>>
       \/ tokens[Len(tokens)].type \notin EndsOperand

NoToken == Token("error", 0, 0)

NextToken(s, p, tokens) ==
    CASE p + 3 <= Len(s) /\ Upto(s, p, p + 4) = <<"~","A","T","H">> ->
             Token("TILDE_ATH", p, p + 4)
      [] s[p] = "\"" -> LET q == StringEnd(s, p + 1)
                        IN  IF q = 0 THEN NoToken ELSE Token("STRING", p, q)
      [] s[p] \in Digit \/ StartsNegative(s, p, tokens) -> ReadNumber(s, p)
      [] s[p] \in Letter -> ReadIdentifier(s, p)
      [] p < Len(s) /\ <<s[p], At(s, p + 1)>> \in DOMAIN Pair ->
             Token(Pair[<<s[p], At(s, p + 1)>>], p, p + 2)
      [] OTHER -> IF s[p] \in Single THEN Token(s[p], p, p + 1) ELSE NoToken

RECURSIVE TokensFrom(_, _, _)
TokensFrom(s, p, tokens) ==
    LET q == SkipBlank(s, p) IN
    IF q > Len(s) THEN [ok |-> TRUE, tokens |-> tokens]
    ELSE LET t == NextToken(s, q, tokens)
         IN  IF t = NoToken THEN [ok |-> FALSE, tokens |-> tokens]
             ELSE TokensFrom(s, t.upto, Append(tokens, t))

Tokenize(s) == TokensFrom(s, 1, <<>>)

------------------------------------------------------------------------------
(* The recursive-descent parser. A token is a record with its type, and its   *)
(* name or value; a parse gives a node and the position after it, or fails.   *)
(* The mutually recursive functions of the parser are one table here:         *)
(* table[n, k, p] is what the function for n (at level k, where it has        *)
(* levels) makes of the tokens from p on. Statement forms are rules, lists of *)
(* what is read.                                                              *)

\* The words that are tokens of their own, and the other tokens.
Keywords ==
    {"import", "bifurcate", "EXECUTE", "DIE", "THIS", "timer", "process", "connection", "watcher", "BIRTH", "ENTOMB",
     "WITH", "ALIVE", "DEAD", "VOID", "SHOULD", "LEST", "RITE", "BEQUEATH", "ATTEMPT", "SALVAGE", "CONDEMN",
     "AND", "OR", "NOT"}
Symbols ==
    {"TILDE_ATH", "&&", "||", "==", "!=", "<", ">", "<=", ">=", "<<", ">>", "|", "^", "&", "+", "-", "*", "/", "%",
     "~", "!", "=", "(", ")", "[", "]", "{", "}", ",", ".", ":", ";"}

Done(node, pos) == [ok |-> TRUE, node |-> node, pos |-> pos]
Failed          == [ok |-> FALSE, pos |-> 0]

Cur(toks, p)   == IF p <= Len(toks) THEN toks[p] ELSE [t |-> "EOF"]
Is(toks, p, T) == Cur(toks, p).t \in T

\* The parse x, continued with a node and a position made from its own.
Then(x, Make(_, _)) == IF x.ok THEN Make(x.node, x.pos) ELSE Failed

Ident(name)        == [type |-> "Identifier", name |-> name]
EntityIdent(name)  == [type |-> "EntityIdent", name |-> name]
LiteralOf(x)       == [type |-> "Literal", value |-> x]
BinaryOp(op, l, r) == [type |-> "BinaryOp", operator |-> op, left |-> l, right |-> r]
UnaryOp(op, e)     == [type |-> "UnaryOp", operator |-> op, operand |-> e]
NameAt(toks, p)    == IF toks[p].t = "THIS" THEN "THIS" ELSE toks[p].id

------------------------------------------------------------------------------
(* Expressions: a level per function from parseOr down to parseFactor, then   *)
(* parseUnary.                                                                *)

Literals == {"INTEGER", "FLOAT", "STRING", "ALIVE", "DEAD", "VOID"}
Levels == << {"OR"}, {"AND"}, {"==", "!="}, {"<", ">", "<=", ">="}, {"|"}, {"^"},
             {"&"}, {"<<", ">>"}, {"+", "-"}, {"*", "/", "%"} >>
UnaryLevel == Len(Levels) + 1

\* Operators of one level group to the left.
BinaryLevel(table, toks, k, p) ==
    Then(table["expr", k + 1, p], LAMBDA first, q :
    Then(table["operands", k, q], LAMBDA more, r :
         Done(FoldLeft(LAMBDA l, x : BinaryOp(x[1], l, x[2]), first, more), r)))

\* A bug: the right operand is read at the same level.
OperandsToTheRight(table, toks, k, p) ==
    IF ~Is(toks, p, Levels[k]) THEN Done(<<>>, p)
    ELSE Then(table["expr", k, p + 1], LAMBDA e, q : Done(<< <<toks[p].t, e>> >>, q))

\* The loop of a level: operators, each with its right operand.
Operands(table, toks, k, p) ==
    IF ~Is(toks, p, Levels[k]) THEN Done(<<>>, p)
    ELSE Then(table["expr", k + 1, p + 1], LAMBDA e, q :
         Then(table["operands", k, q], LAMBDA more, r : Done(<< <<toks[p].t, e>> >> \o more, r)))

Unaries(table, toks, p) ==
    IF Is(toks, p, {"NOT", "-", "~"})
    THEN Then(table["expr", UnaryLevel, p + 1], LAMBDA e, q : Done(UnaryOp(toks[p].t, e), q))
    ELSE Then(table["primary", 0, p], LAMBDA e, q :
         Then(table["suffixes", 0, q], LAMBDA more, r :
              Done(FoldLeft(LAMBDA x, s : ((IF s.type = "CallExpr" THEN "callee" ELSE "obj") :> x) @@ s, e, more), r)))

\* One of [index], .DIE(), .member and (arguments), without what it is of.
Suffix(table, toks, p) ==
    CASE Is(toks, p, {"["}) ->
             Then(table["expr", 1, p + 1], LAMBDA i, q :
                  IF Is(toks, q, {"]"}) THEN Done([type |-> "IndexExpr", index |-> i], q + 1) ELSE Failed)
      [] Is(toks, p, {"."}) ->
             CASE Is(toks, p + 1, {"IDENTIFIER"}) -> Done([type |-> "MemberExpr", member |-> toks[p + 1].id], p + 2)
               [] Is(toks, p + 1, {"DIE"}) /\ Is(toks, p + 2, {"("}) /\ Is(toks, p + 3, {")"}) ->
                      Done([type |-> "DieCall"], p + 4)
               [] OTHER -> Failed
      [] OTHER -> Then(table["list", 0, p + 1], LAMBDA a, q : Done([type |-> "CallExpr", args |-> a], q))

Postfixes(table, toks, p) ==
    IF ~Is(toks, p, {"[", ".", "("}) THEN Done(<<>>, p)
    ELSE Then(Suffix(table, toks, p), LAMBDA s, q :
         Then(table["suffixes", 0, q], LAMBDA more, r : Done(<<s>> \o more, r)))

Primary(table, toks, p) ==
    CASE Is(toks, p, Literals) -> Done(LiteralOf(toks[p].lit), p + 1)
      [] Is(toks, p, {"THIS", "IDENTIFIER"}) -> Done(Ident(NameAt(toks, p)), p + 1)
      [] Is(toks, p, {"("}) ->
             Then(table["expr", 1, p + 1], LAMBDA e, q : IF Is(toks, q, {")"}) THEN Done(e, q + 1) ELSE Failed)
      [] Is(toks, p, {"["}) ->
             Then(table["list", 1, p + 1], LAMBDA a, q : Done([type |-> "ArrayLiteral", elements |-> a], q))
      [] Is(toks, p, {"{"}) ->
             Then(table["entries", 0, p + 1], LAMBDA m, q : Done([type |-> "MapLiteral", entries |-> m], q))
      [] OTHER -> Failed

\* Expressions up to the closer: arguments (k = 0), or the elements of an
\* array (k = 1), where a comma may stand before the closer.
List(table, toks, k, p) ==
    IF Is(toks, p, {<<")", "]">>[k + 1]}) THEN Done(<<>>, p + 1) ELSE table["items", k, p]

Items(table, toks, k, p) ==
    Then(table["expr", 1, p], LAMBDA e, q :
         CASE Is(toks, q, {<<")", "]">>[k + 1]}) -> Done(<<e>>, q + 1)
           [] Is(toks, q, {","}) ->
                  Then(table[IF k = 1 THEN "list" ELSE "items", k, q + 1], LAMBDA more, r : Done(<<e>> \o more, r))
           [] OTHER -> Failed)

Entries(table, toks, p) ==
    CASE Is(toks, p, {"}"}) -> Done(<<>>, p + 1)
      [] Is(toks, p, {"IDENTIFIER", "STRING"}) /\ Is(toks, p + 1, {":"}) ->
             LET key == IF toks[p].t = "STRING" THEN toks[p].lit.v ELSE <<toks[p].id>>
             IN  Then(table["expr", 1, p + 2], LAMBDA e, q :
                      CASE Is(toks, q, {"}"}) -> Done(<< <<key, e>> >>, q + 1)
                        [] Is(toks, q, {","}) ->
                               Then(table["entries", 0, q + 1], LAMBDA more, r : Done(<< <<key, e>> >> \o more, r))
                        [] OTHER -> Failed)
      [] OTHER -> Failed

------------------------------------------------------------------------------
(* What a loop waits for, and what DIE kills. *)

EntityLevels == << "||", "&&" >>
EntityNode   == << "EntityOr", "EntityAnd" >>

\* The composites of an entity expression are listed inside out: one is made
\* of the entities it names and of composites listed before it, given by how
\* far back.
Nodes(x) == IF x.type = "EntityIdent" THEN <<>> ELSE x.nodes
Combined(type, of) ==
    LET lists == [k \in DOMAIN of |-> Nodes(of[k])]
        named == {k \in DOMAIN of : of[k].type = "EntityIdent"}
    IN  [type  |-> "EntityExpr",
         nodes |-> Append(FlattenSeq(lists),
                          [type |-> type, names |-> {of[k].name : k \in named},
                           back |-> {Len(FlattenSeq(SubSeq(lists, k + 1, Len(of)))) + 1 : k \in DOMAIN of \ named}])]

EntityLevel(table, toks, k, p) ==
    Then(table["entity", k + 1, p], LAMBDA first, q :
    Then(table["entities", k, q], LAMBDA more, r :
         Done(FoldLeft(LAMBDA l, x : Combined(EntityNode[k], <<l, x>>), first, more), r)))

Entities(table, toks, k, p) ==
    IF ~Is(toks, p, {EntityLevels[k]}) THEN Done(<<>>, p)
    ELSE Then(table["entity", k + 1, p + 1], LAMBDA e, q :
         Then(table["entities", k, q], LAMBDA more, r : Done(<<e>> \o more, r)))

EntityUnary(table, toks, p) ==
    CASE Is(toks, p, {"!"}) ->
             Then(table["entity", 3, p + 1], LAMBDA e, q : Done(Combined("EntityNot", <<e>>), q))
      [] Is(toks, p, {"("}) ->
             Then(table["entity", 1, p + 1], LAMBDA e, q : IF Is(toks, q, {")"}) THEN Done(e, q + 1) ELSE Failed)
      [] Is(toks, p, {"THIS", "IDENTIFIER"}) -> Done(EntityIdent(NameAt(toks, p)), p + 1)
      [] OTHER -> Failed

\* A target is a list of names, in the order in which the pairs have them.
DieTarget(table, toks, p) ==
    CASE Is(toks, p, {"["}) ->
             Then(table["target", 0, p + 1], LAMBDA l, q :
                  IF ~Is(toks, q, {","}) THEN Failed
                  ELSE Then(table["target", 0, q + 1], LAMBDA r, s :
                            IF Is(toks, s, {"]"}) THEN Done(l \o r, s + 1) ELSE Failed))
      [] Is(toks, p, {"THIS", "IDENTIFIER"}) -> Done(<<NameAt(toks, p)>>, p + 1)
      [] OTHER -> Failed

------------------------------------------------------------------------------
(* The order in which evaluate goes through an expression. *)

\* The steps of an expression: one for each part, once the parts it is made of
\* have their values, which it takes. AND and OR have theirs between the
\* operands, to pass over the second.
RECURSIVE Steps(_)
Steps(e) ==
    LET all(parts) == FlattenSeq([i \in DOMAIN parts |-> Steps(parts[i])])
        last(kind, n) == <<[type |-> kind, takes |-> n]>>
    IN  CASE e.type = "Literal"      -> <<[type |-> e.type, takes |-> 0, value |-> e.value]>>
          [] e.type = "Identifier"   -> <<[type |-> e.type, takes |-> 0, name |-> e.name]>>
          [] e.type = "BinaryOp" /\ e.operator \in {"AND", "OR"} ->
                 Steps(e.left) \o <<[type |-> e.operator, takes |-> 1, skip |-> Len(Steps(e.right))]>> \o Steps(e.right)
          [] e.type = "BinaryOp" /\ e.operator \notin {"AND", "OR"} ->
                 all(<<e.left, e.right>>) \o <<[type |-> e.type, takes |-> 2, operator |-> e.operator]>>
          [] e.type = "UnaryOp"      -> Steps(e.operand) \o <<[type |-> e.type, takes |-> 1, operator |-> e.operator]>>
          [] e.type = "CallExpr"     -> all(<<e.callee>> \o e.args) \o last(e.type, Len(e.args) + 1)
          [] e.type = "IndexExpr"    -> all(<<e.obj, e.index>>) \o last(e.type, 2)
          [] e.type = "MemberExpr"   -> Steps(e.obj) \o <<[type |-> e.type, takes |-> 1, member |-> e.member]>>
          [] e.type = "ArrayLiteral" -> all(e.elements) \o last(e.type, Len(e.elements))
          [] e.type = "MapLiteral"   ->
                 all([i \in DOMAIN e.entries |-> e.entries[i][2]])
                 \o <<[type |-> e.type, takes |-> Len(e.entries), keys |-> [i \in DOMAIN e.entries |-> e.entries[i][1]]]>>
          [] OTHER                   -> last("DieCall", 0)   \* NAME.DIE(), which evaluate does not know
ToDo(e) == [todo |-> Steps(e), vals |-> <<>>]

------------------------------------------------------------------------------
(* Statements *)

Params(table, toks, p) == IF Is(toks, p, {")"}) THEN Done(<<>>, p) ELSE table["names", 0, p]
NameList(table, toks, p) ==
    CASE Is(toks, p, {"IDENTIFIER"}) /\ Is(toks, p + 1, {","}) ->
             Then(table["names", 0, p + 2], LAMBDA more, q : Done(<<toks[p].id>> \o more, q))
      [] Is(toks, p, {"IDENTIFIER"}) /\ ~Is(toks, p + 1, {","}) -> Done(<<toks[p].id>>, p + 1)
      [] OTHER -> Failed

\* LEST SHOULD is a statement in the block that is executed otherwise.
Lest(table, toks, p) ==
    CASE ~Is(toks, p, {"LEST"}) -> Done(<<>>, p)
      [] Is(toks, p, {"LEST"}) /\ Is(toks, p + 1, {"SHOULD"}) ->
             Then(table["executed", 0, p + 1], LAMBDA s, q : Done(<<s>>, q))
      [] Is(toks, p, {"LEST"}) /\ Is(toks, p + 1, {"{"}) ->
             Then(table["block", 0, p + 2], LAMBDA b, q : Done(b, q + 1))
      [] OTHER -> Failed

\* Statements up to a closer, which is left for the rule to consume.
Closer == [program |-> "EOF", body |-> "}", block |-> "}", execute |-> ")"]
Block(table, toks, kind, p) ==
    IF Is(toks, p, {Closer[kind]}) THEN Done(<<>>, p)
    ELSE Then(table[IF kind \in {"block", "execute"} THEN "executed" ELSE "statement", 0, p], LAMBDA s, q :
         Then(table[kind, 0, q], LAMBDA more, r : Done(<<s>> \o more, r)))

\* How one field of a statement is read.
Field(table, toks, how, p) ==
    CASE how = "name"   -> IF Is(toks, p, {"IDENTIFIER"}) THEN Done(toks[p].id, p + 1) ELSE Failed
      [] how = "entity" -> IF Is(toks, p, {"IDENTIFIER", "THIS"}) THEN Done(NameAt(toks, p), p + 1) ELSE Failed
      [] how = "kind"   -> IF Is(toks, p, {"timer", "process", "connection", "watcher"})
                           THEN Done(toks[p].t, p + 1) ELSE Failed
      [] how = "ms"     -> IF Is(toks, p, {"DURATION", "INTEGER"})
                           THEN Done(IF toks[p].t = "DURATION" THEN toks[p].ms ELSE toks[p].lit.v, p + 1)
                           ELSE Failed
      [] how = "maybe"  -> IF Is(toks, p, {";"}) THEN Done(ToDo(LiteralOf(Void)), p)
                           ELSE Then(table["expr", 1, p], LAMBDA e, q : Done(ToDo(e), q))
      [] how = "expression" -> Then(table["expr", 1, p], LAMBDA e, q : Done(ToDo(e), q))
      [] how = "until"      -> table["entity", 1, p]
      [] OTHER              -> table[how, 0, p]

\* A rule is a list of items: a token type to be consumed, or the name of a
\* field and how it is read.
Rule(table, toks, p, items, node) ==
    FoldLeft(LAMBDA sofar, item :
                 Then(sofar, LAMBDA n, q :
                      IF Len(item) = 1
                      THEN IF Is(toks, q, {item[1]}) THEN Done(n, q + 1) ELSE Failed
                      ELSE Then(Field(table, toks, item[2], q), LAMBDA f, r : Done((item[1] :> f) @@ n, r))),
             Done(node, p), items)

Forms ==
    ("bifurcate" :> << <<"entity", "entity">>, <<"[">>, <<"b1", "name">>, <<",">>, <<"b2", "name">>, <<"]">>, <<";">> >>) @@
    ("TILDE_ATH" :> << <<"(">>, <<"until", "until">>, <<")">>, <<"{">>, <<"body", "body">>, <<"}">>,
                       <<"EXECUTE">>, <<"(">>, <<"execute", "execute">>, <<")">>, <<";">> >>) @@
    ("BIRTH"     :> << <<"name", "name">>, <<"WITH">>, <<"value", "expression">>, <<";">> >>) @@
    ("ENTOMB"    :> << <<"name", "name">>, <<"WITH">>, <<"value", "expression">>, <<";">> >>) @@
    ("RITE"      :> << <<"name", "name">>, <<"(">>, <<"params", "params">>, <<")">>, <<"{">>, <<"body", "block">>, <<"}">> >>) @@
    ("SHOULD"    :> << <<"value", "expression">>, <<"{">>, <<"then", "block">>, <<"}">>, <<"else", "lest">> >>) @@
    ("ATTEMPT"   :> << <<"{">>, <<"body", "block">>, <<"}">>, <<"SALVAGE">>, <<"err", "name">>,
                       <<"{">>, <<"salvage", "block">>, <<"}">> >>) @@
    ("CONDEMN"   :> << <<"value", "expression">>, <<";">> >>) @@
    ("BEQUEATH"  :> << <<"value", "maybe">>, <<";">> >>)

Form(table, toks, p) == Rule(table, toks, p + 1, Forms[toks[p].t], [type |-> toks[p].t])

Import(table, toks, p) ==
    Rule(table, toks, p + 1,
         << <<"kind", "kind">>, <<"name", "name">>, <<"(">> >>
         \o IF Is(toks, p + 1, {"timer"}) THEN << <<"ms", "ms">>, <<")">>, <<";">> >>
                                          ELSE << <<"args", "list">>, <<";">> >>,
         [type |-> "import"])

\* What may follow an expression that began a statement: "= value;" makes it
\* an assignment.
AfterExpr(table, toks, e, p, closers) ==
    CASE Is(toks, p, {"="}) ->
             Rule(table, toks, p + 1, << <<"value", "expression">>, <<";">> >>, [type |-> "Assignment", target |-> e])
      [] ~Is(toks, p, {"="}) /\ Is(toks, p, closers) ->
             Done([type |-> "ExprStmt", value |-> ToDo(e)], IF Is(toks, p, {";"}) THEN p + 1 ELSE p)
      [] OTHER -> Failed

\* NAME.DIE(); and THIS.DIE(); kill an entity only as statements of their own.
DieOrExpr(table, toks, p) ==
    Then(table["expr", 1, p], LAMBDA e, q :
         IF e.type # "DieCall" \/ Is(toks, q, {"="}) THEN AfterExpr(table, toks, e, q, {";"})
         ELSE IF e.obj.type = "Identifier"
         THEN IF Is(toks, q, {";"}) THEN Done([type |-> "DieStmt", target |-> <<e.obj.name>>], q + 1) ELSE Failed
         ELSE IF Is(toks, p, {"THIS"}) THEN AfterExpr(table, toks, e, q, {";"}) ELSE Failed)

AnyStatement(table, toks, p) ==
    CASE Is(toks, p, {"import"})             -> Import(table, toks, p)
      [] Is(toks, p, DOMAIN Forms)           -> Form(table, toks, p)
      [] Is(toks, p, {"["})                  ->
             Rule(table, toks, p, << <<"target", "target">>, <<".">>, <<"DIE">>, <<"(">>, <<")">>, <<";">> >>,
                  [type |-> "DieStmt"])
      [] Is(toks, p, {"IDENTIFIER", "THIS"}) -> DieOrExpr(table, toks, p)
      [] OTHER                               -> Failed

\* Inside EXECUTE, rites and the blocks of the expression language: no
\* bifurcation, no DIE statement, and the last semicolon may be missing.
Executed(table, toks, p) ==
    CASE Is(toks, p, {"import"})                   -> Import(table, toks, p)
      [] Is(toks, p, DOMAIN Forms \ {"bifurcate"}) -> Form(table, toks, p)
      [] Is(toks, p, {"VOID"})                     ->
             Done([type |-> "ExprStmt", value |-> ToDo(LiteralOf(Void))],
                  IF Is(toks, p + 1, {";"}) THEN p + 2 ELSE p + 1)
      [] OTHER -> Then(table["expr", 1, p], LAMBDA e, q : AfterExpr(table, toks, e, q, {Cur(toks, q).t}))

------------------------------------------------------------------------------

Nonterminals == {"expr", "operands", "primary", "suffixes", "list", "items", "entries", "entity", "entities", "target",
                 "params", "names", "lest", "program", "body", "block", "execute", "statement", "executed"}

Table(toks) ==
    LET table[n \in Nonterminals, k \in 0 .. UnaryLevel, p \in 1 .. Len(toks) + 1] ==
            CASE n = "expr"      -> IF k = UnaryLevel THEN Unaries(table, toks, p) ELSE BinaryLevel(table, toks, k, p)
              [] n = "operands"  -> Operands(table, toks, k, p)
              [] n = "primary"   -> Primary(table, toks, p)
              [] n = "suffixes"  -> Postfixes(table, toks, p)
              [] n = "list"      -> List(table, toks, k, p)
              [] n = "items"     -> Items(table, toks, k, p)
              [] n = "entries"   -> Entries(table, toks, p)
              [] n = "entity"    -> IF k = 3 THEN EntityUnary(table, toks, p) ELSE EntityLevel(table, toks, k, p)
              [] n = "entities"  -> Entities(table, toks, k, p)
              [] n = "target"    -> DieTarget(table, toks, p)
              [] n = "params"    -> Params(table, toks, p)
              [] n = "names"     -> NameList(table, toks, p)
              [] n = "lest"      -> Lest(table, toks, p)
              [] n = "statement" -> AnyStatement(table, toks, p)
              [] n = "executed"  -> Executed(table, toks, p)
              [] OTHER           -> Block(table, toks, n, p)
    IN  table

Parse(toks)      == Table(toks)["program", 0, 1]
Expression(toks) == Table(toks)["expr", 1, 1]
=============================================================================
