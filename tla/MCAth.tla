------------------------------- MODULE MCAth -------------------------------
(* An instance of Ath for TLC, and the properties of the interpreter. A       *)
(* behaviour either runs one of the programs below, which the parser has      *)
(* read, or is a probe: one input of the lexer, the parser or the operators.  *)
EXTENDS Ath

CONSTANT TextLength   \* bound on the texts the lexer is given

VARIABLE probe
allvars == <<vars, probe>>

Parser == INSTANCE AthParser WITH Digit <- {"1"}, Letter <- {"m", "s"}, Keyword <- (<<"s">> :> "THIS")

------------------------------------------------------------------------------
(* Programs, as the words of their text. *)

Constants == ("0" :> Num(0)) @@ ("1" :> Num(1)) @@ ("2" :> Num(2))
Durations == ("0ms" :> 0) @@ ("1ms" :> 1)

Tok(w) ==
    CASE w = "VOID"             -> [t |-> w, lit |-> Void]
      [] w # "VOID" /\ w \in (Parser!Keywords \cup Parser!Symbols) -> [t |-> w]
      [] w \in DOMAIN Constants -> [t |-> "INTEGER", lit |-> Constants[w]]
      [] w \in DOMAIN Durations -> [t |-> "DURATION", ms |-> Durations[w]]
      [] OTHER                  -> [t |-> "IDENTIFIER", id |-> w]
Read(words) == Parser!Parse([i \in DOMAIN words |-> Tok(words[i])])

Timer(n)        == <<"import", "timer", n, "(", "1ms", ")", ";">>
Split2(e, a, b) == <<"bifurcate", e, "[", a, ",", b, "]", ";">>
Ath2(until, body, after) ==
    <<"TILDE_ATH", "(">> \o until \o <<")", "{">> \o body \o <<"}", "EXECUTE", "(">> \o after \o <<")", ";">>
On(until, after)  == Ath2(until, <<>>, after)
Branch(n, body)   == Ath2(<<n>>, body, <<"VOID", ";">>)
Birth(n, value)   == <<"BIRTH", n, "WITH">> \o value \o <<";">>
Become(n, value)  == <<n, "=">> \o value \o <<";">>
Rite2(n, ps, body) == <<"RITE", n, "(">> \o ps \o <<")", "{">> \o body \o <<"}">>
Dies(n)           == <<n, ".", "DIE", "(", ")", ";">>
Try(body, err, salvage) == <<"ATTEMPT", "{">> \o body \o <<"}", "SALVAGE", err, "{">> \o salvage \o <<"}">>
Utter(n)          == <<"UTTER", "(", n, ")", ";">>
Call(n, arg)      == <<n, "(", arg, ")">>

Pause == Timer("T") \o On(<<"T">>, <<"VOID">>)

Sources == <<
    \* two branches wait, the program for both of them
    Split2("THIS", "L", "R") \o Branch("L", Timer("A") \o On(<<"A">>, Birth("x", <<"1">>)))
        \o Branch("R", Timer("B") \o On(<<"B">>, Become("x", <<"2">>)))
        \o On(<<"L", "&&", "R">>, Utter("x")) \o Dies("THIS"),
    \* a rite that waits, called for a value, before and after an error
    Rite2("later", <<"n">>, Birth("x", <<"n", "+", "1">>) \o Pause \o <<"BEQUEATH", "x", ";">>)
        \o Birth("x", Call("later", "1")) \o Try(Become("y", Call("later", "x")), "e", Become("x", <<"e">>))
        \o Timer("A") \o On(<<"A">>, Utter("x")),
    \* the same rite in two branches
    Rite2("later", <<"n">>, Pause \o <<"BEQUEATH", "n", ";">>) \o Split2("THIS", "L", "R")
        \o Branch("L", Birth("x", Call("later", "1"))) \o Branch("R", Birth("y", Call("later", "2")))
        \o On(<<"R">>, Utter("x")),
    \* errors and returns through rites and ATTEMPT
    Rite2("fail", <<"n">>, Birth("m", <<"n">>) \o Try(<<"SHOULD", "n", "{">> \o <<"BEQUEATH", "m", ";">> \o <<"}">>, "e", <<>>)
                            \o <<"CONDEMN", "m", ";">>)
        \o <<"ENTOMB", "c", "WITH">> \o Call("fail", "1") \o <<";">>
        \o Timer("A") \o On(<<"A">>, Try(Call("fail", "0") \o <<";">>, "e", Try(Become("c", <<"e">>), "f", Utter("f"))))
        \o Birth("d", <<"c">>) \o Become("d", <<"[", "c", ",", "1", "]", "[", "0", "]">>),
    \* a name is given to another timer while a branch waits for the first
    Timer("A") \o Split2("THIS", "L", "R") \o Branch("L", On(<<"A">>, Utter("1"))) \o Timer("A")
        \o On(<<"A", "||", "L">>, <<"VOID">>),
    \* a name is given to a timer that cannot be
    Timer("A") \o Split2("A", "L", "R") \o Branch("L", On(<<"A">>, Utter("1"))) \o <<"import", "timer", "A", "(", "0ms", ")", ";">>,
    \* a branch fails, and the program waits for it; the other one is never written
    Split2("THIS", "L", "R") \o Branch("L", Pause \o On(<<"T">>, <<"CONDEMN", "1", ";">>)) \o On(<<"L">>, Utter("1"))
        \o On(<<"R">>, Utter("2")),
    \* the program fails while a branch waits
    Split2("THIS", "L", "R") \o Branch("L", Pause) \o Timer("B") \o On(<<"B">>, <<"CONDEMN", "1", ";">>),
    \* composites of composites
    Timer("A") \o Timer("B") \o On(<<"(", "A", "&&", "B", ")", "||", "!", "A">>, <<"VOID">>)
        \o Split2("THIS", "L", "R") \o Branch("L", On(<<"A", "&&", "B">>, <<"VOID">>)) \o On(<<"L", "&&", "A">>, <<"VOID">>),
    \* a branch that has branches
    Split2("THIS", "L", "R") \o Branch("L", Split2("L", "P", "Q") \o Branch("P", Pause) \o Dies("Q")) \o On(<<"L">>, Utter("1"))
        \o <<"[", "L", ",", "[", "R", ",", "Z", "]", "]", ".", "DIE", "(", ")", ";">>,
    \* two branches wake at the same death and call a rite each
    Rite2("twice", <<"n">>, Birth("m", <<"n", "*", "2">>) \o Pause \o <<"BEQUEATH", "m", "+", "n", ";">>)
        \o Timer("A") \o Split2("THIS", "L", "R")
        \o Branch("L", On(<<"A">>, Birth("x", Call("twice", "1")) \o Utter("x")))
        \o Branch("R", On(<<"A">>, Birth("y", Call("twice", "2")) \o Utter("y")))
        \o On(<<"L", "&&", "R">>, Utter("x")) \o Dies("THIS"),
    \* every branch of a branch is waited for by name
    Timer("A") \o Split2("THIS", "L", "R") \o Split2("L", "P", "Q") \o Branch("P", On(<<"A">>, Utter("1")))
        \o Branch("Q", On(<<"A">>, Utter("2"))) \o Branch("R", On(<<"P", "||", "Q">>, Utter("1")) \o Timer("B"))
        \o On(<<"(", "P", "&&", "Q", ")", "&&", "R">>, Dies("B")) \o Dies("THIS"),
    \* a timer, or a branch that is never written
    Timer("A") \o Split2("THIS", "L", "R") \o On(<<"A", "||", "R">>, Dies("THIS")),
    \* a name is a branch's and then a timer's
    Split2("THIS", "L", "R") \o Timer("L") \o Branch("L", Utter("1")) \o Branch("R", <<"BEQUEATH", ";">>),
    \* rites called in the middle of expressions, and an error after one
    Rite2("later", <<"n">>, Pause \o <<"BEQUEATH", "n", ";">>)
        \o Birth("x", Call("later", "1") \o <<"+">> \o <<"later", "(", "later", "(", "2", ")", ")">>)
        \o Try(<<"UTTER", "(", "[">> \o Call("later", "x") \o <<",", "y", "]", ")", ";">>, "e",
               Become("x", <<"VOID", "AND">> \o Call("later", "1") \o <<"OR", "x", "AND">> \o Call("later", "e")))
        \o Birth("y", <<"{", "k", ":", "x", ",", "k", ":">> \o Call("later", "2") \o <<"}", ".", "k">>),
    \* a variable is read before and after a rite that another branch waits in
    Rite2("later", <<"n">>, Pause \o <<"BEQUEATH", "n", ";">>) \o Birth("x", <<"1">>) \o Split2("THIS", "L", "R")
        \o Branch("L", Become("x", <<"x", "+">> \o Call("later", "x") \o <<"*", "x">>))
        \o Branch("R", Birth("x", Call("later", "2") \o <<"+", "x">>)) >>

Parsed   == [i \in DOMAIN Sources |-> Read(Sources[i])]
Programs == {Parsed[i].node : i \in DOMAIN Sources}

\* The statements of the programs, with those in their blocks.
BlocksOf(s) ==
    CASE s.type = "SHOULD"    -> {s.then, s.else}
      [] s.type = "TILDE_ATH" -> {s.body, s.execute}
      [] s.type = "RITE"      -> {s.body}
      [] s.type = "ATTEMPT"   -> {s.body, s.salvage}
      [] OTHER                -> {}
RECURSIVE StatementsOf(_)
StatementsOf(b) == UNION {{b[k]} \cup UNION {StatementsOf(c) : c \in BlocksOf(b[k])} : k \in DOMAIN b}
Statements == UNION {StatementsOf(p) : p \in Programs}

ASSUME ProgramsAreRead == \A i \in DOMAIN Sources : Parsed[i].ok

------------------------------------------------------------------------------
(* Probes *)

SeqsUpTo(S, n) == UNION {[1 .. k -> S] : k \in 0 .. n}

Texts == {[k |-> "text", text |-> s] : s \in SeqsUpTo({"1", "-", "m", "s", ".", "=", "\"", ")", "/", " "}, TextLength)}

a1 == Parser!Ident("a")
Depth1 == {a1} \cup {Parser!UnaryOp(op, a1) : op \in {"NOT", "-"}}
          \cup {Parser!BinaryOp(op, a1, a1) : op \in {"OR", "AND", "==", "&", "-", "*"}}
          \cup {[type |-> "IndexExpr", obj |-> a1, index |-> a1], [type |-> "CallExpr", callee |-> a1, args |-> <<a1, a1>>]}
Depth2 == Depth1 \cup {Parser!UnaryOp(op, e) : op \in {"NOT", "-"}, e \in Depth1}
          \cup {Parser!BinaryOp(op, l, r) : op \in {"OR", "AND", "==", "&", "-", "*"}, l \in Depth1, r \in Depth1}
          \cup {[type |-> "IndexExpr", obj |-> o, index |-> i] : o \in Depth1, i \in Depth1}
          \cup {[type |-> "CallExpr", callee |-> a1, args |-> <<e, e>>] : e \in Depth1}
Exprs == {[k |-> "expr", expr |-> e] : e \in Depth2}

Numbers == {[k |-> "numbers", a |-> a, b |-> b] : a \in -9 .. 9, b \in -9 .. 9}
Cuts    == {[k |-> "cut", s |-> s, d |-> d, n |-> n] : s \in SeqsUpTo({"x", "y"}, 5), d \in SeqsUpTo({"x", "y"}, 2), n \in -3 .. 6}

NoProbe == [k |-> "none"]
Idle ==
    /\ names = ("THIS" :> 1)
    /\ objs = <<[Entity("this", {}) EXCEPT !.dead = TRUE]>>
    /\ branches = {}
    /\ scopes = <<[parent |-> 0, vars |-> ("a" :> Num(1)), consts |-> {}]>>
    /\ rites = <<>>
    /\ scope = Global
    /\ tasks = <<[Task(<<>>, 0, 0) EXCEPT !.stack = <<>>, !.status = "done"]>>
    /\ awaited = <<1, 1>>
    /\ outcome = "ended"

MCInit ==
    \/ Init /\ probe = NoProbe
    \/ Idle /\ probe \in Texts \cup Exprs \cup Numbers \cup Cuts
MCNext == Next /\ UNCHANGED probe
MCSpec == MCInit /\ [][MCNext]_allvars /\ Fairness
------------------------------------------------------------------------------
(* Properties of the execution *)

\* A declaration belongs to the scope of its task whatever other branches do
\* meanwhile: "!~ATH uses lexical scoping" (!~ATH spec.md:942).
DeclaresInOwnScope == [][\A i \in DOMAIN tasks : Declare(i) => scope = ScopeOf(tasks[i].stack)]_allvars

\* Who waits for nothing but timers goes on in the end.
RECURSIVE MustDie(_)
MustDie(o) ==
    CASE objs[o].kind = "timer"     -> TRUE
      [] objs[o].kind = "EntityAnd" -> \A p \in objs[o].parts : MustDie(p)
      [] objs[o].kind = "EntityOr"  -> \E p \in objs[o].parts : MustDie(p)
      [] objs[o].kind = "EntityNot" -> TRUE
      [] OTHER                      -> objs[o].dead

Waiting(i) == i \in DOMAIN tasks /\ tasks[i].status = "waiting"
TimersRelease ==
    /\ [](Len(objs) <= MaxEntities /\ Len(tasks) <= MaxTasks)
    /\ \A i \in 1 .. MaxTasks : (Waiting(i) /\ MustDie(tasks[i].on)) ~> ~Waiting(i)

------------------------------------------------------------------------------
(* Properties of the lexer, the parser and the operators *)

Lexed == Parser!Tokenize(probe.text)

\* Every character of a text that is read is in one token, or is a blank or in
\* a comment: numbers, durations and strings take no character of a neighbour.
TokensCoverText ==
    probe.k = "text" /\ Lexed.ok =>
        LET ts   == Lexed.tokens
            from(i) == IF i = 0 THEN 1 ELSE ts[i].upto
            upto(i) == IF i = Len(ts) THEN Len(probe.text) ELSE ts[i + 1].from - 1
            unit(t)  == SelectSeq(SubSeq(probe.text, t.from, t.upto - 1), LAMBDA c : c \notin {"1", "-"})
        IN  /\ \A i \in DOMAIN ts : /\ ts[i].from < ts[i].upto
                                   /\ ts[i].upto <= Len(probe.text) + 1
                                   /\ ts[i].type = "DURATION" => unit(ts[i]) \in {<<"m">>, <<"s">>, <<"m", "s">>}
            /\ \A i \in 0 .. Len(ts) : LET gap == SubSeq(probe.text, from(i), upto(i)) IN
                   \/ \A j \in DOMAIN gap : gap[j] = " "
                   \/ \E j \in 1 .. Len(gap) - 1 : gap[j] = "/" /\ gap[j + 1] = "/" /\ \A l \in 1 .. j - 1 : gap[l] = " "

\* A minus between two operands subtracts: a-1 is never the two tokens a, -1.
MinusSubtracts ==
    probe.k = "text" /\ Lexed.ok =>
        \A i \in 2 .. Len(Lexed.tokens) :
            Lexed.tokens[i - 1].type \in {"INTEGER", "FLOAT", "STRING", "DURATION", "IDENTIFIER", ")"} =>
                \/ Lexed.tokens[i].type \notin {"INTEGER", "FLOAT", "DURATION"}
                \/ probe.text[Lexed.tokens[i].from] # "-"

\* An expression with the fewest brackets that its precedences allow.
LevelOf(e) ==
    CASE e.type = "BinaryOp" -> CHOOSE n \in DOMAIN Parser!Levels : e.operator \in Parser!Levels[n]
      [] e.type = "UnaryOp"  -> Parser!UnaryLevel
      [] OTHER               -> Parser!UnaryLevel + 1
RECURSIVE Written(_, _)
Written(e, level) ==
    LET own == LevelOf(e)
        text ==
            CASE e.type = "BinaryOp"   -> Written(e.left, own) \o <<e.operator>> \o Written(e.right, own + 1)
              [] e.type = "UnaryOp"    -> <<e.operator>> \o Written(e.operand, own)
              [] e.type = "IndexExpr"  -> Written(e.obj, own) \o <<"[">> \o Written(e.index, 1) \o <<"]">>
              [] e.type = "CallExpr"   -> Written(e.callee, own) \o <<"(">> \o Written(e.args[1], 1) \o <<",">>
                                          \o Written(e.args[2], 1) \o <<")">>
              [] e.type = "Identifier" -> <<e.name>>
    IN  IF own < level THEN <<"(">> \o text \o <<")">> ELSE text

\* Reading back what was written gives the expression: precedences, and
\* operators of one level grouping to the left.
ParseInvertsPrint ==
    probe.k = "expr" =>
        LET words == Written(probe.expr, 1)
            read  == Parser!Expression([i \in DOMAIN words |-> Tok(words[i])])
        IN  read.ok /\ read.node = probe.expr /\ read.pos = Len(words) + 1

\* What an expression without rites comes to, by the structure of its text.
RECURSIVE Meaning(_)
Meaning(e) ==
    CASE e.type = "Identifier" -> Lookup(e.name)
      [] e.type = "UnaryOp"    -> LET x == Meaning(e.operand) IN IF IsError(x) THEN Error ELSE Unary(e.operator, x)
      [] e.type = "BinaryOp"   ->
             LET l == Meaning(e.left) r == Meaning(e.right) IN
             CASE IsError(l) -> Error
               [] ~IsError(l) /\ e.operator = "OR"  -> IF isTruthy(l) THEN l ELSE r
               [] ~IsError(l) /\ e.operator = "AND" -> IF isTruthy(l) THEN r ELSE l
               [] OTHER -> IF IsError(r) THEN Error ELSE Binary(e.operator, l, r)
      [] e.type = "IndexExpr"  ->
             LET o == Meaning(e.obj) i == Meaning(e.index) IN IF IsError(o) \/ IsError(i) THEN Error ELSE Index(o, i)
      [] e.type = "CallExpr"   ->
             LET f == Meaning(e.callee) args == [k \in DOMAIN e.args |-> Meaning(e.args[k])]
             IN  IF f.t # "BUILTIN" \/ \E k \in DOMAIN args : IsError(args[k]) THEN Error ELSE CallBuiltin(f.v, args)

RECURSIVE Run(_)
Run(e) == CASE IsValue(e) -> e.vals [] BadStep(e) -> <<Error>> [] OTHER -> Run(Stepped(e))

\* Step by step an expression comes to its meaning: no operand is left over or
\* taken for another's, and what AND and OR pass over is not evaluated.
StepsComeToMeaning == probe.k = "expr" => Run(Parser!ToDo(probe.expr)) = <<Meaning(probe.expr)>>

\* Division truncates and the remainder makes up for it, whatever the signs;
\* the bitwise operators agree with arithmetic.
NumberLaws ==
    probe.k = "numbers" =>
        LET a == probe.a
            b == probe.b
            V(op) == Arithmetic(op, a, b)
        IN  /\ IsError(V("/")) <=> b = 0
            /\ b # 0 => /\ V("/").v * b + V("%").v = a
                        /\ Magnitude(V("%").v) < Magnitude(b)
                        /\ V("%").v # 0 => Sign(V("%").v) = Sign(a)
            /\ V("&").v + V("|").v = a + b
            /\ V("^").v = V("|").v - V("&").v
            /\ Unary("~", Num(a)).v = -a - 1
            /\ b \in 0 .. 1 => Arithmetic(">>", V("<<").v, b).v = a

\* SPLIT and JOIN are each other's inverse, no part has the delimiter in it,
\* and a text that is cut anywhere is the two parts together.
CutLaws ==
    probe.k = "cut" =>
        LET s == probe.s
            d == probe.d
            parts == Split(s, d)
        IN  /\ Join(parts, d) = s
            /\ d # <<>> => \A i \in DOMAIN parts : FirstAt(parts[i], d) = 0
            /\ Slice(s, 0, probe.n) \o Slice(s, probe.n, Len(s)) = s

\* What is written is what is read: no character is lost or taken twice, a
\* minus subtracts, precedences are kept, every step of an expression takes its
\* own operands, and the operators obey arithmetic.
LanguageLaws == TokensCoverText /\ MinusSubtracts /\ ParseInvertsPrint /\ StepsComeToMeaning /\ NumberLaws /\ CutLaws
=============================================================================
