--------------------------------- MODULE Ath ---------------------------------
(* The interpreter of !~ATH (class Interpreter of personal/ath/tildeath.js):  *)
(* the asynchronous execution of one program. Every async call of the code is *)
(* a task here (the main program, and one per branch); a task runs until it   *)
(* waits. Whatever is ready when the event loop turns may go next; a timer    *)
(* fires, or a zero timeout ends, only when nothing is ready. Durations are   *)
(* abstracted: timers fire in any order. Entities, scopes and tasks are       *)
(* numbered as they are created, so that a name that is reused does not       *)
(* confuse two of them.                                                       *)
EXTENDS AthValues, FiniteSets, TLC

CONSTANTS
    Program,    \* the programs to run: a set of sequences of statements
    Statement   \* the statements in them, those of nested blocks included

Simple    == {"this", "timer", "branch"}
Composite == {"EntityAnd", "EntityOr", "EntityNot"}

\* What the parser makes of the blocks in a statement and of what a loop waits
\* for.
WellFormed(s) ==
    /\ "type" \in DOMAIN s
    /\ s.type = "SHOULD" => {"then", "else"} \subseteq DOMAIN s /\ {s.then, s.else} \subseteq Seq(Statement)
    /\ s.type = "RITE" => s.body \in Seq(Statement)
    /\ s.type = "ATTEMPT" => {s.body, s.salvage} \subseteq Seq(Statement)
    /\ s.type = "TILDE_ATH" =>
           /\ {s.body, s.execute} \subseteq Seq(Statement)
           /\ s.until.type # "EntityIdent" =>
                  /\ Len(s.until.nodes) \in Nat \ {0} /\ DOMAIN s.until.nodes = 1 .. Len(s.until.nodes)
                  /\ \A k \in DOMAIN s.until.nodes : s.until.nodes[k].type \in Composite

ASSUME ProgramAssumption == Program \subseteq Seq(Statement) /\ \A s \in Statement : WellFormed(s)

VARIABLES
    names,     \* entities: name -> number of the entity it stands for
    objs,      \* the entities: kind, whether dead, what a composite is made of
    branches,  \* branchEntities: names that bifurcate has made
    scopes,    \* the scopes: parent, variables, which of them are constant
    rites,     \* the rites defined, in order: parameters, body, closure
    scope,     \* currentScope, one for the whole interpreter
    tasks,     \* per task: its stack of frames and what it waits for
    awaited,   \* how many entities and tasks there were when run() began to settle
    outcome    \* "running", "ended" (run resolved) or "failed" (run rejected)
vars == <<names, objs, branches, scopes, rites, scope, tasks, awaited, outcome>>

Main   == 1
Global == 1

(* Frames of a stack, the innermost first:                                    *)
(*   block    statements left to execute; "on" is the entity whose death let  *)
(*            them run, 0 if none did                                         *)
(*   rite     a call: the scope to restore, its own, and the statement that   *)
(*            waits for its value                                             *)
(*   attempt  where a RuntimeError is caught                                  *)
(*   salvage  the block of the error variable: the scope to restore           *)
Frame(stmts, o) == [k |-> "block", rest |-> stmts, on |-> o]
Task(stmts, o, i) == [stack |-> <<Frame(stmts, 0)>>, status |-> "ready", on |-> 0, branch |-> o, by |-> i]
Entity(kind, parts) == [kind |-> kind, dead |-> FALSE, done |-> FALSE, parts |-> parts]

Init ==
    /\ names = [n \in {"THIS"} |-> 1]
    /\ objs = <<Entity("this", {})>>
    /\ branches = {}
    /\ scopes = <<[parent |-> 0, vars |-> <<>>, consts |-> {}]>>
    /\ rites = <<>>
    /\ scope = Global
    /\ \E p \in Program : tasks = <<Task(p, 0, 0)>>
    /\ awaited = <<0, 0>>
    /\ outcome = "running"

------------------------------------------------------------------------------
(* Scope *)

\* The nearest scope outwards from one that has the variable, 0 if none has.
Holder(from, n) ==
    LET holder[s \in 0 .. Len(scopes)] ==
            IF s = 0 \/ n \in DOMAIN scopes[s].vars THEN s ELSE holder[scopes[s].parent]
    IN  holder[from]

WithVar(s, n, value, constant) ==
    [s EXCEPT !.vars = Set(@, n, value), !.consts = IF constant THEN @ \cup {n} ELSE @]
Define(s, n, value, constant) == scopes' = [scopes EXCEPT ![s] = WithVar(@, n, value, constant)]

CanSet(n) == Holder(scope, n) # 0 /\ n \notin scopes[Holder(scope, n)].consts

\* A name that evaluate meets: THIS, a built-in rite or a variable.
Lookup(n) ==
    CASE n = "THIS" -> [t |-> "ENTITY", v |-> 1]
      [] n \in Builtins -> [t |-> "BUILTIN", v |-> n]
      [] n \notin Builtins \cup {"THIS"} ->
             IF Holder(scope, n) = 0 THEN Error ELSE scopes[Holder(scope, n)].vars[n]

(* Expressions. The code awaits every operand and every argument, and another *)
(* task may run, or a rite be called, before the next. The value of a         *)
(* statement is therefore the steps that evaluate has left to do, innermost   *)
(* and leftmost first (AthParser!Steps), and the values it has found and not  *)
(* used yet, the last one last.                                               *)
Literal(x) == [todo |-> <<>>, vals |-> <<x>>]
IsValue(e) == e.todo = <<>>
ValueOf(e) == e.vals[1]

Step(e) == Head(e.todo)
Args(e) == SubSeq(e.vals, Len(e.vals) - Step(e).takes + 1, Len(e.vals))
Kept(e) == SubSeq(e.vals, 1, Len(e.vals) - Step(e).takes)

\* What a step makes of the values it takes; a rite is called by CallRite.
Result(st, args) ==
    CASE st.type = "Literal"      -> st.value
      [] st.type = "Identifier"   -> Lookup(st.name)
      [] st.type = "BinaryOp"     -> Binary(st.operator, args[1], args[2])
      [] st.type = "UnaryOp"      -> Unary(st.operator, args[1])
      [] st.type = "CallExpr"     -> IF args[1].t = "BUILTIN" THEN CallBuiltin(args[1].v, Tail(args)) ELSE Error
      [] st.type = "IndexExpr"    -> Index(args[1], args[2])
      [] st.type = "MemberExpr"   -> IF args[1].t = "MAP" THEN Index(args[1], Str(<<st.member>>)) ELSE Error
      [] st.type = "ArrayLiteral" -> Arr(args)
      [] st.type = "MapLiteral"   ->   \* of two entries with one key the last counts
             Map([k \in Range(st.keys) |-> args[Max({i \in DOMAIN st.keys : st.keys[i] = k})]])
      [] st.type \in {"AND", "OR"} -> args[1]
      [] OTHER                    -> Error   \* NAME.DIE() in an expression

\* The first step has the value x.
Answered(e, x) == [todo |-> Tail(e.todo), vals |-> Append(Kept(e), x)]

\* AND and OR: the left operand is the value, and the right one is passed over,
\* or it is given up for the right one.
Decides(st, x) == isTruthy(x) = (st.type = "OR")
ShortCut(e) ==
    IF Decides(Step(e), Args(e)[1]) THEN [e EXCEPT !.todo = SubSeq(@, Step(e).skip + 2, Len(@))]
    ELSE [todo |-> Tail(e.todo), vals |-> Kept(e)]

Stepped(e) ==
    IF Step(e).type \in {"AND", "OR"} THEN ShortCut(e) ELSE Answered(e, Result(Step(e), Args(e)))

\* A rite is a value by its number.
RiteValue(n) == [t |-> "RITE", v |-> n]
IsRiteCall(e) == ~IsValue(e) /\ Step(e).type = "CallExpr" /\ Args(e)[1].t = "RITE"
Callee(e)     == Args(e)[1].v
Callable(e)   == Callee(e) \in DOMAIN rites /\ Step(e).takes = Len(rites[Callee(e)].params) + 1

------------------------------------------------------------------------------
(* Entities *)

Kill(S) == [o \in DOMAIN objs |-> IF o \in S THEN [objs[o] EXCEPT !.dead = TRUE] ELSE objs[o]]
Named   == {names[n] : n \in DOMAIN names}

\* Bugs the properties must catch: all and any confused.
DueAny(o) ==
    CASE objs[o].kind \in {"EntityAnd", "EntityOr"} -> \E p \in objs[o].parts : objs[p].dead
      [] objs[o].kind = "EntityNot" -> TRUE
      [] OTHER -> FALSE
DueAll(o) ==
    CASE objs[o].kind \in {"EntityAnd", "EntityOr"} -> \A p \in objs[o].parts : objs[p].dead
      [] objs[o].kind = "EntityNot" -> TRUE
      [] OTHER -> FALSE

\* When the promise of a composite resolves. A NOT does not look at its part.
Due(o) ==
    CASE objs[o].kind = "EntityAnd" -> \A p \in objs[o].parts : objs[p].dead
      [] objs[o].kind = "EntityOr"  -> \E p \in objs[o].parts : objs[p].dead
      [] objs[o].kind = "EntityNot" -> TRUE
      [] OTHER -> FALSE

\* The composites of an entity expression are listed inside out (AthParser);
\* the last one, or the named entity, is what it stands for.
Idents(x) == IF x.type = "EntityIdent" THEN {x.name} ELSE UNION {x.nodes[k].names : k \in DOMAIN x.nodes}

\* resolveEntityExpr: the composites of x, as the entities after those there
\* are; and the number of the one that x stands for.
Resolved(x) ==
    LET made(k) == {Len(objs) + j : j \in {j \in 1 .. k - 1 : k - j \in x.nodes[k].back}}
    IN  IF x.type = "EntityIdent" THEN <<>>
        ELSE [k \in 1 .. Len(x.nodes) |->
                  Entity(x.nodes[k].type, {names[n] : n \in x.nodes[k].names} \cup made(k))]
Awaits(x) == IF x.type = "EntityIdent" THEN names[x.name] ELSE Len(objs) + Len(x.nodes)

------------------------------------------------------------------------------
(* The event loop *)

Ready(i) == tasks[i].status = "ready"
CanWake(i) == tasks[i].status = "waiting" /\ objs[tasks[i].on].dead
CompositeDueAtOnce(o) == ~objs[o].dead /\ objs[o].kind \in Composite   \* a bug: a missing await
CompositeDue(o) == ~objs[o].dead /\ Due(o)
Over(i)  == tasks[i].status \in {"done", "failed"}

\* A bug: only the entities are waited for.
SettledEntities ==
    \A o \in 1 .. awaited[1] : objs[o].kind \in Composite \cup {"timer"} => objs[o].dead

\* allSettled of the promises there were: timers and composites settle when
\* they die, branches when their code is over.
Settled ==
    /\ \A o \in 1 .. awaited[1] : objs[o].kind \in Composite \cup {"timer"} => objs[o].dead
    /\ \A i \in 2 .. awaited[2] : Over(i)

Microtask ==
    \/ \E i \in DOMAIN tasks : Ready(i) \/ CanWake(i)
    \/ \E o \in DOMAIN objs : CompositeDue(o)
    \/ tasks[Main].status = "settling" /\ Settled

Top(i)   == Head(tasks[i].stack)
HasStmt(i) == Ready(i) /\ tasks[i].stack # <<>> /\ Top(i).k = "block" /\ Top(i).rest # <<>>
Stmt(i)  == Head(Top(i).rest)
At(i, types) == HasStmt(i) /\ Stmt(i).type \in types
\* The stack once the statement has been taken from it.
Rest(i)  == <<[Top(i) EXCEPT !.rest = Tail(@)]>> \o Tail(tasks[i].stack)
Again(stack, stmt) == <<[Head(stack) EXCEPT !.rest = <<stmt>> \o @]>> \o Tail(stack)

GoOn(i, stack) == tasks' = [tasks EXCEPT ![i].stack = stack]

\* The scope after unwinding the frames fs: the outermost restores last.
Restored(fs) ==
    LET calls == {j \in DOMAIN fs : fs[j].k \in {"rite", "salvage"}}
    IN  IF calls = {} THEN scope ELSE fs[Max(calls)].saved

------------------------------------------------------------------------------
(* The end of a task, and of the program *)

\* run(): the finally kills every entity that has a name.
Finish(how) ==
    /\ outcome' = how
    /\ objs' = Kill(Named)
    /\ tasks' = [tasks EXCEPT ![Main] = [@ EXCEPT !.status = IF how = "ended" THEN "done" ELSE "failed",
                                                  !.stack = <<>>]]
    /\ UNCHANGED <<names, branches, scopes, rites, awaited>>

\* complete(): the branch dies of its own accord. A name that has been
\* given to a timer since has no complete().
CompleteBranch(i, how) ==
    LET o == tasks[i].branch IN
    /\ objs' = IF objs[o].kind = "branch" THEN [objs EXCEPT ![o] = [@ EXCEPT !.dead = TRUE, !.done = TRUE]] ELSE objs
    /\ tasks' = [tasks EXCEPT ![i] = [@ EXCEPT !.status = IF objs[o].kind = "branch" THEN how ELSE "failed",
                                               !.stack = <<>>]]
    /\ UNCHANGED <<names, branches, scopes, rites, awaited, outcome>>

BranchEnd(i) ==
    /\ Ready(i) /\ i # Main /\ tasks[i].stack = <<>>
    /\ CompleteBranch(i, "done")
    /\ UNCHANGED scope

\* The program has been executed to its end: wait for what is pending.
MainEnd ==
    /\ Ready(Main) /\ tasks[Main].stack = <<>>
    /\ awaited' = <<Len(objs), Len(tasks)>>
    /\ tasks' = [tasks EXCEPT ![Main].status = "settling"]
    /\ UNCHANGED <<names, objs, branches, scopes, rites, scope, outcome>>

Settle ==
    /\ tasks[Main].status = "settling" /\ Settled
    /\ Finish("ended")
    /\ UNCHANGED scope

------------------------------------------------------------------------------
(* Errors and returns *)

\* A RuntimeError in task i whose stack is fs: caught by the nearest ATTEMPT,
\* else it ends the task.
Throw(i, fs) ==
    LET catches == {j \in DOMAIN fs : fs[j].k = "attempt"} IN
    IF catches = {}
    THEN /\ scope' = Restored(fs)
         /\ IF i = Main THEN Finish("failed") ELSE CompleteBranch(i, "failed")
    ELSE LET j     == Min(catches)
             saved == Restored(SubSeq(fs, 1, j - 1))
             own   == Len(scopes) + 1
         IN  /\ scopes' = Append(scopes, [parent |-> saved, consts |-> {},
                                          vars |-> (fs[j].err :> Str(<<"message">>))])
             /\ scope' = own
             /\ GoOn(i, <<Frame(fs[j].salvage, 0), [k |-> "salvage", saved |-> saved, own |-> own]>>
                        \o SubSeq(fs, j + 1, Len(fs)))
             /\ UNCHANGED <<names, objs, branches, rites, awaited, outcome>>

Valued == {"BIRTH", "ENTOMB", "Assignment", "ExprStmt", "SHOULD", "CONDEMN", "BEQUEATH"}
\* The next step of an expression throws.
BadStep(e) == ~IsValue(e) /\ IF IsRiteCall(e) THEN ~Callable(e) ELSE IsError(Result(Step(e), Args(e)))

\* What makes a statement throw where it stands.
Fails(s) ==
    CASE s.type = "import"     -> s.name \notin DOMAIN names /\ (s.kind # "timer" \/ s.ms < 1)
      [] s.type = "bifurcate"  -> s.entity \notin DOMAIN names
      [] s.type = "TILDE_ATH"  -> ~(Idents(s.until) \subseteq DOMAIN names)
      [] s.type = "DieStmt"    -> s.target[1] \notin DOMAIN names
      [] s.type = "RITE"       -> FALSE
      [] s.type = "ATTEMPT"    -> FALSE
      [] s.type = "CONDEMN"    -> IsValue(s.value) \/ BadStep(s.value)
      [] s.type = "Assignment" -> BadStep(s.value) \/ (IsValue(s.value) /\ ~CanSet(s.target.name))
      [] OTHER                 -> BadStep(s.value)

\* The statement's value has been found.
Decided(i, types) == At(i, types) /\ IsValue(Stmt(i).value) /\ ~Fails(Stmt(i))

Raise(i) ==
    /\ HasStmt(i) /\ Fails(Stmt(i))
    /\ Throw(i, Rest(i))

\* The frame on top is finished.
FrameEnd(i) ==
    /\ Ready(i) /\ tasks[i].stack # <<>>
    /\ \/ Top(i).k = "block" /\ Top(i).rest = <<>> /\ GoOn(i, Tail(tasks[i].stack)) /\ UNCHANGED scope
       \/ Top(i).k = "attempt" /\ GoOn(i, Tail(tasks[i].stack)) /\ UNCHANGED scope
       \/ Top(i).k = "salvage" /\ GoOn(i, Tail(tasks[i].stack)) /\ scope' = Top(i).saved
       \/ /\ Top(i).k = "rite"      \* no BEQUEATH was reached: the value is VOID
          /\ GoOn(i, Again(Tail(tasks[i].stack), [Top(i).stmt EXCEPT !.value = Answered(@, Void)]))
          /\ scope' = Top(i).saved
    /\ UNCHANGED <<names, objs, branches, scopes, rites, awaited, outcome>>

\* BEQUEATH unwinds to the call it answers, through any ATTEMPT. Outside a
\* rite nothing catches it.
Bequeath(i) ==
    /\ Decided(i, {"BEQUEATH"})
    /\ LET fs    == Rest(i)
           calls == {j \in DOMAIN fs : fs[j].k = "rite"}
       IN  IF calls = {}
           THEN /\ scope' = Restored(fs)
                /\ IF i = Main THEN Finish("failed") ELSE CompleteBranch(i, "failed")
           ELSE LET j == Min(calls) IN
                /\ scope' = fs[j].saved
                /\ GoOn(i, Again(SubSeq(fs, j + 1, Len(fs)),
                                 [fs[j].stmt EXCEPT !.value = Answered(@, ValueOf(Stmt(i).value))]))
                /\ UNCHANGED <<names, objs, branches, scopes, rites, awaited, outcome>>

------------------------------------------------------------------------------
(* Statements of the expression language *)

\* callRite: the call becomes a frame, in a scope inside that of the rite. The
\* expression that it stands in goes on with its value.
CallRite(i) ==
    /\ At(i, Valued) /\ IsRiteCall(Stmt(i).value) /\ Callable(Stmt(i).value)
    /\ LET call == Stmt(i).value
           rite == rites[Callee(call)]
           own  == Len(scopes) + 1
           arg(n) == Args(call)[1 + Max({k \in DOMAIN rite.params : rite.params[k] = n})]
       IN  /\ scopes' = Append(scopes, [parent |-> rite.closure, consts |-> {},
                                        vars |-> [n \in {rite.params[k] : k \in DOMAIN rite.params} |-> arg(n)]])
           /\ scope' = own
           /\ GoOn(i, <<Frame(rite.body, 0), [k |-> "rite", saved |-> scope, own |-> own, stmt |-> Stmt(i)]>> \o Rest(i))
    /\ UNCHANGED <<names, objs, branches, rites, awaited, outcome>>

\* One step of the value of a statement: another task may run after it, and
\* change the scope in which the next one finds its variables.
Evaluate(i) ==
    /\ At(i, Valued) /\ ~Fails(Stmt(i)) /\ ~IsValue(Stmt(i).value) /\ ~IsRiteCall(Stmt(i).value)
    /\ GoOn(i, Again(Rest(i), [Stmt(i) EXCEPT !.value = Stepped(@)]))
    /\ UNCHANGED <<names, objs, branches, scopes, rites, scope, awaited, outcome>>

Declare(i) ==
    /\ Decided(i, {"BIRTH", "ENTOMB"})
    /\ Define(scope, Stmt(i).name, ValueOf(Stmt(i).value), Stmt(i).type = "ENTOMB")
    /\ GoOn(i, Rest(i))
    /\ UNCHANGED <<names, objs, branches, rites, scope, awaited, outcome>>

Assign(i) ==
    /\ Decided(i, {"Assignment"})
    /\ Define(Holder(scope, Stmt(i).target.name), Stmt(i).target.name, ValueOf(Stmt(i).value), FALSE)
    /\ GoOn(i, Rest(i))
    /\ UNCHANGED <<names, objs, branches, rites, scope, awaited, outcome>>

ExprStmt(i) ==
    /\ Decided(i, {"ExprStmt"})
    /\ GoOn(i, Rest(i))
    /\ UNCHANGED <<names, objs, branches, scopes, rites, scope, awaited, outcome>>

Conditional(i) ==
    /\ Decided(i, {"SHOULD"})
    /\ GoOn(i, <<Frame(IF isTruthy(ValueOf(Stmt(i).value)) THEN Stmt(i).then ELSE Stmt(i).else, 0)>> \o Rest(i))
    /\ UNCHANGED <<names, objs, branches, scopes, rites, scope, awaited, outcome>>

DefineRite(i) ==
    /\ At(i, {"RITE"})
    /\ Define(scope, Stmt(i).name, RiteValue(Len(rites) + 1), TRUE)
    /\ rites' = Append(rites, [params |-> Stmt(i).params, body |-> Stmt(i).body, closure |-> scope])
    /\ GoOn(i, Rest(i))
    /\ UNCHANGED <<names, objs, branches, scope, awaited, outcome>>

Attempt(i) ==
    /\ At(i, {"ATTEMPT"})
    /\ GoOn(i, <<Frame(Stmt(i).body, 0), [k |-> "attempt", err |-> Stmt(i).err, salvage |-> Stmt(i).salvage]>> \o Rest(i))
    /\ UNCHANGED <<names, objs, branches, scopes, rites, scope, awaited, outcome>>

------------------------------------------------------------------------------
(* Statements about entities *)

\* The entity that has the name dies before the new one is looked at; a kind
\* the browser does not have, or a duration below 1 ms, throws after that.
Import(i) ==
    /\ At(i, {"import"}) /\ ~Fails(Stmt(i))
    /\ LET s    == Stmt(i)
           good == s.kind = "timer" /\ s.ms >= 1
           old  == IF s.name \in DOMAIN names /\ ~objs[names[s.name]].dead THEN {names[s.name]} ELSE {}
       IN  IF good
           THEN /\ objs' = Append(Kill(old), Entity("timer", {}))
                /\ names' = Set(names, s.name, Len(objs) + 1)
                /\ GoOn(i, Rest(i))
                /\ UNCHANGED <<branches, scopes, rites, scope, awaited, outcome>>
           ELSE IF old # {}   \* the kill; the statement is then one that throws
           THEN /\ objs' = Kill(old)
                /\ GoOn(i, Again(Rest(i), [type |-> "CONDEMN", value |-> Literal(Void)]))
                /\ UNCHANGED <<names, branches, scopes, rites, scope, awaited, outcome>>
           ELSE Throw(i, Rest(i))

\* An entity that already has a branch's name is forgotten, not killed.
Bifurcate(i) ==
    /\ At(i, {"bifurcate"}) /\ ~Fails(Stmt(i))
    /\ objs' = objs \o <<Entity("branch", {}), Entity("branch", {})>>
    /\ names' = Set(Set(names, Stmt(i).b1, Len(objs) + 1), Stmt(i).b2, Len(objs) + 2)
    /\ branches' = branches \cup {Stmt(i).b1, Stmt(i).b2}
    /\ GoOn(i, Rest(i))
    /\ UNCHANGED <<scopes, rites, scope, awaited, outcome>>

\* Entities are killed from left to right; an unknown name throws after the
\* ones before it have died.
Die(i) ==
    /\ At(i, {"DieStmt"}) /\ ~Fails(Stmt(i))
    /\ objs' = Kill({names[Stmt(i).target[1]]})
    /\ GoOn(i, IF Len(Stmt(i).target) = 1 THEN Rest(i)
               ELSE Again(Rest(i), [Stmt(i) EXCEPT !.target = Tail(@)]))
    /\ UNCHANGED <<names, branches, scopes, rites, scope, awaited, outcome>>

IsBranchLoop(s) == s.until.type = "EntityIdent" /\ s.until.name \in branches

\* execBranchMode: the branch runs as a task of its own; the loop goes on
\* after a zero timeout.
StartBranch(i) ==
    /\ At(i, {"TILDE_ATH"}) /\ ~Fails(Stmt(i)) /\ IsBranchLoop(Stmt(i))
    /\ tasks' = Append([tasks EXCEPT ![i] = [@ EXCEPT !.stack = Rest(i), !.status = "yield"]],
                       Task(Stmt(i).body \o Stmt(i).execute, names[Stmt(i).until.name], i))
    /\ UNCHANGED <<names, objs, branches, scopes, rites, scope, awaited, outcome>>

\* execAthLoop: wait for the entity. The body of the loop is never run.
WaitLoop(i) ==
    /\ At(i, {"TILDE_ATH"}) /\ ~Fails(Stmt(i)) /\ ~IsBranchLoop(Stmt(i))
    /\ objs' = objs \o Resolved(Stmt(i).until)
    /\ LET o == Awaits(Stmt(i).until)
       IN  tasks' = [tasks EXCEPT ![i] = [@ EXCEPT !.stack = <<Frame(Stmt(i).execute, o)>> \o Rest(i),
                                                   !.status = "waiting", !.on = o]]
    /\ UNCHANGED <<names, branches, scopes, rites, scope, awaited, outcome>>

Wake(i) ==
    /\ CanWake(i)
    /\ tasks' = [tasks EXCEPT ![i] = [@ EXCEPT !.status = "ready", !.on = 0]]
    /\ UNCHANGED <<names, objs, branches, scopes, rites, scope, awaited, outcome>>

CompositeDies(o) ==
    /\ CompositeDue(o)
    /\ objs' = Kill({o})
    /\ UNCHANGED <<names, branches, scopes, rites, scope, tasks, awaited, outcome>>

Fire(o) ==
    /\ ~Microtask
    /\ objs[o].kind = "timer" /\ ~objs[o].dead
    /\ objs' = Kill({o})
    /\ UNCHANGED <<names, branches, scopes, rites, scope, tasks, awaited, outcome>>

Resume(i) ==
    /\ ~Microtask
    /\ tasks[i].status = "yield"
    /\ tasks' = [tasks EXCEPT ![i].status = "ready"]
    /\ UNCHANGED <<names, objs, branches, scopes, rites, scope, awaited, outcome>>

------------------------------------------------------------------------------

Execute(i) ==
    \/ Raise(i) \/ FrameEnd(i) \/ Bequeath(i) \/ Evaluate(i) \/ CallRite(i) \/ Declare(i) \/ Assign(i)
    \/ ExprStmt(i) \/ Conditional(i) \/ DefineRite(i) \/ Attempt(i) \/ Import(i) \/ Bifurcate(i)
    \/ Die(i) \/ StartBranch(i) \/ WaitLoop(i) \/ BranchEnd(i)

Next ==
    \/ \E i \in DOMAIN tasks : Execute(i) \/ Wake(i) \/ Resume(i)
    \/ \E o \in DOMAIN objs : CompositeDies(o) \/ Fire(o)
    \/ MainEnd \/ Settle

Spec == Init /\ [][Next]_vars

------------------------------------------------------------------------------
(* Properties *)

Statuses == {"ready", "waiting", "yield", "settling", "done", "failed"}
\* The tables refer to each other by numbers that exist, a composite only to
\* entities older than it, and tasks to each other in the order of their start.
TypeOK ==
    /\ \A o \in DOMAIN objs : objs[o].kind \in Simple \cup Composite /\ objs[o].dead \in BOOLEAN
                            /\ \A p \in objs[o].parts : p \in 1 .. o - 1
    /\ \A n \in DOMAIN names : names[n] \in DOMAIN objs /\ objs[names[n]].kind \in Simple
    /\ branches \subseteq DOMAIN names
    /\ \A s \in DOMAIN scopes : scopes[s].parent \in 0 .. s - 1 /\ scopes[s].consts \subseteq DOMAIN scopes[s].vars
    /\ \A r \in DOMAIN rites : rites[r].closure \in DOMAIN scopes
    /\ scope \in DOMAIN scopes
    /\ \A i \in DOMAIN tasks : /\ tasks[i].status \in Statuses /\ tasks[i].by \in 0 .. i - 1
                             /\ tasks[i].on \in 0 .. Len(objs) /\ tasks[i].branch \in 0 .. Len(objs)
    /\ outcome \in {"running", "ended", "failed"}

Dead == {o \in DOMAIN objs : objs[o].dead}

\* The code after ~ATH(X){} is not run before X has died, and no composite dies
\* before the entities that it is made of say so: whatever the order in which
\* timers fire, branches end and names are reused.
NoEarlyExecute ==
    /\ \A i \in DOMAIN tasks : tasks[i].status \in {"ready", "yield", "settling"} =>
           \A j \in DOMAIN tasks[i].stack :
               tasks[i].stack[j].k = "block" => tasks[i].stack[j].on \in Dead \cup {0}
    /\ \A o \in Dead : /\ objs[o].kind = "EntityAnd" => objs[o].parts \subseteq Dead
                       /\ objs[o].kind = "EntityOr"  => objs[o].parts \cap Dead # {}

\* A program that ends well has waited for the branches it started itself and
\* for every timer it imported before it came to its end; a branch that a
\* branch started need not be over.
TopBranchesJoined ==
    outcome = "ended" => \A i \in DOMAIN tasks : tasks[i].by = Main => Over(i) /\ tasks[i].branch \in Dead

\* The scope that the calls and SALVAGE blocks a task is in have entered. An
\* EXECUTE block enters none in the code (execAthLoop): it declares in the scope
\* around it.
ScopeOf(fs) ==
    LET own == {j \in DOMAIN fs : fs[j].k \in {"rite", "salvage"}}
    IN  IF own = {} THEN Global ELSE fs[Min(own)].own

\* While there is one task, currentScope is the scope that callRite or
\* execAttemptSalvage last entered and has not left: errors, returns through
\* several of them, waits and calls in the middle of an expression put it back.
ScopeRestored ==
    Len(tasks) = 1 /\ outcome = "running" => scope = ScopeOf(tasks[Main].stack)

\* A run holds together at every moment: its tables; the branches that the main
\* program started, when it ends well; and the scope, of a program that has
\* started no branch.
RunSound == TypeOK /\ TopBranchesJoined /\ ScopeRestored

\* The interpreter keeps the promises of Death.
Abstract == INSTANCE Death WITH
    made   <- [o \in DOMAIN objs |-> [kind |-> objs[o].kind, parts |-> objs[o].parts]],
    dead   <- Dead,
    waits  <- {<<i, tasks[i].on>> : i \in {j \in DOMAIN tasks : tasks[j].status = "waiting"}}
KeepsDeath == [][Abstract!DeathNext]_(Abstract!deathvars)

------------------------------------------------------------------------------
(* Fairness *)

\* The event loop turns as long as there is something to do; a timer that was
\* set fires, and setTimeout calls back every task that yields.
MaxEntities == 10
MaxTasks    == 5
Fairness ==
    /\ WF_vars(Next)
    /\ \A o \in 1 .. MaxEntities : WF_vars(o \in DOMAIN objs /\ Fire(o))
    /\ \A i \in 1 .. MaxTasks : /\ WF_vars(i \in DOMAIN tasks /\ (Execute(i) \/ Wake(i)))
                                /\ WF_vars(i \in DOMAIN tasks /\ Resume(i))
FairSpec == Spec /\ Fairness
=============================================================================
