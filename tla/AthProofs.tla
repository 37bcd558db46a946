------------------------------- MODULE AthProofs -------------------------------
(* The interpreter of !~ATH runs any set of programs: nothing goes on before  *)
(* what it waits for has died, a run holds together, and every run is one of  *)
(* Death. The properties speak of tasks that run; the invariant Inv speaks of *)
(* those that wait, too.                                                      *)
(*   EntitiesOK, ScopesOK: the tables refer to what exists, and composites to *)
(* entities older than they are.                                              *)
(*   Truthful: a composite that is dead is borne out by its parts.            *)
(*   TasksOK: the code of a loop is on the stack of who waits for its entity, *)
(* marked with it, so that it is marked with a dead one when the task wakes;  *)
(* and under the frame of a call stands the statement that waits for it.      *)
(*   Joined: when run() settles, it waits for all the main program began.     *)
(*   Lexical: not only the scope, but what each frame has saved is the scope  *)
(* of the frames under it, so that errors, returns and ends restore it.       *)
EXTENDS Ath, SequenceTheorems, WellFoundedInduction, TLAPS

------------------------------------------------------------------------------
(* Sequences of anything *)

IsSeq(s) == s \in Seq(Range(s))

LEMMA SeqIsSeq == ASSUME NEW S, NEW s \in Seq(S) PROVE IsSeq(s)
  BY SeqOfRange DEF IsSeq

LEMMA SeqFacts ==
    ASSUME NEW s, IsSeq(s)
    PROVE  Len(s) \in Nat /\ DOMAIN s = 1 .. Len(s)
<1> DEFINE S == Range(s)
<1>1. s \in Seq(S)
  BY DEF IsSeq
<1> HIDE DEF S
<1> QED
  BY <1>1

LEMMA SeqEmpty == IsSeq(<<>>) /\ Len(<<>>) = 0 /\ DOMAIN <<>> = {}
<1>1. <<>> \in Seq({})
  OBVIOUS
<1>2. IsSeq(<<>>)
  BY <1>1, SeqIsSeq
<1> QED
  BY <1>2

LEMMA SeqAppend ==
    ASSUME NEW s, NEW x, IsSeq(s)
    PROVE  /\ IsSeq(Append(s, x))
           /\ Len(Append(s, x)) = Len(s) + 1
           /\ \A k \in 1 .. Len(s) : Append(s, x)[k] = s[k]
           /\ Append(s, x)[Len(s) + 1] = x
<1> DEFINE R == Range(s)
<1>1. s \in Seq(R)
  BY DEF IsSeq
<1> HIDE DEF R
<1> DEFINE S == R \cup {x}
<1>2. x \in S /\ s \in Seq(S)
  BY <1>1, SeqMonotonic
<1> HIDE DEF S
<1>3. Append(s, x) \in Seq(S)
  BY <1>2
<1>4. IsSeq(Append(s, x))
  BY <1>3, SeqIsSeq
<1> QED
  BY <1>2, <1>3, <1>4

\* r is s and after it t.
Concat(r, s, t) ==
    /\ Len(r) = Len(s) + Len(t)
    /\ \A k \in 1 .. Len(s) : r[k] = s[k]
    /\ \A k \in 1 .. Len(t) : r[Len(s) + k] = t[k]

LEMMA SeqConcat ==
    ASSUME NEW S, NEW s \in Seq(S), NEW t \in Seq(S)
    PROVE  s \o t \in Seq(S) /\ Concat(s \o t, s, t)
  BY DEF Concat

LEMMA SeqCons ==
    ASSUME NEW x, NEW t, IsSeq(t)
    PROVE  /\ IsSeq(<<x>> \o t)
           /\ Len(<<x>> \o t) = Len(t) + 1
           /\ (<<x>> \o t)[1] = x
           /\ \A k \in 1 .. Len(t) : (<<x>> \o t)[k + 1] = t[k]
           /\ Head(<<x>> \o t) = x
           /\ Tail(<<x>> \o t) = t
<1> DEFINE T == Range(t)
<1>1. t \in Seq(T)
  BY DEF IsSeq
<1> HIDE DEF T
<1> DEFINE S == {x} \cup T
<1>2. x \in S /\ t \in Seq(S)
  BY <1>1, SeqMonotonic
<1> HIDE DEF S
<1>3. <<x>> \in Seq(S) /\ <<x>> \o t \in Seq(S)
  BY <1>2
<1>4. Len(<<x>> \o t) = Len(t) + 1 /\ (<<x>> \o t)[1] = x
  BY <1>2, <1>3
<1>5. \A k \in 1 .. Len(t) : (<<x>> \o t)[k + 1] = t[k]
  BY <1>2, <1>3
<1>6. <<x>> \o t # <<>>
  BY <1>2, <1>4, EmptySeq
<1>7. Head(<<x>> \o t) = x
  BY <1>3, <1>4, <1>6
<1>8. Tail(<<x>> \o t) \in Seq(S) /\ Len(Tail(<<x>> \o t)) = Len(t)
  BY <1>2, <1>3, <1>4, <1>6, HeadTailProperties
<1>9. \A k \in 1 .. Len(t) : Tail(<<x>> \o t)[k] = t[k]
  BY <1>2, <1>3, <1>4, <1>5, <1>6, <1>8, HeadTailProperties
<1>10. Tail(<<x>> \o t) = t
  BY <1>2, <1>8, <1>9, SeqEqual
<1>11. IsSeq(<<x>> \o t)
  BY <1>3, SeqIsSeq
<1> QED
  BY <1>4, <1>5, <1>7, <1>10, <1>11

LEMMA SeqTail ==
    ASSUME NEW s, IsSeq(s), s # <<>>
    PROVE  /\ IsSeq(Tail(s))
           /\ Len(s) \in Nat \ {0}
           /\ Len(Tail(s)) = Len(s) - 1
           /\ \A k \in 1 .. Len(s) - 1 : Tail(s)[k] = s[k + 1]
           /\ Head(s) = s[1]
<1> DEFINE S == Range(s)
<1>1. s \in Seq(S)
  BY DEF IsSeq
<1> HIDE DEF S
<1>2. Tail(s) \in Seq(S)
  BY <1>1
<1>3. IsSeq(Tail(s))
  BY <1>2, SeqIsSeq
<1> QED
  BY <1>1, <1>2, <1>3, HeadTailProperties

LEMMA SeqSub ==
    ASSUME NEW s, IsSeq(s), NEW a \in 1 .. Len(s) + 1, NEW b \in 0 .. Len(s), a <= b + 1
    PROVE  /\ IsSeq(SubSeq(s, a, b))
           /\ Len(SubSeq(s, a, b)) = b + 1 - a
           /\ \A k \in 1 .. b + 1 - a : SubSeq(s, a, b)[k] = s[a + k - 1]
<1> DEFINE S == Range(s)
<1>1. s \in Seq(S)
  BY DEF IsSeq
<1> HIDE DEF S
<1>2. \A k \in a .. b : s[k] \in S
  BY <1>1
<1>3. Len(s) \in Nat /\ a \in Int /\ b \in Int
  BY <1>1
<1>4. /\ SubSeq(s, a, b) \in Seq(S)
      /\ Len(SubSeq(s, a, b)) = IF a <= b THEN b - a + 1 ELSE 0
      /\ \A k \in 1 .. b - a + 1 : SubSeq(s, a, b)[k] = s[a + k - 1]
  BY <1>2, <1>3, SubSeqProperties
<1>5. IsSeq(SubSeq(s, a, b))
  BY <1>4, SeqIsSeq
<1> QED
  BY <1>3, <1>4, <1>5

Put(s, i, x) == [s EXCEPT ![i] = x]

LEMMA SeqPut ==
    ASSUME NEW s, NEW i, NEW x, IsSeq(s), i \in DOMAIN s
    PROVE  /\ IsSeq(Put(s, i, x))
           /\ Len(Put(s, i, x)) = Len(s)
           /\ DOMAIN Put(s, i, x) = DOMAIN s
           /\ Put(s, i, x)[i] = x
           /\ \A k \in DOMAIN s : k # i => Put(s, i, x)[k] = s[k]
<1> DEFINE R == Range(s)
<1>1. s \in Seq(R)
  BY DEF IsSeq
<1> HIDE DEF R
<1> DEFINE S == R \cup {x}
<1>2. x \in S /\ s \in Seq(S)
  BY <1>1, SeqMonotonic
<1> HIDE DEF S
<1>3. i \in 1 .. Len(s)
  BY <1>2
<1>4. Put(s, i, x) \in Seq(S) /\ Len(Put(s, i, x)) = Len(s)
  BY <1>2, <1>3, ExceptSeq DEF Put
<1>5. IsSeq(Put(s, i, x))
  BY <1>4, SeqIsSeq
<1>6. DOMAIN Put(s, i, x) = DOMAIN s /\ Put(s, i, x)[i] = x /\ \A k \in DOMAIN s : k # i => Put(s, i, x)[k] = s[k]
  BY DEF Put
<1> QED
  BY <1>4, <1>5, <1>6

\* A sequence from its second element on, or from a later one.
Suffix(fs, a, t) ==
    /\ IsSeq(fs) /\ IsSeq(t)
    /\ a \in 0 .. Len(fs)
    /\ Len(t) = Len(fs) - a
    /\ \A k \in 1 .. Len(t) : t[k] = fs[a + k]

LEMMA SuffixTail ==
    ASSUME NEW fs, IsSeq(fs), fs # <<>>
    PROVE  Suffix(fs, 1, Tail(fs))
  BY SeqTail, SeqFacts DEF Suffix

LEMMA SuffixCons ==
    ASSUME NEW x, NEW t, IsSeq(t)
    PROVE  Suffix(<<x>> \o t, 1, t) /\ (<<x>> \o t)[1] = x /\ Len(<<x>> \o t) = Len(t) + 1
<1>1. /\ IsSeq(<<x>> \o t) /\ Len(<<x>> \o t) = Len(t) + 1 /\ (<<x>> \o t)[1] = x
      /\ \A k \in 1 .. Len(t) : (<<x>> \o t)[k + 1] = t[k]
  BY SeqCons
<1>2. Len(t) \in Nat
  BY SeqFacts
<1> HIDE DEF IsSeq
<1> QED
  BY <1>1, <1>2 DEF Suffix

LEMMA SuffixSub ==
    ASSUME NEW fs, IsSeq(fs), NEW j \in DOMAIN fs
    PROVE  Suffix(fs, j, SubSeq(fs, j + 1, Len(fs)))
<1>1. Len(fs) \in Nat /\ j \in 1 .. Len(fs)
  BY SeqFacts
<1>2. j + 1 \in 1 .. Len(fs) + 1 /\ Len(fs) \in 0 .. Len(fs) /\ j + 1 <= Len(fs) + 1
  BY <1>1
<1>3. /\ IsSeq(SubSeq(fs, j + 1, Len(fs)))
      /\ Len(SubSeq(fs, j + 1, Len(fs))) = Len(fs) + 1 - (j + 1)
      /\ \A k \in 1 .. Len(fs) + 1 - (j + 1) : SubSeq(fs, j + 1, Len(fs))[k] = fs[j + 1 + k - 1]
  BY <1>2, SeqSub
<1> HIDE DEF IsSeq
<1> QED
  BY <1>1, <1>3 DEF Suffix

LEMMA ConsTwo ==
    ASSUME NEW x, NEW y, NEW t, IsSeq(t)
    PROVE  <<x, y>> \o t = <<x>> \o (<<y>> \o t)
<1> DEFINE R == Range(t)
<1>1. t \in Seq(R)
  BY DEF IsSeq
<1> HIDE DEF R
<1> DEFINE S == R \cup {x, y}
<1>2. x \in S /\ y \in S /\ t \in Seq(S)
  BY <1>1, SeqMonotonic
<1> HIDE DEF S
<1>3. <<x>> \in Seq(S) /\ <<y>> \in Seq(S) /\ <<x, y>> \in Seq(S)
  BY <1>2
<1>4. <<x>> \o (<<y>> \o t) = (<<x>> \o <<y>>) \o t
  BY <1>2, <1>3, ConcatAssociative
<1>5. <<x>> \o <<y>> = <<x, y>>
  <2>1. Len(<<x>> \o <<y>>) = 2 /\ (<<x>> \o <<y>>)[1] = x /\ (<<x>> \o <<y>>)[2] = y
    BY <1>2, <1>3
  <2>2. <<x>> \o <<y>> \in Seq(S)
    BY <1>3
  <2>3. Len(<<x, y>>) = 2 /\ <<x, y>>[1] = x /\ <<x, y>>[2] = y
    OBVIOUS
  <2>4. \A k \in 1 .. 2 : (<<x>> \o <<y>>)[k] = <<x, y>>[k]
    BY <2>1, <2>3
  <2> QED
    BY <1>3, <2>1, <2>2, <2>3, <2>4, SeqEqual
<1> QED
  BY <1>4, <1>5

\* The order of the naturals, as a relation: what WFMin needs to find a least one.
LEMMA LessIsWellFounded == \E R : IsWellFoundedOn(R, Nat) /\ \A x, y \in Nat : x < y => <<x, y>> \in R
<1>1. IsWellFoundedOn(OpToRel(<, Nat), Nat)
  BY NatLessThanWellFounded, Zenon
<1>2. \A x, y \in Nat : x < y => <<x, y>> \in OpToRel(<, Nat)
  BY Zenon DEF OpToRel
<1> QED
  BY <1>1, <1>2, Zenon

\* A set of naturals that is not empty has a least member.
LEMMA LeastOf ==
    ASSUME NEW S \in SUBSET Nat, S # {}
    PROVE  \E i \in S : \A j \in S : i <= j
<1>1. PICK R : IsWellFoundedOn(R, Nat) /\ \A x, y \in Nat : x < y => <<x, y>> \in R
  BY LessIsWellFounded
<1>2. S \subseteq Nat /\ IsWellFoundedOn(R, Nat)
  BY <1>1
<1>3. \E i \in S : \A j \in S : ~ (<<j, i>> \in R)
  BY <1>2, WFMin, Zenon
<1>4. PICK i \in S : \A j \in S : ~ (<<j, i>> \in R)
  BY <1>3
<1>5. ASSUME NEW j \in S PROVE i <= j
  <2>1. ~ (j < i)
    BY <1>1, <1>4
  <2> QED
    BY <1>2, <2>1
<1> QED
  BY <1>5

\* A set of numbers up to n that is not empty has a least and a greatest one.
LEMMA LeastAndGreatest ==
    ASSUME NEW n \in Nat, NEW S \in SUBSET (1 .. n), S # {}
    PROVE  /\ Min(S) \in S /\ \A k \in S : Min(S) <= k
           /\ Max(S) \in S /\ \A k \in S : k <= Max(S)
<1>1. S \in SUBSET Nat
  OBVIOUS
<1>2. \E x \in S : \A y \in S : x <= y
  BY <1>1, LeastOf
<1> DEFINE T == {n - k : k \in S}
<1>3. T \in SUBSET Nat /\ T # {}
  <2>1. \A k \in S : n - k \in Nat
    OBVIOUS
  <2> QED
    BY <2>1
<1>4. \E x \in T : \A y \in T : x <= y
  BY <1>3, LeastOf, Zenon
<1>5. \E m \in S : \A k \in S : m >= k
  <2>0. PICK x \in T : \A y \in T : x <= y
    BY <1>4
  <2>1. PICK m \in S : x = n - m
    BY <2>0
  <2>2. ASSUME NEW k \in S PROVE m >= k
    <3>1. x <= n - k
      BY <2>0
    <3> QED
      BY <1>1, <2>1, <3>1
  <2> QED
    BY <2>2
<1> QED
  BY <1>2, <1>5 DEF Min, Max

------------------------------------------------------------------------------
(* The invariant *)

Code(b) == IsSeq(b) /\ \A k \in DOMAIN b : WellFormed(b[k])

\* Whether a frame brings a scope of its own.
Owns(f) == f.k \in {"rite", "salvage"}

\* A frame, when the entities in D are dead and there are n scopes.
BlockFrame(f, D) == f.k = "block" /\ DOMAIN f = {"k", "rest", "on"} /\ Code(f.rest) /\ f.on \in D \cup {0}
FrameOK(f, D, n) ==
    \/ BlockFrame(f, D)
    \/ f.k = "rite" /\ f.saved \in 1 .. n /\ f.own \in 1 .. n /\ WellFormed(f.stmt) /\ f.stmt.type \in Valued
    \/ f.k = "salvage" /\ f.saved \in 1 .. n /\ f.own \in 1 .. n
    \/ f.k = "attempt" /\ Code(f.salvage)

\* A stack: the block under a call goes on with the statement that called.
StackOK(fs, D, n) ==
    /\ IsSeq(fs)
    /\ \A j \in DOMAIN fs : FrameOK(fs[j], D, n)
    /\ \A j \in DOMAIN fs : fs[j].k = "rite" => j + 1 \in DOMAIN fs /\ fs[j + 1].k = "block"

\* x is the scope of the frames from the j-th on.
IsScope(fs, j, x) ==
    \/ x = Global /\ \A k \in j .. Len(fs) : ~Owns(fs[k])
    \/ \E k \in j .. Len(fs) : Owns(fs[k]) /\ fs[k].own = x /\ \A l \in j .. k - 1 : ~Owns(fs[l])

\* x is the scope of the stack fs, and every frame has saved the scope of the
\* frames under it.
Tracks(x, fs) ==
    /\ IsScope(fs, 1, x)
    /\ \A j \in DOMAIN fs : Owns(fs[j]) => IsScope(fs, j + 1, fs[j].saved)

EntityType == [kind : Simple \cup Composite, dead : BOOLEAN, done : BOOLEAN, parts : SUBSET Nat]
DeadIn(O) == {o \in DOMAIN O : O[o].dead}

EntitiesOK ==
    /\ objs \in Seq(EntityType)
    /\ \A o \in DOMAIN objs : objs[o].parts \subseteq 1 .. o - 1
    /\ \A n \in DOMAIN names : names[n] \in DOMAIN objs /\ objs[names[n]].kind \in Simple
    /\ branches \subseteq DOMAIN names
    /\ \A n \in branches : objs[names[n]].kind \in {"branch", "timer"}

Truthful ==
    \A o \in Dead : /\ objs[o].kind = "EntityAnd" => objs[o].parts \subseteq Dead
                    /\ objs[o].kind = "EntityOr"  => objs[o].parts \cap Dead # {}

ScopesOK ==
    /\ IsSeq(scopes) /\ IsSeq(rites)
    /\ \A s \in DOMAIN scopes : /\ DOMAIN scopes[s] = {"parent", "vars", "consts"}
                               /\ scopes[s].parent \in 0 .. s - 1
                               /\ scopes[s].consts \subseteq DOMAIN scopes[s].vars
    /\ \A r \in DOMAIN rites : rites[r].closure \in DOMAIN scopes /\ Code(rites[r].body)
    /\ scope \in DOMAIN scopes

\* Task number i, among the entities O and n scopes. The code that a task will
\* run when it wakes is on top, marked with what it waits for.
Asleep(t, O, n) ==
    /\ t.on # 0
    /\ IsSeq(t.stack) /\ t.stack # <<>>
    /\ BlockFrame(t.stack[1], {t.on})
    /\ StackOK(Tail(t.stack), DeadIn(O), n)
TaskOK(t, i, O, n) ==
    /\ DOMAIN t = {"stack", "status", "on", "branch", "by"}
    /\ t.status \in Statuses
    /\ t.by \in 0 .. i - 1
    /\ t.on \in 0 .. Len(O)
    /\ t.branch \in 0 .. Len(O)
    /\ i # Main => t.branch # 0 /\ O[t.branch].kind \in {"branch", "timer"}
    /\ t.status = "waiting" => Asleep(t, O, n)
    /\ t.status # "waiting" => StackOK(t.stack, DeadIn(O), n)
TasksOK ==
    /\ IsSeq(tasks) /\ tasks # <<>>
    /\ \A i \in DOMAIN tasks : TaskOK(tasks[i], i, objs, Len(scopes))

Joined ==
    /\ awaited[1] \in 0 .. Len(objs) /\ awaited[2] \in 0 .. Len(tasks)
    /\ outcome \in {"running", "ended", "failed"}
    /\ outcome = "ended" <=> tasks[Main].status = "done"
    /\ tasks[Main].status \in {"settling", "done"} =>
           \A i \in DOMAIN tasks : tasks[i].by = Main => i <= awaited[2] /\ tasks[i].branch <= awaited[1]
    /\ \A i \in DOMAIN tasks :
           i # Main /\ Over(i) /\ objs[tasks[i].branch].kind = "branch" => tasks[i].branch \in Dead
    /\ TopBranchesJoined

Lexical == Len(tasks) = 1 /\ outcome = "running" => Tracks(scope, tasks[Main].stack)

Inv == EntitiesOK /\ Truthful /\ ScopesOK /\ TasksOK /\ Joined /\ Lexical

------------------------------------------------------------------------------
(* Stacks *)

LEMMA FrameMonotonic ==
    ASSUME NEW f, NEW D, NEW E, NEW m \in Nat, NEW n \in Nat, FrameOK(f, D, m), D \subseteq E, m <= n
    PROVE  FrameOK(f, E, n)
  BY DEF FrameOK, BlockFrame

LEMMA StackMonotonic ==
    ASSUME NEW fs, NEW D, NEW E, NEW m \in Nat, NEW n \in Nat, StackOK(fs, D, m), D \subseteq E, m <= n
    PROVE  StackOK(fs, E, n)
  BY FrameMonotonic DEF StackOK

LEMMA StackEmpty ==
    ASSUME NEW D, NEW n
    PROVE  StackOK(<<>>, D, n)
<1>1. IsSeq(<<>>) /\ DOMAIN <<>> = {}
  BY SeqEmpty
<1> QED
  BY <1>1, Zenon DEF StackOK

\* The frames under some of a stack.
LEMMA StackUnder ==
    ASSUME NEW fs, NEW a, NEW t, NEW D, NEW n, Suffix(fs, a, t), StackOK(fs, D, n)
    PROVE  StackOK(t, D, n)
<1>1. /\ Len(t) \in Nat /\ Len(fs) \in Nat /\ DOMAIN t = 1 .. Len(t) /\ DOMAIN fs = 1 .. Len(fs)
      /\ a \in 0 .. Len(fs) /\ Len(t) = Len(fs) - a
      /\ \A k \in 1 .. Len(t) : t[k] = fs[a + k]
  BY SeqFacts DEF Suffix
<1>2. ASSUME NEW j \in DOMAIN t
      PROVE  FrameOK(t[j], D, n) /\ (t[j].k = "rite" => j + 1 \in DOMAIN t /\ t[j + 1].k = "block")
  <2>0. j \in 1 .. Len(t) /\ a + j \in 1 .. Len(fs)
    BY <1>1
  <2>1. a + j \in DOMAIN fs /\ t[j] = fs[a + j]
    BY <1>1, <2>0
  <2>2. FrameOK(fs[a + j], D, n) /\ (fs[a + j].k = "rite" => a + j + 1 \in DOMAIN fs /\ fs[a + j + 1].k = "block")
    BY <2>1 DEF StackOK
  <2>3. ASSUME t[j].k = "rite" PROVE j + 1 \in DOMAIN t /\ t[j + 1].k = "block"
    <3>1. a + j + 1 \in DOMAIN fs /\ fs[a + j + 1].k = "block"
      BY <2>1, <2>2, <2>3
    <3>2. j + 1 \in 1 .. Len(t) /\ a + (j + 1) = a + j + 1
      BY <1>1, <3>1
    <3> QED
      BY <1>1, <3>1, <3>2
  <2> QED
    BY <2>1, <2>2, <2>3
<1> QED
  BY <1>2 DEF StackOK, Suffix

\* A frame on top of a stack.
LEMMA StackPush ==
    ASSUME NEW f, NEW t, NEW D, NEW n, StackOK(t, D, n), FrameOK(f, D, n),
           f.k = "rite" => t # <<>> /\ t[1].k = "block"
    PROVE  StackOK(<<f>> \o t, D, n)
<1> DEFINE fs == <<f>> \o t
<1>1. IsSeq(t)
  BY DEF StackOK
<1>2. IsSeq(fs) /\ Len(fs) = Len(t) + 1 /\ fs[1] = f /\ \A k \in 1 .. Len(t) : fs[k + 1] = t[k]
  BY <1>1, SeqCons
<1>3. Len(t) \in Nat /\ DOMAIN t = 1 .. Len(t) /\ DOMAIN fs = 1 .. Len(t) + 1
  BY <1>1, <1>2, SeqFacts
<1> HIDE DEF fs
<1>4. ASSUME NEW j \in DOMAIN fs
      PROVE  FrameOK(fs[j], D, n) /\ (fs[j].k = "rite" => j + 1 \in DOMAIN fs /\ fs[j + 1].k = "block")
  <2>1. CASE j = 1
    <3>1. ASSUME f.k = "rite" PROVE 1 \in DOMAIN t
      BY <1>1, <1>3, <3>1, SeqTail
    <3> QED
      BY <1>2, <1>3, <2>1, <3>1
  <2>2. CASE j # 1
    <3>1. PICK k \in DOMAIN t : j = k + 1
      <4>1. j - 1 \in DOMAIN t /\ j = (j - 1) + 1
        BY <1>3, <2>2
      <4> QED
        BY <4>1
    <3>2. fs[j] = t[k] /\ FrameOK(t[k], D, n) /\ (t[k].k = "rite" => k + 1 \in DOMAIN t /\ t[k + 1].k = "block")
      BY <1>2, <1>3, <3>1 DEF StackOK
    <3>3. k + 1 \in DOMAIN t => j + 1 \in DOMAIN fs /\ fs[j + 1] = t[k + 1]
      BY <1>2, <1>3, <3>1
    <3> QED
      BY <3>2, <3>3
  <2> QED
    BY <2>1, <2>2
<1>5. StackOK(fs, D, n)
  BY <1>2, <1>4 DEF StackOK
<1> QED
  BY <1>5 DEF fs

\* The frames of a stack from any one on, and its top.
LEMMA ScopeUnder ==
    ASSUME NEW fs, NEW a, NEW t, Suffix(fs, a, t), NEW j \in 1 .. Len(t) + 1, NEW x
    PROVE  IsScope(t, j, x) <=> IsScope(fs, a + j, x)
<1>1. /\ Len(t) \in Nat /\ Len(fs) \in Nat /\ a \in Nat /\ Len(fs) = a + Len(t)
      /\ \A k \in 1 .. Len(t) : t[k] = fs[a + k]
  BY SeqFacts DEF Suffix
<1>2. \A k \in j .. Len(t) : a + k \in a + j .. Len(fs) /\ k \in 1 .. Len(t) /\ fs[a + k] = t[k]
  BY <1>1
<1>3. \A k \in a + j .. Len(fs) : k - a \in j .. Len(t) /\ k = a + (k - a) /\ t[k - a] = fs[k]
  BY <1>1
<1>4. ASSUME IsScope(t, j, x) PROVE IsScope(fs, a + j, x)
  <2>1. CASE x = Global /\ \A k \in j .. Len(t) : ~Owns(t[k])
    <3>1. \A k \in a + j .. Len(fs) : ~Owns(fs[k])
      BY <1>3, <2>1
    <3> QED
      BY <2>1, <3>1 DEF IsScope
  <2>2. CASE \E k \in j .. Len(t) : Owns(t[k]) /\ t[k].own = x /\ \A l \in j .. k - 1 : ~Owns(t[l])
    <3>1. PICK k \in j .. Len(t) : Owns(t[k]) /\ t[k].own = x /\ \A l \in j .. k - 1 : ~Owns(t[l])
      BY <2>2
    <3>2. ASSUME NEW l \in a + j .. a + k - 1 PROVE ~Owns(fs[l])
      <4>1. l - a \in j .. k - 1 /\ l \in a + j .. Len(fs)
        BY <1>1, <3>1, <3>2
      <4> QED
        BY <1>3, <3>1, <4>1
    <3>3. a + k \in a + j .. Len(fs) /\ Owns(fs[a + k]) /\ fs[a + k].own = x
      BY <1>2, <3>1
    <3>4. PICK m \in a + j .. Len(fs) : m = a + k
      BY <3>3
    <3>5. Owns(fs[m]) /\ fs[m].own = x
      BY <3>3, <3>4
    <3>6. ASSUME NEW l \in a + j .. m - 1 PROVE ~Owns(fs[l])
      <4>1. l \in a + j .. a + k - 1
        BY <1>1, <3>4
      <4> QED
        BY <3>2, <4>1
    <3> QED
      BY <3>5, <3>6 DEF IsScope
  <2> QED
    BY <1>4, <2>1, <2>2 DEF IsScope
<1>5. ASSUME IsScope(fs, a + j, x) PROVE IsScope(t, j, x)
  <2>1. CASE x = Global /\ \A k \in a + j .. Len(fs) : ~Owns(fs[k])
    <3>1. \A k \in j .. Len(t) : ~Owns(t[k])
      BY <1>2, <2>1
    <3> QED
      BY <2>1, <3>1 DEF IsScope
  <2>2. CASE \E k \in a + j .. Len(fs) : Owns(fs[k]) /\ fs[k].own = x /\ \A l \in a + j .. k - 1 : ~Owns(fs[l])
    <3>1. PICK k \in a + j .. Len(fs) : Owns(fs[k]) /\ fs[k].own = x /\ \A l \in a + j .. k - 1 : ~Owns(fs[l])
      BY <2>2
    <3>2. ASSUME NEW l \in j .. k - a - 1 PROVE ~Owns(t[l])
      <4>1. a + l \in a + j .. k - 1 /\ l \in j .. Len(t)
        BY <1>1, <3>1, <3>2
      <4> QED
        BY <1>2, <3>1, <4>1
    <3>3. k - a \in j .. Len(t) /\ Owns(t[k - a]) /\ t[k - a].own = x
      BY <1>3, <3>1
    <3> QED
      BY <3>2, <3>3 DEF IsScope
  <2> QED
    BY <1>5, <2>1, <2>2 DEF IsScope
<1> QED
  BY <1>4, <1>5

\* A frame with no scope of its own is in the scope of the ones under it; one
\* that owns a scope is in that.
LEMMA ScopeStep ==
    ASSUME NEW fs, IsSeq(fs), NEW j \in DOMAIN fs, NEW x
    PROVE  /\ ~Owns(fs[j]) => (IsScope(fs, j, x) <=> IsScope(fs, j + 1, x))
           /\ Owns(fs[j]) => (IsScope(fs, j, x) <=> fs[j].own = x)
<1>1. Len(fs) \in Nat /\ j \in 1 .. Len(fs)
  BY SeqFacts
<1>2. ASSUME Owns(fs[j]) PROVE IsScope(fs, j, x) <=> fs[j].own = x
  <2>1. ASSUME fs[j].own = x PROVE IsScope(fs, j, x)
    BY <1>1, <1>2, <2>1 DEF IsScope
  <2>2. ASSUME IsScope(fs, j, x) PROVE fs[j].own = x
    <3>1. j \in j .. Len(fs)
      BY <1>1
    <3>2. PICK k \in j .. Len(fs) : fs[k].own = x /\ \A l \in j .. k - 1 : ~Owns(fs[l])
      BY <1>2, <2>2, <3>1 DEF IsScope
    <3>3. k = j
      <4>1. SUFFICES ASSUME k # j PROVE FALSE
        OBVIOUS
      <4>2. j \in j .. k - 1
        BY <1>1, <4>1
      <4> QED
        BY <1>2, <3>2, <4>2
    <3> QED
      BY <3>2, <3>3
  <2> QED
    BY <2>1, <2>2
<1>3. ASSUME ~Owns(fs[j]) PROVE IsScope(fs, j, x) <=> IsScope(fs, j + 1, x)
  <2>1. \A k \in j .. Len(fs) : k = j \/ k \in j + 1 .. Len(fs)
    BY <1>1
  <2>2. \A k \in j + 1 .. Len(fs) : k \in j .. Len(fs)
    BY <1>1
  <2>3. \A k \in j + 1 .. Len(fs) : \A l \in j .. k - 1 : l = j \/ l \in j + 1 .. k - 1
    BY <1>1
  <2>4. \A k \in j + 1 .. Len(fs) : \A l \in j + 1 .. k - 1 : l \in j .. k - 1
    BY <1>1
  <2>5. ASSUME IsScope(fs, j, x) PROVE IsScope(fs, j + 1, x)
    <3>1. CASE x = Global /\ \A k \in j .. Len(fs) : ~Owns(fs[k])
      BY <2>2, <3>1 DEF IsScope
    <3>2. CASE \E k \in j .. Len(fs) : Owns(fs[k]) /\ fs[k].own = x /\ \A l \in j .. k - 1 : ~Owns(fs[l])
      BY <1>3, <2>1, <2>4, <3>2 DEF IsScope
    <3> QED
      BY <2>5, <3>1, <3>2 DEF IsScope
  <2>6. ASSUME IsScope(fs, j + 1, x) PROVE IsScope(fs, j, x)
    <3>1. CASE x = Global /\ \A k \in j + 1 .. Len(fs) : ~Owns(fs[k])
      BY <1>3, <2>1, <3>1 DEF IsScope
    <3>2. CASE \E k \in j + 1 .. Len(fs) : Owns(fs[k]) /\ fs[k].own = x /\ \A l \in j + 1 .. k - 1 : ~Owns(fs[l])
      BY <1>3, <2>2, <2>3, <3>2 DEF IsScope
    <3> QED
      BY <2>6, <3>1, <3>2 DEF IsScope
  <2> QED
    BY <2>5, <2>6
<1> QED
  BY <1>2, <1>3

\* The property's words for it.
LEMMA ScopeOfIs ==
    ASSUME NEW fs, IsSeq(fs), NEW x, IsScope(fs, 1, x)
    PROVE  ScopeOf(fs) = x
<1> DEFINE own == {j \in DOMAIN fs : fs[j].k \in {"rite", "salvage"}}
<1>1. Len(fs) \in Nat /\ DOMAIN fs = 1 .. Len(fs)
  BY SeqFacts
<1>2. ScopeOf(fs) = IF own = {} THEN Global ELSE fs[Min(own)].own
  BY DEF ScopeOf
<1>3. own \in SUBSET (1 .. Len(fs)) /\ \A j \in 1 .. Len(fs) : j \in own <=> Owns(fs[j])
  BY <1>1 DEF Owns
<1> HIDE DEF own
<1>4. CASE own = {}
  BY <1>2, <1>3, <1>4 DEF IsScope
<1>5. CASE own # {}
  <2>1. Min(own) \in own /\ \A k \in own : Min(own) <= k
    BY <1>1, <1>3, <1>5, LeastAndGreatest
  <2>2. PICK k \in 1 .. Len(fs) : Owns(fs[k]) /\ fs[k].own = x /\ \A l \in 1 .. k - 1 : ~Owns(fs[l])
    BY <1>3, <1>5 DEF IsScope
  <2>3. Min(own) = k
    <3>1. Min(own) <= k /\ Min(own) \in 1 .. Len(fs)
      BY <1>3, <2>1, <2>2
    <3>2. ~(Min(own) \in 1 .. k - 1)
      BY <1>3, <2>1, <2>2
    <3> QED
      BY <1>1, <3>1, <3>2
  <2> QED
    BY <1>2, <1>5, <2>2, <2>3
<1> QED
  BY <1>4, <1>5

LEMMA TracksUnder ==
    ASSUME NEW fs, NEW a, NEW t, Suffix(fs, a, t), NEW x, NEW y, Tracks(x, fs), IsScope(fs, a + 1, y)
    PROVE  Tracks(y, t)
<1>1. /\ Len(t) \in Nat /\ Len(fs) \in Nat /\ a \in Nat /\ Len(fs) = a + Len(t)
      /\ DOMAIN t = 1 .. Len(t) /\ DOMAIN fs = 1 .. Len(fs)
      /\ \A k \in 1 .. Len(t) : t[k] = fs[a + k]
  BY SeqFacts DEF Suffix
<1>2. IsScope(t, 1, y)
  BY <1>1, ScopeUnder
<1>3. ASSUME NEW j \in DOMAIN t, Owns(t[j]) PROVE IsScope(t, j + 1, t[j].saved)
  <2>1. a + j \in DOMAIN fs /\ t[j] = fs[a + j] /\ j + 1 \in 1 .. Len(t) + 1 /\ a + j + 1 = a + (j + 1)
    BY <1>1, <1>3
  <2>2. IsScope(fs, a + j + 1, t[j].saved)
    BY <1>3, <2>1 DEF Tracks
  <2> QED
    BY <2>1, <2>2, ScopeUnder
<1> QED
  BY <1>2, <1>3 DEF Tracks

LEMMA TracksPush ==
    ASSUME NEW f, NEW t, IsSeq(t), NEW x, Tracks(x, t), Owns(f) => f.saved = x
    PROVE  Tracks(IF Owns(f) THEN f.own ELSE x, <<f>> \o t)
<1> DEFINE fs == <<f>> \o t
           y  == IF Owns(f) THEN f.own ELSE x
<1>1. Suffix(fs, 1, t) /\ fs[1] = f /\ Len(fs) = Len(t) + 1
  BY SuffixCons
<1>2. /\ IsSeq(fs) /\ Len(t) \in Nat /\ DOMAIN fs = 1 .. Len(t) + 1 /\ DOMAIN t = 1 .. Len(t) /\ 1 \in DOMAIN fs
      /\ \A k \in 1 .. Len(t) : t[k] = fs[1 + k]
  BY <1>1, SeqFacts DEF Suffix
<1> HIDE DEF fs
<1>3. IsScope(fs, 1 + 1, x)
  BY <1>1, <1>2, ScopeUnder DEF Tracks
<1>4. IsScope(fs, 1, y)
  <2>1. /\ ~Owns(f) => (IsScope(fs, 1, y) <=> IsScope(fs, 1 + 1, y))
        /\ Owns(f) => (IsScope(fs, 1, y) <=> f.own = y)
    BY <1>1, <1>2, ScopeStep
  <2> QED
    BY <1>3, <2>1
<1>5. ASSUME NEW j \in DOMAIN fs, Owns(fs[j]) PROVE IsScope(fs, j + 1, fs[j].saved)
  <2>1. CASE j = 1
    BY <1>1, <1>3, <1>5, <2>1
  <2>2. CASE j # 1
    <3>1. PICK k \in DOMAIN t : j = 1 + k
      <4>1. j - 1 \in DOMAIN t /\ j = 1 + (j - 1)
        BY <1>2, <2>2
      <4> QED
        BY <4>1
    <3>2. t[k] = fs[j] /\ k + 1 \in 1 .. Len(t) + 1 /\ 1 + (k + 1) = j + 1
      BY <1>2, <3>1
    <3>3. IsScope(t, k + 1, fs[j].saved)
      BY <1>5, <3>2 DEF Tracks
    <3>4. IsScope(fs, 1 + (k + 1), fs[j].saved)
      BY <1>1, <3>2, <3>3, ScopeUnder
    <3> QED
      BY <3>2, <3>4
  <2> QED
    BY <2>1, <2>2
<1>6. Tracks(y, fs)
  BY <1>4, <1>5 DEF Tracks
<1> QED
  BY <1>6 DEF fs

\* Taking the top frame off, restoring the scope that it has saved.
LEMMA StackPop ==
    ASSUME NEW fs, NEW D, NEW n, StackOK(fs, D, n), fs # <<>>
    PROVE  /\ StackOK(Tail(fs), D, n)
           /\ FrameOK(fs[1], D, n) /\ Head(fs) = fs[1]
           /\ fs[1].k = "rite" => Tail(fs) # <<>> /\ Tail(fs)[1].k = "block"
<1>1. IsSeq(fs)
  BY DEF StackOK
<1>2. Suffix(fs, 1, Tail(fs))
  BY <1>1, SuffixTail
<1>3. /\ IsSeq(Tail(fs)) /\ Len(fs) \in Nat \ {0} /\ Len(Tail(fs)) = Len(fs) - 1
      /\ \A k \in 1 .. Len(fs) - 1 : Tail(fs)[k] = fs[k + 1]
      /\ Head(fs) = fs[1]
  BY <1>1, SeqTail
<1>4. DOMAIN fs = 1 .. Len(fs) /\ DOMAIN Tail(fs) = 1 .. Len(fs) - 1
  BY <1>1, <1>3, SeqFacts
<1>5. StackOK(Tail(fs), D, n)
  BY <1>2, StackUnder
<1>6. 1 \in DOMAIN fs
  BY <1>3, <1>4
<1>7. ASSUME fs[1].k = "rite" PROVE Tail(fs) # <<>> /\ Tail(fs)[1].k = "block"
  <2>1. 1 + 1 \in DOMAIN fs /\ fs[1 + 1].k = "block"
    BY <1>6, <1>7 DEF StackOK
  <2>2. 1 \in 1 .. Len(fs) - 1
    BY <1>3, <1>4, <2>1
  <2>3. Tail(fs)[1] = fs[1 + 1]
    BY <1>3, <2>2
  <2>4. DOMAIN Tail(fs) # {}
    BY <1>4, <2>2
  <2>5. Tail(fs) # <<>>
    BY <2>4, SeqEmpty
  <2> QED
    BY <2>1, <2>3, <2>5
<1> QED
  BY <1>3, <1>5, <1>6, <1>7 DEF StackOK

LEMMA TracksPop ==
    ASSUME NEW fs, IsSeq(fs), fs # <<>>, NEW x, Tracks(x, fs)
    PROVE  Tracks(IF Owns(fs[1]) THEN fs[1].saved ELSE x, Tail(fs))
<1> DEFINE y == IF Owns(fs[1]) THEN fs[1].saved ELSE x
<1>1. Suffix(fs, 1, Tail(fs)) /\ 1 \in DOMAIN fs
  BY SuffixTail, SeqFacts, SeqTail
<1>2. IsScope(fs, 1 + 1, y)
  <2>1. CASE Owns(fs[1])
    BY <1>1, <2>1 DEF Tracks
  <2>2. CASE ~Owns(fs[1])
    BY <1>1, <2>2, ScopeStep DEF Tracks
  <2> QED
    BY <2>1, <2>2
<1> HIDE DEF y
<1>3. Tracks(y, Tail(fs))
  BY <1>1, <1>2, TracksUnder
<1> QED
  BY <1>3 DEF y

LEMMA ScopeSkip ==
    ASSUME NEW fs, IsSeq(fs), NEW m \in Nat, NEW j \in Nat, m <= j, NEW x, IsScope(fs, m, x),
           \A k \in m .. j - 1 : ~(k <= Len(fs) /\ Owns(fs[k]))
    PROVE  IsScope(fs, j, x)
<1>1. Len(fs) \in Nat
  BY SeqFacts
<1>2. CASE x = Global /\ \A k \in m .. Len(fs) : ~Owns(fs[k])
  <2>1. \A k \in j .. Len(fs) : k \in m .. Len(fs)
    BY <1>1
  <2> QED
    BY <1>2, <2>1 DEF IsScope
<1>3. CASE \E k \in m .. Len(fs) : Owns(fs[k]) /\ fs[k].own = x /\ \A l \in m .. k - 1 : ~Owns(fs[l])
  <2>1. PICK k \in m .. Len(fs) : Owns(fs[k]) /\ fs[k].own = x /\ \A l \in m .. k - 1 : ~Owns(fs[l])
    BY <1>3
  <2>2. k <= Len(fs) /\ ~(k \in m .. j - 1)
    BY <1>1, <2>1
  <2>3. k \in j .. Len(fs)
    BY <1>1, <2>1, <2>2
  <2>4. \A l \in j .. k - 1 : l \in m .. k - 1
    BY <2>3
  <2> QED
    BY <2>1, <2>3, <2>4 DEF IsScope
<1> QED
  BY <1>2, <1>3 DEF IsScope

\* The frames above the j-th: unwound, they leave the scope of the ones from
\* the j-th on.
LEMMA Above ==
    ASSUME NEW fs, IsSeq(fs), NEW j \in DOMAIN fs
    PROVE  /\ IsSeq(SubSeq(fs, 1, j - 1)) /\ DOMAIN SubSeq(fs, 1, j - 1) = 1 .. j - 1
           /\ \A k \in 1 .. j - 1 : SubSeq(fs, 1, j - 1)[k] = fs[k]
<1>1. Len(fs) \in Nat /\ j \in 1 .. Len(fs)
  BY SeqFacts
<1>2. 1 \in 1 .. Len(fs) + 1 /\ j - 1 \in 0 .. Len(fs) /\ 1 <= (j - 1) + 1
  BY <1>1
<1>3. /\ IsSeq(SubSeq(fs, 1, j - 1))
      /\ Len(SubSeq(fs, 1, j - 1)) = (j - 1) + 1 - 1
      /\ \A k \in 1 .. (j - 1) + 1 - 1 : SubSeq(fs, 1, j - 1)[k] = fs[1 + k - 1]
  BY <1>2, SeqSub
<1>4. (j - 1) + 1 - 1 = j - 1 /\ \A k \in 1 .. j - 1 : 1 + k - 1 = k
  BY <1>1
<1> QED
  BY <1>3, <1>4, SeqFacts

LEMMA RestoredScope ==
    ASSUME NEW fs, IsSeq(fs), NEW j \in DOMAIN fs, Tracks(scope, fs)
    PROVE  IsScope(fs, j, Restored(SubSeq(fs, 1, j - 1)))
<1> DEFINE pre   == SubSeq(fs, 1, j - 1)
           calls == {k \in DOMAIN pre : pre[k].k \in {"rite", "salvage"}}
<1>1. Len(fs) \in Nat /\ j \in 1 .. Len(fs) /\ DOMAIN fs = 1 .. Len(fs)
  BY SeqFacts
<1>2. DOMAIN pre = 1 .. j - 1 /\ \A k \in 1 .. j - 1 : pre[k] = fs[k]
  BY Above
<1>3. Restored(pre) = IF calls = {} THEN scope ELSE pre[Max(calls)].saved
  BY DEF Restored
<1>4. calls \in SUBSET (1 .. j - 1) /\ \A k \in 1 .. j - 1 : k \in calls <=> Owns(fs[k])
  BY <1>2 DEF Owns
<1> HIDE DEF pre, calls
<1>5. CASE calls = {}
  <2>1. IsScope(fs, 1, scope) /\ \A k \in 1 .. j - 1 : ~Owns(fs[k])
    BY <1>4, <1>5 DEF Tracks
  <2>2. IsScope(fs, j, scope)
    BY <1>1, <2>1, ScopeSkip
  <2> QED
    BY <1>3, <1>5, <2>2 DEF pre
<1>6. CASE calls # {}
  <2>1. j - 1 \in Nat
    BY <1>1
  <2>2. PICK m \in calls : m = Max(calls) /\ \A k \in calls : k <= m
    BY <1>4, <1>6, <2>1, LeastAndGreatest
  <2>3. m \in 1 .. j - 1 /\ m \in DOMAIN fs /\ Owns(fs[m]) /\ pre[m] = fs[m]
    BY <1>1, <1>2, <1>4, <2>2
  <2>4. IsScope(fs, m + 1, fs[m].saved)
    BY <2>3 DEF Tracks
  <2>5. ASSUME NEW k \in m + 1 .. j - 1 PROVE ~Owns(fs[k])
    <3>1. k \in 1 .. j - 1 /\ ~(k <= m)
      BY <1>1, <2>3
    <3> QED
      BY <1>4, <2>2, <3>1
  <2>6. m + 1 \in Nat /\ j \in Nat /\ m + 1 <= j
    BY <1>1, <2>3
  <2>7. IsScope(fs, j, fs[m].saved)
    BY <2>4, <2>5, <2>6, ScopeSkip
  <2> QED
    BY <1>3, <1>6, <2>2, <2>3, <2>7 DEF pre
<1> QED
  BY <1>5, <1>6

\* What is restored is a scope there is.
LEMMA RestoredIn ==
    ASSUME NEW fs, NEW D, NEW n \in Nat, StackOK(fs, D, n), scope \in 1 .. n
    PROVE  Restored(fs) \in 1 .. n
<1> DEFINE calls == {k \in DOMAIN fs : fs[k].k \in {"rite", "salvage"}}
<1>1. IsSeq(fs) /\ Len(fs) \in Nat /\ DOMAIN fs = 1 .. Len(fs)
  BY SeqFacts DEF StackOK
<1>2. Restored(fs) = IF calls = {} THEN scope ELSE fs[Max(calls)].saved
  BY DEF Restored
<1>3. calls \in SUBSET (1 .. Len(fs)) /\ \A k \in calls : k \in DOMAIN fs /\ fs[k].k \in {"rite", "salvage"}
  BY <1>1
<1> HIDE DEF calls
<1>4. CASE calls # {}
  <2>1. Max(calls) \in calls
    BY <1>1, <1>3, <1>4, LeastAndGreatest
  <2>2. FrameOK(fs[Max(calls)], D, n) /\ fs[Max(calls)].k \in {"rite", "salvage"}
    BY <1>3, <2>1 DEF StackOK
  <2>3. fs[Max(calls)].saved \in 1 .. n
    BY <2>2 DEF FrameOK, BlockFrame
  <2> QED
    BY <1>2, <1>4, <2>3
<1> QED
  BY <1>2, <1>4

LEMMA StackAbove ==
    ASSUME NEW fs, NEW D, NEW n \in Nat, StackOK(fs, D, n), scope \in 1 .. n, NEW j \in DOMAIN fs
    PROVE  Restored(SubSeq(fs, 1, j - 1)) \in 1 .. n
<1> DEFINE pre   == SubSeq(fs, 1, j - 1)
           calls == {k \in DOMAIN pre : pre[k].k \in {"rite", "salvage"}}
<1>1. Len(fs) \in Nat /\ j \in 1 .. Len(fs) /\ DOMAIN fs = 1 .. Len(fs) /\ IsSeq(fs)
  BY SeqFacts DEF StackOK
<1>2. DOMAIN pre = 1 .. j - 1 /\ \A k \in 1 .. j - 1 : pre[k] = fs[k]
  BY <1>1, Above
<1>3. Restored(pre) = IF calls = {} THEN scope ELSE pre[Max(calls)].saved
  BY DEF Restored
<1>4. calls \in SUBSET (1 .. j - 1) /\ \A k \in calls : k \in DOMAIN fs /\ pre[k] = fs[k] /\ fs[k].k \in {"rite", "salvage"}
  BY <1>1, <1>2
<1> HIDE DEF pre, calls
<1>5. CASE calls # {}
  <2>1. j - 1 \in Nat
    BY <1>1
  <2>2. Max(calls) \in calls
    BY <1>4, <1>5, <2>1, LeastAndGreatest
  <2>3. FrameOK(fs[Max(calls)], D, n) /\ fs[Max(calls)].k \in {"rite", "salvage"} /\ pre[Max(calls)] = fs[Max(calls)]
    BY <1>4, <2>2 DEF StackOK
  <2>4. pre[Max(calls)].saved \in 1 .. n
    BY <2>3 DEF FrameOK, BlockFrame
  <2> QED
    BY <1>3, <1>5, <2>4 DEF pre
<1> QED
  BY <1>3, <1>5 DEF pre

------------------------------------------------------------------------------
(* Statements and code *)

LEMMA CodeOf ==
    ASSUME NEW b \in Seq(Statement)
    PROVE  Code(b)
<1>1. IsSeq(b)
  BY SeqIsSeq
<1>2. \A k \in DOMAIN b : b[k] \in Statement
  OBVIOUS
<1> QED
  BY <1>1, <1>2, ProgramAssumption DEF Code

LEMMA CodeEmpty == Code(<<>>)
<1>1. IsSeq(<<>>) /\ DOMAIN <<>> = {}
  BY SeqEmpty
<1> QED
  BY <1>1, Zenon DEF Code

LEMMA CodeTail ==
    ASSUME NEW b, Code(b), b # <<>>
    PROVE  Code(Tail(b)) /\ WellFormed(Head(b))
<1>1. /\ IsSeq(Tail(b)) /\ Len(b) \in Nat \ {0} /\ Len(Tail(b)) = Len(b) - 1
      /\ \A k \in 1 .. Len(b) - 1 : Tail(b)[k] = b[k + 1]
      /\ Head(b) = b[1]
  BY SeqTail DEF Code
<1>2. DOMAIN b = 1 .. Len(b) /\ DOMAIN Tail(b) = 1 .. Len(b) - 1
  BY <1>1, SeqFacts DEF Code
<1>3. \A k \in 1 .. Len(b) - 1 : k + 1 \in 1 .. Len(b)
  BY <1>1
<1>4. 1 \in DOMAIN b
  BY <1>1, <1>2
<1> QED
  BY <1>1, <1>2, <1>3, <1>4 DEF Code

LEMMA CodeCons ==
    ASSUME NEW s, WellFormed(s), NEW b, Code(b)
    PROVE  Code(<<s>> \o b)
<1> DEFINE c == <<s>> \o b
<1>1. IsSeq(c) /\ Len(c) = Len(b) + 1 /\ c[1] = s /\ \A k \in 1 .. Len(b) : c[k + 1] = b[k]
  BY SeqCons DEF Code
<1>2. Len(b) \in Nat /\ DOMAIN b = 1 .. Len(b) /\ DOMAIN c = 1 .. Len(b) + 1
  BY <1>1, SeqFacts DEF Code
<1> HIDE DEF c
<1>3. ASSUME NEW k \in DOMAIN c PROVE WellFormed(c[k])
  <2>1. CASE k = 1
    BY <1>1, <2>1
  <2>2. CASE k # 1
    <3>1. k - 1 \in DOMAIN b /\ k - 1 \in 1 .. Len(b) /\ (k - 1) + 1 = k
      BY <1>2, <2>2
    <3>2. c[(k - 1) + 1] = b[k - 1]
      BY <1>1, <3>1
    <3> QED
      BY <3>1, <3>2 DEF Code
  <2> QED
    BY <2>1, <2>2
<1>4. Code(c)
  BY <1>1, <1>3 DEF Code
<1> QED
  BY <1>4 DEF c

\* A statement with its value, or its targets, replaced.
WithValue(s, v)  == [s EXCEPT !.value = v]
WithTarget(s, v) == [s EXCEPT !.target = v]

LEMMA ValueWellFormed ==
    ASSUME NEW s, WellFormed(s), s.type \in Valued, NEW v
    PROVE  WellFormed(WithValue(s, v)) /\ WithValue(s, v).type = s.type
<1>1. "type" \in DOMAIN s /\ DOMAIN WithValue(s, v) = DOMAIN s /\ WithValue(s, v).type = s.type
  BY DEF WellFormed, WithValue
<1>2. s.type = "SHOULD" => /\ {"then", "else"} \subseteq DOMAIN s
                           /\ WithValue(s, v).then = s.then /\ WithValue(s, v).else = s.else
  BY DEF WellFormed, WithValue
<1>3. s.type \notin {"RITE", "ATTEMPT", "TILDE_ATH"}
  BY DEF Valued
<1> QED
  BY <1>1, <1>2, <1>3 DEF WellFormed

LEMMA TargetWellFormed ==
    ASSUME NEW s, WellFormed(s), s.type = "DieStmt", NEW v
    PROVE  WellFormed(WithTarget(s, v))
<1>1. "type" \in DOMAIN s /\ DOMAIN WithTarget(s, v) = DOMAIN s /\ WithTarget(s, v).type = s.type
  BY DEF WellFormed, WithTarget
<1> QED
  BY <1>1 DEF WellFormed

LEMMA CondemnWellFormed == \A v : WellFormed([type |-> "CONDEMN", value |-> v])
  BY DEF WellFormed

\* A block with other code in it.
WithRest(f, b) == [f EXCEPT !.rest = b]

LEMMA RestBlock ==
    ASSUME NEW f, NEW D, BlockFrame(f, D), NEW b, Code(b)
    PROVE  BlockFrame(WithRest(f, b), D)
<1>1. /\ DOMAIN WithRest(f, b) = DOMAIN f /\ WithRest(f, b).k = f.k
      /\ WithRest(f, b).on = f.on /\ WithRest(f, b).rest = b
  BY DEF BlockFrame, WithRest
<1> QED
  BY <1>1 DEF BlockFrame

LEMMA NewBlock ==
    ASSUME NEW b, Code(b), NEW o, NEW D, o \in D \cup {0}
    PROVE  BlockFrame(Frame(b, o), D)
  BY DEF BlockFrame, Frame

LEMMA BlockFacts ==
    ASSUME NEW f, NEW D, NEW n
    PROVE  /\ BlockFrame(f, D) => FrameOK(f, D, n) /\ f.k = "block" /\ ~Owns(f) /\ Code(f.rest)
           /\ FrameOK(f, D, n) /\ f.k = "block" => BlockFrame(f, D)
  BY DEF FrameOK, BlockFrame, Owns

\* Another block in place of the one on top.
LEMMA ReplaceTop ==
    ASSUME NEW fs, NEW D, NEW n, StackOK(fs, D, n), fs # <<>>, fs[1].k = "block", NEW f, BlockFrame(f, D)
    PROVE  /\ StackOK(<<f>> \o Tail(fs), D, n)
           /\ <<f>> \o Tail(fs) # <<>> /\ (<<f>> \o Tail(fs))[1] = f
           /\ \A x : Tracks(x, fs) => Tracks(x, <<f>> \o Tail(fs))
<1>1. StackOK(Tail(fs), D, n) /\ IsSeq(fs) /\ IsSeq(Tail(fs))
  BY StackPop DEF StackOK
<1>2. FrameOK(f, D, n) /\ f.k = "block" /\ ~Owns(f)
  BY BlockFacts
<1>3. StackOK(<<f>> \o Tail(fs), D, n)
  BY <1>1, <1>2, StackPush
<1>4. (<<f>> \o Tail(fs))[1] = f /\ Len(<<f>> \o Tail(fs)) = Len(Tail(fs)) + 1 /\ Len(Tail(fs)) \in Nat
  BY <1>1, SuffixCons, SeqFacts
<1>5. <<f>> \o Tail(fs) # <<>>
  BY <1>4, SeqEmpty
<1>6. ASSUME NEW x, Tracks(x, fs) PROVE Tracks(x, <<f>> \o Tail(fs))
  <2>1. ~Owns(fs[1])
    BY DEF Owns
  <2>2. Tracks(x, Tail(fs))
    BY <1>1, <1>6, <2>1, TracksPop
  <2> QED
    BY <1>1, <1>2, <2>2, TracksPush
<1> QED
  BY <1>3, <1>4, <1>5, <1>6

LEMMA AgainOK ==
    ASSUME NEW fs, NEW D, NEW n, StackOK(fs, D, n), fs # <<>>, fs[1].k = "block", NEW s, WellFormed(s)
    PROVE  StackOK(Again(fs, s), D, n) /\ \A x : Tracks(x, fs) => Tracks(x, Again(fs, s))
<1> DEFINE f == WithRest(fs[1], <<s>> \o fs[1].rest)
<1>1. FrameOK(fs[1], D, n) /\ Head(fs) = fs[1]
  BY StackPop
<1>2. BlockFrame(fs[1], D) /\ Code(fs[1].rest)
  BY <1>1, BlockFacts
<1>3. Code(<<s>> \o fs[1].rest)
  BY <1>2, CodeCons
<1>4. BlockFrame(f, D)
  BY <1>2, <1>3, RestBlock
<1>5. Again(fs, s) = <<f>> \o Tail(fs)
  BY <1>1 DEF Again, WithRest
<1> HIDE DEF f
<1>6. StackOK(<<f>> \o Tail(fs), D, n) /\ \A x : Tracks(x, fs) => Tracks(x, <<f>> \o Tail(fs))
  BY <1>4, ReplaceTop
<1> QED
  BY <1>5, <1>6

\* Task i has a statement to execute: the statement, and the stack without it.
LEMMA RestOK ==
    ASSUME NEW i, NEW n, StackOK(tasks[i].stack, Dead, n), HasStmt(i)
    PROVE  /\ StackOK(Rest(i), Dead, n) /\ WellFormed(Stmt(i))
           /\ Rest(i) # <<>> /\ Rest(i)[1].k = "block"
           /\ \A x : Tracks(x, tasks[i].stack) => Tracks(x, Rest(i))
<1> DEFINE fs == tasks[i].stack
           f  == WithRest(fs[1], Tail(fs[1].rest))
<1>1. fs # <<>> /\ Head(fs).k = "block" /\ Head(fs).rest # <<>>
  BY DEF HasStmt, Top
<1>2. FrameOK(fs[1], Dead, n) /\ Head(fs) = fs[1]
  BY <1>1, StackPop
<1>3. BlockFrame(fs[1], Dead) /\ Code(fs[1].rest)
  BY <1>1, <1>2, BlockFacts
<1>4. Code(Tail(fs[1].rest)) /\ WellFormed(Head(fs[1].rest))
  BY <1>1, <1>2, <1>3, CodeTail
<1>5. BlockFrame(f, Dead)
  BY <1>3, <1>4, RestBlock
<1>6. Rest(i) = <<f>> \o Tail(fs) /\ Stmt(i) = Head(fs[1].rest)
  BY <1>2 DEF Rest, Stmt, Top, WithRest
<1> HIDE DEF f
<1>7. /\ StackOK(<<f>> \o Tail(fs), Dead, n)
      /\ <<f>> \o Tail(fs) # <<>> /\ (<<f>> \o Tail(fs))[1] = f
      /\ \A x : Tracks(x, fs) => Tracks(x, <<f>> \o Tail(fs))
  BY <1>1, <1>2, <1>5, ReplaceTop
<1>8. f.k = "block"
  BY <1>5 DEF BlockFrame
<1> QED
  BY <1>4, <1>6, <1>7, <1>8

------------------------------------------------------------------------------
(* What steps do to the entities and to the tasks *)

\* Every step but the death of a composite: entities that there are stay what
\* they are, the dead stay dead, and who dies is no composite.
Grown ==
    /\ EntitiesOK'
    /\ Len(objs) <= Len(objs')
    /\ \A o \in DOMAIN objs : objs'[o].kind = objs[o].kind /\ objs'[o].parts = objs[o].parts
    /\ Dead \subseteq Dead'
    /\ \A o \in Dead' \ Dead : o \in DOMAIN objs /\ objs[o].kind \in Simple

\* No task begins or ends.
Steady ==
    /\ IsSeq(tasks') /\ Len(tasks') = Len(tasks)
    /\ \A j \in DOMAIN tasks :
           /\ tasks'[j].by = tasks[j].by /\ tasks'[j].branch = tasks[j].branch
           /\ \/ tasks'[j].status = tasks[j].status
              \/ {tasks[j].status, tasks'[j].status} \subseteq {"ready", "waiting", "yield"}
    /\ UNCHANGED <<awaited, outcome>>

LEMMA EntityFacts ==
    ASSUME EntitiesOK
    PROVE  /\ Len(objs) \in Nat /\ DOMAIN objs = 1 .. Len(objs) /\ Dead = DeadIn(objs) /\ Dead \subseteq DOMAIN objs
           /\ \A o \in DOMAIN objs : objs[o] \in EntityType
  BY DEF EntitiesOK, Dead, DeadIn

LEMMA TaskFacts ==
    ASSUME TasksOK
    PROVE  Len(tasks) \in Nat \ {0} /\ DOMAIN tasks = 1 .. Len(tasks) /\ Main \in DOMAIN tasks
  BY SeqFacts, SeqTail DEF TasksOK, Main

LEMMA ScopeFacts ==
    ASSUME ScopesOK
    PROVE  Len(scopes) \in Nat /\ DOMAIN scopes = 1 .. Len(scopes) /\ scope \in 1 .. Len(scopes)
  BY SeqFacts DEF ScopesOK

LEMMA GrownTruthful ==
    ASSUME EntitiesOK, Truthful, Grown
    PROVE  Truthful'
<1>1. ASSUME NEW o \in Dead'
      PROVE  /\ objs'[o].kind = "EntityAnd" => objs'[o].parts \subseteq Dead'
             /\ objs'[o].kind = "EntityOr" => objs'[o].parts \cap Dead' # {}
  <2>1. o \in DOMAIN objs
    BY EntityFacts DEF Grown
  <2>2. objs'[o].kind = objs[o].kind /\ objs'[o].parts = objs[o].parts
    BY <2>1 DEF Grown
  <2>3. CASE o \in Dead
    BY <2>2, <2>3 DEF Truthful, Grown
  <2>4. CASE o \notin Dead
    BY <2>2, <2>4 DEF Grown, Simple
  <2> QED
    BY <2>3, <2>4
<1> QED
  BY <1>1 DEF Truthful

\* A task is still right when entities and scopes have been added and entities
\* have died.
LEMMA TaskMonotonic ==
    ASSUME NEW O \in Seq(EntityType), NEW P \in Seq(EntityType), NEW m \in Nat, NEW n \in Nat, m <= n,
           Len(O) <= Len(P), DeadIn(O) \subseteq DeadIn(P),
           \A o \in DOMAIN O : P[o].kind = O[o].kind,
           NEW t, NEW i, TaskOK(t, i, O, m)
    PROVE  TaskOK(t, i, P, n)
<1>1. Len(O) \in Nat /\ Len(P) \in Nat /\ DOMAIN O = 1 .. Len(O)
  OBVIOUS
<1>2. t.on \in 0 .. Len(P) /\ t.branch \in 0 .. Len(P)
  BY <1>1 DEF TaskOK
<1>3. i # Main => t.branch # 0 /\ P[t.branch].kind \in {"branch", "timer"}
  BY <1>1 DEF TaskOK
<1>4. t.status = "waiting" => Asleep(t, P, n)
  BY StackMonotonic DEF TaskOK, Asleep
<1>5. t.status # "waiting" => StackOK(t.stack, DeadIn(P), n)
  BY StackMonotonic DEF TaskOK
<1> QED
  BY <1>2, <1>3, <1>4, <1>5 DEF TaskOK

LEMMA GrownTasks ==
    ASSUME EntitiesOK, Grown, ScopesOK, ScopesOK', Len(scopes) <= Len(scopes'), TasksOK,
           NEW i \in DOMAIN tasks
    PROVE  TaskOK(tasks[i], i, objs', Len(scopes'))
<1>1. /\ objs \in Seq(EntityType) /\ objs' \in Seq(EntityType) /\ Len(objs) <= Len(objs')
      /\ \A o \in DOMAIN objs : objs'[o].kind = objs[o].kind
      /\ DeadIn(objs) \subseteq DeadIn(objs')
  BY DEF EntitiesOK, Grown, Dead, DeadIn
<1>2. Len(scopes) \in Nat /\ Len(scopes') \in Nat
  BY SeqFacts DEF ScopesOK
<1>3. TaskOK(tasks[i], i, objs, Len(scopes))
  BY DEF TasksOK
<1> QED
  BY <1>1, <1>2, <1>3, TaskMonotonic

\* A step of task i, which becomes t.
LEMMA TasksStep ==
    ASSUME TasksOK, \A j \in DOMAIN tasks : TaskOK(tasks[j], j, objs', Len(scopes')),
           NEW i \in DOMAIN tasks, NEW t, TaskOK(t, i, objs', Len(scopes')), tasks' = [tasks EXCEPT ![i] = t]
    PROVE  /\ TasksOK' /\ IsSeq(tasks') /\ Len(tasks') = Len(tasks) /\ DOMAIN tasks' = DOMAIN tasks
           /\ tasks'[i] = t /\ \A j \in DOMAIN tasks : j # i => tasks'[j] = tasks[j]
<1>1. /\ IsSeq(tasks') /\ Len(tasks') = Len(tasks) /\ DOMAIN tasks' = DOMAIN tasks
      /\ tasks'[i] = t /\ \A j \in DOMAIN tasks : j # i => tasks'[j] = tasks[j]
  <2>1. IsSeq(tasks)
    BY DEF TasksOK
  <2>2. PICK T : T = Put(tasks, i, t)
    OBVIOUS
  <2>3. /\ IsSeq(T) /\ Len(T) = Len(tasks) /\ DOMAIN T = DOMAIN tasks
        /\ T[i] = t /\ \A j \in DOMAIN tasks : j # i => T[j] = tasks[j]
    BY <2>1, <2>2, SeqPut
  <2>4. tasks' = T
    BY <2>2 DEF Put
  <2> QED
    BY <2>3, <2>4
<1>2. tasks' # <<>>
  BY <1>1, SeqEmpty
<1>3. \A j \in DOMAIN tasks' : TaskOK(tasks'[j], j, objs', Len(scopes'))
  BY <1>1
<1> QED
  BY <1>1, <1>2, <1>3 DEF TasksOK

LEMMA JoinedSteady ==
    ASSUME EntitiesOK, Grown, TasksOK, Joined, Steady
    PROVE  Joined'
<1>1. DOMAIN tasks' = DOMAIN tasks /\ DOMAIN tasks = 1 .. Len(tasks) /\ Main \in DOMAIN tasks /\ Len(tasks) \in Nat
  BY SeqFacts, TaskFacts DEF Steady
<1>2. ASSUME NEW j \in DOMAIN tasks
      PROVE  /\ tasks'[j].by = tasks[j].by /\ tasks'[j].branch = tasks[j].branch
             /\ Over(j)' <=> Over(j)
             /\ \A st \in {"settling", "done"} : tasks'[j].status = st <=> tasks[j].status = st
  BY DEF Steady, Over
<1>3. /\ awaited' = awaited /\ outcome' = outcome /\ Len(objs) <= Len(objs') /\ Len(objs) \in Nat /\ Len(objs') \in Nat
      /\ Len(tasks') = Len(tasks) /\ Dead \subseteq Dead'
  BY EntityFacts DEF Steady, Grown, EntitiesOK
<1>4. awaited'[1] \in 0 .. Len(objs') /\ awaited'[2] \in 0 .. Len(tasks')
  BY <1>1, <1>3 DEF Joined
<1>5. outcome' \in {"running", "ended", "failed"} /\ (outcome' = "ended" <=> tasks'[Main].status = "done")
  BY <1>1, <1>2, <1>3 DEF Joined
<1>6. ASSUME tasks'[Main].status \in {"settling", "done"}, NEW j \in DOMAIN tasks', tasks'[j].by = Main
      PROVE  j <= awaited'[2] /\ tasks'[j].branch <= awaited'[1]
  <2>1. tasks[Main].status \in {"settling", "done"}
    BY <1>1, <1>2, <1>6
  <2>2. j \in DOMAIN tasks /\ tasks[j].by = Main /\ tasks'[j].branch = tasks[j].branch
    BY <1>1, <1>2, <1>6
  <2>3. j <= awaited[2] /\ tasks[j].branch <= awaited[1]
    BY <2>1, <2>2 DEF Joined
  <2> QED
    BY <1>3, <2>2, <2>3
<1>7. ASSUME NEW j \in DOMAIN tasks', j # Main, Over(j)', objs'[tasks'[j].branch].kind = "branch"
      PROVE  tasks'[j].branch \in Dead'
  <2>1. tasks[j].branch \in DOMAIN objs
    BY <1>1, <1>7, EntityFacts DEF TasksOK, TaskOK
  <2>2. objs[tasks[j].branch].kind = "branch" /\ Over(j)
    BY <1>1, <1>2, <1>7, <2>1 DEF Grown
  <2> QED
    BY <1>1, <1>2, <1>3, <1>7, <2>2 DEF Joined
<1>8. TopBranchesJoined'
  BY <1>1, <1>2, <1>3 DEF Joined, TopBranchesJoined
<1> QED
  BY <1>4, <1>5, <1>6, <1>7, <1>8 DEF Joined

LEMMA Alone ==
    ASSUME Inv, NEW i \in DOMAIN tasks, Len(tasks) = 1, outcome = "running"
    PROVE  i = Main /\ Tracks(scope, tasks[i].stack)
<1>1. i = Main
  BY TaskFacts DEF Inv, Main
<1> QED
  BY <1>1 DEF Inv, Lexical

\* A task with another stack; one that is over.
WithStack(t, fs) == [t EXCEPT !.stack = fs]
EndedAs(t, how)  == [t EXCEPT !.status = how, !.stack = <<>>]

LEMMA WithStackOK ==
    ASSUME NEW t, NEW i, NEW O, NEW n, TaskOK(t, i, O, n), t.status # "waiting",
           NEW fs, StackOK(fs, DeadIn(O), n)
    PROVE  /\ TaskOK(WithStack(t, fs), i, O, n)
           /\ WithStack(t, fs).status = t.status /\ WithStack(t, fs).by = t.by /\ WithStack(t, fs).on = t.on
           /\ WithStack(t, fs).branch = t.branch /\ WithStack(t, fs).stack = fs
<1>1. DOMAIN t = {"stack", "status", "on", "branch", "by"}
  BY DEF TaskOK
<1>2. /\ DOMAIN WithStack(t, fs) = {"stack", "status", "on", "branch", "by"}
      /\ WithStack(t, fs).status = t.status /\ WithStack(t, fs).by = t.by /\ WithStack(t, fs).on = t.on
      /\ WithStack(t, fs).branch = t.branch /\ WithStack(t, fs).stack = fs
  BY <1>1 DEF WithStack
<1> QED
  BY <1>2 DEF TaskOK

LEMMA EndedAsOK ==
    ASSUME NEW t, NEW i, NEW O, NEW n, TaskOK(t, i, O, n), NEW how \in {"done", "failed"}
    PROVE  /\ TaskOK(EndedAs(t, how), i, O, n)
           /\ EndedAs(t, how).status = how /\ EndedAs(t, how).by = t.by /\ EndedAs(t, how).on = t.on
           /\ EndedAs(t, how).branch = t.branch /\ EndedAs(t, how).stack = <<>>
<1>1. DOMAIN t = {"stack", "status", "on", "branch", "by"}
  BY DEF TaskOK
<1>2. /\ DOMAIN EndedAs(t, how) = {"stack", "status", "on", "branch", "by"}
      /\ EndedAs(t, how).status = how /\ EndedAs(t, how).by = t.by /\ EndedAs(t, how).on = t.on
      /\ EndedAs(t, how).branch = t.branch /\ EndedAs(t, how).stack = <<>>
  BY <1>1 DEF EndedAs
<1>3. StackOK(<<>>, DeadIn(O), n)
  BY StackEmpty
<1>4. how \in Statuses /\ how # "waiting"
  BY DEF Statuses
<1> QED
  BY <1>2, <1>3, <1>4 DEF TaskOK

\* A task that goes on with the stack fs.
LEMMA GoOnStep ==
    ASSUME Inv, NEW i \in DOMAIN tasks, Ready(i), NEW fs, GoOn(i, fs),
           Grown, ScopesOK', Len(scopes) <= Len(scopes'),
           StackOK(fs, Dead', Len(scopes')),
           UNCHANGED <<awaited, outcome>>,
           Len(tasks) = 1 /\ outcome = "running" => Tracks(scope', fs)
    PROVE  Inv'
<1> DEFINE t == WithStack(tasks[i], fs)
<1>1. \A j \in DOMAIN tasks : TaskOK(tasks[j], j, objs', Len(scopes'))
  BY GrownTasks DEF Inv
<1>2. Dead' = DeadIn(objs') /\ tasks[i].status = "ready"
  BY DEF Dead, DeadIn, Ready
<1>3. /\ TaskOK(t, i, objs', Len(scopes'))
      /\ t.status = "ready" /\ t.by = tasks[i].by /\ t.branch = tasks[i].branch /\ t.stack = fs
  BY <1>1, <1>2, WithStackOK
<1>4. tasks' = [tasks EXCEPT ![i] = t]
  BY DEF GoOn, WithStack
<1> HIDE DEF t
<1>5. /\ TasksOK' /\ IsSeq(tasks') /\ Len(tasks') = Len(tasks) /\ DOMAIN tasks' = DOMAIN tasks
      /\ tasks'[i] = t /\ \A j \in DOMAIN tasks : j # i => tasks'[j] = tasks[j]
  BY <1>1, <1>3, <1>4, TasksStep DEF Inv
<1>6. Steady
  <2>1. ASSUME NEW j \in DOMAIN tasks
        PROVE  /\ tasks'[j].by = tasks[j].by /\ tasks'[j].branch = tasks[j].branch
               /\ tasks'[j].status = tasks[j].status
    BY <1>2, <1>3, <1>5
  <2> QED
    BY <1>5, <2>1 DEF Steady
<1>7. Joined'
  BY <1>6, JoinedSteady DEF Inv
<1>8. Truthful'
  BY GrownTruthful DEF Inv
<1>9. Lexical'
  <2>1. SUFFICES ASSUME Len(tasks') = 1, outcome' = "running" PROVE Tracks(scope', tasks'[Main].stack)
    BY DEF Lexical
  <2>2. i = Main
    BY <1>5, <2>1, TaskFacts DEF Main, Inv
  <2> QED
    BY <1>3, <1>5, <2>1, <2>2
<1> QED
  BY <1>5, <1>7, <1>8, <1>9 DEF Inv, Grown

------------------------------------------------------------------------------
(* Entities: what keeps them right *)

LEMMA NothingGrown ==
    ASSUME EntitiesOK, UNCHANGED <<names, objs, branches>>
    PROVE  Grown
  BY DEF EntitiesOK, Grown, Dead

LEMMA Killed ==
    ASSUME EntitiesOK, NEW S
    PROVE  /\ Kill(S) \in Seq(EntityType) /\ Len(Kill(S)) = Len(objs)
           /\ \A o \in DOMAIN objs : /\ Kill(S)[o].kind = objs[o].kind /\ Kill(S)[o].parts = objs[o].parts
                                     /\ Kill(S)[o].dead <=> objs[o].dead \/ o \in S
<1>1. ASSUME NEW e \in EntityType
      PROVE  /\ [e EXCEPT !.dead = TRUE] \in EntityType
             /\ [e EXCEPT !.dead = TRUE].kind = e.kind /\ [e EXCEPT !.dead = TRUE].parts = e.parts
             /\ [e EXCEPT !.dead = TRUE].dead = TRUE
  BY DEF EntityType
<1>2. Len(objs) \in Nat /\ DOMAIN objs = 1 .. Len(objs)
  BY EntityFacts
<1>3. Kill(S) \in [1 .. Len(objs) -> EntityType]
  <2>1. \A o \in DOMAIN objs : objs[o] \in EntityType /\ [objs[o] EXCEPT !.dead = TRUE] \in EntityType
    BY <1>1, EntityFacts
  <2> QED
    BY <1>2, <2>1 DEF Kill
<1>4. Kill(S) \in Seq(EntityType) /\ Len(Kill(S)) = Len(objs)
  <2>1. PICK K : K = Kill(S)
    OBVIOUS
  <2>2. K \in [1 .. Len(objs) -> EntityType]
    BY <1>3, <2>1
  <2>3. K \in Seq(EntityType) /\ Len(K) = Len(objs)
    BY <1>2, <2>2, IsASeq, LenProperties
  <2> QED
    BY <2>1, <2>3
<1>5. ASSUME NEW o \in DOMAIN objs
      PROVE  /\ Kill(S)[o].kind = objs[o].kind /\ Kill(S)[o].parts = objs[o].parts
             /\ Kill(S)[o].dead <=> objs[o].dead \/ o \in S
  <2>1. Kill(S)[o] = IF o \in S THEN [objs[o] EXCEPT !.dead = TRUE] ELSE objs[o]
    BY DEF Kill
  <2>2. objs[o] \in EntityType
    BY EntityFacts
  <2> QED
    BY <1>1, <2>1, <2>2
<1> QED
  BY <1>4, <1>5

\* Entities that are added behind the ones there were, and names for them.
LEMMA Grows ==
    ASSUME EntitiesOK, objs' \in Seq(EntityType), Len(objs) <= Len(objs'),
           \A o \in DOMAIN objs : objs'[o].kind = objs[o].kind /\ objs'[o].parts = objs[o].parts,
           \A o \in DOMAIN objs : objs[o].dead => objs'[o].dead,
           \A o \in DOMAIN objs : objs'[o].dead => objs[o].dead \/ objs[o].kind \in Simple,
           \A o \in DOMAIN objs' \ DOMAIN objs : ~objs'[o].dead /\ objs'[o].parts \subseteq 1 .. o - 1,
           \A n \in DOMAIN names' : \/ n \in DOMAIN names /\ names'[n] = names[n]
                                    \/ names'[n] \in DOMAIN objs' /\ objs'[names'[n]].kind \in {"timer", "branch"},
           DOMAIN names \subseteq DOMAIN names',
           branches' \subseteq DOMAIN names',
           \A n \in branches' : n \in branches \/ objs'[names'[n]].kind \in {"timer", "branch"}
    PROVE  Grown
<1>1. DOMAIN objs \subseteq DOMAIN objs' /\ DOMAIN objs = 1 .. Len(objs) /\ Len(objs) \in Nat
  BY EntityFacts
<1>2. \A o \in DOMAIN objs' : objs'[o].parts \subseteq 1 .. o - 1
  BY <1>1 DEF EntitiesOK
<1>3. \A n \in DOMAIN names' : names'[n] \in DOMAIN objs' /\ objs'[names'[n]].kind \in Simple
  BY <1>1 DEF EntitiesOK, Simple
<1>4. \A n \in branches' : objs'[names'[n]].kind \in {"branch", "timer"}
  BY <1>1 DEF EntitiesOK
<1>5. EntitiesOK'
  BY <1>2, <1>3, <1>4 DEF EntitiesOK
<1>6. Dead \subseteq Dead' /\ \A o \in Dead' \ Dead : o \in DOMAIN objs /\ objs[o].kind \in Simple
  BY <1>1 DEF Dead
<1> QED
  BY <1>5, <1>6 DEF Grown

LEMMA KillGrown ==
    ASSUME EntitiesOK, NEW S \in SUBSET DOMAIN objs, \A o \in S : objs[o].kind \in Simple,
           objs' = Kill(S), UNCHANGED <<names, branches>>
    PROVE  Grown
<1>1. /\ objs' \in Seq(EntityType) /\ Len(objs') = Len(objs)
      /\ \A o \in DOMAIN objs : /\ objs'[o].kind = objs[o].kind /\ objs'[o].parts = objs[o].parts
                                /\ objs'[o].dead <=> objs[o].dead \/ o \in S
  BY Killed
<1>2. DOMAIN objs' = DOMAIN objs /\ Len(objs) <= Len(objs')
  BY <1>1, EntityFacts
<1> QED
  BY <1>1, <1>2, Grows DEF EntitiesOK

\* The entities that have names are no composites.
LEMMA NamedSimple ==
    ASSUME EntitiesOK
    PROVE  Named \in SUBSET DOMAIN objs /\ \A o \in Named : objs[o].kind \in Simple
  BY DEF EntitiesOK, Named

------------------------------------------------------------------------------
(* The end of a task, and of the program *)

LEMMA CompleteStep ==
    ASSUME Inv, NEW i \in DOMAIN tasks, Ready(i), i # Main, NEW how \in {"done", "failed"},
           CompleteBranch(i, how), scope' \in DOMAIN scopes
    PROVE  Inv' /\ Grown
<1> DEFINE o  == tasks[i].branch
           st == IF objs[o].kind = "branch" THEN how ELSE "failed"
           t  == EndedAs(tasks[i], st)
<1>1. TaskOK(tasks[i], i, objs, Len(scopes)) /\ tasks[i].status = "ready"
  BY DEF Inv, TasksOK, Ready
<1>2. o \in DOMAIN objs /\ objs[o].kind \in {"branch", "timer"} /\ objs[o] \in EntityType
  BY <1>1, EntityFacts DEF TaskOK, Inv
<1>3. Grown /\ (objs[o].kind = "branch" => o \in Dead')
  <2>1. CASE objs[o].kind = "branch"
    <3>1. PICK e : e = [objs[o] EXCEPT !.dead = TRUE, !.done = TRUE]
      OBVIOUS
    <3>2. e \in EntityType /\ e.kind = objs[o].kind /\ e.parts = objs[o].parts /\ e.dead = TRUE
      BY <1>2, <3>1 DEF EntityType
    <3>3. objs' = [objs EXCEPT ![o] = e]
      BY <2>1, <3>1 DEF CompleteBranch
    <3>4. objs' \in Seq(EntityType) /\ Len(objs') = Len(objs)
      BY <1>2, <3>2, <3>3, ExceptSeq, EntityFacts DEF Inv, EntitiesOK
    <3>5. \A p \in DOMAIN objs : objs'[p] = IF p = o THEN e ELSE objs[p]
      BY <1>2, <3>3
    <3>6. DOMAIN objs' = DOMAIN objs /\ Len(objs) <= Len(objs')
      BY <3>3, <3>4, EntityFacts DEF Inv
    <3>7. UNCHANGED <<names, branches>>
      BY DEF CompleteBranch
    <3>8. \A p \in DOMAIN objs : /\ objs'[p].kind = objs[p].kind /\ objs'[p].parts = objs[p].parts
                                 /\ objs'[p].dead <=> objs[p].dead \/ p = o
      BY <3>2, <3>5
    <3>9. Grown
      BY <1>2, <2>1, <3>4, <3>6, <3>7, <3>8, Grows DEF Inv, EntitiesOK, Simple
    <3> QED
      BY <1>2, <3>6, <3>8, <3>9 DEF Dead
  <2>2. CASE objs[o].kind # "branch"
    BY <2>2, NothingGrown DEF CompleteBranch, Inv
  <2> QED
    BY <2>1, <2>2
<1>4. ScopesOK' /\ Len(scopes) <= Len(scopes')
  <2>1. UNCHANGED <<scopes, rites>> /\ Len(scopes) \in Nat
    BY ScopeFacts DEF CompleteBranch, Inv
  <2> QED
    BY <2>1 DEF Inv, ScopesOK
<1>5. \A j \in DOMAIN tasks : TaskOK(tasks[j], j, objs', Len(scopes'))
  BY <1>3, <1>4, GrownTasks DEF Inv
<1>6. st \in {"done", "failed"}
  OBVIOUS
<1>7. tasks' = [tasks EXCEPT ![i] = t]
  BY DEF CompleteBranch, EndedAs
<1> HIDE DEF st
<1>8. TaskOK(t, i, objs', Len(scopes')) /\ t.status = st /\ t.by = tasks[i].by /\ t.branch = o
  BY <1>5, <1>6, EndedAsOK
<1> HIDE DEF t
<1>9. /\ TasksOK' /\ IsSeq(tasks') /\ Len(tasks') = Len(tasks) /\ DOMAIN tasks' = DOMAIN tasks
      /\ tasks'[i] = t /\ \A j \in DOMAIN tasks : j # i => tasks'[j] = tasks[j]
  BY <1>5, <1>7, <1>8, TasksStep DEF Inv
<1>10. Joined'
  <2>1. UNCHANGED <<awaited, outcome>> /\ Main \in DOMAIN tasks /\ tasks'[Main] = tasks[Main] /\ Len(objs) <= Len(objs')
        /\ Len(objs) \in Nat /\ Len(objs') \in Nat
    BY <1>3, <1>9, TaskFacts, EntityFacts DEF CompleteBranch, Inv, Grown, EntitiesOK
  <2>2. \A j \in DOMAIN tasks : tasks'[j].by = tasks[j].by /\ tasks'[j].branch = tasks[j].branch
    BY <1>8, <1>9
  <2>3. awaited'[1] \in 0 .. Len(objs') /\ awaited'[2] \in 0 .. Len(tasks')
    BY <1>9, <2>1 DEF Inv, Joined
  <2>4. outcome' \in {"running", "ended", "failed"} /\ (outcome' = "ended" <=> tasks'[Main].status = "done")
    BY <2>1 DEF Inv, Joined
  <2>5. ASSUME tasks'[Main].status \in {"settling", "done"}, NEW j \in DOMAIN tasks', tasks'[j].by = Main
        PROVE  j <= awaited'[2] /\ tasks'[j].branch <= awaited'[1]
    <3>1. j \in DOMAIN tasks /\ tasks[j].by = Main /\ tasks[Main].status \in {"settling", "done"}
      BY <1>9, <2>1, <2>2, <2>5
    <3>2. j <= awaited[2] /\ tasks[j].branch <= awaited[1]
      BY <3>1 DEF Inv, Joined
    <3> QED
      BY <2>1, <2>2, <3>1, <3>2
  <2>6. ASSUME NEW j \in DOMAIN tasks', j # Main, Over(j)', objs'[tasks'[j].branch].kind = "branch"
        PROVE  tasks'[j].branch \in Dead'
    <3>1. j \in DOMAIN tasks /\ tasks[j].branch \in DOMAIN objs /\ tasks'[j].branch = tasks[j].branch
      BY <1>9, <2>2, <2>6, EntityFacts DEF Inv, TasksOK, TaskOK
    <3>2. objs[tasks[j].branch].kind = "branch"
      BY <1>3, <2>6, <3>1 DEF Grown
    <3>3. CASE j = i
      BY <1>3, <3>1, <3>2, <3>3
    <3>4. CASE j # i
      <4>1. Over(j)
        BY <1>9, <2>6, <3>1, <3>4 DEF Over
      <4> QED
        BY <1>3, <2>6, <3>1, <3>2, <4>1 DEF Inv, Joined, Grown
    <3> QED
      BY <3>3, <3>4
  <2>7. TopBranchesJoined'
    <3>1. SUFFICES ASSUME outcome' = "ended", NEW j \in DOMAIN tasks', tasks'[j].by = Main
                   PROVE  Over(j)' /\ tasks'[j].branch \in Dead'
      BY DEF TopBranchesJoined
    <3>2. j \in DOMAIN tasks /\ tasks[j].by = Main /\ outcome = "ended"
      BY <1>9, <2>1, <2>2, <3>1
    <3>3. Over(j) /\ tasks[j].branch \in Dead
      BY <3>2 DEF Inv, Joined, TopBranchesJoined
    <3>4. j # i
      BY <1>1, <3>3 DEF Over
    <3> QED
      BY <1>3, <1>9, <2>2, <3>2, <3>3, <3>4 DEF Over, Grown
  <2> QED
    BY <2>3, <2>4, <2>5, <2>6, <2>7 DEF Joined
<1>11. Truthful'
  BY <1>3, GrownTruthful DEF Inv
<1>12. Lexical'
  <2>1. Len(tasks') # 1
    BY <1>9, TaskFacts DEF Inv, Main
  <2> QED
    BY <2>1 DEF Lexical
<1> QED
  BY <1>3, <1>4, <1>9, <1>10, <1>11, <1>12 DEF Inv, Grown

LEMMA FinishStep ==
    ASSUME Inv, NEW how \in {"ended", "failed"}, Finish(how), scope' \in DOMAIN scopes,
           how = "ended" => tasks[Main].status = "settling" /\ Settled
    PROVE  Inv' /\ Grown
<1> DEFINE st == IF how = "ended" THEN "done" ELSE "failed"
           t  == EndedAs(tasks[Main], st)
<1>1. Main \in DOMAIN tasks
  BY TaskFacts DEF Inv
<1>2. Grown /\ Named \subseteq Dead'
  <2>1. Named \in SUBSET DOMAIN objs /\ \A o \in Named : objs[o].kind \in Simple
    BY NamedSimple DEF Inv
  <2>2. objs' = Kill(Named) /\ UNCHANGED <<names, branches>>
    BY DEF Finish
  <2>3. Grown
    BY <2>1, <2>2, KillGrown DEF Inv
  <2>4. Named \subseteq Dead'
    BY <2>1, <2>2, Killed DEF Dead, Inv, Kill
  <2> QED
    BY <2>3, <2>4
<1>3. ScopesOK' /\ Len(scopes) <= Len(scopes')
  <2>1. UNCHANGED <<scopes, rites>> /\ Len(scopes) \in Nat
    BY ScopeFacts DEF Finish, Inv
  <2> QED
    BY <2>1 DEF Inv, ScopesOK
<1>4. \A j \in DOMAIN tasks : TaskOK(tasks[j], j, objs', Len(scopes'))
  BY <1>2, <1>3, GrownTasks DEF Inv
<1>5. st \in {"done", "failed"} /\ (st = "done" <=> how = "ended")
  OBVIOUS
<1>6. tasks' = [tasks EXCEPT ![Main] = t]
  BY DEF Finish, EndedAs
<1> HIDE DEF st
<1>7. TaskOK(t, Main, objs', Len(scopes')) /\ t.status = st /\ t.by = tasks[Main].by /\ t.branch = tasks[Main].branch
  BY <1>1, <1>4, <1>5, EndedAsOK
<1> HIDE DEF t
<1>8. /\ TasksOK' /\ IsSeq(tasks') /\ Len(tasks') = Len(tasks) /\ DOMAIN tasks' = DOMAIN tasks
      /\ tasks'[Main] = t /\ \A j \in DOMAIN tasks : j # Main => tasks'[j] = tasks[j]
  BY <1>1, <1>4, <1>6, <1>7, TasksStep DEF Inv
<1>9. Joined'
  <2>1. UNCHANGED awaited /\ outcome' = how /\ Len(objs) <= Len(objs') /\ Len(objs) \in Nat /\ Len(objs') \in Nat
    BY <1>2, EntityFacts DEF Finish, Inv, Grown, EntitiesOK
  <2>2. \A j \in DOMAIN tasks : tasks'[j].by = tasks[j].by /\ tasks'[j].branch = tasks[j].branch
    BY <1>7, <1>8
  <2>3. awaited'[1] \in 0 .. Len(objs') /\ awaited'[2] \in 0 .. Len(tasks')
    BY <1>8, <2>1 DEF Inv, Joined
  <2>4. outcome' \in {"running", "ended", "failed"} /\ (outcome' = "ended" <=> tasks'[Main].status = "done")
    BY <1>5, <1>7, <1>8, <2>1
  <2>5. ASSUME tasks'[Main].status \in {"settling", "done"}, NEW j \in DOMAIN tasks', tasks'[j].by = Main
        PROVE  j <= awaited'[2] /\ tasks'[j].branch <= awaited'[1]
    <3>1. j \in DOMAIN tasks /\ tasks[j].by = Main /\ tasks[Main].status = "settling"
      BY <1>5, <1>7, <1>8, <2>2, <2>5
    <3>2. j <= awaited[2] /\ tasks[j].branch <= awaited[1]
      BY <3>1 DEF Inv, Joined
    <3> QED
      BY <2>1, <2>2, <3>1, <3>2
  <2>6. ASSUME NEW j \in DOMAIN tasks', j # Main, Over(j)', objs'[tasks'[j].branch].kind = "branch"
        PROVE  tasks'[j].branch \in Dead'
    <3>1. j \in DOMAIN tasks /\ tasks[j].branch \in DOMAIN objs /\ tasks'[j] = tasks[j]
      BY <1>8, <2>6, EntityFacts DEF Inv, TasksOK, TaskOK
    <3>2. objs[tasks[j].branch].kind = "branch" /\ Over(j)
      BY <1>2, <2>6, <3>1 DEF Grown, Over
    <3> QED
      BY <1>2, <2>6, <3>1, <3>2 DEF Inv, Joined, Grown
  <2>7. TopBranchesJoined'
    <3>1. SUFFICES ASSUME outcome' = "ended", NEW j \in DOMAIN tasks', tasks'[j].by = Main
                   PROVE  Over(j)' /\ tasks'[j].branch \in Dead'
      BY DEF TopBranchesJoined
    <3>2. j \in DOMAIN tasks /\ tasks[j].by = Main /\ tasks[Main].status = "settling" /\ Settled
      BY <1>8, <2>1, <2>2, <3>1
    <3>3. TaskOK(tasks[j], j, objs, Len(scopes)) /\ Len(tasks) \in Nat /\ j \in 1 .. Len(tasks)
      BY <3>2, TaskFacts DEF Inv, TasksOK
    <3>4. j # Main
      BY <3>2, <3>3 DEF TaskOK, Main
    <3>5. j \in 2 .. awaited[2] /\ tasks[j].branch \in 1 .. awaited[1] /\ awaited[1] \in 0 .. Len(objs)
      <4>1. j <= awaited[2] /\ tasks[j].branch <= awaited[1] /\ awaited[1] \in 0 .. Len(objs) /\ awaited[2] \in 0 .. Len(tasks)
        BY <3>2 DEF Inv, Joined
      <4>2. tasks[j].branch \in 0 .. Len(objs) /\ tasks[j].branch # 0 /\ Len(objs) \in Nat
        BY <3>3, <3>4, <2>1 DEF TaskOK
      <4> QED
        BY <3>3, <3>4, <4>1, <4>2 DEF Main
    <3>6. Over(j)
      BY <3>2, <3>5 DEF Settled
    <3>7. tasks[j].branch \in Dead
      <4>1. tasks[j].branch \in DOMAIN objs /\ objs[tasks[j].branch].kind \in {"branch", "timer"}
        BY <2>1, <3>3, <3>4, <3>5, EntityFacts DEF TaskOK, Inv
      <4>2. CASE objs[tasks[j].branch].kind = "branch"
        BY <3>2, <3>4, <3>6, <4>2 DEF Inv, Joined
      <4>3. CASE objs[tasks[j].branch].kind = "timer"
        BY <3>2, <3>5, <4>1, <4>3 DEF Settled, Dead
      <4> QED
        BY <4>1, <4>2, <4>3
    <3> QED
      BY <1>2, <1>8, <3>1, <3>2, <3>4, <3>6, <3>7 DEF Over, Grown
  <2> QED
    BY <2>3, <2>4, <2>5, <2>6, <2>7 DEF Joined
<1>10. Truthful'
  BY <1>2, GrownTruthful DEF Inv
<1>11. Lexical'
  BY DEF Lexical, Finish
<1> QED
  BY <1>2, <1>3, <1>8, <1>9, <1>10, <1>11 DEF Inv, Grown

LEMMA BranchEndStep ==
    ASSUME Inv, NEW i \in DOMAIN tasks, BranchEnd(i)
    PROVE  Inv' /\ Grown
<1>1. scope' \in DOMAIN scopes
  BY DEF BranchEnd, Inv, ScopesOK
<1> QED
  BY <1>1, CompleteStep DEF BranchEnd

LEMMA SettleStep ==
    ASSUME Inv, Settle
    PROVE  Inv' /\ Grown
<1>1. scope' \in DOMAIN scopes
  BY DEF Settle, Inv, ScopesOK
<1> QED
  BY <1>1, FinishStep DEF Settle

\* A task with another status.
WithStatus(t, st) == [t EXCEPT !.status = st]

LEMMA WithStatusOK ==
    ASSUME NEW t, NEW i, NEW O, NEW n, TaskOK(t, i, O, n), t.status # "waiting",
           NEW st \in Statuses \ {"waiting"}
    PROVE  /\ TaskOK(WithStatus(t, st), i, O, n)
           /\ WithStatus(t, st).status = st /\ WithStatus(t, st).by = t.by /\ WithStatus(t, st).on = t.on
           /\ WithStatus(t, st).branch = t.branch /\ WithStatus(t, st).stack = t.stack
<1>1. DOMAIN t = {"stack", "status", "on", "branch", "by"}
  BY DEF TaskOK
<1>2. /\ DOMAIN WithStatus(t, st) = {"stack", "status", "on", "branch", "by"}
      /\ WithStatus(t, st).status = st /\ WithStatus(t, st).by = t.by /\ WithStatus(t, st).on = t.on
      /\ WithStatus(t, st).branch = t.branch /\ WithStatus(t, st).stack = t.stack
  BY <1>1 DEF WithStatus
<1> QED
  BY <1>2 DEF TaskOK

LEMMA MainEndStep ==
    ASSUME Inv, MainEnd
    PROVE  Inv' /\ Grown
<1> DEFINE t == WithStatus(tasks[Main], "settling")
<1>1. Main \in DOMAIN tasks /\ tasks[Main].status = "ready"
  BY TaskFacts DEF Inv, MainEnd, Ready
<1>2. Grown
  BY NothingGrown DEF MainEnd, Inv
<1>3. ScopesOK' /\ Len(scopes) <= Len(scopes')
  <2>1. UNCHANGED <<scopes, rites, scope>> /\ Len(scopes) \in Nat
    BY ScopeFacts DEF MainEnd, Inv
  <2> QED
    BY <2>1 DEF Inv, ScopesOK
<1>4. \A j \in DOMAIN tasks : TaskOK(tasks[j], j, objs', Len(scopes'))
  BY <1>2, <1>3, GrownTasks DEF Inv
<1>5. tasks' = [tasks EXCEPT ![Main] = t]
  BY DEF MainEnd, WithStatus
<1>6. /\ TaskOK(t, Main, objs', Len(scopes')) /\ t.status = "settling" /\ t.by = tasks[Main].by
      /\ t.branch = tasks[Main].branch /\ t.stack = tasks[Main].stack
  BY <1>1, <1>4, WithStatusOK DEF Statuses
<1> HIDE DEF t
<1>7. /\ TasksOK' /\ IsSeq(tasks') /\ Len(tasks') = Len(tasks) /\ DOMAIN tasks' = DOMAIN tasks
      /\ tasks'[Main] = t /\ \A j \in DOMAIN tasks : j # Main => tasks'[j] = tasks[j]
  BY <1>1, <1>4, <1>5, <1>6, TasksStep DEF Inv
<1>8. Joined'
  <2>1. UNCHANGED <<objs, outcome>> /\ awaited' = <<Len(objs), Len(tasks)>> /\ Len(objs) \in Nat
        /\ DOMAIN tasks = 1 .. Len(tasks) /\ Len(tasks) \in Nat /\ Dead' = Dead
    BY EntityFacts, TaskFacts DEF MainEnd, Inv, Dead
  <2>2. \A j \in DOMAIN tasks : tasks'[j].by = tasks[j].by /\ tasks'[j].branch = tasks[j].branch
                                /\ (Over(j)' <=> Over(j))
    BY <1>1, <1>6, <1>7 DEF Over
  <2>3. \A j \in DOMAIN tasks : tasks[j].branch \in 0 .. Len(objs)
    BY DEF Inv, TasksOK, TaskOK
  <2>4. outcome # "ended"
    BY <1>1 DEF Inv, Joined
  <2>5. awaited'[1] = Len(objs) /\ awaited'[2] = Len(tasks)
    BY <2>1
  <2>6. \A j \in DOMAIN tasks' : j <= awaited'[2] /\ tasks'[j].branch <= awaited'[1]
    BY <1>7, <2>1, <2>2, <2>3, <2>5
  <2>7. \A j \in DOMAIN tasks' :
            j # Main /\ Over(j)' /\ objs'[tasks'[j].branch].kind = "branch" => tasks'[j].branch \in Dead'
    BY <1>7, <2>1, <2>2 DEF Inv, Joined
  <2>8. awaited'[1] \in 0 .. Len(objs') /\ awaited'[2] \in 0 .. Len(tasks')
    BY <1>7, <2>1, <2>5
  <2>9. outcome' \in {"running", "ended", "failed"} /\ outcome' # "ended" /\ tasks'[Main].status # "done"
    BY <1>6, <1>7, <2>1, <2>4 DEF Inv, Joined
  <2>10. TopBranchesJoined'
    BY <2>9 DEF TopBranchesJoined
  <2> QED
    BY <2>6, <2>7, <2>8, <2>9, <2>10 DEF Joined
<1>9. Truthful'
  BY <1>2, GrownTruthful DEF Inv
<1>10. Lexical'
  BY <1>6, <1>7 DEF Lexical, MainEnd, Inv
<1> QED
  BY <1>2, <1>3, <1>7, <1>8, <1>9, <1>10 DEF Inv, Grown

------------------------------------------------------------------------------
(* Scopes: what keeps them right *)

LEMMA SameScopes ==
    ASSUME ScopesOK, UNCHANGED <<scopes, rites>>, scope' \in DOMAIN scopes
    PROVE  ScopesOK' /\ Len(scopes) <= Len(scopes')
<1>1. Len(scopes) \in Nat
  BY ScopeFacts
<1> QED
  BY <1>1 DEF ScopesOK

\* A scope inside another is entered.
LEMMA NewScope ==
    ASSUME ScopesOK, NEW r, DOMAIN r = {"parent", "vars", "consts"}, r.parent \in DOMAIN scopes, r.consts = {},
           scopes' = Append(scopes, r), scope' = Len(scopes) + 1, UNCHANGED rites
    PROVE  ScopesOK' /\ Len(scopes') = Len(scopes) + 1 /\ Len(scopes) \in Nat
<1>1. Len(scopes) \in Nat /\ DOMAIN scopes = 1 .. Len(scopes) /\ IsSeq(scopes)
  BY ScopeFacts DEF ScopesOK
<1>2. /\ IsSeq(scopes') /\ Len(scopes') = Len(scopes) + 1
      /\ \A s \in 1 .. Len(scopes) : scopes'[s] = scopes[s]
      /\ scopes'[Len(scopes) + 1] = r
  BY <1>1, SeqAppend
<1>3. DOMAIN scopes' = 1 .. Len(scopes) + 1
  BY <1>2, SeqFacts
<1>4. ASSUME NEW s \in DOMAIN scopes'
      PROVE  /\ DOMAIN scopes'[s] = {"parent", "vars", "consts"}
             /\ scopes'[s].parent \in 0 .. s - 1
             /\ scopes'[s].consts \subseteq DOMAIN scopes'[s].vars
  <2>1. CASE s \in DOMAIN scopes
    BY <1>1, <1>2, <2>1 DEF ScopesOK
  <2>2. CASE s \notin DOMAIN scopes
    <3>1. s = Len(scopes) + 1 /\ scopes'[s] = r
      BY <1>1, <1>2, <1>3, <2>2
    <3> QED
      BY <1>1, <3>1
  <2> QED
    BY <2>1, <2>2
<1>5. DOMAIN scopes \subseteq DOMAIN scopes' /\ scope' \in DOMAIN scopes'
  BY <1>1, <1>3
<1> QED
  BY <1>1, <1>2, <1>4, <1>5 DEF ScopesOK

\* A variable is set, in whatever scope.
LEMMA Defined ==
    ASSUME ScopesOK, NEW s, NEW n, NEW value, NEW constant \in BOOLEAN, Define(s, n, value, constant)
    PROVE  /\ IsSeq(scopes') /\ Len(scopes') = Len(scopes) /\ DOMAIN scopes' = DOMAIN scopes
           /\ \A u \in DOMAIN scopes' : /\ DOMAIN scopes'[u] = {"parent", "vars", "consts"}
                                       /\ scopes'[u].parent \in 0 .. u - 1
                                       /\ scopes'[u].consts \subseteq DOMAIN scopes'[u].vars
<1> DEFINE r == WithVar(scopes[s], n, value, constant)
<1>1. scopes' = [scopes EXCEPT ![s] = r]
  BY DEF Define
<1>2. IsSeq(scopes) /\ DOMAIN scopes' = DOMAIN scopes /\ \A u \in DOMAIN scopes : u # s => scopes'[u] = scopes[u]
  BY <1>1 DEF ScopesOK
<1>3. CASE s \in DOMAIN scopes
  <2>1. /\ DOMAIN r = DOMAIN scopes[s] /\ r.parent = scopes[s].parent
        /\ r.vars = Set(scopes[s].vars, n, value)
        /\ r.consts = IF constant THEN scopes[s].consts \cup {n} ELSE scopes[s].consts
    BY <1>3 DEF ScopesOK, WithVar
  <2>2. DOMAIN r.vars = DOMAIN scopes[s].vars \cup {n}
    BY <2>1 DEF Set
  <2>3. r.consts \subseteq DOMAIN r.vars
    BY <1>3, <2>1, <2>2 DEF ScopesOK
  <2> HIDE DEF r
  <2>4. PICK T : T = Put(scopes, s, r)
    OBVIOUS
  <2>5. IsSeq(T) /\ Len(T) = Len(scopes) /\ T[s] = r
    BY <1>2, <1>3, <2>4, SeqPut
  <2>6. scopes' = T
    BY <1>1, <2>4 DEF Put
  <2> QED
    BY <1>2, <1>3, <2>1, <2>3, <2>5, <2>6 DEF ScopesOK
<1>4. CASE s \notin DOMAIN scopes
  <2> HIDE DEF r
  <2>1. \E S : scopes \in Seq(S)
    BY <1>2 DEF IsSeq
  <2>2. scopes' = scopes
    BY <1>1, <1>4, <2>1
  <2> QED
    BY <2>2 DEF ScopesOK
<1> QED
  BY <1>3, <1>4

------------------------------------------------------------------------------
(* Steps: errors and returns *)

\* fs is a stack for the one who is executing.
Held(fs) ==
    /\ StackOK(fs, Dead, Len(scopes))
    /\ Len(tasks) = 1 /\ outcome = "running" => Tracks(scope, fs)

LEMMA StackHeld ==
    ASSUME Inv, NEW i \in DOMAIN tasks, tasks[i].status # "waiting"
    PROVE  Held(tasks[i].stack)
<1>1. StackOK(tasks[i].stack, Dead, Len(scopes))
  BY EntityFacts DEF Inv, TasksOK, TaskOK
<1> QED
  BY <1>1, Alone DEF Held

LEMMA RestHeld ==
    ASSUME Inv, NEW i \in DOMAIN tasks, HasStmt(i)
    PROVE  Held(Rest(i)) /\ WellFormed(Stmt(i)) /\ Rest(i) # <<>> /\ Rest(i)[1].k = "block"
<1>1. Held(tasks[i].stack)
  BY StackHeld DEF HasStmt, Ready
<1>2. /\ StackOK(Rest(i), Dead, Len(scopes)) /\ WellFormed(Stmt(i))
      /\ Rest(i) # <<>> /\ Rest(i)[1].k = "block"
      /\ \A x : Tracks(x, tasks[i].stack) => Tracks(x, Rest(i))
  BY <1>1, RestOK DEF Held
<1> QED
  BY <1>1, <1>2 DEF Held

LEMMA ThrowStep ==
    ASSUME Inv, NEW i \in DOMAIN tasks, Ready(i), NEW fs, Held(fs), Throw(i, fs)
    PROVE  Inv' /\ Grown
<1> DEFINE catches == {j \in DOMAIN fs : fs[j].k = "attempt"}
           n       == Len(scopes)
<1>1. StackOK(fs, Dead, n) /\ IsSeq(fs) /\ Len(fs) \in Nat /\ DOMAIN fs = 1 .. Len(fs)
  BY SeqFacts DEF Held, StackOK
<1>2. n \in Nat /\ DOMAIN scopes = 1 .. n /\ scope \in 1 .. n
  BY ScopeFacts DEF Inv
<1>3. CASE catches = {}
  <2>1. scope' = Restored(fs) /\ IF i = Main THEN Finish("failed") ELSE CompleteBranch(i, "failed")
    BY <1>3 DEF Throw
  <2>2. scope' \in DOMAIN scopes
    BY <1>1, <1>2, <2>1, RestoredIn
  <2>3. CASE i = Main
    BY <2>1, <2>2, <2>3, FinishStep
  <2>4. CASE i # Main
    BY <2>1, <2>2, <2>4, CompleteStep
  <2> QED
    BY <2>3, <2>4
<1>4. CASE catches # {}
  <2>1. catches \in SUBSET (1 .. Len(fs))
    BY <1>1
  <2>2. PICK j \in catches : j = Min(catches)
    BY <1>1, <1>4, <2>1, LeastAndGreatest
  <2> DEFINE saved == Restored(SubSeq(fs, 1, j - 1))
             under == SubSeq(fs, j + 1, Len(fs))
             own   == n + 1
             sal   == [k |-> "salvage", saved |-> saved, own |-> own]
             r     == [parent |-> saved, consts |-> {}, vars |-> (fs[j].err :> Str(<<"message">>))]
             gs    == <<Frame(fs[j].salvage, 0), sal>> \o under
  <2>3. j \in DOMAIN fs /\ fs[j].k = "attempt"
    BY <2>2
  <2>4. /\ scopes' = Append(scopes, r) /\ scope' = own
        /\ GoOn(i, gs)
        /\ UNCHANGED <<names, objs, branches, rites, awaited, outcome>>
    BY <1>4, <2>2 DEF Throw
  <2>5. Suffix(fs, j, under)
    BY <1>1, <2>3, SuffixSub
  <2>6. saved \in 1 .. n
    <3>1. StackOK(fs, Dead, n) /\ n \in Nat /\ scope \in 1 .. n /\ j \in DOMAIN fs
      BY <1>1, <1>2, <2>3
    <3> HIDE DEF n
    <3> QED
      BY <3>1, StackAbove, Zenon
  <2>7. StackOK(under, Dead, n) /\ IsSeq(under)
    <3> HIDE DEF under, n
    <3>1. StackOK(fs, Dead, n) /\ Suffix(fs, j, under)
      BY <1>1, <2>5
    <3>2. StackOK(under, Dead, n)
      BY <3>1, StackUnder, Zenon
    <3> QED
      BY <3>2 DEF StackOK
  <2>8. ASSUME Tracks(scope, fs) PROVE Tracks(saved, under)
    <3>1. IsScope(fs, j, saved)
      BY <1>1, <2>3, <2>8, RestoredScope
    <3>2. ~Owns(fs[j])
      BY <2>3 DEF Owns
    <3>3. IsScope(fs, j + 1, saved)
      BY <1>1, <2>3, <3>1, <3>2, ScopeStep
    <3> HIDE DEF saved, under
    <3> QED
      BY <2>5, <2>8, <3>3, TracksUnder
  <2> HIDE DEF saved, under
  <2>9. DOMAIN r = {"parent", "vars", "consts"} /\ r.parent = saved /\ r.consts = {}
    OBVIOUS
  <2>10. sal.k = "salvage" /\ sal.saved = saved /\ sal.own = own /\ Owns(sal)
    BY DEF Owns
  <2> HIDE DEF r, sal
  <2>11. ScopesOK' /\ Len(scopes') = n + 1
    BY <1>2, <2>4, <2>6, <2>9, NewScope DEF Inv
  <2>12. Grown /\ Dead' = Dead
    BY <2>4, NothingGrown DEF Inv, Dead
  <2>13. Code(fs[j].salvage)
    BY <1>1, <2>3 DEF StackOK, FrameOK, BlockFrame
  <2>14. BlockFrame(Frame(fs[j].salvage, 0), Dead)
    BY <2>13, NewBlock
  <2>15. gs = <<Frame(fs[j].salvage, 0)>> \o (<<sal>> \o under)
    BY <2>7, ConsTwo
  <2>16. StackOK(under, Dead, n + 1)
    <3>1. n <= n + 1 /\ n + 1 \in Nat
      BY <1>2
    <3> QED
      BY <1>2, <2>7, <3>1, StackMonotonic
  <2>17. FrameOK(sal, Dead, n + 1)
    BY <1>2, <2>6, <2>10 DEF FrameOK
  <2>18. StackOK(<<sal>> \o under, Dead, n + 1)
    BY <2>10, <2>16, <2>17, StackPush
  <2>19. FrameOK(Frame(fs[j].salvage, 0), Dead, n + 1) /\ Frame(fs[j].salvage, 0).k = "block"
         /\ ~Owns(Frame(fs[j].salvage, 0))
    BY <2>14, BlockFacts
  <2>20. StackOK(gs, Dead, n + 1)
    BY <2>15, <2>18, <2>19, StackPush
  <2>21. ASSUME Len(tasks) = 1, outcome = "running" PROVE Tracks(scope', gs)
    <3>1. Tracks(saved, under)
      BY <2>8, <2>21 DEF Held
    <3>2. Tracks(IF Owns(sal) THEN sal.own ELSE saved, <<sal>> \o under)
      BY <2>7, <2>10, <3>1, TracksPush
    <3>3. Tracks(own, <<sal>> \o under) /\ IsSeq(<<sal>> \o under)
      BY <2>10, <2>18, <3>2 DEF StackOK
    <3>4. Tracks(IF Owns(Frame(fs[j].salvage, 0)) THEN Frame(fs[j].salvage, 0).own ELSE own,
                 <<Frame(fs[j].salvage, 0)>> \o (<<sal>> \o under))
      BY <2>19, <3>3, TracksPush
    <3> QED
      BY <2>4, <2>15, <2>19, <3>4
  <2> HIDE DEF gs
  <2>22. Len(scopes) <= Len(scopes')
    BY <1>2, <2>11
  <2>23. StackOK(gs, Dead', Len(scopes'))
    BY <2>11, <2>12, <2>20
  <2>24. UNCHANGED <<awaited, outcome>>
    BY <2>4
  <2>25. Inv'
    BY <2>4, <2>11, <2>12, <2>21, <2>22, <2>23, <2>24, GoOnStep
  <2> QED
    BY <2>12, <2>25
<1> QED
  BY <1>3, <1>4

\* The step of a task that changes no scope.
LEMMA GoOnHeld ==
    ASSUME Inv, NEW i \in DOMAIN tasks, Ready(i), NEW fs, GoOn(i, fs), Held(fs), Grown,
           UNCHANGED <<scopes, rites, scope, awaited, outcome>>
    PROVE  Inv'
<1>1. ScopesOK' /\ Len(scopes) <= Len(scopes')
  <2>1. scope' \in DOMAIN scopes
    BY DEF Inv, ScopesOK
  <2> QED
    BY <2>1, SameScopes DEF Inv
<1>2. StackOK(fs, Dead', Len(scopes'))
  <2>1. Dead \subseteq Dead' /\ Len(scopes') = Len(scopes) /\ Len(scopes) \in Nat /\ Len(scopes) <= Len(scopes)
    BY ScopeFacts DEF Grown, Inv
  <2>2. StackOK(fs, Dead, Len(scopes))
    BY DEF Held
  <2> QED
    BY <2>1, <2>2, StackMonotonic
<1>3. Len(tasks) = 1 /\ outcome = "running" => Tracks(scope', fs)
  BY DEF Held
<1> QED
  BY <1>1, <1>2, <1>3, GoOnStep

LEMMA HeldAgain ==
    ASSUME NEW fs, Held(fs), fs # <<>>, fs[1].k = "block", NEW s, WellFormed(s)
    PROVE  Held(Again(fs, s))
  BY AgainOK DEF Held

LEMMA HeldBlock ==
    ASSUME NEW fs, Held(fs), NEW b, Code(b)
    PROVE  Held(<<Frame(b, 0)>> \o fs)
<1>1. BlockFrame(Frame(b, 0), Dead)
  BY NewBlock
<1>2. FrameOK(Frame(b, 0), Dead, Len(scopes)) /\ Frame(b, 0).k = "block" /\ ~Owns(Frame(b, 0))
  BY <1>1, BlockFacts
<1>3. StackOK(<<Frame(b, 0)>> \o fs, Dead, Len(scopes))
  BY <1>2, StackPush DEF Held
<1>4. ASSUME Tracks(scope, fs) PROVE Tracks(scope, <<Frame(b, 0)>> \o fs)
  <2>1. Tracks(IF Owns(Frame(b, 0)) THEN Frame(b, 0).own ELSE scope, <<Frame(b, 0)>> \o fs)
    BY <1>2, <1>4, TracksPush DEF Held, StackOK
  <2> QED
    BY <1>2, <2>1
<1> QED
  BY <1>3, <1>4 DEF Held

LEMMA RaiseStep ==
    ASSUME Inv, NEW i \in DOMAIN tasks, Raise(i)
    PROVE  Inv' /\ Grown
<1>1. Held(Rest(i))
  BY RestHeld DEF Raise
<1> QED
  BY <1>1, ThrowStep DEF Raise, HasStmt

LEMMA FrameEndStep ==
    ASSUME Inv, NEW i \in DOMAIN tasks, FrameEnd(i)
    PROVE  Inv' /\ Grown
<1> DEFINE fs == tasks[i].stack
           n  == Len(scopes)
<1>1. Ready(i) /\ fs # <<>> /\ tasks[i].status # "waiting" /\ Top(i) = Head(fs)
  BY DEF FrameEnd, Ready, Top
<1>2. Held(fs)
  BY <1>1, StackHeld
<1>3. StackOK(fs, Dead, n) /\ IsSeq(fs)
  BY <1>2 DEF Held, StackOK
<1>4. /\ StackOK(Tail(fs), Dead, n) /\ FrameOK(fs[1], Dead, n) /\ Head(fs) = fs[1]
      /\ fs[1].k = "rite" => Tail(fs) # <<>> /\ Tail(fs)[1].k = "block"
  BY <1>1, <1>3, StackPop
<1>5. \A x : Tracks(x, fs) => Tracks(IF Owns(fs[1]) THEN fs[1].saved ELSE x, Tail(fs))
  BY <1>1, <1>3, TracksPop
<1>6. UNCHANGED <<names, objs, branches, scopes, rites, awaited, outcome>>
  BY DEF FrameEnd
<1>7. Grown /\ Dead' = Dead
  BY <1>6, NothingGrown DEF Inv, Dead
<1>8. n \in Nat /\ DOMAIN scopes = 1 .. n
  BY ScopeFacts DEF Inv
<1>9. CASE ~Owns(fs[1])
  <2>1. GoOn(i, Tail(fs)) /\ UNCHANGED scope
    BY <1>1, <1>4, <1>9 DEF FrameEnd, Owns
  <2>2. Held(Tail(fs))
    BY <1>2, <1>4, <1>5, <1>9 DEF Held
  <2> QED
    BY <1>1, <1>6, <1>7, <2>1, <2>2, GoOnHeld
<1>10. CASE Owns(fs[1])
  <2>1. fs[1].saved \in 1 .. n
    BY <1>4, <1>10 DEF FrameOK, BlockFrame, Owns
  <2>2. scope' = fs[1].saved
    BY <1>1, <1>4, <1>10 DEF FrameEnd, Owns
  <2>3. ScopesOK' /\ Len(scopes) <= Len(scopes')
    BY <1>6, <1>8, <2>1, <2>2, SameScopes DEF Inv
  <2>4. Len(tasks) = 1 /\ outcome = "running" => Tracks(scope', Tail(fs))
    BY <1>2, <1>5, <1>10, <2>2 DEF Held
  <2>5. CASE fs[1].k = "salvage"
    <3>1. GoOn(i, Tail(fs))
      BY <1>1, <1>4, <2>5 DEF FrameEnd
    <3>2. StackOK(Tail(fs), Dead', Len(scopes'))
      BY <1>4, <1>6, <1>7
    <3> QED
      BY <1>1, <1>6, <1>7, <2>3, <2>4, <3>1, <3>2, GoOnStep
  <2>6. CASE fs[1].k = "rite"
    <3> DEFINE s  == WithValue(fs[1].stmt, Answered(fs[1].stmt.value, Void))
               gs == Again(Tail(fs), s)
    <3>1. GoOn(i, gs)
      BY <1>1, <1>4, <2>6 DEF FrameEnd, WithValue
    <3>2. WellFormed(s)
      BY <1>4, <2>6, ValueWellFormed DEF FrameOK, BlockFrame
    <3> HIDE DEF s
    <3>3. StackOK(gs, Dead, n) /\ \A x : Tracks(x, Tail(fs)) => Tracks(x, gs)
      BY <1>4, <2>6, <3>2, AgainOK
    <3> HIDE DEF gs
    <3>4. StackOK(gs, Dead', Len(scopes'))
      BY <1>6, <1>7, <3>3
    <3>5. Len(tasks) = 1 /\ outcome = "running" => Tracks(scope', gs)
      BY <2>4, <3>3
    <3> QED
      BY <1>1, <1>6, <1>7, <2>3, <3>1, <3>4, <3>5, GoOnStep
  <2> QED
    BY <1>10, <2>5, <2>6 DEF Owns
<1> QED
  BY <1>9, <1>10

LEMMA BequeathStep ==
    ASSUME Inv, NEW i \in DOMAIN tasks, Bequeath(i)
    PROVE  Inv' /\ Grown
<1> DEFINE fs    == Rest(i)
           calls == {j \in DOMAIN fs : fs[j].k = "rite"}
           n     == Len(scopes)
<1>1. HasStmt(i) /\ Ready(i)
  BY DEF Bequeath, Decided, At, HasStmt
<1>2. Held(fs)
  BY <1>1, RestHeld
<1>3. StackOK(fs, Dead, n) /\ IsSeq(fs) /\ Len(fs) \in Nat /\ DOMAIN fs = 1 .. Len(fs)
  BY <1>2, SeqFacts DEF Held, StackOK
<1>4. n \in Nat /\ DOMAIN scopes = 1 .. n /\ scope \in 1 .. n
  BY ScopeFacts DEF Inv
<1>5. /\ calls = {} => /\ scope' = Restored(fs)
                       /\ IF i = Main THEN Finish("failed") ELSE CompleteBranch(i, "failed")
      /\ calls # {} => /\ scope' = fs[Min(calls)].saved
                       /\ GoOn(i, Again(SubSeq(fs, Min(calls) + 1, Len(fs)),
                                        WithValue(fs[Min(calls)].stmt, Answered(fs[Min(calls)].stmt.value, ValueOf(Stmt(i).value)))))
                       /\ UNCHANGED <<names, objs, branches, scopes, rites, awaited, outcome>>
  BY DEF Bequeath, WithValue
<1> HIDE DEF fs, n
<1>6. CASE calls = {}
  <2>1. scope' \in DOMAIN scopes
    BY <1>3, <1>4, <1>5, <1>6, RestoredIn DEF n
  <2>2. CASE i = Main
    BY <1>5, <1>6, <2>1, <2>2, FinishStep
  <2>3. CASE i # Main
    BY <1>1, <1>5, <1>6, <2>1, <2>3, CompleteStep
  <2> QED
    BY <2>2, <2>3
<1>7. CASE calls # {}
  <2>1. calls \in SUBSET (1 .. Len(fs))
    BY <1>3
  <2>2. PICK j \in calls : j = Min(calls)
    BY <1>3, <1>7, <2>1, LeastAndGreatest
  <2> DEFINE under == SubSeq(fs, j + 1, Len(fs))
             s     == WithValue(fs[j].stmt, Answered(fs[j].stmt.value, ValueOf(Stmt(i).value)))
             gs    == Again(under, s)
  <2>3. j \in DOMAIN fs /\ fs[j].k = "rite" /\ Owns(fs[j])
    BY <2>2 DEF Owns
  <2>4. /\ scope' = fs[j].saved
        /\ GoOn(i, gs)
        /\ UNCHANGED <<names, objs, branches, scopes, rites, awaited, outcome>>
    BY <1>5, <1>7, <2>2
  <2>5. Suffix(fs, j, under)
    BY <1>3, <2>3, SuffixSub
  <2>6. /\ FrameOK(fs[j], Dead, n) /\ j + 1 \in DOMAIN fs /\ fs[j + 1].k = "block"
    BY <1>3, <2>3 DEF StackOK
  <2>7. fs[j].saved \in 1 .. n /\ WellFormed(fs[j].stmt) /\ fs[j].stmt.type \in Valued
    BY <2>3, <2>6 DEF FrameOK, BlockFrame
  <2>8. WellFormed(s)
    BY <2>7, ValueWellFormed
  <2> HIDE DEF under, s
  <2>9. StackOK(under, Dead, n)
    BY <1>3, <2>5, StackUnder
  <2>10. under # <<>> /\ under[1].k = "block"
    <3>1. 1 \in 1 .. Len(under) /\ IsSeq(under) /\ \A k \in 1 .. Len(under) : under[k] = fs[j + k]
      BY <1>3, <2>3, <2>5, <2>6 DEF Suffix
    <3>2. under[1] = fs[j + 1]
      BY <3>1
    <3> QED
      BY <2>6, <3>1, <3>2, SeqEmpty
  <2>11. StackOK(gs, Dead, n) /\ \A x : Tracks(x, under) => Tracks(x, gs)
    BY <2>8, <2>9, <2>10, AgainOK
  <2> HIDE DEF gs
  <2>12. ASSUME Tracks(scope, fs) PROVE Tracks(fs[j].saved, under)
    <3>1. IsScope(fs, j + 1, fs[j].saved)
      BY <2>3, <2>12 DEF Tracks
    <3> QED
      BY <2>5, <2>12, <3>1, TracksUnder
  <2>13. Grown /\ Dead' = Dead
    BY <2>4, NothingGrown DEF Inv, Dead
  <2>14. ScopesOK' /\ Len(scopes) <= Len(scopes')
    BY <1>4, <2>4, <2>7, SameScopes DEF Inv, n
  <2>15. StackOK(gs, Dead', Len(scopes'))
    BY <2>4, <2>11, <2>13 DEF n
  <2>16. Len(tasks) = 1 /\ outcome = "running" => Tracks(scope', gs)
    BY <1>2, <2>4, <2>11, <2>12 DEF Held
  <2>17. UNCHANGED <<awaited, outcome>>
    BY <2>4
  <2>18. Inv'
    BY <1>1, <2>4, <2>13, <2>14, <2>15, <2>16, <2>17, GoOnStep
  <2> QED
    BY <2>13, <2>18
<1> QED
  BY <1>6, <1>7

------------------------------------------------------------------------------
(* Steps: the expression language *)

LEMMA CallRiteStep ==
    ASSUME Inv, NEW i \in DOMAIN tasks, CallRite(i)
    PROVE  Inv' /\ Grown
<1> DEFINE call == Stmt(i).value
           rite == rites[Callee(call)]
           n    == Len(scopes)
           own  == n + 1
           arg(m) == Args(call)[1 + Max({k \in DOMAIN rite.params : rite.params[k] = m})]
           r    == [parent |-> rite.closure, consts |-> {},
                    vars |-> [m \in {rite.params[k] : k \in DOMAIN rite.params} |-> arg(m)]]
           f    == [k |-> "rite", saved |-> scope, own |-> own, stmt |-> Stmt(i)]
           fs   == Rest(i)
           gs   == <<Frame(rite.body, 0), f>> \o fs
<1>1. HasStmt(i) /\ Ready(i) /\ Stmt(i).type \in Valued /\ Callable(call)
  BY DEF CallRite, At, HasStmt
<1>2. /\ scopes' = Append(scopes, r) /\ scope' = own
      /\ GoOn(i, gs)
      /\ UNCHANGED <<names, objs, branches, rites, awaited, outcome>>
  BY DEF CallRite
<1>3. Callee(call) \in DOMAIN rites
  BY <1>1 DEF Callable
<1>4. rite.closure \in DOMAIN scopes /\ Code(rite.body)
  BY <1>3 DEF Inv, ScopesOK
<1> HIDE DEF call, rite, arg
<1>5. Held(fs) /\ WellFormed(Stmt(i)) /\ fs # <<>> /\ fs[1].k = "block"
  BY <1>1, RestHeld
<1> HIDE DEF fs
<1>6. n \in Nat /\ DOMAIN scopes = 1 .. n /\ scope \in 1 .. n /\ n <= n + 1 /\ n + 1 \in Nat
  BY ScopeFacts DEF Inv
<1>7. DOMAIN r = {"parent", "vars", "consts"} /\ r.parent = rite.closure /\ r.consts = {}
  OBVIOUS
<1>8. f.k = "rite" /\ f.saved = scope /\ f.own = own /\ f.stmt = Stmt(i) /\ Owns(f)
  BY DEF Owns
<1> HIDE DEF r, f
<1>9. ScopesOK' /\ Len(scopes') = n + 1
  BY <1>2, <1>4, <1>6, <1>7, NewScope DEF Inv
<1>10. Grown /\ Dead' = Dead
  BY <1>2, NothingGrown DEF Inv, Dead
<1>11. StackOK(fs, Dead, n) /\ IsSeq(fs)
  BY <1>5 DEF Held, StackOK
<1>12. StackOK(fs, Dead, n + 1)
  BY <1>6, <1>11, StackMonotonic
<1>13. FrameOK(f, Dead, n + 1)
  BY <1>1, <1>5, <1>6, <1>8 DEF FrameOK
<1>14. StackOK(<<f>> \o fs, Dead, n + 1)
  BY <1>5, <1>12, <1>13, StackPush
<1>15. BlockFrame(Frame(rite.body, 0), Dead)
  BY <1>4, NewBlock
<1>16. /\ FrameOK(Frame(rite.body, 0), Dead, n + 1) /\ Frame(rite.body, 0).k = "block"
       /\ ~Owns(Frame(rite.body, 0))
  BY <1>15, BlockFacts
<1>17. gs = <<Frame(rite.body, 0)>> \o (<<f>> \o fs)
  BY <1>11, ConsTwo
<1>18. StackOK(gs, Dead, n + 1)
  BY <1>14, <1>16, <1>17, StackPush
<1>19. ASSUME Len(tasks) = 1, outcome = "running" PROVE Tracks(scope', gs)
  <2>1. Tracks(scope, fs)
    BY <1>5, <1>19 DEF Held
  <2>2. Tracks(IF Owns(f) THEN f.own ELSE scope, <<f>> \o fs)
    BY <1>8, <1>11, <2>1, TracksPush
  <2>3. Tracks(own, <<f>> \o fs) /\ IsSeq(<<f>> \o fs)
    BY <1>8, <1>14, <2>2 DEF StackOK
  <2>4. Tracks(IF Owns(Frame(rite.body, 0)) THEN Frame(rite.body, 0).own ELSE own,
               <<Frame(rite.body, 0)>> \o (<<f>> \o fs))
    BY <1>16, <2>3, TracksPush
  <2> QED
    BY <1>2, <1>16, <1>17, <2>4
<1> HIDE DEF gs
<1>20. Len(scopes) <= Len(scopes') /\ StackOK(gs, Dead', Len(scopes')) /\ UNCHANGED <<awaited, outcome>>
  BY <1>2, <1>6, <1>9, <1>10, <1>18
<1>21. Inv'
  BY <1>1, <1>2, <1>9, <1>10, <1>19, <1>20, GoOnStep
<1> QED
  BY <1>10, <1>21

LEMMA EvaluateStep ==
    ASSUME Inv, NEW i \in DOMAIN tasks, Evaluate(i)
    PROVE  Inv' /\ Grown
<1> DEFINE s == WithValue(Stmt(i), Stepped(Stmt(i).value))
<1>1. HasStmt(i) /\ Ready(i) /\ Stmt(i).type \in Valued
  BY DEF Evaluate, At, HasStmt
<1>2. GoOn(i, Again(Rest(i), s)) /\ UNCHANGED <<names, objs, branches, scopes, rites, scope, awaited, outcome>>
  BY DEF Evaluate, WithValue
<1>3. Held(Rest(i)) /\ WellFormed(Stmt(i)) /\ Rest(i) # <<>> /\ Rest(i)[1].k = "block"
  BY <1>1, RestHeld
<1>4. WellFormed(s)
  BY <1>1, <1>3, ValueWellFormed
<1> HIDE DEF s
<1>5. Held(Again(Rest(i), s))
  BY <1>3, <1>4, HeldAgain
<1>6. Grown
  BY <1>2, NothingGrown DEF Inv
<1> QED
  BY <1>1, <1>2, <1>5, <1>6, GoOnHeld

LEMMA DefineStep ==
    ASSUME Inv, NEW i \in DOMAIN tasks, HasStmt(i), GoOn(i, Rest(i)),
           NEW s, NEW n, NEW value, NEW constant \in BOOLEAN, Define(s, n, value, constant),
           UNCHANGED <<names, objs, branches, scope, awaited, outcome>>,
           IsSeq(rites'),
           \A r \in DOMAIN rites' : rites'[r].closure \in DOMAIN scopes /\ Code(rites'[r].body)
    PROVE  Inv' /\ Grown
<1>1. /\ IsSeq(scopes') /\ Len(scopes') = Len(scopes) /\ DOMAIN scopes' = DOMAIN scopes
      /\ \A u \in DOMAIN scopes' : /\ DOMAIN scopes'[u] = {"parent", "vars", "consts"}
                                  /\ scopes'[u].parent \in 0 .. u - 1
                                  /\ scopes'[u].consts \subseteq DOMAIN scopes'[u].vars
  BY Defined DEF Inv
<1>2. ScopesOK' /\ Len(scopes) <= Len(scopes')
  <2>1. Len(scopes) \in Nat
    BY ScopeFacts DEF Inv
  <2>2. scope' \in DOMAIN scopes'
    BY <1>1 DEF Inv, ScopesOK
  <2> QED
    BY <1>1, <2>1, <2>2 DEF ScopesOK
<1>3. Held(Rest(i)) /\ Ready(i)
  BY RestHeld DEF HasStmt
<1>4. Grown /\ Dead' = Dead
  BY NothingGrown DEF Inv, Dead
<1>5. StackOK(Rest(i), Dead', Len(scopes')) /\ UNCHANGED <<awaited, outcome>>
  BY <1>1, <1>3, <1>4 DEF Held
<1>6. Len(tasks) = 1 /\ outcome = "running" => Tracks(scope', Rest(i))
  BY <1>3 DEF Held
<1> QED
  BY <1>2, <1>3, <1>4, <1>5, <1>6, GoOnStep

LEMMA DeclareStep ==
    ASSUME Inv, NEW i \in DOMAIN tasks, Declare(i)
    PROVE  Inv' /\ Grown
<1>1. /\ HasStmt(i) /\ GoOn(i, Rest(i))
      /\ Define(scope, Stmt(i).name, ValueOf(Stmt(i).value), Stmt(i).type = "ENTOMB")
      /\ (Stmt(i).type = "ENTOMB") \in BOOLEAN
      /\ UNCHANGED <<names, objs, branches, scope, awaited, outcome>> /\ rites' = rites
  BY DEF Declare, Decided, At
<1>2. IsSeq(rites') /\ \A r \in DOMAIN rites' : rites'[r].closure \in DOMAIN scopes /\ Code(rites'[r].body)
  BY <1>1 DEF Inv, ScopesOK
<1> QED
  BY <1>1, <1>2, DefineStep

LEMMA AssignStep ==
    ASSUME Inv, NEW i \in DOMAIN tasks, Assign(i)
    PROVE  Inv' /\ Grown
<1>1. /\ HasStmt(i) /\ GoOn(i, Rest(i))
      /\ Define(Holder(scope, Stmt(i).target.name), Stmt(i).target.name, ValueOf(Stmt(i).value), FALSE)
      /\ UNCHANGED <<names, objs, branches, scope, awaited, outcome>> /\ rites' = rites
  BY DEF Assign, Decided, At
<1>2. IsSeq(rites') /\ \A r \in DOMAIN rites' : rites'[r].closure \in DOMAIN scopes /\ Code(rites'[r].body)
  BY <1>1 DEF Inv, ScopesOK
<1> QED
  BY <1>1, <1>2, DefineStep

LEMMA DefineRiteStep ==
    ASSUME Inv, NEW i \in DOMAIN tasks, DefineRite(i)
    PROVE  Inv' /\ Grown
<1> DEFINE r == [params |-> Stmt(i).params, body |-> Stmt(i).body, closure |-> scope]
<1>1. /\ HasStmt(i) /\ Stmt(i).type = "RITE" /\ GoOn(i, Rest(i))
      /\ Define(scope, Stmt(i).name, RiteValue(Len(rites) + 1), TRUE)
      /\ UNCHANGED <<names, objs, branches, scope, awaited, outcome>> /\ rites' = Append(rites, r)
  BY DEF DefineRite, At
<1>2. Code(Stmt(i).body)
  BY <1>1, RestHeld, CodeOf DEF WellFormed
<1>3. r.closure \in DOMAIN scopes /\ Code(r.body)
  BY <1>2 DEF Inv, ScopesOK
<1> HIDE DEF r
<1>4. IsSeq(rites) /\ Len(rites) \in Nat /\ DOMAIN rites = 1 .. Len(rites)
  BY SeqFacts DEF Inv, ScopesOK
<1>5. /\ IsSeq(rites') /\ Len(rites') = Len(rites) + 1
      /\ \A k \in 1 .. Len(rites) : rites'[k] = rites[k]
      /\ rites'[Len(rites) + 1] = r
  BY <1>1, <1>4, SeqAppend
<1>6. DOMAIN rites' = 1 .. Len(rites) + 1
  BY <1>5, SeqFacts
<1>7. ASSUME NEW k \in DOMAIN rites' PROVE rites'[k].closure \in DOMAIN scopes /\ Code(rites'[k].body)
  <2>1. CASE k \in DOMAIN rites
    BY <1>4, <1>5, <2>1 DEF Inv, ScopesOK
  <2>2. CASE k \notin DOMAIN rites
    <3>1. k = Len(rites) + 1
      BY <1>4, <1>6, <2>2
    <3> QED
      BY <1>3, <1>5, <3>1
  <2> QED
    BY <2>1, <2>2
<1> QED
  BY <1>1, <1>5, <1>7, DefineStep

LEMMA ExprStmtStep ==
    ASSUME Inv, NEW i \in DOMAIN tasks, ExprStmt(i)
    PROVE  Inv' /\ Grown
<1>1. /\ HasStmt(i) /\ Ready(i) /\ GoOn(i, Rest(i))
      /\ UNCHANGED <<names, objs, branches, scopes, rites, scope, awaited, outcome>>
  BY DEF ExprStmt, Decided, At, HasStmt
<1>2. Held(Rest(i)) /\ Grown
  BY <1>1, RestHeld, NothingGrown DEF Inv
<1> QED
  BY <1>1, <1>2, GoOnHeld

LEMMA ConditionalStep ==
    ASSUME Inv, NEW i \in DOMAIN tasks, Conditional(i)
    PROVE  Inv' /\ Grown
<1> DEFINE b == IF isTruthy(ValueOf(Stmt(i).value)) THEN Stmt(i).then ELSE Stmt(i).else
<1>1. /\ HasStmt(i) /\ Ready(i) /\ Stmt(i).type = "SHOULD" /\ GoOn(i, <<Frame(b, 0)>> \o Rest(i))
      /\ UNCHANGED <<names, objs, branches, scopes, rites, scope, awaited, outcome>>
  BY DEF Conditional, Decided, At, HasStmt
<1>2. Held(Rest(i)) /\ WellFormed(Stmt(i)) /\ Grown
  BY <1>1, RestHeld, NothingGrown DEF Inv
<1>3. b \in Seq(Statement)
  BY <1>1, <1>2 DEF WellFormed
<1> HIDE DEF b
<1>4. Held(<<Frame(b, 0)>> \o Rest(i))
  BY <1>2, <1>3, CodeOf, HeldBlock
<1> QED
  BY <1>1, <1>2, <1>4, GoOnHeld

LEMMA AttemptStep ==
    ASSUME Inv, NEW i \in DOMAIN tasks, Attempt(i)
    PROVE  Inv' /\ Grown
<1> DEFINE s  == Stmt(i)
           f  == [k |-> "attempt", err |-> s.err, salvage |-> s.salvage]
           gs == <<Frame(s.body, 0), f>> \o Rest(i)
<1>1. /\ HasStmt(i) /\ Ready(i) /\ s.type = "ATTEMPT" /\ GoOn(i, gs)
      /\ UNCHANGED <<names, objs, branches, scopes, rites, scope, awaited, outcome>>
  BY DEF Attempt, At, HasStmt
<1>2. Held(Rest(i)) /\ WellFormed(s) /\ Grown
  BY <1>1, RestHeld, NothingGrown DEF Inv
<1> HIDE DEF s
<1>3. Code(s.body) /\ Code(s.salvage)
  BY <1>1, <1>2, CodeOf DEF WellFormed
<1>4. f.k = "attempt" /\ f.salvage = s.salvage /\ ~Owns(f)
  BY DEF Owns
<1> HIDE DEF f
<1>5. StackOK(Rest(i), Dead, Len(scopes)) /\ IsSeq(Rest(i))
  BY <1>2 DEF Held, StackOK
<1>6. FrameOK(f, Dead, Len(scopes))
  BY <1>3, <1>4 DEF FrameOK
<1>7. StackOK(<<f>> \o Rest(i), Dead, Len(scopes))
  BY <1>4, <1>5, <1>6, StackPush
<1>8. ASSUME Tracks(scope, Rest(i)) PROVE Tracks(scope, <<f>> \o Rest(i))
  <2>1. Tracks(IF Owns(f) THEN f.own ELSE scope, <<f>> \o Rest(i))
    BY <1>4, <1>5, <1>8, TracksPush
  <2> QED
    BY <1>4, <2>1
<1>9. Held(<<f>> \o Rest(i))
  BY <1>2, <1>7, <1>8 DEF Held
<1>10. gs = <<Frame(s.body, 0)>> \o (<<f>> \o Rest(i))
  BY <1>5, ConsTwo
<1>11. Held(gs)
  BY <1>3, <1>9, <1>10, HeldBlock
<1> HIDE DEF gs
<1> QED
  BY <1>1, <1>2, <1>11, GoOnHeld

------------------------------------------------------------------------------
(* Steps: entities *)

LEMMA NewEntity ==
    ASSUME NEW kind \in Simple \cup Composite, NEW parts \in SUBSET Nat
    PROVE  /\ Entity(kind, parts) \in EntityType
           /\ Entity(kind, parts).kind = kind /\ ~Entity(kind, parts).dead /\ Entity(kind, parts).parts = parts
  BY DEF Entity, EntityType

\* Entities that are added to those there are, some of which have been killed.
LEMMA Added ==
    ASSUME EntitiesOK, NEW S, \A o \in S \cap DOMAIN objs : objs[o].kind \in Simple,
           NEW new \in Seq(EntityType), objs' = Kill(S) \o new,
           \A k \in DOMAIN new : ~new[k].dead /\ new[k].parts \subseteq 1 .. Len(objs) + k - 1,
           \A n \in DOMAIN names' : \/ n \in DOMAIN names /\ names'[n] = names[n]
                                    \/ \E k \in DOMAIN new : names'[n] = Len(objs) + k /\ new[k].kind \in {"timer", "branch"},
           DOMAIN names \subseteq DOMAIN names',
           branches' \subseteq DOMAIN names',
           \A n \in branches' \ branches : \E k \in DOMAIN new : names'[n] = Len(objs) + k
                                                             /\ new[k].kind \in {"timer", "branch"}
    PROVE  Grown
<1>1. /\ Kill(S) \in Seq(EntityType) /\ Len(Kill(S)) = Len(objs)
      /\ \A o \in DOMAIN objs : /\ Kill(S)[o].kind = objs[o].kind /\ Kill(S)[o].parts = objs[o].parts
                                /\ Kill(S)[o].dead <=> objs[o].dead \/ o \in S
  BY Killed
<1>2. Len(objs) \in Nat /\ DOMAIN objs = 1 .. Len(objs) /\ Len(new) \in Nat /\ DOMAIN new = 1 .. Len(new)
  BY EntityFacts
<1>3. PICK T : T = Kill(S)
  OBVIOUS
<1>4. T \in Seq(EntityType) /\ Len(T) = Len(objs)
  BY <1>1, <1>3
<1>5. new \in Seq(EntityType) /\ objs' = T \o new
  BY <1>3
<1>6. objs' \in Seq(EntityType) /\ Concat(objs', T, new)
  BY <1>4, <1>5, SeqConcat
<1>7. /\ objs' \in Seq(EntityType) /\ Len(objs') = Len(objs) + Len(new) /\ DOMAIN objs' = 1 .. Len(objs) + Len(new)
      /\ \A o \in DOMAIN objs : objs'[o] = T[o]
      /\ \A k \in DOMAIN new : objs'[Len(objs) + k] = new[k]
  BY <1>2, <1>4, <1>6 DEF Concat
<1>8. \A o \in DOMAIN objs : /\ objs'[o].kind = objs[o].kind /\ objs'[o].parts = objs[o].parts
                             /\ objs'[o].dead <=> objs[o].dead \/ o \in S
  BY <1>1, <1>3, <1>7
<1>9. ASSUME NEW o \in DOMAIN objs' \ DOMAIN objs PROVE ~objs'[o].dead /\ objs'[o].parts \subseteq 1 .. o - 1
  <2>1. PICK k \in DOMAIN new : o = Len(objs) + k
    <3>1. o - Len(objs) \in DOMAIN new /\ o = Len(objs) + (o - Len(objs))
      BY <1>2, <1>7, <1>9
    <3> QED
      BY <3>1
  <2> QED
    BY <1>7, <2>1
<1>10. \A k \in DOMAIN new : Len(objs) + k \in DOMAIN objs'
  BY <1>2, <1>7
<1>11. ASSUME NEW n \in DOMAIN names'
       PROVE  \/ n \in DOMAIN names /\ names'[n] = names[n]
              \/ names'[n] \in DOMAIN objs' /\ objs'[names'[n]].kind \in {"timer", "branch"}
  BY <1>7, <1>10
<1>12. ASSUME NEW n \in branches' PROVE n \in branches \/ objs'[names'[n]].kind \in {"timer", "branch"}
  BY <1>7, <1>10, <1>12
<1>13. Len(objs) <= Len(objs')
  BY <1>2, <1>7
<1>14. /\ \A o \in DOMAIN objs : objs'[o].kind = objs[o].kind /\ objs'[o].parts = objs[o].parts
       /\ \A o \in DOMAIN objs : objs[o].dead => objs'[o].dead
       /\ \A o \in DOMAIN objs : objs'[o].dead => objs[o].dead \/ objs[o].kind \in Simple
  BY <1>8
<1> QED
  BY <1>7, <1>9, <1>11, <1>12, <1>13, <1>14, Grows

LEMMA ImportStep ==
    ASSUME Inv, NEW i \in DOMAIN tasks, Import(i)
    PROVE  Inv' /\ Grown
<1> DEFINE s    == Stmt(i)
           good == s.kind = "timer" /\ s.ms >= 1
           old  == IF s.name \in DOMAIN names /\ ~objs[names[s.name]].dead THEN {names[s.name]} ELSE {}
           new  == <<Entity("timer", {})>>
           c    == [type |-> "CONDEMN", value |-> Literal(Void)]
<1>1. HasStmt(i) /\ Ready(i)
  BY DEF Import, At, HasStmt
<1>2. Held(Rest(i)) /\ Rest(i) # <<>> /\ Rest(i)[1].k = "block"
  BY <1>1, RestHeld
<1>3. EntitiesOK
  BY DEF Inv
<1>4. old \in SUBSET DOMAIN objs /\ \A o \in old : objs[o].kind \in Simple
  BY <1>3, NamedSimple DEF Named
<1>5. CASE good
  <2>1. /\ objs' = Append(Kill(old), Entity("timer", {}))
        /\ names' = Set(names, s.name, Len(objs) + 1)
        /\ GoOn(i, Rest(i))
        /\ UNCHANGED <<branches, scopes, rites, scope, awaited, outcome>>
    BY <1>5 DEF Import
  <2>2. Entity("timer", {}) \in EntityType /\ Entity("timer", {}).kind = "timer" /\ ~Entity("timer", {}).dead
        /\ Entity("timer", {}).parts = {}
    BY NewEntity DEF Simple
  <2>3. new \in Seq(EntityType) /\ DOMAIN new = {1} /\ new[1] = Entity("timer", {})
    BY <2>2
  <2>4. objs' = Kill(old) \o new
    <3>1. PICK T : T = Kill(old)
      OBVIOUS
    <3>2. T \in Seq(EntityType)
      BY <1>3, <3>1, Killed
    <3>3. Append(T, Entity("timer", {})) = T \o new
      BY <2>2, <3>2
    <3> QED
      BY <2>1, <3>1, <3>3
  <2> HIDE DEF new
  <2>5. /\ DOMAIN names' = DOMAIN names \cup {s.name}
        /\ \A n \in DOMAIN names' : names'[n] = IF n = s.name THEN Len(objs) + 1 ELSE names[n]
    BY <2>1 DEF Set
  <2>6. \A n \in DOMAIN names' :
            \/ n \in DOMAIN names /\ names'[n] = names[n]
            \/ \E k \in DOMAIN new : names'[n] = Len(objs) + k /\ new[k].kind \in {"timer", "branch"}
    BY <2>2, <2>3, <2>5
  <2>7. branches' \subseteq DOMAIN names' /\ branches' \ branches = {} /\ DOMAIN names \subseteq DOMAIN names'
    BY <1>3, <2>1, <2>5 DEF EntitiesOK
  <2>8. \A k \in DOMAIN new : ~new[k].dead /\ new[k].parts \subseteq 1 .. Len(objs) + k - 1
    BY <2>2, <2>3
  <2> HIDE DEF old
  <2>9. Grown
    BY <1>3, <1>4, <2>3, <2>4, <2>6, <2>7, <2>8, Added
  <2> QED
    BY <1>1, <1>2, <2>1, <2>9, GoOnHeld
<1>6. CASE ~good /\ old # {}
  <2>1. /\ objs' = Kill(old) /\ GoOn(i, Again(Rest(i), c))
        /\ UNCHANGED <<names, branches, scopes, rites, scope, awaited, outcome>>
    BY <1>6 DEF Import
  <2>2. WellFormed(c)
    BY CondemnWellFormed
  <2> HIDE DEF old, c
  <2>3. Grown
    BY <1>3, <1>4, <2>1, KillGrown
  <2>4. Held(Again(Rest(i), c))
    BY <1>2, <2>2, HeldAgain
  <2> QED
    BY <1>1, <2>1, <2>3, <2>4, GoOnHeld
<1>7. CASE ~good /\ old = {}
  <2>1. Throw(i, Rest(i))
    BY <1>7 DEF Import
  <2> QED
    BY <1>1, <1>2, <2>1, ThrowStep
<1> QED
  BY <1>5, <1>6, <1>7

LEMMA BifurcateStep ==
    ASSUME Inv, NEW i \in DOMAIN tasks, Bifurcate(i)
    PROVE  Inv' /\ Grown
<1> DEFINE s   == Stmt(i)
           e   == Entity("branch", {})
           new == <<e, e>>
           one == Set(names, s.b1, Len(objs) + 1)
<1>1. HasStmt(i) /\ Ready(i)
  BY DEF Bifurcate, At, HasStmt
<1>2. Held(Rest(i)) /\ EntitiesOK
  BY <1>1, RestHeld DEF Inv
<1>3. /\ objs' = objs \o new
      /\ names' = Set(one, s.b2, Len(objs) + 2)
      /\ branches' = branches \cup {s.b1, s.b2}
      /\ GoOn(i, Rest(i))
      /\ UNCHANGED <<scopes, rites, scope, awaited, outcome>>
  BY DEF Bifurcate
<1>4. e \in EntityType /\ e.kind = "branch" /\ ~e.dead /\ e.parts = {}
  BY NewEntity DEF Simple
<1> HIDE DEF e
<1>5. new \in Seq(EntityType) /\ DOMAIN new = {1, 2} /\ new[1] = e /\ new[2] = e
  BY <1>4
<1> HIDE DEF new
<1>6. objs' = Kill({}) \o new
  <2>1. Kill({}) = objs
    BY <1>2 DEF Kill, EntitiesOK
  <2> QED
    BY <1>3, <2>1
<1>7. /\ DOMAIN one = DOMAIN names \cup {s.b1}
      /\ \A n \in DOMAIN one : one[n] = IF n = s.b1 THEN Len(objs) + 1 ELSE names[n]
  BY DEF one, Set
<1> HIDE DEF one
<1>8. /\ DOMAIN names' = DOMAIN one \cup {s.b2}
      /\ \A n \in DOMAIN names' : names'[n] = IF n = s.b2 THEN Len(objs) + 2 ELSE one[n]
  BY <1>3 DEF Set
<1>9. /\ \A n \in DOMAIN names' \ {s.b1, s.b2} : n \in DOMAIN names /\ names'[n] = names[n]
      /\ \A n \in {s.b1, s.b2} : n \in DOMAIN names' /\ names'[n] \in {Len(objs) + 1, Len(objs) + 2}
  BY <1>7, <1>8
<1>10. \A n \in {s.b1, s.b2} : \E k \in DOMAIN new : names'[n] = Len(objs) + k /\ new[k].kind \in {"timer", "branch"}
  BY <1>4, <1>5, <1>9
<1>11. /\ \A n \in DOMAIN names' :
            \/ n \in DOMAIN names /\ names'[n] = names[n]
            \/ \E k \in DOMAIN new : names'[n] = Len(objs) + k /\ new[k].kind \in {"timer", "branch"}
       /\ \A n \in branches' \ branches : \E k \in DOMAIN new : names'[n] = Len(objs) + k
                                                          /\ new[k].kind \in {"timer", "branch"}
  BY <1>3, <1>9, <1>10
<1>12. branches' \subseteq DOMAIN names' /\ DOMAIN names \subseteq DOMAIN names'
  BY <1>2, <1>3, <1>7, <1>8 DEF EntitiesOK
<1>13. \A k \in DOMAIN new : ~new[k].dead /\ new[k].parts \subseteq 1 .. Len(objs) + k - 1
  BY <1>4, <1>5
<1>14. Grown
  BY <1>2, <1>5, <1>6, <1>11, <1>12, <1>13, Added
<1> QED
  BY <1>1, <1>2, <1>3, <1>14, GoOnHeld

LEMMA DieStep ==
    ASSUME Inv, NEW i \in DOMAIN tasks, Die(i)
    PROVE  Inv' /\ Grown
<1> DEFINE o == names[Stmt(i).target[1]]
           s == WithTarget(Stmt(i), Tail(Stmt(i).target))
<1>1. HasStmt(i) /\ Ready(i) /\ Stmt(i).type = "DieStmt"
  BY DEF Die, At, HasStmt
<1>2. Stmt(i).target[1] \in DOMAIN names
  BY <1>1 DEF Die, Fails
<1>3. Held(Rest(i)) /\ WellFormed(Stmt(i)) /\ Rest(i) # <<>> /\ Rest(i)[1].k = "block"
  BY <1>1, RestHeld
<1>4. /\ objs' = Kill({o})
      /\ GoOn(i, IF Len(Stmt(i).target) = 1 THEN Rest(i) ELSE Again(Rest(i), s))
      /\ UNCHANGED <<names, branches, scopes, rites, scope, awaited, outcome>>
  BY DEF Die, WithTarget
<1>5. {o} \in SUBSET DOMAIN objs /\ \A p \in {o} : objs[p].kind \in Simple
  BY <1>2, NamedSimple DEF Named, Inv
<1>6. WellFormed(s)
  BY <1>1, <1>3, TargetWellFormed
<1> HIDE DEF o, s
<1>7. Grown
  BY <1>4, <1>5, KillGrown DEF Inv
<1>8. Held(Again(Rest(i), s))
  BY <1>3, <1>6, HeldAgain
<1>9. CASE Len(Stmt(i).target) = 1
  BY <1>1, <1>3, <1>4, <1>7, <1>9, GoOnHeld
<1>10. CASE Len(Stmt(i).target) # 1
  BY <1>1, <1>4, <1>7, <1>8, <1>10, GoOnHeld
<1> QED
  BY <1>9, <1>10

------------------------------------------------------------------------------
(* Steps: waiting, and branches *)

\* A stack of one block.
LEMMA StackOne ==
    ASSUME NEW f, NEW D, NEW n, BlockFrame(f, D)
    PROVE  StackOK(<<f>>, D, n) /\ \A x : Tracks(x, <<f>>) <=> x = Global
<1>1. FrameOK(f, D, n) /\ f.k = "block" /\ ~Owns(f)
  BY BlockFacts
<1>2. <<f>> \in Seq({f}) /\ Len(<<f>>) = 1 /\ DOMAIN <<f>> = {1} /\ <<f>>[1] = f
  OBVIOUS
<1>3. IsSeq(<<f>>)
  BY <1>2, SeqIsSeq
<1> DEFINE s == <<f>>
<1> HIDE DEF s
<1>4. IsSeq(s) /\ Len(s) = 1 /\ DOMAIN s = {1} /\ s[1] = f
  BY <1>2, <1>3 DEF s
<1>5. StackOK(s, D, n)
  BY <1>1, <1>4 DEF StackOK
<1>6. \A x : IsScope(s, 1, x) <=> x = Global
  <2>1. \A k \in 1 .. Len(s) : ~Owns(s[k])
    BY <1>1, <1>4
  <2> QED
    BY <2>1 DEF IsScope
<1>7. \A x : Tracks(x, s) <=> x = Global
  BY <1>1, <1>4, <1>6 DEF Tracks
<1> QED
  BY <1>5, <1>7 DEF s

\* A block on top of a stack.
LEMMA StackTop ==
    ASSUME NEW fs, NEW D, NEW n, IsSeq(fs), fs # <<>>, BlockFrame(fs[1], D), StackOK(Tail(fs), D, n)
    PROVE  StackOK(fs, D, n)
<1> DEFINE t == Tail(fs)
<1>1. FrameOK(fs[1], D, n) /\ fs[1].k = "block"
  BY BlockFacts
<1>2. /\ IsSeq(t) /\ Len(fs) \in Nat \ {0} /\ Len(t) = Len(fs) - 1
      /\ \A k \in 1 .. Len(fs) - 1 : t[k] = fs[k + 1]
  BY SeqTail
<1>3. DOMAIN fs = 1 .. Len(fs) /\ DOMAIN t = 1 .. Len(fs) - 1
  BY <1>2, SeqFacts
<1>4. StackOK(t, D, n)
  OBVIOUS
<1> HIDE DEF t
<1>5. ASSUME NEW j \in DOMAIN fs
      PROVE  FrameOK(fs[j], D, n) /\ (fs[j].k = "rite" => j + 1 \in DOMAIN fs /\ fs[j + 1].k = "block")
  <2>1. CASE j = 1
    BY <1>1, <2>1
  <2>2. CASE j # 1
    <3>1. PICK k \in DOMAIN t : j = k + 1
      <4>1. j - 1 \in DOMAIN t /\ j = (j - 1) + 1
        BY <1>2, <1>3, <2>2
      <4> QED
        BY <4>1
    <3>2. fs[j] = t[k] /\ FrameOK(t[k], D, n) /\ (t[k].k = "rite" => k + 1 \in DOMAIN t /\ t[k + 1].k = "block")
      BY <1>2, <1>3, <1>4, <3>1 DEF StackOK
    <3>3. k + 1 \in DOMAIN t => j + 1 \in DOMAIN fs /\ fs[j + 1] = t[k + 1]
      BY <1>2, <1>3, <3>1
    <3> QED
      BY <3>2, <3>3
  <2> QED
    BY <2>1, <2>2
<1> QED
  BY <1>5 DEF StackOK

\* A task that goes to sleep, wakes or goes on.
LEMMA TurnStep ==
    ASSUME Inv, NEW i \in DOMAIN tasks, NEW t, tasks' = [tasks EXCEPT ![i] = t], TaskOK(t, i, objs', Len(scopes)),
           t.by = tasks[i].by, t.branch = tasks[i].branch,
           {tasks[i].status, t.status} \subseteq {"ready", "waiting", "yield"},
           Grown, UNCHANGED <<scopes, rites, scope, awaited, outcome>>,
           Len(tasks) = 1 /\ outcome = "running" => Tracks(scope, t.stack)
    PROVE  Inv'
<1>1. ScopesOK' /\ Len(scopes) <= Len(scopes') /\ Len(scopes') = Len(scopes)
  <2>1. scope' \in DOMAIN scopes
    BY DEF Inv, ScopesOK
  <2> QED
    BY <2>1, SameScopes DEF Inv
<1>2. \A j \in DOMAIN tasks : TaskOK(tasks[j], j, objs', Len(scopes'))
  BY <1>1, GrownTasks DEF Inv
<1>3. /\ TasksOK' /\ IsSeq(tasks') /\ Len(tasks') = Len(tasks) /\ DOMAIN tasks' = DOMAIN tasks
      /\ tasks'[i] = t /\ \A j \in DOMAIN tasks : j # i => tasks'[j] = tasks[j]
  BY <1>1, <1>2, TasksStep DEF Inv
<1>4. Steady
  <2>1. ASSUME NEW j \in DOMAIN tasks
        PROVE  /\ tasks'[j].by = tasks[j].by /\ tasks'[j].branch = tasks[j].branch
               /\ \/ tasks'[j].status = tasks[j].status
                  \/ {tasks[j].status, tasks'[j].status} \subseteq {"ready", "waiting", "yield"}
    BY <1>3
  <2> QED
    BY <1>3, <2>1 DEF Steady
<1>5. Joined' /\ Truthful'
  BY <1>4, JoinedSteady, GrownTruthful DEF Inv
<1>6. Lexical'
  <2>1. SUFFICES ASSUME Len(tasks') = 1, outcome' = "running" PROVE Tracks(scope', tasks'[Main].stack)
    BY DEF Lexical
  <2>2. i = Main
    BY <1>3, <2>1, TaskFacts DEF Main, Inv
  <2> QED
    BY <1>3, <2>1, <2>2
<1> QED
  BY <1>1, <1>3, <1>5, <1>6 DEF Inv, Grown

\* A task that waits for o with the stack fs; one that no longer waits.
Sleeping(t, fs, o) == [t EXCEPT !.stack = fs, !.status = "waiting", !.on = o]
Awake(t) == [t EXCEPT !.status = "ready", !.on = 0]

LEMMA SleepingOK ==
    ASSUME NEW t, NEW i, NEW O, NEW n, TaskOK(t, i, O, n),
           NEW fs, StackOK(fs, DeadIn(O), n), NEW b, Code(b), NEW o \in 1 .. Len(O)
    PROVE  LET u == Sleeping(t, <<Frame(b, o)>> \o fs, o)
           IN  /\ TaskOK(u, i, O, n) /\ u.status = "waiting"
               /\ u.by = t.by /\ u.branch = t.branch /\ u.stack = <<Frame(b, o)>> \o fs
<1> DEFINE gs == <<Frame(b, o)>> \o fs
           u  == Sleeping(t, gs, o)
<1>1. BlockFrame(Frame(b, o), {o})
  BY NewBlock
<1>2. Suffix(gs, 1, fs) /\ gs[1] = Frame(b, o) /\ IsSeq(gs) /\ Tail(gs) = fs /\ Len(gs) = Len(fs) + 1
  BY SuffixCons, SeqCons DEF StackOK
<1>3. gs # <<>>
  <2>1. Len(fs) \in Nat
    BY SeqFacts DEF StackOK
  <2> QED
    BY <1>2, <2>1, SeqEmpty
<1> HIDE DEF gs
<1>4. DOMAIN t = {"stack", "status", "on", "branch", "by"}
  BY DEF TaskOK
<1>5. /\ DOMAIN u = {"stack", "status", "on", "branch", "by"}
      /\ u.stack = gs /\ u.status = "waiting" /\ u.on = o /\ u.branch = t.branch /\ u.by = t.by
  BY <1>4 DEF Sleeping
<1> HIDE DEF u
<1>6. Asleep(u, O, n)
  <2>1. u.on # 0 /\ IsSeq(u.stack) /\ u.stack # <<>>
    BY <1>2, <1>3, <1>5
  <2>2. BlockFrame(u.stack[1], {u.on})
    BY <1>1, <1>2, <1>5, Zenon
  <2>3. StackOK(Tail(u.stack), DeadIn(O), n)
    BY <1>2, <1>5, Zenon
  <2> QED
    BY <2>1, <2>2, <2>3 DEF Asleep
<1>7. u.on \in 0 .. Len(O)
  BY <1>5
<1>8. TaskOK(u, i, O, n)
  BY <1>5, <1>6, <1>7 DEF TaskOK, Statuses
<1> QED
  BY <1>5, <1>8 DEF u, gs

LEMMA AwakeOK ==
    ASSUME NEW t, NEW i, NEW O, NEW n, Len(O) \in Nat, TaskOK(t, i, O, n), t.status = "waiting", t.on \in DeadIn(O)
    PROVE  /\ TaskOK(Awake(t), i, O, n) /\ Awake(t).status = "ready"
           /\ Awake(t).by = t.by /\ Awake(t).branch = t.branch /\ Awake(t).stack = t.stack
<1>1. DOMAIN t = {"stack", "status", "on", "branch", "by"}
  BY DEF TaskOK
<1>2. /\ DOMAIN Awake(t) = {"stack", "status", "on", "branch", "by"}
      /\ Awake(t).stack = t.stack /\ Awake(t).status = "ready" /\ Awake(t).on = 0
      /\ Awake(t).branch = t.branch /\ Awake(t).by = t.by
  BY <1>1 DEF Awake
<1>3. StackOK(t.stack, DeadIn(O), n)
  <2>1. Asleep(t, O, n)
    BY DEF TaskOK
  <2>2. BlockFrame(t.stack[1], DeadIn(O))
    BY <2>1 DEF Asleep, BlockFrame
  <2> QED
    BY <2>1, <2>2, StackTop DEF Asleep
<1>4. Awake(t).on \in 0 .. Len(O)
  BY <1>2
<1> QED
  BY <1>2, <1>3, <1>4 DEF TaskOK, Statuses

\* What a loop waits for, when every name in it is known.
LEMMA ResolvedOK ==
    ASSUME EntitiesOK, NEW s, WellFormed(s), s.type = "TILDE_ATH", Idents(s.until) \subseteq DOMAIN names
    PROVE  /\ Resolved(s.until) \in Seq(EntityType)
           /\ \A k \in DOMAIN Resolved(s.until) :
                  /\ ~Resolved(s.until)[k].dead
                  /\ Resolved(s.until)[k].parts \subseteq 1 .. Len(objs) + k - 1
           /\ Awaits(s.until) \in 1 .. Len(objs) + Len(Resolved(s.until))
<1> DEFINE x == s.until
           N == Len(x.nodes)
           made(k) == {Len(objs) + j : j \in {j \in 1 .. k - 1 : k - j \in x.nodes[k].back}}
           parts(k) == {names[n] : n \in x.nodes[k].names} \cup made(k)
<1>1. Len(objs) \in Nat /\ DOMAIN objs = 1 .. Len(objs)
  BY EntityFacts
<1>2. CASE x.type = "EntityIdent"
  <2>1. Resolved(x) = <<>> /\ Awaits(x) = names[x.name] /\ x.name \in DOMAIN names
    BY <1>2 DEF Resolved, Awaits, Idents
  <2>2. <<>> \in Seq(EntityType) /\ DOMAIN <<>> = {} /\ Len(<<>>) = 0
    BY SeqEmpty
  <2>3. names[x.name] \in 1 .. Len(objs)
    BY <1>1, <2>1 DEF EntitiesOK
  <2> QED
    BY <1>1, <2>1, <2>2, <2>3
<1>3. CASE x.type # "EntityIdent"
  <2>1. N \in Nat \ {0} /\ DOMAIN x.nodes = 1 .. N /\ \A k \in DOMAIN x.nodes : x.nodes[k].type \in Composite
    BY <1>3 DEF WellFormed
  <2>2. Resolved(x) = [k \in 1 .. N |-> Entity(x.nodes[k].type, parts(k))] /\ Awaits(x) = Len(objs) + N
    BY <1>3 DEF Resolved, Awaits
  <2>3. ASSUME NEW k \in 1 .. N
        PROVE  parts(k) \subseteq 1 .. Len(objs) + k - 1
    <3>1. ASSUME NEW n \in x.nodes[k].names PROVE names[n] \in 1 .. Len(objs) + k - 1
      <4>1. n \in DOMAIN names
        BY <1>3, <2>1, <3>1 DEF Idents
      <4>2. names[n] \in 1 .. Len(objs)
        BY <1>1, <4>1 DEF EntitiesOK
      <4> QED
        BY <1>1, <2>1, <4>2
    <3>2. ASSUME NEW j \in 1 .. k - 1 PROVE Len(objs) + j \in 1 .. Len(objs) + k - 1
      BY <1>1, <2>1
    <3> QED
      BY <3>1, <3>2
  <2> DEFINE e(k) == Entity(x.nodes[k].type, parts(k))
  <2>4. ASSUME NEW k \in 1 .. N
        PROVE  e(k) \in EntityType /\ ~e(k).dead /\ e(k).parts \subseteq 1 .. Len(objs) + k - 1
    <3>1. parts(k) \in SUBSET Nat
      BY <1>1, <2>1, <2>3
    <3>2. x.nodes[k].type \in Simple \cup Composite
      BY <2>1
    <3> HIDE DEF parts
    <3>3. e(k) \in EntityType /\ ~e(k).dead /\ e(k).parts = parts(k)
      BY <3>1, <3>2, NewEntity
    <3> QED
      BY <2>3, <3>3
  <2>5. Resolved(x) = [k \in 1 .. N |-> e(k)]
    BY <2>2
  <2> HIDE DEF e, N
  <2>6. Resolved(x) \in Seq(EntityType) /\ Len(Resolved(x)) = N /\ DOMAIN Resolved(x) = 1 .. N
    BY <2>1, <2>4, <2>5
  <2>7. \A k \in 1 .. N : Resolved(x)[k] = e(k)
    BY <2>5
  <2>8. Awaits(x) \in 1 .. Len(objs) + Len(Resolved(x))
    BY <1>1, <2>1, <2>2, <2>6
  <2> QED
    BY <2>4, <2>6, <2>7, <2>8
<1> QED
  BY <1>2, <1>3

LEMMA WaitLoopStep ==
    ASSUME Inv, NEW i \in DOMAIN tasks, WaitLoop(i)
    PROVE  Inv' /\ Grown /\ Dead' = Dead /\ tasks[i].status = "ready"
           /\ \E t : /\ tasks' = [tasks EXCEPT ![i] = t] /\ t.status = "waiting" /\ t.on \in DOMAIN objs'
<1> DEFINE s   == Stmt(i)
           new == Resolved(s.until)
           o   == Awaits(s.until)
           fs  == Rest(i)
           gs  == <<Frame(s.execute, o)>> \o fs
           t   == Sleeping(tasks[i], gs, o)
<1>1. HasStmt(i) /\ tasks[i].status = "ready" /\ s.type = "TILDE_ATH" /\ Idents(s.until) \subseteq DOMAIN names
  BY DEF WaitLoop, At, HasStmt, Ready, Fails
<1>2. /\ objs' = objs \o new /\ tasks' = [tasks EXCEPT ![i] = t]
      /\ UNCHANGED <<names, branches, scopes, rites, scope, awaited, outcome>>
  BY DEF WaitLoop, Sleeping
<1>3. Held(fs) /\ WellFormed(s) /\ EntitiesOK
  BY <1>1, RestHeld DEF Inv
<1>4. s.execute \in Seq(Statement)
  BY <1>1, <1>3 DEF WellFormed
<1>5. Code(s.execute)
  BY <1>4, CodeOf
<1> HIDE DEF s, fs
<1>6. /\ new \in Seq(EntityType) /\ o \in 1 .. Len(objs) + Len(new)
      /\ \A k \in DOMAIN new : ~new[k].dead /\ new[k].parts \subseteq 1 .. Len(objs) + k - 1
  BY <1>1, <1>3, ResolvedOK
<1> HIDE DEF new, o
<1>7. objs' = Kill({}) \o new
  <2>1. Kill({}) = objs
    BY <1>3 DEF Kill, EntitiesOK
  <2> QED
    BY <1>2, <2>1
<1>8. Grown
  <2>1. /\ \A n \in DOMAIN names' : n \in DOMAIN names /\ names'[n] = names[n]
        /\ DOMAIN names \subseteq DOMAIN names' /\ branches' \subseteq DOMAIN names' /\ branches' \ branches = {}
    BY <1>2, <1>3 DEF EntitiesOK
  <2> QED
    BY <1>3, <1>6, <1>7, <2>1, Added
<1>9. /\ objs \in Seq(EntityType) /\ Len(objs) \in Nat /\ DOMAIN objs = 1 .. Len(objs) /\ Len(new) \in Nat
      /\ DOMAIN new = 1 .. Len(new) /\ Len(scopes) \in Nat
  BY <1>3, <1>6, EntityFacts, ScopeFacts DEF EntitiesOK, Inv
<1>10. objs' \in Seq(EntityType) /\ Concat(objs', objs, new)
  BY <1>2, <1>6, <1>9, SeqConcat
<1>11. Len(objs') = Len(objs) + Len(new) /\ DOMAIN objs' = 1 .. Len(objs')
  BY <1>10 DEF Concat
<1>12. Dead' = Dead
  <2>1. ASSUME NEW p \in DOMAIN objs' PROVE (p \in DOMAIN objs /\ objs'[p] = objs[p]) \/ ~objs'[p].dead
    <3>1. CASE p \in DOMAIN objs
      BY <1>9, <1>10, <3>1 DEF Concat
    <3>2. CASE p \notin DOMAIN objs
      <4>1. p - Len(objs) \in 1 .. Len(new) /\ p = Len(objs) + (p - Len(objs))
        BY <1>9, <1>11, <3>2
      <4>2. PICK k \in 1 .. Len(new) : p = Len(objs) + k
        BY <4>1
      <4>3. objs'[p] = new[k]
        BY <1>10, <4>2 DEF Concat
      <4> QED
        BY <1>6, <1>9, <4>3
    <3> QED
      BY <3>1, <3>2
  <2> QED
    BY <1>8, <2>1 DEF Grown, Dead
<1>13. TaskOK(tasks[i], i, objs', Len(scopes))
  <2>1. ScopesOK' /\ Len(scopes) <= Len(scopes') /\ Len(scopes') = Len(scopes)
    <3>1. scope' \in DOMAIN scopes
      BY <1>2 DEF Inv, ScopesOK
    <3> QED
      BY <1>2, <3>1, SameScopes DEF Inv
  <2>2. TaskOK(tasks[i], i, objs', Len(scopes'))
    BY <1>8, <2>1, GrownTasks DEF Inv
  <2> QED
    BY <2>1, <2>2
<1>14. StackOK(fs, DeadIn(objs'), Len(scopes))
  BY <1>3, <1>12 DEF Held, Dead, DeadIn
<1>15. o \in 1 .. Len(objs')
  BY <1>6, <1>11
<1>16. /\ TaskOK(t, i, objs', Len(scopes)) /\ t.status = "waiting"
       /\ t.by = tasks[i].by /\ t.branch = tasks[i].branch /\ t.stack = gs
  BY <1>5, <1>13, <1>14, <1>15, SleepingOK
<1>17. t.on = o
  BY <1>13 DEF Sleeping, TaskOK
<1>18. ASSUME Len(tasks) = 1, outcome = "running" PROVE Tracks(scope, gs)
  <2>1. Tracks(scope, fs) /\ IsSeq(fs)
    BY <1>3, <1>18 DEF Held, StackOK
  <2>2. PICK f : f = Frame(s.execute, o)
    OBVIOUS
  <2>3. ~Owns(f)
    <3>1. BlockFrame(Frame(s.execute, o), {o})
      BY <1>5, NewBlock
    <3> QED
      BY <2>2, <3>1, BlockFacts
  <2>4. Tracks(IF Owns(f) THEN f.own ELSE scope, <<f>> \o fs) /\ gs = <<f>> \o fs
    BY <2>1, <2>2, <2>3, TracksPush
  <2> QED
    BY <2>3, <2>4
<1> HIDE DEF t, gs
<1>19. Inv'
  BY <1>1, <1>2, <1>8, <1>16, <1>18, TurnStep
<1>20. t.on \in DOMAIN objs'
  BY <1>11, <1>15, <1>17
<1> QED
  BY <1>1, <1>2, <1>8, <1>12, <1>16, <1>19, <1>20

LEMMA WakeStep ==
    ASSUME Inv, NEW i \in DOMAIN tasks, Wake(i)
    PROVE  Inv'
<1> DEFINE t == Awake(tasks[i])
<1>1. /\ tasks[i].status = "waiting" /\ objs[tasks[i].on].dead /\ tasks' = [tasks EXCEPT ![i] = t]
      /\ UNCHANGED <<names, objs, branches, scopes, rites, scope, awaited, outcome>>
  BY DEF Wake, CanWake, Awake
<1>2. TaskOK(tasks[i], i, objs, Len(scopes))
  BY DEF Inv, TasksOK
<1>3. Len(objs) \in Nat /\ tasks[i].on \in DeadIn(objs)
  BY <1>1, <1>2, EntityFacts DEF Inv, TaskOK, Asleep, DeadIn
<1>4. /\ TaskOK(t, i, objs, Len(scopes)) /\ t.status = "ready"
      /\ t.by = tasks[i].by /\ t.branch = tasks[i].branch /\ t.stack = tasks[i].stack
  BY <1>1, <1>2, <1>3, AwakeOK
<1> HIDE DEF t
<1>5. TaskOK(t, i, objs', Len(scopes))
  BY <1>1, <1>4
<1>6. Grown
  BY <1>1, NothingGrown DEF Inv
<1>7. Len(tasks) = 1 /\ outcome = "running" => Tracks(scope, t.stack)
  BY <1>4, Alone
<1> QED
  BY <1>1, <1>4, <1>5, <1>6, <1>7, TurnStep

LEMMA ResumeStep ==
    ASSUME Inv, NEW i \in DOMAIN tasks, Resume(i)
    PROVE  Inv' /\ Grown
<1> DEFINE t == WithStatus(tasks[i], "ready")
<1>1. /\ tasks[i].status = "yield" /\ tasks' = [tasks EXCEPT ![i] = t]
      /\ UNCHANGED <<names, objs, branches, scopes, rites, scope, awaited, outcome>>
  BY DEF Resume, WithStatus
<1>2. TaskOK(tasks[i], i, objs, Len(scopes))
  BY DEF Inv, TasksOK
<1>3. /\ TaskOK(t, i, objs, Len(scopes)) /\ t.status = "ready"
      /\ t.by = tasks[i].by /\ t.branch = tasks[i].branch /\ t.stack = tasks[i].stack
  BY <1>1, <1>2, WithStatusOK DEF Statuses
<1> HIDE DEF t
<1>4. TaskOK(t, i, objs', Len(scopes))
  BY <1>1, <1>3
<1>5. Grown
  BY <1>1, NothingGrown DEF Inv
<1>6. Len(tasks) = 1 /\ outcome = "running" => Tracks(scope, t.stack)
  BY <1>3, Alone
<1> QED
  BY <1>1, <1>3, <1>4, <1>5, <1>6, TurnStep

LEMMA FireStep ==
    ASSUME Inv, NEW o \in DOMAIN objs, Fire(o)
    PROVE  Inv' /\ Grown
<1>1. /\ objs[o].kind = "timer" /\ objs' = Kill({o})
      /\ UNCHANGED <<names, branches, scopes, rites, scope, tasks, awaited, outcome>>
  BY DEF Fire
<1>2. Grown
  BY <1>1, KillGrown DEF Inv, Simple
<1>3. ScopesOK' /\ Len(scopes) <= Len(scopes')
  <2>1. scope' \in DOMAIN scopes
    BY <1>1 DEF Inv, ScopesOK
  <2> QED
    BY <1>1, <2>1, SameScopes DEF Inv
<1>4. \A j \in DOMAIN tasks : TaskOK(tasks[j], j, objs', Len(scopes'))
  BY <1>2, <1>3, GrownTasks DEF Inv
<1>5. TasksOK'
  BY <1>1, <1>4 DEF TasksOK, Inv
<1>6. Steady
  BY <1>1 DEF Steady, Inv, TasksOK
<1>7. Joined' /\ Truthful'
  BY <1>2, <1>6, JoinedSteady, GrownTruthful DEF Inv
<1>8. Lexical'
  BY <1>1 DEF Inv, Lexical
<1> QED
  BY <1>2, <1>3, <1>5, <1>7, <1>8 DEF Inv, Grown

LEMMA CompositeDiesStep ==
    ASSUME Inv, NEW o \in DOMAIN objs, CompositeDies(o)
    PROVE  Inv' /\ Dead' = Dead \cup {o}
           /\ Len(objs') = Len(objs)
           /\ \A p \in DOMAIN objs : objs'[p].kind = objs[p].kind /\ objs'[p].parts = objs[p].parts
<1>1. /\ Due(o) /\ objs' = Kill({o})
      /\ UNCHANGED <<names, branches, scopes, rites, scope, tasks, awaited, outcome>>
  BY DEF CompositeDies, CompositeDue
<1>2. EntitiesOK /\ Len(objs) \in Nat /\ DOMAIN objs = 1 .. Len(objs) /\ Dead \subseteq DOMAIN objs
  BY EntityFacts DEF Inv
<1>3. PICK T : T = Kill({o})
  OBVIOUS
<1>4. /\ T \in Seq(EntityType) /\ Len(T) = Len(objs)
      /\ \A p \in DOMAIN objs : /\ T[p].kind = objs[p].kind /\ T[p].parts = objs[p].parts
                                /\ T[p].dead <=> objs[p].dead \/ p \in {o}
  BY <1>2, <1>3, Killed
<1>5. /\ objs' \in Seq(EntityType) /\ Len(objs') = Len(objs) /\ DOMAIN objs' = DOMAIN objs
      /\ \A p \in DOMAIN objs : /\ objs'[p].kind = objs[p].kind /\ objs'[p].parts = objs[p].parts
                                /\ objs'[p].dead <=> objs[p].dead \/ p = o
  <2>1. objs' = T
    BY <1>1, <1>3
  <2>2. DOMAIN T = DOMAIN objs
    BY <1>2, <1>4
  <2> QED
    BY <1>4, <2>1, <2>2
<1>6. Dead' = Dead \cup {o}
  BY <1>5 DEF Dead
<1>7. EntitiesOK'
  BY <1>1, <1>2, <1>5 DEF EntitiesOK
<1>8. Truthful'
  <2>1. ASSUME NEW p \in Dead'
        PROVE  /\ objs'[p].kind = "EntityAnd" => objs'[p].parts \subseteq Dead'
               /\ objs'[p].kind = "EntityOr" => objs'[p].parts \cap Dead' # {}
    <3>1. p \in DOMAIN objs /\ objs'[p].kind = objs[p].kind /\ objs'[p].parts = objs[p].parts
      BY <1>2, <1>5, <1>6
    <3>2. CASE p \in Dead
      BY <1>6, <3>1, <3>2 DEF Inv, Truthful
    <3>3. CASE p = o
      <4>1. objs[o].parts \subseteq DOMAIN objs
        BY <1>2 DEF EntitiesOK
      <4>2. ASSUME objs[o].kind = "EntityAnd" PROVE objs[o].parts \subseteq Dead
        BY <1>1, <4>1, <4>2 DEF Due, Dead
      <4>3. ASSUME objs[o].kind = "EntityOr" PROVE objs[o].parts \cap Dead # {}
        BY <1>1, <4>1, <4>3 DEF Due, Dead
      <4> QED
        BY <1>6, <3>1, <3>3, <4>2, <4>3
    <3> QED
      BY <1>6, <3>2, <3>3
  <2> QED
    BY <2>1 DEF Truthful
<1>9. ScopesOK' /\ Lexical'
  BY <1>1 DEF Inv, ScopesOK, Lexical
<1>10. TasksOK'
  <2>1. DeadIn(objs) \subseteq DeadIn(objs') /\ Len(scopes) \in Nat
    BY <1>5, ScopeFacts DEF DeadIn, Inv
  <2>2. ASSUME NEW j \in DOMAIN tasks PROVE TaskOK(tasks[j], j, objs', Len(scopes))
    <3>1. TaskOK(tasks[j], j, objs, Len(scopes)) /\ objs \in Seq(EntityType)
      BY <1>2 DEF Inv, TasksOK, EntitiesOK
    <3>2. Len(objs) <= Len(objs') /\ Len(scopes) <= Len(scopes) /\ \A p \in DOMAIN objs : objs'[p].kind = objs[p].kind
      BY <1>2, <1>5, <2>1
    <3> QED
      BY <1>5, <2>1, <3>1, <3>2, TaskMonotonic
  <2> QED
    BY <1>1, <2>2 DEF TasksOK, Inv
<1>11. Joined'
  <2>1. Dead \subseteq Dead'
    BY <1>6
  <2>2. TopBranchesJoined'
    BY <1>1, <2>1 DEF Inv, Joined, TopBranchesJoined, Over
  <2>3. ASSUME NEW j \in DOMAIN tasks', j # Main, Over(j)', objs'[tasks'[j].branch].kind = "branch"
        PROVE  tasks'[j].branch \in Dead'
    <3>1. j \in DOMAIN tasks /\ tasks'[j] = tasks[j] /\ Over(j) /\ tasks[j].branch \in 0 .. Len(objs) /\ tasks[j].branch # 0
      BY <1>1, <2>3 DEF Inv, TasksOK, TaskOK, Over
    <3>2. tasks[j].branch \in DOMAIN objs
      BY <1>2, <3>1
    <3>3. objs[tasks[j].branch].kind = "branch"
      BY <1>5, <2>3, <3>1, <3>2
    <3>4. tasks[j].branch \in Dead
      BY <2>3, <3>1, <3>3 DEF Inv, Joined
    <3> QED
      BY <2>1, <3>1, <3>4
  <2> QED
    BY <1>1, <1>5, <2>2, <2>3 DEF Inv, Joined
<1> QED
  BY <1>5, <1>6, <1>7, <1>8, <1>9, <1>10, <1>11 DEF Inv

LEMMA StartBranchStep ==
    ASSUME Inv, NEW i \in DOMAIN tasks, StartBranch(i)
    PROVE  Inv' /\ Grown
           /\ \E t, u : /\ tasks' = Append([tasks EXCEPT ![i] = t], u)
                        /\ {tasks[i].status, t.status, u.status} \subseteq {"ready", "yield"}
<1> DEFINE s == Stmt(i)
           b == s.body \o s.execute
           o == names[s.until.name]
           t == WithStatus(WithStack(tasks[i], Rest(i)), "yield")
           u == Task(b, o, i)
<1>1. /\ HasStmt(i) /\ tasks[i].status = "ready" /\ s.type = "TILDE_ATH" /\ s.until.name \in branches
  BY DEF StartBranch, At, HasStmt, Ready, IsBranchLoop
<1>2. /\ tasks' = Append(Put(tasks, i, t), u)
      /\ UNCHANGED <<names, objs, branches, scopes, rites, scope, awaited, outcome>>
  <2>1. tasks' = Append([tasks EXCEPT ![i] = [@ EXCEPT !.stack = Rest(i), !.status = "yield"]], u)
        /\ UNCHANGED <<names, objs, branches, scopes, rites, scope, awaited, outcome>>
    BY DEF StartBranch
  <2>2. [tasks[i] EXCEPT !.stack = Rest(i), !.status = "yield"] = t
    BY DEF WithStatus, WithStack
  <2> QED
    BY <2>1, <2>2 DEF Put
<1>3. Held(Rest(i)) /\ WellFormed(s)
  BY <1>1, RestHeld
<1>4. TaskOK(tasks[i], i, objs, Len(scopes)) /\ StackOK(Rest(i), DeadIn(objs), Len(scopes))
  BY <1>3 DEF Inv, TasksOK, Held, Dead, DeadIn
<1>5. /\ TaskOK(WithStack(tasks[i], Rest(i)), i, objs, Len(scopes))
      /\ WithStack(tasks[i], Rest(i)).status = "ready"
      /\ WithStack(tasks[i], Rest(i)).by = tasks[i].by /\ WithStack(tasks[i], Rest(i)).branch = tasks[i].branch
  BY <1>1, <1>4, WithStackOK
<1>6. /\ TaskOK(t, i, objs, Len(scopes)) /\ t.status = "yield"
      /\ t.by = tasks[i].by /\ t.branch = tasks[i].branch
  BY <1>5, WithStatusOK DEF Statuses
<1>7. b \in Seq(Statement)
  BY <1>1, <1>3 DEF WellFormed
<1>8. o \in DOMAIN objs /\ objs[o].kind \in {"branch", "timer"}
  BY <1>1 DEF Inv, EntitiesOK
<1> PICK n : n = Len(tasks)
  OBVIOUS
<1>9. n \in Nat \ {0} /\ DOMAIN tasks = 1 .. n /\ i \in 1 .. n /\ Main \in DOMAIN tasks
  BY TaskFacts DEF Inv
<1>10. DOMAIN objs = 1 .. Len(objs) /\ Len(objs) \in Nat
  BY EntityFacts DEF Inv
<1> HIDE DEF s, t, b, o
<1>11. Code(b)
  BY <1>7, CodeOf
<1>12. BlockFrame(Frame(b, 0), DeadIn(objs))
  BY <1>11, NewBlock
<1>13. StackOK(<<Frame(b, 0)>>, DeadIn(objs), Len(scopes))
  BY <1>12, StackOne
<1>14. u.stack = <<Frame(b, 0)>> /\ u.status = "ready" /\ u.on = 0 /\ u.branch = o /\ u.by = i
       /\ DOMAIN u = {"stack", "status", "on", "branch", "by"}
  BY DEF Task
<1> HIDE DEF u
<1>15. ASSUME NEW m, m = n + 1 PROVE TaskOK(u, m, objs, Len(scopes))
  <2>1. u.by \in 0 .. m - 1 /\ u.on \in 0 .. Len(objs) /\ u.branch \in 0 .. Len(objs) /\ u.branch # 0
    BY <1>8, <1>9, <1>10, <1>14, <1>15
  <2>2. objs[u.branch].kind \in {"branch", "timer"} /\ u.status \in Statuses /\ u.status # "waiting"
    BY <1>8, <1>14 DEF Statuses
  <2>3. StackOK(u.stack, DeadIn(objs), Len(scopes))
    BY <1>13, <1>14
  <2>4. DOMAIN u = {"stack", "status", "on", "branch", "by"}
    BY <1>14
  <2> QED
    BY <2>1, <2>2, <2>3, <2>4 DEF TaskOK
<1>16. PICK T : T = Put(tasks, i, t)
  OBVIOUS
<1>17. /\ IsSeq(T) /\ Len(T) = n /\ DOMAIN T = DOMAIN tasks /\ T[i] = t
       /\ \A k \in DOMAIN tasks : k # i => T[k] = tasks[k]
  BY <1>16, SeqPut DEF Inv, TasksOK
<1>18. tasks' = Append(T, u)
  BY <1>2, <1>16
<1>19. /\ IsSeq(tasks') /\ Len(tasks') = n + 1
       /\ \A k \in 1 .. n : tasks'[k] = T[k]
       /\ tasks'[n + 1] = u
  BY <1>17, <1>18, SeqAppend
<1>20. DOMAIN tasks' = 1 .. n + 1
  BY <1>19, SeqFacts
<1>21. tasks'[i] = t /\ \A k \in 1 .. n : k # i => tasks'[k] = tasks[k]
  BY <1>9, <1>17, <1>19
<1>22. ASSUME NEW k \in DOMAIN tasks' PROVE k \in DOMAIN tasks \/ k = n + 1
  BY <1>9, <1>20
<1>23. TasksOK'
  <2>1. ASSUME NEW k \in DOMAIN tasks' PROVE TaskOK(tasks'[k], k, objs, Len(scopes))
    BY <1>6, <1>9, <1>15, <1>19, <1>21, <1>22 DEF Inv, TasksOK
  <2>2. tasks' # <<>>
    BY <1>9, <1>19, SeqEmpty
  <2> QED
    BY <1>2, <1>19, <2>1, <2>2 DEF TasksOK
<1>24. ASSUME NEW k \in DOMAIN tasks
       PROVE  /\ k \in DOMAIN tasks' /\ tasks'[k].by = tasks[k].by /\ tasks'[k].branch = tasks[k].branch
              /\ (Over(k)' <=> Over(k))
              /\ \A st \in {"settling", "done"} : tasks'[k].status = st <=> tasks[k].status = st
  BY <1>1, <1>6, <1>9, <1>20, <1>21 DEF Over
<1>25. ~Over(n + 1)' /\ tasks'[n + 1].by = i /\ n + 1 # Main
  BY <1>9, <1>14, <1>19 DEF Over, Main
<1>26. i = Main => tasks[Main].status = "ready"
  BY <1>1
<1>27. Joined'
  <2>1. /\ awaited' = awaited /\ outcome' = outcome /\ objs' = objs /\ Dead' = Dead
    BY <1>2 DEF Dead
  <2>2. awaited'[1] \in 0 .. Len(objs') /\ awaited'[2] \in 0 .. Len(tasks')
    <3>1. awaited[1] \in 0 .. Len(objs) /\ awaited[2] \in 0 .. n
      BY DEF Inv, Joined
    <3> QED
      BY <1>9, <1>19, <2>1, <3>1
  <2>3. outcome' \in {"running", "ended", "failed"} /\ (outcome' = "ended" <=> tasks'[Main].status = "done")
    BY <1>9, <1>24, <2>1 DEF Inv, Joined
  <2>4. ASSUME tasks'[Main].status \in {"settling", "done"}, NEW k \in DOMAIN tasks', tasks'[k].by = Main
        PROVE  k <= awaited'[2] /\ tasks'[k].branch <= awaited'[1]
    <3>1. tasks[Main].status \in {"settling", "done"}
      BY <1>9, <1>24, <2>4
    <3>2. k \in DOMAIN tasks
      BY <1>22, <1>25, <1>26, <2>4, <3>1
    <3>3. tasks[k].by = Main
      BY <1>24, <2>4, <3>2
    <3>4. k <= awaited[2] /\ tasks[k].branch <= awaited[1]
      BY <3>1, <3>2, <3>3 DEF Inv, Joined
    <3> QED
      BY <1>24, <2>1, <3>2, <3>4
  <2>5. ASSUME NEW k \in DOMAIN tasks', k # Main, Over(k)', objs'[tasks'[k].branch].kind = "branch"
        PROVE  tasks'[k].branch \in Dead'
    <3>1. k \in DOMAIN tasks
      BY <1>22, <1>25, <2>5
    <3>2. Over(k) /\ objs[tasks[k].branch].kind = "branch"
      BY <1>24, <2>1, <2>5, <3>1
    <3> QED
      BY <1>24, <2>1, <2>5, <3>1, <3>2 DEF Inv, Joined
  <2>6. TopBranchesJoined'
    <3>1. SUFFICES ASSUME outcome' = "ended", NEW k \in DOMAIN tasks', tasks'[k].by = Main
                   PROVE  Over(k)' /\ tasks'[k].branch \in Dead'
      BY DEF TopBranchesJoined
    <3>2. tasks[Main].status = "done"
      BY <2>1, <3>1 DEF Inv, Joined
    <3>3. k \in DOMAIN tasks
      BY <1>22, <1>25, <1>26, <3>1, <3>2
    <3>4. tasks[k].by = Main
      BY <1>24, <3>1, <3>3
    <3> QED
      BY <1>24, <2>1, <3>1, <3>3, <3>4 DEF Inv, Joined, TopBranchesJoined
  <2> QED
    BY <2>2, <2>3, <2>4, <2>5, <2>6 DEF Joined
<1>28. Lexical'
  <2>1. Len(tasks') # 1
    BY <1>9, <1>19
  <2> QED
    BY <2>1, Zenon DEF Lexical
<1>29. EntitiesOK' /\ Truthful' /\ ScopesOK'
  BY <1>2 DEF Inv, EntitiesOK, Truthful, ScopesOK, Dead
<1>30. Grown
  BY <1>2, NothingGrown DEF Inv
<1>31. tasks' = Append([tasks EXCEPT ![i] = t], u) /\ {tasks[i].status, t.status, u.status} \subseteq {"ready", "yield"}
  BY <1>1, <1>2, <1>6, <1>14 DEF Put
<1> QED
  BY <1>23, <1>27, <1>28, <1>29, <1>30, <1>31 DEF Inv

------------------------------------------------------------------------------
(* The invariant holds *)

LEMMA SeqOne ==
    ASSUME NEW x, NEW s, s = <<x>>
    PROVE  IsSeq(s) /\ Len(s) = 1 /\ DOMAIN s = {1} /\ s[1] = x /\ s # <<>>
<1>1. s \in Seq({x}) /\ Len(s) = 1 /\ DOMAIN s = {1} /\ s[1] = x
  OBVIOUS
<1> QED
  BY <1>1, SeqIsSeq, SeqEmpty

LEMMA InitInv == Init => Inv
<1> SUFFICES ASSUME Init PROVE Inv
  OBVIOUS
<1> DEFINE e == Entity("this", {})
           g == [parent |-> 0, vars |-> <<>>, consts |-> {}]
<1>1. PICK p \in Program : tasks = <<Task(p, 0, 0)>>
  BY DEF Init
<1>2. /\ names = [n \in {"THIS"} |-> 1] /\ objs = <<e>> /\ branches = {} /\ scopes = <<g>> /\ rites = <<>>
      /\ scope = 1 /\ awaited = <<0, 0>> /\ outcome = "running"
  BY DEF Init, Global
<1>3. e \in EntityType /\ e.kind = "this" /\ ~e.dead /\ e.parts = {}
  BY NewEntity DEF Simple
<1> HIDE DEF e
<1>4. objs \in Seq(EntityType) /\ Len(objs) = 1 /\ DOMAIN objs = {1} /\ objs[1] = e
  BY <1>2, <1>3
<1>5. Dead = {}
  BY <1>3, <1>4 DEF Dead
<1>6. DOMAIN names = {"THIS"} /\ names["THIS"] = 1
  BY <1>2
<1>7. EntitiesOK
  BY <1>2, <1>3, <1>4, <1>6 DEF EntitiesOK, Simple
<1>8. Truthful
  BY <1>5 DEF Truthful
<1>9. DOMAIN g = {"parent", "vars", "consts"} /\ g.parent = 0 /\ g.consts = {}
  OBVIOUS
<1> HIDE DEF g
<1>10. IsSeq(scopes) /\ Len(scopes) = 1 /\ DOMAIN scopes = {1} /\ scopes[1] = g
  BY <1>2, SeqOne
<1>11. ScopesOK
  <2>1. IsSeq(rites) /\ DOMAIN rites = {}
    BY <1>2, SeqEmpty
  <2> QED
    BY <1>2, <1>9, <1>10, <2>1 DEF ScopesOK
<1> DEFINE t == Task(p, 0, 0)
           f == Frame(p, 0)
<1>12. Code(p)
  <2>1. p \in Seq(Statement)
    BY ProgramAssumption
  <2> QED
    BY <2>1, CodeOf
<1>13. BlockFrame(f, DeadIn(objs))
  BY <1>12, NewBlock
<1>14. StackOK(<<f>>, DeadIn(objs), Len(scopes)) /\ Tracks(Global, <<f>>)
  BY <1>13, StackOne
<1>15. /\ DOMAIN t = {"stack", "status", "on", "branch", "by"}
       /\ t.stack = <<f>> /\ t.status = "ready" /\ t.on = 0 /\ t.branch = 0 /\ t.by = 0
  BY DEF Task
<1> HIDE DEF t, f
<1>16. IsSeq(tasks) /\ Len(tasks) = 1 /\ DOMAIN tasks = {1} /\ tasks[1] = t /\ tasks # <<>>
  BY <1>1, SeqOne DEF t
<1>17. TasksOK
  <2>1. TaskOK(t, 1, objs, Len(scopes))
    BY <1>4, <1>14, <1>15 DEF TaskOK, Statuses, Main
  <2> QED
    BY <1>16, <2>1 DEF TasksOK
<1>18. Joined
  <2>1. awaited[1] = 0 /\ awaited[2] = 0 /\ tasks[Main].status = "ready"
    BY <1>2, <1>15, <1>16 DEF Main
  <2>2. \A i \in DOMAIN tasks : i = Main
    BY <1>16 DEF Main
  <2>3. TopBranchesJoined
    BY <1>2 DEF TopBranchesJoined
  <2> QED
    BY <1>2, <1>4, <1>16, <2>1, <2>2, <2>3 DEF Joined
<1>19. Lexical
  BY <1>2, <1>14, <1>15, <1>16 DEF Lexical, Main, Global
<1> QED
  BY <1>7, <1>8, <1>11, <1>17, <1>18, <1>19 DEF Inv

\* What one async function of the interpreter does until it waits keeps the
\* invariant, and kills no composite.
LEMMA ExecuteStep ==
    ASSUME Inv, NEW i \in DOMAIN tasks, Execute(i)
    PROVE  Inv' /\ Grown
<1>1. CASE Raise(i)
  BY <1>1, RaiseStep
<1>2. CASE FrameEnd(i)
  BY <1>2, FrameEndStep
<1>3. CASE Bequeath(i)
  BY <1>3, BequeathStep
<1>4. CASE Evaluate(i)
  BY <1>4, EvaluateStep
<1>5. CASE CallRite(i)
  BY <1>5, CallRiteStep
<1>6. CASE Declare(i)
  BY <1>6, DeclareStep
<1>7. CASE Assign(i)
  BY <1>7, AssignStep
<1>8. CASE ExprStmt(i)
  BY <1>8, ExprStmtStep
<1>9. CASE Conditional(i)
  BY <1>9, ConditionalStep
<1>10. CASE DefineRite(i)
  BY <1>10, DefineRiteStep
<1>11. CASE Attempt(i)
  BY <1>11, AttemptStep
<1>12. CASE Import(i)
  BY <1>12, ImportStep
<1>13. CASE Bifurcate(i)
  BY <1>13, BifurcateStep
<1>14. CASE Die(i)
  BY <1>14, DieStep
<1>15. CASE StartBranch(i)
  BY <1>15, StartBranchStep
<1>16. CASE WaitLoop(i)
  BY <1>16, WaitLoopStep
<1>17. CASE BranchEnd(i)
  BY <1>17, BranchEndStep
<1> QED
  BY <1>1, <1>2, <1>3, <1>4, <1>5, <1>6, <1>7, <1>8, <1>9, <1>10, <1>11, <1>12, <1>13, <1>14, <1>15,
     <1>16, <1>17 DEF Execute

LEMMA InvStep == Inv /\ [Next]_vars => Inv'
<1> SUFFICES ASSUME Inv, [Next]_vars PROVE Inv'
  OBVIOUS
<1>1. ASSUME NEW i \in DOMAIN tasks, Execute(i) PROVE Inv'
  BY <1>1, ExecuteStep
<1>2. ASSUME NEW i \in DOMAIN tasks, Wake(i) PROVE Inv'
  BY <1>2, WakeStep
<1>3. ASSUME NEW i \in DOMAIN tasks, Resume(i) PROVE Inv'
  BY <1>3, ResumeStep
<1>4. ASSUME NEW o \in DOMAIN objs, CompositeDies(o) PROVE Inv'
  BY <1>4, CompositeDiesStep
<1>5. ASSUME NEW o \in DOMAIN objs, Fire(o) PROVE Inv'
  BY <1>5, FireStep
<1>6. CASE MainEnd
  BY <1>6, MainEndStep
<1>7. CASE Settle
  BY <1>7, SettleStep
<1>8. CASE UNCHANGED vars
  <2>1. UNCHANGED <<names, objs, branches, scopes, rites, scope, tasks, awaited, outcome>>
    BY <1>8 DEF vars
  <2>2. EntitiesOK' /\ Truthful' /\ ScopesOK' /\ TasksOK'
    BY <2>1 DEF Inv, EntitiesOK, Truthful, Dead, ScopesOK, TasksOK
  <2>3. Joined' /\ Lexical'
    BY <2>1 DEF Inv, Joined, TopBranchesJoined, Over, Dead, Lexical
  <2> QED
    BY <2>2, <2>3 DEF Inv
<1> QED
  BY <1>1, <1>2, <1>3, <1>4, <1>5, <1>6, <1>7, <1>8 DEF Next

\* At every moment of a run, whatever the program: entities, scopes and stacks
\* are in order, every frame has saved the scope of the code under it, and what
\* run() waits for are the branches and timers of the main program.
THEOREM RunInvariant == Spec => []Inv
<1> QED
  BY InitInv, InvStep, PTL DEF Spec

\* execAthLoop and CompositeEntity: no program, however it names, kills and
\* combines its entities, reaches the code after ~ATH(X){} before X has died, and
\* no (A && B) or (A || B) dies before A and B, or one of them, has.
THEOREM NothingRunsEarly == Spec => []NoEarlyExecute
<1>1. ASSUME Inv PROVE NoEarlyExecute
  <2>1. ASSUME NEW i \in DOMAIN tasks, tasks[i].status \in {"ready", "yield", "settling"},
               NEW j \in DOMAIN tasks[i].stack, tasks[i].stack[j].k = "block"
        PROVE  tasks[i].stack[j].on \in Dead \cup {0}
    <3>1. StackOK(tasks[i].stack, Dead, Len(scopes))
      BY <1>1, <2>1, StackHeld DEF Held
    <3>2. BlockFrame(tasks[i].stack[j], Dead)
      BY <2>1, <3>1, BlockFacts DEF StackOK
    <3> QED
      BY <3>2 DEF BlockFrame
  <2>2. Truthful
    BY <1>1 DEF Inv
  <2> QED
    BY <2>1, <2>2 DEF NoEarlyExecute, Truthful
<1> QED
  BY <1>1, RunInvariant, PTL

\* run: the tables of a run refer to what exists; a program that ends well has
\* waited for every branch it started itself, which is over and dead by then; and
\* as long as a program has started no branch, currentScope is the scope that the
\* innermost rite or SALVAGE around has entered (an EXECUTE block enters none),
\* whatever errors, returns, waits and calls in expressions came between.
THEOREM RunHoldsTogether == Spec => []RunSound
<1>1. ASSUME Inv PROVE RunSound
  <2>1. TypeOK
    <3>1. \A o \in DOMAIN objs : objs[o].kind \in Simple \cup Composite /\ objs[o].dead \in BOOLEAN
                              /\ \A p \in objs[o].parts : p \in 1 .. o - 1
      <4>1. \A o \in DOMAIN objs : objs[o] \in EntityType
        BY <1>1, EntityFacts DEF Inv
      <4> QED
        BY <1>1, <4>1 DEF Inv, EntitiesOK, EntityType
    <3>2. /\ \A n \in DOMAIN names : names[n] \in DOMAIN objs /\ objs[names[n]].kind \in Simple
          /\ branches \subseteq DOMAIN names
      BY <1>1 DEF Inv, EntitiesOK
    <3>3. /\ \A s \in DOMAIN scopes : scopes[s].parent \in 0 .. s - 1 /\ scopes[s].consts \subseteq DOMAIN scopes[s].vars
          /\ \A r \in DOMAIN rites : rites[r].closure \in DOMAIN scopes
          /\ scope \in DOMAIN scopes
      BY <1>1 DEF Inv, ScopesOK
    <3>4. \A i \in DOMAIN tasks : /\ tasks[i].status \in Statuses /\ tasks[i].by \in 0 .. i - 1
                                 /\ tasks[i].on \in 0 .. Len(objs) /\ tasks[i].branch \in 0 .. Len(objs)
      BY <1>1 DEF Inv, TasksOK, TaskOK
    <3> QED
      BY <1>1, <3>1, <3>2, <3>3, <3>4 DEF Inv, Joined, TypeOK
  <2>2. TopBranchesJoined
    BY <1>1 DEF Inv, Joined
  <2>3. ScopeRestored
    <3>1. SUFFICES ASSUME Len(tasks) = 1, outcome = "running" PROVE scope = ScopeOf(tasks[Main].stack)
      BY DEF ScopeRestored
    <3>2. IsScope(tasks[Main].stack, 1, scope)
      BY <1>1, <3>1 DEF Inv, Lexical, Tracks
    <3>3. IsSeq(tasks[Main].stack)
      <4>1. TaskOK(tasks[Main], Main, objs, Len(scopes))
        BY <1>1, TaskFacts DEF Inv, TasksOK
      <4> QED
        BY <4>1 DEF TaskOK, Asleep, StackOK
    <3> QED
      BY <3>2, <3>3, ScopeOfIs
  <2> QED
    BY <2>1, <2>2, <2>3 DEF RunSound
<1> QED
  BY <1>1, RunInvariant, PTL

------------------------------------------------------------------------------
(* The interpreter keeps the promises of Death *)

Waits == {<<i, tasks[i].on>> : i \in {j \in DOMAIN tasks : tasks[j].status = "waiting"}}

\* Task i was not waiting and is not waiting now; nothing else has happened to
\* the tasks.
Quiet(i) ==
    /\ tasks[i].status # "waiting"
    /\ \E t : t.status # "waiting" /\ tasks' = [tasks EXCEPT ![i] = t]

LEMMA QuietWaits ==
    ASSUME TasksOK, NEW i \in DOMAIN tasks, Quiet(i)
    PROVE  Waits' = Waits
<1>1. PICK t : t.status # "waiting" /\ tasks' = [tasks EXCEPT ![i] = t]
  BY DEF Quiet
<1>2. DOMAIN tasks' = DOMAIN tasks /\ tasks'[i] = t /\ \A j \in DOMAIN tasks : j # i => tasks'[j] = tasks[j]
  BY <1>1
<1>3. {j \in DOMAIN tasks' : tasks'[j].status = "waiting"} = {j \in DOMAIN tasks : tasks[j].status = "waiting"}
  BY <1>1, <1>2 DEF Quiet
<1>4. \A j \in {j \in DOMAIN tasks : tasks[j].status = "waiting"} : tasks'[j] = tasks[j]
  BY <1>2 DEF Quiet
<1> QED
  BY <1>3, <1>4 DEF Waits

LEMMA GoOnQuiet ==
    ASSUME TasksOK, NEW i \in DOMAIN tasks, Ready(i), NEW fs, GoOn(i, fs)
    PROVE  Quiet(i)
<1> DEFINE t == WithStack(tasks[i], fs)
<1>1. DOMAIN tasks[i] = {"stack", "status", "on", "branch", "by"} /\ tasks[i].status = "ready"
  BY DEF TasksOK, TaskOK, Ready
<1>2. t.status = "ready" /\ tasks' = [tasks EXCEPT ![i] = t]
  BY <1>1 DEF WithStack, GoOn
<1> QED
  BY <1>1, <1>2 DEF Quiet

LEMMA EndQuiet ==
    ASSUME TasksOK, NEW i \in DOMAIN tasks, tasks[i].status # "waiting", NEW how \in {"done", "failed"},
           tasks' = [tasks EXCEPT ![i] = EndedAs(@, how)]
    PROVE  Quiet(i)
<1> DEFINE t == EndedAs(tasks[i], how)
<1>1. DOMAIN tasks[i] = {"stack", "status", "on", "branch", "by"}
  BY DEF TasksOK, TaskOK
<1>2. t.status = how /\ tasks' = [tasks EXCEPT ![i] = t]
  BY <1>1 DEF EndedAs
<1> QED
  BY <1>2 DEF Quiet

LEMMA FinishQuiet ==
    ASSUME TasksOK, tasks[Main].status # "waiting", NEW how \in {"ended", "failed"}, Finish(how)
    PROVE  Quiet(Main)
<1>1. tasks' = [tasks EXCEPT ![Main] = EndedAs(@, IF how = "ended" THEN "done" ELSE "failed")]
  BY DEF Finish, EndedAs
<1> QED
  BY <1>1, TaskFacts, EndQuiet

LEMMA CompleteQuiet ==
    ASSUME TasksOK, NEW i \in DOMAIN tasks, Ready(i), NEW how \in {"done", "failed"}, CompleteBranch(i, how)
    PROVE  Quiet(i)
<1> DEFINE st == IF objs[tasks[i].branch].kind = "branch" THEN how ELSE "failed"
<1>1. tasks' = [tasks EXCEPT ![i] = EndedAs(@, st)] /\ st \in {"done", "failed"}
  BY DEF CompleteBranch, EndedAs
<1> HIDE DEF st
<1> QED
  BY <1>1, EndQuiet DEF Ready

LEMMA ThrowQuiet ==
    ASSUME TasksOK, NEW i \in DOMAIN tasks, Ready(i), NEW fs, Throw(i, fs)
    PROVE  Quiet(i)
<1>1. \/ i = Main /\ Finish("failed")
      \/ CompleteBranch(i, "failed")
      \/ \E gs : GoOn(i, gs)
  BY DEF Throw
<1>2. CASE i = Main /\ Finish("failed")
  BY <1>2, FinishQuiet DEF Ready
<1>3. CASE CompleteBranch(i, "failed")
  BY <1>3, CompleteQuiet
<1>4. CASE \E gs : GoOn(i, gs)
  BY <1>4, GoOnQuiet
<1> QED
  BY <1>1, <1>2, <1>3, <1>4

\* Who executes does not wait: only execAthLoop makes a task wait.
LEMMA ExecuteWaits ==
    ASSUME Inv, NEW i \in DOMAIN tasks, Execute(i), ~WaitLoop(i)
    PROVE  Waits' = Waits
<1>0. TasksOK
  BY DEF Inv
<1>1. CASE StartBranch(i)
  <2>1. PICK t, u : /\ tasks' = Append([tasks EXCEPT ![i] = t], u)
                    /\ {tasks[i].status, t.status, u.status} \subseteq {"ready", "yield"}
    BY <1>1, StartBranchStep
  <2>2. PICK T : T = Put(tasks, i, t)
    OBVIOUS
  <2>3. PICK n : n = Len(tasks)
    OBVIOUS
  <2>4. n \in Nat /\ DOMAIN tasks = 1 .. n
    BY <1>0, <2>3, TaskFacts
  <2>5. IsSeq(T) /\ Len(T) = n /\ T[i] = t /\ \A k \in DOMAIN tasks : k # i => T[k] = tasks[k]
    BY <1>0, <2>2, <2>3, SeqPut DEF TasksOK
  <2>6. tasks' = Append(T, u)
    BY <2>1, <2>2 DEF Put
  <2>7. /\ IsSeq(tasks') /\ Len(tasks') = n + 1
        /\ \A k \in 1 .. n : tasks'[k] = T[k]
        /\ tasks'[n + 1] = u
    BY <2>5, <2>6, SeqAppend
  <2>8. DOMAIN tasks' = 1 .. n + 1
    BY <2>7, SeqFacts
  <2>9. \A k \in DOMAIN tasks' : k \in DOMAIN tasks \/ k = n + 1
    BY <2>4, <2>8
  <2>10. {j \in DOMAIN tasks' : tasks'[j].status = "waiting"} = {j \in DOMAIN tasks : tasks[j].status = "waiting"}
    <3>1. \A k \in DOMAIN tasks : k \in DOMAIN tasks' /\ (tasks'[k].status = "waiting" <=> tasks[k].status = "waiting")
      BY <2>1, <2>4, <2>5, <2>7, <2>8
    <3>2. tasks'[n + 1].status # "waiting"
      BY <2>1, <2>7
    <3> QED
      BY <2>9, <3>1, <3>2
  <2>11. \A j \in {j \in DOMAIN tasks : tasks[j].status = "waiting"} : tasks'[j] = tasks[j]
    BY <2>1, <2>4, <2>5, <2>7
  <2> QED
    BY <2>10, <2>11 DEF Waits
<1>2. CASE ~StartBranch(i)
  <2>1. Ready(i)
    BY <1>2 DEF Execute, Raise, FrameEnd, Bequeath, Evaluate, CallRite, Declare, Assign, ExprStmt, Conditional,
                DefineRite, Attempt, Import, Bifurcate, Die, BranchEnd, Decided, At, HasStmt
  <2>2. \/ \E fs : GoOn(i, fs)
        \/ \E fs : Throw(i, fs)
        \/ i = Main /\ Finish("failed")
        \/ \E how \in {"done", "failed"} : CompleteBranch(i, how)
    <3>1. CASE Raise(i)
      BY <3>1 DEF Raise
    <3>2. CASE FrameEnd(i)
      BY <3>2 DEF FrameEnd
    <3>3. CASE Bequeath(i)
      BY <3>3 DEF Bequeath
    <3>4. CASE Evaluate(i)
      BY <3>4 DEF Evaluate
    <3>5. CASE CallRite(i)
      BY <3>5 DEF CallRite
    <3>6. CASE Declare(i) \/ Assign(i) \/ ExprStmt(i) \/ Conditional(i) \/ DefineRite(i) \/ Attempt(i)
      BY <3>6 DEF Declare, Assign, ExprStmt, Conditional, DefineRite, Attempt
    <3>7. CASE Import(i)
      BY <3>7 DEF Import
    <3>8. CASE Bifurcate(i) \/ Die(i)
      BY <3>8 DEF Bifurcate, Die
    <3>9. CASE BranchEnd(i)
      BY <3>9 DEF BranchEnd
    <3> QED
      BY <1>2, <3>1, <3>2, <3>3, <3>4, <3>5, <3>6, <3>7, <3>8, <3>9 DEF Execute
  <2>3. \E j \in DOMAIN tasks : Quiet(j)
    BY <1>0, <2>1, <2>2, GoOnQuiet, ThrowQuiet, FinishQuiet, CompleteQuiet DEF Ready
  <2> QED
    BY <1>0, <2>3, QuietWaits
<1> QED
  BY <1>1, <1>2

MadeOf(O) == [o \in DOMAIN O |-> [kind |-> O[o].kind, parts |-> O[o].parts]]
Made == MadeOf(objs)

LEMMA MadeFacts ==
    ASSUME NEW O \in Seq(EntityType), \A o \in DOMAIN O : O[o].parts \subseteq 1 .. o - 1
    PROVE  /\ DOMAIN MadeOf(O) = DOMAIN O
           /\ \A o \in DOMAIN O :
                  /\ o \in Nat /\ MadeOf(O)[o] \in Abstract!Kind /\ O[o].parts \subseteq DOMAIN O
                  /\ MadeOf(O)[o].kind = O[o].kind /\ MadeOf(O)[o].parts = O[o].parts
<1>1. DOMAIN O = 1 .. Len(O) /\ Len(O) \in Nat /\ \A o \in DOMAIN O : O[o] \in EntityType
  OBVIOUS
<1>2. \A o \in DOMAIN O : O[o].parts \subseteq DOMAIN O
  BY <1>1
<1>3. ASSUME NEW o \in DOMAIN O
      PROVE  [kind |-> O[o].kind, parts |-> O[o].parts] \in Abstract!Kind
  BY <1>1 DEF Abstract!Kind, Abstract!Simple, Abstract!Composite, Simple, Composite, EntityType
<1>4. \A o \in DOMAIN O : MadeOf(O)[o] = [kind |-> O[o].kind, parts |-> O[o].parts]
  BY DEF MadeOf
<1>5. DOMAIN MadeOf(O) = DOMAIN O
  BY DEF MadeOf
<1> QED
  BY <1>1, <1>2, <1>3, <1>4, <1>5

\* New entities are as Death says.
LEMMA GrownBirth ==
    ASSUME EntitiesOK, EntitiesOK', Len(objs) <= Len(objs'),
           \A o \in DOMAIN objs : objs'[o].kind = objs[o].kind /\ objs'[o].parts = objs[o].parts
    PROVE  Abstract!Birth
<1>1. DOMAIN objs \subseteq DOMAIN objs'
  BY EntityFacts DEF EntitiesOK
<1>2. ASSUME NEW o \in DOMAIN Made PROVE o \in DOMAIN Made' /\ Made'[o] = Made[o]
  BY <1>1, <1>2 DEF Made, MadeOf
<1>3. ASSUME NEW o \in DOMAIN Made'
      PROVE  o \in Nat /\ Made'[o] \in Abstract!Kind /\ Made'[o].parts \subseteq DOMAIN Made'
  <2>1. /\ objs' \in Seq(EntityType) /\ \A p \in DOMAIN objs' : objs'[p].parts \subseteq 1 .. p - 1
        /\ Made' = MadeOf(objs')
    BY DEF EntitiesOK, Made, MadeOf
  <2> QED
    BY <2>1, MadeFacts
<1> QED
  BY <1>2, <1>3 DEF Abstract!Birth, Made, MadeOf

LEMMA GrownChange ==
    ASSUME EntitiesOK, Grown, Waits' = Waits
    PROVE  Abstract!Change
<1>1. Abstract!Birth
  BY GrownBirth DEF Grown
<1>2. Dead \subseteq Dead'
  BY DEF Grown
<1>3. Abstract!Killable(Dead' \ Dead)
  <2>1. ASSUME NEW o \in Dead' \ Dead PROVE o \in DOMAIN Made /\ Made[o].kind \in Abstract!Simple
    BY <2>1 DEF Grown, Made, MadeOf, Abstract!Simple, Simple
  <2> QED
    BY <2>1 DEF Abstract!Killable, Made, MadeOf
<1> QED
  BY <1>1, <1>2, <1>3 DEF Abstract!Change, Waits

LEMMA StepKeepsDeath ==
    ASSUME Inv, [Next]_vars
    PROVE  [Abstract!DeathNext]_(Abstract!deathvars)
<1>0. EntitiesOK /\ TasksOK /\ Inv' /\ EntitiesOK'
  BY InvStep DEF Inv
<1>1. ASSUME NEW i \in DOMAIN tasks, Execute(i), ~WaitLoop(i) PROVE Abstract!Change
  BY <1>0, <1>1, ExecuteStep, ExecuteWaits, GrownChange
<1>2. ASSUME NEW i \in DOMAIN tasks, WaitLoop(i) PROVE Abstract!Wait
  <2>1. PICK t : tasks' = [tasks EXCEPT ![i] = t] /\ t.status = "waiting" /\ t.on \in DOMAIN objs'
    BY <1>2, WaitLoopStep
  <2>2. Grown /\ Dead' = Dead /\ tasks[i].status = "ready"
    BY <1>2, WaitLoopStep
  <2>3. Abstract!Birth
    BY <1>0, <2>2, GrownBirth DEF Grown
  <2>4. DOMAIN tasks' = DOMAIN tasks /\ tasks'[i] = t /\ \A j \in DOMAIN tasks : j # i => tasks'[j] = tasks[j]
    BY <2>1
  <2>5. Waits' = Waits \cup {<<i, t.on>>}
    <3>1. {j \in DOMAIN tasks' : tasks'[j].status = "waiting"}
              = {j \in DOMAIN tasks : tasks[j].status = "waiting"} \cup {i}
      BY <2>1, <2>4
    <3>2. \A j \in {j \in DOMAIN tasks : tasks[j].status = "waiting"} : tasks'[j] = tasks[j]
      BY <2>2, <2>4
    <3> QED
      BY <2>4, <3>1, <3>2 DEF Waits
  <2>6. <<i, t.on>>[2] \in DOMAIN Made'
    BY <2>1 DEF Made, MadeOf
  <2>7. \E p \in Waits' : p[2] \in DOMAIN Made' /\ Waits' = Waits \cup {p}
    BY <2>5, <2>6
  <2> QED
    BY <2>2, <2>3, <2>7 DEF Abstract!Wait, Waits, Made, MadeOf
<1>3. ASSUME NEW i \in DOMAIN tasks, Wake(i) PROVE \E p \in Waits : Abstract!Pass(p)
  <2> DEFINE t == Awake(tasks[i])
             p == <<i, tasks[i].on>>
  <2>1. /\ tasks[i].status = "waiting" /\ objs[tasks[i].on].dead /\ tasks' = [tasks EXCEPT ![i] = t]
        /\ UNCHANGED objs
    BY <1>3 DEF Wake, CanWake, Awake
  <2>2. TaskOK(tasks[i], i, objs, Len(scopes))
    BY <1>0 DEF TasksOK
  <2>3. t.status = "ready"
    BY <2>2 DEF Awake, TaskOK
  <2>4. tasks[i].on \in Dead
    BY <1>0, <2>1, <2>2, EntityFacts DEF TaskOK, Asleep, Dead
  <2> HIDE DEF t
  <2>5. DOMAIN tasks' = DOMAIN tasks /\ tasks'[i] = t /\ \A j \in DOMAIN tasks : j # i => tasks'[j] = tasks[j]
    BY <2>1
  <2>6. PICK q \in Waits : q = p
    BY <2>1 DEF Waits
  <2>7. Waits' = Waits \ {q}
    <3>1. {j \in DOMAIN tasks' : tasks'[j].status = "waiting"}
              = {j \in DOMAIN tasks : tasks[j].status = "waiting"} \ {i}
      BY <2>3, <2>5
    <3>2. \A j \in {j \in DOMAIN tasks : tasks[j].status = "waiting"} \ {i} : tasks'[j] = tasks[j]
      BY <2>5
    <3>3. Waits' = {<<j, tasks[j].on>> : j \in {j \in DOMAIN tasks : tasks[j].status = "waiting"} \ {i}}
      BY <3>1, <3>2 DEF Waits
    <3> QED
      BY <2>6, <3>3 DEF Waits
  <2>8. q[2] \in Dead /\ Made' = Made /\ Dead' = Dead
    BY <2>1, <2>4, <2>6 DEF Made, MadeOf, Dead
  <2>9. Abstract!Pass(q)
    BY <2>7, <2>8 DEF Abstract!Pass, Waits, Made, MadeOf
  <2> QED
    BY <2>9
<1>4. ASSUME NEW i \in DOMAIN tasks, Resume(i) PROVE Abstract!Change
  <2> DEFINE t == WithStatus(tasks[i], "ready")
  <2>1. tasks[i].status = "yield" /\ tasks' = [tasks EXCEPT ![i] = t]
    BY <1>4 DEF Resume, WithStatus
  <2>2. t.status = "ready"
    BY <1>0 DEF TasksOK, TaskOK, WithStatus
  <2> HIDE DEF t
  <2>3. Quiet(i)
    BY <2>1, <2>2 DEF Quiet
  <2>4. Grown
    BY <1>4, ResumeStep
  <2> QED
    BY <1>0, <2>3, <2>4, QuietWaits, GrownChange
<1>5. ASSUME NEW o \in DOMAIN objs, CompositeDies(o) PROVE o \in DOMAIN Made /\ Abstract!CompositeDies(o)
  <2>1. /\ Dead' = Dead \cup {o} /\ Len(objs') = Len(objs)
        /\ \A p \in DOMAIN objs : objs'[p].kind = objs[p].kind /\ objs'[p].parts = objs[p].parts
    BY <1>5, CompositeDiesStep
  <2>2. Made' = Made
    <3>1. DOMAIN objs' = DOMAIN objs
      BY <1>0, <2>1, EntityFacts DEF EntitiesOK
    <3> QED
      BY <2>1, <3>1 DEF Made, MadeOf
  <2>3. Waits' = Waits
    BY <1>5 DEF CompositeDies, Waits
  <2>4. /\ DOMAIN Made = DOMAIN objs /\ Made[o].kind = objs[o].kind /\ Made[o].parts = objs[o].parts
        /\ objs[o].parts \subseteq DOMAIN objs
    BY <1>0, MadeFacts DEF EntitiesOK, Made
  <2>5. Abstract!Due(o)
    <3>1. Due(o)
      BY <1>5 DEF CompositeDies, CompositeDue
    <3>2. objs[o].kind = "EntityAnd" => objs[o].parts \subseteq Dead
      BY <2>4, <3>1 DEF Due, Dead
    <3>3. objs[o].kind = "EntityOr" => objs[o].parts \cap Dead # {}
      BY <2>4, <3>1 DEF Due, Dead
    <3>4. objs[o].kind \in {"EntityAnd", "EntityOr", "EntityNot"}
      BY <3>1 DEF Due
    <3> QED
      BY <2>4, <3>2, <3>3, <3>4 DEF Abstract!Due, Abstract!Is, Made, MadeOf
  <2> QED
    BY <2>1, <2>2, <2>3, <2>4, <2>5 DEF Abstract!CompositeDies, Made, MadeOf, Waits
<1>6. ASSUME NEW o \in DOMAIN objs, Fire(o) PROVE Abstract!Change
  <2>1. Grown /\ Waits' = Waits
    BY <1>6, FireStep DEF Fire, Waits
  <2> QED
    BY <1>0, <2>1, GrownChange
<1>7. CASE MainEnd
  <2> DEFINE t == WithStatus(tasks[Main], "settling")
  <2>1. tasks[Main].status = "ready" /\ tasks' = [tasks EXCEPT ![Main] = t] /\ Main \in DOMAIN tasks
    BY <1>0, <1>7, TaskFacts DEF MainEnd, Ready, WithStatus
  <2>2. t.status = "settling"
    BY <1>0, <2>1 DEF TasksOK, TaskOK, WithStatus
  <2> HIDE DEF t
  <2>3. Quiet(Main)
    BY <2>1, <2>2 DEF Quiet
  <2>4. Abstract!Change
    BY <1>0, <1>7, <2>1, <2>3, MainEndStep, QuietWaits, GrownChange
  <2> QED
    BY <2>4 DEF Abstract!DeathNext
<1>8. CASE Settle
  <2>1. Main \in DOMAIN tasks /\ tasks[Main].status # "waiting" /\ Finish("ended")
    BY <1>0, <1>8, TaskFacts DEF Settle
  <2>2. Quiet(Main)
    BY <1>0, <2>1, FinishQuiet
  <2>3. Abstract!Change
    BY <1>0, <1>8, <2>1, <2>2, SettleStep, QuietWaits, GrownChange
  <2> QED
    BY <2>3 DEF Abstract!DeathNext
<1>9. CASE UNCHANGED vars
  <2>1. Made' = Made /\ Dead' = Dead /\ Waits' = Waits
    BY <1>9 DEF vars, Made, MadeOf, Dead, Waits
  <2> QED
    BY <2>1 DEF Abstract!deathvars, Made, MadeOf, Waits
<1>10. CASE Next
  <2>1. \/ \E i \in DOMAIN tasks : Execute(i) \/ Wake(i) \/ Resume(i)
        \/ \E o \in DOMAIN objs : CompositeDies(o) \/ Fire(o)
        \/ MainEnd \/ Settle
    BY <1>10 DEF Next
  <2>2. ASSUME NEW i \in DOMAIN tasks, Execute(i) \/ Wake(i) \/ Resume(i) PROVE Abstract!DeathNext
    BY <1>1, <1>2, <1>3, <1>4, <2>2 DEF Abstract!DeathNext, Waits
  <2>3. ASSUME NEW o \in DOMAIN objs, CompositeDies(o) \/ Fire(o) PROVE Abstract!DeathNext
    BY <1>5, <1>6, <2>3 DEF Abstract!DeathNext, Made, MadeOf
  <2> QED
    BY <1>7, <1>8, <2>1, <2>2, <2>3
<1> QED
  BY <1>9, <1>10

\* The interpreter implements Death: whatever a program does, time, DIE, an import
\* over a name and the end of the program kill entities that are no composites, a
\* composite dies when its parts say so, and who waits goes on when it has died.
THEOREM DeathIsKept == Spec => KeepsDeath
<1> QED
  BY RunInvariant, StepKeepsDeath, PTL DEF Spec, KeepsDeath

LEMMA InitKeepsDeath == ASSUME Init PROVE Abstract!DeathInit
<1>1. EntitiesOK /\ Len(objs) = 1 /\ objs = <<Entity("this", {})>>
  BY InitInv DEF Inv, Init
<1>2. Made = [o \in {1} |-> [kind |-> "this", parts |-> {}]] /\ Dead = {}
  BY <1>1 DEF Made, MadeOf, Dead, Entity
<1>3. PICK p : tasks = <<Task(p, 0, 0)>>
  BY DEF Init
<1>4. DOMAIN tasks = {1} /\ tasks[1].status = "ready"
  BY <1>3 DEF Task
<1>5. Waits = {}
  BY <1>4 DEF Waits
<1> QED
  BY <1>2, <1>5 DEF Abstract!DeathInit, Made, MadeOf, Waits

\* What is proved of Death (that nobody goes on early, and that the dead stay
\* dead) is thereby true of every run of the interpreter.
THEOREM RefinesDeath == Spec => Abstract!DeathSpec
<1> QED
  BY InitKeepsDeath, RunInvariant, StepKeepsDeath, PTL DEF Spec, Abstract!DeathSpec
=============================================================================
