------------------------------ MODULE MarketProofs ------------------------------
(***************************************************************************)
(* What the price service tells its users about the market: how often one   *)
(* crossing can fire an alert, for every set of alerts and prices and any    *)
(* number of evaluators, failures and restarts; and that the stamp of the    *)
(* shop offers dates their table, for every set of rows and processes, every *)
(* length of a day and of a job.                                             *)
(***************************************************************************)
EXTENDS Alerts, Shops, FiniteSetTheorems, TLAPS

(***************************************************************************)
(* Types                                                                   *)
(***************************************************************************)

\* The verdict on an alert, a NULL price included.
LEMMA HoldsBoolean == \A a \in AlertId : Holds(a) \in BOOLEAN
BY Zenon DEF Holds

\* An evaluator that is done with its round is well typed.
LEMMA AbandonTyped ==
    ASSUME TypeOK, NEW e \in Evaluator, Abandon(e)
    PROVE  /\ pc' \in [Evaluator -> {"idle", "snapshot", "next", "event", "mark", "rearm"}]
           /\ todo' \in [Evaluator -> SUBSET Pending]
           /\ cur' \in [Evaluator -> Pending \cup {NoWork}]
           /\ \A f \in Evaluator : pc'[f] \in {"event", "mark", "rearm"} => cur'[f] \in Pending
BY DEF TypeOK, Abandon

\* And so is one that goes on to its next alert.
LEMMA ContinueTyped ==
    ASSUME TypeOK, NEW e \in Evaluator, Continue(e)
    PROVE  /\ pc' \in [Evaluator -> {"idle", "snapshot", "next", "event", "mark", "rearm"}]
           /\ todo' \in [Evaluator -> SUBSET Pending]
           /\ cur' \in [Evaluator -> Pending \cup {NoWork}]
           /\ \A f \in Evaluator : pc'[f] \in {"event", "mark", "rearm"} => cur'[f] \in Pending
BY DEF TypeOK, Continue

\* Taking one of the results of the snapshot.
LEMMA TakeTyped ==
    ASSUME TypeOK, NEW e \in Evaluator, NEW p \in todo[e],
           NEW where \in {"next", "event", "rearm"}, Take(e, p, where)
    PROVE  TypeOK'
<1>1. p \in Pending
  BY DEF TypeOK
<1> QED
  BY <1>1 DEF TypeOK, Take, rows

\* Whatever evaluators, users and failures do, only alerts with a row have a
\* last_fired, and an evaluator about to write knows for which alert.
THEOREM TypeCorrect == Spec => []TypeOK
<1>1. Init => TypeOK
  BY ConstantsAssumption DEF Init, TypeOK
<1>2. TypeOK /\ [Next]_vars => TypeOK'
  <2> SUFFICES ASSUME TypeOK, [Next]_vars
               PROVE  TypeOK'
    OBVIOUS
  <2> USE ConstantsAssumption
  <2>1. ASSUME NEW e \in Evaluator, ComputeStats(e)
        PROVE  TypeOK'
    BY <2>1 DEF ComputeStats, TypeOK, rows
  <2>2. ASSUME NEW e \in Evaluator, Snapshot(e)
        PROVE  TypeOK'
    <3>1. {[id |-> a, hold |-> Holds(a)] : a \in alerts} \subseteq Pending
      BY HoldsBoolean DEF TypeOK, Pending
    <3> QED
      BY <2>2, <3>1 DEF Snapshot, TypeOK, rows
  <2>3. ASSUME NEW e \in Evaluator, NEW p \in todo[e],
               StartFiring(e, p) \/ StartRearming(e, p) \/ LeaveAlone(e, p)
        PROVE  TypeOK'
    BY <2>3, TakeTyped DEF StartFiring, StartRearming, LeaveAlone
  <2>4. ASSUME NEW e \in Evaluator, InsertEvent(e)
        PROVE  TypeOK'
    <3>1. cur[e].id \in AlertId
      BY <2>4 DEF InsertEvent, TypeOK, Pending
    <3> QED
      BY <2>4, <3>1 DEF InsertEvent, TypeOK, rows
  <2>5. ASSUME NEW e \in Evaluator, SetLastFired(e)
        PROVE  TypeOK'
    BY <2>5, ContinueTyped DEF SetLastFired, TypeOK, rows
  <2>6. ASSUME NEW e \in Evaluator, ClearLastFired(e)
        PROVE  TypeOK'
    BY <2>6, ContinueTyped DEF ClearLastFired, TypeOK, rows
  <2>7. ASSUME NEW e \in Evaluator, EndRound(e) \/ TokenGone(e)
        PROVE  TypeOK'
    BY <2>7, AbandonTyped DEF EndRound, TokenGone, TypeOK, rows
  <2>8. ASSUME NEW e \in Evaluator, StatementFails(e)
        PROVE  TypeOK'
    <3>1. CASE Abandon(e)
      BY <2>8, <3>1, AbandonTyped DEF StatementFails, TypeOK, rows
    <3>2. CASE \E p \in todo[e] : /\ todo' = [todo EXCEPT ![e] = @ \ {p}]
                                  /\ UNCHANGED <<pc, cur>>
      BY <2>8, <3>2 DEF StatementFails, TypeOK, rows
    <3> QED
      BY <2>8, <3>1, <3>2 DEF StatementFails
  <2>9. ASSUME NEW e \in Evaluator, Restart(e)
        PROVE  TypeOK'
    BY <2>9, AbandonTyped DEF Restart, TypeOK, rows
  <2>10. ASSUME NEW a \in AlertId, AddAlert(a)
         PROVE  TypeOK'
    BY <2>10 DEF AddAlert, TypeOK, work
  <2>11. ASSUME NEW a \in AlertId, DeleteAlert(a)
         PROVE  TypeOK'
    BY <2>11 DEF DeleteAlert, TypeOK, work
  <2>12. ASSUME NEW t \in Token, Forget(t)
         PROVE  TypeOK'
    BY <2>12 DEF Forget, TypeOK, work
  <2>13. CASE UNCHANGED vars
    BY <2>13 DEF vars, TypeOK
  <2> QED
    BY <2>1, <2>2, <2>3, <2>4, <2>5, <2>6, <2>7, <2>8, <2>9, <2>10, <2>11, <2>12, <2>13
       DEF Next, RoundStep, Users
<1> QED
  BY <1>1, <1>2, PTL DEF Spec

(***************************************************************************)
(* How often one crossing fires                                            *)
(***************************************************************************)

\* The evaluators about to write for alert a.
At(where, a)    == {e \in Evaluator : pc[e] = where /\ cur[e].id = a}
Count(where, a) == Cardinality(At(where, a))

\* Evaluators know of alerts that were given out, and of no other is there an
\* entry.
GivenOut ==
    /\ \A e \in Evaluator :
         /\ \A p \in todo[e] : p.id \in used
         /\ pc[e] \in {"event", "mark", "rearm"} => cur[e].id \in used
    /\ \A a \in AlertId \ used : entries[a] = 0

\* While an alert is armed, each of its entries is of an evaluator that has yet
\* to mark it as fired, or of one that failed to.  Once it is marked or gone
\* nobody else begins to fire it, and those that have begun add one entry each.
Bound(a) ==
    IF a \in alerts \ fired
    THEN entries[a] =< Count("mark", a) + troubles
    ELSE entries[a] + Count("event", a) =< Cardinality(Evaluator) + troubles

FiringInv == GivenOut /\ \A a \in AlertId : Bound(a)

LEMMA Sizes ==
    /\ Cardinality(Evaluator) \in Nat
    /\ \A S \in SUBSET Evaluator : IsFiniteSet(S) /\ Cardinality(S) \in Nat
BY ConstantsAssumption, FS_CardinalityType, FS_Subset

\* No evaluator is about to append and to mark at the same time.
LEMMA CountsFit ==
    ASSUME NEW a
    PROVE  /\ Count("event", a) \in Nat
           /\ Count("mark", a) \in Nat
           /\ Count("event", a) + Count("mark", a) =< Cardinality(Evaluator)
<1>1. At("event", a) \in SUBSET Evaluator /\ At("mark", a) \in SUBSET Evaluator
  BY DEF At
<1>2. At("event", a) \cap At("mark", a) = {}
  BY DEF At
<1>3. Cardinality(At("event", a) \cup At("mark", a)) = Count("event", a) + Count("mark", a)
  <2>1. IsFiniteSet(At("event", a)) /\ IsFiniteSet(At("mark", a))
    BY <1>1, Sizes
  <2>2. Cardinality(At("event", a) \cup At("mark", a))
          = Count("event", a) + Count("mark", a) - Cardinality(At("event", a) \cap At("mark", a))
    BY <2>1, FS_Union DEF Count
  <2>3. Cardinality(At("event", a) \cap At("mark", a)) = 0
    BY <1>2, FS_EmptySet
  <2> QED
    BY <1>1, <2>2, <2>3, Sizes DEF Count
<1>4. Cardinality(At("event", a) \cup At("mark", a)) =< Cardinality(Evaluator)
  BY <1>1, ConstantsAssumption, FS_Subset
<1> QED
  BY <1>1, <1>3, <1>4, Sizes DEF Count

One(P) == IF P THEN 1 ELSE 0

\* A step of one evaluator changes a count by its own coming and going.
LEMMA CountMoves ==
    ASSUME NEW e \in Evaluator, NEW where, NEW a,
           \A f \in Evaluator \ {e} : pc'[f] = pc[f] /\ cur'[f] = cur[f]
    PROVE  /\ Count(where, a)' \in Nat
           /\ Count(where, a)' + One(pc[e] = where /\ cur[e].id = a)
                = Count(where, a) + One(pc'[e] = where /\ cur'[e].id = a)
<1>1. /\ At(where, a) \in SUBSET Evaluator
      /\ At(where, a)' \in SUBSET Evaluator
  BY DEF At
<1>2. At(where, a)' = IF pc'[e] = where /\ cur'[e].id = a THEN At(where, a) \cup {e}
                                                         ELSE At(where, a) \ {e}
  BY DEF At
<1>3. e \in At(where, a) <=> pc[e] = where /\ cur[e].id = a
  BY DEF At
<1>4. /\ IsFiniteSet(At(where, a))
      /\ Count(where, a) \in Nat
      /\ Count(where, a)' \in Nat
  BY <1>1, Sizes DEF Count
<1>5. /\ Cardinality(At(where, a) \cup {e})
           = IF e \in At(where, a) THEN Count(where, a) ELSE Count(where, a) + 1
      /\ Cardinality(At(where, a) \ {e})
           = IF e \in At(where, a) THEN Count(where, a) - 1 ELSE Count(where, a)
  BY <1>4, FS_AddElement, FS_RemoveElement DEF Count
<1> QED
  BY <1>2, <1>3, <1>4, <1>5 DEF Count, One
\* The parts of an evaluator's step that cannot break the bound of a: it leaves
\* a's row and entries alone, no evaluator begins to fire a, and one that gives
\* up marking it is a failure.
LEMMA Quiet ==
    ASSUME TypeOK, TypeOK', NEW a \in AlertId, Bound(a),
           entries'[a] = entries[a],
           a \in alerts' \ fired' <=> a \in alerts \ fired,
           Count("event", a)' \in Nat, Count("mark", a)' \in Nat,
           Count("event", a)' =< Count("event", a),
           troubles =< troubles',
           Count("mark", a) + troubles =< Count("mark", a)' + troubles'
    PROVE  Bound(a)'
<1>1. /\ entries[a] \in Nat
      /\ troubles \in Nat /\ troubles' \in Nat
  BY ConstantsAssumption DEF TypeOK
<1> QED
  BY <1>1, CountsFit, Sizes DEF Bound

\* A round that stops short of writing for a.
LEMMA StopsQuietly ==
    ASSUME TypeOK, TypeOK', NEW e \in Evaluator, NEW a \in AlertId, Bound(a),
           \A f \in Evaluator \ {e} : pc'[f] = pc[f] /\ cur'[f] = cur[f],
           pc'[e] \notin {"event", "mark"},
           pc[e] = "mark" => troubles' = troubles + 1,
           troubles' \in {troubles, troubles + 1},
           UNCHANGED <<rows, fired, entries>>
    PROVE  Bound(a)'
<1>1. troubles \in Nat
  BY ConstantsAssumption DEF TypeOK
<1>2. /\ Count("event", a)' \in Nat
      /\ Count("event", a)' =< Count("event", a)
  BY CountMoves, CountsFit DEF One
<1>3. /\ Count("mark", a)' \in Nat
      /\ Count("mark", a) + troubles =< Count("mark", a)' + troubles'
  BY <1>1, CountMoves, CountsFit DEF One
<1> QED
  BY <1>1, <1>2, <1>3, Quiet DEF rows

\* Every step keeps the bound of every alert.
LEMMA BoundKept ==
    ASSUME TypeOK, TypeOK', FiringInv, Next, NEW a \in AlertId
    PROVE  Bound(a)'
<1> USE ConstantsAssumption
<1>0. /\ Bound(a)
      /\ entries[a] \in Nat
      /\ troubles \in Nat
  BY DEF FiringInv, TypeOK
<1>1. ASSUME NEW e \in Evaluator,
             ComputeStats(e) \/ Snapshot(e) \/ EndRound(e) \/ TokenGone(e) \/ Restart(e)
      PROVE  Bound(a)'
  <2>1. /\ \A f \in Evaluator \ {e} : pc'[f] = pc[f] /\ cur'[f] = cur[f]
        /\ pc'[e] \notin {"event", "mark"}
        /\ UNCHANGED <<rows, fired, entries>>
        /\ pc[e] = "mark" => troubles' = troubles + 1
        /\ troubles' \in {troubles, troubles + 1}
    BY <1>1 DEF ComputeStats, Snapshot, EndRound, TokenGone, Restart, Abandon, TypeOK
  <2> QED
    BY <1>0, <2>1, StopsQuietly
<1>2. ASSUME NEW e \in Evaluator, StatementFails(e)
      PROVE  Bound(a)'
  <2>1. /\ \A f \in Evaluator \ {e} : pc'[f] = pc[f] /\ cur'[f] = cur[f]
        /\ pc'[e] \notin {"event", "mark"}
        /\ UNCHANGED <<rows, fired, entries>>
        /\ troubles' = troubles + 1
    BY <1>2 DEF StatementFails, Abandon, TypeOK
  <2> QED
    BY <1>0, <2>1, StopsQuietly
<1>3. ASSUME NEW e \in Evaluator, NEW p \in todo[e], StartRearming(e, p) \/ LeaveAlone(e, p)
      PROVE  Bound(a)'
  <2>1. /\ \A f \in Evaluator \ {e} : pc'[f] = pc[f] /\ cur'[f] = cur[f]
        /\ pc[e] = "next"
        /\ pc'[e] \notin {"event", "mark"}
        /\ UNCHANGED <<rows, fired, entries, troubles>>
    BY <1>3 DEF StartRearming, LeaveAlone, Take, TypeOK
  <2> QED
    BY <1>0, <2>1, StopsQuietly
<1>4. ASSUME NEW e \in Evaluator, NEW p \in todo[e], StartFiring(e, p)
      PROVE  Bound(a)'
  <2>1. /\ \A f \in Evaluator \ {e} : pc'[f] = pc[f] /\ cur'[f] = cur[f]
        /\ pc[e] = "next" /\ pc'[e] = "event" /\ cur'[e] = p
        /\ UNCHANGED <<rows, fired, entries, troubles>>
        /\ p.id \in alerts \ fired
    BY <1>4 DEF StartFiring, Take, TypeOK
  <2>2. Count("mark", a)' = Count("mark", a) /\ Count("event", a)' \in Nat
    BY <2>1, CountMoves, CountsFit DEF One
  <2>3. CASE p.id = a
    BY <1>0, <2>1, <2>2, <2>3 DEF Bound, rows
  <2>4. CASE p.id # a
    <3>1. Count("event", a)' = Count("event", a)
      BY <2>1, <2>4, CountMoves, CountsFit DEF One
    <3> QED
      BY <1>0, <2>1, <2>2, <3>1, CountsFit, Quiet DEF rows
  <2> QED
    BY <2>3, <2>4
<1>5. ASSUME NEW e \in Evaluator, InsertEvent(e)
      PROVE  Bound(a)'
  <2>1. /\ \A f \in Evaluator \ {e} : pc'[f] = pc[f] /\ cur'[f] = cur[f]
        /\ pc[e] = "event" /\ pc'[e] = "mark" /\ cur'[e] = cur[e]
        /\ UNCHANGED <<rows, fired, troubles>>
        /\ entries'[a] = entries[a] + One(cur[e].id = a)
    BY <1>0, <1>5 DEF InsertEvent, TypeOK, One
  <2>2. /\ Count("event", a)' \in Nat /\ Count("mark", a)' \in Nat
        /\ Count("event", a)' + One(cur[e].id = a) = Count("event", a)
        /\ Count("mark", a)' = Count("mark", a) + One(cur[e].id = a)
    BY <2>1, CountMoves, CountsFit DEF One
  <2> QED
    BY <1>0, <2>1, <2>2, CountsFit, Sizes DEF Bound, rows, One
<1>6. ASSUME NEW e \in Evaluator, SetLastFired(e)
      PROVE  Bound(a)'
  <2>1. /\ \A f \in Evaluator \ {e} : pc'[f] = pc[f] /\ cur'[f] = cur[f]
        /\ pc[e] = "mark" /\ pc'[e] = "next"
        /\ UNCHANGED <<rows, troubles>>
    BY <1>6 DEF SetLastFired, Continue, TypeOK
  <2>2. /\ Count("event", a)' = Count("event", a)
        /\ Count("mark", a)' \in Nat
        /\ Count("mark", a)' + One(cur[e].id = a) = Count("mark", a)
    BY <2>1, CountMoves, CountsFit DEF One
  <2>3. CASE cur[e].id = a /\ a \in alerts
    <3>1. a \notin alerts' \ fired' /\ entries'[a] = entries[a]
      BY <1>6, <2>3 DEF SetLastFired
    <3> QED
      BY <1>0, <2>1, <2>2, <3>1, CountsFit, Sizes DEF Bound
  <2>4. CASE cur[e].id = a /\ a \notin alerts
    <3>1. a \notin alerts' \ fired' /\ entries'[a] = 0
      BY <1>6, <2>1, <2>4 DEF SetLastFired, TypeOK, rows
    <3> QED
      BY <1>0, <2>1, <2>2, <3>1, CountsFit, Sizes DEF Bound
  <2>5. CASE cur[e].id # a
    <3>1. entries'[a] = entries[a] /\ (a \in alerts' \ fired' <=> a \in alerts \ fired)
      BY <1>6, <2>1, <2>5 DEF SetLastFired, TypeOK, rows
    <3>2. Count("mark", a)' = Count("mark", a)
      BY <2>2, <2>5, CountsFit DEF One
    <3> QED
      BY <1>0, <2>1, <2>2, <3>1, <3>2, CountsFit, Quiet
  <2> QED
    BY <2>3, <2>4, <2>5
<1>7. ASSUME NEW e \in Evaluator, ClearLastFired(e)
      PROVE  Bound(a)'
  <2>1. /\ \A f \in Evaluator \ {e} : pc'[f] = pc[f] /\ cur'[f] = cur[f]
        /\ pc[e] = "rearm" /\ pc'[e] = "next"
        /\ UNCHANGED <<rows, troubles>>
    BY <1>7 DEF ClearLastFired, Continue, TypeOK
  <2>2. Count("event", a)' = Count("event", a) /\ Count("mark", a)' = Count("mark", a)
    BY <2>1, CountMoves, CountsFit DEF One
  <2>3. CASE cur[e].id = a
    <3>1. entries'[a] = 0
      BY <1>7, <2>3 DEF ClearLastFired, TypeOK
    <3> QED
      BY <1>0, <2>1, <2>2, <3>1, CountsFit, Sizes DEF Bound
  <2>4. CASE cur[e].id # a
    <3>1. entries'[a] = entries[a] /\ (a \in alerts' \ fired' <=> a \in alerts \ fired)
      BY <1>7, <2>1, <2>4 DEF ClearLastFired, TypeOK, rows
    <3> QED
      BY <1>0, <2>1, <2>2, <3>1, CountsFit, Quiet
  <2> QED
    BY <2>3, <2>4
<1>8. ASSUME Users
      PROVE  Bound(a)'
  <2>1. /\ UNCHANGED <<pc, cur, troubles>>
        /\ Count("event", a)' = Count("event", a)
        /\ Count("mark", a)' = Count("mark", a)
    BY <1>8 DEF Users, AddAlert, DeleteAlert, Forget, work, Count, At
  <2>2. ASSUME NEW b \in AlertId, AddAlert(b)
        PROVE  Bound(a)'
    <3>1. CASE b = a
      <4>1. entries'[a] = 0
        BY <2>2, <3>1 DEF AddAlert, FiringInv, GivenOut
      <4> QED
        BY <1>0, <2>1, <4>1, CountsFit, Sizes DEF Bound
    <3>2. CASE b # a
      BY <1>0, <2>1, <2>2, <3>2 DEF AddAlert, Bound
    <3> QED
      BY <3>1, <3>2
  <2>3. ASSUME NEW b \in AlertId, DeleteAlert(b)
        PROVE  Bound(a)'
    BY <1>0, <2>1, <2>3, CountsFit, Sizes DEF DeleteAlert, Bound
  <2>4. ASSUME NEW t \in Token, Forget(t)
        PROVE  Bound(a)'
    <3>1. CASE Watch[a].token = t
      <4>1. entries'[a] = 0
        BY <2>4, <3>1 DEF Forget
      <4> QED
        BY <1>0, <2>1, <4>1, CountsFit, Sizes DEF Bound
    <3>2. CASE Watch[a].token # t
      <4>1. entries'[a] = entries[a] /\ (a \in alerts' \ fired' <=> a \in alerts \ fired)
        BY <2>4, <3>2 DEF Forget
      <4> QED
        BY <1>0, <2>1, <4>1 DEF Bound
    <3> QED
      BY <3>1, <3>2
  <2> QED
    BY <1>8, <2>2, <2>3, <2>4 DEF Users
<1> QED
  BY <1>1, <1>2, <1>3, <1>4, <1>5, <1>6, <1>7, <1>8 DEF Next, RoundStep
\* Ids are given out once, so an evaluator's snapshot cannot name a later alert.
LEMMA GivenOutKept ==
    ASSUME TypeOK, GivenOut, Next
    PROVE  GivenOut'
<1>1. ASSUME NEW e \in Evaluator,
             ComputeStats(e) \/ EndRound(e) \/ TokenGone(e) \/ StatementFails(e) \/ Restart(e)
      PROVE  GivenOut'
  <2>1. /\ UNCHANGED <<used, entries>>
        /\ \A f \in Evaluator : todo'[f] \subseteq todo[f]
        /\ \A f \in Evaluator :
             pc'[f] \in {"event", "mark", "rearm"} => pc'[f] = pc[f] /\ cur'[f] = cur[f]
    BY <1>1 DEF ComputeStats, EndRound, TokenGone, StatementFails, Restart, Abandon, rows, TypeOK
  <2> QED
    BY <2>1 DEF GivenOut
<1>2. ASSUME NEW e \in Evaluator, Snapshot(e)
      PROVE  GivenOut'
  <2>1. /\ UNCHANGED <<used, entries, cur>>
        /\ \A f \in Evaluator : todo'[f] = IF f = e THEN {[id |-> a, hold |-> Holds(a)] : a \in alerts}
                                                    ELSE todo[f]
        /\ \A f \in Evaluator : pc'[f] \in {"event", "mark", "rearm"} => pc'[f] = pc[f]
    BY <1>2 DEF Snapshot, rows, TypeOK
  <2>2. \A f \in Evaluator : \A p \in todo'[f] : p.id \in used
    <3>1. \A p \in {[id |-> a, hold |-> Holds(a)] : a \in alerts} : p.id \in used
      BY DEF TypeOK
    <3> QED
      BY <2>1, <3>1 DEF GivenOut
  <2> QED
    BY <2>1, <2>2 DEF GivenOut
<1>3. ASSUME NEW e \in Evaluator, NEW p \in todo[e],
             StartFiring(e, p) \/ StartRearming(e, p) \/ LeaveAlone(e, p)
      PROVE  GivenOut'
  <2>1. /\ UNCHANGED <<used, entries>>
        /\ \A f \in Evaluator : todo'[f] \subseteq todo[f]
        /\ \A f \in Evaluator \ {e} : pc'[f] = pc[f] /\ cur'[f] = cur[f]
        /\ pc'[e] \in {"event", "mark", "rearm"} => cur'[e] = p
    BY <1>3 DEF StartFiring, StartRearming, LeaveAlone, Take, rows, TypeOK
  <2> QED
    BY <2>1 DEF GivenOut
<1>4. ASSUME NEW e \in Evaluator, InsertEvent(e)
      PROVE  GivenOut'
  <2>1. /\ UNCHANGED <<used, todo, cur>>
        /\ cur[e].id \in used
        /\ \A f \in Evaluator \ {e} : pc'[f] = pc[f]
        /\ \A a \in AlertId : a # cur[e].id => entries'[a] = entries[a]
    BY <1>4 DEF InsertEvent, GivenOut, rows, TypeOK
  <2> QED
    BY <2>1 DEF GivenOut
<1>5. ASSUME NEW e \in Evaluator, SetLastFired(e) \/ ClearLastFired(e)
      PROVE  GivenOut'
  <2>1. /\ UNCHANGED <<used, todo>>
        /\ \A f \in Evaluator :
             pc'[f] \in {"event", "mark", "rearm"} => pc'[f] = pc[f] /\ cur'[f] = cur[f]
        /\ \A a \in AlertId : entries'[a] \in {0, entries[a]}
    BY <1>5 DEF SetLastFired, ClearLastFired, Continue, rows, TypeOK
  <2> QED
    BY <2>1 DEF GivenOut
<1>6. CASE Users
  <2>1. /\ UNCHANGED <<pc, todo, cur>>
        /\ used \subseteq used'
        /\ \A a \in AlertId : entries'[a] \in {0, entries[a]}
    BY <1>6 DEF Users, AddAlert, DeleteAlert, Forget, work
  <2> QED
    BY <2>1 DEF GivenOut
<1> QED
  BY <1>1, <1>2, <1>3, <1>4, <1>5, <1>6 DEF Next, RoundStep

\* One crossing gives at most one entry for each process that evaluates at the
\* same time and one more for each failure between the append and the update
\* (ident.go:452-489), however many alerts there are and whatever users delete.
THEOREM FiringsAreBounded == Spec => []DuplicatesBounded
<1>1. Init => FiringInv
  <2> SUFFICES ASSUME Init
               PROVE  FiringInv
    OBVIOUS
  <2>1. GivenOut
    BY DEF Init, GivenOut
  <2>2. ASSUME NEW a \in AlertId
        PROVE  Bound(a)
    BY CountsFit, Sizes DEF Init, Bound
  <2> QED
    BY <2>1, <2>2 DEF FiringInv
<1>2. TypeOK /\ TypeOK' /\ FiringInv /\ [Next]_vars => FiringInv'
  <2> SUFFICES ASSUME TypeOK, TypeOK', FiringInv, [Next]_vars
               PROVE  FiringInv'
    OBVIOUS
  <2>1. CASE Next
    BY <2>1, GivenOutKept, BoundKept DEF FiringInv
  <2>2. CASE UNCHANGED vars
    BY <2>2 DEF vars, FiringInv, GivenOut, Bound, Count, At
  <2> QED
    BY <2>1, <2>2
<1>3. TypeOK /\ FiringInv => DuplicatesBounded
  <2> SUFFICES ASSUME TypeOK, FiringInv, NEW a \in AlertId
               PROVE  entries[a] =< Cardinality(Evaluator) + troubles
    BY DEF DuplicatesBounded
  <2>1. entries[a] \in Nat /\ troubles \in Nat /\ Bound(a)
    BY ConstantsAssumption DEF TypeOK, FiringInv
  <2> QED
    BY <2>1, CountsFit, Sizes DEF Bound
<1> QED
  BY <1>1, <1>2, <1>3, TypeCorrect, PTL DEF Spec

(***************************************************************************)
(* What is left after a code is forgotten                                  *)
(***************************************************************************)

\* Nobody begins to fire an alert that went with its code: what is left of it
\* is of evaluators that were about to append, one entry each.
Erased(a) ==
    a \in forgotten =>
        /\ a \in used \ alerts
        /\ left[a] + Count("event", a) =< Cardinality(Evaluator)
        /\ left[a] > 0 => Watch[a].token \in tokens

ForgetInv == \A a \in AlertId : Erased(a)

\* A step of an evaluator that neither appends nor begins to fire a.
LEMMA ErasedQuietly ==
    ASSUME TypeOK, NEW a \in AlertId, Erased(a), NEW e \in Evaluator,
           \A f \in Evaluator \ {e} : pc'[f] = pc[f] /\ cur'[f] = cur[f],
           pc'[e] # "event" \/ cur'[e].id # a,
           UNCHANGED <<rows, left>>
    PROVE  Erased(a)'
<1>1. /\ Count("event", a)' \in Nat
      /\ Count("event", a)' =< Count("event", a)
  BY CountMoves, CountsFit DEF One
<1>2. left[a] \in Nat
  BY DEF TypeOK
<1> QED
  BY <1>1, <1>2, CountsFit, Sizes DEF Erased, rows

LEMMA ErasedKept ==
    ASSUME TypeOK, ForgetInv, Next, NEW a \in AlertId
    PROVE  Erased(a)'
<1>0. Erased(a) /\ left[a] \in Nat
  BY DEF ForgetInv, TypeOK
<1>1. ASSUME NEW e \in Evaluator,
             \/ ComputeStats(e) \/ Snapshot(e) \/ EndRound(e) \/ TokenGone(e) \/ Restart(e)
             \/ StatementFails(e) \/ SetLastFired(e) \/ ClearLastFired(e)
      PROVE  Erased(a)'
  <2>1. /\ \A f \in Evaluator \ {e} : pc'[f] = pc[f] /\ cur'[f] = cur[f]
        /\ pc'[e] # "event"
        /\ UNCHANGED <<rows, left>>
    BY <1>1 DEF ComputeStats, Snapshot, EndRound, TokenGone, Restart, StatementFails, SetLastFired,
                ClearLastFired, Abandon, Continue, TypeOK
  <2> QED
    BY <1>0, <2>1, ErasedQuietly
<1>2. ASSUME NEW e \in Evaluator, NEW p \in todo[e],
             StartFiring(e, p) \/ StartRearming(e, p) \/ LeaveAlone(e, p)
      PROVE  Erased(a)'
  <2>1. /\ \A f \in Evaluator \ {e} : pc'[f] = pc[f] /\ cur'[f] = cur[f]
        /\ pc'[e] = "event" => p.id \in alerts /\ cur'[e] = p
        /\ UNCHANGED <<rows, left>>
    BY <1>2 DEF StartFiring, StartRearming, LeaveAlone, Take, TypeOK
  <2>2. CASE a \in forgotten
    <3>1. pc'[e] # "event" \/ cur'[e].id # a
      BY <1>0, <2>1, <2>2 DEF Erased
    <3> QED
      BY <1>0, <2>1, <3>1, ErasedQuietly
  <2>3. CASE a \notin forgotten
    BY <2>1, <2>3 DEF Erased, rows
  <2> QED
    BY <2>2, <2>3
<1>3. ASSUME NEW e \in Evaluator, InsertEvent(e)
      PROVE  Erased(a)'
  <2>1. /\ \A f \in Evaluator \ {e} : pc'[f] = pc[f] /\ cur'[f] = cur[f]
        /\ pc[e] = "event" /\ pc'[e] = "mark" /\ cur'[e] = cur[e]
        /\ UNCHANGED rows
        /\ cur[e].id = a => Watch[a].token \in tokens
        /\ a \in forgotten => left'[a] = left[a] + One(cur[e].id = a)
    BY <1>0, <1>3 DEF InsertEvent, TypeOK, One
  <2>2. /\ Count("event", a)' \in Nat
        /\ Count("event", a)' + One(cur[e].id = a) = Count("event", a)
    BY <2>1, CountMoves, CountsFit DEF One
  <2> QED
    BY <1>0, <2>1, <2>2, CountsFit, Sizes DEF Erased, rows, One
<1>4. ASSUME Users
      PROVE  Erased(a)'
  <2>1. Count("event", a)' = Count("event", a)
    BY <1>4 DEF Users, AddAlert, DeleteAlert, Forget, work, Count, At
  <2>2. ASSUME NEW b \in AlertId, AddAlert(b) \/ DeleteAlert(b)
        PROVE  Erased(a)'
    BY <1>0, <2>1, <2>2 DEF AddAlert, DeleteAlert, Erased
  <2>3. ASSUME NEW t \in Token, Forget(t)
        PROVE  Erased(a)'
    <3>1. CASE Watch[a].token = t
      <4>1. left'[a] = 0 /\ a \notin alerts' /\ used' = used /\ forgotten' \subseteq used'
        BY <2>3, <3>1 DEF Forget, TypeOK
      <4> QED
        BY <2>1, <4>1, CountsFit, Sizes DEF Erased
    <3>2. CASE Watch[a].token # t
      <4>1. /\ left'[a] = left[a] /\ used' = used
            /\ a \in alerts' <=> a \in alerts
            /\ a \in forgotten' <=> a \in forgotten
            /\ Watch[a].token \in tokens => Watch[a].token \in tokens'
        BY <2>3, <3>2 DEF Forget
      <4> QED
        BY <1>0, <2>1, <4>1 DEF Erased
    <3> QED
      BY <3>1, <3>2
  <2> QED
    BY <1>4, <2>2, <2>3 DEF Users
<1> QED
  BY <1>1, <1>2, <1>3, <1>4 DEF Next, RoundStep

\* What is deleted with its code stays deleted (personal.go:300), whatever
\* evaluators have read of it before and however often the code is taken up
\* again: but for an entry that each was about to append.
THEOREM ForgottenForGood == Spec => []ForgetHolds
<1>1. Init => ForgetInv
  BY DEF Init, ForgetInv, Erased
<1>2. TypeOK /\ ForgetInv /\ [Next]_vars => ForgetInv'
  <2> SUFFICES ASSUME TypeOK, ForgetInv, [Next]_vars
               PROVE  ForgetInv'
    OBVIOUS
  <2>1. CASE Next
    BY <2>1, ErasedKept DEF ForgetInv
  <2>2. CASE UNCHANGED vars
    BY <2>2 DEF vars, ForgetInv, Erased, Count, At
  <2> QED
    BY <2>1, <2>2
<1>3. TypeOK /\ ForgetInv => ForgetHolds
  <2> SUFFICES ASSUME TypeOK, ForgetInv, NEW a \in forgotten, left[a] > 0
               PROVE  Watch[a].token \in tokens /\ left[a] =< Cardinality(Evaluator)
    BY DEF ForgetHolds
  <2>1. a \in AlertId /\ left[a] \in Nat
    BY DEF TypeOK
  <2> QED
    BY <2>1, CountsFit, Sizes DEF ForgetInv, Erased
<1> QED
  BY <1>1, <1>2, <1>3, TypeCorrect, PTL DEF Spec

-------------------------------------------------------------------------------
(***************************************************************************)
(* One evaluator: the service without an operator's `openget -once`.  The   *)
(* prices change only when it recomputes them, so that its verdicts stay    *)
(* true for as long as it works on them.                                   *)
(***************************************************************************)

OneEvaluator == \A e, f \in Evaluator : e = f

\* Prices that stay give the same verdicts.
LEMMA HoldsStays ==
    ASSUME stats' = stats, NEW a
    PROVE  Holds(a)' <=> Holds(a)
BY DEF Holds

\* What the evaluator took for true of the alerts it has still to write for.
Verdicts(e) ==
    /\ pc[e] \in {"idle", "snapshot"} => todo[e] = {}
    /\ \A p \in todo[e] : p.hold => Holds(p.id)
    /\ \A p \in todo[e] : ~ p.hold => ~ Holds(p.id)
    /\ pc[e] = "event" => Holds(cur[e].id)
    /\ pc[e] = "rearm" => ~ Holds(cur[e].id)

LEMMA VerdictsStep ==
    ASSUME OneEvaluator, TypeOK, NEW e \in Evaluator, Verdicts(e), [Next]_vars
    PROVE  Verdicts(e)'
<1> USE DEF OneEvaluator
<1>1. CASE ComputeStats(e)
  BY <1>1 DEF ComputeStats, Verdicts, TypeOK
<1>2. CASE Snapshot(e)
  <2>1. /\ todo'[e] = {[id |-> a, hold |-> Holds(a)] : a \in alerts}
        /\ pc'[e] = "next"
        /\ stats' = stats
    BY <1>2 DEF Snapshot, TypeOK
  <2>2. \A p \in todo'[e] : (p.hold => Holds(p.id)) /\ (~ p.hold => ~ Holds(p.id))
    BY <2>1
  <2>3. \A p \in todo'[e] : (p.hold => Holds(p.id)') /\ (~ p.hold => ~ Holds(p.id)')
    BY <2>1, <2>2, HoldsStays
  <2> QED
    BY <2>1, <2>3 DEF Verdicts
<1>3. ASSUME NEW p \in todo[e], StartFiring(e, p) \/ StartRearming(e, p) \/ LeaveAlone(e, p)
      PROVE  Verdicts(e)'
  <2>1. /\ stats' = stats
        /\ todo'[e] \subseteq todo[e]
        /\ pc[e] = "next"
        /\ pc'[e] \in {"next", "event", "rearm"}
        /\ pc'[e] = "event" => cur'[e] = p /\ p.hold
        /\ pc'[e] = "rearm" => cur'[e] = p /\ ~ p.hold
    BY <1>3 DEF StartFiring, StartRearming, LeaveAlone, Take, TypeOK
  <2> QED
    BY <2>1, HoldsStays DEF Verdicts
<1>4. CASE InsertEvent(e)
  <2>1. /\ stats' = stats
        /\ todo' = todo
        /\ pc'[e] = "mark"
    BY <1>4 DEF InsertEvent, TypeOK
  <2> QED
    BY <2>1, HoldsStays DEF Verdicts
<1>5. CASE SetLastFired(e) \/ ClearLastFired(e)
  <2>1. stats' = stats /\ todo' = todo /\ pc'[e] = "next"
    BY <1>5 DEF SetLastFired, ClearLastFired, Continue, TypeOK
  <2> QED
    BY <2>1, HoldsStays DEF Verdicts
<1>6. ASSUME stats' = stats, todo'[e] = {}, pc'[e] = "idle"
      PROVE  Verdicts(e)'
  BY <1>6 DEF Verdicts
<1>7. CASE EndRound(e) \/ TokenGone(e) \/ Restart(e)
  BY <1>6, <1>7 DEF EndRound, TokenGone, Restart, Abandon, TypeOK
<1>8. CASE StatementFails(e)
  <2>1. CASE Abandon(e)
    BY <1>6, <1>8, <2>1 DEF StatementFails, Abandon, TypeOK
  <2>2. CASE ~ Abandon(e)
    <3>1. stats' = stats /\ todo'[e] \subseteq todo[e] /\ pc' = pc /\ cur' = cur
      BY <1>8, <2>2 DEF StatementFails, TypeOK
    <3> QED
      BY <3>1, HoldsStays DEF Verdicts
  <2> QED
    BY <2>1, <2>2
<1>9. CASE Users \/ UNCHANGED vars
  <2>1. stats' = stats /\ todo' = todo /\ pc' = pc /\ cur' = cur
    BY <1>9 DEF Users, AddAlert, DeleteAlert, Forget, work, vars
  <2> QED
    BY <2>1, HoldsStays DEF Verdicts
<1> QED
  BY <1>1, <1>2, <1>3, <1>4, <1>5, <1>7, <1>8, <1>9 DEF Next, RoundStep

\* "so a firing can never be based on a price the site is not already showing"
\* (ingest.go:210): true of the service alone, whatever users do and whichever
\* of its statements fail.  With an `openget -once` beside it, it is not.
THEOREM FiringsAreShown == ASSUME OneEvaluator PROVE Spec => []FiringMatchesStats
<1>1. Init => \A e \in Evaluator : Verdicts(e)
  BY DEF Init, Verdicts
<1>2. TypeOK /\ (\A e \in Evaluator : Verdicts(e)) /\ [Next]_vars
        => (\A e \in Evaluator : Verdicts(e))'
  BY VerdictsStep
<1>3. (\A e \in Evaluator : Verdicts(e)) => FiringMatchesStats
  BY DEF Verdicts, FiringMatchesStats
<1> QED
  BY <1>1, <1>2, <1>3, TypeCorrect, PTL DEF Spec

-------------------------------------------------------------------------------
(***************************************************************************)
(* What a reader is promised (EdgeTrigger), as long as no statement fails   *)
(* and the service is not restarted: every step of the one evaluator and of *)
(* the users is a step of the promise, or none.                             *)
(***************************************************************************)

\* What is true of the alert the evaluator is at.
AtWork(e) ==
    /\ pc[e] = "event" => cur[e].id \notin fired /\ entries[cur[e].id] = 0
    /\ pc[e] = "mark"  => cur[e].id \notin fired
    /\ pc[e] = "rearm" => cur[e].id \in fired \/ cur[e].id \notin alerts

\* An alert that may fire has nothing in the feed since it was last armed.
ArmedIsUnspent == \A a \in alerts : a \notin fired \cup InFeed => entries[a] = 0

RoundInv ==
    /\ TypeOK
    /\ GivenOut
    /\ \A e \in Evaluator : Verdicts(e) /\ AtWork(e)
    /\ ArmedIsUnspent

\* The alert whose entry is in the feed before last_fired says so.
LEMMA InFeedIs ==
    ASSUME OneEvaluator, NEW e \in Evaluator
    PROVE  InFeed = IF pc[e] = "mark" THEN {cur[e].id} ELSE {}
BY DEF OneEvaluator, InFeed

LEMMA InFeedNext ==
    ASSUME OneEvaluator, NEW e \in Evaluator
    PROVE  InFeed' = IF pc'[e] = "mark" THEN {cur'[e].id} ELSE {}
BY DEF OneEvaluator, InFeed

\* A step that is none to the reader.
LEMMA Unnoticed ==
    ASSUME UNCHANGED <<stats, alerts, fired, entries>>, InFeed' = InFeed
    PROVE  UNCHANGED Promise!vars
<1>1. {a \in AlertId : Holds(a)}' = {a \in AlertId : Holds(a)}
  BY HoldsStays
<1> QED
  BY <1>1 DEF Promise!vars

AtWorkGoal == (\A e \in Evaluator : AtWork(e))' /\ ArmedIsUnspent'
StepGoal   == AtWorkGoal /\ [Promise!Next]_(Promise!vars)

LEMMA PromiseOfRound ==
    ASSUME OneEvaluator, RoundInv, NEW e \in Evaluator, troubles' = troubles,
           ComputeStats(e) \/ RoundStep(e) \/ StatementFails(e) \/ Restart(e)
    PROVE  StepGoal
<1> USE DEF RoundInv
<1>0. /\ \A f \in Evaluator : f = e
      /\ cur[e].id \in AlertId \/ pc[e] \notin {"event", "mark", "rearm"}
      /\ fired \subseteq AlertId
      /\ alerts \subseteq AlertId
      /\ Verdicts(e) /\ AtWork(e)
  BY DEF OneEvaluator, TypeOK, Pending
<1>1. ASSUME pc'[e] \notin {"event", "mark", "rearm"}, pc[e] # "mark",
             UNCHANGED <<alerts, fired, entries>>
      PROVE  AtWorkGoal /\ InFeed' = InFeed
  BY <1>0, <1>1, InFeedIs, InFeedNext DEF AtWork, ArmedIsUnspent, AtWorkGoal
<1>2. CASE ComputeStats(e)
  <2>1. /\ pc'[e] = "snapshot" /\ pc[e] = "idle"
        /\ UNCHANGED <<alerts, fired, entries>>
    BY <1>2 DEF ComputeStats, rows, TypeOK
  <2>2. AtWorkGoal /\ InFeed' = InFeed
    BY <1>1, <2>1
  <2>3. {a \in AlertId : Holds(a)}' \in SUBSET AlertId
    OBVIOUS
  <2>4. Promise!NewPrices
    BY <2>1, <2>2, <2>3 DEF Promise!NewPrices
  <2> QED
    BY <2>2, <2>4 DEF Promise!Next, StepGoal
<1>3. CASE Snapshot(e) \/ EndRound(e) \/ TokenGone(e)
  <2>1. /\ pc'[e] \in {"next", "idle"} /\ pc[e] # "mark"
        /\ UNCHANGED <<stats, alerts, fired, entries>>
    BY <1>3 DEF Snapshot, EndRound, TokenGone, Abandon, rows, TypeOK
  <2> QED
    BY <1>1, <2>1, Unnoticed DEF StepGoal
<1>4. CASE StatementFails(e) \/ Restart(e)
  BY <1>4, ConstantsAssumption DEF StatementFails, Restart, TypeOK
<1>5. ASSUME NEW p \in todo[e], StartFiring(e, p) \/ StartRearming(e, p) \/ LeaveAlone(e, p)
      PROVE  StepGoal
  <2>1. /\ pc[e] = "next"
        /\ pc'[e] \in {"next", "event", "rearm"}
        /\ UNCHANGED <<stats, alerts, fired, entries>>
        /\ pc'[e] = "event" => cur'[e].id \in alerts \ fired
        /\ pc'[e] = "rearm" => cur'[e].id \in fired
    BY <1>5 DEF StartFiring, StartRearming, LeaveAlone, Take, rows, TypeOK
  <2>2. InFeed = {} /\ InFeed' = {}
    BY <2>1, InFeedIs, InFeedNext
  <2>3. AtWorkGoal
    BY <1>0, <2>1, <2>2 DEF AtWork, ArmedIsUnspent, AtWorkGoal
  <2> QED
    BY <2>1, <2>2, <2>3, Unnoticed DEF StepGoal
<1>6. CASE InsertEvent(e)
  <2> DEFINE a == cur[e].id
  <2>1. /\ a \in AlertId /\ pc[e] = "event" /\ pc'[e] = "mark" /\ cur' = cur
        /\ UNCHANGED <<stats, alerts, fired>>
        /\ entries' = [entries EXCEPT ![a] = @ + 1]
        /\ a \notin fired /\ entries[a] = 0 /\ Holds(a)
    BY <1>0, <1>6 DEF InsertEvent, rows, TypeOK, AtWork, Verdicts
  <2>2. InFeed = {} /\ InFeed' = {a}
    BY <2>1, InFeedIs, InFeedNext
  <2>3. AtWorkGoal
    BY <1>0, <2>1, <2>2 DEF AtWork, ArmedIsUnspent, AtWorkGoal, TypeOK
  <2>4. {b \in AlertId : Holds(b)}' = {b \in AlertId : Holds(b)}
    BY <2>1, HoldsStays
  <2>5. Promise!Fire(a)
    BY <2>1, <2>2, <2>4 DEF Promise!Fire
  <2> QED
    BY <2>1, <2>3, <2>5 DEF Promise!Next, StepGoal
<1>7. CASE SetLastFired(e)
  <2> DEFINE a == cur[e].id
  <2>1. /\ a \in AlertId /\ pc[e] = "mark" /\ pc'[e] = "next"
        /\ UNCHANGED <<stats, alerts>>
        /\ fired' = IF a \in alerts THEN fired \cup {a} ELSE fired
        /\ entries' = IF a \in alerts THEN entries ELSE [entries EXCEPT ![a] = 0]
        /\ a \notin fired
    BY <1>0, <1>7 DEF SetLastFired, Continue, rows, TypeOK, AtWork
  <2>2. InFeed = {a} /\ InFeed' = {}
    BY <2>1, InFeedIs, InFeedNext
  <2>3. AtWorkGoal
    BY <1>0, <2>1, <2>2 DEF AtWork, ArmedIsUnspent, AtWorkGoal, TypeOK
  <2>4. {b \in AlertId : Holds(b)}' = {b \in AlertId : Holds(b)}
    BY <2>1, HoldsStays
  <2>5. CASE a \in alerts
    <3>1. UNCHANGED Promise!vars
      BY <2>1, <2>2, <2>4, <2>5 DEF Promise!vars
    <3> QED
      BY <2>3, <3>1 DEF StepGoal
  <2>6. CASE a \notin alerts
    <3>1. Promise!Rearm(a)
      BY <2>1, <2>2, <2>4, <2>6 DEF Promise!Rearm
    <3> QED
      BY <2>1, <2>3, <3>1 DEF Promise!Next, StepGoal
  <2> QED
    BY <2>5, <2>6
<1>8. CASE ClearLastFired(e)
  <2> DEFINE a == cur[e].id
  <2>1. /\ a \in AlertId /\ pc[e] = "rearm" /\ pc'[e] = "next"
        /\ UNCHANGED <<stats, alerts>>
        /\ fired' = fired \ {a}
        /\ entries' = [entries EXCEPT ![a] = 0]
        /\ a \in fired \/ a \notin alerts
        /\ ~ Holds(a)
    BY <1>0, <1>8 DEF ClearLastFired, Continue, rows, TypeOK, AtWork, Verdicts
  <2>2. InFeed = {} /\ InFeed' = {}
    BY <2>1, InFeedIs, InFeedNext
  <2>3. AtWorkGoal
    BY <1>0, <2>1, <2>2 DEF AtWork, ArmedIsUnspent, AtWorkGoal, TypeOK
  <2>4. {b \in AlertId : Holds(b)}' = {b \in AlertId : Holds(b)}
    BY <2>1, HoldsStays
  <2>5. CASE a \in fired
    <3>1. Promise!Rearm(a)
      BY <2>1, <2>2, <2>4, <2>5 DEF Promise!Rearm
    <3> QED
      BY <2>1, <2>3, <3>1 DEF Promise!Next, StepGoal
  <2>6. CASE a \notin fired
    <3>1. entries' \in [AlertId -> Nat]
      BY <2>1 DEF TypeOK
    <3>2. Promise!Delete({a})
      BY <2>1, <2>2, <2>4, <2>6, <3>1 DEF Promise!Delete, TypeOK
    <3> QED
      BY <2>1, <2>3, <3>2 DEF Promise!Next, StepGoal
  <2> QED
    BY <2>5, <2>6
<1> QED
  BY <1>2, <1>3, <1>4, <1>5, <1>6, <1>7, <1>8 DEF RoundStep

\* Users go about it while the evaluator is anywhere.
LEMMA PromiseOfUsers ==
    ASSUME OneEvaluator, RoundInv, Users
    PROVE  StepGoal
<1> USE DEF RoundInv
<1>0. /\ \A e \in Evaluator : AtWork(e)
      /\ alerts \subseteq used /\ used \subseteq AlertId /\ fired \subseteq alerts
      /\ entries \in [AlertId -> Nat]
  BY DEF TypeOK
<1>1. UNCHANGED <<stats, pc, cur>>
  BY DEF Users, AddAlert, DeleteAlert, Forget, work
<1>2. InFeed' = InFeed
  BY <1>1 DEF InFeed
<1>3. {a \in AlertId : Holds(a)}' = {a \in AlertId : Holds(a)}
  BY <1>1, HoldsStays
<1>4. ASSUME NEW a \in AlertId, AddAlert(a)
      PROVE  StepGoal
  <2>1. /\ a \notin used /\ alerts' = alerts \cup {a}
        /\ UNCHANGED <<fired, entries>>
    BY <1>4 DEF AddAlert
  <2>2. entries[a] = 0 /\ a \notin alerts
    BY <1>0, <2>1 DEF GivenOut
  <2>3. \A e \in Evaluator : pc[e] = "rearm" => cur[e].id # a
    BY <2>1 DEF GivenOut
  <2>4. AtWorkGoal
    BY <1>0, <1>1, <1>2, <2>1, <2>2, <2>3 DEF AtWork, ArmedIsUnspent, AtWorkGoal
  <2>5. Promise!Create(a)
    BY <1>2, <1>3, <2>1, <2>2 DEF Promise!Create
  <2> QED
    BY <2>4, <2>5 DEF Promise!Next, StepGoal
<1>5. ASSUME NEW a \in AlertId, DeleteAlert(a)
      PROVE  StepGoal
  <2>1. /\ alerts' = alerts \ {a} /\ fired' = fired \ {a}
        /\ entries' = entries
    BY <1>5 DEF DeleteAlert
  <2>2. AtWorkGoal
    BY <1>0, <1>1, <1>2, <2>1 DEF AtWork, ArmedIsUnspent, AtWorkGoal
  <2>3. Promise!Delete({a})
    BY <1>0, <1>2, <1>3, <2>1 DEF Promise!Delete
  <2> QED
    BY <1>5, <2>2, <2>3 DEF Promise!Next, StepGoal
<1>6. ASSUME NEW t \in Token, Forget(t)
      PROVE  StepGoal
  <2> DEFINE own == {a \in AlertId : Watch[a].token = t}
  <2>1. /\ alerts' = alerts \ own /\ fired' = fired \ own
        /\ entries' = [a \in AlertId |-> IF a \in own THEN 0 ELSE entries[a]]
    BY <1>6 DEF Forget
  <2>2. entries' \in [AlertId -> Nat]
    BY <1>0, <2>1
  <2>3. \A e \in Evaluator : pc[e] = "event" => cur[e].id \in AlertId
    BY DEF TypeOK, Pending
  <2>4. AtWorkGoal
    BY <1>0, <1>1, <1>2, <2>1, <2>3 DEF AtWork, ArmedIsUnspent, AtWorkGoal
  <2>5. own \in SUBSET AlertId /\ Promise!Delete(own)
    BY <1>0, <1>2, <1>3, <2>1, <2>2 DEF Promise!Delete
  <2> QED
    BY <2>4, <2>5 DEF Promise!Next, StepGoal
<1> QED
  BY <1>4, <1>5, <1>6 DEF Users

\* No step of the service alone surprises the reader: an alert "fires once when
\* its condition starts holding, and re-arms only after the condition stops"
\* (personal.go:703), for as long as no statement fails and nothing restarts;
\* that it does fire is left to TLC.
THEOREM RoundsKeepThePromise ==
    ASSUME OneEvaluator
    PROVE  Spec /\ [](troubles = 0) => Promise!Init /\ [][Promise!Next]_(Promise!vars)
<1>1. Init => Promise!Init
  <2> SUFFICES ASSUME Init PROVE Promise!Init
    OBVIOUS
  <2>1. InFeed = {}
    BY DEF Init, InFeed
  <2>2. alerts = {} /\ fired = {} /\ entries = [a \in AlertId |-> 0]
    BY DEF Init
  <2> QED
    BY <2>1, <2>2 DEF Promise!Init
<1>2. Init /\ TypeOK => RoundInv
  BY DEF Init, RoundInv, GivenOut, Verdicts, AtWork, ArmedIsUnspent
<1>3. RoundInv /\ TypeOK' /\ troubles = 0 /\ (troubles = 0)' /\ [Next]_vars
        => RoundInv' /\ [Promise!Next]_(Promise!vars)
  <2> SUFFICES ASSUME RoundInv, TypeOK', troubles = 0, troubles' = 0, [Next]_vars
               PROVE  RoundInv' /\ [Promise!Next]_(Promise!vars)
    OBVIOUS
  <2>1. StepGoal
    <3>1. CASE UNCHANGED vars
      <4>1. InFeed' = InFeed
        BY <3>1 DEF vars, InFeed
      <4> QED
        BY <3>1, <4>1, Unnoticed
           DEF vars, RoundInv, AtWork, ArmedIsUnspent, AtWorkGoal, StepGoal
    <3>2. CASE Users
      BY <3>2, PromiseOfUsers
    <3>3. ASSUME NEW e \in Evaluator,
                 ComputeStats(e) \/ RoundStep(e) \/ StatementFails(e) \/ Restart(e)
          PROVE  StepGoal
      BY <3>3, PromiseOfRound
    <3> QED
      BY <3>1, <3>2, <3>3 DEF Next
  <2>2. GivenOut'
    <3>1. CASE Next
      BY <3>1, GivenOutKept DEF RoundInv
    <3>2. CASE UNCHANGED vars
      BY <3>2 DEF vars, RoundInv, GivenOut
    <3> QED
      BY <3>1, <3>2
  <2>3. (\A e \in Evaluator : Verdicts(e))'
    BY VerdictsStep DEF RoundInv
  <2> QED
    BY <2>1, <2>2, <2>3 DEF RoundInv, StepGoal, AtWorkGoal
<1> QED
  BY <1>1, <1>2, <1>3, TypeCorrect, PTL DEF Spec

-------------------------------------------------------------------------------
(***************************************************************************)
(* The shop offers                                                         *)
(***************************************************************************)

\* How the clock, the running jobs and the stamp relate.  A job ends within
\* MaxFetch of its beginning; one that has replaced the table and is about to
\* stamp it finds it no older than the job allows, even if another process has
\* replaced the table since, because that one was still running then.
Clocked ==
    /\ now \in Nat
    /\ asOf \in Nat
    /\ fetchedAt \in Nat
    /\ fetchedAt <= now
    /\ started \in [Process -> Nat]
    /\ when \in [Process -> Nat]
    /\ step \in [Process -> {"idle", "fetch", "store", "stamp"}]
    /\ \A p \in Process :
         /\ step[p] # "idle" => now <= started[p] + MaxFetch
         /\ step[p] \in {"store", "stamp"} => when[p] <= now
         /\ step[p] = "stamp" /\ table # {} => when[p] <= asOf + MaxFetch

Inv == Clocked /\ StampHonest

\* The initial state.
LEMMA InitInv == ShopsInit => Inv
BY ShopsAssumption DEF ShopsInit, Inv, Clocked, StampHonest

\* Every step.
LEMMA NextInv == Inv /\ [ShopsNext]_shopvars => Inv'
<1> SUFFICES ASSUME Inv, [ShopsNext]_shopvars PROVE Inv'
  OBVIOUS
<1> USE ShopsAssumption DEF Inv, Clocked, StampHonest
<1>1. ASSUME NEW p \in Process, SkipFresh(p) PROVE Inv'
  BY <1>1 DEF SkipFresh, Sleep, Due, store, job
<1>2. ASSUME NEW p \in Process, Begin(p) PROVE Inv'
  BY <1>2 DEF Begin, store
<1>3. ASSUME NEW p \in Process, FetchPage(p) PROVE Inv'
  BY <1>3 DEF FetchPage, store
<1>4. ASSUME NEW p \in Process, JobFails(p) PROVE Inv'
  BY <1>4 DEF JobFails, Sleep, store, job
<1>5. ASSUME NEW p \in Process, NoItems(p) PROVE Inv'
  BY <1>5 DEF NoItems, Sleep, store, job
<1>6. ASSUME NEW p \in Process, Store(p) PROVE Inv'
  <2>1. now' = now /\ fetchedAt' = fetchedAt /\ started' = started /\ when' = when
    BY <1>6 DEF Store, job
  <2>2. CASE Offers(got[p]) = {}
    BY <1>6, <2>1, <2>2 DEF Store, Sleep
  <2>3. CASE Offers(got[p]) # {}
    \* Whoever read before now read before this job's time was up.
    <3>1. step' = [step EXCEPT ![p] = "stamp"] /\ asOf' = started[p] /\ step[p] = "store"
      BY <1>6, <2>3 DEF Store
    <3>2. now <= asOf' + MaxFetch /\ asOf' \in Nat
      BY <3>1
    <3>3. \A q \in Process : step'[q] \in {"store", "stamp"} => when[q] <= now
      BY <3>1
    <3>4. \A q \in Process : step'[q] = "stamp" => when[q] <= asOf' + MaxFetch
      BY <3>2, <3>3
    <3>5. fetchedAt <= asOf' + MaxFetch
      BY <3>2
    <3>6. step' \in [Process -> {"idle", "fetch", "store", "stamp"}]
           /\ \A q \in Process : step'[q] # "idle" => now <= started[q] + MaxFetch
      BY <3>1
    <3> QED
      BY <2>1, <3>2, <3>3, <3>4, <3>5, <3>6
  <2> QED
    BY <2>2, <2>3
<1>7. ASSUME NEW p \in Process, Stamp(p) PROVE Inv'
  BY <1>7 DEF Stamp, Sleep, job
<1>8. ASSUME NEW p \in Process, StampFails(p) PROVE Inv'
  BY <1>8 DEF StampFails, Sleep, store, job
<1>9. ASSUME NEW p \in Process, RestartProcess(p) PROVE Inv'
  BY <1>9 DEF RestartProcess, store, job
<1>10. CASE MappingLands
  BY <1>10 DEF MappingLands, store, job
<1>11. CASE Change
  BY <1>11 DEF Change, store, job
<1>12. CASE Tick
  BY <1>12 DEF Tick, store, job
<1>13. CASE UNCHANGED shopvars
  BY <1>13 DEF shopvars, store, job
<1> QED
  BY <1>1, <1>2, <1>3, <1>4, <1>5, <1>6, <1>7, <1>8, <1>9, <1>10, <1>11, <1>12, <1>13
     DEF ShopsNext

\* The stamp is never later than the end of the read that filled the table
\* (ingest.go, shops), in whatever order two processes store and stamp.
THEOREM StampDatesTable == ShopsSpec => []StampHonest
<1>1. Inv => StampHonest
  BY DEF Inv
<1> QED
  BY <1>1, InitInv, NextInv, PTL DEF ShopsSpec

-------------------------------------------------------------------------------

LEMMA InitTypes == ShopsInit => ShopsTypeOK
<1> SUFFICES ASSUME ShopsInit PROVE ShopsTypeOK
  OBVIOUS
<1> QED
  BY ShopsAssumption DEF ShopsInit, ShopsTypeOK

\* What a job does to the types of what it changes.
LEMMA JobTypes ==
    ASSUME ShopsTypeOK, NEW p \in Process,
           SkipFresh(p) \/ Begin(p) \/ FetchPage(p) \/ JobFails(p) \/ NoItems(p) \/ Store(p) \/ Stamp(p)
               \/ StampFails(p) \/ RestartProcess(p)
    PROVE  ShopsTypeOK'
<1> USE ShopsAssumption DEF ShopsTypeOK, wiki, store, job
<1>0. NextBoundary \in Nat
  BY DEF NextBoundary
<1>1. ASSUME Sleep(p) PROVE wake' \in Nat /\ step' \in [Process -> {"idle", "fetch", "store", "stamp"}]
  BY <1>0, <1>1 DEF Sleep
<1>2. ASSUME SkipFresh(p) PROVE ShopsTypeOK'
  BY <1>1, <1>2 DEF SkipFresh
<1>3. ASSUME Begin(p) PROVE ShopsTypeOK'
  BY <1>3 DEF Begin
<1>4. ASSUME FetchPage(p) PROVE ShopsTypeOK'
  <2>1. Page(offset[p]) \subseteq Row
    BY DEF Page
  <2> QED
    BY <1>4, <2>1 DEF FetchPage
<1>5. ASSUME JobFails(p) PROVE ShopsTypeOK'
  BY <1>1, <1>5 DEF JobFails
<1>6. ASSUME NoItems(p) PROVE ShopsTypeOK'
  BY <1>1, <1>6 DEF NoItems
<1>7. ASSUME Store(p) PROVE ShopsTypeOK'
  <2>1. table' \subseteq Row \ Untradeable /\ asOf' \in Nat
    BY <1>7 DEF Store, Offers
  <2>2. wake' \in Nat /\ step' \in [Process -> {"idle", "fetch", "store", "stamp"}]
    BY <1>1, <1>7 DEF Store
  <2> QED
    BY <1>7, <2>1, <2>2 DEF Store
<1>8. ASSUME Stamp(p) PROVE ShopsTypeOK'
  BY <1>1, <1>8 DEF Stamp
<1>9. ASSUME StampFails(p) PROVE ShopsTypeOK'
  BY <1>1, <1>9 DEF StampFails
<1>10. ASSUME RestartProcess(p) PROVE ShopsTypeOK'
  BY <1>10 DEF RestartProcess
<1> QED
  BY <1>2, <1>3, <1>4, <1>5, <1>6, <1>7, <1>8, <1>9, <1>10

\* Type correctness of the shop offers (Shops.tla): the table has rows of the
\* wiki only and never one that is not traded, the times are times.
THEOREM ShopsTypeCorrect == ShopsSpec => []ShopsTypeOK
<1>1. ShopsTypeOK /\ [ShopsNext]_shopvars => ShopsTypeOK'
  <2> SUFFICES ASSUME ShopsTypeOK, [ShopsNext]_shopvars PROVE ShopsTypeOK'
    OBVIOUS
  <2> USE DEF ShopsTypeOK, wiki, store, job
  <2>1. CASE UNCHANGED shopvars
    BY <2>1 DEF shopvars
  <2>2. CASE MappingLands
    BY <2>2 DEF MappingLands
  <2>3. CASE Change
    <3>1. changes' \in Nat
      BY <2>3, ShopsAssumption DEF Change
    <3>2. upstream' \subseteq Row /\ excluded' \subseteq Row
      BY <2>3 DEF Change
    <3> QED
      BY <2>3, <3>1, <3>2 DEF Change
  <2>4. CASE Tick
    BY <2>4 DEF Tick
  <2> QED
    BY JobTypes, <2>1, <2>2, <2>3, <2>4 DEF ShopsNext
<1> QED
  BY InitTypes, <1>1, PTL DEF ShopsSpec

-------------------------------------------------------------------------------
(***************************************************************************)
(* The age of the offers.  What bounds it is the service's own timer: from   *)
(* a store on, it wakes within the bound, or its job has begun within it.    *)
(***************************************************************************)

\* The timer is set for the next boundary of days, within a day.
LEMMA BoundaryIsNear ==
    ASSUME now \in Nat
    PROVE  NextBoundary \in Nat /\ now < NextBoundary /\ NextBoundary <= now + Day
<1>1. Day \in Nat /\ Day > 0
  BY ShopsAssumption
<1>2. PICK q \in Int : q = now \div Day
  BY <1>1
<1>3. q * Day <= now /\ now < q * Day + Day
  BY <1>1, <1>2
<1> QED
  BY <1>1, <1>2, <1>3 DEF NextBoundary

\* The latest the service may begin a job, for a table of a with f failures.
LatestFor(a, f) == a + (2 + f) * (Day + MaxFetch)
Latest          == LatestFor(asOf, failures)

Scheduled ==
    /\ failures \in Nat
    /\ wake \in Nat
    /\ wake <= now + Day
    /\ step["service"] = "idle" => now <= wake
    /\ step["service"] # "idle" => started["service"] <= now
    /\ table # {} =>
         /\ step["service"] = "idle" => wake <= Latest
         /\ step["service"] # "idle" => started["service"] <= Latest
         /\ step["service"] = "stamp" => started["service"] <= asOf + MaxFetch

LEMMA LatestIs ==
    ASSUME NEW a \in Nat, NEW f \in Nat
    PROVE  /\ LatestFor(a, f) \in Nat
           /\ a + Day + Day + MaxFetch + MaxFetch <= LatestFor(a, f)
           /\ LatestFor(a, f + 1) = LatestFor(a, f) + Day + MaxFetch
<1>1. Day \in Nat /\ MaxFetch \in Nat
  BY ShopsAssumption
<1>2. /\ (2 + f) * (Day + MaxFetch) = 2 * (Day + MaxFetch) + f * (Day + MaxFetch)
      /\ (2 + (f + 1)) * (Day + MaxFetch) = (2 + f) * (Day + MaxFetch) + Day + MaxFetch
  BY <1>1
<1>3. f * (Day + MaxFetch) \in Nat
  BY <1>1
<1> QED
  BY <1>1, <1>2, <1>3 DEF LatestFor

LEMMA LatestStays ==
    ASSUME UNCHANGED <<failures, asOf>>
    PROVE  Latest' = Latest
BY DEF Latest, LatestFor

AgeInv == Inv /\ Scheduled

\* A job that stores nothing: the service sleeps for a day, and has a failure more.
LEMMA GiveUp ==
    ASSUME AgeInv, NEW p \in Process, step[p] # "idle", Sleep(p),
           failures' = failures + 1, UNCHANGED <<now, store, started>>
    PROVE  Scheduled'
<1> USE ShopsAssumption DEF AgeInv, Inv, Clocked, Scheduled, store
<1>1. now' = now /\ asOf' = asOf /\ table' = table /\ started' = started
  OBVIOUS
<1>2. Latest' = Latest + Day + MaxFetch /\ Latest \in Nat /\ failures' \in Nat
  <2>1. failures \in Nat /\ asOf \in Nat /\ failures' = failures + 1 /\ asOf' = asOf
    BY <1>1
  <2>2. Latest' = LatestFor(asOf, failures + 1) /\ Latest = LatestFor(asOf, failures)
    BY <2>1 DEF Latest, LatestFor
  <2> QED
    BY <2>1, <2>2, LatestIs
<1>3. CASE p = "service"
  <2>1. /\ step'["service"] = "idle"
        /\ wake' \in Nat
        /\ now <= wake'
        /\ wake' <= now + Day
    BY <1>3, BoundaryIsNear DEF Sleep
  <2>2. now <= started["service"] + MaxFetch
    BY <1>3
  <2>3. table # {} => started["service"] <= Latest
    BY <1>3
  <2> QED
    BY <1>1, <1>2, <2>1, <2>2, <2>3
<1>4. CASE p # "service"
  <2>1. step'["service"] = step["service"] /\ wake' = wake
    BY <1>4 DEF Sleep
  <2> QED
    BY <1>1, <1>2, <2>1
<1> QED
  BY <1>3, <1>4

LEMMA InitScheduled == ShopsInit => Scheduled
BY ShopsAssumption DEF ShopsInit, Scheduled

\* Every step, the clock excepted, keeps the schedule.
LEMMA ScheduledStep == AgeInv /\ [ShopsNext]_shopvars => Scheduled'
<1> SUFFICES ASSUME AgeInv, [ShopsNext]_shopvars PROVE Scheduled'
  OBVIOUS
<1> USE ShopsAssumption DEF AgeInv, Inv, Clocked, Scheduled
<1>0. Latest \in Nat /\ asOf + Day + Day + MaxFetch + MaxFetch <= Latest
  BY LatestIs DEF Latest
<1>1. ASSUME NEW p \in Process, SkipFresh(p) PROVE Scheduled'
  <2>1. p = "service" /\ step["service"] = "idle"
    BY <1>1 DEF SkipFresh, Due
  <2>2. now < fetchedAt + Day
    BY <1>1 DEF SkipFresh, Fresh
  <2>3. table # {} => fetchedAt <= asOf + MaxFetch
    BY DEF StampHonest
  <2>4. now' = now /\ asOf' = asOf /\ table' = table /\ started' = started /\ failures' = failures
    BY <1>1 DEF SkipFresh, store, job
  <2>5. step'["service"] = "idle" /\ wake' \in Nat /\ now < wake' /\ wake' <= now + Day
    BY <1>1, <2>1, BoundaryIsNear DEF SkipFresh, Sleep
  <2>6. Latest' = Latest
    BY <2>4, LatestStays
  <2> QED
    BY <1>0, <2>2, <2>3, <2>4, <2>5, <2>6
<1>2. ASSUME NEW p \in Process, Begin(p) PROVE Scheduled'
  <2>1. now' = now /\ asOf' = asOf /\ table' = table /\ wake' = wake /\ failures' = failures
    BY <1>2 DEF Begin, store
  <2>2. Latest' = Latest
    BY <2>1, LatestStays
  <2>3. CASE p = "service"
    <3>1. step["service"] = "idle" /\ step'["service"] = "fetch" /\ started'["service"] = now
      BY <1>2, <2>3 DEF Begin, Due
    <3>2. table # {} => now <= Latest
      BY <1>0, <3>1
    <3> QED
      BY <2>1, <2>2, <3>1, <3>2
  <2>4. CASE p # "service"
    <3>1. step'["service"] = step["service"] /\ started'["service"] = started["service"]
      BY <1>2, <2>4 DEF Begin
    <3> QED
      BY <2>1, <2>2, <3>1
  <2> QED
    BY <2>3, <2>4
<1>3. ASSUME NEW p \in Process, FetchPage(p) PROVE Scheduled'
  <2>1. /\ now' = now /\ asOf' = asOf /\ table' = table /\ wake' = wake /\ failures' = failures
        /\ started' = started
    BY <1>3 DEF FetchPage, store
  <2>2. Latest' = Latest
    BY <2>1, LatestStays
  <2>3. /\ step'["service"] = "idle" <=> step["service"] = "idle"
        /\ step'["service"] = "stamp" <=> step["service"] = "stamp"
    BY <1>3 DEF FetchPage
  <2> QED
    BY <2>1, <2>2, <2>3
<1>4. ASSUME NEW p \in Process, JobFails(p) PROVE Scheduled'
  BY <1>4, GiveUp DEF JobFails, job
<1>5. ASSUME NEW p \in Process, NoItems(p) PROVE Scheduled'
  BY <1>5, GiveUp DEF NoItems, job
<1>6. ASSUME NEW p \in Process, Store(p) PROVE Scheduled'
  <2>1. step[p] = "store" /\ now' = now /\ started' = started /\ failures' = failures
    BY <1>6 DEF Store, job
  <2>2. CASE Offers(got[p]) = {}
    <3>1. table' = {} /\ Sleep(p)
      BY <1>6, <2>2 DEF Store
    <3>2. CASE p = "service"
      <4>1. step'["service"] = "idle" /\ wake' \in Nat /\ now <= wake' /\ wake' <= now + Day
        BY <3>1, <3>2, BoundaryIsNear DEF Sleep
      <4> QED
        BY <2>1, <3>1, <4>1
    <3>3. CASE p # "service"
      <4>1. step'["service"] = step["service"] /\ wake' = wake
        BY <3>1, <3>3 DEF Sleep
      <4> QED
        BY <2>1, <3>1, <4>1
    <3> QED
      BY <3>2, <3>3
  <2>3. CASE Offers(got[p]) # {}
    <3>1. asOf' = started[p] /\ step' = [step EXCEPT ![p] = "stamp"] /\ wake' = wake
      BY <1>6, <2>3 DEF Store
    <3>2. now <= asOf' + MaxFetch /\ asOf' \in Nat
      BY <2>1, <3>1
    <3>3. Latest' \in Nat /\ asOf' + Day + Day + MaxFetch + MaxFetch <= Latest'
      <4>1. failures' \in Nat /\ asOf' \in Nat
        BY <2>1, <3>2
      <4> QED
        BY <4>1, LatestIs DEF Latest
    <3>4. CASE p = "service"
      <4>1. step'["service"] = "stamp"
        BY <3>1, <3>4
      <4> QED
        BY <2>1, <3>1, <3>2, <3>3, <3>4, <4>1
    <3>5. CASE p # "service"
      <4>1. step'["service"] = step["service"]
        BY <3>1, <3>5
      <4>2. step["service"] = "idle" => wake <= Latest \/ table = {}
        OBVIOUS
      <4> QED
        BY <2>1, <3>1, <3>2, <3>3, <4>1
    <3> QED
      BY <3>4, <3>5
  <2> QED
    BY <2>2, <2>3
<1>7. ASSUME NEW p \in Process, Stamp(p) PROVE Scheduled'
  <2>1. /\ step[p] = "stamp" /\ Sleep(p)
        /\ now' = now /\ asOf' = asOf /\ table' = table /\ started' = started /\ failures' = failures
    BY <1>7 DEF Stamp, job
  <2>2. Latest' = Latest
    BY <2>1, LatestStays
  <2>3. CASE p = "service"
    <3>1. step'["service"] = "idle" /\ wake' \in Nat /\ now <= wake' /\ wake' <= now + Day
      BY <2>1, <2>3, BoundaryIsNear DEF Sleep
    <3>2. table # {} => now <= asOf + MaxFetch + MaxFetch
      BY <2>1, <2>3
    <3> QED
      BY <1>0, <2>1, <2>2, <3>1, <3>2
  <2>4. CASE p # "service"
    <3>1. step'["service"] = step["service"] /\ wake' = wake
      BY <2>1, <2>4 DEF Sleep
    <3> QED
      BY <2>1, <2>2, <3>1
  <2> QED
    BY <2>3, <2>4
<1>8. ASSUME NEW p \in Process, StampFails(p) PROVE Scheduled'
  BY <1>8, GiveUp DEF StampFails, job
<1>9. ASSUME NEW p \in Process, RestartProcess(p) PROVE Scheduled'
  <2>1. /\ now' = now /\ asOf' = asOf /\ table' = table /\ started' = started
        /\ failures' = failures + 1
    BY <1>9 DEF RestartProcess, store, job
  <2>2. Latest' = Latest + Day + MaxFetch /\ failures' \in Nat
    BY <2>1, LatestIs DEF Latest
  <2>3. CASE p = "service"
    <3>1. step'["service"] = "idle" /\ wake' = now
      BY <1>9, <2>3 DEF RestartProcess
    <3>2. table # {} => now <= Latest + MaxFetch
      BY <1>0
    <3> QED
      BY <1>0, <2>1, <2>2, <3>1, <3>2
  <2>4. CASE p # "service"
    <3>1. step'["service"] = step["service"] /\ wake' = wake
      BY <1>9, <2>4 DEF RestartProcess
    <3> QED
      BY <1>0, <2>1, <2>2, <3>1
  <2> QED
    BY <2>3, <2>4
<1>10. CASE MappingLands
  BY <1>10, LatestStays DEF MappingLands, store, job
<1>11. CASE Change
  BY <1>11, LatestStays DEF Change, store, job
<1>12. CASE Tick
  BY <1>12, LatestStays DEF Tick, store, job
<1>13. CASE UNCHANGED shopvars
  BY <1>13, LatestStays DEF shopvars, store, job
<1> QED
  BY <1>1, <1>2, <1>3, <1>4, <1>5, <1>6, <1>7, <1>8, <1>9, <1>10, <1>11, <1>12, <1>13
     DEF ShopsNext

\* The offers on the page are at most two days and three jobs old, a day and a
\* job more for every failure (the shops job and its timer).
THEOREM AgeIsBounded == ShopsSpec => []AgeBounded
<1>1. AgeInv => AgeBounded
  <2> SUFFICES ASSUME AgeInv, table # {}
               PROVE  now - asOf <= (2 + failures) * (Day + MaxFetch) + MaxFetch
    BY DEF AgeBounded
  <2>1. /\ {now, asOf, wake, failures, MaxFetch, Day} \subseteq Nat
        /\ started["service"] \in Nat
    BY ShopsAssumption DEF AgeInv, Inv, Clocked, Scheduled
  <2>2. Latest \in Nat /\ now <= Latest + MaxFetch
    <3>1. Latest \in Nat
      BY <2>1, LatestIs DEF Latest
    <3>2. CASE step["service"] = "idle"
      BY <2>1, <3>1, <3>2 DEF AgeInv, Scheduled
    <3>3. CASE step["service"] # "idle"
      <4>1. now <= started["service"] + MaxFetch
        BY <3>3, ShopsAssumption DEF AgeInv, Inv, Clocked
      <4>2. started["service"] <= Latest
        BY <3>3 DEF AgeInv, Scheduled
      <4> QED
        BY <2>1, <3>1, <4>1, <4>2
    <3> QED
      BY <3>1, <3>2, <3>3
  <2>3. (2 + failures) * (Day + MaxFetch) \in Nat
    BY <2>1
  <2> QED
    BY <2>1, <2>2, <2>3 DEF Latest, LatestFor
<1>2. ShopsInit => AgeInv
  BY InitInv, InitScheduled DEF AgeInv
<1>3. AgeInv /\ [ShopsNext]_shopvars => AgeInv'
  BY NextInv, ScheduledStep DEF AgeInv
<1> QED
  BY <1>1, <1>2, <1>3, PTL DEF ShopsSpec
===============================================================================
