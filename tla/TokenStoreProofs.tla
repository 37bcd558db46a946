--------------------------- MODULE TokenStoreProofs ---------------------------
(***************************************************************************)
(* Proofs about TokenStore for every set of tokens, items and handlers and *)
(* every configuration of the caps.                                        *)
(***************************************************************************)
EXTENDS TokenStore, FiniteSetTheorems, TLAPS

(***************************************************************************)
(* Types                                                                   *)
(***************************************************************************)

\* Going on to the next line of an import, or answering, keeps the handlers
\* well typed.
LEMMA NextLineTyped ==
    ASSUME TypeOK, NEW h \in Handler, pc[h] # "idle", NextLine(h)
    PROVE  /\ pc' \in [Handler -> {"idle", "touch", "count", "insert", "upsert"}]
           /\ req' \in [Handler -> LiveReq \cup {NoReq}]
           /\ \A g \in Handler :
                /\ pc'[g] # "idle" => req'[g] \in LiveReq
                /\ pc'[g] \in {"count", "insert"} => KindOf(req'[g].op) \in Kind
<1>1. CASE req[h].op = "import" /\ req[h].lines > 1
  <2>1. req[h] \in LiveReq
    BY DEF TypeOK
  <2>2. [req[h] EXCEPT !.lines = @ - 1] \in LiveReq
    BY <1>1, <2>1 DEF LiveReq
  <2> QED
    BY <1>1, <2>2 DEF NextLine, TypeOK
<1>2. CASE ~ (req[h].op = "import" /\ req[h].lines > 1)
  BY <1>2 DEF NextLine, Finish, TypeOK
<1> QED
  BY <1>1, <1>2

\* Whatever the handlers, the clock and the connections do, the tables hold rows
\* of tokens that were presented, and a handler past its first statement knows
\* whose row it is about to write, where (ident.go:33-210).
THEOREM TypeCorrect == Spec => []TypeOK
<1>1. Init => TypeOK
  BY DEF Init, TypeOK
<1>2. TypeOK /\ [Next]_vars => TypeOK'
  <2> SUFFICES ASSUME TypeOK, [Next]_vars
               PROVE  TypeOK'
    OBVIOUS
  <2> USE ConstantsAssumption
  <2>1. ASSUME NEW h \in Handler, NEW op \in Ops, NEW t \in Token, NEW i \in Item,
               NEW n \in 1..MaxLines, Begin(h, op, t, i, n)
        PROVE  TypeOK'
    BY <2>1 DEF Begin, TypeOK, tables, conn, LiveReq
  <2>2. ASSUME NEW h \in Handler, TouchToken(h)
        PROVE  TypeOK'
    <3>1. req[h].token \in Token /\ req[h].op \in Ops
      BY <2>2 DEF TouchToken, TypeOK, LiveReq
    <3>2. req[h].op # "prefs" => KindOf(req[h].op) \in Kind
      BY <3>1 DEF AllOps, KindOf, Kind
    <3> QED
      BY <2>2, <3>1, <3>2 DEF TouchToken, TypeOK, conn
  <2>3. ASSUME NEW h \in Handler, CountRoom(h)
        PROVE  TypeOK'
    BY <2>3 DEF CountRoom, TypeOK, tables, conn
  <2>4. ASSUME NEW h \in Handler, CountAtLimit(h)
        PROVE  TypeOK'
    BY <2>4 DEF CountAtLimit, Finish, TypeOK, tables, conn
  <2>5. ASSUME NEW h \in Handler, InsertRow(h)
        PROVE  TypeOK'
    <3> DEFINE k == KindOf(req[h].op)
               t == req[h].token
    <3>1. /\ k \in Kind
          /\ t \in Token
          /\ req[h].item \in Nat
      BY <2>5 DEF InsertRow, TypeOK, LiveReq
    <3>2. RowKey(k, req[h].item) \in Nat
      BY <3>1 DEF RowKey, TypeOK
    <3>3. held' \in [Kind -> [Token -> SUBSET Nat]] /\ seq' \in [Kind -> Nat]
      BY <2>5, <3>1, <3>2 DEF InsertRow, TypeOK
    <3>4. pc[h] # "idle" /\ NextLine(h)
      BY <2>5 DEF InsertRow
    <3> QED
      BY <2>5, <3>3, <3>4, NextLineTyped DEF InsertRow, TypeOK, conn
  <2>6. ASSUME NEW h \in Handler, UpsertPrefs(h)
        PROVE  TypeOK'
    BY <2>6 DEF UpsertPrefs, Finish, TypeOK, LiveReq, conn
  <2>7. ASSUME NEW h \in Handler, ForeignKeyFails(h) \/ StatementFails(h)
        PROVE  TypeOK'
    <3>1. pc[h] # "idle" /\ NextLine(h)
      BY <2>7 DEF ForeignKeyFails, StatementFails
    <3> QED
      BY <2>7, <3>1, NextLineTyped DEF ForeignKeyFails, StatementFails, TypeOK, tables, conn
  <2>8. ASSUME NEW h \in Handler, ClientGone(h) \/ ClientGoneMidWrite(h)
        PROVE  TypeOK'
    <3>1. CASE ClientGone(h)
      BY <3>1 DEF ClientGone, Finish, TypeOK, tables, conn
    <3>2. CASE ClientGoneMidWrite(h)
      <4>1. dropped' \in Nat
        BY <3>2 DEF ClientGoneMidWrite, TypeOK
      <4>2. fk' \in BOOLEAN
        BY <3>2, Zenon DEF ClientGoneMidWrite
      <4>3. /\ pc' \in [Handler -> {"idle", "touch", "count", "insert", "upsert"}]
            /\ req' \in [Handler -> LiveReq \cup {NoReq}]
            /\ \A g \in Handler : pc'[g] # "idle" => pc'[g] = pc[g] /\ req'[g] = req[g]
        BY <3>2 DEF ClientGoneMidWrite, Finish, TypeOK
      <4>4. UNCHANGED <<now, tokens, lastSeen, held, seq, prefs, begun>>
        BY <3>2 DEF ClientGoneMidWrite, tables
      <4> QED
        BY <4>1, <4>2, <4>3, <4>4 DEF TypeOK
    <3> QED
      BY <2>8, <3>1, <3>2
  <2>9. ASSUME NEW k \in Kind, NEW t \in Token, NEW key \in held[k][t], DeleteRow(k, t, key)
        PROVE  TypeOK'
    BY <2>9 DEF DeleteRow, TypeOK, conn
  <2>10. ASSUME NEW t \in Token, ClearLedger(t)
         PROVE  TypeOK'
    BY <2>10 DEF ClearLedger, TypeOK, conn, Kind
  <2>11. ASSUME NEW t \in Token, Forget(t)
         PROVE  TypeOK'
    BY <2>11 DEF Forget, DeleteTokens, TypeOK, conn
  <2>12. CASE PruneTokens
    BY <2>12 DEF PruneTokens, DeleteTokens, TypeOK, conn
  <2>13. CASE Tick
    BY <2>13 DEF Tick, TypeOK, tables, conn
  <2>14. CASE Restart
    BY <2>14 DEF Restart, TypeOK, tables
  <2>15. CASE UNCHANGED vars
    BY <2>15 DEF vars, TypeOK
  <2> QED
    BY <2>1, <2>2, <2>3, <2>4, <2>5, <2>6, <2>7, <2>8, <2>9, <2>10, <2>11, <2>12,
       <2>13, <2>14, <2>15
       DEF Next, HandlerStep, HandlerTrouble, SingleStatement
<1> QED
  BY <1>1, <1>2, PTL DEF Spec

-------------------------------------------------------------------------------
(***************************************************************************)
(* Referential integrity                                                   *)
(***************************************************************************)

Integrity == ForeignKeysOn /\ NoOrphans

\* Deleting tokens over a connection that enforces foreign keys takes their
\* rows along.
LEMMA DeleteTokensCascades ==
    ASSUME TypeOK, Integrity, NEW gone \in SUBSET Token, DeleteTokens(gone), UNCHANGED conn
    PROVE  Integrity'
BY DEF TypeOK, Integrity, ForeignKeysOn, NoOrphans, DeleteTokens, conn

\* While the write connection is the one Open set up, no row of any table
\* outlives its token (ON DELETE CASCADE and the foreign key check of the
\* insert, store.go:304-374).
THEOREM RowsHaveTokens == Spec => []NoOrphans
<1>1. Init => Integrity
  BY DEF Init, Integrity, ForeignKeysOn, NoOrphans
<1>2. TypeOK /\ TypeOK' /\ Integrity /\ [Next]_vars => Integrity'
  <2> SUFFICES ASSUME TypeOK, TypeOK', Integrity, [Next]_vars
               PROVE  Integrity'
    OBVIOUS
  <2>1. ASSUME UNCHANGED <<tables, conn>>
        PROVE  Integrity'
    BY <2>1 DEF tables, conn, Integrity, ForeignKeysOn, NoOrphans
  <2>2. ASSUME NEW h \in Handler, TouchToken(h)
        PROVE  Integrity'
    BY <2>2 DEF TouchToken, conn, Integrity, ForeignKeysOn, NoOrphans
  <2>3. ASSUME NEW h \in Handler, InsertRow(h)
        PROVE  Integrity'
    <3> DEFINE k == KindOf(req[h].op)
               t == req[h].token
    <3>1. fk => t \in tokens
      BY <2>3 DEF InsertRow, Referenced
    <3>2. \A k2 \in Kind, t2 \in Token : held'[k2][t2] # held[k2][t2] => t2 = t
      BY <2>3 DEF InsertRow, TypeOK
    <3> QED
      BY <2>3, <3>1, <3>2 DEF InsertRow, conn, Integrity, ForeignKeysOn, NoOrphans
  <2>4. ASSUME NEW h \in Handler, UpsertPrefs(h)
        PROVE  Integrity'
    BY <2>4 DEF UpsertPrefs, conn, Integrity, ForeignKeysOn, NoOrphans
  <2>5. ASSUME NEW h \in Handler, ClientGoneMidWrite(h)
        PROVE  Integrity'
    <3>1. dropped' # 0
      BY <2>5 DEF ClientGoneMidWrite, TypeOK
    <3> QED
      BY <3>1 DEF Integrity, ForeignKeysOn, NoOrphans
  <2>6. ASSUME NEW k \in Kind, NEW t \in Token, NEW key \in held[k][t], DeleteRow(k, t, key)
        PROVE  Integrity'
    BY <2>6 DEF DeleteRow, conn, Integrity, ForeignKeysOn, NoOrphans, TypeOK
  <2>7. ASSUME NEW t \in Token, ClearLedger(t)
        PROVE  Integrity'
    BY <2>7 DEF ClearLedger, conn, Integrity, ForeignKeysOn, NoOrphans, TypeOK, Kind
  <2>8. ASSUME NEW t \in Token, Forget(t)
        PROVE  Integrity'
    BY <2>8, DeleteTokensCascades DEF Forget
  <2>9. CASE PruneTokens
    BY <2>9, DeleteTokensCascades DEF PruneTokens, Dormant, TypeOK
  <2>10. CASE Restart
    BY <2>10 DEF Restart, tables, Integrity, ForeignKeysOn, NoOrphans
  <2> QED
    BY <2>1, <2>2, <2>3, <2>4, <2>5, <2>6, <2>7, <2>8, <2>9, <2>10
       DEF Next, HandlerStep, HandlerTrouble, SingleStatement, vars, Tick, tables, conn,
           Begin, CountRoom, CountAtLimit, ForeignKeyFails, StatementFails, ClientGone
<1>3. Integrity => NoOrphans
  BY DEF Integrity
<1> QED
  BY <1>1, <1>2, <1>3, TypeCorrect, PTL DEF Spec

-------------------------------------------------------------------------------
(***************************************************************************)
(* Caps                                                                    *)
(***************************************************************************)

CapInv == FiniteRows /\ CapOvershoot

\* No more handlers are between check and insert than there are handlers.
LEMMA InsertersFinite ==
    ASSUME NEW k \in Kind, NEW t \in Token
    PROVE  /\ IsFiniteSet(Inserters(k, t))
           /\ Cardinality(Inserters(k, t)) \in Nat
           /\ Cardinality(Inserters(k, t)) =< Cardinality(Handler)
BY FS_Subset, FS_CardinalityType, ConstantsAssumption DEF Inserters

\* The same of the next state.
LEMMA InsertersFiniteNext ==
    ASSUME NEW k \in Kind, NEW t \in Token
    PROVE  /\ IsFiniteSet(Inserters(k, t)')
           /\ Cardinality(Inserters(k, t)') \in Nat
           /\ Cardinality(Inserters(k, t)') =< Cardinality(Handler)
BY FS_Subset, FS_CardinalityType, ConstantsAssumption DEF Inserters

\* A step that adds no row and lets no handler past its check keeps the bound.
LEMMA NothingAdded ==
    ASSUME CapInv,
           \A k \in Kind, t \in Token : /\ held'[k][t] \subseteq held[k][t]
                                        /\ Inserters(k, t)' \subseteq Inserters(k, t)
    PROVE  CapInv'
<1>1. FiniteRows'
  BY FS_Subset DEF CapInv, FiniteRows
<1>2. ASSUME NEW k \in Kind, NEW t \in Token, Cap[k] > 0
      PROVE  Cardinality(held'[k][t]) + Cardinality(Inserters(k, t)')
               =< Cap[k] + Cardinality(Handler) - 1
  <2>1. IsFiniteSet(held[k][t])
    BY DEF CapInv, FiniteRows
  <2>2. /\ Cardinality(held'[k][t]) =< Cardinality(held[k][t])
        /\ IsFiniteSet(held'[k][t])
    BY <2>1, FS_Subset
  <2>3. Cardinality(Inserters(k, t)') =< Cardinality(Inserters(k, t))
    BY InsertersFinite, FS_Subset
  <2>4. Cardinality(held[k][t]) + Cardinality(Inserters(k, t))
           =< Cap[k] + Cardinality(Handler) - 1
    BY <1>2 DEF CapInv, CapOvershoot
  <2>5. /\ Cardinality(held[k][t]) \in Nat
        /\ Cardinality(held'[k][t]) \in Nat
        /\ Cardinality(Inserters(k, t)) \in Nat
        /\ Cardinality(Inserters(k, t)') \in Nat
        /\ Cardinality(Handler) \in Nat
        /\ Cap[k] \in Nat
    BY <2>1, <2>2, InsertersFinite, InsertersFiniteNext, FS_CardinalityType, ConstantsAssumption
  <2> QED
    BY <2>2, <2>3, <2>4, <2>5
<1> QED
  BY <1>1, <1>2 DEF CapInv, CapOvershoot

\* A handler that leaves, or has not reached, its insert is no inserter.
LEMMA LeavingInserts ==
    ASSUME TypeOK, NEW h \in Handler, NextLine(h) \/ Finish(h)
    PROVE  \A k \in Kind, t \in Token :
              Inserters(k, t)' \subseteq Inserters(k, t) \ {h}
BY DEF TypeOK, NextLine, Finish, Inserters

\* Passing the check takes a table with room: cap - 1 rows at most, and no
\* more handlers between check and insert than there are handlers.
LEMMA CheckKeepsBound ==
    ASSUME TypeOK, CapInv, NEW h \in Handler, CountRoom(h)
    PROVE  CapInv'
<1> DEFINE k0 == KindOf(req[h].op)
           t0 == req[h].token
<1>1. k0 \in Kind /\ t0 \in Token
  BY DEF CountRoom, TypeOK, LiveReq
<1>2. FiniteRows' /\ held' = held
  BY DEF CountRoom, tables, CapInv, FiniteRows
<1>3. \A k \in Kind, t \in Token :
         k # k0 \/ t # t0 => Inserters(k, t)' = Inserters(k, t)
  BY DEF CountRoom, TypeOK, Inserters
<1>4. ASSUME NEW k \in Kind, NEW t \in Token, Cap[k] > 0
      PROVE  Cardinality(held'[k][t]) + Cardinality(Inserters(k, t)')
               =< Cap[k] + Cardinality(Handler) - 1
  <2>1. CASE k = k0 /\ t = t0
    <3>1. Cardinality(held[k][t]) < Cap[k] /\ Cardinality(held[k][t]) \in Nat
      <4>1. IsFiniteSet(held[k][t])
        BY DEF CapInv, FiniteRows
      <4>2. Cardinality(held[k][t]) \in Nat
        BY <4>1, FS_CardinalityType
      <4> QED
        BY <1>4, <2>1, <4>2, ConstantsAssumption DEF CountRoom, UnderCap
    <3> QED
      BY <1>2, <3>1, InsertersFiniteNext, FS_CardinalityType, ConstantsAssumption
  <2>2. CASE k # k0 \/ t # t0
    BY <1>2, <1>3, <1>4, <2>2 DEF CapInv, CapOvershoot
  <2> QED
    BY <2>1, <2>2
<1> QED
  BY <1>2, <1>4 DEF CapInv, CapOvershoot

\* An insert trades an inserter for a row.
LEMMA InsertKeepsBound ==
    ASSUME TypeOK, TypeOK', CapInv, NEW h \in Handler, InsertRow(h)
    PROVE  CapInv'
<1> DEFINE k0 == KindOf(req[h].op)
           t0 == req[h].token
           key == RowKey(k0, req[h].item)
<1>1. k0 \in Kind /\ t0 \in Token
  BY DEF InsertRow, TypeOK, LiveReq
<1>2. held'[k0][t0] = held[k0][t0] \cup {key}
  BY <1>1 DEF InsertRow, TypeOK
<1>3. \A k \in Kind, t \in Token : k # k0 \/ t # t0 => held'[k][t] = held[k][t]
  BY DEF InsertRow, TypeOK
<1>4. \A k \in Kind, t \in Token : Inserters(k, t)' \subseteq Inserters(k, t) \ {h}
  BY LeavingInserts DEF InsertRow
<1>5. \A k \in Kind, t \in Token : IsFiniteSet(held[k][t])
  BY DEF CapInv, FiniteRows
<1>6. FiniteRows'
  <2> SUFFICES ASSUME NEW k \in Kind, NEW t \in Token
               PROVE  IsFiniteSet(held'[k][t])
    BY DEF FiniteRows
  <2>1. CASE k = k0 /\ t = t0
    <3>1. IsFiniteSet(held[k][t])
      BY <1>5
    <3>2. held'[k][t] = held[k][t] \cup {key}
      BY <1>2, <2>1
    <3> HIDE DEF key
    <3>3. IsFiniteSet(held[k][t] \cup {key})
      BY <3>1, FS_AddElement
    <3> QED
      BY <3>2, <3>3
  <2>2. CASE k # k0 \/ t # t0
    BY <1>3, <1>5, <2>2
  <2> QED
    BY <2>1, <2>2
<1>7. ASSUME NEW k \in Kind, NEW t \in Token, Cap[k] > 0
      PROVE  Cardinality(held'[k][t]) + Cardinality(Inserters(k, t)')
               =< Cap[k] + Cardinality(Handler) - 1
  <2>1. Cardinality(held[k][t]) + Cardinality(Inserters(k, t))
           =< Cap[k] + Cardinality(Handler) - 1
    BY <1>7 DEF CapInv, CapOvershoot
  <2>2. /\ Cardinality(held[k][t]) \in Nat
        /\ Cardinality(held'[k][t]) \in Nat
        /\ Cardinality(Inserters(k, t)) \in Nat
        /\ Cardinality(Inserters(k, t)') \in Nat
        /\ Cardinality(Handler) \in Nat
        /\ Cap[k] \in Nat
    BY <1>5, <1>6, InsertersFinite, InsertersFiniteNext, FS_CardinalityType,
       ConstantsAssumption DEF FiniteRows
  <2>3. CASE k = k0 /\ t = t0
    <3>1. Cardinality(held'[k][t]) =< Cardinality(held[k][t]) + 1
      <4>1. Cardinality(held[k][t] \cup {key}) =< Cardinality(held[k][t]) + 1
        <5>1. Cardinality(held[k][t] \cup {key}) =
                 IF key \in held[k][t] THEN Cardinality(held[k][t]) ELSE Cardinality(held[k][t]) + 1
          BY <1>5, FS_AddElement
        <5> HIDE DEF key
        <5> QED
          BY <5>1, <2>2
      <4> QED
        BY <1>2, <2>3, <4>1
    <3>2. h \in Inserters(k, t)
      BY <2>3 DEF InsertRow, Inserters
    <3>3. Cardinality(Inserters(k, t) \ {h}) = Cardinality(Inserters(k, t)) - 1
      BY <3>2, InsertersFinite, FS_RemoveElement
    <3>4. Cardinality(Inserters(k, t)') =< Cardinality(Inserters(k, t) \ {h})
      BY <1>4, InsertersFinite, FS_RemoveElement, FS_Subset
    <3> QED
      BY <2>1, <2>2, <3>1, <3>3, <3>4
  <2>4. CASE k # k0 \/ t # t0
    <3>1. Cardinality(Inserters(k, t)') =< Cardinality(Inserters(k, t))
      BY <1>4, InsertersFinite, FS_Subset
    <3> QED
      BY <1>3, <2>1, <2>2, <2>4, <3>1
  <2> QED
    BY <2>3, <2>4
<1> QED
  BY <1>6, <1>7 DEF CapInv, CapOvershoot

\* Rows plus the handlers cleared to add one more never exceed the cap by more
\* than the other handlers: what the checks of ident.go guarantee, inductively.
LEMMA CapInvariant == Spec => []CapInv
<1>1. Init => CapInv
  <2> SUFFICES ASSUME Init PROVE CapInv
    OBVIOUS
  <2>1. \A k \in Kind, t \in Token : held[k][t] = {}
    BY DEF Init
  <2>2. \A k \in Kind, t \in Token : Inserters(k, t) = {}
    BY DEF Init, Inserters
  <2>3. ASSUME NEW k \in Kind, NEW t \in Token, Cap[k] > 0
        PROVE  Cardinality(held[k][t]) + Cardinality(Inserters(k, t))
                 =< Cap[k] + Cardinality(Handler) - 1
    <3>1. Cap[k] \in Nat /\ Cardinality(Handler) \in Nat
      BY ConstantsAssumption, FS_CardinalityType
    <3>2. Cardinality(held[k][t]) = 0 /\ Cardinality(Inserters(k, t)) = 0
      BY <2>1, <2>2, FS_EmptySet
    <3> QED
      BY <2>3, <3>1, <3>2
  <2> QED
    BY <2>1, <2>3, FS_EmptySet DEF CapInv, FiniteRows, CapOvershoot
<1>2. TypeOK /\ TypeOK' /\ CapInv /\ [Next]_vars => CapInv'
  <2> SUFFICES ASSUME TypeOK, TypeOK', CapInv, [Next]_vars
               PROVE  CapInv'
    OBVIOUS
  <2>1. ASSUME NEW h \in Handler, NEW op \in Ops, NEW t \in Token, NEW i \in Item,
               NEW n \in 1..MaxLines, Begin(h, op, t, i, n)
        PROVE  CapInv'
    BY <2>1, NothingAdded DEF Begin, tables, Inserters, TypeOK
  <2>2. ASSUME NEW h \in Handler, TouchToken(h)
        PROVE  CapInv'
    BY <2>2, NothingAdded DEF TouchToken, Inserters, TypeOK
  <2>3. ASSUME NEW h \in Handler, CountRoom(h)
        PROVE  CapInv'
    BY <2>3, CheckKeepsBound
  <2>4. ASSUME NEW h \in Handler, InsertRow(h)
        PROVE  CapInv'
    BY <2>4, InsertKeepsBound
  <2>5. ASSUME NEW h \in Handler,
               \/ CountAtLimit(h) \/ UpsertPrefs(h) \/ ForeignKeyFails(h)
               \/ StatementFails(h) \/ ClientGone(h) \/ ClientGoneMidWrite(h)
        PROVE  CapInv'
    <3>1. held' = held /\ (NextLine(h) \/ Finish(h))
      BY <2>5 DEF CountAtLimit, UpsertPrefs, ForeignKeyFails, StatementFails, ClientGone,
                  ClientGoneMidWrite, tables
    <3> QED
      BY <3>1, LeavingInserts, NothingAdded
  <2>6. ASSUME NEW k \in Kind, NEW t \in Token, NEW key \in held[k][t], DeleteRow(k, t, key)
        PROVE  CapInv'
    BY <2>6, NothingAdded DEF DeleteRow, Inserters, TypeOK
  <2>7. ASSUME NEW t \in Token, ClearLedger(t)
        PROVE  CapInv'
    BY <2>7, NothingAdded DEF ClearLedger, Inserters, TypeOK, Kind
  <2>8. ASSUME NEW gone \in SUBSET Token, DeleteTokens(gone), UNCHANGED <<pc, req>>
        PROVE  CapInv'
    BY <2>8, NothingAdded DEF DeleteTokens, Inserters, TypeOK
  <2>9. CASE Tick \/ UNCHANGED vars
    BY <2>9, NothingAdded DEF Tick, tables, vars, Inserters
  <2>10. CASE Restart
    BY <2>10, NothingAdded DEF Restart, tables, Inserters
  <2> QED
    BY <2>1, <2>2, <2>3, <2>4, <2>5, <2>6, <2>7, <2>8, <2>9, <2>10
       DEF Next, HandlerStep, HandlerTrouble, SingleStatement, Forget, PruneTokens, Dormant,
           TypeOK
<1> QED
  BY <1>1, <1>2, TypeCorrect, PTL DEF Spec

\* However many requests race on one token, a table exceeds its cap by fewer
\* rows than there are handlers in flight (ident.go:69-85, 186-210, 326-345).
THEOREM CapHoldsUpToConcurrency == Spec => []CapOvershoot
<1>1. CapInv => CapOvershoot
  BY DEF CapInv
<1> QED
  BY <1>1, CapInvariant, PTL

\* Served one at a time, requests cannot exceed a cap at all: the excess comes
\* from concurrency alone (ident.go:69-85, 186-210, 326-345).
THEOREM CapIsExactInSequence ==
    ASSUME Cardinality(Handler) = 1
    PROVE  Spec => []PerTokenCap
<1>1. CapInv => PerTokenCap
  <2> SUFFICES ASSUME CapInv, NEW k \in Kind, NEW t \in Token, Cap[k] > 0
               PROVE  Cardinality(held[k][t]) =< Cap[k]
    BY DEF PerTokenCap
  <2>1. /\ Cardinality(held[k][t]) \in Nat
        /\ Cardinality(Inserters(k, t)) \in Nat
        /\ Cap[k] \in Nat
    BY InsertersFinite, FS_CardinalityType, ConstantsAssumption DEF CapInv, FiniteRows
  <2>2. Cardinality(held[k][t]) + Cardinality(Inserters(k, t)) =< Cap[k] + 1 - 1
    BY DEF CapInv, CapOvershoot
  <2> QED
    BY <2>1, <2>2
<1> QED
  BY <1>1, CapInvariant, PTL
===============================================================================
