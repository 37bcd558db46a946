------------------------------ MODULE TokenStore ------------------------------
(***************************************************************************)
(* The personal half of OpenGET's database: identity tokens and the rows   *)
(* they own (openget/internal/store/ident.go), as the concurrent HTTP      *)
(* handlers of openget/internal/web/personal.go and the nightly prune use   *)
(* them.                                                                    *)
(*                                                                          *)
(* A handler that stores something runs three separate statements: touch    *)
(* the token row (writer), count what the token already owns (reader),      *)
(* insert (writer).  SQLite makes each statement atomic and nothing makes   *)
(* the three of them one, so every other handler, the prune, "forget" and   *)
(* a restart may come between two of them.                                  *)
(***************************************************************************)
EXTENDS Integers, FiniteSets

CONSTANTS
    Token,        \* token hashes that browsers present
    Item,         \* item ids a form may name (numbers, as in the game)
    Listed,       \* those with a row in the items table
    Handler,      \* requests that may be in flight at once
    Cap,          \* [limits] of the configuration, per table; 0 is no cap
    PruneAfter,   \* [limits] prune_after, in ticks
    Ops,          \* the operations the requests of this instance ask for
    MaxTime,      \* bound: ticks of the clock
    MaxRequests,  \* bound: requests ever begun
    MaxLines,     \* bound: usable lines of one pasted CSV
    MaxDropped    \* bound: times database/sql discards the write connection

Kind    == {"favourites", "ledger", "alerts"}
AllOps  == Kind \cup {"import", "prefs"}

ASSUME ConstantsAssumption ==
    /\ Item \subseteq Nat
    /\ Listed \subseteq Item
    /\ IsFiniteSet(Handler)
    /\ Cap \in [Kind -> Nat]
    /\ PruneAfter \in Nat
    /\ Ops \subseteq AllOps
    /\ MaxTime \in Nat
    /\ MaxRequests \in Nat
    /\ MaxLines \in Nat
    /\ MaxDropped \in Nat

VARIABLES
    now,        \* the wall clock
    tokens,     \* token_hash of the rows of the tokens table
    lastSeen,   \* their last_seen column; 0 where there is no row
    held,       \* held[k][t]: keys of the rows of table k that t owns
    seq,        \* sqlite_sequence: the last AUTOINCREMENT id of ledger, alerts
    prefs,      \* tokens with a prefs row
    fk,         \* PRAGMA foreign_keys of the write connection
    dropped,    \* write connections discarded since the service was installed
    pc,         \* where each handler is
    req,        \* what each handler was asked to do
    begun       \* requests begun so far

vars == <<now, tokens, lastSeen, held, seq, prefs, fk, dropped, pc, req, begun>>

tables  == <<tokens, lastSeen, held, seq, prefs>>
conn    == <<fk, dropped>>
NoReq   == [op |-> "none", token |-> "none", item |-> 0, lines |-> 0]
LiveReq == [op : Ops, token : Token, item : Item, lines : Nat]

KindOf(op) == IF op = "import" THEN "ledger" ELSE op

Init ==
    /\ now = 0
    /\ tokens = {}
    /\ lastSeen = [t \in Token |-> 0]
    /\ held = [k \in Kind |-> [t \in Token |-> {}]]
    /\ seq = [k \in Kind |-> 0]
    /\ prefs = {}
    /\ fk = TRUE
    /\ dropped = 0
    /\ pc = [h \in Handler |-> "idle"]
    /\ req = [h \in Handler |-> NoReq]
    /\ begun = 0

-------------------------------------------------------------------------------
(***************************************************************************)
(* Requests that store something                                           *)
(***************************************************************************)

Finish(h) ==
    /\ pc' = [pc EXCEPT ![h] = "idle"]
    /\ req' = [req EXCEPT ![h] = NoReq]

\* An import goes on to its next line, stored or skipped; any other request
\* is answered.
NextLine(h) ==
    IF req[h].op = "import" /\ req[h].lines > 1
    THEN /\ pc' = [pc EXCEPT ![h] = "touch"]
         /\ req' = [req EXCEPT ![h].lines = @ - 1]
    ELSE Finish(h)

\* A form whose fields are usable reaches the store with the caller's token.
\* The others are refused before TouchToken and change nothing.
Begin(h, op, t, i, n) ==
    /\ pc[h] = "idle"
    /\ begun < MaxRequests
    /\ begun' = begun + 1
    /\ op # "import" => n = 1
    /\ pc' = [pc EXCEPT ![h] = "touch"]
    /\ req' = [req EXCEPT ![h] = [op |-> op, token |-> t, item |-> i, lines |-> n]]
    /\ UNCHANGED <<now, tables, conn>>

\* TouchToken: create the row if absent, slide last_seen forward.
TouchToken(h) ==
    /\ pc[h] = "touch"
    /\ tokens' = tokens \cup {req[h].token}
    /\ lastSeen' = [lastSeen EXCEPT ![req[h].token] = now]
    /\ pc' = [pc EXCEPT ![h] = IF req[h].op = "prefs" THEN "upsert" ELSE "count"]
    /\ UNCHANGED <<now, held, seq, prefs, conn, req, begun>>

\* Mutant of UnderCap: > for >=.
UnderCapOffByOne(k, t) == ~ (Cap[k] > 0 /\ Cardinality(held[k][t]) > Cap[k])

UnderCap(k, t) == ~ (Cap[k] > 0 /\ Cardinality(held[k][t]) >= Cap[k])

\* The count is read through the reader pool, outside any transaction.
CountRoom(h) ==
    /\ pc[h] = "count"
    /\ UnderCap(KindOf(req[h].op), req[h].token)
    /\ pc' = [pc EXCEPT ![h] = "insert"]
    /\ UNCHANGED <<now, tables, conn, req, begun>>

\* ErrLimit ends a request, and the whole of an import.
CountAtLimit(h) ==
    /\ pc[h] = "count"
    /\ ~ UnderCap(KindOf(req[h].op), req[h].token)
    /\ Finish(h)
    /\ UNCHANGED <<now, tables, conn, begun>>

\* The foreign keys of a child row: its token, and its item where it has one.
Referenced(t, i) == t \in tokens /\ i \in Listed

RowKey(k, i) == IF k = "favourites" THEN i ELSE seq[k] + 1

\* favourites has the key (token, item) and ignores a conflict; ledger and
\* alerts take a new AUTOINCREMENT id.
InsertRow(h) ==
    LET k == KindOf(req[h].op)
        t == req[h].token
        i == req[h].item
    IN  /\ pc[h] = "insert"
        /\ fk => Referenced(t, i)
        /\ held' = [held EXCEPT ![k][t] = @ \cup {RowKey(k, i)}]
        /\ seq' = [seq EXCEPT ![k] = IF k = "favourites" THEN @ ELSE @ + 1]
        /\ NextLine(h)
        /\ UNCHANGED <<now, tokens, lastSeen, prefs, conn, begun>>

\* SetPrefs: one row per token, replaced as a whole.
UpsertPrefs(h) ==
    /\ pc[h] = "upsert"
    /\ fk => req[h].token \in tokens
    /\ prefs' = prefs \cup {req[h].token}
    /\ Finish(h)
    /\ UNCHANGED <<now, tokens, lastSeen, held, seq, conn, begun>>

\* The write fails on a foreign key: the token went between touch and insert,
\* or the form named an item nobody has heard of.
ForeignKeyFails(h) ==
    /\ fk
    /\ \/ pc[h] = "insert" /\ ~ Referenced(req[h].token, req[h].item)
       \/ pc[h] = "upsert" /\ req[h].token \notin tokens
    /\ NextLine(h)
    /\ UNCHANGED <<now, tables, conn, begun>>

\* Any statement may fail (busy, disk full).  An import counts the line as
\* skipped and goes on.
StatementFails(h) ==
    /\ pc[h] # "idle"
    /\ NextLine(h)
    /\ UNCHANGED <<now, tables, conn, begun>>

\* Every statement runs under the request's context, so a client that hangs up
\* ends the request between two statements.
ClientGone(h) ==
    /\ pc[h] # "idle"
    /\ Finish(h)
    /\ UNCHANGED <<now, tables, conn, begun>>

\* A context cancelled in the middle of a write interrupts SQLite, and
\* database/sql replaces a connection its driver no longer vouches for.  Open
\* ran the pragmas on the first connection only; the DSN carries the busy
\* timeout and the lock mode, so the new connection enforces no foreign key.
ClientGoneMidWrite(h) ==
    /\ pc[h] \in {"touch", "insert", "upsert"}
    /\ dropped < MaxDropped
    /\ dropped' = dropped + 1
    /\ fk' = FALSE
    /\ Finish(h)
    /\ UNCHANGED <<now, tables, begun>>

-------------------------------------------------------------------------------
(***************************************************************************)
(* Single-statement operations                                             *)
(***************************************************************************)

\* RemoveFavourite, DeleteLedger and DeleteAlert delete at most one row of the
\* caller's, and do not touch the token.
DeleteRow(k, t, key) ==
    /\ key \in held[k][t]
    /\ held' = [held EXCEPT ![k][t] = @ \ {key}]
    /\ UNCHANGED <<now, tokens, lastSeen, seq, prefs, conn, pc, req, begun>>

\* ClearLedger leaves the token and its other rows alone.
ClearLedger(t) ==
    /\ held["ledger"][t] # {}
    /\ held' = [held EXCEPT !["ledger"][t] = {}]
    /\ UNCHANGED <<now, tokens, lastSeen, seq, prefs, conn, pc, req, begun>>

\* Mutant of DeleteTokens: prefs declares no ON DELETE CASCADE.
DeleteTokensKeepingPrefs(gone) ==
    /\ tokens' = tokens \ gone
    /\ lastSeen' = [t \in Token |-> IF t \in gone THEN 0 ELSE lastSeen[t]]
    /\ held' = [k \in Kind |-> [t \in Token |->
                  IF fk /\ t \in gone THEN {} ELSE held[k][t]]]
    /\ UNCHANGED <<seq, prefs>>

\* DELETE FROM tokens, with what ON DELETE CASCADE makes of it on this
\* connection.
DeleteTokens(gone) ==
    /\ tokens' = tokens \ gone
    /\ lastSeen' = [t \in Token |-> IF t \in gone THEN 0 ELSE lastSeen[t]]
    /\ held' = [k \in Kind |-> [t \in Token |->
                  IF fk /\ t \in gone THEN {} ELSE held[k][t]]]
    /\ prefs' = IF fk THEN prefs \ gone ELSE prefs
    /\ UNCHANGED seq

Forget(t) ==
    /\ t \in tokens
    /\ DeleteTokens({t})
    /\ UNCHANGED <<now, conn, pc, req, begun>>

Dormant == {t \in tokens : lastSeen[t] < now - PruneAfter}

PruneTokens ==
    /\ PruneAfter > 0
    /\ Dormant # {}
    /\ DeleteTokens(Dormant)
    /\ UNCHANGED <<now, conn, pc, req, begun>>

-------------------------------------------------------------------------------
(***************************************************************************)
(* The environment                                                         *)
(***************************************************************************)

Tick ==
    /\ now < MaxTime
    /\ now' = now + 1
    /\ UNCHANGED <<tables, conn, pc, req, begun>>

\* The service restarts: requests in flight are lost, committed rows are not,
\* and Open applies the pragmas to the new write connection.
Restart ==
    /\ fk' = TRUE
    /\ pc' = [h \in Handler |-> "idle"]
    /\ req' = [h \in Handler |-> NoReq]
    /\ UNCHANGED <<now, tables, dropped, begun>>

HandlerStep(h) ==
    \/ TouchToken(h)
    \/ CountRoom(h)
    \/ CountAtLimit(h)
    \/ InsertRow(h)
    \/ UpsertPrefs(h)
    \/ ForeignKeyFails(h)

HandlerTrouble(h) ==
    \/ StatementFails(h)
    \/ ClientGone(h)
    \/ ClientGoneMidWrite(h)

SingleStatement ==
    \/ \E k \in Kind, t \in Token : \E key \in held[k][t] : DeleteRow(k, t, key)
    \/ \E t \in Token : ClearLedger(t)
    \/ \E t \in Token : Forget(t)
    \/ PruneTokens

Next ==
    \/ \E h \in Handler :
         \/ \E op \in Ops, t \in Token, i \in Item, n \in 1..MaxLines :
               Begin(h, op, t, i, n)
         \/ HandlerStep(h)
         \/ HandlerTrouble(h)
    \/ SingleStatement
    \/ Tick
    \/ Restart

Spec == Init /\ [][Next]_vars

-------------------------------------------------------------------------------
(***************************************************************************)
(* Properties                                                              *)
(***************************************************************************)

TypeOK ==
    /\ now \in Nat
    /\ tokens \subseteq Token
    /\ lastSeen \in [Token -> Nat]
    /\ held \in [Kind -> [Token -> SUBSET Nat]]
    /\ seq \in [Kind -> Nat]
    /\ prefs \subseteq Token
    /\ fk \in BOOLEAN
    /\ dropped \in Nat
    /\ begun \in Nat
    /\ pc \in [Handler -> {"idle", "touch", "count", "insert", "upsert"}]
    /\ req \in [Handler -> LiveReq \cup {NoReq}]
    /\ \A h \in Handler :
         /\ pc[h] # "idle" => req[h] \in LiveReq
         /\ pc[h] \in {"count", "insert"} => KindOf(req[h].op) \in Kind

\* No row outlives its token: whatever handlers, "forget" and the prune do
\* between a handler's statements, a table never holds a row of a token that
\* has none (ident.go:56, "one delete is enough").  It rests on foreign_keys,
\* so it is claimed for as long as the write connection is the one Open set up.
NoOrphans ==
    dropped = 0 =>
        /\ prefs \subseteq tokens
        /\ \A k \in Kind, t \in Token : held[k][t] # {} => t \in tokens

\* What NoOrphans rests on: only a discarded connection loses the pragma.
ForeignKeysOn == dropped = 0 => fk

Inserters(k, t) ==
    {h \in Handler : pc[h] = "insert" /\ KindOf(req[h].op) = k /\ req[h].token = t}

\* How far a per-token cap can be exceeded: each handler that passed the check
\* before the others inserted adds one row, so one row fewer than there are
\* handlers, and none at all when requests are served one at a time
\* (AddFavourite, AddLedger, AddAlert).
CapOvershoot ==
    \A k \in Kind, t \in Token :
        Cap[k] > 0 => Cardinality(held[k][t]) + Cardinality(Inserters(k, t))
                        =< Cap[k] + Cardinality(Handler) - 1

FiniteRows == \A k \in Kind, t \in Token : IsFiniteSet(held[k][t])

\* The cap as the code's comments state it: no token ever owns more rows of a
\* table than its limit.
PerTokenCap ==
    \A k \in Kind, t \in Token :
        Cap[k] > 0 => Cardinality(held[k][t]) =< Cap[k]
===============================================================================
