-------------------------------- MODULE Alerts --------------------------------
(***************************************************************************)
(* Price alerts: Recompute (ingest.go) rebuilds item_stats and then runs   *)
(* EvaluateAlerts (store/ident.go), which reads every active alert once,   *)
(* and then takes them one at a time with up to three separate statements: *)
(* re-read last_fired, append the event, set last_fired.  Users add and    *)
(* delete alerts and forget their token meanwhile; a statement may fail    *)
(* and the service may restart between any two.                            *)
(***************************************************************************)
EXTENDS Integers, FiniteSets

CONSTANTS
    AlertId,      \* AUTOINCREMENT ids; each is used once
    Watch,        \* Watch[a]: what the alert with id a watches, and for whom
    Token,
    Item,
    Quote,        \* rows item_stats may hold
    Null,         \* SQL NULL
    Evaluator,    \* processes that recompute: the service, `openget -once`
    MaxTroubles   \* bound: failed statements and restarts

Condition == {"high_below", "high_above", "low_below", "low_above",
              "margin_above", "roi_above"}

ASSUME ConstantsAssumption ==
    /\ Watch \in [AlertId -> [token : Token, item : Item,
                              cond : Condition, threshold : Int]]
    /\ Quote \subseteq [high : Int \cup {Null}, low : Int \cup {Null},
                        margin : Int \cup {Null}, roi : Int \cup {Null}]
    /\ IsFiniteSet(Evaluator)
    /\ MaxTroubles \in Nat

VARIABLES
    stats,      \* item_stats
    tokens,     \* the tokens table
    alerts,     \* ids with a row in alerts
    used,       \* ids ever given out
    fired,      \* alerts whose last_fired is not NULL
    entries,    \* entries[a]: alert_events rows of a since last_fired was last
                \* NULL with nothing in flight
    forgotten,  \* history: alerts whose token was forgotten after they were made
    left,       \* left[a]: alert_events rows of a, for a in forgotten
    pc,         \* where each evaluator is
    todo,       \* todo[e]: pending results of e's snapshot, hold flag included
    cur,        \* cur[e]: the one e is at
    troubles

vars == <<stats, tokens, alerts, used, fired, entries, forgotten, left, pc, todo, cur,
          troubles>>

rows == <<tokens, alerts, used, forgotten>>
work == <<pc, todo, cur>>

Pending == [id : AlertId, hold : BOOLEAN]
NoWork  == [id |-> "none", hold |-> FALSE]

Init ==
    /\ stats \in [Item -> Quote]
    /\ tokens = {}
    /\ alerts = {}
    /\ used = {}
    /\ fired = {}
    /\ entries = [a \in AlertId |-> 0]
    /\ forgotten = {}
    /\ left = [a \in AlertId |-> 0]
    /\ pc = [e \in Evaluator |-> "idle"]
    /\ todo = [e \in Evaluator |-> {}]
    /\ cur = [e \in Evaluator |-> NoWork]
    /\ troubles = 0

-------------------------------------------------------------------------------
(***************************************************************************)
(* Evaluation                                                              *)
(***************************************************************************)

Column(cond) == CASE cond \in {"high_below", "high_above"} -> "high"
                  [] cond \in {"low_below", "low_above"}   -> "low"
                  [] cond = "margin_above"                 -> "margin"
                  [] cond = "roi_above"                    -> "roi"

Holds(a) ==
    LET w == Watch[a]
        v == stats[w.item][Column(w.cond)]
    IN  /\ v # Null
        /\ IF w.cond \in {"high_below", "low_below"} THEN v < w.threshold
                                                      ELSE v > w.threshold

\* ComputeStats: one statement, from whatever the latest poll stored.
ComputeStats(e) ==
    /\ pc[e] = "idle"
    /\ stats' \in [Item -> Quote]
    /\ pc' = [pc EXCEPT ![e] = "snapshot"]
    /\ UNCHANGED <<rows, fired, entries, left, todo, cur, troubles>>

\* The join over alerts, items and item_stats, with the verdict of each row.
Snapshot(e) ==
    /\ pc[e] = "snapshot"
    /\ todo' = [todo EXCEPT ![e] = {[id |-> a, hold |-> Holds(a)] : a \in alerts}]
    /\ pc' = [pc EXCEPT ![e] = "next"]
    /\ UNCHANGED <<stats, rows, fired, entries, left, cur, troubles>>

Take(e, p, where) ==
    /\ pc[e] = "next"
    /\ p \in todo[e]
    /\ todo' = [todo EXCEPT ![e] = @ \ {p}]
    /\ cur' = [cur EXCEPT ![e] = IF where = "next" THEN NoWork ELSE p]
    /\ pc' = [pc EXCEPT ![e] = where]
    /\ UNCHANGED <<stats, rows, fired, entries, left, troubles>>

\* Mutant of StartFiring: whether the condition holds is not asked.
StartFiringRegardless(e, p) ==
    /\ p.id \in alerts
    /\ p.id \notin fired
    /\ Take(e, p, "event")

\* Mutant of StartFiring: last_fired is not re-read.
StartFiringAgain(e, p) ==
    /\ p.id \in alerts
    /\ p.hold
    /\ Take(e, p, "event")

\* The re-read of last_fired decides; an alert deleted since is skipped.
StartFiring(e, p) ==
    /\ p.id \in alerts
    /\ p.hold
    /\ p.id \notin fired
    /\ Take(e, p, "event")

StartRearming(e, p) ==
    /\ p.id \in alerts
    /\ ~ p.hold
    /\ p.id \in fired
    /\ Take(e, p, "rearm")

LeaveAlone(e, p) ==
    /\ p.id \in alerts => (p.hold <=> p.id \in fired)
    /\ Take(e, p, "next")

\* Mutant of InsertEvent: PRAGMA foreign_keys is off on its connection.
InsertEventUnchecked(e) ==
    LET a == cur[e].id
    IN  /\ pc[e] = "event"
        /\ entries' = [entries EXCEPT ![a] = @ + 1]
        /\ left' = IF a \in forgotten THEN [left EXCEPT ![a] = @ + 1] ELSE left
        /\ pc' = [pc EXCEPT ![e] = "mark"]
        /\ UNCHANGED <<stats, rows, fired, todo, cur, troubles>>

\* INSERT INTO alert_events: its token must exist, the alert need not.
InsertEvent(e) ==
    LET a == cur[e].id
    IN  /\ pc[e] = "event"
        /\ Watch[a].token \in tokens
        /\ entries' = [entries EXCEPT ![a] = @ + 1]
        /\ left' = IF a \in forgotten THEN [left EXCEPT ![a] = @ + 1] ELSE left
        /\ pc' = [pc EXCEPT ![e] = "mark"]
        /\ UNCHANGED <<stats, rows, fired, todo, cur, troubles>>

Continue(e) ==
    /\ pc' = [pc EXCEPT ![e] = "next"]
    /\ cur' = [cur EXCEPT ![e] = NoWork]
    /\ UNCHANGED todo

\* UPDATE alerts SET last_fired: no row, no effect.
SetLastFired(e) ==
    LET a == cur[e].id
    IN  /\ pc[e] = "mark"
        /\ fired' = IF a \in alerts THEN fired \cup {a} ELSE fired
        /\ entries' = IF a \in alerts THEN entries ELSE [entries EXCEPT ![a] = 0]
        /\ Continue(e)
        /\ UNCHANGED <<stats, rows, left, troubles>>

ClearLastFired(e) ==
    LET a == cur[e].id
    IN  /\ pc[e] = "rearm"
        /\ fired' = fired \ {a}
        /\ entries' = [entries EXCEPT ![a] = 0]
        /\ Continue(e)
        /\ UNCHANGED <<stats, rows, left, troubles>>

Abandon(e) ==
    /\ pc' = [pc EXCEPT ![e] = "idle"]
    /\ todo' = [todo EXCEPT ![e] = {}]
    /\ cur' = [cur EXCEPT ![e] = NoWork]

EndRound(e) ==
    /\ pc[e] = "next"
    /\ todo[e] = {}
    /\ Abandon(e)
    /\ UNCHANGED <<stats, rows, fired, entries, left, troubles>>

\* The token was forgotten or pruned: the event violates its foreign key, and
\* the error abandons the alerts that were still to be looked at.
TokenGone(e) ==
    /\ pc[e] = "event"
    /\ Watch[cur[e].id].token \notin tokens
    /\ Abandon(e)
    /\ UNCHANGED <<stats, rows, fired, entries, left, troubles>>

\* A statement fails: so does the round.  (A failed re-read skips its alert
\* instead.)
StatementFails(e) ==
    /\ troubles < MaxTroubles
    /\ troubles' = troubles + 1
    /\ \/ /\ pc[e] \in {"snapshot", "event", "mark", "rearm"}
          /\ Abandon(e)
       \/ \E p \in todo[e] :
            /\ pc[e] = "next"
            /\ todo' = [todo EXCEPT ![e] = @ \ {p}]
            /\ UNCHANGED <<pc, cur>>
    /\ UNCHANGED <<stats, rows, fired, entries, left>>

\* A crash or a restart of one process loses its snapshot and its place in it.
Restart(e) ==
    /\ pc[e] # "idle"
    /\ troubles < MaxTroubles
    /\ troubles' = troubles + 1
    /\ Abandon(e)
    /\ UNCHANGED <<stats, rows, fired, entries, left>>

-------------------------------------------------------------------------------
(***************************************************************************)
(* Users                                                                   *)
(***************************************************************************)

\* AddAlert, as one action: what may come between its statements is the
\* subject of TokenStore.
AddAlert(a) ==
    /\ a \notin used
    /\ used' = used \cup {a}
    /\ tokens' = tokens \cup {Watch[a].token}
    /\ alerts' = alerts \cup {a}
    /\ UNCHANGED <<stats, fired, entries, forgotten, left, work, troubles>>

\* last_fired goes with the row; the events stay.
DeleteAlert(a) ==
    /\ a \in alerts
    /\ alerts' = alerts \ {a}
    /\ fired' = fired \ {a}
    /\ UNCHANGED <<stats, tokens, used, entries, forgotten, left, work, troubles>>

\* postForget or PruneTokens: the cascade takes alerts and events.
Forget(t) ==
    LET own == {a \in AlertId : Watch[a].token = t}
    IN  /\ t \in tokens
        /\ tokens' = tokens \ {t}
        /\ alerts' = alerts \ own
        /\ fired' = fired \ own
        /\ entries' = [a \in AlertId |-> IF a \in own THEN 0 ELSE entries[a]]
        /\ forgotten' = forgotten \cup (own \cap used)
        /\ left' = [a \in AlertId |-> IF a \in own THEN 0 ELSE left[a]]
        /\ UNCHANGED <<stats, used, work, troubles>>

RoundStep(e) ==
    \/ Snapshot(e)
    \/ \E p \in todo[e] : StartFiring(e, p) \/ StartRearming(e, p) \/ LeaveAlone(e, p)
    \/ InsertEvent(e)
    \/ SetLastFired(e)
    \/ ClearLastFired(e)
    \/ EndRound(e)
    \/ TokenGone(e)

Users ==
    \/ \E a \in AlertId : AddAlert(a) \/ DeleteAlert(a)
    \/ \E t \in Token : Forget(t)

Next ==
    \/ \E e \in Evaluator :
         ComputeStats(e) \/ RoundStep(e) \/ StatementFails(e) \/ Restart(e)
    \/ Users

Spec == Init /\ [][Next]_vars

\* The service polls every minute for as long as it runs, and a round that
\* began goes on.  Nothing is assumed of users, or of the price they see next.
FairSpec ==
    /\ Spec
    /\ \A e \in Evaluator : WF_vars(ComputeStats(e) \/ RoundStep(e))

-------------------------------------------------------------------------------
(***************************************************************************)
(* Properties                                                              *)
(***************************************************************************)

TypeOK ==
    /\ stats \in [Item -> Quote]
    /\ tokens \subseteq Token
    /\ used \subseteq AlertId
    /\ alerts \subseteq used
    /\ fired \subseteq alerts
    /\ entries \in [AlertId -> Nat]
    /\ forgotten \subseteq used
    /\ left \in [AlertId -> Nat]
    /\ pc \in [Evaluator -> {"idle", "snapshot", "next", "event", "mark", "rearm"}]
    /\ todo \in [Evaluator -> SUBSET Pending]
    /\ cur \in [Evaluator -> Pending \cup {NoWork}]
    /\ \A e \in Evaluator : pc[e] \in {"event", "mark", "rearm"} => cur[e] \in Pending
    /\ troubles \in 0..MaxTroubles

\* "so a firing can never be based on a price the site is not already showing"
\* (ingest.go:210): about to append an event, the service still shows prices
\* on which the condition holds.
FiringMatchesStats ==
    \A e \in Evaluator : pc[e] = "event" => Holds(cur[e].id)

\* How many entries one crossing of the threshold can produce: one for each
\* process that evaluates at the same time, and one more for each failure
\* between the append and the update.
DuplicatesBounded ==
    \A a \in AlertId : entries[a] =< Cardinality(Evaluator) + troubles

\* "This deletes your ... alerts and the code itself. It cannot be undone"
\* (personal.go:300): evaluators go on with what they read before, and the
\* reader may take the same code up again, but of an alert that was deleted
\* with its code nothing comes back, save what an evaluator was about to append
\* at that moment: one entry each, and only if the code is there again.
ForgetHolds ==
    \A a \in forgotten : left[a] > 0 =>
        Watch[a].token \in tokens /\ left[a] =< Cardinality(Evaluator)

(***************************************************************************)
(* The promise to the reader.  An alert is spent from the moment its entry *)
(* is in the feed, which is before last_fired says so.                     *)
(***************************************************************************)
InFeed == {cur[e].id : e \in {f \in Evaluator : pc[f] = "mark"}}

Promise == INSTANCE EdgeTrigger WITH
    live    <- alerts,
    holding <- {a \in AlertId : Holds(a)},
    armed   <- AlertId \ (fired \cup InFeed)

EdgeTriggered == Promise!Spec
===============================================================================
