--------------------------------- MODULE Shops ---------------------------------
(***************************************************************************)
(* The daily job that refreshes the shop offers (ingest.go, shops), next to *)
(* an `openget -once shops` of the operator: a paged read of the wiki's     *)
(* storeline rows, the replacement of the table, and the stamp that tells   *)
(* the next job how fresh the table is.                                     *)
(*                                                                          *)
(* Time is a counter; a day has Day of its units, and the loop wakes at the *)
(* boundaries of days (untilNext; its settling offset shifts every boundary *)
(* alike).  A wake-up is not late, a job takes MaxFetch units at most.      *)
(***************************************************************************)
EXTENDS Integers, FiniteSetsExt

CONSTANTS
    Row,          \* rows the storeline bucket may have, numbered in its order
    Untradeable,  \* those whose item is not on the Grand Exchange
    PageSize,     \* bucketPageSize
    Process,      \* {"service"}, or with "once"
    Day,          \* Poll.Daily
    MaxFetch,     \* the longest a job takes
    MaxTime,      \* bound: the clock
    MaxChanges,   \* bound: changes of the wiki and of shops.toml
    MaxFailures   \* bound: jobs that store nothing, and restarts

ASSUME ShopsAssumption ==
    /\ Row \subseteq Nat
    /\ Untradeable \subseteq Row
    /\ PageSize \in Nat \ {0}
    /\ "service" \in Process
    /\ Day \in Nat \ {0}
    /\ {MaxFetch, MaxTime, MaxChanges, MaxFailures} \subseteq Nat

VARIABLES
    now,
    upstream,   \* the rows of the bucket
    excluded,   \* the rows shops.toml, or their currency or stock, rule out
    loaded,     \* whether the items table has been filled
    table,      \* shop_offers
    asOf,       \* when the job that filled it began to read; 0 for never
    fetchedAt,  \* meta shops_fetched_at; 0 for never
    step,       \* where the job of each process is
    started,    \* when the job of a process began
    got,        \* the rows it has read
    offset,     \* where its next page begins
    when,       \* `now` of its job, taken once everything is read
    wake,       \* when the service's timer fires
    changes, failures

wiki  == <<upstream, excluded, changes>>
job   == <<started, got, offset, when>>
store == <<table, asOf, fetchedAt>>
shopvars == <<now, wiki, loaded, store, step, job, wake, failures>>

ShopsInit ==
    /\ now = 1
    /\ upstream = Row
    /\ excluded = {}
    /\ loaded = FALSE
    /\ table = {}
    /\ asOf = 0
    /\ fetchedAt = 0
    /\ step = [p \in Process |-> "idle"]
    /\ started = [p \in Process |-> 0]
    /\ got = [p \in Process |-> {}]
    /\ offset = [p \in Process |-> 0]
    /\ when = [p \in Process |-> 0]
    /\ wake = now
    /\ changes = 0
    /\ failures = 0

-------------------------------------------------------------------------------
(***************************************************************************)
(* The job                                                                 *)
(***************************************************************************)

\* untilNext.
NextBoundary == (now \div Day + 1) * Day

\* A process has nothing more to do: the service sets its timer.
Sleep(p) ==
    /\ step' = [step EXCEPT ![p] = "idle"]
    /\ wake' = IF p = "service" THEN NextBoundary ELSE wake

\* The service's timer; -once is run whenever the operator likes.
Due(p) == step[p] = "idle" /\ (p = "service" => wake <= now)

\* Mutant of Fresh: two days are still young.
FreshForTwoDays == fetchedAt # 0 /\ now - fetchedAt < 2 * Day /\ table # {}

\* The stored copy is still young.
Fresh == fetchedAt # 0 /\ now - fetchedAt < Day /\ table # {}

SkipFresh(p) ==
    /\ Due(p)
    /\ p = "service"
    /\ Fresh
    /\ Sleep(p)
    /\ UNCHANGED <<now, wiki, loaded, store, job, failures>>

Begin(p) ==
    /\ Due(p)
    /\ p = "service" => ~ Fresh
    /\ step' = [step EXCEPT ![p] = "fetch"]
    /\ started' = [started EXCEPT ![p] = now]
    /\ got' = [got EXCEPT ![p] = {}]
    /\ offset' = [offset EXCEPT ![p] = 0]
    /\ UNCHANGED <<now, wiki, loaded, store, when, wake, failures>>

\* What .offset(o).limit(PageSize) returns.
Position(r) == Cardinality({q \in upstream : q < r})
Page(o)     == {r \in upstream : Position(r) \in o .. o + PageSize - 1}

\* One request.  A short page is the last one; the exclusions and the time are
\* read after it.
FetchPage(p) ==
    /\ step[p] = "fetch"
    /\ got' = [got EXCEPT ![p] = @ \cup Page(offset[p])]
    /\ offset' = [offset EXCEPT ![p] = @ + PageSize]
    /\ IF Cardinality(Page(offset[p])) < PageSize
       THEN /\ step' = [step EXCEPT ![p] = "store"]
            /\ when' = [when EXCEPT ![p] = now]
       ELSE UNCHANGED <<step, when>>
    /\ UNCHANGED <<now, wiki, loaded, store, started, wake, failures>>

\* The request, shops.toml, or the transaction fails.
JobFails(p) ==
    /\ step[p] \in {"fetch", "store"}
    /\ failures < MaxFailures
    /\ failures' = failures + 1
    /\ Sleep(p)
    /\ UNCHANGED <<now, wiki, loaded, store, job>>

\* What ReplaceShopOffers makes of the rows: usable, and of a known item.
Offers(rows) == rows \ (excluded \cup Untradeable)

\* Without items nothing is touched.
NoItems(p) ==
    /\ step[p] = "store"
    /\ ~ loaded
    /\ failures < MaxFailures
    /\ failures' = failures + 1
    /\ Sleep(p)
    /\ UNCHANGED <<now, wiki, loaded, store, job>>

\* DELETE and INSERT in one transaction.  A count of zero ends the job here.
Store(p) ==
    /\ step[p] = "store"
    /\ loaded
    /\ table' = Offers(got[p])
    /\ IF Offers(got[p]) = {}
       THEN Sleep(p) /\ asOf' = 0
       ELSE step' = [step EXCEPT ![p] = "stamp"] /\ asOf' = started[p] /\ UNCHANGED wake
    /\ UNCHANGED <<now, wiki, loaded, fetchedAt, job, failures>>

\* Mutant of Stamp: the time of the stamp instead of that of the read.
StampNow(p) ==
    /\ step[p] = "stamp"
    /\ fetchedAt' = now
    /\ Sleep(p)
    /\ UNCHANGED <<now, wiki, loaded, table, asOf, job, failures>>

\* SetMetaTime, in a statement of its own.
Stamp(p) ==
    /\ step[p] = "stamp"
    /\ fetchedAt' = when[p]
    /\ Sleep(p)
    /\ UNCHANGED <<now, wiki, loaded, table, asOf, job, failures>>

\* A stamp that fails is logged, and the job has succeeded.
StampFails(p) ==
    /\ step[p] = "stamp"
    /\ failures < MaxFailures
    /\ failures' = failures + 1
    /\ Sleep(p)
    /\ UNCHANGED <<now, wiki, loaded, store, job>>

-------------------------------------------------------------------------------
(***************************************************************************)
(* Everything else                                                         *)
(***************************************************************************)

\* A process dies; the service starts again and runs every job at once.
RestartProcess(p) ==
    /\ failures < MaxFailures
    /\ failures' = failures + 1
    /\ step' = [step EXCEPT ![p] = "idle"]
    /\ wake' = IF p = "service" THEN now ELSE wake
    /\ UNCHANGED <<now, wiki, loaded, store, job>>

\* The mapping job has filled the items table; it is never emptied again.
MappingLands ==
    /\ ~ loaded
    /\ loaded' = TRUE
    /\ UNCHANGED <<now, wiki, store, step, job, wake, failures>>

Change ==
    /\ changes < MaxChanges
    /\ changes' = changes + 1
    /\ \/ \E r \in Row : /\ upstream' = (upstream \ {r}) \cup ({r} \ upstream)
                         /\ UNCHANGED excluded
       \/ \E r \in Row : /\ excluded' = (excluded \ {r}) \cup ({r} \ excluded)
                         /\ UNCHANGED upstream
    /\ UNCHANGED <<now, loaded, store, step, job, wake, failures>>

\* Time passes unless a timer is due or a job has taken its time.
Tick ==
    /\ now < MaxTime
    /\ \A p \in Process : IF step[p] = "idle" THEN p = "service" => now < wake
                                            ELSE now < started[p] + MaxFetch
    /\ now' = now + 1
    /\ UNCHANGED <<wiki, loaded, store, step, job, wake, failures>>

ShopsNext ==
    \/ \E p \in Process :
         \/ SkipFresh(p) \/ Begin(p)
         \/ FetchPage(p) \/ JobFails(p)
         \/ NoItems(p) \/ Store(p)
         \/ Stamp(p) \/ StampFails(p)
         \/ RestartProcess(p)
    \/ MappingLands
    \/ Change
    \/ Tick

ShopsSpec == ShopsInit /\ [][ShopsNext]_shopvars

-------------------------------------------------------------------------------
(***************************************************************************)
(* Properties                                                              *)
(***************************************************************************)

ShopsTypeOK ==
    /\ now \in Nat
    /\ upstream \subseteq Row
    /\ excluded \subseteq Row
    /\ loaded \in BOOLEAN
    /\ table \subseteq Row \ Untradeable
    /\ asOf \in Nat
    /\ fetchedAt \in Nat
    /\ step \in [Process -> {"idle", "fetch", "store", "stamp"}]
    /\ started \in [Process -> Nat]
    /\ got \in [Process -> SUBSET Row]
    /\ offset \in [Process -> Nat]
    /\ when \in [Process -> Nat]
    /\ wake \in Nat
    /\ changes \in Nat
    /\ failures \in Nat

\* The stamp dates the table: it is never later than the end of the read that
\* filled the table, although the service and -once may replace the table and
\* stamp it in any order, and either may die between the two (ingest.go:247).
StampHonest == table # {} => fetchedAt <= asOf + MaxFetch

\* The offers on the page are at most two days old and as long as three jobs take,
\* a day and a job more for every job that failed; a table that is never stamped
\* is read anew every day (untilNext, and the freshness test of the shops job).
AgeBounded ==
    table # {} => now - asOf <= (2 + failures) * (Day + MaxFetch) + MaxFetch

===============================================================================
