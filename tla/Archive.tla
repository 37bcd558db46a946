-------------------------------- MODULE Archive --------------------------------
(***************************************************************************)
(* The price archive of OpenGET: the tiers prices_5m, prices_1h and        *)
(* prices_24h (openget/internal/store/write.go), the pollers that write    *)
(* each of them, the historical backfill, and the nightly maintenance that  *)
(* rolls the finer tiers up into the coarser ones and prunes all three      *)
(* (openget/internal/ingest/ingest.go).                                     *)
(*                                                                          *)
(* One item is enough: no statement relates the rows of two.  A row is      *)
(* known by what went into it, the five-minute buckets whose trades its     *)
(* volumes count: rows[t] holds the start of every five-minute bucket       *)
(* counted in some row of tier t, and a row exists when it counts any.      *)
(***************************************************************************)
EXTENDS Integers, FiniteSets

CONSTANTS
    Width,        \* Width[t]: seconds of a bucket of tier t, in clock ticks
    Window,       \* Window[t]: how far back maintenance rolls tier t up
    Keep,         \* [retention] of the configuration, per tier; 0 is forever
    Traded,       \* five-minute buckets in which the item trades
    Backfilled,   \* tiers [backfill] steps names
    MaxPoints,    \* points one /timeseries answer holds
    Nightly,      \* tick of the day at which maintenance runs
    MaxTime,      \* bound: ticks of the clock
    MaxMissed,    \* bound: polls a running service misses
    MaxOutages    \* bound: stops, pauses and failed statements

Tier     == {"5m", "1h", "24h"}
RolledUp == {"5m", "1h"}
Coarser  == [t \in RolledUp |-> IF t = "5m" THEN "1h" ELSE "24h"]

ASSUME ConstantsAssumption ==
    /\ Width \in [Tier -> Nat \ {0}]
    /\ \A t \in RolledUp : Width[Coarser[t]] % Width[t] = 0
    /\ Window \in [RolledUp -> Nat]
    /\ Keep \in [Tier -> Nat]
    /\ Traded \subseteq {w \in Nat : w % Width["5m"] = 0}
    /\ Backfilled \subseteq Tier
    /\ MaxPoints \in Nat
    /\ Nightly \in 0 .. (Width["24h"] - 1)
    /\ {MaxTime, MaxMissed, MaxOutages} \subseteq Nat

VARIABLES
    now,       \* the wall clock
    rows,      \* rows[t]: five-minute buckets counted in tier t
    seeded,    \* tiers whose backfill_state names the item
    service,   \* "up", "paused" by the disk guard, or "down"
    pc,        \* where maintenance is
    mnow,      \* the time it read when it last began
    rolledAt,  \* that time, for the last one whose rollups both succeeded
    skipped,   \* history: what no rollup of tier t was in time for (never read)
    missed,    \* polls missed while up
    outages    \* stops, pauses and failures so far

vars == <<now, rows, seeded, service, pc, mnow, rolledAt, skipped, missed, outages>>

maintenance == <<pc, mnow, rolledAt, skipped>>
counters    == <<missed, outages>>

BucketOf(t, f) == (f \div Width[t]) * Width[t]

\* The row of tier t that counts f, if any.
RowOf(t, f)  == {g \in rows[t] : BucketOf(t, g) = BucketOf(t, f)}
HasRow(t, f) == RowOf(t, f) # {}

\* What upstream knows of a bucket: all of its trades.
Whole(t, b) == {f \in Traded : BucketOf(t, f) = b}

\* The bucket upstream serves: the last one to close (negative: none yet).
Served(t) == BucketOf(t, now) - Width[t]

Init ==
    /\ now = 0
    /\ rows = [t \in Tier |-> {}]
    /\ seeded = {}
    /\ service = "up"
    /\ pc = "idle"
    /\ mnow = -1
    /\ rolledAt = 0
    /\ skipped = [t \in RolledUp |-> {}]
    /\ missed = 0
    /\ outages = 0

-------------------------------------------------------------------------------
(***************************************************************************)
(* Writers                                                                 *)
(***************************************************************************)

\* BucketPoll: the row is replaced.  A bucket in which nothing traded leaves
\* none, and asking again for one that is stored changes nothing.
BucketPoll(t) ==
    /\ service = "up"
    /\ rows' = [rows EXCEPT ![t] =
                  {f \in @ : BucketOf(t, f) # Served(t)} \cup Whole(t, Served(t))]
    /\ UNCHANGED <<now, seeded, service, maintenance, counters>>

\* backfillStep for the item: at most MaxPoints closed buckets, and a row that
\* exists is left alone.  An item marked as done is not listed again.
Backfill(t) ==
    /\ service = "up"
    /\ t \in Backfilled \ seeded
    /\ seeded' = seeded \cup {t}
    /\ rows' = [rows EXCEPT ![t] = @ \cup
                  {f \in Traded : /\ BucketOf(t, f) =< Served(t)
                                  /\ BucketOf(t, f) > Served(t) - MaxPoints * Width[t]
                                  /\ ~ HasRow(t, f)}]
    /\ UNCHANGED <<now, service, maintenance, counters>>

\* A fetch that fails marks the item as done all the same.
BackfillFails(t) ==
    /\ service = "up"
    /\ t \in Backfilled \ seeded
    /\ seeded' = seeded \cup {t}
    /\ UNCHANGED <<now, rows, service, maintenance, counters>>

-------------------------------------------------------------------------------
(***************************************************************************)
(* Maintenance: two rollups, then the deletes, one tier after the other.    *)
(* Each is a statement of its own, all use the time read at the start, and  *)
(* an error ends it.                                                        *)
(***************************************************************************)

Stage == {"roll 5m", "roll 1h", "prune 5m", "prune 1h", "prune 24h"}

NextStage == [s \in Stage |-> CASE s = "roll 5m"   -> "roll 1h"
                                [] s = "roll 1h"   -> "prune 5m"
                                [] s = "prune 5m"  -> "prune 1h"
                                [] s = "prune 1h"  -> "prune 24h"
                                [] s = "prune 24h" -> "idle"]

RollStage  == [t \in RolledUp |-> IF t = "5m" THEN "roll 5m" ELSE "roll 1h"]
PruneStage == [t \in Tier |-> CASE t = "5m" -> "prune 5m"
                                [] t = "1h" -> "prune 1h"
                                [] t = "24h" -> "prune 24h"]

BeginMaintenance ==
    /\ service = "up"
    /\ pc = "idle"
    /\ now % Width["24h"] = Nightly
    /\ mnow # now
    /\ mnow' = now
    /\ pc' = "roll 5m"
    /\ UNCHANGED <<now, rows, seeded, service, rolledAt, skipped, counters>>

\* Old enough, at time n, for the row to have been stored before.
Old(t, f, n) == BucketOf(t, f) + 2 * Width[t] =< n

\* What a rollup of tier t comes too late for: rows that may have been stored
\* after the last ones were done, and begin before its window does.  There are
\* none in a rollup of the night after; two nights after, with a window of two
\* days, there are those of the buckets just before the last one.
TooLate(t) == {f \in rows[t] : ~ Old(t, f, rolledAt) /\ BucketOf(t, f) < mnow - Window[t]}

\* Mutant of Rollup: it looks back one day, so a night missed is not made up for.
RollupOneDay(t) ==
    LET c == Coarser[t]
    IN  /\ pc = RollStage[t]
        /\ rows' = [rows EXCEPT ![c] = @ \cup
                      {f \in rows[t] : /\ BucketOf(t, f) >= mnow - Width["24h"]
                                       /\ ~ HasRow(c, f)}]
        /\ pc' = NextStage[pc]
        /\ rolledAt' = IF t = "5m" THEN rolledAt ELSE mnow
        /\ skipped' = [skipped EXCEPT ![t] = @ \cup TooLate(t)]
        /\ UNCHANGED <<now, seeded, service, mnow, counters>>

\* Mutant of Rollup: ON CONFLICT DO UPDATE.
RollupReplacing(t) ==
    LET c   == Coarser[t]
        new == {f \in rows[t] : BucketOf(t, f) >= mnow - Window[t]}
    IN  /\ pc = RollStage[t]
        /\ rows' = [rows EXCEPT ![c] = new \cup
                      {f \in @ : \A g \in new : BucketOf(c, f) # BucketOf(c, g)}]
        /\ pc' = NextStage[pc]
        /\ rolledAt' = IF t = "5m" THEN rolledAt ELSE mnow
        /\ skipped' = [skipped EXCEPT ![t] = @ \cup TooLate(t)]
        /\ UNCHANGED <<now, seeded, service, mnow, counters>>

\* ON CONFLICT DO NOTHING: only a bucket without a row gets one, from the finer
\* rows since the window began.
Rollup(t) ==
    LET c == Coarser[t]
    IN  /\ pc = RollStage[t]
        /\ rows' = [rows EXCEPT ![c] = @ \cup
                      {f \in rows[t] : /\ BucketOf(t, f) >= mnow - Window[t]
                                       /\ ~ HasRow(c, f)}]
        /\ pc' = NextStage[pc]
        /\ rolledAt' = IF t = "5m" THEN rolledAt ELSE mnow
        /\ skipped' = [skipped EXCEPT ![t] = @ \cup TooLate(t)]
        /\ UNCHANGED <<now, seeded, service, mnow, counters>>

\* The price tables have no rowid, so the delete in chunks always falls back to
\* a single one.
Prune(t) ==
    /\ pc = PruneStage[t]
    /\ rows' = [rows EXCEPT ![t] =
                  {f \in @ : Keep[t] > 0 => BucketOf(t, f) >= mnow - Keep[t]}]
    /\ pc' = NextStage[pc]
    /\ UNCHANGED <<now, seeded, service, mnow, rolledAt, skipped, counters>>

MaintenanceFails ==
    /\ pc # "idle"
    /\ outages < MaxOutages
    /\ outages' = outages + 1
    /\ pc' = "idle"
    /\ UNCHANGED <<now, rows, seeded, service, mnow, rolledAt, skipped, missed>>

-------------------------------------------------------------------------------
(***************************************************************************)
(* The environment                                                         *)
(***************************************************************************)

\* runJob reads the pause once, as it starts a job; one in progress goes on.
Pause ==
    /\ service = "up"
    /\ outages < MaxOutages
    /\ outages' = outages + 1
    /\ service' = "paused"
    /\ UNCHANGED <<now, rows, seeded, maintenance, missed>>

Stop ==
    /\ service # "down"
    /\ outages < MaxOutages
    /\ outages' = outages + 1
    /\ service' = "down"
    /\ pc' = "idle"
    /\ UNCHANGED <<now, rows, seeded, mnow, rolledAt, skipped, missed>>

\* The disk has room again, or the service starts.
Resume ==
    /\ service # "up"
    /\ service' = "up"
    /\ UNCHANGED <<now, rows, seeded, maintenance, counters>>

\* Tiers whose served bucket is about to be replaced by the next one and was
\* never stored.
Slipping ==
    {t \in Tier : /\ (now + 1) % Width[t] = 0
                  /\ ~ Whole(t, Served(t)) \subseteq rows[t]}

Tick ==
    /\ now < MaxTime
    /\ now' = now + 1
    /\ missed' = IF service = "up" THEN missed + Cardinality(Slipping) ELSE missed
    /\ missed' =< MaxMissed
    /\ UNCHANGED <<rows, seeded, service, maintenance, outages>>

Next ==
    \/ \E t \in Tier : BucketPoll(t) \/ Backfill(t) \/ BackfillFails(t)
    \/ BeginMaintenance
    \/ \E t \in RolledUp : Rollup(t)
    \/ \E t \in Tier : Prune(t)
    \/ MaintenanceFails
    \/ Pause
    \/ Stop
    \/ Resume
    \/ Tick

Spec == Init /\ [][Next]_vars

-------------------------------------------------------------------------------
(***************************************************************************)
(* Properties                                                              *)
(***************************************************************************)

\* A row counts trades that happened, of five-minute buckets that have closed.
TypeOK ==
    /\ now \in Nat
    /\ rows \in [Tier -> SUBSET {f \in Traded : f + Width["5m"] =< now}]
    /\ seeded \subseteq Backfilled
    /\ service \in {"up", "paused", "down"}
    /\ pc \in Stage \cup {"idle"}
    /\ mnow \in -1 .. now
    /\ pc # "idle" => mnow >= 0
    /\ rolledAt \in 0 .. now
    /\ skipped \in [RolledUp -> SUBSET Traded]
    /\ missed \in Nat
    /\ outages \in Nat

\* A row of a bucket old enough to have been stored before the last rollup
\* began has a row of the coarser tier over it: "if a /1h poll is missed
\* (restart, upstream blip), the next nightly rollup reconstructs the bucket"
\* (write.go:233).  That is so of all rows but those a rollup comes too late
\* for, after a night without one: a window of two days is not longer than two
\* nights, and does not make up for the minutes before the last rollup.
GapsFilled ==
    \A t \in RolledUp : \A f \in rows[t] \ skipped[t] :
        Old(t, f, rolledAt) => HasRow(Coarser[t], f)

\* The tiers hold nothing that is not over, and a gap in one is filled from the
\* finer one.
TiersSound == TypeOK /\ GapsFilled

\* "nothing is deleted before the coarser tier has had its chance to absorb it"
\* (ingest.go:452): a row that goes has a row of the coarser tier over it, or
\* its chance was a rollup that came too late for it.
AbsorbedBeforePrune ==
    [][\A t \in RolledUp : \A f \in (rows[t] \ rows'[t]) \ skipped[t] :
          HasRow(Coarser[t], f)]_vars

\* What a row counts it goes on counting, until it is deleted: a rollup from
\* finer rows of which some are gone must not replace what a poll stored.
RowsOnlyGrow ==
    [][\A t \in Tier : \A f \in rows[t] \ rows'[t] :
          \A g \in RowOf(t, f) : g \notin rows'[t]]_vars

(***************************************************************************)
(* What these ask of the configuration.  Outages may be of any length.       *)
(***************************************************************************)

\* A tier is kept for two of its buckets at least, and the coarser one longer,
\* by what a bucket of it may begin earlier: thirty days, two years, for ever.
KeepsReach ==
    \A t \in RolledUp :
        /\ Keep[t] > 0 => 2 * Width[t] =< Keep[t] + 1
        /\ Keep[Coarser[t]] > 0 =>
              Keep[t] > 0 /\ Keep[t] + Width[Coarser[t]] - Width[t] =< Keep[Coarser[t]]

\* Only the last tier is seeded: a backfilled row of another would have nothing
\* over it until the next rollup.
SeedsTheCoarsest == Backfilled \subseteq {"24h"}
===============================================================================
