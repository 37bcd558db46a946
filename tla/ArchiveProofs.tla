----------------------------- MODULE ArchiveProofs -----------------------------
(***************************************************************************)
(* What the price archive keeps, for every width of the tiers, any trades,  *)
(* polls, backfills and outages: the tiers hold what has happened, a gap in  *)
(* one is filled from the finer one, and nothing is deleted before, but for  *)
(* what a rollup after a night without one comes too late for.               *)
(***************************************************************************)
EXTENDS Archive, FiniteSetTheorems, TLAPS

(***************************************************************************)
(* Buckets                                                                 *)
(***************************************************************************)

\* Products with a width keep their order.
LEMMA Multiples ==
    ASSUME NEW a \in Int, NEW b \in Int, NEW w \in Nat \ {0}
    PROVE  /\ a * w \in Int
           /\ a * w < b * w => a * w + w =< b * w
<1>1. a * w \in Int /\ b * w \in Int /\ (a + 1) * w = a * w + w
  OBVIOUS
<1>2. ASSUME a * w < b * w PROVE a < b
  <2>1. CASE b =< a
    <3>1. a - b \in Nat /\ (a - b) * w \in Nat
      BY <2>1
    <3>2. a * w = b * w + (a - b) * w
      OBVIOUS
    <3> QED
      BY <1>1, <1>2, <3>1, <3>2
  <2> QED
    BY <2>1
<1>3. ASSUME a < b PROVE (a + 1) * w =< b * w
  <2>1. b - (a + 1) \in Nat /\ (b - (a + 1)) * w \in Nat
    BY <1>3
  <2>2. b * w = (a + 1) * w + (b - (a + 1)) * w
    OBVIOUS
  <2> QED
    BY <2>1, <2>2
<1> QED
  BY <1>1, <1>2, <1>3

LEMMA Divides ==
    ASSUME NEW a \in Nat, NEW b \in Nat \ {0}, a % b = 0
    PROVE  a = (a \div b) * b /\ a \div b \in Int
<1>1. PICK q \in Int : q = a \div b
  OBVIOUS
<1>2. a = q * b + (a % b)
  BY <1>1
<1> QED
  BY <1>1, <1>2

\* A bucket begins at or before what is in it, and ends after.
LEMMA BucketSpan ==
    ASSUME NEW t \in Tier, NEW f \in Int
    PROVE  /\ BucketOf(t, f) \in Int
           /\ BucketOf(t, f) =< f
           /\ f < BucketOf(t, f) + Width[t]
<1>1. Width[t] \in Nat \ {0}
  BY ConstantsAssumption
<1>2. PICK q \in Int : q = f \div Width[t]
  BY <1>1
<1>3. q * Width[t] =< f /\ f < q * Width[t] + Width[t]
  BY <1>1, <1>2
<1> QED
  BY <1>1, <1>2, <1>3 DEF BucketOf

\* A bucket of the coarser tier is made of whole buckets of the finer one.
LEMMA BucketNests ==
    ASSUME NEW t \in RolledUp, NEW f \in Int
    PROVE  /\ BucketOf(Coarser[t], f) =< BucketOf(t, f)
           /\ BucketOf(t, f) + Width[t] =< BucketOf(Coarser[t], f) + Width[Coarser[t]]
<1> DEFINE c == Coarser[t]
<1>1. /\ c \in Tier /\ t \in Tier
      /\ Width[t] \in Nat \ {0} /\ Width[c] \in Nat \ {0}
      /\ Width[c] % Width[t] = 0
  BY ConstantsAssumption DEF Coarser, Tier, RolledUp
<1>2. PICK k \in Int : Width[c] = k * Width[t]
  BY <1>1, Divides
<1>3. PICK q \in Int : BucketOf(t, f) = q * Width[t]
  BY <1>1 DEF BucketOf
<1>4. PICK r \in Int : BucketOf(c, f) = r * Width[c]
  BY <1>1 DEF BucketOf
<1>5. BucketOf(c, f) = (r * k) * Width[t] /\ BucketOf(c, f) + Width[c] = ((r + 1) * k) * Width[t]
  BY <1>1, <1>2, <1>4
<1>6. /\ BucketOf(t, f) =< f /\ f < BucketOf(t, f) + Width[t]
      /\ BucketOf(c, f) =< f /\ f < BucketOf(c, f) + Width[c]
  BY <1>1, BucketSpan
<1>7. q \in Int /\ r * k \in Int /\ (r + 1) * k \in Int
  OBVIOUS
<1>8. BucketOf(c, f) =< BucketOf(t, f)
  <2>1. ~ (q * Width[t] < (r * k) * Width[t])
    <3>1. q * Width[t] < (r * k) * Width[t] => q * Width[t] + Width[t] =< (r * k) * Width[t]
      BY <1>1, <1>7, Multiples
    <3> QED
      BY <1>1, <1>3, <1>5, <1>6, <1>7, <3>1
  <2> QED
    BY <1>1, <1>3, <1>5, <1>6, <1>7, <2>1, Multiples
<1>9. BucketOf(t, f) + Width[t] =< BucketOf(c, f) + Width[c]
  <2>1. q * Width[t] < ((r + 1) * k) * Width[t]
    BY <1>3, <1>5, <1>6, <1>1, <1>7, Multiples
  <2>2. q * Width[t] + Width[t] =< ((r + 1) * k) * Width[t]
    BY <1>1, <1>7, <2>1, Multiples
  <2> QED
    BY <1>3, <1>5, <2>2
<1> QED
  BY <1>8, <1>9

\* The tiers, and which is over which.
LEMMA Tiers ==
    /\ Tier = {"5m", "1h", "24h"} /\ RolledUp = {"5m", "1h"} /\ RolledUp \subseteq Tier
    /\ Coarser["5m"] = "1h" /\ Coarser["1h"] = "24h"
    /\ \A t \in RolledUp : Coarser[t] \in Tier /\ Coarser[t] # t /\ Coarser[t] # "5m"
BY DEF Tier, RolledUp, Coarser

LEMMA TiersFinite == IsFiniteSet(Tier)
<1>1. IsFiniteSet({})
  BY FS_EmptySet
<1>2. IsFiniteSet((({} \cup {"5m"}) \cup {"1h"}) \cup {"24h"})
  BY <1>1, FS_AddElement
<1> QED
  BY <1>2, Tiers

LEMMA Widths ==
    /\ \A t \in Tier : Width[t] \in Nat /\ Width[t] > 0
    /\ \A t \in RolledUp : Width[t] =< Width[Coarser[t]]
<1>1. \A t \in Tier : Width[t] \in Nat /\ Width[t] > 0
  BY ConstantsAssumption
<1>2. ASSUME NEW t \in RolledUp PROVE Width[t] =< Width[Coarser[t]]
  <2>1. /\ BucketOf(Coarser[t], 0) =< 0
        /\ 0 \in Int /\ BucketOf(t, 0) =< 0
        /\ BucketOf(t, 0) + Width[t] =< BucketOf(Coarser[t], 0) + Width[Coarser[t]]
        /\ BucketOf(t, 0) \in Int /\ BucketOf(Coarser[t], 0) \in Int
        /\ BucketOf(Coarser[t], 0) =< BucketOf(t, 0)
    BY Tiers, BucketSpan, BucketNests
  <2> QED
    BY <1>1, <2>1, Tiers
<1> QED
  BY <1>1, <1>2

\* A bucket that upstream serves is over, and with it all that traded in it.
LEMMA Closed ==
    ASSUME now \in Nat, NEW t \in Tier, NEW f \in Traded, BucketOf(t, f) =< Served(t)
    PROVE  f + Width["5m"] =< now
<1>1. f \in Nat /\ f % Width["5m"] = 0 /\ Width["5m"] \in Nat \ {0}
  BY ConstantsAssumption, Tiers
<1>2. BucketOf("5m", f) = f
  BY <1>1, Divides DEF BucketOf
<1>3. BucketOf("5m", f) + Width["5m"] =< BucketOf(t, f) + Width[t]
  <2>1. /\ BucketOf("5m", f) + Width["5m"] =< BucketOf("1h", f) + Width["1h"]
        /\ BucketOf("1h", f) + Width["1h"] =< BucketOf("24h", f) + Width["24h"]
    BY <1>1, Tiers, BucketNests
  <2>2. \A s \in Tier : BucketOf(s, f) \in Int
    BY <1>1, BucketSpan
  <2> QED
    BY <2>1, <2>2, Tiers, Widths
<1>4. BucketOf(t, f) + Width[t] =< BucketOf(t, now) /\ BucketOf(t, now) =< now
  BY <1>1, BucketSpan, Widths DEF Served
<1> QED
  BY <1>1, <1>2, <1>3, <1>4, BucketSpan, Widths

-------------------------------------------------------------------------------
(***************************************************************************)
(* Types, and how the tiers grow                                           *)
(***************************************************************************)

Trades(n) == {f \in Traded : f + Width["5m"] =< n}

\* Nothing but a prune takes anything from a tier.
LEMMA PollAdds ==
    ASSUME TypeOK, NEW t \in Tier, BucketPoll(t)
    PROVE  rows' = [rows EXCEPT ![t] = @ \cup Whole(t, Served(t))]
<1>1. rows[t] \subseteq Traded
  BY DEF TypeOK
<1>2. {f \in rows[t] : BucketOf(t, f) # Served(t)} \cup Whole(t, Served(t))
        = rows[t] \cup Whole(t, Served(t))
  BY <1>1 DEF Whole
<1> QED
  BY <1>2 DEF BucketPoll

LEMMA RowsTyped ==
    ASSUME TypeOK, [Next]_vars
    PROVE  now' \in Nat /\ rows' \in [Tier -> SUBSET Trades(now')]
<1>0. now \in Nat /\ rows \in [Tier -> SUBSET Trades(now)]
  BY DEF TypeOK, Trades
<1>1. ASSUME NEW t \in Tier, BucketPoll(t) PROVE now' = now /\ rows' \in [Tier -> SUBSET Trades(now)]
  <2>1. \A f \in Whole(t, Served(t)) : f \in Traded /\ BucketOf(t, f) = Served(t)
    BY DEF Whole
  <2>2. Served(t) \in Int
    BY <1>0, BucketSpan, Widths DEF Served
  <2>3. Whole(t, Served(t)) \subseteq Trades(now)
    BY <1>0, <2>1, <2>2, Closed DEF Trades
  <2> QED
    BY <1>0, <1>1, <2>3, PollAdds DEF BucketPoll
<1>2. ASSUME NEW t \in Tier, Backfill(t) PROVE now' = now /\ rows' \in [Tier -> SUBSET Trades(now)]
  <2>1. \A f \in Traded : BucketOf(t, f) =< Served(t) => f \in Trades(now)
    BY <1>0, Closed DEF Trades
  <2> QED
    BY <1>0, <1>2, <2>1 DEF Backfill
<1>3. ASSUME NEW t \in RolledUp, Rollup(t) PROVE now' = now /\ rows' \in [Tier -> SUBSET Trades(now)]
  BY <1>0, <1>3, Tiers DEF Rollup
<1>4. ASSUME NEW t \in Tier, Prune(t) PROVE now' = now /\ rows' \in [Tier -> SUBSET Trades(now)]
  BY <1>0, <1>4 DEF Prune
<1>5. CASE Tick
  <2>1. now' = now + 1 /\ rows' = rows
    BY <1>5 DEF Tick
  <2>2. now' \in Nat
    BY <1>0, <2>1
  <2>3. \A f \in Trades(now) : f \in Trades(now')
    BY <1>0, <2>1, ConstantsAssumption, Widths, Tiers DEF Trades
  <2> QED
    BY <1>0, <2>1, <2>2, <2>3
<1>6. ASSUME \/ \E t \in Tier : BackfillFails(t)
             \/ BeginMaintenance \/ MaintenanceFails \/ Pause \/ Stop \/ Resume
             \/ UNCHANGED vars
      PROVE  now' = now /\ rows' = rows
  BY <1>6 DEF BackfillFails, BeginMaintenance, MaintenanceFails, Pause, Stop, Resume, vars
<1> QED
  BY <1>0, <1>1, <1>2, <1>3, <1>4, <1>5, <1>6 DEF Next

TimesTyped ==
    /\ now \in Nat
    /\ mnow \in -1 .. now
    /\ pc # "idle" => mnow >= 0
    /\ rolledAt \in 0 .. now

\* How a step moves the times of maintenance.
LEMMA TimesStep ==
    ASSUME TimesTyped, [Next]_vars
    PROVE  TimesTyped'
<1>1. ASSUME UNCHANGED <<now, mnow, rolledAt>>, pc' = pc \/ pc' = "idle" \/ pc # "idle"
      PROVE  TimesTyped'
  BY <1>1 DEF TimesTyped
<1>2. CASE BeginMaintenance
  <2>1. now' = now /\ mnow' = now /\ rolledAt' = rolledAt
    BY <1>2 DEF BeginMaintenance
  <2> QED
    BY <2>1 DEF TimesTyped
<1>3. ASSUME NEW t \in RolledUp, Rollup(t) PROVE TimesTyped'
  <2>1. pc # "idle"
    BY <1>3 DEF Rollup, RollStage, RolledUp
  <2>2. now' = now /\ mnow' = mnow /\ rolledAt' \in {rolledAt, mnow}
    BY <1>3 DEF Rollup
  <2> QED
    BY <2>1, <2>2 DEF TimesTyped
<1>4. CASE Tick
  <2>1. now' = now + 1 /\ mnow' = mnow /\ rolledAt' = rolledAt /\ pc' = pc
    BY <1>4 DEF Tick, maintenance
  <2> QED
    BY <2>1 DEF TimesTyped
<1>5. ASSUME NEW t \in Tier, Prune(t) PROVE TimesTyped'
  BY <1>1, <1>5 DEF Prune, PruneStage, Tier
<1>6. ASSUME \/ \E t \in Tier : BucketPoll(t) \/ Backfill(t) \/ BackfillFails(t)
             \/ MaintenanceFails \/ Pause \/ Stop \/ Resume \/ UNCHANGED vars
      PROVE  TimesTyped'
  BY <1>1, <1>6 DEF BucketPoll, Backfill, BackfillFails, MaintenanceFails, Pause, Stop, Resume,
                    maintenance, vars
<1> QED
  BY <1>2, <1>3, <1>4, <1>5, <1>6 DEF Next

\* Type correctness of the archive (Archive.tla): the tiers count trades that
\* happened, of buckets that are over, and maintenance uses a time that has been.
THEOREM TypeCorrect == Spec => []TypeOK
<1>1. Init => TypeOK
  BY ConstantsAssumption DEF Init, TypeOK
<1>2. TypeOK /\ [Next]_vars => TypeOK'
  <2> SUFFICES ASSUME TypeOK, [Next]_vars PROVE TypeOK'
    OBVIOUS
  <2>0. now' \in Nat /\ rows' \in [Tier -> SUBSET {f \in Traded : f + Width["5m"] =< now'}]
    BY RowsTyped DEF Trades
  <2>1. \A s \in Stage : NextStage[s] \in Stage \cup {"idle"}
    BY DEF Stage, NextStage
  <2>2. ASSUME NEW t \in RolledUp, Rollup(t) PROVE pc = RollStage[t] /\ pc \in Stage /\ pc # "idle"
    BY <2>2 DEF Rollup, RollStage, RolledUp, Stage
  <2>3. ASSUME NEW t \in Tier, Prune(t) PROVE pc = PruneStage[t] /\ pc \in Stage /\ pc # "idle"
    BY <2>3 DEF Prune, PruneStage, Tier, Stage
  <2>4. /\ seeded' \subseteq Backfilled
        /\ service' \in {"up", "paused", "down"}
        /\ pc' \in Stage \cup {"idle"}
    <3>1. /\ seeded \subseteq Backfilled
          /\ service \in {"up", "paused", "down"}
          /\ pc \in Stage \cup {"idle"}
      BY DEF TypeOK
    <3> QED
      BY <2>1, <2>2, <2>3, <3>1
         DEF Next, BucketPoll, Backfill, BackfillFails, BeginMaintenance, Rollup, Prune, MaintenanceFails,
             Pause, Stop, Resume, Tick, maintenance, counters, vars, Stage
  <2>5. TimesTyped'
    BY TimesStep DEF TypeOK, TimesTyped
  <2>6. missed' \in Nat /\ outages' \in Nat
    <3>1. missed \in Nat /\ outages \in Nat
      BY DEF TypeOK
    <3>2. Cardinality(Slipping) \in Nat
      BY TiersFinite, FS_Subset, FS_CardinalityType DEF Slipping
    <3>3. missed' \in {missed, missed + Cardinality(Slipping)} /\ outages' \in {outages, outages + 1}
      BY DEF Next, BucketPoll, Backfill, BackfillFails, BeginMaintenance, Rollup, Prune, MaintenanceFails,
             Pause, Stop, Resume, Tick, maintenance, counters, vars
    <3> QED
      BY <3>1, <3>2, <3>3
  <2>7. skipped' \in [RolledUp -> SUBSET Traded]
    <3>1. skipped \in [RolledUp -> SUBSET Traded] /\ \A t \in RolledUp : rows[t] \subseteq Traded
      BY Tiers DEF TypeOK
    <3>2. ASSUME NEW t \in RolledUp, Rollup(t) PROVE skipped' \in [RolledUp -> SUBSET Traded]
      BY <3>1, <3>2 DEF Rollup, TooLate
    <3>3. \/ \E t \in RolledUp : Rollup(t)
          \/ skipped' = skipped
      BY DEF Next, BucketPoll, Backfill, BackfillFails, BeginMaintenance, Prune, MaintenanceFails,
             Pause, Stop, Resume, Tick, maintenance, vars
    <3> QED
      BY <3>1, <3>2, <3>3
  <2> QED
    BY <2>0, <2>4, <2>5, <2>6, <2>7 DEF TypeOK, TimesTyped
<1> QED
  BY <1>1, <1>2, PTL DEF Spec

-------------------------------------------------------------------------------
(***************************************************************************)
(* Gaps.  What is old enough at a given time has a row over it; a rollup    *)
(* makes this so for the time it has read, if it was so for the last one, of *)
(* all but what it comes too late for.                                       *)
(***************************************************************************)

Covered(t, n) == \A f \in rows[t] \ skipped[t] : Old(t, f, n) => HasRow(Coarser[t], f)

\* A tier that has been pruned: what is left is within its retention, or new.
Kept(t) ==
    Keep[t] > 0 => \A f \in rows[t] : BucketOf(t, f) >= mnow - Keep[t] \/ ~ Old(t, f, mnow)

\* What a rollup came too late for begins before the window of any other.
SkippedOld == \A t \in RolledUp : \A f \in skipped[t] : BucketOf(t, f) < mnow - Window[t]

\* What maintenance has done at each of its stages.
Progress ==
    /\ SkippedOld
    /\ pc # "idle" => rolledAt =< mnow
    /\ pc = "roll 1h" => Covered("5m", mnow)
    /\ pc \in {"prune 5m", "prune 1h", "prune 24h"} => rolledAt = mnow
    /\ pc \in {"prune 1h", "prune 24h"} => Kept("5m")
    /\ pc = "prune 24h" => Kept("1h")

Deployed == KeepsReach /\ SeedsTheCoarsest

GapInv == TypeOK /\ GapsFilled /\ Progress

LEMMA GapsAre == GapsFilled <=> Covered("5m", rolledAt) /\ Covered("1h", rolledAt)
BY Tiers DEF GapsFilled, Covered

LEMMA GapsAreNext == GapsFilled' <=> Covered("5m", rolledAt)' /\ Covered("1h", rolledAt)'
BY Tiers DEF GapsFilled, Covered

LEMMA RowThere ==
    ASSUME NEW t, NEW f
    PROVE  /\ HasRow(t, f) <=> \E g \in rows[t] : BucketOf(t, g) = BucketOf(t, f)
           /\ HasRow(t, f)' <=> \E g \in rows'[t] : BucketOf(t, g) = BucketOf(t, f)
BY DEF HasRow, RowOf, BucketOf

LEMMA Numbers ==
    ASSUME TypeOK
    PROVE  /\ now \in Int /\ mnow \in Int /\ rolledAt \in Int
           /\ mnow =< now /\ rolledAt =< now
           /\ \A t \in Tier : Width[t] \in Int /\ Width[t] > 0 /\ Keep[t] \in Int
           /\ \A t \in RolledUp : Window[t] \in Int
           /\ \A t \in Tier : \A f \in rows[t] : f \in Traded /\ f \in Int /\ BucketOf(t, f) \in Int
<1>1. \A t \in Tier : \A f \in rows[t] : f \in Traded
  BY DEF TypeOK
<1>2. \A f \in Traded : f \in Int
  BY ConstantsAssumption
<1>3. \A t \in Tier : \A f \in rows[t] : BucketOf(t, f) \in Int
  BY <1>1, <1>2, BucketSpan
<1> QED
  BY <1>1, <1>2, <1>3, ConstantsAssumption, Widths DEF TypeOK

\* Tiers that only gain rows too young for time n stay covered at n.
LEMMA CoveredStays ==
    ASSUME NEW t \in RolledUp, NEW n, Covered(t, n), n' = n,
           rows[Coarser[t]] \subseteq rows'[Coarser[t]],
           skipped[t] \subseteq skipped'[t],
           \A f \in rows'[t] \ rows[t] : ~ Old(t, f, n)
    PROVE  Covered(t, n)'
BY RowThere DEF Covered, Old, BucketOf

\* A poll or a backfill: what is new in a tier that is rolled up is too young.
LEMMA GapsGrow ==
    ASSUME GapInv, UNCHANGED <<now, pc, mnow, rolledAt, skipped>>,
           \A t \in Tier : rows[t] \subseteq rows'[t],
           \A t \in RolledUp : \A f \in rows'[t] \ rows[t] : f \in Int /\ ~ Old(t, f, now)
    PROVE  GapsFilled' /\ Progress'
<1>1. ASSUME NEW t \in RolledUp, NEW f \in rows'[t] \ rows[t]
      PROVE  ~ Old(t, f, rolledAt) /\ ~ Old(t, f, mnow)
  BY <1>1, Numbers, BucketSpan, Tiers DEF Old, GapInv
<1>2. Covered("5m", rolledAt)' /\ Covered("1h", rolledAt)'
  BY <1>1, CoveredStays, GapsAre, Tiers DEF GapInv
<1>3. pc' = "roll 1h" => Covered("5m", mnow)'
  BY <1>1, CoveredStays, Tiers DEF GapInv, Progress
<1>4. ASSUME NEW t \in RolledUp, Kept(t) PROVE Kept(t)'
  BY <1>1, <1>4 DEF Kept, Old, BucketOf
<1> QED
  BY <1>2, <1>3, <1>4, GapsAreNext, Tiers DEF GapInv, Progress, SkippedOld, BucketOf

\* Steps that write no rows.
LEMMA GapsRest ==
    ASSUME GapInv, rows' = rows, mnow' = mnow, rolledAt' = rolledAt, skipped' = skipped,
           pc' = pc \/ pc' = "idle"
    PROVE  GapsFilled' /\ Progress'
<1>1. \A t \in RolledUp : rows'[t] \ rows[t] = {} /\ rows[Coarser[t]] \subseteq rows'[Coarser[t]]
  OBVIOUS
<1>2. Covered("5m", rolledAt)' /\ Covered("1h", rolledAt)'
  BY <1>1, CoveredStays, GapsAre, Tiers DEF GapInv
<1>3. pc' = "roll 1h" => Covered("5m", mnow)'
  BY <1>1, CoveredStays, Tiers DEF GapInv, Progress
<1>4. ASSUME NEW t, Kept(t) PROVE Kept(t)'
  BY <1>4 DEF Kept, Old, BucketOf
<1> QED
  BY <1>2, <1>3, <1>4, GapsAreNext DEF GapInv, Progress, SkippedOld, BucketOf

\* The rollup of tier t leaves it covered at the time maintenance has read.
LEMMA RollCovers ==
    ASSUME GapInv, NEW t \in RolledUp, Rollup(t)
    PROVE  Covered(t, mnow)'
<1> DEFINE c == Coarser[t]
<1>1. /\ mnow' = mnow
      /\ rows'[t] = rows[t]
      /\ rows'[c] = rows[c] \cup {f \in rows[t] : BucketOf(t, f) >= mnow - Window[t] /\ ~ HasRow(c, f)}
      /\ skipped'[t] = skipped[t] \cup TooLate(t)
  BY Tiers DEF Rollup, GapInv, TypeOK
<1>2. ASSUME NEW f \in rows[t] \ skipped'[t] PROVE HasRow(c, f)' \/ ~ Old(t, f, mnow)
  <2>1. f \notin skipped[t] /\ f \notin TooLate(t)
    BY <1>1, <1>2
  <2>2. BucketOf(t, f) >= mnow - Window[t] \/ HasRow(c, f)
    <3>1. BucketOf(t, f) \in Int /\ mnow \in Int /\ Window[t] \in Int
      BY Numbers, Tiers DEF GapInv
    <3>2. Old(t, f, rolledAt) => HasRow(c, f)
      BY <2>1 DEF GapInv, GapsFilled
    <3>3. Old(t, f, rolledAt) \/ ~ (BucketOf(t, f) < mnow - Window[t])
      BY <2>1 DEF TooLate
    <3> QED
      BY <3>1, <3>2, <3>3
  <2>3. CASE HasRow(c, f)
    BY <1>1, <2>3, RowThere
  <2>4. CASE ~ HasRow(c, f)
    <3>1. f \in rows'[c]
      BY <1>1, <2>2, <2>4
    <3> QED
      BY <3>1, RowThere
  <2> QED
    BY <2>3, <2>4
<1> QED
  BY <1>1, <1>2 DEF Covered, Old, BucketOf

\* What a rollup came too late for stays before every window.
LEMMA RollSkips ==
    ASSUME GapInv, NEW t \in RolledUp, Rollup(t)
    PROVE  SkippedOld'
<1>1. mnow' = mnow /\ skipped' = [skipped EXCEPT ![t] = @ \cup TooLate(t)]
  BY DEF Rollup
<1>2. \A f \in TooLate(t) : BucketOf(t, f) < mnow - Window[t]
  BY DEF TooLate
<1>3. skipped \in [RolledUp -> SUBSET Traded]
  BY DEF GapInv, TypeOK
<1> QED
  BY <1>1, <1>2, <1>3 DEF GapInv, Progress, SkippedOld, BucketOf

\* What the first rollup adds is too young for the second one to have missed.
LEMMA RollsYoung ==
    ASSUME GapInv, NEW f \in rows["5m"], ~ HasRow("1h", f),
           BucketOf("5m", f) >= mnow - Window["5m"]
    PROVE  ~ Old("1h", f, rolledAt)
<1>0. f \notin skipped["5m"]
  <2>1. "5m" \in RolledUp /\ "5m" \in Tier
    BY Tiers
  <2>2. f \in skipped["5m"] => BucketOf("5m", f) < mnow - Window["5m"]
    BY <2>1 DEF GapInv, Progress, SkippedOld
  <2>3. BucketOf("5m", f) \in Int /\ mnow \in Int /\ Window["5m"] \in Int
    BY <2>1, Numbers DEF GapInv
  <2> QED
    BY <2>2, <2>3
<1>1. ~ Old("5m", f, rolledAt)
  BY <1>0, Tiers DEF GapInv, GapsFilled
<1>2. /\ BucketOf("5m", f) + Width["5m"] =< BucketOf("1h", f) + Width["1h"]
      /\ Width["5m"] =< Width["1h"]
      /\ f \in Int /\ BucketOf("1h", f) \in Int /\ BucketOf("5m", f) \in Int
  BY Tiers, BucketNests, BucketSpan, Widths, Numbers DEF GapInv
<1> QED
  BY <1>1, <1>2, Tiers, Numbers DEF Old, GapInv

LEMMA GapsRoll ==
    ASSUME GapInv, NEW t \in RolledUp, Rollup(t)
    PROVE  GapsFilled' /\ Progress'
<1> USE DEF GapInv
<1>0. SkippedOld' /\ \A s \in RolledUp : skipped[s] \subseteq skipped'[s]
  BY RollSkips DEF Rollup, TypeOK
<1>1. Covered(t, mnow)'
  BY RollCovers
<1>2. now' = now /\ mnow' = mnow
  BY DEF Rollup
<1>3. CASE t = "5m"
  <2>1. /\ pc = "roll 5m" /\ pc' = "roll 1h" /\ rolledAt' = rolledAt
        /\ rows'["5m"] = rows["5m"] /\ rows'["24h"] = rows["24h"]
        /\ rows["1h"] \subseteq rows'["1h"]
        /\ \A f \in rows'["1h"] \ rows["1h"] : f \in rows["5m"] /\ ~ HasRow("1h", f)
                                               /\ BucketOf("5m", f) >= mnow - Window["5m"]
    BY <1>3, Tiers DEF Rollup, RollStage, NextStage, Stage, TypeOK
  <2>2. Covered("5m", rolledAt)'
    BY <1>0, <2>1, CoveredStays, GapsAre, Tiers
  <2>3. Covered("1h", rolledAt)'
    BY <1>0, <2>1, CoveredStays, GapsAre, RollsYoung, Tiers
  <2> QED
    BY <1>0, <1>1, <1>2, <1>3, <2>1, <2>2, <2>3, GapsAreNext DEF Progress
<1>4. CASE t = "1h"
  <2>1. /\ pc = "roll 1h" /\ pc' = "prune 5m" /\ rolledAt' = mnow
        /\ rows'["5m"] = rows["5m"] /\ rows'["1h"] = rows["1h"]
    BY <1>4, Tiers DEF Rollup, RollStage, NextStage, Stage, TypeOK
  <2>2. Covered("5m", mnow)'
    <3>1. Covered("5m", mnow)
      BY <2>1 DEF Progress
    <3> QED
      BY <1>0, <1>2, <2>1, <3>1, CoveredStays, Tiers
  <2>3. rolledAt' = mnow' /\ mnow' \in Int
    BY <1>2, <2>1, Numbers
  <2>4. Covered("5m", rolledAt)' /\ Covered("1h", rolledAt)'
    BY <1>1, <1>4, <2>2, <2>3 DEF Covered
  <2>5. rolledAt' =< mnow'
    BY <2>3
  <2>6. Progress'
    BY <1>0, <2>1, <2>3, <2>5 DEF Progress
  <2> QED
    BY <2>4, <2>6, GapsAreNext
<1> QED
  BY <1>3, <1>4, Tiers

\* A prune of tier t is of what is past its retention, and of whole rows.
LEMMA PruneIs ==
    ASSUME TypeOK, NEW t \in Tier, Prune(t)
    PROVE  /\ UNCHANGED <<now, mnow, rolledAt, skipped>>
           /\ pc = PruneStage[t]
           /\ \A s \in Tier \ {t} : rows'[s] = rows[s]
           /\ rows'[t] \subseteq rows[t]
           /\ \A f \in rows[t] : f \notin rows'[t] <=> Keep[t] > 0 /\ ~ (BucketOf(t, f) >= mnow - Keep[t])
BY DEF Prune, TypeOK

\* A row over a finer one that is left stays, when the finer tier has been
\* pruned and is kept for less.
LEMMA PruneLeavesCover ==
    ASSUME Deployed, GapInv, NEW t \in RolledUp, Prune(Coarser[t]), Kept(t), rolledAt = mnow,
           Covered(t, rolledAt)
    PROVE  Covered(t, rolledAt)'
<1> DEFINE c == Coarser[t]
<1> USE DEF GapInv
<1>1. /\ UNCHANGED <<mnow, rolledAt, skipped>> /\ rows'[t] = rows[t]
      /\ \A f \in rows[c] : f \notin rows'[c] => Keep[c] > 0 /\ ~ (BucketOf(c, f) >= mnow - Keep[c])
  BY PruneIs, Tiers
<1>2. ASSUME NEW f \in rows[t] \ skipped[t], Old(t, f, rolledAt) PROVE HasRow(c, f)'
  <2>1. PICK g \in rows[c] : BucketOf(c, g) = BucketOf(c, f)
    BY <1>2, RowThere DEF Covered
  <2>2. CASE Keep[c] > 0
    <3>1. Keep[t] > 0 /\ Keep[t] + Width[c] - Width[t] =< Keep[c]
      BY <2>2 DEF Deployed, KeepsReach
    <3>2. BucketOf(t, f) >= mnow - Keep[t]
      BY <1>2, <3>1 DEF Kept
    <3>3. BucketOf(t, f) + Width[t] =< BucketOf(c, f) + Width[c] /\ BucketOf(c, f) \in Int
      BY BucketNests, BucketSpan, Numbers, Tiers
    <3>4. BucketOf(c, f) >= mnow - Keep[c]
      BY <3>1, <3>2, <3>3, Numbers, Tiers
    <3>5. g \in rows'[c]
      BY <1>1, <2>1, <3>4
    <3> QED
      BY <2>1, <3>5, RowThere
  <2>3. CASE ~ (Keep[c] > 0)
    <3>1. g \in rows'[c]
      BY <1>1, <2>3
    <3> QED
      BY <2>1, <3>1, RowThere
  <2> QED
    BY <2>2, <2>3
<1> QED
  BY <1>1, <1>2 DEF Covered, Old, BucketOf

LEMMA GapsPrune ==
    ASSUME Deployed, GapInv, NEW s \in Tier, Prune(s)
    PROVE  GapsFilled' /\ Progress'
<1> USE DEF GapInv
<1>1. /\ UNCHANGED <<now, mnow, rolledAt, skipped>> /\ pc = PruneStage[s]
      /\ \A t \in Tier \ {s} : rows'[t] = rows[t]
      /\ rows'[s] \subseteq rows[s]
  BY PruneIs
<1>2. pc \in {"prune 5m", "prune 1h", "prune 24h"} /\ rolledAt = mnow
  BY <1>1, Tiers DEF PruneStage, Progress
<1>3. Covered("5m", rolledAt) /\ Covered("1h", rolledAt)
  BY GapsAre
<1>4. ASSUME NEW t \in Tier \ {s}, Kept(t) PROVE Kept(t)'
  BY <1>1, <1>4 DEF Kept, Old, BucketOf
<1>0. SkippedOld'
  BY <1>1 DEF Progress, SkippedOld, BucketOf
<1>5. Kept(s)'
  BY <1>1, PruneIs DEF Kept, Old, BucketOf
<1>6. CASE s = "5m"
  <2>1. pc' = "prune 1h"
    BY <1>6, <1>1, Tiers DEF Prune, PruneStage, NextStage, Stage
  <2>2. Covered("5m", rolledAt)' /\ Covered("1h", rolledAt)'
    BY <1>1, <1>3, <1>6, CoveredStays, Tiers
  <2> QED
    BY <1>0, <1>1, <1>2, <1>5, <1>6, <2>1, <2>2, GapsAreNext DEF Progress
<1>7. CASE s = "1h"
  <2>1. pc = "prune 1h" /\ pc' = "prune 24h"
    BY <1>7, <1>1, Tiers DEF Prune, PruneStage, NextStage, Stage
  <2>2. Kept("5m") /\ Kept("5m")'
    BY <1>4, <1>7, <2>1, Tiers DEF Progress
  <2>3. Covered("1h", rolledAt)'
    BY <1>1, <1>3, <1>7, CoveredStays, Tiers
  <2>4. Covered("5m", rolledAt)'
    BY <1>2, <1>3, <1>7, <2>2, PruneLeavesCover, Tiers
  <2> QED
    BY <1>0, <1>1, <1>2, <1>5, <1>7, <2>1, <2>2, <2>3, <2>4, GapsAreNext DEF Progress
<1>8. CASE s = "24h"
  <2>1. pc = "prune 24h" /\ pc' = "idle"
    BY <1>8, <1>1, Tiers DEF Prune, PruneStage, NextStage, Stage
  <2>2. Covered("5m", rolledAt)'
    BY <1>1, <1>3, <1>8, CoveredStays, Tiers
  <2>3. Kept("1h")
    BY <2>1 DEF Progress
  <2>4. Covered("1h", rolledAt)'
    BY <1>2, <1>3, <1>8, <2>3, PruneLeavesCover, Tiers
  <2> QED
    BY <1>0, <1>1, <1>2, <2>1, <2>2, <2>4, GapsAreNext DEF Progress
<1> QED
  BY <1>6, <1>7, <1>8, Tiers

\* A poll stores the bucket that has just closed, and the backfill is of the
\* last tier: neither adds anything old to a tier that is rolled up.
LEMMA GapsWritten ==
    ASSUME Deployed, GapInv, NEW s \in Tier, BucketPoll(s) \/ Backfill(s)
    PROVE  GapsFilled' /\ Progress'
<1> USE DEF GapInv
<1>1. CASE BucketPoll(s)
  <2>1. rows' = [rows EXCEPT ![s] = @ \cup Whole(s, Served(s))]
    BY <1>1, PollAdds
  <2>2. UNCHANGED <<now, pc, mnow, rolledAt, skipped>>
    BY <1>1 DEF BucketPoll, maintenance
  <2>3. \A t \in Tier : rows[t] \subseteq rows'[t]
    BY <2>1 DEF TypeOK
  <2>4. ASSUME NEW t \in RolledUp, NEW f \in rows'[t] \ rows[t]
        PROVE  f \in Int /\ ~ Old(t, f, now)
    <3>1. t = s /\ f \in Traded /\ BucketOf(t, f) = BucketOf(t, now) - Width[t]
      BY <2>1, <2>4, Tiers DEF TypeOK, Whole, Served
    <3>2. /\ now < BucketOf(t, now) + Width[t] /\ BucketOf(t, now) \in Int
          /\ now \in Int /\ Width[t] \in Int /\ f \in Int
      BY <3>1, BucketSpan, Numbers, Tiers, ConstantsAssumption
    <3>3. now < BucketOf(t, f) + 2 * Width[t]
      BY <3>1, <3>2
    <3>4. BucketOf(t, f) + 2 * Width[t] \in Int
      BY <3>1, <3>2
    <3> QED
      BY <3>2, <3>3, <3>4 DEF Old
  <2> QED
    BY <2>2, <2>3, <2>4, GapsGrow
<1>2. CASE Backfill(s)
  <2>1. s = "24h"
    BY <1>2 DEF Backfill, Deployed, SeedsTheCoarsest
  <2>2. UNCHANGED <<now, pc, mnow, rolledAt, skipped>>
    BY <1>2 DEF Backfill, maintenance
  <2>3. \A t \in Tier : rows[t] \subseteq rows'[t]
    BY <1>2 DEF Backfill, TypeOK
  <2>4. \A t \in RolledUp : rows'[t] = rows[t]
    BY <1>2, <2>1, Tiers DEF Backfill, TypeOK
  <2> QED
    BY <2>2, <2>3, <2>4, GapsGrow
<1> QED
  BY <1>1, <1>2

LEMMA GapsBegin ==
    ASSUME GapInv, BeginMaintenance
    PROVE  GapsFilled' /\ Progress'
<1> USE DEF GapInv
<1>1. /\ rows' = rows /\ now' = now /\ rolledAt' = rolledAt
      /\ pc' = "roll 5m" /\ mnow' = now /\ skipped' = skipped
  BY DEF BeginMaintenance
<1>2. \A t \in RolledUp : rows'[t] \ rows[t] = {} /\ rows[Coarser[t]] \subseteq rows'[Coarser[t]]
  BY <1>1
<1>3. Covered("5m", rolledAt)' /\ Covered("1h", rolledAt)'
  BY <1>1, <1>2, CoveredStays, GapsAre, Tiers
<1>4. rolledAt' =< mnow' /\ mnow =< mnow' /\ mnow \in Int /\ mnow' \in Int
  BY <1>1, Numbers
<1>5. SkippedOld'
  <2> SUFFICES ASSUME NEW t \in RolledUp, NEW f \in skipped[t]
               PROVE  BucketOf(t, f) < mnow' - Window[t]
    BY <1>1 DEF SkippedOld, BucketOf
  <2>1. BucketOf(t, f) < mnow - Window[t]
    BY DEF Progress, SkippedOld
  <2>2. BucketOf(t, f) \in Int /\ Window[t] \in Int
    BY ConstantsAssumption, BucketSpan, Tiers DEF TypeOK
  <2> QED
    BY <1>4, <2>1, <2>2
<1> QED
  BY <1>1, <1>3, <1>4, <1>5, GapsAreNext DEF Progress

\* What is left to do of the interplay of the tiers: the clock, and steps that
\* only stop or start something.
LEMMA GapsElse ==
    ASSUME GapInv,
           \/ \E t \in Tier : BackfillFails(t)
           \/ MaintenanceFails \/ Pause \/ Stop \/ Resume \/ Tick \/ UNCHANGED vars
    PROVE  GapsFilled' /\ Progress'
<1>1. /\ rows' = rows /\ mnow' = mnow /\ rolledAt' = rolledAt /\ skipped' = skipped
      /\ pc' = pc \/ pc' = "idle"
  BY DEF BackfillFails, MaintenanceFails, Pause, Stop, Resume, Tick, maintenance, vars
<1> QED
  BY <1>1, GapsRest

LEMMA GapsKept == ASSUME Deployed PROVE Spec => []GapInv
<1>1. Init => GapInv
  BY ConstantsAssumption DEF Init, GapInv, TypeOK, GapsFilled, Progress, SkippedOld, RolledUp, Tier
<1>2. GapInv /\ TypeOK' /\ [Next]_vars => GapInv'
  <2> SUFFICES ASSUME GapInv, [Next]_vars PROVE GapsFilled' /\ Progress'
    BY DEF GapInv
  <2>1. ASSUME NEW t \in Tier, BucketPoll(t) \/ Backfill(t) PROVE GapsFilled' /\ Progress'
    BY <2>1, GapsWritten
  <2>2. ASSUME NEW t \in RolledUp, Rollup(t) PROVE GapsFilled' /\ Progress'
    BY <2>2, GapsRoll
  <2>3. ASSUME NEW t \in Tier, Prune(t) PROVE GapsFilled' /\ Progress'
    BY <2>3, GapsPrune
  <2> QED
    BY <2>1, <2>2, <2>3, GapsBegin, GapsElse DEF Next
<1> QED
  BY <1>1, <1>2, TypeCorrect, PTL DEF Spec

\* A gap in a tier is filled from the finer one (Archive!TiersSound): the
\* promise of write.go:233, for every width and window and outages of any length,
\* but for what the rollup after an outage came too late for.
THEOREM TiersAreSound == ASSUME Deployed PROVE Spec => []TiersSound
<1>1. GapInv => TiersSound
  BY DEF GapInv, TiersSound
<1> QED
  BY <1>1, GapsKept, PTL

-------------------------------------------------------------------------------
(***************************************************************************)
(* What a step may take from a tier                                        *)
(***************************************************************************)

\* Only a prune deletes.
LEMMA OnlyPruned ==
    ASSUME TypeOK, [Next]_vars, NEW t \in Tier, NEW f \in rows[t], f \notin rows'[t]
    PROVE  /\ Prune(t)
           /\ Keep[t] > 0 /\ ~ (BucketOf(t, f) >= mnow - Keep[t])
<1>1. ASSUME NEW s \in Tier, BucketPoll(s) PROVE FALSE
  BY <1>1, PollAdds DEF TypeOK
<1>2. ASSUME NEW s \in Tier, Backfill(s) PROVE FALSE
  BY <1>2 DEF Backfill, TypeOK
<1>3. ASSUME NEW s \in RolledUp, Rollup(s) PROVE FALSE
  BY <1>3, Tiers DEF Rollup, TypeOK
<1>4. ASSUME NEW s \in Tier, Prune(s) PROVE s = t /\ Keep[t] > 0 /\ ~ (BucketOf(t, f) >= mnow - Keep[t])
  BY <1>4, PruneIs
<1>5. ASSUME \/ \E s \in Tier : BackfillFails(s)
             \/ BeginMaintenance \/ MaintenanceFails \/ Pause \/ Stop \/ Resume \/ Tick
             \/ UNCHANGED vars
      PROVE  FALSE
  BY <1>5 DEF BackfillFails, BeginMaintenance, MaintenanceFails, Pause, Stop, Resume, Tick, vars
<1> QED
  BY <1>1, <1>2, <1>3, <1>4, <1>5 DEF Next

\* Nothing is deleted before the coarser tier has absorbed it, or a rollup came
\* too late for it
\* (Archive!AbsorbedBeforePrune, ingest.go:452).
THEOREM PrunedIsAbsorbed == ASSUME Deployed PROVE Spec => AbsorbedBeforePrune
<1> DEFINE Step == \A t \in RolledUp : \A f \in (rows[t] \ rows'[t]) \ skipped[t] :
                     HasRow(Coarser[t], f)
<1>1. ASSUME GapInv, [Next]_vars PROVE Step
  <2> USE DEF GapInv
  <2> SUFFICES ASSUME NEW t \in RolledUp, NEW f \in rows[t], f \notin rows'[t],
                      f \notin skipped[t]
               PROVE  HasRow(Coarser[t], f)
    OBVIOUS
  <2>1. Prune(t) /\ Keep[t] > 0 /\ ~ (BucketOf(t, f) >= mnow - Keep[t])
    BY <1>1, OnlyPruned, Tiers
  <2>2. rolledAt = mnow
    BY <1>1, <2>1, PruneIs, Tiers DEF PruneStage, Progress
  <2>3. 2 * Width[t] =< Keep[t] + 1
    BY <2>1 DEF Deployed, KeepsReach
  <2>4. Old(t, f, rolledAt)
    <3>1. /\ BucketOf(t, f) \in Int /\ mnow \in Int /\ rolledAt \in Int
          /\ Keep[t] \in Int /\ Width[t] \in Int
      BY <1>1, Numbers, Tiers
    <3> QED
      BY <2>1, <2>2, <2>3, <3>1 DEF Old
  <2> QED
    BY <1>1, <2>4 DEF GapsFilled
<1> QED
  BY <1>1, GapsKept, PTL DEF Spec, AbsorbedBeforePrune

\* A row leaves whole (Archive!RowsOnlyGrow): what it counts it goes on
\* counting until it is deleted, and no write replaces it with less.
THEOREM RowsGrow == Spec => RowsOnlyGrow
<1> DEFINE Step == \A t \in Tier : \A f \in rows[t] \ rows'[t] :
                     \A g \in RowOf(t, f) : g \notin rows'[t]
<1>1. ASSUME TypeOK, [Next]_vars PROVE Step
  <2> SUFFICES ASSUME NEW t \in Tier, NEW f \in rows[t], f \notin rows'[t],
                      NEW g \in RowOf(t, f)
               PROVE  g \notin rows'[t]
    OBVIOUS
  <2>1. Prune(t) /\ Keep[t] > 0 /\ ~ (BucketOf(t, f) >= mnow - Keep[t])
    BY <1>1, OnlyPruned
  <2>2. g \in rows[t] /\ BucketOf(t, g) = BucketOf(t, f)
    BY DEF RowOf
  <2> QED
    BY <1>1, <2>1, <2>2, PruneIs
<1> QED
  BY <1>1, TypeCorrect, PTL DEF Spec, RowsOnlyGrow
===============================================================================
