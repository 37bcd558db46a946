----------------------------- MODULE StatusCache -----------------------------
(* The archive statistics of the status pages (store/status.go): a snapshot   *)
(* in memory, measured in the background when it is missing or stale, table   *)
(* by table, and published when all of it has been measured.                  *)
EXTENDS Integers, FiniteSets

CONSTANTS Scan,         \* goroutines that may measure
          Parts,        \* how many tables and tiers there are to measure
          MaxFails      \* bound: scans that fail or run out of time

StatusAssumption == Parts \in Nat \ {0} /\ MaxFails \in Nat

VARIABLES running,      \* statsRunning
          measured,     \* the parts each goroutine has measured; -1: it is over
          snapshot,     \* how many parts the snapshot has, and how old it is
          fails
cache == <<running, measured, snapshot, fails>>

Init ==
    /\ running = FALSE /\ fails = 0
    /\ measured = [s \in Scan |-> -1]
    /\ snapshot = [parts |-> 0, age |-> "never"]

Busy == {s \in Scan : measured[s] >= 0}
Stale == snapshot.age \in {"never", "stale"}

\* ArchiveStats: whoever asks gets what there is, and may have to start `s`.
Ask(s) ==
    /\ Stale /\ ~running /\ s \notin Busy
    /\ running' = TRUE /\ measured' = [measured EXCEPT ![s] = 0]
    /\ UNCHANGED <<snapshot, fails>>

Measure(s) ==
    /\ measured[s] \in 0 .. Parts - 1
    /\ measured' = [measured EXCEPT ![s] = @ + 1]
    /\ UNCHANGED <<running, snapshot, fails>>

\* A query fails, or ten minutes are over: the pass is given up.
GiveUp(s) ==
    /\ measured[s] \in 0 .. Parts - 1 /\ fails < MaxFails
    /\ fails' = fails + 1
    /\ measured' = [measured EXCEPT ![s] = -1] /\ running' = FALSE
    /\ UNCHANGED snapshot

Publish(s) ==
    /\ measured[s] = Parts
    /\ snapshot' = [parts |-> Parts, age |-> "fresh"]
    /\ measured' = [measured EXCEPT ![s] = -1] /\ running' = FALSE
    /\ UNCHANGED fails

Age == snapshot.age = "fresh" /\ snapshot' = [snapshot EXCEPT !.age = "stale"] /\ UNCHANGED <<running, measured, fails>>

Next == Age \/ \E s \in Scan : Ask(s) \/ Measure(s) \/ GiveUp(s) \/ Publish(s)
------------------------------------------------------------------------------

\* However many ask, one scan runs and the flag says so; a scan that fails
\* clears it, and what is shown was measured completely.
OneScan ==
    /\ Cardinality(Busy) = IF running THEN 1 ELSE 0
    /\ snapshot.parts = IF snapshot.age = "never" THEN 0 ELSE Parts

\* As long as somebody asks, a stale snapshot is replaced.
Refreshed == Stale ~> ~Stale
=============================================================================
