------------------------------- MODULE MCArchive -------------------------------
(* Small instances of Archive for TLC: a tick is a bucket of five minutes, an
   hour is two of them, a day is two hours, and maintenance runs in the middle
   of the first hour of the day. *)
EXTENDS Archive

MCWidth  == [t \in Tier |-> CASE t = "5m" -> 1 [] t = "1h" -> 2 [] t = "24h" -> 4]

\* Two days and two weeks, as ingest.go has it.
MCWindow == [t \in RolledUp |-> IF t = "5m" THEN 8 ELSE 56]
MCKeep   == [t \in Tier |-> CASE t = "5m" -> 11 [] t = "1h" -> 17 [] t = "24h" -> 0]
MCTraded == {0, 1, 2, 4, 6}

\* What the proofs assume of the configuration is so here.
ASSUME DeploymentAssumption == KeepsReach /\ SeedsTheCoarsest
==============================================================================
