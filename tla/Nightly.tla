------------------------------- MODULE Nightly -------------------------------
(* The loop of the nightly maintenance (ingest/ingest.go): a timer for the    *)
(* next 03:17 and a ticker for the disk check, whichever the select takes.    *)
(* When both are due either may be taken, and after a check the timer is set  *)
(* for the next 03:17 after now.                                              *)
EXTENDS Integers

CONSTANTS Day, Hour,    \* units in a day, and the one of 03:17
          Period,       \* of the disk check
          MaxWork,      \* bound: how long a maintenance takes
          MaxTime       \* bound: how far the clock goes

NightlyAssumption ==
    /\ Day \in Nat \ {0} /\ Hour \in 0 .. Day - 1 /\ Period \in Nat \ {0} /\ MaxWork \in Nat /\ MaxTime \in Nat

VARIABLES clock, phase, \* the time, and when the ticker ticks
          deadline,     \* of the timer
          tick,         \* the channel of the ticker holds one
          task,         \* what the loop is at, and since when
          paused,
          done,         \* history: nights whose maintenance was begun
          free          \* history: nights that found the loop free to begin
night == <<clock, phase, deadline, tick, task, paused, done, free>>

IsNight(t) == t % Day = Hour
NextNight(t) == CHOOSE n \in t + 1 .. t + Day : IsNight(n)

Init ==
    /\ clock \in 0 .. Day - 1 /\ phase \in 0 .. Period - 1
    /\ deadline = NextNight(clock) /\ tick = FALSE /\ task = [at |-> "select", since |-> clock]
    /\ paused \in BOOLEAN /\ done = {} /\ free = {}

Select == task' = [at |-> "select", since |-> clock]

\* Any check may find the disk low, or no longer low.
Check == /\ task.at = "select" /\ tick /\ tick' = FALSE
         /\ paused' \in BOOLEAN
         /\ deadline' = NextNight(clock) /\ Select
         /\ UNCHANGED <<clock, phase, done, free>>

\* runJob skips the work while ingestion is paused.
Maintain ==
    /\ task.at = "select" /\ clock >= deadline
    /\ \/ /\ ~paused /\ done' = done \cup {deadline}
          /\ task' = [at |-> "work", since |-> clock] /\ UNCHANGED deadline
       \/ /\ paused /\ deadline' = NextNight(clock) /\ Select
          /\ UNCHANGED done
    /\ UNCHANGED <<clock, phase, tick, paused, free>>

\* The end of a maintenance, which checks the disk unless it failed.
Finish == /\ task.at = "work" /\ paused' \in BOOLEAN
          /\ deadline' = NextNight(clock) /\ Select
          /\ UNCHANGED <<clock, phase, tick, done, free>>

Ready == task.at = "select" /\ (tick \/ clock >= deadline)

\* Time goes on while nothing is ready; a tick that finds the channel full is dropped.
Tick ==
    /\ ~Ready /\ clock < MaxTime /\ (task.at = "work" => clock - task.since < MaxWork)
    /\ clock' = clock + 1
    /\ tick' = (tick \/ clock' % Period = phase)
    /\ free' = IF IsNight(clock') /\ ~paused /\ task.at = "select" /\ ~tick'
               THEN free \cup {clock'} ELSE free
    /\ UNCHANGED <<phase, deadline, task, paused, done>>

Next == Check \/ Maintain \/ Finish \/ Tick
------------------------------------------------------------------------------

TypeOK ==
    /\ clock \in Nat /\ phase \in 0 .. Period - 1 /\ {tick, paused} \subseteq BOOLEAN
    /\ IsNight(deadline) /\ done \cup free \subseteq {n \in 0 .. clock : IsNight(n)}
    /\ task.at \in {"select", "work"} /\ task.since \in 0 .. clock

\* Every night the maintenance begins, unless ingestion is paused, the one
\* before goes on, or a disk check is due in the same moment.
NightsKept == \A n \in free : n \in done \/ deadline = n
=============================================================================
