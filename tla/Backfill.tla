------------------------------ MODULE Backfill -------------------------------
(* The loop that seeds the archive with history, one /timeseries call per     *)
(* item and step (ingest/ingest.go, store/write.go). It lists items that have *)
(* no mark, the most traded first, a batch at a time; a low disk pauses it.   *)
(* Items are numbered by their trade, so a batch is the set of those in it.   *)
EXTENDS Integers, Sequences, FiniteSets

CONSTANTS Items,        \* how many items there are
          Steps,        \* cfg.Backfill.Steps
          BatchSize,
          MaxTroubles   \* bound: failures, pauses and restarts

Tables == {"5m", "1h", "24h"}   \* steps that have a table
Ids == 1 .. Items

BackfillAssumption ==
    Items \in Nat /\ Steps \in Seq(STRING) /\ BatchSize \in Nat \ {0} /\ MaxTroubles \in Nat

VARIABLES listed,       \* items that /mapping lists
          mark,         \* backfill_state: none, empty or seeded
          stored,       \* <<step, item>> whose history is in the archive
          loop,         \* where the loop is: its step and what is left of its batch
          low,          \* the disk is low
          unlisted,     \* history: steps given up because no list could be had
          troubles
backfill == <<listed, mark, stored, loop, low, unlisted, troubles>>

Step == Steps[loop.step]
At(place) == loop.pc = place /\ loop.step <= Len(Steps)
Trouble == troubles < MaxTroubles /\ troubles' = troubles + 1

Init ==
    /\ listed \in {Ids, Ids \ {1}}
    /\ mark = [s \in Tables |-> [i \in Ids |-> "none"]] /\ stored = {}
    /\ loop = [pc |-> "list", step |-> 1, batch |-> {}]
    /\ low = FALSE /\ unlisted = {} /\ troubles = 0

NextStep == loop' = [pc |-> "list", step |-> loop.step + 1, batch |-> {}]
Current == CHOOSE i \in loop.batch : \A j \in loop.batch : i <= j
NextItem == loop' = [loop EXCEPT !.pc = IF loop.batch = {Current} THEN "list" ELSE "ask", !.batch = @ \ {Current}]

\* 6h, and steps that do not exist.
SkipStep == At("list") /\ Step \notin Tables /\ NextStep /\ UNCHANGED <<listed, mark, stored, low, unlisted, troubles>>

\* PendingBackfill.
Pending ==
    LET unmarked == {i \in listed : mark[Step][i] = "none"}
    IN  {i \in unmarked : Cardinality({j \in unmarked : j < i}) < BatchSize}

\* An empty list ends the step.
List ==
    /\ At("list") /\ Step \in Tables /\ ~low
    /\ \/ Pending = {} /\ NextStep
       \/ Pending # {} /\ loop' = [loop EXCEPT !.pc = "ask", !.batch = Pending]
    /\ UNCHANGED <<listed, mark, stored, low, unlisted, troubles>>

\* So does a list that cannot be had.
ListFails ==
    /\ At("list") /\ Step \in Tables /\ ~low /\ Trouble
    /\ NextStep /\ unlisted' = unlisted \cup {Step}
    /\ UNCHANGED <<listed, mark, stored, low>>

Marked(m) == mark' = [mark EXCEPT ![Step][Current] = m]

Answered == At("ask") /\ loop' = [loop EXCEPT !.pc = "store"]
            /\ UNCHANGED <<listed, mark, stored, low, unlisted, troubles>>

\* Mutant of AskFails: the first item that fails ends the step.
AskFailsForAll == At("ask") /\ Trouble /\ NextStep /\ (Marked("empty") \/ UNCHANGED mark)
                  /\ UNCHANGED <<listed, stored, low, unlisted>>

\* The last attempt has failed: the item is given up, if it can be marked.
AskFails == At("ask") /\ Trouble /\ NextItem /\ (Marked("empty") \/ UNCHANGED mark)
            /\ UNCHANGED <<listed, stored, low, unlisted>>

Store == At("store") /\ stored' = stored \cup {<<Step, Current>>} /\ loop' = [loop EXCEPT !.pc = "mark"]
         /\ UNCHANGED <<listed, mark, low, unlisted, troubles>>

\* The item keeps its place in the next list, without a mark.
StoreFails == At("store") /\ Trouble /\ NextItem /\ UNCHANGED <<listed, mark, stored, low, unlisted>>

Mark == At("mark") /\ Marked("seeded") /\ NextItem /\ UNCHANGED <<listed, stored, low, unlisted, troubles>>
MarkFails == At("mark") /\ Trouble /\ NextItem /\ UNCHANGED <<listed, mark, stored, low, unlisted>>

\* /mapping lists a new item; the disk guard; a start begins with the first step.
NewItem == \E i \in Ids \ listed : listed' = listed \cup {i} /\ UNCHANGED <<mark, stored, loop, low, unlisted, troubles>>
DiskLow == ~low /\ Trouble /\ low' = TRUE /\ UNCHANGED <<listed, mark, stored, loop, unlisted>>
DiskFree == low /\ low' = FALSE /\ UNCHANGED <<listed, mark, stored, loop, unlisted, troubles>>
Restart == /\ Trouble /\ loop' = [pc |-> "list", step |-> 1, batch |-> {}] /\ unlisted' = {}
           /\ UNCHANGED <<listed, mark, stored, low>>

Pass == SkipStep \/ List \/ Answered \/ Store \/ Mark
Next == Pass \/ ListFails \/ AskFails \/ StoreFails \/ MarkFails \/ NewItem \/ DiskLow \/ DiskFree \/ Restart
------------------------------------------------------------------------------

TypeOK ==
    /\ listed \subseteq Ids /\ mark \in [Tables -> [Ids -> {"none", "empty", "seeded"}]] /\ stored \subseteq Tables \X Ids
    /\ loop.pc \in {"list", "ask", "store", "mark"} /\ loop.step \in 1 .. Len(Steps) + 1
    /\ loop.batch \subseteq Ids /\ Cardinality(loop.batch) <= BatchSize
    /\ (loop.batch = {} <=> loop.pc = "list") /\ low \in BOOLEAN /\ unlisted \subseteq Tables /\ troubles \in Nat

\* An item that counts as seeded has its history in the archive, whatever the
\* store refused and wherever the loop was cut off.
MarksTruthful == \A s \in Tables, i \in Ids : mark[s][i] = "seeded" => <<s, i>> \in stored

\* The loop has not come to the end of the step at position k.
Ahead(k) == loop.step <= k /\ Steps[k] \notin unlisted

\* An item that is listed before the loop is through with a step is done with
\* in the end, failures, pauses and restarts included; unless the list of the
\* step could not be had, or the disk stays low.
ItemsGetDone ==
    []<>(~low) => \A k \in {n \in DOMAIN Steps : Steps[n] \in Tables}, i \in Ids :
        (i \in listed /\ Ahead(k)) ~> (mark[Steps[k]][i] # "none" \/ Steps[k] \in unlisted)
=============================================================================
