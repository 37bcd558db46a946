------------------------------- MODULE Indices -------------------------------
(* The market indices (store/indices.go, store/recipes.go): baskets from a    *)
(* seed file, resolved against the items table when a process starts, and     *)
(* valued at every recomputation, over a base that is kept apart from the     *)
(* points. List, base and point are statements of their own; the service and  *)
(* `openget -once` both start by loading the file, and both sample.           *)
EXTENDS Integers

CONSTANTS Process, Index,
          Raw,          \* what a basket may cost
          MaxTroubles   \* bound: starts, edits and failures

IndicesAssumption == Raw \subseteq Nat \ {0} /\ MaxTroubles \in Nat

VARIABLES file,         \* the indices of the seed file
          known,        \* the items table is populated
          table,        \* the indices table
          base,         \* meta index_base: 0 where there is none
          points,       \* the bases its points are over, of every hour
          job,          \* the sampling of each process: what it has left, where it is
          doubted,      \* history: indices whose base could not be read, or that two sampled at once
          mishaps
indices == <<file, known, table, base, points, job, doubted, mishaps>>

Resting == [pc |-> "idle", left |-> {}, index |-> "none", base |-> 0]
Going(left) == IF left = {} THEN Resting ELSE [Resting EXCEPT !.pc = "value", !.left = left]
Mishap == mishaps < MaxTroubles /\ mishaps' = mishaps + 1

Init ==
    /\ file \in SUBSET Index /\ known \in BOOLEAN /\ table = {}
    /\ base = [i \in Index |-> 0] /\ points = [i \in Index |-> {}]
    /\ job = [p \in Process |-> Resting] /\ doubted = {} /\ mishaps = 0

\* LoadIndices at the start of a process: what the file names is there, the
\* others go with their points. A file that names none, or of which nothing can
\* be resolved yet, changes nothing. What the process was sampling is cut off.
Start(p) ==
    /\ Mishap
    /\ IF ~known \/ file = {} THEN UNCHANGED <<table, points>>
       ELSE /\ table' = file
            /\ points' = [i \in Index |-> IF i \in file THEN points[i] ELSE {}]
    /\ job' = [job EXCEPT ![p] = Resting]
    /\ UNCHANGED <<file, known, base, doubted>>

EditFile == Mishap /\ file' \in SUBSET Index /\ UNCHANGED <<known, table, base, points, job, doubted>>
MappingLands == ~known /\ known' = TRUE /\ UNCHANGED <<file, table, base, points, job, doubted, mishaps>>

\* RecordIndexPoints reads the list; a job that is done leaves no trace.
Sample(p) ==
    /\ job[p].pc = "idle" /\ table # {}
    /\ job' = [job EXCEPT ![p] = Going(table)]
    /\ UNCHANGED <<file, known, table, base, points, doubted, mishaps>>

\* The base is about to be set by a process that found none.
Basing(p, i) == job[p].pc = "base" /\ job[p].index = i

\* The base of one index, or what its basket costs now where there is none; a
\* base that cannot be read is none.
Value(p, i) ==
    /\ job[p].pc = "value" /\ i \in job[p].left
    /\ \E place \in {"base", "point"}, c \in Raw :
        /\ place = "point" => c = base[i]
        /\ job' = [job EXCEPT ![p] = [pc |-> place, left |-> job[p].left \ {i}, index |-> i, base |-> c]]
        /\ IF place = "base" /\ base[i] # 0 THEN Mishap ELSE UNCHANGED mishaps
        /\ doubted' = IF place = "base" /\ (base[i] # 0 \/ \E q \in Process : Basing(q, i))
                      THEN doubted \cup {i} ELSE doubted
    /\ UNCHANGED <<file, known, table, base, points>>

\* Nothing of the basket has a price.
PassOver(p, i) ==
    /\ job[p].pc = "value" /\ i \in job[p].left
    /\ job' = [job EXCEPT ![p] = Going(job[p].left \ {i})]
    /\ UNCHANGED <<file, known, table, base, points, doubted, mishaps>>

SetBase(p) ==
    /\ job[p].pc = "base"
    /\ base' = [base EXCEPT ![job[p].index] = job[p].base]
    /\ job' = [job EXCEPT ![p].pc = "point"]
    /\ UNCHANGED <<file, known, table, points, doubted, mishaps>>

\* The point of the hour. One of an index that has been retired meanwhile
\* violates its foreign key, which ends the job.
SetPoint(p) ==
    /\ job[p].pc = "point"
    /\ IF job[p].index \in table
       THEN /\ points' = [points EXCEPT ![job[p].index] = @ \cup {job[p].base}]
            /\ job' = [job EXCEPT ![p] = Going(job[p].left)]
       ELSE job' = [job EXCEPT ![p] = Resting] /\ UNCHANGED points
    /\ UNCHANGED <<file, known, table, base, doubted, mishaps>>

\* A statement fails, and the job is over.
SampleFails(p) ==
    /\ job[p].pc \in {"base", "point"} /\ Mishap /\ job' = [job EXCEPT ![p] = Resting]
    /\ UNCHANGED <<file, known, table, base, points, doubted>>

Next ==
    \/ EditFile \/ MappingLands
    \/ \E p \in Process : Start(p) \/ Sample(p) \/ SetBase(p) \/ SetPoint(p) \/ SampleFails(p) \/ \E i \in Index : Value(p, i) \/ PassOver(p, i)
------------------------------------------------------------------------------

TypeOK ==
    /\ {file, table, doubted} \subseteq SUBSET Index /\ known \in BOOLEAN /\ mishaps \in Nat
    /\ base \in [Index -> Raw \cup {0}] /\ points \in [Index -> SUBSET Raw]
    /\ \A p \in Process : /\ job[p].left \subseteq Index /\ (job[p].pc = "idle" <=> job[p] = Resting)
                          /\ job[p].pc \in {"base", "point"} => job[p].index \in Index \ job[p].left /\ job[p].base \in Raw

\* The points of an index are over one base, so that they may be compared,
\* whenever a sampling was cut off and the index retired and brought back; only
\* a base that could not be read, or two first samplings at once, make two of one.
OneBase == \A i \in Index \ doubted : points[i] \subseteq {base[i]}

\* No point outlives its index, whoever retires it while it is being sampled.
PointsHaveIndex == \A i \in Index \ table : points[i] = {}
=============================================================================
