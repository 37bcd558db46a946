---------------------------------- MODULE Feed ----------------------------------
(***************************************************************************)
(* How the catalogue and the live prices reach the database: the client of *)
(* the prices API with its conditional requests (wiki/wiki.go), the mapping *)
(* and latest jobs (ingest/ingest.go) and the tables they write             *)
(* (store/write.go).                                                        *)
(*                                                                          *)
(* The ETag is remembered when an answer has been decoded, before any of it *)
(* is stored.  Whatever goes wrong from there on is not asked for again     *)
(* until upstream changes.                                                  *)
(***************************************************************************)
EXTENDS Integers, FiniteSets

CONSTANTS
    Item,
    Process,      \* processes that poll: the service, `openget -once`
    Fallible,     \* endpoints whose answers the database may refuse
    MaxTroubles   \* bound: refused writes and restarts

Endpoint == {"mapping", "latest"}

ASSUME ConstantsAssumption ==
    /\ Fallible \subseteq Endpoint
    /\ MaxTroubles \in Nat

VARIABLES
    catalogue,   \* the ids /mapping lists now
    fresh,       \* fresh[p][e]: upstream's answer at e is not the one whose
                 \* ETag p remembers
    items,       \* the items table: a row for an id, and its removed flag
    latest,      \* ids with a row in the latest table
    due,         \* ids whose latest row is newer than their item_stats row
    pc,          \* pc[p][e]: where the job of p that polls e is
    payload,     \* payload[p]: the ids of the /mapping answer p holds
    troubles

vars == <<catalogue, fresh, items, latest, due, pc, payload, troubles>>

database == <<items, latest, due>>

Init ==
    /\ catalogue \in SUBSET Item
    /\ fresh = [p \in Process |-> [e \in Endpoint |-> TRUE]]
    /\ items = [i \in Item |-> "absent"]
    /\ latest = {}
    /\ due = {}
    /\ pc = [p \in Process |-> [e \in Endpoint |-> "idle"]]
    /\ payload = [p \in Process |-> {}]
    /\ troubles = 0

Known == {i \in Item : items[i] # "absent"}

-------------------------------------------------------------------------------
(***************************************************************************)
(* Upstream                                                                *)
(***************************************************************************)

\* A game update.
PublishMapping(c) ==
    /\ c # catalogue
    /\ catalogue' = c
    /\ fresh' = [p \in Process |-> [fresh[p] EXCEPT !["mapping"] = TRUE]]
    /\ UNCHANGED <<database, pc, payload, troubles>>

\* Prices of every item, those /mapping has not caught up with included.
PublishLatest ==
    /\ fresh' = [p \in Process |-> [fresh[p] EXCEPT !["latest"] = TRUE]]
    /\ UNCHANGED <<catalogue, database, pc, payload, troubles>>

-------------------------------------------------------------------------------
(***************************************************************************)
(* The client                                                              *)
(***************************************************************************)

\* A 304 ends the job with nothing done, and so does the third failed attempt;
\* neither changes anything.  An answer is decoded, then its ETag remembered.
Fetch(p, e) ==
    /\ pc[p][e] = "idle"
    /\ fresh[p][e]
    /\ fresh' = [fresh EXCEPT ![p][e] = FALSE]
    /\ pc' = [pc EXCEPT ![p][e] = "store"]
    /\ payload' = IF e = "mapping" THEN [payload EXCEPT ![p] = catalogue] ELSE payload
    /\ UNCHANGED <<catalogue, database, troubles>>

\* Mutant of FetchBreaksOff: the ETag is kept before the answer is decoded.
FetchBreaksOffWithETag(p, e) ==
    /\ pc[p][e] = "idle"
    /\ fresh[p][e]
    /\ troubles < MaxTroubles
    /\ troubles' = troubles + 1
    /\ fresh' = [fresh EXCEPT ![p][e] = FALSE]
    /\ UNCHANGED <<catalogue, database, pc, payload>>

\* An answer that breaks off does not decode, and its ETag is not kept.
FetchBreaksOff(p, e) ==
    /\ pc[p][e] = "idle"
    /\ fresh[p][e]
    /\ troubles < MaxTroubles
    /\ troubles' = troubles + 1
    /\ UNCHANGED <<catalogue, fresh, database, pc, payload>>

-------------------------------------------------------------------------------
(***************************************************************************)
(* The jobs                                                                *)
(***************************************************************************)

\* UpsertItems: one transaction.  What the mapping lists has a row and is
\* listed; what it does not is flagged and keeps its row.
StoreMapping(p) ==
    /\ pc[p]["mapping"] = "store"
    /\ items' = [i \in Item |-> IF i \in payload[p]         THEN "listed"
                                ELSE IF items[i] = "absent" THEN "absent"
                                ELSE "removed"]
    /\ pc' = [pc EXCEPT ![p]["mapping"] = "idle"]
    /\ payload' = [payload EXCEPT ![p] = {}]
    /\ UNCHANGED <<catalogue, fresh, latest, due, troubles>>

\* Mutant of StoreLatest: an UPDATE, which no new id survives.
StoreLatestUpdates(p) ==
    /\ pc[p]["latest"] = "store"
    /\ due' = due \cup latest
    /\ pc' = [pc EXCEPT ![p]["latest"] = "stats"]
    /\ UNCHANGED <<catalogue, fresh, items, latest, payload, troubles>>

\* UpsertLatest: one transaction, in which the known ids are read; the others
\* are skipped.
StoreLatest(p) ==
    /\ pc[p]["latest"] = "store"
    /\ latest' = latest \cup Known
    /\ due' = due \cup Known
    /\ pc' = [pc EXCEPT ![p]["latest"] = "stats"]
    /\ UNCHANGED <<catalogue, fresh, items, payload, troubles>>

\* ComputeStats: one statement over the items that are not removed.
Recompute(p) ==
    /\ pc[p]["latest"] = "stats"
    /\ due' = {i \in due : items[i] # "listed"}
    /\ pc' = [pc EXCEPT ![p]["latest"] = "idle"]
    /\ UNCHANGED <<catalogue, fresh, items, latest, payload, troubles>>

\* The write or the recomputation fails: the job reports it and is over.
WriteFails(p, e) ==
    /\ e \in Fallible
    /\ pc[p][e] # "idle"
    /\ troubles < MaxTroubles
    /\ troubles' = troubles + 1
    /\ pc' = [pc EXCEPT ![p][e] = "idle"]
    /\ payload' = IF e = "mapping" THEN [payload EXCEPT ![p] = {}] ELSE payload
    /\ UNCHANGED <<catalogue, fresh, database>>

\* The ETags are in memory: a process that starts asks for everything.
Restart(p) ==
    /\ troubles < MaxTroubles
    /\ troubles' = troubles + 1
    /\ fresh' = [fresh EXCEPT ![p] = [e \in Endpoint |-> TRUE]]
    /\ pc' = [pc EXCEPT ![p] = [e \in Endpoint |-> "idle"]]
    /\ payload' = [payload EXCEPT ![p] = {}]
    /\ UNCHANGED <<catalogue, database>>

Job(p) ==
    \/ \E e \in Endpoint : Fetch(p, e)
    \/ StoreMapping(p)
    \/ StoreLatest(p)
    \/ Recompute(p)

Next ==
    \/ \E c \in SUBSET Item : PublishMapping(c)
    \/ PublishLatest
    \/ \E p \in Process :
         \/ Job(p)
         \/ \E e \in Endpoint : FetchBreaksOff(p, e) \/ WriteFails(p, e)
         \/ Restart(p)

Spec == Init /\ [][Next]_vars

-------------------------------------------------------------------------------
(***************************************************************************)
(* Properties                                                              *)
(***************************************************************************)

TypeOK ==
    /\ catalogue \subseteq Item
    /\ fresh \in [Process -> [Endpoint -> BOOLEAN]]
    /\ items \in [Item -> {"absent", "listed", "removed"}]
    /\ due \subseteq latest
    /\ latest \subseteq Known
    /\ pc \in [Process -> [Endpoint -> {"idle", "store", "stats"}]]
    /\ \A p \in Process : pc[p]["mapping"] # "stats"
    /\ payload \in [Process -> SUBSET Item]
    /\ troubles \in 0 .. MaxTroubles

\* An id that upstream goes on listing is listed by the items table in the end,
\* and stays so, whatever was skipped or lost before: "the daily mapping poll
\* picks them up" (write.go:83).
CatalogueCatchesUp ==
    \A i \in Item : <>[](i \in catalogue) => <>[](items[i] = "listed")

\* And then a price: the prices skipped while it had none are not the last.
PricesCatchUp ==
    \A i \in Item : <>[](i \in catalogue) => <>(i \in latest)

\* What the list views show follows what the polls store, recomputations that
\* fail or are cut off included.
StatsFollow ==
    \A i \in Item : i \in due ~> (i \notin due \/ items[i] # "listed")
===============================================================================
