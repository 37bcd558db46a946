----------------------------- MODULE Migrations ------------------------------
(* How a process brings the schema up to date when it opens the database      *)
(* (store/store.go): the version is read once, outside any transaction; each  *)
(* migration that it misses runs in one, with the version it leads to. The    *)
(* service, `openget -once` and an older binary may open it at the same time. *)
EXTENDS Integers

CONSTANTS Process,
          Knows,        \* process -> how many migrations its binary has
          MaxCrashes    \* bound: processes that die

MigrationsAssumption == Knows \in [Process -> Nat] /\ MaxCrashes \in Nat

VARIABLES version,      \* user_version
          made,         \* the migrations whose tables are there
          opening,      \* where each process is, and the version it went on from
          crashes
schema == <<version, made, opening, crashes>>

Init ==
    /\ version = 0 /\ made = {} /\ crashes = 0
    /\ opening = [p \in Process |-> [pc |-> "read", i |-> 0]]

\* A binary that is older than the schema refuses.
ReadVersion(p) ==
    /\ opening[p].pc = "read"
    /\ opening' = [opening EXCEPT ![p] =
           [pc |-> IF version > Knows[p] THEN "refused" ELSE "migrate", i |-> version]]
    /\ UNCHANGED <<version, made, crashes>>

\* A bug: tables that are there already are left alone.
MigrateLeniently(p) ==
    /\ opening[p].pc = "migrate" /\ opening[p].i < Knows[p]
    /\ LET i == opening[p].i + 1 IN
       /\ made' = made \cup {i} /\ version' = i
       /\ opening' = [opening EXCEPT ![p].i = i]
    /\ UNCHANGED crashes

\* CREATE TABLE fails when another process was faster, and all of it is undone.
Migrate(p) ==
    /\ opening[p].pc = "migrate" /\ opening[p].i < Knows[p]
    /\ LET i == opening[p].i + 1 IN
       \/ /\ i \in made
          /\ opening' = [opening EXCEPT ![p].pc = "failed"]
          /\ UNCHANGED <<made, version>>
       \/ /\ i \notin made
          /\ made' = made \cup {i} /\ version' = i
          /\ opening' = [opening EXCEPT ![p].i = i]
    /\ UNCHANGED crashes

Opened(p) ==
    /\ opening[p].pc = "migrate" /\ opening[p].i >= Knows[p]
    /\ opening' = [opening EXCEPT ![p].pc = "open"]
    /\ UNCHANGED <<version, made, crashes>>

\* The process dies, and an open that was under way is rolled back.
Crash(p) ==
    /\ crashes < MaxCrashes /\ opening[p].pc \in {"read", "migrate", "open"}
    /\ crashes' = crashes + 1
    /\ opening' = [opening EXCEPT ![p].pc = "failed"]
    /\ UNCHANGED <<version, made>>

\* systemd starts it again (Restart=always).
StartAgain(p) ==
    /\ opening[p].pc = "failed"
    /\ opening' = [opening EXCEPT ![p] = [pc |-> "read", i |-> 0]]
    /\ UNCHANGED <<version, made, crashes>>

Goes(p) == ReadVersion(p) \/ Migrate(p) \/ Opened(p) \/ StartAgain(p)
Next == \E p \in Process : Goes(p) \/ Crash(p)

Spec == Init /\ [][Next]_schema
------------------------------------------------------------------------------

TypeOK ==
    /\ version \in Nat /\ made \subseteq Nat /\ crashes \in Nat
    /\ opening \in [Process -> [pc : {"read", "migrate", "open", "failed", "refused"}, i : Nat]]

\* The version says which tables there are, whoever else opens the database,
\* and no open process is ahead of it.
VersionTruthful ==
    /\ made = 1 .. version
    /\ \A p \in Process : opening[p].pc = "open" => opening[p].i = Knows[p] /\ Knows[p] <= version

\* Who was beaten to a migration gets in at the next start.
OpensInTheEnd == \A p \in Process : <>(opening[p].pc \in {"open", "refused"})
=============================================================================
