----------------------------- MODULE EdgeTrigger -----------------------------
(***************************************************************************)
(* What a reader of OpenGET is promised about price alerts, without the    *)
(* database: "An alert fires once when its condition starts holding, and   *)
(* re-arms only after the condition stops" (personal.go:703).              *)
(***************************************************************************)
EXTENDS Naturals

CONSTANT AlertId

VARIABLES
    live,      \* alerts that exist
    holding,   \* alerts whose condition holds on the prices being shown
    armed,     \* alerts that may fire
    entries    \* entries[a]: feed entries of a since it was last armed

vars == <<live, holding, armed, entries>>

Init ==
    /\ live = {}
    /\ holding \in SUBSET AlertId
    /\ armed = AlertId
    /\ entries = [a \in AlertId |-> 0]

Create(a) ==
    /\ a \notin live
    /\ live' = live \cup {a}
    /\ UNCHANGED <<holding, armed, entries>>

\* A deleted alert is armed again for good measure: nothing evaluates it.
Delete(gone) ==
    /\ live' = live \ gone
    /\ armed \subseteq armed'
    /\ armed' \subseteq armed \cup gone
    /\ entries' \in [AlertId -> Nat]
    /\ \A a \in AlertId : \/ entries'[a] = entries[a]
                         \/ (a \in gone /\ entries'[a] = 0)
    /\ UNCHANGED holding

NewPrices ==
    /\ holding' \in SUBSET AlertId
    /\ UNCHANGED <<live, armed, entries>>

\* The one entry of this crossing, on prices on which the condition holds, and
\* the alert is spent.
Fire(a) ==
    /\ a \in armed
    /\ a \in holding
    /\ entries[a] = 0
    /\ entries' = [entries EXCEPT ![a] = @ + 1]
    /\ armed' = armed \ {a}
    /\ UNCHANGED <<live, holding>>

Rearm(a) ==
    /\ a \notin armed
    /\ a \notin holding \/ a \notin live
    /\ armed' = armed \cup {a}
    /\ entries' = [entries EXCEPT ![a] = 0]
    /\ UNCHANGED <<live, holding>>

Next ==
    \/ \E a \in AlertId : Create(a) \/ Fire(a) \/ Rearm(a)
    \/ \E gone \in SUBSET AlertId : Delete(gone)
    \/ NewPrices

\* An armed alert whose condition goes on holding does fire.
Spec ==
    /\ Init
    /\ [][Next]_vars
    /\ \A a \in AlertId : WF_vars(a \in live /\ Fire(a))
==============================================================================
