-------------------------------- MODULE Death --------------------------------
(* What the entities of !~ATH promise a program that waits for them           *)
(* (class Entity and its subclasses of personal/ath/tildeath.js): death is    *)
(* for ever, a composite dies only when what it is made of allows it, and who *)
(* waits for an entity goes on only after it has died. How programs bring     *)
(* entities about and kill them is left open; module Ath implements this.     *)
EXTENDS Naturals, FiniteSets

VARIABLES
    made,     \* entity -> what it is: its kind, and the entities it is made of
    dead,     \* the entities that have died
    waits     \* <<waiter, entity>>: a branch of the program, or the program,
              \* waits for the entity
deathvars == <<made, dead, waits>>

Simple    == {"this", "timer", "branch"}
Composite == {"EntityAnd", "EntityOr", "EntityNot"}
Kind      == [kind : Simple \cup Composite, parts : SUBSET Nat]

DeathInit ==
    /\ made = [o \in {1} |-> [kind |-> "this", parts |-> {}]]
    /\ dead = {}
    /\ waits = {}

Is(o, k) == made[o].kind = k

Due(o) ==
    \/ Is(o, "EntityAnd") /\ made[o].parts \subseteq dead
    \/ Is(o, "EntityOr") /\ made[o].parts \cap dead # {}
    \/ Is(o, "EntityNot")

\* New entities are numbered, or named, apart from the ones there are, and a
\* composite is made of entities there are by then.
Birth ==
    /\ DOMAIN made \subseteq DOMAIN made'
    /\ \A o \in DOMAIN made : made'[o] = made[o]
    /\ \A o \in DOMAIN made' :
           /\ o \in Nat
           /\ made'[o] \in Kind
           /\ made'[o].parts \subseteq DOMAIN made'

\* Time, DIE, an import over the same name and the end of the program kill
\* entities that are not composites.
Killable(S) == S \subseteq {o \in DOMAIN made : made[o].kind \in Simple}

Change ==
    /\ Birth
    /\ dead \subseteq dead'
    /\ Killable(dead' \ dead)
    /\ UNCHANGED waits

CompositeDies(o) ==
    /\ Due(o)
    /\ dead' = dead \cup {o}
    /\ UNCHANGED <<made, waits>>

Wait ==
    /\ Birth
    /\ \E p \in waits' : p[2] \in DOMAIN made' /\ waits' = waits \cup {p}
    /\ UNCHANGED dead

Pass(p) ==
    /\ p[2] \in dead
    /\ waits' = waits \ {p}
    /\ UNCHANGED <<made, dead>>

DeathNext ==
    \/ Change \/ Wait
    \/ \E o \in DOMAIN made : CompositeDies(o)
    \/ \E p \in waits : Pass(p)

DeathSpec == DeathInit /\ [][DeathNext]_deathvars

------------------------------------------------------------------------------

EntitiesOK ==
    /\ \A o \in DOMAIN made : made[o] \in Kind
    /\ DOMAIN made \subseteq Nat
    /\ \A o \in DOMAIN made : made[o].parts \subseteq DOMAIN made
    /\ dead \subseteq DOMAIN made
    /\ \A p \in waits : p[2] \in DOMAIN made

\* Every death of a composite is borne out by what it is made of: who has
\* waited for (A && B) has seen both die, who has waited for (A || B) one.
Truthful ==
    \A o \in dead :
        /\ Is(o, "EntityAnd") => made[o].parts \subseteq dead
        /\ Is(o, "EntityOr") => made[o].parts \cap dead # {}

\* Nobody goes on past (A && B) unless A and B have died, nor past (A || B)
\* unless A or B has; and the dead stay dead.
NobodyGoesOnEarly ==
    [][/\ dead \subseteq dead'
       /\ \A p \in waits \ waits' :
              /\ p[2] \in dead'
              /\ Is(p[2], "EntityAnd") => made[p[2]].parts \subseteq dead'
              /\ Is(p[2], "EntityOr") => made[p[2]].parts \cap dead' # {}]_deathvars
=============================================================================
