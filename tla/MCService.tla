------------------------------ MODULE MCService ------------------------------
(* Instances of the parts of OpenGET for TLC: three binaries, one of which is *)
(* older, open the database, and one of three backfill steps has no table.    *)
EXTENDS Service

MCKnows == [p \in Opener |-> IF p = "old" THEN 2 ELSE 3]
MCSteps == <<"24h", "6h", "1h">>
=============================================================================
