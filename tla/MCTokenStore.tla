----------------------------- MODULE MCTokenStore -----------------------------
(* Small instances of TokenStore for TLC. *)
EXTENDS TokenStore, TLC

\* One row of favourites and ledger each, alerts without a cap.
MCCap == [k \in Kind |-> IF k = "alerts" THEN 0 ELSE 1]

Symmetry == Permutations(Token) \cup Permutations(Handler)
===============================================================================
