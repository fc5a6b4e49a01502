----------------------------- MODULE MCGateway -----------------------------
(* Small instances of Gateway: cA and cB protect requests, cN has no        *)
(* privacy section, and cB is an unprotected configuration when the run's   *)
(* Protected leaves it out.                                                 *)
EXTENDS Gateway, TLC

CONSTANTS cA, cB, cN, k1, k2

MCKeyOf == [c \in Configs |-> IF c = cA THEN k1 ELSE k2]
Symmetry == Permutations(ClientIds) \cup Permutations(Requests) \cup Permutations(Reloads)
=============================================================================
