------------------------- MODULE MCManagedActivation -------------------------
(***************************************************************************)
(* Small instances of ManagedActivation for TLC.                           *)
(***************************************************************************)
EXTENDS ManagedActivation, TLC

CONSTANTS a1, a2, r1, r2, l1, l2

Interchangeable == Permutations(Attempts) \cup Permutations(Requests) \cup Permutations(Lookups)
=============================================================================
