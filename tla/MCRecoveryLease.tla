-------------------------- MODULE MCRecoveryLease --------------------------
(***************************************************************************)
(* Two devices; their names are interchangeable.                           *)
(***************************************************************************)
EXTENDS RecoveryLease, TLC
CONSTANTS D1, D2
Two == {D1, D2}
Perms == Permutations(Two)
=============================================================================
