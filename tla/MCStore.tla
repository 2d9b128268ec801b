------------------------------ MODULE MCStore ------------------------------
(***************************************************************************)
(* Store for TLC.  User ids and records are only ever compared for equality, *)
(* and every property treats them alike, so permuting them is a symmetry.    *)
(***************************************************************************)
EXTENDS Store, TLC

Symmetric == Permutations(Uid) \cup Permutations(Rec)
=============================================================================
