--------------------------- MODULE MCPersistence ---------------------------
(***************************************************************************)
(* Persistence for TLC.  User ids are only compared for equality.            *)
(***************************************************************************)
EXTENDS Persistence

Symmetric == Permutations(Uid)
=============================================================================
