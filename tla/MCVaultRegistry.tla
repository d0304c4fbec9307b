-------------------------- MODULE MCVaultRegistry --------------------------
(***************************************************************************)
(* VaultRegistry for TLC: owners are interchangeable.                      *)
(***************************************************************************)
EXTENDS VaultRegistry, TLC

Symmetry == Permutations(Ids)
=============================================================================
