----------------------------- MODULE MCSubgraph -----------------------------
(* The indexer on a few transactions of two owners. *)
EXTENDS Subgraph

MCPositions == {<<2, 2>>, <<2, 3>>}

Symmetric == Permutations(Users)
=============================================================================
