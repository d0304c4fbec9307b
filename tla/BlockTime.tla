----------------------------- MODULE BlockTime -----------------------------
(* The block's time in seconds, which the contracts of one chain share. *)
EXTENDS Naturals

CONSTANT MaxTime      \* bound of the model on block.timestamp

ASSUME BlockTimeAssumption == MaxTime \in Nat

VARIABLE timestamp    \* block.timestamp
=============================================================================
