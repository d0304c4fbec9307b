----------------------------- MODULE VaultList -----------------------------
(***************************************************************************)
(* The list that the rest of the system relies on: active vaults, each     *)
(* once, every insertion at a position its neighbours' ratios allow.       *)
(* SortedVaults implements it with a linked list and caller's hints.       *)
(***************************************************************************)
EXTENDS ListOrder

CONSTANTS Ids, MaxSize, Ratios, Infinite
VARIABLES
  list,    \* the vaults in order
  ratio    \* their nominal ratios, Infinite for an address without debt

Init == list = <<>> /\ ratio = [v \in Ids |-> Infinite]

Insert(v, x) ==
  /\ Len(list) < MaxSize /\ v \notin Range(list)
  /\ ratio' = [ratio EXCEPT ![v] = x]
  /\ list' \in Insertions(list, ratio', v, x)

RemoveId(v) ==
  /\ v \in Range(list)
  /\ list' = Without(list, {v})
  /\ ratio' = [ratio EXCEPT ![v] = Infinite]

ReInsert(v, x) ==
  /\ v \in Range(list)
  /\ ratio' = [ratio EXCEPT ![v] = x]
  /\ list' \in Insertions(Without(list, {v}), ratio', v, x)

\* Redistributions change the ratio of every vault that has debt.
Accrue ==
  /\ \E r \in [Range(list) -> Ratios] :
       ratio' = [v \in Ids |-> IF v \in Range(list) THEN r[v] ELSE ratio[v]]
  /\ UNCHANGED list

Next ==
  \/ \E v \in Ids : RemoveId(v) \/ \E x \in Ratios : Insert(v, x) \/ ReInsert(v, x)
  \/ Accrue

Spec == Init /\ [][Next]_<<list, ratio>>
=============================================================================
