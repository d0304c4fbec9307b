----------------------------- MODULE ListOrder -----------------------------
(***************************************************************************)
(* What SortedVaults.sol promises of a list, as operators on sequences:    *)
(* removal, and insertion at any position that the ratios on both sides    *)
(* allow.  ratio is a function: what getNominalICR returns of each vault.  *)
(***************************************************************************)
EXTENDS Integers, SequencesExt

WithoutNone(list, S) == list                            \* mutant
Without(list, S) ==
  LET Kept[i \in 0..Len(list)] ==
        IF i = 0 THEN <<>>
        ELSE IF list[i] \in S THEN Kept[i - 1] ELSE Append(Kept[i - 1], list[i])
  IN Kept[Len(list)]

\* Position i of list is one for a vault of nominal ratio x.
ValidPosition(list, ratio, i, x) ==
  /\ i > 1 => ratio[list[i - 1]] >= x
  /\ i <= Len(list) => x >= ratio[list[i]]

\* The lists that inserting v may give: the hints choose one.
Insertions(list, ratio, v, x) ==
  {InsertAt(list, i, v) : i \in {j \in 1..(Len(list) + 1) : ValidPosition(list, ratio, j, x)}}
=============================================================================
