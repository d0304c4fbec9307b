---------------------------- MODULE VaultOwners ----------------------------
(***************************************************************************)
(* The VaultOwners array of VaultManager.sol: an owner is pushed at the    *)
(* end and removed by moving the last owner to its place.  Each vault      *)
(* records its index.                                                      *)
(***************************************************************************)
EXTENDS Integers, Sequences

CONSTANT Owners
VARIABLES
  VaultOwners,   \* the array (index i of the code is position i + 1)
  arrayIndex     \* Vaults[owner].arrayIndex, stale once the vault is closed

Init == VaultOwners = <<>> /\ arrayIndex = [u \in Owners |-> 0]

AddVaultOwnerToArray(u) ==
  /\ VaultOwners' = Append(VaultOwners, u)
  /\ arrayIndex' = [arrayIndex EXCEPT ![u] = Len(VaultOwners)]

RemoveWithoutReindex(u) ==                              \* mutant
  LET last == Len(VaultOwners)
      index == arrayIndex[u]
  IN
  /\ index <= last - 1
  /\ VaultOwners' = SubSeq([VaultOwners EXCEPT ![index + 1] = VaultOwners[last]], 1, last - 1)
  /\ UNCHANGED arrayIndex

\* The assert is a guard.
RemoveVaultOwner(u) ==
  LET last == Len(VaultOwners)
      index == arrayIndex[u]
      moved == VaultOwners[last]
  IN
  /\ index <= last - 1
  /\ VaultOwners' = SubSeq([VaultOwners EXCEPT ![index + 1] = moved], 1, last - 1)
  /\ arrayIndex' = [arrayIndex EXCEPT ![moved] = index]

HasVault(u) == \E i \in 1..Len(VaultOwners) : VaultOwners[i] = u

\* BorrowerOperations and VaultManager add an owner whose vault was not active and
\* remove one whose vault was.
Next ==
  \E u \in Owners :
    \/ ~HasVault(u) /\ AddVaultOwnerToArray(u)
    \/ HasVault(u) /\ RemoveVaultOwner(u)

Spec == Init /\ [][Next]_<<VaultOwners, arrayIndex>>

----------------------------------------------------------------------------
\* Every owner in the array is found at the index its vault records, whatever
\* order vaults were opened and closed in; so no owner is there twice, and
\* removing one never removes another.
IndexesAreExact ==
  \A i \in 1..Len(VaultOwners) : arrayIndex[VaultOwners[i]] = i - 1
=============================================================================
