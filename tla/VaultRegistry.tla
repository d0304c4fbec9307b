--------------------------- MODULE VaultRegistry ---------------------------
(***************************************************************************)
(* The two places where the system keeps which vaults are active: the      *)
(* VaultOwners array of VaultManager and the linked list of SortedVaults.  *)
(* openVault enters both, _closeVault leaves both, reInsert moves within   *)
(* the list, and the guard against closing the last vault counts both.     *)
(***************************************************************************)
EXTENDS Integers, FiniteSets, Sequences

CONSTANTS Ids, NoId, MaxSize, Ratios, Infinite

\* Ratios are uint256 and address(0) opens no vault; addresses are 160 bits.
ASSUME RegistryAssumption ==
  /\ IsFiniteSet(Ids) /\ NoId \notin Ids
  /\ MaxSize \in Nat /\ Ratios \subseteq Nat

VARIABLES data, ratio, VaultOwners, arrayIndex

vars == <<data, ratio, VaultOwners, arrayIndex>>

List == INSTANCE SortedVaults
Array == INSTANCE VaultOwners WITH Owners <- Ids

Init == List!Init /\ Array!Init

\* openVault
OpenVault(v, x, prev, next) ==
  /\ List!Insert(v, x, prev, next)
  /\ Array!AddVaultOwnerToArray(v)

\* _closeVault
CloseVault(v) ==
  /\ Len(VaultOwners) > 1 /\ data.size > 1
  /\ List!RemoveId(v)
  /\ Array!RemoveVaultOwner(v)

ReInsert(v, x, prev, next) ==
  List!ReInsert(v, x, prev, next) /\ UNCHANGED <<VaultOwners, arrayIndex>>

Accrue == List!Accrue /\ UNCHANGED <<VaultOwners, arrayIndex>>

Next ==
  \/ \E v \in Ids :
       \/ CloseVault(v)
       \/ \E x \in Ratios, prev, next \in Ids \cup {NoId} :
            OpenVault(v, x, prev, next) \/ ReInsert(v, x, prev, next)
  \/ Accrue

Spec == Init /\ [][Next]_vars

----------------------------------------------------------------------------
\* The list is a well-formed doubly linked list (SortedVaults.sol).
WellFormed == List!WellFormed

\* The linked list implements the ordered list of VaultList.
ImplementsVaultList == List!ImplementsVaultList

\* Indexes of the array are exact (VaultManager.sol, _removeVaultOwner).
IndexesAreExact == Array!IndexesAreExact
=============================================================================
