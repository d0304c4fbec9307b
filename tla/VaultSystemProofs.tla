------------------------- MODULE VaultSystemProofs -------------------------
(***************************************************************************)
(* Proofs about VaultSystem, for any users, prices and parameters.         *)
(*                                                                         *)
(* Its accounts: the types, the supply of BPD and who holds it; then those *)
(* that are sums over the vaults: the Active Pool holds what the active    *)
(* vaults hold, totalStakes is the sum of their stakes, the surplus pool   *)
(* holds what is owed, the sorted list is a list of the active vaults, no  *)
(* vault's debt falls below the minimum, and the Default Pool covers the   *)
(* pending rewards.                                                        *)
(*                                                                         *)
(* What a transaction may not do: a borrower neither brings about Recovery *)
(* Mode nor makes it worse, vaults at or above MCR are not liquidated      *)
(* outside it, depositors are compensated for what they absorb in it, and  *)
(* redemptions take the lowest ratios first.                               *)
(*                                                                         *)
(* The parts: the types and the accounting of BPD, call by call; the list; *)
(* one lemma per call that touches one vault; the loop of liquidations, by *)
(* an invariant of its totals; the loop of redemption, by one that follows *)
(* the list; the specification; the claims to past redistributions, in the *)
(* same order; ratios, and the actions one by one.                         *)
(***************************************************************************)
EXTENDS VaultSystem, DataLemmas, FiniteSetTheorems, FunctionTheorems, TLAPS

\* No active vault's snapshot is ahead of the running rewards, so pending rewards
\* are never negative (getPendingRBTCReward and getPendingBPDDebtReward).
SnapshotsBehind ==
  \A u \in Active : snapshots[u].RBTC <= B.RBTC /\ snapshots[u].BPDDebt <= B.BPDDebt

\* The inductive invariant.
IInv ==
  /\ TypeOK
  /\ SnapshotsBehind
  /\ SupplyIsDebt
  /\ PoolHoldsDeposits
  /\ GasPoolCoversVaults

----------------------------------------------------------------------------
\* Arithmetic of the code: products and integer division stay natural.

\* Quotients of the code are natural.
LEMMA DivisionNat ==
  ASSUME NEW a \in Nat, NEW b \in Nat \ {0}
  PROVE  a \div b \in Nat
OBVIOUS

\* Products of the code are natural.
LEMMA ProductNat ==
  ASSUME NEW a \in Nat, NEW b \in Nat
  PROVE  a * b \in Nat
OBVIOUS

\* The error kept for the next division is the remainder of this one.
LEMMA RemainderNat ==
  ASSUME NEW a \in Nat, NEW b \in Nat \ {0}
  PROVE  a - (a \div b) * b \in Nat
OBVIOUS

\* A borrowing or redemption fee is natural.
LEMMA FeeNat ==
  ASSUME NEW rate \in Nat, NEW amount \in Nat
  PROVE  Fee(rate, amount) \in Nat
<1>1. rate * amount \in Nat
  BY ProductNat
<1> QED
  BY <1>1, DivisionNat, ParametersAssumption DEF Fee

\* _computeNewStake gives a natural stake.
LEMMA NewStakeNat ==
  ASSUME TypeOK, StakeIsDefined, NEW coll \in Nat
  PROVE  NewStake(coll) \in Nat
<1>1. systemSnapshot.coll \in Nat /\ systemSnapshot.stakes \in Nat
  BY DEF TypeOK
<1>2. coll * systemSnapshot.stakes \in Nat
  BY <1>1, ProductNat
<1>3. CASE systemSnapshot.coll = 0
  BY <1>3 DEF NewStake
<1>4. CASE systemSnapshot.coll # 0
  BY <1>1, <1>2, <1>4, DivisionNat DEF NewStake
<1> QED
  BY <1>3, <1>4

\* What an operation moves from the Default Pool to a vault is natural.
LEMMA PendingNat ==
  ASSUME TypeOK, SnapshotsBehind, NEW u \in Users
  PROVE  /\ PendingRBTC(u) \in Nat /\ PendingDebt(u) \in Nat
         /\ AppliedRBTC(u) \in Nat /\ AppliedDebt(u) \in Nat
<1>1. CASE u \in Active
  <2>1. vaults[u].stake \in Nat /\ snapshots[u] \in Reward /\ B \in Reward
    BY DEF TypeOK, Vault
  <2>2. B.RBTC - snapshots[u].RBTC \in Nat /\ B.BPDDebt - snapshots[u].BPDDebt \in Nat
    BY <1>1, <2>1 DEF SnapshotsBehind, Reward
  <2>3. /\ vaults[u].stake * (B.RBTC - snapshots[u].RBTC) \in Nat
        /\ vaults[u].stake * (B.BPDDebt - snapshots[u].BPDDebt) \in Nat
    BY <2>1, <2>2, ProductNat
  <2>4. PendingRBTC(u) \in Nat /\ PendingDebt(u) \in Nat
    BY <2>3, DivisionNat, ParametersAssumption DEF PendingRBTC, PendingDebt
  <2> QED
    BY <2>4 DEF AppliedRBTC, AppliedDebt
<1>2. CASE u \notin Active
  BY <1>2 DEF PendingRBTC, PendingDebt, AppliedRBTC, AppliedDebt
<1> QED
  BY <1>1, <1>2

\* The active vaults can be counted.
LEMMA ActiveIsFinite ==
  IsFiniteSet(Active) /\ Cardinality(Active) \in Nat
BY AccountsAssumption, FS_Subset, FS_CardinalityType DEF Active
----------------------------------------------------------------------------
\* The actions, one lemma each.

\* openVault.
LEMMA OpenVaultInv ==
  ASSUME IInv, NEW u \in Users, NEW c \in Nat, NEW a \in Nat, NEW rate \in Nat,
         OpenVault(u, c, a, rate)
  PROVE  IInv'
<1> DEFINE fee == IF RecoveryMode THEN 0 ELSE Fee(rate, a)
           debt == CompositeDebt(a + fee)
           stake == NewStake(vaults[u].coll + c)
<1>1. fee \in Nat
  BY FeeNat
<1>2. debt \in Nat /\ debt = a + fee + BPD_GAS_COMPENSATION
  BY <1>1, ParametersAssumption DEF CompositeDebt
<1>3. stake \in Nat
  BY NewStakeNat DEF IInv, TypeOK, Vault, OpenVault
<1> HIDE DEF fee, debt, stake
<1>4. /\ u \notin Active /\ vaults[u].stake <= totalStakes
      /\ vaults' = [vaults EXCEPT ![u] =
           [status |-> "active", coll |-> @.coll + c, debt |-> @.debt + debt, stake |-> stake]]
      /\ snapshots' = [snapshots EXCEPT ![u] = B]
      /\ totalStakes' = totalStakes - vaults[u].stake + stake
      /\ activePool' = [RBTC |-> activePool.RBTC + c, BPDDebt |-> activePool.BPDDebt + debt]
      /\ bpd' = [bpd EXCEPT ![u] = @ + a, ![MPStaking] = @ + fee, ![GasPool] = @ + BPD_GAS_COMPENSATION]
      /\ totalSupply' = totalSupply + a + fee + BPD_GAS_COMPENSATION
      /\ UNCHANGED <<systemSnapshot, B, lastError, debtUnseen, defaultPool, stabilityPool, surplus, surplusRBTC, price>>
  BY DEF OpenVault, fee, debt, stake
<1>5. TypeOK'
  <2>1. vaults' \in [Users -> Vault] /\ totalStakes' \in Nat /\ snapshots' \in [Users -> Reward]
    BY <1>2, <1>3, <1>4 DEF IInv, TypeOK, Vault, Statuses
  <2>2. activePool' \in Reward /\ bpd' \in [Accounts -> Nat] /\ totalSupply' \in Nat
    BY <1>1, <1>2, <1>4, ParametersAssumption, AccountsAssumption
       DEF IInv, TypeOK, Reward, Accounts, Contracts
  <2> QED BY <1>4, <2>1, <2>2 DEF IInv, TypeOK
<1>6. Active' = Active \cup {u}
  BY <1>4 DEF Active, IInv, TypeOK
<1>7. SnapshotsBehind'
  BY <1>4, <1>6 DEF IInv, TypeOK, SnapshotsBehind, Reward, Active
<1>8. SupplyIsDebt' /\ PoolHoldsDeposits'
  BY <1>1, <1>2, <1>4, AccountsAssumption, ParametersAssumption
     DEF IInv, TypeOK, Reward, SupplyIsDebt, PoolHoldsDeposits, Accounts, Contracts
<1>9. GasPoolCoversVaults'
  <2>1. Cardinality(Active') = Cardinality(Active) + 1
    BY <1>4, <1>6, ActiveIsFinite, FS_AddElement
  <2>2. bpd'[GasPool] = bpd[GasPool] + BPD_GAS_COMPENSATION
    BY <1>4, AccountsAssumption DEF IInv, TypeOK, Accounts, Contracts
  <2> QED
    BY <2>1, <2>2, ActiveIsFinite, ParametersAssumption DEF IInv, GasPoolCoversVaults
<1> QED
  BY <1>5, <1>7, <1>8, <1>9 DEF IInv

\* Adjust leaves the Stability Pool to the operation that uses it, which at most
\* takes RBTC out.
LEMMA AdjustInv ==
  ASSUME IInv, NEW u \in Users, NEW collIn \in Nat, NEW collOut \in Nat,
         NEW borrow \in Nat, NEW repay \in Nat, NEW rate \in Nat,
         Adjust(u, collIn, collOut, borrow, repay, rate),
         stabilityPool' \in [BPD : {stabilityPool.BPD}, RBTC : Nat]
  PROVE  IInv'
<1> DEFINE fee == IF borrow > 0 /\ ~RecoveryMode THEN Fee(rate, borrow) ELSE 0
           coll == vaults[u].coll + AppliedRBTC(u)
           debt == vaults[u].debt + AppliedDebt(u)
           newColl == coll + collIn - collOut
           newDebt == debt + borrow + fee - repay
           stake == NewStake(newColl)
<1>1. fee \in Nat
  BY FeeNat
<1>2. AppliedRBTC(u) \in Nat /\ AppliedDebt(u) \in Nat
  BY PendingNat DEF IInv
<1>3. coll \in Nat /\ debt \in Nat
  BY <1>2 DEF IInv, TypeOK, Vault
<1> HIDE DEF fee, coll, debt
<1>4. newColl \in Nat /\ newDebt \in Nat
  <2>1. collOut <= coll /\ repay <= debt
    BY DEF Adjust, coll, debt
  <2> QED
    BY <1>1, <1>3, <2>1
<1> HIDE DEF newColl
<1>5. stake \in Nat
  BY <1>4, NewStakeNat DEF IInv, Adjust
<1> HIDE DEF newDebt, stake
<1>6. /\ u \in Active /\ vaults[u].stake <= totalStakes
      /\ AppliedRBTC(u) <= defaultPool.RBTC /\ AppliedDebt(u) <= defaultPool.BPDDebt
      /\ repay > 0 => bpd[u] >= repay
      /\ collOut <= activePool.RBTC + AppliedRBTC(u)
      /\ repay <= activePool.BPDDebt + AppliedDebt(u)
      /\ vaults' = [vaults EXCEPT ![u] =
           [status |-> "active", coll |-> newColl, debt |-> newDebt, stake |-> stake]]
      /\ snapshots' = [snapshots EXCEPT ![u] = SnapshotAfterApply(u)]
      /\ totalStakes' = totalStakes - vaults[u].stake + stake
      /\ activePool' = [RBTC    |-> activePool.RBTC + AppliedRBTC(u) + collIn - collOut,
                        BPDDebt |-> activePool.BPDDebt + AppliedDebt(u) + borrow + fee - repay]
      /\ defaultPool' = [RBTC    |-> defaultPool.RBTC - AppliedRBTC(u),
                         BPDDebt |-> defaultPool.BPDDebt - AppliedDebt(u)]
      /\ bpd' = [bpd EXCEPT ![u] = @ + borrow - repay, ![MPStaking] = @ + fee]
      /\ totalSupply' = totalSupply + borrow + fee - repay
      /\ UNCHANGED <<systemSnapshot, B, lastError, debtUnseen, surplus, surplusRBTC, price>>
  BY DEF Adjust, fee, coll, debt, newColl, newDebt, stake
<1>7. SnapshotAfterApply(u) \in {B, snapshots[u]}
  BY DEF SnapshotAfterApply
<1>8. SupplyIsDebt' /\ PoolHoldsDeposits'
  BY <1>1, <1>2, <1>6, AccountsAssumption
     DEF IInv, TypeOK, Reward, SupplyIsDebt, PoolHoldsDeposits, Accounts, Contracts
<1>9. activePool' \in Reward /\ defaultPool' \in Reward /\ totalSupply' \in Nat
  BY <1>1, <1>2, <1>6, <1>8 DEF IInv, TypeOK, Reward, SupplyIsDebt
<1>10. bpd' \in [Accounts -> Nat]
  BY <1>1, <1>6, AccountsAssumption DEF IInv, TypeOK, Accounts, Contracts
<1>11. vaults' \in [Users -> Vault] /\ totalStakes' \in Nat
  BY <1>4, <1>5, <1>6 DEF IInv, TypeOK, Vault, Statuses
<1>12. TypeOK'
  BY <1>6, <1>7, <1>9, <1>10, <1>11 DEF IInv, TypeOK
<1>13. Active' = Active
  BY <1>6 DEF Active, IInv, TypeOK
<1>14. SnapshotsBehind'
  BY <1>6, <1>7, <1>13 DEF IInv, TypeOK, SnapshotsBehind, Reward, Active
<1>15. GasPoolCoversVaults'
  BY <1>6, <1>13, AccountsAssumption DEF IInv, TypeOK, GasPoolCoversVaults, Accounts, Contracts
<1> QED
  BY <1>8, <1>12, <1>14, <1>15 DEF IInv

\* closeVault.
LEMMA CloseVaultInv ==
  ASSUME IInv, NEW u \in Users, CloseVault(u)
  PROVE  IInv'
<1> DEFINE coll == vaults[u].coll + AppliedRBTC(u)
           debt == vaults[u].debt + AppliedDebt(u)
           repaid == NetDebt(debt)
<1>1. AppliedRBTC(u) \in Nat /\ AppliedDebt(u) \in Nat
  BY PendingNat DEF IInv
<1>2. coll \in Nat /\ debt \in Nat
  BY <1>1 DEF IInv, TypeOK, Vault
<1>3. repaid \in Nat /\ debt = repaid + BPD_GAS_COMPENSATION
  <2>1. debt >= BPD_GAS_COMPENSATION
    BY DEF CloseVault
  <2> QED
    BY <1>2, <2>1, ParametersAssumption DEF NetDebt
<1>4. /\ u \in Active /\ vaults[u].stake <= totalStakes
      /\ AppliedRBTC(u) <= defaultPool.RBTC /\ AppliedDebt(u) <= defaultPool.BPDDebt
      /\ bpd[u] >= repaid /\ bpd[GasPool] >= BPD_GAS_COMPENSATION
      /\ vaults[u].coll <= activePool.RBTC /\ vaults[u].debt <= activePool.BPDDebt
      /\ vaults' = [vaults EXCEPT ![u] = ClosedVault(u, "closedByOwner")]
      /\ snapshots' = [snapshots EXCEPT ![u] = NoReward]
      /\ totalStakes' = totalStakes - vaults[u].stake
      /\ activePool' = [RBTC    |-> activePool.RBTC + AppliedRBTC(u) - coll,
                        BPDDebt |-> activePool.BPDDebt + AppliedDebt(u) - debt]
      /\ defaultPool' = [RBTC    |-> defaultPool.RBTC - AppliedRBTC(u),
                         BPDDebt |-> defaultPool.BPDDebt - AppliedDebt(u)]
      /\ bpd' = [bpd EXCEPT ![u] = @ - repaid, ![GasPool] = @ - BPD_GAS_COMPENSATION]
      /\ totalSupply' = totalSupply - debt
      /\ UNCHANGED <<systemSnapshot, B, lastError, debtUnseen, stabilityPool, surplus, surplusRBTC, price>>
  BY DEF CloseVault
<1>5. activePool' \in Reward /\ defaultPool' \in Reward
  BY <1>1, <1>2, <1>4 DEF IInv, TypeOK, Reward, Vault
<1> HIDE DEF repaid, debt, coll
<1>6. SupplyIsDebt' /\ PoolHoldsDeposits'
  BY <1>1, <1>2, <1>3, <1>4, AccountsAssumption
     DEF IInv, TypeOK, Reward, SupplyIsDebt, PoolHoldsDeposits, Accounts, Contracts
<1>7. totalSupply' \in Nat
  BY <1>5, <1>6 DEF Reward, SupplyIsDebt
<1>8. bpd' \in [Accounts -> Nat]
  BY <1>3, <1>4, AccountsAssumption, ParametersAssumption DEF IInv, TypeOK, Accounts, Contracts
<1>9. vaults' \in [Users -> Vault] /\ totalStakes' \in Nat /\ snapshots' \in [Users -> Reward]
  BY <1>4 DEF IInv, TypeOK, Vault, Statuses, ClosedVault, NoReward, Reward
<1>10. TypeOK'
  BY <1>4, <1>5, <1>7, <1>8, <1>9 DEF IInv, TypeOK
<1>11. Active' = Active \ {u}
  BY <1>4 DEF Active, IInv, TypeOK, ClosedVault, Vault
<1>12. SnapshotsBehind'
  BY <1>4, <1>11 DEF IInv, TypeOK, SnapshotsBehind, Active
<1>13. GasPoolCoversVaults'
  <2>1. Cardinality(Active') = Cardinality(Active) - 1
    BY <1>4, <1>11, ActiveIsFinite, FS_RemoveElement
  <2>2. bpd'[GasPool] = bpd[GasPool] - BPD_GAS_COMPENSATION
    BY <1>4, AccountsAssumption DEF IInv, TypeOK, Accounts, Contracts
  <2> QED
    BY <2>1, <2>2, ActiveIsFinite, ParametersAssumption DEF IInv, GasPoolCoversVaults
<1> QED
  BY <1>6, <1>10, <1>12, <1>13 DEF IInv

\* Closing the vaults of a set keeps the Gas Pool exact.
LEMMA GasOfClosed ==
  ASSUME IInv, NEW closed, closed \subseteq Active, Active' = Active \ closed,
         bpd'[GasPool] = bpd[GasPool] - GasCompensation(closed)
  PROVE  GasPoolCoversVaults'
<1>1. IsFiniteSet(closed) /\ Cardinality(closed) \in Nat
  BY ActiveIsFinite, FS_Subset, FS_CardinalityType
<1>2. Cardinality(Active') = Cardinality(Active) - Cardinality(closed)
  <2>1. Active \cap closed = closed
    OBVIOUS
  <2> QED
    <3>1. Cardinality(Active \ closed) = Cardinality(Active) - Cardinality(Active \cap closed)
      BY ActiveIsFinite, <1>1, FS_Difference
    <3> QED
      BY <2>1, <3>1
<1>3. ASSUME NEW gas \in Nat, NEW m \in Nat, NEW n \in Nat
      PROVE  gas * m - gas * n = gas * (m - n)
  OBVIOUS
<1>4. BPD_GAS_COMPENSATION * Cardinality(Active) - GasCompensation(closed)
        = BPD_GAS_COMPENSATION * Cardinality(Active')
  BY <1>1, <1>2, <1>3, ActiveIsFinite, ParametersAssumption DEF GasCompensation
<1> QED
  BY <1>4 DEF IInv, GasPoolCoversVaults

\* The gas compensation of any vaults is natural.
LEMMA GasCompensationNat ==
  ASSUME NEW S \in SUBSET Users
  PROVE  GasCompensation(S) \in Nat
<1>1. Cardinality(S) \in Nat
  BY AccountsAssumption, FS_Subset, FS_CardinalityType
<1> QED
  BY <1>1, ProductNat, ParametersAssumption DEF GasCompensation

\* Rewards only grow, and the errors kept are natural (_redistributeDebtAndColl).
LEMMA RedistributeTypes ==
  ASSUME TypeOK, NEW debt \in Nat, NEW coll \in Nat, NEW stakes \in Nat,
         Redistribute(debt, coll, stakes)
  PROVE  /\ B' \in Reward /\ lastError' \in Reward /\ debtUnseen' \in BOOLEAN
         /\ B.RBTC <= B'.RBTC /\ B.BPDDebt <= B'.BPDDebt
<1>1. B \in Reward /\ lastError \in Reward
  BY DEF TypeOK
<1>2. CASE debt = 0
  BY <1>1, <1>2 DEF Redistribute, Reward, TypeOK
<1>3. CASE debt # 0
  <2>1. stakes \in Nat \ {0}
    BY <1>3 DEF Redistribute
  <2>2. ASSUME NEW x \in Nat, NEW error \in Nat
        PROVE  RewardPerUnit(x, error, stakes) \in Nat /\ RewardError(x, error, stakes) \in Nat
    <3> DEFINE y == x * DECIMAL_PRECISION + error
    <3>1. y \in Nat
      BY ParametersAssumption, ProductNat
    <3>2. /\ RewardPerUnit(x, error, stakes) = y \div stakes
          /\ RewardError(x, error, stakes) = y - (y \div stakes) * stakes
      BY DEF RewardPerUnit, RewardError
    <3> HIDE DEF y
    <3>3. y \div stakes \in Nat
      BY <2>1, <3>1, DivisionNat
    <3>4. y - (y \div stakes) * stakes \in Nat
      BY <2>1, <3>1, RemainderNat
    <3> QED
      BY <3>2, <3>3, <3>4
  <2>3. /\ RewardPerUnit(coll, lastError.RBTC, stakes) \in Nat
        /\ RewardPerUnit(debt, lastError.BPDDebt, stakes) \in Nat
        /\ RewardError(coll, lastError.RBTC, stakes) \in Nat
        /\ RewardError(debt, lastError.BPDDebt, stakes) \in Nat
    BY <1>1, <2>2 DEF Reward
  <2>4. /\ B' = [RBTC    |-> B.RBTC + RewardPerUnit(coll, lastError.RBTC, stakes),
                 BPDDebt |-> B.BPDDebt + RewardPerUnit(debt, lastError.BPDDebt, stakes)]
        /\ lastError' = [RBTC    |-> RewardError(coll, lastError.RBTC, stakes),
                         BPDDebt |-> RewardError(debt, lastError.BPDDebt, stakes)]
    BY <1>3 DEF Redistribute
  <2>5. debtUnseen' \in BOOLEAN
    BY <1>3 DEF Redistribute
  <2> QED
    BY <1>1, <2>3, <2>4, <2>5 DEF Reward
<1> QED
  BY <1>2, <1>3

\* liquidateVaults and batchLiquidateVaults, whatever the loop tallied.
LEMMA SettleLiquidationInv ==
  ASSUME IInv, NEW liquidator \in Users, NEW t, SettleLiquidation(liquidator, t)
  PROVE  IInv'
<1> DEFINE closed == t.closed \cap Active
           pending == PendingOf(closed)
           stakes == totalStakes - Sum([u \in Users |-> vaults[u].stake], closed)
           surplusOut == Sum(t.surplus, Users)
           gasBPD == GasCompensation(closed)
           active == [RBTC |-> activePool.RBTC + pending.RBTC - t.collToSP - t.collRedist
                               - surplusOut - t.collGas,
                      BPDDebt |-> activePool.BPDDebt + pending.BPDDebt - t.debtOffset - t.debtRedist]
           default == [RBTC |-> defaultPool.RBTC - pending.RBTC + t.collRedist,
                       BPDDebt |-> defaultPool.BPDDebt - pending.BPDDebt + t.debtRedist]
<1>1. /\ t.debtOffset \in Nat /\ t.collToSP \in Nat /\ t.debtRedist \in Nat
      /\ t.collRedist \in Nat /\ t.collGas \in Nat /\ t.surplus \in [Users -> Nat]
  BY DEF SettleLiquidation, TallyIsValid
<1>2. /\ pending \in Reward /\ surplusOut \in Nat /\ stakes \in Nat /\ active \in Reward
      /\ pending.RBTC <= defaultPool.RBTC /\ pending.BPDDebt <= defaultPool.BPDDebt
      /\ t.debtOffset <= stabilityPool.BPD /\ gasBPD <= bpd[GasPool]
  BY DEF SettleLiquidation
<1>3. /\ vaults' = [u \in Users |->
                      IF u \in closed THEN ClosedVault(u, "closedByLiquidation") ELSE vaults[u]]
      /\ snapshots' = [u \in Users |-> IF u \in closed THEN NoReward ELSE snapshots[u]]
      /\ totalStakes' = stakes
      /\ Redistribute(t.debtRedist, t.collRedist, stakes)
      /\ activePool' = active /\ defaultPool' = default
      /\ systemSnapshot' = [stakes |-> stakes, coll |-> active.RBTC + default.RBTC]
      /\ stabilityPool' = [BPD |-> stabilityPool.BPD - t.debtOffset, RBTC |-> stabilityPool.RBTC + t.collToSP]
      /\ surplus' = [u \in Users |-> surplus[u] + t.surplus[u]]
      /\ surplusRBTC' = surplusRBTC + surplusOut
      /\ bpd' = [bpd EXCEPT ![StabilityPool] = @ - t.debtOffset, ![GasPool] = @ - gasBPD,
                            ![liquidator] = @ + gasBPD]
      /\ totalSupply' = totalSupply - t.debtOffset
      /\ price' = price
  BY DEF SettleLiquidation
<1>4. gasBPD \in Nat /\ gasBPD = GasCompensation(closed)
  BY GasCompensationNat DEF Active
<1>5. closed \subseteq Active
  OBVIOUS
<1>6. active.BPDDebt = activePool.BPDDebt + pending.BPDDebt - t.debtOffset - t.debtRedist
  OBVIOUS
<1>7. default \in Reward /\ default.BPDDebt = defaultPool.BPDDebt - pending.BPDDebt + t.debtRedist
  BY <1>1, <1>2 DEF IInv, TypeOK, Reward
<1> HIDE DEF closed, pending, stakes, surplusOut, gasBPD, active, default
<1>8. /\ B' \in Reward /\ lastError' \in Reward /\ debtUnseen' \in BOOLEAN
      /\ B.RBTC <= B'.RBTC /\ B.BPDDebt <= B'.BPDDebt
  <2>1. PICK s \in Nat : s = stakes
    BY <1>2
  <2>2. Redistribute(t.debtRedist, t.collRedist, s)
    BY <1>3, <2>1 DEF Redistribute
  <2> QED
    BY <1>1, <2>2, RedistributeTypes DEF IInv
<1>9. SupplyIsDebt'
  <2>1. /\ activePool'.BPDDebt = activePool.BPDDebt + pending.BPDDebt - t.debtOffset - t.debtRedist
        /\ defaultPool'.BPDDebt = defaultPool.BPDDebt - pending.BPDDebt + t.debtRedist
        /\ totalSupply' = totalSupply - t.debtOffset
    BY <1>3, <1>6, <1>7
  <2>2. /\ activePool.BPDDebt \in Nat /\ defaultPool.BPDDebt \in Nat /\ pending.BPDDebt \in Nat
        /\ totalSupply = activePool.BPDDebt + defaultPool.BPDDebt
    BY <1>2 DEF IInv, TypeOK, Reward, SupplyIsDebt
  <2> QED
    BY <1>1, <2>1, <2>2 DEF SupplyIsDebt
<1>10. totalSupply' \in Nat
  BY <1>2, <1>3, <1>7, <1>9 DEF Reward, SupplyIsDebt
<1>11. PoolHoldsDeposits' /\ bpd'[GasPool] = bpd[GasPool] - gasBPD
  BY <1>1, <1>3, <1>4, AccountsAssumption
     DEF IInv, TypeOK, PoolHoldsDeposits, Accounts, Contracts
<1>12. bpd' \in [Accounts -> Nat]
  BY <1>1, <1>2, <1>3, <1>4, AccountsAssumption
     DEF IInv, TypeOK, PoolHoldsDeposits, Accounts, Contracts
<1>13. vaults' \in [Users -> Vault] /\ snapshots' \in [Users -> Reward]
  BY <1>3 DEF IInv, TypeOK, Vault, Statuses, ClosedVault, NoReward, Reward
<1>14. /\ totalStakes' \in Nat /\ activePool' \in Reward /\ defaultPool' \in Reward
       /\ stabilityPool' \in [BPD : Nat, RBTC : Nat]
       /\ systemSnapshot' \in [stakes : Nat, coll : Nat]
       /\ surplus' \in [Users -> Nat] /\ surplusRBTC' \in Nat
  BY <1>1, <1>2, <1>3, <1>7 DEF IInv, TypeOK, Reward
<1>15. TypeOK'
  BY <1>3, <1>8, <1>10, <1>12, <1>13, <1>14 DEF IInv, TypeOK
<1>16. Active' = Active \ closed
  BY <1>3, <1>5 DEF Active, ClosedVault, IInv, TypeOK
<1>17. SnapshotsBehind'
  <2> SUFFICES ASSUME NEW u \in Active'
               PROVE  snapshots'[u].RBTC <= B'.RBTC /\ snapshots'[u].BPDDebt <= B'.BPDDebt
    BY DEF SnapshotsBehind
  <2>1. u \in Active /\ u \in Users /\ snapshots'[u] = snapshots[u]
    BY <1>3, <1>16 DEF Active
  <2> QED
    BY <1>8, <2>1 DEF IInv, TypeOK, SnapshotsBehind, Reward
<1>18. GasPoolCoversVaults'
  BY <1>4, <1>5, <1>11, <1>16, GasOfClosed
<1> QED
  BY <1>9, <1>11, <1>15, <1>17, <1>18 DEF IInv

\* The three calls that liquidate.
LEMMA LiquidationInv ==
  ASSUME IInv, NEW u \in Users, Liquidation(u)
  PROVE  IInv'
<1>1. ASSUME NEW v \in Users, Liquidate(u, v)
      PROVE  IInv'
  BY <1>1, SettleLiquidationInv DEF Liquidate, BatchLiquidateVaults
<1>2. ASSUME NEW v \in Users, NEW w \in Users, BatchLiquidateVaults(u, <<v, w>>)
      PROVE  IInv'
  BY <1>2, SettleLiquidationInv DEF BatchLiquidateVaults
<1>3. ASSUME NEW n \in 1..Cardinality(Users), LiquidateVaults(u, n)
      PROVE  IInv'
  BY <1>3, SettleLiquidationInv DEF LiquidateVaults
<1> QED
  BY <1>1, <1>2, <1>3 DEF Liquidation

\* A vault a redemption went through.
LEMMA RedeemedVaultType ==
  ASSUME IInv, NEW t, NEW rate, RedemptionIsValid(t, rate), NEW u \in Users
  PROVE  /\ RedeemedVault(t, u) \in Vault
         /\ u \in t.closed => RedeemedVault(t, u).status = "closedByRedemption"
         /\ u \notin t.closed => (RedeemedVault(t, u).status = "active" <=> u \in Active)
<1>1. AppliedRBTC(u) \in Nat /\ AppliedDebt(u) \in Nat
  BY PendingNat DEF IInv
<1>2. vaults[u] \in Vault /\ t.lot \in Nat /\ t.rbtcLot \in Nat /\ t.closed \cup t.partial \subseteq Active
  BY DEF IInv, TypeOK, RedemptionIsValid
<1>3. CASE u \in t.closed
  <2>1. RedeemedVault(t, u) = ClosedVault(u, "closedByRedemption")
    BY <1>3 DEF RedeemedVault
  <2> QED
    BY <1>3, <2>1 DEF ClosedVault, Vault, Statuses
<1>4. CASE u \notin t.closed /\ u \in t.partial
  <2> DEFINE coll == (vaults[u].coll + AppliedRBTC(u)) - t.rbtcLot
             debt == (vaults[u].debt + AppliedDebt(u)) - t.lot
  <2>1. coll \in Nat /\ debt \in Nat
    BY <1>1, <1>2, <1>4 DEF RedemptionIsValid, Vault
  <2>2. NewStake(coll) \in Nat
    BY <1>4, <2>1, NewStakeNat DEF RedemptionIsValid, IInv
  <2>3. RedeemedVault(t, u) = [status |-> "active", coll |-> coll, debt |-> debt, stake |-> NewStake(coll)]
    BY <1>4 DEF RedeemedVault
  <2> HIDE DEF coll, debt
  <2> QED
    BY <1>2, <1>4, <2>1, <2>2, <2>3 DEF Vault, Statuses
<1>5. CASE u \notin t.closed /\ u \notin t.partial /\ u \in t.applied
  <2>1. RedeemedVault(t, u) = [status |-> vaults[u].status, coll |-> vaults[u].coll + AppliedRBTC(u),
                               debt |-> vaults[u].debt + AppliedDebt(u), stake |-> vaults[u].stake]
    BY <1>5 DEF RedeemedVault
  <2> QED
    BY <1>1, <1>2, <1>5, <2>1 DEF Vault, Active
<1>6. CASE u \notin t.closed /\ u \notin t.partial /\ u \notin t.applied
  BY <1>2, <1>6 DEF RedeemedVault, Active
<1> QED
  BY <1>3, <1>4, <1>5, <1>6

\* What redeemCollateral settles after its loop.
LEMMA SettleRedemptionInv ==
  ASSUME IInv, NEW redeemer \in Users, NEW t, NEW rate,
         RedemptionIsValid(t, rate), SettleRedemption(redeemer, t)
  PROVE  IInv'
<1> DEFINE closed == t.closed
           pending == [RBTC    |-> Sum([u \in Users |-> AppliedRBTC(u)], t.applied),
                       BPDDebt |-> Sum([u \in Users |-> AppliedDebt(u)], t.applied)]
           after == [u \in Users |-> RedeemedVault(t, u)]
           touched == closed \cup t.partial
           stakes == totalStakes - Sum([u \in Users |-> vaults[u].stake], touched)
                                 + Sum([u \in Users |-> after[u].stake], t.partial)
           surplusOut == Sum(t.surplus, Users)
           gasBPD == GasCompensation(closed)
           active == [RBTC    |-> activePool.RBTC + pending.RBTC - t.drawn - surplusOut,
                      BPDDebt |-> activePool.BPDDebt + pending.BPDDebt - t.redeemed - gasBPD]
<1>1. /\ t.redeemed \in Nat /\ t.drawn \in Nat /\ t.surplus \in [Users -> Nat]
      /\ closed \subseteq Active
  BY DEF RedemptionIsValid
<1>2. /\ pending \in Reward /\ surplusOut \in Nat /\ stakes \in Nat /\ active \in Reward
      /\ pending.RBTC <= defaultPool.RBTC /\ pending.BPDDebt <= defaultPool.BPDDebt
      /\ t.redeemed <= bpd[redeemer] /\ gasBPD <= bpd[GasPool]
  BY DEF SettleRedemption
<1>3. /\ vaults' = after
      /\ snapshots' = [u \in Users |-> IF u \in closed THEN NoReward
                         ELSE IF u \in t.applied THEN SnapshotAfterApply(u) ELSE snapshots[u]]
      /\ totalStakes' = stakes
      /\ activePool' = active
      /\ defaultPool' = [RBTC    |-> defaultPool.RBTC - pending.RBTC,
                         BPDDebt |-> defaultPool.BPDDebt - pending.BPDDebt]
      /\ surplus' = [u \in Users |-> surplus[u] + t.surplus[u]]
      /\ surplusRBTC' = surplusRBTC + surplusOut
      /\ bpd' = [bpd EXCEPT ![redeemer] = @ - t.redeemed, ![GasPool] = @ - gasBPD]
      /\ totalSupply' = totalSupply - t.redeemed - gasBPD
      /\ UNCHANGED <<systemSnapshot, B, lastError, debtUnseen, stabilityPool, price>>
  BY DEF SettleRedemption
<1>4. gasBPD \in Nat /\ gasBPD = GasCompensation(closed)
  BY <1>1, GasCompensationNat DEF Active
<1>5. active.BPDDebt = activePool.BPDDebt + pending.BPDDebt - t.redeemed - gasBPD
  OBVIOUS
<1>6. /\ after \in [Users -> Vault]
      /\ \A u \in Users : after[u].status = "active" <=> u \in Active \ closed
  BY <1>1, RedeemedVaultType
<1>7. \A u \in Users : SnapshotAfterApply(u) \in {B, snapshots[u]}
  BY DEF SnapshotAfterApply
<1> HIDE DEF closed, pending, after, stakes, surplusOut, gasBPD, active
<1>8. SupplyIsDebt'
  BY <1>1, <1>2, <1>3, <1>4, <1>5 DEF IInv, TypeOK, Reward, SupplyIsDebt
<1>9. activePool' \in Reward /\ defaultPool' \in Reward /\ totalSupply' \in Nat
  BY <1>2, <1>3, <1>8 DEF IInv, TypeOK, Reward, SupplyIsDebt
<1>10. PoolHoldsDeposits' /\ bpd'[GasPool] = bpd[GasPool] - gasBPD
  BY <1>1, <1>3, <1>4, AccountsAssumption
     DEF IInv, TypeOK, PoolHoldsDeposits, Accounts, Contracts
<1>11. bpd' \in [Accounts -> Nat]
  BY <1>1, <1>2, <1>3, <1>4, AccountsAssumption DEF IInv, TypeOK, Accounts, Contracts
<1>12. snapshots' \in [Users -> Reward]
  BY <1>3, <1>7 DEF IInv, TypeOK, NoReward, Reward
<1>13. TypeOK'
  BY <1>1, <1>2, <1>3, <1>6, <1>9, <1>11, <1>12 DEF IInv, TypeOK
<1>14. Active' = Active \ closed
  BY <1>1, <1>3, <1>6 DEF Active
<1>15. SnapshotsBehind'
  <2> SUFFICES ASSUME NEW u \in Active'
               PROVE  snapshots'[u].RBTC <= B'.RBTC /\ snapshots'[u].BPDDebt <= B'.BPDDebt
    BY DEF SnapshotsBehind
  <2>1. u \in Active /\ u \in Users /\ snapshots'[u] \in {B, snapshots[u]} /\ B' = B
    BY <1>3, <1>7, <1>14 DEF Active
  <2> QED
    BY <2>1 DEF IInv, TypeOK, SnapshotsBehind, Reward
<1>16. GasPoolCoversVaults'
  BY <1>1, <1>4, <1>10, <1>14, GasOfClosed
<1> QED
  BY <1>8, <1>10, <1>13, <1>15, <1>16 DEF IInv

\* redeemCollateral.
LEMMA RedemptionInv ==
  ASSUME IInv, NEW u \in Users, Redemption(u)
  PROVE  IInv'
<1>1. PICK a \in Amounts, n \in 1..Cardinality(Users), hint \in {{}} \cup {{v} : v \in Users},
           hintFresh \in BOOLEAN, rate \in RedemptionRates :
        RedeemCollateral(u, a, n, hint, hintFresh, rate)
  BY DEF Redemption
<1>2. PICK t : RedemptionIsValid(t, rate) /\ SettleRedemption(u, t)
  BY <1>1 DEF RedeemCollateral
<1> QED
  BY <1>2, SettleRedemptionInv

\* The calls of BorrowerOperations.
LEMMA BorrowerOperationInv ==
  ASSUME IInv, NEW u \in Users, BorrowerOperation(u)
  PROVE  IInv'
<1>1. Colls \subseteq Nat /\ Amounts \subseteq Nat /\ BorrowingRates \subseteq Nat
  BY ParametersAssumption
<1>2. stabilityPool' = stabilityPool => stabilityPool' \in [BPD : {stabilityPool.BPD}, RBTC : Nat]
  BY DEF IInv, TypeOK
<1>3. ASSUME NEW c \in Colls, NEW a \in Amounts, NEW r \in BorrowingRates, OpenVault(u, c, a, r)
      PROVE  IInv'
  BY <1>1, <1>3, OpenVaultInv
<1>4. ASSUME NEW c \in Colls, AddColl(u, c) \/ WithdrawColl(u, c)
      PROVE  IInv'
  BY <1>1, <1>2, <1>4, AdjustInv DEF AddColl, WithdrawColl
<1>5. ASSUME NEW a \in Amounts, NEW r \in BorrowingRates, WithdrawBPD(u, a, r)
      PROVE  IInv'
  BY <1>1, <1>2, <1>5, AdjustInv DEF WithdrawBPD
<1>6. ASSUME NEW a \in Amounts, RepayBPD(u, a)
      PROVE  IInv'
  BY <1>1, <1>2, <1>6, AdjustInv DEF RepayBPD
<1>7. ASSUME NEW c \in Colls, NEW a \in Amounts, NEW r \in BorrowingRates,
             \/ AdjustVault(u, c, 0, a, 0, r) \/ AdjustVault(u, c, 0, 0, a, r)
             \/ AdjustVault(u, 0, c, a, 0, r) \/ AdjustVault(u, 0, c, 0, a, r)
      PROVE  IInv'
  BY <1>1, <1>2, <1>7, AdjustInv DEF AdjustVault
<1> QED
  BY <1>3, <1>4, <1>5, <1>6, <1>7, CloseVaultInv DEF BorrowerOperation

\* What leaves vaults and BPD debt alone: only types and the pool's BPD are disturbed.
LEMMA StabilityPoolOperationInv ==
  ASSUME IInv, NEW u \in Users, StabilityPoolOperation(u)
  PROVE  IInv'
<1>1. Amounts \subseteq Nat /\ 0 \in Nat
  BY ParametersAssumption
<1>2. PICK g \in {0, stabilityPool.RBTC} :
        \/ \E a \in Amounts : ProvideToSP(u, a, g) \/ WithdrawFromSP(u, a, g)
        \/ WithdrawFromSP(u, 0, g)
        \/ MoveRBTCGainToVault(u, g)
  BY DEF StabilityPoolOperation
<1>3. g \in Nat
  BY DEF IInv, TypeOK
<1>4. ASSUME NEW a \in Nat, ProvideToSP(u, a, g) \/ WithdrawFromSP(u, a, g)
      PROVE  IInv'
  <2>1. TypeOK'
    <3>1. CASE ProvideToSP(u, a, g)
      BY <1>3, <3>1, AccountsAssumption
         DEF ProvideToSP, vmVars, IInv, TypeOK, Accounts, Contracts
    <3>2. CASE WithdrawFromSP(u, a, g)
      BY <1>3, <3>2, AccountsAssumption
         DEF WithdrawFromSP, vmVars, IInv, TypeOK, PoolHoldsDeposits, Accounts, Contracts
    <3> QED
      BY <1>4, <3>1, <3>2
  <2>2. Active' = Active /\ snapshots' = snapshots /\ B' = B
    BY <1>4 DEF ProvideToSP, WithdrawFromSP, vmVars, Active
  <2>3. SupplyIsDebt' /\ SnapshotsBehind'
    BY <1>4, <2>2 DEF ProvideToSP, WithdrawFromSP, IInv, SupplyIsDebt, SnapshotsBehind
  <2>4. PoolHoldsDeposits' /\ bpd'[GasPool] = bpd[GasPool]
    BY <1>4, AccountsAssumption
       DEF ProvideToSP, WithdrawFromSP, IInv, TypeOK, PoolHoldsDeposits, Accounts, Contracts
  <2>5. GasPoolCoversVaults'
    BY <2>2, <2>4 DEF IInv, GasPoolCoversVaults
  <2> QED
    BY <2>1, <2>3, <2>4, <2>5 DEF IInv
<1>5. CASE MoveRBTCGainToVault(u, g)
  <2>1. stabilityPool' \in [BPD : {stabilityPool.BPD}, RBTC : Nat]
    BY <1>3, <1>5 DEF MoveRBTCGainToVault, IInv, TypeOK
  <2> QED
    BY <1>1, <1>3, <1>5, <2>1, AdjustInv DEF MoveRBTCGainToVault
<1> QED
  BY <1>1, <1>2, <1>4, <1>5

\* Users' BPD and surplus move, or the price does.
LEMMA OtherStepsInv ==
  ASSUME IInv, NEW u \in Users,
         \/ ClaimCollateral(u) \/ PayOutFees(u)
         \/ \E v \in Users : Transfer(u, v, bpd[u])
         \/ \E p \in Prices : PriceMoves(p)
  PROVE  IInv'
<1>1. Active' = Active /\ snapshots' = snapshots /\ B' = B
  BY DEF ClaimCollateral, PayOutFees, Transfer, PriceMoves, vmVars, Active
<1>2. SupplyIsDebt' /\ SnapshotsBehind'
  BY <1>1 DEF ClaimCollateral, PayOutFees, Transfer, PriceMoves, bpdVars, poolVars,
              IInv, SupplyIsDebt, SnapshotsBehind
<1>3. PoolHoldsDeposits' /\ bpd'[GasPool] = bpd[GasPool]
  BY AccountsAssumption
     DEF ClaimCollateral, PayOutFees, Transfer, PriceMoves, bpdVars, poolVars,
         IInv, TypeOK, PoolHoldsDeposits, Accounts, Contracts
<1>4. GasPoolCoversVaults'
  BY <1>1, <1>3 DEF IInv, GasPoolCoversVaults
<1>5. TypeOK'
  <2>1. CASE ClaimCollateral(u)
    BY <2>1 DEF ClaimCollateral, vmVars, bpdVars, IInv, TypeOK
  <2>2. CASE PayOutFees(u)
    BY <2>2, AccountsAssumption DEF PayOutFees, vmVars, poolVars, IInv, TypeOK, Accounts, Contracts
  <2>3. ASSUME NEW v \in Users, Transfer(u, v, bpd[u])
        PROVE  TypeOK'
    BY <2>3 DEF Transfer, vmVars, poolVars, IInv, TypeOK, Accounts
  <2>4. ASSUME NEW p \in Prices, PriceMoves(p)
        PROVE  TypeOK'
    BY <2>4 DEF PriceMoves, vmVars, poolVars, bpdVars, IInv, TypeOK
  <2> QED
    BY <2>1, <2>2, <2>3, <2>4
<1> QED
  BY <1>2, <1>3, <1>4, <1>5 DEF IInv

----------------------------------------------------------------------------
\* The inductive argument.

\* The contracts as deployed.
LEMMA InitInv == Init => IInv
<1> SUFFICES ASSUME Init PROVE IInv
  OBVIOUS
<1>1. Active = {}
  BY DEF Init, Active
<1>2. TypeOK
  BY ParametersAssumption DEF Init, TypeOK, NoReward, Reward, Vault, Statuses
<1>3. SupplyIsDebt /\ PoolHoldsDeposits /\ SnapshotsBehind
  BY <1>1 DEF Init, SupplyIsDebt, PoolHoldsDeposits, SnapshotsBehind, NoReward, Accounts, Contracts
<1>4. GasPoolCoversVaults
  BY <1>1, FS_EmptySet, ParametersAssumption DEF Init, GasPoolCoversVaults, Accounts, Contracts
<1> QED
  BY <1>2, <1>3, <1>4 DEF IInv

\* Every transaction keeps the invariant.
LEMMA NextInv == IInv /\ [Next]_vars => IInv'
<1> SUFFICES ASSUME IInv, [Next]_vars PROVE IInv'
  OBVIOUS
<1>1. ASSUME NEW u \in Users,
             \/ BorrowerOperation(u) \/ ClaimCollateral(u)
             \/ Liquidation(u) \/ Redemption(u) \/ StabilityPoolOperation(u)
             \/ PayOutFees(u) \/ \E v \in Users : Transfer(u, v, bpd[u])
      PROVE  IInv'
  BY <1>1, BorrowerOperationInv, LiquidationInv, RedemptionInv, StabilityPoolOperationInv,
     OtherStepsInv
<1>2. ASSUME NEW p \in Prices, PriceMoves(p)
      PROVE  IInv'
  BY <1>2 DEF PriceMoves, vmVars, poolVars, bpdVars, IInv, TypeOK, SnapshotsBehind, SupplyIsDebt,
              PoolHoldsDeposits, GasPoolCoversVaults, Active
<1>3. CASE UNCHANGED vars
  BY <1>3 DEF vars, vmVars, poolVars, bpdVars, IInv, TypeOK, SnapshotsBehind, SupplyIsDebt,
              PoolHoldsDeposits, GasPoolCoversVaults, Active
<1> QED
  BY <1>1, <1>2, <1>3 DEF Next

\* The inductive invariant holds in every reachable state.
THEOREM SpecInv == Spec => []IInv
<1>1. Init => IInv
  BY InitInv
<1>2. IInv /\ [Next]_vars => IInv'
  BY NextInv
<1> QED
  BY <1>1, <1>2, PTL DEF Spec

\* Every quantity is a natural number: no SafeMath subtraction of the transactions
\* that succeed goes below zero, totalSupply and the pools included.
THEOREM TypeCorrect == Spec => []TypeOK
<1>1. IInv => TypeOK
  BY DEF IInv
<1> QED
  BY <1>1, SpecInv, PTL

\* The BPD in existence is exactly the debt that ActivePool and DefaultPool record,
\* through borrowing, repaying, liquidations, redemptions and fees.
THEOREM SupplyIsAlwaysDebt == Spec => []SupplyIsDebt
<1>1. IInv => SupplyIsDebt
  BY DEF IInv
<1> QED
  BY <1>1, SpecInv, PTL

\* The Gas Pool always holds the compensation of each active vault, so closing or
\* liquidating a vault can always burn or pay it.
THEOREM GasPoolAlwaysCoversVaults == Spec => []GasPoolCoversVaults
<1>1. IInv => GasPoolCoversVaults
  BY DEF IInv
<1> QED
  BY <1>1, SpecInv, PTL

\* The Stability Pool always holds the BPD it counts as deposits.
THEOREM PoolAlwaysHoldsDeposits == Spec => []PoolHoldsDeposits
<1>1. IInv => PoolHoldsDeposits
  BY DEF IInv
<1> QED
  BY <1>1, SpecInv, PTL

----------------------------------------------------------------------------
\* The list: removals and insertions keep its vaults distinct.

\* list holds the vaults of S, each once.
ListOf(list, S) == list \in Seq(Users) /\ Range(list) = S /\ Distinct(list)

\* SortedVaults.remove leaves a list of the vaults that remain.
LEMMA WithoutList ==
  ASSUME NEW list, NEW A, ListOf(list, A), NEW S
  PROVE  ListOf(Without(list, S), A \ S)
BY WithoutProperties DEF ListOf

\* SortedVaults.insert, at any position, gives a list of the vaults with the new one.
LEMMA InsertedList ==
  ASSUME NEW list, NEW A, ListOf(list, A), NEW u \in Users, u \notin A, NEW x,
         NEW r \in Inserted(list, u, x)
  PROVE  ListOf(r, A \cup {u})
<1>1. PICK i \in 1..(Len(list) + 1) : r = InsertAt(list, i, u)
  BY DEF Inserted, Insertions
<1> QED BY <1>1, InsertProperties DEF ListOf

\* A list of distinct vaults is as long as their set is large.
LEMMA ListLength ==
  ASSUME NEW list, NEW S, ListOf(list, S)
  PROVE  Len(list) = Cardinality(S)
<1>1. list \in [1..Len(list) -> S] /\ Len(list) \in Nat
  BY DEF ListOf, Range
<1>2. \A a, b \in 1..Len(list) : list[a] = list[b] => a = b
  BY DEF ListOf, Distinct
<1>3. \A y \in S : \E i \in 1..Len(list) : list[i] = y
  BY <1>1 DEF ListOf, Range
<1>4. list \in Bijection(1..Len(list), S)
  BY <1>1, <1>2, <1>3, Fun_IsBij
<1> QED BY <1>1, <1>4, FS_CountingElements DEF ExistsBijection

----------------------------------------------------------------------------
\* The inductive invariant of the accounting, over IInv.

\* The debt of a vault never falls below the minimum (openVault, repayBPD and a
\* partial redemption check it), so no liquidation divides by zero.
DebtAboveMin == \A u \in Active : NetDebt(vaults[u].debt) >= MIN_NET_DEBT

AccountsInv ==
  /\ ListOf(sortedVaults, Active)
  /\ DebtAboveMin
  /\ TotalStakesIsSum
  /\ SurplusIsBacked
  /\ ActivePoolIsVaults

\* One vault changes: each total changes by as much.
LEMMA OneVaultChanges ==
  ASSUME TypeOK, NEW u \in Users, NEW v \in Vault, vaults' = [vaults EXCEPT ![u] = v]
  PROVE  /\ Sum([w \in Users |-> vaults'[w].coll], Users)
              = Sum([w \in Users |-> vaults[w].coll], Users) - vaults[u].coll + v.coll
         /\ Sum([w \in Users |-> vaults'[w].debt], Users)
              = Sum([w \in Users |-> vaults[w].debt], Users) - vaults[u].debt + v.debt
         /\ Sum([w \in Users |-> vaults'[w].stake], Users)
              = Sum([w \in Users |-> vaults[w].stake], Users) - vaults[u].stake + v.stake
<1>1. /\ \A w \in Users : vaults[w] \in Vault
      /\ vaults'[u] = v
      /\ \A w \in Users \ {u} : vaults'[w] = vaults[w]
  BY DEF TypeOK
<1>2. IsFiniteSet(Users)
  BY AccountsAssumption
<1>3. Sum([w \in Users |-> vaults'[w].coll], Users)
        = Sum([w \in Users |-> vaults[w].coll], Users) - vaults[u].coll + v.coll
  <2> DEFINE f == [w \in Users |-> vaults[w].coll]
             g == [w \in Users |-> vaults'[w].coll]
  <2>1. /\ u \in Users /\ \A w \in Users : f[w] \in Int
        /\ g[u] \in Int
        /\ \A w \in Users \ {u} : g[w] = f[w]
    BY <1>1 DEF Vault
  <2>2. g[u] = v.coll /\ f[u] = vaults[u].coll
    BY <1>1
  <2> HIDE DEF f, g
  <2>3. SumFunctionOnSet(g, Users) = SumFunctionOnSet(f, Users) - f[u] + g[u]
    BY ONLY <1>2, <2>1, SumUpdate
  <2> QED BY <2>2, <2>3 DEF f, g, Sum
<1>4. Sum([w \in Users |-> vaults'[w].debt], Users)
        = Sum([w \in Users |-> vaults[w].debt], Users) - vaults[u].debt + v.debt
  <2> DEFINE f == [w \in Users |-> vaults[w].debt]
             g == [w \in Users |-> vaults'[w].debt]
  <2>1. /\ u \in Users /\ \A w \in Users : f[w] \in Int
        /\ g[u] \in Int
        /\ \A w \in Users \ {u} : g[w] = f[w]
    BY <1>1 DEF Vault
  <2>2. g[u] = v.debt /\ f[u] = vaults[u].debt
    BY <1>1
  <2> HIDE DEF f, g
  <2>3. SumFunctionOnSet(g, Users) = SumFunctionOnSet(f, Users) - f[u] + g[u]
    BY ONLY <1>2, <2>1, SumUpdate
  <2> QED BY <2>2, <2>3 DEF f, g, Sum
<1>5. Sum([w \in Users |-> vaults'[w].stake], Users)
        = Sum([w \in Users |-> vaults[w].stake], Users) - vaults[u].stake + v.stake
  <2> DEFINE f == [w \in Users |-> vaults[w].stake]
             g == [w \in Users |-> vaults'[w].stake]
  <2>1. /\ u \in Users /\ \A w \in Users : f[w] \in Int
        /\ g[u] \in Int
        /\ \A w \in Users \ {u} : g[w] = f[w]
    BY <1>1 DEF Vault
  <2>2. g[u] = v.stake /\ f[u] = vaults[u].stake
    BY <1>1
  <2> HIDE DEF f, g
  <2>3. SumFunctionOnSet(g, Users) = SumFunctionOnSet(f, Users) - f[u] + g[u]
    BY ONLY <1>2, <2>1, SumUpdate
  <2> QED BY <2>2, <2>3 DEF f, g, Sum
<1> QED BY <1>3, <1>4, <1>5

\* The totals are integers.
LEMMA TotalsInt ==
  ASSUME TypeOK
  PROVE  /\ Sum([w \in Users |-> vaults[w].coll], Users) \in Int
         /\ Sum([w \in Users |-> vaults[w].debt], Users) \in Int
         /\ Sum([w \in Users |-> vaults[w].stake], Users) \in Int
         /\ Sum(surplus, Users) \in Int
BY AccountsAssumption, SumInt DEF TypeOK, Vault, Sum
\* Totals that change by what the vault does stay exact.
LEMMA OneVaultAccounts ==
  ASSUME TypeOK, TotalStakesIsSum, ActivePoolIsVaults,
         NEW u \in Users, NEW v \in Vault, vaults' = [vaults EXCEPT ![u] = v],
         totalStakes' = totalStakes - vaults[u].stake + v.stake,
         activePool'.RBTC = activePool.RBTC - vaults[u].coll + v.coll,
         activePool'.BPDDebt = activePool.BPDDebt - vaults[u].debt + v.debt
  PROVE  TotalStakesIsSum' /\ ActivePoolIsVaults'
<1>1. /\ Sum([w \in Users |-> vaults'[w].coll], Users) = activePool'.RBTC
      /\ Sum([w \in Users |-> vaults'[w].debt], Users) = activePool'.BPDDebt
      /\ Sum([w \in Users |-> vaults'[w].stake], Users) = totalStakes'
  BY OneVaultChanges DEF TotalStakesIsSum, ActivePoolIsVaults
<1> QED BY <1>1 DEF TotalStakesIsSum, ActivePoolIsVaults, Sum

----------------------------------------------------------------------------
\* The actions, one lemma each.

\* openVault adds the collateral, the debt and the stake of the vault it opens.
LEMMA OpenVaultAccounts ==
  ASSUME IInv, AccountsInv, NEW u \in Users, NEW c \in Nat, NEW a \in Nat, NEW rate \in Nat,
         OpenVault(u, c, a, rate)
  PROVE  AccountsInv'
<1> DEFINE fee == IF RecoveryMode THEN 0 ELSE Fee(rate, a)
           debt == CompositeDebt(a + fee)
           stake == NewStake(vaults[u].coll + c)
           v == [status |-> "active", coll |-> vaults[u].coll + c, debt |-> vaults[u].debt + debt,
                 stake |-> stake]
<1>1. fee \in Nat
  BY FeeNat
<1>2. debt \in Nat /\ debt = a + fee + BPD_GAS_COMPENSATION
  BY <1>1, ParametersAssumption DEF CompositeDebt
<1>3. stake \in Nat
  BY NewStakeNat DEF IInv, TypeOK, Vault, OpenVault
<1> HIDE DEF fee, debt, stake
<1>4. /\ u \notin Active /\ a + fee >= MIN_NET_DEBT
      /\ vaults' = [vaults EXCEPT ![u] = v]
      /\ totalStakes' = totalStakes - vaults[u].stake + stake
      /\ sortedVaults' \in Inserted(sortedVaults, u, NominalCR(c, debt))
      /\ activePool' = [RBTC |-> activePool.RBTC + c, BPDDebt |-> activePool.BPDDebt + debt]
      /\ UNCHANGED <<surplus, surplusRBTC>>
  BY DEF OpenVault, fee, debt, stake
<1>5. /\ vaults \in [Users -> Vault] /\ totalStakes \in Nat /\ activePool \in Reward
      /\ vaults[u].coll \in Nat /\ vaults[u].debt \in Nat /\ vaults[u].stake \in Nat
  BY DEF IInv, TypeOK, Vault
<1>6. v \in Vault /\ v.coll = vaults[u].coll + c /\ v.debt = vaults[u].debt + debt /\ v.stake = stake
  BY <1>2, <1>3, <1>5 DEF Vault, Statuses
<1>7. v.status = "active"
  OBVIOUS
<1> HIDE DEF v
<1>8. Active' = Active \cup {u}
  BY <1>4, <1>5, <1>7 DEF Active
<1>9. ListOf(sortedVaults, Active)'
  <2>1. ListOf(sortedVaults', Active \cup {u})
    BY <1>4, InsertedList DEF AccountsInv
  <2> QED BY <1>8, <2>1 DEF ListOf, Distinct
<1>10. DebtAboveMin'
  <2> SUFFICES ASSUME NEW w \in Active' PROVE (NetDebt(vaults[w].debt) >= MIN_NET_DEBT)'
    BY DEF DebtAboveMin
  <2>1. CASE w = u
    BY <1>1, <1>2, <1>4, <1>5, <1>6, <2>1, ParametersAssumption DEF NetDebt
  <2>2. CASE w # u
    <3>1. w \in Active /\ vaults'[w] = vaults[w]
      BY <1>4, <1>5, <1>8, <2>2 DEF Active
    <3> QED BY <3>1 DEF AccountsInv, DebtAboveMin, NetDebt
  <2> QED BY <2>1, <2>2
<1>11. TotalStakesIsSum' /\ ActivePoolIsVaults'
  <2>1. /\ activePool'.RBTC = activePool.RBTC - vaults[u].coll + v.coll
        /\ activePool'.BPDDebt = activePool.BPDDebt - vaults[u].debt + v.debt
        /\ totalStakes' = totalStakes - vaults[u].stake + v.stake
    BY <1>2, <1>3, <1>4, <1>5, <1>6 DEF Reward
  <2> QED BY <1>4, <1>6, <2>1, OneVaultAccounts DEF IInv, AccountsInv
<1>12. SurplusIsBacked'
  BY <1>4 DEF AccountsInv, SurplusIsBacked
<1> QED
  BY <1>9, <1>10, <1>11, <1>12 DEF AccountsInv

\* _adjustVault moves the Active Pool by what it moves the vault, pending rewards included.
LEMMA AdjustAccounts ==
  ASSUME IInv, AccountsInv, NEW u \in Users, NEW collIn \in Nat, NEW collOut \in Nat,
         NEW borrow \in Nat, NEW repay \in Nat, NEW rate \in Nat,
         Adjust(u, collIn, collOut, borrow, repay, rate)
  PROVE  AccountsInv'
<1> DEFINE fee == IF borrow > 0 /\ ~RecoveryMode THEN Fee(rate, borrow) ELSE 0
           coll == vaults[u].coll + AppliedRBTC(u)
           debt == vaults[u].debt + AppliedDebt(u)
           newColl == coll + collIn - collOut
           newDebt == debt + borrow + fee - repay
           stake == NewStake(newColl)
           v == [status |-> "active", coll |-> newColl, debt |-> newDebt, stake |-> stake]
<1>1. fee \in Nat
  BY FeeNat
<1>2. AppliedRBTC(u) \in Nat /\ AppliedDebt(u) \in Nat
  BY PendingNat DEF IInv
<1>3. /\ vaults \in [Users -> Vault] /\ totalStakes \in Nat /\ activePool \in Reward
      /\ vaults[u].coll \in Nat /\ vaults[u].debt \in Nat /\ vaults[u].stake \in Nat
  BY DEF IInv, TypeOK, Vault
<1>4. coll \in Nat /\ debt \in Nat
  BY <1>2, <1>3
<1> HIDE DEF fee, coll, debt
<1>5. /\ newColl \in Nat /\ newDebt \in Nat
      /\ newColl = coll + collIn - collOut /\ newDebt = debt + borrow + fee - repay
  <2>1. collOut <= coll /\ repay <= debt
    BY DEF Adjust, coll, debt
  <2> QED
    BY <1>1, <1>4, <2>1
<1> HIDE DEF newColl
<1>6. stake \in Nat
  BY <1>5, NewStakeNat DEF IInv, Adjust
<1> HIDE DEF newDebt, stake
<1>7. /\ u \in Active
      /\ borrow = 0 \/ repay = 0
      /\ repay > 0 => NetDebt(debt) - repay >= MIN_NET_DEBT
      /\ vaults' = [vaults EXCEPT ![u] = v]
      /\ totalStakes' = totalStakes - vaults[u].stake + stake
      /\ sortedVaults' \in Inserted(Without(sortedVaults, {u}), u, NominalCR(newColl, newDebt))
      /\ activePool' = [RBTC    |-> activePool.RBTC + AppliedRBTC(u) + collIn - collOut,
                        BPDDebt |-> activePool.BPDDebt + AppliedDebt(u) + borrow + fee - repay]
      /\ UNCHANGED <<surplus, surplusRBTC>>
  BY DEF Adjust, fee, coll, debt, newColl, newDebt, stake
<1>8. v \in Vault /\ v.coll = newColl /\ v.debt = newDebt /\ v.stake = stake
  BY <1>5, <1>6 DEF Vault, Statuses
<1>9. v.status = "active"
  OBVIOUS
<1> HIDE DEF v
<1>10. Active' = Active
  BY <1>3, <1>7, <1>9 DEF Active
<1>11. ListOf(sortedVaults, Active)'
  <2>1. ListOf(Without(sortedVaults, {u}), Active \ {u})
    BY WithoutList DEF AccountsInv
  <2>2. ListOf(sortedVaults', (Active \ {u}) \cup {u})
    BY <1>7, <2>1, InsertedList
  <2>3. (Active \ {u}) \cup {u} = Active'
    BY <1>7, <1>10
  <2> QED BY <2>2, <2>3 DEF ListOf, Distinct
<1>12. DebtAboveMin'
  <2> SUFFICES ASSUME NEW w \in Active' PROVE (NetDebt(vaults[w].debt) >= MIN_NET_DEBT)'
    BY DEF DebtAboveMin
  <2>1. CASE w = u
    <3>1. NetDebt(vaults[u].debt) >= MIN_NET_DEBT
      BY <1>7 DEF AccountsInv, DebtAboveMin
    <3>2. NetDebt(newDebt) >= MIN_NET_DEBT
      BY <1>1, <1>2, <1>3, <1>4, <1>5, <1>7, <3>1, ParametersAssumption DEF NetDebt, debt
    <3>3. vaults'[u].debt = newDebt
      BY <1>3, <1>7, <1>8
    <3> QED BY <2>1, <3>2, <3>3 DEF NetDebt
  <2>2. CASE w # u
    <3>1. w \in Active /\ vaults'[w] = vaults[w]
      BY <1>3, <1>7, <1>10, <2>2 DEF Active
    <3> QED BY <3>1 DEF AccountsInv, DebtAboveMin, NetDebt
  <2> QED BY <2>1, <2>2
<1>13. newColl - vaults[u].coll = AppliedRBTC(u) + collIn - collOut
  BY <1>2, <1>3, <1>5 DEF coll
<1>14. newDebt - vaults[u].debt = AppliedDebt(u) + borrow + fee - repay
  BY <1>1, <1>2, <1>3, <1>5 DEF debt
<1>15. TotalStakesIsSum' /\ ActivePoolIsVaults'
  <2>1. /\ activePool'.RBTC = activePool.RBTC - vaults[u].coll + v.coll
        /\ activePool'.BPDDebt = activePool.BPDDebt - vaults[u].debt + v.debt
        /\ totalStakes' = totalStakes - vaults[u].stake + v.stake
    BY <1>1, <1>2, <1>3, <1>5, <1>7, <1>8, <1>13, <1>14 DEF Reward
  <2> QED BY <1>7, <1>8, <2>1, OneVaultAccounts DEF IInv, AccountsInv
<1>16. SurplusIsBacked'
  BY <1>7 DEF AccountsInv, SurplusIsBacked
<1> QED
  BY <1>11, <1>12, <1>15, <1>16 DEF AccountsInv

\* closeVault pays out what the vault holds and takes its stake off the total.
LEMMA CloseVaultAccounts ==
  ASSUME IInv, AccountsInv, NEW u \in Users, CloseVault(u)
  PROVE  AccountsInv'
<1> DEFINE v == ClosedVault(u, "closedByOwner")
<1>1. AppliedRBTC(u) \in Nat /\ AppliedDebt(u) \in Nat
  BY PendingNat DEF IInv
<1>2. /\ vaults \in [Users -> Vault] /\ totalStakes \in Nat /\ activePool \in Reward
      /\ vaults[u].coll \in Nat /\ vaults[u].debt \in Nat /\ vaults[u].stake \in Nat
  BY DEF IInv, TypeOK, Vault
<1>3. /\ u \in Active
      /\ vaults' = [vaults EXCEPT ![u] = v]
      /\ totalStakes' = totalStakes - vaults[u].stake
      /\ sortedVaults' = Without(sortedVaults, {u})
      /\ activePool' = [RBTC    |-> activePool.RBTC + AppliedRBTC(u) - (vaults[u].coll + AppliedRBTC(u)),
                        BPDDebt |-> activePool.BPDDebt + AppliedDebt(u) - (vaults[u].debt + AppliedDebt(u))]
      /\ UNCHANGED <<surplus, surplusRBTC>>
  BY DEF CloseVault
<1>4. v \in Vault /\ v.coll = 0 /\ v.debt = 0 /\ v.stake = 0 /\ v.status # "active"
  BY DEF ClosedVault, Vault, Statuses
<1> HIDE DEF v
<1>5. Active' = Active \ {u}
  BY <1>2, <1>3, <1>4 DEF Active
<1>6. ListOf(sortedVaults, Active)'
  <2>1. ListOf(Without(sortedVaults, {u}), Active \ {u})
    BY WithoutList DEF AccountsInv
  <2> QED BY <1>3, <1>5, <2>1 DEF ListOf, Distinct
<1>7. DebtAboveMin'
  BY <1>2, <1>3, <1>5 DEF AccountsInv, DebtAboveMin, NetDebt, Active
<1>8. TotalStakesIsSum' /\ ActivePoolIsVaults'
  <2>1. /\ activePool'.RBTC = activePool.RBTC - vaults[u].coll + v.coll
        /\ activePool'.BPDDebt = activePool.BPDDebt - vaults[u].debt + v.debt
        /\ totalStakes' = totalStakes - vaults[u].stake + v.stake
    BY <1>1, <1>2, <1>3, <1>4 DEF Reward
  <2> QED BY <1>3, <1>4, <2>1, OneVaultAccounts DEF IInv, AccountsInv
<1>9. SurplusIsBacked'
  BY <1>3 DEF AccountsInv, SurplusIsBacked
<1> QED
  BY <1>6, <1>7, <1>8, <1>9 DEF AccountsInv

\* claimCollateral takes one surplus, and all of it.
LEMMA ClaimCollateralAccounts ==
  ASSUME IInv, AccountsInv, NEW u \in Users, ClaimCollateral(u)
  PROVE  AccountsInv'
<1>1. /\ surplus' = [surplus EXCEPT ![u] = 0]
      /\ surplusRBTC' = surplusRBTC - surplus[u]
      /\ UNCHANGED <<vaults, totalStakes, sortedVaults, activePool>>
  BY DEF ClaimCollateral, vmVars
<1>2. SurplusIsBacked'
  <2> DEFINE after == surplus'
  <2>1. /\ u \in Users /\ \A w \in Users : surplus[w] \in Int
        /\ after[u] \in Int
        /\ \A w \in Users \ {u} : after[w] = surplus[w]
    BY <1>1 DEF IInv, TypeOK
  <2>2. after[u] = 0
    BY <1>1 DEF IInv, TypeOK
  <2>3. IsFiniteSet(Users)
    BY AccountsAssumption
  <2> HIDE DEF after
  <2>4. SumFunctionOnSet(after, Users) = SumFunctionOnSet(surplus, Users) - surplus[u] + after[u]
    BY ONLY <2>1, <2>3, SumUpdate
  <2>5. Sum(surplus, Users) \in Int /\ surplus[u] \in Int
    BY <2>1, TotalsInt DEF IInv
  <2> QED
    BY <1>1, <2>2, <2>4, <2>5 DEF after, AccountsInv, SurplusIsBacked, Sum
<1>3. ListOf(sortedVaults, Active)'
  BY <1>1 DEF AccountsInv, ListOf, Distinct, Active
<1> QED
  BY <1>1, <1>2, <1>3 DEF AccountsInv, DebtAboveMin, NetDebt, Active, TotalStakesIsSum, ActivePoolIsVaults

\* What leaves the vaults and their totals alone.
LEMMA OtherStepsAccounts ==
  ASSUME AccountsInv,
         UNCHANGED <<vaults, totalStakes, sortedVaults, activePool, surplus, surplusRBTC>>
  PROVE  AccountsInv'
BY DEF AccountsInv, ListOf, Distinct, DebtAboveMin, NetDebt, Active, TotalStakesIsSum,
       ActivePoolIsVaults, SurplusIsBacked
----------------------------------------------------------------------------
\* The liquidation loop.

\* v is how all the debt and collateral of vault u is spent.
ValuesOf(u, v) ==
  /\ v.debtOffset \in Int /\ v.collToSP \in Int /\ v.debtRedist \in Int
  /\ v.collRedist \in Int /\ v.collGas \in Int /\ v.surplus \in Int
  /\ v.debtOffset + v.debtRedist = EntireDebt(u)
  /\ v.collToSP + v.collRedist + v.collGas + v.surplus = EntireColl(u)

\* t has the fields of a tally.
TallyFields == {"closed", "spBPD", "sysDebt", "sysColl", "normal", "stop", "reverted", "debtOffset",
                "collToSP", "debtRedist", "collRedist", "collGas", "surplus"}
IsTally(t) == t = [f \in TallyFields |-> t[f]]

\* The invariant of the loop: the tally spends exactly what the vaults it closes held.
TallyInv(t) ==
  /\ IsTally(t)
  /\ t.closed \subseteq Active
  /\ t.spBPD \in Int /\ t.debtOffset \in Int /\ t.collToSP \in Int /\ t.debtRedist \in Int
  /\ t.collRedist \in Int /\ t.collGas \in Int /\ t.surplus \in [Users -> Int]
  /\ t.debtOffset + t.debtRedist = Sum([u \in Users |-> EntireDebt(u)], t.closed)
  /\ t.collToSP + t.collRedist + t.collGas + Sum(t.surplus, Users)
       = Sum([u \in Users |-> EntireColl(u)], t.closed)

BatchLoop == INSTANCE SequenceFolds
  WITH Op <- LAMBDA t, u : LiquidationStep(t, u, TRUE), Inv <- LAMBDA seq, i, t : TallyInv(t)

ListLoop == INSTANCE SequenceFolds
  WITH Op <- LAMBDA t, u : LiquidationStep(t, u, FALSE), Inv <- LAMBDA seq, i, t : TallyInv(t)

\* The code multiplies before it divides.
LEMMA QuotientInt ==
  ASSUME NEW a \in Int, NEW b \in Int, NEW c \in Nat \ {0}
  PROVE  (a * b) \div c \in Int
<1>1. a * b \in Int
  OBVIOUS
<1> DEFINE p == a * b
<1> HIDE DEF p
<1>2. p \in Int => p \div c \in Int
  OBVIOUS
<1> QED BY <1>1, <1>2 DEF p

\* An active vault's entire debt is not 0, and its collateral is natural.
LEMMA EntireNat ==
  ASSUME IInv, DebtAboveMin, NEW u \in Active
  PROVE  /\ u \in Users
         /\ EntireColl(u) \in Nat /\ EntireDebt(u) \in Nat \ {0}
<1>1. u \in Users
  BY DEF Active
<1>2. PendingRBTC(u) \in Nat /\ PendingDebt(u) \in Nat
  BY <1>1, PendingNat DEF IInv
<1>3. vaults[u].coll \in Nat /\ vaults[u].debt \in Nat
  BY <1>1 DEF IInv, TypeOK, Vault
<1>4. vaults[u].debt # 0
  BY <1>3, ParametersAssumption DEF DebtAboveMin, NetDebt
<1> QED BY <1>1, <1>2, <1>3, <1>4 DEF EntireColl, EntireDebt

\* _getOffsetAndRedistributionVals divides all of the vault between the pool and the others.
LEMMA FullLiquidationValues ==
  ASSUME IInv, DebtAboveMin, NEW u \in Active, NEW spBPD \in Int
  PROVE  ValuesOf(u, FullLiquidation(u, spBPD))
<1> DEFINE coll == EntireColl(u)
           debt == EntireDebt(u)
           gas == CollGasCompensation(coll)
           offset == Minimum(debt, spBPD)
           toSP == IF spBPD > 0 THEN ((coll - gas) * offset) \div debt ELSE 0
<1>1. coll \in Nat /\ debt \in Nat \ {0}
  BY EntireNat
<1>2. coll = EntireColl(u) /\ debt = EntireDebt(u)
  OBVIOUS
<1>3. FullLiquidation(u, spBPD) =
        [debtOffset |-> offset, collToSP |-> toSP, debtRedist |-> debt - offset,
         collRedist |-> (coll - gas) - toSP, collGas |-> gas, surplus |-> 0]
  BY DEF FullLiquidation, OffsetAndRedistribution
<1> HIDE DEF coll, debt
<1>4. gas \in Int /\ offset \in Int
  BY <1>1, ParametersAssumption DEF CollGasCompensation, Minimum
<1> HIDE DEF gas, offset
<1>5. toSP \in Int
  <2>1. coll - gas \in Int
    BY <1>1, <1>4
  <2> QED BY <1>1, <1>4, <2>1, QuotientInt
<1> HIDE DEF toSP
<1> QED BY <1>1, <1>2, <1>3, <1>4, <1>5 DEF ValuesOf

\* _getCappedOffsetVals divides all of the vault between the pool and its owner.
LEMMA CappedOffsetValues ==
  ASSUME IInv, DebtAboveMin, NEW u \in Active
  PROVE  ValuesOf(u, CappedOffset(u))
<1> DEFINE toOffset == (EntireDebt(u) * MCR) \div price
           gas == CollGasCompensation(toOffset)
<1>1. EntireColl(u) \in Nat /\ EntireDebt(u) \in Nat
  BY EntireNat
<1>2. toOffset \in Int
  BY <1>1, QuotientInt, ParametersAssumption DEF IInv, TypeOK
<1>3. CappedOffset(u) =
        [debtOffset |-> EntireDebt(u), collToSP |-> toOffset - gas, debtRedist |-> 0,
         collRedist |-> 0, collGas |-> gas, surplus |-> EntireColl(u) - toOffset]
  BY DEF CappedOffset
<1> HIDE DEF toOffset
<1>4. gas \in Int
  BY <1>2, ParametersAssumption DEF CollGasCompensation
<1> HIDE DEF gas
<1> QED BY <1>1, <1>2, <1>3, <1>4 DEF ValuesOf

\* r is t with vault u closed, and spent as v says.
IsTallied(r, t, u, v) ==
  /\ IsTally(r)
  /\ r.closed = t.closed \cup {u}
  /\ r.spBPD = t.spBPD - v.debtOffset
  /\ r.debtOffset = t.debtOffset + v.debtOffset /\ r.collToSP = t.collToSP + v.collToSP
  /\ r.debtRedist = t.debtRedist + v.debtRedist /\ r.collRedist = t.collRedist + v.collRedist
  /\ r.collGas = t.collGas + v.collGas
  /\ r.surplus = [t.surplus EXCEPT ![u] = @ + v.surplus]

\* What Tally does to each field.
LEMMA TallyUpdates ==
  ASSUME NEW t, IsTally(t), NEW u, NEW v
  PROVE  IsTallied(Tally(t, u, v), t, u, v)
<1>1. IsTally(Tally(t, u, v))
  BY DEF IsTally, TallyFields, Tally
<1>2. /\ Tally(t, u, v).closed = t.closed \cup {u}
      /\ Tally(t, u, v).spBPD = t.spBPD - v.debtOffset
      /\ Tally(t, u, v).debtOffset = t.debtOffset + v.debtOffset
      /\ Tally(t, u, v).collToSP = t.collToSP + v.collToSP
  BY DEF IsTally, TallyFields, Tally
<1>3. /\ Tally(t, u, v).debtRedist = t.debtRedist + v.debtRedist
      /\ Tally(t, u, v).collRedist = t.collRedist + v.collRedist
      /\ Tally(t, u, v).collGas = t.collGas + v.collGas
  BY DEF IsTally, TallyFields, Tally
<1>4. Tally(t, u, v).surplus = [t.surplus EXCEPT ![u] = @ + v.surplus]
  BY DEF IsTally, TallyFields, Tally
<1> QED BY <1>1, <1>2, <1>3, <1>4 DEF IsTallied

\* Closing one vault.
LEMMA TallyKeepsInv ==
  ASSUME IInv, DebtAboveMin, NEW t, TallyInv(t), NEW u \in Active, u \notin t.closed, NEW v, ValuesOf(u, v)
  PROVE  TallyInv(Tally(t, u, v))
<1> DEFINE r == Tally(t, u, v)
<1>1. IsTallied(r, t, u, v)
  BY TallyUpdates DEF TallyInv
<1> HIDE DEF r
<1> USE DEF IsTallied
<1>2. u \in Users /\ EntireColl(u) \in Nat /\ EntireDebt(u) \in Nat
  BY EntireNat
<1>3. IsFiniteSet(Users) /\ IsFiniteSet(t.closed)
  BY AccountsAssumption, ActiveIsFinite, FS_Subset DEF TallyInv
<1>4. r.surplus \in [Users -> Int] /\ r.surplus[u] = t.surplus[u] + v.surplus
  BY <1>1, <1>2 DEF TallyInv, ValuesOf
<1>5. Sum(r.surplus, Users) = Sum(t.surplus, Users) + v.surplus /\ Sum(t.surplus, Users) \in Int
  <2> DEFINE f == t.surplus
             g == r.surplus
  <2>1. /\ u \in Users /\ \A w \in Users : f[w] \in Int
        /\ g[u] \in Int
        /\ \A w \in Users \ {u} : g[w] = f[w]
    BY <1>1, <1>2, <1>4 DEF TallyInv
  <2>2. f[u] \in Int /\ v.surplus \in Int /\ g[u] = f[u] + v.surplus
    BY <1>4, <2>1 DEF ValuesOf
  <2> HIDE DEF f, g
  <2>3. SumFunctionOnSet(g, Users) = SumFunctionOnSet(f, Users) - f[u] + g[u]
    BY ONLY <1>3, <2>1, SumUpdate
  <2>4. SumFunctionOnSet(f, Users) \in Int
    BY ONLY <1>3, <2>1, SumInt
  <2> QED BY <2>2, <2>3, <2>4 DEF f, g, Sum
<1>6. Sum([w \in Users |-> EntireDebt(w)], r.closed)
        = EntireDebt(u) + Sum([w \in Users |-> EntireDebt(w)], t.closed)
  <2> DEFINE f == [w \in Users |-> EntireDebt(w)]
  <2>1. f[u] \in Int /\ u \notin t.closed /\ \A w \in t.closed : f[w] \in Int
    BY <1>2, EntireNat DEF TallyInv
  <2>2. f[u] = EntireDebt(u)
    BY <1>2
  <2> HIDE DEF f
  <2>3. SumFunctionOnSet(f, t.closed \cup {u}) = f[u] + SumFunctionOnSet(f, t.closed)
    BY ONLY <1>3, <2>1, SumAdd
  <2> QED BY <1>1, <2>2, <2>3 DEF f, Sum
<1>7. Sum([w \in Users |-> EntireColl(w)], r.closed)
        = EntireColl(u) + Sum([w \in Users |-> EntireColl(w)], t.closed)
  <2> DEFINE f == [w \in Users |-> EntireColl(w)]
  <2>1. f[u] \in Int /\ u \notin t.closed /\ \A w \in t.closed : f[w] \in Int
    BY <1>2, EntireNat DEF TallyInv
  <2>2. f[u] = EntireColl(u)
    BY <1>2
  <2> HIDE DEF f
  <2>3. SumFunctionOnSet(f, t.closed \cup {u}) = f[u] + SumFunctionOnSet(f, t.closed)
    BY ONLY <1>3, <2>1, SumAdd
  <2> QED BY <1>1, <2>2, <2>3 DEF f, Sum
<1>8. /\ r.closed \subseteq Active
      /\ r.spBPD \in Int /\ r.debtOffset \in Int /\ r.collToSP \in Int /\ r.debtRedist \in Int
      /\ r.collRedist \in Int /\ r.collGas \in Int
  BY <1>1 DEF TallyInv, ValuesOf
<1>9. r.debtOffset + r.debtRedist = Sum([w \in Users |-> EntireDebt(w)], r.closed)
  BY <1>1, <1>2, <1>6 DEF TallyInv, ValuesOf
<1>10. r.collToSP + r.collRedist + r.collGas + Sum(r.surplus, Users)
         = Sum([w \in Users |-> EntireColl(w)], r.closed)
  BY <1>1, <1>2, <1>5, <1>7 DEF TallyInv, ValuesOf
<1> QED BY <1>1, <1>4, <1>8, <1>9, <1>10 DEF TallyInv, r
\* Fields that TallyInv is not about.
LEMMA TallyInvSame ==
  ASSUME NEW t, TallyInv(t), NEW r, IsTally(r),
         r.closed = t.closed, r.spBPD = t.spBPD, r.debtOffset = t.debtOffset,
         r.collToSP = t.collToSP, r.debtRedist = t.debtRedist, r.collRedist = t.collRedist,
         r.collGas = t.collGas, r.surplus = t.surplus
  PROVE  TallyInv(r)
BY DEF TallyInv

\* _liquidateRecoveryMode, whichever case the vault falls in.
LEMMA RecoveryStepInv ==
  ASSUME IInv, DebtAboveMin, NEW t, TallyInv(t), NEW u \in Active, u \notin t.closed
  PROVE  TallyInv(LiquidateRecoveryMode(t, u))
<1>1. TallyInv(Tally(t, u, FullLiquidation(u, 0))) /\ TallyInv(Tally(t, u, FullLiquidation(u, t.spBPD)))
  <2>1. t.spBPD \in Int
    BY DEF TallyInv
  <2> QED BY <2>1, FullLiquidationValues, TallyKeepsInv
<1>2. TallyInv(Tally(t, u, CappedOffset(u)))
  BY CappedOffsetValues, TallyKeepsInv
<1>3. LiquidateRecoveryMode(t, u) \in
        {t, Tally(t, u, FullLiquidation(u, 0)), Tally(t, u, FullLiquidation(u, t.spBPD)),
         Tally(t, u, CappedOffset(u))}
  BY DEF LiquidateRecoveryMode
<1> QED BY <1>1, <1>2, <1>3

\* One round of a loop of liquidations, in either mode and over either kind of sequence.
LEMMA LiquidationStepInv ==
  ASSUME IInv, DebtAboveMin, NEW t, TallyInv(t), NEW u, NEW batch
  PROVE  TallyInv(LiquidationStep(t, u, batch))
<1> DEFINE r == LiquidateRecoveryMode(t, u)
           surplusOut == TrackedSurplus(t, r, u, batch)
           sysColl == t.sysColl - (r.collToSP - t.collToSP) - surplusOut
           sysDebt == t.sysDebt - (r.debtOffset - t.debtOffset)
           normal == CR(sysColl, sysDebt, price) >= CCR
           stopped == [t EXCEPT !.stop = ~batch]
           updated == [r EXCEPT !.sysColl = sysColl, !.sysDebt = sysDebt, !.normal = normal]
<1>1. TallyInv(stopped)
  <2> DEFINE b == ~batch
  <2>1. stopped = [t EXCEPT !.stop = b]
    BY Zenon
  <2> HIDE DEF b, stopped
  <2>2. /\ IsTally(stopped) /\ stopped.closed = t.closed /\ stopped.spBPD = t.spBPD
        /\ stopped.debtOffset = t.debtOffset /\ stopped.collToSP = t.collToSP
        /\ stopped.debtRedist = t.debtRedist /\ stopped.collRedist = t.collRedist
        /\ stopped.collGas = t.collGas /\ stopped.surplus = t.surplus
    BY <2>1 DEF TallyInv, IsTally, TallyFields
  <2> QED BY <2>2, TallyInvSame
<1>2. LiquidationStep(t, u, batch) \in {t, stopped, Tally(t, u, FullLiquidation(u, t.spBPD)), updated}
  <2> HIDE DEF stopped, updated
  <2> QED BY Zenon DEF LiquidationStep, stopped, updated
<1>3. CASE u \notin Active \ t.closed
  <2>1. t.stop \/ u \notin Active \ t.closed
    BY <1>3
  <2>2. LiquidationStep(t, u, batch) = t
    <3> HIDE DEF stopped, updated
    <3> QED BY <2>1, SMT DEF LiquidationStep
  <2> QED BY <2>2
<1>4. CASE u \in Active \ t.closed
  <2>1. t.spBPD \in Int
    BY DEF TallyInv
  <2>2. TallyInv(Tally(t, u, FullLiquidation(u, t.spBPD)))
    BY <1>4, <2>1, FullLiquidationValues, TallyKeepsInv
  <2>3. TallyInv(r)
    BY <1>4, RecoveryStepInv
  <2>4. TallyInv(updated)
    <3> HIDE DEF r, sysColl, sysDebt, normal
    <3> DEFINE q == [r EXCEPT !.sysColl = sysColl, !.sysDebt = sysDebt, !.normal = normal]
    <3>1. /\ IsTally(q) /\ q.closed = r.closed /\ q.spBPD = r.spBPD
          /\ q.debtOffset = r.debtOffset /\ q.collToSP = r.collToSP
          /\ q.debtRedist = r.debtRedist /\ q.collRedist = r.collRedist
          /\ q.collGas = r.collGas /\ q.surplus = r.surplus
      BY <2>3 DEF TallyInv, IsTally, TallyFields
    <3> HIDE DEF q
    <3>2. TallyInv(q)
      BY <2>3, <3>1, TallyInvSame
    <3> QED BY <3>2 DEF q
  <2> HIDE DEF stopped, updated
  <2> QED BY <1>1, <1>2, <2>2, <2>4
<1> QED BY <1>3, <1>4

\* The tally of each loop.
LEMMA LiquidationLoops ==
  ASSUME NEW seq
  PROVE  /\ LiquidationTally(seq, TRUE) = BatchLoop!Loop(EmptyTally(stabilityPool.BPD), seq)
         /\ LiquidationTally(seq, FALSE) = ListLoop!Loop(EmptyTally(stabilityPool.BPD), seq)
<1>1. LiquidationTally(seq, TRUE) = BatchLoop!Loop(EmptyTally(stabilityPool.BPD), seq)
  BY DEF LiquidationTally, BatchLoop!Loop, FoldLeft, MapThenFoldSet, Max,
         BatchLoop!FoldLeft, BatchLoop!MapThenFoldSet, BatchLoop!Max
<1>2. LiquidationTally(seq, FALSE) = ListLoop!Loop(EmptyTally(stabilityPool.BPD), seq)
  BY DEF LiquidationTally, ListLoop!Loop, FoldLeft, MapThenFoldSet, Max,
         ListLoop!FoldLeft, ListLoop!MapThenFoldSet, ListLoop!Max
<1> QED BY <1>1, <1>2

\* A loop starts with nothing tallied.
LEMMA EmptyTallyInv ==
  ASSUME IInv
  PROVE  TallyInv(EmptyTally(stabilityPool.BPD))
<1> DEFINE base == EmptyTally(stabilityPool.BPD)
<1>1. base.closed = {} /\ base.surplus = [u \in Users |-> 0]
  BY DEF EmptyTally
<1>2. /\ base.spBPD = stabilityPool.BPD /\ base.debtOffset = 0 /\ base.collToSP = 0
      /\ base.debtRedist = 0 /\ base.collRedist = 0 /\ base.collGas = 0
  BY DEF EmptyTally
<1>3. IsTally(base)
  BY DEF EmptyTally, IsTally, TallyFields
<1>4. Sum(base.surplus, Users) = 0
  BY <1>1, SumZero, AccountsAssumption DEF Sum
<1>5. /\ Sum([u \in Users |-> EntireDebt(u)], base.closed) = 0
      /\ Sum([u \in Users |-> EntireColl(u)], base.closed) = 0
  BY <1>1, SumEmpty DEF Sum
<1>6. stabilityPool.BPD \in Int
  BY DEF IInv, TypeOK
<1> HIDE DEF base
<1> QED BY <1>1, <1>2, <1>3, <1>4, <1>5, <1>6 DEF TallyInv, base

\* What either loop tallies.
LEMMA LiquidationTallyInv ==
  ASSUME IInv, DebtAboveMin, NEW V, NEW seq \in Seq(V)
  PROVE  TallyInv(LiquidationTally(seq, TRUE)) /\ TallyInv(LiquidationTally(seq, FALSE))
<1> DEFINE base == EmptyTally(stabilityPool.BPD)
<1>1. TallyInv(base)
  BY EmptyTallyInv
<1> HIDE DEF base
<1>2. \A i \in 1..Len(seq) : \A t : TallyInv(t) => TallyInv(LiquidationStep(t, seq[i], TRUE))
  BY LiquidationStepInv
<1>3. \A i \in 1..Len(seq) : \A t : TallyInv(t) => TallyInv(LiquidationStep(t, seq[i], FALSE))
  BY LiquidationStepInv
<1>4. TallyInv(BatchLoop!Loop(base, seq))
  BY <1>1, <1>2, BatchLoop!LoopInvariant
<1>5. TallyInv(ListLoop!Loop(base, seq))
  BY <1>1, <1>3, ListLoop!LoopInvariant
<1> QED BY <1>4, <1>5, LiquidationLoops DEF base

\* What the settlement of a tally moves is what its vaults held.
LEMMA SettleLiquidationAccounts ==
  ASSUME IInv, AccountsInv, NEW liquidator, NEW t, TallyInv(t), SettleLiquidation(liquidator, t)
  PROVE  AccountsInv'
<1> DEFINE closed == t.closed
           coll == [w \in Users |-> vaults[w].coll]
           debt == [w \in Users |-> vaults[w].debt]
           stake == [w \in Users |-> vaults[w].stake]
           rbtc == [w \in Users |-> PendingRBTC(w)]
           bpdDebt == [w \in Users |-> PendingDebt(w)]
           surplusOut == Sum(t.surplus, Users)
<1>1. closed \subseteq Active /\ closed \subseteq Users /\ t.closed \cap Active = closed
  BY DEF TallyInv, Active
<1>2. IsFiniteSet(Users) /\ IsFiniteSet(closed)
  BY <1>1, AccountsAssumption, FS_Subset
<1>3. /\ vaults' = [u \in Users |-> IF u \in closed THEN ClosedVault(u, "closedByLiquidation") ELSE vaults[u]]
      /\ totalStakes' = totalStakes - Sum(stake, closed)
      /\ sortedVaults' = Without(sortedVaults, closed)
      /\ surplus' = [u \in Users |-> surplus[u] + t.surplus[u]]
      /\ surplusRBTC' = surplusRBTC + surplusOut
      /\ activePool' = [RBTC |-> activePool.RBTC + PendingOf(closed).RBTC - t.collToSP - t.collRedist
                                   - surplusOut - t.collGas,
                         BPDDebt |-> activePool.BPDDebt + PendingOf(closed).BPDDebt - t.debtOffset
                                      - t.debtRedist]
  BY <1>1 DEF SettleLiquidation
<1> HIDE DEF closed
<1>4. \A u \in Users : vaults[u] \in Vault
  BY DEF IInv, TypeOK
<1>5. \A u \in closed : ClosedVault(u, "closedByLiquidation") =
        [status |-> "closedByLiquidation", coll |-> 0, debt |-> 0, stake |-> 0]
  BY DEF ClosedVault
<1>6. /\ \A u \in closed : vaults'[u] = ClosedVault(u, "closedByLiquidation")
      /\ \A u \in Users \ closed : vaults'[u] = vaults[u]
  BY <1>1, <1>3
<1>7. Active' = Active \ closed
  BY <1>1, <1>5, <1>6 DEF Active
<1>8. ListOf(sortedVaults, Active)'
  <2>1. ListOf(Without(sortedVaults, closed), Active \ closed)
    BY WithoutList DEF AccountsInv
  <2> QED BY <1>3, <1>7, <2>1 DEF ListOf, Distinct
<1>9. DebtAboveMin'
  <2>1. \A u \in Active' : u \in Active /\ vaults'[u] = vaults[u]
    BY <1>6, <1>7 DEF Active
  <2> QED BY <2>1 DEF AccountsInv, DebtAboveMin, NetDebt
<1>10. \A w \in Users : /\ coll[w] \in Int /\ debt[w] \in Int /\ stake[w] \in Int
                        /\ rbtc[w] \in Int /\ bpdDebt[w] \in Int
  BY <1>4, PendingNat DEF IInv, Vault
<1> DEFINE collAfter == [w \in Users |-> vaults'[w].coll]
           debtAfter == [w \in Users |-> vaults'[w].debt]
           stakeAfter == [w \in Users |-> vaults'[w].stake]
<1>11. \A w \in closed : collAfter[w] = 0 /\ debtAfter[w] = 0 /\ stakeAfter[w] = 0
  BY <1>1, <1>5, <1>6
<1>12. \A w \in Users \ closed : /\ collAfter[w] = coll[w] /\ debtAfter[w] = debt[w]
                                 /\ stakeAfter[w] = stake[w]
  BY <1>6
<1> HIDE DEF coll, debt, stake, rbtc, bpdDebt, collAfter, debtAfter, stakeAfter
<1>13. \A w \in Users : collAfter[w] \in Int /\ debtAfter[w] \in Int /\ stakeAfter[w] \in Int
  BY <1>10, <1>11, <1>12
<1>14. ASSUME NEW f, NEW g, \A w \in Users : f[w] \in Int /\ g[w] \in Int,
              \A w \in closed : g[w] = 0, \A w \in Users \ closed : g[w] = f[w]
       PROVE  Sum(g, Users) = Sum(f, Users) - Sum(f, closed)
  <2>1. Sum(g, Users) = Sum(f, Users) - Sum(f, closed) + Sum(g, closed)
    BY <1>1, <1>2, <1>14, SumReplaced DEF Sum
  <2>2. Sum(g, closed) = 0
    BY <1>2, <1>14, SumZero DEF Sum
  <2>3. Sum(f, Users) \in Int /\ Sum(f, closed) \in Int
    BY <1>1, <1>2, <1>14, SumInt DEF Sum
  <2> QED BY <2>1, <2>2, <2>3
<1>15. /\ Sum(collAfter, Users) = Sum(coll, Users) - Sum(coll, closed)
       /\ Sum(debtAfter, Users) = Sum(debt, Users) - Sum(debt, closed)
       /\ Sum(stakeAfter, Users) = Sum(stake, Users) - Sum(stake, closed)
  BY <1>10, <1>11, <1>12, <1>13, <1>14
<1>16. /\ Sum(coll, closed) \in Int /\ Sum(debt, closed) \in Int
       /\ Sum(rbtc, closed) \in Int /\ Sum(bpdDebt, closed) \in Int
  BY <1>1, <1>2, <1>10, SumInt DEF Sum
<1>17. /\ PendingOf(closed).RBTC = Sum(rbtc, closed)
       /\ PendingOf(closed).BPDDebt = Sum(bpdDebt, closed)
  BY DEF PendingOf, rbtc, bpdDebt
<1>18. t.collToSP + t.collRedist + t.collGas + surplusOut = Sum(coll, closed) + Sum(rbtc, closed)
  <2> DEFINE entire == [w \in Users |-> EntireColl(w)]
  <2>1. \A w \in closed : entire[w] = coll[w] + rbtc[w]
    BY <1>1 DEF EntireColl, coll, rbtc
  <2>2. t.collToSP + t.collRedist + t.collGas + surplusOut = Sum(entire, closed)
    BY DEF TallyInv, closed
  <2> HIDE DEF entire, surplusOut
  <2>3. Sum(entire, closed) = Sum(coll, closed) + Sum(rbtc, closed)
    BY <1>1, <1>2, <1>10, <2>1, SumPlus DEF Sum
  <2> QED BY <2>2, <2>3
<1>19. t.debtOffset + t.debtRedist = Sum(debt, closed) + Sum(bpdDebt, closed)
  <2> DEFINE entire == [w \in Users |-> EntireDebt(w)]
  <2>1. \A w \in closed : entire[w] = debt[w] + bpdDebt[w]
    BY <1>1 DEF EntireDebt, debt, bpdDebt
  <2>2. t.debtOffset + t.debtRedist = Sum(entire, closed)
    BY DEF TallyInv, closed
  <2> HIDE DEF entire
  <2>3. Sum(entire, closed) = Sum(debt, closed) + Sum(bpdDebt, closed)
    BY <1>1, <1>2, <1>10, <2>1, SumPlus DEF Sum
  <2> QED BY <2>2, <2>3
<1>20. surplusOut \in Int /\ \A w \in Users : t.surplus[w] \in Int
  BY <1>2, SumInt DEF TallyInv, Sum
<1>21. SurplusIsBacked'
  <2> DEFINE after == surplus'
             given == t.surplus
  <2>1. \A w \in Users : surplus[w] \in Int /\ given[w] \in Int /\ after[w] = surplus[w] + given[w]
    BY <1>3, <1>20 DEF IInv, TypeOK
  <2> HIDE DEF after, given
  <2>2. Sum(after, Users) = Sum(surplus, Users) + Sum(given, Users)
    BY ONLY <1>2, <2>1, SumPlus DEF Sum
  <2> QED BY <1>3, <2>2 DEF after, given, AccountsInv, SurplusIsBacked, Sum
<1> HIDE DEF surplusOut
<1>22. /\ activePool'.RBTC = activePool.RBTC - Sum(coll, closed)
       /\ activePool'.BPDDebt = activePool.BPDDebt - Sum(debt, closed)
  <2>1. /\ activePool.RBTC \in Int /\ activePool.BPDDebt \in Int
        /\ t.debtOffset \in Int /\ t.collToSP \in Int /\ t.debtRedist \in Int
        /\ t.collRedist \in Int /\ t.collGas \in Int
    BY DEF IInv, TypeOK, Reward, TallyInv
  <2>2. activePool'.RBTC = activePool.RBTC + Sum(rbtc, closed) - t.collToSP - t.collRedist
                             - surplusOut - t.collGas
    BY <1>3, <1>17
  <2>3. activePool'.BPDDebt = activePool.BPDDebt + Sum(bpdDebt, closed) - t.debtOffset - t.debtRedist
    BY <1>3, <1>17
  <2>4. activePool'.RBTC = activePool.RBTC - Sum(coll, closed)
    BY ONLY <1>16, <1>18, <1>20, <2>1, <2>2
  <2> QED BY ONLY <1>16, <1>19, <2>1, <2>3, <2>4
<1>23. TotalStakesIsSum' /\ ActivePoolIsVaults'
  <2>1. /\ totalStakes = Sum(stake, Users) /\ activePool.RBTC = Sum(coll, Users)
        /\ activePool.BPDDebt = Sum(debt, Users)
    BY DEF AccountsInv, TotalStakesIsSum, ActivePoolIsVaults, stake, coll, debt
  <2>2. /\ totalStakes' = Sum(stakeAfter, Users) /\ activePool'.RBTC = Sum(collAfter, Users)
        /\ activePool'.BPDDebt = Sum(debtAfter, Users)
    BY <1>3, <1>15, <1>22, <2>1
  <2> QED BY <2>2 DEF TotalStakesIsSum, ActivePoolIsVaults, stakeAfter, collAfter, debtAfter, Sum
<1> QED
  BY <1>8, <1>9, <1>21, <1>23 DEF AccountsInv

\* Each liquidation settles the tally of a loop over some sequence of vaults.
LEMMA LiquidationIsTally ==
  ASSUME IInv, AccountsInv, NEW u \in Users, Liquidation(u)
  PROVE  \E seq \in Seq(Users), batch \in BOOLEAN : SettleLiquidation(u, LiquidationTally(seq, batch))
<1>1. ASSUME NEW v \in Users, Liquidate(u, v)
      PROVE  SettleLiquidation(u, LiquidationTally(<<v>>, TRUE))
  BY <1>1 DEF Liquidate, BatchLiquidateVaults
<1>2. ASSUME NEW v \in Users, NEW w \in Users, BatchLiquidateVaults(u, <<v, w>>)
      PROVE  SettleLiquidation(u, LiquidationTally(<<v, w>>, TRUE))
  BY <1>2 DEF BatchLiquidateVaults
<1>3. ASSUME NEW n \in 1..Cardinality(Users), LiquidateVaults(u, n)
      PROVE  \E seq \in Seq(Users) : SettleLiquidation(u, LiquidationTally(seq, FALSE))
  <2> DEFINE upwards == Reverse(sortedVaults)
             reached == IF RecoveryMode THEN Front(upwards) ELSE upwards
             seq == SubSeq(reached, 1, Minimum(n, Len(reached)))
  <2>1. sortedVaults \in Seq(Users) /\ sortedVaults # <<>>
    BY <1>3 DEF AccountsInv, ListOf, LiquidateVaults
  <2>2. upwards \in Seq(Users) /\ Len(upwards) = Len(sortedVaults)
    BY <2>1 DEF Reverse
  <2>3. Len(sortedVaults) \in Nat \ {0}
    BY <2>1, EmptySeq
  <2> HIDE DEF upwards
  <2>4. Front(upwards) \in Seq(Users)
    BY <2>2, <2>3, SubSeqProperties DEF Front
  <2>5. reached \in Seq(Users)
    BY <2>2, <2>4
  <2> HIDE DEF reached
  <2>6. seq \in Seq(Users)
    <3>1. n \in Nat /\ Len(reached) \in Nat
      BY <2>5
    <3>2. Minimum(n, Len(reached)) \in Nat /\ Minimum(n, Len(reached)) <= Len(reached)
      BY <3>1 DEF Minimum
    <3> QED BY <2>5, <3>1, <3>2, SubSeqProperties
  <2>7. \E t \in {LiquidationTally(seq, FALSE)} : SettleLiquidation(u, t)
    BY <1>3 DEF LiquidateVaults, reached, upwards
  <2> QED BY <2>6, <2>7
<1>4. \A v, w \in Users : <<v>> \in Seq(Users) /\ <<v, w>> \in Seq(Users)
  OBVIOUS
<1> QED BY <1>1, <1>2, <1>3, <1>4 DEF Liquidation

\* liquidate, liquidateVaults and batchLiquidateVaults end in the same settlement.
LEMMA LiquidationAccounts ==
  ASSUME IInv, AccountsInv, NEW u \in Users, Liquidation(u)
  PROVE  AccountsInv'
<1>1. PICK seq \in Seq(Users), batch \in BOOLEAN : SettleLiquidation(u, LiquidationTally(seq, batch))
  BY LiquidationIsTally
<1>2. TallyInv(LiquidationTally(seq, batch))
  BY LiquidationTallyInv DEF AccountsInv
<1> QED BY <1>1, <1>2, SettleLiquidationAccounts

----------------------------------------------------------------------------
\* The redemption loop.

\* A vault once its pending rewards are applied.
CollToRedeem(u) == vaults[u].coll + AppliedRBTC(u)
DebtToRedeem(u) == vaults[u].debt + AppliedDebt(u)

\* t has the fields of a redemption.
RedemptionFields == {"left", "closed", "partial", "applied", "lot", "rbtcLot", "redeemed", "drawn",
                     "surplus", "reverted", "stop"}
IsRedemption(t) == t = [f \in RedemptionFields |-> t[f]]

\* The one vault redeemed in part keeps the minimum debt and ends the loop.
PartIsLast(t) ==
  \/ t.partial = {} /\ t.lot = 0 /\ t.rbtcLot = 0
  \/ /\ t.left = 0
     /\ \E u \in t.applied \ t.closed :
          t.partial = {u} /\ NetDebt(DebtToRedeem(u) - t.lot) >= MIN_NET_DEBT

\* The invariant of the loop: what is redeemed, what is drawn and what is left to the
\* owners is what the vaults it closes held, and the lot of the last one.
RedemptionIsExact(t) ==
  /\ IsRedemption(t)
  /\ t.closed \subseteq t.applied /\ t.applied \subseteq Active
  /\ t.left \in Nat /\ t.redeemed \in Int /\ t.drawn \in Int
  /\ t.lot \in Int /\ t.rbtcLot \in Int /\ t.surplus \in [Users -> Int]
  /\ \A u \in Users \ t.closed : t.surplus[u] = 0
  /\ PartIsLast(t)
  /\ t.redeemed + GasCompensation(t.closed)
       = Sum([u \in Users |-> DebtToRedeem(u)], t.closed) + t.lot
  /\ t.drawn + Sum(t.surplus, Users)
       = Sum([u \in Users |-> CollToRedeem(u)], t.closed) + t.rbtcLot

\* The loop visits each vault of seq once.
Visited(seq, i) == {seq[j] : j \in 1..i}
RedemptionLoopInv(seq, i, t) == RedemptionIsExact(t) /\ t.applied \subseteq Visited(seq, i)

FreshLoop == INSTANCE SequenceFolds
  WITH Op <- LAMBDA t, u : RedemptionStep(t, u, TRUE), Inv <- RedemptionLoopInv

StaleLoop == INSTANCE SequenceFolds
  WITH Op <- LAMBDA t, u : RedemptionStep(t, u, FALSE), Inv <- RedemptionLoopInv

\* What redemption finds in a vault: its pending rewards applied, at least the minimum debt.
LEMMA ToRedeemNat ==
  ASSUME IInv, DebtAboveMin, NEW u \in Active
  PROVE  /\ u \in Users
         /\ CollToRedeem(u) \in Nat /\ DebtToRedeem(u) \in Nat
         /\ NetDebt(DebtToRedeem(u)) \in Nat
         /\ NetDebt(DebtToRedeem(u)) >= MIN_NET_DEBT
<1>1. u \in Users
  BY DEF Active
<1>2. AppliedRBTC(u) \in Nat /\ AppliedDebt(u) \in Nat
  BY <1>1, PendingNat DEF IInv
<1>3. vaults[u].coll \in Nat /\ vaults[u].debt \in Nat
  BY <1>1 DEF IInv, TypeOK, Vault
<1> QED
  BY <1>1, <1>2, <1>3, ParametersAssumption
     DEF CollToRedeem, DebtToRedeem, DebtAboveMin, NetDebt

\* A vault that is only visited.
LEMMA VisitedStep ==
  ASSUME NEW t, RedemptionIsExact(t), NEW u \in Active, NEW r, IsRedemption(r),
         t.partial = {},
         r.applied = t.applied \cup {u}, r.closed = t.closed, r.partial = t.partial,
         r.left = t.left, r.redeemed = t.redeemed, r.drawn = t.drawn, r.lot = t.lot,
         r.rbtcLot = t.rbtcLot, r.surplus = t.surplus
  PROVE  RedemptionIsExact(r)
BY DEF RedemptionIsExact, PartIsLast

\* A vault that is redeemed in part.
LEMMA PartialStep ==
  ASSUME IInv, DebtAboveMin, NEW t, RedemptionIsExact(t), NEW u \in Active, u \notin t.applied,
         t.partial = {}, NEW lot \in Int, NEW rbtc \in Int, lot = t.left,
         NetDebt(DebtToRedeem(u) - lot) >= MIN_NET_DEBT,
         NEW r, IsRedemption(r),
         r.applied = t.applied \cup {u}, r.closed = t.closed, r.partial = {u},
         r.left = t.left - lot, r.redeemed = t.redeemed + lot, r.drawn = t.drawn + rbtc,
         r.lot = lot, r.rbtcLot = rbtc, r.surplus = t.surplus
  PROVE  RedemptionIsExact(r)
<1>1. t.lot = 0 /\ t.rbtcLot = 0
  BY DEF RedemptionIsExact, PartIsLast
<1>2. IsFiniteSet(Users) /\ t.closed \in SUBSET Users /\ IsFiniteSet(t.closed)
  BY AccountsAssumption, FS_Subset DEF RedemptionIsExact, Active
<1>3. GasCompensation(t.closed) \in Int
  BY <1>2, GasCompensationNat
<1>4. Sum(t.surplus, Users) \in Int
  BY <1>2, SumInt DEF RedemptionIsExact, Sum
<1>5. /\ Sum([w \in Users |-> DebtToRedeem(w)], t.closed) \in Int
      /\ Sum([w \in Users |-> CollToRedeem(w)], t.closed) \in Int
  <2> DEFINE f == [w \in Users |-> DebtToRedeem(w)]
             g == [w \in Users |-> CollToRedeem(w)]
  <2>1. \A w \in t.closed : f[w] \in Int /\ g[w] \in Int
    BY ToRedeemNat DEF RedemptionIsExact
  <2> HIDE DEF f, g
  <2> QED BY <1>2, <2>1, SumInt DEF f, g, Sum
<1>6. PartIsLast(r)
  BY DEF PartIsLast, RedemptionIsExact
<1>7. r.redeemed + GasCompensation(r.closed)
        = Sum([w \in Users |-> DebtToRedeem(w)], r.closed) + r.lot
  BY <1>1, <1>3, <1>5 DEF RedemptionIsExact
<1>8. r.drawn + Sum(r.surplus, Users)
        = Sum([w \in Users |-> CollToRedeem(w)], r.closed) + r.rbtcLot
  BY <1>1, <1>4, <1>5 DEF RedemptionIsExact
<1>9. /\ r.closed \subseteq r.applied /\ r.applied \subseteq Active
      /\ r.left \in Nat /\ r.redeemed \in Int /\ r.drawn \in Int
      /\ r.lot \in Int /\ r.rbtcLot \in Int /\ r.surplus \in [Users -> Int]
      /\ \A w \in Users \ r.closed : r.surplus[w] = 0
  BY DEF RedemptionIsExact
<1> QED BY <1>6, <1>7, <1>8, <1>9 DEF RedemptionIsExact

\* A vault that is redeemed in full.
LEMMA FullStep ==
  ASSUME IInv, DebtAboveMin, NEW t, RedemptionIsExact(t), NEW u \in Active, u \notin t.applied,
         t.partial = {}, NEW lot \in Nat, NEW rbtc \in Int, lot <= t.left,
         DebtToRedeem(u) - lot = BPD_GAS_COMPENSATION,
         NEW r, IsRedemption(r),
         r.applied = t.applied \cup {u}, r.closed = t.closed \cup {u}, r.partial = t.partial,
         r.left = t.left - lot, r.redeemed = t.redeemed + lot, r.drawn = t.drawn + rbtc,
         r.lot = t.lot, r.rbtcLot = t.rbtcLot,
         r.surplus = [t.surplus EXCEPT ![u] = CollToRedeem(u) - rbtc]
  PROVE  RedemptionIsExact(r)
<1>1. t.lot = 0 /\ t.rbtcLot = 0
  BY DEF RedemptionIsExact, PartIsLast
<1>2. /\ IsFiniteSet(Users) /\ t.closed \in SUBSET Users /\ IsFiniteSet(t.closed)
      /\ u \in Users /\ u \notin t.closed
  BY AccountsAssumption, FS_Subset DEF RedemptionIsExact, Active
<1>3. CollToRedeem(u) \in Int /\ DebtToRedeem(u) \in Int
  BY ToRedeemNat
<1>4. \A w \in t.closed : CollToRedeem(w) \in Int /\ DebtToRedeem(w) \in Int
  BY ToRedeemNat DEF RedemptionIsExact
<1>5. /\ GasCompensation(r.closed) = GasCompensation(t.closed) + BPD_GAS_COMPENSATION
      /\ GasCompensation(t.closed) \in Int
  <2>1. /\ Cardinality(t.closed \cup {u}) = Cardinality(t.closed) + 1
        /\ Cardinality(t.closed) \in Nat
    BY <1>2, FS_AddElement, FS_CardinalityType
  <2>2. ASSUME NEW g \in Nat, NEW n \in Nat
        PROVE  g * (n + 1) = g * n + g
    OBVIOUS
  <2>3. BPD_GAS_COMPENSATION * (Cardinality(t.closed) + 1)
          = BPD_GAS_COMPENSATION * Cardinality(t.closed) + BPD_GAS_COMPENSATION
    BY <2>1, <2>2, ParametersAssumption
  <2>4. GasCompensation(t.closed) \in Int
    BY <1>2, GasCompensationNat
  <2> QED BY <2>1, <2>3, <2>4 DEF GasCompensation
<1>6. /\ Sum([w \in Users |-> DebtToRedeem(w)], r.closed)
           = DebtToRedeem(u) + Sum([w \in Users |-> DebtToRedeem(w)], t.closed)
      /\ Sum([w \in Users |-> DebtToRedeem(w)], t.closed) \in Int
  <2> DEFINE f == [w \in Users |-> DebtToRedeem(w)]
  <2>1. f[u] \in Int /\ u \notin t.closed /\ \A w \in t.closed : f[w] \in Int
    BY <1>2, <1>3, <1>4
  <2>2. f[u] = DebtToRedeem(u)
    BY <1>2
  <2> HIDE DEF f
  <2>3. SumFunctionOnSet(f, t.closed \cup {u}) = f[u] + SumFunctionOnSet(f, t.closed)
    BY ONLY <1>2, <2>1, SumAdd
  <2>4. SumFunctionOnSet(f, t.closed) \in Int
    BY ONLY <1>2, <2>1, SumInt
  <2> QED BY <2>2, <2>3, <2>4 DEF f, Sum
<1>7. /\ Sum([w \in Users |-> CollToRedeem(w)], r.closed)
           = CollToRedeem(u) + Sum([w \in Users |-> CollToRedeem(w)], t.closed)
      /\ Sum([w \in Users |-> CollToRedeem(w)], t.closed) \in Int
  <2> DEFINE f == [w \in Users |-> CollToRedeem(w)]
  <2>1. f[u] \in Int /\ u \notin t.closed /\ \A w \in t.closed : f[w] \in Int
    BY <1>2, <1>3, <1>4
  <2>2. f[u] = CollToRedeem(u)
    BY <1>2
  <2> HIDE DEF f
  <2>3. SumFunctionOnSet(f, t.closed \cup {u}) = f[u] + SumFunctionOnSet(f, t.closed)
    BY ONLY <1>2, <2>1, SumAdd
  <2>4. SumFunctionOnSet(f, t.closed) \in Int
    BY ONLY <1>2, <2>1, SumInt
  <2> QED BY <2>2, <2>3, <2>4 DEF f, Sum
<1>8. r.surplus \in [Users -> Int] /\ r.surplus[u] = CollToRedeem(u) - rbtc /\ t.surplus[u] = 0
  BY <1>2, <1>3 DEF RedemptionIsExact
<1>9. Sum(r.surplus, Users) = Sum(t.surplus, Users) + (CollToRedeem(u) - rbtc)
      /\ Sum(t.surplus, Users) \in Int
  <2> DEFINE f == t.surplus
             g == r.surplus
  <2>1. /\ u \in Users /\ \A w \in Users : f[w] \in Int
        /\ g[u] \in Int
        /\ \A w \in Users \ {u} : g[w] = f[w]
    BY <1>2, <1>8 DEF RedemptionIsExact
  <2>2. f[u] = 0 /\ g[u] = CollToRedeem(u) - rbtc
    BY <1>8
  <2> HIDE DEF f, g
  <2>3. SumFunctionOnSet(g, Users) = SumFunctionOnSet(f, Users) - f[u] + g[u]
    BY ONLY <1>2, <2>1, SumUpdate
  <2>4. SumFunctionOnSet(f, Users) \in Int
    BY ONLY <1>2, <2>1, SumInt
  <2> QED BY <1>3, <2>2, <2>3, <2>4 DEF f, g, Sum
<1>10. r.redeemed + GasCompensation(r.closed)
         = Sum([w \in Users |-> DebtToRedeem(w)], r.closed) + r.lot
  <2>1. t.redeemed \in Int /\ t.lot \in Int /\ BPD_GAS_COMPENSATION \in Int
    BY ParametersAssumption DEF RedemptionIsExact
  <2>2. t.redeemed + GasCompensation(t.closed)
          = Sum([w \in Users |-> DebtToRedeem(w)], t.closed) + t.lot
    BY DEF RedemptionIsExact
  <2> QED BY <1>3, <1>5, <1>6, <2>1, <2>2
<1>11. r.drawn + Sum(r.surplus, Users)
         = Sum([w \in Users |-> CollToRedeem(w)], r.closed) + r.rbtcLot
  <2>1. t.drawn \in Int /\ t.rbtcLot \in Int
    BY DEF RedemptionIsExact
  <2>2. t.drawn + Sum(t.surplus, Users)
          = Sum([w \in Users |-> CollToRedeem(w)], t.closed) + t.rbtcLot
    BY DEF RedemptionIsExact
  <2> QED BY <1>3, <1>7, <1>9, <2>1, <2>2
<1>12. /\ r.closed \subseteq r.applied /\ r.applied \subseteq Active
       /\ r.left \in Nat /\ r.redeemed \in Int /\ r.drawn \in Int
       /\ r.lot \in Int /\ r.rbtcLot \in Int
       /\ PartIsLast(r)
  BY DEF RedemptionIsExact, PartIsLast
<1>13. \A w \in Users \ r.closed : r.surplus[w] = 0
  BY DEF RedemptionIsExact
<1> QED BY <1>8, <1>10, <1>11, <1>12, <1>13 DEF RedemptionIsExact

\* One iteration.
LEMMA RedemptionStepExact ==
  ASSUME IInv, DebtAboveMin, NEW t, RedemptionIsExact(t), NEW u \in Active, u \notin t.applied,
         NEW fresh
  PROVE  /\ RedemptionIsExact(RedemptionStep(t, u, fresh))
         /\ RedemptionStep(t, u, fresh).applied \subseteq t.applied \cup {u}
<1> DEFINE coll == vaults[u].coll + AppliedRBTC(u)
           debt == vaults[u].debt + AppliedDebt(u)
           lot  == Minimum(t.left, NetDebt(debt))
           rbtc == (lot * DECIMAL_PRECISION) \div price
           full == debt - lot = BPD_GAS_COMPENSATION
           cancelled == ~full /\ (~fresh \/ NetDebt(debt - lot) < MIN_NET_DEBT)
           visited == [t EXCEPT !.applied = @ \cup {u}]
           taken == [visited EXCEPT !.left = @ - lot, !.redeemed = @ + lot, !.drawn = @ + rbtc]
           isCancelled == [visited EXCEPT !.stop = TRUE, !.reverted = @ \/ rbtc > coll]
           isFull == [taken EXCEPT !.closed = @ \cup {u}, !.surplus[u] = coll - rbtc,
                                   !.reverted = @ \/ OneVaultLeft(t.closed)]
           isPartial == [taken EXCEPT !.partial = {u}, !.lot = lot, !.rbtcLot = rbtc]
           r == RedemptionStep(t, u, fresh)
<1>1. /\ t.stop \/ t.left = 0 => r = t
      /\ ~(t.stop \/ t.left = 0) =>
           r = IF cancelled THEN isCancelled ELSE IF full THEN isFull ELSE isPartial
  <2> HIDE DEF isCancelled, isFull, isPartial, lot
  <2> QED BY DEF RedemptionStep, isCancelled, isFull, isPartial, lot
<1>2. debt = DebtToRedeem(u) /\ coll = CollToRedeem(u)
  BY DEF DebtToRedeem, CollToRedeem
<1>3. /\ debt \in Nat /\ coll \in Nat /\ NetDebt(debt) \in Nat /\ t.left \in Nat
  BY <1>2, ToRedeemNat DEF RedemptionIsExact
<1> HIDE DEF coll, debt, r
<1>4. lot \in Nat /\ lot <= t.left /\ (lot = t.left \/ lot = NetDebt(debt))
  BY <1>3 DEF Minimum
<1> HIDE DEF lot
<1>5. rbtc \in Int
  BY <1>4, QuotientInt, ParametersAssumption DEF IInv, TypeOK
<1> HIDE DEF rbtc
<1>6. CASE t.stop \/ t.left = 0
  <2> HIDE DEF cancelled, full, isCancelled, isFull, isPartial
  <2>1. r = t
    BY <1>1, <1>6
  <2> QED BY <2>1 DEF r
<1>7. CASE ~(t.stop \/ t.left = 0)
  <2>1. t.partial = {}
    BY <1>7 DEF RedemptionIsExact, PartIsLast
  <2>2. IsRedemption(t)
    BY DEF RedemptionIsExact
  <2>3. CASE cancelled
    <3>1. r = isCancelled
      BY <1>1, <1>7, <2>3
    <3>2. /\ IsRedemption(isCancelled)
          /\ isCancelled.applied = t.applied \cup {u} /\ isCancelled.closed = t.closed
          /\ isCancelled.partial = t.partial /\ isCancelled.left = t.left
          /\ isCancelled.redeemed = t.redeemed /\ isCancelled.drawn = t.drawn
          /\ isCancelled.lot = t.lot /\ isCancelled.rbtcLot = t.rbtcLot
          /\ isCancelled.surplus = t.surplus
      BY <2>2 DEF IsRedemption, RedemptionFields
    <3> HIDE DEF isCancelled
    <3>3. RedemptionIsExact(isCancelled)
      BY <2>1, <3>2, VisitedStep
    <3> QED BY <3>1, <3>2, <3>3 DEF r
  <2>4. CASE ~cancelled /\ full
    <3>1. r = isFull
      <4> HIDE DEF cancelled, full, isFull
      <4> QED BY <1>1, <1>7, <2>4
    <3>2. /\ IsRedemption(isFull)
          /\ isFull.applied = t.applied \cup {u} /\ isFull.closed = t.closed \cup {u}
          /\ isFull.partial = t.partial /\ isFull.left = t.left - lot
      BY <2>2 DEF IsRedemption, RedemptionFields
    <3>3. /\ isFull.redeemed = t.redeemed + lot /\ isFull.drawn = t.drawn + rbtc
          /\ isFull.lot = t.lot /\ isFull.rbtcLot = t.rbtcLot
          /\ isFull.surplus = [t.surplus EXCEPT ![u] = coll - rbtc]
      BY <2>2 DEF IsRedemption, RedemptionFields
    <3> HIDE DEF isFull
    <3>4. debt - lot = BPD_GAS_COMPENSATION
      BY <2>4
    <3> HIDE DEF cancelled, full, visited, taken, isCancelled, isPartial
    <3>5. /\ lot \in Nat /\ rbtc \in Int /\ lot <= t.left /\ t.partial = {}
          /\ DebtToRedeem(u) - lot = BPD_GAS_COMPENSATION
          /\ isFull.surplus = [t.surplus EXCEPT ![u] = CollToRedeem(u) - rbtc]
      BY ONLY <1>2, <1>4, <1>5, <2>1, <3>3, <3>4
    <3>6. RedemptionIsExact(isFull)
      BY ONLY IInv, DebtAboveMin, RedemptionIsExact(t), u \in Active, u \notin t.applied,
              <3>2, <3>3, <3>5, FullStep, ZenonT(60)
    <3> QED BY <3>1, <3>2, <3>6 DEF r
  <2>5. CASE ~cancelled /\ ~full
    <3>1. r = isPartial
      <4> HIDE DEF cancelled, full, isPartial
      <4> QED BY <1>1, <1>7, <2>5
    <3>2. /\ IsRedemption(isPartial)
          /\ isPartial.applied = t.applied \cup {u} /\ isPartial.closed = t.closed
          /\ isPartial.partial = {u} /\ isPartial.left = t.left - lot
      BY <2>2 DEF IsRedemption, RedemptionFields
    <3>3. /\ isPartial.redeemed = t.redeemed + lot /\ isPartial.drawn = t.drawn + rbtc
          /\ isPartial.lot = lot /\ isPartial.rbtcLot = rbtc
          /\ isPartial.surplus = t.surplus
      BY <2>2 DEF IsRedemption, RedemptionFields
    <3> HIDE DEF isPartial
    <3>4. lot = t.left
      BY <1>3, <1>4, <2>5, ParametersAssumption DEF NetDebt
    <3>5. NetDebt(debt - lot) >= MIN_NET_DEBT
      BY <1>3, <1>4, <2>5, ParametersAssumption DEF NetDebt
    <3>6. RedemptionIsExact(isPartial)
      BY <1>2, <1>4, <1>5, <2>1, <3>2, <3>3, <3>4, <3>5, PartialStep
    <3> QED BY <3>1, <3>2, <3>6 DEF r
  <2> QED BY <2>3, <2>4, <2>5
<1> QED BY <1>6, <1>7

\* One round of the loop of redeemCollateral keeps what the loop guarantees.
LEMMA RedemptionStepInv ==
  ASSUME IInv, DebtAboveMin, NEW seq \in Seq(Active), Distinct(seq), NEW i \in 1..Len(seq),
         NEW t, RedemptionLoopInv(seq, i - 1, t), NEW fresh
  PROVE  RedemptionLoopInv(seq, i, RedemptionStep(t, seq[i], fresh))
<1>1. seq[i] \in Active /\ Len(seq) \in Nat /\ i \in Nat
  OBVIOUS
<1>2. \A j \in 1..(i - 1) : j \in 1..Len(seq) /\ j # i /\ j \in 1..i
  BY <1>1
<1>3. seq[i] \notin Visited(seq, i - 1)
  BY <1>2 DEF Visited, Distinct
<1>4. i \in 1..i
  BY <1>1
<1>5. Visited(seq, i - 1) \cup {seq[i]} \subseteq Visited(seq, i)
  BY <1>2, <1>4 DEF Visited
<1>6. RedemptionIsExact(t) /\ t.applied \subseteq Visited(seq, i - 1)
  BY DEF RedemptionLoopInv
<1>7. /\ RedemptionIsExact(RedemptionStep(t, seq[i], fresh))
      /\ RedemptionStep(t, seq[i], fresh).applied \subseteq t.applied \cup {seq[i]}
  BY <1>1, <1>3, <1>6, RedemptionStepExact
<1> QED BY <1>5, <1>6, <1>7 DEF RedemptionLoopInv

\* The least element of a set of natural numbers.
LEMMA MinExists ==
  ASSUME NEW S \in SUBSET Nat, S # {}
  PROVE  Min(S) \in S /\ \A x \in S : Min(S) <= x
<1> DEFINE Good == { n \in Nat : n \notin S }
<1>1. \E x \in S : \A y \in S : x <= y
  <2> SUFFICES ASSUME \A x \in S : \E y \in S : y < x
               PROVE  FALSE
    OBVIOUS
  <2>1. ASSUME NEW n \in Nat, \A m \in 0..(n - 1) : m \in Good
        PROVE  n \in Good
    BY <2>1
  <2>2. Nat \subseteq Good
    <3> HIDE DEF Good
    <3> QED BY <2>1, NaturalInduction
  <2> QED BY <2>2
<1> QED BY <1>1 DEF Min

\* A part of a list of distinct vaults.
LEMMA PartOfList ==
  ASSUME NEW V, NEW list \in Seq(V), Distinct(list), NEW m \in Nat \ {0}, NEW n \in Nat, n <= Len(list)
  PROVE  SubSeq(list, m, n) \in Seq(V) /\ Distinct(SubSeq(list, m, n))
<1> DEFINE part == SubSeq(list, m, n)
<1>1. Len(list) \in Nat /\ \A i \in m..n : i \in 1..Len(list) /\ list[i] \in V
  OBVIOUS
<1>2. /\ part \in Seq(V) /\ Len(part) = IF m <= n THEN n - m + 1 ELSE 0
      /\ \A i \in 1..(n - m + 1) : part[i] = list[m + i - 1]
  BY <1>1, SubSeqProperties
<1> HIDE DEF part
<1>3. \A i \in 1..Len(part) : part[i] = list[m + i - 1] /\ m + i - 1 \in 1..Len(list)
  BY <1>1, <1>2
<1>4. Distinct(part)
  <2> SUFFICES ASSUME NEW i \in 1..Len(part), NEW j \in 1..Len(part), part[i] = part[j]
               PROVE  i = j
    BY DEF Distinct
  <2>1. m + i - 1 = m + j - 1
    BY <1>3 DEF Distinct
  <2> QED BY <1>2, <2>1
<1> QED BY <1>2, <1>4 DEF part

\* The list from its lowest ratio upwards, as getLast and getPrev walk it.
LEMMA UpwardsList ==
  ASSUME AccountsInv
  PROVE  LET up == Reverse(sortedVaults)
             n  == Len(sortedVaults)
         IN /\ n \in Nat /\ up \in Seq(Active) /\ Len(up) = n /\ Distinct(up)
            /\ \A i \in 1..n : n - i + 1 \in 1..n /\ up[i] = sortedVaults[n - i + 1]
            /\ \A u \in Active : \E i \in 1..n : up[i] = u
<1> DEFINE up == Reverse(sortedVaults)
           n  == Len(sortedVaults)
<1>1. sortedVaults \in Seq(Active) /\ Distinct(sortedVaults) /\ n \in Nat /\ Range(sortedVaults) = Active
  BY DEF AccountsInv, ListOf, Range
<1>2. \A i \in 1..n : sortedVaults[i] \in Active /\ n - i + 1 \in 1..n /\ n - (n - i + 1) + 1 = i
  BY <1>1
<1>3. /\ up \in Seq(Active) /\ Len(up) = n
      /\ \A i \in 1..n : up[i] = sortedVaults[n - i + 1]
  BY <1>1, <1>2 DEF Reverse
<1>4. \A u \in Active : \E i \in 1..n : sortedVaults[i] = u
  BY <1>1 DEF Range
<1> HIDE DEF n, up
<1>5. Distinct(up)
  <2> SUFFICES ASSUME NEW i \in 1..n, NEW j \in 1..n, up[i] = up[j]
               PROVE  i = j
    BY <1>3 DEF Distinct
  <2>1. n - i + 1 = n - j + 1
    BY <1>1, <1>2, <1>3 DEF Distinct, n
  <2> QED BY <1>1, <2>1
<1>6. \A u \in Active : \E i \in 1..n : up[i] = u
  <2> SUFFICES ASSUME NEW u \in Active
               PROVE  \E i \in 1..n : up[i] = u
    OBVIOUS
  <2>1. PICK i \in 1..n : sortedVaults[i] = u
    BY <1>4
  <2>2. n - i + 1 \in 1..n /\ up[n - i + 1] = u
    BY <1>2, <1>3, <2>1
  <2> QED BY <2>2
<1> QED BY <1>1, <1>2, <1>3, <1>5, <1>6 DEF n, up

\* A redemption goes through active vaults, each at most once.
LEMMA RedemptionOrderIsDistinct ==
  ASSUME AccountsInv, NEW hint
  PROVE  RedemptionOrder(hint) \in Seq(Active) /\ Distinct(RedemptionOrder(hint))
<1> DEFINE n == Len(sortedVaults)
           upwards == Reverse(sortedVaults)
           starts  == {i \in 1..Len(upwards) : ICR(upwards[i]) >= MCR}
           start   == IF \E u \in hint : ValidFirstHint(u)
                      THEN CHOOSE i \in 1..Len(upwards) : upwards[i] \in hint
                      ELSE IF starts = {} THEN Len(upwards) + 1 ELSE Min(starts)
<1>1. /\ n \in Nat /\ upwards \in Seq(Active) /\ Len(upwards) = n /\ Distinct(upwards)
      /\ \A i \in 1..n : n - i + 1 \in 1..n /\ upwards[i] = sortedVaults[n - i + 1]
  BY UpwardsList
<1>2. RedemptionOrder(hint) = SubSeq(upwards, start, Len(upwards))
  BY DEF RedemptionOrder
<1> HIDE DEF upwards
<1>3. start \in Nat \ {0}
  <2>1. CASE \E u \in hint : ValidFirstHint(u)
    <3>1. PICK u \in hint, i \in 1..n : sortedVaults[i] = u
      BY <2>1 DEF ValidFirstHint
    <3> HIDE DEF n
    <3>2. n - i + 1 \in 1..n /\ upwards[n - i + 1] = u
      <4>1. n - (n - i + 1) + 1 = i
        BY <1>1
      <4> QED BY <1>1, <3>1, <4>1
    <3>3. \E k \in 1..Len(upwards) : upwards[k] \in hint
      BY <1>1, <3>1, <3>2
    <3>4. start = CHOOSE k \in 1..Len(upwards) : upwards[k] \in hint
      BY <2>1
    <3>5. start \in 1..Len(upwards)
      BY ONLY <3>3, <3>4
    <3> HIDE DEF start
    <3> QED BY ONLY <1>1, <3>5
  <2>2. CASE ~(\E u \in hint : ValidFirstHint(u)) /\ starts = {}
    BY <1>1, <2>2
  <2>3. CASE ~(\E u \in hint : ValidFirstHint(u)) /\ starts # {}
    <3>1. starts \in SUBSET Nat /\ 0 \notin starts
      OBVIOUS
    <3> HIDE DEF starts
    <3>2. Min(starts) \in starts
      BY <2>3, <3>1, MinExists
    <3> QED BY <2>3, <3>1, <3>2
  <2> QED BY <2>1, <2>2, <2>3
<1> HIDE DEF n, start
<1> QED BY <1>1, <1>2, <1>3, PartOfList

\* A redemption starts with nothing redeemed.
LEMMA EmptyRedemptionInv ==
  ASSUME NEW amount \in Nat, NEW seq
  PROVE  RedemptionLoopInv(seq, 0, EmptyRedemption(amount))
<1> DEFINE base == EmptyRedemption(amount)
<1>1. /\ base.left = amount /\ base.closed = {} /\ base.partial = {} /\ base.applied = {}
      /\ base.lot = 0 /\ base.rbtcLot = 0 /\ base.redeemed = 0 /\ base.drawn = 0
      /\ base.surplus = [u \in Users |-> 0]
  BY DEF EmptyRedemption
<1>2. IsRedemption(base)
  BY DEF EmptyRedemption, IsRedemption, RedemptionFields
<1>3. Sum(base.surplus, Users) = 0
  BY <1>1, SumZero, AccountsAssumption DEF Sum
<1>4. /\ Sum([u \in Users |-> DebtToRedeem(u)], base.closed) = 0
      /\ Sum([u \in Users |-> CollToRedeem(u)], base.closed) = 0
  BY <1>1, SumEmpty DEF Sum
<1>5. GasCompensation(base.closed) = 0
  BY <1>1, FS_EmptySet, ParametersAssumption DEF GasCompensation
<1> HIDE DEF base
<1>6. RedemptionLoopInv(seq, 0, base)
  BY <1>1, <1>2, <1>3, <1>4, <1>5 DEF RedemptionLoopInv, RedemptionIsExact, PartIsLast
<1> QED BY <1>6 DEF base

\* What either loop redeems.
LEMMA RedemptionTallyIsExact ==
  ASSUME IInv, AccountsInv, NEW amount \in Nat, NEW n \in Nat, NEW hint, NEW fresh \in BOOLEAN
  PROVE  RedemptionIsExact(RedemptionTally(amount, n, hint, fresh))
<1> DEFINE order == RedemptionOrder(hint)
           seq == SubSeq(order, 1, Minimum(n, Len(order)))
           base == EmptyRedemption(amount)
<1>1. seq \in Seq(Active) /\ Distinct(seq)
  <2>1. order \in Seq(Active) /\ Distinct(order) /\ Len(order) \in Nat
    BY RedemptionOrderIsDistinct
  <2> HIDE DEF order
  <2>2. Minimum(n, Len(order)) \in Nat /\ Minimum(n, Len(order)) <= Len(order)
    BY <2>1 DEF Minimum
  <2>3. 1 \in Nat \ {0}
    OBVIOUS
  <2> QED BY <2>1, <2>2, <2>3, PartOfList
<1>2. /\ RedemptionTally(amount, n, hint, TRUE) = FreshLoop!Loop(base, seq)
      /\ RedemptionTally(amount, n, hint, FALSE) = StaleLoop!Loop(base, seq)
  <2>1. RedemptionTally(amount, n, hint, TRUE) = FreshLoop!Loop(base, seq)
    BY DEF RedemptionTally, FreshLoop!Loop, FoldLeft, MapThenFoldSet, Max,
           FreshLoop!FoldLeft, FreshLoop!MapThenFoldSet, FreshLoop!Max
  <2>2. RedemptionTally(amount, n, hint, FALSE) = StaleLoop!Loop(base, seq)
    BY DEF RedemptionTally, StaleLoop!Loop, FoldLeft, MapThenFoldSet, Max,
           StaleLoop!FoldLeft, StaleLoop!MapThenFoldSet, StaleLoop!Max
  <2> QED BY <2>1, <2>2
<1> HIDE DEF seq
<1>3. RedemptionLoopInv(seq, 0, base)
  BY EmptyRedemptionInv
<1> HIDE DEF base
<1>4. DebtAboveMin
  BY DEF AccountsInv
<1>5. \A i \in 1..Len(seq) : \A t :
        RedemptionLoopInv(seq, i - 1, t) => RedemptionLoopInv(seq, i, RedemptionStep(t, seq[i], TRUE))
  BY <1>1, <1>4, RedemptionStepInv
<1>6. \A i \in 1..Len(seq) : \A t :
        RedemptionLoopInv(seq, i - 1, t) => RedemptionLoopInv(seq, i, RedemptionStep(t, seq[i], FALSE))
  BY <1>1, <1>4, RedemptionStepInv
<1>7. RedemptionIsExact(FreshLoop!Loop(base, seq))
  <2>1. RedemptionLoopInv(seq, Len(seq), FreshLoop!Loop(base, seq))
    BY <1>1, <1>3, <1>5, FreshLoop!LoopInvariant
  <2> QED BY <2>1 DEF RedemptionLoopInv
<1>8. RedemptionIsExact(StaleLoop!Loop(base, seq))
  <2>1. RedemptionLoopInv(seq, Len(seq), StaleLoop!Loop(base, seq))
    BY <1>1, <1>3, <1>6, StaleLoop!LoopInvariant
  <2> QED BY <2>1 DEF RedemptionLoopInv
<1>9. CASE fresh = TRUE
  BY <1>2, <1>7, <1>9
<1>10. CASE fresh = FALSE
  BY <1>2, <1>8, <1>10
<1> QED BY <1>9, <1>10

\* partial is one vault of S, or none and then its lot is 0.
IsPartial(partial, lot, S) == (partial = {} /\ lot = 0) \/ (\E u \in S : partial = {u})

\* f is what each vault held, a what was applied to it, full both and g what it
\* holds after the redemption.
IsRedeemed(f, a, full, g, applied, closed, partial, lot) ==
  /\ applied \subseteq Users /\ closed \subseteq applied /\ lot \in Int
  /\ \A w \in Users : f[w] \in Int /\ a[w] \in Int /\ g[w] \in Int /\ full[w] = f[w] + a[w]
  /\ IsPartial(partial, lot, applied \ closed)
  /\ \A w \in closed : g[w] = 0
  /\ \A w \in partial : g[w] = full[w] - lot
  /\ \A w \in applied \ (closed \cup partial) : g[w] = full[w]
  /\ \A w \in Users \ applied : g[w] = f[w]

\* A total over the vaults after a redemption.
LEMMA RedeemedSum ==
  ASSUME NEW f, NEW a, NEW full, NEW g, NEW applied, NEW closed, NEW partial, NEW lot,
         IsRedeemed(f, a, full, g, applied, closed, partial, lot)
  PROVE  Sum(g, Users) = Sum(f, Users) + Sum(a, applied) - Sum(full, closed) - lot
<1> DEFINE touched == closed \cup partial
<1> USE DEF IsPartial, IsRedeemed
<1>1. /\ IsFiniteSet(Users) /\ IsFiniteSet(applied) /\ IsFiniteSet(closed) /\ IsFiniteSet(partial)
      /\ IsFiniteSet(touched) /\ touched \in SUBSET applied
  <2>1. IsFiniteSet(Users) /\ IsFiniteSet(applied) /\ IsFiniteSet(closed)
    BY AccountsAssumption, FS_Subset
  <2>2. touched \in SUBSET applied /\ partial \in SUBSET applied
    OBVIOUS
  <2> HIDE DEF touched
  <2> QED BY <2>1, <2>2, FS_Subset
<1>2. \A w \in Users : full[w] \in Int /\ full[w] = f[w] + a[w]
  OBVIOUS
<1>3. \A w \in applied \ touched : g[w] = full[w]
  OBVIOUS
<1>4. \A w \in partial : g[w] = full[w] - lot
  OBVIOUS
<1>5. Sum(g, Users) = Sum(f, Users) - Sum(f, applied) + Sum(g, applied)
  BY <1>1, SumReplaced DEF Sum
<1>6. Sum(full, applied) = Sum(f, applied) + Sum(a, applied)
  BY <1>1, <1>2, SumPlus DEF Sum
<1>7. Sum(g, applied) = Sum(full, applied) - Sum(full, touched) + Sum(g, touched)
  <2> HIDE DEF touched
  <2> QED BY <1>1, <1>2, <1>3, SumReplaced DEF Sum
<1>8. Sum(g, closed) = 0
  BY <1>1, SumZero DEF Sum
<1>9. /\ Sum(f, Users) \in Int /\ Sum(f, applied) \in Int /\ Sum(a, applied) \in Int
      /\ Sum(full, applied) \in Int /\ Sum(full, closed) \in Int
  BY <1>1, <1>2, SumInt DEF Sum
<1>10. lot \in Int
  OBVIOUS
<1>11. Sum(g, touched) = Sum(full, touched) - Sum(full, closed) - lot /\ Sum(full, touched) \in Int
  <2>1. CASE partial = {} /\ lot = 0
    <3>1. touched = closed
      BY <2>1
    <3> HIDE DEF touched
    <3> QED BY <1>8, <1>9, <2>1, <3>1
  <2>2. CASE \E u \in applied \ closed : partial = {u}
    <3>1. PICK u \in applied \ closed : partial = {u}
      BY <2>2
    <3>2. touched = closed \cup {u} /\ u \notin closed /\ u \in Users /\ g[u] = full[u] - lot
      BY <1>4, <3>1
    <3> HIDE DEF touched
    <3>3. SumFunctionOnSet(full, closed \cup {u}) = full[u] + SumFunctionOnSet(full, closed)
      BY <1>1, <1>2, <3>2, SumAdd
    <3>4. SumFunctionOnSet(g, closed \cup {u}) = g[u] + SumFunctionOnSet(g, closed)
      BY <1>1, <3>2, SumAdd
    <3>5. Sum(full, touched) = full[u] + Sum(full, closed) /\ Sum(g, touched) = g[u] + Sum(g, closed)
      BY <3>2, <3>3, <3>4 DEF Sum
    <3>6. full[u] \in Int
      BY <1>2, <3>2
    <3> QED BY ONLY <1>8, <1>9, <3>2, <3>5, <3>6, <1>10
  <2> QED BY <2>1, <2>2
<1> HIDE DEF touched
<1>12. Sum(g, applied) = Sum(full, applied) - Sum(full, closed) - lot
  BY ONLY <1>7, <1>9, <1>11, <1>10
<1> QED BY <1>5, <1>6, <1>9, <1>12

\* What the settlement of a redemption moves is what its vaults lost.
LEMMA SettleRedemptionAccounts ==
  ASSUME IInv, AccountsInv, NEW redeemer \in Users, NEW t, NEW rate, RedemptionIsExact(t),
         RedemptionIsValid(t, rate), SettleRedemption(redeemer, t)
  PROVE  AccountsInv'
<1> DEFINE coll == [w \in Users |-> vaults[w].coll]
           debt == [w \in Users |-> vaults[w].debt]
           stake == [w \in Users |-> vaults[w].stake]
           collAfter == [w \in Users |-> vaults'[w].coll]
           debtAfter == [w \in Users |-> vaults'[w].debt]
           stakeAfter == [w \in Users |-> vaults'[w].stake]
           rbtc == [w \in Users |-> AppliedRBTC(w)]
           bpdDebt == [w \in Users |-> AppliedDebt(w)]
           collToRedeem == [w \in Users |-> CollToRedeem(w)]
           debtToRedeem == [w \in Users |-> DebtToRedeem(w)]
           after == [w \in Users |-> RedeemedVault(t, w)]
           closed == t.closed
           partial == t.partial
           applied == t.applied
           touched == closed \cup partial
           surplusOut == Sum(t.surplus, Users)
<1>1. /\ vaults' = after
      /\ totalStakes' = totalStakes - Sum(stake, touched)
                                    + Sum([u \in Users |-> after[u].stake], partial)
      /\ activePool' = [RBTC    |-> activePool.RBTC + Sum(rbtc, applied) - t.drawn - surplusOut,
                        BPDDebt |-> activePool.BPDDebt + Sum(bpdDebt, applied) - t.redeemed
                                      - GasCompensation(closed)]
      /\ surplus' = [u \in Users |-> surplus[u] + t.surplus[u]]
      /\ surplusRBTC' = surplusRBTC + surplusOut
  BY DEF SettleRedemption
<1>2. IF partial = {} THEN sortedVaults' = Without(sortedVaults, closed)
      ELSE \E u \in partial : \E x : sortedVaults' \in Inserted(Without(sortedVaults, touched), u, x)
  BY DEF SettleRedemption
<1>3. /\ applied \in SUBSET Active /\ applied \in SUBSET Users /\ closed \in SUBSET applied
      /\ \/ partial = {} /\ t.lot = 0 /\ t.rbtcLot = 0
         \/ \E u \in applied \ closed :
              partial = {u} /\ NetDebt(DebtToRedeem(u) - t.lot) >= MIN_NET_DEBT
  BY DEF RedemptionIsExact, PartIsLast, Active
<1>4. /\ t.lot \in Int /\ t.rbtcLot \in Int /\ t.redeemed \in Int /\ t.drawn \in Int
      /\ \A w \in Users : t.surplus[w] \in Int
  BY DEF RedemptionIsExact
<1>5. /\ t.redeemed + GasCompensation(closed)
           = Sum(debtToRedeem, closed) + t.lot
      /\ t.drawn + surplusOut = Sum(collToRedeem, closed) + t.rbtcLot
  BY DEF RedemptionIsExact
<1>6. \A u \in Users : vaults'[u] = RedeemedVault(t, u)
  BY <1>1
<1>7. \A u \in Users : /\ vaults[u] \in Vault /\ RedeemedVault(t, u) \in Vault
                       /\ AppliedRBTC(u) \in Nat /\ AppliedDebt(u) \in Nat
  BY PendingNat, RedeemedVaultType DEF IInv, TypeOK
<1>8. \A u \in closed : RedeemedVault(t, u) =
        [status |-> "closedByRedemption", coll |-> 0, debt |-> 0, stake |-> 0]
  BY DEF RedeemedVault, ClosedVault
<1>9. \A u \in partial \ closed : /\ RedeemedVault(t, u).coll = CollToRedeem(u) - t.rbtcLot
                                  /\ RedeemedVault(t, u).debt = DebtToRedeem(u) - t.lot
  BY DEF RedeemedVault, CollToRedeem, DebtToRedeem
<1>10. \A u \in applied \ touched : /\ RedeemedVault(t, u).coll = CollToRedeem(u)
                                    /\ RedeemedVault(t, u).debt = DebtToRedeem(u)
                                    /\ RedeemedVault(t, u).stake = vaults[u].stake
  BY DEF RedeemedVault, CollToRedeem, DebtToRedeem
<1>11. \A u \in Users \ applied : RedeemedVault(t, u) = vaults[u]
  BY <1>3 DEF RedeemedVault
<1>12. \A u \in partial : u \in partial \ closed /\ u \in applied /\ u \in Users
  BY <1>3
<1>13. Active' = Active \ closed
  BY <1>1, <1>3, RedeemedVaultType DEF Active
<1> HIDE DEF coll, debt, stake, collAfter, debtAfter, stakeAfter, rbtc, bpdDebt,
             collToRedeem, debtToRedeem, after, closed, partial, applied, surplusOut
<1>14. ListOf(sortedVaults, Active)'
  <2>1. CASE partial = {}
    <3>1. ListOf(Without(sortedVaults, closed), Active \ closed)
      BY WithoutList DEF AccountsInv
    <3> QED BY <1>2, <1>13, <2>1, <3>1 DEF ListOf, Distinct
  <2>2. CASE partial # {}
    <3>1. PICK u \in partial : \E x : sortedVaults' \in Inserted(Without(sortedVaults, touched), u, x)
      BY <1>2, <2>2
    <3>2. ListOf(Without(sortedVaults, touched), Active \ touched)
      BY WithoutList DEF AccountsInv
    <3>3. u \in Users /\ u \notin Active \ touched /\ partial = {u} /\ u \in Active \ closed
      BY <1>3, <3>1
    <3>4. ListOf(sortedVaults', (Active \ touched) \cup {u})
      <4> HIDE DEF touched
      <4> QED BY <3>1, <3>2, <3>3, InsertedList
    <3>5. (Active \ touched) \cup {u} = Active'
      BY <1>13, <3>3
    <3> QED BY <3>4, <3>5 DEF ListOf, Distinct
  <2> QED BY <2>1, <2>2
<1>15. DebtAboveMin'
  <2> SUFFICES ASSUME NEW u \in Active', u \in Users
               PROVE  NetDebt(vaults'[u].debt) >= MIN_NET_DEBT
    BY DEF DebtAboveMin, NetDebt, Active
  <2>1. u \in Active /\ u \notin closed /\ vaults'[u] = RedeemedVault(t, u)
    BY <1>6, <1>13
  <2>2. DebtAboveMin
    BY DEF AccountsInv
  <2>3. CASE u \in partial
    BY <1>3, <1>9, <2>1, <2>3
  <2>4. CASE u \in applied \ touched
    BY <1>10, <2>1, <2>2, <2>4, ToRedeemNat
  <2>5. CASE u \notin applied
    BY <1>11, <2>1, <2>2, <2>5 DEF DebtAboveMin
  <2> QED BY <2>1, <2>3, <2>4, <2>5
<1>16. IsFiniteSet(Users)
  BY AccountsAssumption
<1>17. \A w \in Users : /\ coll[w] \in Int /\ debt[w] \in Int /\ stake[w] \in Int
                        /\ collAfter[w] \in Int /\ debtAfter[w] \in Int /\ stakeAfter[w] \in Int
                        /\ rbtc[w] \in Int /\ bpdDebt[w] \in Int
  BY <1>6, <1>7 DEF coll, debt, stake, collAfter, debtAfter, stakeAfter, rbtc, bpdDebt, Vault
<1>18. /\ \A w \in Users : collToRedeem[w] = coll[w] + rbtc[w] /\ debtToRedeem[w] = debt[w] + bpdDebt[w]
       /\ \A w \in Users : collToRedeem[w] = CollToRedeem(w) /\ debtToRedeem[w] = DebtToRedeem(w)
  BY DEF collToRedeem, debtToRedeem, coll, debt, rbtc, bpdDebt, CollToRedeem, DebtToRedeem
<1>19. Sum(collAfter, Users) = Sum(coll, Users) + Sum(rbtc, applied) - Sum(collToRedeem, closed) - t.rbtcLot
  <2>1. \A w \in closed : collAfter[w] = 0
    BY <1>3, <1>6, <1>8 DEF collAfter
  <2>2. \A w \in partial : collAfter[w] = collToRedeem[w] - t.rbtcLot
    BY <1>6, <1>9, <1>12, <1>18 DEF collAfter
  <2>3. \A w \in applied \ (closed \cup partial) : collAfter[w] = collToRedeem[w]
    BY <1>3, <1>6, <1>10, <1>18 DEF collAfter
  <2>4. \A w \in Users \ applied : collAfter[w] = coll[w]
    BY <1>6, <1>11 DEF collAfter, coll
  <2>5. IsPartial(partial, t.rbtcLot, applied \ closed)
    BY <1>3 DEF IsPartial
  <2>6. IsRedeemed(coll, rbtc, collToRedeem, collAfter, applied, closed, partial, t.rbtcLot)
    BY <1>3, <1>4, <1>17, <1>18, <2>1, <2>2, <2>3, <2>4, <2>5 DEF IsRedeemed
  <2> QED BY <2>6, RedeemedSum
<1>20. Sum(debtAfter, Users) = Sum(debt, Users) + Sum(bpdDebt, applied) - Sum(debtToRedeem, closed) - t.lot
  <2>1. \A w \in closed : debtAfter[w] = 0
    BY <1>3, <1>6, <1>8 DEF debtAfter
  <2>2. \A w \in partial : debtAfter[w] = debtToRedeem[w] - t.lot
    BY <1>6, <1>9, <1>12, <1>18 DEF debtAfter
  <2>3. \A w \in applied \ (closed \cup partial) : debtAfter[w] = debtToRedeem[w]
    BY <1>3, <1>6, <1>10, <1>18 DEF debtAfter
  <2>4. \A w \in Users \ applied : debtAfter[w] = debt[w]
    BY <1>6, <1>11 DEF debtAfter, debt
  <2>5. IsPartial(partial, t.lot, applied \ closed)
    BY <1>3 DEF IsPartial
  <2>6. IsRedeemed(debt, bpdDebt, debtToRedeem, debtAfter, applied, closed, partial, t.lot)
    BY <1>3, <1>4, <1>17, <1>18, <2>1, <2>2, <2>3, <2>4, <2>5 DEF IsRedeemed
  <2> QED BY <2>6, RedeemedSum
<1>21. Sum(stakeAfter, Users) = Sum(stake, Users) - Sum(stake, touched) + Sum(stakeAfter, partial)
  <2>1. \A w \in closed : stakeAfter[w] = 0
    BY <1>3, <1>6, <1>8 DEF stakeAfter
  <2>2. \A w \in Users \ touched : stakeAfter[w] = stake[w]
    BY <1>6, <1>10, <1>11 DEF stakeAfter, stake
  <2>3. touched \in SUBSET Users /\ IsFiniteSet(touched) /\ partial \in SUBSET touched
    <3>1. touched \in SUBSET Users /\ partial \in SUBSET touched
      BY <1>3, <1>12
    <3> QED BY <1>16, <3>1, FS_Subset
  <2>4. \A w \in touched \ partial : stakeAfter[w] = 0
    BY <2>1
  <2> HIDE DEF touched
  <2>5. Sum(stakeAfter, Users) = Sum(stake, Users) - Sum(stake, touched) + Sum(stakeAfter, touched)
    BY <1>16, <1>17, <2>2, <2>3, SumReplaced DEF Sum
  <2>6. Sum(stakeAfter, touched) = Sum(stakeAfter, partial)
    <3> DEFINE cut == [w \in touched |-> IF w \in partial THEN stakeAfter[w] ELSE 0]
    <3>1. \A w \in touched : stakeAfter[w] \in Int /\ cut[w] = stakeAfter[w]
      BY <1>17, <2>3, <2>4
    <3>2. SumFunctionOnSet(cut, touched) = SumFunctionOnSet(stakeAfter, partial)
      BY <2>3, <3>1, SumPart
    <3> HIDE DEF cut
    <3>3. SumFunctionOnSet(cut, touched) = SumFunctionOnSet(stakeAfter, touched)
      BY <2>3, <3>1, SumSame
    <3> QED BY <3>2, <3>3 DEF Sum
  <2> QED BY <2>5, <2>6
<1>22. [u \in Users |-> after[u].stake] = stakeAfter
  BY <1>1 DEF stakeAfter
<1>23. Sum(collToRedeem, closed) \in Int /\ Sum(debtToRedeem, closed) \in Int
  <2>1. \A w \in closed : collToRedeem[w] \in Int /\ debtToRedeem[w] \in Int
    BY <1>3, <1>17, <1>18
  <2>2. IsFiniteSet(closed)
    BY <1>3, <1>16, FS_Subset
  <2> QED BY <2>1, <2>2, SumInt DEF Sum
<1>24. Sum(rbtc, applied) \in Int /\ Sum(bpdDebt, applied) \in Int
  <2>1. IsFiniteSet(applied) /\ \A w \in applied : rbtc[w] \in Int /\ bpdDebt[w] \in Int
    BY <1>3, <1>16, <1>17, FS_Subset
  <2> QED BY <2>1, SumInt DEF Sum
<1>25. GasCompensation(closed) \in Int /\ surplusOut \in Int
  <2>1. closed \in SUBSET Users
    BY <1>3
  <2>2. GasCompensation(closed) \in Int
    BY <2>1, GasCompensationNat
  <2> QED BY <1>4, <1>16, <2>2, SumInt DEF surplusOut, Sum
<1>26. SurplusIsBacked'
  <2> DEFINE now == surplus'
             given == t.surplus
  <2>1. \A w \in Users : surplus[w] \in Int /\ given[w] \in Int /\ now[w] = surplus[w] + given[w]
    BY <1>1, <1>4 DEF IInv, TypeOK
  <2> HIDE DEF now, given
  <2>2. Sum(now, Users) = Sum(surplus, Users) + Sum(given, Users)
    BY ONLY <1>16, <2>1, SumPlus DEF Sum
  <2> QED BY <1>1, <2>2 DEF now, given, surplusOut, AccountsInv, SurplusIsBacked, Sum
<1>27. TotalStakesIsSum' /\ ActivePoolIsVaults'
  <2>1. /\ totalStakes = Sum(stake, Users) /\ activePool.RBTC = Sum(coll, Users)
        /\ activePool.BPDDebt = Sum(debt, Users)
        /\ activePool.RBTC \in Int /\ activePool.BPDDebt \in Int
    BY DEF IInv, TypeOK, Reward, AccountsInv, TotalStakesIsSum, ActivePoolIsVaults, stake, coll, debt
  <2>2. totalStakes' = Sum(stakeAfter, Users)
    BY <1>1, <1>21, <1>22, <2>1
  <2>3. activePool'.RBTC = activePool.RBTC + Sum(rbtc, applied) - t.drawn - surplusOut
    BY <1>1
  <2>4. activePool'.BPDDebt = activePool.BPDDebt + Sum(bpdDebt, applied) - t.redeemed
                                - GasCompensation(closed)
    BY <1>1
  <2>5. activePool'.RBTC = Sum(collAfter, Users)
    BY ONLY <1>4, <1>5, <1>19, <1>23, <1>24, <1>25, <2>1, <2>3
  <2>6. activePool'.BPDDebt = Sum(debtAfter, Users)
    BY ONLY <1>4, <1>5, <1>20, <1>23, <1>24, <1>25, <2>1, <2>4
  <2> QED BY <2>2, <2>5, <2>6 DEF TotalStakesIsSum, ActivePoolIsVaults, stakeAfter, collAfter, debtAfter, Sum
<1> QED
  BY <1>14, <1>15, <1>26, <1>27 DEF AccountsInv

\* redeemCollateral, with any hint and any bound on the iterations.
LEMMA RedemptionAccounts ==
  ASSUME IInv, AccountsInv, NEW u \in Users, Redemption(u)
  PROVE  AccountsInv'
<1>1. PICK a \in Amounts, n \in 1..Cardinality(Users), hint \in {{}} \cup {{v} : v \in Users},
           hintFresh \in BOOLEAN, rate \in RedemptionRates :
        RedeemCollateral(u, a, n, hint, hintFresh, rate)
  BY DEF Redemption
<1>2. RedemptionIsExact(RedemptionTally(a, n, hint, hintFresh))
  <2>1. a \in Nat /\ n \in Nat
    BY ParametersAssumption
  <2> QED BY <2>1, RedemptionTallyIsExact
<1>3. \E t \in {RedemptionTally(a, n, hint, hintFresh)} :
        RedemptionIsValid(t, rate) /\ SettleRedemption(u, t)
  BY <1>1 DEF RedeemCollateral
<1> QED
  BY <1>2, <1>3, SettleRedemptionAccounts

\* The calls of BorrowerOperations, with the inputs of Next.
LEMMA BorrowerOperationAccounts ==
  ASSUME IInv, AccountsInv, NEW u \in Users, BorrowerOperation(u)
  PROVE  AccountsInv'
<1>1. Colls \subseteq Nat /\ Amounts \subseteq Nat /\ BorrowingRates \subseteq Nat
  BY ParametersAssumption
<1>2. ASSUME NEW c \in Colls, NEW a \in Amounts, NEW r \in BorrowingRates, OpenVault(u, c, a, r)
      PROVE  AccountsInv'
  BY <1>1, <1>2, OpenVaultAccounts
<1>3. ASSUME NEW c \in Colls, AddColl(u, c) \/ WithdrawColl(u, c)
      PROVE  AccountsInv'
  BY <1>1, <1>3, AdjustAccounts DEF AddColl, WithdrawColl
<1>4. ASSUME NEW a \in Amounts, NEW r \in BorrowingRates, WithdrawBPD(u, a, r)
      PROVE  AccountsInv'
  BY <1>1, <1>4, AdjustAccounts DEF WithdrawBPD
<1>5. ASSUME NEW a \in Amounts, RepayBPD(u, a)
      PROVE  AccountsInv'
  BY <1>1, <1>5, AdjustAccounts DEF RepayBPD
<1>6. ASSUME NEW c \in Colls, NEW a \in Amounts, NEW r \in BorrowingRates,
             \/ AdjustVault(u, c, 0, a, 0, r) \/ AdjustVault(u, c, 0, 0, a, r)
             \/ AdjustVault(u, 0, c, a, 0, r) \/ AdjustVault(u, 0, c, 0, a, r)
      PROVE  AccountsInv'
  BY <1>1, <1>6, AdjustAccounts DEF AdjustVault
<1> QED
  BY <1>2, <1>3, <1>4, <1>5, <1>6, CloseVaultAccounts DEF BorrowerOperation

\* The calls of StabilityPool move no vault, but for a gain moved to the caller's.
LEMMA StabilityPoolOperationAccounts ==
  ASSUME IInv, AccountsInv, NEW u \in Users, StabilityPoolOperation(u)
  PROVE  AccountsInv'
<1>1. PICK g \in {0, stabilityPool.RBTC} :
        \/ \E a \in Amounts : ProvideToSP(u, a, g) \/ WithdrawFromSP(u, a, g)
        \/ WithdrawFromSP(u, 0, g)
        \/ MoveRBTCGainToVault(u, g)
  BY DEF StabilityPoolOperation
<1>2. ASSUME NEW a, ProvideToSP(u, a, g) \/ WithdrawFromSP(u, a, g)
      PROVE  AccountsInv'
  BY <1>2, OtherStepsAccounts DEF ProvideToSP, WithdrawFromSP, vmVars
<1>3. CASE MoveRBTCGainToVault(u, g)
  <2>1. g \in Nat /\ 0 \in Nat
    BY DEF IInv, TypeOK
  <2> QED
    BY <1>3, <2>1, AdjustAccounts DEF MoveRBTCGainToVault
<1> QED
  BY <1>1, <1>2, <1>3

\* No vault, no list, no balance at deployment.
LEMMA InitAccounts == Init => AccountsInv
<1> SUFFICES ASSUME Init PROVE AccountsInv
  OBVIOUS
<1>1. Active = {} /\ IsFiniteSet(Users)
  BY AccountsAssumption DEF Init, Active
<1>2. ListOf(sortedVaults, Active)
  BY <1>1 DEF Init, ListOf, Distinct, Range
<1>3. /\ Sum([u \in Users |-> vaults[u].coll], Users) = 0
      /\ Sum([u \in Users |-> vaults[u].debt], Users) = 0
      /\ Sum([u \in Users |-> vaults[u].stake], Users) = 0
      /\ Sum(surplus, Users) = 0
  BY <1>1, SumZero DEF Init, Sum
<1> QED
  BY <1>1, <1>2, <1>3 DEF Init, NoReward, AccountsInv, DebtAboveMin, TotalStakesIsSum, SurplusIsBacked,
                          ActivePoolIsVaults

\* Every transaction keeps the accounts.
LEMMA NextAccounts == IInv /\ AccountsInv /\ [Next]_vars => AccountsInv'
<1> SUFFICES ASSUME IInv, AccountsInv, [Next]_vars PROVE AccountsInv'
  OBVIOUS
<1>1. ASSUME NEW u \in Users,
             \/ BorrowerOperation(u) \/ ClaimCollateral(u)
             \/ Liquidation(u) \/ Redemption(u) \/ StabilityPoolOperation(u)
      PROVE  AccountsInv'
  BY <1>1, BorrowerOperationAccounts, ClaimCollateralAccounts, LiquidationAccounts,
     RedemptionAccounts, StabilityPoolOperationAccounts
<1>2. ASSUME NEW u \in Users, PayOutFees(u) \/ \E v \in Users : Transfer(u, v, bpd[u])
      PROVE  AccountsInv'
  BY <1>2, OtherStepsAccounts DEF PayOutFees, Transfer, vmVars, poolVars
<1>3. ASSUME NEW p \in Prices, PriceMoves(p)
      PROVE  AccountsInv'
  BY <1>3, OtherStepsAccounts DEF PriceMoves, vmVars, poolVars
<1>4. CASE UNCHANGED vars
  BY <1>4, OtherStepsAccounts DEF vars, vmVars, poolVars
<1> QED
  BY <1>1, <1>2, <1>3, <1>4 DEF Next

\* Every operation keeps the books of the vaults exact, with the list of the active ones.
THEOREM SpecAccounts == Spec => []AccountsInv
<1>1. Init => AccountsInv
  BY InitAccounts
<1>2. IInv /\ AccountsInv /\ [Next]_vars => AccountsInv'
  BY NextAccounts
<1> QED
  BY <1>1, <1>2, SpecInv, PTL DEF Spec

\* The Active Pool records exactly what the active vaults hold and owe without their
\* pending rewards: no loop of liquidations or redemptions, and no adjustment, moves
\* more or less of it than it takes from the vaults (ActivePool.sol).
THEOREM ActivePoolIsAlwaysVaults == Spec => []ActivePoolIsVaults
<1>1. AccountsInv => ActivePoolIsVaults
  BY DEF AccountsInv
<1> QED
  BY <1>1, SpecAccounts, PTL

\* totalStakes is the sum of the stakes, which _computeNewStake and the rewards per unit
\* staked divide by (VaultManager.sol).
THEOREM TotalStakesIsAlwaysSum == Spec => []TotalStakesIsSum
<1>1. AccountsInv => TotalStakesIsSum
  BY DEF AccountsInv
<1> QED
  BY <1>1, SpecAccounts, PTL

\* What CollSurplusPool counts as its RBTC is what former owners can claim, whichever
\* liquidations and redemptions closed their vaults.
THEOREM SurplusIsAlwaysBacked == Spec => []SurplusIsBacked
<1>1. AccountsInv => SurplusIsBacked
  BY DEF AccountsInv
<1> QED
  BY <1>1, SpecAccounts, PTL

\* SortedVaults holds each active vault once and no other.
THEOREM ListIsAlwaysActive == Spec => []ListIsActive
<1>1. AccountsInv => ListIsActive
  BY ListLength DEF AccountsInv, ListOf, ListIsActive
<1> QED
  BY <1>1, SpecAccounts, PTL

\* No operation leaves a vault with less than the minimum debt, so that no ratio and no
\* liquidation divides by zero: openVault, repayBPD and a partial redemption check it.
THEOREM DebtIsAlwaysAboveMin == Spec => []DebtAboveMin
<1>1. AccountsInv => DebtAboveMin
  BY DEF AccountsInv
<1> QED
  BY <1>1, SpecAccounts, PTL

----------------------------------------------------------------------------
\* The rewards of redistributions: the Default Pool holds what the vaults may still
\* claim of it, however the divisions by the stakes round.
\*
\* A vault's claim is its stake times the rewards per unit staked since its snapshot,
\* before the division by DECIMAL_PRECISION.  The claims and the error kept for the next
\* division never exceed what the pool holds: a redistribution raises both sides by as
\* much as the stakes that remain allow, and a vault that is paid gives up at least what
\* it is paid.

RBTCClaim(u) ==
  IF u \in Active THEN vaults[u].stake * (B.RBTC - snapshots[u].RBTC) ELSE 0
DebtClaim(u) ==
  IF u \in Active THEN vaults[u].stake * (B.BPDDebt - snapshots[u].BPDDebt) ELSE 0

\* The claims c and the error kept are within what the pool holds.
Covers(pool, error, c) == Sum(c, Users) + error <= DECIMAL_PRECISION * pool

RBTCIsCovered == Covers(defaultPool.RBTC, lastError.RBTC, [u \in Users |-> RBTCClaim(u)])
DebtIsCovered == Covers(defaultPool.BPDDebt, lastError.BPDDebt, [u \in Users |-> DebtClaim(u)])

\* A vault whose RBTC snapshot is current has a current snapshot of the debt too: what
\* hasPendingRewards relies on when it compares only the first.
SnapshotsAgree == \A u \in Active : snapshots[u].RBTC = B.RBTC => snapshots[u].BPDDebt = B.BPDDebt

RewardsInv ==
  /\ RBTCIsCovered
  /\ ~debtUnseen => DebtIsCovered /\ SnapshotsAgree

----------------------------------------------------------------------------
\* A quotient times its divisor is within the dividend.
LEMMA QuotientBound ==
  ASSUME NEW a \in Nat, NEW b \in Nat \ {0}
  PROVE  b * (a \div b) <= a
OBVIOUS

\* A claim is natural and worth at least what is paid for it.
LEMMA ClaimsArePaid ==
  ASSUME IInv, NEW u \in Users
  PROVE  /\ RBTCClaim(u) \in Nat /\ DebtClaim(u) \in Nat
         /\ DECIMAL_PRECISION * PendingRBTC(u) <= RBTCClaim(u)
         /\ DECIMAL_PRECISION * PendingDebt(u) <= DebtClaim(u)
         /\ DECIMAL_PRECISION * AppliedRBTC(u) <= RBTCClaim(u)
         /\ DECIMAL_PRECISION * AppliedDebt(u) <= DebtClaim(u)
         /\ ~HasPendingRewards(u) => RBTCClaim(u) = 0
         /\ ~HasPendingRewards(u) /\ SnapshotsAgree => DebtClaim(u) = 0
<1>1. DECIMAL_PRECISION \in Nat \ {0}
  BY ParametersAssumption
<1>2. CASE u \in Active
  <2>1. vaults[u].stake \in Nat /\ snapshots[u] \in Reward /\ B \in Reward
    BY DEF IInv, TypeOK, Vault
  <2>2. B.RBTC - snapshots[u].RBTC \in Nat /\ B.BPDDebt - snapshots[u].BPDDebt \in Nat
    BY <1>2, <2>1 DEF IInv, SnapshotsBehind, Reward
  <2>3. RBTCClaim(u) \in Nat /\ DebtClaim(u) \in Nat
    BY <1>2, <2>1, <2>2, ProductNat DEF RBTCClaim, DebtClaim
  <2>4. /\ PendingRBTC(u) = RBTCClaim(u) \div DECIMAL_PRECISION
        /\ PendingDebt(u) = DebtClaim(u) \div DECIMAL_PRECISION
    BY <1>2 DEF PendingRBTC, PendingDebt, RBTCClaim, DebtClaim
  <2>5. /\ DECIMAL_PRECISION * PendingRBTC(u) <= RBTCClaim(u)
        /\ DECIMAL_PRECISION * PendingDebt(u) <= DebtClaim(u)
    BY <1>1, <2>3, <2>4, QuotientBound
  <2>6. /\ DECIMAL_PRECISION * AppliedRBTC(u) <= RBTCClaim(u)
        /\ DECIMAL_PRECISION * AppliedDebt(u) <= DebtClaim(u)
    BY <1>1, <2>3, <2>5 DEF AppliedRBTC, AppliedDebt
  <2>7. ASSUME ~HasPendingRewards(u) PROVE RBTCClaim(u) = 0
    <3>1. B.RBTC - snapshots[u].RBTC = 0
      BY <1>2, <2>1, <2>2, <2>7 DEF HasPendingRewards, Reward
    <3> QED BY <2>1, <3>1 DEF RBTCClaim
  <2>8. ASSUME ~HasPendingRewards(u), SnapshotsAgree PROVE DebtClaim(u) = 0
    <3>1. B.RBTC = snapshots[u].RBTC
      BY <1>2, <2>1, <2>2, <2>8 DEF HasPendingRewards, Reward
    <3>2. B.BPDDebt - snapshots[u].BPDDebt = 0
      BY <1>2, <2>1, <2>8, <3>1 DEF SnapshotsAgree, Reward
    <3> QED BY <2>1, <3>2 DEF DebtClaim
  <2> QED BY <2>3, <2>5, <2>6, <2>7, <2>8
<1>3. CASE u \notin Active
  BY <1>1, <1>3 DEF RBTCClaim, DebtClaim, PendingRBTC, PendingDebt, AppliedRBTC, AppliedDebt,
                    HasPendingRewards
<1> QED BY <1>2, <1>3

\* Vaults of A are paid p for their claims and give them up.
LEMMA ClaimsSettled ==
  ASSUME NEW c, NEW d, NEW p, NEW A \in SUBSET Users, NEW pool \in Int, NEW error \in Int,
         Covers(pool, error, c),
         \A u \in Users : c[u] \in Int,
         \A u \in A : p[u] \in Int /\ DECIMAL_PRECISION * p[u] <= c[u] /\ d[u] = 0,
         \A u \in Users \ A : d[u] = c[u]
  PROVE  Covers(pool - Sum(p, A), error, d) /\ Sum(p, A) \in Int
<1> DEFINE worth == [u \in A |-> DECIMAL_PRECISION * p[u]]
<1>1. IsFiniteSet(Users) /\ IsFiniteSet(A) /\ DECIMAL_PRECISION \in Nat
  BY AccountsAssumption, ParametersAssumption, FS_Subset
<1>2. \A u \in Users : d[u] \in Int
  OBVIOUS
<1>3. Sum(d, Users) = Sum(c, Users) - Sum(c, A) + Sum(d, A)
  BY <1>1, <1>2, SumReplaced DEF Sum
<1>4. Sum(d, A) = 0
  BY <1>1, SumZero DEF Sum
<1>5. Sum(p, A) \in Int /\ Sum(c, A) \in Int /\ Sum(c, Users) \in Int
  BY <1>1, SumInt DEF Sum
<1>6. \A u \in A : worth[u] = DECIMAL_PRECISION * p[u] /\ worth[u] \in Int /\ worth[u] <= c[u]
  BY <1>1
<1> HIDE DEF worth
<1>7. Sum(worth, A) = DECIMAL_PRECISION * Sum(p, A)
  BY <1>1, <1>6, SumTimes DEF Sum
<1>8. Sum(worth, A) <= Sum(c, A)
  BY <1>1, <1>6, SumMonotone DEF Sum
<1>9. DECIMAL_PRECISION * (pool - Sum(p, A)) = DECIMAL_PRECISION * pool - DECIMAL_PRECISION * Sum(p, A)
  BY <1>1, <1>5
<1> DEFINE held == DECIMAL_PRECISION * pool
           paid == DECIMAL_PRECISION * Sum(p, A)
<1>10. held \in Int /\ paid \in Int
  BY <1>1, <1>5
<1> HIDE DEF held, paid
<1>11. Sum(c, Users) + error <= held /\ DECIMAL_PRECISION * (pool - Sum(p, A)) = held - paid
  BY <1>9 DEF Covers, held, paid
<1>12. Sum(d, Users) + error <= held - paid
  BY <1>3, <1>4, <1>5, <1>7, <1>8, <1>10, <1>11 DEF paid
<1> QED BY <1>5, <1>11, <1>12 DEF Covers

\* A redistribution of amount over stakes raises the claims by no more than it adds to
\* the pool, with the error of the division kept for the next one.
LEMMA ClaimsRedistributed ==
  ASSUME NEW c, NEW d, NEW s, NEW pool \in Int, NEW error \in Nat, NEW amount \in Nat,
         NEW stakes \in Nat \ {0},
         Covers(pool, error, c),
         \A u \in Users : c[u] \in Int /\ s[u] \in Nat
                          /\ d[u] = c[u] + RewardPerUnit(amount, error, stakes) * s[u],
         Sum(s, Users) <= stakes
  PROVE  Covers(pool + amount, RewardError(amount, error, stakes), d)
<1> DEFINE k == RewardPerUnit(amount, error, stakes)
           shares == [u \in Users |-> k * s[u]]
           num == amount * DECIMAL_PRECISION + error
<1>1. IsFiniteSet(Users) /\ DECIMAL_PRECISION \in Nat
  BY AccountsAssumption, ParametersAssumption
<1>2. num \in Nat /\ amount * DECIMAL_PRECISION \in Nat
  BY <1>1, ProductNat
<1>3. k = num \div stakes /\ RewardError(amount, error, stakes) = num - k * stakes
  BY DEF RewardPerUnit, RewardError
<1> HIDE DEF num
<1>4. k \in Nat
  BY <1>2, <1>3, DivisionNat
<1> HIDE DEF k
<1>5. \A u \in Users : /\ c[u] \in Int /\ s[u] \in Int /\ shares[u] = k * s[u]
                       /\ shares[u] \in Int /\ d[u] = c[u] + shares[u]
  BY <1>4 DEF k
<1> HIDE DEF shares
<1>6. Sum(d, Users) = Sum(c, Users) + Sum(shares, Users)
  BY <1>1, <1>5, SumPlus DEF Sum
<1>7. Sum(shares, Users) = k * Sum(s, Users)
  BY <1>1, <1>4, <1>5, SumTimes DEF Sum
<1>8. Sum(s, Users) \in Nat /\ Sum(c, Users) \in Int
  BY <1>1, <1>5, SumNat, SumInt DEF Sum
<1>9. k * Sum(s, Users) <= k * stakes /\ k * Sum(s, Users) \in Int /\ k * stakes \in Int
  BY <1>4, <1>8
<1>10. DECIMAL_PRECISION * (pool + amount) = DECIMAL_PRECISION * pool + amount * DECIMAL_PRECISION
  BY <1>1
<1>11. DECIMAL_PRECISION * pool \in Int
  BY <1>1
<1>12. Sum(c, Users) + error <= DECIMAL_PRECISION * pool
  BY DEF Covers
<1>13. Sum(d, Users) + (num - k * stakes) <= DECIMAL_PRECISION * pool + amount * DECIMAL_PRECISION
  <2> DEFINE held == DECIMAL_PRECISION * pool
             added == amount * DECIMAL_PRECISION
             taken == k * stakes
             given == k * Sum(s, Users)
  <2>1. /\ held \in Int /\ added \in Int /\ taken \in Int /\ given \in Int /\ given <= taken
        /\ Sum(d, Users) = Sum(c, Users) + given /\ num = added + error
        /\ Sum(c, Users) + error <= held
    BY <1>2, <1>6, <1>7, <1>9, <1>11, <1>12 DEF num
  <2> HIDE DEF held, added, taken, given
  <2>2. Sum(d, Users) + (num - taken) <= held + added
    BY <1>8, <2>1
  <2> QED BY <2>2 DEF held, added, taken
<1> QED BY <1>3, <1>10, <1>13 DEF Covers

----------------------------------------------------------------------------
\* Operations that pay pending rewards and redistribute nothing.

\* After applyPendingRewards a vault has no RBTC claim, and no debt claim either unless
\* hasPendingRewards missed it.
LEMMA AppliedSnapshot ==
  ASSUME IInv, NEW u \in Active
  PROVE  /\ SnapshotAfterApply(u).RBTC = B.RBTC
         /\ SnapshotsAgree => SnapshotAfterApply(u).BPDDebt = B.BPDDebt
<1>1. u \in Users /\ snapshots[u] \in Reward /\ B \in Reward /\ snapshots[u].RBTC <= B.RBTC
  BY DEF IInv, TypeOK, Active, SnapshotsBehind
<1>2. ~HasPendingRewards(u) => snapshots[u].RBTC = B.RBTC
  BY <1>1 DEF HasPendingRewards, Reward
<1> QED BY <1>1, <1>2 DEF SnapshotAfterApply, SnapshotsAgree

\* A vault that is closed, or whose snapshot is current, claims nothing.
LEMMA NoClaimAfter ==
  ASSUME TypeOK', NEW u \in Users
  PROVE  /\ u \notin Active' \/ snapshots'[u].RBTC = B'.RBTC => RBTCClaim(u)' = 0
         /\ u \notin Active' \/ snapshots'[u].BPDDebt = B'.BPDDebt => DebtClaim(u)' = 0
<1>1. vaults'[u].stake \in Nat /\ snapshots'[u] \in Reward /\ B' \in Reward
  BY DEF TypeOK, Vault
<1>2. CASE u \notin Active'
  BY <1>2 DEF RBTCClaim, DebtClaim
<1>3. CASE u \in Active'
  <2>1. ASSUME snapshots'[u].RBTC = B'.RBTC PROVE RBTCClaim(u)' = 0
    <3>1. B'.RBTC - snapshots'[u].RBTC = 0
      BY <1>1, <2>1 DEF Reward
    <3> QED BY <1>1, <3>1 DEF RBTCClaim
  <2>2. ASSUME snapshots'[u].BPDDebt = B'.BPDDebt PROVE DebtClaim(u)' = 0
    <3>1. B'.BPDDebt - snapshots'[u].BPDDebt = 0
      BY <1>1, <2>2 DEF Reward
    <3> QED BY <1>1, <3>1 DEF DebtClaim
  <2> QED BY <1>3, <2>1, <2>2
<1> QED BY <1>2, <1>3

\* The pending rewards of the vaults of A are applied, or were none.
LEMMA AppliedClaims ==
  ASSUME IInv, IInv', RewardsInv, NEW A \in SUBSET Users,
         UNCHANGED <<B, lastError, debtUnseen>>,
         \A u \in Users \ A : vaults'[u] = vaults[u] /\ snapshots'[u] = snapshots[u],
         \A u \in A : \/ u \notin Active' \/ snapshots'[u] = B
                      \/ u \in Active /\ snapshots'[u] = SnapshotAfterApply(u),
         defaultPool'.RBTC = defaultPool.RBTC - Sum([u \in Users |-> AppliedRBTC(u)], A),
         defaultPool'.BPDDebt = defaultPool.BPDDebt - Sum([u \in Users |-> AppliedDebt(u)], A)
  PROVE  RewardsInv'
<1> DEFINE c == [u \in Users |-> RBTCClaim(u)]
           d == [u \in Users |-> DebtClaim(u)]
           c1 == [u \in Users |-> RBTCClaim(u)']
           d1 == [u \in Users |-> DebtClaim(u)']
           p == [u \in Users |-> AppliedRBTC(u)]
           q == [u \in Users |-> AppliedDebt(u)]
<1>1. /\ B' = B /\ lastError' = lastError /\ debtUnseen' = debtUnseen
      /\ defaultPool'.RBTC = defaultPool.RBTC - Sum(p, A)
      /\ defaultPool'.BPDDebt = defaultPool.BPDDebt - Sum(q, A)
      /\ defaultPool.RBTC \in Int /\ defaultPool.BPDDebt \in Int
      /\ lastError.RBTC \in Int /\ lastError.BPDDebt \in Int
  BY DEF IInv, TypeOK, Reward
<1>2. \A u \in Users : /\ c[u] \in Int /\ d[u] \in Int /\ p[u] \in Int /\ q[u] \in Int
                       /\ DECIMAL_PRECISION * p[u] <= c[u] /\ DECIMAL_PRECISION * q[u] <= d[u]
  BY ClaimsArePaid, PendingNat DEF IInv
<1>3. \A u \in Users \ A : u \in Active' <=> u \in Active
  BY DEF Active
<1>4. \A u \in Users \ A : c1[u] = c[u] /\ d1[u] = d[u]
  BY <1>1, <1>3 DEF RBTCClaim, DebtClaim
<1>5. \A u \in A : /\ u \in Active' => snapshots'[u].RBTC = B'.RBTC
                   /\ u \in Active' /\ SnapshotsAgree => snapshots'[u].BPDDebt = B'.BPDDebt
  BY <1>1, AppliedSnapshot
<1>6. TypeOK'
  BY DEF IInv
<1>7. \A u \in A : c1[u] = 0 /\ (SnapshotsAgree => d1[u] = 0)
  <2>1. \A u \in Users :
          /\ u \notin Active' \/ snapshots'[u].RBTC = B'.RBTC => RBTCClaim(u)' = 0
          /\ u \notin Active' \/ snapshots'[u].BPDDebt = B'.BPDDebt => DebtClaim(u)' = 0
    BY <1>6, NoClaimAfter
  <2> QED BY <1>5, <2>1
<1>8. RBTCIsCovered' <=> Covers(defaultPool'.RBTC, lastError'.RBTC, c1)
  BY DEF RBTCIsCovered, Covers, Sum
<1>9. DebtIsCovered' <=> Covers(defaultPool'.BPDDebt, lastError'.BPDDebt, d1)
  BY DEF DebtIsCovered, Covers, Sum
<1>10. Covers(defaultPool.RBTC, lastError.RBTC, c) /\ (~debtUnseen => SnapshotsAgree)
       /\ (~debtUnseen => Covers(defaultPool.BPDDebt, lastError.BPDDebt, d))
  BY DEF RewardsInv, RBTCIsCovered, DebtIsCovered
<1> HIDE DEF c, d, c1, d1, p, q
<1>11. RBTCIsCovered'
  <2>1. Covers(defaultPool.RBTC - Sum(p, A), lastError.RBTC, c1)
    BY <1>1, <1>2, <1>4, <1>7, <1>10, ClaimsSettled
  <2> QED BY <1>1, <1>8, <2>1
<1>12. ASSUME ~debtUnseen PROVE DebtIsCovered'
  <2>1. Covers(defaultPool.BPDDebt - Sum(q, A), lastError.BPDDebt, d1)
    BY <1>1, <1>2, <1>4, <1>7, <1>10, <1>12, ClaimsSettled
  <2> QED BY <1>1, <1>9, <2>1
<1>13. ASSUME ~debtUnseen PROVE SnapshotsAgree'
  <2> SUFFICES ASSUME NEW u \in Active', u \in Users, snapshots'[u].RBTC = B'.RBTC
               PROVE  snapshots'[u].BPDDebt = B'.BPDDebt
    BY DEF SnapshotsAgree, Active
  <2>1. CASE u \in A
    BY <1>5, <1>10, <1>13, <2>1
  <2>2. CASE u \notin A
    BY <1>1, <1>3, <1>10, <1>13, <2>2 DEF SnapshotsAgree
  <2> QED BY <2>1, <2>2
<1> QED BY <1>1, <1>11, <1>12, <1>13 DEF RewardsInv

\* The same when the rewards of one vault are applied.
LEMMA OneVaultClaims ==
  ASSUME IInv, IInv', RewardsInv, NEW u \in Users,
         UNCHANGED <<B, lastError, debtUnseen>>,
         \A w \in Users \ {u} : vaults'[w] = vaults[w] /\ snapshots'[w] = snapshots[w],
         \/ u \notin Active' \/ snapshots'[u] = B
         \/ u \in Active /\ snapshots'[u] = SnapshotAfterApply(u),
         defaultPool'.RBTC = defaultPool.RBTC - AppliedRBTC(u),
         defaultPool'.BPDDebt = defaultPool.BPDDebt - AppliedDebt(u)
  PROVE  RewardsInv'
<1>1. ASSUME NEW f, f[u] \in Int
      PROVE  Sum(f, {u}) = f[u]
  <2>1. SumFunctionOnSet(f, {}) = 0 /\ IsFiniteSet({})
    BY SumEmpty, FS_EmptySet
  <2>2. SumFunctionOnSet(f, {} \cup {u}) = f[u] + SumFunctionOnSet(f, {})
    BY <1>1, <2>1, SumAdd
  <2>3. {} \cup {u} = {u}
    OBVIOUS
  <2> QED BY <1>1, <2>1, <2>2, <2>3 DEF Sum
<1>2. AppliedRBTC(u) \in Int /\ AppliedDebt(u) \in Int
  BY PendingNat DEF IInv
<1>3. /\ Sum([w \in Users |-> AppliedRBTC(w)], {u}) = AppliedRBTC(u)
      /\ Sum([w \in Users |-> AppliedDebt(w)], {u}) = AppliedDebt(u)
  <2> DEFINE applied == [w \in Users |-> AppliedRBTC(w)]
             appliedDebt == [w \in Users |-> AppliedDebt(w)]
  <2>1. applied[u] = AppliedRBTC(u) /\ appliedDebt[u] = AppliedDebt(u)
    OBVIOUS
  <2> HIDE DEF applied, appliedDebt
  <2>2. Sum(applied, {u}) = applied[u] /\ Sum(appliedDebt, {u}) = appliedDebt[u]
    BY ONLY <1>1, <1>2, <2>1
  <2>3. Sum(applied, {u}) = AppliedRBTC(u) /\ Sum(appliedDebt, {u}) = AppliedDebt(u)
    BY ONLY <2>1, <2>2
  <2> QED
    BY ONLY <2>3 DEF applied, appliedDebt
<1>4. {u} \in SUBSET Users
  OBVIOUS
<1> QED BY <1>3, <1>4, AppliedClaims

----------------------------------------------------------------------------
\* The operations of borrowers and redeemers.

\* A vault that opens claims nothing of what was redistributed before.
LEMMA OpenVaultClaims ==
  ASSUME IInv, IInv', RewardsInv, NEW u \in Users, NEW c, NEW a, NEW rate, OpenVault(u, c, a, rate)
  PROVE  RewardsInv'
<1>1. /\ u \notin Active /\ snapshots' = [snapshots EXCEPT ![u] = B]
      /\ UNCHANGED <<B, lastError, debtUnseen, defaultPool>>
      /\ \E v : vaults' = [vaults EXCEPT ![u] = v]
  BY DEF OpenVault
<1>2. AppliedRBTC(u) = 0 /\ AppliedDebt(u) = 0
  BY <1>1 DEF AppliedRBTC, AppliedDebt, HasPendingRewards
<1>3. snapshots'[u] = B /\ \A w \in Users \ {u} : vaults'[w] = vaults[w] /\ snapshots'[w] = snapshots[w]
  BY <1>1 DEF IInv, TypeOK
<1>4. /\ defaultPool'.RBTC = defaultPool.RBTC - AppliedRBTC(u)
      /\ defaultPool'.BPDDebt = defaultPool.BPDDebt - AppliedDebt(u)
  BY <1>1, <1>2 DEF IInv, TypeOK, Reward
<1> QED BY <1>1, <1>3, <1>4, OneVaultClaims

\* _adjustVault applies the pending rewards before it changes the stake.
LEMMA AdjustClaims ==
  ASSUME IInv, IInv', RewardsInv, NEW u \in Users, NEW collIn, NEW collOut, NEW borrow, NEW repay,
         NEW rate, Adjust(u, collIn, collOut, borrow, repay, rate)
  PROVE  RewardsInv'
<1>1. /\ u \in Active /\ snapshots' = [snapshots EXCEPT ![u] = SnapshotAfterApply(u)]
      /\ UNCHANGED <<B, lastError, debtUnseen>>
      /\ defaultPool' = [RBTC    |-> defaultPool.RBTC - AppliedRBTC(u),
                         BPDDebt |-> defaultPool.BPDDebt - AppliedDebt(u)]
      /\ \E v : vaults' = [vaults EXCEPT ![u] = v]
  BY DEF Adjust
<1>2. /\ snapshots'[u] = SnapshotAfterApply(u)
      /\ \A w \in Users \ {u} : vaults'[w] = vaults[w] /\ snapshots'[w] = snapshots[w]
  BY <1>1 DEF IInv, TypeOK
<1>3. /\ defaultPool'.RBTC = defaultPool.RBTC - AppliedRBTC(u)
      /\ defaultPool'.BPDDebt = defaultPool.BPDDebt - AppliedDebt(u)
  BY <1>1
<1> QED BY <1>1, <1>2, <1>3, OneVaultClaims

\* closeVault applies the pending rewards and gives up the stake.
LEMMA CloseVaultClaims ==
  ASSUME IInv, IInv', RewardsInv, NEW u \in Users, CloseVault(u)
  PROVE  RewardsInv'
<1>1. /\ snapshots' = [snapshots EXCEPT ![u] = NoReward]
      /\ UNCHANGED <<B, lastError, debtUnseen>>
      /\ defaultPool' = [RBTC    |-> defaultPool.RBTC - AppliedRBTC(u),
                         BPDDebt |-> defaultPool.BPDDebt - AppliedDebt(u)]
      /\ vaults' = [vaults EXCEPT ![u] = ClosedVault(u, "closedByOwner")]
  BY DEF CloseVault
<1>2. /\ vaults'[u] = ClosedVault(u, "closedByOwner")
      /\ \A w \in Users \ {u} : vaults'[w] = vaults[w] /\ snapshots'[w] = snapshots[w]
  BY <1>1 DEF IInv, TypeOK
<1>3. u \notin Active'
  BY <1>2 DEF Active, ClosedVault
<1>4. /\ defaultPool'.RBTC = defaultPool.RBTC - AppliedRBTC(u)
      /\ defaultPool'.BPDDebt = defaultPool.BPDDebt - AppliedDebt(u)
  BY <1>1
<1> QED BY <1>1, <1>2, <1>3, <1>4, OneVaultClaims

\* A redemption applies the rewards of every vault it visits, one it then leaves as it was
\* included.
LEMMA SettleRedemptionClaims ==
  ASSUME IInv, IInv', RewardsInv, NEW redeemer, NEW t, RedemptionIsExact(t),
         SettleRedemption(redeemer, t)
  PROVE  RewardsInv'
<1> DEFINE A == t.applied
<1>1. A \in SUBSET Users /\ A \subseteq Active /\ t.closed \subseteq A /\ t.partial \subseteq A
  BY DEF RedemptionIsExact, PartIsLast, Active
<1>2. /\ vaults' = [u \in Users |-> RedeemedVault(t, u)]
      /\ snapshots' = [u \in Users |-> IF u \in t.closed THEN NoReward
                                       ELSE IF u \in t.applied THEN SnapshotAfterApply(u) ELSE snapshots[u]]
      /\ defaultPool'.RBTC = defaultPool.RBTC - Sum([u \in Users |-> AppliedRBTC(u)], A)
      /\ defaultPool'.BPDDebt = defaultPool.BPDDebt - Sum([u \in Users |-> AppliedDebt(u)], A)
      /\ UNCHANGED <<B, lastError, debtUnseen>>
  BY DEF SettleRedemption
<1>3. \A u \in Users \ A : vaults'[u] = vaults[u] /\ snapshots'[u] = snapshots[u]
  BY <1>1, <1>2 DEF RedeemedVault
<1>4. ASSUME NEW u \in A
      PROVE  u \notin Active' \/ (u \in Active /\ snapshots'[u] = SnapshotAfterApply(u))
  <2>1. CASE u \in t.closed
    <3>1. vaults'[u].status # "active"
      BY <1>1, <1>2, <2>1 DEF RedeemedVault, ClosedVault
    <3> QED BY <3>1 DEF Active
  <2>2. CASE u \notin t.closed
    BY <1>1, <1>2, <2>2
  <2> QED BY <2>1, <2>2
<1> HIDE DEF A
<1> QED BY <1>1, <1>2, <1>3, <1>4, AppliedClaims

----------------------------------------------------------------------------
\* Liquidations.

\* amount of debt's collateral, or of debt itself, is redistributed over stakes: the sum
\* gains k, and claims c become d, each by the vault's stake of s.
IsRedistributed(debt, amount, stakes, error, k, errorAfter, c, s, d) ==
  /\ debt \in Nat /\ amount \in Nat /\ stakes \in Nat /\ error \in Nat /\ k \in Int
  /\ debt = 0 => k = 0 /\ errorAfter = error
  /\ debt # 0 => /\ stakes > 0 /\ k = RewardPerUnit(amount, error, stakes)
                 /\ errorAfter = RewardError(amount, error, stakes)
  /\ \A u \in Users : c[u] \in Int /\ s[u] \in Nat /\ d[u] = c[u] + k * s[u]
  /\ Sum(s, Users) <= stakes

\* Such a redistribution keeps the claims within the pool.
LEMMA ClaimsAfterRedistribution ==
  ASSUME NEW debt, NEW amount, NEW stakes, NEW error, NEW k, NEW errorAfter, NEW c, NEW s, NEW d,
         NEW pool \in Int, Covers(pool, error, c),
         IsRedistributed(debt, amount, stakes, error, k, errorAfter, c, s, d)
  PROVE  Covers(pool + amount, errorAfter, d)
<1> USE DEF IsRedistributed
<1>1. CASE debt = 0
  <2>1. \A u \in Users : d[u] = c[u]
    BY <1>1
  <2>2. IsFiniteSet(Users)
    BY AccountsAssumption
  <2>3. Sum(d, Users) = Sum(c, Users) /\ Sum(c, Users) \in Int
    BY <2>1, <2>2, SumSame, SumInt DEF Sum
  <2>4. /\ DECIMAL_PRECISION * (pool + amount) = DECIMAL_PRECISION * pool + DECIMAL_PRECISION * amount
        /\ DECIMAL_PRECISION * pool \in Int /\ DECIMAL_PRECISION * amount \in Nat
    BY ParametersAssumption
  <2> QED BY <1>1, <2>3, <2>4 DEF Covers
<1>2. CASE debt # 0
  <2>1. stakes \in Nat \ {0}
    BY <1>2
  <2> QED BY <1>2, <2>1, ClaimsRedistributed
<1> QED BY <1>1, <1>2

\* A claim grows with the sum by as much per unit staked.
LEMMA ClaimGrows ==
  ASSUME NEW a \in Nat, NEW b \in Int, NEW c \in Int, NEW k \in Int
  PROVE  a * ((b + k) - c) = a * (b - c) + k * a
OBVIOUS

\* The settlement of a liquidation pays the vaults it closes and redistributes to the others.
LEMMA SettleLiquidationClaims ==
  ASSUME IInv, IInv', AccountsInv', RewardsInv, NEW liquidator, NEW t, SettleLiquidation(liquidator, t)
  PROVE  RewardsInv'
<1> DEFINE closed == t.closed \cap Active
           c == [u \in Users |-> RBTCClaim(u)]
           d == [u \in Users |-> DebtClaim(u)]
           cLeft == [u \in Users |-> IF u \in closed THEN 0 ELSE RBTCClaim(u)]
           dLeft == [u \in Users |-> IF u \in closed THEN 0 ELSE DebtClaim(u)]
           c1 == [u \in Users |-> RBTCClaim(u)']
           d1 == [u \in Users |-> DebtClaim(u)']
           p == [u \in Users |-> PendingRBTC(u)]
           q == [u \in Users |-> PendingDebt(u)]
           s == [u \in Users |-> IF u \in Active' THEN vaults'[u].stake ELSE 0]
           stakes == totalStakes'
           k == IF t.debtRedist = 0 THEN 0 ELSE RewardPerUnit(t.collRedist, lastError.RBTC, stakes)
           l == IF t.debtRedist = 0 THEN 0 ELSE RewardPerUnit(t.debtRedist, lastError.BPDDebt, stakes)
<1>1. /\ vaults' = [u \in Users |-> IF u \in closed THEN ClosedVault(u, "closedByLiquidation") ELSE vaults[u]]
      /\ snapshots' = [u \in Users |-> IF u \in closed THEN NoReward ELSE snapshots[u]]
      /\ Redistribute(t.debtRedist, t.collRedist, stakes)
      /\ defaultPool' = [RBTC |-> defaultPool.RBTC - PendingOf(closed).RBTC + t.collRedist,
                         BPDDebt |-> defaultPool.BPDDebt - PendingOf(closed).BPDDebt + t.debtRedist]
      /\ t.debtRedist \in Nat /\ t.collRedist \in Nat
  BY DEF SettleLiquidation, TallyIsValid, Redistribute
<1>2. /\ PendingOf(closed).RBTC = Sum(p, closed)
      /\ PendingOf(closed).BPDDebt = Sum(q, closed)
  BY DEF PendingOf
<1>3. closed \in SUBSET Users
  BY DEF Active
<1>4. Active' = Active \ closed
  BY <1>1 DEF Active, ClosedVault
<1>5. /\ defaultPool \in Reward /\ lastError \in Reward /\ B \in Reward /\ stakes \in Nat
      /\ \A u \in Users : vaults'[u].stake \in Nat /\ snapshots[u] \in Reward
  BY DEF IInv, TypeOK, Vault
<1>6. IsFiniteSet(Users)
  BY AccountsAssumption
<1>7. /\ ~debtUnseen => ~debtUnseen /\ SnapshotsAgree
      /\ Covers(defaultPool.RBTC, lastError.RBTC, c)
      /\ ~debtUnseen => Covers(defaultPool.BPDDebt, lastError.BPDDebt, d)
  BY DEF RewardsInv, RBTCIsCovered, DebtIsCovered
<1>8. \A u \in Users : /\ c[u] \in Int /\ d[u] \in Int /\ p[u] \in Int /\ q[u] \in Int
                       /\ DECIMAL_PRECISION * p[u] <= c[u] /\ DECIMAL_PRECISION * q[u] <= d[u]
  BY ClaimsArePaid, PendingNat DEF IInv
<1>9. \A u \in Users : cLeft[u] \in Int /\ dLeft[u] \in Int
  BY <1>8
<1>10. /\ \A u \in closed : cLeft[u] = 0 /\ dLeft[u] = 0
       /\ \A u \in Users \ closed : cLeft[u] = c[u] /\ dLeft[u] = d[u]
  BY <1>3
<1>11. /\ B'.RBTC = B.RBTC + k /\ B'.BPDDebt = B.BPDDebt + l
       /\ IF t.debtRedist = 0 THEN lastError'.RBTC = lastError.RBTC /\ lastError'.BPDDebt = lastError.BPDDebt
          ELSE /\ stakes > 0
               /\ lastError'.RBTC = RewardError(t.collRedist, lastError.RBTC, stakes)
               /\ lastError'.BPDDebt = RewardError(t.debtRedist, lastError.BPDDebt, stakes)
       /\ ~debtUnseen' => ~debtUnseen /\ (B'.BPDDebt # B.BPDDebt => B'.RBTC # B.RBTC)
  <2>1. CASE t.debtRedist = 0
    BY <1>1, <1>5, <2>1 DEF Redistribute, Reward
  <2>2. CASE t.debtRedist # 0
    <3>1. /\ k = RewardPerUnit(t.collRedist, lastError.RBTC, stakes)
          /\ l = RewardPerUnit(t.debtRedist, lastError.BPDDebt, stakes)
      BY <2>2
    <3> HIDE DEF k, l, stakes
    <3>2. /\ stakes > 0
          /\ B' = [RBTC    |-> B.RBTC + k, BPDDebt |-> B.BPDDebt + l]
          /\ lastError' = [RBTC    |-> RewardError(t.collRedist, lastError.RBTC, stakes),
                           BPDDebt |-> RewardError(t.debtRedist, lastError.BPDDebt, stakes)]
          /\ debtUnseen' = (debtUnseen \/ (B'.BPDDebt # B.BPDDebt /\ B'.RBTC = B.RBTC))
      BY <1>1, <2>2, <3>1 DEF Redistribute
    <3> QED BY <2>2, <3>2
  <2> QED BY <2>1, <2>2
<1>12. k \in Nat /\ l \in Nat
  <2>1. CASE t.debtRedist = 0
    BY <2>1
  <2>2. CASE t.debtRedist # 0
    <3>1. stakes \in Nat \ {0} /\ DECIMAL_PRECISION \in Nat
      BY <1>5, <1>11, <2>2, ParametersAssumption
    <3>2. /\ t.collRedist * DECIMAL_PRECISION + lastError.RBTC \in Nat
          /\ t.debtRedist * DECIMAL_PRECISION + lastError.BPDDebt \in Nat
      <4>1. t.collRedist * DECIMAL_PRECISION \in Nat /\ t.debtRedist * DECIMAL_PRECISION \in Nat
        BY <1>1, <3>1, ProductNat
      <4>2. lastError.RBTC \in Nat /\ lastError.BPDDebt \in Nat
        BY <1>5 DEF Reward
      <4> QED BY ONLY <4>1, <4>2
    <3> HIDE DEF stakes
    <3>3. /\ RewardPerUnit(t.collRedist, lastError.RBTC, stakes) \in Nat
          /\ RewardPerUnit(t.debtRedist, lastError.BPDDebt, stakes) \in Nat
      BY <3>1, <3>2, DivisionNat DEF RewardPerUnit
    <3> QED BY <2>2, <3>3
  <2> QED BY <2>1, <2>2
<1>13. \A u \in Users : /\ s[u] \in Nat /\ s[u] <= vaults'[u].stake
                        /\ u \in Active' => s[u] = vaults[u].stake
                        /\ u \notin Active' => s[u] = 0
  BY <1>1, <1>4, <1>5
<1> HIDE DEF k, l, s
<1>14. \A u \in Users : c1[u] = cLeft[u] + k * s[u] /\ d1[u] = dLeft[u] + l * s[u]
  <2> TAKE u \in Users
  <2>1. CASE u \in Active'
    <3>1. u \in Active /\ u \notin closed /\ vaults'[u] = vaults[u] /\ snapshots'[u] = snapshots[u]
      BY <1>1, <1>4, <2>1
    <3>2. vaults[u].stake \in Nat /\ snapshots[u].RBTC \in Int /\ snapshots[u].BPDDebt \in Int
          /\ B.RBTC \in Int /\ B.BPDDebt \in Int
      BY <1>5, <3>1 DEF Reward
    <3>3. /\ RBTCClaim(u)' = vaults[u].stake * ((B.RBTC + k) - snapshots[u].RBTC)
          /\ DebtClaim(u)' = vaults[u].stake * ((B.BPDDebt + l) - snapshots[u].BPDDebt)
      BY <1>11, <2>1, <3>1 DEF RBTCClaim, DebtClaim
    <3>4. /\ RBTCClaim(u) = vaults[u].stake * (B.RBTC - snapshots[u].RBTC)
          /\ DebtClaim(u) = vaults[u].stake * (B.BPDDebt - snapshots[u].BPDDebt)
      BY <3>1 DEF RBTCClaim, DebtClaim
    <3>5. RBTCClaim(u)' = RBTCClaim(u) + k * s[u] /\ DebtClaim(u)' = DebtClaim(u) + l * s[u]
      BY <1>12, <1>13, <2>1, <3>2, <3>3, <3>4, ClaimGrows
    <3> QED BY <3>1, <3>5
  <2>2. CASE u \notin Active'
    <3>1. c1[u] = 0 /\ d1[u] = 0
      BY <2>2 DEF RBTCClaim, DebtClaim
    <3>2. cLeft[u] = 0 /\ dLeft[u] = 0
      BY <1>4, <2>2 DEF RBTCClaim, DebtClaim
    <3>3. k * s[u] = 0 /\ l * s[u] = 0
      BY <1>12, <1>13, <2>2
    <3> QED BY <3>1, <3>2, <3>3
  <2> QED BY <2>1, <2>2
<1>15. Sum(s, Users) <= stakes
  <2> DEFINE all == [u \in Users |-> vaults'[u].stake]
  <2>1. \A u \in Users : s[u] \in Int /\ all[u] \in Int /\ s[u] <= all[u]
    BY <1>5, <1>13
  <2>2. stakes = Sum(all, Users)
    BY DEF AccountsInv, TotalStakesIsSum, Sum
  <2> HIDE DEF all
  <2> QED BY <1>6, <2>1, <2>2, SumMonotone DEF Sum
<1>16. RBTCIsCovered' <=> Covers(defaultPool'.RBTC, lastError'.RBTC, c1)
  BY DEF RBTCIsCovered, Covers, Sum
<1>17. DebtIsCovered' <=> Covers(defaultPool'.BPDDebt, lastError'.BPDDebt, d1)
  BY DEF DebtIsCovered, Covers, Sum
<1> HIDE DEF c, d, cLeft, dLeft, c1, d1, p, q, stakes, closed
<1>18. RBTCIsCovered'
  <2>1. Covers(defaultPool.RBTC - Sum(p, closed), lastError.RBTC, cLeft) /\ Sum(p, closed) \in Int
    BY <1>3, <1>5, <1>7, <1>8, <1>10, ClaimsSettled DEF Reward
  <2>2. defaultPool.RBTC - Sum(p, closed) \in Int /\ lastError.RBTC \in Nat
    BY <1>5, <2>1 DEF Reward
  <2>3. IF t.debtRedist = 0 THEN k = 0 /\ lastError'.RBTC = lastError.RBTC
        ELSE /\ stakes > 0 /\ k = RewardPerUnit(t.collRedist, lastError.RBTC, stakes)
             /\ lastError'.RBTC = RewardError(t.collRedist, lastError.RBTC, stakes)
    BY <1>11 DEF k
  <2>4. /\ t.collRedist \in Nat /\ t.debtRedist \in Nat /\ stakes \in Nat
        /\ \A u \in Users : cLeft[u] \in Int /\ s[u] \in Nat /\ c1[u] = cLeft[u] + k * s[u]
    BY <1>1, <1>5, <1>9, <1>13, <1>14
  <2>5. Covers(defaultPool.RBTC - Sum(p, closed) + t.collRedist, lastError'.RBTC, c1)
    <3> DEFINE left == defaultPool.RBTC - Sum(p, closed)
               error == lastError.RBTC
               errorAfter == lastError'.RBTC
               amount == t.collRedist
               debt == t.debtRedist
    <3>1. left \in Int /\ Covers(left, error, cLeft)
      BY <2>1, <2>2
    <3>2. IsRedistributed(debt, amount, stakes, error, k, errorAfter, cLeft, s, c1)
      BY <1>5, <1>12, <1>15, <2>2, <2>3, <2>4 DEF IsRedistributed
    <3> HIDE DEF left, error, errorAfter, amount, debt
    <3>3. Covers(left + amount, errorAfter, c1)
      BY ONLY <3>1, <3>2, ClaimsAfterRedistribution
    <3> QED BY <3>3 DEF left, errorAfter, amount
  <2> QED BY <1>1, <1>2, <1>16, <2>5
<1>19. ASSUME ~debtUnseen PROVE DebtIsCovered'
  <2>1. Covers(defaultPool.BPDDebt - Sum(q, closed), lastError.BPDDebt, dLeft) /\ Sum(q, closed) \in Int
    BY <1>3, <1>5, <1>7, <1>8, <1>10, <1>19, ClaimsSettled DEF Reward
  <2>2. defaultPool.BPDDebt - Sum(q, closed) \in Int /\ lastError.BPDDebt \in Nat
    BY <1>5, <2>1 DEF Reward
  <2>3. IF t.debtRedist = 0 THEN l = 0 /\ lastError'.BPDDebt = lastError.BPDDebt
        ELSE /\ stakes > 0 /\ l = RewardPerUnit(t.debtRedist, lastError.BPDDebt, stakes)
             /\ lastError'.BPDDebt = RewardError(t.debtRedist, lastError.BPDDebt, stakes)
    BY <1>11 DEF l
  <2>4. /\ t.debtRedist \in Nat /\ t.debtRedist \in Nat /\ stakes \in Nat
        /\ \A u \in Users : dLeft[u] \in Int /\ s[u] \in Nat /\ d1[u] = dLeft[u] + l * s[u]
    BY <1>1, <1>5, <1>9, <1>13, <1>14
  <2>5. Covers(defaultPool.BPDDebt - Sum(q, closed) + t.debtRedist, lastError'.BPDDebt, d1)
    <3> DEFINE left == defaultPool.BPDDebt - Sum(q, closed)
               error == lastError.BPDDebt
               errorAfter == lastError'.BPDDebt
               amount == t.debtRedist
               debt == t.debtRedist
    <3>1. left \in Int /\ Covers(left, error, dLeft)
      BY <2>1, <2>2
    <3>2. IsRedistributed(debt, amount, stakes, error, l, errorAfter, dLeft, s, d1)
      BY <1>5, <1>12, <1>15, <2>2, <2>3, <2>4 DEF IsRedistributed
    <3> HIDE DEF left, error, errorAfter, amount, debt
    <3>3. Covers(left + amount, errorAfter, d1)
      BY ONLY <3>1, <3>2, ClaimsAfterRedistribution
    <3> QED BY <3>3 DEF left, errorAfter, amount
  <2> QED BY <1>1, <1>2, <1>17, <2>5
<1>20. ASSUME ~debtUnseen' PROVE SnapshotsAgree'
  <2> SUFFICES ASSUME NEW u \in Active', u \in Users, snapshots'[u].RBTC = B'.RBTC
               PROVE  snapshots'[u].BPDDebt = B'.BPDDebt
    BY DEF SnapshotsAgree, Active
  <2>1. u \in Active /\ snapshots'[u] = snapshots[u]
    BY <1>1, <1>4
  <2>2. snapshots[u].RBTC <= B.RBTC /\ snapshots[u].RBTC \in Nat /\ B.RBTC \in Nat
    BY <1>5, <2>1 DEF IInv, SnapshotsBehind, Reward
  <2>3. B'.RBTC = B.RBTC
    BY <1>11, <1>12, <2>1, <2>2
  <2>4. B'.BPDDebt = B.BPDDebt
    BY <1>11, <1>20, <2>3
  <2> QED BY <1>7, <1>11, <1>20, <2>1, <2>3, <2>4 DEF SnapshotsAgree, RewardsInv
<1> QED BY <1>11, <1>18, <1>19, <1>20 DEF RewardsInv

\* liquidate, liquidateVaults and batchLiquidateVaults end in the same settlement.
LEMMA LiquidationClaims ==
  ASSUME IInv, IInv', AccountsInv', RewardsInv, NEW u \in Users, Liquidation(u)
  PROVE  RewardsInv'
<1>1. \E t : SettleLiquidation(u, t)
  BY DEF Liquidation, Liquidate, BatchLiquidateVaults, LiquidateVaults
<1> QED BY <1>1, SettleLiquidationClaims

----------------------------------------------------------------------------
\* The inductive argument.

\* What leaves the vaults, their rewards and the Default Pool alone.
LEMMA OtherStepsClaims ==
  ASSUME RewardsInv, UNCHANGED <<vaults, snapshots, B, lastError, debtUnseen, defaultPool>>
  PROVE  RewardsInv'
BY DEF RewardsInv, RBTCIsCovered, DebtIsCovered, SnapshotsAgree, Covers, RBTCClaim, DebtClaim, Active, Sum

\* redeemCollateral, with any hint and any bound on the iterations.
LEMMA RedemptionClaims ==
  ASSUME IInv, IInv', AccountsInv, RewardsInv, NEW u \in Users, Redemption(u)
  PROVE  RewardsInv'
<1>1. PICK a \in Amounts, n \in 1..Cardinality(Users), hint \in {{}} \cup {{v} : v \in Users},
           hintFresh \in BOOLEAN, rate \in RedemptionRates :
        RedeemCollateral(u, a, n, hint, hintFresh, rate)
  BY DEF Redemption
<1>2. RedemptionIsExact(RedemptionTally(a, n, hint, hintFresh))
  <2>1. a \in Nat /\ n \in Nat
    BY ParametersAssumption
  <2> QED BY <2>1, RedemptionTallyIsExact
<1>3. SettleRedemption(u, RedemptionTally(a, n, hint, hintFresh))
  BY <1>1 DEF RedeemCollateral
<1> QED BY <1>2, <1>3, SettleRedemptionClaims

\* The calls of BorrowerOperations.
LEMMA BorrowerOperationClaims ==
  ASSUME IInv, IInv', RewardsInv, NEW u \in Users, BorrowerOperation(u)
  PROVE  RewardsInv'
<1>1. ASSUME NEW c, NEW a, NEW r, OpenVault(u, c, a, r)
      PROVE  RewardsInv'
  BY <1>1, OpenVaultClaims
<1>2. ASSUME NEW collIn, NEW collOut, NEW borrow, NEW repay, NEW r,
             Adjust(u, collIn, collOut, borrow, repay, r)
      PROVE  RewardsInv'
  BY <1>2, AdjustClaims
<1> QED
  BY <1>1, <1>2, CloseVaultClaims
     DEF BorrowerOperation, AddColl, WithdrawColl, WithdrawBPD, RepayBPD, AdjustVault

\* The calls of StabilityPool.
LEMMA StabilityPoolOperationClaims ==
  ASSUME IInv, IInv', RewardsInv, NEW u \in Users, StabilityPoolOperation(u)
  PROVE  RewardsInv'
<1>1. ASSUME NEW a, NEW g, ProvideToSP(u, a, g) \/ WithdrawFromSP(u, a, g)
      PROVE  RewardsInv'
  BY <1>1, OtherStepsClaims DEF ProvideToSP, WithdrawFromSP, vmVars
<1>2. ASSUME NEW g, MoveRBTCGainToVault(u, g)
      PROVE  RewardsInv'
  BY <1>2, AdjustClaims DEF MoveRBTCGainToVault
<1> QED BY <1>1, <1>2 DEF StabilityPoolOperation

\* No claim and no pool at deployment.
LEMMA InitRewards == Init => RewardsInv
<1> SUFFICES ASSUME Init PROVE RewardsInv
  OBVIOUS
<1> DEFINE c == [u \in Users |-> RBTCClaim(u)]
           d == [u \in Users |-> DebtClaim(u)]
<1>1. Active = {} /\ IsFiniteSet(Users)
  BY AccountsAssumption DEF Init, Active
<1>2. \A u \in Users : c[u] = 0 /\ d[u] = 0
  BY <1>1 DEF RBTCClaim, DebtClaim
<1>3. RBTCIsCovered <=> Covers(defaultPool.RBTC, lastError.RBTC, c)
  BY DEF RBTCIsCovered
<1>4. DebtIsCovered <=> Covers(defaultPool.BPDDebt, lastError.BPDDebt, d)
  BY DEF DebtIsCovered
<1> HIDE DEF c, d
<1>5. Sum(c, Users) = 0 /\ Sum(d, Users) = 0
  BY <1>1, <1>2, SumZero DEF Sum
<1>6. /\ defaultPool.RBTC = 0 /\ defaultPool.BPDDebt = 0
      /\ lastError.RBTC = 0 /\ lastError.BPDDebt = 0
  BY DEF Init, NoReward
<1>7. RBTCIsCovered /\ DebtIsCovered
  BY <1>3, <1>4, <1>5, <1>6, ParametersAssumption DEF Covers
<1> QED BY <1>1, <1>7 DEF RewardsInv, SnapshotsAgree

\* Every transaction keeps the claims within the pool.
LEMMA NextRewards ==
  IInv /\ IInv' /\ AccountsInv /\ AccountsInv' /\ RewardsInv /\ [Next]_vars => RewardsInv'
<1> SUFFICES ASSUME IInv, IInv', AccountsInv, AccountsInv', RewardsInv, [Next]_vars PROVE RewardsInv'
  OBVIOUS
<1>1. ASSUME NEW u \in Users,
             BorrowerOperation(u) \/ Liquidation(u) \/ Redemption(u) \/ StabilityPoolOperation(u)
      PROVE  RewardsInv'
  BY <1>1, BorrowerOperationClaims, LiquidationClaims, RedemptionClaims, StabilityPoolOperationClaims
<1>2. ASSUME NEW u \in Users,
             ClaimCollateral(u) \/ PayOutFees(u) \/ \E v \in Users : Transfer(u, v, bpd[u])
      PROVE  RewardsInv'
  BY <1>2, OtherStepsClaims DEF ClaimCollateral, PayOutFees, Transfer, vmVars, poolVars
<1>3. ASSUME NEW p \in Prices, PriceMoves(p)
      PROVE  RewardsInv'
  BY <1>3, OtherStepsClaims DEF PriceMoves, vmVars, poolVars
<1>4. CASE UNCHANGED vars
  BY <1>4, OtherStepsClaims DEF vars, vmVars, poolVars
<1> QED
  BY <1>1, <1>2, <1>3, <1>4 DEF Next

\* The claims on the rewards of redistributions stay within the Default Pool.
THEOREM SpecRewards == Spec => []RewardsInv
<1>1. Init => RewardsInv
  BY InitRewards
<1>2. IInv /\ IInv' /\ AccountsInv /\ AccountsInv' /\ RewardsInv /\ [Next]_vars => RewardsInv'
  BY NextRewards
<1> QED
  BY <1>1, <1>2, SpecInv, SpecAccounts, PTL DEF Spec

\* Payments p, each within a claim of c, are within a pool that covers c.
LEMMA PaymentsAreCovered ==
  ASSUME NEW c, NEW p, NEW pool \in Int, NEW error \in Nat, Covers(pool, error, c),
         \A u \in Users : p[u] \in Int /\ c[u] \in Int /\ DECIMAL_PRECISION * p[u] <= c[u]
  PROVE  Sum(p, Users) <= pool
<1> DEFINE worth == [u \in Users |-> DECIMAL_PRECISION * p[u]]
<1>1. IsFiniteSet(Users) /\ DECIMAL_PRECISION \in Nat \ {0}
  BY AccountsAssumption, ParametersAssumption
<1>2. \A u \in Users : worth[u] = DECIMAL_PRECISION * p[u] /\ worth[u] \in Int /\ worth[u] <= c[u]
  BY <1>1
<1> HIDE DEF worth
<1>3. Sum(worth, Users) = DECIMAL_PRECISION * Sum(p, Users)
  BY <1>1, <1>2, SumTimes DEF Sum
<1>4. Sum(worth, Users) <= Sum(c, Users) /\ Sum(c, Users) \in Int /\ Sum(p, Users) \in Int
  BY <1>1, <1>2, SumMonotone, SumInt DEF Sum
<1>5. DECIMAL_PRECISION * Sum(p, Users) <= DECIMAL_PRECISION * pool
  BY <1>1, <1>3, <1>4 DEF Covers
<1>6. ASSUME NEW k \in Nat \ {0}, NEW a \in Int, NEW b \in Int, k * a <= k * b
      PROVE  a <= b
  BY <1>6
<1> QED BY <1>1, <1>4, <1>5, <1>6

\* The Default Pool can pay every vault what _redistributeDebtAndColl assigned to it, so
\* applyPendingRewards never takes more than it holds: the RBTC always, the debt as long
\* as hasPendingRewards can see every redistribution (VaultManager.sol).
THEOREM DefaultPoolAlwaysCoversPending == Spec => []DefaultPoolCoversPending
<1>1. IInv /\ RewardsInv => DefaultPoolCoversPending
  <2> SUFFICES ASSUME IInv, RewardsInv PROVE DefaultPoolCoversPending
    OBVIOUS
  <2> DEFINE c == [u \in Users |-> RBTCClaim(u)]
             d == [u \in Users |-> DebtClaim(u)]
             p == [u \in Users |-> PendingRBTC(u)]
             q == [u \in Users |-> PendingDebt(u)]
  <2>1. \A u \in Users : /\ c[u] \in Int /\ d[u] \in Int /\ p[u] \in Int /\ q[u] \in Int
                         /\ DECIMAL_PRECISION * p[u] <= c[u] /\ DECIMAL_PRECISION * q[u] <= d[u]
    BY ClaimsArePaid, PendingNat DEF IInv
  <2>2. /\ defaultPool.RBTC \in Int /\ defaultPool.BPDDebt \in Int
        /\ lastError.RBTC \in Nat /\ lastError.BPDDebt \in Nat
    BY DEF IInv, TypeOK, Reward
  <2>3. /\ Covers(defaultPool.RBTC, lastError.RBTC, c)
        /\ ~debtUnseen => Covers(defaultPool.BPDDebt, lastError.BPDDebt, d)
    BY DEF RewardsInv, RBTCIsCovered, DebtIsCovered
  <2>4. PendingOf(Users).RBTC = Sum(p, Users) /\ PendingOf(Users).BPDDebt = Sum(q, Users)
    BY DEF PendingOf
  <2> HIDE DEF c, d, p, q
  <2>5. Sum(p, Users) <= defaultPool.RBTC
    BY <2>1, <2>2, <2>3, PaymentsAreCovered
  <2>6. ~debtUnseen => Sum(q, Users) <= defaultPool.BPDDebt
    BY <2>1, <2>2, <2>3, PaymentsAreCovered
  <2> QED BY <2>4, <2>5, <2>6 DEF DefaultPoolCoversPending
<1> QED
  BY <1>1, SpecInv, SpecRewards, PTL

----------------------------------------------------------------------------
\* Ratios.

\* A rounded quotient is at least k when the exact one is.
LEMMA QuotientAtLeast ==
  ASSUME NEW a \in Nat, NEW b \in Nat \ {0}, NEW k \in Int
  PROVE  a \div b >= k <=> a >= k * b
<1> DEFINE q == a \div b
<1>1. q \in Nat /\ q * b <= a /\ a < (q + 1) * b
  OBVIOUS
<1> HIDE DEF q
<1>2. CASE q >= k
  <2>1. q * b >= k * b
    BY <1>1, <1>2
  <2>2. k * b \in Int /\ q * b \in Int
    BY <1>1
  <2> QED BY <1>1, <1>2, <2>1, <2>2 DEF q
<1>3. CASE q < k
  <2>1. q + 1 <= k
    BY <1>1, <1>3
  <2>2. (q + 1) * b <= k * b
    BY <1>1, <2>1
  <2>3. k * b \in Int /\ (q + 1) * b \in Int
    BY <1>1
  <2> QED BY <1>1, <1>3, <2>2, <2>3 DEF q
<1> QED BY <1>1, <1>2, <1>3

\* The collateral is worth k times the debt at price p.
Worth(coll, debt, p, k) == coll * p >= k * debt

\* A ratio is at least k when the collateral is worth k times the debt.
LEMMA RatioAtLeast ==
  ASSUME NEW coll \in Nat, NEW debt \in Nat \ {0}, NEW p \in Nat, NEW k \in Int
  PROVE  CR(coll, debt, p) \in Nat /\ (CR(coll, debt, p) >= k <=> Worth(coll, debt, p, k))
<1>1. coll * p \in Nat
  BY ProductNat
<1> DEFINE a == coll * p
<1> HIDE DEF a
<1>2. a \in Nat => (a \div debt \in Nat /\ (a \div debt >= k <=> a >= k * debt))
  BY QuotientAtLeast, DivisionNat
<1> QED BY <1>1, <1>2 DEF a, CR, Worth

\* The ratios of a vault and of the system are natural.
LEMMA RatioNat ==
  ASSUME NEW coll \in Nat, NEW debt \in Nat, NEW p \in Nat
  PROVE  CR(coll, debt, p) \in Nat
<1>1. CASE debt = 0
  BY <1>1, ParametersAssumption DEF CR
<1>2. CASE debt # 0
  BY <1>2, RatioAtLeast
<1> QED BY <1>1, <1>2

\* Totals and price are natural.
LEMMA TotalsNat ==
  ASSUME TypeOK
  PROVE  /\ EntireSystemColl \in Nat /\ EntireSystemDebt \in Nat /\ price \in Nat \ {0}
         /\ TCR \in Nat
<1>1. EntireSystemColl \in Nat /\ EntireSystemDebt \in Nat
  BY DEF TypeOK, Reward, EntireSystemColl, EntireSystemDebt
<1>2. price \in Nat \ {0}
  BY ParametersAssumption DEF TypeOK
<1> QED BY <1>1, <1>2, RatioNat DEF TCR

----------------------------------------------------------------------------
(* Borrowers and the mode of the system. *)

\* What an adjustment borrows with its fee, of which there is none in Recovery Mode.
Borrowed(borrow, rate) ==
  borrow + (IF borrow > 0 /\ ~RecoveryMode THEN Fee(rate, borrow) ELSE 0)

\* An adjustment moves the totals by what goes in and out: pending rewards only change
\* pools.
LEMMA AdjustTotals ==
  ASSUME IInv, NEW u \in Users, NEW collIn \in Nat, NEW collOut \in Nat, NEW borrow \in Nat,
         NEW repay \in Nat, NEW rate \in Nat, Adjust(u, collIn, collOut, borrow, repay, rate)
  PROVE  /\ Borrowed(borrow, rate) \in Nat
         /\ EntireSystemColl' = EntireSystemColl + collIn - collOut
         /\ EntireSystemDebt' = EntireSystemDebt + Borrowed(borrow, rate) - repay
         /\ price' = price
<1> DEFINE fee == IF borrow > 0 /\ ~RecoveryMode THEN Fee(rate, borrow) ELSE 0
<1>1. AppliedRBTC(u) \in Nat /\ AppliedDebt(u) \in Nat
  BY PendingNat DEF IInv
<1>2. fee \in Nat
  BY FeeNat
<1>3. activePool \in Reward /\ defaultPool \in Reward
  BY DEF IInv, TypeOK
<1>4. /\ activePool'.RBTC = activePool.RBTC + AppliedRBTC(u) + collIn - collOut
      /\ activePool'.BPDDebt = activePool.BPDDebt + AppliedDebt(u) + borrow + fee - repay
      /\ defaultPool'.RBTC = defaultPool.RBTC - AppliedRBTC(u)
      /\ defaultPool'.BPDDebt = defaultPool.BPDDebt - AppliedDebt(u)
      /\ price' = price
  BY DEF Adjust
<1>5. Borrowed(borrow, rate) = borrow + fee
  BY DEF Borrowed
<1> HIDE DEF fee
<1> QED BY <1>1, <1>2, <1>3, <1>4, <1>5 DEF Reward, EntireSystemColl, EntireSystemDebt

\* An adjustment outside Recovery Mode leaves the system outside it.
LEMMA AdjustKeepsNormalMode ==
  ASSUME IInv, ~RecoveryMode,
         NEW u \in Users, NEW collIn \in Nat, NEW collOut \in Nat, NEW borrow \in Nat,
         NEW repay \in Nat, NEW rate \in Nat, Adjust(u, collIn, collOut, borrow, repay, rate)
  PROVE  TCR' >= CCR
<1>1. TCRAfter(collIn, collOut, Borrowed(borrow, rate), repay) >= CCR
  BY DEF Adjust, ValidAdjustment, Borrowed
<1>2. TCR' = TCRAfter(collIn, collOut, Borrowed(borrow, rate), repay)
  BY AdjustTotals DEF TCR, TCRAfter, CR
<1> QED BY <1>1, <1>2

\* The adjustments of a borrower, by whichever entry point.
LEMMA BorrowerOperationCases ==
  ASSUME NEW u \in Users, BorrowerOperation(u)
  PROVE  \/ \E c \in Colls, a \in Amounts, r \in BorrowingRates : OpenVault(u, c, a, r)
         \/ \E collIn, collOut, borrow, repay, rate \in Nat :
              Adjust(u, collIn, collOut, borrow, repay, rate)
         \/ CloseVault(u)
<1>1. Colls \subseteq Nat /\ Amounts \subseteq Nat /\ BorrowingRates \subseteq Nat /\ 0 \in Nat
  BY ParametersAssumption
<1>2. ASSUME NEW c \in Colls, AddColl(u, c) \/ WithdrawColl(u, c)
      PROVE  \E collIn, collOut, borrow, repay, rate \in Nat :
               Adjust(u, collIn, collOut, borrow, repay, rate)
  BY <1>1, <1>2 DEF AddColl, WithdrawColl
<1>3. ASSUME NEW a \in Amounts, NEW r \in BorrowingRates, WithdrawBPD(u, a, r)
      PROVE  \E collIn, collOut, borrow, repay, rate \in Nat :
               Adjust(u, collIn, collOut, borrow, repay, rate)
  BY <1>1, <1>3 DEF WithdrawBPD
<1>4. ASSUME NEW a \in Amounts, RepayBPD(u, a)
      PROVE  \E collIn, collOut, borrow, repay, rate \in Nat :
               Adjust(u, collIn, collOut, borrow, repay, rate)
  BY <1>1, <1>4 DEF RepayBPD
<1>5. ASSUME NEW c \in Colls, NEW a \in Amounts, NEW r \in BorrowingRates,
             \/ AdjustVault(u, c, 0, a, 0, r) \/ AdjustVault(u, c, 0, 0, a, r)
             \/ AdjustVault(u, 0, c, a, 0, r) \/ AdjustVault(u, 0, c, 0, a, r)
      PROVE  \E collIn, collOut, borrow, repay, rate \in Nat :
               Adjust(u, collIn, collOut, borrow, repay, rate)
  BY <1>1, <1>5 DEF AdjustVault
<1> QED BY <1>2, <1>3, <1>4, <1>5 DEF BorrowerOperation

\* A borrower's transaction outside Recovery Mode leaves the system outside it.
LEMMA BorrowerKeepsNormalMode ==
  ASSUME IInv, ~RecoveryMode, NEW u \in Users, BorrowerOperation(u), price' = price
  PROVE  ~RecoveryMode'
<1>1. ASSUME NEW c \in Colls, NEW a \in Amounts, NEW r \in BorrowingRates, OpenVault(u, c, a, r)
      PROVE  TCR' >= CCR
  <2> DEFINE debt == CompositeDebt(a + Fee(r, a))
  <2>1. TCRAfter(c, 0, debt, 0) >= CCR
    BY <1>1 DEF OpenVault
  <2>2. debt \in Int /\ c \in Int
    <3>1. a \in Nat /\ r \in Nat /\ c \in Nat
      BY ParametersAssumption
    <3> QED BY <3>1, FeeNat, ParametersAssumption DEF CompositeDebt
  <2>3. /\ activePool' = [RBTC |-> activePool.RBTC + c, BPDDebt |-> activePool.BPDDebt + debt]
        /\ defaultPool' = defaultPool
    BY <1>1 DEF OpenVault
  <2> HIDE DEF debt
  <2>4. activePool \in Reward /\ defaultPool \in Reward
    BY DEF IInv, TypeOK
  <2>5. /\ EntireSystemColl' = EntireSystemColl + c - 0
        /\ EntireSystemDebt' = EntireSystemDebt + debt - 0
    BY <2>2, <2>3, <2>4 DEF Reward, EntireSystemColl, EntireSystemDebt
  <2>6. TCR' = TCRAfter(c, 0, debt, 0)
    BY <2>5 DEF TCR, TCRAfter, CR
  <2> QED BY <2>1, <2>6
<1>2. ASSUME NEW collIn \in Nat, NEW collOut \in Nat, NEW borrow \in Nat, NEW repay \in Nat,
             NEW rate \in Nat, Adjust(u, collIn, collOut, borrow, repay, rate)
      PROVE  TCR' >= CCR
  BY <1>2, AdjustKeepsNormalMode
<1>3. ASSUME CloseVault(u)
      PROVE  TCR' >= CCR
  <2> DEFINE coll == vaults[u].coll + AppliedRBTC(u)
             debt == vaults[u].debt + AppliedDebt(u)
  <2>1. TCRAfter(0, coll, 0, debt) >= CCR
    BY <1>3 DEF CloseVault
  <2>2. /\ activePool' = [RBTC    |-> activePool.RBTC + AppliedRBTC(u) - coll,
                          BPDDebt |-> activePool.BPDDebt + AppliedDebt(u) - debt]
        /\ defaultPool' = [RBTC    |-> defaultPool.RBTC - AppliedRBTC(u),
                           BPDDebt |-> defaultPool.BPDDebt - AppliedDebt(u)]
    BY <1>3 DEF CloseVault
  <2>3. AppliedRBTC(u) \in Nat /\ AppliedDebt(u) \in Nat /\ coll \in Nat /\ debt \in Nat
    BY PendingNat DEF IInv, TypeOK, Vault
  <2> HIDE DEF coll, debt
  <2>4. activePool \in Reward /\ defaultPool \in Reward
    BY DEF IInv, TypeOK
  <2>5. /\ EntireSystemColl' = EntireSystemColl + 0 - coll
        /\ EntireSystemDebt' = EntireSystemDebt + 0 - debt
    BY <2>2, <2>3, <2>4 DEF Reward, EntireSystemColl, EntireSystemDebt
  <2>6. TCR' = TCRAfter(0, coll, 0, debt)
    BY <2>5 DEF TCR, TCRAfter, CR
  <2> QED BY <2>1, <2>6
<1>4. TCR' >= CCR
  BY <1>1, <1>2, <1>3, BorrowerOperationCases
<1>5. TypeOK'
  BY BorrowerOperationInv DEF IInv
<1>6. EntireSystemColl' \in Nat /\ EntireSystemDebt' \in Nat /\ price' \in Nat /\ price' \in Nat
  BY <1>5, ParametersAssumption DEF TypeOK, Reward, EntireSystemColl, EntireSystemDebt
<1>7. TCR' \in Nat
  BY <1>6, RatioNat DEF TCR
<1> QED BY <1>4, <1>7, ParametersAssumption DEF RecoveryMode

----------------------------------------------------------------------------
(* Borrowers in Recovery Mode. *)

\* Collateral that is worth k times the debt it comes with keeps a system worth k times
\* its debt at that.
LEMMA AddedAtRatio ==
  ASSUME NEW C \in Nat, NEW D \in Nat, NEW c \in Nat, NEW d \in Nat, NEW p \in Nat, NEW k \in Int,
         Worth(C, D, p, k), Worth(c, d, p, k)
  PROVE  Worth(C + c, D + d, p, k)
<1>1. (C + c) * p = C * p + c * p /\ k * (D + d) = k * D + k * d
  OBVIOUS
<1>2. C * p \in Int /\ c * p \in Int /\ k * D \in Int /\ k * d \in Int
  OBVIOUS
<1> QED BY <1>1, <1>2 DEF Worth

\* A borrowing that keeps the rounded ratio of its vault, at least that of the system,
\* lowers the system's by less than one unit: d is the vault's debt, at ratio n or
\* below before rounding up, and b what is borrowed.
LEMMA BorrowedAtRatio ==
  ASSUME NEW C \in Nat, NEW D \in Nat, NEW c \in Nat, NEW d \in Nat, NEW in \in Nat, NEW b \in Nat,
         NEW p \in Nat, NEW k \in Nat, NEW n \in Nat,
         Worth(C, D, p, k), d <= D, k <= n,
         Worth(c + in, d + b, p, n), ~Worth(c, d, p, n + 1)
  PROVE  Worth(C + in, D + b, p, k - 1)
<1>1. /\ (c + in) * p = c * p + in * p /\ n * (d + b) = n * d + n * b
      /\ (n + 1) * d = n * d + d
      /\ (C + in) * p = C * p + in * p
      /\ (k - 1) * (D + b) = k * D + k * b - D - b
  OBVIOUS
<1>2. /\ c * p \in Int /\ in * p \in Int /\ n * d \in Int /\ n * b \in Int /\ C * p \in Int
      /\ k * D \in Int /\ k * b \in Int
  OBVIOUS
<1>3. k * b <= n * b
  OBVIOUS
<1> DEFINE cp == c * p
           ip == in * p
           nd == n * d
           nb == n * b
           Cp == C * p
           kD == k * D
           kb == k * b
<1>4. /\ cp \in Int /\ ip \in Int /\ nd \in Int /\ nb \in Int /\ Cp \in Int /\ kD \in Int /\ kb \in Int
      /\ Cp >= kD /\ cp + ip >= nd + nb /\ cp < nd + d /\ kb <= nb
  BY <1>1, <1>2, <1>3 DEF Worth
<1> HIDE DEF cp, ip, nd, nb, Cp, kD, kb
<1>5. Cp + ip >= kD + kb - D - b
  BY <1>4
<1> QED BY <1>1, <1>5 DEF Cp, ip, kD, kb, Worth

\* The debt of an active vault with its pending rewards is part of the system's.
LEMMA DebtOfVault ==
  ASSUME IInv, AccountsInv, NEW u \in Active, AppliedDebt(u) <= defaultPool.BPDDebt
  PROVE  /\ vaults[u].debt + AppliedDebt(u) <= EntireSystemDebt
         /\ vaults[u].debt + AppliedDebt(u) \in Nat \ {0}
         /\ vaults[u].coll + AppliedRBTC(u) \in Nat
<1> DEFINE f == [v \in Users |-> vaults[v].debt]
<1>1. u \in Users /\ f[u] = vaults[u].debt
  BY DEF Active
<1>2. \A v \in Users : f[v] \in Nat
  BY DEF IInv, TypeOK, Vault
<1>3. activePool.BPDDebt = SumFunctionOnSet(f, Users)
  BY DEF AccountsInv, ActivePoolIsVaults, Sum
<1> HIDE DEF f
<1>4. f[u] <= activePool.BPDDebt
  BY <1>1, <1>2, <1>3, SumBoundsEach, AccountsAssumption
<1>5. AppliedDebt(u) \in Nat /\ AppliedRBTC(u) \in Nat
  BY <1>1, PendingNat DEF IInv
<1>6. vaults[u].debt \in Nat /\ vaults[u].coll \in Nat /\ vaults[u].debt # 0
  BY <1>1, <1>2, ParametersAssumption DEF f, AccountsInv, DebtAboveMin, NetDebt, IInv, TypeOK, Vault
<1>7. activePool.BPDDebt \in Nat /\ defaultPool.BPDDebt \in Nat
  BY DEF IInv, TypeOK, Reward
<1>8. vaults[u].debt <= activePool.BPDDebt
  BY <1>1, <1>4
<1> QED BY ONLY <1>5, <1>6, <1>7, <1>8, AppliedDebt(u) <= defaultPool.BPDDebt DEF EntireSystemDebt

\* openVault in Recovery Mode brings more collateral for its debt than the system has.
LEMMA OpenVaultKeepsTCR ==
  ASSUME IInv, RecoveryMode, NEW u \in Users, NEW c \in Colls, NEW a \in Amounts, NEW r \in BorrowingRates,
         OpenVault(u, c, a, r)
  PROVE  TCR' >= TCR
<1> DEFINE debt == CompositeDebt(a + 0)
           C == EntireSystemColl
           D == EntireSystemDebt
           k == TCR
<1>1. CR(c, debt, price) >= CCR /\ price' = price
  BY DEF OpenVault
<1>2. c \in Nat /\ a \in Nat /\ a # 0 /\ CCR \in Nat
  BY ParametersAssumption
<1>3. debt \in Nat \ {0}
  BY <1>2, ParametersAssumption DEF CompositeDebt
<1>4. /\ activePool' = [RBTC |-> activePool.RBTC + c, BPDDebt |-> activePool.BPDDebt + debt]
      /\ defaultPool' = defaultPool
  BY DEF OpenVault
<1>5. activePool \in Reward /\ defaultPool \in Reward
  BY DEF IInv, TypeOK
<1> HIDE DEF debt
<1>6. EntireSystemColl' = C + c /\ EntireSystemDebt' = D + debt
  BY <1>2, <1>3, <1>4, <1>5 DEF Reward, EntireSystemColl, EntireSystemDebt
<1>7. C \in Nat /\ D \in Nat /\ price \in Nat \ {0} /\ k \in Nat
  BY TotalsNat DEF IInv
<1>8. k < CCR
  BY DEF RecoveryMode
<1>9. TCR' = CR(C + c, D + debt, price)
  BY <1>1, <1>6 DEF TCR
<1>10. k = CR(C, D, price)
  BY DEF TCR
<1> HIDE DEF C, D, k
<1>11. Worth(c, debt, price, k)
  <2>1. CR(c, debt, price) \in Nat
    BY <1>2, <1>3, <1>7, RatioAtLeast
  <2>2. CR(c, debt, price) >= k
    BY <1>1, <1>2, <1>7, <1>8, <2>1
  <2> QED BY <1>2, <1>3, <1>7, <2>2, RatioAtLeast
<1>12. Worth(C + c, D + debt, price, k)
  <2>1. CASE D = 0
    <3>1. (C + c) * price >= c * price
      BY <1>2, <1>7
    <3>2. D + debt = debt /\ (C + c) * price \in Int /\ c * price \in Int /\ k * debt \in Int
      BY <1>2, <1>3, <1>7, <2>1
    <3> QED BY <1>11, <3>1, <3>2 DEF Worth
  <2>2. CASE D # 0
    <3>1. Worth(C, D, price, k)
      BY <1>7, <1>10, <2>2, RatioAtLeast
    <3> QED BY <1>2, <1>3, <1>7, <1>11, <3>1, AddedAtRatio
  <2> QED BY <2>1, <2>2
<1>13. D + debt \in Nat \ {0} /\ C + c \in Nat
  BY <1>2, <1>3, <1>7
<1>14. CR(C + c, D + debt, price) >= k
  <2>1. k \in Int /\ price \in Nat
    BY <1>7
  <2> QED BY ONLY <1>12, <1>13, <2>1, RatioAtLeast
<1> QED BY <1>9, <1>14 DEF k

\* An adjustment in Recovery Mode takes no collateral, and borrows only at a ratio that
\* is not below the vault's and the system's.
LEMMA AdjustKeepsTCR ==
  ASSUME IInv, AccountsInv, RecoveryMode,
         NEW u \in Users, NEW collIn \in Nat, NEW collOut \in Nat, NEW borrow \in Nat,
         NEW repay \in Nat, NEW rate \in Nat, Adjust(u, collIn, collOut, borrow, repay, rate)
  PROVE  TCR' >= TCR - 1
<1> DEFINE C == EntireSystemColl
           D == EntireSystemDebt
           k == TCR
           c == vaults[u].coll + AppliedRBTC(u)
           d == vaults[u].debt + AppliedDebt(u)
<1>1. /\ u \in Active /\ (borrow = 0 \/ repay = 0) /\ collOut = 0
      /\ AppliedDebt(u) <= defaultPool.BPDDebt
  BY DEF Adjust, ValidAdjustment
<1>2. c \in Nat /\ d \in Nat \ {0} /\ d <= D
  BY <1>1, DebtOfVault
<1>3. C \in Nat /\ D \in Nat /\ price \in Nat \ {0} /\ k \in Nat
  BY TotalsNat DEF IInv
<1>4. /\ borrow > 0 => /\ CR(c + collIn, d + borrow, price) >= CCR
                       /\ CR(c + collIn, d + borrow, price) >= CR(c, d, price)
      /\ repay > 0 => NetDebt(d) - repay >= MIN_NET_DEBT
  <2>1. borrow > 0 => /\ CR(c + collIn - collOut, d + borrow + 0 - repay, price) >= CCR
                      /\ CR(c + collIn - collOut, d + borrow + 0 - repay, price) >= CR(c, d, price)
    BY DEF Adjust, ValidAdjustment
  <2>2. repay > 0 => NetDebt(d) - repay >= MIN_NET_DEBT
    BY DEF Adjust
  <2>3. borrow > 0 => c + collIn - collOut = c + collIn /\ d + borrow + 0 - repay = d + borrow
    <3> HIDE DEF c, d
    <3> QED BY <1>1, <1>2
  <2> QED BY <2>1, <2>2, <2>3
<1>5. EntireSystemColl' = C + collIn /\ EntireSystemDebt' = D + borrow - repay /\ price' = price
  <2>1. Borrowed(borrow, rate) = borrow
    BY DEF Borrowed
  <2>2. /\ EntireSystemColl' = C + collIn - collOut
        /\ EntireSystemDebt' = D + Borrowed(borrow, rate) - repay
        /\ price' = price
    BY AdjustTotals
  <2> HIDE DEF C, D
  <2> QED BY <1>1, <1>3, <2>1, <2>2
<1>6. k < CCR /\ k = CR(C, D, price)
  BY DEF RecoveryMode, TCR
<1>7. TCR' = CR(C + collIn, D + borrow - repay, price)
  BY <1>5 DEF TCR
<1> HIDE DEF C, D, k, c, d
<1>8. Worth(C, D, price, k)
  <2>1. D \in Nat \ {0}
    BY <1>2, <1>3
  <2>2. C \in Nat /\ price \in Nat /\ k \in Int
    BY <1>3
  <2>3. CR(C, D, price) >= k
    BY <1>6, <2>2
  <2> QED BY ONLY <2>1, <2>2, <2>3, RatioAtLeast
<1>9. CASE borrow > 0
  <2> DEFINE n == CR(c + collIn, d + borrow, price)
  <2>1. c + collIn \in Nat /\ d + borrow \in Nat \ {0} /\ D + borrow \in Nat \ {0} /\ C + collIn \in Nat
    BY <1>2, <1>3, <1>9
  <2>2. n \in Nat /\ Worth(c + collIn, d + borrow, price, n)
    <3>1. n \in Nat
      BY <1>3, <2>1, RatioNat
    <3>2. n \in Int /\ n >= n /\ price \in Nat
      BY <1>3, <3>1
    <3>3. CR(c + collIn, d + borrow, price) >= n
      BY <3>2 DEF n
    <3> HIDE DEF n
    <3> QED BY ONLY <2>1, <3>1, <3>2, <3>3, RatioAtLeast
  <2>3. n >= CCR /\ n >= CR(c, d, price)
    BY <1>4, <1>9
  <2> HIDE DEF n
  <2>4. k <= n
    BY <1>3, <1>6, <2>2, <2>3, ParametersAssumption
  <2>5. ~Worth(c, d, price, n + 1)
    <3>1. CR(c, d, price) \in Nat /\ ~(CR(c, d, price) >= n + 1)
      BY <1>2, <1>3, <2>2, <2>3, RatioAtLeast
    <3> QED BY <1>2, <1>3, <2>2, <3>1, RatioAtLeast
  <2>6. Worth(C + collIn, D + borrow, price, k - 1)
    BY <1>2, <1>3, <1>8, <2>2, <2>4, <2>5, BorrowedAtRatio
  <2>7. CR(C + collIn, D + borrow, price) >= k - 1
    BY <1>3, <2>1, <2>6, RatioAtLeast
  <2>8. D + borrow - repay = D + borrow
    BY <1>1, <1>3, <1>9
  <2> QED BY <1>7, <2>7, <2>8 DEF k
<1>10. CASE borrow = 0
  <2>1. D - repay \in Nat \ {0}
    <3>1. CASE repay = 0
      BY <1>2, <1>3, <3>1
    <3>2. CASE repay > 0
      BY <1>2, <1>3, <1>4, <3>2, ParametersAssumption DEF NetDebt
    <3> QED BY <3>1, <3>2
  <2>2. C + collIn \in Nat
    BY <1>3
  <2>3. Worth(C + collIn, D - repay, price, k)
    <3>1. (C + collIn) * price >= C * price
      BY <1>3
    <3>2. k * (D - repay) <= k * D
      BY <1>3, <2>1
    <3>3. /\ (C + collIn) * price \in Int /\ C * price \in Int /\ k * (D - repay) \in Int /\ k * D \in Int
      BY <1>3, <2>1
    <3> QED BY <1>8, <3>1, <3>2, <3>3 DEF Worth
  <2>4. CR(C + collIn, D - repay, price) \in Nat /\ CR(C + collIn, D - repay, price) >= k
    BY <1>3, <2>1, <2>2, <2>3, RatioAtLeast
  <2>5. D + borrow - repay = D - repay
    BY <1>3, <1>10
  <2>6. CR(C + collIn, D - repay, price) >= k - 1
    BY <1>3, <2>4
  <2> QED BY <1>7, <2>5, <2>6 DEF k
<1> QED BY <1>9, <1>10

\* A borrower's transaction in Recovery Mode does not lower the TCR by more than the unit
\* of its rounding.
LEMMA BorrowerKeepsTCR ==
  ASSUME IInv, AccountsInv, RecoveryMode, NEW u \in Users, BorrowerOperation(u)
  PROVE  ~(TCR' < TCR - 1)
<1>1. TypeOK'
  BY BorrowerOperationInv DEF IInv
<1>2. EntireSystemColl' \in Nat /\ EntireSystemDebt' \in Nat /\ price' \in Nat
  BY <1>1, ParametersAssumption DEF TypeOK, Reward, EntireSystemColl, EntireSystemDebt
<1>3. TCR' \in Nat /\ TCR \in Nat
  BY <1>2, RatioNat, TotalsNat DEF TCR, IInv
<1>4. ~CloseVault(u)
  BY DEF CloseVault
<1>5. ASSUME NEW c \in Colls, NEW a \in Amounts, NEW r \in BorrowingRates, OpenVault(u, c, a, r)
      PROVE  TCR' >= TCR
  BY <1>5, OpenVaultKeepsTCR
<1>6. ASSUME NEW collIn \in Nat, NEW collOut \in Nat, NEW borrow \in Nat, NEW repay \in Nat,
             NEW rate \in Nat, Adjust(u, collIn, collOut, borrow, repay, rate)
      PROVE  TCR' >= TCR - 1
  BY <1>6, AdjustKeepsTCR
<1>7. TCR' >= TCR \/ TCR' >= TCR - 1
  BY <1>4, <1>5, <1>6, BorrowerOperationCases
<1> QED BY <1>3, <1>7

\* No transaction of a borrower takes the system into Recovery Mode (BorrowerOperations.sol,
\* _requireValidAdjustmentInCurrentMode, openVault and closeVault).
THEOREM BorrowersAlwaysKeepNormalMode == Spec => BorrowersKeepNormalMode
<1>1. IInv /\ [Next]_vars =>
        \/ price' = price /\ ~RecoveryMode /\ RecoveryMode' => ~\E u \in Users : BorrowerOperation(u)
        \/ UNCHANGED vars
  BY BorrowerKeepsNormalMode
<1> QED
  BY <1>1, SpecInv, PTL DEF Spec, BorrowersKeepNormalMode

\* In Recovery Mode no transaction of a borrower lowers the TCR, but for the unit by which
\* a division rounds.
THEOREM BorrowersAlwaysKeepTCR == Spec => BorrowersKeepTCR
<1>1. IInv /\ AccountsInv /\ [Next]_vars =>
        \/ price' = price /\ RecoveryMode /\ TCR' < TCR - 1 => ~\E u \in Users : BorrowerOperation(u)
        \/ UNCHANGED vars
  BY BorrowerKeepsTCR
<1> QED
  BY <1>1, SpecInv, SpecAccounts, PTL DEF Spec, BorrowersKeepTCR

----------------------------------------------------------------------------
\* Liquidations outside Recovery Mode.

\* The invariant of a loop that starts outside Recovery Mode: it stays in normal mode,
\* and closes only vaults below MCR.
SafeTally(t) ==
  /\ TallyInv(t)
  /\ t.normal = TRUE
  /\ \A u \in t.closed : ICR(u) < MCR

SafeBatchLoop == INSTANCE SequenceFolds
  WITH Op <- LAMBDA t, u : LiquidationStep(t, u, TRUE), Inv <- LAMBDA seq, i, t : SafeTally(t)

SafeListLoop == INSTANCE SequenceFolds
  WITH Op <- LAMBDA t, u : LiquidationStep(t, u, FALSE), Inv <- LAMBDA seq, i, t : SafeTally(t)

\* The ratio of an active vault is natural.
LEMMA VaultRatioNat ==
  ASSUME IInv, DebtAboveMin, NEW u \in Active
  PROVE  ICR(u) \in Nat
<1>1. price \in Nat
  BY ParametersAssumption DEF IInv, TypeOK
<1> QED BY <1>1, EntireNat, RatioNat DEF ICR

\* One round of a loop in normal mode.
LEMMA LiquidationStepIsSafe ==
  ASSUME IInv, DebtAboveMin, NEW t, SafeTally(t), NEW u, NEW batch \in BOOLEAN
  PROVE  SafeTally(LiquidationStep(t, u, batch))
<1> DEFINE b == ~batch
           stopped == [t EXCEPT !.stop = b]
           full == FullLiquidation(u, t.spBPD)
           closed == Tally(t, u, full)
<1>1. TallyInv(LiquidationStep(t, u, batch))
  BY LiquidationStepInv DEF SafeTally
<1>2. CASE t.stop \/ u \notin Active \ t.closed
  <2>1. LiquidationStep(t, u, batch) = t
    BY <1>2, SMT DEF LiquidationStep
  <2> QED BY <2>1
<1>3. CASE ~t.stop /\ u \in Active \ t.closed /\ ICR(u) < MCR
  <2>1. LiquidationStep(t, u, batch) = closed
    <3> HIDE DEF closed
    <3>1. t.normal /\ ICR(u) < MCR
      BY <1>3 DEF SafeTally
    <3>2. ~(ICR(u) >= MCR)
      BY <1>3, VaultRatioNat, ParametersAssumption
    <3>3. ~(t.stop \/ u \notin Active \ t.closed)
      BY <1>3
    <3> QED BY <3>1, <3>2, <3>3, Zenon DEF LiquidationStep, closed
  <2>2. IsTally(t)
    BY DEF SafeTally, TallyInv
  <2>3. closed.normal = t.normal /\ closed.closed = t.closed \cup {u}
    <3> HIDE DEF full
    <3> QED BY <2>2 DEF IsTally, TallyFields, Tally
  <2> HIDE DEF closed
  <2> QED BY <1>1, <1>3, <2>1, <2>3 DEF SafeTally
<1>4. CASE ~t.stop /\ u \in Active \ t.closed /\ ~(ICR(u) < MCR)
  <2>1. ICR(u) >= MCR
    BY <1>4, VaultRatioNat, ParametersAssumption
  <2>2. LiquidationStep(t, u, batch) = stopped
    <3> HIDE DEF stopped
    <3>1. t.normal /\ ICR(u) >= MCR /\ ~(ICR(u) < MCR)
      BY <1>4, <2>1 DEF SafeTally
    <3> QED BY <1>4, <3>1, Zenon DEF LiquidationStep, stopped
  <2>3. IsTally(t)
    BY DEF SafeTally, TallyInv
  <2>4. stopped.normal = t.normal /\ stopped.closed = t.closed
    <3> HIDE DEF b
    <3> QED BY <2>3 DEF IsTally, TallyFields
  <2> HIDE DEF stopped
  <2> QED BY <1>1, <2>2, <2>4 DEF SafeTally
<1> QED BY <1>2, <1>3, <1>4

\* What either loop closes outside Recovery Mode.
LEMMA LiquidationTallyIsSafe ==
  ASSUME IInv, DebtAboveMin, ~RecoveryMode, NEW V, NEW seq \in Seq(V), NEW batch \in BOOLEAN
  PROVE  SafeTally(LiquidationTally(seq, batch))
<1> DEFINE base == EmptyTally(stabilityPool.BPD)
<1>1. SafeTally(base)
  <2>1. base.closed = {} /\ base.normal = TRUE
    BY DEF EmptyTally
  <2>2. TallyInv(base)
    BY EmptyTallyInv
  <2> HIDE DEF base
  <2> QED BY <2>1, <2>2 DEF SafeTally
<1> HIDE DEF base
<1>2. ASSUME NEW c \in BOOLEAN
      PROVE  \A i \in 1..Len(seq) : \A t : SafeTally(t) => SafeTally(LiquidationStep(t, seq[i], c))
  BY LiquidationStepIsSafe
<1>3. SafeTally(SafeBatchLoop!Loop(base, seq))
  <2>1. \A i \in 1..Len(seq) : \A t : SafeTally(t) => SafeTally(LiquidationStep(t, seq[i], TRUE))
    BY <1>2
  <2> QED BY <1>1, <2>1, SafeBatchLoop!LoopInvariant
<1>4. SafeTally(SafeListLoop!Loop(base, seq))
  <2>1. \A i \in 1..Len(seq) : \A t : SafeTally(t) => SafeTally(LiquidationStep(t, seq[i], FALSE))
    BY <1>2
  <2> QED BY <1>1, <2>1, SafeListLoop!LoopInvariant
<1>5. LiquidationTally(seq, TRUE) = SafeBatchLoop!Loop(base, seq)
  BY DEF LiquidationTally, SafeBatchLoop!Loop, FoldLeft, MapThenFoldSet, Max,
         SafeBatchLoop!FoldLeft, SafeBatchLoop!MapThenFoldSet, SafeBatchLoop!Max, base
<1>6. LiquidationTally(seq, FALSE) = SafeListLoop!Loop(base, seq)
  BY DEF LiquidationTally, SafeListLoop!Loop, FoldLeft, MapThenFoldSet, Max,
         SafeListLoop!FoldLeft, SafeListLoop!MapThenFoldSet, SafeListLoop!Max, base
<1> QED BY <1>3, <1>4, <1>5, <1>6

\* A liquidation outside Recovery Mode closes only vaults below MCR.
LEMMA LiquidationKeepsSafe ==
  ASSUME IInv, AccountsInv, ~RecoveryMode, NEW u \in Users, Liquidation(u),
         NEW v \in Active, vaults'[v].status = "closedByLiquidation"
  PROVE  ICR(v) < MCR
<1>1. PICK seq \in Seq(Users), batch \in BOOLEAN : SettleLiquidation(u, LiquidationTally(seq, batch))
  BY LiquidationIsTally
<1> DEFINE t == LiquidationTally(seq, batch)
<1>2. SafeTally(t)
  BY LiquidationTallyIsSafe DEF AccountsInv
<1>3. vaults' = [w \in Users |-> IF w \in t.closed \cap Active
                                 THEN ClosedVault(w, "closedByLiquidation") ELSE vaults[w]]
  BY <1>1 DEF SettleLiquidation
<1> HIDE DEF t
<1>4. v \in Users /\ vaults[v].status = "active"
  BY DEF Active
<1>5. v \in t.closed
  BY <1>3, <1>4
<1> QED BY <1>2, <1>5 DEF SafeTally

\* What each transaction may leave of an active vault.
LEMMA StatusAfter ==
  ASSUME IInv, AccountsInv, [Next]_vars, NEW v \in Active
  PROVE  \/ vaults'[v].status \in {"active", "closedByOwner"}
         \/ vaults'[v].status = "closedByLiquidation" /\ \E u \in Users : Liquidation(u)
         \/ vaults'[v].status = "closedByRedemption" /\ \E u \in Users : Redemption(u)
<1> DEFINE s == vaults'[v].status
<1>1. v \in Users /\ vaults[v].status = "active" /\ vaults \in [Users -> Vault]
  BY DEF Active, IInv, TypeOK
<1>2. ASSUME NEW u \in Users, BorrowerOperation(u)
      PROVE  s \in {"active", "closedByOwner"}
  <2>1. ASSUME NEW c \in Colls, NEW a \in Amounts, NEW r \in BorrowingRates, OpenVault(u, c, a, r)
        PROVE  s = "active"
    BY <1>1, <2>1 DEF OpenVault
  <2>2. ASSUME NEW collIn \in Nat, NEW collOut \in Nat, NEW borrow \in Nat, NEW repay \in Nat,
               NEW rate \in Nat, Adjust(u, collIn, collOut, borrow, repay, rate)
        PROVE  s = "active"
    BY <1>1, <2>2 DEF Adjust
  <2>3. ASSUME CloseVault(u)
        PROVE  s \in {"active", "closedByOwner"}
    BY <1>1, <2>3 DEF CloseVault, ClosedVault
  <2> QED BY <1>2, <2>1, <2>2, <2>3, BorrowerOperationCases
<1>3. ASSUME NEW u \in Users, Liquidation(u)
      PROVE  s \in {"active", "closedByLiquidation"}
  <2>1. PICK t : SettleLiquidation(u, t)
    BY <1>3, LiquidationIsTally
  <2>2. vaults'[v] = IF v \in t.closed \cap Active THEN ClosedVault(v, "closedByLiquidation") ELSE vaults[v]
    BY <1>1, <2>1 DEF SettleLiquidation
  <2> QED BY <1>1, <2>2 DEF ClosedVault
<1>4. ASSUME NEW u \in Users, Redemption(u)
      PROVE  s \in {"active", "closedByRedemption"}
  <2>1. PICK t, rate : RedemptionIsValid(t, rate) /\ SettleRedemption(u, t)
    <3>1. PICK a \in Amounts, n \in 1..Cardinality(Users), hint \in {{}} \cup {{w} : w \in Users},
               hintFresh \in BOOLEAN, rate \in RedemptionRates :
            RedeemCollateral(u, a, n, hint, hintFresh, rate)
      BY <1>4 DEF Redemption
    <3> QED BY <3>1 DEF RedeemCollateral
  <2>2. vaults'[v] = RedeemedVault(t, v)
    BY <1>1, <2>1 DEF SettleRedemption
  <2> QED BY <1>1, <2>1, <2>2, RedeemedVaultType
<1>5. ASSUME NEW u \in Users, StabilityPoolOperation(u)
      PROVE  s = "active"
  <2>1. stabilityPool.RBTC \in Nat
    BY DEF IInv, TypeOK
  <2>2. ASSUME NEW g \in {0, stabilityPool.RBTC}, MoveRBTCGainToVault(u, g)
        PROVE  s = "active"
    BY <1>1, <2>1, <2>2 DEF MoveRBTCGainToVault, Adjust
  <2>3. vaults' = vaults => s = "active"
    BY <1>1
  <2> HIDE DEF s
  <2> QED BY <1>5, <2>2, <2>3 DEF StabilityPoolOperation, ProvideToSP, WithdrawFromSP, vmVars
<1>6. vaults' = vaults => s = "active"
  BY <1>1
<1>7. ASSUME NEW u \in Users, ClaimCollateral(u) \/ PayOutFees(u) \/ \E w \in Users : Transfer(u, w, bpd[u])
      PROVE  vaults' = vaults
  BY <1>7 DEF ClaimCollateral, PayOutFees, Transfer, vmVars
<1>8. ASSUME NEW p \in Prices, PriceMoves(p)
      PROVE  vaults' = vaults
  BY <1>8 DEF PriceMoves, vmVars
<1>9. UNCHANGED vars => vaults' = vaults
  BY DEF vars, vmVars
<1> HIDE DEF s
<1>10. \/ s \in {"active", "closedByOwner"}
       \/ s = "closedByLiquidation" /\ \E u \in Users : Liquidation(u)
       \/ s = "closedByRedemption" /\ \E u \in Users : Redemption(u)
  BY <1>2, <1>3, <1>4, <1>5, <1>6, <1>7, <1>8, <1>9 DEF Next
<1> QED BY <1>10 DEF s

\* Outside Recovery Mode no vault at or above MCR is liquidated, however long the sequence
\* of the loop and whatever it closes before (VaultManager.sol, _liquidateNormalMode and the
\* loops that choose it).
THEOREM SafeVaultsAreAlwaysKept == Spec => SafeVaultsAreKept
<1>1. IInv /\ AccountsInv /\ [Next]_vars =>
        \/ ~RecoveryMode => \A u \in Active : vaults'[u].status = "closedByLiquidation" => ICR(u) < MCR
        \/ UNCHANGED vars
  BY StatusAfter, LiquidationKeepsSafe
<1> QED
  BY <1>1, SpecInv, SpecAccounts, PTL DEF Spec, SafeVaultsAreKept

----------------------------------------------------------------------------
\* Depositors in Recovery Mode.

\* Both sides of an inequality times a natural number.
LEMMA TimesMonotone ==
  ASSUME NEW a \in Int, NEW b \in Int, NEW n \in Nat, a <= b
  PROVE  a * n <= b * n
OBVIOUS

\* A common factor does not matter to an inequality.
LEMMA TimesCancels ==
  ASSUME NEW a \in Int, NEW b \in Int, NEW n \in Nat \ {0}, a * n <= b * n
  PROVE  a <= b
<1> SUFFICES ASSUME b + 1 <= a PROVE FALSE
  OBVIOUS
<1>1. (b + 1) * n <= a * n
  BY TimesMonotone
<1>2. (b + 1) * n = b * n + n /\ b * n \in Int /\ a * n \in Int
  OBVIOUS
<1> QED BY <1>1, <1>2

\* What the pool gets, xx - 1, is its share offset/debt of the collateral that the gas
\* compensation leaves, so xx is worth as much of the debt as a share m/d of k.
LEMMA ShareIsWorth ==
  ASSUME NEW xx \in Nat, NEW p \in Nat, NEW debt \in Nat \ {0}, NEW d \in Nat \ {0}, NEW m \in Nat,
         NEW k \in Nat, NEW n \in Int, NEW offset \in Nat, NEW coll \in Nat, NEW rest \in Nat,
         rest * offset <= xx * debt, coll * m <= rest * d, k * debt <= coll * p, n * d <= k * m
  PROVE  n * offset <= xx * p
<1>1. (rest * offset) * (p * d) <= (xx * debt) * (p * d)
  BY TimesMonotone
<1>2. (coll * m) * (offset * p) <= (rest * d) * (offset * p)
  BY TimesMonotone
<1>3. (k * debt) * (m * offset) <= (coll * p) * (m * offset)
  BY TimesMonotone
<1>4. (n * d) * (debt * offset) <= (k * m) * (debt * offset)
  BY TimesMonotone
<1>5. /\ (rest * offset) * (p * d) = (rest * d) * (offset * p)
      /\ (coll * m) * (offset * p) = (coll * p) * (m * offset)
      /\ (k * debt) * (m * offset) = (k * m) * (debt * offset)
      /\ (n * d) * (debt * offset) = (n * offset) * (debt * d)
      /\ (xx * debt) * (p * d) = (xx * p) * (debt * d)
  OBVIOUS
<1>6. /\ (rest * d) * (offset * p) \in Int /\ (coll * p) * (m * offset) \in Int
      /\ (k * m) * (debt * offset) \in Int /\ (n * offset) * (debt * d) \in Int
      /\ (xx * p) * (debt * d) \in Int
  OBVIOUS
<1>7. (n * offset) * (debt * d) <= (xx * p) * (debt * d)
  BY <1>1, <1>2, <1>3, <1>4, <1>5, <1>6
<1>8. n * offset \in Int /\ xx * p \in Int /\ debt * d \in Nat \ {0}
  OBVIOUS
<1> QED BY <1>7, <1>8, TimesCancels

\* The share of 1/PERCENT_DIVISOR that goes to gas compensation, out of the units that are
\* worth more than the debt.
LEMMA ShareOfGas ==
  ASSUME NEW k \in Nat, NEW d \in Nat \ {0}
  PROVE  (k - k \div d) * d <= (k + 1) * (d - 1)
<1> DEFINE q == k \div d
<1>1. q \in Nat /\ k + 1 <= (q + 1) * d
  OBVIOUS
<1> HIDE DEF q
<1>2. (q + 1) * d = q * d + d /\ (k - q) * d = k * d - q * d /\ (k + 1) * (d - 1) = k * d - k + d - 1
  BY <1>1
<1>3. q * d \in Int /\ k * d \in Int
  BY <1>1
<1> QED BY <1>1, <1>2, <1>3 DEF q

\* What is left once the gas compensation is taken.
LEMMA RestOfGas ==
  ASSUME NEW coll \in Nat
  PROVE  /\ coll - CollGasCompensation(coll) \in Nat
         /\ coll * (PERCENT_DIVISOR - 1) <= (coll - CollGasCompensation(coll)) * PERCENT_DIVISOR
<1> DEFINE d == PERCENT_DIVISOR
           g == coll \div d
<1>1. d \in Nat \ {0}
  BY ParametersAssumption
<1> HIDE DEF d
<1>2. g \in Nat /\ g * d <= coll /\ g <= coll
  BY <1>1
<1> HIDE DEF g
<1>3. (coll - g) * d = coll * d - g * d /\ coll * (d - 1) = coll * d - coll
  BY <1>1, <1>2
<1>4. coll * d \in Int /\ g * d \in Int
  BY <1>1, <1>2
<1>5. CollGasCompensation(coll) = g
  BY DEF CollGasCompensation, g, d
<1> QED BY <1>2, <1>3, <1>4, <1>5 DEF d

\* The worth of what a liquidation brings the pool, per unit of the debt it burns.
Compensation == DECIMAL_PRECISION - DECIMAL_PRECISION \div PERCENT_DIVISOR

Compensated(debt, coll) == debt > 0 => CR(coll + 1, debt, price) >= Compensation

\* A vault above 100% that is offset against the pool, in whole or in part.
LEMMA FullLiquidationCompensates ==
  ASSUME IInv, DebtAboveMin, NEW u \in Active, NEW spBPD \in Nat, DECIMAL_PRECISION < ICR(u),
         NEW v, v = FullLiquidation(u, spBPD)
  PROVE  v.debtOffset \in Nat /\ v.collToSP \in Nat /\ Compensated(v.debtOffset, v.collToSP)
<1> DEFINE coll == EntireColl(u)
           debt == EntireDebt(u)
           rest == coll - CollGasCompensation(coll)
           offset == Minimum(debt, spBPD)
           x == (rest * offset) \div debt
           k == DECIMAL_PRECISION
           d == PERCENT_DIVISOR
           n == k - k \div d
<1>1. coll \in Nat /\ debt \in Nat \ {0}
  BY EntireNat
<1>2. k \in Nat /\ d \in Nat \ {0} /\ price \in Nat
  BY ParametersAssumption DEF IInv, TypeOK
<1>3. Worth(coll, debt, price, k + 1)
  <2>1. CR(coll, debt, price) \in Nat /\ CR(coll, debt, price) = ICR(u)
    BY VaultRatioNat DEF ICR
  <2>2. CR(coll, debt, price) >= k + 1
    <3> HIDE DEF coll, debt
    <3> QED BY <1>2, <2>1
  <2>3. k + 1 \in Int
    BY <1>2
  <2> HIDE DEF coll, debt, k
  <2> QED BY <1>1, <1>2, <2>2, <2>3, RatioAtLeast
<1>4. /\ v.debtOffset = offset
      /\ v.collToSP = IF spBPD > 0 THEN x ELSE 0
  BY DEF FullLiquidation, OffsetAndRedistribution
<1> HIDE DEF coll, debt
<1>5. rest \in Nat /\ coll * (d - 1) <= rest * d
  BY <1>1, RestOfGas
<1>6. offset \in Nat /\ (offset > 0 => spBPD > 0)
  BY <1>1 DEF Minimum
<1> HIDE DEF rest, offset
<1>7. x \in Nat /\ rest * offset <= (x + 1) * debt
  <2> DEFINE y == rest * offset
  <2>1. y \in Nat
    BY <1>5, <1>6
  <2>2. x = y \div debt
    OBVIOUS
  <2> HIDE DEF x, y
  <2>3. x \in Nat /\ y <= (x + 1) * debt
    BY <1>1, <2>1, <2>2
  <2> QED BY <2>3 DEF y
<1>8. n \in Int /\ n * d <= (k + 1) * (d - 1)
  <2> HIDE DEF k, d
  <2>1. k \div d \in Int
    BY <1>2
  <2> QED BY <1>2, <2>1, ShareOfGas
<1> HIDE DEF x, k, d, n
<1>9. offset > 0 => n * offset <= (x + 1) * price
  <2>1. d - 1 \in Nat /\ k + 1 \in Nat /\ x + 1 \in Nat
    BY <1>2, <1>7
  <2>2. (k + 1) * debt <= coll * price
    BY <1>3 DEF Worth
  <2> QED BY ONLY <1>1, <1>2, <1>5, <1>6, <1>7, <1>8, <2>1, <2>2, ShareIsWorth
<1>10. offset > 0 => CR(x + 1, offset, price) >= n
  <2>1. x + 1 \in Nat
    BY <1>7
  <2>2. offset > 0 => Worth(x + 1, offset, price, n) /\ offset \in Nat \ {0}
    BY <1>6, <1>9, <2>1 DEF Worth
  <2> QED BY ONLY <1>2, <1>8, <2>1, <2>2, RatioAtLeast
<1>11. n = Compensation
  BY DEF n, k, d, Compensation
<1> QED BY <1>4, <1>6, <1>7, <1>10, <1>11 DEF Compensated

\* A vault of which the pool takes the worth of MCR times the debt.
LEMMA CappedOffsetCompensates ==
  ASSUME IInv, DebtAboveMin, NEW u \in Active, NEW v, v = CappedOffset(u)
  PROVE  v.debtOffset \in Nat /\ v.collToSP \in Nat /\ Compensated(v.debtOffset, v.collToSP)
<1> DEFINE debt == EntireDebt(u)
           toOffset == (debt * MCR) \div price
           x == toOffset - CollGasCompensation(toOffset)
           k == DECIMAL_PRECISION
           d == PERCENT_DIVISOR
           n == k - k \div d
<1>1. debt \in Nat \ {0}
  BY EntireNat
<1>2. k \in Nat /\ d \in Nat \ {0} /\ price \in Nat \ {0} /\ MCR \in Nat /\ k + 1 <= MCR
  BY ParametersAssumption DEF IInv, TypeOK
<1>3. v.debtOffset = debt /\ v.collToSP = x
  BY DEF CappedOffset
<1> HIDE DEF debt
<1>4. toOffset \in Nat /\ debt * MCR <= (toOffset + 1) * price
  <2> DEFINE y == debt * MCR
  <2>1. y \in Nat
    BY <1>1, <1>2
  <2>2. toOffset = y \div price
    OBVIOUS
  <2> HIDE DEF toOffset, y
  <2>3. toOffset \in Nat /\ y <= (toOffset + 1) * price
    BY <1>2, <2>1, <2>2
  <2> QED BY <2>3 DEF y
<1> HIDE DEF toOffset
<1>5. x \in Nat /\ toOffset * (d - 1) <= x * d
  BY <1>4, RestOfGas
<1>6. n \in Int /\ n * d <= (k + 1) * (d - 1)
  <2> HIDE DEF k, d
  <2>1. k \div d \in Int
    BY <1>2
  <2> QED BY <1>2, <2>1, ShareOfGas
<1> HIDE DEF x, k, d, n
<1>7. (toOffset + 1) * (d - 1) <= (x + 1) * d
  <2>1. /\ (toOffset + 1) * (d - 1) = toOffset * (d - 1) + (d - 1)
        /\ (x + 1) * d = x * d + d
    BY <1>2, <1>4, <1>5
  <2>2. toOffset * (d - 1) \in Int /\ x * d \in Int
    BY <1>2, <1>4, <1>5
  <2> QED BY <1>2, <1>5, <2>1, <2>2
<1>8. (k + 1) * debt <= (toOffset + 1) * price
  <2>1. (k + 1) * debt <= MCR * debt
    BY <1>1, <1>2, TimesMonotone
  <2>2. MCR * debt = debt * MCR /\ (k + 1) * debt \in Int /\ debt * MCR \in Int /\ (toOffset + 1) * price \in Int
    BY <1>1, <1>2, <1>4
  <2> QED BY <1>4, <2>1, <2>2
<1>9. n * debt <= (x + 1) * price
  <2>1. d - 1 \in Nat /\ k + 1 \in Nat /\ x + 1 \in Nat /\ toOffset + 1 \in Nat /\ price \in Nat /\ debt \in Nat
    BY <1>1, <1>2, <1>4, <1>5
  <2>2. (x + 1) * debt <= (x + 1) * debt
    BY <1>1, <2>1
  <2> QED BY ONLY <1>1, <1>2, <1>6, <1>7, <1>8, <2>1, <2>2, ShareIsWorth
<1>10. CR(x + 1, debt, price) >= n
  <2>1. x + 1 \in Nat /\ Worth(x + 1, debt, price, n) /\ price \in Nat
    BY <1>2, <1>5, <1>9 DEF Worth
  <2> QED BY ONLY <1>1, <1>6, <2>1, RatioAtLeast
<1>11. n = Compensation
  BY DEF n, k, d, Compensation
<1> QED BY <1>1, <1>3, <1>5, <1>10, <1>11 DEF Compensated

\* A loop that takes one vault.
OneRound(i, t) ==
  /\ i = 0 => t = EmptyTally(stabilityPool.BPD)
  /\ i = 1 => \E u \in Users : t = LiquidationStep(EmptyTally(stabilityPool.BPD), u, TRUE)

SingleLoop == INSTANCE SequenceFolds
  WITH Op <- LAMBDA t, u : LiquidationStep(t, u, TRUE), Inv <- LAMBDA seq, i, t : OneRound(i, t)

\* liquidate is one round of the loop of batchLiquidateVaults.
LEMMA LiquidateIsOneRound ==
  ASSUME NEW v \in Users
  PROVE  \E u \in Users : LiquidationTally(<<v>>, TRUE) = LiquidationStep(EmptyTally(stabilityPool.BPD), u, TRUE)
<1> DEFINE base == EmptyTally(stabilityPool.BPD)
           seq == <<v>>
<1>1. seq \in Seq(Users) /\ Len(seq) = 1 /\ seq[1] = v
  OBVIOUS
<1>2. OneRound(0, base)
  BY DEF OneRound
<1> HIDE DEF seq
<1>3. ASSUME NEW i \in 1..Len(seq), NEW t, OneRound(i - 1, t)
      PROVE  OneRound(i, LiquidationStep(t, seq[i], TRUE))
  <2>1. i = 1 /\ i # 0 /\ t = base
    BY <1>1, <1>3 DEF OneRound
  <2> HIDE DEF base
  <2> QED BY <1>1, <2>1 DEF OneRound, base
<1>4. OneRound(Len(seq), SingleLoop!Loop(base, seq))
  <2> HIDE DEF base
  <2> QED BY <1>1, <1>2, <1>3, SingleLoop!LoopInvariant
<1>5. LiquidationTally(seq, TRUE) = SingleLoop!Loop(base, seq)
  BY DEF LiquidationTally, SingleLoop!Loop, FoldLeft, MapThenFoldSet, Max,
         SingleLoop!FoldLeft, SingleLoop!MapThenFoldSet, SingleLoop!Max
<1> QED BY <1>1, <1>4, <1>5 DEF OneRound, seq

\* What one round offsets in Recovery Mode, whichever case the vault falls in.
LEMMA RoundCompensates ==
  ASSUME IInv, DebtAboveMin, RecoveryMode, NEW u,
         NEW r, r = LiquidationStep(EmptyTally(stabilityPool.BPD), u, TRUE)
  PROVE  r.debtOffset \in Nat /\ r.collToSP \in Nat /\ Compensated(r.debtOffset, r.collToSP)
<1> DEFINE t == EmptyTally(stabilityPool.BPD)
           s == LiquidateRecoveryMode(t, u)
           Fine(w) == w.debtOffset \in Nat /\ w.collToSP \in Nat /\ Compensated(w.debtOffset, w.collToSP)
<1>1. /\ IsTally(t) /\ t.debtOffset = 0 /\ t.collToSP = 0 /\ t.closed = {}
      /\ t.spBPD = stabilityPool.BPD /\ t.spBPD \in Nat
      /\ t.normal = FALSE /\ t.stop = FALSE
  BY DEF EmptyTally, IsTally, TallyFields, IInv, TypeOK
<1> HIDE DEF t
<1>2. Fine(t)
  BY <1>1 DEF Compensated
<1>3. ASSUME NEW v, Fine(v)
      PROVE  Fine(Tally(t, u, v))
  <2>1. IsTallied(Tally(t, u, v), t, u, v)
    BY <1>1, TallyUpdates
  <2> QED BY <1>1, <1>3, <2>1 DEF IsTallied
<1>4. CASE u \in Active
  <2>1. ICR(u) \in Nat /\ DECIMAL_PRECISION \in Nat
    BY <1>4, VaultRatioNat, ParametersAssumption
  <2>2. Fine(FullLiquidation(u, 0))
    <3>1. EntireDebt(u) \in Nat \ {0}
      BY <1>4, EntireNat
    <3>2. FullLiquidation(u, 0).debtOffset = 0 /\ FullLiquidation(u, 0).collToSP = 0
      BY <3>1 DEF FullLiquidation, OffsetAndRedistribution, Minimum
    <3> QED BY <3>2 DEF Compensated
  <2>3. DECIMAL_PRECISION < ICR(u) => Fine(FullLiquidation(u, t.spBPD))
    BY <1>1, <1>4, FullLiquidationCompensates
  <2>4. Fine(CappedOffset(u))
    BY <1>4, CappedOffsetCompensates
  <2>5. \/ s \in {t, Tally(t, u, FullLiquidation(u, 0)), Tally(t, u, CappedOffset(u))}
        \/ DECIMAL_PRECISION < ICR(u) /\ s = Tally(t, u, FullLiquidation(u, t.spBPD))
    BY DEF LiquidateRecoveryMode
  <2> HIDE DEF Fine
  <2>6. Fine(s)
    BY <1>2, <1>3, <2>2, <2>3, <2>4, <2>5
  <2>7. IsTally(s)
    <3>1. TallyInv(t)
      BY EmptyTallyInv DEF t
    <3> QED BY <1>1, <1>4, <3>1, RecoveryStepInv DEF TallyInv
  <2> DEFINE sysColl == t.sysColl - (s.collToSP - t.collToSP) - TrackedSurplus(t, s, u, TRUE)
             sysDebt == t.sysDebt - (s.debtOffset - t.debtOffset)
             normal == CR(sysColl, sysDebt, price) >= CCR
             b == ~TRUE
             stopped == [t EXCEPT !.stop = b]
             updated == [s EXCEPT !.sysColl = sysColl, !.sysDebt = sysDebt, !.normal = normal]
  <2>8. r \in {t, stopped, updated}
    <3>1. ~t.normal
      BY <1>1
    <3>2. r = LiquidationStep(t, u, TRUE)
      BY DEF t
    <3> HIDE DEF stopped, updated
    <3> QED BY <3>1, <3>2, Zenon DEF LiquidationStep, stopped, updated
  <2>9. updated.debtOffset = s.debtOffset /\ updated.collToSP = s.collToSP
    <3> HIDE DEF s, sysColl, sysDebt, normal
    <3> QED BY <2>7 DEF IsTally, TallyFields
  <2>10. stopped.debtOffset = t.debtOffset /\ stopped.collToSP = t.collToSP
    <3> HIDE DEF b
    <3> QED BY <1>1 DEF IsTally, TallyFields
  <2> HIDE DEF s, stopped, updated
  <2> QED BY <1>2, <2>6, <2>8, <2>9, <2>10 DEF Fine
<1>5. CASE u \notin Active
  <2>1. t.stop \/ u \notin Active \ t.closed
    BY <1>5
  <2>2. r = t
    <3>1. r = LiquidationStep(t, u, TRUE)
      BY DEF t
    <3> QED BY <2>1, <3>1, SMT DEF LiquidationStep
  <2> QED BY <1>2, <2>2
<1> QED BY <1>4, <1>5

\* The liquidation of one vault in Recovery Mode.
LEMMA LiquidateCompensates ==
  ASSUME IInv, AccountsInv, RecoveryMode, NEW u \in Users, NEW v \in Users, Liquidate(u, v),
         stabilityPool.BPD - stabilityPool'.BPD > 0
  PROVE  CR(stabilityPool'.RBTC - stabilityPool.RBTC + 1, stabilityPool.BPD - stabilityPool'.BPD, price)
           >= DECIMAL_PRECISION - DECIMAL_PRECISION \div PERCENT_DIVISOR
<1> DEFINE t == LiquidationTally(<<v>>, TRUE)
<1>1. SettleLiquidation(u, t)
  BY DEF Liquidate, BatchLiquidateVaults
<1>2. t.debtOffset \in Nat /\ t.collToSP \in Nat /\ Compensated(t.debtOffset, t.collToSP)
  BY LiquidateIsOneRound, RoundCompensates DEF AccountsInv
<1>3. stabilityPool' = [BPD |-> stabilityPool.BPD - t.debtOffset, RBTC |-> stabilityPool.RBTC + t.collToSP]
  BY <1>1 DEF SettleLiquidation
<1>4. stabilityPool.BPD \in Nat /\ stabilityPool.RBTC \in Nat
  BY DEF IInv, TypeOK
<1> HIDE DEF t
<1>5. /\ stabilityPool.BPD - stabilityPool'.BPD = t.debtOffset
      /\ stabilityPool'.RBTC - stabilityPool.RBTC + 1 = t.collToSP + 1
  BY <1>2, <1>3, <1>4
<1> QED BY <1>2, <1>5 DEF Compensated, Compensation

\* In Recovery Mode the depositors get collateral of the value they lose, but for the gas
\* compensation and a unit of rounding: a vault at or below 100% is redistributed, whole, and
\* of one above the pool takes no more debt than it gets collateral for
\* (VaultManager.sol, _liquidateRecoveryMode and _getCappedOffsetVals).
THEOREM DepositorsAreAlwaysCompensated == Spec => DepositorsAreCompensated
<1>1. IInv /\ AccountsInv /\ [Next]_vars =>
        \/ LET debt == stabilityPool.BPD - stabilityPool'.BPD
               coll == stabilityPool'.RBTC - stabilityPool.RBTC
           IN RecoveryMode /\ debt > 0 /\ (\E u, v \in Users : Liquidate(u, v))
              => CR(coll + 1, debt, price) >= DECIMAL_PRECISION - DECIMAL_PRECISION \div PERCENT_DIVISOR
        \/ UNCHANGED vars
  BY LiquidateCompensates
<1> QED
  BY <1>1, SpecInv, SpecAccounts, PTL DEF Spec, DepositorsAreCompensated

----------------------------------------------------------------------------
\* Redemptions.

\* The invariant of the loop: it closes what it visits, from the first on, until it stops
\* or has nothing left to redeem.
ClosesInOrder(seq, i, t) ==
  /\ RedemptionLoopInv(seq, i, t)
  /\ \E k \in 0..i : t.closed = Visited(seq, k) /\ (k = i \/ t.stop \/ t.left = 0)

FreshOrder == INSTANCE SequenceFolds
  WITH Op <- LAMBDA t, u : RedemptionStep(t, u, TRUE), Inv <- ClosesInOrder

StaleOrder == INSTANCE SequenceFolds
  WITH Op <- LAMBDA t, u : RedemptionStep(t, u, FALSE), Inv <- ClosesInOrder

\* What one iteration does to the vaults closed.
LEMMA RedemptionStepCases ==
  ASSUME IInv, DebtAboveMin, NEW t, RedemptionIsExact(t), NEW u \in Active, NEW fresh,
         NEW r, r = RedemptionStep(t, u, fresh)
  PROVE  \/ r = t /\ (t.stop \/ t.left = 0)
         \/ r.closed = t.closed /\ (r.stop \/ r.left = 0) /\ ~(t.stop \/ t.left = 0)
         \/ r.closed = t.closed \cup {u} /\ ~(t.stop \/ t.left = 0)
<1> DEFINE coll == vaults[u].coll + AppliedRBTC(u)
           debt == vaults[u].debt + AppliedDebt(u)
           lot  == Minimum(t.left, NetDebt(debt))
           rbtc == (lot * DECIMAL_PRECISION) \div price
           full == debt - lot = BPD_GAS_COMPENSATION
           cancelled == ~full /\ (~fresh \/ NetDebt(debt - lot) < MIN_NET_DEBT)
           visited == [t EXCEPT !.applied = @ \cup {u}]
           taken == [visited EXCEPT !.left = @ - lot, !.redeemed = @ + lot, !.drawn = @ + rbtc]
           isCancelled == [visited EXCEPT !.stop = TRUE, !.reverted = @ \/ rbtc > coll]
           isFull == [taken EXCEPT !.closed = @ \cup {u}, !.surplus[u] = coll - rbtc,
                                   !.reverted = @ \/ OneVaultLeft(t.closed)]
           isPartial == [taken EXCEPT !.partial = {u}, !.lot = lot, !.rbtcLot = rbtc]
<1>1. /\ t.stop \/ t.left = 0 => r = t
      /\ ~(t.stop \/ t.left = 0) =>
           r = IF cancelled THEN isCancelled ELSE IF full THEN isFull ELSE isPartial
  <2> HIDE DEF isCancelled, isFull, isPartial, lot
  <2> QED BY DEF RedemptionStep, isCancelled, isFull, isPartial, lot
<1>2. debt = DebtToRedeem(u)
  BY DEF DebtToRedeem
<1>3. /\ debt \in Nat /\ NetDebt(debt) \in Nat /\ t.left \in Nat
  BY <1>2, ToRedeemNat DEF RedemptionIsExact
<1> HIDE DEF coll, debt
<1>4. lot \in Nat /\ lot <= t.left /\ (lot = t.left \/ lot = NetDebt(debt))
  BY <1>3 DEF Minimum
<1> HIDE DEF lot, rbtc
<1>5. ~full => lot = t.left
  BY <1>3, <1>4, ParametersAssumption DEF NetDebt
<1>6. IsRedemption(t)
  BY DEF RedemptionIsExact
<1>7. isCancelled.closed = t.closed /\ isCancelled.stop
  BY <1>6 DEF IsRedemption, RedemptionFields
<1>8. isFull.closed = t.closed \cup {u}
  BY <1>6 DEF IsRedemption, RedemptionFields
<1>9. isPartial.closed = t.closed /\ isPartial.left = t.left - lot
  BY <1>6 DEF IsRedemption, RedemptionFields
<1>10. ~full => isPartial.left = 0
  <2> HIDE DEF isPartial, full
  <2> QED BY <1>3, <1>5, <1>9
<1> HIDE DEF cancelled, full, visited, taken, isCancelled, isFull, isPartial
<1>11. ~(t.stop \/ t.left = 0) =>
         \/ r.closed = t.closed /\ (r.stop \/ r.left = 0)
         \/ r.closed = t.closed \cup {u}
  BY <1>1, <1>7, <1>8, <1>9, <1>10
<1> QED BY <1>1, <1>11

\* One round of the loop closes in order.
LEMMA RedemptionStepInOrder ==
  ASSUME IInv, DebtAboveMin, NEW seq \in Seq(Active), Distinct(seq), NEW i \in 1..Len(seq),
         NEW t, ClosesInOrder(seq, i - 1, t), NEW fresh
  PROVE  ClosesInOrder(seq, i, RedemptionStep(t, seq[i], fresh))
<1> DEFINE r == RedemptionStep(t, seq[i], fresh)
<1>1. seq[i] \in Active /\ Len(seq) \in Nat /\ i \in Nat \ {0}
  OBVIOUS
<1>2. RedemptionLoopInv(seq, i, r)
  BY RedemptionStepInv DEF ClosesInOrder
<1>3. PICK k \in 0..(i - 1) : t.closed = Visited(seq, k) /\ (k = i - 1 \/ t.stop \/ t.left = 0)
  BY DEF ClosesInOrder
<1>4. \/ r = t /\ (t.stop \/ t.left = 0)
      \/ r.closed = t.closed /\ (r.stop \/ r.left = 0) /\ ~(t.stop \/ t.left = 0)
      \/ r.closed = t.closed \cup {seq[i]} /\ ~(t.stop \/ t.left = 0)
  BY <1>1, RedemptionStepCases DEF ClosesInOrder, RedemptionLoopInv
<1> HIDE DEF r
<1>5. k \in 0..i /\ i \in 0..i
  BY <1>1
<1>6. CASE r.closed = t.closed /\ (r.stop \/ r.left = 0)
  BY <1>2, <1>3, <1>5, <1>6 DEF ClosesInOrder, r
<1>7. CASE r.closed = t.closed \cup {seq[i]} /\ ~(t.stop \/ t.left = 0)
  <2>1. k = i - 1
    BY <1>3, <1>7
  <2>2. 1..i = (1..k) \cup {i}
    BY <1>1, <2>1
  <2>3. Visited(seq, i) = Visited(seq, k) \cup {seq[i]}
    BY <2>2 DEF Visited
  <2> QED BY <1>2, <1>3, <1>5, <1>7, <2>3 DEF ClosesInOrder, r
<1> QED BY <1>4, <1>6, <1>7

\* What a redemption closes is the first of what it goes through.
LEMMA RedemptionClosesFirst ==
  ASSUME IInv, AccountsInv, NEW amount \in Nat, NEW n \in Nat, NEW hint, NEW fresh \in BOOLEAN
  PROVE  \E k \in 0..Len(RedemptionOrder(hint)) :
           RedemptionTally(amount, n, hint, fresh).closed = Visited(RedemptionOrder(hint), k)
<1> DEFINE order == RedemptionOrder(hint)
           m == Minimum(n, Len(order))
           seq == SubSeq(order, 1, m)
           base == EmptyRedemption(amount)
<1>1. order \in Seq(Active) /\ Distinct(order) /\ Len(order) \in Nat
  BY RedemptionOrderIsDistinct
<1> HIDE DEF order
<1>2. m \in Nat /\ m <= Len(order)
  BY <1>1 DEF Minimum
<1> HIDE DEF m
<1>3. seq \in Seq(Active) /\ Distinct(seq)
  <2>1. 1 \in Nat \ {0}
    OBVIOUS
  <2> QED BY <1>1, <1>2, <2>1, PartOfList
<1>4. Len(seq) = m /\ \A j \in 1..m : seq[j] = order[j]
  BY <1>1, <1>2
<1>5. RedemptionTally(amount, n, hint, TRUE) = FreshOrder!Loop(base, seq)
  BY DEF RedemptionTally, FreshOrder!Loop, FoldLeft, MapThenFoldSet, Max,
         FreshOrder!FoldLeft, FreshOrder!MapThenFoldSet, FreshOrder!Max, m, order
<1>6. RedemptionTally(amount, n, hint, FALSE) = StaleOrder!Loop(base, seq)
  BY DEF RedemptionTally, StaleOrder!Loop, FoldLeft, MapThenFoldSet, Max,
         StaleOrder!FoldLeft, StaleOrder!MapThenFoldSet, StaleOrder!Max, m, order
<1> HIDE DEF seq
<1>7. ClosesInOrder(seq, 0, base)
  <2>1. RedemptionLoopInv(seq, 0, base)
    BY EmptyRedemptionInv
  <2>2. base.closed = {} /\ Visited(seq, 0) = {} /\ 0 \in 0..0
    BY DEF EmptyRedemption, Visited
  <2> HIDE DEF base
  <2> QED BY <2>1, <2>2 DEF ClosesInOrder
<1> HIDE DEF base
<1>8. ASSUME NEW f \in BOOLEAN
      PROVE  \A i \in 1..Len(seq) : \A t :
               ClosesInOrder(seq, i - 1, t) => ClosesInOrder(seq, i, RedemptionStep(t, seq[i], f))
  BY <1>3, RedemptionStepInOrder DEF AccountsInv
<1>9. ClosesInOrder(seq, Len(seq), FreshOrder!Loop(base, seq))
  <2>1. \A i \in 1..Len(seq) : \A t :
          ClosesInOrder(seq, i - 1, t) => ClosesInOrder(seq, i, RedemptionStep(t, seq[i], TRUE))
    BY <1>8
  <2> QED BY <1>3, <1>7, <2>1, FreshOrder!LoopInvariant
<1>10. ClosesInOrder(seq, Len(seq), StaleOrder!Loop(base, seq))
  <2>1. \A i \in 1..Len(seq) : \A t :
          ClosesInOrder(seq, i - 1, t) => ClosesInOrder(seq, i, RedemptionStep(t, seq[i], FALSE))
    BY <1>8
  <2> QED BY <1>3, <1>7, <2>1, StaleOrder!LoopInvariant
<1>11. ClosesInOrder(seq, m, RedemptionTally(amount, n, hint, fresh))
  BY <1>4, <1>5, <1>6, <1>9, <1>10
<1>12. PICK k \in 0..m : RedemptionTally(amount, n, hint, fresh).closed = Visited(seq, k)
  BY <1>11 DEF ClosesInOrder
<1>13. Visited(seq, k) = Visited(order, k) /\ k \in 0..Len(order)
  <2>1. \A j \in 1..k : seq[j] = order[j]
    BY <1>1, <1>2, <1>4, <1>12
  <2> QED BY <1>1, <1>2, <1>12, <2>1 DEF Visited
<1> QED BY <1>12, <1>13 DEF order

\* A vault with less collateral for its debt does not have the higher rounded ratio.
LEMMA RatioMonotone ==
  ASSUME NEW c \in Nat, NEW d \in Nat \ {0}, NEW x \in Nat, NEW y \in Nat \ {0}, NEW p \in Nat,
         c * y <= x * d
  PROVE  CR(c, d, p) <= CR(x, y, p)
<1> DEFINE k == CR(c, d, p)
<1>1. k \in Nat
  BY RatioAtLeast
<1>2. Worth(c, d, p, k)
  <2>1. k >= k /\ k \in Int
    BY <1>1
  <2> QED BY <2>1, RatioAtLeast
<1> HIDE DEF k
<1>3. (k * d) * y <= (c * p) * y
  BY <1>1, <1>2, TimesMonotone DEF Worth
<1>4. (c * y) * p <= (x * d) * p
  BY TimesMonotone
<1>5. (k * d) * y = (k * y) * d /\ (c * p) * y = (c * y) * p /\ (x * d) * p = (x * p) * d
  BY <1>1
<1>6. /\ k * y \in Int /\ x * p \in Int
      /\ (k * y) * d \in Int /\ (c * y) * p \in Int /\ (x * p) * d \in Int
  BY <1>1
<1>7. k * y <= x * p
  <2>1. (k * y) * d <= (x * p) * d
    BY <1>3, <1>4, <1>5, <1>6
  <2> QED BY <1>6, <2>1, TimesCancels
<1>8. CR(x, y, p) \in Nat /\ CR(x, y, p) >= k
  <2>1. k \in Int /\ Worth(x, y, p, k)
    BY <1>1, <1>6, <1>7 DEF Worth
  <2> QED BY <2>1, RatioAtLeast
<1> QED BY <1>1, <1>8 DEF k

\* Neither of the two ratios falls on the way up the list.
LEMMA RatiosRise ==
  ASSUME IInv, AccountsInv, ListIsOrdered,
         NEW i \in 1..Len(sortedVaults), NEW j \in 1..Len(sortedVaults), i <= j
  PROVE  LET up == Reverse(sortedVaults)
         IN /\ up[i] \in Active /\ up[j] \in Active
            /\ ICR(up[i]) <= ICR(up[j]) /\ NICR(up[i]) <= NICR(up[j])
            /\ ICR(up[i]) \in Nat /\ ICR(up[j]) \in Nat
<1> DEFINE up == Reverse(sortedVaults)
           n  == Len(sortedVaults)
           u  == up[i]
           v  == up[j]
<1>1. /\ n \in Nat /\ up \in Seq(Active) /\ Len(up) = n
      /\ \A m \in 1..n : n - m + 1 \in 1..n /\ up[m] = sortedVaults[n - m + 1]
  BY UpwardsList
<1> HIDE DEF up
<1>2. u \in Active /\ v \in Active
  BY <1>1
<1>3. /\ n - i + 1 \in 1..n /\ n - j + 1 \in 1..n /\ n - j + 1 <= n - i + 1
      /\ u = sortedVaults[n - i + 1] /\ v = sortedVaults[n - j + 1]
  BY <1>1
<1>4. EntireColl(u) * EntireDebt(v) <= EntireColl(v) * EntireDebt(u)
  BY <1>3 DEF ListIsOrdered
<1> HIDE DEF u, v, n
<1>5. /\ EntireColl(u) \in Nat /\ EntireDebt(u) \in Nat \ {0}
      /\ EntireColl(v) \in Nat /\ EntireDebt(v) \in Nat \ {0}
  BY <1>2, EntireNat DEF AccountsInv
<1>6. price \in Nat /\ NICR_PRECISION \in Nat
  BY ParametersAssumption DEF IInv, TypeOK
<1>7. CR(EntireColl(u), EntireDebt(u), price) <= CR(EntireColl(v), EntireDebt(v), price)
  BY <1>4, <1>5, <1>6, RatioMonotone
<1>8. CR(EntireColl(u), EntireDebt(u), NICR_PRECISION) <= CR(EntireColl(v), EntireDebt(v), NICR_PRECISION)
  BY <1>4, <1>5, <1>6, RatioMonotone
<1>9. ICR(u) <= ICR(v) /\ NICR(u) <= NICR(v)
  BY <1>7, <1>8 DEF ICR, NICR, CR, NominalCR
<1>10. ICR(u) \in Nat /\ ICR(v) \in Nat
  BY <1>2, VaultRatioNat DEF AccountsInv
<1> QED BY <1>2, <1>9, <1>10 DEF u, v, up

\* Where a redemption starts: the first vault it takes is at or above MCR, and the one
\* below it, if any, is not.
StartsAtMCR(s) ==
  LET up == Reverse(sortedVaults)
      n  == Len(sortedVaults)
  IN /\ s \in Nat \ {0}
     /\ s \in 1..n => ICR(up[s]) >= MCR
     /\ s - 1 \in 1..n => ~(ICR(up[s - 1]) >= MCR)

\* Whatever the hint, the loop starts at the lowest ratio at or above MCR.
LEMMA RedemptionStart ==
  ASSUME IInv, AccountsInv, NEW hint \in {{}} \cup {{v} : v \in Users}
  PROVE  \E s : /\ StartsAtMCR(s)
                /\ RedemptionOrder(hint) = SubSeq(Reverse(sortedVaults), s, Len(sortedVaults))
<1> DEFINE n == Len(sortedVaults)
           up == Reverse(sortedVaults)
           starts == {i \in 1..n : ICR(up[i]) >= MCR}
           hinted == \E u \in hint : ValidFirstHint(u)
           s == IF hinted THEN CHOOSE i \in 1..n : up[i] \in hint
                ELSE IF starts = {} THEN n + 1 ELSE Min(starts)
<1>1. /\ n \in Nat /\ up \in Seq(Active) /\ Len(up) = n /\ Distinct(up)
      /\ \A i \in 1..n : n - i + 1 \in 1..n /\ up[i] = sortedVaults[n - i + 1]
  BY UpwardsList
<1>2. RedemptionOrder(hint) = SubSeq(up, s, n)
  BY <1>1 DEF RedemptionOrder
<1>3. CASE hinted
  <2>1. PICK h \in hint, i \in 1..n : /\ sortedVaults[i] = h /\ ICR(h) >= MCR
                                      /\ i < n => ICR(sortedVaults[i + 1]) < MCR
    BY <1>3 DEF ValidFirstHint
  <2>2. hint = {h}
    BY <2>1
  <2> DEFINE m == n - i + 1
  <2> HIDE DEF up, n
  <2>3. m \in 1..n /\ n - m + 1 = i
    BY <1>1, <2>1
  <2>4. up[m] = h
    BY <1>1, <2>1, <2>3
  <2>5. \A k \in 1..n : up[k] \in hint => k = m
    BY <1>1, <2>2, <2>3, <2>4 DEF Distinct
  <2> HIDE DEF m
  <2>6. s = m
    <3>1. s = CHOOSE k \in 1..n : up[k] \in hint
      BY <1>3
    <3> HIDE DEF s
    <3> QED BY <2>2, <2>3, <2>4, <2>5, <3>1
  <2>7. s - 1 \in 1..n => ~(ICR(up[s - 1]) >= MCR)
    <3> SUFFICES ASSUME m - 1 \in 1..n
                 PROVE  ~(ICR(up[m - 1]) >= MCR)
      BY <2>6
    <3>1. n - (m - 1) + 1 = i + 1 /\ i < n
      BY <1>1, <2>1, <2>3
    <3>2. up[m - 1] = sortedVaults[i + 1] /\ up[m - 1] \in Active
      BY <1>1, <3>1
    <3>3. ICR(up[m - 1]) < MCR /\ ICR(up[m - 1]) \in Nat
      BY <2>1, <3>1, <3>2, VaultRatioNat DEF AccountsInv
    <3> QED BY <3>3, ParametersAssumption
  <2>8. s \in Nat \ {0} /\ ICR(up[s]) >= MCR
    BY <1>1, <2>1, <2>3, <2>4, <2>6
  <2> HIDE DEF s
  <2>9. StartsAtMCR(s)
    BY <2>7, <2>8 DEF StartsAtMCR, up, n
  <2> QED BY <1>2, <2>9 DEF up, n
<1>4. CASE ~hinted /\ starts = {}
  <2>1. s = n + 1
    BY <1>4
  <2>2. \A i \in 1..n : ~(ICR(up[i]) >= MCR)
    BY <1>4
  <2> HIDE DEF s, up, n
  <2>3. s \in Nat \ {0} /\ s \notin 1..n
    BY <1>1, <2>1
  <2>4. StartsAtMCR(s)
    BY <2>2, <2>3 DEF StartsAtMCR, up, n
  <2> QED BY <1>2, <2>4 DEF up, n
<1>5. CASE ~hinted /\ starts # {}
  <2>1. s = Min(starts)
    BY <1>5
  <2>2. starts \in SUBSET Nat /\ \A i \in 1..n : (ICR(up[i]) >= MCR <=> i \in starts)
    BY <1>1
  <2>3. \A i \in starts : i \in 1..n /\ ICR(up[i]) >= MCR
    OBVIOUS
  <2> HIDE DEF starts
  <2>4. Min(starts) \in starts /\ \A i \in starts : Min(starts) <= i
    BY <1>5, <2>2, MinExists
  <2> HIDE DEF s, up, n
  <2>5. s \in starts /\ s - 1 \notin starts /\ s \in 1..n /\ n \in Nat
    <3>1. s \in starts /\ \A i \in starts : s <= i
      BY <2>1, <2>4
    <3>2. s \in 1..n /\ n \in Nat
      BY <1>1, <2>3, <3>1
    <3>3. ~(s <= s - 1)
      BY <3>2
    <3> QED BY ONLY <3>1, <3>2, <3>3
  <2>6. StartsAtMCR(s)
    BY <2>2, <2>3, <2>5 DEF StartsAtMCR, up, n
  <2> QED BY <1>2, <2>6 DEF up, n
<1> QED BY <1>3, <1>4, <1>5

\* The vaults a redemption leaves above those it closes.
LEMMA RedemptionTakesLowest ==
  ASSUME IInv, AccountsInv, ListIsOrdered, NEW redeemer \in Users, Redemption(redeemer),
         NEW u \in Active, NEW v \in Active,
         vaults'[u].status = "closedByRedemption", vaults'[v] = vaults[v]
  PROVE  ICR(u) >= MCR /\ (ICR(v) >= MCR => NICR(v) >= NICR(u))
<1> DEFINE n == Len(sortedVaults)
           up == Reverse(sortedVaults)
<1>1. PICK a \in Amounts, m \in 1..Cardinality(Users), hint \in {{}} \cup {{w} : w \in Users},
           hintFresh \in BOOLEAN, rate \in RedemptionRates :
        RedeemCollateral(redeemer, a, m, hint, hintFresh, rate)
  BY DEF Redemption
<1> DEFINE t == RedemptionTally(a, m, hint, hintFresh)
           order == RedemptionOrder(hint)
<1>2. RedemptionIsValid(t, rate) /\ SettleRedemption(redeemer, t)
  BY <1>1 DEF RedeemCollateral
<1>3. PICK k \in 0..Len(order) : t.closed = Visited(order, k)
  <2>1. a \in Nat /\ m \in Nat
    BY ParametersAssumption
  <2> QED BY <2>1, RedemptionClosesFirst
<1> HIDE DEF t
<1>4. u \in Users /\ v \in Users /\ vaults[u].status = "active" /\ vaults[v].status = "active"
  BY DEF Active
<1>5. vaults'[u] = RedeemedVault(t, u) /\ vaults'[v] = RedeemedVault(t, v)
  BY <1>2, <1>4 DEF SettleRedemption
<1>6. u \in t.closed /\ v \notin t.closed
  BY <1>2, <1>4, <1>5, RedeemedVaultType
<1>7. PICK s : StartsAtMCR(s) /\ order = SubSeq(up, s, n)
  BY RedemptionStart
<1> HIDE DEF order
<1>8. /\ n \in Nat /\ up \in Seq(Active) /\ Len(up) = n
      /\ \A w \in Active : \E i \in 1..n : up[i] = w
  BY UpwardsList
<1>9. PICK j \in 1..k : u = order[j]
  BY <1>3, <1>6 DEF Visited
<1>10. PICK l \in 1..n : up[l] = v
  BY <1>8
<1> HIDE DEF up, n
<1>11. s \in Nat \ {0} /\ (s \in 1..n => ICR(up[s]) >= MCR) /\ (s - 1 \in 1..n => ~(ICR(up[s - 1]) >= MCR))
  BY <1>7 DEF StartsAtMCR, up, n
<1>12. s <= n /\ Len(order) = n - s + 1 /\ \A i \in 1..(n - s + 1) : order[i] = up[s + i - 1]
  <2>1. Len(order) = IF s <= n THEN n - s + 1 ELSE 0
    BY <1>7, <1>8, <1>11
  <2>2. Len(order) # 0
    BY <1>3, <1>9, <2>1, <1>8, <1>11
  <2>3. s <= n /\ Len(order) = n - s + 1
    BY <2>1, <2>2
  <2>4. \A i \in 1..(n - s + 1) : order[i] = up[s + i - 1]
    BY <1>7, <1>8, <1>11, <2>3
  <2> QED BY <2>3, <2>4
<1>13. k \in Nat /\ k <= n - s + 1 /\ j \in 1..k
  BY <1>3, <1>8, <1>11, <1>12
<1> DEFINE p == s + j - 1
<1>14. p \in 1..n /\ s \in 1..n /\ s <= p /\ u = up[p]
  <2>1. /\ n \in Nat /\ s \in Nat \ {0} /\ s <= n /\ k \in Nat /\ k <= n - s + 1
        /\ j \in Nat /\ 1 <= j /\ j <= k
    BY <1>8, <1>11, <1>12, <1>13
  <2>2. j \in 1..(n - s + 1)
    BY ONLY <2>1
  <2>3. u = up[s + j - 1]
    BY <1>9, <1>12, <2>2
  <2> QED BY ONLY <2>1, <2>3
<1>15. ASSUME NEW x \in 1..n, NEW y \in 1..n, x <= y
       PROVE  /\ ICR(up[x]) <= ICR(up[y]) /\ NICR(up[x]) <= NICR(up[y])
              /\ ICR(up[x]) \in Nat /\ ICR(up[y]) \in Nat
  BY <1>15, RatiosRise DEF up, n
<1> HIDE DEF p
<1>16. MCR \in Nat
  BY ParametersAssumption
<1>17. ICR(u) >= MCR
  <2>1. ICR(up[s]) <= ICR(up[p]) /\ ICR(up[s]) \in Nat /\ ICR(up[p]) \in Nat
    BY <1>14, <1>15
  <2> QED BY <1>11, <1>14, <1>16, <2>1
<1>18. CASE p <= l
  BY <1>10, <1>14, <1>15, <1>17, <1>18
<1>19. CASE s <= l /\ l < p
  <2> DEFINE i == l - s + 1
  <2>1. i \in 1..k /\ i \in 1..(n - s + 1) /\ s + i - 1 = l
    BY <1>8, <1>11, <1>13, <1>14, <1>19 DEF p
  <2> HIDE DEF i
  <2>2. order[i] = v
    BY <1>10, <1>12, <2>1
  <2> QED BY <1>3, <1>6, <2>1, <2>2 DEF Visited
<1>20. CASE l < s
  <2>1. s - 1 \in 1..n /\ l <= s - 1
    BY <1>8, <1>11, <1>14, <1>20
  <2>2. ICR(v) <= ICR(up[s - 1]) /\ ICR(v) \in Nat /\ ICR(up[s - 1]) \in Nat
    BY <1>10, <1>15, <2>1
  <2>3. ~(ICR(v) >= MCR)
    BY <1>11, <1>16, <2>1, <2>2
  <2> QED BY <1>17, <2>3
<1>21. p \in Int /\ l \in Int /\ s \in Int
  BY <1>14, <1>11
<1> QED BY <1>18, <1>19, <1>20, <1>21

\* While the list is in order, a redemption takes the lowest ratios that are at least MCR,
\* whatever hint the redeemer gives (VaultManager.sol, redeemCollateral and
\* _isValidFirstRedemptionHint).
THEOREM LowestAreRedeemedFirst == Spec => RedeemsLowestFirst
<1>1. IInv /\ AccountsInv /\ [Next]_vars =>
        \/ ListIsOrdered => \A u, v \in Active :
             /\ vaults'[u].status = "closedByRedemption"
             /\ vaults'[v] = vaults[v]
             => ICR(u) >= MCR /\ (ICR(v) >= MCR => NICR(v) >= NICR(u))
        \/ UNCHANGED vars
  <2> SUFFICES ASSUME IInv, AccountsInv, [Next]_vars, ListIsOrdered, NEW u \in Active, NEW v \in Active,
                      vaults'[u].status = "closedByRedemption", vaults'[v] = vaults[v]
               PROVE  ICR(u) >= MCR /\ (ICR(v) >= MCR => NICR(v) >= NICR(u))
    OBVIOUS
  <2>1. \E redeemer \in Users : Redemption(redeemer)
    BY StatusAfter
  <2> QED BY <2>1, RedemptionTakesLowest
<1> QED
  BY <1>1, SpecInv, SpecAccounts, PTL DEF Spec, RedeemsLowestFirst
=============================================================================
