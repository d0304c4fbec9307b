---------------------------- MODULE VaultSystem ----------------------------
(***************************************************************************)
(* The borrowing core of the Money Protocol: BorrowerOperations.sol and    *)
(* VaultManager.sol with the contracts whose balances they move            *)
(* (ActivePool, DefaultPool, CollSurplusPool, GasPool, BPDToken).          *)
(*                                                                         *)
(* Every action is one transaction.  A failing require or assert and a     *)
(* SafeMath underflow revert the whole transaction, so each is a guard of  *)
(* the action.  Amounts keep the integer division of the code; only        *)
(* DECIMAL_PRECISION is smaller than 1e18.                                 *)
(*                                                                         *)
(* Abstracted: the base rate (its value is an input, BaseRate.tla computes *)
(* it), the linked list behind sortedVaults (a sequence here,              *)
(* SortedVaults.tla has the pointers and hints) and the split of the       *)
(* Stability Pool between depositors (only what the pool holds).  The      *)
(* product behind that split is in StabilityPool.tla: it may refuse an     *)
(* offset that leaves deposits (assert(newP > 0)), so that a liquidation   *)
(* with such an offset happens here or does not.                           *)
(***************************************************************************)
EXTENDS Integers, FiniteSets, ListOrder

CONSTANTS
  Users,                  \* borrowers, redeemers and liquidators
  GasPool, StabilityPool, MPStaking,   \* contracts that hold BPD
  DECIMAL_PRECISION,      \* the unit of prices, rates and ratios
  INFINITE_CR,            \* 2**256 - 1, the ratio of a vault without debt
  NICR_PRECISION,         \* the unit of nominal ratios
  MCR, CCR,               \* minimum and critical collateral ratio
  BPD_GAS_COMPENSATION,   \* BPD set aside for whoever liquidates the vault
  MIN_NET_DEBT,
  PERCENT_DIVISOR,        \* 1/PERCENT_DIVISOR of a liquidated vault is gas compensation
  Prices,                 \* what fetchPrice may return
  Colls,                  \* amounts of RBTC sent in or withdrawn by a borrower
  Amounts,                \* amounts of BPD borrowed, repaid, redeemed or deposited
  BorrowingRates, RedemptionRates      \* rates the base rate may give

Contracts == {GasPool, StabilityPool, MPStaking}
Accounts  == Users \cup Contracts

ASSUME AccountsAssumption ==
  /\ IsFiniteSet(Users)
  /\ Users \cap Contracts = {}
  /\ GasPool # StabilityPool /\ GasPool # MPStaking /\ StabilityPool # MPStaking

ASSUME ParametersAssumption ==
  /\ {DECIMAL_PRECISION, NICR_PRECISION, PERCENT_DIVISOR, MIN_NET_DEBT} \subseteq Nat \ {0}
  /\ BPD_GAS_COMPENSATION \in Nat /\ INFINITE_CR \in Nat
  /\ MCR \in Nat /\ CCR \in Nat
  /\ DECIMAL_PRECISION < MCR /\ MCR < CCR
  /\ Prices \subseteq Nat \ {0}
  /\ Colls \subseteq Nat \ {0} /\ Amounts \subseteq Nat \ {0}
  /\ BorrowingRates \subseteq Nat /\ RedemptionRates \subseteq Nat

VARIABLES
  vaults,        \* Vaults: status, coll, debt and stake of every address
  snapshots,     \* rewardSnapshots: the vault's B_RBTC and B_BPDDebt
  totalStakes,
  systemSnapshot,\* totalStakesSnapshot and totalCollateralSnapshot
  B,             \* B_RBTC and B_BPDDebt, rewards per unit staked so far
  lastError,     \* lastRBTCError_ and lastBPDDebtError_Redistribution
  sortedVaults,  \* active vaults, highest nominal collateral ratio first
  activePool, defaultPool,   \* RBTC and BPDDebt of the two pools
  stabilityPool, \* totalBPDDeposits and RBTC of the Stability Pool
  surplus,       \* CollSurplusPool.balances
  surplusRBTC,   \* CollSurplusPool.RBTC
  bpd,           \* BPDToken.balances
  totalSupply,   \* BPDToken._totalSupply
  price,         \* what priceFeed.fetchPrice() returns now
  debtUnseen     \* history: a redistribution raised B_BPDDebt and left B_RBTC as it was

vmVars   == <<vaults, snapshots, totalStakes, systemSnapshot, B, lastError, sortedVaults, debtUnseen>>
poolVars == <<activePool, defaultPool, stabilityPool, surplus, surplusRBTC>>
bpdVars  == <<bpd, totalSupply>>
vars     == <<vmVars, poolVars, bpdVars, price>>

Statuses == {"nonExistent", "active", "closedByOwner", "closedByLiquidation", "closedByRedemption"}

Vault == [status : Statuses, coll : Nat, debt : Nat, stake : Nat]
Reward == [RBTC : Nat, BPDDebt : Nat]

----------------------------------------------------------------------------
\* MoneypMath and MoneypBase

Minimum(a, b) == IF a < b THEN a ELSE b

CR(coll, debt, p) == IF debt > 0 THEN (coll * p) \div debt ELSE INFINITE_CR

NominalCR(coll, debt) == IF debt > 0 THEN (coll * NICR_PRECISION) \div debt ELSE INFINITE_CR

CollGasCompensation(coll) == coll \div PERCENT_DIVISOR

CompositeDebtWithoutReserve(netDebt) == netDebt         \* mutant
CompositeDebt(netDebt) == netDebt + BPD_GAS_COMPENSATION

NetDebt(debt) == debt - BPD_GAS_COMPENSATION

EntireSystemColl == activePool.RBTC + defaultPool.RBTC

EntireSystemDebt == activePool.BPDDebt + defaultPool.BPDDebt

TCR == CR(EntireSystemColl, EntireSystemDebt, price)

RecoveryMode == TCR < CCR

Fee(rate, amount) == (rate * amount) \div DECIMAL_PRECISION

----------------------------------------------------------------------------
\* VaultManager: views of one vault

Active == {u \in Users : vaults[u].status = "active"}

PendingRBTC(u) ==
  IF u \in Active THEN (vaults[u].stake * (B.RBTC - snapshots[u].RBTC)) \div DECIMAL_PRECISION ELSE 0

PendingDebt(u) ==
  IF u \in Active THEN (vaults[u].stake * (B.BPDDebt - snapshots[u].BPDDebt)) \div DECIMAL_PRECISION ELSE 0

EntireColl(u) == vaults[u].coll + PendingRBTC(u)

EntireDebt(u) == vaults[u].debt + PendingDebt(u)

ICR(u) == CR(EntireColl(u), EntireDebt(u), price)

NICR(u) == NominalCR(EntireColl(u), EntireDebt(u))

\* Only the RBTC snapshot is compared, as in the code.
HasPendingRewards(u) == u \in Active /\ snapshots[u].RBTC < B.RBTC

\* What applyPendingRewards moves from the Default Pool to the vault.
AppliedRBTC(u) == IF HasPendingRewards(u) THEN PendingRBTC(u) ELSE 0

AppliedDebt(u) == IF HasPendingRewards(u) THEN PendingDebt(u) ELSE 0

SnapshotNotUpdated(u) == snapshots[u]                   \* mutant
SnapshotAfterApply(u) == IF HasPendingRewards(u) THEN B ELSE snapshots[u]

\* The assert of _computeNewStake.
StakeIsDefined == systemSnapshot.coll = 0 \/ systemSnapshot.stakes > 0

NewStake(coll) ==
  IF systemSnapshot.coll = 0 THEN coll
  ELSE (coll * systemSnapshot.stakes) \div systemSnapshot.coll

\* _closeVault and _removeStake, on the vault.
ClosedVaultKeepsStake(u, status) ==                     \* mutant
  [vaults[u] EXCEPT !.status = status, !.coll = 0, !.debt = 0]
ClosedVaultKeepsDebt(u, status) ==                      \* mutant
  [vaults[u] EXCEPT !.status = status, !.coll = 0, !.stake = 0]
ClosedVault(u, status) == [status |-> status, coll |-> 0, debt |-> 0, stake |-> 0]

\* Whether at most one vault is left once those of closed are closed: then
\* _requireMoreThanOneVaultInSystem lets no other go.
OneVaultLeft(closed) == Cardinality(Active \ closed) <= 1

\* totalBPDGasCompensation of the vaults in S.
GasCompensationOnce(S) == BPD_GAS_COMPENSATION          \* mutant
GasCompensation(S) == BPD_GAS_COMPENSATION * Cardinality(S)

NoReward == [RBTC |-> 0, BPDDebt |-> 0]

Sum(f, S) == SumFunctionOnSet(f, S)

PendingOf(S) ==
  [RBTC    |-> Sum([u \in Users |-> PendingRBTC(u)], S),
   BPDDebt |-> Sum([u \in Users |-> PendingDebt(u)], S)]

----------------------------------------------------------------------------
\* SortedVaults, by what it does: any position _validInsertPosition accepts.

NICRs == [v \in Users |-> NICR(v)]

Inserted(list, u, nicr) == Insertions(list, NICRs, u, nicr)

----------------------------------------------------------------------------
\* BorrowerOperations

TCRAfter(collIn, collOut, debtIn, debtOut) ==
  CR(EntireSystemColl + collIn - collOut, EntireSystemDebt + debtIn - debtOut, price)

\* openVault: collateral c is sent in, a BPD are borrowed.
OpenVault(u, c, a, rate) ==
  LET fee  == IF RecoveryMode THEN 0 ELSE Fee(rate, a)
      debt == CompositeDebt(a + fee)
      stake == NewStake(vaults[u].coll + c)
  IN
  /\ u \notin Active
  /\ a + fee >= MIN_NET_DEBT
  /\ IF RecoveryMode THEN CR(c, debt, price) >= CCR
     ELSE CR(c, debt, price) >= MCR /\ TCRAfter(c, 0, debt, 0) >= CCR
  /\ StakeIsDefined
  /\ vaults[u].stake <= totalStakes
  /\ NominalCR(c, debt) > 0
  /\ vaults' = [vaults EXCEPT ![u] =
       [status |-> "active", coll |-> @.coll + c, debt |-> @.debt + debt, stake |-> stake]]
  /\ snapshots' = [snapshots EXCEPT ![u] = B]
  /\ totalStakes' = totalStakes - vaults[u].stake + stake
  /\ sortedVaults' \in Inserted(sortedVaults, u, NominalCR(c, debt))
  /\ activePool' = [RBTC |-> activePool.RBTC + c, BPDDebt |-> activePool.BPDDebt + debt]
  /\ bpd' = [bpd EXCEPT ![u] = @ + a, ![MPStaking] = @ + fee, ![GasPool] = @ + BPD_GAS_COMPENSATION]
  /\ totalSupply' = totalSupply + a + fee + BPD_GAS_COMPENSATION
  /\ UNCHANGED <<systemSnapshot, B, lastError, debtUnseen, defaultPool, stabilityPool, surplus, surplusRBTC, price>>

\* _requireValidAdjustmentInCurrentMode
AdjustmentIgnoresTCR(collIn, collOut, debtIn, debtOut, borrows, oldICR, newICR) ==    \* mutant
  IF RecoveryMode
  THEN collOut = 0 /\ (borrows => newICR >= CCR /\ newICR >= oldICR)
  ELSE newICR >= MCR
AdjustmentIgnoresICR(collIn, collOut, debtIn, debtOut, borrows, oldICR, newICR) ==    \* mutant
  IF RecoveryMode
  THEN collOut = 0 /\ (borrows => newICR >= MCR)
  ELSE newICR >= MCR /\ TCRAfter(collIn, collOut, debtIn, debtOut) >= CCR
ValidAdjustment(collIn, collOut, debtIn, debtOut, borrows, oldICR, newICR) ==
  IF RecoveryMode
  THEN collOut = 0 /\ (borrows => newICR >= CCR /\ newICR >= oldICR)
  ELSE newICR >= MCR /\ TCRAfter(collIn, collOut, debtIn, debtOut) >= CCR

\* _adjustVault: collIn or collOut, and borrow or repay, of which at most one
\* of each pair is not 0.
Adjust(u, collIn, collOut, borrow, repay, rate) ==
  LET fee     == IF borrow > 0 /\ ~RecoveryMode THEN Fee(rate, borrow) ELSE 0
      coll    == vaults[u].coll + AppliedRBTC(u)
      debt    == vaults[u].debt + AppliedDebt(u)
      newColl == coll + collIn - collOut
      newDebt == debt + borrow + fee - repay
      stake   == NewStake(newColl)
  IN
  /\ u \in Active
  /\ collIn = 0 \/ collOut = 0
  /\ borrow = 0 \/ repay = 0
  /\ collIn + collOut + borrow + repay > 0
  /\ collOut <= coll /\ repay <= debt
  /\ AppliedRBTC(u) <= defaultPool.RBTC /\ AppliedDebt(u) <= defaultPool.BPDDebt
  /\ ValidAdjustment(collIn, collOut, borrow + fee, repay, borrow > 0,
                     CR(coll, debt, price), CR(newColl, newDebt, price))
  /\ repay > 0 => /\ NetDebt(debt) - repay >= MIN_NET_DEBT
                  /\ bpd[u] >= repay
  /\ StakeIsDefined
  /\ vaults[u].stake <= totalStakes
  /\ NominalCR(newColl, newDebt) > 0
  /\ collOut <= activePool.RBTC + AppliedRBTC(u)
  /\ repay <= activePool.BPDDebt + AppliedDebt(u)
  /\ vaults' = [vaults EXCEPT ![u] =
       [status |-> "active", coll |-> newColl, debt |-> newDebt, stake |-> stake]]
  /\ snapshots' = [snapshots EXCEPT ![u] = SnapshotAfterApply(u)]
  /\ totalStakes' = totalStakes - vaults[u].stake + stake
  /\ sortedVaults' \in Inserted(Without(sortedVaults, {u}), u, NominalCR(newColl, newDebt))
  /\ activePool' = [RBTC    |-> activePool.RBTC + AppliedRBTC(u) + collIn - collOut,
                    BPDDebt |-> activePool.BPDDebt + AppliedDebt(u) + borrow + fee - repay]
  /\ defaultPool' = [RBTC    |-> defaultPool.RBTC - AppliedRBTC(u),
                     BPDDebt |-> defaultPool.BPDDebt - AppliedDebt(u)]
  /\ bpd' = [bpd EXCEPT ![u] = @ + borrow - repay, ![MPStaking] = @ + fee]
  /\ totalSupply' = totalSupply + borrow + fee - repay
  /\ UNCHANGED <<systemSnapshot, B, lastError, debtUnseen, surplus, surplusRBTC, price>>

AddColl(u, c) == Adjust(u, c, 0, 0, 0, 0) /\ UNCHANGED stabilityPool

WithdrawColl(u, c) == Adjust(u, 0, c, 0, 0, 0) /\ UNCHANGED stabilityPool

WithdrawBPD(u, a, rate) == Adjust(u, 0, 0, a, 0, rate) /\ UNCHANGED stabilityPool

RepayBPD(u, a) == Adjust(u, 0, 0, 0, a, 0) /\ UNCHANGED stabilityPool

AdjustVault(u, collIn, collOut, borrow, repay, rate) ==
  Adjust(u, collIn, collOut, borrow, repay, rate) /\ UNCHANGED stabilityPool

\* withdrawRBTCGainToVault of the Stability Pool, which calls moveRBTCGainToVault
\* with the depositor's gain g.
MoveRBTCGainToVault(u, g) ==
  /\ g > 0 /\ g <= stabilityPool.RBTC
  /\ Adjust(u, g, 0, 0, 0, 0)
  /\ stabilityPool' = [stabilityPool EXCEPT !.RBTC = @ - g]

CloseVault(u) ==
  LET coll == vaults[u].coll + AppliedRBTC(u)
      debt == vaults[u].debt + AppliedDebt(u)
      repaid == NetDebt(debt)
  IN
  /\ u \in Active
  /\ ~RecoveryMode
  /\ AppliedRBTC(u) <= defaultPool.RBTC /\ AppliedDebt(u) <= defaultPool.BPDDebt
  /\ debt >= BPD_GAS_COMPENSATION
  /\ bpd[u] >= repaid
  /\ TCRAfter(0, coll, 0, debt) >= CCR
  /\ ~OneVaultLeft({})
  /\ bpd[GasPool] >= BPD_GAS_COMPENSATION
  /\ vaults[u].stake <= totalStakes
  /\ vaults[u].coll <= activePool.RBTC /\ vaults[u].debt <= activePool.BPDDebt
  /\ vaults' = [vaults EXCEPT ![u] = ClosedVault(u, "closedByOwner")]
  /\ snapshots' = [snapshots EXCEPT ![u] = NoReward]
  /\ totalStakes' = totalStakes - vaults[u].stake
  /\ sortedVaults' = Without(sortedVaults, {u})
  /\ activePool' = [RBTC    |-> activePool.RBTC + AppliedRBTC(u) - coll,
                    BPDDebt |-> activePool.BPDDebt + AppliedDebt(u) - debt]
  /\ defaultPool' = [RBTC    |-> defaultPool.RBTC - AppliedRBTC(u),
                     BPDDebt |-> defaultPool.BPDDebt - AppliedDebt(u)]
  /\ bpd' = [bpd EXCEPT ![u] = @ - repaid, ![GasPool] = @ - BPD_GAS_COMPENSATION]
  /\ totalSupply' = totalSupply - debt
  /\ UNCHANGED <<systemSnapshot, B, lastError, debtUnseen, stabilityPool, surplus, surplusRBTC, price>>

ClaimTwice(u) ==                                        \* mutant
  /\ surplus[u] > 0
  /\ surplus[u] <= surplusRBTC
  /\ surplusRBTC' = surplusRBTC - surplus[u]
  /\ UNCHANGED <<vmVars, activePool, defaultPool, stabilityPool, surplus, bpdVars, price>>
ClaimCollateral(u) ==
  /\ surplus[u] > 0
  /\ surplus[u] <= surplusRBTC
  /\ surplus' = [surplus EXCEPT ![u] = 0]
  /\ surplusRBTC' = surplusRBTC - surplus[u]
  /\ UNCHANGED <<vmVars, activePool, defaultPool, stabilityPool, bpdVars, price>>

----------------------------------------------------------------------------
\* VaultManager: liquidations.
\*
\* A liquidation tallies a sequence of vaults and then moves the totals.  The
\* tally is a record: which vaults it closes, what is left of the Stability
\* Pool, the running totals, and the two flags of the loop.

RecoveryTally(spBPD) ==                                 \* mutant
  [closed |-> {}, spBPD |-> spBPD, sysDebt |-> EntireSystemDebt, sysColl |-> EntireSystemColl,
   normal |-> FALSE, stop |-> FALSE, reverted |-> FALSE,
   debtOffset |-> 0, collToSP |-> 0, debtRedist |-> 0, collRedist |-> 0,
   collGas |-> 0, surplus |-> [u \in Users |-> 0]]
EmptyTally(spBPD) ==
  [closed |-> {}, spBPD |-> spBPD, sysDebt |-> EntireSystemDebt, sysColl |-> EntireSystemColl,
   normal |-> ~RecoveryMode, stop |-> FALSE, reverted |-> FALSE,
   debtOffset |-> 0, collToSP |-> 0, debtRedist |-> 0, collRedist |-> 0,
   collGas |-> 0, surplus |-> [u \in Users |-> 0]]

\* _getOffsetAndRedistributionVals.  v is the debt and collateral to liquidate.
OffsetAndRedistribution(debt, coll, spBPD) ==
  LET offset == Minimum(debt, spBPD)
      toSP   == IF spBPD > 0 THEN (coll * offset) \div debt ELSE 0
  IN [debtOffset |-> offset, collToSP |-> toSP,
      debtRedist |-> debt - offset, collRedist |-> coll - toSP,
      collGas |-> 0, surplus |-> 0]

\* A full liquidation against at most spBPD of the Stability Pool.
FullLiquidation(u, spBPD) ==
  LET gas == CollGasCompensation(EntireColl(u))
  IN [OffsetAndRedistribution(EntireDebt(u), EntireColl(u) - gas, spBPD) EXCEPT !.collGas = gas]

\* _getCappedOffsetVals: the depositors get 110% of the debt, the owner the rest.
OffsetWithoutSurplus(u) ==                              \* mutant
  LET toOffset == (EntireDebt(u) * MCR) \div price
      gas      == CollGasCompensation(toOffset)
  IN [debtOffset |-> EntireDebt(u), collToSP |-> toOffset - gas, debtRedist |-> 0,
      collRedist |-> 0, collGas |-> gas, surplus |-> 0]
CappedOffset(u) ==
  LET toOffset == (EntireDebt(u) * MCR) \div price
      gas      == CollGasCompensation(toOffset)
  IN [debtOffset |-> EntireDebt(u), collToSP |-> toOffset - gas, debtRedist |-> 0,
      collRedist |-> 0, collGas |-> gas, surplus |-> EntireColl(u) - toOffset]

\* _closeVault and _addLiquidationValuesToTotals.  Closing the last vault
\* reverts the transaction.
Tally(t, u, v) ==
  [t EXCEPT !.closed = @ \cup {u},
            !.reverted = @ \/ OneVaultLeft(t.closed),
            !.spBPD = @ - v.debtOffset,
            !.debtOffset = @ + v.debtOffset, !.collToSP = @ + v.collToSP,
            !.debtRedist = @ + v.debtRedist, !.collRedist = @ + v.collRedist,
            !.collGas = @ + v.collGas, !.surplus[u] = @ + v.surplus]

\* _liquidateRecoveryMode: the tally after it, which is t when it does nothing.
LiquidateOnlyCovered(t, u) ==                           \* mutant
  IF OneVaultLeft(t.closed) THEN t
  ELSE IF ICR(u) <= DECIMAL_PRECISION THEN Tally(t, u, FullLiquidation(u, 0))
  ELSE IF ICR(u) < CR(t.sysColl, t.sysDebt, price) /\ EntireDebt(u) <= t.spBPD
  THEN Tally(t, u, IF ICR(u) < MCR THEN FullLiquidation(u, t.spBPD) ELSE CappedOffset(u))
  ELSE t
LiquidateAsNormalMode(t, u) ==                          \* mutant
  IF OneVaultLeft(t.closed) THEN t
  ELSE IF ICR(u) < MCR THEN Tally(t, u, FullLiquidation(u, t.spBPD))
  ELSE IF ICR(u) < CR(t.sysColl, t.sysDebt, price) /\ EntireDebt(u) <= t.spBPD
  THEN Tally(t, u, CappedOffset(u))
  ELSE t
LiquidateRecoveryMode(t, u) ==
  IF OneVaultLeft(t.closed) THEN t
  ELSE CASE ICR(u) <= DECIMAL_PRECISION -> Tally(t, u, FullLiquidation(u, 0))
    [] DECIMAL_PRECISION < ICR(u) /\ ICR(u) < MCR -> Tally(t, u, FullLiquidation(u, t.spBPD))
    [] /\ ICR(u) >= MCR /\ ICR(u) < CR(t.sysColl, t.sysDebt, price)
       /\ EntireDebt(u) <= t.spBPD -> Tally(t, u, CappedOffset(u))
    [] OTHER -> t

\* The surplus a loop takes out of the system collateral it tracks: the list
\* version does, the batch version does not.
TrackedSurplus(t, r, u, batch) == IF batch THEN 0 ELSE r.surplus[u] - t.surplus[u]

\* One iteration of a liquidation loop.  The list version stops at the first
\* vault it cannot liquidate; the batch version skips it.
LiquidationStep(t, u, batch) ==
  LET r == LiquidateRecoveryMode(t, u)
      surplusOut == TrackedSurplus(t, r, u, batch)
      sysColl == t.sysColl - (r.collToSP - t.collToSP) - surplusOut
      sysDebt == t.sysDebt - (r.debtOffset - t.debtOffset)
  IN
  IF t.stop \/ u \notin Active \ t.closed THEN t
  ELSE CASE t.normal /\ ICR(u) < MCR -> Tally(t, u, FullLiquidation(u, t.spBPD))
    [] \/ t.normal /\ ICR(u) >= MCR
       \/ ~t.normal /\ ICR(u) >= MCR /\ t.spBPD = 0 -> [t EXCEPT !.stop = ~batch]
    [] OTHER -> [r EXCEPT !.sysColl = sysColl, !.sysDebt = sysDebt,
                          !.normal = CR(sysColl, sysDebt, price) >= CCR]

LiquidationTally(seq, batch) ==
  FoldLeft(LAMBDA t, u : LiquidationStep(t, u, batch), EmptyTally(stabilityPool.BPD), seq)

\* The quantities of a tally are uint256: a loop that would make one negative reverts.
TallyIsValid(t) ==
  /\ ~t.reverted
  /\ t.spBPD \in Nat /\ t.debtOffset \in Nat /\ t.collToSP \in Nat
  /\ t.debtRedist \in Nat /\ t.collRedist \in Nat /\ t.collGas \in Nat
  /\ t.surplus \in [Users -> Nat]

\* _redistributeDebtAndColl, with the stakes that remain.
RewardRoundedUp(amount, error, stakes) ==               \* mutant
  (amount * DECIMAL_PRECISION + error + stakes - 1) \div stakes
RewardPerUnit(amount, error, stakes) == (amount * DECIMAL_PRECISION + error) \div stakes

RewardError(amount, error, stakes) ==
  (amount * DECIMAL_PRECISION + error) - RewardPerUnit(amount, error, stakes) * stakes

Redistribute(debt, coll, stakes) ==
  IF debt = 0 THEN UNCHANGED <<B, lastError, debtUnseen>>
  ELSE /\ stakes > 0
       /\ B' = [RBTC    |-> B.RBTC + RewardPerUnit(coll, lastError.RBTC, stakes),
                BPDDebt |-> B.BPDDebt + RewardPerUnit(debt, lastError.BPDDebt, stakes)]
       /\ lastError' = [RBTC    |-> RewardError(coll, lastError.RBTC, stakes),
                        BPDDebt |-> RewardError(debt, lastError.BPDDebt, stakes)]
       /\ debtUnseen' = (debtUnseen \/ (B'.BPDDebt # B.BPDDebt /\ B'.RBTC = B.RBTC))

\* What follows the loop in liquidateVaults and batchLiquidateVaults: offset,
\* redistribution, surplus, system snapshots and the liquidator's compensation.  An
\* offset of 0 is none and one of all deposits renews the product; of any other the
\* product may become 0, which reverts the call: then this step is not taken.
SettleLiquidation(liquidator, t) ==
  LET closed  == t.closed \cap Active
      pending == PendingOf(closed)
      stakes  == totalStakes - Sum([u \in Users |-> vaults[u].stake], closed)
      offset  == t.debtOffset
      surplusOut == Sum(t.surplus, Users)
      gasBPD  == GasCompensation(closed)
      active  == [RBTC |-> activePool.RBTC + pending.RBTC - t.collToSP - t.collRedist
                           - surplusOut - t.collGas,
                  BPDDebt |-> activePool.BPDDebt + pending.BPDDebt - offset - t.debtRedist]
      default == [RBTC |-> defaultPool.RBTC - pending.RBTC + t.collRedist,
                  BPDDebt |-> defaultPool.BPDDebt - pending.BPDDebt + t.debtRedist]
  IN
  /\ closed # {}                                \* "nothing to liquidate"
  /\ TallyIsValid(t)
  /\ pending \in Reward /\ surplusOut \in Nat /\ stakes \in Nat
  /\ active \in Reward
  /\ pending.RBTC <= defaultPool.RBTC /\ pending.BPDDebt <= defaultPool.BPDDebt
  /\ offset <= stabilityPool.BPD
  /\ gasBPD <= bpd[GasPool]
  /\ vaults' = [u \in Users |-> IF u \in closed THEN ClosedVault(u, "closedByLiquidation") ELSE vaults[u]]
  /\ snapshots' = [u \in Users |-> IF u \in closed THEN NoReward ELSE snapshots[u]]
  /\ totalStakes' = stakes
  /\ sortedVaults' = Without(sortedVaults, closed)
  /\ Redistribute(t.debtRedist, t.collRedist, stakes)
  /\ activePool' = active
  /\ defaultPool' = default
  /\ systemSnapshot' = [stakes |-> stakes, coll |-> active.RBTC + default.RBTC]
  /\ stabilityPool' = [BPD |-> stabilityPool.BPD - offset, RBTC |-> stabilityPool.RBTC + t.collToSP]
  /\ surplus' = [u \in Users |-> surplus[u] + t.surplus[u]]
  /\ surplusRBTC' = surplusRBTC + surplusOut
  /\ bpd' = [bpd EXCEPT ![StabilityPool] = @ - offset, ![GasPool] = @ - gasBPD,
                        ![liquidator] = @ + gasBPD]
  /\ totalSupply' = totalSupply - offset
  /\ UNCHANGED price

\* batchLiquidateVaults(seq); liquidate(u) is the batch <<u>> of an active vault.
BatchLiquidateVaults(liquidator, seq) ==
  \E t \in {LiquidationTally(seq, TRUE)} : SettleLiquidation(liquidator, t)

Liquidate(liquidator, u) ==
  /\ u \in Active
  /\ BatchLiquidateVaults(liquidator, <<u>>)

\* liquidateVaults(n), from the lowest ratio upwards.  In Recovery Mode the loop
\* never reaches the vault that was first when it started.
LiquidateVaults(liquidator, n) ==
  LET upwards == Reverse(sortedVaults)
      reached == IF RecoveryMode THEN Front(upwards) ELSE upwards
  IN /\ sortedVaults # <<>>
     /\ \E t \in {LiquidationTally(SubSeq(reached, 1, Minimum(n, Len(reached))), FALSE)} :
          SettleLiquidation(liquidator, t)

----------------------------------------------------------------------------
\* VaultManager: redemptions.
\*
\* closed: vaults redeemed in full.  partial: the vault redeemed in part, if
\* any.  applied: vaults whose pending rewards the loop applied, which
\* includes one whose partial redemption was then cancelled.

EmptyRedemption(amount) ==
  [left |-> amount, closed |-> {}, partial |-> {}, applied |-> {}, lot |-> 0, rbtcLot |-> 0,
   redeemed |-> 0, drawn |-> 0, surplus |-> [u \in Users |-> 0], reverted |-> FALSE, stop |-> FALSE]

\* One iteration: _applyPendingRewards and _redeemCollateralFromVault.  hintFresh:
\* _partialRedemptionHintNICR is the ratio a partial redemption would leave.
RedemptionStep(t, u, hintFresh) ==
  LET coll == vaults[u].coll + AppliedRBTC(u)
      debt == vaults[u].debt + AppliedDebt(u)
      lot  == Minimum(t.left, NetDebt(debt))
      rbtc == (lot * DECIMAL_PRECISION) \div price
      full == debt - lot = BPD_GAS_COMPENSATION
      cancelled == ~full /\ (~hintFresh \/ NetDebt(debt - lot) < MIN_NET_DEBT)
      visited == [t EXCEPT !.applied = @ \cup {u}]
      taken == [visited EXCEPT !.left = @ - lot, !.redeemed = @ + lot, !.drawn = @ + rbtc]
  IN
  IF t.stop \/ t.left = 0 THEN t
  ELSE CASE cancelled -> [visited EXCEPT !.stop = TRUE, !.reverted = @ \/ rbtc > coll]
    [] full -> [taken EXCEPT !.closed = @ \cup {u}, !.surplus[u] = coll - rbtc,
                             !.reverted = @ \/ OneVaultLeft(t.closed)]
    [] OTHER -> [taken EXCEPT !.partial = {u}, !.lot = lot, !.rbtcLot = rbtc]

\* The vaults a redemption goes through: from the lowest ratio that is at least
\* MCR, or from a hint that passes _isValidFirstRedemptionHint, upwards.
HintAboveMCR(u) ==                                      \* mutant
  \E i \in 1..Len(sortedVaults) : sortedVaults[i] = u /\ ICR(u) >= MCR
ValidFirstHint(u) ==
  \E i \in 1..Len(sortedVaults) :
    /\ sortedVaults[i] = u
    /\ ICR(u) >= MCR
    /\ i < Len(sortedVaults) => ICR(sortedVaults[i + 1]) < MCR

RedemptionOrder(hint) ==
  LET upwards == Reverse(sortedVaults)
      starts  == {i \in 1..Len(upwards) : ICR(upwards[i]) >= MCR}
      start   == IF \E u \in hint : ValidFirstHint(u)
                 THEN CHOOSE i \in 1..Len(upwards) : upwards[i] \in hint
                 ELSE IF starts = {} THEN Len(upwards) + 1 ELSE Min(starts)
  IN SubSeq(upwards, start, Len(upwards))

RedemptionTally(amount, n, hint, hintFresh) ==
  LET order == RedemptionOrder(hint)
  IN FoldLeft(LAMBDA t, u : RedemptionStep(t, u, hintFresh), EmptyRedemption(amount),
              SubSeq(order, 1, Minimum(n, Len(order))))

\* A vault after a redemption whose tally is t.
RedeemedVault(t, u) ==
  LET coll == vaults[u].coll + AppliedRBTC(u)
      debt == vaults[u].debt + AppliedDebt(u)
      left == coll - t.rbtcLot
  IN CASE u \in t.closed -> ClosedVault(u, "closedByRedemption")
       [] u \in t.partial \ t.closed ->
            [status |-> "active", coll |-> left, debt |-> debt - t.lot, stake |-> NewStake(left)]
       [] u \in t.applied \ (t.closed \cup t.partial) ->
            [status |-> vaults[u].status, coll |-> coll, debt |-> debt, stake |-> vaults[u].stake]
       [] OTHER -> vaults[u]

\* The quantities are uint256 here too, and the loop visits active vaults only.
RedemptionIsValid(t, rate) ==
  /\ ~t.reverted
  /\ t.redeemed \in Nat /\ t.drawn \in Nat /\ t.surplus \in [Users -> Nat]
  /\ t.lot \in Nat /\ t.rbtcLot \in Nat
  /\ t.closed \cup t.partial \subseteq Active
  /\ \A u \in t.partial : /\ t.rbtcLot <= vaults[u].coll + AppliedRBTC(u)
                          /\ t.lot <= vaults[u].debt + AppliedDebt(u)
  /\ t.drawn > 0
  /\ Fee(rate, t.drawn) < t.drawn
  /\ t.partial # {} => StakeIsDefined

\* What follows the loop.  The RBTC fee goes to MPStaking and the rest of what
\* is drawn to the redeemer: both leave the Active Pool.
SettleRedemption(redeemer, t) ==
  LET closed  == t.closed
      pending == [RBTC    |-> Sum([u \in Users |-> AppliedRBTC(u)], t.applied),
                  BPDDebt |-> Sum([u \in Users |-> AppliedDebt(u)], t.applied)]
      after   == [u \in Users |-> RedeemedVault(t, u)]
      touched == closed \cup t.partial
      stakes  == totalStakes - Sum([u \in Users |-> vaults[u].stake], touched)
                             + Sum([u \in Users |-> after[u].stake], t.partial)
      surplusOut == Sum(t.surplus, Users)
      gasBPD  == GasCompensation(closed)
      active  == [RBTC    |-> activePool.RBTC + pending.RBTC - t.drawn - surplusOut,
                  BPDDebt |-> activePool.BPDDebt + pending.BPDDebt - t.redeemed - gasBPD]
  IN
  /\ pending \in Reward /\ surplusOut \in Nat /\ stakes \in Nat
  /\ active \in Reward
  /\ pending.RBTC <= defaultPool.RBTC /\ pending.BPDDebt <= defaultPool.BPDDebt
  /\ t.redeemed <= bpd[redeemer] /\ gasBPD <= bpd[GasPool]
  /\ vaults' = after
  /\ snapshots' = [u \in Users |->
       IF u \in closed THEN NoReward ELSE IF u \in t.applied THEN SnapshotAfterApply(u) ELSE snapshots[u]]
  /\ totalStakes' = stakes
  /\ IF t.partial = {} THEN sortedVaults' = Without(sortedVaults, closed)
     ELSE \E u \in t.partial : \E newNICR \in {NominalCR(after[u].coll, after[u].debt)} :
            /\ newNICR > 0
            /\ sortedVaults' \in Inserted(Without(sortedVaults, touched), u, newNICR)
  /\ activePool' = active
  /\ defaultPool' = [RBTC    |-> defaultPool.RBTC - pending.RBTC,
                     BPDDebt |-> defaultPool.BPDDebt - pending.BPDDebt]
  /\ surplus' = [u \in Users |-> surplus[u] + t.surplus[u]]
  /\ surplusRBTC' = surplusRBTC + surplusOut
  /\ bpd' = [bpd EXCEPT ![redeemer] = @ - t.redeemed, ![GasPool] = @ - gasBPD]
  /\ totalSupply' = totalSupply - t.redeemed - gasBPD
  /\ UNCHANGED <<systemSnapshot, B, lastError, debtUnseen, stabilityPool, price>>

\* redeemCollateral, at most n iterations.
RedeemCollateral(redeemer, amount, n, hint, hintFresh, rate) ==
  /\ TCR >= MCR
  /\ amount > 0 /\ bpd[redeemer] >= amount
  /\ bpd[redeemer] <= EntireSystemDebt           \* an assert of the code
  /\ \E t \in {RedemptionTally(amount, n, hint, hintFresh)} :
       RedemptionIsValid(t, rate) /\ SettleRedemption(redeemer, t)

----------------------------------------------------------------------------
\* What other contracts do to this state.

\* BPDToken.transfer between users.
Transfer(from, to, amount) ==
  /\ from # to /\ amount > 0 /\ amount <= bpd[from]
  /\ bpd' = [bpd EXCEPT ![from] = @ - amount, ![to] = @ + amount]
  /\ UNCHANGED <<vmVars, poolVars, totalSupply, price>>

\* MPStaking pays the borrowing fees it holds to a staker (MPStaking.tla has the shares).
PayOutFees(to) ==
  /\ bpd[MPStaking] > 0
  /\ bpd' = [bpd EXCEPT ![MPStaking] = 0, ![to] = @ + bpd[MPStaking]]
  /\ UNCHANGED <<vmVars, poolVars, totalSupply, price>>

\* The lowest vault of the list, as _requireNoUnderCollateralizedVaults reads it.
LowestVaultIsSafe == sortedVaults # <<>> => ICR(Last(sortedVaults)) >= MCR

\* provideToSP, and the gain g it pays out first.
ProvideToSP(u, amount, g) ==
  /\ amount > 0 /\ amount <= bpd[u]
  /\ g <= stabilityPool.RBTC
  /\ bpd' = [bpd EXCEPT ![u] = @ - amount, ![StabilityPool] = @ + amount]
  /\ stabilityPool' = [BPD |-> stabilityPool.BPD + amount, RBTC |-> stabilityPool.RBTC - g]
  /\ UNCHANGED <<vmVars, activePool, defaultPool, surplus, surplusRBTC, totalSupply, price>>

WithdrawFromSPUncounted(u, amount, g) ==                 \* mutant
  /\ amount <= bpd[StabilityPool] /\ g <= stabilityPool.RBTC
  /\ bpd' = [bpd EXCEPT ![u] = @ + amount, ![StabilityPool] = @ - amount]
  /\ stabilityPool' = [stabilityPool EXCEPT !.RBTC = @ - g]
  /\ UNCHANGED <<vmVars, activePool, defaultPool, surplus, surplusRBTC, totalSupply, price>>
\* withdrawFromSP: amount is what the depositor's compounded deposit allows.
WithdrawFromSP(u, amount, g) ==
  /\ amount > 0 => LowestVaultIsSafe
  /\ amount <= stabilityPool.BPD /\ g <= stabilityPool.RBTC
  /\ amount + g > 0
  /\ bpd' = [bpd EXCEPT ![u] = @ + amount, ![StabilityPool] = @ - amount]
  /\ stabilityPool' = [BPD |-> stabilityPool.BPD - amount, RBTC |-> stabilityPool.RBTC - g]
  /\ UNCHANGED <<vmVars, activePool, defaultPool, surplus, surplusRBTC, totalSupply, price>>

\* The oracles move: the next fetchPrice returns another price.
PriceMoves(p) ==
  /\ p # price
  /\ price' = p
  /\ UNCHANGED <<vmVars, poolVars, bpdVars>>

----------------------------------------------------------------------------
Init ==
  /\ vaults = [u \in Users |-> [status |-> "nonExistent", coll |-> 0, debt |-> 0, stake |-> 0]]
  /\ snapshots = [u \in Users |-> NoReward]
  /\ totalStakes = 0
  /\ systemSnapshot = [stakes |-> 0, coll |-> 0]
  /\ B = NoReward /\ lastError = NoReward /\ debtUnseen = FALSE
  /\ sortedVaults = <<>>
  /\ activePool = NoReward /\ defaultPool = NoReward
  /\ stabilityPool = [BPD |-> 0, RBTC |-> 0]
  /\ surplus = [u \in Users |-> 0] /\ surplusRBTC = 0
  /\ bpd = [a \in Accounts |-> 0] /\ totalSupply = 0
  /\ price \in Prices

BorrowerOperation(u) ==
  \/ \E c \in Colls, a \in Amounts, r \in BorrowingRates : OpenVault(u, c, a, r)
  \/ \E c \in Colls : AddColl(u, c) \/ WithdrawColl(u, c)
  \/ \E a \in Amounts, r \in BorrowingRates : WithdrawBPD(u, a, r)
  \/ \E a \in Amounts : RepayBPD(u, a)
  \/ \E c \in Colls, a \in Amounts, r \in BorrowingRates :
       \/ AdjustVault(u, c, 0, a, 0, r) \/ AdjustVault(u, c, 0, 0, a, r)
       \/ AdjustVault(u, 0, c, a, 0, r) \/ AdjustVault(u, 0, c, 0, a, r)
  \/ CloseVault(u)

Liquidation(u) ==
  \/ \E v \in Users : Liquidate(u, v)
  \/ \E v, w \in Users : BatchLiquidateVaults(u, <<v, w>>)
  \/ \E n \in 1..Cardinality(Users) : LiquidateVaults(u, n)

Redemption(u) ==
  \E a \in Amounts, n \in 1..Cardinality(Users), hint \in {{}} \cup {{v} : v \in Users},
     hintFresh \in BOOLEAN, r \in RedemptionRates :
    RedeemCollateral(u, a, n, hint, hintFresh, r)

StabilityPoolOperation(u) ==
  \E g \in {0, stabilityPool.RBTC} :
    \/ \E a \in Amounts : ProvideToSP(u, a, g) \/ WithdrawFromSP(u, a, g)
    \/ WithdrawFromSP(u, 0, g)
    \/ MoveRBTCGainToVault(u, g)

Next ==
  \/ \E u \in Users : \/ BorrowerOperation(u) \/ ClaimCollateral(u)
                      \/ Liquidation(u) \/ Redemption(u) \/ StabilityPoolOperation(u)
                      \/ PayOutFees(u) \/ \E v \in Users : Transfer(u, v, bpd[u])
  \/ \E p \in Prices : PriceMoves(p)

Spec == Init /\ [][Next]_vars

----------------------------------------------------------------------------
\* Properties

\* Every quantity stays a natural number: no subtraction of the code goes below zero.
TypeOK ==
  /\ vaults \in [Users -> Vault]
  /\ snapshots \in [Users -> Reward]
  /\ totalStakes \in Nat
  /\ systemSnapshot \in [stakes : Nat, coll : Nat]
  /\ B \in Reward /\ lastError \in Reward /\ debtUnseen \in BOOLEAN
  /\ activePool \in Reward /\ defaultPool \in Reward
  /\ stabilityPool \in [BPD : Nat, RBTC : Nat]
  /\ surplus \in [Users -> Nat] /\ surplusRBTC \in Nat
  /\ bpd \in [Accounts -> Nat] /\ totalSupply \in Nat
  /\ price \in Prices

\* Every BPD in existence is owed by some vault: what BPDToken minted and not
\* burnt is what the Active and the Default Pool record as debt.
SupplyIsDebt == totalSupply = activePool.BPDDebt + defaultPool.BPDDebt

\* The Gas Pool holds the compensation of every active vault and nothing else,
\* however vaults were closed: by their owner, liquidation or redemption.
GasPoolCoversVaults == bpd[GasPool] = BPD_GAS_COMPENSATION * Cardinality(Active)

\* The Stability Pool's BPD balance is what it counts as deposits.
PoolHoldsDeposits == bpd[StabilityPool] = stabilityPool.BPD

\* The Active Pool records exactly the collateral and debt of the active
\* vaults without their pending rewards, after any mix of operations.
ActivePoolIsVaults ==
  /\ activePool.RBTC = Sum([u \in Users |-> vaults[u].coll], Users)
  /\ activePool.BPDDebt = Sum([u \in Users |-> vaults[u].debt], Users)

\* The Default Pool can pay what every vault may still claim of past
\* redistributions: rounding never promises more than was moved there.  For the
\* debt, as long as each redistribution so far is one that hasPendingRewards can
\* see: it compares the RBTC snapshot only, so that a vault adjusted after one
\* which raised only B_BPDDebt gets a new stake and keeps its old snapshot.
DefaultPoolCoversPending ==
  /\ PendingOf(Users).RBTC <= defaultPool.RBTC
  /\ ~debtUnseen => PendingOf(Users).BPDDebt <= defaultPool.BPDDebt

\* totalStakes is the sum of the stakes through every recomputation.
TotalStakesIsSum == totalStakes = Sum([u \in Users |-> vaults[u].stake], Users)

\* The CollSurplusPool holds what it owes to former owners.
SurplusIsBacked == surplusRBTC = Sum(surplus, Users)

\* The liquidation of u leaves some of the deposits, and the pool has a say in it.
TakesPartOfDeposits(u) ==
  ~(RecoveryMode /\ ICR(u) <= DECIMAL_PRECISION) /\ EntireDebt(u) < stabilityPool.BPD

\* An undercollateralised vault can always be liquidated while another vault
\* remains, whose debt is redistributed or empties the Stability Pool: no require,
\* assert or underflow of the managers and pools reverts, as long as the Default
\* Pool covers the pending debt.  Where deposits are left the pool's product may
\* still refuse (assert(newP > 0) in StabilityPool.sol).
UnsafeCanBeLiquidated ==
  \A u \in Active : /\ ICR(u) < MCR /\ Cardinality(Active) > 1
                   /\ PendingOf(Users).BPDDebt <= defaultPool.BPDDebt
                   /\ ~TakesPartOfDeposits(u)
                   => ENABLED Liquidate(u, u)

\* A borrower's transaction never takes the system into Recovery Mode.
BorrowersKeepNormalMode ==
  [][price' = price /\ ~RecoveryMode /\ RecoveryMode' => ~\E u \in Users : BorrowerOperation(u)]_vars

\* In Recovery Mode a borrower's transaction never lowers the TCR, but for the unit by
\* which a division rounds (an adjustment may keep the rounded ratio of its vault).
BorrowersKeepTCR ==
  [][price' = price /\ RecoveryMode /\ TCR' < TCR - 1 => ~\E u \in Users : BorrowerOperation(u)]_vars

\* Outside Recovery Mode only vaults below MCR are liquidated.
SafeVaultsAreKept ==
  [][~RecoveryMode => \A u \in Active : vaults'[u].status = "closedByLiquidation" => ICR(u) < MCR]_vars

\* The TCR once the liquidations of tally t are settled.
TCRAfterTally(t) ==
  CR(EntireSystemColl - t.collToSP - Sum(t.surplus, Users), EntireSystemDebt - t.debtOffset, price)

\* The last vault of the batch seq is liquidated although it is above MCR, and is
\* not below the TCR that the liquidations before it leave.
LiquidatedAboveTCR(seq) ==
  \E t \in {LiquidationTally(Front(seq), TRUE)} :
    /\ ICR(Last(seq)) >= MCR
    /\ Last(seq) \in LiquidationTally(seq, TRUE).closed \ t.closed
    /\ ICR(Last(seq)) >= TCRAfterTally(t)

\* batchLiquidateVaults in Recovery Mode only takes a vault that is at or above MCR
\* when it is below the TCR, "accounting for the preceding liquidations in the current
\* sequence" (VaultManager.sol:400).
BatchStaysBelowTCR ==
  RecoveryMode => \A u, v \in Active : ~LiquidatedAboveTCR(<<u, v>>)

\* No vault of the list has less collateral for its debt than one after it, before
\* any rounding.  A vault is inserted by its rounded nominal ratio, and rewards round
\* too, so vaults whose ratios all but agree may be out of this order.
ListIsOrdered ==
  \A i, j \in 1..Len(sortedVaults) : i <= j =>
    EntireColl(sortedVaults[j]) * EntireDebt(sortedVaults[i])
      <= EntireColl(sortedVaults[i]) * EntireDebt(sortedVaults[j])

\* Redemptions take vaults at or above MCR, lowest ratio first, whatever hint is
\* given: one that stays untouched and could have been taken is not below one that
\* was closed ("Vaults are redeemed in ascending order", README.md:171).
RedeemsLowestFirst ==
  [][ListIsOrdered => \A u, v \in Active :
       /\ vaults'[u].status = "closedByRedemption"
       /\ vaults'[v] = vaults[v]
       => ICR(u) >= MCR /\ (ICR(v) >= MCR => NICR(v) >= NICR(u))]_vars

\* In Recovery Mode depositors never absorb a vault that is under water: what a
\* liquidation burns of their deposits comes back as collateral of that value, but
\* for the gas compensation and a unit of rounding per vault.
DepositorsAreCompensated ==
  [][LET debt == stabilityPool.BPD - stabilityPool'.BPD
         coll == stabilityPool'.RBTC - stabilityPool.RBTC
     IN RecoveryMode /\ debt > 0 /\ (\E u, v \in Users : Liquidate(u, v))
        => CR(coll + 1, debt, price) >= DECIMAL_PRECISION - DECIMAL_PRECISION \div PERCENT_DIVISOR]_vars

\* The sorted list holds the active vaults, each once.
ListIsActive ==
  /\ Range(sortedVaults) = Active
  /\ Len(sortedVaults) = Cardinality(Active)
=============================================================================
