----------------------------- MODULE MPStaking -----------------------------
(***************************************************************************)
(* MPStaking.sol: the stakers of MP share the fees in RBTC and BPD through *)
(* the running sums F_RBTC and F_BPD per unit staked.  A fee that arrives  *)
(* while nothing is staked is distributed to nobody and stays in the       *)
(* contract.                                                               *)
(***************************************************************************)
EXTENDS Integers, FiniteSets, Functions

CONSTANTS
  Stakers,
  Precision,     \* DECIMAL_PRECISION
  MPOwned,       \* the MP each staker owns, staked or not
  StakeAmounts

ASSUME MPStakingAssumption ==
  /\ IsFiniteSet(Stakers) /\ Precision \in Nat \ {0}
  /\ MPOwned \in Nat /\ StakeAmounts \subseteq Nat

VARIABLES
  stakes, totalMPStaked,
  F,             \* F_RBTC and F_BPD
  snapshots,     \* F when the staker's gains were last paid
  balance        \* RBTC and BPD held by the contract

stakingVars == <<stakes, totalMPStaked, F, snapshots, balance>>

NoFees == [RBTC |-> 0, BPD |-> 0]

PendingGain(u, asset) ==
  (stakes[u] * (F[asset] - snapshots[u][asset])) \div Precision

InitStaking ==
  /\ stakes = [u \in Stakers |-> 0] /\ totalMPStaked = 0
  /\ F = NoFees /\ snapshots = [u \in Stakers |-> NoFees] /\ balance = NoFees

\* Both calls pay the caller's gains; a newcomer's are zero.
PayGains(u) ==
  /\ balance' = [asset \in {"RBTC", "BPD"} |-> balance[asset] - PendingGain(u, asset)]
  /\ \A asset \in {"RBTC", "BPD"} : PendingGain(u, asset) <= balance[asset]

UpdateNoSnapshot(u) == snapshots' = snapshots           \* mutant
UpdateUserSnapshots(u) == snapshots' = [snapshots EXCEPT ![u] = F]

Stake(u, amount) ==
  /\ 0 < amount /\ amount <= MPOwned - stakes[u]
  /\ PayGains(u)
  /\ UpdateUserSnapshots(u)
  /\ stakes' = [stakes EXCEPT ![u] = @ + amount]
  /\ totalMPStaked' = totalMPStaked + amount
  /\ UNCHANGED F

Withdrawn(u, amount) == IF amount < stakes[u] THEN amount ELSE stakes[u]

\* More than the stake withdraws it all; 0 only pays the gains.
Unstake(u, amount) ==
  /\ stakes[u] > 0
  /\ PayGains(u)
  /\ UpdateUserSnapshots(u)
  /\ stakes' = [stakes EXCEPT ![u] = @ - Withdrawn(u, amount)]
  /\ totalMPStaked' = totalMPStaked - Withdrawn(u, amount)
  /\ UNCHANGED F

\* increaseF_RBTC or increaseF_BPD, and the fee's transfer or mint.
ReceiveFee(asset, fee) ==
  /\ F' = [F EXCEPT ![asset] = @ + IF totalMPStaked = 0 THEN 0
                                   ELSE (fee * Precision) \div totalMPStaked]
  /\ balance' = [balance EXCEPT ![asset] = @ + fee]
  /\ UNCHANGED <<stakes, totalMPStaked, snapshots>>

\* Whatever the order of fees, stakes and claims, and however their divisions
\* round, the contract can pay every staker: the fees of a staker who leaves or
\* comes late are not paid out of the others' (MPStaking.sol, F_RBTC and F_BPD).
GainsAreBacked ==
  \A asset \in {"RBTC", "BPD"} :
    SumFunction([u \in Stakers |-> PendingGain(u, asset)]) <= balance[asset]
=============================================================================
