---------------------------- MODULE RskSwapPool ----------------------------
(***************************************************************************)
(* RskSwapPool.sol: stakers of liquidity tokens share a fixed amount of    *)
(* MP, paid at a constant rate while somebody stakes.  While nobody does   *)
(* the clock stops: the next stake or claim moves the end of the period.   *)
(* The functions of the contract are operators on its storage, `pool`, so  *)
(* that withdrawAndClaim is the two calls one after the other.             *)
(***************************************************************************)
EXTENDS Integers, FiniteSets, FiniteSetsExt, BlockTime

CONSTANTS
  Providers,     \* of liquidity, who stake its tokens
  TokenUnit,     \* 1e18
  Reward,        \* getLpRewardsEntitlement(), minted to the pool beforehand
  Duration,
  LPOwned,       \* the liquidity tokens each provider owns, staked or not
  LPAmounts

ASSUME RskSwapPoolAssumption ==
  /\ IsFiniteSet(Providers) /\ TokenUnit \in Nat \ {0}
  /\ Reward \in Nat \ {0} /\ Duration \in Nat \ {0}
  /\ LPOwned \in Nat /\ LPAmounts \subseteq Nat

VARIABLES
  pool,          \* the contract's storage
  isSet,         \* setParams has set the tokens and renounced ownership
  mpBalance,     \* MP held by the contract
  stakedTime     \* history: the time during which somebody staked

poolVars == <<pool, isSet, mpBalance, stakedTime>>

-----------------------------------------------------------------------------
(* The functions, on a storage p. *)

LastTimeRewardApplicable(p) ==
  IF timestamp < p.periodFinish THEN timestamp ELSE p.periodFinish

RewardPerToken(p) ==
  IF p.totalSupply = 0 THEN p.rewardPerTokenStored
  ELSE p.rewardPerTokenStored
         + ((LastTimeRewardApplicable(p) - p.lastUpdateTime) * p.rewardRate * TokenUnit)
             \div p.totalSupply

Earned(p, u) ==
  (p.balances[u] * (RewardPerToken(p) - p.paid[u])) \div TokenUnit + p.rewards[u]

NoExtension(p) == p                                     \* mutant
RestartedPeriod(p) ==                                   \* mutant
  IF p.totalSupply = 0 THEN [p EXCEPT !.periodFinish = timestamp + Duration] ELSE p
UpdatePeriodFinish(p) ==
  IF p.totalSupply = 0
  THEN [p EXCEPT !.periodFinish = @ + (timestamp - p.lastUpdateTime)]
  ELSE p

UpdateReward(p) ==
  [p EXCEPT !.rewardPerTokenStored = RewardPerToken(p),
            !.lastUpdateTime = LastTimeRewardApplicable(p)]

UpdateOfAccountOnly(p, u) ==                            \* mutant
  [p EXCEPT !.rewards[u] = Earned(p, u), !.paid[u] = RewardPerToken(p)]
UpdateAccountReward(p, u) ==
  LET q == UpdateReward(p)
  IN [q EXCEPT !.rewards[u] = Earned(q, u), !.paid[u] = q.rewardPerTokenStored]

AddStake(p, u, amount) ==
  [p EXCEPT !.totalSupply = @ + amount, !.balances[u] = @ + amount]

AfterWithdrawal(p, u, amount) ==
  [UpdateAccountReward(p, u) EXCEPT !.totalSupply = @ - amount, !.balances[u] = @ - amount]

\* What stake and claimReward begin with.
Refreshed(p, u) == UpdateAccountReward(UpdatePeriodFinish(p), u)

-----------------------------------------------------------------------------
InitPool ==
  /\ pool = [totalSupply |-> 0, balances |-> [u \in Providers |-> 0],
             periodFinish |-> 0, rewardRate |-> 0,
             lastUpdateTime |-> 0, rewardPerTokenStored |-> 0,
             paid |-> [u \in Providers |-> 0], rewards |-> [u \in Providers |-> 0]]
  /\ isSet = FALSE
  /\ mpBalance = Reward
  /\ timestamp \in Nat \ {0}
  /\ stakedTime = 0

\* With _notifyRewardAmount; the owner calls it once and is no longer owner.
SetParams ==
  /\ ~isSet
  /\ pool.periodFinish = 0 /\ mpBalance = Reward          \* asserted
  /\ pool' = [UpdateReward(pool) EXCEPT !.rewardRate = Reward \div Duration,
                                        !.lastUpdateTime = timestamp,
                                        !.periodFinish = timestamp + Duration]
  /\ isSet' = TRUE
  /\ UNCHANGED <<mpBalance, timestamp, stakedTime>>

StakeLP(u, amount) ==
  /\ isSet
  /\ 0 < amount /\ amount <= LPOwned - pool.balances[u]
  /\ pool' = AddStake(Refreshed(pool, u), u, amount)
  /\ UNCHANGED <<isSet, mpBalance, timestamp, stakedTime>>

WithdrawLP(u, amount) ==
  /\ isSet
  /\ 0 < amount /\ amount <= pool.totalSupply /\ amount <= pool.balances[u]
  /\ pool' = AfterWithdrawal(pool, u, amount)
  /\ UNCHANGED <<isSet, mpBalance, timestamp, stakedTime>>

\* claimReward on storage p; the transfer fails when the pool cannot pay.
Claim(p, u) ==
  LET q == Refreshed(p, u)
      reward == Earned(q, u)
  IN /\ 0 < reward /\ reward <= mpBalance
     /\ pool' = [q EXCEPT !.rewards[u] = 0]
     /\ mpBalance' = mpBalance - reward
     /\ UNCHANGED <<isSet, timestamp, stakedTime>>

ClaimReward(u) == isSet /\ Claim(pool, u)

WithdrawAndClaim(u) ==
  /\ isSet
  /\ 0 < pool.balances[u] /\ pool.balances[u] <= pool.totalSupply
  /\ Claim(AfterWithdrawal(pool, u, pool.balances[u]), u)

\* A second passes between blocks.
Tick ==
  /\ timestamp < MaxTime
  /\ timestamp' = timestamp + 1
  /\ stakedTime' = IF pool.totalSupply = 0 THEN stakedTime ELSE stakedTime + 1
  /\ UNCHANGED <<pool, isSet, mpBalance>>

PoolCall ==
  \/ SetParams
  \/ \E u \in Providers, amount \in LPAmounts : StakeLP(u, amount) \/ WithdrawLP(u, amount)
  \/ \E u \in Providers : ClaimReward(u) \/ WithdrawAndClaim(u)

PoolNext == PoolCall \/ Tick

PoolSpec == InitPool /\ [][PoolNext]_<<poolVars, timestamp>>

-----------------------------------------------------------------------------
\* The contract's storage as declared.
Storage ==
  [totalSupply : Nat, balances : [Providers -> Nat], periodFinish : Nat, rewardRate : Nat,
   lastUpdateTime : Nat, rewardPerTokenStored : Nat,
   paid : [Providers -> Nat], rewards : [Providers -> Nat]]

\* Every number is unsigned: no call takes more than there is.
TypeOK ==
  /\ pool \in Storage
  /\ isSet \in BOOLEAN
  /\ mpBalance \in Nat /\ timestamp \in Nat \ {0} /\ stakedTime \in Nat

\* The part of the period that is still to be paid: up to now while somebody
\* stakes, up to the last update while nobody does.
Remaining ==
  pool.periodFinish - IF pool.totalSupply = 0 THEN pool.lastUpdateTime
                      ELSE LastTimeRewardApplicable(pool)

\* "If at some point the total amount of staked tokens is zero, the clock will
\* be stopped" (RskSwapPool.sol:67): through every gap, claim and exit the part
\* of the period still to be paid is the duration less the time somebody staked.
ClockStopsWhileEmpty ==
  isSet => Remaining = IF stakedTime < Duration THEN Duration - stakedTime ELSE 0

\* The checked subtractions of rewardPerToken, earned and _updatePeriodFinish do
\* not fail, in any order of calls: a failure would lock every stake and reward,
\* since each call of the contract makes them first.
UpdatesNeverRevert ==
  /\ pool.lastUpdateTime <= timestamp
  /\ isSet => pool.lastUpdateTime <= LastTimeRewardApplicable(pool)
  /\ \A u \in Providers : pool.paid[u] <= RewardPerToken(pool)

AllEarned == SumFunction([u \in Providers |-> Earned(pool, u)])

\* When time passes, an update loses less than the supply in units of 1/TokenUnit,
\* and the share of each account less than a unit.
Dust ==
  (Reward % Duration) + stakedTime * Cardinality(Providers)
    + (stakedTime * (LPOwned * Cardinality(Providers))) \div TokenUnit

\* The MP minted to the pool pays what everyone has earned and the rest of the
\* period at its rate, wherever the end has been moved; and but for the dust of
\* divisions it holds nothing else, so gaps without stakes leave none behind ("in
\* order to avoid getting MP tokens locked", RskSwapPool.sol:69).
BalanceIsOwed ==
  isSet => LET owed == AllEarned + Remaining * pool.rewardRate
           IN owed <= mpBalance /\ mpBalance <= owed + Dust

\* Whatever the others stake, withdraw or claim, what a staker has earned falls
\* only when it is paid out to him.
EarnedIsKeptOrPaid ==
  [][\A u \in Providers :
       Earned(pool, u)' < Earned(pool, u)
         => pool'.rewards[u] = 0 /\ mpBalance' = mpBalance - Earned(pool, u)]_<<poolVars, timestamp>>
=============================================================================
