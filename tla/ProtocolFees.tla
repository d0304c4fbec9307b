---------------------------- MODULE ProtocolFees ----------------------------
(***************************************************************************)
(* The fees of borrowing (BorrowerOperations._triggerBorrowingFee) and of  *)
(* redemption (the end of VaultManager.redeemCollateral): the base rate    *)
(* that sets them and the staking contract that receives them.             *)
(*                                                                         *)
(* The amount borrowed, the RBTC drawn and the BPD supply are inputs here; *)
(* VaultSystem models the vaults they come from.  The percentage that the  *)
(* caller accepts is left out: it only lets the caller refuse.             *)
(***************************************************************************)
EXTENDS BaseRate, MPStaking

CONSTANTS
  Borrowings,    \* BPD borrowed in normal mode
  Drawn,         \* RBTC drawn by redemptions
  Supplies       \* BPD in circulation before a redemption

ASSUME ProtocolFeesAssumption ==
  /\ Precision = DECIMAL_PRECISION
  /\ Borrowings \subseteq Nat /\ Drawn \subseteq Nat /\ Supplies \subseteq Nat \ {0}

vars == <<rateVars, timestamp, stakingVars>>

Init == InitBaseRate /\ InitStaking

\* The fee is that of the decayed rate.
Borrow(amount) ==
  /\ DecayBaseRateFromBorrowing
  /\ ReceiveFee("BPD", BorrowingFee(DecayedBaseRate, amount))
  /\ UNCHANGED timestamp

\* The redeemer can draw some RBTC, for less BPD than there is, and keeps some.
CanRedeem(drawn, supply) ==
  /\ drawn > 0 /\ (drawn * Price) \div DECIMAL_PRECISION <= supply
  /\ RedemptionFee(BaseRateAfterRedemption(drawn, supply), drawn) < drawn

\* The fee is that of the rate this redemption has raised.
Redeem(drawn, supply) ==
  /\ CanRedeem(drawn, supply)
  /\ UpdateBaseRateFromRedemption(drawn, supply)
  /\ ReceiveFee("RBTC", RedemptionFee(BaseRateAfterRedemption(drawn, supply), drawn))
  /\ UNCHANGED timestamp

StakeMP == \E u \in Stakers, amount \in StakeAmounts :
             Stake(u, amount) /\ UNCHANGED <<rateVars, timestamp>>

UnstakeMP == \E u \in Stakers, amount \in StakeAmounts :
               Unstake(u, amount) /\ UNCHANGED <<rateVars, timestamp>>

Pass ==
  /\ timestamp < MaxTime
  /\ timestamp' = timestamp + 1
  /\ UNCHANGED <<rateVars, stakingVars>>

Next ==
  \/ \E amount \in Borrowings : Borrow(amount)
  \/ \E drawn \in Drawn, supply \in Supplies : Redeem(drawn, supply)
  \/ StakeMP
  \/ UnstakeMP
  \/ Pass

Spec == Init /\ [][Next]_vars
=============================================================================
