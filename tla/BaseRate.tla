------------------------------ MODULE BaseRate ------------------------------
(***************************************************************************)
(* The base rate of VaultManager.sol: raised by redemptions, decayed by the *)
(* whole minutes that have passed since the last fee operation, and the    *)
(* rates of the redemption and borrowing fees.  _decPow of MoneypMath.sol. *)
(*                                                                         *)
(* Rates are integers in units of 1/DECIMAL_PRECISION.                     *)
(***************************************************************************)
EXTENDS Integers, BlockTime

CONSTANTS
  DECIMAL_PRECISION, SECONDS_IN_ONE_MINUTE, MINUTE_DECAY_FACTOR,
  REDEMPTION_FEE_FLOOR, BORROWING_FEE_FLOOR, MAX_BORROWING_FEE, BETA,
  MinutesIn1000Years,  \* the cap of _decPow's exponent
  Price                \* BPD of one RBTC, in units of 1/DECIMAL_PRECISION

ASSUME BaseRateAssumption ==
  /\ {DECIMAL_PRECISION, SECONDS_IN_ONE_MINUTE, BETA, Price} \subseteq Nat \ {0}
  /\ {MINUTE_DECAY_FACTOR, REDEMPTION_FEE_FLOOR} \subseteq 0..DECIMAL_PRECISION
  /\ MAX_BORROWING_FEE \in 0..DECIMAL_PRECISION
  /\ BORROWING_FEE_FLOOR \in 0..MAX_BORROWING_FEE
  /\ MinutesIn1000Years \in Nat \ {0}

VARIABLES baseRate, lastFeeOperationTime

rateVars == <<baseRate, lastFeeOperationTime>>

Lesser(m, n) == IF m < n THEN m ELSE n

DecMul(x, y) == (x * y + DECIMAL_PRECISION \div 2) \div DECIMAL_PRECISION

\* x^n * y, by squaring, each product rounded.
PowerTimes[n \in Nat \ {0}] ==
  [x \in Nat |-> [y \in Nat |->
     IF n = 1 THEN DecMul(x, y)
     ELSE PowerTimes[n \div 2][DecMul(x, x)][IF n % 2 = 0 THEN y ELSE DecMul(x, y)]]]

DecPow(base, minutes) ==
  IF minutes = 0 THEN DECIMAL_PRECISION
  ELSE PowerTimes[Lesser(minutes, MinutesIn1000Years)][base][DECIMAL_PRECISION]

MinutesPassed == (timestamp - lastFeeOperationTime) \div SECONDS_IN_ONE_MINUTE

DecayedBaseRate ==
  (baseRate * DecPow(MINUTE_DECAY_FACTOR, MinutesPassed)) \div DECIMAL_PRECISION

\* drawn is the RBTC drawn by a redemption, supply the BPD before it.
BaseRateAfterRedemption(drawn, supply) ==
  Lesser(DecayedBaseRate + (((drawn * Price) \div supply) \div BETA), DECIMAL_PRECISION)

LastFeeOpTimeNow == timestamp                           \* mutant
LastFeeOpTimeAfter ==
  IF timestamp - lastFeeOperationTime >= SECONDS_IN_ONE_MINUTE
  THEN timestamp ELSE lastFeeOperationTime

RedemptionRate(rate) == Lesser(REDEMPTION_FEE_FLOOR + rate, DECIMAL_PRECISION)

BorrowingRate(rate) == Lesser(BORROWING_FEE_FLOOR + rate, MAX_BORROWING_FEE)

RedemptionFee(rate, drawn) == (RedemptionRate(rate) * drawn) \div DECIMAL_PRECISION

BorrowingFee(rate, amount) == (BorrowingRate(rate) * amount) \div DECIMAL_PRECISION

----------------------------------------------------------------------------
InitBaseRate ==
  /\ baseRate = 0 /\ lastFeeOperationTime = 0
  /\ timestamp = SECONDS_IN_ONE_MINUTE   \* deployed long after time 0

DecayBaseRateFromBorrowing ==
  /\ baseRate' = DecayedBaseRate
  /\ lastFeeOperationTime' = LastFeeOpTimeAfter

\* A failing assert reverts the redemption.
UpdateBaseRateFromRedemption(drawn, supply) ==
  /\ BaseRateAfterRedemption(drawn, supply) > 0
  /\ baseRate' = BaseRateAfterRedemption(drawn, supply)
  /\ lastFeeOperationTime' = LastFeeOpTimeAfter
=============================================================================
