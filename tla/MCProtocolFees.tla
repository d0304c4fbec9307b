--------------------------- MODULE MCProtocolFees ---------------------------
(***************************************************************************)
(* What the protocol pays out in the course of time, under one clock: fees *)
(* to those who stake MP, and MP to those who stake liquidity tokens.  A   *)
(* behaviour exercises one of the two, with at most MaxCalls calls of the  *)
(* fees or until MaxLPTime; the last redemption is remembered to measure   *)
(* the decay of its rate.                                                  *)
(***************************************************************************)
EXTENDS ProtocolFees, RskSwapPool, TLC

CONSTANTS MaxCalls,      \* bound on the number of calls
          MaxLPTime      \* bound on the time of behaviours of the liquidity pool
VARIABLES scenario,
          calls,
          redeemed       \* base rate and time of the last redemption

MCInit ==
  /\ Init /\ InitPool
  /\ scenario \in {"fees", "liquidity"}
  /\ calls = 0 /\ redeemed = [rate |-> 0, at |-> timestamp]

Redemption == \E drawn \in Drawn, supply \in Supplies :
  Redeem(drawn, supply) /\ redeemed' = [rate |-> baseRate', at |-> timestamp]

OtherCall ==
  /\ \/ \E amount \in Borrowings : Borrow(amount)
     \/ StakeMP
     \/ UnstakeMP
  /\ UNCHANGED redeemed

FeeCall ==
  /\ scenario = "fees"
  /\ calls < MaxCalls /\ calls' = calls + 1
  /\ Redemption \/ OtherCall
  /\ UNCHANGED poolVars

LiquidityCall ==
  /\ scenario = "liquidity"
  /\ PoolCall
  /\ UNCHANGED <<rateVars, stakingVars, calls, redeemed>>

TimePasses ==
  /\ scenario = "liquidity" => timestamp < MaxLPTime
  /\ Pass /\ Tick
  /\ UNCHANGED <<calls, redeemed>>

MCNext == (FeeCall \/ LiquidityCall \/ TimePasses) /\ UNCHANGED scenario

MCSpec == MCInit /\ [][MCNext]_<<vars, poolVars, scenario, calls, redeemed>>

Symmetric == Permutations(Stakers) \cup Permutations(Providers)

\* However often somebody borrows, the rate a redemption left decays at half
\* its speed or faster: a fee operation discards less than one minute of the
\* time that has passed, and only when a whole one has
\* (_updateLastFeeOpTime, "prevents base rate griefing").
DecayKeepsPace ==
  LET minutes == (timestamp - redeemed.at) \div SECONDS_IN_ONE_MINUTE
  IN DecayedBaseRate <=
       (redeemed.rate * DecPow(MINUTE_DECAY_FACTOR, minutes \div 2)) \div DECIMAL_PRECISION
=============================================================================
