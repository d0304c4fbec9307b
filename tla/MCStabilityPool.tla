-------------------------- MODULE MCStabilityPool --------------------------
(***************************************************************************)
(* StabilityPool for TLC: behaviours of at most MaxCalls calls, after one  *)
(* front end has registered.  DECIMAL_PRECISION is below the amounts, as   *)
(* 1e18 is below amounts in wei, and SCALE_FACTOR and Billion are its      *)
(* square root.                                                            *)
(***************************************************************************)
EXTENDS StabilityPool, TLC

CONSTANT MaxCalls      \* bound on the number of calls
VARIABLE calls

MCInit == Init /\ calls = 0

FirstCall == \E f \in Addresses, k \in KickbackRates : RegisterFrontEnd(f, k)

MCNext ==
  /\ calls < MaxCalls /\ calls' = calls + 1
  /\ IF calls = 0 THEN FirstCall ELSE Next

MCSpec == MCInit /\ [][MCNext]_<<vars, calls>>

Symmetric == Permutations(Addresses)
=============================================================================
