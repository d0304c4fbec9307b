--------------------------- MODULE MCVaultSystem ---------------------------
(***************************************************************************)
(* VaultSystem for TLC: a behaviour is of one of the given scenarios.  Its *)
(* first Setup transactions open vaults, those that follow are of the      *)
(* scenario's families, with the collaterals and prices of the scenario.   *)
(***************************************************************************)
EXTENDS VaultSystem, TLC

CONSTANTS
  Setup,       \* how many transactions open the vaults of the scenario first
  ScenarioNames
VARIABLES
  scenario,    \* the scenario of this behaviour
  txs          \* transactions so far

\* The bounds: the collaterals of the first vaults, the prices, the families of
\* transactions and their number, the first Setup ones included.
Scenario == [
  liquidation |-> [colls |-> {3450, 3875, 4020}, prices |-> {10000, 7000, 5600},
                   families |-> {"liquidate", "pool"}, maxTx |-> 7],
  batch       |-> [colls |-> {3450, 3875, 4020}, prices |-> {10000, 7000},
                   families |-> {"pool"}, maxTx |-> 8],
  borrowing   |-> [colls |-> {3100, 9000}, prices |-> {10000, 6800},
                   families |-> {"liquidate", "borrow"}, maxTx |-> 6],
  redemption  |-> [colls |-> {3100, 3600, 9000}, prices |-> {10000, 6800},
                   families |-> {"redeem", "transfer"}, maxTx |-> 7]]
Bounds == Scenario[scenario]

MCInit == Init /\ scenario \in ScenarioNames /\ txs = 0

SetupStep ==
  \E u \in Users, c \in Bounds.colls, a \in Amounts, r \in BorrowingRates : OpenVault(u, c, a, r)

ScenarioStep ==
  \/ \E u \in Users :
       \/ "borrow" \in Bounds.families /\ BorrowerOperation(u)
       \/ "liquidate" \in Bounds.families /\ Liquidation(u)
       \/ "redeem" \in Bounds.families /\ (Redemption(u) \/ ClaimCollateral(u))
       \/ "pool" \in Bounds.families /\ StabilityPoolOperation(u)
       \/ "transfer" \in Bounds.families /\ (PayOutFees(u) \/ \E v \in Users : Transfer(u, v, bpd[u]))
  \/ \E p \in Bounds.prices : PriceMoves(p)

MCNext ==
  /\ txs < Bounds.maxTx /\ txs' = txs + 1 /\ UNCHANGED scenario
  /\ IF txs < Setup THEN SetupStep ELSE ScenarioStep

MCSpec == MCInit /\ [][MCNext]_<<vars, scenario, txs>>

Symmetric == Permutations(Users)
=============================================================================
