--------------------------- MODULE ContractEvents ---------------------------
(***************************************************************************)
(* The contracts as an indexer sees them: the events that each kind of     *)
(* transaction emits, in their order, and the state that the indexer's     *)
(* calls read at the end of a block.  A block is built transaction by      *)
(* transaction, then sealed while its events are handled.                  *)
(*                                                                         *)
(* Amounts are a few units: a redistribution gives every other vault one   *)
(* unit of collateral and of debt, an offset takes one unit from every     *)
(* deposit, a capped liquidation or a closing redemption leaves one unit   *)
(* of surplus.                                                             *)
(***************************************************************************)
EXTENDS Integers, Sequences, FiniteSets, SequencesExt

CONSTANTS
  Users,
  Prices,          \* what fetchPrice may return
  Positions,       \* collateral and debt, <<coll, debt>>, of a vault opened or adjusted
  MaxCalls         \* bound of the model on the number of transactions

ASSUME ContractEventsAssumption ==
  Positions \subseteq (Nat \ {0}) \X (Nat \ {0}) /\ MaxCalls \in Nat

VARIABLES
  price,
  vaults,          \* collateral, debt and reward snapshot; no collateral: not active
  redistributed,   \* redistributions so far: B_RBTC and B_BPDDebt
  deposits,        \* initial value, loss and gain since, of a Stability Pool deposit
  surplus,         \* CollSurplusPool balances
  transactions,    \* how many there were
  log,             \* the events of this block that are not handled yet
  sealed           \* the block is complete, its events are being handled

chainVars == <<price, vaults, redistributed, deposits, surplus, transactions, log, sealed>>

NoVault == [coll |-> 0, debt |-> 0, snapshot |-> 0]
NoDeposit == [initial |-> 0, loss |-> 0, gain |-> 0]

Active == {u \in Users : vaults[u].coll > 0}

InitChain ==
  /\ price \in Prices
  /\ vaults = [u \in Users |-> NoVault] /\ redistributed = 0
  /\ deposits = [u \in Users |-> NoDeposit] /\ surplus = [u \in Users |-> 0]
  /\ transactions = 0 /\ log = <<>> /\ sealed = FALSE

VaultUpdated(u, op, v) ==
  [name |-> "VaultUpdated", user |-> u, op |-> op, coll |-> v.coll, debt |-> v.debt]
VaultLiquidated(u, op, coll, debt) ==
  [name |-> "VaultLiquidated", user |-> u, op |-> op, coll |-> coll, debt |-> debt]
UserDepositChanged(u, amount) == [name |-> "UserDepositChanged", user |-> u, amount |-> amount]
RBTCGainWithdrawn(u, gain, loss) ==
  [name |-> "RBTCGainWithdrawn", user |-> u, gain |-> gain, loss |-> loss]
CollBalanceUpdated(u, amount) == [name |-> "CollBalanceUpdated", user |-> u, amount |-> amount]

\* One more transaction of the block under construction.
Emit(events) ==
  /\ ~sealed /\ transactions < MaxCalls
  /\ transactions' = transactions + 1
  /\ log' = log \o [i \in 1..Len(events) |-> [tx |-> transactions + 1, event |-> events[i]]]
  /\ UNCHANGED <<price, sealed>>

\* The vault with its pending rewards, and the event of _applyPendingRewards.
Accrued(u) ==
  LET reward == redistributed - vaults[u].snapshot
  IN [coll |-> vaults[u].coll + reward, debt |-> vaults[u].debt + reward, snapshot |-> redistributed]
AccrueEvents(u) ==
  IF vaults[u].snapshot < redistributed THEN <<VaultUpdated(u, "accrueRewards", Accrued(u))>> ELSE <<>>

OpenVault(u, p) ==
  LET v == [coll |-> p[1], debt |-> p[2], snapshot |-> redistributed]
  IN /\ u \notin Active
     /\ vaults' = [vaults EXCEPT ![u] = v]
     /\ Emit(<<VaultUpdated(u, "openVault", v)>>)
     /\ UNCHANGED <<redistributed, deposits, surplus>>

\* _requireNonZeroAdjustment: something changes.
AdjustVault(u, p) ==
  LET v == [coll |-> p[1], debt |-> p[2], snapshot |-> redistributed]
  IN /\ u \in Active /\ v # Accrued(u)
     /\ vaults' = [vaults EXCEPT ![u] = v]
     /\ Emit(AccrueEvents(u) \o <<VaultUpdated(u, "adjustVault", v)>>)
     /\ UNCHANGED <<redistributed, deposits, surplus>>

CloseVault(u) ==
  /\ u \in Active /\ Active # {u}
  /\ vaults' = [vaults EXCEPT ![u] = NoVault]
  /\ Emit(AccrueEvents(u) \o <<VaultUpdated(u, "closeVault", NoVault)>>)
  /\ UNCHANGED <<redistributed, deposits, surplus>>

\* Each depositor with something left loses a unit of BPD and gains one of RBTC.
OffsetDeposits ==
  [u \in Users |-> IF deposits[u].loss < deposits[u].initial
                   THEN [deposits[u] EXCEPT !.loss = @ + 1, !.gain = @ + 1] ELSE deposits[u]]

\* liquidate, liquidateVaults and batchLiquidateVaults, the vaults of us in this order:
\* by redistribution, by offset, or by offset with the surplus left to the owner.
LiquidationOp(kind) == IF kind = "capped" THEN "liquidateInRecoveryMode" ELSE "liquidateInNormalMode"
LiquidationEvents(kind, u) ==
  (IF kind = "capped" THEN <<CollBalanceUpdated(u, surplus[u] + 1)>> ELSE <<>>)
  \o <<VaultLiquidated(u, LiquidationOp(kind),
                       Accrued(u).coll - (IF kind = "capped" THEN 1 ELSE 0), Accrued(u).debt),
       VaultUpdated(u, LiquidationOp(kind), NoVault)>>
Liquidate(kind, us) ==
  LET closed == ToSet(us)
  IN /\ closed \subseteq Active /\ closed # Active
     /\ kind # "redistributed" => OffsetDeposits # deposits
     /\ vaults' = [u \in Users |-> IF u \in closed THEN NoVault ELSE vaults[u]]
     /\ redistributed' = IF kind = "redistributed" THEN redistributed + 1 ELSE redistributed
     /\ deposits' = IF kind = "redistributed" THEN deposits ELSE OffsetDeposits
     /\ surplus' = [u \in Users |-> IF kind = "capped" /\ u \in closed THEN surplus[u] + 1 ELSE surplus[u]]
     /\ Emit(FlattenSeq([i \in 1..Len(us) |-> LiquidationEvents(kind, us[i])])
             \o <<[name |-> "Liquidation"]>>)

\* redeemCollateral from the vaults of us in this order: all are closed but the last,
\* which is closed, redeemed from, or left after its rewards were applied.
PartlyRedeemed(v) == [v EXCEPT !.coll = @ - 1, !.debt = @ - 1]
RedemptionEvents(u, end) ==
  AccrueEvents(u) \o
  (CASE end = "closed"    -> <<CollBalanceUpdated(u, surplus[u] + 1),
                               VaultUpdated(u, "redeemCollateral", NoVault)>>
     [] end = "partial"   -> <<VaultUpdated(u, "redeemCollateral", PartlyRedeemed(Accrued(u)))>>
     [] end = "cancelled" -> <<>>)
Redeem(us, end) ==
  LET last == Last(us)
      closed == IF end = "closed" THEN ToSet(us) ELSE ToSet(us) \ {last}
  IN /\ ToSet(us) \subseteq Active /\ closed # Active
     /\ end = "cancelled" => Len(us) > 1
     /\ end = "partial" => vaults[last].coll > 1 /\ vaults[last].debt > 1
     /\ vaults' = [u \in Users |->
          CASE u \in closed -> NoVault
            [] u = last /\ end = "partial" -> PartlyRedeemed(Accrued(u))
            [] u = last /\ end = "cancelled" -> Accrued(u)
            [] OTHER -> vaults[u]]
     /\ surplus' = [u \in Users |-> IF u \in closed THEN surplus[u] + 1 ELSE surplus[u]]
     /\ Emit(FlattenSeq([i \in 1..Len(us) |->
                           RedemptionEvents(us[i], IF us[i] = last THEN end ELSE "closed")])
             \o <<[name |-> "Redemption"]>>)
     /\ UNCHANGED <<redistributed, deposits>>

ClaimCollateral(u) ==
  /\ surplus[u] > 0
  /\ surplus' = [surplus EXCEPT ![u] = 0]
  /\ Emit(<<CollBalanceUpdated(u, 0)>>)
  /\ UNCHANGED <<vaults, redistributed, deposits>>

\* provideToSP and withdrawFromSP: the new deposit is announced before the gain and
\* the loss that the old one had made.
Compounded(u) == deposits[u].initial - deposits[u].loss
SetDeposit(u, amount) ==
  /\ deposits' = [deposits EXCEPT ![u] = [NoDeposit EXCEPT !.initial = amount]]
  /\ Emit(<<UserDepositChanged(u, amount), RBTCGainWithdrawn(u, deposits[u].gain, deposits[u].loss)>>)
  /\ UNCHANGED <<vaults, redistributed, surplus>>
ProvideToSP(u) == SetDeposit(u, Compounded(u) + 2)
WithdrawFromSP(u) == deposits[u].initial > 0 /\ \E amount \in {0, Compounded(u)} : SetDeposit(u, amount)

\* The gain and the loss come first here, and the gain goes to the vault.
WithdrawRBTCGainToVault(u) ==
  LET v == [Accrued(u) EXCEPT !.coll = @ + deposits[u].gain]
  IN /\ u \in Active /\ deposits[u].gain > 0
     /\ deposits' = [deposits EXCEPT ![u] = [NoDeposit EXCEPT !.initial = Compounded(u)]]
     /\ vaults' = [vaults EXCEPT ![u] = v]
     /\ Emit(<<RBTCGainWithdrawn(u, deposits[u].gain, deposits[u].loss),
               UserDepositChanged(u, Compounded(u))>>
             \o AccrueEvents(u) \o <<VaultUpdated(u, "adjustVault", v)>>)
     /\ UNCHANGED <<redistributed, surplus>>

PriceMoves(p) ==
  /\ ~sealed /\ p # price
  /\ price' = p
  /\ UNCHANGED <<vaults, redistributed, deposits, surplus, transactions, log, sealed>>

Seal ==
  /\ ~sealed /\ log # <<>>
  /\ sealed' = TRUE
  /\ UNCHANGED <<price, vaults, redistributed, deposits, surplus, transactions, log>>

\* One or two vaults of one call.
Batches == {<<u>> : u \in Users} \cup {us \in Users \X Users : us[1] # us[2]}

ChainStep ==
  \/ \E u \in Users :
       \/ \E p \in Positions : OpenVault(u, p) \/ AdjustVault(u, p)
       \/ CloseVault(u)
       \/ ClaimCollateral(u)
       \/ ProvideToSP(u) \/ WithdrawFromSP(u) \/ WithdrawRBTCGainToVault(u)
  \/ \E us \in Batches :
       \/ \E kind \in {"redistributed", "offset", "capped"} : Liquidate(kind, us)
       \/ \E end \in {"closed", "partial", "cancelled"} : Redeem(us, end)
  \/ \E p \in Prices : PriceMoves(p)
  \/ Seal
=============================================================================
