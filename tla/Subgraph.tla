------------------------------ MODULE Subgraph ------------------------------
(***************************************************************************)
(* The indexer behind the SDK's queries: its handlers turn the events of a *)
(* sealed block, one after another, into entities.  All of them share one  *)
(* record of counters, the temporary entities of a liquidation and of a    *)
(* redemption, and the users' current vaults and deposits, while calls to  *)
(* the contracts see the state at the end of the block.                    *)
(*                                                                         *)
(* Entities that are only written are represented by the changes that the  *)
(* last handler saved.  The totals of a SystemState are left out, its      *)
(* place in the sequence and its price are kept.                           *)
(***************************************************************************)
EXTENDS ContractEvents

CONSTANT InitialPrice   \* DECIMAL_INITIAL_PRICE

VARIABLE index
indexVars == <<chainVars, index>>

Null == 0
NoIndexedVault == [saved |-> FALSE, coll |-> 0, debt |-> 0, snapshot |-> 0]
NewUser == [vaultCount |-> 0, currentVault |-> Null, vault |-> NoIndexedVault,
            hasDeposit |-> FALSE, deposited |-> 0, collSurplus |-> 0]

InitIndex ==
  /\ InitChain
  /\ index = [
       states      |-> 0,             \* systemStateCount; the current one is the last
       price       |-> InitialPrice,  \* of the current SystemState
       changes     |-> 0,             \* changeCount
       transaction |-> Null,          \* last Transaction saved; the older ones are not asked for again
       liquidation |-> Null,          \* currentLiquidation, by the transaction it was created for
       redemption  |-> Null,
       open        |-> 0,             \* numberOfOpenVaults
       users       |-> [u \in Users |-> NewUser],
       written     |-> <<>>,          \* the changes saved by the last handler
       failed      |-> FALSE]

-----------------------------------------------------------------------------
(* Transactions, changes and system states. *)

WithSystemState(x) == IF x.states = 0 THEN [x EXCEPT !.states = 1] ELSE x
CurrentSystemState(x) == x.states - 1
BumpSystemState(x) == [x EXCEPT !.states = @ + 1]

\* initChange, the new system state that the change leads to, finishChange.
Recorded(x, number, details) ==
  LET before == WithSystemState(x)
      after == BumpSystemState(before)
      change == [sequenceNumber |-> number, transaction |-> x.transaction,
                 before |-> CurrentSystemState(before), after |-> CurrentSystemState(after),
                 price |-> x.price, kind |-> details.kind,
                 liquidation |-> details.liquidation, redemption |-> details.redemption]
  IN [after EXCEPT !.written = Append(@, change)]

\* The call of fetchPrice; beginChange finds the transaction that asked for it.
CheckPrice(x) ==
  IF x.price = price THEN WithSystemState(x)
  ELSE Recorded([x EXCEPT !.price = price, !.changes = @ + 1], x.changes,
                [liquidation |-> Null, redemption |-> Null, kind |-> "price"])

GetTransaction(x, tx) ==
  IF x.transaction = tx THEN x ELSE CheckPrice([x EXCEPT !.transaction = tx])

\* The number taken before the transaction is looked up.
NumberFirst(x, tx) ==
  [number |-> x.changes, index |-> GetTransaction([x EXCEPT !.changes = @ + 1], tx)]

\* The number of the change, and the index after it was taken.
BeginChange(x, tx) ==
  LET known == GetTransaction(x, tx)
  IN [number |-> known.changes, index |-> [known EXCEPT !.changes = @ + 1]]

SaveChange(x, tx, details) ==
  LET begun == BeginChange(x, tx) IN Recorded(begun.index, begun.number, details)

-----------------------------------------------------------------------------
(* Vaults. *)

Liquidations == {"liquidateInNormalMode", "liquidateInRecoveryMode"}
IsRedemption(op) == op = "redeemCollateral"

\* A vault that is opened is saved by its caller, or not at all.
GetCurrentVaultOfOwner(x, u) ==
  IF x.users[u].currentVault # Null THEN x
  ELSE [x EXCEPT !.users[u].vaultCount = @ + 1,
                 !.users[u].currentVault = x.users[u].vaultCount + 1,
                 !.users[u].vault = NoIndexedVault,
                 !.open = @ + 1]

\* The entity that the changes of a liquidation refer to is created by the first of them.
GetCurrentLiquidation(x, tx) == [x EXCEPT !.liquidation = IF @ = Null THEN tx ELSE @]
GetCurrentRedemption(x, tx) == [x EXCEPT !.redemption = IF @ = Null THEN tx ELSE @]

\* Only the collateral is compared.
SameCollateral(vault, coll, debt) == vault.coll = coll

Unchanged(vault, coll, debt) == vault.coll = coll /\ vault.debt = debt

CloseCurrentVaultOfOwner(x, u) == [x EXCEPT !.users[u].currentVault = Null, !.open = @ - 1]

SavedVault(x, u, op, coll, debt, snapshot) ==
  LET saved == [x EXCEPT !.users[u].vault = [saved |-> TRUE, coll |-> coll, debt |-> debt,
                                             snapshot |-> snapshot]]
  IN IF coll = 0 THEN CloseCurrentVaultOfOwner(saved, u) ELSE saved

\* A current vault that was never saved is loaded as null, which ends the indexing.
UpdateVault(x, tx, op, u, coll, debt, snapshot) ==
  LET phantom == x.users[u].currentVault # Null /\ ~x.users[u].vault.saved
      got == GetCurrentVaultOfOwner(x, u)
      begun == BeginChange(got, tx)
      refers == IF op \in Liquidations THEN GetCurrentLiquidation(begun.index, tx)
                ELSE IF IsRedemption(op) THEN GetCurrentRedemption(begun.index, tx)
                ELSE begun.index
      details == [kind |-> "vault",
                  liquidation |-> IF op \in Liquidations THEN refers.liquidation ELSE Null,
                  redemption |-> IF IsRedemption(op) THEN refers.redemption ELSE Null]
  IN IF phantom THEN [x EXCEPT !.failed = TRUE]
     ELSE IF Unchanged(got.users[u].vault, coll, debt) THEN got
     ELSE SavedVault(Recorded(refers, begun.number, details), u, op, coll, debt, snapshot)

-----------------------------------------------------------------------------
(* Deposits and surplus. *)

PlainChange(kind) == [liquidation |-> Null, redemption |-> Null, kind |-> kind]

DepositSet(x, tx, u, amount) ==
  [SaveChange(x, tx, PlainChange("deposit")) EXCEPT
     !.users[u].deposited = amount, !.users[u].hasDeposit = (amount # 0)]

UpdateStabilityDeposit(x, tx, u, amount) ==
  IF amount = (IF x.users[u].hasDeposit THEN x.users[u].deposited ELSE 0) THEN x
  ELSE DepositSet(x, tx, u, amount)

\* A deposit that was closed is null here, which ends the indexing.
WithdrawCollateralGain(x, tx, u, gain, loss) ==
  IF gain = 0 /\ loss = 0 THEN x
  ELSE IF ~x.users[u].hasDeposit THEN [x EXCEPT !.failed = TRUE]
  ELSE DepositSet(x, tx, u, x.users[u].deposited - loss)

UpdateUserClaimColl(x, tx, u, amount) ==
  IF x.users[u].collSurplus = amount THEN x
  ELSE [SaveChange(x, tx, PlainChange("surplus")) EXCEPT !.users[u].collSurplus = amount]

-----------------------------------------------------------------------------
(* Handlers, one per event. *)

\* The next event of the block is of this name and gives the index x.
Handles(name, x) ==
  /\ sealed /\ ~index.failed /\ Head(log).event.name = name
  /\ index' = x
  /\ log' = Tail(log)
  /\ sealed' = (x.failed \/ Len(log) > 1)
  /\ UNCHANGED <<price, vaults, redistributed, deposits, surplus, transactions>>

nextEvent == Head(log).event
nextTx == Head(log).tx
resumed == [index EXCEPT !.written = <<>>]

\* The snapshot is read from the contract, at the end of the block.
HandleVaultUpdated ==
  Handles("VaultUpdated",
    UpdateVault(resumed, nextTx, nextEvent.op, nextEvent.user, nextEvent.coll, nextEvent.debt,
                vaults[nextEvent.user].snapshot))

HandleVaultLiquidated ==
  Handles("VaultLiquidated",
    LET accrued == UpdateVault(resumed, nextTx, "accrueRewards", nextEvent.user, nextEvent.coll,
                               nextEvent.debt, 0)
    IN IF accrued.failed THEN accrued
       ELSE UpdateVault(accrued, nextTx, nextEvent.op, nextEvent.user, 0, 0, 0))

\* The redemption is saved but stays the current one.
FinishWithoutReset(x) == GetCurrentRedemption(x, nextTx)

FinishCurrentLiquidation(x) == [GetCurrentLiquidation(x, nextTx) EXCEPT !.liquidation = Null]
FinishCurrentRedemption(x) == [GetCurrentRedemption(x, nextTx) EXCEPT !.redemption = Null]

\* getCurrentLiquidation and getCurrentRedemption look the transaction up for a new entity.
HandleLiquidation ==
  Handles("Liquidation",
    FinishCurrentLiquidation(IF index.liquidation = Null THEN GetTransaction(resumed, nextTx) ELSE resumed))
HandleRedemption ==
  Handles("Redemption",
    FinishCurrentRedemption(IF index.redemption = Null THEN GetTransaction(resumed, nextTx) ELSE resumed))

HandleUserDepositChanged ==
  Handles("UserDepositChanged",
    UpdateStabilityDeposit(resumed, nextTx, nextEvent.user, nextEvent.amount))

HandleRBTCGainWithdrawn ==
  Handles("RBTCGainWithdrawn",
    WithdrawCollateralGain(resumed, nextTx, nextEvent.user, nextEvent.gain, nextEvent.loss))

HandleCollSurplusBalanceUpdated ==
  Handles("CollBalanceUpdated",
    UpdateUserClaimColl(resumed, nextTx, nextEvent.user, nextEvent.amount))

IndexNext ==
  \/ ChainStep /\ UNCHANGED index
  \/ HandleVaultUpdated \/ HandleVaultLiquidated
  \/ HandleLiquidation \/ HandleRedemption
  \/ HandleUserDepositChanged \/ HandleRBTCGainWithdrawn
  \/ HandleCollSurplusBalanceUpdated

IndexSpec == InitIndex /\ [][IndexNext]_indexVars

-----------------------------------------------------------------------------
(* Changes are sorted by their sequence number, across and within transactions. *)

\* Sorted by sequence number, the changes are the steps from each system state to the next:
\* a handler's first change starts at the state where the last one before it ended, and
\* each one after that where the previous one ended, although the first may have a price
\* change saved in its middle.  Their price is the one the feed gives for the block.
ChangesAreChained ==
  [][ \A i \in 1..Len(index'.written) :
        LET change == index'.written[i]
        IN /\ change.sequenceNumber = index.changes + i - 1
           /\ change.before = CurrentSystemState(WithSystemState(index)) + i - 1
           /\ change.after = change.before + 1
           /\ change.price = price
           /\ index'.changes = index.changes + Len(index'.written) ]_index

\* What schema.graphql says of currentLiquidation and currentRedemption: they are null in
\* queries, which see whole blocks.  A change refers to the liquidation or redemption of
\* its own transaction, never to one that an earlier transaction left behind.
TemporariesAreCleared ==
  /\ ~sealed => index.liquidation = Null /\ index.redemption = Null
  /\ \A i \in 1..Len(index.written) :
       LET change == index.written[i]
       IN /\ change.liquidation \in {Null, change.transaction}
          /\ change.redemption \in {Null, change.transaction}

\* Between blocks the index holds what the contracts hold: the collateral, debt and reward
\* snapshot of every active vault, from which the SDK computes pending rewards, no open
\* vault of anyone else, and every owner's surplus.
IndexMatchesContracts ==
  log = <<>> /\ ~index.failed => \A u \in Users :
    LET user == index.users[u]
        open == user.currentVault # Null /\ user.vault.saved
    IN /\ user.collSurplus = surplus[u]
       /\ open <=> u \in Active
       /\ open => /\ user.vault.coll = vaults[u].coll /\ user.vault.debt = vaults[u].debt
                  /\ user.vault.snapshot = vaults[u].snapshot

\* What ReadableMoneyp.ts says of getNumberOfVaults, which the SDK's subgraph client answers
\* with numberOfOpenVaults: it is the number of vaults that are currently open.
OpenVaultsAreCounted ==
  log = <<>> /\ ~index.failed => index.open = Cardinality(Active)
=============================================================================
