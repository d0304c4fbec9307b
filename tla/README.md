# Money Protocol: TLA+ specifications

Money Protocol is a decentralised borrowing protocol on RSK. A borrower locks
RBTC in a *vault* and draws BPD, a token worth one US dollar, against it. This
project models the protocol's contracts (`src/packages/contracts/contracts`) in
TLA+, and four programs around them that run concurrently with the chain: the
part of the SDK that follows the contracts' state over an asynchronous provider
(`lib-base`, `lib-ethers`, `providers`), the indexer that turns their events
into entities (`subgraph`), the script that deploys them
(`contracts/mainnetDeployment`) and the transactions of the web page
(`dev-frontend`). TLC checks the models, and TLAPS proves some of their
properties. Paths below are those of the repository, seen as `src/`; contract
names without a path are files of `src/packages/contracts/contracts`, and
package names are directories of `src/packages`.

    tlc -config vault_system.cfg MCVaultSystem     # a run
    tlapm StabilityPoolProofs.tla                  # a module of proofs

## 1. Inventory

### Components, their state and their operations

| Component | State | Operations |
|---|---|---|
| `BorrowerOperations.sol` | none of its own | open, adjust (five entry points) and close a vault, claim a surplus, move a depositor's gain to its vault |
| `VaultManager.sol` | `Vaults` (status, collateral, debt, stake, array index), `rewardSnapshots`, `totalStakes`, the two snapshots of the last liquidation, `B_RBTC`, `B_BPDDebt` and their errors, `VaultOwners`, `baseRate`, `lastFeeOperationTime` | `liquidate`, `liquidateVaults`, `batchLiquidateVaults`, `redeemCollateral`; calls reserved to `BorrowerOperations` |
| `ActivePool`, `DefaultPool`, `CollSurplusPool`, `GasPool` | RBTC and BPD debt, surplus per owner | moves, only by the two contracts above and the Stability Pool |
| `BPDToken.sol` | balances, supply | `mint`, `burn`, `sendToPool`, `returnFromPool`, `transfer` |
| `SortedVaults.sol` | doubly linked list: head, tail, size, nodes | `insert`, `remove`, `reInsert`, with hints |
| `StabilityPool.sol` | deposits, front ends, their stakes and snapshots, `P`, scale, epoch, `S`, `G`, three errors, totals | `provideToSP`, `withdrawFromSP`, `withdrawRBTCGainToVault`, `registerFrontEnd`, `offset` |
| `MP/CommunityIssuance.sol` | MP issued so far | `issueMP`, `sendMP` |
| `MP/MPStaking.sol` | stakes, `F_RBTC`, `F_BPD`, snapshots | `stake`, `unstake`, the two fee increases |
| `PriceFeed.sol` | `lastGoodPrice` | `fetchPrice`, from one oracle or the other |
| `LPRewards/RskSwapPool.sol` | stakes, reward per token with the time it was updated, end of the period, each staker's rewards | `setParams`, `stake`, `withdraw`, `claimReward`, `withdrawAndClaim` |
| `MP/MPToken.sol`, `LockupContract*.sol` | balances, unlock times | transfers, withdrawal |
| `lib-base` `MoneypStore`, `lib-ethers` `BlockPolledMoneypStore` | last loaded state, timers, listeners | start, stop, fetch, load, update |
| `providers` | batch of pending calls, web socket, retry timers | calls, reconnection |
| `subgraph` | counters, the current liquidation and redemption, users with their current vault and deposit, system states, changes | one handler per event, with calls to the contracts as they are at the end of the block |
| `contracts/mainnetDeployment`, `contracts/utils/mainnetDeploymentHelpers.js` | the output file, its copy in memory, the place in the script | deploy and save, connect, run again |
| `dev-frontend` `Transaction.tsx`, `Vault`, `Staking`, `CollateralSurplusAction.tsx` | one shared transaction state with its monitor and timer, the view and the editor of the vault, pending flags | buttons, wallet answers, receipts, timers, updates of the store |
| hints, getters, proxy scripts, SDK types, examples, fuzzer, gas tests | none or derived | views, formatting, tools |

### How they interact

A transaction runs alone: contracts call one another synchronously, and a failing
`require` or `assert`, or a SafeMath underflow, undoes everything. The
interleaving is between transactions of different actors, and between a
transaction and whatever was computed from an older state (hints, snapshots,
stakes scaled by an old snapshot, a base rate with an old time). A borrower's
call goes `BorrowerOperations` -> `VaultManager` (stake, rewards, array) ->
`SortedVaults` -> pools -> `BPDToken`. A liquidation goes `VaultManager` ->
`StabilityPool.offset` for what deposits absorb, and to the Default Pool for
what is redistributed to the other vaults, which claim it lazily. Redemption
burns BPD, closes the lowest vaults or reduces one, raises the base rate and
sends its fee to `MPStaking`. Outside the contracts everything is asynchronous.
The SDK polls the chain; the indexer handles a block's events after the whole
block was executed; the deployment script waits for its transactions and may die
while it waits; the web page sends a transaction, waits for its receipt, and
hears of its effect a second time from the SDK's store, in either order.

### What is hard, and what makes each part correct

* **Accounting across contracts.** The same debt is recorded in vaults, in the
  pools, in the token supply and in the Gas Pool, and a dozen paths move it:
  `SupplyIsDebt`, `ActivePoolIsVaults`, `GasPoolCoversVaults`,
  `PoolHoldsDeposits`, `SurplusIsBacked`, `TotalStakesIsSum`.
* **Lazy shares with integer division.** Redistributed rewards, compounded
  deposits, MP and staking gains are computed from sums and snapshots; every
  division rounds. What is promised must be covered by what is held:
  `DefaultPoolCoversPending`, `PoolCoversDeposits`, `PoolCoversRBTCGains`,
  `IssuanceCoversMPGains`, `GainsAreBacked`.
* **Modes.** Recovery Mode has other rules, entered by price or by
  transactions, and a sequence of liquidations may leave it on the way:
  `BorrowersKeepNormalMode`, `BorrowersKeepTCR`, `SafeVaultsAreKept`,
  `BatchStaysBelowTCR`, `DepositorsAreCompensated`.
* **Availability.** An assert or an underflow on the way blocks a call that must be
  possible: `UnsafeCanBeLiquidated`, `DepositsCanBeWithdrawn`.
* **Stale inputs.** Hints to the list and to redemptions, ratios that change
  without the list being touched: `WellFormed`, `ImplementsVaultList`,
  `RedeemsLowestFirst`.
* **Two registers of the same vaults.** An array with swap-with-last removal and
  a linked list: `IndexesAreExact`, `ListIsActive`.
* **Time.** Whole minutes of decay, discarded seconds: `DecayKeepsPace`. A reward
  period whose end moves when nobody stakes, by updates made only at the next call:
  `ClockStopsWhileEmpty`, `BalanceIsOwed`, `EarnedIsKeptOrPaid`, `UpdatesNeverRevert`.
* **Asynchrony in the SDK.** Fetches that overtake one another and share batches
  of calls, merged block events, listeners that unsubscribe one another, reads
  that fail: `StateIsOfItsBlock`, `NotificationsHaveNoGaps`, `BlocksUpdateState`, `FetchesEnd`,
  `NewestBlockIsFetched`.
* **Event order in the indexer.** A handler may record a price change before its
  own change, temporaries live from one event to another, state is read from the
  end of the block, the end of a liquidated vault arrives twice: `ChangesAreChained`,
  `TemporariesAreCleared`, `IndexMatchesContracts`, `OpenVaultsAreCounted`.
* **Crash and restart of the deployment.** What was sent and not saved is sent
  again, what was saved is never sent again, and a contract takes its addresses
  only once: `SavedAreLinkedToSaved`, `PassedStepsHold`, `EndsOrIsRefused`.
* **Two sources of one truth in the page.** Receipt, store and buttons move the
  same view, fetches overtake one another, and panels replace one another's
  transaction state: `ActiveViewIsNotClosed`, `WaitingEnds`, `PendingEnds`.

`PROJECT.json` lists every hazard at its line.

## 2. Plan

| Step | Modules | State |
|---|---|---|
| 1. Borrowing core | `ListOrder`, `VaultSystem`, `MCVaultSystem` | done |
| 2. Registers of vaults, refinement of the list | `VaultList`, `SortedVaults`, `VaultOwners`, `VaultRegistry`, `MCVaultRegistry` | done |
| 3. Stability Pool | `StabilityPool`, `MCStabilityPool` | done |
| 4. Fees and staking | `BaseRate`, `MPStaking`, `ProtocolFees`, `MCProtocolFees` | done |
| 5. Proofs of the accounts and the actions of the vaults, of their two registers, of the Stability Pool and of fees | `VaultSystemProofs`, `VaultRegistryProofs`, `StabilityPoolProofs`, `ProtocolFeesProofs`, with `DataLemmas` and `SequenceFolds` | done |
| 6. SDK store and providers | `BatchedProvider`, `PolledStore`, `StoreClient`, `StoreClientProofs`; then the web socket (opening, loss, reconnection timer left running, `waitForTransaction`) | store and batching done and proved, web socket planned |
| 7. Indexer | `ContractEvents`, `Subgraph`, `MCSubgraph`, `OffChainProofs`; then borrowing fees, staking and the totals of the system state | vault, pool and surplus events done and proved, the others planned |
| 8. Deployment | `Deployment`, `MCDeployment`, `OffChainProofs`; then the checks and trial deposits at the script's end | done up to the deployer's vault |
| 9. Transactions of the page | `FrontEnd`, `OffChainProofs`; then the stability and redemption panels | vault, stake and surplus done |
| 10. Price feed | the fallback between two oracles and `lastGoodPrice`, in place of the free price | planned |
| 11. MP distribution | `RskSwapPool`, `ProtocolFeesProofs`, in the run of `MCProtocolFees`; then the curve of `CommunityIssuance` | liquidity mining done |
| 12. Abstract specifications | the pool record of `VaultSystem` as the abstraction of `StabilityPool`; fees shared by exact fractions as that of `MPStaking` | planned |
| 13. More proofs | `BalanceIsOwed` and `EarnedIsKeptOrPaid` of `RskSwapPool`, the store, the deployment, the indexer | done |

Modules about which something is to be proved declare no recursive operator:
sums and loops are folds of the community modules, powers and filtered lists are
recursive functions, and parameters are constants with named assumptions.

## 3. Modules and the code

| Module | Models | Actions |
|---|---|---|
| `ListOrder` | what `SortedVaults` promises, as operators on sequences: insertion at any position that both neighbours' ratios allow, removal | (none) |
| `VaultSystem` | `BorrowerOperations`, `VaultManager` and the balances of the pools and of BPD | one per external call: `OpenVault`, `AddColl`, `WithdrawColl`, `WithdrawBPD`, `RepayBPD`, `AdjustVault`, `MoveRBTCGainToVault`, `CloseVault`, `ClaimCollateral`, `Liquidate`, `LiquidateVaults`, `BatchLiquidateVaults`, `RedeemCollateral`, `Transfer`, `ProvideToSP`, `WithdrawFromSP`, `PayOutFees`, and `PriceMoves` |
| `VaultList` | the abstract list of vaults | `Insert`, `RemoveId`, `ReInsert`, `Accrue` |
| `SortedVaults` | the linked list, pointers, hints and search | the same four; it implements `VaultList` by `list <- ListOf(data)` |
| `VaultOwners` | the array and the indexes kept in the vaults | `AddVaultOwnerToArray`, `RemoveVaultOwner` |
| `VaultRegistry` | composition of `SortedVaults` and `VaultOwners` as `openVault` and `_closeVault` use them | `OpenVault`, `CloseVault`, `ReInsert`, `Accrue` |
| `StabilityPool` | the whole of `StabilityPool.sol`, with MP issued as input | `ProvideToSP`, `WithdrawFromSP`, `WithdrawRBTCGainToVault`, `RegisterFrontEnd`, `Offset` |
| `BaseRate` | decay, rise, rates, fees, `_decPow` | operators and the two updates |
| `MPStaking` | `MPStaking.sol` | `Stake`, `Unstake`, `ReceiveFee` |
| `ProtocolFees` | composition of the two: how a borrowing and a redemption set and pay fees | `Borrow`, `Redeem`, `StakeMP`, `UnstakeMP`, `Pass` |
| `RskSwapPool` | the liquidity mining pool; its functions are operators on the contract's storage, so that calls within a call compose | `SetParams`, `StakeLP`, `WithdrawLP`, `ClaimReward`, `WithdrawAndClaim`, `Tick` |
| `BlockTime` | the block's time, which `BaseRate` and `RskSwapPool` share | (none) |
| `BatchedProvider` | `BatchedProvider.ts`: the batch, its timer, the requests it becomes | `EnqueueCall`, `SendAlone`, `DispatchCalls`, `RequestEnds` |
| `PolledStore` | `MoneypStore.ts` and `BlockPolledMoneypStore.ts` | `Start`, `Stop`, `HearBlock`, `FetchEnds`, `UpdateTimerFires`, `Subscribe`, `Unsubscribe`, `NotifyNext` |
| `StoreClient` | the store on its provider, with the block events of `WebSocketAugmentedProvider.ts` and the node | those of the two, and `NewBlock`, `OnBlock`, `CallBlockListeners`, `NodeAnswers` |
| `ContractEvents` | the contracts as an indexer sees them: the events of each kind of transaction in their order, and the state that calls read at the block's end | one per kind of transaction (`ChainStep`), `PriceMoves`, `Seal` |
| `Subgraph` | the mappings and entities | one handler per event: `HandleVaultUpdated`, `HandleVaultLiquidated`, `HandleLiquidation`, `HandleRedemption`, `HandleUserDepositChanged`, `HandleRBTCGainWithdrawn`, `HandleCollSurplusBalanceUpdated` |
| `Deployment` | the script, its output file, the transactions that wait, the contracts that exist, the addresses they were given and the arguments they refuse | `Start`, `SkipStep`, `DecideToSend`, `Send`, `ReceiveReceipt`, `MineTransaction`, `Crash` |
| `FrontEnd` | the page's transaction state and the panels that share it, the wallet, the chain as one account sees it | `Press`, `Edit`, `Leave`, `Return`, `SendTransaction`, `Approve`, `SendResolves`, `SendRejects`, `Mine`, `VaultIsClosed`, `FeeIsPaid`, `StoreUpdates` (`NewestArrives`, `OlderArrives`), `Receive`, `ReceiptFails`, `ReasonArrives`, `TimerFires` |
| `MC...` | bounds and scenarios for TLC | |
| `VaultSystemProofs`, `VaultRegistryProofs`, `StabilityPoolProofs`, `ProtocolFeesProofs`, `StoreClientProofs`, `OffChainProofs` | theorems (section 5) | |
| `DataLemmas`, `SequenceFolds` | lemmas on sums, lists and loops, for the modules of theorems | |

Conventions shared by the modules:

* **One transaction, one action.** Everything a call does to the modelled state
  is in its action. A `require`, an `assert` and each SafeMath subtraction that
  can underflow is a guard, since a revert leaves the state as it was.
* **Loops.** `LiquidationTally` and `RedemptionTally` fold one step of the
  code's loop over the vaults it visits; the settlement after the loop follows
  the order of the code's calls. A tally has the code's running totals, the mode
  flag and whether the transaction has failed.
* **Integer arithmetic** is the code's, in the same order of multiplications and
  divisions. `DECIMAL_PRECISION` and the other scales are constants.
* **Names** are the code's where TLA+ allows.

Abstractions, and why they are sound for the properties:

* The percentage of fee that a caller accepts, and the redemption bootstrap
  period, only let a call fail; they are left out. (The period in the code is
  30 days, `VaultManager.sol:51`; `src/README.md:177` says 45.)
* In `VaultSystem` the borrowing and redemption rates are inputs:
  `BaseRate` computes them. The price is an input that changes between
  transactions.
* In `VaultSystem` the Stability Pool is two numbers, the deposits and the RBTC
  it holds; how much a depositor may take is an input, `StabilityPool` computes
  it. Conversely `StabilityPool` leaves the depositors' BPD balances and the
  guard on the lowest vault to `VaultSystem`. The product behind the split may refuse
  an offset that leaves deposits (`assert(newP > 0)`, `StabilityPool.sol:609`), so a
  liquidation with such an offset happens in `VaultSystem` or does not, as any
  transaction; `UnsafeCanBeLiquidated` makes no promise for it.
* `sortedVaults` is a sequence in `VaultSystem`, with insertion at any position
  the neighbours allow; `SortedVaults` shows that pointers and hints do that. A
  stale partial redemption hint is the input `hintFresh`: the code compares the
  nominal ratio computed off chain with the one it finds.
* In `MPStaking` what a staker has in the wallet is what it owns minus its stake.
* In `RskSwapPool` the checked subtractions of the updates are no guards:
  `UpdatesNeverRevert` says, and a theorem shows, that they cannot fail. The MP is
  minted to the pool before `setParams`, as the code asserts. Blocks are seconds apart.
* In `ProtocolFees` the amount borrowed, the RBTC drawn and the supply are inputs.
* In `PolledStore` the value of a field is the number of the block it was read
  from, or an error. The reads of a fetch are represented by one field for each way
  the code treats them (`PolledStoreAssumption`). A read is one call; in the code
  some make several in turn. The event loop runs one callback at a time: an action is what
  runs between two awaits, and no other runs while `_notify` is at work (`Idle`).
  Each turn of `_notify` is an action of its own, in which the listener may
  subscribe or unsubscribe one listener. The store is started again only after it
  was stopped.
* In `ContractEvents` amounts are a few units and each transaction emits what the
  contracts emit for it, in their order; what the amounts should be is the
  business of `VaultSystem` and `StabilityPool`. In `Subgraph` entities that are
  only written are represented by the changes that the last handler saved.
* In `Deployment` a contract is its name and the number of its deployment, an
  address is what the file or the memory of the script gives for a name, and
  transactions are mined in the order of the deployer's nonces. Waiting for
  confirmations is waiting until nothing of the deployer is unmined. What a contract
  requires of arguments that are not addresses is the parameter `Refusals`: sets of
  steps that are refused whatever the chain is. `refuses` is one of them, chosen at the
  beginning.
* In `FrontEnd` an action is one event and everything React does before the next
  one: the render, the clean-up of effects, the effects and the renders they
  cause. An amount in the editor is the original one, another one or none. The
  account on the chain is the vault's status, two counters of changes, and whether the
  stake has gains. `past` is what it was in earlier blocks, from which a fetch may
  still arrive. A call of `send()` is in `wallet` until it resolves or rejects; its
  transaction may be mined and seen by the store before that. The panels are on the
  first page only, the vault's view and the stake's flag are above the pages.
* The system starts a minute after time 0, as the code reads a last fee
  operation at time 0 before the first one.

## 4. Runs

A run stops at a bound on the number of calls, blocks, fetches or transactions,
or when its program has ended, so deadlock is not checked, except in `registry`,
which has neither.

| Run | Distinct states | What it shows |
|---|---|---|
| `vault_system` | 33,700 | Three vaults, then one of three scenarios. *Liquidation*: price changes, deposits and all three entry points. *Borrowing*: every borrower operation with redistributions and Recovery Mode. *Redemption*: one to three vaults, every first hint, fresh and stale partial hints, transfers, claims. Pools record what vaults hold, supply is debt, the Gas Pool covers every vault and the Default Pool all pending rewards; unsafe vaults can be liquidated (where the Stability Pool keeps no deposits), safe ones are not, depositors are compensated; borrowers neither cause nor worsen Recovery Mode; redemptions take the lowest ratio first; list, stakes and surplus agree. |
| `registry` | 620 (up to symmetry) | Four owners, at most three vaults, three ratios, every hint, ratios drifting arbitrarily. The pointers are a well-formed list that implements `VaultList`, the array's indexes are exact. |
| `stability_pool` | 627,000 | Six calls with two depositors and front ends, offsets that lower the product across a scale, and one that empties the pool. What depositors may claim is covered, in BPD, RBTC and MP. |
| `protocol_fees` | 1,301,000 (up to symmetry) | One of two scenarios under one clock. *Fees*: five calls and seven seconds of three-second minutes; staking gains are backed, the base rate decays at half its speed or faster. *Liquidity*: two providers and six seconds with a reward period of three, stakes, withdrawals, claims and exits in any order; the clock of the rewards stops in every gap without stakes, the pool's MP is what is owed but for dust, and no call of one provider changes what another has earned. |
| `store_client` | 609,000 | Start, stop, two listeners, two blocks, three fetches, every read answered or failing, in any order. What the store holds is one block's, but for errors, and carries its tag; reads that share a batch are answered for their own block, no listener misses a state, only the first load can bring the error of a balance and every other store is updated by each fetch without failures, every fetch ends and the newest block is asked for. |
| `subgraph` | 865,000 | Two users and five transactions of every kind in blocks of any length, two prices. Changes form one chain of system states numbered without gaps, temporaries are null between blocks and belong to the transaction of the change, vaults, reward snapshots and surpluses of the index are those of the contracts. |
| `deployment` | 140,000 | The script with one lockup contract, stopped twice at any point, as the repository has it (three refused steps) and with one, two or all of the refusals corrected. What the file names was only given what the file names, each step that was passed holds, and the script ends or reaches a refused step. |
| `front_end` | 1,051,000 | Two transactions of three panels, one liquidation, redemption or fee by others, one late fetch of an older block, receipts that are lost, `send()` that resolves before or after the receipt, other pages. The vault's view is never that of a vault that the page knows is closed, and the shared transaction state always comes free. |
| `vault_batch_tcr` | violation | `BatchStaysBelowTCR`, see the findings. |
| `pool_withdrawal` | violation | `DepositsCanBeWithdrawn`. |
| `subgraph_open_vaults` | violation | `OpenVaultsAreCounted`. |
| `front_end_pending` | violation | `PendingEnds`. |

### Bounds, and why they are enough

* **Vaults.** A behaviour of `vault_system` is of one scenario. It opens three
  vaults (`Setup = 3`), so that there is one to liquidate, one to receive and a
  third whose share differs, and goes on to `maxTx` = 6 or 7 transactions: enough
  for price change, liquidation, operation with pending rewards, and a second
  liquidation. `DECIMAL_PRECISION` is 10,000, ratios 110 % and 150 %, compensation
  200 and minimum debt 1,800 as in the code; collaterals and prices are chosen so
  that vaults fall into each band: at most 100 %, 100 to 110 %, 110 % to the TCR,
  above. `Scenario` in `MCVaultSystem` gives each scenario its collaterals, its
  prices and the families of transactions that follow. TLC's integers have 32
  bits: `NICR_PRECISION` is 40,000 so that products stay below 2^31.
* **Registry.** Three nodes is the size at which head, middle and tail differ;
  the fourth owner makes hints that are not in the list.
* **Stability Pool.** `stability_pool` has precision 16, scale factor 4 (its square, as
  1e9 is of 1e18) and amounts of two and four times the precision: there every
  division rounds, and the feedback of errors gives too much (see the notes). The
  offsets are of less than half, about half, and all of the pool. `MaxScale` and
  `MaxEpoch` allow the product to be scaled up twice and the pool to be emptied once.
* **Fees.** Precision 100, decay to one half per minute; a redemption of 1 and of
  40 RBTC against two supplies, so that the rise is zero, small and capped.
* **Liquidity mining.** Six seconds hold a gap before the first stake, one within
  the period of three, and one after its end. Each provider owns two tokens, so supplies
  are 1 to 4; with precision 10 and a rate of 100 the reward per token is rounded at a
  supply of 3 and each share of it again. The entitlement of 301 is not a multiple of the
  duration. A second of rewards is 100, the largest dust of the run is 19. The two
  scenarios share nothing but time, so that a behaviour need not mix their calls.
* **Store.** Three fetches are the first one and those of two blocks, in every order
  of their answers; two blocks are enough for one to be merged with the next or
  overtake it. One field suffices there: calls of different fetches already meet in a
  batch. The field is `bpdBalance`, whose error `_derive` does not meet and `_reduce`
  does: it may be loaded, and ends the updates. Nothing is derived from it, so that
  `derived` is empty in the run; the theorem covers the other fields.
* **Indexer.** Five transactions are an opening of each user, a deposit, and two that
  meet in a block or not: a price change with a liquidation, a redemption with a claim,
  an adjustment after a redistribution. Two owners are symmetric.
* **Deployment.** The script is the whole one. Two interruptions let a transaction of
  the first run be mined while the third is at work, after the second has sent the
  same; a third run that is not interrupted reaches the end. `MCRefusals` begins with the
  refusals of the repository and corrects them in the order in which the script meets
  them, since a refused step hides those after it.
* **Page.** Two transactions are those of two panels, one within the other in any way, or a
  failed one and its repetition; one intrusion ends the vault under any edit, or gives
  the stake gains; one late fetch takes the store back to any earlier block.

### Fairness

None is assumed of the contracts, and no liveness is claimed of them: a contract
runs only when somebody calls it, and nothing obliges anyone to. Availability is
stated as a state property instead: `UnsafeCanBeLiquidated` says that the call
would succeed.

`StoreClient` assumes that the event loop goes on and that the node answers or
rejects every request: strong fairness of `Callback`, weak fairness of
`Notification`. Strong, because a callback that is due waits while listeners are
notified, which may happen again and again. Since the loop's queue is first in,
first out, a callback that is due does run. The bounds leave finitely many
callbacks, so one condition on their disjunction is a condition on each. New blocks,
users and the half-minute timer are under no obligation.

`Deployment` assumes that the chain mines, that the script goes on until it is
stopped, and that its operator runs it again until it ends, as the script's own
messages on earlier deployments expect. It may be stopped finitely often.

`FrontEnd` assumes that the user answers the wallet, that the network mines what
was sent and answers the page, that the store follows the chain, and that the
browser's timers fire: weak fairness of each, since none is disabled by anything
but its own effect or the end of what it is for. Of the store only that the newest
block arrives is assumed (`NewestArrives`), not that older ones do not. The user
presses no button by obligation, and need not wait for one transaction before the next.

The indexer is not fair; no liveness is claimed of it.

### Notes on single properties

* `DecayKeepsPace`: a fee operation discards less than one minute of elapsed time,
  and only when at least a whole minute has elapsed, so at least half of the time
  counts; the comment "prevents base rate griefing" is true up to that factor.
* `ImplementsVaultList` holds for unordered lists too: rewards are rounded per vault
  and may put two vaults of equal ratio and different size in the wrong order by one
  unit in the last place, and insertion still works.
* `PoolCoversDeposits`, `PoolCoversRBTCGains` and `IssuanceCoversMPGains` hold up to a
  dust. A loss is reduced by the error of the one before (`lastBPDLossError_Offset`),
  which was borne by the deposits as they then were; what an offset or a withdrawal has
  taken of them since is given back too much (finding 2). `dust` is a history variable:
  `dust.loss` is the greatest error so far, in units of a BPD over the precision, and
  what the deposits exceed the pool by is bounded by it however many offsets follow;
  the two other fields add up the share of that excess in each gain.
* `DefaultPoolCoversPending` has a condition for its debt. `hasPendingRewards`
  (`VaultManager.sol:1127`) compares the RBTC snapshot only, so a redistribution of so
  little collateral that `B_RBTC` stays as it was is not seen: a vault adjusted after it
  gets a new stake while its debt snapshot stays behind, and the pending debts may
  exceed the Default Pool by units of the smallest denomination, which the last
  claimant lacks. It takes a redistributed debt of fewer wei than some 20,000 times
  the total stakes in RBTC. The history variable `debtUnseen` says whether that has
  happened; in the run it never does, and the theorem is under the same condition.
* `BorrowersKeepTCR` allows the unit by which the division rounds: an adjustment has to
  keep the rounded ratio of its vault, and a borrowing that keeps it may lower the TCR
  by one in the last place.
* `RedeemsLowestFirst` is about lists whose order is exact (`ListIsOrdered`). The list
  is kept by rounded nominal ratios, and rewards round per vault, so two vaults whose
  ratios all but agree may be in the other order and are then redeemed in it.
* `BlocksUpdateState` is true of a store that was not loaded with an error which
  `_reduce` compares (`Comparable`). The error of a balance is loaded as its value when
  the first fetch meets it (`BlockPolledMoneypStore.ts:115`), and every later update
  throws when it compares with it (`:166`), so that no block updates such a store again.
  The property says that this is the only way: no update brings such an error.
* `StateIsOfItsBlock` leaves out a base state from which nothing can be derived: `_update` has
  set it when `_derive` throws (`MoneypStore.ts:579`), and the tag is still the old one.
* `Dust`, the bound in `BalanceIsOwed`, has a term for the supply: an update loses up to the
  supply over `TokenUnit`, which is more than a unit when the supply is greater than that.
* `IndexMatchesContracts` is about an index that has not failed: opening a vault after
  one that ended by liquidation makes a handler load a vault that does
  not exist (finding 3), and indexing stops there. The deposits of the index are left
  out: the loss of a gain may be subtracted twice (`StabilityDeposit.ts:132-134`).
* As the repository stands the script does not get beyond its first connection.
  `PriceFeed.setAddresses` wants two price feeds (`PriceFeed.sol:31-34`) and is given one
  (`mainnetDeployment.js:75`). After it `RskSwapPool.setParams` asserts an entitlement
  (`RskSwapPool.sol:195`) that `MPToken.sol:141` sets to 0, and a lockup has to last a year
  (`LockupContract.sol:82-85`) where three days are asked for (`mainnetDeployment.js:94,112`).
  A refused call is not sent, since the estimate of its gas throws; so these steps end
  every run of the script, and `EndsOrIsRefused` says that nothing else does.
* `PassedStepsHold` holds although the script never looks at the status of a receipt.
  A call that was accepted when it was sent can fail later only because an earlier
  transaction of the same step was mined before it, with the same addresses; that they
  are the same is `SavedAreLinkedToSaved`.
* `ActiveViewIsNotClosed` compares with the store, not with the chain: the page cannot know
  more. It does not say that the vault offered is open: the store may go back from the
  first opening to a block before it, and no event is listed for the status
  `nonExistent` (`VaultViewProvider.tsx:53-58`), so the view stays. Nor does it say that
  an open vault is shown. A confirmation is reported as that of the edit on the screen
  (`VaultManager.tsx:196-202`): one that comes while the user looks at the closing of the
  vault, whatever was sent, dispatches `TROVE_CLOSED` and hides an open vault.
* `WaitingEnds` is about the shared state on which the buttons of other panels wait; a
  `send()` that fails in any way and a receipt that cannot be had free it too.
* `PendingEnds`, that the stake's spinner ends, is false (finding 4), and for more than the
  trace shown: a claim of gains is seen only if a gain is lower than before, which it is
  not if fees came in the meantime (`StakingViewProvider.tsx:54-57`). The vault's spinner may
  stay as well, even for a user who waits for each transaction: its effect runs again when the
  kind of the edit changes (`VaultManager.tsx:191-203`), so that an update of the store
  before `send()` resolves reverts the edit and starts the spinner a second time.
* `BorrowersKeepTCR` is about borrowers only. A pure redistribution lowers the TCR
  by the gas compensation, and the redemption of a vault above the TCR may lower it.
* `UnsafeCanBeLiquidated` uses `ENABLED` and is checked by TLC only. It speaks of the debts
  that the other vaults or all of the deposits absorb. An offset that leaves deposits is
  refused when the product would become zero (`TakesPartOfDeposits`), which is listed
  as a hazard.
* A redemption that is tiny against the supply, with a base rate of zero, leaves it at
  zero: the code's assert (`VaultManager.sol:1362`) reverts it, although its comment
  expects the rate to be non-zero after every redemption. `Redeem` is disabled there.
* A store that is stopped and started again keeps its old state until the next block:
  the first fetch only loads a store that is not loaded. `NewestBlockIsFetched`
  therefore speaks of stores started once.
* A fetch in flight at a stop still updates the store and starts the half-minute
  timer again; the model contains this, no document forbids it.
* The step after which `offset` would make the product zero fails the code's
  assert: it is disabled in `StabilityPool`; see the hazards.

* `ClockStopsWhileEmpty` starts the clock with the first stake after `setParams`, as the
  contract's tests do (`test/RskSwapPool.js:231`). The comment at `RskSwapPool.sol:70`
  says that the program starts with the deployment of MP or the first stake, whichever
  occurs first; in the code it is whichever occurs last. The entitlement is a parameter:
  with the one that `MPToken.sol:141` sets, 0, the assert of `setParams` (`RskSwapPool.sol:195`)
  fails, and the properties of the pool are about a token that grants one.
* `UpdatesNeverRevert` is not a property of a run: its theorem holds for every value of
  the constants.

### Findings

The four violations are disagreements between the code and its comments or docs.

1. `vault_batch_tcr`: `batchLiquidateVaults` does not take the surplus out of the
   collateral it tracks, `liquidateVaults` does. A later vault is compared with a
   TCR that is too high.
2. `pool_withdrawal`: the error of the last loss is subtracted from the next one in
   full, though part of the deposits that bore it is gone: a deposit of four times the
   precision and offsets of 2D - 4 and D + 5 leave a compounded deposit of one more
   than the pool, at a precision D of 16 as at 1e18. The error is said to favour the
   pool; the last full withdrawal reverts. The property fails for the stake of a front
   end too, which is rounded on its own at every call and falls below the deposits it
   stands for; a withdrawal that is smaller by the rounding succeeds in both cases.
3. `subgraph_open_vaults`: in a liquidation `VaultLiquidated` already closes the vault in the index; the
   `VaultUpdated` that follows finds none, opens a new one for its owner and counts
   it. The number of open vaults that the SDK reports stays too high.
4. `front_end_pending`: two panels may send at the same time. The state of the second
   transaction replaces that of the first and cancels its monitor; if the first one
   reverts, nobody tells its panel, which stays covered by its spinner.

## 5. Proofs

Every theorem is about the specification a run checks, for every value of the
constants its named assumptions allow: any finite set of users, any amounts, prices,
ratios, rates and precision. `PROJECT.json` lists the theorems with the properties
they state.

**Balances.** `VaultSystemProofs`, first part:

| Theorem | Statement |
|---|---|
| `SpecInv` | `Spec => []IInv` |
| `TypeCorrect` | `Spec => []TypeOK`: every quantity stays a natural number |
| `SupplyIsAlwaysDebt` | `Spec => []SupplyIsDebt` |
| `GasPoolAlwaysCoversVaults` | `Spec => []GasPoolCoversVaults` |
| `PoolAlwaysHoldsDeposits` | `Spec => []PoolHoldsDeposits` |

The inductive invariant `IInv` is the conjunction of `TypeOK`, `SnapshotsBehind`
and the three accounting invariants. `SnapshotsBehind` says that no active vault's
snapshot is ahead of the running rewards: without it a pending reward could be
negative and `TypeOK` would not be inductive, as a vault's collateral grows by its
pending reward. Each accounting invariant needs the type invariant: a
subtraction is exact only when both sides are numbers. `GasPoolCoversVaults` also
needs the cardinality of the set of active vaults, which every action changes by
the vaults it opens or closes; the lemmas on `Active` say by how much.

The proof has one lemma per group of actions (`OpenVaultInv`, `AdjustInv`,
`CloseVaultInv`, `LiquidationInv`, `RedemptionInv`, `StabilityPoolOperationInv`,
`OtherStepsInv`), joined by `NextInv`, on top of lemmas on the code's arithmetic
(`DivisionNat`, `RemainderNat`, `FeeNat`, `NewStakeNat`) and on counting active
vaults (`GasOfClosed`, `ActiveIsFinite`).

**Sums over the vaults.** The second part proves `ActivePoolIsVaults`,
`TotalStakesIsSum`, `SurplusIsBacked`, `ListIsActive` and, as an invariant of its own,
`DebtAboveMin`: no vault owes less than the minimum. They are inductive only together
(`AccountsInv`): what a loop of liquidations takes out of the Active Pool is what its
vaults held only if each vault is tallied once, which the list and `closed` give, and
if no ratio divides by zero, which `DebtAboveMin` gives. The loops are the heart of it.
Both are left folds, about which `SequenceFolds` says: what holds before a loop and is
kept by an iteration holds after it, for an invariant that may know how far the loop
is. For liquidations it is `TallyInv` (what is offset, redistributed, given back and
kept as compensation is together what the closed vaults held), for redemptions
`RedemptionIsExact` (the vaults visited are a prefix of the order, all but the last are
closed, what is drawn and redeemed is what they gave).

**Rewards.** `VaultSystemProofs` also proves `DefaultPoolCoversPending`. The pending rewards
are rounded per vault, so the property is not inductive. `RewardsInv` speaks of the
claims before the division, stake times the rewards per unit staked since the snapshot:
their sum and the error kept for the next redistribution never exceed the Default Pool
times the precision. A redistribution raises both sides by as much, since the error is
exactly what its division dropped and only the stakes that remain are divided by
(`TotalStakesIsSum`); a vault that is paid gives up a claim worth at least the payment;
a vault whose stake changes has no claim left. The last step is true of the debt only
if a vault that looks settled is settled: that is `SnapshotsAgree`, which holds while
every redistribution could be seen by `hasPendingRewards` (section 4, notes).

**Actions.** The last part of `VaultSystemProofs` proves the five action properties of `VaultSystem`, on
top of the two invariants above. A ratio is a division, so each comparison of ratios is
first turned into one of products: a ratio is at least `k` exactly when the collateral
at its price is worth `k` times the debt (`Worth`, `RatioAtLeast`).

* `BorrowersAlwaysKeepNormalMode`, `BorrowersAlwaysKeepTCR`. The code checks the total
  ratio *after* an adjustment only in normal mode, and in Recovery Mode only the ratio of
  the vault adjusted. The first theorem is that its totals are the ones that result
  (`AdjustTotals`), borrowing fee included. The second is that a vault which does not get
  worse, or enters above the ratio of the total, cannot lower the total by more than
  the unit the two roundings leave (`AddedAtRatio`, `BorrowedAtRatio`).
* `SafeVaultsAreAlwaysKept`. Invariant of both loops (`SafeTally`): a sequence that starts
  in normal mode stays there and closes only vaults below the minimum ratio.
  `StatusAfter` adds that no other transaction leaves a vault liquidated.
* `DepositorsAreAlwaysCompensated`. One lemma for a full liquidation, where the deposits may
  cover only part of the debt and the depositors' share is rounded (`ShareIsWorth`), and
  one for the capped one. Both lose at most a half percent as gas compensation
  (`ShareOfGas`) and one unit.
* `LowestAreRedeemedFirst`. Invariant of the loop (`ClosesInOrder`): what it has closed is
  the first so many of the vaults it visits. They start at the last vault of the list
  that is at or above the minimum ratio, hint or no hint (`StartsAtMCR`), and their ratios
  rise from there (`RatiosRise`). The property, and so the theorem, speaks of lists in
  the order of the exact ratios, `ListIsOrdered`; which order the rounded ratios
  guarantee is the matter of `registry`.

**The Stability Pool.** `StabilityPoolProofs`, for any finite set of depositors and front ends
and any amounts, precision and scale factor (`StabilityPoolAssumption`):

| Theorem | Statement |
|---|---|
| `StabilityTypeCorrect` | `Spec => []TypeOK`: the product is in `1..DECIMAL_PRECISION`, nothing is negative |
| `PoolAlwaysCoversDeposits` | `Spec => []PoolCoversDeposits` |
| `PoolAlwaysCoversRBTCGains` | `Spec => []PoolCoversRBTCGains` |
| `IssuanceAlwaysCoversMPGains` | `Spec => []IssuanceCoversMPGains` |

Nobody's deposit is visited when it shrinks or gains, and every reading of it is rounded: a
deposit read after two losses is not the reading after the first one, shrunk. So no sum of
readings is inductive. The invariant bounds the exact quotients instead. The prover has no
fractions; a bound is a number of units of `1/n`, for an `n` that exists: a *claim* (a
deposit or the stake of a front end) has at most `x/n` left and has earned at most `y/n`
(`AreBounds`), all `x` together with the error of the last loss are at most the pool and
its dust, and all `y` with the error of the last reward are at most what is held and its
dust (`AreBacked`). `AreCovered` says that such numbers exist; `CoverInv` is that of the
claims on RBTC and of those on MP, which are claims of the same form with another sum and
weight. It is kept by the three things that happen to claims:

* a reward is shared (`RewardKeepsCover`): in units finer by the precision each claim earns
  its bound times the reward per unit, and the error kept is exactly what the division dropped;
* a loss leaves `f` of the precision (`LossKeepsCover`): in such units each bound is multiplied by
  `f`, while the product may be rounded down, scaled up or begin a new epoch. The loss
  per unit is one too many, but the error of the loss before it is given back, and
  part of the deposits that bore that error may be gone: hence the dust;
* a claim is paid and made anew (`ReplaceKeepsCover`): what is read of it is within its bounds
  (`KeptIsBounded`), so its bounds fall by at least what the pool loses.

Each call is one or two of these, on the pools and claims read off the state: `offset` is a
reward of RBTC, one of MP and a loss of both; a depositor's call is a reward of MP and the
replacement of one claim on RBTC and up to two on MP, the deposit's and the front end's,
which share the change of the deposit as the kickback rate says (`CallKeepsMPCover`). The
registration of a front end changes the weight of an empty claim, which is where
`TagsAreRegistered` is needed: no deposit is tagged by an unregistered one. `PoolInv` has what
the arithmetic needs of the contract's own variables: snapshots are of the past
(`SnapshotsArePast`), and the sums of later scales and epochs are still zero
(`FutureIsEmpty`), since a gain also reads the sum one scale beyond its snapshot's.

`CoverInv` quantifies over all natural numbers, so TLC cannot evaluate it; the properties it
implies are those of the run `stability_pool`. They are proved as the run states them, dust included: the dust of
losses is real (finding 2), and the deposits' excess is never more than one loss's error.

**The two registers.** `VaultRegistryProofs`, for any set of vaults, ratios and hints:
`AlwaysWellFormed` (`Spec => []WellFormed`), `ListImplementsVaultList` (the linked list
implements the ordered list of `VaultList`), `IndexesAlwaysExact` and `RegistersAgree`
(both registers hold the same vaults). The links of the nodes are those of some
sequence; from it follow the walks in both directions, by induction on their length, so
that the search from any hint, present or not, ends at a position which the ratios
allow, and insertion and removal turn the sequence into the one that the abstract list
takes. Every step of `SortedVaults` is then a step of `VaultList`. In the array, the
interesting step is the removal, where the owner removed may be the last one itself:
exact indexes make positions injective. `RegistryAssumption` says what the ratios are.

**Fees.** `ProtocolFeesProofs` proves `GainsAreAlwaysBacked`: the balance of the staking
contract covers the gains of all stakers. Its invariant (`StakingInv`) is again about
what is owed before the division, `OwedIsHeld`; the fee per unit rounds down, nobody's
snapshot is ahead, and `totalMPStaked` is the sum of the stakes. `BaseRateIsFraction`
says that the base rate stays between 0 and 1 and that its decay never raises it, for
any elapsed time, so that the assert of a borrowing cannot fail (that of a redemption
can, see the notes): `PowerTimes` is a recursive function, and that a function of that
description exists is shown from the functions that compute the powers up to each N.

**Data.** The prover cannot instantiate a theorem that takes an operator, so
`DataLemmas` states induction over natural numbers and over the subsets of a finite set
for *sets* of good values, and derives from it what the proofs need of sums over
functions (one value replaced, monotony, products, parts) and of lists with elements
removed and inserted. `SequenceFolds` has the operator of a loop and its invariant as
constants, and is instantiated once for each loop and each thing proved of it.

**The page.** `OffChainProofs` proves `ActiveViewIsNeverClosed`: `Spec => []ActiveViewIsNotClosed`,
for any number of transactions, intrusions and late fetches, from no assumption on the
constants. The inductive invariant adds only that the view is one of the table's. What
the chain does is not needed: whichever block the store is taken to, a status that says
how a vault ended has an event. Two lemmas read the table of transitions: only the status
`open` leads to a vault from a view without one (`OthersOpenNothing`), and every view of a
vault hears of each way it can end (`EndsAreHeard`). A transition that is missing
from the table, as in the mutant of `Transition`, breaks the second.

**The deployment.** The second part of `OffChainProofs` proves `SavedAreAlwaysLinkedToSaved`
(`DeploymentSpec => []SavedAreLinkedToSaved`) and `PassedStepsAlwaysHold`
(`DeploymentSpec => []PassedStepsHold`), for any beneficiaries, any refusals and any number of
interruptions. `BeneficiariesAssumption` says that no beneficiary has the name of a contract: the output
file keeps both. The inductive invariant `DeploymentInv` says of every transaction
that waits, and of every link on the chain, that some step of the script makes it *from the
present file* (`PoolInv`, `LinksInv`). That survives because the file only grows
(`Grown`, `IsOfStays`) and because a step is sent only when all it refers to is in the file
(`StepNeedsKnown`); so two runs that send the same call send the same addresses. What was
sent is on the chain or waits (`DeploysArrive`, `StepSent`), steps that were passed are done
(`StepsDone`), and a connection is made of all its links at once (`ConnectedAtOnce`). The
argument needs a property of the script itself, `ScriptFacts`: every name is deployed
before a step refers to it, whatever has a step that connects it is given nothing at
its deployment and has one such step, and the lockup contracts come after the connection of
their factory, whose token they get (`GivenToLockup`). `ScriptIsOrdered` proves it of the 32
steps and the lockup contracts; an entry moved up in a list of the script would break it.

**The indexer.** The third part of `OffChainProofs`, for any users, prices, positions and
initial price, and any number of calls and blocks:

| Theorem | Statement |
|---|---|
| `SubgraphInvHolds` | `IndexSpec => []SubgraphInv` |
| `TemporariesAreClearedHolds` | `IndexSpec => []TemporariesAreCleared` |
| `IndexMatchesContractsHolds` | `IndexSpec => []IndexMatchesContracts` |
| `ChangesAreChainedHolds` | `IndexSpec => ChangesAreChained` |

What the index holds in the middle of a block is neither what the contracts held at that
event nor what they hold now, so the invariant speaks of the events still in the log.
`MatchInv`: for every user they lead from the vault of the index to that of the contracts
(`VaultSettles`), the last one with the final amounts, and likewise for the surplus. The
handler takes the reward snapshot from the block's end and saves it only if the amounts
change, so the invariant also needs that an active vault's first event in a block changes
its amounts or closes it (`VaultDiffers`), or that its snapshot is already the final one;
`AccrueEvents` and `_requireNonZeroAdjustment` are why the contracts emit such events. `LogIsOrdered`
says that each vault event of a liquidation or redemption is followed by the end of its
transaction, `TemporariesInv` that a current liquidation or redemption is of the
transaction at the head of the log and that its end is still there; the two give
`TemporariesAreCleared`. `IndexIsBehind` relates the transaction that the index knows to
the log: with it a price is asked for exactly when it may have changed.

The proof has two halves. Each kind of transaction emits events that lead from the old
vaults and surpluses to the new ones (`Transaction`; the loops of a batch by concatenation,
`TransactionOfBatch`), and appending such a list keeps the invariant (`TransactionKeepsInv`).
Each handler then removes one event and does what that event says (`UserFollows`, shown from
`UpdateVaultKeeps`, `SurplusKeeps` and their like), which is all that `HandlerKeepsInv` asks of it. The
chain of changes is followed inside a handler by `Recording(x, pending)`, which counts
the numbers that were taken but not yet saved: `BeginChangeKeeps` takes one after the price change of
`GetTransactionKeeps`, and the mutant that takes it before fails there. An index that
has met a null entity stops and is exempt from `TemporariesInv` and `MatchInv`, as the code's is
(`subgraph_open_vaults` shows how it comes to that).

**Liquidity mining.** `ProtocolFeesProofs` also proves `PoolTypeCorrect`, `ClockStopsWhileEmptyHolds` and
`UpdatesNeverRevertHolds`, for any finite set of providers and any amounts, precision,
duration and entitlement (`RskSwapPoolAssumption`). The inductive invariant adds
`Sound`, which each function of the contract finds and leaves: the storage has its
types, the last update is neither ahead of the block nor of the end of the period, and
what an account was paid is not ahead of the reward per token. Two lemmas carry the
argument: a stake or claim moves the end and the last update together
(`RefreshKeepsRest`), and a withdrawal brings the last update to the present before it
may empty the pool (`WithdrawalKeepsRest`), so the rest of the period is the same number
on both sides of the change of clock. `withdrawAndClaim` is the two lemmas in turn.

`EarnedIsKeptOrPaidHolds` (`PoolSpec => EarnedIsKeptOrPaid`): an update brings the stored
reward per token to the present one, so it changes nobody's reading of what is earned
(`UpdateRewardKeepsEarned`), and every function updates before it changes supply or
clock; time only raises the reading (`TickRaisesEarned`), and what an exit pays is the
reading at that moment (`ClaimPaysEarned`).

`BalanceIsOwedHolds` (`PoolSpec => []BalanceIsOwed`) is about a sum of shares that are
rounded twice, which no step keeps exactly. The invariant `FundsInv` counts before the
second division: `PoolOwed` is what is due to all accounts in units of `1/TokenUnit` and
the rest of the period at its rate, `Lost` what divisions may have dropped since the
period began. The balance is between `PoolOwed` and `PoolOwed + Lost`, and each function of
the contract is a sequence of steps that move neither bound apart (`KeepsFunds`):
an update loses less than the supply (`UpdateRewardKeepsFunds`), the settlement of an
account less than one unit, and at most once for each second accounted for
(`SettlementKeepsFunds`, with `Unsettled` to count it), a stake or withdrawal of a settled
account changes no due (`ResharingKeepsFunds`). `EarnedOfDues` turns the dues into what
`earned` returns. The proof corrected the property: its dust used to leave out that the
supply may exceed `TokenUnit`, which TLC confirmed with a `TokenUnit` of 2 and eight
tokens owned, while the bounds of the run could not show it.

**The store.** `StoreClientProofs`, for any fields, listeners, number of blocks and fetches:

| Theorem | Statement |
|---|---|
| `StoreInvHolds` | `Spec => []StoreInv` |
| `ReadsAreOfTheirBlock` | an answered read is of the block of its fetch, whatever batch it shared |
| `BaseIsOfItsBlock` | each value of the loaded state is of the block of its tag, or an error, if `TimestampIsRead` |
| `StateIsOfItsBlockHolds` | `Spec => []StateIsOfItsBlock` |
| `NotificationsHaveNoGapsHolds` | `Spec => []NotificationsHaveNoGaps`, if `TimestampIsRead` |
| `BlocksUpdateStateHolds` | `Spec => BlocksUpdateState` |

`StoreInv` has three parts: `FetchInv`, the calls that wait in a batch or are asked of the
node are of fetches with the tag of the batch, and so are their answers; `BlockInv`, the
listeners are called for a block seen; `StateInv`, what a loaded state obeys and that every
listener was told of it or is about to be. An error is put in the place of a value
(`_get`), and is met only where `_derive` or a comparison touches it. The two properties of
the state are stated with that, and proved for any fields whose reads fail: errors may stand in the place of
values, and a store loaded with the error of a balance is not updated. The notifications have
a hypothesis, `TimestampIsRead`: a failed block timestamp is met by `_derive` after the base state
was set, and nobody is told of it. It is satisfied by the run, and by every set of fields when no
read fails; without it TLC finds the property violated. These are the hazards listed at
`MoneypStore.ts` and `BlockPolledMoneypStore.ts`.

Two statements about loops are taken by the actions as guards: that the totals of a
liquidation (`TallyIsValid`) and of a redemption (`RedemptionIsValid`) are natural
numbers and concern active vaults. They are what `uint256` and SafeMath enforce.

### Only model-checked

* `UnsafeCanBeLiquidated` (`ENABLED`) and liveness under fairness, which the prover does
  not have.
* `DecayKeepsPace`, a comparison of two powers.
* `FetchesEnd`, `NewestBlockIsFetched`, `EndsOrIsRefused` and `WaitingEnds`, which are liveness.

## 6. Not modelled

Planned: the web socket of the providers, the price feed's fallback, the issuance curve, the remaining handlers of the indexer and panels of the page (section 2).
The last two repeat what is modelled: the stability, redemption and farm panels use the
same transaction state and a pending flag of their own, and the handlers of fees, stakes
and tokens copy one number each.

Not planned: `MPToken` and the lockups (ERC20 code and a single time lock), hint helpers
and getters (views whose answers the models take as arbitrary), proxy scripts (sequences
of the calls modelled here in one transaction), SDK data types. Gas, reentrancy through
RBTC transfers and a second owner of the deployment are left out.

Most of the repository's JavaScript by lines is data or tools, not program: two lists of
test accounts (`hardhatAccountsList100k.js` and `hardhatAccountsList2k.js`, 62,000 of its
101,000 lines), ABIs of other protocols' contracts, gas measurements, test helpers and
one-off scripts. They have no behaviour to model. The contracts, which carry most of the
protocol's logic and of this project, are Solidity.
