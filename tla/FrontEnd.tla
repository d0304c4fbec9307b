------------------------------ MODULE FrontEnd ------------------------------
(***************************************************************************)
(* The transactions of the web page: the panels of the vault, of the       *)
(* surplus and of the MP stake send through one shared transaction state,  *)
(* whose monitor waits for the receipt, while the store brings the         *)
(* account's state from the chain by itself, where the fetch of an older   *)
(* block may arrive last.  The panels are on the first page only; the view *)
(* of the vault, the stake's spinner and the monitor outlive it.           *)
(*                                                                         *)
(* An action is one event and everything React does before the next one:   *)
(* the render, the clean-up of effects whose inputs changed, the effects   *)
(* of every panel, and the renders that these cause.                       *)
(***************************************************************************)
EXTENDS Integers, SequencesExt

CONSTANTS
  MaxTransactions,  \* bound of the model on what the user sends
  MaxIntrusions,    \* bound of the model on what others do to the account
  MaxLate           \* bound of the model on the fetches of older blocks that arrive late

ASSUME FrontEndAssumption ==
  MaxTransactions \in Nat /\ MaxIntrusions \in Nat /\ MaxLate \in Nat

VARIABLES
  account,           \* on the chain: the vault's status, counters of the changes made to the
                     \* vault and to the stake, and whether the stake has gains
  intrusions,
  past,              \* what the account was in earlier blocks
  late,              \* how often a fetch of one of them arrived late
  store,             \* the account as the store last loaded it
  sends,             \* how often the user sent
  wallet,            \* the calls of send() that run, with their transaction once it is sent
  txs,               \* what was sent: panel, change and outcome
  transactionState,
  timed,             \* a timer will end the transaction state shown
  reverting,         \* transactions whose receipt failed and whose reason is being asked for
  away,              \* the user is on another page
  view,              \* of the vault panel
  manager,           \* of the VaultManager component, while it is mounted
  stakePending       \* changePending of the staking panel

pageVars == <<away, view, manager, stakePending>>
vars == <<account, intrusions, past, late, store, sends, wallet, txs, transactionState, timed,
          reverting, pageVars>>

Panels == {"vault", "claim-coll-surplus", "stake"}
Idle == [type |-> "idle", id |-> "", tx |-> 0]
TxState(type, id) == [type |-> type, id |-> id, tx |-> 0]
Waiting(state) == state.type \in {"waitingForApproval", "waitingForConfirmation"}

\* useMyTransactionState: the state is idle to those whose transaction it does not show.
MyType(panel) == IF transactionState.id = panel THEN transactionState.type ELSE "idle"

-----------------------------------------------------------------------------
(* The view of the vault panel. *)

Transitions ==
  [NONE       |-> {<<"OPEN_TROVE_PRESSED", "OPENING">>, <<"TROVE_OPENED", "ACTIVE">>},
   LIQUIDATED |-> {<<"OPEN_TROVE_PRESSED", "OPENING">>, <<"TROVE_OPENED", "ACTIVE">>,
                   <<"TROVE_SURPLUS_COLLATERAL_CLAIMED", "NONE">>},
   REDEEMED   |-> {<<"OPEN_TROVE_PRESSED", "OPENING">>, <<"TROVE_OPENED", "ACTIVE">>,
                   <<"TROVE_SURPLUS_COLLATERAL_CLAIMED", "NONE">>},
   OPENING    |-> {<<"CANCEL_ADJUST_TROVE_PRESSED", "NONE">>, <<"TROVE_OPENED", "ACTIVE">>},
   ADJUSTING  |-> {<<"CANCEL_ADJUST_TROVE_PRESSED", "ACTIVE">>, <<"TROVE_ADJUSTED", "ACTIVE">>,
                   <<"TROVE_CLOSED", "NONE">>, <<"TROVE_LIQUIDATED", "LIQUIDATED">>,
                   <<"TROVE_REDEEMED", "REDEEMED">>},
   CLOSING    |-> {<<"CANCEL_ADJUST_TROVE_PRESSED", "ACTIVE">>, <<"TROVE_ADJUSTED", "ACTIVE">>,
                   <<"TROVE_CLOSED", "NONE">>, <<"TROVE_LIQUIDATED", "LIQUIDATED">>,
                   <<"TROVE_REDEEMED", "REDEEMED">>},
   ACTIVE     |-> {<<"ADJUST_TROVE_PRESSED", "ADJUSTING">>, <<"CLOSE_TROVE_PRESSED", "CLOSING">>,
                   <<"TROVE_CLOSED", "NONE">>, <<"TROVE_LIQUIDATED", "LIQUIDATED">>,
                   <<"TROVE_REDEEMED", "REDEEMED">>}]

\* A liquidation is not listed while the vault is being closed.
ClosingIgnoresLiquidation(v, event) ==
  IF v = "CLOSING" /\ event = "TROVE_LIQUIDATED" THEN v
  ELSE IF \E t \in Transitions[v] : t[1] = event
  THEN (CHOOSE t \in Transitions[v] : t[1] = event)[2] ELSE v

\* An event that the view does not list leaves it.
Transition(v, event) ==
  IF \E t \in Transitions[v] : t[1] = event
  THEN (CHOOSE t \in Transitions[v] : t[1] = event)[2] ELSE v

StatusEvents ==
  [nonExistent |-> "", open |-> "TROVE_OPENED", closedByOwner |-> "TROVE_CLOSED",
   closedByLiquidation |-> "TROVE_LIQUIDATED", closedByRedemption |-> "TROVE_REDEEMED"]

-----------------------------------------------------------------------------
(* The reducers of the panels. *)

Managed(v) == v \in {"OPENING", "ADJUSTING", "CLOSING"}

\* edited: not changed, or other amounts, or none.
Manager(v, t) == [changePending |-> t = "waitingForApproval",
                  edited |-> IF v = "CLOSING" THEN "nothing" ELSE "original"]
Unmounted == [changePending |-> FALSE, edited |-> "original"]

\* The manager m when the view becomes v.
ManagerIn(v, m) ==
  IF ~Managed(v) \/ away THEN Unmounted
  ELSE IF Managed(view) THEN m
  ELSE Manager(v, MyType("vault"))

Change(status, edited) ==
  CASE edited = "original"                       -> "none"
    [] status # "open" /\ edited = "amounts"     -> "creation"
    [] status # "open" /\ edited = "nothing"     -> "none"
    [] status = "open" /\ edited = "amounts"     -> "adjustment"
    [] status = "open" /\ edited = "nothing"     -> "closure"

\* updateStore: the edit is dropped when it has been made, and kept otherwise.
UpdatedManager(m, new) ==
  LET change == Change(store.status, m.edited)
      committed == new.vault # store.vault
  IN IF m.changePending /\ committed THEN Unmounted
     ELSE IF \/ change = "creation" /\ new.status = "open"
             \/ change = "closure" /\ new.status # "open"
     THEN [m EXCEPT !.edited = "original"] ELSE m

\* changePending after the panel sees the type of its transaction.
PendingAfter(pending, type) ==
  CASE type = "waitingForApproval"      -> TRUE
    [] type \in {"failed", "cancelled"} -> FALSE
    [] OTHER                            -> pending

\* The manager looks again at its transaction when the kind of the edit has changed.
LookedAgain(m, before, after) ==
  IF before = after THEN m ELSE [m EXCEPT !.changePending = PendingAfter(@, MyType("vault"))]

-----------------------------------------------------------------------------
(* setTransactionState, and the effects that follow it. *)

\* The monitor of a transaction whose receipt has come is finished.
Unfinished(received) ==
  transactionState.type = "waitingForConfirmation" /\ transactionState.tx \notin received

\* An unfinished monitor makes the state idle when it is cleaned up, whatever replaced its
\* transaction; the one-shot confirmation becomes the lasting one.
Settled(state, received) ==
  IF Unfinished(received) THEN Idle
  ELSE IF state.type = "confirmedOneShot" THEN [state EXCEPT !.type = "confirmed"] ELSE state

Ended(state) == state.type \in {"confirmed", "failed", "cancelled"}

\* The event with which a confirmation reaches the view: the panels send it.
ConfirmedEvent(state) ==
  LET change == Change(store.status, manager.edited)
  IN CASE away \/ state.type # "confirmedOneShot"                           -> ""
       [] state.id = "vault" /\ Managed(view) /\ change = "closure"         -> "TROVE_CLOSED"
       [] state.id = "vault" /\ Managed(view) /\ change \in {"creation", "adjustment"}
                                                                            -> "TROVE_ADJUSTED"
       [] state.id = "claim-coll-surplus" /\ view \in {"LIQUIDATED", "REDEEMED"}
                                                        -> "TROVE_SURPLUS_COLLATERAL_CLAIMED"
       [] OTHER                                                             -> ""

\* A panel looks at a type that is new to it.
Sees(panel, state) == state.id = panel /\ state.type # MyType(panel)

SetTransactionState(state, received) ==
  /\ transactionState' = Settled(state, received)
  /\ timed' = Ended(transactionState')  \* the timer of the state before is cancelled
  /\ view' = Transition(view, ConfirmedEvent(state))
  /\ manager' = ManagerIn(view',
       IF Sees("vault", state)
       THEN [manager EXCEPT !.changePending = PendingAfter(@, state.type)] ELSE manager)
  /\ stakePending' = IF Sees("stake", state) THEN PendingAfter(stakePending, state.type)
                     ELSE stakePending
  /\ UNCHANGED away

-----------------------------------------------------------------------------
(* The user. *)

Init ==
  /\ account \in [status : {"nonExistent", "open"}, vault : {0}, stake : {0}, gains : {FALSE}]
  /\ intrusions = 0 /\ past = {} /\ late = 0 /\ store = account
  /\ sends = 0 /\ wallet = <<>> /\ txs = <<>>
  /\ transactionState = Idle /\ timed = FALSE /\ reverting = {}
  /\ away = FALSE /\ view = (IF account.status = "open" THEN "ACTIVE" ELSE "NONE")
  /\ manager = Unmounted /\ stakePending = FALSE

Press(event) ==
  /\ ~away /\ Transition(view, event) # view
  /\ view' = Transition(view, event)
  /\ manager' = ManagerIn(view', manager)
  /\ UNCHANGED <<account, intrusions, past, late, store, sends, wallet, txs, transactionState,
                 timed, reverting, away, stakePending>>

Edit(edited) ==
  /\ ~away /\ Managed(view) /\ manager.edited # edited
  /\ manager' = LookedAgain([manager EXCEPT !.edited = edited],
                            Change(store.status, manager.edited), Change(store.status, edited))
  /\ UNCHANGED <<account, intrusions, past, late, store, sends, wallet, txs, transactionState,
                 timed, reverting, away, view, stakePending>>

\* To the pages of liquidation and redemption, ...
Leave ==
  /\ ~away
  /\ away' = TRUE /\ manager' = Unmounted
  /\ UNCHANGED <<account, intrusions, past, late, store, sends, wallet, txs, transactionState,
                 timed, reverting, view, stakePending>>

\* ... and back: the manager is mounted anew.
Return ==
  /\ away
  /\ away' = FALSE
  /\ manager' = IF Managed(view) THEN Manager(view, MyType("vault")) ELSE Unmounted
  /\ UNCHANGED <<account, intrusions, past, late, store, sends, wallet, txs, transactionState,
                 timed, reverting, view, stakePending>>

\* The panel's spinner covers its buttons; only the claim's button waits for the others.
CanSend(panel, change) ==
  /\ ~away
  /\ CASE panel = "vault" -> /\ Managed(view) /\ ~manager.changePending
                             /\ change # "none" /\ change = Change(store.status, manager.edited)
       [] panel = "stake" -> /\ ~stakePending
                             /\ change \in {"stake", "gains"} /\ (change = "gains" => store.gains)
       [] panel = "claim-coll-surplus" ->
            /\ view \in {"LIQUIDATED", "REDEEMED"} /\ change = "surplus"
            /\ ~Waiting(transactionState) /\ MyType(panel) # "confirmed"

SendTransaction(panel, change) ==
  /\ CanSend(panel, change) /\ sends < MaxTransactions
  /\ sends' = sends + 1
  /\ wallet' = Append(wallet, [panel |-> panel, change |-> change, tx |-> 0])
  /\ SetTransactionState(TxState("waitingForApproval", panel), reverting)
  /\ UNCHANGED <<account, intrusions, past, late, store, txs, reverting>>

\* The user signs: the transaction is on its way, and may be mined before send() resolves.
Approve(i) ==
  /\ wallet[i].tx = 0
  /\ txs' = Append(txs, [panel |-> wallet[i].panel, change |-> wallet[i].change, outcome |-> "unknown"])
  /\ wallet' = [wallet EXCEPT ![i].tx = Len(txs')]
  /\ UNCHANGED <<account, intrusions, past, late, store, sends, transactionState, timed, reverting,
                 pageVars>>

SendResolves(i) ==
  /\ wallet[i].tx # 0
  /\ wallet' = RemoveAt(wallet, i)
  /\ SetTransactionState([type |-> "waitingForConfirmation", id |-> wallet[i].panel, tx |-> wallet[i].tx],
                         reverting)
  /\ UNCHANGED <<account, intrusions, past, late, store, sends, txs, reverting>>

\* Only a denial is caught.
OnlyDenialIsCaught(i, type) ==
  /\ type = "cancelled" => wallet[i].tx = 0
  /\ wallet' = RemoveAt(wallet, i)
  /\ IF type = "cancelled" THEN SetTransactionState(TxState(type, wallet[i].panel), reverting)
     ELSE UNCHANGED <<transactionState, timed, pageVars>>
  /\ UNCHANGED <<account, intrusions, past, late, store, sends, txs, reverting>>

\* The user denies the signature, or send() fails, be the transaction sent or not.
SendRejects(i, type) ==
  /\ type = "cancelled" => wallet[i].tx = 0
  /\ wallet' = RemoveAt(wallet, i)
  /\ SetTransactionState(TxState(type, wallet[i].panel), reverting)
  /\ UNCHANGED <<account, intrusions, past, late, store, sends, txs, reverting>>

-----------------------------------------------------------------------------
(* The chain, and what the page hears of it. *)

\* A change of the stake pays its gains out.
Executed(change) ==
  CASE change = "creation"   -> [account EXCEPT !.status = "open", !.vault = @ + 1]
    [] change = "adjustment" -> [account EXCEPT !.vault = @ + 1]
    [] change = "closure"    -> [account EXCEPT !.status = "closedByOwner", !.vault = @ + 1]
    [] change = "stake"      -> [account EXCEPT !.stake = @ + 1, !.gains = FALSE]
    [] change = "gains"      -> [account EXCEPT !.gains = FALSE]
    [] OTHER                 -> account
Executable(change) ==
  CASE change = "creation"                  -> account.status # "open"
    [] change \in {"adjustment", "closure"} -> account.status = "open"
    [] OTHER                                -> TRUE

\* A block with another account: fetches of the blocks before it may still be on their way.
AccountBecomes(new) ==
  account' = new /\ past' = IF new = account THEN past ELSE past \cup {account}

Mine(tx, outcome) ==
  /\ txs[tx].outcome = "unknown"
  /\ outcome = "succeeded" => Executable(txs[tx].change)
  /\ txs' = [txs EXCEPT ![tx].outcome = outcome]
  /\ AccountBecomes(IF outcome = "succeeded" THEN Executed(txs[tx].change) ELSE account)
  /\ UNCHANGED <<intrusions, late, store, sends, wallet, transactionState, timed, reverting, pageVars>>

\* Someone liquidates the vault or redeems all of it, or pays a fee to the stakes.
Intrude(new) ==
  /\ intrusions < MaxIntrusions
  /\ intrusions' = intrusions + 1
  /\ AccountBecomes(new)
  /\ UNCHANGED <<late, store, sends, wallet, txs, transactionState, timed, reverting, pageVars>>

\* A stake has changed, or lost gains; a claim is not seen if others came in the meantime.
StakeCommitted(old, new) == new.stake # old.stake \/ (old.gains /\ ~new.gains)

\* The state of some block arrives.  The reducers run first, then the view's effect on a new
\* status and the manager's on another kind of edit.
StoreUpdates(state) ==
  /\ state # store
  /\ late' = IF state = account THEN late ELSE late + 1
  /\ store' = state
  /\ view' = IF state.status = store.status THEN view
             ELSE Transition(view, StatusEvents[state.status])
  /\ LET updated == UpdatedManager(manager, state)
     IN manager' = ManagerIn(view', LookedAgain(updated, Change(store.status, manager.edited),
                                                Change(state.status, updated.edited)))
  /\ stakePending' = (stakePending /\ ~StakeCommitted(store, state))
  /\ UNCHANGED <<account, intrusions, past, sends, wallet, txs, transactionState, timed, reverting,
                 away>>

Monitored(tx) ==
  transactionState.type = "waitingForConfirmation" /\ transactionState.tx = tx /\ tx \notin reverting

\* A failed receipt leads to a call for the reason first.
Receive(tx) ==
  /\ Monitored(tx) /\ txs[tx].outcome # "unknown"
  /\ IF txs[tx].outcome = "succeeded"
     THEN SetTransactionState(TxState("confirmedOneShot", txs[tx].panel), {tx}) /\ UNCHANGED reverting
     ELSE /\ reverting' = reverting \cup {tx}
          /\ UNCHANGED <<transactionState, timed, pageVars>>
  /\ UNCHANGED <<account, intrusions, past, late, store, sends, wallet, txs>>

\* The receipt cannot be had; the transaction may still succeed.
ReceiptFails(tx) ==
  /\ Monitored(tx)
  /\ SetTransactionState(TxState("failed", txs[tx].panel), reverting)
  /\ UNCHANGED <<account, intrusions, past, late, store, sends, wallet, txs, reverting>>

\* A finished monitor is not cancelled any more: its failure is shown even if the state
\* belongs to another transaction by now.
ReasonArrives(tx) ==
  /\ reverting' = reverting \ {tx}
  /\ SetTransactionState(TxState("failed", txs[tx].panel), reverting)
  /\ UNCHANGED <<account, intrusions, past, late, store, sends, wallet, txs>>

TimerFires ==
  /\ timed
  /\ SetTransactionState(Idle, reverting)
  /\ UNCHANGED <<account, intrusions, past, late, store, sends, wallet, txs, reverting>>

-----------------------------------------------------------------------------
UserStep ==
  \/ \E event \in {"OPEN_TROVE_PRESSED", "ADJUST_TROVE_PRESSED", "CLOSE_TROVE_PRESSED",
                   "CANCEL_ADJUST_TROVE_PRESSED"} : Press(event)
  \/ \E edited \in {"original", "amounts", "nothing"} : Edit(edited)
  \/ Leave \/ Return
  \/ \E panel \in Panels,
        change \in {"creation", "adjustment", "closure", "stake", "gains", "surplus"} :
        SendTransaction(panel, change)

WalletAnswers ==
  \E i \in 1..Len(wallet) :
    Approve(i) \/ SendResolves(i) \/ \E type \in {"cancelled", "failed"} : SendRejects(i, type)
Mining == \E tx \in 1..Len(txs), outcome \in {"succeeded", "reverted"} : Mine(tx, outcome)
ReceiptArrives == \E tx \in 1..Len(txs) : Receive(tx)
ReceiptIsLost == \E tx \in 1..Len(txs) : ReceiptFails(tx)
AnyReasonArrives == \E tx \in reverting : ReasonArrives(tx)
VaultIsClosed ==
  /\ account.status = "open"
  /\ \E status \in {"closedByLiquidation", "closedByRedemption"} :
       Intrude([account EXCEPT !.status = status, !.vault = @ + 1])
FeeIsPaid == ~account.gains /\ Intrude([account EXCEPT !.gains = TRUE])

NewestArrives == StoreUpdates(account)
OlderArrives == late < MaxLate /\ \E state \in past \ {account} : StoreUpdates(state)

Next ==
  UserStep \/ VaultIsClosed \/ FeeIsPaid \/ WalletAnswers \/ Mining \/ NewestArrives \/ OlderArrives
  \/ ReceiptArrives \/ ReceiptIsLost \/ AnyReasonArrives \/ TimerFires

\* The user answers the wallet, which sends; the network mines and answers; the newest block
\* reaches the store.
Fairness ==
  /\ WF_vars(WalletAnswers) /\ WF_vars(Mining) /\ WF_vars(NewestArrives)
  /\ WF_vars(ReceiptArrives) /\ WF_vars(AnyReasonArrives) /\ WF_vars(TimerFires)

Spec == Init /\ [][Next]_vars /\ Fairness

-----------------------------------------------------------------------------
\* The vault panel offers to adjust or close no vault that the page knows to be gone,
\* whichever of receipt, store update, older block and button came first: no sequence of
\* confirmations, liquidations and cancelled edits leaves it there.
ActiveViewIsNotClosed ==
  view \in {"ACTIVE", "ADJUSTING", "CLOSING"} =>
    store.status \notin {"closedByOwner", "closedByLiquidation", "closedByRedemption"}

\* "You must wait for confirmation": whatever is sent while another transaction waits, denied,
\* lost, reverted or overtaken, the shared state comes free again.
WaitingEnds == Waiting(transactionState) ~> ~Waiting(transactionState)

\* What StakingViewContext.tsx says of changePending, that a staking transaction is pending:
\* the spinner ends, by the receipt, the refusal or the update of the store.
PendingEnds == stakePending ~> ~stakePending
=============================================================================
