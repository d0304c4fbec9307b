--------------------------- MODULE OffChainProofs ---------------------------
(***************************************************************************)
(* Proofs about the programs beside the contracts: the page, the           *)
(* deployment script and the indexer.  They have nothing in common but     *)
(* that they go on from what they last saw of the chain.                   *)
(*                                                                         *)
(* The page: the vault panel never offers a vault that the page knows to   *)
(* be gone, for any number of transactions and of fetches that overtake    *)
(* one another.                                                            *)
(*                                                                         *)
(* The script, for any beneficiaries and any number of interruptions: what *)
(* its file names is only given what its file names, and the steps that    *)
(* the script has passed hold.  The parts: names and links, the steps of   *)
(* the script and of the chain, the order of the script, the               *)
(* specification.                                                          *)
(*                                                                         *)
(* The indexer, for any users, prices, calls and blocks: once a block is   *)
(* handled the index has the vaults, snapshots and surplus of the          *)
(* contracts, and its changes are chained in one sequence.  The parts: the *)
(* types and the order of the log, what a sequence of events does to a     *)
(* vault, the events of each transaction, the index while it handles an    *)
(* event, the handlers, the specification.                                 *)
(***************************************************************************)
EXTENDS FrontEnd, Deployment, Subgraph, TLAPS

Views == {"NONE", "LIQUIDATED", "REDEEMED", "OPENING", "ADJUSTING", "CLOSING", "ACTIVE"}
OpenViews == {"ACTIVE", "ADJUSTING", "CLOSING"}
ClosedStatuses == {"closedByOwner", "closedByLiquidation", "closedByRedemption"}

\* Nothing has to be known of the chain: the store may go back to any block.
IInv == view \in Views /\ ActiveViewIsNotClosed

-----------------------------------------------------------------------------
(* The table of the view's transitions. *)

\* A transition that the table lists is the one taken.
LEMMA Listed ==
  ASSUME NEW v \in Views, NEW e, \E t \in Transitions[v] : t[1] = e
  PROVE  <<e, Transition(v, e)>> \in Transitions[v]
<1> DEFINE t == CHOOSE t \in Transitions[v] : t[1] = e
<1>1. t \in Transitions[v] /\ t[1] = e
  OBVIOUS
<1>2. Transition(v, e) = t[2]
  BY DEF Transition
<1> HIDE DEF t
<1>3. t = <<t[1], t[2]>>
  BY <1>1 DEF Transitions, Views
<1> QED
  BY <1>1, <1>2, <1>3

\* A view stays or moves as the table lists.
LEMMA Moves ==
  ASSUME NEW v \in Views, NEW e
  PROVE  /\ Transition(v, e) = v \/ <<e, Transition(v, e)>> \in Transitions[v]
         /\ Transition(v, e) \in Views
<1>1. CASE \E t \in Transitions[v] : t[1] = e
  <2>1. <<e, Transition(v, e)>> \in Transitions[v]
    BY <1>1, Listed
  <2> QED
    BY <2>1 DEF Transitions, Views
<1>2. CASE ~\E t \in Transitions[v] : t[1] = e
  BY <1>2 DEF Transition
<1> QED
  BY <1>1, <1>2

\* Only the status "open" leads to a vault from a view without one.
LEMMA OthersOpenNothing ==
  ASSUME NEW v \in Views, NEW e, e # "TROVE_OPENED", Transition(v, e) \in OpenViews
  PROVE  v \in OpenViews
<1>1. Transition(v, e) = v \/ <<e, Transition(v, e)>> \in Transitions[v]
  BY Moves
<1> QED
  BY <1>1 DEF Transitions, Views, OpenViews

\* Every view of a vault hears of its end.
LEMMA EndsAreHeard ==
  ASSUME NEW v \in Views, NEW s \in ClosedStatuses
  PROVE  Transition(v, StatusEvents[s]) \notin OpenViews
<1> DEFINE e == StatusEvents[s]
<1>1. e \in {"TROVE_CLOSED", "TROVE_LIQUIDATED", "TROVE_REDEEMED"}
  <2>1. CASE s = "closedByOwner"
    BY <2>1 DEF StatusEvents
  <2>2. CASE s = "closedByLiquidation"
    BY <2>2 DEF StatusEvents
  <2>3. CASE s = "closedByRedemption"
    BY <2>3 DEF StatusEvents
  <2> QED
    BY <2>1, <2>2, <2>3 DEF ClosedStatuses
<1> HIDE DEF e
<1>2. CASE v \in OpenViews
  <2>1. \E t \in Transitions[v] : t[1] = e
    <3> DEFINE end == IF e = "TROVE_CLOSED" THEN <<e, "NONE">>
                      ELSE IF e = "TROVE_LIQUIDATED" THEN <<e, "LIQUIDATED">>
                      ELSE <<e, "REDEEMED">>
    <3>1. end \in Transitions[v]
      BY <1>1, <1>2 DEF Transitions, OpenViews
    <3>2. end[1] = e
      BY <1>1
    <3> QED
      BY <3>1, <3>2
  <2>2. <<e, Transition(v, e)>> \in Transitions[v]
    BY <2>1, Listed
  <2> QED
    BY <1>1, <1>2, <2>2 DEF Transitions, OpenViews, e
<1>3. CASE v \notin OpenViews
  BY <1>1, <1>3, OthersOpenNothing DEF e
<1> QED
  BY <1>2, <1>3

-----------------------------------------------------------------------------
(* The steps. *)

\* Any event but TROVE_OPENED keeps the invariant.
LEMMA ViewMovesInv ==
  ASSUME IInv, NEW e, e # "TROVE_OPENED", view' = Transition(view, e), store' = store
  PROVE  IInv'
<1>1. view' \in Views
  BY Moves DEF IInv
<1>2. view' \in OpenViews => view \in OpenViews
  BY OthersOpenNothing DEF IInv
<1> QED
  BY <1>1, <1>2 DEF IInv, ActiveViewIsNotClosed, OpenViews

\* What leaves the view and the store alone keeps it.
LEMMA ViewStaysInv ==
  ASSUME IInv, UNCHANGED <<view, store>>
  PROVE  IInv'
BY DEF IInv, ActiveViewIsNotClosed

\* A change of the transaction's state keeps it.
LEMMA SetTransactionStateInv ==
  ASSUME IInv, NEW state, NEW received, SetTransactionState(state, received), store' = store
  PROVE  IInv'
<1>1. ConfirmedEvent(state) # "TROVE_OPENED"
  BY DEF ConfirmedEvent
<1>2. view' = Transition(view, ConfirmedEvent(state))
  BY DEF SetTransactionState
<1> QED
  BY <1>1, <1>2, ViewMovesInv

\* The store brings the account of some block, newer or older, and the event of its status:
\* an end is heard in every view of a vault, and a status that was known already was heard.
LEMMA StoreUpdatesInv ==
  ASSUME IInv, NEW state, StoreUpdates(state)
  PROVE  IInv'
<1>1. store' = state
  BY DEF StoreUpdates
<1>2. CASE state.status = store.status
  BY <1>1, <1>2 DEF StoreUpdates, IInv, ActiveViewIsNotClosed
<1>3. CASE state.status # store.status
  <2>1. view' = Transition(view, StatusEvents[state.status])
    BY <1>3 DEF StoreUpdates
  <2>2. view' \in Views
    BY <2>1, Moves DEF IInv
  <2>3. state.status \in ClosedStatuses => view' \notin OpenViews
    BY <2>1, EndsAreHeard DEF IInv
  <2> QED
    BY <1>1, <2>2, <2>3 DEF IInv, ActiveViewIsNotClosed, OpenViews, ClosedStatuses
<1> QED
  BY <1>2, <1>3

\* The page when it opens.
LEMMA InitInv == Init => IInv
BY DEF Init, IInv, ActiveViewIsNotClosed, Views

\* What the user does keeps it, ...
LEMMA UserStepInv ==
  ASSUME IInv, UserStep
  PROVE  IInv'
<1>1. ASSUME NEW event \in {"OPEN_TROVE_PRESSED", "ADJUST_TROVE_PRESSED", "CLOSE_TROVE_PRESSED",
                            "CANCEL_ADJUST_TROVE_PRESSED"}, Press(event)
      PROVE  IInv'
  BY <1>1, ViewMovesInv DEF Press
<1>2. ASSUME NEW edited, Edit(edited)
      PROVE  IInv'
  BY <1>2, ViewStaysInv DEF Edit
<1>3. CASE Leave \/ Return
  BY <1>3, ViewStaysInv DEF Leave, Return
<1>4. ASSUME NEW panel, NEW change, SendTransaction(panel, change)
      PROVE  IInv'
  BY <1>4, SetTransactionStateInv DEF SendTransaction
<1> QED
  BY <1>1, <1>2, <1>3, <1>4 DEF UserStep

\* ... and so does what the wallet answers, ...
LEMMA WalletAnswersInv ==
  ASSUME IInv, WalletAnswers
  PROVE  IInv'
<1>1. ASSUME NEW i, Approve(i)
      PROVE  IInv'
  BY <1>1, ViewStaysInv DEF Approve, pageVars
<1>2. ASSUME NEW i, SendResolves(i)
      PROVE  IInv'
  BY <1>2, SetTransactionStateInv DEF SendResolves
<1>3. ASSUME NEW i, NEW type, SendRejects(i, type)
      PROVE  IInv'
  BY <1>3, SetTransactionStateInv DEF SendRejects
<1> QED
  BY <1>1, <1>2, <1>3 DEF WalletAnswers

\* ... and what the page hears of a transaction.
LEMMA ReceiptsInv ==
  ASSUME IInv, ReceiptArrives \/ ReceiptIsLost \/ AnyReasonArrives \/ TimerFires
  PROVE  IInv'
<1>1. ASSUME NEW tx, Receive(tx)
      PROVE  IInv'
  <2>1. CASE txs[tx].outcome = "succeeded"
    BY <1>1, <2>1, SetTransactionStateInv DEF Receive
  <2>2. CASE txs[tx].outcome # "succeeded"
    BY <1>1, <2>2, ViewStaysInv DEF Receive, pageVars
  <2> QED
    BY <2>1, <2>2
<1>2. ASSUME NEW tx, ReceiptFails(tx)
      PROVE  IInv'
  BY <1>2, SetTransactionStateInv DEF ReceiptFails
<1>3. ASSUME NEW tx, ReasonArrives(tx)
      PROVE  IInv'
  BY <1>3, SetTransactionStateInv DEF ReasonArrives
<1>4. CASE TimerFires
  BY <1>4, SetTransactionStateInv DEF TimerFires
<1> QED
  BY <1>1, <1>2, <1>3, <1>4 DEF ReceiptArrives, ReceiptIsLost, AnyReasonArrives

\* Every step keeps the invariant.
LEMMA NextInv == IInv /\ [Next]_vars => IInv'
<1> SUFFICES ASSUME IInv, [Next]_vars
             PROVE  IInv'
  OBVIOUS
<1>1. CASE UserStep
  BY <1>1, UserStepInv
<1>2. CASE WalletAnswers
  BY <1>2, WalletAnswersInv
<1>3. CASE ReceiptArrives \/ ReceiptIsLost \/ AnyReasonArrives \/ TimerFires
  BY <1>3, ReceiptsInv
<1>4. ASSUME NEW tx, NEW outcome, Mine(tx, outcome)
      PROVE  IInv'
  BY <1>4, ViewStaysInv DEF Mine, pageVars
<1>5. ASSUME NEW new, Intrude(new)
      PROVE  IInv'
  BY <1>5, ViewStaysInv DEF Intrude, pageVars
<1>6. ASSUME NEW state, StoreUpdates(state)
      PROVE  IInv'
  BY <1>6, StoreUpdatesInv
<1>7. CASE UNCHANGED vars
  BY <1>7, ViewStaysInv DEF vars, pageVars
<1> QED
  BY <1>1, <1>2, <1>3, <1>4, <1>5, <1>6, <1>7
     DEF Next, Mining, VaultIsClosed, FeeIsPaid, NewestArrives, OlderArrives

-----------------------------------------------------------------------------
\* The view of the vault panel is none of a vault that the page knows to be gone, whatever the
\* order of buttons, receipts, failures and fetches, the overtaken ones included.
THEOREM ActiveViewIsNeverClosed == Spec => []ActiveViewIsNotClosed
<1>1. IInv => ActiveViewIsNotClosed
  BY DEF IInv
<1> QED
  BY InitInv, NextInv, <1>1, PTL DEF Spec

-----------------------------------------------------------------------------
(* The deployment. *)

Steps == 1..Len(Script)

\* The names that the script uses.
Labels == {Script[i].name : i \in Steps} \cup UNION {Script[i].refs : i \in Steps}

\* The deployment that a name stands for.
Base(name) == IF name = "pair" THEN "bpdToken" ELSE IF name = "vault" THEN "vaultManager" ELSE name

DeployedBefore(name, i) ==
  \E j \in 1..(i - 1) : Script[j].op = "deploy" /\ Script[j].name = Base(name)

\* What the order of the script has to be for it to be run again at any point.
ScriptFacts ==
  /\ Len(Script) \in Nat
  /\ \A i \in Steps :
       /\ Script[i].op \in {"deploy", "connect", "create"}
       /\ Script[i].op = "deploy" =>
            Script[i].name \in Names /\ Script[i].name \notin {"pair", "vault", "oracle"}
       /\ Script[i].op # "deploy" =>
            /\ DeployedBefore(Script[i].name, i) /\ Script[i].name # "oracle"
       /\ Script[i].op = "connect" => Script[i].refs # {} /\ Script[i].name \notin {"pair", "vault"}
       /\ \A ref \in Script[i].refs : ref = "oracle" \/ DeployedBefore(ref, i)
  /\ \A i, j \in Steps :
       Script[i].op = "connect" /\ Script[j].name = Script[i].name =>
         Script[j] = Script[i] \/ Script[j].refs = {}
  /\ \A i \in Steps : Script[i].name \in LockupNames =>
       /\ Script[i].op = "deploy" /\ Script[i].refs = {"mpToken"}
       /\ \E j \in 1..(i - 1) : Script[j] = Connect("lockupContractFactory", {"mpToken"})

Contracts == Labels \X Nat
Txs == [op : {"deploy", "connect", "create"}, contract : Contracts,
        links : SUBSET (Contracts \X Contracts)]

Pool == {mempool[k] : k \in 1..Len(mempool)}

DeploymentTypes ==
  /\ file \in [Names -> Nat] /\ deploymentState \in [Names -> Nat] /\ sent \in [Names -> Nat]
  /\ pc \in 0..(Len(Script) + 1) /\ phase \in {"check", "send", "wait"}
  /\ mempool \in Seq(Txs)
  /\ contracts \subseteq Contracts /\ links \subseteq Contracts \X Contracts

Memory == (pc > 0 => deploymentState = file) /\ (phase # "check" => Running)

\* A name that the state of the deployment has a contract for.
KnownIn(state, name) == name = "oracle" \/ (Base(name) \in Names /\ state[Base(name)] # 0)

\* What step i gives to the contract: links to contracts of the file, from one of the file
\* unless it is just being deployed.
IsOf(state, i, contract) ==
  /\ contract[1] = Script[i].name
  /\ \A ref \in Script[i].refs : KnownIn(state, ref)
  /\ Script[i].op # "deploy" =>
       KnownIn(state, Script[i].name) /\ contract = ContractOf(state, Script[i].name)

IsTxOf(state, i, tx) ==
  /\ tx.op = Script[i].op /\ tx.links = LinksOf(state, Script[i], tx.contract)
  /\ IsOf(state, i, tx.contract)

IsLinkOf(state, i, link) ==
  link \in LinksOf(state, Script[i], link[1]) /\ IsOf(state, i, link[1])

Awaited(op, contract) == \E tx \in Pool : tx.op = op /\ tx.contract = contract

Linked(contract) == \E link \in links : link[1] = contract

DeploysArrive ==
  /\ \A n \in Names : \A k \in 1..sent[n] : <<n, k>> \in contracts \/ Awaited("deploy", <<n, k>>)
  /\ \A n \in Names : file[n] # 0 => <<n, file[n]>> \in contracts

PoolInv ==
  \A tx \in Pool :
    /\ \E i \in Steps : IsTxOf(file, i, tx)
    /\ ~RefusesArguments(tx) /\ (tx.op = "deploy" => ~Reverts(tx))
    /\ tx.op = "connect" => \A link \in tx.links : HasCode(link[2])

LinksInv == \A link \in links : \E i \in Steps : IsLinkOf(file, i, link)

ConnectedAtOnce ==
  \A i \in Steps :
    LET contract == ContractOf(file, Script[i].name)
    IN Script[i].op = "connect" /\ KnownIn(file, Script[i].name) /\ Linked(contract)
         => LinksOf(file, Script[i], contract) \subseteq links

StepDone(i) ==
  CASE Script[i].op = "deploy"  -> file[Script[i].name] # 0
    [] Script[i].op = "connect" -> Linked(ContractOf(file, Script[i].name))
    [] Script[i].op = "create"  -> ContractOf(file, Script[i].name) \in contracts

StepsDone == \A i \in Steps : i < pc => StepDone(i)

StepSent ==
  /\ phase # "check" /\ Script[pc].op = "deploy" => file[Script[pc].name] = 0
  /\ phase = "wait" =>
       LET contract == ContractOf(file, Script[pc].name)
       IN CASE Script[pc].op = "deploy"  -> sent[Script[pc].name] > 0
            [] Script[pc].op = "connect" -> Linked(contract) \/ Awaited("connect", contract)
            [] Script[pc].op = "create"  -> contract \in contracts \/ Awaited("create", contract)

DeploymentInv ==
  /\ DeploymentTypes /\ Memory
  /\ DeploysArrive /\ PoolInv /\ LinksInv
  /\ ConnectedAtOnce /\ StepsDone /\ StepSent

-----------------------------------------------------------------------------
\* Names and what they are given.

\* The contract that a known name stands for.
LEMMA KnownContracts ==
  ASSUME NEW state \in [Names -> Nat], NEW name \in Labels, KnownIn(state, name)
  PROVE  /\ NumberIn(state, name) = (IF name = "oracle" THEN 1 ELSE state[Base(name)])
         /\ ContractOf(state, name) \in Contracts
<1>1. NumberIn(state, name) = (IF name = "oracle" THEN 1 ELSE state[Base(name)])
  BY DEF NumberIn, Base
<1>2. NumberIn(state, name) \in Nat
  BY <1>1 DEF KnownIn
<1> QED
  BY <1>1, <1>2 DEF ContractOf, Contracts

\* A state of the deployment in which more names are known.
Grown(state, later) == \A n \in Names : state[n] # 0 => later[n] = state[n]

\* What was known stays.
LEMMA KnownStays ==
  ASSUME NEW state, NEW later, Grown(state, later), NEW name, KnownIn(state, name)
  PROVE  KnownIn(later, name) /\ ContractOf(later, name) = ContractOf(state, name)
<1>1. KnownIn(later, name)
  BY DEF KnownIn, Grown
<1>2. NumberIn(later, name) = NumberIn(state, name)
  <2>1. CASE name = "oracle"
    BY <2>1 DEF NumberIn
  <2>2. CASE name # "oracle"
    <3>1. later[Base(name)] = state[Base(name)]
      BY <2>2 DEF KnownIn, Grown
    <3> QED
      BY <2>2, <3>1 DEF NumberIn, Base
  <2> QED
    BY <2>1, <2>2
<1> QED
  BY <1>1, <1>2 DEF ContractOf

\* What a step gives to known contracts stays.
LEMMA LinksStay ==
  ASSUME NEW state, NEW later, Grown(state, later), NEW i, NEW contract,
         \A ref \in Script[i].refs : KnownIn(state, ref)
  PROVE  LinksOf(later, Script[i], contract) = LinksOf(state, Script[i], contract)
<1>1. \A ref \in Script[i].refs : ContractOf(later, ref) = ContractOf(state, ref)
  BY KnownStays
<1> QED
  BY <1>1 DEF LinksOf

\* So do a transaction and a link of a step.
LEMMA IsOfStays ==
  ASSUME NEW state, NEW later, Grown(state, later), NEW i
  PROVE  /\ \A tx : IsTxOf(state, i, tx) => IsTxOf(later, i, tx)
         /\ \A link : IsLinkOf(state, i, link) => IsLinkOf(later, i, link)
<1>1. \A contract : IsOf(state, i, contract) =>
        /\ IsOf(later, i, contract)
        /\ LinksOf(later, Script[i], contract) = LinksOf(state, Script[i], contract)
  <2> SUFFICES ASSUME NEW contract, IsOf(state, i, contract)
               PROVE  /\ IsOf(later, i, contract)
                      /\ LinksOf(later, Script[i], contract) = LinksOf(state, Script[i], contract)
    OBVIOUS
  <2>1. \A ref \in Script[i].refs : KnownIn(state, ref) /\ KnownIn(later, ref)
    BY KnownStays DEF IsOf
  <2>2. LinksOf(later, Script[i], contract) = LinksOf(state, Script[i], contract)
    BY <2>1, LinksStay
  <2> QED
    BY <2>1, <2>2, KnownStays DEF IsOf
<1> QED
  BY <1>1 DEF IsTxOf, IsLinkOf

\* The targets of links are contracts of the file.
LEMMA TargetsAreKnown ==
  ASSUME NEW state, NEW i, NEW link, IsLinkOf(state, i, link)
  PROVE  \E ref \in Script[i].refs :
           KnownIn(state, ref) /\ link = <<link[1], ContractOf(state, ref)>>
BY DEF IsLinkOf, IsOf, LinksOf

\* The links of a transaction of a step are links of it.
LEMMA LinksOfTx ==
  ASSUME NEW state, NEW i, NEW tx, IsTxOf(state, i, tx), NEW link \in tx.links
  PROVE  IsLinkOf(state, i, link) /\ link[1] = tx.contract
<1>1. link[1] = tx.contract
  BY DEF IsTxOf, LinksOf
<1> QED
  BY <1>1 DEF IsTxOf, IsLinkOf

\* The only links from a contract with a step that connects it are of that step.
LEMMA LinksOfConnected ==
  ASSUME ScriptFacts, NEW state, NEW i \in Steps, Script[i].op = "connect", NEW j \in Steps,
         NEW link, IsLinkOf(state, j, link), link[1][1] = Script[i].name
  PROVE  /\ Script[j] = Script[i] /\ KnownIn(state, Script[i].name)
         /\ link[1] = ContractOf(state, Script[i].name)
         /\ link \in LinksOf(state, Script[i], link[1])
<1>1. Script[j].name = Script[i].name /\ Script[j].refs # {}
  BY TargetsAreKnown DEF IsLinkOf, IsOf
<1>2. Script[j] = Script[i]
  BY <1>1 DEF ScriptFacts
<1> QED
  BY <1>2 DEF IsLinkOf, IsOf

\* Names are looked at before they are used: at a step all that it needs is known.
LEMMA StepNeedsKnown ==
  ASSUME ScriptFacts, DeploymentTypes, StepsDone, NEW i \in Steps, i <= pc
  PROVE  /\ \A ref \in Script[i].refs : KnownIn(file, ref)
         /\ Script[i].op # "deploy" => KnownIn(file, Script[i].name)
<1>1. ASSUME NEW name, DeployedBefore(name, i)
      PROVE  KnownIn(file, name)
  <2>1. PICK j \in 1..(i - 1) : Script[j].op = "deploy" /\ Script[j].name = Base(name)
    BY <1>1 DEF DeployedBefore
  <2>2. j \in Steps /\ j < pc
    BY <2>1 DEF Steps, ScriptFacts, DeploymentTypes
  <2>3. file[Script[j].name] # 0 /\ Script[j].name \in Names
    BY <2>1, <2>2 DEF StepsDone, StepDone, ScriptFacts
  <2> QED
    BY <2>1, <2>3 DEF KnownIn
<1> QED
  BY <1>1 DEF ScriptFacts, KnownIn

\* The transactions that wait, when one is sent or mined.
LEMMA PoolAfter ==
  ASSUME NEW tx \in Txs, mempool \in Seq(Txs)
  PROVE  /\ mempool' = Append(mempool, tx) => mempool' \in Seq(Txs) /\ Pool' = Pool \cup {tx}
         /\ mempool # <<>> => Head(mempool) \in Pool /\ Head(mempool) \in Txs
         /\ mempool # <<>> /\ mempool' = Tail(mempool) =>
              mempool' \in Seq(Txs) /\ Pool' \subseteq Pool /\ Pool \subseteq Pool' \cup {Head(mempool)}
         /\ mempool = <<>> => Pool = {}
<1>1. Len(mempool) \in Nat
  OBVIOUS
<1>2. ASSUME mempool' = Append(mempool, tx)
      PROVE  mempool' \in Seq(Txs) /\ Pool' = Pool \cup {tx}
  <2>1. /\ mempool' \in Seq(Txs) /\ Len(mempool') = Len(mempool) + 1
        /\ \A k \in 1..Len(mempool) : mempool'[k] = mempool[k]
        /\ mempool'[Len(mempool) + 1] = tx
    BY <1>2
  <2>2. \A k : k \in 1..(Len(mempool) + 1) <=> k \in 1..Len(mempool) \/ k = Len(mempool) + 1
    BY <1>1
  <2> QED
    BY <2>1, <2>2 DEF Pool
<1>3. ASSUME mempool # <<>>
      PROVE  Head(mempool) \in Pool /\ Head(mempool) \in Txs
  <2>1. Head(mempool) = mempool[1] /\ 1 \in 1..Len(mempool)
    BY <1>3
  <2> QED
    BY <2>1 DEF Pool
<1>4. ASSUME mempool # <<>>, mempool' = Tail(mempool)
      PROVE  mempool' \in Seq(Txs) /\ Pool' \subseteq Pool /\ Pool \subseteq Pool' \cup {Head(mempool)}
  <2>1. /\ mempool' \in Seq(Txs) /\ Len(mempool') = Len(mempool) - 1 /\ Head(mempool) = mempool[1]
        /\ \A k \in 1..(Len(mempool) - 1) : mempool'[k] = mempool[k + 1]
    BY <1>4
  <2>2. Pool' \subseteq Pool
    <3>1. \A k \in 1..(Len(mempool) - 1) : k + 1 \in 1..Len(mempool)
      BY <1>1
    <3> QED
      BY <2>1, <3>1 DEF Pool
  <2>3. ASSUME NEW k \in 1..Len(mempool)
        PROVE  mempool[k] \in Pool' \cup {mempool[1]}
    <3>1. CASE k = 1
      BY <3>1
    <3>2. CASE k # 1
      <4>1. k - 1 \in 1..(Len(mempool) - 1) /\ k = (k - 1) + 1
        BY <1>1, <3>2
      <4>2. mempool'[k - 1] = mempool[k]
        BY <2>1, <4>1
      <4> QED
        BY <2>1, <4>1, <4>2 DEF Pool
    <3> QED
      BY <3>1, <3>2
  <2> QED
    BY <2>1, <2>2, <2>3 DEF Pool
<1>5. mempool = <<>> => Pool = {}
  BY DEF Pool
<1> QED
  BY <1>2, <1>3, <1>4, <1>5

\* What is said of the chain.
OnChainInv == DeploysArrive /\ PoolInv /\ LinksInv /\ ConnectedAtOnce

\* A step of the script alone changes nothing on the chain.
LEMMA ChainStays ==
  ASSUME OnChainInv, UNCHANGED <<file, mempool, sent, contracts, links, refuses>>
  PROVE  OnChainInv'
<1>1. DeploysArrive'
  <2>1. \A op, contract : Awaited(op, contract) => Awaited(op, contract)'
    BY DEF Awaited, Pool
  <2> QED
    BY <2>1 DEF OnChainInv, DeploysArrive
<1>2. PoolInv'
  BY DEF OnChainInv, PoolInv, Pool, RefusesArguments, Reverts, ConstructorReverts, LockupReverts,
     SetAddressesReverts, OwnerIsZero, HasCode
<1>3. LinksInv'
  BY DEF OnChainInv, LinksInv
<1>4. ConnectedAtOnce'
  BY DEF OnChainInv, ConnectedAtOnce, Linked
<1> QED
  BY <1>1, <1>2, <1>3, <1>4 DEF OnChainInv

\* The script begins, ...
LEMMA StartKeeps ==
  ASSUME ScriptFacts, DeploymentInv, Start
  PROVE  DeploymentInv'
<1>1. OnChainInv'
  BY ChainStays DEF DeploymentInv, OnChainInv, Start
<1>2. DeploymentTypes' /\ Memory' /\ StepSent'
  BY DEF DeploymentInv, DeploymentTypes, Memory, Running, Start, StepSent, ScriptFacts
<1>3. StepsDone'
  BY DEF Start, StepsDone, Steps
<1> QED
  BY <1>1, <1>2, <1>3 DEF DeploymentInv, OnChainInv

\* ... is interrupted, or ends at an estimate that throws, ...
LEMMA StopKeeps ==
  ASSUME ScriptFacts, DeploymentInv, Stop, UNCHANGED <<file, mempool, sent, contracts, links, refuses>>
  PROVE  DeploymentInv'
<1>1. OnChainInv'
  BY ChainStays DEF DeploymentInv, OnChainInv
<1>2. Nothing \in [Names -> Nat]
  BY DEF Nothing
<1>3. DeploymentTypes' /\ Memory' /\ StepSent'
  BY <1>2 DEF DeploymentInv, DeploymentTypes, Memory, Running, Stop, StepSent, ScriptFacts
<1>4. StepsDone'
  BY DEF Stop, StepsDone, Steps
<1> QED
  BY <1>1, <1>3, <1>4 DEF DeploymentInv, OnChainInv

\* Where the script is.
LEMMA AtAStep ==
  ASSUME ScriptFacts, DeploymentInv, Running
  PROVE  /\ pc \in Steps /\ pc + 1 \in 0..(Len(Script) + 1) /\ deploymentState = file
         /\ \A i \in Steps : i < pc + 1 => i < pc \/ i = pc
BY DEF ScriptFacts, DeploymentInv, DeploymentTypes, Memory, Running, Finished, Steps

\* A step that is over, and those before it.
LEMMA NextStepKeeps ==
  ASSUME ScriptFacts, DeploymentInv, Running, NextStep, StepDone(pc),
         UNCHANGED <<file, deploymentState, mempool, sent, contracts, links, refuses>>
  PROVE  DeploymentInv'
<1>1. OnChainInv'
  BY ChainStays DEF DeploymentInv, OnChainInv
<1>2. DeploymentTypes' /\ Memory' /\ StepSent'
  BY AtAStep DEF DeploymentInv, DeploymentTypes, Memory, NextStep, StepSent
<1>3. StepsDone'
  <2>1. \A i \in Steps : i < pc + 1 => StepDone(i)
    BY AtAStep DEF DeploymentInv, StepsDone
  <2>2. \A i \in Steps : StepDone(i) => StepDone(i)'
    BY DEF StepDone, Linked
  <2> QED
    BY <2>1, <2>2 DEF StepsDone, NextStep
<1> QED
  BY <1>1, <1>2, <1>3 DEF DeploymentInv, OnChainInv

\* ... finds a step done, ...
LEMMA SkipKeeps ==
  ASSUME ScriptFacts, DeploymentInv, SkipStep
  PROVE  DeploymentInv'
<1>1. pc \in Steps /\ deploymentState = file
  BY AtAStep DEF SkipStep
<1>2. StepDone(pc)
  <2>1. Done(Script[pc])
    BY DEF SkipStep, Step
  <2>2. Script[pc].op \in {"deploy", "connect", "create"}
    BY <1>1 DEF ScriptFacts
  <2> QED
    BY <1>1, <2>1, <2>2 DEF Done, StepDone, PreviouslyDeployed, IsOwnershipRenounced,
       OwnerIsZero, Linked
<1> QED
  BY <1>2, NextStepKeeps DEF SkipStep

\* ... or decides to send.
LEMMA DecideKeeps ==
  ASSUME ScriptFacts, DeploymentInv, DecideToSend
  PROVE  DeploymentInv'
<1>0. pc \in Steps /\ deploymentState = file
  BY AtAStep DEF DecideToSend
<1>1. OnChainInv'
  BY ChainStays DEF DeploymentInv, OnChainInv, DecideToSend
<1>2. DeploymentTypes' /\ Memory'
  BY DEF DeploymentInv, DeploymentTypes, Memory, DecideToSend, Running, Finished
<1>3. StepsDone'
  BY DEF DeploymentInv, StepsDone, StepDone, Linked, DecideToSend
<1>4. StepSent'
  BY <1>0 DEF StepSent, DecideToSend, Done, Step, PreviouslyDeployed
<1> QED
  BY <1>1, <1>2, <1>3, <1>4 DEF DeploymentInv, OnChainInv

\* A step that the script has passed: its contract is on the chain, and connected as it says.
LEMMA PassedStep ==
  ASSUME ScriptFacts, DeploymentInv, NEW i \in Steps, i < pc
  PROVE  /\ ContractOf(file, Script[i].name) \in contracts
         /\ Script[i].op = "connect" =>
              {link \in links : link[1] = ContractOf(file, Script[i].name)}
                = LinksOf(file, Script[i], ContractOf(file, Script[i].name))
<1> DEFINE contract == ContractOf(file, Script[i].name)
<1>1. DeploymentTypes /\ StepsDone /\ DeploysArrive /\ LinksInv /\ ConnectedAtOnce
  BY DEF DeploymentInv
<1>2. i <= pc /\ StepDone(i)
  BY <1>1 DEF StepsDone, Steps, ScriptFacts, DeploymentTypes
<1>3. /\ \A ref \in Script[i].refs : KnownIn(file, ref)
      /\ Script[i].op # "deploy" => KnownIn(file, Script[i].name)
  BY <1>1, <1>2, StepNeedsKnown
<1>4. ASSUME NEW name \in Names, name \notin {"pair", "vault", "oracle"}, file[name] # 0
      PROVE  ContractOf(file, name) \in contracts
  <2>1. ContractOf(file, name) = <<name, file[name]>>
    BY <1>4 DEF ContractOf, NumberIn
  <2> QED
    BY <1>1, <1>4, <2>1 DEF DeploysArrive
<1>5. /\ Script[i].op \in {"deploy", "connect", "create"}
      /\ Script[i].op = "deploy" =>
           Script[i].name \in Names /\ Script[i].name \notin {"pair", "vault", "oracle"}
      /\ Script[i].op = "connect" => Script[i].name \notin {"pair", "vault", "oracle"}
  BY DEF ScriptFacts
<1>6. contract \in contracts
  <2>1. CASE Script[i].op = "deploy"
    <3>1. file[Script[i].name] # 0
      BY <1>2, <2>1 DEF StepDone
    <3> QED
      BY <1>4, <1>5, <2>1, <3>1
  <2>2. CASE Script[i].op = "connect"
    <3>1. Script[i].name \in Names /\ file[Script[i].name] # 0
      BY <1>3, <1>5, <2>2 DEF KnownIn, Base
    <3> QED
      BY <1>4, <1>5, <2>2, <3>1
  <2>3. CASE Script[i].op = "create"
    BY <1>2, <2>3 DEF StepDone
  <2> QED
    BY <1>5, <2>1, <2>2, <2>3
<1>7. ASSUME Script[i].op = "connect"
      PROVE  {link \in links : link[1] = contract} = LinksOf(file, Script[i], contract)
  <2>1. Linked(contract)
    BY <1>2, <1>7 DEF StepDone
  <2>2. LinksOf(file, Script[i], contract) \subseteq links
    BY <1>1, <1>3, <1>7, <2>1 DEF ConnectedAtOnce
  <2>3. \A link \in LinksOf(file, Script[i], contract) : link[1] = contract
    <3> HIDE DEF contract
    <3> QED
      BY DEF LinksOf
  <2>4. ASSUME NEW link \in links, link[1] = contract
        PROVE  link \in LinksOf(file, Script[i], contract)
    <3>1. PICK j \in Steps : IsLinkOf(file, j, link)
      BY <1>1 DEF LinksInv
    <3>2. link[1][1] = Script[i].name
      BY <2>4 DEF ContractOf
    <3>3. link \in LinksOf(file, Script[i], link[1])
      BY <1>7, <3>1, <3>2, LinksOfConnected
    <3> QED
      BY <2>4, <3>3
  <2> HIDE DEF contract
  <2> QED
    BY <2>2, <2>3, <2>4
<1> QED
  BY <1>6, <1>7

\* What the factory gives to a lockup contract: the token that the file names.
LEMMA GivenToLockup ==
  ASSUME ScriptFacts, DeploymentInv, NEW i \in Steps, i <= pc, Script[i].name \in LockupNames,
         NEW contract
  PROVE  GivenBy(ContractOf(file, "lockupContractFactory"), contract)
           = LinksOf(file, Script[i], contract)
<1> DEFINE factory == ContractOf(file, "lockupContractFactory")
           token == ContractOf(file, "mpToken")
<1>1. /\ Script[i].refs = {"mpToken"}
      /\ \E j \in 1..(i - 1) : Script[j] = Connect("lockupContractFactory", {"mpToken"})
  BY DEF ScriptFacts
<1>2. PICK j \in 1..(i - 1) : Script[j] = Connect("lockupContractFactory", {"mpToken"})
  BY <1>1
<1>3. j \in Steps /\ j < pc
  BY DEF Steps, ScriptFacts, DeploymentInv, DeploymentTypes
<1>4. /\ Script[j].op = "connect" /\ Script[j].name = "lockupContractFactory"
      /\ Script[j].refs = {"mpToken"}
  BY ONLY <1>2 DEF Connect
<1>5. {link \in links : link[1] = factory} = LinksOf(file, Script[j], factory)
  BY <1>3, <1>4, PassedStep
<1> HIDE DEF factory, token
<1>6. LinksOf(file, Script[j], factory) = {<<factory, token>>}
  BY ONLY <1>4 DEF LinksOf, token
<1>7. GivenBy(factory, contract) = {<<contract, token>>}
  <2>1. {link \in links : link[1] = factory} = {<<factory, token>>}
    BY ONLY <1>5, <1>6
  <2>2. GivenBy(factory, contract) = {<<contract, link[2]>> : link \in {<<factory, token>>}}
    BY ONLY <2>1 DEF GivenBy
  <2> QED
    BY ONLY <2>2
<1>8. LinksOf(file, Script[i], contract) = {<<contract, token>>}
  BY ONLY <1>1 DEF LinksOf, token
<1> QED
  BY <1>7, <1>8 DEF factory

\* The transaction of a step.
LEMMA TxOfStep ==
  ASSUME ScriptFacts, DeploymentInv, Running, phase = "send"
  PROVE  /\ Tx \in Txs /\ IsTxOf(file, pc, Tx) /\ Tx.op = Script[pc].op
         /\ Script[pc].op = "deploy" =>
              /\ Script[pc].name \in Names
              /\ Tx.contract = <<Script[pc].name, sent[Script[pc].name] + 1>>
         /\ Script[pc].op # "deploy" => Tx.contract = ContractOf(file, Script[pc].name)
<1> DEFINE step == Script[pc]
           contract == IF step.op = "deploy" THEN <<step.name, sent[step.name] + 1>>
                       ELSE ContractOf(file, step.name)
<1>0. pc \in Steps /\ deploymentState = file
  BY AtAStep
<1>1. /\ step.op \in {"deploy", "connect", "create"} /\ step.name \in Labels
      /\ step.op = "deploy" => step.name \in Names
      /\ \A ref \in step.refs : ref \in Labels
  <2>1. step.name \in Labels /\ \A ref \in step.refs : ref \in Labels
    BY <1>0 DEF Labels
  <2>2. step.op \in {"deploy", "connect", "create"} /\ (step.op = "deploy" => step.name \in Names)
    BY <1>0 DEF ScriptFacts
  <2> QED
    BY <2>1, <2>2
<1>2. /\ file \in [Names -> Nat] /\ sent \in [Names -> Nat]
      /\ \A ref \in step.refs : KnownIn(file, ref)
      /\ step.op # "deploy" => KnownIn(file, step.name)
  BY <1>0, StepNeedsKnown DEF DeploymentInv, DeploymentTypes, Steps
<1>3. Tx = [op |-> step.op, contract |-> contract, links |-> LinksOf(file, step, contract)]
  <2>1. CASE step.name \in LockupNames
    <3>1. pc <= pc
      BY <1>0 DEF Steps, DeploymentInv, DeploymentTypes
    <3>2. GivenBy(ContractOf(file, "lockupContractFactory"), contract) = LinksOf(file, step, contract)
      BY <1>0, <2>1, <3>1, GivenToLockup
    <3> QED
      BY <1>0, <2>1, <3>2 DEF Tx, Step
  <2>2. CASE step.name \notin LockupNames
    BY <1>0, <2>2 DEF Tx, Step
  <2> QED
    BY <2>1, <2>2
<1>4. contract \in Contracts
  <2>1. CASE step.op = "deploy"
    BY <1>1, <1>2, <2>1 DEF Contracts
  <2>2. CASE step.op # "deploy"
    BY <1>1, <1>2, <2>2, KnownContracts
  <2> QED
    BY <2>1, <2>2
<1>5. contract[1] = step.name
  BY DEF ContractOf
<1>6. LinksOf(file, step, contract) \in SUBSET (Contracts \X Contracts)
  <2> HIDE DEF contract
  <2>1. \A ref \in step.refs : ContractOf(file, ref) \in Contracts
    BY <1>1, <1>2, KnownContracts
  <2> QED
    BY <1>4, <2>1 DEF LinksOf
<1>7. step.op # "deploy" => contract = ContractOf(file, step.name)
  OBVIOUS
<1>8. step.op = "deploy" => contract = <<step.name, sent[step.name] + 1>>
  OBVIOUS
<1> HIDE DEF contract
<1>9. Tx \in Txs
  BY <1>1, <1>3, <1>4, <1>6 DEF Txs
<1>10. IsTxOf(file, pc, Tx)
  BY <1>2, <1>3, <1>5, <1>7 DEF IsTxOf, IsOf
<1> QED
  BY <1>1, <1>3, <1>7, <1>8, <1>9, <1>10

\* A transaction that is sent: of the step, with contracts of the file.
LEMMA SendKeeps ==
  ASSUME ScriptFacts, DeploymentInv, Send
  PROVE  DeploymentInv'
<1>0. Running /\ phase = "send" /\ pc \in Steps /\ deploymentState = file
  BY AtAStep DEF Send
<1>1. CASE Reverts(Tx)
  BY <1>1, StopKeeps DEF Send
<1>2. CASE ~Reverts(Tx)
  <2> DEFINE name == Script[pc].name
  <2>0. PICK tx \in Txs : tx = Tx
    BY <1>0, TxOfStep
  <2>1. /\ mempool' = Append(mempool, tx) /\ phase' = "wait"
        /\ sent' = (IF Script[pc].op = "deploy" THEN [sent EXCEPT ![name] = @ + 1] ELSE sent)
        /\ UNCHANGED <<file, deploymentState, pc, contracts, links, refuses>>
    BY <1>2, <2>0 DEF Send, Step
  <2>2. mempool' \in Seq(Txs) /\ Pool' = Pool \cup {tx}
    BY <2>1, PoolAfter DEF DeploymentInv, DeploymentTypes
  <2>3. /\ IsTxOf(file, pc, tx) /\ tx.op = Script[pc].op
        /\ Script[pc].op = "deploy" => name \in Names /\ tx.contract = <<name, sent[name] + 1>>
        /\ Script[pc].op # "deploy" => tx.contract = ContractOf(file, name)
    BY <1>0, <2>0, TxOfStep
  <2>4. sent \in [Names -> Nat] /\ sent' \in [Names -> Nat]
    BY <2>1, <2>3 DEF DeploymentInv, DeploymentTypes
  <2>5. DeploymentTypes' /\ Memory'
    BY <1>0, <2>1, <2>2, <2>4 DEF DeploymentInv, DeploymentTypes, Memory, Running, Finished
  <2>6. PoolInv'
    <3>1. /\ ~RefusesArguments(tx) /\ ~Reverts(tx)
          /\ tx.op = "connect" => \A link \in tx.links : HasCode(link[2])
      BY <1>2, <2>0 DEF Reverts, SetAddressesReverts
    <3>2. \A t \in Pool \cup {tx} :
            /\ \E i \in Steps : IsTxOf(file, i, t)
            /\ ~RefusesArguments(t) /\ (t.op = "deploy" => ~Reverts(t))
            /\ t.op = "connect" => \A link \in t.links : HasCode(link[2])
      BY <1>0, <2>3, <3>1 DEF DeploymentInv, PoolInv
    <3>3. \A t : /\ RefusesArguments(t)' = RefusesArguments(t) /\ Reverts(t)' = Reverts(t)
                /\ \A link : HasCode(link[2])' = HasCode(link[2])
      BY <2>1 DEF RefusesArguments, Reverts, ConstructorReverts, LockupReverts,
         SetAddressesReverts, OwnerIsZero, HasCode
    <3> QED
      BY <2>1, <2>2, <3>2, <3>3 DEF PoolInv
  <2>7. \A op, contract : Awaited(op, contract) => Awaited(op, contract)'
    BY <2>2 DEF Awaited
  <2>8. Awaited(tx.op, tx.contract)'
    BY <2>2 DEF Awaited
  <2>9. DeploysArrive'
    <3> SUFFICES ASSUME NEW n \in Names, NEW k \in 1..sent'[n]
                 PROVE  <<n, k>> \in contracts \/ Awaited("deploy", <<n, k>>)'
      BY <2>1 DEF DeploymentInv, DeploysArrive
    <3>1. CASE k \in 1..sent[n]
      BY <2>7, <3>1 DEF DeploymentInv, DeploysArrive
    <3>2. CASE k \notin 1..sent[n]
      <4>1. Script[pc].op = "deploy" /\ n = name /\ k = sent[name] + 1
        BY <2>1, <2>3, <2>4, <3>2
      <4> QED
        BY <2>3, <2>8, <4>1
    <3> QED
      BY <3>1, <3>2
  <2>10. LinksInv' /\ ConnectedAtOnce'
    BY <2>1 DEF DeploymentInv, LinksInv, ConnectedAtOnce, Linked
  <2>11. StepsDone'
    BY <2>1 DEF DeploymentInv, StepsDone, StepDone, Linked
  <2>12. StepSent'
    <3>1. Script[pc].op = "deploy" => file[name] = 0 /\ sent'[name] > 0
      BY <1>0, <2>1, <2>3, <2>4 DEF DeploymentInv, StepSent
    <3>2. Script[pc].op \in {"deploy", "connect", "create"}
      BY <1>0 DEF ScriptFacts
    <3> QED
      BY <2>1, <2>3, <2>8, <3>1, <3>2 DEF StepSent
  <2> QED
    BY <2>5, <2>6, <2>9, <2>10, <2>11, <2>12 DEF DeploymentInv
<1> QED
  BY <1>1, <1>2

\* A receipt: nothing waits any more, so the step is done; a deployment is saved.
LEMMA ReceiveKeeps ==
  ASSUME ScriptFacts, DeploymentInv, ReceiveReceipt
  PROVE  DeploymentInv'
<1> DEFINE name == Script[pc].name
<1>0. /\ Running /\ phase = "wait" /\ pc \in Steps /\ deploymentState = file
      /\ NextStep /\ UNCHANGED <<mempool, sent, contracts, links, refuses>>
      /\ Script[pc].op \in {"deploy", "connect", "create"}
  BY AtAStep DEF ReceiveReceipt, ScriptFacts
<1>1. Pool = {}
  BY DEF Pool, ReceiveReceipt, Mined
<1>2. CASE Script[pc].op # "deploy"
  <2>1. UNCHANGED <<file, deploymentState>>
    BY <1>2 DEF ReceiveReceipt, Step
  <2>2. StepDone(pc)
    BY <1>0, <1>1, <1>2 DEF DeploymentInv, StepSent, StepDone, Awaited
  <2> QED
    BY <1>0, <2>1, <2>2, NextStepKeeps
<1>3. CASE Script[pc].op = "deploy"
  <2>1. file' = [file EXCEPT ![name] = sent[name]] /\ deploymentState' = file'
    BY <1>0, <1>3 DEF ReceiveReceipt, Step
  <2>2. /\ name \in Names /\ file \in [Names -> Nat] /\ sent \in [Names -> Nat]
        /\ file[name] = 0 /\ sent[name] > 0
    BY <1>0, <1>3 DEF DeploymentInv, DeploymentTypes, StepSent, ScriptFacts
  <2>3. Grown(file, file') /\ file' \in [Names -> Nat] /\ file'[name] # 0
    BY <2>1, <2>2 DEF Grown
  <2>4. DeploymentTypes' /\ Memory' /\ StepSent'
    BY <1>0, <2>1, <2>3, AtAStep DEF DeploymentInv, DeploymentTypes, Memory, NextStep, StepSent
  <2>5. DeploysArrive'
    <3>1. \A n \in Names : \A k \in 1..sent[n] : <<n, k>> \in contracts
      BY <1>1 DEF DeploymentInv, DeploysArrive, Awaited
    <3>2. <<name, sent[name]>> \in contracts
      BY <2>2, <3>1
    <3>3. \A n \in Names : file'[n] # 0 => <<n, file'[n]>> \in contracts
      BY <2>1, <2>2, <3>2 DEF DeploymentInv, DeploysArrive
    <3> QED
      BY <1>0, <3>1, <3>3 DEF DeploysArrive
  <2>6. PoolInv'
    BY <1>0, <1>1 DEF PoolInv, Pool
  <2>7. LinksInv'
    BY <1>0, <2>3, IsOfStays DEF DeploymentInv, LinksInv
  <2>8. ConnectedAtOnce'
    <3> SUFFICES ASSUME NEW i \in Steps, Script[i].op = "connect", NEW link \in links,
                        link[1] = ContractOf(file', Script[i].name)
                 PROVE  LinksOf(file', Script[i], link[1]) \subseteq links
      BY <1>0 DEF ConnectedAtOnce, Linked
    <3>1. PICK j \in Steps : IsLinkOf(file, j, link)
      BY DEF DeploymentInv, LinksInv
    <3>2. link[1][1] = Script[i].name
      BY DEF ContractOf
    <3>3. /\ Script[j] = Script[i] /\ KnownIn(file, Script[i].name)
          /\ link[1] = ContractOf(file, Script[i].name)
      BY <3>1, <3>2, LinksOfConnected
    <3>4. LinksOf(file', Script[i], link[1]) = LinksOf(file, Script[i], link[1])
      BY <2>3, <3>1, <3>3, LinksStay DEF IsLinkOf, IsOf
    <3>5. LinksOf(file, Script[i], link[1]) \subseteq links
      BY <3>3 DEF DeploymentInv, ConnectedAtOnce, Linked
    <3> QED
      BY <3>4, <3>5
  <2>9. StepsDone'
    <3>1. ASSUME NEW i \in Steps, i < pc
          PROVE  StepDone(i)'
      <4>1. StepDone(i)
        BY <3>1 DEF DeploymentInv, StepsDone
      <4>2. Script[i].op # "deploy" =>
              ContractOf(file', Script[i].name) = ContractOf(file, Script[i].name)
        <5>1. i <= pc
          BY <1>0, <3>1 DEF Steps, ScriptFacts
        <5> QED
          BY <2>3, <5>1, StepNeedsKnown, KnownStays DEF DeploymentInv
      <4>3. Script[i].op = "deploy" => file'[Script[i].name] # 0
        BY <2>3, <4>1 DEF StepDone, Grown, ScriptFacts
      <4>4. Script[i].op \in {"deploy", "connect", "create"}
        BY DEF ScriptFacts
      <4> QED
        BY <1>0, <4>1, <4>2, <4>3, <4>4 DEF StepDone, Linked
    <3>2. ASSUME NEW i \in Steps, i = pc
          PROVE  StepDone(i)'
      BY <1>3, <2>3, <3>2 DEF StepDone
    <3> QED
      BY <1>0, <3>1, <3>2, AtAStep DEF StepsDone, NextStep
  <2> QED
    BY <2>4, <2>5, <2>6, <2>7, <2>8, <2>9 DEF DeploymentInv
<1> QED
  BY <1>2, <1>3

\* What is mined: nothing that a call reverts on, or a contract with all its links at once.
LEMMA MineKeeps ==
  ASSUME ScriptFacts, DeploymentInv, MineTransaction
  PROVE  DeploymentInv'
<1>0. mempool \in Seq(Txs) /\ mempool # <<>>
  BY DEF DeploymentInv, DeploymentTypes, MineTransaction
<1>1. PICK tx \in Txs : tx = Head(mempool) /\ tx \in Pool
  BY <1>0, PoolAfter
<1>2. /\ mempool' = Tail(mempool) /\ UNCHANGED <<file, deploymentState, pc, phase, sent, refuses>>
      /\ IF Reverts(tx) THEN UNCHANGED <<contracts, links>>
         ELSE contracts' = contracts \cup {tx.contract} /\ links' = links \cup tx.links
  BY <1>1 DEF MineTransaction
<1>3. mempool' \in Seq(Txs) /\ Pool' \subseteq Pool /\ Pool \subseteq Pool' \cup {tx}
  BY <1>0, <1>1, <1>2, PoolAfter
<1>4. contracts \subseteq contracts' /\ links \subseteq links'
  BY <1>2
<1>5. \A op, contract : Awaited(op, contract) =>
        Awaited(op, contract)' \/ (tx.op = op /\ tx.contract = contract)
  BY <1>3 DEF Awaited
<1>6. \A contract : Linked(contract) => Linked(contract)'
  BY <1>4 DEF Linked
<1>7. PICK j \in Steps : IsTxOf(file, j, tx)
  BY <1>1 DEF DeploymentInv, PoolInv
<1>8. DeploymentTypes' /\ Memory'
  <2>1. tx.contract \in Contracts /\ tx.links \subseteq Contracts \X Contracts
    BY DEF Txs
  <2> QED
    BY <1>2, <1>3, <2>1 DEF DeploymentInv, DeploymentTypes, Memory, Running, Finished
<1>9. DeploysArrive'
  <2>1. tx.op = "deploy" => tx.contract \in contracts'
    BY <1>1, <1>2 DEF DeploymentInv, PoolInv
  <2>2. \A n \in Names : \A k \in 1..sent[n] :
          <<n, k>> \in contracts' \/ Awaited("deploy", <<n, k>>)'
    BY <1>4, <1>5, <2>1 DEF DeploymentInv, DeploysArrive
  <2> QED
    BY <1>2, <1>4, <2>2 DEF DeploymentInv, DeploysArrive
<1>10. PoolInv'
  <2>1. \A contract : HasCode(contract) => HasCode(contract)'
    BY <1>4 DEF HasCode
  <2>2. \A t : RefusesArguments(t)' = RefusesArguments(t)
    BY <1>2 DEF RefusesArguments
  <2>3. ASSUME NEW t, t.op = "deploy", ~Reverts(t)
        PROVE  ~Reverts(t)'
    <3>1. ~RefusesArguments(t) /\ ~ConstructorReverts(t) /\ ~LockupReverts(t)
      BY <2>3 DEF Reverts
    <3>2. ~RefusesArguments(t)' /\ ~ConstructorReverts(t)' /\ ~LockupReverts(t)'
      BY <2>1, <2>2, <3>1 DEF ConstructorReverts, LockupReverts
    <3> QED
      BY <2>3, <3>2 DEF Reverts
  <2> QED
    BY <1>2, <1>3, <2>1, <2>2, <2>3 DEF DeploymentInv, PoolInv
<1>11. LinksInv'
  <2>1. \A link \in tx.links : IsLinkOf(file, j, link)
    BY <1>7, LinksOfTx
  <2>2. \A link \in links' : link \in links \/ link \in tx.links
    BY <1>2
  <2>3. \A link \in links' : \E i \in Steps : IsLinkOf(file, i, link)
    BY <2>1, <2>2 DEF DeploymentInv, LinksInv
  <2> QED
    BY <1>2, <2>3 DEF LinksInv
<1>12. ConnectedAtOnce'
  <2> SUFFICES ASSUME NEW i \in Steps, Script[i].op = "connect", KnownIn(file, Script[i].name),
                      NEW link \in links', link[1] = ContractOf(file, Script[i].name)
               PROVE  LinksOf(file, Script[i], link[1]) \subseteq links'
    BY <1>2 DEF ConnectedAtOnce, Linked
  <2>1. CASE link \in links
    <3>1. LinksOf(file, Script[i], link[1]) \subseteq links
      BY <2>1 DEF DeploymentInv, ConnectedAtOnce, Linked
    <3> QED
      BY <1>4, <3>1
  <2>2. CASE link \notin links
    <3>1. link \in tx.links /\ links' = links \cup tx.links
      BY <1>2, <2>2
    <3>2. IsLinkOf(file, j, link) /\ link[1] = tx.contract
      BY <1>7, <3>1, LinksOfTx
    <3>3. link[1][1] = Script[i].name
      BY DEF ContractOf
    <3>4. Script[j] = Script[i]
      BY <3>2, <3>3, LinksOfConnected
    <3>5. tx.links = LinksOf(file, Script[i], link[1])
      BY <1>7, <3>2, <3>4 DEF IsTxOf
    <3> QED
      BY <3>1, <3>5
  <2> QED
    BY <2>1, <2>2
<1>13. StepsDone'
  <2>1. ASSUME NEW i \in Steps, StepDone(i)
        PROVE  StepDone(i)'
    <3>1. Script[i].op \in {"deploy", "connect", "create"}
      BY DEF ScriptFacts
    <3> QED
      BY <1>2, <1>4, <2>1, <3>1 DEF StepDone, Linked
  <2> QED
    BY <1>2, <2>1 DEF DeploymentInv, StepsDone
<1>14. StepSent'
  <2>0. PICK contract : contract = ContractOf(file, Script[pc].name)
    OBVIOUS
  <2>1. tx.op = "connect" => Linked(tx.contract)'
    <3> SUFFICES ASSUME tx.op = "connect" PROVE Linked(tx.contract)'
      OBVIOUS
    <3>1. CASE Reverts(tx)
      <4>1. ~RefusesArguments(tx) /\ \A link \in tx.links : HasCode(link[2])
        BY <1>1 DEF DeploymentInv, PoolInv
      <4>2. Linked(tx.contract)
        BY <3>1, <4>1 DEF Reverts, SetAddressesReverts, OwnerIsZero, Linked
      <4> QED
        BY <1>6, <4>2
    <3>2. CASE ~Reverts(tx)
      <4>1. Script[j].refs # {} /\ tx.links = LinksOf(file, Script[j], tx.contract)
        BY <1>7 DEF IsTxOf, ScriptFacts
      <4>2. PICK ref \in Script[j].refs : TRUE
        BY <4>1
      <4>3. <<tx.contract, ContractOf(file, ref)>> \in links'
        BY <1>2, <3>2, <4>1 DEF LinksOf
      <4> QED
        BY <4>3 DEF Linked
    <3> QED
      BY <3>1, <3>2
  <2>2. tx.op = "create" => tx.contract \in contracts'
    <3>1. ~RefusesArguments(tx)
      BY <1>1 DEF DeploymentInv, PoolInv
    <3> QED
      BY <1>2, <1>4, <3>1 DEF Reverts
  <2>3. ASSUME phase = "wait"
        PROVE  /\ Script[pc].op = "deploy" => sent[Script[pc].name] > 0
               /\ Script[pc].op = "connect" => Linked(contract)' \/ Awaited("connect", contract)'
               /\ Script[pc].op = "create" =>
                    contract \in contracts' \/ Awaited("create", contract)'
               /\ Script[pc].op \in {"deploy", "connect", "create"}
    <3>1. Script[pc].op \in {"deploy", "connect", "create"}
      BY <2>3, AtAStep DEF DeploymentInv, Memory, ScriptFacts
    <3>2. /\ Script[pc].op = "deploy" => sent[Script[pc].name] > 0
          /\ Script[pc].op = "connect" => Linked(contract) \/ Awaited("connect", contract)
          /\ Script[pc].op = "create" => contract \in contracts \/ Awaited("create", contract)
      BY <2>0, <2>3, <3>1 DEF DeploymentInv, StepSent
    <3>3. Awaited("connect", contract) => Awaited("connect", contract)' \/ Linked(contract)'
      BY <1>5, <2>1
    <3>4. Awaited("create", contract) => Awaited("create", contract)' \/ contract \in contracts'
      BY <1>5, <2>2
    <3>5. Linked(contract) => Linked(contract)'
      BY <1>6
    <3> QED
      BY <1>4, <3>1, <3>2, <3>3, <3>4, <3>5
  <2>4. phase # "check" /\ Script[pc].op = "deploy" => file[Script[pc].name] = 0
    BY DEF DeploymentInv, StepSent
  <2>5. contract = ContractOf(file', Script[pc'].name)
    BY <1>2, <2>0
  <2> QED
    BY <1>2, <2>3, <2>4, <2>5 DEF StepSent
<1> QED
  BY <1>8, <1>9, <1>10, <1>11, <1>12, <1>13, <1>14 DEF DeploymentInv

-----------------------------------------------------------------------------
(* The order of the script. *)

PairAndPool == <<[op |-> "create", name |-> "pair", refs |-> {"bpdToken"}], Deploy("rskSwapPool", {})>>
GetterAndPool ==
  <<Deploy("multiVaultGetter", {"vaultManager", "sortedVaults"}),
    Connect("rskSwapPool", {"mpToken", "pair"})>>
VaultStep == [op |-> "create", name |-> "vault", refs |-> {"vaultManager"}]

\* Sequence r is s, which has m elements, and then t, which has n.
IsJoin(r, s, m, t, n) ==
  /\ Len(r) = m + n
  /\ \A i \in 1..m : r[i] = s[i]
  /\ \A i \in (m + 1)..(m + n) : r[i] = t[i - m]

\* A concatenation.
LEMMA Concatenated ==
  ASSUME NEW T, NEW s \in Seq(T), NEW t \in Seq(T), NEW m, NEW n, Len(s) = m, Len(t) = n
  PROVE  s \o t \in Seq(T) /\ IsJoin(s \o t, s, m, t, n)
<1>1. Len(s) \in Nat /\ Len(t) \in Nat /\ s \o t \in Seq(T) /\ Len(s \o t) = Len(s) + Len(t)
  OBVIOUS
<1>2. \A i \in 1..Len(s) : (s \o t)[i] = s[i]
  OBVIOUS
<1>3. ASSUME NEW i \in (Len(s) + 1)..(Len(s) + Len(t)) PROVE (s \o t)[i] = t[i - Len(s)]
  OBVIOUS
<1> QED
  BY <1>1, <1>2, <1>3 DEF IsJoin

\* A function on an interval is a sequence.
LEMMA FunctionIsSequence ==
  ASSUME NEW T, NEW n \in Nat, NEW f \in [1..n -> T]
  PROVE  f \in Seq(T) /\ Len(f) = n
OBVIOUS

\* The steps of the script.
StepSet ==
  {DeployCore[i] : i \in 1..11} \cup {PairAndPool[i] : i \in 1..2} \cup {DeployMP[i] : i \in 1..4}
  \cup {ConnectCore[i] : i \in 1..9} \cup {ConnectMP[i] : i \in 1..3}
  \cup {GetterAndPool[i] : i \in 1..2} \cup {Lockups[i] : i \in 1..Len(Beneficiaries)} \cup {VaultStep}

\* The parts of the script.
LEMMA ScriptParts ==
  /\ DeployCore \in Seq(StepSet) /\ Len(DeployCore) = 11
  /\ PairAndPool \in Seq(StepSet) /\ Len(PairAndPool) = 2
  /\ DeployMP \in Seq(StepSet) /\ Len(DeployMP) = 4
  /\ ConnectCore \in Seq(StepSet) /\ Len(ConnectCore) = 9
  /\ ConnectMP \in Seq(StepSet) /\ Len(ConnectMP) = 3
  /\ GetterAndPool \in Seq(StepSet) /\ Len(GetterAndPool) = 2
  /\ Lockups \in Seq(StepSet) /\ Len(Lockups) = Len(Beneficiaries)
  /\ <<VaultStep>> \in Seq(StepSet) /\ Len(<<VaultStep>>) = 1
<1>1. DeployCore \in Seq(StepSet) /\ Len(DeployCore) = 11
  <2>1. DeployCore = [i \in 1..11 |-> DeployCore[i]]
    BY DEF DeployCore
  <2>2. \A i \in 1..11 : DeployCore[i] \in StepSet
    BY DEF StepSet
  <2> HIDE DEF DeployCore
  <2>3. DeployCore \in [1..11 -> StepSet]
    BY ONLY <2>1, <2>2
  <2> QED
    BY ONLY <2>3, FunctionIsSequence
<1>2. PairAndPool \in Seq(StepSet) /\ Len(PairAndPool) = 2
  <2>1. PairAndPool = [i \in 1..2 |-> PairAndPool[i]]
    BY DEF PairAndPool
  <2>2. \A i \in 1..2 : PairAndPool[i] \in StepSet
    BY DEF StepSet
  <2> HIDE DEF PairAndPool
  <2>3. PairAndPool \in [1..2 -> StepSet]
    BY ONLY <2>1, <2>2
  <2> QED
    BY ONLY <2>3, FunctionIsSequence
<1>3. DeployMP \in Seq(StepSet) /\ Len(DeployMP) = 4
  <2>1. DeployMP = [i \in 1..4 |-> DeployMP[i]]
    BY DEF DeployMP
  <2>2. \A i \in 1..4 : DeployMP[i] \in StepSet
    BY DEF StepSet
  <2> HIDE DEF DeployMP
  <2>3. DeployMP \in [1..4 -> StepSet]
    BY ONLY <2>1, <2>2
  <2> QED
    BY ONLY <2>3, FunctionIsSequence
<1>4. ConnectCore \in Seq(StepSet) /\ Len(ConnectCore) = 9
  <2>1. ConnectCore = [i \in 1..9 |-> ConnectCore[i]]
    BY DEF ConnectCore
  <2>2. \A i \in 1..9 : ConnectCore[i] \in StepSet
    BY DEF StepSet
  <2> HIDE DEF ConnectCore
  <2>3. ConnectCore \in [1..9 -> StepSet]
    BY ONLY <2>1, <2>2
  <2> QED
    BY ONLY <2>3, FunctionIsSequence
<1>5. ConnectMP \in Seq(StepSet) /\ Len(ConnectMP) = 3
  <2>1. ConnectMP = [i \in 1..3 |-> ConnectMP[i]]
    BY DEF ConnectMP
  <2>2. \A i \in 1..3 : ConnectMP[i] \in StepSet
    BY DEF StepSet
  <2> HIDE DEF ConnectMP
  <2>3. ConnectMP \in [1..3 -> StepSet]
    BY ONLY <2>1, <2>2
  <2> QED
    BY ONLY <2>3, FunctionIsSequence
<1>6. GetterAndPool \in Seq(StepSet) /\ Len(GetterAndPool) = 2
  <2>1. GetterAndPool = [i \in 1..2 |-> GetterAndPool[i]]
    BY DEF GetterAndPool
  <2>2. \A i \in 1..2 : GetterAndPool[i] \in StepSet
    BY DEF StepSet
  <2> HIDE DEF GetterAndPool
  <2>3. GetterAndPool \in [1..2 -> StepSet]
    BY ONLY <2>1, <2>2
  <2> QED
    BY ONLY <2>3, FunctionIsSequence
<1>7. Lockups \in Seq(StepSet) /\ Len(Lockups) = Len(Beneficiaries)
  <2>1. Len(Beneficiaries) \in Nat
    BY BeneficiariesAssumption
  <2>2. \A i \in 1..Len(Beneficiaries) : Lockups[i] \in StepSet
    BY DEF StepSet
  <2>3. Lockups = [i \in 1..Len(Beneficiaries) |-> Lockups[i]]
    BY DEF Lockups
  <2>4. Lockups \in [1..Len(Beneficiaries) -> StepSet]
    BY ONLY <2>2, <2>3
  <2> QED
    BY ONLY <2>1, <2>4, FunctionIsSequence
<1>8. <<VaultStep>> \in Seq(StepSet) /\ Len(<<VaultStep>>) = 1
  <2>1. VaultStep \in StepSet
    BY DEF StepSet
  <2> QED
    BY ONLY <2>1
<1> QED
  BY ONLY <1>1, <1>2, <1>3, <1>4, <1>5, <1>6, <1>7, <1>8

\* Where each step of the script is.
LEMMA ScriptAt ==
  /\ Len(Beneficiaries) \in Nat
  /\ Len(Script) = 32 + Len(Beneficiaries)
  /\ \A i \in 1..11 : Script[i] = DeployCore[i]
  /\ \A i \in 12..13 : Script[i] = PairAndPool[i - 11]
  /\ \A i \in 14..17 : Script[i] = DeployMP[i - 13]
  /\ \A i \in 18..26 : Script[i] = ConnectCore[i - 17]
  /\ \A i \in 27..29 : Script[i] = ConnectMP[i - 26]
  /\ \A i \in 30..31 : Script[i] = GetterAndPool[i - 29]
  /\ \A i \in 32..(31 + Len(Beneficiaries)) : Script[i] = Lockups[i - 31]
  /\ Script[32 + Len(Beneficiaries)] = VaultStep
<1> DEFINE n == Len(Beneficiaries)
           s2 == DeployCore \o PairAndPool
           s3 == s2 \o DeployMP
           s4 == s3 \o ConnectCore
           s5 == s4 \o ConnectMP
           s6 == s5 \o GetterAndPool
           s7 == s6 \o Lockups
           s8 == s7 \o <<VaultStep>>
<1>0. Script = s8
  BY DEF Script, PairAndPool, GetterAndPool, VaultStep
<1>1. n \in Nat
  BY BeneficiariesAssumption
<1> HIDE DEF n
<1>2. s2 \in Seq(StepSet) /\ IsJoin(s2, DeployCore, 11, PairAndPool, 2)
  BY ONLY ScriptParts, Concatenated
<1> HIDE DEF s2
<1>3. s3 \in Seq(StepSet) /\ IsJoin(s3, s2, 13, DeployMP, 4)
  <2>1. Len(s2) = 13
    BY ONLY <1>2 DEF IsJoin
  <2> QED
    BY ONLY <1>2, <2>1, ScriptParts, Concatenated DEF s3
<1> HIDE DEF s3
<1>4. s4 \in Seq(StepSet) /\ IsJoin(s4, s3, 17, ConnectCore, 9)
  <2>1. Len(s3) = 17
    BY ONLY <1>3 DEF IsJoin
  <2> QED
    BY ONLY <1>3, <2>1, ScriptParts, Concatenated DEF s4
<1> HIDE DEF s4
<1>5. s5 \in Seq(StepSet) /\ IsJoin(s5, s4, 26, ConnectMP, 3)
  <2>1. Len(s4) = 26
    BY ONLY <1>4 DEF IsJoin
  <2> QED
    BY ONLY <1>4, <2>1, ScriptParts, Concatenated DEF s5
<1> HIDE DEF s5
<1>6. s6 \in Seq(StepSet) /\ IsJoin(s6, s5, 29, GetterAndPool, 2)
  <2>1. Len(s5) = 29
    BY ONLY <1>5 DEF IsJoin
  <2> QED
    BY ONLY <1>5, <2>1, ScriptParts, Concatenated DEF s6
<1> HIDE DEF s6
<1>7. s7 \in Seq(StepSet) /\ IsJoin(s7, s6, 31, Lockups, n)
  <2>1. Len(s6) = 31
    BY ONLY <1>6 DEF IsJoin
  <2> QED
    BY ONLY <1>6, <2>1, ScriptParts, Concatenated DEF s7, n
<1> HIDE DEF s7
<1>8. IsJoin(Script, s7, 31 + n, <<VaultStep>>, 1)
  <2>1. Len(s7) = 31 + n
    BY ONLY <1>7, <1>1 DEF IsJoin
  <2>2. IsJoin(s8, s7, 31 + n, <<VaultStep>>, 1)
    BY ONLY <1>7, <2>1, ScriptParts, Concatenated
  <2> QED
    BY ONLY <1>0, <2>2
<1>9. <<VaultStep>>[1] = VaultStep
  OBVIOUS
<1>10. Len(Script) = 32 + n /\ Script[32 + n] = VaultStep
  BY ONLY <1>1, <1>8, <1>9 DEF IsJoin
<1>11. \A i \in 1..(31 + n) : Script[i] = s7[i]
  BY ONLY <1>8 DEF IsJoin
<1>12. \A i \in 1..31 : Script[i] = s6[i]
  <2>1. \A i \in 1..31 : s7[i] = s6[i]
    BY ONLY <1>7 DEF IsJoin
  <2> QED
    BY ONLY <1>1, <1>11, <2>1
<1>13. \A i \in 32..(31 + n) : Script[i] = Lockups[i - 31]
  <2>0. IsJoin(s7, s6, 31, Lockups, n)
    BY ONLY <1>7
  <2>a. \A i \in (31 + 1)..(31 + n) : s7[i] = Lockups[i - 31]
    BY ONLY <2>0 DEF IsJoin
  <2>1. ASSUME NEW i \in 32..(31 + n) PROVE s7[i] = Lockups[i - 31]
    <3>1. i \in (31 + 1)..(31 + n)
      BY ONLY <1>1, i \in 32..(31 + n)
    <3> QED
      BY ONLY <3>1, <2>a
  <2> QED
    BY ONLY <1>1, <1>11, <2>1
<1>14. \A i \in 1..29 : Script[i] = s5[i]
  <2>1. \A i \in 1..29 : s6[i] = s5[i]
    BY ONLY <1>6 DEF IsJoin
  <2> QED
    BY ONLY <1>1, <1>12, <2>1
<1>15. \A i \in 30..31 : Script[i] = GetterAndPool[i - 29]
  <2>0. IsJoin(s6, s5, 29, GetterAndPool, 2)
    BY ONLY <1>6
  <2>1. \A i \in 30..31 : s6[i] = GetterAndPool[i - 29]
    BY ONLY <1>1, <2>0 DEF IsJoin
  <2> QED
    BY ONLY <1>1, <1>12, <2>1
<1>16. \A i \in 1..26 : Script[i] = s4[i]
  <2>1. \A i \in 1..26 : s5[i] = s4[i]
    BY ONLY <1>5 DEF IsJoin
  <2> QED
    BY ONLY <1>1, <1>14, <2>1
<1>17. \A i \in 27..29 : Script[i] = ConnectMP[i - 26]
  <2>0. IsJoin(s5, s4, 26, ConnectMP, 3)
    BY ONLY <1>5
  <2>1. \A i \in 27..29 : s5[i] = ConnectMP[i - 26]
    BY ONLY <1>1, <2>0 DEF IsJoin
  <2> QED
    BY ONLY <1>1, <1>14, <2>1
<1>18. \A i \in 1..17 : Script[i] = s3[i]
  <2>1. \A i \in 1..17 : s4[i] = s3[i]
    BY ONLY <1>4 DEF IsJoin
  <2> QED
    BY ONLY <1>1, <1>16, <2>1
<1>19. \A i \in 18..26 : Script[i] = ConnectCore[i - 17]
  <2>0. IsJoin(s4, s3, 17, ConnectCore, 9)
    BY ONLY <1>4
  <2>1. \A i \in 18..26 : s4[i] = ConnectCore[i - 17]
    BY ONLY <1>1, <2>0 DEF IsJoin
  <2> QED
    BY ONLY <1>1, <1>16, <2>1
<1>20. \A i \in 1..13 : Script[i] = s2[i]
  <2>1. \A i \in 1..13 : s3[i] = s2[i]
    BY ONLY <1>3 DEF IsJoin
  <2> QED
    BY ONLY <1>1, <1>18, <2>1
<1>21. \A i \in 14..17 : Script[i] = DeployMP[i - 13]
  <2>0. IsJoin(s3, s2, 13, DeployMP, 4)
    BY ONLY <1>3
  <2>1. \A i \in 14..17 : s3[i] = DeployMP[i - 13]
    BY ONLY <1>1, <2>0 DEF IsJoin
  <2> QED
    BY ONLY <1>1, <1>18, <2>1
<1>22. \A i \in 1..11 : Script[i] = DeployCore[i]
  <2>1. \A i \in 1..11 : s2[i] = DeployCore[i]
    BY ONLY <1>2 DEF IsJoin
  <2> QED
    BY ONLY <1>1, <1>20, <2>1
<1>23. \A i \in 12..13 : Script[i] = PairAndPool[i - 11]
  <2>0. IsJoin(s2, DeployCore, 11, PairAndPool, 2)
    BY ONLY <1>2
  <2>1. \A i \in 12..13 : s2[i] = PairAndPool[i - 11]
    BY ONLY <1>1, <2>0 DEF IsJoin
  <2> QED
    BY ONLY <1>1, <1>20, <2>1
<1> QED
  BY ONLY <1>1, <1>10, <1>13, <1>15, <1>17, <1>19, <1>21, <1>23, <1>22 DEF n

\* The deployments of the script before the connections.
CoreNames ==
  {"priceFeed", "sortedVaults", "vaultManager", "activePool", "stabilityPool", "gasPool",
   "defaultPool", "collSurplusPool", "borrowerOperations", "hintHelpers", "bpdToken",
   "rskSwapPool", "mpStaking", "lockupContractFactory", "communityIssuance", "mpToken"}

\* The steps, one by one.
LEMMA DeploySteps ==
  /\ Script[1] = Deploy("priceFeed", {}) /\ Script[2] = Deploy("sortedVaults", {})
  /\ Script[3] = Deploy("vaultManager", {}) /\ Script[4] = Deploy("activePool", {})
  /\ Script[5] = Deploy("stabilityPool", {}) /\ Script[6] = Deploy("gasPool", {})
  /\ Script[7] = Deploy("defaultPool", {}) /\ Script[8] = Deploy("collSurplusPool", {})
  /\ Script[9] = Deploy("borrowerOperations", {}) /\ Script[10] = Deploy("hintHelpers", {})
  /\ Script[11] = Deploy("bpdToken", {"vaultManager", "stabilityPool", "borrowerOperations"})
  /\ Script[12] = [op |-> "create", name |-> "pair", refs |-> {"bpdToken"}]
  /\ Script[13] = Deploy("rskSwapPool", {})
  /\ Script[14] = Deploy("mpStaking", {}) /\ Script[15] = Deploy("lockupContractFactory", {})
  /\ Script[16] = Deploy("communityIssuance", {})
  /\ Script[17] = Deploy("mpToken", {"communityIssuance", "mpStaking", "lockupContractFactory",
                                     "rskSwapPool"})
<1>1. /\ \A i \in 1..11 : Script[i] = DeployCore[i]
      /\ \A i \in 12..13 : Script[i] = PairAndPool[i - 11]
      /\ \A i \in 14..17 : Script[i] = DeployMP[i - 13]
  BY ScriptAt
<1>2. /\ Script[1] = DeployCore[1] /\ Script[2] = DeployCore[2] /\ Script[3] = DeployCore[3]
      /\ Script[4] = DeployCore[4] /\ Script[5] = DeployCore[5] /\ Script[6] = DeployCore[6]
      /\ Script[7] = DeployCore[7] /\ Script[8] = DeployCore[8] /\ Script[9] = DeployCore[9]
      /\ Script[10] = DeployCore[10] /\ Script[11] = DeployCore[11]
  BY ONLY <1>1
<1>3. Script[12] = PairAndPool[1] /\ Script[13] = PairAndPool[2]
  BY ONLY <1>1
<1>4. /\ Script[14] = DeployMP[1] /\ Script[15] = DeployMP[2] /\ Script[16] = DeployMP[3]
      /\ Script[17] = DeployMP[4]
  BY ONLY <1>1
<1> QED
  BY ONLY <1>2, <1>3, <1>4 DEF DeployCore, PairAndPool, DeployMP

\* The connections.
LEMMA ConnectSteps ==
  /\ \A i \in 18..26 : Script[i] = ConnectCore[i - 17]
  /\ \A i \in 27..29 : Script[i] = ConnectMP[i - 26]
  /\ Script[30] = Deploy("multiVaultGetter", {"vaultManager", "sortedVaults"})
  /\ Script[31] = Connect("rskSwapPool", {"mpToken", "pair"})
<1>1. \A i \in 30..31 : Script[i] = GetterAndPool[i - 29]
  BY ScriptAt
<1>2. Script[30] = GetterAndPool[1] /\ Script[31] = GetterAndPool[2]
  BY ONLY <1>1
<1>3. /\ Script[30] = Deploy("multiVaultGetter", {"vaultManager", "sortedVaults"})
      /\ Script[31] = Connect("rskSwapPool", {"mpToken", "pair"})
  BY ONLY <1>2 DEF GetterAndPool
<1>4. /\ \A i \in 18..26 : Script[i] = ConnectCore[i - 17]
      /\ \A i \in 27..29 : Script[i] = ConnectMP[i - 26]
  BY ScriptAt
<1> QED
  BY ONLY <1>3, <1>4

\* The names that are given their addresses, and the step that gives them.
Place(name) ==
  CASE name = "priceFeed" -> 18 [] name = "sortedVaults" -> 19 [] name = "vaultManager" -> 20
    [] name = "borrowerOperations" -> 21 [] name = "stabilityPool" -> 22 [] name = "activePool" -> 23
    [] name = "defaultPool" -> 24 [] name = "collSurplusPool" -> 25 [] name = "hintHelpers" -> 26
    [] name = "lockupContractFactory" -> 27 [] name = "mpStaking" -> 28
    [] name = "communityIssuance" -> 29 [] name = "rskSwapPool" -> 31

\* What a connection is.
IsConnection(i) ==
  /\ Script[i].op = "connect" /\ Script[i].name \in CoreNames \ {"bpdToken", "mpToken"}
  /\ Place(Script[i].name) = i
  /\ Script[i].refs # {} /\ Script[i].refs \subseteq CoreNames \cup {"oracle", "pair"}

\* The connections of the core contracts.
LEMMA ConnectionsOfCore == \A i \in 18..26 : IsConnection(i)
<1> SUFFICES ASSUME NEW i \in 18..26 PROVE IsConnection(i)
  OBVIOUS
<1>1. Script[i] = ConnectCore[i - 17]
  BY ConnectSteps
<1>2. CASE i = 18
  <2>1. Script[i] = Connect("priceFeed", {"oracle"})
    BY ONLY <1>1, <1>2 DEF ConnectCore
  <2> QED
    BY ONLY <1>2, <2>1 DEF Connect, IsConnection, Place, CoreNames
<1>3. CASE i = 19
  <2>1. Script[i] = Connect("sortedVaults", {"vaultManager", "borrowerOperations"})
    BY ONLY <1>1, <1>3 DEF ConnectCore
  <2> QED
    BY ONLY <1>3, <2>1 DEF Connect, IsConnection, Place, CoreNames
<1>4. CASE i = 20
  <2>1. Script[i] = Connect("vaultManager", Pools \cup {"borrowerOperations", "stabilityPool",
                      "gasPool", "priceFeed", "bpdToken", "sortedVaults", "mpToken", "mpStaking"})
    BY ONLY <1>1, <1>4 DEF ConnectCore
  <2> QED
    BY ONLY <1>4, <2>1 DEF Connect, IsConnection, Place, CoreNames, Pools
<1>5. CASE i = 21
  <2>1. Script[i] = Connect("borrowerOperations", Pools \cup {"vaultManager", "stabilityPool",
                      "gasPool", "priceFeed", "sortedVaults", "bpdToken", "mpStaking"})
    BY ONLY <1>1, <1>5 DEF ConnectCore
  <2> QED
    BY ONLY <1>5, <2>1 DEF Connect, IsConnection, Place, CoreNames, Pools
<1>6. CASE i = 22
  <2>1. Script[i] = Connect("stabilityPool", {"borrowerOperations", "vaultManager", "activePool",
                      "bpdToken", "sortedVaults", "priceFeed", "communityIssuance"})
    BY ONLY <1>1, <1>6 DEF ConnectCore
  <2> QED
    BY ONLY <1>6, <2>1 DEF Connect, IsConnection, Place, CoreNames
<1>7. CASE i = 23
  <2>1. Script[i] = Connect("activePool", {"borrowerOperations", "vaultManager", "stabilityPool",
                                           "defaultPool"})
    BY ONLY <1>1, <1>7 DEF ConnectCore
  <2> QED
    BY ONLY <1>7, <2>1 DEF Connect, IsConnection, Place, CoreNames
<1>8. CASE i = 24
  <2>1. Script[i] = Connect("defaultPool", {"vaultManager", "activePool"})
    BY ONLY <1>1, <1>8 DEF ConnectCore
  <2> QED
    BY ONLY <1>8, <2>1 DEF Connect, IsConnection, Place, CoreNames
<1>9. CASE i = 25
  <2>1. Script[i] = Connect("collSurplusPool", {"borrowerOperations", "vaultManager", "activePool"})
    BY ONLY <1>1, <1>9 DEF ConnectCore
  <2> QED
    BY ONLY <1>9, <2>1 DEF Connect, IsConnection, Place, CoreNames
<1>10. CASE i = 26
  <2>1. Script[i] = Connect("hintHelpers", {"sortedVaults", "vaultManager"})
    BY ONLY <1>1, <1>10 DEF ConnectCore
  <2> QED
    BY ONLY <1>10, <2>1 DEF Connect, IsConnection, Place, CoreNames
<1> QED
  BY <1>2, <1>3, <1>4, <1>5, <1>6, <1>7, <1>8, <1>9, <1>10

\* The connections of the MP contracts.
LEMMA ConnectionsOfMP == \A i \in (27..29) \cup {31} : IsConnection(i)
<1> SUFFICES ASSUME NEW i \in (27..29) \cup {31} PROVE IsConnection(i)
  OBVIOUS
<1>1. CASE i = 27
  <2>1. Script[i] = Connect("lockupContractFactory", {"mpToken"})
    BY <1>1, ConnectSteps DEF ConnectMP
  <2> QED
    BY ONLY <1>1, <2>1 DEF Connect, IsConnection, Place, CoreNames
<1>2. CASE i = 28
  <2>1. Script[i] = Connect("mpStaking", {"mpToken", "bpdToken", "vaultManager",
                                          "borrowerOperations", "activePool"})
    BY <1>2, ConnectSteps DEF ConnectMP
  <2> QED
    BY ONLY <1>2, <2>1 DEF Connect, IsConnection, Place, CoreNames
<1>3. CASE i = 29
  <2>1. Script[i] = Connect("communityIssuance", {"mpToken", "stabilityPool"})
    BY <1>3, ConnectSteps DEF ConnectMP
  <2> QED
    BY ONLY <1>3, <2>1 DEF Connect, IsConnection, Place, CoreNames
<1>4. CASE i = 31
  <2>1. Script[i] = Connect("rskSwapPool", {"mpToken", "pair"})
    BY <1>4, ConnectSteps
  <2> QED
    BY ONLY <1>4, <2>1 DEF Connect, IsConnection, Place, CoreNames
<1> QED
  BY <1>1, <1>2, <1>3, <1>4

\* The length of the script and its last part.
LEMMA BeneficiariesLength == Len(Beneficiaries) \in Nat /\ Len(Script) = 32 + Len(Beneficiaries)
BY ScriptAt

\* The lockup contracts.
LEMMA LockupSteps ==
  ASSUME NEW i \in 32..(31 + Len(Beneficiaries))
  PROVE  Script[i] = Lockups[i - 31] /\ i - 31 \in 1..Len(Beneficiaries)
<1>1. \A j \in 32..(31 + Len(Beneficiaries)) : Script[j] = Lockups[j - 31]
  BY ScriptAt
<1> QED
  BY ONLY <1>1, i \in 32..(31 + Len(Beneficiaries)), BeneficiariesLength

\* Each of the core names is deployed by one of the first steps.
LEMMA CoreDeployed ==
  \A name \in CoreNames : \E j \in 1..17 : Script[j].op = "deploy" /\ Script[j].name = name
<1> DEFINE At(j, name) == Script[j].op = "deploy" /\ Script[j].name = name
<1>1. /\ At(1, "priceFeed") /\ At(2, "sortedVaults") /\ At(3, "vaultManager") /\ At(4, "activePool")
      /\ At(5, "stabilityPool") /\ At(6, "gasPool") /\ At(7, "defaultPool")
      /\ At(8, "collSurplusPool") /\ At(9, "borrowerOperations") /\ At(10, "hintHelpers")
      /\ At(11, "bpdToken") /\ At(13, "rskSwapPool") /\ At(14, "mpStaking")
      /\ At(15, "lockupContractFactory") /\ At(16, "communityIssuance") /\ At(17, "mpToken")
  BY DeploySteps DEF Deploy
<1> SUFFICES ASSUME NEW name \in CoreNames PROVE \E j \in 1..17 : At(j, name)
  OBVIOUS
<1> HIDE DEF At
<1> QED
  BY <1>1 DEF CoreNames

\* From then on they count as deployed, and the pair with them.
LEMMA CoreDeployedBefore ==
  ASSUME NEW i \in 18..(32 + Len(Beneficiaries)), NEW name \in CoreNames \cup {"pair", "vault"}
  PROVE  DeployedBefore(name, i)
<1>1. Base(name) \in CoreNames
  BY DEF Base, CoreNames
<1>2. PICK j \in 1..17 : Script[j].op = "deploy" /\ Script[j].name = Base(name)
  BY <1>1, CoreDeployed
<1>3. j \in 1..(i - 1)
  BY ONLY j \in 1..17, i \in 18..(32 + Len(Beneficiaries)), BeneficiariesLength
<1> QED
  BY <1>2, <1>3 DEF DeployedBefore

\* What ScriptFacts says of a step.
StepFacts(i) ==
  /\ Script[i].op \in {"deploy", "connect", "create"}
  /\ Script[i].op = "deploy" => Script[i].name \notin {"pair", "vault", "oracle"}
  /\ Script[i].op # "deploy" =>
       /\ DeployedBefore(Script[i].name, i) /\ Script[i].name # "oracle"
  /\ Script[i].op = "connect" => Script[i].refs # {} /\ Script[i].name \notin {"pair", "vault"}
  /\ \A ref \in Script[i].refs : ref = "oracle" \/ DeployedBefore(ref, i)
  /\ Script[i].op = "connect" \/ Script[i].refs = {}
       \/ Script[i].name \in {"bpdToken", "mpToken", "pair", "vault", "multiVaultGetter"}
       \/ Script[i].name \notin CoreNames

\* A deployment of a contract that is given nothing.
LEMMA PlainDeployFacts ==
  ASSUME NEW i, NEW name, Script[i] = Deploy(name, {}), name \notin {"pair", "vault", "oracle"}
  PROVE  StepFacts(i)
BY DEF StepFacts, Deploy

\* The deployments of the first steps.
LEMMA FirstFacts == \A i \in 1..17 : StepFacts(i)
<1>1. /\ StepFacts(1) /\ StepFacts(2) /\ StepFacts(3) /\ StepFacts(4) /\ StepFacts(5)
      /\ StepFacts(6) /\ StepFacts(7) /\ StepFacts(8) /\ StepFacts(9) /\ StepFacts(10)
      /\ StepFacts(13) /\ StepFacts(14) /\ StepFacts(15) /\ StepFacts(16)
  BY DeploySteps, PlainDeployFacts
<1>2. StepFacts(11)
  <2>1. Script[11] = Deploy("bpdToken", {"vaultManager", "stabilityPool", "borrowerOperations"})
    BY DeploySteps
  <2>2. /\ Script[3].op = "deploy" /\ Script[3].name = "vaultManager"
        /\ Script[5].op = "deploy" /\ Script[5].name = "stabilityPool"
        /\ Script[9].op = "deploy" /\ Script[9].name = "borrowerOperations"
    BY DeploySteps DEF Deploy
  <2>3. /\ DeployedBefore("vaultManager", 11) /\ DeployedBefore("stabilityPool", 11)
        /\ DeployedBefore("borrowerOperations", 11)
    BY ONLY <2>2 DEF DeployedBefore, Base
  <2> QED
    BY ONLY <2>1, <2>3 DEF StepFacts, Deploy
<1>3. StepFacts(12)
  <2>1. Script[12] = [op |-> "create", name |-> "pair", refs |-> {"bpdToken"}]
    BY DeploySteps
  <2>2. Script[11].op = "deploy" /\ Script[11].name = "bpdToken"
    BY DeploySteps DEF Deploy
  <2>3. DeployedBefore("bpdToken", 12) /\ DeployedBefore("pair", 12)
    BY ONLY <2>2 DEF DeployedBefore, Base
  <2> QED
    BY ONLY <2>1, <2>3 DEF StepFacts
<1>4. StepFacts(17)
  <2>1. Script[17] = Deploy("mpToken", {"communityIssuance", "mpStaking", "lockupContractFactory",
                                        "rskSwapPool"})
    BY DeploySteps
  <2>2. /\ Script[16].op = "deploy" /\ Script[16].name = "communityIssuance"
        /\ Script[14].op = "deploy" /\ Script[14].name = "mpStaking"
        /\ Script[15].op = "deploy" /\ Script[15].name = "lockupContractFactory"
        /\ Script[13].op = "deploy" /\ Script[13].name = "rskSwapPool"
    BY DeploySteps DEF Deploy
  <2>3. /\ DeployedBefore("communityIssuance", 17) /\ DeployedBefore("mpStaking", 17)
        /\ DeployedBefore("lockupContractFactory", 17) /\ DeployedBefore("rskSwapPool", 17)
    BY ONLY <2>2 DEF DeployedBefore, Base
  <2> QED
    BY ONLY <2>1, <2>3 DEF StepFacts, Deploy
<1> SUFFICES ASSUME NEW i \in 1..17 PROVE StepFacts(i)
  OBVIOUS
<1>5. i \in {1, 2, 3, 4, 5, 6, 7, 8, 9, 10, 11, 12, 13, 14, 15, 16, 17}
  OBVIOUS
<1> QED
  BY ONLY <1>1, <1>2, <1>3, <1>4, <1>5

\* The connections.
LEMMA ConnectFacts ==
  ASSUME NEW i \in 18..31, IsConnection(i)
  PROVE  StepFacts(i)
<1>1. \A name \in CoreNames \cup {"pair", "vault"} : DeployedBefore(name, i)
  <2>1. i \in 18..(32 + Len(Beneficiaries))
    BY ONLY i \in 18..31, BeneficiariesLength
  <2> QED
    BY ONLY <2>1, CoreDeployedBefore
<1>2. CoreNames \cap {"pair", "vault", "oracle"} = {}
  BY DEF CoreNames
<1> QED
  BY ONLY <1>1, <1>2, IsConnection(i) DEF StepFacts, IsConnection

\* The names of the beneficiaries are other ones.
LEMMA BeneficiariesAreOthers ==
  \A k \in 1..Len(Beneficiaries) :
    Beneficiaries[k] \notin CoreNames \cup {"pair", "vault", "oracle", "multiVaultGetter"}
<1>1. /\ DeployCore[1].name = "priceFeed" /\ DeployCore[2].name = "sortedVaults"
      /\ DeployCore[3].name = "vaultManager" /\ DeployCore[4].name = "activePool"
      /\ DeployCore[5].name = "stabilityPool" /\ DeployCore[6].name = "gasPool"
      /\ DeployCore[7].name = "defaultPool" /\ DeployCore[8].name = "collSurplusPool"
      /\ DeployCore[9].name = "borrowerOperations" /\ DeployCore[10].name = "hintHelpers"
      /\ DeployCore[11].name = "bpdToken" /\ Len(DeployCore) = 11
  BY DEF DeployCore, Deploy
<1>2. /\ DeployMP[1].name = "mpStaking" /\ DeployMP[2].name = "lockupContractFactory"
      /\ DeployMP[3].name = "communityIssuance" /\ DeployMP[4].name = "mpToken" /\ Len(DeployMP) = 4
  BY DEF DeployMP, Deploy
<1>3. CoreNames \cup {"pair", "vault", "oracle", "multiVaultGetter"} \subseteq ContractNames
  BY ONLY <1>1, <1>2 DEF ContractNames, CoreNames
<1> QED
  BY <1>3, BeneficiariesAssumption

\* The last steps: the getter, the lockup contracts and the deployer's vault.
LEMMA LastFacts ==
  /\ StepFacts(30) /\ StepFacts(32 + Len(Beneficiaries))
  /\ \A i \in 32..(31 + Len(Beneficiaries)) : StepFacts(i)
<1>0. Len(Beneficiaries) \in Nat
  BY ScriptAt
<1>1. StepFacts(30)
  <2>1. DeployedBefore("vaultManager", 30) /\ DeployedBefore("sortedVaults", 30)
    BY <1>0, CoreDeployedBefore DEF CoreNames
  <2>2. Script[30] = Deploy("multiVaultGetter", {"vaultManager", "sortedVaults"})
    BY ConnectSteps
  <2> QED
    BY ONLY <2>1, <2>2 DEF StepFacts, Deploy
<1>2. StepFacts(32 + Len(Beneficiaries))
  <2> DEFINE last == 32 + Len(Beneficiaries)
  <2>1. last \in 18..(32 + Len(Beneficiaries))
    BY ONLY <1>0
  <2>2. DeployedBefore("vaultManager", last) /\ DeployedBefore("vault", last)
    BY <2>1, CoreDeployedBefore DEF CoreNames
  <2>3. Script[last] = [op |-> "create", name |-> "vault", refs |-> {"vaultManager"}]
    BY ScriptAt DEF VaultStep
  <2> HIDE DEF last
  <2>4. StepFacts(last)
    BY ONLY <2>2, <2>3 DEF StepFacts
  <2> QED
    BY <2>4 DEF last
<1>3. ASSUME NEW i \in 32..(31 + Len(Beneficiaries)) PROVE StepFacts(i)
  <2>1. Script[i] = Lockups[i - 31] /\ i - 31 \in 1..Len(Beneficiaries)
    BY LockupSteps
  <2>2. Script[i] = [op |-> "deploy", name |-> Beneficiaries[i - 31], refs |-> {"mpToken"}]
    BY ONLY <2>1 DEF Lockups, Deploy
  <2>3. DeployedBefore("mpToken", i)
    <3>1. i \in 18..(32 + Len(Beneficiaries))
      BY <1>0
    <3> QED
      BY <3>1, CoreDeployedBefore DEF CoreNames
  <2>4. Beneficiaries[i - 31] \notin CoreNames \cup {"pair", "vault", "oracle", "multiVaultGetter"}
    BY <2>1, BeneficiariesAreOthers
  <2> QED
    BY ONLY <2>2, <2>3, <2>4 DEF StepFacts
<1> QED
  BY <1>1, <1>2, <1>3

\* The steps are deployments and creations with these facts, and the connections.
LEMMA AllFacts ==
  /\ Len(Script) = 32 + Len(Beneficiaries) /\ Len(Beneficiaries) \in Nat
  /\ \A i \in Steps : StepFacts(i) /\ (Script[i].op = "connect" => IsConnection(i))
<1>0. Len(Script) = 32 + Len(Beneficiaries) /\ Len(Beneficiaries) \in Nat
  BY ScriptAt
<1>1. \A i \in 1..17 : StepFacts(i) /\ Script[i].op # "connect"
  <2>1. /\ Script[1].op # "connect" /\ Script[2].op # "connect" /\ Script[3].op # "connect"
        /\ Script[4].op # "connect" /\ Script[5].op # "connect" /\ Script[6].op # "connect"
        /\ Script[7].op # "connect" /\ Script[8].op # "connect" /\ Script[9].op # "connect"
        /\ Script[10].op # "connect" /\ Script[11].op # "connect" /\ Script[12].op # "connect"
        /\ Script[13].op # "connect" /\ Script[14].op # "connect" /\ Script[15].op # "connect"
        /\ Script[16].op # "connect" /\ Script[17].op # "connect"
    BY DeploySteps DEF Deploy
  <2>2. \A i \in 1..17 : Script[i].op # "connect"
    BY ONLY <2>1
  <2> QED
    BY <2>2, FirstFacts
<1>2. \A i \in (18..29) \cup {31} : IsConnection(i)
  BY ConnectionsOfCore, ConnectionsOfMP
<1>3. \A i \in (18..29) \cup {31} : StepFacts(i)
  BY <1>2, ConnectFacts
<1>4. Script[30].op # "connect"
  BY ConnectSteps DEF Deploy
<1>5. Script[32 + Len(Beneficiaries)].op # "connect"
  BY ScriptAt DEF VaultStep
<1>6. ASSUME NEW i \in 32..(31 + Len(Beneficiaries)) PROVE Script[i].op # "connect"
  <2>1. Script[i] = Lockups[i - 31] /\ i - 31 \in 1..Len(Beneficiaries)
    BY LockupSteps
  <2> QED
    BY ONLY <2>1 DEF Lockups, Deploy
<1>7. ASSUME NEW i \in Steps PROVE StepFacts(i) /\ (Script[i].op = "connect" => IsConnection(i))
  <2>1. \/ i \in 1..17 \/ i \in (18..29) \cup {31} \/ i = 30
        \/ i \in 32..(31 + Len(Beneficiaries)) \/ i = 32 + Len(Beneficiaries)
    BY <1>0 DEF Steps
  <2>2. CASE i \in 1..17
    BY <2>2, <1>1
  <2>3. CASE i \in (18..29) \cup {31}
    BY <2>3, <1>2, <1>3
  <2>4. CASE i = 30
    BY <2>4, <1>4, LastFacts
  <2>5. CASE i \in 32..(31 + Len(Beneficiaries))
    BY <2>5, <1>6, LastFacts
  <2>6. CASE i = 32 + Len(Beneficiaries)
    BY <2>6, <1>5, LastFacts
  <2> QED
    BY ONLY <2>1, <2>2, <2>3, <2>4, <2>5, <2>6
<1> QED
  BY ONLY <1>0, <1>7

\* The names of the steps before and after the lockup contracts.
LEMMA OtherNames ==
  ASSUME NEW i \in (1..31) \cup {32 + Len(Beneficiaries)}
  PROVE  Script[i].name \in CoreNames \cup {"pair", "vault", "multiVaultGetter"}
<1>1. CASE i \in 1..17
  <2>1. /\ Script[1].name \in CoreNames /\ Script[2].name \in CoreNames /\ Script[3].name \in CoreNames
        /\ Script[4].name \in CoreNames /\ Script[5].name \in CoreNames /\ Script[6].name \in CoreNames
        /\ Script[7].name \in CoreNames /\ Script[8].name \in CoreNames /\ Script[9].name \in CoreNames
        /\ Script[10].name \in CoreNames /\ Script[11].name \in CoreNames /\ Script[12].name = "pair"
        /\ Script[13].name \in CoreNames /\ Script[14].name \in CoreNames
        /\ Script[15].name \in CoreNames /\ Script[16].name \in CoreNames
        /\ Script[17].name \in CoreNames
    BY DeploySteps DEF Deploy, CoreNames
  <2>2. i \in {1, 2, 3, 4, 5, 6, 7, 8, 9, 10, 11, 12, 13, 14, 15, 16, 17}
    BY <1>1
  <2> HIDE DEF CoreNames
  <2> QED
    BY ONLY <2>1, <2>2
<1>2. CASE i \in (18..29) \cup {31}
  BY <1>2, ConnectionsOfCore, ConnectionsOfMP DEF IsConnection
<1>3. CASE i = 30
  BY <1>3, ConnectSteps DEF Deploy
<1>4. CASE i = 32 + Len(Beneficiaries)
  BY <1>4, ScriptAt DEF VaultStep
<1> QED
  BY <1>1, <1>2, <1>3, <1>4

\* The lockup contracts are deployed once their factory has its token.
LEMMA LockupsAfterFactory ==
  ASSUME NEW i \in Steps, Script[i].name \in LockupNames
  PROVE  /\ Script[i].op = "deploy" /\ Script[i].refs = {"mpToken"}
         /\ \E j \in 1..(i - 1) : Script[j] = Connect("lockupContractFactory", {"mpToken"})
<1>1. Script[i].name \notin CoreNames \cup {"pair", "vault", "multiVaultGetter"}
  BY BeneficiariesAreOthers DEF LockupNames
<1>2. i \notin (1..31) \cup {32 + Len(Beneficiaries)}
  BY <1>1, OtherNames
<1>3. i \in 32..(31 + Len(Beneficiaries))
  BY ONLY i \in Steps, <1>2, BeneficiariesLength DEF Steps
<1>4. Script[i] = Lockups[i - 31] /\ i - 31 \in 1..Len(Beneficiaries)
  BY <1>3, LockupSteps
<1>5. Script[27] = Connect("lockupContractFactory", {"mpToken"})
  BY ConnectSteps DEF ConnectMP
<1>6. 27 \in 1..(i - 1)
  BY ONLY <1>3, BeneficiariesLength
<1> QED
  BY ONLY <1>4, <1>5, <1>6 DEF Lockups, Deploy

\* The order of the script allows to run it again at any point.
LEMMA ScriptIsOrdered == ScriptFacts
<1>1. /\ Len(Script) \in Nat
      /\ \A i \in Steps : StepFacts(i) /\ (Script[i].op = "connect" => IsConnection(i))
  BY AllFacts
<1>2. \A i \in Steps : Script[i].op = "deploy" => Script[i].name \in Names
  BY DEF Steps, Names
<1>5. ASSUME NEW i \in Steps, Script[i].name \in LockupNames
      PROVE  /\ Script[i].op = "deploy" /\ Script[i].refs = {"mpToken"}
             /\ \E j \in 1..(i - 1) : Script[j] = Connect("lockupContractFactory", {"mpToken"})
  BY <1>5, LockupsAfterFactory
<1>3. ASSUME NEW i \in Steps, NEW j \in Steps, Script[i].op = "connect",
             Script[j].name = Script[i].name
      PROVE  Script[j] = Script[i] \/ Script[j].refs = {}
  <2>1. /\ Script[i].name \in CoreNames \ {"bpdToken", "mpToken"} /\ Place(Script[i].name) = i
    BY <1>1, <1>3 DEF IsConnection
  <2>2. CASE Script[j].op = "connect"
    <3>1. Place(Script[j].name) = j
      BY <1>1, <2>2 DEF IsConnection
    <3>2. i = j
      BY ONLY <1>3, <2>1, <3>1
    <3> QED
      BY ONLY <3>2
  <2>3. CASE Script[j].op # "connect"
    <3>1. "pair" \notin CoreNames /\ "vault" \notin CoreNames /\ "multiVaultGetter" \notin CoreNames
      BY DEF CoreNames
    <3>2. StepFacts(j)
      BY <1>1
    <3> QED
      BY ONLY <1>3, <2>1, <2>3, <3>1, <3>2 DEF StepFacts
  <2> QED
    BY <2>2, <2>3
<1>4. \A i \in Steps :
       /\ Script[i].op \in {"deploy", "connect", "create"}
       /\ Script[i].op = "deploy" =>
            Script[i].name \in Names /\ Script[i].name \notin {"pair", "vault", "oracle"}
       /\ Script[i].op # "deploy" =>
            /\ DeployedBefore(Script[i].name, i) /\ Script[i].name # "oracle"
       /\ Script[i].op = "connect" => Script[i].refs # {} /\ Script[i].name \notin {"pair", "vault"}
       /\ \A ref \in Script[i].refs : ref = "oracle" \/ DeployedBefore(ref, i)
  BY ONLY <1>1, <1>2 DEF StepFacts
<1> QED
  BY ONLY <1>1, <1>3, <1>4, <1>5 DEF ScriptFacts

-----------------------------------------------------------------------------
(* The specification. *)

\* Nothing is sent, saved or on the chain.
LEMMA InitEstablishes == InitDeployment => DeploymentInv
<1> SUFFICES ASSUME InitDeployment PROVE DeploymentInv
  OBVIOUS
<1>1. /\ file = Nothing /\ deploymentState = Nothing /\ sent = Nothing /\ pc = 0 /\ phase = "check"
      /\ mempool = <<>> /\ contracts = {} /\ links = {}
  BY DEF InitDeployment
<1>2. Nothing \in [Names -> Nat] /\ \A n \in Names : Nothing[n] = 0
  BY DEF Nothing
<1>3. mempool \in Seq(Txs) /\ Pool = {}
  <2>1. mempool \in Seq(Txs)
    BY <1>1
  <2>2. Len(mempool) = 0
    BY <1>1
  <2>3. Pool = {}
    BY ONLY <2>2 DEF Pool
  <2> QED
    BY <2>1, <2>3
<1>4. DeploymentTypes
  <2>1. pc \in 0..(Len(Script) + 1)
    BY <1>1, BeneficiariesLength
  <2> QED
    BY <1>1, <1>2, <1>3, <2>1 DEF DeploymentTypes
<1>5. Memory
  BY <1>1 DEF Memory
<1>6. DeploysArrive
  BY <1>1, <1>2 DEF DeploysArrive
<1>7. PoolInv /\ LinksInv
  BY <1>1, <1>3 DEF PoolInv, LinksInv
<1>8. ConnectedAtOnce
  BY <1>1 DEF ConnectedAtOnce, Linked
<1>9. StepsDone
  BY <1>1 DEF StepsDone, Steps
<1>10. StepSent
  BY <1>1 DEF StepSent
<1> QED
  BY <1>4, <1>5, <1>6, <1>7, <1>8, <1>9, <1>10 DEF DeploymentInv

\* Every step of the script and of the chain keeps the invariant.
LEMMA NextKeeps == DeploymentInv /\ [DeploymentNext]_deploymentVars => DeploymentInv'
<1> SUFFICES ASSUME DeploymentInv, [DeploymentNext]_deploymentVars PROVE DeploymentInv'
  OBVIOUS
<1>1. CASE Start
  BY <1>1, ScriptIsOrdered, StartKeeps
<1>2. CASE SkipStep
  BY <1>2, ScriptIsOrdered, SkipKeeps
<1>3. CASE DecideToSend
  BY <1>3, ScriptIsOrdered, DecideKeeps
<1>4. CASE Send
  BY <1>4, ScriptIsOrdered, SendKeeps
<1>5. CASE ReceiveReceipt
  BY <1>5, ScriptIsOrdered, ReceiveKeeps
<1>6. CASE MineTransaction
  BY <1>6, ScriptIsOrdered, MineKeeps
<1>7. CASE Crash
  <2>1. Stop /\ UNCHANGED <<file, mempool, sent, contracts, links, refuses>>
    BY <1>7 DEF Crash
  <2> QED
    BY <2>1, ScriptIsOrdered, StopKeeps
<1>8. CASE UNCHANGED deploymentVars
  <2>1. /\ UNCHANGED <<file, mempool, sent, contracts, links, refuses>>
        /\ pc' = pc /\ phase' = phase /\ deploymentState' = deploymentState
    BY <1>8 DEF deploymentVars
  <2>2. OnChainInv'
    BY <2>1, ChainStays DEF OnChainInv, DeploymentInv
  <2>3. DeploymentTypes' /\ Memory'
    BY <2>1 DEF DeploymentInv, DeploymentTypes, Memory, Running, Finished
  <2>4. \A i \in Steps : StepDone(i)' = StepDone(i)
    BY <2>1 DEF StepDone, Linked
  <2>5. StepsDone'
    BY <2>1, <2>4 DEF DeploymentInv, StepsDone
  <2>6. StepSent'
    BY <2>1 DEF DeploymentInv, StepSent, Linked, Awaited, Pool
  <2> QED
    BY <2>2, <2>3, <2>5, <2>6 DEF DeploymentInv, OnChainInv
<1> QED
  BY <1>1, <1>2, <1>3, <1>4, <1>5, <1>6, <1>7, <1>8 DEF DeploymentNext, ScriptStep

\* Whatever interrupts the script, and however often.
THEOREM DeploymentInvHolds == DeploymentSpec => []DeploymentInv
BY InitEstablishes, NextKeeps, PTL DEF DeploymentSpec

\* Nothing that the file names is ever given a contract that an interrupted run has lost.
THEOREM SavedAreAlwaysLinkedToSaved == DeploymentSpec => []SavedAreLinkedToSaved
<1>1. DeploymentInv => SavedAreLinkedToSaved
  <2> SUFFICES ASSUME DeploymentInv, NEW link \in links PROVE Saved(link[2])
    BY DEF SavedAreLinkedToSaved
  <2>1. PICK i \in Steps : IsLinkOf(file, i, link)
    BY DEF DeploymentInv, LinksInv
  <2>2. PICK ref \in Script[i].refs : link = <<link[1], ContractOf(file, ref)>>
    BY <2>1, TargetsAreKnown
  <2>3. link[2] = <<ref, NumberIn(file, ref)>>
    BY <2>2 DEF ContractOf
  <2> QED
    BY <2>3 DEF Saved
<1> QED
  BY <1>1, DeploymentInvHolds, PTL

\* Whatever was sent twice and whatever was never received, what the script has passed
\* is on the chain, and connected as the script connects it.
THEOREM PassedStepsAlwaysHold == DeploymentSpec => []PassedStepsHold
<1>1. DeploymentInv => PassedStepsHold
  BY ScriptIsOrdered, PassedStep DEF PassedStepsHold, Steps
<1> QED
  BY <1>1, DeploymentInvHolds, PTL

-----------------------------------------------------------------------------
(* The events of the contracts and the index, their types. *)

VaultNames == {"VaultUpdated", "VaultLiquidated"}
ClosingNames == {"Liquidation", "Redemption"}
Ops == Liquidations \cup {"redeemCollateral", "accrueRewards", "openVault", "adjustVault", "closeVault"}

VaultEvents == [name : VaultNames, user : Users, op : Ops, coll : Nat, debt : Nat]
ChainEvents ==
  VaultEvents
  \cup [name : {"UserDepositChanged", "CollBalanceUpdated"}, user : Users, amount : Int]
  \cup [name : {"RBTCGainWithdrawn"}, user : Users, gain : Int, loss : Int]
  \cup [name : ClosingNames]
LogEntries == [tx : Nat \ {0}, event : ChainEvents]

LedgerTypeInv ==
  /\ vaults \in [Users -> [coll : Nat, debt : Nat, snapshot : Nat]]
  /\ redistributed \in Nat
  /\ deposits \in [Users -> [initial : Int, loss : Int, gain : Int]]
  /\ surplus \in [Users -> Int]
ChainTypeInv ==
  /\ price \in Prices
  /\ LedgerTypeInv
  /\ transactions \in Nat
  /\ log \in Seq(LogEntries)
  /\ sealed \in BOOLEAN

\* A vault's snapshot is one of the past, and a vault that is not active is empty.
VaultsInv == \A u \in Users :
  vaults[u].snapshot <= redistributed /\ (vaults[u].coll = 0 => vaults[u] = NoVault)

Changes == [sequenceNumber : Int, transaction : Nat, before : Int, after : Int,
            price : Prices \cup {InitialPrice}, kind : {"price", "vault", "deposit", "surplus"},
            liquidation : Nat, redemption : Nat]
IndexedUsers == [vaultCount : Nat, currentVault : Nat,
                 vault : [saved : BOOLEAN, coll : Nat, debt : Nat, snapshot : Nat],
                 hasDeposit : BOOLEAN, deposited : Int, collSurplus : Int]
IndexTypes == [states : Nat, price : Prices \cup {InitialPrice}, changes : Nat, transaction : Nat,
               liquidation : Nat, redemption : Nat, open : Int, users : [Users -> IndexedUsers],
               written : Seq(Changes), failed : BOOLEAN]

-----------------------------------------------------------------------------
(* The order of the log. *)

\* The event that ends the transaction of e, if e belongs to a liquidation or a redemption.
EndedBy(e, name) ==
  /\ e.name \in VaultNames
  /\ \/ name = "Liquidation" /\ e.op \in Liquidations
     \/ name = "Redemption" /\ IsRedemption(e.op)

\* The log is in the order of its transactions, and liquidations and redemptions end.
LogIsOrdered ==
  /\ \A i \in 1..Len(log) : log[i].tx <= transactions
  /\ \A i, j \in 1..Len(log) : i < j => log[i].tx <= log[j].tx
  /\ \A i \in 1..Len(log) : \A name \in ClosingNames : EndedBy(log[i].event, name) =>
       \E j \in 1..Len(log) : i < j /\ log[j].tx = log[i].tx /\ log[j].event.name = name

\* The end of transaction number t is still in the log.
EndIsLogged(t, name) ==
  /\ \A i \in 1..Len(log) : t <= log[i].tx
  /\ \E j \in 1..Len(log) : log[j].tx = t /\ log[j].event.name = name

\* The index is behind the log, and has the price of the transaction it knows.
IndexIsBehind ==
  /\ index.transaction <= transactions
  /\ \A i \in 1..Len(log) :
       IF sealed THEN index.transaction <= log[i].tx ELSE index.transaction < log[i].tx
  /\ sealed /\ log # <<>> /\ index.transaction = log[1].tx => index.price = price
  /\ index.failed => sealed
  /\ sealed => log # <<>> \/ index.failed

\* A current liquidation or redemption is that of a transaction whose end is to come.
TemporariesInv ==
  ~index.failed =>
    /\ index.liquidation # Null => sealed /\ EndIsLogged(index.liquidation, "Liquidation")
    /\ index.redemption # Null => sealed /\ EndIsLogged(index.redemption, "Redemption")

\* A change refers to a liquidation or a redemption of its own transaction.
OwnTemporaries(changes) ==
  \A i \in 1..Len(changes) :
    /\ changes[i].liquidation \in {Null, changes[i].transaction}
    /\ changes[i].redemption \in {Null, changes[i].transaction}

-----------------------------------------------------------------------------
(* The vaults and the surplus of the index. *)

EventsOf(entries) == [i \in 1..Len(entries) |-> entries[i].event]

IsVaultEvent(e, u) == e.name \in VaultNames /\ e.user = u
IsSurplusEvent(e, u) == e.name = "CollBalanceUpdated" /\ e.user = u

\* The events es lead from the vault old of u to the vault new: without an event there is
\* no difference, and the last event gives the new amounts.
VaultSettles(es, u, old, new) ==
  /\ (\A i \in 1..Len(es) : ~IsVaultEvent(es[i], u)) => old = new
  /\ \A i \in 1..Len(es) :
       IsVaultEvent(es[i], u) /\ (\A j \in (i + 1)..Len(es) : ~IsVaultEvent(es[j], u)) =>
         es[i].name = "VaultUpdated" /\ es[i].coll = new.coll /\ es[i].debt = new.debt

\* The first event changes the amounts, or closes the vault.
VaultDiffers(es, u, old) ==
  \A i \in 1..Len(es) :
    IsVaultEvent(es[i], u) /\ (\A j \in 1..(i - 1) : ~IsVaultEvent(es[j], u)) /\ old.coll > 0 =>
      es[i].name = "VaultLiquidated" \/ es[i].coll # old.coll \/ es[i].debt # old.debt

SurplusSettles(es, u, old, new) ==
  /\ (\A i \in 1..Len(es) : ~IsSurplusEvent(es[i], u)) => old = new
  /\ \A i \in 1..Len(es) :
       IsSurplusEvent(es[i], u) /\ (\A j \in (i + 1)..Len(es) : ~IsSurplusEvent(es[j], u)) =>
         es[i].amount = new

\* The vault of a user in the index; one that was never saved is none.
IndexedVault(user) ==
  IF user.currentVault # Null /\ user.vault.saved
  THEN [coll |-> user.vault.coll, debt |-> user.vault.debt, snapshot |-> user.vault.snapshot]
  ELSE NoVault

\* The events to come lead from the index to the contracts; the snapshot is that of the
\* contracts after the first of them was handled.
MatchInv == ~index.failed => \A u \in Users :
  LET old == IndexedVault(index.users[u])
  IN /\ index.users[u].currentVault # Null /\ index.users[u].vault.saved => old.coll # 0
     /\ VaultSettles(EventsOf(log), u, old, vaults[u])
     /\ \/ VaultDiffers(EventsOf(log), u, old)
        \/ sealed /\ (old.coll > 0 => old.snapshot = vaults[u].snapshot)
     /\ SurplusSettles(EventsOf(log), u, index.users[u].collSurplus, surplus[u])

-----------------------------------------------------------------------------
(* Sequences of events, one after another. *)

\* The elements of a concatenation.
LEMMA EventsConcatenated ==
  ASSUME NEW V, NEW es \in Seq(V), NEW fs \in Seq(V)
  PROVE  /\ es \o fs \in Seq(V) /\ Len(es \o fs) = Len(es) + Len(fs)
         /\ Len(es) \in Nat /\ Len(fs) \in Nat
         /\ \A i \in 1..Len(es) : (es \o fs)[i] = es[i]
         /\ \A i \in (Len(es) + 1)..(Len(es) + Len(fs)) : (es \o fs)[i] = fs[i - Len(es)]
OBVIOUS

\* What es and fs lead to, one after the other.
LEMMA VaultSettlesThen ==
  ASSUME NEW es \in Seq(ChainEvents), NEW fs \in Seq(ChainEvents), NEW u, NEW a, NEW b, NEW c,
         VaultSettles(es, u, a, b), VaultSettles(fs, u, b, c)
  PROVE  VaultSettles(es \o fs, u, a, c)
<1> DEFINE gs == es \o fs
           m == Len(es)
           n == Len(fs)
<1>1. /\ Len(gs) = m + n /\ m \in Nat /\ n \in Nat
      /\ \A i \in 1..m : gs[i] = es[i]
      /\ \A i \in (m + 1)..(m + n) : gs[i] = fs[i - m]
  BY EventsConcatenated
<1> HIDE DEF gs, m, n
<1>2. ASSUME \A i \in 1..Len(gs) : ~IsVaultEvent(gs[i], u)
      PROVE  a = c
  <2>1. \A i \in 1..m : ~IsVaultEvent(es[i], u)
    BY ONLY <1>1, <1>2
  <2>2. ASSUME NEW i \in 1..n
        PROVE  ~IsVaultEvent(fs[i], u)
    <3>1. m + i \in (m + 1)..(m + n) /\ (m + i) - m = i /\ m + i \in 1..Len(gs)
      BY ONLY <1>1, <2>2
    <3>2. gs[m + i] = fs[i]
      BY ONLY <1>1, <3>1
    <3> QED
      BY ONLY <1>2, <3>1, <3>2
  <2> QED
    BY ONLY <2>1, <2>2, VaultSettles(es, u, a, b), VaultSettles(fs, u, b, c) DEF VaultSettles, m, n
<1>3. ASSUME NEW i \in 1..Len(gs), IsVaultEvent(gs[i], u),
             \A j \in (i + 1)..Len(gs) : ~IsVaultEvent(gs[j], u)
      PROVE  gs[i].name = "VaultUpdated" /\ gs[i].coll = c.coll /\ gs[i].debt = c.debt
  <2>1. CASE i \in 1..m
    <3>1. ASSUME NEW j \in 1..n
          PROVE  ~IsVaultEvent(fs[j], u)
      <4>1. m + j \in (m + 1)..(m + n) /\ (m + j) - m = j /\ m + j \in (i + 1)..Len(gs)
        BY ONLY <1>1, <2>1, <3>1
      <4>2. gs[m + j] = fs[j]
        BY ONLY <1>1, <4>1
      <4> QED
        BY ONLY <1>3, <4>1, <4>2
    <3>2. b = c
      BY ONLY <3>1, VaultSettles(fs, u, b, c) DEF VaultSettles, n
    <3>3. \A j \in (i + 1)..m : j \in 1..m /\ j \in (i + 1)..Len(gs)
      BY ONLY <1>1, <2>1
    <3>4. \A j \in (i + 1)..m : ~IsVaultEvent(es[j], u)
      BY ONLY <1>1, <1>3, <3>3
    <3>5. gs[i] = es[i]
      BY ONLY <1>1, <2>1
    <3> QED
      BY ONLY <1>3, <2>1, <3>2, <3>4, <3>5, VaultSettles(es, u, a, b) DEF VaultSettles, m
  <2>2. CASE i \in (m + 1)..(m + n)
    <3> DEFINE k == i - m
    <3>1. k \in 1..n /\ gs[i] = fs[k]
      BY ONLY <1>1, <2>2
    <3>2. ASSUME NEW j \in (k + 1)..n
          PROVE  ~IsVaultEvent(fs[j], u)
      <4>1. m + j \in (m + 1)..(m + n) /\ (m + j) - m = j /\ m + j \in (i + 1)..Len(gs)
        BY ONLY <1>1, <2>2, <3>2
      <4>2. gs[m + j] = fs[j]
        BY ONLY <1>1, <4>1
      <4> QED
        BY ONLY <1>3, <4>1, <4>2
    <3> HIDE DEF k
    <3> QED
      BY ONLY <1>3, <3>1, <3>2, VaultSettles(fs, u, b, c) DEF VaultSettles, n
  <2> QED
    BY ONLY <1>1, <1>3, <2>1, <2>2
<1>4. (\A i \in 1..Len(gs) : ~IsVaultEvent(gs[i], u)) => a = c
  BY <1>2
<1> QED
  BY ONLY <1>3, <1>4 DEF VaultSettles, gs

\* The first event of es, or of fs when es has none.
LEMMA VaultDiffersThen ==
  ASSUME NEW es \in Seq(ChainEvents), NEW fs \in Seq(ChainEvents), NEW u, NEW a, NEW b,
         VaultSettles(es, u, a, b), VaultDiffers(es, u, a), VaultDiffers(fs, u, b)
  PROVE  VaultDiffers(es \o fs, u, a)
<1> DEFINE gs == es \o fs
           m == Len(es)
           n == Len(fs)
<1>1. /\ Len(gs) = m + n /\ m \in Nat /\ n \in Nat
      /\ \A i \in 1..m : gs[i] = es[i]
      /\ \A i \in (m + 1)..(m + n) : gs[i] = fs[i - m]
  BY EventsConcatenated
<1> HIDE DEF gs, m, n
<1>2. ASSUME NEW i \in 1..Len(gs), IsVaultEvent(gs[i], u), a.coll > 0,
             \A j \in 1..(i - 1) : ~IsVaultEvent(gs[j], u)
      PROVE  gs[i].name = "VaultLiquidated" \/ gs[i].coll # a.coll \/ gs[i].debt # a.debt
  <2>1. CASE i \in 1..m
    <3>1. \A j \in 1..(i - 1) : j \in 1..m
      BY ONLY <1>1, <2>1
    <3>2. \A j \in 1..(i - 1) : ~IsVaultEvent(es[j], u)
      BY ONLY <1>1, <1>2, <3>1
    <3>3. gs[i] = es[i]
      BY ONLY <1>1, <2>1
    <3> QED
      BY ONLY <1>2, <2>1, <3>2, <3>3, VaultDiffers(es, u, a) DEF VaultDiffers, m
  <2>2. CASE i \in (m + 1)..(m + n)
    <3> DEFINE k == i - m
    <3>1. k \in 1..n /\ gs[i] = fs[k]
      BY ONLY <1>1, <2>2
    <3>2. \A j \in 1..m : j \in 1..(i - 1)
      BY ONLY <1>1, <2>2
    <3>3. \A j \in 1..m : ~IsVaultEvent(es[j], u)
      BY ONLY <1>1, <1>2, <3>2
    <3>4. a = b
      BY ONLY <3>3, VaultSettles(es, u, a, b) DEF VaultSettles, m
    <3>5. ASSUME NEW j \in 1..(k - 1)
          PROVE  ~IsVaultEvent(fs[j], u)
      <4>1. m + j \in (m + 1)..(m + n) /\ (m + j) - m = j /\ m + j \in 1..(i - 1)
        BY ONLY <1>1, <2>2, <3>5
      <4>2. gs[m + j] = fs[j]
        BY ONLY <1>1, <4>1
      <4> QED
        BY ONLY <1>2, <4>1, <4>2
    <3> HIDE DEF k
    <3> QED
      BY ONLY <1>2, <3>1, <3>4, <3>5, VaultDiffers(fs, u, b) DEF VaultDiffers, n
  <2> QED
    BY ONLY <1>1, <1>2, <2>1, <2>2
<1> QED
  BY ONLY <1>2 DEF VaultDiffers, gs

\* The same for the surplus.
LEMMA SurplusSettlesThen ==
  ASSUME NEW es \in Seq(ChainEvents), NEW fs \in Seq(ChainEvents), NEW u, NEW a, NEW b, NEW c,
         SurplusSettles(es, u, a, b), SurplusSettles(fs, u, b, c)
  PROVE  SurplusSettles(es \o fs, u, a, c)
<1> DEFINE gs == es \o fs
           m == Len(es)
           n == Len(fs)
<1>1. /\ Len(gs) = m + n /\ m \in Nat /\ n \in Nat
      /\ \A i \in 1..m : gs[i] = es[i]
      /\ \A i \in (m + 1)..(m + n) : gs[i] = fs[i - m]
  BY EventsConcatenated
<1> HIDE DEF gs, m, n
<1>2. ASSUME \A i \in 1..Len(gs) : ~IsSurplusEvent(gs[i], u)
      PROVE  a = c
  <2>1. \A i \in 1..m : ~IsSurplusEvent(es[i], u)
    BY ONLY <1>1, <1>2
  <2>2. ASSUME NEW i \in 1..n
        PROVE  ~IsSurplusEvent(fs[i], u)
    <3>1. m + i \in (m + 1)..(m + n) /\ (m + i) - m = i /\ m + i \in 1..Len(gs)
      BY ONLY <1>1, <2>2
    <3>2. gs[m + i] = fs[i]
      BY ONLY <1>1, <3>1
    <3> QED
      BY ONLY <1>2, <3>1, <3>2
  <2> QED
    BY ONLY <2>1, <2>2, SurplusSettles(es, u, a, b), SurplusSettles(fs, u, b, c) DEF SurplusSettles, m, n
<1>3. ASSUME NEW i \in 1..Len(gs), IsSurplusEvent(gs[i], u),
             \A j \in (i + 1)..Len(gs) : ~IsSurplusEvent(gs[j], u)
      PROVE  gs[i].amount = c
  <2>1. CASE i \in 1..m
    <3>1. ASSUME NEW j \in 1..n
          PROVE  ~IsSurplusEvent(fs[j], u)
      <4>1. m + j \in (m + 1)..(m + n) /\ (m + j) - m = j /\ m + j \in (i + 1)..Len(gs)
        BY ONLY <1>1, <2>1, <3>1
      <4>2. gs[m + j] = fs[j]
        BY ONLY <1>1, <4>1
      <4> QED
        BY ONLY <1>3, <4>1, <4>2
    <3>2. b = c
      BY ONLY <3>1, SurplusSettles(fs, u, b, c) DEF SurplusSettles, n
    <3>3. \A j \in (i + 1)..m : j \in 1..m /\ j \in (i + 1)..Len(gs)
      BY ONLY <1>1, <2>1
    <3>4. \A j \in (i + 1)..m : ~IsSurplusEvent(es[j], u)
      BY ONLY <1>1, <1>3, <3>3
    <3>5. gs[i] = es[i]
      BY ONLY <1>1, <2>1
    <3> QED
      BY ONLY <1>3, <2>1, <3>2, <3>4, <3>5, SurplusSettles(es, u, a, b) DEF SurplusSettles, m
  <2>2. CASE i \in (m + 1)..(m + n)
    <3> DEFINE k == i - m
    <3>1. k \in 1..n /\ gs[i] = fs[k]
      BY ONLY <1>1, <2>2
    <3>2. ASSUME NEW j \in (k + 1)..n
          PROVE  ~IsSurplusEvent(fs[j], u)
      <4>1. m + j \in (m + 1)..(m + n) /\ (m + j) - m = j /\ m + j \in (i + 1)..Len(gs)
        BY ONLY <1>1, <2>2, <3>2
      <4>2. gs[m + j] = fs[j]
        BY ONLY <1>1, <4>1
      <4> QED
        BY ONLY <1>3, <4>1, <4>2
    <3> HIDE DEF k
    <3> QED
      BY ONLY <1>3, <3>1, <3>2, SurplusSettles(fs, u, b, c) DEF SurplusSettles, n
  <2> QED
    BY ONLY <1>1, <1>3, <2>1, <2>2
<1>4. (\A i \in 1..Len(gs) : ~IsSurplusEvent(gs[i], u)) => a = c
  BY <1>2
<1> QED
  BY ONLY <1>3, <1>4 DEF SurplusSettles, gs

\* Events of others lead nowhere.
LEMMA OthersSettle ==
  ASSUME NEW es, NEW u, NEW a, \A i \in 1..Len(es) : ~IsVaultEvent(es[i], u)
  PROVE  VaultSettles(es, u, a, a) /\ VaultDiffers(es, u, a)
BY DEF VaultSettles, VaultDiffers

\* Nor do other events change a surplus.
LEMMA OthersLeaveSurplus ==
  ASSUME NEW es, NEW u, NEW a, \A i \in 1..Len(es) : ~IsSurplusEvent(es[i], u)
  PROVE  SurplusSettles(es, u, a, a)
BY DEF SurplusSettles

\* One event that changes the amounts of a vault.
LEMMA UpdateSettles ==
  ASSUME NEW u, NEW op, NEW a, NEW v, a.coll > 0 => v.coll # a.coll \/ v.debt # a.debt
  PROVE  /\ VaultSettles(<<VaultUpdated(u, op, v)>>, u, a, v)
         /\ VaultDiffers(<<VaultUpdated(u, op, v)>>, u, a)
<1> DEFINE es == <<VaultUpdated(u, op, v)>>
<1>1. Len(es) = 1 /\ es[1].name = "VaultUpdated" /\ es[1].user = u /\ es[1].coll = v.coll
      /\ es[1].debt = v.debt
  BY DEF VaultUpdated
<1> HIDE DEF es
<1>2. IsVaultEvent(es[1], u) /\ \A i \in 1..Len(es) : i = 1
  BY <1>1 DEF IsVaultEvent, VaultNames
<1>3. VaultSettles(es, u, a, v)
  BY <1>1, <1>2 DEF VaultSettles
<1>4. VaultDiffers(es, u, a)
  BY <1>1, <1>2 DEF VaultDiffers
<1> QED
  BY <1>3, <1>4 DEF es

\* A liquidation announces the end of a vault twice.
LEMMA LiquidationSettles ==
  ASSUME NEW u, NEW op, NEW coll, NEW debt, NEW a
  PROVE  /\ VaultSettles(<<VaultLiquidated(u, op, coll, debt), VaultUpdated(u, op, NoVault)>>, u, a, NoVault)
         /\ VaultDiffers(<<VaultLiquidated(u, op, coll, debt), VaultUpdated(u, op, NoVault)>>, u, a)
<1> DEFINE es == <<VaultLiquidated(u, op, coll, debt), VaultUpdated(u, op, NoVault)>>
<1>1. /\ Len(es) = 2 /\ es[1].name = "VaultLiquidated" /\ es[1].user = u
      /\ es[2].name = "VaultUpdated" /\ es[2].user = u /\ es[2].coll = NoVault.coll
      /\ es[2].debt = NoVault.debt
  BY DEF VaultUpdated, VaultLiquidated
<1> HIDE DEF es
<1>2. /\ IsVaultEvent(es[1], u) /\ IsVaultEvent(es[2], u)
      /\ \A i \in 1..Len(es) : i = 1 \/ i = 2
      /\ 2 \in (1 + 1)..Len(es) /\ 1 \in 1..(2 - 1)
  BY <1>1 DEF IsVaultEvent, VaultNames
<1>3. VaultSettles(es, u, a, NoVault)
  BY <1>1, <1>2 DEF VaultSettles
<1>4. VaultDiffers(es, u, a)
  BY <1>1, <1>2 DEF VaultDiffers
<1> QED
  BY <1>3, <1>4 DEF es

\* One event of a surplus.
LEMMA BalanceSettles ==
  ASSUME NEW u, NEW a, NEW amount
  PROVE  SurplusSettles(<<CollBalanceUpdated(u, amount)>>, u, a, amount)
<1> DEFINE es == <<CollBalanceUpdated(u, amount)>>
<1>1. Len(es) = 1 /\ IsSurplusEvent(es[1], u) /\ es[1].amount = amount
  BY DEF CollBalanceUpdated, IsSurplusEvent
<1> HIDE DEF es
<1>2. \A i \in 1..Len(es) : i = 1
  BY <1>1
<1>3. SurplusSettles(es, u, a, amount)
  BY <1>1, <1>2 DEF SurplusSettles
<1> QED
  BY <1>3 DEF es

\* The events that are left once the first was handled.
LEMMA TailElems ==
  ASSUME NEW V, NEW es \in Seq(V), es # <<>>
  PROVE  /\ Tail(es) \in Seq(V) /\ Len(es) \in Nat /\ Len(es) > 0 /\ Len(Tail(es)) = Len(es) - 1
         /\ Head(es) = es[1] /\ es[1] \in V
         /\ \A i \in 1..(Len(es) - 1) : Tail(es)[i] = es[i + 1]
OBVIOUS

\* An event of another vault was handled.
LEMMA TailOfOther ==
  ASSUME NEW es \in Seq(ChainEvents), es # <<>>, NEW u, NEW a, NEW b, ~IsVaultEvent(es[1], u),
         VaultSettles(es, u, a, b)
  PROVE  /\ VaultSettles(Tail(es), u, a, b)
         /\ VaultDiffers(es, u, a) => VaultDiffers(Tail(es), u, a)
<1> DEFINE ts == Tail(es)
           n == Len(es)
<1>1. n \in Nat /\ n > 0 /\ Len(ts) = n - 1 /\ \A i \in 1..(n - 1) : ts[i] = es[i + 1]
  BY TailElems
<1> HIDE DEF ts, n
<1>2. \A i \in 1..n : i = 1 \/ i - 1 \in 1..(n - 1)
  BY ONLY <1>1
<1>3. \A i \in 2..n : es[i] = ts[i - 1]
  BY ONLY <1>1
<1>4. ASSUME \A i \in 1..Len(ts) : ~IsVaultEvent(ts[i], u)
      PROVE  a = b
  <2>1. ASSUME NEW i \in 1..n
        PROVE  ~IsVaultEvent(es[i], u)
    <3>1. CASE i = 1
      BY ONLY <3>1, ~IsVaultEvent(es[1], u)
    <3>2. CASE i # 1
      <4>1. i \in 2..n /\ i - 1 \in 1..Len(ts)
        BY ONLY <1>1, <2>1, <3>2
      <4> QED
        BY ONLY <1>3, <1>4, <4>1
    <3> QED
      BY ONLY <3>1, <3>2
  <2> QED
    BY ONLY <2>1, VaultSettles(es, u, a, b) DEF VaultSettles, n
<1>5. ASSUME NEW i \in 1..Len(ts), IsVaultEvent(ts[i], u),
             \A j \in (i + 1)..Len(ts) : ~IsVaultEvent(ts[j], u)
      PROVE  ts[i].name = "VaultUpdated" /\ ts[i].coll = b.coll /\ ts[i].debt = b.debt
  <2>1. i + 1 \in 1..n /\ ts[i] = es[i + 1]
    BY ONLY <1>1, <1>5
  <2>2. ASSUME NEW j \in ((i + 1) + 1)..n
        PROVE  ~IsVaultEvent(es[j], u)
    <3>1. j \in 2..n /\ j - 1 \in (i + 1)..Len(ts)
      BY ONLY <1>1, <1>5, <2>2
    <3> QED
      BY ONLY <1>3, <1>5, <3>1
  <2> QED
    BY ONLY <1>5, <2>1, <2>2, VaultSettles(es, u, a, b) DEF VaultSettles, n
<1>6. ASSUME VaultDiffers(es, u, a), NEW i \in 1..Len(ts), IsVaultEvent(ts[i], u), a.coll > 0,
             \A j \in 1..(i - 1) : ~IsVaultEvent(ts[j], u)
      PROVE  ts[i].name = "VaultLiquidated" \/ ts[i].coll # a.coll \/ ts[i].debt # a.debt
  <2>1. i + 1 \in 1..n /\ ts[i] = es[i + 1]
    BY ONLY <1>1, <1>6
  <2>2. ASSUME NEW j \in 1..((i + 1) - 1)
        PROVE  ~IsVaultEvent(es[j], u)
    <3>1. CASE j = 1
      BY ONLY <3>1, ~IsVaultEvent(es[1], u)
    <3>2. CASE j # 1
      <4>1. j \in 2..n /\ j - 1 \in 1..(i - 1)
        BY ONLY <1>1, <1>6, <2>2, <3>2
      <4> QED
        BY ONLY <1>3, <1>6, <4>1
    <3> QED
      BY ONLY <3>1, <3>2
  <2> QED
    BY ONLY <1>6, <2>1, <2>2 DEF VaultDiffers, n
<1>9. (\A i \in 1..Len(ts) : ~IsVaultEvent(ts[i], u)) => a = b
  BY <1>4
<1>7. VaultSettles(ts, u, a, b)
  BY ONLY <1>5, <1>9 DEF VaultSettles
<1>8. VaultDiffers(es, u, a) => VaultDiffers(ts, u, a)
  BY ONLY <1>6 DEF VaultDiffers
<1> QED
  BY <1>7, <1>8 DEF ts

\* An event of the vault was handled: the last one gave what the contracts have.
LEMMA TailOfOwn ==
  ASSUME NEW es \in Seq(ChainEvents), es # <<>>, NEW u, NEW a, NEW b, NEW c,
         IsVaultEvent(es[1], u), VaultSettles(es, u, a, b),
         es[1].name = "VaultUpdated" /\ es[1].coll = b.coll /\ es[1].debt = b.debt => c = b
  PROVE  VaultSettles(Tail(es), u, c, b)
<1> DEFINE ts == Tail(es)
           n == Len(es)
<1>1. n \in Nat /\ n > 0 /\ Len(ts) = n - 1 /\ \A i \in 1..(n - 1) : ts[i] = es[i + 1]
  BY TailElems
<1> HIDE DEF ts, n
<1>3. \A i \in 2..n : es[i] = ts[i - 1]
  BY ONLY <1>1
<1>4. ASSUME \A i \in 1..Len(ts) : ~IsVaultEvent(ts[i], u)
      PROVE  c = b
  <2>1. ASSUME NEW i \in (1 + 1)..n
        PROVE  ~IsVaultEvent(es[i], u)
    <3>1. i \in 2..n /\ i - 1 \in 1..Len(ts)
      BY ONLY <1>1, <2>1
    <3> QED
      BY ONLY <1>3, <1>4, <3>1
  <2>2. 1 \in 1..n
    BY ONLY <1>1
  <2>3. es[1].name = "VaultUpdated" /\ es[1].coll = b.coll /\ es[1].debt = b.debt
    BY ONLY <2>1, <2>2, IsVaultEvent(es[1], u), VaultSettles(es, u, a, b) DEF VaultSettles, n
  <2> QED
    BY <2>3
<1>5. ASSUME NEW i \in 1..Len(ts), IsVaultEvent(ts[i], u),
             \A j \in (i + 1)..Len(ts) : ~IsVaultEvent(ts[j], u)
      PROVE  ts[i].name = "VaultUpdated" /\ ts[i].coll = b.coll /\ ts[i].debt = b.debt
  <2>1. i + 1 \in 1..n /\ ts[i] = es[i + 1]
    BY ONLY <1>1, <1>5
  <2>2. ASSUME NEW j \in ((i + 1) + 1)..n
        PROVE  ~IsVaultEvent(es[j], u)
    <3>1. j \in 2..n /\ j - 1 \in (i + 1)..Len(ts)
      BY ONLY <1>1, <1>5, <2>2
    <3> QED
      BY ONLY <1>3, <1>5, <3>1
  <2> QED
    BY ONLY <1>5, <2>1, <2>2, VaultSettles(es, u, a, b) DEF VaultSettles, n
<1>6. (\A i \in 1..Len(ts) : ~IsVaultEvent(ts[i], u)) => c = b
  BY <1>4
<1>7. VaultSettles(ts, u, c, b)
  BY ONLY <1>5, <1>6 DEF VaultSettles
<1> QED
  BY <1>7 DEF ts

\* The same for the surplus.
LEMMA SurplusTailOfOther ==
  ASSUME NEW es \in Seq(ChainEvents), es # <<>>, NEW u, NEW a, NEW b, ~IsSurplusEvent(es[1], u),
         SurplusSettles(es, u, a, b)
  PROVE  SurplusSettles(Tail(es), u, a, b)
<1> DEFINE ts == Tail(es)
           n == Len(es)
<1>1. n \in Nat /\ n > 0 /\ Len(ts) = n - 1 /\ \A i \in 1..(n - 1) : ts[i] = es[i + 1]
  BY TailElems
<1> HIDE DEF ts, n
<1>2. \A i \in 1..n : i = 1 \/ i - 1 \in 1..(n - 1)
  BY ONLY <1>1
<1>3. \A i \in 2..n : es[i] = ts[i - 1]
  BY ONLY <1>1
<1>4. ASSUME \A i \in 1..Len(ts) : ~IsSurplusEvent(ts[i], u)
      PROVE  a = b
  <2>1. ASSUME NEW i \in 1..n
        PROVE  ~IsSurplusEvent(es[i], u)
    <3>1. CASE i = 1
      BY ONLY <3>1, ~IsSurplusEvent(es[1], u)
    <3>2. CASE i # 1
      <4>1. i \in 2..n /\ i - 1 \in 1..Len(ts)
        BY ONLY <1>1, <2>1, <3>2
      <4> QED
        BY ONLY <1>3, <1>4, <4>1
    <3> QED
      BY ONLY <3>1, <3>2
  <2> QED
    BY ONLY <2>1, SurplusSettles(es, u, a, b) DEF SurplusSettles, n
<1>5. ASSUME NEW i \in 1..Len(ts), IsSurplusEvent(ts[i], u),
             \A j \in (i + 1)..Len(ts) : ~IsSurplusEvent(ts[j], u)
      PROVE  ts[i].amount = b
  <2>1. i + 1 \in 1..n /\ ts[i] = es[i + 1]
    BY ONLY <1>1, <1>5
  <2>2. ASSUME NEW j \in ((i + 1) + 1)..n
        PROVE  ~IsSurplusEvent(es[j], u)
    <3>1. j \in 2..n /\ j - 1 \in (i + 1)..Len(ts)
      BY ONLY <1>1, <1>5, <2>2
    <3> QED
      BY ONLY <1>3, <1>5, <3>1
  <2> QED
    BY ONLY <1>5, <2>1, <2>2, SurplusSettles(es, u, a, b) DEF SurplusSettles, n
<1>6. (\A i \in 1..Len(ts) : ~IsSurplusEvent(ts[i], u)) => a = b
  BY <1>4
<1>7. SurplusSettles(ts, u, a, b)
  BY ONLY <1>5, <1>6 DEF SurplusSettles
<1> QED
  BY <1>7 DEF ts


\* The last event of a surplus was handled.
LEMMA SurplusTailOfOwn ==
  ASSUME NEW es \in Seq(ChainEvents), es # <<>>, NEW u, NEW a, NEW b, NEW c,
         IsSurplusEvent(es[1], u), SurplusSettles(es, u, a, b),
         es[1].amount = b => c = b
  PROVE  SurplusSettles(Tail(es), u, c, b)
<1> DEFINE ts == Tail(es)
           n == Len(es)
<1>1. n \in Nat /\ n > 0 /\ Len(ts) = n - 1 /\ \A i \in 1..(n - 1) : ts[i] = es[i + 1]
  BY TailElems
<1> HIDE DEF ts, n
<1>3. \A i \in 2..n : es[i] = ts[i - 1]
  BY ONLY <1>1
<1>4. ASSUME \A i \in 1..Len(ts) : ~IsSurplusEvent(ts[i], u)
      PROVE  c = b
  <2>1. ASSUME NEW i \in (1 + 1)..n
        PROVE  ~IsSurplusEvent(es[i], u)
    <3>1. i \in 2..n /\ i - 1 \in 1..Len(ts)
      BY ONLY <1>1, <2>1
    <3> QED
      BY ONLY <1>3, <1>4, <3>1
  <2>2. 1 \in 1..n
    BY ONLY <1>1
  <2>3. es[1].amount = b
    BY ONLY <2>1, <2>2, IsSurplusEvent(es[1], u), SurplusSettles(es, u, a, b) DEF SurplusSettles, n
  <2> QED
    BY <2>3
<1>5. ASSUME NEW i \in 1..Len(ts), IsSurplusEvent(ts[i], u),
             \A j \in (i + 1)..Len(ts) : ~IsSurplusEvent(ts[j], u)
      PROVE  ts[i].amount = b
  <2>1. i + 1 \in 1..n /\ ts[i] = es[i + 1]
    BY ONLY <1>1, <1>5
  <2>2. ASSUME NEW j \in ((i + 1) + 1)..n
        PROVE  ~IsSurplusEvent(es[j], u)
    <3>1. j \in 2..n /\ j - 1 \in (i + 1)..Len(ts)
      BY ONLY <1>1, <1>5, <2>2
    <3> QED
      BY ONLY <1>3, <1>5, <3>1
  <2> QED
    BY ONLY <1>5, <2>1, <2>2, SurplusSettles(es, u, a, b) DEF SurplusSettles, n
<1>6. (\A i \in 1..Len(ts) : ~IsSurplusEvent(ts[i], u)) => c = b
  BY <1>4
<1>7. SurplusSettles(ts, u, c, b)
  BY ONLY <1>5, <1>6 DEF SurplusSettles
<1> QED
  BY <1>7 DEF ts

-----------------------------------------------------------------------------
(* The transactions of the contracts. *)

\* The events about u, or about no one, in a transaction that the event named last ends.
Own(u, last) ==
  { e \in ChainEvents :
      /\ \A name \in ClosingNames : EndedBy(e, name) => name = last
      /\ \A v \in Users \ {u} : ~IsVaultEvent(e, v) /\ ~IsSurplusEvent(e, v) }

\* The events es lead u from the vault a and the surplus s to the vault b and the surplus t.
Lead(es, u, last, a, b, s, t) ==
  /\ es \in Seq(Own(u, last))
  /\ VaultSettles(es, u, a, b) /\ VaultDiffers(es, u, a)
  /\ SurplusSettles(es, u, s, t)

\* A sequence over a set is one over a larger set.
LEMMA SeqOfMore ==
  ASSUME NEW V, NEW W, V \subseteq W, NEW es \in Seq(V)
  PROVE  es \in Seq(W)
<1>1. Len(es) \in Nat /\ es \in [1..Len(es) -> V]
  OBVIOUS
<1>2. es \in [1..Len(es) -> W]
  BY <1>1
<1> QED
  BY <1>1, <1>2

\* The events of u are events.
LEMMA OwnAreEvents ==
  ASSUME NEW u, NEW last, NEW es \in Seq(Own(u, last))
  PROVE  es \in Seq(ChainEvents) /\ Len(es) \in Nat /\ \A i \in 1..Len(es) : es[i] \in Own(u, last)
<1>1. Own(u, last) \subseteq ChainEvents
  BY DEF Own
<1>2. es \in Seq(ChainEvents)
  BY <1>1, SeqOfMore
<1> QED
  BY <1>2

\* One after the other.
LEMMA LeadThen ==
  ASSUME NEW es, NEW fs, NEW u, NEW last, NEW a, NEW b, NEW c, NEW s, NEW t, NEW w,
         Lead(es, u, last, a, b, s, t), Lead(fs, u, last, b, c, t, w)
  PROVE  Lead(es \o fs, u, last, a, c, s, w)
<1>1. es \in Seq(ChainEvents) /\ fs \in Seq(ChainEvents)
  BY OwnAreEvents DEF Lead
<1>2. es \o fs \in Seq(Own(u, last))
  <2> HIDE DEF Own
  <2> QED
    BY DEF Lead
<1>3. VaultSettles(es \o fs, u, a, c) /\ VaultDiffers(es \o fs, u, a)
  BY <1>1, VaultSettlesThen, VaultDiffersThen DEF Lead
<1>4. SurplusSettles(es \o fs, u, s, w)
  BY <1>1, SurplusSettlesThen DEF Lead
<1> QED
  BY <1>2, <1>3, <1>4 DEF Lead

\* No events.
LEMMA LeadNowhere ==
  ASSUME NEW u, NEW last, NEW a, NEW s
  PROVE  Lead(<<>>, u, last, a, a, s, s)
<1>1. <<>> \in Seq(Own(u, last))
  OBVIOUS
<1>2. VaultSettles(<<>>, u, a, a) /\ VaultDiffers(<<>>, u, a)
  BY OthersSettle
<1>3. SurplusSettles(<<>>, u, s, s)
  BY OthersLeaveSurplus
<1> QED
  BY <1>1, <1>2, <1>3 DEF Lead

\* An event about a deposit, or the end of a transaction.
LEMMA LeadOther ==
  ASSUME NEW e \in ChainEvents, NEW u, NEW last, NEW a, NEW s,
         e.name \notin VaultNames \cup {"CollBalanceUpdated"}
  PROVE  Lead(<<e>>, u, last, a, a, s, s)
<1>1. e \in Own(u, last)
  BY DEF Own, EndedBy, IsVaultEvent, IsSurplusEvent
<1>2. <<e>> \in Seq(Own(u, last)) /\ Len(<<e>>) = 1 /\ <<e>>[1] = e
  BY <1>1
<1>3. VaultSettles(<<e>>, u, a, a) /\ VaultDiffers(<<e>>, u, a)
  BY OthersSettle DEF IsVaultEvent
<1>4. SurplusSettles(<<e>>, u, s, s)
  BY OthersLeaveSurplus DEF IsSurplusEvent
<1> QED
  BY <1>2, <1>3, <1>4 DEF Lead

VaultTypes == [coll : Nat, debt : Nat, snapshot : Nat]

\* The vault changes to v by an operation that belongs to the transaction.
Fits(op, last) == op \in Ops /\ \A name \in ClosingNames :
  (name = "Liquidation" /\ op \in Liquidations) \/ (name = "Redemption" /\ IsRedemption(op)) => name = last

\* An event that gives u the amounts of v.
LEMMA LeadUpdate ==
  ASSUME NEW u \in Users, NEW op, NEW last, Fits(op, last), NEW a, NEW v \in VaultTypes, NEW s,
         a.coll > 0 => v.coll # a.coll \/ v.debt # a.debt
  PROVE  Lead(<<VaultUpdated(u, op, v)>>, u, last, a, v, s, s)
<1> DEFINE e == VaultUpdated(u, op, v)
<1>1. /\ e \in VaultEvents /\ e.name = "VaultUpdated" /\ e.user = u /\ e.op = op
  BY DEF VaultUpdated, VaultEvents, VaultTypes, VaultNames, Fits
<1>2. VaultSettles(<<e>>, u, a, v) /\ VaultDiffers(<<e>>, u, a)
  BY UpdateSettles
<1> HIDE DEF e
<1>3. e \in Own(u, last)
  BY <1>1 DEF Own, ChainEvents, EndedBy, IsVaultEvent, IsSurplusEvent, Fits
<1>4. SurplusSettles(<<e>>, u, s, s)
  BY <1>1, OthersLeaveSurplus DEF IsSurplusEvent
<1>5. <<e>> \in Seq(Own(u, last))
  BY <1>3
<1> QED
  BY <1>2, <1>4, <1>5 DEF Lead, e

\* The two events of a liquidated vault.
LEMMA LeadLiquidation ==
  ASSUME NEW u \in Users, NEW op, Fits(op, "Liquidation"), NEW coll \in Nat, NEW debt \in Nat,
         NEW a, NEW s
  PROVE  Lead(<<VaultLiquidated(u, op, coll, debt), VaultUpdated(u, op, NoVault)>>, u, "Liquidation",
              a, NoVault, s, s)
<1> DEFINE d == VaultLiquidated(u, op, coll, debt)
           e == VaultUpdated(u, op, NoVault)
<1>1. /\ d \in VaultEvents /\ d.user = u /\ d.op = op /\ d.name = "VaultLiquidated"
      /\ e \in VaultEvents /\ e.user = u /\ e.op = op /\ e.name = "VaultUpdated"
  BY DEF VaultUpdated, VaultLiquidated, VaultEvents, NoVault, VaultNames, Fits
<1>2. VaultSettles(<<d, e>>, u, a, NoVault) /\ VaultDiffers(<<d, e>>, u, a)
  BY LiquidationSettles
<1> HIDE DEF d, e
<1>3. d \in Own(u, "Liquidation") /\ e \in Own(u, "Liquidation")
  BY <1>1 DEF Own, ChainEvents, EndedBy, IsVaultEvent, IsSurplusEvent, Fits
<1>4. SurplusSettles(<<d, e>>, u, s, s)
  <2>1. \A i \in 1..Len(<<d, e>>) : <<d, e>>[i] = d \/ <<d, e>>[i] = e
    OBVIOUS
  <2> QED
    BY <1>1, <2>1, OthersLeaveSurplus DEF IsSurplusEvent
<1>5. <<d, e>> \in Seq(Own(u, "Liquidation"))
  BY <1>3
<1> QED
  BY <1>2, <1>4, <1>5 DEF Lead, d, e

\* The event of a surplus.
LEMMA LeadBalance ==
  ASSUME NEW u \in Users, NEW last, NEW a, NEW s, NEW t \in Int
  PROVE  Lead(<<CollBalanceUpdated(u, t)>>, u, last, a, a, s, t)
<1> DEFINE e == CollBalanceUpdated(u, t)
<1>1. e \in ChainEvents /\ e.name = "CollBalanceUpdated" /\ e.user = u
  BY DEF CollBalanceUpdated, ChainEvents
<1>2. SurplusSettles(<<e>>, u, s, t)
  BY BalanceSettles
<1> HIDE DEF e
<1>3. e \in Own(u, last)
  BY <1>1 DEF Own, EndedBy, IsVaultEvent, IsSurplusEvent, VaultNames
<1>4. VaultSettles(<<e>>, u, a, a) /\ VaultDiffers(<<e>>, u, a)
  BY <1>1, OthersSettle DEF IsVaultEvent, VaultNames
<1>5. <<e>> \in Seq(Own(u, last))
  BY <1>3
<1> QED
  BY <1>2, <1>4, <1>5 DEF Lead, e

\* Others are led nowhere.
LEMMA LeadsNoOther ==
  ASSUME NEW u, NEW last, NEW es \in Seq(Own(u, last)), NEW v \in Users \ {u}, NEW a, NEW s
  PROVE  VaultSettles(es, v, a, a) /\ VaultDiffers(es, v, a) /\ SurplusSettles(es, v, s, s)
<1>1. \A i \in 1..Len(es) : ~IsVaultEvent(es[i], v) /\ ~IsSurplusEvent(es[i], v)
  BY OwnAreEvents DEF Own
<1> QED
  BY <1>1, OthersSettle, OthersLeaveSurplus

\* What a transaction does: its events are about what it changes, and they lead to it.
Transaction(es) ==
  /\ es \in Seq(ChainEvents) /\ Emit(es)
  /\ \A i \in 1..Len(es) : \A name \in ClosingNames : EndedBy(es[i], name) =>
       \E j \in 1..Len(es) : i < j /\ es[j].name = name
  /\ LedgerTypeInv' /\ VaultsInv'
  /\ \A u \in Users :
       /\ VaultSettles(es, u, vaults[u], vaults'[u]) /\ VaultDiffers(es, u, vaults[u])
       /\ SurplusSettles(es, u, surplus[u], surplus'[u])

\* The vault, the deposit and the surplus of one user change.
LEMMA TransactionOfOne ==
  ASSUME NEW u \in Users, NEW es, Emit(es), LedgerTypeInv', VaultsInv',
         Lead(es, u, "none", vaults[u], vaults'[u], surplus[u], surplus'[u]),
         \A v \in Users \ {u} : vaults'[v] = vaults[v] /\ surplus'[v] = surplus[v]
  PROVE  Transaction(es)
<1>1. /\ es \in Seq(ChainEvents)
      /\ \A i \in 1..Len(es) : es[i] \in Own(u, "none")
  BY OwnAreEvents DEF Lead
<1>2. \A i \in 1..Len(es) : \A name \in ClosingNames : ~EndedBy(es[i], name)
  BY <1>1 DEF Own, ClosingNames
<1>3. ASSUME NEW v \in Users
      PROVE  /\ VaultSettles(es, v, vaults[v], vaults'[v]) /\ VaultDiffers(es, v, vaults[v])
             /\ SurplusSettles(es, v, surplus[v], surplus'[v])
  <2>1. CASE v = u
    BY <2>1 DEF Lead
  <2>2. CASE v # u
    <3>1. es \in Seq(Own(u, "none")) /\ v \in Users \ {u}
      BY <2>2 DEF Lead
    <3>2. vaults'[v] = vaults[v] /\ surplus'[v] = surplus[v]
      BY <3>1
    <3> QED
      BY <3>1, <3>2, LeadsNoOther
  <2> QED
    BY <2>1, <2>2
<1> QED
  BY <1>1, <1>2, <1>3 DEF Transaction

\* Rewards are not negative, and an event says which vault got some.
LEMMA AccrueLeads ==
  ASSUME LedgerTypeInv, VaultsInv, NEW u \in Active, NEW last, NEW s
  PROVE  /\ u \in Users /\ vaults[u] \in VaultTypes /\ vaults[u].coll > 0
         /\ Accrued(u) \in VaultTypes /\ Accrued(u).coll > 0 /\ Accrued(u).snapshot = redistributed
         /\ Lead(AccrueEvents(u), u, last, vaults[u], Accrued(u), s, s)
<1>1. u \in Users /\ vaults[u] \in VaultTypes /\ vaults[u].coll > 0 /\ vaults[u].snapshot <= redistributed
  BY DEF LedgerTypeInv, VaultsInv, Active, VaultTypes
<1>2. redistributed \in Nat
  BY DEF LedgerTypeInv
<1> DEFINE reward == redistributed - vaults[u].snapshot
<1>3. reward \in Nat /\ (vaults[u].snapshot < redistributed <=> reward > 0)
  BY <1>1, <1>2 DEF VaultTypes
<1>4. Accrued(u) = [coll |-> vaults[u].coll + reward, debt |-> vaults[u].debt + reward, snapshot |-> redistributed]
  BY DEF Accrued
<1> HIDE DEF reward
<1>5. Accrued(u) \in VaultTypes /\ Accrued(u).coll > 0 /\ Accrued(u).snapshot = redistributed
  BY <1>1, <1>2, <1>3, <1>4 DEF VaultTypes
<1>6. CASE vaults[u].snapshot < redistributed
  <2>1. Accrued(u).coll # vaults[u].coll
    BY <1>1, <1>3, <1>4, <1>6 DEF VaultTypes
  <2>2. Fits("accrueRewards", last)
    BY DEF Fits, Ops, Liquidations, IsRedemption
  <2>3. Lead(<<VaultUpdated(u, "accrueRewards", Accrued(u))>>, u, last, vaults[u], Accrued(u), s, s)
    BY <1>1, <1>5, <2>1, <2>2, LeadUpdate
  <2> QED
    BY <1>1, <1>5, <1>6, <2>3 DEF AccrueEvents
<1>7. CASE ~(vaults[u].snapshot < redistributed)
  <2>1. reward = 0 /\ vaults[u].snapshot = redistributed
    BY <1>1, <1>2, <1>3, <1>7 DEF VaultTypes
  <2>2. Accrued(u) = vaults[u]
    BY <1>1, <1>4, <2>1 DEF VaultTypes
  <2> QED
    BY <1>1, <1>5, <1>7, <2>2, LeadNowhere DEF AccrueEvents
<1> QED
  BY <1>6, <1>7

\* The vaults after one of them changed.
LEMMA OneVaultChanges ==
  ASSUME LedgerTypeInv, VaultsInv, NEW u \in Users, NEW v \in VaultTypes,
         vaults' = [vaults EXCEPT ![u] = v], redistributed' = redistributed,
         v.snapshot <= redistributed, v.coll = 0 => v = NoVault,
         deposits' \in [Users -> [initial : Int, loss : Int, gain : Int]], surplus' = surplus
  PROVE  /\ LedgerTypeInv' /\ VaultsInv' /\ vaults'[u] = v
         /\ \A w \in Users \ {u} : vaults'[w] = vaults[w]
<1>1. vaults'[u] = v /\ \A w \in Users \ {u} : vaults'[w] = vaults[w]
  BY DEF LedgerTypeInv
<1>2. LedgerTypeInv'
  BY DEF LedgerTypeInv, VaultTypes
<1>3. VaultsInv'
  BY <1>1 DEF VaultsInv
<1> QED
  BY <1>1, <1>2, <1>3

\* openVault.
LEMMA OpenVaultEvents ==
  ASSUME LedgerTypeInv, VaultsInv, NEW u \in Users, NEW p \in Positions, OpenVault(u, p)
  PROVE  \E es : Transaction(es)
<1> DEFINE v == [coll |-> p[1], debt |-> p[2], snapshot |-> redistributed]
           es == <<VaultUpdated(u, "openVault", v)>>
<1>1. p[1] \in Nat \ {0} /\ p[2] \in Nat \ {0} /\ redistributed \in Nat
  BY ContractEventsAssumption DEF LedgerTypeInv
<1>2. v \in VaultTypes /\ v.coll > 0 /\ v.snapshot = redistributed
  BY <1>1 DEF VaultTypes
<1>3. /\ u \notin Active /\ vaults' = [vaults EXCEPT ![u] = v] /\ Emit(es)
      /\ UNCHANGED <<redistributed, deposits, surplus>>
  BY DEF OpenVault
<1> HIDE DEF v
<1>4. LedgerTypeInv' /\ VaultsInv' /\ vaults'[u] = v /\ \A w \in Users \ {u} : vaults'[w] = vaults[w]
  <2>1. deposits' \in [Users -> [initial : Int, loss : Int, gain : Int]] /\ surplus' = surplus
    BY <1>3 DEF LedgerTypeInv
  <2>2. v.snapshot <= redistributed /\ v.coll # 0
    BY <1>1, <1>2 DEF VaultTypes
  <2> QED
    BY <1>2, <1>3, <2>1, <2>2, OneVaultChanges
<1>5. ~(vaults[u].coll > 0) /\ Fits("openVault", "none")
  BY <1>3 DEF Active, Fits, Ops, Liquidations, IsRedemption, LedgerTypeInv
<1>6. Lead(es, u, "none", vaults[u], v, surplus[u], surplus[u])
  BY <1>2, <1>5, LeadUpdate
<1>7. Emit(es)
  BY <1>3
<1> HIDE DEF es
<1>8. Transaction(es)
  BY <1>3, <1>4, <1>6, <1>7, TransactionOfOne
<1> QED
  BY <1>8

\* adjustVault.
LEMMA AdjustVaultEvents ==
  ASSUME LedgerTypeInv, VaultsInv, NEW u \in Users, NEW p \in Positions, AdjustVault(u, p)
  PROVE  \E es : Transaction(es)
<1> DEFINE v == [coll |-> p[1], debt |-> p[2], snapshot |-> redistributed]
           es == AccrueEvents(u) \o <<VaultUpdated(u, "adjustVault", v)>>
<1>1. p[1] \in Nat \ {0} /\ p[2] \in Nat \ {0} /\ redistributed \in Nat
  BY ContractEventsAssumption DEF LedgerTypeInv
<1>2. v \in VaultTypes /\ v.coll > 0 /\ v.snapshot = redistributed
  BY <1>1 DEF VaultTypes
<1>3. /\ u \in Active /\ v # Accrued(u) /\ vaults' = [vaults EXCEPT ![u] = v] /\ Emit(es)
      /\ UNCHANGED <<redistributed, deposits, surplus>>
  BY DEF AdjustVault
<1> HIDE DEF v
<1>4. LedgerTypeInv' /\ VaultsInv' /\ vaults'[u] = v /\ \A w \in Users \ {u} : vaults'[w] = vaults[w]
  <2>1. deposits' \in [Users -> [initial : Int, loss : Int, gain : Int]] /\ surplus' = surplus
    BY <1>3 DEF LedgerTypeInv
  <2>2. v.snapshot <= redistributed /\ v.coll # 0
    BY <1>1, <1>2 DEF VaultTypes
  <2> QED
    BY <1>2, <1>3, <2>1, <2>2, OneVaultChanges
<1>5. Fits("adjustVault", "none")
  BY DEF Fits, Ops, Liquidations, IsRedemption
<1>6. /\ Accrued(u) \in VaultTypes /\ Accrued(u).snapshot = redistributed
      /\ Lead(AccrueEvents(u), u, "none", vaults[u], Accrued(u), surplus[u], surplus[u])
  BY <1>3, AccrueLeads
<1>7. v.coll # Accrued(u).coll \/ v.debt # Accrued(u).debt
  BY <1>2, <1>3, <1>6 DEF VaultTypes
<1>8. Lead(<<VaultUpdated(u, "adjustVault", v)>>, u, "none", Accrued(u), v, surplus[u], surplus[u])
  BY <1>2, <1>5, <1>7, LeadUpdate
<1>9. Lead(es, u, "none", vaults[u], v, surplus[u], surplus[u])
  BY <1>6, <1>8, LeadThen
<1>10. Emit(es)
  BY <1>3
<1> HIDE DEF es
<1>11. Transaction(es)
  BY <1>3, <1>4, <1>9, <1>10, TransactionOfOne
<1> QED
  BY <1>11

\* closeVault.
LEMMA CloseVaultEvents ==
  ASSUME LedgerTypeInv, VaultsInv, NEW u \in Users, CloseVault(u)
  PROVE  \E es : Transaction(es)
<1> DEFINE es == AccrueEvents(u) \o <<VaultUpdated(u, "closeVault", NoVault)>>
<1>1. redistributed \in Nat
  BY DEF LedgerTypeInv
<1>2. NoVault \in VaultTypes /\ NoVault.coll = 0 /\ NoVault.snapshot = 0
  BY DEF VaultTypes, NoVault
<1>3. /\ u \in Active /\ vaults' = [vaults EXCEPT ![u] = NoVault] /\ Emit(es)
      /\ UNCHANGED <<redistributed, deposits, surplus>>
  BY DEF CloseVault
<1>4. LedgerTypeInv' /\ VaultsInv' /\ vaults'[u] = NoVault /\ \A w \in Users \ {u} : vaults'[w] = vaults[w]
  <2>1. deposits' \in [Users -> [initial : Int, loss : Int, gain : Int]] /\ surplus' = surplus
    BY <1>3 DEF LedgerTypeInv
  <2>2. NoVault.snapshot <= redistributed
    BY <1>1, <1>2
  <2> QED
    BY <1>2, <1>3, <2>1, <2>2, OneVaultChanges
<1>5. Fits("closeVault", "none")
  BY DEF Fits, Ops, Liquidations, IsRedemption
<1>6. /\ Accrued(u) \in VaultTypes /\ Accrued(u).coll > 0
      /\ Lead(AccrueEvents(u), u, "none", vaults[u], Accrued(u), surplus[u], surplus[u])
  BY <1>3, AccrueLeads
<1>7. NoVault.coll # Accrued(u).coll
  BY <1>2, <1>6
<1>8. Lead(<<VaultUpdated(u, "closeVault", NoVault)>>, u, "none", Accrued(u), NoVault, surplus[u], surplus[u])
  BY <1>2, <1>5, <1>7, LeadUpdate
<1>9. Lead(es, u, "none", vaults[u], NoVault, surplus[u], surplus[u])
  BY <1>6, <1>8, LeadThen
<1>10. Emit(es)
  BY <1>3
<1> HIDE DEF es
<1>11. Transaction(es)
  BY <1>3, <1>4, <1>9, <1>10, TransactionOfOne
<1> QED
  BY <1>11

\* The vaults and the surplus stay.
LEMMA LedgerKept ==
  ASSUME LedgerTypeInv, VaultsInv, UNCHANGED <<vaults, redistributed>>,
         deposits' \in [Users -> [initial : Int, loss : Int, gain : Int]], surplus' \in [Users -> Int]
  PROVE  LedgerTypeInv' /\ VaultsInv'
BY DEF LedgerTypeInv, VaultsInv

\* claimCollateral.
LEMMA ClaimCollateralEvents ==
  ASSUME LedgerTypeInv, VaultsInv, NEW u \in Users, ClaimCollateral(u)
  PROVE  \E es : Transaction(es)
<1> DEFINE es == <<CollBalanceUpdated(u, 0)>>
<1>1. /\ surplus' = [surplus EXCEPT ![u] = 0] /\ Emit(es)
      /\ UNCHANGED <<vaults, redistributed, deposits>>
  BY DEF ClaimCollateral
<1>2. Lead(es, u, "none", vaults[u], vaults[u], surplus[u], 0)
  BY LeadBalance
<1> HIDE DEF es
<1>3. /\ surplus'[u] = 0 /\ surplus' \in [Users -> Int]
      /\ \A v \in Users \ {u} : surplus'[v] = surplus[v]
      /\ deposits' \in [Users -> [initial : Int, loss : Int, gain : Int]]
  BY <1>1 DEF LedgerTypeInv
<1>4. LedgerTypeInv' /\ VaultsInv'
  BY <1>1, <1>3, LedgerKept
<1>5. vaults'[u] = vaults[u] /\ \A v \in Users \ {u} : vaults'[v] = vaults[v]
  BY <1>1
<1>6. Lead(es, u, "none", vaults[u], vaults'[u], surplus[u], surplus'[u])
  BY <1>2, <1>3, <1>5
<1>7. Transaction(es)
  BY <1>1, <1>3, <1>4, <1>5, <1>6, TransactionOfOne
<1> QED
  BY <1>7

\* Two events, one after the other.
LEMMA Pair ==
  ASSUME NEW V, NEW d \in V, NEW e \in V
  PROVE  <<d>> \o <<e>> = <<d, e>>
<1> DEFINE l == <<d>> \o <<e>>
           r == <<d, e>>
<1>1. l \in Seq(V) /\ Len(l) = 2 /\ l[1] = d /\ l[2] = e
  BY EventsConcatenated
<1>2. r \in Seq(V) /\ Len(r) = 2 /\ r[1] = d /\ r[2] = e
  OBVIOUS
<1> HIDE DEF l, r
<1>3. \A i \in 1..2 : l[i] = r[i]
  BY <1>1, <1>2
<1>4. l = r
  BY <1>1, <1>2, <1>3
<1> QED
  BY <1>4 DEF l, r

\* The events of a deposit lead nowhere.
LEMMA DepositEvents ==
  ASSUME NEW u \in Users, NEW amount \in Int, NEW gain \in Int, NEW loss \in Int, NEW a, NEW s
  PROVE  /\ Lead(<<UserDepositChanged(u, amount), RBTCGainWithdrawn(u, gain, loss)>>, u, "none", a, a, s, s)
         /\ Lead(<<RBTCGainWithdrawn(u, gain, loss), UserDepositChanged(u, amount)>>, u, "none", a, a, s, s)
<1> DEFINE d == UserDepositChanged(u, amount)
           g == RBTCGainWithdrawn(u, gain, loss)
<1>1. /\ d \in ChainEvents /\ d.name = "UserDepositChanged"
      /\ g \in ChainEvents /\ g.name = "RBTCGainWithdrawn"
  BY DEF ChainEvents, UserDepositChanged, RBTCGainWithdrawn
<1> HIDE DEF d, g
<1>2. Lead(<<d>>, u, "none", a, a, s, s) /\ Lead(<<g>>, u, "none", a, a, s, s)
  BY <1>1, LeadOther DEF VaultNames
<1>3. Lead(<<d>> \o <<g>>, u, "none", a, a, s, s) /\ Lead(<<g>> \o <<d>>, u, "none", a, a, s, s)
  BY <1>2, LeadThen
<1>4. <<d>> \o <<g>> = <<d, g>> /\ <<g>> \o <<d>> = <<g, d>>
  BY <1>1, Pair
<1>5. Lead(<<d, g>>, u, "none", a, a, s, s) /\ Lead(<<g, d>>, u, "none", a, a, s, s)
  BY <1>3, <1>4
<1> QED
  BY <1>5 DEF d, g

\* provideToSP and withdrawFromSP.
LEMMA SetDepositEvents ==
  ASSUME LedgerTypeInv, VaultsInv, NEW u \in Users, NEW amount \in Int, SetDeposit(u, amount)
  PROVE  \E es : Transaction(es)
<1> DEFINE es == <<UserDepositChanged(u, amount), RBTCGainWithdrawn(u, deposits[u].gain, deposits[u].loss)>>
<1>1. /\ deposits' = [deposits EXCEPT ![u] = [NoDeposit EXCEPT !.initial = amount]] /\ Emit(es)
      /\ UNCHANGED <<vaults, redistributed, surplus>>
  BY DEF SetDeposit
<1>2. deposits[u].gain \in Int /\ deposits[u].loss \in Int
  BY DEF LedgerTypeInv
<1>3. Lead(es, u, "none", vaults[u], vaults[u], surplus[u], surplus[u])
  BY <1>2, DepositEvents
<1> HIDE DEF es
<1>4. deposits' \in [Users -> [initial : Int, loss : Int, gain : Int]]
  BY <1>1 DEF LedgerTypeInv, NoDeposit
<1>5. LedgerTypeInv' /\ VaultsInv'
  BY <1>1, <1>4, LedgerKept DEF LedgerTypeInv
<1>6. \A v \in Users : vaults'[v] = vaults[v] /\ surplus'[v] = surplus[v]
  BY <1>1
<1>7. Lead(es, u, "none", vaults[u], vaults'[u], surplus[u], surplus'[u])
  BY <1>3, <1>6
<1>8. Transaction(es)
  BY <1>1, <1>5, <1>6, <1>7, TransactionOfOne
<1> QED
  BY <1>8

\* withdrawRBTCGainToVault.
LEMMA GainToVaultEvents ==
  ASSUME LedgerTypeInv, VaultsInv, NEW u \in Users, WithdrawRBTCGainToVault(u)
  PROVE  \E es : Transaction(es)
<1> DEFINE v == [Accrued(u) EXCEPT !.coll = @ + deposits[u].gain]
           ds == <<RBTCGainWithdrawn(u, deposits[u].gain, deposits[u].loss),
                   UserDepositChanged(u, Compounded(u))>>
           es == (ds \o AccrueEvents(u)) \o <<VaultUpdated(u, "adjustVault", v)>>
<1>1. /\ u \in Active /\ deposits[u].gain > 0
      /\ deposits' = [deposits EXCEPT ![u] = [NoDeposit EXCEPT !.initial = Compounded(u)]]
      /\ vaults' = [vaults EXCEPT ![u] = v]
      /\ Emit(es)
      /\ UNCHANGED <<redistributed, surplus>>
  BY DEF WithdrawRBTCGainToVault
<1>2. /\ deposits[u].gain \in Int /\ deposits[u].loss \in Int /\ Compounded(u) \in Int
      /\ redistributed \in Nat
  BY DEF LedgerTypeInv, Compounded
<1>3. /\ Accrued(u) \in VaultTypes /\ Accrued(u).coll > 0 /\ Accrued(u).snapshot = redistributed
      /\ Lead(AccrueEvents(u), u, "none", vaults[u], Accrued(u), surplus[u], surplus[u])
  BY <1>1, AccrueLeads
<1>4. v \in VaultTypes /\ v.coll > Accrued(u).coll /\ v.coll > 0 /\ v.snapshot = redistributed
  BY <1>1, <1>2, <1>3 DEF VaultTypes
<1>5. deposits' \in [Users -> [initial : Int, loss : Int, gain : Int]]
  BY <1>1, <1>2 DEF LedgerTypeInv, NoDeposit
<1>6. Fits("adjustVault", "none")
  BY DEF Fits, Ops, Liquidations, IsRedemption
<1> HIDE DEF v
<1>7. v.coll # Accrued(u).coll /\ v.snapshot <= redistributed /\ v.coll # 0
  BY <1>2, <1>3, <1>4 DEF VaultTypes
<1>8. LedgerTypeInv' /\ VaultsInv' /\ vaults'[u] = v /\ \A w \in Users \ {u} : vaults'[w] = vaults[w]
  <2>1. redistributed' = redistributed /\ surplus' = surplus
    BY <1>1
  <2> QED
    BY <1>1, <1>4, <1>5, <1>7, <2>1, OneVaultChanges
<1>9. Lead(<<VaultUpdated(u, "adjustVault", v)>>, u, "none", Accrued(u), v, surplus[u], surplus[u])
  BY <1>4, <1>6, <1>7, LeadUpdate
<1>10. Lead(ds, u, "none", vaults[u], vaults[u], surplus[u], surplus[u])
  BY <1>2, DepositEvents
<1>11. Lead(es, u, "none", vaults[u], v, surplus[u], surplus[u])
  <2> HIDE DEF ds
  <2>1. Lead(ds \o AccrueEvents(u), u, "none", vaults[u], Accrued(u), surplus[u], surplus[u])
    BY <1>3, <1>10, LeadThen
  <2> QED
    BY <1>9, <2>1, LeadThen
<1>12. Emit(es)
  BY <1>1
<1> HIDE DEF es
<1>13. \A w \in Users \ {u} : surplus'[w] = surplus[w]
  BY <1>1
<1>14. surplus'[u] = surplus[u]
  BY <1>1
<1>15. Transaction(es)
  BY <1>8, <1>11, <1>12, <1>13, <1>14, TransactionOfOne
<1> QED
  BY <1>15

-----------------------------------------------------------------------------
(* Liquidations and redemptions of one or two vaults. *)

\* g[i] is the concatenation of the first i sequences.
IsFlat(g, seqs) == g = [i \in 1..Len(seqs) |-> IF i = 1 THEN seqs[i] ELSE g[i - 1] \o seqs[i]]
FlatOf(seqs) == CHOOSE g : IsFlat(g, seqs)

\* The concatenation of one or two sequences.
LEMMA Flattened ==
  ASSUME NEW seqs, Len(seqs) = 1 \/ Len(seqs) = 2
  PROVE  FlattenSeq(seqs) = IF Len(seqs) = 1 THEN seqs[1] ELSE seqs[1] \o seqs[2]
<1> DEFINE h == [i \in 1..Len(seqs) |-> IF i = 1 THEN seqs[1] ELSE seqs[1] \o seqs[2]]
<1>1. IsFlat(h, seqs)
  <2> DEFINE n == Len(seqs)
  <2>1. \A i \in 1..n : i = 1 \/ (i = 2 /\ i - 1 = 1 /\ 1 \in 1..n)
    <3>1. n = 1 \/ n = 2
      OBVIOUS
    <3> HIDE DEF n
    <3> QED
      BY ONLY <3>1
  <2>2. \A i \in 1..Len(seqs) : h[i] = IF i = 1 THEN seqs[i] ELSE h[i - 1] \o seqs[i]
    BY <2>1
  <2> QED
    BY <2>2 DEF IsFlat
<1>2. IsFlat(FlatOf(seqs), seqs)
  BY <1>1 DEF FlatOf
<1>3. FlattenSeq(seqs) = FlatOf(seqs)[Len(seqs)]
  BY DEF FlattenSeq, FlatOf, IsFlat
<1> DEFINE g == FlatOf(seqs)
<1>4. 1 \in 1..Len(seqs) /\ Len(seqs) \in 1..Len(seqs)
  OBVIOUS
<1> HIDE DEF g, h
<1>5. g[1] = seqs[1]
  BY <1>2, <1>4 DEF IsFlat, g
<1>6. CASE Len(seqs) = 1
  BY <1>3, <1>5, <1>6 DEF g
<1>7. CASE Len(seqs) = 2
  <2>1. g[2] = g[2 - 1] \o seqs[2]
    BY <1>2, <1>4, <1>7 DEF IsFlat, g
  <2>2. g[2 - 1] = seqs[1]
    BY <1>5
  <2>3. g[2] = seqs[1] \o seqs[2]
    BY ONLY <2>1, <2>2, Zenon
  <2>4. FlattenSeq(seqs) = g[2]
    BY <1>3, <1>7 DEF g
  <2>5. Len(seqs) # 1
    BY <1>7
  <2> QED
    BY ONLY <2>3, <2>4, <2>5, Zenon
<1> QED
  BY <1>6, <1>7

\* A batch is of one or two vaults.
LEMMA BatchShape ==
  ASSUME NEW us \in Batches
  PROVE  /\ \/ Len(us) = 1 /\ us[1] \in Users /\ ToSet(us) = {us[1]} /\ Last(us) = us[1]
            \/ Len(us) = 2 /\ us[1] \in Users /\ us[2] \in Users /\ us[1] # us[2]
               /\ ToSet(us) = {us[1], us[2]} /\ Last(us) = us[2]
         /\ us \in Seq(Users)
<1>1. CASE \E u \in Users : us = <<u>>
  <2>1. PICK u \in Users : us = <<u>>
    BY <1>1
  <2>2. Len(us) = 1 /\ us[1] = u /\ DOMAIN us = {1} /\ us \in Seq(Users)
    BY <2>1
  <2> QED
    BY <2>1, <2>2 DEF ToSet, Last
<1>2. CASE us \in Users \X Users /\ us[1] # us[2]
  <2>1. us = <<us[1], us[2]>> /\ us[1] \in Users /\ us[2] \in Users
    BY <1>2
  <2> DEFINE a == us[1]
             b == us[2]
  <2>2. Len(<<a, b>>) = 2 /\ DOMAIN <<a, b>> = {1, 2} /\ <<a, b>> \in Seq(Users)
    BY <2>1
  <2> HIDE DEF a, b
  <2>3. us = <<a, b>>
    BY <2>1 DEF a, b
  <2>4. Len(us) = 2 /\ DOMAIN us = {1, 2} /\ us \in Seq(Users)
    BY ONLY <2>2, <2>3, Zenon
  <2> QED
    BY <1>2, <2>1, <2>4 DEF ToSet, Last
<1> QED
  BY <1>1, <1>2 DEF Batches

\* The events that may come before the one named last.
Before(last) == { e \in ChainEvents : \A name \in ClosingNames : EndedBy(e, name) => name = last }

\* The events of the vaults of a batch, then the end.
LEMMA TransactionOfBatch ==
  ASSUME NEW us \in Batches, NEW E, Len(E) = Len(us), NEW last \in ClosingNames,
         \A i \in 1..Len(us) :
           Lead(E[i], us[i], last, vaults[us[i]], vaults'[us[i]], surplus[us[i]], surplus'[us[i]]),
         \A v \in Users \ ToSet(us) : vaults'[v] = vaults[v] /\ surplus'[v] = surplus[v],
         LedgerTypeInv', VaultsInv', Emit(FlattenSeq(E) \o <<[name |-> last]>>)
  PROVE  Transaction(FlattenSeq(E) \o <<[name |-> last]>>)
<1> DEFINE fs == FlattenSeq(E)
           c == [name |-> last]
           es == fs \o <<c>>
           Led(l, v) == /\ VaultSettles(l, v, vaults[v], vaults'[v]) /\ VaultDiffers(l, v, vaults[v])
                        /\ SurplusSettles(l, v, surplus[v], surplus'[v])
<1>1. /\ Len(us) = 1 \/ Len(us) = 2
      /\ Len(us) = 1 => 1 \in 1..Len(us) /\ us[1] \in Users /\ ToSet(us) = {us[1]}
      /\ Len(us) = 2 => /\ 1 \in 1..Len(us) /\ 2 \in 1..Len(us) /\ us[1] \in Users /\ us[2] \in Users
                        /\ us[1] # us[2] /\ ToSet(us) = {us[1], us[2]}
  BY BatchShape
<1>2. ASSUME NEW i \in 1..Len(us)
      PROVE  /\ E[i] \in Seq(ChainEvents) /\ E[i] \in Seq(Before(last))
             /\ Led(E[i], us[i])
             /\ \A v \in Users \ {us[i]} : \A a, s :
                  VaultSettles(E[i], v, a, a) /\ VaultDiffers(E[i], v, a) /\ SurplusSettles(E[i], v, s, s)
  <2>1. Lead(E[i], us[i], last, vaults[us[i]], vaults'[us[i]], surplus[us[i]], surplus'[us[i]])
    BY <1>2
  <2>2. E[i] \in Seq(Own(us[i], last)) /\ E[i] \in Seq(ChainEvents) /\ Led(E[i], us[i])
    BY <2>1, OwnAreEvents DEF Lead
  <2>3. Own(us[i], last) \subseteq Before(last)
    BY DEF Own, Before
  <2>4. E[i] \in Seq(Before(last))
    BY <2>2, <2>3, SeqOfMore
  <2>5. ASSUME NEW v \in Users \ {us[i]}, NEW a, NEW s
        PROVE  VaultSettles(E[i], v, a, a) /\ VaultDiffers(E[i], v, a) /\ SurplusSettles(E[i], v, s, s)
    BY <2>2, LeadsNoOther
  <2> QED
    BY <2>2, <2>4, <2>5
<1>3. c \in ChainEvents /\ c.name = last /\ c.name \notin VaultNames /\ c.name # "CollBalanceUpdated"
  BY DEF ChainEvents, ClosingNames, VaultNames
<1>4. /\ fs \in Seq(ChainEvents) /\ fs \in Seq(Before(last))
      /\ \A v \in Users : Led(fs, v)
  <2>1. CASE Len(us) = 1
    <3>1. fs = E[1]
      BY <2>1, Flattened
    <3>2. ASSUME NEW v \in Users
          PROVE  Led(fs, v)
      <4>1. CASE v = us[1]
        BY <1>1, <1>2, <2>1, <3>1, <4>1
      <4>2. CASE v # us[1]
        <5>1. v \in Users \ {us[1]} /\ v \notin ToSet(us)
          BY <1>1, <2>1, <4>2
        <5>2. vaults'[v] = vaults[v] /\ surplus'[v] = surplus[v]
          BY <5>1
        <5>3. Led(E[1], v)
          BY <1>1, <1>2, <2>1, <5>1, <5>2
        <5> QED
          BY <3>1, <5>3
      <4> QED
        BY <4>1, <4>2
    <3> QED
      BY <1>1, <1>2, <2>1, <3>1, <3>2
  <2>2. CASE Len(us) = 2
    <3>0. (Len(E) = 1 \/ Len(E) = 2) /\ Len(E) # 1
      BY <2>2
    <3>1. fs = E[1] \o E[2]
      BY ONLY <3>0, Flattened, Zenon DEF fs
    <3>2. /\ E[1] \in Seq(ChainEvents) /\ E[2] \in Seq(ChainEvents)
          /\ E[1] \in Seq(Before(last)) /\ E[2] \in Seq(Before(last))
      BY <1>1, <1>2, <2>2
    <3>3. ASSUME NEW v \in Users
          PROVE  Led(fs, v)
      <4>1. CASE v = us[1]
        <5>1. Led(E[1], v)
          BY <1>1, <1>2, <2>2, <4>1
        <5>2. v \in Users \ {us[2]}
          BY <1>1, <2>2, <4>1
        <5>3. /\ VaultSettles(E[2], v, vaults'[v], vaults'[v]) /\ VaultDiffers(E[2], v, vaults'[v])
              /\ SurplusSettles(E[2], v, surplus'[v], surplus'[v])
          BY <1>1, <1>2, <2>2, <5>2
        <5> QED
          BY <3>1, <3>2, <5>1, <5>3, VaultSettlesThen, VaultDiffersThen, SurplusSettlesThen
      <4>2. CASE v = us[2]
        <5>1. Led(E[2], v)
          BY <1>1, <1>2, <2>2, <4>2
        <5>2. v \in Users \ {us[1]}
          BY <1>1, <2>2, <4>2
        <5>3. /\ VaultSettles(E[1], v, vaults[v], vaults[v]) /\ VaultDiffers(E[1], v, vaults[v])
              /\ SurplusSettles(E[1], v, surplus[v], surplus[v])
          BY <1>1, <1>2, <2>2, <5>2
        <5> QED
          BY <3>1, <3>2, <5>1, <5>3, VaultSettlesThen, VaultDiffersThen, SurplusSettlesThen
      <4>3. CASE v # us[1] /\ v # us[2]
        <5>1. v \in Users \ {us[1]} /\ v \in Users \ {us[2]} /\ v \notin ToSet(us)
          BY <1>1, <2>2, <4>3
        <5>2. vaults'[v] = vaults[v] /\ surplus'[v] = surplus[v]
          BY <5>1
        <5>3. Led(E[1], v)
          BY <1>1, <1>2, <2>2, <5>1, <5>2
        <5>4. /\ VaultSettles(E[2], v, vaults'[v], vaults'[v]) /\ VaultDiffers(E[2], v, vaults'[v])
              /\ SurplusSettles(E[2], v, surplus'[v], surplus'[v])
          BY <1>1, <1>2, <2>2, <5>1
        <5> QED
          BY <3>1, <3>2, <5>3, <5>4, VaultSettlesThen, VaultDiffersThen, SurplusSettlesThen
      <4> QED
        BY <4>1, <4>2, <4>3
    <3>4. fs \in Seq(ChainEvents) /\ fs \in Seq(Before(last))
      BY <3>1, <3>2, EventsConcatenated
    <3> QED
      BY <3>3, <3>4
  <2> QED
    BY <1>1, <2>1, <2>2
<1> HIDE DEF fs, c
<1>5. ASSUME NEW v \in Users
      PROVE  Led(es, v)
  <2>1. /\ <<c>> \in Seq(ChainEvents)
        /\ \A i \in 1..Len(<<c>>) : ~IsVaultEvent(<<c>>[i], v) /\ ~IsSurplusEvent(<<c>>[i], v)
    BY <1>3 DEF IsVaultEvent, IsSurplusEvent
  <2>2. /\ VaultSettles(<<c>>, v, vaults'[v], vaults'[v]) /\ VaultDiffers(<<c>>, v, vaults'[v])
        /\ SurplusSettles(<<c>>, v, surplus'[v], surplus'[v])
    BY <2>1, OthersSettle, OthersLeaveSurplus
  <2> QED
    BY <1>4, <2>1, <2>2, VaultSettlesThen, VaultDiffersThen, SurplusSettlesThen
<1>6. /\ es \in Seq(ChainEvents) /\ Len(fs) \in Nat /\ Len(es) = Len(fs) + 1
      /\ \A i \in 1..Len(fs) : es[i] = fs[i] /\ fs[i] \in Before(last)
      /\ es[Len(fs) + 1] = c
  <2>1. <<c>> \in Seq(ChainEvents) /\ Len(<<c>>) = 1 /\ <<c>>[1] = c
    BY <1>3
  <2>2. /\ es \in Seq(ChainEvents) /\ Len(fs) \in Nat /\ Len(es) = Len(fs) + 1
        /\ \A i \in 1..Len(fs) : es[i] = fs[i]
        /\ \A i \in (Len(fs) + 1)..(Len(fs) + 1) : es[i] = <<c>>[i - Len(fs)]
    BY <1>4, <2>1, EventsConcatenated
  <2>3. \A i \in 1..Len(fs) : fs[i] \in Before(last)
    BY <1>4
  <2>4. Len(fs) + 1 \in (Len(fs) + 1)..(Len(fs) + 1) /\ (Len(fs) + 1) - Len(fs) = 1
    BY <2>2
  <2>5. es[Len(fs) + 1] = c
    BY <2>1, <2>2, <2>4
  <2> QED
    BY <2>2, <2>3, <2>5
<1>7. ASSUME NEW i \in 1..Len(es), NEW name \in ClosingNames, EndedBy(es[i], name)
      PROVE  \E j \in 1..Len(es) : i < j /\ es[j].name = name
  <2> DEFINE j == Len(fs) + 1
  <2>1. i \in 1..Len(fs) \/ i = j
    BY ONLY <1>6, <1>7
  <2>2. i # j
    BY <1>3, <1>6, <1>7 DEF EndedBy
  <2>3. name = last
    BY <1>6, <1>7, <2>1, <2>2 DEF Before
  <2>4. j \in 1..Len(es) /\ i < j
    BY ONLY <1>6, <2>1, <2>2
  <2>5. es[j].name = name
    BY <1>3, <1>6, <2>3
  <2> QED
    BY <2>4, <2>5
<1>8. Emit(es)
  BY DEF es, fs, c
<1>9. Transaction(es)
  <2> HIDE DEF es
  <2> QED
    BY <1>5, <1>6, <1>7, <1>8 DEF Transaction
<1> QED
  BY <1>9 DEF es, fs, c

\* The empty vault.
LEMMA NoVaultType ==
  NoVault \in VaultTypes /\ NoVault.coll = 0 /\ NoVault.snapshot = 0
BY DEF VaultTypes, NoVault

\* The vaults that a batch closes, and those that it changes.
LEMMA BatchLedger ==
  ASSUME LedgerTypeInv, VaultsInv, redistributed' \in Nat, redistributed <= redistributed',
         deposits' \in [Users -> [initial : Int, loss : Int, gain : Int]],
         NEW f, vaults' = [u \in Users |-> f[u]], surplus' \in [Users -> Int],
         \A u \in Users : \/ f[u] = NoVault \/ f[u] = vaults[u]
                          \/ f[u] \in VaultTypes /\ f[u].coll > 0 /\ f[u].snapshot = redistributed
  PROVE  LedgerTypeInv' /\ VaultsInv'
<1>1. ASSUME NEW u \in Users
      PROVE  /\ vaults'[u] \in VaultTypes /\ vaults'[u].snapshot <= redistributed'
             /\ vaults'[u].coll = 0 => vaults'[u] = NoVault
  <2>1. vaults'[u] = f[u]
    OBVIOUS
  <2>2. CASE f[u] = NoVault
    BY <2>1, <2>2, NoVaultType
  <2>3. CASE f[u] = vaults[u]
    BY <2>1, <2>3 DEF LedgerTypeInv, VaultsInv, VaultTypes
  <2>4. CASE f[u] \in VaultTypes /\ f[u].coll > 0 /\ f[u].snapshot = redistributed
    BY <2>1, <2>4 DEF LedgerTypeInv, VaultTypes
  <2> QED
    BY <2>2, <2>3, <2>4
<1>2. vaults' \in [Users -> VaultTypes]
  BY <1>1
<1>3. LedgerTypeInv'
  BY <1>2 DEF LedgerTypeInv, VaultTypes
<1>4. VaultsInv'
  BY <1>1 DEF VaultsInv
<1> QED
  BY <1>3, <1>4

\* The events of one liquidated vault.
LEMMA LiquidationLeads ==
  ASSUME LedgerTypeInv, VaultsInv, NEW kind, NEW u \in Active
  PROVE  Lead(LiquidationEvents(kind, u), u, "Liquidation", vaults[u], NoVault,
              surplus[u], IF kind = "capped" THEN surplus[u] + 1 ELSE surplus[u])
<1> DEFINE op == LiquidationOp(kind)
           coll == Accrued(u).coll - (IF kind = "capped" THEN 1 ELSE 0)
           debt == Accrued(u).debt
           ends == <<VaultLiquidated(u, op, coll, debt), VaultUpdated(u, op, NoVault)>>
           t == surplus[u] + 1
<1>1. u \in Users /\ Accrued(u) \in VaultTypes /\ Accrued(u).coll > 0
  BY AccrueLeads
<1>2. coll \in Nat /\ debt \in Nat
  BY <1>1 DEF VaultTypes
<1>3. Fits(op, "Liquidation")
  BY DEF Fits, LiquidationOp, Ops, Liquidations, IsRedemption, ClosingNames
<1>4. t \in Int
  BY <1>1 DEF LedgerTypeInv
<1>5. LiquidationEvents(kind, u)
        = (IF kind = "capped" THEN <<CollBalanceUpdated(u, t)>> ELSE <<>>) \o ends
  BY DEF LiquidationEvents
<1> HIDE DEF op, coll, debt, t
<1>6. \A s : Lead(ends, u, "Liquidation", vaults[u], NoVault, s, s)
  BY <1>1, <1>2, <1>3, LeadLiquidation
<1>7. Lead(<<CollBalanceUpdated(u, t)>>, u, "Liquidation", vaults[u], vaults[u], surplus[u], t)
  BY <1>1, <1>4, LeadBalance
<1>8. Lead(<<>>, u, "Liquidation", vaults[u], vaults[u], surplus[u], surplus[u])
  BY LeadNowhere
<1> HIDE DEF ends
<1>9. Lead(<<CollBalanceUpdated(u, t)>> \o ends, u, "Liquidation", vaults[u], NoVault, surplus[u], t)
  BY <1>6, <1>7, LeadThen
<1>10. Lead(<<>> \o ends, u, "Liquidation", vaults[u], NoVault, surplus[u], surplus[u])
  BY <1>6, <1>8, LeadThen
<1>11. CASE kind = "capped"
  BY <1>5, <1>9, <1>11 DEF t
<1>12. CASE kind # "capped"
  BY <1>5, <1>10, <1>12
<1> QED
  BY <1>11, <1>12

\* liquidate, liquidateVaults and batchLiquidateVaults.
LEMMA LiquidateEvents ==
  ASSUME LedgerTypeInv, VaultsInv, NEW kind, NEW us \in Batches, Liquidate(kind, us)
  PROVE  \E es : Transaction(es)
<1> DEFINE closed == ToSet(us)
           E == [i \in 1..Len(us) |-> LiquidationEvents(kind, us[i])]
           f == [u \in Users |-> IF u \in closed THEN NoVault ELSE vaults[u]]
           es == FlattenSeq(E) \o <<[name |-> "Liquidation"]>>
<1>1. /\ closed \subseteq Active /\ Emit(es) /\ vaults' = f
      /\ redistributed' = IF kind = "redistributed" THEN redistributed + 1 ELSE redistributed
      /\ deposits' = IF kind = "redistributed" THEN deposits ELSE OffsetDeposits
      /\ surplus' = [u \in Users |-> IF kind = "capped" /\ u \in closed THEN surplus[u] + 1 ELSE surplus[u]]
  BY DEF Liquidate
<1>2. us \in Seq(Users) /\ \A i \in 1..Len(us) : us[i] \in closed
  BY BatchShape DEF ToSet
<1>3. Len(us) \in Nat /\ Len(E) = Len(us) /\ \A i \in 1..Len(us) : E[i] = LiquidationEvents(kind, us[i])
  BY <1>2
<1> HIDE DEF E
<1>4. OffsetDeposits \in [Users -> [initial : Int, loss : Int, gain : Int]]
  <2> DEFINE D == [initial : Int, loss : Int, gain : Int]
             g(u) == IF deposits[u].loss < deposits[u].initial
                     THEN [deposits[u] EXCEPT !.loss = @ + 1, !.gain = @ + 1] ELSE deposits[u]
  <2>1. ASSUME NEW u \in Users
        PROVE  g(u) \in D
    <3>1. deposits[u] \in D
      BY DEF LedgerTypeInv
    <3> DEFINE l == deposits[u].loss + 1
               n == deposits[u].gain + 1
    <3>2. [deposits[u] EXCEPT !.loss = l, !.gain = n] \in D
      <4>1. l \in Int /\ n \in Int
        BY <3>1
      <4> HIDE DEF l, n
      <4> QED
        BY <3>1, <4>1
    <3> QED
      BY <3>1, <3>2
  <2>2. OffsetDeposits = [u \in Users |-> g(u)]
    BY DEF OffsetDeposits
  <2> HIDE DEF g
  <2> QED
    BY <2>1, <2>2
<1>5. LedgerTypeInv' /\ VaultsInv'
  <2>1. deposits' \in [Users -> [initial : Int, loss : Int, gain : Int]]
    BY <1>1, <1>4 DEF LedgerTypeInv
  <2>2. redistributed' \in Nat /\ redistributed <= redistributed' /\ surplus' \in [Users -> Int]
    BY <1>1 DEF LedgerTypeInv
  <2>3. vaults' = [u \in Users |-> f[u]] /\ \A u \in Users : f[u] = NoVault \/ f[u] = vaults[u]
    BY <1>1
  <2> HIDE DEF f
  <2> QED
    BY <2>1, <2>2, <2>3, BatchLedger
<1>6. ASSUME NEW i \in 1..Len(us)
      PROVE  Lead(E[i], us[i], "Liquidation", vaults[us[i]], vaults'[us[i]], surplus[us[i]], surplus'[us[i]])
  <2>1. us[i] \in closed /\ us[i] \in Active /\ us[i] \in Users
    BY <1>1, <1>2 DEF Active
  <2>2. /\ vaults'[us[i]] = NoVault
        /\ surplus'[us[i]] = IF kind = "capped" THEN surplus[us[i]] + 1 ELSE surplus[us[i]]
    BY <1>1, <2>1
  <2> QED
    BY <1>3, <2>1, <2>2, LiquidationLeads
<1>7. \A v \in Users \ closed : vaults'[v] = vaults[v] /\ surplus'[v] = surplus[v]
  BY <1>1
<1>8. "Liquidation" \in ClosingNames
  BY DEF ClosingNames
<1>9. Transaction(es)
  BY <1>1, <1>3, <1>5, <1>6, <1>7, <1>8, TransactionOfBatch
<1> QED
  BY <1>9

\* The vault that is redeemed from keeps something.
LEMMA PartlyRedeemedType ==
  ASSUME NEW a \in VaultTypes, a.coll > 1, a.debt > 1
  PROVE  /\ PartlyRedeemed(a) \in VaultTypes /\ PartlyRedeemed(a).coll > 0
         /\ PartlyRedeemed(a).coll # a.coll /\ PartlyRedeemed(a).snapshot = a.snapshot
<1> DEFINE c == a.coll - 1
           d == a.debt - 1
           p == [a EXCEPT !.coll = c, !.debt = d]
<1>1. c \in Nat /\ d \in Nat /\ c > 0 /\ c # a.coll
  BY DEF VaultTypes
<1> HIDE DEF c, d
<1>2. p \in VaultTypes
  BY <1>1 DEF VaultTypes
<1>3. p.coll = c /\ p.snapshot = a.snapshot
  BY DEF VaultTypes
<1>4. PartlyRedeemed(a) = p
  BY DEF PartlyRedeemed, c, d
<1> QED
  BY <1>1, <1>2, <1>3, <1>4

\* The events of one vault that is redeemed from.
LEMMA RedemptionLeads ==
  ASSUME LedgerTypeInv, VaultsInv, NEW end \in {"closed", "partial", "cancelled"}, NEW u \in Active,
         end = "partial" => vaults[u].coll > 1 /\ vaults[u].debt > 1
  PROVE  Lead(RedemptionEvents(u, end), u, "Redemption", vaults[u],
              CASE end = "closed" -> NoVault
                [] end = "partial" -> PartlyRedeemed(Accrued(u))
                [] end = "cancelled" -> Accrued(u),
              surplus[u], IF end = "closed" THEN surplus[u] + 1 ELSE surplus[u])
<1> DEFINE a == Accrued(u)
           t == surplus[u] + 1
<1>1. /\ u \in Users /\ a \in VaultTypes /\ a.coll > 0
      /\ \A s : Lead(AccrueEvents(u), u, "Redemption", vaults[u], a, s, s)
  BY AccrueLeads
<1>2. Fits("redeemCollateral", "Redemption")
  BY DEF Fits, Ops, Liquidations, IsRedemption, ClosingNames
<1>3. t \in Int
  BY <1>1 DEF LedgerTypeInv
<1>4. CASE end = "closed"
  <2> DEFINE b == CollBalanceUpdated(u, t)
             e == VaultUpdated(u, "redeemCollateral", NoVault)
  <2>1. Lead(<<b>>, u, "Redemption", a, a, surplus[u], t)
    BY <1>1, <1>3, LeadBalance
  <2>2. NoVault.coll # a.coll
    BY <1>1, NoVaultType
  <2>3. Lead(<<e>>, u, "Redemption", a, NoVault, t, t)
    <3> HIDE DEF a, t
    <3> QED
      BY <1>1, <1>2, <2>2, NoVaultType, LeadUpdate
  <2>4. RedemptionEvents(u, end) = AccrueEvents(u) \o <<b, e>>
    BY <1>4 DEF RedemptionEvents
  <2>5. b \in ChainEvents /\ e \in ChainEvents
    BY <1>1, <1>2, <1>3, NoVaultType
       DEF ChainEvents, VaultEvents, CollBalanceUpdated, VaultUpdated, VaultTypes, VaultNames, Fits
  <2> HIDE DEF a, t, b, e
  <2>6. Lead(<<b>> \o <<e>>, u, "Redemption", a, NoVault, surplus[u], t)
    BY <2>1, <2>3, LeadThen
  <2>7. Lead(<<b, e>>, u, "Redemption", a, NoVault, surplus[u], t)
    BY <2>5, <2>6, Pair
  <2>8. Lead(RedemptionEvents(u, end), u, "Redemption", vaults[u], NoVault, surplus[u], t)
    BY <1>1, <2>4, <2>7, LeadThen
  <2> QED
    BY <1>4, <2>8 DEF t
<1>5. CASE end = "partial"
  <2> DEFINE p == PartlyRedeemed(a)
             e == VaultUpdated(u, "redeemCollateral", p)
  <2>1. a.coll > 1 /\ a.debt > 1
    BY <1>1, <1>5 DEF Accrued, LedgerTypeInv, VaultsInv
  <2>2. p \in VaultTypes /\ p.coll # a.coll
    BY <1>1, <2>1, PartlyRedeemedType
  <2>3. Lead(<<e>>, u, "Redemption", a, p, surplus[u], surplus[u])
    <3> HIDE DEF a, p
    <3> QED
      BY <1>1, <1>2, <2>2, LeadUpdate
  <2>4. RedemptionEvents(u, end) = AccrueEvents(u) \o <<e>>
    BY <1>5 DEF RedemptionEvents
  <2> HIDE DEF a, p, e
  <2>5. Lead(RedemptionEvents(u, end), u, "Redemption", vaults[u], p, surplus[u], surplus[u])
    BY <1>1, <2>3, <2>4, LeadThen
  <2> QED
    BY <1>5, <2>5 DEF p, a
<1>6. CASE end = "cancelled"
  <2>1. RedemptionEvents(u, end) = AccrueEvents(u) \o <<>>
    BY <1>6 DEF RedemptionEvents
  <2>2. Lead(<<>>, u, "Redemption", a, a, surplus[u], surplus[u])
    BY LeadNowhere
  <2> HIDE DEF a
  <2>3. Lead(RedemptionEvents(u, end), u, "Redemption", vaults[u], a, surplus[u], surplus[u])
    BY <1>1, <2>1, <2>2, LeadThen
  <2> QED
    BY <1>6, <2>3 DEF a
<1> QED
  BY <1>4, <1>5, <1>6

\* redeemCollateral.
LEMMA RedeemEvents ==
  ASSUME LedgerTypeInv, VaultsInv, NEW us \in Batches, NEW end \in {"closed", "partial", "cancelled"},
         Redeem(us, end)
  PROVE  \E es : Transaction(es)
<1> DEFINE last == Last(us)
           closed == IF end = "closed" THEN ToSet(us) ELSE ToSet(us) \ {last}
           E == [i \in 1..Len(us) |-> RedemptionEvents(us[i], IF us[i] = last THEN end ELSE "closed")]
           f == [u \in Users |->
                   CASE u \in closed -> NoVault
                     [] u = last /\ end = "partial" -> PartlyRedeemed(Accrued(u))
                     [] u = last /\ end = "cancelled" -> Accrued(u)
                     [] OTHER -> vaults[u]]
           es == FlattenSeq(E) \o <<[name |-> "Redemption"]>>
<1>1. /\ ToSet(us) \subseteq Active /\ Emit(es) /\ vaults' = f
      /\ end = "partial" => vaults[last].coll > 1 /\ vaults[last].debt > 1
      /\ redistributed' = redistributed /\ deposits' = deposits
      /\ surplus' = [u \in Users |-> IF u \in closed THEN surplus[u] + 1 ELSE surplus[u]]
  BY DEF Redeem
<1>2. us \in Seq(Users) /\ (\A i \in 1..Len(us) : us[i] \in ToSet(us)) /\ last \in ToSet(us)
  <2>1. us \in Seq(Users) /\ \A i \in 1..Len(us) : us[i] \in ToSet(us)
    BY BatchShape DEF ToSet
  <2>2. last \in ToSet(us)
    BY BatchShape
  <2> QED
    BY <2>1, <2>2
<1>3. /\ Len(us) \in Nat /\ Len(E) = Len(us)
      /\ \A i \in 1..Len(us) : E[i] = RedemptionEvents(us[i], IF us[i] = last THEN end ELSE "closed")
  BY <1>2
<1> HIDE DEF E
<1>4. Active \subseteq Users
  BY DEF Active
<1> DEFINE a == Accrued(last)
<1>5. last \in Users /\ a \in VaultTypes /\ a.coll > 0 /\ a.snapshot = redistributed
  BY <1>1, <1>2, AccrueLeads
<1>6. end = "partial" =>
        PartlyRedeemed(a) \in VaultTypes /\ PartlyRedeemed(a).coll > 0 /\ PartlyRedeemed(a).snapshot = redistributed
  <2> SUFFICES ASSUME end = "partial"
               PROVE  PartlyRedeemed(a) \in VaultTypes /\ PartlyRedeemed(a).coll > 0
                      /\ PartlyRedeemed(a).snapshot = redistributed
    OBVIOUS
  <2>1. a.coll > 1 /\ a.debt > 1
    BY <1>1, <1>5 DEF Accrued, LedgerTypeInv, VaultsInv
  <2> QED
    BY <1>5, <2>1, PartlyRedeemedType
<1>7. LedgerTypeInv' /\ VaultsInv'
  <2>1. deposits' \in [Users -> [initial : Int, loss : Int, gain : Int]]
    BY <1>1 DEF LedgerTypeInv
  <2>2. redistributed' \in Nat /\ redistributed <= redistributed' /\ surplus' \in [Users -> Int]
    BY <1>1 DEF LedgerTypeInv
  <2>3. vaults' = [u \in Users |-> f[u]]
    BY <1>1
  <2>4. ASSUME NEW u \in Users
        PROVE  \/ f[u] = NoVault \/ f[u] = vaults[u]
               \/ f[u] \in VaultTypes /\ f[u].coll > 0 /\ f[u].snapshot = redistributed
    <3>1. CASE u \in closed
      BY <3>1
    <3>2. CASE u \notin closed /\ u = last /\ end = "partial"
      <4>1. f[u] = PartlyRedeemed(a)
        BY <3>2
      <4> QED
        BY <1>6, <3>2, <4>1
    <3>3. CASE u \notin closed /\ u = last /\ end = "cancelled"
      <4>1. f[u] = a
        BY <3>3
      <4> QED
        BY <1>5, <4>1
    <3>4. CASE u \notin closed /\ ~(u = last /\ end = "partial") /\ ~(u = last /\ end = "cancelled")
      <4>1. f[u] = vaults[u]
        BY <3>4
      <4> QED
        BY <4>1
    <3> QED
      BY <3>1, <3>2, <3>3, <3>4
  <2> HIDE DEF f
  <2> QED
    BY <2>1, <2>2, <2>3, <2>4, BatchLedger
<1>8. ASSUME NEW i \in 1..Len(us)
      PROVE  Lead(E[i], us[i], "Redemption", vaults[us[i]], vaults'[us[i]], surplus[us[i]], surplus'[us[i]])
  <2> DEFINE u == us[i]
  <2>1. u \in ToSet(us) /\ u \in Active /\ u \in Users
    BY <1>1, <1>2, <1>4
  <2> HIDE DEF u
  <2>2. CASE u \in closed
    <3>1. E[i] = RedemptionEvents(u, "closed")
      BY <1>3, <2>2 DEF u
    <3>2. vaults'[u] = NoVault /\ surplus'[u] = surplus[u] + 1
      BY <1>1, <2>1, <2>2
    <3>3. Lead(RedemptionEvents(u, "closed"), u, "Redemption", vaults[u], NoVault, surplus[u], surplus[u] + 1)
      BY <2>1, RedemptionLeads
    <3> QED
      BY <3>1, <3>2, <3>3 DEF u
  <2>3. CASE u \notin closed
    <3>1. u = last /\ end # "closed" /\ E[i] = RedemptionEvents(u, end)
      BY <1>3, <2>1, <2>3 DEF u
    <3>2. surplus'[u] = surplus[u]
      BY <1>1, <2>1, <2>3
    <3>3. CASE end = "partial"
      <4>1. vaults'[u] = PartlyRedeemed(Accrued(u))
        BY <1>1, <2>1, <2>3, <3>1, <3>3
      <4>2. vaults[u].coll > 1 /\ vaults[u].debt > 1
        BY <1>1, <3>1, <3>3
      <4>3. Lead(RedemptionEvents(u, end), u, "Redemption", vaults[u], PartlyRedeemed(Accrued(u)), surplus[u], surplus[u])
        BY <2>1, <3>3, <4>2, RedemptionLeads
      <4> QED
        BY <3>1, <3>2, <4>1, <4>3 DEF u
    <3>4. CASE end = "cancelled"
      <4>1. vaults'[u] = Accrued(u)
        BY <1>1, <2>1, <2>3, <3>1, <3>4
      <4>2. Lead(RedemptionEvents(u, end), u, "Redemption", vaults[u], Accrued(u), surplus[u], surplus[u])
        BY <2>1, <3>4, RedemptionLeads
      <4> QED
        BY <3>1, <3>2, <4>1, <4>2 DEF u
    <3> QED
      BY <3>1, <3>3, <3>4
  <2> QED
    BY <2>2, <2>3
<1>9. \A v \in Users \ ToSet(us) : vaults'[v] = vaults[v] /\ surplus'[v] = surplus[v]
  BY <1>1, <1>2
<1>10. "Redemption" \in ClosingNames
  BY DEF ClosingNames
<1>11. Transaction(es)
  BY <1>1, <1>3, <1>7, <1>8, <1>9, <1>10, TransactionOfBatch
<1> QED
  BY <1>11

\* Whatever the contracts do but move the price and seal a block is a transaction.
LEMMA StepsOfTheChain ==
  ASSUME LedgerTypeInv, VaultsInv, ChainStep
  PROVE  \/ \E es : Transaction(es)
         \/ \E p \in Prices : PriceMoves(p)
         \/ Seal
<1>1. ASSUME NEW u \in Users, ProvideToSP(u) \/ WithdrawFromSP(u)
      PROVE  \E es : Transaction(es)
  <2>1. Compounded(u) \in Int
    BY DEF Compounded, LedgerTypeInv
  <2>2. \E amount \in Int : SetDeposit(u, amount)
    BY <1>1, <2>1 DEF ProvideToSP, WithdrawFromSP
  <2> QED
    BY <2>2, SetDepositEvents
<1>2. CASE \E u \in Users :
             \/ \E p \in Positions : OpenVault(u, p) \/ AdjustVault(u, p)
             \/ CloseVault(u)
             \/ ClaimCollateral(u)
             \/ ProvideToSP(u) \/ WithdrawFromSP(u) \/ WithdrawRBTCGainToVault(u)
  BY <1>1, <1>2, OpenVaultEvents, AdjustVaultEvents, CloseVaultEvents, ClaimCollateralEvents, GainToVaultEvents
<1>3. CASE \E us \in Batches :
             \/ \E kind \in {"redistributed", "offset", "capped"} : Liquidate(kind, us)
             \/ \E end \in {"closed", "partial", "cancelled"} : Redeem(us, end)
  BY <1>3, LiquidateEvents, RedeemEvents
<1> QED
  BY <1>2, <1>3 DEF ChainStep

-----------------------------------------------------------------------------
(* The invariant, and the steps of the contracts. *)

SubgraphInv ==
  /\ ChainTypeInv /\ index \in IndexTypes
  /\ VaultsInv
  /\ LogIsOrdered /\ IndexIsBehind
  /\ TemporariesInv /\ OwnTemporaries(index.written)
  /\ MatchInv

\* What the log holds.
LEMMA LogTypes ==
  ASSUME ChainTypeInv
  PROVE  /\ log \in Seq(LogEntries) /\ Len(log) \in Nat /\ transactions \in Nat
         /\ \A i \in 1..Len(log) : log[i].tx \in Nat /\ log[i].tx > 0 /\ log[i].event \in ChainEvents
<1>1. log \in Seq(LogEntries) /\ transactions \in Nat
  BY DEF ChainTypeInv
<1>2. Len(log) \in Nat /\ \A i \in 1..Len(log) : log[i] \in LogEntries
  <2> HIDE DEF LogEntries
  <2> QED
    BY <1>1
<1>3. \A e \in LogEntries : e.tx \in Nat /\ e.tx > 0 /\ e.event \in ChainEvents
  <2> HIDE DEF ChainEvents
  <2> QED
    BY DEF LogEntries
<1> QED
  BY ONLY <1>1, <1>2, <1>3

\* The log with one more transaction.
LEMMA LogGrows ==
  ASSUME ChainTypeInv, NEW es \in Seq(ChainEvents), Emit(es)
  PROVE  /\ ~sealed /\ sealed' = sealed /\ price' = price /\ transactions' = transactions + 1
         /\ log' \in Seq(LogEntries) /\ Len(log') = Len(log) + Len(es)
         /\ Len(log) \in Nat /\ Len(es) \in Nat
         /\ \A i \in 1..Len(log) : log'[i] = log[i]
         /\ \A i \in (Len(log) + 1)..(Len(log) + Len(es)) :
              log'[i].tx = transactions + 1 /\ log'[i].event = es[i - Len(log)]
         /\ \A i \in 1..Len(es) : es[i] \in ChainEvents
<1> DEFINE T == transactions + 1
           fs == [i \in 1..Len(es) |-> [tx |-> T, event |-> es[i]]]
<1>1. /\ ~sealed /\ sealed' = sealed /\ price' = price /\ transactions' = transactions + 1
      /\ log' = log \o fs
  BY DEF Emit
<1>2. T \in Nat \ {0}
  BY DEF ChainTypeInv
<1> HIDE DEF T
<1>3. Len(es) \in Nat /\ \A i \in 1..Len(es) : es[i] \in ChainEvents
  OBVIOUS
<1>4. \A i \in 1..Len(es) : [tx |-> T, event |-> es[i]] \in LogEntries
  BY <1>2, <1>3 DEF LogEntries
<1>5. fs \in Seq(LogEntries) /\ Len(fs) = Len(es)
  <2> HIDE DEF LogEntries
  <2> QED
    BY <1>3, <1>4
<1>6. \A i \in 1..Len(es) : fs[i].tx = T /\ fs[i].event = es[i]
  BY <1>3
<1> DEFINE l == log \o fs
<1>7. log \in Seq(LogEntries)
  BY DEF ChainTypeInv
<1> HIDE DEF fs
<1>8. /\ l \in Seq(LogEntries) /\ Len(l) = Len(log) + Len(fs) /\ Len(log) \in Nat
      /\ \A i \in 1..Len(log) : l[i] = log[i]
      /\ \A i \in (Len(log) + 1)..(Len(log) + Len(fs)) : l[i] = fs[i - Len(log)]
  BY ONLY <1>5, <1>7, EventsConcatenated
<1>9. log' = l
  BY <1>1
<1> HIDE DEF l
<1>10. ASSUME NEW i \in (Len(log) + 1)..(Len(log) + Len(es))
       PROVE  l[i].tx = T /\ l[i].event = es[i - Len(log)]
  <2>1. i - Len(log) \in 1..Len(es)
    BY ONLY <1>3, <1>8, <1>10
  <2>2. l[i] = fs[i - Len(log)]
    BY ONLY <1>5, <1>8, <1>10
  <2> QED
    BY ONLY <1>6, <2>1, <2>2
<1>11. /\ l \in Seq(LogEntries) /\ Len(l) = Len(log) + Len(es) /\ Len(log) \in Nat
       /\ \A i \in 1..Len(log) : l[i] = log[i]
       /\ \A i \in (Len(log) + 1)..(Len(log) + Len(es)) : l[i].tx = T /\ l[i].event = es[i - Len(log)]
  BY ONLY <1>5, <1>8, <1>10
<1> QED
  BY ONLY <1>1, <1>3, <1>9, <1>11 DEF T

\* Its events.
LEMMA EventsGrow ==
  ASSUME ChainTypeInv, NEW es \in Seq(ChainEvents), Emit(es)
  PROVE  EventsOf(log') = EventsOf(log) \o es /\ EventsOf(log) \in Seq(ChainEvents)
<1> DEFINE n == Len(log)
           m == Len(es)
           l == EventsOf(log')
           r == EventsOf(log) \o es
<1>1. /\ Len(log') = n + m /\ n \in Nat /\ m \in Nat
      /\ \A i \in 1..n : log'[i] = log[i]
      /\ \A i \in (n + 1)..(n + m) : log'[i].event = es[i - n]
  BY ONLY ChainTypeInv, es \in Seq(ChainEvents), Emit(es), LogGrows DEF n, m
<1>2. \A i \in 1..n : log[i].event \in ChainEvents
  BY ONLY ChainTypeInv, LogTypes DEF n
<1>3. EventsOf(log) \in Seq(ChainEvents) /\ Len(EventsOf(log)) = n /\ \A i \in 1..n : EventsOf(log)[i] = log[i].event
  <2> HIDE DEF ChainEvents
  <2> QED
    BY <1>1, <1>2 DEF EventsOf
<1>4. /\ r \in Seq(ChainEvents) /\ Len(r) = n + m
      /\ \A i \in 1..n : r[i] = log[i].event
      /\ \A i \in (n + 1)..(n + m) : r[i] = es[i - n]
  <2>1. /\ r \in Seq(ChainEvents) /\ Len(r) = n + m
        /\ \A i \in 1..n : r[i] = EventsOf(log)[i]
        /\ \A i \in (n + 1)..(n + m) : r[i] = es[i - n]
    <3> DEFINE o == EventsOf(log)
    <3>1. o \in Seq(ChainEvents) /\ Len(o) = n /\ r = o \o es
      BY <1>3
    <3>2. es \in Seq(ChainEvents) /\ Len(es) = m
      OBVIOUS
    <3> HIDE DEF o, r, n, m
    <3> DEFINE k == o \o es
    <3>3. /\ k \in Seq(ChainEvents) /\ Len(k) = Len(o) + Len(es)
          /\ \A i \in 1..Len(o) : k[i] = o[i]
          /\ \A i \in (Len(o) + 1)..(Len(o) + Len(es)) : k[i] = es[i - Len(o)]
      BY ONLY <3>1, <3>2, EventsConcatenated
    <3>4. r = k
      BY <3>1
    <3> HIDE DEF k
    <3>5. /\ r \in Seq(ChainEvents) /\ Len(r) = n + m
          /\ \A i \in 1..n : r[i] = o[i]
          /\ \A i \in (n + 1)..(n + m) : r[i] = es[i - n]
      BY ONLY <3>1, <3>2, <3>3, <3>4
    <3> QED
      BY <3>5 DEF o
  <2> HIDE DEF r, n, m
  <2> QED
    BY ONLY <1>3, <2>1
<1>5. l = [i \in 1..(n + m) |-> log'[i].event]
  BY <1>1 DEF EventsOf
<1>6. r = [i \in 1..(n + m) |-> r[i]]
  <2> HIDE DEF n, m, r
  <2> QED
    BY <1>1, <1>4
<1> HIDE DEF n, m, l, r
<1>7. \A i \in 1..(n + m) : i \in 1..n \/ i \in (n + 1)..(n + m)
  BY ONLY <1>1
<1>8. \A i \in 1..(n + m) : log'[i].event = r[i]
  BY ONLY <1>1, <1>4, <1>7
<1>9. l = r
  BY ONLY <1>5, <1>6, <1>8
<1> QED
  BY <1>3, <1>9 DEF l, r

\* The log stays in order.
LEMMA TransactionKeepsOrder ==
  ASSUME ChainTypeInv, LogIsOrdered, NEW es, Transaction(es)
  PROVE  LogIsOrdered'
<1> DEFINE n == Len(log)
           m == Len(es)
           T == transactions + 1
<1>1. /\ Len(log') = n + m /\ n \in Nat /\ m \in Nat /\ transactions' = T /\ transactions \in Nat
      /\ \A i \in 1..n : log'[i] = log[i]
      /\ \A i \in (n + 1)..(n + m) : log'[i].tx = T /\ log'[i].event = es[i - n]
  <2>1. es \in Seq(ChainEvents) /\ Emit(es)
    BY DEF Transaction
  <2>2. /\ Len(log') = n + m /\ n \in Nat /\ m \in Nat /\ transactions' = T
        /\ \A i \in 1..n : log'[i] = log[i]
        /\ \A i \in (n + 1)..(n + m) : log'[i].tx = T /\ log'[i].event = es[i - n]
    BY ONLY ChainTypeInv, <2>1, LogGrows DEF n, m, T
  <2> QED
    BY <2>2 DEF ChainTypeInv
<1>2. /\ \A i \in 1..n : log[i].tx \in Nat /\ log[i].tx <= transactions
      /\ \A i, j \in 1..n : i < j => log[i].tx <= log[j].tx
      /\ \A i \in 1..n : \A name \in ClosingNames : EndedBy(log[i].event, name) =>
           \E j \in 1..n : i < j /\ log[j].tx = log[i].tx /\ log[j].event.name = name
  BY ONLY ChainTypeInv, LogIsOrdered, LogTypes DEF LogIsOrdered, n
<1>3. \A i \in 1..m : \A name \in ClosingNames : EndedBy(es[i], name) =>
        \E j \in 1..m : i < j /\ es[j].name = name
  BY DEF Transaction
<1> DEFINE l == log'
<1> HIDE DEF n, m, T, l
<1>4. /\ Len(l) = n + m /\ (\A i \in 1..n : l[i] = log[i])
      /\ \A i \in (n + 1)..(n + m) : l[i].tx = T /\ l[i].event = es[i - n]
  BY <1>1 DEF l
<1>5. T \in Nat /\ transactions < T
  BY <1>1 DEF T
<1>6. \A i \in 1..Len(l) : i \in 1..n \/ i \in (n + 1)..(n + m)
  BY ONLY <1>1, <1>4
<1>7. \A i \in 1..Len(l) : l[i].tx <= T
  BY ONLY <1>1, <1>2, <1>4, <1>5, <1>6
<1>8. ASSUME NEW i \in 1..Len(l), NEW j \in 1..Len(l), i < j
      PROVE  l[i].tx <= l[j].tx
  <2>1. CASE j \in 1..n
    BY ONLY <1>1, <1>2, <1>4, <1>6, <1>8, <2>1
  <2>2. CASE j \in (n + 1)..(n + m)
    <3>1. l[j].tx = T
      BY ONLY <1>4, <2>2
    <3> QED
      BY ONLY <1>7, <1>8, <3>1
  <2> QED
    BY ONLY <1>6, <2>1, <2>2
<1>9. ASSUME NEW i \in 1..Len(l), NEW name \in ClosingNames, EndedBy(l[i].event, name)
      PROVE  \E j \in 1..Len(l) : i < j /\ l[j].tx = l[i].tx /\ l[j].event.name = name
  <2>1. CASE i \in 1..n
    <3>1. PICK j \in 1..n : i < j /\ log[j].tx = log[i].tx /\ log[j].event.name = name
      BY ONLY <1>2, <1>4, <1>9, <2>1
    <3>2. j \in 1..Len(l) /\ l[j] = log[j] /\ l[i] = log[i]
      BY ONLY <1>1, <1>4, <2>1, <3>1
    <3> QED
      BY ONLY <3>1, <3>2
  <2>2. CASE i \in (n + 1)..(n + m)
    <3>1. l[i].event = es[i - n] /\ i - n \in 1..m
      BY ONLY <1>1, <1>4, <2>2
    <3>2. PICK k \in 1..m : i - n < k /\ es[k].name = name
      BY ONLY <1>3, <1>9, <3>1
    <3> DEFINE j == n + k
    <3>3. j \in (n + 1)..(n + m) /\ j - n = k /\ i < j /\ j \in 1..Len(l)
      BY ONLY <1>1, <1>4, <2>2, <3>2
    <3>4. l[j].tx = T /\ l[i].tx = T /\ l[j].event = es[k]
      BY ONLY <1>4, <2>2, <3>3
    <3> QED
      BY ONLY <3>2, <3>3, <3>4
  <2> QED
    BY ONLY <1>6, <2>1, <2>2
<1> QED
  BY <1>1, <1>7, <1>8, <1>9 DEF LogIsOrdered, l, T

\* A transaction keeps the invariant.
LEMMA TransactionKeepsInv ==
  ASSUME SubgraphInv, NEW es, Transaction(es), UNCHANGED index
  PROVE  SubgraphInv'
<1> DEFINE n == Len(log)
           m == Len(es)
<1>1. /\ ChainTypeInv /\ es \in Seq(ChainEvents) /\ Emit(es)
      /\ LedgerTypeInv' /\ VaultsInv'
      /\ \A u \in Users :
           /\ VaultSettles(es, u, vaults[u], vaults'[u]) /\ VaultDiffers(es, u, vaults[u])
           /\ SurplusSettles(es, u, surplus[u], surplus'[u])
  BY DEF SubgraphInv, Transaction
<1>2. /\ ~sealed /\ sealed' = sealed /\ price' = price /\ transactions' = transactions + 1
      /\ log' \in Seq(LogEntries) /\ Len(log') = n + m /\ n \in Nat /\ m \in Nat
      /\ \A i \in 1..n : log'[i] = log[i]
      /\ \A i \in (n + 1)..(n + m) : log'[i].tx = transactions + 1
  BY ONLY <1>1, LogGrows DEF n, m
<1>3. ChainTypeInv' /\ (index \in IndexTypes)' /\ OwnTemporaries(index.written)'
  BY <1>1, <1>2 DEF SubgraphInv, ChainTypeInv
<1>4. LogIsOrdered'
  BY <1>1, TransactionKeepsOrder DEF SubgraphInv
<1>5. IndexIsBehind'
  <2> DEFINE l == log'
  <2>1. /\ index.transaction <= transactions /\ index.transaction \in Nat /\ transactions \in Nat
        /\ \A i \in 1..n : index.transaction < log[i].tx
        /\ ~index.failed
    BY <1>1, <1>2 DEF SubgraphInv, IndexIsBehind, IndexTypes, ChainTypeInv
  <2>2. Len(l) = n + m /\ \A i \in 1..n : l[i] = log[i]
    BY <1>2
  <2>3. \A i \in (n + 1)..(n + m) : l[i].tx = transactions + 1
    BY <1>2
  <2> HIDE DEF n, m, l
  <2>4. \A i \in 1..Len(l) : i \in 1..n \/ i \in (n + 1)..(n + m)
    BY ONLY <1>2, <2>2
  <2>5. \A i \in 1..Len(l) : index.transaction < l[i].tx
    BY ONLY <2>1, <2>2, <2>3, <2>4
  <2> QED
    BY <1>2, <2>1, <2>5 DEF IndexIsBehind, l
<1>6. TemporariesInv'
  <2>1. ~index.failed => index.liquidation = Null /\ index.redemption = Null
    BY <1>2 DEF SubgraphInv, TemporariesInv
  <2> QED
    BY <2>1 DEF TemporariesInv
<1>7. MatchInv'
  <2> SUFFICES ASSUME ~index.failed, NEW u \in Users
               PROVE  LET old == IndexedVault(index.users[u])
                      IN /\ index.users[u].currentVault # Null /\ index.users[u].vault.saved => old.coll # 0
                         /\ VaultSettles(EventsOf(log'), u, old, vaults'[u])
                         /\ VaultDiffers(EventsOf(log'), u, old)
                         /\ SurplusSettles(EventsOf(log'), u, index.users[u].collSurplus, surplus'[u])
    BY DEF MatchInv
  <2> DEFINE old == IndexedVault(index.users[u])
             l == EventsOf(log)
  <2>1. /\ index.users[u].currentVault # Null /\ index.users[u].vault.saved => old.coll # 0
        /\ VaultSettles(l, u, old, vaults[u]) /\ VaultDiffers(l, u, old)
        /\ SurplusSettles(l, u, index.users[u].collSurplus, surplus[u])
    BY <1>2 DEF SubgraphInv, MatchInv
  <2>2. EventsOf(log') = l \o es /\ l \in Seq(ChainEvents)
    BY <1>1, EventsGrow
  <2> HIDE DEF old, l
  <2>3. VaultSettles(l \o es, u, old, vaults'[u])
    BY <1>1, <2>1, <2>2, VaultSettlesThen
  <2>4. VaultDiffers(l \o es, u, old)
    BY <1>1, <2>1, <2>2, VaultDiffersThen
  <2>5. SurplusSettles(l \o es, u, index.users[u].collSurplus, surplus'[u])
    BY <1>1, <2>1, <2>2, SurplusSettlesThen
  <2> QED
    BY <2>1, <2>2, <2>3, <2>4, <2>5 DEF old
<1> QED
  BY <1>1, <1>3, <1>4, <1>5, <1>6, <1>7 DEF SubgraphInv

\* The other steps of the chain.
LEMMA ChainKeepsInv ==
  ASSUME SubgraphInv, ChainStep, UNCHANGED index
  PROVE  SubgraphInv'
<1>1. LedgerTypeInv /\ VaultsInv
  BY DEF SubgraphInv, ChainTypeInv
<1>2. CASE \E es : Transaction(es)
  BY <1>2, TransactionKeepsInv
<1>3. CASE \E p \in Prices : PriceMoves(p)
  BY <1>3 DEF SubgraphInv, PriceMoves, ChainTypeInv, LedgerTypeInv, VaultsInv, LogIsOrdered, IndexIsBehind,
              TemporariesInv, MatchInv, Active
<1>4. CASE Seal
  <2>1. /\ ~sealed /\ log # <<>> /\ sealed' = TRUE
        /\ UNCHANGED <<price, vaults, redistributed, deposits, surplus, transactions, log>>
    BY <1>4 DEF Seal
  <2>2. ChainTypeInv' /\ VaultsInv' /\ LogIsOrdered' /\ (index \in IndexTypes)' /\ OwnTemporaries(index.written)'
    BY <2>1 DEF SubgraphInv, ChainTypeInv, LedgerTypeInv, VaultsInv, LogIsOrdered
  <2>3. IndexIsBehind'
    <3>1. Len(log) \in Nat /\ Len(log) > 0 /\ log[1].tx \in Nat
      <4>1. log \in Seq(LogEntries) /\ log # <<>>
        BY <2>1 DEF SubgraphInv, ChainTypeInv
      <4>2. Len(log) \in Nat /\ Len(log) > 0
        <5> HIDE DEF LogEntries
        <5> QED
          BY <4>1
      <4> QED
        BY <4>2, LogTypes DEF SubgraphInv
    <3>2. /\ index.transaction \in Nat /\ \A i \in 1..Len(log) : log[i].tx \in Nat
      <4>1. index.transaction \in Nat
        BY DEF SubgraphInv, IndexTypes
      <4> QED
        BY <4>1, LogTypes DEF SubgraphInv
    <3>3. \A i \in 1..Len(log) : index.transaction < log[i].tx
      BY <2>1 DEF SubgraphInv, IndexIsBehind
    <3>4. index.transaction < log[1].tx
      BY <3>1, <3>3
    <3> QED
      BY <2>1, <3>1, <3>2, <3>3, <3>4 DEF SubgraphInv, IndexIsBehind
  <2>4. TemporariesInv'
    BY <2>1 DEF SubgraphInv, TemporariesInv
  <2>5. MatchInv'
    BY <2>1 DEF SubgraphInv, MatchInv
  <2> QED
    BY <2>2, <2>3, <2>4, <2>5 DEF SubgraphInv
<1> QED
  BY <1>1, <1>2, <1>3, <1>4, StepsOfTheChain

-----------------------------------------------------------------------------
(* The index while an event is handled. *)

\* The state from which the first change of the handler starts.
FirstState == WithSystemState(index).states

\* What ChangesAreChained says of the changes of a handler.
IsChained(changes) ==
  \A i \in 1..Len(changes) :
    /\ changes[i].sequenceNumber = index.changes + i - 1
    /\ changes[i].before = FirstState - 1 + i - 1
    /\ changes[i].after = changes[i].before + 1
    /\ changes[i].price = price

\* The index x has recorded its changes in order, and taken pending numbers for the next.
Recording(x, pending) ==
  /\ x \in IndexTypes
  /\ x.changes = index.changes + Len(x.written) + pending
  /\ IF Len(x.written) = 0 THEN x.states \in {index.states, FirstState}
                           ELSE x.states = FirstState + Len(x.written)
  /\ IsChained(x.written) /\ OwnTemporaries(x.written)
  /\ x.liquidation \in {Null, nextTx} /\ x.redemption \in {Null, nextTx}

\* It knows the transaction and its price, or has yet to ask for them.
KnowsPrice(x) ==
  /\ x.transaction \in {index.transaction, nextTx}
  /\ x.transaction = nextTx => x.price = price

SameEntities(x, y) ==
  /\ y.users = x.users /\ y.open = x.open /\ y.failed = x.failed
  /\ y.liquidation = x.liquidation /\ y.redemption = x.redemption

\* The fields of an index.
LEMMA IndexFields ==
  ASSUME NEW x \in IndexTypes
  PROVE  /\ x.states \in Nat /\ x.price \in Prices \cup {InitialPrice} /\ x.changes \in Nat
         /\ x.transaction \in Nat /\ x.liquidation \in Nat /\ x.redemption \in Nat /\ x.open \in Int
         /\ x.users \in [Users -> IndexedUsers] /\ x.written \in Seq(Changes) /\ x.failed \in BOOLEAN
         /\ Len(x.written) \in Nat
<1>1. /\ x.states \in Nat /\ x.price \in Prices \cup {InitialPrice} /\ x.changes \in Nat
      /\ x.transaction \in Nat /\ x.liquidation \in Nat /\ x.redemption \in Nat /\ x.open \in Int
      /\ x.users \in [Users -> IndexedUsers] /\ x.written \in Seq(Changes) /\ x.failed \in BOOLEAN
  <2> HIDE DEF Changes, IndexedUsers
  <2> QED
    BY DEF IndexTypes
<1>2. Len(x.written) \in Nat
  <2> HIDE DEF Changes, IndexTypes
  <2> QED
    BY <1>1
<1> QED
  BY <1>1, <1>2

\* getCurrentSystemState creates the first state.
LEMMA WithStateFields ==
  ASSUME NEW x \in IndexTypes
  PROVE  /\ WithSystemState(x) \in IndexTypes /\ SameEntities(x, WithSystemState(x))
         /\ WithSystemState(x).states = IF x.states = 0 THEN 1 ELSE x.states
         /\ WithSystemState(x).changes = x.changes /\ WithSystemState(x).price = x.price
         /\ WithSystemState(x).transaction = x.transaction /\ WithSystemState(x).written = x.written
BY DEF WithSystemState, IndexTypes, SameEntities

\* A change adds itself and a state.
LEMMA RecordedFields ==
  ASSUME NEW x \in IndexTypes, NEW number \in Int, NEW details,
         details.kind \in {"price", "vault", "deposit", "surplus"},
         details.liquidation \in Nat, details.redemption \in Nat,
         NEW y, y = Recorded(x, number, details)
  PROVE  /\ y \in IndexTypes /\ SameEntities(x, y)
         /\ y.states = WithSystemState(x).states + 1
         /\ y.changes = x.changes /\ y.price = x.price /\ y.transaction = x.transaction
         /\ \E c \in Changes :
              /\ y.written = Append(x.written, c)
              /\ c.sequenceNumber = number /\ c.transaction = x.transaction
              /\ c.before = WithSystemState(x).states - 1 /\ c.after = WithSystemState(x).states
              /\ c.price = x.price
              /\ c.liquidation = details.liquidation /\ c.redemption = details.redemption
<1> DEFINE before == WithSystemState(x)
           n == before.states + 1
           after == [before EXCEPT !.states = n]
           c == [sequenceNumber |-> number, transaction |-> x.transaction,
                 before |-> CurrentSystemState(before), after |-> CurrentSystemState(after),
                 price |-> x.price, kind |-> details.kind,
                 liquidation |-> details.liquidation, redemption |-> details.redemption]
           w == Append(x.written, c)
<1>1. before \in IndexTypes /\ before.states \in Nat /\ x.written \in Seq(Changes) /\ x.transaction \in Nat
      /\ x.price \in Prices \cup {InitialPrice}
  BY WithStateFields, IndexFields
<1>2. /\ before.changes = x.changes /\ before.price = x.price /\ before.transaction = x.transaction
      /\ before.written = x.written /\ SameEntities(x, before)
  BY WithStateFields
<1>3. y = [after EXCEPT !.written = Append(@, c)]
  BY DEF Recorded, BumpSystemState
<1> HIDE DEF before
<1>4. n \in Nat /\ n = before.states + 1
  BY <1>1
<1> HIDE DEF n
<1>5. /\ after \in IndexTypes /\ after.states = n /\ after.written = before.written
      /\ after.changes = before.changes /\ after.price = before.price /\ after.transaction = before.transaction
      /\ SameEntities(before, after)
  BY <1>1, <1>4 DEF IndexTypes, SameEntities
<1>6. CurrentSystemState(before) \in Int /\ CurrentSystemState(before) = before.states - 1
      /\ CurrentSystemState(after) \in Int /\ CurrentSystemState(after) = before.states
  BY <1>1, <1>4, <1>5 DEF CurrentSystemState
<1> HIDE DEF after
<1>7. /\ c \in Changes
      /\ c.sequenceNumber = number /\ c.transaction = x.transaction
      /\ c.before = before.states - 1 /\ c.after = before.states
      /\ c.price = x.price /\ c.liquidation = details.liquidation /\ c.redemption = details.redemption
  BY <1>1, <1>6 DEF Changes
<1> HIDE DEF c
<1>8. w \in Seq(Changes)
  <2> HIDE DEF Changes
  <2> QED
    BY <1>1, <1>7
<1> DEFINE z == [after EXCEPT !.written = w]
<1>9. y = z
  BY <1>2, <1>3, <1>5
<1> HIDE DEF w
<1>10. /\ z \in IndexTypes /\ z.states = after.states /\ z.written = w
       /\ z.changes = after.changes /\ z.price = after.price /\ z.transaction = after.transaction
       /\ SameEntities(after, z)
  BY <1>5, <1>8 DEF IndexTypes, SameEntities
<1> HIDE DEF z
<1>11. SameEntities(x, y)
  BY <1>2, <1>5, <1>9, <1>10 DEF SameEntities
<1>12. y.written = Append(x.written, c)
  BY <1>9, <1>10 DEF w
<1> QED
  BY <1>2, <1>4, <1>5, <1>7, <1>9, <1>10, <1>11, <1>12 DEF before

\* The handling of an event begins: the block is complete and its log is not empty.
Handling ==
  /\ SubgraphInv /\ sealed /\ ~index.failed /\ log # <<>>
  /\ log[1].tx = nextTx /\ log[1].event = nextEvent

\* A pending change is recorded.
LEMMA RecordedKeeps ==
  ASSUME Handling, NEW x, Recording(x, 1), KnowsPrice(x), x.transaction = nextTx,
         NEW details, details.kind \in {"price", "vault", "deposit", "surplus"},
         details.liquidation \in {Null, nextTx}, details.redemption \in {Null, nextTx},
         NEW y, y = Recorded(x, index.changes + Len(x.written), details)
  PROVE  /\ Recording(y, 0) /\ KnowsPrice(y) /\ SameEntities(x, y) /\ y.transaction = nextTx
<1> DEFINE k == Len(x.written)
           number == index.changes + k
<1>1. /\ x \in IndexTypes /\ k \in Nat /\ x.states \in Nat /\ x.written \in Seq(Changes) /\ x.transaction \in Nat
  BY IndexFields DEF Recording
<1>2. index \in IndexTypes /\ index.states \in Nat /\ index.changes \in Nat
  BY IndexFields DEF Handling, SubgraphInv
<1>3. FirstState = (IF index.states = 0 THEN 1 ELSE index.states) /\ FirstState \in Nat
  BY <1>2, WithStateFields DEF FirstState
<1>4. WithSystemState(x).states = FirstState + k
  BY <1>1, <1>2, <1>3, WithStateFields DEF Recording
<1>5. details.liquidation \in Nat /\ details.redemption \in Nat /\ number \in Int
  BY <1>1, <1>2 DEF Null
<1>6. /\ y \in IndexTypes /\ SameEntities(x, y)
      /\ y.states = WithSystemState(x).states + 1
      /\ y.changes = x.changes /\ y.price = x.price /\ y.transaction = x.transaction
      /\ \E c \in Changes :
           /\ y.written = Append(x.written, c)
           /\ c.sequenceNumber = number /\ c.transaction = x.transaction
           /\ c.before = WithSystemState(x).states - 1 /\ c.after = WithSystemState(x).states
           /\ c.price = x.price
           /\ c.liquidation = details.liquidation /\ c.redemption = details.redemption
  <2>1. details.kind \in {"price", "vault", "deposit", "surplus"} /\ y = Recorded(x, number, details)
    OBVIOUS
  <2> HIDE DEF number
  <2> QED
    BY ONLY <1>1, <1>5, <2>1, RecordedFields
<1>7. PICK c \in Changes :
        /\ y.written = Append(x.written, c)
        /\ c.sequenceNumber = number /\ c.transaction = x.transaction
        /\ c.before = WithSystemState(x).states - 1 /\ c.after = WithSystemState(x).states
        /\ c.price = x.price
        /\ c.liquidation = details.liquidation /\ c.redemption = details.redemption
  BY <1>6
<1>8. /\ c.before = FirstState - 1 + (k + 1) - 1 /\ c.after = c.before + 1
      /\ c.sequenceNumber = index.changes + (k + 1) - 1
      /\ c.price = price /\ c.transaction = nextTx
      /\ c.liquidation \in {Null, c.transaction} /\ c.redemption \in {Null, c.transaction}
  <2>1. c.price = price /\ c.transaction = nextTx
    BY <1>7 DEF KnowsPrice
  <2>2. c.liquidation \in {Null, nextTx} /\ c.redemption \in {Null, nextTx}
    BY <1>7
  <2>3. c.sequenceNumber = number
    BY <1>7
  <2> DEFINE s == WithSystemState(x).states
             m == index.changes
  <2>4. k \in Nat /\ m \in Nat /\ FirstState \in Nat
    BY <1>1, <1>2, <1>3
  <2>5. s = FirstState + k
    BY ONLY <1>4
  <2>6. c.before = s - 1 /\ c.after = s
    BY ONLY <1>7
  <2>7. c.sequenceNumber = m + k
    BY <2>3
  <2> HIDE DEF k, s, m
  <2>8. c.before = FirstState - 1 + (k + 1) - 1 /\ c.after = c.before + 1
    BY ONLY <2>4, <2>5, <2>6
  <2>9. c.sequenceNumber = m + (k + 1) - 1
    BY ONLY <2>4, <2>7
  <2> QED
    BY ONLY <2>1, <2>2, <2>8, <2>9 DEF m
<1> DEFINE w == y.written
<1>9. /\ Len(w) = k + 1 /\ w[k + 1] = c /\ \A i \in 1..k : w[i] = x.written[i]
  <2>1. w = Append(x.written, c)
    BY <1>7
  <2> DEFINE v == x.written
  <2>2. v \in Seq(Changes) /\ c \in Changes
    BY <1>1
  <2>3. Len(Append(v, c)) = k + 1 /\ Append(v, c)[k + 1] = c /\ \A i \in 1..k : Append(v, c)[i] = v[i]
    <3> HIDE DEF v, Changes
    <3> QED
      BY <2>2 DEF v
  <2> QED
    BY <2>1, <2>3
<1>10. IsChained(x.written) /\ OwnTemporaries(x.written)
  BY DEF Recording
<1> HIDE DEF k, w
<1>11. \A i \in 1..Len(w) : i \in 1..k \/ i = k + 1
  BY ONLY <1>1, <1>9
<1>12. IsChained(w)
  BY ONLY <1>8, <1>9, <1>10, <1>11 DEF IsChained, k
<1>13. OwnTemporaries(w)
  BY ONLY <1>8, <1>9, <1>10, <1>11 DEF OwnTemporaries, k
<1>14. y.changes = index.changes + Len(w) + 0
  <2> DEFINE m == index.changes
  <2>1. x.changes = m + k + 1
    BY DEF Recording, k
  <2>2. y.changes = x.changes
    BY ONLY <1>6
  <2>3. k \in Nat /\ m \in Nat /\ Len(w) = k + 1
    BY ONLY <1>1, <1>2, <1>9
  <2> HIDE DEF m
  <2>4. y.changes = m + Len(w) + 0
    BY ONLY <2>1, <2>2, <2>3
  <2> QED
    BY ONLY <2>4 DEF m
<1>15. y.states = FirstState + Len(w) /\ Len(w) # 0
  <2> DEFINE s == WithSystemState(x).states
  <2>1. y.states = s + 1
    BY ONLY <1>6
  <2>2. s = FirstState + k
    BY ONLY <1>4
  <2>3. k \in Nat /\ FirstState \in Nat /\ Len(w) = k + 1
    BY ONLY <1>1, <1>3, <1>9
  <2> HIDE DEF s
  <2> QED
    BY ONLY <2>1, <2>2, <2>3
<1>16. y.liquidation \in {Null, nextTx} /\ y.redemption \in {Null, nextTx}
  <2>1. y.liquidation = x.liquidation /\ y.redemption = x.redemption
    BY ONLY <1>6 DEF SameEntities
  <2>2. x.liquidation \in {Null, nextTx} /\ x.redemption \in {Null, nextTx}
    BY DEF Recording
  <2> QED
    BY ONLY <2>1, <2>2
<1>17. Recording(y, 0)
  BY <1>6, <1>12, <1>13, <1>14, <1>15, <1>16 DEF Recording, w
<1>18. KnowsPrice(y)
  BY <1>6 DEF KnowsPrice
<1> QED
  BY <1>6, <1>17, <1>18

\* The transaction that the index knows changes, and nothing else.
LEMMA TransactionFields ==
  ASSUME NEW x \in IndexTypes, NEW t \in Nat, NEW y, y = [x EXCEPT !.transaction = t]
  PROVE  /\ y \in IndexTypes /\ SameEntities(x, y) /\ y.transaction = t
         /\ y.states = x.states /\ y.price = x.price /\ y.changes = x.changes /\ y.written = x.written
BY DEF IndexTypes, SameEntities

\* So does the number of the next change.
LEMMA ChangesFields ==
  ASSUME NEW x \in IndexTypes, NEW n \in Nat, NEW y, y = [x EXCEPT !.changes = n]
  PROVE  /\ y \in IndexTypes /\ SameEntities(x, y) /\ y.changes = n
         /\ y.states = x.states /\ y.price = x.price /\ y.transaction = x.transaction /\ y.written = x.written
BY DEF IndexTypes, SameEntities

\* Types of what is handled.
LEMMA HandlingTypes ==
  ASSUME Handling
  PROVE  /\ nextTx \in Nat /\ nextTx > 0 /\ nextEvent \in ChainEvents /\ price \in Prices
         /\ index \in IndexTypes /\ Len(log) \in Nat /\ Len(log) > 0
<1>1. ChainTypeInv /\ index \in IndexTypes /\ price \in Prices
  BY DEF Handling, SubgraphInv, ChainTypeInv
<1>2. log \in Seq(LogEntries) /\ log # <<>>
  BY DEF Handling, SubgraphInv, ChainTypeInv
<1>3. Len(log) \in Nat /\ Len(log) > 0
  <2> HIDE DEF LogEntries
  <2> QED
    BY <1>2
<1>4. log[1].tx \in Nat /\ log[1].tx > 0 /\ log[1].event \in ChainEvents
  BY <1>1, <1>3, LogTypes
<1>5. log[1].tx = nextTx /\ log[1].event = nextEvent
  BY DEF Handling
<1> QED
  BY <1>1, <1>3, <1>4, <1>5

\* getTransaction knows the transaction and its price afterwards.
LEMMA GetTransactionKeeps ==
  ASSUME Handling, NEW x, Recording(x, 0), KnowsPrice(x), NEW y, y = GetTransaction(x, nextTx)
  PROVE  Recording(y, 0) /\ KnowsPrice(y) /\ SameEntities(x, y) /\ y.transaction = nextTx
<1>1. CASE x.transaction = nextTx
  BY <1>1 DEF GetTransaction, SameEntities
<1>2. CASE x.transaction # nextTx
  <2> DEFINE z == [x EXCEPT !.transaction = nextTx]
  <2>1. /\ z \in IndexTypes /\ SameEntities(x, z) /\ z.transaction = nextTx
        /\ z.states = x.states /\ z.price = x.price /\ z.changes = x.changes /\ z.written = x.written
    BY HandlingTypes, TransactionFields DEF Recording
  <2>2. y = CheckPrice(z)
    BY <1>2 DEF GetTransaction
  <2> HIDE DEF z
  <2>3. z.changes \in Nat /\ Len(z.written) \in Nat /\ z.states \in Nat
    BY <2>1, IndexFields
  <2>4. index.changes \in Nat /\ index.states \in Nat
    BY HandlingTypes, IndexFields
  <2>5. Recording(z, 0)
    BY <2>1 DEF Recording, SameEntities
  <2>6. CASE z.price = price
    <3>1. y = WithSystemState(z)
      BY <2>2, <2>6 DEF CheckPrice
    <3>2. /\ y \in IndexTypes /\ SameEntities(z, y)
          /\ y.states = IF z.states = 0 THEN 1 ELSE z.states
          /\ y.changes = z.changes /\ y.price = z.price
          /\ y.transaction = z.transaction /\ y.written = z.written
      BY <2>1, <3>1, WithStateFields
    <3>3. FirstState = (IF index.states = 0 THEN 1 ELSE index.states) /\ FirstState \in Nat
      BY <2>4, HandlingTypes, WithStateFields DEF FirstState
    <3>4. IF Len(y.written) = 0 THEN y.states \in {index.states, FirstState}
                                ELSE y.states = FirstState + Len(y.written)
      BY <2>3, <2>4, <2>5, <3>2, <3>3 DEF Recording
    <3>5. Recording(y, 0)
      BY <2>5, <3>2, <3>4 DEF Recording, SameEntities
    <3>6. KnowsPrice(y) /\ y.transaction = nextTx
      BY <2>1, <2>6, <3>2 DEF KnowsPrice
    <3> QED
      BY <2>1, <3>2, <3>5, <3>6 DEF SameEntities
  <2>7. CASE z.price # price
    <3> DEFINE n == z.changes + 1
               v == [z EXCEPT !.price = price, !.changes = n]
               details == [liquidation |-> Null, redemption |-> Null, kind |-> "price"]
    <3>1. y = Recorded(v, z.changes, details)
      BY <2>2, <2>7 DEF CheckPrice
    <3>2. n \in Nat /\ n = z.changes + 1 /\ price \in Prices \cup {InitialPrice}
      BY <2>3, HandlingTypes
    <3> HIDE DEF n
    <3>3. /\ v \in IndexTypes /\ SameEntities(z, v) /\ v.changes = n /\ v.price = price
          /\ v.states = z.states /\ v.transaction = z.transaction /\ v.written = z.written
      <4>1. z \in IndexTypes
        BY <2>1
      <4> QED
        BY ONLY <3>2, <4>1 DEF v, IndexTypes, SameEntities
    <3>4. /\ details.kind \in {"price", "vault", "deposit", "surplus"}
          /\ details.liquidation \in {Null, nextTx} /\ details.redemption \in {Null, nextTx}
      OBVIOUS
    <3> HIDE DEF v, details
    <3>5. z.changes = index.changes + Len(z.written)
      BY <2>3, <2>4, <2>5 DEF Recording
    <3>6. v.changes = index.changes + Len(v.written) + 1
      BY <2>3, <2>4, <3>2, <3>3, <3>5
    <3>7. Recording(v, 1)
      BY <2>5, <3>3, <3>6 DEF Recording, SameEntities
    <3>8. KnowsPrice(v) /\ v.transaction = nextTx
      BY <2>1, <3>3 DEF KnowsPrice
    <3>9. y = Recorded(v, index.changes + Len(v.written), details)
      BY <3>1, <3>3, <3>5
    <3>10. Recording(y, 0) /\ KnowsPrice(y) /\ SameEntities(v, y) /\ y.transaction = nextTx
      BY <3>4, <3>7, <3>8, <3>9, RecordedKeeps
    <3> QED
      BY <2>1, <3>3, <3>10 DEF SameEntities
  <2> QED
    BY <2>6, <2>7
<1> QED
  BY <1>1, <1>2

\* beginChange takes the next number, after the transaction was looked up.
LEMMA BeginChangeKeeps ==
  ASSUME Handling, NEW x, Recording(x, 0), KnowsPrice(x), NEW b, b = BeginChange(x, nextTx)
  PROVE  /\ Recording(b.index, 1) /\ KnowsPrice(b.index) /\ SameEntities(x, b.index)
         /\ b.index.transaction = nextTx
         /\ b.number = index.changes + Len(b.index.written)
<1> DEFINE known == GetTransaction(x, nextTx)
           n == known.changes + 1
           y == [known EXCEPT !.changes = n]
<1>1. Recording(known, 0) /\ KnowsPrice(known) /\ SameEntities(x, known) /\ known.transaction = nextTx
  BY GetTransactionKeeps
<1>2. b.number = known.changes /\ b.index = y
  BY DEF BeginChange
<1> HIDE DEF known
<1>3. known \in IndexTypes /\ known.changes \in Nat /\ Len(known.written) \in Nat /\ n \in Nat
  BY <1>1, IndexFields DEF Recording
<1>4. index.changes \in Nat
  BY HandlingTypes, IndexFields
<1>5. known.changes = index.changes + Len(known.written) /\ n = known.changes + 1
  BY <1>1, <1>3, <1>4 DEF Recording
<1> HIDE DEF n
<1>6. /\ y \in IndexTypes /\ SameEntities(known, y) /\ y.changes = n
      /\ y.states = known.states /\ y.price = known.price /\ y.transaction = known.transaction
      /\ y.written = known.written
  BY <1>3, ChangesFields
<1> HIDE DEF y
<1>7. y.changes = index.changes + Len(y.written) + 1
  BY <1>3, <1>4, <1>5, <1>6
<1>8. Recording(y, 1)
  BY <1>1, <1>6, <1>7 DEF Recording, SameEntities
<1> QED
  BY <1>1, <1>2, <1>5, <1>6, <1>8 DEF KnowsPrice, SameEntities

\* A change about an entity is saved.
LEMMA SaveChangeKeeps ==
  ASSUME Handling, NEW x, Recording(x, 0), KnowsPrice(x), NEW kind \in {"deposit", "surplus"},
         NEW y, y = SaveChange(x, nextTx, PlainChange(kind))
  PROVE  Recording(y, 0) /\ KnowsPrice(y) /\ SameEntities(x, y)
<1> DEFINE b == BeginChange(x, nextTx)
           details == PlainChange(kind)
<1>1. /\ Recording(b.index, 1) /\ KnowsPrice(b.index) /\ SameEntities(x, b.index)
      /\ b.index.transaction = nextTx
      /\ b.number = index.changes + Len(b.index.written)
  BY BeginChangeKeeps
<1>2. y = Recorded(b.index, b.number, details)
  BY DEF SaveChange
<1>3. /\ details.kind \in {"price", "vault", "deposit", "surplus"}
      /\ details.liquidation \in {Null, nextTx} /\ details.redemption \in {Null, nextTx}
  BY DEF PlainChange
<1> HIDE DEF b, details
<1>4. Recording(y, 0) /\ KnowsPrice(y) /\ SameEntities(b.index, y)
  BY <1>1, <1>2, <1>3, RecordedKeeps
<1> QED
  BY <1>1, <1>4 DEF SameEntities
-----------------------------------------------------------------------------
(* The users of the index. *)

\* Only users, open vaults and the failure differ.
SameRecord(x, y) ==
  /\ y.states = x.states /\ y.price = x.price /\ y.changes = x.changes /\ y.written = x.written
  /\ y.transaction = x.transaction /\ y.liquidation = x.liquidation /\ y.redemption = x.redemption

\* The changes of x are those of y.
LEMMA RecordKeeps ==
  ASSUME NEW x, NEW y \in IndexTypes, SameRecord(x, y), NEW k, Recording(x, k), KnowsPrice(x)
  PROVE  Recording(y, k) /\ KnowsPrice(y)
BY DEF SameRecord, Recording, KnowsPrice

WithUser(x, u, user) == [x EXCEPT !.users = [x.users EXCEPT ![u] = user]]
WithOpen(x, n) == [x EXCEPT !.open = n]

\* Another user u.
LEMMA UserFields ==
  ASSUME NEW x \in IndexTypes, NEW u \in Users, NEW user \in IndexedUsers,
         NEW y, y = WithUser(x, u, user)
  PROVE  /\ y \in IndexTypes /\ SameRecord(x, y) /\ y.failed = x.failed /\ y.open = x.open
         /\ y.users[u] = user /\ \A w \in Users : w # u => y.users[w] = x.users[w]
<1> DEFINE us == [x.users EXCEPT ![u] = user]
<1>1. x.users \in [Users -> IndexedUsers]
  BY IndexFields
<1>2. us \in [Users -> IndexedUsers] /\ us[u] = user /\ \A w \in Users : w # u => us[w] = x.users[w]
  <2> HIDE DEF IndexedUsers
  <2> QED
    BY ONLY <1>1, user \in IndexedUsers, u \in Users
<1>3. y = [x EXCEPT !.users = us]
  BY DEF WithUser
<1> HIDE DEF us
<1>4. y \in IndexTypes /\ SameRecord(x, y) /\ y.failed = x.failed /\ y.open = x.open /\ y.users = us
  <2> HIDE DEF IndexedUsers
  <2> QED
    BY <1>2, <1>3 DEF IndexTypes, SameRecord
<1> QED
  BY <1>2, <1>4

\* Another number of open vaults.
LEMMA OpenFields ==
  ASSUME NEW x \in IndexTypes, NEW n \in Int, NEW y, y = WithOpen(x, n)
  PROVE  y \in IndexTypes /\ SameRecord(x, y) /\ y.failed = x.failed /\ y.users = x.users
BY DEF WithOpen, IndexTypes, SameRecord

\* The indexing of a user ends here.
LEMMA FailedFields ==
  ASSUME NEW x \in IndexTypes, NEW y, y = [x EXCEPT !.failed = TRUE]
  PROVE  y \in IndexTypes /\ SameRecord(x, y) /\ y.failed /\ y.users = x.users
BY DEF IndexTypes, SameRecord

\* The current vault of u, and nothing else, may be another one.
OthersSame(x, y, u) ==
  /\ \A w \in Users : w # u => y.users[w] = x.users[w]
  /\ y.users[u].collSurplus = x.users[u].collSurplus

\* getCurrentVaultOfOwner opens a vault, which is not saved, unless there is one.
LEMMA GetCurrentVault ==
  ASSUME NEW x \in IndexTypes, NEW u \in Users, NEW y, y = GetCurrentVaultOfOwner(x, u)
  PROVE  /\ y \in IndexTypes /\ SameRecord(x, y) /\ y.failed = x.failed /\ OthersSame(x, y, u)
         /\ y.users[u].currentVault # Null
         /\ y.users[u].vault = IF x.users[u].currentVault # Null THEN x.users[u].vault ELSE NoIndexedVault
<1>1. CASE x.users[u].currentVault # Null
  BY <1>1 DEF GetCurrentVaultOfOwner, SameRecord, OthersSame
<1>2. CASE x.users[u].currentVault = Null
  <2> DEFINE old == x.users[u]
             n == old.vaultCount + 1
             m == x.open + 1
             user == [old EXCEPT !.vaultCount = n, !.currentVault = n, !.vault = NoIndexedVault]
  <2>1. old \in IndexedUsers /\ old.vaultCount \in Nat /\ x.open \in Int /\ x.users \in [Users -> IndexedUsers]
    <3>1. x.users \in [Users -> IndexedUsers] /\ x.open \in Int
      BY IndexFields
    <3>2. old \in IndexedUsers
      BY <3>1
    <3> QED
      BY <3>1, <3>2 DEF IndexedUsers
  <2>2. n \in Nat /\ n # 0 /\ m \in Int
    BY <2>1
  <2> DEFINE z == WithUser(x, u, user)
  <2>3. y = WithOpen(z, m)
    BY <1>2, <2>1 DEF GetCurrentVaultOfOwner, IndexTypes, IndexedUsers, WithUser, WithOpen
  <2> HIDE DEF old, n, m
  <2>4. /\ user \in IndexedUsers /\ user.currentVault = n /\ user.vault = NoIndexedVault
        /\ user.collSurplus = old.collSurplus
    BY <2>1, <2>2 DEF IndexedUsers, NoIndexedVault
  <2> HIDE DEF user
  <2>5. /\ z \in IndexTypes /\ SameRecord(x, z) /\ z.failed = x.failed
        /\ z.users[u] = user /\ \A w \in Users : w # u => z.users[w] = x.users[w]
    BY <2>1, <2>4, UserFields
  <2> HIDE DEF z
  <2>6. y \in IndexTypes /\ SameRecord(z, y) /\ y.failed = z.failed /\ y.users = z.users
    BY <2>2, <2>3, <2>5, OpenFields
  <2>7. /\ y.users[u] = user /\ \A w \in Users : w # u => y.users[w] = x.users[w]
    BY <2>5, <2>6
  <2>8. SameRecord(x, y) /\ y.failed = x.failed
    BY <2>5, <2>6 DEF SameRecord
  <2> QED
    BY <1>2, <2>2, <2>4, <2>6, <2>7, <2>8 DEF OthersSame, Null, old
<1> QED
  BY <1>1, <1>2

\* An open vault of the index has collateral.
HasCollateral(user) == user.currentVault # Null /\ user.vault.saved => IndexedVault(user).coll # 0

\* The vault of u is saved, and closed when it has no collateral.
LEMMA VaultIsSaved ==
  ASSUME NEW x \in IndexTypes, NEW u \in Users, NEW op,
         NEW coll \in Nat, NEW debt \in Nat, NEW snapshot \in Nat,
         x.users[u].currentVault # Null,
         NEW y, y = SavedVault(x, u, op, coll, debt, snapshot)
  PROVE  /\ y \in IndexTypes /\ SameRecord(x, y) /\ y.failed = x.failed /\ OthersSame(x, y, u)
         /\ HasCollateral(y.users[u])
         /\ IndexedVault(y.users[u]) =
              IF coll = 0 THEN NoVault ELSE [coll |-> coll, debt |-> debt, snapshot |-> snapshot]
<1> DEFINE old == x.users[u]
           vault == [saved |-> TRUE, coll |-> coll, debt |-> debt, snapshot |-> snapshot]
           user == [old EXCEPT !.vault = vault]
           z == WithUser(x, u, user)
           m == x.open - 1
           none == [user EXCEPT !.currentVault = Null]
           w == WithUser(z, u, none)
<1>1. x.users \in [Users -> IndexedUsers] /\ x.open \in Int /\ m \in Int
  BY IndexFields
<1>2. old \in IndexedUsers
  BY <1>1
<1>3. /\ user \in IndexedUsers /\ user.currentVault = old.currentVault /\ user.vault = vault
      /\ user.collSurplus = old.collSurplus
  BY <1>2 DEF IndexedUsers
<1>4. y = IF coll = 0 THEN [z EXCEPT !.users[u].currentVault = Null, !.open = @ - 1] ELSE z
  BY <1>1, <1>2 DEF SavedVault, CloseCurrentVaultOfOwner, WithUser, IndexTypes, IndexedUsers
<1> HIDE DEF user
<1>5. /\ z \in IndexTypes /\ SameRecord(x, z) /\ z.failed = x.failed /\ z.open = x.open
      /\ z.users[u] = user /\ \A v \in Users : v # u => z.users[v] = x.users[v]
  BY <1>3, UserFields
<1>6. CASE coll # 0
  <2>1. IndexedVault(user) = [coll |-> coll, debt |-> debt, snapshot |-> snapshot]
    BY <1>3 DEF IndexedVault
  <2>2. HasCollateral(user)
    BY <1>6, <2>1 DEF HasCollateral
  <2> HIDE DEF z
  <2>3. y = z
    BY <1>4, <1>6
  <2> QED
    BY <1>3, <1>5, <1>6, <2>1, <2>2, <2>3 DEF OthersSame
<1>7. CASE coll = 0
  <2> HIDE DEF m, z
  <2>1. none \in IndexedUsers /\ none.currentVault = Null /\ none.collSurplus = old.collSurplus
    BY <1>3 DEF IndexedUsers, Null
  <2>2. y = [z EXCEPT !.users[u].currentVault = Null, !.open = @ - 1]
    BY <1>4, <1>7
  <2>3. y = WithOpen(w, m)
    <3>1. z.users \in [Users -> IndexedUsers]
      BY <1>5, IndexFields
    <3> QED
      BY <1>5, <2>2, <3>1 DEF WithUser, WithOpen, IndexTypes, IndexedUsers, m
  <2> HIDE DEF none
  <2>4. /\ w \in IndexTypes /\ SameRecord(z, w) /\ w.failed = z.failed
        /\ w.users[u] = none /\ \A v \in Users : v # u => w.users[v] = z.users[v]
    BY <1>5, <2>1, UserFields
  <2> HIDE DEF w
  <2>5. y \in IndexTypes /\ SameRecord(w, y) /\ y.failed = w.failed /\ y.users = w.users
    BY <1>1, <2>3, <2>4, OpenFields DEF m
  <2>6. SameRecord(x, y) /\ y.failed = x.failed
    BY <1>5, <2>4, <2>5 DEF SameRecord
  <2>7. y.users[u] = none /\ \A v \in Users : v # u => y.users[v] = x.users[v]
    BY <1>5, <2>4, <2>5
  <2>8. IndexedVault(none) = NoVault /\ HasCollateral(none)
    BY <2>1 DEF IndexedVault, HasCollateral
  <2> QED
    BY <1>7, <2>1, <2>5, <2>6, <2>7, <2>8 DEF OthersSame
<1> QED
  BY <1>6, <1>7

\* An event gives u a vault that is saved, closed or the one that it had.
VaultOutcome(old, user, coll, debt, snapshot) ==
  \/ coll # 0 /\ IndexedVault(user) = [coll |-> coll, debt |-> debt, snapshot |-> snapshot]
  \/ coll = 0 /\ IndexedVault(user) = NoVault
  \/ /\ IndexedVault(user) = IndexedVault(old) /\ IndexedVault(old).coll # 0
     /\ IndexedVault(old).coll = coll /\ IndexedVault(old).debt = debt

\* A liquidation or a redemption is the current one if it was, or if the operation says so.
RefersFor(x, y, op) ==
  /\ y.liquidation # Null => x.liquidation # Null \/ op \in Liquidations
  /\ y.redemption # Null => x.redemption # Null \/ IsRedemption(op)

\* Only the current liquidation and the current redemption differ.
SameButRefers(x, y) ==
  /\ y.states = x.states /\ y.price = x.price /\ y.changes = x.changes /\ y.written = x.written
  /\ y.transaction = x.transaction /\ y.users = x.users /\ y.failed = x.failed

\* The entity that a change refers to is looked up, or created for the transaction.
LEMMA RefersTo ==
  ASSUME NEW x \in IndexTypes, NEW tx \in Nat, NEW op \in Ops,
         x.liquidation \in {Null, tx}, x.redemption \in {Null, tx},
         NEW y, y = IF op \in Liquidations THEN GetCurrentLiquidation(x, tx)
                    ELSE IF IsRedemption(op) THEN GetCurrentRedemption(x, tx) ELSE x
  PROVE  /\ y \in IndexTypes /\ SameButRefers(x, y)
         /\ y.liquidation \in {Null, tx} /\ y.redemption \in {Null, tx}
         /\ RefersFor(x, y, op)
<1>1. x.liquidation \in Nat /\ x.redemption \in Nat
  BY IndexFields
<1>2. CASE op \in Liquidations
  <2> DEFINE t == IF x.liquidation = Null THEN tx ELSE x.liquidation
  <2>1. t \in Nat /\ t \in {Null, tx}
    BY <1>1
  <2>2. y = [x EXCEPT !.liquidation = t]
    BY <1>2 DEF GetCurrentLiquidation, IndexTypes
  <2> HIDE DEF t
  <2>3. y \in IndexTypes /\ SameButRefers(x, y) /\ y.liquidation = t /\ y.redemption = x.redemption
    BY <2>1, <2>2 DEF IndexTypes, SameButRefers
  <2> QED
    BY <1>2, <2>1, <2>3 DEF RefersFor
<1>3. CASE op \notin Liquidations /\ IsRedemption(op)
  <2> DEFINE t == IF x.redemption = Null THEN tx ELSE x.redemption
  <2>1. t \in Nat /\ t \in {Null, tx}
    BY <1>1
  <2>2. y = [x EXCEPT !.redemption = t]
    BY <1>3 DEF GetCurrentRedemption, IndexTypes
  <2> HIDE DEF t
  <2>3. y \in IndexTypes /\ SameButRefers(x, y) /\ y.redemption = t /\ y.liquidation = x.liquidation
    BY <2>1, <2>2 DEF IndexTypes, SameButRefers
  <2> QED
    BY <1>3, <2>1, <2>3 DEF RefersFor
<1>4. CASE op \notin Liquidations /\ ~IsRedemption(op)
  BY <1>4 DEF SameButRefers, RefersFor
<1> QED
  BY <1>2, <1>3, <1>4

\* updateVault.
LEMMA UpdateVaultKeeps ==
  ASSUME Handling, NEW x, Recording(x, 0), KnowsPrice(x), ~x.failed,
         NEW op \in Ops, NEW u \in Users, NEW coll \in Nat, NEW debt \in Nat, NEW snapshot \in Nat,
         HasCollateral(x.users[u]),
         NEW y, y = UpdateVault(x, nextTx, op, u, coll, debt, snapshot)
  PROVE  /\ Recording(y, 0) /\ KnowsPrice(y) /\ RefersFor(x, y, op)
         /\ OthersSame(x, y, u)
         /\ ~y.failed => HasCollateral(y.users[u]) /\ VaultOutcome(x.users[u], y.users[u], coll, debt, snapshot)
<1> DEFINE got == GetCurrentVaultOfOwner(x, u)
           b == BeginChange(got, nextTx)
           refers == IF op \in Liquidations THEN GetCurrentLiquidation(b.index, nextTx)
                     ELSE IF IsRedemption(op) THEN GetCurrentRedemption(b.index, nextTx)
                     ELSE b.index
           details == [kind |-> "vault",
                       liquidation |-> IF op \in Liquidations THEN refers.liquidation ELSE Null,
                       redemption |-> IF IsRedemption(op) THEN refers.redemption ELSE Null]
           r == Recorded(refers, b.number, details)
           phantom == x.users[u].currentVault # Null /\ ~x.users[u].vault.saved
<1>1. y = IF phantom THEN [x EXCEPT !.failed = TRUE]
          ELSE IF Unchanged(got.users[u].vault, coll, debt) THEN got
          ELSE SavedVault(r, u, op, coll, debt, snapshot)
  BY DEF UpdateVault
<1>2. x \in IndexTypes
  BY DEF Recording
<1>3. /\ got \in IndexTypes /\ SameRecord(x, got) /\ got.failed = x.failed /\ OthersSame(x, got, u)
      /\ got.users[u].currentVault # Null
      /\ got.users[u].vault = IF x.users[u].currentVault # Null THEN x.users[u].vault ELSE NoIndexedVault
  BY <1>2, GetCurrentVault
<1> HIDE DEF got
<1>4. Recording(got, 0) /\ KnowsPrice(got)
  BY <1>3, RecordKeeps
<1>5. CASE phantom
  <2>1. y = [x EXCEPT !.failed = TRUE]
    BY <1>1, <1>5
  <2>2. y \in IndexTypes /\ SameRecord(x, y) /\ y.failed /\ y.users = x.users
    BY <1>2, <2>1, FailedFields
  <2>3. Recording(y, 0) /\ KnowsPrice(y)
    BY <2>2, RecordKeeps
  <2> QED
    BY <2>2, <2>3 DEF SameRecord, OthersSame, RefersFor
<1>6. CASE ~phantom /\ Unchanged(got.users[u].vault, coll, debt)
  <2>1. y = got
    BY <1>1, <1>6
  <2>2. RefersFor(x, y, op)
    BY <1>3, <2>1 DEF SameRecord, RefersFor
  <2>3. CASE x.users[u].currentVault # Null
    <3>1. x.users[u].vault.saved /\ got.users[u].vault = x.users[u].vault
      BY <1>3, <1>6, <2>3
    <3>2. IndexedVault(got.users[u]) = IndexedVault(x.users[u])
      BY <1>3, <2>3, <3>1 DEF IndexedVault
    <3>3. IndexedVault(x.users[u]).coll = coll /\ IndexedVault(x.users[u]).debt = debt
      BY <1>6, <2>3, <3>1 DEF IndexedVault, Unchanged
    <3>4. HasCollateral(got.users[u]) /\ IndexedVault(x.users[u]).coll # 0
      BY <1>3, <2>3, <3>1, <3>2 DEF HasCollateral
    <3> QED
      BY <1>3, <1>4, <2>1, <2>2, <3>2, <3>3, <3>4 DEF VaultOutcome
  <2>4. CASE x.users[u].currentVault = Null
    <3>1. got.users[u].vault = NoIndexedVault
      BY <1>3, <2>4
    <3>2. IndexedVault(got.users[u]) = NoVault /\ coll = 0 /\ HasCollateral(got.users[u])
      BY <1>6, <3>1 DEF IndexedVault, Unchanged, NoIndexedVault, HasCollateral
    <3> QED
      BY <1>3, <1>4, <2>1, <2>2, <3>2 DEF VaultOutcome
  <2> QED
    BY <2>3, <2>4
<1>7. CASE ~phantom /\ ~Unchanged(got.users[u].vault, coll, debt)
  <2>1. y = SavedVault(r, u, op, coll, debt, snapshot)
    BY <1>1, <1>7
  <2>2. /\ Recording(b.index, 1) /\ KnowsPrice(b.index) /\ SameEntities(got, b.index)
        /\ b.index.transaction = nextTx
        /\ b.number = index.changes + Len(b.index.written)
    BY <1>4, BeginChangeKeeps
  <2> HIDE DEF b
  <2>3. /\ refers \in IndexTypes /\ SameButRefers(b.index, refers)
        /\ refers.liquidation \in {Null, nextTx} /\ refers.redemption \in {Null, nextTx}
        /\ RefersFor(b.index, refers, op)
    BY <2>2, HandlingTypes, RefersTo DEF Recording
  <2> HIDE DEF refers
  <2>4. Recording(refers, 1) /\ KnowsPrice(refers) /\ refers.transaction = nextTx
        /\ b.number = index.changes + Len(refers.written)
    BY <2>2, <2>3 DEF Recording, KnowsPrice, SameButRefers
  <2>5. /\ details.kind \in {"price", "vault", "deposit", "surplus"}
        /\ details.liquidation \in {Null, nextTx} /\ details.redemption \in {Null, nextTx}
    BY <2>3
  <2> HIDE DEF details
  <2>6. Recording(r, 0) /\ KnowsPrice(r) /\ SameEntities(refers, r)
    BY <2>4, <2>5, RecordedKeeps
  <2> HIDE DEF r
  <2>7. r \in IndexTypes /\ r.users = got.users /\ r.failed = got.failed
        /\ r.liquidation = refers.liquidation /\ r.redemption = refers.redemption
    BY <2>2, <2>3, <2>6 DEF Recording, SameEntities, SameButRefers
  <2>8. /\ y \in IndexTypes /\ SameRecord(r, y) /\ y.failed = r.failed /\ OthersSame(r, y, u)
        /\ HasCollateral(y.users[u])
        /\ IndexedVault(y.users[u]) =
              IF coll = 0 THEN NoVault ELSE [coll |-> coll, debt |-> debt, snapshot |-> snapshot]
    BY <1>3, <2>1, <2>7, VaultIsSaved
  <2>9. Recording(y, 0) /\ KnowsPrice(y)
    BY <2>6, <2>8, RecordKeeps
  <2>10. RefersFor(x, y, op)
    BY <1>3, <2>2, <2>3, <2>7, <2>8 DEF RefersFor, SameRecord, SameEntities
  <2>11. OthersSame(x, y, u)
    BY <1>3, <2>7, <2>8 DEF OthersSame
  <2>12. VaultOutcome(x.users[u], y.users[u], coll, debt, snapshot)
    BY <2>8 DEF VaultOutcome
  <2> QED
    BY <2>8, <2>9, <2>10, <2>11, <2>12
<1> QED
  BY <1>5, <1>6, <1>7

\* A handler that leaves the vaults and the current liquidation and redemption alone.
SameVaults(x, y) ==
  /\ \A w \in Users : y.users[w].currentVault = x.users[w].currentVault
                      /\ y.users[w].vault = x.users[w].vault
  /\ y.liquidation = x.liquidation /\ y.redemption = x.redemption

SameSurplus(x, y) == \A w \in Users : y.users[w].collSurplus = x.users[w].collSurplus

\* What a new record of u changes.
UserChanges(x, u, user, y) ==
  /\ y \in IndexTypes /\ SameRecord(x, y) /\ y.failed = x.failed
  /\ y.users[u] = user /\ \A w \in Users : w # u => y.users[w] = x.users[w]

\* A deposit is saved.
LEMMA DepositSetKeeps ==
  ASSUME Handling, NEW x, Recording(x, 0), KnowsPrice(x), NEW u \in Users, NEW amount \in Int,
         NEW y, y = DepositSet(x, nextTx, u, amount)
  PROVE  Recording(y, 0) /\ KnowsPrice(y) /\ SameVaults(x, y) /\ SameSurplus(x, y) /\ y.failed = x.failed
<1> DEFINE s == SaveChange(x, nextTx, PlainChange("deposit"))
           old == s.users[u]
           user == [old EXCEPT !.deposited = amount, !.hasDeposit = (amount # 0)]
<1>1. Recording(s, 0) /\ KnowsPrice(s) /\ SameEntities(x, s)
  BY SaveChangeKeeps
<1>2. y = [s EXCEPT !.users[u].deposited = amount, !.users[u].hasDeposit = (amount # 0)]
  BY DEF DepositSet
<1> HIDE DEF s
<1>3. s \in IndexTypes /\ s.users \in [Users -> IndexedUsers]
  BY <1>1, IndexFields DEF Recording
<1>4. old \in IndexedUsers
  BY <1>3
<1>5. y = WithUser(s, u, user)
  BY <1>2, <1>3, <1>4 DEF WithUser, IndexTypes, IndexedUsers
<1>6. /\ user \in IndexedUsers /\ user.collSurplus = old.collSurplus
      /\ user.currentVault = old.currentVault /\ user.vault = old.vault
  BY <1>4 DEF IndexedUsers
<1> HIDE DEF user
<1>7. /\ y \in IndexTypes /\ SameRecord(s, y) /\ y.failed = s.failed
      /\ y.users[u] = user /\ \A w \in Users : w # u => y.users[w] = s.users[w]
  <2>1. UserChanges(s, u, user, WithUser(s, u, user))
    BY <1>3, <1>6, UserFields DEF UserChanges
  <2> QED
    BY <1>5, <2>1 DEF UserChanges
<1>8. Recording(y, 0) /\ KnowsPrice(y)
  BY <1>1, <1>7, RecordKeeps
<1> QED
  BY <1>1, <1>6, <1>7, <1>8 DEF SameEntities, SameRecord, SameVaults, SameSurplus

\* updateStabilityDeposit.
LEMMA DepositKeeps ==
  ASSUME Handling, NEW x, Recording(x, 0), KnowsPrice(x), ~x.failed, NEW u \in Users, NEW amount \in Int,
         NEW y, y = UpdateStabilityDeposit(x, nextTx, u, amount)
  PROVE  Recording(y, 0) /\ KnowsPrice(y) /\ SameVaults(x, y) /\ SameSurplus(x, y) /\ y.failed = x.failed
<1>1. y = x \/ y = DepositSet(x, nextTx, u, amount)
  BY DEF UpdateStabilityDeposit
<1>2. CASE y = x
  BY <1>2 DEF SameVaults, SameSurplus
<1> QED
  BY <1>1, <1>2, DepositSetKeeps

\* withdrawCollateralGainFromStabilityDeposit.
LEMMA GainKeeps ==
  ASSUME Handling, NEW x, Recording(x, 0), KnowsPrice(x), ~x.failed, NEW u \in Users,
         NEW gain \in Int, NEW loss \in Int,
         NEW y, y = WithdrawCollateralGain(x, nextTx, u, gain, loss)
  PROVE  Recording(y, 0) /\ KnowsPrice(y) /\ SameVaults(x, y) /\ SameSurplus(x, y)
<1> DEFINE left == x.users[u].deposited - loss
<1>1. left \in Int
  <2>1. x.users \in [Users -> IndexedUsers]
    BY IndexFields DEF Recording
  <2>2. x.users[u] \in IndexedUsers
    BY <2>1
  <2> QED
    BY <2>2 DEF IndexedUsers
<1>2. y = x \/ y = [x EXCEPT !.failed = TRUE] \/ y = DepositSet(x, nextTx, u, left)
  BY DEF WithdrawCollateralGain
<1> HIDE DEF left
<1>3. CASE y = x
  BY <1>3 DEF SameVaults, SameSurplus
<1>4. CASE y = [x EXCEPT !.failed = TRUE]
  <2>1. x \in IndexTypes
    BY DEF Recording
  <2>2. y \in IndexTypes /\ SameRecord(x, y) /\ y.users = x.users
    BY <1>4, <2>1, FailedFields
  <2>3. Recording(y, 0) /\ KnowsPrice(y)
    BY <2>2, RecordKeeps
  <2> QED
    BY <2>2, <2>3 DEF SameVaults, SameSurplus, SameRecord
<1>5. CASE y = DepositSet(x, nextTx, u, left)
  BY <1>1, <1>5, DepositSetKeeps
<1> QED
  BY <1>2, <1>3, <1>4, <1>5

\* updateUserClaimColl.
LEMMA SurplusKeeps ==
  ASSUME Handling, NEW x, Recording(x, 0), KnowsPrice(x), ~x.failed, NEW u \in Users, NEW amount \in Int,
         NEW y, y = UpdateUserClaimColl(x, nextTx, u, amount)
  PROVE  /\ Recording(y, 0) /\ KnowsPrice(y) /\ SameVaults(x, y) /\ y.failed = x.failed
         /\ y.users[u].collSurplus = amount
         /\ \A w \in Users : w # u => y.users[w].collSurplus = x.users[w].collSurplus
<1>1. CASE x.users[u].collSurplus = amount
  BY <1>1 DEF UpdateUserClaimColl, SameVaults
<1>2. CASE x.users[u].collSurplus # amount
  <2> DEFINE s == SaveChange(x, nextTx, PlainChange("surplus"))
             old == s.users[u]
             user == [old EXCEPT !.collSurplus = amount]
  <2>1. Recording(s, 0) /\ KnowsPrice(s) /\ SameEntities(x, s)
    BY SaveChangeKeeps
  <2>2. y = [s EXCEPT !.users[u].collSurplus = amount]
    BY <1>2 DEF UpdateUserClaimColl
  <2> HIDE DEF s
  <2>3. s \in IndexTypes /\ s.users \in [Users -> IndexedUsers]
    BY <2>1, IndexFields DEF Recording
  <2>4. old \in IndexedUsers
    BY <2>3
  <2>5. y = WithUser(s, u, user)
    BY <2>2, <2>3, <2>4 DEF WithUser, IndexTypes, IndexedUsers
  <2>6. /\ user \in IndexedUsers /\ user.collSurplus = amount
        /\ user.currentVault = old.currentVault /\ user.vault = old.vault
    BY <2>4 DEF IndexedUsers
  <2> HIDE DEF user
  <2>7. /\ y \in IndexTypes /\ SameRecord(s, y) /\ y.failed = s.failed
        /\ y.users[u] = user /\ \A w \in Users : w # u => y.users[w] = s.users[w]
    <3>1. UserChanges(s, u, user, WithUser(s, u, user))
      BY <2>3, <2>6, UserFields DEF UserChanges
    <3> QED
      BY <2>5, <3>1 DEF UserChanges
  <2>8. Recording(y, 0) /\ KnowsPrice(y)
    BY <2>1, <2>7, RecordKeeps
  <2> QED
    BY <2>1, <2>6, <2>7, <2>8 DEF SameEntities, SameRecord, SameVaults
<1> QED
  BY <1>1, <1>2

-----------------------------------------------------------------------------
(* What every handler keeps. *)

\* The index as the handler finds it.
LEMMA ResumedIsRecording ==
  ASSUME Handling
  PROVE  /\ Recording(resumed, 0) /\ KnowsPrice(resumed) /\ ~resumed.failed
         /\ resumed.users = index.users
         /\ resumed.liquidation = index.liquidation /\ resumed.redemption = index.redemption
<1>1. index \in IndexTypes
  BY HandlingTypes
<1>2. /\ resumed \in IndexTypes /\ SameEntities(index, resumed) /\ resumed.written = <<>>
      /\ resumed.states = index.states /\ resumed.price = index.price
      /\ resumed.changes = index.changes /\ resumed.transaction = index.transaction
  <2>1. <<>> \in Seq(Changes)
    OBVIOUS
  <2> HIDE DEF Changes
  <2> QED
    BY <1>1, <2>1 DEF resumed, IndexTypes, SameEntities
<1>3. /\ Len(log) \in Nat /\ Len(log) > 0 /\ nextTx \in Nat /\ nextTx = log[1].tx
      /\ \A i \in 1..Len(log) : log[i].tx \in Nat
  BY HandlingTypes, LogTypes DEF Handling, SubgraphInv
<1>4. \A t \in Nat, name \in ClosingNames : EndIsLogged(t, name) => t = nextTx
  <2> SUFFICES ASSUME NEW t \in Nat, NEW name, EndIsLogged(t, name)
               PROVE  t = nextTx
    OBVIOUS
  <2>1. PICK j \in 1..Len(log) : log[j].tx = t
    BY DEF EndIsLogged
  <2>2. t <= log[1].tx
    BY <1>3 DEF EndIsLogged
  <2>3. log[1].tx <= log[j].tx
    <3>1. \A i, k \in 1..Len(log) : i < k => log[i].tx <= log[k].tx
      BY DEF Handling, SubgraphInv, LogIsOrdered
    <3> QED
      BY ONLY <1>3, <3>1
  <2> QED
    BY <1>3, <2>1, <2>2, <2>3
<1>5. index.liquidation \in {Null, nextTx} /\ index.redemption \in {Null, nextTx}
  <2>1. index.liquidation \in Nat /\ index.redemption \in Nat
    BY <1>1, IndexFields
  <2> QED
    BY <1>4, <2>1 DEF Handling, SubgraphInv, TemporariesInv, ClosingNames
<1>6. KnowsPrice(resumed)
  BY <1>2 DEF KnowsPrice, Handling, SubgraphInv, IndexIsBehind
<1>7. index.changes \in Nat
  BY <1>1, IndexFields
<1>8. Len(resumed.written) = 0 /\ IsChained(resumed.written) /\ OwnTemporaries(resumed.written)
  <2>1. Len(<<>>) = 0
    OBVIOUS
  <2> QED
    BY <1>2, <2>1 DEF IsChained, OwnTemporaries
<1>9. Recording(resumed, 0)
  BY <1>2, <1>5, <1>7, <1>8 DEF Recording, SameEntities
<1> QED
  BY <1>2, <1>6, <1>9 DEF SameEntities, Handling

\* The block after its next event, and the index x after its handler.
Handled(x) ==
  /\ index' = x /\ log' = Tail(log) /\ sealed' = (x.failed \/ Len(log) > 1)
  /\ UNCHANGED <<price, vaults, redistributed, deposits, surplus, transactions>>

\* The transaction ends with a later event.
EndsLater(name) == \E j \in 2..Len(log) : log[j].tx = nextTx /\ log[j].event.name = name

EndIsToCome(x) ==
  /\ x.liquidation # Null => EndsLater("Liquidation")
  /\ x.redemption # Null => EndsLater("Redemption")

\* What the handler does to the vault and the surplus of u.
UserFollows(x, u) ==
  LET new == IndexedVault(x.users[u])
  IN /\ HasCollateral(x.users[u])
     /\ IF IsVaultEvent(nextEvent, u)
        THEN /\ nextEvent.name = "VaultUpdated" /\ nextEvent.coll = vaults[u].coll
                /\ nextEvent.debt = vaults[u].debt => new = vaults[u]
             /\ new.coll > 0 => new.snapshot = vaults[u].snapshot
        ELSE new = IndexedVault(index.users[u])
     /\ x.users[u].collSurplus =
          IF IsSurplusEvent(nextEvent, u) THEN nextEvent.amount ELSE index.users[u].collSurplus

\* The log without its first event.
LEMMA LogShrinks ==
  ASSUME Handling, NEW x, Handled(x)
  PROVE  /\ log' \in Seq(LogEntries) /\ Len(log) \in Nat /\ Len(log) > 0 /\ Len(log') = Len(log) - 1
         /\ \A i \in 1..(Len(log) - 1) : log'[i] = log[i + 1]
         /\ log' # <<>> <=> Len(log) > 1
         /\ \A i \in 1..Len(log) : log[i].tx \in Nat
<1>1. ChainTypeInv /\ log \in Seq(LogEntries) /\ log # <<>> /\ log' = Tail(log)
  BY DEF Handling, SubgraphInv, ChainTypeInv, Handled
<1>2. /\ log' \in Seq(LogEntries) /\ Len(log) \in Nat /\ Len(log) > 0 /\ Len(log') = Len(log) - 1
      /\ \A i \in 1..(Len(log) - 1) : log'[i] = log[i + 1]
  <2> HIDE DEF LogEntries
  <2> QED
    BY ONLY <1>1, TailElems
<1>3. log' # <<>> <=> Len(log) > 1
  <2> DEFINE m == log'
  <2>1. m \in Seq(LogEntries) /\ Len(m) = Len(log) - 1 /\ Len(log) \in Nat
    BY <1>2
  <2>2. m # <<>> <=> Len(m) > 0
    <3> HIDE DEF m, LogEntries
    <3> QED
      BY ONLY <2>1
  <2> HIDE DEF m
  <2>3. m # <<>> <=> Len(log) > 1
    BY ONLY <2>1, <2>2
  <2> QED
    BY <2>3 DEF m
<1> QED
  BY <1>1, <1>2, <1>3, LogTypes

\* The order of the log, and the index behind it.
LEMMA OrderIsKept ==
  ASSUME Handling, NEW x, Handled(x), Recording(x, 0), KnowsPrice(x)
  PROVE  LogIsOrdered' /\ IndexIsBehind'
<1> DEFINE n == Len(log)
<1>1. /\ n \in Nat /\ n > 0 /\ Len(log') = n - 1
      /\ \A i \in 1..(n - 1) : log'[i] = log[i + 1]
      /\ log' # <<>> <=> n > 1
      /\ \A i \in 1..n : log[i].tx \in Nat
  BY LogShrinks
<1>2. /\ \A i \in 1..n : log[i].tx <= transactions
      /\ \A i, j \in 1..n : i < j => log[i].tx <= log[j].tx
      /\ \A i \in 1..n : \A name \in ClosingNames : EndedBy(log[i].event, name) =>
           \E j \in 1..n : i < j /\ log[j].tx = log[i].tx /\ log[j].event.name = name
  BY DEF Handling, SubgraphInv, LogIsOrdered
<1>3. /\ index' = x /\ price' = price /\ transactions' = transactions
      /\ sealed' = (x.failed \/ n > 1)
  BY DEF Handled
<1> HIDE DEF n
<1>4. LogIsOrdered'
  <2>1. \A i \in 1..(n - 1) : log'[i].tx <= transactions
    BY <1>1, <1>2
  <2>2. \A i, j \in 1..(n - 1) : i < j => log'[i].tx <= log'[j].tx
    <3> SUFFICES ASSUME NEW i \in 1..(n - 1), NEW j \in 1..(n - 1), i < j
                 PROVE  log'[i].tx <= log'[j].tx
      OBVIOUS
    <3>1. i + 1 \in 1..n /\ j + 1 \in 1..n /\ i + 1 < j + 1
      BY <1>1
    <3>2. log[i + 1].tx <= log[j + 1].tx
      BY ONLY <1>2, <3>1
    <3> QED
      BY ONLY <1>1, <3>2, i \in 1..(n - 1), j \in 1..(n - 1)
  <2>3. ASSUME NEW i \in 1..(n - 1), NEW name \in ClosingNames, EndedBy(log'[i].event, name)
        PROVE  \E j \in 1..(n - 1) : i < j /\ log'[j].tx = log'[i].tx /\ log'[j].event.name = name
    <3>1. i + 1 \in 1..n /\ log'[i] = log[i + 1]
      BY <1>1
    <3>2. EndedBy(log[i + 1].event, name)
      BY <2>3, <3>1
    <3>3. PICK k \in 1..n : i + 1 < k /\ log[k].tx = log[i + 1].tx /\ log[k].event.name = name
      BY ONLY <1>2, <3>1, <3>2, name \in ClosingNames
    <3>4. k - 1 \in 1..(n - 1) /\ i < k - 1 /\ log'[k - 1] = log[k]
      BY ONLY <1>1, <3>3, i \in 1..(n - 1), k \in 1..n
    <3> QED
      BY ONLY <3>1, <3>3, <3>4
  <2> QED
    BY <1>1, <1>3, <2>1, <2>2, <2>3 DEF LogIsOrdered
<1>5. /\ index.transaction \in Nat /\ index.transaction <= transactions
      /\ \A i \in 1..n : index.transaction <= log[i].tx
  <2>1. index.transaction \in Nat
    BY HandlingTypes, IndexFields
  <2> QED
    BY <2>1 DEF Handling, SubgraphInv, IndexIsBehind, n
<1>6. nextTx \in Nat /\ nextTx = log[1].tx /\ 1 \in 1..n
  BY <1>1, HandlingTypes DEF Handling
<1>7. x.transaction \in {index.transaction, nextTx} /\ (x.transaction = nextTx => x.price = price)
  BY DEF KnowsPrice
<1>8. x.transaction <= transactions
  BY <1>2, <1>5, <1>6, <1>7
<1>9. \A i \in 1..(n - 1) : nextTx <= log'[i].tx /\ index.transaction <= log'[i].tx /\ log'[i].tx \in Nat
  <2> SUFFICES ASSUME NEW i \in 1..(n - 1)
               PROVE  nextTx <= log'[i].tx /\ index.transaction <= log'[i].tx /\ log'[i].tx \in Nat
    OBVIOUS
  <2>1. i + 1 \in 1..n /\ 1 < i + 1 /\ log'[i] = log[i + 1]
    BY <1>1
  <2>2. log[1].tx <= log[i + 1].tx /\ index.transaction <= log[i + 1].tx /\ log[i + 1].tx \in Nat
    BY ONLY <1>1, <1>2, <1>5, <1>6, <2>1
  <2> QED
    BY <1>6, <2>1, <2>2
<1>10. \A i \in 1..(n - 1) : x.transaction <= log'[i].tx
  BY <1>7, <1>9
<1>11. n > 1 /\ x.transaction = log'[1].tx => x.price = price
  <2> SUFFICES ASSUME n > 1, x.transaction = log'[1].tx, x.transaction # nextTx
               PROVE  FALSE
    BY <1>7
  <2>1. 1 \in 1..(n - 1) /\ x.transaction = index.transaction
    BY <1>1, <1>7
  <2>2. nextTx <= x.transaction
    BY <1>9, <2>1
  <2>3. index.transaction <= nextTx
    BY <1>5, <1>6
  <2> QED
    BY <1>5, <1>6, <2>1, <2>2, <2>3
<1>12. ~sealed' => n - 1 = 0
  BY <1>1, <1>3
<1>13. IndexIsBehind'
  <2>1. index'.transaction <= transactions'
    BY <1>3, <1>8
  <2>2. \A i \in 1..Len(log') :
          IF sealed' THEN index'.transaction <= log'[i].tx ELSE index'.transaction < log'[i].tx
    BY ONLY <1>1, <1>3, <1>10, <1>12
  <2>3. sealed' /\ log' # <<>> /\ index'.transaction = log'[1].tx => index'.price = price'
    BY ONLY <1>1, <1>3, <1>11
  <2>4. (index'.failed => sealed') /\ (sealed' => log' # <<>> \/ index'.failed)
    BY ONLY <1>1, <1>3
  <2> QED
    BY ONLY <2>1, <2>2, <2>3, <2>4 DEF IndexIsBehind
<1> QED
  BY <1>4, <1>13

\* A current liquidation or redemption ends with a later event.
LEMMA TemporariesAreKept ==
  ASSUME Handling, NEW x, Handled(x), Recording(x, 0), ~x.failed => EndIsToCome(x)
  PROVE  TemporariesInv'
<1> DEFINE n == Len(log)
<1>1. /\ n \in Nat /\ n > 0 /\ Len(log') = n - 1
      /\ \A i \in 1..(n - 1) : log'[i] = log[i + 1]
      /\ \A i \in 1..n : log[i].tx \in Nat
  BY LogShrinks
<1>2. \A i, j \in 1..n : i < j => log[i].tx <= log[j].tx
  BY DEF Handling, SubgraphInv, LogIsOrdered
<1>3. index' = x /\ sealed' = (x.failed \/ n > 1)
  BY DEF Handled
<1>4. nextTx \in Nat /\ nextTx = log[1].tx
  BY HandlingTypes DEF Handling
<1> HIDE DEF n
<1>5. ASSUME NEW name, EndsLater(name)
      PROVE  /\ sealed'
             /\ \A i \in 1..Len(log') : nextTx <= log'[i].tx
             /\ \E k \in 1..Len(log') : log'[k].tx = nextTx /\ log'[k].event.name = name
  <2>1. PICK j \in 2..n : log[j].tx = nextTx /\ log[j].event.name = name
    BY <1>5 DEF EndsLater, n
  <2>2. n > 1 /\ j - 1 \in 1..(n - 1) /\ log'[j - 1] = log[j]
    BY <1>1
  <2>3. \A i \in 1..(n - 1) : nextTx <= log'[i].tx
    <3> SUFFICES ASSUME NEW i \in 1..(n - 1)
                 PROVE  nextTx <= log'[i].tx
      OBVIOUS
    <3>1. i + 1 \in 1..n /\ 1 \in 1..n /\ 1 < i + 1 /\ log'[i] = log[i + 1]
      BY <1>1
    <3> QED
      BY ONLY <1>2, <1>4, <3>1
  <2> QED
    BY <1>1, <1>3, <2>1, <2>2, <2>3
<1>6. CASE x.failed
  BY <1>3, <1>6 DEF TemporariesInv
<1>7. CASE ~x.failed
  <2> DEFINE t == nextTx
  <2>1. /\ x.liquidation # Null => x.liquidation = t /\ EndsLater("Liquidation")
        /\ x.redemption # Null => x.redemption = t /\ EndsLater("Redemption")
    BY <1>7 DEF EndIsToCome, Recording
  <2>2. \A name : EndsLater(name) =>
          /\ sealed'
          /\ \A i \in 1..Len(log') : t <= log'[i].tx
          /\ \E k \in 1..Len(log') : log'[k].tx = t /\ log'[k].event.name = name
    BY <1>5
  <2> HIDE DEF t
  <2>3. /\ index'.liquidation # Null =>
            /\ sealed'
            /\ \A i \in 1..Len(log') : index'.liquidation <= log'[i].tx
            /\ \E k \in 1..Len(log') : log'[k].tx = index'.liquidation /\ log'[k].event.name = "Liquidation"
        /\ index'.redemption # Null =>
            /\ sealed'
            /\ \A i \in 1..Len(log') : index'.redemption <= log'[i].tx
            /\ \E k \in 1..Len(log') : log'[k].tx = index'.redemption /\ log'[k].event.name = "Redemption"
    BY ONLY <1>3, <2>1, <2>2
  <2> QED
    BY ONLY <2>3 DEF TemporariesInv, EndIsLogged, Null
<1> QED
  BY <1>6, <1>7

\* The events that are left still lead from the index to the contracts.
LEMMA MatchIsKept ==
  ASSUME Handling, NEW x, Handled(x), Recording(x, 0),
         ~x.failed => \A u \in Users : UserFollows(x, u)
  PROVE  MatchInv'
<1> DEFINE es == EventsOf(log)
           ts == Tail(es)
<1>1. /\ log \in Seq(LogEntries) /\ log # <<>> /\ Len(log) \in Nat /\ Len(log) > 0
      /\ \A i \in 1..Len(log) : log[i].event \in ChainEvents
  BY LogTypes, LogShrinks DEF Handling, SubgraphInv, ChainTypeInv
<1>2. es \in Seq(ChainEvents) /\ Len(es) = Len(log) /\ es # <<>> /\ es[1] = nextEvent
  <2>1. es \in [1..Len(log) -> ChainEvents]
    <3> HIDE DEF ChainEvents
    <3> QED
      BY <1>1 DEF EventsOf
  <2>2. es \in Seq(ChainEvents) /\ Len(es) = Len(log)
    <3> DEFINE m == Len(log)
    <3>1. m \in Nat /\ es \in [1..m -> ChainEvents]
      BY <1>1, <2>1
    <3> HIDE DEF es, m, ChainEvents
    <3>2. es \in Seq(ChainEvents) /\ Len(es) = m
      BY ONLY <3>1
    <3> QED
      BY <3>2 DEF m
  <2>3. es[1] = nextEvent
    BY <1>1 DEF EventsOf, Handling
  <2> HIDE DEF es, ChainEvents
  <2> QED
    BY <1>1, <2>2, <2>3
<1>3. EventsOf(log') = ts
  <2>1. /\ Len(log') = Len(log) - 1 /\ \A i \in 1..(Len(log) - 1) : log'[i] = log[i + 1]
    BY LogShrinks
  <2>2. /\ ts \in Seq(ChainEvents) /\ Len(ts) = Len(log) - 1
        /\ \A i \in 1..(Len(log) - 1) : ts[i] = es[i + 1]
    <3> HIDE DEF es, ChainEvents
    <3> QED
      BY <1>2, TailElems
  <2>3. \A i \in 1..(Len(log) - 1) : ts[i] = log'[i].event
    <3>1. \A i \in 1..(Len(log) - 1) : i + 1 \in 1..Len(log)
      BY <1>1
    <3>2. \A i \in 1..Len(log) : es[i] = log[i].event
      BY DEF EventsOf
    <3> HIDE DEF es, ts
    <3> QED
      BY ONLY <2>1, <2>2, <3>1, <3>2
  <2> DEFINE m == Len(log) - 1
  <2>4. ts = [i \in 1..m |-> ts[i]]
    <3>1. ts \in Seq(ChainEvents) /\ Len(ts) = m
      BY <2>2
    <3> HIDE DEF ts, m, ChainEvents
    <3> QED
      BY ONLY <3>1
  <2> HIDE DEF es, ts
  <2> QED
    BY <2>1, <2>3, <2>4 DEF EventsOf
<1>4. Len(log) = 1 => \A u, a : VaultDiffers(ts, u, a)
  <2>1. Len(log) = 1 => Len(ts) = 0
    <3> HIDE DEF es, ChainEvents
    <3> QED
      BY <1>2, TailElems
  <2> HIDE DEF ts
  <2> QED
    BY <2>1 DEF VaultDiffers
<1>5. index' = x /\ vaults' = vaults /\ surplus' = surplus /\ sealed' = (x.failed \/ Len(log) > 1)
  BY DEF Handled
<1> HIDE DEF es, ts
<1>6. ~x.failed => sealed' \/ \A u, a : VaultDiffers(ts, u, a)
  <2>1. Len(log) = 1 \/ Len(log) > 1
    <3> DEFINE m == Len(log)
    <3>1. m \in Nat /\ m > 0
      BY <1>1
    <3> HIDE DEF m
    <3>2. m = 1 \/ m > 1
      BY ONLY <3>1
    <3> QED
      BY ONLY <3>2 DEF m
  <2> QED
    BY ONLY <1>4, <1>5, <2>1
<1>7. ASSUME ~x.failed, NEW u \in Users
      PROVE  LET new == IndexedVault(x.users[u])
             IN /\ HasCollateral(x.users[u])
                /\ VaultSettles(ts, u, new, vaults[u])
                /\ \/ VaultDiffers(ts, u, new)
                   \/ sealed' /\ (new.coll > 0 => new.snapshot = vaults[u].snapshot)
                /\ SurplusSettles(ts, u, x.users[u].collSurplus, surplus[u])
  <2> DEFINE old == IndexedVault(index.users[u])
             new == IndexedVault(x.users[u])
  <2>1. /\ VaultSettles(es, u, old, vaults[u])
        /\ \/ VaultDiffers(es, u, old)
           \/ sealed /\ (old.coll > 0 => old.snapshot = vaults[u].snapshot)
        /\ SurplusSettles(es, u, index.users[u].collSurplus, surplus[u])
    BY DEF Handling, SubgraphInv, MatchInv, es
  <2>2. /\ HasCollateral(x.users[u])
        /\ IF IsVaultEvent(nextEvent, u)
           THEN /\ nextEvent.name = "VaultUpdated" /\ nextEvent.coll = vaults[u].coll
                   /\ nextEvent.debt = vaults[u].debt => new = vaults[u]
                /\ new.coll > 0 => new.snapshot = vaults[u].snapshot
           ELSE new = old
        /\ x.users[u].collSurplus =
             IF IsSurplusEvent(nextEvent, u) THEN nextEvent.amount ELSE index.users[u].collSurplus
    BY <1>7 DEF UserFollows
  <2> HIDE DEF old, new
  <2>3. /\ VaultSettles(ts, u, new, vaults[u])
        /\ \/ VaultDiffers(ts, u, new)
           \/ sealed' /\ (new.coll > 0 => new.snapshot = vaults[u].snapshot)
    <3>1. CASE IsVaultEvent(nextEvent, u)
      <4>1. VaultSettles(ts, u, new, vaults[u])
        <5>1. /\ es[1].name = "VaultUpdated" /\ es[1].coll = vaults[u].coll
                 /\ es[1].debt = vaults[u].debt => new = vaults[u]
          BY <1>2, <2>2, <3>1
        <5>2. es \in Seq(ChainEvents) /\ es # <<>> /\ IsVaultEvent(es[1], u) /\ VaultSettles(es, u, old, vaults[u])
          BY <1>2, <2>1, <3>1
        <5> HIDE DEF ChainEvents
        <5>3. VaultSettles(Tail(es), u, new, vaults[u])
          BY ONLY <5>1, <5>2, TailOfOwn
        <5> QED
          BY <5>3 DEF ts
      <4> QED
        BY ONLY <1>7, <1>6, <2>2, <3>1, <4>1
    <3>2. CASE ~IsVaultEvent(nextEvent, u)
      <4>1. new = old
        BY <2>2, <3>2
      <4>2. es \in Seq(ChainEvents) /\ es # <<>> /\ ~IsVaultEvent(es[1], u) /\ VaultSettles(es, u, old, vaults[u])
        BY <1>2, <2>1, <3>2
      <4>3. VaultSettles(Tail(es), u, old, vaults[u]) /\ (VaultDiffers(es, u, old) => VaultDiffers(Tail(es), u, old))
        <5> HIDE DEF ChainEvents
        <5> QED
          BY ONLY <4>2, TailOfOther
      <4>4. VaultSettles(ts, u, old, vaults[u]) /\ (VaultDiffers(es, u, old) => VaultDiffers(ts, u, old))
        BY <4>3 DEF ts
      <4> QED
        BY ONLY <1>7, <1>6, <2>1, <4>1, <4>4
    <3> QED
      BY <3>1, <3>2
  <2>4. SurplusSettles(ts, u, x.users[u].collSurplus, surplus[u])
    <3>1. es \in Seq(ChainEvents) /\ es # <<>> /\ SurplusSettles(es, u, index.users[u].collSurplus, surplus[u])
      BY <1>2, <2>1
    <3>2. CASE IsSurplusEvent(nextEvent, u)
      <4>1. IsSurplusEvent(es[1], u) /\ (es[1].amount = surplus[u] => x.users[u].collSurplus = surplus[u])
        BY <1>2, <2>2, <3>2
      <4>2. SurplusSettles(Tail(es), u, x.users[u].collSurplus, surplus[u])
        <5> HIDE DEF ChainEvents
        <5> QED
          BY ONLY <3>1, <4>1, SurplusTailOfOwn
      <4> QED
        BY <4>2 DEF ts
    <3>3. CASE ~IsSurplusEvent(nextEvent, u)
      <4>1. ~IsSurplusEvent(es[1], u) /\ x.users[u].collSurplus = index.users[u].collSurplus
        BY <1>2, <2>2, <3>3
      <4>2. SurplusSettles(Tail(es), u, index.users[u].collSurplus, surplus[u])
        <5> HIDE DEF ChainEvents
        <5> QED
          BY ONLY <3>1, <4>1, SurplusTailOfOther
      <4> QED
        BY <4>1, <4>2 DEF ts
    <3> QED
      BY <3>2, <3>3
  <2> QED
    BY <2>2, <2>3, <2>4 DEF new
<1> QED
  BY <1>3, <1>5, <1>7 DEF MatchInv, HasCollateral

\* What a handler has to show.
LEMMA HandlerKeepsInv ==
  ASSUME Handling, NEW x, Handled(x), Recording(x, 0), KnowsPrice(x),
         ~x.failed => EndIsToCome(x),
         ~x.failed => \A u \in Users : UserFollows(x, u)
  PROVE  SubgraphInv' /\ IsChained(index'.written) /\ index'.changes = index.changes + Len(index'.written)
<1>1. index' = x
  BY DEF Handled
<1>2. x \in IndexTypes /\ OwnTemporaries(x.written) /\ IsChained(x.written)
      /\ x.changes = index.changes + Len(x.written) + 0
  BY DEF Recording
<1>3. x.changes = index.changes + Len(x.written)
  <2>1. index.changes \in Nat /\ Len(x.written) \in Nat
    BY <1>2, HandlingTypes, IndexFields
  <2> QED
    BY ONLY <1>2, <2>1
<1>4. ChainTypeInv'
  <2>1. log' \in Seq(LogEntries)
    BY LogShrinks
  <2>2. sealed' \in BOOLEAN
    <3>1. x.failed \in BOOLEAN
      BY <1>2, IndexFields
    <3> QED
      BY <3>1 DEF Handled
  <2>3. UNCHANGED <<price, vaults, redistributed, deposits, surplus, transactions>>
    BY DEF Handled
  <2>4. price \in Prices /\ LedgerTypeInv /\ transactions \in Nat
    BY DEF Handling, SubgraphInv, ChainTypeInv
  <2>5. LedgerTypeInv'
    BY <2>3, <2>4 DEF LedgerTypeInv
  <2> QED
    BY <2>1, <2>2, <2>3, <2>4, <2>5 DEF ChainTypeInv
<1>5. VaultsInv'
  BY DEF Handled, Handling, SubgraphInv, VaultsInv
<1>6. LogIsOrdered' /\ IndexIsBehind'
  BY OrderIsKept
<1>7. TemporariesInv' /\ MatchInv'
  BY TemporariesAreKept, MatchIsKept
<1>8. (index \in IndexTypes)' /\ OwnTemporaries(index.written)'
  <2>1. index' \in IndexTypes /\ OwnTemporaries(index'.written)
    BY <1>1, <1>2
  <2> QED
    BY <2>1 DEF IndexTypes, Changes, IndexedUsers, OwnTemporaries
<1>9. IsChained(index'.written) /\ index'.changes = index.changes + Len(index'.written)
  BY <1>1, <1>2, <1>3
<1> QED
  BY <1>4, <1>5, <1>6, <1>7, <1>8, <1>9 DEF SubgraphInv

\* The end of the head's transaction comes later, unless the head is that end.
LEMMA EndsAreLater ==
  ASSUME Handling
  PROVE  /\ index.liquidation # Null /\ nextEvent.name # "Liquidation" => EndsLater("Liquidation")
         /\ index.redemption # Null /\ nextEvent.name # "Redemption" => EndsLater("Redemption")
         /\ \A name \in ClosingNames : EndedBy(nextEvent, name) => EndsLater(name)
<1>1. Len(log) \in Nat /\ Len(log) > 0 /\ log[1].event = nextEvent /\ log[1].tx = nextTx
  BY HandlingTypes DEF Handling
<1>2. ASSUME NEW t, NEW name, EndIsLogged(t, name), t = nextTx, nextEvent.name # name
      PROVE  EndsLater(name)
  <2>1. PICK j \in 1..Len(log) : log[j].tx = t /\ log[j].event.name = name
    BY <1>2 DEF EndIsLogged
  <2>2. j # 1
    BY <1>1, <1>2, <2>1
  <2>3. j \in 2..Len(log)
    BY ONLY <1>1, <2>2, j \in 1..Len(log)
  <2> QED
    BY <1>2, <2>1, <2>3 DEF EndsLater
<1>3. index.liquidation \in {Null, nextTx} /\ index.redemption \in {Null, nextTx}
  BY ResumedIsRecording DEF Recording
<1>4. /\ index.liquidation # Null => EndIsLogged(index.liquidation, "Liquidation")
      /\ index.redemption # Null => EndIsLogged(index.redemption, "Redemption")
  BY DEF Handling, SubgraphInv, TemporariesInv
<1>5. ASSUME NEW name \in ClosingNames, EndedBy(nextEvent, name)
      PROVE  EndsLater(name)
  <2>1. \A i \in 1..Len(log) : \A w \in ClosingNames : EndedBy(log[i].event, w) =>
          \E j \in 1..Len(log) : i < j /\ log[j].tx = log[i].tx /\ log[j].event.name = w
    BY DEF Handling, SubgraphInv, LogIsOrdered
  <2>2. 1 \in 1..Len(log) /\ EndedBy(log[1].event, name)
    BY <1>1, <1>5
  <2>3. PICK j \in 1..Len(log) : 1 < j /\ log[j].tx = log[1].tx /\ log[j].event.name = name
    BY ONLY <2>1, <2>2, name \in ClosingNames
  <2>4. j \in 2..Len(log)
    BY ONLY <1>1, <2>3, j \in 1..Len(log)
  <2> QED
    BY <1>1, <2>3, <2>4 DEF EndsLater
<1> QED
  BY <1>2, <1>3, <1>4, <1>5

-----------------------------------------------------------------------------
(* The handlers. *)

\* What the name of the next event says of its fields.
LEMMA EventFields ==
  ASSUME Handling
  PROVE  /\ nextEvent.name \in VaultNames => /\ nextEvent.user \in Users /\ nextEvent.op \in Ops
                                             /\ nextEvent.coll \in Nat /\ nextEvent.debt \in Nat
         /\ nextEvent.name \in {"UserDepositChanged", "CollBalanceUpdated"} =>
              nextEvent.user \in Users /\ nextEvent.amount \in Int
         /\ nextEvent.name = "RBTCGainWithdrawn" =>
              nextEvent.user \in Users /\ nextEvent.gain \in Int /\ nextEvent.loss \in Int
<1> DEFINE e == nextEvent
<1>1. e \in ChainEvents
  BY HandlingTypes
<1> HIDE DEF e
<1>2. \/ e \in VaultEvents
      \/ e \in [name : {"UserDepositChanged", "CollBalanceUpdated"}, user : Users, amount : Int]
      \/ e \in [name : {"RBTCGainWithdrawn"}, user : Users, gain : Int, loss : Int]
      \/ e \in [name : ClosingNames]
  BY <1>1 DEF ChainEvents
<1>3. CASE e \in VaultEvents
  <2> HIDE DEF Ops
  <2> QED
    BY <1>3 DEF VaultEvents, VaultNames, e
<1>4. CASE e \in [name : {"UserDepositChanged", "CollBalanceUpdated"}, user : Users, amount : Int]
  BY <1>4 DEF VaultNames, e
<1>5. CASE e \in [name : {"RBTCGainWithdrawn"}, user : Users, gain : Int, loss : Int]
  BY <1>5 DEF VaultNames, e
<1>6. CASE e \in [name : ClosingNames]
  BY <1>6 DEF VaultNames, ClosingNames, e
<1> QED
  BY <1>2, <1>3, <1>4, <1>5, <1>6

\* A handler runs while the block is handled.
LEMMA HandlesIsHandling ==
  ASSUME SubgraphInv, NEW name, NEW x, Handles(name, x)
  PROVE  Handling /\ Handled(x) /\ nextEvent.name = name
<1>1. sealed /\ ~index.failed /\ log # <<>>
  BY DEF Handles, SubgraphInv, IndexIsBehind
<1>2. Head(log) = log[1]
  <2>1. log \in Seq(LogEntries)
    BY DEF SubgraphInv, ChainTypeInv
  <2> HIDE DEF LogEntries
  <2> QED
    BY ONLY <1>1, <2>1, TailElems
<1> QED
  BY <1>1, <1>2 DEF Handles, Handling, Handled, nextTx, nextEvent

\* The vaults of the index and of the contracts.
LEMMA VaultsOfBoth ==
  ASSUME Handling, NEW u \in Users
  PROVE  /\ vaults[u] \in VaultTypes /\ (vaults[u].coll = 0 => vaults[u] = NoVault)
         /\ index.users[u] \in IndexedUsers /\ IndexedVault(index.users[u]) \in VaultTypes
         /\ HasCollateral(index.users[u])
         /\ IsVaultEvent(nextEvent, u) /\ nextEvent.name = "VaultUpdated"
            /\ nextEvent.coll = IndexedVault(index.users[u]).coll
            /\ nextEvent.debt = IndexedVault(index.users[u]).debt /\ nextEvent.coll # 0 =>
              IndexedVault(index.users[u]).snapshot = vaults[u].snapshot
<1> DEFINE old == IndexedVault(index.users[u])
           es == EventsOf(log)
<1>1. vaults[u] \in VaultTypes /\ (vaults[u].coll = 0 => vaults[u] = NoVault)
  BY DEF Handling, SubgraphInv, ChainTypeInv, LedgerTypeInv, VaultsInv, VaultTypes
<1>2. index.users[u] \in IndexedUsers
  BY HandlingTypes, IndexFields
<1>3. old \in VaultTypes
  BY <1>2 DEF IndexedUsers, IndexedVault, NoVault, VaultTypes
<1>4. /\ index.users[u].currentVault # Null /\ index.users[u].vault.saved => old.coll # 0
      /\ \/ VaultDiffers(es, u, old)
         \/ sealed /\ (old.coll > 0 => old.snapshot = vaults[u].snapshot)
  BY DEF Handling, SubgraphInv, MatchInv
<1>5. Len(es) = Len(log) /\ Len(log) > 0 /\ Len(log) \in Nat /\ es[1] = nextEvent
  <2>1. Len(log) > 0 /\ Len(log) \in Nat
    BY HandlingTypes
  <2>2. es[1] = nextEvent
    BY <2>1 DEF EventsOf, Handling
  <2> QED
    BY <2>1, <2>2 DEF EventsOf
<1>6. HasCollateral(index.users[u])
  BY <1>4 DEF HasCollateral
<1> HIDE DEF old, es
<1>7. ASSUME IsVaultEvent(nextEvent, u), nextEvent.name = "VaultUpdated",
             nextEvent.coll = old.coll, nextEvent.debt = old.debt, nextEvent.coll # 0
      PROVE  old.snapshot = vaults[u].snapshot
  <2>1. old.coll > 0
    BY <1>3, <1>7 DEF VaultTypes
  <2>2. ~VaultDiffers(es, u, old)
    <3> SUFFICES ASSUME VaultDiffers(es, u, old)
                 PROVE  FALSE
      OBVIOUS
    <3>1. 1 \in 1..Len(es) /\ \A j \in 1..(1 - 1) : ~IsVaultEvent(es[j], u)
      BY <1>5
    <3>2. es[1].name = "VaultLiquidated" \/ es[1].coll # old.coll \/ es[1].debt # old.debt
      BY <1>5, <1>7, <2>1, <3>1 DEF VaultDiffers
    <3> QED
      BY <1>5, <1>7, <3>2
  <2> QED
    BY <1>4, <2>1, <2>2
<1> QED
  BY <1>1, <1>2, <1>3, <1>6, <1>7 DEF old

\* handleVaultUpdated.
LEMMA VaultUpdatedKeeps ==
  ASSUME SubgraphInv, HandleVaultUpdated
  PROVE  SubgraphInv' /\ IsChained(index'.written) /\ index'.changes = index.changes + Len(index'.written)
<1> DEFINE e == nextEvent
           u == e.user
           x == UpdateVault(resumed, nextTx, e.op, u, e.coll, e.debt, vaults[u].snapshot)
<1>1. Handling /\ Handled(x) /\ e.name = "VaultUpdated"
  BY HandlesIsHandling DEF HandleVaultUpdated
<1>2. u \in Users /\ e.op \in Ops /\ e.coll \in Nat /\ e.debt \in Nat
  BY <1>1, EventFields DEF VaultNames
<1>3. /\ Recording(resumed, 0) /\ KnowsPrice(resumed) /\ ~resumed.failed
      /\ resumed.users = index.users
      /\ resumed.liquidation = index.liquidation /\ resumed.redemption = index.redemption
  BY <1>1, ResumedIsRecording
<1>4. vaults[u] \in VaultTypes /\ HasCollateral(resumed.users[u])
  BY <1>1, <1>2, <1>3, VaultsOfBoth
<1>5. vaults[u].snapshot \in Nat
  BY <1>4 DEF VaultTypes
<1>6. /\ Recording(x, 0) /\ KnowsPrice(x) /\ RefersFor(resumed, x, e.op)
      /\ OthersSame(resumed, x, u)
      /\ ~x.failed => /\ HasCollateral(x.users[u])
                      /\ VaultOutcome(index.users[u], x.users[u], e.coll, e.debt, vaults[u].snapshot)
  BY <1>1, <1>2, <1>3, <1>4, <1>5, UpdateVaultKeeps
<1> HIDE DEF x
<1>7. EndIsToCome(x)
  BY <1>1, <1>3, <1>6, EndsAreLater DEF EndIsToCome, RefersFor, EndedBy, VaultNames, ClosingNames
<1>8. ASSUME ~x.failed, NEW w \in Users
      PROVE  UserFollows(x, w)
  <2>1. ~IsSurplusEvent(e, w) /\ x.users[w].collSurplus = index.users[w].collSurplus
    BY <1>1, <1>3, <1>6 DEF IsSurplusEvent, OthersSame
  <2>2. CASE w # u
    BY <1>1, <1>3, <1>6, <2>1, <2>2, VaultsOfBoth DEF UserFollows, OthersSame, IsVaultEvent
  <2>3. CASE w = u
    <3> DEFINE new == IndexedVault(x.users[u])
               old == IndexedVault(index.users[u])
    <3>1. \/ e.coll # 0 /\ new = [coll |-> e.coll, debt |-> e.debt, snapshot |-> vaults[u].snapshot]
          \/ e.coll = 0 /\ new = NoVault
          \/ new = old /\ old.coll # 0 /\ old.coll = e.coll /\ old.debt = e.debt
      BY <1>6, <1>8 DEF VaultOutcome
    <3>2. /\ vaults[u] \in VaultTypes /\ (vaults[u].coll = 0 => vaults[u] = NoVault) /\ old \in VaultTypes
          /\ e.coll = old.coll /\ e.debt = old.debt /\ e.coll # 0 => old.snapshot = vaults[u].snapshot
      BY <1>1, <1>2, VaultsOfBoth DEF IsVaultEvent, VaultNames
    <3> HIDE DEF new, old
    <3>3. /\ e.coll = vaults[u].coll /\ e.debt = vaults[u].debt => new = vaults[u]
          /\ new.coll > 0 => new.snapshot = vaults[u].snapshot
      BY ONLY <3>1, <3>2 DEF VaultTypes, NoVault
    <3>4. IsVaultEvent(e, u)
      BY <1>1 DEF IsVaultEvent, VaultNames
    <3> QED
      BY <1>6, <1>8, <2>1, <2>3, <3>3, <3>4 DEF UserFollows, new
  <2> QED
    BY <2>2, <2>3
<1> QED
  BY <1>1, <1>6, <1>7, <1>8, HandlerKeepsInv

\* handleVaultLiquidated: the rewards are applied, then the vault is emptied.
LEMMA VaultLiquidatedKeeps ==
  ASSUME SubgraphInv, HandleVaultLiquidated
  PROVE  SubgraphInv' /\ IsChained(index'.written) /\ index'.changes = index.changes + Len(index'.written)
<1> DEFINE e == nextEvent
           u == e.user
           accrued == UpdateVault(resumed, nextTx, "accrueRewards", u, e.coll, e.debt, 0)
           emptied == UpdateVault(accrued, nextTx, e.op, u, 0, 0, 0)
           x == IF accrued.failed THEN accrued ELSE emptied
<1>1. Handling /\ Handled(x) /\ e.name = "VaultLiquidated"
  BY HandlesIsHandling DEF HandleVaultLiquidated
<1>2. u \in Users /\ e.op \in Ops /\ e.coll \in Nat /\ e.debt \in Nat
  BY <1>1, EventFields DEF VaultNames
<1>3. /\ Recording(resumed, 0) /\ KnowsPrice(resumed) /\ ~resumed.failed
      /\ resumed.users = index.users
      /\ resumed.liquidation = index.liquidation /\ resumed.redemption = index.redemption
  BY <1>1, ResumedIsRecording
<1>4. HasCollateral(resumed.users[u])
  BY <1>1, <1>2, <1>3, VaultsOfBoth
<1>5. "accrueRewards" \in Ops /\ "accrueRewards" \notin Liquidations /\ ~IsRedemption("accrueRewards")
  BY DEF Ops, Liquidations, IsRedemption
<1>6. /\ Recording(accrued, 0) /\ KnowsPrice(accrued) /\ RefersFor(resumed, accrued, "accrueRewards")
      /\ OthersSame(resumed, accrued, u)
      /\ ~accrued.failed => HasCollateral(accrued.users[u])
  BY <1>1, <1>2, <1>3, <1>4, <1>5, UpdateVaultKeeps
<1> HIDE DEF accrued
<1>7. CASE accrued.failed
  <2>1. x = accrued
    BY <1>7
  <2> QED
    BY <1>1, <1>6, <1>7, <2>1, HandlerKeepsInv
<1>8. CASE ~accrued.failed
  <2>1. x = emptied
    BY <1>8
  <2>2. /\ Recording(emptied, 0) /\ KnowsPrice(emptied) /\ RefersFor(accrued, emptied, e.op)
        /\ OthersSame(accrued, emptied, u)
        /\ ~emptied.failed => /\ HasCollateral(emptied.users[u])
                              /\ VaultOutcome(accrued.users[u], emptied.users[u], 0, 0, 0)
    BY <1>1, <1>2, <1>6, <1>8, UpdateVaultKeeps
  <2> HIDE DEF emptied
  <2>3. EndIsToCome(x)
    BY <1>1, <1>3, <1>5, <1>6, <2>1, <2>2, EndsAreLater
       DEF EndIsToCome, RefersFor, EndedBy, VaultNames, ClosingNames
  <2>4. ASSUME ~x.failed, NEW w \in Users
        PROVE  UserFollows(x, w)
    <3>1. ~IsSurplusEvent(e, w) /\ x.users[w].collSurplus = index.users[w].collSurplus
      BY <1>1, <1>3, <1>6, <2>1, <2>2 DEF IsSurplusEvent, OthersSame
    <3>2. CASE w # u
      BY <1>1, <1>3, <1>6, <2>1, <2>2, <3>1, <3>2, VaultsOfBoth DEF UserFollows, OthersSame, IsVaultEvent
    <3>3. CASE w = u
      <4>1. IndexedVault(x.users[u]) = NoVault
        BY <2>1, <2>2, <2>4 DEF VaultOutcome
      <4>2. IsVaultEvent(e, u)
        BY <1>1 DEF IsVaultEvent, VaultNames
      <4>3. HasCollateral(x.users[u])
        BY <2>1, <2>2, <2>4
      <4> QED
        BY <1>1, <3>1, <3>3, <4>1, <4>2, <4>3 DEF UserFollows, NoVault
    <3> QED
      BY <3>2, <3>3
  <2> QED
    BY <1>1, <2>1, <2>2, <2>3, <2>4, HandlerKeepsInv
<1> QED
  BY <1>7, <1>8

\* The users are the same after an event that is no vault's and no surplus's.
LEMMA SameUsersFollow ==
  ASSUME Handling, nextEvent.name \notin VaultNames, nextEvent.name # "CollBalanceUpdated",
         NEW z, SameVaults(index, z), SameSurplus(index, z), NEW x, x.users = z.users
  PROVE  \A u \in Users : UserFollows(x, u)
<1> SUFFICES ASSUME NEW u \in Users
             PROVE  UserFollows(x, u)
  OBVIOUS
<1>1. ~IsVaultEvent(nextEvent, u) /\ ~IsSurplusEvent(nextEvent, u)
  BY DEF IsVaultEvent, IsSurplusEvent
<1>2. HasCollateral(index.users[u])
  BY VaultsOfBoth
<1>3. /\ x.users[u].currentVault = index.users[u].currentVault
      /\ x.users[u].vault = index.users[u].vault
      /\ x.users[u].collSurplus = index.users[u].collSurplus
  BY DEF SameVaults, SameSurplus
<1> QED
  BY <1>1, <1>2, <1>3 DEF UserFollows, IndexedVault, HasCollateral

\* handleLiquidation and handleRedemption end what is current.
LEMMA LiquidationKeeps ==
  ASSUME SubgraphInv, HandleLiquidation \/ HandleRedemption
  PROVE  SubgraphInv' /\ IsChained(index'.written) /\ index'.changes = index.changes + Len(index'.written)
<1> DEFINE e == nextEvent
           known == GetTransaction(resumed, nextTx)
<1>1. ASSUME Handling, NEW z, z = known \/ z = resumed
      PROVE  /\ Recording(z, 0) /\ KnowsPrice(z) /\ SameVaults(index, z) /\ SameSurplus(index, z)
             /\ z \in IndexTypes
  <2>1. /\ Recording(resumed, 0) /\ KnowsPrice(resumed)
        /\ resumed.users = index.users
        /\ resumed.liquidation = index.liquidation /\ resumed.redemption = index.redemption
    BY <1>1, ResumedIsRecording
  <2>2. Recording(known, 0) /\ KnowsPrice(known) /\ SameEntities(resumed, known)
    BY <1>1, <2>1, GetTransactionKeeps
  <2> HIDE DEF known
  <2> QED
    BY <1>1, <2>1, <2>2 DEF SameEntities, SameVaults, SameSurplus, Recording
<1> HIDE DEF known
<1>2. CASE HandleLiquidation
  <2> DEFINE z == IF index.liquidation = Null THEN known ELSE resumed
             x == FinishCurrentLiquidation(z)
  <2>1. Handling /\ Handled(x) /\ e.name = "Liquidation"
    BY <1>2, HandlesIsHandling DEF HandleLiquidation, known
  <2>2. Recording(z, 0) /\ KnowsPrice(z) /\ SameVaults(index, z) /\ SameSurplus(index, z) /\ z \in IndexTypes
    BY <1>1, <2>1
  <2> HIDE DEF z
  <2>3. /\ x \in IndexTypes /\ SameButRefers(z, x) /\ x.liquidation = Null /\ x.redemption = z.redemption
    BY <2>2 DEF FinishCurrentLiquidation, GetCurrentLiquidation, IndexTypes, SameButRefers, Null
  <2> HIDE DEF x
  <2>4. Recording(x, 0) /\ KnowsPrice(x)
    BY <2>2, <2>3 DEF Recording, KnowsPrice, SameButRefers
  <2>5. EndIsToCome(x)
    BY <2>1, <2>2, <2>3, EndsAreLater DEF EndIsToCome, SameVaults
  <2>6. \A u \in Users : UserFollows(x, u)
    <3>1. x.users = z.users
      BY <2>3 DEF SameButRefers
    <3> QED
      BY <2>1, <2>2, <3>1, SameUsersFollow DEF VaultNames
  <2> QED
    BY <2>1, <2>4, <2>5, <2>6, HandlerKeepsInv
<1>3. CASE HandleRedemption
  <2> DEFINE z == IF index.redemption = Null THEN known ELSE resumed
             x == FinishCurrentRedemption(z)
  <2>1. Handling /\ Handled(x) /\ e.name = "Redemption"
    BY <1>3, HandlesIsHandling DEF HandleRedemption, known
  <2>2. Recording(z, 0) /\ KnowsPrice(z) /\ SameVaults(index, z) /\ SameSurplus(index, z) /\ z \in IndexTypes
    BY <1>1, <2>1
  <2> HIDE DEF z
  <2>3. /\ x \in IndexTypes /\ SameButRefers(z, x) /\ x.redemption = Null /\ x.liquidation = z.liquidation
    BY <2>2 DEF FinishCurrentRedemption, GetCurrentRedemption, IndexTypes, SameButRefers, Null
  <2> HIDE DEF x
  <2>4. Recording(x, 0) /\ KnowsPrice(x)
    BY <2>2, <2>3 DEF Recording, KnowsPrice, SameButRefers
  <2>5. EndIsToCome(x)
    BY <2>1, <2>2, <2>3, EndsAreLater DEF EndIsToCome, SameVaults
  <2>6. \A u \in Users : UserFollows(x, u)
    <3>1. x.users = z.users
      BY <2>3 DEF SameButRefers
    <3> QED
      BY <2>1, <2>2, <3>1, SameUsersFollow DEF VaultNames
  <2> QED
    BY <2>1, <2>4, <2>5, <2>6, HandlerKeepsInv
<1> QED
  BY <1>2, <1>3

\* handleUserDepositChanged and handleRBTCGainWithdrawn concern deposits only.
LEMMA DepositsKeep ==
  ASSUME SubgraphInv, HandleUserDepositChanged \/ HandleRBTCGainWithdrawn
  PROVE  SubgraphInv' /\ IsChained(index'.written) /\ index'.changes = index.changes + Len(index'.written)
<1> DEFINE e == nextEvent
           u == e.user
           set == UpdateStabilityDeposit(resumed, nextTx, u, e.amount)
           withdrawn == WithdrawCollateralGain(resumed, nextTx, u, e.gain, e.loss)
<1>1. ASSUME Handling, NEW x, Handled(x), e.name \in {"UserDepositChanged", "RBTCGainWithdrawn"},
             Recording(x, 0), KnowsPrice(x), SameVaults(resumed, x), SameSurplus(resumed, x)
      PROVE  SubgraphInv' /\ IsChained(index'.written) /\ index'.changes = index.changes + Len(index'.written)
  <2>1. SameVaults(index, x) /\ SameSurplus(index, x)
    BY <1>1, ResumedIsRecording DEF SameVaults, SameSurplus
  <2>2. EndIsToCome(x)
    BY <1>1, <2>1, EndsAreLater DEF EndIsToCome, SameVaults
  <2>3. \A w \in Users : UserFollows(x, w)
    BY <1>1, <2>1, SameUsersFollow DEF VaultNames
  <2> QED
    BY <1>1, <2>2, <2>3, HandlerKeepsInv
<1>2. CASE HandleUserDepositChanged
  <2>1. Handling /\ Handled(set) /\ e.name = "UserDepositChanged"
    BY <1>2, HandlesIsHandling DEF HandleUserDepositChanged
  <2>2. u \in Users /\ e.amount \in Int
    BY <2>1, EventFields
  <2>3. Recording(set, 0) /\ KnowsPrice(set) /\ SameVaults(resumed, set) /\ SameSurplus(resumed, set)
    BY <2>1, <2>2, ResumedIsRecording, DepositKeeps
  <2> HIDE DEF set
  <2> QED
    BY <1>1, <2>1, <2>3
<1>3. CASE HandleRBTCGainWithdrawn
  <2>1. Handling /\ Handled(withdrawn) /\ e.name = "RBTCGainWithdrawn"
    BY <1>3, HandlesIsHandling DEF HandleRBTCGainWithdrawn
  <2>2. u \in Users /\ e.gain \in Int /\ e.loss \in Int
    BY <2>1, EventFields
  <2>3. /\ Recording(withdrawn, 0) /\ KnowsPrice(withdrawn)
        /\ SameVaults(resumed, withdrawn) /\ SameSurplus(resumed, withdrawn)
    BY <2>1, <2>2, ResumedIsRecording, GainKeeps
  <2> HIDE DEF withdrawn
  <2> QED
    BY <1>1, <2>1, <2>3
<1> QED
  BY <1>2, <1>3

\* handleCollSurplusBalanceUpdated.
LEMMA BalanceUpdatedKeeps ==
  ASSUME SubgraphInv, HandleCollSurplusBalanceUpdated
  PROVE  SubgraphInv' /\ IsChained(index'.written) /\ index'.changes = index.changes + Len(index'.written)
<1> DEFINE e == nextEvent
           u == e.user
           x == UpdateUserClaimColl(resumed, nextTx, u, e.amount)
<1>1. Handling /\ Handled(x) /\ e.name = "CollBalanceUpdated"
  BY HandlesIsHandling DEF HandleCollSurplusBalanceUpdated
<1>2. u \in Users /\ e.amount \in Int
  BY <1>1, EventFields
<1>3. /\ Recording(x, 0) /\ KnowsPrice(x) /\ SameVaults(resumed, x)
      /\ x.users[u].collSurplus = e.amount
      /\ \A w \in Users : w # u => x.users[w].collSurplus = resumed.users[w].collSurplus
  BY <1>1, <1>2, ResumedIsRecording, SurplusKeeps
<1> HIDE DEF x
<1>4. /\ SameVaults(index, x)
      /\ \A w \in Users : w # u => x.users[w].collSurplus = index.users[w].collSurplus
  BY <1>1, <1>3, ResumedIsRecording DEF SameVaults
<1>5. EndIsToCome(x)
  BY <1>1, <1>4, EndsAreLater DEF EndIsToCome, SameVaults
<1>6. ASSUME NEW w \in Users
      PROVE  UserFollows(x, w)
  <2>1. ~IsVaultEvent(e, w) /\ (IsSurplusEvent(e, w) <=> w = u)
    BY <1>1 DEF IsVaultEvent, VaultNames, IsSurplusEvent
  <2>2. HasCollateral(index.users[w])
    BY <1>1, VaultsOfBoth
  <2>3. /\ x.users[w].currentVault = index.users[w].currentVault
        /\ x.users[w].vault = index.users[w].vault
    BY <1>4 DEF SameVaults
  <2>4. HasCollateral(x.users[w]) /\ IndexedVault(x.users[w]) = IndexedVault(index.users[w])
    BY <2>2, <2>3 DEF HasCollateral, IndexedVault
  <2>5. x.users[w].collSurplus = IF IsSurplusEvent(e, w) THEN e.amount ELSE index.users[w].collSurplus
    BY <1>3, <1>4, <2>1
  <2> QED
    BY <2>1, <2>4, <2>5 DEF UserFollows
<1> QED
  BY <1>1, <1>3, <1>5, <1>6, HandlerKeepsInv

-----------------------------------------------------------------------------
(* The theorems. *)

\* The first state.
LEMMA SubgraphInit ==
  ASSUME InitIndex
  PROVE  SubgraphInv
<1>1. InitChain
  BY DEF InitIndex
<1>2. index = [states |-> 0, price |-> InitialPrice, changes |-> 0, transaction |-> Null,
               liquidation |-> Null, redemption |-> Null, open |-> 0,
               users |-> [u \in Users |-> NewUser], written |-> <<>>, failed |-> FALSE]
  BY DEF InitIndex
<1>3. log = <<>> /\ transactions = 0 /\ sealed = FALSE
  BY <1>1 DEF InitChain
<1>4. log \in Seq(LogEntries) /\ Len(log) = 0
  <2> HIDE DEF LogEntries
  <2> QED
    BY <1>3
<1>5. LedgerTypeInv /\ VaultsInv
  BY <1>1 DEF InitChain, LedgerTypeInv, VaultsInv, NoVault, NoDeposit
<1>6. ChainTypeInv
  <2>1. price \in Prices
    BY <1>1 DEF InitChain
  <2>2. transactions \in Nat
    BY ONLY <1>3
  <2>3. sealed \in BOOLEAN
    BY ONLY <1>3, Zenon
  <2> QED
    BY ONLY <1>4, <1>5, <2>1, <2>2, <2>3 DEF ChainTypeInv
<1>7. index \in IndexTypes
  <2>1. NewUser \in IndexedUsers
    BY DEF NewUser, IndexedUsers, NoIndexedVault, Null
  <2>2. [u \in Users |-> NewUser] \in [Users -> IndexedUsers]
    BY <2>1
  <2>3. <<>> \in Seq(Changes)
    OBVIOUS
  <2> HIDE DEF IndexedUsers, Changes
  <2> QED
    BY <1>2, <2>2, <2>3 DEF IndexTypes, Null
<1>8. LogIsOrdered /\ TemporariesInv
  BY <1>2, <1>4 DEF LogIsOrdered, TemporariesInv
<1>9. IndexIsBehind
  BY <1>2, <1>3, <1>4 DEF IndexIsBehind, Null
<1>10. OwnTemporaries(index.written)
  <2>1. Len(<<>>) = 0
    OBVIOUS
  <2> QED
    BY <1>2, <2>1 DEF OwnTemporaries
<1>11. MatchInv
  <2>1. Len(EventsOf(log)) = 0
    BY <1>4 DEF EventsOf
  <2>2. \A u \in Users : /\ index.users[u].currentVault = Null /\ IndexedVault(index.users[u]) = NoVault
                         /\ index.users[u].collSurplus = 0 /\ vaults[u] = NoVault /\ surplus[u] = 0
    BY <1>1, <1>2 DEF InitChain, NewUser, IndexedVault
  <2> QED
    BY <2>1, <2>2 DEF MatchInv, VaultSettles, VaultDiffers, SurplusSettles
<1> QED
  BY <1>5, <1>6, <1>7, <1>8, <1>9, <1>10, <1>11 DEF SubgraphInv

\* Every step.
LEMMA SubgraphStep ==
  ASSUME SubgraphInv, IndexNext
  PROVE  /\ SubgraphInv'
         /\ \/ UNCHANGED index
            \/ IsChained(index'.written) /\ index'.changes = index.changes + Len(index'.written)
<1>1. CASE ChainStep /\ UNCHANGED index
  BY <1>1, ChainKeepsInv
<1>2. CASE HandleVaultUpdated
  BY <1>2, VaultUpdatedKeeps
<1>3. CASE HandleVaultLiquidated
  BY <1>3, VaultLiquidatedKeeps
<1>4. CASE HandleLiquidation \/ HandleRedemption
  BY <1>4, LiquidationKeeps
<1>5. CASE HandleUserDepositChanged \/ HandleRBTCGainWithdrawn
  BY <1>5, DepositsKeep
<1>6. CASE HandleCollSurplusBalanceUpdated
  BY <1>6, BalanceUpdatedKeeps
<1> QED
  BY <1>1, <1>2, <1>3, <1>4, <1>5, <1>6 DEF IndexNext

\* The index, its temporary entities and its current vaults stay consistent with the events
\* that are still to be handled, whatever the contracts emit and wherever blocks end.
THEOREM SubgraphInvHolds == IndexSpec => []SubgraphInv
<1>1. InitIndex => SubgraphInv
  BY SubgraphInit
<1>2. SubgraphInv /\ [IndexNext]_indexVars => SubgraphInv'
  <2> SUFFICES ASSUME SubgraphInv, [IndexNext]_indexVars
               PROVE  SubgraphInv'
    OBVIOUS
  <2>1. CASE IndexNext
    BY <2>1, SubgraphStep
  <2>2. CASE UNCHANGED indexVars
    BY <2>2 DEF indexVars, chainVars, SubgraphInv, ChainTypeInv, LedgerTypeInv, VaultsInv, LogIsOrdered,
                IndexIsBehind, TemporariesInv, EndIsLogged, MatchInv
  <2> QED
    BY <2>1, <2>2
<1> QED
  BY <1>1, <1>2, PTL DEF IndexSpec

\* Between blocks there is no current liquidation and no current redemption, and a change
\* refers to those of its own transaction (getCurrentLiquidation, finishCurrentLiquidation).
THEOREM TemporariesAreClearedHolds == IndexSpec => []TemporariesAreCleared
<1>1. SubgraphInv => TemporariesAreCleared
  <2> SUFFICES ASSUME SubgraphInv
               PROVE  TemporariesAreCleared
    OBVIOUS
  <2>1. OwnTemporaries(index.written)
    BY DEF SubgraphInv
  <2>2. ~sealed => index.liquidation = Null /\ index.redemption = Null
    BY DEF SubgraphInv, IndexIsBehind, TemporariesInv
  <2> QED
    BY <2>1, <2>2 DEF TemporariesAreCleared, OwnTemporaries
<1> QED
  BY <1>1, SubgraphInvHolds, PTL

\* Between blocks the index has the contracts' vaults, reward snapshots and surplus
\* (updateVault, updateUserClaimColl).
THEOREM IndexMatchesContractsHolds == IndexSpec => []IndexMatchesContracts
<1>1. SubgraphInv => IndexMatchesContracts
  <2> SUFFICES ASSUME SubgraphInv, log = <<>>, ~index.failed, NEW u \in Users
               PROVE  LET user == index.users[u]
                          open == user.currentVault # Null /\ user.vault.saved
                      IN /\ user.collSurplus = surplus[u]
                         /\ open <=> u \in Active
                         /\ open => /\ user.vault.coll = vaults[u].coll /\ user.vault.debt = vaults[u].debt
                                    /\ user.vault.snapshot = vaults[u].snapshot
    BY DEF IndexMatchesContracts
  <2> DEFINE user == index.users[u]
             open == user.currentVault # Null /\ user.vault.saved
             old == IndexedVault(user)
  <2>1. Len(EventsOf(log)) = 0
    <3>1. Len(<<>>) = 0
      OBVIOUS
    <3> QED
      BY <3>1 DEF EventsOf
  <2>2. /\ open => old.coll # 0
        /\ old = vaults[u] /\ user.collSurplus = surplus[u]
    BY <2>1 DEF SubgraphInv, MatchInv, VaultSettles, SurplusSettles
  <2>3. vaults[u].coll \in Nat
    BY DEF SubgraphInv, ChainTypeInv, LedgerTypeInv
  <2>4. ~open => vaults[u].coll = 0
    BY <2>2 DEF IndexedVault, NoVault
  <2>5. open => /\ user.vault.coll = vaults[u].coll /\ user.vault.debt = vaults[u].debt
                /\ user.vault.snapshot = vaults[u].snapshot
    BY <2>2 DEF IndexedVault
  <2>6. open <=> u \in Active
    BY <2>2, <2>3, <2>4 DEF Active
  <2> QED
    BY <2>2, <2>5, <2>6
<1> QED
  BY <1>1, SubgraphInvHolds, PTL

\* The changes that a handler saves are the steps from the system state of the last change
\* before it to the next, in order and at the block's price (initChange, finishChange).
THEOREM ChangesAreChainedHolds == IndexSpec => ChangesAreChained
<1>1. SubgraphInv /\ [IndexNext]_indexVars =>
        [ \A i \in 1..Len(index'.written) :
            LET change == index'.written[i]
            IN /\ change.sequenceNumber = index.changes + i - 1
               /\ change.before = CurrentSystemState(WithSystemState(index)) + i - 1
               /\ change.after = change.before + 1
               /\ change.price = price
               /\ index'.changes = index.changes + Len(index'.written) ]_index
  <2> SUFFICES ASSUME SubgraphInv, IndexNext, index' # index
               PROVE  \A i \in 1..Len(index'.written) :
                        LET change == index'.written[i]
                        IN /\ change.sequenceNumber = index.changes + i - 1
                           /\ change.before = CurrentSystemState(WithSystemState(index)) + i - 1
                           /\ change.after = change.before + 1
                           /\ change.price = price
                           /\ index'.changes = index.changes + Len(index'.written)
    BY DEF indexVars
  <2>1. IsChained(index'.written) /\ index'.changes = index.changes + Len(index'.written)
    BY SubgraphStep
  <2>2. CurrentSystemState(WithSystemState(index)) = FirstState - 1
    BY DEF FirstState, CurrentSystemState
  <2> QED
    BY <2>1, <2>2 DEF IsChained
<1> QED
  BY <1>1, SubgraphInvHolds, PTL DEF IndexSpec, ChangesAreChained
=============================================================================
