----------------------------- MODULE Deployment -----------------------------
(***************************************************************************)
(* The deployment script, which may be stopped at any point and run again. *)
(* It deploys each contract that its output file does not name yet, and    *)
(* sends each call whose effect it does not see on the chain yet; what an  *)
(* earlier run sent may still be mined.  A contract that has been given    *)
(* its addresses cannot be given others.                                   *)
(*                                                                         *)
(* A contract is its name and the number of the deployment, from 1.  The   *)
(* pair of a BPDToken and the deployer's vault of a VaultManager are       *)
(* contracts of the same number.  Verification of sources, and the checks  *)
(* and the trial deposits that follow the vault, are left out.             *)
(*                                                                         *)
(* Some calls are refused for their arguments, whatever the chain is.  In  *)
(* the repository as it stands there are three: PriceFeed wants two price  *)
(* feeds and is given one, a lockup lasts a year and three days are asked  *)
(* for, and the reward of RskSwapPool may not be zero, which the MP token  *)
(* makes it.  A refusal ends the script; the parameter Refusals says from  *)
(* which of them a deployment suffers.                                     *)
(***************************************************************************)
EXTENDS Integers, Sequences, FiniteSets, SequencesExt

CONSTANTS
  Beneficiaries,   \* the names of the lockup contracts, in their order
  Refusals,        \* sets of steps <<op, name>>: what may be refused for its arguments
  MaxCrashes       \* bound of the model on the interruptions of the script

ASSUME DeploymentAssumption == MaxCrashes \in Nat

VARIABLES
  file,            \* OUTPUT_FILE: the deployment saved of each name, 0 for none
  deploymentState, \* the same in the memory of the script
  pc, phase,       \* step of the script, 0 when it does not run; checking, sending or waiting
  mempool,         \* the transactions that are not mined, in the order of the deployer's nonces
  sent,            \* how many deployments of each name were ever sent
  contracts,       \* on the chain
  links,           \* from a contract to those it was given, in its constructor or by setAddresses
  refuses,         \* the steps whose arguments the contracts refuse
  crashes

deploymentVars ==
  <<file, deploymentState, pc, phase, mempool, sent, contracts, links, refuses, crashes>>

-----------------------------------------------------------------------------
(* The script. *)

Deploy(name, params) == [op |-> "deploy", name |-> name, refs |-> params]
Connect(name, refs)  == [op |-> "connect", name |-> name, refs |-> refs]

DeployCore ==
  <<Deploy("priceFeed", {}), Deploy("sortedVaults", {}), Deploy("vaultManager", {}),
    Deploy("activePool", {}), Deploy("stabilityPool", {}), Deploy("gasPool", {}),
    Deploy("defaultPool", {}), Deploy("collSurplusPool", {}), Deploy("borrowerOperations", {}),
    Deploy("hintHelpers", {}),
    Deploy("bpdToken", {"vaultManager", "stabilityPool", "borrowerOperations"})>>

DeployMP ==
  <<Deploy("mpStaking", {}), Deploy("lockupContractFactory", {}), Deploy("communityIssuance", {}),
    Deploy("mpToken", {"communityIssuance", "mpStaking", "lockupContractFactory", "rskSwapPool"})>>

Pools == {"activePool", "defaultPool", "collSurplusPool"}
ConnectCore ==
  <<Connect("priceFeed", {"oracle"}),
    Connect("sortedVaults", {"vaultManager", "borrowerOperations"}),
    Connect("vaultManager", Pools \cup {"borrowerOperations", "stabilityPool", "gasPool", "priceFeed",
                                        "bpdToken", "sortedVaults", "mpToken", "mpStaking"}),
    Connect("borrowerOperations", Pools \cup {"vaultManager", "stabilityPool", "gasPool", "priceFeed",
                                              "sortedVaults", "bpdToken", "mpStaking"}),
    Connect("stabilityPool", {"borrowerOperations", "vaultManager", "activePool", "bpdToken",
                              "sortedVaults", "priceFeed", "communityIssuance"}),
    Connect("activePool", {"borrowerOperations", "vaultManager", "stabilityPool", "defaultPool"}),
    Connect("defaultPool", {"vaultManager", "activePool"}),
    Connect("collSurplusPool", {"borrowerOperations", "vaultManager", "activePool"}),
    Connect("hintHelpers", {"sortedVaults", "vaultManager"})>>

ConnectMP ==
  <<Connect("lockupContractFactory", {"mpToken"}),
    Connect("mpStaking", {"mpToken", "bpdToken", "vaultManager", "borrowerOperations", "activePool"}),
    Connect("communityIssuance", {"mpToken", "stabilityPool"})>>

\* The contract that the factory deploys for a beneficiary holds the token of the factory.
Lockups == [i \in 1..Len(Beneficiaries) |-> Deploy(Beneficiaries[i], {"mpToken"})]
LockupNames == {Beneficiaries[i] : i \in 1..Len(Beneficiaries)}

Script ==
  DeployCore \o <<[op |-> "create", name |-> "pair", refs |-> {"bpdToken"}], Deploy("rskSwapPool", {})>>
  \o DeployMP \o ConnectCore \o ConnectMP
  \o <<Deploy("multiVaultGetter", {"vaultManager", "sortedVaults"}),
       Connect("rskSwapPool", {"mpToken", "pair"})>>
  \o Lockups \o <<[op |-> "create", name |-> "vault", refs |-> {"vaultManager"}]>>

\* The output file keeps the lockup contracts under the names of their beneficiaries, beside
\* the others: a beneficiary named as a contract would be taken for deployed.  The pair, the
\* vault and the oracle are not in the file; their names are those of this module.
ContractNames ==
  {"pair", "vault", "oracle", "rskSwapPool", "multiVaultGetter"}
  \cup {DeployCore[i].name : i \in 1..Len(DeployCore)} \cup {DeployMP[i].name : i \in 1..Len(DeployMP)}
ASSUME BeneficiariesAssumption ==
  /\ Beneficiaries \in Seq(STRING)
  /\ \A i \in 1..Len(Beneficiaries) : Beneficiaries[i] \notin ContractNames

Step == Script[pc]
Finished == pc = Len(Script) + 1
Running == pc > 0 /\ ~Finished
Names == {Script[i].name : i \in {j \in 1..Len(Script) : Script[j].op = "deploy"}}

-----------------------------------------------------------------------------
(* Names, deployments and what the chain answers. *)

\* The number that a state of the deployment gives to a name.
NumberIn(state, name) ==
  CASE name = "pair"   -> state["bpdToken"]
    [] name = "vault"  -> state["vaultManager"]
    [] name = "oracle" -> 1
    [] OTHER           -> state[name]

ContractOf(state, name) == <<name, NumberIn(state, name)>>
LinksOf(state, step, contract) == {<<contract, ContractOf(state, ref)>> : ref \in step.refs}

\* The owner of a contract is the zero address once its addresses are set.
OwnerIsZero(contract) == \E link \in links : link[1] = contract

\* The owner is not asked for.
NeverRenounced(contract) == FALSE

\* What the script asks.
IsOwnershipRenounced(contract) == OwnerIsZero(contract)

\* The output file is not looked at.
NeverDeployed(name) == FALSE

\* What the script asks before it sends.
PreviouslyDeployed(name) == deploymentState[name] # 0

Done(step) ==
  CASE step.op = "deploy"  -> PreviouslyDeployed(step.name)
    [] step.op = "connect" -> IsOwnershipRenounced(ContractOf(deploymentState, step.name))
    [] step.op = "create"  -> ContractOf(deploymentState, step.name) \in contracts

\* What a new contract gets from the one that creates it.
GivenBy(giver, contract) == {<<contract, link[2]>> : link \in {l \in links : l[1] = giver}}

Tx ==
  LET contract == IF Step.op = "deploy" THEN <<Step.name, sent[Step.name] + 1>>
                  ELSE ContractOf(deploymentState, Step.name)
  IN [op |-> Step.op, contract |-> contract,
      links |-> IF Step.name \in LockupNames
                THEN GivenBy(ContractOf(deploymentState, "lockupContractFactory"), contract)
                ELSE LinksOf(deploymentState, Step, contract)]

\* What the contracts require of the arguments.
RefusesArguments(tx) == <<tx.op, tx.contract[1]>> \in refuses

HasCode(contract) == contract \in contracts \cup {<<"oracle", 1>>}

\* The tokens check their parameters, but not the pool of the LP rewards; the other
\* contracts have none, and the getter checks nothing.
ConstructorReverts(tx) ==
  /\ tx.contract[1] \in {"bpdToken", "mpToken"}
  /\ \E link \in tx.links : ~HasCode(link[2]) /\ link[2][1] # "rskSwapPool"

\* The factory of the lockup contracts has to have its token.
LockupReverts(tx) == tx.contract[1] \in LockupNames /\ tx.links = {}

\* Addresses are set by the owner, and have code.
SetAddressesReverts(tx) ==
  OwnerIsZero(tx.contract) \/ \E link \in tx.links : ~HasCode(link[2])

\* The call on the present chain; a pair and an active vault exist once.
Reverts(tx) ==
  \/ RefusesArguments(tx)
  \/ tx.op = "deploy" /\ (ConstructorReverts(tx) \/ LockupReverts(tx))
  \/ tx.op = "connect" /\ SetAddressesReverts(tx)
  \/ tx.op = "create" /\ tx.contract \in contracts

-----------------------------------------------------------------------------
Nothing == [n \in Names |-> 0]

InitDeployment ==
  /\ file = Nothing /\ deploymentState = Nothing
  /\ pc = 0 /\ phase = "check"
  /\ mempool = <<>> /\ sent = Nothing /\ contracts = {} /\ links = {}
  /\ refuses \in Refusals
  /\ crashes = 0

\* loadPreviousDeployment, and the script from its beginning.
Start ==
  /\ pc = 0
  /\ pc' = 1 /\ phase' = "check" /\ deploymentState' = file
  /\ UNCHANGED <<file, mempool, sent, contracts, links, refuses, crashes>>

NextStep == pc' = pc + 1 /\ phase' = "check"
Stop == pc' = 0 /\ phase' = "check" /\ deploymentState' = Nothing

SkipStep ==
  /\ Running /\ phase = "check" /\ Done(Step)
  /\ NextStep
  /\ UNCHANGED <<file, deploymentState, mempool, sent, contracts, links, refuses, crashes>>

DecideToSend ==
  /\ Running /\ phase = "check" /\ ~Done(Step)
  /\ phase' = "send"
  /\ UNCHANGED <<file, deploymentState, pc, mempool, sent, contracts, links, refuses, crashes>>

\* The estimate of the gas throws for a call that reverts, and the script ends.
Send ==
  /\ Running /\ phase = "send"
  /\ IF Reverts(Tx)
     THEN Stop /\ UNCHANGED <<mempool, sent>>
     ELSE /\ mempool' = Append(mempool, Tx)
          /\ sent' = IF Step.op = "deploy" THEN [sent EXCEPT ![Step.name] = @ + 1] ELSE sent
          /\ phase' = "wait"
          /\ UNCHANGED <<deploymentState, pc>>
  /\ UNCHANGED <<file, contracts, links, refuses, crashes>>

MineTransaction ==
  /\ mempool # <<>>
  /\ mempool' = Tail(mempool)
  /\ IF Reverts(Head(mempool)) THEN UNCHANGED <<contracts, links>>
     ELSE /\ contracts' = contracts \cup {Head(mempool).contract}
          /\ links' = links \cup Head(mempool).links
  /\ UNCHANGED <<file, deploymentState, pc, phase, sent, refuses, crashes>>

\* The script does not wait.
NotAwaited == TRUE

\* The transaction that the script waits for is the last one it sent; whether it
\* reverted is not looked at.
Mined == mempool = <<>>

ReceiveReceipt ==
  /\ Running /\ phase = "wait" /\ Mined
  /\ deploymentState' = IF Step.op = "deploy"
                        THEN [deploymentState EXCEPT ![Step.name] = sent[Step.name]] ELSE deploymentState
  /\ file' = IF Step.op = "deploy" THEN deploymentState' ELSE file
  /\ NextStep
  /\ UNCHANGED <<mempool, sent, contracts, links, refuses, crashes>>

Crash ==
  /\ Running /\ crashes < MaxCrashes
  /\ crashes' = crashes + 1
  /\ Stop
  /\ UNCHANGED <<file, mempool, sent, contracts, links, refuses>>

ScriptStep == SkipStep \/ DecideToSend \/ Send \/ ReceiveReceipt
DeploymentNext == Start \/ ScriptStep \/ MineTransaction \/ Crash

\* The chain mines, the script goes on, and someone runs it until it ends.
DeploymentSpec ==
  /\ InitDeployment /\ [][DeploymentNext]_deploymentVars
  /\ WF_deploymentVars(Start) /\ WF_deploymentVars(ScriptStep) /\ WF_deploymentVars(MineTransaction)

-----------------------------------------------------------------------------
Saved(contract) == contract[1] # "oracle" => NumberIn(file, contract[1]) = contract[2]

\* A contract that the file names was only ever given contracts that the file names: what
\* an interrupted run deployed and lost is never built in, where nobody could replace it.
SavedAreLinkedToSaved ==
  \A link \in links : Saved(link[1]) => Saved(link[2])

\* What the script has passed holds, whatever interrupted it, whatever it sent twice and
\* wherever it is: the contract of the file is on the chain, and a connected one has exactly
\* the addresses that the script gives to it.
PassedStepsHold ==
  \A i \in 1..Len(Script) : i < pc =>
    LET contract == ContractOf(file, Script[i].name)
    IN /\ contract \in contracts
       /\ Script[i].op = "connect" =>
            {link \in links : link[1] = contract} = LinksOf(file, Script[i], contract)

\* Run again after every interruption, the script reaches its end or the first step that is
\* refused for its arguments: nothing that an earlier run left behind holds it up before.
EndsOrIsRefused == <>(Finished \/ (Running /\ <<Step.op, Step.name>> \in refuses))
=============================================================================
