---------------------------- MODULE StoreClient ----------------------------
(***************************************************************************)
(* The SDK's polled store on its provider: blocks reach the store through  *)
(* the listeners of WebSocketAugmentedProvider.ts, the store's reads go    *)
(* through BatchedProvider.ts to the node.                                 *)
(*                                                                         *)
(* The event loop runs one callback at a time.  Each action is what runs   *)
(* between two awaits, or one turn of the loop over listeners.  A read     *)
(* that _retrySeenBlock repeats is one request that takes longer.          *)
(***************************************************************************)
EXTENDS PolledStore

CONSTANT ReadsMayFail     \* whether the node may reject a request

VARIABLES
  head,                   \* the newest block of the chain
  seenBlock,              \* _seenBlock
  listenerScheduled       \* _blockListenerScheduled

blockVars == <<head, seenBlock, listenerScheduled>>
vars == <<storeVars, batchVars, blockVars>>

Init ==
  /\ InitStore /\ InitBatch
  /\ head = 0 /\ seenBlock = 0 /\ listenerScheduled = FALSE

NewBlock ==
  /\ head < MaxBlock
  /\ head' = head + 1
  /\ UNCHANGED <<storeVars, batchVars, seenBlock, listenerScheduled>>

ScheduledOnce == listenerScheduled' = (listenerScheduled \/ seenBlock = 0)    \* mutant
ListenersScheduled == listenerScheduled' = TRUE

\* _onBlock, on an event of the underlying provider, which is only asked for
\* events while there are block listeners.
OnBlock ==
  /\ Idle /\ listening
  /\ \E blockNumber \in (seenBlock + 1)..head : seenBlock' = blockNumber
  /\ ListenersScheduled
  /\ UNCHANGED <<storeVars, batchVars, head>>

SeenBlockAsked == HearBlock(seenBlock)

\* The timer that _onBlock has set: several blocks may have been seen meanwhile.
CallBlockListeners ==
  /\ Idle /\ listenerScheduled
  /\ listenerScheduled' = FALSE
  /\ IF listening THEN SeenBlockAsked ELSE UNCHANGED storeVars
  /\ UNCHANGED <<batchVars, head, seenBlock>>

ReadReachesProvider(i, f) ==
  /\ Idle /\ Open(i) /\ fetches[i].values[f] = Unread
  /\ IF f = "blockTimestamp" THEN SendAlone(<<i, f>>, TagOfRead(i))     \* a getBlock
     ELSE Call(<<i, f>>, TagOfRead(i))
  /\ ReadAdvances({<<i, f>>}, Awaited)
  /\ UNCHANGED blockVars

DispatchTimerFires == Idle /\ DispatchCalls /\ UNCHANGED <<storeVars, blockVars>>

Failures == IF ReadsMayFail THEN {Error} ELSE {}

\* Outcomes of a request that is answered now.
Outcomes(r) == {IF r.tag = NoTag THEN head ELSE r.tag} \cup Failures

NodeAnswers(r) ==
  /\ Idle /\ RequestEnds(r)
  /\ \E outcome \in Outcomes(r) : ReadAdvances(r.calls, outcome)
  /\ UNCHANGED blockVars

FetchStep(i) == FetchEnds(i) /\ UNCHANGED <<batchVars, blockVars>>

AnyFetchEnds == \E i \in DOMAIN fetches : FetchStep(i)
AnyReadReachesProvider == \E i \in DOMAIN fetches, f \in Fields : ReadReachesProvider(i, f)
AnyAnswer == \E r \in requests : NodeAnswers(r)
Notification == \E l \in Listeners : NotifyNext(l) /\ UNCHANGED <<batchVars, blockVars>>

User ==
  /\ \/ Start \/ Stop
     \/ \E l \in Listeners : Subscribe(l) \/ Unsubscribe(l)
  /\ UNCHANGED <<batchVars, blockVars>>

TimerStep == UpdateTimerFires /\ UNCHANGED <<batchVars, blockVars>>

Callback ==
  CallBlockListeners \/ AnyReadReachesProvider \/ DispatchTimerFires \/ AnyAnswer \/ AnyFetchEnds

Next == NewBlock \/ OnBlock \/ Callback \/ Notification \/ User \/ TimerStep

\* The event loop goes on, and the node answers or rejects every request: callbacks
\* that are due again and again are run, though users and the half-minute timer
\* come in between.  As only finitely many are ever due, that is each of them.
Fairness == SF_vars(Callback) /\ WF_vars(Notification)

Spec == Init /\ [][Next]_vars /\ Fairness

----------------------------------------------------------------------------
\* blockTag is the "Number of block that the store state was fetched from"
\* (BlockPolledMoneypStore.ts:30): each value, but for errors in the place of one, and
\* all that is derived are that block's, however fetches overtake each other and
\* whichever of them loaded the store.  Only where _derive has thrown the base state,
\* from which nothing can be derived, is ahead of its tag.
StateIsOfItsBlock ==
  loaded /\ store.blockTag # NoTag /\ Derivable(store.base) =>
    /\ \A f \in Fields : store.base[f] \in {store.blockTag} \cup Failures
    /\ store.derived = Derive(store.base)

\* A listener that subscribed to a loaded store has been told the current state, or
\* is about to be: the oldState of each notification is the newState of the one
\* before, on which useMoneypSelector relies, whatever listeners do to each other.
NotificationsHaveNoGaps ==
  \A l \in subscribed \ toNotify : told[l] \in {NoState, store}

Succeeded(i) == Open(i) /\ fetches[i].tag # NoTag /\ \A f \in Fields : fetches[i].values[f] >= 0

\* _reduce can compare this state with another.
Comparable(s) == \A f \in ComparedByMethod : s.base[f] # Error

\* The store "updates state whenever there's a new block"
\* (BlockPolledMoneypStore.ts:67), unless it was loaded with the error of a balance, at
\* which every later comparison throws: no update brings such an error to a store without
\* one, and a fetch of a block all of whose reads have succeeded then gives the store that
\* block's state, whatever failed before.
BlocksUpdateState ==
  [][/\ loaded /\ Comparable(store) => Comparable(store')
     /\ \A i \in DOMAIN fetches :
          Succeeded(i) /\ ~fetches'[i].open /\ (loaded => Comparable(store)) =>
            loaded' /\ store'.blockTag = fetches[i].tag /\ store'.base = fetches[i].values]_vars

\* Every fetch ends, whatever calls share its batch and restart its timer (there are
\* MaxFetches of them).
FetchesEnd == (\E i \in DOMAIN fetches : Open(i)) ~> (\A i \in DOMAIN fetches : ~Open(i))

\* The newest block seen has not been asked for by a store that listens.  One that
\* was started again has asked for "latest" only.
NewestIsMissed ==
  /\ listening /\ seenBlock > 0
  /\ \A i \in DOMAIN fetches : fetches[i].tag # seenBlock
  /\ Cardinality({i \in DOMAIN fetches : fetches[i].tag = NoTag}) = 1
  /\ Cardinality(DOMAIN fetches) < MaxFetches

\* A store that listens asks for the newest block seen, though blocks seen in quick
\* succession are merged (_blockListenerScheduled).
NewestBlockIsFetched == NewestIsMissed ~> ~NewestIsMissed
=============================================================================
