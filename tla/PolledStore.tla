---------------------------- MODULE PolledStore ----------------------------
(***************************************************************************)
(* MoneypStore.ts with BlockPolledMoneypStore.ts: a copy of the protocol's *)
(* state that is fetched at every block, and its listeners.                *)
(*                                                                         *)
(* The value of a field is the number of the block it was read from, or    *)
(* the error that the read ended with: _get catches the error of each read *)
(* and returns it in the place of the value.  A fetch is a set of reads in *)
(* flight; blockTag is undefined for the first.                            *)
(***************************************************************************)
EXTENDS BatchedProvider

CONSTANTS
  Fields,         \* the reads of one fetch
  Listeners,
  MaxBlock, MaxFetches   \* bounds of the model

\* How the code treats a field: "numberOfVaults" is compared with ===,
\* "bpdBalance" by a method of the old value that takes no error, "price" in the
\* same way and used by _derive; createFees is called and the fees it makes of
\* blockTimestamp are used by _derive.
ASSUME PolledStoreAssumption ==
  /\ Fields \subseteq {"numberOfVaults", "bpdBalance", "price", "createFees", "blockTimestamp"}
  /\ MaxBlock \in Nat /\ MaxFetches \in Nat

ComparedByMethod == Fields \cap {"bpdBalance", "price"}
UsedByDerive == Fields \cap {"price", "createFees", "blockTimestamp"}

Error == -2
Unread == -3        \* the read has not reached the provider
Awaited == -4       \* it has, and is not answered

Values == [Fields -> 0..MaxBlock \cup {Error}]
NoState == [base |-> [f \in Fields |-> Unread], derived |-> [f \in UsedByDerive |-> Unread],
            blockTag |-> NoTag]

VARIABLES
  listening,      \* the block listener is registered: start() was called, not its stop
  loaded,
  store,          \* _baseState, _derivedState and _extraState.blockTag
  updateTimer,    \* the timer of _updateTimeoutId is running
  fetches,        \* fetches so far: the tag asked for and the values
  subscribed,     \* _listeners
  told,           \* the newState each listener was last given
  toNotify        \* what is left of the copy that _notify goes through

storeVars == <<listening, loaded, store, updateTimer, fetches, subscribed, told, toNotify>>

Fetch == [tag : 1..MaxBlock \cup {NoTag}, open : BOOLEAN,
          values : [Fields -> 0..MaxBlock \cup {Error, Unread, Awaited}]]

InitStore ==
  /\ listening = FALSE /\ loaded = FALSE /\ store = NoState /\ updateTimer = FALSE
  /\ fetches = <<>>
  /\ subscribed = {} /\ told = [l \in Listeners |-> NoState] /\ toNotify = {}

Idle == toNotify = {}     \* no listener is running: other events wait

Open(i) == i \in DOMAIN fetches /\ fetches[i].open

\* _get starts a fetch: its reads are on their way to the provider.
FetchAdded(tag) ==
  /\ Cardinality(DOMAIN fetches) < MaxFetches
  /\ fetches' = [i \in 1..(Cardinality(DOMAIN fetches) + 1) |->
       IF i \in DOMAIN fetches THEN fetches[i]
       ELSE [tag |-> tag, open |-> TRUE, values |-> [f \in Fields |-> Unread]]]

ReadsLatest(i) == NoTag                                \* mutant
TagOfRead(i) == fetches[i].tag

\* A fetch that is over; what it read is forgotten.
Closed(i) == [fetches EXCEPT ![i].open = FALSE, ![i].values = [f \in Fields |-> Unread]]

----------------------------------------------------------------------------
\* _derive throws when it meets an error, and so does _reduce when it compares
\* an error, old or new.
Derivable(base) == \A f \in UsedByDerive : base[f] # Error

Derive(base) == [f \in UsedByDerive |-> base[f]]

Reducible(old, new) == \A f \in ComparedByMethod : old[f] # Error /\ new[f] # Error

TagNotReplaced(tag) ==                                  \* mutant
  IF store.blockTag = NoTag THEN tag ELSE store.blockTag
\* _reduceExtra
TagAfter(tag) == IF tag = NoTag THEN store.blockTag ELSE tag

\* _load.  The base state is set before _derive may throw.
Load(base, tag) ==
  /\ IF Derivable(base)
     THEN /\ store' = [base |-> base, derived |-> Derive(base), blockTag |-> tag]
          /\ loaded' = TRUE
          /\ updateTimer' = TRUE
     ELSE store' = [store EXCEPT !.base = base] /\ UNCHANGED <<loaded, updateTimer>>
  /\ UNCHANGED toNotify

\* _update.  timer is whether the timer still runs when it is called: an exception
\* leaves it as it is, and listeners are not told what has changed until then.
Update(base, tag, timer) ==
  /\ IF Derivable(base)
     THEN /\ store' = [base |-> base, derived |-> Derive(base), blockTag |-> TagAfter(tag)]
          /\ updateTimer' = TRUE
          /\ toNotify' = subscribed
     ELSE /\ store' = [store EXCEPT !.base = base]
          /\ updateTimer' = timer
          /\ UNCHANGED toNotify
  /\ UNCHANGED loaded

UpdateOrThrow(base, tag) ==
  IF Reducible(store.base, base) THEN Update(base, tag, updateTimer)
  ELSE UNCHANGED <<store, loaded, updateTimer, toNotify>>

----------------------------------------------------------------------------
\* A user starts the store once at a time.
Start ==
  /\ Idle /\ ~listening
  /\ listening' = TRUE
  /\ FetchAdded(NoTag)
  /\ UNCHANGED <<loaded, store, updateTimer, subscribed, told, toNotify>>

\* The function that start() returns: fetches in flight go on.
Stop ==
  /\ Idle /\ listening
  /\ listening' = FALSE
  /\ updateTimer' = FALSE
  /\ UNCHANGED <<loaded, store, fetches, subscribed, told, toNotify>>

\* blockListener, up to its await.
HearBlock(blockTag) ==
  /\ Idle /\ listening
  /\ FetchAdded(blockTag)
  /\ UNCHANGED <<listening, loaded, store, updateTimer, subscribed, told, toNotify>>

\* A read reaches the provider, or its answer arrives: value is what it resolves to.
ReadAdvances(reads, value) ==
  /\ fetches' = [i \in DOMAIN fetches |->
       [fetches[i] EXCEPT !.values = [f \in Fields |-> IF <<i, f>> \in reads THEN value ELSE @[f]]]]
  /\ UNCHANGED <<listening, loaded, store, updateTimer, subscribed, told, toNotify>>

\* The continuation of the first fetch, which a block may have forestalled.
FirstFetchLoads(values) ==
  IF loaded THEN UNCHANGED <<store, loaded, updateTimer, toNotify>> ELSE Load(values, NoTag)

BlockAlwaysLoads(values, blockTag) == Load(values, blockTag)           \* mutant
\* The continuation of blockListener.
BlockFetchUpdates(values, blockTag) ==
  IF loaded THEN UpdateOrThrow(values, blockTag) ELSE Load(values, blockTag)

\* All reads of fetch i have ended.
FetchEnds(i) ==
  LET values == fetches[i].values
  IN
  /\ Idle /\ Open(i)
  /\ values \in Values
  /\ fetches' = Closed(i)
  /\ IF "createFees" \in Fields /\ values["createFees"] = Error
     THEN UNCHANGED <<store, loaded, updateTimer, toNotify>>     \* it is not a function
     ELSE IF fetches[i].tag = NoTag THEN FirstFetchLoads(values)
     ELSE BlockFetchUpdates(values, fetches[i].tag)
  /\ UNCHANGED <<listening, subscribed, told>>

\* Half a minute without an update: _update with nothing new.
UpdateTimerFires ==
  /\ Idle /\ updateTimer
  /\ Update(store.base, NoTag, FALSE)
  /\ UNCHANGED <<listening, fetches, subscribed, told>>

Subscribed(l) == subscribed' = subscribed \cup {l}
                 /\ told' = [told EXCEPT ![l] = IF loaded THEN store ELSE NoState]

Subscribe(l) ==
  /\ Idle /\ l \notin subscribed
  /\ Subscribed(l)
  /\ UNCHANGED <<listening, loaded, store, updateTimer, fetches, toNotify>>

Unsubscribe(l) ==
  /\ Idle /\ l \in subscribed
  /\ subscribed' = subscribed \ {l}
  /\ told' = [told EXCEPT ![l] = NoState]
  /\ UNCHANGED <<listening, loaded, store, updateTimer, fetches, toNotify>>

\* One turn of _notify's loop.  A listener may subscribe and unsubscribe listeners;
\* one that subscribes again is another element of _listeners, not of the copy.
NotifyNext(l) ==
  /\ l \in toNotify
  /\ IF l \notin subscribed
     THEN toNotify' = toNotify \ {l} /\ UNCHANGED <<subscribed, told>>
     ELSE \E gone, come \in SUBSET Listeners :
            /\ gone \subseteq subscribed /\ come \cap subscribed = {}
            /\ Cardinality(gone \cup come) <= 1
            /\ subscribed' = (subscribed \ gone) \cup come
            /\ told' = [m \in Listeners |-> IF m \in gone THEN NoState
                                            ELSE IF m \in come \cup {l} THEN store ELSE told[m]]
            /\ toNotify' = toNotify \ ({l} \cup come)
  /\ UNCHANGED <<listening, loaded, store, updateTimer, fetches>>
=============================================================================
