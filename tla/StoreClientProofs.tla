------------------------- MODULE StoreClientProofs -------------------------
(***************************************************************************)
(* Proofs about the SDK's polled store on its provider, for any fields,    *)
(* listeners, blocks and fetches: calls of one batch are of one block, the *)
(* state of the store is one block's, no listener misses a state, and a    *)
(* fetch without failures updates the store.                               *)
(*                                                                         *)
(* _get puts the error of a failed read in the place of its value.  Only   *)
(* the notifications need that the error of a timestamp does not occur.    *)
(*                                                                         *)
(* The parts: fetches and the requests that their reads share, action by   *)
(* action; the state and those who were told of it; the specification.     *)
(***************************************************************************)
EXTENDS StoreClient, FiniteSetTheorems, TLAPS

\* A failed block timestamp is met by _derive, after the base state has been set: the new
\* base state then stays under the old block tag, and no listener is told.
TimestampIsRead == ~ReadsMayFail \/ "blockTimestamp" \notin Fields

-----------------------------------------------------------------------------
(* The inductive invariant: what is in flight, the blocks seen, what was loaded. *)

States ==
  [base : [Fields -> 0..MaxBlock \cup {Error, Unread}],
   derived : [UsedByDerive -> 0..MaxBlock \cup {Error, Unread}],
   blockTag : 1..MaxBlock \cup {NoTag}]

AreFetches(fs) == \E n \in Nat : fs \in [1..n -> Fetch]

FetchTypes == AreFetches(fetches) /\ head \in 0..MaxBlock

StoreTypes ==
  /\ loaded \in BOOLEAN /\ store \in States
  /\ subscribed \subseteq Listeners /\ toNotify \subseteq Listeners
  /\ told \in [Listeners -> States]

\* The listeners of blocks are called for a block seen.
BlockInv == seenBlock \in 0..head /\ (listenerScheduled => seenBlock > 0)

\* What a read with that tag may have come to.
Answers(tag) ==
  (IF tag = NoTag THEN 0..MaxBlock ELSE {tag}) \cup Failures

\* The reads of a request are of fetches with its tag, and so is each answer.
IsCallFor(fs, c, tag) == c \in (DOMAIN fs) \X Fields /\ fs[c[1]].tag = tag

CallsAreOfTag ==
  /\ \A c \in batched.calls : IsCallFor(fetches, c, batched.tag)
  /\ \A r \in requests : \A c \in r.calls : IsCallFor(fetches, c, r.tag)

ReadsAreOfTag(fs) ==
  \A i \in DOMAIN fs, f \in Fields :
    fs[i].values[f] \in {Unread, Awaited} \cup Answers(fs[i].tag)

FetchInv == FetchTypes /\ CallsAreOfTag /\ ReadsAreOfTag(fetches)

\* Nobody has been told of a state before there is one.
NothingBeforeLoad ==
  ~loaded => ~updateTimer /\ toNotify = {} /\ \A l \in Listeners : told[l] = NoState

\* What a state that is loaded obeys.
OfItsBlock(s) ==
  s.blockTag # NoTag =>
    \A f \in Fields : s.base[f] \in {s.blockTag} \cup Failures

DerivedFromBase(s) == Derivable(s.base) /\ s.derived = Derive(s.base)

LoadedInv(s) ==
  /\ Derivable(s.base) => OfItsBlock(s) /\ s.derived = Derive(s.base)
  /\ TimestampIsRead => Derivable(s.base)

StateInv ==
  /\ StoreTypes /\ NothingBeforeLoad
  /\ loaded => LoadedInv(store)
  /\ TimestampIsRead => NotificationsHaveNoGaps

StoreInv == FetchInv /\ BlockInv /\ StateInv

-----------------------------------------------------------------------------
(* Fetches and requests. *)

\* Fetches stay what they were asked for, and answered reads are of their tag.
FetchesKept(fs, gs) ==
  /\ AreFetches(gs) /\ ReadsAreOfTag(gs)
  /\ DOMAIN fs \subseteq DOMAIN gs
  /\ \A i \in DOMAIN fs : gs[i].tag = fs[i].tag

\* Numbers of blocks are not the marks of reads.
LEMMA MarksAreNotBlocks ==
  /\ NoTag = -1 /\ Error = -2 /\ Unread = -3 /\ Awaited = -4
  /\ MaxBlock \in Nat
BY PolledStoreAssumption DEF NoTag, Error, Unread, Awaited

\* An answer is a block's number or an error, never a mark.
LEMMA AnswersAreValues ==
  ASSUME NEW tag \in 1..MaxBlock \cup {NoTag}
  PROVE  Answers(tag) \subseteq 0..MaxBlock \cup {Error}
BY MarksAreNotBlocks DEF Answers, Failures

\* A new fetch has read nothing.
LEMMA AddedFetch ==
  ASSUME AreFetches(fetches), ReadsAreOfTag(fetches),
         NEW tag \in 1..MaxBlock \cup {NoTag}, FetchAdded(tag)
  PROVE  FetchesKept(fetches, fetches')
<1>1. PICK n \in Nat : fetches \in [1..n -> Fetch]
  BY DEF AreFetches
<1>2. DOMAIN fetches = 1..n /\ Cardinality(DOMAIN fetches) = n
  <2>1. DOMAIN fetches = 1..n
    BY <1>1
  <2>2. Cardinality(1..n) = IF 1 > n THEN 0 ELSE (n - 1) + 1
    BY <1>1, FS_Interval
  <2> QED
    BY <1>1, <2>1, <2>2
<1> DEFINE fetch == [tag |-> tag, open |-> TRUE, values |-> [f \in Fields |-> Unread]]
<1>3. fetches' = [i \in 1..(n + 1) |-> IF i \in 1..n THEN fetches[i] ELSE fetch]
  BY <1>2 DEF FetchAdded
<1>4. fetch \in Fetch /\ \A f \in Fields : fetch.values[f] = Unread
  BY DEF Fetch
<1> HIDE DEF fetch
<1>5. /\ fetches' \in [1..(n + 1) -> Fetch] /\ n + 1 \in Nat
      /\ DOMAIN fetches' = 1..(n + 1) /\ 1..n \subseteq 1..(n + 1)
      /\ \A i \in 1..n : fetches'[i] = fetches[i]
      /\ \A i \in 1..(n + 1) : fetches'[i] = fetches[i] \/ fetches'[i] = fetch
  BY <1>1, <1>3, <1>4
<1>6. AreFetches(fetches')
  BY <1>5 DEF AreFetches
<1>7. ReadsAreOfTag(fetches')
  <2> SUFFICES ASSUME NEW i \in 1..(n + 1), NEW f \in Fields
               PROVE  fetches'[i].values[f] \in {Unread, Awaited} \cup Answers(fetches'[i].tag)
    BY <1>5 DEF ReadsAreOfTag
  <2>1. CASE i \in 1..n
    BY <1>2, <1>5, <2>1 DEF ReadsAreOfTag
  <2>2. CASE i \notin 1..n
    BY <1>3, <1>4, <2>2
  <2> QED
    BY <2>1, <2>2
<1> QED
  BY <1>2, <1>5, <1>6, <1>7 DEF FetchesKept

\* A read that advances to a value that its tag allows.
LEMMA AdvancedReads ==
  ASSUME AreFetches(fetches), ReadsAreOfTag(fetches), NEW reads, NEW value,
         \A i \in DOMAIN fetches, f \in Fields :
           <<i, f>> \in reads => value \in {Unread, Awaited} \cup Answers(fetches[i].tag),
         ReadAdvances(reads, value)
  PROVE  FetchesKept(fetches, fetches')
<1>1. PICK n \in Nat : fetches \in [1..n -> Fetch]
  BY DEF AreFetches
<1> DEFINE advanced(i) ==
      [f \in Fields |-> IF <<i, f>> \in reads THEN value ELSE fetches[i].values[f]]
<1>2. \A i \in 1..n : fetches[i] \in Fetch
  BY <1>1
<1>3. \A i \in 1..n : advanced(i) \in [Fields -> 0..MaxBlock \cup {Error, Unread, Awaited}]
  <2>1. ASSUME NEW i \in 1..n, NEW f \in Fields, <<i, f>> \in reads
        PROVE  value \in 0..MaxBlock \cup {Error, Unread, Awaited}
    <3>1. fetches[i].tag \in 1..MaxBlock \cup {NoTag}
      BY <1>2 DEF Fetch
    <3> QED
      BY <1>1, <2>1, <3>1, AnswersAreValues
  <2> QED
    BY <1>2, <2>1 DEF Fetch
<1>4. fetches' = [i \in 1..n |-> [tag |-> fetches[i].tag, open |-> fetches[i].open,
                                  values |-> advanced(i)]]
  <2>1. fetches' = [i \in 1..n |-> [fetches[i] EXCEPT !.values = advanced(i)]]
    BY <1>1 DEF ReadAdvances
  <2>2. \A i \in 1..n : [fetches[i] EXCEPT !.values = advanced(i)]
                          = [tag |-> fetches[i].tag, open |-> fetches[i].open,
                             values |-> advanced(i)]
    <3> HIDE DEF advanced
    <3> QED
      BY <1>2 DEF Fetch
  <2> QED
    BY <2>1, <2>2
<1>5. ASSUME NEW i \in 1..n, NEW f \in Fields
      PROVE  advanced(i)[f] \in {Unread, Awaited} \cup Answers(fetches[i].tag)
  BY <1>1 DEF ReadsAreOfTag
<1> HIDE DEF advanced
<1>6. /\ fetches' \in [1..n -> Fetch] /\ DOMAIN fetches' = 1..n
      /\ \A i \in 1..n : fetches'[i].tag = fetches[i].tag /\ fetches'[i].values = advanced(i)
  BY <1>2, <1>3, <1>4 DEF Fetch
<1>7. AreFetches(fetches') /\ ReadsAreOfTag(fetches')
  BY <1>5, <1>6 DEF AreFetches, ReadsAreOfTag
<1> QED
  BY <1>1, <1>6, <1>7 DEF FetchesKept

\* A fetch that is over forgets what it read.
LEMMA ClosedFetch ==
  ASSUME AreFetches(fetches), ReadsAreOfTag(fetches), NEW i \in DOMAIN fetches,
         fetches' = Closed(i)
  PROVE  /\ FetchesKept(fetches, fetches')
         /\ \A j \in DOMAIN fetches \ {i} : fetches'[j] = fetches[j]
<1>1. PICK n \in Nat : fetches \in [1..n -> Fetch]
  BY DEF AreFetches
<1> DEFINE none == [f \in Fields |-> Unread]
           over == [fetches[i] EXCEPT !.open = FALSE, !.values = none]
<1>2. fetches[i] \in Fetch
  BY <1>1
<1>3. fetches' = [fetches EXCEPT ![i] = over]
  BY <1>1 DEF Closed
<1>4. over \in Fetch /\ over.tag = fetches[i].tag /\ \A f \in Fields : over.values[f] = Unread
  <2> DEFINE g == fetches[i]
  <2>1. none \in [Fields -> 0..MaxBlock \cup {Error, Unread, Awaited}]
    OBVIOUS
  <2> HIDE DEF none, g
  <2>2. g \in Fetch
    BY <1>2 DEF g
  <2>3. /\ [g EXCEPT !.open = FALSE, !.values = none] \in Fetch
        /\ [g EXCEPT !.open = FALSE, !.values = none].tag = g.tag
        /\ [g EXCEPT !.open = FALSE, !.values = none].values = none
    BY <2>1, <2>2 DEF Fetch
  <2> QED
    BY <2>3 DEF g, none
<1> HIDE DEF over
<1>5. /\ fetches' \in [1..n -> Fetch] /\ DOMAIN fetches' = 1..n /\ DOMAIN fetches = 1..n
      /\ fetches'[i] = over /\ \A j \in 1..n \ {i} : fetches'[j] = fetches[j]
  BY <1>1, <1>3, <1>4
<1>6. AreFetches(fetches') /\ ReadsAreOfTag(fetches')
  BY <1>4, <1>5 DEF AreFetches, ReadsAreOfTag
<1> QED
  BY <1>4, <1>5, <1>6 DEF FetchesKept

\* A call stays one for the fetch's block.
LEMMA CallsStay ==
  ASSUME CallsAreOfTag, FetchesKept(fetches, fetches'),
         UNCHANGED batchVars
  PROVE  CallsAreOfTag'
BY DEF CallsAreOfTag, FetchesKept, IsCallFor, batchVars

\* A read reaches the provider: it joins a batch of its block, or goes alone.
LEMMA SentReadIsOfTag ==
  ASSUME CallsAreOfTag, FetchesKept(fetches, fetches'),
         NEW i \in DOMAIN fetches, NEW f \in Fields,
         IF f = "blockTimestamp" THEN SendAlone(<<i, f>>, TagOfRead(i))
         ELSE Call(<<i, f>>, TagOfRead(i))
  PROVE  CallsAreOfTag'
<1> DEFINE c == <<i, f>>
<1>0. /\ \A b \in batched.calls : IsCallFor(fetches', b, batched.tag)
      /\ \A r \in requests : \A b \in r.calls : IsCallFor(fetches', b, r.tag)
  BY DEF CallsAreOfTag, FetchesKept, IsCallFor
<1>1. IsCallFor(fetches', c, TagOfRead(i))
  BY DEF IsCallFor, FetchesKept, TagOfRead
<1> HIDE DEF c
<1>2. CASE SendAlone(c, TagOfRead(i))
  BY <1>0, <1>1, <1>2 DEF SendAlone, CallsAreOfTag
<1>3. CASE EnqueueCall(c, TagOfRead(i)) /\ ~AlreadyBatchedCallsConflictWith(TagOfRead(i))
  BY <1>0, <1>1, <1>3 DEF EnqueueCall, AlreadyBatchedCallsConflictWith, CallsAreOfTag
<1> QED
  BY <1>2, <1>3 DEF Call, c

\* The timer of the batch fires.
LEMMA DispatchedCallsAreOfTag ==
  ASSUME CallsAreOfTag, UNCHANGED fetches, DispatchCalls
  PROVE  CallsAreOfTag'
BY DEF CallsAreOfTag, DispatchCalls, EmptyBatch, IsCallFor

\* A request that is answered or rejected.
LEMMA EndedCallsAreOfTag ==
  ASSUME CallsAreOfTag, FetchesKept(fetches, fetches'), NEW r, RequestEnds(r)
  PROVE  CallsAreOfTag'
BY DEF CallsAreOfTag, FetchesKept, IsCallFor, RequestEnds

\* A read of a fetch begins.
LEMMA ReadReachesProviderKeepsFetches ==
  ASSUME FetchInv, NEW i, NEW f \in Fields, ReadReachesProvider(i, f)
  PROVE  FetchInv'
<1>1. i \in DOMAIN fetches /\ ReadAdvances({<<i, f>>}, Awaited) /\ UNCHANGED head
  BY DEF ReadReachesProvider, Open, blockVars
<1>2. FetchesKept(fetches, fetches')
  BY <1>1, AdvancedReads DEF FetchInv, FetchTypes
<1>3. CallsAreOfTag'
  BY <1>1, <1>2, SentReadIsOfTag DEF FetchInv, ReadReachesProvider
<1> QED
  BY <1>1, <1>2, <1>3 DEF FetchInv, FetchTypes, FetchesKept

\* An answer of the node, or its rejection.
LEMMA AnswerKeepsFetches ==
  ASSUME FetchInv, NEW r \in requests, NodeAnswers(r)
  PROVE  FetchInv'
<1>1. PICK outcome \in Outcomes(r) : ReadAdvances(r.calls, outcome)
  BY DEF NodeAnswers
<1>2. RequestEnds(r) /\ UNCHANGED head
  BY DEF NodeAnswers, blockVars
<1>3. ASSUME NEW i \in DOMAIN fetches, NEW f \in Fields, <<i, f>> \in r.calls
      PROVE  outcome \in Answers(fetches[i].tag)
  <2>1. fetches[i].tag = r.tag
    BY <1>3 DEF FetchInv, CallsAreOfTag, IsCallFor
  <2> QED
    BY <1>1, <2>1 DEF Outcomes, Answers, FetchInv, FetchTypes
<1>4. FetchesKept(fetches, fetches')
  BY <1>1, <1>3, AdvancedReads DEF FetchInv, FetchTypes
<1>5. CallsAreOfTag'
  BY <1>2, <1>4, EndedCallsAreOfTag DEF FetchInv
<1> QED
  BY <1>2, <1>4, <1>5 DEF FetchInv, FetchTypes, FetchesKept

\* A new fetch.
LEMMA AddedKeepsFetches ==
  ASSUME FetchInv, NEW tag \in 1..MaxBlock \cup {NoTag}, FetchAdded(tag),
         UNCHANGED <<batchVars, head>>
  PROVE  FetchInv'
<1>1. FetchesKept(fetches, fetches')
  BY AddedFetch DEF FetchInv, FetchTypes
<1>2. CallsAreOfTag'
  BY <1>1, CallsStay DEF FetchInv
<1> QED
  BY <1>1, <1>2 DEF FetchInv, FetchTypes, FetchesKept

\* The end of a fetch.
LEMMA EndKeepsFetches ==
  ASSUME FetchInv, NEW i \in DOMAIN fetches, fetches' = Closed(i),
         UNCHANGED <<batchVars, head>>
  PROVE  FetchInv'
<1>1. FetchesKept(fetches, fetches')
  BY ClosedFetch DEF FetchInv, FetchTypes
<1>2. CallsAreOfTag'
  BY <1>1, CallsStay DEF FetchInv
<1> QED
  BY <1>1, <1>2 DEF FetchInv, FetchTypes, FetchesKept

\* Other steps leave requests and fetches alone.
LEMMA OtherStepsKeepFetches ==
  ASSUME FetchInv, UNCHANGED <<batchVars, fetches>>, head' \in 0..MaxBlock
  PROVE  FetchInv'
BY DEF FetchInv, FetchTypes, AreFetches, CallsAreOfTag, IsCallFor, batchVars

\* The dispatch of a batch leaves the fetches alone.
LEMMA DispatchKeepsFetches ==
  ASSUME FetchInv, DispatchTimerFires
  PROVE  FetchInv'
<1>1. UNCHANGED <<fetches, head>> /\ DispatchCalls
  BY DEF DispatchTimerFires, storeVars, blockVars
<1>2. CallsAreOfTag'
  BY <1>1, DispatchedCallsAreOfTag DEF FetchInv
<1> QED
  BY <1>1, <1>2 DEF FetchInv, FetchTypes, AreFetches

-----------------------------------------------------------------------------
(* The state and its listeners. *)

\* The state before there is one is a state.
LEMMA NoStateIsAState == NoState \in States
BY DEF NoState, States

\* What is derived from a base state has the type of one.
LEMMA NewStateIsAState ==
  ASSUME NEW base \in [Fields -> 0..MaxBlock \cup {Error, Unread}],
         NEW tag \in 1..MaxBlock \cup {NoTag}
  PROVE  [base |-> base, derived |-> Derive(base), blockTag |-> tag] \in States
<1>1. Derive(base) \in [UsedByDerive -> 0..MaxBlock \cup {Error, Unread}]
  BY DEF Derive, UsedByDerive
<1> QED
  BY <1>1 DEF States

\* Only the base state is set before an exception.
LEMMA BaseAloneIsAState ==
  ASSUME NEW s \in States, NEW base \in [Fields -> 0..MaxBlock \cup {Error, Unread}]
  PROVE  /\ [s EXCEPT !.base = base] \in States
         /\ [s EXCEPT !.base = base].base = base
BY DEF States

\* The values of a fetch that succeed are those of its block, and a base state of them that
\* _derive accepts obeys what a loaded state does.
LEMMA FetchedStateIsLoaded ==
  ASSUME NEW tag \in 1..MaxBlock \cup {NoTag}, NEW base \in Values,
         \A f \in Fields : base[f] \in Answers(tag), Derivable(base)
  PROVE  LoadedInv([base |-> base, derived |-> Derive(base), blockTag |-> tag])
<1> DEFINE s == [base |-> base, derived |-> Derive(base), blockTag |-> tag]
<1>1. s.base = base /\ s.derived = Derive(base) /\ s.blockTag = tag
  OBVIOUS
<1> HIDE DEF s
<1>2. OfItsBlock(s)
  BY <1>1 DEF OfItsBlock, Answers
<1>3. LoadedInv(s)
  BY <1>1, <1>2 DEF LoadedInv
<1> QED
  BY <1>3 DEF s

\* Fees and a price that are no errors are derived from, unless the timestamp is one.
LEMMA DerivableUnlessTimestampFails ==
  ASSUME NEW base \in Values, NEW tag \in 1..MaxBlock \cup {NoTag},
         \A f \in Fields : base[f] \in Answers(tag), TimestampIsRead,
         ~("createFees" \in Fields /\ base["createFees"] = Error),
         "price" \in Fields => base["price"] # Error
  PROVE  Derivable(base)
BY MarksAreNotBlocks DEF TimestampIsRead, Answers, Failures, Derivable, UsedByDerive

\* _load.
LEMMA LoadKeepsState ==
  ASSUME StateInv, ~loaded, NEW base \in Values, NEW tag \in 1..MaxBlock \cup {NoTag},
         \A f \in Fields : base[f] \in Answers(tag),
         Load(base, tag), UNCHANGED <<subscribed, told>>
  PROVE  StateInv'
<1> DEFINE s == [base |-> base, derived |-> Derive(base), blockTag |-> tag]
<1>0. base \in [Fields -> 0..MaxBlock \cup {Error, Unread}] /\ store \in States
  BY DEF Values, StateInv, StoreTypes
<1>1. s \in States
  BY <1>0, NewStateIsAState
<1>2. Derivable(base) => LoadedInv(s)
  BY FetchedStateIsLoaded
<1> HIDE DEF s
<1>3. CASE Derivable(base)
  <2>1. store' = s /\ loaded' = TRUE /\ UNCHANGED toNotify
    BY <1>3 DEF Load, s
  <2>2. StoreTypes' /\ NothingBeforeLoad' /\ LoadedInv(store')
    BY <1>1, <1>2, <1>3, <2>1 DEF StateInv, StoreTypes, NothingBeforeLoad
  <2>3. NotificationsHaveNoGaps'
    <3>1. \A l \in subscribed : told[l] = NoState
      BY DEF StateInv, StoreTypes, NothingBeforeLoad
    <3> QED
      BY <2>1, <3>1 DEF NotificationsHaveNoGaps
  <2> QED
    BY <2>2, <2>3 DEF StateInv
<1>4. CASE ~Derivable(base)
  <2>1. /\ store' = [store EXCEPT !.base = base]
        /\ UNCHANGED <<loaded, updateTimer, toNotify, subscribed, told>>
    BY <1>4 DEF Load
  <2>2. store' \in States
    BY <1>0, <2>1, BaseAloneIsAState
  <2>3. \A l \in subscribed : told[l] = NoState
    BY DEF StateInv, StoreTypes, NothingBeforeLoad
  <2>4. NotificationsHaveNoGaps'
    BY <2>1, <2>3 DEF NotificationsHaveNoGaps
  <2> QED
    BY <2>1, <2>2, <2>4 DEF StateInv, StoreTypes, NothingBeforeLoad
<1> QED
  BY <1>3, <1>4

\* A step of _update that the state survives: it is the whole of one, and all listeners
\* are told, or only the base is set, which needs a timestamp that fails.
LEMMA UpdatedKeepsState ==
  ASSUME StateInv, loaded, UNCHANGED <<loaded, subscribed, told>>,
         store' \in States, LoadedInv(store'), toNotify' = subscribed
  PROVE  StateInv'
BY DEF StateInv, StoreTypes, NothingBeforeLoad, NotificationsHaveNoGaps

\* _update with what was fetched, or not.
LEMMA UpdateKeepsState ==
  ASSUME StateInv, loaded, NEW base \in Values, NEW tag \in 1..MaxBlock,
         \A f \in Fields : base[f] \in Answers(tag),
         ~("createFees" \in Fields /\ base["createFees"] = Error),
         UpdateOrThrow(base, tag), UNCHANGED <<subscribed, told>>
  PROVE  StateInv'
<1> DEFINE s == [base |-> base, derived |-> Derive(base), blockTag |-> tag]
<1>0. /\ base \in [Fields -> 0..MaxBlock \cup {Error, Unread}] /\ store \in States
      /\ tag \in 1..MaxBlock \cup {NoTag} /\ tag # NoTag
  BY MarksAreNotBlocks DEF Values, StateInv, StoreTypes
<1>1. CASE ~Reducible(store.base, base)
  BY <1>1 DEF UpdateOrThrow, StateInv, StoreTypes, NothingBeforeLoad, NotificationsHaveNoGaps
<1>2. CASE Reducible(store.base, base) /\ Derivable(base)
  <2>1. s \in States
    BY <1>0, NewStateIsAState
  <2>2. LoadedInv(s)
    BY <1>0, <1>2, FetchedStateIsLoaded
  <2> HIDE DEF s
  <2>3. store' = s /\ toNotify' = subscribed /\ UNCHANGED loaded
    BY <1>0, <1>2 DEF UpdateOrThrow, Update, TagAfter, s
  <2> QED
    BY <2>1, <2>2, <2>3, UpdatedKeepsState
<1>3. CASE Reducible(store.base, base) /\ ~Derivable(base)
  <2>1. /\ store' = [store EXCEPT !.base = base]
        /\ UNCHANGED <<loaded, toNotify, subscribed, told>>
    BY <1>3 DEF UpdateOrThrow, Update
  <2>2. store' \in States /\ store'.base = base
    BY <1>0, <2>1, BaseAloneIsAState
  <2>3. ~TimestampIsRead
    <3>1. "price" \in Fields => base["price"] # Error
      BY <1>3 DEF Reducible, ComparedByMethod
    <3> QED
      BY <1>0, <1>3, <3>1, DerivableUnlessTimestampFails
  <2>4. LoadedInv(store')
    BY <1>3, <2>2, <2>3 DEF LoadedInv
  <2> QED
    BY <2>1, <2>2, <2>3, <2>4 DEF StateInv, StoreTypes, NothingBeforeLoad
<1> QED
  BY <1>1, <1>2, <1>3

\* The state that no event of the store touches.
LEMMA StateStays ==
  ASSUME StateInv, UNCHANGED <<loaded, store, updateTimer, subscribed, told, toNotify>>
  PROVE  StateInv'
BY DEF StateInv, StoreTypes, NothingBeforeLoad, NotificationsHaveNoGaps

\* A fetch whose reads have all ended.
LEMMA FetchEndsKeepsState ==
  ASSUME FetchInv, StateInv, NEW i \in DOMAIN fetches, FetchEnds(i)
  PROVE  StateInv'
<1> DEFINE base == fetches[i].values
           tag == fetches[i].tag
<1>1. base \in Values /\ tag \in 1..MaxBlock \cup {NoTag}
  <2>1. fetches[i] \in Fetch
    BY DEF FetchInv, FetchTypes, AreFetches
  <2> QED
    BY <2>1 DEF FetchEnds, Fetch
<1>2. \A f \in Fields : base[f] \in Answers(tag)
  <2> SUFFICES ASSUME NEW f \in Fields PROVE base[f] \in Answers(tag)
    OBVIOUS
  <2>1. base[f] \in {Unread, Awaited} \cup Answers(tag)
    BY DEF FetchInv, ReadsAreOfTag
  <2>2. base[f] # Unread /\ base[f] # Awaited
    BY <1>1, MarksAreNotBlocks DEF Values
  <2> QED
    BY <2>1, <2>2
<1>3. UNCHANGED <<subscribed, told>>
  BY DEF FetchEnds
<1>4. \/ UNCHANGED <<store, loaded, updateTimer, toNotify>>
      \/ ~loaded /\ Load(base, tag)
      \/ /\ loaded /\ UpdateOrThrow(base, tag) /\ tag # NoTag
         /\ ~("createFees" \in Fields /\ base["createFees"] = Error)
  BY DEF FetchEnds, FirstFetchLoads, BlockFetchUpdates
<1> HIDE DEF base, tag
<1>5. CASE UNCHANGED <<store, loaded, updateTimer, toNotify>>
  BY <1>3, <1>5, StateStays
<1>6. CASE ~loaded /\ Load(base, tag)
  BY <1>1, <1>2, <1>3, <1>6, LoadKeepsState
<1>7. CASE /\ loaded /\ UpdateOrThrow(base, tag) /\ tag # NoTag
           /\ ~("createFees" \in Fields /\ base["createFees"] = Error)
  BY <1>1, <1>2, <1>3, <1>7, UpdateKeepsState
<1> QED
  BY <1>4, <1>5, <1>6, <1>7

\* Half a minute without an update: what was loaded is derived anew.
LEMMA TimerKeepsState ==
  ASSUME StateInv, UpdateTimerFires
  PROVE  StateInv'
<1>0. /\ store \in States /\ loaded /\ UNCHANGED <<loaded, subscribed, told>>
      /\ Update(store.base, NoTag, FALSE)
  BY DEF UpdateTimerFires, StateInv, StoreTypes, NothingBeforeLoad, Update
<1>1. /\ store.base \in [Fields -> 0..MaxBlock \cup {Error, Unread}]
      /\ store.blockTag \in 1..MaxBlock \cup {NoTag}
  BY <1>0 DEF States
<1> DEFINE s == [base |-> store.base, derived |-> Derive(store.base),
                 blockTag |-> store.blockTag]
<1>2. CASE Derivable(store.base)
  <2>1. s \in States
    BY <1>1, NewStateIsAState
  <2>2. s.base = store.base /\ s.derived = Derive(store.base) /\ s.blockTag = store.blockTag
    OBVIOUS
  <2>3. store' = s /\ toNotify' = subscribed
    BY <1>0, <1>2 DEF Update, TagAfter
  <2> HIDE DEF s
  <2>4. LoadedInv(s)
    BY <1>0, <1>2, <2>2 DEF StateInv, LoadedInv, OfItsBlock
  <2> QED
    BY <1>0, <2>1, <2>3, <2>4, UpdatedKeepsState
<1>3. CASE ~Derivable(store.base)
  <2>1. store' = [store EXCEPT !.base = store.base] /\ UNCHANGED toNotify
    BY <1>0, <1>3 DEF Update
  <2>2. store' \in States /\ store'.base = store.base
    BY <1>0, <1>1, <2>1, BaseAloneIsAState
  <2>3. ~TimestampIsRead
    BY <1>0, <1>3 DEF StateInv, LoadedInv
  <2>4. LoadedInv(store')
    BY <1>0, <1>3, <2>2, <2>3 DEF StateInv, LoadedInv
  <2> QED
    BY <1>0, <2>1, <2>2, <2>3, <2>4 DEF StateInv, StoreTypes, NothingBeforeLoad
<1> QED
  BY <1>2, <1>3

\* A listener comes, ...
LEMMA SubscribeKeepsState ==
  ASSUME StateInv, NEW l \in Listeners, Subscribe(l)
  PROVE  StateInv'
<1>1. /\ UNCHANGED <<loaded, store, updateTimer, toNotify>> /\ toNotify = {}
      /\ subscribed' = subscribed \cup {l}
      /\ told' = [told EXCEPT ![l] = IF loaded THEN store ELSE NoState]
  BY DEF Subscribe, Subscribed, Idle
<1>2. told' \in [Listeners -> States] /\ (~loaded => \A m \in Listeners : told'[m] = NoState)
  BY <1>1, NoStateIsAState DEF StateInv, StoreTypes, NothingBeforeLoad
<1>3. NotificationsHaveNoGaps => NotificationsHaveNoGaps'
  <2> SUFFICES ASSUME NotificationsHaveNoGaps, NEW m \in subscribed \cup {l}
               PROVE  told'[m] \in {NoState, store}
    BY <1>1 DEF NotificationsHaveNoGaps
  <2>1. m \in Listeners /\ told \in [Listeners -> States]
    BY DEF StateInv, StoreTypes
  <2>2. m # l => told[m] \in {NoState, store}
    BY <1>1 DEF NotificationsHaveNoGaps
  <2> QED
    BY <1>1, <2>1, <2>2
<1> QED
  BY <1>1, <1>2, <1>3 DEF StateInv, StoreTypes, NothingBeforeLoad

\* ... or goes, ...
LEMMA UnsubscribeKeepsState ==
  ASSUME StateInv, NEW l \in Listeners, Unsubscribe(l)
  PROVE  StateInv'
<1>1. /\ UNCHANGED <<loaded, store, updateTimer, toNotify>>
      /\ subscribed' = subscribed \ {l} /\ told' = [told EXCEPT ![l] = NoState]
  BY DEF Unsubscribe
<1>2. told' \in [Listeners -> States] /\ (~loaded => \A m \in Listeners : told'[m] = NoState)
  BY <1>1, NoStateIsAState DEF StateInv, StoreTypes, NothingBeforeLoad
<1>3. NotificationsHaveNoGaps => NotificationsHaveNoGaps'
  BY <1>1 DEF StateInv, StoreTypes, NotificationsHaveNoGaps
<1> QED
  BY <1>1, <1>2, <1>3 DEF StateInv, StoreTypes, NothingBeforeLoad

\* ... or is told, and lets others come or go.
LEMMA NotificationKeepsState ==
  ASSUME StateInv, NEW l \in Listeners, NotifyNext(l)
  PROVE  StateInv'
<1>0. UNCHANGED <<loaded, store, updateTimer>> /\ loaded /\ l \in toNotify
  BY DEF NotifyNext, StateInv, StoreTypes, NothingBeforeLoad
<1>1. CASE l \notin subscribed
  <2>1. toNotify' = toNotify \ {l} /\ UNCHANGED <<subscribed, told>>
    BY <1>1 DEF NotifyNext
  <2>2. NotificationsHaveNoGaps => NotificationsHaveNoGaps'
    BY <1>0, <1>1, <2>1 DEF NotificationsHaveNoGaps
  <2> QED
    BY <1>0, <2>1, <2>2 DEF StateInv, StoreTypes, NothingBeforeLoad
<1>2. CASE l \in subscribed
  <2>1. PICK gone \in SUBSET Listeners, come \in SUBSET Listeners :
          /\ subscribed' = (subscribed \ gone) \cup come
          /\ told' = [m \in Listeners |-> IF m \in gone THEN NoState
                                          ELSE IF m \in come \cup {l} THEN store ELSE told[m]]
          /\ toNotify' = toNotify \ ({l} \cup come)
          /\ gone \subseteq subscribed /\ come \cap subscribed = {}
    BY <1>2 DEF NotifyNext
  <2>2. told' \in [Listeners -> States]
    BY <2>1, NoStateIsAState DEF StateInv, StoreTypes
  <2>3. NotificationsHaveNoGaps => NotificationsHaveNoGaps'
    <3> SUFFICES ASSUME NotificationsHaveNoGaps, NEW m \in subscribed' \ toNotify'
                 PROVE  told'[m] \in {NoState, store}
      BY <1>0 DEF NotificationsHaveNoGaps
    <3>1. m \in Listeners
      BY <2>1 DEF StateInv, StoreTypes
    <3>2. CASE m \in gone \/ m \in come \cup {l}
      BY <2>1, <3>1, <3>2
    <3>3. CASE m \notin gone /\ m \notin come \cup {l}
      <4>1. told'[m] = told[m] /\ m \in subscribed \ toNotify
        BY <2>1, <3>1, <3>3
      <4> QED
        BY <4>1 DEF NotificationsHaveNoGaps
    <3> QED
      BY <3>2, <3>3
  <2> QED
    BY <1>0, <2>1, <2>2, <2>3 DEF StateInv, StoreTypes, NothingBeforeLoad
<1> QED
  BY <1>1, <1>2

\* stop() clears the timer.
LEMMA StopKeepsState ==
  ASSUME StateInv, Stop
  PROVE  StateInv'
BY DEF Stop, StateInv, StoreTypes, NothingBeforeLoad, NotificationsHaveNoGaps

-----------------------------------------------------------------------------
(* The specification. *)

\* The invariant holds at first.
LEMMA StoreInvInit == Init => StoreInv
<1> SUFFICES ASSUME Init PROVE StoreInv
  OBVIOUS
<1>1. FetchInv
  <2>1. fetches \in [1..0 -> Fetch] /\ DOMAIN fetches = {}
    BY DEF Init, InitStore
  <2>2. batched.calls = {} /\ requests = {} /\ head \in 0..MaxBlock
    BY MarksAreNotBlocks DEF Init, InitBatch, EmptyBatch
  <2> QED
    BY <2>1, <2>2 DEF FetchInv, FetchTypes, AreFetches, CallsAreOfTag, ReadsAreOfTag
<1>2. BlockInv
  BY DEF Init, BlockInv
<1>3. StateInv
  BY NoStateIsAState
  DEF Init, InitStore, StateInv, StoreTypes, NothingBeforeLoad, NotificationsHaveNoGaps
<1> QED
  BY <1>1, <1>2, <1>3 DEF StoreInv

\* Blocks are seen in their order.
LEMMA SeenBlocks ==
  ASSUME BlockInv, FetchTypes, Next
  PROVE  BlockInv' /\ head' \in 0..MaxBlock
<1>0. head \in 0..MaxBlock /\ seenBlock \in 0..head /\ (listenerScheduled => seenBlock > 0)
  BY DEF BlockInv, FetchTypes
<1>1. CASE NewBlock
  BY <1>0, <1>1, MarksAreNotBlocks DEF NewBlock, BlockInv
<1>2. CASE OnBlock
  BY <1>0, <1>2 DEF OnBlock, ListenersScheduled, BlockInv
<1>3. CASE CallBlockListeners
  BY <1>0, <1>3 DEF CallBlockListeners, BlockInv
<1>4. CASE UNCHANGED blockVars
  BY <1>0, <1>4 DEF blockVars, BlockInv
<1> QED
  BY <1>1, <1>2, <1>3, <1>4
  DEF Next, Callback, AnyReadReachesProvider, AnyAnswer, AnyFetchEnds, FetchStep, Notification,
      User, TimerStep, ReadReachesProvider, DispatchTimerFires, NodeAnswers

\* Every callback keeps the invariant, ...
LEMMA CallbackKeepsStore ==
  ASSUME StoreInv, Callback
  PROVE  FetchInv' /\ StateInv'
<1>0. FetchInv /\ BlockInv /\ StateInv
  BY DEF StoreInv
<1>1. CASE CallBlockListeners
  <2>1. CASE listening
    <3>1. HearBlock(seenBlock) /\ UNCHANGED <<batchVars, head>>
      BY <1>1, <2>1 DEF CallBlockListeners, SeenBlockAsked
    <3>2. seenBlock \in 1..MaxBlock \cup {NoTag}
      <4>1. listenerScheduled /\ seenBlock \in 0..head /\ seenBlock > 0 /\ head \in 0..MaxBlock
        BY <1>0, <1>1 DEF CallBlockListeners, BlockInv, FetchInv, FetchTypes
      <4> QED
        BY <4>1, MarksAreNotBlocks
    <3>3. FetchAdded(seenBlock)
          /\ UNCHANGED <<loaded, store, updateTimer, subscribed, told, toNotify>>
      BY <3>1 DEF HearBlock
    <3> QED
      BY <1>0, <3>1, <3>2, <3>3, AddedKeepsFetches, StateStays
  <2>2. CASE ~listening
    <3>1. UNCHANGED <<storeVars, batchVars, head>>
      BY <1>1, <2>2 DEF CallBlockListeners
    <3> QED
      BY <1>0, <3>1, OtherStepsKeepFetches, StateStays DEF storeVars, FetchInv, FetchTypes
  <2> QED
    BY <2>1, <2>2
<1>2. ASSUME NEW i \in DOMAIN fetches, NEW f \in Fields, ReadReachesProvider(i, f)
      PROVE  FetchInv' /\ StateInv'
  BY <1>0, <1>2, ReadReachesProviderKeepsFetches, StateStays
  DEF ReadReachesProvider, ReadAdvances
<1>3. CASE DispatchTimerFires
  BY <1>0, <1>3, DispatchKeepsFetches, StateStays DEF DispatchTimerFires, storeVars
<1>4. ASSUME NEW r \in requests, NodeAnswers(r)
      PROVE  FetchInv' /\ StateInv'
  BY <1>0, <1>4, AnswerKeepsFetches, StateStays DEF NodeAnswers, ReadAdvances
<1>5. ASSUME NEW i \in DOMAIN fetches, FetchStep(i)
      PROVE  FetchInv' /\ StateInv'
  <2>1. FetchEnds(i) /\ UNCHANGED <<batchVars, head>> /\ fetches' = Closed(i)
    BY <1>5 DEF FetchStep, FetchEnds, blockVars
  <2> QED
    BY <1>0, <2>1, EndKeepsFetches, FetchEndsKeepsState
<1> QED
  BY <1>1, <1>2, <1>3, <1>4, <1>5 DEF Callback, AnyReadReachesProvider, AnyAnswer, AnyFetchEnds

\* ... and so do users, listeners and the timer.
LEMMA OtherStepKeepsStore ==
  ASSUME StoreInv, head' \in 0..MaxBlock,
         NewBlock \/ OnBlock \/ Notification \/ User \/ TimerStep
  PROVE  FetchInv' /\ StateInv'
<1>0. FetchInv /\ BlockInv /\ StateInv
  BY DEF StoreInv
<1>1. CASE NewBlock \/ OnBlock
  BY <1>0, <1>1, OtherStepsKeepFetches, StateStays DEF NewBlock, OnBlock, storeVars
<1>2. CASE Notification
  <2>1. PICK l \in Listeners : NotifyNext(l)
    BY <1>2 DEF Notification
  <2>2. UNCHANGED <<batchVars, fetches>>
    BY <1>2 DEF Notification, NotifyNext
  <2> QED
    BY <1>0, <2>1, <2>2, OtherStepsKeepFetches, NotificationKeepsState
<1>3. CASE TimerStep
  <2>1. UpdateTimerFires /\ UNCHANGED <<batchVars, fetches>>
    BY <1>3 DEF TimerStep, UpdateTimerFires
  <2> QED
    BY <1>0, <2>1, OtherStepsKeepFetches, TimerKeepsState
<1>4. CASE User
  <2>0. UNCHANGED <<batchVars, blockVars>>
    BY <1>4 DEF User
  <2>1. CASE Start
    BY <1>0, <2>0, <2>1, AddedKeepsFetches, StateStays DEF Start, blockVars
  <2>2. CASE Stop
    BY <1>0, <2>0, <2>2, OtherStepsKeepFetches, StopKeepsState DEF Stop
  <2>3. ASSUME NEW l \in Listeners, Subscribe(l)
        PROVE  FetchInv' /\ StateInv'
    BY <1>0, <2>0, <2>3, OtherStepsKeepFetches, SubscribeKeepsState DEF Subscribe
  <2>4. ASSUME NEW l \in Listeners, Unsubscribe(l)
        PROVE  FetchInv' /\ StateInv'
    BY <1>0, <2>0, <2>4, OtherStepsKeepFetches, UnsubscribeKeepsState DEF Unsubscribe
  <2> QED
    BY <1>4, <2>1, <2>2, <2>3, <2>4 DEF User
<1> QED
  BY <1>1, <1>2, <1>3, <1>4

\* The invariant is inductive.
LEMMA StoreInvNext == StoreInv /\ [Next]_vars => StoreInv'
<1> SUFFICES ASSUME StoreInv, [Next]_vars PROVE StoreInv'
  OBVIOUS
<1>0. FetchInv /\ BlockInv /\ StateInv
  BY DEF StoreInv
<1>1. CASE UNCHANGED vars
  <2>1. UNCHANGED <<batchVars, head, seenBlock, listenerScheduled, fetches, loaded, store,
                    updateTimer, subscribed, told, toNotify>>
    BY <1>1 DEF vars, storeVars, blockVars
  <2>2. BlockInv' /\ head' \in 0..MaxBlock
    BY <1>0, <2>1 DEF BlockInv, FetchInv, FetchTypes
  <2> QED
    BY <1>0, <2>1, <2>2, OtherStepsKeepFetches, StateStays DEF StoreInv
<1>2. CASE Next
  <2>1. BlockInv' /\ head' \in 0..MaxBlock
    BY <1>0, <1>2, SeenBlocks DEF FetchInv
  <2> QED
    BY <1>2, <2>1, CallbackKeepsStore, OtherStepKeepsStore DEF Next, StoreInv
<1> QED
  BY <1>1, <1>2

\* The inductive invariant holds in every reachable state, whatever fails.
THEOREM StoreInvHolds == Spec => []StoreInv
BY StoreInvInit, StoreInvNext, PTL DEF Spec

\* A batch never mixes calls for different blocks (_alreadyBatchedCallsConflictWith), and each
\* read that a fetch has is of the block the fetch asked for, or the error it ended with.
THEOREM ReadsAreOfTheirBlock == Spec => [](CallsAreOfTag /\ ReadsAreOfTag(fetches))
<1>1. StoreInv => CallsAreOfTag /\ ReadsAreOfTag(fetches)
  BY DEF StoreInv, FetchInv
<1> QED
  BY <1>1, StoreInvHolds, PTL

\* If no block timestamp fails, the whole base state of a loaded store, whose listeners are
\* told of it, is of the block that blockTag names but for errors of single reads, and its
\* derived state is derived from it (_load, _update).
THEOREM BaseIsOfItsBlock ==
  ASSUME TimestampIsRead
  PROVE  Spec => [](loaded => OfItsBlock(store) /\ DerivedFromBase(store))
<1>1. StoreInv => (loaded => OfItsBlock(store) /\ DerivedFromBase(store))
  BY DEF StoreInv, StateInv, LoadedInv, DerivedFromBase
<1> QED
  BY <1>1, StoreInvHolds, PTL

\* "Number of block that the store state was fetched from" (BlockPolledMoneypStore.ts:30):
\* every field of the store but for errors of single reads, and everything derived from
\* them, are of that block, whatever fails and however fetches overtake each other, unless
\* _derive has just thrown at the base state.
THEOREM StateIsOfItsBlockHolds == Spec => []StateIsOfItsBlock
<1>1. StoreInv => StateIsOfItsBlock
  BY DEF StoreInv, StateInv, LoadedInv, OfItsBlock, StateIsOfItsBlock
<1> QED
  BY <1>1, StoreInvHolds, PTL

\* If no block timestamp fails, a listener has been told the current state or is about to
\* be, whatever listeners subscribe and unsubscribe while _notify walks its copy.
THEOREM NotificationsHaveNoGapsHolds ==
  ASSUME TimestampIsRead
  PROVE  Spec => []NotificationsHaveNoGaps
<1>1. StoreInv => NotificationsHaveNoGaps
  BY DEF StoreInv, StateInv
<1> QED
  BY <1>1, StoreInvHolds, PTL

\* A fetch that does not end now stays open.
LEMMA OthersStayOpen ==
  ASSUME StoreInv, [Next]_vars, NEW i \in DOMAIN fetches, Open(i), ~FetchEnds(i)
  PROVE  fetches'[i].open
<1>1. PICK n \in Nat : fetches \in [1..n -> Fetch]
  BY DEF StoreInv, FetchInv, FetchTypes, AreFetches
<1>2. CASE UNCHANGED fetches
  BY <1>2 DEF Open
<1>3. ASSUME NEW tag, FetchAdded(tag)
      PROVE  fetches'[i].open
  <2>1. DOMAIN fetches = 1..n /\ Cardinality(1..n) = n
    <3>1. Cardinality(1..n) = IF 1 > n THEN 0 ELSE (n - 1) + 1
      BY <1>1, FS_Interval
    <3> QED
      BY <1>1, <3>1
  <2>2. i \in 1..(Cardinality(DOMAIN fetches) + 1)
    BY <2>1
  <2>3. fetches'[i] = fetches[i]
    BY <1>3, <2>2 DEF FetchAdded
  <2> QED
    BY <2>3 DEF Open
<1>4. ASSUME NEW reads, NEW value, ReadAdvances(reads, value)
      PROVE  fetches'[i].open
  <2> DEFINE advanced == [f \in Fields |-> IF <<i, f>> \in reads THEN value
                                           ELSE fetches[i].values[f]]
  <2>1. fetches'[i] = [fetches[i] EXCEPT !.values = advanced]
    BY <1>4 DEF ReadAdvances
  <2>2. fetches[i] \in Fetch
    BY <1>1
  <2> HIDE DEF advanced
  <2> QED
    BY <2>1, <2>2 DEF Fetch, Open
<1>5. ASSUME NEW j \in DOMAIN fetches, FetchEnds(j)
      PROVE  fetches'[i].open
  <2>1. i # j
    BY <1>5
  <2>2. fetches' = Closed(j)
    BY <1>5 DEF FetchEnds
  <2>3. fetches'[i] = fetches[i]
    BY <2>1, <2>2, ClosedFetch DEF StoreInv, FetchInv, FetchTypes
  <2> QED
    BY <2>3 DEF Open
<1>6. CASE UNCHANGED vars
  BY <1>2, <1>6 DEF vars, storeVars
<1>7. CASE NewBlock \/ OnBlock \/ Notification \/ TimerStep \/ DispatchTimerFires
  BY <1>2, <1>7 DEF NewBlock, OnBlock, Notification, NotifyNext, TimerStep, UpdateTimerFires,
                    DispatchTimerFires, storeVars
<1>8. CASE User
  BY <1>2, <1>3, <1>8 DEF User, Start, Stop, Subscribe, Unsubscribe
<1>9. CASE CallBlockListeners
  BY <1>2, <1>3, <1>9 DEF CallBlockListeners, SeenBlockAsked, HearBlock, storeVars
<1>10. CASE AnyReadReachesProvider
  BY <1>4, <1>10 DEF AnyReadReachesProvider, ReadReachesProvider
<1>11. CASE AnyAnswer
  BY <1>4, <1>11 DEF AnyAnswer, NodeAnswers
<1>12. CASE AnyFetchEnds
  BY <1>5, <1>12 DEF AnyFetchEnds, FetchStep
<1> QED
  BY <1>6, <1>7, <1>8, <1>9, <1>10, <1>11, <1>12 DEF Next, Callback

\* A fetch of a block that succeeds gives the store its block.
LEMMA SucceededFetchUpdates ==
  ASSUME NEW i \in DOMAIN fetches, Succeeded(i), FetchEnds(i), loaded => Comparable(store)
  PROVE  loaded' /\ store'.blockTag = fetches[i].tag /\ store'.base = fetches[i].values
<1> DEFINE base == fetches[i].values
           tag == fetches[i].tag
<1>1. \A f \in Fields : base[f] # Error
  BY DEF Succeeded, Error
<1>2. tag # NoTag
  BY DEF Succeeded
<1> DEFINE s == [base |-> base, derived |-> Derive(base), blockTag |-> tag]
<1>3. Derivable(base)
  BY <1>1 DEF Derivable, UsedByDerive
<1>4. CASE ~loaded
  <2>1. Load(base, tag)
    BY <1>1, <1>2, <1>4 DEF FetchEnds, BlockFetchUpdates
  <2>2. store' = s /\ loaded' = TRUE
    BY <1>3, <2>1 DEF Load
  <2> QED
    BY <2>2
<1>5. CASE loaded
  <2>1. UpdateOrThrow(base, tag)
    BY <1>1, <1>2, <1>5 DEF FetchEnds, BlockFetchUpdates
  <2>2. Reducible(store.base, base)
    BY <1>1, <1>5 DEF Reducible, Comparable, ComparedByMethod
  <2>3. store' = s /\ UNCHANGED loaded
    BY <1>2, <1>3, <2>1, <2>2 DEF UpdateOrThrow, Update, TagAfter
  <2> QED
    BY <1>5, <2>3
<1> QED
  BY <1>4, <1>5

\* What _update stores has been compared with what was there.
LEMMA UpdateStaysComparable ==
  ASSUME NEW base, NEW tag, NEW timer, store \in States,
         base \in [Fields -> 0..MaxBlock \cup {Error, Unread}],
         \A f \in ComparedByMethod : base[f] # Error, Update(base, tag, timer)
  PROVE  Comparable(store')
<1>1. CASE Derivable(base)
  BY <1>1 DEF Update, Comparable
<1>2. CASE ~Derivable(base)
  <2>1. store' = [store EXCEPT !.base = base]
    BY <1>2 DEF Update
  <2>2. store'.base = base
    BY <2>1, BaseAloneIsAState
  <2> QED
    BY <2>2 DEF Comparable
<1> QED
  BY <1>1, <1>2

\* No step brings the error of a balance to a loaded store that has none.
LEMMA StaysComparable ==
  ASSUME StoreInv, [Next]_vars, loaded, Comparable(store)
  PROVE  Comparable(store')
<1>0. store \in States /\ store.base \in [Fields -> 0..MaxBlock \cup {Error, Unread}]
  BY DEF StoreInv, StateInv, StoreTypes, States
<1>1. CASE UNCHANGED store
  BY <1>1 DEF Comparable
<1>2. ASSUME NEW i \in DOMAIN fetches, FetchEnds(i)
      PROVE  Comparable(store')
  <2> DEFINE base == fetches[i].values
  <2>1. base \in [Fields -> 0..MaxBlock \cup {Error, Unread}]
    BY <1>2 DEF FetchEnds, Values
  <2>2. UNCHANGED store \/ UpdateOrThrow(base, fetches[i].tag)
    BY <1>2 DEF FetchEnds, FirstFetchLoads, BlockFetchUpdates
  <2>3. CASE UpdateOrThrow(base, fetches[i].tag) /\ Reducible(store.base, base)
    BY <1>0, <2>1, <2>3, UpdateStaysComparable DEF UpdateOrThrow, Reducible
  <2>4. CASE UpdateOrThrow(base, fetches[i].tag) /\ ~Reducible(store.base, base)
    BY <1>1, <2>4 DEF UpdateOrThrow
  <2> QED
    BY <1>1, <2>2, <2>3, <2>4
<1>3. CASE TimerStep
  BY <1>0, <1>3, UpdateStaysComparable DEF TimerStep, UpdateTimerFires, Comparable
<1>4. CASE AnyFetchEnds
  BY <1>2, <1>4 DEF AnyFetchEnds, FetchStep
<1>5. CASE NewBlock \/ OnBlock \/ Notification \/ User \/ CallBlockListeners \/ DispatchTimerFires
  BY <1>1, <1>5 DEF NewBlock, OnBlock, Notification, NotifyNext, User, Start, Stop, Subscribe,
       Unsubscribe, CallBlockListeners, SeenBlockAsked, HearBlock, DispatchTimerFires, storeVars
<1>6. CASE AnyReadReachesProvider \/ AnyAnswer
  BY <1>1, <1>6 DEF AnyReadReachesProvider, ReadReachesProvider, AnyAnswer, NodeAnswers, ReadAdvances
<1>7. CASE UNCHANGED vars
  BY <1>1, <1>7 DEF vars, storeVars
<1> QED
  BY <1>3, <1>4, <1>5, <1>6, <1>7 DEF Next, Callback

\* The store "updates state whenever there's a new block" (BlockPolledMoneypStore.ts:67),
\* unless it was loaded with the error of a balance: a fetch of a block all of whose reads
\* have succeeded gives any other store that block's state, whatever failed before.
THEOREM BlocksUpdateStateHolds == Spec => BlocksUpdateState
<1>1. StoreInv /\ [Next]_vars =>
        /\ loaded /\ Comparable(store) => Comparable(store')
        /\ \A i \in DOMAIN fetches :
             Succeeded(i) /\ ~fetches'[i].open /\ (loaded => Comparable(store)) =>
               loaded' /\ store'.blockTag = fetches[i].tag /\ store'.base = fetches[i].values
  BY OthersStayOpen, SucceededFetchUpdates, StaysComparable DEF Succeeded
<1> QED
  BY <1>1, StoreInvHolds, PTL DEF Spec, BlocksUpdateState
=============================================================================
