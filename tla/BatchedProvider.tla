--------------------------- MODULE BatchedProvider ---------------------------
(***************************************************************************)
(* BatchedProvider.ts: calls for the same block that arrive within the     *)
(* batching delay are sent to the node as one request.                     *)
(*                                                                         *)
(* A call runs up to its first await without touching the batch; from the  *)
(* await on it is one step here.  A request is answered or rejected as a   *)
(* whole.                                                                  *)
(***************************************************************************)
EXTENDS Integers, FiniteSets

CONSTANT HasMulticall    \* whether the network has a Multicall contract

NoTag == -1       \* an undefined block tag, which is compared as "latest"

VARIABLES
  batched,        \* _batched: the calls and their block tag
  dispatchTimer,  \* whether the timer of _timeoutId is running
  requests        \* requests sent to the node and not yet answered

batchVars == <<batched, dispatchTimer, requests>>

EmptyBatch == [calls |-> {}, tag |-> NoTag]

InitBatch == batched = EmptyBatch /\ dispatchTimer = FALSE /\ requests = {}

NeverConflict(tag) == FALSE                             \* mutant
AlreadyBatchedCallsConflictWith(tag) ==
  batched.calls # {} /\ tag # batched.tag

ClearTimerOnly(c, tag) ==                               \* mutant
  /\ batched' = [calls |-> batched.calls \cup {c},
                 tag |-> IF batched.calls = {} THEN tag ELSE batched.tag]
  /\ dispatchTimer' = (batched.calls = {})
  /\ UNCHANGED requests
\* _enqueueCall starts the timer anew.
EnqueueCall(c, tag) ==
  /\ batched' = [calls |-> batched.calls \cup {c},
                 tag |-> IF batched.calls = {} THEN tag ELSE batched.tag]
  /\ dispatchTimer' = TRUE
  /\ UNCHANGED requests

SendAlone(c, tag) ==
  /\ requests' = requests \cup {[calls |-> {c}, tag |-> tag]}
  /\ UNCHANGED <<batched, dispatchTimer>>

Call(c, tag) ==
  IF HasMulticall /\ ~AlreadyBatchedCallsConflictWith(tag)
  THEN EnqueueCall(c, tag) ELSE SendAlone(c, tag)

DispatchCalls ==
  /\ dispatchTimer
  /\ dispatchTimer' = FALSE
  /\ requests' = requests \cup {batched}
  /\ batched' = EmptyBatch

\* The node's answer to r arrives, and the calls of r are resolved or rejected.
RequestEnds(r) ==
  /\ r \in requests
  /\ requests' = requests \ {r}
  /\ UNCHANGED <<batched, dispatchTimer>>
=============================================================================
