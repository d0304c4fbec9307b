---------------------------- MODULE SortedVaults ----------------------------
(***************************************************************************)
(* SortedVaults.sol: the doubly linked list of vaults, with insertion from *)
(* the caller's hints.  Every action is one call of insert, remove or      *)
(* reInsert by BorrowerOperations or VaultManager; a failing require is a  *)
(* guard.  ratio is what VaultManager.getNominalICR answers.               *)
(***************************************************************************)
EXTENDS ListOrder

CONSTANTS
  Ids,        \* addresses of vault owners
  NoId,       \* address(0)
  MaxSize,    \* data.maxSize
  Ratios,     \* nominal ratios of vaults with debt
  Infinite    \* the nominal ratio of an address without debt
VARIABLES
  data,       \* head, tail, size and nodes
  ratio

vars == <<data, ratio>>

NoNode == [exists |-> FALSE, nextId |-> NoId, prevId |-> NoId]

Addresses == Ids \cup {NoId}

ContainsId(d, v) == d.nodes[v].exists

----------------------------------------------------------------------------
\* Where to insert: d is the list, r the ratios, x the ratio of the new node.

ValidInsertPosition(d, r, x, prev, next) ==
  CASE prev = NoId /\ next = NoId -> d.size = 0
    [] prev = NoId /\ next # NoId -> d.head = next /\ x >= r[next]
    [] prev # NoId /\ next = NoId -> d.tail = prev /\ x <= r[prev]
    [] OTHER -> /\ d.nodes[prev].nextId = next
                /\ r[prev] >= x /\ x >= r[next]

\* The n-th node after (or before) start.
After(d, start) ==
  LET at[n \in 0..Cardinality(Addresses)] == IF n = 0 THEN start ELSE d.nodes[at[n - 1]].nextId
  IN at

Before(d, start) ==
  LET at[n \in 0..Cardinality(Addresses)] == IF n = 0 THEN start ELSE d.nodes[at[n - 1]].prevId
  IN at

\* The loops of _descendList and _ascendList: how many steps they take, at most
\* one per node of a well-formed list.
DescendSteps(d, r, x, start) ==
  {n \in 0..Cardinality(Addresses) :
     LET p == After(d, start)[n] IN p = NoId \/ ValidInsertPosition(d, r, x, p, d.nodes[p].nextId)}

AscendSteps(d, r, x, start) ==
  {n \in 0..Cardinality(Addresses) :
     LET p == Before(d, start)[n] IN p = NoId \/ ValidInsertPosition(d, r, x, d.nodes[p].prevId, p)}

DescendList(d, r, x, start) ==
  IF d.head = start /\ x >= r[start] THEN <<NoId, start>>
  ELSE LET p == After(d, start)[Min(DescendSteps(d, r, x, start))]
       IN <<p, d.nodes[p].nextId>>

AscendList(d, r, x, start) ==
  IF d.tail = start /\ x <= r[start] THEN <<start, NoId>>
  ELSE LET n == Before(d, start)[Min(AscendSteps(d, r, x, start))]
       IN <<d.nodes[n].prevId, n>>

\* A hint that left the list, or whose ratio no longer fits, is dropped.
StaleHintKept(d, r, x, prev, next) ==                   \* mutant
  IF prev # NoId THEN DescendList(d, r, x, prev)
  ELSE IF next # NoId THEN AscendList(d, r, x, next)
  ELSE DescendList(d, r, x, d.head)
FindInsertPosition(d, r, x, prev, next) ==
  LET p == IF prev # NoId /\ (~ContainsId(d, prev) \/ x > r[prev]) THEN NoId ELSE prev
      n == IF next # NoId /\ (~ContainsId(d, next) \/ x < r[next]) THEN NoId ELSE next
  IN CASE p = NoId /\ n = NoId -> DescendList(d, r, x, d.head)
       [] p = NoId /\ n # NoId -> AscendList(d, r, x, n)
       [] OTHER -> DescendList(d, r, x, p)

InsertPosition(d, r, x, prev, next) ==
  IF ValidInsertPosition(d, r, x, prev, next) THEN <<prev, next>>
  ELSE FindInsertPosition(d, r, x, prev, next)

----------------------------------------------------------------------------
\* The list after an insertion between prev and next, and after a removal.

InsertedBetween(d, v, prev, next) ==
  LET nodes == [d.nodes EXCEPT ![v].exists = TRUE]
      size == d.size + 1
  IN CASE prev = NoId /\ next = NoId ->
            [head |-> v, tail |-> v, size |-> size, nodes |-> nodes]
       [] prev = NoId /\ next # NoId ->
            [head |-> v, tail |-> d.tail, size |-> size,
             nodes |-> [nodes EXCEPT ![v].nextId = d.head, ![d.head].prevId = v]]
       [] prev # NoId /\ next = NoId ->
            [head |-> d.head, tail |-> v, size |-> size,
             nodes |-> [nodes EXCEPT ![v].prevId = d.tail, ![d.tail].nextId = v]]
       [] OTHER ->
            [d EXCEPT !.size = size,
                      !.nodes = [nodes EXCEPT ![v].nextId = next, ![v].prevId = prev,
                                              ![prev].nextId = v, ![next].prevId = v]]

RemovedOneWay(d, v) ==                                  \* mutant
  LET node == d.nodes[v]
      unlinked ==
        CASE d.size <= 1 -> [d EXCEPT !.head = NoId, !.tail = NoId]
          [] d.size > 1 /\ v = d.head -> [d EXCEPT !.head = node.nextId]
          [] d.size > 1 /\ v # d.head /\ v = d.tail ->
               [d EXCEPT !.tail = node.prevId, !.nodes[node.prevId].nextId = NoId]
          [] OTHER -> [d EXCEPT !.nodes[node.prevId].nextId = node.nextId]
  IN [unlinked EXCEPT !.size = @ - 1, !.nodes[v] = NoNode]
Removed(d, v) ==
  LET node == d.nodes[v]
      unlinked ==
        CASE d.size <= 1 -> [d EXCEPT !.head = NoId, !.tail = NoId]
          [] d.size > 1 /\ v = d.head ->
               [d EXCEPT !.head = node.nextId, !.nodes[node.nextId].prevId = NoId]
          [] d.size > 1 /\ v # d.head /\ v = d.tail ->
               [d EXCEPT !.tail = node.prevId, !.nodes[node.prevId].nextId = NoId]
          [] OTHER ->
               [d EXCEPT !.nodes[node.prevId].nextId = node.nextId,
                         !.nodes[node.nextId].prevId = node.prevId]
  IN [unlinked EXCEPT !.size = @ - 1, !.nodes[v] = NoNode]

\* _insert, from hints that may be any addresses.
Inserted(d, r, v, x, prev, next) ==
  LET at == InsertPosition(d, r, x, prev, next)
  IN InsertedBetween(d, v, at[1], at[2])

----------------------------------------------------------------------------
Init ==
  /\ data = [head |-> NoId, tail |-> NoId, size |-> 0, nodes |-> [a \in Addresses |-> NoNode]]
  /\ ratio = [a \in Addresses |-> Infinite]

\* The vault of v has got ratio x when insert is called.
Insert(v, x, prev, next) ==
  /\ data.size # MaxSize
  /\ ~ContainsId(data, v)
  /\ ratio' = [ratio EXCEPT ![v] = x]
  /\ data' = Inserted(data, ratio', v, x, prev, next)

RemoveId(v) ==
  /\ ContainsId(data, v)
  /\ data' = Removed(data, v)
  /\ ratio' = [ratio EXCEPT ![v] = Infinite]

ReInsert(v, x, prev, next) ==
  /\ ContainsId(data, v)
  /\ ratio' = [ratio EXCEPT ![v] = x]
  /\ data' = Inserted(Removed(data, v), ratio', v, x, prev, next)

\* What getNominalICR answers changes as rewards accrue.
Accrue ==
  /\ \E r \in [{v \in Ids : ContainsId(data, v)} -> Ratios] :
       ratio' = [a \in Addresses |-> IF a \in DOMAIN r THEN r[a] ELSE ratio[a]]
  /\ UNCHANGED data

Next ==
  \/ \E v \in Ids :
       \/ RemoveId(v)
       \/ \E x \in Ratios, prev, next \in Addresses :
            Insert(v, x, prev, next) \/ ReInsert(v, x, prev, next)
  \/ Accrue

Spec == Init /\ [][Next]_vars

----------------------------------------------------------------------------
\* Properties

\* The sequence of nodes that the next pointers run through.
ListOf(d) == [i \in 1..d.size |-> After(d, d.head)[i - 1]]

\* The pointers form one list: size distinct nodes from head to tail, each
\* previous pointer the mirror of a next pointer, and nothing dangling.
WellFormed ==
  LET list == ListOf(data)
  IN /\ Range(list) = {v \in Ids : ContainsId(data, v)}
     /\ Cardinality(Range(list)) = data.size /\ data.size <= MaxSize
     /\ data.size > 0 => data.tail = list[data.size]
     /\ \A i \in 1..data.size :
          /\ data.nodes[list[i]].prevId = (IF i = 1 THEN NoId ELSE list[i - 1])
          /\ data.nodes[list[i]].nextId = (IF i = data.size THEN NoId ELSE list[i + 1])
     /\ \A a \in Addresses : ~ContainsId(data, a) => data.nodes[a] = NoNode

\* The linked list with its hints does what VaultList says.
VL == INSTANCE VaultList WITH list <- ListOf(data), ratio <- [v \in Ids |-> ratio[v]]

ImplementsVaultList == VL!Spec
=============================================================================
