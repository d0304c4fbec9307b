------------------------ MODULE VaultRegistryProofs ------------------------
(***************************************************************************)
(* Proofs about VaultRegistry, for any number of vaults, any ratios and    *)
(* any hints: the linked list is well formed, it implements the list of    *)
(* VaultList, the indexes of the array are exact, and both registers hold  *)
(* the same vaults.                                                        *)
(*                                                                         *)
(* Links(d, l) says that the pointers of d are those of the sequence l.    *)
(* The parts: the pointers followed from a node; the search, which finds a *)
(* position that VaultList allows; insertion and removal; the array; the   *)
(* specification.                                                          *)
(***************************************************************************)
EXTENDS VaultRegistry, DataLemmas

----------------------------------------------------------------------------
\* Pointers.

\* The neighbour at position i: there is none beyond the ends.
At(l, i) == IF i \in 1..Len(l) THEN l[i] ELSE NoId

NodeAt(l, i) == [exists |-> TRUE, nextId |-> At(l, i + 1), prevId |-> At(l, i - 1)]

Links(d, l) ==
  /\ l \in Seq(Ids) /\ Distinct(l)
  /\ d = [head |-> At(l, 1), tail |-> At(l, Len(l)), size |-> Len(l), nodes |-> d.nodes]
  /\ d.nodes = [a \in List!Addresses |-> d.nodes[a]]
  /\ \A i \in 1..Len(l) : d.nodes[l[i]] = NodeAt(l, i)
  /\ \A a \in List!Addresses \ Range(l) : d.nodes[a] = List!NoNode

\* The addresses can be counted: the bound of the searches exceeds every list.
LEMMA ListFits ==
  ASSUME NEW l \in Seq(Ids), Distinct(l)
  PROVE  Cardinality(List!Addresses) \in Nat /\ Len(l) < Cardinality(List!Addresses)
<1>1. IsFiniteSet(List!Addresses) /\ IsFiniteSet(Ids) /\ NoId \notin Ids
  BY RegistryAssumption, FS_AddElement DEF List!Addresses
<1>2. Cardinality(List!Addresses) = Cardinality(Ids) + 1 /\ Cardinality(Ids) \in Nat
  BY <1>1, RegistryAssumption, FS_AddElement, FS_CardinalityType DEF List!Addresses
<1>3. Len(l) <= Cardinality(Ids)
  <2>1. l \in [1..Len(l) -> Ids] /\ Len(l) \in Nat
    OBVIOUS
  <2>2. \A i, j \in 1..Len(l) : l[i] = l[j] => i = j
    BY DEF Distinct
  <2>3. l \in Injection(1..Len(l), Ids)
    BY <2>1, <2>2 DEF Injection, IsInjective
  <2>4. Cardinality(1..Len(l)) = Len(l)
    <3>1. 1 \in Int /\ Len(l) \in Int
      BY <2>1
    <3>2. Cardinality(1..Len(l)) = IF 1 > Len(l) THEN 0 ELSE Len(l) - 1 + 1
      BY <3>1, FS_Interval
    <3> QED BY <2>1, <3>2
  <2> QED BY <1>1, <2>3, <2>4, FS_Injection
<1> QED BY <1>2, <1>3

\* The operators of the community modules, as SortedVaults instantiates them.
LEMMA SameOperators ==
  /\ \A S : List!Cardinality(S) = Cardinality(S) /\ List!Min(S) = Min(S)
  /\ \A f : List!Range(f) = Range(f)
<1>1. \A S : List!Cardinality(S) = Cardinality(S)
  BY DEF List!Cardinality, Cardinality
<1>2. \A S : List!Min(S) = Min(S)
  BY DEF List!Min, Min
<1>3. \A f : List!Range(f) = Range(f)
  BY DEF List!Range, Range
<1> QED BY <1>1, <1>2, <1>3

\* What the node at each position points to, and that there is none at address(0).
LEMMA Neighbours ==
  ASSUME NEW d, NEW l, Links(d, l)
  PROVE  /\ Len(l) \in Nat
         /\ d.head = At(l, 1) /\ d.tail = At(l, Len(l)) /\ d.size = Len(l)
         /\ \A i \in Nat \ {0} : d.nodes[At(l, i)].nextId = At(l, i + 1)
         /\ \A i \in 0..Len(l) : d.nodes[At(l, i)].prevId = At(l, i - 1)
         /\ \A i \in 1..Len(l) : l[i] \in Ids /\ l[i] # NoId /\ d.nodes[l[i]].nextId = At(l, i + 1)
<1>1. Len(l) \in Nat /\ \A i \in 1..Len(l) : l[i] \in Ids /\ l[i] # NoId
  BY RegistryAssumption DEF Links
<1>2. d.head = At(l, 1) /\ d.tail = At(l, Len(l)) /\ d.size = Len(l)
  BY DEF Links
<1>3. NoId \in List!Addresses \ Range(l)
  BY <1>1 DEF List!Addresses, Range, Links
<1>4. d.nodes[NoId].nextId = NoId /\ d.nodes[NoId].prevId = NoId
  BY <1>3 DEF Links, List!NoNode
<1>5. \A i \in 1..Len(l) : /\ d.nodes[l[i]].nextId = At(l, i + 1)
                           /\ d.nodes[l[i]].prevId = At(l, i - 1)
  <2>1. \A i \in 1..Len(l) : d.nodes[l[i]] = NodeAt(l, i)
    BY DEF Links
  <2>2. \A i \in 1..Len(l) : /\ NodeAt(l, i).nextId = At(l, i + 1)
                             /\ NodeAt(l, i).prevId = At(l, i - 1)
    BY DEF NodeAt
  <2> QED BY <2>1, <2>2
<1>6. ASSUME NEW i \in Nat \ {0}
      PROVE  d.nodes[At(l, i)].nextId = At(l, i + 1)
  <2>1. CASE i \in 1..Len(l)
    BY <1>5, <2>1 DEF At
  <2>2. CASE i \notin 1..Len(l)
    BY <1>1, <1>4, <2>2 DEF At
  <2> QED BY <2>1, <2>2
<1>7. ASSUME NEW i \in 0..Len(l)
      PROVE  d.nodes[At(l, i)].prevId = At(l, i - 1)
  <2>1. CASE i \in 1..Len(l)
    BY <1>5, <2>1 DEF At
  <2>2. CASE i = 0
    BY <1>1, <1>4, <2>2 DEF At
  <2> QED BY <1>1, <2>1, <2>2
<1> QED BY <1>1, <1>2, <1>5, <1>6, <1>7

\* The next pointers lead along the list, then stay at address(0).
LEMMA AfterIs ==
  ASSUME NEW d, NEW l, Links(d, l), NEW p \in Nat \ {0},
         NEW n \in 0..Cardinality(List!Addresses)
  PROVE  List!After(d, At(l, p))[n] = At(l, p + n)
<1> DEFINE N == List!Cardinality(List!Addresses)
           start == At(l, p)
           IsWalk(g) == g = [m \in 0..N |-> IF m = 0 THEN start ELSE d.nodes[g[m - 1]].nextId]
           w == CHOOSE g : IsWalk(g)
           h == [m \in 0..N |-> At(l, p + m)]
           Good == { m \in Nat : m \in 0..N => w[m] = At(l, p + m) }
<1>1. N \in Nat /\ n \in 0..N
  BY ListFits, SameOperators DEF Links
<1>2. \A m \in Nat \ {0} : d.nodes[At(l, p + (m - 1))].nextId = At(l, p + m)
  <2> SUFFICES ASSUME NEW m \in Nat \ {0}
               PROVE  d.nodes[At(l, p + (m - 1))].nextId = At(l, p + m)
    OBVIOUS
  <2>1. p + (m - 1) \in Nat \ {0} /\ (p + (m - 1)) + 1 = p + m
    OBVIOUS
  <2> QED BY <2>1, Neighbours
<1>3. IsWalk(h)
  <2> HIDE DEF N
  <2>1. ASSUME NEW m \in 0..N
        PROVE  At(l, p + m) = IF m = 0 THEN start ELSE d.nodes[h[m - 1]].nextId
    <3>1. CASE m = 0
      BY <3>1
    <3>2. CASE m # 0
      <4>1. m \in Nat \ {0} /\ h[m - 1] = At(l, p + (m - 1))
        BY <1>1, <3>2
      <4> HIDE DEF h
      <4> QED BY <1>2, <3>2, <4>1
    <3> QED BY <3>1, <3>2
  <2> QED BY <2>1
<1>4. IsWalk(w)
  <2> HIDE DEF h, IsWalk
  <2> QED BY <1>3
<1>5. List!After(d, start) = w
  BY DEF List!After
<1> HIDE DEF N, w, h, start
<1>6. ASSUME NEW m \in Nat, \A k \in 0..(m - 1) : k \in Good
      PROVE  m \in Good
  <2> SUFFICES ASSUME m \in 0..N PROVE w[m] = At(l, p + m)
    OBVIOUS
  <2>1. w[m] = IF m = 0 THEN start ELSE d.nodes[w[m - 1]].nextId
    BY <1>4
  <2>2. CASE m = 0
    BY <2>1, <2>2 DEF start
  <2>3. CASE m # 0
    <3>1. m - 1 \in 0..(m - 1) /\ m - 1 \in 0..N
      BY <1>1, <2>3
    <3>2. w[m - 1] = At(l, p + (m - 1))
      BY <1>6, <3>1
    <3> QED BY <1>2, <2>1, <2>3, <3>2
  <2> QED BY <2>2, <2>3
<1>7. Nat \subseteq Good
  <2> HIDE DEF Good
  <2> QED BY <1>6, NaturalInduction
<1> QED BY <1>1, <1>5, <1>7 DEF start

\* The previous pointers lead to the head, then stay at address(0).
LEMMA BeforeIs ==
  ASSUME NEW d, NEW l, Links(d, l), NEW p \in 0..Len(l),
         NEW n \in 0..Cardinality(List!Addresses)
  PROVE  List!Before(d, At(l, p))[n] = At(l, p - n)
<1> DEFINE N == List!Cardinality(List!Addresses)
           start == At(l, p)
           IsWalk(g) == g = [m \in 0..N |-> IF m = 0 THEN start ELSE d.nodes[g[m - 1]].prevId]
           w == CHOOSE g : IsWalk(g)
           h == [m \in 0..N |-> At(l, p - m)]
           Good == { m \in Nat : m \in 0..N => w[m] = At(l, p - m) }
<1>1. N \in Nat /\ n \in 0..N
  BY ListFits, SameOperators DEF Links
<1>2. \A m \in Nat \ {0} : d.nodes[At(l, p - (m - 1))].prevId = At(l, p - m)
  <2> SUFFICES ASSUME NEW m \in Nat \ {0}
               PROVE  d.nodes[At(l, p - (m - 1))].prevId = At(l, p - m)
    OBVIOUS
  <2> DEFINE q == p - (m - 1)
  <2>1. q \in Int /\ q <= Len(l) /\ q - 1 = p - m /\ Len(l) \in Nat
    <3>1. Len(l) \in Nat
      BY Neighbours
    <3> QED BY ONLY <3>1, p \in 0..Len(l), m \in Nat \ {0}
  <2> HIDE DEF q
  <2>2. CASE q >= 0
    <3>1. q \in 0..Len(l)
      BY <2>1, <2>2
    <3>2. d.nodes[At(l, q)].prevId = At(l, q - 1)
      BY <3>1, Neighbours
    <3> QED BY <2>1, <3>2 DEF q
  <2>3. CASE q < 0
    <3>1. At(l, q) = NoId /\ At(l, q - 1) = NoId /\ At(l, 0) = NoId /\ At(l, 0 - 1) = NoId
      BY <2>1, <2>3 DEF At
    <3>2. d.nodes[At(l, 0)].prevId = At(l, 0 - 1)
      BY <2>1, Neighbours
    <3> QED BY <2>1, <3>1, <3>2 DEF q
  <2> QED BY <2>1, <2>2, <2>3
<1>3. IsWalk(h)
  <2> HIDE DEF N
  <2>1. ASSUME NEW m \in 0..N
        PROVE  At(l, p - m) = IF m = 0 THEN start ELSE d.nodes[h[m - 1]].prevId
    <3>1. CASE m = 0
      BY <3>1
    <3>2. CASE m # 0
      <4>1. m \in Nat \ {0} /\ h[m - 1] = At(l, p - (m - 1))
        BY <1>1, <3>2
      <4> HIDE DEF h
      <4> QED BY <1>2, <3>2, <4>1
    <3> QED BY <3>1, <3>2
  <2> QED BY <2>1
<1>4. IsWalk(w)
  <2> HIDE DEF h, IsWalk
  <2> QED BY <1>3
<1>5. List!Before(d, start) = w
  BY DEF List!Before
<1> HIDE DEF N, w, h, start
<1>6. ASSUME NEW m \in Nat, \A k \in 0..(m - 1) : k \in Good
      PROVE  m \in Good
  <2> SUFFICES ASSUME m \in 0..N PROVE w[m] = At(l, p - m)
    OBVIOUS
  <2>1. w[m] = IF m = 0 THEN start ELSE d.nodes[w[m - 1]].prevId
    BY <1>4
  <2>2. CASE m = 0
    BY <2>1, <2>2 DEF start
  <2>3. CASE m # 0
    <3>1. m - 1 \in 0..(m - 1) /\ m - 1 \in 0..N
      BY <1>1, <2>3
    <3>2. w[m - 1] = At(l, p - (m - 1))
      BY <1>6, <3>1
    <3> QED BY <1>2, <2>1, <2>3, <3>2
  <2> QED BY <2>2, <2>3
<1>7. Nat \subseteq Good
  <2> HIDE DEF Good
  <2> QED BY <1>6, NaturalInduction
<1> QED BY <1>1, <1>5, <1>7 DEF start

\* The sequence that the next pointers run through is the one they were set from.
LEMMA ListOfLinks ==
  ASSUME NEW d, NEW l, Links(d, l)
  PROVE  List!ListOf(d) = l
<1>1. d.size = Len(l) /\ Len(l) \in Nat /\ d.head = At(l, 1)
  BY Neighbours
<1>2. \A i \in 1..Len(l) : List!After(d, d.head)[i - 1] = l[i]
  <2> SUFFICES ASSUME NEW i \in 1..Len(l)
               PROVE  List!After(d, At(l, 1))[i - 1] = l[i]
    BY <1>1
  <2>1. i - 1 \in 0..Cardinality(List!Addresses) /\ 1 + (i - 1) = i
    BY <1>1, ListFits DEF Links
  <2>2. List!After(d, At(l, 1))[i - 1] = At(l, i)
    BY <2>1, AfterIs
  <2> QED BY <2>2 DEF At
<1>3. List!ListOf(d) = [i \in 1..Len(l) |-> l[i]]
  BY <1>1, <1>2 DEF List!ListOf
<1>4. l = [i \in 1..Len(l) |-> l[i]]
  BY DEF Links
<1> QED BY <1>3, <1>4

\* containsId answers whether the vault is in the list.
LEMMA ContainsIsListed ==
  ASSUME NEW d, NEW l, Links(d, l), NEW a \in List!Addresses
  PROVE  List!ContainsId(d, a) <=> a \in Range(l)
<1>1. CASE a \in Range(l)
  <2>1. PICK i \in 1..Len(l) : a = l[i]
    BY <1>1 DEF Range, Links
  <2>2. d.nodes[a] = NodeAt(l, i)
    BY <2>1 DEF Links
  <2> QED BY <1>1, <2>2 DEF List!ContainsId, NodeAt
<1>2. CASE a \notin Range(l)
  <2>1. d.nodes[a] = List!NoNode
    BY <1>2 DEF Links
  <2> QED BY <1>2, <2>1 DEF List!ContainsId, List!NoNode
<1> QED BY <1>1, <1>2

----------------------------------------------------------------------------
\* The search for a position.

\* The ratios that a search compares are numbers.
Rated(l, r, x) == x \in Int /\ \A i \in 1..Len(l) : r[l[i]] \in Int

\* at is between two neighbours where VaultList would insert ratio x.
IsPosition(l, r, x, at, i) ==
  /\ i \in 1..(Len(l) + 1)
  /\ at = <<At(l, i - 1), At(l, i)>>
  /\ ValidPosition(l, r, i, x)

\* validInsertPosition, asked about two neighbours, compares the ratios that matter.
LEMMA ValidAt ==
  ASSUME NEW d, NEW l, Links(d, l), NEW r, NEW x, Rated(l, r, x), NEW i \in 1..(Len(l) + 1)
  PROVE  List!ValidInsertPosition(d, r, x, At(l, i - 1), At(l, i)) <=> ValidPosition(l, r, i, x)
<1>1. /\ Len(l) \in Nat /\ d.head = At(l, 1) /\ d.tail = At(l, Len(l)) /\ d.size = Len(l)
      /\ \A j \in 1..Len(l) : l[j] # NoId /\ d.nodes[l[j]].nextId = At(l, j + 1)
  BY Neighbours
<1>2. x \in Int /\ \A j \in 1..Len(l) : r[l[j]] \in Int
  BY DEF Rated
<1>3. CASE i = 1 /\ Len(l) = 0
  <2>1. At(l, i - 1) = NoId /\ At(l, i) = NoId
    BY <1>3 DEF At
  <2> QED BY <1>1, <1>3, <2>1 DEF List!ValidInsertPosition, ValidPosition
<1>4. CASE i = 1 /\ Len(l) # 0
  <2>1. At(l, i - 1) = NoId /\ At(l, i) = l[1] /\ l[1] # NoId /\ At(l, 1) = l[1]
    BY <1>1, <1>4 DEF At
  <2> QED BY <1>1, <1>2, <1>4, <2>1 DEF List!ValidInsertPosition, ValidPosition
<1>5. CASE i # 1 /\ i = Len(l) + 1
  <2>1. i - 1 \in 1..Len(l) /\ i - 1 = Len(l)
    BY <1>1, <1>5
  <2>2. At(l, i - 1) = l[i - 1] /\ At(l, i) = NoId /\ l[i - 1] # NoId /\ At(l, Len(l)) = l[i - 1]
    BY <1>1, <1>5, <2>1 DEF At
  <2>3. r[l[i - 1]] \in Int
    BY <1>2, <2>1
  <2>4. List!ValidInsertPosition(d, r, x, At(l, i - 1), At(l, i)) <=> x <= r[l[i - 1]]
    BY <1>1, <2>2 DEF List!ValidInsertPosition
  <2>5. ValidPosition(l, r, i, x) <=> r[l[i - 1]] >= x
    BY <1>1, <1>5 DEF ValidPosition
  <2> QED BY <1>2, <2>3, <2>4, <2>5
<1>6. CASE i # 1 /\ i <= Len(l)
  <2>1. i \in 1..Len(l) /\ i - 1 \in 1..Len(l) /\ (i - 1) + 1 = i
    BY <1>1, <1>6
  <2>2. At(l, i - 1) = l[i - 1] /\ At(l, i) = l[i]
    BY <2>1 DEF At
  <2>3. l[i - 1] # NoId /\ l[i] # NoId /\ d.nodes[l[i - 1]].nextId = l[i]
    BY <1>1, <2>1, <2>2
  <2>4. List!ValidInsertPosition(d, r, x, At(l, i - 1), At(l, i))
          <=> r[l[i - 1]] >= x /\ x >= r[l[i]]
    BY <2>2, <2>3 DEF List!ValidInsertPosition
  <2>5. ValidPosition(l, r, i, x) <=> r[l[i - 1]] >= x /\ x >= r[l[i]]
    BY <1>1, <1>6 DEF ValidPosition
  <2> QED BY <2>4, <2>5
<1> QED BY <1>1, <1>3, <1>4, <1>5, <1>6

\* Hints that validInsertPosition accepts are two neighbours.
LEMMA ValidIsPosition ==
  ASSUME NEW d, NEW l, Links(d, l), NEW r, NEW x, Rated(l, r, x),
         NEW prev \in List!Addresses, NEW next \in List!Addresses,
         List!ValidInsertPosition(d, r, x, prev, next)
  PROVE  \E i : IsPosition(l, r, x, <<prev, next>>, i)
<1>1. /\ Len(l) \in Nat /\ d.head = At(l, 1) /\ d.tail = At(l, Len(l)) /\ d.size = Len(l)
      /\ \A j \in 1..Len(l) : l[j] # NoId /\ d.nodes[l[j]].nextId = At(l, j + 1)
  BY Neighbours
<1>2. \E i \in 1..(Len(l) + 1) : prev = At(l, i - 1) /\ next = At(l, i)
  <2>1. CASE prev = NoId /\ next = NoId
    <3>1. d.size = 0
      BY <2>1 DEF List!ValidInsertPosition
    <3>2. 1 \in 1..(Len(l) + 1) /\ At(l, 1 - 1) = NoId /\ At(l, 1) = NoId
      BY <1>1, <3>1 DEF At
    <3> QED BY <2>1, <3>2
  <2>2. CASE prev = NoId /\ next # NoId
    <3>1. At(l, 1) = next
      BY <1>1, <2>2 DEF List!ValidInsertPosition
    <3>2. 1 \in 1..(Len(l) + 1) /\ At(l, 1 - 1) = NoId
      BY <1>1 DEF At
    <3> QED BY <2>2, <3>1, <3>2
  <2>3. CASE prev # NoId /\ next = NoId
    <3>1. At(l, Len(l)) = prev
      BY <1>1, <2>3 DEF List!ValidInsertPosition
    <3>2. /\ Len(l) + 1 \in 1..(Len(l) + 1) /\ (Len(l) + 1) - 1 = Len(l)
          /\ At(l, Len(l) + 1) = NoId
      BY <1>1 DEF At
    <3> QED BY <2>3, <3>1, <3>2
  <2>4. CASE prev # NoId /\ next # NoId
    <3>1. d.nodes[prev].nextId = next
      BY <2>4 DEF List!ValidInsertPosition
    <3>2. prev \in Range(l)
      <4>1. prev \notin Range(l) => d.nodes[prev] = List!NoNode
        BY DEF Links
      <4> QED BY <2>4, <3>1, <4>1 DEF List!NoNode
    <3>3. PICK j \in 1..Len(l) : prev = l[j]
      BY <3>2 DEF Range, Links
    <3>4. /\ j + 1 \in 1..(Len(l) + 1) /\ (j + 1) - 1 = j
          /\ At(l, j) = prev /\ At(l, j + 1) = next
      BY <1>1, <3>1, <3>3 DEF At
    <3> QED BY <3>4
  <2> QED BY <2>1, <2>2, <2>3, <2>4
<1>3. PICK i \in 1..(Len(l) + 1) : prev = At(l, i - 1) /\ next = At(l, i)
  BY <1>2
<1>4. ValidPosition(l, r, i, x)
  BY <1>3, ValidAt
<1> QED BY <1>3, <1>4 DEF IsPosition

\* The least of some natural numbers.
LEMMA LeastIsMin ==
  ASSUME NEW S, S \subseteq Nat, S # {}
  PROVE  Min(S) \in S /\ \A y \in S : Min(S) <= y
<1>1. \E x \in S : \A y \in S : x <= y
  <2> SUFFICES ASSUME \A x \in S : \E y \in S : ~(x <= y) PROVE FALSE
    OBVIOUS
  <2> DEFINE Good == { n \in Nat : n \notin S }
  <2>1. ASSUME NEW n \in Nat, \A m \in 0..(n - 1) : m \in Good
        PROVE  n \in Good
    <3> SUFFICES ASSUME n \in S PROVE FALSE
      OBVIOUS
    <3>1. PICK y \in S : ~(n <= y)
      OBVIOUS
    <3>2. y \in 0..(n - 1)
      BY <3>1
    <3> QED BY <2>1, <3>2
  <2>2. Nat \subseteq Good
    <3> HIDE DEF Good
    <3> QED BY <2>1, NaturalInduction
  <2> QED BY <2>2
<1> QED BY <1>1 DEF Min

\* _descendList finds a position, from a node whose ratio is no lower than x or from
\* the head: where it stops first, the node before is no lower and the next no higher.
LEMMA DescendFinds ==
  ASSUME NEW d, NEW l, Links(d, l), NEW r, NEW x, Rated(l, r, x),
         NEW p \in 1..(Len(l) + 1), p = 1 \/ (p <= Len(l) /\ r[l[p]] >= x)
  PROVE  \E i : IsPosition(l, r, x, List!DescendList(d, r, x, At(l, p)), i)
<1> DEFINE start == At(l, p)
           N == Cardinality(List!Addresses)
           at == List!DescendList(d, r, x, start)
<1>1. /\ Len(l) \in Nat /\ d.head = At(l, 1)
      /\ \A j \in Nat \ {0} : d.nodes[At(l, j)].nextId = At(l, j + 1)
      /\ \A j \in 1..Len(l) : l[j] # NoId
  BY Neighbours
<1>2. x \in Int /\ \A j \in 1..Len(l) : r[l[j]] \in Int
  BY DEF Rated
<1>3. CASE d.head = start /\ x >= r[start]
  <2>1. at = <<NoId, start>>
    BY <1>3 DEF List!DescendList
  <2>2. CASE Len(l) = 0
    <3>1. p = 1 /\ At(l, 0) = NoId /\ 1 \in 1..(Len(l) + 1)
      BY <1>1, <2>2 DEF At
    <3>2. ValidPosition(l, r, 1, x)
      BY <2>2 DEF ValidPosition
    <3>3. IsPosition(l, r, x, at, 1)
      BY <2>1, <3>1, <3>2 DEF IsPosition
    <3> QED BY <3>3
  <2>3. CASE Len(l) # 0
    <3>1. At(l, 1) = l[1] /\ At(l, 0) = NoId /\ 1 \in 1..(Len(l) + 1) /\ 1 - 1 = 0
      BY <1>1, <2>3 DEF At
    <3> HIDE DEF start, at
    <3>2. start = l[1] /\ start = At(l, 1) /\ x >= r[l[1]]
      BY <1>1, <1>3, <3>1
    <3>3. ValidPosition(l, r, 1, x)
      BY <3>2 DEF ValidPosition
    <3>4. at = <<At(l, 1 - 1), At(l, 1)>>
      BY <2>1, <3>1, <3>2
    <3>5. IsPosition(l, r, x, at, 1)
      BY <3>1, <3>3, <3>4 DEF IsPosition
    <3> QED BY <3>5 DEF at, start
  <2> QED BY <2>2, <2>3
<1>4. CASE ~(d.head = start /\ x >= r[start])
  <2> DEFINE S == List!DescendSteps(d, r, x, start)
             m == Min(S)
             q == List!After(d, start)[m]
  <2>1. at = <<q, d.nodes[q].nextId>>
    BY <1>4, SameOperators DEF List!DescendList
  <2>2. N \in Nat /\ Len(l) < N
    BY ListFits DEF Links
  <2>3. ASSUME NEW n \in 0..N
        PROVE  List!After(d, start)[n] = At(l, p + n)
    BY AfterIs
  <2>4. ASSUME NEW n \in Nat
        PROVE  n \in S <=> /\ n <= N
                           /\ \/ At(l, p + n) = NoId
                              \/ List!ValidInsertPosition(d, r, x, At(l, p + n), At(l, p + n + 1))
    <3>1. n \in S <=> /\ n \in 0..N
                      /\ \/ List!After(d, start)[n] = NoId
                         \/ List!ValidInsertPosition(d, r, x, List!After(d, start)[n],
                                                     d.nodes[List!After(d, start)[n]].nextId)
      BY SameOperators DEF List!DescendSteps
    <3>2. n \in 0..N => d.nodes[List!After(d, start)[n]].nextId = At(l, p + n + 1)
      <4>1. p + n \in Nat \ {0} /\ (p + n) + 1 = p + n + 1
        BY <1>1
      <4> QED BY <1>1, <2>3, <4>1
    <3> HIDE DEF S, N
    <3>3. n \in 0..N <=> n <= N
      BY <2>2
    <3> QED BY <2>3, <3>1, <3>2, <3>3
  <2>5. S \subseteq Nat
    BY <2>2, SameOperators DEF List!DescendSteps
  <2> HIDE DEF S, N, at
  <2>6. (Len(l) + 1) - p \in S
    <3>1. (Len(l) + 1) - p \in Nat /\ (Len(l) + 1) - p <= N /\ p + ((Len(l) + 1) - p) = Len(l) + 1
      BY <1>1, <2>2
    <3>2. At(l, Len(l) + 1) = NoId
      BY <1>1 DEF At
    <3> QED BY <2>4, <3>1, <3>2
  <2>7. m \in S /\ m \in Nat /\ \A y \in S : m <= y
    <3>1. S # {}
      BY <2>6
    <3> QED BY <2>5, <3>1, LeastIsMin
  <2> HIDE DEF m
  <2>8. q = At(l, p + m) /\ m <= N
    BY <2>3, <2>4, <2>7
  <2>9. d.nodes[q].nextId = At(l, p + m + 1)
    <3>1. p + m \in Nat \ {0} /\ (p + m) + 1 = p + m + 1
      <4>1. p \in Nat \ {0} /\ m \in Nat
        BY <1>1, <2>7
      <4> QED BY ONLY <4>1
    <3>2. d.nodes[At(l, p + m)].nextId = At(l, (p + m) + 1)
      BY <3>1, Neighbours
    <3> QED BY ONLY <2>8, <3>1, <3>2
  <2> HIDE DEF q
  <2>10. CASE Len(l) = 0
    <3>1. p = 1 /\ At(l, p + m) = NoId /\ At(l, p + m + 1) = NoId /\ 1 \in 1..(Len(l) + 1)
          /\ At(l, 0) = NoId /\ At(l, 1) = NoId
      BY <1>1, <2>7, <2>10 DEF At
    <3>2. ValidPosition(l, r, 1, x)
      BY <2>10 DEF ValidPosition
    <3>3. IsPosition(l, r, x, at, 1)
      BY <2>1, <2>8, <2>9, <3>1, <3>2 DEF IsPosition
    <3> QED BY <3>3 DEF at
  <2>11. CASE Len(l) # 0
    <3>1. p <= Len(l) /\ r[l[p]] >= x
      <4>1. At(l, 1) = l[1] /\ 1 \in 1..Len(l)
        BY <1>1, <2>11 DEF At
      <4>2. CASE p = 1
        <5>1. start = l[1] /\ d.head = start
          BY <1>1, <4>1, <4>2
        <5>2. ~(x >= r[l[1]]) /\ r[l[1]] \in Int /\ x \in Int
          BY ONLY <1>2, <1>4, <4>1, <5>1
        <5>3. 1 <= Len(l)
          BY ONLY <1>1, <4>1
        <5>4. r[l[1]] >= x
          BY ONLY <5>2
        <5> QED BY ONLY <4>2, <5>3, <5>4
      <4> QED BY <4>2
    <3> DEFINE Higher(n) == p + n <= Len(l) /\ r[l[p + n]] >= x
               Good == { n \in Nat : n <= m => Higher(n) }
    <3>2. ASSUME NEW n \in Nat, \A k \in 0..(n - 1) : k \in Good
          PROVE  n \in Good
      <4> SUFFICES ASSUME n <= m PROVE Higher(n)
        OBVIOUS
      <4>1. CASE n = 0
        BY <1>1, <3>1, <4>1
      <4>2. CASE n # 0
        <5> DEFINE k == n - 1
                   i == p + n
        <5>1. k \in 0..(n - 1) /\ k \in Nat /\ k <= m /\ k < m /\ i = p + k + 1 /\ i - 1 = p + k
              /\ p + k \in Nat \ {0} /\ k <= N
          BY <1>1, <2>7, <2>8, <2>2, <4>2
        <5>2. p + k <= Len(l) /\ r[l[p + k]] >= x
          BY <3>2, <5>1
        <5>3. k \notin S
          BY <2>7, <5>1
        <5>4. i \in 1..(Len(l) + 1) /\ p + k \in 1..Len(l)
          BY <1>1, <5>1, <5>2
        <5>5. ~List!ValidInsertPosition(d, r, x, At(l, i - 1), At(l, i))
          <6> HIDE DEF k, i
          <6> QED BY <2>4, <5>1, <5>3
        <5>6. ~ValidPosition(l, r, i, x)
          <6> HIDE DEF k, i
          <6> QED BY <5>4, <5>5, ValidAt
        <5>7. i <= Len(l) /\ ~(x >= r[l[i]])
          <6> HIDE DEF k, i
          <6> QED BY <5>1, <5>2, <5>4, <5>6 DEF ValidPosition
        <5>8. r[l[i]] \in Int
          <6>1. i \in 1..Len(l)
            BY <1>1, <5>4, <5>7
          <6> HIDE DEF i
          <6> QED BY <1>2, <6>1
        <5> QED BY <1>2, <5>7, <5>8
      <4> QED BY <4>1, <4>2
    <3>3. Nat \subseteq Good
      <4> HIDE DEF Good
      <4> QED BY <3>2, NaturalInduction
    <3>4. p + m <= Len(l)
      BY <2>7, <3>3
    <3> DEFINE i == p + m + 1
    <3>5. /\ i \in 1..(Len(l) + 1) /\ i - 1 = p + m
          /\ p + m \in 1..Len(l)
      BY <1>1, <2>7, <3>4
    <3>6. At(l, p + m) # NoId
      BY <1>1, <3>5 DEF At
    <3>7. List!ValidInsertPosition(d, r, x, At(l, p + m), At(l, i))
      BY <2>4, <2>7, <3>6
    <3> HIDE DEF i
    <3>8. ValidPosition(l, r, i, x)
      BY <3>5, <3>7, ValidAt
    <3>9. at = <<At(l, i - 1), At(l, i)>>
      BY <2>1, <2>8, <2>9, <3>5 DEF i
    <3>10. IsPosition(l, r, x, at, i)
      BY <3>5, <3>8, <3>9 DEF IsPosition
    <3> QED BY <3>10 DEF at
  <2> QED BY <2>10, <2>11
<1> QED BY <1>3, <1>4

\* _ascendList finds a position, from a node whose ratio is no higher than x.
LEMMA AscendFinds ==
  ASSUME NEW d, NEW l, Links(d, l), NEW r, NEW x, Rated(l, r, x),
         NEW p \in 1..Len(l), x >= r[l[p]]
  PROVE  \E i : IsPosition(l, r, x, List!AscendList(d, r, x, At(l, p)), i)
<1> DEFINE start == At(l, p)
           N == Cardinality(List!Addresses)
           at == List!AscendList(d, r, x, start)
<1>1. /\ Len(l) \in Nat /\ d.tail = At(l, Len(l))
      /\ \A j \in 0..Len(l) : d.nodes[At(l, j)].prevId = At(l, j - 1)
      /\ \A j \in 1..Len(l) : l[j] # NoId
  BY Neighbours
<1>2. x \in Int /\ \A j \in 1..Len(l) : r[l[j]] \in Int
  BY DEF Rated
<1>3. CASE d.tail = start /\ x <= r[start]
  <2> DEFINE i == Len(l) + 1
  <2>1. at = <<start, NoId>>
    BY <1>3 DEF List!AscendList
  <2>2. /\ i \in 1..(Len(l) + 1) /\ i - 1 = Len(l) /\ At(l, i) = NoId /\ Len(l) \in 1..Len(l)
        /\ At(l, Len(l)) = l[Len(l)] /\ ~(i <= Len(l))
    BY <1>1 DEF At
  <2> HIDE DEF start, at, i
  <2>3. start = l[Len(l)] /\ r[l[Len(l)]] \in Int
    BY <1>1, <1>2, <1>3, <2>2
  <2>4. r[l[Len(l)]] >= x
    BY <1>2, <1>3, <2>3
  <2>5. ValidPosition(l, r, i, x)
    BY <2>2, <2>4 DEF ValidPosition
  <2>6. at = <<At(l, i - 1), At(l, i)>>
    BY <2>1, <2>2, <2>3
  <2>7. IsPosition(l, r, x, at, i)
    BY <2>2, <2>5, <2>6 DEF IsPosition
  <2> QED BY <2>7 DEF at, start
<1>4. CASE ~(d.tail = start /\ x <= r[start])
  <2> DEFINE S == List!AscendSteps(d, r, x, start)
             m == Min(S)
             q == List!Before(d, start)[m]
  <2>1. at = <<d.nodes[q].prevId, q>>
    BY <1>4, SameOperators DEF List!AscendList
  <2>2. N \in Nat /\ Len(l) < N
    BY ListFits DEF Links
  <2>3. ASSUME NEW n \in 0..N
        PROVE  List!Before(d, start)[n] = At(l, p - n)
    <3>1. p \in 0..Len(l)
      BY <1>1
    <3> QED BY <3>1, BeforeIs
  <2>4. ASSUME NEW n \in Nat, n <= p
        PROVE  n \in S <=> \/ At(l, p - n) = NoId
                           \/ List!ValidInsertPosition(d, r, x, At(l, p - n - 1), At(l, p - n))
    <3>1. n \in S <=> /\ n \in 0..N
                      /\ \/ List!Before(d, start)[n] = NoId
                         \/ List!ValidInsertPosition(d, r, x, d.nodes[List!Before(d, start)[n]].prevId,
                                                     List!Before(d, start)[n])
      BY SameOperators DEF List!AscendSteps
    <3>2. n \in 0..N
      BY <1>1, <2>2, <2>4
    <3>3. d.nodes[List!Before(d, start)[n]].prevId = At(l, p - n - 1)
      <4>1. p - n \in 0..Len(l)
        BY <1>1, <2>4
      <4> QED BY <1>1, <2>3, <3>2, <4>1
    <3> HIDE DEF S, N
    <3> QED BY <2>3, <3>1, <3>2, <3>3
  <2>5. S \subseteq Nat
    BY <2>2, SameOperators DEF List!AscendSteps
  <2> HIDE DEF S, N, at
  <2>6. p \in S
    <3>1. p \in Nat /\ p <= p /\ p - p = 0
      BY <1>1
    <3>2. At(l, 0) = NoId
      BY <1>1 DEF At
    <3> QED BY <2>4, <3>1, <3>2
  <2>7. m \in S /\ m \in Nat /\ (\A y \in S : m <= y) /\ m <= p
    <3>1. S # {}
      BY <2>6
    <3>2. m \in S /\ \A y \in S : m <= y
      BY <2>5, <3>1, LeastIsMin
    <3> HIDE DEF m
    <3> QED BY <2>5, <2>6, <3>2
  <2> HIDE DEF m
  <2>8. q = At(l, p - m)
    <3>1. m \in 0..N
      BY <1>1, <2>2, <2>7
    <3> QED BY <2>3, <3>1
  <2>9. d.nodes[q].prevId = At(l, p - m - 1)
    <3>1. p - m \in 0..Len(l)
      BY <1>1, <2>7
    <3> QED BY <1>1, <2>8, <3>1
  <2> HIDE DEF q
  <2> DEFINE Lower(n) == 1 <= p - n /\ x >= r[l[p - n]]
             Good == { n \in Nat : n <= m => Lower(n) }
  <2>10. ASSUME NEW n \in Nat, \A k \in 0..(n - 1) : k \in Good
         PROVE  n \in Good
    <3> SUFFICES ASSUME n <= m PROVE Lower(n)
      OBVIOUS
    <3>1. CASE n = 0
      BY <1>1, <3>1
    <3>2. CASE n # 0
      <4> DEFINE k == n - 1
                 i == p - k
      <4>1. /\ k \in 0..(n - 1) /\ k \in Nat /\ k <= m /\ k < m /\ k <= p /\ i = p - k
            /\ i - 1 = p - k - 1 /\ i - 1 = p - n
        BY <1>1, <2>7, <3>2
      <4>2. 1 <= p - k /\ x >= r[l[p - k]]
        BY <2>10, <4>1
      <4>3. k \notin S
        <5> HIDE DEF k
        <5> QED BY <2>7, <4>1
      <4>4. i \in 1..Len(l) /\ i \in 1..(Len(l) + 1)
        BY <1>1, <4>1, <4>2
      <4>5. ~List!ValidInsertPosition(d, r, x, At(l, i - 1), At(l, i))
        <5> HIDE DEF k, i
        <5> QED BY <2>4, <4>1, <4>3
      <4>6. ~ValidPosition(l, r, i, x)
        <5> HIDE DEF k, i
        <5> QED BY <4>4, <4>5, ValidAt
      <4>7. i > 1 /\ ~(r[l[i - 1]] >= x)
        <5> HIDE DEF k, i
        <5> QED BY <4>1, <4>2, <4>6 DEF ValidPosition
      <4>8. i - 1 \in 1..Len(l)
        <5> HIDE DEF i
        <5> QED BY <1>1, <4>4, <4>7
      <4>9. r[l[i - 1]] \in Int /\ 1 <= i - 1
        <5> HIDE DEF i
        <5> QED BY <1>2, <4>8
      <4> HIDE DEF i, k
      <4> QED BY <1>2, <4>1, <4>7, <4>9
    <3> QED BY <3>1, <3>2
  <2>11. Nat \subseteq Good
    <3> HIDE DEF Good
    <3> QED BY <2>10, NaturalInduction
  <2> DEFINE i == p - m
  <2>12. /\ i \in 1..(Len(l) + 1) /\ i \in 1..Len(l) /\ i - 1 = p - m - 1
    BY <1>1, <2>7, <2>11
  <2>13. At(l, i) # NoId
    BY <1>1, <2>12 DEF At
  <2>14. List!ValidInsertPosition(d, r, x, At(l, i - 1), At(l, i))
    BY <2>4, <2>7, <2>12, <2>13
  <2>15. at = <<At(l, i - 1), At(l, i)>>
    BY <2>1, <2>8, <2>9, <2>12
  <2> HIDE DEF i
  <2>16. ValidPosition(l, r, i, x)
    BY <2>12, <2>14, ValidAt
  <2>17. IsPosition(l, r, x, at, i)
    BY <2>12, <2>15, <2>16 DEF IsPosition
  <2> QED BY <2>17 DEF at
<1> QED BY <1>3, <1>4

\* Whatever the hints, the search ends between two neighbours where VaultList would
\* insert x: hints that left the list or no longer fit are dropped
\* (SortedVaults.sol, _findInsertPosition).
LEMMA PositionFound ==
  ASSUME NEW d, NEW l, Links(d, l), NEW r, NEW x, Rated(l, r, x),
         NEW prev \in List!Addresses, NEW next \in List!Addresses
  PROVE  \E i : IsPosition(l, r, x, List!InsertPosition(d, r, x, prev, next), i)
<1>1. CASE List!ValidInsertPosition(d, r, x, prev, next)
  BY <1>1, ValidIsPosition DEF List!InsertPosition
<1>2. CASE ~List!ValidInsertPosition(d, r, x, prev, next)
  <2> DEFINE p == IF prev # NoId /\ (~List!ContainsId(d, prev) \/ x > r[prev]) THEN NoId ELSE prev
             n == IF next # NoId /\ (~List!ContainsId(d, next) \/ x < r[next]) THEN NoId ELSE next
             at == List!InsertPosition(d, r, x, prev, next)
  <2>1. at = CASE p = NoId /\ n = NoId -> List!DescendList(d, r, x, d.head)
               [] p = NoId /\ n # NoId -> List!AscendList(d, r, x, n)
               [] OTHER -> List!DescendList(d, r, x, p)
    BY <1>2 DEF List!InsertPosition, List!FindInsertPosition
  <2>2. /\ Len(l) \in Nat /\ d.head = At(l, 1)
        /\ x \in Int /\ \A j \in 1..Len(l) : r[l[j]] \in Int
    BY Neighbours DEF Rated
  <2>3. ASSUME p # NoId
        PROVE  \E j \in 1..Len(l) : p = l[j] /\ r[l[j]] >= x
    <3>1. p = prev /\ List!ContainsId(d, prev) /\ ~(x > r[prev])
      BY <2>3
    <3>2. prev \in Range(l)
      BY <3>1, ContainsIsListed
    <3>3. PICK j \in 1..Len(l) : prev = l[j]
      BY <3>2 DEF Range, Links
    <3> HIDE DEF p
    <3>4. r[l[j]] >= x
      BY <2>2, <3>1, <3>3
    <3> QED BY <3>1, <3>3, <3>4
  <2>4. ASSUME n # NoId
        PROVE  \E j \in 1..Len(l) : n = l[j] /\ x >= r[l[j]]
    <3>1. n = next /\ List!ContainsId(d, next) /\ ~(x < r[next])
      BY <2>4
    <3>2. next \in Range(l)
      BY <3>1, ContainsIsListed
    <3>3. PICK j \in 1..Len(l) : next = l[j]
      BY <3>2 DEF Range, Links
    <3> HIDE DEF n
    <3>4. x >= r[l[j]]
      BY <2>2, <3>1, <3>3
    <3> QED BY <3>1, <3>3, <3>4
  <2> HIDE DEF p, n, at
  <2>5. CASE p = NoId /\ n = NoId
    <3>1. at = List!DescendList(d, r, x, At(l, 1)) /\ 1 \in 1..(Len(l) + 1)
      BY <2>1, <2>2, <2>5
    <3> QED BY <3>1, DescendFinds DEF at
  <2>6. CASE p = NoId /\ n # NoId
    <3>1. PICK j \in 1..Len(l) : n = l[j] /\ x >= r[l[j]]
      BY <2>4, <2>6
    <3>2. at = List!AscendList(d, r, x, At(l, j))
      BY <2>1, <2>6, <3>1 DEF At
    <3> QED BY <3>1, <3>2, AscendFinds DEF at
  <2>7. CASE p # NoId
    <3>1. PICK j \in 1..Len(l) : p = l[j] /\ r[l[j]] >= x
      BY <2>3, <2>7
    <3>2. at = List!DescendList(d, r, x, At(l, j))
      BY <2>1, <2>7, <3>1 DEF At
    <3>3. j \in 1..(Len(l) + 1) /\ j <= Len(l)
      BY <2>2
    <3> QED BY <3>1, <3>2, <3>3, DescendFinds DEF at
  <2> QED BY <2>5, <2>6, <2>7
<1> QED BY <1>1, <1>2

----------------------------------------------------------------------------
\* Insertion and removal of nodes.

Node(e, n, p) == [exists |-> e, nextId |-> n, prevId |-> p]

\* Names for the values of exists, which the provers treat as any others.
Present == TRUE
Absent == FALSE

SetExists(f, v, x) == [f EXCEPT ![v].exists = x]
SetNext(f, v, x) == [f EXCEPT ![v].nextId = x]
SetPrev(f, v, x) == [f EXCEPT ![v].prevId = x]

\* Assigning one field of a node.
LEMMA NodeFields ==
  ASSUME NEW e, NEW n, NEW p, NEW x
  PROVE  /\ [Node(e, n, p) EXCEPT !.exists = x] = Node(x, n, p)
         /\ [Node(e, n, p) EXCEPT !.nextId = x] = Node(e, x, p)
         /\ [Node(e, n, p) EXCEPT !.prevId = x] = Node(e, n, x)
<1> DEFINE Fields == {"exists", "nextId", "prevId"}
<1>1. [Node(e, n, p) EXCEPT !.exists = x] = Node(x, n, p)
  <2>1. Node(x, n, p) = [f \in Fields |-> IF f = "exists" THEN x ELSE Node(e, n, p)[f]]
    BY DEF Node
  <2>2. [Node(e, n, p) EXCEPT !.exists = x]
          = [f \in Fields |-> IF f = "exists" THEN x ELSE Node(e, n, p)[f]]
    BY DEF Node
  <2> QED BY <2>1, <2>2
<1>2. [Node(e, n, p) EXCEPT !.nextId = x] = Node(e, x, p)
  <2>1. Node(e, x, p) = [f \in Fields |-> IF f = "nextId" THEN x ELSE Node(e, n, p)[f]]
    BY DEF Node
  <2>2. [Node(e, n, p) EXCEPT !.nextId = x]
          = [f \in Fields |-> IF f = "nextId" THEN x ELSE Node(e, n, p)[f]]
    BY DEF Node
  <2> QED BY <2>1, <2>2
<1>3. [Node(e, n, p) EXCEPT !.prevId = x] = Node(e, n, x)
  <2>1. Node(e, n, x) = [f \in Fields |-> IF f = "prevId" THEN x ELSE Node(e, n, p)[f]]
    BY DEF Node
  <2>2. [Node(e, n, p) EXCEPT !.prevId = x]
          = [f \in Fields |-> IF f = "prevId" THEN x ELSE Node(e, n, p)[f]]
    BY DEF Node
  <2> QED BY <2>1, <2>2
<1> QED BY <1>1, <1>2, <1>3

\* f keeps at v the node of these fields, and f with another node at v.
HasNode(A, f, v, e, n, p) == f = [a \in A |-> f[a]] /\ v \in A /\ f[v] = Node(e, n, p)
WithNode(A, f, v, y) == [a \in A |-> IF a = v THEN y ELSE f[a]]

\* The same, of a node in its place.
LEMMA SetField ==
  ASSUME NEW A, NEW f, NEW v, NEW e, NEW n, NEW p, NEW x, HasNode(A, f, v, e, n, p)
  PROVE  /\ SetExists(f, v, x) = WithNode(A, f, v, Node(x, n, p))
         /\ SetNext(f, v, x) = WithNode(A, f, v, Node(e, x, p))
         /\ SetPrev(f, v, x) = WithNode(A, f, v, Node(e, n, x))
<1> USE DEF HasNode, WithNode
<1>1. SetExists(f, v, x) = WithNode(A, f, v, Node(x, n, p))
  <2>1. [Node(e, n, p) EXCEPT !.exists = x] = Node(x, n, p)
    BY NodeFields
  <2> QED BY <2>1 DEF SetExists
<1>2. SetNext(f, v, x) = WithNode(A, f, v, Node(e, x, p))
  <2>1. [Node(e, n, p) EXCEPT !.nextId = x] = Node(e, x, p)
    BY NodeFields
  <2> QED BY <2>1 DEF SetNext
<1>3. SetPrev(f, v, x) = WithNode(A, f, v, Node(e, n, x))
  <2>1. [Node(e, n, p) EXCEPT !.prevId = x] = Node(e, n, x)
    BY NodeFields
  <2> QED BY <2>1 DEF SetPrev
<1> QED BY <1>1, <1>2, <1>3

\* What the pointers are: of a vault in the list,
LEMMA LinkedNode ==
  ASSUME NEW d, NEW l, Links(d, l), NEW i \in 1..Len(l)
  PROVE  /\ d.nodes[l[i]] = Node(Present, At(l, i + 1), At(l, i - 1))
         /\ l[i] \in List!Addresses
<1>1. d.nodes[l[i]] = NodeAt(l, i)
  BY DEF Links
<1>2. NodeAt(l, i) = Node(Present, At(l, i + 1), At(l, i - 1))
  BY DEF NodeAt, Node, Present
<1>3. l[i] \in List!Addresses
  BY Neighbours DEF List!Addresses
<1> QED BY <1>1, <1>2, <1>3

\* and of one that is not there.
LEMMA UnlinkedNode ==
  ASSUME NEW d, NEW l, Links(d, l), NEW a \in List!Addresses, a \notin Range(l)
  PROVE  d.nodes[a] = Node(Absent, NoId, NoId)
<1>1. d.nodes[a] = List!NoNode
  BY DEF Links
<1> QED BY <1>1 DEF List!NoNode, Node, Absent

\* Node by node is enough to know that pointers are those of a sequence.
LEMMA LinksFromNodes ==
  ASSUME NEW d, NEW l \in Seq(Ids), Distinct(l),
         d = [head |-> At(l, 1), tail |-> At(l, Len(l)), size |-> Len(l), nodes |-> d.nodes],
         d.nodes = [a \in List!Addresses |-> d.nodes[a]],
         \A i \in 1..Len(l) : d.nodes[l[i]] = Node(Present, At(l, i + 1), At(l, i - 1)),
         \A a \in List!Addresses : (\A i \in 1..Len(l) : a # l[i]) => d.nodes[a] = Node(Absent, NoId, NoId)
  PROVE  Links(d, l)
<1>1. \A i \in 1..Len(l) : d.nodes[l[i]] = NodeAt(l, i)
  <2>1. \A i \in 1..Len(l) : NodeAt(l, i) = Node(Present, At(l, i + 1), At(l, i - 1))
    BY DEF NodeAt, Node, Present
  <2> QED BY <2>1
<1>2. \A a \in List!Addresses \ Range(l) : d.nodes[a] = List!NoNode
  <2>1. \A a \in List!Addresses \ Range(l) : \A i \in 1..Len(l) : a # l[i]
    BY DEF Range
  <2>2. List!NoNode = Node(Absent, NoId, NoId)
    BY DEF List!NoNode, Node, Absent
  <2> QED BY <2>1, <2>2
<1> QED BY <1>1, <1>2 DEF Links

\* The nodes after _insert has set its pointers: between two nodes, at the head,
\* at the tail.
NodesBetween(f, v, prev, next) ==
  [[f EXCEPT ![v].exists = TRUE] EXCEPT ![v].nextId = next, ![v].prevId = prev,
                                        ![prev].nextId = v, ![next].prevId = v]
NodesAtHead(f, v, next) ==
  [[f EXCEPT ![v].exists = TRUE] EXCEPT ![v].nextId = next, ![next].prevId = v]
NodesAtTail(f, v, prev) ==
  [[f EXCEPT ![v].exists = TRUE] EXCEPT ![v].prevId = prev, ![prev].nextId = v]

\* The node set between two neighbours, its own pointers and theirs.
LEMMA InsertedNodes ==
  ASSUME NEW A, NEW f, NEW v, NEW prev, NEW next, NEW before, NEW after, NEW g,
         v # prev, v # next, prev # next,
         HasNode(A, f, v, Absent, NoId, NoId), HasNode(A, f, prev, Present, next, before),
         HasNode(A, f, next, Present, after, prev),
         g = NodesBetween(f, v, prev, next)
  PROVE  /\ g = [a \in A |-> g[a]]
         /\ g[v] = Node(Present, next, prev)
         /\ g[prev] = Node(Present, v, before) /\ g[next] = Node(Present, after, v)
         /\ \A a \in A : a # v /\ a # prev /\ a # next => g[a] = f[a]
<1> DEFINE f1 == SetExists(f, v, Present)
           f2 == SetNext(f1, v, next)
           f3 == SetPrev(f2, v, prev)
           f4 == SetNext(f3, prev, v)
           f5 == SetPrev(f4, next, v)
<1>1. g = f5
  BY DEF NodesBetween, SetExists, SetNext, SetPrev, Present
<1> HIDE DEF f1, f2, f3, f4, f5
<1>2. f1 = WithNode(A, f, v, Node(Present, NoId, NoId))
  BY SetField DEF f1
<1>3. HasNode(A, f1, v, Present, NoId, NoId)
  BY <1>2 DEF HasNode, WithNode
<1>4. f2 = WithNode(A, f1, v, Node(Present, next, NoId))
  BY ONLY <1>3, SetField DEF f2
<1>5. HasNode(A, f2, v, Present, next, NoId)
  BY <1>3, <1>4 DEF HasNode, WithNode
<1>6. f3 = WithNode(A, f2, v, Node(Present, next, prev))
  BY ONLY <1>5, SetField DEF f3
<1>7. HasNode(A, f3, prev, Present, next, before)
  BY <1>2, <1>4, <1>6 DEF HasNode, WithNode
<1>8. f4 = WithNode(A, f3, prev, Node(Present, v, before))
  BY ONLY <1>7, SetField DEF f4
<1>9. HasNode(A, f4, next, Present, after, prev)
  BY <1>2, <1>4, <1>6, <1>8 DEF HasNode, WithNode
<1>10. f5 = WithNode(A, f4, next, Node(Present, after, v))
  BY ONLY <1>9, SetField DEF f5
<1> QED BY <1>1, <1>2, <1>4, <1>6, <1>8, <1>10 DEF HasNode, WithNode

\* The same, at the head of the list: there is no previous node.
LEMMA InsertedFirst ==
  ASSUME NEW A, NEW f, NEW v, NEW next, NEW after, NEW g, v # next,
         HasNode(A, f, v, Absent, NoId, NoId), HasNode(A, f, next, Present, after, NoId),
         g = NodesAtHead(f, v, next)
  PROVE  /\ g = [a \in A |-> g[a]]
         /\ g[v] = Node(Present, next, NoId) /\ g[next] = Node(Present, after, v)
         /\ \A a \in A : a # v /\ a # next => g[a] = f[a]
<1> DEFINE f1 == SetExists(f, v, Present)
           f2 == SetNext(f1, v, next)
           f3 == SetPrev(f2, next, v)
<1>1. g = f3
  BY DEF NodesAtHead, SetExists, SetNext, SetPrev, Present
<1> HIDE DEF f1, f2, f3
<1>2. f1 = WithNode(A, f, v, Node(Present, NoId, NoId))
  BY SetField DEF f1
<1>3. HasNode(A, f1, v, Present, NoId, NoId)
  BY <1>2 DEF HasNode, WithNode
<1>4. f2 = WithNode(A, f1, v, Node(Present, next, NoId))
  BY ONLY <1>3, SetField DEF f2
<1>5. HasNode(A, f2, next, Present, after, NoId)
  BY <1>2, <1>4 DEF HasNode, WithNode
<1>6. f3 = WithNode(A, f2, next, Node(Present, after, v))
  BY ONLY <1>5, SetField DEF f3
<1> QED BY <1>1, <1>2, <1>4, <1>6 DEF HasNode, WithNode

\* The same, at the tail: there is no next node.
LEMMA InsertedLast ==
  ASSUME NEW A, NEW f, NEW v, NEW prev, NEW before, NEW g, v # prev,
         HasNode(A, f, v, Absent, NoId, NoId), HasNode(A, f, prev, Present, NoId, before),
         g = NodesAtTail(f, v, prev)
  PROVE  /\ g = [a \in A |-> g[a]]
         /\ g[v] = Node(Present, NoId, prev) /\ g[prev] = Node(Present, v, before)
         /\ \A a \in A : a # v /\ a # prev => g[a] = f[a]
<1> DEFINE f1 == SetExists(f, v, Present)
           f2 == SetPrev(f1, v, prev)
           f3 == SetNext(f2, prev, v)
<1>1. g = f3
  BY DEF NodesAtTail, SetExists, SetNext, SetPrev, Present
<1> HIDE DEF f1, f2, f3
<1>2. f1 = WithNode(A, f, v, Node(Present, NoId, NoId))
  BY SetField DEF f1
<1>3. HasNode(A, f1, v, Present, NoId, NoId)
  BY <1>2 DEF HasNode, WithNode
<1>4. f2 = WithNode(A, f1, v, Node(Present, NoId, prev))
  BY ONLY <1>3, SetField DEF f2
<1>5. HasNode(A, f2, prev, Present, NoId, before)
  BY <1>2, <1>4 DEF HasNode, WithNode
<1>6. f3 = WithNode(A, f2, prev, Node(Present, v, before))
  BY ONLY <1>5, SetField DEF f3
<1> QED BY <1>1, <1>2, <1>4, <1>6 DEF HasNode, WithNode

\* The neighbours in a sequence after an insertion at i.
LEMMA AtInserted ==
  ASSUME NEW l \in Seq(Ids), NEW v \in Ids, NEW i \in 1..(Len(l) + 1), NEW j \in Int
  PROVE  At(InsertAt(l, i, v), j)
           = IF j < i THEN At(l, j) ELSE IF j = i THEN v ELSE At(l, j - 1)
<1> DEFINE m == InsertAt(l, i, v)
<1> SUFFICES At(m, j) = IF j < i THEN At(l, j) ELSE IF j = i THEN v ELSE At(l, j - 1)
  OBVIOUS
<1>1. Len(m) = Len(l) + 1 /\ \A k \in 1..(Len(l) + 1) :
        m[k] = IF k < i THEN l[k] ELSE IF k = i THEN v ELSE l[k - 1]
  BY ONLY l \in Seq(Ids), v \in Ids, i \in 1..(Len(l) + 1), InsertedAt
<1>2. Len(l) \in Nat
  OBVIOUS
<1> HIDE DEF m
<1>3. CASE j \in 1..(Len(l) + 1)
  BY <1>1, <1>2, <1>3 DEF At
<1>4. CASE j \notin 1..(Len(l) + 1)
  BY <1>1, <1>2, <1>4 DEF At
<1> QED BY <1>3, <1>4

\* The pointers of g are those of d with v spliced in at position i of l.
Spliced(d, l, v, i, g) ==
  /\ g = [head |-> IF i = 1 THEN v ELSE d.head, tail |-> IF i = Len(l) + 1 THEN v ELSE d.tail,
          size |-> d.size + 1, nodes |-> g.nodes]
  /\ g.nodes = [a \in List!Addresses |-> g.nodes[a]]
  /\ g.nodes[v] = Node(Present, At(l, i), At(l, i - 1))
  /\ i > 1 => g.nodes[l[i - 1]] = Node(Present, v, At(l, i - 2))
  /\ i <= Len(l) => g.nodes[l[i]] = Node(Present, At(l, i + 1), v)
  /\ \A a \in List!Addresses :
       a # v /\ (i > 1 => a # l[i - 1]) /\ (i <= Len(l) => a # l[i]) => g.nodes[a] = d.nodes[a]

\* Those are the pointers of l with v inserted at i.
LEMMA SplicedLinks ==
  ASSUME NEW d, NEW l, Links(d, l), NEW v \in Ids \ Range(l), NEW i \in 1..(Len(l) + 1), NEW g,
         Spliced(d, l, v, i, g)
  PROVE  Links(g, InsertAt(l, i, v))
<1> DEFINE m == InsertAt(l, i, v)
<1>1. /\ l \in Seq(Ids) /\ Len(l) \in Nat /\ Distinct(l)
      /\ d.head = At(l, 1) /\ d.tail = At(l, Len(l)) /\ d.size = Len(l)
  BY Neighbours DEF Links
<1>2. /\ m \in Seq(Ids) /\ Len(m) = Len(l) + 1
      /\ \A k \in 1..(Len(l) + 1) : m[k] = IF k < i THEN l[k] ELSE IF k = i THEN v ELSE l[k - 1]
  BY ONLY <1>1, v \in Ids \ Range(l), i \in 1..(Len(l) + 1), InsertedAt
<1>3. Distinct(m)
  BY ONLY <1>1, v \in Ids \ Range(l), i \in 1..(Len(l) + 1), InsertProperties
<1>4. \A j \in Int : At(m, j) = IF j < i THEN At(l, j) ELSE IF j = i THEN v ELSE At(l, j - 1)
  BY <1>1, AtInserted
<1> HIDE DEF m
<1>5. g = [head |-> At(m, 1), tail |-> At(m, Len(m)), size |-> Len(m), nodes |-> g.nodes]
  <2>1. At(m, 1) = IF i = 1 THEN v ELSE d.head
    BY <1>1, <1>4
  <2>2. At(m, Len(m)) = IF i = Len(l) + 1 THEN v ELSE d.tail
    <3>1. Len(m) \in Int /\ Len(m) - 1 = Len(l) /\ (Len(m) < i <=> FALSE) /\ (Len(m) = i <=> i = Len(l) + 1)
      BY <1>1, <1>2
    <3> QED BY <1>1, <1>4, <3>1
  <2> QED BY <1>1, <1>2, <2>1, <2>2 DEF Spliced
<1>6. \A j \in 1..Len(l) : /\ d.nodes[l[j]] = Node(Present, At(l, j + 1), At(l, j - 1))
                           /\ l[j] \in List!Addresses
  BY LinkedNode
<1>7. \A j \in 1..Len(l) : l[j] # v
  BY <1>1 DEF Range
<1>8. \A j, k \in 1..Len(l) : l[j] = l[k] => j = k
  BY <1>1 DEF Distinct
<1>9. ASSUME NEW j \in 1..Len(m)
      PROVE  g.nodes[m[j]] = Node(Present, At(m, j + 1), At(m, j - 1))
  <2>1. j \in 1..(Len(l) + 1) /\ i \in 1..(Len(l) + 1) /\ j + 1 \in Int /\ j - 1 \in Int
    BY <1>1, <1>2
  <2>2. CASE j = i
    <3>1. m[j] = v /\ At(m, j + 1) = At(l, i) /\ At(m, j - 1) = At(l, i - 1)
      BY <1>2, <1>4, <2>1, <2>2
    <3> QED BY <3>1 DEF Spliced
  <2>3. CASE j = i - 1
    <3>1. m[j] = l[i - 1] /\ At(m, j + 1) = v /\ At(m, j - 1) = At(l, i - 2) /\ i > 1
      BY <1>2, <1>4, <2>1, <2>3
    <3> QED BY <3>1 DEF Spliced
  <2>4. CASE j = i + 1
    <3>1. m[j] = l[i] /\ At(m, j + 1) = At(l, i + 1) /\ At(m, j - 1) = v /\ i <= Len(l)
      BY <1>2, <1>4, <2>1, <2>4
    <3> QED BY <3>1 DEF Spliced
  <2>5. CASE j < i - 1
    <3>1. m[j] = l[j] /\ At(m, j + 1) = At(l, j + 1) /\ At(m, j - 1) = At(l, j - 1)
      BY <1>2, <1>4, <2>1, <2>5
    <3>2. j \in 1..Len(l) /\ (i > 1 => l[j] # l[i - 1]) /\ (i <= Len(l) => l[j] # l[i])
      BY <1>1, <1>8, <2>1, <2>5
    <3>3. g.nodes[l[j]] = d.nodes[l[j]]
      BY <1>6, <1>7, <3>2 DEF Spliced
    <3> QED BY <1>6, <3>1, <3>2, <3>3
  <2>6. CASE j > i + 1
    <3>1. m[j] = l[j - 1] /\ At(m, j + 1) = At(l, j) /\ At(m, j - 1) = At(l, j - 2)
      BY <1>2, <1>4, <2>1, <2>6
    <3>2. /\ j - 1 \in 1..Len(l) /\ (j - 1) + 1 = j /\ (j - 1) - 1 = j - 2
          /\ (i > 1 => l[j - 1] # l[i - 1]) /\ (i <= Len(l) => l[j - 1] # l[i])
      BY <1>1, <1>8, <2>1, <2>6
    <3>3. g.nodes[l[j - 1]] = d.nodes[l[j - 1]]
      BY <1>6, <1>7, <3>2 DEF Spliced
    <3>4. d.nodes[l[j - 1]] = Node(Present, At(l, j), At(l, j - 2))
      <4>1. d.nodes[l[j - 1]] = Node(Present, At(l, (j - 1) + 1), At(l, (j - 1) - 1))
        BY <1>6, <3>2
      <4> QED BY ONLY <4>1, <3>2
    <3> QED BY <3>1, <3>3, <3>4
  <2> QED BY <2>1, <2>2, <2>3, <2>4, <2>5, <2>6
<1>10. ASSUME NEW a \in List!Addresses, \A j \in 1..Len(m) : a # m[j]
       PROVE  g.nodes[a] = Node(Absent, NoId, NoId)
  <2>1. i \in 1..Len(m) /\ m[i] = v /\ a # v
    BY <1>1, <1>2, <1>10
  <2>2. ASSUME NEW j \in 1..Len(l) PROVE a # l[j]
    <3>1. CASE j < i
      <4>1. j \in 1..Len(m) /\ m[j] = l[j]
        BY <1>1, <1>2, <3>1
      <4> QED BY <1>10, <4>1
    <3>2. CASE j >= i
      <4>1. j + 1 \in 1..Len(m) /\ m[j + 1] = l[(j + 1) - 1] /\ (j + 1) - 1 = j
        BY <1>1, <1>2, <3>2
      <4> QED BY <1>10, <4>1
    <3> QED BY <1>1, <3>1, <3>2
  <2>3. d.nodes[a] = Node(Absent, NoId, NoId)
    <3>1. a \notin Range(l)
      BY <1>1, <2>2 DEF Range
    <3> QED BY <3>1, UnlinkedNode
  <2>4. (i > 1 => a # l[i - 1]) /\ (i <= Len(l) => a # l[i])
    BY <1>1, <2>2
  <2> QED BY <2>1, <2>3, <2>4 DEF Spliced
<1>11. g.nodes = [a \in List!Addresses |-> g.nodes[a]]
  BY DEF Spliced
<1>12. Links(g, m)
  BY ONLY <1>2, <1>3, <1>5, <1>9, <1>10, <1>11, LinksFromNodes
<1> QED BY <1>12 DEF m

\* _insert between two neighbours puts the vault between them.
LEMMA LinksInserted ==
  ASSUME NEW d, NEW l, Links(d, l), NEW v \in Ids \ Range(l), NEW i \in 1..(Len(l) + 1)
  PROVE  Links(List!InsertedBetween(d, v, At(l, i - 1), At(l, i)), InsertAt(l, i, v))
<1> DEFINE A == List!Addresses
           f == d.nodes
           prev == At(l, i - 1)
           next == At(l, i)
           before == At(l, i - 2)
           after == At(l, i + 1)
           g == List!InsertedBetween(d, v, prev, next)
<1>1. /\ Len(l) \in Nat /\ d.head = At(l, 1) /\ d.tail = At(l, Len(l)) /\ d.size = Len(l)
      /\ v \in A /\ v # NoId /\ v \notin Range(l)
  BY Neighbours, RegistryAssumption DEF List!Addresses
<1>2. f = [a \in A |-> f[a]]
  BY DEF Links
<1>3. HasNode(A, f, v, Absent, NoId, NoId)
  <2>1. f[v] = Node(Absent, NoId, NoId)
    BY <1>1, UnlinkedNode
  <2> QED BY <1>1, <1>2, <2>1 DEF HasNode
<1>4. i = 1 => prev = NoId
  BY DEF At
<1>5. ASSUME i > 1
      PROVE  /\ i - 1 \in 1..Len(l) /\ prev = l[i - 1] /\ prev # NoId
             /\ HasNode(A, f, prev, Present, next, before)
  <2>1. i - 1 \in 1..Len(l) /\ (i - 1) + 1 = i /\ (i - 1) - 1 = i - 2
    BY <1>1, <1>5
  <2>2. prev = l[i - 1] /\ l[i - 1] # NoId
    BY <2>1, Neighbours DEF At
  <2>3. /\ f[l[i - 1]] = Node(Present, At(l, (i - 1) + 1), At(l, (i - 1) - 1))
        /\ l[i - 1] \in A
    BY <2>1, LinkedNode
  <2> HIDE DEF prev, next, before, f, A
  <2>4. HasNode(A, f, prev, Present, next, before)
    BY <1>2, <2>1, <2>2, <2>3 DEF HasNode, next, before
  <2> QED BY <2>1, <2>2, <2>4
<1>6. i = Len(l) + 1 => next = NoId
  BY <1>1 DEF At
<1>7. ASSUME i <= Len(l)
      PROVE  /\ i \in 1..Len(l) /\ next = l[i] /\ next # NoId
             /\ HasNode(A, f, next, Present, after, prev)
  <2>1. i \in 1..Len(l)
    BY <1>1, <1>7
  <2>2. next = l[i] /\ l[i] # NoId
    BY <2>1, Neighbours DEF At
  <2>3. /\ f[l[i]] = Node(Present, At(l, i + 1), At(l, i - 1))
        /\ l[i] \in A
    BY <2>1, LinkedNode
  <2> HIDE DEF prev, next, after, f, A
  <2>4. HasNode(A, f, next, Present, after, prev)
    BY <1>2, <2>1, <2>2, <2>3 DEF HasNode, prev, after
  <2> QED BY <2>1, <2>2, <2>4
<1>8. (i > 1 => v # prev) /\ (i <= Len(l) => v # next)
  <2>1. \A j \in 1..Len(l) : v # l[j]
    BY <1>1 DEF Links, Range
  <2> HIDE DEF prev, next
  <2> QED BY <1>5, <1>7, <2>1
<1>9. i > 1 /\ i <= Len(l) => prev # next
  <2>1. \A j, k \in 1..Len(l) : l[j] = l[k] => j = k
    BY DEF Links, Distinct
  <2> HIDE DEF prev, next
  <2> QED BY <1>5, <1>7, <2>1
<1>10. d = [head |-> d.head, tail |-> d.tail, size |-> d.size, nodes |-> f]
  BY <1>1 DEF Links
<1> HIDE DEF A, f, prev, next, before, after
<1>11. Spliced(d, l, v, i, g)
  <2>1. CASE i = 1 /\ i = Len(l) + 1
    <3>1. g = [head |-> v, tail |-> v, size |-> d.size + 1, nodes |-> SetExists(f, v, Present)]
      BY <1>4, <1>6, <2>1 DEF List!InsertedBetween, SetExists, Present, f
    <3>2. SetExists(f, v, Present) = WithNode(A, f, v, Node(Present, NoId, NoId))
      BY ONLY <1>3, SetField
    <3> HIDE DEF g
    <3>3. g.nodes = WithNode(A, f, v, Node(Present, NoId, NoId))
      BY <3>1, <3>2
    <3>4. g.nodes = [a \in A |-> g.nodes[a]] /\ g.nodes[v] = Node(Present, NoId, NoId)
          /\ \A a \in A : a # v => g.nodes[a] = f[a]
      BY <1>1, <3>3 DEF WithNode
    <3>5. At(l, i) = NoId /\ At(l, i - 1) = NoId
      BY <1>4, <1>6, <2>1 DEF next, prev
    <3>6. ~(i > 1) /\ ~(i <= Len(l))
      BY <1>1, <2>1
    <3>7. g = [head |-> IF i = 1 THEN v ELSE d.head, tail |-> IF i = Len(l) + 1 THEN v ELSE d.tail,
               size |-> d.size + 1, nodes |-> g.nodes]
      BY <2>1, <3>1
    <3> QED BY <3>4, <3>5, <3>6, <3>7 DEF Spliced, A, f
  <2>2. CASE i = 1 /\ i # Len(l) + 1
    <3> DEFINE h == NodesAtHead(f, v, next)
    <3>1. i <= Len(l) /\ ~(i > 1) /\ prev = NoId /\ next # NoId /\ d.head = next
      BY <1>1, <1>4, <1>7, <2>2 DEF next
    <3>2. g = [head |-> v, tail |-> d.tail, size |-> d.size + 1, nodes |-> h]
      BY <3>1 DEF List!InsertedBetween, f, NodesAtHead
    <3>3. HasNode(A, f, next, Present, after, NoId) /\ v # next /\ next = l[i]
      BY <1>7, <1>8, <3>1
    <3>4. /\ h = [a \in A |-> h[a]]
          /\ h[v] = Node(Present, next, NoId) /\ h[next] = Node(Present, after, v)
          /\ \A a \in A : a # v /\ a # next => h[a] = f[a]
      BY ONLY <1>3, <3>3, InsertedFirst
    <3> HIDE DEF g, h
    <3>5. g.nodes = h
      BY <3>2
    <3>6. g = [head |-> IF i = 1 THEN v ELSE d.head, tail |-> IF i = Len(l) + 1 THEN v ELSE d.tail,
               size |-> d.size + 1, nodes |-> g.nodes]
      BY <2>2, <3>2, <3>5
    <3> QED BY <3>1, <3>3, <3>4, <3>5, <3>6 DEF Spliced, A, f, next, prev, after
  <2>3. CASE i # 1 /\ i = Len(l) + 1
    <3> DEFINE h == NodesAtTail(f, v, prev)
    <3>1. i > 1 /\ ~(i <= Len(l)) /\ prev # NoId /\ next = NoId /\ d.tail = prev
      <4>1. i > 1 /\ ~(i <= Len(l)) /\ i - 1 = Len(l)
        BY <1>1, <2>3
      <4> QED BY <1>1, <1>5, <1>6, <2>3, <4>1 DEF prev
    <3>2. g = [head |-> d.head, tail |-> v, size |-> d.size + 1, nodes |-> h]
      BY <3>1 DEF List!InsertedBetween, f, NodesAtTail
    <3>3. HasNode(A, f, prev, Present, NoId, before) /\ v # prev /\ prev = l[i - 1]
      BY <1>5, <1>8, <3>1
    <3>4. /\ h = [a \in A |-> h[a]]
          /\ h[v] = Node(Present, NoId, prev) /\ h[prev] = Node(Present, v, before)
          /\ \A a \in A : a # v /\ a # prev => h[a] = f[a]
      BY ONLY <1>3, <3>3, InsertedLast
    <3> HIDE DEF g, h
    <3>5. g.nodes = h
      BY <3>2
    <3>6. g = [head |-> IF i = 1 THEN v ELSE d.head, tail |-> IF i = Len(l) + 1 THEN v ELSE d.tail,
               size |-> d.size + 1, nodes |-> g.nodes]
      BY <2>3, <3>2, <3>5
    <3> QED BY <3>1, <3>3, <3>4, <3>5, <3>6 DEF Spliced, A, f, next, prev, before
  <2>4. CASE i # 1 /\ i # Len(l) + 1
    <3> DEFINE h == NodesBetween(f, v, prev, next)
    <3>1. i > 1 /\ i <= Len(l) /\ prev # NoId /\ next # NoId
      BY <1>1, <1>5, <1>7, <2>4
    <3>2. g = [d EXCEPT !.size = d.size + 1, !.nodes = h]
      BY <3>1 DEF List!InsertedBetween, f, NodesBetween
    <3>3. /\ HasNode(A, f, prev, Present, next, before) /\ HasNode(A, f, next, Present, after, prev)
          /\ v # prev /\ v # next /\ prev # next /\ prev = l[i - 1] /\ next = l[i]
      BY <1>5, <1>7, <1>8, <1>9, <3>1
    <3>4. /\ h = [a \in A |-> h[a]]
          /\ h[v] = Node(Present, next, prev)
          /\ h[prev] = Node(Present, v, before) /\ h[next] = Node(Present, after, v)
          /\ \A a \in A : a # v /\ a # prev /\ a # next => h[a] = f[a]
      BY ONLY <1>3, <3>3, InsertedNodes
    <3> HIDE DEF g, h
    <3>5. g = [head |-> d.head, tail |-> d.tail, size |-> d.size + 1, nodes |-> h]
      BY <1>10, <3>2
    <3>6. g.nodes = h
      BY <3>5
    <3>7. g = [head |-> IF i = 1 THEN v ELSE d.head, tail |-> IF i = Len(l) + 1 THEN v ELSE d.tail,
               size |-> d.size + 1, nodes |-> g.nodes]
      BY <2>4, <3>5, <3>6
    <3> QED BY <3>1, <3>3, <3>4, <3>6, <3>7 DEF Spliced, A, f, next, prev, before, after
  <2> QED BY <2>1, <2>2, <2>3, <2>4
<1> HIDE DEF g
<1>12. Links(g, InsertAt(l, i, v))
  BY <1>11, SplicedLinks
<1> QED BY <1>12 DEF g, prev, next

\* The nodes after _remove has unlinked v, by its place in the list, and deleted it.
Deleted(f, v) == [f EXCEPT ![v] = List!NoNode]
NodesWithout(f, v, prev, next) ==
  Deleted([f EXCEPT ![prev].nextId = next, ![next].prevId = prev], v)
NodesPastHead(f, v, next) == Deleted([f EXCEPT ![next].prevId = NoId], v)
NodesUpToTail(f, v, prev) == Deleted([f EXCEPT ![prev].nextId = NoId], v)

\* The node taken out from between two others.
LEMMA RemovedNodes ==
  ASSUME NEW A, NEW f, NEW v, NEW prev, NEW next, NEW before, NEW after, NEW g,
         v # prev, v # next, prev # next, HasNode(A, f, v, Present, next, prev),
         HasNode(A, f, prev, Present, v, before), HasNode(A, f, next, Present, after, v),
         g = NodesWithout(f, v, prev, next)
  PROVE  /\ g = [a \in A |-> g[a]]
         /\ g[v] = Node(Absent, NoId, NoId)
         /\ g[prev] = Node(Present, next, before) /\ g[next] = Node(Present, after, prev)
         /\ \A a \in A : a # v /\ a # prev /\ a # next => g[a] = f[a]
<1> DEFINE f1 == SetNext(f, prev, next)
           f2 == SetPrev(f1, next, prev)
<1>1. g = Deleted(f2, v)
  BY DEF NodesWithout, SetNext, SetPrev
<1> HIDE DEF f1, f2
<1>2. f1 = WithNode(A, f, prev, Node(Present, next, before))
  BY ONLY HasNode(A, f, prev, Present, v, before), SetField DEF f1
<1>3. HasNode(A, f1, next, Present, after, v)
  BY <1>2 DEF HasNode, WithNode
<1>4. f2 = WithNode(A, f1, next, Node(Present, after, prev))
  BY ONLY <1>3, SetField DEF f2
<1>5. List!NoNode = Node(Absent, NoId, NoId)
  BY DEF List!NoNode, Node, Absent
<1> QED BY <1>1, <1>2, <1>4, <1>5 DEF HasNode, WithNode, Deleted

\* The same, at the head of the list,
LEMMA RemovedFirst ==
  ASSUME NEW A, NEW f, NEW v \in A, NEW next, NEW after, NEW g, v # next,
         HasNode(A, f, next, Present, after, v), g = NodesPastHead(f, v, next)
  PROVE  /\ g = [a \in A |-> g[a]]
         /\ g[v] = Node(Absent, NoId, NoId) /\ g[next] = Node(Present, after, NoId)
         /\ \A a \in A : a # v /\ a # next => g[a] = f[a]
<1> DEFINE f1 == SetPrev(f, next, NoId)
<1>1. g = Deleted(f1, v)
  BY DEF NodesPastHead, SetPrev
<1> HIDE DEF f1
<1>2. f1 = WithNode(A, f, next, Node(Present, after, NoId))
  BY ONLY HasNode(A, f, next, Present, after, v), SetField DEF f1
<1>3. List!NoNode = Node(Absent, NoId, NoId)
  BY DEF List!NoNode, Node, Absent
<1> QED BY <1>1, <1>2, <1>3 DEF HasNode, WithNode, Deleted

\* and at the tail.
LEMMA RemovedLast ==
  ASSUME NEW A, NEW f, NEW v \in A, NEW prev, NEW before, NEW g, v # prev,
         HasNode(A, f, prev, Present, v, before), g = NodesUpToTail(f, v, prev)
  PROVE  /\ g = [a \in A |-> g[a]]
         /\ g[v] = Node(Absent, NoId, NoId) /\ g[prev] = Node(Present, NoId, before)
         /\ \A a \in A : a # v /\ a # prev => g[a] = f[a]
<1> DEFINE f1 == SetNext(f, prev, NoId)
<1>1. g = Deleted(f1, v)
  BY DEF NodesUpToTail, SetNext
<1> HIDE DEF f1
<1>2. f1 = WithNode(A, f, prev, Node(Present, NoId, before))
  BY ONLY HasNode(A, f, prev, Present, v, before), SetField DEF f1
<1>3. List!NoNode = Node(Absent, NoId, NoId)
  BY DEF List!NoNode, Node, Absent
<1> QED BY <1>1, <1>2, <1>3 DEF HasNode, WithNode, Deleted

\* The neighbours in a sequence after a removal at k.
LEMMA AtRemoved ==
  ASSUME NEW l \in Seq(Ids), Distinct(l), NEW k \in 1..Len(l), NEW j \in Int
  PROVE  At(Without(l, {l[k]}), j) = IF j < k THEN At(l, j) ELSE At(l, j + 1)
<1> DEFINE m == Without(l, {l[k]})
<1> SUFFICES At(m, j) = IF j < k THEN At(l, j) ELSE At(l, j + 1)
  OBVIOUS
<1>1. Len(m) = Len(l) - 1 /\ \A i \in 1..(Len(l) - 1) : m[i] = IF i < k THEN l[i] ELSE l[i + 1]
  BY ONLY l \in Seq(Ids), Distinct(l), k \in 1..Len(l), WithoutOne
<1>2. Len(l) \in Nat
  OBVIOUS
<1> HIDE DEF m
<1>3. CASE j \in 1..(Len(l) - 1)
  BY <1>1, <1>2, <1>3 DEF At
<1>4. CASE j \notin 1..(Len(l) - 1)
  BY <1>1, <1>2, <1>4 DEF At
<1> QED BY <1>3, <1>4

\* The pointers of g are those of d with the vault at position k of l taken out.
Unspliced(d, l, k, g) ==
  /\ g = [head |-> IF k = 1 THEN At(l, 2) ELSE d.head,
          tail |-> IF k = Len(l) THEN At(l, k - 1) ELSE d.tail,
          size |-> d.size - 1, nodes |-> g.nodes]
  /\ g.nodes = [a \in List!Addresses |-> g.nodes[a]]
  /\ g.nodes[l[k]] = Node(Absent, NoId, NoId)
  /\ k > 1 => g.nodes[l[k - 1]] = Node(Present, At(l, k + 1), At(l, k - 2))
  /\ k < Len(l) => g.nodes[l[k + 1]] = Node(Present, At(l, k + 2), At(l, k - 1))
  /\ \A a \in List!Addresses :
       a # l[k] /\ (k > 1 => a # l[k - 1]) /\ (k < Len(l) => a # l[k + 1])
         => g.nodes[a] = d.nodes[a]

\* Those are the pointers of l without that vault.
LEMMA UnsplicedLinks ==
  ASSUME NEW d, NEW l, Links(d, l), NEW k \in 1..Len(l), NEW g, Unspliced(d, l, k, g)
  PROVE  Links(g, Without(l, {l[k]}))
<1> DEFINE m == Without(l, {l[k]})
<1>1. /\ l \in Seq(Ids) /\ Len(l) \in Nat /\ Distinct(l)
      /\ d.head = At(l, 1) /\ d.tail = At(l, Len(l)) /\ d.size = Len(l)
  BY Neighbours DEF Links
<1>2. /\ m \in Seq(Ids) /\ Len(m) = Len(l) - 1
      /\ \A j \in 1..(Len(l) - 1) : m[j] = IF j < k THEN l[j] ELSE l[j + 1]
  BY ONLY <1>1, k \in 1..Len(l), WithoutOne
<1>3. Distinct(m)
  BY ONLY <1>1, WithoutProperties
<1>4. \A j \in Int : At(m, j) = IF j < k THEN At(l, j) ELSE At(l, j + 1)
  BY <1>1, AtRemoved
<1> HIDE DEF m
<1>5. g = [head |-> At(m, 1), tail |-> At(m, Len(m)), size |-> Len(m), nodes |-> g.nodes]
  <2>1. At(m, 1) = IF k = 1 THEN At(l, 2) ELSE d.head
    <3>1. 1 \in Int /\ (1 < k <=> k # 1) /\ 1 + 1 = 2
      BY ONLY k \in 1..Len(l)
    <3>2. At(m, 1) = IF k = 1 THEN At(l, 1 + 1) ELSE At(l, 1)
      BY ONLY <1>4, <3>1
    <3> QED BY ONLY <1>1, <3>1, <3>2
  <2>2. At(m, Len(m)) = IF k = Len(l) THEN At(l, k - 1) ELSE d.tail
    <3>1. Len(m) \in Int /\ Len(m) + 1 = Len(l) /\ (Len(m) < k <=> k = Len(l)) /\ Len(m) = Len(l) - 1
      BY <1>1, <1>2
    <3> QED BY <1>1, <1>4, <3>1
  <2> QED BY <1>1, <1>2, <2>1, <2>2 DEF Unspliced
<1>6. \A j \in 1..Len(l) : /\ d.nodes[l[j]] = Node(Present, At(l, j + 1), At(l, j - 1))
                           /\ l[j] \in List!Addresses
  BY LinkedNode
<1>7. \A i, j \in 1..Len(l) : l[i] = l[j] => i = j
  BY <1>1 DEF Distinct
<1>8. ASSUME NEW j \in 1..Len(m)
      PROVE  g.nodes[m[j]] = Node(Present, At(m, j + 1), At(m, j - 1))
  <2>1. /\ j \in 1..(Len(l) - 1) /\ j \in Int /\ j + 1 \in Int /\ j - 1 \in Int
        /\ k \in 1..Len(l) /\ Len(l) \in Nat
    BY <1>1, <1>2
  <2>a. m[j] = IF j < k THEN l[j] ELSE l[j + 1]
    BY ONLY <1>2, <2>1
  <2>b. At(m, j + 1) = IF j + 1 < k THEN At(l, j + 1) ELSE At(l, j + 2)
    <3>1. At(m, j + 1) = IF j + 1 < k THEN At(l, j + 1) ELSE At(l, (j + 1) + 1)
      BY ONLY <1>4, <2>1
    <3>2. (j + 1) + 1 = j + 2
      BY ONLY <2>1
    <3> QED BY ONLY <3>1, <3>2
  <2>c. At(m, j - 1) = IF j - 1 < k THEN At(l, j - 1) ELSE At(l, j)
    <3>1. At(m, j - 1) = IF j - 1 < k THEN At(l, j - 1) ELSE At(l, (j - 1) + 1)
      BY ONLY <1>4, <2>1
    <3>2. (j - 1) + 1 = j
      BY ONLY <2>1
    <3> QED BY ONLY <3>1, <3>2
  <2>2. CASE j = k - 1
    <3>1. m[j] = l[k - 1] /\ At(m, j + 1) = At(l, k + 1) /\ At(m, j - 1) = At(l, k - 2) /\ k > 1
      BY ONLY <2>1, <2>a, <2>b, <2>c, <2>2
    <3> QED BY <3>1 DEF Unspliced
  <2>3. CASE j = k
    <3>1. m[j] = l[k + 1] /\ At(m, j + 1) = At(l, k + 2) /\ At(m, j - 1) = At(l, k - 1) /\ k < Len(l)
      BY ONLY <2>1, <2>a, <2>b, <2>c, <2>3
    <3> QED BY <3>1 DEF Unspliced
  <2>4. CASE j < k - 1
    <3>1. m[j] = l[j] /\ At(m, j + 1) = At(l, j + 1) /\ At(m, j - 1) = At(l, j - 1)
      BY ONLY <2>1, <2>a, <2>b, <2>c, <2>4
    <3>2. /\ j \in 1..Len(l) /\ l[j] # l[k]
          /\ (k > 1 => l[j] # l[k - 1]) /\ (k < Len(l) => l[j] # l[k + 1])
      BY <1>7, <2>1, <2>4
    <3>3. g.nodes[l[j]] = d.nodes[l[j]]
      BY <1>6, <3>2 DEF Unspliced
    <3> QED BY <1>6, <3>1, <3>2, <3>3
  <2>5. CASE j > k
    <3>1. m[j] = l[j + 1] /\ At(m, j + 1) = At(l, j + 2) /\ At(m, j - 1) = At(l, j)
      BY ONLY <2>1, <2>a, <2>b, <2>c, <2>5
    <3>2. /\ j + 1 \in 1..Len(l) /\ (j + 1) + 1 = j + 2 /\ (j + 1) - 1 = j /\ l[j + 1] # l[k]
          /\ (k > 1 => l[j + 1] # l[k - 1]) /\ (k < Len(l) => l[j + 1] # l[k + 1])
      BY <1>7, <2>1, <2>5
    <3>3. g.nodes[l[j + 1]] = d.nodes[l[j + 1]]
      BY <1>6, <3>2 DEF Unspliced
    <3>4. d.nodes[l[j + 1]] = Node(Present, At(l, j + 2), At(l, j))
      <4>1. d.nodes[l[j + 1]] = Node(Present, At(l, (j + 1) + 1), At(l, (j + 1) - 1))
        BY <1>6, <3>2
      <4> QED BY ONLY <4>1, <3>2
    <3> QED BY <3>1, <3>3, <3>4
  <2> QED BY <2>1, <2>2, <2>3, <2>4, <2>5
<1>9. ASSUME NEW a \in List!Addresses, \A j \in 1..Len(m) : a # m[j]
      PROVE  g.nodes[a] = Node(Absent, NoId, NoId)
  <2>1. ASSUME NEW j \in 1..Len(l), j # k PROVE a # l[j]
    <3>1. CASE j < k
      <4>1. j \in 1..Len(m) /\ m[j] = l[j]
        BY <1>1, <1>2, <3>1
      <4> QED BY <1>9, <4>1
    <3>2. CASE j > k
      <4>1. j - 1 \in 1..Len(m) /\ m[j - 1] = l[(j - 1) + 1] /\ (j - 1) + 1 = j
        BY <1>1, <1>2, <3>2
      <4> QED BY <1>9, <4>1
    <3> QED BY <1>1, <2>1, <3>1, <3>2
  <2>2. CASE a = l[k]
    BY <2>2 DEF Unspliced
  <2>3. CASE a # l[k]
    <3>1. a \notin Range(l)
      BY <1>1, <2>1, <2>3 DEF Range
    <3>2. d.nodes[a] = Node(Absent, NoId, NoId)
      BY <3>1, UnlinkedNode
    <3>3. (k > 1 => a # l[k - 1]) /\ (k < Len(l) => a # l[k + 1])
      BY <1>1, <2>1
    <3> QED BY <2>3, <3>2, <3>3 DEF Unspliced
  <2> QED BY <2>2, <2>3
<1>10. g.nodes = [a \in List!Addresses |-> g.nodes[a]]
  BY DEF Unspliced
<1>11. Links(g, m)
  BY ONLY <1>2, <1>3, <1>5, <1>8, <1>9, <1>10, LinksFromNodes
<1> QED BY <1>11 DEF m

\* The fields of the list, and what each branch of _remove assigns to them.
Fields(h, t, s, f) == [head |-> h, tail |-> t, size |-> s, nodes |-> f]

UnlinkedOnly(d) == [d EXCEPT !.head = NoId, !.tail = NoId]
UnlinkedHead(d, next) == [d EXCEPT !.head = next, !.nodes[next].prevId = NoId]
UnlinkedTail(d, prev) == [d EXCEPT !.tail = prev, !.nodes[prev].nextId = NoId]
UnlinkedInner(d, prev, next) == [d EXCEPT !.nodes[prev].nextId = next, !.nodes[next].prevId = prev]
DeletedFrom(u, v) == [u EXCEPT !.size = @ - 1, !.nodes[v] = List!NoNode]

SetHead(d, x) == [d EXCEPT !.head = x]
SetTail(d, x) == [d EXCEPT !.tail = x]
SetSize(d, x) == [d EXCEPT !.size = x]
SetNodes(d, x) == [d EXCEPT !.nodes = x]

\* Assigning one field.
LEMMA FieldSet ==
  ASSUME NEW h, NEW t, NEW s, NEW f, NEW x
  PROVE  /\ SetHead(Fields(h, t, s, f), x) = Fields(x, t, s, f)
         /\ SetTail(Fields(h, t, s, f), x) = Fields(h, x, s, f)
         /\ SetSize(Fields(h, t, s, f), x) = Fields(h, t, x, f)
         /\ SetNodes(Fields(h, t, s, f), x) = Fields(h, t, s, x)
         /\ Fields(h, t, s, f).size = s /\ Fields(h, t, s, f).nodes = f
<1> DEFINE Names == {"head", "tail", "size", "nodes"}
<1>1. SetHead(Fields(h, t, s, f), x) = Fields(x, t, s, f)
  <2>1. Fields(x, t, s, f) = [k \in Names |-> IF k = "head" THEN x ELSE Fields(h, t, s, f)[k]]
    BY DEF Fields
  <2>2. SetHead(Fields(h, t, s, f), x)
          = [k \in Names |-> IF k = "head" THEN x ELSE Fields(h, t, s, f)[k]]
    BY DEF Fields, SetHead
  <2> QED BY <2>1, <2>2
<1>2. SetTail(Fields(h, t, s, f), x) = Fields(h, x, s, f)
  <2>1. Fields(h, x, s, f) = [k \in Names |-> IF k = "tail" THEN x ELSE Fields(h, t, s, f)[k]]
    BY DEF Fields
  <2>2. SetTail(Fields(h, t, s, f), x)
          = [k \in Names |-> IF k = "tail" THEN x ELSE Fields(h, t, s, f)[k]]
    BY DEF Fields, SetTail
  <2> QED BY <2>1, <2>2
<1>3. SetSize(Fields(h, t, s, f), x) = Fields(h, t, x, f)
  <2>1. Fields(h, t, x, f) = [k \in Names |-> IF k = "size" THEN x ELSE Fields(h, t, s, f)[k]]
    BY DEF Fields
  <2>2. SetSize(Fields(h, t, s, f), x)
          = [k \in Names |-> IF k = "size" THEN x ELSE Fields(h, t, s, f)[k]]
    BY DEF Fields, SetSize
  <2> QED BY <2>1, <2>2
<1>4. SetNodes(Fields(h, t, s, f), x) = Fields(h, t, s, x)
  <2>1. Fields(h, t, s, x) = [k \in Names |-> IF k = "nodes" THEN x ELSE Fields(h, t, s, f)[k]]
    BY DEF Fields
  <2>2. SetNodes(Fields(h, t, s, f), x)
          = [k \in Names |-> IF k = "nodes" THEN x ELSE Fields(h, t, s, f)[k]]
    BY DEF Fields, SetNodes
  <2> QED BY <2>1, <2>2
<1>5. Fields(h, t, s, f).size = s /\ Fields(h, t, s, f).nodes = f
  BY DEF Fields
<1> QED BY <1>1, <1>2, <1>3, <1>4, <1>5

\* Deleting the node and counting it.
LEMMA DeletedFields ==
  ASSUME NEW h, NEW t, NEW s, NEW f, NEW v
  PROVE  DeletedFrom(Fields(h, t, s, f), v) = Fields(h, t, s - 1, Deleted(f, v))
<1> DEFINE u == SetSize(Fields(h, t, s, f), Fields(h, t, s, f).size - 1)
<1>1. DeletedFrom(Fields(h, t, s, f), v) = SetNodes(u, Deleted(u.nodes, v))
  BY DEF DeletedFrom, SetSize, SetNodes, Deleted
<1>2. u = Fields(h, t, s - 1, f)
  BY FieldSet
<1> HIDE DEF u
<1>3. u.nodes = f /\ SetNodes(u, Deleted(f, v)) = Fields(h, t, s - 1, Deleted(f, v))
  BY <1>2, FieldSet
<1> QED BY <1>1, <1>3

\* What each branch makes of a list of these fields.
BranchesLeave(d, v, h, t, s, f) ==
  /\ DeletedFrom(UnlinkedOnly(d), v) = Fields(NoId, NoId, s - 1, Deleted(f, v))
  /\ \A next : DeletedFrom(UnlinkedHead(d, next), v)
                 = Fields(next, t, s - 1, NodesPastHead(f, v, next))
  /\ \A prev : DeletedFrom(UnlinkedTail(d, prev), v)
                 = Fields(h, prev, s - 1, NodesUpToTail(f, v, prev))
  /\ \A prev, next : DeletedFrom(UnlinkedInner(d, prev, next), v)
                       = Fields(h, t, s - 1, NodesWithout(f, v, prev, next))

\* The list that each branch leaves, field by field.
LEMMA RemovedFields ==
  ASSUME NEW h, NEW t, NEW s, NEW f, NEW v, NEW d, d = Fields(h, t, s, f)
  PROVE  BranchesLeave(d, v, h, t, s, f)
<1>1. UnlinkedOnly(d) = Fields(NoId, NoId, s, f)
  <2>1. UnlinkedOnly(d) = SetTail(SetHead(d, NoId), NoId)
    BY DEF UnlinkedOnly, SetHead, SetTail
  <2> QED BY <2>1, FieldSet
<1>2. ASSUME NEW next
      PROVE  UnlinkedHead(d, next) = Fields(next, t, s, SetPrev(f, next, NoId))
  <2>1. UnlinkedHead(d, next)
          = SetNodes(SetHead(d, next), SetPrev(SetHead(d, next).nodes, next, NoId))
    BY DEF UnlinkedHead, SetHead, SetNodes, SetPrev
  <2> QED BY <2>1, FieldSet
<1>3. ASSUME NEW prev
      PROVE  UnlinkedTail(d, prev) = Fields(h, prev, s, SetNext(f, prev, NoId))
  <2>1. UnlinkedTail(d, prev)
          = SetNodes(SetTail(d, prev), SetNext(SetTail(d, prev).nodes, prev, NoId))
    BY DEF UnlinkedTail, SetTail, SetNodes, SetNext
  <2> QED BY <2>1, FieldSet
<1>4. ASSUME NEW prev, NEW next
      PROVE  UnlinkedInner(d, prev, next) = Fields(h, t, s, SetPrev(SetNext(f, prev, next), next, prev))
  <2> DEFINE u == SetNodes(d, SetNext(d.nodes, prev, next))
  <2>1. UnlinkedInner(d, prev, next) = SetNodes(u, SetPrev(u.nodes, next, prev))
    BY DEF UnlinkedInner, SetNodes, SetPrev, SetNext
  <2>2. u = Fields(h, t, s, SetNext(f, prev, next))
    BY FieldSet
  <2> HIDE DEF u
  <2> QED BY <2>1, <2>2, FieldSet
<1>5. \A prev, next :
        /\ NodesPastHead(f, v, next) = Deleted(SetPrev(f, next, NoId), v)
        /\ NodesUpToTail(f, v, prev) = Deleted(SetNext(f, prev, NoId), v)
        /\ NodesWithout(f, v, prev, next) = Deleted(SetPrev(SetNext(f, prev, next), next, prev), v)
  BY DEF NodesPastHead, NodesUpToTail, NodesWithout, SetPrev, SetNext
<1> QED BY <1>1, <1>2, <1>3, <1>4, <1>5, DeletedFields DEF BranchesLeave

\* The branches of _remove.
LEMMA RemovedBranches ==
  ASSUME NEW d, NEW v, NEW prev, NEW next, d.size \in Nat,
         d.nodes[v].prevId = prev, d.nodes[v].nextId = next
  PROVE  /\ d.size <= 1 => List!Removed(d, v) = DeletedFrom(UnlinkedOnly(d), v)
         /\ d.size > 1 /\ v = d.head => List!Removed(d, v) = DeletedFrom(UnlinkedHead(d, next), v)
         /\ d.size > 1 /\ v # d.head /\ v = d.tail
              => List!Removed(d, v) = DeletedFrom(UnlinkedTail(d, prev), v)
         /\ d.size > 1 /\ v # d.head /\ v # d.tail
              => List!Removed(d, v) = DeletedFrom(UnlinkedInner(d, prev, next), v)
<1> DEFINE u == CASE d.size <= 1 -> UnlinkedOnly(d)
                  [] d.size > 1 /\ v = d.head -> UnlinkedHead(d, next)
                  [] d.size > 1 /\ v # d.head /\ v = d.tail -> UnlinkedTail(d, prev)
                  [] OTHER -> UnlinkedInner(d, prev, next)
<1>1. List!Removed(d, v) = DeletedFrom(u, v)
  BY DEF List!Removed, DeletedFrom, UnlinkedOnly, UnlinkedHead, UnlinkedTail, UnlinkedInner
<1>2. ~(d.size > 1 /\ d.size <= 1)
  OBVIOUS
<1>3. /\ d.size <= 1 => u = UnlinkedOnly(d)
      /\ d.size > 1 /\ v = d.head => u = UnlinkedHead(d, next)
      /\ d.size > 1 /\ v # d.head /\ v = d.tail => u = UnlinkedTail(d, prev)
      /\ d.size > 1 /\ v # d.head /\ v # d.tail => u = UnlinkedInner(d, prev, next)
  BY <1>2
<1> HIDE DEF u
<1> QED BY <1>1, <1>3

\* _remove takes the vault out, wherever in the list it is.
LEMMA LinksRemoved ==
  ASSUME NEW d, NEW l, Links(d, l), NEW k \in 1..Len(l)
  PROVE  Links(List!Removed(d, l[k]), Without(l, {l[k]}))
<1> DEFINE A == List!Addresses
           f == d.nodes
           v == l[k]
           prev == At(l, k - 1)
           next == At(l, k + 1)
           before == At(l, k - 2)
           after == At(l, k + 2)
           g == List!Removed(d, v)
<1>1. /\ Len(l) \in Nat /\ d.head = At(l, 1) /\ d.tail = At(l, Len(l)) /\ d.size = Len(l)
      /\ \A i, j \in 1..Len(l) : l[i] = l[j] => i = j
  BY Neighbours DEF Links, Distinct
<1>2. f = [a \in A |-> f[a]]
  BY DEF Links
<1>3. v \in A /\ f[v] = Node(Present, next, prev) /\ f[v].nextId = next /\ f[v].prevId = prev
  <2>1. v \in A /\ f[v] = Node(Present, next, prev)
    BY LinkedNode
  <2> QED BY <2>1 DEF Node
<1>4. ASSUME k > 1
      PROVE  /\ k - 1 \in 1..Len(l) /\ prev = l[k - 1] /\ prev # v
             /\ HasNode(A, f, prev, Present, v, before)
  <2>1. k - 1 \in 1..Len(l) /\ (k - 1) + 1 = k /\ (k - 1) - 1 = k - 2 /\ k - 1 # k
    BY <1>1, <1>4
  <2>2. prev = l[k - 1] /\ prev # v
    BY <1>1, <2>1 DEF At
  <2>3. /\ f[l[k - 1]] = Node(Present, At(l, (k - 1) + 1), At(l, (k - 1) - 1))
        /\ l[k - 1] \in A
    BY <2>1, LinkedNode
  <2>4. At(l, k) = v
    BY DEF At
  <2> HIDE DEF prev, v, before, f, A
  <2>5. HasNode(A, f, prev, Present, v, before)
    BY <1>2, <2>1, <2>2, <2>3, <2>4 DEF HasNode, before
  <2> QED BY <2>1, <2>2, <2>5
<1>5. ASSUME k < Len(l)
      PROVE  /\ k + 1 \in 1..Len(l) /\ next = l[k + 1] /\ next # v
             /\ HasNode(A, f, next, Present, after, v)
  <2>1. k + 1 \in 1..Len(l) /\ (k + 1) + 1 = k + 2 /\ (k + 1) - 1 = k /\ k + 1 # k
    BY <1>1, <1>5
  <2>2. next = l[k + 1] /\ next # v
    BY <1>1, <2>1 DEF At
  <2>3. /\ f[l[k + 1]] = Node(Present, At(l, (k + 1) + 1), At(l, (k + 1) - 1))
        /\ l[k + 1] \in A
    BY <2>1, LinkedNode
  <2>4. At(l, k) = v
    BY DEF At
  <2> HIDE DEF next, v, after, f, A
  <2>5. HasNode(A, f, next, Present, after, v)
    BY <1>2, <2>1, <2>2, <2>3, <2>4 DEF HasNode, after
  <2> QED BY <2>1, <2>2, <2>5
<1>6. (k = 1 => prev = NoId) /\ (k = Len(l) => next = NoId) /\ At(l, k) = v
  BY <1>1 DEF At
<1>7. k > 1 /\ k < Len(l) => prev # next
  <2>1. k > 1 /\ k < Len(l) => k - 1 # k + 1
    OBVIOUS
  <2> HIDE DEF prev, next
  <2> QED BY <1>1, <1>4, <1>5, <2>1
<1>8. (k = 1 <=> v = d.head) /\ (k = Len(l) <=> v = d.tail)
  <2>1. 1 \in 1..Len(l) /\ Len(l) \in 1..Len(l)
    BY <1>1
  <2>2. At(l, 1) = l[1] /\ At(l, Len(l)) = l[Len(l)]
    BY <2>1 DEF At
  <2> QED BY <1>1, <2>1, <2>2
<1>9. d = Fields(d.head, d.tail, d.size, f)
  BY <1>1 DEF Links, Fields
<1> HIDE DEF A, f, v, prev, next, before, after
<1>f. BranchesLeave(d, v, d.head, d.tail, d.size, f)
  BY ONLY <1>9, RemovedFields
<1>10. /\ d.size <= 1 => g = DeletedFrom(UnlinkedOnly(d), v)
       /\ d.size > 1 /\ v = d.head => g = DeletedFrom(UnlinkedHead(d, next), v)
       /\ d.size > 1 /\ v # d.head /\ v = d.tail => g = DeletedFrom(UnlinkedTail(d, prev), v)
       /\ d.size > 1 /\ v # d.head /\ v # d.tail
            => g = DeletedFrom(UnlinkedInner(d, prev, next), v)
  <2>1. d.size \in Nat /\ d.nodes[v].prevId = prev /\ d.nodes[v].nextId = next
    BY <1>1, <1>3 DEF f
  <2> QED BY <2>1, RemovedBranches
<1>11. Unspliced(d, l, k, g)
  <2>1. CASE d.size <= 1
    <3>1. k = 1 /\ k = Len(l) /\ ~(k > 1) /\ ~(k < Len(l))
      BY <1>1, <2>1
    <3>2. g = [head |-> NoId, tail |-> NoId, size |-> d.size - 1,
               nodes |-> Deleted(f, v)]
      <4>1. g = DeletedFrom(UnlinkedOnly(d), v)
        BY <1>10, <2>1
      <4> HIDE DEF g, v
      <4>2. g = Fields(NoId, NoId, d.size - 1, Deleted(f, v))
        BY ONLY <1>f, <4>1 DEF BranchesLeave
      <4> QED BY <4>2 DEF Fields
    <3> HIDE DEF g
    <3>3. g.nodes = Deleted(f, v)
      BY <3>2
    <3>4. List!NoNode = Node(Absent, NoId, NoId)
      BY DEF List!NoNode, Node, Absent
    <3> HIDE DEF v
    <3>5. g.nodes = [a \in A |-> g.nodes[a]] /\ g.nodes[v] = Node(Absent, NoId, NoId)
          /\ \A a \in A : a # v => g.nodes[a] = f[a]
      BY <1>2, <1>3, <3>3, <3>4 DEF Deleted
    <3>6. At(l, 2) = NoId /\ At(l, k - 1) = NoId
      BY <1>1, <1>6, <3>1 DEF At, prev
    <3>7. g = [head |-> IF k = 1 THEN At(l, 2) ELSE d.head,
               tail |-> IF k = Len(l) THEN At(l, k - 1) ELSE d.tail,
               size |-> d.size - 1, nodes |-> g.nodes]
      BY <3>1, <3>2, <3>3, <3>6
    <3> QED BY <3>1, <3>5, <3>7 DEF Unspliced, A, f, v
  <2>2. CASE d.size > 1 /\ v = d.head
    <3>1. k = 1 /\ k < Len(l) /\ ~(k > 1) /\ k # Len(l)
      BY <1>1, <1>8, <2>2
    <3>2. g = [head |-> next, tail |-> d.tail, size |-> d.size - 1,
               nodes |-> NodesPastHead(f, v, next)]
      <4>1. g = DeletedFrom(UnlinkedHead(d, next), v)
        BY <1>10, <2>2
      <4> HIDE DEF g, v
      <4>2. g = Fields(next, d.tail, d.size - 1, NodesPastHead(f, v, next))
        BY ONLY <1>f, <4>1 DEF BranchesLeave
      <4> QED BY <4>2 DEF Fields
    <3> HIDE DEF g
    <3>3. g.nodes = NodesPastHead(f, v, next)
      BY <3>2
    <3>4. HasNode(A, f, next, Present, after, v) /\ v # next /\ next = l[k + 1]
      BY <1>5, <3>1
    <3> HIDE DEF v
    <3>5. /\ g.nodes = [a \in A |-> g.nodes[a]]
          /\ g.nodes[v] = Node(Absent, NoId, NoId) /\ g.nodes[next] = Node(Present, after, NoId)
          /\ \A a \in A : a # v /\ a # next => g.nodes[a] = f[a]
      BY ONLY <1>3, <3>3, <3>4, RemovedFirst
    <3>6. At(l, 2) = next /\ At(l, k - 1) = NoId
      BY <1>6, <3>1 DEF next, prev
    <3>7. g = [head |-> IF k = 1 THEN At(l, 2) ELSE d.head,
               tail |-> IF k = Len(l) THEN At(l, k - 1) ELSE d.tail,
               size |-> d.size - 1, nodes |-> g.nodes]
      BY <3>1, <3>2, <3>3, <3>6
    <3> QED BY <3>1, <3>4, <3>5, <3>6, <3>7 DEF Unspliced, A, f, v, after
  <2>3. CASE d.size > 1 /\ v # d.head /\ v = d.tail
    <3>1. k > 1 /\ k = Len(l) /\ ~(k < Len(l)) /\ k # 1
      BY <1>1, <1>8, <2>3
    <3>2. g = [head |-> d.head, tail |-> prev, size |-> d.size - 1,
               nodes |-> NodesUpToTail(f, v, prev)]
      <4>1. g = DeletedFrom(UnlinkedTail(d, prev), v)
        BY <1>10, <2>3
      <4> HIDE DEF g, v
      <4>2. g = Fields(d.head, prev, d.size - 1, NodesUpToTail(f, v, prev))
        BY ONLY <1>f, <4>1 DEF BranchesLeave
      <4> QED BY <4>2 DEF Fields
    <3> HIDE DEF g
    <3>3. g.nodes = NodesUpToTail(f, v, prev)
      BY <3>2
    <3>4. HasNode(A, f, prev, Present, v, before) /\ v # prev /\ prev = l[k - 1]
      BY <1>4, <3>1
    <3> HIDE DEF v
    <3>5. /\ g.nodes = [a \in A |-> g.nodes[a]]
          /\ g.nodes[v] = Node(Absent, NoId, NoId) /\ g.nodes[prev] = Node(Present, NoId, before)
          /\ \A a \in A : a # v /\ a # prev => g.nodes[a] = f[a]
      BY ONLY <1>3, <3>3, <3>4, RemovedLast
    <3>6. At(l, k + 1) = NoId /\ At(l, k - 1) = prev
      BY <1>6, <3>1 DEF next, prev
    <3>7. g = [head |-> IF k = 1 THEN At(l, 2) ELSE d.head,
               tail |-> IF k = Len(l) THEN At(l, k - 1) ELSE d.tail,
               size |-> d.size - 1, nodes |-> g.nodes]
      BY <3>1, <3>2, <3>3, <3>6
    <3> QED BY <3>1, <3>4, <3>5, <3>6, <3>7 DEF Unspliced, A, f, v, before
  <2>4. CASE d.size > 1 /\ v # d.head /\ v # d.tail
    <3>1. k > 1 /\ k < Len(l) /\ k # 1 /\ k # Len(l)
      BY <1>1, <1>8, <2>4
    <3>2. g = [head |-> d.head, tail |-> d.tail, size |-> d.size - 1,
               nodes |-> NodesWithout(f, v, prev, next)]
      <4>1. g = DeletedFrom(UnlinkedInner(d, prev, next), v)
        BY <1>10, <2>4
      <4> HIDE DEF g, v
      <4>2. g = Fields(d.head, d.tail, d.size - 1, NodesWithout(f, v, prev, next))
        BY ONLY <1>f, <4>1 DEF BranchesLeave
      <4> QED BY <4>2 DEF Fields
    <3> HIDE DEF g
    <3>3. g.nodes = NodesWithout(f, v, prev, next)
      BY <3>2
    <3>4. /\ HasNode(A, f, prev, Present, v, before) /\ v # prev /\ prev = l[k - 1]
          /\ HasNode(A, f, next, Present, after, v) /\ v # next /\ next = l[k + 1] /\ prev # next
      BY <1>4, <1>5, <1>7, <3>1
    <3> HIDE DEF v
    <3>a. HasNode(A, f, v, Present, next, prev)
      BY <1>2, <1>3 DEF HasNode
    <3>5. /\ g.nodes = [a \in A |-> g.nodes[a]]
          /\ g.nodes[v] = Node(Absent, NoId, NoId)
          /\ g.nodes[prev] = Node(Present, next, before)
          /\ g.nodes[next] = Node(Present, after, prev)
          /\ \A a \in A : a # v /\ a # prev /\ a # next => g.nodes[a] = f[a]
      BY ONLY <3>a, <3>3, <3>4, RemovedNodes
    <3>6. g = [head |-> IF k = 1 THEN At(l, 2) ELSE d.head,
               tail |-> IF k = Len(l) THEN At(l, k - 1) ELSE d.tail,
               size |-> d.size - 1, nodes |-> g.nodes]
      BY <3>1, <3>2, <3>3
    <3> QED BY <3>1, <3>4, <3>5, <3>6 DEF Unspliced, A, f, v, next, prev, before, after
  <2> QED BY <1>1, <2>1, <2>2, <2>3, <2>4
<1> HIDE DEF g
<1>12. Links(g, Without(l, {l[k]}))
  BY <1>11, UnsplicedLinks
<1> QED BY <1>12 DEF g, v

----------------------------------------------------------------------------
\* The list in the specification.

\* The vaults in their order, which the pointers of data hold.
Order == List!ListOf(data)

ListState(d, r, l) ==
  /\ Links(d, l) /\ Len(l) <= MaxSize
  /\ r = [a \in List!Addresses |-> r[a]]
  /\ \A i \in 1..Len(l) : r[l[i]] \in Ratios

ListInv == ListState(data, ratio, Order)

\* The abstract list speaks of the same operators on sequences.
LEMMA AbstractOperators ==
  /\ \A f : List!VL!Range(f) = Range(f)
  /\ \A l, S : List!VL!Without(l, S) = Without(l, S)
  /\ \A l, r, i, x : List!VL!ValidPosition(l, r, i, x) <=> ValidPosition(l, r, i, x)
  /\ \A l, i, v : List!VL!InsertAt(l, i, v) = InsertAt(l, i, v)
<1>1. \A f : List!VL!Range(f) = Range(f)
  BY DEF List!VL!Range, Range
<1>2. \A l, S : List!VL!Without(l, S) = Without(l, S)
  BY DEF List!VL!Without, Without
<1>3. \A l, r, i, x : List!VL!ValidPosition(l, r, i, x) <=> ValidPosition(l, r, i, x)
  BY DEF List!VL!ValidPosition, ValidPosition
<1>4. \A l, i, v : List!VL!InsertAt(l, i, v) = InsertAt(l, i, v)
  BY DEF List!VL!InsertAt, InsertAt
<1> QED BY <1>1, <1>2, <1>3, <1>4

\* An insertion at a position for x is one that the abstract list allows, which knows
\* the ratios of vaults only.
LEMMA AllowedInsertion ==
  ASSUME NEW l \in Seq(Ids), NEW r, NEW x, NEW v, NEW i \in 1..(Len(l) + 1),
         ValidPosition(l, r, i, x)
  PROVE  InsertAt(l, i, v) \in List!VL!Insertions(l, [a \in Ids |-> r[a]], v, x)
<1> DEFINE q == [a \in Ids |-> r[a]]
<1>1. Len(l) \in Nat /\ \A j \in 1..Len(l) : q[l[j]] = r[l[j]]
  OBVIOUS
<1>2. (i > 1 => i - 1 \in 1..Len(l)) /\ (i <= Len(l) => i \in 1..Len(l))
  BY <1>1
<1> HIDE DEF q
<1>3. ValidPosition(l, q, i, x)
  BY <1>1, <1>2 DEF ValidPosition
<1>4. List!VL!ValidPosition(l, q, i, x) /\ List!VL!InsertAt(l, i, v) = InsertAt(l, i, v)
  BY <1>3, AbstractOperators
<1>5. InsertAt(l, i, v) \in List!VL!Insertions(l, q, v, x)
  BY <1>4 DEF List!VL!Insertions
<1> QED BY <1>5 DEF q

\* _insert puts a vault that is not in the list at a position for its ratio.
LEMMA InsertedLinks ==
  ASSUME NEW d, NEW l, Links(d, l), NEW r, NEW x \in Ratios, \A i \in 1..Len(l) : r[l[i]] \in Ratios,
         NEW v \in Ids \ Range(l), NEW prev \in List!Addresses, NEW next \in List!Addresses
  PROVE  \E i \in 1..(Len(l) + 1) :
           /\ ValidPosition(l, r, i, x)
           /\ Links(List!Inserted(d, r, v, x, prev, next), InsertAt(l, i, v))
<1> DEFINE at == List!InsertPosition(d, r, x, prev, next)
<1>1. Rated(l, r, x)
  <2>1. \A y \in Ratios : y \in Int
    BY RegistryAssumption
  <2> QED BY <2>1 DEF Rated
<1>2. PICK i : IsPosition(l, r, x, at, i)
  BY <1>1, PositionFound
<1> HIDE DEF at
<1>3. i \in 1..(Len(l) + 1) /\ at[1] = At(l, i - 1) /\ at[2] = At(l, i) /\ ValidPosition(l, r, i, x)
  BY <1>2 DEF IsPosition
<1>4. List!Inserted(d, r, v, x, prev, next) = List!InsertedBetween(d, v, At(l, i - 1), At(l, i))
  BY <1>3 DEF List!Inserted, at
<1>5. Links(List!InsertedBetween(d, v, At(l, i - 1), At(l, i)), InsertAt(l, i, v))
  BY <1>3, LinksInserted
<1> QED BY <1>3, <1>4, <1>5

\* insert: the list stays in order, with the vault in it, as the abstract list says.
LEMMA InsertStep ==
  ASSUME ListInv, NEW v \in Ids, NEW x \in Ratios,
         NEW prev \in List!Addresses, NEW next \in List!Addresses, List!Insert(v, x, prev, next)
  PROVE  /\ ListInv' /\ v \notin Range(Order) /\ Range(Order') = Range(Order) \cup {v}
         /\ List!VL!Insert(v, x)
<1> DEFINE l == Order
<1>1. /\ Links(data, l) /\ Len(l) <= MaxSize /\ l \in Seq(Ids) /\ Len(l) \in Nat
      /\ ratio = [a \in List!Addresses |-> ratio[a]]
      /\ \A i \in 1..Len(l) : ratio[l[i]] \in Ratios
  BY DEF ListInv, ListState, Links
<1>2. data.size = Len(l) /\ v \in List!Addresses
  BY <1>1, Neighbours DEF List!Addresses
<1>3. /\ data.size # MaxSize /\ ~List!ContainsId(data, v)
      /\ ratio' = [ratio EXCEPT ![v] = x]
      /\ data' = List!Inserted(data, ratio', v, x, prev, next)
  BY DEF List!Insert
<1> HIDE DEF l
<1>4. v \notin Range(l) /\ Len(l) < MaxSize /\ \A i \in 1..Len(l) : l[i] # v
  BY <1>1, <1>2, <1>3, ContainsIsListed, RegistryAssumption DEF Range
<1>5. /\ ratio' = [a \in List!Addresses |-> ratio'[a]]
      /\ ratio' = [a \in List!Addresses |-> IF a = v THEN x ELSE ratio[a]]
  BY <1>1, <1>3
<1>6. \A i \in 1..Len(l) : l[i] \in List!Addresses
  BY <1>1, LinkedNode
<1>7. \A i \in 1..Len(l) : ratio'[l[i]] \in Ratios
  BY <1>1, <1>4, <1>5, <1>6
<1>8. PICK i \in 1..(Len(l) + 1) :
        ValidPosition(l, ratio', i, x) /\ Links(data', InsertAt(l, i, v))
  BY <1>1, <1>3, <1>4, <1>7, InsertedLinks
<1> DEFINE m == InsertAt(l, i, v)
<1>9. Order' = m
  BY <1>8, ListOfLinks DEF Order
<1>10. /\ Len(m) = Len(l) + 1
       /\ \A j \in 1..(Len(l) + 1) : m[j] = IF j < i THEN l[j] ELSE IF j = i THEN v ELSE l[j - 1]
  BY <1>1, InsertedAt
<1>11. Range(m) = Range(l) \cup {v}
  BY <1>1, InsertProperties
<1>12. Links(data', m)
  BY <1>8
<1> HIDE DEF m
<1>13. ListInv'
  <2>1. \A j \in 1..Len(m) : ratio'[m[j]] \in Ratios
    <3> SUFFICES ASSUME NEW j \in 1..Len(m) PROVE ratio'[m[j]] \in Ratios
      OBVIOUS
    <3>1. m[j] = v \/ \E k \in 1..Len(l) : m[j] = l[k]
      <4>1. j \in 1..(Len(l) + 1)
        BY ONLY <1>10, j \in 1..Len(m)
      <4>2. j # i => (j < i /\ j \in 1..Len(l)) \/ (j > i /\ j - 1 \in 1..Len(l))
        BY ONLY <1>1, <4>1, i \in 1..(Len(l) + 1)
      <4>3. m[j] = IF j < i THEN l[j] ELSE IF j = i THEN v ELSE l[j - 1]
        BY ONLY <1>10, <4>1
      <4> QED BY ONLY <4>1, <4>2, <4>3, i \in 1..(Len(l) + 1), <1>1
    <3>2. ratio'[v] = x
      BY <1>2, <1>5
    <3> QED BY <1>7, <3>1, <3>2
  <2>2. Len(m) <= MaxSize
    <3>1. Len(l) \in Nat /\ Len(l) < MaxSize /\ MaxSize \in Nat
      BY <1>1, <1>4, RegistryAssumption
    <3> QED BY ONLY <1>10, <3>1
  <2>3. ListState(data', ratio', m)
    BY <1>5, <1>12, <2>1, <2>2 DEF ListState
  <2> QED BY <1>9, <2>3 DEF ListInv
<1>14. List!VL!Insert(v, x)
  <2>1. Len(l) < MaxSize /\ v \notin List!VL!Range(l)
    BY <1>4, AbstractOperators
  <2>2. [a \in Ids |-> ratio'[a]] = [[a \in Ids |-> ratio[a]] EXCEPT ![v] = x]
    BY <1>5 DEF List!Addresses
  <2>3. m \in List!VL!Insertions(l, [a \in Ids |-> ratio'[a]], v, x)
    BY <1>1, <1>8, AllowedInsertion DEF m
  <2> QED BY <1>9, <2>1, <2>2, <2>3 DEF List!VL!Insert, l, Order
<1> QED BY <1>4, <1>9, <1>11, <1>13, <1>14 DEF l

\* remove: the rest stays in its order.
LEMMA RemoveStep ==
  ASSUME ListInv, NEW v \in Ids, List!RemoveId(v)
  PROVE  /\ ListInv' /\ v \in Range(Order) /\ Range(Order') = Range(Order) \ {v}
         /\ List!VL!RemoveId(v)
<1> DEFINE l == Order
           m == Without(l, {v})
<1>1. /\ Links(data, l) /\ Len(l) <= MaxSize /\ l \in Seq(Ids) /\ Len(l) \in Nat /\ Distinct(l)
      /\ ratio = [a \in List!Addresses |-> ratio[a]]
      /\ \A i \in 1..Len(l) : ratio[l[i]] \in Ratios
  BY DEF ListInv, ListState, Links
<1>2. v \in List!Addresses
  BY DEF List!Addresses
<1>3. /\ List!ContainsId(data, v) /\ data' = List!Removed(data, v)
      /\ ratio' = [ratio EXCEPT ![v] = Infinite]
  BY DEF List!RemoveId
<1> HIDE DEF l
<1>4. v \in Range(l)
  BY <1>1, <1>2, <1>3, ContainsIsListed
<1>5. PICK k \in 1..Len(l) : v = l[k]
  BY <1>1, <1>4 DEF Range
<1>6. Links(data', m)
  BY <1>1, <1>3, <1>5, LinksRemoved
<1>7. /\ Len(m) = Len(l) - 1
      /\ \A j \in 1..(Len(l) - 1) : m[j] = IF j < k THEN l[j] ELSE l[j + 1]
  BY <1>1, <1>5, WithoutOne
<1>8. Range(m) = Range(l) \ {v}
  BY <1>1, WithoutProperties
<1> HIDE DEF m
<1>9. Order' = m
  BY <1>6, ListOfLinks DEF Order
<1>10. /\ ratio' = [a \in List!Addresses |-> ratio'[a]]
       /\ ratio' = [a \in List!Addresses |-> IF a = v THEN Infinite ELSE ratio[a]]
  BY <1>1, <1>3
<1>11. ListInv'
  <2>1. \A j \in 1..Len(m) : ratio'[m[j]] \in Ratios
    <3> SUFFICES ASSUME NEW j \in 1..Len(m) PROVE ratio'[m[j]] \in Ratios
      OBVIOUS
    <3>1. PICK i \in 1..Len(l) : m[j] = l[i] /\ i # k
      <4>1. CASE j < k
        BY <1>1, <1>7, <4>1
      <4>2. CASE j >= k
        <5>1. j + 1 \in 1..Len(l) /\ m[j] = l[j + 1] /\ j + 1 # k
          BY <1>1, <1>7, <4>2
        <5> QED BY <5>1
      <4> QED BY <1>1, <1>7, <4>1, <4>2
    <3>2. l[i] # v /\ l[i] \in List!Addresses
      BY <1>1, <1>5, <3>1, LinkedNode DEF Distinct
    <3> QED BY <1>1, <1>10, <3>1, <3>2
  <2>2. Len(m) <= MaxSize
    BY <1>1, <1>7, RegistryAssumption
  <2>3. ListState(data', ratio', m)
    BY <1>6, <1>10, <2>1, <2>2 DEF ListState
  <2> QED BY <1>9, <2>3 DEF ListInv
<1>12. List!VL!RemoveId(v)
  <2>1. v \in List!VL!Range(l) /\ m = List!VL!Without(l, {v})
    BY <1>4, AbstractOperators DEF m
  <2>2. [a \in Ids |-> ratio'[a]] = [[a \in Ids |-> ratio[a]] EXCEPT ![v] = Infinite]
    BY <1>10 DEF List!Addresses
  <2> QED BY <1>9, <2>1, <2>2 DEF List!VL!RemoveId, l, Order
<1> QED BY <1>4, <1>8, <1>9, <1>11, <1>12 DEF l

\* reInsert: the vault leaves its place and takes one for its new ratio.
LEMMA ReInsertStep ==
  ASSUME ListInv, NEW v \in Ids, NEW x \in Ratios,
         NEW prev \in List!Addresses, NEW next \in List!Addresses, List!ReInsert(v, x, prev, next)
  PROVE  ListInv' /\ Range(Order') = Range(Order) /\ List!VL!ReInsert(v, x)
<1> DEFINE l == Order
           w == Without(l, {v})
           rest == List!Removed(data, v)
<1>1. /\ Links(data, l) /\ Len(l) <= MaxSize /\ l \in Seq(Ids) /\ Len(l) \in Nat /\ Distinct(l)
      /\ ratio = [a \in List!Addresses |-> ratio[a]]
      /\ \A i \in 1..Len(l) : ratio[l[i]] \in Ratios
  BY DEF ListInv, ListState, Links
<1>2. v \in List!Addresses
  BY DEF List!Addresses
<1>3. /\ List!ContainsId(data, v) /\ ratio' = [ratio EXCEPT ![v] = x]
      /\ data' = List!Inserted(rest, ratio', v, x, prev, next)
  BY DEF List!ReInsert
<1> HIDE DEF l, rest
<1>4. v \in Range(l)
  BY <1>1, <1>2, <1>3, ContainsIsListed
<1>5. PICK k \in 1..Len(l) : v = l[k]
  BY <1>1, <1>4 DEF Range
<1>6. Links(rest, w)
  BY <1>1, <1>5, LinksRemoved DEF rest
<1>7. /\ w \in Seq(Ids) /\ Len(w) = Len(l) - 1
      /\ \A j \in 1..(Len(l) - 1) : w[j] = IF j < k THEN l[j] ELSE l[j + 1]
  BY <1>1, <1>5, WithoutOne
<1>8. Range(w) = Range(l) \ {v}
  BY <1>1, WithoutProperties
<1> HIDE DEF w
<1>9. /\ ratio' = [a \in List!Addresses |-> ratio'[a]]
      /\ ratio' = [a \in List!Addresses |-> IF a = v THEN x ELSE ratio[a]]
  BY <1>1, <1>3
<1>10. \A j \in 1..Len(w) : ratio'[w[j]] \in Ratios
  <2> SUFFICES ASSUME NEW j \in 1..Len(w) PROVE ratio'[w[j]] \in Ratios
    OBVIOUS
  <2>1. PICK i \in 1..Len(l) : w[j] = l[i]
    <3>1. CASE j < k
      BY <1>1, <1>7, <3>1
    <3>2. CASE j >= k
      <4>1. j + 1 \in 1..Len(l) /\ w[j] = l[j + 1]
        BY <1>1, <1>7, <3>2
      <4> QED BY <4>1
    <3> QED BY <1>1, <1>7, <3>1, <3>2
  <2>2. l[i] \in List!Addresses
    BY <1>1, LinkedNode
  <2> QED BY <1>1, <1>9, <2>1, <2>2
<1>11. PICK i \in 1..(Len(w) + 1) :
         ValidPosition(w, ratio', i, x) /\ Links(data', InsertAt(w, i, v))
  <2>1. v \in Ids \ Range(w)
    BY <1>8
  <2> QED BY <1>3, <1>6, <1>10, <2>1, InsertedLinks
<1> DEFINE m == InsertAt(w, i, v)
<1>12. Order' = m
  BY <1>11, ListOfLinks DEF Order
<1>13. /\ Len(m) = Len(w) + 1
       /\ \A j \in 1..(Len(w) + 1) : m[j] = IF j < i THEN w[j] ELSE IF j = i THEN v ELSE w[j - 1]
  BY <1>7, InsertedAt
<1>14. Range(m) = Range(w) \cup {v}
  BY <1>7, InsertProperties
<1>15. Links(data', m)
  BY <1>11
<1> HIDE DEF m
<1>16. ListInv'
  <2>1. \A j \in 1..Len(m) : ratio'[m[j]] \in Ratios
    <3> SUFFICES ASSUME NEW j \in 1..Len(m) PROVE ratio'[m[j]] \in Ratios
      OBVIOUS
    <3>1. Len(w) \in Nat
      BY <1>7
    <3>2. m[j] = v \/ \E k1 \in 1..Len(w) : m[j] = w[k1]
      BY <1>13, <3>1
    <3>3. ratio'[v] = x
      BY <1>2, <1>9
    <3> QED BY <1>10, <3>2, <3>3
  <2>2. Len(m) <= MaxSize
    BY <1>1, <1>7, <1>13
  <2>3. ListState(data', ratio', m)
    BY <1>9, <1>15, <2>1, <2>2 DEF ListState
  <2> QED BY <1>12, <2>3 DEF ListInv
<1>17. List!VL!ReInsert(v, x)
  <2>1. v \in List!VL!Range(l) /\ w = List!VL!Without(l, {v})
    BY <1>4, AbstractOperators DEF w
  <2>2. [a \in Ids |-> ratio'[a]] = [[a \in Ids |-> ratio[a]] EXCEPT ![v] = x]
    BY <1>9 DEF List!Addresses
  <2>3. m \in List!VL!Insertions(w, [a \in Ids |-> ratio'[a]], v, x)
    BY <1>7, <1>11, AllowedInsertion DEF m
  <2> QED BY <1>12, <2>1, <2>2, <2>3 DEF List!VL!ReInsert, l, Order
<1>18. Range(m) = Range(l)
  BY <1>4, <1>8, <1>14
<1> QED BY <1>12, <1>16, <1>17, <1>18 DEF l

\* Accrued rewards change ratios and no pointer.
LEMMA AccrueStep ==
  ASSUME ListInv, List!Accrue
  PROVE  ListInv' /\ Order' = Order /\ List!VL!Accrue
<1> DEFINE l == Order
           listed == { v \in Ids : List!ContainsId(data, v) }
<1>1. /\ Links(data, l) /\ Len(l) <= MaxSize /\ l \in Seq(Ids) /\ Len(l) \in Nat
      /\ ratio = [a \in List!Addresses |-> ratio[a]]
  BY DEF ListInv, ListState, Links
<1>2. PICK r \in [listed -> Ratios] :
        ratio' = [a \in List!Addresses |-> IF a \in DOMAIN r THEN r[a] ELSE ratio[a]]
  BY DEF List!Accrue
<1>3. data' = data
  BY DEF List!Accrue
<1>4. Order' = l
  BY <1>3 DEF Order
<1> HIDE DEF l
<1>5. listed = Range(l)
  <2>1. \A v \in Ids : List!ContainsId(data, v) <=> v \in Range(l)
    <3>1. \A v \in Ids : v \in List!Addresses
      BY DEF List!Addresses
    <3> QED BY <1>1, <3>1, ContainsIsListed
  <2>2. Range(l) \subseteq Ids
    BY <1>1 DEF Range
  <2> QED BY <2>1, <2>2
<1> HIDE DEF listed
<1>6. ListInv'
  <2>1. \A i \in 1..Len(l) : l[i] \in listed /\ l[i] \in List!Addresses
    BY <1>1, <1>5, LinkedNode DEF Range
  <2>2. \A i \in 1..Len(l) : ratio'[l[i]] \in Ratios
    BY <1>2, <2>1
  <2>3. ratio' = [a \in List!Addresses |-> ratio'[a]]
    BY <1>2
  <2>4. ListState(data', ratio', l)
    BY <1>1, <1>3, <2>2, <2>3 DEF ListState
  <2> QED BY <1>4, <2>4 DEF ListInv
<1>7. List!VL!Accrue
  <2>1. List!VL!Range(l) = Range(l)
    BY AbstractOperators
  <2>2. r \in [Range(l) -> Ratios] /\ DOMAIN r = Range(l)
    BY <1>2, <1>5
  <2>3. [a \in Ids |-> ratio'[a]]
          = [a \in Ids |-> IF a \in Range(l) THEN r[a] ELSE [b \in Ids |-> ratio[b]][a]]
    BY <1>2, <2>2 DEF List!Addresses
  <2> QED BY <1>4, <2>1, <2>2, <2>3 DEF List!VL!Accrue, l, Order
<1> QED BY <1>4, <1>6, <1>7 DEF l

\* The empty list.
LEMMA ListStarts ==
  ASSUME List!Init
  PROVE  ListInv /\ Order = <<>> /\ List!VL!Init
<1>1. /\ data = [head |-> NoId, tail |-> NoId, size |-> 0,
                 nodes |-> [a \in List!Addresses |-> List!NoNode]]
      /\ ratio = [a \in List!Addresses |-> Infinite]
  BY DEF List!Init
<1>2. Links(data, <<>>)
  <2>1. <<>> \in Seq(Ids) /\ Len(<<>>) = 0 /\ Distinct(<<>>)
    BY DEF Distinct
  <2>2. At(<<>>, 1) = NoId /\ At(<<>>, Len(<<>>)) = NoId
    BY <2>1 DEF At
  <2>3. data.nodes = [a \in List!Addresses |-> List!NoNode]
    BY <1>1
  <2>4. data = [head |-> At(<<>>, 1), tail |-> At(<<>>, Len(<<>>)), size |-> Len(<<>>),
                nodes |-> data.nodes]
    BY <1>1, <2>1, <2>2, <2>3
  <2> QED BY <2>1, <2>3, <2>4 DEF Links
<1>3. Order = <<>>
  BY <1>2, ListOfLinks DEF Order
<1>4. ListInv
  <2>1. Len(<<>>) = 0 /\ ratio = [a \in List!Addresses |-> ratio[a]]
    BY <1>1
  <2>2. ListState(data, ratio, <<>>)
    BY <1>2, <2>1, RegistryAssumption DEF ListState
  <2> QED BY <1>3, <2>2 DEF ListInv
<1>5. List!VL!Init
  <2>1. [a \in Ids |-> ratio[a]] = [a \in Ids |-> Infinite]
    BY <1>1 DEF List!Addresses
  <2> QED BY <1>3, <2>1 DEF List!VL!Init, Order
<1> QED BY <1>3, <1>4, <1>5

\* A sequence without duplicates has as many members as positions.
LEMMA DistinctCount ==
  ASSUME NEW V, NEW l \in Seq(V), Distinct(l)
  PROVE  Cardinality(Range(l)) = Len(l)
<1>1. l \in Bijection(1..Len(l), Range(l))
  BY DEF Distinct, Injection, IsInjective, Surjection, Bijection, Range
<1>2. IsFiniteSet(1..Len(l)) /\ Cardinality(1..Len(l)) = Len(l)
  <2>1. 1 \in Int /\ Len(l) \in Int /\ Len(l) \in Nat
    OBVIOUS
  <2>2. IsFiniteSet(1..Len(l)) /\ Cardinality(1..Len(l)) = IF 1 > Len(l) THEN 0 ELSE Len(l) - 1 + 1
    BY <2>1, FS_Interval
  <2> QED BY <2>1, <2>2
<1>3. ExistsBijection(1..Len(l), Range(l))
  BY <1>1 DEF ExistsBijection
<1> QED BY <1>2, <1>3, FS_Bijection

\* What the pointers of an ordered list look like, as WellFormed states it.
LEMMA PointersWellFormed == ListInv => WellFormed
<1> SUFFICES ASSUME ListInv PROVE List!WellFormed
  BY DEF WellFormed
<1> DEFINE l == Order
<1>1. /\ Links(data, l) /\ Len(l) <= MaxSize /\ l \in Seq(Ids) /\ Len(l) \in Nat /\ Distinct(l)
      /\ data.size = Len(l) /\ data.tail = At(l, Len(l))
  BY Neighbours DEF ListInv, ListState, Links
<1> HIDE DEF l
<1>2. List!Range(l) = { v \in Ids : List!ContainsId(data, v) }
  <2>1. \A v \in Ids : List!ContainsId(data, v) <=> v \in Range(l)
    <3>1. \A v \in Ids : v \in List!Addresses
      BY DEF List!Addresses
    <3> QED BY <1>1, <3>1, ContainsIsListed
  <2>2. Range(l) \subseteq Ids /\ List!Range(l) = Range(l)
    BY <1>1, SameOperators DEF Range
  <2> QED BY <2>1, <2>2
<1>3. List!Cardinality(List!Range(l)) = data.size
  BY <1>1, DistinctCount, SameOperators
<1>4. data.size > 0 => data.tail = l[data.size]
  BY <1>1 DEF At
<1>5. ASSUME NEW i \in 1..data.size
      PROVE  /\ data.nodes[l[i]].prevId = (IF i = 1 THEN NoId ELSE l[i - 1])
             /\ data.nodes[l[i]].nextId = (IF i = data.size THEN NoId ELSE l[i + 1])
  <2>1. i \in 1..Len(l)
    BY <1>1
  <2>2. data.nodes[l[i]] = NodeAt(l, i)
    BY <1>1, <2>1 DEF Links
  <2>3. data.nodes[l[i]].prevId = At(l, i - 1) /\ data.nodes[l[i]].nextId = At(l, i + 1)
    BY <2>2 DEF NodeAt
  <2>4. At(l, i - 1) = (IF i = 1 THEN NoId ELSE l[i - 1])
    BY <1>1, <2>1 DEF At
  <2>5. At(l, i + 1) = (IF i = data.size THEN NoId ELSE l[i + 1])
    BY <1>1, <2>1 DEF At
  <2> QED BY <2>3, <2>4, <2>5
<1>6. \A a \in List!Addresses : ~List!ContainsId(data, a) => data.nodes[a] = List!NoNode
  BY <1>1, ContainsIsListed DEF Links
<1> QED BY <1>1, <1>2, <1>3, <1>4, <1>5, <1>6 DEF List!WellFormed, l, Order

----------------------------------------------------------------------------
\* The array.

ArrayInv ==
  /\ VaultOwners \in Seq(Ids) /\ arrayIndex \in [Ids -> Nat]
  /\ \A i \in 1..Len(VaultOwners) : arrayIndex[VaultOwners[i]] = i - 1

\* _addVaultOwnerToArray appends the owner and records its position.
LEMMA AddStep ==
  ASSUME ArrayInv, NEW u \in Ids, u \notin Range(VaultOwners), Array!AddVaultOwnerToArray(u)
  PROVE  ArrayInv' /\ Range(VaultOwners') = Range(VaultOwners) \cup {u}
<1> DEFINE n == Len(VaultOwners)
<1>1. /\ n \in Nat /\ VaultOwners' \in Seq(Ids) /\ Len(VaultOwners') = n + 1
      /\ \A i \in 1..n : VaultOwners'[i] = VaultOwners[i] /\ VaultOwners[i] \in Ids
      /\ VaultOwners'[n + 1] = u
  BY DEF ArrayInv, Array!AddVaultOwnerToArray
<1>2. \A i \in 1..n : VaultOwners[i] # u
  BY DEF ArrayInv, Range
<1>3. arrayIndex' = [arrayIndex EXCEPT ![u] = n] /\ arrayIndex' \in [Ids -> Nat]
  BY <1>1 DEF ArrayInv, Array!AddVaultOwnerToArray
<1> HIDE DEF n
<1>4. ASSUME NEW i \in 1..(n + 1)
      PROVE  arrayIndex'[VaultOwners'[i]] = i - 1
  <2>1. CASE i <= n
    <3>1. i \in 1..n /\ VaultOwners'[i] = VaultOwners[i] /\ VaultOwners[i] # u
      BY <1>1, <1>2, <2>1
    <3>2. arrayIndex[VaultOwners[i]] = i - 1
      BY <3>1 DEF ArrayInv, n
    <3> QED BY <1>1, <1>3, <3>1, <3>2 DEF ArrayInv
  <2>2. CASE i = n + 1
    BY <1>1, <1>3, <2>2 DEF ArrayInv
  <2> QED BY <1>1, <2>1, <2>2
<1>5. ArrayInv'
  BY <1>1, <1>3, <1>4 DEF ArrayInv
<1>6. \A a : a \in Range(VaultOwners') <=> a \in Range(VaultOwners) \/ a = u
  <2>1. \A a : a \in Range(VaultOwners') <=> \E i \in 1..(n + 1) : a = VaultOwners'[i]
    BY <1>1 DEF Range
  <2>2. \A a : a \in Range(VaultOwners) <=> \E i \in 1..n : a = VaultOwners[i]
    BY DEF Range, ArrayInv, n
  <2>3. \A i \in 1..n : i \in 1..(n + 1)
    BY <1>1
  <2>4. n + 1 \in 1..(n + 1) /\ \A i \in 1..(n + 1) : i \in 1..n \/ i = n + 1
    BY <1>1
  <2> QED BY <1>1, <2>1, <2>2, <2>3, <2>4
<1> QED BY <1>5, <1>6

\* The last owner takes the place of the one removed, and its index.
LEMMA TakeOutStep ==
  ASSUME ArrayInv, NEW u \in Ids, u \in Range(VaultOwners), Array!RemoveVaultOwner(u)
  PROVE  ArrayInv' /\ Range(VaultOwners') = Range(VaultOwners) \ {u}
<1> DEFINE last == Len(VaultOwners)
           index == arrayIndex[u]
           moved == VaultOwners[last]
<1>1. /\ last \in Nat /\ \A i \in 1..last : VaultOwners[i] \in Ids /\ arrayIndex[VaultOwners[i]] = i - 1
      /\ \A a : a \in Range(VaultOwners) <=> \E i \in 1..last : a = VaultOwners[i]
  BY DEF ArrayInv, Range
<1>2. PICK p \in 1..last : u = VaultOwners[p]
  BY <1>1
<1>3. last \in Nat \ {0} /\ index = p - 1 /\ moved \in Ids
  BY <1>1, <1>2
<1>4. arrayIndex' = [arrayIndex EXCEPT ![moved] = index]
  BY DEF Array!RemoveVaultOwner
<1>5. /\ VaultOwners' \in Seq(Ids) /\ Len(VaultOwners') = last - 1
      /\ \A i \in 1..(last - 1) : VaultOwners'[i] = IF i = p THEN moved ELSE VaultOwners[i]
  <2> DEFINE swapped == [VaultOwners EXCEPT ![index + 1] = moved]
  <2>1. index + 1 = p
    BY <1>3
  <2>2. /\ swapped \in Seq(Ids) /\ Len(swapped) = last
        /\ \A i \in 1..last : swapped[i] = IF i = p THEN moved ELSE VaultOwners[i]
    BY <1>1, <1>2, <1>3, <2>1 DEF ArrayInv
  <2>3. VaultOwners' = SubSeq(swapped, 1, last - 1)
    BY DEF Array!RemoveVaultOwner
  <2> HIDE DEF swapped, last, moved
  <2> QED BY <1>3, <2>2, <2>3
<1> HIDE DEF last, index, moved
<1>6. moved = VaultOwners[last] /\ last \in 1..last /\ arrayIndex \in [Ids -> Nat]
  BY <1>3 DEF moved, ArrayInv
<1>7. \A i, j \in 1..last : VaultOwners[i] = VaultOwners[j] => i = j
  <2> SUFFICES ASSUME NEW i \in 1..last, NEW j \in 1..last, VaultOwners[i] = VaultOwners[j]
               PROVE  i = j
    OBVIOUS
  <2>1. i - 1 = j - 1
    BY <1>1
  <2> QED BY <1>1, <2>1
<1>8. ASSUME NEW i \in 1..(last - 1)
      PROVE  arrayIndex'[VaultOwners'[i]] = i - 1
  <2>1. i \in 1..last /\ i # last
    BY <1>3
  <2>2. CASE i = p
    BY <1>3, <1>4, <1>5, <1>6, <2>2
  <2>3. CASE i # p
    <3>1. VaultOwners'[i] = VaultOwners[i] /\ VaultOwners[i] # moved /\ VaultOwners[i] \in Ids
      BY <1>1, <1>5, <1>6, <1>7, <2>1, <2>3
    <3>2. arrayIndex'[VaultOwners[i]] = arrayIndex[VaultOwners[i]]
      BY <1>4, <1>6, <3>1
    <3> QED BY <1>1, <2>1, <3>1, <3>2
  <2> QED BY <2>2, <2>3
<1>9. arrayIndex' \in [Ids -> Nat]
  BY <1>2, <1>3, <1>4, <1>6
<1>10. ArrayInv'
  BY <1>5, <1>8, <1>9 DEF ArrayInv
<1>11. ASSUME NEW a
       PROVE  a \in Range(VaultOwners') <=> a \in Range(VaultOwners) /\ a # u
  <2>1. a \in Range(VaultOwners') <=> \E i \in 1..(last - 1) : a = VaultOwners'[i]
    BY <1>3, <1>5 DEF Range
  <2>2. ASSUME NEW i \in 1..(last - 1), a = VaultOwners'[i]
        PROVE  a \in Range(VaultOwners) /\ a # u
    <3>1. i \in 1..last /\ i # last
      BY <1>3
    <3>2. CASE i = p
      <4>1. a = VaultOwners[last] /\ last # p
        BY <1>5, <1>6, <2>2, <3>1, <3>2
      <4> QED BY <1>1, <1>2, <1>6, <1>7, <4>1
    <3>3. CASE i # p
      <4>1. a = VaultOwners[i]
        BY <1>5, <2>2, <3>3
      <4> QED BY <1>1, <1>2, <1>7, <3>1, <3>3, <4>1
    <3> QED BY <3>2, <3>3
  <2>3. ASSUME a \in Range(VaultOwners), a # u
        PROVE  \E i \in 1..(last - 1) : a = VaultOwners'[i]
    <3>1. PICK i \in 1..last : a = VaultOwners[i]
      BY <1>1, <2>3
    <3>2. i # p
      BY <1>2, <2>3, <3>1
    <3>3. CASE i = last
      <4>1. p \in 1..(last - 1) /\ VaultOwners'[p] = a
        BY <1>3, <1>5, <1>6, <3>1, <3>2, <3>3
      <4> QED BY <4>1
    <3>4. CASE i # last
      <4>1. i \in 1..(last - 1) /\ VaultOwners'[i] = a
        BY <1>3, <1>5, <3>1, <3>2, <3>4
      <4> QED BY <4>1
    <3> QED BY <3>3, <3>4
  <2> QED BY <2>1, <2>2, <2>3
<1> QED BY <1>10, <1>11

----------------------------------------------------------------------------
\* The specification.

\* Every vault is in both registers or in none, whichever is asked.
SameVaults == Range(VaultOwners) = Range(Order)

RegistryInv == ListInv /\ ArrayInv /\ SameVaults

\* Nothing is registered at first.
LEMMA RegistryStarts == Init => RegistryInv /\ List!VL!Init
<1> SUFFICES ASSUME Init PROVE RegistryInv /\ List!VL!Init
  OBVIOUS
<1>1. List!Init /\ VaultOwners = <<>> /\ arrayIndex = [u \in Ids |-> 0]
  BY DEF Init, Array!Init
<1>2. ListInv /\ Order = <<>> /\ List!VL!Init
  BY <1>1, ListStarts
<1>3. ArrayInv
  BY <1>1 DEF ArrayInv
<1> QED BY <1>1, <1>2, <1>3 DEF RegistryInv, SameVaults

\* Every operation keeps both registers, and does to the list what VaultList says.
LEMMA RegistryStep ==
  ASSUME RegistryInv, [Next]_vars
  PROVE  RegistryInv' /\ [List!VL!Next]_<<Order, [v \in Ids |-> ratio[v]]>>
<1> USE DEF RegistryInv
<1>1. CASE UNCHANGED vars
  <2>1. data' = data /\ ratio' = ratio /\ VaultOwners' = VaultOwners /\ arrayIndex' = arrayIndex
    BY <1>1 DEF vars
  <2> QED BY <2>1 DEF ListInv, ListState, Links, ArrayInv, SameVaults, Order
<1>2. ASSUME NEW v \in Ids, CloseVault(v)
      PROVE  RegistryInv' /\ List!VL!Next
  <2>1. List!RemoveId(v) /\ Array!RemoveVaultOwner(v)
    BY <1>2 DEF CloseVault
  <2>2. /\ ListInv' /\ v \in Range(Order) /\ Range(Order') = Range(Order) \ {v}
        /\ List!VL!RemoveId(v)
    BY <2>1, RemoveStep
  <2>3. ArrayInv' /\ Range(VaultOwners') = Range(VaultOwners) \ {v}
    BY <2>1, <2>2, TakeOutStep DEF SameVaults
  <2> QED BY <2>2, <2>3 DEF SameVaults, List!VL!Next
<1>3. ASSUME NEW v \in Ids, NEW x \in Ratios,
             NEW prev \in Ids \cup {NoId}, NEW next \in Ids \cup {NoId}, OpenVault(v, x, prev, next)
      PROVE  RegistryInv' /\ List!VL!Next
  <2>1. /\ List!Insert(v, x, prev, next) /\ Array!AddVaultOwnerToArray(v)
        /\ prev \in List!Addresses /\ next \in List!Addresses
    BY <1>3 DEF OpenVault, List!Addresses
  <2>2. /\ ListInv' /\ v \notin Range(Order) /\ Range(Order') = Range(Order) \cup {v}
        /\ List!VL!Insert(v, x)
    BY <2>1, InsertStep
  <2>3. ArrayInv' /\ Range(VaultOwners') = Range(VaultOwners) \cup {v}
    BY <2>1, <2>2, AddStep DEF SameVaults
  <2> QED BY <2>2, <2>3 DEF SameVaults, List!VL!Next
<1>4. ASSUME NEW v \in Ids, NEW x \in Ratios,
             NEW prev \in Ids \cup {NoId}, NEW next \in Ids \cup {NoId}, ReInsert(v, x, prev, next)
      PROVE  RegistryInv' /\ List!VL!Next
  <2>1. /\ List!ReInsert(v, x, prev, next) /\ UNCHANGED <<VaultOwners, arrayIndex>>
        /\ prev \in List!Addresses /\ next \in List!Addresses
    BY <1>4 DEF ReInsert, List!Addresses
  <2>2. ListInv' /\ Range(Order') = Range(Order) /\ List!VL!ReInsert(v, x)
    BY <2>1, ReInsertStep
  <2>3. ArrayInv' /\ VaultOwners' = VaultOwners
    BY <2>1 DEF ArrayInv
  <2> QED BY <2>2, <2>3 DEF SameVaults, List!VL!Next
<1>5. ASSUME Accrue
      PROVE  RegistryInv' /\ List!VL!Next
  <2>1. List!Accrue /\ UNCHANGED <<VaultOwners, arrayIndex>>
    BY <1>5 DEF Accrue
  <2>2. ListInv' /\ Order' = Order /\ List!VL!Accrue
    BY <2>1, AccrueStep
  <2>3. ArrayInv' /\ VaultOwners' = VaultOwners
    BY <2>1 DEF ArrayInv
  <2> QED BY <2>2, <2>3 DEF SameVaults, List!VL!Next
<1> QED BY <1>1, <1>2, <1>3, <1>4, <1>5 DEF Next

\* In every state the pointers of the list and the indexes of the array fit, and
\* the two registers hold the same vaults.
LEMMA RegistryHolds == Spec => []RegistryInv
<1>1. Init => RegistryInv
  BY RegistryStarts
<1>2. RegistryInv /\ [Next]_vars => RegistryInv'
  BY RegistryStep
<1> QED BY <1>1, <1>2, PTL DEF Spec

\* The linked list is well formed whatever hints the callers give and in whatever
\* order vaults open, move and close: a vault is reached from the head iff it is
\* listed, and going back retraces going forth (SortedVaults.sol, _insert, _remove).
THEOREM AlwaysWellFormed == Spec => []WellFormed
<1>1. RegistryInv => WellFormed
  BY PointersWellFormed DEF RegistryInv
<1> QED BY <1>1, RegistryHolds, PTL

\* The linked list implements the list of VaultList: every insertion, from any hints,
\* is one next to vaults whose ratios allow it, and a removal keeps the order of the
\* others.
THEOREM ListImplementsVaultList == Spec => ImplementsVaultList
<1>1. Init => List!VL!Init
  BY RegistryStarts
<1>2. RegistryInv /\ [Next]_vars => [List!VL!Next]_<<Order, [v \in Ids |-> ratio[v]]>>
  BY RegistryStep
<1>3. Order = List!ListOf(data)
  BY DEF Order
<1> QED BY <1>1, <1>2, RegistryHolds, PTL
     DEF Spec, ImplementsVaultList, List!ImplementsVaultList, List!VL!Spec, Order

\* After any series of openings and closings each owner in the array is where its
\* vault says, so _removeVaultOwner never takes out another vault's owner.
THEOREM IndexesAlwaysExact == Spec => []IndexesAreExact
<1>1. RegistryInv => IndexesAreExact
  BY DEF RegistryInv, ArrayInv, IndexesAreExact, Array!IndexesAreExact
<1> QED BY <1>1, RegistryHolds, PTL

\* The array and the list register the same vaults, as many of them, so the two
\* counts that guard the closing of the last vault agree (VaultManager.sol, _closeVault).
THEOREM RegistersAgree == Spec => [](SameVaults /\ Len(VaultOwners) = data.size)
<1>1. RegistryInv => SameVaults /\ Len(VaultOwners) = data.size
  <2> SUFFICES ASSUME RegistryInv PROVE Len(VaultOwners) = data.size
    BY DEF RegistryInv
  <2>1. /\ VaultOwners \in Seq(Ids)
        /\ \A i \in 1..Len(VaultOwners) : arrayIndex[VaultOwners[i]] = i - 1
    BY DEF RegistryInv, ArrayInv
  <2>2. Distinct(VaultOwners)
    <3> SUFFICES ASSUME NEW i \in 1..Len(VaultOwners), NEW j \in 1..Len(VaultOwners),
                        VaultOwners[i] = VaultOwners[j]
                 PROVE  i = j
      BY DEF Distinct
    <3>1. i - 1 = j - 1 /\ Len(VaultOwners) \in Nat
      BY <2>1
    <3> QED BY <3>1
  <2>3. Links(data, Order)
    BY DEF RegistryInv, ListInv, ListState
  <2>4. Order \in Seq(Ids) /\ Distinct(Order) /\ data.size = Len(Order)
    BY <2>3, Neighbours DEF Links
  <2>5. Range(VaultOwners) = Range(Order)
    BY DEF RegistryInv, SameVaults
  <2>6. Cardinality(Range(VaultOwners)) = Len(VaultOwners) /\ Cardinality(Range(Order)) = Len(Order)
    BY <2>1, <2>2, <2>4, DistinctCount
  <2> QED BY <2>4, <2>5, <2>6
<1> QED BY <1>1, RegistryHolds, PTL
=============================================================================
