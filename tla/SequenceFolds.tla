--------------------------- MODULE SequenceFolds ---------------------------
(***************************************************************************)
(* The loops of the contracts are left folds over a sequence.  What holds  *)
(* before a loop and is kept by each of its iterations holds after it, for *)
(* an iteration Op and an invariant Inv that may know how far the loop is. *)
(***************************************************************************)
EXTENDS Integers, Sequences, SequencesExt, DataLemmas

CONSTANTS
  Op(_, _),       \* Op(t, x): the state of the loop once it has done x
  Inv(_, _, _)    \* Inv(seq, i, t): t is right after the first i elements of seq

\* The loop over seq from the state base.
Loop(base, seq) == FoldLeft(Op, base, seq)

\* g computes the fold from base over seq, for the sets of positions in S.
IsFoldOf(g, base, seq, S) ==
  g = [A \in SUBSET S |-> IF A = {} THEN base ELSE Op(g[A \ {Max(A)}], seq[Max(A)])]

\* The function FoldLeft chooses.
FoldOf(base, seq, S) == CHOOSE g : IsFoldOf(g, base, seq, S)

\* A finite set of integers has a greatest element.
LEMMA MaxExists ==
  ASSUME NEW S \in SUBSET Int, IsFiniteSet(S), S # {}
  PROVE  Max(S) \in S /\ \A x \in S : x <= Max(S)
<1> DEFINE Good == { A \in SUBSET S : A # {} => \E x \in A : \A y \in A : x >= y }
<1>1. ASSUME NEW A \in SUBSET S, \A C \in SUBSET A : C # A => C \in Good
      PROVE  A \in Good
  <2> SUFFICES ASSUME A # {}
               PROVE  \E x \in A : \A y \in A : x >= y
    OBVIOUS
  <2>1. PICK z \in A : TRUE
    OBVIOUS
  <2>2. A \ {z} \in Good
    BY <1>1, <2>1
  <2>3. CASE A \ {z} = {}
    BY <2>1, <2>3
  <2>4. CASE A \ {z} # {}
    <3>1. PICK x \in A \ {z} : \A y \in A \ {z} : x >= y
      BY <2>2, <2>4
    <3>2. x \in Int /\ z \in Int
      OBVIOUS
    <3>3. CASE x >= z
      BY <3>1, <3>3
    <3>4. CASE z > x
      BY <2>1, <3>1, <3>2, <3>4
    <3> QED BY <3>2, <3>3, <3>4
  <2> QED BY <2>3, <2>4
<1>2. SUBSET S \subseteq Good
  <2> HIDE DEF Good
  <2> QED BY <1>1, SubsetInduction
<1>3. \E x \in S : \A y \in S : x >= y
  BY <1>2
<1> QED BY <1>3 DEF Max

\* The last of the first i positions.
LEMMA LastOf ==
  ASSUME NEW i \in Nat \ {0}
  PROVE  Max(1..i) = i /\ (1..i) \ {i} = 1..(i - 1)
<1> DEFINE A == 1..i
<1>1. A # {} /\ A \in SUBSET Int /\ i \in A
  OBVIOUS
<1>2. IsFiniteSet(A)
  BY FS_Interval
<1> HIDE DEF A
<1>3. Max(A) \in A /\ i <= Max(A)
  BY <1>1, <1>2, MaxExists
<1> QED BY <1>3 DEF A

\* Two such functions agree on the sets that they share.
LEMMA FoldsOfAgree ==
  ASSUME NEW base, NEW seq, NEW S \in SUBSET Int, IsFiniteSet(S), NEW T, NEW g, NEW h,
         IsFoldOf(g, base, seq, S), IsFoldOf(h, base, seq, T)
  PROVE  \A A \in SUBSET S : A \in SUBSET T => g[A] = h[A]
<1> DEFINE Good == { A \in SUBSET S : A \in SUBSET T => g[A] = h[A] }
<1>1. ASSUME NEW A \in SUBSET S, \A C \in SUBSET A : C # A => C \in Good
      PROVE  A \in Good
  <2>1. CASE A = {}
    BY <2>1 DEF IsFoldOf
  <2>2. CASE A # {} /\ A \in SUBSET T
    <3> DEFINE C == A \ {Max(A)}
    <3>1. Max(A) \in A
      BY <2>2, FS_Subset, MaxExists
    <3>2. C \in SUBSET A /\ C # A /\ C \in SUBSET S /\ C \in SUBSET T
      BY <3>1, <2>2
    <3>3. g[C] = h[C]
      BY <1>1, <3>2
    <3> HIDE DEF C
    <3>4. g[A] = Op(g[C], seq[Max(A)]) /\ h[A] = Op(h[C], seq[Max(A)])
      BY <2>2 DEF IsFoldOf, C
    <3> QED BY <3>3, <3>4
  <2> QED BY <2>1, <2>2
<1>2. SUBSET S \subseteq Good
  <2> HIDE DEF Good
  <2> QED BY <1>1, SubsetInduction
<1> QED BY <1>2

\* The recursion of FoldLeft defines a function.
LEMMA FoldOfExists ==
  ASSUME NEW base, NEW seq, NEW S \in SUBSET Int, IsFiniteSet(S)
  PROVE  \A A \in SUBSET S : IsFoldOf(FoldOf(base, seq, A), base, seq, A)
<1> DEFINE Good == { A \in SUBSET S : IsFoldOf(FoldOf(base, seq, A), base, seq, A) }
<1>1. ASSUME NEW A \in SUBSET S, \A C \in SUBSET A : C # A => C \in Good
      PROVE  A \in Good
  <2> DEFINE Rest(C) == C \ {Max(C)}
             h == [C \in SUBSET A |->
                     IF C = {} THEN base ELSE Op(FoldOf(base, seq, Rest(C))[Rest(C)], seq[Max(C)])]
  <2>1. ASSUME NEW C \in SUBSET A, C # {}
        PROVE  /\ Rest(C) \in SUBSET A /\ Rest(C) # A
               /\ IsFoldOf(FoldOf(base, seq, Rest(C)), base, seq, Rest(C))
    <3>1. C \in SUBSET Int /\ IsFiniteSet(C)
      BY FS_Subset
    <3>2. Max(C) \in C
      BY <2>1, <3>1, MaxExists
    <3> QED BY <3>2, <1>1
  <2>2. ASSUME NEW C \in SUBSET A, C # {}
        PROVE  FoldOf(base, seq, Rest(C))[Rest(C)] = h[Rest(C)]
    <3> DEFINE D == Rest(C)
    <3>1. D \in SUBSET A /\ IsFoldOf(FoldOf(base, seq, D), base, seq, D)
      BY <2>1, <2>2
    <3>2. CASE D = {}
      BY <3>1, <3>2 DEF IsFoldOf
    <3>3. CASE D # {}
      <4>1. Rest(D) \in SUBSET D
        OBVIOUS
      <4>2. IsFoldOf(FoldOf(base, seq, Rest(D)), base, seq, Rest(D))
        BY <2>1, <3>1, <3>3
      <4>3. D \in SUBSET Int /\ IsFiniteSet(D)
        BY <3>1, FS_Subset
      <4> HIDE DEF D
      <4>4. FoldOf(base, seq, D)[Rest(D)] = FoldOf(base, seq, Rest(D))[Rest(D)]
        <5> HIDE DEF Rest
        <5> QED BY <4>1, <4>2, <4>3, <3>1, FoldsOfAgree
      <4>5. FoldOf(base, seq, D)[D] = Op(FoldOf(base, seq, D)[Rest(D)], seq[Max(D)])
        BY <3>1, <3>3 DEF IsFoldOf
      <4>6. h[D] = Op(FoldOf(base, seq, Rest(D))[Rest(D)], seq[Max(D)])
        BY <3>1, <3>3
      <4> QED BY <4>4, <4>5, <4>6 DEF D
    <3> QED BY <3>2, <3>3
  <2>3. IsFoldOf(h, base, seq, A)
    BY <2>2 DEF IsFoldOf
  <2>4. IsFoldOf(FoldOf(base, seq, A), base, seq, A)
    BY <2>3 DEF FoldOf
  <2> QED BY <2>4
<1>2. SUBSET S \subseteq Good
  <2> HIDE DEF Good
  <2> QED BY <1>1, SubsetInduction
<1> QED BY <1>2

\* The value of a loop.
LEMMA LoopIsFold ==
  ASSUME NEW base, NEW seq
  PROVE  Loop(base, seq) = FoldOf(base, seq, DOMAIN seq)[DOMAIN seq]
BY DEF Loop, FoldLeft, MapThenFoldSet, FoldOf, IsFoldOf

\* What holds of the initial state of a loop and is kept by each iteration holds
\* at its end.
LEMMA LoopInvariant ==
  ASSUME NEW V, NEW seq \in Seq(V), NEW base, Inv(seq, 0, base),
         \A i \in 1..Len(seq) : \A t : Inv(seq, i - 1, t) => Inv(seq, i, Op(t, seq[i]))
  PROVE  Inv(seq, Len(seq), Loop(base, seq))
<1> DEFINE g == FoldOf(base, seq, DOMAIN seq)
           Good == { i \in Nat : i <= Len(seq) => Inv(seq, i, g[1..i]) }
<1>1. DOMAIN seq = 1..Len(seq) /\ Len(seq) \in Nat
  OBVIOUS
<1>2. IsFoldOf(g, base, seq, 1..Len(seq))
  <2> DEFINE S == DOMAIN seq
  <2>1. S \in SUBSET Int /\ IsFiniteSet(S) /\ S \in SUBSET S
    BY <1>1, FS_Interval
  <2> HIDE DEF S
  <2>2. IsFoldOf(FoldOf(base, seq, S), base, seq, S)
    BY <2>1, FoldOfExists
  <2> QED BY <1>1, <2>2 DEF S
<1> HIDE DEF g
<1>3. ASSUME NEW i \in Nat, \A j \in 0..(i - 1) : j \in Good
      PROVE  i \in Good
  <2>1. CASE i = 0
    <3>1. 1..i = {}
      BY <2>1
    <3>2. g[{}] = base
      BY <1>2 DEF IsFoldOf
    <3> QED BY <2>1, <3>1, <3>2
  <2>2. CASE i # 0 /\ i <= Len(seq)
    <3>1. i - 1 \in Good /\ i \in 1..Len(seq) /\ i - 1 <= Len(seq)
      BY <1>1, <1>3, <2>2
    <3>2. Inv(seq, i - 1, g[1..(i - 1)])
      BY <3>1
    <3>3. Max(1..i) = i /\ (1..i) \ {i} = 1..(i - 1)
      BY <2>2, LastOf
    <3> DEFINE A == 1..i
    <3>4. A \in SUBSET (1..Len(seq)) /\ A # {}
      BY <1>1, <3>1
    <3>5. g[A] = Op(g[A \ {Max(A)}], seq[Max(A)])
      <4> HIDE DEF A
      <4> QED BY <1>2, <3>4 DEF IsFoldOf
    <3>6. g[A] = Op(g[1..(i - 1)], seq[i])
      BY <3>3, <3>5
    <3> QED BY <3>1, <3>2, <3>6
  <2> QED BY <2>1, <2>2
<1>4. Nat \subseteq Good
  <2> HIDE DEF Good
  <2> QED BY <1>3, NaturalInduction
<1>5. Inv(seq, Len(seq), g[1..Len(seq)])
  BY <1>1, <1>4
<1> QED BY <1>1, <1>5, LoopIsFold DEF g
=============================================================================
