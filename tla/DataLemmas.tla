----------------------------- MODULE DataLemmas -----------------------------
(***************************************************************************)
(* Facts about the data of the models: the sum of a function's values over *)
(* a finite set, the form in which they write their totals, and lists of   *)
(* distinct vaults with ListOrder's operators.  Each induction is over the *)
(* subsets of a set or the positions of a list: the smallest at which a    *)
(* fact fails cannot exist.                                                *)
(***************************************************************************)
EXTENDS Integers, FiniteSets, ListOrder, FiniteSetTheorems, SequenceTheorems,
        WellFoundedInduction, TLAPS

\* The element a fold takes first.
Picked(S) == CHOOSE x \in S : TRUE

\* g is the function by which a fold computes the sums over the subsets of S.
IsFold(f, g, S) ==
  g = [A \in SUBSET S |-> IF A = {} THEN 0 ELSE f[Picked(A)] + g[A \ {Picked(A)}]]

-----------------------------------------------------------------------------
\* Good contains every natural number when it contains one whose predecessors it
\* contains.
LEMMA NaturalInduction ==
  ASSUME NEW Good, \A n \in Nat : (\A m \in 0..(n - 1) : m \in Good) => n \in Good
  PROVE  Nat \subseteq Good
<1> DEFINE Bad == { n \in Nat : n \notin Good }
<1>1. SUFFICES ASSUME Bad # {} PROVE FALSE
  OBVIOUS
<1>2. PICK n \in Bad : \A m \in Bad : <<m, n>> \notin OpToRel(<, Nat)
  <2>1. Bad \subseteq Nat
    OBVIOUS
  <2> HIDE DEF Bad
  <2> QED BY <1>1, <2>1, NatLessThanWellFounded, WFMin
<1>3. \A m \in 0..(n - 1) : m \in Good
  <2> SUFFICES ASSUME NEW m \in 0..(n - 1), m \in Bad PROVE FALSE
    OBVIOUS
  <2>1. <<m, n>> \in OpToRel(<, Nat)
    BY DEF OpToRel
  <2> QED BY <1>2, <2>1
<1> QED BY <1>2, <1>3

\* Good contains every subset of S when it contains a subset whose own smaller
\* subsets it contains.
LEMMA SubsetInduction ==
  ASSUME NEW S, IsFiniteSet(S), NEW Good,
         \A A \in SUBSET S :
           (\A B \in SUBSET A : B # A => B \in Good) => A \in Good
  PROVE  SUBSET S \subseteq Good
<1> DEFINE Bad == { A \in SUBSET S : A \notin Good }
<1>1. SUFFICES ASSUME Bad # {} PROVE FALSE
  OBVIOUS
<1>2. IsWellFoundedOn(StrictSubsetOrdering(S), SUBSET S)
  BY FS_StrictSubsetOrderingWellFounded, FS_FiniteSubsetsOfFinite
<1>3. PICK A \in Bad : \A B \in Bad : <<B, A>> \notin StrictSubsetOrdering(S)
  <2> HIDE DEF Bad
  <2>1. Bad \subseteq SUBSET S
    BY DEF Bad
  <2> QED BY <1>1, <1>2, <2>1, WFMin
<1>4. \A B \in SUBSET A : B # A => B \in Good
  BY <1>3 DEF StrictSubsetOrdering
<1> QED BY <1>3, <1>4

\* Two such functions agree on the subsets that they share.
LEMMA FoldsAgree ==
  ASSUME NEW f, NEW S, IsFiniteSet(S), NEW T, NEW g, NEW h, IsFold(f, g, S), IsFold(f, h, T)
  PROVE  \A A \in SUBSET S : A \in SUBSET T => g[A] = h[A]
<1> DEFINE Good == { A \in SUBSET S : A \in SUBSET T => g[A] = h[A] }
<1>1. ASSUME NEW A \in SUBSET S, \A B \in SUBSET A : B # A => B \in Good
      PROVE  A \in Good
  <2>1. CASE A = {}
    BY <2>1 DEF IsFold
  <2>2. CASE A # {} /\ A \in SUBSET T
    <3> DEFINE B == A \ {Picked(A)}
    <3>1. Picked(A) \in A
      BY <2>2 DEF Picked
    <3>2. B \in SUBSET A /\ B # A /\ B \in SUBSET T
      BY <3>1, <2>2
    <3>3. g[B] = h[B]
      BY <1>1, <3>2
    <3> HIDE DEF B
    <3>4. g[A] = f[Picked(A)] + g[B] /\ h[A] = f[Picked(A)] + h[B]
      BY <2>2 DEF IsFold, B
    <3> QED BY <3>3, <3>4
  <2> QED BY <2>1, <2>2
<1>2. SUBSET S \subseteq Good
  <2> HIDE DEF Good
  <2> QED BY <1>1, SubsetInduction
<1> QED BY <1>2

\* The function a fold chooses.
Fold(f, S) == CHOOSE g : IsFold(f, g, S)

\* The recursion of a fold over a finite set defines a function.
LEMMA FoldExists ==
  ASSUME NEW f, NEW S, IsFiniteSet(S)
  PROVE  \A A \in SUBSET S : IsFold(f, Fold(f, A), A)
<1> DEFINE Good == { A \in SUBSET S : IsFold(f, Fold(f, A), A) }
<1>1. ASSUME NEW A \in SUBSET S, \A B \in SUBSET A : B # A => B \in Good
      PROVE  A \in Good
  <2> DEFINE Rest(B) == B \ {Picked(B)}
             h == [B \in SUBSET A |->
                     IF B = {} THEN 0 ELSE f[Picked(B)] + Fold(f, Rest(B))[Rest(B)]]
  <2>1. ASSUME NEW B \in SUBSET A, B # {}
        PROVE  Rest(B) \in SUBSET A /\ Rest(B) # A /\ IsFold(f, Fold(f, Rest(B)), Rest(B))
    <3>1. Picked(B) \in B
      BY <2>1 DEF Picked
    <3> QED BY <3>1, <1>1
  <2>2. ASSUME NEW B \in SUBSET A, B # {}
        PROVE  Fold(f, Rest(B))[Rest(B)] = h[Rest(B)]
    <3> DEFINE C == Rest(B)
    <3>1. C \in SUBSET A /\ IsFold(f, Fold(f, C), C)
      BY <2>1, <2>2
    <3>2. CASE C = {}
      BY <3>1, <3>2 DEF IsFold
    <3>3. CASE C # {}
      <4>1. Picked(C) \in C /\ Rest(C) \in SUBSET C
        BY <3>3 DEF Picked
      <4>2. IsFold(f, Fold(f, Rest(C)), Rest(C))
        BY <2>1, <3>1, <3>3
      <4>3. IsFiniteSet(C)
        BY <3>1, FS_Subset
      <4> HIDE DEF C
      <4>4. Fold(f, C)[Rest(C)] = Fold(f, Rest(C))[Rest(C)]
        <5> HIDE DEF Rest
        <5> QED BY <4>1, <4>2, <4>3, <3>1, FoldsAgree
      <4>5. Fold(f, C)[C] = f[Picked(C)] + Fold(f, C)[Rest(C)]
        BY <3>1, <3>3 DEF IsFold
      <4>6. h[C] = f[Picked(C)] + Fold(f, Rest(C))[Rest(C)]
        BY <3>1, <3>3
      <4> QED BY <4>4, <4>5, <4>6 DEF C
    <3> QED BY <3>2, <3>3
  <2>3. IsFold(f, h, A)
    BY <2>2 DEF IsFold
  <2>4. IsFold(f, Fold(f, A), A)
    BY <2>3 DEF Fold
  <2> QED BY <2>4
<1>2. SUBSET S \subseteq Good
  <2> HIDE DEF Good
  <2> QED BY <1>1, SubsetInduction
<1> QED BY <1>2

\* The sum of the community modules is that fold.
LEMMA SumIsFold ==
  ASSUME NEW f, NEW S
  PROVE  SumFunctionOnSet(f, S) = Fold(f, S)[S]
BY DEF SumFunctionOnSet, FoldFunctionOnSet, MapThenFoldSet, Fold, IsFold, Picked

\* Nothing sums to zero.
LEMMA SumEmpty ==
  ASSUME NEW f
  PROVE  SumFunctionOnSet(f, {}) = 0
<1>1. IsFold(f, Fold(f, {}), {})
  BY FS_EmptySet, FoldExists
<1> QED BY <1>1, SumIsFold DEF IsFold

\* The equation by which a fold computes a sum.
LEMMA SumPicked ==
  ASSUME NEW f, NEW S, IsFiniteSet(S), S # {}
  PROVE  /\ Picked(S) \in S
         /\ SumFunctionOnSet(f, S) = f[Picked(S)] + SumFunctionOnSet(f, S \ {Picked(S)})
<1> DEFINE R == S \ {Picked(S)}
<1>1. Picked(S) \in S
  BY DEF Picked
<1>2. R \in SUBSET S /\ R \in SUBSET R /\ IsFiniteSet(R)
  BY FS_Subset
<1>3. IsFold(f, Fold(f, S), S) /\ IsFold(f, Fold(f, R), R)
  BY <1>2, FoldExists
<1>4. Fold(f, S)[S] = f[Picked(S)] + Fold(f, S)[R]
  BY <1>3 DEF IsFold
<1> HIDE DEF R
<1>5. Fold(f, S)[R] = Fold(f, R)[R]
  BY <1>2, <1>3, FoldsAgree
<1> QED BY <1>1, <1>4, <1>5, SumIsFold DEF R

-----------------------------------------------------------------------------
\* Sums of integers: any element may be taken out first.
LEMMA SumInt ==
  ASSUME NEW S, IsFiniteSet(S), NEW f, \A x \in S : f[x] \in Int
  PROVE  SumFunctionOnSet(f, S) \in Int
<1> DEFINE Good == { A \in SUBSET S : SumFunctionOnSet(f, A) \in Int }
<1>1. ASSUME NEW A \in SUBSET S, \A B \in SUBSET A : B # A => B \in Good
      PROVE  A \in Good
  <2>1. CASE A = {}
    BY <2>1, SumEmpty
  <2>2. CASE A # {}
    <3>1. IsFiniteSet(A)
      BY FS_Subset
    <3>2. /\ Picked(A) \in A
          /\ SumFunctionOnSet(f, A) = f[Picked(A)] + SumFunctionOnSet(f, A \ {Picked(A)})
      BY <2>2, <3>1, SumPicked
    <3>3. SumFunctionOnSet(f, A \ {Picked(A)}) \in Int
      BY <1>1, <3>2
    <3> QED BY <3>2, <3>3
  <2> QED BY <2>1, <2>2
<1>2. SUBSET S \subseteq Good
  <2> HIDE DEF Good
  <2> QED BY <1>1, SubsetInduction
<1> QED BY <1>2

\* Any element can be taken out of a sum, not only the one that the fold picks.
LEMMA SumRemove ==
  ASSUME NEW S, IsFiniteSet(S), NEW f, \A x \in S : f[x] \in Int, NEW y \in S
  PROVE  SumFunctionOnSet(f, S) = f[y] + SumFunctionOnSet(f, S \ {y})
<1> DEFINE Good == { A \in SUBSET S :
                       \A x \in A : SumFunctionOnSet(f, A) = f[x] + SumFunctionOnSet(f, A \ {x}) }
<1>1. ASSUME NEW A \in SUBSET S, \A B \in SUBSET A : B # A => B \in Good
      PROVE  A \in Good
  <2> SUFFICES ASSUME NEW x \in A
               PROVE  SumFunctionOnSet(f, A) = f[x] + SumFunctionOnSet(f, A \ {x})
    OBVIOUS
  <2> DEFINE p == Picked(A)
  <2>1. \A B \in SUBSET A : IsFiniteSet(B) /\ SumFunctionOnSet(f, B) \in Int
    <3> TAKE B \in SUBSET A
    <3>1. IsFiniteSet(B)
      BY FS_Subset
    <3> QED BY <3>1, SumInt
  <2>2. p \in A /\ SumFunctionOnSet(f, A) = f[p] + SumFunctionOnSet(f, A \ {p})
    BY <2>1, SumPicked
  <2> HIDE DEF p
  <2>3. CASE x # p
    <3>1. A \ {p} \in Good /\ A \ {x} \in Good
      BY <1>1, <2>2
    <3>2. SumFunctionOnSet(f, A \ {p}) = f[x] + SumFunctionOnSet(f, (A \ {p}) \ {x})
      BY <2>3, <3>1
    <3>3. SumFunctionOnSet(f, A \ {x}) = f[p] + SumFunctionOnSet(f, (A \ {x}) \ {p})
      BY <2>2, <2>3, <3>1
    <3>4. (A \ {p}) \ {x} = (A \ {x}) \ {p}
      OBVIOUS
    <3> DEFINE rest == SumFunctionOnSet(f, (A \ {x}) \ {p})
    <3>5. f[x] \in Int /\ f[p] \in Int /\ rest \in Int
      BY <2>1, <2>2
    <3>6. /\ SumFunctionOnSet(f, A) = f[p] + (f[x] + rest)
          /\ SumFunctionOnSet(f, A \ {x}) = f[p] + rest
      BY <2>2, <3>2, <3>3, <3>4
    <3> HIDE DEF rest
    <3> QED BY <3>5, <3>6
  <2> QED BY <2>2, <2>3
<1>2. SUBSET S \subseteq Good
  <2> HIDE DEF Good
  <2> QED BY <1>1, SubsetInduction
<1> QED BY <1>2

\* One more element adds its value.
LEMMA SumAdd ==
  ASSUME NEW S, IsFiniteSet(S), NEW f, NEW y, y \notin S, f[y] \in Int, \A x \in S : f[x] \in Int
  PROVE  SumFunctionOnSet(f, S \cup {y}) = f[y] + SumFunctionOnSet(f, S)
<1>1. IsFiniteSet(S \cup {y}) /\ (S \cup {y}) \ {y} = S
  BY FS_AddElement
<1> QED BY <1>1, SumRemove

\* The sum depends on the values only.
LEMMA SumSame ==
  ASSUME NEW S, IsFiniteSet(S), NEW f, NEW g, \A x \in S : f[x] = g[x]
  PROVE  SumFunctionOnSet(f, S) = SumFunctionOnSet(g, S)
<1> DEFINE Good == { A \in SUBSET S : SumFunctionOnSet(f, A) = SumFunctionOnSet(g, A) }
<1>1. ASSUME NEW A \in SUBSET S, \A B \in SUBSET A : B # A => B \in Good
      PROVE  A \in Good
  <2>1. CASE A = {}
    BY <2>1, SumEmpty
  <2>2. CASE A # {}
    <3>1. IsFiniteSet(A)
      BY FS_Subset
    <3>2. /\ Picked(A) \in A
          /\ SumFunctionOnSet(f, A) = f[Picked(A)] + SumFunctionOnSet(f, A \ {Picked(A)})
          /\ SumFunctionOnSet(g, A) = g[Picked(A)] + SumFunctionOnSet(g, A \ {Picked(A)})
      BY <2>2, <3>1, SumPicked
    <3>3. SumFunctionOnSet(f, A \ {Picked(A)}) = SumFunctionOnSet(g, A \ {Picked(A)})
      BY <1>1, <3>2
    <3> QED BY <3>2, <3>3
  <2> QED BY <2>1, <2>2
<1>2. SUBSET S \subseteq Good
  <2> HIDE DEF Good
  <2> QED BY <1>1, SubsetInduction
<1> QED BY <1>2

\* The sum of sums.
LEMMA SumPlus ==
  ASSUME NEW S, IsFiniteSet(S), NEW f, NEW g, NEW h,
         \A x \in S : f[x] \in Int /\ g[x] \in Int /\ h[x] = f[x] + g[x]
  PROVE  SumFunctionOnSet(h, S) = SumFunctionOnSet(f, S) + SumFunctionOnSet(g, S)
<1> DEFINE Good == { A \in SUBSET S :
             SumFunctionOnSet(h, A) = SumFunctionOnSet(f, A) + SumFunctionOnSet(g, A) }
<1>1. ASSUME NEW A \in SUBSET S, \A B \in SUBSET A : B # A => B \in Good
      PROVE  A \in Good
  <2>1. CASE A = {}
    BY <2>1, SumEmpty
  <2>2. CASE A # {}
    <3> DEFINE R == A \ {Picked(A)}
    <3>1. IsFiniteSet(A) /\ IsFiniteSet(R)
      BY FS_Subset
    <3>2. /\ Picked(A) \in A
          /\ SumFunctionOnSet(f, A) = f[Picked(A)] + SumFunctionOnSet(f, R)
          /\ SumFunctionOnSet(g, A) = g[Picked(A)] + SumFunctionOnSet(g, R)
          /\ SumFunctionOnSet(h, A) = h[Picked(A)] + SumFunctionOnSet(h, R)
      BY <2>2, <3>1, SumPicked
    <3>3. R \in SUBSET S /\ SumFunctionOnSet(h, R) = SumFunctionOnSet(f, R) + SumFunctionOnSet(g, R)
      BY <1>1, <3>2
    <3>4. SumFunctionOnSet(f, R) \in Int /\ SumFunctionOnSet(g, R) \in Int
      BY <3>1, <3>3, SumInt
    <3> QED BY <3>2, <3>3, <3>4
  <2> QED BY <2>1, <2>2
<1>2. SUBSET S \subseteq Good
  <2> HIDE DEF Good
  <2> QED BY <1>1, SubsetInduction
<1> QED BY <1>2

\* A common factor can be taken out of a sum.
LEMMA SumTimes ==
  ASSUME NEW S, IsFiniteSet(S), NEW f, NEW g, NEW k \in Int,
         \A x \in S : f[x] \in Int /\ g[x] = k * f[x]
  PROVE  SumFunctionOnSet(g, S) = k * SumFunctionOnSet(f, S)
<1> DEFINE Good == { A \in SUBSET S : SumFunctionOnSet(g, A) = k * SumFunctionOnSet(f, A) }
<1>1. ASSUME NEW A \in SUBSET S, \A B \in SUBSET A : B # A => B \in Good
      PROVE  A \in Good
  <2>1. CASE A = {}
    BY <2>1, SumEmpty
  <2>2. CASE A # {}
    <3> DEFINE R == A \ {Picked(A)}
    <3>1. IsFiniteSet(A) /\ IsFiniteSet(R)
      BY FS_Subset
    <3>2. /\ Picked(A) \in A
          /\ SumFunctionOnSet(f, A) = f[Picked(A)] + SumFunctionOnSet(f, R)
          /\ SumFunctionOnSet(g, A) = g[Picked(A)] + SumFunctionOnSet(g, R)
      BY <2>2, <3>1, SumPicked
    <3>3. R \in SUBSET S /\ SumFunctionOnSet(g, R) = k * SumFunctionOnSet(f, R)
      BY <1>1, <3>2
    <3>4. SumFunctionOnSet(f, R) \in Int
      BY <3>1, <3>3, SumInt
    <3>5. ASSUME NEW a \in Int, NEW b \in Int
          PROVE  k * a + k * b = k * (a + b)
      OBVIOUS
    <3>6. f[Picked(A)] \in Int /\ g[Picked(A)] = k * f[Picked(A)]
      BY <3>2
    <3> HIDE DEF R
    <3>7. k * f[Picked(A)] + k * SumFunctionOnSet(f, R) = k * (f[Picked(A)] + SumFunctionOnSet(f, R))
      BY <3>4, <3>5, <3>6
    <3> QED BY <3>2, <3>3, <3>6, <3>7
  <2> QED BY <2>1, <2>2
<1>2. SUBSET S \subseteq Good
  <2> HIDE DEF Good
  <2> QED BY <1>1, SubsetInduction
<1> QED BY <1>2

\* Greater values have a greater sum.
LEMMA SumMonotone ==
  ASSUME NEW S, IsFiniteSet(S), NEW f, NEW g,
         \A x \in S : f[x] \in Int /\ g[x] \in Int /\ f[x] <= g[x]
  PROVE  SumFunctionOnSet(f, S) <= SumFunctionOnSet(g, S)
<1> DEFINE Good == { A \in SUBSET S : SumFunctionOnSet(f, A) <= SumFunctionOnSet(g, A) }
<1>1. ASSUME NEW A \in SUBSET S, \A B \in SUBSET A : B # A => B \in Good
      PROVE  A \in Good
  <2>1. CASE A = {}
    BY <2>1, SumEmpty
  <2>2. CASE A # {}
    <3> DEFINE R == A \ {Picked(A)}
    <3>1. IsFiniteSet(A) /\ IsFiniteSet(R)
      BY FS_Subset
    <3>2. /\ Picked(A) \in A
          /\ SumFunctionOnSet(f, A) = f[Picked(A)] + SumFunctionOnSet(f, R)
          /\ SumFunctionOnSet(g, A) = g[Picked(A)] + SumFunctionOnSet(g, R)
      BY <2>2, <3>1, SumPicked
    <3>3. R \in SUBSET S /\ SumFunctionOnSet(f, R) <= SumFunctionOnSet(g, R)
      BY <1>1, <3>2
    <3>4. SumFunctionOnSet(f, R) \in Int /\ SumFunctionOnSet(g, R) \in Int
      BY <3>1, <3>3, SumInt
    <3> QED BY <3>2, <3>3, <3>4
  <2> QED BY <2>1, <2>2
<1>2. SUBSET S \subseteq Good
  <2> HIDE DEF Good
  <2> QED BY <1>1, SubsetInduction
<1> QED BY <1>2

-----------------------------------------------------------------------------
\* What follows without induction.

\* One value changes.
LEMMA SumUpdate ==
  ASSUME NEW S, IsFiniteSet(S), NEW f, NEW g, NEW y \in S,
         \A x \in S : f[x] \in Int, g[y] \in Int, \A x \in S \ {y} : g[x] = f[x]
  PROVE  SumFunctionOnSet(g, S) = SumFunctionOnSet(f, S) - f[y] + g[y]
<1>1. IsFiniteSet(S \ {y})
  BY FS_Subset
<1>2. SumFunctionOnSet(g, S \ {y}) = SumFunctionOnSet(f, S \ {y})
  BY <1>1, SumSame
<1>3. SumFunctionOnSet(g, S) = g[y] + SumFunctionOnSet(g, S \ {y})
  BY SumRemove
<1>4. SumFunctionOnSet(f, S) = f[y] + SumFunctionOnSet(f, S \ {y})
  BY SumRemove
<1>5. SumFunctionOnSet(f, S \ {y}) \in Int
  BY <1>1, SumInt
<1> QED BY <1>2, <1>3, <1>4, <1>5

\* Zeroes sum to zero.
LEMMA SumZero ==
  ASSUME NEW S, IsFiniteSet(S), NEW f, \A x \in S : f[x] = 0
  PROVE  SumFunctionOnSet(f, S) = 0
<1>1. SumFunctionOnSet(f, S) = 0 * SumFunctionOnSet(f, S)
  BY SumTimes
<1>2. SumFunctionOnSet(f, S) \in Int
  BY SumInt
<1> QED BY <1>1, <1>2

\* A sum of natural numbers is natural.
LEMMA SumNat ==
  ASSUME NEW S, IsFiniteSet(S), NEW f, \A x \in S : f[x] \in Nat
  PROVE  SumFunctionOnSet(f, S) \in Nat
<1> DEFINE zero == [x \in S |-> 0]
<1>1. SumFunctionOnSet(zero, S) = 0
  BY SumZero
<1>2. SumFunctionOnSet(zero, S) <= SumFunctionOnSet(f, S)
  BY SumMonotone
<1>3. SumFunctionOnSet(f, S) \in Int
  BY SumInt
<1> QED BY <1>1, <1>2, <1>3

\* No value exceeds the sum.
LEMMA SumBoundsEach ==
  ASSUME NEW S, IsFiniteSet(S), NEW f, \A x \in S : f[x] \in Nat, NEW y \in S
  PROVE  f[y] <= SumFunctionOnSet(f, S)
<1>1. SumFunctionOnSet(f, S) = f[y] + SumFunctionOnSet(f, S \ {y})
  BY SumRemove
<1>2. IsFiniteSet(S \ {y})
  BY FS_Subset
<1>3. SumFunctionOnSet(f, S \ {y}) \in Nat
  BY <1>2, SumNat
<1> QED BY <1>1, <1>3

\* The sum over a part is the sum over the whole of the values cut to the part.
LEMMA SumPart ==
  ASSUME NEW S, IsFiniteSet(S), NEW T \in SUBSET S, NEW f, \A x \in S : f[x] \in Int
  PROVE  SumFunctionOnSet([x \in S |-> IF x \in T THEN f[x] ELSE 0], S) = SumFunctionOnSet(f, T)
<1> DEFINE cut(U) == [x \in S |-> IF x \in U THEN f[x] ELSE 0]
           Good == { A \in SUBSET S : SumFunctionOnSet(cut(A), S) = SumFunctionOnSet(f, A) }
<1>1. ASSUME NEW A \in SUBSET S, \A B \in SUBSET A : B # A => B \in Good
      PROVE  A \in Good
  <2>1. CASE A = {}
    BY <2>1, SumEmpty, SumZero
  <2>2. CASE A # {}
    <3>1. PICK y \in A : TRUE
      BY <2>2
    <3> DEFINE R == A \ {y}
    <3>2. IsFiniteSet(A)
      BY FS_Subset
    <3>3. SumFunctionOnSet(f, A) = f[y] + SumFunctionOnSet(f, R)
      BY <3>2, SumRemove
    <3>4. SumFunctionOnSet(cut(R), S) = SumFunctionOnSet(f, R)
      BY <1>1, <3>1
    <3>5. SumFunctionOnSet(cut(A), S) = SumFunctionOnSet(cut(R), S) - cut(R)[y] + cut(A)[y]
      <4> DEFINE less == cut(R)
                 more == cut(A)
      <4>1. /\ y \in S /\ more[y] \in Int
            /\ \A x \in S : less[x] \in Int
            /\ \A x \in S \ {y} : more[x] = less[x]
        OBVIOUS
      <4> HIDE DEF less, more
      <4>2. SumFunctionOnSet(more, S) = SumFunctionOnSet(less, S) - less[y] + more[y]
        BY <4>1, SumUpdate
      <4> QED BY <4>2 DEF less, more
    <3>6. cut(R)[y] = 0 /\ cut(A)[y] = f[y] /\ f[y] \in Int
      OBVIOUS
    <3>7. SumFunctionOnSet(cut(R), S) \in Int
      BY SumInt
    <3> HIDE DEF cut, R
    <3> QED BY <3>3, <3>4, <3>5, <3>6, <3>7
  <2> QED BY <2>1, <2>2
<1>2. SUBSET S \subseteq Good
  <2> HIDE DEF Good
  <2> QED BY <1>1, SubsetInduction
<1> QED BY <1>2
\* The values of T are replaced.
LEMMA SumReplaced ==
  ASSUME NEW S, IsFiniteSet(S), NEW T \in SUBSET S, NEW f, NEW g,
         \A x \in S : f[x] \in Int /\ g[x] \in Int, \A x \in S \ T : g[x] = f[x]
  PROVE  SumFunctionOnSet(g, S)
           = SumFunctionOnSet(f, S) - SumFunctionOnSet(f, T) + SumFunctionOnSet(g, T)
<1> DEFINE cutf == [x \in S |-> IF x \in T THEN f[x] ELSE 0]
           cutg == [x \in S |-> IF x \in T THEN g[x] ELSE 0]
           h == [x \in S |-> g[x] + cutf[x]]
<1>1. /\ \A x \in S : cutf[x] \in Int /\ cutg[x] \in Int
      /\ \A x \in S : h[x] = g[x] + cutf[x] /\ h[x] = f[x] + cutg[x]
  OBVIOUS
<1>2. /\ SumFunctionOnSet(cutf, S) = SumFunctionOnSet(f, T)
      /\ SumFunctionOnSet(cutg, S) = SumFunctionOnSet(g, T)
  BY SumPart
<1> HIDE DEF cutf, cutg, h
<1>3. SumFunctionOnSet(h, S) = SumFunctionOnSet(g, S) + SumFunctionOnSet(cutf, S)
  BY <1>1, SumPlus
<1>4. SumFunctionOnSet(h, S) = SumFunctionOnSet(f, S) + SumFunctionOnSet(cutg, S)
  BY <1>1, SumPlus
<1>5. /\ SumFunctionOnSet(f, S) \in Int /\ SumFunctionOnSet(g, S) \in Int
      /\ SumFunctionOnSet(cutf, S) \in Int /\ SumFunctionOnSet(cutg, S) \in Int
  BY <1>1, SumInt
<1> QED BY <1>2, <1>3, <1>4, <1>5


----------------------------------------------------------------------------
\* Lists of distinct elements.

Distinct(s) == \A i, j \in 1..Len(s) : s[i] = s[j] => i = j

\* g computes Without(list, S) for the first n positions.
IsKept(g, list, S, n) ==
  g = [i \in 0..n |-> IF i = 0 THEN <<>>
                      ELSE IF list[i] \in S THEN g[i - 1] ELSE Append(g[i - 1], list[i])]

\* The recursion of Without defines a function.
LEMMA KeptExists ==
  ASSUME NEW list, NEW S, NEW n \in Nat
  PROVE  \E g : IsKept(g, list, S, n)
<1> DEFINE Good == { m \in Nat : \E g : IsKept(g, list, S, m) }
<1>1. ASSUME NEW m \in Nat, \A k \in 0..(m - 1) : k \in Good
      PROVE  m \in Good
  <2>1. CASE m = 0
    <3> DEFINE g == [i \in 0..0 |-> <<>>]
    <3>1. IsKept(g, list, S, 0)
      BY DEF IsKept
    <3> QED BY <2>1, <3>1
  <2>2. CASE m # 0
    <3>1. m - 1 \in 0..(m - 1)
      BY <2>2
    <3>2. PICK h : IsKept(h, list, S, m - 1)
      BY <1>1, <3>1
    <3> DEFINE last == IF list[m] \in S THEN h[m - 1] ELSE Append(h[m - 1], list[m])
               g == [i \in 0..m |-> IF i = m THEN last ELSE h[i]]
    <3>3. ASSUME NEW i \in 0..m
          PROVE  g[i] = IF i = 0 THEN <<>>
                        ELSE IF list[i] \in S THEN g[i - 1] ELSE Append(g[i - 1], list[i])
      <4>1. CASE i = m
        <5>1. g[i - 1] = h[m - 1]
          BY <2>2, <4>1
        <5> QED BY <2>2, <4>1, <5>1
      <4>2. CASE i # m
        <5>1. g[i] = h[i] /\ i \in 0..(m - 1)
          BY <4>2
        <5>2. i # 0 => g[i - 1] = h[i - 1]
          BY <4>2
        <5> HIDE DEF g, last
        <5> QED BY <3>2, <5>1, <5>2 DEF IsKept
      <4> QED BY <4>1, <4>2
    <3>4. g = [i \in 0..m |-> g[i]]
      OBVIOUS
    <3> HIDE DEF g
    <3>5. IsKept(g, list, S, m)
      BY <3>3, <3>4 DEF IsKept
    <3> QED BY <3>5
  <2> QED BY <2>1, <2>2
<1>2. Nat \subseteq Good
  <2> HIDE DEF Good
  <2> QED BY <1>1, NaturalInduction
<1> QED BY <1>2

\* l is what Without keeps of the first i vaults of list.
IsWithout(l, list, S, V, i) ==
  /\ l \in Seq(V)
  /\ \A k \in 1..Len(l) : \E j \in 1..i : l[k] = list[j] /\ list[j] \notin S
  /\ \A j \in 1..i : list[j] \notin S => \E k \in 1..Len(l) : l[k] = list[j]
  /\ Distinct(list) => Distinct(l)

\* One more vault of the list, kept or dropped.
LEMMA WithoutStep ==
  ASSUME NEW V, NEW list \in Seq(V), NEW S, NEW i \in 1..Len(list), NEW h,
         IsWithout(h, list, S, V, i - 1)
  PROVE  IsWithout(IF list[i] \in S THEN h ELSE Append(h, list[i]), list, S, V, i)
<1>1. i \in Nat /\ list[i] \in V /\ Len(list) \in Nat
  OBVIOUS
<1>2. /\ h \in Seq(V)
      /\ \A k \in 1..Len(h) : \E j \in 1..(i - 1) : h[k] = list[j] /\ list[j] \notin S
      /\ \A j \in 1..(i - 1) : list[j] \notin S => \E k \in 1..Len(h) : h[k] = list[j]
      /\ Distinct(list) => Distinct(h)
  BY DEF IsWithout
<1>3. \A j \in 1..i : j \in 1..(i - 1) \/ j = i
  BY <1>1
<1>4. \A j \in 1..(i - 1) : j \in 1..i /\ j \in 1..Len(list) /\ j # i
  BY <1>1
<1>5. CASE list[i] \in S
  <2>1. \A k \in 1..Len(h) : \E j \in 1..i : h[k] = list[j] /\ list[j] \notin S
    BY <1>2, <1>4
  <2>2. \A j \in 1..i : list[j] \notin S => \E k \in 1..Len(h) : h[k] = list[j]
    BY <1>2, <1>3, <1>5
  <2> QED BY <1>2, <1>5, <2>1, <2>2 DEF IsWithout
<1>6. CASE list[i] \notin S
  <2> DEFINE a == Append(h, list[i])
  <2>1. /\ a \in Seq(V) /\ Len(a) = Len(h) + 1 /\ Len(h) \in Nat
        /\ \A k \in 1..Len(h) : a[k] = h[k]
        /\ a[Len(h) + 1] = list[i]
    BY <1>1, <1>2
  <2> HIDE DEF a
  <2>2. \A k \in 1..Len(a) : k \in 1..Len(h) \/ k = Len(h) + 1
    BY <2>1
  <2>3. \A k \in 1..Len(h) : k \in 1..Len(a)
    BY <2>1
  <2>4. i \in 1..i /\ Len(h) + 1 \in 1..Len(a)
    BY <1>1, <2>1
  <2>5. ASSUME NEW k \in 1..Len(a)
        PROVE  \E j \in 1..i : a[k] = list[j] /\ list[j] \notin S
    <3>1. CASE k \in 1..Len(h)
      <4>1. PICK j \in 1..(i - 1) : h[k] = list[j] /\ list[j] \notin S
        BY <1>2, <3>1
      <4> QED BY <1>4, <2>1, <3>1, <4>1
    <3>2. CASE k = Len(h) + 1
      BY <1>6, <2>1, <2>4, <3>2
    <3> QED BY <2>2, <3>1, <3>2
  <2>6. ASSUME NEW j \in 1..i, list[j] \notin S
        PROVE  \E k \in 1..Len(a) : a[k] = list[j]
    <3>1. CASE j \in 1..(i - 1)
      <4>1. PICK k \in 1..Len(h) : h[k] = list[j]
        BY <1>2, <2>6, <3>1
      <4> QED BY <2>1, <2>3, <4>1
    <3>2. CASE j = i
      BY <2>1, <2>4, <3>2
    <3> QED BY <1>3, <3>1, <3>2
  <2>7. ASSUME Distinct(list)
        PROVE  Distinct(a)
    <3>1. ASSUME NEW m \in 1..Len(h)
          PROVE  h[m] # list[i]
      <4>1. PICK j \in 1..(i - 1) : h[m] = list[j]
        BY <1>2
      <4>2. list[j] # list[i]
        BY <1>4, <2>7 DEF Distinct
      <4> QED BY <4>1, <4>2
    <3>2. \A k, l \in 1..Len(h) : h[k] = h[l] => k = l
      BY <1>2, <2>7 DEF Distinct
    <3> SUFFICES ASSUME NEW k \in 1..Len(a), NEW l \in 1..Len(a), a[k] = a[l]
                 PROVE  k = l
      BY DEF Distinct
    <3>3. CASE k \in 1..Len(h) /\ l \in 1..Len(h)
      BY <2>1, <3>2, <3>3
    <3>4. CASE k \in 1..Len(h) /\ l = Len(h) + 1
      BY <2>1, <3>1, <3>4
    <3>5. CASE k = Len(h) + 1 /\ l \in 1..Len(h)
      BY <2>1, <3>1, <3>5
    <3> QED BY <2>2, <3>3, <3>4, <3>5
  <2>8. IsWithout(a, list, S, V, i)
    BY <2>1, <2>5, <2>6, <2>7 DEF IsWithout
  <2> QED BY <1>6, <2>8 DEF a
<1> QED BY <1>5, <1>6

\* Without removes the vaults of S and no other.
LEMMA WithoutProperties ==
  ASSUME NEW V, NEW list \in Seq(V), NEW S
  PROVE  /\ Without(list, S) \in Seq(V)
         /\ Range(Without(list, S)) = Range(list) \ S
         /\ Distinct(list) => Distinct(Without(list, S))
<1> DEFINE n == Len(list)
           g == CHOOSE f : IsKept(f, list, S, n)
           Good == { i \in Nat : i <= n => IsWithout(g[i], list, S, V, i) }
<1>1. n \in Nat /\ \A i \in 1..n : list[i] \in V
  OBVIOUS
<1>2. IsKept(g, list, S, n)
  BY <1>1, KeptExists
<1>3. Without(list, S) = g[n]
  BY DEF Without, IsKept
<1> HIDE DEF g
<1>4. ASSUME NEW i \in Nat, \A k \in 0..(i - 1) : k \in Good
      PROVE  i \in Good
  <2>1. CASE i = 0
    <3>1. g[0] = <<>>
      BY <1>1, <1>2 DEF IsKept
    <3>2. IsWithout(<<>>, list, S, V, 0)
      BY DEF IsWithout, Distinct
    <3> QED BY <2>1, <3>1, <3>2
  <2>2. CASE i # 0 /\ i <= n
    <3>1. i \in 1..n /\ i - 1 <= n /\ i - 1 \in 0..(i - 1)
      BY <1>1, <2>2
    <3>2. IsWithout(g[i - 1], list, S, V, i - 1)
      BY <1>4, <3>1
    <3>3. g[i] = IF list[i] \in S THEN g[i - 1] ELSE Append(g[i - 1], list[i])
      <4>1. i \in 0..n
        BY <1>1, <3>1
      <4> HIDE DEF n
      <4> QED BY <1>2, <2>2, <4>1 DEF IsKept
    <3>4. IsWithout(g[i], list, S, V, i)
      BY <3>1, <3>2, <3>3, WithoutStep
    <3> QED BY <3>4
  <2> QED BY <2>1, <2>2
<1>5. Nat \subseteq Good
  <2> HIDE DEF Good
  <2> QED BY <1>4, NaturalInduction
<1> DEFINE r == g[n]
<1>6. IsWithout(r, list, S, V, n)
  BY <1>1, <1>5
<1> HIDE DEF r
<1>7. DOMAIN r = 1..Len(r) /\ DOMAIN list = 1..n
  BY <1>6 DEF IsWithout
<1>8. Range(r) = Range(list) \ S
  BY <1>6, <1>7 DEF Range, IsWithout
<1> QED BY <1>3, <1>6, <1>8 DEF r, IsWithout

\* Without one of its elements, a list of distinct ones closes the gap.
LEMMA WithoutOne ==
  ASSUME NEW V, NEW list \in Seq(V), Distinct(list), NEW k \in 1..Len(list)
  PROVE  /\ Without(list, {list[k]}) \in Seq(V) /\ Len(Without(list, {list[k]})) = Len(list) - 1
         /\ \A j \in 1..(Len(list) - 1) :
              Without(list, {list[k]})[j] = IF j < k THEN list[j] ELSE list[j + 1]
<1> DEFINE n == Len(list)
           S == {list[k]}
           g == CHOOSE f : IsKept(f, list, S, n)
           IsLeft(l, i) == /\ l \in Seq(V) /\ Len(l) = (IF i < k THEN i ELSE i - 1)
                           /\ \A j \in 1..Len(l) : l[j] = IF j < k THEN list[j] ELSE list[j + 1]
           Good == { i \in Nat : i <= n => IsLeft(g[i], i) }
<1>1. n \in Nat /\ k \in 1..n /\ \A i \in 1..n : list[i] \in V /\ (list[i] \in S <=> i = k)
  BY DEF Distinct
<1>2. IsKept(g, list, S, n)
  BY <1>1, KeptExists
<1>3. Without(list, S) = g[n]
  BY DEF Without, IsKept
<1> HIDE DEF g, S
<1>4. ASSUME NEW i \in Nat, \A m \in 0..(i - 1) : m \in Good
      PROVE  i \in Good
  <2>1. CASE i = 0
    <3>1. g[0] = <<>>
      BY <1>1, <1>2 DEF IsKept
    <3>2. IsLeft(<<>>, 0)
      BY <1>1
    <3> QED BY <2>1, <3>1, <3>2
  <2>2. CASE i # 0 /\ i <= n
    <3> DEFINE h == g[i - 1]
    <3>1. i \in 1..n /\ i - 1 <= n /\ i - 1 \in 0..(i - 1)
      BY <1>1, <2>2
    <3>2. IsLeft(h, i - 1)
      BY <1>4, <3>1
    <3>3. g[i] = IF list[i] \in S THEN h ELSE Append(h, list[i])
      <4>1. i \in 0..n
        BY <1>1, <3>1
      <4> HIDE DEF n
      <4> QED BY <1>2, <2>2, <4>1 DEF IsKept
    <3> HIDE DEF h, n
    <3>4. CASE i = k
      BY <1>1, <3>1, <3>2, <3>3, <3>4
    <3>5. CASE i # k
      <4>1. g[i] = Append(h, list[i]) /\ list[i] \in V
        BY <1>1, <3>1, <3>3, <3>5
      <4>2. /\ Append(h, list[i]) \in Seq(V) /\ Len(Append(h, list[i])) = Len(h) + 1
            /\ \A j \in 1..(Len(h) + 1) :
                 Append(h, list[i])[j] = IF j = Len(h) + 1 THEN list[i] ELSE h[j]
        BY <3>2, <4>1
      <4>3. Len(h) = (IF i - 1 < k THEN i - 1 ELSE (i - 1) - 1)
        BY <3>2
      <4> DEFINE a == Append(h, list[i])
      <4> HIDE DEF a
      <4>4. Len(a) = (IF i < k THEN i ELSE i - 1)
        BY <1>1, <3>1, <3>5, <4>2, <4>3 DEF a
      <4>5. ASSUME NEW j \in 1..Len(a)
            PROVE  a[j] = IF j < k THEN list[j] ELSE list[j + 1]
        <5>1. CASE j = Len(h) + 1
          BY <1>1, <3>1, <3>5, <4>2, <4>3, <4>4, <5>1 DEF a
        <5>2. CASE j # Len(h) + 1
          BY <1>1, <3>1, <3>2, <3>5, <4>2, <4>3, <4>4, <5>2 DEF a
        <5> QED BY <5>1, <5>2
      <4>6. IsLeft(a, i)
        BY <4>2, <4>4, <4>5 DEF a
      <4> QED BY <4>1, <4>6 DEF a
    <3> QED BY <3>4, <3>5
  <2> QED BY <2>1, <2>2
<1>5. Nat \subseteq Good
  <2> HIDE DEF Good
  <2> QED BY <1>4, NaturalInduction
<1> DEFINE r == g[n]
<1>6. IsLeft(r, n)
  BY <1>1, <1>5
<1> HIDE DEF r
<1>7. Len(r) = n - 1
  BY <1>1, <1>6
<1> QED BY <1>3, <1>6, <1>7 DEF r, S

\* Where the elements are after an insertion.
LEMMA InsertedAt ==
  ASSUME NEW V, NEW list \in Seq(V), NEW v \in V, NEW i \in 1..(Len(list) + 1)
  PROVE  /\ InsertAt(list, i, v) \in Seq(V) /\ Len(InsertAt(list, i, v)) = Len(list) + 1
         /\ DOMAIN InsertAt(list, i, v) = 1..(Len(list) + 1)
         /\ \A j \in 1..(Len(list) + 1) :
              InsertAt(list, i, v)[j]
                = IF j < i THEN list[j] ELSE IF j = i THEN v ELSE list[j - 1]
<1> DEFINE r == InsertAt(list, i, v)
           a == SubSeq(list, 1, i - 1)
           b == SubSeq(list, i, Len(list))
<1>1. Len(list) \in Nat /\ \A j \in 1..Len(list) : list[j] \in V
  OBVIOUS
<1>2. /\ a \in Seq(V) /\ Len(a) = i - 1
      /\ \A j \in 1..(i - 1) : a[j] = list[j]
  BY <1>1, SubSeqProperties
<1>3. /\ b \in Seq(V) /\ Len(b) = Len(list) - i + 1
      /\ \A j \in 1..(Len(list) - i + 1) : b[j] = list[i + j - 1]
  BY <1>1, SubSeqProperties
<1>4. r = (a \o <<v>>) \o b
  BY DEF InsertAt
<1> HIDE DEF a, b, r
<1>5. /\ a \o <<v>> \in Seq(V) /\ Len(a \o <<v>>) = i
      /\ \A j \in 1..i : (a \o <<v>>)[j] = IF j = i THEN v ELSE list[j]
  BY <1>2
<1>6. /\ r \in Seq(V) /\ Len(r) = Len(list) + 1 /\ DOMAIN r = 1..(Len(list) + 1)
      /\ \A j \in 1..(Len(list) + 1) :
           r[j] = IF j < i THEN list[j] ELSE IF j = i THEN v ELSE list[j - 1]
  BY <1>1, <1>3, <1>4, <1>5
<1> QED BY <1>6 DEF r

\* An insertion adds its vault.
LEMMA InsertProperties ==
  ASSUME NEW V, NEW list \in Seq(V), NEW v \in V, NEW i \in 1..(Len(list) + 1)
  PROVE  /\ InsertAt(list, i, v) \in Seq(V)
         /\ Range(InsertAt(list, i, v)) = Range(list) \cup {v}
         /\ Distinct(list) /\ v \notin Range(list) => Distinct(InsertAt(list, i, v))
<1> DEFINE r == InsertAt(list, i, v)
<1>1. Len(list) \in Nat /\ \A j \in 1..Len(list) : list[j] \in V
  OBVIOUS
<1>2. /\ r \in Seq(V) /\ Len(r) = Len(list) + 1 /\ DOMAIN r = 1..(Len(list) + 1)
      /\ \A j \in 1..(Len(list) + 1) :
           r[j] = IF j < i THEN list[j] ELSE IF j = i THEN v ELSE list[j - 1]
  BY InsertedAt
<1> HIDE DEF r
<1>3. Range(r) \subseteq Range(list) \cup {v}
  BY <1>1, <1>2 DEF Range
<1>4. Range(list) \cup {v} \subseteq Range(r)
  <2>1. v \in Range(r)
    BY <1>1, <1>2 DEF Range
  <2>2. ASSUME NEW j \in 1..Len(list)
        PROVE  list[j] \in Range(r)
    <3>1. CASE j < i
      BY <1>1, <1>2, <3>1 DEF Range
    <3>2. CASE j >= i
      <4>1. r[j + 1] = list[j] /\ j + 1 \in DOMAIN r
        BY <1>1, <1>2, <3>2
      <4> QED BY <4>1 DEF Range
    <3> QED BY <3>1, <3>2
  <2> QED BY <2>1, <2>2 DEF Range
<1>5. ASSUME Distinct(list), v \notin Range(list)
      PROVE  Distinct(r)
  <2> SUFFICES ASSUME NEW k \in 1..Len(r), NEW l \in 1..Len(r), r[k] = r[l]
               PROVE  k = l
    BY DEF Distinct
  <2>1. \A j \in 1..Len(list) : list[j] # v
    BY <1>5 DEF Range
  <2>2. \A j, m \in 1..Len(list) : list[j] = list[m] => j = m
    BY <1>5 DEF Distinct
  <2> DEFINE old(j) == IF j < i THEN j ELSE j - 1
  <2>3. ASSUME NEW j \in 1..Len(r)
        PROVE  IF j = i THEN r[j] = v ELSE old(j) \in 1..Len(list) /\ r[j] = list[old(j)]
    BY <1>1, <1>2
  <2>4. k = i <=> l = i
    BY <2>1, <2>3
  <2>5. k # i => old(k) = old(l)
    BY <2>2, <2>3, <2>4
  <2> QED BY <1>1, <1>2, <2>4, <2>5
<1> QED BY <1>2, <1>3, <1>4, <1>5 DEF r
=============================================================================
