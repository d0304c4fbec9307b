------------------------ MODULE StabilityPoolProofs ------------------------
(***************************************************************************)
(* Proofs about StabilityPool, for any depositors and front ends and any   *)
(* amounts, precision and scale factor: what the depositors and the front  *)
(* ends may claim never exceeds, but for the dust of the error feedback,   *)
(* what the pool holds and what was issued to it.                          *)
(*                                                                         *)
(* Deposits and gains are rounded when they are read, so no sum of them is *)
(* inductive.  The invariants speak of a bound on the exact quotients: a   *)
(* unit 1/n, and for each claim a number x of such units that its stake    *)
(* has not outgrown and a number y of them that its gain has not.          *)
(***************************************************************************)
EXTENDS StabilityPool, DataLemmas

----------------------------------------------------------------------------
\* Arithmetic.  n is the unit, d a stake, p the product now, r the product at its snapshot,
\* sum what a unit of stake has earned since, C the scale factor, D the precision.

\* Both sides of an inequality times a natural number.
LEMMA TimesMonotone ==
  ASSUME NEW a \in Int, NEW b \in Int, NEW k \in Nat, a <= b
  PROVE  k * a <= k * b
OBVIOUS

\* A common factor does not matter to an inequality.
LEMMA TimesCancels ==
  ASSUME NEW a \in Int, NEW b \in Int, NEW k \in Nat \ {0}, k * a <= k * b
  PROVE  a <= b
<1> SUFFICES ASSUME b + 1 <= a PROVE FALSE
  OBVIOUS
<1>1. k * (b + 1) <= k * a
  BY TimesMonotone
<1>2. k * (b + 1) = k * b + k /\ k * b \in Int /\ k * a \in Int
  OBVIOUS
<1> QED BY <1>1, <1>2

\* Products of natural numbers are natural.
LEMMA ProductNat ==
  ASSUME NEW a \in Nat, NEW b \in Nat
  PROVE  a * b \in Nat
OBVIOUS

\* A rounded quotient never exceeds the exact one.
LEMMA Quotient ==
  ASSUME NEW a \in Nat, NEW b \in Nat \ {0}
  PROVE  a \div b \in Nat /\ b * (a \div b) <= a
OBVIOUS

\* What is bounded in units of 1/b is bounded by the rounded quotient.
LEMMA QuotientBounds ==
  ASSUME NEW a \in Int, NEW c \in Int, NEW e \in Nat, NEW b \in Nat \ {0}, b * a <= b * c + e
  PROVE  a <= c + e \div b
<1> DEFINE q == e \div b
<1>1. q \in Nat /\ e < b * (q + 1)
  OBVIOUS
<1> HIDE DEF q
<1> SUFFICES ASSUME c + q + 1 <= a PROVE FALSE
  BY <1>1 DEF q
<1>2. b * (c + q + 1) <= b * a
  BY <1>1, TimesMonotone
<1>3. b * (c + q + 1) = b * c + b * (q + 1) /\ b * c \in Int /\ b * (q + 1) \in Int /\ b * a \in Int
  BY <1>1
<1> QED BY <1>1, <1>2, <1>3

\* A stake without a change of scale is at most its bound.
LEMMA RemainingInScale ==
  ASSUME NEW n \in Nat \ {0}, NEW d \in Nat, NEW p \in Nat, NEW x \in Nat, NEW r \in Nat \ {0},
         n * (d * p) <= x * r
  PROVE  (d * p) \div r \in Nat /\ n * ((d * p) \div r) <= x
<1> DEFINE q == (d * p) \div r
<1>1. q \in Nat /\ r * q <= d * p
  BY Quotient, ProductNat
<1> HIDE DEF q
<1>2. n * (r * q) <= n * (d * p)
  BY <1>1, TimesMonotone
<1>3. r * (n * q) <= r * x
  <2>1. n * (r * q) = r * (n * q) /\ x * r = r * x /\ r * (n * q) \in Int /\ r * x \in Int
        /\ n * (d * p) \in Int
    BY <1>1
  <2> QED BY <1>2, <2>1
<1>4. n * q <= x
  <2>1. n * q \in Int
    BY <1>1
  <2> QED BY <1>3, <2>1, TimesCancels
<1> QED BY <1>1, <1>4 DEF q

\* One change of scale later the quotient is divided once more.
LEMMA RemainingOneScaleLater ==
  ASSUME NEW n \in Nat \ {0}, NEW d \in Nat, NEW p \in Nat, NEW x \in Nat, NEW r \in Nat \ {0},
         NEW C \in Nat \ {0}, n * (d * p) <= (x * r) * C
  PROVE  ((d * p) \div r) \div C \in Nat /\ n * (((d * p) \div r) \div C) <= x
<1> DEFINE q == (d * p) \div r
           t == q \div C
<1>1. q \in Nat /\ r * q <= d * p
  BY Quotient, ProductNat
<1> HIDE DEF q
<1>2. t \in Nat /\ C * t <= q
  BY <1>1, Quotient
<1> HIDE DEF t
<1>3. (n * r) * (C * t) <= (n * r) * q
  BY <1>1, <1>2, TimesMonotone, ProductNat
<1>4. n * (r * q) <= n * (d * p)
  BY <1>1, TimesMonotone
<1>5. (r * C) * (n * t) <= (r * C) * x
  <2>1. /\ (n * r) * (C * t) = (r * C) * (n * t) /\ (x * r) * C = (r * C) * x
        /\ (n * r) * q = n * (r * q)
        /\ (r * C) * (n * t) \in Int /\ (r * C) * x \in Int /\ n * (d * p) \in Int /\ n * (r * q) \in Int
    BY <1>1, <1>2
  <2> QED BY <1>3, <1>4, <2>1
<1>6. n * t <= x
  <2>1. n * t \in Int /\ r * C \in Nat \ {0}
    BY <1>2
  <2> QED BY <1>5, <2>1, TimesCancels
<1> QED BY <1>2, <1>6 DEF q, t

\* A gain is at most its bound.
LEMMA GainIsBounded ==
  ASSUME NEW n \in Nat \ {0}, NEW d \in Nat, NEW first \in Nat, NEW second \in Nat, NEW y \in Nat,
         NEW r \in Nat \ {0}, NEW C \in Nat \ {0}, NEW D \in Nat \ {0},
         n * (d * (first * C + second)) <= ((y * r) * D) * C
  PROVE  /\ ((d * (first + second \div C)) \div r) \div D \in Nat
         /\ n * (((d * (first + second \div C)) \div r) \div D) <= y
<1> DEFINE s == second \div C
           q == (d * (first + s)) \div r
           t == q \div D
<1>1. s \in Nat /\ C * s <= second
  BY Quotient
<1> HIDE DEF s
<1>2. q \in Nat /\ r * q <= d * (first + s)
  <2>1. d * (first + s) \in Nat
    BY <1>1, ProductNat
  <2> QED BY <2>1, Quotient
<1> HIDE DEF q
<1>3. t \in Nat /\ D * t <= q
  BY <1>2, Quotient
<1> HIDE DEF t
<1>4. (d * n) * (C * (first + s)) <= (d * n) * (first * C + second)
  <2>1. C * (first + s) = first * C + C * s /\ first * C \in Int /\ C * s \in Int
    BY <1>1
  <2>2. C * (first + s) <= first * C + second /\ C * (first + s) \in Int /\ first * C + second \in Int
    BY <1>1, <2>1
  <2> QED BY <2>2, TimesMonotone, ProductNat
<1>5. (n * C) * (r * q) <= (n * C) * (d * (first + s))
  <2>1. r * q \in Int /\ d * (first + s) \in Int
    BY <1>1, <1>2
  <2> QED BY <1>2, <2>1, TimesMonotone, ProductNat
<1>6. ((n * C) * r) * (D * t) <= ((n * C) * r) * q
  <2>1. (n * C) * r \in Nat /\ D * t \in Int
    BY <1>3, ProductNat
  <2> QED BY <1>2, <1>3, <2>1, TimesMonotone
<1>7. ((r * D) * C) * (n * t) <= ((r * D) * C) * y
  <2>1. /\ (d * n) * (C * (first + s)) = (n * C) * (d * (first + s))
        /\ (d * n) * (first * C + second) = n * (d * (first * C + second))
        /\ (n * C) * (r * q) = ((n * C) * r) * q
        /\ ((n * C) * r) * (D * t) = ((r * D) * C) * (n * t)
        /\ ((y * r) * D) * C = ((r * D) * C) * y
    BY <1>1, <1>2, <1>3
  <2>2. /\ (n * C) * (d * (first + s)) \in Int /\ n * (d * (first * C + second)) \in Int
        /\ ((n * C) * r) * q \in Int /\ ((r * D) * C) * (n * t) \in Int /\ ((r * D) * C) * y \in Int
    BY <1>1, <1>2, <1>3
  <2> QED BY <1>4, <1>5, <1>6, <2>1, <2>2
<1>8. n * t <= y
  <2>1. n * t \in Int /\ (r * D) * C \in Nat \ {0}
    BY <1>3
  <2> QED BY <1>7, <2>1, TimesCancels
<1> QED BY <1>3, <1>8 DEF s, q, t

\* A reward of u per unit staked, at the scale of the stake's snapshot.
LEMMA RewardInScale ==
  ASSUME NEW n \in Nat, NEW d \in Nat, NEW p \in Nat, NEW r \in Nat, NEW u \in Nat, NEW x \in Nat,
         NEW y \in Nat, NEW sum \in Nat, NEW C \in Nat, NEW D \in Nat,
         n * (d * p) <= x * r, n * (d * sum) <= ((y * r) * D) * C
  PROVE  (n * D) * (d * (sum + (u * p) * C)) <= (((D * y + u * x) * r) * D) * C
<1>1. D * (n * (d * sum)) <= D * (((y * r) * D) * C)
  <2>1. n * (d * sum) \in Int /\ ((y * r) * D) * C \in Int
    OBVIOUS
  <2> QED BY <2>1, TimesMonotone
<1>2. ((D * C) * u) * (n * (d * p)) <= ((D * C) * u) * (x * r)
  <2>1. (D * C) * u \in Nat /\ n * (d * p) \in Int /\ x * r \in Int
    BY ProductNat
  <2> QED BY <2>1, TimesMonotone
<1>3. /\ (n * D) * (d * (sum + (u * p) * C)) = D * (n * (d * sum)) + ((D * C) * u) * (n * (d * p))
      /\ (((D * y + u * x) * r) * D) * C = D * (((y * r) * D) * C) + ((D * C) * u) * (x * r)
  OBVIOUS
<1>4. /\ D * (n * (d * sum)) \in Int /\ ((D * C) * u) * (n * (d * p)) \in Int
      /\ D * (((y * r) * D) * C) \in Int /\ ((D * C) * u) * (x * r) \in Int
  OBVIOUS
<1> QED BY <1>1, <1>2, <1>3, <1>4

\* The same one change of scale later.
LEMMA RewardOneScaleLater ==
  ASSUME NEW n \in Nat, NEW d \in Nat, NEW p \in Nat, NEW r \in Nat, NEW u \in Nat, NEW x \in Nat,
         NEW y \in Nat, NEW sum \in Nat, NEW C \in Nat, NEW D \in Nat,
         n * (d * p) <= (x * r) * C, n * (d * sum) <= ((y * r) * D) * C
  PROVE  (n * D) * (d * (sum + u * p)) <= (((D * y + u * x) * r) * D) * C
<1>1. D * (n * (d * sum)) <= D * (((y * r) * D) * C)
  <2>1. n * (d * sum) \in Int /\ ((y * r) * D) * C \in Int
    OBVIOUS
  <2> QED BY <2>1, TimesMonotone
<1>2. (D * u) * (n * (d * p)) <= (D * u) * ((x * r) * C)
  <2>1. D * u \in Nat /\ n * (d * p) \in Int /\ (x * r) * C \in Int
    BY ProductNat
  <2> QED BY <2>1, TimesMonotone
<1>3. /\ (n * D) * (d * (sum + u * p)) = D * (n * (d * sum)) + (D * u) * (n * (d * p))
      /\ (((D * y + u * x) * r) * D) * C = D * (((y * r) * D) * C) + (D * u) * ((x * r) * C)
  OBVIOUS
<1>4. /\ D * (n * (d * sum)) \in Int /\ (D * u) * (n * (d * p)) \in Int
      /\ D * (((y * r) * D) * C) \in Int /\ (D * u) * ((x * r) * C) \in Int
  OBVIOUS
<1> QED BY <1>1, <1>2, <1>3, <1>4

\* A stake that earns nothing keeps its bound in finer units.
LEMMA RewardElsewhere ==
  ASSUME NEW n \in Nat, NEW d \in Nat, NEW r \in Nat, NEW u \in Nat, NEW x \in Nat,
         NEW y \in Nat, NEW sum \in Nat, NEW C \in Nat, NEW D \in Nat,
         n * (d * sum) <= ((y * r) * D) * C
  PROVE  (n * D) * (d * sum) <= (((D * y + u * x) * r) * D) * C
<1>1. D * (n * (d * sum)) <= D * (((y * r) * D) * C)
  <2>1. n * (d * sum) \in Int /\ ((y * r) * D) * C \in Int
    OBVIOUS
  <2> QED BY <2>1, TimesMonotone
<1>2. ((u * x) * r) * (D * C) \in Nat
  BY ProductNat
<1>3. /\ (n * D) * (d * sum) = D * (n * (d * sum))
      /\ (((D * y + u * x) * r) * D) * C = D * (((y * r) * D) * C) + ((u * x) * r) * (D * C)
  OBVIOUS
<1>4. D * (n * (d * sum)) \in Int /\ D * (((y * r) * D) * C) \in Int
  OBVIOUS
<1> QED BY <1>1, <1>2, <1>3, <1>4

\* What all claims together have earned, once a reward is divided with its error: a is the
\* sum of the stakes' bounds, b that of the gains', W the pool and m its dust in units of 1/D.
LEMMA RewardIsCovered ==
  ASSUME NEW n \in Nat, NEW a \in Nat, NEW b \in Nat, NEW u \in Nat, NEW D \in Nat, NEW W \in Int,
         NEW m \in Nat, NEW e \in Nat, NEW held \in Int, NEW g \in Nat, NEW err \in Int, NEW err2 \in Int,
         NEW dusts \in Int,
         a + n * e <= n * (W + m), D * b + (n * D) * err <= n * (held * (D * D) + dusts),
         u * W = ((g * D + err) - err2) * D
  PROVE  D * (D * b + u * a) + ((n * D) * D) * err2
           <= (n * D) * ((held + g) * (D * D) + (dusts + u * m))
<1>1. D * (D * b + (n * D) * err) <= D * (n * (held * (D * D) + dusts))
  <2>1. D * b + (n * D) * err \in Int /\ n * (held * (D * D) + dusts) \in Int
    OBVIOUS
  <2> QED BY <2>1, TimesMonotone
<1>2. (D * u) * a <= (D * u) * (n * (W + m))
  <2>1. D * u \in Nat /\ n * e \in Nat /\ n * (W + m) \in Int
    BY ProductNat
  <2>2. a <= n * (W + m)
    BY <2>1
  <2> QED BY <2>1, <2>2, TimesMonotone
<1>3. (D * n) * (u * W) = (D * n) * (((g * D + err) - err2) * D)
  OBVIOUS
<1>4. /\ D * (D * b + (n * D) * err) = D * (D * b) + ((n * D) * D) * err
      /\ (D * u) * (n * (W + m)) = (D * n) * (u * W) + (n * D) * (u * m)
      /\ (D * n) * (((g * D + err) - err2) * D)
           = (n * D) * (g * (D * D)) + ((n * D) * D) * err - ((n * D) * D) * err2
      /\ D * (D * b + u * a) = D * (D * b) + (D * u) * a
      /\ (n * D) * ((held + g) * (D * D) + (dusts + u * m))
           = D * (n * (held * (D * D) + dusts)) + (n * D) * (g * (D * D)) + (n * D) * (u * m)
  OBVIOUS
<1>5. /\ D * (D * b) \in Int /\ ((n * D) * D) * err \in Int /\ ((n * D) * D) * err2 \in Int
      /\ (D * u) * a \in Int /\ D * (n * (held * (D * D) + dusts)) \in Int
      /\ (n * D) * (g * (D * D)) \in Int /\ (n * D) * (u * m) \in Int /\ (D * n) * (u * W) \in Int
  OBVIOUS
<1> QED BY <1>1, <1>2, <1>3, <1>4, <1>5

\* The same once a loss is divided with its error, f being what is left of a unit: the
\* correction by the last error e is at most the dust m.
LEMMA LossIsCovered ==
  ASSUME NEW n \in Nat, NEW a \in Nat, NEW D \in Nat, NEW T \in Nat, NEW m \in Nat, NEW m2 \in Nat,
         NEW e \in Nat, NEW e2 \in Nat, NEW debt \in Nat, NEW f \in Nat,
         a + n * e <= n * (T * D + m), e <= m, m <= m2, f <= D,
         \/ f = 0 /\ e2 = 0 /\ debt = T
         \/ f * T + debt * D + e2 = D * T + e
  PROVE  f * a + (n * D) * e2 <= (n * D) * ((T - debt) * D + m2)
<1>1. CASE f = 0 /\ e2 = 0 /\ debt = T
  <2>1. (n * D) * m2 \in Nat
    BY ProductNat
  <2> QED BY <1>1, <2>1
<1>2. CASE f * T + debt * D + e2 = D * T + e
  <2>1. f * (a + n * e) <= f * (n * (T * D + m))
    <3>1. a + n * e \in Int /\ n * (T * D + m) \in Int
      OBVIOUS
    <3> QED BY <3>1, TimesMonotone
  <2>2. (n * (m - e)) * f <= (n * (m - e)) * D
    <3>1. n * (m - e) \in Nat
      BY ProductNat
    <3> QED BY <3>1, TimesMonotone
  <2>3. (n * D) * m <= (n * D) * m2
    BY TimesMonotone, ProductNat
  <2>4. (n * D) * (f * T + debt * D + e2) = (n * D) * (D * T + e)
    BY <1>2
  <2>5. /\ f * (a + n * e) = f * a + f * (n * e)
        /\ f * (n * (T * D + m)) = (n * D) * (f * T) + f * (n * m)
        /\ (n * (m - e)) * f = f * (n * m) - f * (n * e)
        /\ (n * (m - e)) * D = (n * D) * m - (n * D) * e
        /\ (n * D) * (f * T + debt * D + e2)
             = (n * D) * (f * T) + (n * D) * (debt * D) + (n * D) * e2
        /\ (n * D) * (D * T + e) = (n * D) * (D * T) + (n * D) * e
        /\ (n * D) * ((T - debt) * D + m2) = (n * D) * (D * T) - (n * D) * (debt * D) + (n * D) * m2
    OBVIOUS
  <2>6. /\ f * a \in Int /\ f * (n * e) \in Int /\ (n * D) * (f * T) \in Int /\ f * (n * m) \in Int
        /\ (n * D) * m \in Int /\ (n * D) * m2 \in Int /\ (n * D) * e \in Int /\ (n * D) * (D * T) \in Int
        /\ (n * D) * (debt * D) \in Int /\ (n * D) * e2 \in Int
    OBVIOUS
  <2> QED BY <2>1, <2>2, <2>3, <2>4, <2>5, <2>6
<1> QED BY <1>1, <1>2

\* A stake after a loss that leaves the fraction f/D, in finer units: p2 is the product
\* after it, scaled by c (1 or the scale factor).
LEMMA LossInScale ==
  ASSUME NEW n \in Nat, NEW d \in Nat, NEW p \in Nat, NEW p2 \in Nat, NEW x \in Nat, NEW r \in Nat,
         NEW D \in Nat, NEW f \in Nat, NEW c \in Nat, NEW c2 \in Nat,
         n * (d * p) <= (x * r) * c, D * p2 <= (p * f) * c2
  PROVE  (n * D) * (d * p2) <= ((x * f) * r) * (c * c2)
<1>1. (n * d) * (D * p2) <= (n * d) * ((p * f) * c2)
  <2>1. D * p2 \in Int /\ (p * f) * c2 \in Int /\ n * d \in Nat
    BY ProductNat
  <2> QED BY <2>1, TimesMonotone
<1>2. (f * c2) * (n * (d * p)) <= (f * c2) * ((x * r) * c)
  <2>1. n * (d * p) \in Int /\ (x * r) * c \in Int /\ f * c2 \in Nat
    BY ProductNat
  <2> QED BY <2>1, TimesMonotone
<1>3. /\ (n * d) * (D * p2) = (n * D) * (d * p2)
      /\ (n * d) * ((p * f) * c2) = (f * c2) * (n * (d * p))
      /\ (f * c2) * ((x * r) * c) = ((x * f) * r) * (c * c2)
  OBVIOUS
<1>4. /\ (n * D) * (d * p2) \in Int /\ (f * c2) * (n * (d * p)) \in Int
      /\ ((x * f) * r) * (c * c2) \in Int
  OBVIOUS
<1> QED BY <1>1, <1>2, <1>3, <1>4

----------------------------------------------------------------------------
\* Claims and the pool behind them.  A depositor's deposit and a front end's stake are
\* claims of the same form; start is the sum at the snapshot, weight the share of the gain
\* in units of 1/DECIMAL_PRECISION.

Holders == Addresses \X {"deposit", "frontEnd"}

Claim == [stake : Nat, weight : Nat, start : Nat, snap : Snapshot]

\* What an asset (RBTC or MP) is paid from: worth is totalBPDDeposits in units of
\* 1/DECIMAL_PRECISION, held what is left to pay.
Pool == [P : Nat, scale : 0..MaxScale, epoch : 0..MaxEpoch, sums : Sums, worth : Int,
         lossError : Nat, lossDust : Nat, error : Nat, held : Int, dust : Nat]

First(k, q) == q.sums[k.snap.epoch][k.snap.scale] - k.start
Second(k, q) == q.sums[k.snap.epoch][k.snap.scale + 1]

\* What a unit of stake has earned since the snapshot, in units of 1/SCALE_FACTOR.
Earned(k, q) == First(k, q) * SCALE_FACTOR + Second(k, q)

\* The snapshot was taken in this epoch or before, and the sum has not fallen since.
SnapshotIsPast(k, q) ==
  /\ k.snap.epoch <= q.epoch
  /\ k.snap.epoch = q.epoch => k.snap.scale <= q.scale
  /\ k.snap.scale <= MaxScale
  /\ First(k, q) \in Nat
  /\ k.stake # 0 => k.snap.P # 0

AreClaims(c, q) == c \in [Holders -> Claim] /\ \A h \in Holders : SnapshotIsPast(c[h], q)

\* The stake of k is at most x/n, its gain at most y/n.
StakeIsBounded(k, q, n, x) ==
  k.snap.epoch = q.epoch =>
    /\ k.snap.scale = q.scale => n * (k.stake * q.P) <= x * k.snap.P
    /\ k.snap.scale + 1 = q.scale => n * (k.stake * q.P) <= (x * k.snap.P) * SCALE_FACTOR

GainIsBoundedBy(k, q, n, y) ==
  n * (k.stake * Earned(k, q)) <= ((y * k.snap.P) * DECIMAL_PRECISION) * SCALE_FACTOR

AreBounds(c, q, n, x, y) ==
  \A h \in Holders : StakeIsBounded(c[h], q, n, x[h]) /\ GainIsBoundedBy(c[h], q, n, y[h])

Weighed(c, x) == [h \in Holders |-> c[h].weight * x[h]]
Weight(c, x) == SumFunctionOnSet(Weighed(c, x), Holders)

\* The stakes with the error of the last loss are in the pool with its dust, the gains with
\* the error of the last reward are in what is held for them.
AreBacked(c, q, n, x, y) ==
  /\ Weight(c, x) + n * q.lossError <= n * (q.worth + q.lossDust)
  /\ DECIMAL_PRECISION * Weight(c, y) + (n * DECIMAL_PRECISION) * q.error
       <= n * (q.held * (DECIMAL_PRECISION * DECIMAL_PRECISION) + q.dust)

AreCovered(c, q) ==
  \E n \in Nat \ {0}, x \in [Holders -> Nat], y \in [Holders -> Nat] :
    AreBounds(c, q, n, x, y) /\ AreBacked(c, q, n, x, y)

\* The holders are finitely many.
LEMMA HoldersAreFinite == IsFiniteSet(Holders)
<1>1. IsFiniteSet({"deposit"} \cup {"frontEnd"})
  BY FS_Singleton, FS_Union
<1>2. {"deposit"} \cup {"frontEnd"} = {"deposit", "frontEnd"}
  OBVIOUS
<1> QED BY <1>1, <1>2, FS_Product, StabilityPoolAssumption DEF Holders

\* The weights make natural numbers of natural bounds.
LEMMA WeightNat ==
  ASSUME NEW c \in [Holders -> Claim], NEW x \in [Holders -> Nat]
  PROVE  Weight(c, x) \in Nat /\ \A h \in Holders : Weighed(c, x)[h] \in Nat
<1>1. \A h \in Holders : c[h].weight \in Nat /\ x[h] \in Nat
  BY DEF Claim
<1>2. \A h \in Holders : Weighed(c, x)[h] \in Nat
  BY <1>1, ProductNat DEF Weighed
<1> QED BY <1>2, HoldersAreFinite, SumNat DEF Weight

\* Multiples and sums of bounds.
LEMMA WeightTimes ==
  ASSUME NEW c \in [Holders -> Claim], NEW x \in [Holders -> Nat], NEW k \in Nat
  PROVE  Weight(c, [h \in Holders |-> k * x[h]]) = k * Weight(c, x)
<1> DEFINE f == Weighed(c, x)
           g == Weighed(c, [h \in Holders |-> k * x[h]])
<1>1. \A h \in Holders : f[h] \in Int /\ g[h] = k * f[h]
  <2> SUFFICES ASSUME NEW h \in Holders PROVE f[h] \in Int /\ g[h] = k * f[h]
    OBVIOUS
  <2>1. c[h].weight \in Nat /\ x[h] \in Nat
    BY DEF Claim
  <2>2. f[h] = c[h].weight * x[h] /\ g[h] = c[h].weight * (k * x[h])
    BY DEF Weighed
  <2> QED BY <2>1, <2>2
<1> HIDE DEF f, g
<1>2. SumFunctionOnSet(g, Holders) = k * SumFunctionOnSet(f, Holders)
  BY <1>1, HoldersAreFinite, SumTimes
<1> QED BY <1>2 DEF f, g, Weight

\* Sums of bounds.
LEMMA WeightPlus ==
  ASSUME NEW c \in [Holders -> Claim], NEW x \in [Holders -> Nat], NEW y \in [Holders -> Nat]
  PROVE  Weight(c, [h \in Holders |-> x[h] + y[h]]) = Weight(c, x) + Weight(c, y)
<1> DEFINE f == Weighed(c, x)
           g == Weighed(c, y)
           s == Weighed(c, [h \in Holders |-> x[h] + y[h]])
<1>1. \A h \in Holders : f[h] \in Int /\ g[h] \in Int /\ s[h] = f[h] + g[h]
  <2> SUFFICES ASSUME NEW h \in Holders PROVE f[h] \in Int /\ g[h] \in Int /\ s[h] = f[h] + g[h]
    OBVIOUS
  <2>1. c[h].weight \in Nat /\ x[h] \in Nat /\ y[h] \in Nat
    BY DEF Claim
  <2>2. f[h] = c[h].weight * x[h] /\ g[h] = c[h].weight * y[h] /\ s[h] = c[h].weight * (x[h] + y[h])
    BY DEF Weighed
  <2> QED BY <2>1, <2>2
<1> HIDE DEF f, g, s
<1>2. SumFunctionOnSet(s, Holders) = SumFunctionOnSet(f, Holders) + SumFunctionOnSet(g, Holders)
  BY <1>1, HoldersAreFinite, SumPlus
<1> QED BY <1>2 DEF f, g, s, Weight

\* A reward of amount, divided with the error of the last one.
PerUnit(q, total, amount) == (amount * DECIMAL_PRECISION + q.error) \div total

Rewarded(q, total, amount) ==
  [P |-> q.P, scale |-> q.scale, epoch |-> q.epoch,
   sums |-> [q.sums EXCEPT ![q.epoch][q.scale] = @ + PerUnit(q, total, amount) * q.P],
   worth |-> q.worth, lossError |-> q.lossError, lossDust |-> q.lossDust,
   error |-> (amount * DECIMAL_PRECISION + q.error) % total,
   held |-> q.held + amount, dust |-> q.dust + PerUnit(q, total, amount) * q.lossDust]

\* The quotient and the remainder of a reward.
LEMMA RewardIsDivided ==
  ASSUME NEW q \in Pool, NEW total \in Nat \ {0}, NEW amount \in Nat
  PROVE  /\ PerUnit(q, total, amount) \in Nat
         /\ Rewarded(q, total, amount).error \in Nat
         /\ PerUnit(q, total, amount) * total
              = (amount * DECIMAL_PRECISION + q.error) - Rewarded(q, total, amount).error
<1> DEFINE numerator == amount * DECIMAL_PRECISION + q.error
<1>1. numerator \in Nat
  BY StabilityPoolAssumption DEF Pool
<1>2. PerUnit(q, total, amount) = numerator \div total /\ Rewarded(q, total, amount).error = numerator % total
  BY DEF PerUnit, Rewarded
<1> HIDE DEF numerator
<1>3. /\ numerator \div total \in Nat /\ numerator % total \in Nat
      /\ (numerator \div total) * total = numerator - (numerator % total)
  BY <1>1
<1> QED BY <1>2, <1>3 DEF numerator

\* A reward leaves a pool, with the sums as they were but for the present one.
LEMMA RewardedPool ==
  ASSUME NEW q \in Pool, NEW total \in Nat \ {0}, NEW amount \in Nat
  PROVE  /\ Rewarded(q, total, amount) \in Pool
         /\ \A e \in 0..MaxEpoch, s \in 0..(MaxScale + 1) :
              Rewarded(q, total, amount).sums[e][s]
                = q.sums[e][s] + (IF e = q.epoch /\ s = q.scale THEN PerUnit(q, total, amount) * q.P ELSE 0)
<1> DEFINE u         == PerUnit(q, total, amount)
           q2        == Rewarded(q, total, amount)
           sums2     == [q.sums EXCEPT ![q.epoch][q.scale] = @ + u * q.P]
<1>1. u \in Nat /\ q2.error \in Nat
  BY RewardIsDivided
<1>2. /\ q2.sums = sums2 /\ q2.held = q.held + amount
      /\ q2.dust = q.dust + u * q.lossDust
      /\ q2.P = q.P /\ q2.scale = q.scale /\ q2.epoch = q.epoch /\ q2.worth = q.worth
      /\ q2.lossError = q.lossError /\ q2.lossDust = q.lossDust
      /\ q2 = [P |-> q2.P, scale |-> q2.scale, epoch |-> q2.epoch, sums |-> q2.sums, worth |-> q2.worth,
               lossError |-> q2.lossError, lossDust |-> q2.lossDust, error |-> q2.error,
               held |-> q2.held, dust |-> q2.dust]
  BY DEF Rewarded
<1> HIDE DEF q2, u
<1>3. u * q.P \in Nat /\ u * q.lossDust \in Nat
  BY <1>1, ProductNat DEF Pool
<1>4. q.sums \in Sums /\ q.scale \in 0..MaxScale /\ q.epoch \in 0..MaxEpoch
      /\ 0..MaxScale \subseteq 0..(MaxScale + 1)
  BY StabilityPoolAssumption DEF Pool
<1>5. /\ sums2 \in Sums
      /\ \A e \in 0..MaxEpoch, s \in 0..(MaxScale + 1) :
           sums2[e][s] = q.sums[e][s] + (IF e = q.epoch /\ s = q.scale THEN u * q.P ELSE 0)
  <2> DEFINE row  == q.sums[q.epoch]
             row2 == [row EXCEPT ![q.scale] = @ + u * q.P]
  <2>1. row \in [0..(MaxScale + 1) -> Nat] /\ q.scale \in 0..(MaxScale + 1)
    BY <1>4 DEF Sums
  <2>2. /\ row2 \in [0..(MaxScale + 1) -> Nat]
        /\ \A s \in 0..(MaxScale + 1) :
             row2[s] = row[s] + (IF s = q.scale THEN u * q.P ELSE 0)
    <3> HIDE DEF row
    <3> QED BY <1>3, <2>1
  <2>3. sums2 = [q.sums EXCEPT ![q.epoch] = row2]
    OBVIOUS
  <2> HIDE DEF sums2, row2
  <2>4. sums2 \in Sums
    BY <1>4, <2>2, <2>3 DEF Sums
  <2>5. \A e \in 0..MaxEpoch : sums2[e] = IF e = q.epoch THEN row2 ELSE q.sums[e]
    BY <1>4, <2>3 DEF Sums
  <2>6. ASSUME NEW e \in 0..MaxEpoch, NEW s \in 0..(MaxScale + 1)
        PROVE  sums2[e][s] = q.sums[e][s] + (IF e = q.epoch /\ s = q.scale THEN u * q.P ELSE 0)
    <3>1. q.sums[e][s] \in Nat
      BY <1>4 DEF Sums
    <3>2. CASE e = q.epoch
      <4>1. sums2[e][s] = row2[s] /\ q.sums[e][s] = row[s]
        BY <2>5, <3>2
      <4> HIDE DEF row
      <4> QED BY <2>2, <3>2, <4>1
    <3>3. CASE e # q.epoch
      <4>1. sums2[e][s] = q.sums[e][s]
        BY <2>5, <3>3
      <4> QED BY <3>1, <3>3, <4>1
    <3> QED BY <3>2, <3>3
  <2> QED BY <2>4, <2>6
<1> HIDE DEF sums2
<1>6. q2 \in Pool
  BY <1>1, <1>2, <1>3, <1>5 DEF Pool
<1>7. \A e \in 0..MaxEpoch, s \in 0..(MaxScale + 1) :
        q2.sums[e][s] = q.sums[e][s] + (IF e = q.epoch /\ s = q.scale THEN u * q.P ELSE 0)
  BY <1>2, <1>5, Zenon
<1> QED BY <1>6, <1>7 DEF u, q2

\* What a claim has earned after a reward.
LEMMA EarnedAfterReward ==
  ASSUME NEW q \in Pool, NEW total \in Nat \ {0}, NEW amount \in Nat, NEW k \in Claim, SnapshotIsPast(k, q)
  PROVE  /\ SnapshotIsPast(k, Rewarded(q, total, amount))
         /\ Earned(k, q) \in Nat
         /\ Earned(k, Rewarded(q, total, amount)) = Earned(k, q) +
              (IF k.snap.epoch # q.epoch THEN 0
               ELSE IF k.snap.scale = q.scale THEN (PerUnit(q, total, amount) * q.P) * SCALE_FACTOR
               ELSE IF k.snap.scale + 1 = q.scale THEN PerUnit(q, total, amount) * q.P ELSE 0)
<1> DEFINE u  == PerUnit(q, total, amount)
           q2 == Rewarded(q, total, amount)
           e  == k.snap.epoch
           s  == k.snap.scale
<1>1. /\ u \in Nat /\ q2 \in Pool /\ q2.epoch = q.epoch /\ q2.scale = q.scale
      /\ \A f \in 0..MaxEpoch, t \in 0..(MaxScale + 1) :
           q2.sums[f][t] = q.sums[f][t] + (IF f = q.epoch /\ t = q.scale THEN u * q.P ELSE 0)
  BY RewardedPool, RewardIsDivided DEF Rewarded
<1>2. e \in 0..MaxEpoch /\ s \in 0..(MaxScale + 1) /\ s + 1 \in 0..(MaxScale + 1) /\ s \in Nat
  BY StabilityPoolAssumption DEF SnapshotIsPast, Claim, Snapshot, Pool
<1>3. /\ q.sums[e][s] \in Nat /\ q.sums[e][s + 1] \in Nat /\ k.start \in Nat
      /\ q.sums[e][s] - k.start \in Nat /\ u * q.P \in Nat /\ SCALE_FACTOR \in Nat
      /\ q.epoch \in Nat /\ q.scale \in Nat
  <2>1. q.sums \in Sums /\ q.P \in Nat /\ q.epoch \in Nat /\ q.scale \in Nat
    BY DEF Pool
  <2>2. q.sums[e][s] \in Nat /\ q.sums[e][s + 1] \in Nat
    BY <1>2, <2>1 DEF Sums
  <2>3. q.sums[e][s] - k.start \in Nat /\ k.start \in Nat
    BY DEF SnapshotIsPast, First, Claim
  <2> QED BY <1>1, <2>1, <2>2, <2>3, ProductNat, StabilityPoolAssumption
<1>4. /\ q2.sums[e][s] = q.sums[e][s] + (IF e = q.epoch /\ s = q.scale THEN u * q.P ELSE 0)
      /\ q2.sums[e][s + 1] = q.sums[e][s + 1] + (IF e = q.epoch /\ s + 1 = q.scale THEN u * q.P ELSE 0)
  BY <1>1, <1>2
<1> HIDE DEF u, q2
<1>5. SnapshotIsPast(k, q2)
  BY <1>1, <1>3, <1>4 DEF SnapshotIsPast, First
<1>6. /\ Earned(k, q) = (q.sums[e][s] - k.start) * SCALE_FACTOR + q.sums[e][s + 1]
      /\ Earned(k, q2) = (q2.sums[e][s] - k.start) * SCALE_FACTOR + q2.sums[e][s + 1]
  BY DEF Earned, First, Second
<1> HIDE DEF e, s, u, q2
<1>7. Earned(k, q) \in Nat
  BY <1>3, <1>6, ProductNat
<1>8. CASE e = q.epoch /\ s = q.scale
  <2>1. q2.sums[e][s] = q.sums[e][s] + u * q.P /\ q2.sums[e][s + 1] = q.sums[e][s + 1]
    BY <1>2, <1>3, <1>4, <1>8
  <2>2. ((q.sums[e][s] + u * q.P) - k.start) * SCALE_FACTOR
          = (q.sums[e][s] - k.start) * SCALE_FACTOR + (u * q.P) * SCALE_FACTOR
    BY <1>3
  <2>3. (q.sums[e][s] - k.start) * SCALE_FACTOR \in Nat /\ (u * q.P) * SCALE_FACTOR \in Nat
    BY <1>3, ProductNat
  <2>4. Earned(k, q2) = Earned(k, q) + (u * q.P) * SCALE_FACTOR
    BY <1>3, <1>6, <2>1, <2>2, <2>3
  <2> QED BY <1>5, <1>7, <1>8, <2>4 DEF e, s, u, q2
<1>9. CASE e = q.epoch /\ s + 1 = q.scale
  <2>1. s # q.scale
    BY <1>2, <1>3, <1>9
  <2>2. q2.sums[e][s] = q.sums[e][s] /\ q2.sums[e][s + 1] = q.sums[e][s + 1] + u * q.P
    BY <1>3, <1>4, <1>9, <2>1
  <2>3. (q.sums[e][s] - k.start) * SCALE_FACTOR \in Nat
    BY <1>3, ProductNat
  <2>4. Earned(k, q2) = Earned(k, q) + u * q.P
    BY <1>3, <1>6, <2>2, <2>3
  <2> QED BY <1>5, <1>7, <1>9, <2>1, <2>4 DEF e, s, u, q2
<1>10. CASE ~(e = q.epoch /\ (s = q.scale \/ s + 1 = q.scale))
  <2>1. Earned(k, q2) = Earned(k, q) + 0
    BY <1>3, <1>4, <1>6, <1>7, <1>10
  <2> QED BY <1>5, <1>7, <1>10, <2>1 DEF e, s, u, q2
<1> QED BY <1>8, <1>9, <1>10

\* Claims stay covered when a reward is shared among them.
LEMMA RewardKeepsCover ==
  ASSUME NEW q \in Pool, NEW c, AreClaims(c, q), AreCovered(c, q), NEW total \in Nat \ {0},
         q.worth = total * DECIMAL_PRECISION, NEW amount \in Nat
  PROVE  AreClaims(c, Rewarded(q, total, amount)) /\ AreCovered(c, Rewarded(q, total, amount))
<1> DEFINE q2 == Rewarded(q, total, amount)
           u  == PerUnit(q, total, amount)
           D  == DECIMAL_PRECISION
           C  == SCALE_FACTOR
<1>1. PICK n \in Nat \ {0}, x \in [Holders -> Nat], y \in [Holders -> Nat] :
        AreBounds(c, q, n, x, y) /\ AreBacked(c, q, n, x, y)
  BY DEF AreCovered
<1> DEFINE n2 == n * D
           x2 == [h \in Holders |-> D * x[h]]
           ux == [h \in Holders |-> u * x[h]]
           Dy == [h \in Holders |-> D * y[h]]
           y2 == [h \in Holders |-> Dy[h] + ux[h]]
<1>2. /\ u \in Nat /\ q2 \in Pool /\ u * total = (amount * D + q.error) - q2.error /\ q2.error \in Nat
      /\ q2.P = q.P /\ q2.scale = q.scale /\ q2.epoch = q.epoch /\ q2.worth = q.worth
      /\ q2.lossError = q.lossError /\ q2.lossDust = q.lossDust
      /\ q2.held = q.held + amount /\ q2.dust = q.dust + u * q.lossDust
  <2>1. u \in Nat /\ q2 \in Pool /\ u * total = (amount * D + q.error) - q2.error
    BY RewardedPool, RewardIsDivided
  <2>2. q2.error \in Nat
    BY <2>1 DEF Pool
  <2> QED BY <2>1, <2>2 DEF Rewarded
<1>3. D \in Nat \ {0} /\ C \in Nat \ {0}
  BY StabilityPoolAssumption
<1>4. AreClaims(c, q2)
  BY EarnedAfterReward DEF AreClaims
<1>5. n2 \in Nat \ {0} /\ x2 \in [Holders -> Nat] /\ y2 \in [Holders -> Nat]
      /\ ux \in [Holders -> Nat] /\ Dy \in [Holders -> Nat]
  BY <1>2, <1>3, ProductNat
<1>6. AreBounds(c, q2, n2, x2, y2)
  <2> SUFFICES ASSUME NEW h \in Holders
               PROVE  StakeIsBounded(c[h], q2, n2, x2[h]) /\ GainIsBoundedBy(c[h], q2, n2, y2[h])
    BY DEF AreBounds
  <2> DEFINE k == c[h]
             d == k.stake
             r == k.snap.P
             p == q.P
             a == x[h]
             b == y[h]
             sum == Earned(k, q)
  <2>1. /\ d \in Nat /\ r \in Nat /\ p \in Nat /\ a \in Nat /\ b \in Nat /\ k \in Claim
        /\ SnapshotIsPast(k, q)
    BY DEF AreClaims, Claim, Snapshot, Pool
  <2>2. /\ sum \in Nat
        /\ Earned(k, q2) = sum + (IF k.snap.epoch # q.epoch THEN 0
                                  ELSE IF k.snap.scale = q.scale THEN (u * p) * C
                                  ELSE IF k.snap.scale + 1 = q.scale THEN u * p ELSE 0)
    <3> HIDE DEF k, u, p, C, q2
    <3>1. /\ Earned(k, q) \in Nat
          /\ Earned(k, q2) = Earned(k, q) + (IF k.snap.epoch # q.epoch THEN 0
                                  ELSE IF k.snap.scale = q.scale THEN (u * q.P) * SCALE_FACTOR
                                  ELSE IF k.snap.scale + 1 = q.scale THEN u * q.P ELSE 0)
      BY <2>1, EarnedAfterReward DEF u, q2
    <3> QED BY <3>1 DEF p, C
  <2>3. /\ k.snap.epoch = q.epoch /\ k.snap.scale = q.scale => n * (d * p) <= a * r
        /\ k.snap.epoch = q.epoch /\ k.snap.scale + 1 = q.scale => n * (d * p) <= (a * r) * C
        /\ n * (d * sum) <= ((b * r) * D) * C
    BY <1>1 DEF AreBounds, StakeIsBounded, GainIsBoundedBy
  <2>4. x2[h] = D * a /\ y2[h] = D * b + u * a
    OBVIOUS
  <2> HIDE DEF q2, u, D, C, n2, x2, ux, Dy, y2, k, d, r, p, a, b, sum
  <2>5. StakeIsBounded(k, q2, n2, x2[h])
    <3>1. ASSUME n * (d * p) <= a * r PROVE n2 * (d * p) <= (D * a) * r
      <4>1. D * (n * (d * p)) <= D * (a * r)
        <5>1. n * (d * p) \in Int /\ a * r \in Int
          BY <2>1
        <5> QED BY <1>3, <3>1, <5>1, TimesMonotone
      <4> QED BY <1>3, <2>1, <4>1 DEF n2
    <3>2. ASSUME n * (d * p) <= (a * r) * C PROVE n2 * (d * p) <= ((D * a) * r) * C
      <4>1. D * (n * (d * p)) <= D * ((a * r) * C)
        <5>1. n * (d * p) \in Int /\ (a * r) * C \in Int
          BY <1>3, <2>1
        <5> QED BY <1>3, <3>2, <5>1, TimesMonotone
      <4>2. D * (n * (d * p)) = n2 * (d * p) /\ D * ((a * r) * C) = ((D * a) * r) * C
        BY <1>3, <2>1 DEF n2
      <4> QED BY <4>1, <4>2
    <3> QED BY <1>2, <2>3, <2>4, <3>1, <3>2 DEF StakeIsBounded, d, p, r, C
  <2>6. n2 * (d * Earned(k, q2)) <= (((D * b + u * a) * r) * D) * C
    <3>1. CASE k.snap.epoch = q.epoch /\ k.snap.scale = q.scale
      <4>1. Earned(k, q2) = sum + (u * p) * C
        BY <2>2, <3>1
      <4> QED BY <1>2, <1>3, <2>1, <2>2, <2>3, <3>1, <4>1, RewardInScale DEF n2
    <3>2. CASE k.snap.epoch = q.epoch /\ k.snap.scale + 1 = q.scale /\ k.snap.scale # q.scale
      <4>1. Earned(k, q2) = sum + u * p
        BY <2>2, <3>2
      <4> QED BY <1>2, <1>3, <2>1, <2>2, <2>3, <3>2, <4>1, RewardOneScaleLater DEF n2
    <3>3. CASE ~(k.snap.epoch = q.epoch /\ (k.snap.scale = q.scale \/ k.snap.scale + 1 = q.scale))
      <4>1. Earned(k, q2) = sum
        BY <2>2, <3>3
      <4> QED BY <1>2, <1>3, <2>1, <2>2, <2>3, <4>1, RewardElsewhere DEF n2
    <3> QED BY <3>1, <3>2, <3>3
  <2> QED BY <2>4, <2>5, <2>6 DEF GainIsBoundedBy, k, d, r, D, C
<1>7. AreBacked(c, q2, n2, x2, y2)
  <2> DEFINE a == Weight(c, x)
             b == Weight(c, y)
  <2>1. c \in [Holders -> Claim]
    BY DEF AreClaims
  <2>2. a \in Nat /\ b \in Nat
    BY <2>1, WeightNat
  <2>3. Weight(c, x2) = D * a /\ Weight(c, ux) = u * a /\ Weight(c, Dy) = D * b
    BY <1>2, <1>3, <2>1, WeightTimes
  <2>4. Weight(c, y2) = D * b + u * a
    BY <1>5, <2>1, <2>3, WeightPlus
  <2>5. /\ a + n * q.lossError <= n * (q.worth + q.lossDust)
        /\ D * b + (n * D) * q.error <= n * (q.held * (D * D) + q.dust)
    BY <1>1 DEF AreBacked
  <2>6. /\ q.lossError \in Nat /\ q.lossDust \in Nat /\ q.worth \in Int /\ q.held \in Int /\ q.dust \in Nat
        /\ q.error \in Nat
    BY DEF Pool
  <2>7. u * q.worth = ((amount * D + q.error) - q2.error) * D
    BY <1>2, <1>3
  <2> HIDE DEF q2, u, D, C, n2, x2, ux, Dy, y2, a, b
  <2>8. D * (D * b + u * a) + ((n * D) * D) * q2.error
          <= (n * D) * ((q.held + amount) * (D * D) + (q.dust + u * q.lossDust))
    <3>1. n \in Nat /\ D \in Nat /\ q.error \in Int /\ q2.error \in Int /\ q.dust \in Int /\ u \in Nat
      BY <1>2, <1>3, <2>6
    <3> QED BY <2>2, <2>5, <2>6, <2>7, <3>1, RewardIsCovered, Zenon
  <2>9. D * a + (n * D) * q.lossError <= (n * D) * (q.worth + q.lossDust)
    <3>1. D * (a + n * q.lossError) <= D * (n * (q.worth + q.lossDust))
      <4>1. a + n * q.lossError \in Int /\ n * (q.worth + q.lossDust) \in Int
        BY <2>2, <2>6
      <4> QED BY <1>3, <2>5, <4>1, TimesMonotone
    <3>2. /\ D * (a + n * q.lossError) = D * a + (n * D) * q.lossError
          /\ D * (n * (q.worth + q.lossDust)) = (n * D) * (q.worth + q.lossDust)
      BY <1>3, <2>2, <2>6
    <3> QED BY <3>1, <3>2
  <2> QED BY <1>2, <2>3, <2>4, <2>8, <2>9 DEF AreBacked, n2, a, b, D
<1> HIDE DEF q2, n2, x2, y2
<1>8. AreCovered(c, q2)
  BY <1>5, <1>6, <1>7 DEF AreCovered
<1> QED BY <1>4, <1>8 DEF q2

\* A loss leaves f of DECIMAL_PRECISION of each unit of stake, and the product P is rounded down.
LEMMA LossKeepsCover ==
  ASSUME NEW q \in Pool, NEW q2 \in Pool, NEW c, AreClaims(c, q), AreCovered(c, q),
         NEW f \in Nat, f <= DECIMAL_PRECISION, NEW total \in Nat, NEW debt \in Nat,
         q.worth = total * DECIMAL_PRECISION, q2.worth = (total - debt) * DECIMAL_PRECISION,
         q.lossError <= q.lossDust, q.lossDust <= q2.lossDust,
         \/ f = 0 /\ q2.lossError = 0 /\ debt = total
         \/ f * total + debt * DECIMAL_PRECISION + q2.lossError = DECIMAL_PRECISION * total + q.lossError,
         q2.sums = q.sums, q2.error = q.error, q2.held = q.held, q2.dust = q.dust,
         \/ q2.epoch = q.epoch + 1
         \/ /\ q2.epoch = q.epoch /\ q2.scale = q.scale
            /\ DECIMAL_PRECISION * q2.P <= q.P * f
         \/ /\ q2.epoch = q.epoch /\ q2.scale = q.scale + 1
            /\ DECIMAL_PRECISION * q2.P <= (q.P * f) * SCALE_FACTOR
  PROVE  AreClaims(c, q2) /\ AreCovered(c, q2)
<1> DEFINE D  == DECIMAL_PRECISION
           C  == SCALE_FACTOR
<1>1. PICK n \in Nat \ {0}, x \in [Holders -> Nat], y \in [Holders -> Nat] :
        AreBounds(c, q, n, x, y) /\ AreBacked(c, q, n, x, y)
  BY DEF AreCovered
<1> DEFINE n2 == n * D
           x2 == [h \in Holders |-> f * x[h]]
           y2 == [h \in Holders |-> D * y[h]]
<1>2. D \in Nat \ {0} /\ C \in Nat \ {0}
  BY StabilityPoolAssumption
<1>3. n2 \in Nat \ {0} /\ x2 \in [Holders -> Nat] /\ y2 \in [Holders -> Nat]
  BY <1>2, ProductNat
<1>4. q.epoch \in Nat /\ q.scale \in Nat /\ q2.epoch \in Nat /\ q2.scale \in Nat
      /\ q.P \in Nat /\ q2.P \in Nat
  BY DEF Pool
<1>5. ASSUME NEW h \in Holders
      PROVE  /\ c[h].snap.epoch \in Nat /\ c[h].snap.scale \in Nat
             /\ c[h].stake \in Nat /\ c[h].snap.P \in Nat /\ x[h] \in Nat /\ y[h] \in Nat
             /\ SnapshotIsPast(c[h], q)
  BY DEF AreClaims, Claim, Snapshot
<1>6. AreClaims(c, q2)
  <2>1. ASSUME NEW h \in Holders PROVE SnapshotIsPast(c[h], q2)
    BY <1>4, <1>5 DEF SnapshotIsPast, First
  <2> QED BY <2>1 DEF AreClaims
<1>7. AreBounds(c, q2, n2, x2, y2)
  <2> SUFFICES ASSUME NEW h \in Holders
               PROVE  StakeIsBounded(c[h], q2, n2, x2[h]) /\ GainIsBoundedBy(c[h], q2, n2, y2[h])
    BY DEF AreBounds
  <2> DEFINE k == c[h]
             d == k.stake
             r == k.snap.P
             a == x[h]
             b == y[h]
  <2>1. /\ k.snap.epoch = q.epoch /\ k.snap.scale = q.scale => n * (d * q.P) <= a * r
        /\ k.snap.epoch = q.epoch /\ k.snap.scale + 1 = q.scale => n * (d * q.P) <= (a * r) * C
        /\ n * (d * Earned(k, q)) <= ((b * r) * D) * C
    BY <1>1 DEF AreBounds, StakeIsBounded, GainIsBoundedBy
  <2>2. /\ d \in Nat /\ r \in Nat /\ a \in Nat /\ b \in Nat /\ k.snap.epoch \in Nat /\ k.snap.scale \in Nat
        /\ k.snap.epoch <= q.epoch /\ (k.snap.epoch = q.epoch => k.snap.scale <= q.scale)
    BY <1>5 DEF SnapshotIsPast
  <2>3. x2[h] = f * a /\ y2[h] = D * b
    OBVIOUS
  <2>4. Earned(k, q2) = Earned(k, q) /\ Earned(k, q) \in Nat
    <3>1. First(k, q) \in Nat /\ Second(k, q) \in Nat
      <4>1. k.snap.epoch \in 0..MaxEpoch /\ k.snap.scale + 1 \in 0..(MaxScale + 1) /\ q.sums \in Sums
        BY <1>4, <1>5, <2>2, StabilityPoolAssumption DEF SnapshotIsPast, Pool
      <4> HIDE DEF k
      <4> QED BY <1>5, <4>1 DEF SnapshotIsPast, Second, Sums, k
    <3>2. First(k, q2) = First(k, q) /\ Second(k, q2) = Second(k, q)
      BY DEF First, Second
    <3> HIDE DEF k
    <3> QED BY <1>2, <3>1, <3>2, ProductNat DEF Earned
  <2> HIDE DEF D, C, n2, x2, y2, k, d, r, a, b
  <2>5. GainIsBoundedBy(k, q2, n2, y2[h])
    <3> DEFINE sum == Earned(k, q)
    <3>1. n2 * (d * sum) <= (((D * b + 0 * a) * r) * D) * C
      <4> HIDE DEF sum
      <4> QED BY <1>2, <2>1, <2>2, <2>4, RewardElsewhere DEF n2, sum
    <3>2. D * b + 0 * a = D * b
      BY <1>2, <2>2
    <3> HIDE DEF sum
    <3> QED BY <2>3, <2>4, <3>1, <3>2 DEF GainIsBoundedBy, d, r, D, C, sum
  <2>6. StakeIsBounded(k, q2, n2, x2[h])
    <3>1. ASSUME NEW s \in Nat, NEW t \in Nat, n * (d * q.P) <= (a * r) * s, D * q2.P <= (q.P * f) * t
          PROVE  n2 * (d * q2.P) <= ((f * a) * r) * (s * t)
      <4>1. (n * D) * (d * q2.P) <= ((a * f) * r) * (s * t)
        BY <1>2, <1>4, <2>2, <3>1, LossInScale
      <4> QED BY <2>2, <4>1 DEF n2
    <3>2. ASSUME k.snap.epoch = q2.epoch, k.snap.scale = q2.scale
          PROVE  n2 * (d * q2.P) <= (f * a) * r
      <4>1. n * (d * q.P) <= (a * r) * 1 /\ D * q2.P <= (q.P * f) * 1
        <5>1. a * r \in Nat /\ q.P * f \in Nat
          BY <1>4, <2>2, ProductNat
        <5> QED BY <1>4, <2>1, <2>2, <3>2, <5>1 DEF D
      <4>2. n2 * (d * q2.P) <= ((f * a) * r) * (1 * 1)
        BY <3>1, <4>1
      <4>3. ((f * a) * r) * (1 * 1) = (f * a) * r
        BY <2>2
      <4> QED BY <4>2, <4>3
    <3>3. ASSUME k.snap.epoch = q2.epoch, k.snap.scale + 1 = q2.scale
          PROVE  n2 * (d * q2.P) <= ((f * a) * r) * C
      <4>1. a * r \in Nat /\ q.P * f \in Nat /\ (f * a) * r \in Nat
        BY <1>4, <2>2, ProductNat
      <4>2. CASE q2.scale = q.scale /\ q2.epoch = q.epoch
        <5>1. n * (d * q.P) <= (a * r) * C /\ D * q2.P <= (q.P * f) * 1
          BY <1>4, <2>1, <2>2, <3>3, <4>1, <4>2 DEF D
        <5>2. n2 * (d * q2.P) <= ((f * a) * r) * (C * 1)
          BY <1>2, <3>1, <5>1
        <5>3. C * 1 = C
          BY <1>2
        <5> QED BY <5>2, <5>3
      <4>3. CASE q2.scale = q.scale + 1 /\ q2.epoch = q.epoch
        <5>1. n * (d * q.P) <= (a * r) * 1 /\ D * q2.P <= (q.P * f) * C
          BY <1>4, <2>1, <2>2, <3>3, <4>1, <4>3 DEF D, C
        <5>2. n2 * (d * q2.P) <= ((f * a) * r) * (1 * C)
          BY <1>2, <3>1, <5>1
        <5>3. 1 * C = C
          BY <1>2
        <5> QED BY <5>2, <5>3
      <4> QED BY <1>4, <2>2, <3>3, <4>2, <4>3
    <3> QED BY <2>3, <3>2, <3>3 DEF StakeIsBounded, d, r, C
  <2> QED BY <2>5, <2>6 DEF k
<1>8. AreBacked(c, q2, n2, x2, y2)
  <2> DEFINE a == Weight(c, x)
             b == Weight(c, y)
  <2>1. c \in [Holders -> Claim]
    BY DEF AreClaims
  <2>2. a \in Nat /\ b \in Nat
    BY <2>1, WeightNat
  <2>3. Weight(c, x2) = f * a /\ Weight(c, y2) = D * b
    BY <1>2, <2>1, WeightTimes
  <2>4. /\ a + n * q.lossError <= n * (total * D + q.lossDust)
        /\ D * b + (n * D) * q.error <= n * (q.held * (D * D) + q.dust)
    BY <1>1 DEF AreBacked
  <2>5. /\ q.lossError \in Nat /\ q.lossDust \in Nat /\ q.held \in Int /\ q.dust \in Nat
        /\ q.error \in Nat /\ q2.lossError \in Nat /\ q2.lossDust \in Nat
    BY DEF Pool
  <2>6. f <= D /\ (\/ f = 0 /\ q2.lossError = 0 /\ debt = total
                   \/ f * total + debt * D + q2.lossError = D * total + q.lossError)
    OBVIOUS
  <2>7. q2.worth = (total - debt) * D
    OBVIOUS
  <2> HIDE DEF D, C, n2, x2, y2, a, b
  <2>8. f * a + (n * D) * q2.lossError <= (n * D) * ((total - debt) * D + q2.lossDust)
    BY <1>2, <2>2, <2>4, <2>5, <2>6, LossIsCovered
  <2>9. D * (D * b) + (n2 * D) * q.error <= n2 * (q.held * (D * D) + q.dust)
    <3>1. D * (D * b + (n * D) * q.error) <= D * (n * (q.held * (D * D) + q.dust))
      <4>1. D * b + (n * D) * q.error \in Int /\ n * (q.held * (D * D) + q.dust) \in Int
        BY <1>2, <2>2, <2>5
      <4> QED BY <1>2, <2>4, <4>1, TimesMonotone
    <3>2. /\ D * (D * b + (n * D) * q.error) = D * (D * b) + (n2 * D) * q.error
          /\ D * (n * (q.held * (D * D) + q.dust)) = n2 * (q.held * (D * D) + q.dust)
      BY <1>2, <2>2, <2>5 DEF n2
    <3> QED BY <3>1, <3>2
  <2> QED BY <2>3, <2>7, <2>8, <2>9 DEF AreBacked, n2, D
<1> HIDE DEF n2, x2, y2
<1> QED BY <1>3, <1>6, <1>7, <1>8 DEF AreCovered

----------------------------------------------------------------------------
\* What the contract reads of a claim.

\* The stake that the losses have left, as the contract rounds it.
Kept(k, q) ==
  IF k.stake = 0 \/ k.snap.epoch < q.epoch THEN 0
  ELSE CASE k.snap.scale = q.scale     -> (k.stake * q.P) \div k.snap.P
         [] k.snap.scale + 1 = q.scale -> ((k.stake * q.P) \div k.snap.P) \div SCALE_FACTOR
         [] OTHER -> 0

GainOf(k, q) ==
  IF k.stake = 0 THEN 0
  ELSE ((k.stake * (First(k, q) + Second(k, q) \div SCALE_FACTOR)) \div k.snap.P) \div DECIMAL_PRECISION

\* The parts of a claim are natural.
LEMMA ClaimNat ==
  ASSUME NEW q \in Pool, NEW k \in Claim, SnapshotIsPast(k, q)
  PROVE  /\ First(k, q) \in Nat /\ Second(k, q) \in Nat /\ Earned(k, q) \in Nat
         /\ k.stake \in Nat /\ k.snap.P \in Nat /\ k.snap.scale \in Nat /\ k.snap.epoch \in Nat
         /\ k.weight \in Nat /\ q.P \in Nat /\ q.epoch \in Nat /\ q.scale \in Nat
         /\ (k.stake # 0 => k.snap.P \in Nat \ {0})
<1>1. /\ k.stake \in Nat /\ k.snap.P \in Nat /\ k.snap.scale \in Nat /\ k.snap.epoch \in Nat
      /\ k.weight \in Nat
  BY DEF Claim, Snapshot
<1>2. q.P \in Nat /\ q.epoch \in 0..MaxEpoch /\ q.scale \in 0..MaxScale /\ q.sums \in Sums
  BY DEF Pool
<1>3. k.snap.epoch \in 0..MaxEpoch /\ k.snap.scale + 1 \in 0..(MaxScale + 1)
  BY <1>1, <1>2, StabilityPoolAssumption DEF SnapshotIsPast
<1>4. First(k, q) \in Nat /\ Second(k, q) \in Nat
  BY <1>2, <1>3 DEF SnapshotIsPast, Second, Sums
<1>5. Earned(k, q) \in Nat
  BY <1>4, ProductNat, StabilityPoolAssumption DEF Earned
<1>6. k.stake # 0 => k.snap.P \in Nat \ {0}
  BY <1>1 DEF SnapshotIsPast
<1> QED BY <1>1, <1>2, <1>4, <1>5, <1>6

\* Both are natural.
LEMMA KeptNat ==
  ASSUME NEW q \in Pool, NEW k \in Claim, SnapshotIsPast(k, q)
  PROVE  Kept(k, q) \in Nat /\ GainOf(k, q) \in Nat
<1> DEFINE whole == k.stake * q.P
           sum   == First(k, q) + Second(k, q) \div SCALE_FACTOR
<1>1. SCALE_FACTOR \in Nat \ {0} /\ DECIMAL_PRECISION \in Nat \ {0}
  BY StabilityPoolAssumption
<1>2. whole \in Nat /\ sum \in Nat /\ k.stake * sum \in Nat
  <2>1. Second(k, q) \div SCALE_FACTOR \in Nat
    BY <1>1, ClaimNat, Quotient
  <2>2. whole \in Nat /\ sum \in Nat
    BY <2>1, ClaimNat, ProductNat
  <2> HIDE DEF sum
  <2> QED BY <2>2, ClaimNat, ProductNat
<1> HIDE DEF whole, sum
<1>3. CASE k.stake = 0
  BY <1>3 DEF Kept, GainOf
<1>4. CASE k.stake # 0
  <2>1. k.snap.P \in Nat \ {0}
    BY <1>4, ClaimNat
  <2>2. whole \div k.snap.P \in Nat /\ (k.stake * sum) \div k.snap.P \in Nat
    BY <1>2, <2>1, Quotient
  <2>3. /\ (whole \div k.snap.P) \div SCALE_FACTOR \in Nat
        /\ ((k.stake * sum) \div k.snap.P) \div DECIMAL_PRECISION \in Nat
    BY <1>1, <2>2, Quotient
  <2>4. Kept(k, q) \in {0, whole \div k.snap.P, (whole \div k.snap.P) \div SCALE_FACTOR}
    BY ClaimNat DEF Kept, whole
  <2>5. GainOf(k, q) = ((k.stake * sum) \div k.snap.P) \div DECIMAL_PRECISION
    BY <1>4 DEF GainOf, sum
  <2> QED BY <2>2, <2>3, <2>4, <2>5
<1> QED BY <1>3, <1>4

\* What is read is within the bounds.
LEMMA KeptIsBounded ==
  ASSUME NEW q \in Pool, NEW k \in Claim, SnapshotIsPast(k, q), NEW n \in Nat \ {0}, NEW x \in Nat, NEW y \in Nat,
         StakeIsBounded(k, q, n, x), GainIsBoundedBy(k, q, n, y)
  PROVE  n * Kept(k, q) <= x /\ n * GainOf(k, q) <= y
<1>1. SCALE_FACTOR \in Nat \ {0} /\ DECIMAL_PRECISION \in Nat \ {0}
  BY StabilityPoolAssumption
<1>2. CASE k.stake = 0
  <2>1. Kept(k, q) = 0 /\ GainOf(k, q) = 0
    BY <1>2 DEF Kept, GainOf
  <2> QED BY <2>1
<1>3. CASE k.stake # 0
  <2>1. k.snap.P \in Nat \ {0} /\ k.stake \in Nat /\ q.P \in Nat
    BY <1>3, ClaimNat
  <2>2. n * GainOf(k, q) <= y
    <3>1. n * (k.stake * (First(k, q) * SCALE_FACTOR + Second(k, q)))
            <= ((y * k.snap.P) * DECIMAL_PRECISION) * SCALE_FACTOR
      BY DEF GainIsBoundedBy, Earned
    <3>2. First(k, q) \in Nat /\ Second(k, q) \in Nat
      BY ClaimNat
    <3>3. GainOf(k, q)
            = ((k.stake * (First(k, q) + Second(k, q) \div SCALE_FACTOR)) \div k.snap.P) \div DECIMAL_PRECISION
      BY <1>3 DEF GainOf
    <3> QED BY <1>1, <2>1, <3>1, <3>2, <3>3, GainIsBounded
  <2>3. n * Kept(k, q) <= x
    <3>1. CASE k.snap.epoch = q.epoch /\ k.snap.scale = q.scale
      <4>1. n * (k.stake * q.P) <= x * k.snap.P
        BY <3>1 DEF StakeIsBounded
      <4>2. Kept(k, q) = (k.stake * q.P) \div k.snap.P
        BY <1>3, <3>1, ClaimNat DEF Kept
      <4> QED BY <2>1, <4>1, <4>2, RemainingInScale
    <3>2. CASE k.snap.epoch = q.epoch /\ k.snap.scale + 1 = q.scale
      <4>1. n * (k.stake * q.P) <= (x * k.snap.P) * SCALE_FACTOR
        BY <3>2 DEF StakeIsBounded
      <4>2. Kept(k, q) = ((k.stake * q.P) \div k.snap.P) \div SCALE_FACTOR
        BY <1>3, <3>2, ClaimNat DEF Kept
      <4> QED BY <1>1, <2>1, <4>1, <4>2, RemainingOneScaleLater
    <3>3. CASE ~(k.snap.epoch = q.epoch /\ (k.snap.scale = q.scale \/ k.snap.scale + 1 = q.scale))
      <4>1. Kept(k, q) = 0
        BY <3>3, ClaimNat DEF Kept, SnapshotIsPast
      <4> QED BY <4>1
    <3> QED BY <3>1, <3>2, <3>3
  <2> QED BY <2>2, <2>3
<1> QED BY <1>2, <1>3

\* All claims together: their stakes are at most the pool and its dust, their gains at most
\* what is held and its dust.
LEMMA CoverBoundsClaims ==
  ASSUME NEW q \in Pool, NEW c, AreClaims(c, q), AreCovered(c, q)
  PROVE  /\ Weight(c, [h \in Holders |-> Kept(c[h], q)]) <= q.worth + q.lossDust
         /\ DECIMAL_PRECISION * Weight(c, [h \in Holders |-> GainOf(c[h], q)])
              <= q.held * (DECIMAL_PRECISION * DECIMAL_PRECISION) + q.dust
<1> DEFINE D    == DECIMAL_PRECISION
           kept == [h \in Holders |-> Kept(c[h], q)]
           gain == [h \in Holders |-> GainOf(c[h], q)]
<1>1. PICK n \in Nat \ {0}, x \in [Holders -> Nat], y \in [Holders -> Nat] :
        AreBounds(c, q, n, x, y) /\ AreBacked(c, q, n, x, y)
  BY DEF AreCovered
<1> DEFINE nkept == [h \in Holders |-> n * kept[h]]
           ngain == [h \in Holders |-> n * gain[h]]
<1>2. c \in [Holders -> Claim] /\ D \in Nat \ {0}
  BY StabilityPoolAssumption DEF AreClaims
<1>3. kept \in [Holders -> Nat] /\ gain \in [Holders -> Nat]
  BY <1>2, KeptNat DEF AreClaims
<1>4. \A h \in Holders : n * kept[h] <= x[h] /\ n * gain[h] <= y[h]
  <2> SUFFICES ASSUME NEW h \in Holders PROVE n * kept[h] <= x[h] /\ n * gain[h] <= y[h]
    OBVIOUS
  <2>1. c[h] \in Claim /\ SnapshotIsPast(c[h], q) /\ x[h] \in Nat /\ y[h] \in Nat
    BY DEF AreClaims
  <2>2. StakeIsBounded(c[h], q, n, x[h]) /\ GainIsBoundedBy(c[h], q, n, y[h])
    BY <1>1 DEF AreBounds
  <2> QED BY <2>1, <2>2, KeptIsBounded
<1> HIDE DEF kept, gain, D
<1>5. ASSUME NEW a \in [Holders -> Nat], NEW b \in [Holders -> Nat], \A h \in Holders : n * a[h] <= b[h]
      PROVE  Weight(c, a) \in Nat /\ n * Weight(c, a) <= Weight(c, b) /\ Weight(c, b) \in Nat
  <2> DEFINE na == [h \in Holders |-> n * a[h]]
             f  == Weighed(c, na)
             g  == Weighed(c, b)
  <2>1. na \in [Holders -> Nat]
    BY ProductNat
  <2>2. \A h \in Holders : f[h] \in Int /\ g[h] \in Int /\ f[h] <= g[h]
    <3> SUFFICES ASSUME NEW h \in Holders PROVE f[h] \in Int /\ g[h] \in Int /\ f[h] <= g[h]
      OBVIOUS
    <3>1. f[h] = c[h].weight * na[h] /\ g[h] = c[h].weight * b[h]
      BY DEF Weighed
    <3>2. c[h].weight \in Nat /\ na[h] \in Nat /\ b[h] \in Nat /\ na[h] <= b[h]
      BY <1>2, <1>5, <2>1 DEF Claim
    <3> HIDE DEF na, f, g
    <3> QED BY <3>1, <3>2, TimesMonotone
  <2>3. Weight(c, na) = n * Weight(c, a)
    BY <1>2, WeightTimes
  <2> HIDE DEF na, f, g
  <2>4. SumFunctionOnSet(f, Holders) <= SumFunctionOnSet(g, Holders)
    BY <2>2, HoldersAreFinite, SumMonotone
  <2>5. Weight(c, a) \in Nat /\ Weight(c, b) \in Nat
    BY <1>2, WeightNat
  <2> QED BY <2>3, <2>4, <2>5 DEF Weight, f, g
<1>6. /\ Weight(c, kept) \in Nat /\ n * Weight(c, kept) <= Weight(c, x) /\ Weight(c, x) \in Nat
      /\ Weight(c, gain) \in Nat /\ n * Weight(c, gain) <= Weight(c, y) /\ Weight(c, y) \in Nat
  BY <1>3, <1>4, <1>5
<1>7. /\ q.lossError \in Nat /\ q.worth + q.lossDust \in Int /\ q.error \in Nat
      /\ q.held * (D * D) + q.dust \in Int
  BY <1>2 DEF Pool
<1>8. /\ Weight(c, x) + n * q.lossError <= n * (q.worth + q.lossDust)
      /\ D * Weight(c, y) + (n * D) * q.error <= n * (q.held * (D * D) + q.dust)
  BY <1>1 DEF AreBacked, D
<1>9. Weight(c, kept) <= q.worth + q.lossDust
  <2>1. n * q.lossError \in Nat /\ n * (q.worth + q.lossDust) \in Int /\ n * Weight(c, kept) \in Int
    BY <1>6, <1>7, ProductNat
  <2>2. n * Weight(c, kept) <= n * (q.worth + q.lossDust)
    BY <1>6, <1>8, <2>1
  <2> QED BY <1>6, <1>7, <2>2, TimesCancels
<1>10. D * Weight(c, gain) <= q.held * (D * D) + q.dust
  <2>1. D * (n * Weight(c, gain)) <= D * Weight(c, y)
    <3>1. n * Weight(c, gain) \in Int
      BY <1>6
    <3> QED BY <1>2, <1>6, <3>1, TimesMonotone
  <2>2. /\ (n * D) * q.error \in Nat /\ D * Weight(c, y) \in Int /\ D * Weight(c, gain) \in Int
        /\ n * (q.held * (D * D) + q.dust) \in Int
        /\ D * (n * Weight(c, gain)) = n * (D * Weight(c, gain))
        /\ n * (D * Weight(c, gain)) \in Int
    <3>1. n * D \in Nat
      BY <1>2, ProductNat
    <3> QED BY <1>2, <1>6, <1>7, <3>1, ProductNat
  <2>3. n * (D * Weight(c, gain)) <= n * (q.held * (D * D) + q.dust)
    BY <1>8, <2>1, <2>2
  <2> QED BY <1>7, <2>2, <2>3, TimesCancels
<1> QED BY <1>9, <1>10 DEF kept, gain, D

----------------------------------------------------------------------------
\* A claim that is paid and made anew, as every call of a depositor does.

\* The stake counts from now on.
IsFresh(k, q) ==
  k.snap.epoch = q.epoch /\ k.snap.scale = q.scale /\ k.snap.P = q.P /\ Earned(k, q) = 0

\* The pool after a change of its worth and a payment.
Paid(q, change, paid) ==
  [P |-> q.P, scale |-> q.scale, epoch |-> q.epoch, sums |-> q.sums, worth |-> q.worth + change,
   lossError |-> q.lossError, lossDust |-> q.lossDust, error |-> q.error, held |-> q.held - paid,
   dust |-> q.dust]

\* A payment leaves a pool, whose product and sums are as before.
LEMMA PaidPool ==
  ASSUME NEW q \in Pool, NEW change \in Int, NEW paid \in Nat
  PROVE  /\ Paid(q, change, paid) \in Pool
         /\ Paid(q, change, paid).worth = q.worth + change
         /\ Paid(q, change, paid).held = q.held - paid
         /\ Paid(q, change, paid).P = q.P /\ Paid(q, change, paid).scale = q.scale
         /\ Paid(q, change, paid).epoch = q.epoch /\ Paid(q, change, paid).sums = q.sums
         /\ Paid(q, change, paid).lossError = q.lossError /\ Paid(q, change, paid).lossDust = q.lossDust
         /\ Paid(q, change, paid).error = q.error /\ Paid(q, change, paid).dust = q.dust
<1>1. q.worth + change \in Int /\ q.held - paid \in Int
  BY DEF Pool
<1> QED BY <1>1 DEF Paid, Pool

\* The sum of the weighed bounds when one claim and its bound are replaced.
LEMMA WeightOfReplaced ==
  ASSUME NEW c \in [Holders -> Claim], NEW c2 \in [Holders -> Claim], NEW x \in [Holders -> Nat],
         NEW x2 \in [Holders -> Nat], NEW h \in Holders,
         \A i \in Holders \ {h} : c2[i] = c[i] /\ x2[i] = x[i]
  PROVE  Weight(c2, x2) = (Weight(c, x) - c[h].weight * x[h]) + c2[h].weight * x2[h]
<1> DEFINE f == Weighed(c, x)
           g == Weighed(c2, x2)
<1>1. h \in Holders /\ (\A i \in Holders : f[i] \in Int) /\ g[h] \in Int
  BY WeightNat
<1>2. g[h] = c2[h].weight * x2[h] /\ f[h] = c[h].weight * x[h]
  BY DEF Weighed
<1>3. \A i \in Holders \ {h} : g[i] = f[i]
  BY DEF Weighed
<1>4. Weight(c, x) = SumFunctionOnSet(f, Holders) /\ Weight(c2, x2) = SumFunctionOnSet(g, Holders)
  BY DEF Weight
<1> HIDE DEF f, g
<1>5. SumFunctionOnSet(g, Holders) = SumFunctionOnSet(f, Holders) - f[h] + g[h]
  BY ONLY <1>1, <1>3, HoldersAreFinite, SumUpdate
<1>6. Weight(c, x) \in Int /\ f[h] \in Int
  BY <1>1, WeightNat
<1> QED BY <1>1, <1>2, <1>4, <1>5, <1>6

\* Claims stay covered when one is paid and made anew: left is what the contract reads of
\* its stake.
LEMMA ReplaceKeepsCover ==
  ASSUME NEW q \in Pool, NEW c, AreClaims(c, q), AreCovered(c, q), NEW h \in Holders, NEW k \in Claim,
         SnapshotIsPast(k, q), k.stake = 0 \/ IsFresh(k, q),
         NEW left \in Nat, left <= Kept(c[h], q), NEW change \in Int,
         k.weight * k.stake <= c[h].weight * left + change,
         NEW paid \in Nat, DECIMAL_PRECISION * paid <= c[h].weight * GainOf(c[h], q)
  PROVE  /\ AreClaims([c EXCEPT ![h] = k], Paid(q, change, paid))
         /\ AreCovered([c EXCEPT ![h] = k], Paid(q, change, paid))
<1> DEFINE q2 == Paid(q, change, paid)
           c2 == [c EXCEPT ![h] = k]
           D  == DECIMAL_PRECISION
<1>1. PICK n \in Nat \ {0}, x \in [Holders -> Nat], y \in [Holders -> Nat] :
        AreBounds(c, q, n, x, y) /\ AreBacked(c, q, n, x, y)
  BY DEF AreCovered
<1> DEFINE a  == n * k.stake
           x2 == [x EXCEPT ![h] = a]
           y2 == [y EXCEPT ![h] = 0]
<1>2. /\ q2 \in Pool /\ q2.P = q.P /\ q2.scale = q.scale /\ q2.epoch = q.epoch /\ q2.sums = q.sums
      /\ q2.worth = q.worth + change /\ q2.held = q.held - paid
      /\ q2.lossError = q.lossError /\ q2.lossDust = q.lossDust
      /\ q2.error = q.error /\ q2.dust = q.dust
  BY PaidPool
<1>3. c \in [Holders -> Claim] /\ c2 \in [Holders -> Claim] /\ D \in Nat \ {0} /\ k.stake \in Nat
      /\ k.weight \in Nat /\ c[h].weight \in Nat /\ k.snap.P \in Nat /\ k.snap.scale \in Nat
  <2>1. c \in [Holders -> Claim]
    BY DEF AreClaims
  <2> QED BY <2>1, StabilityPoolAssumption DEF Claim, Snapshot
<1>4. a \in Nat /\ x2 \in [Holders -> Nat] /\ y2 \in [Holders -> Nat]
  <2>1. a \in Nat
    BY <1>3, ProductNat
  <2> QED BY <2>1
<1> HIDE DEF q2
<1>5. ASSUME NEW i \in Claim
      PROVE  /\ First(i, q2) = First(i, q) /\ Earned(i, q2) = Earned(i, q)
             /\ SnapshotIsPast(i, q2) = SnapshotIsPast(i, q)
  BY <1>2 DEF First, Second, Earned, SnapshotIsPast
<1>6. AreClaims(c2, q2)
  <2> SUFFICES ASSUME NEW i \in Holders PROVE SnapshotIsPast(c2[i], q2)
    BY <1>3 DEF AreClaims
  <2>1. CASE i = h
    BY <1>3, <1>5, <2>1
  <2>2. CASE i # h
    <3>1. c2[i] = c[i] /\ c[i] \in Claim /\ SnapshotIsPast(c[i], q)
      BY <1>3, <2>2 DEF AreClaims
    <3> QED BY <1>5, <3>1
  <2> QED BY <2>1, <2>2
<1>7. AreBounds(c2, q2, n, x2, y2)
  <2> SUFFICES ASSUME NEW i \in Holders
               PROVE  StakeIsBounded(c2[i], q2, n, x2[i]) /\ GainIsBoundedBy(c2[i], q2, n, y2[i])
    BY DEF AreBounds
  <2>1. CASE i # h
    <3>1. c2[i] = c[i] /\ x2[i] = x[i] /\ y2[i] = y[i] /\ c[i] \in Claim
      BY <1>3, <2>1
    <3>2. StakeIsBounded(c[i], q, n, x[i]) /\ GainIsBoundedBy(c[i], q, n, y[i])
      BY <1>1 DEF AreBounds
    <3>3. Earned(c[i], q2) = Earned(c[i], q)
      BY <1>5, <3>1
    <3> QED BY <1>2, <3>1, <3>2, <3>3 DEF StakeIsBounded, GainIsBoundedBy
  <2>2. CASE i = h
    <3>1. c2[i] = k /\ x2[i] = a /\ y2[i] = 0
      BY <1>3, <2>2
    <3>2. Earned(k, q2) = Earned(k, q) /\ Earned(k, q) \in Nat /\ q.P \in Nat /\ SCALE_FACTOR \in Nat
          /\ q.scale \in Nat
      BY <1>5, ClaimNat, StabilityPoolAssumption
    <3>3. k.stake * Earned(k, q) = 0
      BY <1>3, <3>2 DEF IsFresh
    <3>4. GainIsBoundedBy(k, q2, n, 0)
      <4>1. ((0 * k.snap.P) * D) * SCALE_FACTOR = 0
        BY <1>3, <3>2
      <4>2. n * (k.stake * Earned(k, q2)) = 0
        BY <3>2, <3>3
      <4> QED BY <4>1, <4>2 DEF GainIsBoundedBy
    <3>5. CASE k.stake = 0
      <4>1. n * (k.stake * q2.P) = 0 /\ a * k.snap.P = 0 /\ (a * k.snap.P) * SCALE_FACTOR = 0
        BY <1>2, <1>3, <3>2, <3>5
      <4> QED BY <3>1, <3>4, <4>1 DEF StakeIsBounded
    <3>6. CASE IsFresh(k, q)
      <4>1. n * (k.stake * q2.P) = a * k.snap.P
        BY <1>2, <1>3, <3>2, <3>6 DEF IsFresh
      <4>2. k.snap.scale = q2.scale /\ k.snap.scale + 1 # q2.scale
        BY <1>2, <3>2, <3>6 DEF IsFresh
      <4>3. a * k.snap.P \in Int
        BY <1>3, <1>4
      <4> HIDE DEF a
      <4> QED BY <3>1, <3>4, <4>1, <4>2, <4>3 DEF StakeIsBounded
    <3> QED BY <3>5, <3>6
  <2> QED BY <2>1, <2>2
<1>8. c[h] \in Claim /\ SnapshotIsPast(c[h], q)
  BY DEF AreClaims
<1>9. /\ n * Kept(c[h], q) <= x[h] /\ n * GainOf(c[h], q) <= y[h]
      /\ Kept(c[h], q) \in Nat /\ GainOf(c[h], q) \in Nat /\ x[h] \in Nat /\ y[h] \in Nat
  <2>1. StakeIsBounded(c[h], q, n, x[h]) /\ GainIsBoundedBy(c[h], q, n, y[h])
    BY <1>1 DEF AreBounds
  <2> QED BY <1>8, <2>1, KeptIsBounded, KeptNat
<1>10. AreBacked(c2, q2, n, x2, y2)
  <2> DEFINE w  == c[h].weight
             kept == Kept(c[h], q)
             gain == GainOf(c[h], q)
             A  == Weight(c, x)
             B  == Weight(c, y)
  <2>1. /\ Weight(c2, x2) = (A - w * x[h]) + k.weight * a
        /\ Weight(c2, y2) = (B - w * y[h]) + k.weight * 0
    <3>1. /\ c2[h] = k /\ x2[h] = a /\ y2[h] = 0
          /\ \A i \in Holders \ {h} : c2[i] = c[i] /\ x2[i] = x[i] /\ y2[i] = y[i]
      BY <1>3
    <3> HIDE DEF c2, x2, y2, a
    <3>2. /\ Weight(c2, x2) = (Weight(c, x) - c[h].weight * x[h]) + c2[h].weight * x2[h]
          /\ Weight(c2, y2) = (Weight(c, y) - c[h].weight * y[h]) + c2[h].weight * y2[h]
      BY <1>3, <1>4, <3>1, WeightOfReplaced
    <3> QED BY <3>1, <3>2
  <2>2. A \in Nat /\ B \in Nat
    BY <1>3, WeightNat
  <2>3. /\ A + n * q.lossError <= n * (q.worth + q.lossDust)
        /\ D * B + (n * D) * q.error <= n * (q.held * (D * D) + q.dust)
    BY <1>1 DEF AreBacked
  <2>4. /\ q.lossError \in Nat /\ q.lossDust \in Nat /\ q.worth \in Int /\ q.held \in Int
        /\ q.error \in Nat /\ q.dust \in Nat
    BY DEF Pool
  <2>5. n * k.stake = a /\ k.weight * k.stake <= w * left + change /\ D * paid <= w * gain /\ left <= kept
        /\ n * kept <= x[h] /\ n * gain <= y[h] /\ w \in Nat /\ kept \in Nat /\ gain \in Nat
    BY <1>3, <1>9
  <2> HIDE DEF D, c2, x2, y2, w, kept, gain, A, B, a
  <2>6. w * (n * left) <= w * x[h]
    <3>1. n * left <= n * kept
      BY <2>5, TimesMonotone
    <3>2. n * left \in Int /\ n * kept \in Int /\ n * left <= x[h]
      BY <1>9, <2>5, <3>1
    <3> QED BY <1>9, <2>5, <3>2, TimesMonotone
  <2>7. n * (k.weight * k.stake) <= n * (w * left + change)
    <3>1. k.weight * k.stake \in Int /\ w * left + change \in Int
      BY <1>3, <2>5
    <3> QED BY <2>5, <3>1, TimesMonotone
  <2>8. Weight(c2, x2) + n * q.lossError <= n * ((q.worth + change) + q.lossDust)
    <3>1. /\ k.weight * a = n * (k.weight * k.stake) /\ w * (n * left) = n * (w * left)
          /\ n * (w * left + change) = n * (w * left) + n * change
          /\ n * ((q.worth + change) + q.lossDust) = n * (q.worth + q.lossDust) + n * change
      <4>1. k.weight * (n * k.stake) = n * (k.weight * k.stake)
        BY <1>3
      <4> QED BY <1>3, <2>4, <2>5, <4>1
    <3>2. /\ n * (k.weight * k.stake) \in Int /\ n * (w * left) \in Int /\ n * change \in Int
          /\ n * (q.worth + q.lossDust) \in Int /\ w * x[h] \in Int /\ n * q.lossError \in Int
      BY <1>3, <1>9, <2>4, <2>5
    <3> QED BY <2>1, <2>2, <2>3, <2>6, <2>7, <3>1, <3>2
  <2>9. w * (n * gain) <= w * y[h]
    <3>1. n * gain \in Int
      BY <2>5
    <3> QED BY <1>9, <2>5, <3>1, TimesMonotone
  <2>10. n * (D * paid) <= n * (w * gain)
    <3>1. D * paid \in Int /\ w * gain \in Int
      BY <1>3, <2>5
    <3> QED BY <2>5, <3>1, TimesMonotone
  <2>11. D * (n * (D * paid)) <= D * (w * y[h])
    <3>1. n * (w * gain) = w * (n * gain) /\ n * (D * paid) \in Int /\ w * (n * gain) \in Int /\ w * y[h] \in Int
          /\ D \in Nat
      BY <1>3, <1>9, <2>5
    <3> QED BY <2>9, <2>10, <3>1, TimesMonotone
  <2>12. D * Weight(c2, y2) + (n * D) * q.error <= n * ((q.held - paid) * (D * D) + q.dust)
    <3>1. Weight(c2, y2) = B - w * y[h] /\ w * y[h] \in Int
      BY <1>3, <1>9, <2>1, <2>2, <2>5
    <3>2. D * (B - w * y[h]) = D * B - D * (w * y[h])
      BY <1>3, <2>2, <3>1
    <3>3. n * ((q.held - paid) * (D * D) + q.dust)
            = n * (q.held * (D * D) + q.dust) - D * (n * (D * paid))
      BY <1>3, <2>4
    <3>4. /\ D * B \in Int /\ D * (w * y[h]) \in Int /\ (n * D) * q.error \in Int
          /\ n * (q.held * (D * D) + q.dust) \in Int /\ D * (n * (D * paid)) \in Int
      BY <1>3, <2>2, <2>4, <3>1
    <3> QED BY <2>3, <2>11, <3>1, <3>2, <3>3, <3>4
  <2> QED BY <1>2, <2>8, <2>12 DEF AreBacked, D
<1> HIDE DEF c2, x2, y2
<1>11. AreCovered(c2, q2)
  BY <1>4, <1>7, <1>10 DEF AreCovered
<1> QED BY <1>6, <1>11 DEF c2, q2

----------------------------------------------------------------------------
\* The invariant of the contract's own variables, on which the cover of the claims rests.

\* A snapshot is of this epoch and scale or before, of a product that was not zero, and
\* the sums have not fallen since.
IsPast(stake, snap) ==
  /\ snap.epoch <= currentEpoch
  /\ snap.epoch = currentEpoch => snap.scale <= currentScale
  /\ snap.scale <= MaxScale
  /\ snap.S <= S[snap.epoch][snap.scale] /\ snap.G <= G[snap.epoch][snap.scale]
  /\ stake # 0 => snap.P # 0

SnapshotsArePast ==
  /\ \A u \in Addresses : IsPast(deposits[u].initialValue, depositSnapshots[u])
  /\ \A f \in Tags : IsPast(frontEndStakes[f], frontEndSnapshots[f])

\* No sum of a later epoch or scale has been added to.
FutureIsEmpty ==
  \A e \in 0..MaxEpoch, s \in 0..(MaxScale + 1) :
    e > currentEpoch \/ (e = currentEpoch /\ s > currentScale) => S[e][s] = 0 /\ G[e][s] = 0

\* Only registered front ends tag deposits and have a stake.
TagsAreRegistered ==
  /\ \A u \in Addresses :
       /\ deposits[u].frontEndTag # NoTag => frontEnds[deposits[u].frontEndTag].registered
       /\ deposits[u].initialValue = 0 => deposits[u].frontEndTag = NoTag
  /\ \A f \in Addresses : frontEndStakes[f] # 0 => frontEnds[f].registered

\* The dust is the greatest error of a loss so far.
LossErrorIsDust == lastError.BPDLoss <= dust.loss

PoolInv == TypeOK /\ SnapshotsArePast /\ FutureIsEmpty /\ TagsAreRegistered /\ LossErrorIsDust

----------------------------------------------------------------------------
\* The pools and the claims of a state.

RBTCPool ==
  [P |-> P, scale |-> currentScale, epoch |-> currentEpoch, sums |-> S,
   worth |-> totalBPDDeposits * DECIMAL_PRECISION, lossError |-> lastError.BPDLoss,
   lossDust |-> dust.loss, error |-> lastError.RBTC, held |-> RBTC, dust |-> dust.RBTC]

MPPool ==
  [P |-> P, scale |-> currentScale, epoch |-> currentEpoch, sums |-> G,
   worth |-> totalBPDDeposits * DECIMAL_PRECISION, lossError |-> lastError.BPDLoss,
   lossDust |-> dust.loss, error |-> lastError.MP, held |-> mp.issued - mp.paid, dust |-> dust.MP]

\* The pool of MP between the issuance and the payments of a call.
IssuedPool(issued) ==
  [P |-> P, scale |-> currentScale, epoch |-> currentEpoch, sums |-> GAfter(issued),
   worth |-> totalBPDDeposits * DECIMAL_PRECISION, lossError |-> lastError.BPDLoss,
   lossDust |-> dust.loss, error |-> MPErrorAfter(issued),
   held |-> MPAfter(issued, 0).issued - mp.paid, dust |-> MPDustAfter(issued)]

Kickback(u) ==
  IF deposits[u].frontEndTag = NoTag THEN DECIMAL_PRECISION
  ELSE frontEnds[deposits[u].frontEndTag].kickbackRate

ClaimOf(stake, weight, start, snap) ==
  [stake |-> stake, weight |-> weight, start |-> start, snap |-> snap]

\* Front ends have no share of the RBTC.
RBTCClaims ==
  [h \in Holders |->
     IF h[2] = "deposit"
     THEN ClaimOf(deposits[h[1]].initialValue, DECIMAL_PRECISION, depositSnapshots[h[1]].S,
                  depositSnapshots[h[1]])
     ELSE ClaimOf(0, 0, 0, NoSnapshot)]

MPClaims ==
  [h \in Holders |->
     IF h[2] = "deposit"
     THEN ClaimOf(deposits[h[1]].initialValue, Kickback(h[1]), depositSnapshots[h[1]].G,
                  depositSnapshots[h[1]])
     ELSE ClaimOf(frontEndStakes[h[1]], DECIMAL_PRECISION - frontEnds[h[1]].kickbackRate,
                  frontEndSnapshots[h[1]].G, frontEndSnapshots[h[1]])]

\* The constants of the model as numbers.
LEMMA Constants ==
  /\ DECIMAL_PRECISION \in Nat \ {0} /\ SCALE_FACTOR \in Nat \ {0} /\ Billion \in Nat \ {0}
  /\ MaxScale \in Nat /\ MaxEpoch \in Nat
  /\ 0..MaxScale \subseteq 0..(MaxScale + 1) /\ \A s \in 0..MaxScale : s + 1 \in 0..(MaxScale + 1)
BY StabilityPoolAssumption

\* Both are pools.
LEMMA PoolsOfState ==
  ASSUME TypeOK
  PROVE  RBTCPool \in Pool /\ MPPool \in Pool
<1>1. totalBPDDeposits * DECIMAL_PRECISION \in Int /\ mp.issued - mp.paid \in Int /\ P \in Nat
  BY Constants DEF TypeOK
<1>2. RBTCPool \in Pool
  BY <1>1 DEF TypeOK, RBTCPool, Pool
<1>3. MPPool \in Pool
  BY <1>1 DEF TypeOK, MPPool, Pool
<1> QED BY <1>2, <1>3

\* _triggerMPIssuance is a reward of the MP issued, or nothing.
LEMMA IssuanceIsReward ==
  ASSUME TypeOK, NEW issued \in Nat
  PROVE  /\ IssuedPool(issued) = IF NothingIssued(issued) THEN MPPool
                                 ELSE Rewarded(MPPool, totalBPDDeposits, issued)
         /\ ~NothingIssued(issued) => totalBPDDeposits \in Nat \ {0}
         /\ IssuedPool(issued) \in Pool
<1>1. ~NothingIssued(issued) => totalBPDDeposits \in Nat \ {0}
  BY DEF TypeOK, NothingIssued
<1>2. MPPool \in Pool
  BY PoolsOfState
<1>3. CASE NothingIssued(issued)
  <2>1. IssuedPool(issued) = MPPool
    BY <1>3 DEF IssuedPool, MPPool, GAfter, MPErrorAfter, MPAfter, MPDustAfter
  <2> QED BY <1>1, <1>2, <1>3, <2>1
<1>4. CASE ~NothingIssued(issued)
  <2> DEFINE r == Rewarded(MPPool, totalBPDDeposits, issued)
             u == PerUnit(MPPool, totalBPDDeposits, issued)
  <2>1. u = MPPerUnitStaked(issued)
    BY DEF PerUnit, MPPool, MPPerUnitStaked
  <2>2. /\ GAfter(issued) = [G EXCEPT ![currentEpoch][currentScale] = @ + MPPerUnitStaked(issued) * P]
        /\ MPErrorAfter(issued) = (issued * DECIMAL_PRECISION + lastError.MP) % totalBPDDeposits
        /\ MPAfter(issued, 0).issued = mp.issued + issued
        /\ MPDustAfter(issued) = dust.MP + MPPerUnitStaked(issued) * dust.loss
    BY <1>4 DEF GAfter, MPErrorAfter, MPAfter, MPDustAfter
  <2>3. (mp.issued - mp.paid) + issued = (mp.issued + issued) - mp.paid
    BY DEF TypeOK
  <2>4. IssuedPool(issued) = r
    BY <2>1, <2>2, <2>3 DEF IssuedPool, MPPool, Rewarded
  <2>5. r \in Pool
    BY <1>1, <1>2, <1>4, RewardedPool
  <2> QED BY <1>1, <1>4, <2>4, <2>5
<1> QED BY <1>3, <1>4

\* What an issuance does to the sums G.
LEMMA GAfterIssuance ==
  ASSUME TypeOK, NEW issued \in Nat
  PROVE  /\ GAfter(issued) \in Sums /\ MPErrorAfter(issued) \in Nat /\ MPDustAfter(issued) \in Nat
         /\ MPAfter(issued, 0).issued \in Nat
         /\ \A e \in 0..MaxEpoch, s \in 0..(MaxScale + 1) :
              /\ G[e][s] \in Nat /\ S[e][s] \in Nat /\ G[e][s] <= GAfter(issued)[e][s]
              /\ ~(e = currentEpoch /\ s = currentScale) => GAfter(issued)[e][s] = G[e][s]
<1>1. IssuedPool(issued) \in Pool
  BY IssuanceIsReward
<1>2. GAfter(issued) \in Sums /\ MPErrorAfter(issued) \in Nat /\ MPDustAfter(issued) \in Nat
  BY <1>1 DEF IssuedPool, Pool
<1>3. MPAfter(issued, 0).issued \in Nat
  BY DEF TypeOK, MPAfter
<1>4. ASSUME NEW e \in 0..MaxEpoch, NEW s \in 0..(MaxScale + 1)
      PROVE  G[e][s] \in Nat /\ S[e][s] \in Nat
  BY DEF TypeOK, Sums
<1>5. ASSUME NEW e \in 0..MaxEpoch, NEW s \in 0..(MaxScale + 1)
      PROVE  /\ G[e][s] <= GAfter(issued)[e][s]
             /\ ~(e = currentEpoch /\ s = currentScale) => GAfter(issued)[e][s] = G[e][s]
  <2>1. CASE NothingIssued(issued)
    <3>1. GAfter(issued) = G
      BY <2>1 DEF GAfter
    <3> QED BY <1>4, <3>1
  <2>2. CASE ~NothingIssued(issued)
    <3> DEFINE u == PerUnit(MPPool, totalBPDDeposits, issued)
    <3>1. /\ totalBPDDeposits \in Nat \ {0} /\ MPPool \in Pool
          /\ GAfter(issued) = Rewarded(MPPool, totalBPDDeposits, issued).sums
      <4>1. IssuedPool(issued).sums = GAfter(issued)
        BY DEF IssuedPool
      <4> QED BY <2>2, <4>1, IssuanceIsReward, PoolsOfState
    <3>2. MPPool.sums = G /\ MPPool.epoch = currentEpoch /\ MPPool.scale = currentScale /\ MPPool.P = P
      BY DEF MPPool
    <3>3. GAfter(issued)[e][s]
            = G[e][s] + (IF e = currentEpoch /\ s = currentScale THEN u * P ELSE 0)
      <4>1. Rewarded(MPPool, totalBPDDeposits, issued).sums[e][s]
              = MPPool.sums[e][s]
                  + (IF e = MPPool.epoch /\ s = MPPool.scale THEN u * MPPool.P ELSE 0)
        BY <3>1, RewardedPool
      <4> HIDE DEF u
      <4> QED BY <3>1, <3>2, <4>1
    <3>4. u * P \in Nat
      <4>1. u \in Nat /\ P \in Nat
        BY <3>1, RewardIsDivided DEF TypeOK
      <4> QED BY <4>1, ProductNat
    <3> HIDE DEF u
    <3> QED BY <1>4, <3>3, <3>4
  <2> QED BY <2>1, <2>2
<1> QED BY <1>2, <1>3, <1>4, <1>5

----------------------------------------------------------------------------
\* What the contract reads of a state is what the pools read of its claims.

\* A stake with a snapshot of the past is a claim on either pool.
LEMMA PastIsClaim ==
  ASSUME TypeOK, NEW stake \in Nat, NEW weight \in Nat, NEW snap \in Snapshot, IsPast(stake, snap)
  PROVE  /\ ClaimOf(stake, weight, snap.S, snap) \in Claim
         /\ ClaimOf(stake, weight, snap.G, snap) \in Claim
         /\ SnapshotIsPast(ClaimOf(stake, weight, snap.S, snap), RBTCPool)
         /\ SnapshotIsPast(ClaimOf(stake, weight, snap.G, snap), MPPool)
<1>1. snap.S \in Nat /\ snap.G \in Nat /\ snap.epoch \in Nat /\ snap.scale \in Nat
  BY DEF Snapshot
<1>2. snap.epoch \in 0..MaxEpoch /\ snap.scale \in 0..(MaxScale + 1)
  BY <1>1, Constants DEF IsPast, TypeOK
<1>3. S[snap.epoch][snap.scale] \in Nat /\ G[snap.epoch][snap.scale] \in Nat
  BY <1>2 DEF TypeOK, Sums
<1>4. S[snap.epoch][snap.scale] - snap.S \in Nat /\ G[snap.epoch][snap.scale] - snap.G \in Nat
  BY <1>1, <1>3 DEF IsPast
<1> QED BY <1>1, <1>4 DEF ClaimOf, Claim, SnapshotIsPast, First, RBTCPool, MPPool, IsPast

\* A stake is read as the claim's, or as zero once it is too small.
LEMMA CompoundedIsKept ==
  ASSUME TypeOK, NEW stake \in Nat, NEW weight \in Nat, NEW start \in Nat, NEW snap \in Snapshot, IsPast(stake, snap)
  PROVE  /\ Compounded(stake, snap) \in Nat
         /\ Compounded(stake, snap) <= Kept(ClaimOf(stake, weight, start, snap), RBTCPool)
         /\ Kept(ClaimOf(stake, weight, start, snap), RBTCPool) \in Nat
         /\ \A issued \in Nat : Kept(ClaimOf(stake, weight, start, snap), IssuedPool(issued))
                                  = Kept(ClaimOf(stake, weight, start, snap), RBTCPool)
         /\ Kept(ClaimOf(stake, weight, start, snap), MPPool) = Kept(ClaimOf(stake, weight, start, snap), RBTCPool)
<1> DEFINE k == ClaimOf(stake, weight, start, snap)
           l == ClaimOf(stake, weight, snap.S, snap)
<1>1. Kept(k, RBTCPool) = Remaining(stake, snap) /\ Kept(l, RBTCPool) = Remaining(stake, snap)
  BY DEF Kept, Remaining, ClaimOf, RBTCPool
<1>2. Kept(k, MPPool) = Kept(k, RBTCPool) /\ \A issued \in Nat : Kept(k, IssuedPool(issued)) = Kept(k, RBTCPool)
  BY DEF Kept, RBTCPool, MPPool, IssuedPool
<1>3. Remaining(stake, snap) \in Nat
  <2> HIDE DEF l
  <2>1. l \in Claim /\ SnapshotIsPast(l, RBTCPool) /\ RBTCPool \in Pool
    BY PastIsClaim, PoolsOfState DEF l
  <2> QED BY <1>1, <2>1, KeptNat
<1>4. Compounded(stake, snap) \in {0, Remaining(stake, snap)}
  BY DEF Compounded
<1> QED BY <1>1, <1>2, <1>3, <1>4

\* The gain read with the sums of a pool.
LEMMA GainFromIsGainOf ==
  ASSUME NEW stake, NEW weight, NEW start, NEW snap, NEW q
  PROVE  GainFrom(q.sums, stake, start, snap) = GainOf(ClaimOf(stake, weight, start, snap), q)
BY DEF GainFrom, GainOf, ClaimOf, First, Second

\* The claims of a state are claims on its pools.
LEMMA ClaimsOfState ==
  ASSUME PoolInv
  PROVE  AreClaims(RBTCClaims, RBTCPool) /\ AreClaims(MPClaims, MPPool)
<1>1. TypeOK /\ SnapshotsArePast
  BY DEF PoolInv
<1>2. ASSUME NEW h \in Holders
      PROVE  h[1] \in Addresses /\ h[1] \in Tags /\ h[2] \in {"deposit", "frontEnd"}
  BY DEF Holders, Tags
<1>3. ASSUME NEW h \in Holders, h[2] = "deposit"
      PROVE  /\ RBTCClaims[h] \in Claim /\ SnapshotIsPast(RBTCClaims[h], RBTCPool)
             /\ MPClaims[h] \in Claim /\ SnapshotIsPast(MPClaims[h], MPPool)
  <2> DEFINE u == h[1]
  <2>1. /\ u \in Addresses /\ deposits[u].initialValue \in Nat /\ depositSnapshots[u] \in Snapshot
        /\ deposits[u].frontEndTag \in Tags
        /\ IsPast(deposits[u].initialValue, depositSnapshots[u])
    BY <1>1, <1>2 DEF TypeOK, SnapshotsArePast
  <2>2. Kickback(u) \in Nat /\ DECIMAL_PRECISION \in Nat
    <3>1. deposits[u].frontEndTag # NoTag => frontEnds[deposits[u].frontEndTag].kickbackRate \in Nat
      BY <1>1, <2>1, Constants DEF TypeOK, Tags
    <3> QED BY <3>1, Constants DEF Kickback
  <2>3. /\ RBTCClaims[h] = ClaimOf(deposits[u].initialValue, DECIMAL_PRECISION, depositSnapshots[u].S,
                                   depositSnapshots[u])
        /\ MPClaims[h] = ClaimOf(deposits[u].initialValue, Kickback(u), depositSnapshots[u].G,
                                 depositSnapshots[u])
    BY <1>3 DEF RBTCClaims, MPClaims
  <2> HIDE DEF u
  <2> QED BY <1>1, <2>1, <2>2, <2>3, PastIsClaim
<1>4. ASSUME NEW h \in Holders, h[2] # "deposit"
      PROVE  /\ RBTCClaims[h] \in Claim /\ SnapshotIsPast(RBTCClaims[h], RBTCPool)
             /\ MPClaims[h] \in Claim /\ SnapshotIsPast(MPClaims[h], MPPool)
  <2> DEFINE f == h[1]
  <2>1. /\ f \in Addresses /\ frontEndStakes[f] \in Nat /\ frontEndSnapshots[f] \in Snapshot
        /\ IsPast(frontEndStakes[f], frontEndSnapshots[f])
        /\ DECIMAL_PRECISION - frontEnds[f].kickbackRate \in Nat
    BY <1>1, <1>2, Constants DEF TypeOK, SnapshotsArePast
  <2>2. NoSnapshot \in Snapshot /\ NoSnapshot.S = 0 /\ IsPast(0, NoSnapshot)
    <3>1. currentEpoch \in 0..MaxEpoch /\ currentScale \in 0..MaxScale
      BY <1>1 DEF TypeOK
    <3>2. S[0][0] \in Nat /\ G[0][0] \in Nat
      BY <1>1, Constants DEF TypeOK, Sums
    <3> QED BY <3>1, <3>2, Constants DEF NoSnapshot, Snapshot, IsPast
  <2>3. /\ RBTCClaims[h] = ClaimOf(0, 0, 0, NoSnapshot)
        /\ MPClaims[h] = ClaimOf(frontEndStakes[f], DECIMAL_PRECISION - frontEnds[f].kickbackRate,
                                 frontEndSnapshots[f].G, frontEndSnapshots[f])
    BY <1>4 DEF RBTCClaims, MPClaims
  <2>4. ClaimOf(0, 0, 0, NoSnapshot) \in Claim /\ SnapshotIsPast(ClaimOf(0, 0, 0, NoSnapshot), RBTCPool)
    <3>1. 0 \in Nat
      OBVIOUS
    <3> QED BY <1>1, <2>2, <3>1, PastIsClaim
  <2> HIDE DEF f
  <2> QED BY <1>1, <2>1, <2>3, <2>4, PastIsClaim
<1>5. ASSUME NEW h \in Holders
      PROVE  /\ RBTCClaims[h] \in Claim /\ SnapshotIsPast(RBTCClaims[h], RBTCPool)
             /\ MPClaims[h] \in Claim /\ SnapshotIsPast(MPClaims[h], MPPool)
  BY <1>3, <1>4
<1>6. RBTCClaims = [h \in Holders |-> RBTCClaims[h]] /\ MPClaims = [h \in Holders |-> MPClaims[h]]
  BY DEF RBTCClaims, MPClaims
<1> QED BY <1>5, <1>6 DEF AreClaims

----------------------------------------------------------------------------
\* The invariant of the variables.

\* A call of the depositor u that changes its deposit and the stake of its front end tag
\* by change: what provideToSP, withdrawFromSP and withdrawRBTCGainToVault have in common.
IsCall(u, tag, value, stake, issued, change) ==
  /\ u \in Addresses /\ tag \in Tags /\ value \in Nat /\ stake \in Nat /\ issued \in Nat /\ change \in Int
  /\ tag # NoTag => frontEnds[tag].registered
  /\ deposits[u].initialValue # 0 => tag = deposits[u].frontEndTag
  /\ value = CompoundedBPDDeposit(u) + change
  /\ stake = CompoundedFrontEndStake(tag) + change
  /\ DepositorCall(u, tag, value, stake, issued)
  /\ totalBPDDeposits' = totalBPDDeposits + change /\ totalBPDDeposits' \in Nat

\* The deposits and stakes that the contract reads are natural.
LEMMA CompoundedNat ==
  ASSUME PoolInv
  PROVE  /\ \A u \in Addresses : CompoundedBPDDeposit(u) \in Nat
         /\ \A f \in Tags : CompoundedFrontEndStake(f) \in Nat
<1>1. TypeOK /\ SnapshotsArePast
  BY DEF PoolInv
<1>2. ASSUME NEW stake \in Nat, NEW snap \in Snapshot, IsPast(stake, snap)
      PROVE  Compounded(stake, snap) \in Nat
  <2>1. 0 \in Nat
    OBVIOUS
  <2> QED BY <1>1, <1>2, <2>1, CompoundedIsKept
<1>3. \A u \in Addresses : CompoundedBPDDeposit(u) \in Nat
  BY <1>1, <1>2 DEF TypeOK, SnapshotsArePast, CompoundedBPDDeposit
<1>4. \A f \in Tags : CompoundedFrontEndStake(f) \in Nat
  BY <1>1, <1>2 DEF TypeOK, SnapshotsArePast, CompoundedFrontEndStake
<1> QED BY <1>3, <1>4

\* What the depositors call has that form.
LEMMA DepositorsCalls ==
  ASSUME PoolInv, NEW u \in Addresses, NEW issued \in Issuances,
         \/ \E amount \in Amounts, t \in Tags : ProvideToSP(u, amount, t, issued)
         \/ \E amount \in Amounts \cup {0} : WithdrawFromSP(u, amount, issued)
         \/ WithdrawRBTCGainToVault(u, issued)
  PROVE  \E tag, value, stake, change : IsCall(u, tag, value, stake, issued, change)
<1>1. /\ TypeOK /\ TagsAreRegistered /\ issued \in Nat /\ totalBPDDeposits \in Nat
      /\ CompoundedBPDDeposit(u) \in Nat /\ \A f \in Tags : CompoundedFrontEndStake(f) \in Nat
  BY CompoundedNat, StabilityPoolAssumption DEF PoolInv, TypeOK
<1>2. LET tag == deposits[u].frontEndTag
      IN  tag \in Tags /\ (tag # NoTag => frontEnds[tag].registered)
  BY <1>1 DEF TypeOK, TagsAreRegistered
<1>3. ASSUME NEW amount \in Amounts, NEW t \in Tags, ProvideToSP(u, amount, t, issued)
      PROVE  \E tag, value, stake, change : IsCall(u, tag, value, stake, issued, change)
  <2> DEFINE tag == IF deposits[u].initialValue = 0 THEN t ELSE deposits[u].frontEndTag
  <2>1. amount \in Nat
    BY StabilityPoolAssumption
  <2>2. tag \in Tags /\ (tag # NoTag => frontEnds[tag].registered)
    BY <1>2, <1>3 DEF ProvideToSP, RegisteredFrontEnds
  <2>3. IsCall(u, tag, CompoundedBPDDeposit(u) + amount, CompoundedFrontEndStake(tag) + amount, issued, amount)
    <3>1. DepositorCall(u, tag, CompoundedBPDDeposit(u) + amount, CompoundedFrontEndStake(tag) + amount, issued)
          /\ totalBPDDeposits' = totalBPDDeposits + amount
      BY <1>3 DEF ProvideToSP
    <3>2. deposits[u].initialValue # 0 => tag = deposits[u].frontEndTag
      OBVIOUS
    <3> HIDE DEF tag
    <3> QED BY <1>1, <2>1, <2>2, <3>1, <3>2 DEF IsCall
  <2> QED BY <2>3
<1>4. ASSUME NEW amount \in Amounts \cup {0}, WithdrawFromSP(u, amount, issued)
      PROVE  \E tag, value, stake, change : IsCall(u, tag, value, stake, issued, change)
  <2> DEFINE tag == deposits[u].frontEndTag
             withdrawn == Min({amount, CompoundedBPDDeposit(u)})
  <2>1. amount \in Nat
    BY StabilityPoolAssumption
  <2>2. withdrawn \in {amount, CompoundedBPDDeposit(u)}
        /\ withdrawn <= CompoundedBPDDeposit(u)
    BY <1>1, <2>1 DEF Min
  <2>3. IsCall(u, tag, CompoundedBPDDeposit(u) - withdrawn, CompoundedFrontEndStake(tag) - withdrawn, issued,
               0 - withdrawn)
    <3>1. /\ DepositorCall(u, tag, CompoundedBPDDeposit(u) - withdrawn,
                           CompoundedFrontEndStake(tag) - withdrawn, issued)
          /\ totalBPDDeposits' = totalBPDDeposits - withdrawn
          /\ withdrawn <= CompoundedFrontEndStake(tag) /\ withdrawn <= totalBPDDeposits
      BY <1>4 DEF WithdrawFromSP
    <3>2. tag \in Tags /\ (tag # NoTag => frontEnds[tag].registered)
      BY <1>2
    <3>3. withdrawn \in Nat /\ CompoundedFrontEndStake(tag) \in Nat
      BY <1>1, <2>1, <2>2, <3>2
    <3>4. deposits[u].initialValue # 0 => tag = deposits[u].frontEndTag
      OBVIOUS
    <3> HIDE DEF tag, withdrawn
    <3> QED BY <1>1, <2>2, <3>1, <3>2, <3>3, <3>4 DEF IsCall
  <2> QED BY <2>3
<1>5. ASSUME WithdrawRBTCGainToVault(u, issued)
      PROVE  \E tag, value, stake, change : IsCall(u, tag, value, stake, issued, change)
  <2> DEFINE tag == deposits[u].frontEndTag
  <2>1. IsCall(u, tag, CompoundedBPDDeposit(u), CompoundedFrontEndStake(tag), issued, 0)
    <3>1. /\ DepositorCall(u, tag, CompoundedBPDDeposit(u), CompoundedFrontEndStake(tag), issued)
          /\ totalBPDDeposits' = totalBPDDeposits
      BY <1>5 DEF WithdrawRBTCGainToVault
    <3>2. tag \in Tags /\ (tag # NoTag => frontEnds[tag].registered)
      BY <1>2
    <3>3. deposits[u].initialValue # 0 => tag = deposits[u].frontEndTag
      OBVIOUS
    <3> HIDE DEF tag
    <3> QED BY <1>1, <3>1, <3>2, <3>3 DEF IsCall
  <2> QED BY <2>1
<1> QED BY <1>3, <1>4, <1>5

\* Deposits and front end stakes of a state of the right type.
LEMMA GainNat ==
  ASSUME PoolInv, NEW u \in Addresses
  PROVE  DepositorRBTCGain(u) \in Nat
<1> DEFINE k == ClaimOf(deposits[u].initialValue, 0, depositSnapshots[u].S, depositSnapshots[u])
<1>1. DepositorRBTCGain(u) = GainOf(k, RBTCPool)
  <2>1. RBTCPool.sums = S
    BY DEF RBTCPool
  <2> QED BY <2>1, GainFromIsGainOf DEF DepositorRBTCGain
<1>2. k \in Claim /\ SnapshotIsPast(k, RBTCPool) /\ RBTCPool \in Pool
  <2>1. /\ TypeOK /\ deposits[u].initialValue \in Nat /\ depositSnapshots[u] \in Snapshot /\ 0 \in Nat
        /\ IsPast(deposits[u].initialValue, depositSnapshots[u])
    BY DEF PoolInv, TypeOK, SnapshotsArePast
  <2> QED BY <2>1, PastIsClaim, PoolsOfState
<1> HIDE DEF k
<1> QED BY <1>1, <1>2, KeptNat

\* The claims on the MP are claims on the pool after the issuance.
LEMMA ClaimsAfterIssuance ==
  ASSUME PoolInv, NEW issued \in Nat
  PROVE  AreClaims(MPClaims, IssuedPool(issued))
<1>1. TypeOK /\ AreClaims(MPClaims, MPPool) /\ MPPool \in Pool
  BY ClaimsOfState, PoolsOfState DEF PoolInv
<1>2. CASE NothingIssued(issued)
  BY <1>1, <1>2, IssuanceIsReward
<1>3. CASE ~NothingIssued(issued)
  <2>1. /\ totalBPDDeposits \in Nat \ {0}
        /\ IssuedPool(issued) = Rewarded(MPPool, totalBPDDeposits, issued)
    BY <1>1, <1>3, IssuanceIsReward
  <2> QED BY <1>1, <2>1, EarnedAfterReward DEF AreClaims
<1> QED BY <1>2, <1>3

\* The gains of MP are the weighed gains of the claims, rounded down.
LEMMA MPGainsOfClaims ==
  ASSUME PoolInv, NEW q \in Pool, AreClaims(MPClaims, q), NEW u \in Addresses
  PROVE  /\ <<u, "deposit">> \in Holders /\ <<u, "frontEnd">> \in Holders
         /\ DepositorMPGain(q.sums, u) \in Nat /\ FrontEndMPGain(q.sums, u) \in Nat
         /\ DECIMAL_PRECISION * DepositorMPGain(q.sums, u)
              <= MPClaims[<<u, "deposit">>].weight * GainOf(MPClaims[<<u, "deposit">>], q)
         /\ DECIMAL_PRECISION * FrontEndMPGain(q.sums, u)
              <= MPClaims[<<u, "frontEnd">>].weight * GainOf(MPClaims[<<u, "frontEnd">>], q)
<1> DEFINE d == <<u, "deposit">>
           f == <<u, "frontEnd">>
<1>1. d \in Holders /\ f \in Holders
  BY DEF Holders
<1>2. /\ MPClaims[d] = ClaimOf(deposits[u].initialValue, Kickback(u), depositSnapshots[u].G,
                               depositSnapshots[u])
      /\ MPClaims[f] = ClaimOf(frontEndStakes[u], DECIMAL_PRECISION - frontEnds[u].kickbackRate,
                               frontEndSnapshots[u].G, frontEndSnapshots[u])
  BY <1>1 DEF MPClaims
<1>3. /\ DepositorMPGain(q.sums, u)
           = (MPClaims[d].weight * GainOf(MPClaims[d], q)) \div DECIMAL_PRECISION
      /\ FrontEndMPGain(q.sums, u)
           = (MPClaims[f].weight * GainOf(MPClaims[f], q)) \div DECIMAL_PRECISION
  <2>1. MPClaims[d].weight = Kickback(u)
        /\ MPClaims[f].weight = DECIMAL_PRECISION - frontEnds[u].kickbackRate
    BY <1>2 DEF ClaimOf
  <2>2. /\ GainFrom(q.sums, deposits[u].initialValue, depositSnapshots[u].G, depositSnapshots[u])
             = GainOf(MPClaims[d], q)
        /\ GainFrom(q.sums, frontEndStakes[u], frontEndSnapshots[u].G, frontEndSnapshots[u])
             = GainOf(MPClaims[f], q)
    BY <1>2, GainFromIsGainOf
  <2> QED BY <2>1, <2>2 DEF DepositorMPGain, FrontEndMPGain, Kickback
<1>4. /\ MPClaims[d].weight \in Nat /\ MPClaims[f].weight \in Nat
      /\ GainOf(MPClaims[d], q) \in Nat /\ GainOf(MPClaims[f], q) \in Nat
  <2>1. ASSUME NEW h \in Holders PROVE MPClaims[h].weight \in Nat /\ GainOf(MPClaims[h], q) \in Nat
    <3>1. MPClaims[h] \in Claim /\ SnapshotIsPast(MPClaims[h], q)
      BY DEF AreClaims
    <3>2. MPClaims[h].weight \in Nat
      BY <3>1 DEF Claim
    <3> QED BY <3>1, <3>2, KeptNat
  <2> QED BY <1>1, <2>1
<1>5. /\ MPClaims[d].weight * GainOf(MPClaims[d], q) \in Nat
      /\ MPClaims[f].weight * GainOf(MPClaims[f], q) \in Nat
  BY <1>4, ProductNat
<1> HIDE DEF d, f
<1>6. ASSUME NEW a \in Nat
      PROVE  a \div DECIMAL_PRECISION \in Nat /\ DECIMAL_PRECISION * (a \div DECIMAL_PRECISION) <= a
  BY Constants, Quotient
<1> QED BY <1>1, <1>3, <1>5, <1>6 DEF d, f

\* The sums are of natural numbers.
LEMMA SumsAreNat ==
  ASSUME NEW g \in Sums, NEW e \in 0..MaxEpoch, NEW s \in 0..(MaxScale + 1)
  PROVE  g[e][s] \in Nat
BY DEF Sums

\* The present epoch and scale have a sum, and so have the first ones.
LEMMA ScalesAreIndexes ==
  ASSUME TypeOK
  PROVE  /\ currentEpoch \in 0..MaxEpoch /\ currentScale \in 0..MaxScale
         /\ currentScale \in 0..(MaxScale + 1) /\ currentScale + 1 \in 0..(MaxScale + 1)
         /\ 0 \in 0..MaxEpoch /\ 0 \in 0..(MaxScale + 1)
         /\ currentEpoch \in Nat /\ currentScale \in Nat /\ P \in Nat \ {0}
         /\ S \in Sums /\ G \in Sums
BY Constants DEF TypeOK

\* Snapshots of the past stay so while the epoch, the scale and the sums only grow.
LEMMA PastStaysPast ==
  ASSUME TypeOK, TypeOK', NEW stake, NEW snap \in Snapshot, IsPast(stake, snap),
         currentEpoch <= currentEpoch', currentEpoch' = currentEpoch => currentScale <= currentScale',
         \A e \in 0..MaxEpoch, s \in 0..(MaxScale + 1) : S[e][s] <= S'[e][s] /\ G[e][s] <= G'[e][s]
  PROVE  IsPast(stake, snap)'
<1>1. /\ snap.epoch \in Nat /\ snap.scale \in Nat /\ snap.S \in Nat /\ snap.G \in Nat
      /\ currentEpoch \in 0..MaxEpoch /\ currentScale \in 0..MaxScale
      /\ currentEpoch' \in 0..MaxEpoch /\ currentScale' \in 0..MaxScale
  BY DEF Snapshot, TypeOK
<1>2. snap.epoch \in 0..MaxEpoch /\ snap.scale \in 0..(MaxScale + 1)
      /\ S \in Sums /\ G \in Sums /\ S' \in Sums /\ G' \in Sums
  BY <1>1, Constants DEF IsPast, TypeOK
<1>3. /\ S[snap.epoch][snap.scale] <= S'[snap.epoch][snap.scale]
      /\ G[snap.epoch][snap.scale] <= G'[snap.epoch][snap.scale]
      /\ S[snap.epoch][snap.scale] \in Nat /\ G[snap.epoch][snap.scale] \in Nat
      /\ S'[snap.epoch][snap.scale] \in Nat /\ G'[snap.epoch][snap.scale] \in Nat
  BY <1>2, SumsAreNat
<1> QED BY <1>1, <1>3, Constants DEF IsPast

\* A snapshot taken now.
LEMMA SnapshotOfNow ==
  ASSUME TypeOK, NEW g \in Sums
  PROVE  /\ SnapshotNow(g) \in Snapshot /\ [SnapshotNow(g) EXCEPT !.S = 0] \in Snapshot
         /\ NoSnapshot \in Snapshot
<1>1. S[currentEpoch][currentScale] \in Nat /\ g[currentEpoch][currentScale] \in Nat /\ P \in Nat
      /\ currentEpoch \in Nat /\ currentScale \in Nat
  BY ScalesAreIndexes, SumsAreNat
<1> QED BY <1>1 DEF SnapshotNow, Snapshot, NoSnapshot

\* The calls of depositors keep the invariant.
LEMMA CallKeepsInv ==
  ASSUME PoolInv, NEW u, NEW tag, NEW value, NEW stake, NEW issued, NEW change,
         IsCall(u, tag, value, stake, issued, change)
  PROVE  PoolInv'
<1> DEFINE g == GAfter(issued)
           now == SnapshotNow(g)
<1>1. /\ u \in Addresses /\ tag \in Tags /\ value \in Nat /\ stake \in Nat /\ issued \in Nat /\ change \in Int
      /\ DepositorCall(u, tag, value, stake, issued) /\ totalBPDDeposits' \in Nat
      /\ tag # NoTag => frontEnds[tag].registered
  BY DEF IsCall
<1>2. TypeOK /\ SnapshotsArePast /\ FutureIsEmpty /\ TagsAreRegistered /\ LossErrorIsDust
  BY DEF PoolInv
<1>3. /\ g \in Sums /\ MPErrorAfter(issued) \in Nat /\ MPDustAfter(issued) \in Nat
      /\ MPAfter(issued, 0).issued \in Nat
      /\ \A e \in 0..MaxEpoch, s \in 0..(MaxScale + 1) :
           /\ G[e][s] \in Nat /\ S[e][s] \in Nat /\ G[e][s] <= g[e][s]
           /\ ~(e = currentEpoch /\ s = currentScale) => g[e][s] = G[e][s]
  BY <1>1, <1>2, GAfterIssuance
<1>4. now \in Snapshot /\ [now EXCEPT !.S = 0] \in Snapshot /\ NoSnapshot \in Snapshot
  BY <1>2, <1>3, SnapshotOfNow
<1> HIDE DEF now, g
<1>5. /\ deposits' = [deposits EXCEPT ![u] =
           [initialValue |-> value, frontEndTag |-> IF value = 0 THEN NoTag ELSE tag]]
      /\ depositSnapshots' = [depositSnapshots EXCEPT ![u] = IF value = 0 THEN NoSnapshot ELSE now]
      /\ frontEndStakes' = [frontEndStakes EXCEPT ![tag] = stake]
      /\ frontEndSnapshots' = [frontEndSnapshots EXCEPT ![tag] =
           IF stake = 0 THEN NoSnapshot ELSE [now EXCEPT !.S = 0]]
      /\ G' = g /\ lastError' = [lastError EXCEPT !.MP = MPErrorAfter(issued)]
      /\ dust' = [dust EXCEPT !.MP = MPDustAfter(issued)]
      /\ RBTC' = RBTC - DepositorRBTCGain(u) /\ DepositorRBTCGain(u) <= RBTC
      /\ UNCHANGED <<frontEnds, P, currentScale, currentEpoch, S>>
  BY <1>1 DEF DepositorCall, UpdateSnapshots, productVars, now, g
<1>6. mp' \in [issued : Nat, paid : Nat]
  <2> DEFINE paid == DepositorMPGain(g, u) + (IF tag = NoTag THEN 0 ELSE FrontEndMPGain(g, tag))
  <2>1. paid \in Nat
    <3>1. IssuedPool(issued) \in Pool /\ AreClaims(MPClaims, IssuedPool(issued)) /\ IssuedPool(issued).sums = g
      BY <1>1, <1>2, IssuanceIsReward, ClaimsAfterIssuance DEF IssuedPool, g
    <3>2. \A v \in Addresses : DepositorMPGain(g, v) \in Nat /\ FrontEndMPGain(g, v) \in Nat
      BY <3>1, MPGainsOfClaims
    <3>3. tag # NoTag => tag \in Addresses
      BY <1>1 DEF Tags
    <3> QED BY <1>1, <3>2, <3>3
  <2>2. mp' = MPAfter(issued, paid)
    BY <1>1 DEF DepositorCall, g
  <2> HIDE DEF paid
  <2>3. mp' = [issued |-> MPAfter(issued, 0).issued, paid |-> mp.paid + paid] /\ mp.paid \in Nat
    BY <1>2, <2>2 DEF MPAfter, TypeOK
  <2> QED BY <1>3, <2>1, <2>3
<1>7. TypeOK'
  <2>1. deposits' \in [Addresses -> [initialValue : Nat, frontEndTag : Tags]]
    BY <1>1, <1>2, <1>5 DEF TypeOK, Tags
  <2>2. depositSnapshots' \in [Addresses -> Snapshot]
    BY <1>2, <1>4, <1>5 DEF TypeOK
  <2>3. frontEndStakes' \in [Tags -> Nat] /\ frontEndSnapshots' \in [Tags -> Snapshot]
    BY <1>1, <1>2, <1>4, <1>5 DEF TypeOK
  <2>4. lastError' \in [MP : Nat, RBTC : Nat, BPDLoss : Nat] /\ dust' \in [loss : Nat, RBTC : Nat, MP : Nat]
    BY <1>2, <1>3, <1>5 DEF TypeOK
  <2>5. RBTC' \in Nat
    BY <1>1, <1>2, <1>5, GainNat DEF TypeOK
  <2> QED BY <1>1, <1>2, <1>3, <1>5, <1>6, <2>1, <2>2, <2>3, <2>4, <2>5 DEF TypeOK
<1>8. ASSUME NEW x, NEW snap \in Snapshot, IsPast(x, snap)
      PROVE  IsPast(x, snap)'
  <2>1. /\ currentEpoch \in Nat /\ currentScale \in Nat
        /\ \A e \in 0..MaxEpoch, s \in 0..(MaxScale + 1) : S[e][s] <= S'[e][s] /\ G[e][s] <= G'[e][s]
    BY <1>2, <1>3, <1>5 DEF TypeOK
  <2> QED BY <1>2, <1>5, <1>7, <1>8, <2>1, PastStaysPast
<1>9. PICK k \in Snapshot, l \in Snapshot : k = now /\ l = [now EXCEPT !.S = 0]
  BY <1>4
<1>10. IsPast(value, k)' /\ IsPast(stake, l)' /\ IsPast(0, NoSnapshot)'
  <2>1. /\ currentEpoch \in 0..MaxEpoch /\ currentScale \in 0..MaxScale /\ P \in Nat \ {0}
        /\ S[currentEpoch][currentScale] \in Nat /\ g[currentEpoch][currentScale] \in Nat
        /\ S[0][0] \in Nat /\ g[0][0] \in Nat
    BY <1>2, <1>3, ScalesAreIndexes, SumsAreNat
  <2>2. /\ k.epoch = currentEpoch /\ k.scale = currentScale /\ k.P = P
        /\ k.S = S[currentEpoch][currentScale] /\ k.G = g[currentEpoch][currentScale]
        /\ l.epoch = currentEpoch /\ l.scale = currentScale /\ l.P = P
        /\ l.S = 0 /\ l.G = g[currentEpoch][currentScale]
    BY <1>9 DEF now, SnapshotNow
  <2>3. IsPast(value, k)' /\ IsPast(stake, l)'
    BY <1>5, <2>1, <2>2 DEF IsPast
  <2>4. IsPast(0, NoSnapshot)'
    BY <1>5, <2>1, Constants DEF IsPast, NoSnapshot
  <2> QED BY <2>3, <2>4
<1>11. SnapshotsArePast'
  <2>1. ASSUME NEW v \in Addresses PROVE IsPast(deposits[v].initialValue, depositSnapshots[v])'
    <3>1. CASE v = u
      <4>1. deposits'[v].initialValue = value
            /\ depositSnapshots'[v] = IF value = 0 THEN NoSnapshot ELSE k
        BY <1>1, <1>2, <1>5, <1>9, <3>1 DEF TypeOK
      <4>2. CASE value = 0
        BY <1>10, <4>1, <4>2 DEF IsPast
      <4>3. CASE value # 0
        BY <1>10, <4>1, <4>3 DEF IsPast
      <4> QED BY <4>2, <4>3
    <3>2. CASE v # u
      <4>1. deposits'[v] = deposits[v] /\ depositSnapshots'[v] = depositSnapshots[v]
            /\ depositSnapshots[v] \in Snapshot
        BY <1>1, <1>2, <1>5, <3>2 DEF TypeOK
      <4>2. IsPast(deposits[v].initialValue, depositSnapshots[v])
        BY <1>2 DEF SnapshotsArePast
      <4> QED BY <1>8, <4>1, <4>2 DEF IsPast
    <3> QED BY <3>1, <3>2
  <2>2. ASSUME NEW f \in Tags PROVE IsPast(frontEndStakes[f], frontEndSnapshots[f])'
    <3>1. CASE f = tag
      <4>1. frontEndStakes'[f] = stake
            /\ frontEndSnapshots'[f] = IF stake = 0 THEN NoSnapshot ELSE l
        BY <1>1, <1>2, <1>5, <1>9, <3>1 DEF TypeOK
      <4>2. CASE stake = 0
        BY <1>10, <4>1, <4>2 DEF IsPast
      <4>3. CASE stake # 0
        BY <1>10, <4>1, <4>3 DEF IsPast
      <4> QED BY <4>2, <4>3
    <3>2. CASE f # tag
      <4>1. frontEndStakes'[f] = frontEndStakes[f] /\ frontEndSnapshots'[f] = frontEndSnapshots[f]
            /\ frontEndSnapshots[f] \in Snapshot
        BY <1>1, <1>2, <1>5, <3>2 DEF TypeOK
      <4>2. IsPast(frontEndStakes[f], frontEndSnapshots[f])
        BY <1>2 DEF SnapshotsArePast
      <4> QED BY <1>8, <4>1, <4>2 DEF IsPast
    <3> QED BY <3>1, <3>2
  <2> QED BY <2>1, <2>2 DEF SnapshotsArePast
<1>12. FutureIsEmpty'
  <2> SUFFICES ASSUME NEW e \in 0..MaxEpoch, NEW s \in 0..(MaxScale + 1),
                      e > currentEpoch \/ (e = currentEpoch /\ s > currentScale)
               PROVE  S[e][s] = 0 /\ g[e][s] = 0
    BY <1>5 DEF FutureIsEmpty
  <2>1. ~(e = currentEpoch /\ s = currentScale)
    BY <1>2 DEF TypeOK
  <2> QED BY <1>2, <1>3, <2>1 DEF FutureIsEmpty
<1>13. TagsAreRegistered'
  <2>1. ASSUME NEW v \in Addresses
        PROVE  /\ deposits'[v].frontEndTag # NoTag => frontEnds[deposits'[v].frontEndTag].registered
               /\ deposits'[v].initialValue = 0 => deposits'[v].frontEndTag = NoTag
    BY <1>1, <1>2, <1>5 DEF TagsAreRegistered, TypeOK
  <2>2. ASSUME NEW f \in Addresses, frontEndStakes'[f] # 0 PROVE frontEnds[f].registered
    <3>1. f # NoTag /\ f \in Tags
      BY StabilityPoolAssumption DEF Tags
    <3> QED BY <1>1, <1>2, <1>5, <2>2, <3>1 DEF TagsAreRegistered, TypeOK
  <2> QED BY <1>5, <2>1, <2>2 DEF TagsAreRegistered
<1>14. LossErrorIsDust'
  BY <1>2, <1>5 DEF LossErrorIsDust, TypeOK
<1> QED BY <1>7, <1>11, <1>12, <1>13, <1>14 DEF PoolInv

\* The product after a loss that leaves f of DECIMAL_PRECISION, as it is or scaled up.
LEMMA ProductIsScaled ==
  ASSUME NEW p \in 1..DECIMAL_PRECISION, NEW f \in 0..DECIMAL_PRECISION
  PROVE  /\ (p * f) \div DECIMAL_PRECISION \in 0..DECIMAL_PRECISION
         /\ DECIMAL_PRECISION * ((p * f) \div DECIMAL_PRECISION) <= p * f
         /\ (p * f * SCALE_FACTOR) \div DECIMAL_PRECISION \in Nat
         /\ DECIMAL_PRECISION * ((p * f * SCALE_FACTOR) \div DECIMAL_PRECISION) <= (p * f) * SCALE_FACTOR
         /\ (p * f) \div DECIMAL_PRECISION < SCALE_FACTOR
              => (p * f * SCALE_FACTOR) \div DECIMAL_PRECISION <= DECIMAL_PRECISION
<1> DEFINE D == DECIMAL_PRECISION
           C == SCALE_FACTOR
           m == p * f
           q == m \div D
           r == (m * C) \div D
<1>1. D \in Nat \ {0} /\ C \in Nat \ {0} /\ C * C <= D /\ p \in Nat /\ f \in Nat /\ f <= D /\ p <= D
  BY StabilityPoolAssumption
<1>2. m \in Nat /\ m * C \in Nat
  <2>1. m \in Nat
    BY <1>1, ProductNat
  <2> HIDE DEF m
  <2> QED BY <1>1, <2>1, ProductNat
<1>3. m <= D * D
  <2>1. p * f <= p * D /\ D * p <= D * D
    BY <1>1, TimesMonotone
  <2>2. p * D = D * p /\ p * f \in Int /\ p * D \in Int /\ D * D \in Int
    BY <1>1
  <2> QED BY <2>1, <2>2
<1> HIDE DEF m, C, D
<1>4. q \in Nat /\ D * q <= m /\ r \in Nat /\ D * r <= m * C
  BY <1>1, <1>2, Quotient
<1>5. q < C => m <= D * C
  BY <1>1, <1>2
<1> HIDE DEF q, r
<1>6. q <= D
  <2>1. D * q \in Int /\ D * D \in Int /\ D * q <= D * D
    BY <1>1, <1>2, <1>3, <1>4
  <2> QED BY <1>1, <1>4, <2>1, TimesCancels
<1>7. ASSUME q < C PROVE r <= D
  <2>1. C * m <= C * (D * C)
    <3>1. D * C \in Int
      BY <1>1
    <3> QED BY <1>1, <1>2, <1>5, <1>7, <3>1, TimesMonotone
  <2>2. D * (C * C) <= D * D
    <3>1. C * C \in Int
      BY <1>1
    <3> QED BY <1>1, <3>1, TimesMonotone
  <2>3. m * C = C * m /\ C * (D * C) = D * (C * C) /\ C * m \in Int /\ D * (C * C) \in Int /\ D * D \in Int
        /\ D * r \in Int
    BY <1>1, <1>2, <1>4
  <2>4. D * r <= D * D
    BY <1>4, <2>1, <2>2, <2>3
  <2> QED BY <1>1, <1>4, <2>4, TimesCancels
<1> QED BY <1>4, <1>6, <1>7 DEF q, r, m, C, D

\* A loss per unit staked, one too many, and its error.
LEMMA LossIsDivided ==
  ASSUME TypeOK, NEW debt \in Nat, totalBPDDeposits > 0, debt <= totalBPDDeposits,
         debt < totalBPDDeposits => debt * DECIMAL_PRECISION >= lastError.BPDLoss
  PROVE  /\ BPDLossPerUnitStaked(debt) \in Nat /\ BPDLossErrorAfter(debt) \in Nat
         /\ \/ /\ DECIMAL_PRECISION - BPDLossPerUnitStaked(debt) = 0
               /\ BPDLossErrorAfter(debt) = 0 /\ debt = totalBPDDeposits
            \/ (DECIMAL_PRECISION - BPDLossPerUnitStaked(debt)) * totalBPDDeposits
                 + debt * DECIMAL_PRECISION + BPDLossErrorAfter(debt)
                 = DECIMAL_PRECISION * totalBPDDeposits + lastError.BPDLoss
<1> DEFINE D == DECIMAL_PRECISION
           T == totalBPDDeposits
           e == lastError.BPDLoss
           N == debt * D - e
           q == N \div T
<1>1. D \in Nat \ {0} /\ T \in Nat \ {0} /\ e \in Nat
  BY Constants DEF TypeOK
<1>2. CASE debt = T
  <2>1. BPDLossPerUnitStaked(debt) = D /\ BPDLossErrorAfter(debt) = 0
    BY <1>2 DEF BPDLossPerUnitStaked, BPDLossErrorAfter
  <2> QED BY <1>1, <1>2, <2>1
<1>3. CASE debt # T
  <2>1. N \in Nat
    <3>1. debt * D >= e /\ debt * D \in Nat
      BY <1>1, <1>3
    <3> QED BY <1>1, <3>1
  <2>2. BPDLossPerUnitStaked(debt) = q + 1 /\ BPDLossErrorAfter(debt) = (q + 1) * T - N
    BY <1>3 DEF BPDLossPerUnitStaked, BPDLossErrorAfter
  <2>3. N = debt * D - e
    OBVIOUS
  <2> HIDE DEF N, D, T, e
  <2>4. q \in Nat /\ N < T * (q + 1)
    BY <1>1, <2>1
  <2> HIDE DEF q
  <2>5. (q + 1) * T = T * (q + 1) /\ T * (q + 1) \in Nat
    BY <1>1, <2>4
  <2>6. (q + 1) * T - N \in Nat
    BY <2>1, <2>4, <2>5
  <2>7. (D - (q + 1)) * T = D * T - (q + 1) * T /\ D * T \in Int /\ debt * D \in Int
    BY <1>1, <2>4
  <2>8. (D - (q + 1)) * T + debt * D + ((q + 1) * T - N) = D * T + e
    BY <1>1, <2>1, <2>3, <2>5, <2>7
  <2> QED BY <2>2, <2>4, <2>6, <2>8 DEF D, T, e
<1> QED BY <1>2, <1>3

\* What offset does to the product, its scale and its epoch.
LEMMA ProductMoves ==
  ASSUME TypeOK, NEW f \in 0..DECIMAL_PRECISION, ProductAfter(f).P > 0
  PROVE  /\ ProductAfter(f).P \in 1..DECIMAL_PRECISION
         /\ ProductAfter(f).scale \in Nat /\ ProductAfter(f).epoch \in Nat
         /\ \/ ProductAfter(f).epoch = currentEpoch + 1
            \/ /\ ProductAfter(f).epoch = currentEpoch /\ ProductAfter(f).scale = currentScale
               /\ DECIMAL_PRECISION * ProductAfter(f).P <= P * f
            \/ /\ ProductAfter(f).epoch = currentEpoch /\ ProductAfter(f).scale = currentScale + 1
               /\ DECIMAL_PRECISION * ProductAfter(f).P <= (P * f) * SCALE_FACTOR
<1>1. P \in 1..DECIMAL_PRECISION /\ currentScale \in Nat /\ currentEpoch \in Nat
  BY Constants DEF TypeOK
<1> DEFINE q == (P * f) \div DECIMAL_PRECISION
           r == (P * f * SCALE_FACTOR) \div DECIMAL_PRECISION
<1>2. /\ q \in 0..DECIMAL_PRECISION /\ DECIMAL_PRECISION * q <= P * f /\ r \in Nat
      /\ DECIMAL_PRECISION * r <= (P * f) * SCALE_FACTOR
      /\ q < SCALE_FACTOR => r <= DECIMAL_PRECISION
  BY <1>1, ProductIsScaled
<1>3. CASE f = 0
  <2>1. ProductAfter(f) = [P |-> DECIMAL_PRECISION, scale |-> 0, epoch |-> currentEpoch + 1]
    BY <1>3 DEF ProductAfter
  <2> QED BY <1>1, <2>1, Constants
<1>4. CASE f > 0 /\ q < SCALE_FACTOR
  <2>1. ProductAfter(f) = [P |-> r, scale |-> currentScale + 1, epoch |-> currentEpoch]
    BY <1>4 DEF ProductAfter
  <2> HIDE DEF q, r
  <2> QED BY <1>1, <1>2, <1>4, <2>1, Constants
<1>5. CASE f > 0 /\ ~(q < SCALE_FACTOR)
  <2>1. ProductAfter(f) = [P |-> q, scale |-> currentScale, epoch |-> currentEpoch]
    BY <1>5 DEF ProductAfter
  <2> HIDE DEF q, r
  <2> QED BY <1>1, <1>2, <1>5, <2>1, Constants
<1> QED BY <1>3, <1>4, <1>5

\* What offset does to the variables: a reward of each asset, then a loss that leaves f of
\* DECIMAL_PRECISION of every stake.
LEMMA OffsetMoves ==
  ASSUME TypeOK, NEW debt \in Debts, NEW coll \in CollsAdded, NEW issued \in Issuances,
         Offset(debt, coll, issued)
  PROVE  /\ debt \in Nat /\ coll \in Nat /\ issued \in Nat
         /\ P' \in 1..DECIMAL_PRECISION /\ currentScale' \in 0..MaxScale /\ currentEpoch' \in 0..MaxEpoch
         /\ totalBPDDeposits \in Nat \ {0} /\ totalBPDDeposits' = totalBPDDeposits - debt
         /\ totalBPDDeposits' \in Nat
         /\ lastError'.BPDLoss \in Nat /\ lastError'.BPDLoss <= dust'.loss
         /\ dust.loss <= dust'.loss /\ dust'.loss \in Nat
         /\ G' = GAfter(issued) /\ lastError'.MP = MPErrorAfter(issued)
         /\ dust'.MP = MPDustAfter(issued) /\ mp' = MPAfter(issued, 0)
         /\ S' = Rewarded(RBTCPool, totalBPDDeposits, coll).sums
         /\ lastError'.RBTC = Rewarded(RBTCPool, totalBPDDeposits, coll).error
         /\ dust'.RBTC = Rewarded(RBTCPool, totalBPDDeposits, coll).dust
         /\ RBTC' = Rewarded(RBTCPool, totalBPDDeposits, coll).held /\ RBTC' = RBTC + coll
         /\ lastError' = [MP |-> lastError'.MP, RBTC |-> lastError'.RBTC, BPDLoss |-> lastError'.BPDLoss]
         /\ dust' = [loss |-> dust'.loss, RBTC |-> dust'.RBTC, MP |-> dust'.MP]
         /\ UNCHANGED <<deposits, depositSnapshots, frontEnds, frontEndStakes, frontEndSnapshots>>
         /\ \E f \in 0..DECIMAL_PRECISION :
              /\ \/ f = 0 /\ lastError'.BPDLoss = 0 /\ debt = totalBPDDeposits
                 \/ f * totalBPDDeposits + debt * DECIMAL_PRECISION + lastError'.BPDLoss
                      = DECIMAL_PRECISION * totalBPDDeposits + lastError.BPDLoss
              /\ \/ currentEpoch' = currentEpoch + 1
                 \/ /\ currentEpoch' = currentEpoch /\ currentScale' = currentScale
                    /\ DECIMAL_PRECISION * P' <= P * f
                 \/ /\ currentEpoch' = currentEpoch /\ currentScale' = currentScale + 1
                    /\ DECIMAL_PRECISION * P' <= (P * f) * SCALE_FACTOR
<1> DEFINE f == DECIMAL_PRECISION - BPDLossPerUnitStaked(debt)
           next == ProductAfter(f)
           numerator == coll * DECIMAL_PRECISION + lastError.RBTC
           perUnit == numerator \div totalBPDDeposits
<1>1. debt \in Nat /\ coll \in Nat /\ issued \in Nat
  BY StabilityPoolAssumption
<1>2. /\ totalBPDDeposits > 0 /\ debt <= totalBPDDeposits
      /\ debt < totalBPDDeposits => debt * DECIMAL_PRECISION >= lastError.BPDLoss
      /\ BPDLossPerUnitStaked(debt) <= DECIMAL_PRECISION
      /\ next.P > 0 /\ next.scale <= MaxScale /\ next.epoch <= MaxEpoch
      /\ G' = GAfter(issued) /\ mp' = MPAfter(issued, 0)
      /\ dust' = [loss |-> Max({dust.loss, BPDLossErrorAfter(debt)}),
                  RBTC |-> dust.RBTC + perUnit * dust.loss, MP |-> MPDustAfter(issued)]
      /\ lastError' = [MP |-> MPErrorAfter(issued), RBTC |-> numerator % totalBPDDeposits,
                       BPDLoss |-> BPDLossErrorAfter(debt)]
      /\ S' = [S EXCEPT ![currentEpoch][currentScale] = @ + perUnit * P]
      /\ P' = next.P /\ currentScale' = next.scale /\ currentEpoch' = next.epoch
      /\ totalBPDDeposits' = totalBPDDeposits - debt /\ RBTC' = RBTC + coll
      /\ UNCHANGED <<deposits, depositSnapshots, frontEnds, frontEndStakes, frontEndSnapshots>>
  BY DEF Offset, depositVars, frontEndVars
<1>3. totalBPDDeposits \in Nat \ {0} /\ totalBPDDeposits' \in Nat
  BY <1>1, <1>2 DEF TypeOK
<1>4. /\ BPDLossPerUnitStaked(debt) \in Nat /\ BPDLossErrorAfter(debt) \in Nat
      /\ \/ f = 0 /\ BPDLossErrorAfter(debt) = 0 /\ debt = totalBPDDeposits
         \/ f * totalBPDDeposits + debt * DECIMAL_PRECISION + BPDLossErrorAfter(debt)
              = DECIMAL_PRECISION * totalBPDDeposits + lastError.BPDLoss
  BY <1>1, <1>2, LossIsDivided
<1>5. f \in 0..DECIMAL_PRECISION
  BY <1>2, <1>4, Constants
<1> HIDE DEF f
<1>6. /\ next.P \in 1..DECIMAL_PRECISION /\ next.scale \in Nat /\ next.epoch \in Nat
      /\ \/ next.epoch = currentEpoch + 1
         \/ /\ next.epoch = currentEpoch /\ next.scale = currentScale
            /\ DECIMAL_PRECISION * next.P <= P * f
         \/ /\ next.epoch = currentEpoch /\ next.scale = currentScale + 1
            /\ DECIMAL_PRECISION * next.P <= (P * f) * SCALE_FACTOR
  BY <1>2, <1>5, ProductMoves
<1>7. ASSUME NEW a \in Nat, NEW b \in Nat
      PROVE  Max({a, b}) \in Nat /\ a <= Max({a, b}) /\ b <= Max({a, b})
  BY DEF Max
<1>8. dust.loss \in Nat
  BY DEF TypeOK
<1>9. /\ lastError'.BPDLoss = BPDLossErrorAfter(debt) /\ lastError'.BPDLoss <= dust'.loss
      /\ dust.loss <= dust'.loss /\ dust'.loss \in Nat
      /\ lastError'.MP = MPErrorAfter(issued) /\ dust'.MP = MPDustAfter(issued)
      /\ lastError'.RBTC = numerator % totalBPDDeposits /\ dust'.RBTC = dust.RBTC + perUnit * dust.loss
      /\ lastError' = [MP |-> lastError'.MP, RBTC |-> lastError'.RBTC, BPDLoss |-> lastError'.BPDLoss]
      /\ dust' = [loss |-> dust'.loss, RBTC |-> dust'.RBTC, MP |-> dust'.MP]
  BY <1>2, <1>4, <1>7, <1>8
<1>10. /\ S' = Rewarded(RBTCPool, totalBPDDeposits, coll).sums
       /\ lastError'.RBTC = Rewarded(RBTCPool, totalBPDDeposits, coll).error
       /\ dust'.RBTC = Rewarded(RBTCPool, totalBPDDeposits, coll).dust
       /\ RBTC' = Rewarded(RBTCPool, totalBPDDeposits, coll).held
  BY <1>2, <1>9 DEF Rewarded, PerUnit, RBTCPool
<1>11. currentScale' \in 0..MaxScale /\ currentEpoch' \in 0..MaxEpoch /\ P' \in 1..DECIMAL_PRECISION
  BY <1>2, <1>6, Constants
<1> HIDE DEF numerator, perUnit, next
<1> QED BY <1>1, <1>2, <1>3, <1>4, <1>5, <1>6, <1>9, <1>10, <1>11

\* offset keeps the invariant.
LEMMA OffsetKeepsInv ==
  ASSUME PoolInv, NEW debt \in Debts, NEW coll \in CollsAdded, NEW issued \in Issuances,
         Offset(debt, coll, issued)
  PROVE  PoolInv'
<1> DEFINE q == RBTCPool
           q2 == Rewarded(q, totalBPDDeposits, coll)
           u  == PerUnit(q, totalBPDDeposits, coll)
<1>1. TypeOK /\ SnapshotsArePast /\ FutureIsEmpty /\ TagsAreRegistered /\ LossErrorIsDust
  BY DEF PoolInv
<1>2. /\ coll \in Nat /\ issued \in Nat /\ debt \in Nat
      /\ P' \in 1..DECIMAL_PRECISION /\ currentScale' \in 0..MaxScale /\ currentEpoch' \in 0..MaxEpoch
      /\ totalBPDDeposits \in Nat \ {0} /\ totalBPDDeposits' \in Nat
      /\ lastError'.BPDLoss \in Nat /\ lastError'.BPDLoss <= dust'.loss /\ dust'.loss \in Nat
      /\ G' = GAfter(issued) /\ lastError'.MP = MPErrorAfter(issued)
      /\ dust'.MP = MPDustAfter(issued) /\ mp' = MPAfter(issued, 0)
      /\ S' = q2.sums /\ lastError'.RBTC = q2.error /\ dust'.RBTC = q2.dust /\ RBTC' = RBTC + coll
      /\ lastError' = [MP |-> lastError'.MP, RBTC |-> lastError'.RBTC, BPDLoss |-> lastError'.BPDLoss]
      /\ dust' = [loss |-> dust'.loss, RBTC |-> dust'.RBTC, MP |-> dust'.MP]
      /\ UNCHANGED <<deposits, depositSnapshots, frontEnds, frontEndStakes, frontEndSnapshots>>
      /\ \/ currentEpoch' = currentEpoch + 1
         \/ currentEpoch' = currentEpoch /\ currentScale' = currentScale
         \/ currentEpoch' = currentEpoch /\ currentScale' = currentScale + 1
  BY <1>1, OffsetMoves
<1>3. q \in Pool /\ q2 \in Pool /\ u \in Nat
      /\ q.sums = S /\ q.epoch = currentEpoch /\ q.scale = currentScale /\ q.P = P
      /\ \A e \in 0..MaxEpoch, s \in 0..(MaxScale + 1) :
           q2.sums[e][s] = q.sums[e][s] + (IF e = q.epoch /\ s = q.scale THEN u * q.P ELSE 0)
  <2>1. q \in Pool /\ q.sums = S /\ q.epoch = currentEpoch /\ q.scale = currentScale /\ q.P = P
    BY <1>1, PoolsOfState DEF RBTCPool
  <2> HIDE DEF q
  <2> QED BY <1>2, <2>1, RewardedPool, RewardIsDivided
<1>4. /\ GAfter(issued) \in Sums /\ MPErrorAfter(issued) \in Nat /\ MPDustAfter(issued) \in Nat
      /\ MPAfter(issued, 0).issued \in Nat
      /\ \A e \in 0..MaxEpoch, s \in 0..(MaxScale + 1) :
           /\ G[e][s] <= GAfter(issued)[e][s]
           /\ ~(e = currentEpoch /\ s = currentScale) => GAfter(issued)[e][s] = G[e][s]
  BY <1>1, <1>2, GAfterIssuance
<1>5. q2.sums \in Sums /\ q2.error \in Nat /\ q2.dust \in Nat
  BY <1>3 DEF Pool
<1> HIDE DEF q, q2, u
<1>6. mp' \in [issued : Nat, paid : Nat]
  <2>1. mp' = [issued |-> MPAfter(issued, 0).issued, paid |-> mp.paid + 0] /\ mp.paid \in Nat
    BY <1>1, <1>2 DEF MPAfter, TypeOK
  <2> QED BY <1>4, <2>1
<1>7. TypeOK'
  <2>1. lastError' \in [MP : Nat, RBTC : Nat, BPDLoss : Nat] /\ dust' \in [loss : Nat, RBTC : Nat, MP : Nat]
    BY <1>2, <1>4, <1>5
  <2>2. RBTC' \in Nat
    BY <1>1, <1>2 DEF TypeOK
  <2> QED BY <1>1, <1>2, <1>4, <1>5, <1>6, <2>1, <2>2 DEF TypeOK
<1>8. u * P \in Nat
  BY <1>1, <1>3, ProductNat, ScalesAreIndexes
<1>9. ASSUME NEW e \in 0..MaxEpoch, NEW s \in 0..(MaxScale + 1)
      PROVE  /\ S[e][s] <= S'[e][s] /\ G[e][s] <= G'[e][s]
             /\ ~(e = currentEpoch /\ s = currentScale) => S'[e][s] = S[e][s] /\ G'[e][s] = G[e][s]
  <2>1. S[e][s] \in Nat
    BY <1>1, ScalesAreIndexes, SumsAreNat
  <2> QED BY <1>2, <1>3, <1>4, <1>8, <2>1
<1>10. SnapshotsArePast'
  <2>1. ASSUME NEW x, NEW snap \in Snapshot, IsPast(x, snap)
        PROVE  IsPast(x, snap)'
    <3>1. /\ currentEpoch <= currentEpoch'
          /\ currentEpoch' = currentEpoch => currentScale <= currentScale'
      BY <1>1, <1>2, ScalesAreIndexes
    <3> QED BY <1>1, <1>7, <1>9, <2>1, <3>1, PastStaysPast
  <2>2. ASSUME NEW v \in Addresses PROVE IsPast(deposits[v].initialValue, depositSnapshots[v])'
    <3>1. depositSnapshots[v] \in Snapshot /\ IsPast(deposits[v].initialValue, depositSnapshots[v])
      BY <1>1 DEF TypeOK, SnapshotsArePast
    <3> QED BY <1>2, <2>1, <3>1 DEF IsPast
  <2>3. ASSUME NEW f \in Tags PROVE IsPast(frontEndStakes[f], frontEndSnapshots[f])'
    <3>1. frontEndSnapshots[f] \in Snapshot /\ IsPast(frontEndStakes[f], frontEndSnapshots[f])
      BY <1>1 DEF TypeOK, SnapshotsArePast
    <3> QED BY <1>2, <2>1, <3>1 DEF IsPast
  <2> QED BY <2>2, <2>3 DEF SnapshotsArePast
<1>11. FutureIsEmpty'
  <2> SUFFICES ASSUME NEW e \in 0..MaxEpoch, NEW s \in 0..(MaxScale + 1),
                      e > currentEpoch' \/ (e = currentEpoch' /\ s > currentScale')
               PROVE  S'[e][s] = 0 /\ G'[e][s] = 0
    BY DEF FutureIsEmpty
  <2>1. /\ e > currentEpoch \/ (e = currentEpoch /\ s > currentScale)
        /\ ~(e = currentEpoch /\ s = currentScale)
    BY <1>1, <1>2, ScalesAreIndexes
  <2> QED BY <1>1, <1>9, <2>1 DEF FutureIsEmpty
<1>12. TagsAreRegistered'
  BY <1>1, <1>2 DEF TagsAreRegistered
<1>13. LossErrorIsDust'
  BY <1>2 DEF LossErrorIsDust
<1> QED BY <1>7, <1>10, <1>11, <1>12, <1>13 DEF PoolInv

\* A front end that registers changes nothing else.
LEMMA RegisterKeepsInv ==
  ASSUME PoolInv, NEW u \in Addresses, NEW kickbackRate \in KickbackRates, RegisterFrontEnd(u, kickbackRate)
  PROVE  PoolInv'
<1>1. /\ frontEnds' = [frontEnds EXCEPT ![u] = [kickbackRate |-> kickbackRate, registered |-> TRUE]]
      /\ UNCHANGED <<deposits, depositSnapshots, frontEndStakes, frontEndSnapshots, P, currentScale,
                     currentEpoch, S, G, lastError, totalBPDDeposits, RBTC, mp, dust>>
  BY DEF RegisterFrontEnd, depositVars, frontEndVars, productVars
<1>2. kickbackRate \in 0..DECIMAL_PRECISION
  BY StabilityPoolAssumption
<1>3. TypeOK'
  BY <1>1, <1>2 DEF PoolInv, TypeOK
<1>4. SnapshotsArePast' /\ FutureIsEmpty' /\ LossErrorIsDust'
  BY <1>1 DEF PoolInv, SnapshotsArePast, IsPast, FutureIsEmpty, LossErrorIsDust
<1>5. TagsAreRegistered'
  <2>1. \A f \in Addresses : frontEnds[f].registered => frontEnds'[f].registered
    BY <1>1 DEF PoolInv, TypeOK
  <2>2. \A v \in Addresses : deposits[v].frontEndTag # NoTag => deposits[v].frontEndTag \in Addresses
    BY DEF PoolInv, TypeOK, Tags
  <2> QED BY <1>1, <2>1, <2>2 DEF PoolInv, TagsAreRegistered
<1> QED BY <1>3, <1>4, <1>5 DEF PoolInv

\* The invariant holds at first.
LEMMA InitPoolInv ==
  ASSUME Init
  PROVE  PoolInv
<1>1. NoSnapshot \in Snapshot
  BY DEF NoSnapshot, Snapshot
<1>2. TypeOK
  BY <1>1, Constants DEF Init, TypeOK, Tags, Sums
<1>3. \A e \in 0..MaxEpoch, s \in 0..(MaxScale + 1) : S[e][s] = 0 /\ G[e][s] = 0
  BY DEF Init
<1>4. SnapshotsArePast
  <2>1. IsPast(0, NoSnapshot)
    BY <1>2, <1>3, Constants DEF Init, IsPast, NoSnapshot
  <2> QED BY <2>1 DEF Init, SnapshotsArePast
<1>5. FutureIsEmpty /\ TagsAreRegistered /\ LossErrorIsDust
  BY <1>3, StabilityPoolAssumption DEF Init, FutureIsEmpty, TagsAreRegistered, LossErrorIsDust, Tags
<1> QED BY <1>2, <1>4, <1>5 DEF PoolInv

\* The steps of the pool: calls of depositors, registrations and offsets.
LEMMA NextCases ==
  ASSUME PoolInv, Next
  PROVE  \/ \E u, tag, value, stake, issued, change : IsCall(u, tag, value, stake, issued, change)
         \/ \E u \in Addresses, k \in KickbackRates : RegisterFrontEnd(u, k)
         \/ \E debt \in Debts, coll \in CollsAdded, issued \in Issuances : Offset(debt, coll, issued)
<1>1. ASSUME NEW u \in Addresses, NEW issued \in Issuances,
             \/ \E amount \in Amounts, t \in Tags : ProvideToSP(u, amount, t, issued)
             \/ \E amount \in Amounts \cup {0} : WithdrawFromSP(u, amount, issued)
             \/ WithdrawRBTCGainToVault(u, issued)
      PROVE  \E v, tag, value, stake, i, change : IsCall(v, tag, value, stake, i, change)
  <2>1. \E tag, value, stake, change : IsCall(u, tag, value, stake, issued, change)
    BY <1>1, DepositorsCalls
  <2> QED BY <2>1
<1>2. \/ \E u \in Addresses, issued \in Issuances :
           \/ \E amount \in Amounts, t \in Tags : ProvideToSP(u, amount, t, issued)
           \/ \E amount \in Amounts \cup {0} : WithdrawFromSP(u, amount, issued)
           \/ WithdrawRBTCGainToVault(u, issued)
      \/ \E u \in Addresses, k \in KickbackRates : RegisterFrontEnd(u, k)
      \/ \E debt \in Debts, coll \in CollsAdded, issued \in Issuances : Offset(debt, coll, issued)
  <2>1. 0 \in Amounts \cup {0} /\ \A amount \in Amounts : amount \in Amounts \cup {0}
    OBVIOUS
  <2> QED BY <2>1, Zenon DEF Next
<1> QED BY <1>1, <1>2

\* Every step keeps the invariant.
LEMMA NextKeepsInv ==
  ASSUME PoolInv, [Next]_vars
  PROVE  PoolInv'
<1>1. CASE Next
  BY <1>1, NextCases, CallKeepsInv, RegisterKeepsInv, OffsetKeepsInv
<1>2. CASE UNCHANGED vars
  BY <1>2 DEF vars, depositVars, frontEndVars, productVars, PoolInv, TypeOK, SnapshotsArePast, IsPast,
              FutureIsEmpty, TagsAreRegistered, LossErrorIsDust
<1> QED BY <1>1, <1>2

\* The product stays in 1..DECIMAL_PRECISION over every offset and change of scale
\* (StabilityPool.sol:610), no deposit, stake or total falls below zero, and the sums are
\* defined wherever the contract reads them.
THEOREM StabilityTypeCorrect == Spec => []TypeOK
<1>1. Init => PoolInv
  BY InitPoolInv
<1>2. PoolInv /\ [Next]_vars => PoolInv'
  BY NextKeepsInv
<1>3. PoolInv => TypeOK
  BY DEF PoolInv
<1> QED BY <1>1, <1>2, <1>3, PTL DEF Spec

----------------------------------------------------------------------------
\* The cover of the claims: the invariant.

CoverInv == PoolInv /\ AreCovered(RBTCClaims, RBTCPool) /\ AreCovered(MPClaims, MPPool)

\* A claim made now has earned nothing, and neither has an empty one.
LEMMA ClaimMadeNow ==
  ASSUME NEW q \in Pool, q.P # 0, q.sums[q.epoch][q.scale + 1] = 0,
         NEW stake \in Nat, NEW weight \in Nat, NEW start \in Nat, NEW snap \in Snapshot,
         \/ stake = 0 /\ start = 0 /\ snap = NoSnapshot
         \/ /\ snap.epoch = q.epoch /\ snap.scale = q.scale /\ snap.P = q.P
            /\ start = q.sums[q.epoch][q.scale]
  PROVE  /\ ClaimOf(stake, weight, start, snap) \in Claim
         /\ SnapshotIsPast(ClaimOf(stake, weight, start, snap), q)
         /\ stake = 0 \/ IsFresh(ClaimOf(stake, weight, start, snap), q)
<1> DEFINE k == ClaimOf(stake, weight, start, snap)
<1>1. k \in Claim /\ k.stake = stake /\ k.start = start /\ k.snap = snap
  BY DEF ClaimOf, Claim
<1>2. /\ q.epoch \in 0..MaxEpoch /\ q.scale \in 0..MaxScale /\ q.scale \in 0..(MaxScale + 1)
      /\ q.epoch \in Nat /\ q.scale \in Nat /\ q.sums \in Sums
      /\ 0 \in 0..MaxEpoch /\ 0 \in 0..(MaxScale + 1)
  BY Constants DEF Pool
<1>3. q.sums[q.epoch][q.scale] \in Nat /\ q.sums[0][0] \in Nat
  BY <1>2, SumsAreNat
<1> HIDE DEF k
<1>4. CASE stake = 0 /\ start = 0 /\ snap = NoSnapshot
  <2>1. k.snap.epoch = 0 /\ k.snap.scale = 0 /\ k.start = 0 /\ k.stake = 0
    BY <1>1, <1>4 DEF NoSnapshot
  <2>2. SnapshotIsPast(k, q)
    BY <1>2, <1>3, <2>1, Constants DEF SnapshotIsPast, First
  <2> QED BY <1>1, <1>4, <2>2 DEF k
<1>5. CASE snap.epoch = q.epoch /\ snap.scale = q.scale /\ snap.P = q.P /\ start = q.sums[q.epoch][q.scale]
  <2>1. k.snap.epoch = q.epoch /\ k.snap.scale = q.scale /\ k.snap.P = q.P
        /\ k.start = q.sums[q.epoch][q.scale]
    BY <1>1, <1>5
  <2>2. First(k, q) = 0 /\ Second(k, q) = 0
    BY <1>3, <2>1 DEF First, Second
  <2>3. SnapshotIsPast(k, q)
    BY <1>2, <2>1, <2>2 DEF SnapshotIsPast
  <2>4. IsFresh(k, q)
    BY <2>1, <2>2, Constants DEF IsFresh, Earned
  <2> QED BY <1>1, <2>3, <2>4 DEF k
<1> QED BY <1>4, <1>5

\* The MP issued keep the claims on the MP covered.
LEMMA IssuanceKeepsCover ==
  ASSUME CoverInv, NEW issued \in Nat
  PROVE  AreCovered(MPClaims, IssuedPool(issued))
<1>1. TypeOK /\ AreClaims(MPClaims, MPPool) /\ AreCovered(MPClaims, MPPool) /\ MPPool \in Pool
  BY ClaimsOfState, PoolsOfState DEF CoverInv, PoolInv
<1>2. CASE NothingIssued(issued)
  BY <1>1, <1>2, IssuanceIsReward
<1>3. CASE ~NothingIssued(issued)
  <2>1. /\ totalBPDDeposits \in Nat \ {0}
        /\ IssuedPool(issued) = Rewarded(MPPool, totalBPDDeposits, issued)
    BY <1>1, <1>3, IssuanceIsReward
  <2>2. MPPool.worth = totalBPDDeposits * DECIMAL_PRECISION
    BY DEF MPPool
  <2> QED BY <1>1, <2>1, <2>2, RewardKeepsCover
<1> QED BY <1>2, <1>3

\* A holder is a depositor or a front end.
LEMMA HolderCases ==
  ASSUME NEW h \in Holders
  PROVE  h[1] \in Addresses /\ (h = <<h[1], "deposit">> \/ h = <<h[1], "frontEnd">>)
BY DEF Holders

\* The claims of a state, one by one.
LEMMA ClaimsOfHolders ==
  ASSUME NEW u \in Addresses
  PROVE  /\ <<u, "deposit">> \in Holders /\ <<u, "frontEnd">> \in Holders
         /\ RBTCClaims[<<u, "deposit">>]
              = ClaimOf(deposits[u].initialValue, DECIMAL_PRECISION, depositSnapshots[u].S, depositSnapshots[u])
         /\ RBTCClaims[<<u, "frontEnd">>] = ClaimOf(0, 0, 0, NoSnapshot)
         /\ MPClaims[<<u, "deposit">>]
              = ClaimOf(deposits[u].initialValue, Kickback(u), depositSnapshots[u].G, depositSnapshots[u])
         /\ MPClaims[<<u, "frontEnd">>]
              = ClaimOf(frontEndStakes[u], DECIMAL_PRECISION - frontEnds[u].kickbackRate,
                        frontEndSnapshots[u].G, frontEndSnapshots[u])
<1>1. <<u, "deposit">> \in Holders /\ <<u, "frontEnd">> \in Holders
  BY DEF Holders
<1> QED BY <1>1 DEF RBTCClaims, MPClaims

\* What the calls do to the deposit, the stake and the pools, with k and l for the new snapshots.
LEMMA CallMoves ==
  ASSUME PoolInv, NEW u, NEW tag, NEW value, NEW stake, NEW issued, NEW change,
         IsCall(u, tag, value, stake, issued, change)
  PROVE  \E k \in Snapshot, l \in Snapshot :
           /\ deposits' = [deposits EXCEPT ![u] =
                [initialValue |-> value, frontEndTag |-> IF value = 0 THEN NoTag ELSE tag]]
           /\ depositSnapshots' = [depositSnapshots EXCEPT ![u] = k]
           /\ frontEndStakes' = [frontEndStakes EXCEPT ![tag] = stake]
           /\ frontEndSnapshots' = [frontEndSnapshots EXCEPT ![tag] = l]
           /\ IF value = 0 THEN k = NoSnapshot
              ELSE /\ k.epoch = currentEpoch /\ k.scale = currentScale /\ k.P = P
                   /\ k.S = S[currentEpoch][currentScale]
                   /\ k.G = GAfter(issued)[currentEpoch][currentScale]
           /\ IF stake = 0 THEN l = NoSnapshot
              ELSE /\ l.epoch = currentEpoch /\ l.scale = currentScale /\ l.P = P
                   /\ l.G = GAfter(issued)[currentEpoch][currentScale]
<1> DEFINE now == SnapshotNow(GAfter(issued))
           k == IF value = 0 THEN NoSnapshot ELSE now
           l == IF stake = 0 THEN NoSnapshot ELSE [now EXCEPT !.S = 0]
<1>1. issued \in Nat /\ TypeOK /\ UpdateSnapshots(u, tag, value, stake, issued)
  BY DEF IsCall, PoolInv, DepositorCall
<1>2. now \in Snapshot /\ [now EXCEPT !.S = 0] \in Snapshot /\ NoSnapshot \in Snapshot
  BY <1>1, GAfterIssuance, SnapshotOfNow
<1>3. k \in Snapshot /\ l \in Snapshot
  <2> HIDE DEF now
  <2> QED BY <1>2
<1>4. /\ deposits' = [deposits EXCEPT ![u] =
           [initialValue |-> value, frontEndTag |-> IF value = 0 THEN NoTag ELSE tag]]
      /\ depositSnapshots' = [depositSnapshots EXCEPT ![u] = k]
      /\ frontEndStakes' = [frontEndStakes EXCEPT ![tag] = stake]
      /\ frontEndSnapshots' = [frontEndSnapshots EXCEPT ![tag] = l]
  BY <1>1 DEF UpdateSnapshots
<1>5. /\ value # 0 => /\ k.epoch = currentEpoch /\ k.scale = currentScale /\ k.P = P
                      /\ k.S = S[currentEpoch][currentScale]
                      /\ k.G = GAfter(issued)[currentEpoch][currentScale]
      /\ stake # 0 => /\ l.epoch = currentEpoch /\ l.scale = currentScale /\ l.P = P
                      /\ l.G = GAfter(issued)[currentEpoch][currentScale]
  BY DEF SnapshotNow
<1>6. (value = 0 => k = NoSnapshot) /\ (stake = 0 => l = NoSnapshot)
  OBVIOUS
<1> HIDE DEF k, l, now
<1> QED BY <1>3, <1>4, <1>5, <1>6

\* A call of a depositor pays one claim on the RBTC and makes it anew.
LEMMA CallKeepsRBTCCover ==
  ASSUME CoverInv, NEW u, NEW tag, NEW value, NEW stake, NEW issued, NEW change,
         IsCall(u, tag, value, stake, issued, change)
  PROVE  AreCovered(RBTCClaims, RBTCPool)'
<1> DEFINE h    == <<u, "deposit">>
           c    == RBTCClaims
           q    == RBTCPool
           gain == DepositorRBTCGain(u)
           left == CompoundedBPDDeposit(u)
           D    == DECIMAL_PRECISION
<1>1. /\ PoolInv /\ TypeOK /\ u \in Addresses /\ value \in Nat /\ change \in Int
      /\ value = left + change /\ totalBPDDeposits' = totalBPDDeposits + change
      /\ RBTC' = RBTC - gain
      /\ UNCHANGED <<P, currentScale, currentEpoch, S>>
      /\ lastError' = [lastError EXCEPT !.MP = MPErrorAfter(issued)]
      /\ dust' = [dust EXCEPT !.MP = MPDustAfter(issued)]
  BY DEF CoverInv, PoolInv, IsCall, DepositorCall, productVars
<1>2. PICK s \in Snapshot :
        /\ deposits' = [deposits EXCEPT ![u] =
             [initialValue |-> value, frontEndTag |-> IF value = 0 THEN NoTag ELSE tag]]
        /\ depositSnapshots' = [depositSnapshots EXCEPT ![u] = s]
        /\ IF value = 0 THEN s = NoSnapshot
           ELSE /\ s.epoch = currentEpoch /\ s.scale = currentScale /\ s.P = P
                /\ s.S = S[currentEpoch][currentScale]
  BY <1>1, CallMoves
<1> DEFINE k == ClaimOf(value, D, s.S, s)
<1>3. q \in Pool /\ AreClaims(c, q) /\ AreCovered(c, q)
  BY <1>1, PoolsOfState, ClaimsOfState DEF CoverInv
<1>4. k \in Claim /\ SnapshotIsPast(k, q) /\ (value = 0 \/ IsFresh(k, q))
  <2>1. q.P # 0 /\ q.sums[q.epoch][q.scale + 1] = 0
    <3>1. S[currentEpoch][currentScale + 1] = 0
      BY <1>1, ScalesAreIndexes DEF PoolInv, FutureIsEmpty
    <3> QED BY <1>1, <3>1, ScalesAreIndexes DEF RBTCPool
  <2>2. s.S \in Nat /\ D \in Nat
    BY Constants DEF Snapshot
  <2>3. \/ value = 0 /\ s.S = 0 /\ s = NoSnapshot
        \/ /\ s.epoch = q.epoch /\ s.scale = q.scale /\ s.P = q.P
           /\ s.S = q.sums[q.epoch][q.scale]
    BY <1>2 DEF RBTCPool, NoSnapshot
  <2> HIDE DEF q, D
  <2> QED BY <1>1, <1>3, <2>1, <2>2, <2>3, ClaimMadeNow
<1>5. k.stake = value /\ k.weight = D
  BY DEF ClaimOf
<1>6. /\ h \in Holders
      /\ c[h] = ClaimOf(deposits[u].initialValue, D, depositSnapshots[u].S, depositSnapshots[u])
  BY <1>1, ClaimsOfHolders
<1>7. c[h].weight = D
  BY <1>6 DEF ClaimOf
<1>8. left \in Nat /\ left <= Kept(c[h], q)
  <2>1. /\ deposits[u].initialValue \in Nat /\ D \in Nat /\ depositSnapshots[u].S \in Nat
        /\ depositSnapshots[u] \in Snapshot /\ IsPast(deposits[u].initialValue, depositSnapshots[u])
    BY <1>1, Constants DEF PoolInv, TypeOK, SnapshotsArePast, Snapshot
  <2>2. left = Compounded(deposits[u].initialValue, depositSnapshots[u])
    BY DEF CompoundedBPDDeposit
  <2> HIDE DEF left, D, q, c, h
  <2>3. /\ Compounded(deposits[u].initialValue, depositSnapshots[u]) \in Nat
        /\ Compounded(deposits[u].initialValue, depositSnapshots[u])
             <= Kept(ClaimOf(deposits[u].initialValue, D, depositSnapshots[u].S, depositSnapshots[u]), q)
    BY <1>1, <2>1, CompoundedIsKept DEF q
  <2> QED BY <1>6, <2>2, <2>3
<1>9. gain \in Nat /\ gain = GainOf(c[h], q)
  <2>1. q.sums = S
    BY DEF RBTCPool
  <2> QED BY <1>1, <1>6, <2>1, GainNat, GainFromIsGainOf DEF DepositorRBTCGain
<1>10. D \in Nat /\ D * change \in Int /\ D * value = D * left + D * change
  <2> HIDE DEF left
  <2> QED BY <1>1, <1>8, Constants
<1>11. RBTCClaims' = [c EXCEPT ![h] = k]
  <2>1. ASSUME NEW v \in Addresses
        PROVE  /\ RBTCClaims'[<<v, "frontEnd">>] = [c EXCEPT ![h] = k][<<v, "frontEnd">>]
               /\ RBTCClaims'[<<v, "deposit">>] = [c EXCEPT ![h] = k][<<v, "deposit">>]
    <3>1. /\ <<v, "deposit">> \in Holders /\ <<v, "frontEnd">> \in Holders
          /\ RBTCClaims[<<v, "frontEnd">>] = ClaimOf(0, 0, 0, NoSnapshot)
          /\ RBTCClaims[<<v, "deposit">>]
              = ClaimOf(deposits[v].initialValue, D, depositSnapshots[v].S, depositSnapshots[v])
      BY ClaimsOfHolders
    <3>2. /\ RBTCClaims'[<<v, "frontEnd">>] = ClaimOf(0, 0, 0, NoSnapshot)
          /\ RBTCClaims'[<<v, "deposit">>]
              = ClaimOf(deposits'[v].initialValue, D, depositSnapshots'[v].S, depositSnapshots'[v])
      BY <3>1 DEF RBTCClaims
    <3>3. /\ v # u => deposits'[v] = deposits[v] /\ depositSnapshots'[v] = depositSnapshots[v]
          /\ v = u => deposits'[v].initialValue = value /\ depositSnapshots'[v] = s
      BY <1>1, <1>2 DEF TypeOK
    <3>4. c \in [Holders -> Claim] /\ <<v, "frontEnd">> # h /\ (<<v, "deposit">> = h <=> v = u)
      BY <1>3 DEF AreClaims
    <3>5. [c EXCEPT ![h] = k][<<v, "frontEnd">>] = c[<<v, "frontEnd">>]
          /\ [c EXCEPT ![h] = k][<<v, "deposit">>] = IF v = u THEN k ELSE c[<<v, "deposit">>]
      <4> HIDE DEF h, c, k
      <4> QED BY <3>1, <3>4
    <3> HIDE DEF h
    <3> QED BY <3>1, <3>2, <3>3, <3>5
  <2>2. RBTCClaims' = [i \in Holders |-> RBTCClaims'[i]]
    BY DEF RBTCClaims
  <2>3. [c EXCEPT ![h] = k] = [i \in Holders |-> [c EXCEPT ![h] = k][i]]
    <3>1. c = [i \in Holders |-> c[i]]
      BY <1>3 DEF AreClaims
    <3> HIDE DEF c, h, k
    <3> QED BY <3>1
  <2> DEFINE e == [c EXCEPT ![h] = k]
  <2> HIDE DEF e, h
  <2>4. ASSUME NEW i \in Holders PROVE RBTCClaims'[i] = e[i]
    BY <2>1, HolderCases DEF e
  <2> QED BY <2>2, <2>3, <2>4 DEF e
<1>12. RBTCPool' = Paid(q, D * change, gain)
  <2>1. totalBPDDeposits \in Nat /\ RBTC \in Nat
    BY <1>1 DEF TypeOK
  <2>2. totalBPDDeposits' * D = totalBPDDeposits * D + D * change
    BY <1>1, <1>10, <2>1
  <2>3. lastError'.BPDLoss = lastError.BPDLoss /\ lastError'.RBTC = lastError.RBTC
        /\ dust'.loss = dust.loss /\ dust'.RBTC = dust.RBTC
    BY <1>1 DEF TypeOK
  <2>4. RBTC' = RBTC - gain /\ P' = P /\ currentScale' = currentScale /\ currentEpoch' = currentEpoch /\ S' = S
    BY <1>1
  <2> HIDE DEF gain, D
  <2>5. RBTCPool' = [P |-> P, scale |-> currentScale, epoch |-> currentEpoch, sums |-> S,
                     worth |-> totalBPDDeposits * D + D * change, lossError |-> lastError.BPDLoss,
                     lossDust |-> dust.loss, error |-> lastError.RBTC, held |-> RBTC - gain,
                     dust |-> dust.RBTC]
    BY <2>2, <2>3, <2>4 DEF RBTCPool, D
  <2> QED BY <2>5 DEF RBTCPool, Paid, D
<1> HIDE DEF h, c, q, gain, left, D, k
<1>13. /\ AreClaims([c EXCEPT ![h] = k], Paid(q, D * change, gain))
       /\ AreCovered([c EXCEPT ![h] = k], Paid(q, D * change, gain))
  <2>1. k.weight * k.stake <= c[h].weight * left + D * change
    BY <1>1, <1>5, <1>7, <1>8, <1>10
  <2>2. DECIMAL_PRECISION * gain <= c[h].weight * GainOf(c[h], q)
    BY <1>7, <1>9, <1>10 DEF D
  <2> QED BY <1>3, <1>4, <1>5, <1>6, <1>8, <1>9, <1>10, <2>1, <2>2, ReplaceKeepsCover
<1> QED BY <1>11, <1>12, <1>13 DEF c, q

\* What is read of a claim on the MP after an issuance, and of the same claim after a payment.
LEMMA PaymentReadsTheSame ==
  ASSUME NEW q \in Pool, NEW change \in Int, NEW paid \in Nat, NEW k \in Claim
  PROVE  /\ Kept(k, Paid(q, change, paid)) = Kept(k, q)
         /\ GainOf(k, Paid(q, change, paid)) = GainOf(k, q)
BY DEF Kept, GainOf, First, Second, Paid

\* The share of a depositor whose deposit is tagged by tag.
KickbackOf(tag) == IF tag = NoTag THEN DECIMAL_PRECISION ELSE frontEnds[tag].kickbackRate

\* What a call writes of the deposit, of the stake of its front end and of their snapshots.
CallWrites(u, tag, value, stake, s, t) ==
  /\ deposits' = [deposits EXCEPT ![u] =
       [initialValue |-> value, frontEndTag |-> IF value = 0 THEN NoTag ELSE tag]]
  /\ depositSnapshots' = [depositSnapshots EXCEPT ![u] = s]
  /\ frontEndStakes' = [frontEndStakes EXCEPT ![tag] = stake]
  /\ frontEndSnapshots' = [frontEndSnapshots EXCEPT ![tag] = t]

\* The claim h on the MP after these writes.
ClaimWritten(u, tag, value, stake, s, t, h) ==
  IF h = <<u, "deposit">>
  THEN ClaimOf(value, IF value = 0 THEN DECIMAL_PRECISION ELSE KickbackOf(tag), s.G, s)
  ELSE IF h = <<tag, "frontEnd">>
  THEN ClaimOf(stake, DECIMAL_PRECISION - frontEnds[tag].kickbackRate, t.G, t)
  ELSE MPClaims[h]

\* The claims on the MP after a call: that of the depositor and, if the deposit is tagged, that of the
\* front end are made anew.
LEMMA MPClaimsAfterCall ==
  ASSUME PoolInv, NEW u, NEW tag, NEW value, NEW stake, NEW issued, NEW change,
         IsCall(u, tag, value, stake, issued, change), NEW s, NEW t,
         CallWrites(u, tag, value, stake, s, t), NEW h \in Holders
  PROVE  MPClaims'[h] = ClaimWritten(u, tag, value, stake, s, t, h)
<1>1. /\ TypeOK /\ u \in Addresses /\ tag \in Tags /\ frontEnds' = frontEnds
      /\ CallWrites(u, tag, value, stake, s, t)
  BY DEF PoolInv, IsCall, DepositorCall
<1>2. ASSUME NEW v \in Addresses
      PROVE  /\ MPClaims'[<<v, "deposit">>]
                  = ClaimOf(deposits'[v].initialValue,
                            IF deposits'[v].frontEndTag = NoTag THEN DECIMAL_PRECISION
                            ELSE frontEnds[deposits'[v].frontEndTag].kickbackRate,
                            depositSnapshots'[v].G, depositSnapshots'[v])
             /\ MPClaims'[<<v, "frontEnd">>]
                  = ClaimOf(frontEndStakes'[v], DECIMAL_PRECISION - frontEnds[v].kickbackRate,
                            frontEndSnapshots'[v].G, frontEndSnapshots'[v])
  <2>1. <<v, "deposit">> \in Holders /\ <<v, "frontEnd">> \in Holders
    BY ClaimsOfHolders
  <2> QED BY <1>1, <2>1 DEF MPClaims, Kickback
<1>3. ASSUME NEW v \in Addresses, v # u
      PROVE  MPClaims'[<<v, "deposit">>] = MPClaims[<<v, "deposit">>]
  <2>1. deposits'[v] = deposits[v] /\ depositSnapshots'[v] = depositSnapshots[v]
    BY <1>1, <1>3 DEF TypeOK, CallWrites
  <2>2. MPClaims[<<v, "deposit">>]
          = ClaimOf(deposits[v].initialValue,
                    IF deposits[v].frontEndTag = NoTag THEN DECIMAL_PRECISION
                    ELSE frontEnds[deposits[v].frontEndTag].kickbackRate,
                    depositSnapshots[v].G, depositSnapshots[v])
    BY ClaimsOfHolders DEF Kickback
  <2> QED BY <1>2, <2>1, <2>2
<1>4. ASSUME NEW v \in Addresses, v # tag
      PROVE  MPClaims'[<<v, "frontEnd">>] = MPClaims[<<v, "frontEnd">>]
  <2>1. frontEndStakes'[v] = frontEndStakes[v] /\ frontEndSnapshots'[v] = frontEndSnapshots[v]
    BY <1>1, <1>4 DEF TypeOK, Tags, CallWrites
  <2> QED BY <1>2, <2>1, ClaimsOfHolders
<1>5. MPClaims'[<<u, "deposit">>]
        = ClaimOf(value, IF value = 0 THEN DECIMAL_PRECISION ELSE KickbackOf(tag), s.G, s)
  <2>1. /\ deposits'[u].initialValue = value /\ depositSnapshots'[u] = s
        /\ deposits'[u].frontEndTag = IF value = 0 THEN NoTag ELSE tag
    BY <1>1 DEF TypeOK, CallWrites
  <2> QED BY <1>1, <1>2, <2>1 DEF KickbackOf
<1>6. tag \in Addresses
        => MPClaims'[<<tag, "frontEnd">>]
             = ClaimOf(stake, DECIMAL_PRECISION - frontEnds[tag].kickbackRate, t.G, t)
  <2>1. frontEndStakes'[tag] = stake /\ frontEndSnapshots'[tag] = t
    BY <1>1 DEF TypeOK, CallWrites
  <2> QED BY <1>2, <2>1
<1> SUFFICES MPClaims'[h] =
               IF h = <<u, "deposit">>
               THEN ClaimOf(value, IF value = 0 THEN DECIMAL_PRECISION ELSE KickbackOf(tag), s.G, s)
               ELSE IF h = <<tag, "frontEnd">>
               THEN ClaimOf(stake, DECIMAL_PRECISION - frontEnds[tag].kickbackRate, t.G, t)
               ELSE MPClaims[h]
  BY DEF ClaimWritten
<1> DEFINE v == h[1]
<1>7. v \in Addresses /\ (h = <<v, "deposit">> \/ h = <<v, "frontEnd">>)
  BY HolderCases
<1> HIDE DEF v
<1>8. CASE h = <<v, "deposit">>
  <2>1. (h = <<u, "deposit">> <=> v = u) /\ h # <<tag, "frontEnd">>
    BY <1>8
  <2> QED BY <1>3, <1>5, <1>7, <1>8, <2>1
<1>9. CASE h = <<v, "frontEnd">>
  <2>1. h # <<u, "deposit">> /\ (h = <<tag, "frontEnd">> <=> v = tag)
    BY <1>9
  <2> QED BY <1>4, <1>6, <1>7, <1>9, <2>1
<1> QED BY <1>7, <1>8, <1>9

\* The pool of MP after a call: a share of the change and of the payment for each claim.
LEMMA MPPoolAfterCall ==
  ASSUME PoolInv, NEW u, NEW tag, NEW value, NEW stake, NEW issued, NEW change,
         IsCall(u, tag, value, stake, issued, change), NEW a \in Int, NEW b \in Int,
         a + b = DECIMAL_PRECISION * change, NEW m \in Nat, NEW n \in Nat,
         m + n = DepositorMPGain(GAfter(issued), u)
                   + (IF tag = NoTag THEN 0 ELSE FrontEndMPGain(GAfter(issued), tag))
  PROVE  MPPool' = Paid(Paid(IssuedPool(issued), a, m), b, n)
<1> DEFINE D == DECIMAL_PRECISION
           paid == DepositorMPGain(GAfter(issued), u)
                     + (IF tag = NoTag THEN 0 ELSE FrontEndMPGain(GAfter(issued), tag))
           q == IssuedPool(issued)
<1>1. /\ TypeOK /\ issued \in Nat /\ change \in Int
      /\ totalBPDDeposits' = totalBPDDeposits + change
      /\ UNCHANGED <<P, currentScale, currentEpoch>> /\ G' = GAfter(issued)
      /\ lastError' = [lastError EXCEPT !.MP = MPErrorAfter(issued)]
      /\ dust' = [dust EXCEPT !.MP = MPDustAfter(issued)]
      /\ mp' = MPAfter(issued, paid)
  BY DEF PoolInv, IsCall, DepositorCall, productVars
<1>2. /\ lastError'.BPDLoss = lastError.BPDLoss /\ lastError'.MP = MPErrorAfter(issued)
      /\ dust'.loss = dust.loss /\ dust'.MP = MPDustAfter(issued)
  BY <1>1 DEF TypeOK
<1>3. mp'.issued = MPAfter(issued, 0).issued /\ mp'.paid = mp.paid + paid
  BY <1>1 DEF MPAfter
<1>4. /\ totalBPDDeposits \in Nat /\ D \in Nat /\ mp.paid \in Nat /\ MPAfter(issued, 0).issued \in Nat
  BY <1>1, GAfterIssuance, Constants DEF TypeOK
<1>5. m + n = paid /\ a + b = D * change
  OBVIOUS
<1> HIDE DEF paid, D
<1>6. totalBPDDeposits' * D = (totalBPDDeposits * D + a) + b
  <2>1. (totalBPDDeposits + change) * D = totalBPDDeposits * D + D * change
    BY <1>1, <1>4
  <2>2. totalBPDDeposits * D \in Int
    BY <1>4
  <2> QED BY <1>1, <1>5, <2>1, <2>2
<1>7. mp'.issued - mp'.paid = ((MPAfter(issued, 0).issued - mp.paid) - m) - n
  BY <1>3, <1>4, <1>5
<1>8. MPPool' = [P |-> P, scale |-> currentScale, epoch |-> currentEpoch, sums |-> GAfter(issued),
                 worth |-> (totalBPDDeposits * D + a) + b, lossError |-> lastError.BPDLoss,
                 lossDust |-> dust.loss, error |-> MPErrorAfter(issued),
                 held |-> ((MPAfter(issued, 0).issued - mp.paid) - m) - n, dust |-> MPDustAfter(issued)]
  <2>1. P' = P /\ currentScale' = currentScale /\ currentEpoch' = currentEpoch /\ G' = GAfter(issued)
    BY <1>1
  <2> QED BY <1>2, <1>6, <1>7, <2>1 DEF MPPool, D
<1> QED BY <1>8 DEF IssuedPool, Paid, D

\* What the contract reads of a stake is at most what a claim on the MP keeps after the issuance.
LEMMA StakesAreKept ==
  ASSUME PoolInv, NEW u \in Addresses, NEW issued \in Nat
  PROVE  /\ CompoundedBPDDeposit(u) \in Nat
         /\ CompoundedBPDDeposit(u) <= Kept(MPClaims[<<u, "deposit">>], IssuedPool(issued))
         /\ deposits[u].initialValue = 0 => CompoundedBPDDeposit(u) = 0
         /\ CompoundedFrontEndStake(u) \in Nat
         /\ CompoundedFrontEndStake(u) <= Kept(MPClaims[<<u, "frontEnd">>], IssuedPool(issued))
<1>1. /\ TypeOK /\ u \in Tags
      /\ deposits[u].initialValue \in Nat /\ depositSnapshots[u] \in Snapshot
      /\ IsPast(deposits[u].initialValue, depositSnapshots[u])
      /\ frontEndStakes[u] \in Nat /\ frontEndSnapshots[u] \in Snapshot
      /\ IsPast(frontEndStakes[u], frontEndSnapshots[u])
  BY DEF PoolInv, TypeOK, SnapshotsArePast, Tags
<1>2. ASSUME NEW stake, NEW weight, NEW start, NEW snap
      PROVE  Kept(ClaimOf(stake, weight, start, snap), IssuedPool(issued)) = Remaining(stake, snap)
  BY DEF Kept, Remaining, ClaimOf, IssuedPool
<1>3. ASSUME NEW stake \in Nat, NEW snap \in Snapshot, IsPast(stake, snap)
      PROVE  Compounded(stake, snap) \in Nat /\ Compounded(stake, snap) <= Remaining(stake, snap)
  <2>1. /\ Compounded(stake, snap) \in Nat
        /\ Compounded(stake, snap) <= Kept(ClaimOf(stake, 0, 0, snap), RBTCPool)
    <3>1. 0 \in Nat
      OBVIOUS
    <3> QED BY <1>1, <1>3, <3>1, CompoundedIsKept
  <2>2. Kept(ClaimOf(stake, 0, 0, snap), RBTCPool) = Remaining(stake, snap)
    BY DEF Kept, Remaining, ClaimOf, RBTCPool
  <2> QED BY <2>1, <2>2
<1>4. /\ Kept(MPClaims[<<u, "deposit">>], IssuedPool(issued))
           = Remaining(deposits[u].initialValue, depositSnapshots[u])
      /\ Kept(MPClaims[<<u, "frontEnd">>], IssuedPool(issued))
           = Remaining(frontEndStakes[u], frontEndSnapshots[u])
  BY <1>2, ClaimsOfHolders
<1>5. /\ CompoundedBPDDeposit(u) = Compounded(deposits[u].initialValue, depositSnapshots[u])
      /\ CompoundedFrontEndStake(u) = Compounded(frontEndStakes[u], frontEndSnapshots[u])
  BY DEF CompoundedBPDDeposit, CompoundedFrontEndStake
<1>6. deposits[u].initialValue = 0 => Compounded(deposits[u].initialValue, depositSnapshots[u]) = 0
  BY DEF Compounded, Remaining
<1> QED BY <1>1, <1>3, <1>4, <1>5, <1>6

\* A call of a depositor pays its claim on the MP and that of its front end, after the issuance, and
\* makes them anew.
LEMMA CallKeepsMPCover ==
  ASSUME CoverInv, NEW u, NEW tag, NEW value, NEW stake, NEW issued, NEW change,
         IsCall(u, tag, value, stake, issued, change)
  PROVE  AreCovered(MPClaims, MPPool)'
<1> DEFINE D     == DECIMAL_PRECISION
           share == KickbackOf(tag)
           q     == IssuedPool(issued)
           g     == GAfter(issued)
           c     == MPClaims
           h     == <<u, "deposit">>
           left  == CompoundedBPDDeposit(u)
           paid  == DepositorMPGain(g, u)
           q1    == Paid(q, share * change, paid)
<1>1. /\ PoolInv /\ TypeOK /\ SnapshotsArePast /\ TagsAreRegistered
      /\ u \in Addresses /\ tag \in Tags /\ value \in Nat /\ stake \in Nat /\ issued \in Nat /\ change \in Int
      /\ deposits[u].initialValue # 0 => tag = deposits[u].frontEndTag
      /\ value = left + change /\ stake = CompoundedFrontEndStake(tag) + change
  BY DEF CoverInv, PoolInv, IsCall
<1>2. PICK s \in Snapshot, t \in Snapshot :
        /\ deposits' = [deposits EXCEPT ![u] =
             [initialValue |-> value, frontEndTag |-> IF value = 0 THEN NoTag ELSE tag]]
        /\ depositSnapshots' = [depositSnapshots EXCEPT ![u] = s]
        /\ frontEndStakes' = [frontEndStakes EXCEPT ![tag] = stake]
        /\ frontEndSnapshots' = [frontEndSnapshots EXCEPT ![tag] = t]
        /\ IF value = 0 THEN s = NoSnapshot
           ELSE /\ s.epoch = currentEpoch /\ s.scale = currentScale /\ s.P = P
                /\ s.G = g[currentEpoch][currentScale]
        /\ IF stake = 0 THEN t = NoSnapshot
           ELSE /\ t.epoch = currentEpoch /\ t.scale = currentScale /\ t.P = P
                /\ t.G = g[currentEpoch][currentScale]
  BY <1>1, CallMoves
<1> DEFINE weight == IF value = 0 THEN D ELSE share
           k == ClaimOf(value, weight, s.G, s)
           c1 == [c EXCEPT ![h] = k]
<1>3. /\ q \in Pool /\ AreClaims(c, q) /\ AreCovered(c, q) /\ q.sums = g
      /\ q.P = P /\ q.epoch = currentEpoch /\ q.scale = currentScale
  <2>1. q \in Pool /\ AreClaims(c, q) /\ AreCovered(c, q)
    BY <1>1, IssuanceIsReward, ClaimsAfterIssuance, IssuanceKeepsCover
  <2> QED BY <2>1 DEF IssuedPool
<1>4. D \in Nat /\ share \in Nat /\ D - share \in Nat
      /\ (tag # NoTag => share = frontEnds[tag].kickbackRate /\ tag \in Addresses)
  <2>1. tag # NoTag => tag \in Addresses
    BY <1>1 DEF Tags
  <2>2. tag \in Addresses => frontEnds[tag].kickbackRate \in 0..DECIMAL_PRECISION
    BY <1>1 DEF TypeOK
  <2> QED BY <2>1, <2>2, Constants DEF KickbackOf
<1>5. q.P # 0 /\ q.sums[q.epoch][q.scale + 1] = 0
  <2>1. g[currentEpoch][currentScale + 1] = G[currentEpoch][currentScale + 1]
    <3>1. \A e \in 0..MaxEpoch, i \in 0..(MaxScale + 1) :
            ~(e = currentEpoch /\ i = currentScale) => g[e][i] = G[e][i]
      BY <1>1, GAfterIssuance
    <3> HIDE DEF g
    <3> QED BY <1>1, <3>1, ScalesAreIndexes
  <2>2. G[currentEpoch][currentScale + 1] = 0
    BY <1>1, ScalesAreIndexes DEF PoolInv, FutureIsEmpty
  <2> QED BY <1>1, <1>3, <2>1, <2>2, ScalesAreIndexes
<1>6. k \in Claim /\ SnapshotIsPast(k, q) /\ (value = 0 \/ IsFresh(k, q))
      /\ k.stake = value /\ k.weight = weight
  <2>1. s.G \in Nat /\ weight \in Nat
    BY <1>4 DEF Snapshot
  <2>2. \/ value = 0 /\ s.G = 0 /\ s = NoSnapshot
        \/ s.epoch = q.epoch /\ s.scale = q.scale /\ s.P = q.P /\ s.G = q.sums[q.epoch][q.scale]
    BY <1>2, <1>3 DEF NoSnapshot
  <2>3. k.stake = value /\ k.weight = weight
    BY DEF ClaimOf
  <2> HIDE DEF q, weight, g
  <2> QED BY <1>1, <1>3, <1>5, <2>1, <2>2, <2>3, ClaimMadeNow
<1>7. /\ h \in Holders
      /\ c[h] = ClaimOf(deposits[u].initialValue, Kickback(u), depositSnapshots[u].G, depositSnapshots[u])
      /\ c[h].weight = Kickback(u) /\ Kickback(u) \in Nat
  <2>1. h \in Holders
        /\ c[h] = ClaimOf(deposits[u].initialValue, Kickback(u), depositSnapshots[u].G, depositSnapshots[u])
    BY <1>1, ClaimsOfHolders
  <2>2. c[h].weight = Kickback(u)
    BY <2>1 DEF ClaimOf
  <2>3. c[h] \in Claim
    BY <1>3, <2>1 DEF AreClaims
  <2> QED BY <2>1, <2>2, <2>3 DEF Claim
<1>8. left \in Nat /\ left <= Kept(c[h], q) /\ (deposits[u].initialValue = 0 => left = 0)
  BY <1>1, StakesAreKept
<1>9. paid \in Nat /\ D * paid <= c[h].weight * GainOf(c[h], q)
  <2> HIDE DEF q, g
  <2> QED BY <1>1, <1>3, MPGainsOfClaims
<1>10. k.weight * k.stake <= c[h].weight * left + share * change
  <2>1. share * change \in Int /\ Kickback(u) * left \in Int
    <3> HIDE DEF left, share
    <3> QED BY <1>1, <1>4, <1>7, <1>8
  <2>2. CASE deposits[u].initialValue = 0
    <3>1. left = 0 /\ value = change
      BY <1>1, <1>8, <2>2
    <3>2. weight * value <= share * value
      <4> HIDE DEF share
      <4>1. CASE value = 0
        BY <1>4, <4>1
      <4>2. CASE value # 0
        <5>1. weight = share
          BY <4>2
        <5> QED BY <1>1, <1>4, <5>1
      <4> QED BY <4>1, <4>2
    <3>3. Kickback(u) * left = 0
      <4> HIDE DEF left
      <4> QED BY <1>7, <3>1
    <3> HIDE DEF left, share, weight, k, c, h
    <3> QED BY <1>6, <1>7, <2>1, <3>1, <3>2, <3>3
  <2>3. CASE deposits[u].initialValue # 0
    <3>1. Kickback(u) = share
      BY <1>1, <2>3 DEF Kickback, KickbackOf
    <3> HIDE DEF left, share
    <3>2. share * left + share * change = share * value
      BY <1>1, <1>4, <1>8
    <3>3. weight * value <= share * value
      <4>1. CASE value = 0
        BY <1>4, <4>1
      <4>2. CASE value # 0
        <5>1. weight = share
          BY <4>2
        <5> QED BY <1>1, <1>4, <5>1
      <4> QED BY <4>1, <4>2
    <3> HIDE DEF weight, k, c, h
    <3> QED BY <1>6, <1>7, <3>1, <3>2, <3>3
  <2> QED BY <2>2, <2>3
<1>11. share * change \in Int /\ (D - share) * change \in Int
       /\ share * change + (D - share) * change = D * change /\ D * change \in Int
  <2> HIDE DEF share
  <2> QED BY <1>1, <1>4
<1> HIDE DEF D, share, q, g, c, h, left, paid, weight, k
<1>12. AreClaims(c1, q1) /\ AreCovered(c1, q1) /\ q1 \in Pool
  <2>1. DECIMAL_PRECISION * paid <= c[h].weight * GainOf(c[h], q)
    BY <1>9 DEF D
  <2>2. q1 \in Pool
    BY <1>3, <1>9, <1>11, PaidPool
  <2> QED BY <1>3, <1>6, <1>7, <1>8, <1>9, <1>10, <1>11, <2>1, <2>2, ReplaceKeepsCover
<1>13. \A i \in Holders :
         MPClaims'[i] = IF i = h THEN k
                        ELSE IF i = <<tag, "frontEnd">>
                        THEN ClaimOf(stake, DECIMAL_PRECISION - frontEnds[tag].kickbackRate, t.G, t)
                        ELSE c[i]
  <2>1. CallWrites(u, tag, value, stake, s, t) /\ PoolInv /\ IsCall(u, tag, value, stake, issued, change)
    BY <1>1, <1>2 DEF CallWrites
  <2>2. ASSUME NEW i \in Holders
        PROVE  MPClaims'[i] = ClaimWritten(u, tag, value, stake, s, t, i)
    BY ONLY <2>1, i \in Holders, MPClaimsAfterCall
  <2> QED BY <2>2 DEF ClaimWritten, h, k, c, weight, share, D
<1>14. c \in [Holders -> Claim] /\ MPClaims' = [i \in Holders |-> MPClaims'[i]]
       /\ c1 \in [Holders -> Claim] /\ \A i \in Holders : c1[i] = IF i = h THEN k ELSE c[i]
  <2>1. c \in [Holders -> Claim]
    BY <1>3 DEF AreClaims
  <2>2. MPClaims' = [i \in Holders |-> MPClaims'[i]]
    BY DEF MPClaims
  <2> QED BY <1>6, <1>7, <2>1, <2>2
<1> HIDE DEF c1, q1
<1>15. CASE tag = NoTag
  <2>1. share = D
    BY <1>15 DEF share, KickbackOf, D
  <2>2. MPPool' = Paid(Paid(q, D * change, paid), 0, 0)
    <3> DEFINE a == D * change
               m == paid
    <3>1. a \in Int /\ 0 \in Int /\ 0 \in Nat /\ a + 0 = DECIMAL_PRECISION * change
      BY <1>11 DEF D
    <3>2. m \in Nat /\ m + 0 = DepositorMPGain(GAfter(issued), u)
                                 + (IF tag = NoTag THEN 0 ELSE FrontEndMPGain(GAfter(issued), tag))
      BY <1>9, <1>15 DEF paid, g
    <3>3. PoolInv /\ IsCall(u, tag, value, stake, issued, change)
      BY <1>1
    <3> HIDE DEF a, m
    <3>4. MPPool' = Paid(Paid(IssuedPool(issued), a, m), 0, 0)
      BY ONLY <3>1, <3>2, <3>3, MPPoolAfterCall
    <3> QED BY <3>4 DEF a, m, q
  <2>3. Paid(q1, 0, 0) = q1
    <3>1. q1.worth \in Int /\ q1.held \in Int
      BY <1>12 DEF Pool
    <3>2. q1.worth + 0 = q1.worth /\ q1.held - 0 = q1.held
      BY <3>1
    <3>3. Paid(q1, 0, 0) = [P |-> q1.P, scale |-> q1.scale, epoch |-> q1.epoch, sums |-> q1.sums,
            worth |-> q1.worth, lossError |-> q1.lossError, lossDust |-> q1.lossDust,
            error |-> q1.error, held |-> q1.held, dust |-> q1.dust]
      BY <3>2 DEF Paid
    <3> QED BY <1>12, <3>3 DEF Pool
  <2>4. MPPool' = q1
    BY <2>1, <2>2, <2>3 DEF q1
  <2>5. MPClaims' = c1
    <3>1. \A i \in Holders : i # <<tag, "frontEnd">>
      BY <1>15, StabilityPoolAssumption DEF Holders
    <3>2. \A i \in Holders : MPClaims'[i] = c1[i]
      BY <1>13, <1>14, <3>1
    <3>3. c1 = [i \in Holders |-> c1[i]]
      BY <1>14
    <3> QED BY <1>14, <3>2, <3>3
  <2> QED BY <1>12, <2>4, <2>5
<1>16. CASE tag # NoTag
  <2> DEFINE j     == <<tag, "frontEnd">>
             l     == ClaimOf(stake, D - share, t.G, t)
             left2 == CompoundedFrontEndStake(tag)
             paid2 == FrontEndMPGain(g, tag)
             q2    == Paid(q1, (D - share) * change, paid2)
             c2    == [c1 EXCEPT ![j] = l]
  <2>1. tag \in Addresses /\ share = frontEnds[tag].kickbackRate
    BY <1>4, <1>16
  <2>2. /\ j \in Holders /\ j # h
        /\ c[j] = ClaimOf(frontEndStakes[tag], D - share, frontEndSnapshots[tag].G, frontEndSnapshots[tag])
        /\ c[j].weight = D - share /\ c1[j] = c[j] /\ c[j] \in Claim
    <3>1. /\ j \in Holders
          /\ c[j] = ClaimOf(frontEndStakes[tag], D - share, frontEndSnapshots[tag].G, frontEndSnapshots[tag])
      BY <2>1, ClaimsOfHolders DEF c, D
    <3>2. c[j].weight = D - share
      BY <3>1 DEF ClaimOf
    <3>3. j # h
      BY DEF h
    <3> HIDE DEF j
    <3> QED BY <1>14, <3>1, <3>2, <3>3
  <2>3. /\ q1 \in Pool /\ q1.P = q.P /\ q1.epoch = q.epoch /\ q1.scale = q.scale /\ q1.sums = q.sums
        /\ Kept(c[j], q1) = Kept(c[j], q) /\ GainOf(c[j], q1) = GainOf(c[j], q)
    <3>1. q1.P = q.P /\ q1.epoch = q.epoch /\ q1.scale = q.scale /\ q1.sums = q.sums
      BY DEF q1, Paid
    <3>2. Kept(c[j], q1) = Kept(c[j], q) /\ GainOf(c[j], q1) = GainOf(c[j], q)
      BY <1>3, <1>9, <1>11, <2>2, PaymentReadsTheSame DEF q1
    <3> QED BY <1>12, <3>1, <3>2
  <2>4. l \in Claim /\ SnapshotIsPast(l, q1) /\ (stake = 0 \/ IsFresh(l, q1))
        /\ l.stake = stake /\ l.weight = D - share
    <3>1. t.G \in Nat /\ q1.P # 0 /\ q1.sums[q1.epoch][q1.scale + 1] = 0
      BY <1>5, <2>3 DEF Snapshot
    <3>2. \/ stake = 0 /\ t.G = 0 /\ t = NoSnapshot
          \/ t.epoch = q1.epoch /\ t.scale = q1.scale /\ t.P = q1.P /\ t.G = q1.sums[q1.epoch][q1.scale]
      BY <1>2, <1>3, <2>3 DEF NoSnapshot
    <3>3. l.stake = stake /\ l.weight = D - share
      BY DEF ClaimOf
    <3> QED BY <1>1, <1>4, <2>3, <3>1, <3>2, <3>3, ClaimMadeNow
  <2>5. left2 \in Nat /\ left2 <= Kept(c1[j], q1)
    <3>1. left2 \in Nat /\ left2 <= Kept(MPClaims[<<tag, "frontEnd">>], IssuedPool(issued))
      BY <1>1, <2>1, StakesAreKept
    <3> HIDE DEF left2
    <3> QED BY <2>2, <2>3, <3>1 DEF c, q
  <2>6. paid2 \in Nat /\ DECIMAL_PRECISION * paid2 <= c1[j].weight * GainOf(c1[j], q1)
    <3>1. /\ FrontEndMPGain(q.sums, tag) \in Nat
          /\ DECIMAL_PRECISION * FrontEndMPGain(q.sums, tag) <= c[j].weight * GainOf(c[j], q)
      BY <1>1, <1>3, <2>1, MPGainsOfClaims DEF c
    <3> QED BY <1>3, <2>2, <2>3, <3>1
  <2>7. l.weight * l.stake <= c1[j].weight * left2 + (D - share) * change
    <3>1. stake = left2 + change
      BY <1>1
    <3> HIDE DEF left2, l, j
    <3>2. (D - share) * left2 + (D - share) * change = (D - share) * stake
      BY <1>1, <1>4, <2>5, <3>1
    <3>3. (D - share) * stake \in Int
      BY <1>1, <1>4
    <3> QED BY <2>2, <2>4, <3>2, <3>3
  <2>8. MPPool' = q2
    <3> DEFINE a == share * change
               b == (D - share) * change
               m == paid
               n == paid2
    <3>1. a \in Int /\ b \in Int /\ a + b = DECIMAL_PRECISION * change
      BY <1>11 DEF D
    <3>2. m \in Nat /\ n \in Nat
          /\ m + n = DepositorMPGain(GAfter(issued), u)
                      + (IF tag = NoTag THEN 0 ELSE FrontEndMPGain(GAfter(issued), tag))
      <4>1. m \in Nat /\ n \in Nat
        BY <1>9, <2>6
      <4>2. m + n = DepositorMPGain(GAfter(issued), u)
                      + (IF tag = NoTag THEN 0 ELSE FrontEndMPGain(GAfter(issued), tag))
        BY <1>16 DEF paid, g
      <4> QED BY <4>1, <4>2
    <3>3. PoolInv /\ IsCall(u, tag, value, stake, issued, change)
      BY <1>1
    <3>4. q2 = Paid(Paid(IssuedPool(issued), a, m), b, n)
      BY DEF q, q1
    <3> HIDE DEF a, b, m, n, q2
    <3>5. MPPool' = Paid(Paid(IssuedPool(issued), a, m), b, n)
      BY ONLY <3>1, <3>2, <3>3, MPPoolAfterCall
    <3> QED BY <3>4, <3>5
  <2>9. MPClaims' = c2
    <3>1. ClaimOf(stake, DECIMAL_PRECISION - frontEnds[tag].kickbackRate, t.G, t) = l
      BY <2>1 DEF D
    <3> HIDE DEF j, l
    <3>2. \A i \in Holders : MPClaims'[i] = IF i = h THEN k ELSE IF i = j THEN l ELSE c[i]
      BY <1>13, <3>1 DEF j
    <3>3. \A i \in Holders : c2[i] = IF i = j THEN l ELSE c1[i]
      BY <1>14
    <3>4. \A i \in Holders : MPClaims'[i] = c2[i]
      BY <1>14, <2>2, <3>2, <3>3
    <3>5. c2 = [i \in Holders |-> c2[i]]
      BY <1>14
    <3> HIDE DEF c2
    <3> QED BY <1>14, <3>4, <3>5
  <2> HIDE DEF j, l, left2, paid2
  <2>10. AreCovered(c2, q2)
    BY <1>11, <1>12, <2>2, <2>4, <2>5, <2>6, <2>7, ReplaceKeepsCover
  <2> QED BY <2>8, <2>9, <2>10
<1> QED BY <1>15, <1>16

\* A loss of the state's pools: what LossKeepsCover asks of the pool before and after.
LEMMA OffsetKeepsCover ==
  ASSUME CoverInv, NEW debt \in Debts, NEW coll \in CollsAdded, NEW issued \in Issuances,
         Offset(debt, coll, issued)
  PROVE  CoverInv'
<1> DEFINE D == DECIMAL_PRECISION
           T == totalBPDDeposits
           r == Rewarded(RBTCPool, T, coll)
           m == IssuedPool(issued)
<1>1. PoolInv /\ PoolInv' /\ TypeOK /\ TypeOK' /\ lastError.BPDLoss <= dust.loss
  <2>1. PoolInv /\ PoolInv'
    BY OffsetKeepsInv DEF CoverInv
  <2> QED BY <2>1 DEF PoolInv, LossErrorIsDust
<1>2. /\ debt \in Nat /\ coll \in Nat /\ issued \in Nat /\ T \in Nat \ {0}
      /\ totalBPDDeposits' = T - debt /\ dust.loss <= dust'.loss
      /\ G' = GAfter(issued) /\ lastError'.MP = MPErrorAfter(issued) /\ dust'.MP = MPDustAfter(issued)
      /\ mp' = MPAfter(issued, 0)
      /\ S' = r.sums /\ lastError'.RBTC = r.error /\ dust'.RBTC = r.dust /\ RBTC' = r.held
      /\ UNCHANGED <<deposits, depositSnapshots, frontEnds, frontEndStakes, frontEndSnapshots>>
  BY <1>1, OffsetMoves
<1>3. PICK f \in 0..D :
        /\ \/ f = 0 /\ lastError'.BPDLoss = 0 /\ debt = T
           \/ f * T + debt * D + lastError'.BPDLoss = D * T + lastError.BPDLoss
        /\ \/ currentEpoch' = currentEpoch + 1
           \/ currentEpoch' = currentEpoch /\ currentScale' = currentScale /\ D * P' <= P * f
           \/ /\ currentEpoch' = currentEpoch /\ currentScale' = currentScale + 1
              /\ D * P' <= (P * f) * SCALE_FACTOR
  BY <1>1, OffsetMoves
<1>4. f \in Nat /\ f <= D /\ D \in Nat
  BY <1>3, Constants
<1>5. RBTCPool \in Pool /\ MPPool \in Pool /\ RBTCPool' \in Pool /\ MPPool' \in Pool
  <2>1. RBTCPool \in Pool /\ MPPool \in Pool
    BY <1>1, PoolsOfState
  <2>2. RBTCPool' \in Pool /\ MPPool' \in Pool
    <3>1. totalBPDDeposits' * DECIMAL_PRECISION \in Int /\ mp'.issued - mp'.paid \in Int /\ P' \in Nat
      BY <1>1, Constants DEF TypeOK
    <3>2. RBTCPool' \in Pool
      BY <1>1, <3>1 DEF TypeOK, RBTCPool, Pool
    <3>3. MPPool' \in Pool
      BY <1>1, <3>1 DEF TypeOK, MPPool, Pool
    <3> QED BY <3>2, <3>3
  <2> QED BY <1>1, <2>1, <2>2
<1>6. RBTCClaims' = RBTCClaims /\ MPClaims' = MPClaims
  BY <1>2 DEF RBTCClaims, MPClaims, Kickback
<1>7. AreCovered(RBTCClaims, RBTCPool)'
  <2>1. RBTCPool.worth = T * D
    BY DEF RBTCPool
  <2>2. r \in Pool /\ AreClaims(RBTCClaims, r) /\ AreCovered(RBTCClaims, r)
    <3>1. AreClaims(RBTCClaims, RBTCPool) /\ AreCovered(RBTCClaims, RBTCPool)
      BY <1>1, ClaimsOfState DEF CoverInv
    <3> QED BY <1>2, <1>5, <2>1, <3>1, RewardKeepsCover, RewardedPool
  <2>3. /\ r.P = P /\ r.scale = currentScale /\ r.epoch = currentEpoch /\ r.worth = T * D
        /\ r.lossError = lastError.BPDLoss /\ r.lossDust = dust.loss
    BY DEF Rewarded, RBTCPool
  <2> DEFINE q2 == RBTCPool'
  <2>4. /\ q2.P = P' /\ q2.scale = currentScale' /\ q2.epoch = currentEpoch' /\ q2.sums = r.sums
        /\ q2.lossError = lastError'.BPDLoss /\ q2.lossDust = dust'.loss /\ q2.error = r.error
        /\ q2.held = r.held /\ q2.dust = r.dust /\ q2.worth = (T - debt) * D
    BY <1>2 DEF RBTCPool
  <2>5. q2 \in Pool
    BY <1>5
  <2> HIDE DEF q2, r, D, T
  <2>6. AreCovered(RBTCClaims, q2)
    <3>1. /\ r.lossError <= r.lossDust /\ r.lossDust <= q2.lossDust
          /\ \/ f = 0 /\ q2.lossError = 0 /\ debt = T
             \/ f * T + debt * D + q2.lossError = D * T + r.lossError
          /\ \/ q2.epoch = r.epoch + 1
             \/ q2.epoch = r.epoch /\ q2.scale = r.scale /\ D * q2.P <= r.P * f
             \/ q2.epoch = r.epoch /\ q2.scale = r.scale + 1 /\ D * q2.P <= (r.P * f) * SCALE_FACTOR
      BY <1>1, <1>2, <1>3, <2>3, <2>4
    <3>2. T \in Nat /\ r.worth = T * D
      BY <1>2, <2>3
    <3> QED BY <1>2, <1>4, <2>2, <2>4, <2>5, <3>1, <3>2, LossKeepsCover DEF D
  <2> QED BY <1>6, <2>6 DEF q2
<1>8. AreCovered(MPClaims, MPPool)'
  <2>1. m \in Pool /\ AreClaims(MPClaims, m) /\ AreCovered(MPClaims, m)
    BY <1>1, <1>2, IssuanceIsReward, ClaimsAfterIssuance, IssuanceKeepsCover
  <2>2. /\ m.P = P /\ m.scale = currentScale /\ m.epoch = currentEpoch /\ m.worth = T * D
        /\ m.lossError = lastError.BPDLoss /\ m.lossDust = dust.loss
        /\ m.sums = GAfter(issued) /\ m.error = MPErrorAfter(issued) /\ m.dust = MPDustAfter(issued)
        /\ m.held = MPAfter(issued, 0).issued - mp.paid
    BY DEF IssuedPool
  <2>3. mp'.issued - mp'.paid = MPAfter(issued, 0).issued - mp.paid
    <3>1. MPAfter(issued, 0).paid = mp.paid + 0 /\ mp.paid \in Nat
      BY <1>1 DEF MPAfter, TypeOK
    <3> QED BY <1>2, <3>1
  <2> DEFINE q2 == MPPool'
  <2>4. /\ q2.P = P' /\ q2.scale = currentScale' /\ q2.epoch = currentEpoch' /\ q2.sums = m.sums
        /\ q2.lossError = lastError'.BPDLoss /\ q2.lossDust = dust'.loss /\ q2.error = m.error
        /\ q2.held = m.held /\ q2.dust = m.dust /\ q2.worth = (T - debt) * D
    <3> HIDE DEF m
    <3> QED BY <1>2, <2>2, <2>3 DEF MPPool
  <2>5. q2 \in Pool
    BY <1>5
  <2> HIDE DEF q2, m, D, T
  <2>6. AreCovered(MPClaims, q2)
    <3>1. /\ m.lossError <= m.lossDust /\ m.lossDust <= q2.lossDust
          /\ \/ f = 0 /\ q2.lossError = 0 /\ debt = T
             \/ f * T + debt * D + q2.lossError = D * T + m.lossError
          /\ \/ q2.epoch = m.epoch + 1
             \/ q2.epoch = m.epoch /\ q2.scale = m.scale /\ D * q2.P <= m.P * f
             \/ q2.epoch = m.epoch /\ q2.scale = m.scale + 1 /\ D * q2.P <= (m.P * f) * SCALE_FACTOR
      BY <1>1, <1>2, <1>3, <2>2, <2>4
    <3>2. T \in Nat /\ m.worth = T * D
      BY <1>2, <2>2
    <3> QED BY <1>2, <1>4, <2>1, <2>4, <2>5, <3>1, <3>2, LossKeepsCover DEF D
  <2> QED BY <1>6, <2>6 DEF q2
<1> QED BY <1>1, <1>7, <1>8 DEF CoverInv

\* The claims of a front end that registers: no deposit is tagged by it and it has no stake, so that
\* only the weight of an empty claim changes.
LEMMA RegisterKeepsCover ==
  ASSUME CoverInv, NEW u \in Addresses, NEW kickbackRate \in KickbackRates, RegisterFrontEnd(u, kickbackRate)
  PROVE  CoverInv'
<1> DEFINE D == DECIMAL_PRECISION
           h == <<u, "frontEnd">>
           snap == frontEndSnapshots[u]
           k == ClaimOf(0, D - kickbackRate, snap.G, snap)
           c == MPClaims
<1>1. /\ PoolInv /\ PoolInv' /\ TypeOK /\ ~frontEnds[u].registered
      /\ frontEnds' = [frontEnds EXCEPT ![u] = [kickbackRate |-> kickbackRate, registered |-> TRUE]]
      /\ UNCHANGED <<deposits, depositSnapshots, frontEndStakes, frontEndSnapshots, P, currentScale,
                     currentEpoch, S, G, lastError, totalBPDDeposits, RBTC, mp, dust>>
  <2>1. PoolInv /\ PoolInv' /\ TypeOK
    BY RegisterKeepsInv DEF CoverInv, PoolInv
  <2> QED BY <2>1 DEF RegisterFrontEnd, RegisteredFrontEnds, depositVars, frontEndVars, productVars
<1>2. RBTCClaims' = RBTCClaims /\ RBTCPool' = RBTCPool /\ MPPool' = MPPool
  BY <1>1 DEF RBTCClaims, RBTCPool, MPPool
<1>3. D - kickbackRate \in Nat
  BY Constants, StabilityPoolAssumption
<1>4. /\ frontEndStakes[u] = 0
      /\ \A v \in Addresses : deposits[v].frontEndTag # u
  <2>1. u # NoTag
    BY StabilityPoolAssumption
  <2>2. frontEndStakes[u] = 0
    BY <1>1 DEF PoolInv, TagsAreRegistered
  <2>3. ASSUME NEW v \in Addresses PROVE deposits[v].frontEndTag # u
    BY <1>1, <2>1 DEF PoolInv, TagsAreRegistered
  <2> QED BY <2>2, <2>3
<1>5. k \in Claim /\ SnapshotIsPast(k, MPPool)
  <2>1. snap \in Snapshot /\ IsPast(0, snap)
    BY <1>1, <1>4 DEF PoolInv, TypeOK, SnapshotsArePast, Tags
  <2>2. 0 \in Nat
    OBVIOUS
  <2> HIDE DEF snap, D
  <2> QED BY <1>1, <1>3, <2>1, <2>2, PastIsClaim
<1>6. MPPool \in Pool /\ AreClaims(c, MPPool) /\ AreCovered(c, MPPool) /\ c \in [Holders -> Claim]
  <2>1. MPPool \in Pool /\ AreClaims(c, MPPool) /\ AreCovered(c, MPPool)
    BY <1>1, PoolsOfState, ClaimsOfState DEF CoverInv
  <2> QED BY <2>1 DEF AreClaims
<1>7. h \in Holders /\ c[h] \in Claim /\ k.stake = 0 /\ c[h].weight \in Nat
      /\ Kept(c[h], MPPool) \in Nat /\ GainOf(c[h], MPPool) \in Nat
  <2>1. h \in Holders /\ k.stake = 0
    BY ClaimsOfHolders DEF ClaimOf
  <2>2. c[h] \in Claim /\ SnapshotIsPast(c[h], MPPool)
    BY <1>6, <2>1 DEF AreClaims
  <2>3. c[h].weight \in Nat
    BY <2>2 DEF Claim
  <2> QED BY <1>6, <2>1, <2>2, <2>3, KeptNat
<1>8. MPClaims' = [c EXCEPT ![h] = k]
  <2>1. ASSUME NEW v \in Addresses
        PROVE  /\ MPClaims'[<<v, "deposit">>] = MPClaims[<<v, "deposit">>]
               /\ v # u => MPClaims'[<<v, "frontEnd">>] = MPClaims[<<v, "frontEnd">>]
               /\ v = u => MPClaims'[<<v, "frontEnd">>] = k
    <3>1. /\ <<v, "deposit">> \in Holders /\ <<v, "frontEnd">> \in Holders
          /\ MPClaims[<<v, "deposit">>]
               = ClaimOf(deposits[v].initialValue, Kickback(v), depositSnapshots[v].G, depositSnapshots[v])
          /\ MPClaims[<<v, "frontEnd">>]
               = ClaimOf(frontEndStakes[v], DECIMAL_PRECISION - frontEnds[v].kickbackRate,
                         frontEndSnapshots[v].G, frontEndSnapshots[v])
      BY ClaimsOfHolders
    <3>2. /\ MPClaims'[<<v, "deposit">>]
               = ClaimOf(deposits[v].initialValue, Kickback(v)', depositSnapshots[v].G, depositSnapshots[v])
          /\ MPClaims'[<<v, "frontEnd">>]
               = ClaimOf(frontEndStakes[v], DECIMAL_PRECISION - frontEnds'[v].kickbackRate,
                         frontEndSnapshots[v].G, frontEndSnapshots[v])
      BY <1>1, <3>1 DEF MPClaims
    <3>3. Kickback(v)' = Kickback(v)
      <4>1. deposits[v].frontEndTag # NoTag => deposits[v].frontEndTag \in Addresses
        BY <1>1 DEF TypeOK, Tags
      <4> QED BY <1>1, <1>4, <4>1 DEF Kickback, TypeOK
    <3>4. frontEnds'[v].kickbackRate = IF v = u THEN kickbackRate ELSE frontEnds[v].kickbackRate
      BY <1>1 DEF TypeOK
    <3> QED BY <1>4, <3>1, <3>2, <3>3, <3>4
  <2>2. MPClaims' = [i \in Holders |-> MPClaims'[i]]
    BY DEF MPClaims
  <2> DEFINE e == [c EXCEPT ![h] = k]
  <2>3. e \in [Holders -> Claim] /\ \A i \in Holders : e[i] = IF i = h THEN k ELSE c[i]
    <3> HIDE DEF c, k, h
    <3> QED BY <1>5, <1>6, <1>7
  <2>4. ASSUME NEW v \in Addresses
        PROVE <<v, "deposit">> # h /\ (<<v, "frontEnd">> = h <=> v = u)
    OBVIOUS
  <2> HIDE DEF e, h, k
  <2>5. ASSUME NEW i \in Holders PROVE MPClaims'[i] = e[i]
    BY <2>1, <2>3, <2>4, HolderCases
  <2>6. e = [i \in Holders |-> e[i]]
    BY <2>3
  <2> QED BY <2>2, <2>5, <2>6 DEF e
<1>9. Paid(MPPool, 0, 0) = MPPool
  <2>1. MPPool.worth \in Int /\ MPPool.held \in Int
    BY <1>6 DEF Pool
  <2>2. MPPool.worth + 0 = MPPool.worth /\ MPPool.held - 0 = MPPool.held
    BY <2>1
  <2> QED BY <2>2 DEF Paid, MPPool
<1> HIDE DEF c, k, h, D
<1>10. AreCovered([c EXCEPT ![h] = k], Paid(MPPool, 0, 0))
  <2>1. 0 \in Nat /\ 0 \in Int /\ 0 <= Kept(c[h], MPPool)
    BY <1>7
  <2>2. k.weight * k.stake <= c[h].weight * 0 + 0
    <3>1. k.weight \in Nat
      BY <1>5 DEF Claim
    <3> QED BY <1>7, <3>1
  <2>3. DECIMAL_PRECISION * 0 <= c[h].weight * GainOf(c[h], MPPool)
    BY <1>7, ProductNat, Constants
  <2> QED BY <1>5, <1>6, <1>7, <2>1, <2>2, <2>3, ReplaceKeepsCover
<1>11. AreCovered(RBTCClaims, RBTCPool)'
  BY <1>2 DEF CoverInv
<1> QED BY <1>1, <1>2, <1>8, <1>9, <1>10, <1>11 DEF CoverInv

\* The cover holds at first: no claim has a stake.
LEMMA EmptyClaimsAreCovered ==
  ASSUME NEW q \in Pool, NEW c, AreClaims(c, q), \A h \in Holders : c[h].stake = 0,
         q.worth = 0, q.lossError = 0, q.error = 0, q.held = 0
  PROVE  AreCovered(c, q)
<1> DEFINE none == [h \in Holders |-> 0]
<1>1. none \in [Holders -> Nat] /\ \A h \in Holders : none[h] = 0
  OBVIOUS
<1>2. c \in [Holders -> Claim] /\ \A h \in Holders : c[h] \in Claim /\ SnapshotIsPast(c[h], q)
  BY DEF AreClaims
<1>3. Weight(c, none) = 0
  <2>1. \A h \in Holders : Weighed(c, none)[h] = 0
    BY <1>2, WeightNat DEF Weighed, Claim
  <2> QED BY <2>1, HoldersAreFinite, SumZero DEF Weight
<1> HIDE DEF none
<1>4. AreBounds(c, q, 1, none, none)
  <2> SUFFICES ASSUME NEW h \in Holders
               PROVE  StakeIsBounded(c[h], q, 1, none[h]) /\ GainIsBoundedBy(c[h], q, 1, none[h])
    BY DEF AreBounds
  <2>1. c[h].stake = 0 /\ none[h] = 0
    BY <1>1
  <2>2. Earned(c[h], q) \in Nat /\ c[h].snap.P \in Nat /\ q.P \in Nat
    BY <1>2, ClaimNat
  <2>3. StakeIsBounded(c[h], q, 1, none[h])
    BY <2>1, <2>2, Constants DEF StakeIsBounded
  <2>4. GainIsBoundedBy(c[h], q, 1, none[h])
    BY <2>1, <2>2, Constants DEF GainIsBoundedBy
  <2> QED BY <2>3, <2>4
<1>5. AreBacked(c, q, 1, none, none)
  <2>1. q.lossDust \in Nat /\ q.dust \in Nat
    BY DEF Pool
  <2> QED BY <1>3, <2>1, Constants DEF AreBacked
<1>6. 1 \in Nat \ {0}
  OBVIOUS
<1> QED BY <1>1, <1>4, <1>5, <1>6 DEF AreCovered

\* The cover holds at first, of both assets.
LEMMA InitCover ==
  ASSUME Init
  PROVE  CoverInv
<1>1. PoolInv /\ TypeOK
  BY InitPoolInv DEF PoolInv
<1>2. /\ RBTCPool \in Pool /\ MPPool \in Pool
      /\ AreClaims(RBTCClaims, RBTCPool) /\ AreClaims(MPClaims, MPPool)
  BY <1>1, PoolsOfState, ClaimsOfState
<1>3. ASSUME NEW h \in Holders PROVE RBTCClaims[h].stake = 0 /\ MPClaims[h].stake = 0
  <2>1. h[1] \in Addresses /\ h[1] \in Tags
    BY HolderCases DEF Tags
  <2>2. deposits[h[1]].initialValue = 0 /\ frontEndStakes[h[1]] = 0
    BY <2>1 DEF Init
  <2> QED BY <2>2 DEF RBTCClaims, MPClaims, ClaimOf
<1>4. /\ RBTCPool.worth = 0 /\ RBTCPool.lossError = 0 /\ RBTCPool.error = 0 /\ RBTCPool.held = 0
      /\ MPPool.worth = 0 /\ MPPool.lossError = 0 /\ MPPool.error = 0 /\ MPPool.held = 0
  BY Constants DEF Init, RBTCPool, MPPool
<1> QED BY <1>1, <1>2, <1>3, <1>4, EmptyClaimsAreCovered DEF CoverInv

\* Every step keeps the cover.
LEMMA NextKeepsCover ==
  ASSUME CoverInv, [Next]_vars
  PROVE  CoverInv'
<1>1. PoolInv /\ PoolInv'
  BY NextKeepsInv DEF CoverInv
<1>2. CASE UNCHANGED vars
  <2>1. /\ RBTCClaims' = RBTCClaims /\ RBTCPool' = RBTCPool
        /\ MPClaims' = MPClaims /\ MPPool' = MPPool
    BY <1>2 DEF vars, depositVars, frontEndVars, productVars, RBTCClaims, RBTCPool, MPClaims, MPPool, Kickback
  <2> QED BY <1>1, <2>1 DEF CoverInv
<1>3. ASSUME NEW u, NEW tag, NEW value, NEW stake, NEW issued, NEW change,
             IsCall(u, tag, value, stake, issued, change)
      PROVE  CoverInv'
  BY <1>1, <1>3, CallKeepsRBTCCover, CallKeepsMPCover DEF CoverInv
<1>4. CASE Next
  BY <1>1, <1>3, <1>4, NextCases, RegisterKeepsCover, OffsetKeepsCover
<1> QED BY <1>2, <1>4

----------------------------------------------------------------------------
\* What the cover says of the sums that the properties take.

\* A sum over all claims is one over the deposits and one over the stakes of the front ends.
LEMMA SumOverHolders ==
  ASSUME NEW f, \A h \in Holders : f[h] \in Int, NEW a, NEW b,
         \A u \in Addresses : a[u] = f[<<u, "deposit">>] /\ b[u] = f[<<u, "frontEnd">>]
  PROVE  SumFunctionOnSet(f, Holders) = SumFunctionOnSet(a, Addresses) + SumFunctionOnSet(b, Addresses)
<1> DEFINE Kinds == {"deposit", "frontEnd"}
           Good == {A \in SUBSET Addresses : SumFunctionOnSet(f, A \X Kinds)
                                               = SumFunctionOnSet(a, A) + SumFunctionOnSet(b, A)}
<1>1. IsFiniteSet(Addresses) /\ IsFiniteSet(Holders) /\ Holders = Addresses \X Kinds
  BY StabilityPoolAssumption, HoldersAreFinite DEF Holders
<1>2. ASSUME NEW A \in SUBSET Addresses, \A B \in SUBSET A : B # A => B \in Good
      PROVE  A \in Good
  <2>1. CASE A = {}
    <3>1. A \X Kinds = {}
      BY <2>1
    <3>2. SumFunctionOnSet(f, {}) = 0 /\ SumFunctionOnSet(a, {}) = 0 /\ SumFunctionOnSet(b, {}) = 0
      BY SumEmpty
    <3>3. SumFunctionOnSet(f, A \X Kinds) = SumFunctionOnSet(a, A) + SumFunctionOnSet(b, A)
      BY <2>1, <3>1, <3>2
    <3> QED BY <3>3
  <2>2. CASE A # {}
    <3>1. PICK y \in A : TRUE
      BY <2>2
    <3> DEFINE B == A \ {y}
               d == <<y, "deposit">>
               e == <<y, "frontEnd">>
               HB == B \X Kinds
    <3>2. B \in SUBSET A /\ B # A /\ B \in SUBSET Addresses /\ y \in Addresses
      BY <3>1
    <3>3. SumFunctionOnSet(f, HB) = SumFunctionOnSet(a, B) + SumFunctionOnSet(b, B)
      BY <1>2, <3>2
    <3>4. IsFiniteSet(A) /\ IsFiniteSet(B) /\ IsFiniteSet(HB) /\ IsFiniteSet(HB \cup {d})
      <4>1. HB \subseteq Holders /\ HB \cup {d} \subseteq Holders
        BY <3>2 DEF Holders
      <4> QED BY <1>1, <3>2, <4>1, FS_Subset
    <3>5. A \X Kinds = (HB \cup {d}) \cup {e}
      BY <3>1
    <3>6. d \notin HB /\ e \notin HB \cup {d}
      OBVIOUS
    <3>7. /\ d \in Holders /\ e \in Holders /\ f[d] \in Int /\ f[e] \in Int
          /\ \A h \in HB : f[h] \in Int
      BY <3>2 DEF Holders
    <3>8. \A h \in HB \cup {d} : f[h] \in Int
      BY <3>7
    <3>9. a[y] = f[d] /\ b[y] = f[e] /\ \A u \in A : a[u] \in Int /\ b[u] \in Int
      <4>1. \A u \in Addresses : <<u, "deposit">> \in Holders /\ <<u, "frontEnd">> \in Holders
        BY DEF Holders
      <4> QED BY <3>2, <4>1
    <3> HIDE DEF HB, d, e
    <3>10. SumFunctionOnSet(f, A \X Kinds) = f[e] + (f[d] + SumFunctionOnSet(f, HB))
      <4>1. SumFunctionOnSet(f, HB \cup {d}) = f[d] + SumFunctionOnSet(f, HB)
        BY <3>4, <3>6, <3>7, SumAdd
      <4>2. SumFunctionOnSet(f, (HB \cup {d}) \cup {e}) = f[e] + SumFunctionOnSet(f, HB \cup {d})
        BY <3>4, <3>6, <3>7, <3>8, SumAdd
      <4> QED BY <3>5, <4>1, <4>2
    <3>11. /\ SumFunctionOnSet(a, A) = a[y] + SumFunctionOnSet(a, B)
           /\ SumFunctionOnSet(b, A) = b[y] + SumFunctionOnSet(b, B)
      BY <3>1, <3>4, <3>9, SumRemove
    <3>12. SumFunctionOnSet(a, B) \in Int /\ SumFunctionOnSet(b, B) \in Int
      BY <3>2, <3>4, <3>9, SumInt
    <3> HIDE DEF B, Kinds
    <3>13. SumFunctionOnSet(f, A \X Kinds) = SumFunctionOnSet(a, A) + SumFunctionOnSet(b, A)
      BY <3>3, <3>7, <3>9, <3>10, <3>11, <3>12
    <3> QED BY <3>13
  <2> QED BY <2>1, <2>2
<1> HIDE DEF Good
<1>3. SUBSET Addresses \subseteq Good
  BY <1>1, <1>2, SubsetInduction
<1>4. Addresses \in Good
  BY <1>3
<1> QED BY <1>1, <1>4 DEF Good

\* What is rounded down from each claim adds up to at most the weighed sum of all claims.
LEMMA RoundedSums ==
  ASSUME NEW c \in [Holders -> Claim], NEW g \in [Holders -> Nat],
         NEW a \in [Addresses -> Nat], NEW b \in [Addresses -> Nat],
         \A u \in Addresses :
           /\ DECIMAL_PRECISION * a[u] <= c[<<u, "deposit">>].weight * g[<<u, "deposit">>]
           /\ DECIMAL_PRECISION * b[u] <= c[<<u, "frontEnd">>].weight * g[<<u, "frontEnd">>]
  PROVE  /\ SumFunctionOnSet(a, Addresses) \in Nat /\ SumFunctionOnSet(b, Addresses) \in Nat
         /\ DECIMAL_PRECISION * (SumFunctionOnSet(a, Addresses) + SumFunctionOnSet(b, Addresses))
              <= Weight(c, g)
<1> DEFINE D == DECIMAL_PRECISION
           f == Weighed(c, g)
           fa == [u \in Addresses |-> f[<<u, "deposit">>]]
           fb == [u \in Addresses |-> f[<<u, "frontEnd">>]]
           da == [u \in Addresses |-> D * a[u]]
           db == [u \in Addresses |-> D * b[u]]
<1>1. IsFiniteSet(Addresses) /\ D \in Nat /\ D \in Int
  BY StabilityPoolAssumption, Constants
<1>2. \A h \in Holders : f[h] \in Nat /\ f[h] = c[h].weight * g[h]
  BY WeightNat DEF Weighed
<1>3. \A u \in Addresses : <<u, "deposit">> \in Holders /\ <<u, "frontEnd">> \in Holders
  BY DEF Holders
<1>4. ASSUME NEW u \in Addresses
      PROVE  /\ fa[u] = f[<<u, "deposit">>] /\ fb[u] = f[<<u, "frontEnd">>]
             /\ fa[u] \in Int /\ fb[u] \in Int
             /\ da[u] = D * a[u] /\ db[u] = D * b[u] /\ da[u] \in Int /\ db[u] \in Int
             /\ a[u] \in Int /\ b[u] \in Int
             /\ da[u] <= fa[u] /\ db[u] <= fb[u]
  BY <1>1, <1>2, <1>3
<1> HIDE DEF D, f, fa, fb, da, db
<1>5. Weight(c, g) = SumFunctionOnSet(fa, Addresses) + SumFunctionOnSet(fb, Addresses)
  <2>1. \A h \in Holders : f[h] \in Int
    BY <1>2
  <2>2. SumFunctionOnSet(f, Holders) = SumFunctionOnSet(fa, Addresses) + SumFunctionOnSet(fb, Addresses)
    BY <1>4, <2>1, SumOverHolders
  <2> QED BY <2>2 DEF Weight, f
<1>6. /\ SumFunctionOnSet(da, Addresses) = D * SumFunctionOnSet(a, Addresses)
      /\ SumFunctionOnSet(db, Addresses) = D * SumFunctionOnSet(b, Addresses)
  <2>1. IsFiniteSet(Addresses) /\ D \in Int
    BY <1>1
  <2>2. \A u \in Addresses : a[u] \in Int /\ da[u] = D * a[u]
    BY <1>4
  <2>3. \A u \in Addresses : b[u] \in Int /\ db[u] = D * b[u]
    BY <1>4
  <2>4. SumFunctionOnSet(da, Addresses) = D * SumFunctionOnSet(a, Addresses)
    BY ONLY <2>1, <2>2, SumTimes
  <2>5. SumFunctionOnSet(db, Addresses) = D * SumFunctionOnSet(b, Addresses)
    BY ONLY <2>1, <2>3, SumTimes
  <2> QED BY <2>4, <2>5
<1>7. /\ SumFunctionOnSet(da, Addresses) <= SumFunctionOnSet(fa, Addresses)
      /\ SumFunctionOnSet(db, Addresses) <= SumFunctionOnSet(fb, Addresses)
  <2>1. IsFiniteSet(Addresses)
    BY <1>1
  <2>2. \A u \in Addresses : da[u] \in Int /\ fa[u] \in Int /\ da[u] <= fa[u]
    BY <1>4
  <2>3. \A u \in Addresses : db[u] \in Int /\ fb[u] \in Int /\ db[u] <= fb[u]
    BY <1>4
  <2>4. SumFunctionOnSet(da, Addresses) <= SumFunctionOnSet(fa, Addresses)
    BY ONLY <2>1, <2>2, SumMonotone
  <2>5. SumFunctionOnSet(db, Addresses) <= SumFunctionOnSet(fb, Addresses)
    BY ONLY <2>1, <2>3, SumMonotone
  <2> QED BY <2>4, <2>5
<1>8. SumFunctionOnSet(a, Addresses) \in Nat /\ SumFunctionOnSet(b, Addresses) \in Nat
  BY <1>1, SumNat
<1>9. SumFunctionOnSet(fa, Addresses) \in Int /\ SumFunctionOnSet(fb, Addresses) \in Int
  BY <1>1, <1>4, SumInt
<1>10. D * (SumFunctionOnSet(a, Addresses) + SumFunctionOnSet(b, Addresses)) <= Weight(c, g)
  BY <1>1, <1>5, <1>6, <1>7, <1>8, <1>9
<1> QED BY <1>8, <1>10 DEF D

\* The claims of a pool in units of the pool.
LEMMA CoveredSums ==
  ASSUME NEW q \in Pool, NEW c, AreClaims(c, q), AreCovered(c, q)
  PROVE  /\ c \in [Holders -> Claim]
         /\ [h \in Holders |-> Kept(c[h], q)] \in [Holders -> Nat]
         /\ [h \in Holders |-> GainOf(c[h], q)] \in [Holders -> Nat]
         /\ Weight(c, [h \in Holders |-> Kept(c[h], q)]) \in Nat
         /\ Weight(c, [h \in Holders |-> GainOf(c[h], q)]) \in Nat
         /\ Weight(c, [h \in Holders |-> Kept(c[h], q)]) <= q.worth + q.lossDust
         /\ DECIMAL_PRECISION * Weight(c, [h \in Holders |-> GainOf(c[h], q)])
              <= q.held * (DECIMAL_PRECISION * DECIMAL_PRECISION) + q.dust
<1> DEFINE x == [h \in Holders |-> Kept(c[h], q)]
           y == [h \in Holders |-> GainOf(c[h], q)]
<1>1. c \in [Holders -> Claim] /\ \A h \in Holders : c[h] \in Claim /\ SnapshotIsPast(c[h], q)
  BY DEF AreClaims
<1>2. \A h \in Holders : Kept(c[h], q) \in Nat /\ GainOf(c[h], q) \in Nat
  BY <1>1, KeptNat
<1>3. x \in [Holders -> Nat] /\ y \in [Holders -> Nat]
  BY <1>2
<1>4. /\ Weight(c, x) <= q.worth + q.lossDust
      /\ DECIMAL_PRECISION * Weight(c, y)
           <= q.held * (DECIMAL_PRECISION * DECIMAL_PRECISION) + q.dust
  BY CoverBoundsClaims
<1> HIDE DEF x, y
<1>5. Weight(c, x) \in Nat /\ Weight(c, y) \in Nat
  BY <1>1, <1>3, WeightNat
<1> QED BY <1>1, <1>3, <1>4, <1>5 DEF x, y

\* The deposits are covered by the pool.
LEMMA CoverOfDeposits ==
  ASSUME CoverInv
  PROVE  PoolCoversDeposits
<1> DEFINE D == DECIMAL_PRECISION
           c == RBTCClaims
           x == [h \in Holders |-> Kept(c[h], RBTCPool)]
           a == [u \in Addresses |-> CompoundedBPDDeposit(u)]
           b == [u \in Addresses |-> 0]
           A == SumFunctionOnSet(a, Addresses)
<1>1. /\ PoolInv /\ TypeOK /\ RBTCPool \in Pool
      /\ AreClaims(c, RBTCPool) /\ AreCovered(c, RBTCPool)
  BY PoolsOfState, ClaimsOfState DEF CoverInv, PoolInv
<1>2. /\ c \in [Holders -> Claim] /\ x \in [Holders -> Nat] /\ Weight(c, x) \in Nat
      /\ Weight(c, x) <= RBTCPool.worth + RBTCPool.lossDust
  BY <1>1, CoveredSums
<1>3. ASSUME NEW u \in Addresses
      PROVE  /\ CompoundedBPDDeposit(u) \in Nat
             /\ D * CompoundedBPDDeposit(u) <= c[<<u, "deposit">>].weight * x[<<u, "deposit">>]
             /\ D * 0 <= c[<<u, "frontEnd">>].weight * x[<<u, "frontEnd">>]
  <2>1. /\ deposits[u].initialValue \in Nat /\ D \in Nat /\ depositSnapshots[u].S \in Nat
        /\ depositSnapshots[u] \in Snapshot /\ IsPast(deposits[u].initialValue, depositSnapshots[u])
    BY <1>1, Constants DEF PoolInv, TypeOK, SnapshotsArePast, Snapshot
  <2>2. /\ <<u, "deposit">> \in Holders /\ <<u, "frontEnd">> \in Holders
        /\ c[<<u, "deposit">>]
             = ClaimOf(deposits[u].initialValue, D, depositSnapshots[u].S, depositSnapshots[u])
        /\ c[<<u, "frontEnd">>] = ClaimOf(0, 0, 0, NoSnapshot)
    BY ClaimsOfHolders
  <2>3. c[<<u, "deposit">>].weight = D /\ c[<<u, "frontEnd">>].weight = 0
    BY <2>2 DEF ClaimOf
  <2>4. x[<<u, "deposit">>] = Kept(c[<<u, "deposit">>], RBTCPool)
        /\ x[<<u, "deposit">>] \in Nat /\ x[<<u, "frontEnd">>] \in Nat
    BY <1>2, <2>2
  <2> HIDE DEF x, c, D
  <2>5. /\ Compounded(deposits[u].initialValue, depositSnapshots[u]) \in Nat
        /\ Compounded(deposits[u].initialValue, depositSnapshots[u])
             <= Kept(ClaimOf(deposits[u].initialValue, D, depositSnapshots[u].S, depositSnapshots[u]), RBTCPool)
    BY <1>1, <2>1, CompoundedIsKept
  <2>6. CompoundedBPDDeposit(u) \in Nat /\ CompoundedBPDDeposit(u) <= x[<<u, "deposit">>]
    BY <2>2, <2>4, <2>5 DEF CompoundedBPDDeposit
  <2> QED BY <2>1, <2>3, <2>4, <2>6, TimesMonotone
<1>4. a \in [Addresses -> Nat] /\ b \in [Addresses -> Nat]
  BY <1>3
<1>5. A \in Nat /\ D * (A + SumFunctionOnSet(b, Addresses)) <= Weight(c, x)
  <2>1. \A u \in Addresses :
          /\ DECIMAL_PRECISION * a[u] <= c[<<u, "deposit">>].weight * x[<<u, "deposit">>]
          /\ DECIMAL_PRECISION * b[u] <= c[<<u, "frontEnd">>].weight * x[<<u, "frontEnd">>]
    BY <1>3
  <2> HIDE DEF a, b, c, x
  <2> QED BY <1>2, <1>4, <2>1, RoundedSums
<1>6. SumFunctionOnSet(b, Addresses) = 0
  <2>1. \A u \in Addresses : b[u] = 0
    OBVIOUS
  <2> QED BY <2>1, SumZero, StabilityPoolAssumption
<1>7. RBTCPool.worth = totalBPDDeposits * D /\ RBTCPool.lossDust = dust.loss
      /\ totalBPDDeposits \in Nat /\ dust.loss \in Nat /\ D \in Nat \ {0}
  BY <1>1, Constants DEF RBTCPool, TypeOK
<1> HIDE DEF A, D, c, x
<1>8. D * A <= D * totalBPDDeposits + dust.loss
  BY <1>2, <1>5, <1>6, <1>7
<1>9. A <= totalBPDDeposits + dust.loss \div D
  BY <1>5, <1>7, <1>8, QuotientBounds
<1>10. Total(a) = A
  BY DEF Total, SumFunction, A
<1> QED BY <1>9, <1>10 DEF PoolCoversDeposits, D

\* The gains of RBTC are covered by the RBTC held.
LEMMA CoverOfRBTCGains ==
  ASSUME CoverInv
  PROVE  PoolCoversRBTCGains
<1> DEFINE D == DECIMAL_PRECISION
           c == RBTCClaims
           y == [h \in Holders |-> GainOf(c[h], RBTCPool)]
           a == [u \in Addresses |-> DepositorRBTCGain(u)]
           b == [u \in Addresses |-> 0]
           A == SumFunctionOnSet(a, Addresses)
<1>1. /\ PoolInv /\ TypeOK /\ RBTCPool \in Pool
      /\ AreClaims(c, RBTCPool) /\ AreCovered(c, RBTCPool)
  BY PoolsOfState, ClaimsOfState DEF CoverInv, PoolInv
<1>2. /\ c \in [Holders -> Claim] /\ y \in [Holders -> Nat] /\ Weight(c, y) \in Nat
      /\ DECIMAL_PRECISION * Weight(c, y)
           <= RBTCPool.held * (DECIMAL_PRECISION * DECIMAL_PRECISION) + RBTCPool.dust
  BY <1>1, CoveredSums
<1>3. ASSUME NEW u \in Addresses
      PROVE  /\ DepositorRBTCGain(u) \in Nat
             /\ D * DepositorRBTCGain(u) <= c[<<u, "deposit">>].weight * y[<<u, "deposit">>]
             /\ D * 0 <= c[<<u, "frontEnd">>].weight * y[<<u, "frontEnd">>]
  <2>1. D \in Nat /\ RBTCPool.sums = S
    BY Constants DEF RBTCPool
  <2>2. /\ <<u, "deposit">> \in Holders /\ <<u, "frontEnd">> \in Holders
        /\ c[<<u, "deposit">>]
             = ClaimOf(deposits[u].initialValue, D, depositSnapshots[u].S, depositSnapshots[u])
        /\ c[<<u, "frontEnd">>] = ClaimOf(0, 0, 0, NoSnapshot)
    BY ClaimsOfHolders
  <2>3. c[<<u, "deposit">>].weight = D /\ c[<<u, "frontEnd">>].weight = 0
    BY <2>2 DEF ClaimOf
  <2>4. y[<<u, "deposit">>] = GainOf(c[<<u, "deposit">>], RBTCPool)
        /\ y[<<u, "deposit">>] \in Nat /\ y[<<u, "frontEnd">>] \in Nat
    BY <1>2, <2>2
  <2> HIDE DEF y, c, D
  <2>5. DepositorRBTCGain(u) \in Nat
    BY <1>1, GainNat
  <2>6. DepositorRBTCGain(u) = y[<<u, "deposit">>]
    <3>1. GainFrom(RBTCPool.sums, deposits[u].initialValue, depositSnapshots[u].S, depositSnapshots[u])
            = GainOf(ClaimOf(deposits[u].initialValue, D, depositSnapshots[u].S, depositSnapshots[u]), RBTCPool)
      BY GainFromIsGainOf
    <3> QED BY <2>1, <2>2, <2>4, <3>1 DEF DepositorRBTCGain
  <2> QED BY <2>1, <2>3, <2>4, <2>5, <2>6
<1>4. a \in [Addresses -> Nat] /\ b \in [Addresses -> Nat]
  BY <1>3
<1>5. A \in Nat /\ D * (A + SumFunctionOnSet(b, Addresses)) <= Weight(c, y)
  <2>1. \A u \in Addresses :
          /\ DECIMAL_PRECISION * a[u] <= c[<<u, "deposit">>].weight * y[<<u, "deposit">>]
          /\ DECIMAL_PRECISION * b[u] <= c[<<u, "frontEnd">>].weight * y[<<u, "frontEnd">>]
    BY <1>3
  <2> HIDE DEF a, b, c, y
  <2> QED BY <1>2, <1>4, <2>1, RoundedSums
<1>6. SumFunctionOnSet(b, Addresses) = 0
  <2>1. \A u \in Addresses : b[u] = 0
    OBVIOUS
  <2> QED BY <2>1, SumZero, StabilityPoolAssumption
<1>7. RBTCPool.held = RBTC /\ RBTCPool.dust = dust.RBTC
      /\ RBTC \in Nat /\ dust.RBTC \in Nat /\ D \in Nat \ {0} /\ D * D \in Nat \ {0}
  BY <1>1, Constants DEF RBTCPool, TypeOK
<1> HIDE DEF A, c, y
<1>8. (D * D) * A <= (D * D) * RBTC + dust.RBTC
  <2>1. D * Weight(c, y) <= RBTC * (D * D) + dust.RBTC
    BY <1>2, <1>7
  <2> HIDE DEF D
  <2>2. D * (D * A) <= D * Weight(c, y)
    BY <1>2, <1>5, <1>6, <1>7, TimesMonotone
  <2>3. D * (D * A) = (D * D) * A /\ RBTC * (D * D) = (D * D) * RBTC
        /\ (D * D) * A \in Int /\ (D * D) * RBTC \in Int /\ D * Weight(c, y) \in Int
    BY <1>2, <1>5, <1>7
  <2> QED BY <1>7, <2>1, <2>2, <2>3
<1> HIDE DEF D
<1>9. A <= RBTC + dust.RBTC \div (D * D)
  BY <1>5, <1>7, <1>8, QuotientBounds
<1>10. Total(a) = A
  BY DEF Total, SumFunction, A
<1> QED BY <1>9, <1>10 DEF PoolCoversRBTCGains, D

\* The gains of MP, of depositors and front ends, are covered by the MP issued and not yet paid.
LEMMA CoverOfMPGains ==
  ASSUME CoverInv
  PROVE  IssuanceCoversMPGains
<1> DEFINE D == DECIMAL_PRECISION
           c == MPClaims
           y == [h \in Holders |-> GainOf(c[h], MPPool)]
           a == [u \in Addresses |-> DepositorMPGain(G, u)]
           b == [f \in Addresses |-> FrontEndMPGain(G, f)]
           A == SumFunctionOnSet(a, Addresses)
           B == SumFunctionOnSet(b, Addresses)
<1>1. /\ PoolInv /\ TypeOK /\ MPPool \in Pool
      /\ AreClaims(c, MPPool) /\ AreCovered(c, MPPool)
  BY PoolsOfState, ClaimsOfState DEF CoverInv, PoolInv
<1>2. /\ c \in [Holders -> Claim] /\ y \in [Holders -> Nat] /\ Weight(c, y) \in Nat
      /\ DECIMAL_PRECISION * Weight(c, y)
           <= MPPool.held * (DECIMAL_PRECISION * DECIMAL_PRECISION) + MPPool.dust
  BY <1>1, CoveredSums
<1>3. ASSUME NEW u \in Addresses
      PROVE  /\ DepositorMPGain(G, u) \in Nat /\ FrontEndMPGain(G, u) \in Nat
             /\ D * DepositorMPGain(G, u) <= c[<<u, "deposit">>].weight * y[<<u, "deposit">>]
             /\ D * FrontEndMPGain(G, u) <= c[<<u, "frontEnd">>].weight * y[<<u, "frontEnd">>]
  <2>1. MPPool.sums = G
    BY DEF MPPool
  <2>2. /\ <<u, "deposit">> \in Holders /\ <<u, "frontEnd">> \in Holders
        /\ DepositorMPGain(MPPool.sums, u) \in Nat /\ FrontEndMPGain(MPPool.sums, u) \in Nat
        /\ DECIMAL_PRECISION * DepositorMPGain(MPPool.sums, u)
             <= MPClaims[<<u, "deposit">>].weight * GainOf(MPClaims[<<u, "deposit">>], MPPool)
        /\ DECIMAL_PRECISION * FrontEndMPGain(MPPool.sums, u)
             <= MPClaims[<<u, "frontEnd">>].weight * GainOf(MPClaims[<<u, "frontEnd">>], MPPool)
    BY <1>1, MPGainsOfClaims
  <2>3. /\ y[<<u, "deposit">>] = GainOf(c[<<u, "deposit">>], MPPool)
        /\ y[<<u, "frontEnd">>] = GainOf(c[<<u, "frontEnd">>], MPPool)
    BY <2>2
  <2> HIDE DEF y
  <2> QED BY <2>1, <2>2, <2>3
<1>4. a \in [Addresses -> Nat] /\ b \in [Addresses -> Nat]
  BY <1>3
<1>5. A \in Nat /\ B \in Nat /\ D * (A + B) <= Weight(c, y)
  <2>1. \A u \in Addresses :
          /\ DECIMAL_PRECISION * a[u] <= c[<<u, "deposit">>].weight * y[<<u, "deposit">>]
          /\ DECIMAL_PRECISION * b[u] <= c[<<u, "frontEnd">>].weight * y[<<u, "frontEnd">>]
    BY <1>3
  <2> HIDE DEF a, b, c, y
  <2> QED BY <1>2, <1>4, <2>1, RoundedSums
<1>6. MPPool.held = mp.issued - mp.paid /\ MPPool.dust = dust.MP
      /\ mp.issued \in Nat /\ mp.paid \in Nat /\ dust.MP \in Nat
      /\ D \in Nat \ {0} /\ D * D \in Nat \ {0}
  BY <1>1, Constants DEF MPPool, TypeOK
<1> HIDE DEF A, B, c, y
<1>7. (D * D) * (A + B) <= (D * D) * (mp.issued - mp.paid) + dust.MP
  <2>1. D * Weight(c, y) <= (mp.issued - mp.paid) * (D * D) + dust.MP
    BY <1>2, <1>6
  <2> HIDE DEF D
  <2>2. D * (D * (A + B)) <= D * Weight(c, y)
    <3>1. D * (A + B) \in Int
      BY <1>5, <1>6
    <3> QED BY <1>2, <1>5, <1>6, <3>1, TimesMonotone
  <2>3. D * (D * (A + B)) = (D * D) * (A + B)
    BY <1>5, <1>6
  <2>4. (mp.issued - mp.paid) * (D * D) = (D * D) * (mp.issued - mp.paid)
        /\ (D * D) * (mp.issued - mp.paid) \in Int
    BY <1>6
  <2>5. (D * D) * (A + B) \in Int /\ D * Weight(c, y) \in Int
    BY <1>2, <1>5, <1>6
  <2> QED BY <1>6, <2>1, <2>2, <2>3, <2>4, <2>5
<1> HIDE DEF D
<1>8. A + B <= (mp.issued - mp.paid) + dust.MP \div (D * D)
  <2>1. A + B \in Int /\ mp.issued - mp.paid \in Int
    BY <1>5, <1>6
  <2> QED BY <1>6, <1>7, <2>1, QuotientBounds
<1>9. mp.paid + A + B <= mp.issued + dust.MP \div (D * D)
  <2>1. dust.MP \div (D * D) \in Int
    BY <1>6
  <2> HIDE DEF D
  <2> QED BY <1>5, <1>6, <1>8, <2>1
<1>10. Total(a) = A /\ Total(b) = B
  BY DEF Total, SumFunction, A, B
<1> QED BY <1>9, <1>10 DEF IssuanceCoversMPGains, D

----------------------------------------------------------------------------
\* The theorems of the cover.

\* Over any series of offsets, scale changes and emptyings, what _getCompoundedStakeFromSnapshots
\* (StabilityPool.sol:769) leaves the depositors together is at most totalBPDDeposits and the dust of
\* one loss.
THEOREM PoolAlwaysCoversDeposits == Spec => []PoolCoversDeposits
<1>1. Init => CoverInv
  BY InitCover
<1>2. CoverInv /\ [Next]_vars => CoverInv'
  BY NextKeepsCover
<1>3. CoverInv => PoolCoversDeposits
  BY CoverOfDeposits
<1> QED BY <1>1, <1>2, <1>3, PTL DEF Spec

\* All that _getRBTCGainFromSnapshots (StabilityPool.sol:652) may pay is in the pool, but for
\* what the dust has gained: no depositor's gain is paid from another's.
THEOREM PoolAlwaysCoversRBTCGains == Spec => []PoolCoversRBTCGains
<1>1. Init => CoverInv
  BY InitCover
<1>2. CoverInv /\ [Next]_vars => CoverInv'
  BY NextKeepsCover
<1>3. CoverInv => PoolCoversRBTCGains
  BY CoverOfRBTCGains
<1> QED BY <1>1, <1>2, <1>3, PTL DEF Spec

\* All that _getMPGainFromSnapshots (StabilityPool.sol:716) may pay to depositors and front ends,
\* and all that was paid, was issued, but for what the dust has gained.
THEOREM IssuanceAlwaysCoversMPGains == Spec => []IssuanceCoversMPGains
<1>1. Init => CoverInv
  BY InitCover
<1>2. CoverInv /\ [Next]_vars => CoverInv'
  BY NextKeepsCover
<1>3. CoverInv => IssuanceCoversMPGains
  BY CoverOfMPGains
<1> QED BY <1>1, <1>2, <1>3, PTL DEF Spec
=============================================================================
