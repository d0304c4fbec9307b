------------------------- MODULE ProtocolFeesProofs -------------------------
(***************************************************************************)
(* Proofs about ProtocolFees and RskSwapPool, for every number of stakers, *)
(* every precision and amount: the staking contract can pay every staker's *)
(* gains, whatever its divisions round, the base rate stays a rate, the    *)
(* clock of the liquidity mining pool stops while nobody stakes, its MP is *)
(* what it owes but for dust, and what a provider earned is kept or paid.  *)
(***************************************************************************)
EXTENDS ProtocolFees, RskSwapPool, DataLemmas

Assets == {"RBTC", "BPD"}
Fees == [Assets -> Nat]

----------------------------------------------------------------------------
\* Arithmetic of the code.

\* A rounded quotient never exceeds the exact one.
LEMMA QuotientNat ==
  ASSUME NEW a \in Nat, NEW b \in Nat \ {0}
  PROVE  /\ a \div b \in Nat
         /\ (a \div b) * b <= a
OBVIOUS

\* Products of natural numbers.
LEMMA ProductNat ==
  ASSUME NEW a \in Nat, NEW b \in Nat
  PROVE  a * b \in Nat
OBVIOUS

\* Products of sums and differences.
LEMMA Distributes ==
  ASSUME NEW a \in Int, NEW b \in Int, NEW k \in Int
  PROVE  /\ k * (a + b) = k * a + k * b
         /\ k * (a - b) = k * a - k * b
OBVIOUS

----------------------------------------------------------------------------
\* The decay of the base rate.  PowerTimes is recursive: that such a function
\* exists is shown from the functions that compute the powers up to N.

\* One step of PowerTimes.
PowerStep(g, n, x, y) ==
  IF n = 1 THEN DecMul(x, y)
  ELSE g[n \div 2][DecMul(x, x)][IF n % 2 = 0 THEN y ELSE DecMul(x, y)]

\* g computes the powers up to N.
Powers(g, N) == g = [n \in 1..N |-> [x \in Nat |-> [y \in Nat |-> PowerStep(g, n, x, y)]]]

\* decMul rounds to a natural number.
LEMMA DecMulNat ==
  ASSUME NEW x \in Nat, NEW y \in Nat
  PROVE  DecMul(x, y) \in Nat
<1> DEFINE a == x * y + DECIMAL_PRECISION \div 2
<1>1. a \in Nat
  BY ProductNat, BaseRateAssumption
<1> HIDE DEF a
<1>2. a \div DECIMAL_PRECISION \in Nat
  BY <1>1, QuotientNat, BaseRateAssumption
<1> QED BY <1>2 DEF DecMul, a

\* A step at n > 1 only asks for a smaller power.
LEMMA PowerStepAgrees ==
  ASSUME NEW n \in Nat \ {0}, NEW g, NEW h,
         n # 1 => \A x, y \in Nat : g[n \div 2][x][y] = h[n \div 2][x][y],
         NEW x \in Nat, NEW y \in Nat
  PROVE  PowerStep(g, n, x, y) = PowerStep(h, n, x, y)
<1>1. DecMul(x, x) \in Nat /\ (IF n % 2 = 0 THEN y ELSE DecMul(x, y)) \in Nat
  BY DecMulNat
<1> QED BY <1>1 DEF PowerStep

\* One entry of the table of powers.
LEMMA PowersApply ==
  ASSUME NEW N \in Nat, NEW g, Powers(g, N), NEW n \in 1..N, NEW x \in Nat, NEW y \in Nat
  PROVE  g[n][x][y] = PowerStep(g, n, x, y)
<1>1. g[n] = [a \in Nat |-> [b \in Nat |-> PowerStep(g, n, a, b)]]
  BY DEF Powers
<1>2. g[n][x] = [b \in Nat |-> PowerStep(g, n, x, b)]
  BY <1>1
<1> QED BY <1>2

\* Tables of powers of two sizes agree where both are defined.
LEMMA PowersAgree ==
  ASSUME NEW M \in Nat, NEW N \in Nat, NEW g, NEW h, Powers(g, M), Powers(h, N)
  PROVE  \A n \in 1..M : n <= N => \A x, y \in Nat : g[n][x][y] = h[n][x][y]
<1> DEFINE Good == { n \in Nat : n \in 1..M /\ n <= N => \A x, y \in Nat : g[n][x][y] = h[n][x][y] }
<1>1. ASSUME NEW n \in Nat, \A m \in 0..(n - 1) : m \in Good
      PROVE  n \in Good
  <2> SUFFICES ASSUME n \in 1..M, n <= N, NEW x \in Nat, NEW y \in Nat
               PROVE  g[n][x][y] = h[n][x][y]
    OBVIOUS
  <2>1. g[n][x][y] = PowerStep(g, n, x, y) /\ h[n][x][y] = PowerStep(h, n, x, y)
    BY PowersApply
  <2>2. ASSUME n # 1
        PROVE  \A a, b \in Nat : g[n \div 2][a][b] = h[n \div 2][a][b]
    <3>1. n \div 2 \in 0..(n - 1) /\ n \div 2 \in 1..M /\ n \div 2 <= N
      BY <2>2
    <3> QED BY <1>1, <3>1
  <2>3. n \in Nat \ {0}
    OBVIOUS
  <2>4. PowerStep(g, n, x, y) = PowerStep(h, n, x, y)
    BY <2>2, <2>3, PowerStepAgrees
  <2> QED BY <2>1, <2>4
<1>2. Nat \subseteq Good
  <2> HIDE DEF Good
  <2> QED BY <1>1, NaturalInduction
<1>3. \A n \in 1..M : n \in Good
  BY <1>2
<1> QED BY <1>3

PowersTo(N) == CHOOSE g : Powers(g, N)

\* A table of powers exists for every size.
LEMMA PowersExist ==
  \A N \in Nat : Powers(PowersTo(N), N)
<1> DEFINE Good == { N \in Nat : Powers(PowersTo(N), N) }
<1>1. ASSUME NEW N \in Nat, \A m \in 0..(N - 1) : m \in Good
      PROVE  N \in Good
  <2> DEFINE f(n) == PowersTo(n \div 2)
             h == [n \in 1..N |-> [x \in Nat |-> [y \in Nat |-> PowerStep(f(n), n, x, y)]]]
  <2>1. ASSUME NEW n \in 1..N, n # 1, NEW x \in Nat, NEW y \in Nat
        PROVE  f(n)[n \div 2][x][y] = h[n \div 2][x][y]
    <3> DEFINE m == n \div 2
    <3>1. m \in 0..(N - 1) /\ m \in 1..m /\ m \in 1..N /\ m \in Nat
      BY <2>1
    <3> HIDE DEF m
    <3>2. Powers(PowersTo(m), m)
      BY <1>1, <3>1
    <3>3. PowersTo(m)[m][x][y] = PowerStep(PowersTo(m), m, x, y)
      BY <3>1, <3>2, PowersApply
    <3>4. h[m][x][y] = PowerStep(f(m), m, x, y)
      BY <3>1
    <3>5. ASSUME m # 1
          PROVE  \A a, b \in Nat : PowersTo(m)[m \div 2][a][b] = f(m)[m \div 2][a][b]
      <4> DEFINE k == m \div 2
      <4>1. k \in 0..(N - 1) /\ k \in 1..k /\ k \in 1..m /\ k <= k /\ k \in Nat
        BY <3>1, <3>5
      <4> HIDE DEF k
      <4>2. Powers(PowersTo(k), k)
        BY <1>1, <4>1
      <4>3. \A a, b \in Nat : PowersTo(m)[k][a][b] = PowersTo(k)[k][a][b]
        BY <3>1, <3>2, <4>1, <4>2, PowersAgree
      <4> QED BY <4>3 DEF k
    <3>6. PowerStep(PowersTo(m), m, x, y) = PowerStep(f(m), m, x, y)
      <4>1. m \in Nat \ {0}
        BY <3>1
      <4> DEFINE g1 == PowersTo(m)
                 g2 == f(m)
      <4>2. m # 1 => \A a, b \in Nat : g1[m \div 2][a][b] = g2[m \div 2][a][b]
        BY <3>5
      <4> HIDE DEF f, g1, g2
      <4>3. PowerStep(g1, m, x, y) = PowerStep(g2, m, x, y)
        BY <4>1, <4>2, PowerStepAgrees
      <4> QED BY <4>3 DEF g1, g2
    <3> QED BY <3>3, <3>4, <3>6 DEF m
  <2> HIDE DEF f
  <2>2. ASSUME NEW n \in 1..N, NEW x \in Nat, NEW y \in Nat
        PROVE  PowerStep(f(n), n, x, y) = PowerStep(h, n, x, y)
    <3> DEFINE g1 == f(n)
    <3>1. n # 1 => \A a, b \in Nat : g1[n \div 2][a][b] = h[n \div 2][a][b]
      BY <2>1, <2>2
    <3>2. n \in Nat \ {0}
      BY <2>2
    <3> HIDE DEF h, g1
    <3>3. PowerStep(g1, n, x, y) = PowerStep(h, n, x, y)
      BY <2>2, <3>1, <3>2, PowerStepAgrees
    <3> QED BY <3>3 DEF g1
  <2>3. Powers(h, N)
    BY <2>2 DEF Powers
  <2>4. Powers(PowersTo(N), N)
    BY <2>3 DEF PowersTo
  <2> QED BY <2>4
<1>2. Nat \subseteq Good
  <2> HIDE DEF Good
  <2> QED BY <1>1, NaturalInduction
<1> QED BY <1>2

\* PowerTimes is the function its definition describes.
LEMMA PowerTimesDef ==
  ASSUME NEW n \in Nat \ {0}, NEW x \in Nat, NEW y \in Nat
  PROVE  PowerTimes[n][x][y] = PowerStep(PowerTimes, n, x, y)
<1> DEFINE h == [m \in Nat \ {0} |-> PowersTo(m)[m]]
<1>1. ASSUME NEW m \in Nat \ {0}, NEW a \in Nat, NEW b \in Nat
      PROVE  h[m][a][b] = PowerStep(h, m, a, b)
  <2>1. Powers(PowersTo(m), m) /\ m \in 1..m
    BY PowersExist
  <2>2. PowersTo(m)[m][a][b] = PowerStep(PowersTo(m), m, a, b)
    BY <2>1, PowersApply
  <2>3. ASSUME m # 1
        PROVE  \A c, d \in Nat : PowersTo(m)[m \div 2][c][d] = h[m \div 2][c][d]
    <3> DEFINE k == m \div 2
    <3>1. k \in Nat \ {0} /\ k \in 1..k /\ k \in 1..m /\ k <= k
      BY <2>3
    <3> HIDE DEF k
    <3>2. Powers(PowersTo(k), k)
      BY <3>1, PowersExist
    <3>3. \A c, d \in Nat : PowersTo(m)[k][c][d] = PowersTo(k)[k][c][d]
      BY <2>1, <3>1, <3>2, PowersAgree
    <3> QED BY <3>1, <3>3 DEF k
  <2> HIDE DEF h
  <2>4. PowerStep(PowersTo(m), m, a, b) = PowerStep(h, m, a, b)
    <3> DEFINE g1 == PowersTo(m)
    <3>1. m # 1 => \A c, d \in Nat : g1[m \div 2][c][d] = h[m \div 2][c][d]
      BY <2>3
    <3> HIDE DEF g1
    <3>2. PowerStep(g1, m, a, b) = PowerStep(h, m, a, b)
      BY <3>1, PowerStepAgrees
    <3> QED BY <3>2 DEF g1
  <2> QED BY <2>2, <2>4 DEF h
<1>2. ASSUME NEW m \in Nat \ {0}
      PROVE  h[m] = [a \in Nat |-> [b \in Nat |-> h[m][a][b]]]
  <2>1. Powers(PowersTo(m), m) /\ m \in 1..m
    BY PowersExist
  <2>2. PowersTo(m)[m] = [a \in Nat |-> [b \in Nat |-> PowerStep(PowersTo(m), m, a, b)]]
    BY <2>1 DEF Powers
  <2> QED BY <2>2
<1>3. h = [m \in Nat \ {0} |-> [a \in Nat |-> [b \in Nat |-> PowerStep(h, m, a, b)]]]
  <2>1. h = [m \in Nat \ {0} |-> h[m]]
    OBVIOUS
  <2> HIDE DEF h
  <2>2. \A m \in Nat \ {0} : h[m] = [a \in Nat |-> [b \in Nat |-> PowerStep(h, m, a, b)]]
    BY <1>1, <1>2
  <2> QED BY <2>1, <2>2
<1> DEFINE Fix(g) == g = [m \in Nat \ {0} |-> [a \in Nat |-> [b \in Nat |-> PowerStep(g, m, a, b)]]]
<1>4. Fix(CHOOSE g : Fix(g))
  <2>1. Fix(h)
    BY <1>3
  <2> HIDE DEF Fix, h
  <2> QED BY <2>1
<1>5. PowerTimes = CHOOSE g : Fix(g)
  BY DEF PowerTimes, PowerStep
<1>6. Fix(PowerTimes)
  <2> HIDE DEF Fix
  <2> QED BY <1>4, <1>5
<1>7. PowerTimes[n] = [a \in Nat |-> [b \in Nat |-> PowerStep(PowerTimes, n, a, b)]]
  BY <1>6
<1>8. PowerTimes[n][x] = [b \in Nat |-> PowerStep(PowerTimes, n, x, b)]
  BY <1>7
<1> QED BY <1>8

\* A power of a fraction of 1 is one too, rounded up or down (_decPow).
LEMMA DecMulOfFractions ==
  ASSUME NEW x \in 0..DECIMAL_PRECISION, NEW y \in 0..DECIMAL_PRECISION
  PROVE  DecMul(x, y) \in 0..DECIMAL_PRECISION
<1> DEFINE P == DECIMAL_PRECISION
<1>1. P \in Nat \ {0} /\ P \div 2 \in Nat /\ P \div 2 < P
  BY BaseRateAssumption
<1>2. x * y \in Nat /\ x * y <= P * P /\ P * P \in Nat
  <2>1. x * y <= P * y /\ P * y <= P * P
    BY <1>1
  <2> QED
    BY <1>1, <2>1, ProductNat
<1>3. ASSUME NEW a \in Nat, NEW b \in Nat, NEW p \in Nat \ {0}, a <= p * p, b < p
      PROVE  (a + b) \div p <= p
  <2>1. a + b < (p + 1) * p
    BY <1>3
  <2> DEFINE q == (a + b) \div p
  <2>2. q \in Nat /\ q * p <= a + b
    BY <1>3, QuotientNat
  <2> HIDE DEF q
  <2>3. q < p + 1
    <3>1. q * p < (p + 1) * p
      BY <1>3, <2>1, <2>2
    <3> QED
      BY <1>3, <2>2, <3>1
  <2> QED
    BY <2>2, <2>3 DEF q
<1>4. (x * y + P \div 2) \div P <= P
  BY <1>1, <1>2, <1>3
<1> QED
  BY <1>4, DecMulNat, BaseRateAssumption DEF DecMul

\* Powers of fractions, times a fraction, are fractions.
LEMMA PowerOfFractions ==
  \A n \in Nat \ {0}, x \in 0..DECIMAL_PRECISION, y \in 0..DECIMAL_PRECISION :
    PowerTimes[n][x][y] \in 0..DECIMAL_PRECISION
<1> DEFINE Fractions == 0..DECIMAL_PRECISION
           Good == { n \in Nat : n # 0 => \A x, y \in Fractions : PowerTimes[n][x][y] \in Fractions }
<1>1. Fractions \subseteq Nat
  BY BaseRateAssumption
<1>2. ASSUME NEW n \in Nat, \A m \in 0..(n - 1) : m \in Good
      PROVE  n \in Good
  <2> SUFFICES ASSUME n # 0, NEW x \in Fractions, NEW y \in Fractions
               PROVE  PowerTimes[n][x][y] \in Fractions
    OBVIOUS
  <2>1. PowerTimes[n][x][y] = PowerStep(PowerTimes, n, x, y)
    BY <1>1, PowerTimesDef
  <2>2. DecMul(x, x) \in Fractions /\ DecMul(x, y) \in Fractions
    BY DecMulOfFractions
  <2>3. CASE n = 1
    BY <2>1, <2>2, <2>3 DEF PowerStep
  <2>4. CASE n # 1
    <3> DEFINE m == n \div 2
    <3>1. m \in 0..(n - 1) /\ m # 0
      BY <2>4
    <3> HIDE DEF m
    <3>2. \A a, b \in Fractions : PowerTimes[m][a][b] \in Fractions
      BY <1>2, <3>1
    <3> HIDE DEF Fractions
    <3> QED BY <2>1, <2>2, <2>4, <3>2 DEF PowerStep, m
  <2> QED BY <2>3, <2>4
<1>3. Nat \subseteq Good
  <2> HIDE DEF Good
  <2> QED BY <1>2, NaturalInduction
<1> QED BY <1>3

\* _decPow of a fraction is a fraction, whatever the exponent.
LEMMA DecPowIsFraction ==
  ASSUME NEW x \in 0..DECIMAL_PRECISION, NEW n \in Nat
  PROVE  DecPow(x, n) \in 0..DECIMAL_PRECISION
<1>1. DECIMAL_PRECISION \in 0..DECIMAL_PRECISION
  BY BaseRateAssumption
<1>2. CASE n = 0
  BY <1>1, <1>2 DEF DecPow
<1>3. CASE n # 0
  <2>1. Lesser(n, MinutesIn1000Years) \in Nat \ {0}
    BY <1>3, BaseRateAssumption DEF Lesser
  <2> QED
    BY <1>1, <1>3, <2>1, PowerOfFractions DEF DecPow
<1> QED
  BY <1>2, <1>3

----------------------------------------------------------------------------
\* The staking contract.

StakingTypeOK ==
  /\ stakes \in [Stakers -> Nat]
  /\ totalMPStaked \in Nat
  /\ F \in Fees /\ balance \in Fees
  /\ snapshots \in [Stakers -> Fees]

\* What the contract owes to u of an asset, in units of 1/Precision, before the
\* division of getPendingRBTCGain and getPendingBPDGain.
Owed(u, asset) == stakes[u] * (F[asset] - snapshots[u][asset])
TotalOwed(asset) == SumFunctionOnSet([u \in Stakers |-> Owed(u, asset)], Stakers)

\* totalMPStaked is the sum by which a fee is divided (MPStaking.sol, F_RBTC).
StakedIsSum == totalMPStaked = SumFunctionOnSet(stakes, Stakers)

SnapshotsBehind == \A u \in Stakers, asset \in Assets : snapshots[u][asset] <= F[asset]

OwedIsHeld == \A asset \in Assets : TotalOwed(asset) <= balance[asset] * Precision

StakingInv == StakingTypeOK /\ StakedIsSum /\ SnapshotsBehind /\ OwedIsHeld

\* What a staker is owed is natural.
LEMMA OwedNat ==
  ASSUME StakingInv, NEW asset \in Assets
  PROVE  /\ \A u \in Stakers : Owed(u, asset) \in Nat
         /\ \A u \in Stakers : PendingGain(u, asset) \in Nat
         /\ \A u \in Stakers : PendingGain(u, asset) * Precision <= Owed(u, asset)
         /\ TotalOwed(asset) \in Nat
<1>1. ASSUME NEW u \in Stakers
      PROVE  /\ Owed(u, asset) \in Nat
             /\ PendingGain(u, asset) \in Nat
             /\ PendingGain(u, asset) * Precision <= Owed(u, asset)
  <2>1. stakes[u] \in Nat /\ F[asset] - snapshots[u][asset] \in Nat
    <3>1. F[asset] \in Nat /\ snapshots[u][asset] \in Nat /\ snapshots[u][asset] <= F[asset]
      BY DEF StakingInv, StakingTypeOK, Fees, SnapshotsBehind
    <3> QED
      BY <3>1 DEF StakingInv, StakingTypeOK
  <2>2. Owed(u, asset) \in Nat
    BY <2>1, ProductNat DEF Owed
  <2>3. PendingGain(u, asset) = Owed(u, asset) \div Precision
    BY DEF PendingGain, Owed
  <2> QED
    BY <2>2, <2>3, QuotientNat, MPStakingAssumption
<1>2. TotalOwed(asset) \in Nat
  <2> DEFINE owed == [u \in Stakers |-> Owed(u, asset)]
  <2>1. \A u \in Stakers : owed[u] \in Nat
    BY <1>1
  <2> HIDE DEF owed
  <2> QED
    BY <2>1, SumNat, MPStakingAssumption DEF TotalOwed, owed
<1> QED
  BY <1>1, <1>2

\* Gains are rounded down, so what is paid is held.
LEMMA GainsFollow ==
  ASSUME StakingInv
  PROVE  GainsAreBacked
<1> SUFFICES ASSUME NEW asset \in Assets
             PROVE  SumFunction([u \in Stakers |-> PendingGain(u, asset)]) <= balance[asset]
  BY DEF GainsAreBacked, Assets
<1> DEFINE gain == [u \in Stakers |-> PendingGain(u, asset)]
           scaled == [u \in Stakers |-> Precision * PendingGain(u, asset)]
           owed == [u \in Stakers |-> Owed(u, asset)]
<1>1. /\ \A u \in Stakers : gain[u] \in Nat /\ scaled[u] = Precision * gain[u]
      /\ \A u \in Stakers : scaled[u] \in Int /\ owed[u] \in Int /\ scaled[u] <= owed[u]
  BY OwedNat, MPStakingAssumption
<1>2. SumFunction(gain) = SumFunctionOnSet(gain, Stakers)
  BY DEF SumFunction
<1>3. TotalOwed(asset) = SumFunctionOnSet(owed, Stakers)
  BY DEF TotalOwed
<1> HIDE DEF gain, scaled, owed
<1>4. SumFunctionOnSet(gain, Stakers) \in Nat
  BY <1>1, SumNat, MPStakingAssumption
<1>5. SumFunctionOnSet(scaled, Stakers) = Precision * SumFunctionOnSet(gain, Stakers)
  BY <1>1, SumTimes, MPStakingAssumption
<1>6. SumFunctionOnSet(scaled, Stakers) <= SumFunctionOnSet(owed, Stakers)
  BY <1>1, SumMonotone, MPStakingAssumption
<1>7. balance[asset] \in Nat /\ TotalOwed(asset) \in Nat /\ TotalOwed(asset) <= balance[asset] * Precision
  BY OwedNat DEF StakingInv, StakingTypeOK, Fees, OwedIsHeld
<1>8. Precision * SumFunctionOnSet(gain, Stakers) <= balance[asset] * Precision
  BY <1>3, <1>4, <1>5, <1>6, <1>7, ProductNat, MPStakingAssumption
<1>9. ASSUME NEW a \in Nat, NEW b \in Nat, NEW p \in Nat \ {0}, p * a <= b * p
      PROVE  a <= b
  BY <1>9
<1>10. SumFunctionOnSet(gain, Stakers) <= balance[asset]
  BY <1>4, <1>7, <1>8, <1>9, MPStakingAssumption
<1> QED
  BY <1>2, <1>10 DEF gain

\* A staker is paid and then has n at stake: what is owed falls by at least what
\* is paid.
LEMMA PaidInv ==
  ASSUME StakingInv, NEW u \in Stakers, NEW n \in Nat, PayGains(u), UpdateUserSnapshots(u),
         stakes' = [stakes EXCEPT ![u] = n], totalMPStaked' = totalMPStaked - stakes[u] + n, F' = F
  PROVE  StakingInv'
<1>1. \A asset \in Assets : /\ PendingGain(u, asset) \in Nat
                            /\ PendingGain(u, asset) * Precision <= Owed(u, asset)
                            /\ PendingGain(u, asset) <= balance[asset]
                            /\ balance'[asset] = balance[asset] - PendingGain(u, asset)
  BY OwedNat DEF PayGains, Assets
<1>2. balance' \in Fees
  BY <1>1 DEF PayGains, Fees, Assets, StakingInv, StakingTypeOK
<1>3. snapshots' = [snapshots EXCEPT ![u] = F]
  BY DEF UpdateUserSnapshots
<1>4. StakedIsSum'
  <2> DEFINE after == stakes'
  <2>1. /\ \A v \in Stakers : stakes[v] \in Int
        /\ after[u] = n /\ after[u] \in Int
        /\ \A v \in Stakers \ {u} : after[v] = stakes[v]
    BY DEF StakingInv, StakingTypeOK
  <2> HIDE DEF after
  <2>2. SumFunctionOnSet(after, Stakers) = SumFunctionOnSet(stakes, Stakers) - stakes[u] + after[u]
    BY ONLY <2>1, SumUpdate, MPStakingAssumption
  <2> QED
    BY <2>1, <2>2 DEF after, StakedIsSum, StakingInv, StakingTypeOK
<1>5. StakingTypeOK'
  <2>1. SumFunctionOnSet(stakes', Stakers) \in Nat
    BY SumNat, MPStakingAssumption DEF StakingInv, StakingTypeOK
  <2> QED
    BY <1>2, <1>3, <1>4, <2>1 DEF StakedIsSum, StakingInv, StakingTypeOK
<1>6. SnapshotsBehind'
  BY <1>3 DEF SnapshotsBehind, StakingInv, StakingTypeOK, Fees
<1>7. OwedIsHeld'
  <2> SUFFICES ASSUME NEW asset \in Assets
               PROVE  TotalOwed(asset)' <= balance'[asset] * Precision
    BY DEF OwedIsHeld
  <2> DEFINE before == [v \in Stakers |-> Owed(v, asset)]
             after == [v \in Stakers |-> Owed(v, asset)']
  <2>1. after[u] = 0
    BY <1>3 DEF Owed, StakingInv, StakingTypeOK, Fees
  <2>2. \A v \in Stakers \ {u} : after[v] = before[v]
    BY <1>3 DEF Owed, StakingInv, StakingTypeOK
  <2>3. \A v \in Stakers : before[v] \in Int
    BY OwedNat
  <2>4. before[u] = Owed(u, asset)
    OBVIOUS
  <2>5. /\ TotalOwed(asset) = SumFunctionOnSet(before, Stakers)
        /\ TotalOwed(asset)' = SumFunctionOnSet(after, Stakers)
    BY DEF TotalOwed
  <2> HIDE DEF before, after
  <2>6. TotalOwed(asset)' = TotalOwed(asset) - Owed(u, asset) + 0
    BY <2>1, <2>2, <2>3, <2>4, <2>5, SumUpdate, MPStakingAssumption
  <2>7. TotalOwed(asset) \in Nat /\ Owed(u, asset) \in Nat /\ balance[asset] \in Nat
    BY OwedNat DEF StakingInv, StakingTypeOK, Fees
  <2>8. TotalOwed(asset) <= balance[asset] * Precision
    BY DEF StakingInv, OwedIsHeld
  <2>9. (balance[asset] - PendingGain(u, asset)) * Precision
          = balance[asset] * Precision - PendingGain(u, asset) * Precision
    BY <1>1, <2>7, MPStakingAssumption
  <2> QED
    BY <1>1, <2>6, <2>7, <2>8, <2>9, ProductNat, MPStakingAssumption
<1> QED
  BY <1>4, <1>5, <1>6, <1>7 DEF StakingInv

\* stake pays the gains, then adds to the stake.
LEMMA StakeInv ==
  ASSUME StakingInv, NEW u \in Stakers, NEW amount \in Nat, Stake(u, amount)
  PROVE  StakingInv'
<1> DEFINE n == stakes[u] + amount
<1>1. n \in Nat /\ totalMPStaked + amount = totalMPStaked - stakes[u] + n
  BY DEF StakingInv, StakingTypeOK
<1>2. stakes' = [stakes EXCEPT ![u] = n] /\ totalMPStaked' = totalMPStaked + amount
  BY DEF Stake
<1> HIDE DEF n
<1> QED
  BY <1>1, <1>2, PaidInv DEF Stake

\* unstake pays the gains, then takes from the stake.
LEMMA UnstakeInv ==
  ASSUME StakingInv, NEW u \in Stakers, NEW amount \in Nat, Unstake(u, amount)
  PROVE  StakingInv'
<1> DEFINE n == stakes[u] - Withdrawn(u, amount)
<1>1. n \in Nat /\ totalMPStaked - Withdrawn(u, amount) = totalMPStaked - stakes[u] + n
  BY DEF Withdrawn, StakingInv, StakingTypeOK
<1>2. stakes' = [stakes EXCEPT ![u] = n]
  BY DEF Unstake
<1> HIDE DEF n
<1> QED
  BY <1>1, <1>2, PaidInv DEF Unstake

\* A fee raises what is owed by at most the fee.
LEMMA ReceiveFeeInv ==
  ASSUME StakingInv, NEW asset \in Assets, NEW fee \in Nat, ReceiveFee(asset, fee)
  PROVE  StakingInv'
<1> DEFINE q == IF totalMPStaked = 0 THEN 0 ELSE (fee * Precision) \div totalMPStaked
<1>1. totalMPStaked \in Nat /\ fee * Precision \in Nat
  BY ProductNat, MPStakingAssumption DEF StakingInv, StakingTypeOK
<1>2. q \in Nat /\ q * totalMPStaked <= fee * Precision
  BY <1>1, QuotientNat
<1>3. /\ F' = [F EXCEPT ![asset] = @ + q]
      /\ balance' = [balance EXCEPT ![asset] = @ + fee]
      /\ UNCHANGED <<stakes, totalMPStaked, snapshots>>
  BY DEF ReceiveFee
<1> HIDE DEF q
<1>4. StakingTypeOK' /\ SnapshotsBehind'
  BY <1>2, <1>3 DEF StakingInv, StakingTypeOK, SnapshotsBehind, Fees
<1>5. StakedIsSum'
  BY <1>3 DEF StakingInv, StakedIsSum
<1>6. ASSUME NEW other \in Assets, other # asset
      PROVE  TotalOwed(other)' <= balance'[other] * Precision
  <2>1. F'[other] = F[other] /\ balance'[other] = balance[other]
    BY <1>3, <1>6 DEF StakingInv, StakingTypeOK, Fees
  <2>2. TotalOwed(other)' = TotalOwed(other)
    BY <1>3, <2>1 DEF TotalOwed, Owed
  <2> QED
    BY <2>1, <2>2, <1>6 DEF StakingInv, OwedIsHeld
<1>7. TotalOwed(asset)' <= balance'[asset] * Precision
  <2> DEFINE before == [v \in Stakers |-> Owed(v, asset)]
             after == [v \in Stakers |-> Owed(v, asset)']
             share == [v \in Stakers |-> q * stakes[v]]
  <2>1. ASSUME NEW v \in Stakers
        PROVE  before[v] \in Int /\ share[v] \in Int /\ after[v] = before[v] + share[v]
    <3>1. /\ stakes[v] \in Int /\ F[asset] - snapshots[v][asset] \in Int /\ q \in Int
          /\ F'[asset] - snapshots[v][asset] = (F[asset] - snapshots[v][asset]) + q
      BY <1>2, <1>3 DEF StakingInv, StakingTypeOK, Fees
    <3>2. after[v] = stakes[v] * (F'[asset] - snapshots[v][asset])
      BY <1>3 DEF Owed
    <3>3. before[v] = stakes[v] * (F[asset] - snapshots[v][asset])
      BY DEF Owed
    <3>4. share[v] = q * stakes[v]
      OBVIOUS
    <3> HIDE DEF before, after, share
    <3>5. ASSUME NEW a \in Int, NEW b \in Int, NEW c \in Int
          PROVE  a * b \in Int /\ a * (b + c) = a * b + c * a /\ c * a \in Int
      OBVIOUS
    <3> QED
      BY <3>1, <3>2, <3>3, <3>4, <3>5
  <2>2. \A v \in Stakers : stakes[v] \in Int /\ share[v] = q * stakes[v]
    BY DEF StakingInv, StakingTypeOK
  <2>3. /\ TotalOwed(asset) = SumFunctionOnSet(before, Stakers)
        /\ TotalOwed(asset)' = SumFunctionOnSet(after, Stakers)
    BY DEF TotalOwed
  <2> HIDE DEF before, after, share
  <2>4. SumFunctionOnSet(after, Stakers) = SumFunctionOnSet(before, Stakers) + SumFunctionOnSet(share, Stakers)
    BY <2>1, SumPlus, MPStakingAssumption
  <2>5. SumFunctionOnSet(share, Stakers) = q * totalMPStaked
    <3>1. q \in Int /\ totalMPStaked = SumFunctionOnSet(stakes, Stakers)
      BY <1>2 DEF StakingInv, StakedIsSum
    <3>2. SumFunctionOnSet(share, Stakers) = q * SumFunctionOnSet(stakes, Stakers)
      BY <2>2, <3>1, SumTimes, MPStakingAssumption
    <3> QED
      BY <3>1, <3>2
  <2>6. TotalOwed(asset) \in Nat /\ balance[asset] \in Nat
    BY OwedNat DEF StakingInv, StakingTypeOK, Fees
  <2>7. TotalOwed(asset) <= balance[asset] * Precision
    BY DEF StakingInv, OwedIsHeld
  <2>8. balance'[asset] = balance[asset] + fee
    BY <1>3 DEF StakingInv, StakingTypeOK, Fees
  <2>9. (balance[asset] + fee) * Precision = balance[asset] * Precision + fee * Precision
    BY <2>6, MPStakingAssumption
  <2>10. q * totalMPStaked \in Nat /\ balance[asset] * Precision \in Nat
    BY <1>1, <1>2, <2>6, ProductNat, MPStakingAssumption
  <2> QED
    BY <1>1, <1>2, <2>3, <2>4, <2>5, <2>6, <2>7, <2>8, <2>9, <2>10
<1> QED
  BY <1>4, <1>5, <1>6, <1>7 DEF StakingInv, OwedIsHeld

\* Nothing is staked, held or owed at first.
LEMMA InitStakingInv ==
  ASSUME InitStaking
  PROVE  StakingInv
<1>1. StakingTypeOK /\ SnapshotsBehind
  BY DEF InitStaking, StakingTypeOK, SnapshotsBehind, NoFees, Fees, Assets
<1>2. StakedIsSum
  BY SumZero, MPStakingAssumption DEF InitStaking, StakedIsSum
<1>3. OwedIsHeld
  <2> SUFFICES ASSUME NEW asset \in Assets
               PROVE  TotalOwed(asset) <= balance[asset] * Precision
    BY DEF OwedIsHeld
  <2> DEFINE owed == [u \in Stakers |-> Owed(u, asset)]
  <2>1. \A u \in Stakers : owed[u] = 0
    BY DEF InitStaking, Owed, NoFees, Assets
  <2> HIDE DEF owed
  <2>2. SumFunctionOnSet(owed, Stakers) = 0
    BY <2>1, SumZero, MPStakingAssumption
  <2>3. balance[asset] = 0
    BY DEF InitStaking, NoFees, Assets
  <2> QED
    BY <2>2, <2>3, MPStakingAssumption DEF TotalOwed, owed
<1> QED
  BY <1>1, <1>2, <1>3 DEF StakingInv

----------------------------------------------------------------------------
\* The base rate.

RateInv ==
  /\ baseRate \in 0..DECIMAL_PRECISION
  /\ timestamp \in Nat /\ lastFeeOperationTime \in 0..timestamp

\* The assert of decayBaseRateFromBorrowing holds, and time never raises the rate.
DecayedIsLower == DecayedBaseRate \in 0..baseRate

\* The decayed base rate is not above the base rate.
LEMMA DecayNeverRaises ==
  ASSUME RateInv
  PROVE  DecayedIsLower
<1> DEFINE power == DecPow(MINUTE_DECAY_FACTOR, MinutesPassed)
<1>1. timestamp - lastFeeOperationTime \in Nat
  BY DEF RateInv
<1>2. MinutesPassed \in Nat
  BY <1>1, QuotientNat, BaseRateAssumption DEF MinutesPassed
<1>3. power \in 0..DECIMAL_PRECISION
  BY <1>2, DecPowIsFraction, BaseRateAssumption
<1>4. baseRate \in Nat /\ DECIMAL_PRECISION \in Nat \ {0}
  BY BaseRateAssumption DEF RateInv
<1> HIDE DEF power
<1>5. baseRate * power \in Nat /\ baseRate * power <= baseRate * DECIMAL_PRECISION
  BY <1>3, <1>4, ProductNat
<1> DEFINE rate == (baseRate * power) \div DECIMAL_PRECISION
<1>6. rate \in Nat /\ rate * DECIMAL_PRECISION <= baseRate * power
  BY <1>4, <1>5, QuotientNat
<1> HIDE DEF rate
<1>7. rate * DECIMAL_PRECISION <= baseRate * DECIMAL_PRECISION
  BY <1>3, <1>4, <1>5, <1>6, ProductNat
<1>8. rate <= baseRate
  BY <1>4, <1>6, <1>7
<1> QED
  BY <1>4, <1>6, <1>8 DEF DecayedIsLower, DecayedBaseRate, rate, power

\* _updateLastFeeOpTime never goes beyond the block.
LEMMA LastFeeOpTimeInv ==
  ASSUME RateInv
  PROVE  LastFeeOpTimeAfter \in 0..timestamp
BY DEF RateInv, LastFeeOpTimeAfter

\* The fees are natural, so that what the staking contract receives is.
LEMMA FeesNat ==
  ASSUME NEW rate \in Nat, NEW amount \in Nat
  PROVE  BorrowingFee(rate, amount) \in Nat /\ RedemptionFee(rate, amount) \in Nat
<1>1. BorrowingRate(rate) \in Nat /\ RedemptionRate(rate) \in Nat
  BY BaseRateAssumption DEF BorrowingRate, RedemptionRate, Lesser
<1>2. BorrowingRate(rate) * amount \in Nat /\ RedemptionRate(rate) * amount \in Nat
  BY <1>1, ProductNat
<1> QED
  BY <1>2, QuotientNat, BaseRateAssumption DEF BorrowingFee, RedemptionFee

\* A redemption raises the base rate to one at most.
LEMMA RateAfterRedemptionType ==
  ASSUME RateInv, NEW drawn \in Nat, NEW supply \in Nat \ {0}
  PROVE  BaseRateAfterRedemption(drawn, supply) \in 0..DECIMAL_PRECISION
<1>1. DecayedBaseRate \in Nat
  BY DecayNeverRaises DEF DecayedIsLower
<1>2. drawn * Price \in Nat
  BY ProductNat, BaseRateAssumption
<1>3. (drawn * Price) \div supply \in Nat
  BY <1>2, QuotientNat
<1>4. ((drawn * Price) \div supply) \div BETA \in Nat
  BY <1>3, QuotientNat, BaseRateAssumption
<1> QED
  BY <1>1, <1>4, BaseRateAssumption DEF BaseRateAfterRedemption, Lesser

----------------------------------------------------------------------------
\* The inductive argument.

IInv == RateInv /\ StakingInv

\* The contracts as deployed.
LEMMA InitInv == Init => IInv
<1> SUFFICES ASSUME Init PROVE IInv
  OBVIOUS
<1>1. RateInv
  BY BaseRateAssumption DEF Init, InitBaseRate, RateInv
<1> QED
  BY <1>1, InitStakingInv DEF Init, IInv

\* Every step keeps both contracts' invariants.
LEMMA NextInv == IInv /\ [Next]_vars => IInv'
<1> SUFFICES ASSUME IInv, [Next]_vars PROVE IInv'
  OBVIOUS
<1>1. ASSUME NEW amount \in Borrowings, Borrow(amount)
      PROVE  IInv'
  <2>1. DecayedBaseRate \in 0..baseRate
    BY DecayNeverRaises DEF IInv, DecayedIsLower
  <2>2. BorrowingFee(DecayedBaseRate, amount) \in Nat
    BY <2>1, FeesNat, ProtocolFeesAssumption
  <2>3. StakingInv'
    BY <1>1, <2>2, ReceiveFeeInv DEF Borrow, IInv, Assets
  <2>4. RateInv'
    BY <1>1, <2>1, LastFeeOpTimeInv, BaseRateAssumption DEF Borrow, DecayBaseRateFromBorrowing, IInv, RateInv
  <2> QED
    BY <2>3, <2>4 DEF IInv
<1>2. ASSUME NEW drawn \in Drawn, NEW supply \in Supplies, Redeem(drawn, supply)
      PROVE  IInv'
  <2>1. drawn \in Nat /\ supply \in Nat \ {0}
    BY ProtocolFeesAssumption
  <2>2. BaseRateAfterRedemption(drawn, supply) \in 0..DECIMAL_PRECISION
    BY <2>1, RateAfterRedemptionType DEF IInv
  <2>3. RedemptionFee(BaseRateAfterRedemption(drawn, supply), drawn) \in Nat
    BY <2>1, <2>2, FeesNat
  <2>4. StakingInv'
    BY <1>2, <2>3, ReceiveFeeInv DEF Redeem, IInv, Assets
  <2>5. RateInv'
    BY <1>2, <2>2, LastFeeOpTimeInv DEF Redeem, UpdateBaseRateFromRedemption, IInv, RateInv
  <2> QED
    BY <2>4, <2>5 DEF IInv
<1>3. CASE StakeMP
  <2>1. PICK u \in Stakers, amount \in StakeAmounts : Stake(u, amount) /\ UNCHANGED <<rateVars, timestamp>>
    BY <1>3 DEF StakeMP
  <2> QED
    BY <2>1, StakeInv, MPStakingAssumption DEF IInv, RateInv, rateVars
<1>4. CASE UnstakeMP
  <2>1. PICK u \in Stakers, amount \in StakeAmounts : Unstake(u, amount) /\ UNCHANGED <<rateVars, timestamp>>
    BY <1>4 DEF UnstakeMP
  <2> QED
    BY <2>1, UnstakeInv, MPStakingAssumption DEF IInv, RateInv, rateVars
<1>5. ASSUME UNCHANGED stakingVars
      PROVE  StakingInv'
  BY <1>5 DEF IInv, stakingVars, StakingInv, StakingTypeOK, StakedIsSum, SnapshotsBehind,
              OwedIsHeld, TotalOwed, Owed
<1>6. CASE Pass
  BY <1>5, <1>6 DEF Pass, IInv, RateInv, rateVars
<1>7. CASE UNCHANGED vars
  BY <1>5, <1>7 DEF vars, IInv, RateInv, rateVars
<1> QED
  BY <1>1, <1>2, <1>3, <1>4, <1>6, <1>7 DEF Next

\* The inductive invariant holds in every reachable state.
THEOREM SpecInv == Spec => []IInv
<1>1. Init => IInv
  BY InitInv
<1>2. IInv /\ [Next]_vars => IInv'
  BY NextInv
<1> QED
  BY <1>1, <1>2, PTL DEF Spec

\* The staking contract can always pay the gains of every staker at once: what
\* rounding takes from one is never paid to another (MPStaking.sol, F_RBTC, F_BPD).
THEOREM GainsAreAlwaysBacked == Spec => []GainsAreBacked
<1>1. IInv => GainsAreBacked
  BY GainsFollow DEF IInv
<1> QED
  BY <1>1, SpecInv, PTL

\* The base rate is a fraction of 1 and only redemptions raise it, so the assert of
\* decayBaseRateFromBorrowing cannot fail (VaultManager.sol:1437).  Nothing is said of that
\* of a redemption, newBaseRate > 0 (VaultManager.sol:1362), which a small one can fail.
THEOREM BaseRateIsFraction == Spec => [](baseRate \in 0..DECIMAL_PRECISION /\ DecayedIsLower)
<1>1. IInv => baseRate \in 0..DECIMAL_PRECISION /\ DecayedIsLower
  BY DecayNeverRaises DEF IInv, RateInv
<1> QED
  BY <1>1, SpecInv, PTL

----------------------------------------------------------------------------
(* The clock of the liquidity mining pool's reward period, for any number  *)
(* of providers, any duration and rate, and any order of calls.            *)

\* What every function of the contract finds and leaves.
Sound(p) ==
  /\ p \in Storage
  /\ p.lastUpdateTime <= timestamp /\ p.lastUpdateTime <= p.periodFinish
  /\ \A u \in Providers : p.paid[u] <= p.rewardPerTokenStored

\* The update has been made at this block's time.
UpToDate(p) == p.lastUpdateTime = LastTimeRewardApplicable(p)

Rest(p) ==
  p.periodFinish - IF p.totalSupply = 0 THEN p.lastUpdateTime ELSE LastTimeRewardApplicable(p)

PoolInv ==
  /\ TypeOK
  /\ Sound(pool)
  /\ ~isSet => pool.totalSupply = 0 /\ stakedTime = 0
  /\ ClockStopsWhileEmpty

-----------------------------------------------------------------------------
(* The functions of the liquidity mining pool. *)

\* The reward per token never falls.
LEMMA PerTokenGrows ==
  ASSUME NEW p, Sound(p), timestamp \in Nat
  PROVE  RewardPerToken(p) \in Nat /\ p.rewardPerTokenStored <= RewardPerToken(p)
<1>1. CASE p.totalSupply = 0
  BY <1>1 DEF RewardPerToken, Sound, Storage
<1>2. CASE p.totalSupply # 0
  <2> DEFINE time == LastTimeRewardApplicable(p) - p.lastUpdateTime
             paidOut == (time * p.rewardRate * TokenUnit) \div p.totalSupply
  <2>1. time \in Nat
    BY DEF LastTimeRewardApplicable, Sound, Storage
  <2>2. time * p.rewardRate * TokenUnit \in Nat
    <3>1. p.rewardRate \in Nat /\ TokenUnit \in Nat
      BY RskSwapPoolAssumption DEF Sound, Storage
    <3> QED
      BY <2>1, <3>1, ProductNat
  <2>3. paidOut \in Nat
    <3>1. p.totalSupply \in Nat \ {0}
      BY <1>2 DEF Sound, Storage
    <3> QED
      BY <2>2, <3>1, QuotientNat
  <2>4. RewardPerToken(p) = p.rewardPerTokenStored + paidOut
    BY <1>2 DEF RewardPerToken
  <2>5. p.rewardPerTokenStored \in Nat
    BY DEF Sound, Storage
  <2> HIDE DEF paidOut
  <2> QED
    BY <2>3, <2>4, <2>5
<1> QED
  BY <1>1, <1>2

\* What an account earned is natural.
LEMMA EarnedIsNat ==
  ASSUME NEW p, Sound(p), timestamp \in Nat, NEW u \in Providers
  PROVE  Earned(p, u) \in Nat
<1> DEFINE due == RewardPerToken(p) - p.paid[u]
<1>1. due \in Nat
  BY PerTokenGrows DEF Sound, Storage
<1>2. p.balances[u] \in Nat /\ p.rewards[u] \in Nat /\ TokenUnit \in Nat \ {0}
  BY RskSwapPoolAssumption DEF Sound, Storage
<1> HIDE DEF due
<1>3. (p.balances[u] * due) \div TokenUnit \in Nat
  BY <1>1, <1>2, ProductNat, QuotientNat
<1> QED
  BY <1>2, <1>3 DEF Earned, due

\* updateReward brings the storage to the present.
LEMMA UpdateRewardIsSound ==
  ASSUME NEW p, Sound(p), timestamp \in Nat
  PROVE  /\ Sound(UpdateReward(p)) /\ UpToDate(UpdateReward(p))
         /\ UpdateReward(p).totalSupply = p.totalSupply
         /\ UpdateReward(p).periodFinish = p.periodFinish
         /\ UpdateReward(p).balances = p.balances
<1> DEFINE q == UpdateReward(p)
<1>1. RewardPerToken(p) \in Nat /\ p.rewardPerTokenStored <= RewardPerToken(p)
  BY PerTokenGrows
<1>2. LastTimeRewardApplicable(p) \in Nat
  BY DEF LastTimeRewardApplicable, Sound, Storage
<1>3. /\ q \in Storage
      /\ q.rewardPerTokenStored = RewardPerToken(p)
      /\ q.lastUpdateTime = LastTimeRewardApplicable(p)
      /\ q.paid = p.paid /\ q.balances = p.balances
      /\ q.totalSupply = p.totalSupply /\ q.periodFinish = p.periodFinish
  BY <1>1, <1>2 DEF UpdateReward, Sound, Storage
<1>4. q.lastUpdateTime <= timestamp /\ q.lastUpdateTime <= q.periodFinish /\ UpToDate(q)
  BY <1>3 DEF UpToDate, LastTimeRewardApplicable, Sound, Storage
<1>5. \A u \in Providers : q.paid[u] <= q.rewardPerTokenStored
  BY <1>1, <1>3 DEF Sound, Storage
<1> QED
  BY <1>3, <1>4, <1>5 DEF Sound

\* updateReward, with an account to settle.
LEMMA UpdateAccountIsSound ==
  ASSUME NEW p, Sound(p), timestamp \in Nat, NEW u \in Providers
  PROVE  /\ Sound(UpdateAccountReward(p, u)) /\ UpToDate(UpdateAccountReward(p, u))
         /\ UpdateAccountReward(p, u).totalSupply = p.totalSupply
         /\ UpdateAccountReward(p, u).periodFinish = p.periodFinish
         /\ UpdateAccountReward(p, u).balances = p.balances
<1> DEFINE q == UpdateReward(p)
           r == UpdateAccountReward(p, u)
<1>1. /\ Sound(q) /\ UpToDate(q) /\ q.totalSupply = p.totalSupply
      /\ q.periodFinish = p.periodFinish /\ q.balances = p.balances
  BY UpdateRewardIsSound
<1>2. Earned(q, u) \in Nat
  BY <1>1, EarnedIsNat
<1>3. r = [q EXCEPT !.rewards[u] = Earned(q, u), !.paid[u] = q.rewardPerTokenStored]
  BY DEF UpdateAccountReward
<1> HIDE DEF q, r
<1>4. /\ r \in Storage
      /\ r.totalSupply = q.totalSupply /\ r.periodFinish = q.periodFinish
      /\ r.balances = q.balances /\ r.lastUpdateTime = q.lastUpdateTime
      /\ r.rewardPerTokenStored = q.rewardPerTokenStored
      /\ r.paid = [q.paid EXCEPT ![u] = q.rewardPerTokenStored]
  BY <1>1, <1>2, <1>3 DEF Sound, Storage
<1>5. Sound(r) /\ UpToDate(r)
  BY <1>1, <1>4 DEF Sound, Storage, UpToDate, LastTimeRewardApplicable
<1> QED
  BY <1>1, <1>4, <1>5 DEF r

\* A stake or a claim moves the end by the time the pool has been empty, and
\* the part of the period still to be paid stays what it was.
LEMMA RefreshKeepsRest ==
  ASSUME NEW p, Sound(p), timestamp \in Nat, NEW u \in Providers
  PROVE  /\ Sound(Refreshed(p, u)) /\ UpToDate(Refreshed(p, u))
         /\ Refreshed(p, u).totalSupply = p.totalSupply
         /\ Refreshed(p, u).balances = p.balances
         /\ Rest(Refreshed(p, u)) = Rest(p)
<1> DEFINE q == UpdatePeriodFinish(p)
           r == Refreshed(p, u)
<1>1. /\ q \in Storage
      /\ q.totalSupply = p.totalSupply /\ q.balances = p.balances
      /\ q.lastUpdateTime = p.lastUpdateTime
      /\ q.paid = p.paid /\ q.rewardPerTokenStored = p.rewardPerTokenStored
      /\ q.periodFinish = IF p.totalSupply = 0
                          THEN p.periodFinish + (timestamp - p.lastUpdateTime)
                          ELSE p.periodFinish
  BY DEF UpdatePeriodFinish, Sound, Storage
<1>2. Sound(q)
  BY <1>1 DEF Sound, Storage
<1>3. r = UpdateAccountReward(q, u)
  BY DEF Refreshed
<1> HIDE DEF q, r
<1>4. /\ Sound(r) /\ UpToDate(r) /\ r.totalSupply = q.totalSupply
      /\ r.periodFinish = q.periodFinish /\ r.balances = q.balances
  BY <1>2, <1>3, UpdateAccountIsSound
<1>5. Rest(r) = Rest(p)
  BY <1>1, <1>4 DEF Rest, UpToDate, LastTimeRewardApplicable, Sound, Storage
<1> QED
  BY <1>1, <1>4, <1>5 DEF r

\* A withdrawal stops the clock where it stands.
LEMMA WithdrawalKeepsRest ==
  ASSUME NEW p, Sound(p), timestamp \in Nat, NEW u \in Providers, NEW amount \in Nat,
         0 < amount, amount <= p.totalSupply, amount <= p.balances[u]
  PROVE  Sound(AfterWithdrawal(p, u, amount)) /\ Rest(AfterWithdrawal(p, u, amount)) = Rest(p)
<1> DEFINE q == UpdateAccountReward(p, u)
           r == AfterWithdrawal(p, u, amount)
<1>1. /\ Sound(q) /\ UpToDate(q) /\ q.totalSupply = p.totalSupply
      /\ q.periodFinish = p.periodFinish /\ q.balances = p.balances
  BY UpdateAccountIsSound
<1>2. r = [q EXCEPT !.totalSupply = @ - amount, !.balances[u] = @ - amount]
  BY DEF AfterWithdrawal
<1> HIDE DEF q, r
<1>3. /\ r \in Storage
      /\ r.periodFinish = q.periodFinish /\ r.lastUpdateTime = q.lastUpdateTime
      /\ r.paid = q.paid /\ r.rewardPerTokenStored = q.rewardPerTokenStored
  <2>1. q.totalSupply - amount \in Nat /\ q.balances[u] - amount \in Nat
    BY <1>1 DEF Sound, Storage
  <2>2. [q.balances EXCEPT ![u] = @ - amount] \in [Providers -> Nat]
    BY <1>1, <2>1 DEF Sound, Storage
  <2>3. r = [q EXCEPT !.totalSupply = q.totalSupply - amount,
                      !.balances = [q.balances EXCEPT ![u] = @ - amount]]
    BY <1>1, <1>2 DEF Sound, Storage
  <2> QED
    BY <1>1, <2>1, <2>2, <2>3 DEF Sound, Storage
<1>4. Sound(r)
  BY <1>1, <1>3 DEF Sound
<1>5. Rest(r) = Rest(p)
  BY <1>1, <1>3 DEF Rest, UpToDate, LastTimeRewardApplicable, Sound, Storage
<1> QED
  BY <1>4, <1>5 DEF r

-----------------------------------------------------------------------------
\* The pool as deployed.
LEMMA InitPoolEstablishes == InitPool => PoolInv
<1> SUFFICES ASSUME InitPool PROVE PoolInv
  OBVIOUS
<1> DEFINE zero == [u \in Providers |-> 0]
<1>1. zero \in [Providers -> Nat]
  OBVIOUS
<1>2. pool \in Storage /\ Sound(pool)
  BY <1>1 DEF InitPool, Sound, Storage
<1>3. TypeOK
  <2>1. isSet \in BOOLEAN
    BY Zenon DEF InitPool
  <2>2. mpBalance \in Nat /\ timestamp \in Nat \ {0} /\ stakedTime \in Nat
    BY RskSwapPoolAssumption DEF InitPool
  <2> QED
    BY <1>2, <2>1, <2>2, Zenon DEF TypeOK, Storage
<1> QED
  BY <1>2, <1>3 DEF InitPool, PoolInv, ClockStopsWhileEmpty

\* A call that leaves the clock alone, made by its storage's new value.
LEMMA PoolCallPreserves ==
  ASSUME PoolInv, isSet, Sound(pool'), Rest(pool') = Rest(pool), mpBalance' \in Nat,
         isSet' = isSet, timestamp' = timestamp, stakedTime' = stakedTime
  PROVE  PoolInv'
<1>1. TypeOK'
  BY DEF PoolInv, TypeOK, Sound, Storage
<1>2. Sound(pool)'
  BY DEF Sound
<1>3. ClockStopsWhileEmpty'
  <2>1. Remaining = Rest(pool) /\ Remaining' = Rest(pool')
    BY DEF Remaining, Rest, LastTimeRewardApplicable
  <2> QED
    BY <2>1 DEF PoolInv, ClockStopsWhileEmpty
<1> QED
  BY <1>1, <1>2, <1>3 DEF PoolInv

\* claimReward, after whatever came before it in the call.
LEMMA PoolClaimPreserves ==
  ASSUME PoolInv, isSet, NEW u \in Providers, NEW p, Sound(p), Rest(p) = Rest(pool), Claim(p, u)
  PROVE  PoolInv'
<1> DEFINE q == Refreshed(p, u)
<1>1. timestamp \in Nat /\ mpBalance \in Nat
  BY DEF PoolInv, TypeOK
<1>2. Sound(q) /\ Rest(q) = Rest(p)
  BY <1>1, RefreshKeepsRest
<1>3. Earned(q, u) \in Nat
  BY <1>1, <1>2, EarnedIsNat
<1>4. /\ Earned(q, u) <= mpBalance
      /\ pool' = [q EXCEPT !.rewards[u] = 0]
      /\ mpBalance' = mpBalance - Earned(q, u)
      /\ UNCHANGED <<isSet, timestamp, stakedTime>>
  BY DEF Claim
<1> HIDE DEF q
<1>5. Sound(pool') /\ Rest(pool') = Rest(q)
  BY <1>2, <1>4 DEF Sound, Storage, Rest, LastTimeRewardApplicable
<1> QED
  BY <1>1, <1>2, <1>3, <1>4, <1>5, PoolCallPreserves

\* Every call, and the clock, keep the invariant.
LEMMA PoolNextPreserves == PoolInv /\ [PoolNext]_<<poolVars, timestamp>> => PoolInv'
<1> SUFFICES ASSUME PoolInv, [PoolNext]_<<poolVars, timestamp>> PROVE PoolInv'
  OBVIOUS
<1> USE DEF PoolInv
<1>t. /\ timestamp \in Nat /\ mpBalance \in Nat /\ stakedTime \in Nat
      /\ Duration \in Nat \ {0}
  BY RskSwapPoolAssumption DEF TypeOK
<1>1. ASSUME SetParams PROVE PoolInv'
  <2> DEFINE q == UpdateReward(pool)
  <2>1. Sound(q) /\ q.totalSupply = 0 /\ q.balances = pool.balances
    BY <1>t, <1>1, UpdateRewardIsSound DEF SetParams
  <2>2. Reward \div Duration \in Nat
    BY RskSwapPoolAssumption, QuotientNat
  <2>3. /\ pool' = [q EXCEPT !.rewardRate = Reward \div Duration,
                             !.lastUpdateTime = timestamp,
                             !.periodFinish = timestamp + Duration]
        /\ isSet' = TRUE
        /\ UNCHANGED <<mpBalance, timestamp, stakedTime>> /\ ~isSet
    BY <1>1 DEF SetParams
  <2> HIDE DEF q
  <2>4. /\ Sound(pool') /\ pool'.totalSupply = 0
        /\ pool'.lastUpdateTime = timestamp /\ pool'.periodFinish = timestamp + Duration
    <3>1. timestamp + Duration \in Nat /\ timestamp <= timestamp + Duration
      BY <1>t
    <3>2. /\ pool' \in Storage
          /\ pool'.totalSupply = q.totalSupply /\ pool'.paid = q.paid
          /\ pool'.rewardPerTokenStored = q.rewardPerTokenStored
          /\ pool'.lastUpdateTime = timestamp /\ pool'.periodFinish = timestamp + Duration
      BY <1>t, <2>1, <2>2, <2>3, <3>1 DEF Sound, Storage
    <3> QED
      BY <1>t, <2>1, <3>1, <3>2 DEF Sound
  <2>5. TypeOK'
    BY <1>t, <2>3, <2>4 DEF TypeOK, Sound, Storage
  <2>6. Sound(pool)'
    BY <2>3, <2>4 DEF Sound
  <2>7. ClockStopsWhileEmpty'
    BY <1>t, <2>3, <2>4 DEF ClockStopsWhileEmpty, Remaining
  <2> QED
    BY <2>3, <2>5, <2>6, <2>7
<1>2. ASSUME NEW u \in Providers, NEW amount \in LPAmounts, StakeLP(u, amount) PROVE PoolInv'
  <2> DEFINE q == Refreshed(pool, u)
  <2>1. /\ Sound(q) /\ UpToDate(q) /\ Rest(q) = Rest(pool)
        /\ q.balances = pool.balances /\ q.totalSupply = pool.totalSupply
    BY <1>t, RefreshKeepsRest
  <2>2. /\ isSet /\ pool' = AddStake(q, u, amount)
        /\ UNCHANGED <<isSet, mpBalance, timestamp, stakedTime>>
    BY <1>t, <1>2 DEF StakeLP, Refreshed
  <2>3. amount \in Nat
    BY RskSwapPoolAssumption
  <2> HIDE DEF q
  <2>4. /\ pool' \in Storage
        /\ pool'.periodFinish = q.periodFinish /\ pool'.lastUpdateTime = q.lastUpdateTime
        /\ pool'.paid = q.paid /\ pool'.rewardPerTokenStored = q.rewardPerTokenStored
    <3>1. q.totalSupply + amount \in Nat /\ q.balances[u] + amount \in Nat
      BY <2>1, <2>3 DEF Sound, Storage
    <3>2. [q.balances EXCEPT ![u] = @ + amount] \in [Providers -> Nat]
      BY <2>1, <3>1 DEF Sound, Storage
    <3>3. pool' = [q EXCEPT !.totalSupply = q.totalSupply + amount,
                            !.balances = [q.balances EXCEPT ![u] = @ + amount]]
      BY <2>1, <2>2 DEF AddStake, Sound, Storage
    <3> QED
      BY <2>1, <3>1, <3>2, <3>3 DEF Sound, Storage
  <2>5. Sound(pool')
    BY <2>1, <2>4 DEF Sound
  <2>6. Rest(pool') = Rest(q)
    BY <2>1, <2>4 DEF Rest, UpToDate, LastTimeRewardApplicable
  <2> QED
    BY <1>t, <2>1, <2>2, <2>5, <2>6, PoolCallPreserves
<1>3. ASSUME NEW u \in Providers, NEW amount \in LPAmounts, WithdrawLP(u, amount) PROVE PoolInv'
  <2>1. amount \in Nat /\ 0 < amount /\ amount <= pool.totalSupply /\ amount <= pool.balances[u]
    BY <1>3, RskSwapPoolAssumption DEF WithdrawLP
  <2>2. Sound(AfterWithdrawal(pool, u, amount)) /\ Rest(AfterWithdrawal(pool, u, amount)) = Rest(pool)
    BY <1>t, <2>1, WithdrawalKeepsRest
  <2> QED
    BY <1>t, <1>3, <2>2, PoolCallPreserves DEF WithdrawLP
<1>4. ASSUME NEW u \in Providers, ClaimReward(u) PROVE PoolInv'
  BY <1>4, PoolClaimPreserves DEF ClaimReward
<1>5. ASSUME NEW u \in Providers, WithdrawAndClaim(u) PROVE PoolInv'
  <2> DEFINE p == AfterWithdrawal(pool, u, pool.balances[u])
  <2>1. pool.balances[u] \in Nat
    BY DEF Sound, Storage
  <2>2. isSet /\ 0 < pool.balances[u] /\ pool.balances[u] <= pool.totalSupply /\ Claim(p, u)
    BY <1>5 DEF WithdrawAndClaim
  <2>3. Sound(p) /\ Rest(p) = Rest(pool)
    BY <1>t, <2>1, <2>2, WithdrawalKeepsRest
  <2> QED
    BY <2>2, <2>3, PoolClaimPreserves
<1>6. ASSUME Tick PROVE PoolInv'
  <2>1. /\ timestamp' = timestamp + 1
        /\ stakedTime' = IF pool.totalSupply = 0 THEN stakedTime ELSE stakedTime + 1
        /\ UNCHANGED <<pool, isSet, mpBalance>>
    BY <1>6 DEF Tick
  <2>2. TypeOK' /\ Sound(pool)'
    BY <1>t, <2>1 DEF TypeOK, Sound, Storage
  <2>3. ClockStopsWhileEmpty'
    BY <1>t, <2>1 DEF ClockStopsWhileEmpty, Remaining, LastTimeRewardApplicable, Sound, Storage
  <2> QED
    BY <2>1, <2>2, <2>3
<1>7. ASSUME UNCHANGED <<poolVars, timestamp>> PROVE PoolInv'
  BY <1>7 DEF poolVars, TypeOK, Sound, Storage, ClockStopsWhileEmpty, Remaining, LastTimeRewardApplicable
<1> QED
  BY <1>1, <1>2, <1>3, <1>4, <1>5, <1>6, <1>7 DEF PoolNext, PoolCall

\* The invariant holds in every reachable state.
LEMMA PoolInductive == PoolSpec => []PoolInv
  BY InitPoolEstablishes, PoolNextPreserves, PTL DEF PoolSpec

\* The storage keeps its types: no balance, reward or time is ever negative
\* (RskSwapPool.sol:29-30 and 80-85, all unsigned).
THEOREM PoolTypeCorrect == PoolSpec => []TypeOK
<1>1. PoolInv => TypeOK
  BY DEF PoolInv
<1> QED
  BY <1>1, PoolInductive, PTL

\* The clock of the rewards stops while nobody stakes, for every sequence of
\* stakes, withdrawals, claims and exits (_updatePeriodFinish and _updateReward).
THEOREM ClockStopsWhileEmptyHolds == PoolSpec => []ClockStopsWhileEmpty
<1>1. PoolInv => ClockStopsWhileEmpty
  BY DEF PoolInv
<1> QED
  BY <1>1, PoolInductive, PTL

\* No checked subtraction of the updates that every call begins with can fail,
\* so nobody's stake is locked by them (rewardPerToken, earned, _updatePeriodFinish).
THEOREM UpdatesNeverRevertHolds == PoolSpec => []UpdatesNeverRevert
<1>1. PoolInv => UpdatesNeverRevert
  <2> SUFFICES ASSUME PoolInv PROVE UpdatesNeverRevert
    OBVIOUS
  <2>1. timestamp \in Nat /\ Sound(pool)
    BY DEF PoolInv, TypeOK
  <2>2. RewardPerToken(pool) \in Nat /\ pool.rewardPerTokenStored <= RewardPerToken(pool)
    BY <2>1, PerTokenGrows
  <2>3. \A u \in Providers : pool.paid[u] <= RewardPerToken(pool)
    BY <2>1, <2>2 DEF Sound, Storage
  <2> QED
    BY <2>1, <2>3 DEF UpdatesNeverRevert, Sound, LastTimeRewardApplicable
<1> QED
  BY <1>1, PoolInductive, PTL

-----------------------------------------------------------------------------
(* What the stakers of the liquidity mining pool have earned. *)

SameEarnings(p, q) == \A v \in Providers : Earned(q, v) = Earned(p, v)

\* Brought up to date, the storage holds the present reward per token.
LEMMA PerTokenUpToDate ==
  ASSUME NEW p, Sound(p), timestamp \in Nat, UpToDate(p)
  PROVE  RewardPerToken(p) = p.rewardPerTokenStored
<1>1. CASE p.totalSupply = 0
  BY <1>1 DEF RewardPerToken
<1>2. CASE p.totalSupply # 0
  <2>1. LastTimeRewardApplicable(p) - p.lastUpdateTime = 0
    BY DEF UpToDate, Sound, Storage
  <2>2. p.rewardRate \in Nat /\ TokenUnit \in Nat /\ p.totalSupply \in Nat \ {0}
    BY <1>2, RskSwapPoolAssumption DEF Sound, Storage
  <2>3. (0 * p.rewardRate) * TokenUnit = 0
    BY <2>2
  <2>4. 0 \div p.totalSupply = 0
    BY <2>2
  <2>5. RewardPerToken(p)
          = p.rewardPerTokenStored + ((0 * p.rewardRate) * TokenUnit) \div p.totalSupply
    BY <1>2, <2>1 DEF RewardPerToken
  <2> QED
    BY <2>3, <2>4, <2>5 DEF Sound, Storage
<1> QED
  BY <1>1, <1>2

\* What an account has earned depends on its share and the present reward per token.
LEMMA EarnedSame ==
  ASSUME NEW p, NEW q, RewardPerToken(q) = RewardPerToken(p), NEW v,
         q.balances[v] = p.balances[v], q.paid[v] = p.paid[v], q.rewards[v] = p.rewards[v]
  PROVE  Earned(q, v) = Earned(p, v)
BY Zenon DEF Earned

\* An account that is settled has earned its rewards, whatever it stakes.
LEMMA EarnedSettled ==
  ASSUME NEW q, q \in Storage, NEW v \in Providers, q.paid[v] = RewardPerToken(q),
         RewardPerToken(q) \in Nat
  PROVE  Earned(q, v) = q.rewards[v]
<1>1. q.balances[v] \in Nat /\ q.rewards[v] \in Nat /\ TokenUnit \in Nat \ {0}
  BY RskSwapPoolAssumption DEF Storage
<1>2. RewardPerToken(q) - q.paid[v] = 0
  OBVIOUS
<1>3. q.balances[v] * 0 = 0 /\ 0 \div TokenUnit = 0
  BY <1>1
<1> QED
  BY <1>1, <1>2, <1>3 DEF Earned

\* updateReward leaves what everyone has earned.
LEMMA UpdateRewardKeepsEarned ==
  ASSUME NEW p, Sound(p), timestamp \in Nat
  PROVE  /\ SameEarnings(p, UpdateReward(p))
         /\ RewardPerToken(UpdateReward(p)) = RewardPerToken(p)
<1> DEFINE q == UpdateReward(p)
<1>1. Sound(q) /\ UpToDate(q)
  BY UpdateRewardIsSound
<1>2. /\ q.rewardPerTokenStored = RewardPerToken(p)
      /\ q.balances = p.balances /\ q.paid = p.paid /\ q.rewards = p.rewards
  BY DEF UpdateReward, Sound, Storage
<1> HIDE DEF q
<1>3. RewardPerToken(q) = RewardPerToken(p)
  BY <1>1, <1>2, PerTokenUpToDate
<1>4. SameEarnings(p, q)
  BY <1>2, <1>3, EarnedSame DEF SameEarnings
<1> QED
  BY <1>3, <1>4 DEF q

\* Nor does the settlement of an account change it.
LEMMA UpdateAccountKeepsEarned ==
  ASSUME NEW p, Sound(p), timestamp \in Nat, NEW u \in Providers
  PROVE  /\ SameEarnings(p, UpdateAccountReward(p, u))
         /\ UpdateAccountReward(p, u).paid[u] = UpdateAccountReward(p, u).rewardPerTokenStored
         /\ UpdateAccountReward(p, u).rewards[u] = Earned(p, u)
<1> DEFINE q == UpdateReward(p)
           r == UpdateAccountReward(p, u)
<1>1. Sound(q) /\ UpToDate(q) /\ Sound(r) /\ UpToDate(r)
  BY UpdateRewardIsSound, UpdateAccountIsSound
<1>2. SameEarnings(p, q)
  BY UpdateRewardKeepsEarned
<1>3. r = [q EXCEPT !.rewards[u] = Earned(q, u), !.paid[u] = q.rewardPerTokenStored]
  BY DEF UpdateAccountReward
<1> HIDE DEF q, r
<1>4. /\ r.rewardPerTokenStored = q.rewardPerTokenStored /\ r.balances = q.balances
      /\ r.paid = [q.paid EXCEPT ![u] = q.rewardPerTokenStored]
      /\ r.rewards = [q.rewards EXCEPT ![u] = Earned(q, u)]
  BY <1>1, <1>3 DEF Sound, Storage
<1>5. RewardPerToken(r) = RewardPerToken(q) /\ RewardPerToken(r) = r.rewardPerTokenStored
  BY <1>1, <1>4, PerTokenUpToDate
<1>6. r.paid[u] = r.rewardPerTokenStored /\ r.rewards[u] = Earned(q, u)
  BY <1>1, <1>4 DEF Sound, Storage
<1>7. ASSUME NEW v \in Providers PROVE Earned(r, v) = Earned(q, v)
  <2>1. CASE v = u
    <3>1. RewardPerToken(r) \in Nat /\ r \in Storage
      BY <1>1, PerTokenGrows DEF Sound
    <3>2. Earned(r, u) = r.rewards[u]
      BY <1>5, <1>6, <3>1, EarnedSettled
    <3> QED
      BY <1>6, <2>1, <3>2
  <2>2. CASE v # u
    <3>1. r.balances[v] = q.balances[v] /\ r.paid[v] = q.paid[v] /\ r.rewards[v] = q.rewards[v]
      BY <1>1, <1>4, <2>2 DEF Sound, Storage
    <3> QED
      BY <1>5, <3>1, EarnedSame
  <2> QED
    BY <2>1, <2>2
<1> QED
  BY <1>2, <1>6, <1>7 DEF SameEarnings, r

\* Nor what stake and claimReward begin with.
LEMMA RefreshKeepsEarned ==
  ASSUME NEW p, Sound(p), timestamp \in Nat, NEW u \in Providers
  PROVE  /\ SameEarnings(p, Refreshed(p, u))
         /\ Refreshed(p, u).paid[u] = Refreshed(p, u).rewardPerTokenStored
         /\ Refreshed(p, u).rewards[u] = Earned(p, u)
<1> DEFINE q == UpdatePeriodFinish(p)
<1>1. /\ q \in Storage
      /\ q.totalSupply = p.totalSupply /\ q.balances = p.balances
      /\ q.lastUpdateTime = p.lastUpdateTime /\ q.rewards = p.rewards
      /\ q.paid = p.paid /\ q.rewardPerTokenStored = p.rewardPerTokenStored
      /\ p.totalSupply # 0 => q = p
      /\ p.periodFinish <= q.periodFinish
  BY DEF UpdatePeriodFinish, Sound, Storage
<1>2. Sound(q)
  BY <1>1 DEF Sound, Storage
<1>3. RewardPerToken(q) = RewardPerToken(p)
  BY <1>1, Zenon DEF RewardPerToken
<1>4. SameEarnings(p, q)
  BY <1>1, <1>3, EarnedSame DEF SameEarnings
<1>5. Refreshed(p, u) = UpdateAccountReward(q, u)
  BY DEF Refreshed
<1> HIDE DEF q
<1>6. /\ SameEarnings(q, Refreshed(p, u))
      /\ Refreshed(p, u).paid[u] = Refreshed(p, u).rewardPerTokenStored
      /\ Refreshed(p, u).rewards[u] = Earned(q, u)
  BY <1>2, <1>5, UpdateAccountKeepsEarned
<1> QED
  BY <1>4, <1>6 DEF SameEarnings

\* An account that has just been settled may stake more, stake less, or be paid:
\* the others have earned what they had, and it has earned its rewards.
Restaked(p, q, u) ==
  /\ q \in Storage
  /\ q.paid = p.paid /\ q.rewardPerTokenStored = p.rewardPerTokenStored
  /\ q.lastUpdateTime = p.lastUpdateTime /\ q.periodFinish = p.periodFinish
  /\ \A v \in Providers \ {u} :
       q.balances[v] = p.balances[v] /\ q.rewards[v] = p.rewards[v]

\* See Restaked.
LEMMA RestakedKeepsEarned ==
  ASSUME NEW p, Sound(p), UpToDate(p), timestamp \in Nat, NEW u \in Providers,
         p.paid[u] = p.rewardPerTokenStored, NEW q, Restaked(p, q, u)
  PROVE  /\ \A v \in Providers \ {u} : Earned(q, v) = Earned(p, v)
         /\ Earned(q, u) = q.rewards[u]
<1>1. Sound(q) /\ UpToDate(q)
  BY DEF Restaked, Sound, UpToDate, LastTimeRewardApplicable
<1>2. /\ RewardPerToken(p) = p.rewardPerTokenStored
      /\ RewardPerToken(q) = q.rewardPerTokenStored
  BY <1>1, PerTokenUpToDate
<1>3. RewardPerToken(q) = RewardPerToken(p)
  BY <1>2 DEF Restaked
<1>4. \A v \in Providers \ {u} : Earned(q, v) = Earned(p, v)
  BY <1>3, EarnedSame DEF Restaked
<1>5. q.paid[u] = RewardPerToken(q) /\ RewardPerToken(q) \in Nat /\ q \in Storage
  BY <1>1, <1>2, PerTokenGrows DEF Restaked
<1>6. Earned(q, u) = q.rewards[u]
  BY <1>5, EarnedSettled
<1> QED
  BY <1>4, <1>6

\* Quotients grow with what is divided.
LEMMA QuotientGrows ==
  ASSUME NEW a \in Nat, NEW b \in Nat, NEW c \in Nat \ {0}, a <= b
  PROVE  a \div c <= b \div c
OBVIOUS

\* Products grow with their factors.
LEMMA ProductGrows ==
  ASSUME NEW a \in Nat, NEW b \in Nat, NEW c \in Nat, a <= b
  PROVE  a * c <= b * c /\ c * a <= c * b
OBVIOUS

\* A second that passes lowers nobody's earnings.
LEMMA TickRaisesEarned ==
  ASSUME PoolInv, Tick, NEW u \in Providers
  PROVE  Earned(pool, u)' \in Nat /\ Earned(pool, u) <= Earned(pool, u)'
<1> DEFINE now == LastTimeRewardApplicable(pool)
           later == IF timestamp + 1 < pool.periodFinish THEN timestamp + 1 ELSE pool.periodFinish
           time == now - pool.lastUpdateTime
           time2 == later - pool.lastUpdateTime
           rpt == RewardPerToken(pool)
           rpt2 == IF pool.totalSupply = 0 THEN pool.rewardPerTokenStored
                   ELSE pool.rewardPerTokenStored
                          + (time2 * pool.rewardRate * TokenUnit) \div pool.totalSupply
<1>1. Sound(pool) /\ timestamp \in Nat
  BY DEF PoolInv, TypeOK
<1>2. pool' = pool /\ timestamp' = timestamp + 1
  BY DEF Tick
<1>3. RewardPerToken(pool)' = rpt2
  BY <1>2 DEF RewardPerToken, LastTimeRewardApplicable
<1>4. Earned(pool, u)' = (pool.balances[u] * (rpt2 - pool.paid[u])) \div TokenUnit + pool.rewards[u]
  BY <1>2, <1>3 DEF Earned
<1>5. time \in Nat /\ time2 \in Nat /\ time <= time2
  BY <1>1 DEF Sound, Storage, LastTimeRewardApplicable
<1>6. pool.rewardRate \in Nat /\ TokenUnit \in Nat \ {0} /\ pool.totalSupply \in Nat
  BY <1>1, RskSwapPoolAssumption DEF Sound, Storage
<1> HIDE DEF time, time2
<1>7. rpt \in Nat /\ rpt2 \in Nat /\ rpt <= rpt2
  <2>0. rpt \in Nat /\ pool.rewardPerTokenStored \in Nat
    BY <1>1, PerTokenGrows DEF Sound, Storage
  <2>1. CASE pool.totalSupply = 0
    BY <2>0, <2>1 DEF RewardPerToken
  <2>2. CASE pool.totalSupply # 0
    <3> DEFINE paidOut == (time * pool.rewardRate) * TokenUnit
               paidOut2 == (time2 * pool.rewardRate) * TokenUnit
    <3>1. /\ time * pool.rewardRate \in Nat /\ time2 * pool.rewardRate \in Nat
          /\ time * pool.rewardRate <= time2 * pool.rewardRate
      BY <1>5, <1>6, ProductNat, ProductGrows
    <3>2. paidOut \in Nat /\ paidOut2 \in Nat /\ paidOut <= paidOut2
      BY <1>6, <3>1, ProductNat, ProductGrows
    <3>3. /\ rpt = pool.rewardPerTokenStored + paidOut \div pool.totalSupply
          /\ rpt2 = pool.rewardPerTokenStored + paidOut2 \div pool.totalSupply
      BY <2>2 DEF RewardPerToken, time
    <3>4. pool.totalSupply \in Nat \ {0}
      BY <1>6, <2>2
    <3> HIDE DEF paidOut, paidOut2, rpt, rpt2
    <3>5. /\ paidOut \div pool.totalSupply \in Nat /\ paidOut2 \div pool.totalSupply \in Nat
          /\ paidOut \div pool.totalSupply <= paidOut2 \div pool.totalSupply
      BY <3>2, <3>4, QuotientNat, QuotientGrows
    <3> QED
      BY <2>0, <3>3, <3>5
  <2> QED
    BY <2>1, <2>2
<1> HIDE DEF rpt, rpt2
<1>8. /\ pool.balances[u] \in Nat /\ pool.rewards[u] \in Nat /\ pool.paid[u] \in Nat
      /\ pool.paid[u] <= rpt
  BY <1>1, PerTokenGrows DEF Sound, Storage, rpt
<1> DEFINE share == pool.balances[u] * (rpt - pool.paid[u])
           share2 == pool.balances[u] * (rpt2 - pool.paid[u])
<1>9. share \in Nat /\ share2 \in Nat /\ share <= share2
  BY <1>7, <1>8, ProductNat, ProductGrows
<1>10. Earned(pool, u) = share \div TokenUnit + pool.rewards[u]
  BY DEF Earned, rpt
<1> HIDE DEF share, share2
<1>11. share \div TokenUnit <= share2 \div TokenUnit
  BY <1>6, <1>9, QuotientGrows
<1>12. share \div TokenUnit \in Nat /\ share2 \div TokenUnit \in Nat
  BY <1>6, <1>9, QuotientNat
<1> QED
  BY <1>4, <1>8, <1>10, <1>11, <1>12 DEF share2


\* What a storage has earned depends on it and the time only.
LEMMA SameStorageSameEarned ==
  ASSUME timestamp' = timestamp, NEW v
  PROVE  Earned(pool, v)' = Earned(pool', v)
BY DEF Earned, RewardPerToken, LastTimeRewardApplicable

\* A claim pays the claimer all he has earned, and the others nothing.
LEMMA ClaimPaysEarned ==
  ASSUME PoolInv, NEW u \in Providers, NEW p, Sound(p), SameEarnings(pool, p), Claim(p, u)
  PROVE  /\ \A v \in Providers \ {u} : Earned(pool, v)' = Earned(pool, v)
         /\ pool'.rewards[u] = 0 /\ mpBalance' = mpBalance - Earned(pool, u)
<1> DEFINE q == Refreshed(p, u)
<1>1. timestamp \in Nat
  BY DEF PoolInv, TypeOK
<1>2. Sound(q) /\ UpToDate(q)
  BY <1>1, RefreshKeepsRest
<1>3. SameEarnings(p, q) /\ q.paid[u] = q.rewardPerTokenStored
  BY <1>1, RefreshKeepsEarned
<1>4. /\ pool' = [q EXCEPT !.rewards[u] = 0]
      /\ mpBalance' = mpBalance - Earned(q, u)
      /\ timestamp' = timestamp
  BY DEF Claim
<1> HIDE DEF q
<1>5. Restaked(q, pool', u) /\ pool'.rewards[u] = 0
  BY <1>2, <1>4 DEF Restaked, Sound, Storage
<1>6. \A v \in Providers \ {u} : Earned(pool', v) = Earned(q, v)
  BY <1>1, <1>2, <1>3, <1>5, RestakedKeepsEarned
<1>7. \A v \in Providers : Earned(q, v) = Earned(pool, v)
  BY <1>3 DEF SameEarnings
<1> QED
  BY <1>4, <1>5, <1>6, <1>7, SameStorageSameEarned

\* A withdrawal leaves what everyone has earned.
LEMMA WithdrawalKeepsEarned ==
  ASSUME NEW p, Sound(p), timestamp \in Nat, NEW u \in Providers, NEW amount \in Nat,
         0 < amount, amount <= p.totalSupply, amount <= p.balances[u]
  PROVE  SameEarnings(p, AfterWithdrawal(p, u, amount))
<1> DEFINE q == UpdateAccountReward(p, u)
           r == AfterWithdrawal(p, u, amount)
<1>1. /\ Sound(q) /\ UpToDate(q) /\ q.totalSupply = p.totalSupply /\ q.balances = p.balances
  BY UpdateAccountIsSound
<1>2. /\ SameEarnings(p, q) /\ q.paid[u] = q.rewardPerTokenStored
      /\ q.rewards[u] = Earned(p, u)
  BY UpdateAccountKeepsEarned
<1>3. r = [q EXCEPT !.totalSupply = @ - amount, !.balances[u] = @ - amount]
  BY DEF AfterWithdrawal
<1>4. Sound(r)
  BY WithdrawalKeepsRest
<1> HIDE DEF q, r
<1>5. Restaked(q, r, u) /\ r.rewards[u] = q.rewards[u]
  BY <1>1, <1>3, <1>4 DEF Restaked, Sound, Storage
<1>6. (\A v \in Providers \ {u} : Earned(r, v) = Earned(q, v)) /\ Earned(r, u) = r.rewards[u]
  BY <1>1, <1>2, <1>5, RestakedKeepsEarned
<1> QED
  BY <1>2, <1>5, <1>6 DEF SameEarnings, r

\* In any step, an account's earnings fall only when they are paid to it.
LEMMA StepKeepsEarned ==
  ASSUME PoolInv, [PoolNext]_<<poolVars, timestamp>>, NEW v \in Providers,
         Earned(pool, v)' < Earned(pool, v)
  PROVE  pool'.rewards[v] = 0 /\ mpBalance' = mpBalance - Earned(pool, v)
<1>t. timestamp \in Nat /\ Sound(pool) /\ Earned(pool, v) \in Nat
  BY EarnedIsNat DEF PoolInv, TypeOK
<1>k. Earned(pool, v)' # Earned(pool, v)
  BY <1>t
<1>1. ASSUME SetParams PROVE FALSE
  <2> DEFINE q == UpdateReward(pool)
  <2>1. q.totalSupply = 0 /\ pool.totalSupply = 0
    BY <1>t, <1>1, UpdateRewardIsSound DEF PoolInv, SetParams
  <2>2. /\ pool' = [q EXCEPT !.rewardRate = Reward \div Duration,
                             !.lastUpdateTime = timestamp,
                             !.periodFinish = timestamp + Duration]
        /\ timestamp' = timestamp
    BY <1>1 DEF SetParams
  <2>3. /\ q.rewardPerTokenStored = RewardPerToken(pool)
        /\ q.balances = pool.balances /\ q.paid = pool.paid /\ q.rewards = pool.rewards
        /\ q \in Storage
    BY <1>t, UpdateRewardIsSound DEF UpdateReward, Sound, Storage
  <2> HIDE DEF q
  <2>4. /\ pool'.rewardPerTokenStored = RewardPerToken(pool) /\ pool'.totalSupply = 0
        /\ pool'.balances = pool.balances /\ pool'.paid = pool.paid
        /\ pool'.rewards = pool.rewards
    BY <2>1, <2>2, <2>3 DEF Storage
  <2>5. RewardPerToken(pool') = RewardPerToken(pool)
    BY <2>4 DEF RewardPerToken
  <2>6. Earned(pool', v) = Earned(pool, v)
    BY <2>4, <2>5, EarnedSame
  <2> QED
    BY <1>k, <2>2, <2>6, SameStorageSameEarned
<1>2. ASSUME NEW u \in Providers, NEW amount \in LPAmounts, StakeLP(u, amount) PROVE FALSE
  <2> DEFINE q == Refreshed(pool, u)
  <2>1. Sound(q) /\ UpToDate(q)
    BY <1>t, RefreshKeepsRest
  <2>2. /\ SameEarnings(pool, q) /\ q.paid[u] = q.rewardPerTokenStored
        /\ q.rewards[u] = Earned(pool, u)
    BY <1>t, RefreshKeepsEarned
  <2>3. pool' = AddStake(q, u, amount) /\ timestamp' = timestamp
    BY <1>2 DEF StakeLP
  <2>4. amount \in Nat
    BY RskSwapPoolAssumption
  <2> HIDE DEF q
  <2>5. Restaked(q, pool', u) /\ pool'.rewards[u] = q.rewards[u]
    <3>1. q.balances[u] + amount \in Nat /\ q.totalSupply + amount \in Nat
      BY <2>1, <2>4 DEF Sound, Storage
    <3>2. [q.balances EXCEPT ![u] = @ + amount] \in [Providers -> Nat]
      BY <2>1, <3>1 DEF Sound, Storage
    <3>3. pool' = [q EXCEPT !.totalSupply = q.totalSupply + amount,
                            !.balances = [q.balances EXCEPT ![u] = @ + amount]]
      BY <2>1, <2>3 DEF AddStake, Sound, Storage
    <3> QED
      BY <2>1, <3>1, <3>2, <3>3 DEF Restaked, Sound, Storage
  <2>6. /\ \A w \in Providers \ {u} : Earned(pool', w) = Earned(q, w)
        /\ Earned(pool', u) = pool'.rewards[u]
    BY <1>t, <2>1, <2>2, <2>5, RestakedKeepsEarned
  <2>7. Earned(pool', v) = Earned(pool, v)
    BY <2>2, <2>5, <2>6 DEF SameEarnings
  <2> QED
    BY <1>k, <2>3, <2>7, SameStorageSameEarned
<1>3. ASSUME NEW u \in Providers, NEW amount \in LPAmounts, WithdrawLP(u, amount) PROVE FALSE
  <2>1. amount \in Nat /\ 0 < amount /\ amount <= pool.totalSupply /\ amount <= pool.balances[u]
    BY <1>3, RskSwapPoolAssumption DEF WithdrawLP
  <2>2. SameEarnings(pool, AfterWithdrawal(pool, u, amount))
    BY <1>t, <2>1, WithdrawalKeepsEarned
  <2>3. pool' = AfterWithdrawal(pool, u, amount) /\ timestamp' = timestamp
    BY <1>3 DEF WithdrawLP
  <2>4. Earned(pool', v) = Earned(pool, v)
    BY <2>2, <2>3 DEF SameEarnings
  <2> QED
    BY <1>k, <2>3, <2>4, SameStorageSameEarned
<1>4. ASSUME NEW u \in Providers, ClaimReward(u)
      PROVE  pool'.rewards[v] = 0 /\ mpBalance' = mpBalance - Earned(pool, v)
  <2>1. SameEarnings(pool, pool)
    BY DEF SameEarnings
  <2>2. /\ \A w \in Providers \ {u} : Earned(pool, w)' = Earned(pool, w)
        /\ pool'.rewards[u] = 0 /\ mpBalance' = mpBalance - Earned(pool, u)
    BY <1>t, <1>4, <2>1, ClaimPaysEarned DEF ClaimReward
  <2> QED
    BY <1>k, <2>2
<1>5. ASSUME NEW u \in Providers, WithdrawAndClaim(u)
      PROVE  pool'.rewards[v] = 0 /\ mpBalance' = mpBalance - Earned(pool, v)
  <2> DEFINE p == AfterWithdrawal(pool, u, pool.balances[u])
  <2>1. pool.balances[u] \in Nat
    BY <1>t DEF Sound, Storage
  <2>2. 0 < pool.balances[u] /\ pool.balances[u] <= pool.totalSupply /\ Claim(p, u)
    BY <1>5 DEF WithdrawAndClaim
  <2>3. Sound(p) /\ SameEarnings(pool, p)
    BY <1>t, <2>1, <2>2, WithdrawalKeepsRest, WithdrawalKeepsEarned
  <2>4. /\ \A w \in Providers \ {u} : Earned(pool, w)' = Earned(pool, w)
        /\ pool'.rewards[u] = 0 /\ mpBalance' = mpBalance - Earned(pool, u)
    BY <2>2, <2>3, ClaimPaysEarned
  <2> QED
    BY <1>k, <2>4
<1>6. ASSUME Tick PROVE FALSE
  <2>1. Earned(pool, v)' \in Nat /\ Earned(pool, v) <= Earned(pool, v)'
    BY <1>6, TickRaisesEarned
  <2> QED
    BY <1>t, <2>1
<1>7. ASSUME UNCHANGED <<poolVars, timestamp>> PROVE FALSE
  <2>1. pool' = pool /\ timestamp' = timestamp
    BY <1>7 DEF poolVars
  <2> QED
    BY <1>k, <2>1, SameStorageSameEarned
<1> QED
  BY <1>1, <1>2, <1>3, <1>4, <1>5, <1>6, <1>7 DEF PoolNext, PoolCall

\* What a staker has earned falls only when it is paid out to him, whatever the
\* others stake, withdraw or claim (_updateReward before every change of supply).
THEOREM EarnedIsKeptOrPaidHolds == PoolSpec => EarnedIsKeptOrPaid
<1>1. PoolInv /\ [PoolNext]_<<poolVars, timestamp>>
        => [\A u \in Providers :
              Earned(pool, u)' < Earned(pool, u)
                => pool'.rewards[u] = 0 /\ mpBalance' = mpBalance - Earned(pool, u)]_<<poolVars, timestamp>>
  BY StepKeepsEarned
<1> QED
  BY <1>1, PoolInductive, PTL DEF PoolSpec, EarnedIsKeptOrPaid

-----------------------------------------------------------------------------
(* The MP of the liquidity mining pool, without rounding: what is due to   *)
(* each account in units of 1/TokenUnit, and what its divisions have lost. *)

MaxSupply == LPOwned * Cardinality(Providers)

\* The part of the period after the last update, and the part before.
Left(p) == p.periodFinish - p.lastUpdateTime
Past(p) == Duration - Left(p)

Due(p, v) ==
  p.balances[v] * (p.rewardPerTokenStored - p.paid[v]) + TokenUnit * p.rewards[v]

Dues(p) == SumFunctionOnSet([v \in Providers |-> Due(p, v)], Providers)

PoolOwed(p) == Dues(p) + TokenUnit * (p.rewardRate * Left(p))

\* An account's share is rounded when it is settled, at most once for each second
\* of the period that has been accounted for.
Unsettled(p, v) == IF p.paid[v] = p.rewardPerTokenStored THEN 0 ELSE 1

Settlements(p) == SumFunctionOnSet([v \in Providers |-> Past(p) - Unsettled(p, v)], Providers)

Lost(p) ==
  (TokenUnit * (Reward % Duration) + Past(p) * MaxSupply) + TokenUnit * Settlements(p)

\* Shares add up, and nothing waits to be settled before the period has begun.
Shaped(p) ==
  /\ SumFunctionOnSet(p.balances, Providers) = p.totalSupply
  /\ \A v \in Providers : p.balances[v] <= LPOwned
  /\ p.rewardRate = Reward \div Duration
  /\ Left(p) <= Duration
  /\ \A v \in Providers : Unsettled(p, v) <= Past(p)

Funded(p, mp) ==
  /\ Shaped(p)
  /\ PoolOwed(p) <= TokenUnit * mp /\ TokenUnit * mp <= PoolOwed(p) + Lost(p)

\* From p to q nothing is promised in addition, and no more is lost than Lost counts.
KeepsFunds(p, q) ==
  /\ Shaped(q)
  /\ PoolOwed(q) <= PoolOwed(p) /\ PoolOwed(p) + Lost(p) <= PoolOwed(q) + Lost(q)

\* The numbers of the definitions above.
LEMMA FundsAreInts ==
  ASSUME NEW p, Sound(p), Shaped(p)
  PROVE  /\ \A v \in Providers : Due(p, v) \in Nat /\ Unsettled(p, v) \in 0..1
         /\ Dues(p) \in Nat /\ PoolOwed(p) \in Nat /\ Lost(p) \in Nat /\ Settlements(p) \in Nat
         /\ Left(p) \in Nat /\ Past(p) \in Nat /\ MaxSupply \in Nat
<1>1. /\ TokenUnit \in Nat \ {0} /\ IsFiniteSet(Providers) /\ Duration \in Nat \ {0}
      /\ Reward \in Nat \ {0} /\ LPOwned \in Nat
  BY RskSwapPoolAssumption
<1>2. p.rewardRate \in Nat /\ Left(p) \in Nat /\ Past(p) \in Nat
  BY <1>1 DEF Sound, Storage, Shaped, Left, Past
<1>3. ASSUME NEW v \in Providers PROVE Due(p, v) \in Nat /\ Unsettled(p, v) \in 0..1
  <2>1. /\ p.balances[v] \in Nat /\ p.rewardPerTokenStored - p.paid[v] \in Nat
        /\ p.rewards[v] \in Nat
    BY DEF Sound, Storage
  <2>2. p.balances[v] * (p.rewardPerTokenStored - p.paid[v]) \in Nat /\ TokenUnit * p.rewards[v] \in Nat
    BY <1>1, <2>1, ProductNat
  <2> QED
    BY <2>2 DEF Due, Unsettled
<1>4. Dues(p) \in Nat
  <2> DEFINE f == [v \in Providers |-> Due(p, v)]
  <2>1. \A v \in Providers : f[v] \in Nat
    BY <1>3
  <2> QED
    BY <1>1, <2>1, SumNat DEF Dues
<1>5. PoolOwed(p) \in Nat
  <2>1. p.rewardRate * Left(p) \in Nat
    BY <1>2, ProductNat
  <2>2. TokenUnit * (p.rewardRate * Left(p)) \in Nat
    BY <1>1, <2>1, ProductNat
  <2> QED
    BY <1>4, <2>2 DEF PoolOwed
<1>6. Settlements(p) \in Nat
  <2> DEFINE f == [v \in Providers |-> Past(p) - Unsettled(p, v)]
  <2>1. \A v \in Providers : f[v] \in Nat
    BY <1>2, <1>3 DEF Shaped
  <2> QED
    BY <1>1, <2>1, SumNat DEF Settlements
<1>7. MaxSupply \in Nat
  BY <1>1, FS_CardinalityType, ProductNat DEF MaxSupply
<1>8. Lost(p) \in Nat
  <2>1. Reward % Duration \in Nat
    BY <1>1
  <2>2. /\ TokenUnit * (Reward % Duration) \in Nat /\ Past(p) * MaxSupply \in Nat
        /\ TokenUnit * Settlements(p) \in Nat
    BY <1>1, <1>2, <1>6, <1>7, <2>1, ProductNat
  <2> QED
    BY <2>2 DEF Lost
<1> QED
  BY <1>2, <1>3, <1>4, <1>5, <1>6, <1>7, <1>8

\* As many ones as there are elements.
LEMMA SumOfOnes ==
  ASSUME NEW S, IsFiniteSet(S)
  PROVE  SumFunctionOnSet([x \in S |-> 1], S) = Cardinality(S)
<1> DEFINE one == [x \in S |-> 1]
           Good == { A \in SUBSET S : SumFunctionOnSet(one, A) = Cardinality(A) }
<1>1. ASSUME NEW A \in SUBSET S, \A B \in SUBSET A : B # A => B \in Good
      PROVE  A \in Good
  <2>1. CASE A = {}
    BY <2>1, SumEmpty, FS_EmptySet
  <2>2. CASE A # {}
    <3>1. PICK y \in A : TRUE
      BY <2>2
    <3>2. IsFiniteSet(A) /\ \A x \in A : one[x] \in Int
      BY FS_Subset
    <3>3. A \ {y} \in Good
      BY <1>1, <3>1
    <3>4. one[y] = 1
      BY <3>1
    <3> HIDE DEF one
    <3>5. SumFunctionOnSet(one, A) = one[y] + SumFunctionOnSet(one, A \ {y})
      BY ONLY <3>1, <3>2, SumRemove
    <3>6. Cardinality(A \ {y}) = Cardinality(A) - 1 /\ Cardinality(A) \in Nat
      BY <3>1, <3>2, FS_RemoveElement, FS_CardinalityType
    <3> QED
      BY <3>3, <3>4, <3>5, <3>6
  <2> QED
    BY <2>1, <2>2
<1>2. SUBSET S \subseteq Good
  <2> HIDE DEF Good
  <2> QED
    BY ONLY <1>1, IsFiniteSet(S), SubsetInduction
<1> QED
  BY <1>2

\* The supply is not more than what all providers own.
LEMMA SupplyIsBounded ==
  ASSUME NEW p, Sound(p), Shaped(p)
  PROVE  p.totalSupply <= MaxSupply
<1> DEFINE one == [v \in Providers |-> 1]
           all == [v \in Providers |-> LPOwned]
<1>1. IsFiniteSet(Providers) /\ LPOwned \in Nat
  BY RskSwapPoolAssumption
<1>2. SumFunctionOnSet(one, Providers) = Cardinality(Providers)
  BY <1>1, SumOfOnes
<1>3. \A v \in Providers : one[v] \in Int /\ all[v] = LPOwned * one[v]
  BY <1>1
<1>4. \A v \in Providers : p.balances[v] \in Int /\ all[v] \in Int /\ p.balances[v] <= all[v]
  BY <1>1 DEF Sound, Storage, Shaped
<1> HIDE DEF one, all
<1>5. LPOwned \in Int
  BY <1>1
<1>6. SumFunctionOnSet(all, Providers) = LPOwned * SumFunctionOnSet(one, Providers)
  BY ONLY <1>1, <1>3, <1>5, SumTimes
<1>7. SumFunctionOnSet(p.balances, Providers) <= SumFunctionOnSet(all, Providers)
  BY ONLY <1>1, <1>4, SumMonotone
<1> QED
  BY <1>2, <1>6, <1>7 DEF Shaped, MaxSupply

\* A quotient is less than one from the exact value.
LEMMA QuotientLoses ==
  ASSUME NEW a \in Nat, NEW b \in Nat \ {0}
  PROVE  a < (a \div b) * b + b
OBVIOUS

\* Products of integers.
LEMMA ProductInt ==
  ASSUME NEW a \in Int, NEW b \in Int
  PROVE  a * b \in Int /\ a * b = b * a
OBVIOUS

\* What one call after another keeps.
LEMMA KeepsFundsTwice ==
  ASSUME NEW p, NEW q, NEW r, Sound(p), Sound(q), Sound(r), Shaped(p),
         KeepsFunds(p, q), KeepsFunds(q, r)
  PROVE  KeepsFunds(p, r)
<1>1. /\ PoolOwed(p) \in Nat /\ PoolOwed(q) \in Nat /\ PoolOwed(r) \in Nat
      /\ Lost(p) \in Nat /\ Lost(q) \in Nat /\ Lost(r) \in Nat
  BY FundsAreInts DEF KeepsFunds
<1> QED
  BY <1>1 DEF KeepsFunds

\* What a payment makes of a funded pool is no matter for the calls before it.
LEMMA KeepsFundsFunds ==
  ASSUME NEW p, NEW q, NEW mp \in Nat, Sound(p), Sound(q), Funded(p, mp), KeepsFunds(p, q)
  PROVE  Funded(q, mp)
<1>1. /\ PoolOwed(p) \in Nat /\ PoolOwed(q) \in Nat /\ Lost(p) \in Nat /\ Lost(q) \in Nat
  BY FundsAreInts DEF KeepsFunds, Funded
<1>2. TokenUnit * mp \in Nat
  BY RskSwapPoolAssumption, ProductNat
<1> QED
  BY <1>1, <1>2 DEF KeepsFunds, Funded

\* The same shares, seconds later: what is due has grown by inc for every token.
LEMMA DuesGrow ==
  ASSUME NEW p, NEW q, Sound(p), Sound(q), Shaped(p), NEW inc \in Nat,
         q.rewardPerTokenStored = p.rewardPerTokenStored + inc,
         q.balances = p.balances, q.paid = p.paid, q.rewards = p.rewards
  PROVE  Dues(q) = Dues(p) + inc * p.totalSupply
<1> DEFINE f == [v \in Providers |-> Due(p, v)]
           g == [v \in Providers |-> inc * p.balances[v]]
           h == [v \in Providers |-> Due(q, v)]
<1>1. IsFiniteSet(Providers) /\ TokenUnit \in Nat
  BY RskSwapPoolAssumption
<1>2. ASSUME NEW v \in Providers
      PROVE  /\ p.balances[v] \in Int /\ g[v] = inc * p.balances[v]
             /\ f[v] \in Int /\ g[v] \in Int /\ h[v] = f[v] + g[v]
  <2> DEFINE due == p.rewardPerTokenStored - p.paid[v]
             earlier == TokenUnit * p.rewards[v]
  <2>1. /\ p.balances[v] \in Nat /\ due \in Nat /\ earlier \in Nat
        /\ q.rewardPerTokenStored - q.paid[v] = due + inc
    BY <1>1, ProductNat DEF Sound, Storage
  <2>2. /\ h[v] = p.balances[v] * (q.rewardPerTokenStored - q.paid[v]) + earlier
        /\ f[v] = p.balances[v] * due + earlier /\ g[v] = inc * p.balances[v]
    BY DEF Due
  <2> HIDE DEF due, earlier, f, g, h
  <2>3. p.balances[v] * (due + inc) = p.balances[v] * due + p.balances[v] * inc
    BY <2>1, Distributes
  <2>4. p.balances[v] * due \in Nat /\ p.balances[v] * inc \in Nat /\ inc * p.balances[v] = p.balances[v] * inc
    BY <2>1, ProductNat, ProductInt
  <2> QED
    BY <2>1, <2>2, <2>3, <2>4
<1>3. Dues(p) = SumFunctionOnSet(f, Providers) /\ Dues(q) = SumFunctionOnSet(h, Providers)
  BY DEF Dues
<1>4. p.totalSupply = SumFunctionOnSet(p.balances, Providers)
  BY DEF Shaped
<1> HIDE DEF f, g, h
<1>5. SumFunctionOnSet(h, Providers) = SumFunctionOnSet(f, Providers) + SumFunctionOnSet(g, Providers)
  BY ONLY <1>1, <1>2, SumPlus
<1>6. inc \in Int
  OBVIOUS
<1>7. SumFunctionOnSet(g, Providers) = inc * SumFunctionOnSet(p.balances, Providers)
  BY ONLY <1>1, <1>2, <1>6, SumTimes
<1> QED
  BY <1>3, <1>4, <1>5, <1>7

\* What is counted as lost in settlements does not fall when each account's part does not.
LEMMA SettlementsGrow ==
  ASSUME NEW p, NEW q, Sound(p), Sound(q), Shaped(p), Shaped(q),
         \A v \in Providers : Past(p) - Unsettled(p, v) <= Past(q) - Unsettled(q, v)
  PROVE  Settlements(p) <= Settlements(q)
<1> DEFINE f == [v \in Providers |-> Past(p) - Unsettled(p, v)]
           g == [v \in Providers |-> Past(q) - Unsettled(q, v)]
<1>1. IsFiniteSet(Providers)
  BY RskSwapPoolAssumption
<1>2. /\ Past(p) \in Nat /\ Past(q) \in Nat
      /\ \A v \in Providers : Unsettled(p, v) \in 0..1 /\ Unsettled(q, v) \in 0..1
  BY FundsAreInts
<1>3. \A v \in Providers : f[v] \in Int /\ g[v] \in Int /\ f[v] <= g[v]
  BY <1>2
<1>4. Settlements(p) = SumFunctionOnSet(f, Providers) /\ Settlements(q) = SumFunctionOnSet(g, Providers)
  BY DEF Settlements
<1> HIDE DEF f, g
<1>5. SumFunctionOnSet(f, Providers) <= SumFunctionOnSet(g, Providers)
  BY ONLY <1>1, <1>3, SumMonotone
<1> QED
  BY <1>4, <1>5

\* updateReward while somebody stakes: each token is promised its share of the MP of
\* the seconds since the last update, and less than a supply of 1/TokenUnit is lost.
LEMMA UpdateRewardKeepsFunds ==
  ASSUME NEW p, Sound(p), Shaped(p), p.totalSupply # 0, timestamp \in Nat
  PROVE  KeepsFunds(p, UpdateReward(p))
<1> DEFINE q == UpdateReward(p)
           time == LastTimeRewardApplicable(p) - p.lastUpdateTime
           X == (time * p.rewardRate) * TokenUnit
           inc == X \div p.totalSupply
<1>1. Sound(q)
  BY UpdateRewardIsSound
<1>2. /\ TokenUnit \in Nat \ {0} /\ Duration \in Nat /\ Reward \in Nat /\ p.totalSupply \in Nat \ {0}
      /\ p.rewardRate \in Nat /\ p.rewardPerTokenStored \in Nat
  BY RskSwapPoolAssumption DEF Sound, Storage
<1>3. time \in Nat
  BY DEF LastTimeRewardApplicable, Sound, Storage
<1>4. /\ q.rewardPerTokenStored = p.rewardPerTokenStored + inc
      /\ q.lastUpdateTime = p.lastUpdateTime + time /\ q.periodFinish = p.periodFinish
      /\ q.totalSupply = p.totalSupply /\ q.rewardRate = p.rewardRate
      /\ q.balances = p.balances /\ q.paid = p.paid /\ q.rewards = p.rewards
  <2>1. RewardPerToken(p) = p.rewardPerTokenStored + inc
    BY DEF RewardPerToken
  <2>2. LastTimeRewardApplicable(p) = p.lastUpdateTime + time
    BY DEF LastTimeRewardApplicable, Sound, Storage
  <2> HIDE DEF time, inc
  <2> QED
    BY <2>1, <2>2 DEF UpdateReward, Sound, Storage
<1>5. X \in Nat
  <2> HIDE DEF time
  <2>1. time * p.rewardRate \in Nat
    BY <1>2, <1>3, ProductNat
  <2> QED
    BY <1>2, <2>1, ProductNat
<1>6. X = TokenUnit * (p.rewardRate * time)
  <2> HIDE DEF time
  <2>1. /\ time * p.rewardRate = p.rewardRate * time /\ p.rewardRate * time \in Int
    BY <1>2, <1>3, ProductInt
  <2> QED
    BY <1>2, <2>1, ProductInt
<1> HIDE DEF q, time
<1>7. /\ inc \in Nat /\ inc * p.totalSupply <= X /\ X < inc * p.totalSupply + p.totalSupply
      /\ inc * p.totalSupply \in Nat
  <2> HIDE DEF X
  <2>1. inc \in Nat /\ inc * p.totalSupply <= X /\ X < inc * p.totalSupply + p.totalSupply
    BY <1>2, <1>5, QuotientNat, QuotientLoses
  <2> QED
    BY <1>2, <2>1, ProductNat
<1>8. time = 0 => X = 0 /\ inc = 0
  <2>1. ASSUME time = 0 PROVE X = 0
    BY <1>2, <2>1
  <2>2. 0 \div p.totalSupply = 0
    BY <1>2
  <2> QED
    BY <2>1, <2>2
<1> HIDE DEF X, inc
<1>9. Left(q) = Left(p) - time /\ Past(q) = Past(p) + time /\ Left(q) \in Nat
      /\ Left(p) \in Nat /\ Past(p) \in Nat
  BY <1>1, <1>2, <1>3, <1>4 DEF Left, Past, Sound, Storage, Shaped
<1>10. \A v \in Providers : Past(p) - Unsettled(p, v) <= Past(q) - Unsettled(q, v)
  <2> SUFFICES ASSUME NEW v \in Providers
               PROVE  Past(p) - Unsettled(p, v) <= Past(q) - Unsettled(q, v)
    OBVIOUS
  <2>1. Unsettled(p, v) \in 0..1 /\ Unsettled(q, v) \in 0..1
    BY DEF Unsettled
  <2>2. CASE time = 0
    <3>1. Unsettled(q, v) = Unsettled(p, v)
      BY <1>2, <1>4, <1>8, <2>2 DEF Unsettled
    <3> QED
      BY <1>9, <2>1, <2>2, <3>1
  <2>3. CASE time # 0
    BY <1>3, <1>9, <2>1, <2>3
  <2> QED
    BY <2>2, <2>3
<1>11. Shaped(q)
  <2>1. \A v \in Providers : Unsettled(q, v) <= Past(q)
    <3> SUFFICES ASSUME NEW v \in Providers PROVE Unsettled(q, v) <= Past(q)
      OBVIOUS
    <3>1. Unsettled(p, v) \in 0..1 /\ Unsettled(q, v) \in 0..1 /\ Unsettled(p, v) <= Past(p)
      BY DEF Unsettled, Shaped
    <3> QED
      BY <1>3, <1>9, <1>10, <3>1
  <2> QED
    BY <1>2, <1>3, <1>4, <1>9, <2>1 DEF Shaped
<1>12. Dues(q) = Dues(p) + inc * p.totalSupply
  BY <1>1, <1>4, <1>7, DuesGrow
<1>13. /\ Dues(p) \in Nat /\ PoolOwed(p) \in Nat /\ Lost(p) \in Nat /\ PoolOwed(q) \in Nat /\ Lost(q) \in Nat
       /\ Settlements(p) \in Nat /\ Settlements(q) \in Nat /\ MaxSupply \in Nat
  BY <1>1, <1>11, FundsAreInts
<1>14. PoolOwed(q) = PoolOwed(p) - (X - inc * p.totalSupply)
  <2>1. p.rewardRate * Left(q) = p.rewardRate * Left(p) - p.rewardRate * time
    BY <1>2, <1>3, <1>9, Distributes
  <2>2. p.rewardRate * Left(p) \in Nat /\ p.rewardRate * time \in Nat
    BY <1>2, <1>3, <1>9, ProductNat
  <2>3. TokenUnit * (p.rewardRate * Left(q)) = TokenUnit * (p.rewardRate * Left(p)) - X
    BY <1>2, <1>6, <2>1, <2>2, Distributes
  <2>4. TokenUnit * (p.rewardRate * Left(p)) \in Nat
    BY <1>2, <2>2, ProductNat
  <2>5. PoolOwed(q) = Dues(q) + TokenUnit * (p.rewardRate * Left(q))
    BY <1>4 DEF PoolOwed
  <2> QED
    BY <1>5, <1>7, <1>12, <1>13, <2>3, <2>4, <2>5 DEF PoolOwed
<1>15. Lost(p) + (X - inc * p.totalSupply) <= Lost(q)
  <2>1. Past(q) * MaxSupply = Past(p) * MaxSupply + time * MaxSupply
    BY <1>3, <1>9, <1>13
  <2>2. Past(p) * MaxSupply \in Nat /\ time * MaxSupply \in Nat
    BY <1>3, <1>9, <1>13, ProductNat
  <2>3. Settlements(p) <= Settlements(q)
    BY <1>1, <1>10, <1>11, SettlementsGrow
  <2>4. /\ TokenUnit * Settlements(p) <= TokenUnit * Settlements(q)
        /\ TokenUnit * Settlements(p) \in Nat /\ TokenUnit * Settlements(q) \in Nat
    BY <1>2, <1>13, <2>3, ProductGrows, ProductNat
  <2>5. TokenUnit * (Reward % Duration) \in Nat
    <3>1. Reward % Duration \in Nat
      BY RskSwapPoolAssumption
    <3> QED
      BY <1>2, <3>1, ProductNat
  <2>6. X - inc * p.totalSupply <= time * MaxSupply
    <3>1. CASE time = 0
      BY <1>2, <1>8, <1>13, <3>1
    <3>2. CASE time # 0
      <4>1. p.totalSupply <= MaxSupply
        BY SupplyIsBounded
      <4>2. 1 * MaxSupply <= time * MaxSupply
        BY <1>3, <1>13, <3>2, ProductGrows
      <4> QED
        BY <1>2, <1>5, <1>7, <1>13, <2>2, <4>1, <4>2
    <3> QED
      BY <3>1, <3>2
  <2> QED
    BY <1>5, <1>7, <2>1, <2>2, <2>4, <2>5, <2>6 DEF Lost
<1>16. PoolOwed(q) <= PoolOwed(p) /\ PoolOwed(p) + Lost(p) <= PoolOwed(q) + Lost(q)
  BY <1>5, <1>7, <1>13, <1>14, <1>15
<1> QED
  BY <1>11, <1>16 DEF KeepsFunds, q

\* The shares, the rate and the length of what is left decide what is owed and lost.
SameFunds(p, q) ==
  /\ q.balances = p.balances /\ q.paid = p.paid /\ q.rewards = p.rewards
  /\ q.rewardPerTokenStored = p.rewardPerTokenStored /\ q.totalSupply = p.totalSupply
  /\ q.rewardRate = p.rewardRate /\ Left(q) = Left(p)

\* See SameFunds.
LEMMA SameFundsKept ==
  ASSUME NEW p, NEW q, Sound(p), Sound(q), Shaped(p), SameFunds(p, q)
  PROVE  KeepsFunds(p, q)
<1>1. Past(q) = Past(p)
  BY DEF SameFunds, Past
<1>2. \A v \in Providers : Due(q, v) = Due(p, v) /\ Unsettled(q, v) = Unsettled(p, v)
  BY DEF SameFunds, Due, Unsettled
<1>3. Dues(q) = Dues(p) /\ Settlements(q) = Settlements(p)
  BY <1>1, <1>2, Zenon DEF Dues, Settlements
<1>4. PoolOwed(q) = PoolOwed(p) /\ Lost(q) = Lost(p)
  BY <1>1, <1>3, Zenon DEF PoolOwed, Lost, SameFunds
<1>5. Shaped(q)
  BY <1>1, <1>2 DEF SameFunds, Shaped
<1> QED
  BY <1>4, <1>5, FundsAreInts DEF KeepsFunds

\* The settlement of an account of a storage that is up to date.
Settled(q, u) ==
  [q EXCEPT !.rewards[u] = Earned(q, u), !.paid[u] = q.rewardPerTokenStored]

\* A settlement rounds the account's share: less than a unit is lost, and nothing
\* when the account is settled already.
LEMMA SettlementKeepsFunds ==
  ASSUME NEW q, Sound(q), UpToDate(q), Shaped(q), NEW u \in Providers, timestamp \in Nat,
         Sound(Settled(q, u))
  PROVE  KeepsFunds(q, Settled(q, u))
<1> DEFINE r == Settled(q, u)
           share == q.balances[u] * (q.rewardPerTokenStored - q.paid[u])
           f == [v \in Providers |-> Due(q, v)]
           g == [v \in Providers |-> Due(r, v)]
           h == [v \in Providers |-> Past(q) - Unsettled(q, v)]
           k == [v \in Providers |-> Past(r) - Unsettled(r, v)]
<1>1. IsFiniteSet(Providers) /\ TokenUnit \in Nat \ {0} /\ Duration \in Nat
  BY RskSwapPoolAssumption
<1>2. RewardPerToken(q) = q.rewardPerTokenStored
  BY PerTokenUpToDate
<1>3. Earned(q, u) \in Nat /\ Earned(q, u) = share \div TokenUnit + q.rewards[u]
  BY <1>2, EarnedIsNat DEF Earned
<1>4. /\ q.balances[u] \in Nat /\ q.rewards[u] \in Nat /\ q.rewardPerTokenStored \in Nat
      /\ q.rewardPerTokenStored - q.paid[u] \in Nat /\ q.paid[u] \in Nat
  BY DEF Sound, Storage
<1>5. /\ r.rewards = [q.rewards EXCEPT ![u] = Earned(q, u)]
      /\ r.paid = [q.paid EXCEPT ![u] = q.rewardPerTokenStored]
      /\ r.balances = q.balances /\ r.rewardPerTokenStored = q.rewardPerTokenStored
      /\ r.totalSupply = q.totalSupply /\ r.rewardRate = q.rewardRate
      /\ r.periodFinish = q.periodFinish /\ r.lastUpdateTime = q.lastUpdateTime
  BY <1>3 DEF Settled, Sound, Storage
<1>6. Sound(r)
  OBVIOUS
<1> HIDE DEF r
<1>7. /\ r.rewards[u] = Earned(q, u) /\ r.paid[u] = r.rewardPerTokenStored
      /\ \A v \in Providers \ {u} : r.rewards[v] = q.rewards[v] /\ r.paid[v] = q.paid[v]
  BY <1>5 DEF Sound, Storage
<1>8. Left(r) = Left(q) /\ Past(r) = Past(q)
  BY <1>5 DEF Left, Past
<1>9. /\ \A v \in Providers \ {u} : Due(r, v) = Due(q, v) /\ Unsettled(r, v) = Unsettled(q, v)
      /\ Unsettled(r, u) = 0
  BY <1>5, <1>7 DEF Due, Unsettled
<1>10. Past(q) \in Nat /\ \A v \in Providers : Due(q, v) \in Nat /\ Unsettled(q, v) \in 0..1
  BY FundsAreInts
<1>11. Shaped(r)
  BY <1>5, <1>8, <1>9, <1>10 DEF Shaped
<1>12. share \in Nat /\ share \div TokenUnit \in Nat
       /\ (share \div TokenUnit) * TokenUnit <= share
       /\ share < (share \div TokenUnit) * TokenUnit + TokenUnit
  <2>1. share \in Nat
    BY <1>4, ProductNat
  <2> HIDE DEF share
  <2> QED
    BY <1>1, <2>1, QuotientNat, QuotientLoses
<1>13. Unsettled(q, u) = 0 => share = 0 /\ share \div TokenUnit = 0
  <2>1. ASSUME Unsettled(q, u) = 0 PROVE share = 0
    BY <1>4, <2>1 DEF Unsettled
  <2>2. 0 \div TokenUnit = 0
    BY <1>1
  <2> QED
    BY <2>1, <2>2
<1>14. Due(q, u) = share + TokenUnit * q.rewards[u]
  BY DEF Due
<1> HIDE DEF share
<1>15. Due(r, u) = (share \div TokenUnit) * TokenUnit + TokenUnit * q.rewards[u]
  <2>1. r.rewardPerTokenStored - r.paid[u] = 0 /\ r.balances[u] * 0 = 0
    BY <1>4, <1>5, <1>7
  <2>2. TokenUnit * r.rewards[u] = TokenUnit * (share \div TokenUnit) + TokenUnit * q.rewards[u]
    <3>1. r.rewards[u] = share \div TokenUnit + q.rewards[u]
      BY <1>3, <1>7
    <3>2. TokenUnit \in Int /\ share \div TokenUnit \in Int /\ q.rewards[u] \in Int
      BY <1>1, <1>4, <1>12
    <3> QED
      BY ONLY <3>1, <3>2, Distributes
  <2>3. TokenUnit * (share \div TokenUnit) = (share \div TokenUnit) * TokenUnit
    BY <1>1, <1>12, ProductInt
  <2>4. TokenUnit * (share \div TokenUnit) \in Nat /\ TokenUnit * q.rewards[u] \in Nat
    BY <1>1, <1>4, <1>12, ProductNat
  <2>5. Due(r, u) = 0 + TokenUnit * r.rewards[u]
    BY <2>1 DEF Due
  <2> QED
    BY <2>2, <2>3, <2>4, <2>5
<1>16. Due(r, u) \in Nat
  BY <1>6, <1>11, FundsAreInts
<1>17. /\ Dues(q) = SumFunctionOnSet(f, Providers) /\ Dues(r) = SumFunctionOnSet(g, Providers)
       /\ Settlements(q) = SumFunctionOnSet(h, Providers)
       /\ Settlements(r) = SumFunctionOnSet(k, Providers)
  BY DEF Dues, Settlements
<1>18. /\ \A v \in Providers : f[v] \in Int /\ h[v] \in Int
       /\ g[u] \in Int /\ k[u] \in Int
       /\ \A v \in Providers \ {u} : g[v] = f[v] /\ k[v] = h[v]
       /\ f[u] = Due(q, u) /\ g[u] = Due(r, u)
       /\ h[u] = Past(q) - Unsettled(q, u) /\ k[u] = Past(q)
  BY <1>8, <1>9, <1>10, <1>16
<1> HIDE DEF f, g, h, k
<1>19. SumFunctionOnSet(g, Providers) = SumFunctionOnSet(f, Providers) - f[u] + g[u]
  <2>1. /\ \A v \in Providers : f[v] \in Int
        /\ g[u] \in Int /\ \A v \in Providers \ {u} : g[v] = f[v]
    BY <1>18
  <2> QED
    BY ONLY <1>1, <2>1, SumUpdate, u \in Providers
<1>20. SumFunctionOnSet(k, Providers) = SumFunctionOnSet(h, Providers) - h[u] + k[u]
  <2>1. /\ \A v \in Providers : h[v] \in Int
        /\ k[u] \in Int /\ \A v \in Providers \ {u} : k[v] = h[v]
    BY <1>18
  <2> QED
    BY ONLY <1>1, <2>1, SumUpdate, u \in Providers
<1>21. /\ Dues(q) \in Nat /\ Dues(r) \in Nat /\ Settlements(q) \in Nat /\ Settlements(r) \in Nat
       /\ PoolOwed(q) \in Nat /\ PoolOwed(r) \in Nat /\ Lost(q) \in Nat /\ Lost(r) \in Nat
       /\ MaxSupply \in Nat
  BY <1>6, <1>11, FundsAreInts
<1>22. Settlements(r) = Settlements(q) + Unsettled(q, u)
  BY <1>10, <1>17, <1>18, <1>20, <1>21
<1>23. Dues(r) = Dues(q) - Due(q, u) + Due(r, u)
  BY <1>17, <1>18, <1>19
<1>24. PoolOwed(r) = PoolOwed(q) - (Due(q, u) - Due(r, u))
  <2>1. PoolOwed(q) - Dues(q) = TokenUnit * (q.rewardRate * Left(q)) /\ PoolOwed(r) = Dues(r) + TokenUnit * (q.rewardRate * Left(q))
    <3>1. TokenUnit * (q.rewardRate * Left(q)) \in Nat
      <4>1. q.rewardRate \in Nat /\ Left(q) \in Nat
        BY FundsAreInts DEF Sound, Storage
      <4>2. q.rewardRate * Left(q) \in Nat
        BY <4>1, ProductNat
      <4> QED
        BY <1>1, <4>2, ProductNat
    <3> QED
      BY <1>5, <1>8, <1>21, <3>1 DEF PoolOwed
  <2> QED
    BY <1>10, <1>16, <1>21, <1>23, <2>1
<1>25. Lost(r) = Lost(q) + TokenUnit * Unsettled(q, u)
  <2>1. TokenUnit * Settlements(r) = TokenUnit * Settlements(q) + TokenUnit * Unsettled(q, u)
    BY <1>1, <1>10, <1>21, <1>22, Distributes
  <2>2. /\ TokenUnit * Settlements(q) \in Nat /\ TokenUnit * Unsettled(q, u) \in Nat
        /\ Past(q) * MaxSupply \in Nat /\ TokenUnit * (Reward % Duration) \in Nat
    <3>1. Reward % Duration \in Nat
      BY RskSwapPoolAssumption
    <3>2. Unsettled(q, u) \in Nat
      BY <1>10
    <3> QED
      BY <1>1, <1>10, <1>21, <3>1, <3>2, ProductNat
  <2> QED
    BY <1>8, <2>1, <2>2 DEF Lost
<1>26. /\ 0 <= Due(q, u) - Due(r, u)
       /\ Due(q, u) - Due(r, u) <= TokenUnit * Unsettled(q, u)
  <2>1. TokenUnit * q.rewards[u] \in Nat /\ (share \div TokenUnit) * TokenUnit \in Nat
    BY <1>1, <1>4, <1>12, ProductNat
  <2>2. CASE Unsettled(q, u) = 0
    BY <1>1, <1>12, <1>13, <1>14, <1>15, <2>1, <2>2
  <2>3. CASE Unsettled(q, u) = 1
    BY <1>1, <1>12, <1>14, <1>15, <2>1, <2>3
  <2> QED
    BY <1>10, <2>2, <2>3
<1>27. PoolOwed(r) <= PoolOwed(q) /\ PoolOwed(q) + Lost(q) <= PoolOwed(r) + Lost(r)
  <2>1. TokenUnit * Unsettled(q, u) \in Int
    BY <1>1, <1>10, ProductInt
  <2> QED
    BY <1>10, <1>16, <1>21, <1>24, <1>25, <1>26, <2>1
<1> QED
  BY <1>11, <1>27 DEF KeepsFunds, r

\* updateReward with an account, while somebody stakes.
LEMMA UpdateAccountKeepsFunds ==
  ASSUME NEW p, Sound(p), Shaped(p), p.totalSupply # 0, timestamp \in Nat, NEW u \in Providers
  PROVE  KeepsFunds(p, UpdateAccountReward(p, u))
<1> DEFINE q == UpdateReward(p)
<1>1. Sound(q) /\ UpToDate(q) /\ Sound(UpdateAccountReward(p, u))
  BY UpdateRewardIsSound, UpdateAccountIsSound
<1>2. KeepsFunds(p, q) /\ Shaped(q)
  BY UpdateRewardKeepsFunds DEF KeepsFunds
<1>3. UpdateAccountReward(p, u) = Settled(q, u)
  BY DEF UpdateAccountReward, Settled
<1> HIDE DEF q
<1>4. KeepsFunds(q, UpdateAccountReward(p, u))
  BY <1>1, <1>2, <1>3, SettlementKeepsFunds
<1> QED
  BY <1>1, <1>2, <1>4, KeepsFundsTwice

\* What stake and claimReward begin with: with nobody staking, the end moves as far
\* as the last update does.
LEMMA RefreshKeepsFunds ==
  ASSUME NEW p, Sound(p), Shaped(p), timestamp \in Nat, NEW u \in Providers
  PROVE  KeepsFunds(p, Refreshed(p, u))
<1>1. CASE p.totalSupply # 0
  <2>1. Refreshed(p, u) = UpdateAccountReward(p, u)
    BY <1>1 DEF Refreshed, UpdatePeriodFinish
  <2> QED
    BY <1>1, <2>1, UpdateAccountKeepsFunds
<1>2. CASE p.totalSupply = 0
  <2> DEFINE q == UpdatePeriodFinish(p)
             s == UpdateReward(q)
  <2>1. /\ q \in Storage /\ q.totalSupply = 0
        /\ q.balances = p.balances /\ q.paid = p.paid /\ q.rewards = p.rewards
        /\ q.rewardPerTokenStored = p.rewardPerTokenStored /\ q.rewardRate = p.rewardRate
        /\ q.lastUpdateTime = p.lastUpdateTime
        /\ q.periodFinish = p.periodFinish + (timestamp - p.lastUpdateTime)
    BY <1>2 DEF UpdatePeriodFinish, Sound, Storage
  <2>2. Sound(q)
    BY <2>1 DEF Sound, Storage
  <2>3. Sound(s) /\ UpToDate(s)
    BY <2>2, UpdateRewardIsSound
  <2>4. LastTimeRewardApplicable(q) = timestamp
    BY <2>1 DEF LastTimeRewardApplicable, Sound, Storage
  <2>5. RewardPerToken(q) = p.rewardPerTokenStored
    BY <2>1 DEF RewardPerToken
  <2>6. SameFunds(p, s)
    <3>1. /\ s.balances = q.balances /\ s.paid = q.paid /\ s.rewards = q.rewards
          /\ s.rewardPerTokenStored = RewardPerToken(q) /\ s.totalSupply = q.totalSupply
          /\ s.rewardRate = q.rewardRate /\ s.periodFinish = q.periodFinish
          /\ s.lastUpdateTime = timestamp
      BY <2>1, <2>4 DEF UpdateReward, Storage
    <3> HIDE DEF q, s
    <3>2. Left(s) = Left(p)
      BY <2>1, <3>1 DEF Left, Sound, Storage
    <3> QED
      BY <1>2, <2>1, <2>5, <3>1, <3>2 DEF SameFunds
  <2>7. Refreshed(p, u) = Settled(s, u)
    BY DEF Refreshed, UpdateAccountReward, Settled
  <2>8. Sound(Refreshed(p, u))
    BY RefreshKeepsRest
  <2> HIDE DEF q, s
  <2>9. KeepsFunds(p, s) /\ Shaped(s)
    BY <2>3, <2>6, SameFundsKept DEF KeepsFunds
  <2>10. KeepsFunds(s, Refreshed(p, u))
    BY <2>3, <2>7, <2>8, <2>9, SettlementKeepsFunds
  <2> QED
    BY <2>3, <2>8, <2>9, <2>10, KeepsFundsTwice
<1> QED
  BY <1>1, <1>2

\* u's share becomes b.
Reshared(q, r, u, b) ==
  /\ r.balances = [q.balances EXCEPT ![u] = b]
  /\ r.totalSupply = (q.totalSupply - q.balances[u]) + b
  /\ r.paid = q.paid /\ r.rewards = q.rewards
  /\ r.rewardPerTokenStored = q.rewardPerTokenStored /\ r.rewardRate = q.rewardRate
  /\ r.lastUpdateTime = q.lastUpdateTime /\ r.periodFinish = q.periodFinish

\* A settled account is due nothing on its share, which may become any other.
LEMMA ResharingKeepsFunds ==
  ASSUME NEW q, NEW r, Sound(q), Sound(r), Shaped(q), NEW u \in Providers,
         q.paid[u] = q.rewardPerTokenStored, NEW b \in Nat, b <= LPOwned, Reshared(q, r, u, b)
  PROVE  KeepsFunds(q, r)
<1>1. IsFiniteSet(Providers)
  BY RskSwapPoolAssumption
<1>2. Left(r) = Left(q) /\ Past(r) = Past(q)
  BY DEF Reshared, Left, Past
<1>3. /\ \A v \in Providers : q.balances[v] \in Nat /\ r.balances[v] \in Nat
      /\ r.balances[u] = b
      /\ \A v \in Providers \ {u} : r.balances[v] = q.balances[v]
  BY DEF Sound, Storage, Reshared
<1>4. ASSUME NEW v \in Providers PROVE Due(r, v) = Due(q, v) /\ Unsettled(r, v) = Unsettled(q, v)
  <2>1. CASE v = u
    <3>1. q.rewardPerTokenStored - q.paid[u] = 0
      BY DEF Sound, Storage
    <3>2. q.balances[u] * 0 = 0 /\ r.balances[u] * 0 = 0
      BY <1>3
    <3> QED
      BY <2>1, <3>1, <3>2 DEF Due, Unsettled, Reshared
  <2>2. CASE v # u
    BY <1>3, <2>2 DEF Due, Unsettled, Reshared
  <2> QED
    BY <2>1, <2>2
<1>5. Dues(r) = Dues(q) /\ Settlements(r) = Settlements(q)
  BY <1>2, <1>4, Zenon DEF Dues, Settlements
<1>6. PoolOwed(r) = PoolOwed(q) /\ Lost(r) = Lost(q)
  BY <1>2, <1>5, Zenon DEF PoolOwed, Lost, Reshared
<1>7. SumFunctionOnSet(r.balances, Providers)
        = (SumFunctionOnSet(q.balances, Providers) - q.balances[u]) + r.balances[u]
  <2> DEFINE f == q.balances
             g == r.balances
  <2>1. /\ \A v \in Providers : f[v] \in Int
        /\ g[u] \in Int /\ \A v \in Providers \ {u} : g[v] = f[v]
    BY <1>3
  <2>2. SumFunctionOnSet(f, Providers) \in Int
    BY <1>1, <2>1, SumInt
  <2> HIDE DEF f, g
  <2>3. SumFunctionOnSet(g, Providers) = SumFunctionOnSet(f, Providers) - f[u] + g[u]
    BY ONLY <1>1, <2>1, SumUpdate, u \in Providers
  <2> QED
    BY <2>1, <2>2, <2>3 DEF f, g
<1>8. Shaped(r)
  <2>1. SumFunctionOnSet(r.balances, Providers) = r.totalSupply
    BY <1>3, <1>7 DEF Shaped, Reshared
  <2>2. \A v \in Providers : r.balances[v] <= LPOwned
    BY <1>3 DEF Shaped
  <2> QED
    BY <1>2, <1>4, <2>1, <2>2 DEF Shaped, Reshared
<1> QED
  BY <1>6, <1>8, FundsAreInts DEF KeepsFunds

\* A withdrawal, while there is a supply.
LEMMA WithdrawalKeepsFunds ==
  ASSUME NEW p, Sound(p), Shaped(p), timestamp \in Nat, NEW u \in Providers, NEW amount \in Nat,
         0 < amount, amount <= p.totalSupply, amount <= p.balances[u]
  PROVE  KeepsFunds(p, AfterWithdrawal(p, u, amount))
<1> DEFINE q == UpdateAccountReward(p, u)
           r == AfterWithdrawal(p, u, amount)
           b == p.balances[u] - amount
<1>1. Sound(q) /\ q.totalSupply = p.totalSupply /\ q.balances = p.balances
  BY UpdateAccountIsSound
<1>2. q.paid[u] = q.rewardPerTokenStored
  BY UpdateAccountKeepsEarned
<1>3. KeepsFunds(p, q)
  BY UpdateAccountKeepsFunds DEF Sound, Storage
<1>4. Sound(r)
  BY WithdrawalKeepsRest
<1>5. r = [q EXCEPT !.totalSupply = @ - amount, !.balances[u] = @ - amount]
  BY DEF AfterWithdrawal
<1>6. b \in Nat /\ b <= LPOwned /\ p.totalSupply - amount = (p.totalSupply - p.balances[u]) + b
  BY RskSwapPoolAssumption DEF Sound, Storage, Shaped
<1> HIDE DEF q, r
<1>7. Reshared(q, r, u, b)
  BY <1>1, <1>5, <1>6 DEF Reshared, Sound, Storage
<1> HIDE DEF b
<1>8. KeepsFunds(q, r)
  BY <1>1, <1>2, <1>3, <1>4, <1>6, <1>7, ResharingKeepsFunds DEF KeepsFunds
<1> QED
  BY <1>1, <1>3, <1>4, <1>8, KeepsFundsTwice DEF r

\* A payment takes from the balance what it takes from what is owed.
LEMMA PaymentKeepsFunds ==
  ASSUME NEW q, Sound(q), UpToDate(q), timestamp \in Nat, NEW u \in Providers,
         q.paid[u] = q.rewardPerTokenStored, NEW mp \in Nat, Funded(q, mp), Earned(q, u) <= mp
  PROVE  Funded([q EXCEPT !.rewards[u] = 0], mp - Earned(q, u))
<1> DEFINE r == [q EXCEPT !.rewards[u] = 0]
           f == [v \in Providers |-> Due(q, v)]
           g == [v \in Providers |-> Due(r, v)]
<1>1. IsFiniteSet(Providers) /\ TokenUnit \in Nat \ {0}
  BY RskSwapPoolAssumption
<1>2. Earned(q, u) = q.rewards[u]
  <2>1. RewardPerToken(q) = q.rewardPerTokenStored /\ RewardPerToken(q) \in Nat /\ q \in Storage
    BY PerTokenUpToDate, PerTokenGrows DEF Sound
  <2> QED
    BY <2>1, EarnedSettled
<1>3. /\ r.rewards = [q.rewards EXCEPT ![u] = 0]
      /\ r.paid = q.paid /\ r.balances = q.balances
      /\ r.rewardPerTokenStored = q.rewardPerTokenStored
      /\ r.totalSupply = q.totalSupply /\ r.rewardRate = q.rewardRate
      /\ r.periodFinish = q.periodFinish /\ r.lastUpdateTime = q.lastUpdateTime
  BY DEF Sound, Storage
<1>4. Sound(r) /\ r.rewards[u] = 0 /\ \A v \in Providers \ {u} : r.rewards[v] = q.rewards[v]
  BY DEF Sound, Storage
<1> HIDE DEF r
<1>5. Left(r) = Left(q) /\ Past(r) = Past(q)
  BY <1>3 DEF Left, Past
<1>6. /\ \A v \in Providers : Unsettled(r, v) = Unsettled(q, v)
      /\ \A v \in Providers \ {u} : Due(r, v) = Due(q, v)
  BY <1>3, <1>4 DEF Unsettled, Due
<1>7. Due(r, u) = 0 /\ Due(q, u) = TokenUnit * q.rewards[u]
  <2>1. q.rewardPerTokenStored - q.paid[u] = 0 /\ q.balances[u] * 0 = 0 /\ TokenUnit * 0 = 0
    BY <1>1 DEF Sound, Storage
  <2>2. TokenUnit * q.rewards[u] \in Nat
    BY <1>1, ProductNat DEF Sound, Storage
  <2> QED
    BY <1>3, <1>4, <2>1, <2>2 DEF Due
<1>8. Shaped(q) /\ Shaped(r)
  BY <1>3, <1>5, <1>6 DEF Funded, Shaped
<1>9. /\ Dues(q) \in Nat /\ Dues(r) \in Nat /\ PoolOwed(q) \in Nat /\ PoolOwed(r) \in Nat
      /\ Lost(q) \in Nat /\ \A v \in Providers : Due(q, v) \in Nat /\ Due(r, v) \in Nat
  BY <1>4, <1>8, FundsAreInts
<1>10. Dues(r) = Dues(q) - TokenUnit * q.rewards[u]
  <2>1. /\ \A v \in Providers : f[v] \in Int
        /\ g[u] \in Int /\ \A v \in Providers \ {u} : g[v] = f[v]
    BY <1>6, <1>7, <1>9
  <2>4. f[u] = TokenUnit * q.rewards[u] /\ g[u] = 0
    BY <1>7
  <2>5. TokenUnit * q.rewards[u] \in Int
    BY <1>1, ProductNat DEF Sound, Storage
  <2>2. Dues(q) = SumFunctionOnSet(f, Providers) /\ Dues(r) = SumFunctionOnSet(g, Providers)
    BY DEF Dues
  <2> HIDE DEF f, g
  <2>3. SumFunctionOnSet(g, Providers) = SumFunctionOnSet(f, Providers) - f[u] + g[u]
    BY ONLY <1>1, <2>1, SumUpdate, u \in Providers
  <2> QED
    BY <1>9, <2>2, <2>3, <2>4, <2>5
<1>11. Settlements(r) = Settlements(q)
  BY <1>5, <1>6, Zenon DEF Settlements
<1>12. Lost(r) = Lost(q)
  BY <1>5, <1>11, Zenon DEF Lost
<1>13. PoolOwed(r) = PoolOwed(q) - TokenUnit * q.rewards[u]
  <2>1. TokenUnit * (q.rewardRate * Left(q)) \in Nat
    <3>1. q.rewardRate \in Nat /\ Left(q) \in Nat
      BY <1>8, FundsAreInts DEF Sound, Storage
    <3>2. q.rewardRate * Left(q) \in Nat
      BY <3>1, ProductNat
    <3> QED
      BY <1>1, <3>2, ProductNat
  <2>2. TokenUnit * q.rewards[u] \in Nat
    BY <1>1, ProductNat DEF Sound, Storage
  <2> QED
    BY <1>3, <1>5, <1>9, <1>10, <2>1, <2>2 DEF PoolOwed
<1>14. TokenUnit * (mp - q.rewards[u]) = TokenUnit * mp - TokenUnit * q.rewards[u]
  <2>1. TokenUnit \in Int /\ mp \in Int /\ q.rewards[u] \in Int
    BY <1>1 DEF Sound, Storage
  <2> QED
    BY ONLY <2>1, Distributes
<1>15. TokenUnit * mp \in Nat /\ TokenUnit * q.rewards[u] \in Nat
  BY <1>1, ProductNat DEF Sound, Storage
<1>16. /\ PoolOwed(r) <= TokenUnit * (mp - q.rewards[u])
       /\ TokenUnit * (mp - q.rewards[u]) <= PoolOwed(r) + Lost(r)
  BY <1>9, <1>12, <1>13, <1>14, <1>15 DEF Funded
<1> QED
  BY <1>2, <1>8, <1>16 DEF Funded, r

-----------------------------------------------------------------------------
\* Nothing has happened before the parameters are set.
Untouched(p) ==
  \A v \in Providers :
    p.balances[v] = 0 /\ p.rewards[v] = 0 /\ p.paid[v] = p.rewardPerTokenStored

FundsInv ==
  /\ PoolInv
  /\ isSet => Funded(pool, mpBalance)
  /\ ~isSet => Untouched(pool)

\* claimReward, after whatever came before it in the call.
LEMMA ClaimKeepsFunds ==
  ASSUME FundsInv, isSet, NEW u \in Providers, NEW p, Sound(p), KeepsFunds(pool, p), Claim(p, u)
  PROVE  Funded(pool', mpBalance')
<1> DEFINE q == Refreshed(p, u)
<1>1. timestamp \in Nat /\ mpBalance \in Nat /\ Sound(pool) /\ Funded(pool, mpBalance)
  BY DEF FundsInv, PoolInv, TypeOK
<1>2. Sound(q) /\ UpToDate(q)
  BY <1>1, RefreshKeepsRest
<1>3. q.paid[u] = q.rewardPerTokenStored
  BY <1>1, RefreshKeepsEarned
<1>4. Shaped(p)
  BY DEF KeepsFunds
<1>5. KeepsFunds(p, q)
  BY <1>1, <1>4, RefreshKeepsFunds
<1>6. Funded(q, mpBalance)
  BY <1>1, <1>2, <1>5, KeepsFundsFunds
<1>7. /\ Earned(q, u) <= mpBalance
      /\ pool' = [q EXCEPT !.rewards[u] = 0] /\ mpBalance' = mpBalance - Earned(q, u)
  BY DEF Claim
<1> HIDE DEF q
<1> QED
  BY <1>1, <1>2, <1>3, <1>6, <1>7, PaymentKeepsFunds

\* The pool's parameters are set with the whole reward in it.
LEMMA SetParamsFunds ==
  ASSUME FundsInv, SetParams, PoolInv'
  PROVE  Funded(pool', mpBalance')
<1> DEFINE r == pool'
<1>1. /\ IsFiniteSet(Providers) /\ TokenUnit \in Nat \ {0} /\ Reward \in Nat \ {0}
      /\ Duration \in Nat \ {0} /\ LPOwned \in Nat
  BY RskSwapPoolAssumption
<1>2. Sound(pool) /\ timestamp \in Nat /\ pool.totalSupply = 0 /\ Untouched(pool)
  BY DEF FundsInv, PoolInv, TypeOK, SetParams
<1>3. /\ r.balances = pool.balances /\ r.paid = pool.paid /\ r.rewards = pool.rewards
      /\ r.rewardPerTokenStored = pool.rewardPerTokenStored /\ r.totalSupply = 0
      /\ r.rewardRate = Reward \div Duration
      /\ r.lastUpdateTime = timestamp /\ r.periodFinish = timestamp + Duration
      /\ mpBalance' = Reward
  BY <1>2 DEF SetParams, UpdateReward, RewardPerToken, Sound, Storage
<1>4. r \in Storage
  BY DEF PoolInv, TypeOK
<1> HIDE DEF r
<1>5. Left(r) = Duration /\ Past(r) = 0
  BY <1>1, <1>2, <1>3 DEF Left, Past
<1>6. \A v \in Providers : Due(r, v) = 0 /\ Unsettled(r, v) = 0 /\ r.balances[v] = 0
  <2> SUFFICES ASSUME NEW v \in Providers
               PROVE  Due(r, v) = 0 /\ Unsettled(r, v) = 0 /\ r.balances[v] = 0
    OBVIOUS
  <2>1. /\ r.balances[v] = 0 /\ r.rewards[v] = 0 /\ r.paid[v] = r.rewardPerTokenStored
        /\ r.rewardPerTokenStored \in Nat
    BY <1>2, <1>3, <1>4 DEF Untouched, Storage
  <2>2. r.rewardPerTokenStored - r.paid[v] = 0 /\ 0 * 0 = 0 /\ TokenUnit * 0 = 0
    BY <1>1, <2>1
  <2> QED
    BY <2>1, <2>2 DEF Due, Unsettled
<1>7. Dues(r) = 0 /\ Settlements(r) = 0 /\ SumFunctionOnSet(r.balances, Providers) = 0
  <2> DEFINE f == [v \in Providers |-> Due(r, v)]
             g == [v \in Providers |-> Past(r) - Unsettled(r, v)]
  <2>1. \A v \in Providers : f[v] = 0 /\ g[v] = 0
    BY <1>5, <1>6
  <2>2. SumFunctionOnSet(f, Providers) = 0 /\ SumFunctionOnSet(g, Providers) = 0
    BY <1>1, <2>1, SumZero
  <2>3. SumFunctionOnSet(r.balances, Providers) = 0
    BY <1>1, <1>6, SumZero
  <2> QED
    BY <2>2, <2>3 DEF Dues, Settlements
<1>8. Shaped(r)
  BY <1>1, <1>3, <1>5, <1>6, <1>7 DEF Shaped
<1> DEFINE rate == Reward \div Duration
           rest == Reward % Duration
<1>9. rate \in Nat /\ rest \in Nat /\ Reward = rate * Duration + rest
  BY <1>1
<1>10. PoolOwed(r) = TokenUnit * (rate * Duration) /\ Lost(r) = TokenUnit * rest
  <2>1. MaxSupply \in Nat
    BY <1>1, FS_CardinalityType, ProductNat DEF MaxSupply
  <2>2. 0 * MaxSupply = 0 /\ TokenUnit * 0 = 0
    BY <1>1, <2>1
  <2>3. rate * Duration \in Nat
    BY <1>1, <1>9, ProductNat
  <2>4. TokenUnit * (rate * Duration) \in Nat /\ TokenUnit * rest \in Nat
    BY <1>1, <1>9, <2>3, ProductNat
  <2> QED
    BY <1>3, <1>5, <1>7, <2>2, <2>4 DEF PoolOwed, Lost
<1> HIDE DEF rate, rest
<1>11. TokenUnit * Reward = TokenUnit * (rate * Duration) + TokenUnit * rest
  <2>1. TokenUnit \in Int /\ rate * Duration \in Int /\ rest \in Int
    BY <1>1, <1>9, ProductNat
  <2> QED
    BY ONLY <1>9, <2>1, Distributes
<1>12. TokenUnit * (rate * Duration) \in Nat /\ TokenUnit * rest \in Nat
  BY <1>1, <1>9, ProductNat
<1> QED
  BY <1>3, <1>8, <1>10, <1>11, <1>12 DEF Funded, r

\* A call that ends with the storage in a funded state.
LEMMA FundedCall ==
  ASSUME PoolInv', isSet', Funded(pool', mpBalance')
  PROVE  FundsInv'
BY DEF FundsInv, Funded, Shaped, PoolOwed, Lost, Dues, Due, Settlements, Unsettled, Left, Past

\* Every call, and the clock, keep the pool funded.
LEMMA FundsNextPreserves == FundsInv /\ [PoolNext]_<<poolVars, timestamp>> => FundsInv'
<1> SUFFICES ASSUME FundsInv, [PoolNext]_<<poolVars, timestamp>> PROVE FundsInv'
  OBVIOUS
<1>p. PoolInv /\ PoolInv'
  BY PoolNextPreserves DEF FundsInv
<1>t. timestamp \in Nat /\ mpBalance \in Nat /\ Sound(pool)
  BY <1>p DEF PoolInv, TypeOK
<1>f. isSet => Funded(pool, mpBalance) /\ Shaped(pool)
  BY DEF FundsInv, Funded
<1>1. ASSUME SetParams PROVE FundsInv'
  <2>1. isSet'
    BY <1>1 DEF SetParams
  <2> QED
    BY <1>p, <1>1, <2>1, SetParamsFunds, FundedCall
<1>2. ASSUME NEW u \in Providers, NEW amount \in LPAmounts, StakeLP(u, amount) PROVE FundsInv'
  <2> DEFINE q == Refreshed(pool, u)
             b == pool.balances[u] + amount
  <2>1. Sound(q) /\ q.balances = pool.balances /\ q.totalSupply = pool.totalSupply
    BY <1>t, RefreshKeepsRest
  <2>2. q.paid[u] = q.rewardPerTokenStored
    BY <1>t, RefreshKeepsEarned
  <2>3. /\ isSet /\ amount <= LPOwned - pool.balances[u]
        /\ pool' = AddStake(q, u, amount)
        /\ isSet' = isSet /\ mpBalance' = mpBalance /\ timestamp' = timestamp
    BY <1>2 DEF StakeLP
  <2>4. KeepsFunds(pool, q)
    BY <1>t, <1>f, <2>3, RefreshKeepsFunds
  <2>5. b \in Nat /\ b <= LPOwned /\ pool.totalSupply + amount = (pool.totalSupply - pool.balances[u]) + b
    BY <1>t, <2>3, RskSwapPoolAssumption DEF Sound, Storage
  <2> HIDE DEF q
  <2>6. Reshared(q, pool', u, b)
    <3>1. pool' = [q EXCEPT !.totalSupply = q.totalSupply + amount,
                            !.balances = [q.balances EXCEPT ![u] = b]]
      BY <2>1, <2>3 DEF AddStake, Sound, Storage
    <3> HIDE DEF b
    <3> QED
      BY <2>1, <2>5, <3>1 DEF Reshared, Sound, Storage
  <2> HIDE DEF b
  <2>7. Sound(pool')
    BY <1>p, <2>3 DEF PoolInv, TypeOK, Sound
  <2>8. KeepsFunds(q, pool')
    BY <2>1, <2>2, <2>4, <2>5, <2>6, <2>7, ResharingKeepsFunds DEF KeepsFunds
  <2>9. KeepsFunds(pool, pool')
    BY <1>t, <1>f, <2>1, <2>3, <2>4, <2>7, <2>8, KeepsFundsTwice
  <2>10. Funded(pool', mpBalance)
    BY <1>t, <1>f, <2>3, <2>7, <2>9, KeepsFundsFunds
  <2> QED
    BY <1>p, <2>3, <2>10, FundedCall
<1>3. ASSUME NEW u \in Providers, NEW amount \in LPAmounts, WithdrawLP(u, amount) PROVE FundsInv'
  <2>1. amount \in Nat /\ 0 < amount /\ amount <= pool.totalSupply /\ amount <= pool.balances[u]
    BY <1>3, RskSwapPoolAssumption DEF WithdrawLP
  <2>2. /\ isSet /\ pool' = AfterWithdrawal(pool, u, amount)
        /\ isSet' = isSet /\ mpBalance' = mpBalance
    BY <1>3 DEF WithdrawLP
  <2>3. Sound(pool') /\ KeepsFunds(pool, pool')
    BY <1>t, <1>f, <2>1, <2>2, WithdrawalKeepsRest, WithdrawalKeepsFunds
  <2>4. Funded(pool', mpBalance)
    BY <1>t, <1>f, <2>2, <2>3, KeepsFundsFunds
  <2> QED
    BY <1>p, <2>2, <2>4, FundedCall
<1>4. ASSUME NEW u \in Providers, ClaimReward(u) PROVE FundsInv'
  <2>1. isSet /\ isSet' /\ Claim(pool, u)
    BY <1>4 DEF ClaimReward, Claim
  <2>2. KeepsFunds(pool, pool)
    BY <1>t, <1>f, <2>1, SameFundsKept DEF SameFunds
  <2> QED
    BY <1>p, <1>t, <2>1, <2>2, ClaimKeepsFunds, FundedCall
<1>5. ASSUME NEW u \in Providers, WithdrawAndClaim(u) PROVE FundsInv'
  <2> DEFINE p == AfterWithdrawal(pool, u, pool.balances[u])
  <2>1. pool.balances[u] \in Nat
    BY <1>t DEF Sound, Storage
  <2>2. isSet /\ 0 < pool.balances[u] /\ pool.balances[u] <= pool.totalSupply /\ Claim(p, u)
    BY <1>5 DEF WithdrawAndClaim
  <2>3. Sound(p) /\ KeepsFunds(pool, p)
    BY <1>t, <1>f, <2>1, <2>2, WithdrawalKeepsRest, WithdrawalKeepsFunds
  <2>4. isSet'
    BY <2>2 DEF Claim
  <2> QED
    BY <1>p, <2>2, <2>3, <2>4, ClaimKeepsFunds, FundedCall
<1>6. ASSUME UNCHANGED <<pool, isSet, mpBalance>> PROVE FundsInv'
  <2>1. pool' = pool /\ isSet' = isSet /\ mpBalance' = mpBalance
    BY <1>6
  <2>2. CASE isSet
    BY <1>p, <1>f, <2>1, <2>2, FundedCall
  <2>3. CASE ~isSet
    BY <1>p, <2>1, <2>3 DEF FundsInv, Untouched
  <2> QED
    BY <2>2, <2>3
<1> QED
  BY <1>1, <1>2, <1>3, <1>4, <1>5, <1>6 DEF PoolNext, PoolCall, Tick, poolVars

\* The invariant holds in every reachable state.
LEMMA FundsInductive == PoolSpec => []FundsInv
<1>1. InitPool => FundsInv
  <2> SUFFICES ASSUME InitPool PROVE FundsInv
    OBVIOUS
  <2>1. ~isSet /\ Untouched(pool)
    BY DEF InitPool, Untouched
  <2> QED
    BY <2>1, InitPoolEstablishes DEF FundsInv
<1> QED
  BY <1>1, FundsNextPreserves, PTL DEF PoolSpec

\* What everyone has earned, and the part that is rounded.
LEMMA EarnedOfDues ==
  ASSUME NEW p, NEW q, Sound(p), Sound(q), Shaped(q), timestamp \in Nat, UpToDate(q) \/ q.totalSupply = 0,
         SameEarnings(p, q)
  PROVE  LET earned == SumFunctionOnSet([v \in Providers |-> Earned(p, v)], Providers)
         IN /\ earned \in Nat
            /\ TokenUnit * earned <= Dues(q)
            /\ Dues(q) + TokenUnit * Settlements(q)
                 <= TokenUnit * earned + TokenUnit * (Past(q) * Cardinality(Providers))
<1> DEFINE e == [v \in Providers |-> Earned(p, v)]
           earned == SumFunctionOnSet(e, Providers)
           te == [v \in Providers |-> TokenUnit * e[v]]
           d == [v \in Providers |-> Due(q, v)]
           s == [v \in Providers |-> Past(q) - Unsettled(q, v)]
           ts == [v \in Providers |-> TokenUnit * s[v]]
           ds == [v \in Providers |-> d[v] + ts[v]]
           one == [v \in Providers |-> 1]
           past == [v \in Providers |-> Past(q) * one[v]]
           tpast == [v \in Providers |-> TokenUnit * past[v]]
           bound == [v \in Providers |-> te[v] + tpast[v]]
<1>1. IsFiniteSet(Providers) /\ TokenUnit \in Nat \ {0}
  BY RskSwapPoolAssumption
<1>2. /\ \A v \in Providers : Due(q, v) \in Nat /\ Unsettled(q, v) \in 0..1
      /\ Past(q) \in Nat
  BY FundsAreInts
<1>3. RewardPerToken(q) = q.rewardPerTokenStored
  BY PerTokenUpToDate DEF RewardPerToken
<1>4. ASSUME NEW v \in Providers
      PROVE  /\ Earned(p, v) \in Nat
             /\ TokenUnit * Earned(p, v) <= Due(q, v)
             /\ Due(q, v) <= TokenUnit * Earned(p, v) + TokenUnit * Unsettled(q, v)
  <2> DEFINE share == q.balances[v] * (q.rewardPerTokenStored - q.paid[v])
  <2>1. Earned(p, v) = share \div TokenUnit + q.rewards[v]
    BY <1>3 DEF Earned, SameEarnings
  <2>2. Due(q, v) = share + TokenUnit * q.rewards[v]
    BY DEF Due
  <2>3. /\ q.balances[v] \in Nat /\ q.rewardPerTokenStored - q.paid[v] \in Nat
        /\ q.rewards[v] \in Nat /\ q.rewardPerTokenStored \in Nat /\ q.paid[v] \in Nat
    BY DEF Sound, Storage
  <2>4. share \in Nat
    BY <2>3, ProductNat
  <2>5. Unsettled(q, v) = 0 => share = 0
    BY <2>3 DEF Unsettled
  <2> HIDE DEF share
  <2>6. /\ share \div TokenUnit \in Nat
        /\ (share \div TokenUnit) * TokenUnit <= share
        /\ share < (share \div TokenUnit) * TokenUnit + TokenUnit
    BY <1>1, <2>4, QuotientNat, QuotientLoses
  <2>7. TokenUnit * Earned(p, v) = (share \div TokenUnit) * TokenUnit + TokenUnit * q.rewards[v]
    <3>1. TokenUnit \in Int /\ share \div TokenUnit \in Int /\ q.rewards[v] \in Int
      BY <1>1, <2>3, <2>6
    <3>2. /\ TokenUnit * (share \div TokenUnit + q.rewards[v])
               = TokenUnit * (share \div TokenUnit) + TokenUnit * q.rewards[v]
          /\ TokenUnit * (share \div TokenUnit) = (share \div TokenUnit) * TokenUnit
      BY ONLY <3>1, Distributes, ProductInt
    <3> QED
      BY <2>1, <3>2
  <2>8. TokenUnit * q.rewards[v] \in Nat /\ (share \div TokenUnit) * TokenUnit \in Nat
    BY <1>1, <2>3, <2>6, ProductNat
  <2>9. Unsettled(q, v) = 0 \/ Unsettled(q, v) = 1
    BY <1>2
  <2>10. TokenUnit * 1 = TokenUnit /\ TokenUnit * 0 = 0
    BY <1>1
  <2>11. CASE Unsettled(q, v) = 1
    BY <1>1, <2>1, <2>2, <2>3, <2>4, <2>6, <2>7, <2>8, <2>10, <2>11
  <2>12. CASE Unsettled(q, v) = 0
    <3>1. share = 0 /\ 0 \div TokenUnit = 0 /\ 0 * TokenUnit = 0
      BY <1>1, <2>5, <2>12
    <3> QED
      BY <1>1, <2>1, <2>2, <2>3, <2>7, <2>8, <2>10, <2>12, <3>1
  <2> QED
    BY <2>9, <2>11, <2>12
<1>5. ASSUME NEW v \in Providers
      PROVE  /\ e[v] \in Nat /\ te[v] \in Int /\ d[v] \in Int /\ te[v] <= d[v]
             /\ s[v] \in Int /\ ts[v] \in Int /\ past[v] \in Int /\ tpast[v] \in Int
             /\ ds[v] \in Int /\ bound[v] \in Int /\ ds[v] <= bound[v]
  <2> DEFINE x == Earned(p, v)
             n == Unsettled(q, v)
  <2>1. /\ e[v] = x /\ te[v] = TokenUnit * x /\ d[v] = Due(q, v)
        /\ s[v] = Past(q) - n /\ ts[v] = TokenUnit * (Past(q) - n)
        /\ past[v] = Past(q) * 1 /\ tpast[v] = TokenUnit * (Past(q) * 1)
        /\ ds[v] = Due(q, v) + TokenUnit * (Past(q) - n)
        /\ bound[v] = TokenUnit * x + TokenUnit * (Past(q) * 1)
    OBVIOUS
  <2>2. /\ x \in Nat /\ TokenUnit * x <= Due(q, v) /\ Due(q, v) <= TokenUnit * x + TokenUnit * n
        /\ n \in Nat
    BY <1>2, <1>4
  <2> HIDE DEF x, n, e, te, d, s, ts, past, tpast, ds, bound
  <2>3. TokenUnit * (Past(q) - n) = TokenUnit * Past(q) - TokenUnit * n
    BY <1>1, <1>2, <2>2, Distributes
  <2>4. Past(q) * 1 = Past(q)
    BY <1>2
  <2>5. TokenUnit * x \in Nat /\ TokenUnit * n \in Nat /\ TokenUnit * Past(q) \in Nat
    BY <1>1, <1>2, <2>2, ProductNat
  <2> QED
    BY <1>2, <2>1, <2>2, <2>3, <2>4, <2>5
<1>6. /\ \A v \in Providers : te[v] = TokenUnit * e[v] /\ ts[v] = TokenUnit * s[v]
      /\ \A v \in Providers : tpast[v] = TokenUnit * past[v] /\ past[v] = Past(q) * one[v]
      /\ \A v \in Providers : ds[v] = d[v] + ts[v] /\ bound[v] = te[v] + tpast[v]
      /\ \A v \in Providers : one[v] \in Int
  OBVIOUS
<1>7. Dues(q) = SumFunctionOnSet(d, Providers) /\ Settlements(q) = SumFunctionOnSet(s, Providers)
  BY DEF Dues, Settlements
<1>8. SumFunctionOnSet(one, Providers) = Cardinality(Providers)
  BY <1>1, SumOfOnes
<1>9. TokenUnit \in Int /\ Past(q) \in Int
  BY <1>1, <1>2
<1>e. earned \in Nat
  <2>1. \A v \in Providers : e[v] \in Nat
    BY <1>5
  <2> QED
    BY <1>1, <2>1, SumNat
<1> HIDE DEF e, te, d, s, ts, ds, one, past, tpast, bound
<1>10. SumFunctionOnSet(te, Providers) = TokenUnit * SumFunctionOnSet(e, Providers)
  <2>1. \A v \in Providers : e[v] \in Int /\ te[v] = TokenUnit * e[v]
    BY <1>5, <1>6
  <2> QED
    BY ONLY <1>1, <1>9, <2>1, SumTimes
<1>11. SumFunctionOnSet(ts, Providers) = TokenUnit * SumFunctionOnSet(s, Providers)
  <2>1. \A v \in Providers : s[v] \in Int /\ ts[v] = TokenUnit * s[v]
    BY <1>5, <1>6
  <2> QED
    BY ONLY <1>1, <1>9, <2>1, SumTimes
<1>12. SumFunctionOnSet(past, Providers) = Past(q) * SumFunctionOnSet(one, Providers)
  <2>1. \A v \in Providers : one[v] \in Int /\ past[v] = Past(q) * one[v]
    BY <1>6
  <2> QED
    BY ONLY <1>1, <1>9, <2>1, SumTimes
<1>13. SumFunctionOnSet(tpast, Providers) = TokenUnit * SumFunctionOnSet(past, Providers)
  <2>1. \A v \in Providers : past[v] \in Int /\ tpast[v] = TokenUnit * past[v]
    BY <1>5, <1>6
  <2> QED
    BY ONLY <1>1, <1>9, <2>1, SumTimes
<1>14. SumFunctionOnSet(te, Providers) <= SumFunctionOnSet(d, Providers)
  <2>1. \A v \in Providers : te[v] \in Int /\ d[v] \in Int /\ te[v] <= d[v]
    BY <1>5
  <2> QED
    BY ONLY <1>1, <2>1, SumMonotone
<1>15. SumFunctionOnSet(ds, Providers)
         = SumFunctionOnSet(d, Providers) + SumFunctionOnSet(ts, Providers)
  <2>1. \A v \in Providers : d[v] \in Int /\ ts[v] \in Int /\ ds[v] = d[v] + ts[v]
    BY <1>5, <1>6
  <2> QED
    BY ONLY <1>1, <2>1, SumPlus
<1>16. SumFunctionOnSet(bound, Providers)
         = SumFunctionOnSet(te, Providers) + SumFunctionOnSet(tpast, Providers)
  <2>1. \A v \in Providers : te[v] \in Int /\ tpast[v] \in Int /\ bound[v] = te[v] + tpast[v]
    BY <1>5, <1>6
  <2> QED
    BY ONLY <1>1, <2>1, SumPlus
<1>17. SumFunctionOnSet(ds, Providers) <= SumFunctionOnSet(bound, Providers)
  <2>1. \A v \in Providers : ds[v] \in Int /\ bound[v] \in Int /\ ds[v] <= bound[v]
    BY <1>5
  <2> QED
    BY ONLY <1>1, <2>1, SumMonotone
<1>18. TokenUnit * earned <= Dues(q)
  BY <1>7, <1>10, <1>14
<1>19. Dues(q) + TokenUnit * Settlements(q)
         <= TokenUnit * earned + TokenUnit * (Past(q) * Cardinality(Providers))
  BY <1>7, <1>8, <1>10, <1>11, <1>12, <1>13, <1>15, <1>16, <1>17
<1> QED
  BY <1>e, <1>18, <1>19 DEF e

\* A number of tokens from what is known of them in units of 1/TokenUnit.
LEMMA WholeTokens ==
  ASSUME NEW a \in Int, NEW b \in Int, NEW c \in Nat, NEW unit \in Nat \ {0}
  PROVE  /\ unit * a <= unit * b => a <= b
         /\ unit * a <= unit * b + c => a <= b + c \div unit
OBVIOUS

\* The storage as the next update will leave it, in which the promises of this
\* moment are those of the storage.
Present == IF pool.totalSupply = 0 THEN pool ELSE UpdateReward(pool)

\* See Present.
LEMMA PresentIsFunded ==
  ASSUME FundsInv, isSet
  PROVE  /\ Sound(Present) /\ Funded(Present, mpBalance) /\ SameEarnings(pool, Present)
         /\ UpToDate(Present) \/ Present.totalSupply = 0
         /\ Left(Present) = Remaining /\ Present.rewardRate = pool.rewardRate
<1>1. timestamp \in Nat /\ mpBalance \in Nat /\ Sound(pool) /\ Funded(pool, mpBalance)
  BY DEF FundsInv, PoolInv, TypeOK
<1>2. CASE pool.totalSupply = 0
  <2>1. Present = pool
    BY <1>2 DEF Present
  <2> QED
    BY <1>1, <1>2, <2>1 DEF SameEarnings, Left, Remaining
<1>3. CASE pool.totalSupply # 0
  <2> DEFINE q == UpdateReward(pool)
  <2>1. Present = q
    BY <1>3 DEF Present
  <2>2. Sound(q) /\ UpToDate(q) /\ q.periodFinish = pool.periodFinish
    BY <1>1, UpdateRewardIsSound
  <2>3. SameEarnings(pool, q)
    BY <1>1, UpdateRewardKeepsEarned
  <2>4. KeepsFunds(pool, q)
    BY <1>1, <1>3, UpdateRewardKeepsFunds DEF Funded
  <2>5. q.rewardRate = pool.rewardRate /\ q.lastUpdateTime = LastTimeRewardApplicable(pool)
    BY <1>1 DEF UpdateReward, Sound, Storage
  <2> HIDE DEF q
  <2>6. Funded(q, mpBalance)
    BY <1>1, <2>2, <2>4, KeepsFundsFunds
  <2>7. Left(q) = Remaining
    BY <1>3, <2>2, <2>5 DEF Left, Remaining
  <2> QED
    BY <2>1, <2>2, <2>3, <2>5, <2>6, <2>7
<1> QED
  BY <1>2, <1>3

\* From the exact sums to the tokens.
LEMMA FundsAreOwed == FundsInv => BalanceIsOwed
<1> SUFFICES ASSUME FundsInv, isSet
             PROVE  LET owed == AllEarned + Remaining * pool.rewardRate
                    IN owed <= mpBalance /\ mpBalance <= owed + Dust
  BY DEF BalanceIsOwed
<1> DEFINE q == Present
           U == TokenUnit
           n == Cardinality(Providers)
           fee == Reward % Duration
           rest == Remaining * pool.rewardRate
           earned == SumFunctionOnSet([v \in Providers |-> Earned(pool, v)], Providers)
           owed == earned + rest
           past == Past(q)
           base == owed + (fee + past * n)
<1>1. timestamp \in Nat /\ mpBalance \in Nat /\ Sound(pool) /\ stakedTime \in Nat
  BY DEF FundsInv, PoolInv, TypeOK
<1>2. /\ Sound(q) /\ Shaped(q) /\ Funded(q, mpBalance) /\ SameEarnings(pool, q)
      /\ UpToDate(q) \/ q.totalSupply = 0
      /\ Left(q) = Remaining /\ q.rewardRate = pool.rewardRate
  BY PresentIsFunded DEF Funded
<1>3. AllEarned = earned
  BY DEF AllEarned, SumFunction
<1>4. /\ U \in Nat \ {0} /\ n \in Nat /\ fee \in Nat /\ Duration \in Nat \ {0}
  BY RskSwapPoolAssumption, FS_CardinalityType
<1> HIDE DEF q
<1>5. /\ earned \in Nat
      /\ U * earned <= Dues(q)
      /\ Dues(q) + U * Settlements(q) <= U * earned + U * (past * n)
  BY <1>1, <1>2, EarnedOfDues
<1>6. /\ Dues(q) \in Nat /\ PoolOwed(q) \in Nat /\ Lost(q) \in Nat /\ Settlements(q) \in Nat
      /\ Left(q) \in Nat /\ past \in Nat /\ MaxSupply \in Nat
  BY <1>2, FundsAreInts
<1>7. past <= stakedTime
  BY <1>1, <1>2, <1>4, <1>6 DEF Past, FundsInv, PoolInv, ClockStopsWhileEmpty
<1>8. /\ rest \in Nat /\ q.rewardRate * Left(q) = rest
      /\ PoolOwed(q) = Dues(q) + U * rest
  <2>1. q.rewardRate \in Nat
    BY <1>2 DEF Sound, Storage
  <2>2. q.rewardRate * Left(q) \in Nat /\ q.rewardRate * Left(q) = Left(q) * q.rewardRate
    BY <1>6, <2>1, ProductNat, ProductInt
  <2> QED
    BY <1>2, <2>2 DEF PoolOwed
<1>9. Lost(q) = (U * fee + past * MaxSupply) + U * Settlements(q)
  BY DEF Lost
<1>10. PoolOwed(q) <= U * mpBalance /\ U * mpBalance <= PoolOwed(q) + Lost(q)
  BY <1>2 DEF Funded
<1> HIDE DEF U, n, fee, rest, earned, past
<1>11. past * n \in Nat /\ past * MaxSupply \in Nat
  BY <1>4, <1>6, ProductNat
<1>12. /\ U * earned \in Nat /\ U * rest \in Nat /\ U * fee \in Nat /\ U * (past * n) \in Nat
       /\ U * mpBalance \in Nat /\ U * Settlements(q) \in Nat
  BY <1>1, <1>4, <1>5, <1>6, <1>8, <1>11, ProductNat
<1>13. U * owed = U * earned + U * rest
  <2>1. U \in Int /\ earned \in Int /\ rest \in Int
    BY <1>4, <1>5, <1>8
  <2> QED
    BY ONLY <2>1, Distributes
<1>14. owed <= mpBalance
  <2>1. U * owed <= U * mpBalance
    BY <1>5, <1>6, <1>8, <1>10, <1>12, <1>13
  <2>2. owed \in Int
    BY <1>5, <1>8
  <2> HIDE DEF owed
  <2> QED
    BY <1>1, <1>4, <2>1, <2>2, WholeTokens
<1>15. U * base = U * owed + (U * fee + U * (past * n))
  <2>1. U \in Int /\ owed \in Int /\ fee \in Int /\ past * n \in Int /\ fee + past * n \in Int
    BY <1>4, <1>5, <1>8, <1>11
  <2> HIDE DEF owed
  <2> QED
    BY ONLY <2>1, Distributes
<1>16. mpBalance <= base + (past * MaxSupply) \div U
  <2>1. U * mpBalance <= U * base + past * MaxSupply
    <3> HIDE DEF base, owed
    <3>1. U * owed \in Nat
      BY <1>12, <1>13
    <3> QED
      BY <1>5, <1>6, <1>8, <1>9, <1>10, <1>11, <1>12, <1>13, <1>15, <3>1
  <2>2. base \in Int
    BY <1>4, <1>5, <1>8, <1>11
  <2> HIDE DEF base
  <2> QED
    BY <1>1, <1>4, <1>11, <2>1, <2>2, WholeTokens
<1>17. past * n <= stakedTime * n /\ past * MaxSupply <= stakedTime * MaxSupply
  BY <1>1, <1>4, <1>6, <1>7, ProductGrows
<1>18. stakedTime * n \in Nat /\ stakedTime * MaxSupply \in Nat
  BY <1>1, <1>4, <1>6, ProductNat
<1>19. /\ (past * MaxSupply) \div U <= (stakedTime * MaxSupply) \div U
       /\ (past * MaxSupply) \div U \in Nat /\ (stakedTime * MaxSupply) \div U \in Nat
  BY <1>4, <1>11, <1>17, <1>18, QuotientNat, QuotientGrows
<1>20. Dust = fee + stakedTime * n + (stakedTime * MaxSupply) \div U
  BY DEF Dust, MaxSupply, fee, n, U
<1>21. mpBalance <= owed + Dust
  BY <1>1, <1>4, <1>5, <1>8, <1>11, <1>16, <1>17, <1>18, <1>19, <1>20
<1> QED
  BY <1>3, <1>14, <1>21 DEF rest

\* The MP of the pool is always the providers', paid, earned or still to come: the
\* contract can pay all of it, and what its divisions leave behind is bounded by the
\* seconds somebody has staked (setParams, stakes, withdrawals, claims and exits).
THEOREM BalanceIsOwedHolds == PoolSpec => []BalanceIsOwed
  BY FundsInductive, FundsAreOwed, PTL
=============================================================================
