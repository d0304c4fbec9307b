--------------------------- MODULE StabilityPool ---------------------------
(***************************************************************************)
(* StabilityPool.sol: deposits that shrink and gain RBTC at each offset    *)
(* without being visited, through the running product P and the running    *)
(* sums S and G, their scales and epochs; the front ends that tag deposits *)
(* and share the MP issued (CommunityIssuance.sol) with their depositors.  *)
(*                                                                         *)
(* Every action is one external call.  A failing require or assert and a   *)
(* SafeMath underflow are guards.  The calls' arguments, the amount of MP  *)
(* that issueMP returns (it depends on the time passed) and the debt and   *)
(* collateral that VaultManager offsets are inputs.                        *)
(***************************************************************************)
EXTENDS Integers, FiniteSets, FiniteSetsExt

CONSTANTS
  Addresses,           \* depositors and front ends
  NoTag,               \* address(0), the tag of deposits made without a front end
  DECIMAL_PRECISION, SCALE_FACTOR,
  Billion,             \* the literal 1e9 of _getCompoundedStakeFromSnapshots
  Amounts,             \* BPD provided or withdrawn
  Issuances,           \* MP that issueMP may return
  Debts, CollsAdded,   \* BPD and RBTC that offset may be called with
  KickbackRates,
  MaxScale, MaxEpoch   \* bounds of the model on currentScale and currentEpoch

ASSUME StabilityPoolAssumption ==
  /\ IsFiniteSet(Addresses) /\ NoTag \notin Addresses
  /\ {DECIMAL_PRECISION, SCALE_FACTOR, Billion} \subseteq Nat \ {0}
  /\ SCALE_FACTOR * SCALE_FACTOR <= DECIMAL_PRECISION
  /\ Amounts \subseteq Nat \ {0} /\ Issuances \subseteq Nat
  /\ Debts \subseteq Nat /\ CollsAdded \subseteq Nat
  /\ KickbackRates \subseteq 0..DECIMAL_PRECISION
  /\ MaxScale \in Nat /\ MaxEpoch \in Nat

Tags == Addresses \cup {NoTag}

VARIABLES
  deposits,        \* initialValue and frontEndTag of every address
  depositSnapshots,
  frontEnds,       \* kickbackRate and registered
  frontEndStakes, frontEndSnapshots,   \* address(0) has one too
  P, currentScale, currentEpoch,
  S, G,            \* epochToScaleToSum and epochToScaleToG
  lastError,       \* lastMPError, lastRBTCError_Offset, lastBPDLossError_Offset
  totalBPDDeposits, RBTC,
  mp,              \* MP issued to depositors and paid out by CommunityIssuance
  dust             \* history: what the feedback of errors may have given too much

depositVars == <<deposits, depositSnapshots>>
frontEndVars == <<frontEndStakes, frontEndSnapshots>>
productVars == <<P, currentScale, currentEpoch, S>>
vars == <<depositVars, frontEnds, frontEndVars, productVars, G, lastError, totalBPDDeposits, RBTC, mp, dust>>

NoSnapshot == [S |-> 0, P |-> 0, G |-> 0, scale |-> 0, epoch |-> 0]

Snapshot == [S : Nat, P : Nat, G : Nat, scale : Nat, epoch : Nat]

\* epoch -> scale -> sum: reads reach one scale beyond the current one.
Sums == [0..MaxEpoch -> [0..(MaxScale + 1) -> Nat]]

RegisteredFrontEnds == {f \in Addresses : frontEnds[f].registered}

----------------------------------------------------------------------------
\* Gains and compounded stakes, from the snapshots of a stake.  sums is S or G.

GainFrom(sums, stake, start, snap) ==
  IF stake = 0 THEN 0
  ELSE LET first  == sums[snap.epoch][snap.scale] - start
           second == sums[snap.epoch][snap.scale + 1] \div SCALE_FACTOR
       IN ((stake * (first + second)) \div snap.P) \div DECIMAL_PRECISION

DepositorRBTCGain(u) ==
  GainFrom(S, deposits[u].initialValue, depositSnapshots[u].S, depositSnapshots[u])

\* g is G once the issuance of this call is added.
DepositorMPGain(g, u) ==
  LET tag == deposits[u].frontEndTag
      kickback == IF tag = NoTag THEN DECIMAL_PRECISION ELSE frontEnds[tag].kickbackRate
  IN (kickback * GainFrom(g, deposits[u].initialValue, depositSnapshots[u].G, depositSnapshots[u]))
       \div DECIMAL_PRECISION

FrontEndMPGain(g, f) ==
  ((DECIMAL_PRECISION - frontEnds[f].kickbackRate)
     * GainFrom(g, frontEndStakes[f], frontEndSnapshots[f].G, frontEndSnapshots[f]))
    \div DECIMAL_PRECISION

CompoundedAcrossEpochs(stake, snap) ==                  \* mutant
  IF stake = 0 THEN 0 ELSE (stake * P) \div snap.P
Remaining(stake, snap) ==
  IF stake = 0 \/ snap.epoch < currentEpoch THEN 0
  ELSE CASE snap.scale = currentScale     -> (stake * P) \div snap.P
         [] snap.scale + 1 = currentScale -> ((stake * P) \div snap.P) \div SCALE_FACTOR
         [] OTHER -> 0

Compounded(stake, snap) ==
  IF Remaining(stake, snap) < stake \div Billion THEN 0 ELSE Remaining(stake, snap)

CompoundedBPDDeposit(u) == Compounded(deposits[u].initialValue, depositSnapshots[u])

CompoundedFrontEndStake(f) == Compounded(frontEndStakes[f], frontEndSnapshots[f])

SnapshotNow(g) ==
  [S |-> S[currentEpoch][currentScale], P |-> P, G |-> g[currentEpoch][currentScale],
   scale |-> currentScale, epoch |-> currentEpoch]

----------------------------------------------------------------------------
\* _triggerMPIssuance: issueMP returns issued; the MP issued to an empty pool
\* are nobody's and stay in CommunityIssuance.

MPPerUnitStaked(issued) == (issued * DECIMAL_PRECISION + lastError.MP) \div totalBPDDeposits

NothingIssued(issued) == totalBPDDeposits = 0 \/ issued = 0

GAfter(issued) ==
  IF NothingIssued(issued) THEN G
  ELSE [G EXCEPT ![currentEpoch][currentScale] = @ + MPPerUnitStaked(issued) * P]

MPErrorAfter(issued) ==
  IF NothingIssued(issued) THEN lastError.MP
  ELSE (issued * DECIMAL_PRECISION + lastError.MP) % totalBPDDeposits

\* The MP issued and paid by this call.
MPAfter(issued, paid) ==
  [issued |-> IF NothingIssued(issued) THEN mp.issued ELSE mp.issued + issued,
   paid   |-> mp.paid + paid]

----------------------------------------------------------------------------
\* History: what the correction of losses may give away.  A loss is reduced by the error of
\* the one before, of which the deposits bore only what the pool then had left of it; so
\* all deposits together may exceed the pool by the greatest error so far, in units of
\* 1 / DECIMAL_PRECISION, and share in each gain with as much too much.
MPDustAfter(issued) ==
  IF NothingIssued(issued) THEN dust.MP
  ELSE dust.MP + MPPerUnitStaked(issued) * dust.loss

----------------------------------------------------------------------------
\* What provideToSP, withdrawFromSP and withdrawRBTCGainToVault share: issuance, the
\* payment of MP and RBTC gains, and the new deposit, front end stake and snapshots.
\* tag is the deposit's front end.

StakeOnlyAdded(u, tag, value, stake, issued) ==         \* mutant
  /\ deposits' = [deposits EXCEPT ![u] =
       [initialValue |-> value, frontEndTag |-> IF value = 0 THEN NoTag ELSE tag]]
  /\ depositSnapshots' = [depositSnapshots EXCEPT ![u] =
       IF value = 0 THEN NoSnapshot ELSE SnapshotNow(GAfter(issued))]
  /\ frontEndStakes' = [frontEndStakes EXCEPT ![tag] = stake]
  /\ frontEndSnapshots' = [frontEndSnapshots EXCEPT ![tag] =
       IF @.P > 0 THEN @ ELSE [SnapshotNow(GAfter(issued)) EXCEPT !.S = 0]]
\* _updateDepositAndSnapshots and _updateFrontEndStakeAndSnapshots.
UpdateSnapshots(u, tag, value, stake, issued) ==
  /\ deposits' = [deposits EXCEPT ![u] =
       [initialValue |-> value, frontEndTag |-> IF value = 0 THEN NoTag ELSE tag]]
  /\ depositSnapshots' = [depositSnapshots EXCEPT ![u] =
       IF value = 0 THEN NoSnapshot ELSE SnapshotNow(GAfter(issued))]
  /\ frontEndStakes' = [frontEndStakes EXCEPT ![tag] = stake]
  /\ frontEndSnapshots' = [frontEndSnapshots EXCEPT ![tag] =
       IF stake = 0 THEN NoSnapshot ELSE [SnapshotNow(GAfter(issued)) EXCEPT !.S = 0]]

DepositorCall(u, tag, value, stake, issued) ==
  LET g    == GAfter(issued)
      paid == DepositorMPGain(g, u) + (IF tag = NoTag THEN 0 ELSE FrontEndMPGain(g, tag))
  IN
  /\ CompoundedBPDDeposit(u) <= deposits[u].initialValue
  /\ DepositorRBTCGain(u) <= RBTC
  /\ G' = g
  /\ lastError' = [lastError EXCEPT !.MP = MPErrorAfter(issued)]
  /\ mp' = MPAfter(issued, paid)
  /\ dust' = [dust EXCEPT !.MP = MPDustAfter(issued)]
  /\ RBTC' = RBTC - DepositorRBTCGain(u)
  /\ UpdateSnapshots(u, tag, value, stake, issued)
  /\ UNCHANGED <<frontEnds, productVars>>

ProvideToSP(u, amount, givenTag, issued) ==
  LET tag == IF deposits[u].initialValue = 0 THEN givenTag ELSE deposits[u].frontEndTag
  IN
  /\ givenTag \in {NoTag} \cup RegisteredFrontEnds
  /\ u \notin RegisteredFrontEnds
  /\ amount > 0
  /\ DepositorCall(u, tag, CompoundedBPDDeposit(u) + amount, CompoundedFrontEndStake(tag) + amount, issued)
  /\ totalBPDDeposits' = totalBPDDeposits + amount

\* The vaults must be at or above MCR unless amount is 0 (VaultSystem.tla has this guard).
WithdrawFromSP(u, amount, issued) ==
  LET tag == deposits[u].frontEndTag
      withdrawn == Min({amount, CompoundedBPDDeposit(u)})
  IN
  /\ deposits[u].initialValue > 0
  /\ withdrawn <= CompoundedFrontEndStake(tag)
  /\ withdrawn <= totalBPDDeposits
  /\ DepositorCall(u, tag, CompoundedBPDDeposit(u) - withdrawn,
                   CompoundedFrontEndStake(tag) - withdrawn, issued)
  /\ totalBPDDeposits' = totalBPDDeposits - withdrawn

\* The gain goes to the depositor's vault: it has one, or the call reverts.
WithdrawRBTCGainToVault(u, issued) ==
  LET tag == deposits[u].frontEndTag
  IN
  /\ deposits[u].initialValue > 0
  /\ DepositorRBTCGain(u) > 0
  /\ DepositorCall(u, tag, CompoundedBPDDeposit(u), CompoundedFrontEndStake(tag), issued)
  /\ UNCHANGED totalBPDDeposits

RegisterFrontEnd(u, kickbackRate) ==
  /\ u \notin RegisteredFrontEnds
  /\ deposits[u].initialValue = 0
  /\ kickbackRate <= DECIMAL_PRECISION
  /\ frontEnds' = [frontEnds EXCEPT ![u] = [kickbackRate |-> kickbackRate, registered |-> TRUE]]
  /\ UNCHANGED <<depositVars, frontEndVars, productVars, G, lastError, totalBPDDeposits, RBTC, mp, dust>>

----------------------------------------------------------------------------
\* offset

LossRoundedDown(debt) ==                                \* mutant
  IF debt = totalBPDDeposits THEN DECIMAL_PRECISION
  ELSE (debt * DECIMAL_PRECISION - lastError.BPDLoss) \div totalBPDDeposits
\* BPDLossPerUnitStaked: one too many, so that deposits never exceed the pool.
BPDLossPerUnitStaked(debt) ==
  IF debt = totalBPDDeposits THEN DECIMAL_PRECISION
  ELSE (debt * DECIMAL_PRECISION - lastError.BPDLoss) \div totalBPDDeposits + 1

BPDLossErrorAfter(debt) ==
  IF debt = totalBPDDeposits THEN 0
  ELSE BPDLossPerUnitStaked(debt) * totalBPDDeposits - (debt * DECIMAL_PRECISION - lastError.BPDLoss)

\* The sum S is updated with P as it was, then P: emptied, scaled up or multiplied.
ScaleNotCounted(factor) ==                              \* mutant
  LET product == (P * factor) \div DECIMAL_PRECISION
  IN CASE factor = 0 -> [P |-> DECIMAL_PRECISION, scale |-> 0, epoch |-> currentEpoch + 1]
       [] factor > 0 /\ product < SCALE_FACTOR ->
            [P |-> (P * factor * SCALE_FACTOR) \div DECIMAL_PRECISION,
             scale |-> currentScale, epoch |-> currentEpoch]
       [] OTHER -> [P |-> product, scale |-> currentScale, epoch |-> currentEpoch]
ProductAfter(factor) ==
  LET product == (P * factor) \div DECIMAL_PRECISION
  IN CASE factor = 0 -> [P |-> DECIMAL_PRECISION, scale |-> 0, epoch |-> currentEpoch + 1]
       [] factor > 0 /\ product < SCALE_FACTOR ->
            [P |-> (P * factor * SCALE_FACTOR) \div DECIMAL_PRECISION,
             scale |-> currentScale + 1, epoch |-> currentEpoch]
       [] OTHER -> [P |-> product, scale |-> currentScale, epoch |-> currentEpoch]

Offset(debt, coll, issued) ==
  LET numerator == coll * DECIMAL_PRECISION + lastError.RBTC
      perUnit   == numerator \div totalBPDDeposits
      next      == ProductAfter(DECIMAL_PRECISION - BPDLossPerUnitStaked(debt))
  IN
  /\ totalBPDDeposits > 0 /\ debt > 0
  /\ debt <= totalBPDDeposits
  /\ debt < totalBPDDeposits => debt * DECIMAL_PRECISION >= lastError.BPDLoss
  /\ BPDLossPerUnitStaked(debt) <= DECIMAL_PRECISION
  /\ next.P > 0
  /\ next.scale <= MaxScale /\ next.epoch <= MaxEpoch
  /\ G' = GAfter(issued)
  /\ mp' = MPAfter(issued, 0)
  /\ dust' = [loss |-> Max({dust.loss, BPDLossErrorAfter(debt)}),
              RBTC |-> dust.RBTC + perUnit * dust.loss,
              MP   |-> MPDustAfter(issued)]
  /\ lastError' = [MP |-> MPErrorAfter(issued), RBTC |-> numerator % totalBPDDeposits,
                   BPDLoss |-> BPDLossErrorAfter(debt)]
  /\ S' = [S EXCEPT ![currentEpoch][currentScale] = @ + perUnit * P]
  /\ P' = next.P /\ currentScale' = next.scale /\ currentEpoch' = next.epoch
  /\ totalBPDDeposits' = totalBPDDeposits - debt
  /\ RBTC' = RBTC + coll
  /\ UNCHANGED <<depositVars, frontEnds, frontEndVars>>

----------------------------------------------------------------------------
Init ==
  /\ deposits = [u \in Addresses |-> [initialValue |-> 0, frontEndTag |-> NoTag]]
  /\ depositSnapshots = [u \in Addresses |-> NoSnapshot]
  /\ frontEnds = [u \in Addresses |-> [kickbackRate |-> 0, registered |-> FALSE]]
  /\ frontEndStakes = [f \in Tags |-> 0]
  /\ frontEndSnapshots = [f \in Tags |-> NoSnapshot]
  /\ P = DECIMAL_PRECISION /\ currentScale = 0 /\ currentEpoch = 0
  /\ S = [e \in 0..MaxEpoch |-> [s \in 0..(MaxScale + 1) |-> 0]]
  /\ G = S
  /\ lastError = [MP |-> 0, RBTC |-> 0, BPDLoss |-> 0]
  /\ totalBPDDeposits = 0 /\ RBTC = 0
  /\ mp = [issued |-> 0, paid |-> 0]
  /\ dust = [loss |-> 0, RBTC |-> 0, MP |-> 0]

Next ==
  \/ \E u \in Addresses, issued \in Issuances :
       \/ \E amount \in Amounts :
            \/ \E tag \in Tags : ProvideToSP(u, amount, tag, issued)
            \/ WithdrawFromSP(u, amount, issued)
       \/ WithdrawFromSP(u, 0, issued)
       \/ WithdrawRBTCGainToVault(u, issued)
  \/ \E u \in Addresses, k \in KickbackRates : RegisterFrontEnd(u, k)
  \/ \E debt \in Debts, coll \in CollsAdded, issued \in Issuances : Offset(debt, coll, issued)

Spec == Init /\ [][Next]_vars

----------------------------------------------------------------------------
\* Properties

Total(f) == SumFunction(f)

TypeOK ==
  /\ deposits \in [Addresses -> [initialValue : Nat, frontEndTag : Tags]]
  /\ depositSnapshots \in [Addresses -> Snapshot]
  /\ frontEnds \in [Addresses -> [kickbackRate : 0..DECIMAL_PRECISION, registered : BOOLEAN]]
  /\ frontEndStakes \in [Tags -> Nat]
  /\ frontEndSnapshots \in [Tags -> Snapshot]
  /\ P \in 1..DECIMAL_PRECISION
  /\ currentScale \in 0..MaxScale /\ currentEpoch \in 0..MaxEpoch
  /\ S \in Sums /\ G \in Sums
  /\ lastError \in [MP : Nat, RBTC : Nat, BPDLoss : Nat]
  /\ totalBPDDeposits \in Nat /\ RBTC \in Nat
  /\ mp \in [issued : Nat, paid : Nat]
  /\ dust \in [loss : Nat, RBTC : Nat, MP : Nat]

\* Over any series of offsets, scale changes and emptyings the depositors can withdraw no
\* more than the pool holds and the dust.  Without it they can: of the "slightly too much"
\* loss that is taken from them (StabilityPool.sol:555) the next loss gives back all, to
\* fewer deposits than bore it.
PoolCoversDeposits ==
  Total([u \in Addresses |-> CompoundedBPDDeposit(u)])
    <= totalBPDDeposits + dust.loss \div DECIMAL_PRECISION

\* The pool holds the RBTC that all depositors could claim, but for what the dust gained.
PoolCoversRBTCGains ==
  Total([u \in Addresses |-> DepositorRBTCGain(u)])
    <= RBTC + dust.RBTC \div (DECIMAL_PRECISION * DECIMAL_PRECISION)

\* Depositors and front ends together never earn more MP than were issued to them, but
\* for what the dust earned, however the roundings of stakes and deposits differ.
IssuanceCoversMPGains ==
  mp.paid + Total([u \in Addresses |-> DepositorMPGain(G, u)])
          + Total([f \in Addresses |-> FrontEndMPGain(G, f)])
    <= mp.issued + dust.MP \div (DECIMAL_PRECISION * DECIMAL_PRECISION)

\* "If _amount > userDeposit, the user withdraws all of their compounded deposit"
\* (StabilityPool.sol:368): the pool can pay the gain and what is left of the deposit
\* can be taken from the pool's total, since the error is said to favour the pool
\* (StabilityPool.sol:556), and from the stake of the front end, which is the sum of
\* such deposits (StabilityPool.sol:756).
DepositsCanBeWithdrawn ==
  \A u \in Addresses :
    deposits[u].initialValue > 0
      => /\ CompoundedBPDDeposit(u) <= totalBPDDeposits
         /\ DepositorRBTCGain(u) <= RBTC
         /\ CompoundedBPDDeposit(u) <= CompoundedFrontEndStake(deposits[u].frontEndTag)
=============================================================================
