---------------------------- MODULE PlaybookProofs ----------------------------
(***************************************************************************)
(* A switch of regime is earned, for every playbook: any set of labels and *)
(* any horizons.  A plan keeps the budget of its regime, whatever the      *)
(* verdict and the volatility; along every position (any prices, verdicts  *)
(* and number of orders) a stop that was raised stays raised, an opening   *)
(* risks no more than its budget, and an order settles.                    *)
(***************************************************************************)
EXTENDS ManagedPosition, TLAPS

(* An observation keeps the tracker's memory of the history true.          *)
LEMMA ObserveKeepsInv ==
    ASSUME TrackerInv, NEW label \in Labels \cup {None}, Observe(label)
    PROVE  TrackerInv'
  <1> USE LabelAssumption, HorizonAssumption
  <1>1. Normal(label) \in Labels
    BY DEF Normal, TrackerInv, TrackerTypeOK
  <1>2. streak' = Normal(label) /\ length' = IF streak' = streak THEN length ELSE 0
    BY DEF Observe, Remember
  <1>3. CASE ~observed /\ InForce(Normal(label))
    BY <1>1, <1>2, <1>3 DEF InForce, TrackerInv, TrackerTypeOK
  <1>4. CASE observed /\ Normal(label) = regime /\ InForce(regime)
    BY <1>1, <1>2, <1>4 DEF InForce, TrackerInv, TrackerTypeOK
  <1>5. CASE /\ observed /\ Normal(label) \notin {regime, pending}
             /\ pending' = Normal(label) /\ age' = 0
             /\ UNCHANGED <<regime, observed>>
    <2>1. streak # Normal(label)
      BY <1>5 DEF TrackerInv
    <2> QED
      BY <1>1, <1>2, <1>5, <2>1 DEF TrackerInv, TrackerTypeOK
  <1>6. CASE /\ observed /\ Normal(label) # regime /\ Normal(label) = pending
             /\ IF age >= Horizon[regime] THEN InForce(pending) ELSE UNCHANGED tracker
    <2>1. streak' = streak /\ length' = length
      BY <1>1, <1>2, <1>6 DEF TrackerInv
    <2>2. CASE age >= Horizon[regime]
      BY <1>1, <1>2, <1>6, <2>1, <2>2 DEF InForce, TrackerInv, TrackerTypeOK
    <2>3. CASE ~(age >= Horizon[regime])
      BY <1>6, <2>1, <2>3 DEF tracker, TrackerInv, TrackerTypeOK
    <2> QED
      BY <2>2, <2>3
  <1> QED
    BY <1>3, <1>4, <1>5, <1>6 DEF Observe

(* So does the passing of time.                                            *)
LEMMA AgeKeepsInv == ASSUME TrackerInv, Age PROVE TrackerInv'
  <1> USE LabelAssumption, HorizonAssumption
  <1>1. \A a \in 0..MaxAge : Older(a) \in 0..MaxAge
    BY DEF Older
  <1>2. pending # None => streak # None
    BY DEF TrackerInv
  <1> QED
    BY <1>1, <1>2 DEF Age, TrackerInv, TrackerTypeOK

LEMMA TrackerStartsTrue == ASSUME TrackerInit PROVE TrackerInv
  <1>1. TrackerTypeOK
    <2>1. 0 \in 0..MaxAge
      BY HorizonAssumption
    <2> QED
      BY <2>1, LabelAssumption, Zenon DEF TrackerInit, TrackerTypeOK
  <1>2. pending # regime /\ (observed <=> streak # None)
    BY LabelAssumption, Zenon DEF TrackerInit
  <1> QED
    BY <1>1, <1>2 DEF TrackerInit, TrackerInv

(* What is pending is what was observed last, for as long as it was.       *)
THEOREM TrackerInvariance == TrackerSpec => []TrackerInv
  <1>1. TrackerInit => TrackerInv
    BY TrackerStartsTrue
  <1>2. TrackerInv /\ [TrackerNext]_<<tracker, history>> => TrackerInv'
    <2> SUFFICES ASSUME TrackerInv, [TrackerNext]_<<tracker, history>>
                 PROVE  TrackerInv'
      OBVIOUS
    <2>1. CASE TrackerNext
      BY <2>1, ObserveKeepsInv, AgeKeepsInv DEF TrackerNext
    <2>2. CASE UNCHANGED <<tracker, history>>
      BY <2>2 DEF tracker, history, TrackerInv, TrackerTypeOK
    <2> QED
      BY <2>1, <2>2
  <1> QED
    BY <1>1, <1>2, PTL DEF TrackerSpec

(* A label replaces the regime in force only after every observation for   *)
(* the horizon of the strategy it replaces has named it.                   *)
THEOREM SwitchEarned == TrackerSpec => SwitchIsEarned
  <1> DEFINE Earned == observed /\ regime' # regime =>
                          /\ regime' = streak /\ streak' = streak
                          /\ length >= Horizon[regime]
  <1>1. TrackerInv /\ [TrackerNext]_<<tracker, history>> => [Earned]_<<tracker, history>>
    <2> SUFFICES ASSUME TrackerInv, TrackerNext, observed, regime' # regime
                 PROVE  regime' = streak /\ streak' = streak /\ length >= Horizon[regime]
      BY DEF tracker, history
    <2>1. ~Age
      BY DEF Age
    <2>2. PICK label \in Labels \cup {None} : Observe(label)
      BY <2>1 DEF TrackerNext
    <2>3. /\ Normal(label) # regime /\ Normal(label) = pending
          /\ age >= Horizon[regime] /\ regime' = pending
      BY <2>2 DEF Observe, InForce, tracker
    <2>4. pending # None
      BY <2>3, LabelAssumption DEF Normal, TrackerInv, TrackerTypeOK
    <2>5. streak' = Normal(label)
      BY <2>2 DEF Observe, Remember
    <2> QED
      BY <2>3, <2>4, <2>5 DEF TrackerInv
  <1> QED
    BY <1>1, TrackerInvariance, PTL DEF TrackerSpec, SwitchIsEarned

-----------------------------------------------------------------------------
(* The numbers of a plan.                                                  *)

(* Convictions and volatilities of any size; the provers need the names.   *)
Percents == 0..100
Volatilities == Nat

(* A floor `lock' that engages at `at' is no tighter than the trail.       *)
Loose(at, lock, trail) == (Whole + lock) * Whole <= (Whole + at) * (Whole - trail)

LEMMA QuotientBound ==
    ASSUME NEW a \in Nat, NEW b \in Nat \ {0}
    PROVE  a \div b \in Nat /\ (a \div b) * b <= a
  BY SMT

LEMMA RowNumbers ==
    ASSUME NEW r \in Regimes
    PROVE  /\ Strategy[r].allocation \in Nat /\ Strategy[r].stop \in Nat
           /\ Strategy[r].trail \in Nat /\ Strategy[r].activation \in Nat
           /\ Strategy[r].evenActivation \in Nat /\ Strategy[r].evenLock \in Nat
           /\ Strategy[r].risk \in Nat /\ Strategy[r].scale \in Nat
  <1>1. r \in {0, 1, 2, 3}
    BY DEF Regimes
  <1> QED
    BY <1>1 DEF Strategy, Row, Regimes

LEMMA ScaleNumbers ==
    ASSUME NEW p \in Postures
    PROVE  SizeScale[p] \in Nat /\ StopScale[p] \in Nat
  BY DEF SizeScale, StopScale, Postures

(* An allocation comes down until its stop loses no more than the ceiling. *)
LEMMA AllocationBound ==
    ASSUME NEW wanted, wanted \in Nat, NEW stop, stop \in Nat \ {0},
           NEW ceiling, ceiling \in Nat
    PROVE  /\ Allocation(wanted, stop, ceiling) \in Nat
           /\ Allocation(wanted, stop, ceiling) * stop <= ceiling * Whole
  <1> DEFINE lim == ceiling * Whole
             q == lim \div stop
             wide == wanted * stop
  <1>1. lim \in Nat /\ wide \in Nat
    BY DEF Whole
  <1>2. q \in Nat /\ q * stop <= lim
    BY <1>1, QuotientBound
  <1>3. Allocation(wanted, stop, ceiling) = IF wide > lim THEN Lesser(9500, q) ELSE wanted
    BY DEF Allocation
  <1>4. CASE wide > lim
    <2> HIDE DEF q, lim, wide
    <2>1. \A a \in Nat : a <= q => a * stop <= q * stop
      BY <1>2
    <2>2. Lesser(9500, q) \in Nat /\ Lesser(9500, q) <= q
      BY <1>2 DEF Lesser
    <2>3. Lesser(9500, q) * stop <= q * stop /\ Lesser(9500, q) * stop \in Int /\ q * stop \in Int
      BY <1>2, <2>1, <2>2
    <2>4. Lesser(9500, q) * stop <= lim
      BY <1>1, <1>2, <2>3
    <2> QED
      BY <1>3, <1>4, <2>2, <2>4 DEF lim
  <1>5. CASE ~(wide > lim)
    BY <1>1, <1>3, <1>5
  <1> QED
    BY <1>4, <1>5

LEMMA PlanParts ==
    ASSUME NEW r \in Regimes, NEW posture \in Postures,
           NEW conviction \in Percents, NEW vol \in Volatilities
    PROVE  /\ Between(Stop(r, posture, vol), 150, 2200) /\ Between(Trail(r, posture, vol), 100, 1800)
           /\ Between(Activation(r, vol), 100, 1800) /\ Between(Wanted(r, posture, conviction), 1000, 9500)
           /\ Between(EvenActivation(r, posture, vol), 200, 3000)
           /\ Between(EvenLock(r, posture, vol), 20, 600)
           /\ Between(RiskCeiling(r, posture), 50, 1200)
  <1>0. vol \in Nat
    BY DEF Volatilities
  <1>1. \A multiple, v : multiple \in Nat /\ v \in Nat =>
            Widened(multiple, v, posture) \in Int /\ Tenths(multiple, v) \in Int
    BY ScaleNumbers DEF Widened, Tenths
  <1>2. HorizonVol(r, vol) \in Nat
    BY RowNumbers, QuotientBound DEF HorizonVol, Volatilities
  <1>3. Between(Stop(r, posture, vol), 150, 2200)
    <2> DEFINE v == Widened(Strategy[r].stop, vol, posture)
    <2>1. v \in Int
      BY <1>0, <1>1, RowNumbers
    <2>2. Stop(r, posture, vol) = Clamp(v, 150, 2200)
      BY DEF Stop
    <2> HIDE DEF v
    <2>3. Between(Clamp(v, 150, 2200), 150, 2200)
      BY <2>1 DEF Between, Clamp, Greater, Lesser
    <2> QED
      BY <2>2, <2>3
  <1>4. Between(Trail(r, posture, vol), 100, 1800)
    <2> DEFINE v == Widened(Strategy[r].trail, HorizonVol(r, vol), posture)
    <2>1. v \in Int
      BY <1>1, <1>2, RowNumbers
    <2>2. Trail(r, posture, vol) = Clamp(v, 100, 1800)
      BY DEF Trail
    <2> HIDE DEF v
    <2>3. Between(Clamp(v, 100, 1800), 100, 1800)
      BY <2>1 DEF Between, Clamp, Greater, Lesser
    <2> QED
      BY <2>2, <2>3
  <1>5. Between(Activation(r, vol), 100, 1800)
    <2> DEFINE v == Tenths(Strategy[r].activation, HorizonVol(r, vol))
    <2>1. v \in Int
      BY <1>1, <1>2, RowNumbers
    <2>2. Activation(r, vol) = Clamp(v, 100, 1800)
      BY DEF Activation
    <2> HIDE DEF v
    <2>3. Between(Clamp(v, 100, 1800), 100, 1800)
      BY <2>1 DEF Between, Clamp, Greater, Lesser
    <2> QED
      BY <2>2, <2>3
  <1>6. Between(Wanted(r, posture, conviction), 1000, 9500)
    <2> DEFINE v == Convinced(Strategy[r].allocation, posture, conviction)
    <2> DEFINE x == Strategy[r].allocation * SizeScale[posture]
    <2>1. v \in Int
      <3>1. x \in Nat
        BY RowNumbers, ScaleNumbers
      <3>2. v = (x * (50 + conviction)) \div Whole
        BY DEF Convinced
      <3> HIDE DEF x, v
      <3>3. x * (50 + conviction) \in Nat
        BY <3>1 DEF Percents
      <3> QED
        BY <3>2, <3>3 DEF Whole
    <2>2. Wanted(r, posture, conviction) = Clamp(v, 1000, 9500)
      BY DEF Wanted
    <2> HIDE DEF v
    <2>3. Between(Clamp(v, 1000, 9500), 1000, 9500)
      BY <2>1 DEF Between, Clamp, Greater, Lesser
    <2> QED
      BY <2>2, <2>3
  <1>7. Between(EvenActivation(r, posture, vol), 200, 3000)
    <2> DEFINE v == Widened(Strategy[r].evenActivation, vol, posture)
    <2>1. v \in Int
      BY <1>0, <1>1, RowNumbers
    <2>2. EvenActivation(r, posture, vol) = Clamp(v, 200, 3000)
      BY DEF EvenActivation
    <2> HIDE DEF v
    <2>3. Between(Clamp(v, 200, 3000), 200, 3000)
      BY <2>1 DEF Between, Clamp, Greater, Lesser
    <2> QED
      BY <2>2, <2>3
  <1>8. Between(EvenLock(r, posture, vol), 20, 600)
    <2> DEFINE v == Widened(Strategy[r].evenLock, vol, posture)
    <2>1. v \in Int
      BY <1>0, <1>1, RowNumbers
    <2>2. EvenLock(r, posture, vol) = Clamp(v, 20, 600)
      BY DEF EvenLock
    <2> HIDE DEF v
    <2>3. Between(Clamp(v, 20, 600), 20, 600)
      BY <2>1 DEF Between, Clamp, Greater, Lesser
    <2> QED
      BY <2>2, <2>3
  <1>9. Between(RiskCeiling(r, posture), 50, 1200)
    <2> DEFINE v == Sized(Strategy[r].risk, posture)
    <2>1. v \in Int
      BY RowNumbers, ScaleNumbers DEF Sized
    <2>2. RiskCeiling(r, posture) = Clamp(v, 50, 1200)
      BY DEF RiskCeiling
    <2> HIDE DEF v
    <2>3. Between(Clamp(v, 50, 1200), 50, 1200)
      BY <2>1 DEF Between, Clamp, Greater, Lesser
    <2> QED
      BY <2>2, <2>3
  <1> QED
    BY <1>3, <1>4, <1>5, <1>6, <1>7, <1>8, <1>9

(* The break-even ratchet is never tighter than the trail it engages under. *)
LEMMA RatchetBound ==
    ASSUME NEW a, Between(a, 200, 3000), NEW lock, Between(lock, 20, 600),
           NEW trail, Between(trail, 100, 1800), NEW k, k = Ratchet(a, lock, trail)
    PROVE  /\ Between(k.at, 0, 3000) /\ Between(k.lock, 0, 3000)
           /\ Loose(k.at, k.lock, trail)
  <1> DEFINE prod == (Whole + a) * (Whole - trail)
             f == FloorCeiling(a, trail)
  <1>0. /\ a \in Nat /\ a <= 3000 /\ lock \in Nat /\ 20 <= lock /\ lock <= 600
        /\ trail \in Nat /\ trail <= 1800
    BY DEF Between
  <1>1. prod \in Nat
    <2> DEFINE x == Whole + a
               y == Whole - trail
    <2>1. x \in Nat /\ y \in Nat
      BY <1>0 DEF Whole
    <2> HIDE DEF x, y
    <2>2. x * y \in Nat
      BY <2>1
    <2> QED
      BY <2>2 DEF x, y
  <1>2. f \in Int /\ (Whole + f) * Whole <= prod
    <2> HIDE DEF prod
    <2>1. (prod \div Whole) * Whole <= prod /\ prod \div Whole \in Nat
      BY <1>1 DEF Whole
    <2>2. f = prod \div Whole - Whole
      BY DEF FloorCeiling, prod
    <2> HIDE DEF f
    <2> QED
      BY <2>1, <2>2 DEF Whole
  <1> HIDE DEF f
  <1>3. k = IF f < 20 THEN [at |-> 3000, lock |-> 20]
                ELSE [at |-> a, lock |-> Lesser(lock, f)]
    BY DEF Ratchet, f
  <1> HIDE DEF prod
  <1>4. CASE f < 20
    <2>1. k.at = 3000 /\ k.lock = 20
      BY <1>3, <1>4
    <2> QED
      BY <1>0, <2>1 DEF Between, Loose, Whole
  <1>5. CASE ~(f < 20)
    <2>1. k.at = a /\ k.lock = Lesser(lock, f)
      BY <1>3, <1>5
    <2>2. k.lock \in Int /\ 20 <= k.lock /\ k.lock <= 600 /\ k.lock <= f
      BY <1>0, <1>2, <1>5, <2>1 DEF Lesser
    <2>3. (Whole + k.lock) * Whole <= prod
      BY <1>1, <1>2, <2>2 DEF Whole
    <2>4. Loose(k.at, k.lock, trail)
      BY <2>1, <2>3 DEF Loose, prod
    <2> QED
      BY <1>0, <2>1, <2>2, <2>4 DEF Between
  <1> QED
    BY <1>4, <1>5

(* Whatever the verdict and the volatility: the numbers of a plan are in   *)
(* range, what its position would lose at its stop is within what its      *)
(* regime permits in its posture, and its ratchet is no tighter than its   *)
(* trail.                                                                  *)
THEOREM PlanWithinBudget ==
    ASSUME NEW r \in Regimes, NEW posture \in Postures,
           NEW conviction \in Percents, NEW vol \in Volatilities,
           NEW p, p = Plan(r, posture, conviction, vol)
    PROVE  /\ InRange(p)
           /\ p.allocation * p.stop <= p.ceiling * Whole
           /\ Loose(p.evenActivation, p.evenLock, p.trail)
  <1> DEFINE stop    == Stop(r, posture, vol)
             trail   == Trail(r, posture, vol)
             ceiling == RiskCeiling(r, posture)
             wanted  == Wanted(r, posture, conviction)
             share   == Allocation(wanted, stop, ceiling)
             at      == EvenActivation(r, posture, vol)
             lock    == EvenLock(r, posture, vol)
             ratchet == Ratchet(at, lock, trail)
             active  == Activation(r, vol)
             risk    == Loss(ceiling, share, stop)
  <1>1. p = [ceiling |-> ceiling, allocation |-> share, stop |-> stop, trail |-> trail,
             activation |-> active, evenActivation |-> ratchet.at, evenLock |-> ratchet.lock,
             risk |-> risk]
    BY DEF Plan
  <1>2. /\ Between(stop, 150, 2200) /\ Between(trail, 100, 1800)
        /\ Between(active, 100, 1800) /\ Between(wanted, 1000, 9500)
        /\ Between(at, 200, 3000) /\ Between(lock, 20, 600) /\ Between(ceiling, 50, 1200)
    BY PlanParts
  <1> HIDE DEF stop, trail, ceiling, active, wanted, at, lock
  <1>3. share \in Nat /\ share * stop <= ceiling * Whole
    <2>1. wanted \in Nat /\ stop \in Nat \ {0} /\ ceiling \in Nat
      BY <1>2 DEF Between
    <2> QED
      BY <2>1, AllocationBound
  <1>4. /\ Between(ratchet.at, 0, 3000) /\ Between(ratchet.lock, 0, 3000)
        /\ Loose(ratchet.at, ratchet.lock, trail)
    BY <1>2, RatchetBound
  <1>5. risk \in Nat
    <2> DEFINE product == share * stop
    <2> HIDE DEF share
    <2>1. product \in Int /\ ceiling \in Int
      BY <1>2, <1>3 DEF Between
    <2>2. risk = Clamp(Lesser(ceiling * Whole, product), 500000, 12000000)
      BY DEF Loss
    <2> HIDE DEF product, risk
    <2> QED
      BY <2>1, <2>2 DEF Clamp, Greater, Lesser, Whole
  <1> HIDE DEF share, ratchet, risk
  <1>6. /\ p.ceiling = ceiling /\ p.allocation = share /\ p.stop = stop /\ p.trail = trail
        /\ p.activation = active /\ p.evenActivation = ratchet.at /\ p.evenLock = ratchet.lock
        /\ p.risk = risk
    BY <1>1
  <1>7. InRange(p)
    <2>1. Between(p.stop, 150, 2200) /\ Between(p.trail, 100, 1800)
      BY <1>2, <1>6
    <2>2. Between(p.activation, 0, 3000)
      BY <1>2, <1>6 DEF Between
    <2>3. Between(p.evenActivation, 0, 3000) /\ Between(p.evenLock, 0, 3000)
      BY <1>4, <1>6
    <2>4. p.risk \in Nat /\ p.allocation \in Nat
      BY <1>3, <1>5, <1>6
    <2> QED
      BY <2>1, <2>2, <2>3, <2>4 DEF InRange
  <1> QED
    BY <1>3, <1>4, <1>6, <1>7

-----------------------------------------------------------------------------
(* The position.                                                           *)

(* Scaling and rounding down keep the order of two numbers.                *)
LEMMA ScaledInOrder ==
    ASSUME NEW a, a \in Nat, NEW b, b \in Nat, a <= b, NEW c, c \in Nat
    PROVE  (a * 100 * c) \div Whole <= (b * 100 * c) \div Whole
  <1> DEFINE x == a * c
             y == b * c
             d == b - a
  <1>1. d \in Nat /\ b = a + d
    OBVIOUS
  <1> HIDE DEF d
  <1>2. x \in Nat /\ d * c \in Nat /\ y = x + d * c
    BY <1>1
  <1>3. a * 100 * c = x * 100 /\ b * 100 * c = y * 100
    BY <1>1
  <1> HIDE DEF x, y
  <1>4. y \in Nat /\ x <= y
    <2> DEFINE z == d * c
    <2> HIDE DEF z
    <2>1. z \in Nat /\ y = x + z
      BY <1>2 DEF z
    <2> QED
      BY <1>2, <2>1
  <1>5. (x * 100) \div Whole <= (y * 100) \div Whole
    BY <1>2, <1>4 DEF Whole
  <1> QED
    BY <1>3, <1>5

LEMMA WholeInOrder ==
    ASSUME NEW a, a \in Nat, NEW b, b \in Nat, a <= b
    PROVE  a * Whole \in Int /\ b * Whole \in Int /\ a * Whole <= b * Whole
  BY DEF Whole

(* With cost and plan standing, the stop follows the high watermark up.    *)
LEMMA StopFollowsHigh ==
    ASSUME entry \in Nat, high \in Nat, high' \in Nat, InRange(plan),
           entry' = entry, plan' = plan, high <= high'
    PROVE  ActiveStop' >= ActiveStop
  <1> DEFINE initial  == (entry * (Whole - plan.stop)) \div Whole
             locked   == (entry * (Whole + plan.evenLock)) \div Whole
             evenAt   == (entry \div 100) * (Whole + plan.evenActivation)
             trailAt  == (entry \div 100) * (Whole + plan.activation)
             trail(h) == (h * 100 * (Whole - plan.trail)) \div Whole
             floor(h) == IF h * Whole >= evenAt /\ EvenIsEconomic
                         THEN Greater(initial, locked) ELSE initial
             stop(h)  == IF h * Whole < trailAt THEN floor(h)
                         ELSE Greater(floor(h), trail(h))
  <1>1. ActiveStop = stop(high)
    BY DEF ActiveStop
  <1>2. ActiveStop' = stop(high')
    BY DEF ActiveStop, EvenIsEconomic
  <1>3. initial \in Int /\ locked \in Int /\ evenAt \in Int /\ trailAt \in Int
    <2>1. /\ plan.stop \in Int /\ plan.evenLock \in Int
          /\ plan.evenActivation \in Int /\ plan.activation \in Int
      BY DEF InRange, Between
    <2>2. entry \div 100 \in Int
      OBVIOUS
    <2>3. entry * (Whole - plan.stop) \in Int /\ entry * (Whole + plan.evenLock) \in Int
      BY <2>1 DEF Whole
    <2> QED
      BY <2>1, <2>2, <2>3 DEF Whole
  <1>4. trail(high) \in Int /\ trail(high') \in Int /\ trail(high) <= trail(high')
    <2> DEFINE c == Whole - plan.trail
    <2>1. c \in Nat
      BY DEF InRange, Between, Whole
    <2> HIDE DEF c
    <2>2. (high * 100 * c) \div Whole <= (high' * 100 * c) \div Whole
      BY <2>1, ScaledInOrder
    <2>3. (high * 100 * c) \in Int /\ (high' * 100 * c) \in Int
      BY <2>1
    <2> QED
      BY <2>2, <2>3 DEF c, Whole
  <1> DEFINE raised == Greater(initial, locked)
  <1>5. raised \in Int /\ initial <= raised
    <2> HIDE DEF initial, locked
    <2> QED
      BY <1>3 DEF Greater
  <1>6. high * Whole \in Int /\ high' * Whole \in Int /\ high * Whole <= high' * Whole
    BY WholeInOrder
  <1> DEFINE x == high * Whole
             y == high' * Whole
  <1> HIDE DEF initial, locked, evenAt, trailAt, trail, raised, x, y
  <1>7. floor(high) \in Int /\ floor(high') \in Int /\ floor(high) <= floor(high')
    <2>1. floor(high) = IF x >= evenAt /\ EvenIsEconomic THEN raised ELSE initial
      BY DEF x, raised
    <2>2. floor(high') = IF y >= evenAt /\ EvenIsEconomic THEN raised ELSE initial
      BY DEF y, raised
    <2>3. x \in Int /\ y \in Int /\ x <= y
      BY <1>6 DEF x, y
    <2> HIDE DEF floor
    <2> QED
      BY <1>3, <1>5, <2>1, <2>2, <2>3
  <1>8. stop(high) = IF x < trailAt THEN floor(high) ELSE Greater(floor(high), trail(high))
    BY DEF x
  <1>9. stop(high') = IF y < trailAt THEN floor(high') ELSE Greater(floor(high'), trail(high'))
    BY DEF y
  <1> HIDE DEF stop, floor
  <1> QED
    <2>1. x \in Int /\ y \in Int /\ x <= y
      BY <1>6 DEF x, y
    <2>2. stop(high') >= stop(high)
      BY <1>3, <1>4, <1>7, <1>8, <1>9, <2>1 DEF Greater
    <2> QED
      BY <1>1, <1>2, <2>2

LEMMA DefaultInRange == InRange(DefaultPlan)
  BY DEF InRange, Between, DefaultPlan

(* A target is a share of the equity.                                      *)
LEMMA CappedIsShare ==
    ASSUME NEW t, t \in Int, NEW p, InRange(p)
    PROVE  Between(Capped(t, p), 0, Whole)
  <1> DEFINE limit == p.risk \div p.stop
             v == Lesser(t, limit)
  <1>1. limit \in Int
    <2>1. p.risk \in Nat /\ p.stop \in Nat \ {0}
      BY DEF InRange, Between
    <2> QED
      BY <2>1, QuotientBound
  <1> HIDE DEF limit
  <1>2. v \in Int
    BY <1>1 DEF Lesser
  <1>3. Capped(t, p) = Clamp(v, 0, Whole)
    BY DEF Capped, limit
  <1> HIDE DEF v
  <1>4. Between(Clamp(v, 0, Whole), 0, Whole)
    BY <1>2 DEF Between, Clamp, Greater, Lesser, Whole
  <1> QED
    BY <1>3, <1>4

LEMMA BlendIsNumber ==
    ASSUME NEW r, NEW wants \in BOOLEAN, NEW conviction \in Percents,
           NEW share, share \in Nat
    PROVE  Blend(r, wants, conviction, share) \in Int
  <1> DEFINE weight == Clamp(2 * (conviction - 50), 0, 100)
  <1>1. weight \in Int
    <2>1. conviction \in Int
      BY DEF Percents
    <2> QED
      BY <2>1 DEF Clamp, Greater, Lesser
  <1>2. Blend(r, wants, conviction, share) =
            IF wants = Strategy[r].invested THEN (IF wants THEN share ELSE 0)
            ELSE (share * (IF wants THEN weight ELSE 100 - weight)) \div 100
    BY DEF Blend
  <1> HIDE DEF weight
  <1>3. share * weight \in Int /\ share * (100 - weight) \in Int
    BY <1>1
  <1>4. \A x : x \in Int => x \div 100 \in Int
    OBVIOUS
  <1> QED
    BY <1>2, <1>3, <1>4

(* What a verdict can ask for is a share of equity, under a plan in range. *)
LEMMA AimsInRange ==
    ASSUME NEW r \in Labels, NEW aim \in Aims[r]
    PROVE  InRange(aim.plan) /\ Between(aim.target, 0, Whole)
  <1>1. PICK wants \in BOOLEAN, posture \in Choices, conviction \in Convictions, vol \in Vols :
            /\ aim.plan = Plan(r, posture, conviction, vol)
            /\ aim.target = Capped(Blend(r, wants, conviction, aim.plan.allocation), aim.plan)
    BY DEF Aims
  <1>2. /\ r \in Regimes /\ posture \in Postures
        /\ conviction \in Percents /\ vol \in Volatilities
    BY RegimesAssumption, VerdictAssumption DEF Percents, Volatilities
  <1>3. InRange(aim.plan)
    BY <1>1, <1>2, PlanWithinBudget
  <1>4. aim.plan.allocation \in Nat
    BY <1>3 DEF InRange
  <1>5. Blend(r, wants, conviction, aim.plan.allocation) \in Int
    BY <1>2, <1>4, BlendIsNumber
  <1> QED
    BY <1>1, <1>3, <1>5, CappedIsShare

LEMMA QuotientAtLeastOne ==
    ASSUME NEW a \in Nat, NEW b \in Nat \ {0}, b <= a
    PROVE  a \div b >= 1
  BY SMT

(* Values are whole, and the smallest order buys something.                *)
LEMMA MoneyIsWhole ==
    ASSUME TypeOK
    PROVE  /\ price \in Nat \ {0} /\ Equity \in Nat
           /\ \A q : q \in Nat => Value(q) \in Nat
           /\ \A t : t \in Int => Gap(t) \in Int
           /\ \A quote : quote \in Nat /\ quote >= MinNotional =>
                  (quote * 100) \div price \in Nat /\ (quote * 100) \div price >= 1
  <1>1. price \in Nat \ {0} /\ price <= 1000
    BY MoneyAssumption DEF TypeOK
  <1>2. \A q : q \in Nat => Value(q) \in Nat
    <2> SUFFICES ASSUME NEW q, q \in Nat PROVE (q * price) \div 100 \in Nat
      BY DEF Value
    <2> DEFINE x == q * price
    <2>1. x \in Nat
      BY <1>1
    <2> HIDE DEF x
    <2>2. x \div 100 \in Nat
      BY <2>1
    <2> QED
      BY <2>2 DEF x
  <1>3. Equity \in Nat
    <2>1. cash \in Nat /\ Value(qty) \in Nat
      BY <1>2 DEF TypeOK
    <2> QED
      BY <2>1 DEF Equity
  <1>4. \A t : t \in Int => Gap(t) \in Int
    <2> SUFFICES ASSUME NEW t, t \in Int PROVE (t * Equity) \div Whole - Value(qty) \in Int
      BY DEF Gap
    <2> DEFINE x == t * Equity
               worth == Value(qty)
    <2>1. x \in Int /\ worth \in Int
      BY <1>2, <1>3 DEF TypeOK
    <2> HIDE DEF x, worth
    <2>2. x \div Whole - worth \in Int
      BY <2>1 DEF Whole
    <2> QED
      BY <2>2 DEF x, worth
  <1>5. \A quote : quote \in Nat /\ quote >= MinNotional =>
            (quote * 100) \div price \in Nat /\ (quote * 100) \div price >= 1
    <2> SUFFICES ASSUME NEW quote, quote \in Nat, quote >= MinNotional
                 PROVE  (quote * 100) \div price \in Nat /\ (quote * 100) \div price >= 1
      OBVIOUS
    <2>1. quote * 100 \in Nat /\ price <= quote * 100
      BY <1>1 DEF MinNotional
    <2> QED
      BY <1>1, <2>1, QuotientBound, QuotientAtLeastOne
  <1> QED
    BY <1>1, <1>2, <1>3, <1>4, <1>5

(* The average cost of a position is a price.                              *)
LEMMA AverageIsWhole ==
    ASSUME NEW a, a \in Nat, NEW q, q \in Nat, NEW v, v \in Nat, NEW n, n \in Nat, n >= 1
    PROVE  (a * q + v * 100 * n) \div (q + n) \in Nat
  <1>1. a * q \in Nat /\ v * 100 * n \in Nat
    OBVIOUS
  <1>2. a * q + v * 100 * n \in Nat
    BY <1>1
  <1>3. q + n \in Nat \ {0}
    OBVIOUS
  <1> QED
    BY <1>2, <1>3, QuotientBound

LEMMA BuyKeepsBook ==
    ASSUME PositionInv, NEW p, InRange(p), NEW quote, quote \in Nat,
           MinNotional <= quote, quote <= cash, trades < MaxTrades, Buy(quote, p)
    PROVE  /\ cash' \in Nat /\ qty' \in Nat /\ qty' > qty
           /\ entry' \in Nat /\ high' \in Nat /\ trades' \in 0..MaxTrades
           /\ InRange(plan')
  <1> DEFINE base == (quote * 100) \div price
  <1>1. /\ price \in Nat /\ cash \in Nat /\ qty \in Nat /\ entry \in Nat /\ high \in Nat
        /\ trades \in 0..MaxTrades /\ InRange(plan)
    BY MoneyIsWhole DEF PositionInv, TypeOK
  <1>2. base \in Nat /\ base >= 1
    BY MoneyIsWhole DEF PositionInv
  <1>3. (entry * qty + price * 100 * base) \div (qty + base) \in Nat
    <2> HIDE DEF base
    <2> QED
      BY <1>1, <1>2, AverageIsWhole
  <1>4. cash' = cash - quote /\ qty' = qty + base /\ trades' = trades + 1
    BY DEF Buy, Filled
  <1>5. entry' \in {(entry * qty + price * 100 * base) \div (qty + base), price * 100}
    BY DEF Buy
  <1>6. high' \in {Greater(high, price), price} /\ plan' \in {plan, p}
    BY DEF Buy
  <1> HIDE DEF base
  <1>7. cash' \in Nat /\ qty' \in Nat /\ qty' > qty
    BY <1>1, <1>2, <1>4
  <1>8. trades' \in 0..MaxTrades
    BY <1>1, <1>4, MoneyAssumption
  <1>9. entry' \in Nat
    BY <1>1, <1>3, <1>5
  <1>10. high' \in Nat
    BY <1>1, <1>6 DEF Greater
  <1> QED
    BY <1>1, <1>6, <1>7, <1>8, <1>9, <1>10

LEMMA SellKeepsBook ==
    ASSUME PositionInv, NEW base, base \in Nat, base <= qty, trades < MaxTrades, Sell(base)
    PROVE  /\ cash' \in Nat /\ qty' \in Nat
           /\ entry' \in Nat /\ high' \in Nat /\ trades' \in 0..MaxTrades
           /\ InRange(plan')
  <1>1. /\ cash \in Nat /\ qty \in Nat /\ entry \in Nat /\ high \in Nat
        /\ trades \in 0..MaxTrades /\ InRange(plan)
    BY DEF PositionInv, TypeOK
  <1>2. Value(base) \in Nat
    BY MoneyIsWhole DEF PositionInv
  <1>3. cash' = cash + Value(base) /\ qty' = qty - base /\ trades' = trades + 1
    BY DEF Sell, Filled
  <1>4. entry' \in {entry, 0} /\ high' \in {high, 0} /\ plan' \in {plan, DefaultPlan}
    BY DEF Sell, Forget
  <1>5. cash' \in Nat /\ qty' \in Nat
    BY <1>1, <1>2, <1>3
  <1>6. trades' \in 0..MaxTrades
    BY <1>1, <1>3, MoneyAssumption
  <1> QED
    BY <1>1, <1>4, <1>5, <1>6, DefaultInRange

LEMMA InvOfParts ==
    ASSUME TrackerInv', price' \in Prices, cash' \in Nat, qty' \in Nat, entry' \in Nat,
           high' \in Nat, trades' \in 0..MaxTrades, InRange(plan'),
           dec'.kind \in {"none", "buy", "sell"},
           dec'.kind # "none" => Between(dec'.target, 0, Whole) /\ trades' < MaxTrades,
           dec'.kind = "buy" => InRange(dec'.plan)
    PROVE  PositionInv'
  <1>1. TrackerTypeOK'
    BY DEF TrackerInv
  <1>2. TypeOK'
    BY <1>1 DEF TypeOK
  <1> QED
    BY <1>2 DEF PositionInv

LEMMA UntouchedTracker ==
    ASSUME TrackerInv, UNCHANGED <<tracker, history>>
    PROVE  TrackerInv'
  BY DEF tracker, history, TrackerInv, TrackerTypeOK

LEMMA DecideKeepsInv == ASSUME PositionInv, Decide PROVE PositionInv'
  <1>1. PICK label \in Seen : Observe(label)
    BY DEF Decide
  <1>2. label \in Labels
    <2>1. label \in Regimes
      BY RegimesAssumption DEF Seen, Corroborated, Regimes
    <2> QED
      BY <2>1, RegimesAssumption
  <1>3. TrackerInv'
    BY <1>1, <1>2, ObserveKeepsInv DEF PositionInv
  <1>4. regime' \in Labels
    BY <1>3 DEF TrackerInv, TrackerTypeOK
  <1>5. PICK aim \in Aims[regime'] :
            \/ dec' = Decided(aim.target, "buy", IF Long THEN DefaultPlan ELSE aim.plan)
            \/ dec' = Decided(aim.target, "sell", DefaultPlan)
            \/ UNCHANGED dec
    BY DEF Decide
  <1>6. InRange(aim.plan) /\ Between(aim.target, 0, Whole)
    BY <1>4, AimsInRange
  <1>7. /\ dec'.kind \in {"none", "buy", "sell"}
        /\ dec'.kind # "none" => Between(dec'.target, 0, Whole)
        /\ dec'.kind = "buy" => InRange(dec'.plan)
    <2>1. CASE dec' = Decided(aim.target, "buy", IF Long THEN DefaultPlan ELSE aim.plan)
      BY <1>6, <2>1, DefaultInRange DEF Decided
    <2>2. CASE dec' = Decided(aim.target, "sell", DefaultPlan)
      BY <1>6, <2>2 DEF Decided
    <2>3. CASE UNCHANGED dec
      BY <2>3 DEF PositionInv, TypeOK
    <2> QED
      BY <1>5, <2>1, <2>2, <2>3
  <1>8. UNCHANGED <<price, cash, qty, entry, high, plan, trades>> /\ trades < MaxTrades
    BY DEF Decide, book
  <1> QED
    <2>1. /\ price' \in Prices /\ cash' \in Nat /\ qty' \in Nat /\ entry' \in Nat
          /\ high' \in Nat /\ trades' \in 0..MaxTrades /\ trades' < MaxTrades
          /\ InRange(plan')
      BY <1>8 DEF PositionInv, TypeOK
    <2> QED
      BY <1>3, <1>7, <2>1, InvOfParts

(* What an order buys it can pay, and what it sells it has.                *)
LEMMA OrderIsCovered ==
    ASSUME TypeOK, NEW t, t \in Int
    PROVE  /\ Buys(t) => /\ Quote(t) \in Nat /\ Quote(t) <= cash
                         /\ MinNotional <= Quote(t)
           /\ Sells(t) => Excess(t) \in Nat /\ Excess(t) <= qty
  <1>1. Gap(t) \in Int /\ cash \in Nat /\ qty \in Nat /\ price \in Nat \ {0}
    BY MoneyIsWhole DEF TypeOK
  <1>2. ASSUME Buys(t)
        PROVE  Quote(t) \in Nat /\ Quote(t) <= cash /\ MinNotional <= Quote(t)
    <2>1. Gap(t) > 0 /\ Quote(t) >= MinNotional
      BY <1>2 DEF Buys
    <2> QED
      BY <1>1, <2>1 DEF Quote, Lesser, MinNotional
  <1>3. ASSUME Sells(t)
        PROVE  Excess(t) \in Nat /\ Excess(t) <= qty
    <2> DEFINE x == -Gap(t) * 100
               v == x \div price
    <2>1. Gap(t) <= 0
      BY <1>3 DEF Sells
    <2>2. x \in Nat
      BY <1>1, <2>1
    <2> HIDE DEF x
    <2>3. v \in Nat
      BY <1>1, <2>2, QuotientBound
    <2>4. Excess(t) = Lesser(v, qty)
      BY DEF Excess, x
    <2> HIDE DEF v
    <2> QED
      BY <1>1, <2>3, <2>4 DEF Lesser
  <1> QED
    BY <1>2, <1>3

LEMMA TargetIsNumber ==
    ASSUME PositionInv, dec.kind \in {"buy", "sell"}
    PROVE  Target \in Int
  <1>1. Between(dec.target, 0, Whole)
    BY DEF PositionInv, TypeOK
  <1>2. InRange(Sizing)
    BY DEF PositionInv, Sizing
  <1>3. Between(Capped(dec.target, Sizing), 0, Whole)
    BY <1>1, <1>2, CappedIsShare DEF Between
  <1> QED
    BY <1>3 DEF Target, Between

(* An order either buys what the cash pays, or sells part of the position. *)
LEMMA ExecutesCases ==
    ASSUME PositionInv, Executes
    PROVE  /\ trades < MaxTrades
           /\ \/ \E quote : /\ quote \in Nat /\ MinNotional <= quote /\ quote <= cash
                            /\ InRange(dec.plan) /\ Buy(quote, dec.plan)
              \/ \E base : base \in Nat /\ base <= qty /\ Sell(base)
  <1>1. dec.kind \in {"buy", "sell"}
    BY DEF Executes
  <1>2. TypeOK /\ trades < MaxTrades /\ qty \in Nat
    BY <1>1 DEF PositionInv, TypeOK
  <1>3. Target \in Int
    BY <1>1, TargetIsNumber
  <1>4. CASE dec.kind = "buy" /\ Buys(Target) /\ Buy(Quote(Target), dec.plan)
    BY <1>2, <1>3, <1>4, OrderIsCovered DEF PositionInv
  <1>5. CASE Sell(qty)
    <2>1. qty <= qty
      BY <1>2
    <2> QED
      BY <1>2, <1>5, <2>1
  <1>6. CASE Sells(Target) /\ Sell(Excess(Target))
    BY <1>2, <1>3, <1>6, OrderIsCovered
  <1> QED
    BY <1>4, <1>5, <1>6 DEF Executes

LEMMA ExecutesKeepsInv == ASSUME PositionInv, Executes PROVE PositionInv'
  <1>1. trades < MaxTrades
    BY ExecutesCases
  <1>2. /\ cash' \in Nat /\ qty' \in Nat /\ entry' \in Nat /\ high' \in Nat
        /\ trades' \in 0..MaxTrades /\ InRange(plan')
    <2>1. CASE \E quote : /\ quote \in Nat /\ MinNotional <= quote /\ quote <= cash
                          /\ InRange(dec.plan) /\ Buy(quote, dec.plan)
      BY <1>1, <2>1, BuyKeepsBook
    <2>2. CASE \E base : base \in Nat /\ base <= qty /\ Sell(base)
      BY <1>1, <2>2, SellKeepsBook
    <2> QED
      BY <2>1, <2>2, ExecutesCases
  <1>3. dec'.kind = "none" /\ price' \in Prices
    BY DEF Executes, NoDecision, PositionInv, TypeOK
  <1>4. TrackerInv'
    BY UntouchedTracker DEF Executes, PositionInv
  <1> QED
    BY <1>2, <1>3, <1>4, InvOfParts

LEMMA DeclinedKeepsInv == ASSUME PositionInv, Declined PROVE PositionInv'
  <1>1. UNCHANGED <<price, cash, qty, entry, high, plan, trades>> /\ dec'.kind = "none"
    BY DEF Declined, book, NoDecision
  <1>2. TrackerInv'
    BY UntouchedTracker DEF Declined, PositionInv
  <1> QED
    BY <1>1, <1>2, InvOfParts DEF PositionInv, TypeOK

LEMMA TimeKeepsInv == ASSUME PositionInv, TimePasses PROVE PositionInv'
  <1>1. UNCHANGED <<price, cash, qty, entry, high, plan, trades, dec>>
    BY DEF TimePasses, book
  <1>2. TrackerInv'
    BY AgeKeepsInv DEF TimePasses, PositionInv
  <1> QED
    BY <1>1, <1>2, InvOfParts DEF PositionInv, TypeOK

LEMMA PriceKeepsInv ==
    ASSUME PositionInv, NEW p \in Prices, PriceMoves(p) PROVE PositionInv'
  <1>1. /\ p \in Nat /\ cash \in Nat /\ qty \in Nat /\ entry \in Nat /\ high \in Nat
        /\ InRange(plan)
    BY MoneyAssumption DEF PositionInv, TypeOK
  <1>2. price' = p /\ UNCHANGED <<trades, dec>>
    BY DEF PriceMoves
  <1>3. cash' \in {cash, cash + (qty * p) \div 100} /\ qty' \in {qty, 0}
    BY DEF PriceMoves
  <1>4. /\ entry' \in {entry, p * 100, 0} /\ high' \in {Greater(high, p), 0}
        /\ plan' \in {plan, DefaultPlan}
    BY DEF PriceMoves, Forget
  <1>5. cash' \in Nat /\ qty' \in Nat
    <2> DEFINE x == qty * p
    <2>1. x \in Nat
      BY <1>1
    <2> HIDE DEF x
    <2>2. x \div 100 \in Nat
      BY <2>1
    <2>3. (qty * p) \div 100 \in Nat
      BY <2>2 DEF x
    <2> QED
      BY <1>1, <1>3, <2>3
  <1>6. entry' \in Nat /\ high' \in Nat
    BY <1>1, <1>4 DEF Greater
  <1>7. InRange(plan')
    BY <1>1, <1>4, DefaultInRange
  <1>8. TrackerInv'
    BY UntouchedTracker DEF PriceMoves, PositionInv
  <1> QED
    BY <1>2, <1>5, <1>6, <1>7, <1>8, InvOfParts DEF PositionInv, TypeOK

(* Whatever verdicts, prices and orders come: the numbers of the position  *)
(* stay whole and those of every plan in use stay in range.                *)
THEOREM PositionInvariance == Spec => []PositionInv
  <1>1. Init => PositionInv
    <2> SUFFICES ASSUME Init PROVE PositionInv
      OBVIOUS
    <2>1. TrackerInv
      BY TrackerStartsTrue DEF Init
    <2>2. TypeOK
      BY <2>1, MoneyAssumption DEF Init, NoDecision, TypeOK, TrackerInv
    <2> QED
      BY <2>1, <2>2, DefaultInRange DEF Init, NoDecision, PositionInv
  <1>2. PositionInv /\ [Next]_vars => PositionInv'
    <2> SUFFICES ASSUME PositionInv, [Next]_vars PROVE PositionInv'
      OBVIOUS
    <2>1. CASE Next
      BY <2>1, DecideKeepsInv, ExecutesKeepsInv, DeclinedKeepsInv, TimeKeepsInv,
         PriceKeepsInv DEF Next
    <2>2. CASE UNCHANGED vars
      <3>1. UNCHANGED <<price, cash, qty, entry, high, plan, trades, dec>>
        BY <2>2 DEF vars, book
      <3>2. TrackerInv'
        BY <2>2, UntouchedTracker DEF vars, PositionInv
      <3> QED
        BY <3>1, <3>2, InvOfParts DEF PositionInv, TypeOK
    <2> QED
      BY <2>1, <2>2
  <1> QED
    BY <1>1, <1>2, PTL DEF Spec

(* A stop that was raised stays raised: while nothing is bought, no step   *)
(* of a position that is held before and after lowers its stop.            *)
THEOREM StopRises == Spec => StopOnlyRises
  <1>1. ASSUME PositionInv, Next, Held, qty' <= qty
        PROVE  ActiveStop' >= ActiveStop
    <2>1. entry \in Nat /\ high \in Nat /\ qty \in Nat /\ InRange(plan)
      BY <1>1 DEF PositionInv, TypeOK
    <2>2. /\ entry' = entry /\ plan' = plan
          /\ high' \in Nat /\ high <= high'
      <3>1. CASE Decide \/ Declined \/ TimePasses
        BY <2>1, <3>1 DEF Decide, Declined, TimePasses, book
      <3>2. CASE Executes
        <4>1. ASSUME NEW quote, quote \in Nat, MinNotional <= quote, quote <= cash,
                     InRange(dec.plan), Buy(quote, dec.plan)
              PROVE  FALSE
          <5>1. qty' \in Nat /\ qty' > qty
            BY <1>1, <3>2, <4>1, BuyKeepsBook, ExecutesCases
          <5> QED
            BY <1>1, <2>1, <5>1
        <4>2. PICK base : Sell(base)
          BY <1>1, <3>2, <4>1, ExecutesCases
        <4>3. UNCHANGED <<entry, high, plan>>
          BY <1>1, <4>2 DEF Sell, Forget, Held
        <4> QED
          BY <2>1, <4>3
      <3>3. ASSUME NEW p \in Prices, PriceMoves(p)
            PROVE  entry' = entry /\ plan' = plan /\ high' \in Nat /\ high <= high'
        <4>1. entry' = entry /\ plan' = plan /\ high' = Greater(high, p)
          BY <1>1, <3>3 DEF PriceMoves, Forget, Held
        <4>2. p \in Nat
          BY MoneyAssumption
        <4> QED
          BY <2>1, <4>1, <4>2 DEF Greater
      <3> QED
        BY <1>1, <3>1, <3>2, <3>3 DEF Next
    <2> QED
      BY <2>1, <2>2, StopFollowsHigh
  <1> DEFINE Rises == Held /\ qty' <= qty => ActiveStop' >= ActiveStop
  <1>2. PositionInv /\ [Next]_vars => [Rises]_vars
    BY <1>1
  <1> QED
    BY <1>2, PositionInvariance, PTL DEF Spec, StopOnlyRises

-----------------------------------------------------------------------------
(* The budget of an opening.                                               *)

LEMMA ProductInOrder ==
    ASSUME NEW a, a \in Int, NEW b, b \in Int, a <= b, NEW c, c \in Nat
    PROVE  a * c \in Int /\ b * c \in Int /\ a * c <= b * c
  <1>1. a * c \in Int /\ b * c \in Int
    OBVIOUS
  <1> DEFINE d == b - a
  <1>2. d \in Nat /\ b = a + d
    OBVIOUS
  <1> HIDE DEF d
  <1>3. d * c \in Nat /\ b * c = a * c + d * c
    BY <1>2
  <1> QED
    BY <1>1, <1>3

(* What rounding down leaves out is less than one.                         *)
LEMMA HundredthBound ==
    ASSUME NEW a, a \in Nat
    PROVE  a \div 100 \in Nat /\ (a \div 100) * 100 <= a /\ a <= (a \div 100) * 100 + 99
  OBVIOUS

LEMMA WholeBound ==
    ASSUME NEW a, a \in Nat
    PROVE  /\ a \div Whole \in Nat /\ (a \div Whole) * Whole <= a
           /\ a <= (a \div Whole) * Whole + (Whole - 1)
  BY DEF Whole

(* A capped target risks to its stop no more than its plan does.           *)
LEMMA CappedRisk ==
    ASSUME NEW t, t \in Int, NEW p, InRange(p)
    PROVE  Capped(t, p) \in Nat /\ Capped(t, p) * p.stop <= p.risk
  <1> DEFINE limit == p.risk \div p.stop
             v == Capped(t, p)
  <1>1. p.risk \in Nat /\ p.stop \in Nat \ {0}
    BY DEF InRange, Between
  <1>2. limit \in Nat /\ limit * p.stop <= p.risk
    BY <1>1, QuotientBound
  <1>3. v = Clamp(Lesser(t, limit), 0, Whole)
    BY DEF Capped
  <1> HIDE DEF limit, v
  <1>4. v \in Nat /\ v <= limit
    BY <1>2, <1>3 DEF Clamp, Greater, Lesser, Whole
  <1>5. v * p.stop <= limit * p.stop /\ v * p.stop \in Int /\ limit * p.stop \in Int
    BY <1>1, <1>2, <1>4, ProductInOrder
  <1>6. v * p.stop <= p.risk
    BY <1>1, <1>2, <1>5
  <1> QED
    BY <1>4, <1>6 DEF v

(* The equity e at a share t, rounded down, loses at a stop s no more than *)
(* the ceiling c of that equity.                                           *)
LEMMA ShareWithinCeiling ==
    ASSUME NEW e, e \in Nat, NEW t, t \in Nat, NEW s, s \in Nat, NEW risk, risk \in Nat,
           NEW c, c \in Nat, t * s <= risk, risk <= c * Whole
    PROVE  ((t * e) \div Whole) * s \in Nat /\ ((t * e) \div Whole) * s <= c * e
  <1> DEFINE k == t * e
             u == k \div Whole
             v == u * s
             w == c * e
  <1>1. k \in Nat
    OBVIOUS
  <1> HIDE DEF k
  <1>2. u \in Nat /\ u * Whole <= k
    BY <1>1, WholeBound
  <1> HIDE DEF u
  <1>3. v \in Nat /\ w \in Nat
    BY <1>2
  <1>4. (u * Whole) * s <= k * s /\ (u * Whole) * s \in Int /\ k * s \in Int
    <2>1. u * Whole \in Int
      BY <1>2 DEF Whole
    <2> QED
      BY <1>1, <1>2, <2>1, ProductInOrder
  <1>5. (t * s) * e <= (c * Whole) * e /\ (t * s) * e \in Int /\ (c * Whole) * e \in Int
    <2>1. t * s \in Int /\ c * Whole \in Int
      BY DEF Whole
    <2>2. t * s <= c * Whole
      BY <2>1
    <2> QED
      BY <2>1, <2>2, ProductInOrder
  <1>6. k * s = (t * s) * e
    BY DEF k
  <1>7. (u * Whole) * s = v * Whole
    BY <1>2 DEF Whole
  <1>8. (c * Whole) * e = w * Whole
    BY DEF Whole
  <1>9. v * Whole <= w * Whole
    BY <1>4, <1>5, <1>6, <1>7, <1>8
  <1> HIDE DEF v, w
  <1>10. v <= w
    BY <1>3, <1>9 DEF Whole
  <1> QED
    BY <1>3, <1>10 DEF k, u, v, w

(* How far below a price p the stop s of a plan is placed.                 *)
LEMMA StopDistance ==
    ASSUME NEW p, p \in Nat, NEW s, s \in Nat, s <= Whole
    PROVE  /\ (p * 100 * (Whole - s)) \div Whole \in Nat
           /\ (p * 100 - (p * 100 * (Whole - s)) \div Whole) * Whole
                  <= (p * s) * 100 + (Whole - 1)
  <1> DEFINE x == p * 100 * (Whole - s)
             u == x \div Whole
             z == p * s
  <1>1. x \in Nat
    <2>1. Whole - s \in Nat
      BY DEF Whole
    <2> QED
      BY <2>1
  <1>2. z \in Nat /\ x = p * 100 * Whole - z * 100
    BY DEF Whole
  <1> HIDE DEF x, z
  <1>3. u \in Nat /\ x <= u * Whole + (Whole - 1)
    BY <1>1, WholeBound
  <1> HIDE DEF u
  <1>4. (p * 100 - u) * Whole <= z * 100 + (Whole - 1)
    BY <1>1, <1>2, <1>3 DEF Whole
  <1> QED
    BY <1>3, <1>4 DEF u, x, z

(* A position of n hundredths of a coin, worth no more at the price p than *)
(* the whole USDT of w and a rounding, loses at the stop s no more than w  *)
(* loses, and a rounding.                                                  *)
LEMMA LossAtStop ==
    ASSUME NEW p, p \in Nat, NEW s, s \in Nat, s <= Whole, NEW n, n \in Nat,
           NEW w, w \in Nat, n * p <= w * 100 + 99
    PROVE  n * (p * 100 - (p * 100 * (Whole - s)) \div Whole) <= w * s + s + n
  <1> DEFINE d == p * 100 - (p * 100 * (Whole - s)) \div Whole
             z == p * s
             m == n * d
             y == w * s
  <1>1. d \in Int /\ d * Whole <= z * 100 + (Whole - 1)
    <2> DEFINE u == (p * 100 * (Whole - s)) \div Whole
    <2>1. u \in Nat /\ (p * 100 - u) * Whole <= z * 100 + (Whole - 1)
      BY StopDistance
    <2> HIDE DEF u, z
    <2>2. p * 100 - u \in Int
      BY <2>1
    <2> QED
      BY <2>1, <2>2 DEF u
  <1> HIDE DEF d
  <1>2. m \in Int /\ y \in Nat /\ z \in Nat
    BY <1>1
  <1>3. /\ (d * Whole) * n <= (z * 100 + (Whole - 1)) * n
        /\ (d * Whole) * n \in Int /\ (z * 100 + (Whole - 1)) * n \in Int
    <2>1. d * Whole \in Int /\ z * 100 + (Whole - 1) \in Int
      BY <1>1, <1>2 DEF Whole
    <2> QED
      BY <1>1, <2>1, ProductInOrder
  <1>4. (n * p) * s <= (w * 100 + 99) * s /\ (n * p) * s \in Int /\ (w * 100 + 99) * s \in Int
    <2>1. n * p \in Int /\ w * 100 + 99 \in Int
      OBVIOUS
    <2> QED
      BY <2>1, ProductInOrder
  <1> DEFINE h == (n * p) * s
  <1>5. (d * Whole) * n = m * Whole
    BY <1>1 DEF Whole
  <1>6. (z * 100 + (Whole - 1)) * n = h * 100 + n * (Whole - 1)
    BY DEF z, Whole
  <1>7. (w * 100 + 99) * s = y * 100 + s * 99
    OBVIOUS
  <1>8. h \in Int /\ h <= y * 100 + s * 99
    BY <1>4, <1>7
  <1> HIDE DEF m, y, z, h
  <1>9. m * Whole <= h * 100 + n * (Whole - 1)
    BY <1>3, <1>5, <1>6
  <1>10. m <= y + s + n
    BY <1>2, <1>8, <1>9 DEF Whole
  <1> QED
    BY <1>10 DEF d, m, y

(* The stop is never below the initial one.                                *)
LEMMA StopIsFloored ==
    ASSUME entry' \in Nat, high' \in Nat, InRange(plan')
    PROVE  ActiveStop' \in Int /\ (entry' * (Whole - plan'.stop)) \div Whole <= ActiveStop'
  <1> DEFINE initial  == (entry' * (Whole - plan'.stop)) \div Whole
             locked   == (entry' * (Whole + plan'.evenLock)) \div Whole
             trailing == (high' * 100 * (Whole - plan'.trail)) \div Whole
             floor    == IF /\ high' * Whole >= (entry' \div 100) * (Whole + plan'.evenActivation)
                            /\ EvenIsEconomic'
                         THEN Greater(initial, locked) ELSE initial
  <1>1. /\ plan'.stop \in Int /\ plan'.evenLock \in Int /\ plan'.trail \in Int
    BY DEF InRange, Between
  <1>2. /\ entry' * (Whole - plan'.stop) \in Int /\ entry' * (Whole + plan'.evenLock) \in Int
        /\ high' * 100 * (Whole - plan'.trail) \in Int
    BY <1>1 DEF Whole
  <1>3. initial \in Int /\ locked \in Int /\ trailing \in Int
    BY <1>2 DEF Whole
  <1>4. ActiveStop' = floor \/ ActiveStop' = Greater(floor, trailing)
    BY DEF ActiveStop, EvenIsEconomic
  <1>5. floor = initial \/ floor = Greater(initial, locked)
    OBVIOUS
  <1> HIDE DEF initial, locked, trailing, floor
  <1>6. floor \in Int /\ initial <= floor
    BY <1>3, <1>5 DEF Greater
  <1>7. ActiveStop' \in Int /\ initial <= ActiveStop'
    BY <1>3, <1>4, <1>6 DEF Greater
  <1> QED
    BY <1>7 DEF initial

LEMMA DefaultIsBudgeted == Budgeted(DefaultPlan)
  BY DEF Budgeted, DefaultPlan, Whole

(* The risk of a plan is within its ceiling.                               *)
LEMMA AimIsBudgeted ==
    ASSUME NEW r \in Labels, NEW aim \in Aims[r]
    PROVE  Budgeted(aim.plan)
  <1>1. PICK wants \in BOOLEAN, posture \in Choices, conviction \in Convictions, vol \in Vols :
            aim.plan = Plan(r, posture, conviction, vol)
    BY DEF Aims
  <1>2. /\ r \in Regimes /\ posture \in Postures
        /\ conviction \in Percents /\ vol \in Volatilities
    BY RegimesAssumption, VerdictAssumption DEF Percents, Volatilities
  <1> DEFINE stop    == Stop(r, posture, vol)
             ceiling == RiskCeiling(r, posture)
             share   == Allocation(Wanted(r, posture, conviction), stop, ceiling)
             loss    == share * stop
  <1>3. aim.plan.ceiling = ceiling /\ aim.plan.risk = Loss(ceiling, share, stop)
    BY <1>1 DEF Plan
  <1>4. Between(ceiling, 50, 1200) /\ Between(stop, 150, 2200)
        /\ Between(Wanted(r, posture, conviction), 1000, 9500)
    BY <1>2, PlanParts
  <1>5. loss \in Nat
    <2>1. /\ ceiling \in Nat /\ stop \in Nat \ {0} /\ Wanted(r, posture, conviction) \in Nat
      BY <1>4 DEF Between
    <2>2. share \in Nat
      BY <2>1, AllocationBound
    <2> HIDE DEF share, stop
    <2> QED
      BY <2>1, <2>2
  <1>6. Loss(ceiling, share, stop) = Clamp(Lesser(ceiling * Whole, loss), 500000, 12000000)
    BY DEF Loss
  <1> HIDE DEF loss, ceiling, share, stop
  <1>7. ceiling \in Nat /\ 50 <= ceiling
    BY <1>4 DEF Between
  <1>8. Clamp(Lesser(ceiling * Whole, loss), 500000, 12000000) <= ceiling * Whole
    BY <1>5, <1>7 DEF Clamp, Greater, Lesser, Whole
  <1> QED
    BY <1>3, <1>6, <1>7, <1>8 DEF Budgeted

(* Nothing held is no position.                                            *)
LEMMA NothingIsNotLong == ASSUME qty' = 0, price' \in Nat PROVE ~Long'
  <1>1. \A p \in Nat : (0 * p) \div 100 = 0
    <2>1. \A p \in Nat : 0 * p = 0
      OBVIOUS
    <2>2. 0 \div 100 = 0
      OBVIOUS
    <2> QED
      BY <2>1, <2>2
  <1>2. Value(qty)' = 0
    <2>1. Value(qty)' = (0 * price') \div 100
      BY DEF Value
    <2> QED
      BY <1>1, <2>1
  <1>3. ~(0 > MinNotional)
    BY DEF MinNotional
  <1> QED
    BY <1>2, <1>3, Zenon DEF Long

(* An order leaves a position its entry.                                   *)
LEMMA OrderKeepsEntry ==
    ASSUME PositionInv, BudgetInv, Executes, Long' PROVE entry' # 0
  <1>1. /\ price \in Nat \ {0} /\ qty \in Nat /\ entry \in Nat /\ price' = price
    BY MoneyIsWhole DEF PositionInv, TypeOK, Executes
  <1>2. ASSUME NEW quote, quote \in Nat, MinNotional <= quote, Buy(quote, dec.plan)
        PROVE  entry' # 0
    <2> DEFINE base == (quote * 100) \div price
               cost == entry * qty + price * 100 * base
    <2>1. base \in Nat /\ base >= 1
      BY <1>2, MoneyIsWhole DEF PositionInv
    <2>2. entry' = IF entry # 0 THEN cost \div (qty + base) ELSE price * 100
      BY <1>2 DEF Buy
    <2>3. CASE entry = 0
      BY <1>1, <2>2, <2>3
    <2>4. CASE entry # 0
      <3> HIDE DEF base
      <3>1. 1 <= entry /\ 1 <= price * 100 /\ price * 100 \in Nat
        BY <1>1, <2>4
      <3>2. /\ 1 * qty <= entry * qty /\ entry * qty \in Int
            /\ 1 * base <= (price * 100) * base /\ (price * 100) * base \in Int
        BY <1>1, <2>1, <3>1, ProductInOrder
      <3>3. cost \in Nat /\ qty + base <= cost /\ qty + base \in Nat \ {0}
        BY <1>1, <2>1, <3>2
      <3> HIDE DEF cost
      <3>4. cost \div (qty + base) >= 1
        BY <3>3, QuotientAtLeastOne
      <3> QED
        BY <2>2, <2>4, <3>4
    <2> QED
      BY <2>3, <2>4
  <1>3. ASSUME NEW base, base \in Nat, base <= qty, Sell(base)
        PROVE  entry' # 0
    <2>1. qty' = qty - base
      BY <1>3 DEF Sell
    <2>2. CASE base < qty
      <3>1. entry' = entry
        BY <1>3, <2>2 DEF Sell
      <3>2. (qty' * price) \div 100 <= (qty * price) \div 100
        <4>1. /\ qty' * price <= qty * price /\ qty' * price \in Int /\ qty * price \in Int
          BY <1>1, <1>3, <2>1, ProductInOrder
        <4> DEFINE a == qty' * price
                   b == qty * price
        <4> HIDE DEF a, b
        <4>2. a \in Int /\ b \in Int /\ a <= b
          BY <4>1 DEF a, b
        <4>3. a \div 100 <= b \div 100
          BY <4>2
        <4> QED
          BY <4>3 DEF a, b
      <3>3. Value(qty)' <= Value(qty)
        BY <1>1, <3>2 DEF Value
      <3>4. Value(qty)' \in Int /\ Value(qty) \in Int
        <4>1. qty' \in Nat
          BY <1>1, <1>3, <2>1
        <4>2. qty' * price \in Int /\ qty * price \in Int
          BY <1>1, <4>1
        <4> QED
          BY <1>1, <4>2 DEF Value
      <3>5. Long
        BY <3>3, <3>4 DEF Long, MinNotional
      <3> QED
        BY <3>1, <3>5 DEF BudgetInv
    <2>3. CASE ~(base < qty)
      <3>1. qty' = 0
        BY <1>1, <1>3, <2>1, <2>3
      <3> QED
        BY <1>1, <3>1, NothingIsNotLong
    <2> QED
      BY <2>2, <2>3
  <1> QED
    BY <1>2, <1>3, ExecutesCases

(* No step sends a plan over its ceiling or leaves a position entryless.   *)
LEMMA BudgetKept == ASSUME PositionInv, BudgetInv, [Next]_vars PROVE BudgetInv'
  <1>1. CASE Decide
    <2>1. PICK aim \in Aims[regime'] :
              \/ dec' = Decided(aim.target, "buy", IF Long THEN DefaultPlan ELSE aim.plan)
              \/ dec' = Decided(aim.target, "sell", DefaultPlan)
              \/ UNCHANGED dec
      BY <1>1 DEF Decide
    <2>2. regime' \in Labels
      <3>1. PICK label \in Seen : Observe(label)
        BY <1>1 DEF Decide
      <3>2. label \in Labels
        <4>1. label \in Regimes
          BY RegimesAssumption DEF Seen, Corroborated, Regimes
        <4> QED
          BY <4>1, RegimesAssumption
      <3> QED
        BY <3>1, <3>2, ObserveKeepsInv DEF PositionInv, TrackerInv, TrackerTypeOK
    <2>3. Budgeted(aim.plan)
      BY <2>2, AimIsBudgeted
    <2>4. dec'.kind = "buy" => Budgeted(dec'.plan)
      <3>1. CASE dec' = Decided(aim.target, "buy", IF Long THEN DefaultPlan ELSE aim.plan)
        BY <2>3, <3>1, DefaultIsBudgeted DEF Decided
      <3>2. CASE dec' = Decided(aim.target, "sell", DefaultPlan)
        BY <3>2 DEF Decided
      <3>3. CASE UNCHANGED dec
        BY <3>3 DEF BudgetInv
      <3> QED
        BY <2>1, <3>1, <3>2, <3>3
    <2>5. UNCHANGED <<price, qty, entry>>
      BY <1>1 DEF Decide, book
    <2>6. Long' => entry' # 0
      BY <2>5 DEF BudgetInv, Long, Value
    <2> QED
      BY <2>4, <2>6 DEF BudgetInv, Budgeted
  <1>2. CASE Executes
    <2>1. dec'.kind = "none"
      BY <1>2 DEF Executes, NoDecision
    <2> QED
      BY <1>2, <2>1, OrderKeepsEntry DEF BudgetInv
  <1>3. CASE Declined \/ TimePasses \/ UNCHANGED vars
    <2>1. UNCHANGED <<price, qty, entry>>
      BY <1>3 DEF Declined, TimePasses, vars, book
    <2>2. dec' = dec \/ dec'.kind = "none"
      BY <1>3 DEF Declined, TimePasses, vars, NoDecision
    <2>3. Long' => entry' # 0
      BY <2>1 DEF BudgetInv, Long, Value
    <2>4. dec'.kind = "buy" => Budgeted(dec'.plan)
      BY <2>2 DEF BudgetInv
    <2> QED
      BY <2>3, <2>4 DEF BudgetInv, Budgeted
  <1>4. ASSUME NEW p \in Prices, PriceMoves(p) PROVE BudgetInv'
    <2>1. p \in Nat \ {0} /\ price' = p /\ dec' = dec
      BY <1>4, MoneyAssumption DEF PriceMoves
    <2>2. CASE qty' = 0
      <3>1. ~Long'
        BY <2>1, <2>2, NothingIsNotLong
      <3> QED
        BY <2>1, <3>1 DEF BudgetInv, Budgeted
    <2>3. CASE qty' = qty /\ (qty * p) \div 100 > MinNotional
               /\ entry' = IF entry = 0 THEN p * 100 ELSE entry
      <3>1. entry' # 0
        BY <2>1, <2>3
      <3> QED
        BY <2>1, <3>1 DEF BudgetInv, Budgeted
    <2>4. CASE qty' = qty /\ ~((qty * p) \div 100 > MinNotional)
      <3>1. ~Long'
        BY <2>1, <2>4 DEF Long, Value
      <3> QED
        BY <2>1, <3>1 DEF BudgetInv, Budgeted
    <2> QED
      BY <1>4, <2>2, <2>3, <2>4 DEF PriceMoves
  <1> QED
    BY <1>1, <1>2, <1>3, <1>4 DEF Next

(* An opening buys up to its target, under the plan it was decided with.   *)
LEMMA OpeningOrder ==
    ASSUME PositionInv, BudgetInv, Next, entry = 0, qty' > qty
    PROVE  /\ dec.kind = "buy" /\ Buys(Target) /\ Buy(Quote(Target), dec.plan)
           /\ Target = Capped(dec.target, dec.plan)
           /\ price' = price
  <1>1. qty \in Nat
    BY DEF PositionInv, TypeOK
  <1>2. CASE Decide \/ Declined \/ TimePasses
    BY <1>1, <1>2 DEF Decide, Declined, TimePasses, book
  <1>3. ASSUME NEW p \in Prices, PriceMoves(p) PROVE FALSE
    <2>1. qty' \in {qty, 0}
      BY <1>3 DEF PriceMoves
    <2> QED
      BY <1>1, <2>1
  <1>4. CASE Executes
    <2>1. ASSUME NEW base, base \in Nat, Sell(base) PROVE FALSE
      BY <1>1, <2>1 DEF Sell
    <2>2. dec.kind = "buy" /\ Buys(Target) /\ Buy(Quote(Target), dec.plan)
      <3>1. CASE dec.kind = "sell" /\ dec.target = 0 /\ Sell(qty)
        BY <1>1, <2>1, <3>1
      <3>2. CASE dec.kind = "sell" /\ Sells(Target) /\ Sell(Excess(Target))
        <4>1. Target \in Int
          BY <3>2, TargetIsNumber
        <4>2. Excess(Target) \in Nat
          BY <3>2, <4>1, OrderIsCovered DEF PositionInv
        <4> QED
          BY <2>1, <3>2, <4>2
      <3> QED
        BY <1>4, <3>1, <3>2 DEF Executes
    <2>3. ~Long
      BY Zenon DEF BudgetInv
    <2>4. ~(dec.kind = "sell" \/ dec.topsUp)
      BY <1>4, <2>3, Zenon DEF Executes, Expected
    <2>5. Sizing = dec.plan
      BY <2>4, Zenon DEF Sizing
    <2> QED
      BY <1>4, <2>2, <2>5 DEF Target, Executes
  <1> QED
    BY <1>2, <1>3, <1>4 DEF Next

(* The position an opening leaves loses no more at its stop than its plan  *)
(* permits of the equity, but for the rounding of money.                   *)
LEMMA OpeningStep ==
    ASSUME PositionInv, BudgetInv, Next, entry = 0, qty' > qty
    PROVE  (qty * (entry - ActiveStop))' <= plan'.ceiling * Equity + (plan.stop + qty)'
  <1> DEFINE t     == Capped(dec.target, dec.plan)
             quote == Quote(t)
             base  == (quote * 100) \div price
             n     == qty + base
             s     == dec.plan.stop
             c     == dec.plan.ceiling
             w     == (t * Equity) \div Whole
             worth == Value(qty)
             init  == (price * 100 * (Whole - s)) \div Whole
  <1>1. /\ dec.kind = "buy" /\ Buys(t) /\ Buy(quote, dec.plan)
        /\ price' = price
    BY OpeningOrder
  <1>2. /\ price \in Nat \ {0} /\ Equity \in Nat /\ qty \in Nat /\ cash \in Nat
        /\ dec.target \in Int /\ InRange(dec.plan) /\ Budgeted(dec.plan)
    BY <1>1, MoneyIsWhole DEF PositionInv, TypeOK, BudgetInv, Between
  <1>3. t \in Nat /\ t * s <= dec.plan.risk
    BY <1>2, CappedRisk
  <1>4. s \in Nat /\ s <= Whole /\ dec.plan.risk \in Nat
        /\ c \in Nat /\ dec.plan.risk <= c * Whole
    BY <1>2 DEF InRange, Between, Budgeted, Whole
  <1>5. qty' = n /\ entry' = price * 100 /\ high' = price /\ plan' = dec.plan
    BY <1>1 DEF Buy
  <1> HIDE DEF t
  <1>6. quote \in Nat /\ MinNotional <= quote
    BY <1>1, <1>3, OrderIsCovered DEF PositionInv
  <1>7. worth \in Nat /\ w \in Nat /\ quote <= w - worth
    <2>1. Gap(t) = w - worth
      BY DEF Gap
    <2>2. worth \in Nat
      BY <1>2, MoneyIsWhole DEF PositionInv
    <2>3. w \in Nat
      <3>1. t * Equity \in Nat
        BY <1>2, <1>3
      <3> QED
        BY <3>1, WholeBound
    <2>4. quote = Lesser(Gap(t), cash)
      BY DEF Quote
    <2> HIDE DEF w, worth, quote
    <2> QED
      BY <1>2, <2>1, <2>2, <2>3, <2>4 DEF Lesser
  <1>8. base \in Nat /\ base * price <= quote * 100
    <2>1. quote * 100 \in Nat
      BY <1>6
    <2> HIDE DEF quote
    <2> QED
      BY <1>2, <2>1, QuotientBound
  <1>9. qty * price <= worth * 100 + 99
    <2>1. qty * price \in Nat
      BY <1>2
    <2> QED
      BY <2>1, HundredthBound DEF Value
  <1>10. n \in Nat /\ n * price <= w * 100 + 99
    <2> HIDE DEF base, w, worth, quote
    <2> DEFINE a == qty * price
               b == base * price
    <2>1. a \in Nat /\ b \in Nat /\ n * price = a + b /\ n \in Nat
      BY <1>2, <1>8
    <2>2. a <= worth * 100 + 99 /\ b <= quote * 100
      BY <1>8, <1>9
    <2> HIDE DEF a, b, n
    <2>3. a + b <= w * 100 + 99
      BY <1>6, <1>7, <2>1, <2>2
    <2> QED
      BY <2>1, <2>3
  <1>11. n * (price * 100 - init) <= w * s + s + n
    <2> HIDE DEF n, s, w
    <2> QED
      BY <1>2, <1>4, <1>7, <1>10, LossAtStop
  <1>12. w * s \in Nat /\ w * s <= c * Equity
    <2> HIDE DEF s, c
    <2> QED
      BY <1>2, <1>3, <1>4, ShareWithinCeiling
  <1>13. ActiveStop' \in Int /\ init <= ActiveStop' /\ init \in Int
    <2>1. entry' \in Nat /\ high' \in Nat /\ InRange(plan')
      BY <1>2, <1>5
    <2>2. ActiveStop' \in Int /\ (entry' * (Whole - plan'.stop)) \div Whole <= ActiveStop'
      BY <2>1, StopIsFloored
    <2>3. init \in Int
      <3> HIDE DEF s
      <3>1. price \in Nat
        BY <1>2
      <3>2. init \in Nat
        BY <1>4, <3>1, StopDistance
      <3> HIDE DEF init
      <3> QED
        BY <3>2
    <2> QED
      BY <1>5, <2>2, <2>3
  <1>14. n * (entry' - ActiveStop') <= n * (price * 100 - init)
         /\ n * (entry' - ActiveStop') \in Int /\ n * (price * 100 - init) \in Int
    <2> HIDE DEF init, n
    <2> DEFINE a == entry' - ActiveStop'
               b == price * 100 - init
    <2>1. a \in Int /\ b \in Int /\ a <= b
      <3>1. entry' = price * 100 /\ price * 100 \in Int
        BY <1>2, <1>5
      <3> QED
        BY <1>13, <3>1
    <2> HIDE DEF a, b
    <2>2. a * n \in Int /\ b * n \in Int /\ a * n <= b * n
      BY <1>10, <2>1, ProductInOrder
    <2>3. n * a = a * n /\ n * b = b * n
      BY <1>10, <2>1
    <2>4. n * a <= n * b /\ n * a \in Int /\ n * b \in Int
      BY <2>2, <2>3
    <2> QED
      BY <2>4 DEF a, b
  <1>15. n * (entry' - ActiveStop') <= c * Equity + (s + n)
    <2>1. c * Equity \in Nat
      BY <1>2, <1>4
    <2> DEFINE a == n * (entry' - ActiveStop')
               b == n * (price * 100 - init)
               x == w * s
               y == c * Equity
    <2>2. a <= b /\ a \in Int /\ b \in Int /\ b <= x + s + n /\ x \in Nat /\ x <= y /\ y \in Nat
      BY <1>11, <1>12, <1>14, <2>1
    <2> HIDE DEF a, b, x, y, n, s
    <2>3. a <= y + (s + n)
      BY <1>4, <1>10, <2>2
    <2> QED
      BY <2>3 DEF a, y
  <1> QED
    BY <1>5, <1>15

(* Whatever the price did between verdict and order, and whatever the      *)
(* prices are: a position that has just been opened loses no more at its   *)
(* stop than its regime permits in its posture of the equity it was sized  *)
(* by, but for the rounding of money.                                      *)
THEOREM OpeningWithinBudget == Spec => OpeningKeepsBudget
  <1>1. Init => BudgetInv
    <2> SUFFICES ASSUME Init PROVE BudgetInv
      OBVIOUS
    <2>1. qty = 0 /\ price \in Nat /\ dec.kind = "none"
      BY MoneyAssumption DEF Init, NoDecision
    <2>2. Value(qty) = 0
      BY <2>1 DEF Value
    <2> QED
      BY <2>1, <2>2 DEF BudgetInv, Long, MinNotional
  <1>2. PositionInv /\ BudgetInv /\ [Next]_vars => BudgetInv'
    BY BudgetKept
  <1> DEFINE Budget == entry = 0 /\ entry' # 0 /\ qty' > qty =>
           (qty * (entry - ActiveStop))' <= plan'.ceiling * Equity + (plan.stop + qty)'
  <1>3. PositionInv /\ BudgetInv /\ [Next]_vars => [Budget]_vars
    BY OpeningStep
  <1> QED
    BY <1>1, <1>2, <1>3, PositionInvariance, PTL DEF Spec, OpeningKeepsBudget

-----------------------------------------------------------------------------
(* An order settles.                                                       *)

LEMMA RemainderBound ==
    ASSUME NEW a \in Nat, NEW b \in Nat \ {0}
    PROVE  a <= (a \div b) * b + (b - 1)
  BY SMT

(* A share of equity moves no more than the equity does.                   *)
LEMMA ShareFollows ==
    ASSUME NEW t, t \in Nat, t <= Whole, NEW d, d \in Nat, NEW e, e \in Nat, NEW k, k \in Nat,
           d <= e, e <= d + k
    PROVE  /\ (t * d) \div Whole \in Nat /\ (t * e) \div Whole \in Nat
           /\ (t * d) \div Whole <= (t * e) \div Whole
           /\ (t * e) \div Whole <= (t * d) \div Whole + k
  <1> DEFINE a == t * d
             b == t * e
             c == t * k
  <1>1. a \in Nat /\ b \in Nat /\ c \in Nat
    OBVIOUS
  <1>2. a <= b
    <2>1. d * t <= e * t
      BY ProductInOrder
    <2> QED
      BY <2>1
  <1>3. b <= a + c
    <2>1. d + k \in Int
      OBVIOUS
    <2>2. e * t <= (d + k) * t
      BY <2>1, ProductInOrder
    <2> QED
      BY <2>2
  <1>4. c <= k * Whole
    <2>1. Whole \in Int
      BY DEF Whole
    <2>2. t * k <= Whole * k
      BY <2>1, ProductInOrder
    <2> QED
      BY <2>2 DEF Whole
  <1> HIDE DEF a, b, c
  <1>5. a \div Whole \in Nat /\ b \div Whole \in Nat /\ a \div Whole <= b \div Whole
    BY <1>1, <1>2 DEF Whole
  <1>6. b \div Whole <= a \div Whole + k
    <2>1. b <= a + k * Whole
      BY <1>1, <1>3, <1>4 DEF Whole
    <2> QED
      BY <1>1, <2>1 DEF Whole
  <1> QED
    BY <1>5, <1>6 DEF a, b

(* At a price of at most 9 USDT per hundredth of a coin, what is bought is *)
(* worth what was paid, but for less than the smallest order.              *)
LEMMA BoughtIsWorth ==
    ASSUME NEW p, p \in 1..900, NEW q, q \in Nat, NEW quote, quote \in Nat,
           NEW b, b = (quote * 100) \div p
    PROVE  /\ (q * p) \div 100 \in Nat /\ ((q + b) * p) \div 100 \in Nat
           /\ ((q + b) * p) \div 100 <= (q * p) \div 100 + quote
           /\ (q * p) \div 100 + quote <= ((q + b) * p) \div 100 + 9
  <1> DEFINE x == q * p
             y == b * p
             v == x \div 100
             v1 == (x + y) \div 100
  <1>1. quote * 100 \in Nat /\ p \in Nat \ {0} /\ p <= 900
    OBVIOUS
  <1>2. b \in Nat /\ y <= quote * 100 /\ quote * 100 <= y + (p - 1)
    BY <1>1, QuotientBound, RemainderBound, ZenonT(60)
  <1>3. x \in Nat /\ y \in Nat /\ (q + b) * p = x + y
    BY <1>1, <1>2
  <1> HIDE DEF x, y
  <1>4. v \in Nat /\ v * 100 <= x /\ x <= v * 100 + 99
    BY <1>3, HundredthBound
  <1>5. v1 \in Nat /\ v1 * 100 <= x + y /\ x + y <= v1 * 100 + 99
    <2>1. x + y \in Nat
      BY <1>3
    <2> QED
      BY <2>1, HundredthBound
  <1> HIDE DEF v, v1
  <1>6. v1 <= v + quote /\ v + quote <= v1 + 9
    BY <1>1, <1>2, <1>3, <1>4, <1>5
  <1> QED
    BY <1>3, <1>4, <1>5, <1>6 DEF v, v1, x

(* What is left and what was sold are worth the position they were.        *)
LEMMA SoldIsWorth ==
    ASSUME NEW p, p \in Nat, NEW q, q \in Nat, NEW x, x \in Nat, x <= q
    PROVE  /\ (q * p) \div 100 \in Nat /\ (x * p) \div 100 \in Nat
           /\ ((q - x) * p) \div 100 \in Nat
           /\ ((q - x) * p) \div 100 + (x * p) \div 100 <= (q * p) \div 100
           /\ (q * p) \div 100 <= ((q - x) * p) \div 100 + (x * p) \div 100 + 1
  <1> DEFINE r == q - x
             a == r * p
             b == x * p
             u == a \div 100
             v == b \div 100
             w == (a + b) \div 100
  <1>1. r \in Nat /\ q = r + x
    OBVIOUS
  <1> HIDE DEF r
  <1>2. a \in Nat /\ b \in Nat /\ q * p = a + b
    BY <1>1
  <1> HIDE DEF a, b
  <1>3. u \in Nat /\ u * 100 <= a /\ a <= u * 100 + 99
    BY <1>2, HundredthBound
  <1>4. v \in Nat /\ v * 100 <= b /\ b <= v * 100 + 99
    BY <1>2, HundredthBound
  <1>5. w \in Nat /\ w * 100 <= a + b /\ a + b <= w * 100 + 99
    <2>1. a + b \in Nat
      BY <1>2
    <2> QED
      BY <2>1, HundredthBound
  <1> HIDE DEF u, v, w
  <1>6. u + v <= w /\ w <= u + v + 1
    BY <1>2, <1>3, <1>4, <1>5
  <1> QED
    BY <1>2, <1>3, <1>4, <1>5, <1>6 DEF u, v, w, a, b, r

(* What a trim would sell is no more than the excess.                      *)
LEMMA ExcessAfter ==
    ASSUME NEW t, NEW g, g = Gap(t)', g \in Int, g <= 0, qty' \in Nat, price' \in Nat \ {0}
    PROVE  /\ Excess(t)' \in Nat /\ Excess(t)' <= qty'
           /\ Excess(t)' * price' <= -g * 100
  <1> DEFINE v == (-g * 100) \div price'
             x == Excess(t)'
  <1>1. -g * 100 \in Nat
    OBVIOUS
  <1>2. v \in Nat /\ v * price' <= -g * 100
    BY <1>1, QuotientBound
  <1>3. x = Lesser(v, qty')
    BY DEF Excess, Lesser
  <1> HIDE DEF v, x
  <1>4. x \in Nat /\ x <= qty' /\ x <= v
    BY <1>2, <1>3 DEF Lesser
  <1>5. x * price' <= v * price' /\ x * price' \in Int /\ v * price' \in Int
    <2>1. x \in Int /\ v \in Int /\ x <= v /\ price' \in Nat
      BY <1>2, <1>4
    <2> QED
      BY ONLY <2>1, ProductInOrder
  <1>6. x * price' <= -g * 100
    BY <1>1, <1>2, <1>5
  <1> QED
    BY <1>4, <1>6 DEF x

(* An excess worth less than the smallest order is not sold.               *)
LEMMA TooLittleToSell ==
    ASSUME NEW t, Excess(t)' \in Nat, price' \in Nat, Excess(t)' * price' <= 999
    PROVE  ~Sells(t)'
  <1> DEFINE x == Excess(t)'
             y == x * price'
  <1>1. y \in Nat /\ y <= 999
    OBVIOUS
  <1> HIDE DEF y
  <1>2. y \div 100 <= 9 /\ y \div 100 \in Int
    BY <1>1
  <1>3. Value(Excess(t))' = y \div 100
    BY DEF Value, y
  <1>4. ~(Value(Excess(t))' >= MinNotional)
    BY <1>2, <1>3 DEF MinNotional
  <1> QED
    BY <1>4, Zenon DEF Sells

(* An order to buy leaves less to buy than the smallest order, and no more *)
(* to sell.                                                                *)
LEMMA BuySettles ==
    ASSUME PositionInv, Prices \subseteq 1..900, NEW t, t \in Nat, t <= Whole, NEW p,
           Buys(t), Buy(Quote(t), p), price' = price
    PROVE  ~Buys(t)' /\ ~Sells(t)'
  <1> DEFINE quote == Quote(t)
             b  == (quote * 100) \div price
             v  == (qty * price) \div 100
             v1 == ((qty + b) * price) \div 100
             e  == cash + v
             e1 == cash' + v1
             s  == (t * e) \div Whole
             s1 == (t * e1) \div Whole
             g  == Gap(t)
             g1 == Gap(t)'
  <1>1. price \in 1..900 /\ qty \in Nat /\ cash \in Nat
    BY DEF PositionInv, TypeOK
  <1>2. /\ quote \in Nat /\ quote <= cash /\ g > 0
        /\ quote = Lesser(g, cash)
    BY OrderIsCovered DEF PositionInv, Buys, Quote
  <1>3. cash' = cash - quote /\ qty' = qty + b
    BY DEF Buy
  <1>4. g = s - v
    BY DEF Gap, Equity, Value
  <1>5. g1 = s1 - v1
    BY <1>3 DEF Gap, Equity, Value
  <1>6. v \in Nat /\ v1 \in Nat /\ v1 <= v + quote /\ v + quote <= v1 + 9
    <2>1. b = (quote * 100) \div price
      OBVIOUS
    <2> HIDE DEF quote, b
    <2>2. /\ (qty * price) \div 100 \in Nat /\ ((qty + b) * price) \div 100 \in Nat
          /\ ((qty + b) * price) \div 100 <= (qty * price) \div 100 + quote
          /\ (qty * price) \div 100 + quote <= ((qty + b) * price) \div 100 + 9
      <3>1. price \in 1..900 /\ qty \in Nat /\ quote \in Nat
        BY <1>1, <1>2
      <3> QED
        BY ONLY <2>1, <3>1, BoughtIsWorth
    <2> QED
      BY <2>2
  <1> HIDE DEF quote, b, v, v1
  <1>7. e \in Nat /\ e1 \in Nat /\ e1 <= e /\ e <= e1 + 9 /\ cash' \in Nat
    BY <1>1, <1>2, <1>3, <1>6
  <1> HIDE DEF e, e1
  <1>8. s \in Nat /\ s1 \in Nat /\ s1 <= s /\ s <= s1 + 9
    BY <1>7, ShareFollows, ZenonT(60)
  <1> HIDE DEF s, s1, g, g1
  <1>9. /\ g \in Int /\ g1 \in Int /\ quote <= g
        /\ g1 <= (g - quote) + 9 /\ -g1 <= 9
    BY <1>1, <1>2, <1>4, <1>5, <1>6, <1>8 DEF Lesser
  <1>10. ~Buys(t)'
    <2>1. Quote(t)' = Lesser(g1, cash')
      BY DEF Quote, Lesser, g1
    <2>2. quote = g \/ quote = cash
      BY <1>2 DEF Lesser
    <2>3. ~(Quote(t)' >= MinNotional)
      BY <1>1, <1>3, <1>7, <1>9, <2>1, <2>2 DEF Lesser, MinNotional
    <2> QED
      BY <2>3, Zenon DEF Buys
  <1>11. ~Sells(t)'
    <2>1. CASE g1 <= 0
      <3>1. qty' \in Nat /\ price' \in Nat \ {0}
        <4>1. b \in Nat
          <5>1. quote * 100 \in Nat /\ price \in Nat \ {0}
            BY <1>1, <1>2
          <5> QED
            BY <5>1, QuotientBound DEF b
        <4> QED
          BY <1>1, <1>3, <4>1
      <3>2. Excess(t)' \in Nat /\ Excess(t)' * price' <= -g1 * 100
        BY <1>9, <2>1, <3>1, ExcessAfter DEF g1
      <3>3. Excess(t)' * price' <= 999
        <4> DEFINE y == Excess(t)' * price'
        <4>1. y \in Int /\ y <= -g1 * 100
          BY <3>1, <3>2
        <4> HIDE DEF y
        <4>2. y <= 999
          BY <1>9, <4>1
        <4> QED
          BY <4>2 DEF y
      <3> QED
        BY <3>1, <3>2, <3>3, TooLittleToSell
    <2>2. CASE ~(g1 <= 0)
      BY <2>2, Zenon DEF Sells, g1
    <2> QED
      BY <2>1, <2>2
  <1> QED
    BY <1>10, <1>11

(* A trim leaves no more to sell than a hundredth of a coin, and nothing   *)
(* to buy.                                                                 *)
LEMMA SellSettles ==
    ASSUME PositionInv, Prices \subseteq 1..900, NEW t, t \in Nat, t <= Whole,
           Sells(t), Sell(Excess(t)), price' = price
    PROVE  ~Buys(t)' /\ ~Sells(t)'
  <1> DEFINE x  == Excess(t)
             z  == (-Gap(t) * 100) \div price
             v  == (qty * price) \div 100
             k  == (x * price) \div 100
             v1 == ((qty - x) * price) \div 100
             e  == cash + v
             e1 == cash' + v1
             s  == (t * e) \div Whole
             s1 == (t * e1) \div Whole
             g  == Gap(t)
             g1 == Gap(t)'
  <1>1. price \in 1..900 /\ price \in Nat \ {0} /\ qty \in Nat /\ cash \in Nat
    BY DEF PositionInv, TypeOK
  <1>2. x \in Nat /\ x <= qty /\ g <= 0
    BY OrderIsCovered DEF PositionInv, Sells
  <1>3. cash' = cash + k /\ qty' = qty - x
    BY DEF Sell, Value
  <1>4. g = s - v
    BY DEF Gap, Equity, Value
  <1>5. g1 = s1 - v1
    BY <1>3 DEF Gap, Equity, Value
  <1>6. /\ v \in Nat /\ k \in Nat /\ v1 \in Nat /\ v1 + k <= v /\ v <= v1 + k + 1
    <2> HIDE DEF x
    <2> QED
      BY <1>1, <1>2, SoldIsWorth
  <1>7. g \in Int
    BY <1>1, MoneyIsWhole DEF PositionInv
  <1>8. z \in Nat /\ z * price <= -g * 100 /\ -g * 100 <= z * price + (price - 1)
    <2> HIDE DEF g
    <2>1. -g * 100 \in Nat
      BY <1>2, <1>7
    <2>2. /\ (-g * 100) \div price \in Nat /\ ((-g * 100) \div price) * price <= -g * 100
          /\ -g * 100 <= ((-g * 100) \div price) * price + (price - 1)
      BY <1>1, <2>1, QuotientBound, RemainderBound, ZenonT(60)
    <2> QED
      BY <2>2 DEF g
  <1>9. x = Lesser(z, qty)
    BY DEF Excess
  <1>10. k * 100 <= x * price /\ x * price <= k * 100 + 99 /\ x * price \in Nat
    <2> HIDE DEF x
    <2>1. x * price \in Nat
      BY <1>1, <1>2
    <2> QED
      BY <2>1, HundredthBound
  <1>11. x * price <= z * price /\ x * price \in Int /\ z * price \in Int
    <2> HIDE DEF x, z
    <2>1. x <= z
      BY <1>1, <1>8, <1>9 DEF Lesser
    <2> QED
      BY <1>1, <1>2, <1>8, <2>1, ProductInOrder
  <1> DEFINE xp == x * price
             zp == z * price
  <1>12. xp = zp \/ x = qty
    <2> HIDE DEF x, z
    <2> QED
      BY <1>9 DEF Lesser
  <1> HIDE DEF x, z, v, k, v1
  <1>13. e \in Nat /\ e1 \in Nat /\ e1 <= e /\ e <= e1 + 1
    BY <1>1, <1>3, <1>6
  <1> HIDE DEF e, e1
  <1>14. s \in Nat /\ s1 \in Nat /\ s1 <= s /\ s <= s1 + 1
    BY <1>13, ShareFollows, ZenonT(60)
  <1> HIDE DEF s, s1, g, g1
  <1>15. g1 \in Int /\ g1 <= g + k + 1 /\ g + k <= g1 + 1
    BY <1>4, <1>5, <1>6, <1>14
  <1>16. /\ xp \in Nat /\ zp \in Int /\ xp <= zp /\ zp <= -g * 100 /\ -g * 100 <= zp + (price - 1)
         /\ k * 100 <= xp /\ xp <= k * 100 + 99
    BY <1>8, <1>10, <1>11
  <1> HIDE DEF xp, zp
  <1>17. ~Buys(t)'
    <2>1. g1 <= 1
      BY <1>6, <1>7, <1>15, <1>16
    <2>2. Quote(t)' = Lesser(g1, cash')
      BY DEF Quote, Lesser, g1
    <2>3. cash' \in Int
      BY <1>1, <1>3, <1>6
    <2>4. ~(Quote(t)' >= MinNotional)
      BY <1>15, <2>1, <2>2, <2>3 DEF Lesser, MinNotional
    <2> QED
      BY <2>4, Zenon DEF Buys
  <1>18. ~Sells(t)'
    <2>1. CASE g1 <= 0
      <3> DEFINE y == Excess(t)'
      <3>1. qty' \in Nat /\ price' \in Nat \ {0}
        BY <1>1, <1>2, <1>3
      <3>2. y \in Nat /\ y <= qty' /\ y * price' <= -g1 * 100
        BY <1>15, <2>1, <3>1, ExcessAfter DEF g1
      <3>3. CASE x = qty
        <4>1. ~(y > 0)
          BY <1>1, <1>3, <3>2, <3>3
        <4> QED
          BY <4>1, Zenon DEF Sells
      <3>4. CASE xp = zp
        <4> DEFINE yp == y * price
        <4>1. yp \in Int /\ yp <= -g1 * 100
          BY <1>1, <3>2
        <4>2. y >= 2 => 2 * price <= yp
          <5> HIDE DEF y
          <5>1. ASSUME y >= 2 PROVE 2 * price <= y * price
            BY <1>1, <3>2, <5>1, ProductInOrder
          <5> QED
            BY <5>1
        <4>3. y < 2 => yp <= price
          <5> HIDE DEF y
          <5>1. ASSUME y < 2 PROVE y * price <= 1 * price
            BY <1>1, <3>2, <5>1, ProductInOrder
          <5>2. 1 * price = price
            BY <1>1
          <5> QED
            BY <5>1, <5>2
        <4> HIDE DEF y, yp
        <4>4. yp <= price + 198
          BY <1>1, <1>6, <1>7, <1>15, <1>16, <3>4, <4>1
        <4>5. yp <= 999
          BY <1>1, <3>2, <4>1, <4>2, <4>3, <4>4
        <4> QED
          BY <3>1, <3>2, <4>5, TooLittleToSell DEF y, yp
      <3> QED
        BY <1>12, <3>3, <3>4
    <2>2. CASE ~(g1 <= 0)
      BY <2>2, Zenon DEF Sells, g1
    <2> QED
      BY <2>1, <2>2
  <1> QED
    BY <1>17, <1>18

(* Nothing is left to do once everything is sold.                          *)
LEMMA SoldOutSettles ==
    ASSUME qty' = 0, price' \in Nat \ {0}, cash' \in Nat
    PROVE  ~Buys(0)' /\ ~Sells(0)'
  <1>1. Value(qty)' = 0
    <2>1. \A p \in Nat : (0 * p) \div 100 = 0
      <3>1. \A p \in Nat : 0 * p = 0
        OBVIOUS
      <3>2. 0 \div 100 = 0
        OBVIOUS
      <3> QED
        BY <3>1, <3>2
    <2>2. Value(qty)' = (0 * price') \div 100
      BY DEF Value
    <2> QED
      BY <2>1, <2>2
  <1>2. Equity' \in Nat
    <2>1. Equity' = cash' + Value(qty)'
      BY DEF Equity
    <2>2. \A c \in Nat : c + 0 \in Nat
      OBVIOUS
    <2> QED
      BY <1>1, <2>1, <2>2
  <1>3. Gap(0)' = 0
    <2>1. \A e \in Nat : (0 * e) \div Whole = 0
      <3>1. \A e \in Nat : 0 * e = 0
        OBVIOUS
      <3>2. 0 \div Whole = 0
        BY DEF Whole
      <3> QED
        BY <3>1, <3>2
    <2>2. Gap(0)' = (0 * Equity') \div Whole - Value(qty)'
      BY DEF Gap
    <2> QED
      BY <1>1, <1>2, <2>1, <2>2
  <1>4. ~Buys(0)'
    <2>1. ~(Gap(0)' > 0)
      BY <1>3
    <2> QED
      BY <2>1, Zenon DEF Buys
  <1>5. ~Sells(0)'
    <2>1. Excess(0)' <= qty'
      <3>1. qty' \in Nat /\ Gap(0)' \in Int /\ Gap(0)' <= 0
        BY <1>3
      <3> QED
        BY <3>1, ExcessAfter
    <2>2. Excess(0)' \in Int
      <3>1. qty' \in Nat /\ Gap(0)' \in Int /\ Gap(0)' <= 0
        BY <1>3
      <3> QED
        BY <3>1, ExcessAfter
    <2>3. ~(Excess(0)' > 0)
      BY <2>1, <2>2
    <2> QED
      BY <2>3, Zenon DEF Sells
  <1> QED
    BY <1>4, <1>5

(* The order that a decision leads to brings the book to its target, for   *)
(* prices at which a hundredth of a coin is worth less than the smallest   *)
(* order: the same target asked for again at the same price moves nothing. *)
THEOREM OrdersSettle ==
    ASSUME Prices \subseteq 1..900 PROVE Spec => AdjustmentSettles
  <1> DEFINE Settled == trades' # trades => \E t \in {Target} : ~(Buys(t) \/ Sells(t))'
  <1>1. ASSUME PositionInv, Next, trades' # trades
        PROVE  \E t \in {Target} : ~(Buys(t) \/ Sells(t))'
    <2>1. Executes
      BY <1>1 DEF Next, Decide, Declined, TimePasses, PriceMoves, book
    <2>2. dec.kind \in {"buy", "sell"} /\ price' = price
      BY <2>1 DEF Executes
    <2>3. /\ price \in Nat \ {0} /\ qty \in Nat /\ cash \in Nat
          /\ Between(dec.target, 0, Whole) /\ InRange(Sizing)
      BY <1>1, <2>2, MoneyIsWhole DEF PositionInv, TypeOK, Sizing
    <2>4. Target \in Nat /\ Target <= Whole
      <3>1. Between(Target, 0, Whole)
        BY <2>3, CappedIsShare DEF Target, Between
      <3> QED
        BY <3>1 DEF Between
    <2> PICK t : t = Target
      OBVIOUS
    <2>5. ~Buys(t)' /\ ~Sells(t)'
      <3>1. CASE dec.kind = "buy" /\ Buys(Target) /\ Buy(Quote(Target), dec.plan)
        BY <1>1, <2>2, <2>4, <3>1, BuySettles
      <3>2. CASE Sells(Target) /\ Sell(Excess(Target))
        BY <1>1, <2>2, <2>4, <3>2, SellSettles
      <3>3. CASE dec.kind = "sell" /\ dec.target = 0 /\ Sell(qty)
        <4>1. t = 0
          <5> DEFINE limit == Sizing.risk \div Sizing.stop
          <5>1. limit \in Nat
            <6>1. Sizing.risk \in Nat /\ Sizing.stop \in Nat \ {0}
              BY <2>3 DEF InRange, Between
            <6> QED
              BY <6>1, QuotientBound
          <5>2. t = Clamp(Lesser(0, limit), 0, Whole)
            BY <3>3 DEF Target, Capped
          <5> HIDE DEF limit
          <5> QED
            BY <5>1, <5>2 DEF Clamp, Lesser, Greater, Whole
        <4>2. qty' = 0
          BY <2>3, <3>3 DEF Sell
        <4>3. cash' \in Nat
          <5>1. Value(qty) \in Nat
            BY <1>1, <2>3, MoneyIsWhole DEF PositionInv
          <5> QED
            BY <2>3, <3>3, <5>1 DEF Sell
        <4> QED
          BY <2>2, <2>3, <4>1, <4>2, <4>3, SoldOutSettles
      <3> QED
        BY <2>1, <3>1, <3>2, <3>3 DEF Executes
    <2> QED
      BY <2>5
  <1>2. PositionInv /\ [Next]_vars => [Settled]_vars
    BY <1>1
  <1> QED
    BY <1>2, PositionInvariance, PTL DEF Spec, AdjustmentSettles

=============================================================================
