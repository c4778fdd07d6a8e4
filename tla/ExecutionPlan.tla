---------------------------- MODULE ExecutionPlan ----------------------------
(***************************************************************************)
(* What a posture becomes in a regime: the tables and the arithmetic of    *)
(* resolve_plan in regime_playbook.py, in whole numbers.                   *)
(*                                                                         *)
(* Fractions are basis points and are rounded down; multiples of           *)
(* volatility are tenths, scales are percent or per mille, and a risk,     *)
(* being the product of two fractions, is in units of 10^-8.               *)
(***************************************************************************)
EXTENDS Integers

Regimes  == 0..3
Postures == {"DEFENSIVA", "NEUTRAL", "AGRESIVA"}

(* PLAYBOOK                                                                *)
Row(allocation, stop, trail, activation, evenActivation, evenLock, risk, scale, invested) ==
    [allocation |-> allocation, stop |-> stop, trail |-> trail, activation |-> activation,
     evenActivation |-> evenActivation, evenLock |-> evenLock, risk |-> risk,
     scale |-> scale, invested |-> invested]

Strategy == [r \in Regimes |->
    CASE r = 0 -> Row(4500, 20, 16, 10, 26, 5,  360, 1414, FALSE)
      [] r = 1 -> Row(2000, 16, 12,  8, 20, 4,  130, 1000, FALSE)
      [] r = 2 -> Row(6500, 25, 20, 12, 32, 6,  650, 2000, TRUE)
      [] r = 3 -> Row(9000, 35, 28, 15, 43, 8, 1200, 2645, TRUE)]

(* corroborated_regime: a label whose doctrine describes the other side of *)
(* the 200-day average gives way to the cautious regime of the side the    *)
(* price is on; an unreadable average changes nothing.                     *)
Corroborated(label, side) ==
    IF side = "unknown" \/ (side = "above") = (label \in {2, 3}) THEN label
    ELSE IF side = "above" THEN 2 ELSE 0

SizeScale == [DEFENSIVA |-> 55, NEUTRAL |-> 100, AGRESIVA |-> 130]
StopScale == [DEFENSIVA |-> 75, NEUTRAL |-> 100, AGRESIVA |-> 125]

Lesser(a, b)   == IF a <= b THEN a ELSE b
Greater(a, b)  == IF a >= b THEN a ELSE b
Clamp(v, l, h) == Greater(l, Lesser(h, v))

Whole == 10000

(* A share of equity as the posture sizes it.                              *)
Sized(share, posture) == (share * SizeScale[posture]) \div 100

(* What a regime will risk to its stop in a posture, as a share of equity. *)
RiskCeiling(regime, posture) == Clamp(Sized(Strategy[regime].risk, posture), 50, 1200)

(* The allocation comes down where the stop would lose more than that.     *)
Allocation(wanted, stop, ceiling) ==
    IF wanted * stop > ceiling * Whole THEN Lesser(9500, (ceiling * Whole) \div stop)
                                       ELSE wanted

(* A multiple of volatility, in tenths, as the posture widens it.          *)
Widened(multiple, vol, posture) == (multiple * vol * StopScale[posture]) \div 1000

Tenths(multiple, vol) == (multiple * vol) \div 10

(* The volatility of the regime's horizon.                                 *)
HorizonVol(regime, vol) == (vol * Strategy[regime].scale) \div 1000

Stop(regime, posture, vol) ==
    Clamp(Widened(Strategy[regime].stop, vol, posture), 150, 2200)

Trail(regime, posture, vol) ==
    Clamp(Widened(Strategy[regime].trail, HorizonVol(regime, vol), posture), 100, 1800)

Activation(regime, vol) ==
    Clamp(Tenths(Strategy[regime].activation, HorizonVol(regime, vol)), 100, 1800)

(* The allocation a conviction in percent asks for.                        *)
Convinced(share, posture, conviction) ==
    (share * SizeScale[posture] * (50 + conviction)) \div Whole

Wanted(regime, posture, conviction) ==
    Clamp(Convinced(Strategy[regime].allocation, posture, conviction), 1000, 9500)

EvenActivation(regime, posture, vol) ==
    Clamp(Widened(Strategy[regime].evenActivation, vol, posture), 200, 3000)

EvenLock(regime, posture, vol) ==
    Clamp(Widened(Strategy[regime].evenLock, vol, posture), 20, 600)

(* Where the trailing stop is when the ratchet engages, above the entry.   *)
FloorCeiling(activation, trail) == ((Whole + activation) * (Whole - trail)) \div Whole - Whole

(* The ratchet, [at, lock]: never tighter than the trail, or out of reach. *)
Ratchet(activation, lock, trail) ==
    IF FloorCeiling(activation, trail) < 20
    THEN [at |-> 3000, lock |-> 20]
    ELSE [at |-> activation, lock |-> Lesser(lock, FloorCeiling(activation, trail))]

(* What an allocation loses at its stop, within the ceiling.               *)
Loss(ceiling, share, stop) == Clamp(Lesser(ceiling * Whole, share * stop), 500000, 12000000)

(* resolve_plan, for a conviction in percent and a daily volatility.       *)
Plan(regime, posture, conviction, vol) ==
    LET stop    == Stop(regime, posture, vol)
        trail   == Trail(regime, posture, vol)
        ceiling == RiskCeiling(regime, posture)
        share   == Allocation(Wanted(regime, posture, conviction), stop, ceiling)
        ratchet == Ratchet(EvenActivation(regime, posture, vol), EvenLock(regime, posture, vol),
                           trail)
    IN [ceiling        |-> ceiling,
        allocation     |-> share,
        stop           |-> stop,
        trail          |-> trail,
        activation     |-> Activation(regime, vol),
        evenActivation |-> ratchet.at,
        evenLock       |-> ratchet.lock,
        risk           |-> Loss(ceiling, share, stop)]

(* RealtimeParams as configured: the geometry of a position without plan.  *)
DefaultPlan ==
    [ceiling |-> 200, allocation |-> 8000, stop |-> 300, trail |-> 250, activation |-> 100,
     evenActivation |-> 50, evenLock |-> 25, risk |-> 2000000]

(* resolve_target_allocation: a disagreement with the regime is a size.    *)
Blend(regime, wants, conviction, allocation) ==
    LET weight == Clamp(2 * (conviction - 50), 0, 100) IN
    IF wants = Strategy[regime].invested THEN (IF wants THEN allocation ELSE 0)
    ELSE (allocation * (IF wants THEN weight ELSE 100 - weight)) \div 100
=============================================================================
