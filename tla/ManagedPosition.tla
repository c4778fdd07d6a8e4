--------------------------- MODULE ManagedPosition ---------------------------
(***************************************************************************)
(* A position from verdict to verdict: the tracker gives the regime in     *)
(* force, resolve_plan the numbers, plan_adjustment the order that moves   *)
(* the book to its target, the runner sizes that order again when it       *)
(* places it, on_fill averages the cost, and _active_stop follows.         *)
(*                                                                         *)
(* RealtimeRunner has the same steps with their crashes and refusals, and  *)
(* no numbers; here the numbers are those of the code and every step       *)
(* succeeds, commission left out.  Money is whole USDT; `qty' counts       *)
(* hundredths of a coin, `entry' and stops hundredths of a USDT.  A        *)
(* verdict that the cost gate of an opening refuses is no step.            *)
(***************************************************************************)
EXTENDS RegimeTracker, ExecutionPlan

CONSTANTS
    Cash,        \* USDT of the account at the start
    Prices,      \* price levels, in USDT
    Vols,        \* daily volatilities, in basis points
    Convictions, \* in percent
    Choices,     \* postures the agent may choose
    MaxTrades    \* bound: orders that fill

\* A hundredth of a coin is worth no more than the smallest order (10 USDT).
ASSUME MoneyAssumption == Cash \in Nat /\ Prices \subseteq 1..1000 /\ MaxTrades \in Nat
ASSUME RegimesAssumption == Labels = Regimes
ASSUME VerdictAssumption ==
    Vols \subseteq Nat \ {0} /\ Convictions \subseteq 0..100 /\ Choices \subseteq Postures

VARIABLES
    price,  \* of the event being evaluated
    cash,   \* usdt_free
    qty,    \* btc_qty
    entry,  \* entry_price, 0 for None
    high,   \* high_since_entry
    plan,   \* execution_plan
    dec,    \* the decision on its way to process_event
    trades  \* orders that have filled

book == <<cash, qty, entry, high, plan, trades>>
vars == <<tracker, history, price, book, dec>>

Value(q) == (q * price) \div 100
Equity   == cash + Value(qty)

MinNotional == 10
DeadBand    == 1500

Long == Value(qty) > MinNotional

NoDecision == [kind |-> "none"]

Between(x, low, top) == x \in Int /\ low <= x /\ x <= top

TypeOK ==
    /\ TrackerTypeOK
    /\ price \in Prices /\ cash \in Nat /\ qty \in Nat
    /\ entry \in Nat /\ high \in Nat
    /\ trades \in 0..MaxTrades
    /\ dec.kind \in {"none", "buy", "sell"}
    /\ dec.kind # "none" => Between(dec.target, 0, Whole)

-----------------------------------------------------------------------------
(* The stop.                                                               *)

(* _break_even_lock_is_economic: three round trips of 20 basis points.     *)
EvenIsEconomic == plan.evenLock > 60

(* _active_stop.                                                           *)
ActiveStop ==
    LET initial  == (entry * (Whole - plan.stop)) \div Whole
        locked   == (entry * (Whole + plan.evenLock)) \div Whole
        trailing == (high * 100 * (Whole - plan.trail)) \div Whole
        even     == high * Whole >= (entry \div 100) * (Whole + plan.evenActivation)
        floor    == IF even /\ EvenIsEconomic THEN Greater(initial, locked) ELSE initial
    IN IF high * Whole < (entry \div 100) * (Whole + plan.activation) THEN floor
       ELSE Greater(floor, trailing)

-----------------------------------------------------------------------------
(* plan_adjustment, for a plan p.                                          *)

Capped(target, p) == Clamp(Lesser(target, p.risk \div p.stop), 0, Whole)

(* Mutant: the target is a share of free cash.                             *)
GapOfCash(t) == (t * cash) \div Whole

Gap(t) == (t * Equity) \div Whole - Value(qty)

Drifts(t) ==
    LET opens  == Value(qty) * 100 <= Equity /\ t > 0
        closes == t <= 0 /\ qty > 0
    IN opens \/ closes \/ Gap(t) * Whole >= DeadBand * Equity
                       \/ -Gap(t) * Whole >= DeadBand * Equity

(* Mutant: a top-up buys the whole target again.                           *)
QuoteOfTarget(t) == (t * Equity) \div Whole

Quote(t)  == Lesser(Gap(t), cash)
Excess(t) == Lesser((-Gap(t) * 100) \div price, qty)

Buys(t)  == Drifts(t) /\ Gap(t) > 0 /\ Quote(t) >= MinNotional
Sells(t) == Drifts(t) /\ Gap(t) <= 0 /\ Excess(t) > 0 /\ Value(Excess(t)) >= MinNotional

-----------------------------------------------------------------------------
(* evaluate, from a verdict to a decision.                                 *)

(* What verdicts can ask for in a regime: a plan and the capped target.    *)
Aims == [r \in Labels |->
    LET aim(wants, p, conviction) ==
            [plan |-> p, target |-> Capped(Blend(r, wants, conviction, p.allocation), p)]
    IN {aim(wants, Plan(r, posture, conviction, vol), conviction) :
            wants \in BOOLEAN, posture \in Choices, conviction \in Convictions, vol \in Vols}]

(* The labels the model may give, once confronted with the average.        *)
Seen == {Corroborated(l, side) : l \in Labels, side \in {"above", "below", "unknown"}}

Decided(t, kind, p) ==
    [kind |-> kind, target |-> t, plan |-> p, topsUp |-> Value(qty) * 100 > Equity,
     price |-> price, qty |-> qty]

Decide ==
    /\ dec = NoDecision /\ trades < MaxTrades
    /\ \E label \in Seen : Observe(label)
    /\ \E aim \in Aims[regime'] :
           LET t == aim.target IN
           \/ Buys(t)  /\ dec' = Decided(t, "buy", IF Long THEN DefaultPlan ELSE aim.plan)
           \/ Sells(t) /\ dec' = Decided(t, "sell", DefaultPlan)
           \/ ~Buys(t) /\ ~Sells(t) /\ UNCHANGED dec
    /\ UNCHANGED <<price, book>>

-----------------------------------------------------------------------------
(* process_event and on_fill.                                              *)

Filled == trades' = trades + 1

Forget == entry' = 0 /\ high' = 0 /\ plan' = DefaultPlan

(* Mutant: the plan an opening was sized under is not recorded.            *)
BuyUnplanned(quote, p) ==
    LET base == (quote * 100) \div price IN
    /\ cash' = cash - quote
    /\ qty' = qty + base
    /\ Filled
    /\ IF entry # 0
         THEN /\ entry' = (entry * qty + price * 100 * base) \div (qty + base)
              /\ high' = Greater(high, price)
         ELSE entry' = price * 100 /\ high' = price
    /\ UNCHANGED plan

(* Adding averages the cost and keeps plan and high watermark.             *)
Buy(quote, p) ==
    LET base == (quote * 100) \div price IN
    /\ cash' = cash - quote
    /\ qty' = qty + base
    /\ Filled
    /\ IF entry # 0
         THEN /\ entry' = (entry * qty + price * 100 * base) \div (qty + base)
              /\ high' = Greater(high, price)
              /\ UNCHANGED plan
         ELSE entry' = price * 100 /\ high' = price /\ plan' = p

(* Mutant: what remains after a trim is a new position at today's price.   *)
SellRestarts(base) ==
    /\ cash' = cash + Value(base)
    /\ qty' = qty - base
    /\ Filled
    /\ IF base < qty THEN entry' = price * 100 /\ high' = price /\ UNCHANGED plan ELSE Forget

(* Selling part leaves cost, high watermark and plan as they are.          *)
Sell(base) ==
    /\ cash' = cash + Value(base)
    /\ qty' = qty - base
    /\ Filled
    /\ IF base < qty THEN UNCHANGED <<entry, high, plan>> ELSE Forget

(* The strategy the order is sized under: the position's, for a top-up or  *)
(* a trim, and the decision's for an opening.                              *)
Sizing == IF dec.kind = "sell" \/ dec.topsUp THEN plan ELSE dec.plan

Target == Capped(dec.target, Sizing)

(* POSITION_CHANGED                                                        *)
Expected == Long <=> (dec.kind = "sell" \/ dec.topsUp)

RemainderIsProtectable(base) == base = qty \/ Value(qty - base) >= MinNotional

Executes ==
    /\ dec # NoDecision /\ Expected
    /\ \/ dec.kind = "buy" /\ Buys(Target) /\ Buy(Quote(Target), dec.plan)
       \/ dec.kind = "sell" /\ dec.target = 0 /\ Sell(qty)
       \/ /\ dec.kind = "sell" /\ dec.target > 0
          /\ Sells(Target) /\ RemainderIsProtectable(Excess(Target))
          /\ Sell(Excess(Target))
    /\ dec' = NoDecision
    /\ UNCHANGED <<tracker, history, price>>

(* CAPITAL_INSUFFICIENT, ADJUSTMENT_NO_LONGER_NEEDED, RESIDUAL_BELOW_MIN_  *)
(* NOTIONAL, REMAINDER_UNPROTECTABLE.                                      *)
Declined ==
    /\ dec # NoDecision
    /\ \/ ~Expected
       \/ dec.kind = "buy" /\ ~Buys(Target)
       \/ /\ dec.kind = "sell" /\ dec.target > 0
          /\ ~(Sells(Target) /\ RemainderIsProtectable(Excess(Target)))
    /\ dec' = NoDecision
    /\ UNCHANGED <<tracker, history, price, book>>

(* The price moves to p.  A stop at or above it sells the position;        *)
(* otherwise the event restores it: the high watermark follows, a book     *)
(* that has become FLAT is forgotten, and one that has become LONG without *)
(* an order is adopted at the price it has now.                            *)
PriceMoves(p) ==
    /\ price' = p
    /\ \/ /\ entry # 0 /\ p * 100 <= ActiveStop
          /\ cash' = cash + (qty * p) \div 100 /\ qty' = 0 /\ Forget
       \/ /\ entry = 0 \/ p * 100 > ActiveStop
          /\ IF (qty * p) \div 100 > MinNotional
               THEN /\ entry' = IF entry = 0 THEN p * 100 ELSE entry
                    /\ high' = Greater(high, p)
                    /\ UNCHANGED plan
               ELSE Forget
          /\ UNCHANGED <<cash, qty>>
    /\ UNCHANGED <<tracker, history, trades, dec>>

TimePasses == Age /\ UNCHANGED <<price, book, dec>>

Init ==
    /\ TrackerInit
    /\ price \in Prices /\ cash = Cash /\ qty = 0
    /\ entry = 0 /\ high = 0 /\ plan = DefaultPlan
    /\ dec = NoDecision /\ trades = 0

Next ==
    \/ Decide \/ Executes \/ Declined \/ TimePasses
    \/ \E p \in Prices \ {price} : PriceMoves(p)

Spec == Init /\ [][Next]_vars

-----------------------------------------------------------------------------
(* What StopOnlyRises rests on: every plan in use keeps its numbers in     *)
(* range, and no order is on its way beyond the last one modelled.         *)
InRange(p) ==
    /\ Between(p.stop, 150, 2200) /\ Between(p.trail, 100, 1800)
    /\ Between(p.activation, 0, 3000) /\ Between(p.evenActivation, 0, 3000)
    /\ Between(p.evenLock, 0, 3000)
    /\ {p.risk, p.allocation} \subseteq Nat

PositionInv ==
    /\ TypeOK /\ TrackerInv
    /\ InRange(plan)
    /\ dec.kind = "buy" => InRange(dec.plan)
    /\ dec.kind # "none" => trades < MaxTrades

(* What OpeningKeepsBudget rests on: no plan on its way risks more than    *)
(* its ceiling, and what the code takes for a position has an entry.       *)
Budgeted(p) == p.ceiling \in Nat /\ p.risk <= p.ceiling * Whole

BudgetInv ==
    /\ dec.kind = "buy" => Budgeted(dec.plan)
    /\ Long => entry # 0

-----------------------------------------------------------------------------
(* Properties.                                                             *)

Held    == entry # 0 /\ entry' # 0
ToppedUp == Held /\ qty' > qty

(* "Trimming, not leaving ... the cost basis and the high watermark        *)
(* stand", "a stop that was raised stays raised": while nothing is bought, *)
(* no event, verdict, change of regime or trim ever lowers the stop.       *)
StopOnlyRises == [][Held /\ qty' <= qty => ActiveStop' >= ActiveStop]_vars

(* "allocation * stop is the arithmetic truth of what a position loses at  *)
(* its stop": whatever the price did between verdict and order, a position *)
(* that has just been opened loses no more of the equity at its stop than  *)
(* its regime permits in its posture.                                      *)
OpeningRisksItsBudget ==
    [][entry = 0 /\ entry' # 0 /\ qty' > qty =>
           (qty * (entry - ActiveStop))' <= plan'.ceiling * Equity]_vars

(* The same for money of any grain: the stop is placed to a hundredth of a *)
(* USDT and equity is counted in whole ones, which at the stop may cost    *)
(* that much more of the equity the order was sized by.                    *)
OpeningKeepsBudget ==
    [][entry = 0 /\ entry' # 0 /\ qty' > qty =>
           (qty * (entry - ActiveStop))' <= plan'.ceiling * Equity + (plan.stop + qty)']_vars

(* The order that a decision leads to brings the book to its target: the   *)
(* same target asked for again at the same price moves nothing.            *)
AdjustmentSettles ==
    [][trades' # trades => \E t \in {Target} : ~(Buys(t) \/ Sells(t))']_vars

(* "The gap closed between deciding and ordering": an order is declined    *)
(* only if the price or the book has moved since the decision.             *)
DeclinedBecauseItMoved ==
    [][dec # NoDecision /\ dec' = NoDecision /\ trades' = trades =>
           price # dec.price \/ qty # dec.qty]_vars

(* "A top-up carries no plan, deliberately, so that it cannot move the     *)
(* stop of the position it is adding to": bought above cost, it does not   *)
(* lower the stop.                                                         *)
TopUpKeepsStop == [][ToppedUp /\ price * 100 >= entry => ActiveStop' >= ActiveStop]_vars
=============================================================================
