---------------------------- MODULE TrancheLadder ----------------------------
(***************************************************************************)
(* TrancheLadder: the simulation of a ladder of tranches over past bars.   *)
(* Each slot is bought a spacing below the last purchase and sold at its   *)
(* own profit or at its own stop; a loss of the regime and a fall of the   *)
(* whole account empty the ladder, and the second halts it until the long  *)
(* average is reclaimed.  The account is marked on every bar.              *)
(*                                                                         *)
(* A tranche is one unit, and the distances between prices are amounts     *)
(* instead of shares of a price; the sizing of a tranche is left out.      *)
(***************************************************************************)
EXTENDS Integers, Sequences, SequencesExt, Selection

CONSTANTS
    LadderPrices,  \* of the closes and the lows
    Slots, Spacing, TakeProfit, TrancheStop,
    Disaster,      \* the fall of the account that halts the ladder
    LadderFee,     \* of one order
    MaxBars        \* bound: bars of one window

ASSUME LadderAssumption ==
    /\ LadderPrices \subseteq Nat \ {0} /\ IsFiniteSet(LadderPrices) /\ LadderPrices # {}
    /\ Slots \in Nat \ {0} /\ MaxBars \in Nat
    /\ {Spacing, TakeProfit, TrancheStop, Disaster} \subseteq Nat \ {0} /\ LadderFee \in Nat

VARIABLES
    bar,       \* bars walked
    ladder,    \* the state of the simulation
    account,   \* what the account was worth at the close of every bar, the capital first
    disasters  \* times the account was emptied for its fall

ladderVars == <<bar, ladder, account, disasters>>

Capital == Slots * (Max(LadderPrices) + LadderFee)
Anywhere == Max(LadderPrices) + 1       \* next_buy is None: the next purchase has no ceiling

Worth(l, price) == l.cash + Len(l.tranches) * price

LadderInit ==
    /\ bar = 0 /\ account = <<Capital>> /\ disasters = 0
    /\ ladder = [cash |-> Capital, tranches |-> <<>>, next |-> Anywhere, peak |-> Capital,
                 drawdown |-> 0, halted |-> FALSE, buys |-> 0, sells |-> 0, losing |-> 0]

\* A bar, and where its close stands to the long average, which a gap of the data withholds.
LadderBars == {b \in [close : LadderPrices, low : LadderPrices, open : LadderPrices,
                average : {"above", "below", "withheld"}] :
           b.low <= b.close /\ b.open \in {b.low, b.close}}

\* Sell the tranches bought at these prices, each at its price; the others stay in order.
Sell(l, gone, at) ==
    LET sold == Kept(l.tranches, gone)
        due == SumOver([i \in DOMAIN sold |-> at[sold[i]] - LadderFee])
        lost == Kept(sold, {entry \in gone : at[entry] < entry})
    IN  [l EXCEPT !.tranches = Kept(@, LadderPrices \ gone), !.cash = @ + due,
                  !.sells = @ + Len(sold), !.losing = @ + Len(lost)]
Everywhere(price) == [entry \in LadderPrices |-> price]
SellAll(l, price) == [Sell(l, LadderPrices, Everywhere(price)) EXCEPT !.next = Anywhere]

\* The disaster stop starts the measure of the fall again from what is left.
IsDisaster(l, b) == ~l.halted /\ Worth(l, b.close) <= l.peak - Disaster
DisasterStop(l, b) ==
    IF ~IsDisaster(l, b) THEN l
    ELSE LET out == SellAll(l, b.close) IN [out EXCEPT !.halted = TRUE, !.peak = out.cash]

RegimeExit(l, b) ==
    IF b.average = "below" /\ l.tranches # <<>> THEN SellAll(l, b.close) ELSE l

\* The stop of a tranche is crossed by the low and filled at the worse of it and the open.
StopFill(entry, b) == IF entry - TrancheStop < b.open THEN entry - TrancheStop ELSE b.open
StopTranches(l, b) ==
    Sell(l, {entry \in LadderPrices : b.low <= entry - TrancheStop},
         [entry \in LadderPrices |-> StopFill(entry, b)])

\* Mutant: any profit taken lets the next purchase be anywhere.
TakeProfits_Free(l, b) ==
    LET sold == Sell(l, {entry \in LadderPrices : b.close >= entry + TakeProfit}, Everywhere(b.close))
    IN  IF sold.tranches # l.tranches THEN [sold EXCEPT !.next = Anywhere] ELSE sold
\* Profits are taken at a close; the last one of the ladder starts it again.
TakeProfits(l, b) ==
    LET sold == Sell(l, {entry \in LadderPrices : b.close >= entry + TakeProfit}, Everywhere(b.close))
    IN  IF l.tranches # <<>> /\ sold.tranches = <<>> THEN [sold EXCEPT !.next = Anywhere] ELSE sold

\* The next rung: a free slot, an admissible regime and a price a spacing below the last.
Buy(l, b) ==
    IF Len(l.tranches) < Slots /\ b.average = "above" /\ b.close <= l.next /\ l.cash >= b.close + LadderFee
    THEN [l EXCEPT !.tranches = Append(@, b.close), !.cash = @ - b.close - LadderFee,
                   !.buys = @ + 1, !.next = b.close - Spacing]
    ELSE l

\* A new peak, or the distance from it.
MarkEquity(l, price) ==
    IF Worth(l, price) > l.peak THEN [l EXCEPT !.peak = Worth(l, price)]
    ELSE [l EXCEPT !.drawdown = Max({@, l.peak - Worth(l, price)})]

\* run_simulation: one bar, in the order of the code.  A halted ladder waits for the long
\* average, and buys on the bar that reclaims it.
Walk(l, b) ==
    LET sold == TakeProfits(StopTranches(RegimeExit(DisasterStop(l, b), b), b), b)
        free == IF sold.halted /\ b.average = "above" THEN [sold EXCEPT !.halted = FALSE, !.next = Anywhere]
                ELSE sold
    IN  MarkEquity(IF free.halted THEN free ELSE Buy(free, b), b.close)

WalkBar ==
    /\ bar < MaxBars /\ bar' = bar + 1
    /\ \E b \in LadderBars :
         /\ ladder' = Walk(ladder, b)
         /\ account' = Append(account, Worth(ladder', b.close))
         /\ disasters' = disasters + IF IsDisaster(ladder, b) THEN 1 ELSE 0

LadderNext == WalkBar

LadderTypeOK ==
    /\ bar \in 0..MaxBars /\ Len(ladder.tranches) <= Slots /\ disasters <= bar
    /\ \A i \in DOMAIN ladder.tranches : ladder.tranches[i] \in LadderPrices

-----------------------------------------------------------------------------

\* The largest distance of the account from the peak before it.
Fall ==
    LET spans == {p \in (DOMAIN account) \X (DOMAIN account) : p[1] <= p[2]}
    IN  Max({account[p[1]] - account[p[2]] : p \in spans})

\* What the report says of the ladder holds: no two open tranches are closer than the
\* spacing, whichever was sold in between; every purchase was sold or is open; a halted
\* ladder holds nothing; and, as long as the account was never emptied for its fall, the
\* drawdown reported is the fall of the account.
LadderIsHonest ==
    /\ \A i, j \in DOMAIN ladder.tranches :
         i < j => ladder.tranches[j] <= ladder.tranches[i] - Spacing
    /\ ladder.buys = ladder.sells + Len(ladder.tranches)
    /\ ladder.halted => ladder.tranches = <<>>
    /\ disasters = 0 => ladder.drawdown = Fall

\* "Equity is marked to market on EVERY bar": the worst fall of the account is reported.
FallIsReported == ladder.drawdown = Fall
=============================================================================
