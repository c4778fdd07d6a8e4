------------------------------- MODULE Rollout ------------------------------
(***************************************************************************)
(* Rollout: the walk of the exposure agent through a window of hourly      *)
(* bars, in training and in evaluation.  It decides once per cadence, fills *)
(* at the next bar, is rewarded over the cadence that follows the fill,    *)
(* and never bridges a hole of the dataset; what it perceives are the      *)
(* closes of the days before the bar.                                      *)
(*                                                                         *)
(* Prices are logarithms in whole units and Fee is the logarithm of what a *)
(* side costs, so that the book multiplies by adding.                      *)
(***************************************************************************)
EXTENDS Integers, Sequences, FiniteSets, FiniteSetsExt

CONSTANTS
    LogPrices,  \* prices a bar can close at
    Holes,      \* lengths of the hole before a bar, 0 for none
    Fee,        \* -log(1 - fee_per_side)
    Cadence,    \* cadence_hours
    DayLength,  \* hours in a day
    Warmup,     \* MIN_DAILY_HISTORY
    Bars        \* how many bars the window has

ASSUME RolloutAssumption ==
    /\ LogPrices \subseteq Nat /\ Holes \subseteq Nat /\ Fee \in Nat
    /\ {Cadence, DayLength, Bars} \subseteq Nat \ {0} /\ Warmup \in Nat

VARIABLES
    series,   \* the bars: [at, price]
    index,    \* the bar of the next decision
    marked,   \* bars marked to market so far (last_mark_index)
    bought,   \* log units held and the entry price, or Flat
    cash,     \* log cash, when flat
    held,     \* holding_hours, of which the policy is told
    exposed,  \* exposed_hours
    earned,   \* the rewards of the actions taken, as action_rewards defines them
    bridged,  \* what a held position earned over bars no reward covers
    walk,     \* "on", "ended" or, after the tail was marked, "closed"
    trades    \* the fills: [bar, side]

rolloutVars == <<series, index, marked, bought, cash, held, exposed, earned, bridged, walk, trades>>

Flat == [units |-> 0, entry |-> -1]
Long == bought # Flat
At(i) == series[i].at
PriceOf(i) == series[i].price
Wealth(i) == IF Long THEN bought.units + PriceOf(i) ELSE cash

RolloutInit ==
    /\ \E p \in [1..Bars -> LogPrices], hole \in Holes, where \in 2..Bars :
         series = [i \in 1..Bars |-> [at |-> i - 1 + (IF i >= where THEN hole ELSE 0),
                                      price |-> p[i]]]
    /\ index = 1 /\ marked = 0 /\ bought = Flat /\ cash = 0 /\ held = 0
    /\ exposed = {} /\ earned = 0 /\ bridged = 0 /\ walk = "on" /\ trades = <<>>

\* build_daily_perception: the day of a bar.
DayOf(i) == At(i) \div DayLength

\* Mutant: today counts as well.
DaysUpTo(i) == {DayOf(j) : j \in {k \in 1..Bars : DayOf(k) <= DayOf(i)}}

\* The days that have bars and were complete before bar i.  A day without bars does not appear.
DaysBefore(i) == {DayOf(j) : j \in {k \in 1..Bars : DayOf(k) < DayOf(i)}}

\* The bar whose close is the close of day d.
CloseOf(d) == Max({j \in 1..Bars : DayOf(j) = d})

\* The bars a decision's fill and reward refer to are where the clock says.
Fill == index + 1
Reward == index + 1 + Cadence
NoHole == At(Fill) = At(index) + 1 /\ At(Reward) = At(Fill) + Cadence

\* Every bar since the last decision is marked, with the book that was held there.
Mark(upto) ==
    /\ marked' = upto
    /\ exposed' = exposed \cup {i \in (marked + 1)..upto : Long}

\* action_rewards.
Rewarded(long, move) ==
    IF long THEN move - (IF Long THEN 0 ELSE Fee) ELSE IF Long THEN -Fee ELSE 0

\* One decision, its fill and its reward.  The policy may choose either exposure.
Step(long) ==
    /\ Cardinality(DaysBefore(index)) >= Warmup /\ Reward <= Bars /\ NoHole
    /\ Mark(index)
    /\ earned' = earned + Rewarded(long, PriceOf(Reward) - PriceOf(Fill))
    /\ bridged' = bridged + (IF Long /\ trades # <<>> THEN PriceOf(Fill) - PriceOf(trades[Len(trades)].upto) ELSE 0)
    /\ IF long /\ ~Long
       THEN /\ bought' = [units |-> cash - Fee - PriceOf(Fill), entry |-> PriceOf(Fill)]
            /\ cash' = 0 /\ held' = 0
       ELSE IF ~long /\ Long
       THEN bought' = Flat /\ cash' = Wealth(Fill) - Fee /\ held' = 0
       ELSE held' = (IF Long THEN held + Cadence ELSE held) /\ UNCHANGED <<bought, cash>>
    /\ trades' = Append(trades, [bar |-> Fill, long |-> long, seen |-> DaysBefore(index), upto |-> Reward])
    /\ index' = index + Cadence
    /\ UNCHANGED <<series, walk>>

\* Too little history, or a hole between the decision and its reward.
Skip ==
    /\ \/ Cardinality(DaysBefore(index)) < Warmup
       \/ Reward <= Bars /\ ~NoHole
    /\ Mark(index) /\ index' = index + Cadence
    /\ UNCHANGED <<series, bought, cash, held, earned, bridged, walk, trades>>

Advance ==
    /\ walk = "on" /\ index <= Bars
    /\ Skip \/ \E long \in BOOLEAN : Step(long)

\* The window is over: the tail is marked and what is held is sold at the last close.
Finish ==
    /\ walk = "on"
    /\ index > Bars \/ (Cardinality(DaysBefore(index)) >= Warmup /\ Reward > Bars)
    /\ Mark(Bars) /\ walk' = "closed"
    /\ UNCHANGED <<series, index, bought, cash, held, earned, bridged, trades>>

RolloutNext == Advance \/ Finish
RolloutSpec == RolloutInit /\ [][RolloutNext]_rolloutVars

-----------------------------------------------------------------------------

RolloutTypeOK ==
    /\ index \in 1..(Bars + Cadence) /\ marked \in 0..Bars /\ held \in Nat
    /\ walk \in {"on", "closed"}

HoldsAt(i) ==
    LET S == {k \in DOMAIN trades : trades[k].bar <= i}
    IN  S # {} /\ trades[Max(S)].long

\* What is learned from is what the book earned: the rewards of the actions taken, and the
\* moves of the position over the holes they do not cover, add up to the growth of the
\* book at the last bar that was rewarded; the hours counted as exposed are those the book
\* was; and no decision saw the close of a day that was not over.
RewardIsTheBook ==
    /\ trades # <<>> => Wealth(trades[Len(trades)].upto) = earned + bridged
    /\ exposed = {i \in 1..marked : HoldsAt(i)}
    /\ \A k \in DOMAIN trades : \A d \in trades[k].seen : CloseOf(d) < trades[k].bar - 1
    /\ walk = "closed" => marked = Bars
=============================================================================
