---------------------------- MODULE DailyHistory ----------------------------
(***************************************************************************)
(* The completed daily closes that the policies perceive: read from the    *)
(* venue at the start and every half hour, filtered by what the HOST clock *)
(* says is closed, merged into a bounded dictionary.                       *)
(*                                                                         *)
(* A day has two halves as far as this module goes: "midday", when every   *)
(* clock agrees on the date, and "midnight", the last seconds of it, when  *)
(* a host clock that is ahead is already in the next day.                  *)
(***************************************************************************)
EXTENDS Integers, FiniteSets, FiniteSetsExt

CONSTANTS
    Closes,     \* prices a day can close at
    MaxHistory, \* MAX_DAILY_HISTORY
    Fetch,      \* limit of recent_closed_klines
    FirstDay, LastDay  \* bound: the days modelled

ASSUME HistoryAssumption ==
    /\ MaxHistory \in Nat \ {0} /\ Fetch \in Nat /\ MaxHistory < Fetch
    /\ FirstDay \in Nat /\ LastDay \in Nat /\ FirstDay <= LastDay

VARIABLES
    close,    \* close[d]: the price of day d, final once the day is over (external)
    today,    \* the day the venue is in (external)
    half,     \* "midday" or "midnight" (external)
    ahead,    \* the host clock is ahead of the venue's (external)
    daily     \* _daily_closes

dailyVars == <<close, today, half, ahead, daily>>

Empty == [d \in {} |-> 0]

\* recent_closed_klines: the newest Fetch bars, without those the host's clock
\* (time.time, not the measured server time) has still forming.
ClosedByHost(d) == d < today \/ (d = today /\ half = "midnight" /\ ahead)
ClosedBars ==
    [d \in {x \in FirstDay..today : x > today - Fetch /\ ClosedByHost(x)} |-> close[d]]

\* Mutant: a day that is held is not read again.
MergeNew(held, bars) ==
    LET all == DOMAIN held \cup DOMAIN bars
        kept == {d \in all : Cardinality({x \in all : x > d}) < MaxHistory}
    IN  [d \in kept |-> IF d \in DOMAIN held THEN held[d] ELSE bars[d]]

\* bootstrap_daily: newer readings replace older ones, the oldest days make room.
Merge(held, bars) ==
    LET all == DOMAIN held \cup DOMAIN bars
        kept == {d \in all : Cardinality({x \in all : x > d}) < MaxHistory}
    IN  [d \in kept |-> IF d \in DOMAIN bars THEN bars[d] ELSE held[d]]

DailyInit ==
    /\ close \in [FirstDay..FirstDay -> Closes]
    /\ today = FirstDay /\ half = "midday" /\ ahead \in BOOLEAN
    /\ daily = Empty

\* The price of the forming day moves, the day ends, the clock is stepped.
Market ==
    /\ \E p \in Closes : close' = [close EXCEPT ![today] = p]
    /\ UNCHANGED <<today, half, ahead, daily>>

Midnight == half = "midday" /\ half' = "midnight" /\ UNCHANGED <<close, today, ahead, daily>>

DayEnds ==
    /\ half = "midnight" /\ today < LastDay
    /\ today' = today + 1 /\ half' = "midday"
    /\ close' = [d \in FirstDay..(today + 1) |-> IF d <= today THEN close[d] ELSE close[today]]
    /\ UNCHANGED <<ahead, daily>>

Drift == ahead' = ~ahead /\ UNCHANGED <<close, today, half, daily>>

\* _refresh_daily_history; when the request fails, what is held stays.
Refresh ==
    /\ daily' = Merge(daily, ClosedBars)
    /\ UNCHANGED <<close, today, half, ahead>>

\* A new process starts with nothing and reads before it trades.
Reboot ==
    /\ daily' = Merge(Empty, ClosedBars)
    /\ UNCHANGED <<close, today, half, ahead>>

DailyNext == Market \/ Midnight \/ DayEnds \/ Drift \/ Refresh \/ Reboot

DailySpec == DailyInit /\ [][DailyNext]_dailyVars

-----------------------------------------------------------------------------

DailyTypeOK ==
    /\ today \in FirstDay..LastDay /\ half \in {"midday", "midnight"} /\ ahead \in BOOLEAN
    /\ close \in [FirstDay..today -> Closes]
    /\ DOMAIN daily \subseteq FirstDay..today /\ Cardinality(DOMAIN daily) <= MaxHistory

\* "the agent sees days that have ended and never today's partial candle"
\* (realtime_demo.py:333-334).
CompletedDaysOnly == \A d \in DOMAIN daily : d < today

\* Refreshing is self-healing (realtime_demo.py:1418-1424): once read under a clock that
\* is right, the history is the newest days that have ended, with the prices they ended
\* at, whatever was read wrongly or missed before.  Only the day that is still forming,
\* if it was taken for closed, stays wrong until it ends.
RefreshHeals ==
    [][(Refresh /\ ~ahead /\ today \notin DOMAIN daily) =>
         daily' = [d \in {x \in FirstDay..(today - 1) : x >= today - MaxHistory} |->
                     close[d]]]_dailyVars

=============================================================================
