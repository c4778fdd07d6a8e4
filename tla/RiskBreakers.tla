---------------------------- MODULE RiskBreakers ----------------------------
(***************************************************************************)
(* update_equity and breaker_reason of ProtectiveDecisionEngine under      *)
(* evaluate, across days, restarts and a lost checkpoint: what a day of    *)
(* losses and a long drawdown forbid.  Equity moves with the market while  *)
(* a position is held and rests otherwise; what the decision source would  *)
(* do is free.                                                             *)
(***************************************************************************)
EXTENDS Integers

CONSTANTS
    Equities,      \* bound: the equities modelled
    Moves,         \* how far equity can move between two evaluations
    DailyLoss,     \* daily_loss_fraction, in hundredths
    MaxDrawdown,   \* max_drawdown_fraction, in hundredths
    LastDate       \* bound: days modelled

ASSUME BreakerAssumption ==
    /\ Equities \subseteq Nat \ {0} /\ Moves \subseteq Int
    /\ DailyLoss \in 0..99 /\ MaxDrawdown \in 0..99 /\ LastDate \in Nat \ {0}

VARIABLES
    date,       \* the day of the event
    equity, held,
    book,       \* [peak, start, day] of the engine; 0 is None
    opened,     \* equity of the day's first evaluation, across restarts (history)
    best        \* highest equity evaluated since the checkpoint began (history)

breakerVars == <<date, equity, held, book, opened, best>>

More(a, b) == IF a >= b THEN a ELSE b
NoBook == [peak |-> 0, start |-> 0, day |-> 0]

\* Mutant: every process starts a day of its own.
UpdateEquityAnew(b) ==
    [peak |-> More(b.peak, equity), start |-> equity, day |-> date]

\* update_equity.
UpdateEquity(b) ==
    [peak |-> More(b.peak, equity),
     start |-> IF b.day # date \/ b.start = 0 THEN equity ELSE b.start,
     day |-> date]

\* breaker_reason.
Breaker(b) ==
    \/ b.start # 0 /\ 100 * equity <= b.start * (100 - DailyLoss)
    \/ b.peak # 0 /\ 100 * equity <= b.peak * (100 - MaxDrawdown)

BreakersInit ==
    /\ date = 1 /\ equity \in Equities /\ held \in BOOLEAN
    /\ book = UpdateEquity(NoBook) /\ opened = equity /\ best = equity

\* The market moves a position.
MarketMoves ==
    /\ held /\ \E m \in Moves : equity' = equity + m
    /\ equity' \in Equities
    /\ UNCHANGED <<date, held, book, opened, best>>

NewDay ==
    /\ date < LastDate /\ date' = date + 1 /\ opened' = 0
    /\ UNCHANGED <<equity, held, book, best>>

Seen == /\ opened' = IF opened = 0 THEN equity ELSE opened
        /\ best' = More(best, equity)

\* evaluate and the order it asks for, in one event: the book first, then the breaker,
\* which only lets a position be closed, then whoever decides.  The order may fail.
Evaluate ==
    /\ book' = UpdateEquity(book) /\ Seen
    /\ held' \in IF Breaker(book') THEN {held, FALSE} ELSE BOOLEAN
    /\ UNCHANGED <<date, equity>>

\* bootstrap with the checkpoint, and without one (recover_engine_state has no equity).
RestartKept ==
    /\ book' = UpdateEquity(book) /\ Seen
    /\ UNCHANGED <<date, equity, held>>

RestartBare ==
    /\ book' = UpdateEquity(NoBook)
    /\ opened' = equity /\ best' = equity
    /\ UNCHANGED <<date, equity, held>>

BreakersNext == MarketMoves \/ NewDay \/ Evaluate \/ RestartKept \/ RestartBare
BreakersSpec == BreakersInit /\ [][BreakersNext]_breakerVars

-----------------------------------------------------------------------------

BreakersTypeOK ==
    /\ date \in 1..LastDate /\ equity \in Equities /\ held \in BOOLEAN
    /\ book \in [peak : Equities, start : Equities, day : 1..LastDate]
    /\ opened \in Equities \cup {0} /\ best \in Equities

\* The engine's book is the history's: its peak is the best evaluation, and its day's start
\* is the first evaluation of the day, once there was one.
BreakersInv ==
    /\ BreakersTypeOK
    /\ book.peak = best /\ book.day <= date
    /\ IF opened = 0 THEN book.day # date ELSE book.day = date /\ book.start = opened

\* Once the account is flat with a lost day or a drawdown behind it, the day, and the
\* drawdown for good, admit no new position: neither a restart, which finds both in the
\* checkpoint, nor a new day under the drawdown opens the account again.
LossesStop ==
    [][~held /\ held' =>
         /\ 100 * equity > opened' * (100 - DailyLoss)
         /\ 100 * equity > best' * (100 - MaxDrawdown)]_breakerVars

=============================================================================
