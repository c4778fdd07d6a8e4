--------------------------- MODULE BacktestReplay ---------------------------
(***************************************************************************)
(* BacktestReplay: the replay of the LLM agent over past days, whose       *)
(* report the gate reads.  Every StepDays days the model is asked; its     *)
(* order is filled at the close of the next day, and the hours from the    *)
(* day after are walked, marking the book and letting its stop fire.  When *)
(* the model fails the loop goes on to the next decision.                  *)
(*                                                                         *)
(* The book is a share of the equity and a residue: an order is a number   *)
(* of whole base steps, a purchase is not.  Prices are left out, so that   *)
(* any bar may cross the stop.                                             *)
(***************************************************************************)
EXTENDS Naturals, FiniteSets, Sequences, SequencesExt

CONSTANTS
    StepDays,  \* --step-days
    Turns,     \* --decisions
    Whole      \* shares of the equity: 0..Whole

ASSUME ReplayAssumption == StepDays \in Nat \ {0} /\ Turns \in Nat /\ Whole \in Nat \ {0}

VARIABLES
    cursor,   \* the decision being replayed and the day being walked
    stock,    \* the book
    tally,    \* the counters of the report
    walked,   \* days marked, in the order they were
    stopped,  \* stops that fired
    missed,   \* decisions the model failed
    sales     \* the book each sale to a target of zero left

replayVars == <<cursor, stock, tally, walked, stopped, missed, sales>>

EndDay == Turns * StepDays
DecisionDay == (cursor.turn - 1) * StepDays

Empty == [share |-> 0, residue |-> FALSE, filled |-> 0]
IsHeld(s) == s.share > 0 \/ s.residue        \* units > 0.0
Counters == {"switches", "direction", "size", "entries", "exits", "ups", "downs", "stops"}
Counting(names) == [n \in Counters |-> tally[n] + IF n \in names THEN 1 ELSE 0]

ReplayInit ==
    /\ cursor = [turn |-> 1, stage |-> "decide", mark |-> 0] /\ stock = Empty
    /\ tally = [n \in Counters |-> 0] /\ walked = <<>> /\ stopped = {} /\ missed = {}
    /\ sales = {}

NextTurn == [turn |-> cursor.turn + 1, stage |-> "decide", mark |-> 0]

\* LLMUnavailable: the decision is counted as failed and its days are not walked.
ModelFails ==
    /\ cursor.stage = "decide" /\ cursor.turn <= Turns
    /\ missed' = missed \cup {cursor.turn} /\ cursor' = NextTurn
    /\ UNCHANGED <<stock, tally, walked, stopped, sales>>

\* The target of the plan, zero when the agent wants out or when an opening does not
\* clear its cost: a book with a residue is a position, and is not asked.
Targets(wants, clears) ==
    IF ~wants \/ (~IsHeld(stock) /\ ~clears) THEN {0} ELSE 1..Whole

\* plan_adjustment and the fill, at the close of the next day.  A difference inside the
\* dead band, or an order below the minimum, is left.
Bought(target, rest) == [share |-> target, residue |-> rest, filled |-> DecisionDay + 1]
Sold(target) == IF target = 0 /\ ~stock.residue THEN Empty ELSE [stock EXCEPT !.share = target]

Traded(after, kind) ==
    /\ stock' = after
    /\ tally' = Counting({"switches", kind,
                         IF IsHeld(after) = IsHeld(stock) THEN "size" ELSE "direction"})

Trade(target) ==
    \/ /\ target > stock.share
       /\ \E rest \in BOOLEAN :
            Traded(Bought(target, rest), IF stock.share = 0 THEN "entries" ELSE "ups")
       /\ sales' = sales
    \/ /\ target < stock.share
       /\ Traded(Sold(target), IF IsHeld(Sold(target)) THEN "downs" ELSE "exits")
       /\ sales' = IF target = 0 THEN sales \cup {Sold(target)} ELSE sales
    \/ /\ target = stock.share \/ (target > 0 /\ stock.share > 0)
       /\ UNCHANGED <<stock, tally, sales>>

\* Mutant: the walk starts on the day of the decision.
MarkedDays_TooEarly == DecisionDay..(DecisionDay + StepDays + 1)

\* The order was filled at the close of the day after the decision, so the walk starts on
\* the day after that and ends where the walk of the next decision starts.
MarkedDays == (DecisionDay + 2)..(DecisionDay + StepDays + 1)

FirstMark ==
    LET days == MarkedDays \cap 0..(EndDay - 1)
    IN  IF days = {} THEN NextTurn
        ELSE [cursor EXCEPT !.stage = "walk", !.mark = CHOOSE d \in days : \A e \in days : d <= e]

Decision ==
    /\ cursor.stage = "decide" /\ cursor.turn <= Turns
    /\ \E wants, clears \in BOOLEAN : \E target \in Targets(wants, clears) : Trade(target)
    /\ cursor' = FirstMark
    /\ UNCHANGED <<walked, stopped, missed>>

\* One day: its hours against the stop of the book, then its close.
MarkDay ==
    /\ cursor.stage = "walk"
    /\ walked' = Append(walked, cursor.mark)
    /\ \/ UNCHANGED <<stock, tally, stopped>>
       \/ /\ IsHeld(stock)
          /\ stock' = Empty /\ tally' = Counting({"switches", "direction", "stops"})
          /\ stopped' = stopped \cup {[day |-> cursor.mark, filled |-> stock.filled]}
    /\ cursor' = IF cursor.mark + 1 \in MarkedDays \cap 0..(EndDay - 1)
                 THEN [cursor EXCEPT !.mark = @ + 1] ELSE NextTurn
    /\ UNCHANGED <<missed, sales>>

\* The report is written once every decision has been replayed.
WriteReport ==
    /\ cursor.stage = "decide" /\ cursor.turn = Turns + 1
    /\ cursor' = [cursor EXCEPT !.stage = "report"]
    /\ UNCHANGED <<stock, tally, walked, stopped, missed, sales>>

ReplayNext == ModelFails \/ Decision \/ MarkDay \/ WriteReport

ReplayTypeOK ==
    /\ cursor \in [turn : 1..(Turns + 1), stage : {"decide", "walk", "report"}, mark : 0..EndDay]
    /\ stock \in [share : 0..Whole, residue : BOOLEAN, filled : 0..(EndDay + 1)]
    /\ tally \in [Counters -> 0..(Turns * (StepDays + 1))] /\ missed \subseteq 1..Turns

-----------------------------------------------------------------------------

\* What the report says happened could have happened: a stop fired only on a day after the
\* one whose close paid for the position, the days were walked once and in order, one is
\* missing only where the model failed, and the counters of the report, each kept in a
\* branch of its own, account for the same orders and for the book they left.
ReplayIsHonest ==
    /\ \A s \in stopped : s.day > s.filled
    /\ \A i, j \in DOMAIN walked : i < j => walked[i] < walked[j]
    /\ walked # <<>> => \A d \in 2..walked[Len(walked)] :
         d \in ToSet(walked) \/ ((d - 2) \div StepDays) + 1 \in missed
    /\ tally["switches"] = tally["direction"] + tally["size"]
    /\ tally["switches"] = tally["entries"] + tally["exits"] + tally["ups"] + tally["downs"]
                              + tally["stops"]
    /\ tally["direction"] % 2 = IF IsHeld(stock) THEN 1 ELSE 0
    /\ tally["stops"] = Cardinality(stopped)

\* A target of zero arrives as a full exit.
ExitsAreFull == sales \subseteq {Empty}
=============================================================================
