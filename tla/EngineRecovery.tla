---------------------------- MODULE EngineRecovery ----------------------------
(***************************************************************************)
(* recover_engine_state: an engine whose checkpoint is gone rebuilds entry, *)
(* high watermark and cooldown from the activity journal.                  *)
(*                                                                         *)
(* An event is evaluated at one price, evidence.price, on an account read  *)
(* at another, position.price; both raise the watermark.  The line it      *)
(* leaves in the journal carries the price of the account's last reading,  *)
(* which may be newer than the evaluation.  The engine is saved after the  *)
(* evaluation and after a fill, the line is written last: a process that   *)
(* dies in between leaves a watermark, or a trade, without a line.         *)
(***************************************************************************)
EXTENDS Sequences, Integers, FiniteSetsExt, SequencesExt

CONSTANTS
    Marks,         \* the prices modelled
    MaxActivities  \* bound: activities modelled

ASSUME RecoveryAssumption == Marks \subseteq Nat \ {0} /\ MaxActivities \in Nat

VARIABLES
    alive,       \* the process runs
    lots,        \* what the account holds, in lots: 0, 1 or 2
    engine,      \* [entry, high, cooling]: EnginePersistentState as saved; 0 is None
    activities,  \* the journal: [side, paid, price, long]; paid is order_avg_price
    seen,        \* history: highest price met since the position was opened
    shown,       \* history: how much of the watermark the lines of the journal show
    plain        \* history: one journalled purchase and nothing else made the position

recoveryVars == <<alive, lots, engine, activities, seen, shown, plain>>

Higher(a, b) == IF a >= b THEN a ELSE b
Lower(a, b) == IF a <= b THEN a ELSE b
Flat(cooling) == [entry |-> 0, high |-> 0, cooling |-> cooling]

\* The last activity that is an order; 0 is none.
LastOrder ==
    LET orders == {i \in DOMAIN activities : activities[i].side # "NONE"}
    IN  IF orders = {} THEN 0 ELSE Max(orders)

\* Mutant: only the prices of the order and of the restart make the watermark.
RecoveredBare(n, p) ==
    LET paid == activities[LastOrder].paid
    IN IF n = 0
       THEN Flat(activities # <<>> /\ Last(activities).long)
       ELSE IF LastOrder # 0 /\ activities[LastOrder].side = "BUY"
            THEN [entry |-> paid, high |-> Higher(paid, p), cooling |-> FALSE]
            ELSE [entry |-> p, high |-> p, cooling |-> FALSE]

\* recover_engine_state.
Recovered(n, p) ==
    LET paid   == activities[LastOrder].paid
        prices == {activities[i].price : i \in LastOrder..Len(activities)}
    IN IF n = 0
       THEN Flat(activities # <<>> /\ Last(activities).long)
       ELSE IF LastOrder # 0 /\ activities[LastOrder].side = "BUY"
            THEN [entry |-> paid, high |-> Max({paid, p} \cup prices), cooling |-> FALSE]
            ELSE [entry |-> p, high |-> p, cooling |-> FALSE]

\* restore_position.
Restored(n, p) ==
    IF n = 0 THEN Flat(engine.cooling \/ engine.entry # 0)
    ELSE [engine EXCEPT !.entry = IF @ = 0 THEN p ELSE @, !.high = Higher(@, p)]

RecoveryInit ==
    /\ alive = TRUE /\ lots = 0 /\ engine = Flat(FALSE) /\ activities = <<>>
    /\ seen = 0 /\ shown = 0 /\ plain = FALSE

\* evaluate: the watermark follows the account's price r and the evidence's price p.
Evaluated(p, r) ==
    [engine EXCEPT !.high = IF lots > 0 THEN Higher(@, Higher(p, r)) ELSE @]
Met(p, r) == IF lots > 0 THEN Higher(seen, Higher(p, r)) ELSE 0

\* _record: the last step of an event.
Journalled(activity) ==
    /\ Len(activities) < MaxActivities
    /\ activities' = Append(activities, activity)
    /\ UNCHANGED alive

\* The process dies before it.
Unrecorded == alive' = FALSE /\ UNCHANGED activities

\* An event that holds.  The synchronisation of the stop may read the account again, at q.
HoldEvent ==
    /\ alive
    /\ \E p, r, q \in Marks :
         /\ engine' = Evaluated(p, r)
         /\ \/ /\ Journalled([side |-> "NONE", paid |-> q, price |-> q, long |-> lots > 0])
               /\ shown' = IF lots > 0 THEN Higher(shown, Lower(q, engine'.high)) ELSE 0
               /\ seen' = Higher(Met(p, r), IF lots > 0 THEN q ELSE 0)
            \/ Unrecorded /\ UNCHANGED shown /\ seen' = Met(p, r)
    /\ UNCHANGED <<lots, plain>>

\* The engine a trade starts from: the evaluation that decided it has raised the watermark.
Decided == {Evaluated(p, r) : p, r \in Marks}

\* on_fill of a purchase at p.
Bought(e, p) ==
    IF lots = 0 THEN [entry |-> p, high |-> p, cooling |-> FALSE]
    ELSE [entry |-> (e.entry * lots + p) \div (lots + 1),
          high |-> Higher(e.high, p), cooling |-> FALSE]

\* A purchase that opens or adds, at p; the account is read afterwards, at q.
BuyEvent ==
    /\ alive /\ lots < 2 /\ lots' = lots + 1
    /\ \E e \in Decided, p, q \in Marks :
         /\ \/ /\ engine' = Bought(e, p)
               /\ Journalled([side |-> "BUY", paid |-> p, price |-> q, long |-> TRUE])
               /\ plain' = (lots = 0) /\ shown' = Higher(shown, p)
            \/ /\ engine' \in {e, Bought(e, p)}
               /\ Unrecorded /\ plain' = FALSE /\ UNCHANGED shown
         /\ seen' = Higher(Higher(seen, e.high), Higher(p, q))

\* A sale that trims or leaves; the stop that fires while the process runs is one.
SellEvent ==
    /\ alive /\ lots > 0 /\ lots' \in {lots - 1, 0}
    /\ \E e \in Decided :
         LET sold == IF lots' = 0 THEN Flat(TRUE) ELSE e
         IN  /\ \/ /\ engine' = sold
                   /\ \E q \in Marks :
                        Journalled([side |-> "SELL", paid |-> q, price |-> q, long |-> lots' > 0])
                \/ engine' \in {e, sold} /\ Unrecorded
             /\ seen' = (IF lots' = 0 THEN 0 ELSE Higher(seen, e.high))
    /\ shown' = (IF lots' = 0 THEN 0 ELSE shown) /\ plain' = FALSE

Dies == alive /\ alive' = FALSE /\ UNCHANGED <<lots, engine, activities, seen, shown, plain>>

\* The process starts, with its checkpoint or without; the stop may have closed the
\* position in the meantime.
Starts ==
    /\ ~alive /\ alive' = TRUE
    /\ \E p \in Marks, n \in {lots, 0} :
         /\ lots' = n /\ engine' \in {Restored(n, p), Recovered(n, p)}
         /\ seen' = (IF n = 0 THEN 0 ELSE Higher(seen, p))
         /\ shown' = (IF n = 0 THEN 0 ELSE shown) /\ plain' = (plain /\ n > 0)
    /\ UNCHANGED activities

RecoveryNext == HoldEvent \/ BuyEvent \/ SellEvent \/ Dies \/ Starts
RecoverySpec == RecoveryInit /\ [][RecoveryNext]_recoveryVars

-----------------------------------------------------------------------------

ActivityRow == [side : {"BUY", "SELL", "NONE"}, paid : Marks, price : Marks, long : BOOLEAN]

RecoveryTypeOK ==
    /\ alive \in BOOLEAN /\ lots \in 0..2
    /\ activities \in Seq(ActivityRow) /\ Len(activities) <= MaxActivities
    /\ engine \in [entry : Nat, high : Nat, cooling : BOOLEAN]
    /\ {seen, shown} \subseteq Nat /\ plain \in BOOLEAN

\* A position that one journalled purchase made keeps the entry its stop is measured from,
\* and its watermark stays between what the journal shows of it and what was met since the
\* purchase, however often the process dies and starts with its checkpoint or without.
\* What only the evaluation saw is lost with the checkpoint, and so is the price of a start.
WatermarkIsRecovered ==
    plain =>
        /\ engine.entry = activities[Max({i \in DOMAIN activities :
                                            activities[i].side = "BUY"})].paid
        /\ shown <= engine.high /\ engine.high <= seen

\* The inductive invariant: what made a plain position is the last order of the journal,
\* and the lines from there on show no price that was not met, and all that is shown.
MadeBy(b) ==
    /\ activities[b].side = "BUY" /\ engine.entry = activities[b].paid
    /\ shown <= engine.high /\ engine.high <= seen
    /\ \A i \in DOMAIN activities : i > b => activities[i].side = "NONE"
    /\ activities[b].paid <= seen
    /\ \A i \in b..Len(activities) : activities[i].price <= seen
    /\ shown <= activities[b].paid \/ \E i \in b..Len(activities) : shown <= activities[i].price
RecoveryInv ==
    /\ RecoveryTypeOK
    /\ lots = 0 => seen = 0 /\ shown = 0 /\ ~plain
    /\ plain => \E b \in DOMAIN activities : MadeBy(b)
=============================================================================
