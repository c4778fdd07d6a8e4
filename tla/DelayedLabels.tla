---------------------------- MODULE DelayedLabels ----------------------------
(***************************************************************************)
(* DelayedLabels: LocalMLAgent, which learns a direction four hours late.  *)
(* An example waits in the saved model until the first price observed past *)
(* its horizon: in time it becomes a label the model trains on, too late   *)
(* it expires.  The outcome is appended to a file of experiences before    *)
(* the model is trained and saved, and the process may die in between.     *)
(*                                                                         *)
(* The features and the weights are left out: the model is the list of     *)
(* what it was trained on.                                                 *)
(***************************************************************************)
EXTENDS Integers, Sequences, SequencesExt, Selection

CONSTANTS
    LabelPrices,     \* of an observation
    Edge,            \* the move that pays its cost and its threshold
    Delay,           \* LABEL_DELAY
    LabelTolerance,  \* LABEL_TOLERANCE
    PendingCadence,  \* PENDING_CADENCE
    LastTime,        \* bound: observations
    MaxDeaths        \* bound: deaths of the process

ASSUME LabelAssumption ==
    /\ LabelPrices \subseteq Nat \ {0} /\ {Edge, Delay, PendingCadence} \subseteq Nat \ {0}
    /\ {LabelTolerance, LastTime, MaxDeaths} \subseteq Nat

VARIABLES
    time,     \* of the last observation
    learner,  \* the model in memory
    stored,   \* the model on disk
    rows,     \* the lines of the experience file
    unended,  \* the last line was cut off before its end
    deaths

labelVars == <<time, learner, stored, rows, unended, deaths>>

Nothing == [pending |-> <<>>, trained |-> <<>>]

LabelInit ==
    /\ time = 0 /\ learner = Nothing /\ stored = Nothing
    /\ rows = <<>> /\ unended = FALSE /\ deaths = 0

\* net_four_hour_label: the side whose move pays, or none.
Label(entry, price) ==
    IF price >= entry + Edge THEN "BUY" ELSE IF price <= entry - Edge THEN "SELL" ELSE "HOLD"

\* What becomes of an example whose horizon passed; the price alone decides its label.
Outcome(example, now, price) ==
    [at |-> example.at, seen |-> now,
     label |-> IF now - example.at - Delay > LabelTolerance THEN "EXPIRED"
               ELSE Label(example.price, price)]
Outcomes(m, now, price) ==
    LET due == Kept(m.pending, {e \in ToSet(m.pending) : now - e.at >= Delay})
    IN  [i \in DOMAIN due |-> Outcome(due[i], now, price)]

\* _experience_ids: of the lines that can be read.
Known == {row.at : row \in {r \in ToSet(rows) : r.label # "TORN"}}

\* Mutant: every outcome is written, whether or not the file has it.
NewRows_Again(outcomes) == outcomes
NewRows(outcomes) == Kept(outcomes, {o \in ToSet(outcomes) : o.at \notin Known})

\* A line written after one without an end is joined to it, and neither can be read.
TornRow(row) == [row EXCEPT !.label = "TORN"]
WriteRows(new) ==
    IF unended /\ new # <<>> THEN rows \o <<TornRow(Head(new))>> \o Tail(new) ELSE rows \o new

\* train_one, for every outcome that has a label; the rest of the examples wait.
Train(m, outcomes, now) ==
    [pending |-> Kept(m.pending, {e \in ToSet(m.pending) : now - e.at < Delay}),
     trained |-> m.trained \o Kept(outcomes, {o \in ToSet(outcomes) : o.label # "EXPIRED"})]

\* _should_enqueue.
Enqueues(m, now) == m.pending = <<>> \/ now - Last(m.pending).at >= PendingCadence
Enqueue(m, now, price) == [m EXCEPT !.pending = Append(@, [at |-> now, price |-> price])]

\* observe_price, and the rest of predict when the decision was not vetoed.
ObservePrice(now, price, decides) ==
    LET outcomes == Outcomes(learner, now, price)
        new == NewRows(outcomes)
        resolved == IF outcomes = <<>> THEN learner ELSE Train(learner, outcomes, now)
    IN  /\ rows' = WriteRows(new)
        /\ unended' = (unended /\ new = <<>>)
        /\ learner' = IF decides /\ Enqueues(resolved, now) THEN Enqueue(resolved, now, price)
                      ELSE resolved
        /\ stored' = IF learner' # learner THEN learner' ELSE stored
        /\ UNCHANGED deaths

\* The process dies while the rows are written or before the model is saved: a prefix of
\* them is in the file, the last one perhaps cut off, and the next process loads the model.
DieAfter(now, price) ==
    LET new == NewRows(Outcomes(learner, now, price))
    IN  /\ deaths < MaxDeaths /\ deaths' = deaths + 1
        /\ \E n \in 0..Len(new), cut \in BOOLEAN :
             /\ cut => n > 0
             /\ rows' = LET whole == WriteRows(SubSeq(new, 1, n))
                        IN  IF cut THEN [whole EXCEPT ![Len(whole)] = TornRow(@)] ELSE whole
             /\ unended' = IF n = 0 THEN unended ELSE cut
        /\ learner' = stored /\ UNCHANGED stored

LabelNext ==
    \E now \in (time + 1)..LastTime, price \in LabelPrices :
      /\ time' = now
      /\ \/ \E decides \in BOOLEAN : ObservePrice(now, price, decides)
         \/ DieAfter(now, price)

LabelSpec == LabelInit /\ [][LabelNext]_labelVars

Example == [at : Nat, price : LabelPrices]
LabelRow == [at : Nat, seen : Nat, label : {"BUY", "SELL", "HOLD", "EXPIRED", "TORN"}]

LabelTypeOK ==
    /\ time \in 0..LastTime /\ deaths \in 0..MaxDeaths /\ unended \in BOOLEAN
    /\ rows \in Seq(LabelRow) /\ learner = stored
    /\ learner \in [pending : Seq(Example), trained : Seq(LabelRow)]

-----------------------------------------------------------------------------

Readable == {i \in DOMAIN rows : rows[i].label # "TORN"}
Trained == ToSet(learner.trained)

\* However often the process dies, no example is in two rows, none is trained twice or
\* after it expired, and a label comes from a price within the tolerance of its horizon.
LabelsAreHonest ==
    /\ \A i, j \in Readable : rows[i].at = rows[j].at => i = j
    /\ \A i, j \in DOMAIN learner.trained : learner.trained[i].at = learner.trained[j].at => i = j
    /\ \A o \in Trained :
         /\ o.seen - o.at \in Delay..(Delay + LabelTolerance)
         /\ \A i \in Readable : rows[i].at = o.at => rows[i].label # "EXPIRED"

\* The inductive invariant: what waits came after what was trained, both in the order of
\* their observation, and a row in the file is as old as it says.
Rising(s) == \A i, j \in DOMAIN s : i < j => s[i].at < s[j].at
Late(row) == row.seen - row.at > Delay + LabelTolerance

InOrder(m, now) ==
    /\ Rising(m.pending) /\ Rising(m.trained)
    /\ \A i \in DOMAIN m.pending : m.pending[i].at <= now
    /\ \A i \in DOMAIN m.trained :
         /\ m.trained[i].at <= now
         /\ \A j \in DOMAIN m.pending : m.trained[i].at < m.pending[j].at

LabelInv ==
    /\ LabelTypeOK /\ LabelsAreHonest /\ InOrder(learner, time)
    /\ \A i \in Readable :
         rows[i].seen <= time /\ (rows[i].label = "EXPIRED" => Late(rows[i]))

\* "The still-pending item is deterministically reapplied on restart": the model is trained
\* on what its row says.
ReappliedAfterCrash ==
    \A i \in Readable :
      \/ rows[i].label = "EXPIRED"
      \/ rows[i].at \in {e.at : e \in ToSet(learner.pending)}
      \/ [at |-> rows[i].at, label |-> rows[i].label] \in
           {[at |-> o.at, label |-> o.label] : o \in Trained}
=============================================================================
