--------------------------- MODULE ExecutionReplay ---------------------------
(***************************************************************************)
(* ExecutionReplay: recorded decisions of the agent replayed over the      *)
(* hourly path under other rules of execution: with or without a stop,     *)
(* with the days marked from the decision or from the fill of its order,   *)
(* with re-entry after a stop, and with the exposure of the agent, of the  *)
(* playbook or of a mixture of both.                                       *)
(*                                                                         *)
(* A day has one bar or none; a bar crosses the stop or not.  A position   *)
(* is the part of its plan that is held, and the day it was bought.        *)
(***************************************************************************)
EXTENDS Integers, Sequences, SequencesExt

CONSTANTS
    PlanRegimes, Invested,  \* the regimes, and those whose strategy is to be invested
    Minimum,                \* of each regime, and of 1: the conviction the retired rule asked for
    Persistence,            \* of each regime: decisions its horizon spans
    Convictions,
    Cooldowns,              \* bars to wait before a re-entry
    Steps,                  \* days between two decisions
    LastClose               \* bound: days with a close

ASSUME ReplayRuleAssumption ==
    /\ PlanRegimes \subseteq Nat /\ Invested \subseteq PlanRegimes /\ Minimum \in [PlanRegimes \cup {1} -> Nat]
    /\ Persistence \in [PlanRegimes -> Nat \ {0}] /\ Convictions \subseteq Nat
    /\ Cooldowns \subseteq Nat /\ Steps \subseteq Nat \ {0} /\ LastClose \in Nat

VARIABLES
    rules,      \* the variant
    inForce,    \* the decision in force and the days it is marked on
    steady,     \* the regime that has persisted, and the one that has yet to
    position,
    sinceStop,  \* bars since the stop of this decision, NoStop when there was none
    result,     \* the counters of the result
    labels,     \* the regime of every decision, as observed and as it took effect
    replayed,   \* days walked
    early       \* stops on a bar that precedes the purchase

replayRuleVars == <<rules, inForce, steady, position, sinceStop, result, labels, replayed, early>>

NoStop == -1
Out == [part |-> 0, dust |-> FALSE, born |-> NoStop]
Holds(p) == p.part > 0 \/ p.dust

Authorities == {"agent", "playbook", "veto", "add", "always", "reresolved", "raw",
                "tie", "retired", "stabilised", "blended"}
Base == [useStop |-> TRUE, fromFill |-> TRUE, scale |-> TRUE, cooldown |-> NoStop,
         authority |-> "agent"]
\* Each variant changes one thing of the replay that marks from the fill; the first ones
\* are the replay as it ran, which marked from the decision.
Variants ==
    [useStop : BOOLEAN, fromFill : BOOLEAN, scale : {TRUE}, cooldown : {NoStop},
     authority : {"agent"}]
    \cup {[Base EXCEPT !.scale = FALSE]}
    \cup {[Base EXCEPT !.cooldown = wait] : wait \in Cooldowns}
    \cup {[Base EXCEPT !.authority = whose] : whose \in Authorities}

\* The counters of orders, of purchases that added and of hours are left out.
Counts == {"stops", "phantoms", "reentries"}
Plus(t, names) == [c \in Counts |-> t[c] + IF c \in names THEN 1 ELSE 0]

ExecutionInit ==
    /\ rules \in Variants
    /\ inForce = [day |-> 0, next |-> 0, mark |-> 0, end |-> 0, part |-> 0]
    /\ steady = [now |-> NoStop, pending |-> NoStop, count |-> 0]
    /\ position = Out /\ sinceStop = NoStop /\ result = [c \in Counts |-> 0]
    /\ labels = <<>> /\ replayed = <<>> /\ early = 0

\* Mutant: a label that comes back does not lose what it had gathered.
Persist_Patient(s, label) ==
    LET count == IF label = s.pending THEN s.count + 1 ELSE 1
    IN  IF s.now = NoStop \/ label = s.now THEN [s EXCEPT !.now = label]
        ELSE IF count >= Persistence[s.now] THEN [now |-> label, pending |-> NoStop, count |-> 0]
        ELSE [s EXCEPT !.pending = label, !.count = count]
\* stabilise_regimes: a label takes effect once it has held for the horizon it replaces.
Persist(s, label) ==
    LET count == IF label = s.pending THEN s.count + 1 ELSE 1
    IN  IF s.now = NoStop \/ label = s.now \/ count >= Persistence[s.now]
        THEN [now |-> label, pending |-> NoStop, count |-> 0]
        ELSE [s EXCEPT !.pending = label, !.count = count]

Burdened(regime, asked, conviction) ==
    IF conviction >= Minimum[regime] THEN asked ELSE regime \in Invested

\* `x or y' takes y for a zero as well as for a value that is not there: of a decision of
\* regime 0 the rules that resolve it again read regime 1.
Or(x, y) == IF x = 0 THEN y ELSE x

\* _target_fraction, in halves of the plan; `took' is what the run resolved.
Fraction(label, effective, asked, took, conviction) ==
    LET whole(invests) == IF invests THEN 2 ELSE 0
        playbook == label \in Invested
        regime == Or(label, 1)
        stated == Or(conviction, 50)
    IN  CASE rules.authority = "agent"      -> whole(took)
          [] rules.authority = "playbook"   -> whole(playbook)
          [] rules.authority = "veto"       -> whole(took /\ playbook)
          [] rules.authority = "add"        -> whole(took \/ playbook)
          [] rules.authority = "always"     -> 2
          [] rules.authority = "raw"        -> whole(asked)
          [] rules.authority = "tie"        -> whole(IF stated >= 50 THEN asked ELSE regime \in Invested)
          [] rules.authority = "reresolved" -> whole(Burdened(regime, asked, stated))
          [] rules.authority \in {"retired", "stabilised"} ->
                 whole(Burdened(effective, asked, stated))
          [] OTHER -> IF asked = (effective \in Invested) THEN whole(asked) ELSE 1

\* The purchase of a decision or of a re-entry.  A position that is held is added to when
\* the market moved it away from its target, and keeps the day it was bought.
Purchased(p, part, day) == [part |-> part, dust |-> FALSE, born |-> IF Holds(p) THEN p.born ELSE day]
MayBuy(p, part) == part > 0 /\ part >= p.part /\ (rules.scale \/ ~Holds(p))

\* A sale is of whole base steps, and may leave less than one.  A target above zero never
\* sells: only purchases are asked for.
Liquidated(p, rest) == IF rest THEN [p EXCEPT !.part = 0, !.dust = TRUE] ELSE Out

MarkFrom(day) == IF rules.fromFill THEN day + 2 ELSE day
MarkTo(day, step) == day + step + (IF rules.fromFill THEN 1 ELSE -1)

\* The next recorded decision, filled at the close of the day after it.
Decide(label, asked, took, conviction, step) ==
    LET day == inForce.next
        fill == IF day + 1 <= LastClose THEN day + 1 ELSE LastClose
        now == Persist(steady, label)
        part == Fraction(label, now.now, asked, took, conviction)
        end == IF MarkTo(day, step) <= LastClose THEN MarkTo(day, step) ELSE LastClose
    IN  /\ inForce.mark >= inForce.end /\ day <= LastClose
        /\ inForce' = [day |-> day, next |-> day + step, mark |-> MarkFrom(day),
                        end |-> end + 1, part |-> part]
        /\ steady' = now /\ labels' = Append(labels, [seen |-> label, used |-> now.now])
        /\ sinceStop' = NoStop
        /\ \/ MayBuy(position, part) /\ position' = Purchased(position, part, fill)
           \/ /\ part = 0 /\ position.part > 0
              /\ \E rest \in BOOLEAN : position' = Liquidated(position, rest)
           \/ /\ (part > 0 /\ Holds(position)) \/ (part = 0 /\ position.part = 0)
              /\ UNCHANGED position
        /\ UNCHANGED <<rules, result, replayed, early>>

Waited == rules.cooldown # NoStop /\ sinceStop # NoStop /\ sinceStop + 1 >= rules.cooldown

\* One bar of a day: the stop of an open position, or the re-entry of a decision that is
\* still to be invested.
Bar(crosses) ==
    LET day == inForce.mark
        stops == Holds(position) /\ rules.useStop /\ crosses
        enters == ~Holds(position) /\ Waited /\ inForce.part > 0
        names == (IF stops THEN {"stops"} ELSE {})
                   \cup (IF stops /\ day < inForce.day + 2 THEN {"phantoms"} ELSE {})
                   \cup (IF enters THEN {"reentries"} ELSE {})
    IN  /\ position' = IF stops THEN Out
                       ELSE IF enters THEN Purchased(position, inForce.part, day) ELSE position
        /\ sinceStop' = IF stops THEN 0
                        ELSE IF enters \/ sinceStop = NoStop THEN NoStop ELSE sinceStop + 1
        /\ result' = Plus(result, names)
        /\ early' = early + IF stops /\ day <= position.born THEN 1 ELSE 0

ReplayDay ==
    /\ inForce.mark < inForce.end
    /\ inForce' = [inForce EXCEPT !.mark = @ + 1]
    /\ replayed' = Append(replayed, inForce.mark)
    /\ \/ \E crosses \in BOOLEAN : Bar(crosses)
       \/ UNCHANGED <<position, sinceStop, result, early>>      \* a day without bars
    /\ UNCHANGED <<rules, steady, labels>>

ExecutionNext ==
    \/ ReplayDay
    \/ \E label \in PlanRegimes, asked, took \in BOOLEAN, conviction \in Convictions, step \in Steps :
         Decide(label, asked, took, conviction, step)

ExecutionTypeOK ==
    /\ rules \in Variants /\ position.part \in 0..2 /\ sinceStop \in NoStop..(LastClose + 1)
    /\ steady.now \in PlanRegimes \cup {NoStop} /\ early <= result.stops

-----------------------------------------------------------------------------

\* The result says what was replayed: every day is walked once and in order; marked from
\* the fill no stop precedes its purchase; every stop that does is counted a phantom; a
\* re-entry follows a stop of its own; and a regime takes effect only after it was seen at
\* every decision of the horizon it replaced.
VariantIsHonest ==
    /\ \A i \in 1..(Len(replayed) - 1) : replayed[i + 1] = replayed[i] + 1
    /\ rules.fromFill => early = 0 /\ result.phantoms = 0
    /\ early <= result.phantoms
    /\ result.reentries <= result.stops
    /\ \A i \in 2..Len(labels) :
         LET was == labels[i - 1].used
         IN  labels[i].used # was =>
               \A k \in 0..(Persistence[was] - 1) :
                 i - k > 1 /\ labels[i - k].seen = labels[i].used

\* "Fired on a bar that precedes the fill: impossible in reality": every phantom does.
PhantomsAreImpossible == result.phantoms = early
=============================================================================
