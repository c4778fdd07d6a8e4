----------------------------- MODULE TrendPolicy -----------------------------
(***************************************************************************)
(* TrendPolicy: the opportunity policies of the retired agent, POL-101     *)
(* (pullback in a trend) and its challengers POL-102 (reversion) and       *)
(* POL-103 (breakout).  Once per bar one of them reads the bar, the state  *)
(* of the system and its own setup, and proposes an entry, an exit or      *)
(* nothing.  A setup is armed by one bar and completed by a later one.     *)
(*                                                                         *)
(* A bar is what the rules tell apart: whether its regime allows an entry  *)
(* and whether it breaks a position, on which side of the policy's levels  *)
(* it closed, whether it confirms, and what became of its inputs.          *)
(***************************************************************************)
EXTENDS Integers, Sequences, SequencesExt

CONSTANTS
    Policies,   \* a subset of {"POL-101", "POL-102", "POL-103"}
    Timeout,    \* arm_timeout_bars, compression_timeout
    MaxHolding  \* max_holding_bars

ASSUME TrendAssumption ==
    /\ Policies \subseteq {"POL-101", "POL-102", "POL-103"}
    /\ Timeout \in Nat \ {0} /\ MaxHolding \in Nat \ {0}

VARIABLES
    policy,  \* which policy runs
    setup,   \* TrendPolicyState, ChallengerState
    prior,   \* where the bar before closed, "none" when it is not fit
    desk,    \* the state of the system, the outcome of the last entry, the bars held
    intent,  \* the last answer
    record   \* of the bars read for an entry since the last setup ended: what each was

trendVars == <<policy, setup, prior, desk, intent, record>>

\* Where the bar stands for the step its setup is about to take: beyond the level that fails
\* it, outside the band, in the band that arms it, between the band and the level that
\* completes it, or beyond that.  Only for POL-101 is this one scale.  POL-102 and POL-103
\* arm, fail and complete on quantities of their own, and arm without testing the level that
\* fails them: for them "band" at an idle setup says that the arming test holds, whatever the
\* other levels say, and the other places are read when the setup is armed or held.
Places == {"failed", "outside", "band", "between", "resumed"}
PolicyBars == [regime : {"allows", "neither", "breaks"}, place : Places, confirms : BOOLEAN,
         inputs : {"cheap", "costly", "missing"}]

Idle == [state |-> "IDLE", bars |-> 0]
Armed(bars) == [state |-> "ARMED", bars |-> bars]
Emitted == [state |-> "EMITTED", bars |-> 0]
IsPOL101 == policy = "POL-101"

Proposes(kind, next) == intent' = kind /\ setup' = next

TrendInit ==
    /\ policy \in Policies /\ setup = Idle /\ prior = "none" /\ intent = "NONE"
    /\ desk = [position |-> "FLAT", fit |-> "ready", outcome |-> "NONE", held |-> 0]
    /\ record = <<>>

\* The guards before any feature is read: an unknown position and a cooldown end the setup;
\* an order on its way leaves POL-101's alone and ends a challenger's; a system that is not
\* ready ends it unless POL-101 is long.  A challenger does not know of the cooldown.
Guarded ==
    \/ /\ desk.position = "UNKNOWN" /\ Proposes("NONE", Idle)
    \/ /\ desk.position = "PENDING" /\ Proposes("NONE", IF IsPOL101 THEN setup ELSE Idle)
    \/ /\ desk.position \in {"FLAT", "LONG"} /\ desk.fit = "cooldown" /\ IsPOL101
       /\ Proposes("NONE", Idle)
    \/ /\ desk.position \in {"FLAT", "LONG"} /\ desk.fit = "blocked"
       /\ Proposes("NONE", IF IsPOL101 /\ desk.position = "LONG" THEN setup ELSE Idle)
Ready ==
    /\ desk.position \in {"FLAT", "LONG"}
    /\ desk.fit = "ready" \/ (~IsPOL101 /\ desk.fit = "cooldown")

\* POL-101 waits for the outcome of the entry it proposed, whatever the position is.
Waits ==
    /\ Ready /\ setup.state = "EMITTED"
    /\ Proposes("NONE", IF desk.outcome = "NONE" THEN setup ELSE Idle)

\* A position: out after its time, when the regime breaks, when the price fails it, or, for
\* the reversion, when it has come back.  POL-101 does not judge a bar with an input
\* missing; a challenger that does not know its cost wants out.
LeavesAt == IF policy = "POL-102" THEN {"failed", "resumed"} ELSE {"failed"}
Manage(b) ==
    /\ Ready /\ setup.state # "EMITTED" /\ desk.position = "LONG"
    /\ IF b.inputs = "missing"
       THEN IF IsPOL101 THEN Proposes("NONE", setup) ELSE Proposes("EXIT", Idle)
       ELSE Proposes(IF desk.held >= MaxHolding \/ b.regime = "breaks" \/ b.place \in LeavesAt
                    THEN "EXIT" ELSE "NONE", Idle)

\* The regime a policy asks of a bar: POL-103 asks none.
Allowed(b) == policy = "POL-103" \/ b.regime = "allows"

\* The bar that arms a setup.
Arms(b) == Allowed(b) /\ b.place = "band" /\ (IsPOL101 \/ b.inputs = "cheap")

\* The bar that completes one.  POL-101 asks that this bar crossed the level, so that the
\* bar before it must have been fit and not beyond.
Completes(b) ==
    /\ b.place = "resumed" /\ b.confirms
    /\ IsPOL101 => prior \notin {"none", "resumed"}

\* Mutant: a setup whose trend broke is only not completed by this bar.
Spoils_NotTheTrend(b) ==
    \/ setup.bars + 1 > Timeout \/ b.place = "failed" \/ b.inputs = "costly"

\* What ends an armed setup: its time, its regime, its level or its cost.
Spoils(b) ==
    \/ setup.bars + 1 > Timeout \/ ~Allowed(b) \/ b.place = "failed" \/ b.inputs = "costly"

Look(b) ==
    /\ Ready /\ setup.state # "EMITTED" /\ desk.position = "FLAT"
    /\ IF b.inputs = "missing" \/ (~IsPOL101 /\ b.inputs = "costly") THEN Proposes("NONE", Idle)
       ELSE IF setup.state = "IDLE" THEN Proposes("NONE", IF Arms(b) THEN Armed(0) ELSE Idle)
       ELSE IF Spoils(b) THEN Proposes("NONE", Idle)
       ELSE IF Completes(b)
       THEN Proposes("ENTRY", IF IsPOL101 THEN Emitted ELSE Armed(setup.bars + 1))
       ELSE Proposes("NONE", Armed(setup.bars + 1))

\* What the bar was, whatever the policy made of it: kept as long as the setup may last.
Was(b) == [arms |-> Arms(b) /\ b.inputs # "missing",
           sound |-> Allowed(b) /\ b.place # "failed" /\ b.inputs = "cheap"]
Recorded(b) ==
    record' = IF desk.position = "FLAT" /\ Ready /\ setup.state # "EMITTED"
              THEN LET all == Append(record, Was(b))
                   IN  IF Len(all) > Timeout + 1 THEN Tail(all) ELSE all
              ELSE IF setup' = Idle THEN <<>> ELSE record

\* evaluate_pol101, ChallengerPolicy.evaluate: one bar.
Evaluate ==
    \E b \in PolicyBars :
      /\ Guarded \/ Waits \/ Manage(b) \/ Look(b)
      /\ Recorded(b)
      /\ prior' = IF b.inputs = "missing" THEN "none" ELSE b.place
      /\ desk' = [desk EXCEPT !.outcome = IF setup.state = "EMITTED" /\ Ready THEN "NONE" ELSE @,
                    !.held = IF desk.position = "LONG" /\ @ < MaxHolding THEN @ + 1 ELSE @]
      /\ UNCHANGED policy

\* Between two bars the system moves: an entry is ordered after a proposal, filled or not;
\* a position is closed; a cooldown, a block and a reconciliation come and go.
DeskMoves(d) ==
    {[d EXCEPT !.fit = f] : f \in {"ready", "blocked"}}
    \cup (IF d.position = "FLAT" /\ intent = "ENTRY"
          THEN {[d EXCEPT !.position = "PENDING"], [d EXCEPT !.outcome = "EXPIRED"]} ELSE {})
    \cup (IF d.position = "PENDING"
          THEN {[d EXCEPT !.position = "LONG", !.outcome = "FILLED", !.held = 0],
                [d EXCEPT !.position = "FLAT", !.outcome = "REJECTED", !.fit = "cooldown"]}
          ELSE {})
    \cup (IF d.position = "LONG"
          THEN {[d EXCEPT !.position = "FLAT", !.fit = "cooldown", !.held = 0]} ELSE {})
    \cup {[d EXCEPT !.position = "UNKNOWN", !.fit = "blocked", !.held = 0]}
    \cup (IF d.position = "UNKNOWN"
          THEN {[d EXCEPT !.position = p] : p \in {"FLAT", "LONG"}} ELSE {})

Move == desk' \in DeskMoves(desk) /\ UNCHANGED <<policy, setup, prior, intent, record>>

TrendNext == Evaluate \/ Move

TrendTypeOK ==
    /\ policy \in Policies /\ setup \in [state : {"IDLE", "ARMED", "EMITTED"}, bars : 0..Timeout]
    /\ prior \in Places \cup {"none"} /\ intent \in {"NONE", "ENTRY", "EXIT"}
    /\ Len(record) <= Timeout + 1

-----------------------------------------------------------------------------

\* An entry is earned: some bar armed it, no longer ago than the timeout, and every bar the
\* policy read since, this one included, kept its regime, its level and its cost; and
\* POL-101 proposes one entry for a setup, and nothing more until it knows what became of it.
EntryIsEarned ==
    [][setup' # setup /\ intent' = "ENTRY" =>
         LET n == Len(record')
         IN  /\ \E i \in 1..(n - 1) :
                  record'[i].arms /\ n - i <= Timeout
                  /\ \A j \in (i + 1)..n : record'[j].sound
             /\ setup.state = "ARMED" /\ (IsPOL101 => setup'.state = "EMITTED")]_trendVars
=============================================================================
