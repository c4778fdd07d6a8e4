---------------------------- MODULE BacktestGate ----------------------------
(***************************************************************************)
(* The gate on the backtest of the LLM agent, and the notice that posts    *)
(* its verdict.                                                            *)
(***************************************************************************)
EXTENDS Integers, FiniteSets, FiniteSetsExt

(***************************************************************************)
(* GateCriteria: the pre-registered gate that decides whether the LLM      *)
(* agent may hold order authority.  It reads one backtest report and       *)
(* approves it when nine criteria pass; one that cannot be evaluated       *)
(* fails.  Returns and drawdowns are whole percents.                       *)
(*                                                                         *)
(* The actions are the ways in which one backtest differs from another:    *)
(* one measurement at a time, so that what the gate says of the two can be *)
(* compared.                                                               *)
(***************************************************************************)

CONSTANTS
    Figures,   \* per field of a report, the values it takes
    Missing    \* a field an older report does not have

FieldNames == {"decisions", "failures", "traced", "turns", "commission",
               "fall", "gain", "holdFall", "holdGain", "quantGain"}

\* Counts, falls and commissions are not negative: the backtest measures a fall downwards.
ASSUME GateAssumption ==
    /\ \A f \in FieldNames : Figures[f] # {}
    /\ Missing \in Int
    /\ \A f \in {"decisions", "failures", "turns", "commission", "fall", "holdFall"} :
         Figures[f] \subseteq Nat
    /\ \A f \in {"gain", "holdGain", "quantGain"} : Figures[f] \subseteq Int

VARIABLE report

MinDecisions == 50
MinDecisionsPerRegime == 5
MinSpread == 30              \* MIN_REGIME_EXPOSURE_SPREAD, in hundredths
MinMinorityShare == 5        \* retired, for a report without regimes in its trace
MaxCommission == 6
MinDrawdownAdvantage == 3

GateInit == report = [f \in FieldNames |-> CHOOSE v \in Figures[f] : TRUE]

Measure(field, v) == report' = [report EXCEPT ![field] = v]

\* _discrimination_check.  A trace is a function from regimes to the number of their
\* decisions and their mean exposure, or, of an older report, the share invested.
Usable(trace) == {g \in DOMAIN trace.regimes : trace.regimes[g].n >= MinDecisionsPerRegime}
Discriminates(trace) ==
    IF trace.regimes = <<>>
    THEN trace.share >= MinMinorityShare /\ 100 - trace.share >= MinMinorityShare
    ELSE /\ Cardinality(Usable(trace)) >= 2
         /\ LET exposures == {trace.regimes[g].share : g \in Usable(trace)}
            IN  Max(exposures) - Min(exposures) >= MinSpread

\* evaluate: the share of attempts that failed, of decisions that turned.
Reliable(r) == r.decisions + r.failures > 0 /\ 100 * r.failures <= 5 * (r.decisions + r.failures)
Enough(r) == r.decisions >= MinDecisions

\* Mutant: per attempt instead of per decision.
ChurnPerAttempt(r) == 100 * r.turns <= 30 * (r.decisions + r.failures)

NotAChurner(r) == r.decisions > 0 /\ 100 * r.turns <= 30 * r.decisions
CommissionIsSmall(r) == r.commission # Missing /\ r.commission <= MaxCommission
SavesCapital(r) == r.holdFall - r.fall >= MinDrawdownAdvantage
CutsTheFall(r) == r.holdFall > 0 /\ 100 * r.fall <= 60 * r.holdFall

\* _risk_matched_check: at least a static position of the same fall, less the commission.
MatchesTheRisk(r) ==
    /\ r.holdFall > 0
    /\ (r.gain + (IF r.commission = Missing THEN 0 ELSE r.commission)) * r.holdFall
         >= r.fall * r.holdGain

\* _capture_check, against the numeric policy.
Captures(gain, reference) ==
    IF reference > 0 THEN 100 * gain >= 75 * reference ELSE gain >= reference

Approves(r) ==
    /\ Reliable(r) /\ Enough(r) /\ Discriminates(r.traced) /\ NotAChurner(r)
    /\ CommissionIsSmall(r) /\ SavesCapital(r) /\ CutsTheFall(r) /\ MatchesTheRisk(r)
    /\ Captures(r.gain, r.quantGain)

GateNext == \E f \in FieldNames : \E v \in Figures[f] \ {report[f]} : Measure(f, v)
GateSpec == GateInit /\ [][GateNext]_report

-----------------------------------------------------------------------------

GateTypeOK == \A f \in FieldNames : report[f] \in Figures[f]

\* The gate is not for sale: of two runs that differ in one measurement, the one that
\* failed more often, turned more often, earned less or, in a market that did not lose, fell
\* deeper, or whose reference earned more, is never the one that is approved.  Nothing of
\* the kind holds of a deeper fall in a losing market, or of a higher commission: both are
\* weighed against a static position of the same fall, less the commission, and can pass a
\* run that would fail without them.
Worse(f) ==
    \/ f \in {"failures", "turns", "holdGain", "quantGain"} /\ report'[f] > report[f]
    \/ f = "gain" /\ report'[f] < report[f]
    \/ f = "decisions" /\ report'[f] < report[f] /\ report.decisions > 0
    \/ f = "fall" /\ report'[f] > report[f] /\ report.holdGain >= 0
WorseIsNotApproved ==
    [][\A f \in FieldNames : report'[f] # report[f] /\ Worse(f) /\ Approves(report')
         => Approves(report)]_report

\* "The rewrite does NOT relax anything" (gate_llm_agent.py:16): what it approves, the
\* criteria it retired approve as well.
NothingIsRelaxed ==
    Approves(report) /\ report.holdGain > 0 => 100 * report.gain >= 50 * report.holdGain

-----------------------------------------------------------------------------
(***************************************************************************)
(* BacktestNotice: notify_backtest, which watches a process that runs for  *)
(* hours and posts its report with the verdict of the gate, whatever it    *)
(* is, and the posting itself, which the daily summary shares.  Reports    *)
(* are written over one path by any run.                                   *)
(***************************************************************************)
CONSTANT LastHour   \* bound: time modelled

ASSUME NoticeAssumption == LastHour \in Nat \ {0}

VARIABLES
    hour,    \* time
    run,     \* the process whose number was given: "running", "gone" or, another
             \* user's, "foreign"
    onDisk,  \* the report: when it was written, or NoReport, and what the gate says of it
    watcher, \* where the script is, how it exits
    since,   \* watch_started, Unwatched without a process to wait for
    channel, \* the configuration and the venue's answer, see Answers
    posted,  \* what an operator received: "nothing" or the message
    message  \* the message composed

noticeVars == <<hour, run, onDisk, watcher, since, channel, posted, message>>

NoReport == -1
Unwatched == -2

\* What can become of a post: not configured, a wrong token or address, unreachable, an
\* HTTP error, an unreadable body, and 200 with or without ok.
Answers == {"unset", "malformed", "unreachable", "http error", "garbled", "refused", "accepted"}

NoticeInit ==
    /\ hour = 1 /\ run \in {"running", "gone", "foreign"}
    /\ onDisk \in {[at |-> a, verdict |-> "approve"] : a \in {NoReport, 0}}
    /\ watcher = "start" /\ since = Unwatched /\ channel \in Answers
    /\ posted = "nothing" /\ message = [text |-> "none", of |-> onDisk]

Hour ==
    /\ hour < LastHour /\ hour' = hour + 1
    /\ UNCHANGED <<run, onDisk, watcher, since, channel, posted, message>>

\* A run ends, with a report as the last thing it does, or dies before.  Any run writes.
Verdicts == {"approve", "reject", "crash"}   \* "crash": the gate ends without a verdict
RunEnds ==
    /\ run = "running" /\ run' = "gone"
    /\ \/ \E v \in Verdicts : onDisk' = [at |-> hour, verdict |-> v]
       \/ UNCHANGED onDisk
    /\ UNCHANGED <<hour, watcher, since, channel, posted, message>>

\* main and wait_for: a process that is gone already is an error.
Watch ==
    /\ watcher = "start"
    /\ \/ watcher' = "waiting" /\ run # "gone" /\ since' = hour
       \/ watcher' = "exit 2" /\ run = "gone" /\ since' = hour
       \/ watcher' = "settled" /\ since' = Unwatched
    /\ UNCHANGED <<hour, run, onDisk, channel, posted, message>>

\* A process the script may not signal counts as alive at first and as gone after that.
Settle ==
    /\ watcher = "waiting" /\ run \in {"gone", "foreign"}
    /\ watcher' = "settled"
    /\ UNCHANGED <<hour, run, onDisk, since, channel, posted, message>>

\* Mutant: a report is a report.
AnyReport == TRUE

\* fresher_than.
Fresh == since = Unwatched \/ onDisk.at >= since

\* gate_verdict and compose: approved on exit code 0; the criteria that failed are the
\* lines the gate printed, none when it printed nothing.
Composed(r) ==
    IF r.at = NoReport THEN "no report"
    ELSE IF r.verdict = "approve" THEN "APROBADO" ELSE "RECHAZADO"

\* send_slack.
Accepted == channel = "accepted"

\* The rest of main.
Announce ==
    /\ watcher = "settled"
    /\ IF onDisk.at # NoReport /\ ~Fresh
       THEN watcher' = "exit 2" /\ UNCHANGED <<posted, message>>
       ELSE /\ message' = [text |-> Composed(onDisk), of |-> onDisk]
            /\ posted' = IF Accepted THEN Composed(onDisk) ELSE "nothing"
            /\ watcher' = IF Accepted THEN "exit 0" ELSE "exit 1"
    /\ UNCHANGED <<hour, run, onDisk, since, channel>>

NoticeNext == Hour \/ RunEnds \/ Watch \/ Settle \/ Announce
NoticeSpec == NoticeInit /\ [][NoticeNext]_noticeVars

-----------------------------------------------------------------------------

NoticeTypeOK ==
    /\ hour \in 1..LastHour /\ channel \in Answers
    /\ watcher \in {"start", "waiting", "settled", "exit 0", "exit 1", "exit 2"}

\* A verdict that is announced of a watched run is of a report that was written after the
\* vigil began; approval is announced only of a report the gate approves; and the script
\* reports success exactly when the message was received.
AnnouncementIsTrue ==
    /\ message.text \in {"APROBADO", "RECHAZADO"} /\ since # Unwatched => message.of.at >= since
    /\ message.text = "APROBADO" <=> message.text # "none" /\ message.of.at # NoReport
                                       /\ message.of.verdict = "approve"
    /\ watcher = "exit 0" <=> posted # "nothing"
=============================================================================
