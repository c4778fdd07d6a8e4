--------------------------- MODULE DecisionService --------------------------
(***************************************************************************)
(* The retired decision service: the machine of the system state, and the  *)
(* chain from an opportunity to an exported decision.                      *)
(***************************************************************************)
EXTENDS Naturals, SequencesExt

(***************************************************************************)
(* SystemMachine: the rules SM-001 to SM-031 that move the state of the    *)
(* decision system, (position, evaluation, health), one event at a time.   *)
(* The rules are tried in order and the first that applies fires; when     *)
(* none does the state stays.  The guards an event carries are booleans    *)
(* and a quantity that is zero or not: `ok' stands for the one permission  *)
(* each event asks for (mandates valid, intent valid with its cost known,  *)
(* risk approved, exit valid, cause resolved, a cooldown longer than       *)
(* none).                                                                  *)
(***************************************************************************)

VARIABLES
    sys,      \* SystemState
    event     \* what the last transition answered

machineVars == <<sys, event>>

Positions == {"UNKNOWN", "FLAT", "ENTRY_PENDING", "LONG", "EXIT_PENDING"}
Evaluations == {"IDLE", "ENTRY_CANDIDATE", "EXIT_CANDIDATE", "COOLDOWN"}
Healths == {"READY", "DEGRADED", "BLOCKED"}
SystemStates == [position : Positions, evaluation : Evaluations, health : Healths]

StateEvents ==
    {"POSITION_SYNC_FLAT", "POSITION_SYNC_LONG", "POSITION_CONFLICT", "QUALITY_READY",
     "QUALITY_DEGRADED", "QUALITY_BLOCKED", "STRATEGIC_TICK", "NO_INTENT", "ENTRY_INTENT",
     "EXIT_INTENT", "PROTECTIVE_TRIGGER", "RISK_APPROVED", "RISK_REJECTED", "MANDATE_EXPIRED",
     "DECISION_RECORDED", "DECISION_EXPIRED", "DUPLICATE_IDENTITY", "ENTRY_FILLED",
     "EXIT_PARTIAL", "EXIT_FILLED", "EXECUTION_REJECTED", "EXECUTION_CANCELLED",
     "COOLDOWN_STARTED", "COOLDOWN_EXPIRED", "UNKNOWN_SCHEMA"}
Unanswered == {"EXECUTION_REJECTED", "EXECUTION_CANCELLED", "DECISION_EXPIRED"}

\* What an event brings with it.
Guards == [ok : BOOLEAN, authoritative : BOOLEAN, some : BOOLEAN, protective : BOOLEAN,
           valid : BOOLEAN]

\* SystemState.validate_combination: a state it refuses cannot be built.
Lawful(s) ==
    /\ s.position = "UNKNOWN" => s.evaluation = "IDLE" /\ s.health = "BLOCKED"
    /\ s.position \in {"ENTRY_PENDING", "EXIT_PENDING"} => s.evaluation = "IDLE"
    /\ s.evaluation = "ENTRY_CANDIDATE" => s.position = "FLAT" /\ s.health = "READY"
    /\ s.evaluation = "EXIT_CANDIDATE" => s.position = "LONG"
    /\ s.evaluation = "COOLDOWN" => s.position = "FLAT"

To(p, e, h) == [position |-> p, evaluation |-> e, health |-> h]

\* The rules of any position: reconciliation and health come first.
FirstRules(s, e, g) == LET p == s.position
                           h == s.health IN
 << <<e = "POSITION_CONFLICT", To("UNKNOWN", "IDLE", "BLOCKED")>>,                   \* SM-003
    <<e = "UNKNOWN_SCHEMA",
      To(IF g.ok /\ p # "UNKNOWN" THEN p ELSE "UNKNOWN", "IDLE", "BLOCKED")>>,       \* SM-031
    <<e = "DUPLICATE_IDENTITY", s>>,                                                 \* SM-029
    <<p = "UNKNOWN" /\ e = "POSITION_SYNC_FLAT" /\ g.authoritative /\ ~g.some,
      To("FLAT", "IDLE", "BLOCKED")>>,                                               \* SM-001
    <<p = "UNKNOWN" /\ e = "POSITION_SYNC_LONG" /\ g.authoritative /\ g.some,
      To("LONG", "IDLE", "BLOCKED")>>,                                               \* SM-002
    <<e \in {"QUALITY_BLOCKED", "MANDATE_EXPIRED"} /\ p # "UNKNOWN",
      To(p, "IDLE", "BLOCKED")>>,                                                    \* SM-008
    <<e = "QUALITY_DEGRADED" /\ h = "READY" /\ p # "UNKNOWN", To(p, "IDLE", "DEGRADED")>>,
    <<e = "QUALITY_READY" /\ p \in {"FLAT", "LONG"} /\ h # "READY" /\ g.ok,
      To(p, s.evaluation, "READY")>> >>                                      \* SM-004, 5, 7

FlatRules(s, e, g) == LET h == s.health
                          ev == s.evaluation IN
 << <<e = "COOLDOWN_STARTED" /\ ev = "IDLE" /\ g.ok, To("FLAT", "COOLDOWN", h)>>,    \* SM-018
    <<ev = "IDLE" /\ h = "READY" /\ e = "ENTRY_INTENT" /\ g.ok,
      To("FLAT", "ENTRY_CANDIDATE", h)>>,                                            \* SM-010
    <<ev = "ENTRY_CANDIDATE" /\ e = "RISK_REJECTED", To("FLAT", "IDLE", h)>>,        \* SM-011
    <<ev = "ENTRY_CANDIDATE" /\ (e = "DECISION_EXPIRED" \/ ~g.valid),
      To("FLAT", "IDLE", IF g.some THEN "BLOCKED" ELSE "DEGRADED")>>,                \* SM-012
    <<ev = "ENTRY_CANDIDATE" /\ e = "DECISION_RECORDED" /\ g.ok,
      To("ENTRY_PENDING", "IDLE", h)>>,                                              \* SM-013
    <<ev = "COOLDOWN" /\ e = "COOLDOWN_EXPIRED" /\ g.ok, To("FLAT", "IDLE", h)>>,    \* SM-017
    <<e = "POSITION_SYNC_LONG" /\ g.authoritative /\ g.some,
      To("LONG", "IDLE", "BLOCKED")>> >>                                             \* SM-028

EntryPendingRules(s, e, g) ==
 << <<e = "ENTRY_FILLED" /\ g.authoritative /\ g.some, To("LONG", "IDLE", s.health)>>, \* SM-015
    <<e \in Unanswered /\ ~g.some, To("FLAT", "COOLDOWN", s.health)>> >>             \* SM-016

\* Mutant: a rejected exit is taken for an exit that needed no order.
RejectedIsOut(s, e, g) ==
 << <<e \in Unanswered /\ g.some, To("FLAT", "EXIT_CANDIDATE", "DEGRADED")>> >>

LongRules(s, e, g) == LET h == s.health
                          ev == s.evaluation IN
 << <<e = "EXIT_INTENT" /\ ev = "IDLE" /\ h = "READY" /\ g.ok,
      To("LONG", "EXIT_CANDIDATE", h)>>,                                             \* SM-020
    <<e = "PROTECTIVE_TRIGGER" /\ g.authoritative, To("LONG", "EXIT_CANDIDATE", h)>>, \* SM-021
    <<ev = "EXIT_CANDIDATE" /\ e = "RISK_REJECTED" /\ ~g.protective,
      To("LONG", "IDLE", h)>>,                                                       \* SM-022
    <<ev = "EXIT_CANDIDATE" /\ e = "DECISION_RECORDED" /\ g.ok,
      To("EXIT_PENDING", "IDLE", h)>>,                                               \* SM-023
    <<e = "POSITION_SYNC_FLAT" /\ g.authoritative,
      To("FLAT", "COOLDOWN", "DEGRADED")>> >>                                        \* SM-027

ExitPendingRules(s, e, g) ==
 << <<e = "EXIT_FILLED" /\ g.authoritative /\ ~g.some, To("FLAT", "COOLDOWN", s.health)>>,
    <<e \in Unanswered /\ g.some, To("LONG", "EXIT_CANDIDATE", "DEGRADED")>> >>      \* SM-026

RulesOf(s, e, g) ==
    FirstRules(s, e, g) \o
    CASE s.position = "FLAT" -> FlatRules(s, e, g)
      [] s.position = "LONG" -> LongRules(s, e, g)
      [] s.position = "ENTRY_PENDING" -> EntryPendingRules(s, e, g)
      [] s.position = "EXIT_PENDING" -> ExitPendingRules(s, e, g)
      [] OTHER -> <<>>

\* transition: the first rule whose condition holds, or SM-030, the state as it is.
transition(s, e, g) ==
    LET rules == RulesOf(s, e, g)
        fired == SelectInSeq(rules, LAMBDA rule : rule[1])
    IN  IF fired = 0 THEN s ELSE rules[fired][2]

MachineInit == sys = To("UNKNOWN", "IDLE", "BLOCKED") /\ event = "UNKNOWN_SCHEMA"

Answer(e, g) == event' = e /\ sys' = transition(sys, e, g)

MachineNext == \E e \in StateEvents, g \in Guards : Answer(e, g)

MachineTypeOK == sys \in SystemStates /\ event \in StateEvents

\* is_prohibited_direct_transition.
Prohibited(before, after, e) ==
    \/ before.position = "FLAT" /\ after.position = "LONG" /\ e # "POSITION_SYNC_LONG"
    \/ /\ before.position = "LONG" /\ after.position = "FLAT"
       /\ e \notin {"POSITION_SYNC_FLAT", "EXIT_FILLED"}
    \/ /\ after.evaluation = "ENTRY_CANDIDATE"
       /\ before.position = "UNKNOWN" \/ before.health # "READY"

\* No sequence of events reaches a state the contract refuses: `transition' would raise in
\* the middle of an evaluation.
StatesAreLawful == Lawful(sys)

\* The position never jumps without the exchange's word for it, and the system is ready
\* again only when the quality of its data is.
NoJump ==
    [][/\ ~Prohibited(sys, sys', event')
       /\ sys.health # "READY" /\ sys'.health = "READY" => event' = "QUALITY_READY"]_machineVars

-----------------------------------------------------------------------------
(***************************************************************************)
(* DecisionChain: from an opportunity to an exported decision.  One call   *)
(* asks the risk governor for a verdict, lets the decision machine resolve *)
(* one action by the precedence P0 to P5, appends the decision to a        *)
(* hash-chained file and only then exports it; the same decision offered   *)
(* again is suppressed.  The process may die anywhere in that call, and a  *)
(* line of the file may be cut or left without its newline.                *)
(*                                                                         *)
(* A request is offered again until it is answered: that is what the       *)
(* suppression is for.  Its references match, since one call builds them   *)
(* all; a mandate is blocked when it says so or when no size fits it.      *)
(***************************************************************************)
CONSTANTS
    MaxRequests,   \* evaluations of one behaviour
    MaxVersions    \* changes of the system state of one behaviour

ASSUME ChainAssumption == MaxRequests \in Nat /\ MaxVersions \in Nat

VARIABLES
    request,    \* what is being evaluated, NoRequest when nothing is
    version,    \* of the system state: it names every state it came from
    ledger,     \* the decisions on disk, in order
    tail,       \* how the last line of the file ends: "whole", "unended" or "cut"
    known,      \* the decisions the running ledger knows, {} when there is none
    process,    \* "up", "down", or "refused" when its ledger does not load
    exported    \* the decisions handed to their caller, in order

chainVars == <<sys, event, request, version, ledger, tail, known, process, exported>>

NoRequest == [id |-> 0]
\* What the policy asks for, what the account holds, and whether the mandate allows it.
Intents == {"ENTRY", "EXIT", "NONE"}
Portfolios == {"FLAT", "LONG", "UNKNOWN"}
Mandates == {"valid", "expired", "blocked"}
Requests(n) ==
    [id : {n}, intent : Intents, portfolio : Portfolios, qualified : BOOLEAN,
     mandate : Mandates, breached : BOOLEAN]

\* RiskGovernor.evaluate: what an approval asks for.
Approved(r) ==
    /\ r.intent = "ENTRY" /\ r.mandate = "valid" /\ r.portfolio = "FLAT"
    /\ ~r.breached /\ r.qualified

\* assess_protection: a breached limit while the account holds a position.  The service does
\* not ask it: a protective evaluation is another caller's, through the same machine.
Protective(r) == r.breached /\ r.portfolio = "LONG"

\* OfflineDecisionService._blockers.
Blockers(r) == ~r.qualified \/ r.portfolio = "UNKNOWN" \/ r.mandate = "expired"

\* DecisionMachine._entry_rejection, once the blockers are out of the way.
EntryRejected(s, r) ==
    \/ s.position # "FLAT" \/ s.health # "READY" \/ s.evaluation \notin {"IDLE", "ENTRY_CANDIDATE"}
    \/ ~Approved(r)

Hold(s, priority) == [action |-> "HOLD", priority |-> priority, after |-> s]
BlockedHold(s, priority) == Hold(To(s.position, "IDLE", "BLOCKED"), priority)
Exit(s, priority) ==
    [action |-> "EXIT_LONG", priority |-> priority, after |-> To("EXIT_PENDING", "IDLE", s.health)]
Enter == [action |-> "ENTER_LONG", priority |-> 4, after |-> To("ENTRY_PENDING", "IDLE", "READY")]

\* Mutant: the blockers do not keep an entry out.
decide_EntryFirst(s, r) ==
    CASE r.intent = "ENTRY" /\ s.position = "FLAT" -> Enter
      [] s.position = "UNKNOWN" \/ r.portfolio = "UNKNOWN" -> BlockedHold(s, 0)
      [] Protective(r) /\ s.position = "LONG" -> Exit(s, 1)
      [] OTHER -> Hold(s, 5)

\* DecisionMachine.decide: P0 to P5, each only where no earlier one applies.
decide(s, r) ==
    IF s.position = "UNKNOWN" \/ r.portfolio = "UNKNOWN" THEN BlockedHold(s, 0)
    ELSE IF Protective(r) /\ s.position = "LONG" THEN Exit(s, 1)
    ELSE IF Blockers(r) THEN BlockedHold(s, 2)
    ELSE IF r.intent = "EXIT" /\ s.position = "LONG" THEN Exit(s, 3)
    ELSE IF r.intent = "ENTRY" THEN IF EntryRejected(s, r) THEN Hold(s, 2) ELSE Enter
    ELSE Hold(s, 5)

\* The identity of a decision: its evaluation, its state and what was decided.
Identity(r, s, v, d) == [id |-> r.id, state |-> s, version |-> v, action |-> d.action]
Decided == decide(sys, request)
DecisionId == Identity(request, sys, version, Decided)

NothingDecided ==
    /\ version = 0 /\ request = NoRequest /\ ledger = <<>> /\ tail = "whole" /\ known = {}
    /\ process = "up" /\ exported = <<>>
ChainInit ==
    /\ sys \in {To("FLAT", "IDLE", "READY"), To("LONG", "IDLE", "READY"),
                To("UNKNOWN", "IDLE", "BLOCKED")}
    /\ event = "QUALITY_READY" /\ NothingDecided

\* The caller has something to evaluate.
Submit ==
    /\ process = "up" /\ request.id < MaxRequests
    /\ \E r \in Requests(request.id + 1) :
         /\ r.intent = "ENTRY" => sys.position = "FLAT"
         /\ r.intent = "EXIT" => sys.position = "LONG"
         /\ request' = r
    /\ UNCHANGED <<sys, event, version, ledger, tail, known, process, exported>>

\* JsonlDecisionLedger.append: one line after whatever the file ends with.  A line that
\* follows one without its newline becomes part of it.
Appended ==
    /\ ledger' = Append(ledger, DecisionId)
    /\ tail' = IF tail = "unended" THEN "cut" ELSE tail

\* decide_record_export: the decision is on disk before anyone is told of it.
Export ==
    /\ process = "up" /\ request # NoRequest /\ DecisionId \notin known
    /\ version < MaxVersions
    /\ Appended /\ known' = known \cup {DecisionId}
    /\ exported' = Append(exported, DecisionId)
    /\ sys' = Decided.after /\ event' = "DECISION_RECORDED" /\ version' = version + 1
    /\ UNCHANGED <<request, process>>

\* A decision already on record is answered with its record, and not exported.
Suppress ==
    /\ process = "up" /\ request # NoRequest /\ DecisionId \in known
    /\ UNCHANGED chainVars

\* The process dies inside append: before the write, in the middle of a line, before its
\* newline, or with the line on disk and nobody told.
Die ==
    /\ process = "up" /\ process' = "down" /\ known' = {}
    /\ \/ UNCHANGED <<ledger, tail>>
       \/ /\ request # NoRequest /\ DecisionId \notin known /\ Len(ledger) < MaxVersions
          /\ \/ ledger' = ledger /\ tail' = "cut"
             \/ tail = "whole" /\ ledger' = Append(ledger, DecisionId) /\ tail' = "unended"
             \/ Appended
    /\ UNCHANGED <<sys, event, request, version, exported>>

\* Mutant: the chain is checked and the decisions of an earlier process are forgotten.
StartFresh ==
    /\ process = "down"
    /\ IF tail = "cut" THEN process' = "refused" /\ known' = {} ELSE process' = "up" /\ known' = {}
    /\ UNCHANGED <<sys, event, request, version, ledger, tail, exported>>

\* JsonlDecisionLedger._load: a line that does not parse raises, and the service does not
\* start.
Start ==
    /\ process = "down"
    /\ IF tail = "cut" THEN process' = "refused" /\ known' = {}
       ELSE process' = "up" /\ known' = ToSet(ledger)
    /\ UNCHANGED <<sys, event, request, version, ledger, tail, exported>>

\* The exchange and the data move the system state.
Feedbacks == {"ENTRY_FILLED", "EXIT_FILLED", "EXECUTION_REJECTED", "COOLDOWN_EXPIRED",
              "QUALITY_READY", "POSITION_SYNC_LONG"}
Feedback ==
    /\ process = "up" /\ version < MaxVersions
    /\ \E e \in Feedbacks, some \in BOOLEAN :
         LET g == [ok |-> TRUE, authoritative |-> TRUE, some |-> some, protective |-> FALSE,
                   valid |-> TRUE]
         IN  transition(sys, e, g) # sys /\ Answer(e, g)
    /\ version' = version + 1
    /\ UNCHANGED <<request, ledger, tail, known, process, exported>>

ChainNext == Submit \/ Export \/ Suppress \/ Die \/ Start \/ Feedback

ChainTypeOK ==
    /\ MachineTypeOK /\ version \in 0..MaxVersions
    /\ request \in {NoRequest} \cup UNION {Requests(n) : n \in 1..MaxRequests}
    /\ tail \in {"whole", "unended", "cut"} /\ process \in {"up", "down", "refused"}
    /\ known \subseteq ToSet(ledger)

\* A decision is on record once and handed over at most once, whatever dies and however
\* often the request is offered again, and never before it is on disk.
DecisionsAreHandedOverOnce ==
    IsInjective(ledger) /\ IsInjective(exported) /\ ToSet(exported) \subseteq ToSet(ledger)

\* An entry is exported only from a ready, flat system whose account is flat, with every
\* limit respected and every input fit to decide on.
EntriesAreEndorsed ==
    [][\A n \in (Len(exported) + 1)..Len(exported') :
         exported'[n].action = "ENTER_LONG" =>
           /\ sys.position = "FLAT" /\ sys.health = "READY"
           /\ Approved(request) /\ ~Blockers(request)]_chainVars
=============================================================================
