--------------------------- MODULE OrderSubmission ---------------------------
(***************************************************************************)
(* One market order on its way to the exchange: the attempts of            *)
(* BinanceDemoExecutionAdapter._request, the lookup by client id that      *)
(* _place_market_order falls back on, the status the runner writes in the  *)
(* intent ledger, and what a restarted process concludes about the order   *)
(* in _resolve_unfinished_intents.  RealtimeRunner's ExchangeExecutes,     *)
(* PlacementRaises, LateExecution and ResolveIntent are this protocol seen *)
(* from the strategy.                                                      *)
(*                                                                         *)
(* A signed request can be executed until recvWindow has passed since its  *)
(* timestamp, whatever its sender does meanwhile: time out, send another,  *)
(* or die.  Time is discrete; every wait of the code is a lower bound (a   *)
(* process may be suspended), and timers saturate at the bound they are    *)
(* compared with.                                                          *)
(*                                                                         *)
(* Nothing in the repository says that the exchange refuses a client id it *)
(* has executed before, and RealtimeRunner's Executes takes it to accept   *)
(* one: every request that arrives in time may execute.  RealtimeRunner    *)
(* counts one POST call as one execution; what can happen inside the call  *)
(* is the subject of this module.                                          *)
(***************************************************************************)
EXTENDS Integers

CONSTANTS
    MaxAttempts,   \* DemoExecutionConfig.max_retries
    OrderWindow,   \* _RECV_WINDOW_MS, in ticks
    RestartDelay,  \* RestartSec of the service, in ticks
    Patience,      \* the 30 seconds of _resolve_unfinished_intents, in ticks
    MaxFaults      \* bound: crashes, and lookups that fail after a restart

Attempts == 1..MaxAttempts

ASSUME AttemptsAssumption == MaxAttempts \in Nat \ {0} /\ MaxFaults \in Nat
ASSUME TimeAssumption == OrderWindow \in Nat /\ Patience \in Nat /\ RestartDelay \in Nat
(* The unit file's RestartSec exceeds recvWindow.                          *)
ASSUME DelayAssumption == RestartDelay > OrderWindow

VARIABLES
    left,     \* per attempt: ticks for which its request can still execute
    done,     \* the attempts that have executed
    doubts,   \* history: attempts given up for another without an answer
    reply,    \* the exchange's answer to the current attempt
    intent,   \* status in the intent ledger
    pc,       \* where the client is
    current,  \* `attempt' of the loop in _request, from 1
    age,      \* ticks since the intent was prepared, at most Patience
    rest,     \* ticks since the process died, at most RestartDelay
    faults    \* faults still to come

exchange == <<left, done, reply>>
submissionVars == <<exchange, doubts, intent, pc, current, age, rest, faults>>

Unresolved == {"PREPARED", "UNKNOWN"}

SubmissionTypeOK ==
    /\ left \in [Attempts -> 0..OrderWindow + 1]
    /\ done \subseteq Attempts /\ doubts \subseteq Attempts
    /\ reply \in {"none", "executed", "refused", "later"}
    /\ intent \in Unresolved \cup {"FILLED", "NOT_FOUND"}
    /\ pc \in {"send", "await", "lookup", "mark", "finished", "down", "resolve"}
    /\ current \in Attempts
    /\ age \in 0..Patience /\ rest \in 0..RestartDelay
    /\ faults \in 0..MaxFaults

SubmissionInit ==
    /\ left = [a \in Attempts |-> 0] /\ done = {} /\ doubts = {} /\ reply = "none"
    /\ intent = "PREPARED" /\ pc = "send" /\ current = 1
    /\ age = 0 /\ rest = 0 /\ faults = MaxFaults

-----------------------------------------------------------------------------
(* The network and the exchange.                                           *)

Replied(a, answer) == reply' = IF pc = "await" /\ a = current THEN answer ELSE reply

(* A request reaches the exchange in time.  The order executes, whatever   *)
(* became of the other requests for it; or it is refused; or the rate      *)
(* limit or its timestamp turns it away (418, 429, -1021).                 *)
Arrive(a) ==
    /\ left[a] > 0
    /\ left' = [left EXCEPT ![a] = 0]
    /\ \/ done' = done \cup {a} /\ Replied(a, "executed")
       \/ UNCHANGED done /\ Replied(a, "refused")
       \/ UNCHANGED done /\ Replied(a, "later")
    /\ UNCHANGED <<doubts, intent, pc, current, age, rest, faults>>

(* A request is lost.                                                      *)
Lose(a) ==
    /\ left[a] > 0
    /\ left' = [left EXCEPT ![a] = 0]
    /\ UNCHANGED <<done, doubts, reply, intent, pc, current, age, rest, faults>>

AtMost(a, b) == IF a <= b THEN a ELSE b

(* A tick passes: requests in flight come closer to their deadline.        *)
Tick ==
    /\ left' = [a \in Attempts |-> IF left[a] = 0 THEN 0 ELSE left[a] - 1]
    /\ age'  = AtMost(age + 1, Patience)
    /\ rest' = IF pc = "down" THEN AtMost(rest + 1, RestartDelay) ELSE rest
    /\ UNCHANGED <<done, doubts, reply, intent, pc, current, faults>>

-----------------------------------------------------------------------------
(* _request: the attempts of the POST.                                     *)

Send ==
    /\ pc = "send"
    /\ left' = [left EXCEPT ![current] = OrderWindow + 1]
    /\ reply' = "none"
    /\ pc' = "await"
    /\ UNCHANGED <<done, doubts, intent, current, age, rest, faults>>

Answered ==
    /\ pc = "await" /\ reply = "executed"
    /\ pc' = "mark"
    /\ UNCHANGED <<exchange, doubts, intent, current, age, rest, faults>>

(* 418, 429, -1021, URLError or TimeoutError, with attempts left: the      *)
(* order is sent again, whatever becomes of the requests already sent.     *)
TryAgain ==
    /\ pc = "await"
    /\ current < MaxAttempts
    /\ current' = current + 1
    /\ doubts' = IF reply = "later" THEN doubts ELSE doubts \cup {current}
    /\ pc' = "send"
    /\ UNCHANGED <<exchange, intent, age, rest, faults>>

(* Any other HTTP error, or no attempt left: _request raises RuntimeError, *)
(* and the order is looked up by its client id.                            *)
GiveUp ==
    /\ pc = "await"
    /\ reply = "refused" \/ current = MaxAttempts
    /\ pc' = "lookup"
    /\ UNCHANGED <<exchange, doubts, intent, current, age, rest, faults>>

-----------------------------------------------------------------------------
(* _place_market_order and the runner's bookkeeping.                       *)

SenderDies == pc' = "down" /\ rest' = 0

Found ==
    /\ pc = "lookup" /\ done # {}
    /\ pc' = "mark"
    /\ UNCHANGED <<exchange, doubts, intent, current, age, rest, faults>>

(* Mutant: an order that cannot be found is taken for one that was never   *)
(* accepted.                                                               *)
MarkNotFound ==
    /\ pc \in {"await", "lookup"}
    /\ intent' = "NOT_FOUND"
    /\ SenderDies
    /\ UNCHANGED <<exchange, doubts, current, age, faults>>

(* The lookup fails, or finds nothing; or the POST dies of an exception    *)
(* that is no RuntimeError.  The intent is marked UNKNOWN, and the         *)
(* exception ends the process.                                             *)
MarkUnknown ==
    /\ pc \in {"await", "lookup"}
    /\ intent' = "UNKNOWN"
    /\ SenderDies
    /\ UNCHANGED <<exchange, doubts, current, age, faults>>

Mark ==
    /\ pc = "mark"
    /\ intent' = "FILLED"
    /\ pc' = "finished"
    /\ UNCHANGED <<exchange, doubts, current, age, rest, faults>>

CrashSubmitting ==
    /\ pc \notin {"down", "finished"} /\ faults > 0
    /\ faults' = faults - 1
    /\ SenderDies
    /\ UNCHANGED <<exchange, doubts, intent, current, age>>

-----------------------------------------------------------------------------
(* The next process.                                                       *)

(* Mutant: the service starts again at once.                               *)
ServiceRestartsAtOnce ==
    /\ pc = "down"
    /\ pc' = "resolve"
    /\ UNCHANGED <<exchange, doubts, intent, current, age, rest, faults>>

ServiceRestarts ==
    /\ pc = "down" /\ rest = RestartDelay
    /\ pc' = "resolve"
    /\ UNCHANGED <<exchange, doubts, intent, current, age, rest, faults>>

(* Mutant: an order that cannot be found stops every start.                *)
ResolveNever ==
    /\ pc = "resolve"
    /\ \/ done # {} /\ intent' = "FILLED" /\ pc' = "finished" /\ UNCHANGED <<rest, faults>>
       \/ done = {} /\ SenderDies /\ UNCHANGED <<intent, faults>>
    /\ UNCHANGED <<exchange, doubts, current, age>>

(* _resolve_unfinished_intents: the order is found; or it is not, and is   *)
(* declared NOT_FOUND when the intent is old enough; otherwise, and when   *)
(* the lookup fails, the process ends.                                     *)
Resolve ==
    /\ pc = "resolve"
    /\ \/ done # {} /\ intent' = "FILLED" /\ pc' = "finished" /\ UNCHANGED <<rest, faults>>
       \/ /\ done = {} /\ age = Patience
          /\ intent' = "NOT_FOUND" /\ pc' = "finished" /\ UNCHANGED <<rest, faults>>
       \/ done = {} /\ age < Patience /\ SenderDies /\ UNCHANGED <<intent, faults>>
       \/ faults > 0 /\ faults' = faults - 1 /\ SenderDies /\ UNCHANGED intent
    /\ UNCHANGED <<exchange, doubts, current, age>>

-----------------------------------------------------------------------------
Client ==
    \/ Send \/ Answered \/ TryAgain \/ GiveUp \/ Found \/ MarkUnknown \/ Mark
    \/ ServiceRestarts \/ Resolve

SubmissionNext ==
    \/ Client \/ CrashSubmitting \/ Tick
    \/ \E a \in Attempts : Arrive(a) \/ Lose(a)

SubmissionSpec == SubmissionInit /\ [][SubmissionNext]_submissionVars

(* Every call returns or raises, the service is restarted, time passes.    *)
SubmissionFairness == WF_submissionVars(Client) /\ WF_submissionVars(Tick)

-----------------------------------------------------------------------------
(* The requests that may still execute.                                    *)
InFlight == {a \in Attempts : left[a] > 0}

Silent == InFlight = {}

(* What is known of the order at each point: which requests can have       *)
(* executed, or still can; that no request outlives the restart delay; and *)
(* that the ledger's word is true.                                         *)
SubmissionInv ==
    /\ SubmissionTypeOK
    /\ done \cup InFlight \subseteq doubts \cup {current}
    /\ \A a \in doubts : a < current
    /\ InFlight \cap done = {}
    /\ pc = "send" => current \notin done \cup InFlight
    /\ reply = "executed" \/ pc = "mark" \/ intent = "FILLED" => done # {}
    /\ reply \in {"refused", "later"} => current \notin done \cup InFlight
    /\ intent = "NOT_FOUND" => done = {} /\ Silent
    /\ pc = "finished" <=> intent \notin Unresolved
    /\ pc = "down" => \A a \in Attempts : left[a] = 0 \/ left[a] + rest <= OrderWindow + 1
    /\ pc = "resolve" => Silent

(* The ledger's word on the order.                                         *)
Verdict ==
    CASE intent \in Unresolved -> "open"
      [] intent = "FILLED"     -> "executed"
      [] intent = "NOT_FOUND"  -> "void"

(* What the ledger concludes of an order is true and final, and nothing    *)
(* executes but what was sent, each request once: the attempts, the        *)
(* lookup, the 30 seconds and the restart delay together implement a       *)
(* submitted order.                                                        *)
Order ==
    INSTANCE SubmittedOrder WITH
        Requests <- Attempts, pending <- InFlight, executed <- done, verdict <- Verdict
IsSubmittedOrder == Order!Spec

(* The ledger always reaches a verdict: no order blocks the strategy for   *)
(* ever.                                                                   *)
Settles == <>(intent \notin Unresolved)

(* "Stable id for one intended order, so a retry cannot double-fill": at   *)
(* most one request for an order executes.  The id alone does not see to   *)
(* it: after a timeout the POST is sent again although the first may have  *)
(* executed.                                                               *)
RetryCannotDoubleFill == \A a, b \in done : a = b

(* Fills beyond one are fills of requests that were given up for another   *)
(* without an answer: without such a one the order executes at most once.  *)
DoubtfulFills == doubts = {} => RetryCannotDoubleFill
=============================================================================
