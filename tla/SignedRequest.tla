--------------------------- MODULE SignedRequest ----------------------------
(***************************************************************************)
(* One signed request of BinanceDemoExecutionAdapter._request and the      *)
(* clock correction it carries.  The venue refuses a timestamp that is     *)
(* older than recvWindow or ahead of its own clock (-1021); the adapter    *)
(* keeps an offset and measures it again only when it is refused.          *)
(*                                                                         *)
(* drift is how far the host clock is ahead of the venue's.  OrderSubmission *)
(* is about what an order does while it is retried; this module is about   *)
(* whether a call gets through, for an error ends the process.             *)
(***************************************************************************)
EXTENDS Integers

CONSTANTS
    Drifts,      \* how far ahead the host clock may be
    RecvWindow,  \* _RECV_WINDOW_MS
    Ahead,       \* how far ahead a timestamp may be (external)
    MaxRetries,  \* config.max_retries
    MaxSteps     \* bound: how often the clock is stepped

ASSUME RequestAssumption ==
    /\ Drifts \subseteq Int /\ 0 \in Drifts
    /\ RecvWindow \in Nat /\ Ahead \in Nat
    /\ MaxRetries \in Nat \ {0} /\ MaxSteps \in Nat
    \* The number that stands for no measurement is none.
    /\ -999 \notin Drifts

VARIABLES
    drift, steps,  \* the host clock and how often it was stepped (external)
    offset,        \* _time_offset_ms: a number, or Unknown
    req,           \* "idle", "measuring", "signed", "ok" or "raised"
    attempt,       \* the attempt of range(max_retries) under way
    smooth,        \* nothing but the clock has been against this request
    cause          \* why the last answer was an error

requestVars == <<drift, steps, offset, req, attempt, smooth, cause>>

Unknown == 999

RequestInit ==
    /\ drift \in Drifts /\ steps = 0 /\ offset = Unknown
    /\ req = "idle" /\ attempt = 0 /\ smooth = TRUE /\ cause = "none"

\* The host clock is stepped; a request under way is no longer smooth.
StepClock ==
    /\ steps < MaxSteps /\ steps' = steps + 1
    /\ drift' \in Drifts \ {drift}
    /\ smooth' = (req = "idle")
    /\ UNCHANGED <<offset, req, attempt, cause>>

\* A call of the adapter; the last one has returned.
Begin ==
    /\ req \in {"idle", "ok"}
    /\ req' = "measuring" /\ attempt' = 0 /\ smooth' = TRUE /\ cause' = "none"
    /\ UNCHANGED <<drift, steps, offset>>

\* _server_time_offset_ms: the cached value, or what /api/v3/time says, or zero.
Measure ==
    /\ req = "measuring"
    /\ \/ offset # Unknown /\ UNCHANGED <<offset, smooth>>
       \/ offset = Unknown /\ offset' = -drift /\ UNCHANGED smooth
       \/ offset = Unknown /\ offset' = 0 /\ smooth' = (smooth /\ drift = 0)
    /\ req' = "signed"
    /\ UNCHANGED <<drift, steps, attempt, cause>>

InWindow == drift + offset <= Ahead /\ drift + offset >= -RecvWindow

Retry(why) ==
    /\ req' = "measuring" /\ attempt' = attempt + 1 /\ cause' = why

Raise(why) ==
    /\ req' = "raised" /\ cause' = why /\ UNCHANGED attempt

\* The request is carried out.
Accepted ==
    /\ req = "signed" /\ InWindow
    /\ req' = "ok"
    /\ UNCHANGED <<drift, steps, offset, attempt, smooth, cause>>

\* Mutant: sign again with the offset at hand.
OutsideAgain ==
    /\ req = "signed" /\ ~InWindow
    /\ IF attempt < MaxRetries - 1 THEN Retry("clock") ELSE Raise("clock")
    /\ UNCHANGED <<drift, steps, offset, smooth>>

\* -1021: measure again and sign again, unless this was the last attempt.
Outside ==
    /\ req = "signed" /\ ~InWindow
    /\ IF attempt < MaxRetries - 1
       THEN /\ Retry("clock")
            \* _server_time_offset_ms(force=True)
            /\ \/ offset' = -drift /\ UNCHANGED smooth
               \/ offset' = 0 /\ smooth' = (smooth /\ drift = 0)
       ELSE Raise("clock") /\ UNCHANGED <<offset, smooth>>
    /\ UNCHANGED <<drift, steps>>

\* 418 and 429: wait and try again, but not after the last attempt.
Limited ==
    /\ req = "signed" /\ smooth' = FALSE
    /\ IF attempt < MaxRetries - 1 THEN Retry("limit") ELSE Raise("limit")
    /\ UNCHANGED <<drift, steps, offset>>

\* URLError and TimeoutError: after the last attempt the loop falls through.
Unreachable ==
    /\ req = "signed" /\ smooth' = FALSE
    /\ IF attempt + 1 < MaxRetries THEN Retry("network") ELSE Raise("network")
    /\ UNCHANGED <<drift, steps, offset>>

\* Any other HTTP error is fatal at once.
Fatal ==
    /\ req = "signed" /\ InWindow /\ smooth' = FALSE
    /\ Raise("http")
    /\ UNCHANGED <<drift, steps, offset>>

\* The error ends the process; the next one has measured nothing.
ProcessEnds ==
    /\ req = "raised"
    /\ req' = "idle" /\ offset' = Unknown /\ smooth' = TRUE /\ attempt' = 0
    /\ UNCHANGED <<drift, steps, cause>>

Answer == Accepted \/ Outside \/ Limited \/ Unreachable \/ Fatal
RequestNext == StepClock \/ Begin \/ Measure \/ Answer \/ ProcessEnds

RequestSpec == RequestInit /\ [][RequestNext]_requestVars

-----------------------------------------------------------------------------

RequestTypeOK ==
    /\ drift \in Drifts /\ steps \in 0..MaxSteps
    /\ offset \in {Unknown, 0} \cup {-d : d \in Drifts}
    /\ req \in {"idle", "measuring", "signed", "ok", "raised"}
    /\ attempt \in 0..(MaxRetries - 1) /\ smooth \in BOOLEAN
    /\ cause \in {"none", "clock", "limit", "network", "http"}

\* A clock that drifted since the last call costs an attempt and never the process:
\* as long as the venue tells the time and nothing else goes wrong, the call succeeds.
DriftIsSurvived == (req = "raised" /\ smooth) => cause # "clock"

\* The inductive invariant: once a smooth request was refused, its clock was measured.
RequestInv ==
    /\ RequestTypeOK
    /\ smooth /\ attempt > 0 /\ req \in {"measuring", "signed"} => offset = -drift
    /\ MaxRetries > 1 => DriftIsSurvived
=============================================================================
