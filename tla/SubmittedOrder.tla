--------------------------- MODULE SubmittedOrder ----------------------------
(***************************************************************************)
(* What the intent ledger promises of one order, however often it was      *)
(* sent: it executes only through requests that were sent, each once, and  *)
(* the verdict the ledger reaches is true and final.  It does not promise  *)
(* that a single one executes.                                             *)
(***************************************************************************)
CONSTANT Requests

VARIABLES
    pending,   \* requests that may still execute
    executed,  \* requests that have executed
    verdict    \* what the ledger says of the order

Init == pending = {} /\ executed = {} /\ verdict = "open"

Send(r) ==
    /\ verdict = "open" /\ r \notin pending \cup executed
    /\ pending' = pending \cup {r}
    /\ UNCHANGED <<executed, verdict>>

(* The exchange executes a request that is on its way.                     *)
Execute(r) ==
    /\ r \in pending
    /\ pending' = pending \ {r} /\ executed' = executed \cup {r}
    /\ UNCHANGED verdict

(* Requests are refused, lost or out of time.                              *)
Drop ==
    /\ pending' \in SUBSET pending
    /\ UNCHANGED <<executed, verdict>>

(* The ledger learns that the order has executed; or it declares it void,  *)
(* and then nothing has executed and nothing can any more.                 *)
Conclude ==
    /\ verdict = "open"
    /\ \/ executed # {} /\ verdict' = "executed"
       \/ executed = {} /\ pending = {} /\ verdict' = "void"
    /\ UNCHANGED <<pending, executed>>

Next == Drop \/ Conclude \/ \E r \in Requests : Send(r) \/ Execute(r)

Spec == Init /\ [][Next]_<<pending, executed, verdict>>
=============================================================================
