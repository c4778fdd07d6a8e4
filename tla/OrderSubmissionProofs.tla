------------------------ MODULE OrderSubmissionProofs ------------------------
(* The submission of a market order implements a submitted order, on an    *)
(* exchange that may execute every request it gets.                        *)
EXTENDS OrderSubmission, TLAPS

(* No step leaves the types.                                               *)
LEMMA SubmissionTypeStep ==
    SubmissionTypeOK /\ [SubmissionNext]_submissionVars => SubmissionTypeOK'
  <1> SUFFICES ASSUME SubmissionTypeOK, [SubmissionNext]_submissionVars PROVE SubmissionTypeOK'
    OBVIOUS
  <1> USE AttemptsAssumption, TimeAssumption
          DEF SubmissionTypeOK, Attempts, exchange, Unresolved, SenderDies
  <1>1. ASSUME NEW a \in Attempts, Arrive(a) PROVE SubmissionTypeOK'
    <2>1. left' \in [Attempts -> 0..OrderWindow + 1]
      BY <1>1 DEF Arrive
    <2>2. done' \subseteq Attempts
      BY <1>1 DEF Arrive
    <2>3. reply' \in {"none", "executed", "refused", "later"}
      BY <1>1 DEF Arrive, Replied
    <2> QED
      BY <1>1, <2>1, <2>2, <2>3 DEF Arrive
  <1>2. ASSUME NEW a \in Attempts, Lose(a) PROVE SubmissionTypeOK'
    BY <1>2 DEF Lose
  <1>3. CASE Tick
    BY <1>3 DEF Tick, AtMost
  <1>4. CASE Send
    BY <1>4 DEF Send
  <1>5. CASE Answered
    BY <1>5 DEF Answered
  <1>6. CASE TryAgain
    BY <1>6 DEF TryAgain
  <1>7. CASE GiveUp
    BY <1>7 DEF GiveUp
  <1>8. CASE Found
    BY <1>8 DEF Found
  <1>9. CASE MarkUnknown
    BY <1>9 DEF MarkUnknown
  <1>10. CASE Mark
    BY <1>10 DEF Mark
  <1>11. CASE CrashSubmitting
    BY <1>11 DEF CrashSubmitting
  <1>12. CASE ServiceRestarts
    BY <1>12 DEF ServiceRestarts
  <1>13. CASE Resolve
    BY <1>13 DEF Resolve
  <1>14. CASE UNCHANGED submissionVars
    BY <1>14 DEF submissionVars
  <1> QED
    BY <1>1, <1>2, <1>3, <1>4, <1>5, <1>6, <1>7, <1>8, <1>9, <1>10, <1>11, <1>12, <1>13, <1>14
       DEF SubmissionNext, Client

(* Nor does any break what is known of the order.                          *)
LEMMA SubmissionStep ==
    ASSUME SubmissionInv, [SubmissionNext]_submissionVars
    PROVE  SubmissionInv'
  <1> SubmissionTypeOK'
    BY SubmissionTypeStep DEF SubmissionInv
  <1> USE AttemptsAssumption, TimeAssumption, DelayAssumption
          DEF SubmissionTypeOK, SubmissionInv, Silent, InFlight, Attempts, exchange, Unresolved, SenderDies
  <1>1. ASSUME NEW a \in Attempts, Arrive(a) PROVE SubmissionInv'
    <2>1. left[a] > 0 /\ left' = [left EXCEPT ![a] = 0]
      BY <1>1 DEF Arrive
    <2>2. InFlight' = InFlight \ {a} /\ a \in InFlight
      BY <2>1
    <2>3. \A b \in Attempts : left'[b] = 0 \/ left'[b] = left[b]
      BY <2>1
    <2>4. done \subseteq done' /\ done' \subseteq done \cup {a}
      BY <1>1 DEF Arrive
    <2>5. UNCHANGED <<doubts, intent, pc, current, age, rest, faults>>
      BY <1>1 DEF Arrive
    <2>6. pc # "resolve" /\ intent # "NOT_FOUND"
      BY <2>2
    <2>7. reply' = "executed" => reply = "executed" \/ done' # {}
      BY <1>1 DEF Arrive, Replied
    <2>8. reply' \in {"refused", "later"} => current \notin done' \cup InFlight'
      BY <1>1, <2>2 DEF Arrive, Replied
    <2> QED
      BY <2>2, <2>3, <2>4, <2>5, <2>6, <2>7, <2>8
  <1>2. ASSUME NEW a \in Attempts, Lose(a) PROVE SubmissionInv'
    BY <1>2 DEF Lose
  <1>3. CASE Tick
    <2>1. ASSUME NEW a \in Attempts
          PROVE  left'[a] = IF left[a] = 0 THEN 0 ELSE left[a] - 1
      BY <1>3, <2>1 DEF Tick
    <2>2. \A a \in Attempts : left[a] \in Nat
      BY DEF SubmissionTypeOK
    <2>3. InFlight' \subseteq InFlight
      <3>1. ASSUME NEW a \in Attempts, left'[a] > 0 PROVE left[a] > 0
        BY ONLY <2>1, <2>2, <3>1
      <3> QED
        BY <3>1
    <2>4. pc = "down" => rest' = rest + 1 \/ rest' = RestartDelay
      BY <1>3 DEF Tick, AtMost
    <2>5. UNCHANGED <<done, doubts, reply, intent, pc, current, faults>>
      BY <1>3 DEF Tick
    <2>6. ASSUME pc = "down", NEW a \in Attempts PROVE left'[a] = 0 \/ left'[a] + rest' <= OrderWindow + 1
      <3>1. left[a] = 0 \/ left[a] + rest <= OrderWindow + 1
        BY <2>6
      <3>2. rest' = rest + 1 \/ (rest' = RestartDelay /\ rest = RestartDelay)
        BY <1>3, <2>6 DEF Tick, AtMost
      <3>3. rest \in Nat /\ OrderWindow \in Nat /\ left[a] \in Nat
        BY <2>2, <2>6
      <3>4. left'[a] = 0 \/ (left'[a] = left[a] - 1 /\ left[a] # 0)
        BY <2>1
      <3> QED
        BY ONLY <3>1, <3>2, <3>3, <3>4
    <2> QED
      BY <2>3, <2>5, <2>6
  <1>4. CASE Send
    BY <1>4 DEF Send
  <1>5. CASE Answered
    BY <1>5 DEF Answered
  <1>6. CASE TryAgain
    <2>1. /\ current' = current + 1 /\ pc' = "send" /\ pc = "await"
          /\ UNCHANGED <<left, done, reply, intent, age, rest, faults>>
      BY <1>6 DEF TryAgain
    <2>2. UNCHANGED InFlight
      BY <2>1
    <2>3. doubts \subseteq doubts' /\ doubts' \subseteq doubts \cup {current}
      BY <1>6 DEF TryAgain
    <2>4. done \cup InFlight \subseteq doubts'
      <3>1. CASE reply = "later"
        BY <2>3, <3>1
      <3>2. CASE reply # "later"
        <4>1. doubts' = doubts \cup {current}
          BY <1>6, <3>2 DEF TryAgain
        <4> QED
          BY <4>1
      <3> QED
        BY <3>1, <3>2
    <2>5. \A a \in doubts' : a < current'
      BY <2>1, <2>3
    <2>6. current' \notin done \cup InFlight
      BY <2>1, <2>4, <2>5
    <2> QED
      BY <2>1, <2>2, <2>4, <2>5, <2>6
  <1>7. CASE GiveUp
    BY <1>7 DEF GiveUp
  <1>8. CASE Found
    BY <1>8 DEF Found
  <1>9. CASE MarkUnknown
    BY <1>9 DEF MarkUnknown
  <1>10. CASE Mark
    BY <1>10 DEF Mark
  <1>11. CASE CrashSubmitting
    BY <1>11 DEF CrashSubmitting
  <1>12. CASE ServiceRestarts
    <2>1. \A a \in Attempts : left[a] = 0
      <3>1. \A a \in Attempts : left[a] = 0 \/ left[a] + RestartDelay <= OrderWindow + 1
        BY <1>12 DEF ServiceRestarts
      <3>2. \A a \in Attempts : left[a] \in Nat
        OBVIOUS
      <3> QED
        BY ONLY <3>1, <3>2, TimeAssumption, DelayAssumption
    <2>2. InFlight = {}
      BY <2>1
    <2>3. pc = "down" /\ pc' = "resolve" /\ intent \in Unresolved
      BY <1>12 DEF ServiceRestarts
    <2>4. UNCHANGED <<exchange, doubts, intent, current, age, rest, faults>>
      BY <1>12 DEF ServiceRestarts
    <2> QED
      BY <2>2, <2>3, <2>4
  <1>13. CASE Resolve
    BY <1>13 DEF Resolve
  <1>14. CASE UNCHANGED submissionVars
    BY <1>14 DEF submissionVars
  <1> QED
    BY <1>1, <1>2, <1>3, <1>4, <1>5, <1>6, <1>7, <1>8, <1>9, <1>10, <1>11, <1>12, <1>13, <1>14
       DEF SubmissionNext, Client

(* All of it holds of an order that has not been sent.                     *)
LEMMA SubmissionInitially == SubmissionInit => SubmissionInv
  BY AttemptsAssumption, TimeAssumption
     DEF SubmissionInit, SubmissionTypeOK, SubmissionInv, Silent, InFlight, Attempts, Unresolved

(* What is known of the order at each point of its submission, for any     *)
(* number of attempts and faults and any timing whose restart delay        *)
(* exceeds recvWindow.                                                     *)
THEOREM SubmissionInvariance == SubmissionSpec => []SubmissionInv
  BY SubmissionInitially, SubmissionStep, PTL DEF SubmissionSpec

(* An order of which no request was given up for another without an        *)
(* answer executes at most once.                                           *)
THEOREM OnlyDoubtsFillTwice == SubmissionSpec => []DoubtfulFills
  <1>1. SubmissionInv => DoubtfulFills
    BY DEF SubmissionInv, DoubtfulFills, RetryCannotDoubleFill
  <1> QED
    BY SubmissionInvariance, <1>1, PTL

(* Every step sends, executes, drops or concludes the abstract order, or   *)
(* stutters.                                                               *)
LEMMA RefinementStep ==
    ASSUME SubmissionInv, [SubmissionNext]_submissionVars
    PROVE  [Order!Next]_<<InFlight, done, Verdict>>
  <1> SubmissionTypeOK'
    BY SubmissionTypeStep DEF SubmissionInv
  <1>1. ASSUME NEW a \in Attempts, Arrive(a) PROVE Order!Execute(a) \/ Order!Drop
    <2>1. a \in InFlight /\ InFlight' = InFlight \ {a} /\ UNCHANGED intent
      BY <1>1 DEF Arrive, SubmissionInv, SubmissionTypeOK, InFlight
    <2>2. done' = done \cup {a} \/ done' = done
      BY <1>1 DEF Arrive
    <2>3. UNCHANGED Verdict
      BY <2>1 DEF Verdict
    <2> QED
      BY <2>1, <2>2, <2>3 DEF Order!Execute, Order!Drop
  <1>2. ASSUME InFlight' \subseteq InFlight, UNCHANGED <<done, intent>> PROVE Order!Drop
    BY <1>2 DEF Order!Drop, Verdict
  <1>3. ASSUME NEW a \in Attempts, Lose(a) PROVE Order!Drop
    BY <1>2, <1>3 DEF Lose, SubmissionInv, SubmissionTypeOK, InFlight
  <1>4. CASE Tick
    <2>1. InFlight' \subseteq InFlight
      BY <1>4, TimeAssumption DEF Tick, SubmissionInv, SubmissionTypeOK, InFlight
    <2> QED
      BY <1>2, <1>4, <2>1 DEF Tick, Order!Next
  <1>5. CASE Send
    <2>1. current \in Attempts /\ current \notin InFlight \cup done /\ intent \in Unresolved
      BY <1>5 DEF Send, SubmissionInv, SubmissionTypeOK, Unresolved
    <2>2. InFlight' = InFlight \cup {current} /\ UNCHANGED <<done, intent>>
      BY <1>5, TimeAssumption DEF Send, SubmissionInv, SubmissionTypeOK, InFlight
    <2>3. Order!Send(current)
      BY <2>1, <2>2 DEF Order!Send, Verdict, Unresolved
    <2> QED
      BY <2>1, <2>3 DEF Order!Next
  <1>6. CASE UNCHANGED <<left, done, intent>>
    BY <1>6 DEF Verdict, InFlight
  <1>7. CASE Answered \/ TryAgain \/ GiveUp \/ Found \/ ServiceRestarts \/ CrashSubmitting
             \/ UNCHANGED submissionVars
    BY <1>6, <1>7 DEF Answered, TryAgain, GiveUp, Found, ServiceRestarts, CrashSubmitting,
                      submissionVars, exchange
  <1>8. CASE MarkUnknown
    <2>1. intent \in Unresolved /\ intent' \in Unresolved /\ UNCHANGED <<left, done>>
      BY <1>8 DEF MarkUnknown, SubmissionInv, exchange, Unresolved
    <2>2. Verdict = "open" /\ Verdict' = "open"
      BY <2>1 DEF Verdict, Unresolved
    <2>3. UNCHANGED InFlight
      BY <2>1 DEF InFlight
    <2> QED
      BY <2>1, <2>2, <2>3
  <1>9. CASE Mark
    <2>1. intent \in Unresolved /\ intent' = "FILLED" /\ done # {} /\ UNCHANGED <<left, done>>
      BY <1>9 DEF Mark, SubmissionInv, exchange
    <2> QED
      BY <2>1 DEF Verdict, Unresolved, InFlight, Order!Next, Order!Conclude
  <1>10. CASE Resolve
    <2>1. intent \in Unresolved /\ InFlight = {} /\ UNCHANGED <<left, done>>
      BY <1>10 DEF Resolve, SubmissionInv, Silent, exchange
    <2>2. \/ done # {} /\ intent' = "FILLED"
          \/ done = {} /\ intent' = "NOT_FOUND"
          \/ UNCHANGED intent
      BY <1>10 DEF Resolve
    <2> QED
      BY <2>1, <2>2 DEF Verdict, Unresolved, InFlight, Order!Next, Order!Conclude
  <1>11. Order!Drop => Order!Next
    BY DEF Order!Next
  <1>12. \A a \in Attempts : Order!Execute(a) => Order!Next
    BY DEF Order!Next
  <1> QED
    BY <1>1, <1>3, <1>4, <1>5, <1>7, <1>8, <1>9, <1>10, <1>11, <1>12 DEF SubmissionNext, Client

(* The submission implements the submitted order: only what was sent       *)
(* executes, each request once, and what the ledger concludes is true and  *)
(* final.                                                                  *)
THEOREM Implementation == SubmissionSpec => IsSubmittedOrder
  <1>1. SubmissionInit => Order!Init
    BY DEF SubmissionInit, Order!Init, Verdict, Unresolved, InFlight
  <1>2. SubmissionInv /\ [SubmissionNext]_submissionVars =>
            [Order!Next]_<<InFlight, done, Verdict>>
    BY RefinementStep
  <1> QED
    BY <1>1, <1>2, SubmissionInvariance, PTL DEF SubmissionSpec, IsSubmittedOrder, Order!Spec
=============================================================================
