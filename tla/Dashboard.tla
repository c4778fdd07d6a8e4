------------------------------ MODULE Dashboard ------------------------------
(***************************************************************************)
(* What an operator sees of the agent: what the entries of the journal say *)
(* of each decision, and the page that shows them.                         *)
(***************************************************************************)
EXTENDS Integers, Sequences, FiniteSets, SequencesExt

(***************************************************************************)
(* DecisionReport: from a decision to what an operator is told of it.  An  *)
(* evaluation ends in one reason code, the runner may replace it when the  *)
(* order does not go through, the entry goes to the journal, and the       *)
(* dashboard and the daily summary read who decided, and with what         *)
(* authority, back out of the codes.                                       *)
(*                                                                         *)
(* A code is its head and, for a verdict of the agent, the fields written  *)
(* after it.  "stage" is not written: it is the stage of the engine that   *)
(* took the decision, kept to compare with.                                *)
(***************************************************************************)

CONSTANTS
    Postures,  \* the postures a verdict can have
    MaxPages   \* bound: entries journalled

ASSUME ReportAssumption ==
    Postures \subseteq {"DEFENSIVA", "NEUTRAL", "AGRESIVA"} /\ MaxPages \in Nat \ {0}

VARIABLES
    pages,     \* the journal
    standing,  \* the engine has a verdict in memory
    holds,     \* the book holds a position
    rights     \* the process has order authority

reportVars == <<pages, standing, holds, rights>>

NoFields == [regime |-> -1, posture |-> "none", deep |-> FALSE, tail |-> "none"]
Fields(posture, deep, tail) == [regime |-> 3, posture |-> posture, deep |-> deep, tail |-> tail]

\* An entry.  Entries of versions before the field was added say nothing of authority.
Page(stage, head, fields, action, dry, side, right) ==
    [stage |-> stage, head |-> head, fields |-> fields, action |-> action,
     dry |-> dry, side |-> side, authority |-> right]

ReportInit ==
    /\ pages \in {<<>>, <<Page("held", "AGENT_VERDICT_UNCHANGED", NoFields, "HOLD", FALSE,
                               "none", "unknown")>>}
    /\ standing = FALSE /\ holds \in BOOLEAN /\ rights \in {"yes", "no"}

DataReasons == {"PRICE_MISSING", "DATA_STALE", "HISTORY_INSUFFICIENT", "BBO_MISSING",
                "SPREAD_TOO_WIDE"}

\* LLMAgentEngine.evaluate: what each stage can return, as [stage, head, fields, action].
Returned(stage, head, fields, action) ==
    [stage |-> stage, head |-> head, fields |-> fields, action |-> action]
OfGuards ==
    {Returned("guard", h, NoFields, IF holds THEN "EXIT_LONG" ELSE "HOLD") :
       h \in {"DAILY_LOSS_BREAKER", "DRAWDOWN_BREAKER"}}
    \cup (IF holds THEN {Returned("guard", "PROTECTIVE_STOP", NoFields, "EXIT_LONG")} ELSE {})
    \cup {Returned("guard", h, NoFields, "HOLD") : h \in DataReasons \cup {"PERCEPTION_INSUFFICIENT"}}

\* Mutant: the numeric policy may open a position as well.
OpeningFallback ==
    {Returned("fallback", "FALLBACK_QUANT_SELL", NoFields, "EXIT_LONG"),
     Returned("fallback", "FALLBACK_QUANT_BUY", NoFields, "ENTER_LONG")}

\* _fallback_decision.
OfFallback ==
    {Returned("fallback", "FALLBACK_QUANT_SELL", NoFields, "EXIT_LONG"),
     Returned("fallback", "FALLBACK_QUANT_HOLD", NoFields, "HOLD"),
     IF holds THEN Returned("fallback", "FALLBACK_QUANT_BUY", NoFields, "HOLD")
              ELSE Returned("fallback", "FALLBACK_QUANT_ENTRY_SUPPRESSED", NoFields, "HOLD")}

\* _act_on_verdict.
OfVerdict ==
    {Returned("agent", "AGENT", Fields(p, d, t), "HOLD") :
       p \in Postures, d \in BOOLEAN, t \in {"BELOW_COST", "BANDA_MUERTA"}}
    \cup {Returned("agent", "AGENT", Fields(p, d, IF holds THEN "AMPLIA" ELSE "none"), "ENTER_LONG") :
            p \in Postures, d \in BOOLEAN}
    \cup (IF holds
          THEN {Returned("agent", "AGENT", Fields(p, d, t), "EXIT_LONG") :
                  p \in Postures, d \in BOOLEAN, t \in {"none", "REDUCE"}}
          ELSE {})

\* process_event: the runner's own reasons for a decision it could not carry out.  A
\* market order that was answered but not filled is on the entry all the same.
Vetoes(action) ==
    {"POSITION_CHANGED", "DUPLICATE_INTENT"} \cup
    (IF action = "ENTER_LONG" THEN {"CAPITAL_INSUFFICIENT", "ADJUSTMENT_NO_LONGER_NEEDED"}
     ELSE {"RESIDUAL_BELOW_MIN_NOTIONAL", "REMAINDER_UNPROTECTABLE"})
Side(action) == IF action = "ENTER_LONG" THEN "BUY" ELSE "SELL"

Journalled(r, right) ==
    IF r.action = "HOLD" THEN {Page(r.stage, r.head, r.fields, "HOLD", FALSE, "none", right)}
    ELSE IF right = "no" THEN {Page(r.stage, r.head, r.fields, r.action, TRUE, "none", right)}
    ELSE {Page(r.stage, r.head, r.fields, r.action, FALSE, Side(r.action), right),
          Page(r.stage, "ORDER_NOT_FILLED", NoFields, "HOLD", FALSE, Side(r.action), right)}
         \cup {Page(r.stage, v, NoFields, "HOLD", FALSE, "none", right) : v \in Vetoes(r.action)}

Write(page) ==
    /\ pages' = Append(pages, page)
    /\ holds' = IF page.side = "none" \/ page.head = "ORDER_NOT_FILLED" THEN holds
                ELSE IF page.side = "BUY" THEN TRUE
                ELSE page.fields.tail = "REDUCE"

\* One evaluated event, from the engine to the journal.
Report ==
    /\ Len(pages) < MaxPages
    /\ \E r \in OfGuards \cup OfFallback \cup OfVerdict \cup
                (IF standing THEN {Returned("held", "AGENT_VERDICT_UNCHANGED", NoFields, "HOLD")}
                 ELSE {}) :
         /\ \E page \in Journalled(r, rights) : Write(page)
         /\ standing' = (standing \/ r.stage = "agent")
    /\ UNCHANGED rights

\* The protective order filled between two events: the runner records it by itself.
ExternalFill ==
    /\ Len(pages) < MaxPages /\ holds
    /\ Write(Page("guard", "PROTECTIVE_ORDER_FILLED", NoFields, "EXIT_LONG", FALSE, "SELL", rights))
    /\ UNCHANGED <<standing, rights>>

\* Restarted, perhaps by the other unit, with or without authority.
Rerun == rights' \in {"yes", "no"} /\ standing' = FALSE /\ UNCHANGED <<pages, holds>>

ReportNext == Report \/ ExternalFill \/ Rerun
ReportSpec == ReportInit /\ [][ReportNext]_reportVars

-----------------------------------------------------------------------------
\* The reading side.

\* classify_origin, prefix by prefix.
FallbackHeads == {"FALLBACK_QUANT_SELL", "FALLBACK_QUANT_HOLD", "FALLBACK_QUANT_BUY",
                  "FALLBACK_QUANT_ENTRY_SUPPRESSED"}
Origin(page) ==
    IF page.head \in FallbackHeads THEN "FALLBACK"
    ELSE IF page.head = "AGENT_VERDICT_UNCHANGED" THEN "LLM_SOSTENIDO"
    ELSE IF page.head = "AGENT" THEN "LLM" ELSE "VETADO"

\* parse_reason: _MODE finds its letter right after the conviction, where the code writes
\* the posture.
Deliberated(page) ==
    CASE page.head = "AGENT" /\ page.fields.posture = "DEFENSIVA" -> "yes"
      [] OTHER -> "unknown"

LastOf(S) == IF S = {} THEN 0 ELSE Max(S)

\* stage_states: the stage the decision stopped at, or "all".
BlockedAt(page) ==
    IF page.head \in {"DAILY_LOSS_BREAKER", "DRAWDOWN_BREAKER"} THEN "INTERRUPTORES"
    ELSE IF page.head = "PROTECTIVE_STOP" THEN "STOP EXCHANGE"
    ELSE IF page.head \in DataReasons THEN "DATOS"
    ELSE IF page.head = "PERCEPTION_INSUFFICIENT" THEN "PERCEPCION"
    ELSE IF page.fields.tail = "BELOW_COST" THEN "COSTE Y CADENCIA" ELSE "all"

\* build_state and build_summary.
Authority ==
    LET i == LastOf({j \in DOMAIN pages : pages[j].authority # "unknown"})
    IN  IF i # 0 THEN pages[i].authority
        ELSE IF pages # <<>> /\ Last(pages).dry THEN "no" ELSE "unknown"
StandingVerdict == LastOf({i \in DOMAIN pages : pages[i].fields.regime # -1})
Counted(o) == {i \in DOMAIN pages : Origin(pages[i]) = o}
DecidedByLLM == Counted("LLM") \cup Counted("LLM_SOSTENIDO")
LastOwnVerdict == LastOf(DecidedByLLM)
Purchases == {i \in DOMAIN pages : pages[i].side = "BUY"}

-----------------------------------------------------------------------------

ReportTypeOK ==
    /\ Len(pages) <= MaxPages /\ standing \in BOOLEAN /\ holds \in BOOLEAN
    /\ \A i \in DOMAIN pages : pages[i].authority \in {"yes", "no", "unknown"}

\* The report does not credit the wrong decider: an entry shown as a verdict of the LLM,
\* of the fallback or as held is one, every purchase that went through is shown as the
\* LLM's, and authority is claimed only when the last entry that says so was written by a
\* process that had it.
OriginIsTrue ==
    /\ \A i \in DOMAIN pages :
         LET o == Origin(pages[i])
         IN  /\ o = "LLM" => pages[i].stage = "agent"
             /\ o = "LLM_SOSTENIDO" => pages[i].stage = "held"
             /\ o = "FALLBACK" => pages[i].stage = "fallback"
    /\ \A i \in Purchases :
         pages[i].stage = "agent" /\ (pages[i].head # "ORDER_NOT_FILLED" => i \in DecidedByLLM)
    /\ Cardinality(DecidedByLLM) + Cardinality(Counted("FALLBACK"))
         + Cardinality(Counted("VETADO")) = Len(pages)
    /\ Authority = "yes" => \E i \in DOMAIN pages :
         /\ pages[i].authority = "yes"
         /\ \A j \in DOMAIN pages : j > i => pages[j].authority = "unknown"
    /\ StandingVerdict <= LastOwnVerdict

\* "Pull the structured fields back out of the reason code" (llm_agent_dashboard.py:130):
\* whether a verdict was deliberated is what the agent wrote.
DepthIsShown ==
    \A i \in DOMAIN pages : pages[i].head = "AGENT" =>
      Deliberated(pages[i]) = IF pages[i].fields.deep THEN "yes" ELSE "no"

-----------------------------------------------------------------------------
(***************************************************************************)
(* DashboardPage: the page an operator leaves open.  It asks the server    *)
(* for the state every few seconds and shows, each second, whether what it *)
(* shows is live: a failed poll and an agent that does not advance are two *)
(* different alarms.  The server reads the whole journal for each poll, so *)
(* that a journal that cannot be read is a failed poll.                    *)
(***************************************************************************)

CONSTANTS
    AgeLimit,    \* the page's limits: how old its data may be,
    StillLimit,  \* and for how long the count of evaluations may rest
    LastSecond   \* bound: time modelled

ASSUME PageAssumption ==
    AgeLimit \in Nat /\ StillLimit \in Nat /\ AgeLimit < StillLimit /\ LastSecond \in Nat

VARIABLES
    second,    \* time
    count,     \* entries in the journal, and when the last one was written
    wroteAt,
    server,    \* "up", "down" or "unreadable": up, over a journal that does not parse
    opened,    \* when the page was loaded
    lastOk,    \* the page's lastOk, lastEval, lastEvalChange
    lastEval,
    lastChange

pageVars == <<second, count, wroteAt, server, opened, lastOk, lastEval, lastChange>>

Never == -1

PageInit ==
    /\ second = 0 /\ count = 0 /\ wroteAt = 0 /\ server = "up"
    /\ opened = 0 /\ lastOk = Never /\ lastEval = Never /\ lastChange = Never

Second ==
    /\ second < LastSecond /\ second' = second + 1
    /\ UNCHANGED <<count, wroteAt, server, opened, lastOk, lastEval, lastChange>>

AgentWrites ==
    /\ count < LastSecond /\ wroteAt < second
    /\ count' = count + 1 /\ wroteAt' = second
    /\ UNCHANGED <<second, server, opened, lastOk, lastEval, lastChange>>

\* The server goes away or comes back; the journal breaks or is repaired.
ServerChanges ==
    /\ server' \in {"up", "down", "unreadable"}
    /\ UNCHANGED <<second, count, wroteAt, opened, lastOk, lastEval, lastChange>>

\* The page is loaded anew, never from a cache.
Load ==
    /\ server # "down"
    /\ opened' = second /\ lastOk' = Never /\ lastEval' = Never /\ lastChange' = Never
    /\ UNCHANGED <<second, count, wroteAt, server>>

\* Mutant: the clock of the count restarts with every poll that finds entries.
PollForgets ==
    /\ server = "up"
    /\ lastOk' = second /\ lastEval' = count
    /\ lastChange' = IF lastEval = Never THEN second ELSE lastChange
    /\ UNCHANGED <<second, count, wroteAt, server, opened>>

\* tick: a poll that is answered; one that is not leaves everything as it was.
Poll ==
    /\ server = "up"
    /\ lastOk' = second /\ lastEval' = count
    /\ lastChange' = IF count # lastEval THEN second ELSE lastChange
    /\ UNCHANGED <<second, count, wroteAt, server, opened>>

PageNext == Second \/ AgentWrites \/ ServerChanges \/ Load \/ Poll
PageSpec == PageInit /\ [][PageNext]_pageVars

\* heartbeat.
Heartbeat ==
    IF lastOk = Never THEN "unconnected"
    ELSE IF second - lastOk > AgeLimit THEN "disconnected"
    ELSE IF second - lastChange > StillLimit THEN "still" ELSE "live"

-----------------------------------------------------------------------------

PageTypeOK ==
    /\ second \in 0..LastSecond /\ count \in 0..LastSecond /\ wroteAt \in 0..second
    /\ {lastOk, lastEval, lastChange} \subseteq Never..LastSecond

\* No alarm is the wrong one: "the agent does not advance" is only said of an agent that
\* wrote nothing for that long before the data the page still trusts; and while the page
\* says it is live, what it shows is of the last AgeLimit seconds and is the journal as it
\* was then.
AlarmIsTrue ==
    /\ Heartbeat = "still" => wroteAt <= lastChange \/ wroteAt >= lastOk
    /\ Heartbeat \in {"still", "live"} =>
         /\ lastOk >= second - AgeLimit /\ lastOk >= opened
         /\ lastEval = count \/ wroteAt >= lastOk
=============================================================================
