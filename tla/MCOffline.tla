------------------------------ MODULE MCOffline ------------------------------
(***************************************************************************)
(* What is made of the records and of the past, on small instances: the    *)
(* dashboard and the notices that report on the agent, the gate that       *)
(* promotes it, the replays and simulations its rules were chosen by, and  *)
(* the retired decision service and policies it replaced.  As in           *)
(* MCMarketData a behaviour picks one part and the others rest.            *)
(***************************************************************************)
EXTENDS Dashboard, BacktestGate, Rollout,
        DecisionService, BacktestReplay, AgentView, TrendPolicy, TrancheLadder, ExecutionReplay,
        EpisodeStudy

VARIABLE part

offlineVars == <<part, reportVars, pageVars, report, noticeVars, rolloutVars,
                 chainVars, replayVars, viewVars, trendVars,
                 ladderVars, replayRuleVars, studyVars>>

OfflineParts == {"report", "page", "gate", "notice", "rollout", "chain", "machine",
                 "replay", "view", "trend", "ladder", "execution", "study"}

\* The rest of the variables of the decision chain, when only the machine moves.
requestVars == <<request, version, ledger, tail, known, process, exported>>

MCNetReturns == {-1, 1}
MCSeries == [i \in 1..Bars |-> [at |-> i - 1, price |-> 0]]

\* Two regimes with enough decisions each, and a report that has none.
MCTrace(low, high) ==
    [regimes |-> (0 :> [n |-> 6, share |-> low]) @@ (3 :> [n |-> 6, share |-> high]),
     share |-> 50]
MCFigures ==
    [decisions |-> {49, 57}, failures |-> {0, 3, 4}, turns |-> {17, 18},
     traced |-> {MCTrace(0, 29), MCTrace(0, 80), [regimes |-> <<>>, share |-> 40]},
     commission |-> {99, 0, 7}, fall |-> {0, 6, 13}, holdFall |-> {0, 20},
     gain |-> {-5, 20, 31}, holdGain |-> {-30, 100}, quantGain |-> {-5, 40}]

MCMinimum == (0 :> 60) @@ (1 :> 80) @@ (3 :> 70)
MCPersistence == (0 :> 1) @@ (3 :> 2)

Init ==
    /\ part \in OfflineParts
    /\ IF part = "report" THEN ReportInit
       ELSE pages = <<>> /\ standing = FALSE /\ holds = FALSE /\ rights = "no"
    /\ PageInit
    /\ GateInit
    /\ IF part = "notice" THEN NoticeInit
       ELSE /\ hour = 1 /\ run = "gone" /\ onDisk = [at |-> NoReport, verdict |-> "approve"]
            /\ watcher = "start" /\ since = Unwatched /\ channel = "unset"
            /\ posted = "nothing" /\ message = [text |-> "none", of |-> onDisk]
    /\ IF part = "rollout" THEN RolloutInit
       ELSE /\ series = MCSeries /\ index = 1 /\ marked = 0 /\ bought = Flat
            /\ cash = 0 /\ held = 0 /\ exposed = {} /\ earned = 0 /\ bridged = 0
            /\ walk = "on" /\ trades = <<>>
    /\ CASE part = "chain" -> ChainInit
         [] part = "machine" -> MachineInit /\ NothingDecided
         [] OTHER -> ChainInit /\ sys.health = "BLOCKED"
    /\ ReplayInit
    /\ IF part = "view" THEN ViewInit
       ELSE /\ ViewInit /\ today = LastDay /\ label = Cautious /\ ~invested
            /\ historyIndex = Rows(LastDay)
    /\ IF part = "trend" THEN TrendInit ELSE TrendInit /\ policy = "POL-101"
    /\ LadderInit
    /\ IF part = "execution" THEN ExecutionInit ELSE ExecutionInit /\ rules = Base
    /\ IF part = "study" THEN StudyInit
       ELSE /\ harness = "oos" /\ candles = <<>> /\ windows = <<>> /\ readingAt = StartOf(<<>>, 1)
            /\ openTrade = NoOpenTrade /\ armedFor = NotArmed /\ counted = 0 /\ episodes = <<>>
            /\ studyReport = NoStudyReport

Next ==
    \/ /\ part = "report" /\ ReportNext
       /\ UNCHANGED <<part, pageVars, report, noticeVars, rolloutVars,
                      chainVars, replayVars, viewVars, trendVars, ladderVars,
                      replayRuleVars, studyVars>>
    \/ /\ part = "page" /\ PageNext
       /\ UNCHANGED <<part, reportVars, report, noticeVars, rolloutVars,
                      chainVars, replayVars, viewVars, trendVars, ladderVars,
                      replayRuleVars, studyVars>>
    \/ /\ part = "gate" /\ GateNext
       /\ UNCHANGED <<part, reportVars, pageVars, noticeVars, rolloutVars,
                      chainVars, replayVars, viewVars, trendVars, ladderVars,
                      replayRuleVars, studyVars>>
    \/ /\ part = "notice" /\ NoticeNext
       /\ UNCHANGED <<part, reportVars, pageVars, report, rolloutVars,
                      chainVars, replayVars, viewVars, trendVars, ladderVars,
                      replayRuleVars, studyVars>>
    \/ /\ part = "rollout" /\ RolloutNext
       /\ UNCHANGED <<part, reportVars, pageVars, report, noticeVars,
                      chainVars, replayVars, viewVars, trendVars, ladderVars,
                      replayRuleVars, studyVars>>
    \/ /\ part = "chain" /\ ChainNext
       /\ UNCHANGED <<part, reportVars, pageVars, report, noticeVars, rolloutVars,
                      replayVars, viewVars, trendVars, ladderVars,
                      replayRuleVars, studyVars>>
    \/ /\ part = "machine" /\ MachineNext
       /\ UNCHANGED <<part, requestVars, reportVars, pageVars, report, noticeVars,
                      rolloutVars, replayVars, viewVars, trendVars,
                      ladderVars, replayRuleVars, studyVars>>
    \/ /\ part = "replay" /\ ReplayNext
       /\ UNCHANGED <<part, reportVars, pageVars, report, noticeVars, rolloutVars,
                      chainVars, viewVars, trendVars, ladderVars,
                      replayRuleVars, studyVars>>
    \/ /\ part = "view" /\ ViewNext
       /\ UNCHANGED <<part, reportVars, pageVars, report, noticeVars, rolloutVars,
                      chainVars, replayVars, trendVars, ladderVars,
                      replayRuleVars, studyVars>>
    \/ /\ part = "trend" /\ TrendNext
       /\ UNCHANGED <<part, reportVars, pageVars, report, noticeVars, rolloutVars,
                      chainVars, replayVars, viewVars, ladderVars,
                      replayRuleVars, studyVars>>
    \/ /\ part = "ladder" /\ LadderNext
       /\ UNCHANGED <<part, reportVars, pageVars, report, noticeVars, rolloutVars,
                      chainVars, replayVars, viewVars, trendVars,
                      replayRuleVars, studyVars>>
    \/ /\ part = "execution" /\ ExecutionNext
       /\ UNCHANGED <<part, reportVars, pageVars, report, noticeVars, rolloutVars,
                      chainVars, replayVars, viewVars, trendVars,
                      ladderVars, studyVars>>
    \/ /\ part = "study" /\ StudyNext
       /\ UNCHANGED <<part, reportVars, pageVars, report, noticeVars, rolloutVars,
                      chainVars, replayVars, viewVars, trendVars,
                      ladderVars, replayRuleVars>>

Spec == Init /\ [][Next]_offlineVars

OfflineTypeOK ==
    /\ ReportTypeOK /\ PageTypeOK /\ GateTypeOK /\ NoticeTypeOK /\ RolloutTypeOK
    /\ MachineTypeOK /\ ChainTypeOK /\ ReplayTypeOK /\ ViewTypeOK
    /\ TrendTypeOK /\ LadderTypeOK /\ ExecutionTypeOK /\ StudyTypeOK

\* What the people who watch the agent are told is so: who made a decision, whether the
\* agent still runs, and what became of a backtest.
ReportsAreTrue == OriginIsTrue /\ AlarmIsTrue /\ AnnouncementIsTrue

\* The retired service hands a decision over once, and the system is only ever in the
\* states its rules name.
DecisionsAreSound == DecisionsAreHandedOverOnce /\ StatesAreLawful

\* A position is entered for a reason: the machine never jumps to it, the service enters
\* what its risk endorsed, and a policy what its setup earned.
EntriesAreEarned == NoJump /\ EntriesAreEndorsed /\ EntryIsEarned

\* The numbers the rules were chosen by are well formed and are of the past they claim: no
\* reward but the book's, no day skipped or marked before its order, a replayed decision shown
\* nothing that had not closed before its day and a live one nothing of a later day, a drawdown that is the account's, and an episode that lies in one piece of history.
SimulationIsHonest ==
    /\ OfflineTypeOK /\ RewardIsTheBook /\ ReplayIsHonest /\ NothingFromTheFuture
    /\ LadderIsHonest /\ VariantIsHonest /\ StudyIsHonest
=============================================================================
