----------------------------- MODULE MCRecords ------------------------------
(***************************************************************************)
(* What the process writes down, and what is made of it after a crash, a   *)
(* restart or a change of who trades, on small instances.  As in           *)
(* MCMarketData a behaviour picks one part and the others rest.            *)
(***************************************************************************)
EXTENDS Handover, ActivityJournal, OnlineLearning, AgentMemory, CheckpointStore,
        RiskBreakers, EngineRecovery, DelayedLabels

VARIABLE part

recordVars == <<part, handoverVars, journalVars, learningVars, memoryVars, storeVars,
                breakerVars, recoveryVars, labelVars>>

MCMoves == {-3, -1, 2}

Parts == {"handover", "journal", "learning", "memory", "store", "breakers", "recovery",
          "labels"}

\* Every part begins as it does by itself; of what a part may choose, one choice is enough
\* while it rests.
Rest(p) ==
    /\ p = "handover" \/
         /\ report = "absent" /\ pending = FALSE /\ hit = TRUE
         /\ files = [quant |-> "none", llm |-> "none"]
    /\ p = "memory" \/
         /\ decisions = <<>> /\ Price = CHOOSE q \in Quotes : TRUE
    /\ p = "breakers" \/
         /\ equity = (CHOOSE e \in Equities : TRUE) /\ held = FALSE

Init ==
    /\ part \in Parts
    /\ HandoverInit /\ JournalInit /\ LearningInit /\ MemoryInit /\ StoreInit
    /\ BreakersInit /\ RecoveryInit /\ LabelInit
    /\ Rest(part)

Next ==
    \/ /\ part = "handover" /\ HandoverNext
       /\ UNCHANGED <<part, journalVars, learningVars, memoryVars, storeVars,
                      breakerVars, recoveryVars, labelVars>>
    \/ /\ part = "journal" /\ JournalNext
       /\ UNCHANGED <<part, handoverVars, learningVars, memoryVars, storeVars,
                      breakerVars, recoveryVars, labelVars>>
    \/ /\ part = "learning" /\ LearningNext
       /\ UNCHANGED <<part, handoverVars, journalVars, memoryVars, storeVars,
                      breakerVars, recoveryVars, labelVars>>
    \/ /\ part = "memory" /\ MemoryNext
       /\ UNCHANGED <<part, handoverVars, journalVars, learningVars, storeVars,
                      breakerVars, recoveryVars, labelVars>>
    \/ /\ part = "store" /\ StoreNext
       /\ UNCHANGED <<part, handoverVars, journalVars, learningVars, memoryVars,
                      breakerVars, recoveryVars, labelVars>>
    \/ /\ part = "breakers" /\ BreakersNext
       /\ UNCHANGED <<part, handoverVars, journalVars, learningVars, memoryVars,
                      storeVars, recoveryVars, labelVars>>
    \/ /\ part = "recovery" /\ RecoveryNext
       /\ UNCHANGED <<part, handoverVars, journalVars, learningVars, memoryVars,
                      storeVars, breakerVars, labelVars>>
    \/ /\ part = "labels" /\ LabelNext
       /\ UNCHANGED <<part, handoverVars, journalVars, learningVars, memoryVars,
                      storeVars, breakerVars, recoveryVars>>

Spec == Init /\ [][Next]_recordVars

\* The inductive invariants of the parts.
RecordsInv ==
    /\ HandoverInv /\ JournalInv /\ LearningInv /\ MemoryInv
    /\ StoreInv /\ BreakersInv /\ RecoveryInv /\ LabelInv

\* What was written is well formed and survives: the journal as a read returns it has no
\* hole, a checkpoint whose save returned is there after a crash, and a journalled purchase
\* gives an engine without a checkpoint its entry, and the part of the watermark its lines show.
HistoryIsKept ==
    /\ RecordsInv
    /\ NoHoleInHistory /\ SavedStateSurvives /\ WatermarkIsRecovered

\* The numeric agent learns a step once and trades no more often than its cadence; the
\* retired model learns an example once, and only from a price of its horizon.
LearningIsHonest == LearnedOnce /\ CommitsAreSpaced /\ LabelsAreHonest
=============================================================================
