-------------------------- MODULE CheckpointStore ---------------------------
(***************************************************************************)
(* EngineStateStore.save, system call by system call, and                  *)
(* RegimeMixturePolicy.save, which does the same: write a temporary file   *)
(* beside the target, flush it to the disk, rename it over the target, and *)
(* flush the directory.  RealtimeRunner and OnlineLearning take a save as  *)
(* one step; this module is why they may.                                  *)
(*                                                                         *)
(* The process can die between two calls, and the machine can lose power.  *)
(* A power failure keeps of an unflushed file any beginning, and of an     *)
(* unflushed rename either name.                                           *)
(***************************************************************************)
EXTENDS Naturals

CONSTANT MaxSaves   \* bound: saves

ASSUME StoreAssumption == MaxSaves \in Nat

VARIABLES
    saving,    \* where save is: "no", "open", "written", "flushed", "renamed"
    version,   \* the state being saved, or saved last
    returned,  \* the state of the last save that returned, 0 before the first
    temporary, \* the temporary file: [state, safe], safe when it is on the disk
    target,    \* the target as the running system sees it
    older      \* what the target may be after a power failure: states the disk can show

storeVars == <<saving, version, returned, temporary, target, older>>

Torn == MaxSaves + 1   \* a beginning of some state: json.loads raises
NoState == 0          \* load returns None

StoreInit ==
    /\ saving = "no" /\ version = 0 /\ returned = 0
    /\ temporary = [state |-> NoState, safe |-> TRUE]
    /\ target = NoState /\ older = {NoState}

\* temporary.open("w") truncates what an earlier save may have left.
OpenTemporary ==
    /\ saving = "no" /\ version < MaxSaves
    /\ saving' = "open" /\ version' = version + 1
    /\ temporary' = [state |-> Torn, safe |-> FALSE]
    /\ UNCHANGED <<returned, target, older>>

WriteTemporary ==
    /\ saving = "open"
    /\ saving' = "written"
    /\ temporary' = [state |-> version, safe |-> FALSE]
    /\ UNCHANGED <<version, returned, target, older>>

\* stream.flush, os.fsync.
FlushTemporary ==
    /\ saving = "written"
    /\ saving' = "flushed"
    /\ temporary' = [temporary EXCEPT !.safe = TRUE]
    /\ UNCHANGED <<version, returned, target, older>>

\* os.replace: at once for every reader, on the disk some time later.
Replace ==
    /\ saving = "flushed"
    /\ saving' = "renamed"
    /\ target' = temporary.state
    /\ older' = older \cup (IF temporary.safe THEN {temporary.state} ELSE {temporary.state, Torn})
    /\ UNCHANGED <<version, returned, temporary>>

\* os.fsync of the directory.
FlushDirectory ==
    /\ saving = "renamed"
    /\ saving' = "no" /\ returned' = version
    /\ older' = IF temporary.safe THEN {target} ELSE {target, Torn}
    /\ UNCHANGED <<version, temporary, target>>

\* The process dies: the system keeps what it had been told.
ProcessDies ==
    /\ saving # "no" /\ saving' = "no"
    /\ UNCHANGED <<version, returned, temporary, target, older>>

\* The machine loses power: the disk is all there is.
PowerFails ==
    /\ saving' = "no"
    /\ target' \in older /\ older' = {target'}
    /\ temporary' \in [state : {temporary.state, Torn}, safe : {TRUE}]
    /\ UNCHANGED <<version, returned>>

StoreNext ==
    \/ OpenTemporary \/ WriteTemporary \/ FlushTemporary \/ Replace \/ FlushDirectory
    \/ ProcessDies \/ PowerFails

\* load, whenever a new process starts.
LoadState == target

StoreSpec == StoreInit /\ [][StoreNext]_storeVars

-----------------------------------------------------------------------------

StoreTypeOK ==
    /\ saving \in {"no", "open", "written", "flushed", "renamed"}
    /\ version \in 0..MaxSaves /\ returned \in 0..version
    /\ temporary \in [state : 0..Torn, safe : BOOLEAN]
    /\ target \in 0..Torn /\ older \subseteq 0..Torn

\* Wherever the process or the machine stops, what is loaded is a whole state that was
\* handed to save, and never one older than the last save that returned.
SavedStateSurvives ==
    \A seen \in {LoadState} \cup older : seen # Torn /\ returned <= seen /\ seen <= version

\* What carries it from call to call: the temporary file is this save's state once it is
\* written and on the disk once it is flushed, and both before it replaces the target.
StoreInv ==
    /\ StoreTypeOK /\ SavedStateSurvives
    /\ target \in older
    /\ saving \in {"written", "flushed", "renamed"} => temporary.state = version
    /\ saving \in {"flushed", "renamed"} => temporary.safe = TRUE
    /\ saving = "renamed" => target = version

=============================================================================
