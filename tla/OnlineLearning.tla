--------------------------- MODULE OnlineLearning ---------------------------
(***************************************************************************)
(* ExposureAgentRuntime and the policy file it shares with the promotion   *)
(* script.  The running agent learns: a step is remembered, resolved one   *)
(* cadence later, written to the experience file, applied to the weights   *)
(* in memory, and the whole policy, its promotion status included, is      *)
(* saved over the file.                                                    *)
(*                                                                         *)
(* Weights are the sequence of the steps learned; a step is the time it    *)
(* was observed, which with the event is its update_id.  Time is in units  *)
(* of a tenth of the cadence, so that the tolerance of a resolution is 1.  *)
(***************************************************************************)
EXTENDS Integers, Sequences, FiniteSets, Selection

CONSTANTS
    Cadence,   \* cadence, from the model's metadata
    Tolerance, \* cadence / 10
    LastHour,  \* bound: time modelled
    MaxCrashes \* bound: how often the process dies

ASSUME LearningAssumption ==
    /\ Cadence \in Nat \ {0} /\ Tolerance \in Nat /\ Tolerance < Cadence
    /\ LastHour \in Nat /\ MaxCrashes \in Nat

VARIABLES
    hour, crashes,
    running,      \* where the process is: "down", "idle", "logged" (inside _resolve)
    policy,       \* self.policy: [learned, status]
    file,         \* the policy file
    experience,   \* update_ids in the experience file
    steps,        \* _pending: times observed, oldest first
    resolved,     \* the steps of the _resolve under way
    lastCommit,   \* _last_commit, Never in a new process
    commits,      \* times a trade was decided, by this process
    script        \* the promotion script: what it has loaded, or NoScript

learningVars == <<hour, crashes, running, policy, file, experience, steps, resolved,
                  lastCommit, commits, script>>

Never == -1
NoScript == [learned |-> <<>>, status |-> "none"]

LearningInit ==
    /\ hour = 0 /\ crashes = 0 /\ running = "down"
    /\ file = [learned |-> <<>>, status |-> "PROMOTED"] /\ policy = file
    /\ experience = {} /\ steps = <<>> /\ resolved = <<>>
    /\ lastCommit = Never /\ commits = {} /\ script = NoScript

Time == /\ hour < LastHour /\ hour' = hour + 1
        /\ UNCHANGED <<crashes, running, policy, file, experience, steps, resolved,
                       lastCommit, commits, script>>

\* A process with order authority refuses a policy that is not promoted.
Load ==
    /\ running = "down" /\ file.status = "PROMOTED"
    /\ running' = "idle" /\ policy' = file
    /\ steps' = <<>> /\ resolved' = <<>> /\ lastCommit' = Never /\ commits' = {}
    /\ UNCHANGED <<hour, crashes, file, experience, script>>

Crash ==
    /\ running # "down" /\ crashes < MaxCrashes
    /\ crashes' = crashes + 1 /\ running' = "down"
    /\ UNCHANGED <<hour, policy, file, experience, steps, resolved, lastCommit, commits, script>>

\* _resolve: steps that are not due stay, those that are long due are dropped.
Due(s) == hour - s >= Cadence
TooLate(s) == hour - s - Cadence > Tolerance
Mature == Kept(steps, {s \in 0..hour : Due(s) /\ ~TooLate(s)})
Young == Kept(steps, {s \in 0..hour : ~Due(s)})

\* observe: a step is taken when none is pending or the newest is a cadence old.
Observed(pending) ==
    IF pending = <<>> \/ hour - pending[Len(pending)] >= Cadence
    THEN Append(pending, hour) ELSE pending

\* evaluate, up to the experience file: resolved outcomes are appended and fsynced.
Resolve ==
    /\ running = "idle" /\ Mature # <<>>
    /\ running' = "logged" /\ resolved' = Mature
    /\ experience' = experience \cup Range(Mature)
    /\ UNCHANGED <<hour, crashes, policy, file, steps, lastCommit, commits, script>>

\* _resolve applies them, observe saves, remembers the present step and saves again.
LearnAndSave ==
    /\ policy' = [policy EXCEPT !.learned = @ \o resolved]
    /\ steps' = Observed(Young)
    /\ file' = policy'

\* Mutant: the cadence is not noted.
DecideAlways ==
    \/ UNCHANGED <<lastCommit, commits>>
    \/ commits' = commits \cup {hour} /\ UNCHANGED lastCommit

\* evaluate, its end: a policy that wants to trade may, once per cadence.
Decide ==
    \/ UNCHANGED <<lastCommit, commits>>
    \/ /\ lastCommit = Never \/ hour - lastCommit >= Cadence
       /\ lastCommit' = hour /\ commits' = commits \cup {hour}

Learn ==
    /\ running = "logged"
    /\ LearnAndSave /\ Decide
    /\ running' = "idle" /\ resolved' = <<>>
    /\ UNCHANGED <<hour, crashes, experience, script>>

\* evaluate when nothing is due to be learned.
Observe ==
    /\ running = "idle" /\ Mature = <<>>
    /\ steps' = Observed(Young)
    /\ IF steps' # Young THEN file' = policy ELSE UNCHANGED file
    /\ Decide
    /\ UNCHANGED <<hour, crashes, running, policy, experience, resolved, script>>

\* promote_exposure_agent.main reads the file, and writes it with another status.
ScriptLoads ==
    /\ script = NoScript
    /\ \E s \in {"PROMOTED", "DEMOTED"} : script' = [learned |-> file.learned, status |-> s]
    /\ UNCHANGED <<hour, crashes, running, policy, file, experience, steps, resolved,
                   lastCommit, commits>>

ScriptSaves ==
    /\ script # NoScript
    /\ file' = script /\ script' = NoScript
    /\ UNCHANGED <<hour, crashes, running, policy, experience, steps, resolved,
                   lastCommit, commits>>

LearningNext ==
    \/ Time \/ Load \/ Crash \/ Resolve \/ Learn \/ Observe \/ ScriptLoads \/ ScriptSaves

LearningSpec == LearningInit /\ [][LearningNext]_learningVars

-----------------------------------------------------------------------------

LearningTypeOK ==
    /\ hour \in 0..LastHour /\ crashes \in 0..MaxCrashes
    /\ running \in {"down", "idle", "logged"}
    /\ {policy, file, script} \subseteq
         [learned : Seq(0..LastHour), status : {"PROMOTED", "DEMOTED", "none"}]
    /\ experience \subseteq 0..LastHour /\ commits \subseteq 0..LastHour
    /\ steps \in Seq(0..LastHour) /\ resolved \in Seq(0..LastHour)

\* Learning is on the record and happens once: through crashes between the experience
\* file and the weights and through a promotion that saves what it read before, no outcome
\* is in the weights twice, and none is without its line in the experience file.  The
\* reward periods tile: two steps are never closer than the horizon they are measured on.
LearnedOnce ==
    \A p \in {policy.learned, file.learned} :
        /\ Range(p) \subseteq experience
        /\ \A i, j \in DOMAIN p : i < j => p[i] + Cadence <= p[j]

\* The agent trades at the frequency it was validated at (exposure_runtime.py:13-21), as
\* long as its process lives; a new process has forgotten when the last one traded.
CommitsAreSpaced == \A t, u \in commits : t < u => u - t >= Cadence

\* Two elements of p are never closer than the cadence, in the order they have.
Spaced(p) == \A i, j \in 1..Len(p) : i < j => p[i] + Cadence <= p[j]

\* All that is in p can have been learned by now.
Past(p, now, known) == \A i \in 1..Len(p) : p[i] + Cadence <= now /\ p[i] \in known

\* p was learned before q was observed.
Before(p, q) == \A i \in 1..Len(p), j \in 1..Len(q) : p[i] + Cadence <= q[j]

LearningInv ==
    /\ LearningTypeOK
    /\ Spaced(policy.learned) /\ Past(policy.learned, hour, experience)
    /\ Spaced(file.learned) /\ Past(file.learned, hour, experience)
    /\ Spaced(script.learned) /\ Past(script.learned, hour, experience)
    /\ Spaced(steps) /\ (\A i \in 1..Len(steps) : steps[i] <= hour)
    /\ Before(policy.learned, steps)
    /\ running = "logged" =>
         /\ Spaced(resolved) /\ Past(resolved, hour, experience) /\ Before(policy.learned, resolved)
         \* What is still young when they are applied was observed a cadence after them.
         /\ \A i \in 1..Len(resolved) : \E k \in 1..Len(steps) : steps[k] = resolved[i]
    /\ IF lastCommit = Never THEN commits = {}
       ELSE lastCommit \in 0..hour /\ \A t \in commits : t <= lastCommit
    /\ CommitsAreSpaced

\* "this script is the only thing that sets that flag" (promote_exposure_agent.py:4-6).
OnlyTheScriptPromotes ==
    [][file.status # "PROMOTED" /\ file'.status = "PROMOTED" => script # NoScript]_learningVars
=============================================================================
