--------------------------- MODULE LlmDeliberation ---------------------------
(***************************************************************************)
(* Two threads of one process: the event loop, which calls                 *)
(* LLMAgentEngine.evaluate on every market event, and the worker           *)
(* _spawn_deliberation starts, which asks the model and leaves its answer  *)
(* in _pending_verdict or _pending_error.                                  *)
(*                                                                         *)
(* evaluate takes two steps here, because the worker may deliver between   *)
(* _collect_deliberation and the test of `deliberating'.  The rest of the  *)
(* process is RealtimeRunner: an order executes only if the book still is  *)
(* what the decision was taken from, and may be vetoed; the stop may sell  *)
(* the position at any time.  The model may be out for as long as it       *)
(* likes.  A tick is FIRST_RETRY_DELAY; clocks saturate at Cadence.        *)
(***************************************************************************)
EXTENDS Integers, FiniteSets, TLAPS

CONSTANTS
    Cadence,   \* the cadence, in ticks
    MaxFails,  \* bound: failures beyond which the back-off no longer grows
    Threads    \* bound: worker threads alive at once

ASSUME CadenceAssumption == Cadence \in Nat \ {0}
ASSUME FailsAssumption   == MaxFails \in Nat \ {0} /\ 2 ^ MaxFails >= 2 * Cadence
\* A fact of arithmetic that the provers do not have: powers are whole numbers.
ASSUME PowersAssumption  == \A k \in 0..MaxFails : 2 ^ k \in Nat
\* 0 stands for no thread.
ASSUME ThreadsAssumption == 0 \notin Threads

NoVerdict == [id |-> 0, wants |-> FALSE, deliberated |-> FALSE]
Verdicts  == [id : 1..3, wants : BOOLEAN, deliberated : BOOLEAN] \cup {NoVerdict}

VARIABLES
    book,      \* the account is LONG
    down,      \* the model is out
    threads,   \* the worker threads: what each is doing, for a book LONG or not
    worker,    \* _worker
    pendingV,  \* _pending_verdict
    pendingE,  \* _pending_error is set
    lastV,     \* _last_verdict, by id
    since,     \* now - _last_verdict_at
    backoff,   \* _next_attempt_at - now, 0 when it is past or None
    fails,     \* _consecutive_failures
    pc,        \* "idle", or between the two steps of evaluate
    seen,      \* evaluate: is_long
    finished,  \* evaluate: the verdict collected
    decision,  \* who took the last decision
    quiet      \* ticks since a deliberation began; no part of the program

slot   == <<pendingV, pendingE>>
memory == <<lastV, since, backoff, fails>>
eval   == <<pc, seen, finished>>
vars   == <<book, down, threads, worker, slot, memory, eval, decision, quiet>>

Idle == [phase |-> "none", long |-> FALSE]

TypeOK ==
    /\ book \in BOOLEAN /\ down \in BOOLEAN
    /\ threads \in [Threads -> [phase : {"none", "cheap", "think", "leaving"}, long : BOOLEAN]]
    /\ worker \in Threads \cup {0}
    /\ pendingV \in Verdicts /\ pendingE \in BOOLEAN
    /\ lastV \in 0..3 /\ since \in 0..Cadence
    /\ backoff \in 0..Cadence /\ fails \in 0..MaxFails
    /\ pc \in {"idle", "collected"} /\ seen \in BOOLEAN /\ finished \in Verdicts
    /\ decision \in {"none", "guard", "numeric", "unchanged", "agent"}
    /\ quiet \in 0..Cadence

(* A process that has just started: everything but the book is in memory.  *)
Started ==
    [threads |-> [t \in Threads |-> Idle], worker |-> 0, verdict |-> NoVerdict]

Init ==
    /\ book \in BOOLEAN /\ down = FALSE
    /\ threads = Started.threads /\ worker = Started.worker
    /\ pendingV = NoVerdict /\ pendingE = FALSE
    /\ lastV = 0 /\ since = 0 /\ backoff = 0 /\ fails = 0
    /\ pc = "idle" /\ seen = FALSE /\ finished = NoVerdict
    /\ decision = "none" /\ quiet = Cadence

Least(a, b) == IF a <= b THEN a ELSE b

-----------------------------------------------------------------------------
(* The worker thread.                                                      *)

Alive(t) == threads[t].phase # "none"
Becomes(t, phase) == threads' = [threads EXCEPT ![t].phase = phase]

(* decide raises: the model is out, or answers badly.                      *)
Fails(t) ==
    /\ pendingE' = TRUE
    /\ Becomes(t, "leaving")
    /\ UNCHANGED pendingV

FreshId == CHOOSE id \in 1..3 : id \notin {lastV, pendingV.id, finished.id}

Delivers(t, wants, deliberated) ==
    /\ pendingV' = [id |-> FreshId, wants |-> wants, deliberated |-> deliberated]
    /\ Becomes(t, "leaving")
    /\ UNCHANGED pendingE

(* The cheap pass: a verdict that leaves the book as it was is delivered,  *)
(* one that would move it is taken again with reasoning.                   *)
CheapPass(t) ==
    /\ threads[t].phase = "cheap"
    /\ \/ Fails(t)
       \/ ~down /\ Delivers(t, threads[t].long, FALSE)
       \/ ~down /\ Becomes(t, "think") /\ UNCHANGED slot
    /\ UNCHANGED <<book, down, worker, memory, eval, decision, quiet>>

Deliberate(t) ==
    /\ threads[t].phase = "think"
    /\ \/ Fails(t)
       \/ \E wants \in BOOLEAN : ~down /\ Delivers(t, wants, TRUE)
    /\ UNCHANGED <<book, down, worker, memory, eval, decision, quiet>>

(* Between delivering and the end of the thread, is_alive is still true.   *)
Leave(t) ==
    /\ threads[t].phase = "leaving"
    /\ Becomes(t, "none")
    /\ UNCHANGED <<book, down, worker, slot, memory, eval, decision, quiet>>

Work(t) == CheapPass(t) \/ Deliberate(t) \/ Leave(t)

-----------------------------------------------------------------------------
(* evaluate.                                                               *)

(* An order taken from the book `from' leaves it `to', unless the book has *)
(* moved since, or the order is vetoed.                                    *)
Order(from, to) == (book = from /\ book' = to) \/ UNCHANGED book

(* The early returns: breaker, stop, quality and perception.  None of them *)
(* looks at the worker.                                                    *)
GuardReturns ==
    /\ pc = "idle"
    /\ Order(TRUE, FALSE)
    /\ decision' = "guard"
    /\ UNCHANGED <<down, threads, worker, slot, memory, eval, quiet>>

(* Mutant: the numeric policy may enter as well as leave.                  *)
FallbackEitherWay(long) == Order(long, ~long) /\ decision' = "numeric"

(* _fallback_decision: it may sell, and suppresses an entry.               *)
Fallback(long) ==
    /\ Order(TRUE, FALSE)
    /\ decision' = "numeric"

(* Mutant: the back-off is not capped by the cadence.                      *)
UncappedDelay(k) == 2 ^ (k - 1)

(* The back-off after k failures in a row.                                 *)
Delay(k) == Least(Cadence, 2 ^ (k - 1))

(* Mutant: the answer is read and not taken out of the slot.               *)
PeekDeliberation == UNCHANGED slot

(* _collect_deliberation empties both slots; it can take a verdict and an  *)
(* error at once.                                                          *)
CollectDeliberation == pendingV' = NoVerdict /\ pendingE' = FALSE

(* Mutant: a failure is logged, and the last verdict keeps standing.       *)
LogFailure ==
    /\ pc = "idle" /\ pendingE
    /\ CollectDeliberation
    /\ fails' = Least(fails + 1, MaxFails)
    /\ backoff' = Delay(fails')
    /\ decision' = "unchanged"
    /\ UNCHANGED <<book, down, threads, worker, lastV, since, eval, quiet>>

(* A failure: back off, and let the numeric policy decide this once.       *)
CollectFailure ==
    /\ pc = "idle" /\ pendingE
    /\ CollectDeliberation
    /\ fails' = Least(fails + 1, MaxFails)
    /\ backoff' = Delay(fails')
    /\ Fallback(book)
    /\ UNCHANGED <<down, threads, worker, lastV, since, eval, quiet>>

(* No failure: take the verdict, if there is one.                          *)
CollectVerdict ==
    /\ pc = "idle" /\ ~pendingE
    /\ CollectDeliberation
    /\ finished' = pendingV
    /\ IF pendingV = NoVerdict
         THEN UNCHANGED memory
         ELSE lastV' = pendingV.id /\ since' = 0 /\ backoff' = 0 /\ fails' = 0
    /\ seen' = book /\ pc' = "collected"
    /\ UNCHANGED <<book, down, threads, worker, decision, quiet>>

Collect == CollectFailure \/ CollectVerdict

(* Mutant: the back-off is forgotten.                                      *)
DueByCadence == lastV = 0 \/ since = Cadence

Due == (lastV = 0 \/ since = Cadence) /\ backoff = 0

(* Mutants: the test is dropped; a finished worker counts as running.      *)
DeliberatingNever == FALSE
DeliberatingForEver == worker # 0

Deliberating == worker # 0 /\ Alive(worker)

Spawn ==
    IF Due /\ ~Deliberating
      THEN \E t \in Threads :
              /\ ~Alive(t)
              /\ threads' = [threads EXCEPT ![t] = [phase |-> "cheap", long |-> seen]]
              /\ worker' = t
              /\ quiet' = 0
      ELSE UNCHANGED <<threads, worker, quiet>>

(* resolve_target_allocation: where the verdict and the regime's default   *)
(* disagree, the conviction says how much of each is in the target.        *)
TargetIsPositive(wants, default, weight) ==
    IF wants = default THEN wants
    ELSE (wants /\ weight # "none") \/ (default /\ weight # "all")

(* plan_adjustment and what is made of it: open, close, or size a position *)
(* that stays; the cost gate or the exchange's minimum may refuse it.      *)
ApplyVerdict ==
    \E default \in BOOLEAN, weight \in {"none", "some", "all"} :
        /\ Order(seen, TargetIsPositive(finished.wants, default, weight))
        /\ decision' = "agent"

(* The rest of evaluate.                                                   *)
Continue ==
    /\ pc = "collected"
    /\ Spawn
    /\ CASE lastV = 0              -> Fallback(seen)
         [] finished # NoVerdict   -> ApplyVerdict
         [] OTHER                  -> UNCHANGED book /\ decision' = "unchanged"
    /\ pc' = "idle" /\ finished' = NoVerdict /\ seen' = FALSE
    /\ UNCHANGED <<down, slot, memory>>

-----------------------------------------------------------------------------
(* The world.                                                              *)

StopFires ==
    /\ book /\ book' = FALSE
    /\ UNCHANGED <<down, threads, worker, slot, memory, eval, decision, quiet>>

ModelFails ==
    /\ down' = ~down
    /\ UNCHANGED <<book, threads, worker, slot, memory, eval, decision, quiet>>

Tick ==
    /\ since' = Least(since + 1, Cadence)
    /\ backoff' = IF backoff = 0 THEN 0 ELSE backoff - 1
    /\ quiet' = Least(quiet + 1, Cadence)
    /\ UNCHANGED <<book, down, threads, worker, slot, lastV, fails, eval, decision>>

(* The process dies, its daemon threads with it, and is started again.     *)
Restart ==
    /\ threads' = Started.threads /\ worker' = Started.worker
    /\ pendingV' = NoVerdict /\ pendingE' = FALSE
    /\ lastV' = 0 /\ since' = 0 /\ backoff' = 0 /\ fails' = 0
    /\ pc' = "idle" /\ seen' = FALSE /\ finished' = NoVerdict
    /\ decision' = "none" /\ quiet' = Cadence
    /\ UNCHANGED <<book, down>>

Next ==
    \/ GuardReturns \/ Collect \/ Continue
    \/ \E t \in Threads : Work(t)
    \/ StopFires \/ ModelFails \/ Tick \/ Restart

Spec == Init /\ [][Next]_vars

(* Calls return, threads are scheduled, time passes.  Nothing says that a  *)
(* market event passes the guards: the properties assume it.               *)
FairSpec ==
    /\ Spec /\ WF_vars(Continue) /\ WF_vars(Tick)
    /\ \A t \in Threads : WF_vars(Work(t))

-----------------------------------------------------------------------------
(* Properties.                                                             *)

Applied == pc = "collected" /\ finished # NoVerdict /\ pc' = "idle" /\ decision' = "agent"
Opened  == ~book /\ book'
Spawned == quiet' = 0 /\ worker' # 0 /\ threads'[worker'].phase = "cheap"
              /\ ~(worker # 0 /\ worker' = worker /\ threads[worker].phase = "cheap")

(* "Start the next deliberation when ... none is running": two workers are *)
(* never alive at once, not even while one that has answered is ending.    *)
OneAtATime == \A s, t \in Threads : Alive(s) /\ Alive(t) => s = t

(* Whatever answers, failures, stops and restarts come in between: only    *)
(* the thread the engine knows of is alive, the answer in the slot is not  *)
(* the one in memory, and the one being applied is.                        *)
DeliberationInv ==
    /\ TypeOK
    /\ \A t \in Threads : Alive(t) => t = worker
    /\ pendingV # NoVerdict => pendingV.id # lastV
    /\ finished # NoVerdict => finished.id = lastV

(* A verdict is taken out of the slot once: however answers, failures and  *)
(* evaluations interleave, the one that was applied last never comes back. *)
CollectedOnce == [][finished' # NoVerdict /\ finished' # finished => finished'.id # lastV]_vars

(* "Only the LLM stage may originate a purchase": whatever fails, only a   *)
(* verdict just collected from the model ever takes a FLAT book LONG.      *)
OnlyVerdictsOpen == [][Opened => Applied]_vars

(* An outage is not one request per market event: after k failures in a    *)
(* row the next attempt comes no sooner than the back-off of k, unless the *)
(* answer of the present one landed during this very evaluation.           *)
AttemptsAreSpaced ==
    [][Spawned /\ fails > 0 /\ ~pendingE /\ pendingV = NoVerdict
           => quiet >= Delay(fails)]_vars

(* What the spacing rests on: unless an attempt is under way or its answer *)
(* is waiting, the wait since the last attempt and what is left of the     *)
(* back-off make up the back-off of the failures in a row.                 *)
Asking == \E t \in Threads : threads[t].phase \in {"cheap", "think"}

BackoffInv ==
    fails > 0 /\ ~pendingE /\ pendingV = NoVerdict /\ ~Asking
        => quiet + backoff >= Delay(fails)

(* Evaluations keep reaching the model, and the process is left alone.     *)
Watching == <>[][~Restart]_vars /\ []<><<Collect>>_vars

(* Under these the model keeps being asked: no failure, slow answer, lost  *)
(* answer or stop ends the deliberations.                                  *)
KeepsDeliberating == Watching => []<><<Spawned>>_vars

(* "The fallback exists so an LLM outage never leaves an open position     *)
(* unmanaged": while the model is out the numeric policy is asked again    *)
(* and again.                                                              *)
OutageIsManaged ==
    <>[]down /\ Watching => []<><<decision' = "numeric" /\ (Collect \/ Continue)>>_vars

(* "When the cheap pass wants to CHANGE exposure the decision is re-taken  *)
(* with reasoning enabled before any order is placed."                     *)
ChangesAreDeliberated ==
    [][Applied /\ book' # book /\ finished.wants = book' => finished.deliberated]_vars

(* "Backing off after a failure.  The numeric policy holds the wheel       *)
(* meanwhile, so the account stays managed."                               *)
NumericHoldsTheWheel ==
    [][pc = "collected" /\ pc' = "idle" /\ backoff > 0 => decision' # "unchanged"]_vars

-----------------------------------------------------------------------------
(* Proofs, for any cadence, any bound on failures and any set of threads.  *)

(* A new verdict is none of those at hand.                                 *)
LEMMA FreshIdIsFresh ==
    ASSUME DeliberationInv PROVE FreshId \in 1..3 /\ FreshId # lastV
  <1>1. \E id \in 1..3 : id \notin {lastV, pendingV.id, finished.id}
    <2>1. finished.id \in {0, lastV}
      BY DEF DeliberationInv, NoVerdict
    <2>2. \E id \in 1..3 : id # lastV /\ id # pendingV.id
      OBVIOUS
    <2> QED
      BY <2>1, <2>2
  <1> QED
    BY <1>1 DEF FreshId

(* A step of a worker thread starts none.                                  *)
LEMMA WorkStep ==
    ASSUME DeliberationInv, NEW t \in Threads, Work(t) PROVE DeliberationInv'
  <1> USE DEF Becomes, memory, eval, slot
  <1>1. threads[t].phase # "none" /\ worker = t
    BY DEF Work, CheapPass, Deliberate, Leave, DeliberationInv, Alive
  <1>2. /\ UNCHANGED <<book, down, worker, lastV, since, backoff, fails, pc, seen, finished,
                       decision, quiet>>
        /\ \E p \in {"think", "leaving", "none"} : Becomes(t, p)
    BY DEF Work, CheapPass, Deliberate, Leave, Fails, Delivers
  <1>3. pendingE' \in BOOLEAN
    <2>1. UNCHANGED pendingE \/ pendingE' = TRUE
      BY DEF Work, CheapPass, Deliberate, Leave, Fails, Delivers
    <2> QED
      BY <2>1 DEF DeliberationInv, TypeOK
  <1>4. \/ UNCHANGED pendingV
        \/ \E w, d \in BOOLEAN : pendingV' = [id |-> FreshId, wants |-> w, deliberated |-> d]
    <2>1. threads[t].long \in BOOLEAN
      BY DEF DeliberationInv, TypeOK
    <2>2. CASE CheapPass(t)
      BY <2>1, <2>2 DEF CheapPass, Fails, Delivers
    <2>3. CASE Deliberate(t)
      BY <2>3 DEF Deliberate, Fails, Delivers
    <2>4. CASE Leave(t)
      BY <2>4 DEF Leave
    <2> QED
      BY <2>2, <2>3, <2>4 DEF Work
  <1>5. pendingV' \in Verdicts /\ (pendingV' # NoVerdict => pendingV'.id # lastV)
    <2>1. CASE UNCHANGED pendingV
      BY <2>1 DEF DeliberationInv, TypeOK
    <2>2. CASE \E w, d \in BOOLEAN :
                   pendingV' = [id |-> FreshId, wants |-> w, deliberated |-> d]
      BY <2>2, FreshIdIsFresh DEF Verdicts
    <2> QED
      BY <1>4, <2>1, <2>2
  <1>6. /\ threads' \in [Threads -> [phase : {"none", "cheap", "think", "leaving"}, long : BOOLEAN]]
        /\ \A u \in Threads : u # t => threads'[u] = threads[u]
    BY <1>2 DEF DeliberationInv, TypeOK
  <1>7. TypeOK'
    BY <1>2, <1>3, <1>5, <1>6 DEF DeliberationInv, TypeOK
  <1>8. \A u \in Threads : Alive(u)' => u = worker'
    BY <1>1, <1>2, <1>6 DEF DeliberationInv, Alive
  <1> QED
    BY <1>2, <1>5, <1>7, <1>8 DEF DeliberationInv

(* The clocks stay in their range.                                         *)
LEMMA ClockRanges ==
    /\ \A n \in 0..Cadence : Least(n + 1, Cadence) \in 0..Cadence
    /\ \A n \in 0..Cadence : n # 0 => n - 1 \in 0..Cadence
    /\ \A n \in 0..MaxFails : Least(n + 1, MaxFails) \in 0..MaxFails
    /\ \A n \in 0..MaxFails : Delay(Least(n + 1, MaxFails)) \in 0..Cadence
  <1> USE CadenceAssumption, FailsAssumption DEF Least
  <1>1. \A n \in 0..MaxFails : Least(n + 1, MaxFails) \in 1..MaxFails
    OBVIOUS
  <1>2. \A k \in 1..MaxFails : Delay(k) \in 0..Cadence
    <2>1. \A k \in 1..MaxFails : 2 ^ (k - 1) \in Nat
      BY PowersAssumption
    <2> QED
      BY <2>1 DEF Delay
  <1> QED
    BY <1>1, <1>2

(* A verdict's wish is one, and so is the target made of it.               *)
LEMMA WishIsBoolean ==
    ASSUME DeliberationInv, NEW default \in BOOLEAN, NEW weight
    PROVE  TargetIsPositive(finished.wants, default, weight) \in BOOLEAN
  <1>1. finished \in Verdicts
    BY DEF DeliberationInv, TypeOK
  <1>2. finished.wants \in BOOLEAN
    <2>1. CASE finished = NoVerdict
      BY <2>1, Zenon DEF NoVerdict
    <2>2. CASE finished \in [id : 1..3, wants : BOOLEAN, deliberated : BOOLEAN]
      BY <2>2, Zenon
    <2> QED
      BY <1>1, <2>1, <2>2, Zenon DEF Verdicts
  <1> QED
    BY <1>2, Zenon DEF TargetIsPositive

(* A new deliberation starts only when the last thread has ended.          *)
LEMMA SpawnStep ==
    ASSUME DeliberationInv, Spawn
    PROVE  /\ threads' \in [Threads -> [phase : {"none", "cheap", "think", "leaving"}, long : BOOLEAN]]
           /\ worker' \in Threads \cup {0} /\ quiet' \in 0..Cadence
           /\ \A t \in Threads : threads'[t].phase # "none" => t = worker'
  <1> USE ThreadsAssumption, CadenceAssumption DEF DeliberationInv, TypeOK, Alive
  <1>1. CASE UNCHANGED <<threads, worker, quiet>>
    BY <1>1
  <1>2. ASSUME ~Deliberating, NEW t \in Threads, worker' = t, quiet' = 0,
               threads' = [threads EXCEPT ![t] = [phase |-> "cheap", long |-> seen]]
        PROVE  /\ threads' \in [Threads -> [phase : {"none", "cheap", "think", "leaving"}, long : BOOLEAN]]
               /\ worker' \in Threads \cup {0} /\ quiet' \in 0..Cadence
               /\ \A u \in Threads : threads'[u].phase # "none" => u = worker'
    <2>1. \A u \in Threads : threads[u].phase = "none"
      BY <1>2 DEF Deliberating
    <2>2. \A u \in Threads : u # t => threads'[u] = threads[u]
      BY <1>2
    <2>3. [phase |-> "cheap", long |-> seen] \in
             [phase : {"none", "cheap", "think", "leaving"}, long : BOOLEAN]
      BY Zenon
    <2> QED
      BY <1>2, <2>1, <2>2, <2>3
  <1> QED
    BY <1>1, <1>2 DEF Spawn

(* Collecting empties the slot.                                            *)
LEMMA CollectStep == ASSUME DeliberationInv, Collect PROVE DeliberationInv'
  <1> USE DEF memory, eval, slot, CollectDeliberation
  <1>1. NoVerdict \in Verdicts
    BY DEF Verdicts
  <1>2. CASE CollectFailure
    <2>1. UNCHANGED <<down, threads, worker, lastV, since, pc, seen, finished, quiet>>
      BY <1>2 DEF CollectFailure
    <2>2. fails' \in 0..MaxFails /\ backoff' \in 0..Cadence
      BY <1>2, ClockRanges DEF CollectFailure, DeliberationInv, TypeOK
    <2>3. pendingV' = NoVerdict /\ pendingE' = FALSE /\ decision' = "numeric"
      BY <1>2 DEF CollectFailure, Fallback
    <2>4. book' \in BOOLEAN
      BY <1>2 DEF CollectFailure, Fallback, Order, DeliberationInv, TypeOK
    <2> QED
      BY <1>1, <2>1, <2>2, <2>3, <2>4 DEF DeliberationInv, TypeOK, Alive
  <1>3. CASE CollectVerdict
    <2>1. UNCHANGED <<book, down, threads, worker, decision, quiet>>
      BY <1>3 DEF CollectVerdict
    <2>2. /\ pendingV' = NoVerdict /\ pendingE' = FALSE /\ finished' = pendingV
          /\ seen' = book /\ pc' = "collected"
      BY <1>3 DEF CollectVerdict
    <2>3. CASE pendingV = NoVerdict
      <3>1. UNCHANGED <<lastV, since, backoff, fails>>
        BY <1>3, <2>3 DEF CollectVerdict
      <3> QED
        BY <1>1, <2>1, <2>2, <2>3, <3>1 DEF DeliberationInv, TypeOK, Alive
    <2>4. CASE pendingV # NoVerdict
      <3>1. lastV' = pendingV.id /\ since' = 0 /\ backoff' = 0 /\ fails' = 0
        BY <1>3, <2>4 DEF CollectVerdict
      <3>2. pendingV \in Verdicts /\ pendingV.id \in 0..3
        BY <2>4 DEF DeliberationInv, TypeOK, Verdicts
      <3>3. since' \in 0..Cadence /\ backoff' \in 0..Cadence /\ fails' \in 0..MaxFails
        BY <3>1, CadenceAssumption, FailsAssumption
      <3>4. pendingE' \in BOOLEAN /\ seen' \in BOOLEAN
        BY <2>2, Zenon DEF DeliberationInv, TypeOK
      <3>5. TypeOK'
        BY <1>1, <2>1, <2>2, <3>1, <3>2, <3>3, <3>4, Zenon DEF DeliberationInv, TypeOK
      <3> QED
        BY <2>1, <2>2, <3>1, <3>5 DEF DeliberationInv, Alive
    <2> QED
      BY <2>3, <2>4
  <1> QED
    BY <1>2, <1>3 DEF Collect

(* The rest of evaluate.                                                   *)
LEMMA ContinueStep == ASSUME DeliberationInv, Continue PROVE DeliberationInv'
  <1>1. Spawn /\ pc' = "idle" /\ finished' = NoVerdict /\ seen' = FALSE
    BY DEF Continue
  <1>2. UNCHANGED <<down, pendingV, pendingE, lastV, since, backoff, fails>>
    BY DEF Continue, slot, memory
  <1>3. Fallback(seen) \/ ApplyVerdict \/ (UNCHANGED book /\ decision' = "unchanged")
    BY DEF Continue
  <1>4. book' \in BOOLEAN /\ decision' \in {"none", "guard", "numeric", "unchanged", "agent"}
    <2>1. CASE Fallback(seen)
      BY <2>1 DEF Fallback, Order, DeliberationInv, TypeOK
    <2>2. CASE ApplyVerdict
      BY <2>2, WishIsBoolean DEF ApplyVerdict, Order, DeliberationInv, TypeOK
    <2>3. CASE UNCHANGED book /\ decision' = "unchanged"
      BY <2>3 DEF DeliberationInv, TypeOK
    <2> QED
      BY <1>3, <2>1, <2>2, <2>3
  <1>5. NoVerdict \in Verdicts
    BY DEF Verdicts
  <1>6. TypeOK'
    BY <1>1, <1>2, <1>4, <1>5, SpawnStep DEF DeliberationInv, TypeOK
  <1> QED
    BY <1>1, <1>2, <1>6, SpawnStep DEF DeliberationInv, Alive

(* A process that has just started has no thread, no answer and no verdict. *)
LEMMA StartedStep ==
    ASSUME threads' = Started.threads, worker' = Started.worker,
           pendingV' = NoVerdict, pendingE' = FALSE, lastV' = 0, since' = 0, backoff' = 0,
           fails' = 0, pc' = "idle", seen' = FALSE, finished' = NoVerdict, decision' = "none",
           quiet' = Cadence, book' \in BOOLEAN, down' \in BOOLEAN
    PROVE  DeliberationInv'
  <1>1. /\ threads' = [t \in Threads |-> Idle] /\ worker' = 0
    BY DEF Started
  <1>2. Idle \in [phase : {"none", "cheap", "think", "leaving"}, long : BOOLEAN]
    BY Zenon DEF Idle
  <1>3. NoVerdict \in Verdicts
    BY DEF Verdicts
  <1>4. /\ since' \in 0..Cadence /\ backoff' \in 0..Cadence /\ quiet' \in 0..Cadence
        /\ fails' \in 0..MaxFails /\ lastV' \in 0..3
    BY CadenceAssumption, FailsAssumption
  <1>5. threads' \in [Threads -> [phase : {"none", "cheap", "think", "leaving"}, long : BOOLEAN]]
    BY <1>1, <1>2
  <1>6. TypeOK'
    BY <1>1, <1>3, <1>4, <1>5, Zenon DEF TypeOK
  <1>7. \A t \in Threads : ~Alive(t)'
    BY <1>1 DEF Alive, Idle
  <1> QED
    BY <1>6, <1>7 DEF DeliberationInv

(* The world, the early returns and time touch neither thread nor answer.  *)
LEMMA WorldStep ==
    ASSUME DeliberationInv, GuardReturns \/ StopFires \/ ModelFails \/ Tick
    PROVE  DeliberationInv'
  <1> USE DEF memory, eval, slot
  <1>1. UNCHANGED <<threads, worker, pendingV, pendingE, lastV, fails, pc, seen, finished>>
    BY DEF GuardReturns, StopFires, ModelFails, Tick
  <1>2. since' \in 0..Cadence /\ backoff' \in 0..Cadence /\ quiet' \in 0..Cadence
    <2>1. CASE Tick
      BY <2>1, ClockRanges DEF Tick, DeliberationInv, TypeOK
    <2>2. CASE UNCHANGED <<since, backoff, quiet>>
      BY <2>2 DEF DeliberationInv, TypeOK
    <2> QED
      BY <2>1, <2>2 DEF GuardReturns, StopFires, ModelFails
  <1>3. book' \in BOOLEAN /\ down' \in BOOLEAN
    <2>1. book' \in {book, FALSE} /\ down' \in {down, ~down}
      BY Zenon DEF GuardReturns, StopFires, ModelFails, Tick, Order
    <2> QED
      BY <2>1, Zenon DEF DeliberationInv, TypeOK
  <1>4. decision' \in {decision, "guard"}
    BY DEF GuardReturns, StopFires, ModelFails, Tick
  <1>5. TypeOK'
    BY <1>1, <1>2, <1>3, <1>4, Zenon DEF DeliberationInv, TypeOK
  <1> QED
    BY <1>1, <1>5 DEF DeliberationInv, Alive

(* One deliberation at a time, and no verdict outlives its use: the        *)
(* invariant of the two threads.                                           *)
THEOREM DeliberationInvariance == Spec => []DeliberationInv
  <1>1. Init => DeliberationInv
    <2> SUFFICES ASSUME Init PROVE DeliberationInv
      OBVIOUS
    <2>1. threads = [t \in Threads |-> Idle] /\ worker = 0
      BY DEF Init, Started
    <2>2. threads \in [Threads -> [phase : {"none", "cheap", "think", "leaving"}, long : BOOLEAN]]
      <3>1. Idle \in [phase : {"none", "cheap", "think", "leaving"}, long : BOOLEAN]
        BY Zenon DEF Idle
      <3> QED
        BY <2>1, <3>1
    <2>3. /\ since \in 0..Cadence /\ backoff \in 0..Cadence /\ quiet \in 0..Cadence
          /\ fails \in 0..MaxFails /\ lastV \in 0..3
      BY CadenceAssumption, FailsAssumption DEF Init
    <2>4. NoVerdict \in Verdicts
      BY DEF Verdicts
    <2>5. TypeOK
      BY <2>1, <2>2, <2>3, <2>4, Zenon DEF Init, TypeOK
    <2> QED
      BY <2>1, <2>5 DEF Init, DeliberationInv, Alive, Idle
  <1>2. DeliberationInv /\ [Next]_vars => DeliberationInv'
    <2> SUFFICES ASSUME DeliberationInv, [Next]_vars PROVE DeliberationInv'
      OBVIOUS
    <2>1. CASE Restart
      <3>1. book' \in BOOLEAN /\ down' \in BOOLEAN
        BY <2>1 DEF Restart, DeliberationInv, TypeOK
      <3> QED
        BY <2>1, <3>1, StartedStep DEF Restart
    <2>2. CASE UNCHANGED vars
      BY <2>2 DEF vars, slot, memory, eval, DeliberationInv, TypeOK, Alive
    <2> QED
      BY <2>1, <2>2, WorldStep, CollectStep, ContinueStep, WorkStep DEF Next
  <1> QED
    BY <1>1, <1>2, PTL DEF Spec

(* Two workers are never alive at once.                                    *)
THEOREM SingleWorker == Spec => []OneAtATime
  <1>1. DeliberationInv => OneAtATime
    BY DEF DeliberationInv, OneAtATime
  <1> QED
    BY <1>1, DeliberationInvariance, PTL

(* A verdict that has been applied is never taken out of the slot again.   *)
THEOREM VerdictsAreCollectedOnce == Spec => CollectedOnce
  <1>1. DeliberationInv /\ [Next]_vars =>
          (finished' # NoVerdict /\ finished' # finished => finished'.id # lastV)
    <2> SUFFICES ASSUME DeliberationInv, [Next]_vars, finished' # NoVerdict,
                        finished' # finished
                 PROVE  finished'.id # lastV
      OBVIOUS
    <2>1. CollectVerdict
      BY DEF Next, vars, slot, memory, eval, GuardReturns, Collect, CollectFailure, Continue,
             Work, CheapPass, Deliberate, Leave, StopFires, ModelFails, Tick, Restart
    <2>2. finished' = pendingV
      BY <2>1 DEF CollectVerdict
    <2> QED
      BY <2>2 DEF DeliberationInv
  <1> QED
    BY <1>1, DeliberationInvariance, PTL DEF Spec, CollectedOnce

(* Only a verdict just collected from the model takes a FLAT book LONG.    *)
THEOREM OnlyVerdictsBuy == Spec => OnlyVerdictsOpen
  <1>1. [Next]_vars => (Opened => Applied)
    <2> SUFFICES ASSUME [Next]_vars, Opened PROVE Applied
      OBVIOUS
    <2>1. Continue
      BY DEF Opened, Next, vars, slot, memory, eval, GuardReturns, Collect, CollectFailure,
             CollectVerdict, Fallback, Order, Work, CheapPass, Deliberate, Leave, StopFires,
             ModelFails, Tick, Restart
    <2>2. finished # NoVerdict /\ ApplyVerdict
      <3>1. ~Fallback(seen) /\ ~(UNCHANGED book)
        BY Zenon DEF Opened, Fallback, Order
      <3>2. CASE lastV = 0 /\ finished = NoVerdict
        BY <2>1, <3>1, <3>2 DEF Continue
      <3>3. CASE lastV # 0 /\ finished = NoVerdict
        BY <2>1, <3>1, <3>3 DEF Continue
      <3>4. CASE finished # NoVerdict
        BY <2>1, <3>1, <3>4 DEF Continue
      <3> QED
        BY <3>2, <3>3, <3>4
    <2> QED
      BY <2>1, <2>2 DEF Applied, Continue, ApplyVerdict
  <1> QED
    BY <1>1, PTL DEF Spec, OnlyVerdictsOpen

(* The back-off of a failure is a number of ticks within the cadence.      *)
LEMMA DelayIsTime == ASSUME NEW k \in 1..MaxFails PROVE Delay(k) \in 0..Cadence
  <1>1. k - 1 \in 0..MaxFails
    BY FailsAssumption
  <1>2. 2 ^ (k - 1) \in Nat
    BY <1>1, PowersAssumption
  <1> QED
    BY <1>2, CadenceAssumption DEF Delay, Least

(* A worker that answers fills the slot, and asks nothing more.            *)
LEMMA WorkKeepsBackoff ==
    ASSUME DeliberationInv, BackoffInv, NEW t \in Threads, Work(t) PROVE BackoffInv'
  <1> USE DEF memory, slot
  <1>1. UNCHANGED <<fails, quiet, backoff>>
    BY DEF Work, CheapPass, Deliberate, Leave
  <1>2. CASE Fails(t)
    BY <1>2 DEF Fails, BackoffInv
  <1>3. ASSUME NEW w, NEW d, Delivers(t, w, d) PROVE BackoffInv'
    <2>1. FreshId \in 1..3 /\ pendingV' = [id |-> FreshId, wants |-> w, deliberated |-> d]
      BY <1>3, FreshIdIsFresh DEF Delivers
    <2>2. pendingV' # NoVerdict
      BY <2>1 DEF NoVerdict
    <2> QED
      BY <2>2 DEF BackoffInv
  <1>4. CASE threads[t].phase = "cheap" /\ Becomes(t, "think")
    <2>1. threads'[t].phase = "think"
      BY <1>4 DEF Becomes, DeliberationInv, TypeOK
    <2> QED
      BY <2>1 DEF BackoffInv, Asking
  <1>5. CASE Leave(t)
    <2>1. \A u \in Threads : threads[u].phase \in {"cheap", "think"} =>
              threads'[u].phase \in {"cheap", "think"}
      BY <1>5 DEF Leave, Becomes, DeliberationInv, TypeOK
    <2>2. Asking => Asking'
      BY <2>1 DEF Asking
    <2>3. UNCHANGED <<pendingV, pendingE>>
      BY <1>5 DEF Leave
    <2> QED
      BY <1>1, <2>2, <2>3, Zenon DEF BackoffInv, Delay
  <1> QED
    BY <1>2, <1>3, <1>4, <1>5 DEF Work, CheapPass, Deliberate

(* A failure collected starts a back-off of its own; a verdict ends them.  *)
LEMMA CollectKeepsBackoff ==
    ASSUME DeliberationInv, BackoffInv, Collect PROVE BackoffInv'
  <1>1. CASE CollectFailure
    <2>1. fails' = Least(fails + 1, MaxFails) /\ backoff' = Delay(fails') /\ quiet' = quiet
      BY <1>1 DEF CollectFailure
    <2>2. fails' \in 1..MaxFails /\ quiet \in Nat
      BY <2>1, FailsAssumption, CadenceAssumption DEF DeliberationInv, TypeOK, Least
    <2>3. Delay(fails') \in 0..Cadence
      BY <2>2, DelayIsTime
    <2>4. quiet' + backoff' >= Delay(fails')
      BY <2>1, <2>2, <2>3, CadenceAssumption
    <2> QED
      BY <2>4, Zenon DEF BackoffInv, Delay
  <1>2. CASE CollectVerdict /\ pendingV # NoVerdict
    BY <1>2, FailsAssumption DEF CollectVerdict, BackoffInv
  <1>3. CASE CollectVerdict /\ pendingV = NoVerdict
    <2>1. UNCHANGED <<threads, fails, quiet, backoff>> /\ ~pendingE
      BY <1>3 DEF CollectVerdict, memory
    <2>2. Asking' = Asking
      BY <2>1 DEF Asking
    <2>3. fails > 0 /\ ~Asking => quiet + backoff >= Delay(fails)
      BY <1>3, <2>1, Zenon DEF BackoffInv
    <2> QED
      BY <2>1, <2>2, <2>3, Zenon DEF BackoffInv, Delay
  <1> QED
    BY <1>1, <1>2, <1>3 DEF Collect

(* A deliberation is started only when the back-off is over.               *)
LEMMA ContinueKeepsBackoff ==
    ASSUME DeliberationInv, BackoffInv, Continue PROVE BackoffInv'
  <1>1. UNCHANGED <<pendingV, pendingE, fails, backoff>> /\ Spawn
    BY DEF Continue, slot, memory
  <1>2. CASE UNCHANGED <<threads, worker, quiet>>
    <2>1. Asking' = Asking
      BY <1>2 DEF Asking
    <2> QED
      BY <1>1, <1>2, <2>1, Zenon DEF BackoffInv, Delay
  <1>3. ASSUME NEW t \in Threads,
               threads' = [threads EXCEPT ![t] = [phase |-> "cheap", long |-> seen]]
        PROVE  BackoffInv'
    <2>1. threads'[t].phase = "cheap"
      BY <1>3 DEF DeliberationInv, TypeOK
    <2> QED
      BY <2>1 DEF BackoffInv, Asking
  <1> QED
    BY <1>1, <1>2, <1>3 DEF Spawn

(* What a tick takes from the back-off it adds to the wait.                *)
LEMMA WorldKeepsBackoff ==
    ASSUME DeliberationInv, BackoffInv,
           GuardReturns \/ StopFires \/ ModelFails \/ Tick \/ UNCHANGED vars
    PROVE  BackoffInv'
  <1> USE DEF memory, slot
  <1>1. UNCHANGED <<threads, pendingV, pendingE, fails>>
    BY DEF GuardReturns, StopFires, ModelFails, Tick, vars
  <1>2. Asking' = Asking
    BY <1>1 DEF Asking
  <1>3. ASSUME fails > 0, quiet + backoff >= Delay(fails)
        PROVE  quiet' + backoff' >= Delay(fails)
    <2>1. fails \in 1..MaxFails /\ quiet \in 0..Cadence /\ backoff \in 0..Cadence
      BY <1>3, FailsAssumption DEF DeliberationInv, TypeOK
    <2>2. Delay(fails) \in 0..Cadence
      BY <2>1, DelayIsTime
    <2>3. CASE Tick
      <3>1. /\ backoff' = IF backoff = 0 THEN 0 ELSE backoff - 1
            /\ quiet' = IF quiet + 1 <= Cadence THEN quiet + 1 ELSE Cadence
        BY <2>3 DEF Tick, Least
      <3> HIDE DEF Delay
      <3> QED
        BY <1>3, <2>1, <2>2, <3>1, CadenceAssumption
    <2>4. CASE UNCHANGED <<quiet, backoff>>
      BY <1>3, <2>4
    <2> QED
      BY <2>3, <2>4 DEF GuardReturns, StopFires, ModelFails, vars
  <1>4. fails > 0 /\ ~pendingE /\ pendingV = NoVerdict /\ ~Asking
            => quiet' + backoff' >= Delay(fails)
    BY <1>3, Zenon DEF BackoffInv
  <1> QED
    BY <1>1, <1>2, <1>4, Zenon DEF BackoffInv, Delay

(* However failures, late answers, stops and restarts interleave: after k  *)
(* failures in a row the next attempt waits for the back-off of k.         *)
THEOREM AttemptsSpaced == Spec => AttemptsAreSpaced
  <1>1. Init => BackoffInv
    BY DEF Init, BackoffInv
  <1>2. DeliberationInv /\ BackoffInv /\ [Next]_vars => BackoffInv'
    <2> SUFFICES ASSUME DeliberationInv, BackoffInv, [Next]_vars PROVE BackoffInv'
      OBVIOUS
    <2>1. CASE Restart
      BY <2>1 DEF Restart, BackoffInv
    <2> QED
      BY <2>1, WorldKeepsBackoff, CollectKeepsBackoff, ContinueKeepsBackoff, WorkKeepsBackoff
      DEF Next
  <1>3. DeliberationInv /\ BackoffInv /\ [Next]_vars =>
          (Spawned /\ fails > 0 /\ ~pendingE /\ pendingV = NoVerdict => quiet >= Delay(fails))
    <2> SUFFICES ASSUME DeliberationInv, BackoffInv, [Next]_vars, Spawned, fails > 0,
                        ~pendingE, pendingV = NoVerdict
                 PROVE  quiet >= Delay(fails)
      OBVIOUS
    <2>1. ~UNCHANGED <<threads, worker>>
      BY DEF Spawned
    <2>2. ~Restart
      BY DEF Spawned, Restart, Started
    <2>3. ASSUME NEW t \in Threads, Work(t) PROVE FALSE
      <3>1. /\ UNCHANGED worker
            /\ \E p \in {"think", "leaving", "none"} : Becomes(t, p)
        BY <2>3 DEF Work, CheapPass, Deliberate, Leave, Fails, Delivers
      <3>2. worker \in Threads /\ threads'[worker].phase = "cheap"
        BY <3>1 DEF Spawned, DeliberationInv, TypeOK
      <3>3. threads[worker].phase = "cheap"
        BY <3>1, <3>2 DEF Becomes, DeliberationInv, TypeOK
      <3> QED
        BY <3>1, <3>2, <3>3 DEF Spawned
    <2>4. Continue
      BY <2>1, <2>2, <2>3 DEF Next, vars, GuardReturns, Collect, CollectFailure,
         CollectVerdict, StopFires, ModelFails, Tick
    <2>5. Due /\ ~Deliberating
      BY <2>1, <2>4 DEF Continue, Spawn
    <2>6. ~Asking
      BY <2>5, ThreadsAssumption DEF Deliberating, Alive, Asking, DeliberationInv
    <2>7. quiet + backoff >= Delay(fails) /\ backoff = 0
      <3>1. quiet + backoff >= Delay(fails)
        BY <2>6, Zenon DEF BackoffInv
      <3> QED
        BY <2>5, <3>1 DEF Due
    <2>8. quiet \in Int
      BY CadenceAssumption DEF DeliberationInv, TypeOK
    <2> QED
      BY <2>7, <2>8
  <1> QED
    BY <1>1, <1>2, <1>3, DeliberationInvariance, PTL DEF Spec, AttemptsAreSpaced
=============================================================================
