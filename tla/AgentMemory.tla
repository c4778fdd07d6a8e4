---------------------------- MODULE AgentMemory -----------------------------
(***************************************************************************)
(* AgentMemory: the record of the LLM agent's decisions and of what they   *)
(* earned, from which its next prompt is conditioned.  Every evaluation of *)
(* good evidence resolves the decisions whose own horizon has passed, at   *)
(* the price of that moment, and may record a new one.  Evaluations come   *)
(* when they come: the process can be down, or its evidence bad, for any   *)
(* time.                                                                   *)
(*                                                                         *)
(* A result is the move of the price, in its units, with the sign of the   *)
(* exposure that was chosen; regimes are left out, so that a pattern is an *)
(* exposure.                                                               *)
(***************************************************************************)
EXTENDS Integers, Sequences, FiniteSets, SequencesExt

CONSTANTS
    Quotes,      \* prices
    HorizonHours,\* horizons a strategy can declare
    MinSamples,  \* MIN_SAMPLES_FOR_SUPPORT
    MaxRows,     \* bound: decisions recorded
    LastTick     \* bound: time modelled

ASSUME MemoryAssumption ==
    /\ Quotes \subseteq Nat \ {0} /\ HorizonHours \subseteq Nat \ {0}
    /\ MinSamples \in Nat \ {0, 1} /\ MaxRows \in Nat /\ LastTick \in Nat \ {0}

VARIABLES
    tick,      \* time
    quote,     \* quote[t]: the price at time t (external)
    decisions, \* the table, in the order of insertion; on = 0 is resolved = 0
    misread    \* rows resolved while they carried a retired name

memoryVars == <<tick, quote, decisions, misread>>

Invested == "INVERTIDO"
Cash == "LIQUIDEZ"
Retired == [LARGO |-> Invested, PLANO |-> Cash]

Price == quote[tick]

MemoryInit ==
    /\ tick = 1 /\ quote \in [1..1 -> Quotes] /\ misread = {}
    \* A database of an earlier version can hold decisions under the retired names.
    /\ decisions \in {<<>>} \cup
         {<<[at |-> 1, choice |-> c, hours |-> h, price |-> quote[1],
             realized |-> 0, on |-> 0]>> : c \in DOMAIN Retired, h \in HorizonHours}

TickQuote ==
    /\ tick < LastTick /\ tick' = tick + 1
    /\ \E p \in Quotes : quote' = Append(quote, p)
    /\ UNCHANGED <<decisions, misread>>

\* resolve_pending: the move as it was earned by what was chosen.
IsDue(row) == row.on = 0 /\ row.at + row.hours <= tick
Earned(row) == IF row.choice = Invested THEN Price - row.price ELSE row.price - Price

\* Mutant: one horizon for every decision.
ResolveByOneHorizon ==
    [i \in DOMAIN decisions |->
        IF decisions[i].on = 0 /\ decisions[i].at + 1 <= tick
        THEN [decisions[i] EXCEPT !.realized = Earned(decisions[i]), !.on = tick]
        ELSE decisions[i]]

ResolvePending ==
    [i \in DOMAIN decisions |->
        IF IsDue(decisions[i])
        THEN [decisions[i] EXCEPT !.realized = Earned(decisions[i]), !.on = tick]
        ELSE decisions[i]]

\* Mutant: a plain INSERT.
RecordAgain(rows, choice, hours) ==
    Append(rows, [at |-> tick, choice |-> choice, hours |-> hours, price |-> Price,
                  realized |-> 0, on |-> 0])

\* record: INSERT OR IGNORE, one row per moment and event.
Record(rows, choice, hours) ==
    IF \E i \in DOMAIN rows : rows[i].at = tick
    THEN rows
    ELSE Append(rows, [at |-> tick, choice |-> choice, hours |-> hours, price |-> Price,
                       realized |-> 0, on |-> 0])

\* evaluate: resolve, and record when there is a verdict.
EvaluateMemory ==
    /\ \/ decisions' = ResolvePending
       \/ /\ Len(decisions) < MaxRows
          /\ \E c \in {Invested, Cash}, h \in HorizonHours :
               decisions' = Record(ResolvePending, c, h)
    /\ misread' = misread \cup
         {i \in DOMAIN decisions : IsDue(decisions[i]) /\ decisions[i].choice \in DOMAIN Retired}
    /\ UNCHANGED <<tick, quote>>

\* migrate_exposure_vocabulary.main: one transaction, nothing when nothing is retired.
Migrate ==
    /\ decisions' = [i \in DOMAIN decisions |->
                       IF decisions[i].choice \in DOMAIN Retired
                       THEN [decisions[i] EXCEPT !.choice = Retired[@]] ELSE decisions[i]]
    /\ UNCHANGED <<tick, quote, misread>>

MemoryNext == TickQuote \/ EvaluateMemory \/ Migrate
MemorySpec == MemoryInit /\ [][MemoryNext]_memoryVars

-----------------------------------------------------------------------------
\* What the prompt is told.

Resolved == {i \in DOMAIN decisions : decisions[i].on # 0}
SumOf(S, f(_)) == FoldSet(LAMBDA i, n : f(i) + n, 0, S)

\* measured_patterns.  The mean is at least 1.5 standard errors from zero, multiplied
\* out; a group without any spread has no effect, and one of a single case neither.
Pattern(choice) ==
    LET group == {i \in Resolved : decisions[i].choice = choice}
        n == Cardinality(group)
        sum == SumOf(group, LAMBDA i : decisions[i].realized)
        squares == SumOf(group, LAMBDA i : decisions[i].realized * decisions[i].realized)
        spread == n * squares - sum * sum
    IN  [cases |-> group,
         supported |-> n >= MinSamples /\ spread > 0 /\ 4 * (n - 1) * sum * sum >= 9 * spread]

-----------------------------------------------------------------------------

Decision ==
    [at : 1..LastTick, choice : {Invested, Cash} \cup DOMAIN Retired, hours : HorizonHours,
     price : Quotes, realized : Int, on : 0..LastTick]

MemoryTypeOK ==
    /\ tick \in 1..LastTick /\ quote \in [1..tick -> Quotes]
    /\ decisions \in Seq(Decision)
    /\ misread \subseteq DOMAIN decisions

\* The record is the agent's own: a decision is judged at its own horizon or later, at the
\* price of one moment, with the sign of what it chose, renamed or not.  Only a row that
\* is resolved before its vocabulary was migrated is not.
OutcomeIsEarned ==
    \A i \in Resolved \ misread :
      LET row == decisions[i]
          move == quote[row.on] - row.price
      IN  /\ row.on >= row.at + row.hours
          /\ row.price = quote[row.at]
          /\ row.realized = IF row.choice \in {Invested, "LARGO"} THEN move ELSE -move

\* The inductive invariant: a row keeps the price of its moment, one row a moment, and only
\* a row that was resolved under a retired name can still have one.
MemoryInv ==
    /\ MemoryTypeOK /\ OutcomeIsEarned
    /\ \A i \in DOMAIN decisions :
         /\ decisions[i].at <= tick /\ decisions[i].on <= tick
         /\ decisions[i].price = quote[decisions[i].at]
    /\ \A i, j \in DOMAIN decisions : i < j => decisions[i].at < decisions[j].at
    /\ \A i \in Resolved \ misread : decisions[i].choice \in {Invested, Cash}

\* "It is promoted only when it has enough independent samples" (llm_memory.py:23-24):
\* a supported pattern has that many decisions whose outcomes do not overlap in time.
SupportIsIndependent ==
    \A c \in {Invested, Cash} : Pattern(c).supported =>
      \E S \in SUBSET Pattern(c).cases :
        /\ Cardinality(S) >= MinSamples
        /\ \A i, j \in S : i # j =>
             decisions[i].on <= decisions[j].at \/ decisions[j].on <= decisions[i].at
=============================================================================
