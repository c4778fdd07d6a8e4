------------------------------ MODULE AgentView ------------------------------
(***************************************************************************)
(* AgentView: what the LLM agent is shown, what is taken from its answer,  *)
(* and which strategy then governs it.  The block holds the market, the    *)
(* position, the cost, the opinion of the numeric policy, past days like   *)
(* this one with what followed them, the agent's own record and the        *)
(* strategy of its regime.  Past days come from an index that is built     *)
(* now and then over the days of a dataset.                                *)
(*                                                                         *)
(* A fact of the block is the last day its value depends on.  The tracker  *)
(* of regimes either keeps the regime in force or takes the label.         *)
(***************************************************************************)
EXTENDS Integers, FiniteSets

CONSTANTS
    Regimes,     \* the labels of the numeric policy that the playbook knows
    Cautious,    \* the regime of the first observation and of an unknown label
    MinHistory,  \* MIN_DAILY_HISTORY
    MaxHorizon,  \* the longest outcome a row of the index holds
    Count,       \* analogue_count
    Cost,        \* round trip, in the units of a move
    LastDay      \* bound: days modelled

ASSUME ViewAssumption ==
    /\ Cautious \in Regimes /\ Regimes \subseteq Int /\ Cost \in Nat
    /\ MinHistory \in Nat /\ MaxHorizon \in Nat \ {0} /\ Count \in Nat /\ LastDay \in Nat

VARIABLES
    today,         \* completed days: the closes are those of days 0..today-1, today forms
    historyIndex,  \* the days the index has a row for
    label,         \* the regime the numeric policy sees today
    force,         \* the regime in force
    invested,      \* position_long
    block,         \* the block the agent was last asked with, NoBlock before
    answer,        \* what became of its answer
    acted          \* the last verdict applied: the strategy told and the one used

viewVars == <<today, historyIndex, label, force, invested, block, answer, acted>>

NoBlock == [day |-> -1]
NoAct == [told |-> Cautious, used |-> Cautious]

\* build_history_index.main: a row needs history behind it and an outcome ahead of it, among
\* the days of the dataset.  The last of those may be one that has yet to end.
\* Mutant: the last days are indexed with what has not followed them yet.
RowsOfEveryDay(days) == MinHistory..(days - 1)
Rows(days) == MinHistory..(days - MaxHorizon - 1)

\* What the script can have written: the dataset was downloaded at any time until now.
Indexes == {Rows(days) : days \in 0..(today + 1)} \ {{}}

ViewInit ==
    /\ today \in 0..LastDay /\ historyIndex \in Indexes /\ label \in Regimes
    /\ force = Cautious /\ invested \in BOOLEAN /\ block = NoBlock /\ answer = "none"
    /\ acted = NoAct

NewDay ==
    /\ today < LastDay /\ today' = today + 1 /\ label' \in Regimes
    /\ UNCHANGED <<historyIndex, force, invested, block, answer, acted>>

BuildIndex ==
    /\ historyIndex' \in Indexes
    /\ UNCHANGED <<today, label, force, invested, block, answer, acted>>

\* Mutant: the day itself is cut, and not the window that follows it.
VisibleBefore(row, before) == before = -1 \/ row < before
\* HistoryIndex._visible: live there is no cutoff, a replay purges the outcomes as well.
Visible(row, before) == before = -1 \/ row + MaxHorizon < before

\* analogues: the nearest rows, whichever they are; base_rates: all of them.
Analogues(before) ==
    {A \in SUBSET {r \in historyIndex : Visible(r, before)} :
        Cardinality(A) = IF Cardinality({r \in historyIndex : Visible(r, before)}) < Count
                         THEN Cardinality({r \in historyIndex : Visible(r, before)}) ELSE Count}
BaseRates(before) == {r \in historyIndex : Visible(r, before)}

\* market_features: fewer closes than the policy was trained on are refused, and so is the
\* perception built on them.
EnoughHistory(day) == day >= MinHistory
Perceives(day) == EnoughHistory(day)

\* The views of the block: the closes of completed days, the position, the opinion of the
\* numeric policy and past days.
MarketView(day) == day - 1
PositionView == invested
QuantView == label
Block(day, before, similar) ==
    [day |-> day, live |-> before = -1, market |-> MarketView(day), invested |-> PositionView,
     quant |-> QuantView,
     shown |-> {r + MaxHorizon : r \in similar \cup BaseRates(before)}]

\* build_state, live: the day is today.
Ask ==
    /\ Perceives(today)
    /\ \E similar \in Analogues(-1) : block' = Block(today, -1, similar)
    /\ answer' = "none"
    /\ UNCHANGED <<today, historyIndex, label, force, invested, acted>>

\* The replay asks about a day of the past, with the same index.
AskAboutThePast ==
    /\ \E day \in 0..today :
         /\ Perceives(day)
         /\ \E similar \in Analogues(day) : block' = Block(day, day, similar)
    /\ answer' = "none"
    /\ UNCHANGED <<today, historyIndex, label, force, invested, acted>>

\* OllamaClient.verdict: no answer, one that is not JSON, an exposure or a number that is
\* none, are an answer that never came; a posture that is none is only taken for NEUTRAL.
Replies == [arrives : BOOLEAN, json : BOOLEAN, exposure : {"in", "out", "?"}, numbers : BOOLEAN]
Parsed(r) ==
    IF r.arrives /\ r.json /\ r.numbers /\ r.exposure # "?" THEN r.exposure ELSE "unavailable"

Reply ==
    /\ block # NoBlock /\ answer = "none"
    /\ \E r \in Replies : answer' = Parsed(r)
    /\ UNCHANGED <<today, historyIndex, label, force, invested, block, acted>>

Wants == answer = "in"

\* clears_cost_static: an exit always clears.  An entry clears when the move of its horizon
\* does, or, with no volatility read, the move the agent declares.
Clears(move) == (invested /\ ~Wants) \/ move >= Cost

\* corroborated_regime, and the tracker that may not follow it yet.
Corroborated == {label, Cautious}

\* render_playbook_block: the strategy told is that of the label the numeric policy gives.
Told(b) == b.quant

\* The plan, its horizon and its record are those of the regime in force.
Apply ==
    /\ block # NoBlock /\ block.day = today /\ answer \notin {"none", "unavailable"}
    /\ \E seen \in Corroborated : force' \in {force, seen}
    /\ acted' = [told |-> Told(block), used |-> force']
    /\ \E move \in {Cost - 1, Cost} : invested' = IF Wants /\ Clears(move) THEN TRUE
                                                  ELSE invested /\ Wants
    /\ answer' = "none" /\ block' = NoBlock
    /\ UNCHANGED <<today, historyIndex, label>>

ViewNext == NewDay \/ BuildIndex \/ Ask \/ AskAboutThePast \/ Reply \/ Apply

ViewTypeOK ==
    /\ today \in 0..LastDay /\ historyIndex \subseteq 0..LastDay /\ label \in Regimes
    /\ force \in Regimes /\ acted \in [told : Regimes, used : Regimes]
    /\ answer \in {"none", "unavailable", "in", "out"}

-----------------------------------------------------------------------------

\* Nothing the agent is shown was unknown on the day it decides about.  In a replay, where the
\* index knows the days after, the cut leaves outcomes that had closed before that day; live,
\* where no cutoff is applied, the index holds none of a later day because of how it is built.
NothingFromTheFuture ==
    block # NoBlock =>
        /\ block.market < block.day
        /\ \A d \in block.shown : d < block.day \/ (block.live /\ d = block.day)

\* "the index only contains days whose outcomes are already complete history"
\* (llm_tools.py:124-125): live, the last outcome can be of a day that has not ended.
OutcomesAreComplete == block # NoBlock => \A d \in block.shown : d < block.day

\* "ESTRATEGIA DEL REGIMEN ... Tu decision se juzgara por lo que pase en esas ... h": the
\* strategy the agent is told is the one its answer is carried out and judged with.
ToldWhatIsUsed == acted.told = acted.used
=============================================================================
