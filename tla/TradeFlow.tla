----------------------------- MODULE TradeFlow ------------------------------
(***************************************************************************)
(* The trades of the last minutes, kept by AdaptiveMarketObserver for the  *)
(* flow imbalance: a queue trimmed from the left, and a bounded memory of  *)
(* identifiers against trades that are delivered again.                    *)
(***************************************************************************)
EXTENDS Integers, Sequences, FiniteSets

CONSTANTS
    Trades,     \* bound: the trades 1..Trades, in the order of the venue
    Window,     \* flow_window, in ticks
    MaxIds,     \* deque(maxlen=20_000) of trade ids
    FlowTime    \* bound: ticks modelled

ASSUME FlowAssumption ==
    /\ Trades \in Nat /\ Window \in Nat /\ FlowTime \in Nat
    /\ MaxIds \in Nat \ {0}

VARIABLES
    clock,      \* observed time
    dated,      \* dated[i]: event_time of trade i, for those that happened (external)
    told,       \* the trades the stream has delivered (external)
    flow,       \* _trades, as trade ids
    memory      \* _trade_ids with _trade_id_set

flowVars == <<clock, dated, told, flow, memory>>

\* Mutant: nothing is forgotten.
RememberAll(ids, i) == Append(ids, i)

\* _remember_trade_id: the oldest id makes room.
Remember(ids, i) ==
    IF Len(ids) = MaxIds THEN Append(Tail(ids), i) ELSE Append(ids, i)

\* _trim_trades: from the left, as long as the head is older than the window.
Trim(q, at) ==
    LET stays(n) == dated[q[n]] >= at - Window
        first == {n \in DOMAIN q : stays(n) /\ \A k \in 1..(n - 1) : ~stays(k)}
    IN  IF first = {} THEN <<>> ELSE SubSeq(q, CHOOSE n \in first : TRUE, Len(q))

FlowInit == clock = 0 /\ dated = <<>> /\ told = {} /\ flow = <<>> /\ memory = <<>>

FlowTick == clock < FlowTime /\ clock' = clock + 1 /\ UNCHANGED <<dated, told, flow, memory>>

Trade ==
    /\ Len(dated) < Trades
    /\ dated' = Append(dated, clock)
    /\ UNCHANGED <<clock, told, flow, memory>>

\* observe, AGG_TRADE: a trade that is not remembered is counted and dated.
Deliver(i) ==
    /\ IF i \in {memory[n] : n \in DOMAIN memory}
       THEN UNCHANGED <<flow, memory>>
       ELSE /\ memory' = Remember(memory, i)
            /\ flow' = Trim(Append(flow, i), dated[i])
    /\ UNCHANGED <<clock, dated>>

\* The stream delivers in order, may lose trades, and repeats recent ones.
NextTrade(i) == (\A j \in told : j < i) /\ Deliver(i) /\ told' = told \cup {i}
Repeated(i) ==
    /\ i \in told /\ Cardinality({j \in told : j > i}) < MaxIds
    /\ Deliver(i) /\ UNCHANGED told

\* _flow_imbalance, which trims before it sums.
Summed == Trim(flow, clock)
Imbalance == flow' = Summed /\ UNCHANGED <<clock, dated, told, memory>>

FlowNext ==
    \/ FlowTick \/ Trade \/ Imbalance
    \/ \E i \in DOMAIN dated : NextTrade(i) \/ Repeated(i)

FlowSpec == FlowInit /\ [][FlowNext]_flowVars

-----------------------------------------------------------------------------

FlowTypeOK ==
    /\ clock \in 0..FlowTime /\ told \subseteq 1..Trades
    /\ dated \in Seq(0..FlowTime)
    /\ flow \in Seq(1..Trades) /\ memory \in Seq(1..Trades) /\ Len(memory) <= MaxIds

\* What the imbalance sums is of its window, with every trade counted once: trades that
\* the stream repeats do not count again though the memory of identifiers is full, and
\* trades from before a silence do not stay in behind a newer head.
FlowIsTrue ==
    /\ \A i, j \in DOMAIN Summed : Summed[i] = Summed[j] => i = j
    /\ \A i \in DOMAIN Summed : clock - dated[Summed[i]] <= Window

\* The inductive invariant: trades are dated in the order of the venue, counted in it, and
\* the memory is of the newest that were told.
Climbs(s) == \A i, j \in 1..Len(s) : i < j => s[i] < s[j]
FlowInv ==
    /\ FlowTypeOK
    /\ Len(dated) <= Trades /\ told \subseteq 1..Len(dated)
    /\ \A i, j \in 1..Len(dated) : i < j => dated[i] <= dated[j]
    /\ \A i \in 1..Len(dated) : dated[i] <= clock
    /\ Climbs(flow) /\ \A i \in 1..Len(flow) : flow[i] \in told
    /\ Climbs(memory) /\ \A i \in 1..Len(memory) : memory[i] \in told
    /\ \A t \in told : \/ \E i \in 1..Len(memory) : memory[i] = t
                       \/ Len(memory) = MaxIds /\ \A i \in 1..Len(memory) : t < memory[i]
=============================================================================
