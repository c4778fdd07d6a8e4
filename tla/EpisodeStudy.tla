---------------------------- MODULE EpisodeStudy ----------------------------
(***************************************************************************)
(* EpisodeStudy: the two harnesses that judged the retired policies on     *)
(* past bars.  "oos" cuts the history where it has gaps and runs POL-101   *)
(* inside every piece; "study" makes candles of several hours, splits them *)
(* into training and test and runs a signal over each part.  Both open one *)
(* position at a time, close it at a signal or after its time, and report  *)
(* the completed episodes only.                                            *)
(*                                                                         *)
(* Prices and indicators are left out: whether a bar arms, spoils, resumes *)
(* or ends is chosen, and so is the net return of an episode; returns add  *)
(* up instead of compounding.                                              *)
(***************************************************************************)
EXTENDS Integers, Sequences, FiniteSets, SequencesExt, FiniteSetsExt, Selection

CONSTANTS
    NetReturns,    \* of an episode, in units of its cost
    CandleHours,   \* hours of a candle
    WarmupBars, ArmTimeout, LongestHold, FoldCount,
    LastStudyHour  \* bound: hours of the history

ASSUME EpisodeAssumption ==
    /\ NetReturns \subseteq Int /\ CandleHours \subseteq Nat \ {0}
    /\ {WarmupBars, ArmTimeout, LongestHold} \subseteq Nat \ {0} /\ FoldCount \in Nat \ {0, 1}
    /\ LastStudyHour \in Nat

VARIABLES
    harness,
    candles,   \* in order, each from its first hour to its last
    windows,   \* the pieces that are walked, as ranges of candles
    readingAt, \* the window and the candle to be read next
    openTrade, \* the open position, NoOpenTrade when there is none
    armedFor,  \* bars since the setup was armed, NotArmed when it is not
    counted,   \* bars evaluated ("oos"), bars exposed in this window ("study")
    episodes,  \* the completed ones
    studyReport

studyVars == <<harness, candles, windows, readingAt, openTrade, armedFor, counted, episodes,
               studyReport>>

NoOpenTrade == [entry |-> 0, blind |-> 0]
NotArmed == -1
NoStudyReport == [nets |-> <<>>, folds |-> <<>>, losses |-> 0, trials |-> 0, drawdown |-> 0]

\* Mutant: what was gathered before a gap is kept.
Resampled_Bridging(hours, size) ==
    [n \in 1..(Len(hours) \div size) |-> [from |-> hours[(n - 1) * size + 1], to |-> hours[n * size]]]
\* _resample: a gap drops what was gathered, and a candle is complete with its last hour.
Gathered(at, h, size) ==
    LET bucket == IF at.bucket # <<>> /\ h > Last(at.bucket) + 1 THEN <<h>>
                  ELSE Append(at.bucket, h)
    IN  IF Len(bucket) = size
        THEN [out |-> Append(at.out, [from |-> Head(bucket), to |-> h]), bucket |-> <<>>]
        ELSE [at EXCEPT !.bucket = bucket]
Resampled(hours, size) ==
    LET upTo[i \in 0..Len(hours)] ==
          IF i = 0 THEN [out |-> <<>>, bucket |-> <<>>]
          ELSE Gathered(upTo[i - 1], hours[i], size)
    IN  upTo[Len(hours)].out

\* _segment_bars: a gap starts a segment, and one bar is none.
Starts(bars, i) == i = 1 \/ bars[i].from > bars[i - 1].to + 1
StretchEnd(bars, i) ==
    CHOOSE j \in i..Len(bars) :
      /\ j = Len(bars) \/ Starts(bars, j + 1)
      /\ \A k \in (i + 1)..j : ~Starts(bars, k)
Segments(bars) ==
    LET runs == [i \in DOMAIN bars |-> <<i, IF Starts(bars, i) THEN StretchEnd(bars, i) ELSE i>>]
    IN  Kept(runs, {piece \in ToSet(runs) : piece[1] < piece[2]})

\* split_train_test: the first six tenths.
TrainAndTest(bars) ==
    LET cut == (6 * Len(bars)) \div 10 IN <<<<1, cut>>, <<cut + 1, Len(bars)>>>>

\* A run starts behind its warmup.
StartOf(ws, w) == [window |-> w, bar |-> IF w <= Len(ws) THEN ws[w][1] + WarmupBars ELSE 0]

StudyInit ==
    /\ harness \in {"oos", "study"}
    /\ \E present \in SUBSET (1..LastStudyHour), size \in CandleHours :
         LET hours == Kept([h \in 1..LastStudyHour |-> h], present) IN
         /\ harness = "oos" => size = 1
         /\ candles = Resampled(hours, size)
         /\ windows = IF harness = "oos" THEN Segments(candles) ELSE TrainAndTest(candles)
    /\ readingAt = StartOf(windows, 1)
    /\ openTrade = NoOpenTrade /\ armedFor = NotArmed /\ counted = 0 /\ episodes = <<>> /\ studyReport = NoStudyReport

InWindow == readingAt.window <= Len(windows) /\ readingAt.bar <= windows[readingAt.window][2]
InTrade == openTrade # NoOpenTrade
HeldFor == readingAt.bar - openTrade.entry

EpisodeEnds(net) ==
    Append(episodes, [window |-> readingAt.window, entry |-> openTrade.entry, exit |-> readingAt.bar,
                      blind |-> openTrade.blind, net |-> net])

\* A bar without its features: the setup is lost, the position is not looked at.
BlindBar ==
    /\ harness = "oos"
    /\ armedFor' = NotArmed /\ UNCHANGED <<counted, episodes>>
    /\ openTrade' = IF InTrade THEN [openTrade EXCEPT !.blind = @ + 1] ELSE openTrade

\* A position: the stop, the time or a signal ends it, and the bar is used up.
HoldBar ==
    /\ InTrade /\ counted' = counted + 1
    /\ armedFor' = NotArmed
    /\ \/ \E net \in NetReturns : episodes' = EpisodeEnds(net) /\ openTrade' = NoOpenTrade
       \/ HeldFor < LongestHold /\ UNCHANGED <<openTrade, episodes>>

EpisodeStarts == [entry |-> readingAt.bar, blind |-> 0]

\* run_pol101, flat: armed by one bar, it is spoiled, completed or aged by the later ones.
SetupBar ==
    /\ harness = "oos" /\ ~InTrade
    /\ counted' = counted + 1 /\ UNCHANGED episodes
    /\ IF armedFor = NotArmed THEN armedFor' \in {NotArmed, 0} /\ UNCHANGED openTrade
       ELSE \/ armedFor' = NotArmed /\ UNCHANGED openTrade
            \/ armedFor < ArmTimeout /\ armedFor' = NotArmed /\ openTrade' = EpisodeStarts
            \/ armedFor < ArmTimeout /\ armedFor' = armedFor + 1 /\ UNCHANGED openTrade

\* _run, backtest_long_only, flat: the signal of this bar opens.
SignalBar ==
    /\ harness = "study" /\ ~InTrade
    /\ openTrade' \in {openTrade, EpisodeStarts} /\ UNCHANGED <<counted, episodes, armedFor>>

ReadCandle ==
    /\ InWindow
    /\ BlindBar \/ HoldBar \/ SetupBar \/ SignalBar
    /\ readingAt' = [readingAt EXCEPT !.bar = @ + 1]
    /\ UNCHANGED <<harness, candles, windows, studyReport>>

\* The end of a piece: what is open is left out of the episodes.
NextWindow ==
    /\ ~InWindow /\ readingAt.window <= Len(windows)
    /\ readingAt' = StartOf(windows, readingAt.window + 1)
    /\ openTrade' = NoOpenTrade /\ armedFor' = NotArmed
    /\ counted' = IF harness = "study" THEN 0 ELSE counted
    /\ UNCHANGED <<harness, candles, windows, episodes, studyReport>>

SumOfNets(nets) ==
    LET upTo[i \in 0..Len(nets)] == IF i = 0 THEN 0 ELSE upTo[i - 1] + nets[i]
    IN  upTo[Len(nets)]

\* _fold_bounds: equal parts, the last one takes the rest.
FoldBounds(count) ==
    LET size == IF count \div FoldCount > 0 THEN count \div FoldCount ELSE 1
        Bound(fold) == <<(fold - 1) * size + 1, IF fold = FoldCount THEN count ELSE fold * size>>
    IN  [fold \in 1..(IF count < FoldCount THEN count ELSE FoldCount) |-> Bound(fold)]

\* Mutant: a training set is judged without the rest of it being losing.
Overfitted_Either(sums, train) == SumOfNets([i \in DOMAIN sums |-> IF i \in train THEN sums[i] ELSE 0]) > 0
\* _combinatorial_pbo: the folds chosen to train on gain, the others do not.
Overfitted(sums, train) ==
    /\ SumOfNets([i \in DOMAIN sums |-> IF i \in train THEN sums[i] ELSE 0]) > 0
    /\ SumOfNets([i \in DOMAIN sums |-> IF i \in train THEN 0 ELSE sums[i]]) <= 0

\* _max_drawdown, _summarize: of the equity after every episode.
Deepened(at, net) ==
    LET equity == at.equity + net
        peak == IF equity > at.peak THEN equity ELSE at.peak
    IN  [equity |-> equity, peak |-> peak,
         worst |-> IF peak - equity > at.worst THEN peak - equity ELSE at.worst]
DeepestFall(nets) ==
    LET upTo[i \in 0..Len(nets)] ==
          IF i = 0 THEN [equity |-> 0, peak |-> 0, worst |-> 0] ELSE Deepened(upTo[i - 1], nets[i])
    IN  upTo[Len(nets)].worst

\* The returns that are judged together: those of one part, those of all the segments.
Judged(w) ==
    LET mine == Kept(episodes, {e \in ToSet(episodes) : harness = "oos" \/ e.window = w})
    IN  [i \in DOMAIN mine |-> mine[i].net]

\* build_report, _summ: too few episodes count as overfitted in every split.
Summarize ==
    /\ readingAt.window > Len(windows) /\ studyReport = NoStudyReport
    /\ \E w \in DOMAIN windows :
         LET nets == Judged(w)
             folds == FoldBounds(Len(nets))
             sums == [f \in DOMAIN folds |-> SumOfNets(SubSeq(nets, folds[f][1], folds[f][2]))]
             trainings == {t \in SUBSET (DOMAIN folds) : t # {} /\ t # DOMAIN folds}
             few == Len(nets) < FoldCount
         IN  studyReport' =
               [nets |-> nets, folds |-> folds, drawdown |-> DeepestFall(nets),
                losses |-> IF few THEN 1 ELSE Cardinality({t \in trainings : Overfitted(sums, t)}),
                trials |-> IF few THEN 1 ELSE Cardinality(trainings)]
    /\ UNCHANGED <<harness, candles, windows, readingAt, openTrade, armedFor, counted, episodes>>

StudyNext == ReadCandle \/ NextWindow \/ Summarize

StudyTypeOK ==
    /\ harness \in {"oos", "study"} /\ armedFor \in NotArmed..ArmTimeout
    /\ openTrade.entry \in 0..Len(candles) /\ readingAt.window \in 1..(Len(windows) + 1)

-----------------------------------------------------------------------------

HeldIn(w) ==
    SumOfNets([i \in DOMAIN episodes |->
           IF episodes[i].window = w THEN episodes[i].exit - episodes[i].entry ELSE 0])

\* What the harnesses call an episode is one: it lies in one piece of the history, behind
\* the warmup, and in "oos" without a gap; it starts after the one before has ended; it is
\* never held longer than its time, the bars that could not be read aside; no candle is
\* made across a gap; and the bars counted are the bars of the positions.
EpisodesAreReal ==
    /\ \A c \in ToSet(candles) : harness = "oos" => c.from = c.to
    /\ \A i \in DOMAIN episodes :
         LET e == episodes[i] IN
         /\ e.entry >= windows[e.window][1] + WarmupBars /\ e.exit <= windows[e.window][2]
         /\ e.exit - e.entry \in 1..(LongestHold + e.blind)
         /\ i > 1 => e.entry > episodes[i - 1].exit
         /\ harness = "oos" => candles[e.exit].to - candles[e.entry].to = e.exit - e.entry
    /\ harness = "oos" => 3 * Len(episodes) <= counted
    /\ harness = "study" =>
         counted = HeldIn(readingAt.window) + IF InTrade THEN readingAt.bar - 1 - openTrade.entry ELSE 0
    /\ harness = "study" =>
         \A c \in ToSet(candles) : c.to - c.from + 1 \in CandleHours

\* What the report says of the episodes holds: each is in one fold, the drawdown is the
\* deepest fall between two of them, and of enough episodes no more than half of the splits
\* can be called overfitted, because the split that trains on the other folds is not one.
ReportIsOfEpisodes ==
    studyReport # NoStudyReport =>
      LET nets == studyReport.nets
          stretches == {s \in (DOMAIN nets) \X (DOMAIN nets) : s[1] <= s[2]}
          falls == {-SumOfNets(SubSeq(nets, s[1], s[2])) : s \in stretches}
      IN
      /\ \A i \in DOMAIN nets :
           \E f \in DOMAIN studyReport.folds :
             /\ i \in studyReport.folds[f][1]..studyReport.folds[f][2]
             /\ \A g \in (DOMAIN studyReport.folds) \ {f} :
                  i \notin studyReport.folds[g][1]..studyReport.folds[g][2]
      /\ Len(nets) >= FoldCount => 2 * studyReport.losses <= studyReport.trials
      /\ studyReport.drawdown = Max(falls \cup {0})

StudyIsHonest == EpisodesAreReal /\ ReportIsOfEpisodes
=============================================================================
