---------------------------- MODULE MCMarketData ----------------------------
(***************************************************************************)
(* The parts of the market data path, and the submission of an order, on   *)
(* small instances.  They share no state, so a behaviour picks one of      *)
(* them, and the others rest: the run explores each part by itself and not *)
(* their product.                                                          *)
(***************************************************************************)
EXTENDS MarketObserver, TradeFlow, StreamLink, SignedRequest, DailyHistory, KlineDataset,
        MarketAdapters, OrderSubmission

VARIABLE part

marketVars == <<part, observerVars, flowVars, linkVars, requestVars, dailyVars, datasetVars,
                bookVars, guardVars, submissionVars>>

MarketParts == {"observer", "flow", "link", "request", "daily", "dataset", "book", "guard",
                "order"}

\* Two tactical and two structural horizons, one in both sets, like 4h.
MCHorizons ==
    [short |-> [span |-> 1, tol |-> 0, tactical |-> 60, structural |-> 0],
     mid   |-> [span |-> 2, tol |-> 1, tactical |-> 40, structural |-> 40],
     long  |-> [span |-> 3, tol |-> 1, tactical |-> 0, structural |-> 60]]

MCDrifts == {-6, 0, 2}

\* Every part begins as it does by itself; of what a part may choose, one choice is enough
\* while it rests.
Init ==
    /\ part \in MarketParts
    /\ ObserverInit
    /\ part = "observer" \/
         /\ venue = [t \in 1..Boot |-> CHOOSE p \in Prices : TRUE] /\ points = <<>>
    /\ FlowInit /\ LinkInit /\ RequestInit
    /\ part = "request" \/ drift = 0
    /\ DailyInit
    /\ part = "daily" \/
         /\ close = [d \in FirstDay..FirstDay |-> CHOOSE p \in Closes : TRUE] /\ ahead = FALSE
    /\ DatasetInit
    /\ part = "dataset" \/
         /\ bars = {} /\ time = 1 /\ start = 0 /\ end = 1
    /\ BookInit /\ GuardInit /\ SubmissionInit

Next ==
    \/ /\ part = "observer" /\ ObserverNext
       /\ UNCHANGED <<part, flowVars, linkVars, requestVars, dailyVars, datasetVars,
                      bookVars, guardVars, submissionVars>>
    \/ /\ part = "flow" /\ FlowNext
       /\ UNCHANGED <<part, observerVars, linkVars, requestVars, dailyVars, datasetVars,
                      bookVars, guardVars, submissionVars>>
    \/ /\ part = "link" /\ LinkNext
       /\ UNCHANGED <<part, observerVars, flowVars, requestVars, dailyVars, datasetVars,
                      bookVars, guardVars, submissionVars>>
    \/ /\ part = "request" /\ RequestNext
       /\ UNCHANGED <<part, observerVars, flowVars, linkVars, dailyVars, datasetVars,
                      bookVars, guardVars, submissionVars>>
    \/ /\ part = "daily" /\ DailyNext
       /\ UNCHANGED <<part, observerVars, flowVars, linkVars, requestVars, datasetVars,
                      bookVars, guardVars, submissionVars>>
    \/ /\ part = "dataset" /\ DatasetNext
       /\ UNCHANGED <<part, observerVars, flowVars, linkVars, requestVars, dailyVars,
                      bookVars, guardVars, submissionVars>>
    \/ /\ part = "book" /\ BookNext
       /\ UNCHANGED <<part, observerVars, flowVars, linkVars, requestVars, dailyVars,
                      datasetVars, guardVars, submissionVars>>
    \/ /\ part = "guard" /\ GuardNext
       /\ UNCHANGED <<part, observerVars, flowVars, linkVars, requestVars, dailyVars,
                      datasetVars, bookVars, submissionVars>>
    \/ /\ part = "order" /\ SubmissionNext
       /\ UNCHANGED <<part, observerVars, flowVars, linkVars, requestVars, dailyVars,
                      datasetVars, bookVars, guardVars>>

\* A resting part owes nothing.
Spec ==
    /\ Init /\ [][Next]_marketVars
    /\ part = "link" => LinkFairness
    /\ part = "order" => SubmissionFairness

\* The inductive invariants of the parts.
MarketInv ==
    /\ ObserverInv /\ FlowInv /\ LinkTypeOK /\ RequestInv /\ DailyTypeOK /\ DatasetInv
    /\ BookInv /\ GuardInv

\* What the process believes of the market is well formed and happened: the observer's
\* history, the returns of evidence it calls qualified, the trades it sums, the local book
\* it publishes, and the frame of bars an evaluation is given.
EvidenceIsTrue ==
    /\ MarketInv /\ HistoryIsTrue /\ QualifiedIsMeasured /\ FlowIsTrue
    /\ PublishedBookIsTrue /\ FrameIsTrue

\* A download is the venue's history and a dataset that loads is a download: no bar that had
\* closed when it began is skipped, repeated or other than final, and no hole goes unaccounted.
DownloadsAreWhole == OnlyFinalBars /\ NothingSkipped /\ LoadedIsWhole

\* The market is heard: the stream loop neither goes deaf nor ignores a request to stop,
\* and the daily history of a process that keeps refreshing it catches up.
MarketIsHeard == NeverDeaf /\ StopIsHonoured /\ RefreshHeals

\* Every order that is submitted is settled.
OrdersSettle == part = "order" => Settles
=============================================================================
