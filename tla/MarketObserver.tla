--------------------------- MODULE MarketObserver ---------------------------
(***************************************************************************)
(* AdaptiveMarketObserver: what the process remembers of the market and    *)
(* the verdict it gives on its own evidence.  The closing prices of the    *)
(* minutes reach it twice, in a batch at the start (REST) and one by one   *)
(* from the stream, where they can be lost, come late or come again.       *)
(*                                                                         *)
(* Time is minutes.  An observation is "fresh" for max_data_age_seconds,   *)
(* which is less than a minute, and "old" after that.  Scores, returns and *)
(* confidences are left out: a return is the price it is measured from.    *)
(***************************************************************************)
EXTENDS Integers, Sequences, FiniteSets, Folds, Functions

CONSTANTS
    Prices,       \* the prices at which a minute can close
    Horizons,     \* [name -> [span, tol, tactical, structural]]: _HORIZONS and weights
    MinCoverage,  \* params.min_coverage, in the unit of the weights
    MaxPoints,    \* deque(maxlen=max_points)
    MaxBarIds,    \* deque(maxlen=5_000) of closed bars seen
    Boot,         \* minutes of history the venue has when the process starts
    MaxTime       \* bound: minutes modelled

ASSUME ObserverAssumption ==
    /\ Boot \in Nat /\ MaxTime \in Nat /\ Boot <= MaxTime
    /\ MaxPoints \in Nat \ {0} /\ MaxBarIds \in Nat \ {0}
    /\ \A h \in DOMAIN Horizons :
         Horizons[h] \in [span : Nat, tol : Nat, tactical : Nat, structural : Nat]

VARIABLES
    venue,     \* venue[t] is the price at which minute t closed (external)
    points,    \* _points
    barIds,    \* _closed_bar_ids, as minutes
    latest,    \* _latest_price
    priceAge,  \* age of _last_price_observed
    book,      \* _bid and _ask, by their spread
    bookAge    \* age of _last_bbo_observed

observerVars == <<venue, points, barIds, latest, priceAge, book, bookAge>>

now == Len(venue)
Point(t) == [at |-> t, price |-> venue[t]]
Ages == {"never", "fresh", "old"}
Books == {"missing", "tight", "wide"}
None == 0

Bounded(s, n) == IF Len(s) > n THEN Tail(s) ELSE s

\* _append_point.
AppendPoint(ps, p) ==
    CASE ps = <<>> -> <<p>>
      [] ps # <<>> /\ p.at < ps[Len(ps)].at -> ps
      [] ps # <<>> /\ p.at = ps[Len(ps)].at -> [ps EXCEPT ![Len(ps)] = p]
      [] OTHER -> Bounded(Append(ps, p), MaxPoints)

\* bootstrap: one point per closing time, oldest first, through _append_point.
Bootstrapped(times) ==
    LET upTo[t \in 0..Boot] ==
          IF t = 0 THEN <<>>
          ELSE IF t \in times THEN AppendPoint(upTo[t - 1], Point(t)) ELSE upTo[t - 1]
    IN  upTo[Boot]

\* Mutant: whatever point is the newest before the target serves.
PriceAtAnyAge(target, tol) ==
    LET before == {i \in DOMAIN points : points[i].at <= target}
    IN  IF before = {} THEN None
        ELSE points[CHOOSE i \in before : \A j \in before : j <= i].price

\* _price_at: the newest point not after target, unless it is too old for it.
PriceAt(target, tol) ==
    LET before == {i \in DOMAIN points : points[i].at <= target}
        newest == CHOOSE i \in before : \A j \in before : j <= i
    IN  IF before # {} /\ target - points[newest].at <= tol
        THEN points[newest].price
        ELSE None

\* The horizons a snapshot has a return for, each with the price it starts from.
Returns ==
    LET base == [h \in DOMAIN Horizons |->
                    PriceAt(now - Horizons[h].span, Horizons[h].tol)]
    IN  [h \in {x \in DOMAIN base : base[x] # None} |-> base[h]]

\* _weighted, its third result, for both sets of weights; snapshot takes the less.
Total(f) == FoldFunction(LAMBDA a, b : a + b, 0, f)
Coverage(returns) ==
    LET tactical == Total([h \in DOMAIN returns |-> Horizons[h].tactical])
        structural == Total([h \in DOMAIN returns |-> Horizons[h].structural])
    IN  IF tactical <= structural THEN tactical ELSE structural

\* snapshot, taken at every evaluation: the first reason that applies.
Quality(returns) ==
    IF latest = None THEN "PRICE_MISSING"
    ELSE IF priceAge # "fresh" \/ bookAge # "fresh" THEN "DATA_STALE"
    ELSE IF Coverage(returns) < MinCoverage THEN "HISTORY_INSUFFICIENT"
    ELSE IF book = "missing" THEN "BBO_MISSING"
    ELSE IF book = "wide" THEN "SPREAD_TOO_WIDE"
    ELSE "QUALIFIED"

-----------------------------------------------------------------------------

\* The hourly and the minute bars of the start, some of them missing.
ObserverInit ==
    /\ venue \in [1..Boot -> Prices]
    /\ \E times \in SUBSET (1..Boot) : points = Bootstrapped(times)
    /\ barIds = <<>>
    /\ latest = IF points = <<>> THEN None ELSE points[Len(points)].price
    /\ priceAge = "never" /\ bookAge = "never" /\ book = "missing"

\* A minute ends at the venue.  What was observed before is stale.
Minute ==
    /\ now < MaxTime
    /\ \E p \in Prices : venue' = Append(venue, p)
    /\ priceAge' = IF priceAge = "never" THEN "never" ELSE "old"
    /\ bookAge' = IF bookAge = "never" THEN "never" ELSE "old"
    /\ UNCHANGED <<points, barIds, latest, book>>

\* max_data_age_seconds pass within the minute for one of the two or for both.
Grow(age) == IF age = "fresh" THEN {"fresh", "old"} ELSE {age}
Silence ==
    /\ \E a \in Grow(priceAge), b \in Grow(bookAge) :
         /\ <<a, b>> # <<priceAge, bookAge>>
         /\ priceAge' = a /\ bookAge' = b
    /\ UNCHANGED <<venue, points, barIds, latest, book>>

\* observe, KLINE_CLOSED: the bar of minute t, which may be the last one, come late.
ObserveBar(t) ==
    /\ latest' = venue[t]
    /\ priceAge' = "fresh"
    /\ IF t \in {barIds[i] : i \in DOMAIN barIds}
       THEN UNCHANGED <<points, barIds>>
       ELSE /\ barIds' = Bounded(Append(barIds, t), MaxBarIds)  \* _remember_closed_bar
            /\ points' = AppendPoint(points, Point(t))
    /\ UNCHANGED <<venue, book, bookAge>>

\* observe, AGG_TRADE and KLINE_UPDATE, as far as the price goes.
ObservePrice(p) ==
    /\ latest' = p /\ priceAge' = "fresh"
    /\ UNCHANGED <<venue, points, barIds, book, bookAge>>

\* observe, BBO: the quote and its midpoint, dated when it was seen.
ObserveBook(p, b) ==
    /\ latest' = p /\ priceAge' = "fresh"
    /\ book' = b /\ bookAge' = "fresh"
    /\ UNCHANGED <<venue, points, barIds>>

ObserverNext ==
    \/ Minute
    \/ Silence
    \/ \E t \in {now - 1, now} \cap 1..now : ObserveBar(t)
    \/ \E p \in Prices : ObservePrice(p)
    \/ \E p \in Prices, b \in Books \ {"missing"} : ObserveBook(p, b)

ObserverSpec == ObserverInit /\ [][ObserverNext]_observerVars

-----------------------------------------------------------------------------

ObserverTypeOK ==
    /\ venue \in Seq(Prices)
    /\ points \in Seq([at : Nat, price : Prices]) /\ Len(points) <= MaxPoints
    /\ barIds \in Seq(Nat) /\ Len(barIds) <= MaxBarIds
    /\ latest \in Prices \cup {None}
    /\ priceAge \in Ages /\ bookAge \in Ages /\ book \in Books

\* Bars that are lost, late or repeated leave gaps in the history but never bend it:
\* its points are in the order of time and each is the close the venue had then.
HistoryIsTrue ==
    \A i \in DOMAIN points :
        /\ points[i].price = venue[points[i].at]
        /\ i > 1 => points[i - 1].at < points[i].at

\* Evidence that calls itself qualified is measured: every return in it starts from a
\* close the market really had within the tolerance of its horizon, through all the gaps
\* in what was delivered, and those returns carry the weight that is asked for on both
\* scales while neither the price nor the book is stale.
QualifiedIsMeasured ==
    Quality(Returns) = "QUALIFIED" =>
      LET measured == {h \in DOMAIN Horizons :
                         /\ h \in DOMAIN Returns
                         /\ \E t \in 1..now :
                              /\ t <= now - Horizons[h].span
                              /\ t >= now - Horizons[h].span - Horizons[h].tol
                              /\ Returns[h] = venue[t]}
      IN  /\ DOMAIN Returns \subseteq measured
          /\ ~(Coverage([h \in measured |-> Returns[h]]) < MinCoverage)
          /\ "old" \notin {priceAge, bookAge}

\* The inductive invariant: every point is of a minute that has ended.
ObserverInv ==
    /\ ObserverTypeOK /\ HistoryIsTrue
    /\ \A i \in DOMAIN points : points[i].at \in 1..now
=============================================================================
