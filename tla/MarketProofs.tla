---------------------------- MODULE MarketProofs ----------------------------
(***************************************************************************)
(* The market data path, for every history, horizon, drift, page size and  *)
(* bound: each part keeps its inductive invariant, what the runs check of  *)
(* a state follows from it, and a behaviour of the composed system is one  *)
(* of every part.                                                          *)
(***************************************************************************)
EXTENDS MCMarketData

-----------------------------------------------------------------------------
\* The observer's history.

\* A point of the history.
PointOf == [at : Nat, price : Prices]

\* A history of the prices v, no longer than it may be.
IsHistory(ps, v) ==
    /\ ps \in Seq(PointOf) /\ Len(ps) <= MaxPoints
    /\ \A i \in 1..Len(ps) : ps[i].at \in 1..Len(v) /\ ps[i].price = v[ps[i].at]
    /\ \A i, j \in 1..Len(ps) : j = i + 1 => ps[i].at < ps[j].at

\* To drop the oldest element keeps the rest, and the bound.
LEMMA BoundedIsEnd ==
    ASSUME NEW S, NEW q \in Seq(S), NEW n \in Nat, n >= 1, Len(q) <= n + 1
    PROVE  LET r == Bounded(q, n)
           IN  /\ r \in Seq(S) /\ Len(r) <= n
               /\ \/ r = q
                  \/ /\ Len(q) = Len(r) + 1
                     /\ \A i \in 1..Len(r) : i + 1 \in 1..Len(q) /\ r[i] = q[i + 1]
  <1> DEFINE r == Bounded(q, n)
  <1>0. Len(q) \in Nat
    OBVIOUS
  <1>1. CASE Len(q) > n
    <2>1. r = Tail(q) /\ q # <<>>
      BY <1>1 DEF Bounded
    <2>2. /\ Tail(q) \in Seq(S) /\ Len(Tail(q)) = Len(q) - 1
          /\ \A i \in 1..Len(Tail(q)) : Tail(q)[i] = q[i + 1]
      BY <2>1, HeadTailProperties
    <2> HIDE DEF r
    <2>3. r \in Seq(S) /\ Len(r) = Len(q) - 1 /\ \A i \in 1..Len(r) : r[i] = q[i + 1]
      BY <2>1, <2>2
    <2>4. Len(r) \in Nat
      BY <2>3
    <2>5. ASSUME NEW i \in 1..Len(r) PROVE i + 1 \in 1..Len(q)
      BY <1>0, <2>3, <2>4
    <2>6. Len(r) <= n /\ Len(q) = Len(r) + 1
      BY <1>0, <2>3, <2>4
    <2> QED
      BY <2>3, <2>5, <2>6, Zenon DEF r
  <1>2. CASE ~(Len(q) > n)
    BY <1>0, <1>2 DEF Bounded
  <1> QED
    BY <1>1, <1>2

\* One more point keeps a history true, wherever in time it is.
LEMMA AppendPointIsTrue ==
    ASSUME NEW v, Len(v) \in Nat, NEW ps, IsHistory(ps, v),
           NEW p \in PointOf, p.at \in 1..Len(v), p.price = v[p.at]
    PROVE  IsHistory(AppendPoint(ps, p), v)
  <1> DEFINE l == Len(ps)
  <1>0. /\ ps \in Seq(PointOf) /\ l \in Nat /\ l <= MaxPoints /\ MaxPoints \in Nat /\ MaxPoints >= 1
        /\ DOMAIN ps = 1..l /\ p.at \in Int
        /\ \A i \in 1..l : ps[i].at \in 1..Len(v) /\ ps[i].price = v[ps[i].at]
        /\ \A i, j \in 1..l : j = i + 1 => ps[i].at < ps[j].at
    BY ObserverAssumption DEF IsHistory
  <1>1. CASE ps = <<>>
    <2>1. AppendPoint(ps, p) = <<p>>
      BY <1>1 DEF AppendPoint
    <2>2. IsHistory(<<p>>, v)
      BY <1>0 DEF IsHistory
    <2> QED
      BY <2>1, <2>2
  <1>2. CASE ps # <<>> /\ p.at < ps[l].at
    <2>1. AppendPoint(ps, p) = ps
      BY <1>2 DEF AppendPoint
    <2> QED
      BY <2>1
  <1>10. ps # <<>> => l \in 1..l /\ ps[l].at \in Int
    BY <1>0
  <1>3. CASE ps # <<>> /\ p.at = ps[l].at
    <2> DEFINE r == [ps EXCEPT ![l] = p]
    <2>1. AppendPoint(ps, p) = r
      BY <1>3, <1>10 DEF AppendPoint
    <2>2. /\ r \in Seq(PointOf) /\ Len(r) = l
          /\ \A i \in 1..l : r[i] = IF i = l THEN p ELSE ps[i]
      BY <1>0, <1>3, <1>10, ExceptSeq
    <2> HIDE DEF r, l
    <2>3. \A i \in 1..l : r[i].at = ps[i].at /\ r[i].at \in 1..Len(v) /\ r[i].price = v[r[i].at]
      BY <1>0, <1>3, <2>2
    <2>4. IsHistory(r, v)
      BY <1>0, <2>2, <2>3, Zenon DEF IsHistory
    <2> QED
      BY <2>1, <2>4
  <1>4. CASE ps # <<>> /\ ~(p.at < ps[l].at) /\ p.at # ps[l].at
    <2> DEFINE q == Append(ps, p)
               r == Bounded(q, MaxPoints)
    <2>1. AppendPoint(ps, p) = r
      BY <1>4, Zenon DEF AppendPoint
    <2>2. /\ q \in Seq(PointOf) /\ Len(q) = l + 1 /\ q[l + 1] = p
          /\ \A i \in 1..l : q[i] = ps[i]
      BY <1>0, AppendProperties
    <2>3. ps[l].at < p.at
      BY <1>0, <1>4, <1>10
    <2> HIDE DEF q, l
    <2>4. ASSUME NEW i \in 1..(l + 1), i # l + 1 PROVE i \in 1..l
      BY <1>0, <2>4
    <2>5. ASSUME NEW i \in 1..(l + 1) PROVE q[i].at \in 1..Len(v) /\ q[i].price = v[q[i].at]
      BY <1>0, <2>2, <2>4, Zenon
    <2>6. ASSUME NEW i \in 1..(l + 1), NEW j \in 1..(l + 1), j = i + 1 PROVE q[i].at < q[j].at
      <3>1. i # l + 1 /\ i \in 1..l
        BY <1>0, <2>6
      <3>2. CASE j = l + 1
        <4>1. i = l
          BY <1>0, <2>6, <3>2
        <4> QED
          BY <2>2, <2>3, <3>1, <3>2, <4>1
      <3>3. CASE j # l + 1
        BY <1>0, <2>2, <2>4, <2>6, <3>1, <3>3, Zenon
      <3> QED
        BY <3>2, <3>3
    <2>7. /\ r \in Seq(PointOf) /\ Len(r) <= MaxPoints
          /\ \/ r = q
             \/ /\ l + 1 = Len(r) + 1
                /\ \A i \in 1..Len(r) : i + 1 \in 1..(l + 1) /\ r[i] = q[i + 1]
      <3>1. Len(q) <= MaxPoints + 1
        BY <1>0, <2>2
      <3> QED
        BY <1>0, <2>2, <3>1, BoundedIsEnd, Zenon
    <2> HIDE DEF r
    <2>8. ASSUME r = q PROVE IsHistory(r, v)
      BY <2>2, <2>5, <2>6, <2>7, <2>8, Zenon DEF IsHistory
    <2>9. ASSUME \A i \in 1..Len(r) : i + 1 \in 1..(l + 1) /\ r[i] = q[i + 1] PROVE IsHistory(r, v)
      <3>1. \A i \in 1..Len(r) : r[i].at \in 1..Len(v) /\ r[i].price = v[r[i].at]
        BY <2>5, <2>9, Zenon
      <3>2. ASSUME NEW i \in 1..Len(r), NEW j \in 1..Len(r), j = i + 1 PROVE r[i].at < r[j].at
        <4>1. j + 1 = (i + 1) + 1
          BY <3>2
        <4>2. i + 1 \in 1..(l + 1) /\ j + 1 \in 1..(l + 1) /\ r[i] = q[i + 1] /\ r[j] = q[j + 1]
          BY <2>9, Zenon
        <4> QED
          BY <2>6, <4>1, <4>2, Zenon
      <3> QED
        BY <2>7, <3>1, <3>2, Zenon DEF IsHistory
    <2>10. IsHistory(r, v)
      BY <2>7, <2>8, <2>9, Zenon
    <2> QED
      BY <2>1, <2>10
  <1> QED
    BY <1>1, <1>2, <1>3, <1>4

\* So does the loop over the bars of the start.
LEMMA BootstrappedIsTrue ==
    ASSUME venue \in Seq(Prices), Len(venue) = Boot, NEW times \in SUBSET (1..Boot)
    PROVE  IsHistory(Bootstrapped(times), venue)
  <1> DEFINE V == {ps \in Seq(PointOf) : IsHistory(ps, venue)}
             next(ps, t) == IF t \in times THEN AppendPoint(ps, Point(t)) ELSE ps
             F(f) == [t \in 0..Boot |-> IF t = 0 THEN <<>>
                        ELSE IF t \in times THEN AppendPoint(f[t - 1], Point(t)) ELSE f[t - 1]]
             step == [t \in 1..Boot |-> [ps \in V |-> next(ps, t)]]
             g == CHOOSE f : f = F(f)
  <1>1. Boot \in Nat /\ <<>> \in V
    BY ObserverAssumption DEF IsHistory
  <1>2. ASSUME NEW ps \in V, NEW t \in 1..Boot PROVE next(ps, t) \in V
    <2>1. IsHistory(ps, venue)
      OBVIOUS
    <2>2. Point(t) \in PointOf /\ Point(t).at = t /\ Point(t).price = venue[t]
      <3>1. venue[t] \in Prices
        BY ElementOfSeq
      <3> QED
        BY <3>1 DEF Point, PointOf
    <2>3. IsHistory(AppendPoint(ps, Point(t)), venue)
      BY <1>1, <2>1, <2>2, AppendPointIsTrue
    <2>4. AppendPoint(ps, Point(t)) \in V
      BY <2>3, Zenon DEF IsHistory
    <2> HIDE DEF V
    <2> QED
      BY <2>4
  <1>11. \A ps \in V : IsHistory(ps, venue)
    OBVIOUS
  <1> HIDE DEF V
  <1>3. step \in [1..Boot -> [V -> V]]
    BY <1>2
  <1>4. PICK f \in [0..Boot -> V] : Unrolled(f, Boot, <<>>, step)
    <2> HIDE DEF step
    <2> QED
      BY <1>1, <1>3, RecursionExists
  <1>5. f = F(f)
    <2>1. ASSUME NEW i \in 1..Boot PROVE step[i][f[i - 1]] = next(f[i - 1], i)
      <3>1. i - 1 \in 0..Boot
        BY <1>1
      <3>2. f[i - 1] \in V
        BY <1>4, <3>1
      <3> HIDE DEF next
      <3> QED
        BY <3>2
    <2> HIDE DEF step
    <2>2. f = [i \in 0..Boot |-> IF i = 0 THEN <<>> ELSE step[i][f[i - 1]]]
      BY <1>4, Zenon DEF Unrolled
    <2>3. ASSUME NEW i \in 0..Boot PROVE f[i] = IF i = 0 THEN <<>> ELSE next(f[i - 1], i)
      <3>1. f[i] = IF i = 0 THEN <<>> ELSE step[i][f[i - 1]]
        BY <2>2
      <3>2. i # 0 => i \in 1..Boot
        BY <1>1
      <3> HIDE DEF next
      <3> QED
        BY <2>1, <3>1, <3>2
    <2>4. f = [i \in 0..Boot |-> IF i = 0 THEN <<>> ELSE next(f[i - 1], i)]
      <3> HIDE DEF next
      <3> QED
        BY <1>4, <2>3
    <2> QED
      BY <2>4, Zenon
  <1>6. g = F(g)
    BY <1>5, Zenon
  <1>7. Bootstrapped(times) = g[Boot]
    BY Zenon DEF Bootstrapped
  <1> HIDE DEF g
  <1>8. ASSUME NEW i \in 0..Boot PROVE g[i] = IF i = 0 THEN <<>> ELSE next(g[i - 1], i)
    BY <1>6
  <1> HIDE DEF next, F, step
  <1>9. Boot \in {i \in Nat : i <= Boot => g[i] \in V}
    <2> DEFINE R == {i \in Nat : i <= Boot => g[i] \in V}
    <2>1. 0 \in R
      <3>1. 0 \in 0..Boot
        BY <1>1
      <3> QED
        BY <1>1, <1>8, <3>1
    <2>2. ASSUME NEW i \in Nat, i \in R PROVE i + 1 \in R
      <3> SUFFICES ASSUME i + 1 <= Boot PROVE g[i + 1] \in V
        OBVIOUS
      <3>1. i + 1 \in 0..Boot /\ i + 1 # 0 /\ (i + 1) - 1 = i /\ g[i] \in V /\ i + 1 \in 1..Boot
        BY <2>2, <1>1
      <3>2. g[i + 1] = next(g[i], i + 1)
        BY <1>8, <3>1
      <3> QED
        BY <1>2, <3>1, <3>2
    <2>3. Nat \subseteq R
      <3> HIDE DEF R
      <3> QED
        BY <2>1, <2>2, InductionOn
    <2> QED
      BY <1>1, <2>3
  <1>10. g[Boot] \in V
    BY <1>1, <1>9
  <1> QED
    BY <1>11, <1>7, <1>10

\* In the words of the invariant.
LEMMA TrueIsHistory ==
    ASSUME IsHistory(points, venue), venue \in Seq(Prices)
    PROVE  /\ points \in Seq([at : Nat, price : Prices]) /\ Len(points) <= MaxPoints
           /\ HistoryIsTrue /\ \A i \in DOMAIN points : points[i].at \in 1..now
  <1>1. DOMAIN points = 1..Len(points) /\ Len(points) \in Nat
    BY DEF IsHistory
  <1>2. ASSUME NEW i \in DOMAIN points, i > 1 PROVE points[i - 1].at < points[i].at
    <2>1. i - 1 \in 1..Len(points) /\ i = (i - 1) + 1 /\ i \in 1..Len(points)
      BY <1>1, <1>2
    <2> QED
      BY <2>1, Zenon DEF IsHistory
  <1>3. HistoryIsTrue
    BY <1>1, <1>2, Zenon DEF HistoryIsTrue, IsHistory
  <1> QED
    BY <1>1, <1>3, Zenon DEF IsHistory, PointOf, now

\* The invariant says so of the points that are kept.
LEMMA HistoryMeansTrue == ObserverInv => IsHistory(points, venue)
  <1> SUFFICES ASSUME ObserverInv PROVE IsHistory(points, venue)
    OBVIOUS
  <1>1. DOMAIN points = 1..Len(points) /\ Len(points) \in Nat
    BY DEF ObserverInv, ObserverTypeOK
  <1>2. ASSUME NEW i \in 1..Len(points), NEW j \in 1..Len(points), j = i + 1
        PROVE  points[i].at < points[j].at
    <2>1. j > 1 /\ j - 1 = i /\ j \in DOMAIN points
      BY <1>1, <1>2
    <2> QED
      BY <2>1 DEF ObserverInv, HistoryIsTrue
  <1> QED
    BY <1>1, <1>2, Zenon DEF ObserverInv, ObserverTypeOK, HistoryIsTrue, IsHistory, PointOf, now

\* What the bars of the start leave is a history of what the venue closed at.
LEMMA ObserverInitially == ObserverInit => ObserverInv
  <1> SUFFICES ASSUME ObserverInit PROVE ObserverInv
    OBVIOUS
  <1>1. venue \in [1..Boot -> Prices] /\ Boot \in Nat
    BY ObserverAssumption, Zenon DEF ObserverInit
  <1>2. venue \in Seq(Prices) /\ Len(venue) = Boot
    <2>1. venue \in Seq(Prices)
      BY <1>1, SeqDef
    <2> QED
      BY <1>1, <2>1
  <1>3. PICK times \in SUBSET (1..Boot) : points = Bootstrapped(times)
    BY Zenon DEF ObserverInit
  <1>4. IsHistory(points, venue)
    BY <1>2, <1>3, BootstrappedIsTrue, Zenon
  <1>5. /\ points \in Seq([at : Nat, price : Prices]) /\ Len(points) <= MaxPoints
        /\ HistoryIsTrue /\ \A i \in DOMAIN points : points[i].at \in 1..now
    BY <1>2, <1>4, TrueIsHistory, Zenon
  <1>6. latest \in Prices \cup {None}
    <2>1. latest = IF points = <<>> THEN None ELSE points[Len(points)].price
      BY Zenon DEF ObserverInit
    <2>2. CASE points # <<>>
      <3>1. Len(points) \in 1..Len(points)
        BY <1>5, <2>2
      <3>2. points[Len(points)] \in [at : Nat, price : Prices]
        BY <1>5, <3>1, ElementOfSeq, Zenon
      <3> QED
        BY <2>1, <2>2, <3>2
    <2> QED
      BY <2>1, <2>2
  <1>7. /\ barIds = <<>> /\ priceAge = "never" /\ bookAge = "never" /\ book = "missing"
    BY Zenon DEF ObserverInit
  <1>8. /\ barIds \in Seq(Nat) /\ Len(barIds) <= MaxBarIds
        /\ priceAge \in Ages /\ bookAge \in Ages /\ book \in Books
    BY <1>7, ObserverAssumption DEF Ages, Books
  <1> QED
    BY <1>2, <1>5, <1>6, <1>8, Zenon DEF ObserverInv, ObserverTypeOK

\* Bars that come late, twice or never leave the history one.
LEMMA ObserverStep == ObserverInv /\ [ObserverNext]_observerVars => ObserverInv'
  <1> SUFFICES ASSUME ObserverInv, [ObserverNext]_observerVars PROVE ObserverInv'
    OBVIOUS
  <1>0. /\ venue \in Seq(Prices) /\ Len(venue) \in Nat
        /\ barIds \in Seq(Nat) /\ Len(barIds) <= MaxBarIds /\ MaxBarIds \in Nat /\ MaxBarIds >= 1
        /\ latest \in Prices \cup {None} /\ priceAge \in Ages /\ bookAge \in Ages /\ book \in Books
    BY ObserverAssumption DEF ObserverInv, ObserverTypeOK
  <1>1. IsHistory(points, venue)
    BY HistoryMeansTrue
  <1>2. ASSUME venue' \in Seq(Prices), IsHistory(points', venue'),
               barIds' \in Seq(Nat), Len(barIds') <= MaxBarIds,
               latest' \in Prices \cup {None}, priceAge' \in Ages, bookAge' \in Ages, book' \in Books
        PROVE  ObserverInv'
    <2>1. (IsHistory(points, venue) /\ venue \in Seq(Prices) =>
             /\ points \in Seq([at : Nat, price : Prices]) /\ Len(points) <= MaxPoints
             /\ HistoryIsTrue /\ \A i \in DOMAIN points : points[i].at \in 1..now)'
      BY TrueIsHistory, PTL
    <2>2. (IsHistory(points, venue) /\ venue \in Seq(Prices))'
      BY <1>2
    <2> QED
      BY <1>2, <2>1, <2>2, Zenon DEF ObserverInv, ObserverTypeOK
  <1>3. CASE Minute
    <2>1. /\ UNCHANGED <<points, barIds, latest, book>>
          /\ priceAge' = (IF priceAge = "never" THEN "never" ELSE "old")
          /\ bookAge' = (IF bookAge = "never" THEN "never" ELSE "old")
      BY <1>3, Zenon DEF Minute
    <2>2. PICK p \in Prices : venue' = Append(venue, p)
      BY <1>3, Zenon DEF Minute
    <2>3. /\ venue' \in Seq(Prices) /\ Len(venue') = Len(venue) + 1
          /\ \A i \in 1..Len(venue) : venue'[i] = venue[i]
      BY <1>0, <2>2, AppendProperties
    <2>4. \A t \in 1..Len(venue) : t \in 1..Len(venue')
      BY <1>0, <2>3
    <2>5. \A i \in 1..Len(points) :
            points[i].at \in 1..Len(venue') /\ points[i].price = venue'[points[i].at]
      BY <1>1, <2>3, <2>4, Zenon DEF IsHistory
    <2>6. IsHistory(points', venue')
      BY <1>1, <2>1, <2>5, Zenon DEF IsHistory
    <2>7. priceAge' \in Ages /\ bookAge' \in Ages
      BY <2>1 DEF Ages
    <2> QED
      BY <1>0, <1>2, <2>1, <2>3, <2>6, <2>7, Zenon
  <1>4. CASE Silence
    <2>1. UNCHANGED <<venue, points, barIds, latest, book>>
      BY <1>4, Zenon DEF Silence
    <2>2. priceAge' \in Ages /\ bookAge' \in Ages
      <3>1. PICK a \in Grow(priceAge), b \in Grow(bookAge) : priceAge' = a /\ bookAge' = b
        BY <1>4, Zenon DEF Silence
      <3>2. Grow(priceAge) \subseteq Ages /\ Grow(bookAge) \subseteq Ages
        BY <1>0 DEF Grow, Ages
      <3> QED
        BY <3>1, <3>2, Zenon
    <2> QED
      BY <1>0, <1>1, <1>2, <2>1, <2>2, Zenon
  <1>5. ASSUME NEW t \in {now - 1, now} \cap 1..now, ObserveBar(t) PROVE ObserverInv'
    <2>0. t \in 1..Len(venue) /\ t \in Nat
      BY <1>0 DEF now
    <2>1. latest' = venue[t] /\ priceAge' = "fresh" /\ UNCHANGED <<venue, book, bookAge>>
      BY <1>5, Zenon DEF ObserveBar
    <2>2. venue[t] \in Prices
      BY <1>0, <2>0, ElementOfSeq, Zenon
    <2>3. \/ UNCHANGED <<points, barIds>>
          \/ /\ barIds' = Bounded(Append(barIds, t), MaxBarIds)
             /\ points' = AppendPoint(points, Point(t))
      BY <1>5, Zenon DEF ObserveBar
    <2>4. barIds' \in Seq(Nat) /\ Len(barIds') <= MaxBarIds
      <3>1. Append(barIds, t) \in Seq(Nat) /\ Len(Append(barIds, t)) = Len(barIds) + 1 /\ Len(barIds) \in Nat
        BY <1>0, <2>0, AppendProperties
      <3>2. Len(Append(barIds, t)) <= MaxBarIds + 1
        BY <1>0, <3>1
      <3> DEFINE q == Append(barIds, t)
      <3> HIDE DEF q
      <3>3. Bounded(q, MaxBarIds) \in Seq(Nat) /\ Len(Bounded(q, MaxBarIds)) <= MaxBarIds
        BY <1>0, <3>1, <3>2, BoundedIsEnd DEF q
      <3> QED
        BY <1>0, <2>3, <3>3 DEF q
    <2>5. IsHistory(points', venue')
      <3>1. Point(t) \in PointOf /\ Point(t).at = t /\ Point(t).price = venue[t]
        BY <2>0, <2>2 DEF Point, PointOf
      <3>2. IsHistory(AppendPoint(points, Point(t)), venue)
        BY <1>0, <1>1, <2>0, <3>1, AppendPointIsTrue
      <3> QED
        BY <1>1, <2>1, <2>3, <3>2, Zenon
    <2>6. priceAge' \in Ages
      BY <2>1 DEF Ages
    <2> QED
      BY <1>0, <1>2, <2>1, <2>2, <2>4, <2>5, <2>6, Zenon
  <1>6. ASSUME NEW p \in Prices,
               ObservePrice(p) \/ \E b \in Books \ {"missing"} : ObserveBook(p, b)
        PROVE  ObserverInv'
    <2>1. latest' = p /\ priceAge' = "fresh" /\ UNCHANGED <<venue, points, barIds>>
      BY <1>6, Zenon DEF ObservePrice, ObserveBook
    <2>2. book' \in Books /\ bookAge' \in Ages
      BY <1>0, <1>6 DEF ObservePrice, ObserveBook, Ages
    <2>3. priceAge' \in Ages
      BY <2>1 DEF Ages
    <2> QED
      BY <1>0, <1>1, <1>2, <2>1, <2>2, <2>3, Zenon
  <1>7. CASE UNCHANGED observerVars
    BY <1>0, <1>1, <1>2, <1>7, Zenon DEF observerVars
  <1> QED
    BY <1>3, <1>4, <1>5, <1>6, <1>7, Zenon DEF ObserverNext

\* A return starts from a close that the market had within the tolerance.
LEMMA PriceIsMeasured ==
    ASSUME ObserverInv, NEW target \in Int, NEW tol \in Nat, PriceAt(target, tol) # None
    PROVE  \E t \in 1..now : /\ t <= target /\ t >= target - tol
                             /\ PriceAt(target, tol) = venue[t]
  <1> DEFINE before == {i \in DOMAIN points : points[i].at <= target}
             newest == CHOOSE i \in before : \A j \in before : j <= i
  <1>1. before # {} /\ target - points[newest].at <= tol
        /\ PriceAt(target, tol) = points[newest].price
    BY Zenon DEF PriceAt
  <1>2. DOMAIN points = 1..Len(points) /\ Len(points) \in Nat
    BY DEF ObserverInv, ObserverTypeOK
  <1>3. newest \in before
    <2>0. IsFiniteSet(1..Len(points))
      BY <1>2, FS_Interval
    <2>1. IsFiniteSet(1..Len(points)) /\ before \in SUBSET (1..Len(points)) /\ before \subseteq Int
      <3>1. before \subseteq 1..Len(points)
        BY <1>2
      <3> QED
        BY <1>2, <2>0, <3>1
    <2>2. IsFiniteSet(before)
      BY <2>1, FS_Subset
    <2> HIDE DEF before
    <2>3. PICK i \in before : \A j \in before : i >= j
      BY <1>1, <2>1, <2>2, GreatestExists, Zenon
    <2>4. \A j \in before : j <= i
      BY <2>1, <2>3
    <2> QED
      BY <2>4, Zenon
  <1> HIDE DEF newest
  <1>4. newest \in DOMAIN points /\ points[newest].at <= target
    BY <1>3
  <1>5. points[newest].at \in 1..now /\ points[newest].price = venue[points[newest].at]
    BY <1>4, Zenon DEF ObserverInv, HistoryIsTrue
  <1> DEFINE t == points[newest].at
  <1>6. now \in Nat
    BY DEF ObserverInv, ObserverTypeOK, now
  <1>7. t \in 1..now /\ t \in Int /\ t <= target /\ target - t <= tol /\ PriceAt(target, tol) = venue[t]
    BY <1>1, <1>4, <1>5, <1>6
  <1> HIDE DEF t
  <1>8. t >= target - tol
    BY <1>7
  <1> QED
    BY <1>7, <1>8, Zenon

\* Evidence that calls itself qualified is measured.
LEMMA ObserverFollows == ObserverInv => HistoryIsTrue /\ QualifiedIsMeasured
  <1> SUFFICES ASSUME ObserverInv, Quality(Returns) = "QUALIFIED"
               PROVE  QualifiedIsMeasured
    BY Zenon DEF ObserverInv, QualifiedIsMeasured
  <1> DEFINE Real(h) == \E t \in 1..now :
                          /\ t <= now - Horizons[h].span
                          /\ t >= now - Horizons[h].span - Horizons[h].tol
                          /\ Returns[h] = venue[t]
             measured == {h \in DOMAIN Horizons : h \in DOMAIN Returns /\ Real(h)}
  <1>1. priceAge = "fresh" /\ bookAge = "fresh" /\ ~(Coverage(Returns) < MinCoverage)
    BY DEF Quality
  <1>2. ASSUME NEW h \in DOMAIN Returns PROVE h \in measured
    <2> DEFINE target == now - Horizons[h].span
               tol == Horizons[h].tol
    <2>1. h \in DOMAIN Horizons /\ PriceAt(target, tol) # None /\ Returns[h] = PriceAt(target, tol)
      BY DEF Returns
    <2>2. target \in Int /\ tol \in Nat
      <3>1. now \in Nat
        BY DEF ObserverInv, ObserverTypeOK, now
      <3>2. Horizons[h] \in [span : Nat, tol : Nat, tactical : Nat, structural : Nat]
        BY <2>1, ObserverAssumption, Zenon
      <3> QED
        BY <3>1, <3>2
    <2> HIDE DEF target, tol
    <2>3. \E t \in 1..now : /\ t <= target /\ t >= target - tol
                            /\ PriceAt(target, tol) = venue[t]
      BY <2>1, <2>2, PriceIsMeasured, Zenon
    <2>4. Real(h)
      BY <2>1, <2>3, Zenon DEF target, tol
    <2> HIDE DEF Real
    <2> QED
      BY <2>1, <2>4, Zenon
  <1>3. measured = DOMAIN Returns
    <2> HIDE DEF Real
    <2> QED
      BY <1>2, Zenon
  <1>4. [h \in DOMAIN Returns |-> Returns[h]] = Returns
    BY DEF Returns
  <1>5. "old" \notin {priceAge, bookAge}
    BY <1>1
  <1>6. Coverage([h \in measured |-> Returns[h]]) = Coverage(Returns)
    <2> HIDE DEF measured
    <2> QED
      BY <1>3, <1>4, Zenon
  <1> QED
    BY <1>1, <1>3, <1>5, <1>6, Zenon DEF QualifiedIsMeasured

-----------------------------------------------------------------------------
\* The trades that are summed.

\* No trade has happened at the start.
LEMMA FlowInitially == FlowInit => FlowInv
  <1> SUFFICES ASSUME FlowInit PROVE FlowInv
    OBVIOUS
  <1>1. clock = 0 /\ dated = <<>> /\ told = {} /\ flow = <<>> /\ memory = <<>>
    BY Zenon DEF FlowInit
  <1> QED
    BY <1>1, FlowAssumption DEF FlowInv, FlowTypeOK, Climbs

\* What is left of a queue is its end, from the first trade that is young enough.
LEMMA TrimIsTheEnd ==
    ASSUME NEW q \in Seq(1..Trades), NEW at
    PROVE  \/ Trim(q, at) = <<>>
           \/ \E n \in 1..Len(q) : /\ Trim(q, at) = SubSeq(q, n, Len(q))
                                   /\ dated[q[n]] >= at - Window
  <1> DEFINE stays(n) == dated[q[n]] >= at - Window
             first == {n \in DOMAIN q : stays(n) /\ \A k \in 1..(n - 1) : ~stays(k)}
  <1>1. CASE first = {}
    BY <1>1, Zenon DEF Trim
  <1>2. CASE first # {}
    <2> DEFINE n == CHOOSE n \in first : TRUE
    <2>1. n \in first
      BY <1>2, Zenon
    <2>2. n \in DOMAIN q /\ stays(n)
      BY <2>1, Zenon
    <2>3. n \in 1..Len(q)
      <3> HIDE DEF n
      <3> QED
        BY <2>2
    <2>4. Trim(q, at) = SubSeq(q, n, Len(q))
      BY <1>2, Zenon DEF Trim
    <2> HIDE DEF n
    <2> QED
      BY <2>2, <2>3, <2>4, Zenon
  <1> QED
    BY <1>1, <1>2, Zenon

\* Trimming keeps the order and adds nothing.
LEMMA TrimClimbs ==
    ASSUME NEW q \in Seq(1..Trades), NEW at, Climbs(q)
    PROVE  /\ Trim(q, at) \in Seq(1..Trades) /\ Climbs(Trim(q, at))
           /\ \A i \in 1..Len(Trim(q, at)) : \E j \in 1..Len(q) : Trim(q, at)[i] = q[j]
  <1>1. CASE Trim(q, at) = <<>>
    BY <1>1 DEF Climbs
  <1>2. CASE \E n \in 1..Len(q) : Trim(q, at) = SubSeq(q, n, Len(q))
    <2>1. PICK n \in 1..Len(q) : Trim(q, at) = SubSeq(q, n, Len(q))
      BY <1>2
    <2> DEFINE s == SubSeq(q, n, Len(q))
    <2>2. s \in Seq(1..Trades) /\ Len(s) = Len(q) - n + 1
          /\ \A i \in 1..Len(s) : i + n - 1 \in 1..Len(q) /\ s[i] = q[i + n - 1]
      <3>0. Len(q) \in Int /\ n \in Int /\ 1 <= n /\ n <= Len(q) /\ Len(q) <= Len(q)
        OBVIOUS
      <3> QED
        BY <3>0, PartOfList, Zenon
    <2>3. Climbs(s)
      <3> SUFFICES ASSUME NEW i \in 1..Len(s), NEW j \in 1..Len(s), i < j PROVE s[i] < s[j]
        BY Zenon DEF Climbs
      <3> HIDE DEF s
      <3>1. i + n - 1 \in 1..Len(q) /\ j + n - 1 \in 1..Len(q) /\ i + n - 1 < j + n - 1
        BY <2>2
      <3>2. s[i] = q[i + n - 1] /\ s[j] = q[j + n - 1]
        BY <2>2, Zenon
      <3>3. q[i + n - 1] < q[j + n - 1]
        BY <3>1, Zenon DEF Climbs
      <3> QED
        BY <3>2, <3>3, Zenon
    <2> HIDE DEF s
    <2>4. Trim(q, at) = s
      BY <2>1 DEF s
    <2>5. ASSUME NEW i \in 1..Len(s) PROVE \E j \in 1..Len(q) : s[i] = q[j]
      BY <2>2, Zenon
    <2> QED
      BY <2>2, <2>3, <2>4, <2>5, Zenon
  <1> QED
    BY <1>1, <1>2, TrimIsTheEnd, Zenon

\* A repeated trade is still remembered: there are not enough newer ones to push it out.
LEMMA RepeatedIsRemembered ==
    ASSUME FlowInv, NEW i \in told, Cardinality({j \in told : j > i}) < MaxIds
    PROVE  \E n \in 1..Len(memory) : memory[n] = i
  <1> SUFFICES ASSUME ~ \E n \in 1..Len(memory) : memory[n] = i PROVE FALSE
    OBVIOUS
  <1> DEFINE newer == {j \in told : j > i}
             held == {memory[n] : n \in 1..Len(memory)}
  <1>1. Len(memory) = MaxIds /\ \A n \in 1..Len(memory) : i < memory[n]
    BY DEF FlowInv
  <1>2. held \subseteq newer
    <2>0. told \subseteq Int /\ i \in told
      BY DEF FlowInv, FlowTypeOK
    <2>1. \A n \in 1..Len(memory) : memory[n] \in told /\ memory[n] \in Int
      BY <2>0, Zenon DEF FlowInv
    <2>2. i \in Int
      BY DEF FlowInv, FlowTypeOK
    <2>3. ASSUME NEW n \in 1..Len(memory) PROVE memory[n] \in newer
      BY <1>1, <2>1
    <2> QED
      BY <2>3, Zenon
  <1>3. IsFiniteSet(newer)
    <2>1. told \subseteq 1..Trades
      BY DEF FlowInv, FlowTypeOK
    <2>2. IsFiniteSet(1..Trades)
      BY FS_Interval, FlowAssumption
    <2>3. newer \in SUBSET (1..Trades)
      BY <2>1
    <2> QED
      BY <2>2, <2>3, FS_Subset
  <1>4. Cardinality(held) = Len(memory)
    <2>0. Len(memory) \in Nat /\ memory \in Seq(1..Trades)
      BY DEF FlowInv, FlowTypeOK
    <2>2. \A m, n \in 1..Len(memory) : memory[m] = memory[n] => m = n
      <3> SUFFICES ASSUME NEW m \in 1..Len(memory), NEW n \in 1..Len(memory),
                          memory[m] = memory[n], m # n
                   PROVE  FALSE
        OBVIOUS
      <3>0. m \in Int /\ n \in Int /\ m # n
        OBVIOUS
      <3>1. m < n \/ n < m
        BY ONLY <3>0
      <3>2. memory[m] < memory[n] \/ memory[n] < memory[m]
        BY <3>1, Zenon DEF FlowInv, Climbs
      <3>3. memory[m] \in 1..Trades /\ memory[m] = memory[n]
        BY <2>0, ElementOfSeq, Zenon
      <3> QED
        BY ONLY <3>2, <3>3
    <2> QED
      BY <2>0, <2>2, DistinctPlaces, Zenon
  <1>5. Cardinality(held) <= Cardinality(newer)
    <2>1. held \in SUBSET newer
      BY <1>2, Zenon
    <2> HIDE DEF held, newer
    <2> QED
      BY <1>3, <2>1, FS_Subset
  <1> QED
    <2>1. Cardinality(newer) \in Nat
      BY <1>3, FS_CardinalityType
    <2> HIDE DEF held, newer
    <2>2. Cardinality(newer) < MaxIds
      BY DEF newer
    <2> QED
      BY <1>1, <1>4, <1>5, <2>1, <2>2, FlowAssumption

\* Remembering a newer trade keeps the memory in order and of the newest.
LEMMA RememberNewer ==
    ASSUME FlowInv, NEW i \in 1..Trades, \A j \in told : j < i
    PROVE  LET new == Remember(memory, i)
           IN  /\ new \in Seq(1..Trades) /\ Len(new) <= MaxIds /\ Climbs(new)
               /\ \A n \in 1..Len(new) : new[n] \in told \cup {i}
               /\ \A t \in told \cup {i} :
                    \/ \E n \in 1..Len(new) : new[n] = t
                    \/ Len(new) = MaxIds /\ \A n \in 1..Len(new) : t < new[n]
  <1> DEFINE m == memory
             new == Remember(memory, i)
             l == Len(m)
  <1>0. /\ m \in Seq(1..Trades) /\ l \in Nat /\ l <= MaxIds /\ MaxIds \in Nat /\ MaxIds >= 1
        /\ told \subseteq Int /\ i \in Int
    BY FlowAssumption DEF FlowInv, FlowTypeOK
  <1>1. /\ \A a, b \in 1..l : a < b => m[a] < m[b]
        /\ \A a \in 1..l : m[a] \in told
        /\ \A t \in told : \/ \E a \in 1..l : m[a] = t
                           \/ l = MaxIds /\ \A a \in 1..l : t < m[a]
    BY Zenon DEF FlowInv, Climbs
  <1>2. \A a \in 1..l : m[a] \in Int /\ m[a] < i
    BY <1>0, <1>1, Zenon
  <1>3. CASE l = MaxIds
    <2>1. new = Append(Tail(m), i) /\ m # <<>>
      BY <1>0, <1>3 DEF Remember
    <2>2. Tail(m) \in Seq(1..Trades) /\ Len(Tail(m)) = l - 1
          /\ \A n \in 1..Len(Tail(m)) : Tail(m)[n] = m[n + 1]
      BY <1>0, <2>1, HeadTailProperties
    <2> DEFINE r == Tail(m)
    <2> HIDE DEF r, m, l
    <2>3. /\ Append(r, i) \in Seq(1..Trades) /\ Len(Append(r, i)) = Len(r) + 1
          /\ Append(r, i)[Len(r) + 1] = i
          /\ \A n \in 1..Len(r) : Append(r, i)[n] = r[n]
      BY <2>2, AppendProperties DEF r
    <2>4. Len(r) = l - 1
      BY <2>2 DEF r
    <2>5. new = Append(r, i)
      BY <2>1 DEF r, m
    <2> HIDE DEF new
    <2>6. new \in Seq(1..Trades) /\ Len(new) = l /\ l >= 1 /\ new[l] = i
      BY <1>0, <1>3, <2>3, <2>4, <2>5
    <2>7. ASSUME NEW n \in 1..l, n # l PROVE n + 1 \in 1..l /\ new[n] = m[n + 1]
      <3>1. n \in 1..Len(r) /\ n + 1 \in 1..l
        BY <1>0, <2>4, <2>7
      <3>2. Append(r, i)[n] = r[n] /\ r[n] = m[n + 1]
        BY <2>2, <2>3, <3>1, Zenon DEF r
      <3> QED
        BY <2>5, <3>1, <3>2
    <2>8. ASSUME NEW a \in 1..l, NEW b \in 1..l, a < b PROVE new[a] < new[b]
      <3>1. a # l /\ a + 1 \in 1..l /\ new[a] = m[a + 1] /\ m[a + 1] < i
        BY <1>0, <1>2, <2>7, <2>8
      <3>2. CASE b = l
        BY <2>6, <3>1, <3>2
      <3>3. CASE b # l
        <4>1. b + 1 \in 1..l /\ new[b] = m[b + 1] /\ a + 1 < b + 1
          BY <2>7, <2>8, <3>3
        <4> QED
          BY <1>1, <3>1, <4>1
      <3> QED
        BY <3>2, <3>3
    <2>9. ASSUME NEW n \in 1..l PROVE new[n] \in told \cup {i} /\ (n # l => new[n] \in told)
      BY <1>1, <2>6, <2>7, Zenon
    <2>10. ASSUME NEW t \in told \cup {i}
           PROVE  \/ \E n \in 1..l : new[n] = t
                  \/ \A n \in 1..l : t < new[n]
      <3>1. CASE t = i
        BY <2>6, <3>1
      <3>2. CASE \E a \in 1..l : m[a] = t /\ a # 1
        <4>1. PICK a \in 1..l : m[a] = t /\ a # 1
          BY <3>2
        <4>2. a - 1 \in 1..l /\ a - 1 # l /\ (a - 1) + 1 = a
          BY <1>0, <4>1
        <4>3. new[a - 1] = t
          BY <2>7, <4>1, <4>2
        <4> QED
          BY <4>2, <4>3
      <3>3. CASE t # i /\ ((\A a \in 1..l : t < m[a]) \/ t = m[1])
        <4>1. t \in Int /\ 1 \in 1..l
          BY <1>0, <2>6, <3>3
        <4>2. ASSUME NEW n \in 1..l PROVE t < new[n]
          <5>1. CASE n = l
            BY <1>0, <2>6, <3>3, <5>1
          <5>2. CASE n # l
            <6>1. n + 1 \in 1..l /\ new[n] = m[n + 1] /\ 1 < n + 1
              BY <2>7, <5>2
            <6>2. m[1] < m[n + 1]
              BY <1>1, <4>1, <6>1
            <6> QED
              BY <3>3, <6>1, <6>2
          <5> QED
            BY <5>1, <5>2
        <4> QED
          BY <4>2
      <3> QED
        BY <1>1, <3>1, <3>2, <3>3, Zenon
    <2> QED
      BY <1>0, <1>3, <2>6, <2>8, <2>9, <2>10, Zenon DEF Climbs, new, m, l
  <1>4. CASE l # MaxIds
    <2>1. new = Append(m, i)
      BY <1>4 DEF Remember
    <2> HIDE DEF m
    <2>2. /\ Append(m, i) \in Seq(1..Trades) /\ Len(Append(m, i)) = l + 1
          /\ Append(m, i)[l + 1] = i
          /\ \A n \in 1..l : Append(m, i)[n] = m[n]
      BY <1>0, AppendProperties
    <2> HIDE DEF new, l
    <2>3. new \in Seq(1..Trades) /\ Len(new) = l + 1 /\ new[l + 1] = i /\ l + 1 <= MaxIds
      BY <1>0, <1>4, <2>1, <2>2
    <2>4. ASSUME NEW n \in 1..(l + 1), n # l + 1 PROVE n \in 1..l /\ new[n] = m[n]
      BY <1>0, <2>1, <2>2, <2>4
    <2>5. ASSUME NEW a \in 1..(l + 1), NEW b \in 1..(l + 1), a < b PROVE new[a] < new[b]
      <3>1. a # l + 1
        BY <1>0, <2>5
      <3> QED
        BY <1>1, <1>2, <2>3, <2>4, <2>5, <3>1
    <2>6. ASSUME NEW n \in 1..(l + 1) PROVE new[n] \in told \cup {i}
      BY <1>1, <2>3, <2>4, Zenon
    <2>7. ASSUME NEW t \in told \cup {i} PROVE \E n \in 1..(l + 1) : new[n] = t
      <3>1. \A n \in 1..l : n \in 1..(l + 1) /\ n # l + 1
        BY <1>0
      <3>2. l + 1 \in 1..(l + 1)
        BY <1>0
      <3> QED
        BY <1>1, <1>4, <2>3, <2>4, <3>1, <3>2, Zenon
    <2> QED
      BY <2>3, <2>5, <2>6, <2>7, Zenon DEF Climbs, new
  <1> QED
    BY <1>3, <1>4

\* A queue that climbs still does when a newer trade joins it.
LEMMA JoinsInOrder ==
    ASSUME NEW q \in Seq(1..Trades), NEW i \in 1..Trades, Climbs(q), \A n \in 1..Len(q) : q[n] < i
    PROVE  /\ Append(q, i) \in Seq(1..Trades) /\ Climbs(Append(q, i))
           /\ \A n \in 1..Len(Append(q, i)) :
                Append(q, i)[n] = i \/ \E k \in 1..Len(q) : Append(q, i)[n] = q[k]
  <1> DEFINE r == Append(q, i)
             l == Len(q)
  <1>1. /\ r \in Seq(1..Trades) /\ Len(r) = l + 1 /\ r[l + 1] = i
        /\ \A n \in 1..l : r[n] = q[n]
    BY AppendProperties
  <1>2. l \in Nat /\ i \in Int
    OBVIOUS
  <1> HIDE DEF r, l
  <1>3. ASSUME NEW n \in 1..(l + 1), n # l + 1 PROVE n \in 1..l
    BY <1>2, <1>3
  <1>4. ASSUME NEW a \in 1..Len(r), NEW b \in 1..Len(r), a < b PROVE r[a] < r[b]
    <2>1. a \in 1..l
      BY <1>1, <1>2, <1>4
    <2>2. CASE b = l + 1
      BY <1>1, <2>1, <2>2 DEF l
    <2>3. CASE b # l + 1
      <3>1. b \in 1..l
        BY <1>1, <1>3, <2>3
      <3> QED
        BY <1>1, <1>4, <2>1, <3>1, Zenon DEF Climbs, l
    <2> QED
      BY <2>2, <2>3
  <1>5. ASSUME NEW n \in 1..Len(r) PROVE r[n] = i \/ \E k \in 1..l : r[n] = q[k]
    BY <1>1, <1>3, Zenon
  <1> QED
    BY <1>1, <1>4, <1>5, Zenon DEF Climbs, r, l

\* Every step keeps what is remembered and summed in order.
LEMMA FlowStep == FlowInv /\ [FlowNext]_flowVars => FlowInv'
  <1> SUFFICES ASSUME FlowInv, [FlowNext]_flowVars PROVE FlowInv'
    OBVIOUS
  <1> USE FlowAssumption
  <1>0. /\ clock \in 0..FlowTime /\ told \subseteq 1..Trades /\ told \subseteq 1..Len(dated)
        /\ dated \in Seq(0..FlowTime) /\ flow \in Seq(1..Trades) /\ memory \in Seq(1..Trades)
        /\ Len(memory) <= MaxIds /\ Len(dated) <= Trades
        /\ Climbs(flow) /\ \A i \in 1..Len(flow) : flow[i] \in told
    BY DEF FlowInv, FlowTypeOK
  <1>1. CASE FlowTick
    <2>1. clock' = clock + 1 /\ clock < FlowTime /\ UNCHANGED <<dated, told, flow, memory>>
      BY <1>1, Zenon DEF FlowTick
    <2>2. ASSUME NEW i \in 1..Len(dated) PROVE dated[i] <= clock + 1
      <3>1. dated[i] <= clock /\ dated[i] \in Int /\ clock \in Int
        BY <1>0 DEF FlowInv
      <3> QED
        BY <3>1
    <2> QED
      BY <2>1, <2>2 DEF FlowInv, FlowTypeOK, Climbs
  <1>2. CASE Trade
    <2>1. Len(dated) < Trades /\ dated' = Append(dated, clock) /\ UNCHANGED <<clock, told, flow, memory>>
      BY <1>2, Zenon DEF Trade
    <2> DEFINE l == Len(dated)
    <2>2. /\ dated' \in Seq(0..FlowTime) /\ Len(dated') = l + 1 /\ dated'[l + 1] = clock
          /\ \A i \in 1..l : dated'[i] = dated[i]
      BY <1>0, <2>1, AppendProperties
    <2>3. l \in Nat /\ l < Trades /\ clock \in Int /\ told \subseteq 1..l
          /\ (\A i \in 1..l : dated[i] <= clock)
          /\ (\A i, j \in 1..l : i < j => dated[i] <= dated[j])
      BY <1>0, <2>1 DEF FlowInv
    <2> HIDE DEF l
    <2>4. ASSUME NEW i \in 1..(l + 1) PROVE dated'[i] <= clock /\ (i # l + 1 => i \in 1..l)
      BY <2>2, <2>3
    <2>5. ASSUME NEW i \in 1..(l + 1), NEW j \in 1..(l + 1), i < j PROVE dated'[i] <= dated'[j]
      <3>1. i \in 1..l
        BY <2>3, <2>5
      <3>2. CASE j = l + 1
        BY <2>2, <2>4, <3>2
      <3>3. CASE j # l + 1
        BY <2>2, <2>3, <2>4, <2>5, <3>1, <3>3
      <3> QED
        BY <3>2, <3>3
    <2>6. Len(dated') <= Trades /\ told' \subseteq 1..Len(dated')
      BY <2>1, <2>2, <2>3
    <2>7. FlowTypeOK'
      BY <1>0, <2>1, <2>2 DEF FlowTypeOK
    <2>8. (\A i \in 1..Len(dated) : dated[i] <= clock)'
      BY <2>1, <2>2, <2>4
    <2>9. (\A i, j \in 1..Len(dated) : i < j => dated[i] <= dated[j])'
      BY <2>2, <2>5
    <2>10. (/\ Climbs(flow) /\ \A i \in 1..Len(flow) : flow[i] \in told
            /\ Climbs(memory) /\ \A i \in 1..Len(memory) : memory[i] \in told
            /\ \A t \in told : \/ \E i \in 1..Len(memory) : memory[i] = t
                               \/ Len(memory) = MaxIds /\ \A i \in 1..Len(memory) : t < memory[i])'
      BY <2>1, Zenon DEF FlowInv, Climbs
    <2> QED
      BY <2>6, <2>7, <2>8, <2>9, <2>10, Zenon DEF FlowInv
  <1>3. CASE Imbalance
    <2>1. flow' = Trim(flow, clock) /\ UNCHANGED <<clock, dated, told, memory>>
      BY <1>3, Zenon DEF Imbalance, Summed
    <2>2. flow' \in Seq(1..Trades) /\ Climbs(flow')
          /\ \A i \in 1..Len(flow') : \E j \in 1..Len(flow) : flow'[i] = flow[j]
      <3>1. /\ Trim(flow, clock) \in Seq(1..Trades) /\ Climbs(Trim(flow, clock))
            /\ \A i \in 1..Len(Trim(flow, clock)) :
                 \E j \in 1..Len(flow) : Trim(flow, clock)[i] = flow[j]
        BY <1>0, TrimClimbs
      <3> QED
        BY <2>1, <3>1, Zenon
    <2>3. \A i \in 1..Len(flow') : flow'[i] \in told'
      BY <1>0, <2>1, <2>2, Zenon
    <2> QED
      BY <2>1, <2>2, <2>3 DEF FlowInv, FlowTypeOK, Climbs
  <1>4. ASSUME NEW i \in DOMAIN dated, NextTrade(i) PROVE FlowInv'
    <2>1. /\ \A j \in told : j < i
          /\ told' = told \cup {i} /\ UNCHANGED <<clock, dated>>
      BY <1>4, Zenon DEF NextTrade, Deliver
    <2>2. i \in 1..Trades /\ i \in 1..Len(dated)
      BY <1>0
    <2>3. i \notin {memory[n] : n \in DOMAIN memory}
      <3>1. DOMAIN memory = 1..Len(memory)
        BY <1>0
      <3>2. i \notin told
        BY <2>1, <2>2
      <3> QED
        BY <3>1, <3>2, Zenon DEF FlowInv
    <2>4. memory' = Remember(memory, i) /\ flow' = Trim(Append(flow, i), dated[i])
      BY <1>4, <2>3, Zenon DEF NextTrade, Deliver
    <2>5. /\ memory' \in Seq(1..Trades) /\ Len(memory') <= MaxIds /\ Climbs(memory')
          /\ \A n \in 1..Len(memory') : memory'[n] \in told'
          /\ \A t \in told' : \/ \E n \in 1..Len(memory') : memory'[n] = t
                              \/ Len(memory') = MaxIds /\ \A n \in 1..Len(memory') : t < memory'[n]
      BY <2>1, <2>2, <2>4, RememberNewer, Zenon
    <2> DEFINE q == Append(flow, i)
    <2>6. \A n \in 1..Len(flow) : flow[n] < i
      BY <1>0, <2>1, Zenon
    <2>7. q \in Seq(1..Trades) /\ Climbs(q)
          /\ \A n \in 1..Len(q) : q[n] = i \/ \E k \in 1..Len(flow) : q[n] = flow[k]
      BY <1>0, <2>2, <2>6, JoinsInOrder, Zenon
    <2> HIDE DEF q
    <2>8. /\ flow' \in Seq(1..Trades) /\ Climbs(flow')
          /\ \A n \in 1..Len(flow') : \E k \in 1..Len(q) : flow'[n] = q[k]
      <3> DEFINE d == dated[i]
      <3> HIDE DEF d
      <3>1. /\ Trim(q, d) \in Seq(1..Trades) /\ Climbs(Trim(q, d))
            /\ \A n \in 1..Len(Trim(q, d)) : \E k \in 1..Len(q) : Trim(q, d)[n] = q[k]
        BY <2>7, TrimClimbs
      <3>2. flow' = Trim(q, d)
        BY <2>4 DEF q, d
      <3> QED
        BY <3>1, <3>2, Zenon
    <2>9. \A n \in 1..Len(flow') : flow'[n] \in told'
      BY <1>0, <2>1, <2>7, <2>8, Zenon
    <2>10. told' \subseteq 1..Trades /\ told' \subseteq 1..Len(dated)
      BY <1>0, <2>1, <2>2
    <2>11. FlowTypeOK'
      BY <1>0, <2>1, <2>5, <2>8, <2>10 DEF FlowTypeOK
    <2>12. (/\ Len(dated) <= Trades /\ told \subseteq 1..Len(dated)
            /\ \A a, b \in 1..Len(dated) : a < b => dated[a] <= dated[b]
            /\ \A a \in 1..Len(dated) : dated[a] <= clock)'
      BY <2>1, <2>10, Zenon DEF FlowInv
    <2> QED
      BY <2>5, <2>8, <2>9, <2>11, <2>12, Zenon DEF FlowInv
  <1>5. ASSUME NEW i \in DOMAIN dated, Repeated(i) PROVE UNCHANGED flowVars
    <2>1. i \in told /\ Cardinality({j \in told : j > i}) < MaxIds /\ UNCHANGED <<told, clock, dated>>
      BY <1>5, Zenon DEF Repeated, Deliver
    <2>2. \E n \in 1..Len(memory) : memory[n] = i
      BY <2>1, RepeatedIsRemembered, Zenon
    <2>3. i \in {memory[n] : n \in DOMAIN memory}
      BY <1>0, <2>2
    <2>4. UNCHANGED <<flow, memory>>
      BY <1>5, <2>3, Zenon DEF Repeated, Deliver
    <2> QED
      BY <2>1, <2>4 DEF flowVars
  <1>6. CASE UNCHANGED flowVars
    BY <1>6 DEF flowVars, FlowInv, FlowTypeOK, Climbs
  <1> QED
    BY <1>1, <1>2, <1>3, <1>4, <1>5, <1>6, Zenon DEF FlowNext

\* What is summed is of the window and counts a trade once.
LEMMA FlowFollows == FlowInv => FlowIsTrue
  <1> SUFFICES ASSUME FlowInv PROVE FlowIsTrue
    OBVIOUS
  <1> DEFINE s == Summed
             l == Len(s)
  <1>0. /\ flow \in Seq(1..Trades) /\ Climbs(flow) /\ clock \in Int
        /\ dated \in Seq(0..FlowTime) /\ told \subseteq 1..Len(dated)
    BY DEF FlowInv, FlowTypeOK
  <1>1. /\ s \in Seq(1..Trades) /\ Climbs(s)
        /\ \A i \in 1..l : \E j \in 1..Len(flow) : s[i] = flow[j]
    <2>1. /\ Trim(flow, clock) \in Seq(1..Trades) /\ Climbs(Trim(flow, clock))
          /\ \A i \in 1..Len(Trim(flow, clock)) :
               \E j \in 1..Len(flow) : Trim(flow, clock)[i] = flow[j]
      BY <1>0, TrimClimbs
    <2>2. s = Trim(flow, clock)
      BY DEF Summed
    <2> QED
      BY <2>1, <2>2, Zenon
  <1>2. DOMAIN s = 1..l /\ l \in Nat /\ \A i \in 1..l : s[i] \in Int /\ s[i] \in 1..Len(dated)
    <2>1. \A i \in 1..l : s[i] \in told
      BY <1>1, Zenon DEF FlowInv
    <2> HIDE DEF s
    <2>2. told \subseteq Int
      BY <1>0
    <2>3. DOMAIN s = 1..l /\ l \in Nat
      BY <1>1
    <2> QED
      BY <1>0, <2>1, <2>2, <2>3, Zenon
  <1> HIDE DEF s
  <1>3. ASSUME NEW i \in 1..l, NEW j \in 1..l, s[i] = s[j] PROVE i = j
    <2>1. SUFFICES ASSUME i # j PROVE FALSE
      OBVIOUS
    <2>2. i < j \/ j < i
      BY <1>2, <2>1
    <2>3. s[i] < s[j] \/ s[j] < s[i]
      BY <1>1, <2>2, Zenon DEF Climbs
    <2>4. s[i] \in Int
      BY <1>2
    <2> QED
      BY <1>3, <2>3, <2>4
  <1>4. ASSUME NEW i \in 1..l PROVE clock - dated[s[i]] <= Window
    <2>1. s # <<>>
      BY <1>1, <1>2
    <2>2. PICK n \in 1..Len(flow) : s = SubSeq(flow, n, Len(flow)) /\ dated[flow[n]] >= clock - Window
      <3>1. \/ Trim(flow, clock) = <<>>
            \/ \E n \in 1..Len(flow) : /\ Trim(flow, clock) = SubSeq(flow, n, Len(flow))
                                       /\ dated[flow[n]] >= clock - Window
        BY <1>0, TrimIsTheEnd
      <3>2. s = Trim(flow, clock)
        BY DEF s, Summed
      <3> QED
        BY <2>1, <3>1, <3>2, Zenon
    <2>3. Len(flow) \in Int /\ n \in Int /\ 1 <= n /\ n <= Len(flow) /\ Len(flow) <= Len(flow)
      BY <1>0
    <2>4. s[1] = flow[1 + n - 1] /\ 1 + n - 1 = n /\ 1 \in 1..l
      <3>1. Len(s) = Len(flow) - n + 1 /\ \A k \in 1..Len(s) : s[k] = flow[k + n - 1]
        <4> DEFINE u == SubSeq(flow, n, Len(flow))
        <4>1. /\ u \in Seq(1..Trades) /\ Len(u) = Len(flow) - n + 1
              /\ \A k \in 1..Len(u) : k + n - 1 \in 1..Len(flow) /\ u[k] = flow[k + n - 1]
          <5>1. flow \in Seq(1..Trades)
            BY <1>0
          <5> QED
            BY ONLY <5>1, <2>3, PartOfList, Zenon
        <4> QED
          BY <2>2, <4>1, Zenon
      <3>2. 1 \in 1..l
        BY <2>3, <3>1
      <3> QED
        BY <2>3, <3>1, <3>2
    <2>5. s[1] = s[i] \/ s[1] < s[i]
      <3>1. i = 1 \/ 1 < i
        BY <1>2
      <3>2. \A a, b \in 1..l : a < b => s[a] < s[b]
        BY <1>1, Zenon DEF Climbs
      <3> QED
        BY <2>4, <3>1, <3>2, Zenon
    <2>6. dated[s[1]] <= dated[s[i]]
      <3>0. s[1] \in 1..Len(dated) /\ s[i] \in 1..Len(dated)
        BY <1>2, <2>4, Zenon
      <3>1. s[1] \in 1..Len(dated) /\ s[i] \in 1..Len(dated) /\ dated[s[1]] \in 0..FlowTime
        BY <1>0, <3>0, ElementOfSeq, Zenon
      <3>2. dated[s[1]] <= dated[s[1]]
        BY <3>1
      <3> QED
        BY <2>5, <3>1, <3>2, Zenon DEF FlowInv
    <2>7. dated[s[1]] \in Int /\ dated[s[i]] \in Int /\ dated[s[1]] >= clock - Window
      <3>1. s[1] = flow[n]
        BY <2>4
      <3>2. s[1] \in 1..Len(dated) /\ s[i] \in 1..Len(dated)
        BY <1>2, <2>4
      <3>3. dated[s[1]] \in 0..FlowTime /\ dated[s[i]] \in 0..FlowTime
        BY <1>0, <3>2, ElementOfSeq, Zenon
      <3> QED
        BY <2>2, <3>1, <3>3
    <2> DEFINE x == dated[s[1]]
               y == dated[s[i]]
    <2>8. x \in Int /\ y \in Int /\ x >= clock - Window /\ x <= y /\ clock \in Int /\ Window \in Int
      BY <1>0, <2>6, <2>7, FlowAssumption
    <2> HIDE DEF x, y
    <2>9. clock - y <= Window
      BY ONLY <2>8
    <2> QED
      BY <2>9 DEF y
  <1> QED
    BY <1>2, <1>3, <1>4, Zenon DEF FlowIsTrue, s

-----------------------------------------------------------------------------
\* The stream.

\* The stream begins connecting.
LEMMA LinkInitially == LinkInit => LinkTypeOK
  <1> SUFFICES ASSUME LinkInit PROVE LinkTypeOK
    OBVIOUS
  <1>1. stop \in BOOLEAN /\ behind \in BOOLEAN
    BY Zenon DEF LinkInit
  <1>2. link = "connecting" /\ pause = 1 /\ sky = "clear" /\ outages = 0
    BY Zenon DEF LinkInit
  <1> QED
    BY <1>1, <1>2, LinkAssumption DEF LinkTypeOK

\* Pauses stay within their bound, whatever becomes of the connection.
LEMMA LinkTypeStep == LinkTypeOK /\ [LinkNext]_linkVars => LinkTypeOK'
  <1> SUFFICES ASSUME LinkTypeOK, [LinkNext]_linkVars PROVE LinkTypeOK'
    OBVIOUS
  <1> USE LinkAssumption DEF LinkTypeOK
  <1>1. CASE LinkStep
    <2>1. stop' \in BOOLEAN /\ behind' \in BOOLEAN
      BY <1>1, Zenon DEF LinkStep, Connect, Receive, Lost, Resume, Refused, RestartProcess, Leave
    <2>2. link' \in {"connecting", "open", "pausing", "failed", "ended"}
      BY <1>1, Zenon DEF LinkStep, Connect, Receive, Lost, Resume, Refused, RestartProcess, Leave
    <2>3. UNCHANGED <<sky, outages>> /\ pause' \in {pause, 1, Least(pause * 2, MaxPause)}
      BY <1>1, Zenon DEF LinkStep, Connect, Receive, Lost, Resume, Refused, RestartProcess, Leave
    <2> QED
      BY <2>1, <2>2, <2>3 DEF Least
  <1>2. CASE Stop \/ Weather \/ Happens
    <2>1. stop' \in BOOLEAN /\ behind' \in BOOLEAN /\ UNCHANGED <<link, pause>>
      BY <1>2, Zenon DEF Stop, Weather, Happens
    <2>2. sky' \in {"clear", "dark", "refusing"} /\ outages' \in 0..MaxOutages
      BY <1>2 DEF Stop, Weather, Happens
    <2> QED
      BY <2>1, <2>2
  <1>3. CASE Skip \/ UNCHANGED linkVars
    BY <1>3 DEF Skip, linkVars
  <1> QED
    BY <1>1, <1>2, <1>3, Zenon DEF LinkNext

-----------------------------------------------------------------------------
\* Signed requests.

\* A process has measured nothing when it starts.
LEMMA RequestInitially == RequestInit => RequestInv
  <1> SUFFICES ASSUME RequestInit PROVE RequestInv
    OBVIOUS
  <1>1. smooth \in BOOLEAN
    BY Zenon DEF RequestInit
  <1>2. drift \in Drifts /\ steps = 0 /\ offset = Unknown /\ req = "idle" /\ attempt = 0 /\ cause = "none"
    BY Zenon DEF RequestInit
  <1> QED
    BY <1>1, <1>2, RequestAssumption DEF RequestInv, RequestTypeOK, DriftIsSurvived

\* A smooth request that was refused once carries the right time from then on.
LEMMA RequestStep ==
    ASSUME RequestInv, [RequestNext]_requestVars PROVE RequestInv'
  <1> USE RequestAssumption DEF RequestInv, RequestTypeOK, DriftIsSurvived
  <1>0. /\ drift \in Int /\ -drift \in {-d : d \in Drifts} /\ -drift # Unknown
        /\ 0 \in {Unknown, 0} \cup {-d : d \in Drifts}
    BY DEF Unknown
  <1>1. CASE StepClock
    <2>1. smooth' \in BOOLEAN /\ (smooth' => req = "idle")
      BY <1>1, Zenon DEF StepClock
    <2>2. /\ steps < MaxSteps /\ steps' = steps + 1 /\ drift' \in Drifts
          /\ UNCHANGED <<offset, req, attempt, cause>>
      BY <1>1, Zenon DEF StepClock
    <2> QED
      BY <2>1, <2>2
  <1>2. CASE Begin
    <2>1. smooth' = TRUE /\ attempt' = 0 /\ req' = "measuring" /\ cause' = "none"
      BY <1>2, Zenon DEF Begin
    <2>2. UNCHANGED <<drift, steps, offset>>
      BY <1>2, Zenon DEF Begin
    <2> QED
      BY <2>1, <2>2
  <1>3. CASE Measure
    <2>1. smooth' = smooth \/ smooth' = (smooth /\ drift = 0)
      BY <1>3, Zenon DEF Measure
    <2>2a. smooth \in BOOLEAN
      OBVIOUS
    <2>2b. smooth' \in BOOLEAN /\ (smooth' => smooth)
      <3>1. CASE smooth' = smooth
        BY <2>2a, <3>1, Zenon
      <3>2. CASE smooth' = (smooth /\ drift = 0)
        BY <3>2, Zenon
      <3> QED
        BY <2>1, <3>1, <3>2, Zenon
    <2>2. offset' = offset \/ (offset = Unknown /\ offset' \in {-drift, 0})
      BY <1>3, Zenon DEF Measure
    <2>3. req = "measuring" /\ req' = "signed" /\ UNCHANGED <<drift, steps, attempt, cause>>
      BY <1>3, Zenon DEF Measure
    <2> QED
      BY <1>0, <2>2b, <2>2, <2>3
  <1>4. CASE Accepted
    <2>1. req' = "ok" /\ UNCHANGED <<drift, steps, offset, attempt, smooth, cause>>
      BY <1>4, Zenon DEF Accepted
    <2> QED
      BY <2>1
  <1>5. CASE Outside
    <2>1. req = "signed" /\ ~InWindow /\ UNCHANGED <<drift, steps>>
      BY <1>5, Zenon DEF Outside
    <2>2. CASE attempt < MaxRetries - 1
      <3>1. req' = "measuring" /\ attempt' = attempt + 1 /\ cause' = "clock"
        BY <1>5, <2>2, Zenon DEF Outside, Retry
      <3>2. smooth' \in BOOLEAN
        BY <1>5, <2>2, Zenon DEF Outside
      <3>3. offset' = -drift \/ (offset' = 0 /\ (smooth' => drift = 0))
        BY <1>5, <2>2, Zenon DEF Outside
      <3> QED
        BY <1>0, <2>1, <2>2, <3>1, <3>2, <3>3
    <2>3. CASE ~(attempt < MaxRetries - 1)
      <3>1. req' = "raised" /\ UNCHANGED <<offset, attempt, smooth>> /\ cause' = "clock"
        BY <1>5, <2>3, Zenon DEF Outside, Raise
      <3>2. MaxRetries > 1 => attempt > 0
        BY <2>3
      <3>3. attempt > 0 /\ smooth => offset = -drift
        BY <2>1, Zenon
      <3>4. offset = -drift => InWindow
        BY <1>0 DEF InWindow
      <3>5. MaxRetries > 1 => ~smooth
        BY <2>1, <3>2, <3>3, <3>4, Zenon
      <3> QED
        BY <2>1, <3>1, <3>5
    <2> QED
      BY <2>2, <2>3
  <1>6. CASE Limited \/ Unreachable \/ Fatal
    <2>1. smooth' = FALSE /\ UNCHANGED <<drift, steps, offset>>
      BY <1>6, Zenon DEF Limited, Unreachable, Fatal
    <2>1a. smooth' \in BOOLEAN /\ ~smooth'
      BY ONLY <2>1, Zenon
    <2>2. \/ UNCHANGED attempt
          \/ attempt' = attempt + 1 /\ (attempt < MaxRetries - 1 \/ attempt + 1 < MaxRetries)
      BY <1>6, Zenon DEF Limited, Unreachable, Fatal, Retry, Raise
    <2>3. req' \in {"measuring", "raised"} /\ cause' \in {"limit", "network", "http"}
      BY <1>6, Zenon DEF Limited, Unreachable, Fatal, Retry, Raise
    <2> QED
      BY <2>1a, <2>1, <2>2, <2>3
  <1>7. CASE ProcessEnds
    <2>1. smooth' \in BOOLEAN
      BY <1>7, Zenon DEF ProcessEnds
    <2>2. req' = "idle" /\ offset' = Unknown /\ attempt' = 0 /\ UNCHANGED <<drift, steps, cause>>
      BY <1>7, Zenon DEF ProcessEnds
    <2> QED
      BY <2>1, <2>2
  <1>8. CASE UNCHANGED requestVars
    BY <1>8 DEF requestVars
  <1> QED
    BY <1>1, <1>2, <1>3, <1>4, <1>5, <1>6, <1>7, <1>8, Zenon DEF RequestNext, Answer

-----------------------------------------------------------------------------
\* The daily history.

\* The history begins empty, on the first day.
LEMMA DailyInitially == DailyInit => DailyTypeOK
  <1> SUFFICES ASSUME DailyInit PROVE DailyTypeOK
    OBVIOUS
  <1>1. ahead \in BOOLEAN
    BY Zenon DEF DailyInit
  <1>2. close \in [FirstDay..FirstDay -> Closes] /\ today = FirstDay /\ half = "midday"
    BY Zenon DEF DailyInit
  <1>3. DOMAIN daily = {}
    BY DEF DailyInit, Empty
  <1>4. Cardinality({}) = 0
    BY FS_EmptySet
  <1> QED
    BY <1>1, <1>2, <1>3, <1>4, HistoryAssumption DEF DailyTypeOK

\* The newest days that make room for no more than the history may hold.
LEMMA NewestAreFew ==
    ASSUME NEW all, all \subseteq FirstDay..today, today \in Nat
    PROVE  LET kept == {d \in all : Cardinality({x \in all : x > d}) < MaxHistory}
           IN  Cardinality(kept) <= MaxHistory
  <1> DEFINE kept == {d \in all : Cardinality({x \in all : x > d}) < MaxHistory}
  <1> USE HistoryAssumption
  <1>1. IsFiniteSet(all) /\ IsFiniteSet(kept)
    <2>1. IsFiniteSet(FirstDay..today)
      BY FS_Interval
    <2>2. all \in SUBSET (FirstDay..today) /\ kept \in SUBSET (FirstDay..today)
      OBVIOUS
    <2> QED
      BY <2>1, <2>2, FS_Subset
  <1>1a. kept \subseteq all /\ kept \subseteq Nat
    <2>1. kept \subseteq all
      OBVIOUS
    <2>2. all \subseteq Nat
      OBVIOUS
    <2> QED
      BY <2>1, <2>2, Zenon
  <1> SUFFICES Cardinality(kept) <= MaxHistory
    OBVIOUS
  <1>2. CASE kept = {}
    <2> HIDE DEF kept
    <2> QED
      BY <1>2, FS_EmptySet
  <1>3. CASE kept # {}
    <2>1. PICK m \in kept : \A n \in kept : m <= n
      <3>1. PICK k : k \in kept
        BY <1>3, Zenon
      <3> HIDE DEF kept
      <3> QED
        BY <1>1a, <3>1, LeastExists
    <2> DEFINE above == {x \in all : x > m}
    <2>2. kept \ {m} \subseteq above /\ m \in kept
      <3>1. ASSUME NEW d \in kept, d # m PROVE d \in above
        <4>1. d \in all /\ d \in Nat /\ m \in Nat /\ m <= d
          BY <1>1a, <2>1, Zenon
        <4> QED
          BY <3>1, <4>1
      <3> QED
        BY <3>1, Zenon
    <2>3. Cardinality(above) < MaxHistory
      OBVIOUS
    <2>4. IsFiniteSet(above) /\ Cardinality(above) \in Nat
      <3>1. above \in SUBSET all
        OBVIOUS
      <3> QED
        BY <1>1, <3>1, FS_Subset, FS_CardinalityType
    <2> HIDE DEF kept, above
    <2>5. Cardinality(kept \ {m}) = Cardinality(kept) - 1 /\ IsFiniteSet(kept \ {m})
      BY <1>1, <2>2, FS_RemoveElement
    <2>6. Cardinality(kept \ {m}) <= Cardinality(above)
      <3>1. kept \ {m} \in SUBSET above
        BY <2>2
      <3> QED
        BY <2>4, <3>1, FS_Subset
    <2>7. Cardinality(kept) \in Nat
      BY <1>1, FS_CardinalityType
    <2> QED
      BY <2>3, <2>4, <2>5, <2>6, <2>7
  <1> QED
    BY <1>2, <1>3

\* A merge holds days of the readings and no more than it may.
LEMMA MergeIsBounded ==
    ASSUME NEW held, DOMAIN held \subseteq FirstDay..today, today \in Nat
    PROVE  LET merged == Merge(held, ClosedBars)
           IN  /\ DOMAIN merged \subseteq FirstDay..today
               /\ Cardinality(DOMAIN merged) <= MaxHistory
  <1> DEFINE all == DOMAIN held \cup DOMAIN ClosedBars
             kept == {d \in all : Cardinality({x \in all : x > d}) < MaxHistory}
  <1>1. DOMAIN ClosedBars \subseteq FirstDay..today
    BY DEF ClosedBars
  <1>2. all \subseteq FirstDay..today
    BY <1>1
  <1>3. DOMAIN Merge(held, ClosedBars) = kept
    BY DEF Merge
  <1>4. kept \subseteq FirstDay..today
    BY <1>2
  <1>5. Cardinality(kept) <= MaxHistory
    <2> HIDE DEF all
    <2> QED
      BY <1>2, NewestAreFew
  <1> QED
    BY <1>3, <1>4, <1>5

\* The history is never of more days than it may hold, nor of days to come.
LEMMA DailyTypeStep == DailyTypeOK /\ [DailyNext]_dailyVars => DailyTypeOK'
  <1> SUFFICES ASSUME DailyTypeOK, [DailyNext]_dailyVars PROVE DailyTypeOK'
    OBVIOUS
  <1> USE HistoryAssumption
  <1>0. today \in FirstDay..LastDay /\ today \in Nat /\ ahead \in BOOLEAN
        /\ close \in [FirstDay..today -> Closes] /\ DOMAIN daily \subseteq FirstDay..today
    BY DEF DailyTypeOK
  <1>1. CASE Market
    <2>1. UNCHANGED <<today, half, ahead, daily>>
      BY <1>1, Zenon DEF Market
    <2>2. close' \in [FirstDay..today -> Closes]
      BY <1>0, <1>1 DEF Market
    <2> QED
      BY <2>1, <2>2 DEF DailyTypeOK
  <1>2. CASE Midnight
    <2>1. UNCHANGED <<close, today, ahead, daily>> /\ half' = "midnight"
      BY <1>2, Zenon DEF Midnight
    <2> QED
      BY <2>1 DEF DailyTypeOK
  <1>3. CASE DayEnds
    <2>1. UNCHANGED <<ahead, daily>> /\ half' = "midday" /\ today < LastDay /\ today' = today + 1
      BY <1>3, Zenon DEF DayEnds
    <2>2. close' \in [FirstDay..(today + 1) -> Closes]
      <3>1. \A d \in FirstDay..(today + 1) : (IF d <= today THEN close[d] ELSE close[today]) \in Closes
        BY <1>0
      <3> QED
        BY <1>3, <3>1 DEF DayEnds
    <2> QED
      BY <1>0, <2>1, <2>2 DEF DailyTypeOK
  <1>4. CASE Drift
    <2>1. ahead' \in BOOLEAN
      BY <1>4, Zenon DEF Drift
    <2>2. UNCHANGED <<close, today, half, daily>>
      BY <1>4, Zenon DEF Drift
    <2> QED
      BY <2>1, <2>2 DEF DailyTypeOK
  <1>5. CASE Refresh \/ Reboot
    <2>1. UNCHANGED <<close, today, half, ahead>>
      BY <1>5, Zenon DEF Refresh, Reboot
    <2>2. daily' = Merge(daily, ClosedBars) \/ daily' = Merge(Empty, ClosedBars)
      BY <1>5, Zenon DEF Refresh, Reboot
    <2>3. DOMAIN Empty \subseteq FirstDay..today
      BY DEF Empty
    <2>4. DOMAIN daily' \subseteq FirstDay..today /\ Cardinality(DOMAIN daily') <= MaxHistory
      BY <1>0, <2>2, <2>3, MergeIsBounded, Zenon
    <2> QED
      BY <2>1, <2>4 DEF DailyTypeOK
  <1>6. CASE UNCHANGED dailyVars
    BY <1>6 DEF dailyVars, DailyTypeOK
  <1> QED
    BY <1>1, <1>2, <1>3, <1>4, <1>5, <1>6, Zenon DEF DailyNext

-----------------------------------------------------------------------------
\* Backfill and datasets.

\* What a row is made of.
LEMMA RowFields ==
    ASSUME NEW rs \in Seq(Row), NEW i \in 1..Len(rs)
    PROVE  /\ rs[i] \in Row /\ rs[i].open \in 0..LastBar /\ rs[i].open \in Int /\ rs[i].open \in Nat
           /\ rs[i].state \in {"final", "forming"}
  <1>1. rs[i] \in Row
    BY ElementOfSeq, Zenon
  <1>2. rs[i].open \in 0..LastBar /\ rs[i].state \in {"final", "forming"}
    BY <1>1 DEF Row
  <1> QED
    BY <1>1, <1>2

\* Nothing is read at the start.
LEMMA DatasetInitially == DatasetInit => DatasetInv
  <1> SUFFICES ASSUME DatasetInit PROVE DatasetInv
    OBVIOUS
  <1>1. /\ bars \subseteq 0..LastBar /\ time \in 1..LastBar /\ end \in 1..(LastBar + 1) /\ start \in 0..1
        /\ begun = time /\ cursor = start /\ tries = 0 /\ requests = 0 /\ seenLast = NoTime
        /\ page = <<>> /\ rows = <<>> /\ job = "paging" /\ data = NoFile /\ manifest = NoManifest
    BY DEF DatasetInit
  <1>2. DatasetTypeOK
    BY <1>1, DatasetAssumption DEF DatasetTypeOK, NoTime, NoFile
  <1>3. RowsInv
    <2>1. {t \in bars : start <= t /\ t < start} = {}
      <3> SUFFICES ASSUME NEW t \in bars, start <= t, t < start PROVE FALSE
        OBVIOUS
      <3>1. t \in Int /\ start \in Int
        BY <1>1
      <3> QED
        BY <3>1
    <2>2. OpensOf(rows) = {}
      BY <1>1 DEF OpensOf
    <2> QED
      BY <1>1, <2>1, <2>2 DEF RowsInv, Ordered
  <1>4. PageInv /\ NothingSkipped
    BY <1>1 DEF PageInv, NothingSkipped
  <1>5. FilesInv
    BY <1>1 DEF FilesInv, Ordered, NoFile
  <1> QED
    BY <1>2, <1>3, <1>4, <1>5 DEF DatasetInv

\* An answer is the first bars from the cursor on: in order, none left out before its last.
LEMMA PageIsFirst ==
    ASSUME bars \subseteq 0..LastBar, time \in 1..LastBar, NEW from \in Nat
    PROVE  LET p == Page(from)
           IN  /\ p \in Seq(Row) /\ Ordered(p)
               /\ \A i \in 1..Len(p) : /\ p[i].open \in bars /\ from <= p[i].open
                                       /\ p[i].open < time => p[i].state = "final"
                                       /\ p[i].open <= time
               /\ \A t \in bars : from <= t /\ t <= time =>
                    t \in OpensOf(p) \/ (p # <<>> /\ \A u \in OpensOf(p) : u < t)
  <1> USE DatasetAssumption
  <1> DEFINE there == {t \in bars : t >= from /\ t <= time}
             below(t) == {u \in there : u < t}
             first == {t \in there : Cardinality(below(t)) < PageSize}
             s == [i \in 1..(time + 1) |-> i - 1]
             opens == Kept(s, first)
             p == [i \in DOMAIN opens |-> [open |-> opens[i], state |-> State(opens[i])]]
  <1>1. Page(from) = p
    BY Zenon DEF Page
  <1>2. s \in Seq(Nat) /\ Len(s) = time + 1 /\ DOMAIN s = 1..(time + 1)
    <2>1. s \in [1..(time + 1) -> Nat] /\ time + 1 \in Nat
      OBVIOUS
    <2>2. s \in Seq(Nat)
      BY <2>1, SeqDef
    <2> HIDE DEF s
    <2> QED
      BY <2>1, <2>2
  <1>3. \A a \in 1..(time + 1) : s[a] = a - 1
    OBVIOUS
  <1>4. first \subseteq there /\ there \subseteq bars /\ there \subseteq Int
        /\ \A t \in there : from <= t /\ t <= time /\ t \in Nat
    <2>1. first \subseteq there
      OBVIOUS
    <2>2. there \subseteq bars /\ bars \subseteq Int /\ bars \subseteq Nat
      OBVIOUS
    <2>3. ASSUME NEW t \in there PROVE from <= t /\ t <= time /\ t \in Nat
      BY <2>2
    <2> HIDE DEF first, there
    <2> QED
      BY <2>1, <2>2, <2>3
  <1>5. IsFiniteSet(there)
    <2>1. IsFiniteSet(0..LastBar)
      BY FS_Interval
    <2>2. there \in SUBSET (0..LastBar)
      BY <1>4, Zenon
    <2> QED
      BY <2>1, <2>2, FS_Subset, Zenon
  <1>6. ASSUME NEW t PROVE below(t) \in SUBSET there /\ IsFiniteSet(below(t)) /\ Cardinality(below(t)) \in Nat
    <2>1. below(t) \in SUBSET there
      OBVIOUS
    <2> QED
      BY <1>5, <2>1, FS_Subset, FS_CardinalityType, Zenon
  <1>7. ASSUME NEW t \in there, t \notin first, NEW u \in first PROVE u < t
    <2>1. SUFFICES ASSUME ~(u < t) PROVE FALSE
      OBVIOUS
    <2>2. u \in there /\ u \in Int /\ t \in Int
      BY <1>4
    <2>3. below(t) \in SUBSET below(u)
      <3>1. ASSUME NEW x \in there, x < t PROVE x < u
        BY <1>4, <2>1, <2>2, <3>1
      <3> QED
        BY <3>1
    <2>4. Cardinality(below(t)) <= Cardinality(below(u))
      <3> HIDE DEF below
      <3> QED
        BY <1>6, <2>3, FS_Subset, Zenon
    <2>5. Cardinality(below(u)) < PageSize /\ ~(Cardinality(below(t)) < PageSize)
      BY <1>7
    <2> HIDE DEF below
    <2> QED
      BY <1>6, <2>4, <2>5
  <1>8. there # {} => first # {}
    <2> SUFFICES ASSUME NEW t0 \in there PROVE first # {}
      BY Zenon
    <2> HIDE DEF there, first, below
    <2>1. PICK t \in there : \A u \in there : t <= u
      <3>1. there \subseteq Nat
        BY <1>4, Zenon
      <3> QED
        BY <3>1, LeastExists
    <2>2. below(t) = {}
      <3> SUFFICES ASSUME NEW u \in there, u < t PROVE FALSE
        BY Zenon DEF below
      <3>1. t <= u /\ t \in Int /\ u \in Int
        BY <1>4, <2>1, Zenon
      <3> QED
        BY <3>1
    <2>3. Cardinality(below(t)) = 0
      BY <2>2, FS_EmptySet, Zenon
    <2>4. Cardinality(below(t)) < PageSize
      BY <2>3
    <2> QED
      BY <2>1, <2>4, Zenon DEF first
  <1> HIDE DEF first, there, s, below
  <1>9. /\ opens \in Seq(Nat) /\ Len(opens) \in Nat /\ DOMAIN opens = 1..Len(opens)
        /\ \A i \in DOMAIN opens : opens[i] \in first /\ \E a \in DOMAIN s : opens[i] = s[a]
        /\ \A i, j \in DOMAIN opens : i < j =>
             \E a, b \in DOMAIN s : a < b /\ opens[i] = s[a] /\ opens[j] = s[b]
        /\ \A a \in DOMAIN s : s[a] \in first => \E i \in DOMAIN opens : opens[i] = s[a]
    <2>1. s \in Seq(Nat)
      BY <1>2
    <2> QED
      BY ONLY <2>1, KeptInOrder
  <1> HIDE DEF opens
  <1>10. ASSUME NEW i \in DOMAIN opens, NEW j \in DOMAIN opens, i < j PROVE opens[i] < opens[j]
    <2>1. PICK a \in DOMAIN s, b \in DOMAIN s : a < b /\ opens[i] = s[a] /\ opens[j] = s[b]
      BY <1>9, <1>10, Zenon
    <2>2. a \in 1..(time + 1) /\ b \in 1..(time + 1)
      BY <1>2, <2>1
    <2>3. s[a] = a - 1 /\ s[b] = b - 1
      BY <1>3, <2>2, Zenon
    <2> QED
      BY <2>1, <2>2, <2>3
  <1>11. ASSUME NEW t \in first PROVE \E i \in DOMAIN opens : opens[i] = t
    <2>1. t \in Nat /\ t <= time
      BY <1>4, Zenon
    <2>2. t + 1 \in 1..(time + 1) /\ (t + 1) - 1 = t
      BY <2>1
    <2>3. t + 1 \in DOMAIN s /\ s[t + 1] = t
      BY <1>2, <1>3, <2>2, Zenon
    <2> QED
      BY <1>9, <2>3, Zenon
  <1>12. ASSUME NEW i \in DOMAIN opens
         PROVE  opens[i] \in bars /\ from <= opens[i] /\ opens[i] \in 0..LastBar
    <2>1. opens[i] \in first
      BY <1>9, Zenon
    <2> QED
      BY <1>4, <2>1
  <1>13. /\ p \in Seq(Row) /\ DOMAIN p = 1..Len(opens) /\ Len(p) = Len(opens)
         /\ \A i \in 1..Len(opens) : p[i].open = opens[i] /\ p[i].state = State(opens[i])
    <2>1. DOMAIN p = 1..Len(opens)
      BY <1>9
    <2>2. ASSUME NEW i \in 1..Len(opens) PROVE p[i] \in Row /\ p[i].open = opens[i] /\ p[i].state = State(opens[i])
      <3>1. p[i] = [open |-> opens[i], state |-> State(opens[i])]
        BY <1>9
      <3>2. opens[i] \in 0..LastBar /\ State(opens[i]) \in {"final", "forming"}
        BY <1>9, <1>12 DEF State
      <3> HIDE DEF p
      <3> QED
        BY <3>1, <3>2 DEF Row
    <2>3. p \in [1..Len(opens) -> Row]
      BY <1>9, <2>2
    <2> HIDE DEF p
    <2>4. p \in Seq(Row)
      BY <1>9, <2>3, SeqDef
    <2> QED
      BY <1>9, <2>1, <2>2, <2>4
  <1> HIDE DEF p
  <1>14. Ordered(p)
    <2> SUFFICES ASSUME NEW i \in 1..Len(p), NEW j \in 1..Len(p), i < j PROVE p[i].open < p[j].open
      BY Zenon DEF Ordered
    <2>1. i \in DOMAIN opens /\ j \in DOMAIN opens /\ p[i].open = opens[i] /\ p[j].open = opens[j]
      BY <1>9, <1>13
    <2>2. opens[i] < opens[j]
      BY <1>10, <2>1, Zenon
    <2> QED
      BY <2>1, <2>2, Zenon
  <1>15. OpensOf(p) = first
    <2>1. \A i \in 1..Len(p) : p[i].open \in first
      BY <1>9, <1>13, Zenon
    <2>2. ASSUME NEW t \in first PROVE \E i \in 1..Len(p) : p[i].open = t
      <3>1. PICK i \in DOMAIN opens : opens[i] = t
        BY <1>11, Zenon
      <3>2. i \in 1..Len(p) /\ p[i].open = t
        BY <1>9, <1>13, <3>1
      <3> QED
        BY <3>2, Zenon
    <2> QED
      BY <2>1, <2>2, Zenon DEF OpensOf
  <1>16. ASSUME NEW i \in 1..Len(p)
         PROVE  /\ p[i].open \in bars /\ from <= p[i].open /\ p[i].open <= time
                /\ p[i].open < time => p[i].state = "final"
    <2>1. i \in DOMAIN opens /\ p[i].open = opens[i] /\ p[i].state = State(opens[i])
      BY <1>9, <1>13
    <2>2. opens[i] \in bars /\ from <= opens[i]
      BY <1>12, <2>1
    <2>3. opens[i] <= time
      BY <1>4, <1>9, <2>1, Zenon
    <2> QED
      BY <2>1, <2>2, <2>3, Zenon DEF State
  <1>17. ASSUME NEW t \in bars, from <= t, t <= time
         PROVE  t \in OpensOf(p) \/ (p # <<>> /\ \A u \in OpensOf(p) : u < t)
    <2>1. t \in there
      BY <1>17 DEF there
    <2>2. CASE t \in first
      BY <1>15, <2>2
    <2>3. CASE t \notin first
      <3>1. first # {}
        BY <1>8, <2>1, Zenon
      <3>2. p # <<>>
        BY <1>15, <3>1 DEF OpensOf
      <3> QED
        BY <1>7, <1>15, <2>1, <2>3, <3>2, Zenon
    <2> QED
      BY <2>2, <2>3
  <1> QED
    BY <1>1, <1>13, <1>14, <1>16, <1>17, Zenon

\* What is yielded of a page is its closed and newer rows, in order.
LEMMA TakenInOrder ==
    ASSUME NEW p \in Seq(Row), Ordered(p), NEW last \in Int, end \in Int
    PROVE  LET new == Taken(p, last)
           IN  /\ new \in Seq(Row) /\ Ordered(new)
               /\ \A i \in 1..Len(new) : new[i].open < end /\ new[i].open > last
                                         /\ \E a \in 1..Len(p) : new[i] = p[a]
               /\ \A a \in 1..Len(p) : p[a].open < end /\ p[a].open > last =>
                    p[a].open \in OpensOf(new)
  <1> DEFINE T == {r \in Range(p) : Closed(r) /\ r.open > last}
             new == Kept(p, T)
  <1>1. Taken(p, last) = new
    BY Zenon DEF Taken
  <1>2. DOMAIN p = 1..Len(p)
    OBVIOUS
  <1>3. ASSUME NEW a \in 1..Len(p) PROVE p[a] \in T <=> p[a].open < end /\ p[a].open > last
    <2>1. p[a] \in Range(p)
      BY <1>2 DEF Range
    <2>2. p[a].open \in Int
      BY RowFields
    <2>3. Closed(p[a]) <=> p[a].open < end
      BY <2>2 DEF Closed
    <2> QED
      BY <2>1, <2>3
  <1> HIDE DEF T
  <1>4. /\ new \in Seq(Row) /\ Len(new) \in Nat /\ DOMAIN new = 1..Len(new)
        /\ \A i \in DOMAIN new : new[i] \in T /\ \E a \in DOMAIN p : new[i] = p[a]
        /\ \A i, j \in DOMAIN new : i < j =>
             \E a, b \in DOMAIN p : a < b /\ new[i] = p[a] /\ new[j] = p[b]
        /\ \A a \in DOMAIN p : p[a] \in T => \E i \in DOMAIN new : new[i] = p[a]
    BY KeptInOrder
  <1> HIDE DEF new
  <1>5. Ordered(new)
    <2> SUFFICES ASSUME NEW i \in 1..Len(new), NEW j \in 1..Len(new), i < j
                 PROVE  new[i].open < new[j].open
      BY Zenon DEF Ordered
    <2>0. i \in DOMAIN new /\ j \in DOMAIN new
      BY <1>4, Zenon
    <2>1. PICK a \in DOMAIN p, b \in DOMAIN p : a < b /\ new[i] = p[a] /\ new[j] = p[b]
      BY <1>4, <2>0, Zenon
    <2> QED
      BY <1>2, <2>1, Zenon DEF Ordered
  <1>6. ASSUME NEW i \in 1..Len(new)
        PROVE  new[i].open < end /\ new[i].open > last /\ \E a \in 1..Len(p) : new[i] = p[a]
    BY <1>2, <1>3, <1>4, Zenon
  <1>7. ASSUME NEW a \in 1..Len(p), p[a].open < end, p[a].open > last
        PROVE  p[a].open \in OpensOf(new)
    <2>1. PICK i \in DOMAIN new : new[i] = p[a]
      BY <1>2, <1>3, <1>4, <1>7, Zenon
    <2> QED
      BY <1>4, <2>1, Zenon DEF OpensOf
  <1> QED
    BY <1>1, <1>4, <1>5, <1>6, <1>7, Zenon

\* A newer run of rows after an older one.
LEMMA JoinedInOrder ==
    ASSUME NEW a \in Seq(Row), NEW b \in Seq(Row), Ordered(a), Ordered(b), NEW last \in Int,
           \A i \in 1..Len(a) : a[i].open <= last, \A i \in 1..Len(b) : b[i].open > last
    PROVE  /\ a \o b \in Seq(Row) /\ Ordered(a \o b)
           /\ OpensOf(a \o b) = OpensOf(a) \cup OpensOf(b)
           /\ \A i \in 1..Len(a \o b) : \/ \E k \in 1..Len(a) : (a \o b)[i] = a[k]
                                        \/ \E k \in 1..Len(b) : (a \o b)[i] = b[k]
  <1> DEFINE c == a \o b
             m == Len(a)
             n == Len(b)
  <1>0. m \in Nat /\ n \in Nat
    OBVIOUS
  <1>1. /\ c \in Seq(Row) /\ Len(c) = m + n
        /\ \A i \in 1..(m + n) : c[i] = IF i <= m THEN a[i] ELSE b[i - m]
    BY ConcatProperties
  <1> HIDE DEF c, m, n
  <1>2. ASSUME NEW i \in 1..m PROVE i \in 1..Len(c) /\ c[i] = a[i]
    BY <1>0, <1>1
  <1>3. ASSUME NEW i \in 1..n PROVE i + m \in 1..Len(c) /\ c[i + m] = b[i]
    <2>1. i + m \in 1..(m + n) /\ ~(i + m <= m) /\ (i + m) - m = i
      BY <1>0
    <2> QED
      BY <1>1, <2>1
  <1>4. ASSUME NEW i \in 1..Len(c)
        PROVE  \/ i \in 1..m /\ c[i] = a[i]
               \/ i - m \in 1..n /\ ~(i <= m) /\ c[i] = b[i - m]
    BY <1>0, <1>1
  <1>5. ASSUME NEW i \in 1..Len(c), NEW j \in 1..Len(c), i < j PROVE c[i].open < c[j].open
    <2>0. i \in Int /\ j \in Int
      BY <1>0, <1>1
    <2>1. CASE i \in 1..m /\ j \in 1..m
      BY <1>2, <1>5, <2>1, Zenon DEF Ordered, m
    <2>2. CASE i \in 1..m /\ ~(j \in 1..m)
      <3>1. c[i] = a[i] /\ j - m \in 1..n /\ c[j] = b[j - m]
        BY <1>2, <1>4, <2>2, Zenon
      <3>2. a[i].open <= last /\ a[i].open \in Int
        BY <2>2, RowFields DEF m
      <3>3. b[j - m].open > last /\ b[j - m].open \in Int
        BY <3>1, RowFields DEF n
      <3> QED
        BY <3>1, <3>2, <3>3
    <2>3. CASE ~(i \in 1..m)
      <3>1. i - m \in 1..n /\ c[i] = b[i - m]
        BY <1>4, <2>3, Zenon
      <3>2. ~(j \in 1..m)
        BY <1>0, <1>5, <2>0, <2>3, <3>1
      <3>3. j - m \in 1..n /\ c[j] = b[j - m]
        BY <1>4, <3>2, Zenon
      <3>4. i - m < j - m
        BY <1>0, <1>5, <2>0
      <3> QED
        BY <3>1, <3>3, <3>4, Zenon DEF Ordered, n
    <2> QED
      BY <2>1, <2>2, <2>3
  <1>6. OpensOf(c) = OpensOf(a) \cup OpensOf(b)
    <2>1. ASSUME NEW t \in OpensOf(c) PROVE t \in OpensOf(a) \cup OpensOf(b)
      <3>1. PICK i \in 1..Len(c) : t = c[i].open
        BY Zenon DEF OpensOf
      <3> QED
        BY <1>4, <3>1, Zenon DEF OpensOf, m, n
    <2>2. ASSUME NEW t \in OpensOf(a) PROVE t \in OpensOf(c)
      <3>1. PICK i \in 1..m : t = a[i].open
        BY Zenon DEF OpensOf, m
      <3> QED
        BY <1>2, <3>1, Zenon DEF OpensOf
    <2>3. ASSUME NEW t \in OpensOf(b) PROVE t \in OpensOf(c)
      <3>1. PICK i \in 1..n : t = b[i].open
        BY Zenon DEF OpensOf, n
      <3> QED
        BY <1>3, <3>1, Zenon DEF OpensOf
    <2> QED
      BY <2>1, <2>2, <2>3, Zenon
  <1>7. Ordered(c)
    BY <1>5, Zenon DEF Ordered
  <1>8. ASSUME NEW i \in 1..Len(c)
        PROVE  (\E k \in 1..m : c[i] = a[k]) \/ (\E k \in 1..n : c[i] = b[k])
    BY <1>4, Zenon
  <1> QED
    BY <1>1, <1>6, <1>7, <1>8, Zenon DEF c, m, n

\* The steps that leave what was read alone.
LEMMA ReadingStays ==
    ASSUME RowsInv, UNCHANGED <<bars, start, end, begun, cursor, seenLast, rows>>,
           job' \in {"paging", "rows"} => job \in {"paging", "rows"}
    PROVE  RowsInv'
  BY Zenon DEF RowsInv, Ordered, OpensOf, Honest

\* A page that is yielded: its closed rows join, and the cursor moves behind them.
LEMMA YieldedIsWhole ==
    ASSUME DatasetInv, Yielded PROVE DatasetInv'
  <1> USE DatasetAssumption
  <1> DEFINE new == Taken(page, seenLast)
             last == IF new = <<>> THEN seenLast ELSE new[Len(new)].open
             next == IF last # NoTime THEN last + 1 ELSE cursor + 1
  <1>1. /\ job = "rows" /\ rows' = rows \o new /\ seenLast' = last /\ page' = <<>>
        /\ UNCHANGED <<bars, time, start, end, begun, tries, requests, data, manifest>>
        /\ IF new = <<>> \/ next <= cursor THEN job' = "ended" /\ UNCHANGED cursor
           ELSE job' = "paging" /\ cursor' = next
    BY Zenon DEF Yielded
  <1>2. /\ bars \subseteq 0..LastBar /\ bars \subseteq Int /\ time \in 1..LastBar
        /\ end \in 1..(LastBar + 1) /\ start \in 0..1 /\ begun \in 1..time /\ begun \in Int
        /\ cursor \in 0..(LastBar + 1) /\ seenLast \in NoTime..LastBar /\ seenLast \in Int
        /\ tries \in 0..(MaxTries - 1) /\ requests \in 0..MaxRequests
        /\ rows \in Seq(Row) /\ page \in Seq(Row) /\ data \in Seq(Row)
        /\ cursor \in Int /\ end \in Int /\ start \in Int /\ start >= 0
    BY DEF DatasetInv, DatasetTypeOK, NoTime
  <1>3. /\ Ordered(rows) /\ (\A i \in 1..Len(rows) : Honest(rows[i]))
        /\ (\A i \in 1..Len(rows) : rows[i].open <= seenLast /\ rows[i].open < end)
        /\ cursor = (IF seenLast = NoTime THEN start ELSE seenLast + 1)
        /\ start <= cursor /\ cursor <= end
        /\ OpensOf(rows) = {t \in bars : start <= t /\ t < cursor}
        /\ Ordered(page) /\ page # <<>>
        /\ (\A i \in 1..Len(page) :
              page[i].open \in bars /\ cursor <= page[i].open /\ Honest(page[i]))
        /\ (\A t \in bars : cursor <= t /\ t < end =>
              t \in OpensOf(page) \/ \A u \in OpensOf(page) : u < t)
        /\ FilesInv
    BY <1>1, Zenon DEF DatasetInv, RowsInv, PageInv
  <1>4. seenLast < cursor
    BY <1>2, <1>3 DEF NoTime
  <1>5. /\ new \in Seq(Row) /\ Ordered(new)
        /\ \A i \in 1..Len(new) : new[i].open < end /\ new[i].open > seenLast
                                  /\ \E a \in 1..Len(page) : new[i] = page[a]
        /\ \A a \in 1..Len(page) : page[a].open < end /\ page[a].open > seenLast =>
             page[a].open \in OpensOf(new)
    BY <1>2, <1>3, TakenInOrder, Zenon
  <1> HIDE DEF new
  <1>6. ASSUME NEW t \in OpensOf(page), t < end PROVE t \in OpensOf(new)
    <2>1. PICK a \in 1..Len(page) : t = page[a].open
      BY Zenon DEF OpensOf
    <2>2. cursor <= page[a].open /\ page[a].open \in Int
      BY <1>2, <1>3, RowFields
    <2>3. page[a].open > seenLast
      BY <1>2, <1>4, <2>2
    <2> QED
      BY <1>5, <1>6, <2>1, <2>3, Zenon
  <1>7. ASSUME NEW t \in OpensOf(new) PROVE /\ t \in bars /\ cursor <= t /\ t < end /\ t \in Int
                                            /\ t \in OpensOf(page) /\ t > seenLast
    <2>1. PICK i \in 1..Len(new) : t = new[i].open
      BY Zenon DEF OpensOf
    <2>2. PICK a \in 1..Len(page) : new[i] = page[a]
      BY <1>5, Zenon
    <2>3. t = page[a].open /\ t < end /\ t \in bars /\ cursor <= t
      BY <1>3, <1>5, <2>1, <2>2, Zenon
    <2>4. t \in Int
      BY <1>2, <2>3
    <2>5. t \in OpensOf(page)
      BY <2>3, Zenon DEF OpensOf
    <2>6. t > seenLast
      BY <1>5, <2>1, Zenon
    <2> QED
      BY <2>3, <2>4, <2>5, <2>6
  <1>8. /\ rows \o new \in Seq(Row) /\ Ordered(rows \o new)
        /\ OpensOf(rows \o new) = OpensOf(rows) \cup OpensOf(new)
        /\ \A i \in 1..Len(rows \o new) : \/ \E k \in 1..Len(rows) : (rows \o new)[i] = rows[k]
                                          \/ \E k \in 1..Len(new) : (rows \o new)[i] = new[k]
    BY <1>2, <1>3, <1>5, JoinedInOrder, Zenon
  <1>9. ASSUME NEW i \in 1..Len(rows \o new)
         PROVE  Honest((rows \o new)[i]) /\ (rows \o new)[i].open < end
    <2>1. CASE \E k \in 1..Len(rows) : (rows \o new)[i] = rows[k]
      BY <1>3, <2>1, Zenon
    <2>2. CASE \E k \in 1..Len(new) : (rows \o new)[i] = new[k]
      <3>1. PICK k \in 1..Len(new) : (rows \o new)[i] = new[k]
        BY <2>2
      <3>2. new[k].open < end /\ \E a \in 1..Len(page) : new[k] = page[a]
        BY <1>5, Zenon
      <3>3. PICK a \in 1..Len(page) : new[k] = page[a]
        BY <3>2
      <3>4. Honest(page[a])
        BY <1>3, Zenon
      <3> QED
        BY <3>1, <3>2, <3>3, <3>4
    <2> QED
      BY <1>8, <2>1, <2>2, Zenon
  <1>10. PageInv' /\ FilesInv'
    <2>1. job' # "rows"
      BY <1>1
    <2> QED
      BY <1>1, <1>3, <2>1, Zenon DEF PageInv, FilesInv, Ordered, Gaps
  <1>11. CASE new = <<>>
    <2>1. job' = "ended" /\ cursor' = cursor /\ seenLast' = seenLast
      BY <1>1, <1>11, Zenon
    <2>2. OpensOf(new) = {}
      BY <1>11 DEF OpensOf
    <2>3. rows \o new = rows
      BY <1>2, <1>11
    <2>4. ASSUME NEW t \in bars, cursor <= t, t < end PROVE FALSE
      <3>1. t \notin OpensOf(page)
        BY <1>6, <2>2, <2>4
      <3>2. \A u \in OpensOf(page) : u < t
        BY <1>3, <2>4, <3>1, Zenon
      <3>3. 1 \in 1..Len(page)
        BY <1>2, <1>3
      <3>4. page[1].open \in OpensOf(page) /\ page[1].open \in Int
        BY <1>2, <3>3, RowFields DEF OpensOf
      <3>5. page[1].open < t
        BY <3>2, <3>4, Zenon
      <3>6. page[1].open < end
        BY <1>2, <2>4, <3>4, <3>5
      <3> QED
        BY <1>6, <2>2, <3>4, <3>6
    <2>5. OpensOf(rows) = {t \in bars : start <= t /\ t < end}
      <3>1. ASSUME NEW t \in bars PROVE start <= t /\ t < cursor <=> start <= t /\ t < end
        <4>1. t \in Int
          BY <1>2
        <4> QED
          BY <1>2, <1>3, <2>4, <4>1
      <3> QED
        BY <1>3, <3>1, Zenon
    <2>6. NothingSkipped'
      <3>1. rows' = rows /\ bars' = bars /\ start' = start /\ end' = end /\ begun' = begun
        BY <1>1, <2>3
      <3>2. DOMAIN rows = 1..Len(rows)
        BY <1>2
      <3> QED
        BY <2>5, <3>1, <3>2, Zenon DEF NothingSkipped, Period, OpensOf
    <2>7. RowsInv'
      <3>1. UNCHANGED <<bars, start, end, begun, cursor, seenLast, rows>>
        BY <1>1, <2>1, <2>3
      <3>2. job' \notin {"paging", "rows"}
        BY <2>1
      <3> QED
        BY <3>1, <3>2, ReadingStays, Zenon DEF DatasetInv
    <2>8. DatasetTypeOK'
      BY <1>1, <1>2, <2>1, <2>3 DEF DatasetTypeOK
    <2> QED
      BY <1>10, <2>6, <2>7, <2>8, Zenon DEF DatasetInv
  <1>12. CASE new # <<>>
    <2>0. Len(new) \in 1..Len(new) /\ Len(new) \in Nat
      BY <1>5, <1>12
    <2>1. last = new[Len(new)].open /\ last \in OpensOf(new)
      <3>1. last = new[Len(new)].open
        BY <1>12
      <3> QED
        BY <2>0, <3>1, Zenon DEF OpensOf
    <2> HIDE DEF last
    <2>2. last \in bars /\ cursor <= last /\ last < end /\ last \in Int /\ last > seenLast
          /\ last \in OpensOf(page) /\ last \in 0..LastBar
      BY <1>2, <1>7, <2>1
    <2>3. next = last + 1
      BY <1>2, <1>3, <2>2 DEF NoTime
    <2>4. job' = "paging" /\ cursor' = last + 1 /\ seenLast' = last
      <3>1. ~(next <= cursor)
        BY <1>2, <2>2, <2>3
      <3> QED
        BY <1>1, <1>12, <2>3, <3>1, Zenon
    <2>5. ASSUME NEW t \in OpensOf(new) PROVE t <= last
      <3>1. PICK i \in 1..Len(new) : t = new[i].open
        BY Zenon DEF OpensOf
      <3>2. CASE i = Len(new)
        BY <2>1, <2>2, <3>1, <3>2
      <3>3. CASE i # Len(new)
        <4>1. i < Len(new)
          BY <2>0, <3>3
        <4>2. new[i].open < new[Len(new)].open
          BY <1>5, <2>0, <4>1, Zenon DEF Ordered
        <4> QED
          BY <1>7, <2>1, <2>2, <3>1, <4>2
      <3> QED
        BY <3>2, <3>3
    <2>6. ASSUME NEW t \in OpensOf(rows) PROVE t <= last /\ t \in Int
      <3>1. PICK i \in 1..Len(rows) : t = rows[i].open
        BY Zenon DEF OpensOf
      <3>2. t <= seenLast /\ t \in Int
        BY <1>2, <1>3, <3>1, RowFields
      <3> QED
        BY <1>2, <2>2, <3>2
    <2>7. OpensOf(rows \o new) = {t \in bars : start <= t /\ t < last + 1}
      <3>1. ASSUME NEW t \in OpensOf(rows \o new) PROVE t \in bars /\ start <= t /\ t < last + 1
        <4>1. CASE t \in OpensOf(rows)
          <5>1. t \in bars /\ start <= t
            BY <1>3, <4>1, Zenon
          <5>2. t \in Int /\ t <= last
            BY <2>6, <4>1, Zenon
          <5>3. t < last + 1
            BY <2>2, <5>2
          <5> QED
            BY <5>1, <5>3
        <4>2. CASE t \in OpensOf(new)
          BY <1>2, <1>3, <1>7, <2>2, <2>5, <4>2
        <4> QED
          BY <1>8, <4>1, <4>2
      <3>2. ASSUME NEW t \in bars, start <= t, t < last + 1 PROVE t \in OpensOf(rows \o new)
        <4>0. t \in Int /\ t <= last
          BY <1>2, <2>2, <3>2
        <4>1. CASE t < cursor
          BY <1>3, <1>8, <3>2, <4>1
        <4>2. CASE ~(t < cursor)
          <5>1. cursor <= t /\ t < end
            BY <1>2, <2>2, <4>0, <4>2
          <5>2. t \in OpensOf(page)
            <6>1. SUFFICES ASSUME \A u \in OpensOf(page) : u < t PROVE FALSE
              BY <1>3, <5>1, Zenon
            <6>2. last < t
              BY <2>2, <6>1
            <6> QED
              BY <2>2, <4>0, <6>2
          <5> QED
            BY <1>6, <1>8, <5>1, <5>2
        <4> QED
          BY <4>1, <4>2
      <3> QED
        BY <3>1, <3>2, Zenon
    <2>8. ASSUME NEW i \in 1..Len(rows \o new) PROVE (rows \o new)[i].open <= last
      <3>1. (rows \o new)[i].open \in OpensOf(rows \o new)
        BY Zenon DEF OpensOf
      <3> QED
        BY <1>8, <2>5, <2>6, <3>1, Zenon
    <2>9. start <= last + 1 /\ last + 1 <= end /\ last # NoTime /\ last + 1 \in 0..(LastBar + 1)
          /\ last \in NoTime..LastBar
      BY <1>2, <1>3, <2>2 DEF NoTime
    <2>10. RowsInv'
      BY <1>1, <1>8, <1>9, <2>4, <2>7, <2>8, <2>9, Zenon DEF RowsInv, Ordered, OpensOf, Honest
    <2>11. NothingSkipped'
      BY <2>4 DEF NothingSkipped
    <2>12. DatasetTypeOK'
      BY <1>1, <1>2, <1>8, <2>4, <2>9 DEF DatasetTypeOK
    <2> QED
      BY <1>10, <2>10, <2>11, <2>12, Zenon DEF DatasetInv
  <1> QED
    BY <1>11, <1>12

\* A history that was cut short is still in order.
LEMMA CutShort ==
    ASSUME NEW rs \in Seq(Row), Ordered(rs), NEW n \in 1..Len(rs)
    PROVE  SubSeq(rs, 1, n) \in Seq(Row) /\ Ordered(SubSeq(rs, 1, n))
  <1> DEFINE s == SubSeq(rs, 1, n)
             l == Len(rs)
  <1>1. l \in Nat /\ n \in Int /\ 1 \in Int /\ 1 <= n /\ n <= l
    OBVIOUS
  <1>2. /\ s \in Seq(Row) /\ Len(s) = n - 1 + 1
        /\ \A i \in 1..Len(s) : i + 1 - 1 \in 1..l /\ s[i] = rs[i + 1 - 1]
    BY <1>1, PartOfList
  <1> HIDE DEF s
  <1>3. ASSUME NEW i \in 1..Len(s) PROVE i \in 1..l /\ s[i] = rs[i]
    <2>1. i + 1 - 1 = i
      BY <1>1, <1>2
    <2> QED
      BY <1>2, <2>1
  <1>4. Ordered(s)
    BY <1>3, Zenon DEF Ordered, l
  <1> QED
    BY <1>2, <1>4 DEF s

\* Every step of the backfill keeps its invariant.
LEMMA DatasetStep ==
    ASSUME DatasetInv, [DatasetNext]_datasetVars PROVE DatasetInv'
  <1> USE DatasetAssumption
  <1>1. /\ bars \subseteq 0..LastBar /\ bars \subseteq Int /\ time \in 1..LastBar
        /\ end \in 1..(LastBar + 1) /\ begun \in 1..time /\ begun \in Int /\ time \in Int
        /\ start \in 0..1 /\ cursor \in 0..(LastBar + 1) /\ seenLast \in NoTime..LastBar
        /\ tries \in 0..(MaxTries - 1) /\ requests \in 0..MaxRequests
        /\ rows \in Seq(Row) /\ page \in Seq(Row) /\ data \in Seq(Row)
        /\ cursor \in Int /\ end \in Int /\ start \in Int /\ cursor \in Nat
        /\ job \in {"paging", "rows", "ended", "failed", "half", "done"}
    BY DEF DatasetInv, DatasetTypeOK, NoTime
  <1>2. RowsInv /\ PageInv /\ FilesInv /\ NothingSkipped
    BY DEF DatasetInv
  <1>3. DOMAIN rows = 1..Len(rows)
    BY <1>1
  <1>4. ASSUME UNCHANGED <<data, manifest>> PROVE FilesInv'
    BY <1>2, <1>4, Zenon DEF FilesInv, Ordered, Gaps
  <1>5. ASSUME job' # "rows" PROVE PageInv'
    BY <1>5 DEF PageInv
  <1>6. ASSUME job' \notin {"ended", "half", "done"} PROVE NothingSkipped'
    BY <1>6 DEF NothingSkipped
  <1>7. ASSUME OpensOf(rows) \subseteq Period, {t \in Period : t <= begun} \subseteq OpensOf(rows),
               UNCHANGED <<rows, bars, start, end, begun>>
        PROVE  NothingSkipped'
    BY <1>3, <1>7, Zenon DEF NothingSkipped, Period, OpensOf
  <1>8. job = "paging" => start <= cursor /\ cursor <= end
                          /\ OpensOf(rows) = {t \in bars : start <= t /\ t < cursor}
    BY <1>2 DEF RowsInv
  <1>9. CASE TimePasses
    <2>1. /\ time' = time + 1 /\ time < LastBar
          /\ UNCHANGED <<bars, start, end, begun, cursor, tries, requests, seenLast, page, rows, job,
                         data, manifest>>
      BY <1>9, Zenon DEF TimePasses
    <2>2. DatasetTypeOK'
      <3>1. time' \in 1..LastBar /\ begun \in 1..time'
        BY <1>1, <2>1
      <3> QED
        BY <1>1, <2>1, <3>1, Zenon DEF DatasetTypeOK
    <2>3. RowsInv'
      BY <1>2, <2>1, ReadingStays
    <2>4. PageInv'
      BY <1>2, <2>1, Zenon DEF PageInv, Ordered, OpensOf, Honest
    <2>5. NothingSkipped'
      BY <1>2, <2>1, Zenon DEF NothingSkipped, Period
    <2> QED
      BY <1>4, <2>1, <2>2, <2>3, <2>4, <2>5 DEF DatasetInv
  <1>10. CASE Finish
    <2>1. /\ job = "paging" /\ (cursor >= end \/ requests = MaxRequests) /\ job' = "ended"
          /\ UNCHANGED <<bars, time, start, end, begun, cursor, tries, requests, seenLast, page, rows,
                         data, manifest>>
      BY <1>10, Zenon DEF Finish
    <2>2. DatasetTypeOK'
      BY <1>1, <2>1 DEF DatasetTypeOK
    <2>3. RowsInv'
      BY <1>2, <2>1, ReadingStays
    <2>4. NothingSkipped'
      <3>1. CASE requests = MaxRequests
        BY <1>1, <2>1, <3>1 DEF NothingSkipped
      <3>2. CASE cursor >= end
        <4>1. cursor = end
          BY <1>1, <1>8, <2>1, <3>2
        <4>2. OpensOf(rows) = Period
          BY <1>8, <2>1, <4>1 DEF Period
        <4> QED
          BY <1>7, <2>1, <4>2
      <3> QED
        BY <2>1, <3>1, <3>2
    <2> QED
      BY <1>4, <1>5, <2>1, <2>2, <2>3, <2>4 DEF DatasetInv
  <1>11. CASE Fetched
    <2>1. /\ job = "paging" /\ cursor < end /\ requests < MaxRequests
          /\ requests' = requests + 1 /\ tries' = 0 /\ page' = Page(cursor)
          /\ job' = IF page' = <<>> THEN "ended" ELSE "rows"
          /\ UNCHANGED <<bars, time, start, end, begun, cursor, seenLast, rows, data, manifest>>
      BY <1>11, Zenon DEF Fetched
    <2>2. /\ page' \in Seq(Row) /\ Ordered(page')
          /\ \A i \in 1..Len(page') : /\ page'[i].open \in bars /\ cursor <= page'[i].open
                                      /\ page'[i].open < time => page'[i].state = "final"
                                      /\ page'[i].open <= time
          /\ \A t \in bars : cursor <= t /\ t <= time =>
               t \in OpensOf(page') \/ (page' # <<>> /\ \A u \in OpensOf(page') : u < t)
      BY <1>1, <2>1, PageIsFirst, Zenon
    <2>3. job' \in {"rows", "ended"} /\ requests' \in 0..MaxRequests /\ tries' \in 0..(MaxTries - 1)
      BY <1>1, <2>1
    <2>4. DatasetTypeOK'
      BY <1>1, <2>1, <2>2, <2>3 DEF DatasetTypeOK
    <2>5. RowsInv'
      BY <1>2, <2>1, ReadingStays
    <2>6. PageInv'
      <3> SUFFICES ASSUME job' = "rows" PROVE PageInv'
        BY <1>5
      <3>1. page' # <<>>
        BY <2>1
      <3>2. ASSUME NEW i \in 1..Len(page') PROVE Honest(page'[i])
        <4>1. page'[i].open \in Int
          BY <2>2, RowFields
        <4>2. page'[i].open < time \/ begun <= page'[i].open
          <5>1. begun \in Int /\ time \in Int /\ begun <= time
            BY <1>1
          <5> QED
            BY ONLY <4>1, <5>1
        <4> QED
          BY <2>2, <4>2, Zenon DEF Honest
      <3>3. ASSUME NEW t \in bars, cursor <= t, t < end
            PROVE  t \in OpensOf(page') \/ \A u \in OpensOf(page') : u < t
        <4>1. CASE t <= time
          BY <2>2, <3>3, <4>1, Zenon
        <4>2. CASE ~(t <= time)
          <5> SUFFICES ASSUME NEW u \in OpensOf(page') PROVE u < t
            OBVIOUS
          <5>1. PICK i \in 1..Len(page') : u = page'[i].open
            BY Zenon DEF OpensOf
          <5>2. u <= time /\ u \in bars
            BY <2>2, <5>1, Zenon
          <5> QED
            BY <1>1, <4>2, <5>2
        <4> QED
          BY <4>1, <4>2
      <3>4. UNCHANGED <<bars, cursor, end, begun>>
        BY <2>1
      <3> QED
        BY <2>2, <3>1, <3>2, <3>3, <3>4, Zenon DEF PageInv, Ordered, OpensOf, Honest
    <2>7. NothingSkipped'
      <3>1. CASE page' = <<>>
        <4>1. OpensOf(page') = {}
          BY <3>1 DEF OpensOf
        <4>2. ASSUME NEW t \in OpensOf(rows) PROVE t \in Period
          <5>1. t \in bars /\ start <= t /\ t < cursor
            BY <1>8, <2>1, <4>2, Zenon
          <5>2. t \in Int
            BY <1>1, <5>1
          <5>3. t < end
            BY <1>1, <2>1, <5>1, <5>2
          <5> QED
            BY <5>1, <5>3 DEF Period
        <4>3. ASSUME NEW t \in Period, t <= begun PROVE t \in OpensOf(rows)
          <5>1. t \in bars /\ t \in Int /\ start <= t /\ t <= time
            BY <1>1, <4>3 DEF Period
          <5>2. ~(cursor <= t)
            BY <2>2, <3>1, <4>1, <5>1, Zenon
          <5>3. t < cursor
            BY <1>1, <5>1, <5>2
          <5> QED
            BY <1>8, <2>1, <5>1, <5>3, Zenon
        <4> QED
          BY <1>7, <2>1, <4>2, <4>3
      <3>2. CASE page' # <<>>
        BY <1>6, <2>1, <3>2
      <3> QED
        BY <3>1, <3>2
    <2> QED
      BY <1>4, <2>1, <2>4, <2>5, <2>6, <2>7 DEF DatasetInv
  <1>12. CASE Failed
    <2>1. /\ job = "paging"
          /\ \/ tries + 1 < MaxTries /\ tries' = tries + 1 /\ job' = job
             \/ job' = "failed" /\ tries' = tries
          /\ UNCHANGED <<bars, time, start, end, begun, cursor, requests, seenLast, page, rows, data,
                         manifest>>
      BY <1>12, Zenon DEF Failed
    <2>2. tries' \in 0..(MaxTries - 1) /\ job' \in {"paging", "failed"}
      BY <1>1, <2>1
    <2>3. DatasetTypeOK'
      BY <1>1, <2>1, <2>2 DEF DatasetTypeOK
    <2>4. RowsInv'
      BY <1>2, <2>1, ReadingStays
    <2>5. job' # "rows" /\ job' \notin {"ended", "half", "done"}
      BY <2>2
    <2> QED
      BY <1>4, <1>5, <1>6, <2>1, <2>3, <2>4, <2>5 DEF DatasetInv
  <1>13. CASE Yielded
    BY <1>13, YieldedIsWhole
  <1>14. CASE WriteData
    <2>1. /\ job = "ended"
          /\ \/ job' = "half" /\ data' = rows
             \/ job' = "failed" /\ data' = data
          /\ UNCHANGED <<bars, time, start, end, begun, cursor, tries, requests, seenLast, page, rows,
                         manifest>>
      BY <1>14, Zenon DEF WriteData
    <2>2. data' \in Seq(Row) /\ job' \in {"half", "failed"}
      BY <1>1, <2>1
    <2>3. DatasetTypeOK'
      BY <1>1, <2>1, <2>2 DEF DatasetTypeOK
    <2>4. RowsInv'
      BY <1>2, <2>1, <2>2, ReadingStays
    <2>5. FilesInv'
      <3>1. Ordered(data')
        BY <1>2, <2>1, Zenon DEF FilesInv, RowsInv
      <3> QED
        BY <1>2, <2>1, <3>1, Zenon DEF FilesInv, Ordered, Gaps
    <2>6. NothingSkipped'
      BY <1>2, <2>1, Zenon DEF NothingSkipped, Period
    <2>7. job' # "rows"
      BY <2>2
    <2> QED
      BY <1>5, <2>3, <2>4, <2>5, <2>6, <2>7 DEF DatasetInv
  <1>15. CASE WriteManifest
    <2>1. /\ job = "half" /\ job' = "done"
          /\ manifest' = [hash |-> data, count |-> Len(data), gaps |-> Gaps(data)]
          /\ UNCHANGED <<bars, time, start, end, begun, cursor, tries, requests, seenLast, page, rows, data>>
      BY <1>15, Zenon DEF WriteManifest
    <2>2. DatasetTypeOK'
      BY <1>1, <2>1 DEF DatasetTypeOK
    <2>3. RowsInv'
      BY <1>2, <2>1, ReadingStays
    <2>4. FilesInv'
      <3>1. manifest'.hash = data
        BY <2>1
      <3>2. manifest' = [hash |-> manifest'.hash, count |-> Len(manifest'.hash),
                         gaps |-> Gaps(manifest'.hash)]
        BY <2>1, <3>1
      <3> QED
        BY <1>2, <2>1, <3>2, Zenon DEF FilesInv, Ordered, Gaps
    <2>5. NothingSkipped'
      BY <1>2, <2>1, Zenon DEF NothingSkipped, Period
    <2> QED
      BY <1>5, <2>1, <2>2, <2>3, <2>4, <2>5 DEF DatasetInv
  <1>16. CASE Killed
    <2>1. /\ job \in {"half", "ended"} /\ job' = "failed"
          /\ data' = data \/ \E n \in 1..Len(rows) : data' = SubSeq(rows, 1, n)
          /\ UNCHANGED <<bars, time, start, end, begun, cursor, tries, requests, seenLast, page, rows,
                         manifest>>
      BY <1>16, Zenon DEF Killed
    <2>2. data' \in Seq(Row) /\ Ordered(data')
      <3>1. CASE data' = data
        BY <1>1, <1>2, <3>1, Zenon DEF FilesInv
      <3>2. CASE \E n \in 1..Len(rows) : data' = SubSeq(rows, 1, n)
        <4>1. PICK n \in 1..Len(rows) : data' = SubSeq(rows, 1, n)
          BY <3>2
        <4>2. Ordered(rows)
          BY <1>2 DEF RowsInv
        <4> QED
          BY <1>1, <4>1, <4>2, CutShort, Zenon
      <3> QED
        BY <2>1, <3>1, <3>2
    <2>3. DatasetTypeOK'
      BY <1>1, <2>1, <2>2 DEF DatasetTypeOK
    <2>4. RowsInv'
      BY <1>2, <2>1, ReadingStays
    <2>5. FilesInv'
      BY <1>2, <2>1, <2>2, Zenon DEF FilesInv, Ordered, Gaps
    <2>6. job' # "rows" /\ job' \notin {"ended", "half", "done"}
      BY <2>1
    <2> QED
      BY <1>5, <1>6, <2>3, <2>4, <2>5, <2>6 DEF DatasetInv
  <1>17. CASE Again
    <2>1. /\ end' \in 1..(LastBar + 1) /\ start' \in 0..1 /\ begun' = time /\ cursor' = start'
          /\ tries' = 0 /\ requests' = 0 /\ seenLast' = NoTime
          /\ rows' = <<>> /\ page' = <<>> /\ job' = "paging"
          /\ UNCHANGED <<bars, time, data, manifest>>
      BY <1>17, Zenon DEF Again
    <2>2. DatasetTypeOK'
      BY <1>1, <2>1 DEF DatasetTypeOK, NoTime
    <2>3. RowsInv'
      <3>1. {t \in bars : start' <= t /\ t < start'} = {}
        <4> SUFFICES ASSUME NEW t \in bars, start' <= t, t < start' PROVE FALSE
          OBVIOUS
        <4>1. t \in Int /\ start' \in Int
          BY <1>1, <2>1
        <4> QED
          BY <4>1
      <3>2. OpensOf(rows)' = {}
        BY <2>1 DEF OpensOf
      <3>3. start' <= cursor' /\ cursor' <= end'
        BY <1>1, <2>1
      <3> QED
        BY <2>1, <3>1, <3>2, <3>3 DEF RowsInv, Ordered
    <2> QED
      BY <1>4, <1>5, <1>6, <2>1, <2>2, <2>3 DEF DatasetInv
  <1>18. CASE UNCHANGED datasetVars
    <2>1. UNCHANGED <<bars, time, start, end, begun, cursor, tries, requests, seenLast, page, rows, job,
                      data, manifest>>
      BY <1>18, Zenon DEF datasetVars
    <2>2. DatasetTypeOK'
      BY <1>1, <2>1 DEF DatasetTypeOK
    <2>3. RowsInv'
      BY <1>2, <2>1, ReadingStays
    <2>4. PageInv'
      BY <1>2, <2>1, Zenon DEF PageInv, Ordered, OpensOf, Honest
    <2>5. NothingSkipped'
      BY <1>2, <2>1, Zenon DEF NothingSkipped, Period
    <2> QED
      BY <1>4, <2>1, <2>2, <2>3, <2>4, <2>5 DEF DatasetInv
  <1> QED
    BY <1>9, <1>10, <1>11, <1>12, <1>13, <1>14, <1>15, <1>16, <1>17, <1>18, Zenon DEF DatasetNext

\* In a history in order a later row opens no earlier.
LEMMA OpensClimb ==
    ASSUME NEW d \in Seq(Row), Ordered(d), NEW i \in 1..Len(d), NEW j \in 1..Len(d), i <= j
    PROVE  d[i].open <= d[j].open
  <1>1. d[i].open \in Int /\ d[j].open \in Int
    BY RowFields
  <1>2. CASE i = j
    BY <1>1, <1>2
  <1>3. CASE i # j
    <2>1. i < j
      BY <1>3
    <2>2. d[i].open < d[j].open
      BY <2>1, Zenon DEF Ordered
    <2> QED
      BY <1>1, <2>2
  <1> QED
    BY <1>2, <1>3

\* A gap lies between two rows that follow each other.
LEMMA GapPlace ==
    ASSUME NEW d \in Seq(Row), Ordered(d), NEW g \in Gaps(d)
    PROVE  \E i \in 1..Len(d) : /\ i - 1 \in 1..Len(d) /\ d[i - 1].open + 1 < d[i].open
                                /\ Missing(g) = (d[i - 1].open + 1)..(d[i].open - 1)
                                /\ g = [after |-> d[i - 1].open,
                                        missing |-> d[i].open - d[i - 1].open - 1]
  <1>1. PICK i \in DOMAIN d : /\ i > 1 /\ d[i].open - d[i - 1].open # 1
                              /\ g = [after |-> d[i - 1].open,
                                      missing |-> d[i].open - d[i - 1].open - 1]
    BY DEF Gaps
  <1>2. i \in 1..Len(d) /\ i - 1 \in 1..Len(d) /\ i - 1 < i
    BY <1>1
  <1>3. d[i].open \in Int /\ d[i - 1].open \in Int
    BY <1>2, RowFields
  <1>4. d[i - 1].open < d[i].open
    BY <1>2, Zenon DEF Ordered
  <1>5. d[i - 1].open + 1 < d[i].open
    BY <1>1, <1>3, <1>4
  <1>6. g.after = d[i - 1].open /\ g.missing = d[i].open - d[i - 1].open - 1
    BY <1>1
  <1>7. Missing(g) = (d[i - 1].open + 1)..(d[i - 1].open + (d[i].open - d[i - 1].open - 1))
    BY <1>6 DEF Missing
  <1>8. d[i - 1].open + (d[i].open - d[i - 1].open - 1) = d[i].open - 1
    BY <1>3
  <1> QED
    BY <1>1, <1>2, <1>5, <1>7, <1>8

\* Between its first and its last row every interval is a row or in one gap, never both.
LEMMA GapsAccount ==
    ASSUME NEW d \in Seq(Row), Ordered(d), d # <<>>
    PROVE  LET opens == {d[i].open : i \in DOMAIN d}
           IN  /\ \A t \in Min(opens)..Max(opens) :
                    t \in opens <=> ~ \E g \in Gaps(d) : t \in Missing(g)
               /\ \A g \in Gaps(d) :
                    /\ Missing(g) # {} /\ Missing(g) \subseteq Min(opens)..Max(opens)
                    /\ \A h \in Gaps(d) : Missing(g) \cap Missing(h) # {} => g = h
  <1> DEFINE opens == {d[i].open : i \in DOMAIN d}
             n == Len(d)
             o(i) == d[i].open
  <1>1. n \in Nat /\ 1 \in 1..n /\ n \in 1..n /\ DOMAIN d = 1..n
    BY EmptySeq
  <1>2. ASSUME NEW i \in 1..n PROVE o(i) \in Int /\ o(i) \in opens
    <2>1. o(i) \in Int
      BY RowFields
    <2> QED
      BY <1>1, <2>1
  <1>3. ASSUME NEW i \in 1..n, NEW j \in 1..n, i <= j PROVE o(i) <= o(j)
    BY <1>3, OpensClimb, Zenon
  <1>4. ASSUME NEW t \in opens PROVE t \in Int /\ o(1) <= t /\ t <= o(n) /\ \E k \in 1..n : t = o(k)
    <2>1. PICK k \in 1..n : t = o(k)
      BY <1>1
    <2>2. 1 <= k /\ k <= n
      BY <1>1
    <2> HIDE DEF o, n
    <2> QED
      BY <1>1, <1>2, <1>3, <2>1, <2>2
  <1>5. o(1) \in opens /\ o(n) \in opens /\ o(1) \in Int /\ o(n) \in Int
    BY <1>1, <1>2
  <1>6. Min(opens) = o(1)
    <2> HIDE DEF opens, o
    <2>1. \A x \in opens : x \in Int /\ o(1) <= x
      BY <1>4, Zenon
    <2>2. \A x \in opens : (\A y \in opens : x <= y) => x = o(1)
      BY <1>5, <2>1
    <2> QED
      BY <1>5, <2>1, <2>2, Zenon DEF Min
  <1>7. Max(opens) = o(n)
    <2> HIDE DEF opens, o, n
    <2>1. \A x \in opens : x \in Int /\ x <= o(n)
      BY <1>4, Zenon
    <2>2. \A x \in opens : (\A y \in opens : x >= y) => x = o(n)
      BY <1>5, <2>1
    <2>3. \A x \in opens : o(n) >= x
      BY <1>5, <2>1
    <2> QED
      BY <1>5, <2>2, <2>3, Zenon DEF Max
  <1>8. ASSUME NEW g \in Gaps(d)
        PROVE  \E i \in 1..n : /\ i - 1 \in 1..n /\ o(i - 1) + 1 < o(i)
                               /\ Missing(g) = (o(i - 1) + 1)..(o(i) - 1)
                               /\ g = [after |-> o(i - 1), missing |-> o(i) - o(i - 1) - 1]
    BY GapPlace
  <1>9. ASSUME NEW t \in o(1)..o(n), t \notin opens PROVE \E g \in Gaps(d) : t \in Missing(g)
    <2> DEFINE K == {k \in 1..n : o(k) > t}
    <2>0. t \in Int /\ o(1) <= t /\ t <= o(n)
      BY <1>5, <1>9
    <2>1. n \in K /\ K \subseteq Nat
      <3>1. t # o(n)
        BY <1>5, <1>9
      <3>2. o(n) > t
        BY <1>5, <2>0, <3>1
      <3> QED
        BY <1>1, <3>2
    <2>2. PICK k \in K : \A m \in K : k <= m
      <3> HIDE DEF K
      <3> QED
        BY <2>1, LeastExists
    <2>3. k \in 1..n /\ o(k) > t
      BY <2>2
    <2>4. k # 1
      <3> HIDE DEF o
      <3> QED
        BY <1>5, <2>0, <2>3
    <2>5. k - 1 \in 1..n /\ k > 1
      BY <1>1, <2>3, <2>4
    <2>6. k - 1 \notin K
      <3>1. ~(k <= k - 1)
        BY <2>3
      <3> HIDE DEF K
      <3> QED
        BY <2>2, <3>1, Zenon
    <2>7. ~(o(k - 1) > t) /\ o(k - 1) # t
      BY <1>2, <1>9, <2>5, <2>6
    <2>8. o(k) \in Int /\ o(k - 1) \in Int
      BY <1>2, <2>3, <2>5
    <2> HIDE DEF o, n
    <2>9. o(k) - o(k - 1) # 1 /\ o(k - 1) + 1 <= t /\ t <= o(k) - 1
      BY <2>0, <2>3, <2>7, <2>8
    <2> DEFINE g == [after |-> o(k - 1), missing |-> o(k) - o(k - 1) - 1]
    <2>10. g \in Gaps(d)
      BY <1>1, <2>3, <2>5, <2>9 DEF Gaps, o
    <2>11. g.after = o(k - 1) /\ g.missing = o(k) - o(k - 1) - 1
      OBVIOUS
    <2> HIDE DEF g
    <2>12. t \in Missing(g)
      <3>1. Missing(g) = (o(k - 1) + 1)..(o(k - 1) + (o(k) - o(k - 1) - 1))
        BY <2>11, Zenon DEF Missing
      <3>2. t \in (o(k - 1) + 1)..(o(k - 1) + (o(k) - o(k - 1) - 1))
        BY <2>0, <2>8, <2>9
      <3> QED
        BY <3>1, <3>2
    <2> QED
      BY <2>10, <2>12
  <1> HIDE DEF o, n
  <1>10. ASSUME NEW t \in opens, NEW g \in Gaps(d), t \in Missing(g) PROVE FALSE
    <2>1. PICK i \in 1..n : /\ i - 1 \in 1..n /\ o(i - 1) + 1 < o(i)
                            /\ Missing(g) = (o(i - 1) + 1)..(o(i) - 1)
      BY <1>8, Zenon
    <2>2. PICK k \in 1..n : t = o(k)
      BY <1>4, Zenon
    <2>3. o(i) \in Int /\ o(i - 1) \in Int /\ o(k) \in Int
      BY <1>2, <2>1, <2>2, Zenon
    <2>4. o(i - 1) < o(k) /\ o(k) < o(i)
      BY <1>10, <2>1, <2>2, <2>3
    <2>5. ~(k <= i - 1)
      <3>1. k <= i - 1 => o(k) <= o(i - 1)
        BY <1>3, <2>1, Zenon
      <3> QED
        BY <2>3, <2>4, <3>1
    <2>6. ~(i <= k)
      <3>1. i <= k => o(i) <= o(k)
        BY <1>3, Zenon
      <3> QED
        BY <2>3, <2>4, <3>1
    <2> QED
      BY <1>1, <2>5, <2>6
  <1>11. ASSUME NEW g \in Gaps(d) PROVE Missing(g) # {} /\ Missing(g) \subseteq o(1)..o(n)
    <2>1. PICK i \in 1..n : /\ i - 1 \in 1..n /\ o(i - 1) + 1 < o(i)
                            /\ Missing(g) = (o(i - 1) + 1)..(o(i) - 1)
      BY <1>8, Zenon
    <2>2. 1 <= i - 1 /\ i <= n
      BY <1>1, <2>1
    <2>3. o(1) <= o(i - 1) /\ o(i) <= o(n)
      BY <1>1, <1>3, <2>1, <2>2, Zenon
    <2>4. o(i) \in Int /\ o(i - 1) \in Int
      BY <1>2, <2>1, Zenon
    <2>5. o(i - 1) + 1 \in Missing(g)
      BY <2>1, <2>4
    <2>6. ASSUME NEW x \in Missing(g) PROVE x \in o(1)..o(n)
      BY <1>5, <2>1, <2>3, <2>4
    <2> QED
      BY <2>5, <2>6
  <1>12. ASSUME NEW g \in Gaps(d), NEW h \in Gaps(d), NEW x \in Missing(g), x \in Missing(h)
         PROVE  g = h
    <2>1. PICK i \in 1..n : /\ i - 1 \in 1..n /\ o(i - 1) + 1 < o(i)
                            /\ Missing(g) = (o(i - 1) + 1)..(o(i) - 1)
                            /\ g = [after |-> o(i - 1), missing |-> o(i) - o(i - 1) - 1]
      BY <1>8, Zenon
    <2>2. PICK j \in 1..n : /\ j - 1 \in 1..n /\ o(j - 1) + 1 < o(j)
                            /\ Missing(h) = (o(j - 1) + 1)..(o(j) - 1)
                            /\ h = [after |-> o(j - 1), missing |-> o(j) - o(j - 1) - 1]
      BY <1>8, Zenon
    <2>3. o(i) \in Int /\ o(i - 1) \in Int /\ o(j) \in Int /\ o(j - 1) \in Int
      BY <1>2, <2>1, <2>2, Zenon
    <2>4. o(i - 1) < o(j) /\ o(j - 1) < o(i) /\ x \in Int
          /\ o(i - 1) < x /\ x < o(i) /\ o(j - 1) < x /\ x < o(j)
      BY <1>12, <2>1, <2>2, <2>3, SMTT(20)
    <2>5. ~(i <= j - 1)
      <3>1. i <= j - 1 => o(i) <= o(j - 1)
        BY <1>3, <2>2, Zenon
      <3> QED
        BY <2>3, <2>4, <3>1
    <2>6. ~(j <= i - 1)
      <3>1. j <= i - 1 => o(j) <= o(i - 1)
        BY <1>3, <2>1, Zenon
      <3> QED
        BY <2>3, <2>4, <3>1
    <2>7. i = j
      BY <1>1, <2>5, <2>6
    <2> QED
      BY <2>1, <2>2, <2>7, Zenon
  <1>13. ASSUME NEW t \in o(1)..o(n) PROVE t \in opens <=> ~ \E g \in Gaps(d) : t \in Missing(g)
    BY <1>9, <1>10, Zenon
  <1>14. ASSUME NEW g \in Gaps(d), NEW h \in Gaps(d), Missing(g) \cap Missing(h) # {} PROVE g = h
    BY <1>12, <1>14
  <1> HIDE DEF opens
  <1>15. /\ \A t \in Min(opens)..Max(opens) :
              t \in opens <=> ~ \E g \in Gaps(d) : t \in Missing(g)
         /\ \A g \in Gaps(d) :
              /\ Missing(g) # {} /\ Missing(g) \subseteq Min(opens)..Max(opens)
              /\ \A h \in Gaps(d) : Missing(g) \cap Missing(h) # {} => g = h
    BY <1>6, <1>7, <1>11, <1>13, <1>14, Zenon
  <1> QED
    BY <1>15 DEF opens

\* What the invariant says of what is downloaded, and of what is read back.
LEMMA DatasetFollows ==
    ASSUME DatasetInv PROVE OnlyFinalBars /\ NothingSkipped /\ LoadedIsWhole
  <1>1. rows \in Seq(Row) /\ data \in Seq(Row) /\ RowsInv /\ FilesInv /\ NothingSkipped
    BY DEF DatasetInv, DatasetTypeOK
  <1>2. OnlyFinalBars
    <2> SUFFICES ASSUME NEW i \in DOMAIN rows
                 PROVE  /\ i > 1 => rows[i - 1].open < rows[i].open
                        /\ rows[i].state = "forming" => begun <= rows[i].open /\ rows[i].open < end
      BY Zenon DEF OnlyFinalBars
    <2>1. i \in 1..Len(rows)
      BY <1>1
    <2>2. Honest(rows[i]) /\ rows[i].open < end
      BY <1>1, <2>1, Zenon DEF RowsInv
    <2>3. ASSUME i > 1 PROVE rows[i - 1].open < rows[i].open
      <3>1. i - 1 \in 1..Len(rows) /\ i - 1 < i
        BY <2>1, <2>3
      <3> QED
        BY <1>1, <2>1, <3>1, Zenon DEF RowsInv, Ordered
    <2>4. ASSUME rows[i].state = "forming" PROVE begun <= rows[i].open
      BY <2>2, <2>4 DEF Honest
    <2> QED
      BY <2>2, <2>3, <2>4, Zenon
  <1>3. LoadedIsWhole
    <2> SUFFICES ASSUME Loads PROVE LoadedIsWhole
      BY Zenon DEF LoadedIsWhole
    <2>1. manifest # NoManifest /\ data # <<>> /\ manifest.hash = data
      BY DEF Loads, NoFile
    <2>2. manifest.gaps = Gaps(data)
      <3>1. manifest = [hash |-> data, count |-> Len(data), gaps |-> Gaps(data)]
        BY <1>1, <2>1, Zenon DEF FilesInv
      <3> QED
        BY <3>1
    <2>3. Ordered(data)
      BY <1>1 DEF FilesInv
    <2> DEFINE opens == {data[i].open : i \in DOMAIN data}
               gaps == Gaps(data)
    <2>4. /\ \A t \in Min(opens)..Max(opens) : t \in opens <=> ~ \E g \in gaps : t \in Missing(g)
          /\ \A g \in gaps :
               /\ Missing(g) # {} /\ Missing(g) \subseteq Min(opens)..Max(opens)
               /\ \A h \in gaps : Missing(g) \cap Missing(h) # {} => g = h
      BY <1>1, <2>1, <2>3, GapsAccount, Zenon
    <2>5. manifest.gaps = gaps
      BY <2>2
    <2> HIDE DEF gaps
    <2> QED
      BY <2>2, <2>4, <2>5 DEF LoadedIsWhole
  <1> QED
    BY <1>1, <1>2, <1>3

-----------------------------------------------------------------------------
\* The local book.

\* A book has nothing before it is opened.
LEMMA BookInitially == BookInit => BookInv
  <1> SUFFICES ASSUME BookInit PROVE BookInv
    OBVIOUS
  <1>1. update = 0 /\ wire = <<>> /\ snapshot = NoUpdate /\ resyncs = 0
        /\ localBook = NewGeneration("UNINITIALIZED")
    BY Zenon DEF BookInit
  <1>2. NewGeneration("UNINITIALIZED") \in Generation
    BY BookAssumption DEF NewGeneration, Generation, NoUpdate, BookStates
  <1>3. localBook.state = "UNINITIALIZED" /\ localBook.buffer = <<>>
    BY <1>1 DEF NewGeneration
  <1> QED
    BY <1>1, <1>2, <1>3, BookAssumption DEF BookInv, BookTypeOK, BookStates, NoUpdate

\* A gap and a block keep what the book has and never leave it live.
LEMMA RevokedIsTyped ==
    ASSUME NEW b \in Generation
    PROVE  /\ Gap(b) \in Generation /\ Gap(b).state = "GAP_DETECTED" /\ Gap(b).buffer = b.buffer
           /\ Block(b) \in Generation /\ Block(b).state = "BLOCKED" /\ Block(b).buffer = b.buffer
  <1>1. Gap(b) \in Generation /\ Block(b) \in Generation
    BY DEF Gap, Block, Generation, BookStates
  <1>2. Gap(b).state = "GAP_DETECTED" /\ Gap(b).buffer = b.buffer
    BY DEF Gap, Generation
  <1>3. Block(b).state = "BLOCKED" /\ Block(b).buffer = b.buffer
    BY DEF Block, Generation
  <1> QED
    BY <1>1, <1>2, <1>3

\* A difference that a whole book takes leaves it whole.
LEMMA DifferenceKeepsWhole ==
    ASSUME NEW b \in Generation, NEW d \in Difference, b.content = 1..b.last
    PROVE  LET r == apply_diff(b, d)
           IN  /\ r \in Generation /\ r.buffer = b.buffer
               /\ r.state \in {b.state, "GAP_DETECTED", "BLOCKED"}
               /\ r.state \notin {"GAP_DETECTED", "BLOCKED"} => r.content = 1..r.last
  <1> DEFINE r == apply_diff(b, d)
  <1>0. /\ b.last \in Int /\ d.final \in Int /\ d.first \in Int /\ d.first >= 1
        /\ d.final \in 1..LastUpdate /\ d.seen \in 1..LastUpdate
        /\ b.content \subseteq 1..LastUpdate /\ LastUpdate \in Nat
    BY BookAssumption DEF Generation, Difference, NoUpdate
  <1>1. CASE d.final <= b.last
    BY <1>1 DEF apply_diff
  <1>2. CASE ~(d.final <= b.last) /\ (d.first > b.last + 1 \/ d.seen < b.observed)
    <2>1. r = Gap(b) \/ r = Block(b)
      BY <1>2 DEF apply_diff
    <2> HIDE DEF r
    <2> QED
      BY <2>1, RevokedIsTyped DEF r
  <1>3. CASE ~(d.final <= b.last) /\ ~(d.first > b.last + 1) /\ ~(d.seen < b.observed)
    <2> DEFINE c == b.content \cup d.first..d.final
    <2>1. r = [b EXCEPT !.last = d.final, !.content = c, !.observed = d.seen]
      BY <1>3, Zenon DEF apply_diff
    <2>2. c = 1..d.final
      BY <1>0, <1>3
    <2>3. c \in SUBSET (1..LastUpdate)
      BY <1>0, <2>2
    <2> HIDE DEF c, r
    <2>4. r \in Generation
      <3>1. d.final \in NoUpdate..LastUpdate /\ d.seen \in NoUpdate..LastUpdate
        BY <1>0 DEF NoUpdate
      <3> QED
        BY <2>1, <2>3, <3>1 DEF Generation
    <2>5. r.last = d.final /\ r.content = c /\ r.state = b.state /\ r.buffer = b.buffer
      BY <2>1 DEF Generation
    <2> QED
      BY <2>2, <2>4, <2>5 DEF r
  <1> QED
    BY <1>1, <1>2, <1>3

\* So does the replay of all that was buffered, however far it goes.
LEMMA ReplayKeepsWhole ==
    ASSUME NEW b \in Generation, b.state = "REPLAYING", b.content = 1..b.last
    PROVE  LET r == Replay(b)
           IN  /\ r \in Generation /\ r.buffer = b.buffer
               /\ r.state \in {"REPLAYING", "GAP_DETECTED", "BLOCKED"}
               /\ r.state = "REPLAYING" => r.content = 1..r.last
  <1> DEFINE n == Len(b.buffer)
             V == {v \in Generation :
                     /\ v.buffer = b.buffer /\ v.state \in {"REPLAYING", "GAP_DETECTED", "BLOCKED"}
                     /\ v.state = "REPLAYING" => v.content = 1..v.last}
             next(v, i) == IF v.state # "REPLAYING" THEN v ELSE apply_diff(v, b.buffer[i])
             F(f) == [i \in 0..n |-> IF i = 0 THEN b
                        ELSE IF f[i - 1].state # "REPLAYING" THEN f[i - 1]
                        ELSE apply_diff(f[i - 1], b.buffer[i])]
             step == [i \in 1..n |-> [v \in V |-> next(v, i)]]
             g == CHOOSE f : f = F(f)
  <1>1. n \in Nat /\ b \in V /\ \A i \in 1..n : b.buffer[i] \in Difference
    <2>1. b.buffer \in Seq(Difference)
      BY DEF Generation
    <2> QED
      BY <2>1, ElementOfSeq
  <1>2. ASSUME NEW v \in V, NEW i \in 1..n PROVE next(v, i) \in V
    <2>1. CASE v.state # "REPLAYING"
      BY <2>1
    <2>2. CASE v.state = "REPLAYING"
      <3> DEFINE d == b.buffer[i]
                 r == apply_diff(v, d)
      <3>1. next(v, i) = r
        BY <2>2
      <3>2. d \in Difference /\ v \in Generation /\ v.content = 1..v.last /\ v.buffer = b.buffer
        BY <1>1, <2>2
      <3> HIDE DEF d
      <3>3. /\ r \in Generation /\ r.buffer = v.buffer
            /\ r.state \in {v.state, "GAP_DETECTED", "BLOCKED"}
            /\ r.state \notin {"GAP_DETECTED", "BLOCKED"} => r.content = 1..r.last
        BY <3>2, DifferenceKeepsWhole
      <3> HIDE DEF r
      <3>4. r \in V
        BY <2>2, <3>2, <3>3
      <3> HIDE DEF V
      <3> QED
        BY <3>1, <3>4
    <2> QED
      BY <2>1, <2>2
  <1> HIDE DEF V
  <1>3. step \in [1..n -> [V -> V]]
    BY <1>2
  <1>4. PICK f \in [0..n -> V] : Unrolled(f, n, b, step)
    <2> HIDE DEF step, n
    <2> QED
      BY <1>1, <1>3, RecursionExists
  <1>5. f = F(f)
    <2>1. ASSUME NEW i \in 1..n PROVE step[i][f[i - 1]] = next(f[i - 1], i)
      <3>1. i - 1 \in 0..n
        BY <1>1
      <3>2. f[i - 1] \in V
        BY <1>4, <3>1
      <3> HIDE DEF next
      <3> QED
        BY <3>2
    <2> HIDE DEF step
    <2>2. f = [i \in 0..n |-> IF i = 0 THEN b ELSE step[i][f[i - 1]]]
      BY <1>4, Zenon DEF Unrolled
    <2>3. ASSUME NEW i \in 0..n PROVE f[i] = IF i = 0 THEN b ELSE next(f[i - 1], i)
      <3>1. f[i] = IF i = 0 THEN b ELSE step[i][f[i - 1]]
        BY <2>2
      <3>2. i # 0 => i \in 1..n
        BY <1>1
      <3> HIDE DEF next
      <3> QED
        BY <2>1, <3>1, <3>2
    <2>4. f = [i \in 0..n |-> IF i = 0 THEN b ELSE next(f[i - 1], i)]
      <3> HIDE DEF next
      <3> QED
        BY <1>4, <2>3
    <2> QED
      BY <2>4, Zenon
  <1>6. g = F(g)
    BY <1>5, Zenon
  <1>7. Replay(b) = g[n]
    BY Zenon DEF Replay
  <1> HIDE DEF g
  <1>8. ASSUME NEW i \in 0..n PROVE g[i] = IF i = 0 THEN b ELSE next(g[i - 1], i)
    BY <1>6
  <1> HIDE DEF next, F, step
  <1>9. n \in {i \in Nat : i <= n => g[i] \in V}
    <2> DEFINE R == {i \in Nat : i <= n => g[i] \in V}
    <2> HIDE DEF n
    <2>1. 0 \in R
      <3>1. 0 \in 0..n
        BY <1>1
      <3> QED
        BY <1>1, <1>8, <3>1
    <2>2. ASSUME NEW i \in Nat, i \in R PROVE i + 1 \in R
      <3> SUFFICES ASSUME i + 1 <= n PROVE g[i + 1] \in V
        OBVIOUS
      <3>1. i + 1 \in 0..n /\ i + 1 # 0 /\ (i + 1) - 1 = i /\ g[i] \in V /\ i + 1 \in 1..n
        BY <2>2, <1>1
      <3>2. g[i + 1] = next(g[i], i + 1)
        BY <1>8, <3>1
      <3> QED
        BY <1>2, <3>1, <3>2
    <2>3. Nat \subseteq R
      <3> HIDE DEF R
      <3> QED
        BY <2>1, <2>2, InductionOn
    <2> QED
      BY <1>1, <2>3
  <1>10. Replay(b) \in V
    <2> HIDE DEF n
    <2> QED
      BY <1>1, <1>7, <1>9
  <1> DEFINE r == Replay(b)
  <1> HIDE DEF r
  <1>11. r \in V
    BY <1>10 DEF r
  <1>12. /\ r \in Generation /\ r.buffer = b.buffer
         /\ r.state \in {"REPLAYING", "GAP_DETECTED", "BLOCKED"}
         /\ r.state = "REPLAYING" => r.content = 1..r.last
    BY <1>11 DEF V
  <1> QED
    BY <1>12 DEF r

\* Buffering keeps the differences within their bound or gives the book up.
LEMMA BufferedIsTyped ==
    ASSUME NEW b \in Generation, NEW d \in Difference, Len(b.buffer) <= MaxBuffer,
           b.state \in {"BUFFERING", "SNAPSHOT_PENDING"}
    PROVE  LET r == buffer_diff(b, d)
           IN  /\ r \in Generation /\ Len(r.buffer) <= MaxBuffer + 1
               /\ r.state = "GAP_DETECTED" \/ (r.state = b.state /\ Len(r.buffer) <= MaxBuffer)
  <1> DEFINE first == IF b.first = NoUpdate THEN d.first ELSE b.first
             queue == Append(b.buffer, d)
             kept == [b EXCEPT !.buffer = queue, !.first = first]
             r == buffer_diff(b, d)
  <1>1. first \in NoUpdate..LastUpdate
    BY BookAssumption DEF Generation, Difference, NoUpdate
  <1>2. queue \in Seq(Difference) /\ Len(queue) = Len(b.buffer) + 1 /\ Len(b.buffer) \in Nat
    <2>1. b.buffer \in Seq(Difference)
      BY DEF Generation
    <2> QED
      BY <2>1, AppendProperties
  <1>3. kept = [b EXCEPT !.buffer = Append(@, d), !.first = IF @ = NoUpdate THEN d.first ELSE @]
    OBVIOUS
  <1>4. r = IF Len(kept.buffer) > MaxBuffer THEN Gap(kept) ELSE kept
    BY <1>3, Zenon DEF buffer_diff
  <1> HIDE DEF first, queue, r
  <1>5. kept \in Generation /\ kept.state = b.state /\ kept.buffer = queue
    BY <1>1, <1>2 DEF Generation
  <1> HIDE DEF kept
  <1>6. Gap(kept) \in Generation /\ Gap(kept).state = "GAP_DETECTED" /\ Gap(kept).buffer = queue
    BY <1>5, RevokedIsTyped
  <1>7. Len(queue) <= MaxBuffer + 1
    BY <1>2, BookAssumption
  <1>8. CASE Len(queue) > MaxBuffer
    <2>1. r = Gap(kept)
      BY <1>4, <1>5, <1>8
    <2> QED
      BY <1>6, <1>7, <2>1 DEF r
  <1>9. CASE ~(Len(queue) > MaxBuffer)
    <2>1. r = kept /\ Len(queue) <= MaxBuffer
      BY <1>2, <1>4, <1>5, <1>9, BookAssumption
    <2> QED
      BY <1>5, <1>7, <2>1 DEF r
  <1> QED
    BY <1>8, <1>9

\* Every step keeps a live book whole.
LEMMA BookStep == BookInv /\ [BookNext]_bookVars => BookInv'
  <1> SUFFICES ASSUME BookInv, [BookNext]_bookVars PROVE BookInv'
    OBVIOUS
  <1> USE BookAssumption
  <1> DEFINE b == localBook
  <1>0. /\ update \in 0..LastUpdate /\ snapshot \in NoUpdate..LastUpdate /\ resyncs \in 0..Resyncs
        /\ wire \in {<<>>} \cup {<<d>> : d \in Difference}
        /\ b \in Generation /\ b.state \in BookStates /\ b.buffer \in Seq(Difference)
        /\ Len(b.buffer) <= MaxBuffer + 1 /\ update \in NoUpdate..LastUpdate
        /\ b.state = "LIVE" => b.content = 1..b.last
        /\ b.state \in {"BUFFERING", "SNAPSHOT_PENDING"} => Len(b.buffer) <= MaxBuffer
        /\ b.state \in {"LIVE", "UNINITIALIZED"} => b.buffer = <<>>
        /\ NoUpdate \in NoUpdate..LastUpdate
    BY DEF BookInv, BookTypeOK, Generation, NoUpdate
  <1>1. CASE Emit
    <2>1. UNCHANGED <<snapshot, localBook, resyncs>>
      BY <1>1, Zenon DEF Emit
    <2>2. PICK n \in 1..2 : /\ update + n <= LastUpdate /\ update' = update + n
                            /\ wire' \in {<<>>, <<Diff(update + 1, update + n, update + n)>>}
      BY <1>1, Zenon DEF Emit
    <2>3. update' \in 0..LastUpdate
      BY <1>0, <2>2
    <2>4. Diff(update + 1, update + n, update + n) \in Difference
      BY <1>0, <2>2 DEF Diff, Difference
    <2>5. wire' \in {<<>>} \cup {<<d>> : d \in Difference}
      BY <2>2, <2>4, Zenon
    <2> QED
      BY <2>1, <2>3, <2>5, Zenon DEF BookInv, BookTypeOK
  <1>2. ASSUME update' = update, snapshot' \in NoUpdate..LastUpdate, resyncs' \in 0..Resyncs,
               wire' \in {wire, <<>>}, localBook' \in Generation, localBook'.state \in BookStates,
               Len(localBook'.buffer) <= MaxBuffer + 1,
               localBook'.state = "LIVE" => localBook'.content = 1..localBook'.last,
               localBook'.state \in {"BUFFERING", "SNAPSHOT_PENDING"} => Len(localBook'.buffer) <= MaxBuffer,
               localBook'.state \in {"LIVE", "UNINITIALIZED"} => localBook'.buffer = <<>>
        PROVE  BookInv'
    <2>1. wire' \in {<<>>} \cup {<<d>> : d \in Difference}
      BY <1>0, <1>2, Zenon
    <2> QED
      BY <1>0, <1>2, <2>1, Zenon DEF BookInv, BookTypeOK
  <1>3. CASE Open \/ Request
    <2>1. /\ update' = update /\ wire' \in {wire, <<>>} /\ resyncs' = resyncs
          /\ snapshot' = snapshot \/ snapshot' = update
          /\ \/ b.state = "UNINITIALIZED" /\ localBook' = [b EXCEPT !.state = "BUFFERING"]
             \/ b.state = "BUFFERING" /\ localBook' = [b EXCEPT !.state = "SNAPSHOT_PENDING"]
      BY <1>3, Zenon DEF Open, Request
    <2>2. /\ localBook' \in Generation /\ localBook'.buffer = b.buffer
          /\ localBook'.state \in {"BUFFERING", "SNAPSHOT_PENDING"}
      BY <1>0, <2>1 DEF Generation, BookStates
    <2>3. Len(b.buffer) <= MaxBuffer
      BY <1>0, <2>1
    <2> HIDE DEF b
    <2> QED
      BY <1>0, <1>2, <2>1, <2>2, <2>3 DEF BookStates
  <1>4. CASE DeliverDiff
    <2>1. /\ wire # <<>> /\ wire' = <<>> /\ UNCHANGED <<update, snapshot, resyncs>>
          /\ localBook' = CASE b.state \in {"BUFFERING", "SNAPSHOT_PENDING"} -> buffer_diff(b, wire[1])
                            [] b.state = "LIVE" -> apply_diff(b, wire[1])
                            [] OTHER -> b
      BY <1>4, Zenon DEF DeliverDiff
    <2>2. wire[1] \in Difference
      BY <1>0, <2>1
    <2>3. CASE b.state \in {"BUFFERING", "SNAPSHOT_PENDING"}
      <3> DEFINE r == buffer_diff(b, wire[1])
      <3>1. localBook' = r
        BY <2>1, <2>3
      <3>2. /\ r \in Generation /\ Len(r.buffer) <= MaxBuffer + 1
            /\ r.state = "GAP_DETECTED" \/ (r.state = b.state /\ Len(r.buffer) <= MaxBuffer)
        BY <1>0, <2>2, <2>3, BufferedIsTyped, Zenon
      <3> HIDE DEF r, b
      <3> QED
        BY <1>0, <1>2, <2>1, <2>3, <3>1, <3>2 DEF BookStates
    <2>4. CASE b.state = "LIVE"
      <3> DEFINE r == apply_diff(b, wire[1])
      <3>1. localBook' = r
        BY <2>1, <2>4
      <3>2. /\ r \in Generation /\ r.buffer = b.buffer
            /\ r.state \in {b.state, "GAP_DETECTED", "BLOCKED"}
            /\ r.state \notin {"GAP_DETECTED", "BLOCKED"} => r.content = 1..r.last
        BY <1>0, <2>2, <2>4, DifferenceKeepsWhole, Zenon
      <3> HIDE DEF r, b
      <3> QED
        BY <1>0, <1>2, <2>1, <2>4, <3>1, <3>2 DEF BookStates
    <2>5. CASE b.state \notin {"BUFFERING", "SNAPSHOT_PENDING", "LIVE"}
      <3>1. localBook' = localBook
        BY <2>1, <2>5
      <3> QED
        BY <1>0, <1>2, <2>1, <3>1
    <2> QED
      BY <2>3, <2>4, <2>5
  <1>5. CASE Load
    <2>0. UNCHANGED <<update, wire, resyncs>> /\ snapshot # NoUpdate /\ b.state = "SNAPSHOT_PENDING"
      BY <1>5, Zenon DEF Load
    <2>1. CASE b.first # NoUpdate /\ snapshot + 1 < b.first
      <3>1. localBook' = localBook /\ snapshot' = update
        BY <1>5, <2>1, Zenon DEF Load
      <3> QED
        BY <1>0, <1>2, <2>0, <3>1
    <2>2. CASE ~(b.first # NoUpdate /\ snapshot + 1 < b.first)
      <3> DEFINE Started(seen_) == [b EXCEPT !.state = "REPLAYING", !.last = snapshot,
                                             !.content = 1..snapshot, !.observed = seen_]
      <3>1. PICK at \in snapshot..update :
              localBook' = [Replay(Started(at)) EXCEPT !.buffer = <<>>,
                               !.state = IF @ = "REPLAYING" THEN "LIVE" ELSE @]
        BY <1>5, <2>2, Zenon DEF Load
      <3>2. snapshot' = NoUpdate
        BY <1>5, <2>2, Zenon DEF Load
      <3> DEFINE s == Started(at)
                 r == Replay(s)
      <3>3. s \in Generation /\ s.state = "REPLAYING" /\ s.content = 1..s.last
        <4>1. snapshot \in 0..LastUpdate /\ at \in NoUpdate..LastUpdate
          BY <1>0, <2>0 DEF NoUpdate
        <4>2. 1..snapshot \in SUBSET (1..LastUpdate)
          BY <4>1
        <4>3. s \in Generation
          BY <1>0, <4>1, <4>2 DEF Generation, NoUpdate
        <4>4. s.state = "REPLAYING" /\ s.content = 1..snapshot /\ s.last = snapshot
          BY <1>0 DEF Generation
        <4> HIDE DEF s
        <4> QED
          BY <4>3, <4>4
      <3>4. localBook' = [r EXCEPT !.buffer = <<>>, !.state = IF r.state = "REPLAYING" THEN "LIVE" ELSE r.state]
        BY <3>1
      <3> HIDE DEF s, Started
      <3>5. /\ r \in Generation /\ r.state \in {"REPLAYING", "GAP_DETECTED", "BLOCKED"}
            /\ r.state = "REPLAYING" => r.content = 1..r.last
        BY <3>3, ReplayKeepsWhole, Zenon
      <3> HIDE DEF r
      <3>6. /\ localBook' \in Generation /\ localBook'.buffer = <<>>
            /\ localBook'.content = r.content /\ localBook'.last = r.last
            /\ localBook'.state = IF r.state = "REPLAYING" THEN "LIVE" ELSE r.state
        <4> DEFINE z == IF r.state = "REPLAYING" THEN "LIVE" ELSE r.state
        <4>1. z \in BookStates \cup {"REPLAYING"} /\ <<>> \in Seq(Difference)
          BY <3>5 DEF BookStates
        <4>2. localBook' = [r EXCEPT !.buffer = <<>>, !.state = z]
          BY <3>4
        <4> HIDE DEF z
        <4>3. localBook' \in Generation
          BY <3>5, <4>1, <4>2 DEF Generation
        <4>4. /\ localBook'.buffer = <<>> /\ localBook'.state = z
              /\ localBook'.content = r.content /\ localBook'.last = r.last
          BY <3>5, <4>2 DEF Generation
        <4> QED
          BY <4>3, <4>4 DEF z
      <3>7. localBook'.state \in {"LIVE", "GAP_DETECTED", "BLOCKED"}
        BY <3>5, <3>6
      <3>8. localBook'.state = "LIVE" => localBook'.content = 1..localBook'.last
        BY <3>5, <3>6
      <3> HIDE DEF b
      <3> QED
        BY <1>0, <1>2, <2>0, <3>2, <3>6, <3>7, <3>8 DEF BookStates
    <2> QED
      BY <2>1, <2>2
  <1>6. CASE SnapshotError \/ TransportFault \/ BeginBackoff
    <2>1. /\ update' = update /\ wire' \in {wire, <<>>} /\ resyncs' = resyncs
          /\ snapshot' = NoUpdate
          /\ \/ localBook' = [b EXCEPT !.revoked = TRUE, !.state = "RESYNC_BACKOFF"]
             \/ localBook' = Gap(b)
             \/ localBook' = [b EXCEPT !.state = "RESYNC_BACKOFF"]
      BY <1>6, Zenon DEF SnapshotError, TransportFault, BeginBackoff
    <2>2. /\ localBook' \in Generation /\ localBook'.buffer = b.buffer
          /\ localBook'.state \in {"RESYNC_BACKOFF", "GAP_DETECTED"}
      <3>1. Gap(b) \in Generation /\ Gap(b).state = "GAP_DETECTED" /\ Gap(b).buffer = b.buffer
        BY <1>0, RevokedIsTyped
      <3> QED
        BY <1>0, <2>1, <3>1 DEF Generation, BookStates
    <2> HIDE DEF b
    <2> QED
      BY <1>0, <1>2, <2>1, <2>2 DEF BookStates
  <1>7. CASE Renew
    <2>0. snapshot' = NoUpdate /\ UNCHANGED <<update, wire>>
      BY <1>7, Zenon DEF Renew
    <2>1. CASE resyncs < Resyncs
      <3>1. resyncs' = resyncs + 1 /\ localBook' = NewGeneration("UNINITIALIZED")
        BY <1>7, <2>1, Zenon DEF Renew
      <3>2. NewGeneration("UNINITIALIZED") \in Generation
        BY DEF NewGeneration, Generation, NoUpdate, BookStates
      <3>3. localBook'.state = "UNINITIALIZED" /\ localBook'.buffer = <<>>
        BY <3>1 DEF NewGeneration
      <3>4. resyncs' \in 0..Resyncs
        BY <1>0, <2>1, <3>1
      <3> HIDE DEF b
      <3> QED
        BY <1>0, <1>2, <2>0, <3>1, <3>2, <3>3, <3>4 DEF BookStates
    <2>2. CASE ~(resyncs < Resyncs)
      <3>1. UNCHANGED resyncs /\ localBook' = Block(b)
        BY <1>7, <2>2, Zenon DEF Renew
      <3>2. Block(b) \in Generation /\ Block(b).state = "BLOCKED" /\ Block(b).buffer = b.buffer
        BY <1>0, RevokedIsTyped
      <3> HIDE DEF b
      <3> QED
        BY <1>0, <1>2, <2>0, <3>1, <3>2 DEF BookStates
    <2> QED
      BY <2>1, <2>2
  <1>8. CASE UNCHANGED bookVars
    BY <1>8, Zenon DEF bookVars, BookInv, BookTypeOK
  <1> QED
    BY <1>1, <1>3, <1>4, <1>5, <1>6, <1>7, <1>8, Zenon DEF BookNext

\* What is published is live, and so whole.
LEMMA BookFollows == BookInv => PublishedBookIsTrue
  BY DEF BookInv, PublishedBookIsTrue, Published

-----------------------------------------------------------------------------
\* The guard of deliveries.

\* Nothing was delivered at the start.
LEMMA GuardInitially == GuardInit => GuardInv
  <1> SUFFICES ASSUME GuardInit PROVE GuardInv
    OBVIOUS
  <1>1. seen = {} /\ high = 0 /\ watermark = 0 /\ deliveries = <<>>
    BY Zenon DEF GuardInit
  <1>2. DOMAIN deliveries = {}
    BY <1>1
  <1> QED
    BY <1>1, <1>2, GuardAssumption DEF GuardInv, GuardTypeOK, AppliedQuotes, QuotesAt

\* What the guard may say of a delivery.
Classes == {"DUPLICATE", "CLOCK_FAULT", "LATE", "OUT_OF_ORDER", "ON_TIME"}
Delivery == [event : Events, apply : BOOLEAN, class : Classes]

\* Events are numbered, and their age and kind are among the known ones.
LEMMA EventIsNumbered ==
    ASSUME NEW e \in Events PROVE e.n \in Int /\ e.n \in Nat /\ e.n >= 1 /\ e.n \in Numbers /\ e.kind \in Kinds
  <1>1. e \in [kind : Kinds, n : Numbers, payload : {"a", "b"}, age : BarAges]
    BY Zenon DEF Events
  <1>2. e.n \in Numbers /\ e.kind \in Kinds
    BY <1>1
  <1>3. Numbers \subseteq Nat \ {0}
    BY GuardAssumption
  <1>4. e.n \in Nat /\ e.n # 0
    BY <1>2, <1>3, Zenon
  <1> QED
    BY <1>2, <1>4

\* What a delivery must be for the results to stay in order.
LEMMA GuardAppends ==
    ASSUME GuardInv, NEW e \in Events, NEW class \in Classes, NEW apply \in BOOLEAN,
           Len(deliveries) < MaxDeliveries,
           deliveries' = Append(deliveries, [event |-> e, class |-> class, apply |-> apply]),
           \/ seen' = seen
           \/ class # "DUPLICATE" /\ seen' = seen \cup {[is |-> Identity(e), payload |-> e.payload]},
           class = "DUPLICATE" => apply = FALSE /\ IsSeen(e),
           watermark' \in {0} \cup Numbers, high' \in {0} \cup Numbers,
           watermark <= watermark', high <= high',
           apply => IF e.kind = "bar" THEN e.n <= watermark' ELSE high <= e.n /\ e.n <= high'
    PROVE  GuardInv'
  <1> DEFINE x == [event |-> e, class |-> class, apply |-> apply]
             d == deliveries
             l == Len(d)
             next == deliveries'
  <1>1. x \in Delivery /\ x.event = e /\ x.class = class /\ x.apply = apply
    BY Zenon DEF Delivery
  <1>2. d \in Seq(Delivery) /\ l \in Nat /\ DOMAIN d = 1..l /\ MaxDeliveries \in Nat
        /\ watermark \in Int /\ high \in Int /\ watermark' \in Int /\ high' \in Int
    BY GuardAssumption DEF GuardInv, GuardTypeOK, Delivery, Classes
  <1>3. next = Append(d, x)
    OBVIOUS
  <1> HIDE DEF x
  <1>4. /\ next \in Seq(Delivery) /\ Len(next) = l + 1 /\ next[l + 1] = x
        /\ DOMAIN next = 1..(l + 1) /\ l + 1 \in DOMAIN next
        /\ \A i \in 1..l : next[i] = d[i] /\ i \in DOMAIN next
    BY <1>1, <1>2, <1>3, AppendProperties
  <1> HIDE DEF next, d, l
  <1>5. ASSUME NEW i \in DOMAIN next, i # l + 1 PROVE i \in DOMAIN d /\ i \in 1..l /\ next[i] = d[i]
    BY <1>2, <1>4, <1>5
  <1> DEFINE Same(q, k, is) == q[k].class # "DUPLICATE" /\ Identity(q[k].event) = is
  <1>6. \A s \in seen : \E i \in DOMAIN d : Same(d, i, s.is)
    BY Zenon DEF GuardInv, SameEvent, d
  <1>7. ASSUME NEW is, \E i \in DOMAIN d : Same(d, i, is) PROVE \E i \in DOMAIN next : Same(next, i, is)
    BY <1>2, <1>4, <1>7, Zenon
  <1>8. ASSUME NEW s \in seen' PROVE \E i \in DOMAIN next : Same(next, i, s.is)
    <2>1. CASE s \in seen
      BY <1>6, <1>7, <2>1, Zenon
    <2>2. CASE class # "DUPLICATE" /\ s = [is |-> Identity(e), payload |-> e.payload]
      <3>1. s.is = Identity(e)
        BY <2>2
      <3>2. Same(next, l + 1, s.is)
        BY <1>1, <1>4, <2>2, <3>1
      <3> QED
        BY <1>4, <3>2, Zenon
    <2> QED
      BY <2>1, <2>2
  <1> DEFINE Numbered(q, i, w, h) == IF q[i].event.kind = "bar" THEN q[i].event.n <= w
                                     ELSE q[i].event.n <= h
  <1>9. \A i \in DOMAIN d :
          /\ d[i].class = "DUPLICATE" =>
               d[i].apply = FALSE /\ \E k \in DOMAIN d : Same(d, k, Identity(d[i].event))
          /\ d[i].apply => Numbered(d, i, watermark, high)
    BY Zenon DEF GuardInv, SameEvent, d
  <1>10. ASSUME NEW i \in DOMAIN d PROVE d[i].event.n \in Int /\ d[i].apply \in BOOLEAN
    <2>1. d[i] \in Delivery
      BY <1>2, ElementOfSeq, Zenon DEF l
    <2>2. d[i].event \in Events /\ d[i].apply \in BOOLEAN
      BY <2>1, Zenon DEF Delivery
    <2> QED
      BY <2>2, EventIsNumbered
  <1> HIDE DEF Same
  <1>11. ASSUME NEW i \in DOMAIN next, next[i].class = "DUPLICATE"
         PROVE  next[i].apply = FALSE /\ \E k \in DOMAIN next : Same(next, k, Identity(next[i].event))
    <2>1. CASE i = l + 1
      <3>1. class = "DUPLICATE" /\ next[i].apply = FALSE /\ next[i].event = e /\ IsSeen(e)
        BY <1>1, <1>4, <1>11, <2>1, Zenon
      <3>2. PICK s \in seen : s.is = Identity(e)
        BY <3>1, Zenon DEF IsSeen
      <3> QED
        BY <1>6, <1>7, <3>1, <3>2, Zenon
    <2>2. CASE i # l + 1
      BY <1>5, <1>7, <1>9, <1>11, <2>2, Zenon
    <2> QED
      BY <2>1, <2>2
  <1>12. ASSUME NEW i \in DOMAIN next, next[i].apply
         PROVE  Numbered(next, i, watermark', high')
    <2>1. CASE i = l + 1
      <3>1. next[i].event = e /\ apply
        BY <1>1, <1>4, <1>12, <2>1, Zenon
      <3> QED
        BY <3>1, Zenon
    <2>2. CASE i # l + 1
      <3>1. i \in DOMAIN d /\ next[i] = d[i] /\ d[i].apply
        BY <1>5, <1>12, <2>2, Zenon
      <3>2. Numbered(d, i, watermark, high) /\ d[i].event.n \in Int
        BY <1>9, <1>10, <3>1, Zenon
      <3> QED
        BY <1>2, <3>1, <3>2
    <2> QED
      BY <2>1, <2>2
  <1> DEFINE Quotes(q) == {i \in DOMAIN q : q[i].event.kind = "quote" /\ q[i].apply}
  <1>13. AppliedQuotes = Quotes(d) /\ AppliedQuotes' = Quotes(next)
    BY Zenon DEF AppliedQuotes, QuotesAt, d, next
  <1>14. \A i, j \in Quotes(d) : i < j => d[i].event.n <= d[j].event.n
    <2>1. \A i, j \in AppliedQuotes : i < j => d[i].event.n <= d[j].event.n
      BY Zenon DEF GuardInv, d
    <2> QED
      BY <1>13, <2>1, Zenon
  <1>15. ASSUME NEW i \in Quotes(next), NEW j \in Quotes(next), i < j
         PROVE  next[i].event.n <= next[j].event.n
    <2>0. i \in DOMAIN next /\ j \in DOMAIN next /\ next[i].event.kind = "quote" /\ next[i].apply
          /\ next[j].event.kind = "quote" /\ next[j].apply
      BY Zenon
    <2>1. i # l + 1
      BY <1>2, <1>4, <1>15, <2>0
    <2>2. i \in DOMAIN d /\ next[i] = d[i] /\ i \in Quotes(d)
      BY <1>5, <2>0, <2>1, Zenon
    <2>3. CASE j = l + 1
      <3>1. next[j].event = e /\ apply
        BY <1>1, <1>4, <2>0, <2>3, Zenon
      <3>2. high <= e.n /\ e.n \in Int
        <4>1. e.kind # "bar"
          BY <2>0, <3>1
        <4>2. high <= e.n
          BY <3>1, <4>1, Zenon
        <4>3. e.n \in Int
          BY EventIsNumbered
        <4> QED
          BY <4>2, <4>3
      <3>3. d[i].event.n <= high /\ d[i].event.n \in Int
        <4>1. d[i].event.kind # "bar" /\ d[i].apply
          BY <2>0, <2>2
        <4> QED
          BY <1>9, <1>10, <2>2, <4>1, Zenon
      <3> QED
        BY <1>2, <2>2, <3>1, <3>2, <3>3
    <2>4. CASE j # l + 1
      <3>1. j \in DOMAIN d /\ next[j] = d[j] /\ j \in Quotes(d)
        BY <1>5, <2>0, <2>4, Zenon
      <3> QED
        BY <1>14, <1>15, <2>2, <3>1, Zenon
    <2> QED
      BY <2>3, <2>4
  <1>16. GuardTypeOK'
    <2>1. Len(next) <= MaxDeliveries
      BY <1>2, <1>4 DEF l, d
    <2> QED
      BY <1>4, <2>1, Zenon DEF GuardTypeOK, Delivery, Classes, next
  <1> QED
    BY <1>8, <1>11, <1>12, <1>13, <1>15, <1>16, Zenon DEF GuardInv, SameEvent, Same, next

\* Every classification is one of those.
LEMMA GuardStep == GuardInv /\ [GuardNext]_guardVars => GuardInv'
  <1> SUFFICES ASSUME GuardInv, [GuardNext]_guardVars PROVE GuardInv'
    OBVIOUS
  <1>0. /\ watermark \in {0} \cup Numbers /\ high \in {0} \cup Numbers
        /\ watermark \in Int /\ high \in Int /\ watermark <= watermark /\ high <= high
    BY GuardAssumption DEF GuardInv, GuardTypeOK
  <1>1. CASE UNCHANGED guardVars
    BY <1>1, Zenon DEF guardVars, GuardInv, GuardTypeOK, SameEvent, AppliedQuotes, QuotesAt
  <1>2. ASSUME NEW e \in Events, Len(deliveries) < MaxDeliveries,
               Duplicate(e) \/ FromTheFuture(e) \/ Late(e) \/ OnTime(e)
        PROVE  GuardInv'
    <2>0. e.n \in Int /\ e.n \in Numbers /\ e.kind \in Kinds
      BY EventIsNumbered
    <2>a. "DUPLICATE" \in Classes /\ "CLOCK_FAULT" \in Classes /\ "LATE" \in Classes
          /\ "OUT_OF_ORDER" \in Classes /\ "ON_TIME" \in Classes
          /\ "CLOCK_FAULT" # "DUPLICATE" /\ "LATE" # "DUPLICATE"
          /\ "OUT_OF_ORDER" # "DUPLICATE" /\ "ON_TIME" # "DUPLICATE"
      BY DEF Classes
    <2>1. CASE Duplicate(e)
      <3>1. /\ IsSeen(e) /\ UNCHANGED <<seen, high, watermark>>
            /\ deliveries' = Append(deliveries, [event |-> e, class |-> "DUPLICATE", apply |-> FALSE])
        BY <2>1, Zenon DEF Duplicate, DeliverBar
      <3> QED
        BY <1>0, <1>2, <2>a, <3>1, GuardAppends, Zenon
    <2>2. CASE FromTheFuture(e)
      <3>1. /\ UNCHANGED <<seen, high, watermark>>
            /\ deliveries' = Append(deliveries, [event |-> e, class |-> "CLOCK_FAULT", apply |-> FALSE])
        BY <2>2, Zenon DEF FromTheFuture, DeliverBar
      <3> QED
        BY <1>0, <1>2, <2>a, <3>1, GuardAppends, Zenon
    <2>3. CASE Late(e)
      <3>1. /\ seen' = seen \cup {[is |-> Identity(e), payload |-> e.payload]}
            /\ UNCHANGED <<high, watermark>>
            /\ deliveries' = Append(deliveries, [event |-> e, class |-> "LATE", apply |-> FALSE])
        BY <2>3, Zenon DEF Late, DeliverBar, See
      <3> QED
        BY <1>0, <1>2, <2>a, <3>1, GuardAppends, Zenon
    <2>4. CASE OnTime(e)
      <3>0. /\ seen' = seen \cup {[is |-> Identity(e), payload |-> e.payload]}
            /\ ~(e.kind = "bar" /\ e.n < watermark)
            /\ high' = IF e.kind = "quote" /\ ~OutOfOrder(e) THEN e.n ELSE high
            /\ watermark' = IF e.kind = "bar" THEN e.n ELSE watermark
        BY <2>4, Zenon DEF OnTime, See
      <3>1. CASE OutOfOrder(e)
        <4>1. /\ e.kind = "quote" /\ UNCHANGED <<high, watermark>>
              /\ deliveries' = Append(deliveries,
                                      [event |-> e, class |-> "OUT_OF_ORDER", apply |-> FALSE])
          BY <2>4, <3>0, <3>1 DEF OnTime, DeliverBar, OutOfOrder
        <4> QED
          BY <1>0, <1>2, <2>a, <3>0, <4>1, GuardAppends, Zenon
      <3>2. CASE ~OutOfOrder(e)
        <4>1. deliveries' = Append(deliveries, [event |-> e, class |-> "ON_TIME", apply |-> e.age = "FRESH"])
          BY <2>4, <3>2, Zenon DEF OnTime, DeliverBar
        <4>2. /\ watermark' \in {0} \cup Numbers /\ high' \in {0} \cup Numbers
              /\ watermark <= watermark' /\ high <= high'
              /\ IF e.kind = "bar" THEN e.n <= watermark' ELSE high <= e.n /\ e.n <= high'
          <5>1. CASE e.kind = "bar"
            BY <1>0, <2>0, <3>0, <5>1
          <5>2. CASE e.kind = "quote"
            BY <1>0, <2>0, <3>0, <3>2, <5>2 DEF OutOfOrder
          <5> QED
            BY <2>0, <5>1, <5>2 DEF Kinds
        <4> DEFINE fresh == e.age = "FRESH"
        <4>3. CASE fresh
          <5>1. deliveries' = Append(deliveries, [event |-> e, class |-> "ON_TIME", apply |-> TRUE])
            <6>1. fresh = TRUE
              BY <4>3, Zenon
            <6> QED
              BY <4>1, <6>1, Zenon
          <5> QED
            BY <1>0, <1>2, <2>a, <3>0, <4>2, <5>1, GuardAppends, Zenon
        <4>4. CASE ~fresh
          <5>1. deliveries' = Append(deliveries, [event |-> e, class |-> "ON_TIME", apply |-> FALSE])
            <6>1. fresh = FALSE
              BY <4>4, Zenon
            <6> QED
              BY <4>1, <6>1, Zenon
          <5> QED
            BY <1>0, <1>2, <2>a, <3>0, <4>2, <5>1, GuardAppends, Zenon
        <4> QED
          BY <4>3, <4>4
      <3> QED
        BY <3>1, <3>2
    <2> QED
      BY <1>2, <2>1, <2>2, <2>3, <2>4
  <1> QED
    BY <1>1, <1>2, Zenon DEF GuardNext

\* Numbers without a hole hold every number between two of them.
LEMMA ContiguousIsWhole ==
    ASSUME NEW S, S \subseteq Nat, Contiguous(S), NEW a \in S, NEW b \in S,
           NEW n \in Nat, a < n, n < b
    PROVE  n \in S
  <1> DEFINE T == {k \in Nat : a + k <= b => a + k \in S}
  <1>1. 0 \in T
    OBVIOUS
  <1>2. ASSUME NEW k \in Nat, k \in T PROVE k + 1 \in T
    <2> SUFFICES ASSUME a + (k + 1) <= b PROVE a + (k + 1) \in S
      OBVIOUS
    <2>1. a + k \in S /\ b > a + k /\ a + (k + 1) = (a + k) + 1
      BY <1>2
    <2> QED
      BY <2>1, Zenon DEF Contiguous
  <1>3. Nat \subseteq T
    <2> HIDE DEF T
    <2> QED
      BY <1>1, <1>2, InductionOn
  <1>4. n - a \in Nat /\ a + (n - a) = n /\ n <= b
    OBVIOUS
  <1> QED
    BY <1>3, <1>4

\* A frame that is fit has every bar once, applied, and the newest quote.
LEMMA GuardFollows == GuardInv => FrameIsTrue
  <1> SUFFICES ASSUME GuardInv, Qualified PROVE
        /\ \A i, j \in BarsAt : deliveries[i].event.n = deliveries[j].event.n => i = j
        /\ \A i \in BarsAt : Final(i)
        /\ \A i, j \in BarsAt : \A n \in Numbers :
             deliveries[i].event.n < n /\ n < deliveries[j].event.n => n \in BarNumbers
        /\ \A j \in QuotesAt : deliveries[j].event.n <= deliveries[Quote].event.n
    BY Zenon DEF FrameIsTrue
  <1> DEFINE d == deliveries
             Number(i) == d[i].event.n
  <1>1. /\ d \in Seq(Delivery) /\ DOMAIN d = 1..Len(d) /\ Len(d) \in Nat /\ watermark \in Int
    BY GuardAssumption DEF GuardInv, GuardTypeOK, Delivery, Classes
  <1>2. ASSUME NEW i \in DOMAIN d
        PROVE  /\ d[i].event \in Events /\ Number(i) \in Int /\ Number(i) \in Nat
               /\ Number(i) \in Numbers /\ d[i].event.kind \in Kinds /\ d[i].apply \in BOOLEAN
    <2>1. d[i] \in Delivery
      BY <1>1, ElementOfSeq, Zenon
    <2>2. d[i].event \in Events /\ d[i].apply \in BOOLEAN
      BY <2>1, Zenon DEF Delivery
    <2> QED
      BY <2>2, EventIsNumbered, Zenon
  <1>3. /\ AppliedQuotes # {} /\ Cardinality(BarsAt) = Cardinality(BarNumbers) /\ Contiguous(BarNumbers)
        /\ \A i \in DOMAIN d : d[i].apply \/ d[i].class = "DUPLICATE"
    BY Zenon DEF Qualified, Complete, BarGap, Failures
  <1>4. IsFiniteSet(BarsAt) /\ IsFiniteSet(AppliedQuotes)
    <2>1. IsFiniteSet(1..Len(d))
      BY <1>1, FS_Interval
    <2>2. BarsAt \in SUBSET (1..Len(d)) /\ AppliedQuotes \in SUBSET (1..Len(d))
      BY <1>1 DEF BarsAt, AppliedQuotes, QuotesAt
    <2> QED
      BY <2>1, <2>2, FS_Subset, Zenon
  <1>5. \A i, j \in BarsAt : Number(i) = Number(j) => i = j
    <2> DEFINE f == [i \in BarsAt |-> Number(i)]
    <2>1. BarNumbers = {f[i] : i \in BarsAt}
      BY DEF BarNumbers
    <2> HIDE DEF f
    <2>2. \A i, j \in BarsAt : f[i] = f[j] => i = j
      BY <1>3, <1>4, <2>1, DistinctCount
    <2> QED
      BY <2>2 DEF f
  <1>6. ASSUME NEW i \in DOMAIN d, d[i].class = "DUPLICATE"
        PROVE  \E k \in DOMAIN d : /\ d[k].class # "DUPLICATE" /\ d[k].apply
                                   /\ d[k].event.kind = d[i].event.kind /\ Number(k) = Number(i)
    <2>1. PICK k \in DOMAIN d : SameEvent(k, Identity(d[i].event))
      BY <1>6, Zenon DEF GuardInv
    <2>2. d[k].class # "DUPLICATE" /\ Identity(d[k].event) = Identity(d[i].event)
      BY <2>1, Zenon DEF SameEvent
    <2>3. d[k].event.kind = d[i].event.kind /\ Number(k) = Number(i)
      BY <2>2 DEF Identity
    <2> QED
      BY <1>3, <2>2, <2>3, Zenon
  <1>7. ASSUME NEW i \in BarsAt PROVE Final(i)
    <2>1. i \in DOMAIN d /\ d[i].event.kind = "bar"
      BY Zenon DEF BarsAt
    <2>2. d[i].class # "DUPLICATE"
      <3> SUFFICES ASSUME d[i].class = "DUPLICATE" PROVE FALSE
        OBVIOUS
      <3>1. PICK k \in DOMAIN d : /\ d[k].class # "DUPLICATE" /\ d[k].apply
                                  /\ d[k].event.kind = d[i].event.kind /\ Number(k) = Number(i)
        BY <1>6, <2>1, Zenon
      <3>2. k \in BarsAt
        BY <2>1, <3>1, Zenon DEF BarsAt
      <3> QED
        BY <1>5, <3>1, <3>2, Zenon
    <2>3. d[i].apply /\ Number(i) <= watermark
      BY <1>3, <2>1, <2>2, Zenon DEF GuardInv
    <2>4. watermark >= Number(i)
      BY <1>1, <1>2, <2>1, <2>3
    <2> QED
      BY <2>3, <2>4, Zenon DEF Final
  <1>8. ASSUME NEW i \in BarsAt, NEW j \in BarsAt, NEW n \in Numbers, Number(i) < n, n < Number(j)
        PROVE  n \in BarNumbers
    <2>1. Number(i) \in BarNumbers /\ Number(j) \in BarNumbers
      BY Zenon DEF BarNumbers
    <2>2. BarNumbers \subseteq Nat /\ n \in Nat
      <3>1. \A k \in BarsAt : Number(k) \in Nat
        BY <1>2, Zenon DEF BarsAt
      <3>2. n \in Nat
        BY GuardAssumption
      <3> QED
        BY <3>1, <3>2, Zenon DEF BarNumbers
    <2> QED
      BY <1>3, <1>8, <2>1, <2>2, ContiguousIsWhole, Zenon
  <1>9. Quote \in AppliedQuotes /\ \A j \in AppliedQuotes : j <= Quote
    <2>1. AppliedQuotes \subseteq Int
      BY <1>1 DEF AppliedQuotes, QuotesAt
    <2>2. PICK i \in AppliedQuotes : \A j \in AppliedQuotes : i >= j
      BY <1>3, <1>4, <2>1, GreatestExists, Zenon
    <2>3. \A j \in AppliedQuotes : j <= i
      BY <2>1, <2>2
    <2> QED
      BY <2>3, Zenon DEF Quote
  <1>10. ASSUME NEW j \in AppliedQuotes PROVE Number(j) <= Number(Quote)
    <2>1. j \in DOMAIN d /\ j \in Int /\ Quote \in Int
      BY <1>1, <1>9 DEF AppliedQuotes, QuotesAt
    <2>2. j <= Quote
      BY <1>9
    <2>3. CASE j = Quote
      BY <1>2, <2>1, <2>3
    <2>4. CASE j # Quote
      <3>1. j < Quote
        BY <2>1, <2>2, <2>4
      <3> QED
        BY <1>9, <3>1, Zenon DEF GuardInv
    <2> QED
      BY <2>3, <2>4
  <1>11. ASSUME NEW j \in QuotesAt PROVE Number(j) <= Number(Quote)
    <2>1. j \in DOMAIN d /\ d[j].event.kind = "quote"
      BY Zenon DEF QuotesAt
    <2>2. CASE d[j].apply
      BY <1>10, <2>2, Zenon DEF AppliedQuotes
    <2>3. CASE d[j].class = "DUPLICATE"
      <3>1. PICK k \in DOMAIN d : /\ d[k].class # "DUPLICATE" /\ d[k].apply
                                  /\ d[k].event.kind = d[j].event.kind /\ Number(k) = Number(j)
        BY <1>6, <2>1, <2>3, Zenon
      <3>2. k \in AppliedQuotes
        BY <2>1, <3>1, Zenon DEF AppliedQuotes, QuotesAt
      <3> QED
        BY <1>10, <3>1, <3>2, Zenon
    <2> QED
      BY <1>3, <2>1, <2>2, <2>3
  <1> QED
    BY <1>5, <1>7, <1>8, <1>11, Zenon

-----------------------------------------------------------------------------
\* The composed system.

\* A step of the system is a step of each part or leaves it alone.
LEMMA StepOfEachPart ==
    ASSUME [Next]_marketVars
    PROVE  /\ [ObserverNext]_observerVars
           /\ [FlowNext]_flowVars
           /\ [LinkNext]_linkVars
           /\ [RequestNext]_requestVars
           /\ [DailyNext]_dailyVars
           /\ [DatasetNext]_datasetVars
           /\ [BookNext]_bookVars
           /\ [GuardNext]_guardVars
  <1>1. [ObserverNext]_observerVars
    BY Zenon DEF Next, marketVars
  <1>2. [FlowNext]_flowVars
    BY Zenon DEF Next, marketVars
  <1>3. [LinkNext]_linkVars
    BY Zenon DEF Next, marketVars
  <1>4. [RequestNext]_requestVars
    BY Zenon DEF Next, marketVars
  <1>5. [DailyNext]_dailyVars
    BY Zenon DEF Next, marketVars
  <1>6. [DatasetNext]_datasetVars
    BY Zenon DEF Next, marketVars
  <1>7. [BookNext]_bookVars
    BY Zenon DEF Next, marketVars
  <1>8. [GuardNext]_guardVars
    BY Zenon DEF Next, marketVars
  <1> QED
    BY <1>1, <1>2, <1>3, <1>4, <1>5, <1>6, <1>7, <1>8

\* What every part knows at the start.
LEMMA MarketInitially == Init => MarketInv
  <1> SUFFICES ASSUME Init PROVE MarketInv
    OBVIOUS
  <1>1. /\ ObserverInit /\ FlowInit /\ LinkInit /\ RequestInit /\ DailyInit /\ DatasetInit
        /\ BookInit /\ GuardInit
    BY Zenon DEF Init
  <1> QED
    BY <1>1, ObserverInitially, FlowInitially, LinkInitially, RequestInitially, DailyInitially,
       DatasetInitially, BookInitially, GuardInitially, Zenon DEF MarketInv

\* What every part knows, it still knows after a step of any of them.
LEMMA MarketStep == MarketInv /\ [Next]_marketVars => MarketInv'
  <1> SUFFICES ASSUME MarketInv, [Next]_marketVars PROVE MarketInv'
    OBVIOUS
  <1>1. /\ ObserverInv /\ FlowInv /\ LinkTypeOK /\ RequestInv /\ DailyTypeOK /\ DatasetInv
        /\ BookInv /\ GuardInv
    BY Zenon DEF MarketInv
  <1>2. /\ [ObserverNext]_observerVars /\ [FlowNext]_flowVars /\ [LinkNext]_linkVars
        /\ [RequestNext]_requestVars /\ [DailyNext]_dailyVars /\ [DatasetNext]_datasetVars
        /\ [BookNext]_bookVars /\ [GuardNext]_guardVars
    BY StepOfEachPart
  <1>3. ObserverInv' /\ FlowInv' /\ LinkTypeOK' /\ DailyTypeOK'
    BY <1>1, <1>2, ObserverStep, FlowStep, LinkTypeStep, DailyTypeStep, Zenon
  <1>4. RequestInv' /\ DatasetInv' /\ BookInv' /\ GuardInv'
    BY <1>1, <1>2, RequestStep, DatasetStep, BookStep, GuardStep, Zenon
  <1> QED
    BY <1>3, <1>4, Zenon DEF MarketInv

\* The inductive invariants of all the parts hold of the market data path.
THEOREM MarketInvariance == Spec => []MarketInv
  BY MarketInitially, MarketStep, PTL DEF Spec

\* The observer's history, the returns it calls qualified, the trades it sums, the book it
\* publishes and the frame of bars an evaluation gets are what the venue did.
THEOREM EvidenceHolds == Spec => []EvidenceIsTrue
  <1>1. MarketInv => EvidenceIsTrue
    <2> SUFFICES ASSUME MarketInv PROVE EvidenceIsTrue
      OBVIOUS
    <2>1. ObserverInv /\ FlowInv /\ BookInv /\ GuardInv
      BY Zenon DEF MarketInv
    <2> QED
      BY <2>1, ObserverFollows, FlowFollows, BookFollows, GuardFollows, Zenon DEF EvidenceIsTrue
  <1> QED
    BY <1>1, MarketInvariance, PTL

\* With one retry left a clock that drifted costs no signed request, however far it is off.
THEOREM DriftSurvived == ASSUME MaxRetries > 1 PROVE Spec => []DriftIsSurvived
  <1>1. MarketInv => DriftIsSurvived
    BY Zenon DEF MarketInv, RequestInv
  <1> QED
    BY <1>1, MarketInvariance, PTL

\* A download is the venue's history as far as it had closed when the download began, and a
\* dataset that loads is a download.
THEOREM DownloadsHold == Spec => []DownloadsAreWhole
  <1>1. MarketInv => DownloadsAreWhole
    BY DatasetFollows, Zenon DEF MarketInv, DownloadsAreWhole
  <1> QED
    BY <1>1, MarketInvariance, PTL
=============================================================================
