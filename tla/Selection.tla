------------------------------ MODULE Selection ------------------------------
(***************************************************************************)
(* Loops of the code over a list, and what can be said of all of them.     *)
(* The recorders go through a list of pending steps, examples or bars and  *)
(* keep some of them; a Python comprehension with a condition keeps the    *)
(* order.  The condition is a set here, so that what is kept is a value    *)
(* that theorems can speak of.                                             *)
(*                                                                         *)
(* The lemmas are induction over data: any set of numbers that is not      *)
(* empty has a least element, since its initial segments are finite sets   *)
(* and strict inclusion of those is well founded.  A sum over a finite set *)
(* is a loop as well, over a listing of it.                                *)
(***************************************************************************)
EXTENDS Integers, Sequences, SequenceTheorems, FiniteSetTheorems, WellFoundedInduction, TLAPS

\* [x for x in s if x in T].
Kept(s, T) ==
    LET upTo[i \in 0..Len(s)] ==
          IF i = 0 THEN <<>>
          ELSE IF s[i] \in T THEN Append(upTo[i - 1], s[i]) ELSE upTo[i - 1]
    IN  upTo[Len(s)]

\* sum(f[k] for k in ...): the elements in some order, which is the same for all f.
Listing(S) == CHOOSE p \in [1..Cardinality(S) -> S] :
                 \A x \in S : \E i \in 1..Cardinality(S) : p[i] = x
SumOver(f) ==
    LET place == Listing(DOMAIN f)
        upTo[i \in 0..Cardinality(DOMAIN f)] ==
          IF i = 0 THEN 0 ELSE upTo[i - 1] + f[place[i]]
    IN  upTo[Cardinality(DOMAIN f)]

-----------------------------------------------------------------------------

\* Every set of natural numbers that has an element has a least one.
LEMMA LeastExists ==
    ASSUME NEW T, T \subseteq Nat, NEW t \in T
    PROVE  \E n \in T : \A m \in T : n <= m
  <1> DEFINE All == 0..t
             Segments == {0..k : k \in {n \in T : n <= t}}
  <1>1. IsWellFoundedOn(StrictSubsetOrdering(All), FiniteSubsetsOf(All))
    BY FS_StrictSubsetOrderingWellFounded
  <1>2. Segments \subseteq FiniteSubsetsOf(All) /\ Segments # {}
    <2>1. ASSUME NEW k \in T, k <= t PROVE 0..k \in FiniteSubsetsOf(All)
      BY <2>1, FS_Interval DEF FiniteSubsetsOf
    <2> QED
      BY <2>1, t <= t
  <1>3. PICK X \in Segments : \A Y \in Segments : <<Y, X>> \notin StrictSubsetOrdering(All)
    BY <1>1, <1>2, WFMin
  <1>4. PICK n \in T : n <= t /\ X = 0..n
    OBVIOUS
  <1>5. ASSUME NEW m \in T, m < n PROVE FALSE
    <2>1. 0..m \in Segments /\ 0..m \in SUBSET All /\ 0..n \in SUBSET All
      BY <1>4, <1>5
    <2>2. n \notin 0..m /\ n \in 0..n /\ 0..m \subseteq 0..n
      BY <1>5
    <2> QED
      BY <2>1, <2>2, <1>3, <1>4 DEF StrictSubsetOrdering
  <1> QED
    BY <1>5

\* Induction, for a set of numbers in the place of a predicate.
LEMMA InductionOn ==
    ASSUME NEW T, 0 \in T, \A n \in Nat : n \in T => n + 1 \in T
    PROVE  Nat \subseteq T
  <1> SUFFICES ASSUME NEW bad \in Nat, bad \notin T PROVE FALSE
    OBVIOUS
  <1>1. PICK n \in Nat \ T : \A m \in Nat \ T : n <= m
    BY LeastExists
  <1>2. n # 0 /\ n - 1 \in Nat /\ n - 1 \in T
    BY <1>1
  <1> QED
    BY <1>1, <1>2

\* A function defined step by step up to n exists, and stays in V when its steps do.
Unrolled(f, n, first, step) ==
    f = [i \in 0..n |-> IF i = 0 THEN first ELSE step[i][f[i - 1]]]

\* There is a function that starts with first and goes on by its steps.
LEMMA RecursionExists ==
    ASSUME NEW n \in Nat, NEW V, NEW first \in V, NEW step \in [1..n -> [V -> V]]
    PROVE  \E f \in [0..n -> V] : Unrolled(f, n, first, step)
  <1> DEFINE Good(m) == \E f \in [0..m -> V] : Unrolled(f, m, first, step)
             T == {m \in Nat : m <= n => Good(m)}
  <1>1. 0 \in T
    <2> DEFINE f == [i \in 0..0 |-> first]
    <2>1. f \in [0..0 -> V] /\ Unrolled(f, 0, first, step)
      BY DEF Unrolled
    <2> QED
      BY <2>1
  <1>2. ASSUME NEW m \in Nat, m \in T PROVE m + 1 \in T
    <2>1. SUFFICES ASSUME m + 1 <= n PROVE Good(m + 1)
      OBVIOUS
    <2>2. PICK f \in [0..m -> V] : Unrolled(f, m, first, step)
      BY <1>2, <2>1
    <2> DEFINE g == [i \in 0..(m + 1) |-> IF i <= m THEN f[i] ELSE step[m + 1][f[m]]]
    <2>3. f[m] \in V /\ m + 1 \in 1..n /\ step[m + 1][f[m]] \in V
      BY <2>1, <2>2
    <2>4. g \in [0..(m + 1) -> V]
      BY <2>2, <2>3
    <2>5. \A i \in 0..m : f[i] = IF i = 0 THEN first ELSE step[i][f[i - 1]]
      BY <2>2 DEF Unrolled
    <2>6. \A i \in 0..(m + 1) : g[i] = IF i = 0 THEN first ELSE step[i][g[i - 1]]
      <3> SUFFICES ASSUME NEW i \in 0..(m + 1)
                   PROVE  g[i] = IF i = 0 THEN first ELSE step[i][g[i - 1]]
        OBVIOUS
      <3>1. CASE i <= m
        <4>1. i \in 0..m /\ g[i] = f[i] /\ (i # 0 => g[i - 1] = f[i - 1])
          BY <3>1
        <4> QED
          BY <2>5, <4>1
      <3>2. CASE i = m + 1
        BY <3>2
      <3> QED
        BY <3>1, <3>2
    <2>7. Unrolled(g, m + 1, first, step)
      BY <2>4, <2>6 DEF Unrolled
    <2> QED
      BY <2>4, <2>7
  <1>3. n \in T
    <2> HIDE DEF T
    <2> QED
      BY <1>1, <1>2, InductionOn
  <1> QED
    BY <1>3

\* The loop that Kept is: element by element.
LEMMA KeptUnfolds ==
    ASSUME NEW S, NEW s \in Seq(S), NEW T
    PROVE  \E f \in [0..Len(s) -> Seq(S)] :
             /\ Kept(s, T) = f[Len(s)] /\ f[0] = <<>>
             /\ \A i \in 1..Len(s) : f[i] = IF s[i] \in T THEN Append(f[i - 1], s[i]) ELSE f[i - 1]
  <1> DEFINE n == Len(s)
             F(f) == [i \in 0..n |-> IF i = 0 THEN <<>>
                          ELSE IF s[i] \in T THEN Append(f[i - 1], s[i]) ELSE f[i - 1]]
             step == [i \in 1..n |-> [v \in Seq(S) |-> IF s[i] \in T THEN Append(v, s[i]) ELSE v]]
             g == CHOOSE f : f = F(f)
  <1>1. n \in Nat /\ step \in [1..n -> [Seq(S) -> Seq(S)]] /\ <<>> \in Seq(S)
    OBVIOUS
  <1>2. PICK f \in [0..n -> Seq(S)] : Unrolled(f, n, <<>>, step)
    BY <1>1, RecursionExists
  <1>3. f = F(f)
    <2>1. \A i \in 1..n : step[i][f[i - 1]] = IF s[i] \in T THEN Append(f[i - 1], s[i]) ELSE f[i - 1]
      <3> SUFFICES ASSUME NEW i \in 1..n
                   PROVE  step[i][f[i - 1]] = IF s[i] \in T THEN Append(f[i - 1], s[i])
                                                              ELSE f[i - 1]
        OBVIOUS
      <3>1. f[i - 1] \in Seq(S)
        BY <1>1, <1>2
      <3> QED
        BY <3>1
    <2> HIDE DEF step
    <2>2. f = [i \in 0..n |-> IF i = 0 THEN <<>> ELSE step[i][f[i - 1]]]
      BY <1>2 DEF Unrolled
    <2>3. \A i \in 0..n : f[i] = IF i = 0 THEN <<>>
                          ELSE IF s[i] \in T THEN Append(f[i - 1], s[i]) ELSE f[i - 1]
      <3> SUFFICES ASSUME NEW i \in 0..n
                   PROVE  f[i] = IF i = 0 THEN <<>>
                            ELSE IF s[i] \in T THEN Append(f[i - 1], s[i]) ELSE f[i - 1]
        OBVIOUS
      <3>1. f[i] = IF i = 0 THEN <<>> ELSE step[i][f[i - 1]]
        BY <2>2
      <3>2. i # 0 => i \in 1..n
        BY <1>1
      <3> QED
        BY <2>1, <3>1, <3>2
    <2> QED
      BY <1>2, <2>3
  <1>4. g = F(g)
    BY <1>3, Zenon
  <1>5. Kept(s, T) = g[n]
    BY DEF Kept
  <1> HIDE DEF g
  <1>6. \A i \in 0..n : g[i] = IF i = 0 THEN <<>>
                        ELSE IF s[i] \in T THEN Append(g[i - 1], s[i]) ELSE g[i - 1]
    BY <1>4
  <1>7. \A i \in 0..n : g[i] \in Seq(S)
    <2> DEFINE R == {i \in Nat : i <= n => g[i] \in Seq(S)}
    <2>1. 0 \in R
      <3>1. 0 \in 0..n
        BY <1>1
      <3> QED
        BY <1>1, <1>6, <3>1
    <2>2. ASSUME NEW i \in Nat, i \in R PROVE i + 1 \in R
      <3> SUFFICES ASSUME i + 1 <= n PROVE g[i + 1] \in Seq(S)
        OBVIOUS
      <3>1. i + 1 \in 0..n /\ i + 1 # 0 /\ (i + 1) - 1 = i /\ g[i] \in Seq(S) /\ s[i + 1] \in S
        BY <2>2, <1>1
      <3>2. g[i + 1] = IF s[i + 1] \in T THEN Append(g[i], s[i + 1]) ELSE g[i]
        BY <1>6, <3>1
      <3> QED
        BY <3>1, <3>2, AppendProperties
    <2>3. Nat \subseteq R
      <3> HIDE DEF R
      <3> QED
        BY <2>1, <2>2, InductionOn
    <2> SUFFICES ASSUME NEW i \in 0..n PROVE g[i] \in Seq(S)
      OBVIOUS
    <2>4. i \in Nat /\ i <= n /\ i \in R
      BY <1>1, <2>3
    <2> QED
      BY <2>4
  <1>8. g \in [0..n -> Seq(S)]
    BY <1>4, <1>7
  <1>9. g[0] = <<>> /\ \A i \in 1..n : g[i] = IF s[i] \in T THEN Append(g[i - 1], s[i])
                                                        ELSE g[i - 1]
    BY <1>1, <1>6
  <1> QED
    BY <1>1, <1>5, <1>8, <1>9

\* The numbers up to n, for sets that are known only up to n.
LEMMA InductionUpTo ==
    ASSUME NEW n \in Nat, NEW T, 0 \in T,
           \A i \in Nat : i < n /\ i \in T => i + 1 \in T
    PROVE  \A i \in Nat : i <= n => i \in T
  <1> DEFINE R == {i \in Nat : i <= n => i \in T}
  <1>1. 0 \in R /\ \A i \in Nat : i \in R => i + 1 \in R
    OBVIOUS
  <1>2. Nat \subseteq R
    <2> HIDE DEF R
    <2> QED
      BY <1>1, InductionOn
  <1> QED
    BY <1>2

\* What is kept of the first m elements: those in T, in the order they had, and all of them.
KeptAt(kept, s, m, T, place) ==
    /\ place \in [1..Len(kept) -> 1..m]
    /\ \A i \in 1..Len(kept) : kept[i] = s[place[i]] /\ kept[i] \in T
    /\ \A i, j \in 1..Len(kept) : i < j => place[i] < place[j]
    /\ \A k \in 1..m : s[k] \in T => \E i \in 1..Len(kept) : place[i] = k

\* Kept returns the elements in T, each where the order of the list puts it, and only those.
LEMMA KeptProperties ==
    ASSUME NEW S, NEW s \in Seq(S), NEW T
    PROVE  /\ Kept(s, T) \in Seq(S)
           /\ \E place : KeptAt(Kept(s, T), s, Len(s), T, place)
  <1> DEFINE n == Len(s)
  <1>1. PICK f \in [0..n -> Seq(S)] :
          /\ Kept(s, T) = f[n] /\ f[0] = <<>>
          /\ \A i \in 1..n : f[i] = IF s[i] \in T THEN Append(f[i - 1], s[i]) ELSE f[i - 1]
    BY KeptUnfolds
  <1>2. n \in Nat
    OBVIOUS
  <1> HIDE DEF n
  <1> DEFINE R == {m \in Nat : \E place : KeptAt(f[m], s, m, T, place)}
  <1>3. 0 \in R
    <2>1. KeptAt(f[0], s, 0, T, [i \in 1..0 |-> 0])
      BY <1>1 DEF KeptAt
    <2> QED
      BY <2>1
  <1>4. ASSUME NEW m \in Nat, m < n, m \in R PROVE m + 1 \in R
    <2>1. PICK place : KeptAt(f[m], s, m, T, place)
      BY <1>4
    <2> DEFINE k == Len(f[m])
    <2>2. /\ f[m] \in Seq(S) /\ s[m + 1] \in S /\ k \in Nat
          /\ f[m + 1] = IF s[m + 1] \in T THEN Append(f[m], s[m + 1]) ELSE f[m]
      BY <1>1, <1>2, <1>4 DEF n
    <2> SUFFICES \E p : KeptAt(f[m + 1], s, m + 1, T, p)
      OBVIOUS
    <2>3. CASE s[m + 1] \notin T
      <3>1. KeptAt(f[m + 1], s, m + 1, T, place)
        BY <1>4, <2>1, <2>2, <2>3 DEF KeptAt
      <3> QED
        BY <3>1
    <2>4. CASE s[m + 1] \in T
      <3> DEFINE p == [i \in 1..(k + 1) |-> IF i = k + 1 THEN m + 1 ELSE place[i]]
                 kept == f[m + 1]
      <3>1. /\ Len(kept) = k + 1 /\ kept[k + 1] = s[m + 1]
            /\ \A i \in 1..k : kept[i] = f[m][i]
        BY <2>2, <2>4, AppendProperties
      <3>2. /\ place \in [1..k -> 1..m]
            /\ \A i \in 1..k : f[m][i] = s[place[i]] /\ f[m][i] \in T
            /\ \A i, j \in 1..k : i < j => place[i] < place[j]
            /\ \A q \in 1..m : s[q] \in T => \E i \in 1..k : place[i] = q
        BY <2>1 DEF KeptAt
      <3> HIDE DEF k, kept
      <3>3. p \in [1..(k + 1) -> 1..(m + 1)]
        BY <1>4, <2>2, <3>2
      <3>4. \A i \in 1..(k + 1) : kept[i] = s[p[i]] /\ kept[i] \in T
        <4> SUFFICES ASSUME NEW i \in 1..(k + 1) PROVE kept[i] = s[p[i]] /\ kept[i] \in T
          OBVIOUS
        <4>1. CASE i = k + 1
          BY <2>2, <2>4, <3>1, <4>1
        <4>2. CASE i # k + 1
          <5>1. i \in 1..k /\ p[i] = place[i]
            BY <2>2, <4>2
          <5> QED
            BY <3>1, <3>2, <5>1
        <4> QED
          BY <4>1, <4>2
      <3>5. \A i, j \in 1..(k + 1) : i < j => p[i] < p[j]
        BY <1>4, <2>2, <3>2
      <3>6. \A q \in 1..(m + 1) : s[q] \in T => \E i \in 1..(k + 1) : p[i] = q
        <4> SUFFICES ASSUME NEW q \in 1..(m + 1), s[q] \in T PROVE \E i \in 1..(k + 1) : p[i] = q
          OBVIOUS
        <4>1. CASE q = m + 1
          <5>1. k + 1 \in 1..(k + 1) /\ p[k + 1] = m + 1
            BY <2>2
          <5> QED
            BY <4>1, <5>1
        <4>2. CASE q # m + 1
          <5>1. PICK i \in 1..k : place[i] = q
            BY <1>4, <3>2, <4>2
          <5>2. i \in 1..(k + 1) /\ p[i] = q
            BY <2>2, <5>1
          <5> QED
            BY <5>2
        <4> QED
          BY <4>1, <4>2
      <3> HIDE DEF p
      <3>7. KeptAt(kept, s, m + 1, T, p)
        BY <3>1, <3>3, <3>4, <3>5, <3>6 DEF KeptAt
      <3> QED
        BY <3>7 DEF kept
    <2> QED
      BY <2>3, <2>4
  <1>5. n \in R
    <2> HIDE DEF R
    <2>1. \A i \in Nat : i <= n => i \in R
      BY <1>2, <1>3, <1>4, InductionUpTo
    <2> QED
      BY <1>2, <2>1
  <1> QED
    BY <1>1, <1>2, <1>5 DEF n

\* Two elements that are kept stand in the list as they stand in the result.
LEMMA KeptInOrder ==
    ASSUME NEW S, NEW s \in Seq(S), NEW T
    PROVE  LET k == Kept(s, T)
           IN  /\ k \in Seq(S) /\ Len(k) \in Nat /\ DOMAIN k = 1..Len(k)
               /\ \A i \in DOMAIN k : k[i] \in T /\ \E a \in DOMAIN s : k[i] = s[a]
               /\ \A i, j \in DOMAIN k : i < j =>
                    \E a, b \in DOMAIN s : a < b /\ k[i] = s[a] /\ k[j] = s[b]
               /\ \A a \in DOMAIN s : s[a] \in T => \E i \in DOMAIN k : k[i] = s[a]
  <1> DEFINE k == Kept(s, T)
  <1>1. k \in Seq(S) /\ \E place : KeptAt(k, s, Len(s), T, place)
    BY KeptProperties
  <1> HIDE DEF k
  <1>2. PICK place : KeptAt(k, s, Len(s), T, place)
    BY <1>1
  <1>3. /\ DOMAIN k = 1..Len(k) /\ DOMAIN s = 1..Len(s) /\ Len(k) \in Nat
        /\ place \in [1..Len(k) -> 1..Len(s)]
        /\ \A i \in 1..Len(k) : k[i] = s[place[i]] /\ k[i] \in T
        /\ \A i, j \in 1..Len(k) : i < j => place[i] < place[j]
        /\ \A a \in 1..Len(s) : s[a] \in T => \E i \in 1..Len(k) : place[i] = a
    BY <1>1, <1>2 DEF KeptAt
  <1>4. \A i \in DOMAIN k : place[i] \in DOMAIN s
    BY <1>3
  <1>5. ASSUME NEW i \in DOMAIN k, NEW j \in DOMAIN k, i < j
        PROVE  \E a, b \in DOMAIN s : a < b /\ k[i] = s[a] /\ k[j] = s[b]
    <2>1. place[i] < place[j] /\ k[i] = s[place[i]] /\ k[j] = s[place[j]]
      BY <1>3, <1>5
    <2> QED
      BY <1>4, <2>1
  <1>6. ASSUME NEW a \in DOMAIN s, s[a] \in T PROVE \E i \in DOMAIN k : k[i] = s[a]
    <2>1. PICK i \in 1..Len(k) : place[i] = a
      BY <1>3, <1>6
    <2> QED
      BY <1>3, <2>1
  <1>7. \A i \in DOMAIN k : k[i] \in T /\ \E a \in DOMAIN s : k[i] = s[a]
    BY <1>3, <1>4
  <1> QED
    BY <1>1, <1>3, <1>5, <1>6, <1>7 DEF k

\* Every finite set of numbers that has an element has a greatest one.
LEMMA GreatestExists ==
    ASSUME NEW S, IsFiniteSet(S), S \subseteq Int, S # {}
    PROVE  \E x \in S : \A y \in S : x >= y
  <1> DEFINE Bad == {T \in FiniteSubsetsOf(S) : T # {} /\ ~ \E x \in T : \A y \in T : x >= y}
  <1> SUFFICES ASSUME ~ \E x \in S : \A y \in S : x >= y PROVE FALSE
    OBVIOUS
  <1>1. S \in Bad
    BY DEF FiniteSubsetsOf
  <1>2. IsWellFoundedOn(StrictSubsetOrdering(S), FiniteSubsetsOf(S))
    BY FS_StrictSubsetOrderingWellFounded
  <1>3. PICK T \in Bad : \A U \in Bad : <<U, T>> \notin StrictSubsetOrdering(S)
    BY <1>1, <1>2, WFMin
  <1>4. T \subseteq S /\ IsFiniteSet(T) /\ T # {} /\ ~ \E x \in T : \A y \in T : x >= y
    BY DEF FiniteSubsetsOf
  <1>5. PICK t \in T : TRUE
    BY <1>4
  <1>6. T \ {t} \in FiniteSubsetsOf(S) /\ T \ {t} # T
    BY <1>4, FS_RemoveElement DEF FiniteSubsetsOf
  <1>7. T \ {t} \notin Bad
    BY <1>3, <1>4, <1>6 DEF StrictSubsetOrdering
  <1>8. t \in Int
    BY <1>4
  <1>9. CASE T \ {t} = {}
    BY <1>4, <1>8, <1>9
  <1>10. CASE T \ {t} # {}
    <2>1. PICK x \in T \ {t} : \A y \in T \ {t} : x >= y
      BY <1>6, <1>7, <1>10
    <2>2. x \in Int
      BY <1>4
    <2>3. CASE t >= x
      <3>1. \A y \in T : t >= y
        BY <1>4, <1>8, <2>1, <2>2, <2>3
      <3> QED
        BY <1>4, <3>1
    <2>4. CASE ~(t >= x)
      <3>1. \A y \in T : x >= y
        BY <1>4, <1>8, <2>1, <2>2, <2>4
      <3> QED
        BY <1>4, <3>1
    <2> QED
      BY <2>3, <2>4
  <1> QED
    BY <1>9, <1>10

\* What a function returns on a finite set is a finite set.
LEMMA ImageIsFinite ==
    ASSUME NEW S, IsFiniteSet(S), NEW f
    PROVE  IsFiniteSet({f[x] : x \in S}) /\ Cardinality({f[x] : x \in S}) <= Cardinality(S)
  <1> DEFINE T == {f[x] : x \in S}
             g == [x \in S |-> f[x]]
  <1>1. g \in Surjection(S, T)
    BY DEF Surjection
  <1> QED
    BY <1>1, FS_Surjection

\* To put another element where one was just appended is to append that one.
LEMMA AppendedAnew ==
    ASSUME NEW S, NEW s \in Seq(S), NEW a \in S, NEW b \in S
    PROVE  [Append(s, a) EXCEPT ![Len(s) + 1] = b] = Append(s, b)
  <1> DEFINE u == Append(s, a)
             t == [u EXCEPT ![Len(s) + 1] = b]
  <1>1. /\ Append(s, b) \in Seq(S) /\ u \in Seq(S)
        /\ Len(Append(s, b)) = Len(s) + 1 /\ Len(u) = Len(s) + 1
        /\ Append(s, b)[Len(s) + 1] = b
        /\ \A i \in 1..Len(s) : Append(s, b)[i] = s[i] /\ u[i] = s[i]
    BY AppendProperties
  <1> HIDE DEF u
  <1>2. Len(s) \in Nat /\ Len(s) + 1 \in 1..Len(u)
    BY <1>1
  <1>3. /\ t \in Seq(S) /\ Len(t) = Len(u)
        /\ \A j \in 1..Len(u) : t[j] = IF j = Len(s) + 1 THEN b ELSE u[j]
    BY <1>1, <1>2, ExceptSeq
  <1> HIDE DEF t
  <1>4. Len(t) = Len(Append(s, b)) /\ \A i \in 1..Len(t) : t[i] = Append(s, b)[i]
    BY <1>1, <1>2, <1>3
  <1>5. t = Append(s, b)
    BY <1>1, <1>3, <1>4, SeqEqual, Zenon
  <1> QED
    BY <1>5 DEF t, u

\* As many values as places: then no value comes twice, and the other way round.
LEMMA DistinctCount ==
    ASSUME NEW S, IsFiniteSet(S), NEW f
    PROVE  LET T == {f[x] : x \in S}
           IN  /\ IsFiniteSet(T) /\ Cardinality(T) \in Nat /\ Cardinality(T) <= Cardinality(S)
               /\ Cardinality(T) = Cardinality(S) <=> \A x, y \in S : f[x] = f[y] => x = y
  <1> DEFINE T == {f[x] : x \in S}
             g == [x \in S |-> f[x]]
  <1>1. g \in Surjection(S, T)
    BY DEF Surjection
  <1>2. g \in Injection(S, T) <=> \A x, y \in S : f[x] = f[y] => x = y
    <2>1. g \in [S -> T] /\ DOMAIN g = S /\ \A x \in S : g[x] = f[x]
      OBVIOUS
    <2> HIDE DEF g, T
    <2> QED
      BY <2>1, Zenon DEF Injection, IsInjective
  <1> HIDE DEF g
  <1>3. IsFiniteSet(T) /\ Cardinality(T) <= Cardinality(S)
        /\ (Cardinality(T) = Cardinality(S) <=> g \in Injection(S, T))
    <2> HIDE DEF T
    <2> QED
      BY <1>1, FS_Surjection
  <1>4. Cardinality(T) \in Nat
    BY <1>3, FS_CardinalityType
  <1> QED
    BY <1>2, <1>3, <1>4, Zenon

\* The same for the places of a list.
LEMMA DistinctPlaces ==
    ASSUME NEW n \in Nat, NEW f
    PROVE  LET T == {f[i] : i \in 1..n}
           IN  /\ IsFiniteSet(T) /\ Cardinality(T) \in Nat /\ Cardinality(T) <= n
               /\ Cardinality(T) = n <=> \A i, j \in 1..n : f[i] = f[j] => i = j
  <1>1. IsFiniteSet(1..n) /\ Cardinality(1..n) = n
    BY FS_Interval
  <1> DEFINE S == 1..n
  <1> HIDE DEF S
  <1>2. IsFiniteSet(S) /\ Cardinality(S) = n
    BY <1>1 DEF S
  <1>3. LET T == {f[i] : i \in S}
        IN  /\ IsFiniteSet(T) /\ Cardinality(T) \in Nat /\ Cardinality(T) <= Cardinality(S)
            /\ Cardinality(T) = Cardinality(S) <=> \A x, y \in S : f[x] = f[y] => x = y
    BY <1>2, DistinctCount, Zenon
  <1> QED
    BY <1>2, <1>3, Zenon DEF S

\* A part of a list holds what is there between its ends.
LEMMA PartOfList ==
    ASSUME NEW S, NEW q \in Seq(S), NEW a \in Int, NEW b \in Int, 1 <= a, a <= b, b <= Len(q)
    PROVE  LET s == SubSeq(q, a, b)
           IN  /\ s \in Seq(S) /\ Len(s) = b - a + 1
               /\ \A i \in 1..Len(s) : i + a - 1 \in 1..Len(q) /\ s[i] = q[i + a - 1]
  <1> DEFINE s == SubSeq(q, a, b)
             l == Len(q)
  <1>0. l \in Nat /\ b <= l /\ \A i \in 1..l : q[i] \in S
    BY ElementOfSeq
  <1>1. ASSUME NEW i \in a..b PROVE q[i] \in S
    <2> HIDE DEF l
    <2>1. i \in 1..l
      BY <1>0
    <2> QED
      BY <1>0, <2>1, Zenon
  <1> HIDE DEF s
  <1>2. s \in Seq(S) /\ Len(s) = b - a + 1
        /\ \A i \in 1..(b - a + 1) : s[i] = q[a + i - 1]
    BY <1>1, SubSeqProperties DEF s
  <1>3. ASSUME NEW i \in 1..(b - a + 1) PROVE i + a - 1 \in 1..l /\ a + i - 1 = i + a - 1
    <2> HIDE DEF l
    <2> QED
      BY <1>0
  <1> QED
    BY <1>2, <1>3 DEF s, l
\* A finite set is gone through from its first element to its last.
LEMMA ListingReaches ==
    ASSUME NEW S, IsFiniteSet(S)
    PROVE  /\ Cardinality(S) \in Nat
           /\ Listing(S) \in [1..Cardinality(S) -> S]
           /\ \A x \in S : \E i \in 1..Cardinality(S) : Listing(S)[i] = x
  <1> DEFINE n == Cardinality(S)
             All(p) == \A x \in S : \E i \in 1..n : p[i] = x
  <1>1. n \in Nat /\ ExistsBijection(1..n, S)
    BY FS_CardinalityType
  <1>2. PICK p : p \in Bijection(1..n, S)
    BY <1>1 DEF ExistsBijection
  <1>3. p \in [1..n -> S] /\ All(p)
    BY <1>2 DEF Bijection, Surjection, Injection
  <1>4. Listing(S) \in [1..n -> S] /\ All(Listing(S))
    BY <1>3, Zenon DEF Listing
  <1> QED
    BY <1>1, <1>4

\* What the loop has added up after each element.
PartialSums(g, S, f) ==
    /\ g \in [0..Cardinality(S) -> Int]
    /\ g[0] = 0
    /\ \A i \in 1..Cardinality(S) : g[i] = g[i - 1] + f[Listing(S)[i]]

LEMMA SumUnfolds ==
    ASSUME NEW S, IsFiniteSet(S), NEW f \in [S -> Int]
    PROVE  \E g : PartialSums(g, S, f) /\ SumOver(f) = g[Cardinality(S)]
  <1> DEFINE n == Cardinality(S)
             place == Listing(S)
             F(g) == [i \in 0..n |-> IF i = 0 THEN 0 ELSE g[i - 1] + f[place[i]]]
             step == [i \in 1..n |-> [v \in Int |-> v + f[place[i]]]]
             g == CHOOSE g : g = F(g)
  <1>0. DOMAIN f = S
    OBVIOUS
  <1>1. SumOver(f) = g[n]
    BY <1>0 DEF SumOver
  <1>2. n \in Nat /\ \A i \in 1..n : f[place[i]] \in Int
    BY ListingReaches
  <1> HIDE DEF n, place
  <1>3. /\ step \in [1..n -> [Int -> Int]] /\ 0 \in Int
        /\ \A i \in 1..n : step[i] = [v \in Int |-> v + f[place[i]]]
    BY <1>2
  <1> HIDE DEF step
  <1>4. PICK h \in [0..n -> Int] : Unrolled(h, n, 0, step)
    BY <1>2, <1>3, RecursionExists
  <1>5. ASSUME NEW i \in 1..n PROVE step[i][h[i - 1]] = h[i - 1] + f[place[i]]
    <2>1. h[i - 1] \in Int
      BY <1>2, <1>4
    <2> QED
      BY <1>3, <2>1
  <1>6. h = F(h)
    <2>1. h = [i \in 0..n |-> IF i = 0 THEN 0 ELSE step[i][h[i - 1]]]
      BY <1>4 DEF Unrolled
    <2>2. \A i \in 0..n : h[i] = IF i = 0 THEN 0 ELSE h[i - 1] + f[place[i]]
      <3> SUFFICES ASSUME NEW i \in 0..n
                   PROVE  h[i] = IF i = 0 THEN 0 ELSE h[i - 1] + f[place[i]]
        OBVIOUS
      <3>1. h[i] = IF i = 0 THEN 0 ELSE step[i][h[i - 1]]
        BY <2>1
      <3>2. i # 0 => i \in 1..n
        BY <1>2
      <3> QED
        BY <1>5, <3>1, <3>2
    <2> QED
      BY <1>4, <2>2
  <1>7. g = F(g)
    BY <1>6, Zenon
  <1> HIDE DEF g
  <1>8. \A i \in 0..n : g[i] = IF i = 0 THEN 0 ELSE g[i - 1] + f[place[i]]
    BY <1>7
  <1>9. g[0] = 0 /\ \A i \in 1..n : g[i] = g[i - 1] + f[place[i]]
    BY <1>2, <1>8
  <1>10. \A i \in Nat : i <= n => g[i] \in Int
    <2> DEFINE R == {i \in Nat : i <= n => g[i] \in Int}
    <2>1. 0 \in R
      BY <1>9
    <2>2. ASSUME NEW i \in Nat, i < n, i \in R PROVE i + 1 \in R
      <3>1. i + 1 \in 1..n /\ (i + 1) - 1 = i /\ g[i] \in Int
        BY <1>2, <2>2
      <3>2. g[i + 1] = g[i] + f[place[i + 1]]
        BY <1>9, <3>1
      <3> QED
        BY <1>2, <3>1, <3>2
    <2>3. \A i \in Nat : i <= n => i \in R
      <3> HIDE DEF R
      <3> QED
        BY <1>2, <2>1, <2>2, InductionUpTo
    <2> QED
      BY <2>3
  <1>11. g \in [0..n -> Int]
    <2>1. \A i \in 0..n : g[i] \in Int
      BY <1>2, <1>10
    <2> QED
      BY <1>7, <2>1
  <1>12. PartialSums(g, S, f)
    BY <1>9, <1>11 DEF PartialSums, n, place
  <1> QED
    BY <1>1, <1>12 DEF n

\* A sum of whole numbers is one, and does not fall when what is added up does not.
LEMMA SumInOrder ==
    ASSUME NEW S, IsFiniteSet(S), NEW f \in [S -> Int], NEW h \in [S -> Int],
           \A x \in S : f[x] <= h[x]
    PROVE  SumOver(f) \in Int /\ SumOver(h) \in Int /\ SumOver(f) <= SumOver(h)
  <1> DEFINE n == Cardinality(S)
             place == Listing(S)
  <1>1. PICK F : PartialSums(F, S, f) /\ SumOver(f) = F[n]
    BY SumUnfolds
  <1>2. PICK H : PartialSums(H, S, h) /\ SumOver(h) = H[n]
    BY SumUnfolds
  <1>3. n \in Nat /\ \A i \in 1..n : place[i] \in S
    BY ListingReaches
  <1>4. /\ F \in [0..n -> Int] /\ F[0] = 0 /\ \A i \in 1..n : F[i] = F[i - 1] + f[place[i]]
        /\ H \in [0..n -> Int] /\ H[0] = 0 /\ \A i \in 1..n : H[i] = H[i - 1] + h[place[i]]
    BY <1>1, <1>2 DEF PartialSums
  <1> HIDE DEF n, place
  <1> DEFINE R == {i \in Nat : F[i] <= H[i]}
  <1>5. 0 \in R
    BY <1>4
  <1>6. ASSUME NEW i \in Nat, i < n, i \in R PROVE i + 1 \in R
    <2>1. i + 1 \in 1..n /\ (i + 1) - 1 = i /\ i \in 0..n
      BY <1>3, <1>6
    <2>2. F[i] \in Int /\ H[i] \in Int /\ F[i] <= H[i]
      BY <1>4, <1>6, <2>1
    <2>3. F[i + 1] = F[i] + f[place[i + 1]] /\ H[i + 1] = H[i] + h[place[i + 1]]
      BY <1>4, <2>1
    <2>4. f[place[i + 1]] \in Int /\ h[place[i + 1]] \in Int
          /\ f[place[i + 1]] <= h[place[i + 1]]
      BY <1>3, <2>1
    <2> QED
      BY <2>2, <2>3, <2>4
  <1>7. \A i \in Nat : i <= n => i \in R
    <2> HIDE DEF R
    <2> QED
      BY <1>3, <1>5, <1>6, InductionUpTo
  <1>8. n \in R /\ n \in 0..n
    BY <1>3, <1>7
  <1> QED
    BY <1>1, <1>2, <1>4, <1>8 DEF n
=============================================================================
