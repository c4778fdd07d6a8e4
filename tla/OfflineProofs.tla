--------------------------- MODULE OfflineProofs ----------------------------
(***************************************************************************)
(* What people are told of the agent, what the gate approves, what the     *)
(* retired service decides and what the simulations report, for every      *)
(* journal, clock, report, sequence of requests and history: each part     *)
(* keeps its inductive invariant, what the run checks of a state or a step *)
(* follows from it, and a behaviour of the composed system is one of every *)
(* part.                                                                   *)
(***************************************************************************)
EXTENDS MCOffline, Selection

-----------------------------------------------------------------------------
\* The machine of the system state.

MachineInv == sys \in SystemStates /\ event \in StateEvents /\ Lawful(sys)

\* What a rule may answer to event e in state s.
Admitted(s, e, after) ==
    /\ after \in SystemStates /\ Lawful(after) /\ ~Prohibited(s, after, e)
    /\ s.health # "READY" /\ after.health = "READY" => e = "QUALITY_READY"

RulesAreSound(l, s, e) ==
    /\ Len(l) \in Nat /\ l = [i \in 1..Len(l) |-> l[i]]
    /\ \A i \in 1..Len(l) : l[i][1] => Admitted(s, e, l[i][2])

LEMMA FirstRulesAreSound ==
    ASSUME NEW s \in SystemStates, Lawful(s), NEW e \in StateEvents, NEW g \in Guards
    PROVE  RulesAreSound(FirstRules(s, e, g), s, e)
  <1> DEFINE l == FirstRules(s, e, g)
  <1> USE DEF Admitted, Lawful, Prohibited, SystemStates, To, Positions, Evaluations, Healths
  <1>0. Len(l) = 8 /\ l = [i \in 1..8 |-> l[i]]
    BY DEF FirstRules
  <1>1. l[1][1] => Admitted(s, e, l[1][2])
    BY DEF FirstRules
  <1>2. l[2][1] => Admitted(s, e, l[2][2])
    BY DEF FirstRules
  <1>3. l[3][1] => Admitted(s, e, l[3][2])
    BY DEF FirstRules
  <1>4. l[4][1] => Admitted(s, e, l[4][2])
    BY DEF FirstRules
  <1>5. l[5][1] => Admitted(s, e, l[5][2])
    BY DEF FirstRules
  <1>6. l[6][1] => Admitted(s, e, l[6][2])
    BY DEF FirstRules
  <1>7. l[7][1] => Admitted(s, e, l[7][2])
    BY DEF FirstRules
  <1>8. l[8][1] => Admitted(s, e, l[8][2])
    BY DEF FirstRules
  <1> HIDE DEF l, Admitted
  <1>9. \A i \in 1..8 : i = 1 \/ i = 2 \/ i = 3 \/ i = 4 \/ i = 5 \/ i = 6 \/ i = 7 \/ i = 8
    OBVIOUS
  <1>10. \A i \in 1..Len(l) : l[i][1] => Admitted(s, e, l[i][2])
    BY <1>0, <1>1, <1>2, <1>3, <1>4, <1>5, <1>6, <1>7, <1>8, <1>9, ZenonT(40)
  <1> QED
    BY <1>0, <1>10 DEF RulesAreSound, l

LEMMA FlatRulesAreSound ==
    ASSUME NEW s \in SystemStates, Lawful(s), NEW e \in StateEvents, NEW g \in Guards,
           s.position = "FLAT"
    PROVE  RulesAreSound(FlatRules(s, e, g), s, e)
  <1> DEFINE l == FlatRules(s, e, g)
  <1> USE DEF Admitted, Lawful, Prohibited, SystemStates, To, Positions, Evaluations, Healths
  <1>0. Len(l) = 7 /\ l = [i \in 1..7 |-> l[i]]
    BY DEF FlatRules
  <1>1. l[1][1] => Admitted(s, e, l[1][2])
    BY DEF FlatRules
  <1>2. l[2][1] => Admitted(s, e, l[2][2])
    BY DEF FlatRules
  <1>3. l[3][1] => Admitted(s, e, l[3][2])
    BY DEF FlatRules
  <1>4. l[4][1] => Admitted(s, e, l[4][2])
    BY DEF FlatRules
  <1>5. l[5][1] => Admitted(s, e, l[5][2])
    BY DEF FlatRules
  <1>6. l[6][1] => Admitted(s, e, l[6][2])
    BY DEF FlatRules
  <1>7. l[7][1] => Admitted(s, e, l[7][2])
    BY DEF FlatRules
  <1> HIDE DEF l, Admitted
  <1>8. \A i \in 1..7 : i = 1 \/ i = 2 \/ i = 3 \/ i = 4 \/ i = 5 \/ i = 6 \/ i = 7
    OBVIOUS
  <1>9. \A i \in 1..Len(l) : l[i][1] => Admitted(s, e, l[i][2])
    BY <1>0, <1>1, <1>2, <1>3, <1>4, <1>5, <1>6, <1>7, <1>8, Zenon
  <1> QED
    BY <1>0, <1>9 DEF RulesAreSound, l

LEMMA LongRulesAreSound ==
    ASSUME NEW s \in SystemStates, Lawful(s), NEW e \in StateEvents, NEW g \in Guards,
           s.position = "LONG"
    PROVE  RulesAreSound(LongRules(s, e, g), s, e)
  <1> DEFINE l == LongRules(s, e, g)
  <1> USE DEF Admitted, Lawful, Prohibited, SystemStates, To, Positions, Evaluations, Healths
  <1>0. Len(l) = 5 /\ l = [i \in 1..5 |-> l[i]]
    BY DEF LongRules
  <1>1. l[1][1] => Admitted(s, e, l[1][2])
    BY DEF LongRules
  <1>2. l[2][1] => Admitted(s, e, l[2][2])
    BY DEF LongRules
  <1>3. l[3][1] => Admitted(s, e, l[3][2])
    BY DEF LongRules
  <1>4. l[4][1] => Admitted(s, e, l[4][2])
    BY DEF LongRules
  <1>5. l[5][1] => Admitted(s, e, l[5][2])
    BY DEF LongRules
  <1> HIDE DEF l, Admitted
  <1>6. \A i \in 1..5 : i = 1 \/ i = 2 \/ i = 3 \/ i = 4 \/ i = 5
    OBVIOUS
  <1>7. \A i \in 1..Len(l) : l[i][1] => Admitted(s, e, l[i][2])
    BY <1>0, <1>1, <1>2, <1>3, <1>4, <1>5, <1>6, Zenon
  <1> QED
    BY <1>0, <1>7 DEF RulesAreSound, l

LEMMA EntryPendingRulesAreSound ==
    ASSUME NEW s \in SystemStates, Lawful(s), NEW e \in StateEvents, NEW g \in Guards,
           s.position = "ENTRY_PENDING"
    PROVE  RulesAreSound(EntryPendingRules(s, e, g), s, e)
  <1> DEFINE l == EntryPendingRules(s, e, g)
  <1> USE DEF Admitted, Lawful, Prohibited, SystemStates, To, Positions, Evaluations, Healths
  <1>0. Len(l) = 2 /\ l = [i \in 1..2 |-> l[i]]
    BY DEF EntryPendingRules
  <1>1. l[1][1] => Admitted(s, e, l[1][2])
    BY DEF EntryPendingRules
  <1>2. l[2][1] => Admitted(s, e, l[2][2])
    BY DEF EntryPendingRules
  <1> HIDE DEF l, Admitted
  <1>3. \A i \in 1..2 : i = 1 \/ i = 2
    OBVIOUS
  <1>4. \A i \in 1..Len(l) : l[i][1] => Admitted(s, e, l[i][2])
    BY <1>0, <1>1, <1>2, <1>3, Zenon
  <1> QED
    BY <1>0, <1>4 DEF RulesAreSound, l

LEMMA ExitPendingRulesAreSound ==
    ASSUME NEW s \in SystemStates, Lawful(s), NEW e \in StateEvents, NEW g \in Guards,
           s.position = "EXIT_PENDING"
    PROVE  RulesAreSound(ExitPendingRules(s, e, g), s, e)
  <1> DEFINE l == ExitPendingRules(s, e, g)
  <1> USE DEF Admitted, Lawful, Prohibited, SystemStates, To, Positions, Evaluations, Healths
  <1>0. Len(l) = 2 /\ l = [i \in 1..2 |-> l[i]]
    BY DEF ExitPendingRules
  <1>1. l[1][1] => Admitted(s, e, l[1][2])
    BY DEF ExitPendingRules
  <1>2. l[2][1] => Admitted(s, e, l[2][2])
    BY DEF ExitPendingRules
  <1> HIDE DEF l, Admitted
  <1>3. \A i \in 1..2 : i = 1 \/ i = 2
    OBVIOUS
  <1>4. \A i \in 1..Len(l) : l[i][1] => Admitted(s, e, l[i][2])
    BY <1>0, <1>1, <1>2, <1>3, Zenon
  <1> QED
    BY <1>0, <1>4 DEF RulesAreSound, l

\* Two lists of sound rules, one after the other, are a list of sound rules.
LEMMA RulesJoin ==
    ASSUME NEW s, NEW e, NEW l, NEW m, RulesAreSound(l, s, e), RulesAreSound(m, s, e)
    PROVE  RulesAreSound(l \o m, s, e)
  <1>1. /\ Len(l) \in Nat /\ Len(m) \in Nat
        /\ l = [i \in 1..Len(l) |-> l[i]] /\ m = [i \in 1..Len(m) |-> m[i]]
        /\ \A i \in 1..Len(l) : l[i][1] => Admitted(s, e, l[i][2])
        /\ \A i \in 1..Len(m) : m[i][1] => Admitted(s, e, m[i][2])
    BY DEF RulesAreSound
  <1> DEFINE j == l \o m
             a == Len(l)
             b == Len(m)
             S == {l[i] : i \in 1..a} \cup {m[i] : i \in 1..b}
  <1> HIDE DEF a, b
  <1>10. l \in Seq(S) /\ m \in Seq(S)
    <2>1. a \in Nat /\ b \in Nat
      BY <1>1 DEF a, b
    <2>2. l = [i \in 1..a |-> l[i]] /\ m = [i \in 1..b |-> m[i]]
      BY <1>1 DEF a, b
    <2> DEFINE f == [i \in 1..a |-> l[i]]
               h == [i \in 1..b |-> m[i]]
    <2>4. f \in [1..a -> S] /\ h \in [1..b -> S]
      OBVIOUS
    <2>5. l = f /\ m = h
      BY <2>2
    <2> HIDE DEF f, h
    <2>3. l \in [1..a -> S] /\ m \in [1..b -> S]
      BY <2>4, <2>5
    <2> HIDE DEF S
    <2> QED
      BY <2>1, <2>3
  <1> HIDE DEF S
  <1>2. /\ j \in Seq(S) /\ Len(j) = a + b
        /\ \A i \in 1..(a + b) : j[i] = IF i <= a THEN l[i] ELSE m[i - a]
    BY <1>10, ConcatProperties DEF a, b
  <1>11. j \in [1..(a + b) -> S]
    <2> HIDE DEF j
    <2> QED
      BY <1>2
  <1>3. Len(j) = a + b /\ j = [i \in 1..(a + b) |-> j[i]]
    <2> HIDE DEF j
    <2> QED
      BY <1>2, <1>11, Zenon
  <1>4. ASSUME NEW i \in 1..(a + b), j[i][1] PROVE Admitted(s, e, j[i][2])
    <2> HIDE DEF j
    <2>1. CASE i <= a
      <3>1. j[i] = l[i] /\ i \in 1..a
        BY <1>1, <1>2, <2>1 DEF a, b
      <3> QED
        BY <1>1, <1>4, <3>1, Zenon DEF a
    <2>2. CASE ~(i <= a)
      <3>1. j[i] = m[i - a] /\ i - a \in 1..b
        BY <1>1, <1>2, <2>2 DEF a, b
      <3> QED
        BY <1>1, <1>4, <3>1, Zenon DEF b
    <2> QED
      BY <2>1, <2>2
  <1>5. a + b \in Nat
    BY <1>1 DEF a, b
  <1> HIDE DEF j
  <1> QED
    BY <1>3, <1>4, <1>5, Zenon DEF RulesAreSound, j

\* What the service answers to an event is a state it may be in, reached as it may be.
LEMMA TransitionIsSound ==
    ASSUME NEW s \in SystemStates, Lawful(s), NEW e \in StateEvents, NEW g \in Guards
    PROVE  Admitted(s, e, transition(s, e, g))
  <1> DEFINE l == RulesOf(s, e, g)
             fired == SelectInSeq(l, LAMBDA rule : rule[1])
             m == CASE s.position = "FLAT" -> FlatRules(s, e, g)
                    [] s.position = "LONG" -> LongRules(s, e, g)
                    [] s.position = "ENTRY_PENDING" -> EntryPendingRules(s, e, g)
                    [] s.position = "EXIT_PENDING" -> ExitPendingRules(s, e, g)
                    [] OTHER -> <<>>
  <1>1. RulesAreSound(<<>>, s, e)
    BY DEF RulesAreSound
  <1>2. RulesAreSound(m, s, e)
    <2> HIDE DEF RulesAreSound
    <2>1. CASE s.position = "FLAT"
      BY <2>1, FlatRulesAreSound
    <2>2. CASE s.position = "LONG"
      BY <2>2, LongRulesAreSound
    <2>3. CASE s.position = "ENTRY_PENDING"
      BY <2>3, EntryPendingRulesAreSound
    <2>4. CASE s.position = "EXIT_PENDING"
      BY <2>4, ExitPendingRulesAreSound
    <2>5. CASE s.position \notin {"FLAT", "LONG", "ENTRY_PENDING", "EXIT_PENDING"}
      BY <1>1, <2>5
    <2> QED
      BY <2>1, <2>2, <2>3, <2>4, <2>5
  <1>3. l = FirstRules(s, e, g) \o m
    BY DEF RulesOf
  <1> HIDE DEF m, l
  <1>4. RulesAreSound(l, s, e)
    BY <1>2, <1>3, FirstRulesAreSound, RulesJoin
  <1>5. CASE fired = 0
    <2>1. transition(s, e, g) = s
      BY <1>5 DEF transition, l
    <2>2. Admitted(s, e, s)
      BY DEF Admitted, Lawful, Prohibited, SystemStates, Positions, Evaluations, Healths
    <2> QED
      BY <2>1, <2>2
  <1>6. CASE fired # 0
    <2> DEFINE I == {i \in 1..Len(l) : l[i][1]}
    <2>1. I # {} /\ fired = Min(I)
      BY <1>6 DEF SelectInSeq
    <2>2. Len(l) \in Nat /\ I \subseteq Nat
      BY <1>4 DEF RulesAreSound
    <2>3. fired \in I
      <3> HIDE DEF I, fired
      <3>1. PICK i \in I : \A k \in I : i <= k
        BY <2>1, <2>2, LeastExists
      <3> QED
        BY <2>1, <3>1 DEF Min
    <2>4. transition(s, e, g) = l[fired][2]
      BY <1>6 DEF transition, l
    <2> HIDE DEF fired
    <2> QED
      BY <1>4, <2>3, <2>4 DEF RulesAreSound
  <1> QED
    BY <1>5, <1>6

LEMMA MachineInitially == MachineInit => MachineInv
  BY DEF MachineInit, MachineInv, SystemStates, Positions, Evaluations, Healths, StateEvents,
     Lawful, To

\* A step of the machine as both its invariant and its action property speak of it.
MachineMoves == Admitted(sys, event', sys') /\ event' \in StateEvents

LEMMA AnswerMoves ==
    ASSUME MachineInv, NEW e \in StateEvents, NEW g \in Guards, Answer(e, g)
    PROVE  MachineMoves
  BY TransitionIsSound DEF Answer, MachineInv, MachineMoves

LEMMA MachineMovesOn ==
    ASSUME MachineInv, MachineMoves
    PROVE  /\ MachineInv'
           /\ ~Prohibited(sys, sys', event')
           /\ sys.health # "READY" /\ sys'.health = "READY" => event' = "QUALITY_READY"
  BY DEF MachineInv, MachineMoves, Admitted

-----------------------------------------------------------------------------
\* From an opportunity to an exported decision.

DecisionIds ==
    [id : Nat, state : SystemStates, version : Nat, action : {"HOLD", "EXIT_LONG", "ENTER_LONG"}]

\* What is known in memory is what is on disk, as long as the process runs.
ChainInv ==
    /\ MachineInv
    /\ version \in Nat
    /\ request # NoRequest => \E n \in Nat : request \in Requests(n)
    /\ ledger \in Seq(DecisionIds) /\ exported \in Seq(DecisionIds)
    /\ process = "up" => known = ToSet(ledger)
    /\ DecisionsAreHandedOverOnce

LEMMA ChainInitially ==
    ASSUME NothingDecided, MachineInv PROVE ChainInv
  <1>1. /\ version = 0 /\ request = NoRequest /\ ledger = <<>> /\ known = {} /\ exported = <<>>
    BY DEF NothingDecided
  <1>2. <<>> \in Seq(DecisionIds) /\ ToSet(<<>>) = {} /\ IsInjective(<<>>)
    BY DEF ToSet, IsInjective
  <1> QED
    BY <1>1, <1>2 DEF ChainInv, DecisionsAreHandedOverOnce

\* What is decided in a lawful state is one of four actions, and leaves a lawful state.
LEMMA DecideIsSound ==
    ASSUME NEW s \in SystemStates, Lawful(s), NEW n \in Nat, NEW r \in Requests(n)
    PROVE  LET d == decide(s, r)
           IN  /\ d.action \in {"HOLD", "EXIT_LONG", "ENTER_LONG"}
               /\ Admitted(s, "DECISION_RECORDED", d.after)
               /\ d.action = "ENTER_LONG" =>
                    /\ s.position = "FLAT" /\ s.health = "READY"
                    /\ Approved(r) /\ ~Blockers(r)
  <1> DEFINE d == decide(s, r)
  <1> USE DEF SystemStates, Positions, Evaluations, Healths
  <1>1. CASE d = BlockedHold(s, 0) \/ d = BlockedHold(s, 2)
    BY <1>1 DEF BlockedHold, Hold, To, Admitted, Lawful, Prohibited
  <1>2. CASE d = Hold(s, 2) \/ d = Hold(s, 5)
    BY <1>2 DEF Hold, Admitted, Lawful, Prohibited
  <1>3. CASE (d = Exit(s, 1) \/ d = Exit(s, 3)) /\ s.position = "LONG"
    BY <1>3 DEF Exit, To, Admitted, Lawful, Prohibited
  <1>4. CASE d = Enter /\ ~Blockers(r) /\ ~EntryRejected(s, r)
    <2>1. s.position = "FLAT" /\ s.health = "READY" /\ Approved(r)
      BY <1>4, Zenon DEF EntryRejected
    <2>2. Admitted(s, "DECISION_RECORDED", Enter.after) /\ Enter.action = "ENTER_LONG"
      BY <2>1 DEF Enter, To, Admitted, Lawful, Prohibited
    <2> QED
      BY <1>4, <2>1, <2>2, Zenon
  <1>5. \/ d = BlockedHold(s, 0) \/ d = BlockedHold(s, 2)
        \/ d = Hold(s, 2) \/ d = Hold(s, 5)
        \/ (d = Exit(s, 1) \/ d = Exit(s, 3)) /\ s.position = "LONG"
        \/ d = Enter /\ ~Blockers(r) /\ ~EntryRejected(s, r)
    BY DEF decide
  <1> QED
    BY <1>1, <1>2, <1>3, <1>4, <1>5

\* One more element, which was not there, is one more element and comes once.
LEMMA AppendOnce ==
    ASSUME NEW S, NEW q \in Seq(S), NEW x \in S
    PROVE  LET a == Append(q, x)
           IN  /\ a \in Seq(S) /\ Len(a) = Len(q) + 1 /\ a[Len(q) + 1] = x
               /\ ToSet(a) = ToSet(q) \cup {x}
               /\ x \notin ToSet(q) /\ IsInjective(q) => IsInjective(a)
  <1> DEFINE a == Append(q, x)
             n == Len(q)
  <1>1. /\ a \in Seq(S) /\ Len(a) = n + 1 /\ a[n + 1] = x
        /\ \A i \in 1..n : a[i] = q[i]
    BY AppendProperties
  <1>2. n \in Nat /\ DOMAIN q = 1..n /\ DOMAIN a = 1..(n + 1)
    BY <1>1
  <1> HIDE DEF a, n
  <1>3. \A i \in 1..(n + 1) : i = n + 1 \/ i \in 1..n
    BY <1>2
  <1>4. n + 1 \in 1..(n + 1) /\ \A i \in 1..n : i \in 1..(n + 1)
    BY <1>2
  <1>5. ToSet(a) = {a[i] : i \in 1..(n + 1)} /\ ToSet(q) = {q[i] : i \in 1..n}
    BY <1>2 DEF ToSet
  <1>6. ToSet(a) = ToSet(q) \cup {x}
    BY <1>1, <1>3, <1>4, <1>5
  <1>7. ASSUME x \notin ToSet(q), IsInjective(q) PROVE IsInjective(a)
    <2>1. \A i \in 1..n : q[i] # x
      BY <1>5, <1>7
    <2>2. \A i, j \in 1..n : q[i] = q[j] => i = j
      BY <1>2, <1>7, Zenon DEF IsInjective
    <2>3. \A i, j \in 1..(n + 1) : a[i] = a[j] => i = j
      BY <1>1, <1>3, <2>1, <2>2, Zenon
    <2> QED
      BY <1>2, <2>3, Zenon DEF IsInjective
  <1> QED
    BY <1>1, <1>6, <1>7 DEF a, n

\* The decision that is about to be made is one of those the ledger may hold.
LEMMA DecisionIsOne ==
    ASSUME ChainInv, request # NoRequest
    PROVE  /\ DecisionId \in DecisionIds
           /\ Admitted(sys, "DECISION_RECORDED", Decided.after)
           /\ DecisionId.action = Decided.action
           /\ Decided.action = "ENTER_LONG" =>
                /\ sys.position = "FLAT" /\ sys.health = "READY"
                /\ Approved(request) /\ ~Blockers(request)
  <1>1. PICK n \in Nat : request \in Requests(n)
    BY Zenon DEF ChainInv
  <1>2. request.id \in Nat
    BY <1>1 DEF Requests
  <1>3. sys \in SystemStates /\ Lawful(sys) /\ version \in Nat
    BY DEF ChainInv, MachineInv
  <1>4. /\ Decided.action \in {"HOLD", "EXIT_LONG", "ENTER_LONG"}
        /\ Admitted(sys, "DECISION_RECORDED", Decided.after)
        /\ Decided.action = "ENTER_LONG" =>
             /\ sys.position = "FLAT" /\ sys.health = "READY"
             /\ Approved(request) /\ ~Blockers(request)
    BY <1>1, <1>3, DecideIsSound DEF Decided
  <1>5. DecisionId.action = Decided.action
    BY DEF DecisionId, Identity
  <1>6. DecisionId \in DecisionIds
    BY <1>2, <1>3, <1>4 DEF DecisionId, Identity, DecisionIds
  <1> QED
    BY <1>4, <1>5, <1>6, Zenon

\* Decisions on disk and decisions handed over, when one more is on disk.
LEMMA LedgerGrows ==
    ASSUME ChainInv, request # NoRequest, DecisionId \notin known, process = "up",
           ledger' = Append(ledger, DecisionId)
    PROVE  /\ ledger' \in Seq(DecisionIds) /\ IsInjective(ledger)'
           /\ ToSet(ledger)' = ToSet(ledger) \cup {DecisionId}
  <1>1. ledger \in Seq(DecisionIds) /\ IsInjective(ledger) /\ DecisionId \notin ToSet(ledger)
    BY DEF ChainInv, DecisionsAreHandedOverOnce
  <1> QED
    BY <1>1, DecisionIsOne, AppendOnce

\* The caller, the process and the file: none of them moves the system.
EndorsedStep ==
    \A n \in (Len(exported) + 1)..Len(exported') :
      exported'[n].action = "ENTER_LONG" =>
        /\ sys.position = "FLAT" /\ sys.health = "READY"
        /\ Approved(request) /\ ~Blockers(request)

LEMMA NothingExported ==
    ASSUME ChainInv, exported' = exported PROVE EndorsedStep
  <1>1. Len(exported) \in Nat
    BY DEF ChainInv
  <1> QED
    BY <1>1 DEF EndorsedStep

LEMMA SubmitKeepsChain ==
    ASSUME ChainInv, Submit PROVE ChainInv' /\ EndorsedStep /\ UNCHANGED machineVars
  <1>1. UNCHANGED <<sys, event, version, ledger, known, process, exported>>
    BY DEF Submit
  <1>2. PICK r \in Requests(request.id + 1) : request' = r
    BY DEF Submit
  <1>3. request' # NoRequest => \E n \in Nat : request' \in Requests(n)
    <2>1. CASE request = NoRequest
      <3>1. request.id + 1 \in Nat
        BY <2>1 DEF NoRequest
      <3> QED
        BY <1>2, <3>1
    <2>2. CASE request # NoRequest
      <3>1. PICK n \in Nat : request \in Requests(n)
        BY <2>2, Zenon DEF ChainInv
      <3>2. request.id + 1 \in Nat
        BY <3>1 DEF Requests
      <3> QED
        BY <1>2, <3>2
    <2> QED
      BY <2>1, <2>2
  <1>4. EndorsedStep
    BY <1>1, NothingExported
  <1>5. MachineInv' /\ DecisionsAreHandedOverOnce'
    BY <1>1 DEF ChainInv, MachineInv, DecisionsAreHandedOverOnce
  <1> QED
    BY <1>1, <1>3, <1>4, <1>5 DEF ChainInv, machineVars

LEMMA ExportKeepsChain ==
    ASSUME ChainInv, Export PROVE ChainInv' /\ EndorsedStep /\ MachineMoves
  <1>1. /\ request # NoRequest /\ DecisionId \notin known /\ process = "up"
        /\ ledger' = Append(ledger, DecisionId) /\ known' = known \cup {DecisionId}
        /\ exported' = Append(exported, DecisionId)
        /\ sys' = Decided.after /\ event' = "DECISION_RECORDED" /\ version' = version + 1
        /\ request' = request
    BY DEF Export, Appended
  <1>2. /\ DecisionId \in DecisionIds /\ Admitted(sys, "DECISION_RECORDED", Decided.after)
        /\ DecisionId.action = Decided.action
        /\ Decided.action = "ENTER_LONG" =>
             /\ sys.position = "FLAT" /\ sys.health = "READY"
             /\ Approved(request) /\ ~Blockers(request)
    BY <1>1, DecisionIsOne
  <1>3. MachineMoves
    BY <1>1, <1>2 DEF MachineMoves, StateEvents
  <1>4. MachineInv'
    BY <1>3, MachineMovesOn, Zenon DEF ChainInv
  <1>5. /\ ledger' \in Seq(DecisionIds) /\ IsInjective(ledger)'
        /\ ToSet(ledger)' = ToSet(ledger) \cup {DecisionId}
    BY <1>1, LedgerGrows
  <1>6. /\ exported \in Seq(DecisionIds) /\ IsInjective(exported)
        /\ ToSet(exported) \subseteq ToSet(ledger) /\ known = ToSet(ledger)
    BY <1>1 DEF ChainInv, DecisionsAreHandedOverOnce
  <1>7. /\ exported' \in Seq(DecisionIds) /\ IsInjective(exported)'
        /\ ToSet(exported)' = ToSet(exported) \cup {DecisionId}
        /\ Len(exported') = Len(exported) + 1 /\ exported'[Len(exported) + 1] = DecisionId
    BY <1>1, <1>2, <1>6, AppendOnce
  <1>8. known' = ToSet(ledger)' /\ ToSet(exported)' \subseteq ToSet(ledger)'
    BY <1>1, <1>5, <1>6, <1>7
  <1>9. EndorsedStep
    <2>1. Len(exported) \in Nat
      BY <1>6
    <2>2. \A n \in (Len(exported) + 1)..Len(exported') : n = Len(exported) + 1
      BY <1>7, <2>1
    <2> QED
      BY <1>2, <1>7, <2>2, Zenon DEF EndorsedStep
  <1>10. version' \in Nat
    BY <1>1 DEF ChainInv
  <1>11. request' # NoRequest => \E n \in Nat : request' \in Requests(n)
    BY <1>1 DEF ChainInv
  <1> QED
    BY <1>3, <1>4, <1>5, <1>7, <1>8, <1>9, <1>10, <1>11 DEF ChainInv, DecisionsAreHandedOverOnce

LEMMA DieKeepsChain ==
    ASSUME ChainInv, Die PROVE ChainInv' /\ EndorsedStep /\ UNCHANGED machineVars
  <1>1. /\ process = "up" /\ process' = "down"
        /\ UNCHANGED <<sys, event, request, version, exported>>
    BY DEF Die
  <1>2. \/ ledger' = ledger
        \/ /\ request # NoRequest /\ DecisionId \notin known
           /\ ledger' = Append(ledger, DecisionId)
    BY DEF Die, Appended
  <1>3. EndorsedStep
    BY <1>1, NothingExported
  <1>4. MachineInv'
    BY <1>1 DEF ChainInv, MachineInv
  <1>5. /\ ledger' \in Seq(DecisionIds) /\ IsInjective(ledger)'
        /\ ToSet(ledger) \subseteq ToSet(ledger)'
    <2>1. CASE ledger' = ledger
      BY <2>1 DEF ChainInv, DecisionsAreHandedOverOnce
    <2>2. CASE ledger' # ledger
      BY <1>1, <1>2, <2>2, LedgerGrows
    <2> QED
      BY <2>1, <2>2
  <1>6. DecisionsAreHandedOverOnce'
    BY <1>1, <1>5 DEF ChainInv, DecisionsAreHandedOverOnce
  <1> QED
    BY <1>1, <1>3, <1>4, <1>5, <1>6 DEF ChainInv, machineVars

LEMMA StartKeepsChain ==
    ASSUME ChainInv, Start PROVE ChainInv' /\ EndorsedStep /\ UNCHANGED machineVars
  <1>1. UNCHANGED <<sys, event, request, version, ledger, exported>>
    BY DEF Start
  <1>2. process' = "up" => known' = ToSet(ledger)
    BY DEF Start
  <1>3. EndorsedStep
    BY <1>1, NothingExported
  <1>4. MachineInv' /\ DecisionsAreHandedOverOnce'
    BY <1>1 DEF ChainInv, MachineInv, DecisionsAreHandedOverOnce
  <1> QED
    BY <1>1, <1>2, <1>3, <1>4 DEF ChainInv, machineVars

LEMMA FeedbackKeepsChain ==
    ASSUME ChainInv, Feedback PROVE ChainInv' /\ EndorsedStep /\ MachineMoves
  <1>1. UNCHANGED <<request, ledger, known, process, exported>> /\ version' = version + 1
    BY DEF Feedback
  <1>2. PICK e \in Feedbacks, some \in BOOLEAN :
          Answer(e, [ok |-> TRUE, authoritative |-> TRUE, some |-> some, protective |-> FALSE,
                     valid |-> TRUE])
    BY DEF Feedback
  <1>3. /\ e \in StateEvents
        /\ [ok |-> TRUE, authoritative |-> TRUE, some |-> some, protective |-> FALSE,
            valid |-> TRUE] \in Guards
    BY DEF Feedbacks, StateEvents, Guards
  <1>4. MachineMoves
    BY <1>2, <1>3, AnswerMoves DEF ChainInv
  <1>5. MachineInv'
    BY <1>4, MachineMovesOn, Zenon DEF ChainInv
  <1>6. EndorsedStep
    BY <1>1, NothingExported
  <1>7. DecisionsAreHandedOverOnce' /\ version' \in Nat
    BY <1>1 DEF ChainInv, DecisionsAreHandedOverOnce
  <1> QED
    BY <1>1, <1>4, <1>5, <1>6, <1>7 DEF ChainInv

\* What a step of the service may do: nothing to the system, or what a rule admits.
LEMMA ChainStep ==
    ASSUME ChainInv, [ChainNext]_chainVars
    PROVE  ChainInv' /\ EndorsedStep /\ (MachineMoves \/ UNCHANGED machineVars)
  <1>1. CASE Suppress \/ UNCHANGED chainVars
    <2>1. UNCHANGED <<sys, event, request, version, ledger, known, process, exported>>
      BY <1>1 DEF Suppress, chainVars
    <2>2. MachineInv' /\ DecisionsAreHandedOverOnce'
      BY <2>1 DEF ChainInv, MachineInv, DecisionsAreHandedOverOnce
    <2> QED
      BY <2>1, <2>2, NothingExported DEF ChainInv, machineVars
  <1> QED
    BY <1>1, SubmitKeepsChain, ExportKeepsChain, DieKeepsChain, StartKeepsChain,
       FeedbackKeepsChain, Zenon DEF ChainNext

\* The machine by itself: every event there is, with any permission.
LEMMA MachineStep ==
    ASSUME ChainInv, MachineNext, UNCHANGED requestVars
    PROVE  ChainInv' /\ EndorsedStep /\ MachineMoves
  <1>1. UNCHANGED <<request, version, ledger, known, process, exported>>
    BY DEF requestVars
  <1>2. MachineMoves
    BY AnswerMoves DEF MachineNext, ChainInv
  <1>3. MachineInv'
    BY <1>2, MachineMovesOn, Zenon DEF ChainInv
  <1>4. DecisionsAreHandedOverOnce'
    BY <1>1 DEF ChainInv, DecisionsAreHandedOverOnce
  <1> QED
    BY <1>1, <1>2, <1>3, <1>4, NothingExported DEF ChainInv

-----------------------------------------------------------------------------
\* The setups of the retired policies.

Read == [arms : BOOLEAN, sound : BOOLEAN]

\* The bar that armed a setup b bars ago is in the record, and all since then were sound.
EarnedBy(q, b) ==
    /\ b + 1 <= Len(q) /\ q[Len(q) - b].arms
    /\ \A j \in (Len(q) - b + 1)..Len(q) : q[j].sound

SetupInv ==
    /\ setup \in [state : {"IDLE", "ARMED", "EMITTED"}, bars : 0..Timeout]
    /\ record \in Seq(Read) /\ Len(record) <= Timeout + 1
    /\ setup.state = "ARMED" => EarnedBy(record, setup.bars)

LEMMA SetupInitially == TrendInit => SetupInv
  <1> SUFFICES ASSUME TrendInit PROVE SetupInv
    OBVIOUS
  <1>1. setup = Idle /\ record = <<>>
    BY DEF TrendInit
  <1>2. Timeout \in Nat
    BY TrendAssumption
  <1>3. <<>> \in Seq(Read) /\ Len(<<>>) = 0
    OBVIOUS
  <1> QED
    BY <1>1, <1>2, <1>3 DEF SetupInv, Idle

\* One more bar is read; the oldest is forgotten when no setup can last as long.
Latest(q, x) ==
    LET all == Append(q, x) IN IF Len(all) > Timeout + 1 THEN Tail(all) ELSE all

LEMMA LatestIsKept ==
    ASSUME NEW q \in Seq(Read), Len(q) <= Timeout + 1, NEW x \in Read
    PROVE  LET l == Latest(q, x)
           IN  /\ l \in Seq(Read) /\ Len(l) <= Timeout + 1 /\ Len(l) >= 1
               /\ l[Len(l)] = x
               /\ \A b \in 0..(Timeout - 1) : EarnedBy(q, b) /\ x.sound => EarnedBy(l, b + 1)
  <1> DEFINE a == Append(q, x)
             n == Len(q)
             l == Latest(q, x)
             m == Len(l)
  <1>0. n \in Nat /\ n <= Timeout + 1 /\ Timeout \in Nat /\ Timeout >= 1
    BY TrendAssumption
  <1>1. /\ a \in Seq(Read) /\ Len(a) = n + 1 /\ a[n + 1] = x
        /\ \A i \in 1..n : a[i] = q[i]
    BY AppendProperties
  <1>2. /\ l \in Seq(Read) /\ m <= Timeout + 1 /\ m >= 1 /\ m \in Nat
        /\ \E d \in {0, 1} :
             /\ m + d = n + 1 /\ (d = 1 => m = Timeout + 1)
             /\ \A i \in 1..m : l[i] = a[i + d]
    <2> HIDE DEF a, n
    <2>1. CASE Len(a) > Timeout + 1
      <3>1. a # <<>> /\ l = Tail(a)
        BY <1>0, <1>1, <2>1 DEF Latest, a
      <3>2. /\ Tail(a) \in Seq(Read) /\ Len(Tail(a)) = Len(a) - 1
            /\ \A i \in 1..Len(Tail(a)) : Tail(a)[i] = a[i + 1]
        BY <1>1, <3>1, HeadTailProperties
      <3> HIDE DEF l
      <3>3. l \in Seq(Read) /\ m = n /\ \A i \in 1..m : l[i] = a[i + 1]
        BY <1>0, <1>1, <3>1, <3>2
      <3> HIDE DEF m
      <3>4. m + 1 = n + 1 /\ m = Timeout + 1
        BY <1>0, <1>1, <2>1, <3>3
      <3> QED
        BY <1>0, <3>3, <3>4
    <2>2. CASE ~(Len(a) > Timeout + 1)
      <3>1. l = a
        BY <2>2 DEF Latest, a
      <3> HIDE DEF l
      <3>2. m = n + 1 /\ l \in Seq(Read)
        BY <1>1, <3>1
      <3> HIDE DEF m
      <3>3. m + 0 = n + 1 /\ \A i \in 1..m : l[i] = a[i + 0]
        BY <1>0, <3>1, <3>2
      <3> QED
        BY <1>0, <1>1, <2>2, <3>2, <3>3
    <2> QED
      BY <2>1, <2>2
  <1>3. PICK d \in {0, 1} :
          /\ m + d = n + 1 /\ (d = 1 => m = Timeout + 1)
          /\ \A i \in 1..m : l[i] = a[i + d]
    BY <1>2
  <1> HIDE DEF a, n, l, m
  <1>4. l[m] = x
    BY <1>0, <1>1, <1>2, <1>3
  <1>5. ASSUME NEW b \in 0..(Timeout - 1), EarnedBy(q, b), x.sound PROVE EarnedBy(l, b + 1)
    <2>1. /\ b + 1 <= n /\ q[n - b].arms
          /\ \A j \in (n - b + 1)..n : q[j].sound
      BY <1>5 DEF EarnedBy, n
    <2>2. b + 1 + 1 <= m
      BY <1>0, <1>2, <1>3, <2>1
    <2>3. m - (b + 1) \in 1..m /\ m - (b + 1) + d = n - b /\ n - b \in 1..n
      BY <1>0, <1>2, <1>3, <2>1, <2>2
    <2>4. l[m - (b + 1)] = q[n - b]
      BY <1>1, <1>3, <2>3
    <2>5. ASSUME NEW j \in (m - (b + 1) + 1)..m PROVE l[j].sound
      <3>1. CASE j = m
        BY <1>4, <1>5, <3>1
      <3>2. CASE j # m
        <4>1. j \in 1..m /\ j + d \in (n - b + 1)..n /\ j + d \in 1..n
          BY <1>0, <1>2, <1>3, <2>1, <2>2, <3>2
        <4>2. l[j] = q[j + d]
          BY <1>1, <1>3, <4>1
        <4> QED
          BY <2>1, <4>1, <4>2
      <3> QED
        BY <3>1, <3>2
    <2> QED
      BY <2>1, <2>2, <2>4, <2>5, Zenon DEF EarnedBy, m
  <1> QED
    BY <1>2, <1>4, <1>5 DEF l, m

\* What a step that proposes an entry shows.
EntryStep ==
    setup' # setup /\ intent' = "ENTRY" =>
      LET n == Len(record')
      IN  /\ \E i \in 1..(n - 1) :
               record'[i].arms /\ n - i <= Timeout
               /\ \A j \in (i + 1)..n : record'[j].sound
          /\ setup.state = "ARMED" /\ (IsPOL101 => setup'.state = "EMITTED")

LEMMA WasIsRead == ASSUME NEW b \in PolicyBars PROVE Was(b) \in Read
  <1>1. Was(b).arms \in BOOLEAN /\ Was(b).sound \in BOOLEAN
    BY Zenon DEF Was
  <1>2. Was(b) = [arms |-> Was(b).arms, sound |-> Was(b).sound]
    BY DEF Was
  <1> HIDE DEF Was
  <1> QED
    BY <1>1, <1>2 DEF Read

\* Where no setup is looked at, it ends or stays as it is, and nothing is proposed.
LEMMA OtherwiseKeepsSetup ==
    ASSUME SetupInv, NEW b \in PolicyBars, Guarded \/ Waits \/ Manage(b), Recorded(b)
    PROVE  SetupInv' /\ intent' # "ENTRY"
  <1>1. intent' # "ENTRY"
    BY DEF Guarded, Waits, Manage, Proposes
  <1>2. \/ setup' = Idle
        \/ setup' = setup /\ (desk.position # "FLAT" \/ setup.state = "EMITTED")
    BY DEF Guarded, Waits, Manage, Proposes
  <1>3. /\ Timeout \in Nat
        /\ record \in Seq(Read) /\ Len(record) <= Timeout + 1
        /\ setup \in [state : {"IDLE", "ARMED", "EMITTED"}, bars : 0..Timeout]
    BY TrendAssumption DEF SetupInv
  <1>4. /\ Latest(record, Was(b)) \in Seq(Read)
        /\ Len(Latest(record, Was(b))) <= Timeout + 1
    BY <1>3, WasIsRead, LatestIsKept
  <1>5. record' \in {Latest(record, Was(b)), <<>>, record}
    BY DEF Recorded, Latest
  <1>6. record' \in Seq(Read) /\ Len(record') <= Timeout + 1
    <2>1. <<>> \in Seq(Read) /\ Len(<<>>) <= Timeout + 1
      BY <1>3
    <2> DEFINE Few == {q \in Seq(Read) : Len(q) <= Timeout + 1}
    <2>2. {Latest(record, Was(b)), <<>>, record} \subseteq Few
      BY <1>3, <1>4, <2>1
    <2>3. record' \in Few
      BY <1>5, <2>2, Zenon
    <2> QED
      BY <2>3
  <1>7. CASE setup' = Idle
    BY <1>1, <1>3, <1>6, <1>7 DEF SetupInv, Idle
  <1>8. CASE setup' # Idle
    <2>1. setup' = setup /\ record' = record
      BY <1>2, <1>8 DEF Recorded
    <2> QED
      BY <1>1, <2>1 DEF SetupInv
  <1> QED
    BY <1>7, <1>8

\* What a setup becomes under a bar, and what is then known of it.
LEMMA LookKeepsSetup ==
    ASSUME SetupInv, NEW b \in PolicyBars, Look(b), Recorded(b)
    PROVE  SetupInv' /\ EntryStep
  <1> DEFINE l == Latest(record, Was(b))
  <1>1. /\ Timeout \in Nat /\ Timeout >= 1
        /\ record \in Seq(Read) /\ Len(record) <= Timeout + 1
        /\ setup \in [state : {"IDLE", "ARMED", "EMITTED"}, bars : 0..Timeout]
    BY TrendAssumption DEF SetupInv
  <1>2. Was(b) \in Read
    BY WasIsRead
  <1> HIDE DEF l
  <1>3. /\ l \in Seq(Read) /\ Len(l) <= Timeout + 1 /\ Len(l) >= 1 /\ Len(l) \in Nat
        /\ l[Len(l)] = Was(b)
        /\ \A k \in 0..(Timeout - 1) : EarnedBy(record, k) /\ Was(b).sound => EarnedBy(l, k + 1)
    <2> DEFINE w == Was(b)
    <2>1. w \in Read /\ l = Latest(record, w)
      BY <1>2 DEF l
    <2> HIDE DEF w
    <2>2. /\ l \in Seq(Read) /\ Len(l) <= Timeout + 1 /\ Len(l) >= 1
          /\ l[Len(l)] = w
          /\ \A k \in 0..(Timeout - 1) : EarnedBy(record, k) /\ w.sound => EarnedBy(l, k + 1)
      BY <1>1, <2>1, LatestIsKept
    <2>3. Len(l) \in Nat
      BY <2>2
    <2> QED
      BY <2>2, <2>3 DEF w
  <1>4. desk.position = "FLAT" /\ Ready /\ setup.state # "EMITTED"
    BY Zenon DEF Look
  <1>5. record' = l
    BY <1>4, Zenon DEF Recorded, Latest, l
  <1>6. CASE setup' = Idle /\ intent' = "NONE"
    BY <1>1, <1>3, <1>5, <1>6 DEF SetupInv, EntryStep, Idle
  <1>7. CASE /\ Proposes("NONE", Armed(0)) /\ Arms(b) /\ b.inputs # "missing"
    <2>1. setup' = Armed(0) /\ intent' = "NONE" /\ Was(b).arms
      BY <1>7, Zenon DEF Proposes, Was
    <2>2. EarnedBy(l, 0)
      <3>1. 0 + 1 <= Len(l) /\ Len(l) - 0 = Len(l)
        BY <1>3
      <3>2. \A j \in (Len(l) - 0 + 1)..Len(l) : FALSE
        BY <1>3
      <3> QED
        BY <1>3, <2>1, <3>1, <3>2 DEF EarnedBy
    <2> QED
      BY <1>1, <1>3, <1>5, <2>1, <2>2 DEF SetupInv, EntryStep, Armed
  <1>8. CASE /\ setup.state # "IDLE" /\ ~Spoils(b) /\ b.inputs # "missing"
             /\ \/ /\ Completes(b)
                   /\ Proposes("ENTRY", IF IsPOL101 THEN Emitted ELSE Armed(setup.bars + 1))
                \/ Proposes("NONE", Armed(setup.bars + 1))
    <2>1. setup.state = "ARMED" /\ EarnedBy(record, setup.bars)
      BY <1>1, <1>4, <1>8 DEF SetupInv
    <2>2. setup.bars + 1 <= Timeout /\ setup.bars \in 0..(Timeout - 1)
      BY <1>1, <1>8 DEF Spoils
    <2>3. Was(b).sound
      <3>1. Allowed(b) /\ b.place # "failed" /\ b.inputs # "costly"
        BY <1>8, Zenon DEF Spoils
      <3>2. b.inputs = "cheap"
        BY <1>8, <3>1 DEF PolicyBars
      <3> QED
        BY <3>1, <3>2, Zenon DEF Was
    <2> DEFINE k == setup.bars + 1
    <2>4. EarnedBy(l, k)
      BY <1>3, <2>1, <2>2, <2>3
    <2>5. k \in 1..Timeout
      BY <2>2
    <2>6. \/ setup' = Armed(k)
          \/ setup' = Emitted
      BY <1>8 DEF Proposes
    <2>7. intent' = "ENTRY" => (IsPOL101 => setup'.state = "EMITTED")
      BY <1>8 DEF Proposes, Emitted
    <2> HIDE DEF k
    <2>8. SetupInv'
      BY <1>1, <1>3, <1>5, <2>4, <2>5, <2>6 DEF SetupInv, Armed, Emitted
    <2>9. EntryStep
      <3> DEFINE n == Len(l)
      <3>1. k + 1 <= n /\ l[n - k].arms /\ \A j \in (n - k + 1)..n : l[j].sound
        BY <2>4 DEF EarnedBy
      <3>2. n - k \in 1..(n - 1) /\ n - (n - k) <= Timeout
        BY <1>3, <2>5, <3>1
      <3>3. \E i \in 1..(n - 1) : l[i].arms /\ n - i <= Timeout /\ \A j \in (i + 1)..n : l[j].sound
        BY <3>1, <3>2
      <3> QED
        BY <1>5, <2>1, <2>7, <3>3 DEF EntryStep
    <2> QED
      BY <2>8, <2>9
  <1>9. \/ setup' = Idle /\ intent' = "NONE"
        \/ Proposes("NONE", Armed(0)) /\ Arms(b) /\ b.inputs # "missing"
        \/ /\ setup.state # "IDLE" /\ ~Spoils(b) /\ b.inputs # "missing"
           /\ \/ /\ Completes(b)
                 /\ Proposes("ENTRY", IF IsPOL101 THEN Emitted ELSE Armed(setup.bars + 1))
              \/ Proposes("NONE", Armed(setup.bars + 1))
    <2>1. CASE b.inputs = "missing" \/ (~IsPOL101 /\ b.inputs = "costly")
      BY <2>1 DEF Look, Proposes
    <2>2. CASE ~(b.inputs = "missing" \/ (~IsPOL101 /\ b.inputs = "costly")) /\ setup.state = "IDLE"
      <3>1. Proposes("NONE", IF Arms(b) THEN Armed(0) ELSE Idle)
        BY <2>2, Zenon DEF Look
      <3> QED
        BY <2>2, <3>1 DEF Proposes
    <2>3. CASE ~(b.inputs = "missing" \/ (~IsPOL101 /\ b.inputs = "costly")) /\ setup.state # "IDLE"
      <3>1. IF Spoils(b) THEN Proposes("NONE", Idle)
            ELSE IF Completes(b)
            THEN Proposes("ENTRY", IF IsPOL101 THEN Emitted ELSE Armed(setup.bars + 1))
            ELSE Proposes("NONE", Armed(setup.bars + 1))
        BY <2>3, Zenon DEF Look
      <3>2. Proposes("NONE", Idle) => setup' = Idle /\ intent' = "NONE"
        BY DEF Proposes
      <3> QED
        BY <2>3, <3>1, <3>2, Zenon
    <2> QED
      BY <2>1, <2>2, <2>3, Zenon
  <1> QED
    BY <1>6, <1>7, <1>8, <1>9

LEMMA SetupStep ==
    ASSUME SetupInv, [TrendNext]_trendVars PROVE SetupInv' /\ EntryStep
  <1>1. CASE Evaluate
    <2>1. PICK b \in PolicyBars : (Guarded \/ Waits \/ Manage(b) \/ Look(b)) /\ Recorded(b)
      BY <1>1, Zenon DEF Evaluate
    <2>2. CASE Look(b)
      BY <2>1, <2>2, LookKeepsSetup
    <2>3. CASE Guarded \/ Waits \/ Manage(b)
      BY <2>1, <2>3, OtherwiseKeepsSetup DEF EntryStep
    <2> QED
      BY <2>1, <2>2, <2>3
  <1>2. CASE UNCHANGED <<setup, record>>
    BY <1>2 DEF SetupInv, EntryStep
  <1> QED
    BY <1>1, <1>2 DEF TrendNext, Move, trendVars

-----------------------------------------------------------------------------
\* The page that is left open.

\* What a poll that was answered left on the page: the journal as it was then, and the
\* last time it was seen to have grown.
PageInv ==
    /\ second \in Nat /\ count \in Nat /\ wroteAt \in Nat /\ wroteAt <= second
    /\ opened \in Nat /\ opened <= second
    /\ {lastOk, lastEval, lastChange} \subseteq Nat \cup {Never}
    /\ lastOk = Never <=> lastEval = Never
    /\ lastOk # Never =>
         /\ lastOk <= second /\ opened <= lastOk /\ lastEval <= count
         /\ lastEval = count \/ wroteAt >= lastOk
         /\ lastEval = count => wroteAt <= lastChange

LEMMA PageInitially == PageInit => PageInv
  BY DEF PageInit, PageInv, Never

LEMMA PageStep == PageInv /\ [PageNext]_pageVars => PageInv'
  <1> SUFFICES ASSUME PageInv, [PageNext]_pageVars PROVE PageInv'
    OBVIOUS
  <1> USE DEF PageInv, Never
  <1>1. CASE Second
    BY <1>1, PageAssumption DEF Second
  <1>2. CASE AgentWrites
    BY <1>2 DEF AgentWrites
  <1>3. CASE ServerChanges
    BY <1>3 DEF ServerChanges
  <1>4. CASE Load
    BY <1>4 DEF Load
  <1>5. CASE Poll
    BY <1>5 DEF Poll
  <1>6. CASE UNCHANGED pageVars
    BY <1>6 DEF pageVars
  <1> QED
    BY <1>1, <1>2, <1>3, <1>4, <1>5, <1>6 DEF PageNext

LEMMA PageFollows == PageInv => AlarmIsTrue
  <1> SUFFICES ASSUME PageInv PROVE AlarmIsTrue
    OBVIOUS
  <1>1. ASSUME Heartbeat \in {"still", "live"}
        PROVE  lastOk # Never /\ ~(second - lastOk > AgeLimit)
    BY <1>1 DEF Heartbeat
  <1>2. AgeLimit \in Nat
    BY PageAssumption
  <1> QED
    BY <1>1, <1>2 DEF PageInv, AlarmIsTrue, Never

-----------------------------------------------------------------------------
\* The notice that posts the verdict of a backtest.

NoticeInv ==
    /\ hour \in Int /\ onDisk.at \in Int
    /\ message.text = "none" \/ message.text = Composed(message.of)
    /\ message.text # "none" /\ since # Unwatched =>
         message.of.at = NoReport \/ message.of.at >= since
    /\ watcher \in {"start", "waiting", "settled"} => message.text = "none" /\ posted = "nothing"
    /\ watcher = "exit 0" <=> posted # "nothing"

LEMMA NoticeInitially == NoticeInit => NoticeInv
  <1> SUFFICES ASSUME NoticeInit PROVE NoticeInv
    OBVIOUS
  <1>1. onDisk.at \in Int
    BY DEF NoticeInit, NoReport
  <1> QED
    BY <1>1 DEF NoticeInit, NoticeInv, Unwatched

LEMMA AnnounceKeepsNotice ==
    ASSUME NoticeInv, Announce PROVE NoticeInv'
  <1>1. /\ watcher = "settled" /\ UNCHANGED <<hour, onDisk, since>>
        /\ message.text = "none" /\ posted = "nothing"
    BY DEF Announce, NoticeInv
  <1>2. CASE onDisk.at # NoReport /\ ~Fresh
    <2>1. watcher' = "exit 2" /\ UNCHANGED <<posted, message>>
      BY <1>2, Zenon DEF Announce
    <2> QED
      BY <1>1, <2>1 DEF NoticeInv
  <1>3. CASE ~(onDisk.at # NoReport /\ ~Fresh)
    <2>1. /\ message' = [text |-> Composed(onDisk), of |-> onDisk]
          /\ posted' = IF Accepted THEN Composed(onDisk) ELSE "nothing"
          /\ watcher' = IF Accepted THEN "exit 0" ELSE "exit 1"
      BY <1>3, Zenon DEF Announce
    <2>2. Composed(onDisk) \notin {"none", "nothing"}
      BY DEF Composed
    <2>3. message'.text = Composed(onDisk) /\ message'.of = onDisk
      BY <2>1
    <2>4. message'.text = Composed(message'.of)
      BY <2>3
    <2>5. since # Unwatched => onDisk.at = NoReport \/ onDisk.at >= since
      BY <1>3 DEF Fresh
    <2>6. watcher' \in {"exit 0", "exit 1"} /\ (watcher' = "exit 0" <=> posted' # "nothing")
      BY <2>1, <2>2
    <2>7. hour' \in Int /\ onDisk'.at \in Int
      BY <1>1 DEF NoticeInv
    <2>8. since' # Unwatched => message'.of.at = NoReport \/ message'.of.at >= since'
      BY <1>1, <2>3, <2>5
    <2> QED
      BY <2>4, <2>6, <2>7, <2>8 DEF NoticeInv, Composed
  <1> QED
    BY <1>2, <1>3

LEMMA NoticeStep == NoticeInv /\ [NoticeNext]_noticeVars => NoticeInv'
  <1> SUFFICES ASSUME NoticeInv, [NoticeNext]_noticeVars PROVE NoticeInv'
    OBVIOUS
  <1> USE DEF NoticeInv, Composed
  <1>1. CASE Hour
    <2>1. hour \in Int /\ hour' = hour + 1
      BY <1>1, Zenon DEF Hour
    <2>2. hour' \in Int
      BY ONLY <2>1
    <2>3. UNCHANGED <<onDisk, watcher, since, posted, message>>
      BY <1>1 DEF Hour
    <2> QED
      BY <2>2, <2>3
  <1>2. CASE RunEnds
    <2>1. \/ \E v \in Verdicts : onDisk' = [at |-> hour, verdict |-> v]
          \/ onDisk' = onDisk
      BY <1>2, Zenon DEF RunEnds
    <2>2. hour \in Int /\ onDisk.at \in Int
      BY Zenon
    <2>3. onDisk'.at \in Int
      BY ONLY <2>1, <2>2
    <2>4. UNCHANGED <<hour, watcher, since, posted, message>>
      BY <1>2 DEF RunEnds
    <2> QED
      BY <2>3, <2>4
  <1>3. CASE Watch
    BY <1>3 DEF Watch
  <1>4. CASE Settle
    BY <1>4 DEF Settle
  <1>5. CASE UNCHANGED noticeVars
    BY <1>5 DEF noticeVars
  <1> QED
    BY <1>1, <1>2, <1>3, <1>4, <1>5, AnnounceKeepsNotice DEF NoticeNext

LEMMA NoticeFollows == NoticeInv => AnnouncementIsTrue
  BY DEF NoticeInv, AnnouncementIsTrue, Composed

-----------------------------------------------------------------------------
\* The gate on the backtest.

GateInv == report \in [FieldNames -> UNION {Figures[f] : f \in FieldNames}] /\ GateTypeOK

\* The measurements of a report, as numbers.
Measured(r) ==
    /\ {r.decisions, r.failures, r.turns, r.commission, r.fall, r.holdFall} \subseteq Nat
    /\ {r.gain, r.holdGain, r.quantGain} \subseteq Int

LEMMA GateInitially == GateInit => GateInv
  <1> SUFFICES ASSUME GateInit PROVE GateInv
    OBVIOUS
  <1>1. ASSUME NEW f \in FieldNames PROVE (CHOOSE v \in Figures[f] : TRUE) \in Figures[f]
    BY GateAssumption
  <1>2. report = [f \in FieldNames |-> CHOOSE v \in Figures[f] : TRUE]
    BY DEF GateInit
  <1> HIDE DEF FieldNames
  <1>3. \A f \in FieldNames : report[f] \in Figures[f]
    BY <1>1, <1>2
  <1> QED
    BY <1>1, <1>2, <1>3 DEF GateInv, GateTypeOK

LEMMA ReportIsMeasured == GateInv => Measured(report)
  BY GateAssumption DEF GateInv, GateTypeOK, Measured, FieldNames

LEMMA GateStep == GateInv /\ [GateNext]_report => GateInv'
  <1> SUFFICES ASSUME GateInv, [GateNext]_report PROVE GateInv'
    OBVIOUS
  <1>1. CASE GateNext
    <2>1. PICK f \in FieldNames : \E v \in Figures[f] : Measure(f, v)
      BY <1>1 DEF GateNext
    <2>2. PICK v \in Figures[f] : Measure(f, v)
      BY <2>1
    <2>3. report' = [report EXCEPT ![f] = v]
      BY <2>2 DEF Measure
    <2> QED
      BY <2>3 DEF GateInv, GateTypeOK
  <1>2. CASE report' = report
    BY <1>2 DEF GateInv, GateTypeOK
  <1> QED
    BY <1>1, <1>2

\* Products of numbers stand as their factors do.
LEMMA ProductInOrder ==
    ASSUME NEW a \in Int, NEW b \in Int, a <= b, NEW c \in Nat
    PROVE  a * c \in Int /\ b * c \in Int /\ a * c <= b * c
  <1>1. a * c \in Int /\ b * c \in Int
    OBVIOUS
  <1> DEFINE d == b - a
  <1>2. d \in Nat /\ b = a + d
    OBVIOUS
  <1> HIDE DEF d
  <1>3. d * c \in Nat /\ b * c = a * c + d * c
    BY <1>2
  <1> QED
    BY <1>1, <1>3

\* Two reports that differ in one measurement.
OnlyIn(r, t, f) == \A g \in FieldNames \ {f} : t[g] = r[g]

\* More failures: only the share of them is another.
LEMMA FailuresWeigh ==
    ASSUME NEW r, NEW t, Measured(r), Measured(t), OnlyIn(r, t, "failures"),
           t.failures > r.failures, Approves(t)
    PROVE  Approves(r)
  <1>1. /\ t.decisions = r.decisions /\ t.traced = r.traced /\ t.turns = r.turns
        /\ t.commission = r.commission /\ t.fall = r.fall /\ t.gain = r.gain
        /\ t.holdFall = r.holdFall /\ t.holdGain = r.holdGain /\ t.quantGain = r.quantGain
    BY DEF OnlyIn, FieldNames
  <1>2. Reliable(r)
    BY <1>1 DEF Approves, Reliable, Measured, Enough, MinDecisions
  <1> QED
    BY <1>1, <1>2, Zenon DEF Approves, Enough, NotAChurner, CommissionIsSmall, SavesCapital,
       CutsTheFall, MatchesTheRisk

LEMMA TurnsWeigh ==
    ASSUME NEW r, NEW t, Measured(r), Measured(t), OnlyIn(r, t, "turns"),
           t.turns > r.turns, Approves(t)
    PROVE  Approves(r)
  <1>1. /\ t.decisions = r.decisions /\ t.traced = r.traced /\ t.failures = r.failures
        /\ t.commission = r.commission /\ t.fall = r.fall /\ t.gain = r.gain
        /\ t.holdFall = r.holdFall /\ t.holdGain = r.holdGain /\ t.quantGain = r.quantGain
    BY DEF OnlyIn, FieldNames
  <1>2. NotAChurner(r)
    BY <1>1 DEF Approves, NotAChurner, Measured
  <1> QED
    BY <1>1, <1>2, Zenon DEF Approves, Enough, Reliable, CommissionIsSmall, SavesCapital,
       CutsTheFall, MatchesTheRisk

\* Fewer decisions weigh on every share of them.
LEMMA DecisionsWeigh ==
    ASSUME NEW r, NEW t, Measured(r), Measured(t), OnlyIn(r, t, "decisions"),
           t.decisions < r.decisions, Approves(t)
    PROVE  Approves(r)
  <1>1. /\ t.turns = r.turns /\ t.traced = r.traced /\ t.failures = r.failures
        /\ t.commission = r.commission /\ t.fall = r.fall /\ t.gain = r.gain
        /\ t.holdFall = r.holdFall /\ t.holdGain = r.holdGain /\ t.quantGain = r.quantGain
    BY DEF OnlyIn, FieldNames
  <1>2. NotAChurner(r) /\ Reliable(r) /\ Enough(r)
    BY <1>1 DEF Approves, NotAChurner, Reliable, Enough, Measured, MinDecisions
  <1> QED
    BY <1>1, <1>2, Zenon DEF Approves, CommissionIsSmall, SavesCapital, CutsTheFall,
       MatchesTheRisk

\* A smaller gain weighs against the risk and against the numeric policy.
LEMMA GainWeighs ==
    ASSUME NEW r, NEW t, Measured(r), Measured(t), OnlyIn(r, t, "gain"),
           t.gain < r.gain, Approves(t)
    PROVE  Approves(r)
  <1>1. /\ t.decisions = r.decisions /\ t.traced = r.traced /\ t.failures = r.failures
        /\ t.turns = r.turns /\ t.commission = r.commission /\ t.fall = r.fall
        /\ t.holdFall = r.holdFall /\ t.holdGain = r.holdGain /\ t.quantGain = r.quantGain
    BY DEF OnlyIn, FieldNames
  <1>2. Captures(r.gain, r.quantGain)
    BY <1>1 DEF Approves, Captures, Measured
  <1>3. MatchesTheRisk(r)
    <2> DEFINE c == IF r.commission = Missing THEN 0 ELSE r.commission
               low == t.gain + c
               high == r.gain + c
    <2>1. low \in Int /\ high \in Int /\ low <= high
      BY DEF Measured
    <2>2. r.holdFall > 0 /\ low * r.holdFall >= r.fall * r.holdGain
      BY <1>1 DEF Approves, MatchesTheRisk
    <2>3. r.holdFall \in Nat /\ r.fall * r.holdGain \in Int
      BY DEF Measured
    <2> HIDE DEF low, high
    <2>4. low * r.holdFall \in Int /\ high * r.holdFall \in Int
          /\ low * r.holdFall <= high * r.holdFall
      BY <2>1, <2>3, ProductInOrder
    <2>5. high * r.holdFall >= r.fall * r.holdGain
      BY ONLY <2>2, <2>3, <2>4
    <2> QED
      BY <2>2, <2>5, Zenon DEF MatchesTheRisk, high
  <1> QED
    BY <1>1, <1>2, <1>3, Zenon DEF Approves, Enough, Reliable, NotAChurner, CommissionIsSmall,
       SavesCapital, CutsTheFall

\* A market that gained more weighs as the risk that was taken in it.
LEMMA MarketWeighs ==
    ASSUME NEW r, NEW t, Measured(r), Measured(t), OnlyIn(r, t, "holdGain"),
           t.holdGain > r.holdGain, Approves(t)
    PROVE  Approves(r)
  <1>1. /\ t.decisions = r.decisions /\ t.traced = r.traced /\ t.failures = r.failures
        /\ t.turns = r.turns /\ t.commission = r.commission /\ t.fall = r.fall
        /\ t.holdFall = r.holdFall /\ t.gain = r.gain /\ t.quantGain = r.quantGain
    BY DEF OnlyIn, FieldNames
  <1>2. MatchesTheRisk(r)
    <2> DEFINE matched == (r.gain + (IF r.commission = Missing THEN 0 ELSE r.commission))
                            * r.holdFall
               x == r.holdGain
               y == t.holdGain
               c == r.fall
    <2>1. x \in Int /\ y \in Int /\ x <= y /\ c \in Nat /\ matched \in Int
      BY DEF Measured
    <2>2. r.holdFall > 0 /\ matched >= c * y
      BY <1>1 DEF Approves, MatchesTheRisk
    <2> HIDE DEF matched, x, y, c
    <2>3. x * c \in Int /\ y * c \in Int /\ x * c <= y * c
      BY <2>1, ProductInOrder
    <2>4. c * x = x * c /\ c * y = y * c
      BY <2>1
    <2>5. matched >= c * x
      BY <2>1, <2>2, <2>3, <2>4
    <2> QED
      BY <2>2, <2>5, Zenon DEF MatchesTheRisk, matched, x, c
  <1> QED
    BY <1>1, <1>2, Zenon DEF Approves, Enough, Reliable, NotAChurner, CommissionIsSmall,
       SavesCapital, CutsTheFall

LEMMA QuantWeighs ==
    ASSUME NEW r, NEW t, Measured(r), Measured(t), OnlyIn(r, t, "quantGain"),
           t.quantGain > r.quantGain, Approves(t)
    PROVE  Approves(r)
  <1>1. /\ t.decisions = r.decisions /\ t.traced = r.traced /\ t.failures = r.failures
        /\ t.turns = r.turns /\ t.commission = r.commission /\ t.fall = r.fall
        /\ t.holdFall = r.holdFall /\ t.gain = r.gain /\ t.holdGain = r.holdGain
    BY DEF OnlyIn, FieldNames
  <1>2. Captures(r.gain, r.quantGain)
    BY <1>1 DEF Approves, Captures, Measured
  <1> QED
    BY <1>1, <1>2, Zenon DEF Approves, Enough, Reliable, NotAChurner, CommissionIsSmall,
       SavesCapital, CutsTheFall, MatchesTheRisk

\* A deeper fall weighs against the reference's, and as risk in a market that did not lose.
LEMMA FallWeighs ==
    ASSUME NEW r, NEW t, Measured(r), Measured(t), OnlyIn(r, t, "fall"),
           t.fall > r.fall, r.holdGain >= 0, Approves(t)
    PROVE  Approves(r)
  <1>1. /\ t.decisions = r.decisions /\ t.traced = r.traced /\ t.failures = r.failures
        /\ t.turns = r.turns /\ t.commission = r.commission /\ t.gain = r.gain
        /\ t.holdFall = r.holdFall /\ t.holdGain = r.holdGain /\ t.quantGain = r.quantGain
    BY DEF OnlyIn, FieldNames
  <1>2. SavesCapital(r) /\ CutsTheFall(r)
    BY <1>1 DEF Approves, SavesCapital, CutsTheFall, Measured, MinDrawdownAdvantage
  <1>3. MatchesTheRisk(r)
    <2> DEFINE matched == (r.gain + (IF r.commission = Missing THEN 0 ELSE r.commission))
                            * r.holdFall
               x == r.fall
               y == t.fall
               c == r.holdGain
    <2>1. x \in Int /\ y \in Int /\ x <= y /\ c \in Nat /\ matched \in Int
      BY DEF Measured
    <2>2. r.holdFall > 0 /\ matched >= y * c
      BY <1>1 DEF Approves, MatchesTheRisk
    <2> HIDE DEF matched, x, y, c
    <2>3. x * c \in Int /\ y * c \in Int /\ x * c <= y * c
      BY <2>1, ProductInOrder
    <2>4. matched >= x * c
      BY <2>1, <2>2, <2>3
    <2> QED
      BY <2>2, <2>4, Zenon DEF MatchesTheRisk, matched, x, c
  <1> QED
    BY <1>1, <1>2, <1>3, Zenon DEF Approves, Enough, Reliable, NotAChurner, CommissionIsSmall

\* A step of the gate changes one measurement.
LEMMA OneMeasurement ==
    ASSUME GateInv, [GateNext]_report, NEW f \in FieldNames, report'[f] # report[f]
    PROVE  OnlyIn(report, report', f)
  <1>1. PICK h \in FieldNames : \E v \in Figures[h] : Measure(h, v)
    BY DEF GateNext
  <1>2. PICK v \in Figures[h] : report' = [report EXCEPT ![h] = v]
    BY <1>1 DEF Measure
  <1>3. \A g \in FieldNames \ {h} : report'[g] = report[g]
    BY <1>2 DEF GateInv
  <1>4. h = f
    BY <1>3
  <1> QED
    BY <1>3, <1>4 DEF OnlyIn

LEMMA WorseIsRefused ==
    ASSUME GateInv, [GateNext]_report
    PROVE  \A f \in FieldNames : report'[f] # report[f] /\ Worse(f) /\ Approves(report')
             => Approves(report)
  <1> SUFFICES ASSUME NEW f \in FieldNames, report'[f] # report[f], Worse(f), Approves(report')
               PROVE  Approves(report)
    OBVIOUS
  <1>1. Measured(report) /\ Measured(report')
    <2>1. GateInv'
      BY GateStep
    <2>2. Measured(report)
      BY ReportIsMeasured
    <2>3. Measured(report')
      BY <2>1, GateAssumption DEF GateInv, GateTypeOK, Measured, FieldNames
    <2> QED
      BY <2>2, <2>3
  <1>2. OnlyIn(report, report', f)
    BY OneMeasurement
  <1>3. \/ f = "failures" /\ report'.failures > report.failures
        \/ f = "turns" /\ report'.turns > report.turns
        \/ f = "holdGain" /\ report'.holdGain > report.holdGain
        \/ f = "quantGain" /\ report'.quantGain > report.quantGain
        \/ f = "gain" /\ report'.gain < report.gain
        \/ f = "decisions" /\ report'.decisions < report.decisions
        \/ f = "fall" /\ report'.fall > report.fall /\ report.holdGain >= 0
    BY DEF Worse
  <1> QED
    BY <1>1, <1>2, <1>3, FailuresWeigh, TurnsWeigh, DecisionsWeigh, GainWeighs, FallWeighs, MarketWeighs,
       QuantWeighs, Zenon

-----------------------------------------------------------------------------
\* What the entries of the journal say of a decision.

\* What ties an entry to the stage that decided, whatever was written into it.
SaysSo(p) ==
    /\ p.head \in FallbackHeads => p.stage = "fallback"
    /\ p.head = "AGENT_VERDICT_UNCHANGED" => p.stage = "held"
    /\ p.head = "AGENT" => p.stage = "agent"
    /\ p.fields.regime # -1 => p.head = "AGENT"
    /\ p.side = "BUY" => p.stage = "agent" /\ p.head \in {"AGENT", "ORDER_NOT_FILLED"}
    /\ p.authority \in {"yes", "no", "unknown"}

PagesInv ==
    /\ \E S : pages \in Seq(S)
    /\ \A i \in 1..Len(pages) : SaysSo(pages[i])
    /\ rights \in {"yes", "no"}

LEMMA PagesInitially == ReportInit => PagesInv
  <1> SUFFICES ASSUME ReportInit PROVE PagesInv
    OBVIOUS
  <1> DEFINE p == Page("held", "AGENT_VERDICT_UNCHANGED", NoFields, "HOLD", FALSE, "none", "unknown")
  <1>1. SaysSo(p)
    BY DEF SaysSo, Page, NoFields, FallbackHeads
  <1>2. pages = <<>> \/ pages = <<p>>
    BY DEF ReportInit
  <1> HIDE DEF p
  <1>3. pages \in Seq({p}) /\ \A i \in 1..Len(pages) : pages[i] = p
    <2>1. /\ <<>> \in Seq({p}) /\ Len(<<>>) = 0 /\ \A i \in 1..0 : FALSE
          /\ <<p>> \in Seq({p}) /\ Len(<<p>>) = 1 /\ <<p>>[1] = p /\ \A i \in 1..1 : i = 1
      OBVIOUS
    <2>2. CASE pages = <<>>
      BY <2>1, <2>2
    <2>3. CASE pages = <<p>>
      BY <2>1, <2>3
    <2> QED
      BY <1>2, <2>2, <2>3
  <1>4. rights \in {"yes", "no"}
    BY DEF ReportInit
  <1> QED
    BY <1>1, <1>3, <1>4 DEF PagesInv

LEMMA WrittenIsKept ==
    ASSUME PagesInv, NEW p, SaysSo(p), Write(p), rights' \in {"yes", "no"}
    PROVE  PagesInv'
  <1>1. PICK S : pages \in Seq(S)
    BY DEF PagesInv
  <1> DEFINE T == S \cup {p}
             a == Append(pages, p)
  <1>2. pages \in Seq(T)
    BY <1>1
  <1>3. p \in T
    OBVIOUS
  <1> HIDE DEF T
  <1>4. /\ a \in Seq(T) /\ Len(a) = Len(pages) + 1 /\ a[Len(pages) + 1] = p
        /\ \A i \in 1..Len(pages) : a[i] = pages[i]
    BY <1>2, <1>3, AppendProperties
  <1>5. Len(pages) \in Nat
    BY <1>1
  <1>6. pages' = a
    BY DEF Write
  <1> HIDE DEF a
  <1>7. \A i \in 1..Len(a) : i \in 1..Len(pages) \/ i = Len(pages) + 1
    BY <1>4, <1>5
  <1>8. \A i \in 1..Len(a) : SaysSo(a[i])
    BY <1>4, <1>7, Zenon DEF PagesInv
  <1> QED
    BY <1>4, <1>6, <1>8 DEF PagesInv

\* What a stage returns, before the runner has carried it out.
Honest(r) ==
    /\ r.head \in FallbackHeads => r.stage = "fallback"
    /\ r.head = "AGENT_VERDICT_UNCHANGED" => r.stage = "held"
    /\ r.head = "AGENT" => r.stage = "agent"
    /\ r.head # "AGENT" => r.fields = NoFields
    /\ r.action = "ENTER_LONG" => r.stage = "agent" /\ r.head = "AGENT"

LEMMA GuardsAreHonest == ASSUME NEW r \in OfGuards PROVE Honest(r)
  <1>1. /\ r.stage = "guard" /\ r.fields = NoFields /\ r.action # "ENTER_LONG"
        /\ r.head \in {"DAILY_LOSS_BREAKER", "DRAWDOWN_BREAKER", "PROTECTIVE_STOP",
                       "PERCEPTION_INSUFFICIENT"} \cup DataReasons
    BY DEF OfGuards, Returned
  <1> QED
    BY <1>1 DEF Honest, FallbackHeads, DataReasons

LEMMA FallbackIsHonest == ASSUME NEW r \in OfFallback PROVE Honest(r)
  BY DEF OfFallback, Returned, Honest, FallbackHeads

LEMMA VerdictIsHonest == ASSUME NEW r \in OfVerdict PROVE Honest(r)
  <1>1. r.stage = "agent" /\ r.head = "AGENT"
    BY DEF OfVerdict, Returned
  <1> QED
    BY <1>1 DEF Honest, FallbackHeads

\* Whether the order went through or not, the entry says who decided.
LEMMA JournalSaysSo ==
    ASSUME NEW r, Honest(r), NEW right \in {"yes", "no"}, NEW p \in Journalled(r, right)
    PROVE  SaysSo(p)
  <1> DEFINE veto == {"POSITION_CHANGED", "DUPLICATE_INTENT", "CAPITAL_INSUFFICIENT",
                      "ADJUSTMENT_NO_LONGER_NEEDED", "RESIDUAL_BELOW_MIN_NOTIONAL",
                      "REMAINDER_UNPROTECTABLE"}
  <1>1. \/ \E action, dry : p = Page(r.stage, r.head, r.fields, action, dry, "none", right)
        \/ p = Page(r.stage, r.head, r.fields, r.action, FALSE, Side(r.action), right)
        \/ p = Page(r.stage, "ORDER_NOT_FILLED", NoFields, "HOLD", FALSE, Side(r.action), right)
        \/ \E v \in veto : p = Page(r.stage, v, NoFields, "HOLD", FALSE, "none", right)
    <2>1. Vetoes(r.action) \subseteq veto
      BY DEF Vetoes
    <2> HIDE DEF veto
    <2> QED
      BY <2>1 DEF Journalled
  <1>2. Side(r.action) = "BUY" => r.action = "ENTER_LONG"
    BY DEF Side
  <1>3. r.fields.regime # -1 => r.head = "AGENT"
    BY DEF Honest, NoFields
  <1> USE DEF Page, NoFields, Honest, SaysSo
  <1>4. ASSUME NEW action, NEW dry, p = Page(r.stage, r.head, r.fields, action, dry, "none", right)
        PROVE  SaysSo(p)
    BY <1>3, <1>4
  <1>5. ASSUME p = Page(r.stage, r.head, r.fields, r.action, FALSE, Side(r.action), right)
        PROVE  SaysSo(p)
    BY <1>2, <1>3, <1>5
  <1>6. ASSUME p = Page(r.stage, "ORDER_NOT_FILLED", NoFields, "HOLD", FALSE, Side(r.action), right)
        PROVE  SaysSo(p)
    BY <1>2, <1>6 DEF FallbackHeads
  <1>7. ASSUME NEW v \in veto, p = Page(r.stage, v, NoFields, "HOLD", FALSE, "none", right)
        PROVE  SaysSo(p)
    BY <1>7 DEF FallbackHeads
  <1> QED
    BY <1>1, <1>4, <1>5, <1>6, <1>7

LEMMA PagesStep == PagesInv /\ [ReportNext]_reportVars => PagesInv'
  <1> SUFFICES ASSUME PagesInv, [ReportNext]_reportVars PROVE PagesInv'
    OBVIOUS
  <1>1. CASE Report
    <2> DEFINE unchanged == Returned("held", "AGENT_VERDICT_UNCHANGED", NoFields, "HOLD")
    <2>1. PICK r : /\ r \in OfGuards \/ r \in OfFallback \/ r \in OfVerdict \/ r = unchanged
                   /\ \E p \in Journalled(r, rights) : Write(p)
      BY <1>1 DEF Report
    <2>2. Honest(unchanged)
      BY DEF Honest, Returned, FallbackHeads
    <2>3. Honest(r)
      BY <2>1, <2>2, GuardsAreHonest, FallbackIsHonest, VerdictIsHonest, Zenon
    <2>4. PICK p \in Journalled(r, rights) : Write(p)
      BY <2>1
    <2>5. rights' = rights /\ rights \in {"yes", "no"}
      BY <1>1 DEF Report, PagesInv
    <2>6. SaysSo(p)
      BY <2>3, <2>4, <2>5, JournalSaysSo
    <2> QED
      BY <2>4, <2>5, <2>6, WrittenIsKept
  <1>2. CASE ExternalFill
    <2> DEFINE p == Page("guard", "PROTECTIVE_ORDER_FILLED", NoFields, "EXIT_LONG", FALSE, "SELL",
                         rights)
    <2>1. rights' = rights /\ rights \in {"yes", "no"} /\ Write(p)
      BY <1>2 DEF ExternalFill, PagesInv
    <2>2. SaysSo(p)
      BY <2>1 DEF SaysSo, Page, NoFields, FallbackHeads
    <2> QED
      BY <2>1, <2>2, WrittenIsKept
  <1>3. CASE Rerun
    BY <1>3 DEF Rerun, PagesInv
  <1>4. CASE UNCHANGED reportVars
    BY <1>4 DEF reportVars, PagesInv
  <1> QED
    BY <1>1, <1>2, <1>3, <1>4 DEF ReportNext

\* The last of some entries is one of them, and comes after all the others.
LEMMA LastOfThem ==
    ASSUME NEW n \in Nat, NEW S, S \subseteq 1..n
    PROVE  /\ LastOf(S) \in 0..n
           /\ S = {} => LastOf(S) = 0
           /\ S # {} => LastOf(S) \in S
           /\ \A i \in S : i <= LastOf(S)
  <1>1. CASE S = {}
    BY <1>1 DEF LastOf
  <1>2. CASE S # {}
    <2>1. IsFiniteSet(1..n)
      BY FS_Interval
    <2>2. IsFiniteSet(S) /\ S \subseteq Int
      <3>1. IsFiniteSet(S)
        BY <2>1, FS_Subset
      <3> QED
        BY <3>1
    <2>3. \E x \in S : \A y \in S : x >= y
      BY <1>2, <2>2, GreatestExists
    <2>4. LastOf(S) = CHOOSE x \in S : \A y \in S : x >= y
      BY <1>2 DEF LastOf, Max
    <2> DEFINE m == LastOf(S)
    <2>5. m \in S /\ \A y \in S : m >= y
      BY <2>3, <2>4
    <2> HIDE DEF m
    <2>6. m \in 1..n /\ \A y \in S : y \in 1..n
      BY <2>5
    <2>7. m \in 0..n /\ \A y \in S : y <= m
      BY <2>5, <2>6
    <2> QED
      BY <1>2, <2>5, <2>7 DEF m
  <1> QED
    BY <1>1, <1>2

\* Sets that share nothing: the numbers of their elements add up.
LEMMA DisjointAdd ==
    ASSUME NEW A, NEW B, IsFiniteSet(A), IsFiniteSet(B), A \cap B = {}
    PROVE  IsFiniteSet(A \cup B) /\ Cardinality(A \cup B) = Cardinality(A) + Cardinality(B)
  <1>1. /\ IsFiniteSet(A \cup B)
        /\ Cardinality(A \cup B) = Cardinality(A) + Cardinality(B) - Cardinality(A \cap B)
    BY FS_Union, Zenon
  <1>2. Cardinality(A \cap B) = 0
    BY FS_EmptySet
  <1>3. Cardinality(A) \in Nat /\ Cardinality(B) \in Nat
    BY FS_CardinalityType
  <1> QED
    BY <1>1, <1>2, <1>3

\* An entry is of the LLM, held, of the fallback or a veto, and of one of them only.
LEMMA OriginsPartition ==
    ASSUME NEW n \in Nat, DOMAIN pages = 1..n
    PROVE  Cardinality(DecidedByLLM) + Cardinality(Counted("FALLBACK"))
             + Cardinality(Counted("VETADO")) = n
  <1> DEFINE A == DecidedByLLM
             B == Counted("FALLBACK")
             C == Counted("VETADO")
  <1>1. \A i \in 1..n : Origin(pages[i]) \in {"FALLBACK", "LLM_SOSTENIDO", "LLM", "VETADO"}
    BY DEF Origin
  <1>2. /\ A \cup B \cup C = 1..n /\ A \cap B = {} /\ (A \cup B) \cap C = {}
        /\ A \subseteq 1..n /\ B \subseteq 1..n /\ C \subseteq 1..n
    BY <1>1 DEF DecidedByLLM, Counted
  <1> HIDE DEF A, B, C
  <1>3. IsFiniteSet(1..n) /\ Cardinality(1..n) = n
    BY FS_Interval
  <1>4. IsFiniteSet(A) /\ IsFiniteSet(B) /\ IsFiniteSet(C)
    BY <1>2, <1>3, FS_Subset
  <1>5. IsFiniteSet(A \cup B) /\ Cardinality(A \cup B) = Cardinality(A) + Cardinality(B)
    BY <1>2, <1>4, DisjointAdd, Zenon
  <1>6. Cardinality(1..n) = Cardinality(A \cup B) + Cardinality(C)
    BY <1>2, <1>4, <1>5, DisjointAdd, Zenon
  <1> QED
    BY <1>3, <1>5, <1>6 DEF A, B, C

LEMMA PagesFollow == PagesInv => OriginIsTrue
  <1> SUFFICES ASSUME PagesInv PROVE OriginIsTrue
    OBVIOUS
  <1> DEFINE n == Len(pages)
  <1>1. n \in Nat /\ DOMAIN pages = 1..n /\ \A i \in 1..n : SaysSo(pages[i])
    BY DEF PagesInv
  <1> HIDE DEF n
  <1>2. ASSUME NEW i \in 1..n
        PROVE  LET o == Origin(pages[i])
               IN  /\ o = "LLM" => pages[i].stage = "agent"
                   /\ o = "LLM_SOSTENIDO" => pages[i].stage = "held"
                   /\ o = "FALLBACK" => pages[i].stage = "fallback"
    BY <1>1 DEF Origin, SaysSo
  <1>3. ASSUME NEW i \in 1..n, pages[i].head = "AGENT" PROVE i \in DecidedByLLM
    BY <1>1, <1>3 DEF DecidedByLLM, Counted, Origin, FallbackHeads
  <1>4. ASSUME NEW i \in Purchases
        PROVE  pages[i].stage = "agent" /\ (pages[i].head # "ORDER_NOT_FILLED" => i \in DecidedByLLM)
    <2>1. i \in 1..n /\ pages[i].side = "BUY"
      BY <1>1 DEF Purchases
    <2>2. pages[i].stage = "agent" /\ pages[i].head \in {"AGENT", "ORDER_NOT_FILLED"}
      BY <1>1, <2>1 DEF SaysSo
    <2> QED
      BY <1>3, <2>1, <2>2
  <1>5. ASSUME Authority = "yes"
        PROVE  \E i \in 1..n : /\ pages[i].authority = "yes"
                               /\ \A j \in 1..n : j > i => pages[j].authority = "unknown"
    <2> DEFINE S == {j \in DOMAIN pages : pages[j].authority # "unknown"}
               i == LastOf(S)
    <2>1. S \subseteq 1..n
      BY <1>1
    <2>2. i # 0 /\ pages[i].authority = "yes"
      BY <1>5 DEF Authority
    <2>3. S # {} /\ i \in S /\ \A j \in S : j <= i
      <3> HIDE DEF S
      <3> QED
        BY <1>1, <2>1, <2>2, LastOfThem
    <2>4. ASSUME NEW j \in 1..n, j > i PROVE pages[j].authority = "unknown"
      <3>1. j \notin S
        <4>1. i \in Int /\ j \in Int
          BY <1>1, <2>1, <2>3
        <4> HIDE DEF S, i
        <4> QED
          BY <2>3, <2>4, <4>1
      <3> QED
        BY <1>1, <3>1
    <2> HIDE DEF i
    <2> QED
      BY <2>1, <2>2, <2>3, <2>4
  <1>6. StandingVerdict <= LastOwnVerdict
    <2> DEFINE S == {i \in DOMAIN pages : pages[i].fields.regime # -1}
    <2>1. S \subseteq DecidedByLLM
      <3> SUFFICES ASSUME NEW i \in S PROVE i \in DecidedByLLM
        OBVIOUS
      <3>1. i \in 1..n /\ pages[i].head = "AGENT"
        BY <1>1 DEF SaysSo
      <3> QED
        BY <1>3, <3>1
    <2>2. DecidedByLLM \subseteq 1..n
      BY <1>1 DEF DecidedByLLM, Counted
    <2>3. StandingVerdict = LastOf(S) /\ LastOwnVerdict = LastOf(DecidedByLLM)
      BY DEF StandingVerdict, LastOwnVerdict
    <2> HIDE DEF S
    <2>4. /\ LastOf(S) \in 0..n /\ (S = {} => LastOf(S) = 0) /\ (S # {} => LastOf(S) \in S)
      BY <1>1, <2>1, <2>2, LastOfThem
    <2>5. LastOf(DecidedByLLM) \in 0..n /\ \A i \in DecidedByLLM : i <= LastOf(DecidedByLLM)
      BY <1>1, <2>2, LastOfThem
    <2> QED
      BY <1>1, <2>1, <2>3, <2>4, <2>5
  <1>7. Cardinality(DecidedByLLM) + Cardinality(Counted("FALLBACK"))
          + Cardinality(Counted("VETADO")) = Len(pages)
    BY <1>1, OriginsPartition DEF n
  <1> QED
    BY <1>1, <1>2, <1>4, <1>5, <1>6, <1>7, Zenon DEF OriginIsTrue

-----------------------------------------------------------------------------
\* The walk through a window.

LEMMA QuotientInOrder ==
    ASSUME NEW a \in Nat, NEW b \in Nat, a <= b, NEW d \in Nat, d > 0
    PROVE  a \div d \in Nat /\ b \div d \in Nat /\ a \div d <= b \div d
  <1> DEFINE q == a \div d
             r == b \div d
  <1>1. q \in Int /\ r \in Int /\ d * q <= a /\ a < d * (q + 1) /\ d * r <= b /\ b < d * (r + 1)
    OBVIOUS
  <1> HIDE DEF q, r
  <1>2. q >= 0 /\ r >= 0
    <2>1. ASSUME NEW x \in Int, d * (x + 1) > 0 PROVE x >= 0
      BY <2>1
    <2> QED
      BY <1>1, <2>1
  <1>3. ASSUME q > r PROVE FALSE
    <2>1. q >= r + 1
      BY <1>1, <1>3
    <2>2. d * q >= d * (r + 1)
      BY <1>1, <2>1
    <2> QED
      BY <1>1, <2>2
  <1> QED
    BY <1>1, <1>2, <1>3 DEF q, r

\* The greatest of a finite set of numbers is one of them, and none is greater.
LEMMA GreatestIsMax ==
    ASSUME NEW S, IsFiniteSet(S), S \subseteq Int, S # {}
    PROVE  Max(S) \in S /\ \A y \in S : Max(S) >= y
  BY GreatestExists, Zenon DEF Max

\* The exposure that the fills ts leave at bar i.
HoldsOf(ts, i) ==
    LET S == {k \in DOMAIN ts : ts[k].bar <= i}
    IN  S # {} /\ ts[Max(S)].long

Fills == [bar : Nat, long : BOOLEAN, seen : SUBSET Int, upto : 1..Bars]

\* At a bar that is not before any fill, the last fill decides.
LEMMA LastFillHolds ==
    ASSUME NEW ts \in Seq(Fills), NEW i \in Nat, \A k \in 1..Len(ts) : ts[k].bar <= i
    PROVE  HoldsOf(ts, i) <=> (ts # <<>> /\ ts[Len(ts)].long)
  <1> DEFINE S == {k \in DOMAIN ts : ts[k].bar <= i}
             n == Len(ts)
  <1>1. n \in Nat /\ S = 1..n /\ (ts = <<>> <=> n = 0)
    OBVIOUS
  <1>2. HoldsOf(ts, i) <=> (S # {} /\ ts[Max(S)].long)
    BY Zenon DEF HoldsOf
  <1>3. CASE n = 0
    <2>1. S = {} /\ ts = <<>>
      BY <1>1, <1>3
    <2> QED
      BY <1>2, <2>1, Zenon
  <1>4. CASE n # 0
    <2>1. S # {} /\ S \subseteq Int /\ IsFiniteSet(S) /\ n \in S /\ ts # <<>>
      <3> HIDE DEF S, n
      <3>1. n \in 1..n /\ 1..n \subseteq Int /\ IsFiniteSet(1..n)
        BY <1>1, <1>4, FS_Interval
      <3> QED
        BY <1>1, <1>4, <3>1, Zenon
    <2>2. Max(S) \in S /\ \A y \in S : Max(S) >= y
      <3> HIDE DEF S
      <3> QED
        BY <2>1, GreatestIsMax
    <2>3. Max(S) = n
      <3> HIDE DEF S, n
      <3>1. Max(S) \in 1..n /\ Max(S) >= n
        BY <1>1, <2>1, <2>2, Zenon
      <3> QED
        BY <1>1, <3>1
    <2> QED
      BY <1>2, <2>1, <2>3, Zenon
  <1> QED
    BY <1>3, <1>4

\* A later fill does not change what was held.
LEMMA LaterFill ==
    ASSUME NEW ts \in Seq(Fills), NEW t \in Fills, NEW i \in Nat, t.bar > i
    PROVE  HoldsOf(Append(ts, t), i) <=> HoldsOf(ts, i)
  <1> DEFINE u == Append(ts, t)
             S == {k \in DOMAIN ts : ts[k].bar <= i}
             U == {k \in DOMAIN u : u[k].bar <= i}
             n == Len(ts)
  <1>1. /\ n \in Nat /\ DOMAIN ts = 1..n /\ DOMAIN u = 1..(n + 1) /\ u[n + 1] = t
        /\ \A k \in 1..n : u[k] = ts[k]
    OBVIOUS
  <1>2. t.bar \in Nat
    BY DEF Fills
  <1>3. U = S
    <2> HIDE DEF u
    <2>1. \A k \in 1..(n + 1) : k \in 1..n \/ k = n + 1
      BY <1>1
    <2>2. n + 1 \notin U
      BY <1>1, <1>2
    <2>3. \A k \in 1..n : k \in 1..(n + 1)
      BY <1>1
    <2> QED
      BY <1>1, <2>1, <2>2, <2>3
  <1>4. CASE S = {}
    <2>1. HoldsOf(ts, i) <=> (S # {} /\ ts[Max(S)].long)
      BY Zenon DEF HoldsOf
    <2>2. HoldsOf(u, i) <=> (U # {} /\ u[Max(U)].long)
      BY Zenon DEF HoldsOf
    <2> QED
      BY <1>3, <1>4, <2>1, <2>2, Zenon
  <1>5. CASE S # {}
    <2>1. HoldsOf(ts, i) <=> (S # {} /\ ts[Max(S)].long)
      BY Zenon DEF HoldsOf
    <2>2. HoldsOf(u, i) <=> (U # {} /\ u[Max(U)].long)
      BY Zenon DEF HoldsOf
    <2>3. S \subseteq 1..n /\ IsFiniteSet(1..n) /\ 1..n \subseteq Int
      BY <1>1, FS_Interval
    <2>4. Max(S) \in S
      <3> HIDE DEF S
      <3>1. IsFiniteSet(S) /\ S \subseteq Int
        BY <2>3, FS_Subset
      <3> QED
        BY <1>5, <3>1, GreatestIsMax
    <2>5. u[Max(S)] = ts[Max(S)]
      <3> HIDE DEF u, S
      <3> QED
        BY <1>1, <2>3, <2>4
    <2> QED
      BY <1>3, <2>1, <2>2, <2>5, Zenon
  <1> QED
    BY <1>4, <1>5

\* A window whose clock never runs backwards, and what the walk knows of its book.
Ordered(s) == \A i, j \in 1..Bars : i <= j => s[i].at <= s[j].at

BookInv ==
    /\ trades \in Seq(Fills) /\ bought \in [units : Int, entry : Int]
    /\ cash \in Int /\ earned \in Int /\ bridged \in Int
    /\ Long <=> (trades # <<>> /\ trades[Len(trades)].long)
    /\ trades = <<>> => cash = 0 /\ earned = 0 /\ bridged = 0
    /\ trades # <<>> => Wealth(trades[Len(trades)].upto) = earned + bridged

WalkInv ==
    /\ series \in [1..Bars -> [at : Nat, price : Nat]] /\ Ordered(series)
    /\ RolloutTypeOK
    /\ walk = "on" => marked < index
    /\ walk = "closed" => marked = Bars
    /\ \A k \in 1..Len(trades) : trades[k].bar <= marked + 1
    /\ exposed = {i \in 1..marked : HoldsOf(trades, i)}
    /\ \A k \in 1..Len(trades) : \A d \in trades[k].seen : CloseOf(d) < trades[k].bar - 1

RolloutInv == WalkInv /\ BookInv

LEMMA RolloutFollows == RolloutInv => RolloutTypeOK /\ RewardIsTheBook
  <1> SUFFICES ASSUME RolloutInv PROVE RewardIsTheBook
    BY Zenon DEF RolloutInv, WalkInv
  <1>1. WalkInv /\ BookInv /\ DOMAIN trades = 1..Len(trades)
    BY DEF RolloutInv, BookInv
  <1>2. \A i : HoldsAt(i) <=> HoldsOf(trades, i)
    BY Zenon DEF HoldsAt, HoldsOf
  <1>3. exposed = {i \in 1..marked : HoldsAt(i)}
    BY <1>1, <1>2, Zenon DEF WalkInv
  <1>4. \A k \in DOMAIN trades : \A d \in trades[k].seen : CloseOf(d) < trades[k].bar - 1
    BY <1>1, Zenon DEF WalkInv
  <1> QED
    BY <1>1, <1>3, <1>4, Zenon DEF WalkInv, BookInv, RewardIsTheBook

\* The close of a day that was over is before the bar.
LEMMA DaysOver ==
    ASSUME series \in [1..Bars -> [at : Nat, price : Nat]], Ordered(series),
           NEW i \in 1..Bars, NEW d \in DaysBefore(i)
    PROVE  d \in Nat /\ CloseOf(d) < i
  <1>0. DayLength \in Nat /\ DayLength > 0 /\ Bars \in Nat
    BY RolloutAssumption
  <1>1. PICK j \in 1..Bars : DayOf(j) < DayOf(i) /\ d = DayOf(j)
    BY DEF DaysBefore
  <1>2. \A k \in 1..Bars : At(k) \in Nat /\ DayOf(k) \in Nat
    <2> SUFFICES ASSUME NEW k \in 1..Bars PROVE At(k) \in Nat /\ DayOf(k) \in Nat
      OBVIOUS
    <2>1. At(k) \in Nat
      BY DEF At
    <2>2. DayOf(k) = At(k) \div DayLength
      BY DEF DayOf
    <2> HIDE DEF At, DayOf
    <2>3. At(k) \div DayLength \in Nat
      BY <1>0, <2>1, At(k) <= At(k), QuotientInOrder
    <2> QED
      BY <2>1, <2>2, <2>3
  <1>3. ASSUME NEW k \in 1..Bars, DayOf(k) = d PROVE k < i
    <2> SUFFICES ASSUME i <= k PROVE FALSE
      BY <1>0
    <2>1. At(i) <= At(k)
      BY <1>0 DEF Ordered, At
    <2>2. DayOf(i) <= DayOf(k)
      <3> DEFINE a == At(i)
                 b == At(k)
      <3>1. a \in Nat /\ b \in Nat /\ a <= b
        BY <1>2, <2>1
      <3> HIDE DEF a, b
      <3>2. a \div DayLength <= b \div DayLength
        BY <1>0, <3>1, QuotientInOrder
      <3> QED
        BY <3>2 DEF a, b, DayOf
    <2> QED
      BY <1>1, <1>2, <1>3, <2>2
  <1> DEFINE S == {k \in 1..Bars : DayOf(k) = d}
  <1>4. S # {} /\ S \subseteq Int /\ IsFiniteSet(S)
    <2>1. IsFiniteSet(1..Bars) /\ j \in S
      BY <1>0, <1>1, FS_Interval
    <2> QED
      BY <1>0, <2>1, FS_Subset, SMTT(30)
  <1>5. Max(S) \in S
    <2> HIDE DEF S
    <2> QED
      BY <1>4, GreatestIsMax
  <1>6. CloseOf(d) = Max(S)
    BY DEF CloseOf
  <1> QED
    BY <1>1, <1>2, <1>3, <1>5, <1>6

\* What was seen stays in the past: the closes do not move.
LEMMA ClosesStay == series' = series => \A d : CloseOf(d)' = CloseOf(d)
  BY Zenon DEF CloseOf, DayOf, At

\* Marking up to the bar of a decision counts the hours the book was exposed.
LEMMA MarkedHours ==
    ASSUME trades \in Seq(Fills), NEW u \in Nat, Bars \in Nat, marked \in 0..Bars, marked <= u,
           \A k \in 1..Len(trades) : trades[k].bar <= marked + 1,
           exposed = {i \in 1..marked : HoldsOf(trades, i)},
           Long <=> (trades # <<>> /\ trades[Len(trades)].long),
           Mark(u)
    PROVE  marked' = u /\ exposed' = {i \in 1..u : HoldsOf(trades, i)}
  <1>1. marked' = u /\ exposed' = exposed \cup {i \in (marked + 1)..u : Long}
    BY DEF Mark
  <1>2. ASSUME NEW i \in (marked + 1)..u PROVE HoldsOf(trades, i) <=> Long
    <2>1. i \in Nat /\ \A k \in 1..Len(trades) : trades[k].bar <= i
      <3>1. i \in Nat /\ marked + 1 <= i /\ marked \in Nat
        OBVIOUS
      <3>2. \A k \in 1..Len(trades) : trades[k].bar \in Nat
        <4> SUFFICES ASSUME NEW k \in 1..Len(trades) PROVE trades[k].bar \in Nat
          OBVIOUS
        <4>1. trades[k] \in Fills
          OBVIOUS
        <4> QED
          BY <4>1 DEF Fills
      <3> QED
        BY <3>1, <3>2
    <2>2. HoldsOf(trades, i) <=> (trades # <<>> /\ trades[Len(trades)].long)
      BY <2>1, LastFillHolds
    <2> QED
      BY <2>2, Zenon
  <1>3. \A i : i \in 1..u <=> i \in 1..marked \/ i \in (marked + 1)..u
    OBVIOUS
  <1>4. \A i : i \in exposed' <=> i \in 1..u /\ HoldsOf(trades, i)
    BY <1>1, <1>2, <1>3, Zenon
  <1> QED
    BY <1>1, <1>4, Zenon

\* The walk before its first bar, in any window.
LEMMA Resting ==
    ASSUME series \in [1..Bars -> [at : Nat, price : Nat]], Ordered(series),
           index = 1, marked = 0, bought = Flat, cash = 0, held = 0,
           exposed = {}, earned = 0, bridged = 0, walk = "on", trades = <<>>
    PROVE  RolloutInv
  <1>1. Bars \in Nat /\ Bars > 0 /\ Cadence \in Nat /\ Cadence > 0
    BY RolloutAssumption
  <1>2. trades \in Seq(Fills) /\ Len(trades) = 0
    OBVIOUS
  <1>3. BookInv
    <2>1. ~Long
      BY DEF Long
    <2>2. bought \in [units : Int, entry : Int]
      BY DEF Flat
    <2> QED
      BY <1>2, <2>1, <2>2 DEF BookInv
  <1>4. exposed = {i \in 1..marked : HoldsOf(trades, i)}
    BY DEF HoldsOf
  <1>5. RolloutTypeOK
    BY <1>1 DEF RolloutTypeOK
  <1>6. WalkInv
    BY <1>2, <1>4, <1>5 DEF WalkInv
  <1> QED
    BY <1>3, <1>6 DEF RolloutInv

LEMMA RolloutInitially == RolloutInit => RolloutInv
  <1> SUFFICES ASSUME RolloutInit PROVE RolloutInv
    OBVIOUS
  <1>1. Bars \in Nat /\ Bars > 0 /\ Cadence \in Nat /\ Cadence > 0
    BY RolloutAssumption
  <1>2. PICK p \in [1..Bars -> LogPrices], hole \in Holes, where \in 2..Bars :
          series = [i \in 1..Bars |-> [at |-> i - 1 + (IF i >= where THEN hole ELSE 0),
                                       price |-> p[i]]]
    BY DEF RolloutInit
  <1>3. hole \in Nat /\ \A i \in 1..Bars : p[i] \in Nat
    BY RolloutAssumption
  <1>4. series \in [1..Bars -> [at : Nat, price : Nat]]
    <2>1. \A i \in 1..Bars : i - 1 + (IF i >= where THEN hole ELSE 0) \in Nat
      BY <1>1, <1>3
    <2> QED
      BY <1>2, <1>3, <2>1
  <1>5. Ordered(series)
    <2>1. ASSUME NEW i \in 1..Bars, NEW j \in 1..Bars, i <= j PROVE series[i].at <= series[j].at
      <3>1. /\ series[i].at = i - 1 + (IF i >= where THEN hole ELSE 0)
            /\ series[j].at = j - 1 + (IF j >= where THEN hole ELSE 0)
        BY <1>2
      <3> QED
        BY <1>1, <1>3, <2>1, <3>1
    <2> QED
      BY <2>1, Zenon DEF Ordered
  <1>6. /\ index = 1 /\ marked = 0 /\ bought = Flat /\ cash = 0 /\ held = 0
        /\ exposed = {} /\ earned = 0 /\ bridged = 0 /\ walk = "on" /\ trades = <<>>
    BY DEF RolloutInit
  <1> QED
    BY <1>1, <1>4, <1>5, <1>6, Resting

\* The book is the rewards and the bridges, whatever the policy chose.
LEMMA BookStep ==
    ASSUME RolloutInv, index \in 1..Bars, NEW long \in BOOLEAN, Step(long)
    PROVE  BookInv'
  <1>1. /\ Reward <= Bars
        /\ earned' = earned + Rewarded(long, PriceOf(Reward) - PriceOf(Fill))
        /\ bridged' = bridged + (IF Long /\ trades # <<>>
                                 THEN PriceOf(Fill) - PriceOf(trades[Len(trades)].upto) ELSE 0)
        /\ \/ long /\ ~Long /\ bought' = [units |-> cash - Fee - PriceOf(Fill), entry |-> PriceOf(Fill)]
              /\ cash' = 0
           \/ ~long /\ Long /\ bought' = Flat /\ cash' = Wealth(Fill) - Fee
           \/ (long <=> Long) /\ bought' = bought /\ cash' = cash
        /\ trades' = Append(trades, [bar |-> Fill, long |-> long, seen |-> DaysBefore(index),
                                     upto |-> Reward])
        /\ series' = series
    <2>1. Step(long)
      OBVIOUS
    <2> QED
      BY <2>1, Zenon DEF Step
  <1>2. /\ Fee \in Nat /\ Cadence \in Nat /\ Cadence > 0 /\ Bars \in Nat
        /\ Fill \in 1..Bars /\ Reward \in 1..Bars
    BY <1>1, RolloutAssumption DEF Fill, Reward
  <1>3. /\ trades \in Seq(Fills) /\ bought \in [units : Int, entry : Int]
        /\ cash \in Int /\ earned \in Int /\ bridged \in Int
        /\ Long <=> (trades # <<>> /\ trades[Len(trades)].long)
        /\ trades = <<>> => cash = 0 /\ earned = 0 /\ bridged = 0
        /\ trades # <<>> => Wealth(trades[Len(trades)].upto) = earned + bridged
    BY Zenon DEF RolloutInv, BookInv
  <1>4. \A i \in 1..Bars : PriceOf(i) \in Nat
    BY DEF RolloutInv, WalkInv, PriceOf
  <1>5. trades # <<>> => trades[Len(trades)].upto \in 1..Bars
    <2> SUFFICES ASSUME trades # <<>> PROVE trades[Len(trades)].upto \in 1..Bars
      OBVIOUS
    <2>1. trades[Len(trades)] \in Fills
      BY <1>3
    <2> QED
      BY <2>1 DEF Fills
  <1> DEFINE f == PriceOf(Fill)
             r == PriceOf(Reward)
             u == PriceOf(trades[Len(trades)].upto)
             t == [bar |-> Fill, long |-> long, seen |-> DaysBefore(index), upto |-> Reward]
  <1>6. f \in Nat /\ r \in Nat /\ bought.units \in Int
    BY <1>2, <1>3, <1>4
  <1>7. Wealth(Fill) = IF Long THEN bought.units + f ELSE cash
    BY Zenon DEF Wealth
  <1>8. Rewarded(long, r - f) = IF long THEN r - f - (IF Long THEN 0 ELSE Fee)
                                ELSE IF Long THEN -Fee ELSE 0
    BY Zenon DEF Rewarded
  <1>9. t \in Fills
    <2>1. DaysBefore(index) \in SUBSET Int
      BY DaysOver DEF RolloutInv, WalkInv
    <2>2. Fill \in Nat
      BY <1>2
    <2> HIDE DEF Fill, Reward
    <2> QED
      BY <1>2, <2>1, <2>2 DEF Fills
  <1>10. /\ trades' \in Seq(Fills) /\ trades' # <<>> /\ trades'[Len(trades')] = t
         /\ t.long = long /\ t.upto = Reward
    <2> DEFINE w == t
    <2>1. w \in Fills /\ trades' = Append(trades, w)
      BY <1>1, <1>9
    <2>2. w.long = long /\ w.upto = Reward
      OBVIOUS
    <2> HIDE DEF w
    <2>3. trades' \in Seq(Fills) /\ trades' # <<>> /\ trades'[Len(trades')] = w
      BY <1>3, <2>1
    <2> QED
      BY <2>2, <2>3 DEF w
  <1> DEFINE Booked == /\ bought' \in [units : Int, entry : Int] /\ cash' \in Int
                     /\ earned' \in Int /\ bridged' \in Int /\ (Long' <=> long)
                     /\ (IF long THEN bought'.units + r ELSE cash') = earned' + bridged'
  <1>11. ASSUME Long PROVE Booked
    <2>1. trades # <<>> /\ bought.units + u = earned + bridged /\ u \in Nat
      <3>1. trades # <<>>
        BY <1>3, <1>11, Zenon
      <3>2. Wealth(trades[Len(trades)].upto) = bought.units + u
        BY <1>11, Zenon DEF Wealth
      <3>3. u \in Nat
        BY <1>4, <1>5, <3>1
      <3> QED
        BY <1>3, <3>1, <3>2, <3>3
    <2>2. bridged' = bridged + (f - u) /\ bridged' \in Int
      <3>1. bridged' = bridged + (f - u)
        BY <1>1, <1>11, <2>1, Zenon
      <3> HIDE DEF f, u
      <3> QED
        BY <1>3, <1>6, <2>1, <3>1
    <2>3. CASE long
      <3>1. earned' = earned + (r - f - 0) /\ bought' = bought /\ cash' = cash
        BY <1>1, <1>8, <1>11, <2>3, Zenon
      <3>2. Long'
        BY <1>11, <3>1, Zenon DEF Long
      <3>3. bought'.units + r = earned' + bridged' /\ earned' \in Int
        <4> HIDE DEF f, r, u
        <4> QED
          BY <1>3, <1>6, <2>1, <2>2, <3>1
      <3> QED
        BY <1>3, <2>2, <2>3, <3>1, <3>2, <3>3, Zenon
    <2>4. CASE ~long
      <3>1. earned' = earned + (-Fee) /\ bought' = Flat /\ cash' = Wealth(Fill) - Fee
        BY <1>1, <1>8, <1>11, <2>4, Zenon
      <3>2. ~Long' /\ bought' \in [units : Int, entry : Int]
        BY <3>1 DEF Long, Flat
      <3>3. Wealth(Fill) = bought.units + f
        BY <1>7, <1>11, Zenon
      <3>4. cash' = earned' + bridged' /\ earned' \in Int /\ cash' \in Int
        <4> DEFINE w == Wealth(Fill)
        <4>0. cash' = w - Fee /\ w = bought.units + f
          BY <3>1, <3>3, Zenon
        <4> HIDE DEF f, r, u, w
        <4>1. cash' = bought.units + f - Fee
          BY <1>2, <1>6, <4>0
        <4> QED
          BY <1>2, <1>3, <1>6, <2>1, <2>2, <3>1, <4>1
      <3> QED
        BY <2>2, <2>4, <3>2, <3>4, Zenon
    <2> QED
      BY <2>3, <2>4, Zenon
  <1>12. ASSUME ~Long PROVE Booked
    <2>1. bridged' = bridged /\ cash = earned + bridged
      <3>1. bridged' = bridged + 0
        BY <1>1, <1>12, Zenon
      <3>2. trades # <<>> => cash = earned + bridged
        BY <1>3, <1>12, Zenon DEF Wealth
      <3> QED
        BY <1>3, <3>1, <3>2
    <2>3. CASE long
      <3>1. /\ earned' = earned + (r - f - Fee) /\ cash' = 0
            /\ bought' = [units |-> cash - Fee - f, entry |-> f]
        BY <1>1, <1>8, <1>12, <2>3, Zenon
      <3> HIDE DEF f, r, u
      <3>2. Long' /\ bought' \in [units : Int, entry : Int]
        BY <1>2, <1>3, <1>6, <3>1 DEF Long, Flat
      <3>3. bought'.units + r = earned' + bridged' /\ earned' \in Int
        BY <1>2, <1>3, <1>6, <2>1, <3>1
      <3>4. cash' \in Int
        BY <3>1
      <3> QED
        BY <1>3, <2>1, <2>3, <3>1, <3>2, <3>3, <3>4, Zenon
    <2>4. CASE ~long
      <3>1. earned' = earned + 0 /\ bought' = bought /\ cash' = cash
        BY <1>1, <1>8, <1>12, <2>4, Zenon
      <3>2. ~Long'
        BY <1>12, <3>1, Zenon DEF Long
      <3>3. cash' = earned' + bridged' /\ earned' \in Int
        BY <1>3, <2>1, <3>1
      <3> QED
        BY <1>3, <2>1, <2>4, <3>1, <3>2, <3>3, Zenon
    <2> QED
      BY <2>3, <2>4, Zenon
  <1>13. /\ bought' \in [units : Int, entry : Int] /\ cash' \in Int
         /\ earned' \in Int /\ bridged' \in Int /\ (Long' <=> long)
         /\ (IF long THEN bought'.units + r ELSE cash') = earned' + bridged'
    BY <1>11, <1>12, Zenon
  <1>14. Wealth(trades[Len(trades)].upto)' = IF long THEN bought'.units + r ELSE cash'
    <2>1. PriceOf(trades[Len(trades)].upto)' = r
      <3>1. PriceOf(trades[Len(trades)].upto)' = series'[trades'[Len(trades')].upto].price
        BY Zenon DEF PriceOf
      <3>2. trades'[Len(trades')].upto = Reward
        BY <1>10, Zenon
      <3> QED
        BY <1>1, <3>1, <3>2, Zenon DEF PriceOf
    <2>2. Wealth(trades[Len(trades)].upto)'
            = IF Long' THEN bought'.units + PriceOf(trades[Len(trades)].upto)' ELSE cash'
      BY Zenon DEF Wealth
    <2> QED
      BY <1>13, <2>1, <2>2, Zenon
  <1>15. Long' <=> (trades' # <<>> /\ trades'[Len(trades')].long)
    BY <1>10, <1>13, Zenon
  <1> QED
    BY <1>10, <1>13, <1>14, <1>15, Zenon DEF BookInv

\* Bars that are only marked leave the book alone.
LEMMA BookRests ==
    ASSUME BookInv, UNCHANGED <<series, bought, cash, earned, bridged, trades>>
    PROVE  BookInv'
  BY Zenon DEF BookInv, Long, Wealth, PriceOf

LEMMA RolloutStep == RolloutInv /\ [RolloutNext]_rolloutVars => RolloutInv'
  <1> SUFFICES ASSUME RolloutInv, [RolloutNext]_rolloutVars PROVE RolloutInv'
    OBVIOUS
  <1>1. Bars \in Nat /\ Bars > 0 /\ Cadence \in Nat /\ Cadence > 0
    BY RolloutAssumption
  <1>2. WalkInv /\ BookInv /\ RolloutTypeOK
    BY DEF RolloutInv, WalkInv
  <1>3. /\ trades \in Seq(Fills) /\ index \in Nat /\ index >= 1 /\ index <= Bars + Cadence
        /\ marked \in Nat /\ marked <= Bars /\ held \in Nat
        /\ Long <=> (trades # <<>> /\ trades[Len(trades)].long)
        /\ \A k \in 1..Len(trades) : trades[k].bar <= marked + 1
        /\ exposed = {i \in 1..marked : HoldsOf(trades, i)}
    BY <1>1, <1>2 DEF BookInv, WalkInv, RolloutTypeOK
  <1>4. ASSUME walk = "on", series' = series, trades' = trades, NEW u \in Nat, marked <= u,
               u <= Bars, Mark(u), held' \in Nat, index' \in 1..(Bars + Cadence),
               \/ walk' = walk /\ u < index'
               \/ walk' = "closed" /\ u = Bars
        PROVE  WalkInv'
    <2>1. marked' = u /\ exposed' = {i \in 1..u : HoldsOf(trades, i)}
      BY <1>1, <1>3, <1>4, MarkedHours
    <2>2. exposed' = {i \in 1..marked' : HoldsOf(trades', i)}
      BY <1>4, <2>1, Zenon
    <2>3. \A k \in 1..Len(trades') : trades'[k].bar <= marked' + 1
      <3> SUFFICES ASSUME NEW k \in 1..Len(trades) PROVE trades[k].bar <= u + 1
        BY <1>4, <2>1
      <3>1. trades[k] \in Fills
        BY <1>3
      <3>2. trades[k].bar \in Nat
        BY <3>1 DEF Fills
      <3> QED
        BY <1>3, <1>4, <3>2
    <2>4. \A k \in 1..Len(trades') : \A d \in trades'[k].seen : CloseOf(d)' < trades'[k].bar - 1
      BY <1>2, <1>4, ClosesStay, Zenon DEF WalkInv
    <2>5. RolloutTypeOK' /\ (walk' = "on" => marked' < index') /\ (walk' = "closed" => marked' = Bars)
      <3>1. marked' \in 0..Bars
        BY <1>1, <1>3, <1>4, <2>1
      <3>2. walk' \in {"on", "closed"}
        BY <1>4
      <3> QED
        BY <1>4, <2>1, <3>1, <3>2 DEF RolloutTypeOK
    <2>6. /\ series' \in [1..Bars -> [at : Nat, price : Nat]] /\ Ordered(series')
      BY <1>2, <1>4, Zenon DEF WalkInv
    <2> QED
      BY <2>2, <2>3, <2>4, <2>5, <2>6, Zenon DEF WalkInv
  <1>5. CASE walk = "on" /\ index <= Bars /\ Skip
    <2>1. /\ Mark(index) /\ index' = index + Cadence
          /\ UNCHANGED <<series, bought, cash, held, earned, bridged, walk, trades>>
      BY <1>5 DEF Skip
    <2>2. marked < index
      BY <1>2, <1>5 DEF WalkInv
    <2>3. WalkInv'
      <3>1. marked <= index /\ index <= Bars /\ index' \in 1..(Bars + Cadence) /\ index < index'
        BY <1>1, <1>3, <1>5, <2>1, <2>2
      <3> QED
        BY <1>3, <1>4, <1>5, <2>1, <3>1
    <2> QED
      BY <1>2, <2>1, <2>3, BookRests DEF RolloutInv
  <1>6. CASE Finish
    <2>1. /\ Mark(Bars) /\ walk' = "closed" /\ walk = "on"
          /\ UNCHANGED <<series, index, bought, cash, held, earned, bridged, trades>>
      BY <1>6 DEF Finish
    <2>2. WalkInv'
      <3>1. index' \in 1..(Bars + Cadence) /\ held' \in Nat /\ Bars <= Bars
        BY <1>1, <1>3, <2>1
      <3> QED
        BY <1>1, <1>3, <1>4, <2>1, <3>1
    <2> QED
      BY <1>2, <2>1, <2>2, BookRests DEF RolloutInv
  <1>7. ASSUME walk = "on", index <= Bars, NEW long \in BOOLEAN, Step(long)
        PROVE  RolloutInv'
    <2> DEFINE t == [bar |-> Fill, long |-> long, seen |-> DaysBefore(index), upto |-> Reward]
    <2>1. /\ Mark(index) /\ trades' = Append(trades, t) /\ index' = index + Cadence
          /\ series' = series /\ walk' = walk /\ Reward <= Bars
          /\ held' = 0 \/ held' = held \/ held' = held + Cadence
      <3>1. Step(long)
        BY <1>7
      <3> QED
        BY <3>1, Zenon DEF Step
    <2>2. index \in 1..Bars /\ marked < index
      BY <1>2, <1>3, <1>7 DEF WalkInv
    <2>3. BookInv'
      BY <1>7, <2>2, BookStep
    <2>4. \A d \in DaysBefore(index) : d \in Nat /\ CloseOf(d) < index
      BY <1>2, <2>2, DaysOver DEF WalkInv
    <2>5. /\ t.bar = index + 1 /\ t.seen = DaysBefore(index)
      BY DEF Fill
    <2>6. t \in Fills
      <3>1. Fill \in Nat /\ Reward \in 1..Bars
        BY <1>1, <1>3, <2>1 DEF Fill, Reward
      <3>2. DaysBefore(index) \in SUBSET Int
        BY <2>4
      <3> HIDE DEF Fill, Reward
      <3> QED
        BY <1>7, <3>1, <3>2 DEF Fills
    <2> HIDE DEF t
    <2>7. marked' = index /\ exposed' = {i \in 1..index : HoldsOf(trades, i)}
      BY <1>1, <1>3, <2>1, <2>2, MarkedHours
    <2>8. exposed' = {i \in 1..marked' : HoldsOf(trades', i)}
      <3>1. ASSUME NEW i \in 1..index PROVE HoldsOf(trades', i) <=> HoldsOf(trades, i)
        <4>1. i \in Nat /\ t.bar > i
          BY <1>3, <2>5
        <4>2. HoldsOf(Append(trades, t), i) <=> HoldsOf(trades, i)
          BY <1>3, <2>6, <4>1, LaterFill
        <4> QED
          BY <2>1, <4>2, Zenon
      <3>2. \A i : i \in exposed' <=> i \in 1..marked' /\ HoldsOf(trades', i)
        BY <2>7, <3>1, Zenon
      <3> QED
        BY <3>2, Zenon
    <2>9. \A k \in 1..Len(trades') : (k \in 1..Len(trades) /\ trades'[k] = trades[k])
                                     \/ trades'[k] = t
      BY <1>3, <2>1, <2>6, AppendProperties
    <2>10. \A k \in 1..Len(trades') : trades'[k].bar <= marked' + 1
      <3> SUFFICES ASSUME NEW k \in 1..Len(trades') PROVE trades'[k].bar <= index + 1
        BY <2>7
      <3>1. CASE trades'[k] = t
        BY <1>3, <2>5, <3>1
      <3>2. CASE k \in 1..Len(trades) /\ trades'[k] = trades[k]
        <4>1. trades[k] \in Fills
          BY <1>3, <3>2
        <4>2. trades[k].bar \in Nat
          BY <4>1 DEF Fills
        <4> QED
          BY <1>3, <2>2, <3>2, <4>2
      <3> QED
        BY <2>9, <3>1, <3>2
    <2>11. \A k \in 1..Len(trades') : \A d \in trades'[k].seen : CloseOf(d)' < trades'[k].bar - 1
      <3> SUFFICES ASSUME NEW k \in 1..Len(trades'), NEW d \in trades'[k].seen
                   PROVE  CloseOf(d)' < trades'[k].bar - 1
        BY Zenon
      <3>0. CloseOf(d)' = CloseOf(d)
        BY <2>1, ClosesStay, Zenon
      <3>1. CASE trades'[k] = t
        <4>1. d \in DaysBefore(index) /\ trades'[k].bar = index + 1
          BY <2>5, <3>1, Zenon
        <4> DEFINE c == CloseOf(d)'
                   b == trades'[k].bar
        <4>2. c < index /\ b = index + 1
          BY <2>4, <3>0, <4>1, Zenon
        <4> HIDE DEF b, c
        <4>3. c < b - 1
          BY <1>3, <4>2
        <4> QED
          BY <4>3 DEF b, c
      <3>2. CASE k \in 1..Len(trades) /\ trades'[k] = trades[k]
        BY <1>2, <3>0, <3>2, Zenon DEF WalkInv
      <3> QED
        BY <2>9, <3>1, <3>2, Zenon
    <2>12. RolloutTypeOK' /\ (walk' = "on" => marked' < index') /\ (walk' = "closed" => marked' = Bars)
      <3>1. marked' \in 0..Bars /\ index' \in 1..(Bars + Cadence) /\ marked' < index' /\ held' \in Nat
        BY <1>1, <1>3, <1>7, <2>1, <2>7
      <3> QED
        BY <1>7, <2>1, <3>1 DEF RolloutTypeOK
    <2>13. series' \in [1..Bars -> [at : Nat, price : Nat]] /\ Ordered(series')
      BY <1>2, <2>1, Zenon DEF WalkInv
    <2>14. WalkInv'
      BY <2>8, <2>10, <2>11, <2>12, <2>13, Zenon DEF WalkInv
    <2> QED
      BY <2>3, <2>14, Zenon DEF RolloutInv
  <1>8. CASE UNCHANGED rolloutVars
    BY <1>8, Zenon DEF rolloutVars, RolloutInv, WalkInv, BookInv, RolloutTypeOK, Long, Wealth,
       PriceOf, CloseOf, DayOf, At
  <1> QED
    BY <1>5, <1>6, <1>7, <1>8, Zenon DEF RolloutNext, Advance

-----------------------------------------------------------------------------
\* What the agent is shown.

\* The index holds rows whose outcome is of no later day, and so is what the agent was shown.
ViewInv ==
    /\ ViewTypeOK
    /\ \A r \in historyIndex : r \in Nat /\ r + MaxHorizon <= today
    /\ block # NoBlock => block.quant \in Regimes
    /\ NothingFromTheFuture

LEMMA IndexOfThePast ==
    ASSUME today \in 0..LastDay, NEW S \in Indexes
    PROVE  \A r \in S : r \in Nat /\ r + MaxHorizon <= today /\ r \in 0..LastDay
  <1>1. PICK days \in 0..(today + 1) : S = Rows(days)
    BY DEF Indexes
  <1> QED
    BY <1>1, ViewAssumption DEF Rows

LEMMA ViewInitially == ViewInit => ViewInv
  <1> SUFFICES ASSUME ViewInit PROVE ViewInv
    OBVIOUS
  <1>1. /\ today \in 0..LastDay /\ historyIndex \in Indexes /\ label \in Regimes
        /\ force = Cautious /\ block = NoBlock /\ answer = "none" /\ acted = NoAct
    BY DEF ViewInit
  <1>2. \A r \in historyIndex : r \in 0..LastDay /\ r \in Nat /\ r + MaxHorizon <= today
    BY <1>1, IndexOfThePast
  <1>3. acted \in [told : Regimes, used : Regimes]
    BY <1>1, ViewAssumption DEF NoAct
  <1>4. ViewTypeOK
    BY <1>1, <1>2, <1>3, ViewAssumption DEF ViewTypeOK
  <1>5. NothingFromTheFuture
    BY <1>1, Zenon DEF NothingFromTheFuture
  <1> QED
    BY <1>1, <1>2, <1>4, <1>5, ViewAssumption DEF ViewInv

\* A block of rows that were over on its day shows nothing that was not.
LEMMA BlockOfThePast ==
    ASSUME NEW day \in Nat, NEW before, NEW similar,
           \A r \in similar \cup BaseRates(before) :
               r \in Nat /\ (r + MaxHorizon < day \/ (before = -1 /\ r + MaxHorizon <= day)),
           label \in Regimes, block' = Block(day, before, similar)
    PROVE  NothingFromTheFuture' /\ block'.quant \in Regimes
  <1> DEFINE shown == {r + MaxHorizon : r \in similar \cup BaseRates(before)}
  <1>1. /\ block'.day = day /\ block'.market = day - 1 /\ block'.shown = shown
        /\ block'.quant = label /\ (block'.live <=> before = -1)
    BY DEF Block, MarketView, QuantView
  <1>2. \A d \in shown : d < day \/ (before = -1 /\ d = day)
    BY ViewAssumption
  <1>3. day - 1 < day
    OBVIOUS
  <1> QED
    BY <1>1, <1>2, <1>3, Zenon DEF NothingFromTheFuture

LEMMA ViewStep == ViewInv /\ [ViewNext]_viewVars => ViewInv'
  <1> SUFFICES ASSUME ViewInv, [ViewNext]_viewVars PROVE ViewInv'
    OBVIOUS
  <1>1. /\ today \in 0..LastDay /\ historyIndex \subseteq 0..LastDay /\ label \in Regimes
        /\ force \in Regimes /\ acted \in [told : Regimes, used : Regimes]
        /\ answer \in {"none", "unavailable", "in", "out"}
        /\ \A r \in historyIndex : r \in Nat /\ r + MaxHorizon <= today
        /\ block # NoBlock => block.quant \in Regimes
        /\ NothingFromTheFuture
    BY DEF ViewInv, ViewTypeOK
  <1>2. CASE NewDay
    <2>1. /\ today' = today + 1 /\ today < LastDay /\ label' \in Regimes
          /\ UNCHANGED <<historyIndex, force, block, answer, acted>>
      BY <1>2 DEF NewDay
    <2>2. today' \in 0..LastDay /\ \A r \in historyIndex' : r \in Nat /\ r + MaxHorizon <= today'
      BY <1>1, <2>1, ViewAssumption
    <2>3. NothingFromTheFuture'
      BY <1>1, <2>1, Zenon DEF NothingFromTheFuture
    <2> QED
      BY <1>1, <2>1, <2>2, <2>3, Zenon DEF ViewInv, ViewTypeOK
  <1>3. CASE BuildIndex
    <2>1. historyIndex' \in Indexes /\ UNCHANGED <<today, label, force, block, answer, acted>>
      BY <1>3 DEF BuildIndex
    <2>2. \A r \in historyIndex' : r \in Nat /\ r + MaxHorizon <= today /\ r \in 0..LastDay
      BY <1>1, <2>1, IndexOfThePast
    <2>3. NothingFromTheFuture'
      BY <1>1, <2>1, Zenon DEF NothingFromTheFuture
    <2>4. historyIndex' \subseteq 0..LastDay /\ \A r \in historyIndex' : r \in Nat /\ r + MaxHorizon <= today'
      BY <2>1, <2>2
    <2> QED
      BY <1>1, <2>1, <2>3, <2>4, Zenon DEF ViewInv, ViewTypeOK
  <1>4. CASE Ask
    <2>1. PICK similar \in Analogues(-1) : block' = Block(today, -1, similar)
      BY <1>4 DEF Ask
    <2>2. answer' = "none" /\ UNCHANGED <<today, historyIndex, label, force, acted>>
      BY <1>4 DEF Ask
    <2>3. \A r \in similar \cup BaseRates(-1) : r \in historyIndex
      BY Zenon DEF Analogues, BaseRates
    <2>4. NothingFromTheFuture' /\ block'.quant \in Regimes
      <3>1. today \in Nat /\ \A r \in similar \cup BaseRates(-1) : r \in Nat /\ r + MaxHorizon <= today
        <4>1. today \in Nat
          BY <1>1, ViewAssumption
        <4> QED
          BY <1>1, <2>3, <4>1, Zenon
      <3> QED
        BY <1>1, <2>1, <3>1, BlockOfThePast, Zenon
    <2> QED
      BY <1>1, <2>2, <2>4, Zenon DEF ViewInv, ViewTypeOK
  <1>5. CASE AskAboutThePast
    <2>1. PICK day \in 0..today : \E similar \in Analogues(day) : block' = Block(day, day, similar)
      BY <1>5 DEF AskAboutThePast
    <2>2. PICK similar \in Analogues(day) : block' = Block(day, day, similar)
      BY <2>1
    <2>3. answer' = "none" /\ UNCHANGED <<today, historyIndex, label, force, acted>>
      BY <1>5 DEF AskAboutThePast
    <2>4. \A r \in similar \cup BaseRates(day) : r \in historyIndex /\ Visible(r, day)
      BY Zenon DEF Analogues, BaseRates
    <2>5. \A r \in similar \cup BaseRates(day) : r \in Nat /\ r + MaxHorizon < day
      <3>1. day \in Nat /\ day # -1
        BY ViewAssumption
      <3> QED
        BY <1>1, <2>4, <3>1, Zenon DEF Visible
    <2>6. NothingFromTheFuture' /\ block'.quant \in Regimes
      <3>1. day \in Nat
        BY ViewAssumption
      <3> QED
        BY <1>1, <2>2, <2>5, <3>1, BlockOfThePast, Zenon
    <2> QED
      BY <1>1, <2>3, <2>6, Zenon DEF ViewInv, ViewTypeOK
  <1>6. CASE Reply
    <2>1. PICK r \in Replies : answer' = Parsed(r)
      BY <1>6 DEF Reply
    <2>2. UNCHANGED <<today, historyIndex, label, force, block, acted>>
      BY <1>6 DEF Reply
    <2>3. answer' \in {"none", "unavailable", "in", "out"}
      <3>1. r.exposure \in {"in", "out", "?"}
        BY DEF Replies
      <3>2. answer' = "unavailable" \/ (answer' = r.exposure /\ r.exposure # "?")
        BY <2>1, Zenon DEF Parsed
      <3> QED
        BY <3>1, <3>2
    <2>4. NothingFromTheFuture'
      BY <1>1, <2>2, Zenon DEF NothingFromTheFuture
    <2> QED
      BY <1>1, <2>2, <2>3, <2>4, Zenon DEF ViewInv, ViewTypeOK
  <1>7. CASE Apply
    <2>1. /\ block # NoBlock /\ \E seen \in Corroborated : force' \in {force, seen}
          /\ acted' = [told |-> Told(block), used |-> force']
          /\ answer' = "none" /\ block' = NoBlock
          /\ UNCHANGED <<today, historyIndex, label>>
      BY <1>7, Zenon DEF Apply
    <2>2. force' \in Regimes
      BY <1>1, <2>1, ViewAssumption DEF Corroborated
    <2>3. Told(block) \in Regimes
      BY <1>1, <2>1, Zenon DEF Told
    <2>4. acted' \in [told : Regimes, used : Regimes]
      BY <2>1, <2>2, <2>3
    <2>5. NothingFromTheFuture'
      BY <2>1, Zenon DEF NothingFromTheFuture
    <2>6. answer' \in {"none", "unavailable", "in", "out"}
      BY <2>1
    <2> QED
      BY <1>1, <2>1, <2>2, <2>4, <2>5, <2>6, Zenon DEF ViewInv, ViewTypeOK
  <1>8. CASE UNCHANGED viewVars
    BY <1>1, <1>8, Zenon DEF viewVars, ViewInv, ViewTypeOK, NothingFromTheFuture
  <1> QED
    BY <1>2, <1>3, <1>4, <1>5, <1>6, <1>7, <1>8, Zenon DEF ViewNext

-----------------------------------------------------------------------------
\* The replay of the agent over past days.

\* The counters account for one another and for whether a position is held.
Accounts(t, held_) ==
    /\ t["switches"] = t["direction"] + t["size"]
    /\ t["switches"] = t["entries"] + t["exits"] + t["ups"] + t["downs"] + t["stops"]
    /\ t["direction"] % 2 = IF held_ THEN 1 ELSE 0

LEMMA NextParity ==
    ASSUME NEW a \in Nat
    PROVE  (a % 2 = 0 => (a + 1) % 2 = 1) /\ (a % 2 = 1 => (a + 1) % 2 = 0)
  <1> DEFINE q == a \div 2
             r == (a + 1) \div 2
  <1>1. q \in Int /\ r \in Int /\ 2 * q <= a /\ a < 2 * (q + 1) /\ 2 * r <= a + 1 /\ a + 1 < 2 * (r + 1)
    OBVIOUS
  <1>2. a % 2 = a - 2 * q /\ (a + 1) % 2 = a + 1 - 2 * r
    OBVIOUS
  <1> HIDE DEF q, r
  <1> QED
    BY <1>1, <1>2

\* One order counted, of any kind.
LEMMA OrderCounted ==
    ASSUME NEW t \in [Counters -> Nat], NEW h \in BOOLEAN, NEW g \in BOOLEAN, Accounts(t, h),
           NEW kind \in {"entries", "exits", "ups", "downs", "stops"}, NEW u,
           u = [n \in Counters |-> t[n] + IF n \in {"switches", kind, IF g = h THEN "size"
                                                                       ELSE "direction"}
                                          THEN 1 ELSE 0]
    PROVE  /\ u \in [Counters -> Nat] /\ Accounts(u, g)
           /\ \A n \in Counters : u[n] <= t[n] + 1
           /\ u["stops"] = t["stops"] + IF kind = "stops" THEN 1 ELSE 0
  <1>1. /\ t["switches"] \in Nat /\ t["direction"] \in Nat /\ t["size"] \in Nat
        /\ t["entries"] \in Nat /\ t["exits"] \in Nat /\ t["ups"] \in Nat
        /\ t["downs"] \in Nat /\ t["stops"] \in Nat
    BY DEF Counters
  <1>2. /\ t["switches"] = t["direction"] + t["size"]
        /\ t["switches"] = t["entries"] + t["exits"] + t["ups"] + t["downs"] + t["stops"]
        /\ t["direction"] % 2 = IF h THEN 1 ELSE 0
    BY DEF Accounts
  <1>3. \A n \in Counters : t[n] \in Nat
    OBVIOUS
  <1>4. u \in [Counters -> Nat] /\ \A n \in Counters : u[n] <= t[n] + 1
    BY <1>3
  <1> DEFINE other == IF g = h THEN "size" ELSE "direction"
  <1>5. /\ u["switches"] = t["switches"] + 1
        /\ u["direction"] = t["direction"] + IF other = "direction" THEN 1 ELSE 0
        /\ u["size"] = t["size"] + IF other = "size" THEN 1 ELSE 0
        /\ u["entries"] = t["entries"] + IF kind = "entries" THEN 1 ELSE 0
        /\ u["exits"] = t["exits"] + IF kind = "exits" THEN 1 ELSE 0
        /\ u["ups"] = t["ups"] + IF kind = "ups" THEN 1 ELSE 0
        /\ u["downs"] = t["downs"] + IF kind = "downs" THEN 1 ELSE 0
        /\ u["stops"] = t["stops"] + IF kind = "stops" THEN 1 ELSE 0
    <2>0. other \in {"size", "direction"} /\ u = [n \in Counters |-> t[n] + IF n \in {"switches", kind, other} THEN 1 ELSE 0]
      OBVIOUS
    <2> HIDE DEF other
    <2> QED
      BY <2>0, <1>1 DEF Counters
  <1>6. u["switches"] = u["entries"] + u["exits"] + u["ups"] + u["downs"] + u["stops"]
    BY <1>1, <1>2, <1>5
  <1>7. CASE g = h
    <2>1. other = "size"
      BY <1>7, Zenon
    <2> HIDE DEF other
    <2>2. u["direction"] = t["direction"] /\ u["size"] = t["size"] + 1
      BY <1>1, <1>5, <2>1
    <2>3. u["switches"] = u["direction"] + u["size"]
      <3>1. u["switches"] = t["switches"] + 1 /\ t["switches"] = t["direction"] + t["size"]
        BY <1>2, <1>5, Zenon
      <3> QED
        BY <1>1, <2>2, <3>1
    <2>4. u["direction"] % 2 = IF g THEN 1 ELSE 0
      BY <1>2, <1>7, <2>2, Zenon
    <2> QED
      BY <1>4, <1>5, <1>6, <2>3, <2>4, Zenon DEF Accounts
  <1>8. CASE g # h
    <2>1. other = "direction"
      BY <1>8, Zenon
    <2> HIDE DEF other
    <2>2. u["direction"] = t["direction"] + 1 /\ u["size"] = t["size"]
      BY <1>1, <1>5, <2>1
    <2>3. u["switches"] = u["direction"] + u["size"]
      BY <1>1, <1>2, <1>5, <2>2
    <2>4. h = ~g
      BY <1>8
    <2>5. CASE h
      <3>1. u["direction"] % 2 = 0
        BY <1>1, <1>2, <2>2, <2>5, NextParity
      <3> QED
        BY <1>4, <1>5, <1>6, <2>3, <2>4, <2>5, <3>1, Zenon DEF Accounts
    <2>6. CASE ~h
      <3>1. u["direction"] % 2 = 1
        BY <1>1, <1>2, <2>2, <2>6, NextParity
      <3> QED
        BY <1>4, <1>5, <1>6, <2>3, <2>4, <2>6, <3>1, Zenon DEF Accounts
    <2> QED
      BY <2>5, <2>6
  <1> QED
    BY <1>7, <1>8

\* The first day that is not yet accounted for, and how many orders there was time for.
DayDue == IF cursor.stage = "walk" THEN cursor.mark ELSE DecisionDay + 2
Orders == (cursor.turn - 1) * (StepDays + 1)
Room == IF cursor.stage = "walk" THEN Orders + 1 + (cursor.mark - (DecisionDay + 2)) ELSE Orders

ClockInv ==
    /\ cursor \in [turn : 1..(Turns + 1), stage : {"decide", "walk", "report"}, mark : 0..EndDay]
    /\ cursor.stage = "walk" => cursor.turn <= Turns /\ cursor.mark \in MarkedDays
                                /\ cursor.mark < EndDay

BooksInv ==
    /\ stock \in [share : 0..Whole, residue : BOOLEAN, filled : Nat]
    /\ stock.filled <= DecisionDay + 1
    /\ tally \in [Counters -> Nat] /\ Accounts(tally, IsHeld(stock))
    /\ \A n \in Counters : tally[n] <= Room
    /\ stopped \subseteq [day : Nat, filled : Nat] /\ IsFiniteSet(stopped)
    /\ \A s \in stopped : s.filled < s.day /\ s.day < DayDue
    /\ tally["stops"] = Cardinality(stopped)

DaysInv ==
    /\ walked \in Seq(Nat) /\ missed \subseteq 1..Turns
    /\ \A i \in 1..Len(walked) : walked[i] < DayDue /\ walked[i] < EndDay
    /\ \A i, j \in 1..Len(walked) : i < j => walked[i] < walked[j]
    /\ \A d \in 2..(DayDue - 1) :
         d < EndDay => d \in ToSet(walked) \/ ((d - 2) \div StepDays) + 1 \in missed

ReplayInv == ClockInv /\ BooksInv /\ DaysInv

\* The days of a decision, and the orders it may give rise to.
LEMMA Calendar ==
    ASSUME NEW n \in 1..(Turns + 1)
    PROVE  LET d == (n - 1) * StepDays
               b == (n - 1) * (StepDays + 1)
           IN  /\ d \in Nat /\ d <= EndDay /\ b \in Nat /\ b <= Turns * (StepDays + 1)
               /\ (n + 1 - 1) * StepDays = d + StepDays
               /\ (n + 1 - 1) * (StepDays + 1) = b + StepDays + 1
               /\ n <= Turns => /\ d + StepDays <= EndDay
                                /\ b + StepDays + 1 <= Turns * (StepDays + 1)
  <1> DEFINE S == StepDays
             T == StepDays + 1
             m == n - 1
  <1>1. S \in Nat /\ T \in Nat /\ m \in Nat /\ Turns \in Nat /\ m <= Turns /\ n = m + 1
        /\ T = S + 1
    BY ReplayAssumption
  <1> HIDE DEF S, T, m
  <1>2. m * S \in Nat /\ m * S <= Turns * S /\ m * T \in Nat /\ m * T <= Turns * T
    <2>1. m * S <= Turns * S /\ m * T <= Turns * T
      BY <1>1, ProductInOrder
    <2> QED
      BY ONLY <1>1, <2>1
  <1>3. n * S = m * S + S /\ n * T = m * T + T
    BY ONLY <1>1
  <1>4. n <= Turns => n * S <= Turns * S /\ n * T <= Turns * T
    BY <1>1, ProductInOrder
  <1>5. n + 1 - 1 = n
    OBVIOUS
  <1> QED
    BY <1>1, <1>2, <1>3, <1>4, <1>5 DEF EndDay, S, T, m

\* The days between two decisions are those of the first.
LEMMA DaysOfTurn ==
    ASSUME NEW n \in 1..(Turns + 1), NEW d \in Nat,
           (n - 1) * StepDays + 2 <= d, d <= (n - 1) * StepDays + StepDays + 1
    PROVE  ((d - 2) \div StepDays) + 1 = n
  <1> DEFINE S == StepDays
             m == n - 1
             x == d - 2
             q == x \div S
             p == m * S
  <1>1. S \in Nat /\ S > 0 /\ m \in Nat /\ n = m + 1
    BY ReplayAssumption
  <1>2. p \in Nat
    <2> HIDE DEF m, S
    <2> QED
      BY <1>1
  <1>3. x \in Nat /\ p <= x /\ x < p + S
    <2> HIDE DEF p
    <2> QED
      BY <1>1, <1>2 DEF p
  <1>4. q \in Int /\ S * q <= x /\ x < S * (q + 1)
    <2> HIDE DEF x, S
    <2> QED
      BY <1>1, <1>3
  <1> HIDE DEF S, m, x, q, p
  <1>5. p = S * m /\ p + S = S * (m + 1) /\ S * (q + 1) = S * q + S
    BY <1>1, <1>4 DEF p
  <1>6. q < m + 1
    <2> SUFFICES ASSUME m + 1 <= q PROVE FALSE
      BY <1>1, <1>4
    <2>1. (m + 1) * S <= q * S
      BY <1>1, <1>4, ProductInOrder
    <2> QED
      BY <1>1, <1>3, <1>4, <1>5, <2>1
  <1>7. m <= q
    <2> SUFFICES ASSUME q + 1 <= m PROVE FALSE
      BY <1>1, <1>4
    <2>1. (q + 1) * S <= m * S
      BY <1>1, <1>4, ProductInOrder
    <2> QED
      BY <1>1, <1>3, <1>4, <1>5, <2>1
  <1>8. q = m
    BY <1>1, <1>4, <1>6, <1>7
  <1> QED
    BY <1>1, <1>8 DEF q, x, S

\* The numbers of a turn that is being replayed.
LEMMA TurnNumbers ==
    ASSUME ClockInv
    PROVE  /\ cursor.turn \in 1..(Turns + 1) /\ cursor.mark \in Nat
           /\ StepDays \in Nat /\ StepDays > 0 /\ Turns \in Nat /\ EndDay \in Nat
           /\ DecisionDay \in Nat /\ DecisionDay <= EndDay
           /\ Orders \in Nat /\ Orders <= Turns * (StepDays + 1) /\ Turns * (StepDays + 1) \in Nat
           /\ cursor.turn <= Turns => /\ DecisionDay + StepDays <= EndDay
                                      /\ Orders + StepDays + 1 <= Turns * (StepDays + 1)
           /\ DayDue \in Nat /\ Room \in Nat
           /\ cursor.stage = "walk" => /\ cursor.turn <= Turns /\ cursor.mark < EndDay
                                       /\ DecisionDay + 2 <= cursor.mark
                                       /\ cursor.mark <= DecisionDay + StepDays + 1
  <1>1. /\ cursor.turn \in 1..(Turns + 1) /\ cursor.mark \in 0..EndDay
        /\ cursor.stage = "walk" => cursor.turn <= Turns /\ cursor.mark \in MarkedDays
                                    /\ cursor.mark < EndDay
    BY DEF ClockInv
  <1>2. StepDays \in Nat /\ StepDays > 0 /\ Turns \in Nat
    BY ReplayAssumption
  <1>3. EndDay \in Nat /\ Turns * (StepDays + 1) \in Nat
    <2>1. StepDays + 1 \in Nat
      BY <1>2
    <2> QED
      BY <1>2, <2>1 DEF EndDay
  <1>4. /\ DecisionDay \in Nat /\ DecisionDay <= EndDay
        /\ Orders \in Nat /\ Orders <= Turns * (StepDays + 1)
        /\ cursor.turn <= Turns => /\ DecisionDay + StepDays <= EndDay
                                   /\ Orders + StepDays + 1 <= Turns * (StepDays + 1)
    BY <1>1, Calendar, Zenon DEF DecisionDay, Orders
  <1>5. cursor.mark \in Nat
    BY <1>1, <1>3
  <1>6. cursor.stage = "walk" => /\ DecisionDay + 2 <= cursor.mark
                                 /\ cursor.mark <= DecisionDay + StepDays + 1
    <2> HIDE DEF DecisionDay
    <2> QED
      BY <1>1, <1>2, <1>4, <1>5 DEF MarkedDays
  <1>7. DayDue \in Nat /\ Room \in Nat
    <2> HIDE DEF DecisionDay, Orders
    <2>1. CASE cursor.stage = "walk"
      BY <1>2, <1>4, <1>5, <1>6, <2>1 DEF DayDue, Room
    <2>2. CASE cursor.stage # "walk"
      BY <1>2, <1>4, <2>2 DEF DayDue, Room
    <2> QED
      BY <2>1, <2>2
  <1> QED
    BY <1>1, <1>2, <1>3, <1>4, <1>5, <1>6, <1>7, Zenon

LEMMA ReplayFollows == ReplayInv => ReplayTypeOK /\ ReplayIsHonest
  <1> SUFFICES ASSUME ReplayInv PROVE ReplayTypeOK /\ ReplayIsHonest
    OBVIOUS
  <1>1. ClockInv /\ BooksInv /\ DaysInv
    BY DEF ReplayInv
  <1> DEFINE D == DecisionDay
             E == EndDay
             B == Turns * (StepDays + 1)
             R == Room
             F == DayDue
  <1>2. D \in Nat /\ E \in Nat /\ B \in Nat /\ R \in Nat /\ D <= E /\ F \in Nat
    BY <1>1, TurnNumbers
  <1>3. R <= B
    <2>1. CASE cursor.stage = "walk"
      <3> DEFINE o == Orders
      <3>1. /\ o \in Nat /\ o + StepDays + 1 <= B /\ D + 2 <= cursor.mark
            /\ cursor.mark <= D + StepDays + 1 /\ R = o + 1 + (cursor.mark - (D + 2))
            /\ cursor.mark \in Nat /\ StepDays \in Nat
        BY <1>1, <2>1, TurnNumbers DEF Room
      <3> HIDE DEF o, D, B, R
      <3> QED
        BY <1>2, <3>1
    <2>2. CASE cursor.stage # "walk"
      BY <1>1, <2>2, TurnNumbers DEF Room
    <2> QED
      BY <2>1, <2>2
  <1> HIDE DEF D, E, B, R, F
  <1>4. ReplayTypeOK
    <2>1. stock \in [share : 0..Whole, residue : BOOLEAN, filled : 0..(E + 1)]
      <3>1. stock \in [share : 0..Whole, residue : BOOLEAN, filled : Nat] /\ stock.filled <= D + 1
        BY <1>1 DEF BooksInv, D
      <3>2. PICK a \in 0..Whole, b \in BOOLEAN, c \in Nat : stock = [share |-> a, residue |-> b, filled |-> c]
        BY <3>1
      <3>3. c \in 0..(E + 1)
        BY <1>2, <3>1, <3>2
      <3> QED
        BY <3>2, <3>3
    <2>2. tally \in [Counters -> 0..B]
      <3>1. tally \in [Counters -> Nat] /\ \A n \in Counters : tally[n] <= R
        BY <1>1 DEF BooksInv, R
      <3>2. \A n \in Counters : tally[n] \in 0..B
        BY <1>2, <1>3, <3>1
      <3> QED
        BY <3>1, <3>2
    <2> QED
      BY <1>1, <2>1, <2>2, Zenon DEF ReplayTypeOK, ClockInv, DaysInv, E, B
  <1>5. walked # <<>> => \A d \in 2..walked[Len(walked)] :
          d \in ToSet(walked) \/ ((d - 2) \div StepDays) + 1 \in missed
    <2> SUFFICES ASSUME walked # <<>>, NEW d \in 2..walked[Len(walked)]
                 PROVE  d \in ToSet(walked) \/ ((d - 2) \div StepDays) + 1 \in missed
      OBVIOUS
    <2> DEFINE last == walked[Len(walked)]
    <2>1. walked \in Seq(Nat) /\ \A i \in 1..Len(walked) : walked[i] < F /\ walked[i] < E
      BY <1>1, Zenon DEF DaysInv, F, E
    <2>2. last \in Nat /\ last < F /\ last < E
      BY <2>1
    <2> HIDE DEF last
    <2>3. d \in 2..(F - 1) /\ d < E
      BY <1>2, <2>2 DEF last
    <2> QED
      BY <1>1, <2>3, Zenon DEF DaysInv, F, E
  <1>6. DOMAIN walked = 1..Len(walked)
    BY <1>1 DEF DaysInv
  <1>7. \A s \in stopped : s.day > s.filled
    <2> SUFFICES ASSUME NEW s \in stopped PROVE s.day > s.filled
      OBVIOUS
    <2>1. s \in [day : Nat, filled : Nat] /\ s.filled < s.day
      BY <1>1 DEF BooksInv
    <2>2. s.day \in Nat /\ s.filled \in Nat
      BY <2>1
    <2> QED
      BY <2>1, <2>2
  <1> QED
    BY <1>1, <1>4, <1>5, <1>6, <1>7, Zenon DEF ReplayIsHonest, BooksInv, DaysInv, Accounts

LEMMA ReplayInitially == ReplayInit => ReplayInv
  <1> SUFFICES ASSUME ReplayInit PROVE ReplayInv
    OBVIOUS
  <1>0. StepDays \in Nat /\ StepDays > 0 /\ Turns \in Nat /\ Whole \in Nat
    BY ReplayAssumption
  <1>1. /\ cursor = [turn |-> 1, stage |-> "decide", mark |-> 0] /\ stock = Empty
        /\ tally = [n \in Counters |-> 0] /\ walked = <<>> /\ stopped = {} /\ missed = {}
    BY DEF ReplayInit
  <1>2. EndDay \in Nat /\ DecisionDay = 0 /\ DayDue = 2 /\ Room = 0
    <2>1. EndDay \in Nat
      BY <1>0 DEF EndDay
    <2>2. DecisionDay = 0 /\ Orders = 0
      BY <1>0, <1>1 DEF DecisionDay, Orders
    <2> QED
      BY <1>1, <2>1, <2>2 DEF DayDue, Room
  <1>3. ClockInv
    <2>1. 1 \in 1..(Turns + 1) /\ 0 \in 0..EndDay
      BY <1>0, <1>2
    <2> QED
      BY <1>1, <2>1 DEF ClockInv
  <1>4. BooksInv
    <2>1. stock \in [share : 0..Whole, residue : BOOLEAN, filled : Nat] /\ stock.filled <= DecisionDay + 1
      BY <1>0, <1>1, <1>2 DEF Empty
    <2>2. ~IsHeld(stock)
      BY <1>1 DEF IsHeld, Empty
    <2>3. tally \in [Counters -> Nat] /\ \A n \in Counters : tally[n] <= Room
      BY <1>1, <1>2
    <2>4. /\ tally["switches"] = 0 /\ tally["direction"] = 0 /\ tally["size"] = 0
          /\ tally["entries"] = 0 /\ tally["exits"] = 0 /\ tally["ups"] = 0
          /\ tally["downs"] = 0 /\ tally["stops"] = 0
      BY <1>1 DEF Counters
    <2>5. Accounts(tally, IsHeld(stock))
      <3>1. 0 % 2 = 0
        OBVIOUS
      <3> QED
        BY <2>2, <2>4, <3>1 DEF Accounts
    <2>6. stopped \subseteq [day : Nat, filled : Nat] /\ IsFiniteSet(stopped)
          /\ tally["stops"] = Cardinality(stopped)
      BY <1>1, <2>4, FS_EmptySet
    <2> QED
      BY <1>1, <2>1, <2>3, <2>5, <2>6 DEF BooksInv
  <1>5. DaysInv
    <2>1. walked \in Seq(Nat) /\ Len(walked) = 0 /\ DayDue - 1 = 1
      BY <1>1, <1>2
    <2> QED
      BY <1>1, <2>1 DEF DaysInv
  <1> QED
    BY <1>3, <1>4, <1>5 DEF ReplayInv

\* The clock moves to the next decision, or to a day that is marked.
LEMMA ToNextTurn ==
    ASSUME ClockInv, cursor.turn <= Turns, cursor' = NextTurn
    PROVE  /\ ClockInv' /\ DecisionDay' = DecisionDay + StepDays
           /\ DayDue' = DecisionDay + StepDays + 2 /\ Room' = Orders + StepDays + 1
  <1>1. /\ cursor'.turn = cursor.turn + 1 /\ cursor'.stage = "decide" /\ cursor'.mark = 0
        /\ cursor' = [turn |-> cursor.turn + 1, stage |-> "decide", mark |-> 0]
    BY DEF NextTurn
  <1>2. cursor.turn + 1 \in 1..(Turns + 1) /\ 0 \in 0..EndDay
    BY TurnNumbers
  <1>3. ClockInv'
    BY <1>1, <1>2 DEF ClockInv
  <1>4. DecisionDay' = DecisionDay + StepDays /\ Orders' = Orders + StepDays + 1
    <2>1. cursor.turn \in 1..(Turns + 1)
      BY TurnNumbers
    <2>2. /\ (cursor.turn + 1 - 1) * StepDays = DecisionDay + StepDays
          /\ (cursor.turn + 1 - 1) * (StepDays + 1) = Orders + StepDays + 1
      BY <2>1, Calendar, Zenon DEF DecisionDay, Orders
    <2>3. cursor'.turn - 1 = cursor.turn + 1 - 1
      BY <1>1, <2>1
    <2>4. /\ DecisionDay' = (cursor.turn + 1 - 1) * StepDays
          /\ Orders' = (cursor.turn + 1 - 1) * (StepDays + 1)
      BY <2>3, Zenon DEF DecisionDay, Orders
    <2> QED
      BY <2>2, <2>4, Zenon
  <1> QED
    BY <1>1, <1>3, <1>4, Zenon DEF DayDue, Room

LEMMA ToMark ==
    ASSUME ClockInv, cursor.turn <= Turns, NEW m \in MarkedDays, m < EndDay,
           cursor' = [cursor EXCEPT !.stage = "walk", !.mark = m]
    PROVE  /\ ClockInv' /\ DecisionDay' = DecisionDay
           /\ DayDue' = m /\ Room' = Orders + 1 + (m - (DecisionDay + 2))
  <1>1. cursor \in [turn : 1..(Turns + 1), stage : {"decide", "walk", "report"}, mark : 0..EndDay]
    BY DEF ClockInv
  <1>2. m \in 0..EndDay
    BY TurnNumbers DEF MarkedDays
  <1>3. /\ cursor'.turn = cursor.turn /\ cursor'.stage = "walk" /\ cursor'.mark = m
        /\ cursor' \in [turn : 1..(Turns + 1), stage : {"decide", "walk", "report"}, mark : 0..EndDay]
    BY <1>1, <1>2
  <1>4. DecisionDay' = DecisionDay /\ Orders' = Orders /\ MarkedDays' = MarkedDays
    BY <1>3, Zenon DEF DecisionDay, Orders, MarkedDays
  <1>5. ClockInv'
    BY <1>3, <1>4, Zenon DEF ClockInv
  <1> QED
    BY <1>3, <1>4, <1>5, Zenon DEF DayDue, Room

\* Time passes over a book that nothing happens to.
LEMMA BooksRest ==
    ASSUME ClockInv, DecisionDay' \in Nat, Room' \in Nat, DayDue' \in Nat, BooksInv, UNCHANGED <<stock, tally, stopped>>,
           DecisionDay <= DecisionDay', Room <= Room', DayDue <= DayDue'
    PROVE  BooksInv'
  <1> DEFINE d == DecisionDay
             e == DecisionDay'
             r == Room
             q == Room'
             f == DayDue
             g == DayDue'
  <1>1. d \in Nat /\ r \in Nat /\ f \in Nat /\ e \in Nat /\ q \in Nat /\ g \in Nat
    BY TurnNumbers
  <1>2. d <= e /\ r <= q /\ f <= g
    OBVIOUS
  <1>3. /\ stock \in [share : 0..Whole, residue : BOOLEAN, filled : Nat]
        /\ stock.filled <= d + 1
        /\ tally \in [Counters -> Nat] /\ Accounts(tally, IsHeld(stock))
        /\ \A n \in Counters : tally[n] <= r
        /\ stopped \subseteq [day : Nat, filled : Nat] /\ IsFiniteSet(stopped)
        /\ \A s \in stopped : s.filled < s.day /\ s.day < f
        /\ tally["stops"] = Cardinality(stopped)
    BY Zenon DEF BooksInv
  <1> HIDE DEF d, e, r, q, f, g
  <1>4. stock.filled <= e + 1
    BY <1>1, <1>2, <1>3
  <1>5. \A n \in Counters : tally[n] <= q
    <2> SUFFICES ASSUME NEW n \in Counters PROVE tally[n] <= q
      OBVIOUS
    <2>1. tally[n] \in Nat /\ tally[n] <= r
      BY <1>3
    <2> QED
      BY <1>1, <1>2, <2>1
  <1>6. \A s \in stopped : s.filled < s.day /\ s.day < g
    <2> SUFFICES ASSUME NEW s \in stopped PROVE s.day < g
      BY <1>3
    <2>1. s \in [day : Nat, filled : Nat] /\ s.day < f
      BY <1>3
    <2>2. s.day \in Nat
      BY <2>1
    <2> QED
      BY <1>1, <1>2, <2>1, <2>2
  <1> QED
    BY <1>3, <1>4, <1>5, <1>6, Zenon DEF BooksInv, e, q, g

\* One order is filled, or a stop fires.
LEMMA BooksTrade ==
    ASSUME ClockInv, DecisionDay' \in Nat, Room' \in Nat, DayDue' \in Nat, BooksInv, NEW after, NEW kind,
           kind \in {"entries", "exits", "ups", "downs", "stops"},
           after \in [share : 0..Whole, residue : BOOLEAN, filled : Nat],
           after.filled <= DecisionDay + 1, stock' = after,
           tally' = Counting({"switches", kind, IF IsHeld(after) = IsHeld(stock) THEN "size"
                                                ELSE "direction"}),
           DecisionDay <= DecisionDay', Room + 1 <= Room', DayDue <= DayDue',
           \/ kind # "stops" /\ stopped' = stopped
           \/ /\ kind = "stops" /\ cursor.stage = "walk" /\ cursor.mark < DayDue'
              /\ stopped' = stopped \cup {[day |-> cursor.mark, filled |-> stock.filled]}
    PROVE  BooksInv'
  <1> DEFINE d == DecisionDay
             e == DecisionDay'
             r == Room
             q == Room'
             f == DayDue
             g == DayDue'
  <1>1. d \in Nat /\ r \in Nat /\ f \in Nat /\ e \in Nat /\ q \in Nat /\ g \in Nat
    BY TurnNumbers
  <1>2. d <= e /\ r + 1 <= q /\ f <= g /\ after.filled <= d + 1
    OBVIOUS
  <1>3. /\ stock \in [share : 0..Whole, residue : BOOLEAN, filled : Nat]
        /\ stock.filled <= d + 1
        /\ tally \in [Counters -> Nat] /\ Accounts(tally, IsHeld(stock))
        /\ \A n \in Counters : tally[n] <= r
        /\ stopped \subseteq [day : Nat, filled : Nat] /\ IsFiniteSet(stopped)
        /\ \A s \in stopped : s.filled < s.day /\ s.day < f
        /\ tally["stops"] = Cardinality(stopped)
    BY Zenon DEF BooksInv
  <1>4. IsHeld(stock) \in BOOLEAN /\ IsHeld(after) \in BOOLEAN
    <2>1. stock.residue \in BOOLEAN /\ after.residue \in BOOLEAN
      BY <1>3
    <2> QED
      BY <2>1, Zenon DEF IsHeld
  <1>5. /\ tally' \in [Counters -> Nat] /\ Accounts(tally', IsHeld(after))
        /\ \A n \in Counters : tally'[n] <= tally[n] + 1
        /\ tally'["stops"] = tally["stops"] + IF kind = "stops" THEN 1 ELSE 0
    <2> DEFINE h == IsHeld(stock)
               k == IsHeld(after)
               t == tally
               u == tally'
    <2>1. u = [n \in Counters |-> t[n] + IF n \in {"switches", kind, IF k = h THEN "size"
                                                                 ELSE "direction"}
                                     THEN 1 ELSE 0]
      BY Zenon DEF Counting
    <2>2. h \in BOOLEAN /\ k \in BOOLEAN /\ Accounts(t, h) /\ t \in [Counters -> Nat]
      BY <1>3, <1>4
    <2>4. kind \in {"entries", "exits", "ups", "downs", "stops"}
      OBVIOUS
    <2> HIDE DEF h, k, t, u
    <2>3. /\ u \in [Counters -> Nat] /\ Accounts(u, k)
          /\ \A n \in Counters : u[n] <= t[n] + 1
          /\ u["stops"] = t["stops"] + IF kind = "stops" THEN 1 ELSE 0
      BY ONLY <2>1, <2>2, <2>4, OrderCounted
    <2> QED
      BY <2>3, Zenon DEF k, t, u
  <1>6. after.filled <= e + 1
    <2>1. after.filled \in Nat
      OBVIOUS
    <2> HIDE DEF d, e, r, q, f, g
    <2> QED
      BY <1>1, <1>2, <2>1
  <1> DEFINE stopNow == [day |-> cursor.mark, filled |-> stock.filled]
  <1>7. \A n \in Counters : tally'[n] <= q
    <2> HIDE DEF d, e, r, q, f, g
    <2> SUFFICES ASSUME NEW n \in Counters PROVE tally'[n] <= q
      OBVIOUS
    <2>1. tally[n] \in Nat /\ tally[n] <= r /\ tally'[n] \in Nat /\ tally'[n] <= tally[n] + 1
      BY <1>3, <1>5
    <2> QED
      BY <1>1, <1>2, <2>1
  <1>8. ASSUME NEW s \in stopped PROVE s.day \in Nat /\ s.day < f /\ s.day < g
    <2> HIDE DEF d, e, r, q, f, g
    <2>1. s \in [day : Nat, filled : Nat] /\ s.day < f
      BY <1>3, <1>8
    <2>2. s.day \in Nat
      BY <2>1
    <2> QED
      BY <1>1, <1>2, <2>1, <2>2
  <1>9. /\ stopped' \subseteq [day : Nat, filled : Nat] /\ IsFiniteSet(stopped')
        /\ \A s \in stopped' : s.filled < s.day /\ s.day < g
        /\ tally'["stops"] = Cardinality(stopped')
    <2>1. CASE kind # "stops" /\ stopped' = stopped
      <3>1. tally["stops"] \in Nat
        BY <1>3 DEF Counters
      <3>2. tally'["stops"] = tally["stops"] + 0
        BY <1>5, <2>1, Zenon
      <3>3. tally'["stops"] = tally["stops"]
        BY <3>1, <3>2
      <3> QED
        BY <1>3, <1>8, <2>1, <3>3, Zenon
    <2>2. CASE /\ kind = "stops" /\ cursor.stage = "walk" /\ cursor.mark < DayDue'
               /\ stopped' = stopped \cup {stopNow}
      <3>1. f = cursor.mark /\ d + 2 <= cursor.mark /\ cursor.mark \in Nat
        BY <2>2, TurnNumbers DEF DayDue
      <3>2. stock.filled \in Nat /\ stock.filled <= d + 1
        BY <1>3
      <3>3. stopNow \in [day : Nat, filled : Nat] /\ stopNow.day = cursor.mark
            /\ stopNow.filled = stock.filled
        BY <3>1, <3>2
      <3> HIDE DEF d, e, r, q, f, stopNow
      <3>4. stopNow.filled < stopNow.day /\ stopNow.day < g
        BY <1>1, <2>2, <3>1, <3>2, <3>3
      <3>5. stopNow \notin stopped
        BY <1>1, <1>8, <3>1, <3>3
      <3>6. IsFiniteSet(stopped') /\ Cardinality(stopped') = Cardinality(stopped) + 1
        BY <1>3, <2>2, <3>5, FS_AddElement
      <3>7. tally'["stops"] = tally["stops"] + 1
        BY <1>5, <2>2, Zenon
      <3> QED
        BY <1>3, <1>8, <2>2, <3>3, <3>4, <3>6, <3>7, Zenon
    <2> QED
      BY <2>1, <2>2, Zenon
  <1> QED
    BY <1>5, <1>6, <1>7, <1>9, Zenon DEF BooksInv

\* Days go by that no day is walked of: those of a decision the model failed, those after the
\* end, and none when the walk has only begun.
LEMMA DaysRest ==
    ASSUME ClockInv, DayDue' \in Nat, DaysInv, walked' = walked,
           missed \subseteq missed', missed' \subseteq 1..Turns, DayDue <= DayDue',
           \A d \in DayDue..(DayDue' - 1) : d < EndDay => ((d - 2) \div StepDays) + 1 \in missed'
    PROVE  DaysInv'
  <1> DEFINE f == DayDue
             g == DayDue'
  <1>1. f \in Nat /\ g \in Nat /\ EndDay \in Nat /\ f <= g
    BY TurnNumbers
  <1>2. /\ walked \in Seq(Nat)
        /\ \A i \in 1..Len(walked) : walked[i] < f /\ walked[i] < EndDay
        /\ \A i, j \in 1..Len(walked) : i < j => walked[i] < walked[j]
        /\ \A d \in 2..(f - 1) :
             d < EndDay => d \in ToSet(walked) \/ ((d - 2) \div StepDays) + 1 \in missed
        /\ \A d \in f..(g - 1) : d < EndDay => ((d - 2) \div StepDays) + 1 \in missed'
    BY Zenon DEF DaysInv
  <1> HIDE DEF f, g
  <1>3. \A i \in 1..Len(walked) : walked[i] < g /\ walked[i] < EndDay
    <2> SUFFICES ASSUME NEW i \in 1..Len(walked) PROVE walked[i] < g
      BY <1>2
    <2>1. walked[i] \in Nat /\ walked[i] < f
      BY <1>2
    <2> QED
      BY <1>1, <2>1
  <1>4. ASSUME NEW d \in 2..(g - 1), d < EndDay
        PROVE  d \in ToSet(walked) \/ ((d - 2) \div StepDays) + 1 \in missed'
    <2>1. d \in 2..(f - 1) \/ d \in f..(g - 1)
      BY <1>1
    <2> QED
      BY <1>2, <1>4, <2>1, Zenon
  <1> QED
    BY <1>2, <1>3, <1>4, Zenon DEF DaysInv, g

\* A day is walked, and the next one is due, or none before the next decision.
LEMMA DaysWalk ==
    ASSUME ClockInv, DayDue' \in Nat, DaysInv, cursor.stage = "walk",
           walked' = Append(walked, cursor.mark), missed' = missed, cursor.mark < DayDue',
           \A d \in (cursor.mark + 1)..(DayDue' - 1) : d >= EndDay
    PROVE  DaysInv'
  <1> DEFINE m == cursor.mark
             g == DayDue'
             n == Len(walked)
  <1>1. m \in Nat /\ g \in Nat /\ EndDay \in Nat /\ m < g /\ m < EndDay /\ DayDue = m
    BY TurnNumbers DEF DayDue
  <1>2. /\ walked \in Seq(Nat) /\ missed \subseteq 1..Turns
        /\ \A i \in 1..n : walked[i] < m /\ walked[i] < EndDay
        /\ \A i, j \in 1..n : i < j => walked[i] < walked[j]
        /\ \A d \in 2..(m - 1) :
             d < EndDay => d \in ToSet(walked) \/ ((d - 2) \div StepDays) + 1 \in missed
        /\ \A d \in (m + 1)..(g - 1) : d >= EndDay
    BY <1>1, Zenon DEF DaysInv
  <1>3. walked' = Append(walked, m)
    OBVIOUS
  <1> HIDE DEF m, g
  <1>4. /\ walked' \in Seq(Nat) /\ Len(walked') = n + 1 /\ walked'[n + 1] = m /\ n \in Nat
        /\ \A i \in 1..n : walked'[i] = walked[i] /\ walked[i] \in Nat
    BY <1>1, <1>2, <1>3
  <1>5. \A i \in 1..(n + 1) : i = n + 1 \/ i \in 1..n
    BY <1>4
  <1>6. \A i \in 1..(n + 1) : walked'[i] < g /\ walked'[i] < EndDay
    <2> SUFFICES ASSUME NEW i \in 1..(n + 1) PROVE walked'[i] < g /\ walked'[i] < EndDay
      OBVIOUS
    <2>1. CASE i = n + 1
      BY <1>1, <1>4, <2>1
    <2>2. CASE i \in 1..n
      <3>1. walked'[i] \in Nat /\ walked'[i] < m
        BY <1>2, <1>4, <2>2
      <3> QED
        BY <1>1, <3>1
    <2> QED
      BY <1>5, <2>1, <2>2
  <1>7. \A i, j \in 1..(n + 1) : i < j => walked'[i] < walked'[j]
    <2> SUFFICES ASSUME NEW i \in 1..(n + 1), NEW j \in 1..(n + 1), i < j
                 PROVE  walked'[i] < walked'[j]
      OBVIOUS
    <2>1. i \in 1..n
      BY <1>4
    <2>2. CASE j = n + 1
      BY <1>2, <1>4, <2>1, <2>2
    <2>3. CASE j \in 1..n
      BY <1>2, <1>4, <2>1, <2>3
    <2> QED
      BY <1>5, <2>2, <2>3
  <1>8. m \in ToSet(walked') /\ \A d \in ToSet(walked) : d \in ToSet(walked')
    <2>1. DOMAIN walked' = 1..(n + 1) /\ DOMAIN walked = 1..n /\ n + 1 \in 1..(n + 1)
          /\ \A i \in 1..n : i \in 1..(n + 1)
      BY <1>2, <1>4
    <2> QED
      BY <1>4, <2>1, Zenon DEF ToSet
  <1>9. ASSUME NEW d \in 2..(g - 1), d < EndDay
        PROVE  d \in ToSet(walked') \/ ((d - 2) \div StepDays) + 1 \in missed
    <2>1. d \in 2..(m - 1) \/ d = m \/ d \in (m + 1)..(g - 1)
      BY <1>1
    <2>2. CASE d \in (m + 1)..(g - 1)
      <3>1. d >= EndDay /\ d \in Int
        BY <1>2, <2>2
      <3> QED
        BY <1>1, <1>9, <3>1
    <2> QED
      BY <1>2, <1>8, <1>9, <2>1, <2>2, Zenon
  <1>10. \A i \in 1..Len(walked') : walked'[i] < g /\ walked'[i] < EndDay
    BY <1>4, <1>6
  <1>11. \A i, j \in 1..Len(walked') : i < j => walked'[i] < walked'[j]
    BY <1>4, <1>7
  <1> QED
    BY <1>2, <1>4, <1>9, <1>10, <1>11, Zenon DEF DaysInv, g

\* Where a decision leads: to its first day, or past the end, where no day is.
LEMMA AfterDecision ==
    ASSUME ClockInv, cursor.turn <= Turns, cursor.stage = "decide", cursor' = FirstMark
    PROVE  /\ ClockInv' /\ DecisionDay <= DecisionDay' /\ Room + 1 <= Room'
           /\ DayDue <= DayDue' /\ DayDue' \in Nat /\ DecisionDay' \in Nat /\ Room' \in Nat
           /\ \A d \in DayDue..(DayDue' - 1) : d >= EndDay
  <1> DEFINE D == DecisionDay
             O == Orders
             S == StepDays
             days == MarkedDays \cap 0..(EndDay - 1)
  <1>1. /\ D \in Nat /\ O \in Nat /\ S \in Nat /\ S > 0 /\ EndDay \in Nat
        /\ DayDue = D + 2 /\ Room = O
    BY TurnNumbers DEF DayDue, Room
  <1>2. days = {d \in Nat : D + 2 <= d /\ d <= D + S + 1 /\ d < EndDay}
    <2> HIDE DEF D, S
    <2> QED
      BY <1>1 DEF MarkedDays, D, S
  <1>3. CASE days = {}
    <2>1. cursor' = NextTurn
      BY <1>3, Zenon DEF FirstMark
    <2>2. ClockInv' /\ DecisionDay' = D + S /\ DayDue' = D + S + 2 /\ Room' = O + S + 1
      BY <2>1, ToNextTurn
    <2> HIDE DEF D, O, S, days
    <2>3. EndDay <= D + 2
      <3> SUFFICES ASSUME D + 2 < EndDay PROVE FALSE
        BY <1>1
      <3>1. D + 2 \in days
        BY <1>1, <1>2
      <3> QED
        BY <1>3, <3>1
    <2>4. D <= DecisionDay' /\ O + 1 <= Room' /\ D + 2 <= DayDue' /\ DayDue' \in Nat
          /\ DecisionDay' \in Nat /\ Room' \in Nat
      BY <1>1, <2>2
    <2>5. \A d \in DayDue..(DayDue' - 1) : d >= EndDay
      BY <1>1, <2>2, <2>3
    <2> QED
      BY <1>1, <2>2, <2>4, <2>5 DEF D
  <1>4. CASE days # {}
    <2> DEFINE m == CHOOSE d \in days : \A e \in days : d <= e
    <2>1. cursor' = [cursor EXCEPT !.stage = "walk", !.mark = m]
      BY <1>4, Zenon DEF FirstMark
    <2>2. PICK x \in days : TRUE
      BY <1>4
    <2>3. D + 2 \in days
      <3> HIDE DEF D, O, S, days
      <3> QED
        BY <1>1, <1>2, <2>2
    <2>4. \A e \in days : D + 2 <= e
      <3> HIDE DEF D, O, S, days
      <3> QED
        BY <1>2
    <2>5. m \in days /\ \A e \in days : m <= e
      <3> HIDE DEF D, O, S, days
      <3> QED
        BY <2>3, <2>4, Zenon
    <2>6. m = D + 2
      <3> HIDE DEF D, O, S, days, m
      <3> QED
        BY <1>1, <1>2, <2>3, <2>4, <2>5
    <2>7. m \in MarkedDays /\ m < EndDay
      <3> HIDE DEF m
      <3> QED
        BY <1>2, <2>5
    <2>8. ClockInv' /\ DecisionDay' = D /\ DayDue' = m /\ Room' = O + 1 + (m - (D + 2))
      <3> HIDE DEF m
      <3> QED
        BY <2>1, <2>7, ToMark
    <2> HIDE DEF D, O, S, days, m
    <2> QED
      BY <1>1, <2>6, <2>8 DEF D
  <1> QED
    BY <1>3, <1>4

\* Where a walked day leads: to the next, or to the next decision.
LEMMA AfterMark ==
    ASSUME ClockInv, cursor.stage = "walk",
           cursor' = IF cursor.mark + 1 \in MarkedDays \cap 0..(EndDay - 1)
                     THEN [cursor EXCEPT !.mark = @ + 1] ELSE NextTurn
    PROVE  /\ ClockInv' /\ DecisionDay <= DecisionDay' /\ Room + 1 <= Room'
           /\ DayDue <= DayDue' /\ DayDue' \in Nat /\ DecisionDay' \in Nat /\ Room' \in Nat
           /\ cursor.mark < DayDue' /\ \A d \in (cursor.mark + 1)..(DayDue' - 1) : d >= EndDay
  <1> DEFINE D == DecisionDay
             O == Orders
             S == StepDays
             m == cursor.mark
  <1>1. /\ D \in Nat /\ O \in Nat /\ S \in Nat /\ S > 0 /\ EndDay \in Nat /\ m \in Nat
        /\ DayDue = m /\ Room = O + 1 + (m - (D + 2)) /\ D + 2 <= m /\ m <= D + S + 1
        /\ m < EndDay /\ cursor.turn <= Turns
    BY TurnNumbers DEF DayDue, Room
  <1>2. CASE m + 1 \in MarkedDays \cap 0..(EndDay - 1)
    <2>1. cursor' = [cursor EXCEPT !.mark = m + 1]
      BY <1>2, Zenon
    <2>2. cursor' = [cursor EXCEPT !.stage = "walk", !.mark = m + 1]
      <3>1. PICK a, c : cursor = [turn |-> a, stage |-> "walk", mark |-> c]
        BY DEF ClockInv
      <3> QED
        BY <2>1, <3>1
    <2>3. m + 1 \in MarkedDays /\ m + 1 < EndDay
      <3> HIDE DEF m
      <3> QED
        BY <1>1, <1>2
    <2> DEFINE k == m + 1
    <2>4. k = m + 1
      OBVIOUS
    <2>5. ClockInv' /\ DecisionDay' = D /\ DayDue' = k /\ Room' = O + 1 + (k - (D + 2))
      <3> HIDE DEF k
      <3> QED
        BY <1>1, <2>2, <2>3, ToMark DEF k
    <2> HIDE DEF D, O, S, m, k
    <2>6. /\ D <= DecisionDay' /\ Room + 1 <= Room' /\ DayDue <= DayDue' /\ DayDue' \in Nat
          /\ DecisionDay' \in Nat /\ Room' \in Nat /\ m < DayDue'
          /\ \A d \in (m + 1)..(DayDue' - 1) : d >= EndDay
      BY <1>1, <2>4, <2>5
    <2> QED
      BY <2>5, <2>6 DEF D, m
  <1>3. CASE m + 1 \notin MarkedDays \cap 0..(EndDay - 1)
    <2>1. cursor' = NextTurn
      BY <1>3, Zenon
    <2>2. ClockInv' /\ DecisionDay' = D + S /\ DayDue' = D + S + 2 /\ Room' = O + S + 1
      BY <1>1, <2>1, ToNextTurn
    <2>3. m + 1 \in MarkedDays <=> D + 2 <= m + 1 /\ m + 1 <= D + S + 1
      <3> HIDE DEF D, S, m
      <3> QED
        BY <1>1 DEF MarkedDays, D, S
    <2> HIDE DEF D, O, S, m
    <2>4. m + 1 >= EndDay \/ m = D + S + 1
      BY <1>1, <1>3, <2>3
    <2>5. \A d \in (m + 1)..(DayDue' - 1) : d >= EndDay
      BY <1>1, <2>2, <2>4
    <2>6. D <= DecisionDay' /\ Room + 1 <= Room' /\ DayDue <= DayDue' /\ DayDue' \in Nat
          /\ DecisionDay' \in Nat /\ Room' \in Nat /\ m < DayDue'
      BY <1>1, <2>2
    <2> QED
      BY <2>2, <2>5, <2>6 DEF D, m
  <1> QED
    BY <1>2, <1>3

\* An order of the model, or none.
LEMMA DecisionKeepsTheBooks ==
    ASSUME ClockInv, BooksInv, cursor.turn <= Turns,
           NEW target \in 0..Whole, Trade(target), stopped' = stopped,
           DecisionDay <= DecisionDay', Room + 1 <= Room', DayDue <= DayDue',
           DayDue' \in Nat, DecisionDay' \in Nat, Room' \in Nat
    PROVE  BooksInv'
  <1> DEFINE D == DecisionDay
  <1>1. /\ stock \in [share : 0..Whole, residue : BOOLEAN, filled : Nat]
        /\ stock.filled <= D + 1
    BY DEF BooksInv
  <1>2. D \in Nat /\ Room \in Nat /\ Whole \in Nat
    BY TurnNumbers, ReplayAssumption
  <1>3. ASSUME NEW after, NEW kind \in {"entries", "exits", "ups", "downs"}, Traded(after, kind),
               after \in [share : 0..Whole, residue : BOOLEAN, filled : Nat], after.filled <= D + 1
        PROVE  BooksInv'
    <2>1. /\ stock' = after
          /\ tally' = Counting({"switches", kind, IF IsHeld(after) = IsHeld(stock) THEN "size"
                                                  ELSE "direction"})
      BY <1>3, Zenon DEF Traded
    <2>2. kind \in {"entries", "exits", "ups", "downs", "stops"} /\ kind # "stops"
      OBVIOUS
    <2> QED
      BY <1>3, <2>1, <2>2, BooksTrade, Zenon
  <1>4. ASSUME NEW rest \in BOOLEAN,
               Traded(Bought(target, rest), IF stock.share = 0 THEN "entries" ELSE "ups")
        PROVE  BooksInv'
    <2> DEFINE after == Bought(target, rest)
               kind == IF stock.share = 0 THEN "entries" ELSE "ups"
    <2>1. after \in [share : 0..Whole, residue : BOOLEAN, filled : Nat] /\ after.filled <= D + 1
      <3>1. after = [share |-> target, residue |-> rest, filled |-> D + 1]
        BY DEF Bought
      <3> HIDE DEF D
      <3> QED
        BY <1>2, <3>1
    <2>2. kind \in {"entries", "exits", "ups", "downs"}
      OBVIOUS
    <2>3. Traded(after, kind)
      BY <1>4, Zenon
    <2> HIDE DEF after, kind
    <2> QED
      BY <1>3, <2>1, <2>2, <2>3
  <1>5. ASSUME Traded(Sold(target), IF IsHeld(Sold(target)) THEN "downs" ELSE "exits")
        PROVE  BooksInv'
    <2> DEFINE after == Sold(target)
               kind == IF IsHeld(after) THEN "downs" ELSE "exits"
    <2>1. after \in [share : 0..Whole, residue : BOOLEAN, filled : Nat] /\ after.filled <= D + 1
      <3> HIDE DEF D
      <3>1. CASE after = Empty
        BY <1>2, <3>1 DEF Empty
      <3>2. CASE after = [stock EXCEPT !.share = target]
        <4>1. PICK a \in 0..Whole, b \in BOOLEAN, c \in Nat : stock = [share |-> a, residue |-> b, filled |-> c]
          BY <1>1
        <4>2. after = [share |-> target, residue |-> b, filled |-> c]
          BY <3>2, <4>1
        <4> QED
          BY <1>1, <4>1, <4>2
      <3> QED
        BY <3>1, <3>2, Zenon DEF Sold
    <2>2. kind \in {"entries", "exits", "ups", "downs"}
      OBVIOUS
    <2>3. Traded(after, kind)
      BY <1>5, Zenon
    <2> HIDE DEF after, kind
    <2> QED
      BY <1>3, <2>1, <2>2, <2>3
  <1>6. CASE UNCHANGED <<stock, tally, sales>>
    <2>1. Room <= Room'
      BY <1>2
    <2> QED
      BY <1>6, <2>1, BooksRest
  <1> QED
    BY <1>4, <1>5, <1>6, Zenon DEF Trade

LEMMA ReplayStep == ReplayInv /\ [ReplayNext]_replayVars => ReplayInv'
  <1> SUFFICES ASSUME ReplayInv, [ReplayNext]_replayVars PROVE ReplayInv'
    OBVIOUS
  <1>1. ClockInv /\ BooksInv /\ DaysInv
    BY DEF ReplayInv
  <1>2. CASE ModelFails
    <2>1. /\ cursor.stage = "decide" /\ cursor.turn <= Turns
          /\ missed' = missed \cup {cursor.turn} /\ cursor' = NextTurn
          /\ UNCHANGED <<stock, tally, walked, stopped, sales>>
      BY <1>2 DEF ModelFails
    <2> DEFINE D == DecisionDay
               S == StepDays
    <2>2. /\ D \in Nat /\ S \in Nat /\ S > 0 /\ Room = Orders /\ Orders \in Nat
          /\ DayDue = D + 2 /\ cursor.turn \in 1..(Turns + 1) /\ Turns \in Nat
      BY <1>1, <2>1, TurnNumbers DEF DayDue, Room
    <2>3. ClockInv' /\ DecisionDay' = D + S /\ DayDue' = D + S + 2 /\ Room' = Orders + S + 1
      BY <1>1, <2>1, ToNextTurn
    <2>4. /\ D <= DecisionDay' /\ DecisionDay' \in Nat /\ Room <= Room' /\ Room' \in Nat
          /\ DayDue <= DayDue' /\ DayDue' \in Nat
      <3> HIDE DEF D, S
      <3> QED
        BY <2>2, <2>3
    <2>5. BooksInv'
      BY <1>1, <2>1, <2>4, BooksRest
    <2>6. \A d \in DayDue..(DayDue' - 1) : ((d - 2) \div StepDays) + 1 \in missed'
      <3> SUFFICES ASSUME NEW d \in DayDue..(DayDue' - 1)
                   PROVE  ((d - 2) \div StepDays) + 1 = cursor.turn
        BY <2>1
      <3>1. d \in Nat /\ D + 2 <= d /\ d <= D + S + 1
        <4> HIDE DEF D, S
        <4> QED
          BY <2>2, <2>3
      <3> QED
        BY <2>2, <3>1, DaysOfTurn DEF DecisionDay
    <2>7. missed \subseteq missed' /\ missed' \subseteq 1..Turns
      <3>1. missed \subseteq 1..Turns
        BY <1>1, Zenon DEF DaysInv
      <3>2. cursor.turn \in 1..Turns
        BY <2>1, <2>2
      <3> QED
        BY <2>1, <3>1, <3>2, Zenon
    <2>8. DaysInv'
      BY <1>1, <2>1, <2>4, <2>6, <2>7, DaysRest
    <2> QED
      BY <2>3, <2>5, <2>8 DEF ReplayInv
  <1>3. CASE Decision
    <2>1. /\ cursor.stage = "decide" /\ cursor.turn <= Turns /\ cursor' = FirstMark
          /\ UNCHANGED <<walked, stopped, missed>>
      BY <1>3 DEF Decision
    <2>2. PICK target \in 0..Whole : Trade(target)
      <3>1. PICK wants \in BOOLEAN, clears \in BOOLEAN : \E target \in Targets(wants, clears) : Trade(target)
        BY <1>3 DEF Decision
      <3>2. Targets(wants, clears) \subseteq 0..Whole
        <4>1. Targets(wants, clears) = {0} \/ Targets(wants, clears) = 1..Whole
          BY Zenon DEF Targets
        <4> QED
          BY <4>1, ReplayAssumption
      <3> QED
        BY <3>1, <3>2
    <2>3. /\ ClockInv' /\ DecisionDay <= DecisionDay' /\ Room + 1 <= Room'
          /\ DayDue <= DayDue' /\ DayDue' \in Nat /\ DecisionDay' \in Nat /\ Room' \in Nat
          /\ \A d \in DayDue..(DayDue' - 1) : d >= EndDay
      BY <1>1, <2>1, AfterDecision
    <2>4. BooksInv'
      BY <1>1, <2>1, <2>2, <2>3, DecisionKeepsTheBooks
    <2>5. \A d \in DayDue..(DayDue' - 1) : ~(d < EndDay)
      <3> DEFINE f == DayDue
                 g == DayDue'
      <3>1. f \in Nat /\ g \in Nat /\ EndDay \in Nat /\ \A d \in f..(g - 1) : d >= EndDay
        BY <1>1, <2>3, TurnNumbers
      <3> HIDE DEF f, g
      <3>2. \A d \in f..(g - 1) : ~(d < EndDay)
        BY <3>1
      <3> QED
        BY <3>2 DEF f, g
    <2>6. DaysInv'
      <3>1. missed \subseteq missed' /\ missed' \subseteq 1..Turns
        BY <1>1, <2>1 DEF DaysInv
      <3> QED
        BY <1>1, <2>1, <2>3, <2>5, <3>1, DaysRest
    <2> QED
      BY <2>3, <2>4, <2>6 DEF ReplayInv
  <1>4. CASE MarkDay
    <2>1. /\ cursor.stage = "walk" /\ walked' = Append(walked, cursor.mark) /\ missed' = missed
          /\ \/ UNCHANGED <<stock, tally, stopped>>
             \/ /\ IsHeld(stock)
                /\ stock' = Empty /\ tally' = Counting({"switches", "direction", "stops"})
                /\ stopped' = stopped \cup {[day |-> cursor.mark, filled |-> stock.filled]}
          /\ cursor' = IF cursor.mark + 1 \in MarkedDays \cap 0..(EndDay - 1)
                       THEN [cursor EXCEPT !.mark = @ + 1] ELSE NextTurn
      BY <1>4 DEF MarkDay
    <2>2. /\ ClockInv' /\ DecisionDay <= DecisionDay' /\ Room + 1 <= Room'
          /\ DayDue <= DayDue' /\ DayDue' \in Nat /\ DecisionDay' \in Nat /\ Room' \in Nat
          /\ cursor.mark < DayDue' /\ \A d \in (cursor.mark + 1)..(DayDue' - 1) : d >= EndDay
      BY <1>1, <2>1, AfterMark
    <2>3. Room \in Nat /\ DecisionDay \in Nat /\ Whole \in Nat
      BY <1>1, TurnNumbers, ReplayAssumption
    <2>4. CASE UNCHANGED <<stock, tally, stopped>>
      <3>1. Room <= Room'
        BY <2>2, <2>3
      <3>2. BooksInv'
        BY <1>1, <2>2, <2>4, <3>1, BooksRest
      <3> QED
        BY <1>1, <2>1, <2>2, <3>2, DaysWalk DEF ReplayInv
    <2>5. CASE /\ IsHeld(stock)
               /\ stock' = Empty /\ tally' = Counting({"switches", "direction", "stops"})
               /\ stopped' = stopped \cup {[day |-> cursor.mark, filled |-> stock.filled]}
      <3> DEFINE after == Empty
                 kind == "stops"
      <3>1. after \in [share : 0..Whole, residue : BOOLEAN, filled : Nat] /\ after.filled <= DecisionDay + 1
        BY <2>3 DEF Empty
      <3>2. ~IsHeld(after)
        BY DEF IsHeld, Empty
      <3>3. (IF IsHeld(after) = IsHeld(stock) THEN "size" ELSE "direction") = "direction"
        <4>1. IsHeld(after) # IsHeld(stock)
          BY <2>5, <3>2
        <4> QED
          BY <4>1, Zenon
      <3>4. tally' = Counting({"switches", kind, IF IsHeld(after) = IsHeld(stock) THEN "size"
                                                 ELSE "direction"})
        <4>1. {"switches", "direction", "stops"} = {"switches", kind, "direction"}
          OBVIOUS
        <4> QED
          BY <2>5, <3>3, <4>1, Zenon
      <3>5. kind \in {"entries", "exits", "ups", "downs", "stops"} /\ stock' = after
        BY <2>5
      <3> HIDE DEF after
      <3>6. BooksInv'
        BY <1>1, <2>1, <2>2, <2>5, <3>1, <3>4, <3>5, BooksTrade
      <3> QED
        BY <1>1, <2>1, <2>2, <3>6, DaysWalk DEF ReplayInv
    <2> QED
      BY <2>1, <2>4, <2>5, Zenon
  <1>5. CASE WriteReport
    <2>1. /\ cursor.stage = "decide" /\ cursor' = [cursor EXCEPT !.stage = "report"]
          /\ UNCHANGED <<stock, tally, walked, stopped, missed, sales>>
      BY <1>5 DEF WriteReport
    <2>2. /\ cursor'.turn = cursor.turn /\ cursor'.stage = "report"
          /\ cursor' \in [turn : 1..(Turns + 1), stage : {"decide", "walk", "report"}, mark : 0..EndDay]
      BY <1>1, <2>1 DEF ClockInv
    <2>3. DecisionDay' = DecisionDay /\ Orders' = Orders
      BY <2>2, Zenon DEF DecisionDay, Orders
    <2>4. DayDue' = DayDue /\ Room' = Room
      <3>1. cursor.stage # "walk" /\ cursor'.stage # "walk"
        BY <2>1, <2>2
      <3> QED
        BY <2>3, <3>1, Zenon DEF DayDue, Room
    <2>5. ClockInv'
      BY <2>2 DEF ClockInv
    <2>6. BooksInv'
      BY <1>1, <2>1, <2>3, <2>4, Zenon DEF BooksInv
    <2>7. DaysInv'
      BY <1>1, <2>1, <2>4, Zenon DEF DaysInv
    <2> QED
      BY <2>5, <2>6, <2>7 DEF ReplayInv
  <1>6. CASE UNCHANGED replayVars
    <2>1. UNCHANGED <<cursor, stock, tally, walked, stopped, missed>>
      BY <1>6 DEF replayVars
    <2>2. DecisionDay' = DecisionDay /\ Orders' = Orders /\ MarkedDays' = MarkedDays
      BY <2>1, Zenon DEF DecisionDay, Orders, MarkedDays
    <2>3. DayDue' = DayDue /\ Room' = Room
      BY <2>1, <2>2, Zenon DEF DayDue, Room
    <2> QED
      BY <1>1, <2>1, <2>2, <2>3, Zenon DEF ReplayInv, ClockInv, BooksInv, DaysInv
  <1> QED
    BY <1>2, <1>3, <1>4, <1>5, <1>6, Zenon DEF ReplayNext

-----------------------------------------------------------------------------
\* The replay of recorded decisions under other rules.

\* How long after a decision its days are marked.
Lag == IF rules.fromFill THEN 2 ELSE 0

\* The days: where the decision in force is, and what was walked before it.
SpanInv ==
    /\ rules \in Variants
    /\ inForce \in [day : Nat, next : Nat, mark : Nat, end : Nat, part : 0..2]
    /\ inForce.day <= inForce.next /\ inForce.mark <= inForce.next + Lag
    /\ inForce.end <= inForce.next + Lag /\ inForce.end <= LastClose + 1
    /\ replayed \in Seq(Nat)
    /\ \A i \in 1..(Len(replayed) - 1) : replayed[i + 1] = replayed[i] + 1
    /\ inForce.mark < inForce.end \/ replayed # <<>> =>
         \/ inForce.end = inForce.next + Lag /\ inForce.mark <= inForce.end
         \/ LastClose < inForce.next + Lag
    /\ replayed # <<>> => replayed[Len(replayed)] = inForce.mark - 1 \/ LastClose < inForce.mark

\* The position and what the result counts of it.
StopsInv ==
    /\ position \in [part : 0..2, dust : BOOLEAN, born : Int]
    /\ Holds(position) => position.born <= inForce.day + 1 \/ position.born <= inForce.mark - 1
    /\ rules.fromFill /\ inForce.mark < inForce.end => inForce.mark >= inForce.day + 2
    /\ sinceStop \in Int
    /\ sinceStop # NoStop => /\ 0 <= sinceStop /\ sinceStop <= inForce.mark - 1
                             /\ inForce.mark <= inForce.end
    /\ result \in [Counts -> Nat] /\ early \in Nat
    /\ result["reentries"] + (IF sinceStop = NoStop THEN 0 ELSE 1) <= result["stops"]
    /\ early <= result["phantoms"] /\ result["phantoms"] <= result["stops"]
    /\ rules.fromFill => early = 0 /\ result["phantoms"] = 0

\* A regime takes effect only after the horizon it replaces.
FollowedIn(ls, i) ==
    LET was == ls[i - 1].used
    IN  ls[i].used # was =>
          \A k \in 0..(Persistence[was] - 1) : i - k > 1 /\ ls[i - k].seen = ls[i].used

LabelsInv ==
    /\ labels \in Seq([seen : PlanRegimes, used : PlanRegimes])
    /\ steady.now \in PlanRegimes \cup {NoStop} /\ steady.count \in Nat
    /\ labels = <<>> => steady.now = NoStop
    /\ labels # <<>> => steady.now = labels[Len(labels)].used
    /\ \A k \in 0..(steady.count - 1) : /\ Len(labels) - k > 1
                                        /\ labels[Len(labels) - k].seen = steady.pending
    /\ \A i \in 2..Len(labels) : FollowedIn(labels, i)

Steadies == [now : PlanRegimes \cup {NoStop}, pending : PlanRegimes \cup {NoStop}, count : Nat]

ExecutionInv == SpanInv /\ StopsInv /\ LabelsInv /\ steady \in Steadies

LEMMA ExecutionFollows == ExecutionInv => ExecutionTypeOK /\ VariantIsHonest
  <1> SUFFICES ASSUME ExecutionInv PROVE ExecutionTypeOK /\ VariantIsHonest
    OBVIOUS
  <1>1. SpanInv /\ StopsInv /\ LabelsInv
    BY DEF ExecutionInv
  <1>2. /\ result["stops"] \in Nat /\ result["phantoms"] \in Nat /\ result["reentries"] \in Nat
        /\ result.stops = result["stops"] /\ result.phantoms = result["phantoms"]
        /\ result.reentries = result["reentries"]
    BY <1>1 DEF StopsInv, Counts
  <1>3. /\ early \in Nat /\ sinceStop \in Int /\ early <= result.phantoms
        /\ result.phantoms <= result.stops
        /\ result.reentries + (IF sinceStop = NoStop THEN 0 ELSE 1) <= result.stops
        /\ rules.fromFill => early = 0 /\ result.phantoms = 0
        /\ position \in [part : 0..2, dust : BOOLEAN, born : Int]
    BY <1>1, <1>2, Zenon DEF StopsInv
  <1>4. early <= result.stops /\ result.reentries <= result.stops
    BY <1>2, <1>3
  <1>5. sinceStop \in NoStop..(LastClose + 1)
    <2>1. /\ sinceStop # NoStop => /\ 0 <= sinceStop /\ sinceStop <= inForce.mark - 1
                                   /\ inForce.mark <= inForce.end
          /\ inForce.mark \in Nat /\ inForce.end \in Nat /\ inForce.end <= LastClose + 1
      BY <1>1 DEF StopsInv, SpanInv
    <2> QED
      BY <1>3, <2>1, ReplayRuleAssumption DEF NoStop
  <1>6. position.part \in 0..2
    BY <1>3
  <1>7. ExecutionTypeOK
    BY <1>1, <1>4, <1>5, <1>6, Zenon DEF ExecutionTypeOK, SpanInv, LabelsInv
  <1>8. \A i \in 2..Len(labels) :
         LET was == labels[i - 1].used
         IN  labels[i].used # was =>
               \A k \in 0..(Persistence[was] - 1) :
                 i - k > 1 /\ labels[i - k].seen = labels[i].used
    BY <1>1, Zenon DEF LabelsInv, FollowedIn
  <1> QED
    BY <1>1, <1>3, <1>4, <1>7, <1>8, Zenon DEF VariantIsHonest, SpanInv

LEMMA ExecutionInitially == ExecutionInit => ExecutionInv
  <1> SUFFICES ASSUME ExecutionInit PROVE ExecutionInv
    OBVIOUS
  <1>1. /\ rules \in Variants
        /\ inForce = [day |-> 0, next |-> 0, mark |-> 0, end |-> 0, part |-> 0]
        /\ steady = [now |-> NoStop, pending |-> NoStop, count |-> 0]
        /\ position = Out /\ sinceStop = NoStop /\ result = [c \in Counts |-> 0]
        /\ labels = <<>> /\ replayed = <<>> /\ early = 0
    BY DEF ExecutionInit
  <1>2. Lag \in {0, 2} /\ LastClose \in Nat
    BY ReplayRuleAssumption DEF Lag
  <1>3. SpanInv
    BY <1>1, <1>2 DEF SpanInv
  <1>4. StopsInv
    <2>1. ~Holds(position) /\ position \in [part : 0..2, dust : BOOLEAN, born : Int]
      BY <1>1 DEF Holds, Out, NoStop
    <2>2. result \in [Counts -> Nat] /\ result["stops"] = 0 /\ result["phantoms"] = 0
          /\ result["reentries"] = 0
      BY <1>1 DEF Counts
    <2>3. inForce.mark = 0 /\ inForce.end = 0
      BY <1>1
    <2> QED
      BY <1>1, <2>1, <2>2, <2>3 DEF StopsInv, NoStop
  <1>5. LabelsInv
    BY <1>1 DEF LabelsInv
  <1>6. steady \in Steadies
    BY <1>1 DEF Steadies
  <1> QED
    BY <1>3, <1>4, <1>5, <1>6 DEF ExecutionInv

\* A day is walked: it is the one after the last.
LEMMA DayReplayed ==
    ASSUME SpanInv, inForce.mark < inForce.end, rules' = rules,
           inForce' = [inForce EXCEPT !.mark = @ + 1], replayed' = Append(replayed, inForce.mark)
    PROVE  SpanInv'
  <1> DEFINE m == inForce.mark
             e == inForce.end
             n == inForce.next
             g == Lag
             l == Len(replayed)
  <1>1. /\ inForce \in [day : Nat, next : Nat, mark : Nat, end : Nat, part : 0..2]
        /\ inForce.day <= n /\ m <= n + g /\ e <= n + g /\ e <= LastClose + 1
        /\ replayed \in Seq(Nat)
        /\ \A i \in 1..(l - 1) : replayed[i + 1] = replayed[i] + 1
        /\ (e = n + g /\ m <= e) \/ LastClose < n + g
        /\ replayed # <<>> => replayed[l] = m - 1 \/ LastClose < m
    BY Zenon DEF SpanInv
  <1>2. /\ inForce' \in [day : Nat, next : Nat, mark : Nat, end : Nat, part : 0..2]
        /\ inForce'.day = inForce.day /\ inForce'.next = n /\ inForce'.mark = m + 1
        /\ inForce'.end = e
    BY <1>1
  <1>3. Lag' = g /\ g \in Nat
    <2>1. Lag' = g
      BY Zenon DEF Lag
    <2> QED
      BY <2>1 DEF Lag
  <1>4. m \in Nat /\ e \in Nat /\ n \in Nat /\ LastClose \in Nat /\ m < e
    BY <1>1, ReplayRuleAssumption
  <1>5. replayed' = Append(replayed, m)
    OBVIOUS
  <1> HIDE DEF m, e, n, g
  <1>6. /\ l \in Nat /\ replayed' \in Seq(Nat) /\ Len(replayed') = l + 1 /\ replayed'[l + 1] = m
        /\ \A i \in 1..l : replayed'[i] = replayed[i]
        /\ replayed' # <<>> /\ (l # 0 => replayed # <<>>)
    BY ONLY <1>1, <1>4, <1>5, SMTT(30)
  <1>7. l # 0 => replayed[l] = m - 1
    BY <1>1, <1>4, <1>6
  <1>8. \A i \in 1..(Len(replayed') - 1) : replayed'[i + 1] = replayed'[i] + 1
    <2>0. Len(replayed') - 1 = l
      BY <1>6
    <2> SUFFICES ASSUME NEW i \in 1..l PROVE replayed'[i + 1] = replayed'[i] + 1
      BY <2>0
    <2>1. CASE i = l
      BY <1>4, <1>6, <1>7, <2>1
    <2>2. CASE i # l
      <3>1. i \in 1..(l - 1) /\ i + 1 \in 1..l
        BY <1>6, <2>2, SMTT(20)
      <3> QED
        BY <1>1, <1>6, <3>1
    <2> QED
      BY <2>1, <2>2
  <1>9. replayed'[Len(replayed')] = m + 1 - 1
    BY <1>4, <1>6
  <1>10. m + 1 <= n + g /\ m + 1 <= e
    BY <1>1, <1>3, <1>4
  <1> QED
    <2>1. /\ inForce'.day <= inForce'.next /\ inForce'.mark <= inForce'.next + Lag'
          /\ inForce'.end <= inForce'.next + Lag' /\ inForce'.end <= LastClose + 1
      BY <1>1, <1>2, <1>3, <1>10, Zenon
    <2>2. \/ inForce'.end = inForce'.next + Lag' /\ inForce'.mark <= inForce'.end
          \/ LastClose < inForce'.next + Lag'
      BY <1>1, <1>2, <1>3, <1>10, Zenon
    <2>3. replayed'[Len(replayed')] = inForce'.mark - 1
      BY <1>2, <1>4, <1>9
    <2>4. rules' \in Variants
      BY Zenon DEF SpanInv
    <2> QED
      BY <1>2, <1>6, <1>8, <2>1, <2>2, <2>3, <2>4, Zenon DEF SpanInv

\* The next decision: its days go on where those before it ended, or there are none left.
LEMMA DecisionSpans ==
    ASSUME SpanInv, NEW step \in Steps, NEW portion \in 0..2, inForce.mark >= inForce.end,
           inForce.next <= LastClose, rules' = rules, replayed' = replayed,
           inForce' = [day |-> inForce.next, next |-> inForce.next + step,
                       mark |-> MarkFrom(inForce.next),
                       end |-> (IF MarkTo(inForce.next, step) <= LastClose
                                THEN MarkTo(inForce.next, step) ELSE LastClose) + 1,
                       part |-> portion]
    PROVE  /\ SpanInv' /\ inForce'.day = inForce.next
           /\ (rules.fromFill => inForce'.mark = inForce'.day + 2)
           /\ inForce.mark <= inForce.next + 2
  <1> DEFINE m == inForce.mark
             e == inForce.end
             n == inForce.next
             g == Lag
             to == n + step + g - 1
             last == IF to <= LastClose THEN to ELSE LastClose
             r == replayed[Len(replayed)]
  <1>1. /\ inForce \in [day : Nat, next : Nat, mark : Nat, end : Nat, part : 0..2]
        /\ m <= n + g /\ e <= n + g /\ e <= LastClose + 1
        /\ replayed # <<>> => (e = n + g /\ m <= e) \/ LastClose < n + g
        /\ replayed # <<>> => r = m - 1 \/ LastClose < m
        /\ rules \in Variants /\ replayed \in Seq(Nat)
        /\ \A i \in 1..(Len(replayed) - 1) : replayed[i + 1] = replayed[i] + 1
    BY Zenon DEF SpanInv
  <1>2. Lag' = g /\ g \in {0, 2} /\ (rules.fromFill => g = 2)
    <2>1. Lag' = g
      BY Zenon DEF Lag
    <2> QED
      BY <2>1 DEF Lag
  <1>3. m \in Nat /\ e \in Nat /\ n \in Nat /\ LastClose \in Nat /\ step \in Nat /\ step >= 1
        /\ m >= e
    BY <1>1, ReplayRuleAssumption
  <1>4. MarkFrom(n) = n + g /\ MarkTo(n, step) = to
    <2>1. CASE rules.fromFill
      <3>1. g = 2 /\ MarkFrom(n) = n + 2 /\ MarkTo(n, step) = n + step + 1
        BY <2>1, Zenon DEF MarkFrom, MarkTo, Lag
      <3> HIDE DEF g, n
      <3> QED
        BY <1>3, <3>1
    <2>2. CASE ~rules.fromFill
      <3>1. g = 0 /\ MarkFrom(n) = n /\ MarkTo(n, step) = n + step + -1
        BY <2>2, Zenon DEF MarkFrom, MarkTo, Lag
      <3> HIDE DEF g, n
      <3> QED
        BY <1>3, <3>1
    <2> QED
      BY <2>1, <2>2
  <1>5. inForce' = [day |-> n, next |-> n + step, mark |-> n + g, end |-> last + 1, part |-> portion]
    BY <1>4, Zenon
  <1>6. /\ inForce'.day = n /\ inForce'.next = n + step /\ inForce'.mark = n + g
        /\ inForce'.end = last + 1 /\ inForce'.part = portion
    BY <1>5
  <1> HIDE DEF m, e, n, g, to, r
  <1>7. to \in Nat /\ last \in Nat /\ last <= to /\ last <= LastClose /\ to + 1 = n + step + g
    BY <1>2, <1>3 DEF to
  <1>8. last = to \/ LastClose < to
    BY <1>3, <1>7
  <1> HIDE DEF last
  <1>9. inForce' \in [day : Nat, next : Nat, mark : Nat, end : Nat, part : 0..2]
    BY <1>2, <1>3, <1>5, <1>7
  <1>10. /\ n <= n + step /\ n + g <= n + step + g /\ last + 1 <= n + step + g
         /\ last + 1 <= LastClose + 1
         /\ (last + 1 = n + step + g /\ n + g <= last + 1) \/ LastClose < n + step + g
    BY <1>2, <1>3, <1>7, <1>8
  <1>11. replayed # <<>> => r = n + g - 1 \/ LastClose < n + g
    <2> SUFFICES ASSUME replayed # <<>> PROVE r = n + g - 1 \/ LastClose < n + g
      OBVIOUS
    <2>1. /\ (e = n + g /\ m <= e) \/ LastClose < n + g
          /\ r = m - 1 \/ LastClose < m
          /\ m <= n + g
      BY <1>1, Zenon
    <2>2. CASE m = n + g
      <3>1. m - 1 = n + g - 1
        BY <1>2, <1>3, <2>2
      <3> QED
        BY <2>1, <2>2, <3>1, Zenon
    <2>3. CASE LastClose < n + g
      BY <2>3
    <2> QED
      BY <1>2, <1>3, <2>1, <2>2, <2>3
  <1>12. m <= n + 2 /\ (rules.fromFill => n + g = n + 2)
    BY <1>1, <1>2, <1>3
  <1>13. SpanInv'
    <2>1. /\ inForce'.day <= inForce'.next /\ inForce'.mark <= inForce'.next + Lag'
          /\ inForce'.end <= inForce'.next + Lag' /\ inForce'.end <= LastClose + 1
      BY <1>2, <1>6, <1>10, Zenon
    <2>2. \/ inForce'.end = inForce'.next + Lag' /\ inForce'.mark <= inForce'.end
          \/ LastClose < inForce'.next + Lag'
      BY <1>2, <1>6, <1>10, Zenon
    <2>3. replayed' # <<>> => replayed'[Len(replayed')] = inForce'.mark - 1 \/ LastClose < inForce'.mark
      <3>1. replayed'[Len(replayed')] = r /\ inForce'.mark - 1 = n + g - 1 /\ inForce'.mark = n + g
        BY <1>2, <1>3, <1>6 DEF r
      <3> QED
        BY <1>11, <3>1, replayed' = replayed
    <2> QED
      BY <1>1, <1>9, <2>1, <2>2, <2>3, Zenon DEF SpanInv
  <1> QED
    BY <1>6, <1>12, <1>13, Zenon DEF m, n

\* What a reading does to the regime that has persisted.
LEMMA Persisted ==
    ASSUME NEW s, NEW reading, s.now # NoStop, reading # s.now
    PROVE  LET times == IF reading = s.pending THEN s.count + 1 ELSE 1
           IN  \/ /\ times >= Persistence[s.now]
                  /\ Persist(s, reading) = [now |-> reading, pending |-> NoStop, count |-> 0]
               \/ /\ ~(times >= Persistence[s.now])
                  /\ Persist(s, reading) = [s EXCEPT !.pending = reading, !.count = times]
  BY Zenon DEF Persist

\* A decision is labelled.
LEMMA DecisionLabelled ==
    ASSUME LabelsInv, NEW reading \in PlanRegimes,
           steady \in [now : PlanRegimes \cup {NoStop}, pending : PlanRegimes \cup {NoStop}, count : Nat],
           steady' = Persist(steady, reading),
           labels' = Append(labels, [seen |-> reading, used |-> Persist(steady, reading).now])
    PROVE  /\ LabelsInv' /\ steady'.now \in PlanRegimes
           /\ steady' \in [now : PlanRegimes \cup {NoStop}, pending : PlanRegimes \cup {NoStop}, count : Nat]
  <1> DEFINE n == Len(labels)
             Regime == PlanRegimes \cup {NoStop}
             times == IF reading = steady.pending THEN steady.count + 1 ELSE 1
             now == Persist(steady, reading)
             t == [seen |-> reading, used |-> now.now]
  <1>0. PlanRegimes \subseteq Nat /\ NoStop \notin PlanRegimes /\ Persistence \in [PlanRegimes -> Nat \ {0}]
    BY ReplayRuleAssumption DEF NoStop
  <1>1. /\ labels \in Seq([seen : PlanRegimes, used : PlanRegimes]) /\ n \in Nat
        /\ labels = <<>> => steady.now = NoStop
        /\ labels # <<>> => steady.now = labels[n].used
        /\ \A k \in 0..(steady.count - 1) : n - k > 1 /\ labels[n - k].seen = steady.pending
        /\ \A i \in 2..n : FollowedIn(labels, i)
        /\ steady.count \in Nat /\ steady.now \in Regime /\ steady.pending \in Regime
    BY DEF LabelsInv
  <1>2. reading # NoStop /\ reading \in Regime /\ times \in Nat
    <2>1. steady.count + 1 \in Nat /\ 1 \in Nat
      BY <1>1
    <2> QED
      BY <1>0, <2>1
  <1>3. /\ \/ now = [now |-> reading, pending |-> NoStop, count |-> 0]
           \/ /\ steady.now # NoStop /\ reading # steady.now /\ ~(times >= Persistence[steady.now])
              /\ now = [steady EXCEPT !.pending = reading, !.count = times]
        /\ steady.now # NoStop /\ now.now # steady.now => times >= Persistence[steady.now]
    <2>1. CASE steady.now = NoStop \/ reading = steady.now
      <3>1. now = [now |-> reading, pending |-> NoStop, count |-> 0]
        BY <2>1, Zenon DEF Persist
      <3>2. now.now = reading
        BY <3>1
      <3> QED
        BY <2>1, <3>1, <3>2, Zenon
    <2>2. CASE steady.now # NoStop /\ reading # steady.now
      <3>1. \/ /\ times >= Persistence[steady.now]
               /\ now = [now |-> reading, pending |-> NoStop, count |-> 0]
            \/ /\ ~(times >= Persistence[steady.now])
               /\ now = [steady EXCEPT !.pending = reading, !.count = times]
        BY <2>2, Persisted, Zenon
      <3>2. now = [steady EXCEPT !.pending = reading, !.count = times] => now.now = steady.now
        <4> HIDE DEF times, now
        <4> QED
          OBVIOUS
      <3> QED
        BY <2>2, <3>1, <3>2, Zenon
    <2> QED
      BY <2>1, <2>2, Zenon
  <1>4. now \in [now : Regime, pending : Regime, count : Nat] /\ now.now \in PlanRegimes
        /\ (now.count # 0 => now.count = times /\ now.pending = reading /\ steady.now # NoStop)
        /\ (now.now # steady.now => now.now = reading)
    <2> HIDE DEF times, now
    <2>1. CASE now = [now |-> reading, pending |-> NoStop, count |-> 0]
      <3>1. now.now = reading /\ now.count = 0
        BY <2>1
      <3> QED
        BY <1>2, <2>1, <3>1
    <2>2. CASE /\ steady.now # NoStop /\ reading # steady.now
               /\ now = [steady EXCEPT !.pending = reading, !.count = times]
      <3>1. now = [now |-> steady.now, pending |-> reading, count |-> times]
        BY <2>2
      <3>2. now.now = steady.now /\ now.pending = reading /\ now.count = times
        BY <3>1
      <3>3. steady.now \in PlanRegimes
        BY <1>1, <2>2
      <3> QED
        BY <1>1, <1>2, <2>2, <3>1, <3>2, <3>3
    <2> QED
      BY <1>3, <2>1, <2>2
  <1>5. /\ labels' \in Seq([seen : PlanRegimes, used : PlanRegimes]) /\ Len(labels') = n + 1
        /\ labels' # <<>> /\ labels'[n + 1] = t /\ t.seen = reading /\ t.used = now.now
        /\ \A i \in 1..n : labels'[i] = labels[i]
    <2> DEFINE u == t
    <2>1. u \in [seen : PlanRegimes, used : PlanRegimes] /\ u.seen = reading /\ u.used = now.now
      <3> HIDE DEF now
      <3> QED
        BY <1>4
    <2>2. labels' = Append(labels, u)
      OBVIOUS
    <2> HIDE DEF u
    <2>3. /\ labels' \in Seq([seen : PlanRegimes, used : PlanRegimes]) /\ Len(labels') = n + 1
          /\ labels' # <<>> /\ labels'[n + 1] = u
          /\ \A i \in 1..n : labels'[i] = labels[i]
      BY <1>1, <2>1, <2>2
    <2> QED
      BY <2>1, <2>3, Zenon DEF u
  \* The decisions that saw the reading, this one and those that were waiting for it.
  <1>6. ASSUME steady.now # NoStop, NEW k \in 0..(times - 1)
        PROVE  n + 1 - k > 1 /\ labels'[n + 1 - k].seen = reading
    <2>1. n # 0
      BY <1>1, <1>6
    <2>2. CASE k = 0
      <3>1. n + 1 - k = n + 1 /\ n + 1 > 1
        BY <1>1, <2>1, <2>2
      <3> QED
        BY <1>5, <3>1, Zenon
    <2>3. CASE k # 0
      <3>1. reading = steady.pending /\ k - 1 \in 0..(steady.count - 1)
        BY <1>1, <1>6, <2>3
      <3> DEFINE j == n - (k - 1)
      <3>2. j > 1 /\ labels[j].seen = steady.pending
        BY <1>1, <3>1
      <3>3. j \in 1..n /\ n + 1 - k = j
        BY <1>1, <1>2, <1>6, <3>1, <3>2, SMTT(20)
      <3> HIDE DEF j
      <3> QED
        BY <1>5, <3>1, <3>2, <3>3, Zenon
    <2> QED
      BY <2>2, <2>3
  <1>7. FollowedIn(labels', n + 1) \/ n = 0
    <2> SUFFICES ASSUME n # 0 PROVE FollowedIn(labels', n + 1)
      OBVIOUS
    <2> DEFINE was == labels'[n].used
    <2>1. n \in 1..n /\ n + 1 - 1 = n /\ labels # <<>>
      BY <1>1
    <2>2. was = steady.now
      BY <1>1, <1>5, <2>1, Zenon
    <2>3. steady.now \in PlanRegimes
      <3>1. labels[n] \in [seen : PlanRegimes, used : PlanRegimes]
        BY <1>1, <2>1, ElementOfSeq
      <3>2. labels[n].used \in PlanRegimes
        BY <3>1
      <3> QED
        BY <1>1, <2>1, <3>2
    <2>4. ASSUME now.now # steady.now, NEW k \in 0..(Persistence[steady.now] - 1)
          PROVE  n + 1 - k > 1 /\ labels'[n + 1 - k].seen = now.now
      <3>1. steady.now # NoStop
        BY <1>0, <2>3, Zenon
      <3>2. times >= Persistence[steady.now] /\ now.now = reading
        BY <1>3, <1>4, <2>4, <3>1, Zenon
      <3>3. k \in 0..(times - 1)
        <4>1. Persistence[steady.now] \in Nat
          BY <1>0, <2>3
        <4> HIDE DEF times, now
        <4> QED
          BY <1>2, <3>2, <4>1
      <3> QED
        BY <1>6, <3>1, <3>2, <3>3, Zenon
    <2> DEFINE i == n + 1
               ls == labels'
    <2>5. ls[i].used = now.now /\ ls[i - 1].used = steady.now
      <3>1. ls[i].used = now.now
        BY <1>5, Zenon
      <3>2. ls[i - 1].used = was
        <4>1. n \in Nat
          BY <1>1
        <4> HIDE DEF n
        <4>2. i - 1 = n
          BY <4>1
        <4> HIDE DEF i
        <4> QED
          BY <4>2, Zenon
      <3> QED
        BY <2>2, <3>1, <3>2, Zenon
    <2>6. \A k \in 0..(Persistence[steady.now] - 1) :
            now.now # steady.now => i - k > 1 /\ ls[i - k].seen = now.now
      BY <2>4
    <2> HIDE DEF now, i, ls
    <2>7. FollowedIn(ls, i)
      BY <2>5, <2>6, Zenon DEF FollowedIn
    <2> QED
      BY <2>7 DEF ls, i
  <1>8. ASSUME NEW i \in 2..n PROVE FollowedIn(labels', i)
    <2>1. FollowedIn(labels, i) /\ i \in 1..n /\ i - 1 \in 1..n
      BY <1>1
    <2>2. labels'[i] = labels[i] /\ labels'[i - 1] = labels[i - 1]
      BY <1>5, <2>1, Zenon
    <2> SUFFICES ASSUME labels[i].used # labels[i - 1].used,
                        NEW k \in 0..(Persistence[labels[i - 1].used] - 1)
                 PROVE  i - k > 1 /\ labels'[i - k].seen = labels[i].used
      BY <2>2, Zenon DEF FollowedIn
    <2>3. i - k > 1 /\ labels[i - k].seen = labels[i].used
      BY <2>1, Zenon DEF FollowedIn
    <2>4. i - k \in 1..n
      <3>1. k \in Nat
        OBVIOUS
      <3> QED
        BY <1>1, <2>3, <3>1
    <2> QED
      BY <1>5, <2>3, <2>4, Zenon
  <1>9. \A i \in 2..Len(labels') : FollowedIn(labels', i)
    <2> SUFFICES ASSUME NEW i \in 2..(n + 1) PROVE FollowedIn(labels', i)
      BY <1>5
    <2>1. i \in 2..n \/ (i = n + 1 /\ n # 0)
      BY <1>1
    <2> QED
      BY <1>7, <1>8, <2>1, Zenon
  <1>10. ASSUME NEW k \in 0..(now.count - 1)
         PROVE  Len(labels') - k > 1 /\ labels'[Len(labels') - k].seen = now.pending
    <2> HIDE DEF now, times
    <2>1. now.count \in Nat
      BY <1>4
    <2>2. now.count # 0
      BY <1>10, <2>1
    <2>3. now.count = times /\ now.pending = reading /\ steady.now # NoStop
      BY <1>4, <2>2, Zenon
    <2>4. k \in 0..(times - 1)
      BY <1>10, <2>3, Zenon
    <2> QED
      <3>1. n + 1 - k > 1 /\ labels'[n + 1 - k].seen = reading
        BY <1>6, <2>3, <2>4
      <3>2. Len(labels') = n + 1
        BY <1>5
      <3> QED
        BY <2>3, <3>1, <3>2
  <1>11. steady' = now /\ labels'[Len(labels')].used = now.now
    BY <1>5, Zenon
  <1> HIDE DEF now, times, t
  <1>12. now.count \in Nat
    BY <1>4
  <1>13. LabelsInv'
    BY <1>4, <1>5, <1>9, <1>10, <1>11, <1>12, Zenon DEF LabelsInv
  <1> QED
    BY <1>4, <1>11, <1>13, Zenon

\* What one bar counts.
LEMMA BarCounts ==
    ASSUME result \in [Counts -> Nat], NEW stops \in BOOLEAN, NEW phantom \in BOOLEAN,
           NEW enters \in BOOLEAN,
           result' = Plus(result, (IF stops THEN {"stops"} ELSE {})
                                    \cup (IF stops /\ phantom THEN {"phantoms"} ELSE {})
                                    \cup (IF enters THEN {"reentries"} ELSE {}))
    PROVE  /\ result' \in [Counts -> Nat]
           /\ result["stops"] \in Nat /\ result["phantoms"] \in Nat /\ result["reentries"] \in Nat
           /\ result'["stops"] = result["stops"] + IF stops THEN 1 ELSE 0
           /\ result'["phantoms"] = result["phantoms"] + IF stops /\ phantom THEN 1 ELSE 0
           /\ result'["reentries"] = result["reentries"] + IF enters THEN 1 ELSE 0
  <1> DEFINE names == (IF stops THEN {"stops"} ELSE {})
                        \cup (IF stops /\ phantom THEN {"phantoms"} ELSE {})
                        \cup (IF enters THEN {"reentries"} ELSE {})
  <1>1. /\ "stops" \in names <=> stops
        /\ "phantoms" \in names <=> stops /\ phantom
        /\ "reentries" \in names <=> enters
    OBVIOUS
  <1>2. result' = [c \in Counts |-> result[c] + IF c \in names THEN 1 ELSE 0]
    BY Zenon DEF Plus
  <1> HIDE DEF names
  <1>3. "stops" \in Counts /\ "phantoms" \in Counts /\ "reentries" \in Counts
    BY DEF Counts
  <1>4. /\ result'["stops"] = result["stops"] + IF "stops" \in names THEN 1 ELSE 0
        /\ result'["phantoms"] = result["phantoms"] + IF "phantoms" \in names THEN 1 ELSE 0
        /\ result'["reentries"] = result["reentries"] + IF "reentries" \in names THEN 1 ELSE 0
    BY <1>2, <1>3
  <1>5. result' \in [Counts -> Nat]
    BY <1>2
  <1> QED
    BY <1>1, <1>3, <1>4, <1>5

LEMMA BarReplayed ==
    ASSUME SpanInv, StopsInv, inForce.mark < inForce.end, rules' = rules,
           inForce' = [inForce EXCEPT !.mark = @ + 1], NEW crosses \in BOOLEAN, Bar(crosses)
    PROVE  StopsInv'
  <1> DEFINE m == inForce.mark
             d == inForce.day
             e == inForce.end
             stops == Holds(position) /\ rules.useStop /\ crosses
             phantom == m < d + 2
             enters == ~Holds(position) /\ Waited /\ inForce.part > 0
  <1>1. /\ inForce \in [day : Nat, next : Nat, mark : Nat, end : Nat, part : 0..2]
        /\ position \in [part : 0..2, dust : BOOLEAN, born : Int]
        /\ Holds(position) => position.born <= d + 1 \/ position.born <= m - 1
        /\ rules.fromFill => m >= d + 2
        /\ sinceStop \in Int
        /\ sinceStop # NoStop => 0 <= sinceStop /\ sinceStop <= m - 1
        /\ result \in [Counts -> Nat] /\ early \in Nat
        /\ result["reentries"] + (IF sinceStop = NoStop THEN 0 ELSE 1) <= result["stops"]
        /\ early <= result["phantoms"] /\ result["phantoms"] <= result["stops"]
        /\ rules.fromFill => early = 0 /\ result["phantoms"] = 0
    BY Zenon DEF SpanInv, StopsInv
  <1>2. m \in Nat /\ d \in Nat /\ e \in Nat /\ m < e /\ position.born \in Int /\ inForce.part \in 0..2
    BY <1>1
  <1>3. /\ inForce'.mark = m + 1 /\ inForce'.day = d /\ inForce'.end = e
    BY <1>1
  <1>4. /\ position' = IF stops THEN Out
                       ELSE IF enters THEN Purchased(position, inForce.part, m) ELSE position
        /\ sinceStop' = IF stops THEN 0
                        ELSE IF enters \/ sinceStop = NoStop THEN NoStop ELSE sinceStop + 1
        /\ result' = Plus(result, (IF stops THEN {"stops"} ELSE {})
                                    \cup (IF stops /\ phantom THEN {"phantoms"} ELSE {})
                                    \cup (IF enters THEN {"reentries"} ELSE {}))
        /\ early' = early + IF stops /\ m <= position.born THEN 1 ELSE 0
    BY Zenon DEF Bar
  <1>5. stops => Holds(position)
    BY Zenon
  <1>6. enters => ~Holds(position) /\ sinceStop # NoStop
    BY Zenon DEF Waited
  <1>7. stops \in BOOLEAN /\ phantom \in BOOLEAN /\ enters \in BOOLEAN
    <2>1. stops \in BOOLEAN /\ enters \in BOOLEAN
      OBVIOUS
    <2>2. phantom \in BOOLEAN
      BY <1>2
    <2> QED
      BY <2>1, <2>2, Zenon
  <1>8. inForce'.mark <= inForce'.end
    BY <1>2, <1>3
  <1> DEFINE st == result["stops"]
             ph == result["phantoms"]
             re == result["reentries"]
  <1> HIDE DEF m, d, e, stops, phantom, enters
  <1>9. /\ result' \in [Counts -> Nat] /\ st \in Nat /\ ph \in Nat /\ re \in Nat
        /\ result'["stops"] = st + IF stops THEN 1 ELSE 0
        /\ result'["phantoms"] = ph + IF stops /\ phantom THEN 1 ELSE 0
        /\ result'["reentries"] = re + IF enters THEN 1 ELSE 0
    BY <1>1, <1>4, <1>7, BarCounts
  <1> DEFINE Kept_ == /\ position' \in [part : 0..2, dust : BOOLEAN, born : Int]
                      /\ Holds(position') => position'.born <= d + 1 \/ position'.born <= m
                      /\ sinceStop' \in Int
                      /\ sinceStop' # NoStop => 0 <= sinceStop' /\ sinceStop' <= m
                      /\ early' \in Nat
                      /\ result'["reentries"] + (IF sinceStop' = NoStop THEN 0 ELSE 1) <= result'["stops"]
                      /\ early' <= result'["phantoms"] /\ result'["phantoms"] <= result'["stops"]
                      /\ rules.fromFill => early' = 0 /\ result'["phantoms"] = 0
  <1>10. ASSUME stops PROVE Kept_
    <2>1. /\ position' = Out /\ sinceStop' = 0 /\ ~enters
          /\ early' = early + IF m <= position.born THEN 1 ELSE 0
          /\ result'["stops"] = st + 1 /\ result'["phantoms"] = ph + IF phantom THEN 1 ELSE 0
          /\ result'["reentries"] = re + 0
      BY <1>4, <1>5, <1>6, <1>9, <1>10, Zenon
    <2>2. ~Holds(position') /\ position' \in [part : 0..2, dust : BOOLEAN, born : Int]
      BY <2>1 DEF Holds, Out, NoStop
    <2>3. position.born <= d + 1 \/ position.born <= m - 1
      BY <1>1, <1>5, <1>10, Zenon
    <2>4. m <= position.born => phantom
      BY <1>2, <2>3 DEF phantom
    <2>5. rules.fromFill => ~phantom /\ early' = 0 /\ result'["phantoms"] = 0
      <3> SUFFICES ASSUME rules.fromFill PROVE ~phantom /\ early' = 0 /\ result'["phantoms"] = 0
        BY Zenon
      <3>1. m >= d + 2 /\ early = 0 /\ ph = 0
        BY <1>1, Zenon
      <3>2. ~phantom
        BY <1>2, <3>1 DEF phantom
      <3>3. ~(m <= position.born)
        BY <2>4, <3>2, Zenon
      <3>4. early' = early + 0 /\ result'["phantoms"] = ph + 0
        BY <2>1, <3>2, <3>3, Zenon
      <3> QED
        BY <3>1, <3>2, <3>4
    <2>6. early' \in Nat /\ early' <= result'["phantoms"] /\ result'["phantoms"] <= result'["stops"]
      <3>1. early \in Nat /\ early <= ph /\ ph <= st
        BY <1>1, Zenon
      <3> HIDE DEF st, ph, re
      <3> QED
        BY <1>9, <2>1, <2>4, <3>1
    <2>7. result'["reentries"] + 1 <= result'["stops"]
      <3>1. re + (IF sinceStop = NoStop THEN 0 ELSE 1) <= st
        BY <1>1, Zenon
      <3> HIDE DEF st, ph, re
      <3> QED
        BY <1>9, <2>1, <3>1
    <2>8. 0 # NoStop /\ 0 <= m
      BY <1>2 DEF NoStop
    <2>9. sinceStop' \in Int /\ 0 <= sinceStop' /\ sinceStop' <= m /\ sinceStop' # NoStop
      BY <1>2, <2>1, <2>8
    <2> QED
      BY <2>2, <2>5, <2>6, <2>7, <2>9, Zenon
  <1>11. ASSUME ~stops, enters PROVE Kept_
    <2>1. /\ position' = Purchased(position, inForce.part, m) /\ sinceStop' = NoStop
          /\ early' = early + 0 /\ ~Holds(position) /\ sinceStop # NoStop
          /\ result'["stops"] = st + 0 /\ result'["phantoms"] = ph + 0
          /\ result'["reentries"] = re + 1
      BY <1>4, <1>6, <1>9, <1>11, Zenon
    <2>2. position' = [part |-> inForce.part, dust |-> FALSE, born |-> m]
      BY <2>1, Zenon DEF Purchased
    <2>3. position' \in [part : 0..2, dust : BOOLEAN, born : Int] /\ position'.born = m
      BY <1>2, <2>2
    <2>4. position'.born <= m
      BY <1>2, <2>3
    <2>5. sinceStop' \in Int
      BY <2>1 DEF NoStop
    <2>6. /\ re + 1 <= st /\ early \in Nat /\ early <= ph /\ ph <= st
          /\ rules.fromFill => early = 0 /\ ph = 0
      BY <1>1, <2>1, Zenon
    <2>7. /\ early' = early /\ result'["phantoms"] = ph /\ result'["stops"] = st
          /\ result'["reentries"] + 0 <= result'["stops"]
      <3> HIDE DEF st, ph, re
      <3> QED
        BY <1>9, <2>1, <2>6
    <2> QED
      BY <2>1, <2>3, <2>4, <2>5, <2>6, <2>7, Zenon
  <1>12. ASSUME ~stops, ~enters PROVE Kept_
    <2>1. /\ position' = position /\ early' = early + 0
          /\ sinceStop' = IF sinceStop = NoStop THEN NoStop ELSE sinceStop + 1
          /\ result'["stops"] = st + 0 /\ result'["phantoms"] = ph + 0
          /\ result'["reentries"] = re + 0
      BY <1>4, <1>9, <1>12, Zenon
    <2>2. Holds(position') => position'.born <= d + 1 \/ position'.born <= m
      <3>1. Holds(position) => position.born <= d + 1 \/ position.born <= m - 1
        BY <1>1, Zenon
      <3>2. position.born <= m - 1 => position.born <= m
        BY <1>2
      <3> QED
        BY <2>1, <3>1, <3>2, Zenon
    <2>3. /\ sinceStop' \in Int /\ (sinceStop' = NoStop <=> sinceStop = NoStop)
          /\ sinceStop' # NoStop => 0 <= sinceStop' /\ sinceStop' <= m
      <3>1. /\ sinceStop \in Int
            /\ sinceStop # NoStop => 0 <= sinceStop /\ sinceStop <= m - 1
        BY <1>1, Zenon
      <3> QED
        BY <1>2, <2>1, <3>1 DEF NoStop
    <2>4. /\ early' = early /\ result'["phantoms"] = ph /\ result'["stops"] = st
          /\ result'["reentries"] = re
      <3>1. early \in Nat
        BY <1>1
      <3> HIDE DEF st, ph, re
      <3> QED
        BY <1>9, <2>1, <3>1
    <2> QED
      BY <1>1, <2>1, <2>2, <2>3, <2>4, Zenon
  <1>13. Kept_
    BY <1>10, <1>11, <1>12, Zenon
  <1>14. m = inForce'.mark - 1 /\ d = inForce'.day
    BY <1>2, <1>3
  <1>15. rules'.fromFill /\ inForce'.mark < inForce'.end => inForce'.mark >= inForce'.day + 2
    <2>1. rules.fromFill => m >= d + 2
      BY <1>1, Zenon
    <2>2. m >= d + 2 => m + 1 >= d + 2
      BY <1>2
    <2> QED
      BY <1>3, <2>1, <2>2, rules' = rules, Zenon
  <1> QED
    BY <1>8, <1>9, <1>13, <1>14, <1>15, Zenon DEF StopsInv

\* The exposure of a decision, in halves.
LEMMA FractionIsHalves ==
    ASSUME NEW reading, NEW effective, NEW asked, NEW took, NEW conviction
    PROVE  Fraction(reading, effective, asked, took, conviction) \in 0..2
  <1>1. Fraction(reading, effective, asked, took, conviction) \in {0, 1, 2}
    BY Zenon DEF Fraction
  <1> QED
    BY <1>1

\* What a decision leaves of the position.
LEMMA DecisionBuys ==
    ASSUME SpanInv, StopsInv, NEW portion \in 0..2, inForce.next <= LastClose,
           inForce'.day = inForce.next, inForce.mark <= inForce.next + 2,
           rules' = rules, rules.fromFill => inForce'.mark = inForce'.day + 2,
           result' = result, early' = early, sinceStop' = NoStop,
           \/ \E day \in Int : day <= inForce.next + 1 /\ position' = Purchased(position, portion, day)
           \/ position.part > 0 /\ \E rest \in BOOLEAN : position' = Liquidated(position, rest)
           \/ UNCHANGED position
    PROVE  StopsInv'
  <1> DEFINE n == inForce.next
             m == inForce.mark
             d == inForce.day
  <1>1. /\ inForce \in [day : Nat, next : Nat, mark : Nat, end : Nat, part : 0..2] /\ d <= n
        /\ position \in [part : 0..2, dust : BOOLEAN, born : Int]
        /\ Holds(position) => position.born <= d + 1 \/ position.born <= m - 1
        /\ result \in [Counts -> Nat] /\ early \in Nat
        /\ result["reentries"] + (IF sinceStop = NoStop THEN 0 ELSE 1) <= result["stops"]
        /\ early <= result["phantoms"] /\ result["phantoms"] <= result["stops"]
        /\ rules.fromFill => early = 0 /\ result["phantoms"] = 0
    BY Zenon DEF SpanInv, StopsInv
  <1>2. n \in Nat /\ m \in Nat /\ d \in Nat /\ m <= n + 2 /\ position.born \in Int
        /\ position.part \in 0..2 /\ position.dust \in BOOLEAN
    BY <1>1
  <1> HIDE DEF n, m, d
  <1>3. Holds(position) => position.born <= n + 1
    <2> SUFFICES ASSUME Holds(position) PROVE position.born <= n + 1
      BY Zenon
    <2>1. position.born <= d + 1 \/ position.born <= m - 1
      BY <1>1, Zenon
    <2> QED
      BY <1>1, <1>2, <2>1
  <1>4. /\ position' \in [part : 0..2, dust : BOOLEAN, born : Int]
        /\ Holds(position') => position'.born <= n + 1
    <2>1. ASSUME NEW day \in Int, day <= n + 1, position' = Purchased(position, portion, day)
          PROVE  /\ position' \in [part : 0..2, dust : BOOLEAN, born : Int]
                 /\ position'.born <= n + 1
      <3> DEFINE born == IF Holds(position) THEN position.born ELSE day
      <3>1. born \in Int /\ born <= n + 1
        BY <1>2, <1>3, <2>1
      <3>2. position' = [part |-> portion, dust |-> FALSE, born |-> born]
        BY <2>1, Zenon DEF Purchased
      <3> HIDE DEF born
      <3>3. position' \in [part : 0..2, dust : BOOLEAN, born : Int] /\ position'.born = born
        BY <3>1, <3>2
      <3> QED
        BY <3>1, <3>3, Zenon
    <2>2. ASSUME position.part > 0, NEW rest \in BOOLEAN, position' = Liquidated(position, rest)
          PROVE  /\ position' \in [part : 0..2, dust : BOOLEAN, born : Int]
                 /\ Holds(position') => position'.born <= n + 1
      <3>1. CASE position' = Out
        BY <3>1 DEF Out, Holds, NoStop
      <3>2. CASE position' = [position EXCEPT !.part = 0, !.dust = TRUE]
        <4>1. Holds(position)
          BY <2>2, Zenon DEF Holds
        <4>2. position' = [part |-> 0, dust |-> TRUE, born |-> position.born]
          BY <1>1, <3>2
        <4>3. position' \in [part : 0..2, dust : BOOLEAN, born : Int] /\ position'.born = position.born
          BY <1>2, <4>2
        <4> QED
          BY <1>3, <4>1, <4>3, Zenon
      <3> QED
        BY <2>2, <3>1, <3>2, Zenon DEF Liquidated
    <2>3. CASE UNCHANGED position
      BY <1>1, <1>3, <2>3, Zenon
    <2> QED
      BY <2>1, <2>2, <2>3, Zenon DEF n
  <1>5. inForce'.day + 1 = n + 1
    BY DEF n
  <1>6. result["reentries"] + 0 <= result["stops"]
    <2>1. result["reentries"] \in Nat /\ result["stops"] \in Nat
      BY <1>1 DEF Counts
    <2> QED
      BY <1>1, <2>1
  <1>7. inForce'.mark = inForce'.day + 2 => inForce'.mark >= inForce'.day + 2
    <2>1. inForce'.day \in Nat
      BY <1>2 DEF n
    <2> QED
      BY <2>1
  <1>8. sinceStop' \in Int /\ sinceStop' = NoStop
    BY DEF NoStop
  <1>9. Holds(position') => position'.born <= inForce'.day + 1
    BY <1>4, <1>5, Zenon
  <1> QED
    BY <1>1, <1>4, <1>6, <1>7, <1>8, <1>9, Zenon DEF StopsInv

LEMMA ExecutionStep == ExecutionInv /\ [ExecutionNext]_replayRuleVars => ExecutionInv'
  <1> SUFFICES ASSUME ExecutionInv, [ExecutionNext]_replayRuleVars PROVE ExecutionInv'
    OBVIOUS
  <1>1. SpanInv /\ StopsInv /\ LabelsInv /\ steady \in Steadies
    BY DEF ExecutionInv
  <1>2. CASE ReplayDay
    <2>1. /\ inForce.mark < inForce.end /\ inForce' = [inForce EXCEPT !.mark = @ + 1]
          /\ replayed' = Append(replayed, inForce.mark)
          /\ \/ \E crosses \in BOOLEAN : Bar(crosses)
             \/ UNCHANGED <<position, sinceStop, result, early>>
          /\ UNCHANGED <<rules, steady, labels>>
      BY <1>2, Zenon DEF ReplayDay
    <2>2. SpanInv'
      BY <1>1, <2>1, DayReplayed
    <2>3. StopsInv'
      <3>1. ASSUME NEW crosses \in BOOLEAN, Bar(crosses) PROVE StopsInv'
        BY <1>1, <2>1, <3>1, BarReplayed
      <3>2. CASE UNCHANGED <<position, sinceStop, result, early>>
        <4> DEFINE m == inForce.mark
                   d == inForce.day
                   e == inForce.end
        <4>1. /\ inForce'.mark = m + 1 /\ inForce'.day = d /\ inForce'.end = e
              /\ m \in Nat /\ d \in Nat /\ e \in Nat /\ m < e
          BY <1>1, <2>1 DEF SpanInv
        <4>2. /\ position \in [part : 0..2, dust : BOOLEAN, born : Int]
              /\ Holds(position) => position.born <= d + 1 \/ position.born <= m - 1
              /\ rules.fromFill => m >= d + 2
              /\ sinceStop \in Int
              /\ sinceStop # NoStop => 0 <= sinceStop /\ sinceStop <= m - 1
          BY <1>1, <2>1, Zenon DEF StopsInv
        <4> HIDE DEF m, d, e
        <4>3. Holds(position) => position.born <= d + 1 \/ position.born <= m + 1 - 1
          <5>1. position.born \in Int
            BY <4>2
          <5>2. position.born <= m - 1 => position.born <= m + 1 - 1
            BY <4>1, <5>1
          <5> QED
            BY <4>2, <5>2, Zenon
        <4>4. sinceStop # NoStop => 0 <= sinceStop /\ sinceStop <= m + 1 - 1 /\ m + 1 <= e
          BY <4>1, <4>2
        <4>5. rules.fromFill => m + 1 >= d + 2
          BY <4>1, <4>2
        <4>6. /\ inForce'.mark - 1 = m + 1 - 1 /\ inForce'.day + 1 = d + 1
              /\ inForce'.day + 2 = d + 2
          BY <4>1
        <4>7. Holds(position') => position'.born <= inForce'.day + 1 \/ position'.born <= inForce'.mark - 1
          BY <3>2, <4>3, <4>6, Zenon
        <4>8. sinceStop' # NoStop => /\ 0 <= sinceStop' /\ sinceStop' <= inForce'.mark - 1
                                     /\ inForce'.mark <= inForce'.end
          BY <3>2, <4>1, <4>4, <4>6, Zenon
        <4>9. rules'.fromFill /\ inForce'.mark < inForce'.end => inForce'.mark >= inForce'.day + 2
          BY <2>1, <4>1, <4>5, <4>6, Zenon
        <4> QED
          BY <1>1, <2>1, <3>2, <4>2, <4>7, <4>8, <4>9, Zenon DEF StopsInv
      <3> QED
        BY <2>1, <3>1, <3>2, Zenon
    <2>4. LabelsInv' /\ steady' \in Steadies
      BY <1>1, <2>1, Zenon DEF LabelsInv
    <2> QED
      BY <2>2, <2>3, <2>4 DEF ExecutionInv
  <1>3. ASSUME NEW reading \in PlanRegimes, NEW asked \in BOOLEAN, NEW took \in BOOLEAN,
               NEW conviction \in Convictions, NEW step \in Steps,
               Decide(reading, asked, took, conviction, step)
        PROVE  ExecutionInv'
    <2> DEFINE n == inForce.next
               now == Persist(steady, reading)
               portion == Fraction(reading, now.now, asked, took, conviction)
               fill == IF n + 1 <= LastClose THEN n + 1 ELSE LastClose
    <2>1. /\ inForce.mark >= inForce.end /\ n <= LastClose
          /\ inForce' = [day |-> n, next |-> n + step, mark |-> MarkFrom(n),
                         end |-> (IF MarkTo(n, step) <= LastClose
                                  THEN MarkTo(n, step) ELSE LastClose) + 1,
                         part |-> portion]
          /\ steady' = now /\ labels' = Append(labels, [seen |-> reading, used |-> now.now])
          /\ sinceStop' = NoStop
          /\ \/ position' = Purchased(position, portion, fill)
             \/ position.part > 0 /\ \E rest \in BOOLEAN : position' = Liquidated(position, rest)
             \/ UNCHANGED position
          /\ UNCHANGED <<rules, result, replayed, early>>
      BY <1>3, Zenon DEF Decide
    <2>2. portion \in 0..2
      BY FractionIsHalves, Zenon
    <2>3. n \in Nat /\ LastClose \in Nat /\ fill \in Int /\ fill <= n + 1
      <3>1. n \in Nat /\ LastClose \in Nat
        BY <1>1, ReplayRuleAssumption DEF SpanInv
      <3> HIDE DEF n
      <3> QED
        BY <3>1
    <2>4. LabelsInv' /\ steady' \in Steadies
      BY <1>1, <2>1, DecisionLabelled, Zenon DEF Steadies
    <2> HIDE DEF now, portion, fill
    <2>5. /\ SpanInv' /\ inForce'.day = n
          /\ (rules.fromFill => inForce'.mark = inForce'.day + 2)
          /\ inForce.mark <= n + 2
      BY <1>1, <2>1, <2>2, DecisionSpans
    <2>6. StopsInv'
      BY <1>1, <2>1, <2>2, <2>3, <2>5, DecisionBuys
    <2> QED
      BY <2>4, <2>5, <2>6 DEF ExecutionInv
  <1>4. CASE UNCHANGED replayRuleVars
    <2>1. SpanInv'
      BY <1>1, <1>4, Zenon DEF replayRuleVars, ExecutionInv, SpanInv, Lag
    <2>2. StopsInv'
      BY <1>1, <1>4, Zenon DEF replayRuleVars, ExecutionInv, StopsInv
    <2>3. LabelsInv' /\ steady' \in Steadies
      BY <1>1, <1>4, Zenon DEF replayRuleVars, ExecutionInv, LabelsInv
    <2> QED
      BY <2>1, <2>2, <2>3, Zenon DEF ExecutionInv
  <1> QED
    BY <1>2, <1>3, <1>4, Zenon DEF ExecutionNext

-----------------------------------------------------------------------------
\* The ladder of tranches.

\* What is in T and what is in U are, together, the list they part.
LEMMA KeptSplits ==
    ASSUME NEW S, NEW s \in Seq(S), NEW T, NEW U, \A x \in S : x \in T <=> x \notin U
    PROVE  Len(Kept(s, T)) + Len(Kept(s, U)) = Len(s)
  <1> DEFINE n == Len(s)
  <1>1. PICK f \in [0..n -> Seq(S)] :
          /\ Kept(s, T) = f[n] /\ f[0] = <<>>
          /\ \A i \in 1..n : f[i] = IF s[i] \in T THEN Append(f[i - 1], s[i]) ELSE f[i - 1]
    BY KeptUnfolds
  <1>2. PICK g \in [0..n -> Seq(S)] :
          /\ Kept(s, U) = g[n] /\ g[0] = <<>>
          /\ \A i \in 1..n : g[i] = IF s[i] \in U THEN Append(g[i - 1], s[i]) ELSE g[i - 1]
    BY KeptUnfolds
  <1>3. n \in Nat /\ \A i \in 1..n : s[i] \in S
    BY ElementOfSeq
  <1> HIDE DEF n
  <1> DEFINE R == {m \in Nat : Len(f[m]) + Len(g[m]) = m}
  <1>4. 0 \in R
    BY <1>1, <1>2
  <1>5. ASSUME NEW m \in Nat, m < n, m \in R PROVE m + 1 \in R
    <2>1. /\ m \in 0..n /\ m + 1 \in 1..n /\ m + 1 - 1 = m /\ s[m + 1] \in S
          /\ f[m] \in Seq(S) /\ g[m] \in Seq(S) /\ Len(f[m]) + Len(g[m]) = m
      BY <1>1, <1>2, <1>3, <1>5
    <2>2. /\ f[m + 1] = IF s[m + 1] \in T THEN Append(f[m], s[m + 1]) ELSE f[m]
          /\ g[m + 1] = IF s[m + 1] \in U THEN Append(g[m], s[m + 1]) ELSE g[m]
      BY <1>1, <1>2, <2>1
    <2>3. Len(f[m + 1]) + Len(g[m + 1]) = m + 1
      <3>1. /\ Len(f[m]) \in Nat /\ Len(Append(f[m], s[m + 1])) = Len(f[m]) + 1
            /\ Len(g[m]) \in Nat /\ Len(Append(g[m], s[m + 1])) = Len(g[m]) + 1
        BY <2>1, AppendProperties, LenProperties
      <3> DEFINE a == Len(f[m])
                 b == Len(g[m])
                 c == Len(f[m + 1])
                 d == Len(g[m + 1])
      <3>2. CASE s[m + 1] \in T
        <4>1. f[m + 1] = Append(f[m], s[m + 1]) /\ g[m + 1] = g[m]
          BY <2>1, <2>2, <3>2
        <4>2. c = a + 1 /\ d = b
          BY <3>1, <4>1, Zenon
        <4>3. a \in Nat /\ b \in Nat /\ a + b = m
          BY <2>1, <3>1
        <4> HIDE DEF a, b, c, d
        <4> QED
          BY <4>2, <4>3 DEF c, d
      <3>3. CASE s[m + 1] \notin T
        <4>1. f[m + 1] = f[m] /\ g[m + 1] = Append(g[m], s[m + 1])
          BY <2>1, <2>2, <3>3
        <4>2. c = a /\ d = b + 1
          BY <3>1, <4>1, Zenon
        <4>3. a \in Nat /\ b \in Nat /\ a + b = m
          BY <2>1, <3>1
        <4> HIDE DEF a, b, c, d
        <4> QED
          BY <4>2, <4>3 DEF c, d
      <3> QED
        BY <3>2, <3>3
    <2> QED
      BY <2>3
  <1>6. n \in R
    <2> HIDE DEF R
    <2>1. \A i \in Nat : i <= n => i \in R
      BY <1>3, <1>4, <1>5, InductionUpTo
    <2> QED
      BY <1>3, <2>1
  <1> QED
    BY <1>1, <1>2, <1>6 DEF n

\* Nothing is kept of a list when nothing may be.
LEMMA NothingKept ==
    ASSUME NEW S, NEW s \in Seq(S)
    PROVE  Kept(s, {}) = <<>>
  <1>1. /\ Kept(s, {}) \in Seq(S)
        /\ \A i \in DOMAIN Kept(s, {}) : Kept(s, {})[i] \in {}
    BY KeptInOrder
  <1> DEFINE k == Kept(s, {})
  <1>2. k \in Seq(S) /\ \A i \in DOMAIN k : FALSE
    BY <1>1
  <1> HIDE DEF k
  <1>3. k = <<>>
    BY <1>2
  <1> QED
    BY <1>3 DEF k

Ladders == [cash : Int, tranches : Seq(LadderPrices), next : Int, peak : Int, drawdown : Int,
            halted : BOOLEAN, buys : Nat, sells : Nat, losing : Nat]

\* The rungs are a spacing apart, and the next purchase is below the lowest of them.
Spaced(l) ==
    /\ \A i, j \in 1..Len(l.tranches) : i < j => l.tranches[j] <= l.tranches[i] - Spacing
    /\ \A i \in 1..Len(l.tranches) : l.next <= l.tranches[i] - Spacing

SoundLadder(l) ==
    /\ l \in Ladders /\ Spaced(l)
    /\ Len(l.tranches) <= Slots
    /\ l.buys = l.sells + Len(l.tranches)
    /\ l.halted => l.tranches = <<>>

\* What a sale leaves alone.
SameMeasure(l, k) == k.peak = l.peak /\ k.drawdown = l.drawdown

LEMMA LadderFacts ==
    /\ LadderPrices \subseteq Nat \ {0} /\ IsFiniteSet(LadderPrices) /\ LadderPrices # {}
    /\ Slots \in Nat \ {0} /\ Spacing \in Nat \ {0} /\ TakeProfit \in Nat \ {0}
    /\ TrancheStop \in Nat \ {0} /\ Disaster \in Nat \ {0} /\ LadderFee \in Nat
    /\ Anywhere \in Nat /\ Capital \in Nat /\ \A p \in LadderPrices : p < Anywhere
  <1>1. /\ LadderPrices \subseteq Nat \ {0} /\ IsFiniteSet(LadderPrices) /\ LadderPrices # {}
        /\ Slots \in Nat \ {0} /\ Spacing \in Nat \ {0} /\ TakeProfit \in Nat \ {0}
        /\ TrancheStop \in Nat \ {0} /\ Disaster \in Nat \ {0} /\ LadderFee \in Nat
    BY LadderAssumption
  <1>2. LadderPrices \subseteq Int
    BY <1>1
  <1>3. Max(LadderPrices) \in LadderPrices /\ \A y \in LadderPrices : Max(LadderPrices) >= y
    BY <1>1, <1>2, GreatestIsMax
  <1> DEFINE m == Max(LadderPrices)
  <1>4. m \in Nat /\ \A y \in LadderPrices : y < m + 1
    <2> HIDE DEF m
    <2>1. m \in LadderPrices /\ \A y \in LadderPrices : m >= y
      BY <1>3 DEF m
    <2> QED
      BY <1>1, <2>1
  <1>5. m + 1 \in Nat /\ Slots * (m + LadderFee) \in Nat
    <2> HIDE DEF m
    <2>1. m + LadderFee \in Nat
      BY <1>1, <1>4
    <2> QED
      BY <1>1, <1>4, <2>1
  <1> QED
    BY <1>1, <1>4, <1>5 DEF Anywhere, Capital

LEMMA PricesAreNumbers == \A p \in LadderPrices : p \in Int
  BY LadderFacts

\* The tranches that are left after a sale are in order, and none is counted twice.
LEMMA SoldOff ==
    ASSUME NEW l, SoundLadder(l), NEW gone \in SUBSET LadderPrices, NEW at \in [LadderPrices -> Int]
    PROVE  /\ SoundLadder(Sell(l, gone, at)) /\ SameMeasure(l, Sell(l, gone, at))
           /\ Sell(l, gone, at).halted = l.halted
           /\ gone = LadderPrices => Sell(l, gone, at).tranches = <<>>
  <1> DEFINE s == l.tranches
             sold == Kept(s, gone)
             left == Kept(s, LadderPrices \ gone)
             lost == Kept(sold, {entry \in gone : at[entry] < entry})
             due == [i \in DOMAIN sold |-> at[sold[i]] - LadderFee]
             sum == SumOver(due)
             k == [l EXCEPT !.tranches = left, !.cash = @ + sum,
                            !.sells = @ + Len(sold), !.losing = @ + Len(lost)]
  <1>0. k = Sell(l, gone, at)
    BY Zenon DEF Sell
  <1>1. /\ l \in Ladders /\ Spaced(l) /\ Len(s) <= Slots /\ l.buys = l.sells + Len(s)
        /\ l.halted => s = <<>>
    BY Zenon DEF SoundLadder
  <1>2. s \in Seq(LadderPrices) /\ l.cash \in Int /\ l.sells \in Nat /\ l.losing \in Nat /\ l.buys \in Nat
    BY <1>1 DEF Ladders
  <1>3. sold \in Seq(LadderPrices) /\ left \in Seq(LadderPrices) /\ lost \in Seq(LadderPrices)
    BY <1>2, KeptProperties
  <1>4. Len(sold) \in Nat /\ Len(left) \in Nat /\ Len(lost) \in Nat /\ Len(s) \in Nat
    BY <1>2, <1>3
  <1>5. Len(sold) + Len(left) = Len(s)
    BY <1>2, KeptSplits
  <1>6. sum \in Int
    <2>1. IsFiniteSet(DOMAIN sold)
      <3>1. DOMAIN sold = 1..Len(sold)
        BY <1>3
      <3> HIDE DEF sold
      <3> QED
        BY <1>4, <3>1, FS_Interval
    <2>2. due \in [DOMAIN sold -> Int]
      <3>1. ASSUME NEW i \in DOMAIN sold PROVE at[sold[i]] - LadderFee \in Int
        <4> DEFINE x == sold[i]
        <4>1. x \in LadderPrices
          BY <1>3, ElementOfSeq
        <4> HIDE DEF x
        <4>2. at[x] - LadderFee \in Int
          BY <4>1, LadderFacts
        <4> QED
          BY <4>2 DEF x
      <3> QED
        BY <3>1
    <2>3. \A i \in DOMAIN sold : due[i] <= due[i]
      BY <2>2
    <2> HIDE DEF due
    <2> QED
      BY <2>1, <2>2, <2>3, SumInOrder
  <1> HIDE DEF sold, left, lost, sum, due
  <1>7. k \in Ladders
    <2>1. l.cash + sum \in Int /\ l.sells + Len(sold) \in Nat /\ l.losing + Len(lost) \in Nat
      BY ONLY <1>2, <1>4, <1>6, SMTT(30)
    <2> QED
      BY <1>1, <1>3, <2>1 DEF Ladders
  <1>8. /\ k.tranches = left /\ k.next = l.next /\ k.peak = l.peak /\ k.drawdown = l.drawdown
        /\ k.sells = l.sells + Len(sold) /\ k.buys = l.buys
    BY <1>1 DEF Ladders
  <1>9. k.halted = l.halted
    BY <1>1 DEF Ladders
  <1>10. /\ \A i, j \in DOMAIN left : i < j =>
              \E a, b \in DOMAIN s : a < b /\ left[i] = s[a] /\ left[j] = s[b]
         /\ \A i \in DOMAIN left : \E a \in DOMAIN s : left[i] = s[a]
    <2> DEFINE T == LadderPrices \ gone
               r == l.tranches
    <2>1. r \in Seq(LadderPrices)
      BY <1>2
    <2> HIDE DEF T, r
    <2>2. /\ \A i \in DOMAIN Kept(r, T) : Kept(r, T)[i] \in T /\ \E a \in DOMAIN r : Kept(r, T)[i] = r[a]
          /\ \A i, j \in DOMAIN Kept(r, T) : i < j =>
               \E a, b \in DOMAIN r : a < b /\ Kept(r, T)[i] = r[a] /\ Kept(r, T)[j] = r[b]
      BY ONLY <2>1, KeptInOrder
    <2> QED
      BY <2>2, Zenon DEF left, T, r
  <1>11. DOMAIN left = 1..Len(left) /\ DOMAIN s = 1..Len(s)
    BY <1>2, <1>3
  <1> HIDE DEF k, s
  <1>12. Spaced(k)
    <2>1. /\ \A i, j \in 1..Len(s) : i < j => s[j] <= s[i] - Spacing
          /\ \A i \in 1..Len(s) : l.next <= s[i] - Spacing
      BY <1>1 DEF Spaced, s
    <2>2. /\ \A i, j \in 1..Len(left) : i < j => left[j] <= left[i] - Spacing
          /\ \A i \in 1..Len(left) : l.next <= left[i] - Spacing
      <3>1. ASSUME NEW i \in 1..Len(left), NEW j \in 1..Len(left), i < j
            PROVE  left[j] <= left[i] - Spacing
        <4>1. PICK a \in DOMAIN s, b \in DOMAIN s : a < b /\ left[i] = s[a] /\ left[j] = s[b]
          <5>1. i \in DOMAIN left /\ j \in DOMAIN left
            BY <1>11, Zenon
          <5> QED
            BY <1>10, <3>1, <5>1, Zenon
        <4>2. s[b] <= s[a] - Spacing
          <5>1. a \in 1..Len(s) /\ b \in 1..Len(s)
            BY <1>11, Zenon
          <5> QED
            BY <2>1, <4>1, <5>1, Zenon
        <4> QED
          BY <4>1, <4>2, Zenon
      <3>2. ASSUME NEW i \in 1..Len(left) PROVE l.next <= left[i] - Spacing
        BY <1>10, <1>11, <2>1, Zenon
      <3> QED
        BY <3>1, <3>2, Zenon
    <2> QED
      BY <1>8, <2>2, Zenon DEF Spaced
  <1>13. Len(left) <= Slots /\ l.buys = l.sells + Len(sold) + Len(left)
    <2> DEFINE p == Len(sold)
               q == Len(left)
               m == Len(s)
    <2>1. p + q = m /\ m <= Slots /\ l.buys = l.sells + m
      BY <1>1, <1>5, Zenon
    <2>2. p \in Nat /\ q \in Nat /\ m \in Nat /\ l.sells \in Nat /\ Slots \in Nat
      BY <1>2, <1>4, LadderFacts
    <2> HIDE DEF p, q, m
    <2>3. q <= Slots /\ l.buys = l.sells + p + q
      BY ONLY <2>1, <2>2
    <2> QED
      BY <2>3, Zenon DEF p, q
  <1>14. ASSUME s = <<>> \/ gone = LadderPrices PROVE left = <<>>
    <2>1. CASE s = <<>>
      <3>1. Len(left) = 0
        BY <1>4, <1>5, <2>1
      <3> QED
        BY <1>3, <3>1
    <2>2. CASE gone = LadderPrices
      <3>1. LadderPrices \ gone = {}
        BY <2>2
      <3> QED
        BY <1>2, <3>1, NothingKept, Zenon DEF left
    <2> QED
      BY <1>14, <2>1, <2>2
  <1>15. SoundLadder(k)
    BY <1>1, <1>7, <1>8, <1>9, <1>12, <1>13, <1>14, Zenon DEF SoundLadder
  <1> QED
    BY <1>0, <1>8, <1>9, <1>14, <1>15, Zenon DEF SameMeasure

\* A ladder that is empty may be started again at any price.
LEMMA StartedAgain ==
    ASSUME NEW l, SoundLadder(l), l.tranches = <<>>, NEW from \in Int
    PROVE  LET k == [l EXCEPT !.next = from]
           IN  SoundLadder(k) /\ SameMeasure(l, k) /\ k.halted = l.halted /\ k.tranches = <<>>
  <1> DEFINE k == [l EXCEPT !.next = from]
  <1>1. l \in Ladders /\ l.buys = l.sells + Len(l.tranches)
    BY Zenon DEF SoundLadder
  <1>2. /\ k \in Ladders /\ k.tranches = <<>> /\ k.peak = l.peak /\ k.drawdown = l.drawdown
        /\ k.buys = l.buys /\ k.sells = l.sells
    BY <1>1 DEF Ladders
  <1>3. k.halted = l.halted
    BY <1>1 DEF Ladders
  <1> HIDE DEF k
  <1>4. Spaced(k) /\ Len(k.tranches) <= Slots
    BY <1>2, LadderFacts DEF Spaced
  <1>5. k.buys = k.sells + Len(k.tranches)
    BY <1>1, <1>2, Zenon
  <1>6. SoundLadder(k) /\ SameMeasure(l, k)
    BY <1>2, <1>4, <1>5, Zenon DEF SoundLadder, SameMeasure
  <1> QED
    BY <1>2, <1>3, <1>6, Zenon DEF k

\* Everything is sold at a close.
LEMMA AllSold ==
    ASSUME NEW l, SoundLadder(l), NEW price \in LadderPrices
    PROVE  LET k == SellAll(l, price)
           IN  SoundLadder(k) /\ SameMeasure(l, k) /\ k.halted = l.halted /\ k.tranches = <<>>
  <1> DEFINE s == Sell(l, LadderPrices, Everywhere(price))
  <1>1. Everywhere(price) \in [LadderPrices -> Int] /\ LadderPrices \in SUBSET LadderPrices
    BY LadderFacts DEF Everywhere
  <1>2. SoundLadder(s) /\ SameMeasure(l, s) /\ s.halted = l.halted /\ s.tranches = <<>>
    BY <1>1, SoldOff, Zenon
  <1>3. Anywhere \in Int /\ SellAll(l, price) = [s EXCEPT !.next = Anywhere]
    BY LadderFacts DEF SellAll
  <1> HIDE DEF s
  <1>4. LET k == [s EXCEPT !.next = Anywhere]
        IN  SoundLadder(k) /\ SameMeasure(s, k) /\ k.halted = s.halted /\ k.tranches = <<>>
    BY ONLY <1>2, <1>3, StartedAgain, Zenon
  <1> QED
    BY <1>2, <1>3, <1>4, Zenon DEF SameMeasure

\* The sales of a bar, in the order of the code.
BarSells(l, b) == TakeProfits(StopTranches(RegimeExit(DisasterStop(l, b), b), b), b)

LEMMA BarIsSold ==
    ASSUME NEW l, SoundLadder(l), NEW b \in LadderBars
    PROVE  /\ SoundLadder(BarSells(l, b))
           /\ ~IsDisaster(l, b) => SameMeasure(l, BarSells(l, b))
  <1> DEFINE k1 == DisasterStop(l, b)
             k2 == RegimeExit(k1, b)
             k3 == StopTranches(k2, b)
             k4 == TakeProfits(k3, b)
  <1>1. b.close \in LadderPrices /\ b.low \in LadderPrices /\ b.open \in LadderPrices
    BY DEF LadderBars
  <1>2. SoundLadder(k1) /\ (~IsDisaster(l, b) => k1 = l)
    <2>1. CASE ~IsDisaster(l, b)
      BY <2>1, Zenon DEF DisasterStop
    <2>2. CASE IsDisaster(l, b)
      <3> DEFINE s == SellAll(l, b.close)
                 k == [s EXCEPT !.halted = TRUE, !.peak = s.cash]
      <3>1. k1 = k
        BY <2>2, Zenon DEF DisasterStop
      <3>2. SoundLadder(s) /\ s.tranches = <<>>
        BY <1>1, AllSold, Zenon
      <3> HIDE DEF s
      <3>3. s \in Ladders /\ s.buys = s.sells + Len(s.tranches)
        BY <3>2, Zenon DEF SoundLadder
      <3>4. k \in Ladders /\ k.tranches = <<>> /\ k.buys = s.buys /\ k.sells = s.sells
        BY <3>2, <3>3 DEF Ladders
      <3> HIDE DEF k
      <3>5. Spaced(k) /\ Len(k.tranches) <= Slots
        BY <3>4, LadderFacts DEF Spaced
      <3>6. k.buys = k.sells + Len(k.tranches)
        BY <3>2, <3>3, <3>4, Zenon
      <3>7. SoundLadder(k)
        BY <3>4, <3>5, <3>6, Zenon DEF SoundLadder
      <3> QED
        BY <2>2, <3>1, <3>7, Zenon
    <2> QED
      BY <2>1, <2>2, Zenon
  <1> HIDE DEF k1
  <1>3. SoundLadder(k2) /\ SameMeasure(k1, k2)
    <2>1. CASE b.average = "below" /\ k1.tranches # <<>>
      BY <1>1, <1>2, <2>1, AllSold, Zenon DEF RegimeExit
    <2>2. CASE ~(b.average = "below" /\ k1.tranches # <<>>)
      BY <1>2, <2>2, Zenon DEF RegimeExit, SameMeasure
    <2> QED
      BY <2>1, <2>2, Zenon
  <1> HIDE DEF k2
  <1>4. SoundLadder(k3) /\ SameMeasure(k2, k3)
    <2> DEFINE gone == {entry \in LadderPrices : b.low <= entry - TrancheStop}
               at == [entry \in LadderPrices |-> StopFill(entry, b)]
    <2>1. gone \in SUBSET LadderPrices
      BY Zenon
    <2>2. at \in [LadderPrices -> Int]
      <3> DEFINE o == b.open
      <3>1. o \in Int
        BY <1>1, PricesAreNumbers, Zenon
      <3> HIDE DEF o
      <3>2. ASSUME NEW entry \in LadderPrices
            PROVE  (IF entry - TrancheStop < o THEN entry - TrancheStop ELSE o) \in Int
        BY <3>1, LadderFacts
      <3> QED
        BY <3>2, Zenon DEF StopFill, o
    <2>3. k3 = Sell(k2, gone, at)
      BY Zenon DEF StopTranches
    <2> HIDE DEF gone, at, k3
    <2> QED
      BY <1>3, <2>1, <2>2, <2>3, SoldOff, Zenon
  <1> HIDE DEF k3
  <1>5. SoundLadder(k4) /\ SameMeasure(k3, k4)
    <2> DEFINE gone == {entry \in LadderPrices : b.close >= entry + TakeProfit}
               at == Everywhere(b.close)
               s == Sell(k3, gone, at)
    <2>1. gone \in SUBSET LadderPrices
      BY Zenon
    <2>2. at \in [LadderPrices -> Int]
      <3> DEFINE c == b.close
      <3>1. c \in Int
        BY <1>1, PricesAreNumbers, Zenon
      <3> HIDE DEF c
      <3>2. [entry \in LadderPrices |-> c] \in [LadderPrices -> Int]
        BY <3>1
      <3> QED
        BY <3>2, Zenon DEF Everywhere, c
    <2>3. k4 = IF k3.tranches # <<>> /\ s.tranches = <<>> THEN [s EXCEPT !.next = Anywhere] ELSE s
      BY Zenon DEF TakeProfits
    <2> HIDE DEF gone, at, k4
    <2>4. SoundLadder(s) /\ SameMeasure(k3, s)
      BY <1>4, <2>1, <2>2, SoldOff, Zenon
    <2> HIDE DEF s
    <2>5. CASE s.tranches = <<>>
      <3>1. Anywhere \in Int
        BY LadderFacts
      <3>2. LET k == [s EXCEPT !.next = Anywhere] IN SoundLadder(k) /\ SameMeasure(s, k)
        BY ONLY <2>4, <2>5, <3>1, StartedAgain, Zenon
      <3> QED
        BY <2>3, <2>4, <3>2, Zenon DEF SameMeasure
    <2>6. CASE s.tranches # <<>>
      BY <2>3, <2>4, <2>6, Zenon
    <2> QED
      BY <2>5, <2>6, Zenon
  <1> QED
    BY <1>2, <1>3, <1>4, <1>5, Zenon DEF BarSells, k1, k2, k3, SameMeasure

\* A rung is bought below all the others, in a slot that is free.
LEMMA RungBought ==
    ASSUME NEW l, SoundLadder(l), ~l.halted, NEW b \in LadderBars
    PROVE  SoundLadder(Buy(l, b)) /\ SameMeasure(l, Buy(l, b))
  <1> DEFINE s == l.tranches
             c == b.close
             k == [l EXCEPT !.tranches = Append(@, c), !.cash = @ - c - LadderFee,
                            !.buys = @ + 1, !.next = c - Spacing]
             Room_ == Len(s) < Slots /\ c <= l.next
  <1>1. Buy(l, b) = l \/ (Room_ /\ Buy(l, b) = k)
    BY Zenon DEF Buy
  <1>2. c \in LadderPrices
    BY DEF LadderBars
  <1>3. l \in Ladders /\ Spaced(l) /\ l.buys = l.sells + Len(s)
    BY Zenon DEF SoundLadder
  <1> SUFFICES ASSUME Room_ PROVE SoundLadder(k) /\ SameMeasure(l, k)
    BY <1>1, Zenon DEF SameMeasure
  <1> HIDE DEF c
  <1>4. s \in Seq(LadderPrices) /\ l.next \in Int /\ l.cash \in Int /\ l.sells \in Nat /\ l.buys \in Nat
    BY <1>3 DEF Ladders
  <1>5. k \in Ladders
    <2>1. l.cash - c - LadderFee \in Int /\ l.buys + 1 \in Nat /\ c - Spacing \in Int
      BY <1>2, <1>4, LadderFacts
    <2>2. Append(s, c) \in Seq(LadderPrices)
      BY <1>2, <1>4
    <2> QED
      BY <1>3, <2>1, <2>2 DEF Ladders
  <1>6. /\ k.tranches = Append(s, c) /\ k.next = c - Spacing /\ k.peak = l.peak
        /\ k.drawdown = l.drawdown /\ k.sells = l.sells /\ k.buys = l.buys + 1
    BY <1>3 DEF Ladders
  <1>7. k.halted = l.halted
    BY <1>3 DEF Ladders
  <1> DEFINE n == Len(s)
             u == Append(s, c)
  <1>8. /\ n \in Nat /\ Len(u) = n + 1 /\ u[n + 1] = c /\ \A i \in 1..n : u[i] = s[i] /\ s[i] \in LadderPrices
    BY <1>2, <1>4, AppendProperties, ElementOfSeq
  <1>9. /\ \A i, j \in 1..n : i < j => s[j] <= s[i] - Spacing
        /\ \A i \in 1..n : l.next <= s[i] - Spacing
    BY <1>3, Zenon DEF Spaced
  <1> HIDE DEF k, s, n, u
  <1>10. ASSUME NEW i \in 1..(n + 1), NEW j \in 1..(n + 1), i < j PROVE u[j] <= u[i] - Spacing
    <2>1. i \in 1..n /\ u[i] = s[i]
      BY <1>8, <1>10
    <2>2. CASE j = n + 1
      <3>1. c <= l.next /\ l.next <= s[i] - Spacing /\ s[i] \in Int
        <4>1. s[i] \in Int
          BY <1>8, <2>1, PricesAreNumbers, Zenon
        <4> QED
          BY <1>9, <2>1, <4>1, Zenon DEF Room_
      <3> QED
        BY <1>2, <1>4, <1>8, <2>1, <2>2, <3>1, LadderFacts
    <2>3. CASE j # n + 1
      <3>1. j \in 1..n
        BY <1>8, <2>3
      <3> QED
        BY <1>8, <1>9, <1>10, <2>1, <3>1, Zenon
    <2> QED
      BY <2>2, <2>3
  <1>11. ASSUME NEW i \in 1..(n + 1) PROVE c - Spacing <= u[i] - Spacing
    <2>1. CASE i = n + 1
      BY <1>2, <1>8, <2>1, LadderFacts
    <2>2. CASE i # n + 1
      <3>1. i \in 1..n
        BY <1>8, <2>2
      <3>2. c <= l.next /\ l.next <= s[i] - Spacing /\ u[i] = s[i] /\ s[i] \in Int
        <4>1. s[i] \in Int /\ u[i] = s[i]
          BY <1>8, <3>1, PricesAreNumbers, Zenon
        <4> QED
          BY <1>9, <3>1, <4>1, Zenon DEF Room_
      <3> QED
        BY <1>2, <1>4, <3>2, LadderFacts
    <2> QED
      BY <2>1, <2>2
  <1>12. Spaced(k)
    <2>1. k.tranches = u /\ k.next = c - Spacing /\ Len(u) = n + 1
      BY <1>6, <1>8 DEF u
    <2> QED
      BY <1>10, <1>11, <2>1, Zenon DEF Spaced
  <1>13. Len(k.tranches) <= Slots /\ k.buys = k.sells + Len(k.tranches)
    <2>1. Len(k.tranches) = n + 1 /\ n < Slots /\ l.buys = l.sells + n
      BY <1>3, <1>6, <1>8 DEF u, n, s, Room_
    <2> QED
      BY <1>4, <1>6, <1>8, <2>1, LadderFacts
  <1> QED
    BY <1>5, <1>6, <1>7, <1>12, <1>13, Zenon DEF SoundLadder, SameMeasure

\* The larger of two numbers.
LEMMA LargerOfTwo ==
    ASSUME NEW a \in Int, NEW b \in Int
    PROVE  Max({a, b}) = IF a >= b THEN a ELSE b
  <1> DEFINE S == {a, b}
             m == Max(S)
  <1>1. IsFiniteSet(S) /\ S \subseteq Int /\ S # {}
    <2>1. IsFiniteSet({b}) /\ S = {b} \cup {a}
      BY FS_Singleton
    <2>2. IsFiniteSet({b} \cup {a})
      BY <2>1, FS_AddElement
    <2> QED
      BY <2>1, <2>2
  <1>2. m \in S /\ \A y \in S : m >= y
    BY <1>1, GreatestIsMax
  <1> HIDE DEF m
  <1>3. m = IF a >= b THEN a ELSE b
    BY <1>2
  <1> QED
    BY <1>3 DEF m

\* The peak p is that of the account, and d the deepest fall below an earlier value.
FallIsMeasured(a, p, d) ==
    /\ \A i \in 1..Len(a) : a[i] <= p
    /\ \E i \in 1..Len(a) : a[i] = p
    /\ \A i, j \in 1..Len(a) : i <= j => a[i] - a[j] <= d
    /\ \E i, j \in 1..Len(a) : i <= j /\ a[i] - a[j] = d

LadderInv ==
    /\ bar \in 0..MaxBars /\ disasters \in 0..bar
    /\ SoundLadder(ladder)
    /\ account \in Seq(Int) /\ account # <<>>
    /\ disasters = 0 => FallIsMeasured(account, ladder.peak, ladder.drawdown)

LEMMA LadderInitially == LadderInit => LadderInv
  <1> SUFFICES ASSUME LadderInit PROVE LadderInv
    OBVIOUS
  <1>1. /\ bar = 0 /\ account = <<Capital>> /\ disasters = 0
        /\ ladder = [cash |-> Capital, tranches |-> <<>>, next |-> Anywhere, peak |-> Capital,
                     drawdown |-> 0, halted |-> FALSE, buys |-> 0, sells |-> 0, losing |-> 0]
    BY DEF LadderInit
  <1>2. Capital \in Int /\ Anywhere \in Int /\ <<>> \in Seq(LadderPrices) /\ 0 \in 0..MaxBars
    BY LadderFacts, LadderAssumption
  <1>3. ladder \in Ladders
    BY <1>1, <1>2 DEF Ladders
  <1>4. /\ ladder.tranches = <<>> /\ ladder.buys = 0 /\ ladder.sells = 0
        /\ ladder.peak = Capital /\ ladder.drawdown = 0
    BY <1>1
  <1>5. Spaced(ladder) /\ Len(ladder.tranches) <= Slots /\ ladder.buys = ladder.sells + Len(ladder.tranches)
    BY <1>4, LadderFacts DEF Spaced
  <1>6. SoundLadder(ladder)
    BY <1>3, <1>4, <1>5, Zenon DEF SoundLadder
  <1>7. FallIsMeasured(account, Capital, 0)
    BY <1>1, <1>2 DEF FallIsMeasured
  <1>8. bar \in 0..MaxBars /\ disasters \in 0..bar /\ account \in Seq(Int) /\ account # <<>>
    BY <1>1, <1>2
  <1> QED
    BY <1>4, <1>6, <1>7, <1>8 DEF LadderInv

\* The account is marked, and so are its peak and its deepest fall.
LEMMA EquityMarked ==
    ASSUME NEW l, SoundLadder(l), NEW price \in LadderPrices
    PROVE  LET k == MarkEquity(l, price)
               w == Worth(k, price)
           IN  /\ SoundLadder(k) /\ w \in Int
               /\ \A a \in Seq(Int) :
                    a # <<>> /\ FallIsMeasured(a, l.peak, l.drawdown) =>
                      FallIsMeasured(Append(a, w), k.peak, k.drawdown)
  <1> DEFINE k == MarkEquity(l, price)
             w == Worth(l, price)
             up == [l EXCEPT !.peak = w]
             down == [l EXCEPT !.drawdown = Max({@, l.peak - w})]
  <1>1. k = IF w > l.peak THEN up ELSE down
    BY Zenon DEF MarkEquity
  <1>2. l \in Ladders /\ Spaced(l) /\ Len(l.tranches) <= Slots /\ l.buys = l.sells + Len(l.tranches)
    BY Zenon DEF SoundLadder
  <1>3. l.peak \in Int /\ l.drawdown \in Int /\ l.cash \in Int /\ l.tranches \in Seq(LadderPrices)
    BY <1>2 DEF Ladders
  <1>4. w \in Int
    <2> DEFINE n == Len(l.tranches)
               c == l.cash
    <2>1. n \in Nat /\ c \in Int /\ price \in Int
      BY <1>3, PricesAreNumbers
    <2> HIDE DEF n, c
    <2>2. c + n * price \in Int
      BY <2>1
    <2> QED
      BY <2>2, Zenon DEF Worth, n, c
  <1> HIDE DEF w
  <1> DEFINE d == Max({l.drawdown, l.peak - w})
  <1>5. d \in Int /\ d = IF l.drawdown >= l.peak - w THEN l.drawdown ELSE l.peak - w
    <2> DEFINE x == l.drawdown
               y == l.peak - w
    <2>1. x \in Int /\ y \in Int
      BY <1>3, <1>4
    <2> HIDE DEF x, y
    <2>2. Max({x, y}) = IF x >= y THEN x ELSE y
      BY <2>1, LargerOfTwo
    <2>3. Max({x, y}) \in Int
      BY <2>1, <2>2
    <2> QED
      BY <2>2, <2>3, Zenon DEF x, y
  <1> HIDE DEF d
  <1>6. /\ k \in Ladders /\ k.tranches = l.tranches /\ k.buys = l.buys /\ k.sells = l.sells
        /\ k.next = l.next /\ k.cash = l.cash
        /\ k.peak = (IF w > l.peak THEN w ELSE l.peak)
        /\ k.drawdown = (IF w > l.peak THEN l.drawdown ELSE d)
    <2>1. CASE w > l.peak
      <3>1. k = up
        BY <1>1, <2>1
      <3> HIDE DEF k
      <3> QED
        BY <1>2, <1>4, <2>1, <3>1 DEF Ladders
    <2>2. CASE ~(w > l.peak)
      <3>1. k = [l EXCEPT !.drawdown = d]
        BY <1>1, <2>2, Zenon DEF d
      <3> HIDE DEF k
      <3> QED
        BY <1>2, <1>5, <2>2, <3>1 DEF Ladders
    <2> QED
      BY <2>1, <2>2
  <1>7. k.halted = l.halted
    <2>1. CASE w > l.peak
      <3>1. k = up
        BY <1>1, <2>1
      <3> HIDE DEF k
      <3> QED
        BY <1>2, <3>1 DEF Ladders
    <2>2. CASE ~(w > l.peak)
      <3>1. k = [l EXCEPT !.drawdown = d]
        BY <1>1, <2>2, Zenon DEF d
      <3> HIDE DEF k
      <3> QED
        BY <1>2, <3>1 DEF Ladders
    <2> QED
      BY <2>1, <2>2
  <1> HIDE DEF k
  <1>8. SoundLadder(k)
    <2>1. Spaced(k)
      BY <1>2, <1>6, Zenon DEF Spaced
    <2> QED
      BY <1>2, <1>6, <1>7, <2>1, Zenon DEF SoundLadder
  <1>9. Worth(k, price) = w
    BY <1>6, Zenon DEF Worth, w
  <1>10. ASSUME NEW a \in Seq(Int), a # <<>>, FallIsMeasured(a, l.peak, l.drawdown)
         PROVE  FallIsMeasured(Append(a, w), k.peak, k.drawdown)
    <2> DEFINE n == Len(a)
               u == Append(a, w)
               p == l.peak
               q == k.peak
               f == l.drawdown
               g == k.drawdown
    <2>1. /\ n \in Nat /\ n > 0 /\ Len(u) = n + 1 /\ u[n + 1] = w
          /\ \A i \in 1..n : u[i] = a[i] /\ a[i] \in Int
      BY <1>4, <1>10, AppendProperties, ElementOfSeq
    <2>2. /\ p \in Int /\ f \in Int
          /\ q = (IF w > p THEN w ELSE p)
          /\ g = (IF w > p THEN f ELSE IF f >= p - w THEN f ELSE p - w)
      BY <1>3, <1>5, <1>6
    <2>3. /\ \A i \in 1..n : a[i] <= p
          /\ \E i \in 1..n : a[i] = p
          /\ \A i, j \in 1..n : i <= j => a[i] - a[j] <= f
          /\ \E i, j \in 1..n : i <= j /\ a[i] - a[j] = f
      BY <1>10, Zenon DEF FallIsMeasured
    <2> HIDE DEF n, u, p, q, f, g
    <2>4. \A i \in 1..(n + 1) : u[i] <= q
      <3> SUFFICES ASSUME NEW i \in 1..(n + 1) PROVE u[i] <= q
        OBVIOUS
      <3>1. CASE i = n + 1
        BY <1>4, <2>1, <2>2, <3>1
      <3>2. CASE i # n + 1
        <4>1. i \in 1..n
          BY <2>1, <3>2
        <4>2. u[i] = a[i] /\ a[i] \in Int /\ a[i] <= p
          BY <2>1, <2>3, <4>1
        <4> QED
          BY <1>4, <2>2, <4>2
      <3> QED
        BY <3>1, <3>2
    <2>5. \E i \in 1..(n + 1) : u[i] = q
      <3>1. CASE w > p
        BY <2>1, <2>2, <3>1
      <3>2. CASE ~(w > p)
        <4>1. PICK i \in 1..n : a[i] = p
          BY <2>3
        <4>2. i \in 1..(n + 1) /\ u[i] = q
          BY <2>1, <2>2, <3>2, <4>1
        <4> QED
          BY <4>2
      <3> QED
        BY <3>1, <3>2
    <2>6. \A i, j \in 1..(n + 1) : i <= j => u[i] - u[j] <= g
      <3> SUFFICES ASSUME NEW i \in 1..(n + 1), NEW j \in 1..(n + 1), i <= j
                   PROVE  u[i] - u[j] <= g
        OBVIOUS
      <3>1. CASE j # n + 1
        <4>1. i \in 1..n /\ j \in 1..n
          BY <2>1, <3>1
        <4>2. a[i] - a[j] <= f /\ u[i] = a[i] /\ u[j] = a[j] /\ a[i] \in Int /\ a[j] \in Int
          BY <2>1, <2>3, <4>1
        <4>3. f <= g /\ g \in Int
          BY <1>4, <2>2
        <4> QED
          BY <2>2, <4>2, <4>3
      <3>2. CASE j = n + 1 /\ i # n + 1
        <4>1. i \in 1..n
          BY <2>1, <3>2
        <4>2. a[i] <= p /\ u[i] = a[i] /\ u[j] = w /\ a[i] \in Int
          BY <2>1, <2>3, <3>2, <4>1
        <4>3. p - w <= g /\ g \in Int
          <5>1. PICK k1 \in 1..n, k2 \in 1..n : k1 <= k2 /\ a[k1] - a[k2] = f
            BY <2>3
          <5>2. \A i_ \in 1..n : i_ <= i_ => a[i_] - a[i_] <= f
            BY <2>3
          <5>3. a[k1] \in Int /\ a[k1] - a[k1] <= f
            BY <2>1, <5>2, k1 <= k1
          <5>4. 0 <= f
            BY <2>2, <5>3
          <5> QED
            BY <1>4, <2>2, <5>4
        <4> QED
          BY <1>4, <2>2, <4>2, <4>3
      <3>3. CASE j = n + 1 /\ i = n + 1
        <4>1. \A i_ \in 1..n : i_ <= i_ => a[i_] - a[i_] <= f
          BY <2>3
        <4>2. 1 \in 1..n
          BY <2>1
        <4>3. a[1] \in Int /\ a[1] - a[1] <= f
          BY <2>1, <4>1, <4>2
        <4>4. 0 <= f /\ f <= g /\ g \in Int
          BY <1>4, <2>2, <4>3
        <4>5. u[i] = w /\ u[j] = w
          BY <2>1, <3>3
        <4>6. w - w <= g
          BY <1>4, <2>2, <4>4
        <4> QED
          BY <4>5, <4>6, Zenon
      <3> QED
        BY <3>1, <3>2, <3>3
    <2>7. \E i, j \in 1..(n + 1) : i <= j /\ u[i] - u[j] = g
      <3>1. CASE g = f
        <4>1. PICK i \in 1..n, j \in 1..n : i <= j /\ a[i] - a[j] = f
          BY <2>3
        <4>2. i \in 1..(n + 1) /\ j \in 1..(n + 1) /\ u[i] = a[i] /\ u[j] = a[j]
          BY <2>1
        <4>3. u[i] - u[j] = g
          BY <3>1, <4>1, <4>2, Zenon
        <4> QED
          BY <4>1, <4>2, <4>3
      <3>2. CASE g # f
        <4>1. g = p - w
          BY <2>2, <3>2
        <4>2. PICK i \in 1..n : a[i] = p
          BY <2>3
        <4>3. i \in 1..(n + 1) /\ n + 1 \in 1..(n + 1) /\ i <= n + 1 /\ u[i] = p /\ u[n + 1] = w
          BY <2>1, <4>2
        <4> QED
          BY <4>1, <4>3
      <3> QED
        BY <3>1, <3>2
    <2>8. FallIsMeasured(u, q, g)
      BY <2>1, <2>4, <2>5, <2>6, <2>7, Zenon DEF FallIsMeasured
    <2> QED
      BY <2>8 DEF u, q, g
  <1> QED
    BY <1>4, <1>8, <1>9, <1>10, Zenon DEF k

LEMMA LadderStep == LadderInv /\ [LadderNext]_ladderVars => LadderInv'
  <1> SUFFICES ASSUME LadderInv, [LadderNext]_ladderVars PROVE LadderInv'
    OBVIOUS
  <1>1. CASE WalkBar
    <2>1. PICK b \in LadderBars :
            /\ ladder' = Walk(ladder, b)
            /\ account' = Append(account, Worth(ladder', b.close))
            /\ disasters' = disasters + IF IsDisaster(ladder, b) THEN 1 ELSE 0
      BY <1>1, Zenon DEF WalkBar
    <2>2. bar < MaxBars /\ bar' = bar + 1
      BY <1>1, Zenon DEF WalkBar
    <2>3. /\ bar \in 0..MaxBars /\ disasters \in 0..bar /\ SoundLadder(ladder)
          /\ account \in Seq(Int) /\ account # <<>>
          /\ disasters = 0 => FallIsMeasured(account, ladder.peak, ladder.drawdown)
      BY DEF LadderInv
    <2> DEFINE sold == BarSells(ladder, b)
               again == [sold EXCEPT !.halted = FALSE, !.next = Anywhere]
               free == IF sold.halted /\ b.average = "above" THEN again ELSE sold
               done == IF free.halted THEN free ELSE Buy(free, b)
    <2>4. ladder' = MarkEquity(done, b.close)
      BY <2>1, Zenon DEF Walk, BarSells
    <2>5. SoundLadder(sold) /\ (~IsDisaster(ladder, b) => SameMeasure(ladder, sold))
      BY <2>3, BarIsSold, Zenon
    <2> HIDE DEF sold
    <2>6. SoundLadder(free) /\ SameMeasure(sold, free)
      <3>1. CASE sold.halted /\ b.average = "above"
        <4>1. free = again
          BY <3>1, Zenon
        <4>2. sold \in Ladders /\ sold.tranches = <<>> /\ sold.buys = sold.sells + Len(sold.tranches)
          BY <2>5, <3>1, Zenon DEF SoundLadder
        <4>3. /\ again \in Ladders /\ again.tranches = <<>> /\ again.buys = sold.buys
              /\ again.sells = sold.sells /\ again.peak = sold.peak /\ again.drawdown = sold.drawdown
          <5>1. FALSE \in BOOLEAN /\ Anywhere \in Int
            BY LadderFacts
          <5>2. again \in Ladders
            BY <4>2, <5>1, Zenon DEF Ladders
          <5>3. /\ again.tranches = sold.tranches /\ again.buys = sold.buys
                /\ again.sells = sold.sells /\ again.peak = sold.peak /\ again.drawdown = sold.drawdown
            BY <4>2 DEF Ladders
          <5> QED
            BY <4>2, <5>2, <5>3, Zenon
        <4> HIDE DEF again
        <4>4. Spaced(again) /\ Len(again.tranches) <= Slots
          BY <4>3, LadderFacts DEF Spaced
        <4>5. again.buys = again.sells + Len(again.tranches)
          BY <4>2, <4>3, Zenon
        <4>6. SoundLadder(again) /\ SameMeasure(sold, again)
          BY <4>3, <4>4, <4>5, Zenon DEF SoundLadder, SameMeasure
        <4> QED
          BY <4>1, <4>6, Zenon
      <3>2. CASE ~(sold.halted /\ b.average = "above")
        <4>1. free = sold
          BY <3>2, Zenon
        <4> QED
          BY <2>5, <4>1, Zenon DEF SameMeasure
      <3> QED
        BY <3>1, <3>2, Zenon
    <2> HIDE DEF free
    <2>7. SoundLadder(done) /\ SameMeasure(free, done)
      <3>1. CASE free.halted
        BY <2>6, <3>1, Zenon DEF SameMeasure
      <3>2. CASE ~free.halted
        BY <2>6, <3>2, RungBought, Zenon
      <3> QED
        BY <3>1, <3>2, Zenon
    <2> HIDE DEF done
    <2>8. b.close \in LadderPrices
      BY DEF LadderBars
    <2> DEFINE w == Worth(MarkEquity(done, b.close), b.close)
    <2>9. /\ SoundLadder(ladder') /\ w \in Int /\ account' = Append(account, w)
          /\ \A a \in Seq(Int) :
               a # <<>> /\ FallIsMeasured(a, done.peak, done.drawdown) =>
                 FallIsMeasured(Append(a, w), ladder'.peak, ladder'.drawdown)
      BY <2>1, <2>4, <2>7, <2>8, EquityMarked, Zenon
    <2> HIDE DEF w
    <2>10. bar' \in 0..MaxBars /\ disasters' \in 0..bar'
           /\ (disasters' = 0 => disasters = 0 /\ ~IsDisaster(ladder, b))
      <3>1. disasters' = disasters \/ (disasters' = disasters + 1 /\ IsDisaster(ladder, b))
        <4>1. CASE IsDisaster(ladder, b)
          BY <2>1, <2>3, <4>1
        <4>2. CASE ~IsDisaster(ladder, b)
          BY <2>1, <2>3, <4>2
        <4> QED
          BY <4>1, <4>2
      <3>2. ~IsDisaster(ladder, b) => disasters' = disasters
        BY <2>1, <2>3
      <3>3. IsDisaster(ladder, b) => disasters' = disasters + 1
        BY <2>1, <2>3
      <3>4. MaxBars \in Nat
        BY LadderAssumption
      <3>5. bar' \in 0..MaxBars /\ disasters' \in 0..bar'
        BY <2>2, <2>3, <3>1, <3>4
      <3>6. disasters' = 0 => disasters = 0 /\ disasters' # disasters + 1
        BY <2>3, <3>1
      <3> QED
        BY <3>3, <3>5, <3>6, Zenon
    <2>11. account' \in Seq(Int) /\ account' # <<>>
      BY <2>3, <2>9
    <2>12. disasters' = 0 => FallIsMeasured(account', ladder'.peak, ladder'.drawdown)
      <3> SUFFICES ASSUME disasters' = 0 PROVE FallIsMeasured(account', ladder'.peak, ladder'.drawdown)
        OBVIOUS
      <3>1. done.peak = ladder.peak /\ done.drawdown = ladder.drawdown
        BY <2>5, <2>6, <2>7, <2>10, Zenon DEF SameMeasure
      <3>2. FallIsMeasured(account, ladder.peak, ladder.drawdown)
        BY <2>3, <2>10, Zenon
      <3>3. FallIsMeasured(account, done.peak, done.drawdown)
        BY <3>1, <3>2, Zenon
      <3> QED
        BY <2>3, <2>9, <3>3, Zenon
    <2> QED
      BY <2>9, <2>10, <2>11, <2>12, Zenon DEF LadderInv
  <1>2. CASE UNCHANGED ladderVars
    <2>1. bar' = bar /\ ladder' = ladder /\ account' = account /\ disasters' = disasters
      BY <1>2 DEF ladderVars
    <2> QED
      BY <2>1, Zenon DEF LadderInv
  <1> QED
    BY <1>1, <1>2, Zenon DEF LadderNext

\* The deepest fall of the account is the one the report gives.
LEMMA FallMeasured ==
    ASSUME LadderInv, NEW p, NEW d \in Int, FallIsMeasured(account, p, d)
    PROVE  d = Fall
  <1> DEFINE D == DOMAIN account
             n == Len(account)
             spans == {q \in D \X D : q[1] <= q[2]}
             F == [q \in spans |-> account[q[1]] - account[q[2]]]
             S == {F[q] : q \in spans}
  <1>1. n \in Nat /\ D = 1..n /\ \A i \in 1..n : account[i] \in Int
    BY ElementOfSeq DEF LadderInv
  <1>2. IsFiniteSet(spans)
    <2>1. IsFiniteSet(1..n)
      BY <1>1, FS_Interval
    <2>2. IsFiniteSet(D \X D)
      BY <1>1, <2>1, FS_Product
    <2> QED
      BY <2>2, FS_Subset
  <1>3. S = {account[q[1]] - account[q[2]] : q \in spans}
    OBVIOUS
  <1>4. IsFiniteSet(S)
    <2> HIDE DEF spans, F
    <2> QED
      BY <1>2, ImageIsFinite
  <1>5. /\ \A i, j \in 1..n : i <= j => account[i] - account[j] <= d
        /\ \E i, j \in 1..n : i <= j /\ account[i] - account[j] = d
    BY Zenon DEF FallIsMeasured
  <1> HIDE DEF n
  <1>6. \A x \in S : x \in Int /\ x <= d
    <2> SUFFICES ASSUME NEW x \in S PROVE x \in Int /\ x <= d
      OBVIOUS
    <2>1. PICK q \in spans : x = account[q[1]] - account[q[2]]
      BY <1>3
    <2>2. q[1] \in 1..n /\ q[2] \in 1..n /\ q[1] <= q[2]
      BY <1>1, <2>1
    <2>3. account[q[1]] \in Int /\ account[q[2]] \in Int
      BY <1>1, <2>2
    <2>4. account[q[1]] - account[q[2]] <= d
      BY <1>5, <2>2
    <2> QED
      BY <2>1, <2>3, <2>4
  <1>7. d \in S
    <2>1. PICK i \in 1..n, j \in 1..n : i <= j /\ account[i] - account[j] = d
      BY <1>5
    <2>2. <<i, j>> \in spans /\ <<i, j>>[1] = i /\ <<i, j>>[2] = j
      BY <1>1, <2>1
    <2> HIDE DEF S
    <2> QED
      BY <1>3, <2>1, <2>2
  <1> DEFINE m == Max(S)
  <1>8. Fall = m
    BY <1>3, Zenon DEF Fall
  <1> HIDE DEF S
  <1>9. S \subseteq Int /\ S # {}
    BY <1>6, <1>7
  <1>10. m \in S /\ \A y \in S : m >= y
    BY <1>4, <1>9, GreatestIsMax, Zenon
  <1> HIDE DEF m
  <1>11. m = d
    BY <1>6, <1>7, <1>10
  <1> QED
    BY <1>8, <1>11

LEMMA LadderFollows == LadderInv => LadderTypeOK /\ LadderIsHonest
  <1> SUFFICES ASSUME LadderInv PROVE LadderTypeOK /\ LadderIsHonest
    OBVIOUS
  <1>1. /\ bar \in 0..MaxBars /\ disasters \in 0..bar /\ SoundLadder(ladder)
        /\ disasters = 0 => FallIsMeasured(account, ladder.peak, ladder.drawdown)
    BY DEF LadderInv
  <1>2. /\ ladder \in Ladders /\ Spaced(ladder) /\ Len(ladder.tranches) <= Slots
        /\ ladder.buys = ladder.sells + Len(ladder.tranches)
        /\ ladder.halted => ladder.tranches = <<>>
    BY <1>1, Zenon DEF SoundLadder
  <1>3. ladder.tranches \in Seq(LadderPrices) /\ ladder.drawdown \in Int
    BY <1>2 DEF Ladders
  <1>4. DOMAIN ladder.tranches = 1..Len(ladder.tranches)
        /\ \A i \in 1..Len(ladder.tranches) : ladder.tranches[i] \in LadderPrices
    BY <1>3, ElementOfSeq
  <1>5. disasters <= bar
    BY <1>1
  <1>6. disasters = 0 => ladder.drawdown = Fall
    BY <1>1, <1>3, FallMeasured, Zenon
  <1>7. LadderTypeOK
    BY <1>1, <1>2, <1>4, <1>5, Zenon DEF LadderTypeOK
  <1>8. \A i, j \in DOMAIN ladder.tranches :
          i < j => ladder.tranches[j] <= ladder.tranches[i] - Spacing
    BY <1>2, <1>4, Zenon DEF Spaced
  <1> QED
    BY <1>2, <1>6, <1>7, <1>8, Zenon DEF LadderIsHonest

-----------------------------------------------------------------------------
\* The returns of the episodes.

LEMMA NetsUnfold ==
    ASSUME NEW s \in Seq(Int)
    PROVE  \E f \in [0..Len(s) -> Int] :
             /\ SumOfNets(s) = f[Len(s)] /\ f[0] = 0
             /\ \A i \in 1..Len(s) : f[i] = f[i - 1] + s[i]
  <1> DEFINE n == Len(s)
             F(f) == [i \in 0..n |-> IF i = 0 THEN 0 ELSE f[i - 1] + s[i]]
             step == [i \in 1..n |-> [v \in Int |-> v + s[i]]]
             g == CHOOSE f : f = F(f)
  <1>1. SumOfNets(s) = g[n]
    BY DEF SumOfNets
  <1>2. n \in Nat /\ \A i \in 1..n : s[i] \in Int
    BY ElementOfSeq
  <1> HIDE DEF n
  <1>3. /\ step \in [1..n -> [Int -> Int]] /\ 0 \in Int
        /\ \A i \in 1..n : step[i] = [v \in Int |-> v + s[i]]
    BY <1>2
  <1> HIDE DEF step
  <1>4. PICK h \in [0..n -> Int] : Unrolled(h, n, 0, step)
    BY <1>2, <1>3, RecursionExists
  <1>5. ASSUME NEW i \in 1..n PROVE step[i][h[i - 1]] = h[i - 1] + s[i]
    <2>1. h[i - 1] \in Int
      BY <1>2, <1>4
    <2> QED
      BY <1>3, <2>1
  <1>6. h = F(h)
    <2>1. h = [i \in 0..n |-> IF i = 0 THEN 0 ELSE step[i][h[i - 1]]]
      BY <1>4 DEF Unrolled
    <2>2. \A i \in 0..n : h[i] = IF i = 0 THEN 0 ELSE h[i - 1] + s[i]
      <3> SUFFICES ASSUME NEW i \in 0..n
                   PROVE  h[i] = IF i = 0 THEN 0 ELSE h[i - 1] + s[i]
        OBVIOUS
      <3>1. h[i] = IF i = 0 THEN 0 ELSE step[i][h[i - 1]]
        BY <2>1
      <3>2. i # 0 => i \in 1..n
        BY <1>2
      <3> QED
        BY <1>5, <3>1, <3>2
    <2> QED
      BY <1>4, <2>2
  <1>7. g = F(g)
    BY <1>6, Zenon
  <1> HIDE DEF g
  <1>8. \A i \in 0..n : g[i] = IF i = 0 THEN 0 ELSE g[i - 1] + s[i]
    BY <1>7
  <1>9. g[0] = 0 /\ \A i \in 1..n : g[i] = g[i - 1] + s[i]
    BY <1>2, <1>8
  <1>10. \A i \in Nat : i <= n => g[i] \in Int
    <2> DEFINE R == {i \in Nat : i <= n => g[i] \in Int}
    <2>1. 0 \in R
      BY <1>9
    <2>2. ASSUME NEW i \in Nat, i < n, i \in R PROVE i + 1 \in R
      <3>1. i + 1 \in 1..n /\ (i + 1) - 1 = i /\ g[i] \in Int
        BY <1>2, <2>2
      <3>2. g[i + 1] = g[i] + s[i + 1]
        BY <1>9, <3>1
      <3> QED
        BY <1>2, <3>1, <3>2
    <2>3. \A i \in Nat : i <= n => i \in R
      <3> HIDE DEF R
      <3> QED
        BY <1>2, <2>1, <2>2, InductionUpTo
    <2> QED
      BY <2>3
  <1>11. g \in [0..n -> Int]
    <2>1. \A i \in 0..n : g[i] \in Int
      BY <1>2, <1>10
    <2> QED
      BY <1>7, <2>1
  <1> QED
    BY <1>1, <1>9, <1>11 DEF n

\* A sum is the difference of any account that each of the numbers moves.
LEMMA NetsAddUp ==
    ASSUME NEW s \in Seq(Int), NEW f \in [0..Len(s) -> Int],
           \A i \in 1..Len(s) : f[i] = f[i - 1] + s[i]
    PROVE  SumOfNets(s) \in Int /\ SumOfNets(s) = f[Len(s)] - f[0]
  <1> DEFINE n == Len(s)
  <1>1. PICK g \in [0..n -> Int] :
          /\ SumOfNets(s) = g[n] /\ g[0] = 0
          /\ \A i \in 1..n : g[i] = g[i - 1] + s[i]
    BY NetsUnfold
  <1>2. n \in Nat /\ \A i \in 1..n : s[i] \in Int
    BY ElementOfSeq
  <1>3. f \in [0..n -> Int] /\ \A i \in 1..n : f[i] = f[i - 1] + s[i]
    OBVIOUS
  <1> HIDE DEF n
  <1> DEFINE R == {i \in Nat : g[i] = f[i] - f[0]}
  <1>4. 0 \in R
    <2>1. f[0] \in Int
      BY <1>2, <1>3
    <2> QED
      BY <1>1, <2>1
  <1>5. ASSUME NEW i \in Nat, i < n, i \in R PROVE i + 1 \in R
    <2>1. i + 1 \in 1..n /\ (i + 1) - 1 = i /\ i \in 0..n /\ 0 \in 0..n
      BY <1>2, <1>5
    <2>2. g[i + 1] = g[i] + s[i + 1] /\ f[i + 1] = f[i] + s[i + 1]
      BY <1>1, <1>3, <2>1
    <2>3. g[i] = f[i] - f[0] /\ f[i] \in Int /\ f[0] \in Int /\ s[i + 1] \in Int
      BY <1>2, <1>3, <1>5, <2>1
    <2>4. g[i + 1] = f[i + 1] - f[0]
      BY <2>2, <2>3
    <2> QED
      BY <2>4
  <1>6. n \in R
    <2> HIDE DEF R
    <2>1. \A i \in Nat : i <= n => i \in R
      BY <1>2, <1>4, <1>5, InductionUpTo
    <2> QED
      BY <1>2, <2>1
  <1>7. g[n] \in Int
    BY <1>2
  <1> QED
    BY <1>1, <1>6, <1>7 DEF n

\* One more number is one more that is added.
LEMMA NetsAppended ==
    ASSUME NEW s \in Seq(Int), NEW x \in Int
    PROVE  SumOfNets(s) \in Int /\ SumOfNets(Append(s, x)) = SumOfNets(s) + x
  <1> DEFINE n == Len(s)
             u == Append(s, x)
  <1>1. PICK g \in [0..n -> Int] :
          /\ SumOfNets(s) = g[n] /\ g[0] = 0
          /\ \A i \in 1..n : g[i] = g[i - 1] + s[i]
    BY NetsUnfold
  <1>2. /\ n \in Nat /\ u \in Seq(Int) /\ Len(u) = n + 1 /\ u[n + 1] = x
        /\ \A i \in 1..n : u[i] = s[i]
    BY AppendProperties
  <1> HIDE DEF n, u
  <1> DEFINE f == [i \in 0..(n + 1) |-> IF i = n + 1 THEN g[n] + x ELSE g[i]]
  <1>3. f \in [0..(n + 1) -> Int]
    BY <1>2
  <1>4. \A i \in 1..(n + 1) : f[i] = f[i - 1] + u[i]
    <2> SUFFICES ASSUME NEW i \in 1..(n + 1) PROVE f[i] = f[i - 1] + u[i]
      OBVIOUS
    <2>1. CASE i = n + 1
      <3>1. f[i] = g[n] + x /\ f[i - 1] = g[n] /\ u[i] = x
        BY <1>2, <2>1
      <3> QED
        BY <3>1
    <2>2. CASE i # n + 1
      <3>1. i \in 1..n /\ f[i] = g[i] /\ f[i - 1] = g[i - 1] /\ u[i] = s[i]
        BY <1>2, <2>2, SMTT(30)
      <3> QED
        BY <1>1, <3>1
    <2> QED
      BY <2>1, <2>2
  <1>5. f[n + 1] = g[n] + x /\ f[0] = g[0] /\ g[n] \in Int
    BY <1>2
  <1> HIDE DEF f
  <1>6. SumOfNets(u) = f[n + 1] - f[0]
    BY <1>2, <1>3, <1>4, NetsAddUp
  <1> QED
    BY <1>1, <1>5, <1>6 DEF u

\* Nothing adds up to nothing.
LEMMA NothingAddsUp ==
    ASSUME NEW s \in Seq(Int), \A i \in 1..Len(s) : s[i] = 0
    PROVE  SumOfNets(s) = 0
  <1> DEFINE f == [i \in 0..Len(s) |-> 0]
  <1>1. Len(s) \in Nat
    OBVIOUS
  <1>2. f \in [0..Len(s) -> Int] /\ \A i \in 1..Len(s) : f[i] = f[i - 1] + s[i]
    BY <1>1
  <1>3. f[Len(s)] = 0 /\ f[0] = 0
    BY <1>1
  <1> HIDE DEF f
  <1> QED
    BY <1>2, <1>3, NetsAddUp

\* The sum of a piece is what the account gained over it.
LEMMA PieceAddsUp ==
    ASSUME NEW s \in Seq(Int), NEW f \in [0..Len(s) -> Int],
           \A i \in 1..Len(s) : f[i] = f[i - 1] + s[i],
           NEW a \in 1..Len(s), NEW b \in 1..Len(s), a <= b
    PROVE  /\ SumOfNets(SubSeq(s, a, b)) \in Int
           /\ SumOfNets(SubSeq(s, a, b)) = f[b] - f[a - 1]
  <1> DEFINE n == Len(s)
             u == SubSeq(s, a, b)
             m == b - a + 1
  <1>1. u \in Seq(Int) /\ Len(u) = m /\ \A i \in 1..m : i + a - 1 \in 1..n /\ u[i] = s[i + a - 1]
    BY PartOfList
  <1>2. n \in Nat /\ m \in Nat /\ m >= 1 /\ a \in Nat /\ a >= 1 /\ b = m + a - 1 /\ b <= n /\ b \in Nat
    OBVIOUS
  <1>3. f \in [0..n -> Int] /\ \A i \in 1..n : f[i] = f[i - 1] + s[i]
    OBVIOUS
  <1> HIDE DEF n, u, m
  <1> DEFINE g == [i \in 0..m |-> f[i + a - 1]]
  <1>4. g \in [0..m -> Int]
    BY ONLY <1>2, <1>3, SMTT(30)
  <1>5. \A i \in 1..m : g[i] = g[i - 1] + u[i]
    <2> SUFFICES ASSUME NEW i \in 1..m PROVE g[i] = g[i - 1] + u[i]
      OBVIOUS
    <2> DEFINE k == i + a - 1
    <2>1. k \in 1..n /\ u[i] = s[k]
      BY <1>1
    <2>2. g[i] = f[k] /\ g[i - 1] = f[k - 1]
      BY <1>2
    <2> HIDE DEF k, g
    <2> QED
      BY <1>3, <2>1, <2>2
  <1>6. g[m] = f[b] /\ g[0] = f[a - 1]
    BY <1>2
  <1> HIDE DEF g
  <1>7. SumOfNets(u) \in Int /\ SumOfNets(u) = g[m] - g[0]
    BY <1>1, <1>4, <1>5, NetsAddUp
  <1> QED
    BY <1>6, <1>7 DEF u

-----------------------------------------------------------------------------
\* The deepest fall between two episodes.

Falls == [equity : Int, peak : Int, worst : Int]

LEMMA FallUnfolds ==
    ASSUME NEW s \in Seq(Int)
    PROVE  \E f \in [0..Len(s) -> Falls] :
             /\ DeepestFall(s) = f[Len(s)].worst /\ f[0] = [equity |-> 0, peak |-> 0, worst |-> 0]
             /\ \A i \in 1..Len(s) : f[i] = Deepened(f[i - 1], s[i])
  <1> DEFINE n == Len(s)
             first == [equity |-> 0, peak |-> 0, worst |-> 0]
             F(f) == [i \in 0..n |-> IF i = 0 THEN first ELSE Deepened(f[i - 1], s[i])]
             step == [i \in 1..n |-> [v \in Falls |-> Deepened(v, s[i])]]
             g == CHOOSE f : f = F(f)
  <1>1. DeepestFall(s) = g[n].worst
    BY DEF DeepestFall
  <1>2. n \in Nat /\ \A i \in 1..n : s[i] \in Int
    BY ElementOfSeq
  <1>3. first \in Falls
    BY DEF Falls
  <1>4. ASSUME NEW v \in Falls, NEW x \in Int PROVE Deepened(v, x) \in Falls
    <2>1. v.equity \in Int /\ v.peak \in Int /\ v.worst \in Int
      BY DEF Falls
    <2> QED
      BY <2>1 DEF Deepened, Falls
  <1> HIDE DEF n, first
  <1>5. /\ step \in [1..n -> [Falls -> Falls]]
        /\ \A i \in 1..n : step[i] = [v \in Falls |-> Deepened(v, s[i])]
    BY <1>2, <1>4
  <1> HIDE DEF step
  <1>6. PICK h \in [0..n -> Falls] : Unrolled(h, n, first, step)
    BY <1>2, <1>3, <1>5, RecursionExists
  <1>7. ASSUME NEW i \in 1..n PROVE step[i][h[i - 1]] = Deepened(h[i - 1], s[i])
    <2>1. h[i - 1] \in Falls
      BY <1>2, <1>6
    <2> QED
      BY <1>5, <2>1
  <1>8. h = F(h)
    <2>1. h = [i \in 0..n |-> IF i = 0 THEN first ELSE step[i][h[i - 1]]]
      BY <1>6 DEF Unrolled
    <2>2. \A i \in 0..n : h[i] = IF i = 0 THEN first ELSE Deepened(h[i - 1], s[i])
      <3> SUFFICES ASSUME NEW i \in 0..n
                   PROVE  h[i] = IF i = 0 THEN first ELSE Deepened(h[i - 1], s[i])
        OBVIOUS
      <3>1. h[i] = IF i = 0 THEN first ELSE step[i][h[i - 1]]
        BY <2>1
      <3>2. i # 0 => i \in 1..n
        BY <1>2
      <3> QED
        BY <1>7, <3>1, <3>2, Zenon
    <2> QED
      BY <1>6, <2>2
  <1>9. g = F(g)
    BY <1>8, Zenon
  <1> HIDE DEF g
  <1>10. \A i \in 0..n : g[i] = IF i = 0 THEN first ELSE Deepened(g[i - 1], s[i])
    BY <1>9
  <1>11. g[0] = first /\ \A i \in 1..n : g[i] = Deepened(g[i - 1], s[i])
    BY <1>2, <1>10
  <1>12. \A i \in Nat : i <= n => g[i] \in Falls
    <2> DEFINE R == {i \in Nat : i <= n => g[i] \in Falls}
    <2>1. 0 \in R
      BY <1>3, <1>11
    <2>2. ASSUME NEW i \in Nat, i < n, i \in R PROVE i + 1 \in R
      <3>1. i + 1 \in 1..n /\ (i + 1) - 1 = i /\ g[i] \in Falls
        BY <1>2, <2>2
      <3>2. g[i + 1] = Deepened(g[i], s[i + 1])
        BY <1>11, <3>1
      <3>3. g[i + 1] \in Falls
        BY <1>2, <1>4, <3>1, <3>2
      <3> QED
        BY <3>3
    <2>3. \A i \in Nat : i <= n => i \in R
      <3> HIDE DEF R
      <3> QED
        BY <1>2, <2>1, <2>2, InductionUpTo
    <2> QED
      BY <2>3
  <1>13. g \in [0..n -> Falls]
    <2>1. \A i \in 0..n : g[i] \in Falls
      BY <1>2, <1>12
    <2> QED
      BY <1>9, <2>1
  <1> QED
    BY <1>1, <1>11, <1>13, Zenon DEF n, first

\* The peak and the deepest fall of the equity p up to its m-th value.
FallenTo(p, m, v) ==
    /\ v.equity = p[m]
    /\ \A k \in 0..m : p[k] <= v.peak
    /\ \E k \in 0..m : v.peak = p[k]
    /\ \A a, b \in 0..m : a <= b => p[a] - p[b] <= v.worst
    /\ \E a, b \in 0..m : a <= b /\ p[a] - p[b] = v.worst

LEMMA FallDeepens ==
    ASSUME NEW n \in Nat, NEW p \in [0..n -> Int], NEW m \in Nat, m < n, NEW v \in Falls,
           FallenTo(p, m, v), NEW x \in Int, p[m + 1] = p[m] + x
    PROVE  FallenTo(p, m + 1, Deepened(v, x))
  <1> DEFINE w == p[m + 1]
             k == v.peak
             f == v.worst
             q == IF w > k THEN w ELSE k
             g == IF q - w > f THEN q - w ELSE f
             u == Deepened(v, x)
  <1>1. k \in Int /\ f \in Int /\ v.equity \in Int /\ w \in Int /\ v.equity + x = w
    <2>1. k \in Int /\ f \in Int /\ v.equity \in Int
      BY DEF Falls
    <2>2. v.equity = p[m]
      BY Zenon DEF FallenTo
    <2>3. w \in Int
      BY m + 1 \in 0..n
    <2> QED
      BY <2>1, <2>2, <2>3, Zenon
  <1>2. u.equity = w /\ u.peak = q /\ u.worst = g
    <2>1. Deepened(v, x) = [equity |-> w, peak |-> q, worst |-> g]
      BY <1>1, Zenon DEF Deepened
    <2> HIDE DEF w, q, g
    <2> QED
      BY <2>1
  <1>3. /\ \A i \in 0..m : p[i] <= k
        /\ \E i \in 0..m : k = p[i]
        /\ \A a, b \in 0..m : a <= b => p[a] - p[b] <= f
        /\ \E a, b \in 0..m : a <= b /\ p[a] - p[b] = f
    BY Zenon DEF FallenTo
  <1> HIDE DEF w, k, f, u
  <1>4. \A i \in 0..(m + 1) : p[i] \in Int /\ (i \in 0..m \/ i = m + 1)
    OBVIOUS
  <1>5. m \in 0..m /\ \A i \in 0..m : i \in 0..(m + 1)
    OBVIOUS
  <1>6. 0 <= f
    <2>1. p[m] \in Int /\ p[m] - p[m] <= f
      BY <1>3, <1>4, <1>5, m <= m
    <2> QED
      BY <1>1, <2>1
  <1>7. q \in Int /\ g \in Int /\ q >= w /\ q >= k /\ g >= f /\ g >= q - w /\ 0 <= g
    BY <1>1, <1>6
  <1>8. (q = k \/ q = w) /\ (q = k => g >= k - w) /\ (g = f \/ (g = k - w /\ q = k))
    BY <1>1, <1>6
  <1> HIDE DEF q, g
  <1>9. \A i \in 0..(m + 1) : p[i] <= q
    <2> SUFFICES ASSUME NEW i \in 0..(m + 1) PROVE p[i] <= q
      OBVIOUS
    <2>1. CASE i \in 0..m
      <3>1. p[i] <= k /\ p[i] \in Int
        BY <1>3, <1>4, <2>1
      <3> QED
        BY <1>1, <1>7, <3>1
    <2>2. CASE i = m + 1
      BY <1>7, <2>2 DEF w
    <2> QED
      BY <1>4, <2>1, <2>2
  <1>10. \E i \in 0..(m + 1) : q = p[i]
    <2>1. CASE q = w
      BY <2>1 DEF w
    <2>2. CASE q = k
      BY <1>3, <1>5, <2>2, Zenon
    <2> QED
      BY <1>8, <2>1, <2>2
  <1>11. \A a, b \in 0..(m + 1) : a <= b => p[a] - p[b] <= g
    <2> SUFFICES ASSUME NEW a \in 0..(m + 1), NEW b \in 0..(m + 1), a <= b
                 PROVE  p[a] - p[b] <= g
      OBVIOUS
    <2>1. p[a] \in Int /\ p[b] \in Int
      BY <1>4
    <2>2. CASE b \in 0..m
      <3>1. a \in 0..m
        BY <2>2
      <3>2. p[a] - p[b] <= f
        BY <1>3, <2>2, <3>1
      <3> QED
        BY <1>1, <1>7, <2>1, <3>2
    <2>3. CASE b = m + 1
      <3>1. p[a] <= q /\ p[b] = w
        BY <1>9, <2>3 DEF w
      <3>2. p[a] - w <= g
        BY <1>1, <1>7, <2>1, <3>1
      <3> QED
        BY <3>1, <3>2
    <2> QED
      BY <1>4, <2>2, <2>3
  <1>12. \E a, b \in 0..(m + 1) : a <= b /\ p[a] - p[b] = g
    <2>1. CASE g = f
      <3>1. PICK a \in 0..m, b \in 0..m : a <= b /\ p[a] - p[b] = f
        BY <1>3
      <3>2. a \in 0..(m + 1) /\ b \in 0..(m + 1) /\ p[a] - p[b] = g
        BY <1>5, <2>1, <3>1, Zenon
      <3> QED
        BY <3>1, <3>2, Zenon
    <2>2. CASE g = k - w /\ q = k
      <3>1. PICK a \in 0..m : k = p[a]
        BY <1>3
      <3>2. a \in 0..(m + 1) /\ m + 1 \in 0..(m + 1) /\ a <= m + 1
        BY <1>5
      <3>3. p[a] - p[m + 1] = g
        BY <2>2, <3>1 DEF w
      <3> QED
        BY <3>2, <3>3, Zenon
    <2> QED
      BY <1>8, <2>1, <2>2
  <1> QED
    BY <1>2, <1>9, <1>10, <1>11, <1>12, Zenon DEF FallenTo, u, w

\* The drawdown of a list of returns is the deepest fall between two of them.
LEMMA DrawdownIsTheFall ==
    ASSUME NEW nets \in Seq(Int)
    PROVE  LET stretches == {s \in (DOMAIN nets) \X (DOMAIN nets) : s[1] <= s[2]}
               falls == {-SumOfNets(SubSeq(nets, s[1], s[2])) : s \in stretches}
           IN  DeepestFall(nets) = Max(falls \cup {0})
  <1> DEFINE n == Len(nets)
             D == DOMAIN nets
             stretches == {s \in D \X D : s[1] <= s[2]}
             falls == {-SumOfNets(SubSeq(nets, s[1], s[2])) : s \in stretches}
             worst == DeepestFall(nets)
  <1>1. PICK p \in [0..n -> Int] :
          /\ SumOfNets(nets) = p[n] /\ p[0] = 0
          /\ \A i \in 1..n : p[i] = p[i - 1] + nets[i]
    BY NetsUnfold
  <1>2. PICK f \in [0..n -> Falls] :
          /\ worst = f[n].worst /\ f[0] = [equity |-> 0, peak |-> 0, worst |-> 0]
          /\ \A i \in 1..n : f[i] = Deepened(f[i - 1], nets[i])
    BY FallUnfolds
  <1>3. n \in Nat /\ D = 1..n /\ \A i \in 1..n : nets[i] \in Int
    BY ElementOfSeq
  <1>4. ASSUME NEW a \in 1..n, NEW b \in 1..n, a <= b
        PROVE  SumOfNets(SubSeq(nets, a, b)) = p[b] - p[a - 1]
    BY <1>1, <1>4, PieceAddsUp
  <1> HIDE DEF n, D, worst
  <1> DEFINE R == {i \in Nat : FallenTo(p, i, f[i])}
  <1>5. 0 \in R
    <2>1. f[0].equity = 0 /\ f[0].peak = 0 /\ f[0].worst = 0
      BY <1>2
    <2>2. p[0] - p[0] = 0 /\ \A i \in 0..0 : i = 0
      BY <1>1
    <2>3. FallenTo(p, 0, f[0])
      BY <1>1, <2>1, <2>2 DEF FallenTo
    <2> QED
      BY <2>3
  <1>6. ASSUME NEW i \in Nat, i < n, i \in R PROVE i + 1 \in R
    <2>1. i + 1 \in 1..n /\ (i + 1) - 1 = i /\ i \in 0..n /\ FallenTo(p, i, f[i])
      BY <1>3, <1>6
    <2>2. /\ f[i + 1] = Deepened(f[i], nets[i + 1]) /\ f[i] \in Falls /\ nets[i + 1] \in Int
          /\ p[i + 1] = p[i] + nets[i + 1]
      BY <1>1, <1>2, <1>3, <2>1
    <2>3. FallenTo(p, i + 1, f[i + 1])
      BY <1>1, <1>3, <1>6, <2>1, <2>2, FallDeepens
    <2> QED
      BY <2>3
  <1>7. FallenTo(p, n, f[n])
    <2> HIDE DEF R
    <2>1. \A i \in Nat : i <= n => i \in R
      BY <1>3, <1>5, <1>6, InductionUpTo
    <2> QED
      BY <1>3, <2>1 DEF R
  <1>8. /\ \A a, b \in 0..n : a <= b => p[a] - p[b] <= worst
        /\ \E a, b \in 0..n : a <= b /\ p[a] - p[b] = worst
    BY <1>2, <1>7, Zenon DEF FallenTo
  <1>9. worst \in Int
    <2>1. f[n] \in Falls
      BY <1>3
    <2> QED
      BY <1>2, <2>1 DEF Falls
  <1> DEFINE F == [s \in stretches |-> -SumOfNets(SubSeq(nets, s[1], s[2]))]
             T == {F[s] : s \in stretches}
             S == falls \cup {0}
  <1>10. falls = T
    OBVIOUS
  <1>11. IsFiniteSet(S)
    <2>1. IsFiniteSet(1..n)
      BY <1>3, FS_Interval
    <2>2. IsFiniteSet(D \X D)
      BY <1>3, <2>1, FS_Product
    <2>3. IsFiniteSet(stretches)
      BY <2>2, FS_Subset
    <2>4. IsFiniteSet(T)
      <3> HIDE DEF stretches, F
      <3> QED
        BY <2>3, ImageIsFinite
    <2> HIDE DEF falls, T
    <2>5. IsFiniteSet(falls \cup {0})
      BY <1>10, <2>4, FS_AddElement
    <2> QED
      BY <2>5
  <1>12. ASSUME NEW x \in falls PROVE \E a, b \in 0..n : a <= b /\ x = p[a] - p[b]
    <2>1. PICK s \in stretches : x = -SumOfNets(SubSeq(nets, s[1], s[2]))
      BY <1>12
    <2>2. s[1] \in 1..n /\ s[2] \in 1..n /\ s[1] <= s[2]
      BY <1>3, <2>1
    <2>3. SumOfNets(SubSeq(nets, s[1], s[2])) = p[s[2]] - p[s[1] - 1]
      BY <1>4, <2>2
    <2> DEFINE a == s[1] - 1
               b == s[2]
    <2>4. a \in 0..n /\ b \in 0..n /\ a <= b
      BY ONLY <1>3, <2>2, SMTT(30)
    <2>5. x = -(p[b] - p[a])
      BY <2>1, <2>3, Zenon
    <2> HIDE DEF a, b
    <2>6. p[a] \in Int /\ p[b] \in Int
      BY <1>3, <2>4
    <2>7. x = p[a] - p[b]
      BY <2>5, <2>6
    <2> QED
      BY <2>4, <2>7
  <1>13. \A x \in S : x \in Int /\ x <= worst
    <2> SUFFICES ASSUME NEW x \in S PROVE x \in Int /\ x <= worst
      OBVIOUS
    <2>1. \E a, b \in 0..n : a <= b /\ x = p[a] - p[b]
      <3>1. CASE x = 0
        <4>1. 0 \in 0..n /\ p[0] - p[0] = 0 /\ 0 <= 0
          BY <1>1, <1>3
        <4> QED
          BY <3>1, <4>1
      <3>2. CASE x \in falls
        BY <1>12, <3>2
      <3> QED
        BY <3>1, <3>2
    <2>2. PICK a \in 0..n, b \in 0..n : a <= b /\ x = p[a] - p[b]
      BY <2>1
    <2>3. p[a] \in Int /\ p[b] \in Int
      BY <1>3
    <2>4. p[a] - p[b] <= worst
      BY <1>8, <2>2
    <2> QED
      BY <2>2, <2>3, <2>4
  <1>14. worst \in S
    <2>1. PICK a \in 0..n, b \in 0..n : a <= b /\ p[a] - p[b] = worst
      BY <1>8
    <2>2. p[a] \in Int /\ p[b] \in Int
      BY <1>3
    <2>3. CASE a = b
      <3>1. p[a] - p[a] = 0
        BY <2>2
      <3>2. worst = 0
        BY <2>1, <2>3, <3>1
      <3> QED
        BY <3>2
    <2>4. CASE a # b
      <3> DEFINE c == a + 1
      <3>1. c \in 1..n /\ b \in 1..n /\ c <= b /\ c - 1 = a
        BY <1>3, <2>1, <2>4
      <3> HIDE DEF c
      <3>2. SumOfNets(SubSeq(nets, c, b)) = p[b] - p[a]
        BY <1>4, <3>1, Zenon
      <3>3. <<c, b>> \in stretches /\ <<c, b>>[1] = c /\ <<c, b>>[2] = b
        BY <1>3, <3>1
      <3> HIDE DEF stretches
      <3>4. -SumOfNets(SubSeq(nets, c, b)) \in falls
        BY <3>3
      <3> HIDE DEF falls
      <3>5. -(p[b] - p[a]) = worst
        BY <2>1, <2>2
      <3>6. worst \in falls
        BY <3>2, <3>4, <3>5, Zenon
      <3> QED
        BY <3>6
    <2> QED
      BY <2>3, <2>4
  <1> DEFINE m == Max(S)
  <1> HIDE DEF S
  <1>15. S \subseteq Int /\ S # {}
    BY <1>13, <1>14
  <1>16. m \in S /\ \A y \in S : m >= y
    BY <1>11, <1>15, GreatestIsMax, Zenon
  <1> HIDE DEF m
  <1>17. m = worst
    BY <1>9, <1>13, <1>14, <1>16
  <1> QED
    BY <1>17, Zenon DEF m, S, worst, D

-----------------------------------------------------------------------------
\* The folds, and the splits of them.

\* Every return is in one fold, and a fold is a piece of the list.
LEMMA FoldsPart ==
    ASSUME NEW n \in Nat
    PROVE  LET folds == FoldBounds(n)
               K == IF n < FoldCount THEN n ELSE FoldCount
           IN  /\ K \in Nat /\ DOMAIN folds = 1..K
               /\ \A f \in 1..K : /\ folds[f][1] \in 1..n /\ folds[f][2] \in 1..n
                                  /\ folds[f][1] <= folds[f][2]
               /\ \A i \in 1..n :
                    \E f \in 1..K :
                      /\ i \in folds[f][1]..folds[f][2]
                      /\ \A g \in (1..K) \ {f} : i \notin folds[g][1]..folds[g][2]
  <1> DEFINE F == FoldCount
             q == n \div F
             size == IF q > 0 THEN q ELSE 1
             K == IF n < F THEN n ELSE F
             low(f) == (f - 1) * size + 1
             up(f) == IF f = F THEN n ELSE f * size
             folds == FoldBounds(n)
  <1>1. F \in Nat /\ F >= 2
    BY EpisodeAssumption
  <1>2. folds = [f \in 1..K |-> <<low(f), up(f)>>]
    BY Zenon DEF FoldBounds
  <1> HIDE DEF F
  <1>3. q \in Int /\ F * q <= n /\ n < F * (q + 1)
    BY <1>1
  <1> HIDE DEF q
  <1>4. q >= 0
    <2>1. ASSUME q < 0 PROVE FALSE
      <3>1. F * (q + 1) <= 0
        BY <1>1, <1>3, <2>1
      <3>2. F * (q + 1) \in Int
        BY <1>1, <1>3
      <3> QED
        BY <1>3, <3>1, <3>2
    <2> QED
      BY <1>3, <2>1
  <1>5. size \in Nat /\ size >= 1
    BY <1>3, <1>4
  <1>6. n < F => size = 1
    <2> SUFFICES ASSUME n < F PROVE q = 0
      OBVIOUS
    <2>1. ASSUME q >= 1 PROVE FALSE
      <3>1. F * q >= F
        BY <1>1, <1>3, <2>1
      <3>2. F * q \in Int
        BY <1>1, <1>3
      <3> QED
        BY <1>1, <1>3, <3>1, <3>2
    <2> QED
      BY <1>3, <1>4, <2>1
  <1>7. n >= F => F * size <= n
    <2> SUFFICES ASSUME n >= F PROVE q > 0
      BY <1>3
    <2>1. ASSUME q = 0 PROVE FALSE
      BY <1>1, <1>3, <2>1
    <2> QED
      BY <1>3, <1>4, <2>1
  <1> HIDE DEF size
  <1>8. K \in Nat /\ K <= n /\ K <= F
    BY <1>1
  \* What a number of folds takes.
  <1>9. \A a, b \in Nat : a <= b => a * size \in Nat /\ b * size \in Nat /\ a * size <= b * size
    <2> SUFFICES ASSUME NEW a \in Nat, NEW b \in Nat, a <= b
                 PROVE  a * size \in Nat /\ b * size \in Nat /\ a * size <= b * size
      OBVIOUS
    <2>1. a * size \in Nat /\ b * size \in Nat
      BY <1>5
    <2> QED
      BY <1>5, <2>1, ProductInOrder
  <1>10. \A f \in 1..K : /\ (f - 1) * size \in Nat /\ f * size \in Nat /\ f * size = (f - 1) * size + size
                         /\ f * size <= n
    <2> SUFFICES ASSUME NEW f \in 1..K
                 PROVE  /\ (f - 1) * size \in Nat /\ f * size \in Nat /\ f * size = (f - 1) * size + size
                        /\ f * size <= n
      OBVIOUS
    <2>1. f \in Nat /\ f - 1 \in Nat /\ f - 1 <= f /\ f <= K
      BY <1>8
    <2>2. (f - 1) * size \in Nat /\ f * size \in Nat
      BY <1>9, <2>1
    <2>3. f * size = (f - 1) * size + size
      BY <1>5, <2>1
    <2>4. f * size <= n
      <3>1. CASE n < F
        <4>1. size = 1 /\ f <= n
          BY <1>6, <1>8, <2>1, <3>1
        <4>2. f * 1 = f
          BY <2>1
        <4> QED
          BY <4>1, <4>2
      <3>2. CASE n >= F
        <4>1. f <= F /\ F * size <= n
          BY <1>1, <1>7, <1>8, <2>1, <3>2
        <4>2. f * size <= F * size /\ F * size \in Nat
          BY <1>1, <1>9, <2>1, <4>1
        <4> QED
          BY <2>2, <4>1, <4>2
      <3> QED
        BY <1>1, <3>1, <3>2
    <2> QED
      BY <2>2, <2>3, <2>4
  <1>11. \A f \in 1..K : low(f) \in 1..n /\ up(f) \in 1..n /\ low(f) <= up(f)
    <2> SUFFICES ASSUME NEW f \in 1..K PROVE low(f) \in 1..n /\ up(f) \in 1..n /\ low(f) <= up(f)
      OBVIOUS
    <2> DEFINE x == (f - 1) * size
               y == f * size
    <2>1. x \in Nat /\ y \in Nat /\ y = x + size /\ y <= n
      BY <1>10
    <2> HIDE DEF x, y
    <2>2. x + 1 \in 1..n /\ x + 1 <= y /\ y \in 1..n /\ n \in 1..n
      BY <1>5, <2>1
    <2> QED
      BY <2>1, <2>2 DEF x, y
  <1>12. ASSUME NEW i \in 1..n
         PROVE  \E f \in 1..K :
                  /\ i \in low(f)..up(f)
                  /\ \A g \in (1..K) \ {f} : i \notin low(g)..up(g)
    <2> DEFINE r == (i - 1) \div size
               h == r + 1
               f == IF h <= K THEN h ELSE K
    <2>1. r \in Int /\ size * r <= i - 1 /\ i - 1 < size * (r + 1)
      BY <1>5
    <2> HIDE DEF r
    <2>2. r >= 0
      <3>1. ASSUME r < 0 PROVE FALSE
        <4>1. size * (r + 1) <= 0 /\ size * (r + 1) \in Int
          BY <1>5, <2>1, <3>1
        <4> QED
          BY <2>1, <4>1
      <3> QED
        BY <2>1, <3>1
    <2>3. h \in Nat /\ h >= 1 /\ (h - 1) * size + 1 <= i /\ i <= h * size
      <3>1. size * r = (h - 1) * size /\ size * (r + 1) = h * size
        BY <1>5, <2>1
      <3>2. (h - 1) * size \in Int /\ h * size \in Int
        BY <1>5, <2>1
      <3>3. h \in Nat /\ h >= 1
        BY <2>1, <2>2
      <3> QED
        BY <2>1, <3>1, <3>2, <3>3
    <2> HIDE DEF h
    <2>4. K >= 1
      BY <1>1
    <2>5. f \in 1..K
      <3> HIDE DEF K
      <3> QED
        BY <1>8, <2>3, <2>4
    <2>6. low(f) <= i /\ i <= up(f)
      <3>1. CASE h <= K
        <4>1. f = h
          BY <3>1
        <4>2. low(h) <= i /\ i <= up(h)
          <5>1. CASE h = F
            BY <2>3, <5>1
          <5>2. CASE h # F
            BY <2>3, <5>2
          <5> QED
            BY <5>1, <5>2
        <4> QED
          BY <4>1, <4>2, Zenon
      <3>2. CASE ~(h <= K)
        <4>1. n >= F
          <5>1. ASSUME n < F PROVE FALSE
            <6>1. size = 1 /\ K = n
              BY <1>6, <5>1
            <6>2. (h - 1) * 1 + 1 <= i
              BY <2>3, <6>1
            <6> QED
              BY <2>3, <3>2, <6>1, <6>2
          <5> QED
            BY <1>1, <5>1
        <4>2. K = F /\ f = F
          BY <1>1, <3>2, <4>1
        <4>3. F - 1 \in Nat /\ h - 1 \in Nat /\ F - 1 <= h - 1
          BY <1>1, <1>8, <2>3, <3>2, <4>2
        <4>4. (F - 1) * size <= (h - 1) * size /\ (F - 1) * size \in Nat /\ (h - 1) * size \in Nat
          BY <1>9, <4>3
        <4>5. (F - 1) * size + 1 <= i
          BY <2>3, <4>4
        <4> HIDE DEF f
        <4> QED
          BY <4>2, <4>5
      <3> QED
        BY <3>1, <3>2
    <2> HIDE DEF f
    <2>7. ASSUME NEW a \in 1..K, NEW b \in 1..K, a < b, i <= up(a), low(b) <= i PROVE FALSE
      <3>1. a # F /\ a \in Nat /\ b - 1 \in Nat /\ a <= b - 1
        BY <1>1, <1>8, <2>7
      <3>2. a * size <= (b - 1) * size /\ a * size \in Nat /\ (b - 1) * size \in Nat
        BY <1>9, <3>1
      <3>3. i <= a * size /\ (b - 1) * size + 1 <= i
        BY <2>7, <3>1
      <3> QED
        BY <3>2, <3>3
    <2>8. ASSUME NEW g \in (1..K) \ {f}, i \in low(g)..up(g) PROVE FALSE
      <3>1. low(g) <= i /\ i <= up(g)
        BY <1>11, <2>8
      <3>2. f < g \/ g < f
        BY <1>8, <2>5
      <3> HIDE DEF low, up
      <3> QED
        BY <2>5, <2>6, <2>7, <3>1, <3>2, Zenon
    <2>9. i \in low(f)..up(f)
      <3>1. low(f) \in 1..n /\ up(f) \in 1..n
        BY <1>11, <2>5
      <3> HIDE DEF low, up
      <3> QED
        BY <2>6, <3>1
    <2> HIDE DEF low, up
    <2> QED
      BY <2>5, <2>8, <2>9, Zenon
  <1> HIDE DEF low, up, K
  <1>13. DOMAIN folds = 1..K /\ \A f \in 1..K : folds[f][1] = low(f) /\ folds[f][2] = up(f)
    BY <1>2
  <1>14. \A f \in 1..K : folds[f][1] \in 1..n /\ folds[f][2] \in 1..n /\ folds[f][1] <= folds[f][2]
    BY <1>11, <1>13, Zenon
  <1>15. \A i \in 1..n :
           \E f \in 1..K :
             /\ i \in folds[f][1]..folds[f][2]
             /\ \A g \in (1..K) \ {f} : i \notin folds[g][1]..folds[g][2]
    <2> SUFFICES ASSUME NEW i \in 1..n
                 PROVE  \E f \in 1..K :
                          /\ i \in folds[f][1]..folds[f][2]
                          /\ \A g \in (1..K) \ {f} : i \notin folds[g][1]..folds[g][2]
      OBVIOUS
    <2>1. PICK f \in 1..K : i \in low(f)..up(f) /\ \A g \in (1..K) \ {f} : i \notin low(g)..up(g)
      BY <1>12
    <2>2. i \in folds[f][1]..folds[f][2]
      BY <1>13, <2>1
    <2>3. ASSUME NEW g \in (1..K) \ {f} PROVE i \notin folds[g][1]..folds[g][2]
      BY <1>13, <2>1
    <2> QED
      BY <2>2, <2>3, Zenon
  <1> QED
    BY <1>8, <1>13, <1>14, <1>15, Zenon DEF K, F

\* Of two splits that train on what the other is judged by, one is not overfitted: no more
\* than half of them are.
LEMMA NoMoreThanHalf ==
    ASSUME NEW sums \in Seq(Int)
    PROVE  LET trainings == {t \in SUBSET (DOMAIN sums) : t # {} /\ t # DOMAIN sums}
           IN  2 * Cardinality({t \in trainings : Overfitted(sums, t)}) <= Cardinality(trainings)
  <1> DEFINE D == DOMAIN sums
             T == {t \in SUBSET D : t # {} /\ t # D}
             L == {t \in T : Overfitted(sums, t)}
             c == [t \in L |-> D \ t]
             M == {c[t] : t \in L}
             inner(t) == [i \in D |-> IF i \in t THEN sums[i] ELSE 0]
             outer(t) == [i \in D |-> IF i \in t THEN 0 ELSE sums[i]]
  <1>1. Len(sums) \in Nat /\ D = 1..Len(sums) /\ \A i \in D : sums[i] \in Int
    BY ElementOfSeq
  <1>2. IsFiniteSet(D)
    BY <1>1, FS_Interval
  <1>3. IsFiniteSet(T) /\ IsFiniteSet(L)
    <2> HIDE DEF D
    <2>1. IsFiniteSet(SUBSET D)
      BY <1>2, FS_SUBSET
    <2>2. T \in SUBSET (SUBSET D) /\ L \in SUBSET (SUBSET D)
      OBVIOUS
    <2> QED
      BY <2>1, <2>2, FS_Subset
  <1>4. ASSUME NEW t \in L PROVE D \ t \in T /\ D \ t \notin L
    <2>1. t \subseteq D /\ t # {} /\ t # D /\ Overfitted(sums, t)
      OBVIOUS
    <2>2. D \ t \in T
      BY <2>1
    <2>3. inner(D \ t) = outer(t)
      <3>1. \A i \in D : (IF i \in D \ t THEN sums[i] ELSE 0) = (IF i \in t THEN 0 ELSE sums[i])
        OBVIOUS
      <3> QED
        BY <3>1, Zenon
    <2>4. outer(t) \in Seq(Int)
      <3>1. outer(t) \in [1..Len(sums) -> Int]
        BY <1>1
      <3> QED
        BY <1>1, <3>1, SeqDef
    <2>5. SumOfNets(outer(t)) \in Int /\ SumOfNets(outer(t)) <= 0
      <3>1. SumOfNets(outer(t)) \in Int
        <4> HIDE DEF outer
        <4> QED
          BY <2>4, NetsAppended, 0 \in Int
      <3>2. SumOfNets(outer(t)) <= 0
        BY <2>1, Zenon DEF Overfitted
      <3> QED
        BY <3>1, <3>2
    <2>6. ASSUME Overfitted(sums, D \ t) PROVE FALSE
      <3>1. SumOfNets(inner(D \ t)) > 0
        BY <2>6, Zenon DEF Overfitted
      <3> HIDE DEF inner, outer
      <3>2. SumOfNets(outer(t)) > 0
        BY <2>3, <3>1, Zenon
      <3> QED
        BY <2>5, <3>2
    <2> QED
      BY <2>2, <2>6
  <1>5. \A t, u \in L : c[t] = c[u] => t = u
    <2> SUFFICES ASSUME NEW t \in L, NEW u \in L, c[t] = c[u] PROVE t = u
      OBVIOUS
    <2>1. t \subseteq D /\ u \subseteq D /\ D \ t = D \ u
      OBVIOUS
    <2> QED
      BY <2>1
  <1>6. \A m \in M : m \in T /\ m \notin L
    BY <1>4
  <1> HIDE DEF D, c
  <1> HIDE DEF T, L
  <1>7. IsFiniteSet(M) /\ Cardinality(M) = Cardinality(L)
    <2>1. LET U == {c[x] : x \in L}
          IN  /\ IsFiniteSet(U) /\ Cardinality(U) \in Nat /\ Cardinality(U) <= Cardinality(L)
              /\ Cardinality(U) = Cardinality(L) <=> \A x, y \in L : c[x] = c[y] => x = y
      BY <1>3, DistinctCount, Zenon
    <2> QED
      BY <1>5, <2>1, Zenon
  <1> HIDE DEF M
  <1>8. L \cap M = {} /\ L \cup M \in SUBSET T
    <2>1. L \subseteq T
      BY DEF L
    <2> QED
      BY <1>6, <2>1
  <1>9. IsFiniteSet(L \cup M) /\ Cardinality(L \cup M) = Cardinality(L) + Cardinality(M)
    BY <1>3, <1>7, <1>8, DisjointAdd, Zenon
  <1>10. Cardinality(L \cup M) <= Cardinality(T)
    BY <1>3, <1>8, FS_Subset
  <1>11. Cardinality(L) \in Nat /\ Cardinality(T) \in Nat
    BY <1>3, FS_CardinalityType
  <1>12. 2 * Cardinality(L) <= Cardinality(T)
    BY <1>7, <1>9, <1>10, <1>11
  <1> QED
    BY <1>12, Zenon DEF T, L, D

-----------------------------------------------------------------------------
\* The candles and the pieces of the history.

Candles == [from : Int, to : Int]
Gatherings == [out : Seq(Candles), bucket : Seq(Int)]

\* What has been gathered: whole candles in order, and the hours that begin the next one.
GatheredWell(v, size) ==
    /\ \A k \in 1..Len(v.out) : v.out[k].to - v.out[k].from + 1 = size
    /\ \A k \in 2..Len(v.out) : v.out[k].from > v.out[k - 1].to
    /\ Len(v.bucket) < size
    /\ \A k \in 1..Len(v.bucket) : v.bucket[k] = v.bucket[1] + k - 1
    /\ v.bucket # <<>> => \A k \in 1..Len(v.out) : v.out[k].to < v.bucket[1]
GatheredBefore(v, h) ==
    /\ \A k \in 1..Len(v.out) : v.out[k].to < h
    /\ v.bucket # <<>> => v.bucket[Len(v.bucket)] < h

\* An hour is gathered.
LEMMA HourGathered ==
    ASSUME NEW size \in Nat \ {0}, NEW v \in Gatherings, GatheredWell(v, size),
           NEW h \in Int, GatheredBefore(v, h)
    PROVE  LET u == Gathered(v, h, size)
           IN  /\ u \in Gatherings /\ GatheredWell(u, size)
               /\ \A x \in Int : x > h => GatheredBefore(u, x)
  <1> DEFINE o == v.out
             c == v.bucket
             m == Len(c)
             n == Len(o)
             gap == c # <<>> /\ h > Last(c) + 1
             b == IF gap THEN <<h>> ELSE Append(c, h)
             u == Gathered(v, h, size)
             new == [from |-> Head(b), to |-> h]
  <1>1. /\ o \in Seq(Candles) /\ c \in Seq(Int) /\ m \in Nat /\ n \in Nat
        /\ \A k \in 1..m : c[k] \in Int
        /\ \A k \in 1..n : o[k] \in Candles /\ o[k].from \in Int /\ o[k].to \in Int
    <2>1. o \in Seq(Candles) /\ c \in Seq(Int)
      BY DEF Gatherings
    <2> HIDE DEF o, c
    <2>2. \A k \in 1..n : o[k] \in Candles
      BY <2>1, ElementOfSeq
    <2>3. \A k \in 1..m : c[k] \in Int
      BY <2>1, ElementOfSeq
    <2>4. \A k \in 1..n : o[k].from \in Int /\ o[k].to \in Int
      BY <2>2 DEF Candles
    <2> QED
      BY <2>1, <2>2, <2>3, <2>4
  <1>2. /\ \A k \in 1..n : o[k].to - o[k].from + 1 = size
        /\ \A k \in 2..n : o[k].from > o[k - 1].to
        /\ m < size
        /\ \A k \in 1..m : c[k] = c[1] + k - 1
        /\ c # <<>> => \A k \in 1..n : o[k].to < c[1]
    BY Zenon DEF GatheredWell
  <1>3. /\ \A k \in 1..n : o[k].to < h
        /\ c # <<>> => c[m] < h
    BY Zenon DEF GatheredBefore
  <1>4. u = IF Len(b) = size THEN [out |-> Append(o, new), bucket |-> <<>>] ELSE [v EXCEPT !.bucket = b]
    BY Zenon DEF Gathered
  <1>5. c # <<>> => m >= 1 /\ Last(c) = c[m]
    BY <1>1 DEF Last
  <1> HIDE DEF o, c
  \* The hours in the bucket follow one another.
  <1>6. /\ b \in Seq(Int) /\ Len(b) \in Nat /\ Len(b) >= 1 /\ Len(b) <= size
        /\ \A k \in 1..Len(b) : b[k] = b[1] + k - 1
        /\ b[1] \in Int /\ h = b[1] + Len(b) - 1
        /\ \A k \in 1..n : o[k].to < b[1]
    <2>1. CASE gap \/ c = <<>>
      <3>1. b = <<h>>
        <4>1. CASE gap
          BY <4>1, Zenon
        <4>2. CASE ~gap /\ c = <<>>
          <5>1. b = Append(<<>>, h)
            BY <4>2, Zenon
          <5> HIDE DEF b
          <5> QED
            BY <5>1
        <4> QED
          BY <2>1, <4>1, <4>2
      <3> HIDE DEF b
      <3>2. b \in Seq(Int) /\ Len(b) = 1 /\ b[1] = h
        BY <3>1
      <3> QED
        BY <1>1, <1>3, <3>2
    <2>2. CASE ~gap /\ c # <<>>
      <3>1. m \in 1..m /\ 1 \in 1..m
        BY <1>1, <1>5, <2>2
      <3>2. c[m] \in Int /\ c[1] \in Int /\ c[m] = c[1] + m - 1
        BY <1>1, <1>2, <3>1
      <3>3. h = c[m] + 1
        <4>1. ~(h > c[m] + 1) /\ c[m] < h
          BY <1>3, <1>5, <2>2, Zenon
        <4> QED
          BY <3>2, <4>1
      <3>4. b = Append(c, h)
        BY <2>2, Zenon
      <3> HIDE DEF b, m
      <3>5. /\ b \in Seq(Int) /\ Len(b) = m + 1 /\ b[m + 1] = h /\ \A k \in 1..m : b[k] = c[k]
        BY <1>1, <3>4, AppendProperties DEF m
      <3>6. b[1] = c[1] /\ h = c[1] + m
        BY <1>1, <3>1, <3>2, <3>3, <3>5
      <3>7. \A k \in 1..(m + 1) : b[k] = b[1] + k - 1
        <4> SUFFICES ASSUME NEW k \in 1..(m + 1) PROVE b[k] = b[1] + k - 1
          OBVIOUS
        <4>1. CASE k = m + 1
          BY <1>1, <3>2, <3>5, <3>6, <4>1
        <4>2. CASE k # m + 1
          <5>1. k \in 1..m
            BY <1>1, <4>2
          <5>2. c[k] = c[1] + k - 1
            BY <1>2, <5>1 DEF m
          <5> QED
            BY <3>5, <3>6, <5>1, <5>2
        <4> QED
          BY <4>1, <4>2
      <3>8. \A k \in 1..n : o[k].to < b[1]
        BY <1>2, <2>2, <3>6, Zenon
      <3>9. m < size
        BY <1>2 DEF m
      <3> QED
        BY <1>1, <3>2, <3>5, <3>6, <3>7, <3>8, <3>9
    <2> QED
      BY <2>1, <2>2
  <1> HIDE DEF b, u, m
  <1>7. CASE Len(b) = size
    <2>1. Head(b) = b[1]
      BY <1>6
    <2>2. new \in Candles /\ new.from = b[1] /\ new.to = h
      BY <1>6, <2>1 DEF Candles
    <2> HIDE DEF new
    <2> DEFINE p == Append(o, new)
    <2>3. p \in Seq(Candles) /\ Len(p) = n + 1 /\ p[n + 1] = new /\ \A k \in 1..n : p[k] = o[k]
      BY <1>1, <2>2, AppendProperties
    <2>4. u = [out |-> p, bucket |-> <<>>]
      BY <1>4, <1>7, Zenon
    <2> HIDE DEF p, n
    <2>5. <<>> \in Seq(Int) /\ Len(<<>>) = 0
      OBVIOUS
    <2>6. u \in Gatherings /\ u.out = p /\ u.bucket = <<>>
      BY <2>3, <2>4, <2>5 DEF Gatherings
    <2>7. \A k \in 1..(n + 1) : k \in 1..n \/ k = n + 1
      BY <1>1
    <2>8. \A k \in 1..(n + 1) : p[k].to - p[k].from + 1 = size
      <3> SUFFICES ASSUME NEW k \in 1..(n + 1) PROVE p[k].to - p[k].from + 1 = size
        OBVIOUS
      <3>1. CASE k \in 1..n
        <4>1. p[k] = o[k] /\ o[k].to - o[k].from + 1 = size
          BY <1>2, <2>3, <3>1 DEF n
        <4> QED
          BY <4>1, Zenon
      <3>2. CASE k = n + 1
        <4>1. p[k].to = h /\ p[k].from = b[1]
          BY <2>2, <2>3, <3>2, Zenon
        <4>2. h - b[1] + 1 = size
          BY <1>6, <1>7
        <4> QED
          BY <4>1, <4>2, Zenon
      <3> QED
        BY <2>7, <3>1, <3>2
    <2>9. \A k \in 2..(n + 1) : p[k].from > p[k - 1].to
      <3> SUFFICES ASSUME NEW k \in 2..(n + 1) PROVE p[k].from > p[k - 1].to
        OBVIOUS
      <3>1. k - 1 \in 1..n
        BY <1>1
      <3>2. CASE k = n + 1
        <4>1. p[k].from = b[1] /\ p[k - 1] = o[k - 1]
          BY <2>2, <2>3, <3>1, <3>2, Zenon
        <4>2. o[k - 1].to < b[1] /\ o[k - 1].to \in Int
          BY <1>1, <1>6, <3>1 DEF n
        <4>3. b[1] > o[k - 1].to
          BY <1>6, <4>2
        <4> QED
          BY <4>1, <4>3, Zenon
      <3>3. CASE k # n + 1
        <4>1. k \in 2..n /\ k \in 1..n
          BY <1>1, <3>3
        <4>2. o[k].from > o[k - 1].to
          BY <1>2, <4>1 DEF n
        <4> QED
          BY <2>3, <3>1, <4>1, <4>2, Zenon
      <3> QED
        BY <3>2, <3>3
    <2>10. GatheredWell(u, size)
      <3>1. 0 < size /\ 1..0 = {}
        OBVIOUS
      <3>2. \A k \in 1..Len(<<>>) : FALSE
        BY <2>5, <3>1
      <3> QED
        BY <2>3, <2>5, <2>6, <2>8, <2>9, <3>1, <3>2 DEF GatheredWell
    <2>11. ASSUME NEW x \in Int, x > h PROVE GatheredBefore(u, x)
      <3>1. \A k \in 1..(n + 1) : p[k].to < x
        <4> SUFFICES ASSUME NEW k \in 1..(n + 1) PROVE p[k].to < x
          OBVIOUS
        <4>1. CASE k \in 1..n
          <5>1. o[k].to < h /\ o[k].to \in Int
            BY <1>1, <1>3, <4>1 DEF n
          <5>2. o[k].to < x
            BY <2>11, <5>1
          <5> QED
            BY <2>3, <4>1, <5>2, Zenon
        <4>2. CASE k = n + 1
          <5>1. p[k].to = h
            BY <2>2, <2>3, <4>2, Zenon
          <5> QED
            BY <2>11, <5>1
        <4> QED
          BY <2>7, <4>1, <4>2
      <3> QED
        BY <2>3, <2>6, <3>1, Zenon DEF GatheredBefore
    <2> QED
      BY <2>6, <2>10, <2>11, Zenon DEF u
  <1>8. CASE Len(b) # size
    <2>1. u = [v EXCEPT !.bucket = b]
      BY <1>4, <1>8, Zenon
    <2>2. u \in Gatherings /\ u.out = o /\ u.bucket = b
      BY <1>6, <2>1 DEF Gatherings, o
    <2>3. Len(b) < size /\ b # <<>>
      BY <1>6, <1>8
    <2>4. GatheredWell(u, size)
      BY <1>2, <1>6, <2>2, <2>3, Zenon DEF GatheredWell
    <2>5. ASSUME NEW x \in Int, x > h PROVE GatheredBefore(u, x)
      <3>1. Len(b) \in 1..Len(b)
        BY <1>6
      <3>2. b[Len(b)] = h
        BY <1>6, <3>1
      <3>3. \A k \in 1..n : o[k].to < x
        BY <1>1, <1>3, <2>5
      <3> QED
        BY <2>2, <2>5, <3>2, <3>3 DEF GatheredBefore
    <2> QED
      BY <2>2, <2>4, <2>5, Zenon DEF u
  <1> QED
    BY <1>7, <1>8

LEMMA ResamplingUnfolds ==
    ASSUME NEW s \in Seq(Int), NEW size \in Nat \ {0}
    PROVE  \E f \in [0..Len(s) -> Gatherings] :
             /\ Resampled(s, size) = f[Len(s)].out /\ f[0] = [out |-> <<>>, bucket |-> <<>>]
             /\ \A i \in 1..Len(s) : f[i] = Gathered(f[i - 1], s[i], size)
  <1> DEFINE n == Len(s)
             first == [out |-> <<>>, bucket |-> <<>>]
             F(f) == [i \in 0..n |-> IF i = 0 THEN first ELSE Gathered(f[i - 1], s[i], size)]
             step == [i \in 1..n |-> [v \in Gatherings |-> Gathered(v, s[i], size)]]
             g == CHOOSE f : f = F(f)
  <1>1. Resampled(s, size) = g[n].out
    BY DEF Resampled
  <1>2. n \in Nat /\ \A i \in 1..n : s[i] \in Int
    BY ElementOfSeq
  <1>3. first \in Gatherings
    BY DEF Gatherings
  <1>4. ASSUME NEW v \in Gatherings, NEW x \in Int PROVE Gathered(v, x, size) \in Gatherings
    <2> DEFINE o == v.out
               c == v.bucket
               gap == c # <<>> /\ x > Last(c) + 1
               b == IF gap THEN <<x>> ELSE Append(c, x)
    <2>1. o \in Seq(Candles) /\ c \in Seq(Int)
      BY DEF Gatherings
    <2>2. Gathered(v, x, size) =
            IF Len(b) = size THEN [out |-> Append(o, [from |-> Head(b), to |-> x]), bucket |-> <<>>]
            ELSE [v EXCEPT !.bucket = b]
      BY Zenon DEF Gathered
    <2> HIDE DEF o, c
    <2>3. b \in Seq(Int) /\ b # <<>>
      <3>1. b = <<x>> \/ b = Append(c, x)
        BY Zenon
      <3> HIDE DEF b
      <3>2. <<x>> \in Seq(Int) /\ <<x>> # <<>>
        OBVIOUS
      <3>3. Append(c, x) \in Seq(Int) /\ Append(c, x) # <<>>
        BY <2>1
      <3> QED
        BY <3>1, <3>2, <3>3, Zenon
    <2> HIDE DEF b
    <2>4. CASE Len(b) = size
      <3> DEFINE new == [from |-> Head(b), to |-> x]
      <3>1. new \in Candles
        BY <2>3, HeadTailProperties DEF Candles
      <3> HIDE DEF new
      <3>2. Append(o, new) \in Seq(Candles) /\ <<>> \in Seq(Int)
        BY <2>1, <3>1
      <3>3. Gathered(v, x, size) = [out |-> Append(o, new), bucket |-> <<>>]
        BY <2>2, <2>4, Zenon DEF new
      <3> QED
        BY <3>2, <3>3 DEF Gatherings
    <2>5. CASE Len(b) # size
      <3>1. Gathered(v, x, size) = [v EXCEPT !.bucket = b]
        BY <2>2, <2>5, Zenon
      <3> QED
        BY <2>3, <3>1 DEF Gatherings
    <2> QED
      BY <2>4, <2>5
  <1> HIDE DEF n, first
  <1>5. /\ step \in [1..n -> [Gatherings -> Gatherings]]
        /\ \A i \in 1..n : step[i] = [v \in Gatherings |-> Gathered(v, s[i], size)]
    BY <1>2, <1>4
  <1> HIDE DEF step
  <1>6. PICK h \in [0..n -> Gatherings] : Unrolled(h, n, first, step)
    BY <1>2, <1>3, <1>5, RecursionExists
  <1>7. ASSUME NEW i \in 1..n PROVE step[i][h[i - 1]] = Gathered(h[i - 1], s[i], size)
    <2>1. h[i - 1] \in Gatherings
      BY <1>2, <1>6
    <2> QED
      BY <1>5, <2>1
  <1>8. h = F(h)
    <2>1. h = [i \in 0..n |-> IF i = 0 THEN first ELSE step[i][h[i - 1]]]
      BY <1>6 DEF Unrolled
    <2>2. \A i \in 0..n : h[i] = IF i = 0 THEN first ELSE Gathered(h[i - 1], s[i], size)
      <3> SUFFICES ASSUME NEW i \in 0..n
                   PROVE  h[i] = IF i = 0 THEN first ELSE Gathered(h[i - 1], s[i], size)
        OBVIOUS
      <3>1. h[i] = IF i = 0 THEN first ELSE step[i][h[i - 1]]
        BY <2>1
      <3>2. i # 0 => i \in 1..n
        BY <1>2
      <3> QED
        BY <1>7, <3>1, <3>2, Zenon
    <2> QED
      BY <1>6, <2>2
  <1>9. g = F(g)
    BY <1>8, Zenon
  <1> HIDE DEF g
  <1>10. \A i \in 0..n : g[i] = IF i = 0 THEN first ELSE Gathered(g[i - 1], s[i], size)
    BY <1>9
  <1>11. g[0] = first /\ \A i \in 1..n : g[i] = Gathered(g[i - 1], s[i], size)
    BY <1>2, <1>10
  <1>12. \A i \in Nat : i <= n => g[i] \in Gatherings
    <2> DEFINE R == {i \in Nat : i <= n => g[i] \in Gatherings}
    <2>1. 0 \in R
      BY <1>3, <1>11
    <2>2. ASSUME NEW i \in Nat, i < n, i \in R PROVE i + 1 \in R
      <3>1. i + 1 \in 1..n /\ (i + 1) - 1 = i /\ g[i] \in Gatherings
        BY <1>2, <2>2
      <3>2. g[i + 1] = Gathered(g[i], s[i + 1], size)
        BY <1>11, <3>1
      <3>3. g[i + 1] \in Gatherings
        BY <1>2, <1>4, <3>1, <3>2
      <3> QED
        BY <3>3
    <2>3. \A i \in Nat : i <= n => i \in R
      <3> HIDE DEF R
      <3> QED
        BY <1>2, <2>1, <2>2, InductionUpTo
    <2> QED
      BY <2>3
  <1>13. g \in [0..n -> Gatherings]
    <2>1. \A i \in 0..n : g[i] \in Gatherings
      BY <1>2, <1>12
    <2> QED
      BY <1>9, <2>1
  <1> QED
    BY <1>1, <1>11, <1>13, Zenon DEF n, first

\* Whatever hours are missing, a candle is of as many as it should be and after the one before.
LEMMA CandlesAreWhole ==
    ASSUME NEW s \in Seq(Int), \A i, j \in 1..Len(s) : i < j => s[i] < s[j],
           NEW size \in Nat \ {0}
    PROVE  LET c == Resampled(s, size)
           IN  /\ c \in Seq(Candles)
               /\ \A k \in 1..Len(c) : c[k].to - c[k].from + 1 = size
               /\ \A k \in 2..Len(c) : c[k].from > c[k - 1].to
  <1> DEFINE n == Len(s)
  <1>1. PICK f \in [0..n -> Gatherings] :
          /\ Resampled(s, size) = f[n].out /\ f[0] = [out |-> <<>>, bucket |-> <<>>]
          /\ \A i \in 1..n : f[i] = Gathered(f[i - 1], s[i], size)
    BY ResamplingUnfolds
  <1>2. n \in Nat /\ \A i \in 1..n : s[i] \in Int
    BY ElementOfSeq
  <1>3. \A i, j \in 1..n : i < j => s[i] < s[j]
    OBVIOUS
  <1> HIDE DEF n
  <1> DEFINE R == {i \in Nat : /\ GatheredWell(f[i], size)
                               /\ i < n => GatheredBefore(f[i], s[i + 1])}
  <1>4. 0 \in R
    <2>1. f[0].out = <<>> /\ f[0].bucket = <<>>
      BY <1>1
    <2>2. Len(<<>>) = 0 /\ 0 < size /\ (\A k \in 1..0 : FALSE) /\ (\A k \in 2..0 : FALSE)
      OBVIOUS
    <2>3. GatheredWell(f[0], size) /\ GatheredBefore(f[0], s[1])
      BY <2>1, <2>2, Zenon DEF GatheredWell, GatheredBefore
    <2> QED
      BY <2>3, 0 + 1 = 1
  <1>5. ASSUME NEW i \in Nat, i < n, i \in R PROVE i + 1 \in R
    <2>1. i + 1 \in 1..n /\ (i + 1) - 1 = i /\ i \in 0..n
      BY <1>2, <1>5
    <2>2. GatheredWell(f[i], size) /\ GatheredBefore(f[i], s[i + 1])
      BY <1>5
    <2>3. f[i + 1] = Gathered(f[i], s[i + 1], size) /\ f[i] \in Gatherings /\ s[i + 1] \in Int
      BY <1>1, <1>2, <2>1
    <2>4. GatheredWell(f[i + 1], size) /\ \A x \in Int : x > s[i + 1] => GatheredBefore(f[i + 1], x)
      BY <2>2, <2>3, HourGathered, Zenon
    <2>5. ASSUME i + 1 < n PROVE GatheredBefore(f[i + 1], s[(i + 1) + 1])
      <3> DEFINE j == (i + 1) + 1
      <3>1. j \in 1..n /\ i + 1 < j
        BY <1>2, <2>5
      <3> HIDE DEF j
      <3>2. s[j] \in Int /\ s[i + 1] < s[j]
        BY <1>2, <1>3, <2>1, <3>1
      <3>3. s[j] > s[i + 1]
        BY <2>3, <3>2
      <3> QED
        BY <2>4, <3>2, <3>3, Zenon DEF j
    <2> QED
      BY <2>4, <2>5
  <1>6. GatheredWell(f[n], size)
    <2> HIDE DEF R
    <2>1. \A i \in Nat : i <= n => i \in R
      BY <1>2, <1>4, <1>5, InductionUpTo
    <2> QED
      BY <1>2, <2>1 DEF R
  <1>7. f[n].out \in Seq(Candles)
    <2>1. f[n] \in Gatherings
      BY <1>2
    <2> QED
      BY <2>1 DEF Gatherings
  <1> QED
    BY <1>1, <1>6, <1>7, Zenon DEF GatheredWell

\* A segment ends before the next gap.
LEMMA SegmentEnds ==
    ASSUME NEW c, Len(c) \in Nat, NEW i \in 1..Len(c)
    PROVE  /\ StretchEnd(c, i) \in i..Len(c)
           /\ \A k \in (i + 1)..StretchEnd(c, i) : ~Starts(c, k)
  <1> DEFINE n == Len(c)
             T == {j \in i..n : j = n \/ Starts(c, j + 1)}
             P(j) == /\ j = n \/ Starts(c, j + 1)
                     /\ \A k \in (i + 1)..j : ~Starts(c, k)
  <1>1. n \in Nat /\ i \in Nat /\ i <= n
    OBVIOUS
  <1> HIDE DEF n
  <1>2. T \subseteq Nat /\ n \in T
    BY <1>1
  <1>3. PICK j \in T : \A m \in T : j <= m
    BY <1>2, LeastExists
  <1>4. ASSUME NEW k \in (i + 1)..j, Starts(c, k) PROVE FALSE
    <2>1. j \in i..n
      OBVIOUS
    <2>2. k - 1 \in i..n /\ (k - 1) + 1 = k /\ k - 1 < j
      BY <1>1, <2>1
    <2>3. k - 1 \in T
      BY <1>4, <2>2
    <2> QED
      BY <1>1, <1>3, <2>1, <2>2, <2>3
  <1>5. j \in i..n /\ P(j)
    BY <1>4
  <1>6. StretchEnd(c, i) = CHOOSE m \in i..n : P(m)
    BY Zenon DEF StretchEnd, n
  <1> HIDE DEF P, T
  <1>7. StretchEnd(c, i) \in i..n /\ P(StretchEnd(c, i))
    BY <1>5, <1>6, Zenon
  <1> QED
    BY <1>7, Zenon DEF P, n

\* The segments are pieces of the history in order, and none has a gap in it.
LEMMA SegmentsAreWhole ==
    ASSUME NEW c, Len(c) \in Nat, DOMAIN c = 1..Len(c)
    PROVE  LET w == Segments(c)
           IN  /\ w \in Seq(Nat \X Nat)
               /\ \A i \in 1..Len(w) :
                    /\ 1 <= w[i][1] /\ w[i][2] <= Len(c)
                    /\ \A k \in (w[i][1] + 1)..w[i][2] : ~Starts(c, k)
               /\ \A i, j \in 1..Len(w) : i < j => w[i][2] < w[j][1]
  <1> DEFINE n == Len(c)
             r == [i \in DOMAIN c |-> <<i, IF Starts(c, i) THEN StretchEnd(c, i) ELSE i>>]
             T == {piece \in ToSet(r) : piece[1] < piece[2]}
             w == Kept(r, T)
  <1>1. w = Segments(c)
    BY Zenon DEF Segments
  <1>2. n \in Nat /\ DOMAIN r = 1..n
    OBVIOUS
  <1>3. \A i \in 1..n : /\ r[i][1] = i /\ r[i] \in Nat \X Nat /\ r[i][2] \in i..n
                        /\ r[i][2] > i => Starts(c, i) /\ r[i][2] = StretchEnd(c, i)
    <2> SUFFICES ASSUME NEW i \in 1..n
                 PROVE  /\ r[i][1] = i /\ r[i] \in Nat \X Nat /\ r[i][2] \in i..n
                        /\ r[i][2] > i => Starts(c, i) /\ r[i][2] = StretchEnd(c, i)
      OBVIOUS
    <2> DEFINE x == IF Starts(c, i) THEN StretchEnd(c, i) ELSE i
    <2>1. r[i] = <<i, x>>
      BY <1>2
    <2>2. x \in i..n /\ (x > i => Starts(c, i) /\ x = StretchEnd(c, i))
      <3>1. CASE Starts(c, i)
        <4>1. x = StretchEnd(c, i)
          BY <3>1, Zenon
        <4>2. StretchEnd(c, i) \in i..n
          BY <1>2, SegmentEnds
        <4> QED
          BY <3>1, <4>1, <4>2, Zenon
      <3>2. CASE ~Starts(c, i)
        <4>1. x = i
          BY <3>2, Zenon
        <4> HIDE DEF x
        <4>2. i \in i..n /\ ~(i > i)
          BY <1>2
        <4> QED
          BY <4>1, <4>2, Zenon
      <3> QED
        BY <3>1, <3>2
    <2> HIDE DEF x, r
    <2>3. x \in Nat
      BY <1>2, <2>2
    <2> QED
      BY <1>2, <2>1, <2>2, <2>3
  <1>4. r \in Seq(Nat \X Nat)
    <2>1. r \in [1..n -> Nat \X Nat]
      <3>1. \A i \in 1..n : <<i, IF Starts(c, i) THEN StretchEnd(c, i) ELSE i>> \in Nat \X Nat
        BY <1>2, <1>3
      <3>2. DOMAIN c = 1..n
        OBVIOUS
      <3> QED
        BY <3>1, <3>2, Zenon
    <2> QED
      BY <1>2, <2>1, SeqDef
  <1> HIDE DEF n, r
  <1>5. /\ w \in Seq(Nat \X Nat) /\ Len(w) \in Nat /\ DOMAIN w = 1..Len(w)
        /\ \A i \in DOMAIN w : w[i] \in T /\ \E a \in DOMAIN r : w[i] = r[a]
        /\ \A i, j \in DOMAIN w : i < j =>
             \E a, b \in DOMAIN r : a < b /\ w[i] = r[a] /\ w[j] = r[b]
    <2> HIDE DEF T
    <2> QED
      BY ONLY <1>4, KeptInOrder
  <1>6. \A i \in 1..Len(w) : w[i][1] < w[i][2]
    BY <1>5
  <1> HIDE DEF w, T
  <1>7. ASSUME NEW i \in 1..Len(w), NEW a \in 1..n, w[i] = r[a]
        PROVE  /\ w[i][1] = a /\ w[i][2] \in a..n /\ Starts(c, a)
               /\ \A k \in (a + 1)..w[i][2] : ~Starts(c, k)
    <2>1. /\ r[a][1] = a /\ r[a][2] \in a..n
          /\ r[a][2] > a => Starts(c, a) /\ r[a][2] = StretchEnd(c, a)
      BY <1>3
    <2>2. r[a][1] < r[a][2]
      BY <1>6, <1>7, Zenon
    <2>3. r[a][2] > a
      BY <1>2, <2>1, <2>2
    <2>4. \A k \in (a + 1)..StretchEnd(c, a) : ~Starts(c, k)
      BY <1>2, SegmentEnds DEF n
    <2> QED
      BY <1>7, <2>1, <2>3, <2>4, Zenon
  <1>8. \A i \in 1..Len(w) : /\ 1 <= w[i][1] /\ w[i][2] <= n
                             /\ \A k \in (w[i][1] + 1)..w[i][2] : ~Starts(c, k)
    <2> SUFFICES ASSUME NEW i \in 1..Len(w)
                 PROVE  /\ 1 <= w[i][1] /\ w[i][2] <= n
                        /\ \A k \in (w[i][1] + 1)..w[i][2] : ~Starts(c, k)
      OBVIOUS
    <2>1. PICK a \in 1..n : w[i] = r[a]
      BY <1>2, <1>5
    <2>2. /\ w[i][1] = a /\ w[i][2] \in a..n
          /\ \A k \in (a + 1)..w[i][2] : ~Starts(c, k)
      BY <1>7, <2>1
    <2>3. 1 <= a /\ w[i][2] <= n
      BY <1>2, <2>2
    <2> QED
      BY <2>2, <2>3, Zenon
  <1>9. ASSUME NEW i \in 1..Len(w), NEW j \in 1..Len(w), i < j PROVE w[i][2] < w[j][1]
    <2>1. PICK a \in 1..n, b \in 1..n : a < b /\ w[i] = r[a] /\ w[j] = r[b]
      <3>1. i \in DOMAIN w /\ j \in DOMAIN w
        BY <1>5, Zenon
      <3>2. \E a, b \in DOMAIN r : a < b /\ w[i] = r[a] /\ w[j] = r[b]
        BY <1>5, <1>9, <3>1, Zenon
      <3> QED
        BY <1>2, <3>2, Zenon
    <2>2. /\ w[i][1] = a /\ w[i][2] \in a..n
          /\ \A k \in (a + 1)..w[i][2] : ~Starts(c, k)
      BY <1>7, <2>1
    <2>3. w[j][1] = b /\ Starts(c, b)
      BY <1>7, <2>1
    <2> DEFINE x == w[i][2]
    <2>4. ASSUME b <= x PROVE FALSE
      <3>1. b \in (a + 1)..x
        BY <1>2, <2>1, <2>2, <2>4
      <3> QED
        BY <2>2, <2>3, <3>1, Zenon
    <2>5. x \in Int /\ b \in Int
      BY <1>2, <2>2
    <2> HIDE DEF x
    <2>6. x < b
      BY <2>4, <2>5
    <2> QED
      BY <2>3, <2>6, Zenon DEF x
  <1> QED
    BY <1>1, <1>5, <1>8, <1>9, Zenon DEF n

-----------------------------------------------------------------------------
\* The walk of the harnesses.

\* The pieces are in the history and in order; in "oos" each is without a gap.
PiecesInv ==
    /\ candles \in Seq(Candles) /\ windows \in Seq(Nat \X Nat)
    /\ \A w \in 1..Len(windows) : 1 <= windows[w][1] /\ windows[w][2] <= Len(candles)
    /\ \A v, w \in 1..Len(windows) : v < w => windows[v][2] < windows[w][1]
    /\ harness = "oos" =>
         /\ \A k \in 1..Len(candles) : candles[k].from = candles[k].to
         /\ \A w \in 1..Len(windows) : \A a, b \in Int :
              windows[w][1] <= a /\ a <= b /\ b <= windows[w][2] =>
                candles[b].to - candles[a].to = b - a
    /\ harness = "study" =>
         \A k \in 1..Len(candles) : candles[k].to - candles[k].from + 1 \in CandleHours

\* The clock of the walk, and the setup.
PlaceInv ==
    /\ harness \in {"oos", "study"} /\ armedFor \in NotArmed..ArmTimeout
    /\ readingAt \in [window : Nat, bar : Nat]
    /\ readingAt.window >= 1 /\ readingAt.window <= Len(windows) + 1
    /\ readingAt.window <= Len(windows) => readingAt.bar >= windows[readingAt.window][1] + WarmupBars

\* The open position is of this piece, and no older than its time and what was not read.
TradeInv ==
    /\ openTrade \in [entry : Nat, blind : Nat]
    /\ InTrade =>
         /\ readingAt.window <= Len(windows) /\ armedFor = NotArmed
         /\ openTrade.entry >= windows[readingAt.window][1] + WarmupBars
         /\ openTrade.entry < readingAt.bar /\ readingAt.bar <= windows[readingAt.window][2] + 1
         /\ readingAt.bar - openTrade.entry <= LongestHold + openTrade.blind

EpisodeRecords == [window : Nat, entry : Nat, exit : Nat, blind : Nat, net : Int]
IsEpisode(e) ==
    /\ 1 <= e.window /\ e.window <= Len(windows)
    /\ e.entry >= windows[e.window][1] + WarmupBars /\ e.exit <= windows[e.window][2]
    /\ e.entry < e.exit /\ e.exit - e.entry <= LongestHold + e.blind

\* The episodes are of the pieces walked and behind the bar that is read.
EpisodesInv ==
    /\ episodes \in Seq(EpisodeRecords)
    /\ \A i \in 1..Len(episodes) : IsEpisode(episodes[i])
    /\ \A i \in 2..Len(episodes) : episodes[i].entry > episodes[i - 1].exit
    /\ \A i \in 1..Len(episodes) :
         /\ episodes[i].window <= readingAt.window
         /\ episodes[i].window = readingAt.window => episodes[i].exit < readingAt.bar
         /\ episodes[i].window = readingAt.window /\ InTrade => episodes[i].exit < openTrade.entry

\* An episode took three bars to arm, complete and end; in "study" a bar counts when it is
\* spent in a position.
CountInv ==
    /\ counted \in Nat
    /\ harness = "oos" =>
         counted >= 3 * Len(episodes) + IF InTrade THEN 2 ELSE IF armedFor = NotArmed THEN 0 ELSE 1
    /\ harness = "study" =>
         /\ armedFor = NotArmed
         /\ counted = HeldIn(readingAt.window)
                        + IF InTrade THEN readingAt.bar - 1 - openTrade.entry ELSE 0

StudyInv == PiecesInv /\ PlaceInv /\ TradeInv /\ EpisodesInv /\ CountInv /\ ReportIsOfEpisodes

LEMMA StudyFacts ==
    /\ WarmupBars \in Nat \ {0} /\ ArmTimeout \in Nat \ {0} /\ LongestHold \in Nat \ {0}
    /\ NotArmed = -1 /\ NetReturns \subseteq Int /\ LastStudyHour \in Nat
    /\ CandleHours \subseteq Nat \ {0}
  BY EpisodeAssumption DEF NotArmed

\* Over a piece without a gap the candles are as far apart as their places.
LEMMA NoGapWithin ==
    ASSUME NEW c \in Seq(Candles), NEW from \in Nat, NEW upto \in Nat, 1 <= from, upto <= Len(c),
           \A k \in 1..Len(c) : c[k].from = c[k].to,
           \A k \in 2..Len(c) : c[k].from > c[k - 1].to,
           \A k \in (from + 1)..upto : ~Starts(c, k),
           NEW a \in Int, NEW b \in Int, from <= a, a <= b, b <= upto
    PROVE  c[b].to - c[a].to = b - a
  <1>1. \A k \in 1..Len(c) : c[k].to \in Int
    <2> SUFFICES ASSUME NEW k \in 1..Len(c) PROVE c[k].to \in Int
      OBVIOUS
    <2>1. c[k] \in Candles
      BY ElementOfSeq
    <2> QED
      BY <2>1 DEF Candles
  <1> DEFINE n == Len(c)
             R == {i \in Nat : a + i <= upto => c[a + i].to - c[a].to = i}
  <1>2. n \in Nat
    OBVIOUS
  <1>3. 0 \in R
    <2>1. a \in 1..n /\ a + 0 = a
      BY <1>2
    <2>2. c[a].to - c[a].to = 0
      BY <1>1, <2>1
    <2> QED
      BY <2>1, <2>2
  <1>4. ASSUME NEW i \in Nat, i < b - a, i \in R PROVE i + 1 \in R
    <2> SUFFICES ASSUME a + (i + 1) <= upto PROVE c[a + (i + 1)].to - c[a].to = i + 1
      OBVIOUS
    <2> DEFINE k == a + (i + 1)
    <2>1. k \in 2..n /\ k \in 1..n /\ k - 1 \in 1..n /\ k - 1 = a + i /\ k \in (from + 1)..upto /\ a \in 1..n
      BY <1>2
    <2> HIDE DEF k
    <2>2. c[k - 1].to - c[a].to = i
      BY <1>4, <2>1
    <2>3. ~Starts(c, k) /\ k # 1
      BY <2>1
    <2>4. ~(c[k].from > c[k - 1].to + 1)
      BY <2>3, Zenon DEF Starts
    <2>5. c[k].from > c[k - 1].to /\ c[k].from = c[k].to
      BY <2>1
    <2>6. c[k].to \in Int /\ c[k - 1].to \in Int /\ c[a].to \in Int
      BY <1>1, <2>1
    <2> DEFINE x == c[k].to
               y == c[k - 1].to
    <2>7. x = y + 1
      <3>1. ~(x > y + 1) /\ x > y
        BY <2>4, <2>5, Zenon
      <3>2. x \in Int /\ y \in Int
        BY <2>6
      <3> HIDE DEF x, y
      <3> QED
        BY <3>1, <3>2
    <2>8. c[k].to - c[a].to = i + 1
      <3> DEFINE z == c[a].to
      <3>1. y - z = i /\ x = y + 1 /\ i \in Int
        BY <2>2, <2>7, i \in Int, Zenon
      <3>2. x \in Int /\ y \in Int /\ z \in Int
        BY <2>6, Zenon
      <3> HIDE DEF x, y, z
      <3>3. x - z = i + 1
        BY ONLY <3>1, <3>2
      <3> QED
        BY <3>3, Zenon DEF x, z
    <2> QED
      BY <2>8 DEF k
  <1>5. b - a \in Nat /\ a + (b - a) = b
    OBVIOUS
  <1>6. b - a \in R
    <2> HIDE DEF R
    <2>1. \A i \in Nat : i <= b - a => i \in R
      BY <1>3, <1>4, <1>5, InductionUpTo
    <2> QED
      BY <1>5, <2>1
  <1> QED
    BY <1>5, <1>6

\* The pieces of a history, however it is resampled and cut.
LEMMA PiecesInitially == StudyInit => PiecesInv
  <1> SUFFICES ASSUME StudyInit PROVE PiecesInv
    OBVIOUS
  <1>1. PICK present \in SUBSET (1..LastStudyHour), size \in CandleHours :
          LET hours == Kept([h \in 1..LastStudyHour |-> h], present) IN
          /\ harness = "oos" => size = 1
          /\ candles = Resampled(hours, size)
          /\ windows = IF harness = "oos" THEN Segments(candles) ELSE TrainAndTest(candles)
    BY Zenon DEF StudyInit
  <1> DEFINE all == [h \in 1..LastStudyHour |-> h]
             hours == Kept(all, present)
  <1>2. /\ harness = "oos" => size = 1
        /\ candles = Resampled(hours, size)
        /\ windows = IF harness = "oos" THEN Segments(candles) ELSE TrainAndTest(candles)
    BY <1>1, Zenon
  <1>3. size \in Nat \ {0}
    BY StudyFacts
  <1>4. all \in Seq(Int) /\ DOMAIN all = 1..LastStudyHour /\ \A i \in DOMAIN all : all[i] = i
    BY StudyFacts
  <1> HIDE DEF all
  <1>5. /\ hours \in Seq(Int) /\ Len(hours) \in Nat /\ DOMAIN hours = 1..Len(hours)
        /\ \A i, j \in DOMAIN hours : i < j =>
             \E a, b \in DOMAIN all : a < b /\ hours[i] = all[a] /\ hours[j] = all[b]
    BY ONLY <1>4, KeptInOrder
  <1> HIDE DEF hours
  <1>6. \A i, j \in 1..Len(hours) : i < j => hours[i] < hours[j]
    <2> SUFFICES ASSUME NEW i \in 1..Len(hours), NEW j \in 1..Len(hours), i < j
                 PROVE  hours[i] < hours[j]
      OBVIOUS
    <2>1. i \in DOMAIN hours /\ j \in DOMAIN hours
      BY <1>5
    <2>2. PICK a \in DOMAIN all, b \in DOMAIN all : a < b /\ hours[i] = all[a] /\ hours[j] = all[b]
      BY <1>5, <2>1, Zenon
    <2> QED
      BY <1>4, <2>2
  <1>7. /\ candles \in Seq(Candles)
        /\ \A k \in 1..Len(candles) : candles[k].to - candles[k].from + 1 = size
        /\ \A k \in 2..Len(candles) : candles[k].from > candles[k - 1].to
    BY <1>2, <1>3, <1>5, <1>6, CandlesAreWhole, Zenon
  <1>8. Len(candles) \in Nat /\ DOMAIN candles = 1..Len(candles)
        /\ \A k \in 1..Len(candles) : candles[k].from \in Int /\ candles[k].to \in Int
    <2>1. \A k \in 1..Len(candles) : candles[k] \in Candles
      BY <1>7, ElementOfSeq
    <2> QED
      BY <1>7, <2>1 DEF Candles
  <1>9. harness = "study" \/ harness = "oos"
    BY Zenon DEF StudyInit
  <1>10. harness = "study" =>
           \A k \in 1..Len(candles) : candles[k].to - candles[k].from + 1 \in CandleHours
    BY <1>7, Zenon
  <1>11. CASE harness = "oos"
    <2>1. \A k \in 1..Len(candles) : candles[k].from = candles[k].to
      <3> SUFFICES ASSUME NEW k \in 1..Len(candles) PROVE candles[k].from = candles[k].to
        OBVIOUS
      <3>1. candles[k].to - candles[k].from + 1 = 1
        BY <1>2, <1>7, <1>11, Zenon
      <3> QED
        BY <1>8, <3>1
    <2>2. windows = Segments(candles)
      BY <1>2, <1>11, Zenon
    <2>3. /\ windows \in Seq(Nat \X Nat)
          /\ \A i \in 1..Len(windows) :
               /\ 1 <= windows[i][1] /\ windows[i][2] <= Len(candles)
               /\ \A k \in (windows[i][1] + 1)..windows[i][2] : ~Starts(candles, k)
          /\ \A i, j \in 1..Len(windows) : i < j => windows[i][2] < windows[j][1]
      BY <1>8, <2>2, SegmentsAreWhole, Zenon
    <2>4. ASSUME NEW w \in 1..Len(windows), NEW a \in Int, NEW b \in Int,
                 windows[w][1] <= a, a <= b, b <= windows[w][2]
          PROVE  candles[b].to - candles[a].to = b - a
      <3> DEFINE from == windows[w][1]
                 upto == windows[w][2]
      <3>1. from \in Nat /\ upto \in Nat
        <4>1. windows[w] \in Nat \X Nat
          BY <2>3, ElementOfSeq
        <4> QED
          BY <4>1
      <3>2. /\ 1 <= from /\ upto <= Len(candles) /\ from <= a /\ b <= upto
            /\ \A k \in (from + 1)..upto : ~Starts(candles, k)
        BY <2>3, <2>4, Zenon
      <3> HIDE DEF from, upto
      <3> QED
        BY <1>7, <2>1, <2>4, <3>1, <3>2, NoGapWithin, Zenon
    <2> QED
      BY <1>7, <1>10, <2>1, <2>3, <2>4, Zenon DEF PiecesInv
  <1>12. CASE harness = "study"
    <2> DEFINE n == Len(candles)
               cut == (6 * n) \div 10
    <2>1. windows = <<<<1, cut>>, <<cut + 1, n>>>>
      BY <1>2, <1>12 DEF TrainAndTest
    <2>2. cut \in Nat /\ cut <= n /\ n \in Nat
      BY <1>8
    <2> HIDE DEF n, cut
    <2>3. <<1, cut>> \in Nat \X Nat /\ <<cut + 1, n>> \in Nat \X Nat
      BY <2>2
    <2>4. /\ windows \in Seq(Nat \X Nat) /\ Len(windows) = 2
          /\ windows[1][1] = 1 /\ windows[1][2] = cut
          /\ windows[2][1] = cut + 1 /\ windows[2][2] = n
      BY <2>1, <2>3
    <2>5. \A w \in 1..Len(windows) : 1 <= windows[w][1] /\ windows[w][2] <= n
      BY <2>2, <2>4
    <2>6. \A v, w \in 1..Len(windows) : v < w => windows[v][2] < windows[w][1]
      BY <2>2, <2>4
    <2>7. harness # "oos"
      BY <1>12
    <2> QED
      BY <1>7, <1>10, <2>4, <2>5, <2>6, <2>7, Zenon DEF PiecesInv, n
  <1> QED
    BY <1>9, <1>11, <1>12

-----------------------------------------------------------------------------
\* The bars held in a window, of any list of episodes.
HeldOf(es, w) ==
    SumOfNets([i \in DOMAIN es |-> IF es[i].window = w THEN es[i].exit - es[i].entry ELSE 0])

LEMMA HeldAfter ==
    ASSUME NEW es \in Seq(EpisodeRecords), NEW e \in EpisodeRecords, NEW w
    PROVE  /\ HeldOf(es, w) \in Int
           /\ HeldOf(Append(es, e), w) = HeldOf(es, w) + (IF e.window = w THEN e.exit - e.entry ELSE 0)
  <1> DEFINE n == Len(es)
             u == Append(es, e)
             x == IF e.window = w THEN e.exit - e.entry ELSE 0
             spans == [i \in DOMAIN es |-> IF es[i].window = w THEN es[i].exit - es[i].entry ELSE 0]
             after == [i \in DOMAIN u |-> IF u[i].window = w THEN u[i].exit - u[i].entry ELSE 0]
  <1>1. n \in Nat /\ DOMAIN es = 1..n /\ \A i \in 1..n : es[i] \in EpisodeRecords
    BY ElementOfSeq
  <1>2. /\ u \in Seq(EpisodeRecords) /\ Len(u) = n + 1 /\ u[n + 1] = e
        /\ \A i \in 1..n : u[i] = es[i]
    BY AppendProperties
  <1>3. DOMAIN u = 1..(n + 1)
    BY <1>2
  <1>4. \A d \in EpisodeRecords : d.exit - d.entry \in Int
    BY DEF EpisodeRecords
  <1>5. x \in Int
    BY <1>4
  <1>6. spans \in Seq(Int) /\ Len(spans) = n /\ DOMAIN spans = 1..n
    <2>1. \A i \in 1..n : (IF es[i].window = w THEN es[i].exit - es[i].entry ELSE 0) \in Int
      BY <1>1, <1>4
    <2>2. spans \in [1..n -> Int]
      BY <1>1, <2>1
    <2> QED
      BY <1>1, <2>2
  <1> HIDE DEF n, x, u
  <1>7. after = Append(spans, x)
    <2> DEFINE t == Append(spans, x)
    <2>1. /\ t \in Seq(Int) /\ Len(t) = n + 1 /\ t[n + 1] = x /\ \A i \in 1..n : t[i] = spans[i]
      BY <1>5, <1>6, AppendProperties
    <2>2. t = [i \in 1..(n + 1) |-> t[i]]
      BY <2>1
    <2> HIDE DEF t
    <2>3. \A i \in 1..(n + 1) : after[i] = t[i]
      <3> SUFFICES ASSUME NEW i \in 1..(n + 1) PROVE after[i] = t[i]
        OBVIOUS
      <3>1. CASE i = n + 1
        <4>1. after[i] = x
          BY <1>2, <1>3, <3>1, Zenon DEF x
        <4> QED
          BY <2>1, <3>1, <4>1, Zenon
      <3>2. CASE i # n + 1
        <4>1. i \in 1..n
          BY <1>1, <3>2
        <4>2. after[i] = spans[i]
          BY <1>1, <1>2, <1>3, <4>1, Zenon
        <4> QED
          BY <2>1, <4>1, <4>2, Zenon
      <3> QED
        BY <3>1, <3>2
    <2>4. after = [i \in 1..(n + 1) |-> after[i]]
      BY <1>3, Zenon
    <2> HIDE DEF after
    <2> QED
      BY <2>2, <2>3, <2>4, Zenon DEF t
  <1> HIDE DEF spans, after
  <1>8. SumOfNets(spans) \in Int /\ SumOfNets(after) = SumOfNets(spans) + x
    BY <1>5, <1>6, <1>7, NetsAppended, Zenon
  <1> QED
    BY <1>8, Zenon DEF HeldOf, spans, after, x, u

LEMMA NothingHeld ==
    ASSUME NEW es \in Seq(EpisodeRecords), NEW w, \A i \in 1..Len(es) : es[i].window # w
    PROVE  HeldOf(es, w) = 0
  <1> DEFINE n == Len(es)
             spans == [i \in DOMAIN es |-> IF es[i].window = w THEN es[i].exit - es[i].entry ELSE 0]
  <1>1. n \in Nat /\ DOMAIN es = 1..n
    OBVIOUS
  <1>2. spans \in Seq(Int) /\ Len(spans) = n /\ \A i \in 1..n : spans[i] = 0
    <2>1. spans \in [1..n -> Int] /\ \A i \in 1..n : spans[i] = 0
      BY <1>1
    <2> QED
      BY <1>1, <2>1
  <1> HIDE DEF n, spans
  <1>3. SumOfNets(spans) = 0
    BY <1>2, NothingAddsUp, Zenon
  <1> QED
    BY <1>3, Zenon DEF HeldOf, spans

\* What is counted, said of the lists themselves.
LEMMA CountSays ==
    /\ CountInv <=>
         /\ counted \in Nat
         /\ harness = "oos" =>
              counted >= 3 * Len(episodes)
                           + IF openTrade # NoOpenTrade THEN 2 ELSE IF armedFor = NotArmed THEN 0 ELSE 1
         /\ harness = "study" =>
              /\ armedFor = NotArmed
              /\ counted = HeldOf(episodes, readingAt.window)
                   + IF openTrade # NoOpenTrade THEN readingAt.bar - 1 - openTrade.entry ELSE 0
    /\ CountInv' <=>
         /\ counted' \in Nat
         /\ harness' = "oos" =>
              counted' >= 3 * Len(episodes')
                           + IF openTrade' # NoOpenTrade THEN 2 ELSE IF armedFor' = NotArmed THEN 0 ELSE 1
         /\ harness' = "study" =>
              /\ armedFor' = NotArmed
              /\ counted' = HeldOf(episodes', readingAt'.window)
                   + IF openTrade' # NoOpenTrade THEN readingAt'.bar - 1 - openTrade'.entry ELSE 0
  BY Zenon DEF CountInv, HeldIn, HeldOf, InTrade, NotArmed, NoOpenTrade

\* The bar that is read is in its window and behind the warmup.
LEMMA BarIsRead ==
    ASSUME StudyInv, ReadCandle
    PROVE  LET w == readingAt.window IN
           /\ readingAt' \in [window : Nat, bar : Nat]
           /\ readingAt'.window = w /\ readingAt'.bar = readingAt.bar + 1
           /\ w \in 1..Len(windows) /\ readingAt.bar \in Nat /\ w \in Nat
           /\ windows[w][1] \in Nat /\ windows[w][2] \in Nat
           /\ readingAt.bar <= windows[w][2] /\ readingAt.bar >= windows[w][1] + WarmupBars
           /\ readingAt.bar >= 2
           /\ harness' = harness /\ windows' = windows
           /\ PiecesInv' /\ ReportIsOfEpisodes'
  <1> DEFINE w == readingAt.window
             b == readingAt.bar
             low == windows[w][1]
             up == windows[w][2]
  <1>1. /\ readingAt \in [window : Nat, bar : Nat] /\ readingAt.window >= 1
        /\ readingAt.window <= Len(windows) => readingAt.bar >= windows[readingAt.window][1] + WarmupBars
    BY DEF StudyInv, PlaceInv
  <1>2. w \in Nat /\ b \in Nat
    BY <1>1
  <1>3. readingAt' = [readingAt EXCEPT !.bar = @ + 1]
    BY Zenon DEF ReadCandle
  <1>4. readingAt' \in [window : Nat, bar : Nat] /\ readingAt'.window = w /\ readingAt'.bar = b + 1
    BY <1>1, <1>3
  <1>5. w <= Len(windows) /\ b <= up
    BY Zenon DEF ReadCandle, InWindow
  <1>6. windows \in Seq(Nat \X Nat) /\ \A v \in 1..Len(windows) : 1 <= windows[v][1]
    BY DEF StudyInv, PiecesInv
  <1>7. w \in 1..Len(windows)
    BY <1>1, <1>2, <1>5, <1>6
  <1>8. windows[w] \in Nat \X Nat
    BY <1>6, <1>7, ElementOfSeq
  <1>9. low \in Nat /\ up \in Nat /\ 1 <= low
    BY <1>6, <1>7, <1>8
  <1>10. b >= low + WarmupBars
    BY <1>1, <1>5, Zenon
  <1>11. b >= 2
    <2> HIDE DEF b, low
    <2> QED
      BY <1>2, <1>9, <1>10, StudyFacts
  <1>12. UNCHANGED <<harness, candles, windows, studyReport>>
    BY Zenon DEF ReadCandle
  <1>13. PiecesInv'
    <2>1. PiecesInv
      BY Zenon DEF StudyInv
    <2> QED
      BY <1>12, <2>1, Zenon DEF PiecesInv
  <1>14. ReportIsOfEpisodes'
    <2>1. ReportIsOfEpisodes
      BY Zenon DEF StudyInv
    <2> QED
      BY <1>12, <2>1, Zenon DEF ReportIsOfEpisodes
  <1> HIDE DEF w, b, low, up
  <1> QED
    BY <1>2, <1>4, <1>5, <1>7, <1>9, <1>10, <1>11, <1>12, <1>13, <1>14, Zenon DEF w, b, low, up

\* The clock goes on with every bar.
LEMMA PlaceGoesOn ==
    ASSUME StudyInv, ReadCandle, armedFor' \in NotArmed..ArmTimeout
    PROVE  PlaceInv'
  <1> DEFINE w == readingAt.window
             b == readingAt.bar
             low == windows[w][1]
  <1>1. /\ readingAt' \in [window : Nat, bar : Nat]
        /\ readingAt'.window = w /\ readingAt'.bar = b + 1
        /\ w \in 1..Len(windows) /\ b \in Nat /\ w \in Nat /\ low \in Nat
        /\ b >= low + WarmupBars
        /\ harness' = harness /\ windows' = windows
    BY BarIsRead, Zenon
  <1>2. harness \in {"oos", "study"} /\ w >= 1 /\ w <= Len(windows) + 1
    BY Zenon DEF StudyInv, PlaceInv
  <1> HIDE DEF w, b, low
  <1>3. b + 1 >= low + WarmupBars
    BY <1>1, StudyFacts
  <1>4. windows'[readingAt'.window][1] = low
    BY <1>1, Zenon DEF low
  <1> QED
    BY <1>1, <1>2, <1>3, <1>4, NotArmed' = NotArmed, Zenon DEF PlaceInv, NotArmed

\* The episodes stay what they are when a bar is only passed.
LEMMA EpisodesStay ==
    ASSUME StudyInv, ReadCandle, episodes' = episodes,
           openTrade' # NoOpenTrade =>
             \/ openTrade # NoOpenTrade /\ openTrade'.entry = openTrade.entry
             \/ openTrade'.entry = readingAt.bar
    PROVE  EpisodesInv'
  <1>1. /\ readingAt'.window = readingAt.window /\ readingAt'.bar = readingAt.bar + 1
        /\ readingAt.bar \in Nat /\ windows' = windows
    BY BarIsRead, Zenon
  <1>2. /\ episodes \in Seq(EpisodeRecords)
        /\ \A i \in 1..Len(episodes) : IsEpisode(episodes[i])
        /\ \A i \in 2..Len(episodes) : episodes[i].entry > episodes[i - 1].exit
        /\ \A i \in 1..Len(episodes) :
             /\ episodes[i].window <= readingAt.window
             /\ episodes[i].window = readingAt.window => episodes[i].exit < readingAt.bar
             /\ episodes[i].window = readingAt.window /\ openTrade # NoOpenTrade =>
                  episodes[i].exit < openTrade.entry
    BY Zenon DEF StudyInv, EpisodesInv, InTrade
  <1>3. \A i \in 1..Len(episodes) :
          /\ episodes[i].window <= readingAt'.window
          /\ episodes[i].window = readingAt'.window => episodes[i].exit < readingAt'.bar
          /\ episodes[i].window = readingAt'.window /\ openTrade' # NoOpenTrade =>
               episodes[i].exit < openTrade'.entry
    <2> SUFFICES ASSUME NEW i \in 1..Len(episodes)
                 PROVE  /\ episodes[i].window <= readingAt'.window
                        /\ episodes[i].window = readingAt'.window => episodes[i].exit < readingAt'.bar
                        /\ episodes[i].window = readingAt'.window /\ openTrade' # NoOpenTrade =>
                             episodes[i].exit < openTrade'.entry
      BY Zenon
    <2> DEFINE x == episodes[i].exit
               b == readingAt.bar
    <2>1. x \in Nat
      <3>1. episodes[i] \in EpisodeRecords
        BY <1>2, ElementOfSeq
      <3> QED
        BY <3>1 DEF EpisodeRecords
    <2>2. b \in Nat
      BY <1>1
    <2>3. episodes[i].window = readingAt.window => x < b
      BY <1>2, Zenon
    <2> HIDE DEF x, b
    <2>4. x < b => x < b + 1
      BY <2>1, <2>2
    <2> QED
      BY <1>1, <1>2, <2>3, <2>4, Zenon DEF x, b
  <1>4. \A i \in 1..Len(episodes) : IsEpisode(episodes[i])'
    BY <1>1, <1>2, Zenon DEF IsEpisode
  <1> QED
    BY <1>2, <1>3, <1>4, episodes' = episodes, Zenon DEF EpisodesInv, InTrade, NoOpenTrade, IsEpisode

\* A position that ends is one more episode, behind all the others.
LEMMA EpisodeAdded ==
    ASSUME StudyInv, ReadCandle, InTrade, NEW net \in NetReturns, episodes' = EpisodeEnds(net),
           openTrade' = NoOpenTrade
    PROVE  LET e == [window |-> readingAt.window, entry |-> openTrade.entry, exit |-> readingAt.bar,
                     blind |-> openTrade.blind, net |-> net]
           IN  /\ e \in EpisodeRecords /\ episodes' = Append(episodes, e)
               /\ EpisodesInv'
  <1> DEFINE w == readingAt.window
             b == readingAt.bar
             low == windows[w][1]
             up == windows[w][2]
             a == openTrade.entry
             d == openTrade.blind
             e == [window |-> w, entry |-> a, exit |-> b, blind |-> d, net |-> net]
             n == Len(episodes)
             u == Append(episodes, e)
  <1>1. /\ readingAt'.window = w /\ readingAt'.bar = b + 1
        /\ w \in 1..Len(windows) /\ b \in Nat /\ w \in Nat /\ low \in Nat /\ up \in Nat
        /\ b <= up /\ windows' = windows
    BY BarIsRead, Zenon
  <1>2. /\ openTrade \in [entry : Nat, blind : Nat]
        /\ a >= low + WarmupBars /\ a < b /\ b - a <= LongestHold + d
    BY Zenon DEF StudyInv, TradeInv
  <1>3. a \in Nat /\ d \in Nat
    BY <1>2
  <1>4. net \in Int
    BY StudyFacts
  <1>5. e \in EpisodeRecords
    BY <1>1, <1>3, <1>4, Zenon DEF EpisodeRecords
  <1>6. /\ episodes \in Seq(EpisodeRecords)
        /\ \A i \in 1..n : IsEpisode(episodes[i])
        /\ \A i \in 2..n : episodes[i].entry > episodes[i - 1].exit
        /\ \A i \in 1..n :
             /\ episodes[i].window <= w
             /\ episodes[i].window = w => episodes[i].exit < b
             /\ episodes[i].window = w => episodes[i].exit < a
    BY Zenon DEF StudyInv, EpisodesInv
  <1>7. n \in Nat /\ \A i \in 1..n : episodes[i] \in EpisodeRecords
    BY <1>6, ElementOfSeq
  <1>8. /\ u \in Seq(EpisodeRecords) /\ Len(u) = n + 1 /\ u[n + 1] = e
        /\ \A i \in 1..n : u[i] = episodes[i]
    BY <1>5, <1>6, AppendProperties
  <1>9. e.window = w /\ e.entry = a /\ e.exit = b /\ e.blind = d
    OBVIOUS
  <1>10. episodes' = u
    BY Zenon DEF EpisodeEnds
  <1>11. 1 <= w /\ w <= Len(windows)
    <2>1. Len(windows) \in Nat
      BY DEF StudyInv, PiecesInv
    <2> HIDE DEF w
    <2> QED
      BY <1>1, <2>1
  <1>12. IsEpisode(e)
    BY <1>1, <1>2, <1>9, <1>11, Zenon DEF IsEpisode
  \* The episode before lies in this window, or in one that ended earlier.
  <1>13. \A i \in 1..n : episodes[i].exit < a
    <2> SUFFICES ASSUME NEW i \in 1..n PROVE episodes[i].exit < a
      OBVIOUS
    <2> DEFINE x == episodes[i].exit
               v == episodes[i].window
               end == windows[v][2]
    <2>1. CASE v = w
      BY <1>6, <2>1, Zenon
    <2>2. CASE v # w
      <3>1. v \in Nat /\ x \in Nat
        BY <1>7 DEF EpisodeRecords
      <3>2. v <= w /\ 1 <= v /\ x <= end
        BY <1>6, Zenon DEF IsEpisode
      <3>3. Len(windows) \in Nat /\ windows \in Seq(Nat \X Nat)
            /\ \A j, k \in 1..Len(windows) : j < k => windows[j][2] < windows[k][1]
        BY DEF StudyInv, PiecesInv
      <3> HIDE DEF v, x, w
      <3>4. v \in 1..Len(windows) /\ v < w
        BY <1>1, <2>2, <3>1, <3>2, <3>3
      <3>5. windows[v] \in Nat \X Nat
        BY <3>3, <3>4, ElementOfSeq
      <3>6. end \in Nat
        BY <3>5
      <3>7. end < low
        BY <1>1, <3>3, <3>4, Zenon
      <3> HIDE DEF end, low, a
      <3>8. x < a
        BY <1>1, <1>2, <1>3, <3>1, <3>2, <3>6, <3>7, StudyFacts
      <3> QED
        BY <3>8, Zenon DEF x
    <2> QED
      BY <2>1, <2>2
  <1> HIDE DEF e, u, w, b, low, up, a, d, n
  <1>14. \A i \in 1..(n + 1) : IsEpisode(u[i])
    <2> SUFFICES ASSUME NEW i \in 1..(n + 1) PROVE IsEpisode(u[i])
      OBVIOUS
    <2>1. i = n + 1 \/ i \in 1..n
      BY <1>7
    <2> QED
      BY <1>6, <1>8, <1>12, <2>1, Zenon
  <1>15. \A i \in 2..(n + 1) : u[i].entry > u[i - 1].exit
    <2> SUFFICES ASSUME NEW i \in 2..(n + 1) PROVE u[i].entry > u[i - 1].exit
      OBVIOUS
    <2>1. i - 1 \in 1..n /\ (i = n + 1 \/ (i \in 1..n /\ i \in 2..n))
      BY <1>7
    <2>2. CASE i = n + 1
      <3>1. u[i].entry = a /\ u[i - 1].exit = episodes[i - 1].exit
        BY <1>8, <1>9, <2>1, <2>2, Zenon
      <3> DEFINE x == episodes[i - 1].exit
      <3>2. x \in Nat /\ x < a
        <4>1. episodes[i - 1] \in EpisodeRecords
          BY <1>7, <2>1
        <4> QED
          BY <1>13, <2>1, <4>1 DEF EpisodeRecords
      <3> HIDE DEF x
      <3>3. a > x
        BY <1>3, <3>2
      <3> QED
        BY <3>1, <3>3, Zenon DEF x
    <2>3. CASE i \in 1..n /\ i \in 2..n
      BY <1>6, <1>8, <2>1, <2>3, Zenon
    <2> QED
      BY <2>1, <2>2, <2>3
  <1>16. \A i \in 1..(n + 1) : u[i].window <= w /\ (u[i].window = w => u[i].exit < b + 1)
    <2> SUFFICES ASSUME NEW i \in 1..(n + 1)
                 PROVE  u[i].window <= w /\ (u[i].window = w => u[i].exit < b + 1)
      OBVIOUS
    <2>1. i = n + 1 \/ i \in 1..n
      BY <1>7
    <2>2. CASE i = n + 1
      <3>1. u[i].window = w /\ u[i].exit = b
        BY <1>8, <1>9, <2>2, Zenon
      <3>2. w <= w /\ b < b + 1
        BY <1>1
      <3> QED
        BY <3>1, <3>2, Zenon
    <2>3. CASE i \in 1..n
      <3> DEFINE x == episodes[i].exit
      <3>1. x \in Nat
        BY <1>7, <2>3 DEF EpisodeRecords
      <3>2. episodes[i].window = w => x < b
        BY <1>6, <2>3, Zenon
      <3> HIDE DEF x
      <3>3. x < b => x < b + 1
        BY <1>1, <3>1
      <3> QED
        BY <1>6, <1>8, <2>3, <3>2, <3>3, Zenon DEF x
    <2> QED
      BY <2>1, <2>2, <2>3
  <1>18. EpisodesInv'
    BY <1>1, <1>8, <1>10, <1>15, <1>16, <1>14, Zenon DEF EpisodesInv, InTrade, NoOpenTrade, IsEpisode
  <1> QED
    BY <1>5, <1>10, <1>18, Zenon DEF e, u, w, b, a, d

\* A flat walk that stays flat.
LEMMA FlatStays ==
    ASSUME StudyInv, ReadCandle, ~InTrade, openTrade' = openTrade, episodes' = episodes,
           armedFor' \in NotArmed..ArmTimeout, harness = "study" => armedFor' = armedFor /\ counted' = counted,
           harness = "oos" =>
             counted' \in Nat /\ counted' >= counted /\ (armedFor' # NotArmed => counted' >= counted + 1 \/ armedFor # NotArmed)
    PROVE  StudyInv'
  <1> DEFINE w == readingAt.window
             n == Len(episodes)
  <1>1. PiecesInv' /\ ReportIsOfEpisodes' /\ readingAt'.window = w /\ harness' = harness
    BY BarIsRead, Zenon
  <1>2. PlaceInv'
    BY PlaceGoesOn
  <1>3. openTrade = NoOpenTrade /\ openTrade' = NoOpenTrade
    BY Zenon DEF InTrade
  <1>4. EpisodesInv'
    BY <1>3, EpisodesStay, Zenon
  <1>5. TradeInv'
    <2>1. openTrade' \in [entry : Nat, blind : Nat]
      BY Zenon DEF StudyInv, TradeInv
    <2> QED
      BY <1>3, <2>1, Zenon DEF TradeInv, InTrade, NoOpenTrade
  <1>6. CountInv'
    <2>1. /\ counted \in Nat
          /\ harness = "oos" => counted >= 3 * n + IF armedFor = NotArmed THEN 0 ELSE 1
          /\ harness = "study" => armedFor = NotArmed /\ counted = HeldOf(episodes, w) + 0
      <3>1. CountInv
        BY Zenon DEF StudyInv
      <3> QED
        BY <1>3, <3>1, CountSays, Zenon
    <2>2. harness = "oos" \/ harness = "study"
      BY DEF StudyInv, PlaceInv
    <2>3. n \in Nat
      BY DEF StudyInv, EpisodesInv
    <2> HIDE DEF n, w
    <2>4. counted' \in Nat
      BY <2>1, <2>2
    <2>5. harness = "oos" => counted' >= 3 * n + IF armedFor' = NotArmed THEN 0 ELSE 1
      BY <2>1, <2>3
    <2>6. harness = "study" => armedFor' = NotArmed /\ counted' = HeldOf(episodes, w) + 0
      BY <2>1, Zenon
    <2> QED
      BY <1>1, <1>3, <2>4, <2>5, <2>6, CountSays, Zenon DEF n, w
  <1> QED
    BY <1>1, <1>2, <1>4, <1>5, <1>6, Zenon DEF StudyInv

\* A flat walk that opens: in "oos" the setup had been armed by an earlier bar.
LEMMA FlatOpens ==
    ASSUME StudyInv, ReadCandle, ~InTrade, openTrade' = EpisodeStarts, episodes' = episodes,
           armedFor' = NotArmed, harness = "study" => counted' = counted,
           harness = "oos" => counted' = counted + 1 /\ armedFor # NotArmed
    PROVE  StudyInv'
  <1> DEFINE w == readingAt.window
             b == readingAt.bar
             low == windows[w][1]
             up == windows[w][2]
             n == Len(episodes)
  <1>1. /\ PiecesInv' /\ ReportIsOfEpisodes' /\ readingAt'.window = w /\ readingAt'.bar = b + 1
        /\ harness' = harness /\ windows' = windows /\ w \in 1..Len(windows)
        /\ b \in Nat /\ w \in Nat /\ low \in Nat /\ up \in Nat
        /\ b <= up /\ b >= low + WarmupBars /\ b >= 2
    BY BarIsRead, Zenon
  <1>2. PlaceInv'
    <2>1. armedFor' \in NotArmed..ArmTimeout
      BY StudyFacts
    <2> QED
      BY <2>1, PlaceGoesOn
  <1>3. openTrade = NoOpenTrade /\ openTrade' = [entry |-> b, blind |-> 0]
    BY Zenon DEF InTrade, EpisodeStarts
  <1>4. openTrade'.entry = b /\ openTrade'.blind = 0 /\ openTrade' \in [entry : Nat, blind : Nat]
    BY <1>1, <1>3
  <1>5. openTrade' # NoOpenTrade
    <2>1. openTrade'.entry # NoOpenTrade.entry
      BY <1>1, <1>4 DEF NoOpenTrade
    <2> QED
      BY <2>1, Zenon
  <1>6. EpisodesInv'
    BY <1>4, EpisodesStay, Zenon
  <1>7. w <= Len(windows)
    BY Zenon DEF ReadCandle, InWindow
  <1>8. TradeInv'
    <2> HIDE DEF w, b, low, up
    <2>1. /\ b >= low + WarmupBars /\ b < b + 1 /\ b + 1 <= up + 1 /\ (b + 1) - b <= LongestHold + 0
      BY <1>1, StudyFacts
    <2>2. windows'[readingAt'.window][1] = low /\ windows'[readingAt'.window][2] = up
      BY <1>1, Zenon DEF low, up
    <2> QED
      BY <1>1, <1>4, <1>7, <2>1, <2>2, Zenon DEF TradeInv, InTrade, NoOpenTrade, NotArmed
  <1>9. CountInv'
    <2>1. /\ counted \in Nat
          /\ harness = "oos" => counted >= 3 * n + IF armedFor = NotArmed THEN 0 ELSE 1
          /\ harness = "study" => armedFor = NotArmed /\ counted = HeldOf(episodes, w) + 0
      <3>1. CountInv
        BY Zenon DEF StudyInv
      <3> QED
        BY <1>3, <3>1, CountSays, Zenon
    <2>2. harness = "oos" \/ harness = "study"
      BY DEF StudyInv, PlaceInv
    <2>3. n \in Nat
      BY DEF StudyInv, EpisodesInv
    <2> HIDE DEF n, w, b
    <2>4. counted' \in Nat
      BY <2>1, <2>2
    <2>5. harness = "oos" => counted' >= 3 * n + 2
      BY <2>1, <2>3
    <2>6. (b + 1) - 1 - b = 0
      BY <1>1
    <2>7. harness = "study" => counted' = HeldOf(episodes, w) + ((b + 1) - 1 - b)
      BY <2>1, <2>6, Zenon
    <2> QED
      BY <1>1, <1>4, <1>5, <2>4, <2>5, <2>7, CountSays, Zenon DEF n, w, b
  <1> QED
    BY <1>1, <1>2, <1>6, <1>8, <1>9, Zenon DEF StudyInv

\* A position that is held on, or that was not looked at.
LEMMA TradeStays ==
    ASSUME StudyInv, ReadCandle, InTrade, episodes' = episodes, armedFor' = NotArmed,
           NEW more \in {0, 1}, openTrade' = [openTrade EXCEPT !.blind = @ + more],
           more = 0 => HeldFor < LongestHold /\ counted' = counted + 1,
           more = 1 => harness = "oos" /\ counted' = counted
    PROVE  StudyInv'
  <1> DEFINE w == readingAt.window
             b == readingAt.bar
             low == windows[w][1]
             up == windows[w][2]
             a == openTrade.entry
             d == openTrade.blind
             n == Len(episodes)
  <1>1. /\ PiecesInv' /\ ReportIsOfEpisodes' /\ readingAt'.window = w /\ readingAt'.bar = b + 1
        /\ harness' = harness /\ windows' = windows /\ w \in 1..Len(windows)
        /\ b \in Nat /\ w \in Nat /\ low \in Nat /\ up \in Nat /\ b <= up
    BY BarIsRead, Zenon
  <1>2. PlaceInv'
    <2>1. armedFor' \in NotArmed..ArmTimeout
      BY StudyFacts
    <2> QED
      BY <2>1, PlaceGoesOn
  <1>3. /\ openTrade \in [entry : Nat, blind : Nat] /\ openTrade # NoOpenTrade
        /\ a >= low + WarmupBars /\ a < b /\ b - a <= LongestHold + d
    BY Zenon DEF StudyInv, TradeInv, InTrade
  <1>4. /\ openTrade' \in [entry : Nat, blind : Nat]
        /\ openTrade'.entry = a /\ openTrade'.blind = d + more
        /\ a \in Nat /\ d \in Nat
    BY <1>3
  <1>5. openTrade' # NoOpenTrade
    <2>1. low \in Nat /\ a \in Nat /\ a >= low + WarmupBars
      BY <1>1, <1>3, <1>4
    <2>2. NoOpenTrade.entry = 0
      BY DEF NoOpenTrade
    <2> HIDE DEF a, low
    <2>3. a # 0
      BY <2>1, StudyFacts
    <2> QED
      BY <1>4, <2>2, <2>3, Zenon
  <1>6. EpisodesInv'
    BY <1>3, <1>4, EpisodesStay, Zenon
  <1>7. w <= Len(windows)
    BY Zenon DEF ReadCandle, InWindow
  <1>8. TradeInv'
    <2>1. more = 0 => b - a < LongestHold
      BY Zenon DEF HeldFor
    <2> HIDE DEF w, b, low, up, a, d
    <2>2. /\ a < b + 1 /\ b + 1 <= up + 1 /\ (b + 1) - a <= LongestHold + (d + more)
      <3>1. more \in Nat /\ (more = 0 => b - a < LongestHold) /\ (more # 0 => more = 1)
        BY <2>1
      <3>2. b \in Nat /\ up \in Nat /\ a \in Nat /\ d \in Nat /\ LongestHold \in Nat
        BY <1>1, <1>4, StudyFacts
      <3>3. b <= up /\ a < b /\ b - a <= LongestHold + d
        BY <1>1, <1>3
      <3> QED
        BY ONLY <3>1, <3>2, <3>3
    <2>3. windows'[readingAt'.window][1] = low /\ windows'[readingAt'.window][2] = up
      BY <1>1, Zenon DEF low, up
    <2> QED
      BY <1>1, <1>3, <1>4, <1>7, <2>2, <2>3, Zenon DEF TradeInv, InTrade, NoOpenTrade, NotArmed
  <1>9. CountInv'
    <2>1. /\ counted \in Nat
          /\ harness = "oos" => counted >= 3 * n + 2
          /\ harness = "study" => armedFor = NotArmed /\ counted = HeldOf(episodes, w) + (b - 1 - a)
      <3>1. CountInv
        BY Zenon DEF StudyInv
      <3> QED
        BY <1>3, <3>1, CountSays, Zenon
    <2>2. harness = "oos" \/ harness = "study"
      BY DEF StudyInv, PlaceInv
    <2>3. n \in Nat /\ HeldOf(episodes, w) \in Int
      <3>1. episodes \in Seq(EpisodeRecords)
        BY DEF StudyInv, EpisodesInv
      <3>2. [window |-> 0, entry |-> 0, exit |-> 0, blind |-> 0, net |-> 0] \in EpisodeRecords
        BY DEF EpisodeRecords
      <3> QED
        BY <3>1, <3>2, HeldAfter
    <2> DEFINE h == HeldOf(episodes, w)
    <2>4. h = HeldOf(episodes, w)
      OBVIOUS
    <2> HIDE DEF n, w, b, a, h
    <2>5. counted' \in Nat /\ (harness = "oos" => counted' >= 3 * n + 2)
      BY <2>1, <2>2, <2>3
    <2>6. ASSUME harness = "study" PROVE counted' = h + ((b + 1) - 1 - a)
      <3>1. counted' = counted + 1 /\ counted = h + (b - 1 - a)
        BY <2>1, <2>4, <2>6
      <3> QED
        BY <1>1, <1>4, <2>3, <2>4, <3>1
    <2> QED
      BY <1>1, <1>4, <1>5, <2>4, <2>5, <2>6, CountSays, Zenon DEF n, w, b, a
  <1> QED
    BY <1>1, <1>2, <1>6, <1>8, <1>9, Zenon DEF StudyInv

\* A position that ends.
LEMMA TradeEnds ==
    ASSUME StudyInv, ReadCandle, InTrade, NEW net \in NetReturns, episodes' = EpisodeEnds(net),
           openTrade' = NoOpenTrade, armedFor' = NotArmed, counted' = counted + 1
    PROVE  StudyInv'
  <1> DEFINE w == readingAt.window
             b == readingAt.bar
             a == openTrade.entry
             n == Len(episodes)
             e == [window |-> w, entry |-> a, exit |-> b, blind |-> openTrade.blind, net |-> net]
  <1>1. /\ PiecesInv' /\ ReportIsOfEpisodes' /\ readingAt'.window = w
        /\ harness' = harness /\ b \in Nat
    BY BarIsRead, Zenon
  <1>2. PlaceInv'
    <2>1. armedFor' \in NotArmed..ArmTimeout
      BY StudyFacts
    <2> QED
      BY <2>1, PlaceGoesOn
  <1>3. e \in EpisodeRecords /\ episodes' = Append(episodes, e) /\ EpisodesInv'
    BY EpisodeAdded, Zenon
  <1>4. TradeInv'
    <2>1. NoOpenTrade \in [entry : Nat, blind : Nat]
      BY DEF NoOpenTrade
    <2> QED
      BY <2>1, Zenon DEF TradeInv, InTrade, NoOpenTrade
  <1>5. CountInv'
    <2>1. /\ counted \in Nat
          /\ harness = "oos" => counted >= 3 * n + 2
          /\ harness = "study" => armedFor = NotArmed /\ counted = HeldOf(episodes, w) + (b - 1 - a)
      <3>1. CountInv
        BY Zenon DEF StudyInv
      <3> QED
        BY <3>1, CountSays, Zenon DEF InTrade
    <2>2. harness = "oos" \/ harness = "study"
      BY DEF StudyInv, PlaceInv
    <2>3. episodes \in Seq(EpisodeRecords)
      BY DEF StudyInv, EpisodesInv
    <2>4. e.window = w /\ e.exit - e.entry = b - a
      OBVIOUS
    <2>5. a \in Nat
      BY DEF StudyInv, TradeInv
    <2> DEFINE h == HeldOf(episodes, w)
               after == HeldOf(Append(episodes, e), w)
    <2> HIDE DEF e
    <2>6. h \in Int /\ after = h + (b - a)
      <3>1. h \in Int /\ after = h + (IF e.window = w THEN e.exit - e.entry ELSE 0)
        BY <1>3, <2>3, HeldAfter
      <3> QED
        BY <2>4, <3>1, Zenon
    <2>7. n \in Nat /\ Len(episodes') = n + 1
      BY <1>3, <2>3, AppendProperties
    <2>8. harness = "study" => counted = h + (b - 1 - a)
      BY <2>1, Zenon
    <2>9. after = HeldOf(episodes', w)
      BY <1>3, Zenon
    <2> HIDE DEF n, w, b, a, h, after
    <2>10. counted' \in Nat /\ (harness = "oos" => counted' >= 3 * (n + 1) + 0)
      BY <2>1, <2>2, <2>7
    <2>11. harness = "study" => counted' = after + 0
      <3> SUFFICES ASSUME harness = "study" PROVE counted' = after + 0
        OBVIOUS
      <3>1. counted' = counted + 1 /\ counted = h + (b - 1 - a)
        BY <2>8
      <3>2. /\ h \in Int /\ a \in Int /\ b \in Int /\ after = h + (b - a)
        BY <1>1, <2>5, <2>6
      <3> QED
        BY ONLY <3>1, <3>2
    <2> QED
      BY <1>1, <2>7, <2>9, <2>10, <2>11, CountSays, Zenon DEF w
  <1> QED
    BY <1>1, <1>2, <1>3, <1>4, <1>5, Zenon DEF StudyInv

\* Whatever the bar says.
LEMMA BarKeepsIt == StudyInv /\ ReadCandle => StudyInv'
  <1> SUFFICES ASSUME StudyInv, ReadCandle PROVE StudyInv'
    OBVIOUS
  <1>1. /\ armedFor \in NotArmed..ArmTimeout /\ counted \in Nat
        /\ openTrade \in [entry : Nat, blind : Nat]
        /\ InTrade => armedFor = NotArmed
        /\ harness = "study" => armedFor = NotArmed
    BY Zenon DEF StudyInv, PlaceInv, TradeInv, CountInv
  <1>2. BlindBar \/ HoldBar \/ SetupBar \/ SignalBar
    BY Zenon DEF ReadCandle
  <1>3. NotArmed \in NotArmed..ArmTimeout /\ 0 \in NotArmed..ArmTimeout
    BY StudyFacts
  <1>4. openTrade = [openTrade EXCEPT !.blind = @ + 0]
    BY <1>1
  <1>5. counted >= counted /\ counted + 1 \in Nat /\ counted + 1 >= counted /\ counted + 1 >= counted + 1
    BY <1>1
  <1>6. harness = "oos" => harness # "study"
    OBVIOUS
  <1>7. CASE BlindBar
    <2>1. harness = "oos" /\ armedFor' = NotArmed /\ counted' = counted /\ episodes' = episodes
      BY <1>7, Zenon DEF BlindBar
    <2>2. CASE InTrade
      <3>1. openTrade' = [openTrade EXCEPT !.blind = @ + 1]
        BY <1>7, <2>2, Zenon DEF BlindBar
      <3>2. 1 \in {0, 1} /\ 1 # 0
        OBVIOUS
      <3> QED
        BY <2>1, <2>2, <3>1, <3>2, TradeStays, Zenon
    <2>3. CASE ~InTrade
      <3>1. openTrade' = openTrade
        BY <1>7, <2>3, Zenon DEF BlindBar
      <3> QED
        BY <1>1, <1>3, <1>5, <1>6, <2>1, <2>3, <3>1, FlatStays, Zenon
    <2> QED
      BY <2>2, <2>3
  <1>8. CASE HoldBar
    <2>1. InTrade /\ counted' = counted + 1 /\ armedFor' = NotArmed
      BY <1>8, Zenon DEF HoldBar
    <2>2. CASE \E net \in NetReturns : episodes' = EpisodeEnds(net) /\ openTrade' = NoOpenTrade
      <3>1. PICK net \in NetReturns : episodes' = EpisodeEnds(net) /\ openTrade' = NoOpenTrade
        BY <2>2, Zenon
      <3> QED
        BY <2>1, <3>1, TradeEnds, Zenon
    <2>3. CASE HeldFor < LongestHold /\ UNCHANGED <<openTrade, episodes>>
      <3>1. openTrade' = [openTrade EXCEPT !.blind = @ + 0] /\ episodes' = episodes
        BY <1>4, <2>3, Zenon
      <3>2. 0 \in {0, 1} /\ 0 # 1
        OBVIOUS
      <3> QED
        BY <2>1, <2>3, <3>1, <3>2, TradeStays, Zenon
    <2> QED
      BY <1>8, <2>2, <2>3, Zenon DEF HoldBar
  <1>9. CASE SetupBar
    <2>1. /\ harness = "oos" /\ ~InTrade /\ counted' = counted + 1 /\ episodes' = episodes
          /\ harness # "study"
      BY <1>6, <1>9, Zenon DEF SetupBar
    <2>2. CASE armedFor' = NotArmed /\ openTrade' = openTrade
      BY <1>3, <1>5, <2>1, <2>2, FlatStays, Zenon
    <2>3. CASE armedFor' = 0 /\ openTrade' = openTrade
      BY <1>3, <1>5, <2>1, <2>3, FlatStays, Zenon
    <2>4. CASE armedFor # NotArmed /\ armedFor' = NotArmed /\ openTrade' = EpisodeStarts
      BY <2>1, <2>4, FlatOpens, Zenon
    <2>5. CASE armedFor < ArmTimeout /\ armedFor' = armedFor + 1 /\ openTrade' = openTrade
      <3>1. armedFor + 1 \in NotArmed..ArmTimeout
        BY <1>1, <2>5, StudyFacts
      <3> QED
        BY <1>5, <2>1, <2>5, <3>1, FlatStays, Zenon
    <2> QED
      BY <1>9, <2>2, <2>3, <2>4, <2>5 DEF SetupBar
  <1>10. CASE SignalBar
    <2>1. /\ harness = "study" /\ ~InTrade /\ counted' = counted /\ episodes' = episodes
          /\ armedFor' = armedFor /\ harness # "oos"
      BY <1>6, <1>10, Zenon DEF SignalBar
    <2>2. armedFor' = NotArmed
      BY <1>1, <2>1, Zenon
    <2>3. CASE openTrade' = openTrade
      BY <1>1, <2>1, <2>3, FlatStays, Zenon
    <2>4. CASE openTrade' = EpisodeStarts
      BY <2>1, <2>2, <2>4, FlatOpens, Zenon
    <2> QED
      BY <1>10, <2>3, <2>4 DEF SignalBar
  <1> QED
    BY <1>2, <1>7, <1>8, <1>9, <1>10

\* A walk begins behind the warmup of its window.
LEMMA StartsBehindWarmup ==
    ASSUME NEW ws \in Seq(Nat \X Nat), NEW w \in Nat, w >= 1
    PROVE  /\ StartOf(ws, w) \in [window : Nat, bar : Nat] /\ StartOf(ws, w).window = w
           /\ w <= Len(ws) => StartOf(ws, w).bar >= ws[w][1] + WarmupBars
  <1> DEFINE first == IF w <= Len(ws) THEN ws[w][1] + WarmupBars ELSE 0
  <1>1. StartOf(ws, w) = [window |-> w, bar |-> first]
    BY DEF StartOf
  <1>2. StartOf(ws, w).window = w /\ StartOf(ws, w).bar = first
    BY <1>1
  <1>3. first \in Nat /\ (w <= Len(ws) => first >= ws[w][1] + WarmupBars)
    <2>1. CASE w <= Len(ws)
      <3> DEFINE x == ws[w][1]
      <3>1. w \in 1..Len(ws)
        BY <2>1
      <3>2. ws[w] \in Nat \X Nat
        BY <3>1, ElementOfSeq
      <3>3. x \in Nat
        BY <3>2
      <3>4. first = x + WarmupBars
        BY <2>1
      <3> HIDE DEF x, first
      <3>5. first \in Nat /\ first >= x + WarmupBars
        BY <3>3, <3>4, StudyFacts
      <3> QED
        BY <3>5, Zenon DEF x
    <2>2. CASE ~(w <= Len(ws))
      BY <2>2
    <2> QED
      BY <2>1, <2>2
  <1> HIDE DEF first
  <1> QED
    BY <1>1, <1>2, <1>3, Zenon

\* The next piece: what was open is dropped, and no episode is of it.
LEMMA WindowKeepsIt == StudyInv /\ NextWindow => StudyInv'
  <1> SUFFICES ASSUME StudyInv, NextWindow PROVE StudyInv'
    OBVIOUS
  <1> DEFINE w == readingAt.window
             n == Len(episodes)
  <1>1. /\ w <= Len(windows) /\ readingAt' = StartOf(windows, w + 1)
        /\ openTrade' = NoOpenTrade /\ armedFor' = NotArmed
        /\ counted' = IF harness = "study" THEN 0 ELSE counted
        /\ UNCHANGED <<harness, candles, windows, episodes, studyReport>>
    BY Zenon DEF NextWindow
  <1>2. readingAt \in [window : Nat, bar : Nat] /\ w >= 1 /\ harness \in {"oos", "study"}
    BY DEF StudyInv, PlaceInv
  <1>3. w \in Nat /\ w + 1 \in Nat /\ w + 1 >= 1 /\ windows \in Seq(Nat \X Nat) /\ Len(windows) \in Nat
    BY <1>2 DEF StudyInv, PiecesInv
  <1>4. /\ readingAt' \in [window : Nat, bar : Nat] /\ readingAt'.window = w + 1
        /\ w + 1 <= Len(windows) => readingAt'.bar >= windows[w + 1][1] + WarmupBars
    BY <1>1, <1>3, StartsBehindWarmup, Zenon
  <1>5. PiecesInv'
    <2>1. PiecesInv
      BY Zenon DEF StudyInv
    <2> QED
      BY <1>1, <2>1, Zenon DEF PiecesInv
  <1>6. ReportIsOfEpisodes'
    <2>1. ReportIsOfEpisodes
      BY Zenon DEF StudyInv
    <2> QED
      BY <1>1, <2>1, Zenon DEF ReportIsOfEpisodes
  <1>7. PlaceInv'
    <2> HIDE DEF w
    <2>1. w + 1 <= Len(windows) + 1
      BY <1>1, <1>3
    <2>2. armedFor' \in NotArmed..ArmTimeout
      BY <1>1, StudyFacts
    <2> QED
      BY <1>1, <1>2, <1>3, <1>4, <2>1, <2>2, Zenon DEF PlaceInv, NotArmed
  <1>8. TradeInv'
    <2>1. NoOpenTrade \in [entry : Nat, blind : Nat]
      BY DEF NoOpenTrade
    <2> QED
      BY <1>1, <2>1, Zenon DEF TradeInv, InTrade, NoOpenTrade
  <1>9. /\ episodes \in Seq(EpisodeRecords)
        /\ \A i \in 1..n : IsEpisode(episodes[i])
        /\ \A i \in 2..n : episodes[i].entry > episodes[i - 1].exit
        /\ \A i \in 1..n : episodes[i].window <= w
    BY Zenon DEF StudyInv, EpisodesInv
  <1>10. \A i \in 1..n : episodes[i].window <= w + 1 /\ episodes[i].window # w + 1
    <2> SUFFICES ASSUME NEW i \in 1..n PROVE episodes[i].window <= w + 1 /\ episodes[i].window # w + 1
      OBVIOUS
    <2> DEFINE v == episodes[i].window
    <2>1. v \in Nat
      <3>1. episodes[i] \in EpisodeRecords
        BY <1>9, ElementOfSeq
      <3> QED
        BY <3>1 DEF EpisodeRecords
    <2>2. v <= w
      BY <1>9
    <2> HIDE DEF v, w
    <2>3. v <= w + 1 /\ v # w + 1
      BY <1>3, <2>1, <2>2
    <2> QED
      BY <2>3, Zenon DEF v
  <1>11. EpisodesInv'
    BY <1>1, <1>4, <1>9, <1>10, Zenon DEF EpisodesInv, IsEpisode
  <1>12. CountInv'
    <2>1. /\ counted \in Nat
          /\ harness = "oos" =>
               counted >= 3 * n + IF openTrade # NoOpenTrade THEN 2 ELSE IF armedFor = NotArmed THEN 0 ELSE 1
      <3>1. CountInv
        BY Zenon DEF StudyInv
      <3> QED
        BY <3>1, CountSays, Zenon
    <2>2. n \in Nat
      BY <1>9
    <2> DEFINE more == IF openTrade # NoOpenTrade THEN 2 ELSE IF armedFor = NotArmed THEN 0 ELSE 1
    <2>3. more \in Nat
      OBVIOUS
    <2>4. harness = "oos" => counted >= 3 * n + more
      BY <2>1
    <2> HIDE DEF n, more
    <2>5. harness = "oos" => counted >= 3 * n + 0
      BY <2>1, <2>2, <2>3, <2>4
    <2>6. HeldOf(episodes, w + 1) = 0
      BY <1>9, <1>10, NothingHeld, Zenon DEF n
    <2>7. harness = "oos" => harness # "study"
      OBVIOUS
    <2>8. counted' \in Nat
      BY <1>1, <2>1
    <2>9. harness = "study" => counted' = HeldOf(episodes, w + 1) + 0
      BY <1>1, <2>6
    <2>10. harness' = "oos" => counted' >= 3 * Len(episodes') + 0
      BY <1>1, <2>5, <2>7, Zenon DEF n
    <2> HIDE DEF w
    <2> QED
      BY <1>1, <1>4, <2>8, <2>9, <2>10, CountSays, Zenon
  <1> QED
    BY <1>5, <1>6, <1>7, <1>8, <1>11, <1>12, Zenon DEF StudyInv

\* What a report of some returns says of them.
FallsIn(nets) ==
    LET stretches == {s \in (DOMAIN nets) \X (DOMAIN nets) : s[1] <= s[2]}
    IN  {-SumOfNets(SubSeq(nets, s[1], s[2])) : s \in stretches}
OneFoldEach(nets, folds) ==
    \A i \in DOMAIN nets :
      \E f \in DOMAIN folds :
        /\ i \in folds[f][1]..folds[f][2]
        /\ \A g \in (DOMAIN folds) \ {f} : i \notin folds[g][1]..folds[g][2]
SoundReport(r) ==
    /\ OneFoldEach(r.nets, r.folds)
    /\ Len(r.nets) >= FoldCount => 2 * r.losses <= r.trials
    /\ r.drawdown = Max(FallsIn(r.nets) \cup {0})

ReportOn(nets) ==
    LET folds == FoldBounds(Len(nets))
        sums == [f \in DOMAIN folds |-> SumOfNets(SubSeq(nets, folds[f][1], folds[f][2]))]
        trainings == {t \in SUBSET (DOMAIN folds) : t # {} /\ t # DOMAIN folds}
        few == Len(nets) < FoldCount
    IN  [nets |-> nets, folds |-> folds, drawdown |-> DeepestFall(nets),
         losses |-> IF few THEN 1 ELSE Cardinality({t \in trainings : Overfitted(sums, t)}),
         trials |-> IF few THEN 1 ELSE Cardinality(trainings)]

LEMMA ReportIsSound ==
    ASSUME NEW nets \in Seq(Int)
    PROVE  SoundReport(ReportOn(nets))
  <1> DEFINE n == Len(nets)
             folds == FoldBounds(n)
             K == IF n < FoldCount THEN n ELSE FoldCount
             sums == [f \in DOMAIN folds |-> SumOfNets(SubSeq(nets, folds[f][1], folds[f][2]))]
             trainings == {t \in SUBSET (DOMAIN folds) : t # {} /\ t # DOMAIN folds}
             few == n < FoldCount
             losses == Cardinality({t \in trainings : Overfitted(sums, t)})
             trials == Cardinality(trainings)
             lost == IF few THEN 1 ELSE losses
             tried == IF few THEN 1 ELSE trials
             fall == DeepestFall(nets)
             r == [nets |-> nets, folds |-> folds, drawdown |-> fall, losses |-> lost, trials |-> tried]
  <1>1. r = ReportOn(nets)
    BY Zenon DEF ReportOn
  <1>2. n \in Nat /\ DOMAIN nets = 1..n
    OBVIOUS
  <1>3. /\ K \in Nat /\ DOMAIN folds = 1..K
        /\ \A f \in 1..K : /\ folds[f][1] \in 1..n /\ folds[f][2] \in 1..n
                           /\ folds[f][1] <= folds[f][2]
        /\ \A i \in 1..n :
             \E f \in 1..K :
               /\ i \in folds[f][1]..folds[f][2]
               /\ \A g \in (1..K) \ {f} : i \notin folds[g][1]..folds[g][2]
    <2>1. n \in Nat
      BY <1>2
    <2> HIDE DEF n
    <2> QED
      BY <2>1, FoldsPart, Zenon
  <1>4. sums \in Seq(Int) /\ DOMAIN sums = DOMAIN folds
    <2>1. PICK p \in [0..n -> Int] :
            /\ SumOfNets(nets) = p[n] /\ p[0] = 0
            /\ \A i \in 1..n : p[i] = p[i - 1] + nets[i]
      BY NetsUnfold
    <2>2. \A f \in 1..K : SumOfNets(SubSeq(nets, folds[f][1], folds[f][2])) \in Int
      <3> SUFFICES ASSUME NEW f \in 1..K
                   PROVE  SumOfNets(SubSeq(nets, folds[f][1], folds[f][2])) \in Int
        OBVIOUS
      <3> DEFINE a == folds[f][1]
                 b == folds[f][2]
      <3>1. a \in 1..n /\ b \in 1..n /\ a <= b
        BY <1>3, Zenon
      <3> HIDE DEF a, b
      <3>2. SumOfNets(SubSeq(nets, a, b)) \in Int
        BY <2>1, <3>1, PieceAddsUp
      <3> QED
        BY <3>2, Zenon DEF a, b
    <2> HIDE DEF folds, K
    <2>3. sums \in [1..K -> Int]
      BY <1>3, <2>2, Zenon
    <2> HIDE DEF sums
    <2>4. sums \in Seq(Int)
      BY <1>3, <2>3
    <2> QED
      BY <1>3, <2>3, <2>4, Zenon
  <1>5. 2 * losses <= trials
    <2>1. LET picked == {t \in SUBSET (DOMAIN sums) : t # {} /\ t # DOMAIN sums}
          IN  2 * Cardinality({t \in picked : Overfitted(sums, t)}) <= Cardinality(picked)
      <3> HIDE DEF sums
      <3> QED
        BY <1>4, NoMoreThanHalf, Zenon
    <2>2. DOMAIN sums = DOMAIN folds
      BY <1>4
    <2> HIDE DEF sums, folds
    <2> QED
      BY <2>1, <2>2, Zenon
  <1>6. n >= FoldCount => 2 * lost <= tried
    <2>1. n >= FoldCount => ~few
      BY <1>2, EpisodeAssumption
    <2> HIDE DEF n, losses, trials, few
    <2> QED
      BY <1>5, <2>1, Zenon
  <1>7. fall = Max(FallsIn(nets) \cup {0})
    BY DrawdownIsTheFall, Zenon DEF FallsIn
  <1> HIDE DEF folds, lost, tried, fall
  <1>8. r.nets = nets /\ r.folds = folds /\ r.losses = lost /\ r.trials = tried /\ r.drawdown = fall
    BY Zenon
  <1> HIDE DEF r
  <1>9. OneFoldEach(nets, folds)
    BY <1>2, <1>3, Zenon DEF OneFoldEach
  <1>10. SoundReport(r)
    BY <1>6, <1>7, <1>8, <1>9, Zenon DEF SoundReport, n
  <1> QED
    BY <1>1, <1>10, Zenon

LEMMA SummaryKeepsIt == StudyInv /\ Summarize => StudyInv'
  <1> SUFFICES ASSUME StudyInv, Summarize PROVE StudyInv'
    OBVIOUS
  <1>1. UNCHANGED <<harness, candles, windows, readingAt, openTrade, armedFor, counted, episodes>>
    BY Zenon DEF Summarize
  <1>2. PICK w \in DOMAIN windows : studyReport' = ReportOn(Judged(w))
    BY Zenon DEF Summarize, ReportOn
  <1> DEFINE mine == Kept(episodes, {e \in ToSet(episodes) : harness = "oos" \/ e.window = w})
             nets == [i \in DOMAIN mine |-> mine[i].net]
  <1>3. nets = Judged(w)
    BY Zenon DEF Judged
  <1>4. mine \in Seq(EpisodeRecords)
    <2>1. episodes \in Seq(EpisodeRecords)
      BY DEF StudyInv, EpisodesInv
    <2> QED
      BY <2>1, KeptProperties
  <1> HIDE DEF mine
  <1>5. nets \in Seq(Int)
    <2>1. Len(mine) \in Nat /\ DOMAIN mine = 1..Len(mine)
      BY <1>4
    <2>2. \A i \in 1..Len(mine) : mine[i].net \in Int
      <3> SUFFICES ASSUME NEW i \in 1..Len(mine) PROVE mine[i].net \in Int
        OBVIOUS
      <3>1. mine[i] \in EpisodeRecords
        BY <1>4, ElementOfSeq
      <3> QED
        BY <3>1 DEF EpisodeRecords
    <2>3. nets \in [1..Len(mine) -> Int]
      BY <2>1, <2>2, Zenon
    <2> QED
      BY <2>1, <2>3
  <1> HIDE DEF nets
  <1>6. SoundReport(studyReport')
    BY <1>2, <1>3, <1>5, ReportIsSound, Zenon
  <1>7. ReportIsOfEpisodes'
    BY <1>6, Zenon DEF ReportIsOfEpisodes, SoundReport, FallsIn, OneFoldEach, NoStudyReport
  <1>8. PiecesInv' /\ PlaceInv' /\ TradeInv' /\ EpisodesInv'
    <2>1. PiecesInv /\ PlaceInv /\ TradeInv /\ EpisodesInv
      BY Zenon DEF StudyInv
    <2> QED
      <3>1. PiecesInv'
        BY <1>1, <2>1, Zenon DEF PiecesInv
      <3>2. PlaceInv'
        BY <1>1, <2>1, Zenon DEF PlaceInv, NotArmed
      <3>3. TradeInv'
        BY <1>1, <2>1, Zenon DEF TradeInv, InTrade, NoOpenTrade, NotArmed
      <3>4. EpisodesInv'
        BY <1>1, <2>1, Zenon DEF EpisodesInv, IsEpisode, InTrade, NoOpenTrade
      <3> QED
        BY <3>1, <3>2, <3>3, <3>4
  <1>9. CountInv'
    <2>1. CountInv
      BY Zenon DEF StudyInv
    <2> QED
      BY <1>1, <2>1, CountSays, Zenon
  <1> QED
    BY <1>7, <1>8, <1>9, Zenon DEF StudyInv

\* The study keeps its invariant, and so does a step of another part.
LEMMA StudyStep == StudyInv /\ [StudyNext]_studyVars => StudyInv'
  <1> SUFFICES ASSUME StudyInv, [StudyNext]_studyVars PROVE StudyInv'
    OBVIOUS
  <1>1. CASE UNCHANGED studyVars
    <2>1. UNCHANGED <<harness, candles, windows, readingAt, openTrade, armedFor, counted, episodes,
                      studyReport>>
      BY <1>1, Zenon DEF studyVars
    <2>2. PiecesInv /\ PlaceInv /\ TradeInv /\ EpisodesInv /\ CountInv /\ ReportIsOfEpisodes
      BY Zenon DEF StudyInv
    <2>3. PiecesInv' /\ PlaceInv' /\ TradeInv' /\ EpisodesInv'
      <3>1. PiecesInv'
        BY <2>1, <2>2, Zenon DEF PiecesInv
      <3>2. PlaceInv'
        BY <2>1, <2>2, Zenon DEF PlaceInv, NotArmed
      <3>3. TradeInv'
        BY <2>1, <2>2, Zenon DEF TradeInv, InTrade, NoOpenTrade, NotArmed
      <3>4. EpisodesInv'
        BY <2>1, <2>2, Zenon DEF EpisodesInv, IsEpisode, InTrade, NoOpenTrade
      <3> QED
        BY <3>1, <3>2, <3>3, <3>4
    <2>4. CountInv'
      BY <2>1, <2>2, CountSays, Zenon
    <2>5. ReportIsOfEpisodes'
      BY <2>1, <2>2, Zenon DEF ReportIsOfEpisodes
    <2> QED
      BY <2>3, <2>4, <2>5, Zenon DEF StudyInv
  <1>2. CASE ReadCandle
    BY <1>2, BarKeepsIt
  <1>3. CASE NextWindow
    BY <1>3, WindowKeepsIt
  <1>4. CASE Summarize
    BY <1>4, SummaryKeepsIt
  <1> QED
    BY <1>1, <1>2, <1>3, <1>4, Zenon DEF StudyNext

\* A walk that has not begun.
LEMMA NothingStudied ==
    ASSUME PiecesInv, harness \in {"oos", "study"}, readingAt = StartOf(windows, 1),
           openTrade = NoOpenTrade, armedFor = NotArmed, counted = 0, episodes = <<>>,
           studyReport = NoStudyReport
    PROVE  StudyInv
  <1>1. windows \in Seq(Nat \X Nat) /\ Len(windows) \in Nat
    BY DEF PiecesInv
  <1>2. /\ readingAt \in [window : Nat, bar : Nat] /\ readingAt.window = 1
        /\ 1 <= Len(windows) => readingAt.bar >= windows[1][1] + WarmupBars
    <2>1. 1 \in Nat /\ 1 >= 1
      OBVIOUS
    <2> QED
      BY <1>1, <2>1, StartsBehindWarmup, Zenon
  <1>3. PlaceInv
    <2>1. 1 >= 1 /\ 1 <= Len(windows) + 1 /\ armedFor \in NotArmed..ArmTimeout
      BY <1>1, StudyFacts
    <2> QED
      BY <1>2, <2>1, Zenon DEF PlaceInv
  <1>4. TradeInv
    <2>1. NoOpenTrade \in [entry : Nat, blind : Nat]
      BY DEF NoOpenTrade
    <2> QED
      BY <2>1, Zenon DEF TradeInv, InTrade
  <1>5. episodes \in Seq(EpisodeRecords) /\ Len(episodes) = 0
    OBVIOUS
  <1>6. EpisodesInv
    <2>1. \A i \in 1..Len(episodes) : FALSE
      BY <1>5
    <2>2. \A i \in 2..Len(episodes) : FALSE
      BY <1>5
    <2> QED
      BY <1>5, <2>1, <2>2, Zenon DEF EpisodesInv
  <1>7. CountInv
    <2>1. \A i \in 1..Len(episodes) : episodes[i].window # readingAt.window
      BY <1>5
    <2>2. HeldOf(episodes, readingAt.window) = 0
      BY <1>5, <2>1, NothingHeld, Zenon
    <2>3. counted \in Nat /\ counted >= 3 * Len(episodes) + 0
          /\ counted = HeldOf(episodes, readingAt.window) + 0
      BY <1>5, <2>2
    <2> QED
      BY <2>3, CountSays, Zenon
  <1>8. ReportIsOfEpisodes
    BY Zenon DEF ReportIsOfEpisodes
  <1> QED
    BY <1>3, <1>4, <1>6, <1>7, <1>8, Zenon DEF StudyInv

LEMMA StudyInitially == StudyInit => StudyInv
  <1> SUFFICES ASSUME StudyInit PROVE StudyInv
    OBVIOUS
  <1>1. /\ harness \in {"oos", "study"} /\ readingAt = StartOf(windows, 1)
        /\ openTrade = NoOpenTrade /\ armedFor = NotArmed /\ counted = 0 /\ episodes = <<>>
        /\ studyReport = NoStudyReport
    BY Zenon DEF StudyInit
  <1> QED
    BY <1>1, PiecesInitially, NothingStudied, Zenon

\* Where nothing is studied there is nothing to hold.
LEMMA NoStudy ==
    ASSUME harness = "oos", candles = <<>>, windows = <<>>, readingAt = StartOf(<<>>, 1),
           openTrade = NoOpenTrade, armedFor = NotArmed, counted = 0, episodes = <<>>,
           studyReport = NoStudyReport
    PROVE  StudyInv
  <1>1. candles \in Seq(Candles) /\ windows \in Seq(Nat \X Nat) /\ Len(candles) = 0 /\ Len(windows) = 0
    OBVIOUS
  <1>2. (\A k \in 1..Len(candles) : FALSE) /\ (\A w \in 1..Len(windows) : FALSE)
    BY <1>1
  <1>3. PiecesInv
    BY <1>1, <1>2, Zenon DEF PiecesInv
  <1>4. harness \in {"oos", "study"} /\ readingAt = StartOf(windows, 1)
    OBVIOUS
  <1> QED
    BY <1>3, <1>4, NothingStudied, Zenon

\* From the invariant: an episode is one, and the report is of the episodes.
LEMMA StudyFollows == StudyInv => StudyTypeOK /\ StudyIsHonest
  <1> SUFFICES ASSUME StudyInv PROVE StudyTypeOK /\ StudyIsHonest
    OBVIOUS
  <1>1. PiecesInv /\ PlaceInv /\ TradeInv /\ EpisodesInv /\ CountInv /\ ReportIsOfEpisodes
    BY Zenon DEF StudyInv
  <1>2. /\ candles \in Seq(Candles) /\ Len(candles) \in Nat /\ DOMAIN candles = 1..Len(candles)
        /\ windows \in Seq(Nat \X Nat) /\ Len(windows) \in Nat
        /\ \A w \in 1..Len(windows) :
             /\ windows[w][1] \in Nat /\ windows[w][2] \in Nat
             /\ 1 <= windows[w][1] /\ windows[w][2] <= Len(candles)
    <2>1. candles \in Seq(Candles) /\ windows \in Seq(Nat \X Nat)
          /\ \A w \in 1..Len(windows) : 1 <= windows[w][1] /\ windows[w][2] <= Len(candles)
      BY <1>1, Zenon DEF PiecesInv
    <2>2. \A w \in 1..Len(windows) : windows[w] \in Nat \X Nat
      BY <2>1, ElementOfSeq
    <2> QED
      BY <2>1, <2>2
  <1>3. StudyTypeOK
    <2>1. /\ harness \in {"oos", "study"} /\ armedFor \in NotArmed..ArmTimeout
          /\ readingAt \in [window : Nat, bar : Nat]
          /\ readingAt.window >= 1 /\ readingAt.window <= Len(windows) + 1
      BY <1>1, Zenon DEF PlaceInv
    <2> DEFINE w == readingAt.window
               a == openTrade.entry
               b == readingAt.bar
               up == windows[w][2]
    <2>2. w \in Nat /\ b \in Nat
      BY <2>1
    <2>3. w \in 1..(Len(windows) + 1)
      BY <1>2, <2>1, <2>2
    <2>4. a \in 0..Len(candles)
      <3>1. CASE InTrade
        <4>1. w <= Len(windows) /\ a < b /\ b <= up + 1
          BY <1>1, <3>1, Zenon DEF TradeInv
        <4>2. a \in Nat
          BY <1>1 DEF TradeInv
        <4> HIDE DEF w
        <4>3. w \in 1..Len(windows)
          BY <1>2, <2>3, <4>1
        <4>4. up \in Nat /\ up <= Len(candles)
          BY <1>2, <4>3, Zenon
        <4> HIDE DEF a, b, up
        <4> QED
          BY <1>2, <2>2, <4>1, <4>2, <4>4
      <3>2. CASE ~InTrade
        BY <1>2, <3>2 DEF InTrade, NoOpenTrade
      <3> QED
        BY <3>1, <3>2
    <2> QED
      BY <2>1, <2>3, <2>4, Zenon DEF StudyTypeOK
  <1>4. \A c \in ToSet(candles) : \E k \in 1..Len(candles) : c = candles[k]
    BY <1>2 DEF ToSet
  <1>5. \A c \in ToSet(candles) : harness = "oos" => c.from = c.to
    BY <1>1, <1>4, Zenon DEF PiecesInv
  <1>6. harness = "study" => \A c \in ToSet(candles) : c.to - c.from + 1 \in CandleHours
    BY <1>1, <1>4, Zenon DEF PiecesInv
  <1>7. episodes \in Seq(EpisodeRecords) /\ Len(episodes) \in Nat /\ DOMAIN episodes = 1..Len(episodes)
    BY <1>1 DEF EpisodesInv
  <1>8. ASSUME NEW i \in DOMAIN episodes
        PROVE  LET e == episodes[i] IN
               /\ e.entry >= windows[e.window][1] + WarmupBars /\ e.exit <= windows[e.window][2]
               /\ e.exit - e.entry \in 1..(LongestHold + e.blind)
               /\ i > 1 => e.entry > episodes[i - 1].exit
               /\ harness = "oos" => candles[e.exit].to - candles[e.entry].to = e.exit - e.entry
    <2> DEFINE e == episodes[i]
               w == e.window
               a == e.entry
               b == e.exit
               d == e.blind
               low == windows[w][1]
               up == windows[w][2]
    <2>1. i \in 1..Len(episodes)
      BY <1>7
    <2>2. /\ 1 <= w /\ w <= Len(windows) /\ a >= low + WarmupBars /\ b <= up
          /\ a < b /\ b - a <= LongestHold + d
      BY <1>1, <2>1, Zenon DEF EpisodesInv, IsEpisode
    <2>3. w \in Nat /\ a \in Nat /\ b \in Nat /\ d \in Nat
      <3>1. e \in EpisodeRecords
        BY <1>7, <2>1, ElementOfSeq
      <3> HIDE DEF e
      <3> QED
        BY <3>1 DEF EpisodeRecords
    <2>4. i > 1 => a > episodes[i - 1].exit
      <3>1. i > 1 => i \in 2..Len(episodes)
        BY <1>7, <2>1
      <3> QED
        BY <1>1, <3>1, Zenon DEF EpisodesInv
    <2> HIDE DEF w
    <2>5. w \in 1..Len(windows)
      BY <1>2, <2>2, <2>3
    <2>6. low \in Nat /\ up \in Nat
      BY <1>2, <2>5, Zenon
    <2>7. harness = "oos" => \A x, y \in Int : low <= x /\ x <= y /\ y <= up =>
            candles[y].to - candles[x].to = y - x
      BY <1>1, <2>5, Zenon DEF PiecesInv
    <2> HIDE DEF e, a, b, d, low, up
    <2>8. b - a \in 1..(LongestHold + d) /\ low <= a /\ a <= b /\ a \in Int /\ b \in Int
      BY <2>2, <2>3, <2>6, StudyFacts
    <2>9. harness = "oos" => candles[b].to - candles[a].to = b - a
      BY <2>2, <2>7, <2>8, Zenon
    <2> QED
      BY <2>2, <2>4, <2>8, <2>9, Zenon DEF e, w, a, b, d, low, up
  <1>9. harness = "oos" => 3 * Len(episodes) <= counted
    <2> DEFINE n == Len(episodes)
               more == IF InTrade THEN 2 ELSE IF armedFor = NotArmed THEN 0 ELSE 1
    <2>1. counted \in Nat /\ (harness = "oos" => counted >= 3 * n + more)
      BY <1>1, Zenon DEF CountInv
    <2>2. n \in Nat /\ more \in Nat
      BY <1>7
    <2> HIDE DEF n, more
    <2>3. harness = "oos" => 3 * n <= counted
      BY <2>1, <2>2
    <2> QED
      BY <2>3, Zenon DEF n
  <1>10. harness = "study" =>
           counted = HeldIn(readingAt.window) + IF InTrade THEN readingAt.bar - 1 - openTrade.entry ELSE 0
    BY <1>1, Zenon DEF CountInv
  <1>11. EpisodesAreReal
    BY <1>5, <1>6, <1>8, <1>9, <1>10, Zenon DEF EpisodesAreReal
  <1> QED
    BY <1>1, <1>3, <1>11, Zenon DEF StudyIsHonest

-----------------------------------------------------------------------------
\* What the values of the parts are.

\* Every entry says what the process that wrote it had.
LEMMA EntrySaysRights ==
    ASSUME NEW r, NEW right, NEW p \in Journalled(r, right) PROVE p.authority = right
  <1>1. \A stage, head, fields, action, dry, side : Page(stage, head, fields, action, dry, side, right).authority = right
    BY DEF Page
  <1>2. CASE r.action = "HOLD"
    <2>1. p = Page(r.stage, r.head, r.fields, "HOLD", FALSE, "none", right)
      BY <1>2 DEF Journalled
    <2> QED
      BY <1>1, <2>1, Zenon
  <1>3. CASE r.action # "HOLD" /\ right = "no"
    <2>1. p = Page(r.stage, r.head, r.fields, r.action, TRUE, "none", right)
      BY <1>3 DEF Journalled
    <2> QED
      BY <1>1, <2>1, Zenon
  <1>4. CASE r.action # "HOLD" /\ right # "no"
    <2> DEFINE a == Page(r.stage, r.head, r.fields, r.action, FALSE, Side(r.action), right)
               b == Page(r.stage, "ORDER_NOT_FILLED", NoFields, "HOLD", FALSE, Side(r.action), right)
               c(v) == Page(r.stage, v, NoFields, "HOLD", FALSE, "none", right)
    <2>1. p \in {a, b} \cup {c(v) : v \in Vetoes(r.action)}
      BY <1>4, Zenon DEF Journalled
    <2>2. a.authority = right /\ b.authority = right /\ \A v : c(v).authority = right
      BY <1>1, Zenon
    <2> HIDE DEF a, b, c
    <2>3. p = a \/ p = b \/ \E v : p = c(v)
      BY <2>1, Zenon
    <2> QED
      BY <2>2, <2>3, Zenon
  <1> QED
    BY <1>2, <1>3, <1>4

LEMMA OneMorePage ==
    ASSUME PagesInv, ReportTypeOK, Len(pages) < MaxPages, NEW p, p.authority = rights, Write(p)
    PROVE  /\ Len(pages') <= MaxPages /\ holds' \in BOOLEAN
           /\ \A i \in DOMAIN pages' : pages'[i].authority \in {"yes", "no", "unknown"}
  <1>1. PICK S : pages \in Seq(S)
    BY Zenon DEF PagesInv
  <1> DEFINE T == S \cup {p}
             n == Len(pages)
  <1>2. pages \in Seq(T) /\ p \in T /\ n \in Nat /\ DOMAIN pages = 1..n
    BY <1>1
  <1>3. pages' = Append(pages, p)
    BY Zenon DEF Write
  <1>4. /\ Len(pages') = n + 1 /\ pages'[n + 1] = p /\ \A i \in 1..n : pages'[i] = pages[i]
        /\ pages' \in Seq(T)
    BY <1>2, <1>3, AppendProperties
  <1>5. DOMAIN pages' = 1..(n + 1)
    BY <1>4
  <1>6. n + 1 <= MaxPages
    BY <1>2, ReportAssumption
  <1>7. rights \in {"yes", "no"}
    BY Zenon DEF PagesInv
  <1>8. \A i \in DOMAIN pages' : pages'[i].authority \in {"yes", "no", "unknown"}
    <2> SUFFICES ASSUME NEW i \in DOMAIN pages'
                 PROVE  pages'[i].authority \in {"yes", "no", "unknown"}
      OBVIOUS
    <2>1. i = n + 1 \/ i \in 1..n
      BY <1>2, <1>5
    <2>2. CASE i = n + 1
      BY <1>4, <1>7, <2>2, Zenon
    <2>3. CASE i \in 1..n
      BY <1>2, <1>4, <2>3, Zenon DEF ReportTypeOK
    <2> QED
      BY <2>1, <2>2, <2>3
  <1>9. holds' \in BOOLEAN
    <2>1. holds \in BOOLEAN
      BY Zenon DEF ReportTypeOK
    <2>2. holds' = holds \/ holds' = TRUE \/ holds' = (p.fields.tail = "REDUCE")
      BY Zenon DEF Write
    <2> QED
      BY <2>1, <2>2, Zenon
  <1> QED
    BY <1>4, <1>6, <1>8, <1>9

LEMMA ReportTypeInitially == ReportInit => ReportTypeOK
  <1> SUFFICES ASSUME ReportInit PROVE ReportTypeOK
    OBVIOUS
  <1> DEFINE p == Page("held", "AGENT_VERDICT_UNCHANGED", NoFields, "HOLD", FALSE, "none", "unknown")
  <1>1. p.authority = "unknown"
    BY DEF Page
  <1>2. pages = <<>> \/ pages = <<p>>
    BY Zenon DEF ReportInit
  <1> HIDE DEF p
  <1>3. 0 <= MaxPages /\ 1 <= MaxPages
    BY ReportAssumption
  <1>4. Len(pages) <= MaxPages /\ \A i \in DOMAIN pages : pages[i].authority \in {"yes", "no", "unknown"}
    <2>1. CASE pages = <<>>
      BY <1>3, <2>1
    <2>2. CASE pages = <<p>>
      <3>1. Len(pages) = 1 /\ DOMAIN pages = {1} /\ pages[1] = p
        BY <2>2
      <3> QED
        BY <1>1, <1>3, <3>1, Zenon
    <2> QED
      BY <1>2, <2>1, <2>2
  <1>5. standing \in BOOLEAN /\ holds \in BOOLEAN
    BY Zenon DEF ReportInit
  <1> QED
    BY <1>4, <1>5, Zenon DEF ReportTypeOK

LEMMA ReportTypeStep ==
    ASSUME PagesInv, ReportTypeOK, [ReportNext]_reportVars PROVE ReportTypeOK'
  <1>1. standing \in BOOLEAN
    BY Zenon DEF ReportTypeOK
  <1>2. CASE Report
    <2>1. PICK r : /\ \E p \in Journalled(r, rights) : Write(p)
                   /\ standing' = (standing \/ r.stage = "agent")
      BY <1>2, Zenon DEF Report
    <2>2. PICK p \in Journalled(r, rights) : Write(p)
      BY <2>1, Zenon
    <2>3. p.authority = rights /\ Len(pages) < MaxPages
      BY <1>2, <2>2, EntrySaysRights, Zenon DEF Report
    <2>4. standing' \in BOOLEAN
      BY <1>1, <2>1, Zenon
    <2> QED
      BY <2>2, <2>3, <2>4, OneMorePage, Zenon DEF ReportTypeOK
  <1>3. CASE ExternalFill
    <2> DEFINE p == Page("guard", "PROTECTIVE_ORDER_FILLED", NoFields, "EXIT_LONG", FALSE, "SELL", rights)
    <2>1. Len(pages) < MaxPages /\ Write(p) /\ standing' = standing
      BY <1>3, Zenon DEF ExternalFill
    <2>2. p.authority = rights
      BY DEF Page
    <2> HIDE DEF p
    <2> QED
      BY <1>1, <2>1, <2>2, OneMorePage, Zenon DEF ReportTypeOK
  <1>4. CASE Rerun \/ UNCHANGED reportVars
    <2>1. pages' = pages /\ holds' = holds /\ (standing' = FALSE \/ standing' = standing)
      BY <1>4, Zenon DEF Rerun, reportVars
    <2> QED
      BY <1>1, <2>1, Zenon DEF ReportTypeOK
  <1> QED
    BY <1>2, <1>3, <1>4, Zenon DEF ReportNext

LEMMA PageTypeInitially == PageInit => PageTypeOK
  BY PageAssumption DEF PageInit, PageTypeOK, Never

LEMMA PageTypeStep ==
    ASSUME PageTypeOK, [PageNext]_pageVars PROVE PageTypeOK'
  <1> USE PageAssumption DEF PageTypeOK, Never
  <1>1. CASE Second
    BY <1>1 DEF Second
  <1>2. CASE AgentWrites
    BY <1>2 DEF AgentWrites
  <1>3. CASE ServerChanges
    BY <1>3 DEF ServerChanges
  <1>4. CASE Load
    BY <1>4 DEF Load
  <1>5. CASE Poll
    BY <1>5 DEF Poll
  <1>6. CASE UNCHANGED pageVars
    BY <1>6 DEF pageVars
  <1> QED
    BY <1>1, <1>2, <1>3, <1>4, <1>5, <1>6 DEF PageNext

LEMMA NoticeTypeInitially == NoticeInit => NoticeTypeOK
  BY NoticeAssumption DEF NoticeInit, NoticeTypeOK

LEMMA NoticeTypeStep ==
    ASSUME NoticeTypeOK, [NoticeNext]_noticeVars PROVE NoticeTypeOK'
  <1>1. hour' \in 1..LastHour
    <2>1. hour' = hour \/ (hour < LastHour /\ hour' = hour + 1)
      BY Zenon DEF NoticeNext, noticeVars, Hour, RunEnds, Watch, Settle, Announce
    <2>2. hour \in 1..LastHour
      BY Zenon DEF NoticeTypeOK
    <2> QED
      BY <2>1, <2>2, NoticeAssumption
  <1>2. channel' \in Answers
    BY Zenon DEF NoticeTypeOK, NoticeNext, noticeVars, Hour, RunEnds, Watch, Settle, Announce
  <1>3. watcher' \in {"start", "waiting", "settled", "exit 0", "exit 1", "exit 2"}
    BY Zenon DEF NoticeTypeOK, NoticeNext, noticeVars, Hour, RunEnds, Watch, Settle, Announce
  <1> QED
    BY <1>1, <1>2, <1>3, Zenon DEF NoticeTypeOK

\* A request is of its number, and what the running ledger knows is on disk.
LEMMA ChainTypeInitially ==
    ASSUME NothingDecided, MachineInv PROVE ChainTypeOK
  <1>1. /\ version = 0 /\ request = NoRequest /\ ledger = <<>> /\ known = {} /\ tail = "whole"
        /\ process = "up"
    BY Zenon DEF NothingDecided
  <1>2. version \in 0..MaxVersions
    BY <1>1, ChainAssumption
  <1>3. MachineTypeOK
    BY Zenon DEF MachineInv, MachineTypeOK
  <1> QED
    BY <1>1, <1>2, <1>3, Zenon DEF ChainTypeOK

LEMMA ChainTypeStep ==
    ASSUME ChainInv, ChainInv', ChainTypeOK, [ChainNext]_chainVars PROVE ChainTypeOK'
  <1>1. MachineTypeOK'
    BY Zenon DEF ChainInv, MachineInv, MachineTypeOK
  <1>2. /\ version \in 0..MaxVersions
        /\ request \in {NoRequest} \cup UNION {Requests(n) : n \in 1..MaxRequests}
        /\ tail \in {"whole", "unended", "cut"} /\ process \in {"up", "down", "refused"}
        /\ known \subseteq ToSet(ledger)
    BY Zenon DEF ChainTypeOK
  <1>3. version' \in 0..MaxVersions
    <2>1. version' = version \/ (version < MaxVersions /\ version' = version + 1)
      BY Zenon DEF ChainNext, chainVars, Submit, Export, Suppress, Die, Start, Feedback
    <2> QED
      BY <1>2, <2>1, ChainAssumption
  <1>4. request' \in {NoRequest} \cup UNION {Requests(n) : n \in 1..MaxRequests}
    <2>1. \/ request' = request
          \/ request.id < MaxRequests /\ request' \in Requests(request.id + 1)
      BY Zenon DEF ChainNext, chainVars, Submit, Export, Suppress, Die, Start, Feedback
    <2>2. CASE request' = request
      BY <1>2, <2>2, Zenon
    <2>3. CASE request.id < MaxRequests /\ request' \in Requests(request.id + 1)
      <3> DEFINE m == request.id
      <3>1. m \in Nat
        <4>1. CASE request = NoRequest
          BY <4>1 DEF NoRequest
        <4>2. CASE request # NoRequest
          <5>1. PICK n \in 1..MaxRequests : request \in Requests(n)
            BY <1>2, <4>2, Zenon
          <5>2. m = n
            BY <5>1, Zenon DEF Requests
          <5> HIDE DEF m
          <5> QED
            BY <5>2
        <4> QED
          BY <4>1, <4>2
      <3>2. m < MaxRequests /\ request' \in Requests(m + 1)
        BY <2>3, Zenon
      <3> HIDE DEF m
      <3>3. m + 1 \in 1..MaxRequests
        BY <3>1, <3>2, ChainAssumption
      <3> QED
        BY <3>2, <3>3, Zenon
    <2> QED
      BY <2>1, <2>2, <2>3
  <1>5. tail' \in {"whole", "unended", "cut"}
    BY <1>2, Zenon DEF ChainNext, chainVars, Submit, Export, Suppress, Die, Start, Feedback, Appended
  <1>6. process' \in {"up", "down", "refused"}
    BY <1>2, Zenon DEF ChainNext, chainVars, Submit, Export, Suppress, Die, Start, Feedback
  <1>7. known' \subseteq ToSet(ledger')
    <2>1. \/ known' = {}
          \/ known' = known /\ ledger' = ledger
          \/ known' = known \cup {DecisionId} /\ ledger' = Append(ledger, DecisionId)
          \/ known' = ToSet(ledger) /\ ledger' = ledger
      BY Zenon DEF ChainNext, chainVars, Submit, Export, Suppress, Die, Start, Feedback, Appended
    <2>2. CASE known' = known \cup {DecisionId} /\ ledger' = Append(ledger, DecisionId)
      <3> DEFINE d == DecisionId
                 S == DecisionIds \cup {d}
      <3>1. ledger \in Seq(DecisionIds)
        BY Zenon DEF ChainInv
      <3>2. ledger \in Seq(S) /\ d \in S /\ Len(ledger) \in Nat
        BY <3>1
      <3> HIDE DEF d, S
      <3>3. /\ Append(ledger, d)[Len(ledger) + 1] = d /\ Append(ledger, d) \in Seq(S)
            /\ Len(Append(ledger, d)) = Len(ledger) + 1
            /\ \A i \in 1..Len(ledger) : Append(ledger, d)[i] = ledger[i]
        BY <3>2, AppendProperties
      <3>4. DOMAIN ledger = 1..Len(ledger) /\ DOMAIN Append(ledger, d) = 1..(Len(ledger) + 1)
        BY <3>2, <3>3
      <3>5. ToSet(ledger) \subseteq ToSet(Append(ledger, d))
        BY <3>2, <3>3, <3>4 DEF ToSet
      <3>6. d \in ToSet(Append(ledger, d))
        BY <3>2, <3>3, <3>4 DEF ToSet
      <3> QED
        BY <1>2, <2>2, <3>5, <3>6, Zenon DEF d
    <2> QED
      BY <1>2, <2>1, <2>2, Zenon
  <1> QED
    BY <1>1, <1>3, <1>4, <1>5, <1>6, <1>7, Zenon DEF ChainTypeOK

\* When only the machine moves.
LEMMA ChainTypeKept ==
    ASSUME ChainInv', ChainTypeOK, UNCHANGED requestVars PROVE ChainTypeOK'
  <1>1. MachineTypeOK'
    BY Zenon DEF ChainInv, MachineInv, MachineTypeOK
  <1> QED
    BY <1>1, Zenon DEF ChainTypeOK, requestVars

\* Which policy runs, and what it last saw and said.
PolicyRuns ==
    policy \in Policies /\ prior \in Places \cup {"none"} /\ intent \in {"NONE", "ENTRY", "EXIT"}

LEMMA TrendTypeFollows == SetupInv /\ PolicyRuns => TrendTypeOK
  BY Zenon DEF SetupInv, PolicyRuns, TrendTypeOK

LEMMA PolicyRunsInitially == TrendInit => PolicyRuns
  BY Zenon DEF TrendInit, PolicyRuns

LEMMA PolicyRunsOn ==
    ASSUME PolicyRuns, [TrendNext]_trendVars PROVE PolicyRuns'
  <1>1. CASE Evaluate
    <2>1. PICK b \in PolicyBars :
            /\ Guarded \/ Waits \/ Manage(b) \/ Look(b)
            /\ prior' = IF b.inputs = "missing" THEN "none" ELSE b.place
            /\ policy' = policy
      BY <1>1, Zenon DEF Evaluate
    <2>2. b.place \in Places
      BY <2>1, Zenon DEF PolicyBars
    <2>3. intent' \in {"NONE", "ENTRY", "EXIT"}
      <3>1. CASE Guarded
        BY <3>1, Zenon DEF Guarded, Proposes
      <3>2. CASE Waits
        BY <3>2, Zenon DEF Waits, Proposes
      <3>3. CASE Manage(b)
        BY <3>3, Zenon DEF Manage, Proposes
      <3>4. CASE Look(b)
        BY <3>4, Zenon DEF Look, Proposes
      <3> QED
        BY <2>1, <3>1, <3>2, <3>3, <3>4
    <2> QED
      BY <2>1, <2>2, <2>3, Zenon DEF PolicyRuns
  <1>2. CASE Move \/ UNCHANGED trendVars
    BY <1>2, Zenon DEF Move, trendVars, PolicyRuns
  <1> QED
    BY <1>1, <1>2, Zenon DEF TrendNext

-----------------------------------------------------------------------------
\* The composed system.

TypesInv ==
    ReportTypeOK /\ PageTypeOK /\ NoticeTypeOK /\ ChainTypeOK /\ PolicyRuns
PastInv == RolloutInv /\ ReplayInv /\ ViewInv /\ LadderInv /\ ExecutionInv /\ StudyInv

OfflineInv ==
    /\ PagesInv /\ PageInv /\ GateInv /\ NoticeInv /\ ChainInv /\ SetupInv
    /\ TypesInv /\ PastInv

\* A step of the service, by its callers or by the machine alone.
ServiceNext == [ChainNext]_chainVars \/ (MachineNext /\ UNCHANGED requestVars)

\* A step of the system is a step of each part or leaves it alone.
LEMMA StepOfEachPart ==
    ASSUME [Next]_offlineVars
    PROVE  /\ [ReportNext]_reportVars
           /\ [PageNext]_pageVars
           /\ [GateNext]_report
           /\ [NoticeNext]_noticeVars
           /\ ServiceNext
           /\ [TrendNext]_trendVars
           /\ [RolloutNext]_rolloutVars
           /\ [ReplayNext]_replayVars
           /\ [ViewNext]_viewVars
           /\ [LadderNext]_ladderVars
           /\ [ExecutionNext]_replayRuleVars
           /\ [StudyNext]_studyVars
  <1>1. [ReportNext]_reportVars
    BY Zenon DEF Next, offlineVars
  <1>2. [PageNext]_pageVars
    BY Zenon DEF Next, offlineVars
  <1>3. [GateNext]_report
    BY Zenon DEF Next, offlineVars
  <1>4. [NoticeNext]_noticeVars
    BY Zenon DEF Next, offlineVars
  <1>5. ServiceNext
    BY Zenon DEF Next, offlineVars, ServiceNext
  <1>6. [TrendNext]_trendVars
    BY Zenon DEF Next, offlineVars
  <1>8. [RolloutNext]_rolloutVars
    BY Zenon DEF Next, offlineVars
  <1>9. [ReplayNext]_replayVars
    BY Zenon DEF Next, offlineVars
  <1>10. [ViewNext]_viewVars
    BY Zenon DEF Next, offlineVars
  <1>11. [LadderNext]_ladderVars
    BY Zenon DEF Next, offlineVars
  <1>12. [ExecutionNext]_replayRuleVars
    BY Zenon DEF Next, offlineVars
  <1>13. [StudyNext]_studyVars
    BY Zenon DEF Next, offlineVars
  <1> QED
    BY <1>1, <1>2, <1>3, <1>4, <1>5, <1>6, <1>8, <1>9, <1>10, <1>11, <1>12, <1>13, Zenon

LEMMA ServiceInitially == Init => ChainInv /\ ChainTypeOK
  <1> SUFFICES ASSUME Init PROVE ChainInv /\ ChainTypeOK
    OBVIOUS
  <1>1. \/ ChainInit
        \/ MachineInit /\ NothingDecided
    BY DEF Init
  <1>2. NothingDecided /\ MachineInv
    <2>1. CASE ChainInit
      BY <2>1 DEF ChainInit, MachineInv, SystemStates, Positions, Evaluations, Healths,
         StateEvents, Lawful, To
    <2>2. CASE MachineInit /\ NothingDecided
      BY <2>2, MachineInitially
    <2> QED
      BY <1>1, <2>1, <2>2
  <1> QED
    BY <1>2, ChainInitially, ChainTypeInitially, Zenon

\* The values of the parts at the start, and those of the parts that rest.
LEMMA TypesInitially == Init => TypesInv
  <1> SUFFICES ASSUME Init PROVE TypesInv
    OBVIOUS
  <1>1. PageInit /\ TrendInit
    BY Zenon DEF Init
  <1>2. ReportTypeOK
    <2>1. CASE part = "report"
      <3>1. ReportInit
        BY <2>1, Zenon DEF Init
      <3> QED
        BY <3>1, ReportTypeInitially
    <2>2. CASE part # "report"
      <3>1. pages = <<>> /\ standing = FALSE /\ holds = FALSE
        BY <2>2, Zenon DEF Init
      <3>2. Len(pages) <= MaxPages /\ DOMAIN pages = {}
        BY <3>1, ReportAssumption
      <3> QED
        BY <3>1, <3>2, Zenon DEF ReportTypeOK
    <2> QED
      BY <2>1, <2>2
  <1>3. NoticeTypeOK
    <2>1. CASE part = "notice"
      <3>1. NoticeInit
        BY <2>1, Zenon DEF Init
      <3> QED
        BY <3>1, NoticeTypeInitially
    <2>2. CASE part # "notice"
      <3>1. hour = 1 /\ watcher = "start" /\ channel = "unset"
        BY <2>2, Zenon DEF Init
      <3> QED
        BY <3>1, NoticeAssumption DEF NoticeTypeOK, Answers
    <2> QED
      BY <2>1, <2>2
  <1> QED
    BY <1>1, <1>2, <1>3, PageTypeInitially, ServiceInitially, PolicyRunsInitially,
       Zenon
    DEF TypesInv

\* The simulations before their first step, in whatever part of the past they walk.
LEMMA PastInitially == Init => PastInv
  <1> SUFFICES ASSUME Init PROVE PastInv
    OBVIOUS
  <1>1. ReplayInit /\ ViewInit /\ LadderInit /\ ExecutionInit
    BY Zenon DEF Init
  <1>2. RolloutInv
    <2>1. CASE part = "rollout"
      <3>1. RolloutInit
        BY <2>1, Zenon DEF Init
      <3> QED
        BY <3>1, RolloutInitially
    <2>2. CASE part # "rollout"
      <3>1. /\ series = MCSeries /\ index = 1 /\ marked = 0 /\ bought = Flat
            /\ cash = 0 /\ held = 0 /\ exposed = {} /\ earned = 0 /\ bridged = 0
            /\ walk = "on" /\ trades = <<>>
        BY <2>2, Zenon DEF Init
      <3>2. series \in [1..Bars -> [at : Nat, price : Nat]] /\ \A i \in 1..Bars : series[i].at = i - 1
        BY <3>1, RolloutAssumption DEF MCSeries
      <3>3. Ordered(series)
        BY <3>2, RolloutAssumption DEF Ordered
      <3> QED
        BY <3>1, <3>2, <3>3, Resting, Zenon
    <2> QED
      BY <2>1, <2>2
  <1>3. StudyInv
    <2>1. CASE part = "study"
      <3>1. StudyInit
        BY <2>1, ZenonT(40) DEF Init
      <3> QED
        BY <3>1, StudyInitially
    <2>2. CASE part # "study"
      <3>1. /\ harness = "oos" /\ candles = <<>> /\ windows = <<>> /\ readingAt = StartOf(<<>>, 1)
            /\ openTrade = NoOpenTrade /\ armedFor = NotArmed /\ counted = 0 /\ episodes = <<>>
            /\ studyReport = NoStudyReport
        BY <2>2, Zenon DEF Init
      <3> QED
        BY <3>1, NoStudy, Zenon
    <2> QED
      BY <2>1, <2>2
  <1> QED
    BY <1>1, <1>2, <1>3, ReplayInitially, ViewInitially, LadderInitially, ExecutionInitially, Zenon
    DEF PastInv

\* What every part knows at the start, whether it is the one that moves or not.
LEMMA OfflineInitially == Init => OfflineInv
  <1> SUFFICES ASSUME Init PROVE OfflineInv
    OBVIOUS
  <1>1. PageInit /\ GateInit /\ TrendInit
    BY DEF Init
  <1>2. PagesInv
    <2>1. CASE part = "report"
      BY <2>1, PagesInitially DEF Init
    <2>2. CASE part # "report"
      <3>1. pages = <<>> /\ rights = "no"
        BY <2>2 DEF Init
      <3>2. <<>> \in Seq({}) /\ \A i \in 1..Len(<<>>) : FALSE
        OBVIOUS
      <3> QED
        BY <3>1, <3>2 DEF PagesInv
    <2> QED
      BY <2>1, <2>2
  <1>3. NoticeInv
    <2>1. CASE part = "notice"
      BY <2>1, NoticeInitially DEF Init
    <2>2. CASE part # "notice"
      <3>1. /\ hour = 1 /\ onDisk = [at |-> NoReport, verdict |-> "approve"]
            /\ watcher = "start" /\ since = Unwatched
            /\ posted = "nothing" /\ message = [text |-> "none", of |-> onDisk]
        BY <2>2 DEF Init
      <3> QED
        BY <3>1 DEF NoticeInv, NoReport, Unwatched
    <2> QED
      BY <2>1, <2>2
  <1> QED
    BY <1>1, <1>2, <1>3, PageInitially, GateInitially, SetupInitially,
       ServiceInitially, TypesInitially, PastInitially, Zenon
    DEF OfflineInv

\* What a step of the service may do, whoever takes it.
LEMMA ServiceStep ==
    ASSUME ChainInv, ServiceNext
    PROVE  ChainInv' /\ EndorsedStep /\ (MachineMoves \/ UNCHANGED machineVars)
  BY ChainStep, MachineStep, Zenon DEF ServiceNext

\* The values of the parts, and what the simulations know, after a step of any of them.
LEMMA TypesStep == OfflineInv /\ [Next]_offlineVars => TypesInv'
  <1> SUFFICES ASSUME OfflineInv, [Next]_offlineVars PROVE TypesInv'
    OBVIOUS
  <1>1. /\ PagesInv /\ ChainInv
        /\ ReportTypeOK /\ PageTypeOK /\ NoticeTypeOK /\ ChainTypeOK /\ PolicyRuns
    BY Zenon DEF OfflineInv, TypesInv
  <1>2. /\ [ReportNext]_reportVars /\ [PageNext]_pageVars /\ [NoticeNext]_noticeVars
        /\ ServiceNext /\ [TrendNext]_trendVars
    BY StepOfEachPart, Zenon
  <1>3. ChainInv'
    BY <1>1, <1>2, ServiceStep, Zenon
  <1>4. ChainTypeOK'
    BY <1>1, <1>2, <1>3, ChainTypeStep, ChainTypeKept, Zenon DEF ServiceNext
  <1> QED
    BY <1>1, <1>2, <1>4, ReportTypeStep, PageTypeStep, NoticeTypeStep, PolicyRunsOn,
       Zenon
    DEF TypesInv

LEMMA PastStep == PastInv /\ [Next]_offlineVars => PastInv'
  <1> SUFFICES ASSUME PastInv, [Next]_offlineVars PROVE PastInv'
    OBVIOUS
  <1>1. /\ [RolloutNext]_rolloutVars /\ [ReplayNext]_replayVars /\ [ViewNext]_viewVars
        /\ [LadderNext]_ladderVars /\ [ExecutionNext]_replayRuleVars /\ [StudyNext]_studyVars
    BY StepOfEachPart, Zenon
  <1> QED
    BY <1>1, RolloutStep, ReplayStep, ViewStep, LadderStep, ExecutionStep, StudyStep, Zenon
    DEF PastInv

\* What every part knows, it still knows after a step of any of them.
LEMMA OfflineStep == OfflineInv /\ [Next]_offlineVars => OfflineInv'
  <1> SUFFICES ASSUME OfflineInv, [Next]_offlineVars PROVE OfflineInv'
    OBVIOUS
  <1>1. PagesInv /\ PageInv /\ GateInv /\ NoticeInv /\ ChainInv /\ SetupInv
    BY Zenon DEF OfflineInv
  <1>2. /\ [ReportNext]_reportVars /\ [PageNext]_pageVars /\ [GateNext]_report
        /\ [NoticeNext]_noticeVars
        /\ ServiceNext /\ [TrendNext]_trendVars
    BY StepOfEachPart
  <1> QED
    BY <1>1, <1>2, PagesStep, PageStep, GateStep, NoticeStep, ServiceStep, SetupStep,
       TypesStep, PastStep, Zenon
    DEF OfflineInv

\* The inductive invariants of these parts hold of the composed system.
THEOREM OfflineInvariance == Spec => []OfflineInv
  BY OfflineInitially, OfflineStep, PTL DEF Spec

\* What an operator is told is so, for journals of every length, clocks of every age and
\* every run of a backtest: no entry credits the wrong decider or claims an authority that
\* was not there, no alarm of the page is the wrong one, and an announced verdict is of the
\* report it is announced for.
THEOREM ReportsHold == Spec => []ReportsAreTrue
  <1>1. OfflineInv => ReportsAreTrue
    BY PagesFollow, PageFollows, NoticeFollows, Zenon DEF OfflineInv, ReportsAreTrue
  <1> QED
    BY <1>1, OfflineInvariance, PTL

\* The numbers the rules were chosen by, whatever was walked: windows and holes of every
\* length, prices, fees and costs, cadences, warmups and timeouts, and whatever a policy, an
\* agent or a rule decided.  A reward is the book's, a replay skips no day and marks none
\* before its order, the agent is shown only what had closed (in a replay, before the day it
\* decides; live, no day after today), the ladder's drawdown is its
\* account's, a variant is marked by what was in force, and an episode lies in one piece of
\* the history and is counted once; and every part keeps its types.
THEOREM SimulationsHold == Spec => []SimulationIsHonest
  <1>1. ASSUME OfflineInv PROVE OfflineTypeOK
    <2>1. /\ GateInv /\ ChainInv /\ SetupInv
          /\ ReportTypeOK /\ PageTypeOK /\ NoticeTypeOK /\ ChainTypeOK /\ PolicyRuns
          /\ RolloutInv /\ ReplayInv /\ ViewInv /\ LadderInv /\ ExecutionInv /\ StudyInv
      BY <1>1, Zenon DEF OfflineInv, TypesInv, PastInv
    <2>2. GateTypeOK /\ MachineTypeOK /\ ViewTypeOK
      BY <2>1, Zenon DEF GateInv, ChainTypeOK, ViewInv
    <2> QED
      BY <2>1, <2>2, TrendTypeFollows, RolloutFollows, ReplayFollows,
         LadderFollows, ExecutionFollows, StudyFollows, Zenon
      DEF OfflineTypeOK
  <1>2. ASSUME OfflineInv
        PROVE  /\ RewardIsTheBook /\ ReplayIsHonest /\ NothingFromTheFuture
               /\ LadderIsHonest /\ VariantIsHonest /\ StudyIsHonest
    BY <1>2, RolloutFollows, ReplayFollows, LadderFollows, ExecutionFollows, StudyFollows, Zenon
    DEF OfflineInv, PastInv, ViewInv
  <1>3. OfflineInv => SimulationIsHonest
    BY <1>1, <1>2, Zenon DEF SimulationIsHonest
  <1> QED
    BY <1>3, OfflineInvariance, PTL

\* However many requests, deaths and restarts: a decision is on record once, is handed over
\* at most once and never before it is on disk, and the system is in a state its rules name.
THEOREM DecisionsHold == Spec => []DecisionsAreSound
  <1>1. OfflineInv => DecisionsAreSound
    BY Zenon DEF OfflineInv, ChainInv, MachineInv, DecisionsAreSound, StatesAreLawful
  <1> QED
    BY <1>1, OfflineInvariance, PTL

\* Of two reports that differ in one measurement, the worse is never the one approved,
\* whatever the values of the other nine.
THEOREM GateIsNotForSale == Spec => WorseIsNotApproved
  <1>1. OfflineInv /\ [Next]_offlineVars =>
          [\A f \in FieldNames : report'[f] # report[f] /\ Worse(f) /\ Approves(report')
             => Approves(report)]_report
    BY StepOfEachPart, WorseIsRefused, Zenon DEF OfflineInv
  <1> QED
    BY <1>1, OfflineInvariance, PTL DEF Spec, WorseIsNotApproved

\* No position is entered without its reason: not by the machine of the system state, not by
\* the service, and not by a policy, whatever the timeout of its setups.
THEOREM EntriesHold == Spec => EntriesAreEarned
  <1>1. OfflineInv /\ [Next]_offlineVars =>
          [/\ ~Prohibited(sys, sys', event')
           /\ sys.health # "READY" /\ sys'.health = "READY" => event' = "QUALITY_READY"]_machineVars
    <2> SUFFICES ASSUME OfflineInv, [Next]_offlineVars, ~ UNCHANGED machineVars
                 PROVE  /\ ~Prohibited(sys, sys', event')
                        /\ sys.health # "READY" /\ sys'.health = "READY" =>
                             event' = "QUALITY_READY"
      OBVIOUS
    <2>1. ChainInv /\ MachineInv /\ ServiceNext
      BY StepOfEachPart, Zenon DEF OfflineInv, ChainInv
    <2>2. MachineMoves
      BY <2>1, ServiceStep
    <2> QED
      BY <2>1, <2>2, MachineMovesOn, Zenon
  <1>2. OfflineInv /\ [Next]_offlineVars =>
          [\A n \in (Len(exported) + 1)..Len(exported') :
             exported'[n].action = "ENTER_LONG" =>
               /\ sys.position = "FLAT" /\ sys.health = "READY"
               /\ Approved(request) /\ ~Blockers(request)]_chainVars
    <2> SUFFICES ASSUME OfflineInv, [Next]_offlineVars PROVE EndorsedStep
      BY Zenon DEF EndorsedStep
    <2> QED
      BY StepOfEachPart, ServiceStep, Zenon DEF OfflineInv
  <1>3. OfflineInv /\ [Next]_offlineVars =>
          [setup' # setup /\ intent' = "ENTRY" =>
             LET n == Len(record')
             IN  /\ \E i \in 1..(n - 1) :
                      record'[i].arms /\ n - i <= Timeout
                      /\ \A j \in (i + 1)..n : record'[j].sound
                 /\ setup.state = "ARMED" /\ (IsPOL101 => setup'.state = "EMITTED")]_trendVars
    <2> SUFFICES ASSUME OfflineInv, [Next]_offlineVars PROVE EntryStep
      BY Zenon DEF EntryStep
    <2> QED
      BY StepOfEachPart, SetupStep, Zenon DEF OfflineInv
  <1>4. Spec => NoJump
    BY <1>1, OfflineInvariance, PTL DEF Spec, NoJump
  <1>5. Spec => EntriesAreEndorsed
    BY <1>2, OfflineInvariance, PTL DEF Spec, EntriesAreEndorsed
  <1>6. Spec => EntryIsEarned
    BY <1>3, OfflineInvariance, PTL DEF Spec, EntryIsEarned
  <1> QED
    BY <1>4, <1>5, <1>6 DEF EntriesAreEarned
=============================================================================
