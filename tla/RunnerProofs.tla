---------------------------- MODULE RunnerProofs ----------------------------
EXTENDS RunnerProperties, TLAPS

(* The constant records have their types.                                  *)
LEMMA ConstantRecords ==
    /\ Blank \in Engine /\ NoPos \in Position /\ Hold \in Decision /\ NoAnswer \in Answer
    /\ NoRequest \in Request /\ 0 \in Lots
  BY LotsAssumption, PriceAssumption
     DEF Blank, Engine, NoPos, Position, Hold, Decision, NoAnswer, Answer, NoRequest, Request, Lots

(* A reading of the account is a position.                                 *)
LEMMA ReadingType == ASSUME TypeOK PROVE Reading \in Position
  BY DEF TypeOK, Reading, Position, Lots

(* A restored engine is an engine.                                         *)
LEMMA RestoredType ==
    ASSUME TypeOK, NEW e \in Engine, NEW p \in Position
    PROVE  Restored(e, p) \in Engine
  <1>1. mkt \in 0..MaxPrice /\ p.qty \in Nat
    BY LotsAssumption, PriceAssumption DEF TypeOK, Prices, Position, Lots
  <1>2. Higher(e.high, mkt) \in 0..MaxPrice
    BY <1>1 DEF Engine, Higher
  <1>3. Blank \in Engine
    BY ConstantRecords
  <1> QED
    BY <1>1, <1>2, <1>3 DEF Restored, Engine

(* A booked sell leaves an engine.                                         *)
LEMMA SellFilledType ==
    ASSUME TypeOK, NEW base \in Lots, SellFilled(base)
    PROVE  eng' \in Engine
  <1>1. Blank \in Engine
    BY ConstantRecords
  <1>2. CASE eng.qty > 0 /\ base <= eng.qty /\ eng' = [eng EXCEPT !.qty = eng.qty - base, !.prot = NoId]
    <2>1. eng \in Engine /\ base \in Nat
      BY LotsAssumption DEF TypeOK, Lots
    <2>2. eng.qty - base \in Nat
      BY <1>2, <2>1 DEF Engine
    <2> QED
      BY <1>2, <2>1, <2>2 DEF Engine
  <1> QED
    BY <1>1, <1>2 DEF SellFilled

(* A booked purchase leaves an engine, whatever the average.               *)
LEMMA BuyFilledType ==
    ASSUME TypeOK, NEW base \in Lots, NEW price \in 0..MaxPrice, NEW plan \in Plans \cup {NoPlan},
           BuyFilled(base, price, plan)
    PROVE  eng' \in Engine
  <1>1. base \in Nat /\ Prices \subseteq 0..MaxPrice
    BY LotsAssumption, PriceAssumption DEF Lots, Prices
  <1>2. eng \in Engine
    BY DEF TypeOK
  <1>3. \A average \in Average(eng.entry, price) : average \in 0..MaxPrice
    BY <1>1, <1>2 DEF Average, Engine
  <1>4. Higher(eng.high, price) \in 0..MaxPrice
    BY <1>2 DEF Higher, Engine
  <1> QED
    BY <1>1, <1>2, <1>3, <1>4 DEF BuyFilled, Engine

(* A reconciliation keeps what it touches in its type.                     *)
LEMMA ReconcileType ==
    ASSUME TypeOK, Reconcile
    PROVE  pos' \in Position /\ eng' \in Engine /\ ckpt' \in Engine \cup {NoCkpt} /\ ext' \in BOOLEAN
  <1>1. pos' \in Position
    BY ReadingType DEF Reconcile
  <1>2. Restored(eng, Reading) \in Engine
    BY ReadingType, RestoredType DEF TypeOK
  <1>3. \A s \in fired : s.qty \in Lots
    BY DEF TypeOK, StopOrder
  <1>4. ASSUME NEW s \in fired, SellFilled(s.qty) PROVE eng' \in Engine
    BY <1>3, <1>4, SellFilledType
  <1> QED
    BY <1>1, <1>2, <1>4 DEF Reconcile, TypeOK

(* The ids and quantities of resting stops have their types.               *)
LEMMA StopType ==
    ASSUME TypeOK
    PROVE  {s.id : s \in stops} \subseteq StopIds /\ \A s \in stops : s.id \in StopIds /\ s.qty \in Lots
  BY DEF TypeOK, StopOrder

(* The restore of evaluate keeps engine and checkpoint typed.              *)
LEMMA EvaluateType ==
    ASSUME TypeOK, Evaluate
    PROVE  eng' \in Engine /\ ckpt' \in Engine
  BY RestoredType DEF TypeOK, Evaluate

(* Recording a protective order, or none, leaves an engine.                *)
LEMMA NewProtType ==
    ASSUME TypeOK, NEW i \in StopIds \cup {NoId}
    PROVE  [eng EXCEPT !.prot = i] \in Engine
  BY DEF TypeOK, Engine

(* Right after a read of the account the runner knows what it holds.       *)
LEMMA FreshReading ==
    ASSUME TypeOK
    PROVE  /\ Reading.long => Reading.qty >= free + locked
           /\ ~Reading.long => free + locked < MinLots
           /\ Reading.long \in BOOLEAN
  <1>1. Reading.long = (free + locked >= MinLots) /\ Reading.qty = free + locked
    BY DEF Reading
  <1>2. free + locked \in Nat /\ MinLots \in Nat
    BY LotsAssumption DEF TypeOK, Lots
  <1>3. Reading.long => free + locked >= MinLots
    BY <1>1
  <1>4. ~Reading.long => ~(free + locked >= MinLots)
    BY <1>1
  <1>5. Reading.long \in BOOLEAN
    BY DEF Reading
  <1> QED
    BY <1>1, <1>2, <1>3, <1>4, <1>5

(* A market order that asks for no more than there is keeps the account in *)
(* its bounds, and is counted under its id.                                *)
LEMMA ExecutesType ==
    ASSUME TypeOK, NEW cid \in ClientIds, NEW qty \in Lots, NEW base \in 0..qty,
           cid \in BuyIds => qty + Held <= MaxLots,
           cid \in SellIds => ~(qty > free),
           Executes(cid, qty, base)
    PROVE  /\ free' \in Lots /\ free' + locked \in Lots
           /\ orders' \in [ClientIds -> [status : {"NONE", "FILLED", "EXPIRED"}, n : 0..2]]
           /\ orders'[cid].status \in {"FILLED", "EXPIRED"}
  <1>1. /\ MaxLots \in Nat /\ qty \in Nat /\ base \in Nat /\ base <= qty
        /\ free \in Nat /\ locked \in Nat /\ free + locked <= MaxLots
    BY LotsAssumption DEF TypeOK, Lots
  <1>2. free' \in Lots /\ free' + locked \in Lots
    <2>1. CASE cid \in BuyIds
      BY <1>1, <2>1 DEF Executes, Held, Lots
    <2>2. CASE cid \in SellIds /\ cid \notin BuyIds
      BY <1>1, <2>2 DEF Executes, Lots
    <2> QED
      BY <2>1, <2>2 DEF ClientIds
  <1>3. \A n \in 0..2 : (IF n = 2 THEN 2 ELSE n + 1) \in 0..2
    OBVIOUS
  <1>4. \A c \in ClientIds : orders[c].n \in 0..2
    BY DEF TypeOK
  <1> QED
    BY <1>2, <1>3, <1>4 DEF Executes, TypeOK

(* Every step keeps every variable in its type.                            *)
LEMMA TypeStep ==
    ASSUME TypeOK, DecisionInv, StopInv, FlightInv, [Next]_vars
    PROVE  TypeOK'
  <1> USE ConstantRecords DEF TypeOK, PC, account, durable, memory, locals, env, Die, Done
  <1>1. CASE MarketMoves
    BY <1>1 DEF MarketMoves
  <1>2. ASSUME NEW s \in stops, StopFires(s) PROVE TypeOK'
    <2>1. locked' = 0 /\ locked = s.qty
      BY <1>2 DEF StopFires, StopInv, TypeOK, Lots
    <2>2. free' + locked' \in Lots /\ locked' \in Lots
      BY <1>2, <2>1 DEF StopFires, TypeOK, Lots
    <2> QED
      BY <1>2, <2>1, <2>2 DEF StopFires, TypeOK, durable, memory, locals, env
  <1>3. CASE LateExecution
    <2>1. flying.cid \in ClientIds /\ flying.qty \in Lots
      BY <1>3 DEF LateExecution, FlightInv, Request
    <2>2. PICK base \in 0..flying.qty : Executes(flying.cid, flying.qty, base)
      BY <1>3 DEF LateExecution
    <2>3. flying.cid \in BuyIds => flying.qty + Held <= MaxLots
      BY <1>3 DEF LateExecution, FlightInv
    <2>4. flying.cid \in SellIds => ~(flying.qty > free)
      BY <1>3 DEF LateExecution, Refused
    <2>5. /\ free' \in Lots /\ free' + locked \in Lots
          /\ orders' \in [ClientIds -> [status : {"NONE", "FILLED", "EXPIRED"}, n : 0..2]]
      BY <2>1, <2>2, <2>3, <2>4, ExecutesType
    <2> QED
      BY <1>3, <2>5 DEF LateExecution
  <1>4. CASE Crash
    <2>1. [cid |-> dec.cid, qty |-> req] \in Request
      BY DEF Decision, Request
    <2> QED
      BY <1>4, <2>1 DEF Crash, MayStillArrive
  <1>5. CASE Restart
    BY <1>5 DEF Restart
  <1>6. ASSUME NEW c \in ClientIds, ResolveIntent(c) PROVE TypeOK'
    BY <1>6 DEF ResolveIntent, Unresolved, Terminal
  <1>7. CASE IntentAges
    BY <1>7 DEF IntentAges
  <1>8. CASE Bootstrap
    BY <1>8, ReadingType, RestoredType DEF Bootstrap
  <1>9. CASE EventArrives
    BY <1>9, ReconcileType DEF EventArrives
  <1>10. CASE RecordProtectiveFill
    BY <1>10 DEF RecordProtectiveFill
  <1>11. CASE DecideToHold
    BY <1>11, EvaluateType DEF DecideToHold, Evaluate
  <1>12. ASSUME NEW d \in Decision, DecideToTrade(d) PROVE TypeOK'
    BY <1>12, EvaluateType DEF DecideToTrade, Evaluate
  <1>13. CASE ReadBeforeOrder
    <2>1. pos' \in Position /\ eng' \in Engine /\ ckpt' \in Engine \cup {NoCkpt} /\ ext' \in BOOLEAN
      BY <1>13, ReconcileType DEF ReadBeforeOrder
    <2>2. Reading.qty \in Nat /\ MaxLots \in Nat
      BY LotsAssumption DEF TypeOK, Reading, Lots
    <2>3. 1..Affordable \subseteq Lots
      BY <2>2 DEF Lots, Affordable
    <2>4. req' \in Lots /\ dec' \in Decision /\ pc' \in PC
      BY <1>13, <2>3 DEF ReadBeforeOrder, Veto, TypeOK, PC
    <2> QED
      BY <1>13, <2>1, <2>4 DEF ReadBeforeOrder, TypeOK, account, env
  <1>14. CASE ListForExit
    BY <1>14, StopType DEF ListForExit
  <1>15. CASE ReadBeforeSell
    <2>1. pos' \in Position /\ eng' \in Engine /\ ckpt' \in Engine \cup {NoCkpt} /\ ext' \in BOOLEAN
      BY <1>15, ReconcileType DEF ReadBeforeSell
    <2>2. 0..Reading.qty \subseteq Lots
      BY LotsAssumption DEF TypeOK, Reading, Lots
    <2>3. req' \in Lots /\ dec' \in Decision /\ pc' \in PC
      BY <1>15, <2>2 DEF ReadBeforeSell, Veto, TypeOK, PC
    <2> QED
      BY <1>15, <2>1, <2>3 DEF ReadBeforeSell, TypeOK, account, env
  <1>16. CASE PrepareIntent
    BY <1>16 DEF PrepareIntent, Veto, Unresolved, Terminal
  <1>17. CASE ExchangeExecutes
    <2>1. dec.cid \in ClientIds /\ req \in Lots
      BY <1>17 DEF ExchangeExecutes, DecisionInv, Decision, ClientIds
    <2>2. PICK base \in 0..req :
             /\ Executes(dec.cid, req, base)
             /\ ack' = [status |-> orders'[dec.cid].status, base |-> base, price |-> mkt]
      BY <1>17 DEF ExchangeExecutes
    <2>3. dec.cid \in BuyIds => req + Held <= MaxLots
      BY <1>17, IdAssumption DEF ExchangeExecutes, DecisionInv, Decision, ClientIds
    <2>4. dec.cid \in SellIds => ~(req > free)
      BY <1>17 DEF ExchangeExecutes, Refused
    <2>5. /\ free' \in Lots /\ free' + locked \in Lots
          /\ orders' \in [ClientIds -> [status : {"NONE", "FILLED", "EXPIRED"}, n : 0..2]]
          /\ orders'[dec.cid].status \in {"FILLED", "EXPIRED"}
      BY <2>1, <2>2, <2>3, <2>4, ExecutesType
    <2>6. ack' \in Answer
      BY <2>1, <2>2, <2>5, LotsAssumption, PriceAssumption DEF Answer, Lots, Prices
    <2> QED
      BY <1>17, <2>5, <2>6 DEF ExchangeExecutes
  <1>18. CASE PlacementRaises
    <2>1. [cid |-> dec.cid, qty |-> req] \in Request
      BY DEF Decision, Request
    <2> QED
      BY <1>18, <2>1 DEF PlacementRaises, MayStillArrive, Unresolved
  <1>19. CASE MarkIntent
    <2>1. ack.status \in {"NONE"} \cup Terminal
      BY DEF TypeOK, Answer, Terminal
    <2> QED
      BY <1>19, <2>1 DEF MarkIntent, TypeOK, PC, account, locals
  <1>20. CASE ApplyFill
    <2>1. ack.base \in Lots /\ ack.price \in 0..MaxPrice /\ dec.plan \in Plans \cup {NoPlan}
      BY DEF TypeOK, Answer, Decision
    <2>2. eng' \in Engine /\ ckpt' \in Engine \cup {NoCkpt}
      BY <1>20, <2>1, BuyFilledType, SellFilledType DEF ApplyFill, TypeOK
    <2> QED
      BY <1>20, <2>2 DEF ApplyFill, TypeOK, PC, account, env
  <1>21. CASE Settle
    BY <1>21, ReconcileType DEF Settle
  <1>22. CASE SyncFlat
    BY <1>22, StopType DEF SyncFlat
  <1>23. CASE SyncRaises
    BY <1>23 DEF SyncRaises
  <1>24. CASE SyncLong
    <2>1. pos.qty \in Lots
      BY DEF TypeOK, Position
    <2>2. \A s \in stops : [eng EXCEPT !.prot = s.id] \in Engine
      BY StopType, NewProtType
    <2>3. eng' \in Engine /\ ckpt' \in Engine \cup {NoCkpt}
      BY <1>24, <2>2 DEF SyncLong, TypeOK
    <2>4. pc' \in PC /\ req' \in Lots /\ todo' \subseteq StopIds /\ placed' \in StopIds \cup {NoId}
          /\ ret' \in {"none", "exitRead", "idle", "resize"}
      BY <1>24, <2>1, StopType DEF SyncLong, Done, TypeOK, PC
    <2> QED
      BY <1>24, <2>3, <2>4 DEF SyncLong, TypeOK, account, env
  <1>25. ASSUME NEW s \in stops, CancelStop(s) PROVE TypeOK'
    <2>1. locked' = 0 /\ locked = s.qty /\ free' = free + locked
      BY <1>25 DEF CancelStop, StopInv, TypeOK, Lots
    <2>2. free' \in Lots /\ free' + locked' \in Lots
      BY <2>1 DEF TypeOK, Lots
    <2> QED
      BY <1>25, <2>1, <2>2 DEF CancelStop, TypeOK, durable, env
  <1>26. CASE CancelRaises
    BY <1>26 DEF CancelRaises
  <1>27. CASE CancelDone
    BY <1>27, NewProtType DEF CancelDone, DecisionInv
  <1>28. CASE Resize
    BY <1>28, ReadingType DEF Resize
  <1>29. ASSUME NEW i \in FreshIds, PlaceStop(i) PROVE TypeOK'
    <2>1. StopLevel(eng) \in Int
      <3>1. eng.entry \in Int /\ eng.high \in Int /\ Width[eng.plan] \in Int
        BY PlanAssumption DEF TypeOK, Engine
      <3> QED
        BY <3>1 DEF StopLevel, Higher
    <2>2. i \in StopIds
      BY DEF FreshIds
    <2>3. [id |-> i, qty |-> req, level |-> StopLevel(eng)] \in StopOrder
      BY <2>1, <2>2 DEF TypeOK, StopOrder
    <2>4. locked = 0 /\ free - req \in Lots /\ locked + req \in Lots /\ (free - req) + (locked + req) \in Lots
      BY <1>29, LotsAssumption DEF PlaceStop, Acceptable, StopInv, TypeOK, Lots
    <2> QED
      BY <1>29, <2>2, <2>3, <2>4 DEF PlaceStop, TypeOK, PC, durable, env
  <1>30. CASE PlaceStopRaises
    BY <1>30 DEF PlaceStopRaises
  <1>31. CASE StopPlaced
    BY <1>31, NewProtType, ReadingType DEF StopPlaced
  <1>32. CASE FaultsStop
    BY <1>32, PriceAssumption DEF FaultsStop
  <1>33. CASE UNCHANGED vars
    BY <1>33 DEF vars
  <1> QED
    BY <1>1, <1>2, <1>3, <1>4, <1>5, <1>6, <1>7, <1>8, <1>9, <1>10, <1>11,
       <1>12, <1>13, <1>14, <1>15, <1>16, <1>17, <1>18, <1>19, <1>20, <1>21,
       <1>22, <1>23, <1>24, <1>25, <1>26, <1>27, <1>28, <1>29, <1>30, <1>31, <1>32,
       <1>33
       DEF Next, Runner, Startup, Trading, Protecting

(* The decision in hand stays one the engine could have taken, and a buy   *)
(* never asks for more than the cash can pay.                              *)
LEMMA DecisionStep ==
    ASSUME TypeOK, DecisionInv, StopInv, FlightInv, [Next]_vars
    PROVE  DecisionInv'
  <1> USE DEF DecisionInv, Held, Hold, account, durable, memory, locals, env, Die, Done
  <1>1. CASE MarketMoves
    BY <1>1 DEF MarketMoves
  <1>2. ASSUME NEW s \in stops, StopFires(s) PROVE DecisionInv'
    BY <1>2, LotsAssumption DEF StopFires, TypeOK, Lots, StopInv, StopOrder
  <1>3. CASE LateExecution
    BY <1>3 DEF LateExecution, FlightInv
  <1>4. CASE Crash
    BY <1>4 DEF Crash
  <1>5. CASE Restart
    BY <1>5 DEF Restart
  <1>6. ASSUME NEW c \in ClientIds, ResolveIntent(c) PROVE DecisionInv'
    BY <1>6 DEF ResolveIntent
  <1>7. CASE IntentAges
    BY <1>7 DEF IntentAges
  <1>8. CASE Bootstrap
    BY <1>8 DEF Bootstrap
  <1>9. CASE EventArrives
    BY <1>9 DEF EventArrives
  <1>10. CASE RecordProtectiveFill
    BY <1>10 DEF RecordProtectiveFill
  <1>11. CASE DecideToHold
    BY <1>11 DEF DecideToHold, Evaluate
  <1>12. ASSUME NEW d \in Decision, DecideToTrade(d) PROVE DecisionInv'
    BY <1>12 DEF DecideToTrade, Evaluate, MayOpen, MayAdjust, MayExit
  <1>13. CASE ReadBeforeOrder
    BY <1>13, LotsAssumption DEF ReadBeforeOrder, Veto, Affordable, Reading, TypeOK, Lots, Decision
  <1>14. CASE ListForExit
    BY <1>14 DEF ListForExit
  <1>15. CASE ReadBeforeSell
    BY <1>15 DEF ReadBeforeSell, Veto
  <1>16. CASE PrepareIntent
    BY <1>16 DEF PrepareIntent, Veto
  <1>17. CASE ExchangeExecutes
    BY <1>17 DEF ExchangeExecutes
  <1>18. CASE PlacementRaises
    BY <1>18 DEF PlacementRaises
  <1>19. CASE MarkIntent
    BY <1>19 DEF MarkIntent
  <1>20. CASE ApplyFill
    BY <1>20 DEF ApplyFill
  <1>21. CASE Settle
    BY <1>21 DEF Settle
  <1>22. CASE SyncFlat
    BY <1>22 DEF SyncFlat
  <1>23. CASE SyncRaises
    BY <1>23 DEF SyncRaises
  <1>24. CASE SyncLong
    BY <1>24 DEF SyncLong
  <1>25. ASSUME NEW s \in stops, CancelStop(s) PROVE DecisionInv'
    BY <1>25, LotsAssumption DEF CancelStop, TypeOK, Lots, StopInv, StopOrder
  <1>26. CASE CancelRaises
    BY <1>26 DEF CancelRaises
  <1>27. CASE CancelDone
    BY <1>27 DEF CancelDone
  <1>28. CASE Resize
    BY <1>28 DEF Resize
  <1>29. ASSUME NEW i \in FreshIds, PlaceStop(i) PROVE DecisionInv'
    BY <1>29 DEF PlaceStop
  <1>30. CASE PlaceStopRaises
    BY <1>30 DEF PlaceStopRaises
  <1>31. CASE StopPlaced
    BY <1>31 DEF StopPlaced
  <1>32. CASE FaultsStop
    BY <1>32 DEF FaultsStop
  <1>33. CASE UNCHANGED vars
    BY <1>33 DEF vars
  <1> QED
    BY <1>1, <1>2, <1>3, <1>4, <1>5, <1>6, <1>7, <1>8, <1>9, <1>10, <1>11,
       <1>12, <1>13, <1>14, <1>15, <1>16, <1>17, <1>18, <1>19, <1>20, <1>21,
       <1>22, <1>23, <1>24, <1>25, <1>26, <1>27, <1>28, <1>29, <1>30, <1>31, <1>32,
       <1>33
       DEF Next, Runner, Startup, Trading, Protecting

(* A new stop is placed only on a book that carries none.                  *)
LEMMA StopStep ==
    ASSUME TypeOK, DecisionInv, StopInv, [Next]_vars
    PROVE  StopInv'
  <1> USE DEF StopInv, OneStop, account, durable, memory, locals, env, Die, Done
  <1>1. CASE MarketMoves
    BY <1>1 DEF MarketMoves
  <1>2. ASSUME NEW s \in stops, StopFires(s) PROVE StopInv'
    BY <1>2 DEF StopFires, TypeOK, Lots
  <1>3. CASE LateExecution
    BY <1>3 DEF LateExecution
  <1>4. CASE Crash
    BY <1>4 DEF Crash
  <1>5. CASE Restart
    BY <1>5 DEF Restart
  <1>6. ASSUME NEW c \in ClientIds, ResolveIntent(c) PROVE StopInv'
    BY <1>6 DEF ResolveIntent
  <1>7. CASE IntentAges
    BY <1>7 DEF IntentAges
  <1>8. CASE Bootstrap
    BY <1>8 DEF Bootstrap
  <1>9. CASE EventArrives
    BY <1>9 DEF EventArrives
  <1>10. CASE RecordProtectiveFill
    BY <1>10 DEF RecordProtectiveFill
  <1>11. CASE DecideToHold
    BY <1>11 DEF DecideToHold, Evaluate
  <1>12. ASSUME NEW d \in Decision, DecideToTrade(d) PROVE StopInv'
    BY <1>12 DEF DecideToTrade, Evaluate
  <1>13. CASE ReadBeforeOrder
    BY <1>13 DEF ReadBeforeOrder, Veto
  <1>14. CASE ListForExit
    BY <1>14 DEF ListForExit
  <1>15. CASE ReadBeforeSell
    BY <1>15 DEF ReadBeforeSell, Veto
  <1>16. CASE PrepareIntent
    BY <1>16 DEF PrepareIntent, Veto
  <1>17. CASE ExchangeExecutes
    BY <1>17 DEF ExchangeExecutes
  <1>18. CASE PlacementRaises
    BY <1>18 DEF PlacementRaises
  <1>19. CASE MarkIntent
    BY <1>19 DEF MarkIntent
  <1>20. CASE ApplyFill
    BY <1>20 DEF ApplyFill
  <1>21. CASE Settle
    BY <1>21 DEF Settle
  <1>22. CASE SyncFlat
    BY <1>22 DEF SyncFlat
  <1>23. CASE SyncRaises
    BY <1>23 DEF SyncRaises
  <1>24. CASE SyncLong
    BY <1>24 DEF SyncLong
  <1>25. ASSUME NEW s \in stops, CancelStop(s) PROVE StopInv'
    BY <1>25 DEF CancelStop, TypeOK, Lots
  <1>26. CASE CancelRaises
    BY <1>26 DEF CancelRaises
  <1>27. CASE CancelDone
    BY <1>27 DEF CancelDone, DecisionInv
  <1>28. CASE Resize
    BY <1>28 DEF Resize
  <1>29. ASSUME NEW i \in FreshIds, PlaceStop(i) PROVE StopInv'
    <2>1. stops = {} /\ stops' = {[id |-> i, qty |-> req, level |-> StopLevel(eng)]}
      BY <1>29 DEF PlaceStop
    <2>2. locked' = req
      BY <1>29, LotsAssumption DEF PlaceStop, TypeOK, Lots
    <2>3. \A s \in stops' : s.qty = req
      BY <2>1
    <2>4. stops' # {} /\ \A s, t \in stops' : s = t
      BY <2>1
    <2> QED
      BY <1>29, <2>2, <2>3, <2>4 DEF PlaceStop
  <1>30. CASE PlaceStopRaises
    BY <1>30 DEF PlaceStopRaises
  <1>31. CASE StopPlaced
    BY <1>31 DEF StopPlaced
  <1>32. CASE FaultsStop
    BY <1>32 DEF FaultsStop
  <1>33. CASE UNCHANGED vars
    BY <1>33 DEF vars
  <1> QED
    BY <1>1, <1>2, <1>3, <1>4, <1>5, <1>6, <1>7, <1>8, <1>9, <1>10, <1>11,
       <1>12, <1>13, <1>14, <1>15, <1>16, <1>17, <1>18, <1>19, <1>20, <1>21,
       <1>22, <1>23, <1>24, <1>25, <1>26, <1>27, <1>28, <1>29, <1>30, <1>31, <1>32,
       <1>33
       DEF Next, Runner, Startup, Trading, Protecting

(* Only a process that dies leaves a request behind, and the next process  *)
(* starts the strategy only when its intent is resolved.                   *)
LEMMA FlightStep ==
    ASSUME TypeOK, DecisionInv, StopInv, FlightInv, LedgerInv, [Next]_vars
    PROVE  FlightInv'
  <1> USE DEF FlightInv, Held, NoRequest, account, durable, memory, locals, env, Die, Done
  <1>1. CASE MarketMoves
    BY <1>1 DEF MarketMoves
  <1>2. ASSUME NEW s \in stops, StopFires(s) PROVE FlightInv'
    BY <1>2, LotsAssumption, IdAssumption DEF StopFires, TypeOK, Lots, StopInv, StopOrder, Request
  <1>3. CASE LateExecution
    BY <1>3 DEF LateExecution
  <1>4. CASE Crash
    BY <1>4, LotsAssumption, IdAssumption DEF Crash, MayStillArrive, DecisionInv, TypeOK, Decision, ClientIds, LedgerInv
  <1>5. CASE Restart
    BY <1>5 DEF Restart
  <1>6. ASSUME NEW c \in ClientIds, ResolveIntent(c) PROVE FlightInv'
    BY <1>6 DEF ResolveIntent, Unresolved, Terminal, TypeOK, LedgerInv
  <1>7. CASE IntentAges
    BY <1>7 DEF IntentAges
  <1>8. CASE Bootstrap
    BY <1>8 DEF Bootstrap, TypeOK
  <1>9. CASE EventArrives
    BY <1>9 DEF EventArrives
  <1>10. CASE RecordProtectiveFill
    BY <1>10 DEF RecordProtectiveFill
  <1>11. CASE DecideToHold
    BY <1>11 DEF DecideToHold, Evaluate
  <1>12. ASSUME NEW d \in Decision, DecideToTrade(d) PROVE FlightInv'
    BY <1>12 DEF DecideToTrade, Evaluate
  <1>13. CASE ReadBeforeOrder
    BY <1>13 DEF ReadBeforeOrder, Veto
  <1>14. CASE ListForExit
    BY <1>14 DEF ListForExit
  <1>15. CASE ReadBeforeSell
    BY <1>15 DEF ReadBeforeSell, Veto
  <1>16. CASE PrepareIntent
    BY <1>16 DEF PrepareIntent, Veto
  <1>17. CASE ExchangeExecutes
    BY <1>17 DEF ExchangeExecutes
  <1>18. CASE PlacementRaises
    BY <1>18, LotsAssumption, IdAssumption DEF PlacementRaises, MayStillArrive, DecisionInv, TypeOK, Decision, ClientIds, LedgerInv, Unresolved
  <1>19. CASE MarkIntent
    BY <1>19 DEF MarkIntent
  <1>20. CASE ApplyFill
    BY <1>20 DEF ApplyFill
  <1>21. CASE Settle
    BY <1>21 DEF Settle
  <1>22. CASE SyncFlat
    BY <1>22 DEF SyncFlat
  <1>23. CASE SyncRaises
    BY <1>23 DEF SyncRaises
  <1>24. CASE SyncLong
    BY <1>24 DEF SyncLong
  <1>25. ASSUME NEW s \in stops, CancelStop(s) PROVE FlightInv'
    BY <1>25 DEF CancelStop, TypeOK, Lots
  <1>26. CASE CancelRaises
    BY <1>26 DEF CancelRaises
  <1>27. CASE CancelDone
    BY <1>27 DEF CancelDone, DecisionInv
  <1>28. CASE Resize
    BY <1>28 DEF Resize
  <1>29. ASSUME NEW i \in FreshIds, PlaceStop(i) PROVE FlightInv'
    BY <1>29 DEF PlaceStop
  <1>30. CASE PlaceStopRaises
    BY <1>30 DEF PlaceStopRaises
  <1>31. CASE StopPlaced
    BY <1>31 DEF StopPlaced
  <1>32. CASE FaultsStop
    BY <1>32 DEF FaultsStop
  <1>33. CASE UNCHANGED vars
    BY <1>33 DEF vars
  <1> QED
    BY <1>1, <1>2, <1>3, <1>4, <1>5, <1>6, <1>7, <1>8, <1>9, <1>10, <1>11,
       <1>12, <1>13, <1>14, <1>15, <1>16, <1>17, <1>18, <1>19, <1>20, <1>21,
       <1>22, <1>23, <1>24, <1>25, <1>26, <1>27, <1>28, <1>29, <1>30, <1>31, <1>32,
       <1>33
       DEF Next, Runner, Startup, Trading, Protecting

(* The ledger is written before an order is sent, and an order is sent     *)
(* only for an id that the ledger had never seen.                          *)
LEMMA LedgerStep ==
    ASSUME TypeOK, DecisionInv, FlightInv, LedgerInv, [Next]_vars
    PROVE  LedgerInv'
  <1> USE DEF LedgerInv, NoDoubleExecution, OneUnresolved, LedgerAgrees, Terminal, Unresolved, account, durable, memory, locals, env, Die, Done
  <1>1. CASE MarketMoves
    BY <1>1 DEF MarketMoves
  <1>2. ASSUME NEW s \in stops, StopFires(s) PROVE LedgerInv'
    BY <1>2 DEF StopFires
  <1>3. CASE LateExecution
    <2>1. flying.cid \in ClientIds /\ intents[flying.cid] \in Unresolved /\ pc \in {"down", "resolve"}
      BY <1>3 DEF LateExecution, FlightInv
    <2>2. PICK status \in {"FILLED", "EXPIRED"} :
             orders' = [orders EXCEPT ![flying.cid] = [status |-> status, n |-> 1]]
      <3>1. orders[flying.cid].n = 0
        BY <1>3 DEF LateExecution, FlightInv
      <3>2. PICK base \in 0..flying.qty : Executes(flying.cid, flying.qty, base)
        BY <1>3 DEF LateExecution
      <3>3. orders' = [orders EXCEPT ![flying.cid] =
                           [status |-> IF base = flying.qty THEN "FILLED" ELSE "EXPIRED", n |-> 1]]
        BY <3>1, <3>2 DEF Executes
      <3> QED
        BY <3>3
    <2>3. orders'[flying.cid] = [status |-> status, n |-> 1]
          /\ \A c \in ClientIds \ {flying.cid} : orders'[c] = orders[c]
      BY <2>1, <2>2 DEF TypeOK
    <2>4. intents' = intents /\ pc' = pc
      BY <1>3 DEF LateExecution
    <2> QED
      BY <2>1, <2>2, <2>3, <2>4
  <1>4. CASE Crash
    BY <1>4 DEF Crash
  <1>5. CASE Restart
    BY <1>5 DEF Restart
  <1>6. ASSUME NEW c \in ClientIds, ResolveIntent(c) PROVE LedgerInv'
    BY <1>6 DEF ResolveIntent, TypeOK
  <1>7. CASE IntentAges
    BY <1>7 DEF IntentAges
  <1>8. CASE Bootstrap
    BY <1>8 DEF Bootstrap
  <1>9. CASE EventArrives
    BY <1>9 DEF EventArrives
  <1>10. CASE RecordProtectiveFill
    BY <1>10 DEF RecordProtectiveFill
  <1>11. CASE DecideToHold
    BY <1>11 DEF DecideToHold, Evaluate
  <1>12. ASSUME NEW d \in Decision, DecideToTrade(d) PROVE LedgerInv'
    BY <1>12 DEF DecideToTrade, Evaluate
  <1>13. CASE ReadBeforeOrder
    BY <1>13 DEF ReadBeforeOrder, Veto
  <1>14. CASE ListForExit
    BY <1>14 DEF ListForExit
  <1>15. CASE ReadBeforeSell
    BY <1>15 DEF ReadBeforeSell, Veto
  <1>16. CASE PrepareIntent
    <2>1. dec.cid \in ClientIds
      BY <1>16 DEF PrepareIntent, DecisionInv, TypeOK, Decision, ClientIds
    <2>2. intents[dec.cid] \in {"NONE"} \cup Terminal
      BY <1>16, <2>1 DEF PrepareIntent, TypeOK
    <2>3. CASE intents[dec.cid] \in Terminal
      BY <1>16, <2>3 DEF PrepareIntent, Veto
    <2>4. CASE intents[dec.cid] = "NONE"
      <3>1. /\ intents' = [intents EXCEPT ![dec.cid] = "PREPARED"]
            /\ pc' = "post" /\ UNCHANGED <<orders, dec, ack>>
        BY <1>16, <2>4 DEF PrepareIntent
      <3>2. intents'[dec.cid] = "PREPARED" /\ \A c \in ClientIds \ {dec.cid} : intents'[c] = intents[c]
        BY <2>1, <3>1 DEF TypeOK
      <3>3. orders[dec.cid].n = 0
        BY <2>1, <2>4
      <3> QED
        BY <1>16, <2>1, <3>1, <3>2, <3>3 DEF PrepareIntent
    <2> QED
      BY <2>2, <2>3, <2>4
  <1>17. CASE ExchangeExecutes
    <2>1. dec.cid \in ClientIds
      BY <1>17 DEF ExchangeExecutes, DecisionInv, TypeOK, Decision, ClientIds
    <2>2. PICK status \in {"FILLED", "EXPIRED"} :
             orders' = [orders EXCEPT ![dec.cid] = [status |-> status, n |-> 1]]
      <3>1. orders[dec.cid].n = 0
        BY <1>17 DEF ExchangeExecutes
      <3>2. PICK base \in 0..req : Executes(dec.cid, req, base)
        BY <1>17 DEF ExchangeExecutes
      <3>3. orders' = [orders EXCEPT ![dec.cid] =
                           [status |-> IF base = req THEN "FILLED" ELSE "EXPIRED", n |-> 1]]
        BY <3>1, <3>2 DEF Executes
      <3> QED
        BY <3>3
    <2>3. orders'[dec.cid] = [status |-> status, n |-> 1]
          /\ \A c \in ClientIds \ {dec.cid} : orders'[c] = orders[c]
      BY <2>1, <2>2 DEF TypeOK
    <2>4. ack'.status = status
      BY <1>17, <2>3 DEF ExchangeExecutes
    <2>5. intents' = intents /\ dec' = dec /\ pc' = "mark" /\ intents[dec.cid] \in Unresolved
      BY <1>17 DEF ExchangeExecutes
    <2> QED
      BY <1>17, <2>1, <2>2, <2>3, <2>4, <2>5 DEF ExchangeExecutes
  <1>18. CASE PlacementRaises
    BY <1>18 DEF PlacementRaises, TypeOK
  <1>19. CASE MarkIntent
    BY <1>19 DEF MarkIntent, TypeOK
  <1>20. CASE ApplyFill
    BY <1>20 DEF ApplyFill
  <1>21. CASE Settle
    BY <1>21 DEF Settle
  <1>22. CASE SyncFlat
    BY <1>22 DEF SyncFlat
  <1>23. CASE SyncRaises
    BY <1>23 DEF SyncRaises
  <1>24. CASE SyncLong
    BY <1>24 DEF SyncLong
  <1>25. ASSUME NEW s \in stops, CancelStop(s) PROVE LedgerInv'
    BY <1>25 DEF CancelStop
  <1>26. CASE CancelRaises
    BY <1>26 DEF CancelRaises
  <1>27. CASE CancelDone
    BY <1>27 DEF CancelDone, DecisionInv
  <1>28. CASE Resize
    BY <1>28 DEF Resize
  <1>29. ASSUME NEW i \in FreshIds, PlaceStop(i) PROVE LedgerInv'
    BY <1>29 DEF PlaceStop
  <1>30. CASE PlaceStopRaises
    BY <1>30 DEF PlaceStopRaises
  <1>31. CASE StopPlaced
    BY <1>31 DEF StopPlaced
  <1>32. CASE FaultsStop
    BY <1>32 DEF FaultsStop
  <1>33. CASE UNCHANGED vars
    BY <1>33 DEF vars
  <1> QED
    BY <1>1, <1>2, <1>3, <1>4, <1>5, <1>6, <1>7, <1>8, <1>9, <1>10, <1>11,
       <1>12, <1>13, <1>14, <1>15, <1>16, <1>17, <1>18, <1>19, <1>20, <1>21,
       <1>22, <1>23, <1>24, <1>25, <1>26, <1>27, <1>28, <1>29, <1>30, <1>31, <1>32,
       <1>33
       DEF Next, Runner, Startup, Trading, Protecting

(* The runner leaves the event loop's body only with the book covered, and *)
(* what the exchange does by itself never uncovers it.                     *)
LEMMA CoverStep ==
    ASSUME TypeOK, DecisionInv, StopInv, FlightInv, CoverInv, [Next]_vars
    PROVE  CoverInv'
  <1> USE DEF CoverInv, PositionKnown, Covered, Held, account, durable, memory, locals, env, Die, Done
  <1>1. CASE MarketMoves
    BY <1>1 DEF MarketMoves
  <1>2. ASSUME NEW s \in stops, StopFires(s) PROVE CoverInv'
    BY <1>2, LotsAssumption DEF StopFires, TypeOK, Lots, StopInv, Position
  <1>3. CASE LateExecution
    BY <1>3 DEF LateExecution, FlightInv
  <1>4. CASE Crash
    BY <1>4 DEF Crash
  <1>5. CASE Restart
    BY <1>5 DEF Restart
  <1>6. ASSUME NEW c \in ClientIds, ResolveIntent(c) PROVE CoverInv'
    BY <1>6 DEF ResolveIntent
  <1>7. CASE IntentAges
    BY <1>7 DEF IntentAges
  <1>8. CASE Bootstrap
    <2>1. IF pos'.long THEN pos'.qty >= Held' ELSE Held' < MinLots
      BY <1>8, FreshReading DEF Bootstrap
    <2> QED
      BY <1>8, <2>1 DEF Bootstrap
  <1>9. CASE EventArrives
    <2>1. CASE Reconcile
      <3>1. IF pos'.long THEN pos'.qty >= Held' ELSE Held' < MinLots
        BY <1>9, <2>1, FreshReading DEF EventArrives, Reconcile
      <3> QED
        BY <1>9, <3>1 DEF EventArrives
    <2>2. CASE UNCHANGED <<pos, eng, ext, ckpt>>
      BY <1>9, <2>2 DEF EventArrives
    <2> QED
      BY <1>9, <2>1, <2>2 DEF EventArrives
  <1>10. CASE RecordProtectiveFill
    BY <1>10 DEF RecordProtectiveFill
  <1>11. CASE DecideToHold
    BY <1>11 DEF DecideToHold, Evaluate
  <1>12. ASSUME NEW d \in Decision, DecideToTrade(d) PROVE CoverInv'
    BY <1>12 DEF DecideToTrade, Evaluate
  <1>13. CASE ReadBeforeOrder
    <2>1. IF pos'.long THEN pos'.qty >= Held' ELSE Held' < MinLots
      BY <1>13, FreshReading DEF ReadBeforeOrder, Reconcile
    <2> QED
      BY <1>13, <2>1 DEF ReadBeforeOrder, Veto
  <1>14. CASE ListForExit
    BY <1>14 DEF ListForExit
  <1>15. CASE ReadBeforeSell
    <2>1. IF pos'.long THEN pos'.qty >= Held' ELSE Held' < MinLots
      BY <1>15, FreshReading DEF ReadBeforeSell, Reconcile
    <2> QED
      BY <1>15, <2>1 DEF ReadBeforeSell, Veto
  <1>16. CASE PrepareIntent
    BY <1>16 DEF PrepareIntent, Veto
  <1>17. CASE ExchangeExecutes
    BY <1>17 DEF ExchangeExecutes
  <1>18. CASE PlacementRaises
    BY <1>18 DEF PlacementRaises
  <1>19. CASE MarkIntent
    BY <1>19 DEF MarkIntent
  <1>20. CASE ApplyFill
    BY <1>20 DEF ApplyFill
  <1>21. CASE Settle
    <2>1. IF pos'.long THEN pos'.qty >= Held' ELSE Held' < MinLots
      BY <1>21, FreshReading DEF Settle, Reconcile
    <2>2. pos'.long = Reading.long
      BY <1>21 DEF Settle, Reconcile
    <2> QED
      BY <1>21, <2>1, <2>2, FreshReading DEF Settle
  <1>22. CASE SyncFlat
    BY <1>22 DEF SyncFlat, TypeOK, Lots
  <1>23. CASE SyncRaises
    BY <1>23 DEF SyncRaises
  <1>24. CASE SyncLong
    BY <1>24, LotsAssumption DEF SyncLong, TypeOK, Lots, StopInv, Matches, Position
  <1>25. ASSUME NEW s \in stops, CancelStop(s) PROVE CoverInv'
    BY <1>25, LotsAssumption DEF CancelStop, TypeOK, Lots, StopInv, Position
  <1>26. CASE CancelRaises
    BY <1>26 DEF CancelRaises
  <1>27. CASE CancelDone
    BY <1>27 DEF CancelDone, DecisionInv, StopInv
  <1>28. CASE Resize
    <2>1. IF pos'.long THEN pos'.qty >= Held' ELSE Held' < MinLots
      BY <1>28, FreshReading DEF Resize
    <2>2. locked = 0 /\ free \in Nat
      BY <1>28, LotsAssumption DEF Resize, StopInv, TypeOK, Lots
    <2> QED
      BY <1>28, <2>1, <2>2 DEF Resize
  <1>29. ASSUME NEW i \in FreshIds, PlaceStop(i) PROVE CoverInv'
    <2>1. locked = 0 /\ free \in Nat /\ req \in Nat
      BY <1>29, LotsAssumption DEF PlaceStop, StopInv, TypeOK, Lots
    <2>2. free' = free - req /\ locked' = locked + req /\ stops' # {} /\ req <= free /\ req >= free + locked
      BY <1>29 DEF PlaceStop, Acceptable
    <2>3. free' = 0 /\ free' + locked' = free + locked
      BY <2>1, <2>2
    <2> QED
      BY <1>29, <2>2, <2>3 DEF PlaceStop
  <1>30. CASE PlaceStopRaises
    BY <1>30 DEF PlaceStopRaises
  <1>31. CASE StopPlaced
    <2>1. IF pos'.long THEN pos'.qty >= Held' ELSE Held' < MinLots
      BY <1>31, FreshReading DEF StopPlaced
    <2> QED
      BY <1>31, <2>1 DEF StopPlaced
  <1>32. CASE FaultsStop
    BY <1>32 DEF FaultsStop
  <1>33. CASE UNCHANGED vars
    BY <1>33 DEF vars
  <1> QED
    BY <1>1, <1>2, <1>3, <1>4, <1>5, <1>6, <1>7, <1>8, <1>9, <1>10, <1>11,
       <1>12, <1>13, <1>14, <1>15, <1>16, <1>17, <1>18, <1>19, <1>20, <1>21,
       <1>22, <1>23, <1>24, <1>25, <1>26, <1>27, <1>28, <1>29, <1>30, <1>31, <1>32,
       <1>33
       DEF Next, Runner, Startup, Trading, Protecting

(* A read of the account while a stop rests finds a LONG book, exactly.     *)
LEMMA ReadingExact ==
    ASSUME TypeOK, BookInv
    PROVE  /\ stops # {} => Reading.long /\ Reading.qty = free + locked
           /\ Reading.long => Reading.qty >= MinLots
  <1>1. free \in Nat /\ locked \in Nat /\ MinLots \in Nat
    BY LotsAssumption DEF TypeOK, Lots
  <1>2. Reading.long = (free + locked >= MinLots) /\ Reading.qty = free + locked
    BY DEF Reading
  <1>3. stops # {} => free + locked >= MinLots
    BY <1>1 DEF BookInv
  <1> QED
    BY <1>1, <1>2, <1>3

(* What rests on the book is known, and worth what protects it.             *)
LEMMA BookStep ==
    ASSUME TypeOK, DecisionInv, StopInv, FlightInv, CoverInv, BookInv, [Next]_vars
    PROVE  BookInv'
  <1> USE DEF BookInv, Held, account, durable, memory, locals, env, Die, Done
  <1>1. CASE MarketMoves
    BY <1>1 DEF MarketMoves
  <1>2. ASSUME NEW s \in stops, StopFires(s) PROVE BookInv'
    <2>1. stops' = {} /\ free' + locked' <= free + locked
      BY <1>2, LotsAssumption DEF StopFires, StopInv, OneStop, TypeOK, Lots
    <2>2. pc = "cancel" => s.id \in todo
      BY StopInv DEF StopInv
    <2>3. pc # "resize"
      BY <1>2 DEF StopFires, StopInv
    <2> QED
      BY <1>2, <2>1, <2>2, <2>3 DEF StopFires
  <1>3. CASE LateExecution
    BY <1>3 DEF LateExecution, FlightInv
  <1>4. CASE Crash
    BY <1>4 DEF Crash, NoPos
  <1>5. CASE Restart
    BY <1>5 DEF Restart
  <1>6. ASSUME NEW c \in ClientIds, ResolveIntent(c) PROVE BookInv'
    BY <1>6 DEF ResolveIntent, NoPos
  <1>7. CASE IntentAges
    BY <1>7 DEF IntentAges
  <1>8. CASE Bootstrap
    <2>1. stops' # {} => pos'.long /\ pos'.qty = Held'
      BY <1>8, ReadingExact DEF Bootstrap, Reconcile
    <2>2. pos'.long => pos'.qty >= MinLots
      BY <1>8, ReadingExact DEF Bootstrap, Reconcile
    <2> QED
      BY <1>8, <2>1, <2>2 DEF Bootstrap
  <1>9. CASE EventArrives
    <2>1. CASE Reconcile
      <3>1. stops' # {} => pos'.long /\ pos'.qty = Held'
        BY <1>9, <2>1, ReadingExact DEF EventArrives, Reconcile
      <3>2. pos'.long => pos'.qty >= MinLots
        BY <1>9, <2>1, ReadingExact DEF EventArrives, Reconcile
      <3> QED
        BY <1>9, <3>1, <3>2 DEF EventArrives
    <2>2. CASE UNCHANGED <<pos, eng, ext, ckpt>>
      BY <1>9, <2>2 DEF EventArrives
    <2> QED
      BY <1>9, <2>1, <2>2 DEF EventArrives
  <1>10. CASE RecordProtectiveFill
    BY <1>10 DEF RecordProtectiveFill
  <1>11. CASE DecideToHold
    BY <1>11 DEF DecideToHold, Evaluate
  <1>12. ASSUME NEW d \in Decision, DecideToTrade(d) PROVE BookInv'
    BY <1>12 DEF DecideToTrade, Evaluate
  <1>13. CASE ReadBeforeOrder
    <2>1. stops' # {} => pos'.long /\ pos'.qty = Held'
      BY <1>13, ReadingExact DEF ReadBeforeOrder, Reconcile
    <2>2. pos'.long => pos'.qty >= MinLots
      BY <1>13, ReadingExact DEF ReadBeforeOrder, Reconcile
    <2> QED
      BY <1>13, <2>1, <2>2 DEF ReadBeforeOrder, Veto
  <1>14. CASE ListForExit
    BY <1>14 DEF ListForExit
  <1>15. CASE ReadBeforeSell
    <2>1. stops' # {} => pos'.long /\ pos'.qty = Held'
      BY <1>15, ReadingExact DEF ReadBeforeSell, Reconcile
    <2>2. pos'.long => pos'.qty >= MinLots
      BY <1>15, ReadingExact DEF ReadBeforeSell, Reconcile
    <2> QED
      BY <1>15, <2>1, <2>2 DEF ReadBeforeSell, Veto
  <1>16. CASE PrepareIntent
    BY <1>16 DEF PrepareIntent, Veto
  <1>17. CASE ExchangeExecutes
    BY <1>17 DEF ExchangeExecutes
  <1>18. CASE PlacementRaises
    BY <1>18 DEF PlacementRaises, NoPos
  <1>19. CASE MarkIntent
    BY <1>19 DEF MarkIntent
  <1>20. CASE ApplyFill
    BY <1>20 DEF ApplyFill
  <1>21. CASE Settle
    <2>1. stops' # {} => pos'.long /\ pos'.qty = Held'
      BY <1>21, ReadingExact DEF Settle, Reconcile
    <2>2. pos'.long => pos'.qty >= MinLots
      BY <1>21, ReadingExact DEF Settle, Reconcile
    <2> QED
      BY <1>21, <2>1, <2>2 DEF Settle
  <1>22. CASE SyncFlat
    BY <1>22 DEF SyncFlat
  <1>23. CASE SyncRaises
    BY <1>23 DEF SyncRaises, NoPos
  <1>24. CASE SyncLong
    BY <1>24 DEF SyncLong, StopInv
  <1>25. ASSUME NEW s \in stops, CancelStop(s) PROVE BookInv'
    <2>1. stops' = {} /\ free' + locked' = free + locked
      BY <1>25, LotsAssumption DEF CancelStop, StopInv, OneStop, TypeOK, Lots, StopOrder
    <2>2. todo \ {t.id : t \in stops} # {} => todo' # {}
      BY <1>25 DEF CancelStop
    <2> QED
      BY <1>25, <2>1, <2>2 DEF CancelStop
  <1>26. CASE CancelRaises
    BY <1>26 DEF CancelRaises, NoPos
  <1>27. CASE CancelDone
    BY <1>27 DEF CancelDone, DecisionInv, StopInv
  <1>28. CASE Resize
    <2>1. stops = {} /\ locked = 0 /\ free \in Nat
      BY <1>28, LotsAssumption DEF Resize, StopInv, TypeOK, Lots
    <2>2. Reading.long = (free + locked >= MinLots) /\ Reading.qty = free + locked
      BY DEF Reading
    <2>3. free >= MinLots
      BY <1>28, <2>1 DEF Resize
    <2>4. pos'.long /\ pos'.qty = free
      <3>1. free + locked >= MinLots /\ free + locked = free
        BY <2>1, <2>3
      <3>2. Reading.long /\ Reading.qty = free
        BY <2>2, <3>1
      <3> QED
        BY <1>28, <3>2 DEF Resize
    <2>5. pc' = "place" /\ req' = free /\ stops' = {} /\ free' = free /\ locked' = locked
      BY <1>28, <2>1 DEF Resize
    <2> QED
      BY <2>1, <2>3, <2>4, <2>5
  <1>29. ASSUME NEW i \in FreshIds, PlaceStop(i) PROVE BookInv'
    <2>1. locked = 0 /\ free \in Nat /\ req \in Nat /\ MinLots \in Nat
      BY <1>29, LotsAssumption DEF PlaceStop, StopInv, TypeOK, Lots
    <2>2. locked' = req /\ free' = free - req /\ req = free
      BY <1>29, <2>1 DEF PlaceStop, Acceptable, CoverInv, Held
    <2> QED
      BY <1>29, <2>1, <2>2 DEF PlaceStop
  <1>30. CASE PlaceStopRaises
    BY <1>30 DEF PlaceStopRaises, NoPos
  <1>31. CASE StopPlaced
    <2>1. stops' # {} => pos'.long /\ pos'.qty = Held'
      BY <1>31, ReadingExact DEF StopPlaced, Reconcile
    <2>2. pos'.long => pos'.qty >= MinLots
      BY <1>31, ReadingExact DEF StopPlaced, Reconcile
    <2> QED
      BY <1>31, <2>1, <2>2 DEF StopPlaced
  <1>32. CASE FaultsStop
    BY <1>32 DEF FaultsStop
  <1>33. CASE UNCHANGED vars
    BY <1>33 DEF vars
  <1> QED
    BY <1>1, <1>2, <1>3, <1>4, <1>5, <1>6, <1>7, <1>8, <1>9, <1>10, <1>11,
       <1>12, <1>13, <1>14, <1>15, <1>16, <1>17, <1>18, <1>19, <1>20, <1>21,
       <1>22, <1>23, <1>24, <1>25, <1>26, <1>27, <1>28, <1>29, <1>30, <1>31, <1>32,
       <1>33
       DEF Next, Runner, Startup, Trading, Protecting

(* What a reconciliation does to the engine, by what was and what is held. *)
LEMMA ReconcileCases ==
    ASSUME TypeOK, Reconcile
    PROVE  /\ pos' = Reading
           /\ pos.long /\ Reading.long => eng' = eng /\ ckpt' = ckpt
           /\ ~pos.long /\ Reading.long => eng' = Restored(eng, Reading) /\ ckpt' = eng'
           /\ ~pos.long /\ ~Reading.long => eng' = eng
  <1>1. pos.long \in BOOLEAN /\ Reading.long \in BOOLEAN
    BY ReadingType DEF TypeOK, Position
  <1>2. pos.long = Reading.long <=> (pos.long <=> Reading.long)
    BY <1>1
  <1> QED
    BY <1>1, <1>2 DEF Reconcile

(* What restoring a held position keeps and what it adopts.                *)
LEMMA RestoredLong ==
    ASSUME TypeOK, NEW e \in Engine, NEW p \in Position, p.long
    PROVE  LET r == Restored(e, p)
           IN  /\ r.qty = p.qty /\ r.plan = e.plan /\ r.prot = e.prot
               /\ r.entry # 0 /\ (e.entry # 0 => r.entry = e.entry)
  <1>1. mkt # 0
    BY PriceAssumption DEF TypeOK, Prices
  <1> QED
    BY <1>1 DEF Restored, Engine

(* After a read that finds the position, the engine has all of it.         *)
LEMMA ReconcileQuantity ==
    ASSUME TypeOK, Reconcile, Reading.long, pos.long => eng.qty >= Held
    PROVE  eng'.qty >= Held
  <1>1. Reading \in Position /\ eng \in Engine /\ Reading.qty = Held
    BY ReadingType DEF TypeOK, Reading, Held
  <1>2. Held >= Held
    BY LotsAssumption DEF TypeOK, Lots, Held
  <1>3. CASE pos.long
    BY <1>3, ReconcileCases
  <1>4. CASE ~pos.long
    <2>1. eng' = Restored(eng, Reading)
      BY <1>4, ReconcileCases
    <2> QED
      BY <1>1, <1>2, <2>1, RestoredLong
  <1> QED
    BY <1>3, <1>4

(* A sale never takes more than the engine has on its books, and what it   *)
(* leaves is nothing or a position.                                        *)
LEMMA SaleStep ==
    ASSUME TypeOK, DecisionInv, StopInv, FlightInv, CoverInv, BookInv, SaleInv, [Next]_vars
    PROVE  SaleInv'
  <1> USE DEF SaleInv, Held, account, durable, memory, locals, env, Die, Done
  <1>1. CASE MarketMoves
    BY <1>1 DEF MarketMoves
  <1>2. ASSUME NEW s \in stops, StopFires(s) PROVE SaleInv'
    <2>1. stops # {} /\ free' + locked' <= free + locked /\ free + locked \in Nat /\ free' + locked' \in Nat
      BY <1>2, LotsAssumption DEF StopFires, StopInv, TypeOK, Lots
    <2>2. eng.qty \in Nat
      BY DEF TypeOK, Engine
    <2> QED
      BY <1>2, <2>1, <2>2 DEF StopFires
  <1>3. CASE LateExecution
    BY <1>3 DEF LateExecution, FlightInv
  <1>4. CASE Crash
    BY <1>4 DEF Crash, Hold
  <1>5. CASE Restart
    BY <1>5 DEF Restart
  <1>6. ASSUME NEW c \in ClientIds, ResolveIntent(c) PROVE SaleInv'
    BY <1>6 DEF ResolveIntent, Hold
  <1>7. CASE IntentAges
    BY <1>7 DEF IntentAges
  <1>8. CASE Bootstrap
    BY <1>8 DEF Bootstrap
  <1>9. CASE EventArrives
    BY <1>9 DEF EventArrives
  <1>10. CASE RecordProtectiveFill
    BY <1>10 DEF RecordProtectiveFill
  <1>11. CASE DecideToHold
    BY <1>11 DEF DecideToHold, Evaluate
  <1>12. ASSUME NEW d \in Decision, DecideToTrade(d) PROVE SaleInv'
    <2>1. ASSUME pos.long PROVE eng'.qty >= Held
      <3>1. eng' = Restored(eng, pos)
        BY <1>12 DEF DecideToTrade, Evaluate
      <3>2. eng'.qty = pos.qty
        BY <2>1, <3>1, RestoredLong DEF TypeOK
      <3>3. pos.qty >= Held
        BY <1>12, <2>1 DEF DecideToTrade, Evaluate, CoverInv, PositionKnown
      <3> QED
        BY <3>2, <3>3
    <2> QED
      BY <1>12, <2>1 DEF DecideToTrade, Evaluate
  <1>13. CASE ReadBeforeOrder
    <2>1. ASSUME dec.kind \in {"trim", "exit"}, Reading.long PROVE eng'.qty >= Held
      BY <1>13, <2>1, ReconcileQuantity DEF ReadBeforeOrder
    <2>2. ASSUME dec'.kind \in {"trim", "exit"} PROVE pc' = "exit" /\ Reading.long /\ dec' = dec
      BY <1>13, <2>2 DEF ReadBeforeOrder, Veto, Hold
    <2> QED
      BY <1>13, <2>1, <2>2 DEF ReadBeforeOrder
  <1>14. CASE ListForExit
    BY <1>14 DEF ListForExit
  <1>15. CASE ReadBeforeSell
    <2>1. stops = {} /\ locked = 0 /\ free \in Nat /\ MinLots \in Nat
      BY <1>15, LotsAssumption DEF ReadBeforeSell, BookInv, StopInv, TypeOK, Lots
    <2>2. ASSUME Reading.long, dec.kind \in {"trim", "exit"} PROVE eng'.qty >= Held
      BY <1>15, <2>2, ReconcileQuantity DEF ReadBeforeSell
    <2>3. ASSUME NEW q \in 0..Reading.qty, dec.kind \in {"trim", "exit"}, dec.kind = "exit" => q = free,
                 dec.kind = "trim" => RemainderIsProtectable(q)
          PROVE  q <= Held /\ (Held = q \/ Held >= q + MinLots)
      <3>1. Reading.qty = free /\ Held = free
        BY <2>1 DEF Reading
      <3>2. q \in Nat /\ q <= free
        BY <2>1, <3>1
      <3> QED
        BY <2>1, <2>3, <3>1, <3>2 DEF RemainderIsProtectable
    <2>4. ASSUME dec'.kind \in {"trim", "exit"}
          PROVE  /\ pc' = "prepare" /\ Reading.long /\ dec' = dec
                 /\ req' <= Held /\ (Held = req' \/ Held >= req' + MinLots)
      BY <1>15, <2>3, <2>4 DEF ReadBeforeSell, Veto, Hold
    <2>5. Held' = Held /\ stops' = stops
      BY <1>15 DEF ReadBeforeSell
    <2> QED
      BY <2>1, <2>2, <2>4, <2>5
  <1>16. CASE PrepareIntent
    BY <1>16 DEF PrepareIntent, Veto, Hold
  <1>17. CASE ExchangeExecutes
    <2> SUFFICES ASSUME dec.kind \in {"trim", "exit"}
                 PROVE  /\ stops' = {}
                        /\ ack'.status = "FILLED" =>
                             Held' = 0 \/ (Held' >= MinLots /\ eng'.qty >= Held' + ack'.base)
      BY <1>17 DEF ExchangeExecutes
    <2>1. PICK base \in 0..req :
              /\ Executes(dec.cid, req, base)
              /\ ack' = [status |-> orders'[dec.cid].status, base |-> base, price |-> mkt]
      BY <1>17 DEF ExchangeExecutes
    <2>2. dec.cid \in SellIds /\ dec.cid \notin BuyIds /\ dec.cid \in ClientIds
      BY IdAssumption DEF DecisionInv, ClientIds
    <2>3. free' = free - base /\ locked' = locked
      BY <1>17, <2>1, <2>2 DEF Executes, ExchangeExecutes
    <2>4. orders'[dec.cid].status = "FILLED" => base = req
      BY <2>1, <2>2 DEF Executes, TypeOK
    <2>5. /\ stops = {} /\ eng.qty >= Held /\ req <= Held /\ (Held = req \/ Held >= req + MinLots)
          /\ free \in Nat /\ locked \in Nat /\ req \in Nat /\ MinLots \in Nat /\ eng.qty \in Nat
      BY <1>17, LotsAssumption DEF ExchangeExecutes, TypeOK, Lots, Engine
    <2>6. ack'.base = base /\ ack'.status = orders'[dec.cid].status
      BY <2>1
    <2>7. ASSUME base = req PROVE Held' = 0 \/ (Held' >= MinLots /\ eng.qty >= Held' + base)
      BY <2>3, <2>5, <2>7
    <2> QED
      BY <1>17, <2>4, <2>5, <2>6, <2>7 DEF ExchangeExecutes
  <1>18. CASE PlacementRaises
    BY <1>18 DEF PlacementRaises, Hold
  <1>19. CASE MarkIntent
    BY <1>19 DEF MarkIntent
  <1>20. CASE ApplyFill
    BY <1>20 DEF ApplyFill, Hold
  <1>21. CASE Settle
    BY <1>21 DEF Settle
  <1>22. CASE SyncFlat
    BY <1>22 DEF SyncFlat, DecisionInv
  <1>23. CASE SyncRaises
    BY <1>23 DEF SyncRaises, Hold
  <1>24. CASE SyncLong
    BY <1>24 DEF SyncLong, DecisionInv
  <1>25. ASSUME NEW s \in stops, CancelStop(s) PROVE SaleInv'
    <2>1. free' + locked' = free + locked
      BY <1>25, LotsAssumption DEF CancelStop, TypeOK, Lots, StopOrder
    <2> QED
      BY <1>25, <2>1 DEF CancelStop
  <1>26. CASE CancelRaises
    BY <1>26 DEF CancelRaises, Hold
  <1>27. CASE CancelDone
    <2>1. eng'.qty = eng.qty
      BY <1>27 DEF CancelDone, TypeOK, Engine
    <2> QED
      BY <1>27, <2>1 DEF CancelDone, DecisionInv
  <1>28. CASE Resize
    BY <1>28 DEF Resize
  <1>29. ASSUME NEW i \in FreshIds, PlaceStop(i) PROVE SaleInv'
    BY <1>29 DEF PlaceStop
  <1>30. CASE PlaceStopRaises
    BY <1>30 DEF PlaceStopRaises, Hold
  <1>31. CASE StopPlaced
    BY <1>31 DEF StopPlaced
  <1>32. CASE FaultsStop
    BY <1>32 DEF FaultsStop
  <1>33. CASE UNCHANGED vars
    BY <1>33 DEF vars
  <1> QED
    BY <1>1, <1>2, <1>3, <1>4, <1>5, <1>6, <1>7, <1>8, <1>9, <1>10, <1>11,
       <1>12, <1>13, <1>14, <1>15, <1>16, <1>17, <1>18, <1>19, <1>20, <1>21,
       <1>22, <1>23, <1>24, <1>25, <1>26, <1>27, <1>28, <1>29, <1>30, <1>31, <1>32,
       <1>33
       DEF Next, Runner, Startup, Trading, Protecting

(* A read that finds the position finds an engine with an entry.           *)
LEMMA ReconcileEntry ==
    ASSUME TypeOK, Reconcile, Reading.long, pos.long => eng.entry # 0
    PROVE  eng'.entry # 0
  <1>1. Reading \in Position /\ eng \in Engine
    BY ReadingType DEF TypeOK
  <1>2. CASE pos.long
    BY <1>2, ReconcileCases
  <1>3. CASE ~pos.long
    BY <1>1, <1>3, ReconcileCases, RestoredLong
  <1> QED
    BY <1>2, <1>3

(* An executed purchase leaves an entry price; a sale that leaves none has *)
(* sold the position.                                                      *)
LEMMA FillEntry ==
    ASSUME TypeOK, DecisionInv, SaleInv, EntryInv, ApplyFill, pos.long
    PROVE  eng'.entry # 0 \/ Held < MinLots
  <1>1. /\ eng \in Engine /\ pc = "apply" /\ eng.entry # 0 /\ ack.price \in Prices /\ 0 \notin Prices
        /\ ack.base \in Nat /\ eng.qty \in Nat /\ Held \in Nat /\ MinLots \in Nat \ {0}
    BY LotsAssumption, PriceAssumption
       DEF ApplyFill, EntryInv, TypeOK, Answer, Engine, Lots, Prices, Held
  <1>2. CASE ~(ack.status = "FILLED" /\ ack.base > 0)
    BY <1>1, <1>2 DEF ApplyFill
  <1>3. CASE (ack.status = "FILLED" /\ ack.base > 0) /\ IsBuy
    <2>1. BuyFilled(ack.base, ack.price, dec.plan)
      BY <1>3 DEF ApplyFill
    <2>2. 0 \notin Average(eng.entry, ack.price)
      BY <1>1 DEF Average
    <2> QED
      BY <1>1, <2>1, <2>2 DEF BuyFilled
  <1>4. CASE (ack.status = "FILLED" /\ ack.base > 0) /\ ~IsBuy
    <2>1. SellFilled(ack.base)
      BY <1>4 DEF ApplyFill
    <2>2. CASE eng' = [eng EXCEPT !.qty = eng.qty - ack.base, !.prot = NoId]
      BY <1>1, <2>2 DEF Engine
    <2>3. CASE eng.qty = 0 \/ ack.base >= eng.qty
      <3>1. dec.kind \in {"trim", "exit"}
        BY <1>1, <1>4 DEF DecisionInv, IsBuy, TypeOK, Decision
      <3>2. Held = 0 \/ (Held >= MinLots /\ eng.qty >= Held + ack.base)
        BY <1>1, <1>4, <3>1 DEF SaleInv
      <3> QED
        BY <1>1, <2>3, <3>2
    <2> QED
      BY <2>1, <2>2, <2>3 DEF SellFilled
  <1> QED
    BY <1>2, <1>3, <1>4

(* A position the runner knows of has an entry price.                      *)
LEMMA EntryStep ==
    ASSUME TypeOK, DecisionInv, StopInv, FlightInv, BookInv, SaleInv, EntryInv, [Next]_vars
    PROVE  EntryInv'
  <1> USE DEF EntryInv, account, durable, memory, locals, env, Die, Done
  <1>1. CASE MarketMoves
    BY <1>1 DEF MarketMoves, Held
  <1>2. ASSUME NEW s \in stops, StopFires(s) PROVE EntryInv'
    <2>1. Held' <= Held /\ Held \in Nat /\ Held' \in Nat /\ MinLots \in Nat
      BY <1>2, LotsAssumption DEF StopFires, StopInv, TypeOK, Lots, Held
    <2> QED
      BY <1>2, <2>1 DEF StopFires
  <1>3. CASE LateExecution
    BY <1>3 DEF LateExecution, FlightInv
  <1>4. CASE Crash
    BY <1>4 DEF Crash, NoPos, Hold
  <1>5. CASE Restart
    BY <1>5 DEF Restart
  <1>6. ASSUME NEW c \in ClientIds, ResolveIntent(c) PROVE EntryInv'
    BY <1>6 DEF ResolveIntent, NoPos, Hold
  <1>7. CASE IntentAges
    BY <1>7 DEF IntentAges
  <1>8. CASE Bootstrap
    <2>1. Reading.long => eng'.entry # 0
      BY <1>8, RestoredLong, ReadingType DEF Bootstrap, TypeOK
    <2> QED
      BY <1>8, <2>1 DEF Bootstrap
  <1>9. CASE EventArrives
    <2>1. CASE Reconcile
      <3>1. Reading.long => eng'.entry # 0
        BY <1>9, <2>1, ReconcileEntry DEF EventArrives
      <3>2. pos' = Reading
        BY <2>1, ReconcileCases
      <3> QED
        BY <1>9, <3>1, <3>2 DEF EventArrives
    <2>2. CASE UNCHANGED <<pos, eng, ext, ckpt>>
      BY <1>9, <2>2 DEF EventArrives
    <2> QED
      BY <1>9, <2>1, <2>2 DEF EventArrives
  <1>10. CASE RecordProtectiveFill
    BY <1>10 DEF RecordProtectiveFill
  <1>11. CASE DecideToHold
    <2>1. pos.long => eng'.entry # 0
      BY <1>11, RestoredLong DEF DecideToHold, Evaluate, TypeOK
    <2> QED
      BY <1>11, <2>1 DEF DecideToHold, Evaluate
  <1>12. ASSUME NEW d \in Decision, DecideToTrade(d) PROVE EntryInv'
    <2>1. pos.long => eng'.entry # 0
      BY <1>12, RestoredLong DEF DecideToTrade, Evaluate, TypeOK
    <2> QED
      BY <1>12, <2>1 DEF DecideToTrade, Evaluate
  <1>13. CASE ReadBeforeOrder
    <2>1. Reading.long => eng'.entry # 0
      BY <1>13, ReconcileEntry DEF ReadBeforeOrder
    <2>2. pos' = Reading
      BY <1>13, ReconcileCases DEF ReadBeforeOrder
    <2> QED
      BY <1>13, <2>1, <2>2 DEF ReadBeforeOrder, Veto
  <1>14. CASE ListForExit
    BY <1>14 DEF ListForExit
  <1>15. CASE ReadBeforeSell
    <2>1. Reading.long => eng'.entry # 0
      BY <1>15, ReconcileEntry DEF ReadBeforeSell
    <2>2. pos' = Reading
      BY <1>15, ReconcileCases DEF ReadBeforeSell
    <2> QED
      BY <1>15, <2>1, <2>2 DEF ReadBeforeSell, Veto
  <1>16. CASE PrepareIntent
    BY <1>16 DEF PrepareIntent, Veto
  <1>17. CASE ExchangeExecutes
    BY <1>17 DEF ExchangeExecutes, TypeOK
  <1>18. CASE PlacementRaises
    BY <1>18 DEF PlacementRaises, NoPos, Hold
  <1>19. CASE MarkIntent
    BY <1>19 DEF MarkIntent
  <1>20. CASE ApplyFill
    <2>1. pos.long => eng'.entry # 0 \/ Held < MinLots
      BY <1>20, FillEntry
    <2>2. pc' = "settle" /\ pos' = pos /\ Held' = Held
      BY <1>20 DEF ApplyFill, Held
    <2> QED
      BY <2>1, <2>2
  <1>21. CASE Settle
    <2>1. ASSUME Reading.long PROVE eng'.entry # 0
      <3>1. ~(Held < MinLots)
        <4>1. free + locked >= MinLots
          BY <2>1 DEF Reading
        <4> QED
          BY <4>1, LotsAssumption DEF TypeOK, Lots, Held
      <3>2. pos.long => eng.entry # 0
        BY <1>21, <3>1 DEF Settle
      <3> QED
        BY <1>21, <2>1, <3>2, ReconcileEntry DEF Settle
    <2>2. pos' = Reading
      BY <1>21, ReconcileCases DEF Settle
    <2> QED
      BY <1>21, <2>1, <2>2 DEF Settle
  <1>22. CASE SyncFlat
    BY <1>22 DEF SyncFlat
  <1>23. CASE SyncRaises
    BY <1>23 DEF SyncRaises, NoPos, Hold
  <1>24. CASE SyncLong
    <2>1. eng'.entry = eng.entry
      BY <1>24 DEF SyncLong, TypeOK, Engine
    <2> QED
      BY <1>24, <2>1 DEF SyncLong
  <1>25. ASSUME NEW s \in stops, CancelStop(s) PROVE EntryInv'
    BY <1>25 DEF CancelStop
  <1>26. CASE CancelRaises
    BY <1>26 DEF CancelRaises, NoPos, Hold
  <1>27. CASE CancelDone
    <2>1. eng'.entry = eng.entry
      BY <1>27 DEF CancelDone, TypeOK, Engine
    <2> QED
      BY <1>27, <2>1 DEF CancelDone, DecisionInv
  <1>28. CASE Resize
    BY <1>28 DEF Resize
  <1>29. ASSUME NEW i \in FreshIds, PlaceStop(i) PROVE EntryInv'
    BY <1>29 DEF PlaceStop
  <1>30. CASE PlaceStopRaises
    BY <1>30 DEF PlaceStopRaises, NoPos, Hold
  <1>31. CASE StopPlaced
    <2>1. eng'.entry = eng.entry
      BY <1>31 DEF StopPlaced, TypeOK, Engine
    <2> QED
      BY <1>31, <2>1 DEF StopPlaced
  <1>32. CASE FaultsStop
    BY <1>32 DEF FaultsStop, Held
  <1>33. CASE UNCHANGED vars
    BY <1>33 DEF vars, Held
  <1> QED
    BY <1>1, <1>2, <1>3, <1>4, <1>5, <1>6, <1>7, <1>8, <1>9, <1>10, <1>11,
       <1>12, <1>13, <1>14, <1>15, <1>16, <1>17, <1>18, <1>19, <1>20, <1>21,
       <1>22, <1>23, <1>24, <1>25, <1>26, <1>27, <1>28, <1>29, <1>30, <1>31, <1>32,
       <1>33
       DEF Next, Runner, Startup, Trading, Protecting

(* A reconciliation leaves on disk what it leaves in memory.               *)
LEMMA ReconcileSaves ==
    ASSUME Reconcile, eng = ckpt
    PROVE  eng' = ckpt'
  BY DEF Reconcile

(* Only an opening carries a plan, into an engine without a position.      *)
LEMMA PlanStep ==
    ASSUME TypeOK, DecisionInv, PlanInv, [Next]_vars
    PROVE  PlanInv'
  <1> USE DEF PlanInv, account, durable, memory, locals, env, Die, Done
  <1>1. CASE MarketMoves
    BY <1>1 DEF MarketMoves
  <1>2. ASSUME NEW s \in stops, StopFires(s) PROVE PlanInv'
    BY <1>2 DEF StopFires
  <1>3. CASE LateExecution
    BY <1>3 DEF LateExecution
  <1>4. CASE Crash
    BY <1>4 DEF Crash, NoPos, Hold
  <1>5. CASE Restart
    BY <1>5 DEF Restart
  <1>6. ASSUME NEW c \in ClientIds, ResolveIntent(c) PROVE PlanInv'
    BY <1>6 DEF ResolveIntent, NoPos, Hold
  <1>7. CASE IntentAges
    BY <1>7 DEF IntentAges
  <1>8. CASE Bootstrap
    BY <1>8 DEF Bootstrap
  <1>9. CASE EventArrives
    <2>1. eng' = ckpt' /\ pc' = "evaluate" /\ dec' = dec
      BY <1>9, ReconcileSaves DEF EventArrives
    <2> QED
      BY <2>1
  <1>10. CASE RecordProtectiveFill
    BY <1>10 DEF RecordProtectiveFill
  <1>11. CASE DecideToHold
    BY <1>11 DEF DecideToHold, Evaluate
  <1>12. ASSUME NEW d \in Decision, DecideToTrade(d) PROVE PlanInv'
    <2>1. eng' = Restored(eng, pos) /\ dec' = d /\ pc' = "order" /\ pos' = pos /\ ckpt' = eng'
      BY <1>12 DEF DecideToTrade, Evaluate
    <2>2. ASSUME d.kind = "open" PROVE ~pos.long /\ eng'.entry = 0
      BY <1>12, <2>1, <2>2 DEF DecideToTrade, MayOpen, MayAdjust, MayExit, Restored, Blank
    <2>3. d.kind # "open" => d.plan = NoPlan
      BY <1>12 DEF DecideToTrade, MayOpen, MayAdjust, MayExit
    <2> QED
      BY <2>1, <2>2, <2>3
  <1>13. CASE ReadBeforeOrder
    <2>1. ASSUME dec'.kind = "open" PROVE ~Reading.long /\ dec' = dec /\ pc' = "prepare"
      BY <1>13, <2>1, ReadingType DEF ReadBeforeOrder, Veto, Hold, Position
    <2>2. ASSUME dec.kind = "open", ~Reading.long PROVE eng'.entry = 0
      BY <1>13, <2>2, ReconcileCases DEF ReadBeforeOrder
    <2>3. pc' \notin {"down", "resolve"} /\ (dec' = dec \/ dec' = Hold)
      BY <1>13 DEF ReadBeforeOrder, Veto
    <2>4. eng' = ckpt'
      BY <1>13, ReconcileSaves DEF ReadBeforeOrder
    <2> QED
      BY <2>1, <2>2, <2>3, <2>4 DEF Hold
  <1>14. CASE ListForExit
    BY <1>14 DEF ListForExit
  <1>15. CASE ReadBeforeSell
    <2>1. pc' # "down" /\ (pc' = "settle" \/ (pc' = "prepare" /\ dec' = dec)) /\ (dec' = dec \/ dec' = Hold)
      BY <1>15 DEF ReadBeforeSell, Veto
    <2>2. dec.kind # "open"
      BY <1>15 DEF ReadBeforeSell, DecisionInv
    <2>3. eng' = ckpt'
      BY <1>15, ReconcileSaves DEF ReadBeforeSell
    <2> QED
      BY <2>1, <2>2, <2>3 DEF Hold
  <1>16. CASE PrepareIntent
    BY <1>16 DEF PrepareIntent, Veto, Hold
  <1>17. CASE ExchangeExecutes
    BY <1>17 DEF ExchangeExecutes
  <1>18. CASE PlacementRaises
    BY <1>18 DEF PlacementRaises, NoPos, Hold
  <1>19. CASE MarkIntent
    BY <1>19 DEF MarkIntent
  <1>20. CASE ApplyFill
    BY <1>20 DEF ApplyFill, Hold
  <1>21. CASE Settle
    <2>1. eng' = ckpt' /\ pc' \in {"sync", "idle"} /\ dec' = dec
      BY <1>21, ReconcileSaves DEF Settle
    <2> QED
      BY <1>21, <2>1 DEF Settle
  <1>22. CASE SyncFlat
    BY <1>22 DEF SyncFlat
  <1>23. CASE SyncRaises
    BY <1>23 DEF SyncRaises, NoPos, Hold
  <1>24. CASE SyncLong
    BY <1>24 DEF SyncLong
  <1>25. ASSUME NEW s \in stops, CancelStop(s) PROVE PlanInv'
    BY <1>25 DEF CancelStop
  <1>26. CASE CancelRaises
    BY <1>26 DEF CancelRaises, NoPos, Hold
  <1>27. CASE CancelDone
    BY <1>27 DEF CancelDone, DecisionInv
  <1>28. CASE Resize
    BY <1>28 DEF Resize
  <1>29. ASSUME NEW i \in FreshIds, PlaceStop(i) PROVE PlanInv'
    BY <1>29 DEF PlaceStop
  <1>30. CASE PlaceStopRaises
    BY <1>30 DEF PlaceStopRaises, NoPos, Hold
  <1>31. CASE StopPlaced
    BY <1>31 DEF StopPlaced
  <1>32. CASE FaultsStop
    BY <1>32 DEF FaultsStop
  <1>33. CASE UNCHANGED vars
    BY <1>33 DEF vars
  <1> QED
    BY <1>1, <1>2, <1>3, <1>4, <1>5, <1>6, <1>7, <1>8, <1>9, <1>10, <1>11,
       <1>12, <1>13, <1>14, <1>15, <1>16, <1>17, <1>18, <1>19, <1>20, <1>21,
       <1>22, <1>23, <1>24, <1>25, <1>26, <1>27, <1>28, <1>29, <1>30, <1>31, <1>32,
       <1>33
       DEF Next, Runner, Startup, Trading, Protecting

(* No stop level is looser than the initial stop of the plan.              *)
LEMMA StopLevelBound ==
    ASSUME NEW e \in Engine
    PROVE  StopLevel(e) >= e.entry - Width[e.plan] /\ StopLevel(e) \in Int
  <1>1. Width[e.plan] \in Nat /\ e.entry \in Int /\ e.high \in Int
    BY PlanAssumption, PriceAssumption DEF Engine
  <1> QED
    BY <1>1 DEF StopLevel, Higher

(* The stop that rests is the recorded one, as tight as the plan.          *)
LEMMA RecordStep ==
    ASSUME TypeOK, DecisionInv, StopInv, FlightInv, BookInv, EntryInv, RecordInv, [Next]_vars
    PROVE  RecordInv'
  <1> USE DEF RecordInv, account, durable, memory, locals, env, Die, Done
  <1>1. CASE MarketMoves
    BY <1>1 DEF MarketMoves
  <1>2. ASSUME NEW s \in stops, StopFires(s) PROVE RecordInv'
    BY <1>2 DEF StopFires
  <1>3. CASE LateExecution
    BY <1>3 DEF LateExecution, FlightInv
  <1>4. CASE Crash
    BY <1>4 DEF Crash, NoPos, Hold
  <1>5. CASE Restart
    BY <1>5 DEF Restart
  <1>6. ASSUME NEW c \in ClientIds, ResolveIntent(c) PROVE RecordInv'
    BY <1>6 DEF ResolveIntent, NoPos, Hold
  <1>7. CASE IntentAges
    BY <1>7 DEF IntentAges
  <1>8. CASE Bootstrap
    BY <1>8 DEF Bootstrap
  <1>9. CASE EventArrives
    <2>1. CASE Reconcile
      <3>1. ASSUME stops # {} PROVE eng' = eng /\ ckpt' = ckpt
        BY <1>9, <2>1, <3>1, ReconcileCases, ReadingExact DEF EventArrives, BookInv
      <3> QED
        BY <1>9, <3>1 DEF EventArrives
    <2>2. CASE UNCHANGED <<pos, eng, ext, ckpt>>
      BY <1>9, <2>2 DEF EventArrives
    <2> QED
      BY <1>9, <2>1, <2>2 DEF EventArrives
  <1>10. CASE RecordProtectiveFill
    BY <1>10 DEF RecordProtectiveFill
  <1>11. CASE DecideToHold
    <2>1. eng' = Restored(eng, pos) /\ ckpt' = eng' /\ stops' = stops
      BY <1>11 DEF DecideToHold, Evaluate
    <2>2. ASSUME stops # {}
          PROVE  eng'.entry = eng.entry /\ eng'.plan = eng.plan /\ eng'.prot = eng.prot
      <3>1. pos.long /\ eng.entry # 0
        BY <1>11, <2>2 DEF DecideToHold, Evaluate, BookInv, EntryInv
      <3> QED
        BY <2>1, <3>1, RestoredLong DEF TypeOK
    <2> QED
      BY <1>11, <2>1, <2>2 DEF DecideToHold, Evaluate
  <1>12. ASSUME NEW d \in Decision, DecideToTrade(d) PROVE RecordInv'
    <2>1. eng' = Restored(eng, pos) /\ ckpt' = eng' /\ stops' = stops
      BY <1>12 DEF DecideToTrade, Evaluate
    <2>2. ASSUME stops # {}
          PROVE  eng'.entry = eng.entry /\ eng'.plan = eng.plan /\ eng'.prot = eng.prot
      <3>1. pos.long /\ eng.entry # 0
        BY <1>12, <2>2 DEF DecideToTrade, Evaluate, BookInv, EntryInv
      <3> QED
        BY <2>1, <3>1, RestoredLong DEF TypeOK
    <2> QED
      BY <1>12, <2>1, <2>2 DEF DecideToTrade, Evaluate
  <1>13. CASE ReadBeforeOrder
    <2>1. ASSUME stops # {} PROVE eng' = eng /\ ckpt' = ckpt
      BY <1>13, <2>1, ReconcileCases, ReadingExact DEF ReadBeforeOrder, BookInv
    <2> QED
      BY <1>13, <2>1 DEF ReadBeforeOrder, Veto
  <1>14. CASE ListForExit
    BY <1>14 DEF ListForExit
  <1>15. CASE ReadBeforeSell
    BY <1>15 DEF ReadBeforeSell, Veto, BookInv
  <1>16. CASE PrepareIntent
    BY <1>16 DEF PrepareIntent, Veto
  <1>17. CASE ExchangeExecutes
    BY <1>17 DEF ExchangeExecutes
  <1>18. CASE PlacementRaises
    BY <1>18 DEF PlacementRaises, NoPos, Hold
  <1>19. CASE MarkIntent
    BY <1>19 DEF MarkIntent
  <1>20. CASE ApplyFill
    BY <1>20 DEF ApplyFill
  <1>21. CASE Settle
    <2>1. pc' = "idle" => stops = {}
      BY <1>21, ReadingExact DEF Settle
    <2> QED
      BY <1>21, <2>1 DEF Settle
  <1>22. CASE SyncFlat
    BY <1>22 DEF SyncFlat, BookInv
  <1>23. CASE SyncRaises
    BY <1>23 DEF SyncRaises, NoPos, Hold
  <1>24. CASE SyncLong
    <2>1. CASE pc' = "idle"
      <3>1. PICK s \in stops : Matches(s) /\ eng' = [eng EXCEPT !.prot = s.id] /\ ckpt' = eng'
        BY <1>24, <2>1 DEF SyncLong
      <3>2. \A t \in stops : t = s
        BY DEF StopInv, OneStop
      <3>3. eng'.prot = s.id /\ eng'.entry = eng.entry /\ eng'.plan = eng.plan
        BY <3>1 DEF TypeOK, Engine
      <3>4. s.level >= eng.entry - Width[eng.plan] - Slack
        <4>1. s.level \in Int /\ eng.entry \in Int /\ Width[eng.plan] \in Int /\ Slack \in Nat
          BY PlanAssumption, PriceAssumption, SlackAssumption DEF TypeOK, StopOrder, Engine
        <4>2. s.level >= StopLevel(eng) - Slack /\ StopLevel(eng) >= eng.entry - Width[eng.plan] /\ StopLevel(eng) \in Int
          BY <3>1, StopLevelBound DEF Matches, TypeOK
        <4> QED
          BY <4>1, <4>2
      <3> QED
        BY <1>24, <2>1, <3>1, <3>2, <3>3, <3>4 DEF SyncLong
    <2> QED
      BY <1>24, <2>1 DEF SyncLong
  <1>25. ASSUME NEW s \in stops, CancelStop(s) PROVE RecordInv'
    BY <1>25 DEF CancelStop
  <1>26. CASE CancelRaises
    BY <1>26 DEF CancelRaises, NoPos, Hold
  <1>27. CASE CancelDone
    <2>1. stops' = {}
      BY <1>27 DEF CancelDone, StopInv
    <2> QED
      BY <2>1
  <1>28. CASE Resize
    BY <1>28 DEF Resize
  <1>29. ASSUME NEW i \in FreshIds, PlaceStop(i) PROVE RecordInv'
    <2>1. stops' = {[id |-> i, qty |-> req, level |-> StopLevel(eng)]}
      BY <1>29 DEF PlaceStop, StopInv
    <2> QED
      BY <1>29, <2>1 DEF PlaceStop
  <1>30. CASE PlaceStopRaises
    BY <1>30 DEF PlaceStopRaises, NoPos, Hold
  <1>31. CASE StopPlaced
    <2>1. eng'.prot = placed /\ eng'.entry = eng.entry /\ eng'.plan = eng.plan /\ ckpt' = eng'
      BY <1>31 DEF StopPlaced, TypeOK, Engine
    <2>2. ASSUME NEW s \in stops
          PROVE  s.id = placed /\ s.level >= eng.entry - Width[eng.plan] - Slack
      <3>1. s.id = placed /\ s.level = StopLevel(eng)
        BY <1>31 DEF StopPlaced
      <3>2. eng.entry \in Int /\ Width[eng.plan] \in Int /\ Slack \in Nat
        BY PlanAssumption, PriceAssumption, SlackAssumption DEF TypeOK, Engine
      <3>3. StopLevel(eng) >= eng.entry - Width[eng.plan] /\ StopLevel(eng) \in Int
        BY StopLevelBound DEF TypeOK
      <3> QED
        BY <3>1, <3>2, <3>3
    <2> QED
      BY <1>31, <2>1, <2>2 DEF StopPlaced
  <1>32. CASE FaultsStop
    BY <1>32 DEF FaultsStop
  <1>33. CASE UNCHANGED vars
    BY <1>33 DEF vars
  <1> QED
    BY <1>1, <1>2, <1>3, <1>4, <1>5, <1>6, <1>7, <1>8, <1>9, <1>10, <1>11,
       <1>12, <1>13, <1>14, <1>15, <1>16, <1>17, <1>18, <1>19, <1>20, <1>21,
       <1>22, <1>23, <1>24, <1>25, <1>26, <1>27, <1>28, <1>29, <1>30, <1>31, <1>32,
       <1>33
       DEF Next, Runner, Startup, Trading, Protecting

(* The initial states satisfy the invariant.                               *)
LEMMA Initially == Init => IInv
  <1> SUFFICES ASSUME Init PROVE IInv
    OBVIOUS
  <1>1. TypeOK
    <2>1. free + locked \in Lots
      BY LotsAssumption DEF Init, Lots
    <2>2. orders \in [ClientIds -> [status : {"NONE", "FILLED", "EXPIRED"}, n : 0..2]]
      BY DEF Init
    <2> QED
      BY ConstantRecords, <2>1, <2>2 DEF Init, TypeOK, PC
  <1>2. DecisionInv /\ StopInv /\ FlightInv
    BY DEF Init, DecisionInv, StopInv, OneStop, FlightInv, Hold
  <1>3. LedgerInv
    BY DEF Init, LedgerInv, NoDoubleExecution, OneUnresolved, LedgerAgrees, Unresolved
  <1>4. CoverInv
    BY DEF Init, CoverInv, PositionKnown
  <1>5. BookInv /\ SaleInv /\ EntryInv /\ PlanInv /\ RecordInv
    BY DEF Init, BookInv, SaleInv, EntryInv, PlanInv, RecordInv, NoPos, Hold
  <1> QED
    BY <1>1, <1>2, <1>3, <1>4, <1>5 DEF IInv

(* Every reachable state satisfies the inductive invariant.                *)
THEOREM Invariance == Spec => []IInv
  <1>1. IInv /\ [Next]_vars => IInv'
    BY TypeStep, DecisionStep, StopStep, FlightStep, LedgerStep, CoverStep,
       BookStep, SaleStep, EntryStep, PlanStep, RecordStep DEF IInv
  <1> QED
    BY Initially, <1>1, PTL DEF Spec

(* No variable ever leaves its type: no lot is sold that is not held, and  *)
(* none is bought beyond the cash.                                         *)
THEOREM TypeCorrect == Spec => []TypeOK
  <1>1. IInv => TypeOK
    BY DEF IInv
  <1> QED
    BY Invariance, <1>1, PTL

(* No client id executes twice, and one order at most is unresolved while  *)
(* the strategy runs.                                                      *)
THEOREM AtMostOnce == Spec => [](NoDoubleExecution /\ OneUnresolved)
  <1>1. IInv => NoDoubleExecution /\ OneUnresolved
    BY DEF IInv, LedgerInv
  <1> QED
    BY Invariance, <1>1, PTL

(* The ledger agrees with the exchange on every order it says is finished, *)
(* or was never placed.                                                    *)
THEOREM LedgerIsTrue == Spec => []LedgerAgrees
  <1>1. IInv => LedgerAgrees
    BY DEF IInv, LedgerInv
  <1> QED
    BY Invariance, <1>1, PTL

(* The book never carries two protective orders.                           *)
THEOREM SingleStop == Spec => []OneStop
  <1>1. IInv => OneStop
    BY DEF IInv, StopInv
  <1> QED
    BY Invariance, <1>1, PTL

(* Between two events a position never rests without a stop for all of it. *)
THEOREM Protected == Spec => []IdleProtected
  <1>1. IInv => IdleProtected
    <2> SUFFICES ASSUME IInv, pc \in {"idle", "evaluate"}, Held >= MinLots
                 PROVE  \E s \in stops : s.qty >= Held
      BY DEF IdleProtected, Naked
    <2>1. Held \in Nat /\ MinLots \in Nat /\ free \in Nat /\ locked \in Nat
      BY LotsAssumption DEF IInv, TypeOK, Lots, Held
    <2>2. stops # {} /\ free = 0
      BY <2>1 DEF IInv, CoverInv, Covered
    <2>3. PICK s \in stops : locked = s.qty
      BY <2>2 DEF IInv, StopInv
    <2> QED
      BY <2>1, <2>2, <2>3 DEF Held
  <1> QED
    BY Invariance, <1>1, PTL

(* A LONG book that is synchronised has an entry price: no path of the     *)
(* bookkeeping clears a position that is still held, so that a sync never  *)
(* raises for want of one.                                                 *)
THEOREM Managed == Spec => []NeverUnmanaged
  <1>1. IInv => NeverUnmanaged
    BY DEF IInv, EntryInv, NeverUnmanaged
  <1> QED
    BY Invariance, <1>1, PTL

(* Between two events the stop on the book is the one the engine and its   *)
(* checkpoint name, and no looser than the plan of the position.           *)
THEOREM StopIsKnown == Spec => []IdleStop
  <1>1. IInv => IdleStop
    BY DEF IInv, RecordInv, IdleStop, IdleStopIsRecorded, IdleStopIsTight
  <1> QED
    BY Invariance, <1>1, PTL

(* A synchronisation that ends with a held position leaves a stop within   *)
(* the replacement threshold of what the ratchet asks for, and exactly     *)
(* there if it had to place one.                                           *)
THEOREM Tightens == Spec => SyncTightens
  <1>1. ASSUME IInv, Next, pc \in {"sync", "placed"}, pc' = "idle", pos'.long
        PROVE  \E s \in stops' : /\ s.level >= StopLevel(eng') - Slack
                                 /\ pc = "placed" => s.level = StopLevel(eng')
    <2> USE <1>1 DEF Die, Done
    <2>1. CASE SyncFlat
      BY <2>1 DEF SyncFlat
    <2>2. CASE SyncLong
      <3>1. PICK s \in stops : Matches(s) /\ eng' = [eng EXCEPT !.prot = s.id]
        BY <2>2 DEF SyncLong
      <3>2. StopLevel(eng') = StopLevel(eng)
        BY <3>1 DEF IInv, TypeOK, Engine, StopLevel
      <3>3. stops' = stops /\ pc = "sync"
        BY <2>2 DEF SyncLong, account
      <3> QED
        BY <3>1, <3>2, <3>3 DEF Matches
    <2>3. CASE StopPlaced
      <3>1. pos' = Reading /\ stops' = stops /\ eng' = [eng EXCEPT !.prot = placed] /\ pc = "placed"
        BY <2>3 DEF StopPlaced, account
      <3>2. ~(Held < MinLots)
        <4>1. free + locked >= MinLots
          BY <3>1 DEF Reading
        <4> QED
          BY <4>1, LotsAssumption DEF IInv, TypeOK, Lots, Held
      <3>3. PICK s \in stops : TRUE
        BY <3>1, <3>2 DEF IInv, CoverInv, Covered
      <3>4. s.level = StopLevel(eng)
        BY <3>1 DEF IInv, RecordInv
      <3>5. StopLevel(eng') = StopLevel(eng)
        BY <3>1 DEF IInv, TypeOK, Engine, StopLevel
      <3>6. StopLevel(eng) \in Int /\ StopLevel(eng) >= StopLevel(eng) - Slack
        BY StopLevelBound, SlackAssumption DEF IInv, TypeOK
      <3> QED
        BY <3>1, <3>4, <3>5, <3>6
    <2>4. CASE Startup
      BY <2>4 DEF Startup, Restart, ResolveIntent, Bootstrap
    <2>5. CASE Trading
      <3>1. CASE EventArrives \/ RecordProtectiveFill \/ DecideToHold \/ \E d \in Decision : DecideToTrade(d)
        BY <3>1 DEF EventArrives, RecordProtectiveFill, DecideToHold, DecideToTrade, Evaluate
      <3>2. CASE ReadBeforeOrder \/ ListForExit \/ ReadBeforeSell \/ PrepareIntent
        BY <3>2 DEF ReadBeforeOrder, ListForExit, ReadBeforeSell, PrepareIntent
      <3>3. CASE ExchangeExecutes \/ PlacementRaises \/ MarkIntent \/ ApplyFill \/ Settle
        BY <3>3 DEF ExchangeExecutes, PlacementRaises, MarkIntent, ApplyFill, Settle
      <3> QED
        BY <2>5, <3>1, <3>2, <3>3 DEF Trading
    <2>6. CASE SyncRaises \/ CancelRaises \/ PlaceStopRaises \/ CancelDone \/ Resize
      BY <2>6 DEF SyncRaises, CancelRaises, PlaceStopRaises, CancelDone, Resize
    <2>7. CASE (\E s \in stops : CancelStop(s)) \/ \E i \in FreshIds : PlaceStop(i)
      BY <2>7 DEF CancelStop, PlaceStop
    <2>8. CASE Crash \/ IntentAges \/ MarketMoves \/ FaultsStop \/ LateExecution
      BY <2>8 DEF Crash, IntentAges, MarketMoves, FaultsStop, LateExecution
    <2>9. CASE \E s \in stops : StopFires(s)
      BY <2>9 DEF StopFires
    <2> QED
      BY <2>1, <2>2, <2>3, <2>4, <2>5, <2>6, <2>7, <2>8, <2>9 DEF Next, Runner, Protecting
  <1>2. IInv /\ [Next]_vars =>
          [pc' = "idle" /\ pc \in {"sync", "placed"} /\ pos'.long =>
             \E s \in stops' : /\ s.level >= StopLevel(eng') - Slack
                               /\ pc = "placed" => s.level = StopLevel(eng')]_vars
    BY <1>1
  <1> QED
    BY Invariance, <1>2, PTL DEF Spec, SyncTightens

(* A process that dies, or has not reconciled yet, writes nothing.         *)
LEMMA CheckpointKept ==
    ASSUME DecisionInv, Next, ~Bootstrap, pc \in {"down", "resolve"} \/ pc' \in {"down", "resolve"}
    PROVE  ckpt' = ckpt
  <1> USE DEF Die, durable, account
  <1>1. CASE Restart \/ (\E c \in ClientIds : ResolveIntent(c))
    BY <1>1 DEF Restart, ResolveIntent
  <1>2. CASE EventArrives \/ RecordProtectiveFill \/ DecideToHold \/ (\E d \in Decision : DecideToTrade(d))
    BY <1>2 DEF EventArrives, RecordProtectiveFill, DecideToHold, DecideToTrade, Evaluate
  <1>3. CASE ReadBeforeOrder \/ ListForExit \/ ReadBeforeSell \/ PrepareIntent
    BY <1>3 DEF ReadBeforeOrder, ListForExit, ReadBeforeSell, PrepareIntent, Veto
  <1>4. CASE ExchangeExecutes \/ PlacementRaises \/ MarkIntent \/ ApplyFill \/ Settle
    BY <1>4 DEF ExchangeExecutes, PlacementRaises, MarkIntent, ApplyFill, Settle
  <1>5. CASE SyncFlat \/ SyncRaises \/ SyncLong
    BY <1>5 DEF SyncFlat, SyncRaises, SyncLong, Done
  <1>6. CASE (\E s \in stops : CancelStop(s)) \/ CancelRaises \/ Resize
    BY <1>6 DEF CancelStop, CancelRaises, Resize
  <1>7. CASE CancelDone
    BY <1>7 DEF CancelDone, DecisionInv
  <1>8. CASE (\E i \in FreshIds : PlaceStop(i)) \/ PlaceStopRaises \/ StopPlaced
    BY <1>8 DEF PlaceStop, PlaceStopRaises, StopPlaced, Done
  <1>9. CASE Crash \/ IntentAges \/ MarketMoves \/ FaultsStop \/ LateExecution
    BY <1>9 DEF Crash, IntentAges, MarketMoves, FaultsStop, LateExecution
  <1>10. CASE \E s \in stops : StopFires(s)
    BY <1>10 DEF StopFires
  <1> QED
    BY <1>1, <1>2, <1>3, <1>4, <1>5, <1>6, <1>7, <1>8, <1>9, <1>10
       DEF Next, Runner, Startup, Trading, Protecting

(* A position that stays open keeps the plan it is managed under, in       *)
(* memory and, across restarts, on disk: a process starts from what is on  *)
(* disk, and what it writes there is what it knows.                        *)
THEOREM PlanKept == Spec => PlanIsKept
  <1>1. ASSUME IInv, Next, eng.entry # 0, eng'.entry # 0
        PROVE  eng'.plan = eng.plan
    <2> USE <1>1 DEF Die, account, durable, memory, locals, env
    <2>1. eng \in Engine /\ Blank.entry = 0 /\ pos \in Position /\ Reading \in Position
      BY ReadingType DEF IInv, TypeOK, Blank
    <2>2. ASSUME NEW p \in Position, eng' = Restored(eng, p) PROVE eng'.plan = eng.plan
      <3>1. p.long
        BY <2>1, <2>2 DEF Restored
      <3> QED
        BY <2>1, <2>2, <3>1, RestoredLong DEF IInv
    <2>3. ASSUME NEW base, SellFilled(base) PROVE eng'.plan = eng.plan
      BY <2>1, <2>3 DEF SellFilled, Engine
    <2>4. ASSUME NEW i, eng' = [eng EXCEPT !.prot = i] PROVE eng'.plan = eng.plan
      BY <2>1, <2>4 DEF Engine
    <2>5. ASSUME Reconcile PROVE eng'.plan = eng.plan
      BY <2>1, <2>2, <2>3, <2>5 DEF Reconcile
    <2>6. CASE Restart
      BY <2>1, <2>6 DEF Restart, IInv, PlanInv
    <2>7. CASE Bootstrap
      BY <2>1, <2>2, <2>7 DEF Bootstrap
    <2>8. CASE EventArrives \/ ReadBeforeOrder \/ ReadBeforeSell \/ Settle
      BY <2>5, <2>8 DEF EventArrives, ReadBeforeOrder, ReadBeforeSell, Settle
    <2>9. CASE DecideToHold \/ \E d \in Decision : DecideToTrade(d)
      BY <2>1, <2>2, <2>9 DEF DecideToHold, DecideToTrade, Evaluate
    <2>10. CASE ApplyFill
      <3>1. CASE eng' = eng
        BY <3>1
      <3>2. CASE ~IsBuy /\ SellFilled(ack.base)
        BY <2>3, <3>2
      <3>3. CASE IsBuy /\ BuyFilled(ack.base, ack.price, dec.plan)
        <4>1. dec.plan = NoPlan
          BY <2>10 DEF ApplyFill, IInv, PlanInv
        <4> QED
          BY <3>3, <4>1 DEF BuyFilled
      <3> QED
        BY <2>10, <3>1, <3>2, <3>3 DEF ApplyFill
    <2>11. CASE SyncLong \/ CancelDone \/ StopPlaced
      BY <2>4, <2>11 DEF SyncLong, CancelDone, StopPlaced
    <2>12. CASE Crash \/ PlacementRaises \/ SyncRaises \/ CancelRaises \/ PlaceStopRaises
      BY <2>1, <2>12 DEF Crash, PlacementRaises, SyncRaises, CancelRaises, PlaceStopRaises
    <2>13. CASE \E c \in ClientIds : ResolveIntent(c)
      BY <2>1, <2>13 DEF ResolveIntent
    <2>14. CASE RecordProtectiveFill \/ ListForExit \/ PrepareIntent \/ ExchangeExecutes \/ MarkIntent
                \/ SyncFlat \/ Resize
      BY <2>14 DEF RecordProtectiveFill, ListForExit, PrepareIntent, ExchangeExecutes, MarkIntent, SyncFlat, Resize
    <2>15. CASE (\E s \in stops : CancelStop(s)) \/ \E i \in FreshIds : PlaceStop(i)
      BY <2>15 DEF CancelStop, PlaceStop
    <2>16. CASE IntentAges \/ MarketMoves \/ FaultsStop \/ LateExecution
      BY <2>16 DEF IntentAges, MarketMoves, FaultsStop, LateExecution
    <2>17. CASE \E s \in stops : StopFires(s)
      BY <2>17 DEF StopFires
    <2> QED
      BY <2>6, <2>7, <2>8, <2>9, <2>10, <2>11, <2>12, <2>13, <2>14, <2>15, <2>16, <2>17
         DEF Next, Runner, Startup, Trading, Protecting
  <1>2. ASSUME IInv, Next, ckpt # NoCkpt, ckpt.entry # 0, ckpt'.entry # 0
        PROVE  ckpt'.plan = ckpt.plan
    <2>1. PlanInv'
      BY <1>2, PlanStep DEF IInv
    <2>2. CASE pc \notin {"down", "resolve"}
      <3>1. eng = ckpt
        BY <2>2, <1>2 DEF IInv, PlanInv
      <3>2. CASE pc' \notin {"down", "resolve"}
        <4>1. eng' = ckpt'
          BY <2>1, <3>2 DEF PlanInv
        <4> QED
          BY <1>1, <1>2, <3>1, <4>1
      <3>3. CASE pc' \in {"down", "resolve"}
        BY <2>2, <3>3, <1>2, CheckpointKept DEF IInv, Bootstrap
      <3> QED
        BY <3>2, <3>3
    <2>3. CASE pc \in {"down", "resolve"} /\ ~Bootstrap
      BY <2>3, <1>2, CheckpointKept DEF IInv
    <2>4. CASE Bootstrap
      <3>1. eng = ckpt /\ ckpt' = Restored(eng, Reading) /\ eng' = ckpt'
        BY <2>4, <1>2 DEF Bootstrap, IInv, PlanInv
      <3> QED
        BY <3>1, <1>1, <1>2
    <2> QED
      BY <2>2, <2>3, <2>4
  <1>3. IInv /\ [Next]_vars =>
          [/\ eng.entry # 0 /\ eng'.entry # 0 => eng'.plan = eng.plan
           /\ ckpt # NoCkpt /\ ckpt.entry # 0 /\ ckpt'.entry # 0 => ckpt'.plan = ckpt.plan]_vars
    BY <1>1, <1>2
  <1> QED
    BY Invariance, <1>3, PTL DEF Spec, PlanIsKept
=============================================================================
