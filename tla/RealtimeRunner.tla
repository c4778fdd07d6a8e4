--------------------------- MODULE RealtimeRunner ---------------------------
(***************************************************************************)
(* The order authority of CryptoAgent 3.0: RealtimeDemoRunner with the     *)
(* engine state it owns (ProtectiveDecisionEngine), its two durable        *)
(* records (the engine checkpoint and the SQLite intent ledger) and the    *)
(* exchange account it trades.                                             *)
(*                                                                         *)
(* The runner is one thread.  Every action below is the code between two   *)
(* calls of the adapter, so that the exchange (a resting stop fires, the   *)
(* market moves) and a crash can come between any two calls.  `pc' names   *)
(* the call that comes next.  An exception that leaves process_event ends  *)
(* the process (`Die'); systemd starts it again (`Restart').               *)
(*                                                                         *)
(* Data is abstracted to what the properties tell apart:                   *)
(*   - base quantities are whole lots; what is left below one lot is the   *)
(*     free choice in AfterSell;                                           *)
(*   - prices are the levels 1..MaxPrice; a protective stop has a level,   *)
(*     and the market reaches it when the market is at or below it;        *)
(*   - a high_since_entry above the entry level has armed the ratchet:     *)
(*     the stop is at the entry (break-even) or trails the high;           *)
(*   - the client id of a market order is a member of BuyIds or SellIds    *)
(*     (the hash covers the action): a redelivered event reuses one;       *)
(*   - one call of the adapter that places a market order executes at most *)
(*     once: what the retry inside such a call can do is OrderSubmission;  *)
(*   - the decision source is any engine: it may ask for everything that   *)
(*     the two engines of the repository may ask for.                      *)
(* A definition whose comment begins with "Mutant" is a plausible bug in   *)
(* the definition that follows it; nothing but a mutation run uses it.     *)
(***************************************************************************)
EXTENDS Integers, FiniteSets

CONSTANTS
    MaxLots,     \* bound: lots the account can hold (its cash)
    MaxPrice,    \* bound: number of price levels
    MinLots,     \* lots worth the exchange's minimum notional at the market price
    StopLots,    \* lots worth the minimum notional at the stop price
    Plans,       \* execution plans a decision may carry
    NoPlan,      \* "execution_plan is None": the engine's default geometry
    Width,       \* distance entry -> initial stop under each plan
    Slack,       \* levels a resting stop may stay below the wanted one
    StopIds,     \* exchange ids of protective orders (recycled when unreferenced)
    NoId,        \* "protective_order_id is None"
    BuyIds,      \* client ids of ENTER_LONG decisions
    SellIds,     \* client ids of EXIT_LONG decisions
    CalmPrices,  \* levels at which the market may settle when faults stop
    NoCkpt       \* "the checkpoint file does not exist"

ClientIds == BuyIds \cup SellIds
Prices    == 1..MaxPrice
Lots      == 0..MaxLots

ASSUME LotsAssumption == MaxLots \in Nat /\ MinLots \in Nat \ {0} /\ StopLots \in Nat \ {0}
ASSUME PriceAssumption == MaxPrice \in Nat \ {0} /\ CalmPrices \subseteq Prices
ASSUME PlanAssumption == NoPlan \notin Plans /\ Width \in [Plans \cup {NoPlan} -> Nat \ {0}]
ASSUME SlackAssumption == Slack \in Nat
ASSUME IdAssumption == NoId \notin StopIds \cup ClientIds /\ BuyIds \cap SellIds = {}

VARIABLES
    \* the exchange account (external)
    free,      \* lots of BTC that are free
    locked,    \* lots of BTC locked by resting protective orders
    mkt,       \* price level of the market
    stops,     \* protective orders resting on the book
    fired,     \* protective orders that have executed (recent_trades)
    orders,    \* market orders by client id: last status, number of executions
    flying,    \* a market order whose sender died before it was delivered
    \* durable
    intents,   \* the intent ledger: client id -> status
    ckpt,      \* the engine checkpoint file
    \* the process
    pc,        \* the adapter call that comes next
    eng,       \* EnginePersistentState in memory
    pos,       \* RealtimeDemoRunner._position
    ext,       \* _pending_external_order is set
    dec,       \* the decision being executed
    req,       \* size of the order about to be placed
    ack,       \* the answer of the exchange to the last market order
    placed,    \* the answer of the exchange to the last protective order
    todo,      \* protective orders still to cancel
    ret,       \* what follows the cancellation
    \* the environment
    young,     \* the unresolved intent is less than 30 seconds old
    calm       \* faults have stopped

account  == <<free, locked, stops, fired, orders, flying>>
durable  == <<intents, ckpt>>
locals   == <<dec, req, ack, placed, todo, ret>>
memory   == <<eng, pos, ext, locals>>
env      == <<young, calm>>
vars     == <<account, mkt, durable, pc, memory, env>>

-----------------------------------------------------------------------------
(* Statuses of an intent; of _TERMINAL those a market order can reach.     *)
Terminal   == {"FILLED", "EXPIRED", "NOT_FOUND"}
Unresolved == {"PREPARED", "UNKNOWN"}

(* EnginePersistentState, as far as the position and its stop depend on it *)
Engine == [entry : 0..MaxPrice, high : 0..MaxPrice, qty : Nat,
           plan : Plans \cup {NoPlan}, prot : StopIds \cup {NoId}]

(* An engine that manages no position: entry_price is None.                *)
Blank == [entry |-> 0, high |-> 0, qty |-> 0, plan |-> NoPlan, prot |-> NoId]

Position == [long : BOOLEAN, qty : Lots]
NoPos    == [long |-> FALSE, qty |-> 0]

StopOrder == [id : StopIds, qty : Lots, level : Int]

Decision == [kind : {"hold", "open", "topup", "trim", "exit"},
             plan : Plans \cup {NoPlan}, cid : ClientIds \cup {NoId}]
Hold     == [kind |-> "hold", plan |-> NoPlan, cid |-> NoId]

Answer   == [status : {"NONE", "FILLED", "EXPIRED"}, base : Lots, price : 0..MaxPrice]
NoAnswer == [status |-> "NONE", base |-> 0, price |-> 0]

Request   == [cid : ClientIds \cup {NoId}, qty : Lots]
NoRequest == [cid |-> NoId, qty |-> 0]

PC == {"down", "resolve", "idle", "evaluate", "order", "exit", "exitRead",
       "prepare", "post", "mark", "apply", "settle",
       "sync", "cancel", "resize", "place", "placed"}

TypeOK ==
    /\ free \in Lots /\ locked \in Lots /\ free + locked \in Lots
    /\ mkt \in Prices
    /\ stops \subseteq StopOrder
    /\ fired \subseteq StopOrder
    /\ orders \in [ClientIds -> [status : {"NONE", "FILLED", "EXPIRED"}, n : 0..2]]
    /\ flying \in Request
    /\ intents \in [ClientIds -> {"NONE"} \cup Unresolved \cup Terminal]
    /\ ckpt \in Engine \cup {NoCkpt}
    /\ pc \in PC
    /\ eng \in Engine
    /\ pos \in Position
    /\ ext \in BOOLEAN
    /\ dec \in Decision
    /\ req \in Lots
    /\ ack \in Answer
    /\ placed \in StopIds \cup {NoId}
    /\ todo \subseteq StopIds
    /\ ret \in {"none", "exitRead", "idle", "resize"}
    /\ young \in BOOLEAN /\ calm \in BOOLEAN

-----------------------------------------------------------------------------
(* Pure parts of the engine.                                               *)

Higher(a, b) == IF a >= b THEN a ELSE b

(* _active_stop: the initial stop of the effective plan, or the ratchet,   *)
(* which never stands below break-even and trails by the plan's distance.  *)
StopLevel(e) ==
    IF e.high > e.entry THEN Higher(e.entry, e.high - Width[e.plan])
                        ELSE e.entry - Width[e.plan]

(* reconcile_realtime_position: one read of the price and the balances.    *)
Reading == [long |-> free + locked >= MinLots, qty |-> free + locked]

(* Mutant: a restart takes the market price for the entry.                 *)
RestoredAtMarket(e, p) ==
    IF p.long THEN [e EXCEPT !.entry = mkt, !.qty = p.qty, !.high = Higher(@, mkt)] ELSE Blank

(* restore_position: a flat book clears everything a position owns; a held *)
(* one adopts the market price when no entry is known, and advances the    *)
(* high watermark.                                                         *)
Restored(e, p) ==
    IF p.long
    THEN [e EXCEPT !.entry = IF @ = 0 THEN mkt ELSE @, !.qty = p.qty,
                   !.high = Higher(@, mkt)]
    ELSE Blank

(* What the average of two fills may be, rounded down to a level.          *)
Average(a, b) ==
    IF a = b THEN {a} ELSE {x \in Prices : (a <= x /\ x < b) \/ (b <= x /\ x < a)}

(* Mutant: a top-up, which carries no plan, clears the position's plan.    *)
BuyFilledUnplanned(base, price, plan) ==
    IF eng.entry # 0 /\ eng.qty > 0
    THEN \E average \in Average(eng.entry, price) :
             eng' = [entry |-> average, high |-> Higher(eng.high, price),
                     qty |-> eng.qty + base, plan |-> plan, prot |-> NoId]
    ELSE eng' = [entry |-> price, high |-> price, qty |-> base, plan |-> plan, prot |-> NoId]

(* on_fill(BUY): adding to a position averages its cost and keeps the high *)
(* watermark; a fresh entry keeps whatever plan is recorded.  Both forget  *)
(* the protective order.  process_event then records the decision's plan.  *)
BuyFilled(base, price, plan) ==
    LET kept == IF plan = NoPlan THEN eng.plan ELSE plan IN
    IF eng.entry # 0 /\ eng.qty > 0
    THEN \E average \in Average(eng.entry, price) :
             eng' = [entry |-> average, high |-> Higher(eng.high, price),
                     qty |-> eng.qty + base, plan |-> kept, prot |-> NoId]
    ELSE eng' = [entry |-> price, high |-> price, qty |-> base, plan |-> kept, prot |-> NoId]

(* Mutant: every sell ends the position.                                   *)
SellFilledCloses(base) == eng' = Blank

(* on_fill(SELL): less than the recorded quantity is a trim, otherwise the *)
(* position is over.  Equal lots may differ by what is below a lot, so     *)
(* either branch may be taken for them.                                    *)
SellFilled(base) ==
    \/ /\ eng.qty > 0 /\ base <= eng.qty
       /\ eng' = [eng EXCEPT !.qty = eng.qty - base, !.prot = NoId]
    \/ /\ eng.qty = 0 \/ base >= eng.qty
       /\ eng' = Blank

(* Mutant: any stop for the quantity will do.                              *)
MatchesQuantity(s) == s.qty = pos.qty

(* An owned stop that already protects the position the runner knows: it   *)
(* is for the whole quantity, and not further below the wanted stop than   *)
(* replacement_threshold (10 ticks or 0.1% of the stop, here Slack).       *)
Matches(s) == s.qty = pos.qty /\ s.level >= StopLevel(eng) - Slack

(* Exchange ids of protective orders that nobody refers to any more.       *)
Referenced == {eng.prot} \cup (IF ckpt = NoCkpt THEN {} ELSE {ckpt.prot})
FreshIds   == StopIds \ ({s.id : s \in stops} \cup Referenced)

-----------------------------------------------------------------------------
(* The exchange.                                                           *)

(* The market moves.                                                       *)
MarketMoves ==
    /\ ~calm
    /\ \E p \in Prices \ {mkt} : mkt' = p
    /\ UNCHANGED <<account, durable, pc, memory, env>>

(* A resting protective order whose level the market has reached executes. *)
StopFires(s) ==
    /\ s \in stops /\ s.level >= mkt
    /\ stops' = stops \ {s}
    /\ fired' = fired \cup {s}
    /\ locked' = locked - s.qty
    /\ UNCHANGED <<free, orders, flying, mkt, durable, pc, memory, env>>

(* What a market order does: it fills, or it expires after filling only a  *)
(* part (market orders are immediate or cancel).  A client id that was     *)
(* used before is accepted again.                                          *)
Executes(cid, qty, base) ==
    /\ free' = IF cid \in BuyIds THEN free + base ELSE free - base
    /\ orders' = [orders EXCEPT ![cid] = [status |-> IF base = qty THEN "FILLED" ELSE "EXPIRED",
                                          n |-> IF @.n = 2 THEN 2 ELSE @.n + 1]]

(* The exchange refuses to sell what is not free.                          *)
Refused(cid, qty) == cid \in SellIds /\ qty > free

(* A request that was on its way when its sender died arrives after all.   *)
LateExecution ==
    /\ flying # NoRequest
    /\ ~Refused(flying.cid, flying.qty)
    /\ \E base \in 0..flying.qty : Executes(flying.cid, flying.qty, base)
    /\ flying' = NoRequest
    /\ UNCHANGED <<locked, stops, fired, mkt, durable, pc, memory, env>>

-----------------------------------------------------------------------------
(* Process life cycle.                                                     *)

(* The process ends: everything in memory is gone.                         *)
Die ==
    /\ pc' = "down"
    /\ eng' = Blank /\ pos' = NoPos /\ ext' = FALSE
    /\ dec' = Hold /\ req' = 0 /\ ack' = NoAnswer
    /\ placed' = NoId /\ todo' = {} /\ ret' = "none"

(* The order that was being sent may still be on its way.                  *)
MayStillArrive ==
    UNCHANGED flying \/ (pc = "post" /\ ~calm /\ flying' = [cid |-> dec.cid, qty |-> req])

(* The host fails, the process is killed, or an adapter call raises: a     *)
(* request that was not delivered, or whose answer was lost.               *)
Crash ==
    /\ ~calm /\ pc # "down"
    /\ MayStillArrive
    /\ Die
    /\ UNCHANGED <<free, locked, stops, fired, orders, mkt, durable, env>>

(* Mutant: the import does not read the plan back.                         *)
RestartUnplanned ==
    /\ pc = "down"
    /\ pc' = "resolve"
    /\ eng' = IF ckpt = NoCkpt THEN Blank ELSE [ckpt EXCEPT !.plan = NoPlan]
    /\ UNCHANGED <<account, mkt, durable, pos, ext, locals, env>>

(* systemd starts the process; __init__ loads the checkpoint.              *)
Restart ==
    /\ pc = "down"
    /\ pc' = "resolve"
    /\ eng' = IF ckpt = NoCkpt THEN Blank ELSE ckpt
    /\ UNCHANGED <<account, mkt, durable, pos, ext, locals, env>>

(* Mutant: an unknown order is given up at once.                           *)
ResolveIntentAtOnce(c) ==
    /\ pc = "resolve" /\ intents[c] \in Unresolved
    /\ intents' = [intents EXCEPT ![c] = IF orders[c].n > 0 THEN orders[c].status ELSE "NOT_FOUND"]
    /\ UNCHANGED <<account, mkt, ckpt, pc, memory, env>>

(* Mutant: an unknown order is never given up.                             *)
ResolveIntentNever(c) ==
    /\ pc = "resolve" /\ intents[c] \in Unresolved
    /\ \/ /\ orders[c].n > 0
          /\ intents' = [intents EXCEPT ![c] = orders[c].status]
          /\ UNCHANGED <<pc, memory>>
       \/ /\ orders[c].n = 0
          /\ Die
          /\ UNCHANGED intents
    /\ UNCHANGED <<account, mkt, ckpt, env>>

(* _resolve_unfinished_intents, one unresolved intent: the exchange knows  *)
(* the order; it does not, and 30 seconds have passed; or it does not and  *)
(* the intent is younger, which stops the process.                         *)
ResolveIntent(c) ==
    /\ pc = "resolve"
    /\ intents[c] \in Unresolved
    /\ \/ /\ orders[c].n > 0
          /\ intents' = [intents EXCEPT ![c] = orders[c].status]
          /\ young' = FALSE
          /\ UNCHANGED <<pc, memory>>
       \/ /\ orders[c].n = 0 /\ ~young
          /\ intents' = [intents EXCEPT ![c] = "NOT_FOUND"]
          /\ UNCHANGED <<pc, memory, young>>
       \/ /\ orders[c].n = 0 /\ young
          /\ Die
          /\ UNCHANGED <<intents, young>>
    /\ UNCHANGED <<account, mkt, ckpt, calm>>

(* Thirty seconds pass; a request that has not arrived by then never will, *)
(* for the exchange rejects it (recvWindow is 5 seconds).                  *)
IntentAges ==
    /\ young /\ pc \in {"down", "resolve"}
    /\ young' = FALSE
    /\ flying' = NoRequest
    /\ UNCHANGED <<free, locked, stops, fired, orders, mkt, durable, pc, memory, calm>>

(* Mutant: the strategy starts beside an unresolved intent.                *)
BootstrapUnresolved ==
    /\ pc = "resolve"
    /\ pos' = Reading
    /\ eng' = Restored(eng, Reading) /\ ckpt' = Restored(eng, Reading)
    /\ pc' = "sync"
    /\ UNCHANGED <<account, mkt, intents, ext, locals, env>>

(* Mutant: the protection is not synchronised at start.                    *)
BootstrapUnsynced ==
    /\ pc = "resolve"
    /\ \A c \in ClientIds : intents[c] \notin Unresolved
    /\ pos' = Reading
    /\ eng' = Restored(eng, Reading) /\ ckpt' = Restored(eng, Reading)
    /\ pc' = "idle"
    /\ UNCHANGED <<account, mkt, intents, ext, locals, env>>

(* bootstrap, once no intent is unresolved: reconcile, recover the engine  *)
(* from an empty journal when there is no checkpoint (restore_position     *)
(* then adopts the market price), restore, persist, and force a sync.      *)
Bootstrap ==
    /\ pc = "resolve"
    /\ \A c \in ClientIds : intents[c] \notin Unresolved
    /\ pos' = Reading
    /\ eng' = Restored(eng, Reading)
    /\ ckpt' = Restored(eng, Reading)
    /\ pc' = "sync"
    /\ UNCHANGED <<account, mkt, intents, ext, locals, env>>

-----------------------------------------------------------------------------
(* process_event: reading the book and taking the decision.                *)

(* The stop the engine has recorded has executed.                          *)
OwnStopFired == \E s \in fired : s.id = eng.prot

(* _reconcile: read the account; when the book has turned from LONG to     *)
(* FLAT or back, book the protective fill or restore the position, and     *)
(* persist.                                                                *)
Reconcile ==
    /\ pos' = Reading
    /\ \/ /\ pos.long = Reading.long
          /\ UNCHANGED <<eng, ext, ckpt>>
       \/ /\ pos.long /\ ~Reading.long
          /\ \E s \in fired : s.id = eng.prot /\ SellFilled(s.qty)
          /\ ext' = TRUE
          /\ ckpt' = eng'
       \/ /\ pos.long # Reading.long
          /\ ~(pos.long /\ OwnStopFired)
          /\ eng' = Restored(eng, Reading)
          /\ ckpt' = eng'
          /\ UNCHANGED ext

(* An event passes the cadence guard; the account is reconciled when 30    *)
(* seconds have passed since the last time.                                *)
EventArrives ==
    /\ pc = "idle"
    /\ pc' = "evaluate"
    /\ Reconcile \/ UNCHANGED <<pos, eng, ext, ckpt>>
    /\ UNCHANGED <<account, mkt, intents, locals, env>>

(* A protective fill found by _reconcile is journalled; nothing is decided *)
RecordProtectiveFill ==
    /\ pc = "evaluate" /\ ext
    /\ ext' = FALSE
    /\ pc' = "idle"
    /\ UNCHANGED <<account, mkt, durable, eng, pos, locals, env>>

(* What the engines may ask for.  A plan comes only with an opening; at or *)
(* below its stop a position can only be closed.                           *)
MayOpen(d)   == d.kind = "open"  /\ ~pos.long /\ d.cid \in BuyIds
MayAdjust(d) == /\ pos.long /\ StopLevel(Restored(eng, pos)) < mkt /\ d.plan = NoPlan
                /\ \/ d.kind = "topup" /\ d.cid \in BuyIds
                   \/ d.kind = "trim"  /\ d.cid \in SellIds
MayExit(d)   == d.kind = "exit"  /\ pos.long /\ d.plan = NoPlan /\ d.cid \in SellIds
MustExit     == pos.long /\ StopLevel(Restored(eng, pos)) >= mkt

(* engine.evaluate restores the position it is shown; the runner persists. *)
Evaluate ==
    /\ pc = "evaluate" /\ ~ext
    /\ eng' = Restored(eng, pos)
    /\ ckpt' = Restored(eng, pos)
    /\ UNCHANGED <<account, mkt, intents, pos, ext, env, req, ack, placed, todo, ret>>

(* HOLD: a held position has its stop synchronised, at most every 30 s.    *)
DecideToHold ==
    /\ ~MustExit
    /\ pc' = "idle" \/ (pos.long /\ pc' = "sync")
    /\ UNCHANGED dec
    /\ Evaluate

(* A directional decision.                                                 *)
DecideToTrade(d) ==
    /\ MayOpen(d) \/ MayAdjust(d) \/ MayExit(d)
    /\ pc' = "order" /\ dec' = d
    /\ Evaluate

-----------------------------------------------------------------------------
(* process_event: from the decision to the order.                          *)

(* Mutant: a vetoed decision simply returns.                               *)
VetoUnsynced == pc' = "idle" /\ dec' = Hold /\ req' = 0

(* The decision becomes HOLD once the order was being sized: process_event *)
(* reconciles again and forces a sync, for its stop may be cancelled.      *)
Veto == pc' = "settle" /\ dec' = Hold /\ req' = 0

(* Mutant: a buy is sized on the equity, not on the cash.                  *)
AffordableByEquity == MaxLots

(* What the cash buys.                                                     *)
Affordable == MaxLots - Reading.qty

(* The book is read again.  A decision whose book has changed meanwhile is *)
(* dropped (POSITION_CHANGED) with no further call.  A buy is sized        *)
(* against the fresh book, and declined when there is no cash or the gap   *)
(* has closed.                                                             *)
ReadBeforeOrder ==
    /\ pc = "order"
    /\ Reconcile
    /\ \/ /\ Reading.long = (dec.kind = "open")
          /\ pc' = "idle" /\ dec' = Hold /\ UNCHANGED req
       \/ /\ Reading.long # (dec.kind = "open")
          /\ dec.kind \in {"open", "topup"}
          /\ \/ Veto
             \/ /\ \E q \in 1..Affordable : req' = q
                /\ pc' = "prepare" /\ UNCHANGED dec
       \/ /\ Reading.long /\ dec.kind \in {"trim", "exit"}
          /\ pc' = "exit" /\ UNCHANGED <<dec, req>>
    /\ UNCHANGED <<account, mkt, intents, env, ack, placed, todo, ret>>

(* _cancel_protection before a sell: the owned stops are listed.           *)
ListForExit ==
    /\ pc = "exit"
    /\ todo' = {s.id : s \in stops}
    /\ ret' = "exitRead"
    /\ pc' = "cancel"
    /\ UNCHANGED <<account, mkt, durable, eng, pos, ext, dec, req, ack, placed, env>>

(* The book is read with the stop cancelled, and the sell is sized: all    *)
(* that is free, or the excess over the target.  RESIDUAL_BELOW_MIN_       *)
(* NOTIONAL and REMAINDER_UNPROTECTABLE veto it.  What remains is valued   *)
(* at the market price, not at the price of the stop it has to carry.      *)
RemainderIsProtectable(q) == Reading.qty - q = 0 \/ Reading.qty - q >= MinLots

ReadBeforeSell ==
    /\ pc = "exitRead"
    /\ Reconcile
    /\ \/ ~Reading.long /\ Veto
       \/ /\ Reading.long
          /\ \E q \in 0..Reading.qty :
                /\ dec.kind = "exit" => q = free
                /\ \/ /\ q < MinLots \/ (dec.kind = "trim" /\ ~RemainderIsProtectable(q))
                      /\ Veto
                   \/ /\ q >= MinLots /\ (dec.kind = "trim" => RemainderIsProtectable(q))
                      /\ req' = q /\ pc' = "prepare" /\ UNCHANGED dec
    /\ UNCHANGED <<account, mkt, intents, env, ack, placed, todo, ret>>

(* Mutant: a finished intent is not told from a new one.                   *)
PrepareIntentAgain ==
    /\ pc = "prepare"
    /\ intents' = [intents EXCEPT ![dec.cid] = "PREPARED"]
    /\ young' = TRUE /\ pc' = "post"
    /\ UNCHANGED <<account, mkt, ckpt, eng, pos, ext, locals, calm>>

(* ExecutionIntentStore.prepare: INSERT OR IGNORE as PREPARED, read back;  *)
(* an intent that is already terminal vetoes the order (DUPLICATE_INTENT). *)
PrepareIntent ==
    /\ pc = "prepare"
    /\ \/ /\ intents[dec.cid] \in Terminal
          /\ Veto
          /\ UNCHANGED <<intents, young>>
       \/ /\ intents[dec.cid] \notin Terminal
          /\ intents' = [intents EXCEPT ![dec.cid] = IF @ = "NONE" THEN "PREPARED" ELSE @]
          /\ young' = TRUE
          /\ pc' = "post"
          /\ UNCHANGED <<dec, req>>
    /\ UNCHANGED <<account, mkt, ckpt, eng, pos, ext, ack, placed, todo, ret, calm>>

-----------------------------------------------------------------------------
(* process_event: the market order and its bookkeeping.                    *)

IsBuy == dec.cid \in BuyIds

(* The exchange executes the order and answers.                            *)
ExchangeExecutes ==
    /\ pc = "post"
    /\ ~Refused(dec.cid, req)
    /\ \E base \in 0..req :
          /\ Executes(dec.cid, req, base)
          /\ ack' = [status |-> orders'[dec.cid].status, base |-> base, price |-> mkt]
    /\ pc' = "mark"
    /\ UNCHANGED <<locked, stops, fired, flying, mkt, durable, eng, pos, ext, dec, req,
                   placed, todo, ret, env>>

(* The placement raises: the order was refused or not delivered (`post'),  *)
(* or it executed and neither its answer nor the lookup by client id came  *)
(* back (`mark').  The intent is marked UNKNOWN and the process ends.      *)
PlacementRaises ==
    /\ \/ pc = "post" /\ (~calm \/ Refused(dec.cid, req))
       \/ pc = "mark" /\ ~calm
    /\ intents' = [intents EXCEPT ![dec.cid] = "UNKNOWN"]
    /\ MayStillArrive
    /\ Die
    /\ UNCHANGED <<free, locked, stops, fired, orders, mkt, ckpt, env>>

(* The intent is marked with the status the exchange reported.             *)
MarkIntent ==
    /\ pc = "mark"
    /\ intents' = [intents EXCEPT ![dec.cid] = ack.status]
    /\ young' = FALSE
    /\ pc' = "apply"
    /\ UNCHANGED <<account, mkt, ckpt, eng, pos, ext, locals, calm>>

(* A filled order is booked in the engine and persisted with the plan it   *)
(* was decided under; anything else is ORDER_NOT_FILLED.                   *)
ApplyFill ==
    /\ pc = "apply"
    /\ IF ack.status = "FILLED" /\ ack.base > 0
       THEN /\ IF IsBuy THEN BuyFilled(ack.base, ack.price, dec.plan)
                        ELSE SellFilled(ack.base)
            /\ ckpt' = eng'
       ELSE UNCHANGED <<eng, ckpt>>
    /\ pc' = "settle"
    /\ dec' = Hold /\ req' = 0 /\ ack' = NoAnswer
    /\ UNCHANGED <<account, mkt, intents, pos, ext, placed, todo, ret, env>>

(* After an order, or after a veto: reconcile, and force a sync if LONG.   *)
Settle ==
    /\ pc = "settle"
    /\ Reconcile
    /\ pc' = IF Reading.long THEN "sync" ELSE "idle"
    /\ UNCHANGED <<account, mkt, intents, locals, env>>

-----------------------------------------------------------------------------
(* _sync_protection.                                                       *)

(* Back to the event loop.                                                 *)
Done == pc' = "idle" /\ todo' = {} /\ ret' = "none" /\ placed' = NoId /\ req' = 0

(* A flat book: the stops that still rest are cancelled.                   *)
SyncFlat ==
    /\ pc = "sync" /\ ~pos.long
    /\ IF stops = {} THEN Done
       ELSE /\ todo' = {s.id : s \in stops} /\ ret' = "idle" /\ pc' = "cancel"
            /\ UNCHANGED <<placed, req>>
    /\ UNCHANGED <<account, mkt, durable, eng, pos, ext, dec, ack, env>>

(* A position without a stop, or too small for one at the stop's own       *)
(* price, stops the process: bootstrap forces a sync, so a LONG book of    *)
(* fewer than StopLots is a crash loop.                                    *)
SyncRaises ==
    /\ pc = "sync" /\ pos.long
    /\ eng.entry = 0 \/ pos.qty < StopLots
    /\ Die
    /\ UNCHANGED <<account, mkt, durable, env>>

(* A held position that can carry a stop: adopt the order that protects    *)
(* it, or cancel the others, or place one.                                 *)
SyncLong ==
    /\ pc = "sync" /\ pos.long
    /\ eng.entry # 0 /\ pos.qty >= StopLots
    /\ \/ /\ \E s \in stops : /\ Matches(s)
                              /\ eng' = [eng EXCEPT !.prot = s.id]
          /\ ckpt' = eng'
          /\ Done
       \/ /\ ~\E s \in stops : Matches(s)
          /\ stops # {}
          /\ todo' = {s.id : s \in stops} /\ ret' = "resize" /\ pc' = "cancel"
          /\ UNCHANGED <<eng, ckpt, placed, req>>
       \/ /\ stops = {}
          /\ req' = pos.qty /\ pc' = "place"
          /\ UNCHANGED <<eng, ckpt, todo, ret, placed>>
    /\ UNCHANGED <<account, mkt, intents, pos, ext, dec, ack, env>>

(* _cancel_protection, one DELETE.  A stop that has executed meanwhile is  *)
(* unknown to the exchange: the call raises and the process ends.          *)
CancelStop(s) ==
    /\ pc = "cancel" /\ s.id \in todo /\ s \in stops
    /\ stops' = stops \ {s}
    /\ locked' = locked - s.qty
    /\ free' = free + s.qty
    /\ todo' = todo \ {s.id}
    /\ UNCHANGED <<fired, orders, flying, mkt, durable, pc, eng, pos, ext,
                   dec, req, ack, placed, ret, env>>

CancelRaises ==
    /\ pc = "cancel" /\ \E i \in todo : i \notin {s.id : s \in stops}
    /\ Die
    /\ UNCHANGED <<account, mkt, durable, env>>

(* Mutant: the cancellations are not awaited.                              *)
CancelDoneEarly ==
    /\ pc = "cancel"
    /\ eng' = [eng EXCEPT !.prot = NoId] /\ ckpt' = eng'
    /\ pc' = ret /\ ret' = "none"
    /\ UNCHANGED <<account, mkt, intents, pos, ext, dec, req, ack, placed, todo, env>>

(* Every listed stop is cancelled: forget the protective order and persist *)
CancelDone ==
    /\ pc = "cancel" /\ todo = {}
    /\ eng' = [eng EXCEPT !.prot = NoId]
    /\ ckpt' = eng'
    /\ pc' = ret
    /\ ret' = "none"
    /\ UNCHANGED <<account, mkt, intents, pos, ext, dec, req, ack, placed, todo, env>>

(* After a cancellation the stop is sized on what is free now.             *)
Resize ==
    /\ pc = "resize"
    /\ pos' = Reading
    /\ req' = free
    /\ pc' = "place"
    /\ UNCHANGED <<account, mkt, durable, eng, ext, dec, ack, placed, todo, ret, env>>

(* place_stop_loss_base_order: the exchange accepts a stop it can lock the *)
(* quantity for and whose level the market has not reached.                *)
Acceptable == 0 < req /\ req <= free /\ StopLevel(eng) < mkt

PlaceStop(i) ==
    /\ pc = "place" /\ Acceptable
    /\ i \in FreshIds
    /\ stops' = stops \cup {[id |-> i, qty |-> req, level |-> StopLevel(eng)]}
    /\ free' = free - req
    /\ locked' = locked + req
    /\ fired' = {s \in fired : s.id \in Referenced}
    /\ placed' = i
    /\ pc' = "placed"
    /\ UNCHANGED <<orders, flying, mkt, durable, eng, pos, ext, dec, req, ack, todo, ret, env>>

PlaceStopRaises ==
    /\ pc = "place" /\ ~Acceptable
    /\ Die
    /\ UNCHANGED <<account, mkt, durable, env>>

(* Mutant: the new stop is not persisted.                                  *)
StopPlacedUnsaved ==
    /\ pc = "placed"
    /\ eng' = [eng EXCEPT !.prot = placed]
    /\ pos' = Reading
    /\ Done
    /\ UNCHANGED <<account, mkt, durable, ext, dec, ack, env>>

(* The answer arrives: record the stop, persist, read the book again.      *)
StopPlaced ==
    /\ pc = "placed"
    /\ eng' = [eng EXCEPT !.prot = placed]
    /\ ckpt' = eng'
    /\ pos' = Reading
    /\ Done
    /\ UNCHANGED <<account, mkt, intents, ext, dec, ack, env>>

-----------------------------------------------------------------------------
(* The environment may stop failing for good, with the market somewhere in *)
(* CalmPrices.  Until then crashes and market moves are unlimited.         *)
FaultsStop ==
    /\ ~calm
    /\ calm' = TRUE
    /\ mkt' \in CalmPrices
    /\ UNCHANGED <<account, durable, pc, memory, young>>

Startup == Restart \/ (\E c \in ClientIds : ResolveIntent(c)) \/ Bootstrap

Trading ==
    \/ EventArrives \/ RecordProtectiveFill
    \/ DecideToHold \/ \E d \in Decision : DecideToTrade(d)
    \/ ReadBeforeOrder \/ ListForExit \/ ReadBeforeSell
    \/ PrepareIntent \/ ExchangeExecutes \/ PlacementRaises \/ MarkIntent
    \/ ApplyFill \/ Settle

Protecting ==
    \/ SyncFlat \/ SyncRaises \/ SyncLong
    \/ (\E s \in stops : CancelStop(s)) \/ CancelRaises \/ CancelDone
    \/ Resize \/ (\E i \in FreshIds : PlaceStop(i)) \/ PlaceStopRaises \/ StopPlaced

Runner == Startup \/ Trading \/ Protecting

Next ==
    \/ Runner
    \/ Crash
    \/ IntentAges
    \/ MarketMoves \/ FaultsStop
    \/ (\E s \in stops : StopFires(s)) \/ LateExecution

(* A fresh deployment: no checkpoint, no intent, an account that may       *)
(* already hold BTC.                                                       *)
Init ==
    /\ free \in Lots /\ locked = 0
    /\ mkt \in Prices
    /\ stops = {} /\ fired = {} /\ flying = NoRequest
    /\ orders = [c \in ClientIds |-> [status |-> "NONE", n |-> 0]]
    /\ intents = [c \in ClientIds |-> "NONE"]
    /\ ckpt = NoCkpt
    /\ pc = "down"
    /\ eng = Blank /\ pos = NoPos /\ ext = FALSE
    /\ dec = Hold /\ req = 0 /\ ack = NoAnswer /\ placed = NoId /\ todo = {} /\ ret = "none"
    /\ young = FALSE /\ calm = FALSE

Spec == Init /\ [][Next]_vars

(* systemd restarts the service without limit, events keep arriving (or    *)
(* the stream reconnects), every adapter call returns or raises, time      *)
(* passes, and faults do not go on for ever.                               *)
Fairness ==
    /\ WF_vars(Runner)
    /\ WF_vars(IntentAges)
    /\ WF_vars(FaultsStop)

FairSpec == Spec /\ Fairness

=============================================================================
