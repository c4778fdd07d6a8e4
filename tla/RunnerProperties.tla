-------------------------- MODULE RunnerProperties --------------------------
(***************************************************************************)
(* What the order authority promises.                                      *)
(***************************************************************************)
EXTENDS RealtimeRunner

Held == free + locked

(* A position the exchange would let us protect has no stop for all of it. *)
Naked == Held >= MinLots /\ ~\E s \in stops : s.qty >= Held

(* Between two events a position never rests without a stop for all of it: *)
(* every path of process_event and bootstrap that touches the book, veto,  *)
(* refusal and partial fill included, ends with _sync_protection.          *)
IdleProtected == pc \in {"idle", "evaluate"} => ~Naked

(* Between two events every stop on the book is the one the engine has     *)
(* recorded, in memory and on disk, so that its fill can be recognised.    *)
IdleStopIsRecorded ==
    pc = "idle" => \A s \in stops : s.id = eng.prot /\ s.id = ckpt.prot

(* Between two events no stop is looser than the initial stop of the       *)
(* position's own plan, but for the tolerance that spares a replacement.   *)
IdleStopIsTight ==
    pc = "idle" => \A s \in stops : s.level >= eng.entry - Width[eng.plan] - Slack

(* Between two events the stop on the book is the recorded one, and as     *)
(* tight as the plan of the position wants it, within the tolerance,       *)
(* whatever crash or replacement came before.                              *)
IdleStop == IdleStopIsRecorded /\ IdleStopIsTight

(* A synchronisation that ends with a held position leaves a stop within   *)
(* the replacement threshold of what the ratchet now asks for, and exactly *)
(* there if it had to place one.                                           *)
SyncTightens ==
    [][pc' = "idle" /\ pc \in {"sync", "placed"} /\ pos'.long =>
       \E s \in stops' : /\ s.level >= StopLevel(eng') - Slack
                         /\ pc = "placed" => s.level = StopLevel(eng')]_vars

(* _cancel_protection runs before every placement: the book never carries  *)
(* two protective orders.                                                  *)
OneStop == \A s, t \in stops : s = t

(* _sync_protection always finds an entry price for a LONG book: no fill   *)
(* bookkeeping clears the position of a book that still holds one.         *)
NeverUnmanaged == pc = "sync" /\ pos.long => eng.entry # 0

(* No client id is sent twice to be executed, whatever is redelivered,     *)
(* retried by a new process, or left unresolved by an old one.  The second *)
(* fill that the retry inside one call risks is OrderSubmission's subject. *)
NoDoubleExecution == \A c \in ClientIds : orders[c].n <= 1

(* While the strategy runs, at most the order being placed is unresolved.  *)
OneUnresolved ==
    pc \notin {"down", "resolve"} =>
        \A c \in ClientIds : intents[c] \in Unresolved => pc \in {"post", "mark"} /\ c = dec.cid

(* What the ledger says of a finished intent is what the exchange did.     *)
LedgerAgrees ==
    \A c \in ClientIds :
        /\ intents[c] \in {"FILLED", "EXPIRED"} => orders[c] = [status |-> intents[c], n |-> 1]
        /\ intents[c] \in {"NONE", "NOT_FOUND"} => orders[c].n = 0

(* A position that stays open keeps the plan it is managed under: a        *)
(* top-up, a trim, a restore or a new stop never changes it in memory, and *)
(* neither these nor the restart of a process that was killed between any  *)
(* two calls change it on disk, where the memory of the next one is from.  *)
PlanIsKept ==
    [][/\ eng.entry # 0 /\ eng'.entry # 0 => eng'.plan = eng.plan
       /\ ckpt # NoCkpt /\ ckpt.entry # 0 /\ ckpt'.entry # 0 => ckpt'.plan = ckpt.plan]_vars

(* An engine that gives up a position whose recorded stop has executed     *)
(* books that fill, and the next event journals it.                        *)
StopFillIsBooked ==
    [][eng.entry # 0 /\ OwnStopFired /\ pc' # "down" /\ eng'.entry = 0 => ext']_vars

(* A holding that is LONG at the market price and below the minimum        *)
(* notional at the price of its stop: an opening that filled in part, a    *)
(* trim (RemainderIsProtectable asks for the market price only), or BTC    *)
(* the account already had.  Every bootstrap raises in SyncRaises, before  *)
(* an event is read, so that nothing ever sells it.                        *)
Unprotectable == Held >= MinLots /\ Held < StopLots

(* Once faults stop, the event loop is always reached again: there is no   *)
(* crash loop but that of an unprotectable holding.                        *)
KeepsRunning == []<>(pc = "idle" \/ Unprotectable)

(* Once faults stop, a naked position is protected or sold, unless it is   *)
(* or becomes an unprotectable one.                                        *)
NakedIsTemporary == Naked ~> (~Naked \/ Unprotectable)

-----------------------------------------------------------------------------
(***************************************************************************)
(* The inductive invariant: what every step relies on and no property      *)
(* above states by itself.                                                 *)
(***************************************************************************)

(* An order that may still arrive was sent for an intent that is young and *)
(* unresolved, by a process that has died.                                 *)
FlightInv ==
    /\ pc = "post" => young
    /\ flying # NoRequest =>
           /\ young /\ pc \in {"down", "resolve"}
           /\ flying.cid \in ClientIds
           /\ intents[flying.cid] \in Unresolved /\ orders[flying.cid].n = 0
           /\ flying.cid \in BuyIds => flying.qty + Held <= MaxLots

(* The decision in hand decides which side of the book its id trades, and  *)
(* there is one wherever an order is being prepared.                       *)
DecisionInv ==
    /\ dec.kind = "hold" => dec.cid = NoId
    /\ dec.kind \in {"open", "topup"} => dec.cid \in BuyIds
    /\ dec.kind \in {"trim", "exit"} => dec.cid \in SellIds
    /\ pc \in {"order", "prepare", "post", "mark", "apply"} => dec.kind # "hold"
    /\ pc \in {"exit", "exitRead"} => dec.kind \in {"trim", "exit"}
    /\ pc = "cancel" => ret \in {"exitRead", "idle", "resize"}
    /\ pc = "cancel" /\ ret = "exitRead" => dec.kind \in {"trim", "exit"}
    /\ pc \in {"prepare", "post"} /\ dec.kind \in {"open", "topup"} => req + Held <= MaxLots

(* The protective orders: at most one rests, it locks exactly what is      *)
(* locked, a cancellation covers every one of them, and none is left where *)
(* a new one is about to be placed.                                        *)
StopInv ==
    /\ OneStop
    /\ stops = {} => locked = 0
    /\ \A s \in stops : locked = s.qty
    /\ pc = "cancel" => \A s \in stops : s.id \in todo
    /\ pc \in {"resize", "place"} => stops = {}

(* The market orders: each id executes at most once, and not before the    *)
(* ledger says so, nor after.                                              *)
LedgerInv ==
    /\ NoDoubleExecution
    /\ OneUnresolved
    /\ LedgerAgrees
    /\ \A c, d \in ClientIds : intents[c] \in Unresolved /\ intents[d] \in Unresolved => c = d
    /\ \A c \in ClientIds : orders[c].n > 0 => orders[c].status \in {"FILLED", "EXPIRED"}
    /\ pc = "post" => intents[dec.cid] \in Unresolved /\ orders[dec.cid].n = 0
    /\ pc = "mark" => orders[dec.cid] = [status |-> ack.status, n |-> 1]

(* What the runner believes it holds is never less than what it holds,     *)
(* except where an order of its own may just have executed.                *)
PositionKnown ==
    pc \notin {"down", "resolve", "mark", "apply", "settle"} =>
        IF pos.long THEN pos.qty >= Held ELSE Held < MinLots

(* A book that needs no new stop.                                          *)
Covered == Held < MinLots \/ (stops # {} /\ free = 0)

(* Where the book is known to be covered, and what is about to cover it.   *)
CoverInv ==
    /\ PositionKnown
    /\ pc \in {"idle", "evaluate", "order", "placed"} => Covered
    /\ pc = "cancel" /\ ret = "idle" => ~pos.long
    /\ pc = "place" => req >= Held

(* A stop that rests locks a position worth protecting, and while it rests *)
(* and no order of the runner's own may have executed since the last read, *)
(* the runner knows exactly what it holds.                                 *)
BookInv ==
    /\ stops # {} => locked >= MinLots
    /\ stops # {} /\ pc \notin {"down", "resolve", "mark", "apply", "settle"} =>
           pos.long /\ pos.qty = Held
    /\ pos.long => pos.qty >= MinLots
    /\ pc = "exitRead" => stops = {}
    /\ pc = "cancel" /\ ret = "resize" =>
           Held >= MinLots \/ todo \ {s.id : s \in stops} # {}
    /\ pc = "resize" => Held >= MinLots
    /\ pc = "place" => pos.long /\ pos.qty = req

(* A sale is sized on the book without its stop, and leaves nothing or a   *)
(* position the engine still has on its books.                             *)
SaleInv ==
    dec.kind \in {"trim", "exit"} =>
        /\ (pc \in {"order", "exit", "exitRead"} \/ (pc = "cancel" /\ ret = "exitRead")) /\ pos.long =>
               eng.qty >= Held
        /\ pc \in {"prepare", "post", "mark", "apply"} => stops = {}
        /\ pc \in {"prepare", "post"} =>
               eng.qty >= Held /\ req <= Held /\ (Held = req \/ Held >= req + MinLots)
        /\ pc \in {"mark", "apply"} /\ ack.status = "FILLED" =>
               Held = 0 \/ (Held >= MinLots /\ eng.qty >= Held + ack.base)

(* A LONG book has an entry price, but for the moment between the sale     *)
(* that ended the position and the read that finds it gone.                *)
EntryInv ==
    /\ pc \in {"mark", "apply"} => ack.price \in Prices
    /\ pc \in {"down", "resolve"} => ~pos.long
    /\ pc # "settle" /\ pos.long => eng.entry # 0
    /\ pc = "settle" /\ pos.long => eng.entry # 0 \/ Held < MinLots
    /\ pc \in {"resize", "place", "placed"} \/ (pc = "cancel" /\ ret = "resize") => eng.entry # 0

(* Only an opening carries a plan, and it finds an engine without a        *)
(* position.  What a running process knows of its position is on disk      *)
(* before the next call.                                                   *)
PlanInv ==
    /\ pc = "down" => eng = Blank
    /\ dec.kind # "open" => dec.plan = NoPlan
    /\ dec.kind = "open" /\ pc = "order" => ~pos.long
    /\ dec.kind = "open" /\ pc \in {"order", "prepare", "post", "mark", "apply"} => eng.entry = 0
    /\ pc = "resolve" => eng = IF ckpt = NoCkpt THEN Blank ELSE ckpt
    /\ pc \notin {"down", "resolve"} => eng = ckpt

(* Outside a synchronisation the stop that rests is the recorded one, and  *)
(* no looser than the plan and the tolerance allow; a stop just placed is  *)
(* what was asked.                                                         *)
RecordInv ==
    /\ pc \in {"idle", "evaluate", "order", "exit", "prepare", "post", "mark", "apply"} =>
           \A s \in stops : /\ s.id = eng.prot /\ s.id = ckpt.prot
                            /\ s.level >= eng.entry - Width[eng.plan] - Slack
    /\ pc = "placed" => \A s \in stops : s.id = placed /\ s.level = StopLevel(eng)

(* Each part relies on the ones before it.                                 *)
IInv ==
    /\ TypeOK /\ DecisionInv /\ StopInv /\ FlightInv /\ LedgerInv /\ CoverInv
    /\ BookInv /\ SaleInv /\ EntryInv /\ PlanInv /\ RecordInv
=============================================================================
