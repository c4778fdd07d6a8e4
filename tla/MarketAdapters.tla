--------------------------- MODULE MarketAdapters ---------------------------
(***************************************************************************)
(* The retired market adapters: the order book and the guard in front of   *)
(* an evaluation.                                                          *)
(***************************************************************************)
EXTENDS Integers, FiniteSets, Sequences

(***************************************************************************)
(* LocalBook: the order book rebuilt from a stream of differences and one  *)
(* snapshot, rules L2-001 to L2-023.  The exchange numbers its updates;    *)
(* a difference covers a range of them and carries the levels they left,   *)
(* so the content of a book is the set of updates it reflects.  The        *)
(* stream keeps its order and may lose messages; a snapshot is taken at    *)
(* one instant and arrives at a later one.                                 *)
(***************************************************************************)

CONSTANTS
    LastUpdate,  \* updates of the exchange in one behaviour
    MaxBuffer,   \* max_buffer_events
    Resyncs      \* generations after the first

ASSUME BookAssumption == LastUpdate \in Nat /\ MaxBuffer \in Nat /\ Resyncs \in Nat

NoUpdate == -1

VARIABLES
    update,     \* the last update of the exchange
    wire,       \* the difference on its way, <<>> when there is none
    snapshot,   \* the snapshot on its way: the update it was taken at, or None
    localBook,  \* BookGeneration
    resyncs     \* generations so far

bookVars == <<update, wire, snapshot, localBook, resyncs>>

\* BookGeneration: state, first_buffered_u, last_update_id, the buffer, the content, whether
\* it was revoked, and observed_at, the last update the exchange had made when it was seen.
NewGeneration(state) ==
    [state |-> state, first |-> NoUpdate, last |-> NoUpdate, buffer |-> <<>>, content |-> {},
     revoked |-> FALSE, observed |-> NoUpdate]

Diff(first, final, seen) == [first |-> first, final |-> final, seen |-> seen]

BookInit ==
    /\ update = 0 /\ wire = <<>> /\ snapshot = NoUpdate /\ resyncs = 0
    /\ localBook = NewGeneration("UNINITIALIZED")

\* The exchange updates its book and sends the difference, or the stream loses it.
Emit ==
    /\ update < LastUpdate
    /\ \E n \in 1..2 :
         /\ update + n <= LastUpdate /\ update' = update + n
         /\ wire = <<>>
         /\ wire' \in {<<>>, <<Diff(update + 1, update + n, update + n)>>}
    /\ UNCHANGED <<snapshot, localBook, resyncs>>

\* open, L2-001.
Open ==
    /\ localBook.state = "UNINITIALIZED"
    /\ localBook' = [localBook EXCEPT !.state = "BUFFERING"]
    /\ UNCHANGED <<update, wire, snapshot, resyncs>>

\* request_snapshot, L2-003, and the exchange's answer.
Request ==
    /\ localBook.state = "BUFFERING"
    /\ localBook' = [localBook EXCEPT !.state = "SNAPSHOT_PENDING"]
    /\ snapshot' = update
    /\ UNCHANGED <<update, wire, resyncs>>

Gap(b) == [b EXCEPT !.revoked = TRUE, !.state = "GAP_DETECTED"]
Block(b) == [b EXCEPT !.revoked = TRUE, !.state = "BLOCKED"]

\* Mutant: a range that starts after the next update is applied as it comes.
apply_diff_any(b, d) ==
    IF d.final <= b.last THEN b
    ELSE [b EXCEPT !.last = d.final, !.content = @ \cup d.first..d.final, !.observed = d.seen]

\* apply_diff: what was applied is skipped, a hole revokes the book, time never runs back.
apply_diff(b, d) ==
    IF d.final <= b.last THEN b
    ELSE IF d.first > b.last + 1 THEN Gap(b)
    ELSE IF d.seen < b.observed THEN Block(b)
    ELSE [b EXCEPT !.last = d.final, !.content = @ \cup d.first..d.final, !.observed = d.seen]

\* buffer_diff, L2-002, L2-004 and L2-016.
buffer_diff(b, d) ==
    LET kept == [b EXCEPT !.buffer = Append(@, d),
                          !.first = IF @ = NoUpdate THEN d.first ELSE @]
    IN  IF Len(kept.buffer) > MaxBuffer THEN Gap(kept) ELSE kept

\* A difference arrives: buffered before the replay, applied while the book is live, refused
\* otherwise.
DeliverDiff ==
    /\ wire # <<>> /\ wire' = <<>>
    /\ localBook' = CASE localBook.state \in {"BUFFERING", "SNAPSHOT_PENDING"} ->
                           buffer_diff(localBook, wire[1])
                      [] localBook.state = "LIVE" -> apply_diff(localBook, wire[1])
                      [] OTHER -> localBook
    /\ UNCHANGED <<update, snapshot, resyncs>>

\* The replay of what was buffered while the snapshot travelled; it stops at the first
\* difference that does not apply.
Replay(b) ==
    LET at[n \in 0..Len(b.buffer)] ==
          IF n = 0 THEN b
          ELSE IF at[n - 1].state # "REPLAYING" THEN at[n - 1]
          ELSE apply_diff(at[n - 1], b.buffer[n])
    IN  at[Len(b.buffer)]

\* load_snapshot: one older than the first buffered difference is asked for again; otherwise
\* the buffer is replayed over it and the book goes live.
Load ==
    /\ localBook.state = "SNAPSHOT_PENDING" /\ snapshot # NoUpdate
    /\ IF localBook.first # NoUpdate /\ snapshot + 1 < localBook.first
       THEN localBook' = localBook /\ snapshot' = update
       ELSE /\ \E seen \in snapshot..update :
                 LET started == [localBook EXCEPT !.state = "REPLAYING", !.last = snapshot,
                                                  !.content = 1..snapshot, !.observed = seen]
                     replayed == Replay(started)
                 IN  localBook' = [replayed EXCEPT !.buffer = <<>>,
                                     !.state = IF @ = "REPLAYING" THEN "LIVE" ELSE @]
            /\ snapshot' = NoUpdate
    /\ UNCHANGED <<update, wire, resyncs>>

\* snapshot_error, L2-005.
SnapshotError ==
    /\ localBook.state = "SNAPSHOT_PENDING" /\ snapshot' = NoUpdate
    /\ localBook' = [localBook EXCEPT !.revoked = TRUE, !.state = "RESYNC_BACKOFF"]
    /\ UNCHANGED <<update, wire, resyncs>>

\* transport_fault, L2-014 and L2-015: what was on the wire is lost with it.
TransportFault ==
    /\ localBook.state \in {"BUFFERING", "SNAPSHOT_PENDING", "LIVE"}
    /\ localBook' = Gap(localBook) /\ wire' = <<>> /\ snapshot' = NoUpdate
    /\ UNCHANGED <<update, resyncs>>

\* begin_backoff, L2-019.
BeginBackoff ==
    /\ localBook.state = "GAP_DETECTED"
    /\ localBook' = [localBook EXCEPT !.state = "RESYNC_BACKOFF"] /\ snapshot' = NoUpdate
    /\ UNCHANGED <<update, wire, resyncs>>

\* backoff_expired, L2-020 and L2-021, and reset, L2-022: a new generation, never the old
\* one, or a block once the budget is spent.
Renew ==
    /\ localBook.state \in {"RESYNC_BACKOFF", "BLOCKED"}
    /\ snapshot' = NoUpdate
    /\ IF resyncs < Resyncs
       THEN resyncs' = resyncs + 1 /\ localBook' = NewGeneration("UNINITIALIZED")
       ELSE /\ localBook.state = "RESYNC_BACKOFF"
            /\ localBook' = Block(localBook) /\ UNCHANGED resyncs
    /\ UNCHANGED <<update, wire>>

BookNext ==
    \/ Emit \/ Open \/ Request \/ DeliverDiff \/ Load
    \/ SnapshotError \/ TransportFault \/ BeginBackoff \/ Renew

BookSpec == BookInit /\ [][BookNext]_bookVars

BookStates == {"UNINITIALIZED", "BUFFERING", "SNAPSHOT_PENDING", "LIVE", "GAP_DETECTED",
               "RESYNC_BACKOFF", "BLOCKED"}
Difference == [first : 1..LastUpdate, final : 1..LastUpdate, seen : 1..LastUpdate]
Generation ==
    [state : BookStates \cup {"REPLAYING"}, first : NoUpdate..LastUpdate,
     last : NoUpdate..LastUpdate, buffer : Seq(Difference), content : SUBSET (1..LastUpdate),
     revoked : BOOLEAN, observed : NoUpdate..LastUpdate]

BookTypeOK ==
    /\ update \in 0..LastUpdate /\ snapshot \in NoUpdate..LastUpdate /\ resyncs \in 0..Resyncs
    /\ wire \in {<<>>} \cup {<<d>> : d \in Difference}
    /\ localBook \in Generation /\ localBook.state \in BookStates
    /\ Len(localBook.buffer) <= MaxBuffer + 1

\* view: only a live book that was not revoked is published.
Published == localBook.state = "LIVE" /\ ~localBook.revoked

\* What is published is the exchange's book at its update, with no update missing, whatever
\* the stream lost and however the snapshot and the buffer overlap.
PublishedBookIsTrue == Published => localBook.content = 1..localBook.last

\* The inductive invariant: so is the content of a live book, and what a book has that is
\* not live yet fits its buffer.
BookInv ==
    /\ BookTypeOK
    /\ localBook.state = "LIVE" => localBook.content = 1..localBook.last
    /\ localBook.state \in {"BUFFERING", "SNAPSHOT_PENDING"} => Len(localBook.buffer) <= MaxBuffer
    /\ localBook.state \in {"LIVE", "UNINITIALIZED"} => localBook.buffer = <<>>

-----------------------------------------------------------------------------
(***************************************************************************)
(* DeliveryGuard: what one evaluation makes of the market events it is     *)
(* given.  The guard classifies each delivery, in the order they came,     *)
(* against what it has seen, the clock, the watermark of its source and    *)
(* the sequence it has reached; the bars and the newest quote that it let  *)
(* through become a frame, which is fit to decide on or blocked.           *)
(*                                                                         *)
(* A bar has a time and no sequence, a quote a sequence and no time: both  *)
(* are their number.  The lateness allowed is none, as in the pipeline.    *)
(***************************************************************************)
CONSTANTS
    Numbers,       \* bars and quotes are numbered
    MinBars,       \* n_sma + 1
    MaxDeliveries  \* bound: events of one evaluation

ASSUME GuardAssumption ==
    Numbers \subseteq Nat \ {0} /\ MinBars \in Nat /\ MaxDeliveries \in Nat

VARIABLES
    seen,       \* _seen: the identities classified, with their payload
    high,       \* _high_water of the quotes
    watermark,  \* _watermarks of the bars
    deliveries  \* the results, in order

guardVars == <<seen, high, watermark, deliveries>>

Kinds == {"bar", "quote"}
BarAges == {"FRESH", "STALE", "CLOCK_FAULT"}
\* Only the first number comes old, early, or with another payload under its identity.
Events == {e \in [kind : Kinds, n : Numbers, payload : {"a", "b"}, age : BarAges] :
             /\ e.n # 1 => e.age = "FRESH" /\ e.payload = "a"
             /\ e.payload = "b" => e.age = "FRESH"}

GuardInit == seen = {} /\ high = 0 /\ watermark = 0 /\ deliveries = <<>>

Identity(e) == [kind |-> e.kind, n |-> e.n]
IsSeen(e) == \E s \in seen : s.is = Identity(e)
See(e) == seen' = seen \cup {[is |-> Identity(e), payload |-> e.payload]}

DeliverBar(e, class, apply) ==
    deliveries' = Append(deliveries, [event |-> e, class |-> class, apply |-> apply])

\* classify, for an identity seen before: the same payload is not applied again, another
\* one raises, and the evaluation ends with it.
Duplicate(e) ==
    /\ IsSeen(e)
    /\ \E s \in seen : s.is = Identity(e) /\ s.payload = e.payload
    /\ DeliverBar(e, "DUPLICATE", FALSE)
    /\ UNCHANGED <<seen, high, watermark>>

\* CLOCK_FAULT: further ahead than the skew budget.  It is not remembered.
FromTheFuture(e) ==
    /\ ~IsSeen(e) /\ e.age = "CLOCK_FAULT"
    /\ DeliverBar(e, "CLOCK_FAULT", FALSE)
    /\ UNCHANGED <<seen, high, watermark>>

\* LATE: a bar below the watermark.
Late(e) ==
    /\ ~IsSeen(e) /\ e.age # "CLOCK_FAULT" /\ e.kind = "bar" /\ e.n < watermark
    /\ See(e) /\ DeliverBar(e, "LATE", FALSE)
    /\ UNCHANGED <<high, watermark>>

\* Mutant: a quote is taken in the order it arrives.
NeverOutOfOrder(e) == e.kind = "quote" /\ e.n < high /\ e.age = "STALE"

\* DO_NOT_ROLL_BACK.
OutOfOrder(e) == e.kind = "quote" /\ e.n < high

OnTime(e) ==
    /\ ~IsSeen(e) /\ e.age # "CLOCK_FAULT" /\ ~(e.kind = "bar" /\ e.n < watermark)
    /\ See(e)
    /\ IF OutOfOrder(e) THEN DeliverBar(e, "OUT_OF_ORDER", FALSE) ELSE DeliverBar(e, "ON_TIME", e.age = "FRESH")
    /\ high' = IF e.kind = "quote" /\ ~OutOfOrder(e) THEN e.n ELSE high
    /\ watermark' = IF e.kind = "bar" THEN e.n ELSE watermark

GuardNext ==
    /\ Len(deliveries) < MaxDeliveries
    /\ \E e \in Events : Duplicate(e) \/ FromTheFuture(e) \/ Late(e) \/ OnTime(e)

GuardSpec == GuardInit /\ [][GuardNext]_guardVars

GuardTypeOK ==
    /\ high \in {0} \cup Numbers /\ watermark \in {0} \cup Numbers
    /\ Len(deliveries) <= MaxDeliveries
    /\ deliveries \in
         Seq([event : Events, apply : BOOLEAN,
              class : {"DUPLICATE", "CLOCK_FAULT", "LATE", "OUT_OF_ORDER", "ON_TIME"}])

-----------------------------------------------------------------------------
\* The frame of the deliveries.

\* _bars: one for every delivery of a closed bar, whatever its class.
BarsAt == {i \in DOMAIN deliveries : deliveries[i].event.kind = "bar"}
BarNumbers == {deliveries[i].event.n : i \in BarsAt}
Contiguous(S) == \A n \in S : (\E m \in S : m > n) => n + 1 \in S

\* The quote of the frame: the last one that was applied.
QuotesAt == {i \in DOMAIN deliveries : deliveries[i].event.kind = "quote"}
AppliedQuotes == {i \in QuotesAt : deliveries[i].apply}
Quote == CHOOSE i \in AppliedQuotes : \A j \in AppliedQuotes : j <= i

\* bar_gap: two bars in a row do not meet, so that a bar delivered twice is a gap.
BarGap == Cardinality(BarsAt) # Cardinality(BarNumbers) \/ ~Contiguous(BarNumbers)
Failures == {i \in DOMAIN deliveries : ~deliveries[i].apply /\ deliveries[i].class # "DUPLICATE"}

\* _frame, and what QualifiedMarketFrame asks of a frame that says it is qualified.
Complete == Cardinality(BarsAt) >= MinBars /\ AppliedQuotes # {} /\ ~BarGap
Qualified == Complete /\ Failures = {}

\* classify_bar: FINAL when the watermark has passed its close.
Final(i) == deliveries[i].apply /\ watermark >= deliveries[i].event.n

\* A frame that is fit to decide on holds each of its bars once, applied, final and next to
\* the one before, and the newest quote that was delivered, however the deliveries were
\* doubled, delayed or reordered.
FrameIsTrue ==
    Qualified =>
      /\ \A i, j \in BarsAt : deliveries[i].event.n = deliveries[j].event.n => i = j
      /\ \A i \in BarsAt : Final(i)
      /\ \A i, j \in BarsAt : \A n \in Numbers :
           deliveries[i].event.n < n /\ n < deliveries[j].event.n => n \in BarNumbers
      /\ \A j \in QuotesAt : deliveries[j].event.n <= deliveries[Quote].event.n

\* The inductive invariant: every identity that was seen was delivered, a repeated delivery
\* had a first one, and what was applied is not above its watermark, the quotes in order.
SameEvent(i, is) == deliveries[i].class # "DUPLICATE" /\ Identity(deliveries[i].event) = is
GuardInv ==
    /\ GuardTypeOK
    /\ \A s \in seen : \E i \in DOMAIN deliveries : SameEvent(i, s.is)
    /\ \A i \in DOMAIN deliveries :
         /\ deliveries[i].class = "DUPLICATE" =>
              /\ deliveries[i].apply = FALSE
              /\ \E k \in DOMAIN deliveries : SameEvent(k, Identity(deliveries[i].event))
         /\ deliveries[i].apply =>
              IF deliveries[i].event.kind = "bar" THEN deliveries[i].event.n <= watermark
              ELSE deliveries[i].event.n <= high
    /\ \A i, j \in AppliedQuotes : i < j => deliveries[i].event.n <= deliveries[j].event.n
=============================================================================
