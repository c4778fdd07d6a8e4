---------------------------- MODULE KlineDataset ----------------------------
(***************************************************************************)
(* PublicKlineBackfill and HistoricalDataset: pages of closed bars read    *)
(* from the venue while its clock goes on, then frozen in two files, the   *)
(* rows and a manifest with their hash, written one after the other.       *)
(*                                                                         *)
(* A bar is its opening time in intervals; the bar of interval t closes at *)
(* t + 1.  The venue may have holes.  A row carries the closing price it   *)
(* had when it was read, "final" or "forming".  The end of a download is   *)
(* config.end, which nothing checks, or the host's clock, which may be     *)
(* ahead of the venue's: a bar that is still forming is then a row.        *)
(***************************************************************************)
EXTENDS Integers, Sequences, FiniteSets, FiniteSetsExt, Selection

CONSTANTS
    LastBar,      \* bound: the last interval modelled
    PageSize,     \* request_limit
    MaxRequests,  \* max_requests
    MaxTries      \* max_retries

ASSUME DatasetAssumption ==
    LastBar \in Nat /\ PageSize \in Nat \ {0} /\ MaxRequests \in Nat /\ MaxTries \in Nat \ {0}

VARIABLES
    bars,     \* intervals the venue has a bar for (external)
    time,     \* the interval that is forming (external)
    start, end,  \* config.start, and config.end or the host's clock
    begun,    \* history: the interval that was forming when the download began
    cursor, tries, requests, seenLast,
    page,     \* rows of the answer under way
    rows,     \* rows yielded so far
    job,      \* "paging", "rows", "ended", "failed", "writing", "half", "done"
    data, manifest  \* the two files

datasetVars == <<bars, time, start, end, begun, cursor, tries, requests, seenLast, page, rows, job,
                 data, manifest>>

NoFile == <<>>
NoManifest == [hash |-> NoFile, count |-> 0, gaps |-> {}]
NoTime == -1
State(t) == IF t < time THEN "final" ELSE "forming"

\* What the venue answers: the first bars that open at or after the cursor.
Page(from) ==
    LET there == {t \in bars : t >= from /\ t <= time}
        first == {t \in there : Cardinality({u \in there : u < t}) < PageSize}
        opens == Kept([i \in 1..(time + 1) |-> i - 1], first)
    IN  [i \in DOMAIN opens |-> [open |-> opens[i], state |-> State(opens[i])]]

DatasetInit ==
    /\ bars \in SUBSET (0..LastBar)
    /\ time \in 1..LastBar /\ end \in 1..(LastBar + 1) /\ start \in 0..1 /\ begun = time
    /\ cursor = start /\ tries = 0 /\ requests = 0 /\ seenLast = NoTime
    /\ page = <<>> /\ rows = <<>> /\ job = "paging"
    /\ data = NoFile /\ manifest = NoManifest

TimePasses ==
    /\ time < LastBar /\ time' = time + 1
    /\ UNCHANGED <<bars, start, end, begun, cursor, tries, requests, seenLast, page, rows, job, data, manifest>>

\* iter_closed_klines: the cursor has reached the end, or the requests are used up.
Finish ==
    /\ job = "paging" /\ (cursor >= end \/ requests = MaxRequests)
    /\ job' = "ended"
    /\ UNCHANGED <<bars, time, start, end, begun, cursor, tries, requests, seenLast, page, rows, data, manifest>>

\* _request: an answer; an empty one ends the iteration.
Fetched ==
    /\ job = "paging" /\ cursor < end /\ requests < MaxRequests
    /\ requests' = requests + 1 /\ tries' = 0
    /\ page' = Page(cursor)
    /\ job' = IF page' = <<>> THEN "ended" ELSE "rows"
    /\ UNCHANGED <<bars, time, start, end, begun, cursor, seenLast, rows, data, manifest>>

\* Mutant: the last failure counts as an answer without rows.
FailedQuietly ==
    /\ job = "paging" /\ cursor < end /\ requests < MaxRequests
    /\ \/ tries + 1 < MaxTries /\ tries' = tries + 1 /\ UNCHANGED job
       \/ job' = "ended" /\ UNCHANGED tries
    /\ UNCHANGED <<bars, time, start, end, begun, cursor, requests, seenLast, page, rows, data, manifest>>

\* _request: 418, 429, URLError and TimeoutError are tried again, a bounded number of
\* times; after that, and for any other HTTP status, the error leaves the iteration.
Failed ==
    /\ job = "paging" /\ cursor < end /\ requests < MaxRequests
    /\ \/ tries + 1 < MaxTries /\ tries' = tries + 1 /\ UNCHANGED job
       \/ job' = "failed" /\ UNCHANGED tries
    /\ UNCHANGED <<bars, time, start, end, begun, cursor, requests, seenLast, page, rows, data, manifest>>

\* The rows of a page that closed before the end and are newer than the last one.
Closed(r) == r.open + 1 <= end
Taken(p, last) == Kept(p, {r \in Range(p) : Closed(r) /\ r.open > last})

Yielded ==
    /\ job = "rows"
    /\ LET new == Taken(page, seenLast)
           last == IF new = <<>> THEN seenLast ELSE new[Len(new)].open
           next == IF last # NoTime THEN last + 1 ELSE cursor + 1
       IN  /\ rows' = rows \o new
           /\ seenLast' = last
           /\ IF new = <<>> \/ next <= cursor
              THEN job' = "ended" /\ UNCHANGED cursor
              ELSE job' = "paging" /\ cursor' = next
    /\ page' = <<>>
    /\ UNCHANGED <<bars, time, start, end, begun, tries, requests, data, manifest>>

\* write: nothing to freeze is an error; so are rows that repeat.
Accepts(rs) == rs # <<>> /\ Cardinality({rs[i].open : i \in DOMAIN rs}) = Len(rs)

\* The holes the manifest lists: after which opening, and how many bars are missing.
Gaps(rs) ==
    {[after |-> rs[i - 1].open, missing |-> rs[i].open - rs[i - 1].open - 1] :
        i \in {j \in DOMAIN rs : j > 1 /\ rs[j].open - rs[j - 1].open # 1}}

WriteData ==
    /\ job = "ended"
    /\ IF Accepts(rows) THEN job' = "half" /\ data' = rows
       ELSE job' = "failed" /\ UNCHANGED data
    /\ UNCHANGED <<bars, time, start, end, begun, cursor, tries, requests, seenLast, page, rows, manifest>>

WriteManifest ==
    /\ job = "half"
    /\ job' = "done"
    /\ manifest' = [hash |-> data, count |-> Len(data), gaps |-> Gaps(data)]
    /\ UNCHANGED <<bars, time, start, end, begun, cursor, tries, requests, seenLast, page, rows, data>>

\* The program is stopped while it writes the rows, which are not written in one piece,
\* or between the two files.
Killed ==
    /\ \/ job = "half" /\ UNCHANGED data
       \/ job = "ended" /\ Accepts(rows) /\ \E n \in 1..Len(rows) : data' = SubSeq(rows, 1, n)
    /\ job' = "failed"
    /\ UNCHANGED <<bars, time, start, end, begun, cursor, tries, requests, seenLast, page, rows, manifest>>

\* Another backfill into the same directory.
Again ==
    /\ job \in {"done", "failed"}
    /\ end' \in 1..(LastBar + 1) /\ start' \in 0..1 /\ begun' = time /\ cursor' = start' /\ tries' = 0 /\ requests' = 0 /\ seenLast' = NoTime
    /\ rows' = <<>> /\ page' = <<>> /\ job' = "paging"
    /\ UNCHANGED <<bars, time, data, manifest>>

DatasetNext ==
    \/ TimePasses \/ Finish \/ Fetched \/ Failed \/ Yielded
    \/ WriteData \/ WriteManifest \/ Killed \/ Again

DatasetSpec == DatasetInit /\ [][DatasetNext]_datasetVars

\* load accepts the two files together.
Loads ==
    /\ manifest # NoManifest /\ data # NoFile
    /\ manifest.hash = data /\ manifest.count = Len(data)

-----------------------------------------------------------------------------

Row == [open : 0..LastBar, state : {"final", "forming"}]

DatasetTypeOK ==
    /\ bars \subseteq 0..LastBar /\ time \in 1..LastBar /\ end \in 1..(LastBar + 1) /\ start \in 0..1 /\ begun \in 1..time
    /\ job \in {"paging", "rows", "ended", "failed", "half", "done"}
    /\ cursor \in 0..(LastBar + 1) /\ seenLast \in NoTime..LastBar
    /\ tries \in 0..(MaxTries - 1) /\ requests \in 0..MaxRequests
    /\ {rows, page, data} \subseteq Seq(Row)

\* A bar enters the history once and in order, however the pages overlap and whatever
\* closes while they are read; and one that had closed when the download began is final.
\* A row is forming only if the end lay ahead of the venue's clock.
OnlyFinalBars ==
    \A i \in DOMAIN rows :
        /\ i > 1 => rows[i - 1].open < rows[i].open
        /\ rows[i].state = "forming" => begun <= rows[i].open /\ rows[i].open < end

\* An iteration that ends without an error and within its requests has every bar of the
\* period that the venue had when it began, and no other bar than the venue's: retries and
\* holes cost no row.
Period == {t \in bars : start <= t /\ t < end}
NothingSkipped ==
    (job \in {"ended", "half", "done"} /\ requests < MaxRequests) =>
        LET opens == {rows[i].open : i \in DOMAIN rows}
        IN  opens \subseteq Period /\ {t \in Period : t <= begun} \subseteq opens

\* A dataset that loads is one that was frozen as a whole, and its manifest accounts for
\* every interval between its first and its last row once: there, or in one gap.
Missing(g) == (g.after + 1)..(g.after + g.missing)
LoadedIsWhole ==
    Loads =>
      LET opens == {data[i].open : i \in DOMAIN data}
      IN  /\ manifest.gaps = Gaps(data)
          /\ \A t \in Min(opens)..Max(opens) :
               t \in opens <=> ~ \E g \in manifest.gaps : t \in Missing(g)
          /\ \A g \in manifest.gaps :
               /\ Missing(g) # {} /\ Missing(g) \subseteq Min(opens)..Max(opens)
               /\ \A h \in manifest.gaps : Missing(g) \cap Missing(h) # {} => g = h

\* The inductive invariant: rows and pages are in order and hold every bar before the
\* cursor, and after it as far as the page goes; a manifest is of rows in order.
Ordered(rs) == \A i, j \in 1..Len(rs) : i < j => rs[i].open < rs[j].open
OpensOf(rs) == {rs[i].open : i \in 1..Len(rs)}

\* A row or a row of a page is final, or of an interval that was over neither then nor when
\* the download began.
Honest(r) == r.state = "final" \/ begun <= r.open

RowsInv ==
    /\ Ordered(rows) /\ \A i \in 1..Len(rows) : Honest(rows[i])
    /\ \A i \in 1..Len(rows) : rows[i].open <= seenLast /\ rows[i].open < end
    /\ cursor = IF seenLast = NoTime THEN start ELSE seenLast + 1
    /\ seenLast = NoTime => rows = <<>>
    /\ job \in {"paging", "rows"} =>
         /\ start <= cursor /\ cursor <= end
         /\ OpensOf(rows) = {t \in bars : start <= t /\ t < cursor}

PageInv ==
    job = "rows" =>
      /\ Ordered(page) /\ page # <<>>
      /\ \A i \in 1..Len(page) :
           page[i].open \in bars /\ cursor <= page[i].open /\ Honest(page[i])
      /\ \A t \in bars : cursor <= t /\ t < end =>
           t \in OpensOf(page) \/ \A u \in OpensOf(page) : u < t

FilesInv ==
    /\ Ordered(data)
    /\ manifest = NoManifest \/
         manifest = [hash |-> manifest.hash, count |-> Len(manifest.hash),
                     gaps |-> Gaps(manifest.hash)]

DatasetInv ==
    /\ DatasetTypeOK /\ RowsInv /\ PageInv /\ FilesInv /\ NothingSkipped

\* "Yield only closed 1h klines strictly before now" (backfill.py:102): a clock ahead of the
\* venue's, or a config.end in the future, lets the bar that is forming through.
ClosedBarsOnly == \A i \in DOMAIN rows : rows[i].state = "final"
=============================================================================
