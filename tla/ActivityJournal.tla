-------------------------- MODULE ActivityJournal ---------------------------
(***************************************************************************)
(* ActivityJournal: one JSON object per line, appended, flushed and fsynced *)
(* by the runner, read by the recovery of the engine, the dashboard and    *)
(* the daily summary.  A crash can leave any prefix of the line that was   *)
(* being written; the next append goes on from there.                      *)
(*                                                                         *)
(* A line is the entries whose text it holds and whether it parses.  "ends" *)
(* is false for the last line while its newline is missing.                *)
(***************************************************************************)
EXTENDS Naturals, Sequences

CONSTANT MaxEntries   \* bound: how many entries are written

ASSUME JournalAssumption == MaxEntries \in Nat

VARIABLES
    lines,    \* the file: a sequence of [entries, parses, ends]
    written,  \* entries handed to append so far
    durable,  \* entries whose append returned
    view      \* what the last read gave: a sequence, or Raised

journalVars == <<lines, written, durable, view>>

Raised == <<0>>
Start == [entries |-> <<>>, parses |-> FALSE, ends |-> FALSE]

JournalInit == lines = <<>> /\ written = 0 /\ durable = {} /\ view = <<>>

\* The text of entry e, or a beginning of it, goes where the file ends.  An object after
\* anything else on its line does not parse.
Open == IF lines = <<>> \/ lines[Len(lines)].ends THEN Append(lines, Start) ELSE lines
Write(e, whole, newline) ==
    LET n == Len(Open)
        alone == Open[n] = Start
    IN  [Open EXCEPT ![n] = [entries |-> Append(@.entries, e),
                             parses |-> alone /\ whole, ends |-> newline]]

\* append.
AppendEntry ==
    /\ written < MaxEntries
    /\ written' = written + 1
    /\ lines' = Write(written', TRUE, TRUE)
    /\ durable' = durable \cup {written'}
    /\ UNCHANGED view

\* The process or the machine stops inside append: a part of the object is there, all of
\* it without the newline, or the line although append never returned.
CrashInAppend ==
    /\ written < MaxEntries
    /\ written' = written + 1
    /\ \E whole \in BOOLEAN, newline \in BOOLEAN :
         /\ newline => whole
         /\ lines' = Write(written', whole, newline)
    /\ UNCHANGED <<durable, view>>

\* read: the last limit lines.  A last line that does not parse is left out; any other
\* one raises.
Read(limit) ==
    LET first == IF limit < Len(lines) THEN Len(lines) - limit + 1 ELSE 1
        tail == SubSeq(lines, first, Len(lines))
        bad == {i \in DOMAIN tail : ~tail[i].parses}
    IN  IF bad = {} THEN [i \in 1..Len(tail) |-> tail[i].entries[1]]
        ELSE IF bad = {Len(tail)} THEN [i \in 1..(Len(tail) - 1) |-> tail[i].entries[1]]
        ELSE Raised

ReadJournal ==
    /\ \E limit \in 1..MaxEntries : view' = Read(limit)
    /\ UNCHANGED <<lines, written, durable>>

JournalNext == AppendEntry \/ CrashInAppend \/ ReadJournal
JournalSpec == JournalInit /\ [][JournalNext]_journalVars

-----------------------------------------------------------------------------

JournalTypeOK ==
    /\ written \in 0..MaxEntries /\ durable \subseteq 1..written
    /\ \A i \in DOMAIN lines :
         lines[i].parses \in BOOLEAN /\ (i < Len(lines) => lines[i].ends)

\* A reader sees the run of entries it asked for, in order and each one once: through any
\* number of crashes it never gets a history with an entry missing from the middle.
NoHoleInHistory ==
    view # Raised => \A i \in DOMAIN view : i > 1 => view[i] = view[i - 1] + 1

\* "A crash may leave only the final append incomplete" (journal.py:119): whatever came
\* before is there, so that a read of the whole file returns every entry whose append
\* returned.
OnlyTheFinalAppend ==
    LET all == Read(Len(lines) + 1)
    IN  all # Raised /\ durable \subseteq {all[i] : i \in DOMAIN all}

\* What a line holds, for the inductive invariant.
Line == [entries : Seq(Nat), parses : BOOLEAN, ends : BOOLEAN]

\* The entry after the last one on line i.
After(i) == lines[i].entries[1] + Len(lines[i].entries)

\* The lines hold all the entries in order, a line that parses holds one, and only the last
\* line may lack its newline.
LinesInOrder ==
    /\ \A i \in DOMAIN lines :
         /\ lines[i].entries # <<>>
         /\ lines[i].parses => Len(lines[i].entries) = 1
         /\ i > 1 => lines[i].entries[1] = After(i - 1)
    /\ lines # <<>> => After(Len(lines)) = written + 1

\* The inductive invariant.
JournalInv == JournalTypeOK /\ lines \in Seq(Line) /\ LinesInOrder /\ NoHoleInHistory
=============================================================================
