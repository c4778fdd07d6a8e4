---------------------------- MODULE RecordsProofs ----------------------------
(***************************************************************************)
(* What the process writes down is true, for every value of the constants: *)
(* any prices, cadences, horizons and limits, any number of crashes,       *)
(* restarts, reboots, entries, rows and saves.                             *)
(*                                                                         *)
(* Each part has its inductive invariant, kept in its own module and       *)
(* checked by TLC with RecordsInv, and one lemma for every hard step; the  *)
(* last section says that the composed system is each of its parts and     *)
(* proves what MCRecords checks.                                           *)
(***************************************************************************)
EXTENDS MCRecords, TLAPS

-----------------------------------------------------------------------------
\* Handover: one order authority.

\* The handover begins with the quantitative agent in charge.
LEMMA HandoverInitially == HandoverInit => HandoverInv
  BY DEF HandoverInit, HandoverInv, HandoverTypeOK, Modes, Entries

\* No step of the script, no crash, no restart and no reboot leaves who may trade open.
LEMMA HandoverStep == HandoverInv /\ [HandoverNext]_handoverVars => HandoverInv'
  <1> SUFFICES ASSUME HandoverInv, [HandoverNext]_handoverVars PROVE HandoverInv'
    OBVIOUS
  <1> USE DEF HandoverInv, HandoverTypeOK, GoTo, Modes, Entries
  <1>1. CASE Gate
    BY <1>1 DEF Gate
  <1>2. CASE Account
    BY <1>2 DEF Account
  <1>3. CASE StopQuant
    BY <1>3 DEF StopQuant
  <1>4. CASE Inherit
    BY <1>4 DEF Inherit
  <1>5. CASE Edit
    BY <1>5 DEF Edit
  <1>6. CASE Revert
    BY <1>6 DEF Revert
  <1>7. CASE Reload
    BY <1>7 DEF Reload
  <1>8. CASE Verify
    BY <1>8 DEF Verify
  <1>9. CASE Return
    BY <1>9 DEF Return
  <1>10. CASE LLMStarts
    <2>1. (unit.loaded = "armed") \in BOOLEAN /\ Loaded(files.llm) \in Entries
      BY DEF Loaded
    <2>2. /\ llm' \in [up : BOOLEAN, enabled : BOOLEAN, armed : BOOLEAN, entry : Entries]
          /\ files' \in [quant : Entries, llm : Entries]
      BY <1>10, <2>1, Zenon DEF LLMStarts
    <2>3. /\ llm'.armed = (unit.loaded = "armed") /\ llm'.enabled = llm.enabled
      BY <1>10, Zenon DEF LLMStarts
    <2>4. UNCHANGED <<step, report, pending, quant, unit, hit>> /\ llm.enabled
      BY <1>10, Zenon DEF LLMStarts
    <2> QED
      BY <2>2, <2>3, <2>4
  <1>11. CASE LLMSaves
    BY <1>11 DEF LLMSaves
  <1>12. CASE LLMDies
    <2>1. llm' \in [up : BOOLEAN, enabled : BOOLEAN, armed : BOOLEAN, entry : Entries]
      BY <1>12, Zenon DEF LLMDies
    <2>2. llm'.up = FALSE /\ llm'.armed = llm.armed /\ llm'.enabled = llm.enabled
      BY <1>12, Zenon DEF LLMDies
    <2>3. UNCHANGED <<step, report, pending, quant, unit, files, hit>>
      BY <1>12, Zenon DEF LLMDies
    <2> QED
      BY <2>1, <2>2, <2>3
  <1>13. CASE Restarted
    <2>1. (unit.loaded = "armed") \in BOOLEAN /\ Loaded(files.llm) \in Entries
      BY DEF Loaded
    <2>2. /\ llm' \in [up : BOOLEAN, enabled : BOOLEAN, armed : BOOLEAN, entry : Entries]
          /\ files' \in [quant : Entries, llm : Entries]
      BY <1>13, <2>1, Zenon DEF Restarted
    <2>3. /\ llm'.armed = (unit.loaded = "armed") /\ llm'.enabled = llm.enabled
      BY <1>13, Zenon DEF Restarted
    <2>4. UNCHANGED <<report, pending, quant, unit, hit>> /\ step = "stopping" /\ step' = "verify"
      BY <1>13, Zenon DEF Restarted
    <2> QED
      BY <2>2, <2>3, <2>4
  <1>14. CASE QuantDies
    <2>1. quant' \in [up : BOOLEAN, enabled : BOOLEAN]
      BY <1>14, Zenon DEF QuantDies
    <2>2. quant'.up = FALSE /\ quant'.enabled = quant.enabled
      BY <1>14, Zenon DEF QuantDies
    <2>3. UNCHANGED <<step, report, pending, llm, unit, files, hit>>
      BY <1>14, Zenon DEF QuantDies
    <2> QED
      BY <2>1, <2>2, <2>3
  <1>15. CASE QuantStarts
    <2>1. quant' \in [up : BOOLEAN, enabled : BOOLEAN] /\ files' \in [quant : Entries, llm : Entries]
      <3>1. Loaded(files.quant) \in Entries
        BY DEF Loaded
      <3> QED
        BY <1>15, <3>1, Zenon DEF QuantStarts
    <2>2. quant.enabled /\ quant'.enabled = quant.enabled
      BY <1>15, Zenon DEF QuantStarts
    <2>3. UNCHANGED <<step, report, pending, llm, unit, hit>>
      BY <1>15, Zenon DEF QuantStarts
    <2> QED
      BY <2>1, <2>2, <2>3
  <1>16. CASE Interrupted
    BY <1>16 DEF Interrupted
  <1>17. CASE Reboot
    <2>1. /\ quant' \in [up : BOOLEAN, enabled : BOOLEAN]
          /\ llm' \in [up : BOOLEAN, enabled : BOOLEAN, armed : BOOLEAN, entry : Entries]
      BY <1>17, Zenon DEF Reboot
    <2>2. /\ quant'.up = quant.enabled /\ quant'.enabled = quant.enabled
          /\ llm'.up = FALSE /\ llm'.armed = llm.armed /\ llm'.enabled = llm.enabled
      BY <1>17, Zenon DEF Reboot
    <2>3. unit' \in [disk : Modes, loaded : Modes] /\ unit'.loaded = unit.disk /\ unit'.disk = unit.disk
      BY <1>17 DEF Reboot
    <2>4. /\ step' = (IF step \in {"done", "returned", "reverted", "refused", "unverified"}
                     THEN step ELSE "interrupted")
          /\ UNCHANGED <<report, pending, files, hit>>
      BY <1>17, Zenon DEF Reboot
    <2> QED
      BY <2>1, <2>2, <2>3, <2>4
  <1>18. CASE UNCHANGED handoverVars
    BY <1>18 DEF handoverVars
  <1> QED
    BY <1>1, <1>2, <1>3, <1>4, <1>5, <1>6, <1>7, <1>8, <1>9, <1>10, <1>11, <1>12, <1>13, <1>14,
       <1>15, <1>16, <1>17, <1>18 DEF HandoverNext, Script, Services

\* Then there is one order authority at most.
LEMMA HandoverSafe == HandoverInv => OneAuthority
  BY DEF HandoverInv, HandoverTypeOK, OneAuthority, Authorities

-----------------------------------------------------------------------------
\* ActivityJournal: no hole in what a read returns.

\* An empty file is in order.
LEMMA JournalInitially == JournalInit => JournalInv
  <1> SUFFICES ASSUME JournalInit PROVE JournalInv
    OBVIOUS
  <1>1. lines = <<>> /\ DOMAIN lines = {} /\ lines \in Seq(Line)
    BY DEF JournalInit
  <1>2. view = <<>> /\ DOMAIN view = {}
    BY DEF JournalInit
  <1>3. written = 0 /\ durable = {}
    BY DEF JournalInit
  <1> QED
    BY <1>1, <1>2, <1>3, JournalAssumption
    DEF JournalInv, JournalTypeOK, LinesInOrder, NoHoleInHistory

\* What the inductive invariant says of one line.
LineIsTrue(s, i) ==
    /\ s[i] \in Line /\ s[i].entries # <<>>
    /\ s[i].parses => Len(s[i].entries) = 1
    /\ i > 1 => s[i].entries[1] = s[i - 1].entries[1] + Len(s[i - 1].entries)
    /\ i < Len(s) => s[i].ends

\* A file in order is one whose lines are each true.
LEMMA LinesAreTrue ==
    ASSUME lines \in Seq(Line)
    PROVE  (/\ LinesInOrder
            /\ \A i \in DOMAIN lines :
                 lines[i].parses \in BOOLEAN /\ (i < Len(lines) => lines[i].ends))
           <=> /\ \A i \in 1..Len(lines) : LineIsTrue(lines, i)
               /\ lines # <<>> => lines[Len(lines)].entries[1] + Len(lines[Len(lines)].entries)
                                    = written + 1
  <1>1. DOMAIN lines = 1..Len(lines) /\ \A i \in 1..Len(lines) : lines[i] \in Line
    OBVIOUS
  <1>2. \A l \in Line : l.parses \in BOOLEAN
    BY DEF Line
  <1> QED
    BY <1>1, <1>2 DEF LinesInOrder, LineIsTrue, After

\* What a write adds: a line of its own where the last one ended, or text that spoils it.
LEMMA WriteAdds ==
    ASSUME lines \in Seq(Line), LinesInOrder,
           NEW e, NEW whole \in BOOLEAN, NEW newline \in BOOLEAN
    PROVE  Write(e, whole, newline) =
             IF lines = <<>> \/ lines[Len(lines)].ends
             THEN Append(lines, [entries |-> <<e>>, parses |-> whole, ends |-> newline])
             ELSE [lines EXCEPT ![Len(lines)] =
                     [entries |-> Append(lines[Len(lines)].entries, e), parses |-> FALSE,
                      ends |-> newline]]
  <1>1. CASE lines = <<>> \/ lines[Len(lines)].ends
    <2>1. Open = Append(lines, Start)
      BY <1>1 DEF Open
    <2>2. Len(Append(lines, Start)) = Len(lines) + 1 /\ Append(lines, Start)[Len(lines) + 1] = Start
      <3>1. Start \in Line
        BY DEF Start, Line
      <3> QED
        BY <3>1, AppendProperties
    <2> DEFINE fresh == [entries |-> <<e>>, parses |-> whole, ends |-> newline]
    <2>3. Write(e, whole, newline) = [Open EXCEPT ![Len(Open)] = fresh]
      <3>1. Open[Len(Open)] = Start
        BY <2>1, <2>2
      <3>2. Append(Start.entries, e) = <<e>>
        BY DEF Start
      <3> QED
        BY <3>1, <3>2, Zenon DEF Write
    <2> DEFINE AnyLine == Line \cup {fresh, Start}
    <2> HIDE DEF fresh
    <2>4. [Append(lines, Start) EXCEPT ![Len(lines) + 1] = fresh] = Append(lines, fresh)
      <3>1. fresh \in AnyLine /\ Start \in AnyLine /\ lines \in Seq(AnyLine)
        <4>1. fresh \in AnyLine /\ Start \in AnyLine /\ Line \subseteq AnyLine
          OBVIOUS
        <4> QED
          BY <4>1, SeqMonotonic
      <3> HIDE DEF AnyLine
      <3> QED
        BY <3>1, AppendedAnew
    <2>5. Write(e, whole, newline) = Append(lines, fresh)
      BY <2>1, <2>2, <2>3, <2>4
    <2> QED
      BY <1>1, <2>5, Zenon DEF fresh
  <1>2. CASE ~(lines = <<>> \/ lines[Len(lines)].ends)
    <2>1. Open = lines
      BY <1>2 DEF Open
    <2>2. Len(lines) \in DOMAIN lines
      BY <1>2
    <2>3. lines[Len(lines)].entries # <<>>
      BY <2>2, Zenon DEF LinesInOrder
    <2>4. lines[Len(lines)] # Start
      BY <2>3 DEF Start
    <2> QED
      BY <1>2, <2>1, <2>4 DEF Write
  <1> QED
    BY <1>1, <1>2

\* A write, whole or torn, leaves the lines in order.
LEMMA WriteKeepsOrder ==
    ASSUME JournalInv, written' = written + 1, written \in Nat,
           NEW whole \in BOOLEAN, NEW newline \in BOOLEAN,
           lines' = Write(written', whole, newline)
    PROVE  /\ lines' \in Seq(Line) /\ LinesInOrder'
           /\ \A i \in DOMAIN lines' :
                lines'[i].parses \in BOOLEAN /\ (i < Len(lines') => lines'[i].ends)
  <1> DEFINE n == Len(lines)
  <1>1. lines \in Seq(Line) /\ n \in Nat /\ LinesInOrder
    BY DEF JournalInv
  <1>2. /\ \A i \in 1..n : LineIsTrue(lines, i)
        /\ lines # <<>> => lines[n].entries[1] + Len(lines[n].entries) = written + 1
    BY <1>1, LinesAreTrue DEF JournalInv, JournalTypeOK
  <1>3. \A l \in Line : l.entries \in Seq(Nat) /\ l.parses \in BOOLEAN /\ l.ends \in BOOLEAN
    BY DEF Line
  <1>4. lines' \in Seq(Line) /\ (\A i \in 1..Len(lines') : LineIsTrue(lines', i)) /\ lines' # <<>>
        /\ lines'[Len(lines')].entries[1] + Len(lines'[Len(lines')].entries) = written' + 1
    <2>1. CASE lines = <<>> \/ lines[n].ends
      <3> DEFINE new == [entries |-> <<written'>>, parses |-> whole, ends |-> newline]
      <3>1. lines' = Append(lines, new)
        BY <1>1, <2>1, WriteAdds, Zenon
      <3>2. new \in Line /\ new.entries # <<>> /\ Len(new.entries) = 1 /\ new.entries[1] = written'
        BY DEF Line
      <3> HIDE DEF new
      <3>3. /\ lines' \in Seq(Line) /\ Len(lines') = n + 1 /\ lines'[n + 1] = new /\ lines' # <<>>
            /\ \A i \in 1..n : lines'[i] = lines[i]
        BY <1>1, <3>1, <3>2, AppendProperties
      <3>4. ASSUME NEW i \in 1..(n + 1) PROVE LineIsTrue(lines', i)
        <4>1. CASE i = n + 1
          <5>1. n # 0 => lines'[n] = lines[n] /\ lines # <<>>
            BY <1>1, <3>3
          <5> QED
            BY <1>1, <1>2, <3>2, <3>3, <4>1, <5>1 DEF LineIsTrue
        <4>2. CASE i # n + 1
          <5>1. i \in 1..n /\ lines'[i] = lines[i] /\ (i > 1 => lines'[i - 1] = lines[i - 1])
            BY <1>1, <3>3, <4>2
          <5>2. i = n => lines[i].ends
            BY <2>1, <5>1
          <5> QED
            BY <1>1, <1>2, <3>3, <5>1, <5>2, SMTT(20) DEF LineIsTrue
        <4> QED
          BY <4>1, <4>2
      <3> QED
        BY <3>2, <3>3, <3>4
    <2>2. CASE ~(lines = <<>> \/ lines[n].ends)
      <3> DEFINE new == [entries |-> Append(lines[n].entries, written'), parses |-> FALSE,
                         ends |-> newline]
      <3>1. lines' = [lines EXCEPT ![n] = new]
        BY <1>1, <2>2, WriteAdds, Zenon
      <3>2. n \in 1..n /\ lines # <<>> /\ lines[n] \in Line /\ lines[n].entries # <<>>
        BY <1>1, <1>2, <2>2 DEF LineIsTrue
      <3>3. /\ Append(lines[n].entries, written') \in Seq(Nat) \ {<<>>}
            /\ Append(lines[n].entries, written')[1] = lines[n].entries[1]
            /\ Len(Append(lines[n].entries, written')) = Len(lines[n].entries) + 1
            /\ lines[n].entries[1] \in Nat /\ Len(lines[n].entries) \in Nat
        BY <1>3, <3>2, AppendProperties
      <3>4. /\ new \in Line /\ new.parses = FALSE /\ new.entries # <<>>
            /\ new.entries[1] = lines[n].entries[1]
            /\ Len(new.entries) = Len(lines[n].entries) + 1
        BY <3>3 DEF Line
      <3> HIDE DEF new
      <3>5. /\ lines' \in Seq(Line) /\ Len(lines') = n /\ lines'[n] = new /\ lines' # <<>>
            /\ \A i \in 1..n : i # n => lines'[i] = lines[i]
        BY <1>1, <3>1, <3>2, <3>4, ExceptSeq
      <3>6. ASSUME NEW i \in 1..n PROVE LineIsTrue(lines', i)
        <4>1. LineIsTrue(lines, i) /\ (i > 1 => i - 1 # n /\ lines'[i - 1] = lines[i - 1])
          BY <1>1, <1>2, <3>5
        <4>2. CASE i = n
          BY <1>1, <3>4, <3>5, <4>1, <4>2 DEF LineIsTrue
        <4>3. CASE i # n
          BY <1>1, <3>5, <4>1, <4>3 DEF LineIsTrue
        <4> QED
          BY <4>2, <4>3
      <3>7. new.entries[1] + Len(new.entries) = written' + 1
        <4>1. lines[n].entries[1] + Len(lines[n].entries) = written + 1
          BY <1>2, <3>2
        <4>2. lines[n].entries[1] \in Nat /\ Len(lines[n].entries) \in Nat
          BY <3>3
        <4> QED
          BY <3>4, <4>1, <4>2
      <3>8. \A i \in 1..Len(lines') : LineIsTrue(lines', i)
        BY <3>5, <3>6, Zenon
      <3> QED
        BY <3>5, <3>7, <3>8, Zenon
    <2> QED
      BY <2>1, <2>2
  <1>5. DOMAIN lines' = 1..Len(lines')
    BY <1>4
  <1> QED
    BY <1>3, <1>4, <1>5 DEF LinesInOrder, LineIsTrue, After

\* Every line a read keeps parses, so what it returns is a run of entries.
LEMMA ReadHasNoHole ==
    ASSUME JournalInv, NEW limit \in Nat \ {0}, Read(limit) # Raised
    PROVE  \A i \in DOMAIN Read(limit) : i > 1 => Read(limit)[i] = Read(limit)[i - 1] + 1
  <1> DEFINE first == IF limit < Len(lines) THEN Len(lines) - limit + 1 ELSE 1
             tail == SubSeq(lines, first, Len(lines))
             bad == {i \in DOMAIN tail : ~tail[i].parses}
             kept == IF bad = {} THEN Len(tail) ELSE Len(tail) - 1
  <1>1. lines \in Seq(Line) /\ Len(lines) \in Nat /\ first \in 1..(Len(lines) + 1)
    BY DEF JournalInv
  <1>2. /\ Len(tail) = Len(lines) - first + 1
        /\ \A i \in 1..(Len(lines) - first + 1) : tail[i] = lines[first + i - 1]
        /\ DOMAIN tail = 1..(Len(lines) - first + 1)
    <2>1. Len(lines) \in (first - 1)..Len(lines)
      BY <1>1
    <2> HIDE DEF first
    <2> QED
      BY <1>1, <2>1, SubSeqProperties
  <1> HIDE DEF first, tail
  <1>3. bad = {} \/ bad = {Len(tail)}
    BY DEF Read, first, tail
  <1>4. Read(limit) = [i \in 1..kept |-> tail[i].entries[1]]
    BY <1>3 DEF Read, first, tail
  <1>5. kept \in Int /\ kept <= Len(lines) - first + 1 /\ \A i \in 1..kept : tail[i].parses
    BY <1>1, <1>2, <1>3
  <1>6. ASSUME NEW i \in 1..kept, i > 1
        PROVE  tail[i].entries[1] = tail[i - 1].entries[1] + 1
    <2>1. tail[i] = lines[first + i - 1] /\ tail[i - 1] = lines[first + i - 2]
      BY <1>1, <1>2, <1>5, <1>6
    <2>2. first + i - 1 \in DOMAIN lines /\ first + i - 2 \in DOMAIN lines /\ first + i - 1 > 1
      BY <1>1, <1>5, <1>6
    <2>3. tail[i - 1].parses
      BY <1>5, <1>6
    <2>4. Len(lines[first + i - 2].entries) = 1
      BY <2>1, <2>2, <2>3 DEF JournalInv, LinesInOrder
    <2>5. lines[first + i - 1].entries[1] = After((first + i - 1) - 1)
      BY <2>2 DEF JournalInv, LinesInOrder
    <2>6. (first + i - 1) - 1 = first + i - 2
      BY <1>1
    <2> QED
      BY <2>1, <2>4, <2>5, <2>6 DEF After
  <1> HIDE DEF kept
  <1> QED
    BY <1>4, <1>5, <1>6

\* Appends, torn appends and reads keep the journal in order.
LEMMA JournalStep == JournalInv /\ [JournalNext]_journalVars => JournalInv'
  <1> SUFFICES ASSUME JournalInv, [JournalNext]_journalVars PROVE JournalInv'
    OBVIOUS
  <1> USE JournalAssumption
  <1>1. written \in Nat /\ written <= MaxEntries /\ durable \subseteq 1..written
    BY DEF JournalInv, JournalTypeOK
  <1>2. CASE AppendEntry
    <2>1. lines' = Write(written', TRUE, TRUE) /\ written' = written + 1 /\ written < MaxEntries
          /\ durable' = durable \cup {written'} /\ view' = view
      BY <1>2 DEF AppendEntry
    <2>2. LinesInOrder' /\ lines' \in Seq(Line)
          /\ \A i \in DOMAIN lines' :
                lines'[i].parses \in BOOLEAN /\ (i < Len(lines') => lines'[i].ends)
      BY <1>1, <2>1, WriteKeepsOrder
    <2>3. NoHoleInHistory'
      BY <2>1 DEF JournalInv, NoHoleInHistory
    <2>4. written' \in 0..MaxEntries /\ durable' \subseteq 1..written'
      BY <1>1, <2>1
    <2> QED
      BY <2>2, <2>3, <2>4 DEF JournalInv, JournalTypeOK
  <1>3. CASE CrashInAppend
    <2>1. written' = written + 1 /\ written < MaxEntries /\ durable' = durable /\ view' = view
      BY <1>3 DEF CrashInAppend
    <2>2. PICK whole \in BOOLEAN, newline \in BOOLEAN : lines' = Write(written', whole, newline)
      BY <1>3, Zenon DEF CrashInAppend
    <2>3. LinesInOrder' /\ lines' \in Seq(Line)
          /\ \A i \in DOMAIN lines' :
                lines'[i].parses \in BOOLEAN /\ (i < Len(lines') => lines'[i].ends)
      BY <1>1, <2>1, <2>2, WriteKeepsOrder
    <2>4. NoHoleInHistory'
      BY <2>1 DEF JournalInv, NoHoleInHistory
    <2>5. written' \in 0..MaxEntries /\ durable' \subseteq 1..written'
      BY <1>1, <2>1
    <2> QED
      BY <2>3, <2>4, <2>5 DEF JournalInv, JournalTypeOK
  <1>4. CASE ReadJournal
    <2>1. PICK limit \in 1..MaxEntries : view' = Read(limit)
      BY <1>4 DEF ReadJournal
    <2>2. limit \in Nat \ {0} /\ UNCHANGED <<lines, written, durable>>
      BY <1>4 DEF ReadJournal
    <2>3. NoHoleInHistory'
      BY <2>1, <2>2, ReadHasNoHole DEF NoHoleInHistory
    <2> QED
      BY <2>2, <2>3 DEF JournalInv, JournalTypeOK, LinesInOrder, After
  <1>5. CASE UNCHANGED journalVars
    BY <1>5 DEF journalVars, JournalInv, JournalTypeOK, LinesInOrder, After, NoHoleInHistory
  <1> QED
    BY <1>2, <1>3, <1>4, <1>5 DEF JournalNext

-----------------------------------------------------------------------------
\* OnlineLearning: a step is learned once.

\* Nothing is learned in the beginning.
LEMMA LearningInitially == LearningInit => LearningInv
  <1> SUFFICES ASSUME LearningInit PROVE LearningInv
    OBVIOUS
  <1>1. <<>> \in Seq(0..LastHour) /\ Len(<<>>) = 0 /\ 1..0 = {} /\ 0 \in 0..LastHour /\ 0 \in 0..MaxCrashes
    BY LearningAssumption
  <1>2. /\ policy.learned = <<>> /\ file.learned = <<>> /\ script.learned = <<>>
        /\ steps = <<>> /\ resolved = <<>> /\ commits = {} /\ experience = {}
    BY DEF LearningInit, NoScript
  <1>3. LearningTypeOK
    <2>1. {policy, file, script} \subseteq
            [learned : Seq(0..LastHour), status : {"PROMOTED", "DEMOTED", "none"}]
      BY <1>1 DEF LearningInit, NoScript
    <2> QED
      BY <1>1, <1>2, <2>1 DEF LearningInit, LearningTypeOK
  <1> QED
    BY <1>1, <1>2, <1>3
    DEF LearningInit, LearningInv, Spaced, Past, Before, Never, CommitsAreSpaced

\* What is due is observed before what is not, and a cadence before it.
LEMMA MatureAndYoung ==
    ASSUME LearningInv
    PROVE  /\ Mature \in Seq(0..LastHour) /\ Young \in Seq(0..LastHour)
           /\ Spaced(Mature) /\ Spaced(Young)
           /\ \A i \in 1..Len(Mature) : /\ Mature[i] + Cadence <= hour
                                        /\ \E k \in 1..Len(steps) : steps[k] = Mature[i]
           /\ \A i \in 1..Len(Young) : /\ Young[i] <= hour /\ Young[i] + Cadence > hour
                                       /\ \E k \in 1..Len(steps) : steps[k] = Young[i]
  <1> DEFINE old == {s \in 0..hour : Due(s) /\ ~TooLate(s)}
             new == {s \in 0..hour : ~Due(s)}
  <1>1. steps \in Seq(0..LastHour) /\ hour \in Nat /\ Cadence \in Nat
    BY LearningAssumption DEF LearningInv, LearningTypeOK
  <1>2. ASSUME NEW T PROVE Kept(steps, T) \in Seq(0..LastHour) /\ Spaced(Kept(steps, T))
                           /\ \A i \in 1..Len(Kept(steps, T)) :
                                /\ Kept(steps, T)[i] \in T
                                /\ \E k \in 1..Len(steps) : steps[k] = Kept(steps, T)[i]
    <2> DEFINE kept == Kept(steps, T)
    <2>1. kept \in Seq(0..LastHour)
      BY <1>1, KeptProperties
    <2>2. PICK place : KeptAt(kept, steps, Len(steps), T, place)
      BY <1>1, KeptProperties
    <2> HIDE DEF kept
    <2>3. ASSUME NEW i \in 1..Len(kept), NEW j \in 1..Len(kept), i < j
          PROVE  kept[i] + Cadence <= kept[j]
      <3>1. /\ place[i] \in 1..Len(steps) /\ place[j] \in 1..Len(steps) /\ place[i] < place[j]
            /\ kept[i] = steps[place[i]] /\ kept[j] = steps[place[j]]
        BY <2>2, <2>3 DEF KeptAt
      <3> QED
        BY <3>1 DEF LearningInv, Spaced
    <2>4. ASSUME NEW i \in 1..Len(kept)
          PROVE  kept[i] \in T /\ \E k \in 1..Len(steps) : steps[k] = kept[i]
      <3>1. place[i] \in 1..Len(steps) /\ kept[i] = steps[place[i]] /\ kept[i] \in T
        BY <2>2 DEF KeptAt
      <3> QED
        BY <3>1
    <2>5. Spaced(kept)
      BY <2>3 DEF Spaced
    <2> QED
      BY <2>1, <2>4, <2>5 DEF kept
  <1>3. Mature = Kept(steps, old) /\ Young = Kept(steps, new)
    BY DEF Mature, Young
  <1>4. \A x \in old : x + Cadence <= hour
    BY <1>1 DEF Due
  <1>5. \A x \in new : x <= hour /\ x + Cadence > hour
    BY <1>1 DEF Due
  <1> HIDE DEF old, new
  <1> QED
    BY <1>2, <1>3, <1>4, <1>5

\* The step that is remembered now is a cadence after those that wait.
LEMMA ObservedIsSpaced ==
    ASSUME hour \in 0..LastHour, LastHour \in Nat, Cadence \in Nat,
           NEW p \in Seq(0..LastHour), Spaced(p), \A i \in 1..Len(p) : p[i] <= hour
    PROVE  /\ Observed(p) \in Seq(0..LastHour) /\ Spaced(Observed(p))
           /\ \A i \in 1..Len(Observed(p)) :
                /\ Observed(p)[i] <= hour
                /\ Observed(p)[i] = hour \/ \E k \in 1..Len(p) : p[k] = Observed(p)[i]
  <1>1. CASE p = <<>> \/ hour - p[Len(p)] >= Cadence
    <2> DEFINE new == Append(p, hour)
    <2>1. Observed(p) = new
      BY <1>1 DEF Observed
    <2>2. /\ new \in Seq(0..LastHour) /\ Len(new) = Len(p) + 1 /\ new[Len(p) + 1] = hour
          /\ \A i \in 1..Len(p) : new[i] = p[i]
      BY AppendProperties
    <2> HIDE DEF new
    <2>3. Len(p) \in Nat /\ \A i \in 1..Len(p) : p[i] \in 0..LastHour
      OBVIOUS
    <2>7. Len(p) \in Nat /\ Len(new) = Len(p) + 1
      BY <2>2
    <2>4. \A i \in 1..Len(p) : p[i] + Cadence <= hour
      <3> SUFFICES ASSUME NEW i \in 1..Len(p) PROVE p[i] + Cadence <= hour
        OBVIOUS
      <3>1. p[Len(p)] + Cadence <= hour /\ Len(p) \in 1..Len(p)
        BY <1>1, <2>3
      <3>2. i = Len(p) \/ p[i] + Cadence <= p[Len(p)]
        BY <2>3 DEF Spaced
      <3> QED
        BY <2>3, <3>1, <3>2
    <2>5. Spaced(new)
      <3> SUFFICES ASSUME NEW i \in 1..Len(new), NEW j \in 1..Len(new), i < j
                   PROVE  new[i] + Cadence <= new[j]
        BY DEF Spaced
      <3>1. i \in 1..Len(p) /\ new[i] = p[i]
        BY <2>2, <2>3, SMTT(20)
      <3>2. CASE j = Len(p) + 1
        BY <2>2, <2>4, <3>1, <3>2
      <3>3. CASE j # Len(p) + 1
        <4>0. j \in 1..Len(p)
          BY <2>7, <3>3, SMTT(20)
        <4>1. new[j] = p[j]
          BY <2>2, <4>0
        <4> QED
          BY <3>1, <4>0, <4>1 DEF Spaced
      <3> QED
        BY <3>2, <3>3
    <2>6. ASSUME NEW i \in 1..Len(new)
          PROVE  new[i] <= hour /\ (new[i] = hour \/ \E k \in 1..Len(p) : p[k] = new[i])
      <3>1. CASE i = Len(p) + 1
        BY <2>2, <3>1
      <3>2. CASE i # Len(p) + 1
        <4>1. i \in 1..Len(p)
          BY <2>7, <3>2
        <4> QED
          BY <2>2, <4>1
      <3> QED
        BY <3>1, <3>2
    <2> QED
      BY <2>1, <2>2, <2>5, <2>6
  <1>2. CASE ~(p = <<>> \/ hour - p[Len(p)] >= Cadence)
    BY <1>2 DEF Observed
  <1> QED
    BY <1>1, <1>2

\* What was due joins what was learned, a cadence apart.
LEMMA LearnedIsSpaced ==
    ASSUME NEW p \in Seq(0..LastHour), NEW q \in Seq(0..LastHour), NEW now, NEW known,
           Spaced(p), Spaced(q), Before(p, q), Past(p, now, known), Past(q, now, known)
    PROVE  p \o q \in Seq(0..LastHour) /\ Spaced(p \o q) /\ Past(p \o q, now, known)
  <1> DEFINE r == p \o q
  <1>1. /\ r \in Seq(0..LastHour) /\ Len(r) = Len(p) + Len(q)
        /\ \A i \in 1..Len(r) : r[i] = IF i <= Len(p) THEN p[i] ELSE q[i - Len(p)]
    BY ConcatProperties
  <1>2. Len(p) \in Nat /\ Len(q) \in Nat
    OBVIOUS
  <1> HIDE DEF r
  <1>3. Past(r, now, known)
    <2> SUFFICES ASSUME NEW i \in 1..Len(r) PROVE r[i] + Cadence <= now /\ r[i] \in known
      BY DEF Past
    <2>1. i \in 1..Len(p) \/ i - Len(p) \in 1..Len(q)
      BY <1>1, <1>2
    <2>2. CASE i \in 1..Len(p)
      <3>1. r[i] = p[i]
        BY <1>1, <1>2, <2>2
      <3> QED
        BY <2>2, <3>1 DEF Past
    <2>3. CASE i - Len(p) \in 1..Len(q)
      <3>1. r[i] = q[i - Len(p)]
        BY <1>1, <1>2, <2>3
      <3> QED
        BY <2>3, <3>1 DEF Past
    <2> QED
      BY <2>1, <2>2, <2>3
  <1>4. Spaced(r)
    <2> SUFFICES ASSUME NEW i \in 1..Len(r), NEW j \in 1..Len(r), i < j PROVE r[i] + Cadence <= r[j]
      BY DEF Spaced
    <2>1. CASE j <= Len(p)
      <3>1. i \in 1..Len(p) /\ j \in 1..Len(p) /\ r[i] = p[i] /\ r[j] = p[j]
        BY <1>1, <1>2, <2>1
      <3> QED
        BY <3>1 DEF Spaced
    <2>2. CASE i <= Len(p) /\ j > Len(p)
      <3>1. i \in 1..Len(p) /\ j - Len(p) \in 1..Len(q) /\ r[i] = p[i] /\ r[j] = q[j - Len(p)]
        BY <1>1, <1>2, <2>2
      <3> QED
        BY <3>1 DEF Before
    <2>3. CASE i > Len(p)
      <3>1. /\ i - Len(p) \in 1..Len(q) /\ j - Len(p) \in 1..Len(q) /\ i - Len(p) < j - Len(p)
            /\ r[i] = q[i - Len(p)] /\ r[j] = q[j - Len(p)]
        BY <1>1, <1>2, <2>3
      <3> QED
        BY <3>1 DEF Spaced
    <2> QED
      BY <1>2, <2>1, <2>2, <2>3
  <1> QED
    BY <1>1, <1>3, <1>4 DEF r

\* What the end of an evaluation makes of the trades.
LEMMA DecideKeeps ==
    ASSUME LearningInv, Decide, hour' = hour
    PROVE  /\ IF lastCommit' = Never THEN commits' = {}
              ELSE lastCommit' \in 0..hour' /\ \A t \in commits' : t <= lastCommit'
           /\ CommitsAreSpaced' /\ commits' \subseteq 0..LastHour
  <1> USE DEF LearningInv, LearningTypeOK
  <1>1. hour \in Nat /\ hour \in 0..LastHour /\ Cadence \in Nat \ {0} /\ LastHour \in Nat
    BY LearningAssumption
  <1>2. CASE UNCHANGED <<lastCommit, commits>>
    BY <1>1, <1>2 DEF CommitsAreSpaced
  <1>3. CASE /\ lastCommit = Never \/ hour - lastCommit >= Cadence
             /\ lastCommit' = hour /\ commits' = commits \cup {hour}
    <2>1. \A t \in commits : t \in 0..LastHour /\ t + Cadence <= hour
      BY <1>1, <1>3 DEF Never
    <2>2. lastCommit' # Never
      BY <1>1, <1>3 DEF Never
    <2> QED
      BY <1>1, <1>3, <2>1, <2>2 DEF CommitsAreSpaced
  <1> QED
    BY <1>2, <1>3 DEF Decide


\* What could be learned then can be learned later.
LEMMA PastStays ==
    ASSUME NEW p \in Seq(0..LastHour), NEW now \in Int, NEW later \in Int, now <= later,
           NEW known, NEW more, known \subseteq more, Past(p, now, known),
           Cadence \in Nat, LastHour \in Nat
    PROVE  Past(p, later, more)
  <1> SUFFICES ASSUME NEW i \in 1..Len(p) PROVE p[i] + Cadence <= later /\ p[i] \in more
    BY DEF Past
  <1>1. p[i] \in Int
    OBVIOUS
  <1> QED
    BY <1>1 DEF Past

\* No evaluation, crash, restart or promotion breaks the order of what was learned.
LEMMA LearningStep == LearningInv /\ [LearningNext]_learningVars => LearningInv'
  <1> SUFFICES ASSUME LearningInv, [LearningNext]_learningVars PROVE LearningInv'
    OBVIOUS
  <1> DEFINE Hours == 0..LastHour
  <1>0. /\ LearningTypeOK /\ hour \in Nat /\ hour \in Hours /\ LastHour \in Nat
        /\ Cadence \in Nat /\ MaxCrashes \in Nat
    BY LearningAssumption DEF LearningInv, LearningTypeOK
  <1>00. /\ policy.learned \in Seq(Hours) /\ file.learned \in Seq(Hours)
         /\ script.learned \in Seq(Hours) /\ steps \in Seq(Hours) /\ resolved \in Seq(Hours)
    BY <1>0 DEF LearningTypeOK
  <1> HIDE DEF Hours
  <1>1. CASE Time
    <2>1. hour' = hour + 1 /\ hour' \in Hours
      BY <1>0, <1>1 DEF Time, Hours
    <2>2. UNCHANGED <<crashes, running, policy, file, experience, steps, resolved, lastCommit,
                      commits, script>>
      BY <1>1 DEF Time
    <2>3. LearningTypeOK'
      BY <1>0, <2>1, <2>2 DEF LearningTypeOK, Hours
    <2>4. ASSUME NEW p \in Seq(Hours), Past(p, hour, experience) PROVE Past(p, hour', experience')
      BY <1>0, <2>1, <2>2, <2>4, PastStays DEF Hours
    <2>5. /\ Past(policy.learned, hour', experience') /\ Past(file.learned, hour', experience')
          /\ Past(script.learned, hour', experience')
          /\ running = "logged" => Past(resolved, hour', experience')
      BY <1>00, <2>4 DEF LearningInv
    <2>6. \A i \in 1..Len(steps) : steps[i] <= hour'
      <3> SUFFICES ASSUME NEW i \in 1..Len(steps) PROVE steps[i] <= hour'
        OBVIOUS
      <3>1. steps[i] \in Hours
        BY <1>00
      <3>2. steps[i] <= hour
        BY DEF LearningInv
      <3> QED
        BY <1>0, <2>1, <3>1, <3>2 DEF Hours
    <2>7. lastCommit # Never => lastCommit \in 0..hour'
      BY <1>0, <2>1 DEF LearningInv
    <2> QED
      BY <2>2, <2>3, <2>5, <2>6, <2>7
      DEF LearningInv, Spaced, Before, CommitsAreSpaced
  <1>2. CASE Load
    <2>1. /\ running' = "idle" /\ policy' = file /\ steps' = <<>> /\ resolved' = <<>>
          /\ lastCommit' = Never /\ commits' = {}
          /\ UNCHANGED <<hour, crashes, file, experience, script>>
      BY <1>2 DEF Load
    <2>2. <<>> \in Seq(0..LastHour) /\ Len(<<>>) = 0 /\ 1..0 = {}
      OBVIOUS
    <2>3. LearningTypeOK'
      BY <1>0, <2>1, <2>2 DEF LearningTypeOK
    <2> QED
      BY <2>1, <2>2, <2>3 DEF LearningInv, Spaced, Before, CommitsAreSpaced
  <1>3. CASE Crash
    <2>1. /\ running' = "down" /\ crashes < MaxCrashes /\ crashes' = crashes + 1
          /\ UNCHANGED <<hour, policy, file, experience, steps, resolved, lastCommit, commits, script>>
      BY <1>3 DEF Crash
    <2>2. LearningTypeOK'
      BY <1>0, <2>1 DEF LearningTypeOK
    <2> QED
      BY <2>1, <2>2 DEF LearningInv, Spaced, Before, CommitsAreSpaced
  <1>4. CASE Resolve
    <2>1. /\ running' = "logged" /\ resolved' = Mature /\ experience' = experience \cup Range(Mature)
          /\ UNCHANGED <<hour, crashes, policy, file, steps, lastCommit, commits, script>>
      BY <1>4 DEF Resolve
    <2>2. /\ resolved' \in Seq(Hours) /\ Spaced(resolved')
          /\ \A i \in 1..Len(resolved') : /\ resolved'[i] + Cadence <= hour
                                          /\ \E k \in 1..Len(steps) : steps[k] = resolved'[i]
      BY <2>1, MatureAndYoung DEF Hours
    <2>3. experience' \subseteq Hours /\ experience \subseteq experience'
          /\ \A i \in 1..Len(resolved') : resolved'[i] \in experience'
      <3>1. Range(Mature) \subseteq Hours
        BY <2>1, <2>2, RangeOfSeq, Zenon
      <3>2. Range(Mature) = {Mature[i] : i \in 1..Len(Mature)}
        BY <2>1, <2>2, RangeEquality, Zenon
      <3>3. experience \subseteq Hours
        BY <1>0 DEF LearningTypeOK, Hours
      <3> QED
        BY <2>1, <3>1, <3>2, <3>3
    <2>4. Past(resolved', hour', experience')
      BY <2>1, <2>2, <2>3 DEF Past
    <2>5. LearningTypeOK'
      BY <1>0, <2>1, <2>2, <2>3 DEF LearningTypeOK, Hours
    <2>6. ASSUME NEW p \in Seq(Hours), Past(p, hour, experience) PROVE Past(p, hour', experience')
      BY <1>0, <2>1, <2>3, <2>6, PastStays DEF Hours
    <2>7. /\ Past(policy.learned, hour', experience') /\ Past(file.learned, hour', experience')
          /\ Past(script.learned, hour', experience')
      BY <1>00, <2>6 DEF LearningInv
    <2>8. Before(policy.learned, resolved')
      <3> SUFFICES ASSUME NEW i \in 1..Len(policy.learned), NEW j \in 1..Len(resolved')
                   PROVE  policy.learned[i] + Cadence <= resolved'[j]
        BY DEF Before
      <3>1. PICK k \in 1..Len(steps) : steps[k] = resolved'[j]
        BY <2>2
      <3> QED
        BY <3>1 DEF LearningInv, Before
    <2> QED
      BY <2>1, <2>2, <2>4, <2>5, <2>7, <2>8
      DEF LearningInv, Spaced, Before, CommitsAreSpaced
  <1>5. \A i \in 1..Len(Young) : Young[i] \in Int /\ Young[i] <= hour
    BY <1>0, MatureAndYoung
  <1>6. /\ Observed(Young) \in Seq(Hours) /\ Spaced(Observed(Young))
        /\ \A i \in 1..Len(Observed(Young)) :
             /\ Observed(Young)[i] <= hour
             /\ Observed(Young)[i] = hour \/ \E k \in 1..Len(Young) : Young[k] = Observed(Young)[i]
    <2>1. Young \in Seq(0..LastHour) /\ Spaced(Young)
      BY MatureAndYoung
    <2> QED
      BY <1>0, <1>5, <2>1, ObservedIsSpaced DEF Hours
  \* What was learned, or will be by the step under way, was observed before what still waits.
  <1>7. ASSUME NEW p \in Seq(Hours), Past(p, hour, experience), Spaced(p),
               \A i \in 1..Len(p) : \/ \E k \in 1..Len(steps) : steps[k] = p[i]
                                    \/ \A k \in 1..Len(steps) : p[i] + Cadence <= steps[k]
        PROVE  Before(p, Observed(Young))
    <2> SUFFICES ASSUME NEW i \in 1..Len(p), NEW j \in 1..Len(Observed(Young))
                 PROVE  p[i] + Cadence <= Observed(Young)[j]
      BY DEF Before
    <2> DEFINE y == Observed(Young)[j]
    <2>0. p[i] + Cadence <= hour
      BY <1>7 DEF Past
    <2>1. p[i] \in Int /\ p[i] + Cadence <= hour
      <3>1. p[i] \in Hours
        OBVIOUS
      <3> QED
        BY <1>0, <2>0, <3>1 DEF Hours
    <2>2. CASE y = hour
      BY <2>1, <2>2
    <2>3. CASE \E k \in 1..Len(Young) : Young[k] = y
      <3>1. PICK k \in 1..Len(Young) : Young[k] = y
        BY <2>3
      <3>2. PICK m \in 1..Len(steps) : steps[m] = y
        BY <3>1, MatureAndYoung
      <3>3. y + Cadence > hour /\ y \in Int
        BY <1>5, <3>1, MatureAndYoung
      <3>4. CASE \E q \in 1..Len(steps) : steps[q] = p[i]
        <4>1. PICK q \in 1..Len(steps) : steps[q] = p[i]
          BY <3>4
        <4>2. q \in Int /\ m \in Int
          OBVIOUS
        <4>3. ~(q = m) /\ ~(m < q)
          <5>1. p[i] < y
            BY <1>0, <2>1, <3>3, SMTT(20)
          <5>2. m < q => steps[m] + Cadence <= steps[q]
            BY DEF LearningInv, Spaced
          <5> QED
            BY <1>0, <2>1, <3>2, <3>3, <4>1, <5>1, <5>2, SMTT(20)
        <4>4. q < m
          BY <4>2, <4>3
        <4> QED
          BY <3>2, <4>1, <4>4 DEF LearningInv, Spaced
      <3>5. CASE \A q \in 1..Len(steps) : p[i] + Cadence <= steps[q]
        BY <3>2, <3>5
      <3> QED
        BY <1>7, <3>4, <3>5
    <2> QED
      BY <1>6, <2>2, <2>3
  <1>8. CASE Learn
    <2>1. /\ running = "logged" /\ running' = "idle" /\ resolved' = <<>>
          /\ policy' = [policy EXCEPT !.learned = policy.learned \o resolved]
          /\ file' = policy' /\ steps' = Observed(Young) /\ Decide
          /\ UNCHANGED <<hour, crashes, experience, script>>
      BY <1>8 DEF Learn, LearnAndSave
    <2> DEFINE new == policy.learned \o resolved
    <2>2. /\ Spaced(resolved) /\ Past(resolved, hour, experience)
          /\ Before(policy.learned, resolved)
          /\ \A i \in 1..Len(resolved) : \E k \in 1..Len(steps) : steps[k] = resolved[i]
          /\ Spaced(policy.learned) /\ Past(policy.learned, hour, experience)
          /\ Before(policy.learned, steps)
      BY <2>1 DEF LearningInv
    <2>3. new \in Seq(Hours) /\ Spaced(new) /\ Past(new, hour, experience)
      BY <1>00, <2>2, LearnedIsSpaced DEF Hours
    <2>4. \A i \in 1..Len(new) : \/ \E k \in 1..Len(steps) : steps[k] = new[i]
                                 \/ \A k \in 1..Len(steps) : new[i] + Cadence <= steps[k]
      <3> SUFFICES ASSUME NEW i \in 1..Len(new)
                   PROVE  \/ \E k \in 1..Len(steps) : steps[k] = new[i]
                          \/ \A k \in 1..Len(steps) : new[i] + Cadence <= steps[k]
        OBVIOUS
      <3>1. /\ Len(new) = Len(policy.learned) + Len(resolved)
            /\ new[i] = IF i <= Len(policy.learned) THEN policy.learned[i]
                        ELSE resolved[i - Len(policy.learned)]
        BY <1>00, ConcatProperties
      <3> HIDE DEF new
      <3>2. Len(policy.learned) \in Nat /\ Len(resolved) \in Nat /\ i \in Int
        BY <1>00
      <3>3. CASE i <= Len(policy.learned)
        <4>1. i \in 1..Len(policy.learned) /\ new[i] = policy.learned[i]
          BY <3>1, <3>2, <3>3
        <4> QED
          BY <2>2, <4>1 DEF Before
      <3>4. CASE i > Len(policy.learned)
        <4>1. /\ i - Len(policy.learned) \in 1..Len(resolved)
              /\ new[i] = resolved[i - Len(policy.learned)]
          BY <3>1, <3>2, <3>4
        <4> QED
          BY <2>2, <4>1
      <3> QED
        BY <3>2, <3>3, <3>4
    <2>5. policy'.learned = new /\ policy'.status = policy.status
      BY <2>1 DEF LearningTypeOK
    <2> HIDE DEF new
    <2>6. Before(new, steps')
      BY <1>7, <2>1, <2>3, <2>4
    <2>7. /\ IF lastCommit' = Never THEN commits' = {}
             ELSE lastCommit' \in 0..hour' /\ \A t \in commits' : t <= lastCommit'
          /\ CommitsAreSpaced' /\ commits' \subseteq 0..LastHour
      BY <2>1, DecideKeeps
    <2>8. LearningTypeOK'
      <3>1. <<>> \in Seq(0..LastHour)
        OBVIOUS
      <3> QED
        BY <1>0, <1>6, <2>1, <2>3, <2>5, <2>7, <3>1 DEF LearningTypeOK, Hours
    <2>9. \A i \in 1..Len(steps') : steps'[i] <= hour'
      BY <1>6, <2>1
    <2> QED
      BY <1>6, <2>1, <2>3, <2>5, <2>6, <2>7, <2>8, <2>9 DEF LearningInv
  <1>9. CASE Observe
    <2>1. /\ steps' = Observed(Young) /\ Decide /\ (file' = policy \/ file' = file)
          /\ running = "idle"
          /\ UNCHANGED <<hour, crashes, running, policy, experience, resolved, script>>
      BY <1>9 DEF Observe
    <2>2. /\ Spaced(policy.learned) /\ Past(policy.learned, hour, experience)
          /\ Before(policy.learned, steps)
      BY DEF LearningInv
    <2>3. Before(policy.learned, steps')
      <3>1. \A i \in 1..Len(policy.learned), k \in 1..Len(steps) :
              policy.learned[i] + Cadence <= steps[k]
        BY <2>2 DEF Before
      <3> QED
        BY <1>00, <1>7, <2>1, <2>2, <3>1
    <2>4. /\ IF lastCommit' = Never THEN commits' = {}
             ELSE lastCommit' \in 0..hour' /\ \A t \in commits' : t <= lastCommit'
          /\ CommitsAreSpaced' /\ commits' \subseteq 0..LastHour
      BY <2>1, DecideKeeps
    <2>5. LearningTypeOK'
      BY <1>0, <1>6, <2>1, <2>4 DEF LearningTypeOK, Hours
    <2>6. \A i \in 1..Len(steps') : steps'[i] <= hour'
      BY <1>6, <2>1
    <2> QED
      BY <1>6, <2>1, <2>2, <2>3, <2>4, <2>5, <2>6 DEF LearningInv
  <1>10. CASE ScriptLoads
    <2>1. PICK s \in {"PROMOTED", "DEMOTED"} : script' = [learned |-> file.learned, status |-> s]
      BY <1>10 DEF ScriptLoads
    <2>2. UNCHANGED <<hour, crashes, running, policy, file, experience, steps, resolved,
                      lastCommit, commits>>
      BY <1>10 DEF ScriptLoads
    <2>3. script'.learned = file.learned /\ script'.status \in {"PROMOTED", "DEMOTED", "none"}
      BY <2>1
    <2>4. script' \in [learned : Seq(0..LastHour), status : {"PROMOTED", "DEMOTED", "none"}]
      BY <1>00, <2>1 DEF Hours
    <2>5. LearningTypeOK'
      BY <1>0, <2>2, <2>4 DEF LearningTypeOK
    <2> QED
      BY <2>2, <2>3, <2>5 DEF LearningInv, Spaced, Before, CommitsAreSpaced
  <1>11. CASE ScriptSaves
    <2>1. /\ file' = script /\ script' = NoScript /\ NoScript.learned = <<>> /\ NoScript.status = "none"
          /\ UNCHANGED <<hour, crashes, running, policy, experience, steps, resolved,
                         lastCommit, commits>>
      BY <1>11 DEF ScriptSaves, NoScript
    <2>2. Spaced(<<>>) /\ Past(<<>>, hour, experience) /\ <<>> \in Seq(0..LastHour)
      BY DEF Spaced, Past
    <2>3. NoScript \in [learned : Seq(0..LastHour), status : {"PROMOTED", "DEMOTED", "none"}]
      BY <2>2 DEF NoScript
    <2>4. LearningTypeOK'
      BY <1>0, <2>1, <2>3 DEF LearningTypeOK
    <2> QED
      BY <2>1, <2>2, <2>4 DEF LearningInv, Spaced, Before, CommitsAreSpaced
  <1>12. CASE UNCHANGED learningVars
    BY <1>12 DEF learningVars, LearningInv, LearningTypeOK, Spaced, Before, CommitsAreSpaced
  <1> QED
    BY <1>1, <1>2, <1>3, <1>4, <1>8, <1>9, <1>10, <1>11, <1>12 DEF LearningNext

\* Then every outcome is learned once and trades are a cadence apart.
LEMMA LearningSafe == LearningInv => LearnedOnce /\ CommitsAreSpaced
  <1> SUFFICES ASSUME LearningInv PROVE LearnedOnce
    BY DEF LearningInv
  <1>1. ASSUME NEW p \in {policy.learned, file.learned}
        PROVE  /\ Range(p) \subseteq experience
               /\ \A i, j \in DOMAIN p : i < j => p[i] + Cadence <= p[j]
    <2>1. p \in Seq(0..LastHour) /\ Spaced(p) /\ Past(p, hour, experience)
      BY <1>1 DEF LearningInv, LearningTypeOK
    <2>2. DOMAIN p = 1..Len(p) /\ Range(p) = {p[i] : i \in 1..Len(p)}
      BY <2>1, RangeEquality
    <2> QED
      BY <2>1, <2>2 DEF Spaced, Past
  <1> QED
    BY <1>1 DEF LearnedOnce

-----------------------------------------------------------------------------
\* AgentMemory: outcomes are earned.

\* A new or an older database is truthful.
LEMMA MemoryInitially == MemoryInit => MemoryInv
  <1> SUFFICES ASSUME MemoryInit PROVE MemoryInv
    OBVIOUS
  <1>1. /\ tick = 1 /\ quote \in [1..1 -> Quotes] /\ misread = {} /\ 1 \in 1..LastTick
        /\ Quotes \subseteq Nat /\ quote[1] \in Quotes
    BY MemoryAssumption DEF MemoryInit
  <1>2. CASE decisions = <<>>
    <2>1. MemoryTypeOK
      BY <1>1, <1>2 DEF MemoryTypeOK
    <2> QED
      BY <1>2, <2>1 DEF MemoryInv, OutcomeIsEarned, Resolved
  <1>3. CASE decisions # <<>>
    <2>1. PICK c \in DOMAIN Retired, h \in HorizonHours :
            decisions = <<[at |-> 1, choice |-> c, hours |-> h, price |-> quote[1],
                           realized |-> 0, on |-> 0]>>
      BY <1>3 DEF MemoryInit
    <2> DEFINE row == [at |-> 1, choice |-> c, hours |-> h, price |-> quote[1],
                       realized |-> 0, on |-> 0]
    <2>2. row \in Decision /\ row.at = 1 /\ row.on = 0 /\ row.price = quote[1]
      BY <1>1, MemoryAssumption DEF Decision
    <2> HIDE DEF row
    <2>3. /\ decisions \in Seq(Decision) /\ DOMAIN decisions = 1..1 /\ decisions[1] = row
      BY <2>1, <2>2 DEF row
    <2>4. MemoryTypeOK
      BY <1>1, <2>3 DEF MemoryTypeOK
    <2>5. Resolved = {}
      BY <2>2, <2>3 DEF Resolved
    <2> QED
      BY <1>1, <2>2, <2>3, <2>4, <2>5 DEF MemoryInv, OutcomeIsEarned
  <1> QED
    BY <1>2, <1>3

\* What a table says at time t when the prices were q, but for the rows misread.
Truthful(d, t, q, m) ==
    /\ \A i \in DOMAIN d : d[i].at <= t /\ d[i].on <= t /\ d[i].price = q[d[i].at]
    /\ \A i, j \in DOMAIN d : i < j => d[i].at < d[j].at
    /\ \A i \in DOMAIN d \ m : d[i].on # 0 =>
         /\ d[i].choice \in {Invested, Cash} /\ d[i].on >= d[i].at + d[i].hours
         /\ d[i].realized = IF d[i].choice = Invested THEN q[d[i].on] - d[i].price
                            ELSE -(q[d[i].on] - d[i].price)

\* The invariant of the record, as a statement of any record.
LEMMA MemoryInvIs ==
    MemoryInv <=> MemoryTypeOK /\ Truthful(decisions, tick, quote, misread)
  <1>1. ASSUME MemoryInv PROVE Truthful(decisions, tick, quote, misread)
    <2>1. ASSUME NEW i \in DOMAIN decisions \ misread, decisions[i].on # 0
          PROVE  /\ decisions[i].choice \in {Invested, Cash}
                 /\ decisions[i].on >= decisions[i].at + decisions[i].hours
                 /\ decisions[i].realized =
                      IF decisions[i].choice = Invested THEN quote[decisions[i].on] - decisions[i].price
                      ELSE -(quote[decisions[i].on] - decisions[i].price)
      <3>1. i \in Resolved \ misread
        BY <2>1 DEF Resolved
      <3>2. decisions[i].choice \in {Invested, Cash}
        BY <1>1, <3>1 DEF MemoryInv
      <3>3. decisions[i].choice \in {Invested, "LARGO"} <=> decisions[i].choice = Invested
        BY <3>2 DEF Invested, Cash
      <3> QED
        BY <1>1, <3>1, <3>2, <3>3 DEF MemoryInv, OutcomeIsEarned
    <2> QED
      BY <1>1, <2>1 DEF MemoryInv, Truthful
  <1>2. ASSUME MemoryTypeOK, Truthful(decisions, tick, quote, misread) PROVE MemoryInv
    <2>1. ASSUME NEW i \in Resolved \ misread
          PROVE  /\ decisions[i].choice \in {Invested, Cash}
                 /\ decisions[i].on >= decisions[i].at + decisions[i].hours
                 /\ decisions[i].price = quote[decisions[i].at]
                 /\ decisions[i].realized =
                      IF decisions[i].choice \in {Invested, "LARGO"}
                      THEN quote[decisions[i].on] - decisions[i].price
                      ELSE -(quote[decisions[i].on] - decisions[i].price)
      <3>1. i \in DOMAIN decisions \ misread /\ decisions[i].on # 0
        BY DEF Resolved
      <3>2. decisions[i].choice \in {Invested, Cash}
        BY <1>2, <3>1 DEF Truthful
      <3>3. decisions[i].choice \in {Invested, "LARGO"} <=> decisions[i].choice = Invested
        BY <3>2 DEF Invested, Cash
      <3> QED
        BY <1>2, <3>1, <3>2, <3>3 DEF Truthful
    <2>2. OutcomeIsEarned
      BY <2>1 DEF OutcomeIsEarned
    <2> QED
      BY <1>2, <2>1, <2>2 DEF MemoryInv, Truthful
  <1> QED
    BY <1>1, <1>2 DEF MemoryInv

\* The first part of an evaluation: the rows whose horizon passed are resolved.
LEMMA ResolvingIsTruthful ==
    ASSUME MemoryTypeOK, Truthful(decisions, tick, quote, misread)
    PROVE  /\ ResolvePending \in Seq(Decision) /\ DOMAIN ResolvePending = DOMAIN decisions
           /\ Truthful(ResolvePending, tick, quote,
                misread \cup {i \in DOMAIN decisions :
                                IsDue(decisions[i]) /\ decisions[i].choice \in DOMAIN Retired})
  <1> DEFINE d == decisions
             r == ResolvePending
             bad == {i \in DOMAIN d : IsDue(d[i]) /\ d[i].choice \in DOMAIN Retired}
  <1>1. /\ d \in Seq(Decision) /\ DOMAIN d = 1..Len(d) /\ Len(d) \in Nat
        /\ tick \in 1..LastTick /\ quote \in [1..tick -> Quotes] /\ LastTick \in Nat
        /\ Quotes \subseteq Nat /\ HorizonHours \subseteq Nat
    BY MemoryAssumption DEF MemoryTypeOK
  <1>2. ASSUME NEW i \in DOMAIN d
        PROVE  /\ d[i].at \in Nat /\ d[i].hours \in Nat /\ d[i].price \in Nat /\ d[i].on \in Nat
               /\ d[i].choice \in {Invested, Cash} \cup DOMAIN Retired
               /\ d[i] \in Decision
    <2>1. d[i] \in Decision
      BY <1>1
    <2>2. /\ d[i].at \in 1..LastTick /\ d[i].hours \in HorizonHours /\ d[i].price \in Quotes
          /\ d[i].on \in 0..LastTick /\ d[i].choice \in {Invested, Cash} \cup DOMAIN Retired
      BY <2>1 DEF Decision
    <2>3. d[i].at \in Nat /\ d[i].on \in Nat
      BY <1>1, <2>2
    <2>4. d[i].hours \in Nat /\ d[i].price \in Nat
      BY <1>1, <2>2
    <2> QED
      BY <2>1, <2>2, <2>3, <2>4, Zenon
  <1>10. quote[tick] \in Nat
    <2>1. tick \in 1..tick
      BY <1>1
    <2> QED
      BY <1>1, <2>1
  <1>3. ASSUME NEW i \in DOMAIN d
        PROVE  /\ r[i] \in Decision
               /\ r[i].at = d[i].at /\ r[i].price = d[i].price /\ r[i].hours = d[i].hours
               /\ r[i].choice = d[i].choice
               /\ IF IsDue(d[i]) THEN r[i].on = tick /\ r[i].realized = Earned(d[i])
                  ELSE r[i] = d[i]
    <2>1. r[i] = IF IsDue(d[i])
                 THEN [d[i] EXCEPT !.realized = Earned(d[i]), !.on = tick] ELSE d[i]
      BY DEF ResolvePending
    <2>2. Earned(d[i]) \in Int
      BY <1>2, <1>10 DEF Earned, Price
    <2>3. tick \in 0..LastTick
      BY <1>1
    <2>4. CASE IsDue(d[i])
      <3>1. r[i] = [d[i] EXCEPT !.realized = Earned(d[i]), !.on = tick]
        BY <2>1, <2>4
      <3> QED
        BY <1>2, <2>2, <2>3, <2>4, <3>1, ZenonT(60) DEF Decision
    <2>5. CASE ~IsDue(d[i])
      BY <1>2, <2>1, <2>5
    <2> QED
      BY <2>4, <2>5
  <1>4. DOMAIN r = DOMAIN d
    BY DEF ResolvePending
  <1>5. r \in Seq(Decision)
    <2>1. r = [i \in 1..Len(d) |-> IF IsDue(d[i])
                 THEN [d[i] EXCEPT !.realized = Earned(d[i]), !.on = tick] ELSE d[i]]
      BY <1>1 DEF ResolvePending
    <2>2. r \in [1..Len(d) -> Decision]
      <3> HIDE DEF r
      <3>1. \A i \in 1..Len(d) : r[i] \in Decision
        BY <1>1, <1>3
      <3> QED
        BY <1>1, <1>4, <2>1, <3>1
    <2> QED
      BY <1>1, <2>2, SeqDef
  <1> HIDE DEF r
  <1>6. ASSUME NEW i \in DOMAIN r
        PROVE  r[i].at <= tick /\ r[i].on <= tick /\ r[i].price = quote[r[i].at]
    BY <1>1, <1>2, <1>3, <1>4, SMTT(20) DEF Truthful
  <1>7. \A i, j \in DOMAIN r : i < j => r[i].at < r[j].at
    BY <1>3, <1>4 DEF Truthful
  <1>8. ASSUME NEW i \in DOMAIN r \ (misread \cup bad), r[i].on # 0
        PROVE  /\ r[i].choice \in {Invested, Cash} /\ r[i].on >= r[i].at + r[i].hours
               /\ r[i].realized = IF r[i].choice = Invested THEN quote[r[i].on] - r[i].price
                                  ELSE -(quote[r[i].on] - r[i].price)
    <2>1. CASE ~IsDue(d[i])
      BY <1>3, <1>4, <1>8, <2>1 DEF Truthful
    <2>2. CASE IsDue(d[i])
      <3>1. d[i].choice \notin DOMAIN Retired /\ d[i].choice \in {Invested, Cash}
        BY <1>2, <1>4, <2>2
      <3>2. /\ r[i].on = tick /\ r[i].realized = Earned(d[i]) /\ d[i].at + d[i].hours <= tick
            /\ r[i].choice = d[i].choice /\ r[i].price = d[i].price
            /\ r[i].at = d[i].at /\ r[i].hours = d[i].hours
        BY <1>3, <1>4, <2>2 DEF IsDue
      <3>3. quote[tick] \in Nat /\ d[i].price \in Nat /\ d[i].at \in Nat /\ d[i].hours \in Nat
        BY <1>2, <1>4, <1>10
      <3>4. Earned(d[i]) = IF d[i].choice = Invested THEN quote[tick] - d[i].price
                           ELSE -(quote[tick] - d[i].price)
        BY <3>3 DEF Earned, Price
      <3>5. tick >= d[i].at + d[i].hours
        BY <1>1, <3>2, <3>3
      <3> QED
        BY <3>1, <3>2, <3>4, <3>5
    <2> QED
      BY <2>1, <2>2
  <1>9. Truthful(r, tick, quote, misread \cup bad)
    BY <1>6, <1>7, <1>8 DEF Truthful
  <1> QED
    BY <1>4, <1>5, <1>9 DEF r

\* The second part: one row for the moment.
LEMMA RecordingIsTruthful ==
    ASSUME tick \in 1..LastTick, LastTick \in Nat, quote \in [1..tick -> Quotes],
           NEW d \in Seq(Decision), NEW m, Truthful(d, tick, quote, m),
           NEW c \in {Invested, Cash}, NEW h \in HorizonHours
    PROVE  /\ Record(d, c, h) \in Seq(Decision)
           /\ DOMAIN d \subseteq DOMAIN Record(d, c, h)
           /\ Truthful(Record(d, c, h), tick, quote, m)
  <1> DEFINE row == [at |-> tick, choice |-> c, hours |-> h, price |-> Price,
                     realized |-> 0, on |-> 0]
             r == Append(d, row)
  <1>1. CASE \E i \in DOMAIN d : d[i].at = tick
    BY <1>1 DEF Record
  <1>2. CASE ~ \E i \in DOMAIN d : d[i].at = tick
    <2>1. Record(d, c, h) = r
      BY <1>2, Zenon DEF Record
    <2>2. quote[tick] \in Quotes
      OBVIOUS
    <2>3. /\ row \in Decision /\ row.at = tick /\ row.on = 0 /\ row.price = quote[tick]
      <3>1. 0 \in 0..LastTick /\ 0 \in Int
        OBVIOUS
      <3> QED
        BY <2>2, <3>1 DEF Price, Decision
    <2> HIDE DEF row
    <2>4. /\ r \in Seq(Decision) /\ DOMAIN r = 1..(Len(d) + 1) /\ Len(d) \in Nat
          /\ DOMAIN d = 1..Len(d) /\ r[Len(d) + 1] = row
          /\ \A i \in DOMAIN d : r[i] = d[i]
      BY <2>3, AppendProperties
    <2> HIDE DEF r
    <2>5. ASSUME NEW i \in DOMAIN r
          PROVE  (i \in DOMAIN d /\ r[i] = d[i]) \/ (i = Len(d) + 1 /\ r[i] = row)
      <3>1. CASE i = Len(d) + 1
        BY <2>4, <3>1
      <3>2. CASE i # Len(d) + 1
        <4>1. i \in DOMAIN d
          BY <2>4, <3>2
        <4> QED
          BY <2>4, <4>1
      <3> QED
        BY <3>1, <3>2
    <2>6. ASSUME NEW i \in DOMAIN d PROVE d[i].at < tick
      <3>1. d[i] \in Decision
        OBVIOUS
      <3>2. d[i].at \in Nat
        BY <3>1 DEF Decision
      <3>3. d[i].at <= tick /\ d[i].at # tick
        BY <1>2 DEF Truthful
      <3> QED
        BY <3>2, <3>3
    <2>7. \A i \in DOMAIN r : r[i].at <= tick /\ r[i].on <= tick /\ r[i].price = quote[r[i].at]
      BY <2>3, <2>5 DEF Truthful
    <2>8. ASSUME NEW i \in DOMAIN r, NEW j \in DOMAIN r, i < j PROVE r[i].at < r[j].at
      <3>1. i \in DOMAIN d /\ r[i] = d[i]
        BY <2>4, <2>8
      <3>2. CASE j \in DOMAIN d /\ r[j] = d[j]
        BY <2>8, <3>1, <3>2 DEF Truthful
      <3>3. CASE r[j] = row
        BY <2>3, <2>6, <3>1, <3>3
      <3> QED
        BY <2>5, <3>2, <3>3
    <2>9. ASSUME NEW i \in DOMAIN r \ m, r[i].on # 0 PROVE i \in DOMAIN d \ m /\ r[i] = d[i]
      BY <2>3, <2>5, <2>9
    <2>10. Truthful(r, tick, quote, m)
      BY <2>7, <2>8, <2>9 DEF Truthful
    <2> QED
      BY <2>1, <2>4, <2>10
  <1> QED
    BY <1>1, <1>2

\* Evaluations, migrations and the clock keep the record truthful.
LEMMA MemoryStep == ASSUME MemoryInv, [MemoryNext]_memoryVars PROVE MemoryInv'
  <1>1. MemoryTypeOK /\ Truthful(decisions, tick, quote, misread)
    BY MemoryInvIs
  <1>2. /\ decisions \in Seq(Decision) /\ DOMAIN decisions = 1..Len(decisions)
        /\ Len(decisions) \in Nat /\ misread \subseteq DOMAIN decisions
        /\ tick \in 1..LastTick /\ quote \in [1..tick -> Quotes] /\ LastTick \in Nat
        /\ Quotes \subseteq Nat /\ HorizonHours \subseteq Nat
    BY <1>1, MemoryAssumption DEF MemoryTypeOK
  <1>3. (MemoryInv <=> MemoryTypeOK /\ Truthful(decisions, tick, quote, misread))'
    BY MemoryInvIs, PTL
  <1> SUFFICES MemoryTypeOK' /\ Truthful(decisions', tick', quote', misread')
    BY <1>3
  <1>4. CASE TickQuote
    <2>1. PICK p \in Quotes : quote' = Append(quote, p)
      BY <1>4 DEF TickQuote
    <2>2. tick < LastTick /\ tick' = tick + 1 /\ decisions' = decisions /\ misread' = misread
      BY <1>4 DEF TickQuote
    <2>3. quote \in Seq(Quotes) /\ Len(quote) = tick /\ DOMAIN quote = 1..tick
      BY <1>2, SeqDef
    <2>4. /\ quote' \in Seq(Quotes) /\ Len(quote') = tick + 1
          /\ \A i \in 1..tick : quote'[i] = quote[i]
      BY <2>1, <2>3, AppendProperties
    <2>5. quote' \in [1..tick' -> Quotes] /\ tick' \in 1..LastTick
      BY <1>2, <2>2, <2>4
    <2>6. ASSUME NEW i \in DOMAIN decisions
          PROVE  /\ decisions[i].at \in 1..tick /\ decisions[i].on \in 0..tick
                 /\ decisions[i].on # 0 => decisions[i].on \in 1..tick
      <3>1. decisions[i] \in Decision
        BY <1>2
      <3>2. decisions[i].at \in 1..LastTick /\ decisions[i].on \in 0..LastTick
        BY <3>1 DEF Decision
      <3> QED
        BY <1>1, <1>2, <3>2 DEF Truthful
    <2>7. MemoryTypeOK'
      BY <1>2, <2>2, <2>5 DEF MemoryTypeOK
    <2>8. Truthful(decisions, tick', quote', misread)
      <3>1. \A i \in DOMAIN decisions :
              decisions[i].at <= tick' /\ decisions[i].on <= tick'
        BY <1>2, <2>2, <2>6
      <3>2. \A i \in DOMAIN decisions : quote'[decisions[i].at] = quote[decisions[i].at]
        BY <2>4, <2>6
      <3>3. \A i \in DOMAIN decisions : decisions[i].on # 0 =>
              quote'[decisions[i].on] = quote[decisions[i].on]
        BY <2>4, <2>6
      <3> QED
        BY <1>1, <3>1, <3>2, <3>3 DEF Truthful
    <2> QED
      BY <2>2, <2>7, <2>8
  <1>5. CASE EvaluateMemory
    <2> DEFINE bad == {i \in DOMAIN decisions :
                         IsDue(decisions[i]) /\ decisions[i].choice \in DOMAIN Retired}
    <2>1. tick' = tick /\ quote' = quote /\ misread' = misread \cup bad
      BY <1>5 DEF EvaluateMemory
    <2>2. /\ ResolvePending \in Seq(Decision) /\ DOMAIN ResolvePending = DOMAIN decisions
          /\ Truthful(ResolvePending, tick, quote, misread')
      BY <1>1, <2>1, ResolvingIsTruthful
    <2>3. misread' \subseteq DOMAIN decisions
      BY <1>2, <2>1
    <2> HIDE DEF bad
    <2>4. /\ decisions' \in Seq(Decision) /\ DOMAIN decisions \subseteq DOMAIN decisions'
          /\ Truthful(decisions', tick, quote, misread')
      <3>1. CASE decisions' = ResolvePending
        BY <2>2, <3>1
      <3>2. ASSUME NEW c \in {Invested, Cash}, NEW h \in HorizonHours,
                   decisions' = Record(ResolvePending, c, h)
            PROVE  /\ decisions' \in Seq(Decision) /\ DOMAIN decisions \subseteq DOMAIN decisions'
                   /\ Truthful(decisions', tick, quote, misread')
        BY <1>2, <2>2, <3>2, RecordingIsTruthful
      <3> QED
        BY <1>5, <3>1, <3>2 DEF EvaluateMemory
    <2>5. MemoryTypeOK'
      BY <1>2, <2>1, <2>3, <2>4 DEF MemoryTypeOK
    <2> QED
      BY <2>1, <2>4, <2>5
  <1>6. CASE Migrate
    <2>1. /\ tick' = tick /\ quote' = quote /\ misread' = misread
          /\ decisions' = [i \in DOMAIN decisions |->
                       IF decisions[i].choice \in DOMAIN Retired
                       THEN [decisions[i] EXCEPT !.choice = Retired[@]] ELSE decisions[i]]
      BY <1>6 DEF Migrate
    <2>2. ASSUME NEW i \in DOMAIN decisions
          PROVE  /\ decisions'[i] \in Decision
                 /\ decisions'[i].at = decisions[i].at /\ decisions'[i].on = decisions[i].on
                 /\ decisions'[i].price = decisions[i].price
                 /\ decisions[i].choice \notin DOMAIN Retired => decisions'[i] = decisions[i]
      <3>1. decisions[i] \in Decision
        BY <1>2
      <3>2. CASE decisions[i].choice \notin DOMAIN Retired
        BY <2>1, <3>1, <3>2
      <3>3. CASE decisions[i].choice \in DOMAIN Retired
        <4>1. decisions'[i] = [decisions[i] EXCEPT !.choice = Retired[@]]
          BY <2>1, <3>3
        <4>2. Retired[decisions[i].choice] \in {Invested, Cash}
          BY <3>3 DEF Retired
        <4> QED
          BY <3>1, <3>3, <4>1, <4>2 DEF Decision
      <3> QED
        BY <3>2, <3>3
    <2>3. DOMAIN decisions' = DOMAIN decisions
      BY <2>1
    <2>4. decisions' \in Seq(Decision)
      <3>1. decisions' \in [1..Len(decisions) -> Decision]
        <4>1. decisions' = [i \in DOMAIN decisions |-> decisions'[i]]
          BY <2>1
        <4> QED
          BY <1>2, <2>2, <4>1
      <3> QED
        BY <1>2, <3>1, SeqDef
    <2>5. Truthful(decisions', tick, quote, misread)
      <3>1. ASSUME NEW i \in DOMAIN decisions' \ misread, decisions'[i].on # 0
            PROVE  decisions'[i] = decisions[i] /\ i \in DOMAIN decisions \ misread
        <4>1. i \in DOMAIN decisions \ misread /\ decisions[i].on # 0
          BY <2>2, <2>3, <3>1
        <4>2. decisions[i].choice \in {Invested, Cash}
          BY <1>1, <4>1 DEF Truthful
        <4>3. decisions[i].choice \notin DOMAIN Retired
          BY <4>2 DEF Retired, Invested, Cash
        <4> QED
          BY <2>2, <4>1, <4>3
      <3>2. \A i \in DOMAIN decisions' : decisions'[i].at <= tick /\ decisions'[i].on <= tick
              /\ decisions'[i].price = quote[decisions'[i].at]
        BY <1>1, <2>2, <2>3 DEF Truthful
      <3>3. \A i, j \in DOMAIN decisions' : i < j => decisions'[i].at < decisions'[j].at
        BY <1>1, <2>2, <2>3 DEF Truthful
      <3> QED
        BY <1>1, <3>1, <3>2, <3>3 DEF Truthful
    <2>6. MemoryTypeOK'
      BY <1>2, <2>1, <2>3, <2>4 DEF MemoryTypeOK
    <2> QED
      BY <2>1, <2>5, <2>6
  <1>7. CASE UNCHANGED memoryVars
    BY <1>1, <1>7 DEF memoryVars, MemoryTypeOK
  <1> QED
    BY <1>4, <1>5, <1>6, <1>7 DEF MemoryNext

-----------------------------------------------------------------------------
\* CheckpointStore: a save that returned survives.


\* Every call, and every failure between two calls, keeps it so.
THEOREM StoreInvariance == StoreSpec => []StoreInv
  <1> USE StoreAssumption DEF Torn, NoState, LoadState
  <1>1. StoreInit => StoreInv
    <2> SUFFICES ASSUME StoreInit PROVE StoreInv
      OBVIOUS
    <2>1. temporary \in [state : 0..Torn, safe : BOOLEAN]
      BY DEF StoreInit
    <2> QED
      BY <2>1 DEF StoreInit, StoreInv, StoreTypeOK, SavedStateSurvives
  <1>2. StoreInv /\ [StoreNext]_storeVars => StoreInv'
    <2> SUFFICES ASSUME StoreInv, [StoreNext]_storeVars PROVE StoreInv'
      OBVIOUS
    <2> USE DEF StoreInv, StoreTypeOK, SavedStateSurvives
    <2>1. CASE OpenTemporary
      BY <2>1 DEF OpenTemporary
    <2>2. CASE WriteTemporary
      BY <2>2 DEF WriteTemporary
    <2>3. CASE FlushTemporary
      <3>1. temporary' \in [state : 0..Torn, safe : BOOLEAN]
        BY <2>3, Zenon DEF FlushTemporary
      <3>2. temporary'.state = temporary.state /\ temporary'.safe = TRUE
        BY <2>3, Zenon DEF FlushTemporary
      <3>3. UNCHANGED <<version, returned, target, older>> /\ saving = "written" /\ saving' = "flushed"
        BY <2>3 DEF FlushTemporary
      <3>4. StoreTypeOK'
        BY <3>1, <3>3
      <3>5. SavedStateSurvives'
        BY <3>3
      <3> QED
        BY <3>2, <3>3, <3>4, <3>5, Zenon
    <2>4. CASE Replace
      <3>1. older' = older \cup {version} /\ target' = version
        BY <2>4 DEF Replace
      <3>2. /\ UNCHANGED <<version, returned, temporary>>
            /\ saving = "flushed" /\ saving' = "renamed"
        BY <2>4 DEF Replace
      <3> QED
        BY <3>1, <3>2
    <2>5. CASE FlushDirectory
      <3>1. older' = {target} /\ target = version /\ temporary.safe = TRUE
        BY <2>5 DEF FlushDirectory
      <3>2. UNCHANGED <<version, temporary, target>> /\ saving' = "no" /\ returned' = version
        BY <2>5 DEF FlushDirectory
      <3> QED
        BY <3>1, <3>2
    <2>6. CASE ProcessDies
      BY <2>6 DEF ProcessDies
    <2>7. CASE PowerFails
      <3>1. temporary' \in [state : 0..Torn, safe : BOOLEAN]
        <4>1. temporary.state \in 0..Torn /\ Torn \in 0..Torn
          OBVIOUS
        <4> QED
          BY <2>7, <4>1 DEF PowerFails
      <3>2. /\ target' \in older /\ older' = {target'} /\ saving' = "no"
            /\ UNCHANGED <<version, returned>>
        BY <2>7 DEF PowerFails
      <3> QED
        BY <3>1, <3>2
    <2>8. CASE UNCHANGED storeVars
      BY <2>8 DEF storeVars
    <2> QED
      BY <2>1, <2>2, <2>3, <2>4, <2>5, <2>6, <2>7, <2>8 DEF StoreNext
  <1> QED
    BY <1>1, <1>2, PTL DEF StoreSpec

\* A save that returned is never lost, and nothing torn is ever loaded.
THEOREM StateSurvives == StoreSpec => []SavedStateSurvives
  <1>1. StoreInv => SavedStateSurvives
    BY DEF StoreInv
  <1> QED
    BY <1>1, StoreInvariance, PTL

-----------------------------------------------------------------------------
\* RiskBreakers: losses stop trading.


\* What an evaluation makes of a book that agrees with the history agrees with it.
LEMMA UpdateAgrees ==
    ASSUME BreakersInv, book' = UpdateEquity(book), Seen, UNCHANGED <<date, equity>>
    PROVE  /\ book' \in [peak : Equities, start : Equities, day : 1..LastDate]
           /\ opened' \in Equities /\ best' \in Equities
           /\ book'.peak = best' /\ book'.day = date' /\ book'.start = opened'
  <1> USE BreakerAssumption DEF BreakersInv, BreakersTypeOK
  <1>1. /\ book'.peak = More(book.peak, equity) /\ book'.day = date
        /\ book'.start = IF book.day # date \/ book.start = 0 THEN equity ELSE book.start
    BY DEF UpdateEquity
  <1>2. opened' = (IF opened = 0 THEN equity ELSE opened) /\ best' = More(best, equity)
    BY DEF Seen
  <1>3. More(best, equity) \in Equities
    BY DEF More
  <1> QED
    BY <1>1, <1>2, <1>3 DEF UpdateEquity

\* What restrains the engine is what has happened, for the day and since the beginning.
THEOREM BreakersInvariance == BreakersSpec => []BreakersInv
  <1> USE BreakerAssumption
  <1>1. BreakersInit => BreakersInv
    BY DEF BreakersInit, BreakersInv, BreakersTypeOK, UpdateEquity, NoBook, More
  <1>2. BreakersInv /\ [BreakersNext]_breakerVars => BreakersInv'
    <2> SUFFICES ASSUME BreakersInv, [BreakersNext]_breakerVars PROVE BreakersInv'
      OBVIOUS
    <2>1. CASE MarketMoves
      BY <2>1 DEF MarketMoves, BreakersInv, BreakersTypeOK
    <2>2. CASE NewDay
      BY <2>2 DEF NewDay, BreakersInv, BreakersTypeOK
    <2>3. CASE Evaluate
      <3>1. held' \in BOOLEAN
        BY <2>3, Zenon DEF Evaluate, BreakersInv, BreakersTypeOK
      <3> QED
        BY <2>3, <3>1, UpdateAgrees DEF Evaluate, BreakersInv, BreakersTypeOK
    <2>4. CASE RestartKept
      BY <2>4, UpdateAgrees DEF RestartKept, BreakersInv, BreakersTypeOK
    <2>5. CASE RestartBare
      BY <2>5 DEF RestartBare, BreakersInv, BreakersTypeOK, UpdateEquity, NoBook, More
    <2>6. CASE UNCHANGED breakerVars
      BY <2>6 DEF breakerVars, BreakersInv, BreakersTypeOK
    <2> QED
      BY <2>1, <2>2, <2>3, <2>4, <2>5, <2>6 DEF BreakersNext
  <1> QED
    BY <1>1, <1>2, PTL DEF BreakersSpec

\* A day of losses closes the day, a drawdown the account, whatever restarts.
THEOREM LossesStopTrading == BreakersSpec => LossesStop
  <1>1. BreakersInv /\ [BreakersNext]_breakerVars =>
          (~held /\ held' => /\ 100 * equity > opened' * (100 - DailyLoss)
                            /\ 100 * equity > best' * (100 - MaxDrawdown))
    <2> SUFFICES ASSUME BreakersInv, [BreakersNext]_breakerVars, ~held, held'
                 PROVE  /\ 100 * equity > opened' * (100 - DailyLoss)
                        /\ 100 * equity > best' * (100 - MaxDrawdown)
      OBVIOUS
    <2>1. Evaluate
      BY DEF BreakersNext, MarketMoves, NewDay, RestartKept, RestartBare, breakerVars
    <2>2. ~Breaker(book')
      BY <2>1, Zenon DEF Evaluate
    <2>3. book'.start = opened' /\ book'.peak = best' /\ opened' \in Nat \ {0} /\ best' \in Nat \ {0}
      BY <2>1, UpdateAgrees, BreakerAssumption DEF Evaluate
    <2>4. UNCHANGED equity /\ equity \in Nat
      BY <2>1, BreakerAssumption DEF Evaluate, BreakersInv, BreakersTypeOK
    <2>5. \A s \in Nat \ {0}, l \in 0..99 :
            ~(s # 0 /\ 100 * equity <= s * (100 - l)) => 100 * equity > s * (100 - l)
      <3> SUFFICES ASSUME NEW s \in Nat \ {0}, NEW l \in 0..99,
                          ~(100 * equity <= s * (100 - l))
                   PROVE  100 * equity > s * (100 - l)
        OBVIOUS
      <3> DEFINE limit == s * (100 - l)
      <3>1. limit \in Int /\ 100 * equity \in Int /\ ~(100 * equity <= limit)
        BY <2>4
      <3> HIDE DEF limit
      <3>2. 100 * equity > limit
        BY <3>1
      <3> QED
        BY <3>2 DEF limit
    <2>6. /\ ~(opened' # 0 /\ 100 * equity <= opened' * (100 - DailyLoss))
          /\ ~(best' # 0 /\ 100 * equity <= best' * (100 - MaxDrawdown))
      BY <2>2, <2>3, Zenon DEF Breaker
    <2> QED
      BY <2>3, <2>5, <2>6, BreakerAssumption, Zenon
  <1> QED
    BY <1>1, BreakersInvariance, PTL DEF BreakersSpec, LossesStop

-----------------------------------------------------------------------------
\* EngineRecovery: the watermark is recovered.

\* Max is the greatest element wherever there is one.
LEMMA MaxIsGreatest ==
    ASSUME NEW S, IsFiniteSet(S), S \subseteq Int, S # {}
    PROVE  Max(S) \in S /\ \A y \in S : Max(S) >= y
  <1>1. \E x \in S : \A y \in S : x >= y
    BY GreatestExists
  <1> QED
    BY <1>1, Zenon DEF Max

\* What is at least every element, and an element, is the maximum.
LEMMA MaxIs ==
    ASSUME NEW S, S \subseteq Int, NEW b \in S, \A y \in S : b >= y
    PROVE  Max(S) = b
  <1>1. \E x \in S : \A y \in S : x >= y
    OBVIOUS
  <1>2. Max(S) \in S /\ \A y \in S : Max(S) >= y
    BY <1>1, Zenon DEF Max
  <1>3. Max(S) >= b /\ b >= Max(S) /\ b \in Int /\ Max(S) \in Int
    BY <1>2
  <1> QED
    BY <1>3

\* What is rebuilt, when the last order of the journal is a purchase.
LEMMA LastOrderIs ==
    ASSUME RecoveryTypeOK
    PROVE  /\ LastOrder # 0 => /\ LastOrder \in DOMAIN activities
                               /\ activities[LastOrder].side # "NONE"
           /\ \A i \in DOMAIN activities : i > LastOrder => activities[i].side = "NONE"
           /\ \A i \in DOMAIN activities : activities[i].side # "NONE" => LastOrder # 0
           /\ LastOrder \in Nat
  <1> DEFINE orders == {i \in DOMAIN activities : activities[i].side # "NONE"}
  <1>1. activities \in Seq(ActivityRow) /\ DOMAIN activities = 1..Len(activities) /\ Len(activities) \in Nat
    BY DEF RecoveryTypeOK, ActivityRow
  <1>2. LastOrder = IF orders = {} THEN 0 ELSE Max(orders)
    BY Zenon DEF LastOrder
  <1>3. IsFiniteSet(orders) /\ orders \subseteq Int
    <2>1. orders \in SUBSET (1..Len(activities)) /\ IsFiniteSet(1..Len(activities))
      BY <1>1, FS_Interval
    <2>2. orders \subseteq Int
      BY <1>1
    <2> HIDE DEF orders
    <2> QED
      BY <2>1, <2>2, FS_Subset
  <1>4. CASE orders = {}
    BY <1>1, <1>2, <1>4
  <1>5. CASE orders # {}
    <2>1. LastOrder \in orders /\ \A i \in orders : LastOrder >= i
      <3> HIDE DEF orders
      <3> QED
        BY <1>2, <1>3, <1>5, MaxIsGreatest
    <2>2. LastOrder \in 1..Len(activities)
      BY <1>1, <2>1
    <2>3. ASSUME NEW i \in DOMAIN activities, i > LastOrder PROVE i \notin orders
      <3> HIDE DEF orders
      <3> QED
        BY <1>1, <2>1, <2>2, <2>3
    <2> QED
      BY <1>1, <2>1, <2>2, <2>3
  <1> QED
    BY <1>4, <1>5

\* The prices of some activities are prices.
LEMMA Priced ==
    ASSUME RecoveryTypeOK
    PROVE  \A i \in DOMAIN activities :
             activities[i].price \in Marks /\ activities[i].paid \in Marks
  <1>1. activities \in Seq(ActivityRow)
    BY DEF RecoveryTypeOK, ActivityRow
  <1>2. \A i \in DOMAIN activities : activities[i] \in ActivityRow
    BY <1>1
  <1> QED
    BY <1>2, Zenon DEF ActivityRow

\* An engine rebuilt from the purchase that made the position has its entry and its watermark.
LEMMA RecoveredFrom ==
    ASSUME RecoveryTypeOK, NEW n \in Nat, n > 0, NEW p \in Marks,
           LastOrder # 0, activities[LastOrder].side = "BUY"
    PROVE  /\ Recovered(n, p) \in [entry : Nat, high : Nat, cooling : BOOLEAN]
           /\ Recovered(n, p).entry = activities[LastOrder].paid
           /\ Recovered(n, p).high >= activities[LastOrder].paid
           /\ \A i \in LastOrder..Len(activities) : Recovered(n, p).high >= activities[i].price
           /\ \/ Recovered(n, p).high \in {p, activities[LastOrder].paid}
              \/ \E i \in LastOrder..Len(activities) : Recovered(n, p).high = activities[i].price
  <1> DEFINE prices == {activities[i].price : i \in LastOrder..Len(activities)}
             paid == activities[LastOrder].paid
             all == {paid, p} \cup prices
  <1>1. /\ Marks \subseteq Nat /\ DOMAIN activities = 1..Len(activities)
        /\ Len(activities) \in Nat
    BY RecoveryAssumption DEF RecoveryTypeOK
  <1>2. LastOrder \in DOMAIN activities
    BY LastOrderIs
  <1>3. LastOrder..Len(activities) \subseteq DOMAIN activities
    BY <1>1, <1>2
  <1>4. prices \subseteq Nat /\ paid \in Nat /\ p \in Nat
    BY <1>1, <1>2, <1>3, Priced
  <1>5. IsFiniteSet(prices)
    <2>1. IsFiniteSet(LastOrder..Len(activities))
      BY <1>1, <1>2, FS_Interval
    <2> DEFINE price == [i \in LastOrder..Len(activities) |-> activities[i].price]
    <2>2. prices = {price[i] : i \in LastOrder..Len(activities)}
      OBVIOUS
    <2> HIDE DEF price
    <2> QED
      BY <2>1, <2>2, ImageIsFinite, ZenonT(60)
  <1>6. IsFiniteSet(all) /\ all # {} /\ all \subseteq Int /\ all \subseteq Nat
    <2> HIDE DEF prices, paid
    <2>1. IsFiniteSet(prices \cup {paid})
      BY <1>5, FS_AddElement
    <2>2. IsFiniteSet((prices \cup {paid}) \cup {p})
      BY <2>1, FS_AddElement
    <2>3. all = (prices \cup {paid}) \cup {p}
      OBVIOUS
    <2> QED
      BY <1>4, <2>2, <2>3
  <1>7. Max(all) \in all /\ \A y \in all : Max(all) >= y
    <2> HIDE DEF all
    <2> QED
      BY <1>6, MaxIsGreatest
  <1>8. n # 0
    OBVIOUS
  <1>9. Recovered(n, p) = [entry |-> paid, high |-> Max(all), cooling |-> FALSE]
    BY <1>8, Zenon DEF Recovered
  <1>10. \A i \in LastOrder..Len(activities) : activities[i].price \in all
    OBVIOUS
  <1>11. Max(all) \in Nat
    BY <1>6, <1>7
  <1>12. paid \in all
    OBVIOUS
  <1>13. \/ Max(all) \in {p, paid}
         \/ \E i \in LastOrder..Len(activities) : Max(all) = activities[i].price
    BY <1>7, Zenon
  <1> HIDE DEF all
  <1> QED
    BY <1>4, <1>7, <1>9, <1>10, <1>11, <1>12, <1>13

\* What is rebuilt is an engine in every case.
LEMMA RecoveredType ==
    ASSUME RecoveryTypeOK, NEW n \in Nat, NEW p \in Marks
    PROVE  Recovered(n, p) \in [entry : Nat, high : Nat, cooling : BOOLEAN]
  <1>1. Marks \subseteq Nat
    BY RecoveryAssumption
  <1>2. CASE n = 0
    <2>1. (activities # <<>> /\ Last(activities).long) \in BOOLEAN
      OBVIOUS
    <2>2. Recovered(n, p) = Flat(activities # <<>> /\ Last(activities).long)
      BY <1>2, Zenon DEF Recovered
    <2> QED
      BY <2>1, <2>2 DEF Flat
  <1>3. CASE n # 0 /\ ~(LastOrder # 0 /\ activities[LastOrder].side = "BUY")
    <2>1. Recovered(n, p) = [entry |-> p, high |-> p, cooling |-> FALSE]
      BY <1>3, Zenon DEF Recovered
    <2> QED
      BY <1>1, <2>1
  <1>4. CASE n # 0 /\ LastOrder # 0 /\ activities[LastOrder].side = "BUY"
    BY <1>4, RecoveredFrom
  <1> QED
    BY <1>2, <1>3, <1>4

\* An empty journal and a flat account agree.
LEMMA RecoveryInitially == RecoveryInit => RecoveryInv
  <1> SUFFICES ASSUME RecoveryInit PROVE RecoveryInv
    OBVIOUS
  <1>1. engine \in [entry : Nat, high : Nat, cooling : BOOLEAN]
    BY DEF RecoveryInit, Flat
  <1>2. /\ activities = <<>> /\ Len(activities) <= MaxActivities /\ lots = 0 /\ seen = 0
        /\ shown = 0
    BY RecoveryAssumption DEF RecoveryInit
  <1>3. ~plain /\ plain \in BOOLEAN /\ alive \in BOOLEAN
    BY Zenon DEF RecoveryInit
  <1>4. activities \in Seq(ActivityRow)
    BY <1>2
  <1> QED
    BY <1>1, <1>2, <1>3, <1>4 DEF RecoveryInv, RecoveryTypeOK

\* An activity is appended.
LEMMA JournalGrows ==
    ASSUME RecoveryTypeOK, NEW e \in ActivityRow, activities' = Append(activities, e)
    PROVE  /\ activities' \in Seq(ActivityRow) /\ Len(activities') = Len(activities) + 1
           /\ Len(activities) \in Nat /\ DOMAIN activities = 1..Len(activities)
           /\ DOMAIN activities' = 1..(Len(activities) + 1)
           /\ activities'[Len(activities) + 1] = e
           /\ \A i \in DOMAIN activities : activities'[i] = activities[i]
  <1>1. activities \in Seq(ActivityRow)
    BY DEF RecoveryTypeOK, ActivityRow
  <1> QED
    BY <1>1, AppendProperties

\* The watermark of an evaluation.
LEMMA EvaluatedIs ==
    ASSUME RecoveryTypeOK, NEW p \in Marks, NEW r \in Marks
    PROVE  LET e == Evaluated(p, r)
           IN  /\ e \in [entry : Nat, high : Nat, cooling : BOOLEAN] /\ e.entry = engine.entry
               /\ lots > 0 => e.high = Higher(engine.high, Higher(p, r))
  <1>1. engine \in [entry : Nat, high : Nat, cooling : BOOLEAN] /\ lots \in 0..2
        /\ p \in Nat /\ r \in Nat
    BY RecoveryAssumption DEF RecoveryTypeOK
  <1> DEFINE h == IF lots > 0 THEN Higher(engine.high, Higher(p, r)) ELSE engine.high
  <1>2. h \in Nat
    BY <1>1 DEF Higher
  <1>3. Evaluated(p, r) = [engine EXCEPT !.high = h]
    BY <1>1 DEF Evaluated
  <1> HIDE DEF h
  <1>4. /\ Evaluated(p, r) \in [entry : Nat, high : Nat, cooling : BOOLEAN]
        /\ Evaluated(p, r).entry = engine.entry /\ Evaluated(p, r).high = h
    BY <1>1, <1>2, <1>3
  <1> QED
    BY <1>4 DEF h

\* Something that is not an order happens to a position one purchase made: a line without an
\* order is appended, or none.
LEMMA StaysMadeBy ==
    ASSUME RecoveryTypeOK, NEW b \in DOMAIN activities, MadeBy(b),
           engine'.entry = engine.entry, engine'.high \in Nat, seen' \in Nat, shown' \in Nat,
           shown' <= engine'.high, engine'.high <= seen', seen <= seen',
           \/ activities' = activities /\ shown' = shown
           \/ \E e \in ActivityRow :
                /\ e.side = "NONE" /\ e.price <= seen'
                /\ activities' = Append(activities, e)
                /\ shown' = shown \/ shown' <= e.price
    PROVE  \E c \in DOMAIN activities' : MadeBy(c)'
  <1>1. /\ activities \in Seq(ActivityRow) /\ Marks \subseteq Nat
        /\ seen \in Nat /\ DOMAIN activities = 1..Len(activities) /\ Len(activities) \in Nat
    BY RecoveryAssumption DEF RecoveryTypeOK
  <1>2. \A i \in DOMAIN activities :
          activities[i].price \in Nat /\ activities[i].paid \in Nat
    BY <1>1, Priced
  <1>3. /\ activities[b].side = "BUY" /\ engine.entry = activities[b].paid
        /\ \A i \in DOMAIN activities : i > b => activities[i].side = "NONE"
        /\ activities[b].paid <= seen
        /\ \A i \in b..Len(activities) : activities[i].price <= seen
        /\ shown <= activities[b].paid \/ \E i \in b..Len(activities) : shown <= activities[i].price
    BY DEF MadeBy
  <1>4. /\ activities[b].paid <= seen'
        /\ \A i \in b..Len(activities) : activities[i].price <= seen'
    <2>1. activities[b].paid <= seen'
      <3>1. activities[b].paid \in Nat
        BY <1>2
      <3> QED
        BY <1>1, <1>3, <3>1
    <2>2. ASSUME NEW i \in b..Len(activities) PROVE activities[i].price <= seen'
      <3>1. i \in DOMAIN activities
        BY <1>1
      <3>2. activities[i].price \in Nat /\ activities[i].price <= seen
        BY <1>2, <1>3, <3>1
      <3> QED
        BY <1>1, <3>2
    <2> QED
      BY <2>1, <2>2
  <1>5. CASE activities' = activities /\ shown' = shown
    <2>1. MadeBy(b)'
      BY <1>3, <1>4, <1>5, Zenon DEF MadeBy
    <2> QED
      BY <1>5, <2>1
  <1>6. CASE \E e \in ActivityRow :
                /\ e.side = "NONE" /\ e.price <= seen'
                /\ activities' = Append(activities, e)
                /\ shown' = shown \/ shown' <= e.price
    <2>1. PICK e \in ActivityRow :
                /\ e.side = "NONE" /\ e.price <= seen'
                /\ activities' = Append(activities, e)
                /\ shown' = shown \/ shown' <= e.price
      BY <1>6
    <2>2. /\ Len(activities') = Len(activities) + 1
          /\ DOMAIN activities' = 1..(Len(activities) + 1)
          /\ activities'[Len(activities) + 1] = e
          /\ \A i \in DOMAIN activities : activities'[i] = activities[i]
      BY <2>1, JournalGrows
    <2> DEFINE k == Len(activities)
    <2> HIDE DEF k
    <2>3. k \in Nat /\ b \in 1..k /\ b \in Nat /\ b \in DOMAIN activities'
          /\ DOMAIN activities = 1..k /\ DOMAIN activities' = 1..(k + 1) /\ Len(activities') = k + 1
      BY <1>1, <2>2 DEF k
    <2>4. \A i \in 1..(k + 1) : i = k + 1 \/ i \in 1..k
      BY <2>3
    <2>5. activities'[b].side = "BUY" /\ engine'.entry = activities'[b].paid
          /\ activities'[b].paid <= seen'
      BY <1>3, <1>4, <2>2
    <2>6. \A i \in DOMAIN activities' : i > b => activities'[i].side = "NONE"
      <3> SUFFICES ASSUME NEW i \in DOMAIN activities', i > b PROVE activities'[i].side = "NONE"
        OBVIOUS
      <3>1. CASE i = k + 1
        BY <2>1, <2>2, <3>1 DEF k
      <3>2. CASE i \in 1..k
        BY <1>3, <2>2, <2>3, <3>2
      <3> QED
        BY <2>3, <2>4, <3>1, <3>2
    <2>7. \A i \in b..Len(activities') : activities'[i].price <= seen'
      <3> SUFFICES ASSUME NEW i \in b..Len(activities') PROVE activities'[i].price <= seen'
        OBVIOUS
      <3>1. CASE i = k + 1
        BY <2>1, <2>2, <3>1 DEF k
      <3>2. CASE i # k + 1
        <4>1. i \in b..k /\ i \in DOMAIN activities
          BY <2>3, <3>2
        <4> QED
          BY <1>4, <2>2, <4>1 DEF k
      <3> QED
        BY <3>1, <3>2
    <2>8. shown' <= activities'[b].paid
          \/ \E i \in b..Len(activities') : shown' <= activities'[i].price
      <3>1. CASE shown' <= e.price
        <4>1. k + 1 \in b..Len(activities') /\ activities'[k + 1] = e
          BY <2>2, <2>3 DEF k
        <4> QED
          BY <3>1, <4>1
      <3>2. CASE shown' = shown /\ shown <= activities[b].paid
        BY <2>2, <3>2
      <3>3. CASE shown' = shown /\ \E i \in b..Len(activities) : shown <= activities[i].price
        <4>1. PICK i \in b..Len(activities) : shown <= activities[i].price
          BY <3>3
        <4>2. i \in b..Len(activities') /\ i \in DOMAIN activities
          BY <2>3 DEF k
        <4> QED
          BY <2>2, <3>3, <4>1, <4>2
      <3> QED
        BY <1>3, <2>1, <3>1, <3>2, <3>3
    <2>9. MadeBy(b)'
      BY <2>5, <2>6, <2>7, <2>8 DEF MadeBy
    <2> QED
      BY <2>3, <2>9
  <1> QED
    BY <1>5, <1>6

\* Orders, holds, deaths and starts keep journal, engine and position in agreement.
LEMMA RecoveryStep ==
    ASSUME RecoveryInv, [RecoveryNext]_recoveryVars PROVE RecoveryInv'
  <1> USE RecoveryAssumption
  <1>1. RecoveryTypeOK /\ (lots = 0 => seen = 0 /\ shown = 0 /\ ~plain)
    BY DEF RecoveryInv
  <1>2. /\ lots \in 0..2 /\ seen \in Nat
        /\ shown \in Nat
        /\ engine \in [entry : Nat, high : Nat, cooling : BOOLEAN]
        /\ Marks \subseteq Nat /\ activities \in Seq(ActivityRow) /\ Len(activities) <= MaxActivities
    BY <1>1 DEF RecoveryTypeOK
  <1>3. engine.entry \in Nat /\ engine.high \in Nat /\ plain \in BOOLEAN /\ alive \in BOOLEAN
    BY <1>1, <1>2 DEF RecoveryTypeOK
  <1>4. CASE HoldEvent
    <2>1. PICK p \in Marks, r \in Marks, q \in Marks :
         /\ engine' = Evaluated(p, r)
         /\ \/ /\ Journalled([side |-> "NONE", paid |-> q, price |-> q, long |-> lots > 0])
               /\ shown' = IF lots > 0 THEN Higher(shown, Lower(q, engine'.high)) ELSE 0
               /\ seen' = Higher(Met(p, r), IF lots > 0 THEN q ELSE 0)
            \/ Unrecorded /\ UNCHANGED shown /\ seen' = Met(p, r)
      BY <1>4 DEF HoldEvent
    <2>2. lots' = lots /\ plain' = plain
      BY <1>4 DEF HoldEvent
    <2>3. /\ engine' \in [entry : Nat, high : Nat, cooling : BOOLEAN]
          /\ engine'.entry = engine.entry /\ engine'.high \in Nat
          /\ lots > 0 => engine'.high = Higher(engine.high, Higher(p, r))
      <3>1. /\ Evaluated(p, r) \in [entry : Nat, high : Nat, cooling : BOOLEAN]
            /\ Evaluated(p, r).entry = engine.entry
            /\ lots > 0 => Evaluated(p, r).high = Higher(engine.high, Higher(p, r))
        BY <1>1, EvaluatedIs
      <3> QED
        BY <2>1, <3>1
    <2>4. p \in Nat /\ q \in Nat /\ r \in Nat
      BY <1>2
    <2>5. Met(p, r) \in Nat
          /\ (lots > 0 => seen <= Met(p, r) /\ p <= Met(p, r) /\ r <= Met(p, r))
          /\ (lots = 0 => Met(p, r) = 0)
      BY <1>2, <2>4 DEF Met, Higher
    <2> DEFINE e == [side |-> "NONE", paid |-> q, price |-> q, long |-> lots > 0]
    <2>6. e \in ActivityRow /\ e.side = "NONE" /\ e.price = q
      BY DEF ActivityRow
    <2> HIDE DEF e
    <2>7. CASE Unrecorded /\ UNCHANGED shown /\ seen' = Met(p, r)
      <3>1. activities' = activities /\ alive' \in BOOLEAN /\ shown' = shown
        BY <2>7, Zenon DEF Unrecorded
      <3>2. RecoveryTypeOK'
        BY <1>2, <1>3, <2>2, <2>3, <2>5, <2>7, <3>1, Zenon DEF RecoveryTypeOK
      <3>3. ASSUME plain' PROVE \E c \in DOMAIN activities' : MadeBy(c)'
        <4>1. lots > 0 /\ plain
          BY <1>1, <1>2, <2>2, <3>3
        <4>2. PICK b \in DOMAIN activities : MadeBy(b)
          BY <4>1 DEF RecoveryInv
        <4>3. shown <= engine.high /\ engine.high <= seen
          BY <4>2 DEF MadeBy
        <4>4. shown' <= engine'.high /\ engine'.high <= seen' /\ seen <= seen' /\ seen' \in Nat
          BY <1>2, <1>3, <2>3, <2>4, <2>5, <2>7, <3>1, <4>1, <4>3 DEF Higher
        <4> QED
          BY <1>1, <1>2, <2>3, <3>1, <4>2, <4>4, StaysMadeBy
      <3> QED
        BY <1>1, <2>2, <2>5, <2>7, <3>1, <3>2, <3>3 DEF RecoveryInv
    <2>8. CASE /\ Journalled(e)
               /\ shown' = IF lots > 0 THEN Higher(shown, Lower(q, engine'.high)) ELSE 0
               /\ seen' = Higher(Met(p, r), IF lots > 0 THEN q ELSE 0)
      <3>1. /\ Len(activities) < MaxActivities /\ activities' = Append(activities, e)
            /\ alive' = alive
        BY <2>8, Zenon DEF Journalled
      <3>2. /\ activities' \in Seq(ActivityRow) /\ Len(activities') = Len(activities) + 1
            /\ Len(activities) \in Nat
        BY <1>1, <2>6, <3>1, JournalGrows
      <3>3. /\ lots = 0 => seen' = 0 /\ shown' = 0
            /\ seen' \in Nat
            /\ lots > 0 => Met(p, r) <= seen' /\ q <= seen'
        BY <1>2, <2>4, <2>5, <2>8 DEF Higher
      <3>5. ASSUME plain'
            PROVE  \E c \in DOMAIN activities' : MadeBy(c)'
        <4>1. lots > 0 /\ plain
          BY <1>1, <1>2, <2>2, <3>5
        <4>2. PICK b \in DOMAIN activities : MadeBy(b)
          BY <4>1 DEF RecoveryInv
        <4>3. shown <= engine.high /\ engine.high <= seen
          BY <4>2 DEF MadeBy
        <4>4. engine'.high <= seen' /\ seen <= seen'
          BY <1>2, <1>3, <2>3, <2>4, <2>5, <3>3, <4>1, <4>3 DEF Higher
        <4>5. shown' = Higher(shown, Lower(q, engine'.high))
          BY <2>8, <4>1
        <4>6. shown' <= engine'.high /\ shown' \in Nat /\ (shown' = shown \/ shown' <= q)
          BY <1>2, <1>3, <2>3, <2>4, <4>1, <4>3, <4>5 DEF Higher, Lower
        <4>7. q <= seen' /\ seen' \in Nat
          BY <3>3, <4>1
        <4>8. \E a \in ActivityRow :
                /\ a.side = "NONE" /\ a.price <= seen'
                /\ activities' = Append(activities, a)
                /\ shown' = shown \/ shown' <= a.price
          <5>1. e \in ActivityRow /\ e.side = "NONE" /\ e.price = q
            BY <2>6
          <5>2. activities' = Append(activities, e) /\ e.price <= seen'
                /\ (shown' = shown \/ shown' <= e.price)
            BY <3>1, <4>6, <4>7, <5>1
          <5> QED
            BY <5>1, <5>2
        <4> QED
          BY <1>1, <2>3, <4>2, <4>4, <4>6, <4>7, <4>8, StaysMadeBy
      <3>6. shown' \in Nat
        BY <1>2, <2>3, <2>4, <2>8 DEF Higher, Lower
      <3>7. RecoveryTypeOK'
        <4>1. Len(activities') <= MaxActivities
          BY <3>1, <3>2
        <4> QED
          BY <1>2, <1>3, <2>2, <2>3, <3>1, <3>2, <3>3, <3>6, <4>1 DEF RecoveryTypeOK
      <3> QED
        BY <1>1, <2>2, <3>3, <3>5, <3>7 DEF RecoveryInv
    <2> QED
      BY <2>1, <2>7, <2>8 DEF e
  <1>5. CASE BuyEvent
    <2>1. PICK e \in Decided, p \in Marks, q \in Marks :
         /\ \/ /\ engine' = Bought(e, p)
               /\ Journalled([side |-> "BUY", paid |-> p, price |-> q, long |-> TRUE])
               /\ plain' = (lots = 0) /\ shown' = Higher(shown, p)
            \/ /\ engine' \in {e, Bought(e, p)}
               /\ Unrecorded /\ plain' = FALSE /\ UNCHANGED shown
         /\ seen' = Higher(Higher(seen, e.high), Higher(p, q))
      BY <1>5 DEF BuyEvent
    <2>2. lots < 2 /\ lots' = lots + 1 /\ lots' \in 1..2 /\ lots' \in 0..2 /\ lots' # 0
      BY <1>2, <1>5 DEF BuyEvent
    <2>3. e \in [entry : Nat, high : Nat, cooling : BOOLEAN] /\ e.entry \in Nat /\ e.high \in Nat
      BY <1>1, EvaluatedIs DEF Decided
    <2>4. p \in Nat /\ q \in Nat /\ seen' \in Nat
      BY <1>2, <2>1, <2>3 DEF Higher
    <2>5. /\ Bought(e, p) \in [entry : Nat, high : Nat, cooling : BOOLEAN]
          /\ lots = 0 => Bought(e, p).entry = p /\ Bought(e, p).high = p
      <3>1. CASE lots = 0
        BY <2>4, <3>1 DEF Bought
      <3>2. CASE lots = 1
        <4>1. (e.entry * lots + p) \div (lots + 1) \in Nat /\ Higher(e.high, p) \in Nat
          BY <2>3, <2>4, <3>2 DEF Higher
        <4>2. Bought(e, p) = [entry |-> (e.entry * lots + p) \div (lots + 1),
                              high |-> Higher(e.high, p), cooling |-> FALSE]
          BY <3>2 DEF Bought
        <4> HIDE DEF Bought
        <4> QED
          BY <3>2, <4>1, <4>2
      <3> QED
        BY <1>2, <2>2, <3>1, <3>2
    <2>6. CASE /\ engine' \in {e, Bought(e, p)}
               /\ Unrecorded /\ plain' = FALSE /\ UNCHANGED shown
      <3>1. ~plain' /\ plain' \in BOOLEAN /\ alive' \in BOOLEAN
        BY <2>6, Zenon DEF Unrecorded
      <3>2. activities' = activities /\ shown' = shown
        BY <2>6, Zenon DEF Unrecorded
      <3>3. engine' \in [entry : Nat, high : Nat, cooling : BOOLEAN]
        BY <2>3, <2>5, <2>6
      <3> QED
        BY <1>2, <2>2, <2>4, <3>1, <3>2, <3>3 DEF RecoveryInv, RecoveryTypeOK
    <2>8. CASE /\ engine' = Bought(e, p)
               /\ Journalled([side |-> "BUY", paid |-> p, price |-> q, long |-> TRUE])
               /\ plain' = (lots = 0) /\ shown' = Higher(shown, p)
      <3> DEFINE line == [side |-> "BUY", paid |-> p, price |-> q, long |-> TRUE]
      <3>1. line \in ActivityRow /\ line.side = "BUY" /\ line.price = q /\ line.paid = p
        BY DEF ActivityRow
      <3>2. Len(activities) < MaxActivities /\ activities' = Append(activities, line) /\ alive' = alive
        BY <2>8 DEF Journalled
      <3> HIDE DEF line
      <3>3. /\ activities' \in Seq(ActivityRow) /\ Len(activities') = Len(activities) + 1
            /\ Len(activities) \in Nat /\ DOMAIN activities = 1..Len(activities)
            /\ DOMAIN activities' = 1..(Len(activities) + 1)
            /\ activities'[Len(activities) + 1] = line
        BY <1>1, <3>1, <3>2, JournalGrows
      <3>4. plain' = (lots = 0) /\ plain' \in BOOLEAN /\ alive' \in BOOLEAN
        BY <1>3, <2>8, <3>2, Zenon
      <3>5. shown' = Higher(shown, p) /\ shown' \in Nat
        BY <1>2, <2>4, <2>8 DEF Higher
      <3>6. Len(activities') <= MaxActivities
        BY <3>2, <3>3
      <3>7. RecoveryTypeOK'
        BY <2>2, <2>5, <2>4, <2>8, <3>3, <3>4, <3>5, <3>6 DEF RecoveryTypeOK
      <3>8. ASSUME plain' PROVE \E b \in DOMAIN activities' : MadeBy(b)'
        <4> PICK b \in Nat : b = Len(activities) + 1
          BY <3>3
        <4>1. lots = 0 /\ seen = 0 /\ shown = 0
          <5>1. lots = 0
            BY <3>4, <3>8, Zenon
          <5> QED
            BY <1>1, <5>1
        <4>2. engine'.entry = p /\ engine'.high = p /\ shown' = p
          BY <2>4, <2>5, <2>8, <3>5, <4>1 DEF Higher
        <4>3. p <= seen' /\ q <= seen'
          BY <2>1, <2>3, <2>4, <4>1 DEF Higher
        <4>4. b \in DOMAIN activities' /\ activities'[b] = line /\ b..Len(activities') = {b}
              /\ \A i \in DOMAIN activities' : ~(i > b)
          BY <3>3
        <4>5. /\ activities'[b].side = "BUY" /\ engine'.entry = activities'[b].paid
              /\ activities'[b].paid <= seen' /\ shown' <= activities'[b].paid
              /\ \A i \in b..Len(activities') : activities'[i].price <= seen'
          BY <2>4, <3>1, <4>2, <4>3, <4>4
        <4>6. MadeBy(b)'
          BY <2>4, <4>2, <4>3, <4>4, <4>5 DEF MadeBy
        <4> QED
          BY <4>4, <4>6
      <3> QED
        BY <2>2, <3>7, <3>8 DEF RecoveryInv
    <2> QED
      BY <2>1, <2>6, <2>8
  <1>6. CASE SellEvent
    <2>1. PICK e \in Decided :
         LET sold == IF lots' = 0 THEN Flat(TRUE) ELSE e
         IN  /\ \/ /\ engine' = sold
                   /\ \E q \in Marks :
                        Journalled([side |-> "SELL", paid |-> q, price |-> q, long |-> lots' > 0])
                \/ engine' \in {e, sold} /\ Unrecorded
             /\ seen' = (IF lots' = 0 THEN 0 ELSE Higher(seen, e.high))
      BY <1>6 DEF SellEvent
    <2>2. /\ lots > 0 /\ lots' \in {lots - 1, 0} /\ shown' = (IF lots' = 0 THEN 0 ELSE shown)
      BY <1>6 DEF SellEvent
    <2>3. plain' = FALSE /\ ~plain' /\ plain' \in BOOLEAN
      BY <1>6, Zenon DEF SellEvent
    <2>4. e \in [entry : Nat, high : Nat, cooling : BOOLEAN] /\ e.high \in Nat
      BY <1>1, EvaluatedIs DEF Decided
    <2>5. engine' \in [entry : Nat, high : Nat, cooling : BOOLEAN]
      <3>1. Flat(TRUE) \in [entry : Nat, high : Nat, cooling : BOOLEAN]
        BY DEF Flat
      <3>2. engine' \in {e, Flat(TRUE)}
        BY <2>1, Zenon
      <3> QED
        BY <2>4, <3>1, <3>2
    <2>6. lots' \in 0..2 /\ seen' \in Nat /\ shown' \in Nat /\ (lots' = 0 => seen' = 0 /\ shown' = 0)
      BY <1>2, <2>1, <2>2, <2>4 DEF Higher
    <2>7. activities' \in Seq(ActivityRow) /\ Len(activities') <= MaxActivities /\ alive' \in BOOLEAN
      <3>1. CASE Unrecorded
        BY <1>2, <3>1 DEF Unrecorded
      <3>2. CASE \E q \in Marks :
                   Journalled([side |-> "SELL", paid |-> q, price |-> q, long |-> lots' > 0])
        <4>1. PICK q \in Marks :
                Journalled([side |-> "SELL", paid |-> q, price |-> q, long |-> lots' > 0])
          BY <3>2
        <4> DEFINE line == [side |-> "SELL", paid |-> q, price |-> q, long |-> lots' > 0]
        <4>2. line \in ActivityRow
          BY DEF ActivityRow
        <4>3. Len(activities) < MaxActivities /\ activities' = Append(activities, line) /\ alive' = alive
          BY <4>1 DEF Journalled
        <4> HIDE DEF line
        <4>4. /\ activities' \in Seq(ActivityRow) /\ Len(activities') = Len(activities) + 1
              /\ Len(activities) \in Nat
          BY <1>1, <4>2, <4>3, JournalGrows
        <4> QED
          BY <1>3, <4>3, <4>4
      <3> QED
        BY <2>1, <3>1, <3>2, Zenon
    <2> QED
      BY <2>3, <2>5, <2>6, <2>7 DEF RecoveryInv, RecoveryTypeOK
  <1>7. CASE Dies
    <2>1. UNCHANGED <<lots, engine, activities, seen, shown, plain>> /\ alive' \in BOOLEAN
      BY <1>7, Zenon DEF Dies
    <2>2. RecoveryTypeOK'
      BY <1>2, <1>3, <2>1 DEF RecoveryTypeOK
    <2>3. \A b : MadeBy(b) => MadeBy(b)'
      BY <2>1, Zenon DEF MadeBy
    <2> QED
      BY <1>1, <2>1, <2>2, <2>3 DEF RecoveryInv
  <1>8. CASE Starts
    <2>1. PICK p \in Marks, n \in {lots, 0} :
            /\ lots' = n /\ engine' \in {Restored(n, p), Recovered(n, p)}
            /\ seen' = (IF n = 0 THEN 0 ELSE Higher(seen, p))
            /\ shown' = (IF n = 0 THEN 0 ELSE shown) /\ plain' = (plain /\ n > 0)
      BY <1>8 DEF Starts
    <2>2. activities' = activities /\ alive' \in BOOLEAN
      BY <1>8, Zenon DEF Starts
    <2>3. n \in Nat /\ n \in 0..2 /\ p \in Nat /\ seen' \in Nat /\ shown' \in Nat
      BY <1>2, <2>1 DEF Higher
    <2>4. Restored(n, p) \in [entry : Nat, high : Nat, cooling : BOOLEAN]
      <3>1. CASE n = 0
        <4>1. (engine.cooling \/ engine.entry # 0) \in BOOLEAN
          OBVIOUS
        <4> QED
          BY <3>1, <4>1 DEF Restored, Flat
      <3>2. CASE n # 0
        <4> DEFINE a == IF engine.entry = 0 THEN p ELSE engine.entry
                   h == Higher(engine.high, p)
        <4>1. a \in Nat /\ h \in Nat
          BY <1>3, <2>3 DEF Higher
        <4>2. Restored(n, p) = [engine EXCEPT !.entry = a, !.high = h]
          BY <1>2, <3>2 DEF Restored
        <4> HIDE DEF a, h
        <4> QED
          BY <1>2, <4>1, <4>2
      <3> QED
        BY <3>1, <3>2
    <2>5. engine' \in [entry : Nat, high : Nat, cooling : BOOLEAN]
      BY <1>1, <2>1, <2>3, <2>4, RecoveredType
    <2>6. plain' \in BOOLEAN
      BY <2>1
    <2>7. RecoveryTypeOK'
      BY <1>2, <2>1, <2>2, <2>3, <2>5, <2>6 DEF RecoveryTypeOK
    <2>8. lots' = 0 => seen' = 0 /\ shown' = 0 /\ ~plain'
      <3>1. n = 0 => ~(n > 0)
        OBVIOUS
      <3>2. plain' => n > 0
        BY <2>1, Zenon
      <3>3. lots' = 0 => n = 0 /\ seen' = 0 /\ shown' = 0
        BY <2>1
      <3> QED
        BY <3>1, <3>2, <3>3
    <2>9. ASSUME plain' PROVE \E b \in DOMAIN activities' : MadeBy(b)'
      <3>1. plain /\ n > 0 /\ n = lots /\ seen' = Higher(seen, p) /\ shown' = shown
        <4>1. plain /\ n > 0
          BY <2>1, <2>9, Zenon
        <4> QED
          BY <1>2, <2>1, <4>1
      <3>2. PICK b \in DOMAIN activities : MadeBy(b)
        BY <3>1 DEF RecoveryInv
      <3>3. seen <= seen' /\ p <= seen' /\ engine'.high \in Nat
        BY <1>2, <2>3, <2>5, <3>1 DEF Higher
      <3>4. b \in 1..Len(activities) /\ Len(activities) \in Nat /\ DOMAIN activities = 1..Len(activities)
        BY <1>2
      <3>5. CASE engine' = Restored(n, p)
        <4>1. engine.entry = activities[b].paid /\ engine.entry # 0
          <5>1. activities[b].paid \in Marks
            BY <1>1, <3>2, Priced
          <5> QED
            BY <1>2, <3>2, <5>1 DEF MadeBy
        <4>2. engine'.entry = engine.entry /\ engine'.high = Higher(engine.high, p)
          <5>1. Restored(n, p) = [engine EXCEPT !.entry = IF engine.entry = 0 THEN p ELSE engine.entry,
                                                !.high = Higher(engine.high, p)]
            BY <1>2, <3>1 DEF Restored
          <5> QED
            BY <1>2, <3>5, <4>1, <5>1
        <4>3. shown <= engine.high /\ engine.high <= seen
          BY <3>2 DEF MadeBy
        <4>4. shown' <= engine'.high /\ engine'.high <= seen'
          BY <1>2, <1>3, <2>3, <3>1, <4>2, <4>3 DEF Higher
        <4> QED
          BY <1>1, <2>2, <2>3, <3>1, <3>2, <3>3, <4>2, <4>4, StaysMadeBy
      <3>6. CASE engine' = Recovered(n, p)
        <4>1. LastOrder = b
          <5>1. LastOrder # 0 /\ LastOrder \in DOMAIN activities /\ activities[LastOrder].side # "NONE"
            BY <1>1, <3>2, LastOrderIs DEF MadeBy
          <5>2. ~(b > LastOrder) /\ ~(LastOrder > b)
            BY <1>1, <3>2, <5>1, LastOrderIs DEF MadeBy
          <5>3. LastOrder \in Nat
            BY <1>1, LastOrderIs
          <5> QED
            BY <3>4, <5>2, <5>3
        <4>2. LastOrder # 0 /\ activities[LastOrder].side = "BUY"
          BY <3>2, <3>4, <4>1 DEF MadeBy
        <4>3. /\ engine'.entry = activities[b].paid /\ engine'.high >= activities[b].paid
              /\ \A i \in b..Len(activities) : engine'.high >= activities[i].price
              /\ \/ engine'.high \in {p, activities[b].paid}
                 \/ \E i \in b..Len(activities) : engine'.high = activities[i].price
          BY <1>1, <2>3, <3>1, <3>6, <4>1, <4>2, RecoveredFrom
        <4>4. /\ activities[b].paid <= seen /\ engine.entry = activities[b].paid
              /\ \A i \in b..Len(activities) : activities[i].price <= seen
              /\ shown <= activities[b].paid \/ \E i \in b..Len(activities) : shown <= activities[i].price
          BY <3>2 DEF MadeBy
        <4>5. activities[b].paid \in Nat /\ \A i \in b..Len(activities) : activities[i].price \in Nat
          <5>1. \A i \in b..Len(activities) : i \in DOMAIN activities
            BY <3>4
          <5> QED
            BY <1>1, <1>2, <3>2, <5>1, Priced
        <4>6. shown' <= engine'.high
          <5>1. CASE shown <= activities[b].paid
            BY <1>2, <3>1, <3>3, <4>3, <4>5, <5>1
          <5>2. CASE \E i \in b..Len(activities) : shown <= activities[i].price
            <6>1. PICK i \in b..Len(activities) : shown <= activities[i].price
              BY <5>2
            <6>2. engine'.high >= activities[i].price /\ activities[i].price \in Nat
              BY <4>3, <4>5
            <6> QED
              BY <1>2, <3>1, <3>3, <6>1, <6>2
          <5> QED
            BY <4>4, <5>1, <5>2
        <4>7. engine'.high <= seen'
          <5>1. CASE engine'.high = p
            BY <3>3, <5>1
          <5>2. CASE engine'.high = activities[b].paid
            BY <1>2, <2>3, <3>3, <4>4, <4>5, <5>2
          <5>3. CASE \E i \in b..Len(activities) : engine'.high = activities[i].price
            <6>1. PICK i \in b..Len(activities) : engine'.high = activities[i].price
              BY <5>3
            <6>2. activities[i].price <= seen
              BY <4>4
            <6> QED
              BY <1>2, <2>3, <3>3, <6>1, <6>2
          <5> QED
            BY <4>3, <5>1, <5>2, <5>3
        <4>8. engine'.entry = engine.entry
          BY <4>3, <4>4
        <4> QED
          BY <1>1, <2>2, <2>3, <3>1, <3>2, <3>3, <4>6, <4>7, <4>8, StaysMadeBy
      <3> QED
        BY <2>1, <3>5, <3>6
    <2> QED
      BY <2>7, <2>8, <2>9 DEF RecoveryInv
  <1>9. CASE UNCHANGED recoveryVars
    <2>1. UNCHANGED <<alive, lots, engine, activities, seen, shown, plain>>
      BY <1>9, Zenon DEF recoveryVars
    <2>2. RecoveryTypeOK'
      BY <1>2, <1>3, <2>1 DEF RecoveryTypeOK
    <2>3. \A b : MadeBy(b) => MadeBy(b)'
      BY <2>1, Zenon DEF MadeBy
    <2> QED
      BY <1>1, <2>1, <2>2, <2>3 DEF RecoveryInv
  <1> QED
    BY <1>4, <1>5, <1>6, <1>7, <1>8, <1>9 DEF RecoveryNext

\* Then the entry is the purchase's, and the watermark between what is shown and what was met.
LEMMA RecoverySafe == RecoveryInv => WatermarkIsRecovered
  <1> SUFFICES ASSUME RecoveryInv, plain
               PROVE  /\ engine.entry = activities[Max({i \in DOMAIN activities :
                                                activities[i].side = "BUY"})].paid
                      /\ shown <= engine.high /\ engine.high <= seen
    BY DEF WatermarkIsRecovered
  <1>1. PICK b \in DOMAIN activities : MadeBy(b)
    BY DEF RecoveryInv
  <1> DEFINE bought == {i \in DOMAIN activities : activities[i].side = "BUY"}
  <1>2. activities \in Seq(ActivityRow)
    BY DEF RecoveryInv, RecoveryTypeOK
  <1>3. b \in bought /\ bought \subseteq Int /\ \A i \in bought : b >= i
    <2>1. ASSUME NEW i \in bought PROVE b >= i
      <3>1. ~(i > b) /\ i \in Nat /\ b \in Nat
        BY <1>1, <1>2 DEF MadeBy
      <3> QED
        BY <3>1
    <2> QED
      BY <1>1, <1>2, <2>1 DEF MadeBy
  <1>4. Max(bought) = b
    <2> HIDE DEF bought
    <2> QED
      BY <1>3, MaxIs
  <1> QED
    BY <1>1, <1>4 DEF MadeBy

-----------------------------------------------------------------------------
\* DelayedLabels: labels are honest.

\* What is kept of a list in the order of observation is in that order.
LEMMA KeptRises ==
    ASSUME NEW S, NEW s \in Seq(S), NEW T, Rising(s)
    PROVE  Rising(Kept(s, T))
  <1> DEFINE k == Kept(s, T)
  <1>1. \A i, j \in DOMAIN k : i < j =>
          \E a, b \in DOMAIN s : a < b /\ k[i] = s[a] /\ k[j] = s[b]
    BY KeptInOrder
  <1> HIDE DEF k
  <1> SUFFICES ASSUME NEW i \in DOMAIN k, NEW j \in DOMAIN k, i < j PROVE k[i].at < k[j].at
    BY DEF Rising, k
  <1>2. PICK a \in DOMAIN s, b \in DOMAIN s : a < b /\ k[i] = s[a] /\ k[j] = s[b]
    BY <1>1
  <1> QED
    BY <1>2 DEF Rising

\* What an observation makes of the examples whose horizon passed.
Made(out, now) ==
    /\ out \in Seq(LabelRow) /\ Rising(out)
    /\ \A i \in DOMAIN out :
         /\ out[i].seen = now /\ out[i].label # "TORN" /\ now - out[i].at >= Delay
         /\ out[i].label = "EXPIRED" <=> Late(out[i])
         /\ \E e \in DOMAIN learner.pending : learner.pending[e].at = out[i].at

\* The outcomes of one price are of examples that waited, in their order.
LEMMA OutcomesAreMade ==
    ASSUME LabelInv, NEW now \in Nat, NEW price \in LabelPrices
    PROVE  Made(Outcomes(learner, now, price), now)
  <1> DEFINE q == learner.pending
             ripe == {e \in ToSet(q) : now - e.at >= Delay}
             due == Kept(q, ripe)
             out == Outcomes(learner, now, price)
  <1>1. q \in Seq(Example) /\ Rising(q) /\ LabelPrices \subseteq Nat /\ LabelTolerance \in Nat /\ Delay \in Nat
    BY LabelAssumption DEF LabelInv, LabelTypeOK, InOrder
  <1>2. /\ due \in Seq(Example) /\ DOMAIN due = 1..Len(due) /\ Len(due) \in Nat
        /\ \A i \in DOMAIN due : due[i] \in ripe /\ \E a \in DOMAIN q : due[i] = q[a]
    <2> HIDE DEF ripe, q
    <2> QED
      BY <1>1, KeptInOrder
  <1>3. Rising(due)
    BY <1>1, KeptRises
  <1>4. out = [i \in DOMAIN due |-> Outcome(due[i], now, price)]
    BY Zenon DEF Outcomes
  <1> HIDE DEF due, out
  <1>5. ASSUME NEW i \in DOMAIN due
        PROVE  /\ Outcome(due[i], now, price) \in LabelRow
               /\ Outcome(due[i], now, price).at = due[i].at
               /\ Outcome(due[i], now, price).seen = now
               /\ Outcome(due[i], now, price).label # "TORN"
               /\ now - due[i].at >= Delay
               /\ Outcome(due[i], now, price).label = "EXPIRED"
                    <=> Late(Outcome(due[i], now, price))
               /\ \E e \in DOMAIN q : q[e].at = due[i].at
    <2>1. due[i] \in Example /\ now - due[i].at >= Delay
      BY <1>2
    <2>2. due[i].at \in Nat /\ due[i].price \in Nat
      BY <1>1, <2>1 DEF Example
    <2>3. Label(due[i].price, price) \in {"BUY", "SELL", "HOLD"}
      BY DEF Label
    <2> DEFINE at == due[i].at
               o == Outcome(due[i], now, price)
    <2>4. /\ o.at = at /\ o.seen = now /\ DOMAIN o = {"at", "seen", "label"}
          /\ o.label = IF now - at - Delay > LabelTolerance THEN "EXPIRED"
                       ELSE Label(due[i].price, price)
          /\ o \in LabelRow
      BY <2>2, <2>3 DEF Outcome, LabelRow
    <2>5. PICK e \in DOMAIN q : due[i] = q[e]
      BY <1>2
    <2> HIDE DEF o
    <2>6. (now - at - Delay > LabelTolerance) <=> Late(o)
      <3> HIDE DEF at
      <3>1. now - at - Delay > LabelTolerance <=> now - at > Delay + LabelTolerance
        BY <1>1, <2>2 DEF at
      <3> QED
        BY <2>4, <3>1 DEF Late
    <2>7. o.label # "TORN" /\ (o.label = "EXPIRED" <=> Late(o))
      BY <2>3, <2>4, <2>6
    <2> QED
      BY <2>1, <2>4, <2>5, <2>7 DEF o
  <1>6. DOMAIN out = DOMAIN due /\ \A i \in DOMAIN due : out[i] = Outcome(due[i], now, price)
    BY <1>4
  <1>7. out \in Seq(LabelRow)
    <2>1. \A i \in 1..Len(due) : Outcome(due[i], now, price) \in LabelRow
      BY <1>2, <1>5
    <2> QED
      BY <1>2, <1>4, <2>1, IsASeq
  <1>8. Rising(out)
    BY <1>3, <1>5, <1>6, ZenonT(40) DEF Rising
  <1>9. ASSUME NEW i \in DOMAIN out
        PROVE /\ out[i].seen = now /\ out[i].label # "TORN" /\ now - out[i].at >= Delay
              /\ out[i].label = "EXPIRED" <=> Late(out[i])
              /\ \E e \in DOMAIN q : q[e].at = out[i].at
    <2>1. i \in DOMAIN due /\ out[i] = Outcome(due[i], now, price)
      BY <1>6
    <2> HIDE DEF q
    <2> QED
      BY <1>5, <2>1, Zenon
  <1> QED
    BY <1>7, <1>8, <1>9 DEF Made, out

\* The rows a death or an observation leaves: some of the new ones behind the old, each as
\* it was made or torn.
Grown(new, k) ==
    /\ k \in 0..Len(new) /\ rows' \in Seq(LabelRow) /\ Len(rows') = Len(rows) + k
    /\ \A i \in 1..Len(rows) : rows'[i] = rows[i]
    /\ \A i \in 1..k : rows'[Len(rows) + i] = new[i] \/ rows'[Len(rows) + i].label = "TORN"

\* What the file says after that, of examples that still waited.
LEMMA RowsStayHonest ==
    ASSUME LabelInv, NEW now \in Nat, now > time, NEW out, Made(out, now), NEW k,
           Grown(NewRows(out), k)
    PROVE  /\ \A i, j \in Readable' : rows'[i].at = rows'[j].at => i = j
           /\ \A i \in Readable' :
                rows'[i].seen <= now /\ (rows'[i].label = "EXPIRED" => Late(rows'[i]))
           /\ \A i \in Readable' : (i \in Readable /\ rows'[i] = rows[i])
                \/ \E a \in DOMAIN out : rows'[i] = out[a]
  <1> DEFINE T == {o \in ToSet(out) : o.at \notin Known}
             new == Kept(out, T)
             n == Len(rows)
  <1>1. /\ out \in Seq(LabelRow) /\ Rising(out) /\ time \in Nat /\ rows \in Seq(LabelRow)
        /\ n \in Nat /\ DOMAIN rows = 1..n
    BY LabelAssumption DEF Made, LabelInv, LabelTypeOK
  <1>2. /\ Len(new) \in Nat /\ DOMAIN new = 1..Len(new)
        /\ \A i \in DOMAIN new : new[i] \in T /\ \E a \in DOMAIN out : new[i] = out[a]
    <2> HIDE DEF T
    <2> QED
      BY <1>1, KeptInOrder
  <1>3. Rising(new)
    BY <1>1, KeptRises
  <1>4. NewRows(out) = new
    BY Zenon DEF NewRows
  <1> HIDE DEF new, n
  <1>5. /\ k \in Nat /\ k <= Len(new) /\ DOMAIN rows' = 1..(n + k)
        /\ \A i \in 1..n : rows'[i] = rows[i]
        /\ \A i \in 1..k : rows'[n + i] = new[i] \/ rows'[n + i].label = "TORN"
    BY <1>1, <1>2, <1>4 DEF Grown, n
  <1>6. ASSUME NEW i \in Readable', i <= n PROVE (i \in Readable /\ rows'[i] = rows[i])
    BY <1>1, <1>5, <1>6 DEF Readable
  <1>7. ASSUME NEW i \in Readable', ~(i <= n)
        PROVE  i - n \in 1..k /\ i - n \in DOMAIN new /\ rows'[i] = new[i - n] /\ i \in Int
    <2>1. i \in 1..(n + k) /\ rows'[i].label # "TORN"
      BY <1>5 DEF Readable
    <2>2. i - n \in 1..k /\ n + (i - n) = i
      BY <1>1, <1>5, <1>7, <2>1
    <2> QED
      BY <1>2, <1>5, <2>1, <2>2
  <1>8. ASSUME NEW i \in DOMAIN new
        PROVE  /\ \A j \in Readable : rows[j].at # new[i].at
               /\ new[i].seen = now /\ (new[i].label = "EXPIRED" <=> Late(new[i]))
    <2>1. new[i].at \notin Known
      BY <1>2
    <2>2. \A j \in Readable : rows[j].at \in Known
      BY <1>1 DEF Known, Readable, ToSet
    <2>3. PICK a \in DOMAIN out : new[i] = out[a]
      BY <1>2
    <2> QED
      BY <2>1, <2>2, <2>3 DEF Made
  <1>9. ASSUME NEW i \in Readable', NEW j \in Readable', rows'[i].at = rows'[j].at PROVE i = j
    <2>1. CASE i <= n /\ j <= n
      BY <1>6, <1>9, <2>1 DEF LabelInv, LabelsAreHonest
    <2>2. CASE i <= n /\ ~(j <= n)
      BY <1>6, <1>7, <1>8, <1>9, <2>2
    <2>3. CASE ~(i <= n) /\ j <= n
      BY <1>6, <1>7, <1>8, <1>9, <2>3
    <2>4. CASE ~(i <= n) /\ ~(j <= n)
      <3>1. /\ i - n \in DOMAIN new /\ j - n \in DOMAIN new /\ i \in Int /\ j \in Int
            /\ rows'[i] = new[i - n] /\ rows'[j] = new[j - n]
        BY <1>7, <2>4
      <3>2. PICK a \in DOMAIN new, b \in DOMAIN new : a = i - n /\ b = j - n
        BY <3>1
      <3>3. new[a].at = new[b].at /\ new[a].at \in Nat
        <4>1. new[a] \in LabelRow
          <5>1. PICK o \in DOMAIN out : new[a] = out[o]
            BY <1>2
          <5> QED
            BY <1>1, <5>1
        <4> QED
          BY <1>9, <3>1, <3>2, <4>1 DEF LabelRow
      <3>4. ~(a < b) /\ ~(b < a)
        BY <1>3, <3>3 DEF Rising
      <3>5. a \in Nat /\ b \in Nat
        BY <1>2
      <3> QED
        BY <1>1, <3>1, <3>2, <3>4, <3>5
    <2> QED
      BY <2>1, <2>2, <2>3, <2>4
  <1>10. ASSUME NEW i \in Readable'
         PROVE  /\ rows'[i].seen <= now /\ (rows'[i].label = "EXPIRED" => Late(rows'[i]))
                /\ (i \in Readable /\ rows'[i] = rows[i]) \/ \E a \in DOMAIN out : rows'[i] = out[a]
    <2>1. CASE i <= n
      <3>1. (i \in Readable /\ rows'[i] = rows[i])
        BY <1>6, <2>1
      <3>2. rows[i].seen <= time /\ (rows[i].label = "EXPIRED" => Late(rows[i]))
        BY <3>1 DEF LabelInv
      <3>3. rows[i].seen \in Nat
        <4>1. i \in DOMAIN rows
          BY <3>1 DEF Readable
        <4>2. rows[i] \in LabelRow
          BY <1>1, <4>1
        <4> QED
          BY <4>2 DEF LabelRow
      <3> QED
        BY <1>1, <3>1, <3>2, <3>3
    <2>2. CASE ~(i <= n)
      <3>1. i - n \in DOMAIN new /\ rows'[i] = new[i - n]
        BY <1>7, <2>2
      <3>2. PICK a \in DOMAIN out : new[i - n] = out[a]
        BY <1>2, <3>1
      <3>3. now <= now
        OBVIOUS
      <3> QED
        BY <1>8, <3>1, <3>2, <3>3
    <2> QED
      BY <2>1, <2>2
  <1> QED
    BY <1>9, <1>10

\* The rows are written behind the old ones; the first is torn when its line was begun.
LEMMA WritesGrow ==
    ASSUME rows \in Seq(LabelRow), NEW new \in Seq(LabelRow)
    PROVE  /\ WriteRows(new) \in Seq(LabelRow) /\ Len(WriteRows(new)) = Len(rows) + Len(new)
           /\ \A i \in 1..Len(rows) : WriteRows(new)[i] = rows[i]
           /\ \A i \in 1..Len(new) :
                \/ WriteRows(new)[Len(rows) + i] = new[i]
                \/ WriteRows(new)[Len(rows) + i].label = "TORN"
  <1> DEFINE n == Len(rows)
             head == TornRow(Head(new))
             begun == rows \o <<head>>
  <1>1. n \in Nat /\ Len(new) \in Nat
    OBVIOUS
  <1>2. CASE ~(unended /\ new # <<>>)
    <2>1. WriteRows(new) = rows \o new
      BY <1>2, Zenon DEF WriteRows
    <2>2. /\ rows \o new \in Seq(LabelRow) /\ Len(rows \o new) = n + Len(new)
          /\ \A i \in 1..(n + Len(new)) :
               (rows \o new)[i] = IF i <= n THEN rows[i] ELSE new[i - n]
      BY ConcatProperties
    <2> HIDE DEF n
    <2>3. \A i \in 1..n : (rows \o new)[i] = rows[i]
      BY <1>1, <2>2
    <2>4. \A i \in 1..Len(new) : (rows \o new)[n + i] = new[i]
      BY <1>1, <2>2
    <2> QED
      BY <2>1, <2>2, <2>3, <2>4 DEF n
  <1>3. CASE unended /\ new # <<>>
    <2>1. WriteRows(new) = begun \o Tail(new)
      BY <1>3, Zenon DEF WriteRows
    <2>2. /\ Head(new) \in LabelRow /\ Tail(new) \in Seq(LabelRow)
          /\ Len(Tail(new)) = Len(new) - 1
          /\ \A i \in 1..Len(Tail(new)) : Tail(new)[i] = new[i + 1]
      BY <1>3, HeadTailProperties
    <2>3. head \in LabelRow /\ head.label = "TORN"
      BY <2>2 DEF TornRow, LabelRow
    <2> HIDE DEF head
    <2>4. <<head>> \in Seq(LabelRow) /\ Len(<<head>>) = 1 /\ <<head>>[1] = head
      BY <2>3
    <2>5. /\ begun \in Seq(LabelRow) /\ Len(begun) = n + 1
          /\ \A i \in 1..n : begun[i] = rows[i]
          /\ begun[n + 1] = head
      <3>1. /\ begun \in Seq(LabelRow) /\ Len(begun) = n + Len(<<head>>)
            /\ \A i \in 1..(n + Len(<<head>>)) :
                 begun[i] = IF i <= n THEN rows[i] ELSE <<head>>[i - n]
        BY <2>4, ConcatProperties
      <3> HIDE DEF begun
      <3> QED
        BY <1>1, <2>4, <3>1
    <2> DEFINE t == begun \o Tail(new)
    <2>6. /\ t \in Seq(LabelRow) /\ Len(t) = n + 1 + Len(Tail(new))
          /\ \A i \in 1..(n + 1 + Len(Tail(new))) :
               t[i] = IF i <= n + 1 THEN begun[i] ELSE Tail(new)[i - (n + 1)]
      <3> HIDE DEF begun
      <3>1. /\ t \in Seq(LabelRow) /\ Len(t) = Len(begun) + Len(Tail(new))
            /\ \A i \in 1..(Len(begun) + Len(Tail(new))) :
                 t[i] = IF i <= Len(begun) THEN begun[i] ELSE Tail(new)[i - Len(begun)]
        BY <2>2, <2>5, ConcatProperties
      <3> HIDE DEF t
      <3> QED
        BY <2>5, <3>1
    <2> HIDE DEF begun, t, n
    <2>7. \A i \in 1..n : t[i] = rows[i]
      BY <1>1, <2>2, <2>5, <2>6
    <2>8. ASSUME NEW i \in 1..Len(new) PROVE t[n + i] = new[i] \/ t[n + i].label = "TORN"
      <3>1. CASE i = 1
        BY <1>1, <2>2, <2>3, <2>5, <2>6, <3>1
      <3>2. CASE i # 1
        <4>1. i - 1 \in 1..Len(Tail(new)) /\ n + i \in 1..(n + 1 + Len(Tail(new))) /\ ~(n + i <= n + 1)
          BY <1>1, <2>2, <3>2
        <4>2. t[n + i] = Tail(new)[(n + i) - (n + 1)] /\ (n + i) - (n + 1) = i - 1
          <5> DEFINE m == n + i
          <5>1. t[m] = Tail(new)[m - (n + 1)]
            <6> HIDE DEF m
            <6> QED
              BY <2>6, <4>1 DEF m
          <5> QED
            BY <1>1, <5>1
        <4>3. Tail(new)[i - 1] = new[(i - 1) + 1] /\ (i - 1) + 1 = i
          BY <2>2, <4>1
        <4> QED
          BY <4>2, <4>3
      <3> QED
        BY <3>1, <3>2
    <2>9. Len(t) = n + Len(new)
      BY <1>1, <2>2, <2>6
    <2> QED
      BY <2>1, <2>6, <2>7, <2>8, <2>9 DEF n, t
  <1> QED
    BY <1>2, <1>3

\* What is written is a part of the outcomes.
LEMMA NewRowsType ==
    ASSUME NEW out \in Seq(LabelRow) PROVE NewRows(out) \in Seq(LabelRow) /\ Len(NewRows(out)) \in Nat
  BY KeptInOrder DEF NewRows

\* A death leaves a prefix of the rows, the last one perhaps cut off.
LEMMA DeathGrows ==
    ASSUME LabelInv, NEW now \in Nat, NEW price \in LabelPrices, DieAfter(now, price)
    PROVE  \E k : Grown(NewRows(Outcomes(learner, now, price)), k)
  <1> DEFINE new == NewRows(Outcomes(learner, now, price))
  <1>1. new \in Seq(LabelRow) /\ Len(new) \in Nat /\ rows \in Seq(LabelRow) /\ Len(rows) \in Nat
    <2>1. Outcomes(learner, now, price) \in Seq(LabelRow)
      BY OutcomesAreMade DEF Made
    <2>2. rows \in Seq(LabelRow)
      BY DEF LabelInv, LabelTypeOK
    <2> QED
      BY <2>1, <2>2, NewRowsType
  <1> HIDE DEF new
  <1>2. PICK n \in 0..Len(new), cut \in BOOLEAN :
          /\ cut => n > 0
          /\ rows' = LET whole == WriteRows(SubSeq(new, 1, n))
                     IN  IF cut THEN [whole EXCEPT ![Len(whole)] = TornRow(@)] ELSE whole
    BY Zenon DEF DieAfter, new
  <1> DEFINE begun == SubSeq(new, 1, n)
             whole == WriteRows(begun)
  <1>3. /\ begun \in Seq(LabelRow) /\ Len(begun) = n
        /\ \A i \in 1..n : begun[i] = new[i]
    <2>1. \A i \in 1..n : new[i] \in LabelRow
      BY <1>1
    <2>2. /\ SubSeq(new, 1, n) \in Seq(LabelRow)
          /\ Len(SubSeq(new, 1, n)) = IF 1 <= n THEN n - 1 + 1 ELSE 0
          /\ \A i \in 1..(n - 1 + 1) : SubSeq(new, 1, n)[i] = new[1 + i - 1]
      BY <1>1, <2>1, SubSeqProperties
    <2> HIDE DEF begun
    <2>3. ASSUME NEW i \in 1..n PROVE begun[i] = new[i]
      <3>1. i \in 1..(n - 1 + 1) /\ 1 + i - 1 = i
        BY <1>1
      <3> QED
        BY <2>2, <3>1 DEF begun
    <2> QED
      BY <1>1, <2>2, <2>3 DEF begun
  <1> HIDE DEF begun
  <1>4. /\ whole \in Seq(LabelRow) /\ Len(whole) = Len(rows) + n
        /\ \A i \in 1..Len(rows) : whole[i] = rows[i]
        /\ \A i \in 1..n : whole[Len(rows) + i] = begun[i] \/ whole[Len(rows) + i].label = "TORN"
    BY <1>1, <1>3, WritesGrow
  <1>5. rows' = IF cut THEN [whole EXCEPT ![Len(whole)] = TornRow(@)] ELSE whole
    BY <1>2, Zenon DEF begun
  <1> HIDE DEF whole
  <1>6. CASE ~cut
    <2>1. rows' = whole
      BY <1>5, <1>6
    <2> QED
      BY <1>1, <1>3, <1>4, <2>1 DEF Grown, new
  <1>7. CASE cut
    <2> DEFINE last == TornRow(whole[Len(whole)])
    <2>1. n > 0 /\ rows' = [whole EXCEPT ![Len(whole)] = last]
      BY <1>2, <1>5, <1>7
    <2>2. Len(whole) \in 1..Len(whole) /\ whole[Len(whole)] \in LabelRow
      BY <1>1, <1>4, <2>1
    <2>3. last \in LabelRow /\ last.label = "TORN"
      BY <2>2 DEF TornRow, LabelRow
    <2> HIDE DEF last
    <2>4. /\ rows' \in Seq(LabelRow) /\ Len(rows') = Len(whole)
          /\ \A j \in 1..Len(whole) : rows'[j] = IF j = Len(whole) THEN last ELSE whole[j]
      BY <1>4, <2>1, <2>2, <2>3, ExceptSeq
    <2>5. \A i \in 1..Len(rows) : rows'[i] = rows[i]
      BY <1>1, <1>4, <2>1, <2>4
    <2>6. ASSUME NEW i \in 1..n
          PROVE  rows'[Len(rows) + i] = new[i] \/ rows'[Len(rows) + i].label = "TORN"
      <3>1. Len(rows) + i \in 1..Len(whole)
        BY <1>1, <1>4
      <3> QED
        BY <1>3, <1>4, <2>3, <2>4, <3>1
    <2> QED
      BY <1>1, <1>4, <2>4, <2>5, <2>6 DEF Grown, new
  <1> QED
    BY <1>6, <1>7

ModelSet == [pending : Seq(Example), trained : Seq(LabelRow)]

\* The examples that were due are trained in the order of their observation, and those that
\* still wait came after them.
LEMMA TrainingKeeps ==
    ASSUME LabelInv, NEW now \in Nat, now > time, NEW out, Made(out, now)
    PROVE  LET m == Train(learner, out, now)
           IN  /\ m \in ModelSet /\ InOrder(m, time)
               /\ \A i \in DOMAIN m.trained :
                    \/ \E a \in DOMAIN learner.trained : m.trained[i] = learner.trained[a]
                    \/ \E a \in DOMAIN out : m.trained[i] = out[a] /\ out[a].label # "EXPIRED"
  <1> DEFINE q == learner.pending
             old == learner.trained
             waiting == {e \in ToSet(q) : now - e.at < Delay}
             valid == {o \in ToSet(out) : o.label # "EXPIRED"}
             young == Kept(q, waiting)
             fresh == Kept(out, valid)
             all == old \o fresh
             m == Train(learner, out, now)
  <1>1. /\ q \in Seq(Example) /\ old \in Seq(LabelRow) /\ out \in Seq(LabelRow)
        /\ time \in Nat /\ Delay \in Nat
    BY LabelAssumption DEF LabelInv, LabelTypeOK, Made
  <1>2. m = [pending |-> young, trained |-> all]
    BY Zenon DEF Train
  <1>3. /\ young \in Seq(Example) /\ DOMAIN young = 1..Len(young) /\ Len(young) \in Nat
        /\ \A i \in DOMAIN young : young[i] \in waiting /\ \E a \in DOMAIN q : young[i] = q[a]
    <2> HIDE DEF waiting, q
    <2> QED
      BY <1>1, KeptInOrder
  <1>4. /\ fresh \in Seq(LabelRow) /\ DOMAIN fresh = 1..Len(fresh) /\ Len(fresh) \in Nat
        /\ \A i \in DOMAIN fresh : fresh[i] \in valid /\ \E a \in DOMAIN out : fresh[i] = out[a]
    <2> HIDE DEF valid
    <2> QED
      BY <1>1, KeptInOrder
  <1>5. Rising(young) /\ Rising(fresh) /\ Rising(old)
    BY <1>1, KeptRises DEF LabelInv, InOrder, Made
  <1> HIDE DEF young, fresh
  <1>6. /\ all \in Seq(LabelRow) /\ DOMAIN all = 1..(Len(old) + Len(fresh)) /\ Len(old) \in Nat
        /\ DOMAIN old = 1..Len(old)
        /\ \A i \in 1..(Len(old) + Len(fresh)) :
             all[i] = IF i <= Len(old) THEN old[i] ELSE fresh[i - Len(old)]
    <2> HIDE DEF old
    <2> QED
      BY <1>1, <1>4, ConcatProperties
  <1> HIDE DEF m, all
  <1>7. m \in ModelSet /\ m.pending = young /\ m.trained = all
    BY <1>2, <1>3, <1>6 DEF ModelSet
  <1>8. ASSUME NEW i \in DOMAIN fresh
        PROVE  /\ \E e \in DOMAIN q : q[e].at = fresh[i].at
               /\ now - fresh[i].at >= Delay /\ fresh[i].at \in Nat /\ fresh[i].at <= time
               /\ \E a \in DOMAIN out : fresh[i] = out[a] /\ out[a].label # "EXPIRED"
    <2>1. PICK a \in DOMAIN out : fresh[i] = out[a] /\ out[a].label # "EXPIRED"
      BY <1>4
    <2>2. out[a] \in LabelRow
      BY <1>1
    <2>3. PICK e \in DOMAIN q : q[e].at = out[a].at
      BY DEF Made
    <2>4. q[e].at <= time
      BY DEF LabelInv, InOrder
    <2> QED
      BY <2>1, <2>2, <2>3, <2>4 DEF LabelRow, Made
  <1>9. ASSUME NEW i \in DOMAIN old
        PROVE  /\ old[i].at \in Nat /\ old[i].at <= time
               /\ \A e \in DOMAIN q : old[i].at < q[e].at
    <2>1. old[i] \in LabelRow
      BY <1>1
    <2> QED
      BY <2>1 DEF LabelRow, LabelInv, InOrder
  <1>10. ASSUME NEW i \in DOMAIN young
         PROVE  /\ \E e \in DOMAIN q : young[i] = q[e]
                /\ now - young[i].at < Delay /\ young[i].at \in Nat /\ young[i].at <= time
    <2>1. PICK e \in DOMAIN q : young[i] = q[e]
      BY <1>3
    <2>2. q[e] \in Example /\ now - young[i].at < Delay
      BY <1>1, <1>3
    <2> QED
      BY <2>1, <2>2 DEF Example, LabelInv, InOrder
  <1>11. ASSUME NEW i \in DOMAIN all
         PROVE  \/ i \in DOMAIN old /\ all[i] = old[i]
                \/ ~(i <= Len(old)) /\ i - Len(old) \in DOMAIN fresh /\ all[i] = fresh[i - Len(old)]
    <2>1. CASE i <= Len(old)
      <3>1. i \in DOMAIN old
        BY <1>6, <2>1
      <3> QED
        BY <1>6, <2>1, <3>1
    <2>2. CASE ~(i <= Len(old))
      <3>1. i - Len(old) \in 1..Len(fresh)
        BY <1>4, <1>6, <2>2
      <3> QED
        BY <1>4, <1>6, <2>2, <3>1
    <2> QED
      BY <2>1, <2>2
  <1>12. Rising(all)
    <2> SUFFICES ASSUME NEW i \in DOMAIN all, NEW j \in DOMAIN all, i < j
                 PROVE  all[i].at < all[j].at
      BY DEF Rising
    <2>1. CASE j \in DOMAIN old /\ all[j] = old[j]
      <3>1. i \in DOMAIN old /\ all[i] = old[i]
        BY <1>6, <2>1
      <3> QED
        BY <1>5, <2>1, <3>1 DEF Rising
    <2>2. CASE ~(j <= Len(old)) /\ j - Len(old) \in DOMAIN fresh /\ all[j] = fresh[j - Len(old)]
      <3>1. PICK b \in DOMAIN fresh : b = j - Len(old)
        BY <2>2
      <3>2. CASE i \in DOMAIN old /\ all[i] = old[i]
        <4>1. PICK e \in DOMAIN q : q[e].at = fresh[b].at
          BY <1>8
        <4> QED
          BY <1>9, <2>2, <3>1, <3>2, <4>1
      <3>3. CASE ~(i <= Len(old)) /\ i - Len(old) \in DOMAIN fresh /\ all[i] = fresh[i - Len(old)]
        <4>1. PICK a \in DOMAIN fresh : a = i - Len(old)
          BY <3>3
        <4>2. a < b
          BY <1>6, <3>1, <4>1
        <4> QED
          BY <1>5, <2>2, <3>1, <3>3, <4>1, <4>2 DEF Rising
      <3> QED
        BY <1>11, <3>2, <3>3
    <2> QED
      BY <1>11, <2>1, <2>2
  <1>13. ASSUME NEW i \in DOMAIN all
         PROVE  /\ all[i].at <= time
                /\ \A j \in DOMAIN young : all[i].at < young[j].at
                /\ \/ \E a \in DOMAIN old : all[i] = old[a]
                   \/ \E a \in DOMAIN out : all[i] = out[a] /\ out[a].label # "EXPIRED"
    <2>1. CASE i \in DOMAIN old /\ all[i] = old[i]
      <3>1. \A j \in DOMAIN young : all[i].at < young[j].at
        BY <1>9, <1>10, <2>1
      <3> QED
        BY <1>9, <2>1, <3>1
    <2>2. CASE ~(i <= Len(old)) /\ i - Len(old) \in DOMAIN fresh /\ all[i] = fresh[i - Len(old)]
      <3>1. PICK a \in DOMAIN fresh : a = i - Len(old)
        BY <2>2
      <3>2. all[i] = fresh[a]
        BY <2>2, <3>1
      <3>3. \A j \in DOMAIN young : fresh[a].at < young[j].at
        <4> SUFFICES ASSUME NEW j \in DOMAIN young PROVE fresh[a].at < young[j].at
          OBVIOUS
        <4>1. now - fresh[a].at >= Delay /\ fresh[a].at \in Nat
          BY <1>8
        <4>2. now - young[j].at < Delay /\ young[j].at \in Nat
          BY <1>10
        <4> QED
          BY <1>1, <4>1, <4>2
      <3> QED
        BY <1>8, <3>2, <3>3
    <2> QED
      BY <1>11, <2>1, <2>2
  <1>14. InOrder(m, time)
    BY <1>5, <1>7, <1>10, <1>12, <1>13 DEF InOrder
  <1> QED
    BY <1>7, <1>13, <1>14 DEF m

\* A model in order stays so when an example is put behind the others.
LEMMA EnqueueKeeps ==
    ASSUME NEW m \in ModelSet, NEW t \in Nat, InOrder(m, t), NEW now \in Nat, now > t,
           NEW price \in LabelPrices
    PROVE  /\ Enqueue(m, now, price) \in ModelSet /\ InOrder(Enqueue(m, now, price), now)
           /\ Enqueue(m, now, price).trained = m.trained
  <1> DEFINE q == m.pending
             e == [at |-> now, price |-> price]
             r == Append(q, e)
  <1>1. q \in Seq(Example) /\ e \in Example /\ m.trained \in Seq(LabelRow)
    BY DEF ModelSet, Example
  <1>2. /\ r \in Seq(Example) /\ DOMAIN r = 1..(Len(q) + 1) /\ Len(q) \in Nat /\ DOMAIN q = 1..Len(q)
        /\ \A i \in DOMAIN q : r[i] = q[i]
        /\ r[Len(q) + 1] = e
    <2> HIDE DEF e, q
    <2> QED
      BY <1>1, AppendProperties
  <1> HIDE DEF r
  <1>3. /\ Enqueue(m, now, price) \in ModelSet /\ Enqueue(m, now, price).pending = r
        /\ Enqueue(m, now, price).trained = m.trained
    BY <1>1, <1>2 DEF Enqueue, ModelSet, r
  <1>4. ASSUME NEW i \in DOMAIN q PROVE q[i].at \in Nat /\ q[i].at <= t
    <2>1. q[i] \in Example
      BY <1>1
    <2> QED
      BY <2>1 DEF Example, InOrder
  <1>5. ASSUME NEW i \in DOMAIN m.trained
        PROVE m.trained[i].at \in Nat /\ m.trained[i].at <= t /\ \A j \in DOMAIN q : m.trained[i].at < q[j].at
    <2>1. m.trained[i] \in LabelRow
      BY <1>1
    <2> QED
      BY <2>1 DEF LabelRow, InOrder
  <1>6. ASSUME NEW i \in DOMAIN r
        PROVE  (i \in DOMAIN q /\ r[i] = q[i]) \/ (i = Len(q) + 1 /\ r[i].at = now)
    <2>1. CASE i = Len(q) + 1
      BY <1>2, <2>1
    <2>2. CASE i # Len(q) + 1
      <3>1. i \in DOMAIN q
        BY <1>2, <2>2
      <3>2. r[i] = q[i]
        BY <1>2, <3>1, Zenon
      <3> QED
        BY <3>1, <3>2
    <2> QED
      BY <2>1, <2>2
  <1>7. Rising(r)
    <2> SUFFICES ASSUME NEW i \in DOMAIN r, NEW j \in DOMAIN r, i < j PROVE r[i].at < r[j].at
      BY DEF Rising
    <2>1. i \in DOMAIN q /\ r[i] = q[i]
      BY <1>2
    <2>2. CASE j \in DOMAIN q /\ r[j] = q[j]
      BY <2>1, <2>2 DEF InOrder, Rising
    <2>3. CASE j = Len(q) + 1 /\ r[j].at = now
      BY <1>4, <2>1, <2>3
    <2> QED
      BY <1>6, <2>2, <2>3
  <1>8. \A i \in DOMAIN r : r[i].at <= now
    <2> SUFFICES ASSUME NEW i \in DOMAIN r PROVE r[i].at <= now
      OBVIOUS
    <2>1. CASE i \in DOMAIN q /\ r[i] = q[i]
      BY <1>4, <2>1
    <2>2. CASE r[i].at = now
      BY <2>2
    <2> QED
      BY <1>6, <2>1, <2>2
  <1>9. \A i \in DOMAIN m.trained : m.trained[i].at <= now
    BY <1>5
  <1>10. ASSUME NEW i \in DOMAIN m.trained, NEW j \in DOMAIN r PROVE m.trained[i].at < r[j].at
    <2>1. CASE j \in DOMAIN q /\ r[j] = q[j]
      BY <1>5, <2>1
    <2>2. CASE r[j].at = now
      BY <1>5, <2>2
    <2> QED
      BY <1>6, <2>1, <2>2
  <1>11. InOrder(Enqueue(m, now, price), now)
    BY <1>3, <1>7, <1>8, <1>9, <1>10 DEF InOrder
  <1> QED
    BY <1>3, <1>11

\* There is nothing to learn in the beginning.
LEMMA LabelInitially == LabelInit => LabelInv
  <1> SUFFICES ASSUME LabelInit PROVE LabelInv
    OBVIOUS
  <1>1. /\ learner = Nothing /\ rows = <<>> /\ time = 0 /\ deaths = 0 /\ stored = Nothing
    BY DEF LabelInit
  <1>2. unended \in BOOLEAN
    BY Zenon DEF LabelInit
  <1>3. Nothing \in ModelSet /\ Nothing.pending = <<>> /\ Nothing.trained = <<>>
    BY DEF Nothing, ModelSet
  <1>4. LabelTypeOK
    BY <1>1, <1>2, <1>3, LabelAssumption DEF LabelTypeOK, ModelSet
  <1>5. InOrder(learner, time)
    BY <1>1, <1>3 DEF InOrder, Rising
  <1>6. LabelsAreHonest /\ Readable = {}
    BY <1>1, <1>3 DEF LabelsAreHonest, Readable, Trained, ToSet
  <1> QED
    BY <1>4, <1>5, <1>6 DEF LabelInv

\* Rows that have grown, and a model that was trained or not on what was due.
LEMMA ObservedIsHonest ==
    ASSUME LabelInv, NEW now \in Nat, now > time, NEW out, Made(out, now), NEW k,
           Grown(NewRows(out), k), InOrder(learner', now), learner' \in ModelSet,
           \A i \in DOMAIN learner'.trained :
             \/ \E a \in DOMAIN learner.trained : learner'.trained[i] = learner.trained[a]
             \/ \E a \in DOMAIN out : learner'.trained[i] = out[a] /\ out[a].label # "EXPIRED"
    PROVE  LabelsAreHonest'
  <1>1. /\ learner.trained \in Seq(LabelRow) /\ learner'.trained \in Seq(LabelRow)
        /\ out \in Seq(LabelRow) /\ rows \in Seq(LabelRow) /\ rows' \in Seq(LabelRow)
        /\ Delay \in Nat /\ LabelTolerance \in Nat
    BY LabelAssumption DEF LabelInv, LabelTypeOK, ModelSet, Made, Grown
  <1>2. /\ \A i, j \in Readable' : rows'[i].at = rows'[j].at => i = j
        /\ \A i \in Readable' :
             rows'[i].seen <= now /\ (rows'[i].label = "EXPIRED" => Late(rows'[i]))
        /\ \A i \in Readable' : (i \in Readable /\ rows'[i] = rows[i])
             \/ \E a \in DOMAIN out : rows'[i] = out[a]
    BY RowsStayHonest
  <1>3. ASSUME NEW i \in DOMAIN learner'.trained, NEW j \in DOMAIN learner'.trained,
               learner'.trained[i].at = learner'.trained[j].at
        PROVE  i = j
    <2>1. ~(i < j) /\ ~(j < i) /\ i \in Nat /\ j \in Nat
      <3>1. learner'.trained[i] \in LabelRow
        BY <1>1
      <3>2. learner'.trained[i].at \in Nat
        BY <3>1 DEF LabelRow
      <3> QED
        BY <1>1, <1>3, <3>2 DEF InOrder, Rising
    <2> QED
      BY <2>1
  <1>4. ASSUME NEW t \in DOMAIN learner'.trained
        PROVE  LET o == learner'.trained[t]
               IN  /\ o.seen - o.at \in Delay..(Delay + LabelTolerance)
                   /\ \A i \in Readable' : rows'[i].at = o.at => rows'[i].label # "EXPIRED"
    <2> DEFINE o == learner'.trained[t]
    <2>1. ASSUME NEW a \in DOMAIN learner.trained, o = learner.trained[a]
          PROVE  /\ o.seen - o.at \in Delay..(Delay + LabelTolerance)
                 /\ \A i \in Readable' : rows'[i].at = o.at => rows'[i].label # "EXPIRED"
      <3>1. o \in Trained
        BY <2>1 DEF Trained, ToSet
      <3>2. /\ o.seen - o.at \in Delay..(Delay + LabelTolerance)
            /\ \A i \in Readable : rows[i].at = o.at => rows[i].label # "EXPIRED"
        BY <3>1 DEF LabelInv, LabelsAreHonest
      <3>3. o.at \in Nat /\ \A e \in DOMAIN learner.pending : o.at < learner.pending[e].at
        <4>1. o \in LabelRow
          BY <1>1, <2>1
        <4> QED
          BY <2>1, <4>1 DEF LabelRow, LabelInv, InOrder
      <3>4. ASSUME NEW i \in Readable', rows'[i].at = o.at PROVE rows'[i].label # "EXPIRED"
        <4>1. ASSUME NEW b \in DOMAIN out, rows'[i] = out[b] PROVE FALSE
          <5>1. PICK e \in DOMAIN learner.pending : learner.pending[e].at = out[b].at
            BY DEF Made
          <5> QED
            BY <3>3, <3>4, <4>1, <5>1
        <4> QED
          BY <1>2, <3>2, <3>4, <4>1
      <3> QED
        BY <3>2, <3>4
    <2>2. ASSUME NEW a \in DOMAIN out, o = out[a], out[a].label # "EXPIRED"
          PROVE  /\ o.seen - o.at \in Delay..(Delay + LabelTolerance)
                 /\ \A i \in Readable' : rows'[i].at = o.at => rows'[i].label # "EXPIRED"
      <3>1. o.at \in Nat /\ o.seen = now /\ ~Late(o) /\ now - o.at >= Delay
        <4>1. o \in LabelRow
          BY <1>1, <2>2
        <4> QED
          BY <2>2, <4>1 DEF LabelRow, Made
      <3>2. now - o.at <= Delay + LabelTolerance
        BY <1>1, <3>1 DEF Late
      <3>3. ASSUME NEW i \in Readable', rows'[i].at = o.at, rows'[i].label = "EXPIRED" PROVE FALSE
        <4>1. rows'[i].seen <= now /\ Late(rows'[i])
          BY <1>2, <3>3
        <4>2. rows'[i].seen \in Nat
          <5>1. rows'[i] \in LabelRow
            BY <1>1 DEF Readable
          <5> QED
            BY <5>1 DEF LabelRow
        <4>3. rows'[i].seen - o.at > Delay + LabelTolerance
          BY <3>3, <4>1 DEF Late
        <4> HIDE DEF o
        <4> QED
          BY <1>1, <3>1, <3>2, <4>1, <4>2, <4>3
      <3>4. now - o.at \in Delay..(Delay + LabelTolerance)
        BY <1>1, <3>1, <3>2
      <3> QED
        BY <3>1, <3>3, <3>4
    <2> QED
      BY <2>1, <2>2
  <1>5. \A o \in Trained' : \E t \in DOMAIN learner'.trained : o = learner'.trained[t]
    BY DEF Trained, ToSet
  <1> QED
    BY <1>2, <1>3, <1>4, <1>5 DEF LabelsAreHonest

\* Observations and deaths, wherever they fall, keep file and model honest.
LEMMA LabelStep == ASSUME LabelInv, [LabelNext]_labelVars PROVE LabelInv'
  <1>1. /\ learner \in ModelSet /\ stored = learner /\ InOrder(learner, time) /\ time \in Nat
        /\ rows \in Seq(LabelRow) /\ unended \in BOOLEAN /\ deaths \in 0..MaxDeaths
        /\ LastTime \in Nat /\ MaxDeaths \in Nat
    BY LabelAssumption DEF LabelInv, LabelTypeOK, ModelSet
  <1>2. CASE UNCHANGED labelVars
    BY <1>2 DEF labelVars, LabelInv, LabelTypeOK, LabelsAreHonest, InOrder, Readable, Trained
  <1>3. CASE LabelNext
    <2>1. PICK now \in (time + 1)..LastTime, price \in LabelPrices :
            /\ time' = now
            /\ \/ \E decides \in BOOLEAN : ObservePrice(now, price, decides)
               \/ DieAfter(now, price)
      BY <1>3 DEF LabelNext
    <2> DEFINE out == Outcomes(learner, now, price)
    <2>2. now \in Nat /\ now > time /\ time' \in 0..LastTime
      BY <1>1, <2>1
    <2>3. Made(out, now)
      BY <2>2, OutcomesAreMade
    <2>4. /\ deaths' \in 0..MaxDeaths /\ unended' \in BOOLEAN /\ learner' \in ModelSet
          /\ stored' = learner' /\ InOrder(learner', now)
          /\ \E k : Grown(NewRows(out), k)
          /\ \A i \in DOMAIN learner'.trained :
               \/ \E a \in DOMAIN learner.trained : learner'.trained[i] = learner.trained[a]
               \/ \E a \in DOMAIN out : learner'.trained[i] = out[a] /\ out[a].label # "EXPIRED"
      <3>1. ASSUME NEW m \in ModelSet, InOrder(m, time) PROVE InOrder(m, now)
        <4>1. \A i \in DOMAIN m.pending : m.pending[i].at \in Nat
          <5> SUFFICES ASSUME NEW i \in DOMAIN m.pending PROVE m.pending[i].at \in Nat
            OBVIOUS
          <5>1. m.pending[i] \in Example
            BY DEF ModelSet
          <5> QED
            BY <5>1 DEF Example
        <4>2. \A i \in DOMAIN m.trained : m.trained[i].at \in Nat
          <5> SUFFICES ASSUME NEW i \in DOMAIN m.trained PROVE m.trained[i].at \in Nat
            OBVIOUS
          <5>1. m.trained[i] \in LabelRow
            BY DEF ModelSet
          <5> QED
            BY <5>1 DEF LabelRow
        <4>3. \A i \in DOMAIN m.pending : m.pending[i].at <= now
          BY <1>1, <2>2, <3>1, <4>1 DEF InOrder
        <4>4. \A i \in DOMAIN m.trained : m.trained[i].at <= now
          BY <1>1, <2>2, <3>1, <4>2 DEF InOrder
        <4> QED
          BY <3>1, <4>3, <4>4 DEF InOrder
      <3>2. CASE DieAfter(now, price)
        <4>1. /\ deaths < MaxDeaths /\ deaths' = deaths + 1 /\ learner' = stored /\ stored' = stored
          BY <3>2 DEF DieAfter
        <4>2. unended' \in BOOLEAN
          <5>1. PICK n \in 0..Len(NewRows(out)), cut \in BOOLEAN :
                   unended' = IF n = 0 THEN unended ELSE cut
            BY <3>2, Zenon DEF DieAfter
          <5> QED
            BY <1>1, <5>1, Zenon
        <4>3. \E k : Grown(NewRows(out), k)
          BY <2>2, <3>2, DeathGrows
        <4>4. learner' = learner /\ stored' = learner' /\ deaths' \in 0..MaxDeaths
          BY <1>1, <4>1
        <4> QED
          BY <1>1, <3>1, <4>2, <4>3, <4>4
      <3>3. CASE \E decides \in BOOLEAN : ObservePrice(now, price, decides)
        <4> PICK decides \in BOOLEAN : ObservePrice(now, price, decides)
          BY <3>3
        <4> DEFINE new == NewRows(out)
                   settled == IF out = <<>> THEN learner ELSE Train(learner, out, now)
                   next == IF decides /\ Enqueues(settled, now)
                           THEN Enqueue(settled, now, price) ELSE settled
        <4>1. /\ rows' = WriteRows(new) /\ unended' = (unended /\ new = <<>>)
              /\ learner' = next /\ stored' = (IF learner' # learner THEN learner' ELSE stored)
              /\ deaths' = deaths
          BY Zenon DEF ObservePrice
        <4>2. new \in Seq(LabelRow) /\ Len(new) \in Nat
          BY <2>3, NewRowsType DEF Made
        <4>3. Grown(new, Len(new))
          <5> HIDE DEF new
          <5>1. /\ WriteRows(new) \in Seq(LabelRow) /\ Len(WriteRows(new)) = Len(rows) + Len(new)
                /\ \A i \in 1..Len(rows) : WriteRows(new)[i] = rows[i]
                /\ \A i \in 1..Len(new) :
                     \/ WriteRows(new)[Len(rows) + i] = new[i]
                     \/ WriteRows(new)[Len(rows) + i].label = "TORN"
            BY <1>1, <4>2, WritesGrow
          <5> QED
            BY <4>1, <4>2, <5>1 DEF Grown
        <4>4. /\ settled \in ModelSet /\ InOrder(settled, time)
              /\ \A i \in DOMAIN settled.trained :
                   \/ \E a \in DOMAIN learner.trained : settled.trained[i] = learner.trained[a]
                   \/ \E a \in DOMAIN out :
                        settled.trained[i] = out[a] /\ out[a].label # "EXPIRED"
          <5> HIDE DEF out
          <5>1. CASE out = <<>>
            BY <1>1, <5>1
          <5>2. CASE out # <<>>
            BY <2>2, <2>3, <5>2, TrainingKeeps
          <5> QED
            BY <5>1, <5>2
        <4> HIDE DEF settled, out
        <4>5. next \in ModelSet /\ InOrder(next, now) /\ next.trained = settled.trained
          <5>1. InOrder(settled, now)
            BY <3>1, <4>4
          <5>2. /\ Enqueue(settled, now, price) \in ModelSet
                /\ InOrder(Enqueue(settled, now, price), now)
                /\ Enqueue(settled, now, price).trained = settled.trained
            BY <1>1, <2>2, <4>4, EnqueueKeeps
          <5> QED
            BY <4>4, <5>1, <5>2
        <4>6. unended' \in BOOLEAN
          BY <4>1, Zenon
        <4>7. stored' = learner'
          BY <1>1, <4>1
        <4> HIDE DEF next
        <4> QED
          BY <1>1, <4>1, <4>3, <4>4, <4>5, <4>6, <4>7
      <3> QED
        BY <2>1, <3>2, <3>3
    <2>5. PICK k : Grown(NewRows(out), k)
      BY <2>4
    <2> HIDE DEF out
    <2>6. LabelsAreHonest'
      BY <2>2, <2>3, <2>4, <2>5, ObservedIsHonest
    <2>7. \A i \in Readable' :
            rows'[i].seen <= now /\ (rows'[i].label = "EXPIRED" => Late(rows'[i]))
      BY <2>2, <2>3, <2>5, RowsStayHonest
    <2>8. rows' \in Seq(LabelRow)
      BY <2>5 DEF Grown
    <2>9. LabelTypeOK'
      BY <2>2, <2>4, <2>8 DEF LabelTypeOK, ModelSet
    <2>10. InOrder(learner, time)'
      BY <2>1, <2>4
    <2> QED
      BY <2>1, <2>6, <2>7, <2>9, <2>10 DEF LabelInv
  <1> QED
    BY <1>2, <1>3
-----------------------------------------------------------------------------
\* The system: its parts, each on its own.

\* Whatever step the system takes is a step of one part, or none, for each of them.
LEMMA StepOfEachPart ==
    ASSUME [Next]_recordVars
    PROVE  /\ [HandoverNext]_handoverVars
           /\ [JournalNext]_journalVars
           /\ [LearningNext]_learningVars
           /\ [MemoryNext]_memoryVars
           /\ [StoreNext]_storeVars
           /\ [BreakersNext]_breakerVars
           /\ [RecoveryNext]_recoveryVars
           /\ [LabelNext]_labelVars
  <1>1. [HandoverNext]_handoverVars
    BY Zenon DEF Next, recordVars
  <1>2. [JournalNext]_journalVars
    BY Zenon DEF Next, recordVars
  <1>3. [LearningNext]_learningVars
    BY Zenon DEF Next, recordVars
  <1>4. [MemoryNext]_memoryVars
    BY Zenon DEF Next, recordVars
  <1>5. [StoreNext]_storeVars
    BY Zenon DEF Next, recordVars
  <1>6. [BreakersNext]_breakerVars
    BY Zenon DEF Next, recordVars
  <1>7. [RecoveryNext]_recoveryVars
    BY Zenon DEF Next, recordVars
  <1>8. [LabelNext]_labelVars
    BY Zenon DEF Next, recordVars
  <1> QED
    BY <1>1, <1>2, <1>3, <1>4, <1>5, <1>6, <1>7, <1>8

\* So a behaviour of the system is one of every part.
LEMMA BehaviourOfEachPart ==
    Spec => /\ HandoverSpec
            /\ JournalSpec
            /\ LearningSpec
            /\ MemorySpec
            /\ StoreSpec
            /\ BreakersSpec
            /\ RecoverySpec
            /\ LabelSpec
  <1>1. Init => HandoverInit /\ JournalInit /\ LearningInit /\ MemoryInit /\ StoreInit /\ BreakersInit /\ RecoveryInit /\ LabelInit
    BY Zenon DEF Init
  <1> QED
    BY <1>1, StepOfEachPart, PTL
    DEF Spec, HandoverSpec, JournalSpec, LearningSpec, MemorySpec, StoreSpec, BreakersSpec, RecoverySpec, LabelSpec

\* Who may trade is as HandoverInv says, whatever happens to that part.
LEMMA HandoverInvariance == HandoverSpec => []HandoverInv
  BY HandoverInitially, HandoverStep, PTL DEF HandoverSpec

\* The journal is in order, whatever happens to that part.
LEMMA JournalInvariance == JournalSpec => []JournalInv
  BY JournalInitially, JournalStep, PTL DEF JournalSpec

\* What was learned is in order, whatever happens to that part.
LEMMA LearningInvariance == LearningSpec => []LearningInv
  BY LearningInitially, LearningStep, PTL DEF LearningSpec

\* The record is truthful, whatever happens to that part.
LEMMA MemoryInvariance == MemorySpec => []MemoryInv
  BY MemoryInitially, MemoryStep, PTL DEF MemorySpec

\* Journal, engine and position agree, whatever happens to that part.
LEMMA RecoveryInvariance == RecoverySpec => []RecoveryInv
  BY RecoveryInitially, RecoveryStep, PTL DEF RecoverySpec

\* File and model are honest, whatever happens to that part.
LEMMA LabelInvariance == LabelSpec => []LabelInv
  BY LabelInitially, LabelStep, PTL DEF LabelSpec

\* The inductive invariants of all the parts hold of the system.
THEOREM RecordsInvariance == Spec => []RecordsInv
  <1>1. HandoverInv /\ JournalInv /\ LearningInv /\ MemoryInv /\ StoreInv /\ BreakersInv /\ RecoveryInv /\ LabelInv => RecordsInv
    BY DEF RecordsInv
  <1> QED
    BY <1>1, BehaviourOfEachPart, HandoverInvariance, JournalInvariance, LearningInvariance, MemoryInvariance, StoreInvariance, BreakersInvariance, RecoveryInvariance, LabelInvariance, PTL

\* Wherever the handover stops and whatever reboots around it, one service may trade.
THEOREM OneMayTrade == Spec => []OneAuthority
  <1>1. RecordsInv => OneAuthority
    BY HandoverSafe DEF RecordsInv
  <1> QED
    BY <1>1, RecordsInvariance, PTL

\* The journal a read returns has no hole, a saved state survives, and a purchase in the
\* journal gives the engine its entry and its watermark back.
THEOREM HistorySurvives == Spec => []HistoryIsKept
  <1>1. RecordsInv => HistoryIsKept
    BY RecoverySafe DEF RecordsInv, HistoryIsKept, JournalInv, StoreInv
  <1> QED
    BY <1>1, RecordsInvariance, PTL

\* Every outcome is learned once, by either learner, and the agent keeps its cadence.
THEOREM LearnsHonestly == Spec => []LearningIsHonest
  <1>1. RecordsInv => LearningIsHonest
    BY LearningSafe DEF RecordsInv, LearningIsHonest, LabelInv
  <1> QED
    BY <1>1, RecordsInvariance, PTL

\* What the LLM agent is told of its decisions is what they earned.
THEOREM RemembersHonestly == Spec => []OutcomeIsEarned
  <1>1. RecordsInv => OutcomeIsEarned
    BY DEF RecordsInv, MemoryInv
  <1> QED
    BY <1>1, RecordsInvariance, PTL

\* No restart of the system trades after a day of losses or a drawdown.
THEOREM LossesStopTheSystem == Spec => LossesStop
  BY BehaviourOfEachPart, LossesStopTrading, PTL
=============================================================================
