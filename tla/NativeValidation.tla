--------------------------- MODULE NativeValidation ---------------------------
(***************************************************************************)
(* scripts/native_validation.py: collect() measures a plan of probes, one  *)
(* process per row, and saves its status after each; analyze() later       *)
(* decides from the directory whether the collection is evidence.  A probe *)
(* fails, hangs or delivers a bad record; a binary or the source changes   *)
(* under way; the collector is sent SIGTERM or dies; files of the          *)
(* directory are altered before they are analysed.                         *)
(*                                                                         *)
(* Abstracted: the cells of the plan are names.  A record is its controls  *)
(* and one number for its times, the average and the worst call alike; the *)
(* memory figures, which a summary keeps row by row, are left out.         *)
(***************************************************************************)
EXTENDS Integers, Sequences, FiniteSets

CONSTANTS
  Cells,            \* what is measured, in order
  PacedBlocks,      \* the sizes measured with readers, in order
  Repetitions, MinRepetitions,
  Durations,        \* the times that a row of the plan may take
  Troubled,         \* bound: the rows at which something may go wrong
  MaxSignals        \* bound: SIGTERMs

ASSUME NativeAssumption ==
  /\ Cells \in Seq(STRING) /\ PacedBlocks \in Seq(STRING)
  /\ Repetitions \in Nat \ {0} /\ MinRepetitions \in Nat \ {0} /\ MaxSignals \in Nat

Variants == {"original", "corrected"}

-----------------------------------------------------------------------------
(* The plan. *)

Row(cell, variant, rep, reader, paced) ==
  [cell |-> cell, variant |-> variant, rep |-> rep, reader |-> reader, paced |-> paced]

Backwards(s) == [i \in DOMAIN s |-> s[Len(s) + 1 - i]]
Alternating(s, rep) == IF rep % 2 = 0 THEN s ELSE Backwards(s)

\* The sequences f[1], f[2], ... one after the other, all of the length n.
Chain(f, n) == [i \in 1..(Len(f) * n) |-> f[((i - 1) \div n) + 1][((i - 1) % n) + 1]]

make_plan(repetitions) ==
  LET free(cell) ==
        Chain([r \in 1..repetitions |->
                 Alternating(<< Row(cell, "original", r - 1, "none", FALSE),
                                Row(cell, "corrected", r - 1, "none", FALSE) >>, r - 1)], 2)
      paced(block) ==
        Chain([r \in 1..repetitions |->
                 Alternating(<< Row(block, "original", r - 1, "none", TRUE),
                                Row(block, "corrected", r - 1, "none", TRUE),
                                Row(block, "corrected", r - 1, "active", TRUE),
                                Row(block, "corrected", r - 1, "stalled", TRUE) >>, r - 1)], 4)
  IN Chain([c \in DOMAIN Cells |-> free(Cells[c])], 2 * repetitions)
     \o Chain([b \in DOMAIN PacedBlocks |-> paced(PacedBlocks[b])], 4 * repetitions)

ThePlan == make_plan(Repetitions)
Rows == DOMAIN ThePlan

ASSUME RowsAssumption == Durations \in [Rows -> SUBSET Nat] /\ Troubled \subseteq Rows

-----------------------------------------------------------------------------
(* Records and their summary. *)

\* "differs": another sound or latency than the other variant's.
Controlled == {"good", "differs", "invalid"}
Records == [control : Controlled, time : Nat]

validate_record(r) == r.control # "invalid"

GroupOf(row) == <<row.variant, row.cell, row.reader, row.paced>>
PairOf(row)  == <<row.cell, row.reader, row.paced, row.rep>>

\* summarize() raises unless this holds of plan rows and their records.
Summarizable(plan, records) ==
  LET bare == {i \in DOMAIN plan : plan[i].reader = "none"}
      pair(i) == {j \in bare : PairOf(plan[j]) = PairOf(plan[i])}
      group(i) == {j \in DOMAIN plan : GroupOf(plan[j]) = GroupOf(plan[i])}
  IN /\ \A i \in bare : /\ Cardinality(pair(i)) = 2
                        /\ {plan[j].variant : j \in pair(i)} = Variants
                        /\ \A j \in pair(i) : (records[j].control = "differs") <=> (records[i].control = "differs")
     /\ \A i \in DOMAIN plan : /\ {plan[j].rep : j \in group(i)} = 0..(Repetitions - 1)
                               /\ Cardinality(group(i)) = Repetitions

\* The k-th smallest time of some rows.
Ranked(records, rows, k) ==
  CHOOSE t \in {records[i].time : i \in rows} :
    /\ Cardinality({i \in rows : records[i].time < t}) < k
    /\ Cardinality({i \in rows : records[i].time <= t}) >= k

\* The summary of records: of each group only the (doubled) median, the least and the greatest
\* time, from which the spread and the comparisons of the variants follow.
Figures(records) ==
  LET groups == {GroupOf(ThePlan[i]) : i \in DOMAIN records}
      rows(g) == {i \in DOMAIN records : GroupOf(ThePlan[i]) = g}
      size(g) == Cardinality(rows(g))
      at(g, k) == Ranked(records, rows(g), k)
  IN [g \in groups |-> [median |-> at(g, (size(g) + 1) \div 2) + at(g, (size(g) \div 2) + 1),
                        min |-> at(g, 1), max |-> at(g, size(g))]]

NoSummary == <<>>

-----------------------------------------------------------------------------

VARIABLES
  smoke, lacking,   \* how it was called, and what the host and the build lack
  defect,           \* what goes wrong, and at which row
  npc,
  memory, saved,    \* the status: in memory, and in run-status.json
  child,            \* the process of run_logged()
  rawRows,          \* the records in the directory, in order
  summary,          \* summary.json
  altered,          \* what of the directory was altered afterwards
  signals,
  measured,         \* history: the records read before anything changed
  abandoned,        \* history: a signal left a process that had been started
  verdict

NvVars == <<smoke, lacking, defect, npc, memory, saved, child, rawRows, summary, altered,
            signals, measured, abandoned, verdict>>

NoStatus == [state |-> "none", completed |-> 0]

\* A finished program may have been tampered with, too; "probe_changed" and "source_changed"
\* happen before the row is measured.
Defects == {"exit", "hang", "invalid", "differs", "probe_changed", "source_changed"}
Lacks == {"clean_checkout", "shipping_build", "cpu_model", "platform"}

NvInit ==
  /\ smoke \in BOOLEAN
  /\ \/ lacking = {} /\ defect \in [row : Troubled, what : Defects]
     \/ lacking \in {{}} \cup {{l} : l \in Lacks} /\ defect = [row |-> 0, what |-> "none"]
  /\ npc = "call"
  /\ memory = NoStatus /\ saved = NoStatus
  /\ child = "none" /\ abandoned = FALSE
  /\ rawRows = <<>> /\ summary = NoSummary /\ altered = "nothing"
  /\ signals = 0 /\ measured = <<>> /\ verdict = "none"

inputs  == <<smoke, lacking, defect>>
outside == <<altered, signals, abandoned, verdict>>

\* What is lacking matters only to a normal collection, the processor's name to both.
Matters(l) == l \in lacking /\ (~smoke \/ l = "cpu_model")

Save(status) == saved' = status

\* An exception other than a signal's.
CollectionFails ==
  /\ memory' = [memory EXCEPT !.state = "failed"]
  /\ npc' = "finally"

nextRow == Len(rawRows) + 1

-----------------------------------------------------------------------------
(* collect(). *)

Refuse ==
  /\ npc = "call"
  /\ Matters("clean_checkout") \/ (~smoke /\ Repetitions < MinRepetitions)
  /\ npc' = "ended"
  /\ UNCHANGED <<inputs, memory, saved, child, rawRows, summary, measured, outside>>

Prepare ==
  /\ npc = "call"
  /\ ~Matters("clean_checkout") /\ (smoke \/ Repetitions >= MinRepetitions)
  /\ memory' = [NoStatus EXCEPT !.state = "preparing"] /\ Save(memory')
  /\ npc' = "build"
  /\ UNCHANGED <<inputs, child, rawRows, summary, measured, outside>>

\* Configuring, building the probes, the gates and the DSP suite, any of which may fail.
Build ==
  /\ npc = "build"
  /\ \/ CollectionFails
     \/ /\ ~\E l \in Lacks : Matters(l)
        /\ memory' = [memory EXCEPT !.state = "measuring"] /\ npc' = "row"
  /\ UNCHANGED <<inputs, saved, child, rawRows, summary, measured, outside>>

\* Popen.
Launch ==
  /\ npc = "row" /\ nextRow \in Rows
  /\ Save(memory)
  /\ child' = "running" /\ npc' = "started"
  /\ UNCHANGED <<inputs, memory, rawRows, summary, measured, outside>>

\* Only in the `try' is a process that does not end of itself ended.
EnterTry ==
  /\ npc = "started"
  /\ npc' = "wait"
  /\ UNCHANGED <<inputs, memory, saved, child, rawRows, summary, measured, outside>>

\* What the defect does at this row.
Now(what) == defect.what = what /\ defect.row = nextRow

ProbeEnds ==
  /\ npc = "wait" /\ child = "running" /\ ~Now("hang")
  /\ child' = "none"
  /\ IF Now("exit") THEN CollectionFails ELSE npc' = "read" /\ UNCHANGED memory
  /\ UNCHANGED <<inputs, saved, rawRows, summary, measured, outside>>

ProbeTimeout ==
  /\ npc = "wait" /\ Now("hang")
  /\ npc' = "reap"
  /\ memory' = [memory EXCEPT !.state = "failed"]
  /\ UNCHANGED <<inputs, saved, child, rawRows, summary, measured, outside>>

ReadRecord ==
  /\ npc = "read"
  /\ \E time \in Durations[nextRow] :
       LET control == IF defect.row = nextRow /\ defect.what \in Controlled THEN defect.what ELSE "good"
           r == [control |-> control, time |-> time]
       IN IF validate_record(r)
          THEN /\ rawRows' = Append(rawRows, r)
               /\ memory' = [memory EXCEPT !.completed = @ + 1] /\ Save(memory')
               /\ npc' = "row"
               /\ measured' = IF defect.what \in {"probe_changed", "source_changed"}
                                  /\ defect.row <= nextRow
                              THEN measured ELSE Append(measured, r)
          ELSE CollectionFails /\ UNCHANGED <<rawRows, saved, measured>>
  /\ UNCHANGED <<inputs, child, summary, outside>>

\* Mutant: the binaries and the source are not looked at again.
SummarizeUnchecked ==
  /\ npc = "row" /\ nextRow \notin Rows
  /\ IF Summarizable(ThePlan, rawRows)
     THEN summary' = Figures(rawRows) /\ npc' = "complete" /\ UNCHANGED memory
     ELSE CollectionFails /\ UNCHANGED summary
  /\ UNCHANGED <<inputs, saved, child, rawRows, measured, outside>>

\* The binaries and the source are digested again before anything is summarised.
Summarize ==
  /\ npc = "row" /\ nextRow \notin Rows
  /\ IF /\ defect.what \notin {"probe_changed", "source_changed"}
        /\ Summarizable(ThePlan, rawRows)
     THEN summary' = Figures(rawRows) /\ npc' = "complete" /\ UNCHANGED memory
     ELSE CollectionFails /\ UNCHANGED summary
  /\ UNCHANGED <<inputs, saved, child, rawRows, measured, outside>>

MarkComplete ==
  /\ npc = "complete"
  /\ memory' = [memory EXCEPT !.state = "measurements_completed"]
  /\ npc' = "finally"
  /\ UNCHANGED <<inputs, saved, child, rawRows, summary, measured, outside>>

SaveLast ==
  /\ npc = "finally"
  /\ Save(memory) /\ npc' = "ended"
  /\ UNCHANGED <<inputs, memory, child, rawRows, summary, measured, outside>>

-----------------------------------------------------------------------------
(* The end of a process that did not end of itself, and signals. *)

\* It is asked to end; if it has not in five seconds it is killed and waited for.
ReapProbe ==
  /\ npc = "reap"
  /\ child' = "none" /\ npc' = "finally"
  /\ UNCHANGED <<inputs, memory, saved, rawRows, summary, measured, outside>>

\* SystemExit: in the `try' of run_logged() the process is ended first; before that, when it has
\* just been started, or while it is being ended, it is left.
Terminated ==
  /\ signals < MaxSignals /\ npc \notin {"call", "ended", "finally", "died"}
  /\ signals' = signals + 1
  /\ memory' = [memory EXCEPT !.state = "interrupted"]
  /\ npc' = IF npc = "wait" THEN "reap" ELSE "finally"
  /\ abandoned' = (abandoned \/ npc \in {"started", "reap"})
  /\ UNCHANGED <<inputs, saved, child, rawRows, summary, measured, altered, verdict>>

\* In the last save, which is then not made: the file is replaced at once or not at all.
TerminatedLate ==
  /\ signals < MaxSignals /\ npc = "finally"
  /\ signals' = signals + 1 /\ npc' = "ended"
  /\ UNCHANGED <<inputs, memory, saved, child, rawRows, summary, measured, altered, abandoned,
                 verdict>>

Dies ==
  /\ npc \notin {"call", "ended", "died"}
  /\ npc' = "died"
  /\ UNCHANGED <<inputs, memory, saved, child, rawRows, summary, measured, outside>>

-----------------------------------------------------------------------------
(* analyze(). *)

\* One alteration of what lies in the directory of a collector that is gone.  Bound: one; who
\* alters a record and the summary to match is not found out.
\*   "provenance": a field that must be there is gone, or the commit is not the status's.
\*   "qualification": what a normal collection must fulfil, or whether the host is virtual.
\*   "wording": anything else in the files of the machine, the source and the build.
Alter ==
  /\ altered = "nothing" /\ verdict = "none" /\ npc \in {"ended", "died"}
  /\ \/ /\ altered' \in {"plan", "request", "provenance", "qualification", "wording"}
        /\ UNCHANGED <<rawRows, summary, saved>>
     \/ /\ altered' = "record"
        /\ \E i \in Troubled \cap DOMAIN rawRows :
             \/ \E control \in Controlled : rawRows' = [rawRows EXCEPT ![i].control = control]
             \/ \E row \in Rows : \E time \in Durations[row] :
                  rawRows' = [rawRows EXCEPT ![i].time = time]
        /\ UNCHANGED <<summary, saved>>
     \/ /\ altered' = "summary"
        /\ \/ summary' = NoSummary
           \/ \E g \in DOMAIN summary : summary' = [summary EXCEPT ![g].max = @ + 1]
        /\ UNCHANGED <<rawRows, saved>>
     \/ /\ altered' = "status"
        /\ \E n \in {saved.completed, Len(ThePlan)} :
             Save([state |-> "measurements_completed", completed |-> n])
        /\ UNCHANGED <<rawRows, summary>>
  /\ UNCHANGED <<inputs, npc, memory, child, signals, measured, abandoned, verdict>>

Accepts ==
  /\ saved.state = "measurements_completed" /\ saved.completed = Len(ThePlan) /\ ThePlan # <<>>
  /\ altered \notin {"plan", "request"}
  /\ DOMAIN rawRows = Rows
  /\ \A i \in Rows : validate_record(rawRows[i])
  /\ Summarizable(ThePlan, rawRows)
  /\ altered # "provenance" /\ (altered = "qualification" => smoke)
  /\ ~\E l \in Lacks : Matters(l)
  /\ summary = Figures(rawRows)

Analyze ==
  /\ verdict = "none" /\ npc # "call"
  /\ verdict' = (IF Accepts THEN "evidence" ELSE "refused")
  /\ UNCHANGED <<inputs, npc, memory, saved, child, rawRows, summary, altered, signals, measured,
                 abandoned>>

NvNext ==
  \/ Refuse \/ Prepare \/ Build \/ Launch \/ EnterTry \/ ProbeEnds \/ ProbeTimeout
  \/ ReadRecord
  \/ Summarize \/ MarkComplete \/ SaveLast \/ ReapProbe \/ Terminated \/ TerminatedLate \/ Dies
  \/ Alter \/ Analyze

NvSpec == NvInit /\ [][NvNext]_NvVars

-----------------------------------------------------------------------------
(* Properties. *)

(***************************************************************************)
(* What analyze() takes as evidence is a collection that measured every    *)
(* row of the plan, a pair's variants with the same output, with the       *)
(* binaries and source that had not changed when the last row was read, on *)
(* a host and a build that qualify; and the figures of its summary are     *)
(* those of the records then measured, although neither they nor their     *)
(* files need be unaltered: a text that is only looked for, or a time that *)
(* moves no median, least or greatest, passes.  Nobody ended it, unless    *)
(* the status was forged.  No death, signal or single alteration, at any   *)
(* moment, gives another.                                                  *)
(***************************************************************************)
EvidenceIsWhole ==
  verdict = "evidence" =>
    /\ DOMAIN measured = Rows
    /\ \A i \in Rows : ThePlan[i].reader = "none" => measured[i].control = "good"
    /\ summary = Figures(measured)
    /\ altered # "status" => signals = 0
    /\ ~\E l \in Lacks : Matters(l)

(***************************************************************************)
(* The collector leaves no probe behind: when it has ended, however it was *)
(* ended short of being killed, signalled again while it cleans up, or     *)
(* signalled between the start of a process and the `try' that ends it,    *)
(* the process it had started is gone (run_logged).                        *)
(***************************************************************************)
ProbeIsReaped == npc = "ended" /\ ~abandoned => child = "none"

(***************************************************************************)
(* What the analysis takes as evidence is a complete measurement of        *)
(* unchanged programs, with the figures that were measured, whichever one  *)
(* file was altered since; and the collector leaves no probe behind,       *)
(* however it is ended within the `try' (collect(), run_logged()).         *)
(***************************************************************************)
EvidenceIsEarned == EvidenceIsWhole /\ ProbeIsReaped
=============================================================================
