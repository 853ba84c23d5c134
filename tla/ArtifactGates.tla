---------------------------- MODULE ArtifactGates ----------------------------
(***************************************************************************)
(* The gates that judge what a build made, from inputs another job left:   *)
(* check-dsp-dump.py compares the hashes two builds of the DSP printed and *)
(* leaves a report and a summary; check-linux-abi.py compares the symbol   *)
(* versions the shipped binaries need with the declared floor;             *)
(* check-portability.py compares the scratch names of the two packaging    *)
(* scripts and compiles its canary.  All of them exit 0 for "it holds",    *)
(* 1 for "it does not", 2 for "nothing was learned".                       *)
(*                                                                         *)
(* A dump is a sequence of lines; a line is "header", or a scenario with a *)
(* hash, a latency and a latency trace.  A version is the sequence of its  *)
(* numbers.  Outputs can fail at any write: the file is refused, or it is  *)
(* left torn.                                                              *)
(***************************************************************************)
EXTENDS Integers, Sequences, FiniteSets

CONSTANTS Scenarios,   \* the scenarios a suite must contain
          Dumps,       \* the dumps a job may leave: whether read, and lines
          Binaries,    \* the sequences of binaries handed to the ABI gate
          Floors,      \* family -> the declared floor
          Packages     \* <<lines of install.sh, lines of uninstall.sh>>

ASSUME ArtifactsAssumption ==
    /\ "header" \notin Scenarios
    /\ \A f \in DOMAIN Floors : Floors[f] \in Seq(Nat)
    /\ \A binaries \in Binaries : \A i \in DOMAIN binaries :
         IsFiniteSet(binaries[i].refs) /\ binaries[i].refs \subseteq STRING \X Seq(Nat)

VARIABLES question,    \* what this call of a gate was asked
          apc,         \* where main stands
          files,       \* what each evidence file and raw dump holds
          gateExit     \* the exit status, -1 until there is one

gateVars == <<question, apc, files, gateExit>>

ScenarioFields(suite) == {"hash"} \cup IF suite = "transitions"
                               THEN {"latency", "trace"} ELSE {}

-----------------------------------------------------------------------------
(* The dump gate. *)

WellFormed(l, suite) ==
    /\ l.name \in Scenarios
    /\ l.hash # "malformed" /\ l.latency # "malformed"
    /\ IF suite = "transitions" THEN l.trace \notin {"malformed", "none"}
       ELSE l.trace = "none"

(* parse_dump: the records of the lines; nothing is valid when a line is unknown,
   repeated or malformed, or a scenario is missing. *)
parse_dump(lines, suite) ==
    LET named == {i \in DOMAIN lines : lines[i].name # "header"}
    IN [valid |-> /\ \A i \in named : WellFormed(lines[i], suite)
                  /\ \A i, j \in named : lines[i].name = lines[j].name => i = j
                  /\ Scenarios \subseteq {lines[i].name : i \in named},
        records |-> {lines[i] : i \in named}]

read_dump(d, suite) == IF d.read THEN parse_dump(d.lines, suite)
                       ELSE [valid |-> FALSE, records |-> {}]

(* assess: what the report says and the exit status main would return. *)
assess(mode, left, right, suite) ==
    LET a == read_dump(left, suite)
        b == read_dump(right, suite)
        differs(f) == \E r \in a.records, q \in b.records :
                          r.name = q.name /\ r[f] # q[f]
    IN IF ~a.valid \/ ~b.valid
       THEN [class |-> "nothing", exit |-> IF mode = "ab" THEN 2 ELSE 0]
       ELSE IF \E f \in ScenarioFields(suite) : differs(f)
       THEN [class |-> "different", exit |-> IF mode = "ab" THEN 1 ELSE 0]
       ELSE [class |-> "identical", exit |-> 0]

Unavailable(mode) == [class |-> "nothing", exit |-> IF mode = "ab" THEN 2 ELSE 0]

SummaryOn(paths) == paths.summary # "none"

(* check_evidence_paths: neither output may be one of the raw dumps. *)
UnsafePaths(paths) ==
    \/ paths.report \in {"left", "right"}
    \/ SummaryOn(paths) /\ paths.summary \in {"left", "right"}

-----------------------------------------------------------------------------
(* The ABI gate. *)

(* As text 38 sorts below 9: the comparison version_key exists to avoid. *)
AboveAsText(v, w) ==
    LET lead(x) == IF x >= 10 THEN x \div 10 ELSE x
    IN \E i \in 1 .. Len(v) :
           /\ \A j \in 1 .. i - 1 : j <= Len(w) /\ v[j] = w[j]
           /\ i > Len(w) \/ lead(v[i]) > lead(w[i])

(* version_key: a tuple compares number by number, a prefix is smaller. *)
Above(v, w) ==
    \E i \in 1 .. Len(v) :
        /\ \A j \in 1 .. i - 1 : j <= Len(w) /\ v[j] = w[j]
        /\ i > Len(w) \/ v[i] > w[i]

Families(refs) == {r[1] : r \in refs}

(* parse_version_refs: the highest version each family is needed in. *)
Highest(refs) ==
    [f \in Families(refs) |->
        CHOOSE v \in {r[2] : r \in refs} :
            /\ <<f, v>> \in refs
            /\ \A r \in refs : r[1] = f => ~Above(r[2], v)]

Over(refs) == \E f \in DOMAIN Floors \cap Families(refs) :
                  Above(Highest(refs)[f], Floors[f])
Missing(refs) == ~(DOMAIN Floors \subseteq Families(refs))

(* check: an unreadable file or one without versions ends the call; absent
   families and breaches are collected over every binary. *)
AbiExit(binaries) ==
    LET all == {binaries[i] : i \in DOMAIN binaries}
    IN IF all = {} \/ \E b \in all : ~b.read \/ b.refs = {} THEN 2
       ELSE IF \E b \in all : Missing(b.refs) THEN 2
       ELSE IF \E b \in all : Over(b.refs) THEN 1 ELSE 0

-----------------------------------------------------------------------------
(* The portability gate. *)

(* scratch_names_agree: names on lines that are not comments. *)
ScratchNames(script) == {l.name : l \in {k \in script : ~k.comment}}

scratch_names_agree(install, uninstall) ==
    ScratchNames(install) = ScratchNames(uninstall)

LintExit(scanned, violations, package) ==
    IF scanned = 0 THEN 2
    ELSE IF violations > 0 \/ ~scratch_names_agree(package[1], package[2])
    THEN 1 ELSE 0

(* compile_canary: each form "ok", refused by "simd", or refused otherwise. *)
CanaryExit(modules, baseline, deduced, explicit) ==
    IF ~modules \/ baseline # "ok" \/ explicit = "other" THEN 2
    ELSE IF deduced # "ok" \/ explicit = "ok" THEN 1 ELSE 0

-----------------------------------------------------------------------------
(* main, one call of one gate. *)

Holding(what) == [class |-> what, exit |-> -1]

Untouched == [f \in {"left", "right", "report", "summary"} |->
                 Holding(IF f \in {"left", "right"} THEN "raw" ELSE "old")]

Asked ==
    [gate : {"dump"}, mode : {"ab", "c"}, suite : {"steady", "transitions"},
     left : Dumps, right : Dumps,
     paths : [report : {"left", "right", "report"},
              summary : {"left", "right", "summary", "none"}]]
    \cup [gate : {"abi"}, binaries : Binaries]
    \cup [gate : {"lint"}, scanned : 0 .. 1, violations : 0 .. 1, package : Packages]
    \cup [gate : {"canary"}, modules : BOOLEAN, baseline : {"ok", "other"},
          deduced : {"ok", "other"}, explicit : {"ok", "simd", "other"}]

GatesInit ==
    /\ question \in Asked
    /\ apc = IF question.gate = "dump" THEN "paths" ELSE "judge"
    /\ files = Untouched /\ gateExit = -1

Assessment == assess(question.mode, question.left, question.right, question.suite)

Return(code) == apc' = "returned" /\ gateExit' = code

CheckPaths ==
    /\ apc = "paths"
    /\ IF UnsafePaths(question.paths) THEN Return(Unavailable(question.mode).exit)
       ELSE apc' = "report" /\ UNCHANGED gateExit
    /\ UNCHANGED <<question, files>>

(* write_text truncates the file it opens; a refused open leaves it alone. *)
Put(file, value, ok) ==
    IF ok THEN files' = [files EXCEPT ![file] = value]
    ELSE files' \in {files, [files EXCEPT ![file] = Holding("torn")]}

WriteReport(ok) ==
    /\ apc = "report"
    /\ Put(question.paths.report, Assessment, ok)
    /\ IF ~ok THEN apc' = "rewrite" /\ UNCHANGED gateExit
       ELSE IF SummaryOn(question.paths) THEN apc' = "summary" /\ UNCHANGED gateExit
       ELSE Return(Assessment.exit)
    /\ UNCHANGED question

AppendSummary(ok) ==
    /\ apc = "summary"
    /\ Put(question.paths.summary, Assessment, ok)
    /\ IF ok THEN Return(Assessment.exit) ELSE apc' = "rewrite" /\ UNCHANGED gateExit
    /\ UNCHANGED question

(* The except branch: the result becomes "nothing learned" and the report is
   written again, which may fail again; the status is the new one either way. *)
RewriteReport(ok) ==
    /\ apc = "rewrite"
    /\ Put(question.paths.report, Unavailable(question.mode), ok)
    /\ Return(Unavailable(question.mode).exit)
    /\ UNCHANGED question

JudgeInputs ==
    /\ apc = "judge"
    /\ Return(CASE question.gate = "abi" -> AbiExit(question.binaries)
                [] question.gate = "lint" ->
                     LintExit(question.scanned, question.violations, question.package)
                [] question.gate = "canary" ->
                     CanaryExit(question.modules, question.baseline,
                                question.deduced, question.explicit))
    /\ UNCHANGED <<question, files>>

GatesNext ==
    \/ CheckPaths
    \/ \E ok \in BOOLEAN : WriteReport(ok) \/ AppendSummary(ok) \/ RewriteReport(ok)
    \/ JudgeInputs

GatesSpec == GatesInit /\ [][GatesNext]_gateVars

-----------------------------------------------------------------------------
(* Versions compared as numbers, a missing number being 0. *)
AtMost(v, w) ==
    LET at(s, i) == IF i <= Len(s) THEN s[i] ELSE 0
        longest == IF Len(v) > Len(w) THEN Len(v) ELSE Len(w)
    IN \/ \A i \in 1 .. longest : at(v, i) = at(w, i)
       \/ \E i \in 1 .. longest : /\ at(v, i) < at(w, i)
                                  /\ \A j \in 1 .. i - 1 : at(v, j) = at(w, j)

LinesOf(d, s) == {i \in DOMAIN d.lines : d.lines[i].name = s}

SaysTheSame(q) ==
    \A s \in Scenarios : \E i \in LinesOf(q.left, s), j \in LinesOf(q.right, s) :
        /\ LinesOf(q.left, s) = {i} /\ LinesOf(q.right, s) = {j}
        /\ \A f \in ScenarioFields(q.suite) : q.left.lines[i][f] = q.right.lines[j][f]

(***************************************************************************)
(* A gate that exits 0 measured what it vouches for, whatever the inputs:  *)
(* two builds whose every scenario appears exactly once in both dumps with *)
(* the same hash (and, for transitions, latency and trace); binaries each  *)
(* of which needs every declared family and no single reference above its  *)
(* floor; packaging scripts that remove in code every scratch name the     *)
(* other creates in code; a canary that compiled, and was refused for the  *)
(* reason the lint exists (check-dsp-dump.py assess, check-linux-abi.py    *)
(* check, check-portability.py lint and compile_canary).                   *)
(***************************************************************************)
ExitIsMeasured ==
    gateExit = 0 =>
      CASE question.gate = "dump" ->
             question.mode = "ab" => /\ question.left.read /\ question.right.read
                                     /\ SaysTheSame(question)
        [] question.gate = "abi" ->
             /\ question.binaries # <<>>
             /\ \A i \in DOMAIN question.binaries : \A f \in DOMAIN Floors :
                    /\ \E r \in question.binaries[i].refs : r[1] = f
                    /\ \A r \in question.binaries[i].refs : r[1] = f => AtMost(r[2], Floors[f])
        [] question.gate = "lint" ->
             \A l \in question.package[1] \cup question.package[2] :
                 ~l.comment => \A k \in {1, 2} : \E o \in question.package[k] :
                                    o.name = l.name /\ ~o.comment
        [] OTHER -> /\ question.baseline = "ok" /\ question.deduced = "ok"
                    /\ question.explicit = "simd"

(***************************************************************************)
(* Comparing two dumps never writes over either of them, and a comparison  *)
(* that answers 0 or 1 left its report, and the summary it was asked for,  *)
(* saying what it answered: evidence that could not be kept turns the      *)
(* answer into "nothing learned" (check-dsp-dump.py main and               *)
(* check_evidence_paths).  The informational mode never fails a job.       *)
(***************************************************************************)
EvidenceIsKept ==
    question.gate = "dump" =>
      /\ files.left = Holding("raw") /\ files.right = Holding("raw")
      /\ question.mode = "c" => gateExit \in {-1, 0}
      /\ question.mode = "ab" /\ gateExit \in {0, 1} =>
             /\ files.report = Assessment /\ Assessment.exit = gateExit
             /\ SummaryOn(question.paths) => files.summary = Assessment

(***************************************************************************)
(* Both: what exits 0 was measured, and its evidence kept.                 *)
(***************************************************************************)
ZeroIsMeasured == ExitIsMeasured /\ EvidenceIsKept
=============================================================================
