---------------------------- MODULE ScriptsProofs ----------------------------
(***************************************************************************)
(* Proofs about scripts whose verdict is believed: the Memcheck runner,    *)
(* for every set of suites, the receipt test, for every set of components  *)
(* of the package, a command of the diagnosis drivers, for every time it   *)
(* is given and every delay of a census, the native collector, for every   *)
(* plan and number of signals, the campaigns, for every set of facts and   *)
(* number of attempts, and the shared cache of the release tool, for any   *)
(* number of invocations, any archive, and any retries and harms.          *)
(***************************************************************************)
EXTENDS PluginvalCache, Memcheck, Receipts, Invocation, NativeValidation, Campaign, FiniteSetTheorems,
        WellFoundedInduction, SequenceTheorems, TLAPS

-----------------------------------------------------------------------------
(* Memcheck: the inductive invariant. *)

MemTyped ==
  /\ wpc \in [Suites -> {"check", "popen", "register", "read", "wait", "abandon", "record", "failed", "done"}]
  /\ suite \in [Suites -> {"none", "running", "ok", "bad"}]
  /\ state \in [Suites -> {"pending", "running", "completed", "interrupted", "start_failed"}]
  /\ exitCode \in [Suites -> {"none", "ok", "bad"}]
  /\ kept \subseteq Suites /\ registered \subseteq Suites /\ terminated \subseteq registered
  /\ interrupted \in BOOLEAN /\ returned \in {"no", "zero", "one"}

\* A suite whose output has ended is itself at its end, and so is whoever held the pipe.
Over(s) == suite[s] \in {"ok", "bad"} /\ s \notin kept

\* What a worker has found by the time it waits, and when it has recorded a completion.
\* Main ends no suite that is recorded as completed.
WorkerInv ==
  \A s \in Suites :
    /\ wpc[s] \in {"register", "read"} => suite[s] # "none"
    /\ wpc[s] \in {"wait", "record"} => Over(s)
    /\ state[s] = "completed" =>
         wpc[s] = "done" /\ Over(s) /\ exitCode[s] = suite[s] /\ s \notin terminated

MemInv ==
  /\ MemTyped /\ WorkerInv
  /\ returned = "zero" => AllSucceeded

-----------------------------------------------------------------------------
(* Memcheck: each step keeps it. *)

\* A step that writes no result, and only lets suites and helpers end, keeps what is
\* recorded of every suite.
LEMMA EndsKeep ==
  ASSUME MemInv, NEW s \in Suites, SuiteExits(s) \/ SuiteForks(s) \/ HelperEnds(s)
  PROVE  MemInv'
<1>1. MemTyped /\ WorkerInv
  BY DEF MemInv
<1>2. /\ UNCHANGED <<wpc, state, exitCode, registered, terminated, interrupted, returned>>
      /\ \A t \in Suites : suite[t] \in {"ok", "bad"} => suite'[t] = suite[t]
      /\ \A t \in Suites : suite[t] # "none" => suite'[t] # "none"
      /\ \A t \in Suites : Over(t) => Over(t)'
      /\ suite' \in [Suites -> {"none", "running", "ok", "bad"}] /\ kept' \subseteq Suites
  <2>1. CASE SuiteExits(s)
    BY <1>1, <2>1 DEF SuiteExits, MemTyped, Over, results, ends
  <2>2. CASE SuiteForks(s)
    BY <1>1, <2>2 DEF SuiteForks, MemTyped, Over, results, ends
  <2>3. CASE HelperEnds(s)
    BY <1>1, <2>3 DEF HelperEnds, MemTyped, Over, results, ends
  <2> QED
    BY <2>1, <2>2, <2>3
<1>3. MemTyped'
  BY <1>1, <1>2 DEF MemTyped
<1>4. WorkerInv'
  BY <1>1, <1>2 DEF WorkerInv, Over
<1>5. returned' = "zero" => AllSucceeded'
  BY <1>2 DEF MemInv, AllSucceeded
<1> QED
  BY <1>3, <1>4, <1>5 DEF MemInv

\* A worker's step is of its own suite, and none follows its last.
LEMMA WorkerKeeps ==
  ASSUME MemInv, NEW s \in Suites, Worker(s) \/ ReadOutput(s)
  PROVE  MemInv'
<1>1. MemTyped /\ WorkerInv
  BY DEF MemInv
<1>2. /\ wpc[s] # "done" /\ state[s] # "completed"
      /\ UNCHANGED <<kept, stubborn, fatal, terminated, killed, interrupted, returned>>
      /\ \A t \in Suites \ {s} : wpc'[t] = wpc[t] /\ state'[t] = state[t] /\ exitCode'[t] = exitCode[t]
                                 /\ suite'[t] = suite[t]
      /\ MemTyped'
      /\ wpc'[s] \in {"register", "read"} => suite'[s] # "none"
      /\ wpc'[s] \in {"wait", "record"} => Over(s)'
      /\ state'[s] = "completed" =>
           wpc'[s] = "done" /\ Over(s)' /\ exitCode'[s] = suite'[s] /\ s \notin terminated
  <2>0. wpc[s] # "done" => state[s] # "completed"
    BY <1>1 DEF WorkerInv
  <2>1. CASE CheckInterrupted(s)
    BY <1>1, <2>0, <2>1 DEF CheckInterrupted, Goto, MemTyped, processes, ends
  <2>2. CASE Popen(s)
    BY <1>1, <2>0, <2>2 DEF Popen, Goto, MemTyped, results, ends
  <2>3. CASE Register(s)
    BY <1>1, <2>0, <2>3 DEF Register, Goto, MemTyped, WorkerInv, processes, ends
  <2>4. CASE ReadOutput(s)
    <3>1. suite[s] # "none"
      BY <1>1, <2>4 DEF ReadOutput, WorkerInv
    <3> QED
      BY <1>1, <2>0, <2>4, <3>1 DEF ReadOutput, Goto, MemTyped, Over, processes, results, ends
  <2>5. CASE WaitChild(s)
    BY <1>1, <2>0, <2>5 DEF WaitChild, Goto, MemTyped, WorkerInv, Over, processes, results, ends
  <2>6. CASE RecordEnd(s)
    BY <1>1, <2>0, <2>6 DEF RecordEnd, Goto, MemTyped, WorkerInv, Over, processes, ends
  <2>7. CASE RecordFailure(s)
    BY <1>1, <2>0, <2>7 DEF RecordFailure, Goto, MemTyped, processes, ends
  <2> QED
    BY <2>1, <2>2, <2>3, <2>4, <2>5, <2>6, <2>7 DEF Worker
<1>3. WorkerInv'
  BY <1>1, <1>2 DEF WorkerInv, Over
<1>4. returned # "zero"
  BY <1>2 DEF MemInv, AllSucceeded
<1> QED
  BY <1>2, <1>3, <1>4 DEF MemInv

LEMMA MainKeeps ==
  ASSUME MemInv, Cancel \/ Returns \/ \E elapsed \in BOOLEAN : EndSuites(elapsed)
  PROVE  MemInv'
<1>1. MemTyped /\ WorkerInv
  BY DEF MemInv
<1>2. CASE Cancel
  BY <1>1, <1>2 DEF Cancel, MemInv, MemTyped, WorkerInv, Over, AllSucceeded, processes, results
<1>3. CASE Returns
  BY <1>1, <1>3 DEF Returns, MemInv, MemTyped, WorkerInv, Over, AllSucceeded, processes, results
<1>4. CASE \E elapsed \in BOOLEAN : EndSuites(elapsed)
  <2>1. PICK elapsed \in BOOLEAN : EndSuites(elapsed)
    BY <1>4
  <2>2. /\ terminated' \subseteq registered
        /\ \A s \in Suites : state[s] = "completed" /\ s \notin terminated => s \notin terminated'
        /\ UNCHANGED <<wpc, suite, kept, state, exitCode, registered, interrupted, returned>>
    BY <1>1, <2>1 DEF EndSuites, MemTyped, results
  <2>3. MemTyped' /\ WorkerInv'
    BY <1>1, <2>2 DEF MemTyped, WorkerInv, Over
  <2> QED
    BY <2>2, <2>3 DEF MemInv, AllSucceeded
<1> QED
  BY <1>2, <1>3, <1>4

\* What is recorded of each suite is so, and stays so, whatever order workers, suites,
\* helpers and the main thread run in (run_one(), run_suites()).
THEOREM MemcheckInvariant == MemSpec => []MemInv
<1>1. ASSUME MemInit PROVE MemInv
  <2>1. MemTyped
    BY <1>1 DEF MemInit, MemTyped
  <2>2. \A s \in Suites : wpc[s] = "check" /\ state[s] = "pending"
    BY <1>1 DEF MemInit
  <2>3. WorkerInv
    BY <2>2 DEF WorkerInv
  <2>4. returned # "zero"
    BY <1>1 DEF MemInit
  <2> QED
    BY <2>1, <2>3, <2>4 DEF MemInv
<1>2. MemInv /\ [MemNext]_MemVars => MemInv'
  <2>1. ASSUME MemInv, UNCHANGED MemVars PROVE MemInv'
    BY <2>1 DEF MemVars, MemInv, MemTyped, WorkerInv, Over, AllSucceeded
  <2> QED
    BY <2>1, EndsKeep, WorkerKeeps, MainKeeps DEF MemNext
<1> QED
  BY <1>1, <1>2, PTL DEF MemSpec

\* A suite that the runner ended is never recorded as completed, and a green run means
\* that every suite exited zero of itself, that none left a helper on its output, and
\* that none was ended (run_suites()).
THEOREM GreenIsAlwaysEarned == MemSpec => []GreenIsEarned
<1>1. ASSUME MemInv PROVE GreenIsEarned
  <2>1. MemTyped /\ WorkerInv
    BY <1>1 DEF MemInv
  <2>2. ASSUME returned = "zero" PROVE (\A s \in Suites : suite[s] = "ok") /\ kept = {} /\ terminated = {}
    <3>1. \A s \in Suites : suite[s] = "ok" /\ s \notin kept /\ s \notin terminated
      BY <1>1, <2>1, <2>2 DEF MemInv, AllSucceeded, WorkerInv, Over
    <3> QED
      BY <2>1, <3>1 DEF MemTyped
  <2> QED
    BY <2>1, <2>2 DEF GreenIsEarned, WorkerInv
<1> QED
  BY <1>1, MemcheckInvariant, PTL

-----------------------------------------------------------------------------
(* The receipt test: the inductive invariant. *)

Reports == [failure : BOOLEAN, started : BOOLEAN, components : SUBSET Own, written : BOOLEAN]

\* What the machine held is none of this product.
Clean(held) == held.receipts \cap Own = {}

\* What has been found once the receipts were compared: of every component that is in
\* the report, that it is what was staged.
Validated ==
  /\ Clean(before) /\ validate_separation
  /\ report.components = Own \ unvalidated
  /\ \A s \in report.components : validate_component(s)

ReceiptsInv ==
  /\ report \in Reports /\ unvalidated \subseteq Own
  /\ rstep \in {"guard", "refused", "snapshot", "install", "after", "validate", "finally", "passed", "failed"}
  /\ rstep \notin {"guard", "refused"} => hosted
  /\ rstep \in {"guard", "snapshot", "install", "after"} =>
       unvalidated = Own /\ report.components = {} /\ ~report.failure
  /\ rstep = "install" => report.started /\ before = machine /\ \A s \in Own : machine.bundles[s] = NoBundle
  /\ rstep \in {"install", "after"} => Clean(before)
  /\ rstep = "validate" => ~report.failure /\ Validated
  /\ rstep = "finally" /\ ~report.failure => unvalidated = {} /\ Validated
  /\ rstep = "passed" => report.written /\ unvalidated = {} /\ Validated

-----------------------------------------------------------------------------
(* The receipt test: each step keeps it. *)

\* Whatever fails leaves a report that says so.
LEMMA FailKeeps == ASSUME ReceiptsInv, Fail, unvalidated' = unvalidated, hosted' = hosted, hosted PROVE ReceiptsInv'
<1>1. report' \in Reports /\ report'.failure
  BY DEF ReceiptsInv, Fail, Reports
<1> QED
  BY <1>1 DEF ReceiptsInv, Fail

\* A component that validates joins the report, and the last of them ends the reading.
LEMMA ValidateKeeps ==
  ASSUME ReceiptsInv, NEW s \in Suffixes, NEW ok \in BOOLEAN, Validate(s, ok)
  PROVE  ReceiptsInv'
<1>1. CASE ok /\ validate_component(s)
  <2>1. /\ report' = [report EXCEPT !.components = @ \cup {s}] /\ unvalidated' = unvalidated \ {s}
        /\ rstep' = IF unvalidated' = {} THEN "finally" ELSE rstep
        /\ rstep = "validate" /\ s \in unvalidated /\ UNCHANGED <<hosted, machine, before>>
    BY <1>1 DEF Validate
  <2>2. report \in Reports /\ unvalidated \subseteq Own /\ Validated /\ ~report.failure
    BY <2>1 DEF ReceiptsInv
  <2>3. report' \in Reports /\ report'.components = report.components \cup {s} /\ ~report'.failure
    BY <2>1, <2>2 DEF Reports, Own
  <2>4. Validated'
    <3>1. report'.components = Own \ unvalidated'
      BY <2>1, <2>2, <2>3 DEF Validated, Own
    <3>2. \A t \in report'.components : validate_component(t)
      BY <1>1, <2>2, <2>3 DEF Validated
    <3>3. \A t \in report'.components : validate_component(t)'
      BY <2>1, <3>2 DEF validate_component
    <3>4. Clean(before)' /\ validate_separation'
      BY <2>1, <2>2 DEF Validated, Clean, validate_separation
    <3> QED
      BY <3>1, <3>3, <3>4 DEF Validated
  <2> QED
    BY <2>1, <2>2, <2>3, <2>4 DEF ReceiptsInv
<1>2. CASE ~(ok /\ validate_component(s))
  BY <1>2, FailKeeps DEF Validate, ReceiptsInv
<1> QED
  BY <1>1, <1>2

LEMMA ReceiptsKept == ASSUME ReceiptsInv, ReceiptsNext PROVE ReceiptsInv'
<1>1. CASE disposable_guard
  BY <1>1 DEF disposable_guard, ReceiptsInv
<1>2. ASSUME NEW ok \in BOOLEAN, Snapshot(ok) PROVE ReceiptsInv'
  <2>1. CASE ok /\ machine.receipts \cap Own = {} /\ \A s \in Own : machine.bundles[s] = NoBundle
    <3>1. /\ rstep = "snapshot" /\ before' = machine /\ rstep' = "install"
          /\ report' = [report EXCEPT !.started = TRUE] /\ UNCHANGED <<hosted, machine, unvalidated>>
      BY <1>2, <2>1 DEF Snapshot
    <3>2. /\ report' \in Reports /\ report'.started /\ report'.components = report.components
          /\ report'.failure = report.failure
      BY <3>1 DEF ReceiptsInv, Reports
    <3> QED
      BY <2>1, <3>1, <3>2 DEF ReceiptsInv, Clean
  <2> QED
    BY <1>2, <2>1, FailKeeps DEF Snapshot, ReceiptsInv
<1>3. ASSUME NEW ok \in BOOLEAN, After(ok) PROVE ReceiptsInv'
  <2>1. CASE ok /\ validate_separation
    <3>1. rstep = "after" /\ rstep' = "validate" /\ UNCHANGED <<hosted, machine, before, unvalidated, report>>
      BY <1>3, <2>1 DEF After
    <3>2. Validated'
      BY <2>1, <3>1 DEF ReceiptsInv, Validated, Clean, validate_separation
    <3> QED
      BY <3>1, <3>2 DEF ReceiptsInv
  <2> QED
    BY <1>3, <2>1, FailKeeps DEF After, ReceiptsInv
<1>4. ASSUME NEW ok \in BOOLEAN, WriteReport(ok) PROVE ReceiptsInv'
  <2>1. /\ rstep = "finally" /\ report' = [report EXCEPT !.written = ok]
        /\ rstep' = IF ok /\ ~report.failure THEN "passed" ELSE "failed"
        /\ UNCHANGED <<hosted, machine, before, unvalidated>>
    BY <1>4 DEF WriteReport
  <2>2. report' \in Reports /\ report'.written = ok /\ report'.components = report.components
    BY <2>1 DEF ReceiptsInv, Reports
  <2>3. Validated => Validated'
    BY <2>1, <2>2 DEF Validated, Clean, validate_separation, validate_component
  <2> QED
    BY <2>1, <2>2, <2>3 DEF ReceiptsInv
<1>5. CASE Install
  <2>1. rstep = "install" /\ UNCHANGED <<hosted, before, unvalidated>>
    BY <1>5 DEF Install
  <2>2. CASE rstep' = "after" /\ UNCHANGED report
    BY <2>1, <2>2 DEF ReceiptsInv, Clean
  <2>3. CASE Fail
    BY <2>1, <2>3, FailKeeps DEF ReceiptsInv
  <2> QED
    BY <1>5, <2>2, <2>3 DEF Install
<1> QED
  BY <1>1, <1>2, <1>3, <1>4, <1>5, ValidateKeeps DEF ReceiptsNext

\* What the report says of the machine is what was read from it, at every moment and
\* whichever question fails (test-macos-receipts.py main).
THEOREM ReceiptsInvariant == ReceiptsSpec => []ReceiptsInv
<1>1. ReceiptsInit => ReceiptsInv
  BY DEF ReceiptsInit, ReceiptsInv, Reports, Blank
<1>2. ReceiptsInv /\ [ReceiptsNext]_receiptVars => ReceiptsInv'
  <2>1. ASSUME ReceiptsInv, UNCHANGED receiptVars PROVE ReceiptsInv'
    BY <2>1 DEF receiptVars, ReceiptsInv, Validated, Clean, validate_separation, validate_component
  <2> QED
    BY <2>1, ReceiptsKept
<1> QED
  BY <1>1, <1>2, PTL DEF ReceiptsSpec

LEMMA OwnsOnlyStaged ==
  ASSUME NEW paths, NEW installed, validate_ownership(paths, installed, Staged),
         Files(installed) = Files(Staged)
  PROVE  paths \subseteq {e.path : e \in Staged}
<1>1. Files(Staged) \subseteq Staged /\ Folders(Staged) \subseteq {e.path : e \in Staged}
  BY DEF Files, Folders
<1>2. paths \subseteq {e.path : e \in Files(Staged)} \cup Folders(Staged)
  BY DEF validate_ownership
<1> QED
  BY <1>1, <1>2

\* A pass is earned over the whole machine, for any components, any machine and an
\* installer that did anything (main, validate_separation(), validate_component()).
THEOREM InstallIsAlwaysProven == ReceiptsSpec => []InstallIsProven
<1>1. ASSUME ReceiptsInv, rstep = "passed" PROVE InstallIsProven
  <2>1. report.written /\ unvalidated = {} /\ Validated
    BY <1>1 DEF ReceiptsInv
  <2>2. report.components = Suffixes /\ before.receipts \cap Own = {}
    BY <2>1 DEF Validated, Clean, Own
  <2>3. machine.receipts = before.receipts \cup Own /\ machine.siblingBytes = before.siblingBytes
    BY <2>1 DEF Validated, validate_separation
  <2>4. ASSUME NEW s \in Suffixes
        PROVE  Files(machine.bundles[s]) = Files(Staged) /\ machine.owned[s] \subseteq {e.path : e \in Staged}
    <3>1. validate_component(s)
      BY <2>1, <2>2 DEF Validated
    <3> QED
      BY <3>1, OwnsOnlyStaged DEF validate_component
  <2> QED
    BY <2>1, <2>2, <2>3, <2>4 DEF InstallIsProven
<1>2. ReceiptsInv => InstallIsProven
  BY <1>1 DEF InstallIsProven
<1> QED
  BY <1>2, ReceiptsInvariant, PTL

\* Only the installer changes the machine, only a hosted one, and only where nothing of
\* this product was there (disposable_guard(), main).
THEOREM NothingIsOverwritten == ReceiptsSpec => NeverOverExisting
<1>1. ASSUME ReceiptsInv, ReceiptsNext, machine' # machine PROVE Install
  BY <1>1 DEF ReceiptsNext, disposable_guard, Snapshot, After, WriteReport, Validate
<1>2. ASSUME ReceiptsInv, [ReceiptsNext]_receiptVars, machine' # machine
      PROVE  /\ hosted /\ report.started /\ machine.receipts \cap Own = {}
             /\ \A s \in Own : machine.bundles[s] = NoBundle
  <2>1. Install
    BY <1>1, <1>2 DEF receiptVars
  <2>2. rstep = "install"
    BY <2>1 DEF Install
  <2> QED
    BY <1>2, <2>2 DEF ReceiptsInv, Clean
<1>3. ReceiptsInv /\ [ReceiptsNext]_receiptVars =>
        [machine' # machine => /\ hosted /\ report.started
                               /\ machine.receipts \cap Own = {}
                               /\ \A s \in Own : machine.bundles[s] = NoBundle]_receiptVars
  BY <1>2
<1> QED
  BY <1>3, ReceiptsInvariant, PTL DEF ReceiptsSpec, NeverOverExisting

-----------------------------------------------------------------------------
(* The drivers' command: the inductive invariant. *)

InvPlaces == {"begin", "spawned", "wait", "before", "initial", "term", "after_term_reap", "grace",
              "after_term", "killing", "after_kill_reap", "final", "report", "after_cleanup", "done"}

InvTyped ==
  /\ driver \in {"scope", "launch", "handshake"} /\ observing \in BOOLEAN
  /\ leader \in {"none", "running", "zombie", "reaped"}
  /\ helper \in {"none", "grouped", "escaped", "backend", "gone"}
  /\ now \in Nat /\ executionEnd \in Nat /\ cleanupEnd \in Nat /\ deadline \in Nat /\ termStarted \in Nat
  /\ ipc \in InvPlaces
  /\ known \in BOOLEAN /\ confirmed \in BOOLEAN

\* Only a launched command is waited for; a group that was seen empty stays so,
\* because whoever could fork in it is reaped.
ProcessInv ==
  /\ ipc = "begin" => leader = "none"
  /\ leader = "none" => ipc \in {"begin", "done"} /\ helper = "none"
  /\ seen = "empty" => leader = "reaped" /\ helper # "grouped"

\* After KILL whoever is in the group is doomed, so none of them forks again.
DoomInv ==
  ipc \in {"after_kill_reap", "final", "report", "after_cleanup", "done"} /\ "refused" \notin faults
    => GroupMembers \subseteq doomed

\* What the last looks found, where nothing is held against the command.
VerdictInv ==
  /\ ipc = "after_cleanup" /\ "cleanup_error" \notin faults => seen = "empty"
  /\ ipc = "done" /\ leader # "none" /\ "cleanup_error" \notin faults =>
       /\ seen = "empty"
       /\ observing /\ known => ~HelperLives
       /\ observing /\ driver = "handshake" => helper # "backend"

\* How late the cleanup can begin, and what each of its stages leaves to those after.
Late == IF driver = "handshake" THEN Overrun ELSE 10

TimeInv ==
  /\ ipc \notin {"begin", "done"} => cleanupEnd = executionEnd + CleanupSeconds
  /\ ipc \in {"spawned", "before"} => now < executionEnd
  /\ ipc \in {"spawned", "wait", "before", "initial"} => now <= executionEnd + Late
  /\ Overrun < 80 =>
       /\ ipc \in {"initial", "term", "after_term_reap"} => now + 41 <= cleanupEnd
       /\ ipc \in {"grace", "after_term"} => now + 40 <= cleanupEnd
       /\ ipc \in {"killing", "after_kill_reap"} => now + 20 <= cleanupEnd
       /\ ipc = "final" => now + 4 <= cleanupEnd
       /\ ipc = "report" => now + 1 <= cleanupEnd

InvInv == InvTyped /\ ProcessInv /\ DoomInv /\ VerdictInv /\ TimeInv

-----------------------------------------------------------------------------
(* The drivers' command: each step keeps it. *)

\* Whoever exits or leaves only shrinks the group; a doomed leader forks no more.
LEMMA MachineKeeps ==
  ASSUME InvInv, Exits \/ Forks \/ HelperLeaves
  PROVE  InvInv'
<1>1. /\ UNCHANGED <<driver, observing, now, ipc, times, seen, known, confirmed, faults, doomed>>
      /\ leader' \in {"none", "running", "zombie", "reaped"}
      /\ helper' \in {"none", "grouped", "escaped", "backend", "gone"}
      /\ leader' = leader \/ (leader = "running" /\ leader' = "zombie")
      /\ \/ helper' = helper
         \/ helper = "grouped" /\ helper' \in {"gone", "escaped", "backend"}
         \/ HelperLives /\ helper' = "gone"
         \/ leader = "running" /\ "leader" \notin doomed /\ helper' = "grouped"
  <2>1. CASE Exits
    BY <2>1 DEF Exits, Machine, InvInv, InvTyped
  <2>2. CASE Forks
    BY <2>2 DEF Forks, Machine, InvInv, InvTyped
  <2>3. CASE HelperLeaves
    BY <2>3 DEF HelperLeaves, Machine, HelperLives, InvInv, InvTyped
  <2> QED
    BY <2>1, <2>2, <2>3
<1>2. InvTyped' /\ TimeInv'
  BY <1>1 DEF InvInv, InvTyped, TimeInv, Late, times
<1>3. ProcessInv'
  BY <1>1 DEF InvInv, ProcessInv, HelperLives
<1>4. DoomInv'
  <2>1. SUFFICES ASSUME ipc \in {"after_kill_reap", "final", "report", "after_cleanup", "done"},
                        "refused" \notin faults
                 PROVE  GroupMembers' \subseteq doomed
    BY <1>1 DEF DoomInv
  <2>2. GroupMembers \subseteq doomed
    BY <2>1 DEF InvInv, DoomInv
  <2>3. leader = "running" => "leader" \in doomed
    BY <2>2 DEF GroupMembers
  <2>4. GroupMembers' \subseteq GroupMembers
    BY <1>1, <2>3 DEF GroupMembers
  <2> QED
    BY <2>2, <2>4
<1>5. VerdictInv'
  BY <1>1 DEF InvInv, VerdictInv, ProcessInv, HelperLives
<1> QED
  BY <1>2, <1>3, <1>4, <1>5 DEF InvInv

\* Up to the cleanup a step writes no verdict.
LEMMA EarlyStepKeeps ==
  ASSUME InvInv, leader # "none",
         UNCHANGED <<driver, observing, helper, executionEnd, cleanupEnd, deadline, termStarted,
                     seen, confirmed>>,
         leader' = leader \/ (leader = "zombie" /\ leader' = "reaped"),
         ipc \in {"spawned", "wait", "before"}, ipc' \in {"wait", "before", "initial"},
         now' \in Nat, known' \in BOOLEAN,
         ipc' = "before" => now' < executionEnd,
         now' <= executionEnd + Late
  PROVE  InvInv'
<1>1. InvTyped'
  BY DEF InvInv, InvTyped, InvPlaces
<1>2. ProcessInv' /\ DoomInv' /\ VerdictInv'
  BY DEF InvInv, ProcessInv, DoomInv, VerdictInv
<1>3. PICK then \in Nat : then = now'
  OBVIOUS
<1>4. cleanupEnd = executionEnd + 120 /\ Late' = Late /\ cleanupEnd' = cleanupEnd
      /\ executionEnd' = executionEnd
  BY DEF InvInv, TimeInv, CleanupSeconds, Late
<1>5. Overrun < 80 => Late < 80
  BY InvocationAssumption DEF Late
<1>6. Late \in Nat /\ executionEnd \in Nat
  BY InvocationAssumption DEF Late, InvInv, InvTyped
<1>7. Overrun < 80 => then + 41 <= cleanupEnd
  <2>1. then <= executionEnd + Late
    BY <1>3
  <2>2. cleanupEnd = executionEnd + 120
    BY <1>4
  <2> QED
    BY <1>5, <1>6, <2>1, <2>2
<1>8. TimeInv'
  BY <1>3, <1>4, <1>7 DEF TimeInv, CleanupSeconds
<1> QED
  BY <1>1, <1>2, <1>8 DEF InvInv

\* A census ends at its deadline at the latest, but for what it may overrun.
LEMMA CensusDoes ==
  ASSUME InvInv, NEW end \in Int, NEW next, Census(end, next)
  PROVE  /\ now' \in Nat /\ known' \in BOOLEAN /\ ipc' = next
         /\ now' <= (IF now < end THEN end ELSE now) + (IF driver = "handshake" THEN Overrun ELSE 0)
         /\ faults \subseteq faults' /\ ("refused" \in faults' => "refused" \in faults)
         /\ UNCHANGED <<driver, observing, process, times, seen, confirmed>>
         /\ next = "done" /\ "cleanup_error" \notin faults' =>
              /\ OwnedRows = {} /\ known' = known
              /\ ~(driver = "handshake" /\ helper = "backend")
<1>1. now \in Nat /\ known \in BOOLEAN
  BY DEF InvInv, InvTyped
<1>2. AtLeastZero(end - now) \in Nat
      /\ now + AtLeastZero(end - now) = (IF now < end THEN end ELSE now)
  BY <1>1 DEF AtLeastZero
<1>3. PICK late \in {0, AtLeastZero(end - now) + (IF driver = "handshake" THEN Overrun ELSE 0)},
           outcome \in {"complete", "failed"} :
        LET expired    == now + late >= end
            incomplete == outcome = "failed" \/ (IF driver = "handshake" THEN expired ELSE end <= now)
            remain     == IF driver = "handshake" /\ helper = "backend" THEN OwnedRows \cup {"helper"}
                                                                        ELSE OwnedRows
        IN /\ now' = now + late
           /\ known' = (known \/ (outcome = "complete" /\ "helper" \in OwnedRows))
           /\ faults' = faults \cup (IF incomplete THEN {"inspection"} ELSE {})
                               \cup (IF next = "done" /\ (incomplete \/ remain # {} \/ "inspection" \in faults)
                                     THEN {"cleanup_error"} ELSE {})
           /\ ipc' = next
           /\ UNCHANGED <<driver, observing, process, times, seen, confirmed>>
  BY DEF Census
<1>4. late \in Nat /\ now + late <= (IF now < end THEN end ELSE now) + (IF driver = "handshake" THEN Overrun ELSE 0)
  BY <1>1, <1>2, <1>3, InvocationAssumption
<1>5. now' \in Nat /\ now' <= (IF now < end THEN end ELSE now) + (IF driver = "handshake" THEN Overrun ELSE 0)
  BY <1>1, <1>3, <1>4
<1>6. known' \in BOOLEAN /\ ("helper" \notin OwnedRows => known' = known)
  BY <1>1, <1>3
<1>7. faults \subseteq faults' /\ ("refused" \in faults' => "refused" \in faults)
  BY <1>3
<1>8. ASSUME next = "done", "cleanup_error" \notin faults'
      PROVE  OwnedRows = {} /\ ~(driver = "handshake" /\ helper = "backend")
  BY <1>3, <1>8
<1> QED
  BY <1>3, <1>5, <1>6, <1>7, <1>8

LEMMA AfterWaitIs ==
  ASSUME NEW at
  PROVE  /\ AfterWait(at) \subseteq {"before", "initial"}
         /\ "before" \in AfterWait(at) => at < executionEnd
BY DEF AfterWait

LEMMA CommandKeeps ==
  ASSUME InvInv, AfterSpawn \/ WaitEnds \/ WaitFails \/ LookAgain \/ BeforeTermination \/ GivesUp
  PROVE  InvInv'
<1>1. /\ now \in Nat /\ executionEnd \in Nat /\ deadline \in Nat /\ known \in BOOLEAN /\ Late \in Nat
      /\ CensusEnd \in Int /\ (driver # "handshake" => CensusEnd <= now + 10)
      /\ Lesser(executionEnd, CensusEnd) \in Int /\ Lesser(executionEnd, CensusEnd) <= executionEnd
  BY InvocationAssumption DEF InvInv, InvTyped, Late, CensusEnd, Lesser
<1>2. ipc \in {"spawned", "wait", "before"} => leader # "none" /\ now <= executionEnd + Late
  BY DEF InvInv, ProcessInv, TimeInv
<1>3. CASE AfterSpawn \/ LookAgain \/ BeforeTermination
  <2>1. ipc \in {"spawned", "wait", "before"} /\ now < executionEnd
    BY <1>3 DEF AfterSpawn, LookAgain, BeforeTermination, InvInv, TimeInv
  <2>2. PICK end \in Int, next \in {"wait", "initial"} :
          Census(end, next) /\ (driver = "handshake" => end <= executionEnd)
                            /\ (driver # "handshake" => end <= now + 10 \/ end <= executionEnd)
    <3>1. CASE AfterSpawn
      BY <1>1, <3>1 DEF AfterSpawn
    <3>2. CASE LookAgain
      BY <1>1, <3>2 DEF LookAgain
    <3>3. CASE BeforeTermination
      BY <1>1, <3>3 DEF BeforeTermination
    <3> QED
      BY <1>3, <3>1, <3>2, <3>3
  <2>3. /\ now' \in Nat /\ known' \in BOOLEAN /\ ipc' = next
        /\ now' <= (IF now < end THEN end ELSE now) + (IF driver = "handshake" THEN Overrun ELSE 0)
        /\ UNCHANGED <<driver, observing, process, times, seen, confirmed>>
    BY <2>2, CensusDoes
  <2>4. (IF now < end THEN end ELSE now) + (IF driver = "handshake" THEN Overrun ELSE 0)
          <= executionEnd + Late
    BY <1>1, <2>1, <2>2, InvocationAssumption DEF Late
  <2>5. PICK then \in Nat : then = now'
    BY <2>3
  <2>6. then <= executionEnd + Late
    BY <1>1, <2>2, <2>3, <2>4, <2>5, InvocationAssumption
  <2> QED
    BY <1>2, <2>1, <2>2, <2>3, <2>5, <2>6, EarlyStepKeeps DEF process, times
<1>4. CASE WaitEnds \/ WaitFails \/ GivesUp
  <2>1. /\ ipc = "wait" /\ now' \in {now, executionEnd} /\ known' = known
        /\ leader' = leader \/ (leader = "zombie" /\ leader' = "reaped")
        /\ ipc' \in AfterWait(now')
        /\ UNCHANGED <<driver, observing, helper, executionEnd, cleanupEnd, deadline, termStarted,
                       seen, confirmed>>
    <3>1. CASE WaitEnds
      BY <3>1 DEF WaitEnds, times
    <3>2. CASE WaitFails
      BY <3>2 DEF WaitFails, process, times
    <3>3. CASE GivesUp
      BY <3>3 DEF GivesUp, process, times
    <3> QED
      BY <1>4, <3>1, <3>2, <3>3
  <2>2. PICK then \in Nat : then = now'
    BY <1>1, <2>1
  <2>3. ipc' \in AfterWait(then)
    BY <2>1, <2>2
  <2>4. ipc' \in {"before", "initial"} /\ (ipc' = "before" => then < executionEnd)
    BY <2>3, AfterWaitIs
  <2>5. then <= executionEnd + Late
    BY <1>1, <1>2, <2>1, <2>2
  <2> QED
    BY <1>1, <1>2, <2>1, <2>2, <2>4, <2>5, EarlyStepKeeps
<1> QED
  BY <1>3, <1>4

\* Whatever time is allowed, the cleanup's is set apart before the command starts.
LEMMA BeginKeeps ==
  ASSUME InvInv, Begin
  PROVE  InvInv'
<1>1. now \in Nat /\ deadline \in Nat /\ ipc = "begin" /\ leader = "none" /\ helper = "none"
      /\ seen # "empty"
  BY DEF InvInv, InvTyped, ProcessInv, Begin
<1>2. PICK cap \in Caps :
        LET limit == Lesser(cap, AtLeastZero(deadline - now - CleanupSeconds))
        IN /\ executionEnd' = now + limit
           /\ cleanupEnd' = Lesser(deadline, now + limit + CleanupSeconds)
           /\ \/ limit <= 0 /\ faults' = {"budget_exhausted"} /\ ipc' = "done"
                 /\ UNCHANGED <<leader, deaf>>
              \/ limit > 0 /\ faults' = {"launch_error"} /\ ipc' = "done"
                 /\ UNCHANGED <<leader, deaf>>
              \/ limit > 0 /\ leader' = "running" /\ deaf' \in {{}, {"leader", "helper"}}
                 /\ ipc' = (IF observing THEN "spawned" ELSE "wait")
                 /\ UNCHANGED faults
  BY DEF Begin
<1> DEFINE limit == Lesser(cap, AtLeastZero(deadline - now - CleanupSeconds))
<1>3. UNCHANGED <<driver, observing, code, helper, doomed, now, deadline, termStarted, seen, known, confirmed>>
  BY DEF Begin
<1>4. /\ limit \in Nat
      /\ Lesser(deadline, now + limit + CleanupSeconds) \in Nat
      /\ limit > 0 => Lesser(deadline, now + limit + CleanupSeconds) = now + limit + CleanupSeconds
  BY <1>1, InvocationAssumption DEF Lesser, AtLeastZero, CleanupSeconds
<1>5. /\ executionEnd' = now + limit
      /\ cleanupEnd' = Lesser(deadline, now + limit + CleanupSeconds)
      /\ \/ ipc' = "done" /\ leader' = leader
         \/ limit > 0 /\ ipc' \in {"spawned", "wait"} /\ leader' = "running"
  BY <1>2
<1> HIDE DEF limit
<1>6. InvTyped'
  BY <1>3, <1>4, <1>5 DEF InvInv, InvTyped, InvPlaces
<1>7. ProcessInv' /\ VerdictInv'
  BY <1>1, <1>3, <1>5 DEF ProcessInv, VerdictInv
<1>8. DoomInv'
  BY <1>1, <1>3, <1>5 DEF DoomInv, GroupMembers
<1>9. TimeInv'
  <2>1. CASE ipc' = "done"
    BY <2>1 DEF TimeInv
  <2>2. CASE ipc' \in {"spawned", "wait"}
    <3>1. limit > 0 /\ now' = now /\ executionEnd' = now + limit /\ cleanupEnd' = now + limit + CleanupSeconds
      BY <1>3, <1>4, <1>5, <2>2
    <3>2. Late' = Late /\ Late \in Nat
      BY <1>3, InvocationAssumption DEF Late
    <3>3. now' < executionEnd' /\ now' <= executionEnd' + Late' /\ cleanupEnd' = executionEnd' + CleanupSeconds
      BY <1>1, <1>4, <3>1, <3>2 DEF CleanupSeconds
    <3> QED
      BY <2>2, <3>3 DEF TimeInv
  <2> QED
    BY <1>5, <2>1, <2>2
<1> QED
  BY <1>6, <1>7, <1>8, <1>9 DEF InvInv

-----------------------------------------------------------------------------
(* The drivers' command: the cleanup. *)

\* Stages of the cleanup, and what a step of one leaves of the time, the processes and
\* the faults.
Stages == {"initial", "term", "after_term_reap", "grace", "after_term", "killing", "after_kill_reap",
           "final", "report"}

\* Bounds a blocking call within what a stage may take.
LEMMA RemainingIs ==
  ASSUME InvTyped, NEW reserve \in Nat, NEW cap \in Nat
  PROVE  /\ Lesser(cap, Remaining(reserve)) \in Nat
         /\ \/ now + Lesser(cap, Remaining(reserve)) + reserve <= cleanupEnd
            \/ Lesser(cap, Remaining(reserve)) = 0
BY DEF InvTyped, Lesser, Remaining, AtLeastZero

LEMMA ObserveKeeps ==
  ASSUME InvInv, Initial \/ AfterTerm \/ Final
  PROVE  InvInv'
<1>1. PICK at \in Stages, reserve \in {80, 20, 1}, next \in Stages :
        /\ Observe(at, reserve, next)
        /\ \/ at = "initial" /\ reserve = 80 /\ next = "term"
           \/ at = "after_term" /\ reserve = 20 /\ next = "killing"
           \/ at = "final" /\ reserve = 1 /\ next = "report"
  BY DEF Initial, AfterTerm, Final, Stages
<1> DEFINE limit == Lesser(20, Remaining(reserve))
<1>2. InvTyped /\ limit \in Nat /\ (now + limit + reserve <= cleanupEnd \/ limit = 0)
  <2>1. InvTyped
    BY DEF InvInv
  <2>2. reserve \in Nat /\ 20 \in Nat
    BY <1>1
  <2> QED
    BY <2>1, <2>2, RemainingIs
<1>3. /\ ipc = at /\ ipc' = next
      /\ \/ now' = now /\ seen' = (IF GroupMembers = {} THEN "empty" ELSE "members") /\ faults' = faults
         \/ now' = now + limit /\ seen' = "unknown" /\ faults' = faults \cup {"cleanup_error"}
      /\ UNCHANGED <<driver, observing, leader, helper, doomed, executionEnd, cleanupEnd, deadline,
                     termStarted, known, confirmed>>
  BY <1>1 DEF Observe, process, times
<1> HIDE DEF limit
<1>4. PICK then \in Nat : then = now'
  BY <1>2, <1>3 DEF InvTyped
<1>5. InvTyped'
  BY <1>1, <1>2, <1>3, <1>4 DEF InvTyped, InvPlaces
<1>6. ProcessInv'
  <2>1. GroupMembers = {} => leader \in {"none", "reaped"} /\ helper # "grouped"
    BY <1>2 DEF GroupMembers, InvTyped
  <2> QED
    BY <1>1, <1>3, <2>1 DEF InvInv, ProcessInv
<1>7. DoomInv'
  BY <1>1, <1>3 DEF InvInv, DoomInv, GroupMembers
<1>8. VerdictInv'
  BY <1>1, <1>3 DEF VerdictInv
<1>9. TimeInv'
  <2>1. now \in Nat /\ cleanupEnd \in Nat /\ executionEnd \in Nat
    BY <1>2 DEF InvTyped
  <2>2. cleanupEnd = executionEnd + CleanupSeconds
    BY <1>1, <1>3 DEF InvInv, TimeInv
  <2>3. then = now \/ then + reserve <= cleanupEnd
    <3>1. then = now \/ then = now + limit
      BY <1>3, <1>4
    <3> QED
      BY <1>2, <2>1, <3>1
  <2>4. Overrun < 80 => now + (IF at = "initial" THEN 41 ELSE IF at = "after_term" THEN 40 ELSE 4) <= cleanupEnd
    BY <1>1, <1>3 DEF InvInv, TimeInv
  <2>5. Overrun < 80 => then + (IF next = "term" THEN 41 ELSE IF next = "killing" THEN 20 ELSE 1) <= cleanupEnd
    BY <1>1, <2>1, <2>3, <2>4
  <2>6. ipc' = next /\ now' = then /\ cleanupEnd' = cleanupEnd /\ executionEnd' = executionEnd
    BY <1>3, <1>4
  <2> QED
    BY <1>1, <2>2, <2>5, <2>6 DEF TimeInv, CleanupSeconds
<1> QED
  BY <1>5, <1>6, <1>7, <1>8, <1>9 DEF InvInv

LEMMA SendKeeps ==
  ASSUME InvInv, Term \/ Kill
  PROVE  InvInv'
<1>1. /\ InvTyped /\ ProcessInv
      /\ \/ ipc = "term" /\ ipc' = "after_term_reap"
         \/ ipc = "killing" /\ ipc' \in {"after_kill_reap", "final"}
      /\ now' = now /\ UNCHANGED <<driver, observing, leader, helper, executionEnd, cleanupEnd, deadline,
                                   seen, known, confirmed>>
      /\ termStarted' \in {now, termStarted}
  BY DEF InvInv, Term, Kill, Send, process, times
<1>2. InvTyped' /\ ProcessInv' /\ VerdictInv'
  BY <1>1 DEF InvTyped, InvPlaces, ProcessInv, VerdictInv
<1>3. DoomInv'
  <2>1. CASE Term
    BY <1>1, <2>1 DEF Term, Send, DoomInv
  <2>2. CASE Kill /\ (~confirmed \/ seen # "empty")
    <3>1. "refused" \in faults' \/ GroupMembers \subseteq doomed'
      BY <2>2 DEF Kill, Send
    <3> QED
      BY <1>1, <3>1 DEF DoomInv, GroupMembers
  <2>3. CASE Kill /\ ~(~confirmed \/ seen # "empty")
    <3>1. GroupMembers' = {}
      BY <1>1, <2>3 DEF GroupMembers, ProcessInv, InvTyped
    <3> QED
      BY <3>1 DEF DoomInv
  <2> QED
    BY <2>1, <2>2, <2>3
<1>4. TimeInv'
  <2>1. now \in Nat /\ cleanupEnd \in Nat
    BY <1>1 DEF InvTyped
  <2> QED
    BY <1>1, <2>1 DEF InvInv, TimeInv, CleanupSeconds
<1> QED
  BY <1>2, <1>3, <1>4 DEF InvInv

LEMMA ReapKeeps ==
  ASSUME InvInv, ReapTermed \/ ReapKilled \/ Grace
  PROVE  InvInv'
<1>1. InvTyped /\ ProcessInv /\ now \in Nat /\ cleanupEnd \in Nat /\ termStarted \in Nat
  BY DEF InvInv, InvTyped
<1>2. PICK limit \in Nat, reserve \in {40, 4} :
        /\ now' = now \/ now' = now + limit
        /\ now + limit + reserve <= cleanupEnd \/ limit = 0
        /\ \/ ipc \in {"after_term_reap", "grace"} /\ ipc' \in {"grace", "after_term"} /\ reserve = 40
           \/ ipc = "after_kill_reap" /\ ipc' = "final" /\ reserve = 4
        /\ leader' = leader \/ (leader = "zombie" /\ leader' = "reaped")
        /\ confirmed' \in {confirmed, TRUE}
        /\ "refused" \in faults => "refused" \in faults'
        /\ UNCHANGED <<driver, observing, helper, doomed, executionEnd, cleanupEnd, deadline, termStarted,
                       seen, known>>
  <2>1. CASE ReapTermed
    <3> DEFINE limit == Lesser(40, Remaining(40))
    <3>1. limit \in Nat /\ (now + limit + 40 <= cleanupEnd \/ limit = 0)
      BY <1>1, RemainingIs
    <3>2. /\ now' = now \/ now' = now + limit
          /\ ipc = "after_term_reap" /\ ipc' \in {"grace", "after_term"}
          /\ leader' = leader \/ (leader = "zombie" /\ leader' = "reaped")
          /\ confirmed' \in {confirmed, TRUE}
          /\ "refused" \in faults => "refused" \in faults'
          /\ UNCHANGED <<driver, observing, helper, doomed, executionEnd, cleanupEnd, deadline,
                         termStarted, seen, known>>
      BY <2>1 DEF ReapTermed, Reap, times
    <3> QED
      BY <3>1, <3>2
  <2>2. CASE ReapKilled
    <3> DEFINE limit == Lesser(20, Remaining(4))
    <3>1. limit \in Nat /\ (now + limit + 4 <= cleanupEnd \/ limit = 0)
      BY <1>1, RemainingIs
    <3>2. /\ now' = now \/ now' = now + limit
          /\ ipc = "after_kill_reap" /\ ipc' = "final"
          /\ leader' = leader \/ (leader = "zombie" /\ leader' = "reaped")
          /\ confirmed' \in {confirmed, TRUE}
          /\ "refused" \in faults => "refused" \in faults'
          /\ UNCHANGED <<driver, observing, helper, doomed, executionEnd, cleanupEnd, deadline,
                         termStarted, seen, known>>
      BY <2>2 DEF ReapKilled, Reap, times
    <3> QED
      BY <3>1, <3>2
  <2>3. CASE Grace
    <3> DEFINE pause == AtLeastZero(40 - (now - termStarted))
               limit == Lesser(pause, Remaining(40))
    <3>1. pause \in Nat
      BY <1>1 DEF AtLeastZero
    <3>2. limit \in Nat /\ (now + limit + 40 <= cleanupEnd \/ limit = 0)
      BY <1>1, <3>1, RemainingIs
    <3>3. /\ now' = now + limit
          /\ ipc = "grace" /\ ipc' = "after_term"
          /\ UNCHANGED <<driver, observing, leader, helper, doomed, executionEnd, cleanupEnd, deadline,
                         termStarted, seen, known, confirmed, faults>>
      BY <2>3 DEF Grace, process, times
    <3> QED
      BY <3>2, <3>3
  <2> QED
    BY <2>1, <2>2, <2>3
<1>3. PICK then \in Nat : then = now' /\ (then = now \/ then + reserve <= cleanupEnd)
  BY <1>1, <1>2
<1>4. InvTyped'
  <2>1. /\ driver' = driver /\ observing' = observing /\ helper' = helper /\ known' = known
        /\ executionEnd' = executionEnd /\ cleanupEnd' = cleanupEnd /\ deadline' = deadline
        /\ termStarted' = termStarted
    BY <1>2
  <2>2. now' \in Nat
    BY <1>3
  <2>3. leader' \in {"none", "running", "zombie", "reaped"} /\ confirmed' \in BOOLEAN
    BY <1>1, <1>2 DEF InvTyped
  <2>4. ipc' \in InvPlaces
    BY <1>2 DEF InvPlaces
  <2> QED
    BY <1>1, <2>1, <2>2, <2>3, <2>4 DEF InvTyped
<1>5. ProcessInv' /\ VerdictInv'
  BY <1>1, <1>2 DEF ProcessInv, VerdictInv
<1>6. DoomInv'
  <2>1. GroupMembers' \subseteq GroupMembers
    BY <1>2 DEF GroupMembers
  <2> QED
    BY <1>2, <2>1 DEF InvInv, DoomInv
<1>7. TimeInv'
  <2>1. cleanupEnd = executionEnd + CleanupSeconds
    BY <1>2 DEF InvInv, TimeInv
  <2>2. Overrun < 80 => now + (IF ipc = "after_kill_reap" THEN 20 ELSE 40) <= cleanupEnd
    BY <1>1, <1>2 DEF InvInv, TimeInv
  <2>3. CASE ipc = "after_kill_reap"
    <3>1. reserve = 4 /\ ipc' = "final" /\ cleanupEnd' = cleanupEnd /\ executionEnd' = executionEnd
      BY <1>2, <2>3
    <3>2. Overrun < 80 => then + 4 <= cleanupEnd
      <4>1. then = now \/ then + 4 <= cleanupEnd
        BY <1>3, <3>1
      <4>2. Overrun < 80 => now + 20 <= cleanupEnd
        BY <2>2, <2>3
      <4> QED
        BY <1>1, <4>1, <4>2
    <3> QED
      BY <1>3, <2>1, <3>1, <3>2 DEF TimeInv, CleanupSeconds
  <2>4. CASE ipc # "after_kill_reap"
    <3>1. reserve = 40 /\ ipc' \in {"grace", "after_term"} /\ cleanupEnd' = cleanupEnd /\ executionEnd' = executionEnd
      BY <1>2, <2>4
    <3>2. Overrun < 80 => then + 40 <= cleanupEnd
      <4>1. then = now \/ then + 40 <= cleanupEnd
        BY <1>3, <3>1
      <4> QED
        BY <2>2, <2>4, <4>1
    <3> QED
      BY <1>3, <2>1, <3>1, <3>2 DEF TimeInv, CleanupSeconds
  <2> QED
    BY <2>3, <2>4
<1> QED
  BY <1>4, <1>5, <1>6, <1>7 DEF InvInv

\* The last poll may reap, and the verdict holds the last look against the command.
LEMMA ReportKeeps ==
  ASSUME InvInv, Report
  PROVE  InvInv'
<1>1. /\ ipc = "report" /\ ipc' = (IF observing THEN "after_cleanup" ELSE "done")
      /\ leader' = leader \/ (leader = "zombie" /\ leader' = "reaped")
      /\ faults' = faults \cup (IF ~confirmed \/ seen # "empty" THEN {"cleanup_error"} ELSE {})
      /\ UNCHANGED <<driver, observing, helper, doomed, now, executionEnd, cleanupEnd, deadline, termStarted,
                     seen, known, confirmed>>
  BY DEF Report, times
<1>2. InvTyped' /\ ProcessInv'
  BY <1>1 DEF InvInv, InvTyped, InvPlaces, ProcessInv
<1>3. DoomInv'
  <2>1. GroupMembers' \subseteq GroupMembers
    BY <1>1 DEF GroupMembers
  <2> QED
    BY <1>1, <2>1 DEF InvInv, DoomInv
<1>4. VerdictInv'
  BY <1>1 DEF VerdictInv
<1>5. TimeInv'
  BY <1>1 DEF InvInv, TimeInv
<1> QED
  BY <1>2, <1>3, <1>4, <1>5 DEF InvInv

LEMMA AfterCleanupKeeps ==
  ASSUME InvInv, AfterCleanup
  PROVE  InvInv'
<1>1. ipc = "after_cleanup" /\ Census(CensusEnd, "done") /\ CensusEnd \in Int
  BY DEF AfterCleanup, InvInv, InvTyped, CensusEnd, Lesser
<1>2. /\ now' \in Nat /\ known' \in BOOLEAN /\ ipc' = "done"
      /\ faults \subseteq faults' /\ ("refused" \in faults' => "refused" \in faults)
      /\ UNCHANGED <<driver, observing, leader, code, helper, deaf, doomed, executionEnd, cleanupEnd,
                     deadline, termStarted, seen, confirmed>>
      /\ "cleanup_error" \notin faults' =>
           /\ OwnedRows = {} /\ known' = known
           /\ ~(driver = "handshake" /\ helper = "backend")
  BY <1>1, CensusDoes DEF process, times
<1>3. InvTyped' /\ ProcessInv' /\ TimeInv'
  BY <1>1, <1>2 DEF InvInv, InvTyped, InvPlaces, ProcessInv, TimeInv
<1>4. DoomInv'
  BY <1>1, <1>2 DEF InvInv, DoomInv, GroupMembers
<1>5. VerdictInv'
  <2>1. SUFFICES ASSUME "cleanup_error" \notin faults'
                 PROVE  /\ seen = "empty" /\ (known => ~HelperLives)
                        /\ driver = "handshake" => helper # "backend"
    BY <1>2 DEF VerdictInv, HelperLives
  <2>2. seen = "empty"
    BY <1>1, <1>2, <2>1 DEF InvInv, VerdictInv
  <2>3. known => ~HelperLives
    BY <1>2, <2>1 DEF OwnedRows
  <2>4. driver = "handshake" => helper # "backend"
    BY <1>2, <2>1
  <2> QED
    BY <2>2, <2>3, <2>4
<1> QED
  BY <1>3, <1>4, <1>5 DEF InvInv

-----------------------------------------------------------------------------

LEMMA InvInvInductive == InvSpec => []InvInv
<1>1. InvInit => InvInv
  <2>1. SUFFICES ASSUME InvInit PROVE InvInv
    OBVIOUS
  <2>2. observing \in BOOLEAN
    BY <2>1, Zenon DEF InvInit
  <2>3. /\ driver \in Drivers /\ deadline \in Budgets /\ leader = "none" /\ helper = "none"
        /\ now = 0 /\ executionEnd = 0 /\ cleanupEnd = 0 /\ termStarted = 0 /\ ipc = "begin"
        /\ seen = "unknown" /\ known = FALSE /\ confirmed = FALSE
    BY <2>1 DEF InvInit
  <2>4. InvTyped
    BY <2>2, <2>3, InvocationAssumption DEF InvTyped, InvPlaces
  <2>5. ProcessInv /\ DoomInv /\ VerdictInv /\ TimeInv
    BY <2>3 DEF ProcessInv, DoomInv, VerdictInv, TimeInv
  <2> QED
    BY <2>4, <2>5 DEF InvInv
<1>2. InvInv /\ [InvNext]_InvVars => InvInv'
  <2>1. SUFFICES ASSUME InvInv, [InvNext]_InvVars PROVE InvInv'
    OBVIOUS
  <2>2. CASE UNCHANGED InvVars
    BY <2>1, <2>2 DEF InvVars, process, times, InvInv, InvTyped, ProcessInv, DoomInv, VerdictInv, TimeInv,
                      GroupMembers, HelperLives, Late
  <2>3. CASE InvNext
    BY <2>1, <2>3, MachineKeeps, BeginKeeps, CommandKeeps, ObserveKeeps, SendKeeps, ReapKeeps,
       ReportKeeps, AfterCleanupKeeps DEF InvNext
  <2> QED
    BY <2>1, <2>2, <2>3
<1> QED
  BY <1>1, <1>2, PTL DEF InvSpec

(***************************************************************************)
(* Whatever time a diagnosis driver has and however late a census may      *)
(* come back: a group seen empty stays empty, whoever is in it after KILL  *)
(* is doomed, and each stage of the cleanup leaves the next its time.      *)
(***************************************************************************)
THEOREM InvocationInvariant == InvSpec => []InvInv
BY InvInvInductive

(***************************************************************************)
(* Whatever command a driver runs, for whatever time and however late its  *)
(* censuses are: when it is certified nothing is left behind, and the last *)
(* look at its group has some time.                                        *)
(***************************************************************************)
THEOREM NothingIsLeft == InvSpec => []NothingLeft
<1>1. InvInv => NothingLeft
  <2>1. SUFFICES ASSUME InvInv PROVE NothingLeft
    OBVIOUS
  <2>2. CleanMeansGone
    BY <2>1 DEF CleanMeansGone, ProcessOk, InvInv, VerdictInv, ProcessInv, GroupMembers
  <2>3. GroupEnds
    BY <2>1 DEF GroupEnds, InvInv, DoomInv
  <2>4. LastLookAfforded
    BY <2>1 DEF LastLookAfforded, Remaining, AtLeastZero, InvInv, InvTyped, TimeInv
  <2> QED
    BY <2>2, <2>3, <2>4 DEF NothingLeft
<1> QED
  BY <1>1, InvInvInductive, PTL

-----------------------------------------------------------------------------
(* The collector: the plan and the records. *)

\* However many cells and repetitions there are, the plan is a finite sequence.
LEMMA ChainIsSequence ==
  ASSUME NEW f, Len(f) \in Nat, NEW n \in Nat
  PROVE  \E S : Chain(f, n) \in Seq(S)
<1> DEFINE k == Len(f) * n
           at(i) == f[((i - 1) \div n) + 1][((i - 1) % n) + 1]
           S == {at(i) : i \in 1..k}
<1>1. k \in Nat
  OBVIOUS
<1>2. [i \in 1..k |-> at(i)] \in [1..k -> S]
  OBVIOUS
<1>3. Chain(f, n) = [i \in 1..k |-> at(i)]
  BY DEF Chain
<1> HIDE DEF k, at, S
<1>4. [i \in 1..k |-> at(i)] \in Seq(S)
  BY <1>1, <1>2
<1>5. Chain(f, n) \in Seq(S)
  BY <1>3, <1>4
<1> QED
  BY <1>5

LEMMA PlanIsSequence ==
  Len(ThePlan) \in Nat /\ Rows = 1..Len(ThePlan) /\ (Rows = {} => ThePlan = <<>>)
<1> DEFINE free(cell) ==
             Chain([r \in 1..Repetitions |->
                      Alternating(<< Row(cell, "original", r - 1, "none", FALSE),
                                     Row(cell, "corrected", r - 1, "none", FALSE) >>, r - 1)], 2)
           paced(block) ==
             Chain([r \in 1..Repetitions |->
                      Alternating(<< Row(block, "original", r - 1, "none", TRUE),
                                     Row(block, "corrected", r - 1, "none", TRUE),
                                     Row(block, "corrected", r - 1, "active", TRUE),
                                     Row(block, "corrected", r - 1, "stalled", TRUE) >>, r - 1)], 4)
           cells  == [c \in DOMAIN Cells |-> free(Cells[c])]
           blocks == [b \in DOMAIN PacedBlocks |-> paced(PacedBlocks[b])]
<1>1. ThePlan = Chain(cells, 2 * Repetitions) \o Chain(blocks, 4 * Repetitions)
  BY DEF ThePlan, make_plan
<1> HIDE DEF free, paced
<1>2. Len(cells) \in Nat /\ Len(blocks) \in Nat
  <2>1. DOMAIN Cells = 1..Len(Cells) /\ DOMAIN PacedBlocks = 1..Len(PacedBlocks)
        /\ Len(Cells) \in Nat /\ Len(PacedBlocks) \in Nat
    BY NativeAssumption
  <2>2. cells \in Seq({free(Cells[c]) : c \in DOMAIN Cells})
    BY <2>1
  <2>3. blocks \in Seq({paced(PacedBlocks[b]) : b \in DOMAIN PacedBlocks})
    BY <2>1
  <2> QED
    BY <2>2, <2>3
<1> HIDE DEF cells, blocks
<1>3. 2 * Repetitions \in Nat /\ 4 * Repetitions \in Nat
  BY NativeAssumption
<1>4. PICK S : Chain(cells, 2 * Repetitions) \in Seq(S)
  BY <1>2, <1>3, ChainIsSequence
<1>5. PICK T : Chain(blocks, 4 * Repetitions) \in Seq(T)
  BY <1>2, <1>3, ChainIsSequence
<1>6. Chain(cells, 2 * Repetitions) \in Seq(S \cup T) /\ Chain(blocks, 4 * Repetitions) \in Seq(S \cup T)
  BY <1>4, <1>5
<1>7. ThePlan \in Seq(S \cup T)
  BY <1>1, <1>6
<1> QED
  BY <1>7 DEF Rows

\* One record that differs makes the two variants of its pair disagree.
LEMMA AgreeingIsGood ==
  ASSUME NEW plan, NEW records, NEW d, Summarizable(plan, records),
         \A j \in DOMAIN plan : \/ records[j].control = "good"
                                \/ records[j].control = "differs" /\ j = d,
         NEW i \in DOMAIN plan, plan[i].reader = "none"
  PROVE  records[i].control = "good"
<1> DEFINE bare == {j \in DOMAIN plan : plan[j].reader = "none"}
           pair == {j \in bare : PairOf(plan[j]) = PairOf(plan[i])}
<1>1. i \in bare
  OBVIOUS
<1>2. /\ Cardinality(pair) = 2
      /\ \A j \in pair : (records[j].control = "differs") <=> (records[i].control = "differs")
  BY <1>1 DEF Summarizable
<1>3. SUFFICES ASSUME records[i].control = "differs" PROVE FALSE
  OBVIOUS
<1>4. i \in pair /\ \A j \in pair : j = i
  BY <1>1, <1>2, <1>3
<1>5. pair = {i}
  BY <1>4
<1>6. Cardinality({i}) = 1
  BY FS_Singleton
<1>7. Cardinality(pair) = 2
  BY <1>2
<1> HIDE DEF pair
<1> QED
  BY <1>5, <1>6, <1>7

\* There is a figure of every record.
LEMMA FiguresOfSome ==
  ASSUME NEW records, DOMAIN records = Rows, ThePlan # <<>>
  PROVE  Figures(records) # NoSummary
<1>1. PICK i \in Rows : TRUE
  <2>1. Rows = {} => ThePlan = <<>>
    BY PlanIsSequence
  <2> QED
    BY <2>1
<1>2. GroupOf(ThePlan[i]) \in DOMAIN Figures(records)
  BY <1>1 DEF Figures
<1> QED
  BY <1>2 DEF NoSummary

-----------------------------------------------------------------------------
(* The collector: the inductive invariant. *)

Places == {"call", "build", "row", "started", "wait", "read", "complete", "reap", "finally", "ended", "died"}
Early  == {"call", "build", "row", "started", "wait", "read", "complete"}

States == {"none", "preparing", "measuring", "measurements_completed", "failed", "interrupted"}
Statuses == [state : States, completed : Nat]

NvTyped ==
  /\ npc \in Places /\ defect.what \in Defects \cup {"none"}
  /\ memory \in Statuses /\ saved \in Statuses
  /\ rawRows \in Seq(Records) /\ measured \in Seq(Records)
  /\ abandoned \in BOOLEAN

Changed == defect.what \in {"probe_changed", "source_changed"}

\* What was read, row by row; the history stops where something had changed, and the files may be
\* altered when the collector is gone.
RowInv ==
  /\ Len(rawRows) <= Len(ThePlan)
  /\ npc \in {"started", "wait", "read"} => nextRow \in Rows
  /\ altered # "nothing" => npc \in {"ended", "died"}
  /\ ~Changed => /\ Len(measured) = Len(rawRows)
                 /\ altered # "record" => measured = rawRows
  /\ \A i \in DOMAIN measured :
       \/ measured[i].control = "good"
       \/ measured[i].control = "differs" /\ i = defect.row

Measured == ~Changed /\ Len(measured) = Len(ThePlan) /\ Summarizable(ThePlan, measured)

\* A collection that calls itself complete was checked to its end, and no signal came
\* before it was saved as such; and what was written as its summary is that of what it measured.
StatusInv ==
  /\ npc \in Early => signals = 0
  /\ npc = "complete" => Measured
  /\ memory.state = "measurements_completed" =>
       npc \in {"finally", "ended", "died"} /\ Measured /\ (npc = "finally" => signals = 0)
  /\ saved.state = "measurements_completed" /\ altered # "status" =>
       npc = "ended" /\ Measured /\ signals = 0
  /\ summary # NoSummary /\ altered # "summary" => Measured /\ summary = Figures(measured)

ChildInv == npc \notin {"started", "wait", "reap", "died"} /\ ~abandoned => child = "none"

NvInv ==
  /\ NvTyped /\ RowInv /\ StatusInv /\ ChildInv
  /\ verdict = "evidence" => npc \in {"ended", "died"} /\ EvidenceIsWhole

-----------------------------------------------------------------------------
(* The collector: each step keeps it. *)

LEMMA NewState ==
  \A m \in Statuses : \A s \in States :
    [m EXCEPT !.state = s] \in Statuses /\ [m EXCEPT !.state = s].state = s
BY DEF Statuses

\* Until the last save nobody can have found it complete.
LEMMA NoEvidenceYet ==
  ASSUME NvInv, npc \notin {"ended", "died"}
  PROVE  verdict # "evidence" /\ saved.state # "measurements_completed" /\ altered = "nothing"
BY DEF NvInv, StatusInv, RowInv

LEMMA CollectorStepsKeep ==
  ASSUME NvInv, Refuse \/ Prepare \/ Build \/ Launch \/ EnterTry \/ ProbeEnds \/ ProbeTimeout \/ ReadRecord
  PROVE  NvInv'
<1>1. NvTyped /\ RowInv /\ StatusInv /\ ChildInv /\ verdict # "evidence"
      /\ npc \in {"call", "build", "row", "started", "wait", "read"} /\ altered = "nothing"
      /\ saved.state # "measurements_completed" /\ memory.state # "measurements_completed"
      /\ signals = 0 /\ Len(rawRows) \in Nat
  BY NoEvidenceYet DEF NvInv, StatusInv, NvTyped, Early, Refuse, Prepare, Build, Launch, EnterTry, ProbeEnds, ProbeTimeout,
                       ReadRecord
<1>2. UNCHANGED <<defect, summary, altered, signals, abandoned, verdict>>
  BY DEF Refuse, Prepare, Build, Launch, EnterTry, ProbeEnds, ProbeTimeout, ReadRecord, inputs, outside
<1>3. /\ npc' \in {"ended", "build", "row", "started", "wait", "read", "reap", "finally"}
      /\ memory' \in Statuses /\ saved' \in Statuses
      /\ memory'.state # "measurements_completed" /\ saved'.state # "measurements_completed"
  <2> DEFINE failed == [memory EXCEPT !.state = "failed"]
  <2>0. /\ memory \in Statuses /\ saved \in Statuses /\ NoStatus \in Statuses
        /\ failed \in Statuses /\ failed.state = "failed"
    <3>1. memory \in Statuses /\ saved \in Statuses
      BY <1>1 DEF NvTyped
    <3> QED
      BY <3>1, NewState DEF NoStatus, Statuses, States
  <2>1. CASE Refuse
    BY <1>1, <2>1 DEF Refuse, NvTyped
  <2>2. CASE Prepare
    <3>1. /\ npc' = "build" /\ saved' = memory'
          /\ memory' = [NoStatus EXCEPT !.state = "preparing"]
      BY <2>2 DEF Prepare, Save
    <3>2. memory' \in Statuses /\ memory'.state = "preparing"
      BY <2>0, <3>1, NewState DEF States
    <3> QED
      BY <3>1, <3>2
  <2>3. CASE Build
    <3>1. UNCHANGED saved
      BY <2>3 DEF Build
    <3>2. \/ npc' = "finally" /\ memory' = failed
          \/ npc' = "row" /\ memory' = [memory EXCEPT !.state = "measuring"]
      BY <2>3 DEF Build, CollectionFails
    <3>3. [memory EXCEPT !.state = "measuring"] \in Statuses
          /\ [memory EXCEPT !.state = "measuring"].state = "measuring"
      BY <2>0, NewState DEF States
    <3> QED
      BY <1>1, <2>0, <3>1, <3>2, <3>3
  <2>4. CASE Launch
    BY <1>1, <2>4 DEF Launch, NvTyped, Save
  <2>8. CASE EnterTry
    BY <1>1, <2>8 DEF EnterTry, NvTyped
  <2>5. CASE ProbeEnds
    <3>1. UNCHANGED saved /\ npc' \in {"finally", "read"} /\ memory' \in {failed, memory}
      BY <2>5 DEF ProbeEnds, CollectionFails
    <3> QED
      BY <1>1, <2>0, <3>1
  <2>6. CASE ProbeTimeout
    <3>1. UNCHANGED saved /\ npc' = "reap" /\ memory' = failed
      BY <2>6 DEF ProbeTimeout
    <3> QED
      BY <1>1, <2>0, <3>1
  <2>7. CASE ReadRecord
    <3> DEFINE counted == [memory EXCEPT !.completed = @ + 1]
    <3>1. \/ npc' = "finally" /\ memory' = failed /\ saved' = saved
          \/ npc' = "row" /\ memory' = counted /\ saved' = memory'
      BY <2>7 DEF ReadRecord, CollectionFails, Save
    <3>2. counted \in Statuses /\ counted.state = memory.state
      BY <2>0 DEF Statuses
    <3> QED
      BY <1>1, <2>0, <3>1, <3>2
  <2> QED
    BY <2>1, <2>2, <2>3, <2>4, <2>5, <2>6, <2>7, <2>8
<1>5. ChildInv'
  BY <1>1, <1>2, <1>3 DEF ChildInv, Refuse, Prepare, Build, Launch, EnterTry, ProbeEnds, ProbeTimeout,
                          ReadRecord, CollectionFails
<1>6. CASE rawRows' = rawRows /\ measured' = measured
  <2>1. NvTyped'
    BY <1>1, <1>2, <1>3, <1>6 DEF NvTyped, Places
  <2>2. npc' \in {"started", "wait", "read"} => nextRow \in Rows
    BY <1>1, <1>3 DEF RowInv, Refuse, Prepare, Build, Launch, EnterTry, ProbeEnds, ProbeTimeout, ReadRecord,
                      CollectionFails
  <2>3. RowInv'
    BY <1>1, <1>2, <1>6, <2>2 DEF RowInv, Changed, nextRow, ThePlan, Rows
  <2>4. Measured' = Measured /\ Figures(measured)' = Figures(measured)
    BY <1>2, <1>6 DEF Measured, Changed, ThePlan
  <2>5. StatusInv'
    BY <1>1, <1>2, <1>3, <2>4 DEF StatusInv, Early
  <2> QED
    BY <1>2, <1>1, <1>5, <2>1, <2>3, <2>5 DEF NvInv
<1>7. CASE ~(rawRows' = rawRows /\ measured' = measured)
  <2>1. ReadRecord /\ npc = "read"
    BY <1>7 DEF Refuse, Prepare, Build, Launch, EnterTry, ProbeEnds, ProbeTimeout, ReadRecord
  <2>5. nextRow \in Rows /\ nextRow <= Len(ThePlan)
    BY <1>1, <2>1, PlanIsSequence DEF RowInv
  <2>2. PICK r \in Records :
          /\ r.control \in {"good", "differs"}
          /\ r.control = "differs" => ~Changed /\ nextRow = defect.row
          /\ rawRows' = Append(rawRows, r) /\ npc' = "row"
          /\ measured' = IF Changed /\ defect.row <= nextRow THEN measured ELSE Append(measured, r)
    <3> DEFINE c == IF defect.row = nextRow /\ defect.what \in Controlled THEN defect.what ELSE "good"
    <3>1. PICK t \in Durations[nextRow] :
            LET r == [control |-> c, time |-> t]
            IN IF validate_record(r)
               THEN /\ rawRows' = Append(rawRows, r)
                    /\ npc' = "row"
                    /\ measured' = IF defect.what \in {"probe_changed", "source_changed"}
                                      /\ defect.row <= nextRow
                                   THEN measured ELSE Append(measured, r)
               ELSE UNCHANGED <<rawRows, measured>>
      BY <2>1 DEF ReadRecord
    <3> DEFINE r == [control |-> c, time |-> t]
    <3>2. t \in Nat
      BY <2>5, <3>1, RowsAssumption
    <3>3. validate_record(r)
      BY <1>7, <3>1
    <3>4. c \in {"good", "differs"} /\ (c = "differs" => ~Changed /\ nextRow = defect.row)
      BY <1>1, <3>3 DEF validate_record, Controlled, NvTyped, Defects, Changed
    <3>5. r \in Records /\ r.control = c
      BY <3>2, <3>4 DEF Records, Controlled
    <3> QED
      BY <3>1, <3>3, <3>4, <3>5 DEF Changed
  <2>10. Changed => r.control = "good"
    BY <2>2
  <2>3. /\ rawRows' \in Seq(Records) /\ Len(rawRows') = nextRow
        /\ measured \in Seq(Records) /\ rawRows \in Seq(Records)
    BY <1>1, <2>2 DEF NvTyped, nextRow
  <2>4. measured' = measured \/ measured' = Append(measured, r)
    BY <2>2
  <2>9. measured' \in Seq(Records)
    BY <2>2, <2>3, <2>4
  <2>6. NvTyped'
    BY <1>1, <1>2, <1>3, <2>3, <2>9 DEF NvTyped, Places
  <2>7. ~Changed => measured = rawRows /\ measured' = rawRows'
    BY <1>1, <2>2 DEF RowInv
  <2>8. \A i \in DOMAIN measured' :
          \/ measured'[i].control = "good"
          \/ measured'[i].control = "differs" /\ i = defect.row
    <3>1. CASE measured' = measured
      BY <1>1, <3>1 DEF RowInv
    <3>2. CASE measured' = Append(measured, r) /\ ~Changed
      <4>1. SUFFICES ASSUME NEW i \in DOMAIN measured'
                     PROVE  \/ measured'[i].control = "good"
                            \/ measured'[i].control = "differs" /\ i = defect.row
        OBVIOUS
      <4>2. Len(measured) = Len(rawRows) /\ nextRow = Len(measured) + 1
        BY <2>7, <3>2 DEF nextRow
      <4>3. CASE i = Len(measured) + 1
        BY <2>2, <2>3, <3>2, <4>2, <4>3
      <4>4. CASE i # Len(measured) + 1
        <5>1. i \in DOMAIN measured /\ measured'[i] = measured[i]
          BY <2>3, <3>2, <4>1, <4>4
        <5> QED
          BY <1>1, <5>1 DEF RowInv
      <4> QED
        BY <4>3, <4>4
    <3>3. CASE measured' = Append(measured, r) /\ Changed
      <4>1. r.control = "good"
        BY <2>10, <3>3
      <4>2. SUFFICES ASSUME NEW i \in DOMAIN measured'
                     PROVE  \/ measured'[i].control = "good"
                            \/ measured'[i].control = "differs" /\ i = defect.row
        OBVIOUS
      <4>3. CASE i = Len(measured) + 1
        BY <2>3, <3>3, <4>1, <4>3
      <4>4. CASE i # Len(measured) + 1
        <5>1. i \in DOMAIN measured /\ measured'[i] = measured[i]
          BY <2>3, <3>3, <4>2, <4>4
        <5> QED
          BY <1>1, <5>1 DEF RowInv
      <4> QED
        BY <4>3, <4>4
    <3> QED
      BY <2>4, <3>1, <3>2, <3>3
  <2>11. RowInv'
    <3>1. ~Changed' => Len(measured') = Len(rawRows') /\ measured' = rawRows'
      BY <1>2, <2>7 DEF Changed
    <3> QED
      BY <1>1, <1>2, <2>2, <2>3, <2>5, <2>8, <3>1 DEF RowInv, ThePlan
  <2>12. ~Measured
    <3>1. Len(rawRows) < Len(ThePlan)
      BY <1>1, <2>5, PlanIsSequence DEF nextRow
    <3> QED
      BY <1>1, <2>7, <3>1, PlanIsSequence DEF Measured
  <2>13. StatusInv'
    BY <1>1, <1>2, <1>3, <2>2, <2>12 DEF StatusInv, Early
  <2> QED
    BY <1>2, <1>1, <1>5, <2>6, <2>11, <2>13 DEF NvInv
<1> QED
  BY <1>6, <1>7

LEMMA CollectorEndsKeep ==
  ASSUME NvInv, Summarize \/ MarkComplete \/ SaveLast \/ ReapProbe \/ Terminated \/ TerminatedLate \/ Dies
  PROVE  NvInv'
<1>1. NvTyped /\ RowInv /\ StatusInv /\ ChildInv /\ verdict # "evidence" /\ npc # "ended"
      /\ saved.state # "measurements_completed" /\ altered = "nothing"
  <2>1. npc \notin {"ended", "died"}
    BY DEF Summarize, MarkComplete, SaveLast, ReapProbe, Terminated, TerminatedLate, Dies
  <2> QED
    BY <2>1, NoEvidenceYet DEF NvInv
<1>2. UNCHANGED <<defect, rawRows, altered, verdict, measured>>
  BY DEF Summarize, MarkComplete, SaveLast, ReapProbe, Terminated, TerminatedLate, Dies, inputs, outside
<1>3. RowInv' /\ Measured' = Measured /\ Figures(measured)' = Figures(measured)
  <2>1. npc' \notin {"started", "wait", "read"}
    BY <1>1 DEF Summarize, MarkComplete, SaveLast, ReapProbe, Terminated, TerminatedLate, Dies, CollectionFails
  <2> QED
    BY <1>1, <1>2, <2>1 DEF RowInv, Measured, Changed, nextRow, ThePlan, Rows
<1>5. summary' # NoSummary => Measured /\ summary' = Figures(measured)
  <2>1. CASE summary' = summary
    BY <1>1, <2>1 DEF StatusInv
  <2>2. CASE summary' # summary
    <3>1. /\ nextRow \notin Rows /\ ~Changed /\ Summarizable(ThePlan, rawRows)
          /\ summary' = Figures(rawRows)
      BY <2>2 DEF Summarize, MarkComplete, SaveLast, ReapProbe, Terminated, TerminatedLate, Dies, Changed
    <3>2. measured = rawRows /\ Len(rawRows) \in Nat /\ Len(rawRows) <= Len(ThePlan)
      BY <1>1, <3>1 DEF RowInv, NvTyped
    <3>3. Len(rawRows) = Len(ThePlan)
      BY <3>1, <3>2, PlanIsSequence DEF nextRow
    <3> QED
      BY <3>1, <3>2, <3>3 DEF Measured
  <2> QED
    BY <2>1, <2>2
<1>4. NvTyped' /\ StatusInv' /\ ChildInv'
  <2>1. CASE Summarize
    <3>1. npc' = "complete" => Measured
      <4>1. npc' = "complete" =>
              nextRow \notin Rows /\ ~Changed /\ Summarizable(ThePlan, rawRows)
        BY <2>1 DEF Summarize, CollectionFails, Changed
      <4>2. ~Changed => measured = rawRows
        BY <1>1 DEF RowInv
      <4>3. Len(rawRows) \in Nat /\ Len(rawRows) <= Len(ThePlan)
        BY <1>1 DEF RowInv, NvTyped
      <4>4. nextRow \notin Rows => Len(rawRows) = Len(ThePlan)
        BY <4>3, PlanIsSequence DEF nextRow
      <4> QED
        BY <4>1, <4>2, <4>4 DEF Measured
    <3>2. UNCHANGED <<saved, child, signals, abandoned>> /\ npc = "row" /\ npc' \in {"complete", "finally"}
          /\ (memory' = memory \/ memory' = [memory EXCEPT !.state = "failed"])
      BY <2>1 DEF Summarize, CollectionFails, outside
    <3>3. memory' \in Statuses /\ (memory'.state = "failed" \/ memory'.state = memory.state)
      <4>1. [memory EXCEPT !.state = "failed"] \in Statuses
            /\ [memory EXCEPT !.state = "failed"].state = "failed"
        BY <1>1, NewState DEF NvTyped, States
      <4> QED
        BY <1>1, <3>2, <4>1 DEF NvTyped
    <3>4. NvTyped' /\ ChildInv'
      BY <1>1, <1>2, <3>2, <3>3 DEF NvTyped, Places, ChildInv
    <3>5. StatusInv'
      BY <1>1, <1>2, <1>3, <1>5, <3>1, <3>2, <3>3 DEF StatusInv, Early
    <3> QED
      BY <3>4, <3>5
  <2>2. CASE MarkComplete
    <3>1. UNCHANGED <<saved, child, signals, abandoned>> /\ npc = "complete" /\ npc' = "finally"
          /\ memory' = [memory EXCEPT !.state = "measurements_completed"]
      BY <2>2 DEF MarkComplete, outside
    <3>2. memory' \in Statuses
      BY <1>1, <3>1, NewState DEF NvTyped, States
    <3>3. NvTyped' /\ ChildInv'
      BY <1>1, <1>2, <3>1, <3>2 DEF NvTyped, Places, ChildInv
    <3>4. StatusInv'
      BY <1>1, <1>2, <1>3, <1>5, <3>1 DEF StatusInv, Early
    <3> QED
      BY <3>3, <3>4
  <2>3. CASE SaveLast
    BY <1>1, <1>2, <1>3, <1>5, <2>3 DEF SaveLast, Save, outside, NvTyped, Places, StatusInv, ChildInv, Early
  <2>4. CASE ReapProbe
    BY <1>1, <1>2, <1>3, <1>5, <2>4 DEF ReapProbe, outside, NvTyped, Places, StatusInv, ChildInv, Early
  <2>5. CASE Terminated
    <3>1. /\ memory' = [memory EXCEPT !.state = "interrupted"] /\ npc \notin {"ended", "finally", "died"}
          /\ npc' = (IF npc = "wait" THEN "reap" ELSE "finally")
          /\ abandoned' = (abandoned \/ npc \in {"started", "reap"}) /\ UNCHANGED <<saved, child>>
      BY <2>5 DEF Terminated
    <3>2. abandoned' \in BOOLEAN /\ (~abandoned' => ~abandoned /\ npc \notin {"started", "reap"})
      BY <1>1, <3>1 DEF NvTyped
    <3>4. memory' \in Statuses /\ memory'.state # "measurements_completed"
      BY <1>1, <3>1, NewState DEF NvTyped, States
    <3>3. NvTyped'
      BY <1>1, <1>2, <3>1, <3>2, <3>4 DEF NvTyped, Places
    <3>5. StatusInv'
      BY <1>1, <1>2, <1>3, <1>5, <3>1, <3>4 DEF StatusInv, Early
    <3>6. ChildInv'
      BY <1>1, <3>1, <3>2 DEF ChildInv
    <3> QED
      BY <3>3, <3>5, <3>6
  <2>6. CASE TerminatedLate
    BY <1>1, <1>2, <1>3, <1>5, <2>6 DEF TerminatedLate, NvTyped, Places, StatusInv, ChildInv, Early
  <2>7. CASE Dies
    BY <1>1, <1>2, <1>3, <1>5, <2>7 DEF Dies, outside, NvTyped, Places, StatusInv, ChildInv, Early
  <2> QED
    BY <2>1, <2>2, <2>3, <2>4, <2>5, <2>6, <2>7
<1> QED
  BY <1>1, <1>2, <1>3, <1>4 DEF NvInv

\* What analyze() compares is enough to know what happened, whichever file was altered: the
\* status and the summary both say that the whole plan was measured, and one of them is as it was.
LEMMA AcceptedIsWhole ==
  ASSUME NvInv, Accepts
  PROVE  /\ npc \in {"ended", "died"} /\ DOMAIN measured = Rows
         /\ \A i \in Rows : ThePlan[i].reader = "none" => measured[i].control = "good"
         /\ summary = Figures(measured)
         /\ altered # "status" => signals = 0
         /\ ~\E l \in Lacks : Matters(l)
<1>1. /\ saved.state = "measurements_completed" /\ summary = Figures(rawRows)
      /\ summary # NoSummary /\ ~\E l \in Lacks : Matters(l)
  BY FiguresOfSome DEF Accepts
<1>2. npc \in {"ended", "died"} /\ Measured
  BY <1>1 DEF NvInv, StatusInv, RowInv
<1>3. summary = Figures(measured)
  <2>1. CASE altered # "summary"
    BY <1>1, <2>1 DEF NvInv, StatusInv
  <2>2. CASE altered = "summary"
    BY <1>1, <1>2, <2>2 DEF NvInv, RowInv, Measured
  <2> QED
    BY <2>1, <2>2
<1>4. DOMAIN measured = Rows
  <2>1. DOMAIN measured = 1..Len(measured)
    BY DEF NvInv, NvTyped
  <2> QED
    BY <1>2, <2>1, PlanIsSequence DEF Measured
<1>5. ASSUME NEW i \in Rows, ThePlan[i].reader = "none" PROVE measured[i].control = "good"
  <2>1. \A j \in DOMAIN ThePlan : \/ measured[j].control = "good"
                                  \/ measured[j].control = "differs" /\ j = defect.row
    BY <1>4 DEF NvInv, RowInv, Rows
  <2>2. Summarizable(ThePlan, measured)
    BY <1>2 DEF Measured
  <2>3. i \in DOMAIN ThePlan
    BY <1>5 DEF Rows
  <2> QED
    BY <1>5, <2>1, <2>2, <2>3, AgreeingIsGood
<1>6. altered # "status" => signals = 0
  BY <1>1 DEF NvInv, StatusInv
<1> QED
  BY <1>1, <1>2, <1>3, <1>4, <1>5, <1>6

LEMMA RecordOf ==
  ASSUME NEW r \in Records
  PROVE  /\ \A c \in Controlled : [r EXCEPT !.control = c] \in Records
         /\ \A t \in Nat : [r EXCEPT !.time = t] \in Records
BY DEF Records

LEMMA AlterationKeeps ==
  ASSUME NvInv, Alter
  PROVE  NvInv'
<1>1. /\ altered = "nothing" /\ verdict = "none" /\ npc \in {"ended", "died"}
      /\ UNCHANGED <<defect, npc, memory, child, signals, measured, abandoned, verdict>>
      /\ NvTyped /\ RowInv /\ StatusInv /\ ChildInv
  BY DEF Alter, inputs, NvInv
<1>2. /\ altered' # "status" => saved' = saved
      /\ altered' # "summary" => summary' = summary
      /\ altered' # "record" => rawRows' = rawRows
  BY DEF Alter
<1>3. saved' \in Statuses
  <2>1. CASE saved' = saved
    BY <1>1, <2>1 DEF NvTyped
  <2>2. CASE saved' # saved
    <3>1. PICK n \in {saved.completed, Len(ThePlan)} :
            saved' = [state |-> "measurements_completed", completed |-> n]
      BY <2>2 DEF Alter, Save
    <3>2. n \in Nat
      BY <1>1, <3>1, PlanIsSequence DEF NvTyped, Statuses
    <3> QED
      BY <3>1, <3>2 DEF Statuses, States
  <2> QED
    BY <2>1, <2>2
<1>4. rawRows' \in Seq(Records) /\ Len(rawRows') = Len(rawRows)
  <2>1. rawRows \in Seq(Records)
    BY <1>1 DEF NvTyped
  <2>2. CASE rawRows' = rawRows
    BY <2>1, <2>2
  <2>3. CASE \E i \in DOMAIN rawRows : \E c \in Controlled : rawRows' = [rawRows EXCEPT ![i].control = c]
    <3>1. PICK i \in DOMAIN rawRows, c \in Controlled : rawRows' = [rawRows EXCEPT ![i].control = c]
      BY <2>3
    <3>5. rawRows[i] \in Records
      BY <2>1, <3>1
    <3>2. [rawRows[i] EXCEPT !.control = c] \in Records
      BY <3>1, <3>5, RecordOf
    <3>3. rawRows' = [rawRows EXCEPT ![i] = [rawRows[i] EXCEPT !.control = c]]
      BY <3>1
    <3> QED
      BY <2>1, <3>2, <3>3
  <2>4. CASE \E i \in DOMAIN rawRows : \E row \in Rows : \E t \in Durations[row] :
               rawRows' = [rawRows EXCEPT ![i].time = t]
    <3>1. PICK i \in DOMAIN rawRows :
            \E row \in Rows : \E t \in Durations[row] : rawRows' = [rawRows EXCEPT ![i].time = t]
      BY <2>4
    <3>4. PICK t \in Nat : rawRows' = [rawRows EXCEPT ![i].time = t]
      BY <3>1, RowsAssumption
    <3>5. rawRows[i] \in Records
      BY <2>1, <3>1
    <3>2. [rawRows[i] EXCEPT !.time = t] \in Records
      BY <3>4, <3>5, RecordOf
    <3>3. rawRows' = [rawRows EXCEPT ![i] = [rawRows[i] EXCEPT !.time = t]]
      BY <3>4
    <3> QED
      BY <2>1, <3>2, <3>3
  <2> QED
    BY <2>2, <2>3, <2>4 DEF Alter
<1>5. NvTyped' /\ ChildInv'
  BY <1>1, <1>3, <1>4 DEF NvTyped, ChildInv
<1>6. RowInv'
  BY <1>1, <1>2, <1>4 DEF RowInv, Changed, nextRow, ThePlan, Rows
<1>7. Measured' = Measured /\ Figures(measured)' = Figures(measured)
  BY <1>1 DEF Measured, Changed, ThePlan
<1>8. StatusInv'
  BY <1>1, <1>2, <1>7 DEF StatusInv, Early
<1> QED
  BY <1>1, <1>5, <1>6, <1>8 DEF NvInv

LEMMA AnalysisKeeps ==
  ASSUME NvInv, Analyze
  PROVE  NvInv'
<1>1. UNCHANGED <<smoke, lacking, defect, npc, memory, saved, child, rawRows, summary, altered, signals,
                  measured, abandoned>>
  BY DEF Analyze, inputs
<1>2. Measured' = Measured /\ Figures(measured)' = Figures(measured)
  BY <1>1 DEF Measured, Changed, ThePlan
<1>3. NvTyped' /\ RowInv' /\ StatusInv' /\ ChildInv'
  BY <1>1, <1>2 DEF NvInv, NvTyped, RowInv, StatusInv, ChildInv, Changed, nextRow, ThePlan, Rows
<1>4. ASSUME verdict' = "evidence" PROVE npc' \in {"ended", "died"} /\ EvidenceIsWhole'
  <2>1. Accepts
    BY <1>4 DEF Analyze
  <2>2. \A l : Matters(l)' = Matters(l)
    BY <1>1 DEF Matters
  <2> QED
    BY <1>1, <1>2, <2>1, <2>2, AcceptedIsWhole DEF EvidenceIsWhole, ThePlan, Rows
<1> QED
  BY <1>3, <1>4 DEF NvInv

LEMMA NvInvInductive == NvSpec => []NvInv
<1>1. NvInit => NvInv
  <2>1. SUFFICES ASSUME NvInit PROVE NvInv
    OBVIOUS
  <2>2. /\ npc = "call" /\ memory = NoStatus /\ saved = NoStatus /\ rawRows = <<>> /\ altered = "nothing"
        /\ summary = NoSummary /\ signals = 0 /\ measured = <<>> /\ verdict = "none" /\ child = "none"
        /\ abandoned = FALSE /\ defect.what \in Defects \cup {"none"}
    BY <2>1 DEF NvInit
  <2>3. NvTyped /\ RowInv
    <3>1. NoStatus \in Statuses
      BY DEF NoStatus, Statuses, States
    <3>2. /\ rawRows \in Seq(Records) /\ Len(rawRows) = 0
          /\ measured = rawRows /\ DOMAIN measured = {}
      BY <2>2
    <3>3. NvTyped
      BY <2>2, <3>1, <3>2 DEF NvTyped, Places
    <3> QED
      BY <2>2, <3>2, <3>3, PlanIsSequence DEF RowInv
  <2> QED
    BY <2>2, <2>3 DEF NvInv, StatusInv, ChildInv, NoStatus
<1>2. NvInv /\ [NvNext]_NvVars => NvInv'
  <2>1. SUFFICES ASSUME NvInv, [NvNext]_NvVars PROVE NvInv'
    OBVIOUS
  <2>2. CASE UNCHANGED NvVars
    BY <2>1, <2>2 DEF NvVars, NvInv, NvTyped, RowInv, StatusInv, ChildInv, Measured, Changed, nextRow,
                      EvidenceIsWhole, Matters, ThePlan, Rows
  <2>3. CASE NvNext
    BY <2>1, <2>3, CollectorStepsKeep, CollectorEndsKeep, AlterationKeeps, AnalysisKeeps DEF NvNext
  <2> QED
    BY <2>1, <2>2, <2>3
<1> QED
  BY <1>1, <1>2, PTL DEF NvSpec

(***************************************************************************)
(* For every plan: the collector's records are those of its rows, a status *)
(* of completion was checked to the end and saved before any signal, the   *)
(* summary is that of what was measured, each unless its file was altered, *)
(* and a probe outlives a step only where the collector is to end it.      *)
(***************************************************************************)
THEOREM CollectorInvariant == NvSpec => []NvInv
BY NvInvInductive

(***************************************************************************)
(* For every plan, number of repetitions and of signals, and times of the  *)
(* probes: what analyze() accepts is a complete measurement of unchanged   *)
(* programs with the figures that were measured, whichever one file was    *)
(* altered since, and no probe is left behind by a collector that had      *)
(* entered its `try' and was let to clean up.                              *)
(***************************************************************************)
THEOREM EvidenceIsAlwaysEarned == NvSpec => []EvidenceIsEarned
<1>1. NvInv => EvidenceIsEarned
  BY DEF NvInv, EvidenceIsEarned, EvidenceIsWhole, ProbeIsReaped, ChildInv
<1> QED
  BY <1>1, NvInvInductive, PTL

-----------------------------------------------------------------------------
(* The campaigns: the first fact that holds decides, so a good outcome says that none did. *)

LEMMA LeastExists ==
  ASSUME NEW T, T \subseteq Nat, T # {}
  PROVE  \E i \in T : \A j \in T : i <= j
<1>1. IsWellFoundedOn(OpToRel(<, Nat), Nat)
  BY NatLessThanWellFounded
<1>2. PICK i \in T : \A j \in T : ~(<<j, i>> \in OpToRel(<, Nat))
  BY <1>1, WFMin
<1>3. \A j \in T : ~(j < i)
  BY <1>2 DEF OpToRel
<1> QED
  BY <1>3

LEMMA FirstOfIs ==
  ASSUME NEW order, DOMAIN order \subseteq Nat, NEW F, NEW otherwise
  PROVE  \/ \A i \in DOMAIN order : order[i][1] \cap F = {}
         \/ \E i \in DOMAIN order : FirstOf(order, F, otherwise) = order[i][2]
<1> DEFINE held == {i \in DOMAIN order : order[i][1] \cap F # {}}
<1>1. CASE held = {}
  BY <1>1
<1>2. CASE held # {}
  <2>1. held \subseteq Nat
    OBVIOUS
  <2>2. \E i \in held : \A j \in held : i <= j
    BY <1>2, <2>1, LeastExists
  <2> DEFINE first == CHOOSE i \in held : \A j \in held : i <= j
  <2>3. first \in held
    BY <2>2
  <2>4. FirstOf(order, F, otherwise) = order[first][2]
    BY <1>2 DEF FirstOf
  <2> QED
    BY <2>3, <2>4
<1> QED
  BY <1>1, <1>2

Good == {"ok", "complete", "bounded_nonreproduction"}

LEMMA FocusedIsJudged ==
  ASSUME NEW F, "cleanup" \in F
  PROVE  FocusedOutcome(F) \notin Good
<1>0. PICK order : order =
        << <<{"denied"}, "permission_denied">>, <<{"timed_out"}, "timeout">>,
             <<{"launch_error", "budget_exhausted"}, "not_completed">>,
             <<{"mismatch"}, "mismatch_captured">>,
             <<{"no_completion"}, "missing_or_invalid_completion">>,
             <<{"assertion"}, "assertion_failure">>, <<NotOk, "execution_failure">> >>
  OBVIOUS
<1>1. DOMAIN order = 1..7 /\ order[7] = <<NotOk, "execution_failure">>
  BY <1>0
<1>2. \A i \in 1..7 : order[i][2] \notin Good
  BY <1>0 DEF Good
<1>3. FocusedOutcome(F) = FirstOf(order, F, "bounded_nonreproduction")
  BY <1>0, Zenon DEF FocusedOutcome
<1>4. order[7][1] \cap F # {}
  BY <1>1 DEF NotOk
<1>5. DOMAIN order \subseteq Nat /\ 7 \in DOMAIN order
  BY <1>1
<1>6. \/ \A i \in DOMAIN order : order[i][1] \cap F = {}
      \/ \E i \in DOMAIN order : FirstOf(order, F, "bounded_nonreproduction") = order[i][2]
  BY <1>5, FirstOfIs
<1> QED
  BY <1>1, <1>2, <1>3, <1>4, <1>5, <1>6

LEMMA LaunchIsJudged ==
  ASSUME NEW F, "cleanup" \in F, NEW debugger \in BOOLEAN
  PROVE  LaunchOutcome(F, debugger) \notin Good
<1>0. PICK order : order =
        << <<{"denied"}, "explicit_denial">>, <<{"timed_out"}, "timeout">>,
             <<{"budget_exhausted"}, "budget_exhausted">>, <<{"launch_error"}, "launch_failure">>,
             <<{"cleanup"}, "cleanup_incomplete">>, <<NotOk, "execution_failure">>,
             <<{"no_completion"}, "missing_completion">>,
             <<IF debugger THEN {"exit_unverified"} ELSE {}, "inferior_exit_unverified">>,
             <<IF debugger THEN {"aslr"} ELSE {}, "ASLR_setting_unverified">> >>
  OBVIOUS
<1>1. DOMAIN order = 1..9 /\ order[5] = <<{"cleanup"}, "cleanup_incomplete">>
  BY <1>0
<1>2. \A i \in 1..9 : order[i][2] \notin Good
  BY <1>0 DEF Good
<1>3. LaunchOutcome(F, debugger) = FirstOf(order, F, "complete")
  BY <1>0, Zenon DEF LaunchOutcome
<1>4. order[5][1] \cap F # {}
  BY <1>1
<1>5. DOMAIN order \subseteq Nat /\ 5 \in DOMAIN order
  BY <1>1
<1>6. \/ \A i \in DOMAIN order : order[i][1] \cap F = {}
      \/ \E i \in DOMAIN order : FirstOf(order, F, "complete") = order[i][2]
  BY <1>5, FirstOfIs
<1> QED
  BY <1>1, <1>2, <1>3, <1>4, <1>5, <1>6

LEMMA TraceIsJudged ==
  ASSUME NEW F, "cleanup" \in F, NEW debugger \in BOOLEAN
  PROVE  TraceOutcome(F, debugger) \notin Good
BY LaunchIsJudged DEF TraceOutcome, Good

-----------------------------------------------------------------------------
(* The campaigns: their plans. *)

RosettaHows == {"check", "required", "metadata", "focused", "launch", "trace", "unchanged"}

LEMMA ConcatIs ==
  ASSUME NEW S, NEW s \in Seq(S), NEW t \in Seq(S)
  PROVE  s \o t \in Seq(S) /\ Len(s \o t) = Len(s) + Len(t)
BY ConcatProperties

LEMMA ScopePlanIs ==
  ASSUME script = "scope"
  PROVE  /\ Len(Plan) = 14 /\ DOMAIN Plan = 1..14
         /\ \A i \in 1..14 : /\ Plan[i].how \in {"check", "required", "focused"}
                             /\ Plan[i].how = "focused" <=> i \in {12, 13}
                             /\ Plan[i].fail # "incomplete"
                             /\ Plan[i].what = "focused-direct" <=> i = 12
         /\ Plan[14].what \notin Targets
<1>1. Plan = ScopePlan
  BY DEF Plan
<1>2. Len(ScopePlan) = 14 /\ DOMAIN ScopePlan = 1..14
  BY DEF ScopePlan
<1>3. \A i \in 1..14 : i \in {1, 2, 3, 4, 5, 6, 7, 8, 9, 10, 11, 12, 13, 14}
  OBVIOUS
<1>4. \A i \in {1, 2, 3, 4, 5, 6, 7, 8, 9, 10, 11, 12, 13, 14} :
         /\ ScopePlan[i].how \in {"check", "required", "focused"}
         /\ ScopePlan[i].how = "focused" <=> i \in {12, 13}
         /\ ScopePlan[i].fail # "incomplete"
         /\ ScopePlan[i].what = "focused-direct" <=> i = 12
  <2> DEFINE Plain(s) == s.how \in {"check", "required"} /\ s.fail # "incomplete" /\ s.what # "focused-direct"
  <2>1. /\ Plain(ScopePlan[1]) /\ Plain(ScopePlan[2]) /\ Plain(ScopePlan[3]) /\ Plain(ScopePlan[4])
        /\ Plain(ScopePlan[5]) /\ Plain(ScopePlan[6]) /\ Plain(ScopePlan[7]) /\ Plain(ScopePlan[8])
        /\ Plain(ScopePlan[9]) /\ Plain(ScopePlan[10]) /\ Plain(ScopePlan[11]) /\ Plain(ScopePlan[14])
    BY DEF ScopePlan, Stage
  <2>2. /\ ScopePlan[12].how = "focused" /\ ScopePlan[12].what = "focused-direct" /\ ScopePlan[12].fail = ""
        /\ ScopePlan[13].how = "focused" /\ ScopePlan[13].what = "focused-debugger" /\ ScopePlan[13].fail = ""
    BY DEF ScopePlan, Stage
  <2>3. TAKE i \in {1, 2, 3, 4, 5, 6, 7, 8, 9, 10, 11, 12, 13, 14}
  <2>4. CASE i \notin {12, 13}
    <3>1. Plain(ScopePlan[i])
      BY <2>1, <2>3, <2>4
    <3> QED
      BY <2>4, <3>1
  <2>5. CASE i \in {12, 13}
    BY <2>2, <2>5
  <2> QED
    BY <2>4, <2>5
<1>5. ScopePlan[14].what \notin Targets
  BY DEF ScopePlan, Stage, Targets
<1> QED
  BY <1>1, <1>2, <1>3, <1>4, <1>5

LEMMA OtherPlansAre ==
  ASSUME script \in {"launch", "handshake"}
  PROVE  /\ Len(Plan) \in Nat \ {0} /\ DOMAIN Plan = 1..Len(Plan)
         /\ \A i \in 1..Len(Plan) : Plan[i].how \in RosettaHows \ {"focused"}
<1> DEFINE Hows == RosettaHows \ {"focused"}
<1>1. CASE script = "launch"
  <2>1. PICK a, b, c, d, e, x, y, z :
          /\ a = Stage("check", "host", "genuine_disposable_host_prerequisite_unmet")
          /\ b = Stage("required", "tools", "tool_or_build_prerequisite_failed")
          /\ c = Stage("check", "lldb-options", "selected_lldb_option_missing")
          /\ d = Stage("required", "compile", "tool_or_build_prerequisite_failed")
          /\ e = Stage("check", "architecture", "thin_architecture_mismatch")
          /\ x = Stage("launch", "direct-x86_64", "")
          /\ y = Stage("launch", "lldb-arm64", "")
          /\ z = Stage("launch", "lldb-x86_64", "")
    OBVIOUS
  <2> DEFINE S == {a, b, c, d, e, x, y, z}
  <2>2. Plan = <<a, b, c, d, e>> \o <<x, y, z>>
    BY <1>1, <2>1, Zenon DEF Plan, LaunchPlan, Controls
  <2>3. /\ a.how \in Hows /\ b.how \in Hows /\ c.how \in Hows /\ d.how \in Hows
        /\ e.how \in Hows /\ x.how \in Hows /\ y.how \in Hows /\ z.how \in Hows
    BY <2>1 DEF Stage, RosettaHows
  <2>4. \A s \in S : s.how \in Hows
    BY <2>3
  <2>5. /\ <<a, b, c, d, e>> \in Seq(S) /\ Len(<<a, b, c, d, e>>) = 5
        /\ <<x, y, z>> \in Seq(S) /\ Len(<<x, y, z>>) = 3
    OBVIOUS
  <2> HIDE DEF S, Hows
  <2>7. /\ <<a, b, c, d, e>> \o <<x, y, z>> \in Seq(S)
        /\ Len(<<a, b, c, d, e>> \o <<x, y, z>>) = 8
    BY <2>5, ConcatIs
  <2>8. Plan \in Seq(S) /\ Len(Plan) # 0
    BY <2>2, <2>7
  <2> QED
    BY <2>4, <2>8 DEF Hows
<1>2. CASE script = "handshake"
  <2>1. PICK a, b, c, d, e, x, y, z, u :
          /\ a = Stage("check", "host", "genuine_disposable_host_prerequisite_unmet")
          /\ b = Stage("check", "inputs", "input preparation incomplete")
          /\ c = Stage("metadata", "tools", "metadata_prerequisite_unmet")
          /\ d = Stage("check", "logging", "unsupported launch logging")
          /\ e = Stage("metadata", "architecture", "retained architecture/UUID prerequisite rejected")
          /\ x = Stage("trace", "direct-x86_64", "")
          /\ y = Stage("trace", "lldb-arm64", "")
          /\ z = Stage("trace", "lldb-x86_64", "")
          /\ u = Stage("unchanged", "inputs", "retained input hash mismatch")
    OBVIOUS
  <2> DEFINE S == {a, b, c, d, e, x, y, z, u}
  <2>2. Plan = <<a, b, c, d, e>> \o <<x, y, z>> \o <<u>>
    BY <1>2, <2>1, Zenon DEF Plan, HandshakePlan, Controls
  <2>3. /\ a.how \in Hows /\ b.how \in Hows /\ c.how \in Hows /\ d.how \in Hows
        /\ e.how \in Hows /\ x.how \in Hows /\ y.how \in Hows /\ z.how \in Hows
        /\ u.how \in Hows
    BY <2>1 DEF Stage, RosettaHows
  <2>4. \A s \in S : s.how \in Hows
    BY <2>3
  <2>5. /\ <<a, b, c, d, e>> \in Seq(S) /\ Len(<<a, b, c, d, e>>) = 5
        /\ <<x, y, z>> \in Seq(S) /\ Len(<<x, y, z>>) = 3
    OBVIOUS
  <2>6. <<u>> \in Seq(S) /\ Len(<<u>>) = 1
    OBVIOUS
  <2> HIDE DEF S, Hows
  <2>7. /\ <<a, b, c, d, e>> \o <<x, y, z>> \in Seq(S)
        /\ Len(<<a, b, c, d, e>> \o <<x, y, z>>) = 8
    BY <2>5, ConcatIs
  <2>8. Plan \in Seq(S) /\ Len(Plan) # 0
    BY <2>2, <2>6, <2>7, ConcatIs
  <2> QED
    BY <2>4, <2>8 DEF Hows
<1> QED
  BY <1>1, <1>2

LEMMA AuPlanIs ==
  ASSUME ~Rosetta
  PROVE  /\ Len(Plan) = 7 + Attempts /\ DOMAIN Plan = 1..(7 + Attempts)
         /\ Plan[1].how = "canary" /\ Plan[2].how = "disarmed"
         /\ \A i \in 3..7 : Plan[i].how = "control"
         /\ \A i \in 8..(7 + Attempts) : Plan[i].how = "attempt"
<1>1. Plan = AuPlan
  BY DEF Plan, Rosetta
<1>2. PICK a, b, c, d, e, f, g, pass :
        /\ a = Stage("canary", "canary", "") /\ b = Stage("disarmed", "pending-disarmed", "")
        /\ c = Stage("control", "listener", "") /\ d = Stage("control", "component", "")
        /\ e = Stage("control", "entry", "") /\ f = Stage("control", "drained", "")
        /\ g = Stage("control", "queued", "") /\ pass = Stage("attempt", "pass", "")
  OBVIOUS
<1> DEFINE S == {a, b, c, d, e, f, g, pass}
           first == <<a, b, c, d, e, f, g>>
           rest == [i \in 1..Attempts |-> pass]
<1>3. AuPlan = first \o rest
  BY <1>2, Zenon DEF AuPlan
<1>4. first \in Seq(S) /\ Len(first) = 7
  OBVIOUS
<1>5. Attempts \in Nat
  BY CampaignAssumption
<1>6. /\ a.how = "canary" /\ b.how = "disarmed" /\ c.how = "control" /\ d.how = "control"
      /\ e.how = "control" /\ f.how = "control" /\ g.how = "control" /\ pass.how = "attempt"
  BY <1>2 DEF Stage
<1>7. rest \in Seq(S) /\ Len(rest) = Attempts /\ \A i \in 1..Attempts : rest[i] = pass
  <2>1. rest \in [1..Attempts -> S]
    OBVIOUS
  <2> HIDE DEF S
  <2> QED
    BY <1>5, <2>1
<1>8. first[1] = a /\ first[2] = b /\ first[3] = c /\ first[4] = d /\ first[5] = e /\ first[6] = f /\ first[7] = g
  OBVIOUS
<1>9. \A i \in 3..7 : first[i].how = "control"
  <2>1. \A i \in 3..7 : i = 3 \/ i = 4 \/ i = 5 \/ i = 6 \/ i = 7
    OBVIOUS
  <2> HIDE DEF first
  <2> QED
    BY <1>6, <1>8, <2>1
<1> HIDE DEF S, first, rest
<1>10. AuPlan \in Seq(S) /\ Len(AuPlan) = 7 + Attempts
  BY <1>3, <1>4, <1>7, ConcatIs
<1>11. \A i \in 1..(7 + Attempts) : AuPlan[i] = IF i <= 7 THEN first[i] ELSE rest[i - 7]
  <2>1. \A i \in 1..(Len(first) + Len(rest)) :
          (first \o rest)[i] = IF i <= Len(first) THEN first[i] ELSE rest[i - Len(first)]
    BY <1>4, <1>7, ConcatProperties
  <2> QED
    BY <1>3, <1>4, <1>7, <2>1
<1>12. \A i \in 8..(7 + Attempts) : AuPlan[i].how = "attempt"
  <2>1. TAKE i \in 8..(7 + Attempts)
  <2>2. i - 7 \in 1..Attempts /\ i \in 1..(7 + Attempts) /\ ~(i <= 7)
    BY <1>5
  <2>3. AuPlan[i] = rest[i - 7]
    BY <1>11, <2>2
  <2> QED
    BY <1>6, <1>7, <2>2, <2>3
<1>13. \A i \in 1..7 : AuPlan[i] = first[i]
  <2>1. TAKE i \in 1..7
  <2>2. i \in 1..(7 + Attempts) /\ i <= 7
    BY <1>5
  <2> QED
    BY <1>11, <2>2
<1>14. AuPlan[1].how = "canary" /\ AuPlan[2].how = "disarmed" /\ \A i \in 3..7 : AuPlan[i].how = "control"
  BY <1>6, <1>8, <1>9, <1>13
<1>15. DOMAIN AuPlan = 1..(7 + Attempts)
  BY <1>10
<1> QED
  BY <1>1, <1>10, <1>12, <1>14, <1>15

-----------------------------------------------------------------------------
(* The campaigns: the inductive invariant. *)

IsSequence(s) == s \in Seq({s[i] : i \in DOMAIN s})

\* Where nobody ended it, the campaign is at the stage after the last that ran.
CamTyped ==
  /\ script \in {"scope", "launch", "handshake", "capture", "completed"}
  /\ stage \in Nat \ {0} /\ stage <= Len(Plan) + 1
  /\ IsSequence(outcomes) /\ Len(outcomes) <= Len(Plan)
  /\ Running => stage = Len(outcomes) + 1
  /\ unclean \subseteq DOMAIN outcomes
  /\ pristine \in BOOLEAN /\ controlThrew \in BOOLEAN
  /\ status \in {"in_progress", "complete", "incomplete"}

\* Only the focused runs may fail and be followed by another stage; and after one that left
\* something behind only the debugger's is.
Passed(i) == outcomes[i] \in Good \/ Plan[i].how = "focused"

StageInv ==
  Rosetta =>
    /\ \A i \in DOMAIN outcomes : i < Len(outcomes) \/ stage <= Len(Plan) => Passed(i)
    /\ script = "scope" /\ classification = "incomplete" =>
         stage = Len(outcomes) + 1 /\ \A i \in DOMAIN outcomes : Passed(i)
    /\ \A i \in unclean :
         /\ outcomes[i] \notin Good
         /\ \/ Plan[i].how = "focused" /\ Plan[i].what # "focused-direct"
            \/ i = Len(outcomes) /\ stage > Len(Plan)

Earned ==
  /\ Rosetta /\ stage > Len(Plan) /\ Len(outcomes) = Len(Plan)
  /\ \A i \in DOMAIN outcomes : outcomes[i] \in Good
  /\ script = "scope" => pristine
  /\ unclean = {}

ReportInv ==
  /\ status = "complete" => Earned
  /\ disk = "complete" => status = "complete"
  /\ Rosetta /\ exit = "0" => status = "complete"

\* What the AU campaign has seen as long as nothing ended it.
Seen(i) ==
  /\ i = 1 => outcomes[i] = "bad-function-call-throw"
  /\ i = 2 => outcomes[i] = "inferior-failed"
  /\ i > 2 => outcomes[i] = "completed" \/ (outcomes[i] = "bad-function-call-throw" /\ controlThrew)

AuInv ==
  ~Rosetta =>
    /\ unclean = {} /\ status = "in_progress" /\ disk = "in_progress"
    /\ exit = "running" => \A i \in DOMAIN outcomes : Seen(i)
    /\ script = "capture" /\ exit = "0" =>
         outcomes[1] = "bad-function-call-throw" /\ outcomes[2] = "inferior-failed"
    /\ script = "completed" /\ exit = "0" =>
         Len(outcomes) = Len(Plan) /\ \A i \in 3..Len(Plan) : outcomes[i] = "completed"

CamInv == CamTyped /\ StageInv /\ ReportInv /\ AuInv

-----------------------------------------------------------------------------
(* The campaigns: each step keeps it. *)

LEMMA AppendIs ==
  ASSUME NEW s, IsSequence(s), NEW o
  PROVE  /\ Len(s) \in Nat /\ DOMAIN s = 1..Len(s)
         /\ IsSequence(Append(s, o)) /\ Len(Append(s, o)) = Len(s) + 1
         /\ DOMAIN Append(s, o) = 1..(Len(s) + 1)
         /\ \A i \in 1..Len(s) : Append(s, o)[i] = s[i]
         /\ Append(s, o)[Len(s) + 1] = o
<1> DEFINE S == {s[i] : i \in DOMAIN s}
           t == Append(s, o)
           T == {t[i] : i \in DOMAIN t}
<1>1. s \in Seq(S)
  BY DEF IsSequence
<1>2. s \in Seq(S \cup {o}) /\ o \in S \cup {o}
  BY <1>1
<1> HIDE DEF S
<1>3. /\ t \in Seq(S \cup {o}) /\ Len(t) = Len(s) + 1 /\ Len(s) \in Nat /\ DOMAIN s = 1..Len(s)
      /\ \A i \in 1..Len(s) : t[i] = s[i]
      /\ t[Len(s) + 1] = o
  BY <1>2
<1>4. DOMAIN t = 1..(Len(s) + 1) /\ Len(s) + 1 \in Nat
  BY <1>3
<1> HIDE DEF t
<1>5. t \in Seq(T)
  <2>1. t \in [1..(Len(s) + 1) -> T]
    BY <1>3, <1>4
  <2> HIDE DEF T
  <2> QED
    BY <1>4, <2>1
<1> QED
  BY <1>3, <1>4, <1>5 DEF IsSequence, t, T

LEMMA PlanLength == CamTyped => Len(Plan) \in Nat \ {0} /\ DOMAIN Plan = 1..Len(Plan)
<1>1. Attempts \in Nat
  BY CampaignAssumption
<1> QED
  BY <1>1, ScopePlanIs, OtherPlansAre, AuPlanIs DEF CamTyped, Rosetta

\* A stage of a Rosetta campaign: it passes, or what it failed with ends the plan.
LEMMA StageKeeps ==
  ASSUME CamInv, Rosetta, Running, NEW o,
         outcomes' = Append(outcomes, o),
         UNCHANGED <<script, pristine, status, disk, controlThrew, exit>>,
         unclean' = unclean \/ (unclean' = unclean \cup {stage} /\ o \notin Good),
         unclean' # unclean => \/ stage' = Len(Plan) + 1
                               \/ Plan[stage].how = "focused" /\ Plan[stage].what # "focused-direct",
         \/ stage' = stage + 1 /\ classification' = classification
              /\ (o \in Good \/ Plan[stage].how = "focused")
         \/ stage' = Len(Plan) + 1 /\ (script = "scope" => classification' # "incomplete")
  PROVE  CamInv'
<1>1. CamTyped /\ StageInv /\ ReportInv /\ AuInv
  BY DEF CamInv
<1>0. PICK n : n = Len(outcomes)
  OBVIOUS
<1>2. /\ n \in Nat /\ DOMAIN outcomes = 1..n
      /\ IsSequence(outcomes') /\ Len(outcomes') = n + 1 /\ DOMAIN outcomes' = 1..(n + 1)
      /\ (\A i \in 1..n : outcomes'[i] = outcomes[i]) /\ outcomes'[n + 1] = o
  BY <1>0, <1>1, AppendIs DEF CamTyped
<1>3. Len(Plan) \in Nat \ {0} /\ stage = n + 1 /\ stage <= Len(Plan)
  BY <1>0, <1>1, PlanLength DEF CamTyped, Running
<1>4. Plan' = Plan /\ Rosetta'
  BY DEF Plan, Rosetta
<1>5. PICK k \in Nat : k = stage' /\ k <= Len(Plan) + 1 /\ (k = stage + 1 \/ k = Len(Plan) + 1)
  <2>1. stage + 1 \in Nat /\ Len(Plan) + 1 \in Nat /\ stage + 1 <= Len(Plan) + 1
        /\ Len(Plan) + 1 <= Len(Plan) + 1
    BY <1>2, <1>3
  <2>2. stage' = stage + 1 \/ stage' = Len(Plan) + 1
    OBVIOUS
  <2> QED
    BY <2>1, <2>2
<1>6. k # 0 /\ (k <= Len(Plan) => k = n + 2)
  BY <1>2, <1>3, <1>5
<1>7. CamTyped'
  <2>1. Running' => stage' = Len(outcomes') + 1
    BY <1>2, <1>4, <1>5, <1>6 DEF Running
  <2>2. unclean' \subseteq DOMAIN outcomes'
    BY <1>1, <1>2, <1>3 DEF CamTyped
  <2> QED
    BY <1>1, <1>2, <1>3, <1>4, <1>5, <1>6, <2>1, <2>2 DEF CamTyped
<1>8. \A i \in 1..n : Passed(i) /\ Passed(i)'
  BY <1>0, <1>1, <1>2, <1>3, <1>4 DEF StageInv, Passed
<1>9. k # Len(Plan) + 1 \/ (script = "scope" /\ classification' = "incomplete") => Passed(n + 1)'
  BY <1>2, <1>3, <1>4, <1>5 DEF Passed
<1>10. StageInv'
  <2>1. ASSUME NEW i \in DOMAIN outcomes', i < Len(outcomes') \/ stage' <= Len(Plan') PROVE Passed(i)'
    BY <1>2, <1>3, <1>4, <1>5, <1>8, <1>9, <2>1
  <2>2. ASSUME script' = "scope", classification' = "incomplete"
        PROVE  stage' = Len(outcomes') + 1 /\ \A i \in DOMAIN outcomes' : Passed(i)'
    BY <1>2, <1>3, <1>8, <1>9, <2>2
  <2>3. ASSUME NEW i \in unclean'
        PROVE  /\ outcomes'[i] \notin Good
               /\ \/ Plan'[i].how = "focused" /\ Plan'[i].what # "focused-direct"
                  \/ i = Len(outcomes') /\ stage' > Len(Plan')
    <3>1. CASE i \in unclean
      <4>1. i \in 1..n /\ outcomes[i] \notin Good
        BY <1>1, <1>2, <3>1 DEF CamTyped, StageInv
      <4>2. Plan[i].how = "focused" /\ Plan[i].what # "focused-direct"
        BY <1>0, <1>1, <1>2, <1>3, <3>1 DEF CamTyped, StageInv
      <4> QED
        BY <1>2, <1>4, <4>1, <4>2
    <3>2. CASE i \notin unclean
      <4>1. i = n + 1 /\ o \notin Good /\ unclean' # unclean
        BY <1>3, <2>3, <3>2
      <4> QED
        BY <1>2, <1>3, <1>4, <1>5, <4>1
    <3> QED
      BY <3>1, <3>2
  <2> QED
    BY <2>1, <2>2, <2>3 DEF StageInv
<1>11. ReportInv' /\ AuInv'
  BY <1>1, <1>3, <1>4 DEF ReportInv, AuInv, Earned, Running
<1> QED
  BY <1>7, <1>10, <1>11 DEF CamInv

LEMMA StageFailsKeeps ==
  ASSUME CamInv, StageFails
  PROVE  CamInv'
BY StageKeeps DEF StageFails, Raise

\* Which scripts have a stage of the kind.
LEMMA HowIs ==
  ASSUME CamInv, Running
  PROVE  /\ Rosetta <=> Plan[stage].how \in RosettaHows
         /\ script = "scope" => Plan[stage].how \in {"check", "required", "focused"} /\ Plan[stage].fail # "incomplete"
         /\ ~Rosetta => /\ Plan[stage].how = "canary" <=> stage = 1
                        /\ Plan[stage].how = "disarmed" <=> stage = 2
                        /\ Plan[stage].how \in {"control", "attempt"} => stage > 2
<1>1. stage \in 1..Len(Plan) /\ CamTyped
  BY PlanLength DEF CamInv, CamTyped, Running
<1>2. CASE script = "scope"
  BY <1>1, <1>2, ScopePlanIs DEF Rosetta, RosettaHows
<1>3. CASE script \in {"launch", "handshake"}
  BY <1>1, <1>3, OtherPlansAre DEF Rosetta
<1>4. CASE ~Rosetta
  <2>1. stage = 1 \/ stage = 2 \/ stage \in 3..7 \/ stage \in 8..(7 + Attempts)
    BY <1>1, <1>4, AuPlanIs, CampaignAssumption
  <2>2. /\ stage = 1 => Plan[stage].how = "canary"
        /\ stage = 2 => Plan[stage].how = "disarmed"
        /\ stage \in 3..7 => Plan[stage].how = "control"
        /\ stage \in 8..(7 + Attempts) => Plan[stage].how = "attempt"
    BY <1>4, AuPlanIs
  <2>3. script # "scope"
    BY <1>4 DEF Rosetta
  <2> QED
    BY <1>1, <1>4, <2>1, <2>2, <2>3, CampaignAssumption DEF RosettaHows
<1> QED
  BY <1>1, <1>2, <1>3, <1>4 DEF CamTyped, Rosetta

LEMMA ChecksKeep ==
  ASSUME CamInv, Check \/ Required \/ Unchanged
  PROVE  CamInv'
<1>1. Running /\ Rosetta /\ Plan[stage].how \in {"check", "required", "metadata", "unchanged"}
  BY HowIs DEF Check, Required, Unchanged, At, RosettaHows
<1>2. script = "scope" => Plan[stage].fail # "incomplete"
  BY <1>1, HowIs
<1>3. CASE Check
  <2>1. PICK o \in {"ok", "unmet"} :
          /\ outcomes' = Append(outcomes, o)
          /\ IF o = "ok" THEN Proceed ELSE Raise(Plan[stage].fail)
          /\ UNCHANGED <<script, unclean, pristine, status, disk, controlThrew>>
    BY <1>3 DEF Check
  <2> QED
    BY <1>1, <1>2, <2>1, StageKeeps DEF Proceed, Raise, Good
<1>4. CASE Unchanged
  <2>1. PICK o \in {"ok", "changed"} :
          /\ outcomes' = Append(outcomes, o)
          /\ IF o = "ok" THEN Proceed ELSE Raise(Plan[stage].fail)
          /\ UNCHANGED <<script, unclean, pristine, status, disk, controlThrew>>
    BY <1>4 DEF Unchanged
  <2> QED
    BY <1>1, <1>2, <2>1, StageKeeps DEF Proceed, Raise, Good
<1>5. CASE Required
  <2>1. PICK F : LET bad == F \cap NotOk # {} \/ (At("metadata") /\ "output_limit" \in F)
                 IN /\ Record(IF bad THEN "failed" ELSE "ok", F)
                    /\ IF bad THEN Raise(Plan[stage].fail) ELSE Proceed
    BY <1>5 DEF Required
  <2>2. UNCHANGED <<script, pristine, status, disk, controlThrew>>
    BY <1>5 DEF Required
  <2>3. \/ /\ outcomes' = Append(outcomes, "failed")
           /\ unclean' = unclean \/ unclean' = unclean \cup {stage}
           /\ Raise(Plan[stage].fail)
        \/ outcomes' = Append(outcomes, "ok") /\ unclean' = unclean /\ Proceed
    BY <2>1 DEF Record, NotOk
  <2>4. CASE Raise(Plan[stage].fail) /\ outcomes' = Append(outcomes, "failed")
             /\ (unclean' = unclean \/ unclean' = unclean \cup {stage})
    BY <1>1, <1>2, <2>2, <2>4, StageKeeps DEF Raise, Good
  <2>5. CASE outcomes' = Append(outcomes, "ok") /\ unclean' = unclean /\ Proceed
    BY <1>1, <2>2, <2>5, StageKeeps DEF Proceed, Good
  <2> QED
    BY <2>3, <2>4, <2>5
<1> QED
  BY <1>3, <1>4, <1>5

LEMMA TargetsKeep ==
  ASSUME CamInv, Focused \/ Control
  PROVE  CamInv'
<1>1. Running /\ Rosetta
  BY HowIs DEF Focused, Control, At, RosettaHows
<1>2. CASE Focused
  <2>1. PICK F : /\ Record(FocusedOutcome(F), F)
                 /\ IF Plan[stage].what = "focused-direct" /\ FocusedOutcome(F) = "permission_denied"
                    THEN Raise("execution_permission_denied")
                    ELSE IF Plan[stage].what = "focused-direct" /\ "cleanup" \in F
                    THEN Raise("cleanup_incomplete")
                    ELSE Proceed
    BY <1>2 DEF Focused
  <2>2. UNCHANGED <<script, pristine, status, disk, controlThrew>> /\ Plan[stage].how = "focused"
    BY <1>2 DEF Focused, At
  <2>3. /\ outcomes' = Append(outcomes, FocusedOutcome(F))
        /\ "cleanup" \in F => FocusedOutcome(F) \notin Good
        /\ unclean' = IF "cleanup" \in F THEN unclean \cup {stage} ELSE unclean
    BY <2>1, FocusedIsJudged DEF Record
  <2>4. \/ stage' = stage + 1 /\ classification' = classification /\ exit' = exit
            /\ ~(Plan[stage].what = "focused-direct" /\ "cleanup" \in F)
        \/ stage' = Len(Plan) + 1 /\ classification' # "incomplete" /\ exit' = exit
    BY <2>1 DEF Proceed, Raise
  <2> QED
    BY <1>1, <2>2, <2>3, <2>4, StageKeeps
<1>3. CASE Control
  <2>1. PICK o, F :
          /\ Record(o, F) /\ ("cleanup" \in F => o \notin Good)
          /\ IF o = "complete" THEN Proceed
             ELSE classification' = o /\ stage' = Len(Plan) + 1 /\ UNCHANGED exit
    <3>1. PICK F : LET debugger == Plan[stage].what # "direct-x86_64"
                       o == IF At("trace") THEN TraceOutcome(F, debugger) ELSE LaunchOutcome(F, debugger)
                   IN /\ Record(o, F)
                      /\ IF o = "complete" THEN Proceed
                         ELSE classification' = o /\ stage' = Len(Plan) + 1 /\ UNCHANGED exit
      BY <1>3 DEF Control
    <3>2. (Plan[stage].what # "direct-x86_64") \in BOOLEAN
      OBVIOUS
    <3>3. "cleanup" \in F =>
            /\ TraceOutcome(F, Plan[stage].what # "direct-x86_64") \notin Good
            /\ LaunchOutcome(F, Plan[stage].what # "direct-x86_64") \notin Good
      BY <3>2, TraceIsJudged, LaunchIsJudged
    <3> QED
      BY <3>1, <3>3
  <2>2. UNCHANGED <<script, pristine, status, disk, controlThrew>> /\ script # "scope"
    BY <1>1, <1>3, HowIs DEF Control, At
  <2>3. /\ outcomes' = Append(outcomes, o)
        /\ unclean' = IF "cleanup" \in F THEN unclean \cup {stage} ELSE unclean
    BY <2>1 DEF Record
  <2>4. CASE o = "complete"
    <3>1. "cleanup" \notin F
      BY <2>1, <2>4 DEF Good
    <3> QED
      BY <1>1, <2>1, <2>2, <2>3, <2>4, <3>1, StageKeeps DEF Proceed, Good
  <2>5. CASE o # "complete"
    BY <1>1, <2>1, <2>2, <2>3, <2>5, StageKeeps
  <2> QED
    BY <2>4, <2>5
<1> QED
  BY <1>2, <1>3

\* An observation of the AU campaign: what it expects, or the end.
LEMMA ObservationKeeps ==
  ASSUME CamInv, ~Rosetta, Running, NEW o,
         outcomes' = Append(outcomes, o),
         UNCHANGED <<script, unclean, pristine, classification, status, disk>>,
         controlThrew' \in BOOLEAN, controlThrew => controlThrew',
         \/ /\ stage' = stage + 1 /\ exit' = exit
            /\ stage = 1 => o = "bad-function-call-throw"
            /\ stage = 2 => o = "inferior-failed"
            /\ stage > 2 => o = "completed" \/ (o = "bad-function-call-throw" /\ controlThrew')
         \/ /\ stage' = stage /\ exit' # "running"
            /\ exit' = "0" => script = "capture" /\ stage > 2
  PROVE  CamInv'
<1> DEFINE n == Len(outcomes)
<1>1. CamTyped /\ AuInv /\ exit = "running"
  BY DEF CamInv, Running
<1>2. /\ n \in Nat /\ DOMAIN outcomes = 1..n
      /\ IsSequence(outcomes') /\ Len(outcomes') = n + 1 /\ DOMAIN outcomes' = 1..(n + 1)
      /\ (\A i \in 1..n : outcomes'[i] = outcomes[i]) /\ outcomes'[n + 1] = o
  BY <1>1, AppendIs DEF CamTyped
<1>3. Len(Plan) \in Nat \ {0} /\ stage = n + 1 /\ stage <= Len(Plan)
  BY <1>1, PlanLength DEF CamTyped, Running
<1>4. Plan' = Plan /\ ~Rosetta'
  BY DEF Plan, Rosetta
<1> HIDE DEF n
<1>5. CamTyped'
  <2>1. Running' => stage' = Len(outcomes') + 1
    BY <1>2, <1>3, <1>4 DEF Running
  <2>2. unclean' \subseteq DOMAIN outcomes'
    BY <1>1, <1>2 DEF CamTyped
  <2>3. stage' \in Nat \ {0} /\ stage' <= Len(Plan) + 1
    BY <1>2, <1>3
  <2> QED
    BY <1>1, <1>2, <1>3, <1>4, <2>1, <2>2, <2>3 DEF CamTyped
<1>6. \A i \in 1..n : Seen(i)
  BY <1>1, <1>2 DEF AuInv
<1>7. CASE stage' = stage + 1 /\ exit' = exit
  <2>1. /\ stage = 1 => o = "bad-function-call-throw"
        /\ stage = 2 => o = "inferior-failed"
        /\ stage > 2 => o = "completed" \/ (o = "bad-function-call-throw" /\ controlThrew')
    BY <1>2, <1>3, <1>7
  <2>2. ASSUME NEW i \in DOMAIN outcomes' PROVE Seen(i)'
    <3>1. CASE i \in 1..n
      BY <1>2, <1>6, <3>1 DEF Seen
    <3>2. CASE i = n + 1
      BY <1>2, <1>3, <2>1, <3>2 DEF Seen
    <3> QED
      BY <1>2, <3>1, <3>2
  <2>3. AuInv'
    BY <1>1, <1>4, <1>7, <2>2 DEF AuInv
  <2> QED
    BY <1>1, <1>4, <1>5, <1>7, <2>3 DEF CamInv, StageInv, ReportInv, AuInv
<1>8. CASE exit' # "running" /\ (exit' = "0" => script = "capture" /\ stage > 2)
  <2>1. exit' = "0" => outcomes'[1] = "bad-function-call-throw" /\ outcomes'[2] = "inferior-failed"
    <3>1. SUFFICES ASSUME exit' = "0"
                   PROVE  outcomes'[1] = "bad-function-call-throw" /\ outcomes'[2] = "inferior-failed"
      OBVIOUS
    <3>2. 1 \in 1..n /\ 2 \in 1..n
      BY <1>2, <1>3, <1>8, <3>1
    <3> QED
      BY <1>2, <1>6, <3>2 DEF Seen
  <2>2. AuInv'
    BY <1>1, <1>4, <1>8, <2>1 DEF AuInv
  <2> QED
    BY <1>1, <1>4, <1>5, <2>2 DEF CamInv, StageInv, ReportInv, AuInv
<1> QED
  BY <1>7, <1>8

LEMMA AuKeeps ==
  ASSUME CamInv, Canary \/ AppleControl \/ Attempt
  PROVE  CamInv'
<1>1. Running /\ ~Rosetta /\ Plan[stage].how \in {"canary", "disarmed", "control", "attempt"}
  BY HowIs DEF Canary, AppleControl, Attempt, At, RosettaHows
<1>2. /\ Plan[stage].how = "canary" <=> stage = 1
      /\ Plan[stage].how = "disarmed" <=> stage = 2
      /\ Plan[stage].how \in {"control", "attempt"} => stage > 2
  BY <1>1, HowIs
<1>3. controlThrew \in BOOLEAN /\ CamTyped
  BY DEF CamInv, CamTyped
<1>4. CASE Canary
  <2>1. PICK o \in Observations :
          /\ outcomes' = Append(outcomes, o)
          /\ IF o = (IF At("canary") THEN "bad-function-call-throw" ELSE "inferior-failed")
             THEN Proceed ELSE Exit("assertion")
    BY <1>4 DEF Canary
  <2>2. UNCHANGED <<script, unclean, pristine, status, disk, controlThrew>>
        /\ (IF At("canary") THEN stage = 1 ELSE stage = 2)
    BY <1>2, <1>4 DEF Canary, At
  <2>3. \/ /\ stage' = stage + 1 /\ UNCHANGED <<classification, exit>>
           /\ stage = 1 => o = "bad-function-call-throw"
           /\ stage = 2 => o = "inferior-failed"
        \/ exit' = "assertion" /\ UNCHANGED <<stage, classification>>
    BY <2>1, <2>2 DEF Proceed, Exit
  <2>4. stage \in {1, 2} => ~(stage > 2)
    OBVIOUS
  <2> QED
    BY <1>1, <1>3, <2>1, <2>2, <2>3, <2>4, ObservationKeeps
<1>5. CASE AppleControl
  <2>1. PICK o \in Observations :
          /\ outcomes' = Append(outcomes, o)
          /\ controlThrew' = (controlThrew \/ o = "bad-function-call-throw")
          /\ IF o \in {"completed", "bad-function-call-throw"} THEN Proceed ELSE Exit("2")
    BY <1>5 DEF AppleControl
  <2>2. UNCHANGED <<script, unclean, pristine, status, disk>> /\ stage > 2
    BY <1>2, <1>5 DEF AppleControl, At
  <2>3. /\ controlThrew' \in BOOLEAN /\ (controlThrew => controlThrew')
        /\ (o = "bad-function-call-throw" => controlThrew')
    BY <1>3, <2>1
  <2>4. \/ stage' = stage + 1 /\ UNCHANGED <<classification, exit>>
            /\ o \in {"completed", "bad-function-call-throw"}
        \/ exit' = "2" /\ UNCHANGED <<stage, classification>>
    BY <2>1 DEF Proceed, Exit
  <2>5. stage # 1 /\ stage # 2
    BY <2>2
  <2> QED
    BY <1>1, <2>1, <2>2, <2>3, <2>4, <2>5, ObservationKeeps
<1>6. CASE Attempt
  <2>1. UNCHANGED <<script, unclean, pristine, status, disk, controlThrew>> /\ stage > 2
    BY <1>2, <1>6 DEF Attempt, At
  <2>2. CASE \E o \in Observations :
               /\ outcomes' = Append(outcomes, o)
               /\ CASE o = "bad-function-call-throw" -> Exit(IF script = "capture" THEN "0" ELSE "1")
                    [] o = "completed" -> Proceed
                    [] OTHER -> Exit("2")
    <3>1. PICK o \in Observations :
               /\ outcomes' = Append(outcomes, o)
               /\ CASE o = "bad-function-call-throw" -> Exit(IF script = "capture" THEN "0" ELSE "1")
                    [] o = "completed" -> Proceed
                    [] OTHER -> Exit("2")
      BY <2>2
    <3>2. \/ stage' = stage + 1 /\ UNCHANGED <<classification, exit>> /\ o = "completed"
          \/ UNCHANGED <<stage, classification>> /\ exit' \in {"0", "1", "2"}
              /\ (exit' = "0" => script = "capture")
      BY <3>1 DEF Proceed, Exit
    <3>3. stage # 1 /\ stage # 2
      BY <2>1
    <3> QED
      BY <1>1, <1>3, <2>1, <3>1, <3>2, <3>3, ObservationKeeps
  <2>3. CASE stage' = Len(Plan) + 1 /\ UNCHANGED <<outcomes, classification, exit>>
    <3>1. Len(Plan) \in Nat \ {0}
      BY <1>3, PlanLength
    <3>2. Plan' = Plan /\ Rosetta' = Rosetta
      BY <2>1 DEF Plan, Rosetta
    <3>3. CamTyped'
      BY <1>3, <2>1, <2>3, <3>1, <3>2 DEF CamTyped, Running
    <3> QED
      BY <1>1, <2>1, <2>3, <3>2, <3>3 DEF CamInv, StageInv, ReportInv, AuInv, Seen
  <2> QED
    BY <1>6, <2>2, <2>3 DEF Attempt
<1> QED
  BY <1>4, <1>5, <1>6

\* Whatever is left over when the last stage has passed was earned.
LEMMA ConcludeKeeps ==
  ASSUME CamInv, Conclude
  PROVE  CamInv'
<1>1. CamTyped /\ StageInv /\ ReportInv /\ Rosetta /\ stage > Len(Plan)
  BY DEF CamInv, Conclude
<1>2. /\ UNCHANGED <<script, stage, outcomes, unclean, pristine, disk, controlThrew, exit>>
      /\ status = "in_progress" /\ status' = (IF PlanSucceeded THEN "complete" ELSE "incomplete")
      /\ classification' # "incomplete"
  BY DEF Conclude
<1>3. Plan' = Plan /\ Rosetta'
  BY <1>1, <1>2 DEF Plan, Rosetta
<1>4. /\ Len(Plan) \in Nat \ {0} /\ Len(outcomes) \in Nat /\ DOMAIN outcomes = 1..Len(outcomes)
      /\ Len(outcomes) <= Len(Plan) /\ stage = Len(Plan) + 1
  BY <1>1, PlanLength, AppendIs DEF CamTyped
<1>5. PlanSucceeded => Earned
  <2>1. SUFFICES ASSUME PlanSucceeded PROVE Earned
    OBVIOUS
  <2>2. CASE script = "scope"
    <3>1. /\ pristine /\ stage = Len(outcomes) + 1 /\ \A i \in DOMAIN outcomes : Passed(i)
          /\ outcomes[12] \in Good /\ outcomes[13] \in Good
      BY <1>1, <2>1, <2>2 DEF PlanSucceeded, StageInv, Done, Good
    <3>2. Len(outcomes) = Len(Plan)
      BY <1>4, <3>1
    <3>3. \A i \in DOMAIN outcomes : outcomes[i] \in Good
      <4>1. TAKE i \in DOMAIN outcomes
      <4>2. Plan[i].how = "focused" => i \in {12, 13}
        BY <1>4, <2>2, <3>2, ScopePlanIs
      <4> QED
        BY <3>1, <4>2 DEF Passed
    <3> QED
      BY <1>1, <3>1, <3>2, <3>3 DEF Earned, StageInv, CamTyped
  <2>3. CASE script # "scope"
    <3>1. Len(outcomes) = Len(Plan) /\ outcomes[Len(Plan)] \in Good
      BY <1>4, <2>1, <2>3 DEF PlanSucceeded, Done, Good
    <3>2. \A i \in DOMAIN outcomes : outcomes[i] \in Good
      <4>1. TAKE i \in DOMAIN outcomes
      <4>2. Plan[i].how # "focused"
        BY <1>1, <1>4, <2>3, OtherPlansAre DEF Rosetta
      <4>3. i = Len(Plan) \/ i < Len(outcomes)
        BY <1>4, <3>1
      <4> QED
        BY <1>1, <3>1, <4>2, <4>3 DEF StageInv, Passed
    <3> QED
      BY <1>1, <2>3, <3>1, <3>2 DEF Earned, StageInv, CamTyped
  <2> QED
    BY <2>2, <2>3
<1>6. CamTyped' /\ StageInv'
  BY <1>1, <1>2, <1>3 DEF CamTyped, StageInv, Running, Passed
<1>7. ReportInv' /\ AuInv'
  BY <1>1, <1>2, <1>3, <1>5 DEF ReportInv, AuInv, Earned
<1> QED
  BY <1>6, <1>7 DEF CamInv

LEMMA EndingsKeep ==
  ASSUME CamInv, Tamper \/ SaveReport \/ Cancelled \/ AuEnds
  PROVE  CamInv'
<1>1. CamTyped /\ StageInv /\ ReportInv /\ AuInv /\ exit = "running"
  BY DEF CamInv, Tamper, SaveReport, Cancelled, AuEnds
<1>2. UNCHANGED <<script, stage, outcomes, unclean, classification, status, controlThrew>>
  BY DEF Tamper, SaveReport, Cancelled, AuEnds
<1>3. Plan' = Plan /\ Rosetta' = Rosetta
  BY <1>2 DEF Plan, Rosetta
<1>4. pristine' \in BOOLEAN /\ (status = "complete" => pristine' = pristine)
  BY <1>1 DEF CamTyped, Tamper, SaveReport, Cancelled, AuEnds
<1>5. CamTyped' /\ StageInv'
  BY <1>1, <1>2, <1>3, <1>4 DEF CamTyped, StageInv, Running, Passed
<1>6. ReportInv'
  BY <1>1, <1>2, <1>3, <1>4 DEF ReportInv, Earned, Tamper, SaveReport, Cancelled, AuEnds
<1>7. AuInv'
  <2>1. CASE AuEnds
    <3>1. ~Rosetta /\ disk' = disk /\ exit' # "running"
          /\ (exit' = "0" => script = "completed" /\ Len(outcomes) = Len(Plan) /\ ~controlThrew)
      BY <2>1 DEF AuEnds
    <3>2. Len(outcomes) \in Nat /\ DOMAIN outcomes = 1..Len(outcomes)
      BY <1>1, AppendIs DEF CamTyped
    <3>3. exit' = "0" => \A i \in 3..Len(Plan) : outcomes[i] = "completed"
      BY <1>1, <3>1, <3>2 DEF AuInv, Seen
    <3> QED
      BY <1>1, <1>2, <1>3, <3>1, <3>3 DEF AuInv
  <2>2. CASE Tamper
    BY <1>1, <1>2, <1>3, <2>2 DEF AuInv, Tamper, Seen
  <2>3. CASE SaveReport
    BY <1>2, <1>3, <2>3 DEF AuInv, SaveReport
  <2>4. CASE Cancelled
    BY <1>1, <1>2, <1>3, <2>4 DEF AuInv, Cancelled
  <2> QED
    BY <2>1, <2>2, <2>3, <2>4
<1> QED
  BY <1>5, <1>6, <1>7 DEF CamInv

LEMMA CamInvInductive == CamSpec => []CamInv
<1>1. CamInit => CamInv
  <2>1. SUFFICES ASSUME CamInit PROVE CamInv
    OBVIOUS
  <2>2. /\ script \in {"scope", "launch", "handshake", "capture", "completed"}
        /\ stage = 1 /\ outcomes = <<>> /\ unclean = {} /\ pristine = TRUE /\ classification = "incomplete"
        /\ status = "in_progress" /\ disk = "in_progress" /\ controlThrew = FALSE /\ exit = "running"
    BY <2>1, CampaignAssumption DEF CamInit
  <2>3. Len(outcomes) = 0 /\ DOMAIN outcomes = {} /\ IsSequence(outcomes)
    BY <2>2 DEF IsSequence
  <2>4. Len(Plan) \in Nat \ {0}
    <3>1. Attempts \in Nat
      BY CampaignAssumption
    <3> QED
      BY <2>2, <3>1, ScopePlanIs, OtherPlansAre, AuPlanIs DEF Rosetta
  <2>5. CamTyped
    <3>1. stage \in Nat \ {0} /\ stage <= Len(Plan) + 1 /\ Len(outcomes) <= Len(Plan)
          /\ stage = Len(outcomes) + 1
      BY <2>2, <2>3, <2>4
    <3> QED
      BY <2>2, <2>3, <3>1 DEF CamTyped
  <2> QED
    BY <2>2, <2>3, <2>5 DEF CamInv, StageInv, ReportInv, AuInv
<1>2. CamInv /\ [CamNext]_CamVars => CamInv'
  <2>1. SUFFICES ASSUME CamInv, [CamNext]_CamVars PROVE CamInv'
    OBVIOUS
  <2>2. CASE UNCHANGED CamVars
    <3>1. Plan' = Plan /\ Rosetta' = Rosetta
      BY <2>2 DEF CamVars, Plan, Rosetta
    <3> QED
      BY <2>1, <2>2, <3>1 DEF CamVars, CamInv, CamTyped, StageInv, ReportInv, AuInv, Earned, Passed, Seen, Running
  <2>3. CASE CamNext
    BY <2>1, <2>3, StageFailsKeeps, ChecksKeep, TargetsKeep, AuKeeps, ConcludeKeeps, EndingsKeep DEF CamNext
  <2> QED
    BY <2>1, <2>2, <2>3
<1> QED
  BY <1>1, <1>2, PTL DEF CamSpec

(***************************************************************************)
(* For every campaign, set of facts and number of attempts: only a focused *)
(* run may fail and be followed by a stage, a report that says complete    *)
(* has its plan behind it, and the AU campaign has seen what it expects    *)
(* as long as it goes on.                                                  *)
(***************************************************************************)
THEOREM CampaignInvariant == CamSpec => []CamInv
BY CamInvInductive

(***************************************************************************)
(* For every campaign, set of facts and number of attempts: completion was *)
(* earned, and nothing is started after a command that left something.     *)
(***************************************************************************)
THEOREM CampaignAlwaysHolds == CamSpec => []CampaignHolds
<1>1. CamInv => CampaignHolds
  <2>1. SUFFICES ASSUME CamInv PROVE CampaignHolds
    OBVIOUS
  <2>2. CamTyped /\ StageInv /\ ReportInv /\ AuInv
    BY <2>1 DEF CamInv
  <2>3. /\ Len(Plan) \in Nat \ {0} /\ Len(outcomes) \in Nat /\ DOMAIN outcomes = 1..Len(outcomes)
        /\ Len(outcomes) <= Len(Plan)
    BY <2>2, PlanLength, AppendIs DEF CamTyped
  <2>4. CompletionEarned
    <3>1. disk = "complete" \/ (Rosetta /\ exit = "0") => Earned
      BY <2>2 DEF ReportInv
    <3>2. Earned => \A i \in DOMAIN outcomes : Done(i)
      BY <2>3 DEF Earned, Done, Good
    <3>3. script \in {"capture", "completed"} => ~Rosetta
      BY DEF Rosetta
    <3> QED
      BY <2>2, <3>1, <3>2, <3>3 DEF CompletionEarned, AuInv, Earned
  <2>5. CleanupWithholds
    <3>1. SUFFICES ASSUME NEW i \in unclean, NEW j \in DOMAIN outcomes, j > i
                   PROVE  Plan[j].what \notin Targets
      BY DEF CleanupWithholds
    <3>2. Rosetta
      BY <2>2, <3>1 DEF AuInv
    <3>3. i \in 1..Len(Plan) /\ i < Len(outcomes)
      BY <2>2, <2>3, <3>1 DEF CamTyped
    <3>4. Plan[i].how = "focused" /\ Plan[i].what # "focused-direct"
      <4>1. \/ Plan[i].how = "focused" /\ Plan[i].what # "focused-direct"
            \/ i = Len(outcomes)
        BY <2>2, <3>1, <3>2 DEF StageInv
      <4>2. i # Len(outcomes)
        <5>1. i \in Int /\ Len(outcomes) \in Int /\ i < Len(outcomes)
          BY <2>3, <3>3
        <5> QED
          BY <5>1
      <4> QED
        BY <4>1, <4>2
    <3>5. script = "scope"
      BY <3>2, <3>3, <3>4, OtherPlansAre DEF Rosetta
    <3>6. i = 13 /\ Len(Plan) = 14
      BY <3>3, <3>4, <3>5, ScopePlanIs
    <3>7. j = 14
      BY <2>3, <3>1, <3>6
    <3> QED
      BY <3>5, <3>7, ScopePlanIs
  <2> QED
    BY <2>4, <2>5 DEF CampaignHolds
<1> QED
  BY <1>1, CamInvInductive, PTL

-----------------------------------------------------------------------------
(* The cache of the release tool: the inductive invariant. *)

\* A directory under preparation holds nothing but what the locked archive put there.
StagedIsSound ==
  \A p \in Procs :
    /\ ppc[p] \in {"fetch", "check"} =>
         (\A m \in Members : staged[p].tree[m] = "none") /\ ~staged[p].extra
    /\ ppc[p] = "unpack" =>
         /\ flaws = {} /\ staged[p].archive = "locked" /\ ~staged[p].extra
         /\ \A m \in Members : staged[p].tree[m] \in {"none", "locked"}
    /\ ppc[p] = "rename" => flaws = {} /\ Whole(staged[p])

\* Who has read the archive has read the one that is still there, or was disturbed.
ReadersAreSound ==
  \A p \in Procs : ppc[p] \in {"manifest", "tree"} /\ p \notin disturbed =>
    present /\ target.archive = "locked"

\* A path is returned at the end only, and Harm marks those who are there.
ReturnedAtTheEnd == \A p \in Procs : got[p] = "path" => ppc[p] \in {"finally", "done"}

PvInv ==
  /\ PvTypeOK /\ StagedIsSound /\ ReadersAreSound /\ ReturnedAtTheEnd /\ PublishedIsWhole
  /\ ReturnedIsLocked

-----------------------------------------------------------------------------
(* The cache: directories. *)

LEMMA AbsentIsADir == Absent \in Dirs
BY DEF Absent, Dirs, Contents

LEMMA ArchiveUpdate ==
  ASSUME NEW d \in Dirs, NEW c \in Contents
  PROVE  /\ [d EXCEPT !.archive = c] \in Dirs
         /\ [d EXCEPT !.archive = c].archive = c
         /\ [d EXCEPT !.archive = c].tree = d.tree
         /\ [d EXCEPT !.archive = c].extra = d.extra
BY DEF Dirs, Contents

LEMMA TreeUpdate ==
  ASSUME NEW d \in Dirs, NEW m \in Members, NEW c \in Contents
  PROVE  /\ [d EXCEPT !.tree[m] = c] \in Dirs
         /\ [d EXCEPT !.tree[m] = c].archive = d.archive
         /\ [d EXCEPT !.tree[m] = c].extra = d.extra
         /\ [d EXCEPT !.tree[m] = c].tree[m] = c
         /\ \A n \in Members : n # m => [d EXCEPT !.tree[m] = c].tree[n] = d.tree[n]
BY DEF Dirs, Contents

-----------------------------------------------------------------------------
(* The cache: each action keeps the invariant. *)

LEMMA StartKeeps ==
  ASSUME PvInv, NEW p \in Procs, Start(p)
  PROVE  PvInv'
<1> USE DEF PvInv, Start, PvGoto, PvRaise, PvReturn, cacheVars, ownVars
<1>1. PvTypeOK'
  BY CacheAssumption DEF PvTypeOK
<1>2. StagedIsSound'
  BY DEF PvTypeOK, StagedIsSound, Whole
<1>3. ReadersAreSound'
  BY DEF PvTypeOK, ReadersAreSound
<1>4. ReturnedAtTheEnd'
  BY DEF PvTypeOK, ReturnedAtTheEnd
<1>5. PublishedIsWhole'
  BY DEF PublishedIsWhole, StagedIsSound, Whole
<1>6. ReturnedIsLocked'
  BY DEF PvTypeOK, ReturnedIsLocked, ReturnedAtTheEnd, ReadersAreSound, StagedIsSound, Whole
<1> QED
  BY <1>1, <1>2, <1>3, <1>4, <1>5, <1>6 DEF PvInv

LEMMA LoadLockKeeps ==
  ASSUME PvInv, NEW p \in Procs, LoadLock(p)
  PROVE  PvInv'
<1> USE DEF PvInv, LoadLock, PvGoto, PvRaise, PvReturn, cacheVars, ownVars
<1>1. PvTypeOK'
  BY CacheAssumption DEF PvTypeOK
<1>2. StagedIsSound'
  BY DEF PvTypeOK, StagedIsSound, Whole
<1>3. ReadersAreSound'
  BY DEF PvTypeOK, ReadersAreSound
<1>4. ReturnedAtTheEnd'
  BY DEF PvTypeOK, ReturnedAtTheEnd
<1>5. PublishedIsWhole'
  BY DEF PublishedIsWhole, StagedIsSound, Whole
<1>6. ReturnedIsLocked'
  BY DEF PvTypeOK, ReturnedIsLocked, ReturnedAtTheEnd, ReadersAreSound, StagedIsSound, Whole
<1> QED
  BY <1>1, <1>2, <1>3, <1>4, <1>5, <1>6 DEF PvInv

LEMMA CachedArchiveKeeps ==
  ASSUME PvInv, NEW p \in Procs, CachedArchive(p)
  PROVE  PvInv'
<1> USE DEF PvInv, CachedArchive, Verify, PvGoto, PvRaise, PvReturn, cacheVars, ownVars
<1>1. PvTypeOK'
  BY CacheAssumption DEF PvTypeOK
<1>2. StagedIsSound'
  BY DEF PvTypeOK, StagedIsSound, Whole
<1>3. ReadersAreSound'
  BY DEF PvTypeOK, ReadersAreSound
<1>4. ReturnedAtTheEnd'
  BY DEF PvTypeOK, ReturnedAtTheEnd
<1>5. PublishedIsWhole'
  BY DEF PublishedIsWhole, StagedIsSound, Whole
<1>6. ReturnedIsLocked'
  BY DEF PvTypeOK, ReturnedIsLocked, ReturnedAtTheEnd, ReadersAreSound, StagedIsSound, Whole
<1> QED
  BY <1>1, <1>2, <1>3, <1>4, <1>5, <1>6 DEF PvInv

LEMMA CachedManifestKeeps ==
  ASSUME PvInv, NEW p \in Procs, CachedManifest(p)
  PROVE  PvInv'
<1> USE DEF PvInv, CachedManifest, Verify, PvGoto, PvRaise, PvReturn, cacheVars, ownVars
<1>1. PvTypeOK'
  BY CacheAssumption DEF PvTypeOK
<1>2. StagedIsSound'
  BY DEF PvTypeOK, StagedIsSound, Whole
<1>3. ReadersAreSound'
  BY DEF PvTypeOK, ReadersAreSound
<1>4. ReturnedAtTheEnd'
  BY DEF PvTypeOK, ReturnedAtTheEnd
<1>5. PublishedIsWhole'
  BY DEF PublishedIsWhole, StagedIsSound, Whole
<1>6. ReturnedIsLocked'
  BY DEF PvTypeOK, ReturnedIsLocked, ReturnedAtTheEnd, ReadersAreSound, StagedIsSound, Whole
<1> QED
  BY <1>1, <1>2, <1>3, <1>4, <1>5, <1>6 DEF PvInv

LEMMA CachedTreeKeeps ==
  ASSUME PvInv, NEW p \in Procs, CachedTree(p)
  PROVE  PvInv'
<1> USE DEF PvInv, CachedTree, VerifyTree, PvGoto, PvRaise, PvReturn, cacheVars, ownVars
<1>1. PvTypeOK'
  BY CacheAssumption DEF PvTypeOK
<1>2. StagedIsSound'
  BY DEF PvTypeOK, StagedIsSound, Whole
<1>3. ReadersAreSound'
  BY DEF PvTypeOK, ReadersAreSound
<1>4. ReturnedAtTheEnd'
  BY DEF PvTypeOK, ReturnedAtTheEnd
<1>5. PublishedIsWhole'
  BY DEF PublishedIsWhole, StagedIsSound, Whole
<1>6. ReturnedIsLocked'
  BY DEF PvTypeOK, ReturnedIsLocked, ReturnedAtTheEnd, ReadersAreSound, StagedIsSound, Whole
<1> QED
  BY <1>1, <1>2, <1>3, <1>4, <1>5, <1>6 DEF PvInv

LEMMA CheckArchiveKeeps ==
  ASSUME PvInv, NEW p \in Procs, CheckArchive(p)
  PROVE  PvInv'
<1> USE DEF PvInv, CheckArchive, PvGoto, PvRaise, PvReturn, cacheVars, ownVars
<1>1. PvTypeOK'
  BY CacheAssumption DEF PvTypeOK
<1>2. StagedIsSound'
  BY DEF PvTypeOK, StagedIsSound, Whole
<1>3. ReadersAreSound'
  BY DEF PvTypeOK, ReadersAreSound
<1>4. ReturnedAtTheEnd'
  BY DEF PvTypeOK, ReturnedAtTheEnd
<1>5. PublishedIsWhole'
  BY DEF PublishedIsWhole, StagedIsSound, Whole
<1>6. ReturnedIsLocked'
  BY DEF PvTypeOK, ReturnedIsLocked, ReturnedAtTheEnd, ReadersAreSound, StagedIsSound, Whole
<1> QED
  BY <1>1, <1>2, <1>3, <1>4, <1>5, <1>6 DEF PvInv

LEMMA RenameFailedKeeps ==
  ASSUME PvInv, NEW p \in Procs, RenameFailed(p)
  PROVE  PvInv'
<1> USE DEF PvInv, RenameFailed, PvGoto, PvRaise, PvReturn, cacheVars, ownVars
<1>1. PvTypeOK'
  BY CacheAssumption DEF PvTypeOK
<1>2. StagedIsSound'
  BY DEF PvTypeOK, StagedIsSound, Whole
<1>3. ReadersAreSound'
  BY DEF PvTypeOK, ReadersAreSound
<1>4. ReturnedAtTheEnd'
  BY DEF PvTypeOK, ReturnedAtTheEnd
<1>5. PublishedIsWhole'
  BY DEF PublishedIsWhole, StagedIsSound, Whole
<1>6. ReturnedIsLocked'
  BY DEF PvTypeOK, ReturnedIsLocked, ReturnedAtTheEnd, ReadersAreSound, StagedIsSound, Whole
<1> QED
  BY <1>1, <1>2, <1>3, <1>4, <1>5, <1>6 DEF PvInv

LEMMA FinallyKeeps ==
  ASSUME PvInv, NEW p \in Procs, Finally(p)
  PROVE  PvInv'
<1> USE DEF PvInv, Finally, PvGoto, PvRaise, PvReturn, cacheVars, ownVars
<1>1. PvTypeOK'
  BY CacheAssumption DEF PvTypeOK
<1>2. StagedIsSound'
  BY DEF PvTypeOK, StagedIsSound, Whole
<1>3. ReadersAreSound'
  BY DEF PvTypeOK, ReadersAreSound
<1>4. ReturnedAtTheEnd'
  BY DEF PvTypeOK, ReturnedAtTheEnd
<1>5. PublishedIsWhole'
  BY DEF PublishedIsWhole, StagedIsSound, Whole
<1>6. ReturnedIsLocked'
  BY DEF PvTypeOK, ReturnedIsLocked, ReturnedAtTheEnd, ReadersAreSound, StagedIsSound, Whole
<1> QED
  BY <1>1, <1>2, <1>3, <1>4, <1>5, <1>6 DEF PvInv

LEMMA DieKeeps ==
  ASSUME PvInv, NEW p \in Procs, Die(p)
  PROVE  PvInv'
<1> USE DEF PvInv, Die, PvGoto, PvRaise, PvReturn, cacheVars, ownVars
<1>1. PvTypeOK'
  BY CacheAssumption DEF PvTypeOK
<1>2. StagedIsSound'
  BY DEF PvTypeOK, StagedIsSound, Whole
<1>3. ReadersAreSound'
  BY DEF PvTypeOK, ReadersAreSound
<1>4. ReturnedAtTheEnd'
  BY DEF PvTypeOK, ReturnedAtTheEnd
<1>5. PublishedIsWhole'
  BY DEF PublishedIsWhole, StagedIsSound, Whole
<1>6. ReturnedIsLocked'
  BY DEF PvTypeOK, ReturnedIsLocked, ReturnedAtTheEnd, ReadersAreSound, StagedIsSound, Whole
<1> QED
  BY <1>1, <1>2, <1>3, <1>4, <1>5, <1>6 DEF PvInv

LEMMA LookKeeps ==
  ASSUME PvInv, NEW p \in Procs, Look(p)
  PROVE  PvInv'
<1> USE DEF PvInv, Look, PvGoto, PvRaise, cacheVars, ownVars
<1>1. PvTypeOK'
  <2>1. staged' \in [Procs -> Dirs] /\ hasStage' \in [Procs -> BOOLEAN]
    <3>1. staged \in [Procs -> Dirs] /\ hasStage \in [Procs -> BOOLEAN]
      BY DEF PvTypeOK
    <3>2. UNCHANGED staged \/ staged' = [staged EXCEPT ![p] = Absent]
      OBVIOUS
    <3>3. UNCHANGED hasStage \/ hasStage' = [hasStage EXCEPT ![p] = TRUE]
      OBVIOUS
    <3> HIDE DEF PvInv, Look
    <3>4. staged' \in [Procs -> Dirs]
      BY <3>1, <3>2, AbsentIsADir
    <3>5. hasStage' \in [Procs -> BOOLEAN]
      BY <3>1, <3>3
    <3> QED
      BY <3>4, <3>5
  <2>2. ppc'[p] \in {"archive", "finally", "done", "fetch"} /\ got'[p] \in {"error", got[p]}
    BY DEF PvTypeOK
  <2>3. /\ ppc' = [ppc EXCEPT ![p] = ppc'[p]] /\ got' = [got EXCEPT ![p] = got'[p]]
        /\ UNCHANGED <<flaws, target, present, harm, disturbed, runs>>
    BY DEF PvTypeOK
  <2> QED
    BY <2>1, <2>2, <2>3 DEF PvTypeOK
<1>2. StagedIsSound'
  BY DEF PvTypeOK, StagedIsSound, Absent, Whole
<1>3. ReadersAreSound'
  BY DEF PvTypeOK, ReadersAreSound
<1>4. ReturnedAtTheEnd'
  BY DEF PvTypeOK, ReturnedAtTheEnd
<1>5. PublishedIsWhole'
  BY DEF PublishedIsWhole
<1>6. ReturnedIsLocked'
  BY DEF PvTypeOK, ReturnedIsLocked
<1> QED
  BY <1>1, <1>2, <1>3, <1>4, <1>5, <1>6 DEF PvInv

\* Either nothing is staged, or exactly an archive.
LEMMA FetchKeeps ==
  ASSUME PvInv, NEW p \in Procs, Fetch(p)
  PROVE  PvInv'
<1> USE DEF PvInv, Fetch, PvGoto, PvRaise, cacheVars
<1>1. staged[p] \in Dirs
  BY DEF PvTypeOK
<1>2. /\ staged' \in [Procs -> Dirs]
      /\ staged'[p].tree = staged[p].tree /\ staged'[p].extra = staged[p].extra
      /\ \A q \in Procs : q # p => staged'[q] = staged[q]
  <2>1. CASE UNCHANGED staged
    BY <2>1 DEF PvTypeOK
  <2>2. CASE \E c \in {"locked", "other"} : staged' = [staged EXCEPT ![p].archive = c]
    <3>1. PICK c \in Contents : staged' = [staged EXCEPT ![p].archive = c]
      BY <2>2 DEF Contents
    <3>2. staged' = [staged EXCEPT ![p] = [staged[p] EXCEPT !.archive = c]]
      BY <3>1 DEF PvTypeOK
    <3>3. /\ [staged[p] EXCEPT !.archive = c] \in Dirs
          /\ [staged[p] EXCEPT !.archive = c].tree = staged[p].tree
          /\ [staged[p] EXCEPT !.archive = c].extra = staged[p].extra
      BY <1>1, ArchiveUpdate
    <3> QED
      BY <3>2, <3>3 DEF PvTypeOK
  <2> QED
    BY <2>1, <2>2
<1>3. \/ ppc' = [ppc EXCEPT ![p] = IF hasStage[p] THEN "finally" ELSE "done"] /\ got'[p] = "error"
      \/ ppc' = [ppc EXCEPT ![p] = "check"] /\ UNCHANGED got
  BY DEF PvTypeOK
<1>4. /\ UNCHANGED <<flaws, target, present, harm, disturbed, hasStage, runs>>
      /\ ppc[p] = "fetch"
      /\ \A q \in Procs : q # p => ppc'[q] = ppc[q] /\ got'[q] = got[q]
  BY DEF PvTypeOK
<1> HIDE DEF Fetch, PvRaise
<1>5. PvTypeOK'
  BY <1>2, <1>4 DEF PvTypeOK, Fetch, PvRaise
<1>6. StagedIsSound'
  BY <1>2, <1>3, <1>4 DEF PvTypeOK, StagedIsSound
<1>7. ReadersAreSound'
  BY <1>3, <1>4 DEF PvTypeOK, ReadersAreSound
<1>8. ReturnedAtTheEnd'
  BY <1>3, <1>4 DEF PvTypeOK, ReturnedAtTheEnd
<1>9. PublishedIsWhole'
  BY <1>4 DEF PublishedIsWhole
<1>10. ReturnedIsLocked'
  BY <1>3, <1>4 DEF PvTypeOK, ReturnedIsLocked
<1> QED
  BY <1>5, <1>6, <1>7, <1>8, <1>9, <1>10 DEF PvInv

\* A file is filled from the archive; the tree is complete before the rename.
LEMMA UnpackKeeps ==
  ASSUME PvInv, NEW p \in Procs, Unpack(p)
  PROVE  PvInv'
<1>1. /\ staged[p] \in Dirs /\ ppc[p] = "unpack"
      /\ flaws = {} /\ staged[p].archive = "locked" /\ ~staged[p].extra
      /\ \A m \in Members : staged[p].tree[m] \in {"none", "locked"}
      /\ UNCHANGED <<flaws, target, present, harm, disturbed, hasStage, runs>>
  BY DEF PvInv, PvTypeOK, StagedIsSound, Unpack, cacheVars
<1>2. CASE PvRaise(p) /\ UNCHANGED staged
  <2> USE <1>1, <1>2 DEF PvInv, PvRaise, PvGoto, PvTypeOK
  <2>1. PvTypeOK'
    OBVIOUS
  <2>2. StagedIsSound' /\ ReadersAreSound' /\ ReturnedAtTheEnd'
    BY DEF StagedIsSound, ReadersAreSound, ReturnedAtTheEnd, Whole
  <2>3. PublishedIsWhole' /\ ReturnedIsLocked'
    BY DEF PublishedIsWhole, ReturnedIsLocked
  <2> QED
    BY <2>1, <2>2, <2>3
<1>3. ASSUME NEW m \in Members, staged' = [staged EXCEPT ![p].tree[m] = staged[p].archive],
             UNCHANGED <<ppc, got>>
      PROVE  PvInv'
  <2>1. staged' = [staged EXCEPT ![p] = [staged[p] EXCEPT !.tree[m] = "locked"]]
    BY <1>1, <1>3 DEF PvInv, PvTypeOK
  <2>2. /\ [staged[p] EXCEPT !.tree[m] = "locked"] \in Dirs
        /\ [staged[p] EXCEPT !.tree[m] = "locked"].archive = "locked"
        /\ ~[staged[p] EXCEPT !.tree[m] = "locked"].extra
        /\ \A n \in Members :
             [staged[p] EXCEPT !.tree[m] = "locked"].tree[n] \in {"none", "locked"}
    <3>1. "locked" \in Contents
      BY DEF Contents
    <3>2. [staged[p] EXCEPT !.tree[m] = "locked"].tree[m] = "locked"
      BY <1>1, <3>1 DEF Dirs
    <3>3. \A n \in Members : n # m =>
            [staged[p] EXCEPT !.tree[m] = "locked"].tree[n] = staged[p].tree[n]
      BY <1>1, <3>1 DEF Dirs
    <3>4. /\ [staged[p] EXCEPT !.tree[m] = "locked"] \in Dirs
          /\ [staged[p] EXCEPT !.tree[m] = "locked"].archive = staged[p].archive
          /\ [staged[p] EXCEPT !.tree[m] = "locked"].extra = staged[p].extra
      BY <1>1, <3>1, TreeUpdate
    <3> QED
      BY <1>1, <3>2, <3>3, <3>4
  <2>3. /\ staged' \in [Procs -> Dirs]
        /\ staged'[p].archive = "locked" /\ ~staged'[p].extra
        /\ \A n \in Members : staged'[p].tree[n] \in {"none", "locked"}
        /\ \A q \in Procs : q # p => staged'[q] = staged[q]
    BY <2>1, <2>2 DEF PvInv, PvTypeOK
  <2> USE <1>1, <1>3 DEF PvInv
  <2>4. PvTypeOK'
    BY <2>3 DEF PvTypeOK
  <2>5. StagedIsSound'
    BY <2>3 DEF StagedIsSound, Whole
  <2>6. ReadersAreSound' /\ ReturnedAtTheEnd'
    BY DEF ReadersAreSound, ReturnedAtTheEnd
  <2>7. PublishedIsWhole' /\ ReturnedIsLocked'
    BY DEF PublishedIsWhole, ReturnedIsLocked, Whole
  <2> QED
    BY <2>4, <2>5, <2>6, <2>7
<1>4. CASE VerifyTree(staged[p]) /\ PvGoto(p, "rename") /\ UNCHANGED <<got, staged>>
  <2> USE <1>1, <1>4 DEF PvInv, PvGoto, PvTypeOK
  <2>1. PvTypeOK'
    OBVIOUS
  <2>2. StagedIsSound'
    BY DEF StagedIsSound, Whole, VerifyTree
  <2>3. ReadersAreSound' /\ ReturnedAtTheEnd'
    BY DEF ReadersAreSound, ReturnedAtTheEnd
  <2>4. PublishedIsWhole' /\ ReturnedIsLocked'
    BY DEF PublishedIsWhole, ReturnedIsLocked, Whole
  <2> QED
    BY <2>1, <2>2, <2>3, <2>4
<1> QED
  BY <1>2, <1>3, <1>4 DEF Unpack

\* Whoever had read or been given a directory that is gone was disturbed.
LEMMA RenameKeeps ==
  ASSUME PvInv, NEW p \in Procs, Rename(p)
  PROVE  PvInv'
<1>1. /\ staged[p] \in Dirs /\ ppc[p] = "rename" /\ flaws = {} /\ Whole(staged[p])
      /\ UNCHANGED <<flaws, staged, harm, disturbed, runs>>
  BY DEF PvInv, PvTypeOK, StagedIsSound, Rename
<1>2. CASE /\ ~present /\ target' = staged[p] /\ present' = TRUE
           /\ hasStage' = [hasStage EXCEPT ![p] = FALSE]
           /\ PvGoto(p, "done") /\ got' = [got EXCEPT ![p] = "path"]
  <2> USE <1>1, <1>2 DEF PvInv, PvGoto
  <2>1. PvTypeOK'
    BY DEF PvTypeOK
  <2>2. StagedIsSound'
    BY DEF StagedIsSound, PvTypeOK
  <2>3. ReadersAreSound' /\ ReturnedAtTheEnd'
    BY DEF ReadersAreSound, ReturnedAtTheEnd, PvTypeOK
  <2>4. PublishedIsWhole' /\ ReturnedIsLocked'
    BY DEF PublishedIsWhole, ReturnedIsLocked, PvTypeOK, Whole
  <2> QED
    BY <2>1, <2>2, <2>3, <2>4
<1>3. CASE PvGoto(p, "lost") /\ UNCHANGED <<target, present, hasStage, got>>
  <2> USE <1>1, <1>3 DEF PvInv, PvGoto
  <2>1. PvTypeOK'
    BY DEF PvTypeOK
  <2>2. StagedIsSound'
    BY DEF StagedIsSound, PvTypeOK
  <2>3. ReadersAreSound' /\ ReturnedAtTheEnd'
    BY DEF ReadersAreSound, ReturnedAtTheEnd, PvTypeOK
  <2>4. PublishedIsWhole' /\ ReturnedIsLocked'
    BY DEF PublishedIsWhole, ReturnedIsLocked, PvTypeOK, Whole
  <2> QED
    BY <2>1, <2>2, <2>3, <2>4
<1> QED
  BY <1>2, <1>3 DEF Rename

\* Harm is counted, and marks everyone who has read the archive or was given a path.
LEMMA HarmKeeps ==
  ASSUME PvInv, Harm
  PROVE  PvInv'
<1>1. target' \in Dirs /\ present' \in BOOLEAN
  <2>1. target \in Dirs /\ present \in BOOLEAN
    BY DEF PvInv, PvTypeOK
  <2>2. CASE target' = [target EXCEPT !.archive = "other"] /\ UNCHANGED present
    BY <2>1, <2>2, ArchiveUpdate DEF Contents
  <2>3. CASE \E m \in Members, c \in {"none", "other"} :
               target' = [target EXCEPT !.tree[m] = c] /\ UNCHANGED present
    <3>1. PICK m \in Members, c \in Contents :
            target' = [target EXCEPT !.tree[m] = c] /\ UNCHANGED present
      BY <2>3 DEF Contents
    <3>2. [target EXCEPT !.tree[m] = c] \in Dirs
      BY <2>1, TreeUpdate
    <3> QED
      BY <2>1, <3>1, <3>2
  <2>4. CASE target' = [target EXCEPT !.extra = TRUE] /\ UNCHANGED present
    BY <2>1, <2>4 DEF Dirs
  <2>5. CASE target' = Absent /\ present' = FALSE
    BY <2>5, AbsentIsADir
  <2> QED
    BY <2>2, <2>3, <2>4, <2>5 DEF Harm
<1>2. /\ harm' = harm + 1 /\ harm' \in 1..MaxHarm
      /\ disturbed' = {p \in Procs : ppc[p] \in {"manifest", "tree", "finally", "done"}}
      /\ UNCHANGED <<flaws, staged, hasStage, ppc, got, runs>>
  BY CacheAssumption DEF PvInv, PvTypeOK, Harm, ownVars
<1>3. PvTypeOK'
  BY <1>1, <1>2, CacheAssumption DEF PvInv, PvTypeOK
<1>4. StagedIsSound'
  BY <1>2 DEF PvInv, StagedIsSound, Whole
<1>5. ReadersAreSound' /\ ReturnedAtTheEnd'
  BY <1>2 DEF PvInv, ReadersAreSound, ReturnedAtTheEnd
<1>6. PublishedIsWhole'
  BY <1>2 DEF PublishedIsWhole
<1>7. ReturnedIsLocked'
  BY <1>2 DEF PvInv, ReturnedIsLocked, ReturnedAtTheEnd
<1> QED
  BY <1>3, <1>4, <1>5, <1>6, <1>7 DEF PvInv

-----------------------------------------------------------------------------

(***************************************************************************)
(* The invariant holds throughout (prepare, cached_tool).                  *)
(***************************************************************************)
THEOREM CacheInvariant == PvSpec => []PvInv
<1>1. PvInit => PvInv
  <2> SUFFICES ASSUME PvInit PROVE PvInv
    OBVIOUS
  <2>1. flaws \subseteq Flaws \cup {"lock"}
    BY DEF PvInit
  <2>2. PvTypeOK
    <3>1. target \in Dirs /\ staged \in [Procs -> Dirs] /\ hasStage \in [Procs -> BOOLEAN]
      BY AbsentIsADir DEF PvInit
    <3>2. /\ present = FALSE /\ got = [p \in Procs |-> "none"]
          /\ harm = 0 /\ runs = 0 /\ disturbed = {}
      BY DEF PvInit
    <3>3. /\ present \in BOOLEAN /\ got \in [Procs -> {"none", "path", "error", "killed"}]
          /\ disturbed \subseteq Procs
      BY <3>2
    <3>5. harm \in 0..MaxHarm /\ runs \in 0..MaxRuns
      BY <3>2, CacheAssumption
    <3>4. ppc = [p \in Procs |-> "idle"]
      BY DEF PvInit
    <3> QED
      BY <2>1, <3>1, <3>3, <3>4, <3>5 DEF PvTypeOK
  <2>3. StagedIsSound /\ ReadersAreSound /\ ReturnedAtTheEnd
    BY DEF PvInit, StagedIsSound, ReadersAreSound, ReturnedAtTheEnd
  <2>4. PublishedIsWhole /\ ReturnedIsLocked
    BY DEF PvInit, PublishedIsWhole, ReturnedIsLocked
  <2> QED
    BY <2>2, <2>3, <2>4 DEF PvInv
<1>2. PvInv /\ [PvNext]_PvVars => PvInv'
  <2> SUFFICES ASSUME PvInv, [PvNext]_PvVars PROVE PvInv'
    OBVIOUS
  <2>1. CASE Harm
    BY <2>1, HarmKeeps
  <2>2. ASSUME NEW p \in Procs, Invocation(p) PROVE PvInv'
    BY <2>2, StartKeeps, LoadLockKeeps, LookKeeps, CachedArchiveKeeps, CachedManifestKeeps,
      CachedTreeKeeps, FetchKeeps, CheckArchiveKeeps, UnpackKeeps, RenameKeeps,
      RenameFailedKeeps, FinallyKeeps, DieKeeps DEF Invocation
  <2>3. CASE UNCHANGED PvVars
    BY <2>3 DEF PvVars, PvInv, PvTypeOK, StagedIsSound, ReadersAreSound, ReturnedAtTheEnd,
      PublishedIsWhole, ReturnedIsLocked, Whole
  <2> QED
    BY <2>1, <2>2, <2>3 DEF PvNext
<1> QED
  BY <1>1, <1>2, PTL DEF PvSpec

(***************************************************************************)
(* The shared cache only ever gives the locked tool, whatever invocations  *)
(* race, die and are retried and whatever is done to the cache (prepare,   *)
(* cached_tool).                                                           *)
(***************************************************************************)
THEOREM CacheStaysSound == PvSpec => []CacheIsSound
<1>1. PvInv => CacheIsSound
  BY DEF PvInv, CacheIsSound
<1> QED
  BY <1>1, CacheInvariant, PTL
=============================================================================
