------------------------------- MODULE Memcheck -------------------------------
(***************************************************************************)
(* scripts/run-memcheck.py: a worker thread per suite starts it, copies    *)
(* its output and records how it ended; the main thread watches for a      *)
(* signal and then ends every suite's process group.  Workers and main     *)
(* thread share the results under state_lock.  A suite may fork a helper   *)
(* that keeps the output pipe open, and may ignore SIGTERM.                *)
(***************************************************************************)
EXTENDS Integers

CONSTANT Suites

VARIABLES
  wpc,              \* each worker: where
  suite, kept, stubborn,   \* each suite: the process, a helper with the pipe, ignores TERM
  fatal,            \* those whose group was sent what will end it
  state, exitCode,  \* the results
  registered, terminated, killed,
  interrupted, returned

MemVars == <<wpc, suite, kept, stubborn, fatal, state, exitCode, registered, terminated, killed,
             interrupted, returned>>

MemInit ==
  /\ wpc = [s \in Suites |-> "check"]
  /\ suite = [s \in Suites |-> "none"] /\ kept = {} /\ stubborn \in SUBSET Suites /\ fatal = {}
  /\ state = [s \in Suites |-> "pending"] /\ exitCode = [s \in Suites |-> "none"]
  /\ registered = {} /\ terminated = {} /\ killed = {}
  /\ interrupted = FALSE /\ returned = "no"

processes == <<suite, kept, stubborn, fatal>>
results   == <<state, exitCode, registered>>
ends      == <<terminated, killed, interrupted, returned>>

-----------------------------------------------------------------------------
(* The suites. *)

\* "ok" and "bad" are zombies with the status zero and another one.
SuiteExits(s) ==
  /\ suite[s] = "running"
  /\ suite' = [suite EXCEPT ![s] = IF s \in fatal THEN "bad" ELSE "ok"]
     \/ suite' = [suite EXCEPT ![s] = "bad"]
  /\ UNCHANGED <<wpc, kept, stubborn, fatal, results, ends>>

SuiteForks(s) ==
  /\ suite[s] = "running" /\ s \notin fatal
  /\ kept' = kept \cup {s}
  /\ UNCHANGED <<wpc, suite, stubborn, fatal, results, ends>>

HelperEnds(s) ==
  /\ s \in kept
  /\ kept' = kept \ {s}
  /\ UNCHANGED <<wpc, suite, stubborn, fatal, results, ends>>

Cancel ==
  /\ ~interrupted /\ returned = "no"
  /\ interrupted' = TRUE
  /\ UNCHANGED <<wpc, processes, results, terminated, killed, returned>>

-----------------------------------------------------------------------------
(* A worker, run_one(). *)

Goto(s, at) == wpc' = [wpc EXCEPT ![s] = at]

CheckInterrupted(s) ==
  /\ wpc[s] = "check"
  /\ IF interrupted
     THEN Goto(s, "done") /\ state' = [state EXCEPT ![s] = "interrupted"]
     ELSE Goto(s, "popen") /\ UNCHANGED state
  /\ UNCHANGED <<processes, exitCode, registered, ends>>

Popen(s) ==
  /\ wpc[s] = "popen"
  /\ \/ Goto(s, "register") /\ suite' = [suite EXCEPT ![s] = "running"]
     \/ Goto(s, "failed") /\ UNCHANGED suite
  /\ UNCHANGED <<kept, stubborn, fatal, results, ends>>

Register(s) ==
  /\ wpc[s] = "register"
  /\ registered' = registered \cup {s}
  /\ state' = [state EXCEPT ![s] = "running"]
  /\ Goto(s, "read")
  /\ UNCHANGED <<processes, exitCode, ends>>

\* The output ends when nobody holds the pipe; its log may fail before.
ReadOutput(s) ==
  /\ wpc[s] = "read"
  /\ \/ suite[s] # "running" /\ s \notin kept /\ Goto(s, "wait")
     \/ Goto(s, "abandon")
  /\ UNCHANGED <<processes, results, ends>>

\* child.wait(), or the one by which Popen's context is left.
WaitChild(s) ==
  /\ wpc[s] \in {"wait", "abandon"} /\ suite[s] \in {"ok", "bad"}
  /\ Goto(s, IF wpc[s] = "wait" THEN "record" ELSE "failed")
  /\ UNCHANGED <<processes, results, ends>>

\* Mutant: the status is all that counts.
RecordStatus(s) ==
  /\ wpc[s] = "record"
  /\ exitCode' = [exitCode EXCEPT ![s] = suite[s]]
  /\ state' = [state EXCEPT ![s] = "completed"]
  /\ Goto(s, "done")
  /\ UNCHANGED <<processes, registered, ends>>

RecordEnd(s) ==
  /\ wpc[s] = "record"
  /\ exitCode' = [exitCode EXCEPT ![s] = suite[s]]
  /\ state' = [state EXCEPT ![s] = IF s \in terminated THEN "interrupted" ELSE "completed"]
  /\ Goto(s, "done")
  /\ UNCHANGED <<processes, registered, ends>>

RecordFailure(s) ==
  /\ wpc[s] = "failed"
  /\ state' = [state EXCEPT ![s] = "start_failed"]
  /\ Goto(s, "done")
  /\ UNCHANGED <<processes, exitCode, registered, ends>>

-----------------------------------------------------------------------------
(* The main thread. *)

\* Mutant: a suite is sent TERM, and again TERM.
EndSuitesPolitely(elapsed) ==
  LET open == {s \in registered : state[s] # "completed"}
      term == open \ terminated
  IN /\ interrupted /\ returned = "no" /\ elapsed \in BOOLEAN
     /\ term # {}
     /\ terminated' = terminated \cup term
     /\ fatal' = fatal \cup {s \in term : s \notin stubborn}
     /\ UNCHANGED <<wpc, suite, kept, stubborn, results, killed, interrupted, returned>>

\* One pass under the lock.  KILL follows TERM once the termination is a second old.
EndSuites(elapsed) ==
  LET open == {s \in registered : state[s] # "completed"}
      term == open \ terminated
      kill == IF elapsed THEN (open \cap terminated) \ killed ELSE {}
  IN /\ interrupted /\ returned = "no" /\ \E s \in Suites : wpc[s] # "done"
     /\ term \cup kill # {}
     /\ terminated' = terminated \cup term
     /\ killed' = killed \cup kill
     /\ fatal' = fatal \cup kill \cup {s \in term : s \notin stubborn}
     /\ UNCHANGED <<wpc, suite, kept, stubborn, results, interrupted, returned>>

AllSucceeded == \A s \in Suites : state[s] = "completed" /\ exitCode[s] = "ok"

Returns ==
  /\ returned = "no" /\ \A s \in Suites : wpc[s] = "done"
  /\ returned' = (IF ~interrupted /\ AllSucceeded THEN "zero" ELSE "one")
  /\ UNCHANGED <<wpc, processes, results, terminated, killed, interrupted>>

Worker(s) ==
  \/ CheckInterrupted(s) \/ Popen(s) \/ Register(s) \/ WaitChild(s)
  \/ RecordEnd(s) \/ RecordFailure(s)

MemNext ==
  \/ Cancel \/ Returns
  \/ \E elapsed \in BOOLEAN : EndSuites(elapsed)
  \/ \E s \in Suites : SuiteExits(s) \/ SuiteForks(s) \/ HelperEnds(s) \/ ReadOutput(s) \/ Worker(s)

\* Threads run on, time passes, and a group that was sent a fatal signal ends.
MemFairness ==
  /\ WF_MemVars(Returns) /\ WF_MemVars(EndSuites(TRUE))
  /\ \A s \in Suites : /\ WF_MemVars(Worker(s)) /\ WF_MemVars(ReadOutput(s) /\ wpc'[s] = "wait")
                       /\ WF_MemVars(SuiteExits(s) /\ s \in fatal)
                       /\ WF_MemVars(HelperEnds(s) /\ s \in fatal)

MemSpec == MemInit /\ [][MemNext]_MemVars /\ MemFairness

-----------------------------------------------------------------------------
(* Properties. *)

(***************************************************************************)
(* A suite that the runner ended is never recorded as completed, whatever  *)
(* its status and however its end races the pass of the main thread; and a *)
(* green run means that every suite exited zero of itself and left no      *)
(* helper behind on its output (run_suites).                               *)
(***************************************************************************)
GreenIsEarned ==
  /\ \A s \in Suites : state[s] = "completed" => s \notin terminated
  /\ returned = "zero" => (\A s \in Suites : suite[s] = "ok") /\ kept = {} /\ terminated = {}

(***************************************************************************)
(* Once it is interrupted the runner returns, also from suites that ignore *)
(* TERM and helpers that hold the pipe: it kills the whole group.          *)
(***************************************************************************)
InterruptEnds == interrupted ~> returned # "no"
=============================================================================
