------------------------------- MODULE Campaign -------------------------------
(***************************************************************************)
(* A diagnosis campaign: the main programs of scripts/diagnose-rosetta-    *)
(* {scope,launch,handshake}.py and diagnose-au-teardown.py.  Each goes     *)
(* through a fixed plan of checks, required commands and test targets,     *)
(* classifies what happened, saves its report after every step and ends    *)
(* with a status.  How one command is run and cleaned up is Invocation; a  *)
(* command appears here as the set of facts held against it.  The job may  *)
(* be cancelled anywhere, which leaves the report as last saved.           *)
(***************************************************************************)
EXTENDS Integers, Sequences, FiniteSets

CONSTANTS
  Scripts,      \* the campaigns
  MaxFacts,     \* bound: facts held against one command
  Attempts      \* observations of the AU campaign

ASSUME CampaignAssumption ==
  /\ Scripts \subseteq {"scope", "launch", "handshake", "capture", "completed"}
  /\ MaxFacts \in Nat /\ Attempts \in 1..20

VARIABLES
  script, stage,
  outcomes,        \* history: the outcome of each stage that ran, in order
  unclean,         \* history: stages that left processes or an unknown group behind
  pristine,        \* the binaries and inputs still are what was recorded
  classification, status,
  disk,            \* the status of the report as saved
  controlThrew,    \* AU: an independent control threw as well
  exit

CamVars == <<script, stage, outcomes, unclean, pristine, classification, status, disk,
             controlThrew, exit>>

-----------------------------------------------------------------------------
(* Facts and outcomes. *)

NotOk == {"timed_out", "budget_exhausted", "launch_error", "cleanup", "failed"}

RunFacts == NotOk \cup {"denied", "mismatch", "no_completion", "assertion",
                        "exit_unverified", "aslr", "output_limit", "no_trace"}
FactSets == {F \in SUBSET RunFacts : Cardinality(F) <= MaxFacts}

\* The first of them that holds decides.
FirstOf(order, F, otherwise) ==
  LET held == {i \in DOMAIN order : order[i][1] \cap F # {}}
  IN IF held = {} THEN otherwise
     ELSE order[CHOOSE i \in held : \A j \in held : i <= j][2]

FocusedOutcome(F) ==
  FirstOf(<< <<{"denied"}, "permission_denied">>, <<{"timed_out"}, "timeout">>,
             <<{"launch_error", "budget_exhausted"}, "not_completed">>,
             <<{"mismatch"}, "mismatch_captured">>,
             <<{"no_completion"}, "missing_or_invalid_completion">>,
             <<{"assertion"}, "assertion_failure">>, <<NotOk, "execution_failure">> >>,
          F, "bounded_nonreproduction")

LaunchOutcome(F, debugger) ==
  FirstOf(<< <<{"denied"}, "explicit_denial">>, <<{"timed_out"}, "timeout">>,
             <<{"budget_exhausted"}, "budget_exhausted">>, <<{"launch_error"}, "launch_failure">>,
             <<{"cleanup"}, "cleanup_incomplete">>, <<NotOk, "execution_failure">>,
             <<{"no_completion"}, "missing_completion">>,
             <<IF debugger THEN {"exit_unverified"} ELSE {}, "inferior_exit_unverified">>,
             <<IF debugger THEN {"aslr"} ELSE {}, "ASLR_setting_unverified">> >>,
          F, "complete")

TraceOutcome(F, debugger) ==
  IF "output_limit" \in F THEN "output_budget_exceeded"
  ELSE IF LaunchOutcome(F, debugger) # "complete" THEN LaunchOutcome(F, debugger)
  ELSE IF debugger /\ "no_trace" \in F THEN "logging_unverified"
  ELSE IF "mismatch" \in F THEN "unexpected_scope_output" ELSE "complete"

\* What an observation under the debugger can come to.
Observations == {"observer-error", "observer-timeout", "bad-function-call-throw",
                 "bad-function-call-abort", "other-stop", "inferior-failed",
                 "missing-success", "completed"}

-----------------------------------------------------------------------------
(* The plans.  A stage is a check, a required command, one of the judged   *)
(* targets, or the comparison with what was recorded at the start.         *)

Stage(how, what, fail) == [how |-> how, what |-> what, fail |-> fail]

ScopePlan ==
  << Stage("check", "host", "host_prerequisite_unmet"),
     Stage("check", "source", "source_prerequisite_unmet"),
     Stage("check", "environment", "environment_prerequisite_unmet"),
     Stage("required", "tools", "build_prerequisite_failed"),
     Stage("check", "juce", "source_prerequisite_unmet"),
     Stage("required", "symbols", "build_prerequisite_failed"),
     Stage("required", "rosetta", "execution_prerequisite_unmet"),
     Stage("required", "avx2-compile", "build_prerequisite_failed"),
     Stage("check", "avx2-probe", "build_prerequisite_failed"),
     Stage("required", "avx2-execution", "execution_prerequisite_unmet"),
     Stage("required", "diagnostic-build", "build_prerequisite_failed"),
     Stage("focused", "focused-direct", ""),
     Stage("focused", "focused-debugger", ""),
     Stage("required", "diagnostic-symbols", "build_prerequisite_failed") >>

Controls(how) ==
  << Stage(how, "direct-x86_64", ""), Stage(how, "lldb-arm64", ""), Stage(how, "lldb-x86_64", "") >>

LaunchPlan ==
  << Stage("check", "host", "genuine_disposable_host_prerequisite_unmet"),
     Stage("required", "tools", "tool_or_build_prerequisite_failed"),
     Stage("check", "lldb-options", "selected_lldb_option_missing"),
     Stage("required", "compile", "tool_or_build_prerequisite_failed"),
     Stage("check", "architecture", "thin_architecture_mismatch") >> \o Controls("launch")

HandshakePlan ==
  << Stage("check", "host", "genuine_disposable_host_prerequisite_unmet"),
     Stage("check", "inputs", "input preparation incomplete"),
     Stage("metadata", "tools", "metadata_prerequisite_unmet"),
     Stage("check", "logging", "unsupported launch logging"),
     Stage("metadata", "architecture", "retained architecture/UUID prerequisite rejected") >>
  \o Controls("trace") \o << Stage("unchanged", "inputs", "retained input hash mismatch") >>

\* With both independent controls given.
AuPlan ==
  << Stage("canary", "canary", ""), Stage("disarmed", "pending-disarmed", ""),
     Stage("control", "listener", ""), Stage("control", "component", ""),
     Stage("control", "entry", ""), Stage("control", "drained", ""), Stage("control", "queued", "") >>
  \o [i \in 1..Attempts |-> Stage("attempt", "pass", "")]

Plan == CASE script = "scope" -> ScopePlan [] script = "launch" -> LaunchPlan
          [] script = "handshake" -> HandshakePlan [] OTHER -> AuPlan

Running == exit = "running" /\ stage <= Len(Plan)
At(how) == Running /\ Plan[stage].how = how
Rosetta == script \in {"scope", "launch", "handshake"}

CamInit ==
  /\ script \in Scripts /\ stage = 1
  /\ outcomes = <<>> /\ unclean = {} /\ pristine = TRUE
  /\ classification = "incomplete" /\ status = "in_progress" /\ disk = "in_progress"
  /\ controlThrew = FALSE /\ exit = "running"

Record(outcome, F) ==
  /\ outcomes' = Append(outcomes, outcome)
  /\ unclean' = IF "cleanup" \in F THEN unclean \cup {stage} ELSE unclean

Proceed == stage' = stage + 1 /\ UNCHANGED <<classification, exit>>

\* An exception: nothing more runs; the closing block classifies and saves.
Raise(why) == stage' = Len(Plan) + 1 /\ classification' = why /\ UNCHANGED exit

-----------------------------------------------------------------------------
(* The stages. *)

\* A stage may also fail in a way nobody named.
StageFails ==
  /\ Running /\ Rosetta
  /\ outcomes' = Append(outcomes, "error")
  /\ Raise("infrastructure_or_orchestration_failure")
  /\ UNCHANGED <<script, unclean, pristine, status, disk, controlThrew>>

Check ==
  /\ At("check")
  /\ \/ outcomes' = Append(outcomes, "ok") /\ Proceed
     \/ outcomes' = Append(outcomes, "unmet") /\ Raise(Plan[stage].fail)
  /\ UNCHANGED <<script, unclean, pristine, status, disk, controlThrew>>

\* required(): process_ok, for the handshake driver within its output limit.
Required ==
  /\ At("required") \/ At("metadata")
  /\ \E F \in FactSets :
       LET bad == F \cap NotOk # {} \/ (At("metadata") /\ "output_limit" \in F)
       IN /\ Record(IF bad THEN "failed" ELSE "ok", F)
          /\ IF bad THEN Raise(Plan[stage].fail) ELSE Proceed
  /\ UNCHANGED <<script, pristine, status, disk, controlThrew>>

\* Mutant: only a denial withholds the debugger.
FocusedCareless ==
  /\ At("focused")
  /\ \E F \in FactSets :
       /\ Record(FocusedOutcome(F), F)
       /\ IF Plan[stage].what = "focused-direct" /\ FocusedOutcome(F) = "permission_denied"
          THEN Raise("execution_permission_denied")
          ELSE Proceed
  /\ UNCHANGED <<script, pristine, status, disk, controlThrew>>

\* focused_flow(): a denial is not worked around, an incomplete cleanup withholds the
\* debugger; any other outcome of the direct run does not.
Focused ==
  /\ At("focused")
  /\ \E F \in FactSets :
       /\ Record(FocusedOutcome(F), F)
       /\ IF Plan[stage].what = "focused-direct" /\ FocusedOutcome(F) = "permission_denied"
          THEN Raise("execution_permission_denied")
          ELSE IF Plan[stage].what = "focused-direct" /\ "cleanup" \in F
          THEN Raise("cleanup_incomplete")
          ELSE Proceed
  /\ UNCHANGED <<script, pristine, status, disk, controlThrew>>

\* controls() and traced_controls(): the first incomplete one withholds the rest.
Control ==
  /\ At("launch") \/ At("trace")
  /\ \E F \in FactSets :
       LET debugger == Plan[stage].what # "direct-x86_64"
           outcome  == IF At("trace") THEN TraceOutcome(F, debugger) ELSE LaunchOutcome(F, debugger)
       IN /\ Record(outcome, F)
          /\ IF outcome = "complete" THEN Proceed
             ELSE /\ classification' = outcome
                  /\ stage' = Len(Plan) + 1
                  /\ UNCHANGED exit
  /\ UNCHANGED <<script, pristine, status, disk, controlThrew>>

Unchanged ==
  /\ At("unchanged")
  /\ outcomes' = Append(outcomes, IF pristine THEN "ok" ELSE "changed")
  /\ IF pristine THEN Proceed ELSE Raise(Plan[stage].fail)
  /\ UNCHANGED <<script, unclean, pristine, status, disk, controlThrew>>

\* Something else replaces the bytes that were recorded.
Tamper ==
  /\ exit = "running" /\ pristine /\ status = "in_progress"
  /\ stage > IF script = "scope" THEN 4 ELSE 2
  /\ pristine' = FALSE
  /\ UNCHANGED <<script, stage, outcomes, unclean, classification, status, disk, controlThrew,
                 exit>>

-----------------------------------------------------------------------------
(* The AU campaign: the debugger must catch a known throw and the disarmed *)
(* control must fail, or nothing it sees later means anything.             *)

Exit(code) == exit' = code /\ UNCHANGED <<stage, classification>>

Canary ==
  /\ At("canary") \/ At("disarmed")
  /\ \E o \in Observations :
       /\ outcomes' = Append(outcomes, o)
       /\ IF o = (IF At("canary") THEN "bad-function-call-throw" ELSE "inferior-failed")
          THEN Proceed ELSE Exit("assertion")
  /\ UNCHANGED <<script, unclean, pristine, status, disk, controlThrew>>

AppleControl ==
  /\ At("control")
  /\ \E o \in Observations :
       /\ outcomes' = Append(outcomes, o)
       /\ controlThrew' = (controlThrew \/ o = "bad-function-call-throw")
       /\ IF o \in {"completed", "bad-function-call-throw"} THEN Proceed ELSE Exit("2")
  /\ UNCHANGED <<script, unclean, pristine, status, disk>>

\* The deadline of the campaign ends it between two attempts.
Attempt ==
  /\ At("attempt")
  /\ \/ \E o \in Observations :
          /\ outcomes' = Append(outcomes, o)
          /\ CASE o = "bad-function-call-throw" -> Exit(IF script = "capture" THEN "0" ELSE "1")
               [] o = "completed" -> Proceed
               [] OTHER -> Exit("2")
     \/ stage' = Len(Plan) + 1 /\ UNCHANGED <<outcomes, classification, exit>>
  /\ UNCHANGED <<script, unclean, pristine, status, disk, controlThrew>>

AuEnds ==
  /\ ~Rosetta /\ exit = "running" /\ stage > Len(Plan)
  /\ exit' = (IF script = "completed" /\ Len(outcomes) = Len(Plan)
              THEN (IF controlThrew THEN "1" ELSE "0") ELSE "3")
  /\ UNCHANGED <<script, stage, outcomes, unclean, pristine, classification, status, disk,
                 controlThrew>>

-----------------------------------------------------------------------------
(* The closing blocks. *)

Done(i) == i <= Len(outcomes) /\ outcomes[i] \in {"ok", "complete", "bounded_nonreproduction"}

\* No exception, and the runs that decide succeeded: both focused ones, or the last control.
PlanSucceeded ==
  /\ classification = "incomplete"
  /\ IF script = "scope" THEN Done(12) /\ Done(13) /\ pristine ELSE Done(Len(Plan))

Conclude ==
  /\ Rosetta /\ exit = "running" /\ stage > Len(Plan) /\ status = "in_progress"
  /\ status' = (IF PlanSucceeded THEN "complete" ELSE "incomplete")
  /\ classification' = (IF script = "scope" /\ ~pristine THEN "ordinary_binary_changed"
                        ELSE IF classification # "incomplete" THEN classification
                        ELSE IF PlanSucceeded THEN "complete" ELSE "focused_incomplete_or_failure")
  /\ UNCHANGED <<script, stage, outcomes, unclean, pristine, disk, controlThrew, exit>>

\* save(), at the end; and save() after a stage, which writes the status as it is.
SaveReport ==
  /\ Rosetta /\ exit = "running"
  /\ disk' = status
  /\ exit' = (IF status = "in_progress" THEN exit ELSE IF status = "complete" THEN "0" ELSE "1")
  /\ status # disk
  /\ UNCHANGED <<script, stage, outcomes, unclean, pristine, classification, status, controlThrew>>

Cancelled ==
  /\ exit = "running"
  /\ exit' = "killed"
  /\ UNCHANGED <<script, stage, outcomes, unclean, pristine, classification, status, disk,
                 controlThrew>>

CamNext ==
  \/ StageFails \/ Check \/ Required \/ Focused \/ Control \/ Unchanged \/ Tamper
  \/ Canary \/ AppleControl \/ Attempt \/ AuEnds
  \/ Conclude \/ SaveReport \/ Cancelled

CamSpec == CamInit /\ [][CamNext]_CamVars

-----------------------------------------------------------------------------
(* Properties. *)

Targets == {"rosetta", "avx2-execution", "focused-direct", "focused-debugger",
            "direct-x86_64", "lldb-arm64", "lldb-x86_64"}

(***************************************************************************)
(* A report that says complete, and an exit code of zero, were earned:     *)
(* every stage of the plan ran in order and succeeded, the recorded bytes  *)
(* were compared after the last target, and of the AU campaign either the  *)
(* throw was captured with a debugger known to work, or every attempt      *)
(* completed and no control threw.                                         *)
(***************************************************************************)
CompletionEarned ==
  /\ disk = "complete" \/ (Rosetta /\ exit = "0") =>
       /\ Len(outcomes) = Len(Plan)
       /\ \A i \in DOMAIN outcomes : Done(i)
       /\ script = "scope" => pristine
       /\ unclean = {}
  /\ script = "capture" /\ exit = "0" =>
       outcomes[1] = "bad-function-call-throw" /\ outcomes[2] = "inferior-failed"
  /\ script = "completed" /\ exit = "0" =>
       /\ Len(outcomes) = Len(Plan)
       /\ \A i \in 3..Len(Plan) : i \in DOMAIN outcomes => outcomes[i] = "completed"

(***************************************************************************)
(* Once a command left something behind, no further target is started on   *)
(* that machine (the cleanup checks of focused_flow and of controls).      *)
(***************************************************************************)
CleanupWithholds ==
  \A i \in unclean : \A j \in DOMAIN outcomes :
    j > i => Plan[j].what \notin Targets

(***************************************************************************)
(* A campaign that reports itself complete went through its whole plan     *)
(* with success, and starts no target after a command that left something  *)
(* behind (main() of the four campaigns).                                  *)
(***************************************************************************)
CampaignHolds == CompletionEarned /\ CleanupWithholds
=============================================================================
