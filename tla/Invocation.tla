------------------------------ MODULE Invocation ------------------------------
(***************************************************************************)
(* One command run by a diagnosis driver on a machine that is not its own: *)
(* scripts/diagnose-rosetta-{scope,launch,handshake}.py start it as the    *)
(* leader of a new process group, wait within a budget, look at whom it    *)
(* owns, and clean its group up before a fixed deadline.                   *)
(*                                                                         *)
(* The command may exit, hang, fork a helper, and the helper may leave the *)
(* group or ignore SIGTERM.  Process ids are not reused while it runs.     *)
(* Time counts twentieths of a second: a blocking call that succeeds       *)
(* returns at once, one that fails takes all it is given, and only an      *)
(* identity census can overrun.                                            *)
(***************************************************************************)
EXTENDS Integers

CONSTANTS
  Drivers,     \* which of the three scripts run the command
  Caps,        \* execution time they allow it
  Budgets,     \* time left until the driver's own deadline
  Overrun      \* bound: how late a census may come back

ASSUME InvocationAssumption ==
  /\ Drivers \subseteq {"scope", "launch", "handshake"}
  /\ Caps \subseteq Nat /\ Budgets \subseteq Nat /\ Overrun \in Nat

VARIABLES
  driver, observing,   \* the script; does it take identity censuses (controls only)
  leader, code,        \* the command itself, and how it ended
  helper, deaf,        \* what it forked, and who ignores SIGTERM
  doomed,              \* who was sent a signal that will end it
  now, ipc,
  executionEnd, cleanupEnd, deadline, termStarted,
  seen,                \* the last look at the group
  known,               \* the helper's identity has been recorded
  confirmed,           \* child_reaped
  faults               \* what the result holds against the command

process == <<leader, code, helper, deaf, doomed>>
times   == <<executionEnd, cleanupEnd, deadline, termStarted>>
InvVars == <<driver, observing, process, now, ipc, times, seen, known, confirmed, faults>>

Lesser(a, b)  == IF a < b THEN a ELSE b
AtLeastZero(n) == IF n < 0 THEN 0 ELSE n

CleanupSeconds == 120

InvInit ==
  /\ driver \in Drivers /\ observing \in BOOLEAN /\ (driver = "scope" => ~observing)
  /\ leader = "none" /\ code = "none" /\ helper = "none" /\ deaf = {} /\ doomed = {}
  /\ now = 0 /\ ipc = "begin"
  /\ executionEnd = 0 /\ cleanupEnd = 0 /\ termStarted = 0 /\ deadline \in Budgets
  /\ seen = "unknown" /\ known = FALSE /\ confirmed = FALSE /\ faults = {}

-----------------------------------------------------------------------------
(* The machine. *)

\* A zombie is listed with its group until it is reaped.
GroupMembers == (IF leader \in {"running", "zombie"} THEN {"leader"} ELSE {})
           \cup (IF helper = "grouped" THEN {"helper"} ELSE {})

\* A backend is a helper that has left and whose program is called debugserver.
HelperLives == helper \in {"grouped", "escaped", "backend"}

Machine(p) == p /\ UNCHANGED <<driver, observing, now, ipc, times, seen, known, confirmed, faults>>

\* failed: with another status, or by the signal.  Whoever is doomed does nothing else.
Exits ==
  Machine(/\ leader = "running"
          /\ leader' = "zombie"
          /\ code' \in IF "leader" \in doomed THEN {"failed"} ELSE {"zero", "failed"}
          /\ UNCHANGED <<helper, deaf, doomed>>)

Forks ==
  Machine(/\ leader = "running" /\ "leader" \notin doomed /\ helper = "none"
          /\ helper' = "grouped"
          /\ UNCHANGED <<leader, code, deaf, doomed>>)

HelperLeaves ==
  Machine(/\ HelperLives
          /\ helper' \in IF helper = "grouped" /\ "helper" \notin doomed
                         THEN {"gone", "escaped", "backend"} ELSE {"gone"}
          /\ UNCHANGED <<leader, code, deaf, doomed>>)

-----------------------------------------------------------------------------
(* Identity: owned_rows() and the launch driver's observe(). *)

\* By group, by descent from a living parent, or by an identity seen before.
OwnedRows == GroupMembers \cup (IF HelperLives /\ (leader = "running" \/ known) THEN {"helper"} ELSE {})

\* A look is complete, fails, or ends at its deadline or after it.  What was parsed
\* stays known either way.  In the last one every owned identity is held against the
\* command, by the handshake driver also a backend that nobody owns.
Census(end, next) ==
  \E late \in {0, AtLeastZero(end - now) + (IF driver = "handshake" THEN Overrun ELSE 0)},
     outcome \in {"complete", "failed"} :
    LET expired    == now + late >= end
        incomplete == outcome = "failed" \/ (IF driver = "handshake" THEN expired ELSE end <= now)
        remain     == IF driver = "handshake" /\ helper = "backend" THEN OwnedRows \cup {"helper"} ELSE OwnedRows
    IN /\ now' = now + late
       /\ known' = (known \/ (outcome = "complete" /\ "helper" \in OwnedRows))
       /\ faults' = faults \cup (IF incomplete THEN {"inspection"} ELSE {})
                           \cup (IF next = "done" /\ (incomplete \/ remain # {} \/ "inspection" \in faults)
                                 THEN {"cleanup_error"} ELSE {})
       /\ ipc' = next
       /\ UNCHANGED <<driver, observing, process, times, seen, confirmed>>

CensusEnd == IF driver = "handshake" THEN Lesser(deadline, now + 7) ELSE Lesser(deadline - 1, now + 10)

-----------------------------------------------------------------------------
(* The command: command(), run() and run(). *)

Begin ==
  /\ ipc = "begin"
  /\ \E cap \in Caps :
       LET limit == Lesser(cap, AtLeastZero(deadline - now - CleanupSeconds))
       IN /\ executionEnd' = now + limit
          /\ cleanupEnd' = Lesser(deadline, now + limit + CleanupSeconds)
          /\ \/ limit <= 0 /\ faults' = {"budget_exhausted"} /\ ipc' = "done"
                /\ UNCHANGED <<leader, deaf>>
             \/ limit > 0 /\ faults' = {"launch_error"} /\ ipc' = "done"
                /\ UNCHANGED <<leader, deaf>>
             \/ limit > 0 /\ leader' = "running" /\ deaf' \in {{}, {"leader", "helper"}}
                /\ ipc' = (IF observing THEN "spawned" ELSE "wait")
                /\ UNCHANGED faults
  /\ UNCHANGED <<driver, observing, code, helper, doomed, now, deadline, termStarted, seen, known,
                 confirmed>>

AfterSpawn ==
  /\ ipc = "spawned"
  /\ Census(IF driver = "handshake" THEN Lesser(executionEnd, CensusEnd) ELSE CensusEnd, "wait")

\* However the wait ended, the handshake driver looks once more before it ends the
\* command, unless time is up, a census failed, or it has just looked.
AfterWait(at) ==
  IF driver = "handshake" /\ observing /\ "inspection" \notin faults /\ at < executionEnd
  THEN {"before"} \cup (IF executionEnd - at <= 8 THEN {"initial"} ELSE {})
  ELSE {"initial"}

\* The child has exited: the wait or the poll reaps it.
WaitEnds ==
  /\ ipc = "wait" /\ leader = "zombie"
  /\ leader' = "reaped"
  /\ now' \in {now} \cup (IF now < executionEnd THEN {executionEnd} ELSE {})
  /\ ipc' \in AfterWait(now')
  /\ UNCHANGED <<driver, observing, code, helper, deaf, doomed, times, seen, known, confirmed,
                 faults>>

\* The time is up, or the wait itself failed.
WaitFails ==
  /\ ipc = "wait" /\ leader # "reaped"
  /\ now' \in {now} \cup (IF leader = "running" /\ now < executionEnd THEN {executionEnd} ELSE {})
  /\ faults' = faults \cup {"timed_out"}   \* or execution_wait_error
  /\ ipc' \in AfterWait(now')
  /\ UNCHANGED <<driver, observing, process, times, seen, known, confirmed>>

\* Another look while it runs, and the handshake driver's last one before it ends it.
LookAgain ==
  /\ ipc = "wait" /\ observing /\ leader = "running" /\ now < executionEnd
  /\ driver = "handshake" => "inspection" \notin faults
  /\ Census(IF driver = "handshake" THEN Lesser(executionEnd, CensusEnd) ELSE CensusEnd, "wait")

BeforeTermination == ipc = "before" /\ Census(Lesser(executionEnd, CensusEnd), "initial")

\* Only the handshake driver gives up early: a census failed, the output is too
\* long, or it denies the launch.
GivesUp ==
  /\ ipc = "wait" /\ driver = "handshake"
  /\ \/ "inspection" \in faults /\ UNCHANGED faults
     \/ faults' = faults \cup {"gave_up"}
  /\ ipc' \in AfterWait(now)
  /\ UNCHANGED <<driver, observing, process, now, times, seen, known, confirmed>>

-----------------------------------------------------------------------------
(* cleanup_process(). *)

Remaining(reserve) == AtLeastZero(cleanupEnd - now - reserve)

\* Failing to look leaves the group's state unknown and is an error; it stops nothing.
Observe(at, reserve, next) ==
  LET limit == Lesser(20, Remaining(reserve))
  IN /\ ipc = at
     /\ \/ /\ limit > 0
           /\ now' = now
           /\ seen' = (IF GroupMembers = {} THEN "empty" ELSE "members")
           /\ UNCHANGED faults
        \/ /\ now' = now + limit
           /\ seen' = "unknown"
           /\ faults' = faults \cup {"cleanup_error"}
     /\ ipc' = next
     /\ UNCHANGED <<driver, observing, process, times, known, confirmed>>

\* killpg; an empty group has disappeared, which is no error.
Send(at, who, next) ==
  /\ ipc = at
  /\ \/ doomed' = doomed \cup who /\ UNCHANGED faults
     \/ GroupMembers # {} /\ faults' = faults \cup {"refused", "cleanup_error"} /\ UNCHANGED doomed
  /\ ipc' = next
  /\ termStarted' = (IF at = "term" THEN now ELSE termStarted)
  /\ UNCHANGED <<driver, observing, leader, code, helper, deaf, now, executionEnd, cleanupEnd,
                 deadline,
                 seen, known, confirmed>>

Reap(at, cap, reserve, next) ==
  LET limit == Lesser(cap, Remaining(reserve))
  IN /\ ipc = at
     /\ \/ /\ leader \in {"zombie", "reaped"}
           /\ leader' = "reaped" /\ confirmed' = TRUE
           /\ now' = now
           /\ UNCHANGED faults
        \/ /\ leader = "running"
           /\ now' = now + limit
           /\ UNCHANGED <<leader, confirmed, faults>>
        \/ /\ now' = now
           /\ faults' = faults \cup {"cleanup_error"}
           /\ UNCHANGED <<leader, confirmed>>
     /\ ipc' = next
     /\ UNCHANGED <<driver, observing, code, helper, deaf, doomed, times, seen, known>>

Initial    == Observe("initial", 80, "term")
Term       == Send("term", GroupMembers \ deaf, "after_term_reap")
ReapTermed == Reap("after_term_reap", 40, 40, IF seen = "empty" THEN "after_term" ELSE "grace")

\* Reaping a wrapper is no grace period for its children.
Grace ==
  /\ ipc = "grace"
  /\ now' = now + Lesser(AtLeastZero(40 - (now - termStarted)), Remaining(40))
  /\ ipc' = "after_term"
  /\ UNCHANGED <<driver, observing, process, times, seen, known, confirmed, faults>>

AfterTerm == Observe("after_term", 20, "killing")

\* Mutant: an exited command needs no KILL.
KillOnlyUnreaped ==
  IF ~confirmed
  THEN Send("killing", GroupMembers, "after_kill_reap")
  ELSE /\ ipc = "killing" /\ ipc' = "final"
       /\ UNCHANGED <<driver, observing, process, now, times, seen, known, confirmed, faults>>

Kill ==
  IF ~confirmed \/ seen # "empty"
  THEN Send("killing", GroupMembers, "after_kill_reap")
  ELSE /\ ipc = "killing" /\ ipc' = "final"
       /\ UNCHANGED <<driver, observing, process, now, times, seen, known, confirmed, faults>>

ReapKilled == Reap("after_kill_reap", 20, 4, "final")
Final      == Observe("final", 1, "report")

\* The final poll may still reap; the reaping must have been confirmed before it.
Report ==
  /\ ipc = "report"
  /\ leader' = (IF leader = "zombie" THEN "reaped" ELSE leader)
  /\ faults' = faults \cup (IF ~confirmed \/ seen # "empty" THEN {"cleanup_error"} ELSE {})
  /\ ipc' = (IF observing THEN "after_cleanup" ELSE "done")
  /\ UNCHANGED <<driver, observing, code, helper, deaf, doomed, now, times, seen, known, confirmed>>

AfterCleanup == ipc = "after_cleanup" /\ Census(CensusEnd, "done")

InvNext ==
  \/ Exits \/ Forks \/ HelperLeaves
  \/ Begin \/ AfterSpawn \/ WaitEnds \/ WaitFails \/ LookAgain \/ BeforeTermination \/ GivesUp
  \/ Initial \/ Term \/ ReapTermed \/ Grace \/ AfterTerm \/ Kill \/ ReapKilled \/ Final
  \/ Report \/ AfterCleanup

InvSpec == InvInit /\ [][InvNext]_InvVars

-----------------------------------------------------------------------------
(* Properties. *)

\* process_ok(): exit zero alone does not certify a command.
ProcessOk == ipc = "done" /\ leader = "reaped" /\ code = "zero"
             /\ faults \subseteq {"inspection", "gave_up"}

(***************************************************************************)
(* A command that process_ok accepts has left nothing behind, now or later *)
(* (cleanup_process, the last census of run()): its group is empty, and no *)
(* process that a census had recorded, nor, for the handshake driver, any  *)
(* debugserver, still lives outside the group.                             *)
(***************************************************************************)
CleanMeansGone ==
  ProcessOk => /\ GroupMembers = {}
               /\ observing /\ known => ~HelperLives
               /\ observing /\ driver = "handshake" => helper # "backend"

(***************************************************************************)
(* The deadline is one: however the stages share it, the cleanup ends by   *)
(* it, and if no census overran, the KILL can still be waited for and the  *)
(* group looked at once more (the reserves of cleanup_process).            *)
(***************************************************************************)
LastLookAfforded ==
  Overrun < 80 => /\ ipc = "final" => Remaining(1) > 0
                  /\ ipc \in {"final", "report"} => now <= cleanupEnd

(***************************************************************************)
(* Whatever the command ignores or forks, and however its wrapper ends:    *)
(* when the cleanup takes its last look, each process that is still in the *)
(* group was sent a signal that ends it (TERM, grace, KILL), unless the    *)
(* system refused one.                                                     *)
(***************************************************************************)
GroupEnds ==
  ipc \in {"final", "report", "after_cleanup", "done"} /\ "refused" \notin faults => GroupMembers \subseteq doomed

(***************************************************************************)
(* A command that a driver certifies left no process behind: whatever it   *)
(* ignored or forked, every process of its group was sent a signal that    *)
(* ends it, and however the stages of the cleanup share their time the     *)
(* last look at the group has some (command(), run(), cleanup_process()).  *)
(***************************************************************************)
NothingLeft == CleanMeansGone /\ GroupEnds /\ LastLookAfforded
=============================================================================
