-------------------------- MODULE MCRestoreHandoff --------------------------
(***************************************************************************)
(* The hand-off of a session for TLC, and what the ticks of the message    *)
(* thread still owe after one: the gate of the state commands with one     *)
(* restore. Each runs on its own, `part`; the variables of the other keep  *)
(* one initial state. Both are fair here, and both have something that     *)
(* must happen in the end.                                                 *)
(***************************************************************************)
EXTENDS RestoreHandoff

CONSTANTS Parts, Kinds, MaxCommands, MaxRestores, MaxSaves, MaxMoves, MaxPumps

VARIABLES
  part,
  kind, ran, interrupting, gateEdits, moves, pumps, saves, stack, deferredCommands, queued,
  spawned, produced, deferredSinkRefused, gateHost, announced, gateCell, gateGeneration,
  restoredLive, latencyUpdateRequest, stale, apc

Gate == INSTANCE StateCommands WITH
  edits <- gateEdits, hpc <- gateHost, pendingRestore <- gateCell,
  adoptedGeneration <- gateGeneration

gateVars ==
  <<kind, ran, interrupting, gateEdits, moves, pumps, saves, stack, deferredCommands, queued,
    spawned, produced, deferredSinkRefused, gateHost, announced, gateCell, gateGeneration,
    restoredLive, latencyUpdateRequest, stale, apc>>

SessionInit == part \in Parts /\ Init /\ Gate!Init

SessionNext ==
  \/ part = "handoff" /\ Next /\ UNCHANGED <<part, gateVars>>
  \/ part = "gate" /\ Gate!Next /\ UNCHANGED <<part, vars>>

\* The fairness of each module, for the part that runs.
SessionFairness ==
  /\ WF_vars(part = "handoff" /\ HostStep) /\ WF_vars(part = "handoff" /\ MessageStep)
  /\ SF_vars(part = "handoff" /\ Enter("tick"))
  /\ SF_vars(part = "handoff" /\ userTransaction /\ Transaction)
  /\ WF_gateVars(part = "gate" /\ Gate!Resume) /\ WF_gateVars(part = "gate" /\ Gate!HostUnlock)
  /\ WF_gateVars(part = "gate" /\ Gate!HandOver)
  /\ WF_gateVars(part = "gate" /\ Gate!RequestLatencyUpdate)
  /\ SF_gateVars(part = "gate" /\ stack = <<>> /\ Gate!Tick)

SessionSpec == SessionInit /\ [][SessionNext]_<<part, vars, gateVars>> /\ SessionFairness

(***************************************************************************)
(* What is put off, a command or a report of the latency, is done in the   *)
(* end by the ticks alone (timerCallback(), flushDeferredCommands(),       *)
(* flushPendingLatency()).                                                 *)
(***************************************************************************)
PutOffIsDone == Gate!PutOffIsDone
=============================================================================
