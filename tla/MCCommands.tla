----------------------------- MODULE MCCommands -----------------------------
(***************************************************************************)
(* The gate of the state commands and the history they work on, for TLC.   *)
(* Each is modelled with only what it needs of the other, so each runs on  *)
(* its own: a behaviour is one of the gate or one of the history, `part`,  *)
(* and the variables of the other keep one initial state. The history      *)
(* stops at its bounds; the gate must always have a step.                  *)
(***************************************************************************)
EXTENDS StateCommands, UndoHistory

CONSTANT Parts
VARIABLE part

CommandsInit == part \in Parts /\ Init /\ UndoInit

AtRest == part = "history" /\ UNCHANGED <<part, vars, undoVars>>

CommandsNext ==
  \/ part = "gate" /\ Next /\ UNCHANGED <<part, undoVars>>
  \/ part = "history" /\ UndoNext /\ UNCHANGED <<part, vars>>
  \/ AtRest

CommandsSpec == CommandsInit /\ [][CommandsNext]_<<part, vars, undoVars>>
=============================================================================
