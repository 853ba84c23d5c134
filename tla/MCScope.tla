------------------------------ MODULE MCScope ------------------------------
(***************************************************************************)
(* The ring and the two displays for TLC. The displays read the ring by    *)
(* whole windows, which is what the ring is shown to give them, so each    *)
(* runs on its own: a behaviour is one of the ring or one of the displays, *)
(* `part`, and the variables of the other keep one initial state.          *)
(*                                                                         *)
(* The ring has a few slots, blocks shorter than, as long as and longer    *)
(* than it, and enough frames to come round it several times. The displays *)
(* have one window shorter than the history and blocks that can fill it    *)
(* and, in displays_grow, a window that grows with the persistence.        *)
(***************************************************************************)
EXTENDS ScopeBuffer, ScopeDisplays

CONSTANT Parts
VARIABLE part

OneWindow == CHOOSE n \in WindowSizes : TRUE

ScopeInit ==
  /\ part \in Parts
  /\ Init /\ DisplaysInit
  /\ part = "ring" => windowFrames = OneWindow

ScopeNext ==
  \/ part = "ring" /\ Next /\ UNCHANGED <<part, displayVars>>
  \/ part = "displays" /\ DisplaysNext /\ UNCHANGED <<part, vars>>

\* Only the displays have a liveness property, so only their steps are fair.
ScopeSpec ==
  /\ ScopeInit /\ [][ScopeNext]_<<part, vars, displayVars>>
  /\ part = "displays" => DisplaysFairness
============================================================================
