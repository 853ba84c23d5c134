------------------------------ MODULE MCRunners -----------------------------
(***************************************************************************)
(* The scripts that start other programs and certify what came of it: one  *)
(* command of a diagnosis (Invocation), a whole campaign of them, the      *)
(* collector of the native measurements, the Memcheck runner, the receipt  *)
(* test and the cache of the release tool. Each runs on its own and shares *)
(* no state with the others: a behaviour is a run of one of them,          *)
(* `program`, and the variables of the rest keep one initial state, or are *)
(* off.                                                                    *)
(***************************************************************************)
EXTENDS PluginvalCache, Memcheck, Receipts, Invocation, NativeValidation, Campaign

VARIABLE program

\* NativeValidation: one cell, and one block with its readers, at the least number of
\* repetitions: thirty rows in six groups.
MCCells  == <<"engine">>
MCBlocks == <<"128">>
\* Only the first row varies: enough for a time of its group to change and none of the figures.
MCDurations == [i \in Rows |-> IF i = 1 THEN {1, 2} ELSE {1}]
\* The first row, another of its group from a repetition that runs backwards, a reader's, the last.
MCTroubled == {1, 4, 13, 30}

-----------------------------------------------------------------------------
OffInv ==
  InvInit /\ driver = (CHOOSE d \in Drivers : TRUE) /\ ~observing
          /\ deadline = (CHOOSE b \in Budgets : TRUE)
OffMem == MemInit /\ stubborn = {}
OffRec ==
  ReceiptsInit /\ ~hosted /\ machine.receipts = {}
               /\ \A s \in Suffixes : machine.bundles[s] = NoBundle

OffNv ==
  /\ smoke = "off" /\ lacking = "off" /\ defect = "off" /\ npc = "off"
  /\ memory = "off" /\ saved = "off" /\ child = "off" /\ rawRows = "off" /\ summary = "off"
  /\ altered = "off" /\ signals = "off" /\ measured = "off" /\ abandoned = "off"
  /\ verdict = "off"

OffCam ==
  /\ script = "off" /\ stage = "off" /\ outcomes = <<>> /\ unclean = {}
  /\ pristine = "off" /\ classification = "off" /\ status = "off" /\ disk = "off"
  /\ controlThrew = "off" /\ exit = "off"

OffPv == flaws = {} /\ PvInit

Init ==
  \/ program = "invocation" /\ InvInit /\ OffNv /\ OffCam /\ OffPv /\ OffMem /\ OffRec
  \/ program = "native_validation" /\ NvInit /\ OffInv /\ OffCam /\ OffPv /\ OffMem /\ OffRec
  \/ program = "campaign" /\ CamInit /\ OffInv /\ OffNv /\ OffPv /\ OffMem /\ OffRec
  \/ program = "memcheck" /\ MemInit /\ OffInv /\ OffNv /\ OffCam /\ OffPv /\ OffRec
  \/ program = "receipts" /\ ReceiptsInit /\ OffInv /\ OffNv /\ OffCam /\ OffPv /\ OffMem
  \/ program = "acquire_pluginval" /\ PvInit /\ OffInv /\ OffNv /\ OffCam /\ OffMem /\ OffRec

Next ==
  \/ /\ program = "invocation" /\ InvNext
     /\ UNCHANGED <<program, NvVars, CamVars, MemVars, receiptVars, PvVars>>
  \/ /\ program = "native_validation" /\ NvNext
     /\ UNCHANGED <<program, InvVars, CamVars, MemVars, receiptVars, PvVars>>
  \/ /\ program = "campaign" /\ CamNext
     /\ UNCHANGED <<program, InvVars, NvVars, MemVars, receiptVars, PvVars>>
  \/ /\ program = "memcheck" /\ MemNext
     /\ UNCHANGED <<program, InvVars, NvVars, CamVars, receiptVars, PvVars>>
  \/ /\ program = "receipts" /\ ReceiptsNext
     /\ UNCHANGED <<program, InvVars, NvVars, CamVars, MemVars, PvVars>>
  \/ /\ program = "acquire_pluginval" /\ PvNext
     /\ UNCHANGED <<program, InvVars, NvVars, CamVars, MemVars, receiptVars>>

vars == <<program, InvVars, NvVars, CamVars, MemVars, receiptVars, PvVars>>

\* Only the Memcheck runner has a liveness property, so only its steps are fair.
Spec == Init /\ [][Next]_vars /\ (program = "memcheck" => MemFairness)

=============================================================================
