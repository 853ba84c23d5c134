---------------------------- MODULE MCBulkSwap ----------------------------
(***************************************************************************)
(* Instances of BulkSwap for TLC.  The parameters: the oversampling choice *)
(* (discrete, decides the latency) and a continuous one.                   *)
(***************************************************************************)
EXTENDS BulkSwap

CONSTANTS os, width
===========================================================================
