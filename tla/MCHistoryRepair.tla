-------------------------- MODULE MCHistoryRepair --------------------------
(***************************************************************************)
(* Instances of HistoryRepair for TLC.                                     *)
(***************************************************************************)
EXTENDS HistoryRepair

CONSTANTS S1, S2   \* two symbols

=============================================================================
