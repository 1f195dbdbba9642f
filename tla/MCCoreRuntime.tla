--------------------------- MODULE MCCoreRuntime ---------------------------
(***************************************************************************)
(* Instances of CoreRuntime for TLC.                                       *)
(***************************************************************************)
EXTENDS CoreRuntime

CONSTANTS T1, T2   \* two tabs

=============================================================================
