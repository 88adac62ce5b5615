----------------------- MODULE MCWaitForControlledPods -----------------------
(***************************************************************************)
(* Instances of WaitForControlledPods for TLC.                             *)
(***************************************************************************)
EXTENDS WaitForControlledPods

CONSTANTS k1, k2

MCKeys == <<k1, k2>>

=============================================================================
