---------------------------- MODULE MCOwnerLifecycle ----------------------------
(***************************************************************************)
(* Instances of OwnerLifecycle for TLC.                                    *)
(***************************************************************************)
EXTENDS OwnerLifecycle

CONSTANTS d1, d2, recovery, p1, p2

\* Two Dispatchers in two processes, the offline recovery owner beside the second.
TwoProcesses == [r \in Runtimes |-> IF r = d1 THEN p1 ELSE p2]
================================================================================
