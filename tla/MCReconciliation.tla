---------------------------- MODULE MCReconciliation ---------------------------
(* Small instance of Reconciliation: an effect with two rival proposals.    *)
EXTENDS Reconciliation, TLC

CONSTANTS e1, a1, a2

OneEffect == a1 :> e1 @@ a2 :> e1
================================================================================
