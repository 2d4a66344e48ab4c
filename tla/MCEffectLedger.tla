---------------------------- MODULE MCEffectLedger -----------------------------
(* Small instance of EffectLedger: the effects and details are model values. *)
EXTENDS EffectLedger, TLC

Symmetry == Permutations(Effects) \cup Permutations(Reasons)
================================================================================
