------------------------------ MODULE MCRisorse ------------------------------
(* Three starts: one that is ending, one that begins meanwhile, one after.   *)
EXTENDS Risorse, TLC

Simmetria == Permutations(Avvii)
=============================================================================
