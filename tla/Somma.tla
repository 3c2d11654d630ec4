-------------------------------- MODULE Somma --------------------------------
(***************************************************************************)
(* The sum of a function of naturals over a finite domain, as the number   *)
(* of its units: f counts the pairs <<x, k>> with k in 1..f[x].  The       *)
(* folds of the community modules compute the same number, but nothing can *)
(* be proved of a fold here without induction; a cardinality comes with    *)
(* the facts of FiniteSetTheorems, and SommaProofs derives from them what  *)
(* happens to the sum when one place of the function changes.              *)
(***************************************************************************)
EXTENDS Integers, FiniteSets

Unita(f) == UNION {{<<x, k>> : k \in 1 .. f[x]} : x \in DOMAIN f}

Somma(f) == Cardinality(Unita(f))

=============================================================================
