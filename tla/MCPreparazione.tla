---------------------------- MODULE MCPreparazione ----------------------------
(* config.txt as it is, with two lines added before the last: one whose map  *)
(* is small enough to follow, with two ports beyond the corners, and one     *)
(* with fewer ports than corners.  Line 1 has names, 6 is empty, 7 a title;  *)
(* the last has no newline.  On a map of side seven a pid that is a multiple *)
(* of seven draws every point in the first square, another all over the map, *)
(* and the search for the nearest port reads one place past the ports.       *)
EXTENDS Preparazione, SequencesExt

Ultima == 14
Riga(r, tipo, n) == [m \in 1 .. n |-> [tipo |-> tipo, riga |-> r]]

MCRiga(r) ==
  CASE r = 1 -> Riga(r, "parola", 13)
    [] r = 6 -> <<>>
    [] r = 7 -> Riga(r, "parola", 2)
    [] OTHER -> Riga(r, "numero", 13)

MCFile ==
  FlattenSeq([r \in 1 .. Ultima |->
    MCRiga(r) \o (IF r < Ultima THEN Riga(r, "a capo", 1) ELSE <<>>)])

MCArgomenti == 0 .. Ultima - 1

NPM(n, p, m) == [NAVI |-> n, PORTI |-> p, MERCI |-> m]
MCValori ==
  2 :> NPM(1000, 100, 1) @@ 3 :> NPM(1000, 100, 10) @@ 4 :> NPM(10, 1000, 100)
  @@ 5 :> NPM(100, 5, 10) @@ 8 :> NPM(100, 10, 10) @@ 9 :> NPM(10, 10, 5)
  @@ 10 :> NPM(20, 10, 5) @@ 11 :> NPM(25, 10, 10)
  @@ 12 :> NPM(2, 6, 2) @@ 13 :> NPM(2, 3, 5) @@ 14 :> NPM(20, 10, 5)

\* The file and its lines are among those the theorems speak of.
ASSUME MCFileOrdinato == Co!FileOrdinato
ASSUME MCRigheCapienti == \A riga \in DOMAIN Valori : Me!Capiente(Valori[riga])
ASSUME MCPortiInVista == Valori[RigaMappa].PORTI <= SO_LATO
=============================================================================
