------------------------------- MODULE MCEquita -------------------------------
(* Two ships that trade one good between two ports, the second with a single  *)
(* berth, under SpecEqua.  No symmetry: the properties are temporal.          *)
EXTENDS NaveProprieta, Estrazioni, TLC

\* Port 1 asks for two lots; port 0 offers two, or asks for two as well.
MCMercati == {<<<<2>>, <<-2>>>>, <<<<-2>>, <<-2>>>>}
MCMatrici == {[p \in Porti |-> [g \in Merci |-> m[p+1][g+1]]] : m \in MCMercati}
MCLotto == [g \in Merci |-> [val |-> 1, exp |-> 1]]

ASSUME MCEstrazioni ==
  /\ MCLotto \in LottiPossibili(Merci, 0, 1, 2)
  /\ \A m \in MCMatrici, p \in Porti : RigaPossibile(m[p], MCLotto, 2)
MCViaggio == [p \in Porti |-> [q \in Porti |-> IF p = q THEN 0 ELSE 1]]
MCBanchine == [p \in Porti |-> IF p = 0 THEN 2 ELSE 1]
=============================================================================
