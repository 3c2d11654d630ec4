------------------------------ MODULE MCTrePorti ------------------------------
(* Two ships, three ports, one good: two ports offer more than the third asks *)
(* for, a ship that finds nothing to load skips, lots expire at sea.          *)
EXTENDS NaveTrasporto, Estrazioni, TLC

MCMatrici == {[p \in Porti |-> [g \in Merci |-> IF p < 2 THEN 2 ELSE -2]]}

MCLotto == [g \in Merci |-> [val |-> 1, exp |-> 1]]

ASSUME MCEstrazioni ==
  /\ MCLotto \in LottiPossibili(Merci, 0, 1, 2)
  /\ \A m \in MCMatrici, p \in Porti : RigaPossibile(m[p], MCLotto, 2)

\* Half a day between any two ports.
MCViaggio == [p \in Porti |-> [q \in Porti |-> IF p = q THEN 0 ELSE 1]]

MCBanchine == [p \in Porti |-> IF p = 0 THEN 2 ELSE 1]

MCSimmetria == Permutations(Navi)
=============================================================================
