------------------------------- MODULE MCAvvio -------------------------------
(* Three ports, two goods: ports that offer, that ask, and that *)
(* do both, two of them for the same goods.                                  *)
EXTENDS AvvioNave, Estrazioni, TLC

Riga(a, b) == 0 :> a @@ 1 :> b
MCRighe == 0 :> {Riga(2, -1), Riga(-1, -2)} @@ 1 :> {Riga(-1, 2)} @@ 2 :> {Riga(-3, 0)}

MCBanchine == [p \in Porti |-> p + 1]
MCLotto == [g \in Merci |-> [val |-> 1, exp |-> 1]]
ASSUME MCEstrazioni ==
  /\ MCLotto \in LottiPossibili(Merci, 0, 1, 2)
  /\ \A p \in Porti : \A riga \in MCRighe[p] : RigaPossibile(riga, MCLotto, 3)
MCViaggio == [p \in Porti |-> [q \in Porti |-> 1]]
=============================================================================
