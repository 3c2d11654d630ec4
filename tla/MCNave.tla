-------------------------------- MODULE MCNave --------------------------------
(* Two ships, two ports, two goods: the ships compete for the requests, for   *)
(* the berth of port 1 and for the market of port 0, the only one that offers. *)
EXTENDS NaveProprieta, Estrazioni, TLC

\* Port 0 offers both goods and port 1 asks for them, for more of good 0 than
\* port 0 offers; or port 0 offers of good 0 all that is asked for, more than
\* a ship holds; or both ports ask for good 0 and nobody offers it.
MCMercati == {<<<<2, 2>>, <<-5, -1>>>>, <<<<8, 0>>, <<-8, 0>>>>, <<<<-8, 0>>, <<-8, 0>>>>}
MCMatrici == {[p \in Porti |-> [g \in Merci |-> m[p+1][g+1]]] : m \in MCMercati}

\* Three tons take two days to load and unload, fewer take none.
MCLotto == 0 :> [val |-> 1, exp |-> 5] @@ 1 :> [val |-> 3, exp |-> 4]

ASSUME MCEstrazioni ==
  /\ MCLotto \in LottiPossibili(Merci, 2, 4, 6)
  /\ \A m \in MCMatrici, p \in Porti : RigaPossibile(m[p], MCLotto, 8)

\* Half a day between any two ports.
MCViaggio == [p \in Porti |-> [q \in Porti |-> IF p = q THEN 0 ELSE 1]]

MCBanchine == [p \in Porti |-> IF p = 0 THEN 2 ELSE 1]

MCSimmetria == Permutations(Navi)
=============================================================================
