------------------------------- MODULE MCCarico -------------------------------
(* One ship and eleven goods, with MAX_REQ_LETTE and MAX_CARICO as the code   *)
(* has them: the ship can serve every request of port 1 in one call.          *)
EXTENDS NaveProprieta, TLC

\* Port 0 offers two lots of each good. Port 1 asks for one lot of each in
\* its first loop, and for what is left of Fill in its second.
MCMatrici == {[p \in Porti |-> [g \in Merci |-> IF p = 0 THEN 2 ELSE -2]]}
MCLotto == [g \in Merci |-> [val |-> 1, exp |-> 1]]
MCViaggio == [p \in Porti |-> [q \in Porti |-> IF p = q THEN 0 ELSE 1]]
MCBanchine == [p \in Porti |-> 1]
=============================================================================
