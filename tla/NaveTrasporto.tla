---------------------------- MODULE NaveTrasporto ----------------------------
(***************************************************************************)
(* The ships implement Trasporto.  A cell of the market is an offer or a   *)
(* request by its sign; a lot counts as delivered or expired from the      *)
(* moment scaricamerci() takes it from the hold, before the dump says so.  *)
(***************************************************************************)
EXTENDS NaveProprieta

InScaricoCome(g, esito) ==
  Somma([s \in Navi |-> IF scarico[s].indice = g /\ Esito(s, g) = esito
                          THEN scarico[s].val ELSE 0])
Esitata(esito) == [g \in Merci |-> merceDump[g][esito] + InScaricoCome(g, esito)]

T == INSTANCE Trasporto WITH
       offerta    <- [p \in Porti |-> [g \in Merci |-> Offerta(mercato[p][g])]],
       domanda    <- [p \in Porti |-> [g \in Merci |-> Attesi(p, g)]],
       posto      <- porto,
       verso      <- dest,
       stiva      <- carico,
       consegnata <- Esitata("consegnata"),
       scaduta    <- Esitata("scaduta_in_nave")

\* The market, the queue, the holds and the dump are changed in different
\* steps under different locks (nave.c:118-313, nave_lib.c:113-147); seen
\* from outside, every step of every ship is a step of Trasporto or nothing.
ImplementaTrasporto == T!Spec

=============================================================================
