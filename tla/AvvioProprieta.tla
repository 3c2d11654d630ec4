---------------------------- MODULE AvvioProprieta ----------------------------
(***************************************************************************)
(* What the start promises.                                                *)
(***************************************************************************)
EXTENDS Avvio

TypeOK ==
  /\ mpc \in {"fork", "attesa", "avviato"}
  /\ ppc \in [Porti -> FasiPorto]
  /\ npc \in [Navi -> FasiNave]
  /\ prossima \in [Porti -> 0 .. SO_MERCI]
  /\ copia \in [Porti -> [Merci -> Int]]
  /\ gestione \in Nat
  /\ semDump \in Nat
  /\ semBanchine \in [Porti -> Nat]
  /\ mercato \in [Porti -> [Merci -> Int]]
  /\ coda \in Seq([mtype : Porti, indicemerce : Merci, nlotti : Nat \ {0}])
  /\ presente \in [Merci -> Int]
  /\ mercepresente \in [Porti -> Int]

\* Nobody passes the barrier before everybody has reached it: when the
\* master goes on or a ship sails, every port has finished its
\* initialisation and every ship is there; and if a child was lost, nobody
\* ever goes on (so the master never sends a signal to pid -1,
\* master.c:139-142 and 198, 257).
Pronti ==
  /\ \A p \in Porti : ppc[p] \in {"attesa", "pausa"}
  /\ \A s \in Navi : npc[s] \in {"attesa", "parte"}
NessunoInAnticipo ==
  (\/ mpc = "avviato"
   \/ \E p \in Porti : ppc[p] = "pausa"
   \/ \E s \in Navi : npc[s] = "parte") => Pronti

\* If every child gets to main() and the queue can hold all the requests,
\* the barrier opens: only a lost child may keep it shut (master.c:137-175).
FiglioPerso == (\E p \in Porti : ppc[p] = "fallito") \/ (\E s \in Navi : npc[s] = "fallito")
BarrieraAperta == <>(Avviato \/ FiglioPerso)

\* "It also starts and close all the project in the correct way."
\* (README.md:5): the same, whatever the queue can hold.
AvvioRiuscito == <>Avviato

=============================================================================
