------------------------------ MODULE AvvioNave ------------------------------
(***************************************************************************)
(* The start hands over to the ships: when the barrier is open, the shared *)
(* state is one of the initial states of module Nave.                      *)
(***************************************************************************)
EXTENDS AvvioProprieta

CONSTANTS SO_CAPACITY, SO_LOADSPEED, SO_DAYS, MAX_REQ_LETTE, MAX_CARICO, Lotto, Viaggio

\* Without a port a ship would have nowhere to go; module Nave asks for two.
ASSUME AvvioNaveAssumption == SO_PORTI # 0

Matrice == {m \in [Porti -> UNION {Righe[p] : p \in Porti}] : \A p \in Porti : m[p] \in Righe[p]}

Contatori(n) == [presente_in_porto |-> n, presente_in_nave |-> 0, consegnata |-> 0,
                 scaduta_in_nave |-> 0]
Voci(n) == [mercespedita |-> 0, mercericevuta |-> 0, mercepresente |-> n]

\* A ship that has passed the barrier is about to look for its first port;
\* its locals and the master's are as they are declared.
N == INSTANCE Nave WITH
  MercatiIniziali <- Matrice,
  pc <- [s \in Navi |-> "inizio"],
  porto <- [s \in Navi |-> 0], dest <- [s \in Navi |-> 0],
  r <- [s \in Navi |-> [mtype |-> -1, indicemerce |-> -1, nlotti |-> 0]],
  reqlett <- [s \in Navi |-> 0], tempo <- [s \in Navi |-> 0],
  carico <- [s \in Navi |-> Nulla], i_carico <- [s \in Navi |-> 0],
  spaziolibero <- [s \in Navi |-> SO_CAPACITY],
  scarico <- [s \in Navi |-> [indice |-> 0, val |-> 0]],
  datascarico <- [s \in Navi |-> 0],
  copia <- [s \in Navi |-> [nd |-> [c \in {"naviporto", "naviscariche", "navicariche"} |-> 0],
                            merce |-> [g \in Merci |-> Contatori(0)],
                            porto |-> [p \in Porti |-> Voci(0)]]],
  semMercato <- [p \in Porti |-> 1],
  semDump <- [i \in {0, 1} |-> IF i = 0 THEN semDump ELSE 1],
  merceDump <- [g \in Merci |-> Contatori(presente[g])],
  portoDump <- [p \in Porti |-> Voci(mercepresente[p])],
  nd <- [naviporto |-> 0, naviscariche |-> Cardinality(Navi), navicariche |-> 0],
  data <- 0, continua <- TRUE, master <- "controlla"

\* From the opening of the barrier on, every market row is in place, the
\* queue holds exactly the requests of the rows, each port's in the order of
\* the goods, the dump counts exactly what is offered although the ports
\* updated it concurrently, and the berths are free.
InizioNave == gestione = 0 => N!Init

=============================================================================
