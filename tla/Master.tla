-------------------------------- MODULE Master --------------------------------
(***************************************************************************)
(* The master after the start (master.c:175-269) and, of its children,     *)
(* what it can see of them: that they run, which signals are pending, with *)
(* which status they exited, whether it has waited for them.               *)
(*                                                                         *)
(* Once a day SIGALRM moves the date on, prints the dump and sends SIGUSR1 *)
(* to every child; after the last day, or when there is nothing left to    *)
(* trade, the master sends SIGUSR2, waits for all of them, empties the     *)
(* queue and removes the IPC objects.                                      *)
(***************************************************************************)
EXTENDS Integers, Sequences, FiniteSets

CONSTANTS
  Navi,              \* the ships
  SO_PORTI,          \* ports are 0 .. SO_PORTI-1
  SO_DAYS,
  MAX_MSG,           \* bound: requests of one port still queued at the end
  Puntuale           \* does SIGALRM always find the master in pause()?

Porti == 0 .. SO_PORTI - 1
Figli == Navi \cup Porti

ASSUME MasterAssumption ==
  /\ IsFiniteSet(Navi) /\ SO_PORTI \in Nat /\ Navi \cap Porti = {}
  /\ SO_DAYS \in Nat \ {0} /\ MAX_MSG \in Nat
  /\ Puntuale \in BOOLEAN

\* What the master removes, in this order: distruggi_risorse() and
\* distruggi_semafori().
Oggetti == <<"mercato", "lotti", "posizioni", "dump", "coda",
             "semMercato", "semDump", "semBanchine", "semGestione">>

VARIABLES
  mpc,               \* where the master is
  allarme,           \* is the one-second alarm armed?
  data, continua,
  stampati,          \* days whose dump has been printed
  terminazione,      \* has stampa_terminazione() run?
  coda,              \* requests still queued, by port
  indice,            \* i of the loop that empties the queue
  rimossi,           \* IPC objects removed so far
  figlio,            \* "vivo", "zombie" or "atteso" (waited for)
  segnali,           \* signals pending for each child
  esito              \* exit status of each child

orologio == <<allarme, data, continua, stampati, terminazione>>
chiusura == <<coda, indice, rimossi>>
figli    == <<figlio, segnali, esito>>
vars     == <<mpc, orologio, chiusura, figli>>

Stati == {"alarm", "controlla", "pausa", "prova", "uccide", "aspetta", "svuota",
          "rimuove", "fine"}

\* The barrier has just opened; the master has printed the dump of day 0.
Init ==
  /\ mpc = "alarm"
  /\ allarme = FALSE
  /\ data = 0
  /\ continua = TRUE
  /\ stampati = {0}
  /\ terminazione = FALSE
  /\ coda = [p \in Porti |-> 0]
  /\ indice = 0
  /\ rimossi = 0
  /\ figlio = [f \in Figli |-> "vivo"]
  /\ segnali = [f \in Figli |-> {}]
  /\ esito = [f \in Figli |-> "nessuno"]

Vivi == {f \in Figli : figlio[f] = "vivo"}

\* Mutant: the loop over child_pids ends with the ships.
Manda_Navi(segnale) ==
  segnali' = [f \in Figli |-> IF f \in Vivi \cap Navi THEN segnali[f] \cup {segnale}
                              ELSE segnali[f]]

\* kill() of every child_pids[i]; a zombie does not mind.
Manda(segnale) ==
  segnali' = [f \in Figli |-> IF f \in Vivi THEN segnali[f] \cup {segnale} ELSE segnali[f]]

-----------------------------------------------------------------------------
(* The daily loop. *)

\* alarm(1)
Alarm ==
  /\ mpc = "alarm"
  /\ allarme' = TRUE
  /\ mpc' = "controlla"
  /\ UNCHANGED <<data, continua, stampati, terminazione, chiusura, figli>>

\* controlla_mercato(): either answer, as the ships have left the market.
Controlla ==
  /\ mpc = "controlla"
  /\ continua' \in BOOLEAN
  /\ mpc' = "pausa"
  /\ UNCHANGED <<allarme, data, stampati, terminazione, chiusura, figli>>

\* The master is running, or sleeps in pause().
Interrompibile == mpc = "pausa" \/ (~Puntuale /\ mpc = "controlla")

\* Mutant: the last day is taken for one of the others.
UltimoGiorno_Mai == FALSE

UltimoGiorno == data >= SO_DAYS - 1

\* signal_handler(SIGALRM).  A handler that ends in pause() makes it return;
\* one that ran before leaves the master to pause with no alarm armed.
Scatta ==
  /\ allarme
  /\ Interrompibile
  /\ allarme' = FALSE
  /\ data' = data + 1
  /\ IF UltimoGiorno
       THEN terminazione' = TRUE /\ UNCHANGED <<stampati, segnali>>
       ELSE stampati' = stampati \cup {data + 1} /\ Manda("USR1") /\ UNCHANGED terminazione
  /\ mpc' = IF mpc = "pausa" THEN "prova" ELSE mpc
  /\ UNCHANGED <<continua, chiusura, figlio, esito>>

\* while((data < SO_DAYS) && continua_simulazione)
Prova ==
  /\ mpc = "prova"
  /\ mpc' = IF data < SO_DAYS /\ continua THEN "alarm" ELSE "uccide"
  /\ UNCHANGED <<orologio, chiusura, figli>>

-----------------------------------------------------------------------------
(* The end. *)

\* kill(child_pids[i], SIGUSR2) for every child.
Uccide ==
  /\ mpc = "uccide"
  /\ Manda("USR2")
  /\ mpc' = "aspetta"
  /\ UNCHANGED <<orologio, chiusura, figlio, esito>>

\* wait(&status) returns one child that has ended.
Aspetta ==
  /\ mpc = "aspetta"
  /\ \E f \in Figli : /\ figlio[f] = "zombie"
                      /\ figlio' = [figlio EXCEPT ![f] = "atteso"]
  /\ UNCHANGED <<mpc, orologio, chiusura, segnali, esito>>

\* Mutant: wait() is called once per child that has already ended.
NessunFiglio_Zombie == \A f \in Figli : figlio[f] # "zombie"

NessunFiglio == \A f \in Figli : figlio[f] = "atteso"

\* wait() returns -1: no child is left.  The queue is as they left it.
FineAttesa ==
  /\ mpc = "aspetta"
  /\ NessunFiglio
  /\ coda' \in [Porti -> 0 .. MAX_MSG]
  /\ mpc' = "svuota"
  /\ UNCHANGED <<orologio, indice, rimossi, figli>>

\* accetta_richiesta(i) found nothing: i++.
Prossimo(ce) == IF ce THEN indice ELSE indice + 1

\* One turn of the loop that empties the queue, until no port is left.
Svuota ==
  /\ mpc = "svuota"
  /\ indice < SO_PORTI
  /\ indice' = Prossimo(coda[indice] > 0)
  /\ coda' = IF coda[indice] > 0 THEN [coda EXCEPT ![indice] = @ - 1] ELSE coda
  /\ UNCHANGED <<mpc, orologio, rimossi, figli>>

FineSvuota ==
  /\ mpc = "svuota"
  /\ indice = SO_PORTI
  /\ mpc' = "rimuove"
  /\ UNCHANGED <<orologio, chiusura, figli>>

\* sgancia_risorse(), then one removal after the other.
Rimuove ==
  /\ mpc = "rimuove"
  /\ rimossi' = rimossi + 1
  /\ mpc' = IF rimossi + 1 = Len(Oggetti) THEN "fine" ELSE mpc
  /\ UNCHANGED <<orologio, coda, indice, figli>>

-----------------------------------------------------------------------------
(* The children. *)

Esce(f, stato) ==
  /\ figlio' = [figlio EXCEPT ![f] = "zombie"]
  /\ segnali' = [segnali EXCEPT ![f] = {}]
  /\ esito' = [esito EXCEPT ![f] = stato]
  /\ UNCHANGED <<mpc, orologio, chiusura>>

\* SIGUSR1 in a ship: a line of log (nave.c:330-332).
Usr1Nave(s) ==
  /\ figlio[s] = "vivo"
  /\ "USR1" \in segnali[s]
  /\ segnali' = [segnali EXCEPT ![s] = @ \ {"USR1"}]
  /\ UNCHANGED <<mpc, orologio, chiusura, figlio, esito>>

\* SIGUSR2 in a ship (nave.c:333-337).
Usr2Nave(s) ==
  /\ figlio[s] = "vivo"
  /\ "USR2" \in segnali[s]
  /\ Esce(s, "EXIT_SUCCESS")

\* exit(255) on an empty queue (nave.c:123-126), at any time.
CodaVuotaNave(s) ==
  /\ figlio[s] = "vivo"
  /\ Esce(s, "255")

\* SIGUSR1 in a port: the handler reads the date from the dump, which the
\* port detached before the barrier (porto.c:65, 92).
Usr1Porto(p) ==
  /\ figlio[p] = "vivo"
  /\ "USR1" \in segnali[p]
  /\ Esce(p, "SIGSEGV")

\* SIGUSR2 in a port: the handler detaches the memories a second time, and
\* sgancia_shm exits on the error (porto.c:96, shm_lib.c:33-38).
Usr2Porto(p) ==
  /\ figlio[p] = "vivo"
  /\ "USR2" \in segnali[p]
  /\ Esce(p, "255")

PassoMaster ==
  \/ Alarm \/ Controlla \/ Scatta \/ Prova \/ Uccide \/ Aspetta \/ FineAttesa
  \/ Svuota \/ FineSvuota \/ Rimuove

Segnale(f) ==
  \/ f \in Navi /\ (Usr1Nave(f) \/ Usr2Nave(f))
  \/ f \in Porti /\ (Usr1Porto(f) \/ Usr2Porto(f))

Next ==
  \/ PassoMaster
  \/ \E f \in Figli : Segnale(f)
  \/ \E s \in Navi : CodaVuotaNave(s)
  \/ mpc = "fine" /\ UNCHANGED vars

Spec == Init /\ [][Next]_vars

\* The master runs, an armed alarm goes off, pending signals are delivered.
SpecEqua == Spec /\ WF_vars(PassoMaster) /\ \A f \in Figli : WF_vars(Segnale(f))

=============================================================================
