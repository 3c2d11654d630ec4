---------------------------- MODULE MasterProprieta ----------------------------
(***************************************************************************)
(* What the master promises.                                               *)
(***************************************************************************)
EXTENDS Master

TypeOK ==
  /\ mpc \in Stati
  /\ allarme \in BOOLEAN /\ data \in 0 .. SO_DAYS /\ continua \in BOOLEAN
  /\ stampati \subseteq Nat /\ terminazione \in BOOLEAN
  /\ coda \in [Porti -> Nat]
  /\ indice \in 0 .. SO_PORTI
  /\ rimossi \in 0 .. Len(Oggetti)
  /\ figlio \in [Figli -> {"vivo", "zombie", "atteso"}]
  /\ segnali \in [Figli -> SUBSET {"USR1", "USR2"}]
  /\ esito \in [Figli -> {"nessuno", "EXIT_SUCCESS", "255", "SIGSEGV"}]

\* No IPC object is removed, and the queue is not emptied, while a child
\* could still use it: every child has ended and been waited for, however
\* late it took the signal and whatever it died of (master.c:202-222).
IpcFinoAllUltimo ==
  rimossi > 0 \/ indice > 0 => \A f \in Figli : figlio[f] = "atteso"

\* The queue is removed empty (master.c:208-216).
CodaSvuotata == rimossi >= 5 => \A p \in Porti : coda[p] = 0

\* The dump of each day that has passed has been printed, the last one as
\* the termination dump, and none twice under another name: the two
\* branches of the handler split the days at SO_DAYS (master.c:251-264).
OgniGiornoStampato ==
  /\ stampati = {d \in 0 .. data : d < SO_DAYS}
  /\ terminazione <=> data = SO_DAYS

\* The simulation ends and every object is removed, unless an alarm goes off
\* between alarm(1) and pause(): the only thing the master can be stuck on is
\* a pause() with no alarm left to end it (master.c:181-226).
AllarmePerso == mpc = "pausa" /\ ~allarme
Termina == <>(mpc = "fine" \/ AllarmePerso)

\* A port that takes SIGUSR2 leaves with exit(EXIT_SUCCESS), as its handler
\* says (porto.c:97).
PortoEsceBene ==
  \A p \in Porti : figlio[p] # "vivo" => esito[p] = "EXIT_SUCCESS"

=============================================================================
