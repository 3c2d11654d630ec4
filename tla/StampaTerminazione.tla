-------------------------- MODULE StampaTerminazione --------------------------
(***************************************************************************)
(* stampa_terminazione (master_lib.c:203-219): first the lines of the dump *)
(* (Stampa), then the search for the two ports of the final report         *)
(* (PortiTerm), both read from counters the ships go on changing.  Stampa  *)
(* follows one good; the counters of the search are sums over all of them  *)
(* and start from any value.                                               *)
(***************************************************************************)
EXTENDS PortiTerm, Sequences

CONSTANTS Offerti, MAX_LOTTI

ASSUME StampaAssumption ==
  /\ Offerti \in [Porti -> Nat]
  /\ MAX_LOTTI \in Nat \ {0}

VARIABLES
  fase,                             \* "righe", "report", "ricerca"
  dump, semDump, resta, stampato    \* those of Stampa

righe == <<dump, semDump, resta, stampato>>

S == INSTANCE Stampa

InitTerminazione ==
  /\ fase = "righe"
  /\ S!Init
  /\ conta = [c \in Campi |-> [p \in Porti |-> 0]]
  /\ inizio = conta
  /\ vincitore = [c \in Campi |-> 0]
  /\ noto = [c \in Campi |-> 0]
  /\ i = 1
  /\ campo = "mercespedita"
  /\ sfidante = [letto |-> FALSE, v |-> 0]

StampaRighe ==
  /\ fase = "righe"
  /\ S!Next
  /\ UNCHANGED <<fase, vars>>

\* The lines are printed, and nothing looks at them any more.
FineRighe ==
  /\ fase = "righe"
  /\ Len(stampato) = Len(S!Righe)
  /\ fase' = "report"
  /\ dump' = [f \in S!Campi |-> 0]
  /\ semDump' = 1
  /\ resta' = S!Nulla
  /\ stampato' = <<>>
  /\ UNCHANGED vars

\* The counters of the ports, whatever they are by now; term_dump is as
\* inizializza_dump left it.
IniziaRicerca ==
  /\ fase = "report"
  /\ fase' = "ricerca"
  /\ conta' \in [Campi -> [Porti -> 0 .. MAX_CONTA]]
  /\ inizio' = conta'
  /\ noto' = [c \in Campi |-> conta'[c][0]]
  /\ UNCHANGED <<vincitore, i, campo, sfidante, righe>>

Ricerca ==
  /\ fase = "ricerca"
  /\ Next
  /\ UNCHANGED <<fase, righe>>

NextTerminazione == StampaRighe \/ FineRighe \/ IniziaRicerca \/ Ricerca

SpecTerminazione == InitTerminazione /\ [][NextTerminazione]_<<fase, vars, righe>>
-----------------------------------------------------------------------------
\* What is printed of a good counts no lot twice but those of one update
\* (Stampa, master_lib.c:150-152).
EccessoLimitato == S!EccessoLimitato

\* What is printed of a port misses no more lots than one update moves
\* (Stampa, master_lib.c:157-159).
AmmancoLimitato == S!AmmancoLimitato
=============================================================================
