----------------------------- MODULE Preparazione -----------------------------
(***************************************************************************)
(* What main prepares before the ships start, in its order: it reads a     *)
(* line of config.txt (Configurazione), with the numbers of that line it   *)
(* writes the areas of memory (Memoria), and for the line whose map is     *)
(* followed point by point it places the ports and a ship is born (Mappa). *)
(***************************************************************************)
EXTENDS Integers, Sequences

CONSTANTS File, Argomenti, QNT_PARAMETRI,
          Valori,             \* [NAVI, PORTI, MERCI] on each line with numbers
          PAGINA,
          RigaMappa,          \* the line whose map is followed
          SO_LATO, Tiri, Pid  \* its side, the draws, the pids

Tipi == {"a capo", "numero", "parola"}

ASSUME PreparazioneAssumption ==
  /\ File \in Seq([tipo : Tipi, riga : Nat])
  /\ Argomenti \subseteq Nat
  /\ QNT_PARAMETRI \in Nat \ {0}
  /\ \A riga \in DOMAIN Valori :
       Valori[riga] \in [NAVI : Nat \ {0}, PORTI : Nat \ {0}, MERCI : Nat \ {0}]
  /\ \A n \in DOMAIN File : File[n].tipo = "numero" => File[n].riga \in DOMAIN Valori
  /\ PAGINA \in Nat \ {0}
  /\ RigaMappa \in DOMAIN Valori /\ Valori[RigaMappa].PORTI >= 4
  /\ SO_LATO \in Nat \ {0}
  /\ Tiri \subseteq 0 .. SO_LATO - 1
  /\ Pid \subseteq Nat \ {0}

VARIABLES
  passo,                             \* "parametri", "memoria", "mappa"
  n_righe_file, pos, i, PARAMETRO, fase,   \* those of Configurazione
  par, area, k, scritto,             \* those of Memoria
  ppid, porti, posizione, vicino     \* those of Mappa

parametri == <<n_righe_file, pos, i, PARAMETRO, fase>>
memoria == <<par, area, k, scritto>>
mappa   == <<ppid, porti, posizione, vicino>>

Co == INSTANCE Configurazione
Me == INSTANCE Memoria WITH Righe <- {Valori[riga] : riga \in DOMAIN Valori}
Ma == INSTANCE Mappa WITH SO_PORTI <- Valori[RigaMappa].PORTI

InitPreparazione ==
  /\ Co!Init
  /\ passo = "parametri"
  /\ par = Valori[RigaMappa] /\ area = "dump" /\ k = 0 /\ scritto = Me!Tratto(0, 0)
  /\ ppid = 0 /\ porti = <<>> /\ posizione = <<>> /\ vicino = Ma!Indefinito

Parametri ==
  /\ passo = "parametri"
  /\ Co!Next
  /\ UNCHANGED <<passo, memoria, mappa>>

\* SO_NAVI, SO_PORTI and SO_MERCI are elements of PARAMETRO.
ParametriLetti ==
  /\ passo = "parametri"
  /\ fase = "letti"
  /\ passo' = "memoria"
  /\ par' = Valori[PARAMETRO[1].riga]
  /\ UNCHANGED <<parametri, area, k, scritto, mappa>>

Memoria ==
  /\ passo = "memoria"
  /\ Me!Next
  /\ UNCHANGED <<parametri, passo, mappa>>

\* generate_positions writes the corners at once.
GeneraPosizioni ==
  /\ passo = "memoria"
  /\ area = "child_pids" /\ k = Me!Quante[area]
  /\ n_righe_file + 1 = RigaMappa
  /\ passo' = "mappa"
  /\ ppid' \in Pid
  /\ porti' = Ma!Vertici
  /\ UNCHANGED <<parametri, memoria, posizione, vicino>>

Mappa ==
  /\ passo = "mappa"
  /\ Ma!Next
  /\ UNCHANGED <<parametri, passo, memoria>>

NextPreparazione == Parametri \/ ParametriLetti \/ Memoria \/ GeneraPosizioni \/ Mappa

\* main goes on by itself, and rand() does not give occupied points for ever
\* when there are others.
SpecPreparazione ==
  /\ InitPreparazione
  /\ [][NextPreparazione]_<<parametri, passo, memoria, mappa>>
  /\ WF_<<parametri, passo, memoria, mappa>>(NextPreparazione)
-----------------------------------------------------------------------------
\* The parameters are those of the line asked for, or none are taken
\* (Configurazione; master.c:73-89).
ParametriDellaRiga == Co!ParametriDellaRiga

\* Nothing is written past the end of an area (Memoria; definitions.h:105,
\* 129-133, master.c:94).
SempreMappato == Me!SempreMappato

\* No structure is written over one already there (Memoria;
\* definitions.h:129-133).
MaiSopra == Me!MaiSopra

\* A ship heads for the nearest port (Mappa; nave_lib.c:27-39).
VicinoGiusto == Ma!VicinoGiusto

\* All the ports find a place once generate_positions has begun, even when
\* every point drawn falls in the first square of the map (master_lib.c:33,
\* 57-58).
PiazzamentoTermina == passo = "mappa" ~> Ma!Piazzati
=============================================================================
