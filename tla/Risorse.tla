------------------------------- MODULE Risorse -------------------------------
(***************************************************************************)
(* The nine System V objects of the simulation under their fixed keys      *)
(* (definitions.h:95-113), over several starts of the master on the same   *)
(* machine, one after the other or at once: alloca_risorse creates them    *)
(* with IPC_EXCL, distruggi_risorse and distruggi_semafori remove them     *)
(* when the simulation ends, and they outlive a master that dies.          *)
(***************************************************************************)
EXTENDS Integers, Sequences

CONSTANTS Avvii,         \* the starts of the master
          Nessuno,
          SO_MIN_VITA, SO_MAX_VITA,
          Interrotti     \* the starts that a signal may kill

ASSUME RisorseAssumption ==
  /\ Nessuno \notin Avvii
  /\ SO_MIN_VITA \in Nat /\ SO_MAX_VITA \in Nat
  /\ Interrotti \subseteq Avvii

\* alloca_id, then alloca_semafori.
Creazione ==
  <<"mercato", "lotti", "posizioni", "dump", "coda",
    "semGestione", "semBanchine", "semDump", "semMercato">>

\* Mutant: the queue is left where it is.
Distruzione_SenzaCoda ==
  <<"mercato", "lotti", "posizioni", "dump",
    "semMercato", "semDump", "semBanchine", "semGestione">>

\* distruggi_risorse, then distruggi_semafori.
Distruzione ==
  <<"mercato", "lotti", "posizioni", "dump", "coda",
    "semMercato", "semDump", "semBanchine", "semGestione">>

\* inizializza_risorse of a port and of a ship.
Ricerca ==
  <<"mercato", "lotti", "posizioni", "dump",
    "semMercato", "semGestione", "semBanchine", "semDump", "coda">>

Oggetti == {Creazione[n] : n \in DOMAIN Creazione}

VARIABLES
  di,        \* the start that created the object that is there now
  fase,      \* where each start is
  passo,     \* the next object to create or remove
  figlio,    \* where the slowest child of each start is
  cercati,   \* the objects it has looked up
  trovati    \* the starts whose objects it has found

padri == <<fase, passo>>
figli == <<figlio, cercati, trovati>>
vars == <<di, padri, figli>>

Vivi == {a \in Avvii : fase[a] \in {"crea", "prepara", "forca", "simula", "distrugge"}}

Init ==
  /\ di = [o \in Oggetti |-> Nessuno]
  /\ fase = [a \in Avvii |-> "fermo"]
  /\ passo = [a \in Avvii |-> 1]
  /\ figlio = [a \in Avvii |-> "assente"]
  /\ cercati = [a \in Avvii |-> 0]
  /\ trovati = [a \in Avvii |-> {}]

Va(a, f, n) ==
  /\ fase' = [fase EXCEPT ![a] = f]
  /\ passo' = [passo EXCEPT ![a] = n]

Parte(a) ==
  /\ fase[a] = "fermo"
  /\ Va(a, "crea", 1)
  /\ UNCHANGED <<di, figli>>

\* Mutant: the objects are taken as they are, without IPC_EXCL.
Libero_SenzaExcl(o) == TRUE

\* shmget, msgget and semget with IPC_CREAT | IPC_EXCL.
Libero(o) == di[o] = Nessuno

Crea(a) ==
  /\ fase[a] = "crea"
  /\ LET o == Creazione[passo[a]] IN
       /\ Libero(o)
       /\ di' = [di EXCEPT ![o] = IF @ = Nessuno THEN a ELSE @]
  /\ IF passo[a] < Len(Creazione) THEN Va(a, "crea", passo[a] + 1) ELSE Va(a, "prepara", 1)
  /\ UNCHANGED figli

\* EEXIST: exit(255), with what it has made so far left behind.
CreaFallita(a) ==
  /\ fase[a] = "crea"
  /\ ~Libero(Creazione[passo[a]])
  /\ Va(a, "errore", 1)
  /\ UNCHANGED <<di, figli>>

\* setUpLotto: rand() % (SO_MAX_VITA - SO_MIN_VITA) raises SIGFPE on zero.
SetUpLotto(a) ==
  /\ fase[a] = "prepara"
  /\ Va(a, IF SO_MAX_VITA = SO_MIN_VITA THEN "morto" ELSE "forca", 1)
  /\ UNCHANGED <<di, figli>>

Forca(a) ==
  /\ fase[a] = "forca"
  /\ Va(a, "simula", 1)
  /\ figlio' = [figlio EXCEPT ![a] = "cerca"]
  /\ UNCHANGED <<di, cercati, trovati>>

\* find_shm, sem_find and get_coda_id look a key up, whoever made the object.
Trova(a) ==
  /\ figlio[a] = "cerca"
  /\ LET o == Ricerca[cercati[a] + 1] IN
       /\ di[o] # Nessuno
       /\ trovati' = [trovati EXCEPT ![a] = @ \union {di[o]}]
  /\ cercati' = [cercati EXCEPT ![a] = @ + 1]
  /\ figlio' = [figlio EXCEPT ![a] = IF cercati'[a] = Len(Ricerca) THEN "pronto" ELSE @]
  /\ UNCHANGED <<di, padri>>

\* ENOENT: exit(255).
TrovaFallita(a) ==
  /\ figlio[a] = "cerca"
  /\ di[Ricerca[cercati[a] + 1]] = Nessuno
  /\ figlio' = [figlio EXCEPT ![a] = "uscito"]
  /\ UNCHANGED <<di, padri, cercati, trovati>>

\* Mutant: the master does not wait for its children.
Conclude_SenzaFigli(a) ==
  /\ fase[a] = "simula"
  /\ Va(a, "distrugge", 1)
  /\ UNCHANGED <<di, figli>>

\* The barrier has opened, the simulation is over, the child has been killed
\* and waited for, and main gets to distruggi_risorse.
Conclude(a) ==
  /\ fase[a] = "simula"
  /\ figlio[a] = "pronto"
  /\ Va(a, "distrugge", 1)
  /\ figlio' = [figlio EXCEPT ![a] = "uscito"]
  /\ UNCHANGED <<di, cercati, trovati>>

\* IPC_RMID takes the identifier: it removes an object of this start only.
Distruggi(a) ==
  /\ fase[a] = "distrugge"
  /\ di[Distruzione[passo[a]]] = a
  /\ di' = [di EXCEPT ![Distruzione[passo[a]]] = Nessuno]
  /\ IF passo[a] < Len(Distruzione) THEN Va(a, "distrugge", passo[a] + 1) ELSE Va(a, "finito", 1)
  /\ UNCHANGED figli

DistruggiFallita(a) ==
  /\ fase[a] = "distrugge"
  /\ di[Distruzione[passo[a]]] # a
  /\ Va(a, "errore", 1)
  /\ UNCHANGED <<di, figli>>

\* SIGTERM and the like: the master has no handler for them, and its children
\* go on.
Ucciso(a) ==
  /\ a \in Vivi \intersect Interrotti
  /\ Va(a, "morto", 1)
  /\ UNCHANGED <<di, figli>>

\* make ipc (ipcrm --all), run by hand: not while somebody is starting or
\* simulating.
Ipcrm ==
  /\ \A a \in Vivi : fase[a] = "distrugge"
  /\ di' = [o \in Oggetti |-> Nessuno]
  /\ UNCHANGED <<padri, figli>>

Avvio(a) ==
  \/ Parte(a)
  \/ Crea(a)
  \/ CreaFallita(a)
  \/ SetUpLotto(a)
  \/ Forca(a)
  \/ Trova(a)
  \/ TrovaFallita(a)
  \/ Conclude(a)
  \/ Distruggi(a)
  \/ DistruggiFallita(a)
  \/ Ucciso(a)

Next == (\E a \in Avvii : Avvio(a)) \/ Ipcrm

Spec == Init /\ [][Next]_vars
-----------------------------------------------------------------------------
\* Two simulations never share an object, whatever the starts, the deaths and
\* the removals around them: who simulates owns all nine
\* (shm_lib.c:8, sem_lib.c:8, queue_lib.c:8).
Separati == \A a \in Avvii : fase[a] = "simula" => \A o \in Oggetti : di[o] = a

\* A port or a ship looks its nine objects up by key, and while its master has
\* not been killed under it they are those of its own simulation: the master
\* removes nothing before its children are gone, so no other start has the
\* keys meanwhile (porto.c:76-88, nave.c:315-327).
FigliPropri == \A a \in Avvii : fase[a] # "morto" => trovati[a] \subseteq {a}

\* A simulation that reaches its end leaves nothing of its own, even when
\* another start takes the keys while it is removing (master_lib.c:225-240).
FinePulita == \A a \in Avvii : fase[a] = "finito" => \A o \in Oggetti : di[o] # a
=============================================================================
