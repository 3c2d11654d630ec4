--------------------------------- MODULE Nave ---------------------------------
(***************************************************************************)
(* The ships (nave.c, nave_lib.c) and what they share: the market matrix,  *)
(* the request queue, the three semaphore sets, the dump, and the day the  *)
(* master counts.  Ports are passive once the barrier has opened, so the   *)
(* module starts there: every port has filled its market row, sent its     *)
(* requests and set its berths.                                            *)
(*                                                                         *)
(* A ship is a sequential process; pc[s] names the point it has reached.   *)
(* One action is one system call, or one access to a shared memory, with   *)
(* the local work next to it.  SIGUSR1 only interrupts system calls that   *)
(* sem_lib retries, so it does not appear; SIGUSR2 is an action.           *)
(***************************************************************************)
EXTENDS Integers, Sequences, FiniteSets, SequencesExt, Somma

CONSTANTS
  Navi,              \* the ships
  SO_PORTI,          \* ports are 0 .. SO_PORTI-1
  SO_MERCI,          \* goods are 0 .. SO_MERCI-1
  SO_CAPACITY,       \* tons a ship carries
  SO_LOADSPEED,      \* tons loaded per day
  SO_DAYS,           \* length of the simulation
  MAX_REQ_LETTE,     \* requests a ship reads per call at a port
  MAX_CARICO,        \* slots of carico[]
  MAX_CODA,          \* messages the kernel lets the queue hold (msg_qbytes)
  Lotto,             \* DETTAGLI_LOTTI: tons (val) and last day (exp) of a lot
  Viaggio,           \* Viaggio[p][q]: calcola_distanza / SO_SPEED, in half days
  MercatiIniziali,   \* the matrices spawnMerciPorti may have left
  BanchineTotali     \* berths of each port, drawn by inizializza_banchine

Porti == 0 .. SO_PORTI - 1
Merci == 0 .. SO_MERCI - 1
Matrici == [Porti -> [Merci -> Int]]

\* Half days are enough for a travel time: the code only compares it with
\* whole numbers of days, so a real number matters through its floor and
\* through whether it is whole.
ASSUME NaveAssumption ==
  /\ IsFiniteSet(Navi)
  /\ SO_PORTI \in Nat \ {0, 1}
  /\ SO_MERCI \in Nat \ {0}
  /\ SO_CAPACITY \in Nat \ {0}
  /\ SO_LOADSPEED \in Nat \ {0}
  /\ SO_DAYS \in Nat \ {0}
  /\ MAX_REQ_LETTE \in Nat \ {0}
  /\ MAX_CARICO \in Nat \ {0}
  /\ MAX_CODA \in Nat
  /\ Lotto \in [Merci -> [val : Nat \ {0}, exp : Nat]]
  /\ Viaggio \in [Porti -> [Porti -> Nat]]
  /\ MercatiIniziali \subseteq Matrici
  /\ BanchineTotali \in [Porti -> Nat \ {0}]

VARIABLES
  pc,                \* where each ship is in codice_simulazione()
  porto,             \* indice_porto_attraccato
  dest,              \* indice_destinazione
  r,                 \* the request taken from the queue and not yet settled
  reqlett,           \* requests read during this call at the port
  tempo,             \* tempo_carico
  carico,            \* lots aboard, by good: the used part of carico[]
  i_carico,          \* slots of carico[] in use
  spaziolibero,      \* tons still free
  scarico,           \* the slot scaricamerci() is working on
  datascarico,       \* the day the ship was ready to unload
  copia,             \* registers of a dump section being updated
  semMercato, semBanchine, semDump,
  mercato,           \* CAST_MERCATO(..)[p][g].val
  coda,              \* the System V message queue
  merceDump, portoDump, nd,
  data,              \* CAST_DUMP(..)->data
  continua,          \* continua_simulazione
  master             \* where the master is in its daily loop

ricerca  == <<r, reqlett, tempo>>
stiva    == <<carico, i_carico, spaziolibero>>
semafori == <<semMercato, semBanchine, semDump>>
dump     == <<merceDump, portoDump, nd>>
giornata == <<data, continua, master>>
merci    == <<ricerca, stiva, mercato, coda>>
altrove  == <<porto, scarico, datascarico, copia, semafori, dump, giornata>>
vars     == <<pc, dest, merci, altrove>>

NESSUNA == [mtype |-> -1, indicemerce |-> -1, nlotti |-> 0]
Richiesta == [mtype : Porti, indicemerce : Merci, nlotti : Nat \ {0}]

StatiNave == {"naviporto", "naviscariche", "navicariche"}
CampiMerce == {"presente_in_porto", "presente_in_nave", "consegnata",
               "scaduta_in_nave"}
CampiPorto == {"mercespedita", "mercericevuta", "mercepresente"}

\* A ship copies the counters it is about to update; between updates the
\* copy is meaningless and kept at this value.
CopiaVuota == [nd    |-> [c \in StatiNave |-> 0],
               merce |-> [g \in Merci |-> [c \in CampiMerce |-> 0]],
               porto |-> [p \in Porti |-> [c \in CampiPorto |-> 0]]]

-----------------------------------------------------------------------------
(* Where a ship is. *)

AlMercato  == {"cerca", "valuta", "invia", "inviaResto", "salta", "cercaDest",
               "valutaDest", "controllaCarico", "inviaDest", "rilascia",
               "scarica", "dumpScarico", "scriviScarico"}
NelDump0   == {"scriviCarico", "scriviScarico"}
AttesaDump0 == {"dumpCarico", "dumpScarico"}
AttesaStato == {"statoInizio", "statoPartenza", "statoArrivo"}
NelDump1   == {"scriviInizio", "scriviPartenza", "scriviArrivo"}
AttesaMercato == {"mercato", "mercatoScarico"}
InNavigazione == {"inizio", "inMare"}
Finita     == {"morta", "uscita"}
Fasi == AlMercato \cup {"dumpCarico", "scriviCarico", "carica", "scarico"}
        \cup AttesaStato \cup NelDump1 \cup AttesaMercato
        \cup InNavigazione \cup Finita

Vai(s, fase) == pc' = [pc EXCEPT ![s] = fase]

(***************************************************************************)
(* Semaphores (sem_lib.c).  A semop interrupted by a signal is retried, so *)
(* a reserve is one step that waits for a positive value.                  *)
(***************************************************************************)
Positivo(sem, i) == sem[i] > 0
Preso(sem, i) == [sem EXCEPT ![i] = @ - 1]
Lasciato(sem, i) == [sem EXCEPT ![i] = @ + 1]

(***************************************************************************)
(* The queue (queue_lib.c).  msgrcv takes the first message, or the first  *)
(* of a type; the +1/-1 on mtype cancel out.                               *)
(***************************************************************************)
PrimoDi(i, p) ==
  /\ i \in DOMAIN coda
  /\ coda[i].mtype = p
  /\ \A j \in 1 .. i - 1 : coda[j].mtype # p

\* Mutant: the message is read and left in the queue.
Estrai_Copia(s, i) ==
  /\ r' = [r EXCEPT ![s] = coda[i]]
  /\ coda' = coda

Estrai(s, i) ==
  /\ r' = [r EXCEPT ![s] = coda[i]]
  /\ coda' = RemoveAt(coda, i)

InviaRichiesta(s) ==
  /\ Len(coda) < MAX_CODA
  /\ coda' = Append(coda, r[s])
  /\ r' = [r EXCEPT ![s] = NESSUNA]

-----------------------------------------------------------------------------
(* Initial states: any order in which the ports may have sent their        *)
(* requests, each port its own in the order of the goods.                  *)

RichiesteDi(m) ==
  {[mtype |-> c[1], indicemerce |-> c[2], nlotti |-> -m[c[1]][c[2]]] :
     c \in {c \in Porti \X Merci : m[c[1]][c[2]] < 0}}

\* c is the request port f[i] sends at turn i, when the turns go to f[1],
\* f[2], ...
Turno(m, f, i, c) ==
  /\ c.mtype = f[i]
  /\ Cardinality({j \in 1 .. i : f[j] = f[i]}) =
       Cardinality({d \in RichiesteDi(m) : /\ d.mtype = c.mtype
                                          /\ d.indicemerce <= c.indicemerce})

CodeDi(m) ==
  LET n == Cardinality(RichiesteDi(m))
      Ordini == {f \in [1 .. n -> Porti] :
                   \A i \in 1 .. n : \E c \in RichiesteDi(m) : Turno(m, f, i, c)}
  IN  {[i \in 1 .. n |-> CHOOSE c \in RichiesteDi(m) : Turno(m, f, i, c)] : f \in Ordini}

Offerta(n) == IF n > 0 THEN n ELSE 0

InitMerce(m) ==
  /\ merceDump = [g \in Merci |-> [c \in CampiMerce |->
       IF c = "presente_in_porto"
         THEN Somma([p \in Porti |-> Offerta(m[p][g])]) ELSE 0]]
  /\ portoDump = [p \in Porti |-> [c \in CampiPorto |->
       IF c = "mercepresente"
         THEN Somma([g \in Merci |-> Offerta(m[p][g])]) ELSE 0]]

Init ==
  /\ mercato \in MercatiIniziali
  /\ coda \in CodeDi(mercato)
  /\ Len(coda) <= MAX_CODA       \* no port is still blocked in msgsnd
  /\ InitMerce(mercato)
  /\ nd = [c \in StatiNave |-> IF c = "naviscariche" THEN Cardinality(Navi) ELSE 0]
  /\ pc = [s \in Navi |-> "inizio"]
  /\ dest \in [Navi -> Porti]
  /\ porto = dest
  /\ r = [s \in Navi |-> NESSUNA]
  /\ reqlett = [s \in Navi |-> 0]
  /\ tempo = [s \in Navi |-> 0]
  /\ carico = [s \in Navi |-> [g \in Merci |-> 0]]
  /\ i_carico = [s \in Navi |-> 0]
  /\ spaziolibero = [s \in Navi |-> SO_CAPACITY]
  /\ scarico = [s \in Navi |-> [indice |-> 0, val |-> 0]]
  /\ datascarico = [s \in Navi |-> 0]
  /\ copia = [s \in Navi |-> CopiaVuota]
  /\ semMercato = [p \in Porti |-> 1]
  /\ semBanchine = BanchineTotali
  /\ semDump = [i \in {0, 1} |-> 1]
  /\ data = 0
  /\ continua = TRUE
  /\ master = "controlla"

-----------------------------------------------------------------------------
(* Docking, and the ship counters of the dump. *)

\* attesa(distanza, SO_SPEED); richiedi_banchina(..): the ship is moored.
RichiediBanchina(s) ==
  /\ pc[s] \in InNavigazione
  /\ Positivo(semBanchine, dest[s])
  /\ semBanchine' = Preso(semBanchine, dest[s])
  /\ porto' = [porto EXCEPT ![s] = dest[s]]
  /\ Vai(s, IF pc[s] = "inizio" THEN "statoInizio" ELSE "statoArrivo")
  /\ UNCHANGED <<merci, dump, giornata, dest, scarico, datascarico, copia, semMercato, semDump>>

\* Mutant: stato_nave() without its sem_reserve.
RiservaStato_Senza(s) ==
  /\ pc[s] \in AttesaStato
  /\ copia' = [copia EXCEPT ![s].nd = nd]
  /\ Vai(s, CASE pc[s] = "statoInizio"   -> "scriviInizio"
              [] pc[s] = "statoPartenza" -> "scriviPartenza"
              [] pc[s] = "statoArrivo"   -> "scriviArrivo")
  /\ UNCHANGED <<merci, semafori, dump, giornata, porto, dest, scarico, datascarico>>

\* stato_nave(): reserve the second semaphore of the dump set and read the
\* two counters the update is computed from.
RiservaStato(s) ==
  /\ pc[s] \in AttesaStato
  /\ Positivo(semDump, 1)
  /\ semDump' = Preso(semDump, 1)
  /\ copia' = [copia EXCEPT ![s].nd = nd]
  /\ Vai(s, CASE pc[s] = "statoInizio"   -> "scriviInizio"
              [] pc[s] = "statoPartenza" -> "scriviPartenza"
              [] pc[s] = "statoArrivo"   -> "scriviArrivo")
  /\ UNCHANGED <<merci, dump, giornata, porto, dest, scarico, datascarico, semMercato, semBanchine>>

\* "in mare carica" or "in mare vuota", by the free space of the ship.
InMareCome(s) ==
  IF spaziolibero[s] = SO_CAPACITY THEN "naviscariche" ELSE "navicariche"

NdSpostata(n, da, a) == [n EXCEPT ![da] = n[da] - 1, ![a] = n[a] + 1]

\* The two counters are written back and the semaphore released.
ScriviStato(s) ==
  /\ pc[s] \in NelDump1
  /\ nd' = IF pc[s] = "scriviPartenza"
             THEN NdSpostata(copia[s].nd, "naviporto", InMareCome(s))
             ELSE NdSpostata(copia[s].nd, InMareCome(s), "naviporto")
  /\ semDump' = Lasciato(semDump, 1)
  /\ copia' = [copia EXCEPT ![s] = CopiaVuota]
  /\ Vai(s, CASE pc[s] = "scriviInizio"   -> "mercato"
              [] pc[s] = "scriviPartenza" -> "inMare"
              [] pc[s] = "scriviArrivo"   -> "scarico")
  /\ UNCHANGED <<merci, giornata, porto, dest, scarico, datascarico, semMercato, semBanchine, merceDump, portoDump>>

-----------------------------------------------------------------------------
(* At the market: the search for a first request. *)

RiservaMercato(s) ==
  /\ pc[s] \in AttesaMercato
  /\ Positivo(semMercato, porto[s])
  /\ semMercato' = Preso(semMercato, porto[s])
  /\ Vai(s, IF pc[s] = "mercato" THEN "cerca" ELSE "scarica")
  /\ UNCHANGED <<merci, dump, giornata, porto, dest, scarico, datascarico, copia, semBanchine, semDump>>

AccettaPrima(s) ==
  /\ pc[s] = "cerca"
  /\ coda # << >>
  /\ Estrai(s, 1)
  /\ Vai(s, "valuta")
  /\ UNCHANGED <<altrove, stiva, dest, reqlett, tempo, mercato>>

\* perror("coda vuota"); exit(255).  Nothing is released: no semop of the
\* program uses SEM_UNDO.
CodaVuota(s) ==
  /\ pc[s] = "cerca"
  /\ coda = << >>
  /\ Vai(s, "morta")
  /\ UNCHANGED <<altrove, merci, dest>>

Peso(g, n) == n * Lotto[g].val
TempoCarico(g, n) == 2 * (Peso(g, n) \div SO_LOADSPEED)

Offerti(s) == mercato[porto[s]][r[s].indicemerce]

\* Mutants: one of the two loops that shrink the request is missing.
Ridotti_SenzaPeso(s, n) ==
  LET CiStanno(k) == k <= Offerti(s) IN
  n \in 0 .. r[s].nlotti /\ CiStanno(n) /\ (n = r[s].nlotti \/ ~CiStanno(n + 1))
Ridotti_SenzaOfferta(s, n) ==
  LET CiStanno(k) == Peso(r[s].indicemerce, k) <= spaziolibero[s] IN
  n \in 0 .. r[s].nlotti /\ CiStanno(n) /\ (n = r[s].nlotti \/ ~CiStanno(n + 1))

\* n is what the two while loops leave of r.nlotti: no more than fits in the
\* ship and no more than the port offers, and the first such value on the
\* way down.
Ridotti(s, n) ==
  LET g == r[s].indicemerce
      CiStanno(k) == Peso(g, k) <= spaziolibero[s] /\ k <= Offerti(s)
  IN  /\ n \in 0 .. r[s].nlotti
      /\ CiStanno(n)
      /\ n = r[s].nlotti \/ ~CiStanno(n + 1)

\* exp > data + t + distanza/SO_SPEED, with t days of loading and unloading.
InTempo(s, t) ==
  2 * Lotto[r[s].indicemerce].exp > 2 * (data + t) + Viaggio[porto[s]][r[s].mtype]

\* Mutants: the whole request goes back, or none of it.
Resto_Intero(q, n) == IF n < q.nlotti THEN q ELSE NESSUNA
Resto_Perso(q, n) == NESSUNA

\* What goes back to the queue after n lots of the request were loaded.
Resto(q, n) == IF n < q.nlotti THEN [q EXCEPT !.nlotti = q.nlotti - n] ELSE NESSUNA

Imbarca(s, n) ==
  LET g == r[s].indicemerce IN
  /\ carico' = [carico EXCEPT ![s] = [carico[s] EXCEPT ![g] = carico[s][g] + n]]
  /\ i_carico' = [i_carico EXCEPT ![s] = i_carico[s] + 1]
  /\ spaziolibero' = [spaziolibero EXCEPT ![s] = spaziolibero[s] - Peso(g, n)]
  /\ mercato' = [mercato EXCEPT ![porto[s]] =
                   [mercato[porto[s]] EXCEPT ![g] = mercato[porto[s]][g] - n]]
  /\ r' = [r EXCEPT ![s] = Resto(r[s], n)]

\* The first request that can be served fixes the destination.
CaricaPrima(s) ==
  /\ pc[s] = "valuta"
  /\ Offerti(s) > 0
  /\ \E n \in 1 .. r[s].nlotti :
       LET t == tempo[s] + TempoCarico(r[s].indicemerce, n) IN
       /\ Ridotti(s, n)
       /\ InTempo(s, t)
       /\ Imbarca(s, n)
       /\ tempo' = [tempo EXCEPT ![s] = t]
       /\ Vai(s, IF n < r[s].nlotti THEN "inviaResto" ELSE "cercaDest")
  /\ dest' = [dest EXCEPT ![s] = r[s].mtype]
  /\ UNCHANGED <<altrove, reqlett, coda>>

\* Not offered here, or too late, or not even one lot fits: the request goes
\* back whole.
RifiutaPrima(s) ==
  /\ pc[s] = "valuta"
  /\ \/ /\ Offerti(s) <= 0
        /\ UNCHANGED tempo
     \/ /\ Offerti(s) > 0
        /\ \E n \in 0 .. r[s].nlotti :
             /\ Ridotti(s, n)
             /\ n = 0 \/ ~InTempo(s, tempo[s] + TempoCarico(r[s].indicemerce, n))
        /\ tempo' = [tempo EXCEPT ![s] = 0]
  /\ Vai(s, "invia")
  /\ UNCHANGED <<altrove, stiva, dest, r, reqlett, mercato, coda>>

\* Mutant: reqlett is not incremented.
RimandaPrima_Senza(s) ==
  /\ pc[s] = "invia"
  /\ InviaRichiesta(s)
  /\ Vai(s, IF reqlett[s] < MAX_REQ_LETTE THEN "cerca" ELSE "salta")
  /\ UNCHANGED <<altrove, stiva, dest, reqlett, tempo, mercato>>

\* invia_richiesta(..); reqlett++ and the test of the first do-while.
RimandaPrima(s) ==
  /\ pc[s] = "invia"
  /\ InviaRichiesta(s)
  /\ reqlett' = [reqlett EXCEPT ![s] = reqlett[s] + 1]
  /\ Vai(s, IF reqlett[s] + 1 < MAX_REQ_LETTE THEN "cerca" ELSE "salta")
  /\ UNCHANGED <<altrove, stiva, dest, tempo, mercato>>

InviaResto(s) ==
  /\ pc[s] = "inviaResto"
  /\ InviaRichiesta(s)
  /\ Vai(s, "cercaDest")
  /\ UNCHANGED <<altrove, stiva, dest, reqlett, tempo, mercato>>

\* skip: rand() % (SO_PORTI-1), which never yields the last port.
Salta(s) ==
  /\ pc[s] = "salta"
  /\ \E p \in 0 .. SO_PORTI - 2 : dest' = [dest EXCEPT ![s] = p]
  /\ Vai(s, "rilascia")
  /\ UNCHANGED <<altrove, merci>>

-----------------------------------------------------------------------------
(* At the market: further requests of the destination. *)

AccettaDest(s) ==
  /\ pc[s] = "cercaDest"
  /\ \E i \in DOMAIN coda : PrimoDi(i, dest[s]) /\ Estrai(s, i)
  /\ Vai(s, "valutaDest")
  /\ UNCHANGED <<altrove, stiva, dest, reqlett, tempo, mercato>>

NessunaPerDest(s) ==
  /\ pc[s] = "cercaDest"
  /\ \A i \in DOMAIN coda : coda[i].mtype # dest[s]
  /\ Vai(s, "rilascia")
  /\ UNCHANGED <<altrove, merci, dest>>

\* A request that could be served in time by itself goes on to the check
\* against the cargo already aboard; tempo_carico keeps its loading time.
ValutaDest(s) ==
  /\ pc[s] = "valutaDest"
  /\ Offerti(s) > 0
  /\ \E n \in 1 .. r[s].nlotti :
       LET t == tempo[s] + TempoCarico(r[s].indicemerce, n) IN
       /\ Ridotti(s, n)
       /\ InTempo(s, t)
       /\ tempo' = [tempo EXCEPT ![s] = t]
  /\ Vai(s, "controllaCarico")
  /\ UNCHANGED <<altrove, stiva, dest, r, reqlett, mercato, coda>>

RifiutaDest(s) ==
  /\ pc[s] = "valutaDest"
  /\ \/ Offerti(s) <= 0
     \/ \E n \in 0 .. r[s].nlotti :
          /\ Ridotti(s, n)
          /\ n = 0 \/ ~InTempo(s, tempo[s] + TempoCarico(r[s].indicemerce, n))
  /\ Vai(s, "inviaDest")
  /\ UNCHANGED <<altrove, merci, dest>>

\* Would some good aboard expire before the ship arrives?
NonCaricare(s) ==
  \E g \in Merci : /\ carico[s][g] > 0
                   /\ 2 * Lotto[g].exp < Viaggio[porto[s]][dest[s]] + 2 * (tempo[s] + data)

\* reqlett++ and the test of the second do-while.
DopoLettura(s) ==
  IF reqlett[s] + 1 < MAX_REQ_LETTE THEN "cercaDest" ELSE "rilascia"

CaricaDest(s) ==
  /\ pc[s] = "controllaCarico"
  /\ ~NonCaricare(s)
  /\ \E n \in 1 .. r[s].nlotti :
       /\ Ridotti(s, n)
       /\ Imbarca(s, n)
       /\ IF n < r[s].nlotti
            THEN Vai(s, "inviaDest") /\ UNCHANGED reqlett
            ELSE /\ Vai(s, DopoLettura(s))
                 /\ reqlett' = [reqlett EXCEPT ![s] = reqlett[s] + 1]
  /\ UNCHANGED <<altrove, dest, tempo, coda>>

\* Mutant: the loading time starts again from zero, as in the first search.
ScartaDest_Azzera(s) ==
  /\ pc[s] = "controllaCarico"
  /\ NonCaricare(s)
  /\ tempo' = [tempo EXCEPT ![s] = 0]
  /\ Vai(s, "inviaDest")
  /\ UNCHANGED <<altrove, stiva, dest, r, reqlett, mercato, coda>>

\* The loading time is added once more, where the reader expects it undone.
ScartaDest(s) ==
  /\ pc[s] = "controllaCarico"
  /\ NonCaricare(s)
  /\ \E n \in 1 .. r[s].nlotti :
       /\ Ridotti(s, n)
       /\ tempo' = [tempo EXCEPT ![s] = tempo[s] + TempoCarico(r[s].indicemerce, n)]
  /\ Vai(s, "inviaDest")
  /\ UNCHANGED <<altrove, stiva, dest, r, reqlett, mercato, coda>>

RimandaDest(s) ==
  /\ pc[s] = "inviaDest"
  /\ InviaRichiesta(s)
  /\ reqlett' = [reqlett EXCEPT ![s] = reqlett[s] + 1]
  /\ Vai(s, DopoLettura(s))
  /\ UNCHANGED <<altrove, stiva, dest, tempo, mercato>>

\* Mutant: the index is the destination's.
RilasciaMercato_Dest(s) ==
  /\ pc[s] = "rilascia"
  /\ semMercato' = Lasciato(semMercato, dest[s])
  /\ Vai(s, "dumpCarico")
  /\ UNCHANGED <<merci, dump, giornata, porto, dest, scarico, datascarico, copia, semBanchine, semDump>>

RilasciaMercato(s) ==
  /\ pc[s] = "rilascia"
  /\ semMercato' = Lasciato(semMercato, porto[s])
  /\ Vai(s, "dumpCarico")
  /\ UNCHANGED <<merci, dump, giornata, porto, dest, scarico, datascarico, copia, semBanchine, semDump>>

-----------------------------------------------------------------------------
(* The goods counters of the dump, and the departure. *)

\* Mutant: the reserve does not wait for its turn.
RiservaDump_SenzaAttesa(s) ==
  /\ pc[s] \in AttesaDump0
  /\ semDump' = Preso(semDump, 0)
  /\ copia' = [copia EXCEPT ![s].merce = merceDump, ![s].porto = portoDump]
  /\ Vai(s, IF pc[s] = "dumpCarico" THEN "scriviCarico" ELSE "scriviScarico")
  /\ UNCHANGED <<merci, dump, giornata, porto, dest, scarico, datascarico, semMercato, semBanchine>>

\* sem_reserve(id_sem_dump, 0) of aggiorna_dump_carico and of scaricamerci,
\* and the reads of the counters about to be changed.
RiservaDump(s) ==
  /\ pc[s] \in AttesaDump0
  /\ Positivo(semDump, 0)
  /\ semDump' = Preso(semDump, 0)
  /\ copia' = [copia EXCEPT ![s].merce = merceDump, ![s].porto = portoDump]
  /\ Vai(s, IF pc[s] = "dumpCarico" THEN "scriviCarico" ELSE "scriviScarico")
  /\ UNCHANGED <<merci, dump, giornata, porto, dest, scarico, datascarico, semMercato, semBanchine>>

ScriviDumpCarico(s) ==
  /\ pc[s] = "scriviCarico"
  /\ IF spaziolibero[s] = SO_CAPACITY THEN UNCHANGED <<merceDump, portoDump>>
     ELSE /\ merceDump' = [g \in Merci |->
               IF carico[s][g] = 0 THEN merceDump[g]
               ELSE [copia[s].merce[g] EXCEPT
                       !["presente_in_nave"] = @ + carico[s][g],
                       !["presente_in_porto"] = @ - carico[s][g]]]
          /\ portoDump' = [portoDump EXCEPT ![porto[s]] =
               [copia[s].porto[porto[s]] EXCEPT
                  !["mercespedita"] = @ + Somma(carico[s]),
                  !["mercepresente"] = @ - Somma(carico[s])]]
  /\ semDump' = Lasciato(semDump, 0)
  /\ copia' = [copia EXCEPT ![s] = CopiaVuota]
  /\ Vai(s, "carica")
  /\ UNCHANGED <<merci, giornata, porto, dest, scarico, datascarico, semMercato, semBanchine, nd>>

\* Mutants: the berth released is the destination's, or none.
LasciaBanchina_Dest(s) ==
  /\ pc[s] = "carica"
  /\ semBanchine' = Lasciato(semBanchine, dest[s])
  /\ Vai(s, "statoPartenza")
  /\ UNCHANGED <<merci, dump, giornata, porto, dest, scarico, datascarico, copia, semMercato, semDump>>
LasciaBanchina_Mai(s) ==
  /\ pc[s] = "carica"
  /\ Vai(s, "statoPartenza")
  /\ UNCHANGED <<altrove, merci, dest>>

\* attesa(.., SO_LOADSPEED); sem_release(id_semaforo_banchine, ..)
LasciaBanchina(s) ==
  /\ pc[s] = "carica"
  /\ semBanchine' = Lasciato(semBanchine, porto[s])
  /\ Vai(s, "statoPartenza")
  /\ UNCHANGED <<merci, dump, giornata, porto, dest, scarico, datascarico, copia, semMercato, semDump>>

-----------------------------------------------------------------------------
(* Unloading. *)

\* attesa(.., SO_LOADSPEED); datascarico = data, read before the wait for
\* the market and used after it.
LeggiData(s) ==
  /\ pc[s] = "scarico"
  /\ datascarico' = [datascarico EXCEPT ![s] = data]
  /\ Vai(s, "mercatoScarico")
  /\ UNCHANGED <<merci, semafori, dump, giornata, porto, dest, scarico, copia>>

Scaduta(s, g) == Lotto[g].exp < datascarico[s]

\* scaricamerci() on one slot, as far as the market: served if the port
\* still asks for that many lots; otherwise the code prints an error.
ScaricaMercato(s) ==
  /\ pc[s] = "scarica"
  /\ \E g \in Merci :
       LET n == carico[s][g] IN
       /\ n > 0
       /\ mercato' = IF ~Scaduta(s, g) /\ mercato[porto[s]][g] <= -n
            THEN [mercato EXCEPT ![porto[s]] =
                    [mercato[porto[s]] EXCEPT ![g] = mercato[porto[s]][g] + n]]
            ELSE mercato
       /\ scarico' = [scarico EXCEPT ![s] = [indice |-> g, val |-> n]]
       /\ carico' = [carico EXCEPT ![s] = [carico[s] EXCEPT ![g] = 0]]
  /\ Vai(s, "dumpScarico")
  /\ UNCHANGED <<ricerca, semafori, dump, giornata, porto, dest, i_carico, spaziolibero, datascarico, copia, coda>>

\* Mutant: what expired aboard counts as delivered.
Esito_Consegnata(s, g) == "consegnata"

Esito(s, g) == IF Scaduta(s, g) THEN "scaduta_in_nave" ELSE "consegnata"

\* scaricamerci(), the dump: delivered or expired aboard.
ScriviDumpScarico(s) ==
  LET g == scarico[s].indice
      n == scarico[s].val
  IN
  /\ pc[s] = "scriviScarico"
  /\ merceDump' = [merceDump EXCEPT ![g] =
       [copia[s].merce[g] EXCEPT !["presente_in_nave"] = @ - n, ![Esito(s, g)] = @ + n]]
  /\ portoDump' = IF Scaduta(s, g) THEN portoDump
       ELSE [portoDump EXCEPT ![porto[s]] =
               [copia[s].porto[porto[s]] EXCEPT !["mercericevuta"] = @ + n]]
  /\ scarico' = [scarico EXCEPT ![s] = [indice |-> 0, val |-> 0]]
  /\ semDump' = Lasciato(semDump, 0)
  /\ copia' = [copia EXCEPT ![s] = CopiaVuota]
  /\ Vai(s, "scarica")
  /\ UNCHANGED <<merci, giornata, porto, dest, datascarico, semMercato, semBanchine, nd>>

\* Mutant: the hold is not reset.
FineScarico_Senza(s) ==
  /\ pc[s] = "scarica"
  /\ \A g \in Merci : carico[s][g] = 0
  /\ semMercato' = Lasciato(semMercato, porto[s])
  /\ tempo' = [tempo EXCEPT ![s] = 0]
  /\ reqlett' = [reqlett EXCEPT ![s] = 0]
  /\ Vai(s, "mercato")
  /\ UNCHANGED <<stiva, dump, giornata, porto, dest, r, scarico, datascarico, copia, semBanchine, semDump, mercato, coda>>

\* All slots done: release the market and reset the locals of the loop.
FineScarico(s) ==
  /\ pc[s] = "scarica"
  /\ \A g \in Merci : carico[s][g] = 0
  /\ semMercato' = Lasciato(semMercato, porto[s])
  /\ spaziolibero' = [spaziolibero EXCEPT ![s] = SO_CAPACITY]
  /\ tempo' = [tempo EXCEPT ![s] = 0]
  /\ i_carico' = [i_carico EXCEPT ![s] = 0]
  /\ reqlett' = [reqlett EXCEPT ![s] = 0]
  /\ Vai(s, "mercato")
  /\ UNCHANGED <<dump, giornata, porto, dest, r, carico, scarico, datascarico, copia, semBanchine, semDump, mercato, coda>>

-----------------------------------------------------------------------------
(* The master's day, and the end. *)

\* controlla_mercato(): some offer not yet expired, or some request.
Offerte == \E p \in Porti, g \in Merci : mercato[p][g] > 0 /\ Lotto[g].exp > data
Richieste == \E p \in Porti, g \in Merci : mercato[p][g] < 0
\* Mutant: requests are not looked at.
ControllaMercato_Offerte == Offerte

ControllaMercato == Offerte \/ Richieste

Controlla ==
  /\ master = "controlla"
  /\ continua' = ControllaMercato
  /\ master' = "pausa"
  /\ UNCHANGED <<merci, semafori, dump, pc, porto, dest, scarico, datascarico, copia, data>>

\* SIGALRM: data++, and the test of the master's do-while.
Giorno ==
  /\ master = "pausa"
  /\ data' = data + 1
  /\ master' = IF data + 1 < SO_DAYS /\ continua THEN "controlla" ELSE "fine"
  /\ UNCHANGED <<merci, semafori, dump, pc, porto, dest, scarico, datascarico, copia, continua>>

\* SIGUSR2 at any point of the ship's code: its handler exits.
Sigusr2(s) ==
  /\ master = "fine"
  /\ pc[s] \notin Finita
  /\ Vai(s, "uscita")
  /\ UNCHANGED <<altrove, merci, dest>>

\* The run is over: every ship has ended.
TuttiUsciti ==
  /\ master = "fine"
  /\ \A s \in Navi : pc[s] \in Finita
  /\ UNCHANGED vars

Passo(s) ==
  \/ RichiediBanchina(s) \/ RiservaStato(s) \/ ScriviStato(s)
  \/ RiservaMercato(s) \/ AccettaPrima(s) \/ CodaVuota(s)
  \/ CaricaPrima(s) \/ RifiutaPrima(s) \/ RimandaPrima(s) \/ InviaResto(s)
  \/ Salta(s) \/ AccettaDest(s) \/ NessunaPerDest(s) \/ ValutaDest(s)
  \/ RifiutaDest(s) \/ CaricaDest(s) \/ ScartaDest(s) \/ RimandaDest(s)
  \/ RilasciaMercato(s) \/ RiservaDump(s) \/ ScriviDumpCarico(s)
  \/ LasciaBanchina(s) \/ LeggiData(s) \/ ScaricaMercato(s)
  \/ ScriviDumpScarico(s) \/ FineScarico(s)

Next == (\E s \in Navi : Passo(s) \/ Sigusr2(s)) \/ Controlla \/ Giorno \/ TuttiUsciti

Spec == Init /\ [][Next]_vars

=============================================================================
