---------------------------- MODULE NaveProprieta ----------------------------
(***************************************************************************)
(* What the ships promise: the invariants, the action properties and the   *)
(* liveness properties of module Nave.                                     *)
(***************************************************************************)
EXTENDS Nave

Conta(S) == Cardinality(S)

TypeOK ==
  /\ pc \in [Navi -> Fasi]
  /\ porto \in [Navi -> Porti] /\ dest \in [Navi -> Porti]
  /\ r \in [Navi -> Richiesta \cup {NESSUNA}]
  /\ reqlett \in [Navi -> Nat] /\ tempo \in [Navi -> Nat]
  /\ carico \in [Navi -> [Merci -> Nat]]
  /\ i_carico \in [Navi -> Nat]
  /\ spaziolibero \in [Navi -> Nat]
  /\ scarico \in [Navi -> [indice : Merci, val : Nat]]
  /\ datascarico \in [Navi -> Nat]
  /\ copia \in [Navi -> [nd    : [StatiNave -> Int],
                         merce : [Merci -> [CampiMerce -> Int]],
                         porto : [Porti -> [CampiPorto -> Int]]]]
  /\ semMercato \in [Porti -> Nat]
  /\ semBanchine \in [Porti -> Nat]
  /\ semDump \in [{0, 1} -> Nat]
  /\ mercato \in Matrici
  /\ coda \in Seq(Richiesta)
  /\ nd \in [StatiNave -> Int]
  /\ merceDump \in [Merci -> [CampiMerce -> Int]]
  /\ portoDump \in [Porti -> [CampiPorto -> Int]]
  /\ data \in Nat
  /\ continua \in BOOLEAN
  /\ master \in {"controlla", "pausa", "fine"}

-----------------------------------------------------------------------------
(* Semaphores. *)

InCorso == master # "fine"

\* A semaphore and those who hold it: never more holders than units, and,
\* until the ships are killed, no unit lost or made up.
Conserva(sem, i, chi, totale) ==
  /\ sem[i] + Conta(chi) <= totale
  /\ InCorso => sem[i] + Conta(chi) = totale

\* A ship that died on an empty queue still holds its market and its berth.
TieneMercato(s) == pc[s] \in AlMercato \cup {"morta"}

Ormeggiata(s) ==
  pc[s] \notin InNavigazione \cup {"statoPartenza", "scriviPartenza", "uscita"}

\* The market row of a port is in the hands of at most one ship at a time,
\* between sem_reserve(id_semaforo_mercato, p) and its release, through the
\* loading and the unloading phases alike (nave.c:118-257, 293-304).
MercatoEsclusivo ==
  \A p \in Porti :
    Conserva(semMercato, p, {s \in Navi : porto[s] = p /\ TieneMercato(s)}, 1)

\* Each section of the dump has at most one writer (nave_lib.c:53-87 and
\* 113-147).
DumpEsclusivo ==
  /\ Conserva(semDump, 0, {s \in Navi : pc[s] \in NelDump0}, 1)
  /\ Conserva(semDump, 1, {s \in Navi : pc[s] \in NelDump1}, 1)

\* A port never has more ships moored than berths, and a berth is free
\* exactly when no ship is in it (richiedi_banchina, nave.c:263).
BanchineConservate ==
  \A p \in Porti :
    Conserva(semBanchine, p, {s \in Navi : porto[s] = p /\ Ormeggiata(s)},
             BanchineTotali[p])

-----------------------------------------------------------------------------
(* The dump against the facts. *)

\* How the dump should count ship s: stato_nave has been called for its
\* arrival, or for its departure.
StatoDi(s) ==
  IF pc[s] \in InNavigazione \cup {"statoInizio", "scriviInizio",
                                   "statoArrivo", "scriviArrivo"}
  THEN InMareCome(s) ELSE "naviporto"

\* The three ship counters of the dump are exact at every moment, whatever
\* the interleaving of the read-modify-writes of stato_nave().
NaviContate ==
  InCorso => \A c \in StatiNave : nd[c] = Conta({s \in Navi : StatoDi(s) = c})

\* Lots taken from the market that aggiorna_dump_carico has not recorded.
NonRegistrato(s) == pc[s] \in (AlMercato \cup {"dumpCarico", "scriviCarico"})
                              \ {"scarica", "dumpScarico", "scriviScarico"}

\* Goods in the dump: "in port" is what the market offers plus what is being
\* loaded, "aboard" is what the recorded holds carry plus what is being
\* unloaded, for every good and at every moment.
MerceContata ==
  InCorso => \A g \in Merci :
    /\ merceDump[g]["presente_in_porto"] =
         Somma([p \in Porti |-> Offerta(mercato[p][g])])
         + Somma([s \in Navi |-> IF NonRegistrato(s) THEN carico[s][g] ELSE 0])
    /\ merceDump[g]["presente_in_nave"] =
         Somma([s \in Navi |-> IF NonRegistrato(s) THEN 0 ELSE carico[s][g]])
         + Somma([s \in Navi |-> IF scarico[s].indice = g THEN scarico[s].val ELSE 0])

\* Per good and over all ports, what was shipped has been received, has
\* expired aboard, or is aboard: nothing leaves the books (totals of
\* porto_dump against merce_dump).
SpeditaOvunque == Somma([p \in Porti |-> portoDump[p]["mercespedita"]])
RicevutaOvunque == Somma([p \in Porti |-> portoDump[p]["mercericevuta"]])
BilancioPorti ==
  SpeditaOvunque = RicevutaOvunque
    + Somma([g \in Merci |-> merceDump[g]["presente_in_nave"]
                             + merceDump[g]["scaduta_in_nave"]])

-----------------------------------------------------------------------------
(* Requests. *)

InCoda(p, g) ==
  Somma([i \in DOMAIN coda |->
     IF coda[i].mtype = p /\ coda[i].indicemerce = g THEN coda[i].nlotti ELSE 0])
InMano(p, g) ==
  Somma([s \in Navi |->
     IF r[s].mtype = p /\ r[s].indicemerce = g THEN r[s].nlotti ELSE 0])
InViaggio(p, g) ==
  Somma([s \in Navi |-> IF dest[s] = p THEN carico[s][g] ELSE 0])
Attesi(p, g) == Offerta(-mercato[p][g])

\* What ships may still try to deliver to a port never exceeds what the
\* port still asks for, although the market row and the queue are updated
\* apart and by different ships.
RichiestaCoperta ==
  \A p \in Porti, g \in Merci :
    InCoda(p, g) + InMano(p, g) + InViaggio(p, g) <= Attesi(p, g)

\* The error branch of scaricamerci (nave_lib.c:134-136) is never taken: the
\* port still asks for every lot the ship has brought.
MaiErroreScarico ==
  \A s \in Navi, g \in Merci :
    pc[s] = "scarica" /\ carico[s][g] > 0 => mercato[porto[s]][g] <= -carico[s][g]

\* A request is never lost by the queue traffic: over all ports, demand that
\* is neither queued nor aboard is exactly what expired at sea.
RichiesteSmarrite(g) ==
  Somma([p \in Porti |-> Attesi(p, g) - InCoda(p, g) - InMano(p, g) - InViaggio(p, g)])
ScaduteInScarico(g) ==
  Somma([s \in Navi |-> IF scarico[s].indice = g /\ Scaduta(s, g)
                          THEN scarico[s].val ELSE 0])
RichiesteMaiPerse ==
  \A g \in Merci :
    RichiesteSmarrite(g) = merceDump[g]["scaduta_in_nave"] + ScaduteInScarico(g)

\* msgsnd in a ship never finds the queue full, so it never sleeps, and
\* SIGUSR1 can never make it fail with EINTR (queue_lib.c:33-37 would exit
\* with the market semaphore held).
InvioMaiBloccato ==
  \A s \in Navi :
    pc[s] \in {"invia", "inviaResto", "inviaDest"} => Len(coda) < MAX_CODA

\* When the master gives up for lack of offers and requests, no ship has
\* anything left to deliver and no request is waiting (master.c:188).
FineSenzaCarico ==
  ~continua => /\ coda = << >>
               /\ \A s \in Navi : /\ r[s] = NESSUNA
                                  /\ \A g \in Merci : carico[s][g] = 0

-----------------------------------------------------------------------------
(* The hold. *)

InScarico(s) == pc[s] \in {"scarica", "dumpScarico", "scriviScarico"}

\* A ship uses one slot of carico[] per good: a request that comes back
\* after it was loaded in part never adds a second slot.
UnaCasellaPerMerce ==
  \A s \in Navi : ~InScarico(s) /\ pc[s] # "uscita" =>
    i_carico[s] = Conta({g \in Merci : carico[s][g] > 0})

\* "Massima lunghezza dell'array di carico merci delle navi"
\* (definitions.h:148): a ship never uses more slots than carico[] has.
\* Nothing in the code compares i_carico with MAX_CARICO (nave.c:144, 227).
CaricoNellArray == \A s \in Navi : i_carico[s] <= MAX_CARICO

-----------------------------------------------------------------------------
(* Steps. *)

\* An offer or a request only ever shrinks towards zero, and none changes
\* into the other: no step of any ship overdraws a cell.
VersoZero(m, n) == (0 <= n /\ n <= m) \/ (m <= n /\ n <= 0)
MercatoVersoZero ==
  [][\A p \in Porti, g \in Merci : VersoZero(mercato[p][g], mercato'[p][g])]_vars

\* No update of the goods counters is lost: the four counters of a good only
\* trade lots among themselves, and what the dump has once called delivered,
\* expired, shipped or received it never takes back (a ship that wrote from
\* a stale copy would).
Registrati(g) == merceDump[g]["presente_in_porto"] + merceDump[g]["presente_in_nave"]
                 + merceDump[g]["consegnata"] + merceDump[g]["scaduta_in_nave"]
DumpConservato ==
  [][/\ \A g \in Merci :
          /\ Registrati(g)' = Registrati(g)
          /\ \A c \in {"consegnata", "scaduta_in_nave"} :
               merceDump'[g][c] >= merceDump[g][c]
     /\ \A p \in Porti, c \in {"mercespedita", "mercericevuta"} :
          portoDump'[p][c] >= portoDump[p][c]]_vars

\* A further good is loaded only while everything already aboard still gets
\* there in time, counting the days its own loading takes (nave.c:212-217):
\* tempo_carico may say too much after a discarded request (nave.c:220), but
\* never too little.
GiorniDiCarico(s) == Somma([g \in Merci |-> TempoCarico(g, carico[s][g])])
CaricoAncoraInTempo ==
  [][\A s \in Navi : pc[s] = "controllaCarico" /\ carico'[s] # carico[s] =>
       \A g \in Merci : carico[s][g] > 0 =>
         2 * Lotto[g].exp >= Viaggio[porto[s]][dest[s]] + 2 * (data + GiorniDiCarico(s)')]_vars

-----------------------------------------------------------------------------
(* Waiting. *)

Bloccata(s) ==
  \/ pc[s] \in InNavigazione /\ semBanchine[dest[s]] = 0
  \/ pc[s] \in AttesaMercato /\ semMercato[porto[s]] = 0
  \/ pc[s] \in AttesaDump0 /\ semDump[0] = 0
  \/ pc[s] \in AttesaStato /\ semDump[1] = 0

\* The question of nave.c:290: the nested reserves (berth, then market, then
\* dump) cannot close a circle, as long as no ship dies holding one.
NessunoStallo ==
  (InCorso /\ Navi # {} /\ \A s \in Navi : pc[s] # "morta")
    => \E s \in Navi : ~Bloccata(s)

\* Every ship keeps running, and the waiters of a System V semaphore are
\* served in order, so no reserve is overtaken for ever.  Nothing is
\* assumed of the master's clock.
Equita ==
  \A s \in Navi :
    /\ WF_vars(Passo(s))
    /\ SF_vars(RiservaMercato(s)) /\ SF_vars(RichiediBanchina(s))
    /\ SF_vars(RiservaStato(s)) /\ SF_vars(RiservaDump(s))

SpecEqua == Spec /\ Equita

MortaA(p) == \E s \in Navi : pc[s] = "morta" /\ porto[s] = p

\* A ship that waits for the market of its port gets it, unless a ship died
\* there holding it or the simulation ends: the search at the market is
\* bounded by MAX_REQ_LETTE, and every path out of it releases.
MercatoRaggiunto ==
  \A s \in Navi :
    pc[s] \in AttesaMercato ~> \/ pc[s] \in AlMercato
                               \/ MortaA(porto[s]) \/ ~InCorso

\* A ship under way is moored in the end, under the same exceptions: berths
\* are given back although they are held through both market phases.
ApprodoRaggiunto ==
  \A s \in Navi :
    pc[s] \in InNavigazione ~> \/ pc[s] \notin InNavigazione
                               \/ MortaA(dest[s]) \/ ~InCorso

=============================================================================
