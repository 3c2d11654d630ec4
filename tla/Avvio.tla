-------------------------------- MODULE Avvio --------------------------------
(***************************************************************************)
(* The start: the master (master.c:119-175) forks the ports and the ships, *)
(* every port fills its market row, records it in the dump, sends its      *)
(* requests and sets its berths (porto.c:55-68, porto_lib.c), and all of   *)
(* them meet at semaphore 0 of the set "gestione", which the master has    *)
(* set to the number of its children: each takes one unit and waits for    *)
(* zero.  Module Nave starts where this one ends.                          *)
(***************************************************************************)
EXTENDS Integers, Sequences, FiniteSets, Somma

CONSTANTS
  Navi, SO_PORTI, SO_MERCI,
  MAX_CODA,          \* messages the kernel lets the queue hold
  Righe,             \* the rows spawnMerciPorti may leave for each port
  BanchineTotali,    \* the berths each port draws
  ForkFallibile      \* may a child fail to reach main()?

Porti == 0 .. SO_PORTI - 1
Merci == 0 .. SO_MERCI - 1

ASSUME AvvioAssumption ==
  /\ IsFiniteSet(Navi)
  /\ SO_PORTI \in Nat /\ SO_MERCI \in Nat /\ MAX_CODA \in Nat
  /\ Righe \in [Porti -> SUBSET [Merci -> Int]]
  /\ BanchineTotali \in [Porti -> Nat \ {0}]
  /\ ForkFallibile \in BOOLEAN

VARIABLES
  mpc,               \* the master: "fork", "attesa", "avviato"
  ppc, npc,          \* where each port and each ship is
  prossima,          \* loop index of manda_richieste
  copia,             \* what a port has read of presente_in_porto
  gestione,          \* semaphore 0 of id_semaforo_gestione
  semDump,           \* semaphore 0 of id_semaforo_dump
  semBanchine, mercato, coda,
  presente,          \* merce_dump[].presente_in_porto
  mercepresente      \* porto_dump[].mercepresente

condivise == <<gestione, semDump, semBanchine, mercato, coda, presente, mercepresente>>
vars == <<mpc, ppc, npc, prossima, copia, condivise>>

FasiPorto == {"assente", "fallito", "spawn", "dump", "scriviDump", "invio",
              "banchine", "riserva", "attesa", "pausa"}
FasiNave  == {"assente", "fallito", "riserva", "attesa", "parte"}

Nulla == [g \in Merci |-> 0]

\* Mutant: the master counts itself too.
Figli_Master == SO_PORTI + Cardinality(Navi) + 1

Figli == SO_PORTI + Cardinality(Navi)

\* alloca_risorse(), inizializza_dump() and the sem_set_val of main().
Init ==
  /\ mpc = "fork"
  /\ ppc = [p \in Porti |-> "assente"]
  /\ npc = [s \in Navi |-> "assente"]
  /\ prossima = [p \in Porti |-> 0]
  /\ copia = [p \in Porti |-> Nulla]
  /\ gestione = Figli
  /\ semDump = 1
  /\ semBanchine = [p \in Porti |-> 0]
  /\ mercato = [p \in Porti |-> Nulla]
  /\ coda = << >>
  /\ presente = Nulla
  /\ mercepresente = [p \in Porti |-> 0]

-----------------------------------------------------------------------------
(* The master.  A fork that fails is reported and forgotten; a child whose  *)
(* execve or whose search for the IPC objects fails exits before it touches *)
(* the semaphore.  For the barrier both are a child that never comes.       *)

Esiti(fase) == {fase} \cup (IF ForkFallibile THEN {"fallito"} ELSE {})

ForkPorto(p) ==
  /\ mpc = "fork"
  /\ ppc[p] = "assente"
  /\ \A q \in 0 .. p - 1 : ppc[q] # "assente"
  /\ \E e \in Esiti("spawn") : ppc' = [ppc EXCEPT ![p] = e]
  /\ UNCHANGED <<mpc, npc, prossima, copia, condivise>>

ForkNave(s) ==
  /\ mpc = "fork"
  /\ npc[s] = "assente"
  /\ \A p \in Porti : ppc[p] # "assente"
  /\ \E e \in Esiti("riserva") : npc' = [npc EXCEPT ![s] = e]
  /\ UNCHANGED <<mpc, ppc, prossima, copia, condivise>>

FineFork ==
  /\ mpc = "fork"
  /\ \A p \in Porti : ppc[p] # "assente"
  /\ \A s \in Navi : npc[s] # "assente"
  /\ mpc' = "attesa"
  /\ UNCHANGED <<ppc, npc, prossima, copia, condivise>>

\* Mutant: the semaphore need not be zero.
Zero_Uno == gestione <= 1

\* sem_wait_zero(id_semaforo_gestione, 0)
Zero == gestione = 0

AvviaMaster ==
  /\ mpc = "attesa"
  /\ Zero
  /\ mpc' = "avviato"
  /\ UNCHANGED <<ppc, npc, prossima, copia, condivise>>

-----------------------------------------------------------------------------
(* A port. *)

\* spawnMerciPorti(), as far as the port's own row.
Spawn(p) ==
  /\ ppc[p] = "spawn"
  /\ \E riga \in Righe[p] : mercato' = [mercato EXCEPT ![p] = riga]
  /\ ppc' = [ppc EXCEPT ![p] = "dump"]
  /\ UNCHANGED <<mpc, npc, prossima, copia, gestione, semDump, semBanchine, coda, presente, mercepresente>>

\* Mutant: no sem_reserve.
RiservaDump_Senza(p) ==
  /\ ppc[p] = "dump"
  /\ copia' = [copia EXCEPT ![p] = presente]
  /\ ppc' = [ppc EXCEPT ![p] = "scriviDump"]
  /\ UNCHANGED <<mpc, npc, prossima, condivise>>

\* sem_reserve(id_sem_dump, 0), and the reads of the shared counters.
RiservaDump(p) ==
  /\ ppc[p] = "dump"
  /\ semDump > 0
  /\ semDump' = semDump - 1
  /\ copia' = [copia EXCEPT ![p] = presente]
  /\ ppc' = [ppc EXCEPT ![p] = "scriviDump"]
  /\ UNCHANGED <<mpc, npc, prossima, gestione, semBanchine, mercato, coda, presente, mercepresente>>

Offerta(n) == IF n > 0 THEN n ELSE 0

\* The counters are written and the semaphore released.
ScriviDump(p) ==
  /\ ppc[p] = "scriviDump"
  /\ presente' = [g \in Merci |-> IF mercato[p][g] > 0 THEN copia[p][g] + mercato[p][g]
                                  ELSE presente[g]]
  /\ mercepresente' = [mercepresente EXCEPT
       ![p] = @ + Somma([g \in Merci |-> Offerta(mercato[p][g])])]
  /\ semDump' = semDump + 1
  /\ copia' = [copia EXCEPT ![p] = Nulla]
  /\ ppc' = [ppc EXCEPT ![p] = "invio"]
  /\ UNCHANGED <<mpc, npc, prossima, gestione, semBanchine, mercato, coda>>

\* One turn of manda_richieste(): msgsnd sleeps while the queue is full.
MandaRichiesta(p) ==
  LET g == prossima[p] IN
  /\ ppc[p] = "invio"
  /\ g < SO_MERCI
  /\ mercato[p][g] < 0
  /\ Len(coda) < MAX_CODA
  /\ coda' = Append(coda, [mtype |-> p, indicemerce |-> g, nlotti |-> -mercato[p][g]])
  /\ prossima' = [prossima EXCEPT ![p] = g + 1]
  /\ UNCHANGED <<mpc, ppc, npc, copia, gestione, semDump, semBanchine, mercato, presente, mercepresente>>

SaltaMerce(p) ==
  LET g == prossima[p] IN
  /\ ppc[p] = "invio"
  /\ g < SO_MERCI
  /\ mercato[p][g] >= 0
  /\ prossima' = [prossima EXCEPT ![p] = g + 1]
  /\ UNCHANGED <<mpc, ppc, npc, copia, condivise>>

FineRichieste(p) ==
  /\ ppc[p] = "invio"
  /\ prossima[p] = SO_MERCI
  /\ ppc' = [ppc EXCEPT ![p] = "banchine"]
  /\ UNCHANGED <<mpc, npc, prossima, copia, condivise>>

\* inizializza_banchine(), and the detach from the shared memories.
InizializzaBanchine(p) ==
  /\ ppc[p] = "banchine"
  /\ semBanchine' = [semBanchine EXCEPT ![p] = BanchineTotali[p]]
  /\ ppc' = [ppc EXCEPT ![p] = "riserva"]
  /\ UNCHANGED <<mpc, npc, prossima, copia, gestione, semDump, mercato, coda, presente, mercepresente>>

\* sem_reserve(id_semaforo_gestione, 0)
RiservaPorto(p) ==
  /\ ppc[p] = "riserva"
  /\ gestione > 0
  /\ gestione' = gestione - 1
  /\ ppc' = [ppc EXCEPT ![p] = "attesa"]
  /\ UNCHANGED <<mpc, npc, prossima, copia, semDump, semBanchine, mercato, coda, presente, mercepresente>>

\* sem_wait_zero(id_semaforo_gestione, 0): from here on the port only
\* pauses.
PausaPorto(p) ==
  /\ ppc[p] = "attesa"
  /\ Zero
  /\ ppc' = [ppc EXCEPT ![p] = "pausa"]
  /\ UNCHANGED <<mpc, npc, prossima, copia, condivise>>

-----------------------------------------------------------------------------
(* A ship (nave.c:66-78). *)

RiservaNave(s) ==
  /\ npc[s] = "riserva"
  /\ gestione > 0
  /\ gestione' = gestione - 1
  /\ npc' = [npc EXCEPT ![s] = "attesa"]
  /\ UNCHANGED <<mpc, ppc, prossima, copia, semDump, semBanchine, mercato, coda, presente, mercepresente>>

\* The wait for zero is over: codice_simulazione() begins.
Parte(s) ==
  /\ npc[s] = "attesa"
  /\ Zero
  /\ npc' = [npc EXCEPT ![s] = "parte"]
  /\ UNCHANGED <<mpc, ppc, prossima, copia, condivise>>

-----------------------------------------------------------------------------

Avviato ==
  /\ mpc = "avviato"
  /\ \A p \in Porti : ppc[p] = "pausa"
  /\ \A s \in Navi : npc[s] = "parte"

PassoPorto(p) ==
  \/ Spawn(p) \/ RiservaDump(p) \/ ScriviDump(p)
  \/ MandaRichiesta(p) \/ SaltaMerce(p) \/ FineRichieste(p)
  \/ InizializzaBanchine(p) \/ RiservaPorto(p) \/ PausaPorto(p)

PassoNave(s) == RiservaNave(s) \/ Parte(s)

PassoMaster ==
  \/ \E p \in Porti : ForkPorto(p)
  \/ \E s \in Navi : ForkNave(s)
  \/ FineFork \/ AvviaMaster

\* The last disjunct: the start is over, module Nave goes on from here.
Next ==
  \/ PassoMaster
  \/ \E p \in Porti : PassoPorto(p)
  \/ \E s \in Navi : PassoNave(s)
  \/ Avviato /\ UNCHANGED vars

Spec == Init /\ [][Next]_vars

\* Every process keeps running; no wait of the start is contended more than
\* once by the same process, so weak fairness is enough.
SpecEqua ==
  /\ Spec
  /\ WF_vars(PassoMaster)
  /\ \A p \in Porti : WF_vars(PassoPorto(p))
  /\ \A s \in Navi : WF_vars(PassoNave(s))

=============================================================================
