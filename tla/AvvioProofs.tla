------------------------------ MODULE AvvioProofs ------------------------------
(***************************************************************************)
(* Proofs about the start: the state is well formed, the barrier holds for *)
(* any number of ports and ships, whichever of them fail to come, and what *)
(* it leaves when it opens is an initial state of module Nave.             *)
(***************************************************************************)
EXTENDS AvvioNave, SommaProofs, SequenceTheorems

-----------------------------------------------------------------------------
(* The barrier. *)

\* Who has yet to take its unit of the semaphore, the lost ones included.
PortiFuori == {p \in Porti : ppc[p] \notin {"attesa", "pausa"}}
NaviFuori  == {s \in Navi : npc[s] \notin {"attesa", "parte"}}

Fasi == /\ mpc \in {"fork", "attesa", "avviato"}
        /\ ppc \in [Porti -> FasiPorto] /\ npc \in [Navi -> FasiNave]

\* The semaphore counts those who have not come.
Conto == gestione = Cardinality(PortiFuori) + Cardinality(NaviFuori)

Passato == \/ mpc = "avviato"
           \/ \E p \in Porti : ppc[p] = "pausa"
           \/ \E s \in Navi : npc[s] = "parte"

Barriera == Fasi /\ Conto /\ (Passato => gestione = 0)

LEMMA Finiti ==
  /\ IsFiniteSet(Porti) /\ Cardinality(Porti) = SO_PORTI
  /\ IsFiniteSet(PortiFuori) /\ Cardinality(PortiFuori) \in Nat
  /\ IsFiniteSet(NaviFuori) /\ Cardinality(NaviFuori) \in Nat
  /\ Cardinality(Navi) \in Nat
<1> USE AvvioAssumption
<1>1. IsFiniteSet(Porti) /\ Cardinality(Porti) = SO_PORTI
  BY FS_Interval DEF Porti
<1>2. PortiFuori \in SUBSET Porti /\ NaviFuori \in SUBSET Navi
  BY DEF PortiFuori, NaviFuori
<1>3. IsFiniteSet(PortiFuori) /\ IsFiniteSet(NaviFuori)
  BY <1>1, <1>2, FS_Subset
<1> QED
  BY <1>1, <1>3, FS_CardinalityType

LEMMA ContoNat == Conto => gestione \in Nat
BY Finiti DEF Conto

\* At zero nobody is missing.
LEMMA ZeroPronti == Conto /\ gestione = 0 => Pronti
<1> SUFFICES ASSUME Conto, gestione = 0 PROVE Pronti
  OBVIOUS
<1>1. Cardinality(PortiFuori) = 0 /\ Cardinality(NaviFuori) = 0
  BY Finiti DEF Conto
<1>2. PortiFuori = {} /\ NaviFuori = {}
  BY <1>1, Finiti, FS_EmptySet
<1> QED
  BY <1>2 DEF PortiFuori, NaviFuori, Pronti

LEMMA InitBarriera == Init => Barriera
<1> SUFFICES ASSUME Init PROVE Barriera
  OBVIOUS
<1>1. PortiFuori = Porti /\ NaviFuori = Navi
  BY DEF Init, PortiFuori, NaviFuori
<1>2. Conto
  BY <1>1, Finiti DEF Init, Conto, Figli
<1>3. Fasi /\ ~Passato
  BY DEF Init, Fasi, FasiPorto, FasiNave, Passato
<1> QED
  BY <1>2, <1>3 DEF Barriera

\* A step that leaves the semaphore alone, and moves nobody in or out, keeps
\* the count.
LEMMA ContoFermo ==
  ASSUME Conto, gestione' = gestione, PortiFuori' = PortiFuori, NaviFuori' = NaviFuori
  PROVE  Conto'
BY DEF Conto

\* The two reserves: one unit, one process.
LEMMA RiservaPortoBarriera ==
  ASSUME Barriera, NEW p \in Porti, RiservaPorto(p)
  PROVE  Barriera'
<1>1. PortiFuori' = PortiFuori \ {p} /\ p \in PortiFuori /\ NaviFuori' = NaviFuori
  BY DEF Barriera, Fasi, RiservaPorto, PortiFuori, NaviFuori
<1>2. Cardinality(PortiFuori') = Cardinality(PortiFuori) - 1
  BY <1>1, Finiti, FS_RemoveElement
<1>3. Conto'
  BY <1>1, <1>2, Finiti, ContoNat DEF Barriera, Conto, RiservaPorto
<1>4. Fasi' /\ ~Passato'
  <2>1. gestione > 0 /\ gestione # 0
    BY ContoNat DEF RiservaPorto, Barriera
  <2>2. ~Passato
    BY <2>1 DEF Barriera
  <2> QED
    BY <2>2 DEF Barriera, Fasi, FasiPorto, RiservaPorto, Passato
<1> QED
  BY <1>3, <1>4 DEF Barriera

LEMMA RiservaNaveBarriera ==
  ASSUME Barriera, NEW s \in Navi, RiservaNave(s)
  PROVE  Barriera'
<1>1. NaviFuori' = NaviFuori \ {s} /\ s \in NaviFuori /\ PortiFuori' = PortiFuori
  BY DEF Barriera, Fasi, RiservaNave, PortiFuori, NaviFuori
<1>2. Cardinality(NaviFuori') = Cardinality(NaviFuori) - 1
  BY <1>1, Finiti, FS_RemoveElement
<1>3. Conto'
  BY <1>1, <1>2, Finiti, ContoNat DEF Barriera, Conto, RiservaNave
<1>4. Fasi' /\ ~Passato'
  <2>1. gestione > 0 /\ gestione # 0
    BY ContoNat DEF RiservaNave, Barriera
  <2>2. ~Passato
    BY <2>1 DEF Barriera
  <2> QED
    BY <2>2 DEF Barriera, Fasi, FasiNave, RiservaNave, Passato
<1> QED
  BY <1>3, <1>4 DEF Barriera

\* A port that moves on before the barrier.
LEMMA PortoFermo ==
  ASSUME Barriera, NEW p \in Porti, NEW fase \in FasiPorto \ {"attesa", "pausa"},
         ppc[p] \notin {"attesa", "pausa"}, ppc' = [ppc EXCEPT ![p] = fase] \/ ppc' = ppc,
         mpc' = mpc, npc' = npc, gestione' = gestione
  PROVE  Barriera'
<1>1. PortiFuori' = PortiFuori /\ NaviFuori' = NaviFuori
  BY DEF Barriera, Fasi, PortiFuori, NaviFuori
<1>2. Conto'
  BY <1>1, ContoFermo DEF Barriera
<1>3. Fasi' /\ (Passato' => Passato)
  BY DEF Barriera, Fasi, Passato
<1> QED
  BY <1>2, <1>3 DEF Barriera

LEMMA NextBarriera == Barriera /\ [Next]_vars => Barriera'
<1> SUFFICES ASSUME Barriera, [Next]_vars PROVE Barriera'
  OBVIOUS
<1> DEFINE Fermi == PortiFuori' = PortiFuori /\ NaviFuori' = NaviFuori /\ gestione' = gestione
<1>0. ASSUME Fermi, Fasi', Passato' => Passato \/ gestione = 0 PROVE Barriera'
  BY <1>0, ContoFermo DEF Barriera
<1>1. ASSUME NEW p \in Porti, ForkPorto(p) PROVE Barriera'
  <2>1. PICK e \in Esiti("spawn") : ppc' = [ppc EXCEPT ![p] = e]
    BY <1>1 DEF ForkPorto
  <2>2. e \in FasiPorto \ {"attesa", "pausa"}
    BY <2>1 DEF Esiti, FasiPorto
  <2> QED
    BY <1>1, <2>1, <2>2, PortoFermo DEF ForkPorto, condivise
<1>2. ASSUME NEW s \in Navi, ForkNave(s) PROVE Barriera'
  <2>1. PICK e \in Esiti("riserva") : npc' = [npc EXCEPT ![s] = e]
    BY <1>2 DEF ForkNave
  <2>2. e \in FasiNave \ {"attesa", "parte"}
    BY <2>1 DEF Esiti, FasiNave
  <2>3. Fermi
    BY <1>2, <2>1, <2>2 DEF ForkNave, Barriera, Fasi, PortiFuori, NaviFuori, condivise
  <2>4. Fasi' /\ (Passato' => Passato)
    BY <1>2, <2>1, <2>2 DEF ForkNave, Barriera, Fasi, Passato
  <2> QED
    BY <1>0, <2>3, <2>4
<1>3. CASE FineFork
  <2>1. Fermi /\ Fasi' /\ (Passato' => Passato)
    BY <1>3 DEF FineFork, Barriera, Fasi, Passato, PortiFuori, NaviFuori, condivise
  <2> QED
    BY <1>0, <2>1
<1>4. CASE AvviaMaster
  <2>1. Fermi /\ Fasi' /\ gestione = 0
    BY <1>4 DEF AvviaMaster, Zero, Barriera, Fasi, PortiFuori, NaviFuori, condivise
  <2> QED
    BY <1>0, <2>1
<1>5. ASSUME NEW p \in Porti,
             \/ Spawn(p) \/ RiservaDump(p) \/ ScriviDump(p) \/ MandaRichiesta(p)
             \/ SaltaMerce(p) \/ FineRichieste(p) \/ InizializzaBanchine(p)
      PROVE  Barriera'
  <2>1. PICK fase \in {"dump", "scriviDump", "invio", "banchine", "riserva"} :
          ppc' = [ppc EXCEPT ![p] = fase] \/ ppc' = ppc
    BY <1>5 DEF Spawn, RiservaDump, ScriviDump, MandaRichiesta, SaltaMerce, FineRichieste,
                InizializzaBanchine
  <2>2. /\ ppc[p] \notin {"attesa", "pausa"}
        /\ mpc' = mpc /\ npc' = npc /\ gestione' = gestione
    BY <1>5 DEF Spawn, RiservaDump, ScriviDump, MandaRichiesta, SaltaMerce, FineRichieste,
                InizializzaBanchine, condivise
  <2>3. fase \in FasiPorto \ {"attesa", "pausa"}
    BY DEF FasiPorto
  <2> QED
    BY <2>1, <2>2, <2>3, PortoFermo
<1>6. ASSUME NEW p \in Porti, PausaPorto(p) PROVE Barriera'
  <2>1. Fermi /\ Fasi' /\ gestione = 0
    BY <1>6 DEF PausaPorto, Zero, Barriera, Fasi, FasiPorto, PortiFuori, NaviFuori, condivise
  <2> QED
    BY <1>0, <2>1
<1>7. ASSUME NEW s \in Navi, Parte(s) PROVE Barriera'
  <2>1. Fermi /\ Fasi' /\ gestione = 0
    BY <1>7 DEF Parte, Zero, Barriera, Fasi, FasiNave, PortiFuori, NaviFuori, condivise
  <2> QED
    BY <1>0, <2>1
<1>8. CASE UNCHANGED vars
  <2>1. Fermi /\ Fasi' /\ (Passato' => Passato)
    BY <1>8 DEF vars, Barriera, Fasi, Passato, PortiFuori, NaviFuori, condivise
  <2> QED
    BY <1>0, <2>1
<1> QED
  BY <1>1, <1>2, <1>3, <1>4, <1>5, <1>6, <1>7, <1>8, RiservaPortoBarriera,
     RiservaNaveBarriera DEF Next, PassoMaster, PassoPorto, PassoNave

\* For any number of ports and ships, and however many of them are lost on
\* the way, nobody passes the barrier before everybody has reached it
\* (sem_reserve and sem_wait_zero on gestione: master.c:175, porto.c:67-68,
\* nave.c:77-78).
THEOREM BarrieraSicura == Spec => []NessunoInAnticipo
<1>1. Barriera => NessunoInAnticipo
  BY ZeroPronti DEF Barriera, Passato, NessunoInAnticipo
<1> QED
  BY InitBarriera, NextBarriera, <1>1, PTL DEF Spec

-----------------------------------------------------------------------------
(* The types. *)

LEMMA InitTypeOK == Init => TypeOK
<1> SUFFICES ASSUME Init PROVE TypeOK
  OBVIOUS
<1> USE AvvioAssumption DEF Init
<1>1. gestione \in Nat /\ semDump \in Nat /\ mpc \in {"fork", "attesa", "avviato"}
  BY Finiti DEF Figli
<1>2. /\ ppc \in [Porti -> FasiPorto] /\ npc \in [Navi -> FasiNave]
      /\ prossima \in [Porti -> 0 .. SO_MERCI]
  BY DEF FasiPorto, FasiNave
<1>3. /\ copia \in [Porti -> [Merci -> Int]] /\ mercato \in [Porti -> [Merci -> Int]]
      /\ presente \in [Merci -> Int]
  BY DEF Nulla
<1>4. semBanchine \in [Porti -> Nat] /\ mercepresente \in [Porti -> Int]
  OBVIOUS
<1>5. coda \in Seq([mtype : Porti, indicemerce : Merci, nlotti : Nat \ {0}])
  BY EmptySeq
<1> QED
  BY <1>1, <1>2, <1>3, <1>4, <1>5 DEF TypeOK

\* What the port writes into the dump is a sum of offers.
LEMMA OffertaNat == \A n \in Int : Offerta(n) \in Nat
BY DEF Offerta

LEMMA ScriviDumpTypeOK ==
  ASSUME TypeOK, NEW p \in Porti, ScriviDump(p)
  PROVE  TypeOK'
<1>1. mercato[p] \in [Merci -> Int] /\ copia[p] \in [Merci -> Int]
  BY DEF TypeOK
<1>2. Somma([g \in Merci |-> Offerta(mercato[p][g])]) \in Nat
  <2>1. [g \in Merci |-> Offerta(mercato[p][g])] \in [Merci -> Nat]
    BY <1>1, OffertaNat
  <2>2. IsFiniteSet(Merci)
    BY AvvioAssumption, FS_Interval DEF Merci
  <2> QED
    BY <2>1, <2>2, UnitaFinita
<1>3. mercepresente' \in [Porti -> Int]
  <2>1. mercepresente[p] + Somma([g \in Merci |-> Offerta(mercato[p][g])]) \in Int
    BY <1>2 DEF TypeOK
  <2> QED
    BY <2>1 DEF TypeOK, ScriviDump
<1>4. presente' \in [Merci -> Int]
  BY <1>1 DEF TypeOK, ScriviDump
<1>5. copia' \in [Porti -> [Merci -> Int]] /\ ppc' \in [Porti -> FasiPorto] /\ semDump' \in Nat
  BY DEF TypeOK, ScriviDump, Nulla, FasiPorto
<1> QED
  BY <1>3, <1>4, <1>5 DEF TypeOK, ScriviDump

LEMMA MandaRichiestaTypeOK ==
  ASSUME TypeOK, NEW p \in Porti, MandaRichiesta(p)
  PROVE  TypeOK'
<1> DEFINE R == [mtype : Porti, indicemerce : Merci, nlotti : Nat \ {0}]
           c == [mtype |-> p, indicemerce |-> prossima[p], nlotti |-> -mercato[p][prossima[p]]]
<1>1. prossima[p] \in Merci
  BY AvvioAssumption DEF TypeOK, MandaRichiesta, Merci
<1>2. c \in R
  <2>1. -mercato[p][prossima[p]] \in Nat \ {0}
    BY <1>1 DEF TypeOK, MandaRichiesta
  <2> QED
    BY <1>1, <2>1
<1>3. coda' \in Seq(R)
  <2>1. coda \in Seq(R) /\ coda' = Append(coda, c)
    BY DEF TypeOK, MandaRichiesta
  <2> QED
    BY <1>2, <2>1, AppendProperties
<1>4. prossima' \in [Porti -> 0 .. SO_MERCI]
  <2>1. prossima[p] + 1 \in 0 .. SO_MERCI
    BY AvvioAssumption DEF TypeOK, MandaRichiesta
  <2> QED
    BY <2>1 DEF TypeOK, MandaRichiesta
<1> QED
  BY <1>3, <1>4 DEF TypeOK, MandaRichiesta

LEMMA NextTypeOK == TypeOK /\ [Next]_vars => TypeOK'
<1> SUFFICES ASSUME TypeOK, [Next]_vars PROVE TypeOK'
  OBVIOUS
<1> USE AvvioAssumption
<1>1. ASSUME NEW p \in Porti, ForkPorto(p) PROVE TypeOK'
  BY <1>1 DEF ForkPorto, Esiti, TypeOK, FasiPorto, condivise
<1>2. ASSUME NEW s \in Navi, ForkNave(s) PROVE TypeOK'
  BY <1>2 DEF ForkNave, Esiti, TypeOK, FasiNave, condivise
<1>3. CASE FineFork \/ AvviaMaster
  BY <1>3 DEF FineFork, AvviaMaster, TypeOK, condivise
<1>4. ASSUME NEW p \in Porti, Spawn(p) PROVE TypeOK'
  <2>1. mercato' \in [Porti -> [Merci -> Int]]
    BY <1>4 DEF Spawn, TypeOK
  <2> QED
    BY <1>4, <2>1 DEF Spawn, TypeOK, FasiPorto
<1>5. ASSUME NEW p \in Porti, RiservaDump(p) PROVE TypeOK'
  BY <1>5 DEF RiservaDump, TypeOK, FasiPorto
<1>6. ASSUME NEW p \in Porti, SaltaMerce(p) PROVE TypeOK'
  <2>1. prossima[p] + 1 \in 0 .. SO_MERCI
    BY <1>6 DEF SaltaMerce, TypeOK
  <2> QED
    BY <1>6, <2>1 DEF SaltaMerce, TypeOK, condivise
<1>7. ASSUME NEW p \in Porti, FineRichieste(p) \/ PausaPorto(p) PROVE TypeOK'
  BY <1>7 DEF FineRichieste, PausaPorto, TypeOK, FasiPorto, condivise
<1>8. ASSUME NEW p \in Porti, InizializzaBanchine(p) PROVE TypeOK'
  <2>1. semBanchine' \in [Porti -> Nat]
    BY <1>8 DEF InizializzaBanchine, TypeOK
  <2> QED
    BY <1>8, <2>1 DEF InizializzaBanchine, TypeOK, FasiPorto
<1>9. ASSUME NEW p \in Porti, RiservaPorto(p) PROVE TypeOK'
  BY <1>9 DEF RiservaPorto, TypeOK, FasiPorto
<1>10. ASSUME NEW s \in Navi, RiservaNave(s) PROVE TypeOK'
  BY <1>10 DEF RiservaNave, TypeOK, FasiNave
<1>11. ASSUME NEW s \in Navi, Parte(s) PROVE TypeOK'
  BY <1>11 DEF Parte, TypeOK, FasiNave, condivise
<1>12. CASE UNCHANGED vars
  BY <1>12 DEF vars, condivise, TypeOK
<1> QED
  BY <1>1, <1>2, <1>3, <1>4, <1>5, <1>6, <1>7, <1>8, <1>9, <1>10, <1>11, <1>12,
     ScriviDumpTypeOK, MandaRichiestaTypeOK DEF Next, PassoMaster, PassoPorto, PassoNave

\* The state of the start is well formed in every behaviour; in particular
\* every message a port sends is a request of a positive number of lots
\* (porto_lib.c:69-75), which is what the ships rely on.
THEOREM AvvioTypeOK == Spec => []TypeOK
BY InitTypeOK, NextTypeOK, PTL DEF Spec

-----------------------------------------------------------------------------
(* What the start leaves behind, port by port. *)

Riempita     == {"dump", "scriviDump", "invio", "banchine", "riserva", "attesa", "pausa"}
DopoDump     == {"invio", "banchine", "riserva", "attesa", "pausa"}
DopoInvio    == {"banchine", "riserva", "attesa", "pausa"}
DopoBanchine == {"riserva", "attesa", "pausa"}

OffertaDi(p) == Somma([g \in Merci |-> Offerta(mercato[p][g])])

\* How far port p has come, by where it is.
Avanzata(p) ==
  /\ ppc[p] \in Riempita => mercato[p] \in Righe[p]
  /\ ppc[p] \in DopoInvio => prossima[p] = SO_MERCI
  /\ ppc[p] \notin DopoDump => prossima[p] = 0
  /\ ppc[p] \in DopoBanchine => semBanchine[p] = BanchineTotali[p]
  /\ mercepresente[p] = IF ppc[p] \in DopoDump THEN OffertaDi(p) ELSE 0

\* One port at a time between the reserve and the release of the dump, and
\* what it has read is what is still there.
DumpDiUno ==
  /\ semDump \in {0, 1}
  /\ semDump = 1 => \A p \in Porti : ppc[p] # "scriviDump"
  /\ semDump = 0 => \E p \in Porti : ppc[p] = "scriviDump"
  /\ \A p, q \in Porti : ppc[p] = "scriviDump" /\ ppc[q] = "scriviDump" => p = q
  /\ \A p \in Porti : ppc[p] = "scriviDump" => copia[p] = presente

\* What port p has declared of good g.
Dichiarata(p, g) == IF ppc[p] \in DopoDump THEN Offerta(mercato[p][g]) ELSE 0
Dichiarate == \A g \in Merci : presente[g] = Somma([p \in Porti |-> Dichiarata(p, g)])

\* The queue holds the requests of every port up to where it has come, once,
\* in the order of the goods.
Mandate ==
  /\ Len(coda) <= MAX_CODA
  /\ \A i \in 1 .. Len(coda) :
       LET p == coda[i].mtype
           g == coda[i].indicemerce
       IN  mercato[p][g] < 0 /\ coda[i].nlotti = -mercato[p][g] /\ g < prossima[p]
  /\ \A p \in Porti, g \in Merci : g < prossima[p] /\ mercato[p][g] < 0 =>
       \E i \in 1 .. Len(coda) : coda[i].mtype = p /\ coda[i].indicemerce = g
  /\ \A i, j \in 1 .. Len(coda) : i < j /\ coda[i].mtype = coda[j].mtype =>
       coda[i].indicemerce < coda[j].indicemerce

InvAvvio == /\ TypeOK /\ Barriera /\ DumpDiUno /\ Dichiarate /\ Mandate
            /\ \A p \in Porti : Avanzata(p)

LEMMA TipiAvvio ==
  ASSUME TypeOK
  PROVE  /\ ppc \in [Porti -> FasiPorto] /\ prossima \in [Porti -> 0 .. SO_MERCI]
         /\ copia \in [Porti -> [Merci -> Int]] /\ mercato \in [Porti -> [Merci -> Int]]
         /\ semBanchine \in [Porti -> Nat] /\ semDump \in Nat
         /\ presente \in [Merci -> Int] /\ mercepresente \in [Porti -> Int]
         /\ coda \in Seq([mtype : Porti, indicemerce : Merci, nlotti : Nat \ {0}])
BY DEF TypeOK

LEMMA CodaTipi ==
  ASSUME TypeOK
  PROVE  /\ Len(coda) \in Nat
         /\ \A i \in 1 .. Len(coda) : coda[i].mtype \in Porti /\ coda[i].indicemerce \in Merci
<1> DEFINE R == [mtype : Porti, indicemerce : Merci, nlotti : Nat \ {0}]
<1>1. coda \in Seq(R)
  BY TipiAvvio
<1>2. \A c \in R : c.mtype \in Porti /\ c.indicemerce \in Merci
  OBVIOUS
<1> HIDE DEF R
<1> QED
  BY <1>1, <1>2, LenProperties, ElementOfSeq

\* What the invariant is about, apart from the barrier.
Resto == <<ppc, prossima, copia, semDump, semBanchine, mercato, coda, presente, mercepresente>>

LEMMA RestoFermo ==
  ASSUME DumpDiUno, Dichiarate, Mandate, \A p \in Porti : Avanzata(p), UNCHANGED Resto
  PROVE  DumpDiUno' /\ Dichiarate' /\ Mandate' /\ \A p \in Porti : Avanzata(p)'
<1>1. DumpDiUno'
  BY DEF Resto, DumpDiUno
<1>2. Dichiarate'
  BY DEF Resto, Dichiarate, Dichiarata
<1>3. Mandate'
  BY DEF Resto, Mandate
<1>4. ASSUME NEW p \in Porti PROVE Avanzata(p)'
  BY DEF Resto, Avanzata, OffertaDi
<1> QED
  BY <1>1, <1>2, <1>3, <1>4

\* A port that moves is the only one that does.
SoloPorto(p) ==
  /\ \A q \in Porti \ {p} :
       /\ ppc'[q] = ppc[q] /\ prossima'[q] = prossima[q] /\ copia'[q] = copia[q]
       /\ semBanchine'[q] = semBanchine[q] /\ mercato'[q] = mercato[q]
       /\ mercepresente'[q] = mercepresente[q]

LEMMA AvanzateAltrove ==
  ASSUME NEW p \in Porti, SoloPorto(p), \A q \in Porti : Avanzata(q), Avanzata(p)'
  PROVE  \A q \in Porti : Avanzata(q)'
<1> SUFFICES ASSUME NEW q \in Porti, q # p PROVE Avanzata(q)'
  OBVIOUS
<1>1. /\ ppc'[q] = ppc[q] /\ prossima'[q] = prossima[q]
      /\ semBanchine'[q] = semBanchine[q] /\ mercato'[q] = mercato[q]
      /\ mercepresente'[q] = mercepresente[q]
  BY DEF SoloPorto
<1>2. OffertaDi(q)' = OffertaDi(q)
  BY <1>1 DEF OffertaDi
<1>3. Avanzata(q)
  OBVIOUS
<1> QED
  BY <1>1, <1>2, <1>3 DEF Avanzata

\* The other ports and the dump.
LEMMA DumpFermo ==
  ASSUME NEW p \in Porti, SoloPorto(p), DumpDiUno, semDump' = semDump, presente' = presente,
         ppc[p] # "scriviDump", ppc'[p] # "scriviDump"
  PROVE  DumpDiUno'
BY DEF DumpDiUno, SoloPorto

LEMMA DichiarateFerme ==
  ASSUME NEW p \in Porti, SoloPorto(p), Dichiarate, presente' = presente,
         \A g \in Merci : Dichiarata(p, g)' = Dichiarata(p, g)
  PROVE  Dichiarate'
<1> SUFFICES ASSUME NEW g \in Merci
             PROVE  presente'[g] = Somma([q \in Porti |-> Dichiarata(q, g)'])
  BY DEF Dichiarate
<1>1. \A q \in Porti : Dichiarata(q, g)' = Dichiarata(q, g)
  BY DEF SoloPorto, Dichiarata
<1>2. [q \in Porti |-> Dichiarata(q, g)'] = [q \in Porti |-> Dichiarata(q, g)]
  BY <1>1
<1> QED
  BY <1>2 DEF Dichiarate

LEMMA MandateFerme ==
  ASSUME Mandate, coda' = coda, mercato' = mercato, prossima' = prossima
  PROVE  Mandate'
BY DEF Mandate

\* The steps of a port that write only its own place.
LEMMA PassoInterno ==
  ASSUME InvAvvio, NEW p \in Porti,
         \/ ForkPorto(p) \/ FineRichieste(p) \/ InizializzaBanchine(p)
         \/ RiservaPorto(p) \/ PausaPorto(p)
  PROVE  DumpDiUno' /\ Dichiarate' /\ Mandate' /\ \A q \in Porti : Avanzata(q)'
<1> USE DEF InvAvvio
<1>1. /\ SoloPorto(p) /\ semDump' = semDump /\ presente' = presente /\ copia' = copia
      /\ coda' = coda /\ mercato' = mercato /\ prossima' = prossima
      /\ mercepresente' = mercepresente
      /\ ppc[p] # "scriviDump" /\ ppc'[p] # "scriviDump"
  BY TipiAvvio DEF ForkPorto, Esiti, FineRichieste, InizializzaBanchine, RiservaPorto, PausaPorto,
                   condivise, SoloPorto
<1>2. DumpDiUno' /\ Mandate'
  BY <1>1, DumpFermo, MandateFerme
<1>3. /\ ppc[p] \in DopoDump <=> ppc'[p] \in DopoDump
      /\ ppc'[p] \in Riempita => ppc[p] \in Riempita
      /\ ppc'[p] \in DopoInvio => ppc[p] \in DopoInvio \/ prossima[p] = SO_MERCI
      /\ ppc'[p] \in DopoBanchine =>
           (ppc[p] \in DopoBanchine /\ semBanchine'[p] = semBanchine[p])
           \/ semBanchine'[p] = BanchineTotali[p]
  BY TipiAvvio DEF ForkPorto, Esiti, FineRichieste, InizializzaBanchine, RiservaPorto, PausaPorto,
                   condivise, Riempita, DopoDump, DopoInvio, DopoBanchine
<1>4. Dichiarate'
  BY <1>1, <1>3, DichiarateFerme DEF Dichiarata
<1>5. Avanzata(p)'
  <2>1. Avanzata(p) /\ OffertaDi(p)' = OffertaDi(p)
    BY <1>1 DEF OffertaDi
  <2> QED
    BY <1>1, <1>3, <2>1 DEF Avanzata
<1> QED
  BY <1>1, <1>2, <1>4, <1>5, AvanzateAltrove

LEMMA PassoSpawn ==
  ASSUME InvAvvio, NEW p \in Porti, Spawn(p)
  PROVE  DumpDiUno' /\ Dichiarate' /\ Mandate' /\ \A q \in Porti : Avanzata(q)'
<1> USE DEF InvAvvio
<1>1. /\ SoloPorto(p) /\ semDump' = semDump /\ presente' = presente /\ copia' = copia
      /\ coda' = coda /\ prossima' = prossima /\ mercepresente' = mercepresente
      /\ ppc[p] = "spawn" /\ ppc'[p] = "dump" /\ mercato'[p] \in Righe[p]
  BY TipiAvvio DEF Spawn, SoloPorto
<1>2. DumpDiUno'
  BY <1>1, DumpFermo
<1>3. prossima[p] = 0 /\ mercepresente[p] = 0
  BY <1>1 DEF Avanzata, DopoDump
<1>4. Dichiarate'
  BY <1>1, DichiarateFerme DEF Dichiarata, DopoDump
<1>5. Avanzata(p)'
  BY <1>1, <1>3 DEF Avanzata, Riempita, DopoDump, DopoInvio, DopoBanchine
<1>6. Mandate'
  <2>1. \A i \in 1 .. Len(coda) : coda[i].mtype \in Porti /\ coda[i].indicemerce \in Nat
    BY CodaTipi, AvvioAssumption DEF Merci
  <2>2. \A i \in 1 .. Len(coda) : coda[i].mtype # p
    BY <1>3, <2>1 DEF Mandate
  <2>3. \A i \in 1 .. Len(coda) : mercato'[coda[i].mtype] = mercato[coda[i].mtype]
    BY <1>1, <2>1, <2>2 DEF SoloPorto
  <2>4. ASSUME NEW q \in Porti, NEW g \in Merci, g < prossima'[q], mercato'[q][g] < 0
        PROVE  \E i \in 1 .. Len(coda) : coda[i].mtype = q /\ coda[i].indicemerce = g
    <3>1. q # p
      BY <1>1, <1>3, <2>4, AvvioAssumption DEF Merci
    <3> QED
      BY <1>1, <2>4, <3>1 DEF Mandate, SoloPorto
  <2> QED
    BY <1>1, <2>3, <2>4 DEF Mandate
<1> QED
  BY <1>1, <1>2, <1>4, <1>5, <1>6, AvanzateAltrove

LEMMA PassoRiserva ==
  ASSUME InvAvvio, NEW p \in Porti, RiservaDump(p)
  PROVE  DumpDiUno' /\ Dichiarate' /\ Mandate' /\ \A q \in Porti : Avanzata(q)'
<1> USE DEF InvAvvio
<1>1. /\ SoloPorto(p) /\ semDump' = semDump - 1 /\ presente' = presente
      /\ copia'[p] = presente /\ semDump > 0
      /\ coda' = coda /\ mercato' = mercato /\ prossima' = prossima
      /\ semBanchine' = semBanchine /\ mercepresente' = mercepresente
      /\ ppc[p] = "dump" /\ ppc'[p] = "scriviDump"
  BY TipiAvvio DEF RiservaDump, SoloPorto
<1>2. semDump = 1 /\ semDump' = 0
  BY <1>1 DEF DumpDiUno
<1>3. DumpDiUno'
  BY <1>1, <1>2 DEF DumpDiUno, SoloPorto
<1>4. Dichiarate' /\ Mandate'
  BY <1>1, DichiarateFerme, MandateFerme DEF Dichiarata, DopoDump
<1>5. Avanzata(p)'
  BY <1>1 DEF Avanzata, Riempita, DopoDump, DopoInvio, DopoBanchine
<1> QED
  BY <1>1, <1>3, <1>4, <1>5, AvanzateAltrove

LEMMA PassoScrivi ==
  ASSUME InvAvvio, NEW p \in Porti, ScriviDump(p)
  PROVE  DumpDiUno' /\ Dichiarate' /\ Mandate' /\ \A q \in Porti : Avanzata(q)'
<1> USE DEF InvAvvio
<1>1. /\ SoloPorto(p) /\ semDump' = semDump + 1
      /\ coda' = coda /\ mercato' = mercato /\ prossima' = prossima
      /\ semBanchine' = semBanchine
      /\ ppc[p] = "scriviDump" /\ ppc'[p] = "invio"
      /\ mercepresente'[p] = mercepresente[p] + OffertaDi(p)
  BY TipiAvvio DEF ScriviDump, SoloPorto, OffertaDi
<1>2. copia[p] = presente /\ semDump = 0
  BY <1>1 DEF DumpDiUno
<1>3. DumpDiUno'
  BY <1>1, <1>2 DEF DumpDiUno, SoloPorto
<1>4. Mandate'
  BY <1>1, MandateFerme
<1>5. \A g \in Merci : mercato[p][g] \in Int /\ presente[g] \in Int
  BY TipiAvvio
<1>6. Dichiarate'
  <2> SUFFICES ASSUME NEW g \in Merci
               PROVE  presente'[g] = Somma([q \in Porti |-> Dichiarata(q, g)'])
    BY DEF Dichiarate
  <2> DEFINE f == [q \in Porti |-> Dichiarata(q, g)]
             h == [q \in Porti |-> Dichiarata(q, g)']
  <2>1. f \in [Porti -> Nat] /\ h \in [Porti -> Nat] /\ IsFiniteSet(Porti)
    <3>1. \A q \in Porti : mercato[q][g] \in Int
      BY TipiAvvio
    <3> QED
      BY <1>1, <3>1, OffertaNat, Finiti DEF Dichiarata
  <2>2. \A q \in Porti \ {p} : h[q] = f[q]
    BY <1>1 DEF Dichiarata, SoloPorto
  <2>3. f[p] = 0 /\ h[p] = Offerta(mercato[p][g])
    BY <1>1 DEF Dichiarata, DopoDump
  <2>4. presente[g] = Somma(f)
    BY DEF Dichiarate
  <2> HIDE DEF f, h
  <2>5. Somma(h) = Somma(f) - f[p] + h[p]
    BY <2>1, <2>2, SommaCambia
  <2>6. presente'[g] = presente[g] + Offerta(mercato[p][g])
    BY <1>2, <1>5 DEF ScriviDump, Offerta
  <2>7. presente'[g] = Somma(h)
    BY <1>5, <2>3, <2>4, <2>5, <2>6, OffertaNat
  <2> QED
    BY <2>7 DEF h
<1>7. Avanzata(p)'
  <2>1. OffertaDi(p)' = OffertaDi(p) /\ mercepresente[p] = 0
    BY <1>1 DEF OffertaDi, Avanzata, DopoDump
  <2>2. OffertaDi(p) \in Nat
    <3>1. [g \in Merci |-> Offerta(mercato[p][g])] \in [Merci -> Nat]
      BY <1>5, OffertaNat
    <3>2. IsFiniteSet(Merci)
      BY AvvioAssumption, FS_Interval DEF Merci
    <3> QED
      BY <3>1, <3>2, UnitaFinita DEF OffertaDi
  <2> QED
    BY <1>1, <2>1, <2>2 DEF Avanzata, Riempita, DopoDump, DopoInvio, DopoBanchine
<1> QED
  BY <1>1, <1>3, <1>4, <1>6, <1>7, AvanzateAltrove

LEMMA PassoInvio ==
  ASSUME InvAvvio, NEW p \in Porti, MandaRichiesta(p) \/ SaltaMerce(p)
  PROVE  DumpDiUno' /\ Dichiarate' /\ Mandate' /\ \A q \in Porti : Avanzata(q)'
<1> USE DEF InvAvvio
<1> DEFINE h == prossima[p]
<1>1. /\ SoloPorto(p) /\ semDump' = semDump /\ presente' = presente
      /\ mercato' = mercato /\ ppc' = ppc /\ prossima'[p] = h + 1
      /\ semBanchine' = semBanchine /\ mercepresente' = mercepresente
      /\ ppc[p] = "invio" /\ h < SO_MERCI /\ h \in Nat
  BY TipiAvvio, AvvioAssumption DEF MandaRichiesta, SaltaMerce, condivise, SoloPorto
<1>2. DumpDiUno' /\ Dichiarate'
  BY <1>1, DumpFermo, DichiarateFerme DEF Dichiarata
<1>3. Avanzata(p)'
  <2>1. OffertaDi(p)' = OffertaDi(p)
    BY <1>1 DEF OffertaDi
  <2> QED
    BY <1>1, <2>1 DEF Avanzata, Riempita, DopoDump, DopoInvio, DopoBanchine
<1>4. h \in Merci /\ mercato[p][h] \in Int
  <2>1. h \in Merci
    BY <1>1, AvvioAssumption DEF Merci
  <2> QED
    BY <2>1, TipiAvvio
<1>5. ASSUME NEW q \in Porti
      PROVE  prossima[q] \in Nat /\ prossima'[q] \in Nat /\ prossima[q] <= prossima'[q]
  <2>1. prossima[q] \in 0 .. SO_MERCI
    BY TipiAvvio
  <2>2. prossima'[q] = IF q = p THEN prossima[q] + 1 ELSE prossima[q]
    BY <1>1 DEF SoloPorto
  <2> QED
    BY <2>1, <2>2, AvvioAssumption
<1>6. /\ Len(coda) \in Nat
      /\ \A i \in 1 .. Len(coda) : coda[i].mtype \in Porti /\ coda[i].indicemerce \in Merci
  BY CodaTipi
<1>7. \A g \in Merci : g \in Nat
  BY AvvioAssumption DEF Merci
<1>8. ASSUME NEW q \in Porti, NEW g \in Merci, g < prossima'[q], ~(q = p /\ g = h)
      PROVE  g < prossima[q]
  BY <1>1, <1>7, <1>8 DEF SoloPorto
<1>9. Mandate'
  <2>1. CASE SaltaMerce(p)
    <3>1. coda' = coda /\ ~(mercato[p][h] < 0)
      BY <1>4, <2>1 DEF SaltaMerce, condivise
    <3>2. \A i \in 1 .. Len(coda) : coda[i].indicemerce < prossima'[coda[i].mtype]
      BY <1>5, <1>6, <1>7 DEF Mandate
    <3>3. \A q \in Porti, g \in Merci : g < prossima'[q] /\ mercato[q][g] < 0 => g < prossima[q]
      BY <1>8, <3>1
    <3> QED
      BY <1>1, <3>1, <3>2, <3>3 DEF Mandate
  <2>2. CASE MandaRichiesta(p)
    <3> DEFINE c == [mtype |-> p, indicemerce |-> h, nlotti |-> -mercato[p][h]]
               n == Len(coda)
    <3>1. coda' = Append(coda, c) /\ n < MAX_CODA /\ mercato[p][h] < 0
      BY <2>2 DEF MandaRichiesta
    <3>2. c.mtype = p /\ c.indicemerce = h /\ c.nlotti = -mercato[p][h]
      OBVIOUS
    <3>3. coda \in Seq([mtype : Porti, indicemerce : Merci, nlotti : Nat \ {0}])
      BY TipiAvvio
    <3>4. /\ Len(coda') = n + 1 /\ coda'[n + 1] = c
          /\ \A i \in 1 .. n : coda'[i] = coda[i]
      BY <3>1, <3>3, AppendProperties
    <3> HIDE DEF c
    <3>5. ASSUME NEW i \in 1 .. n PROVE coda[i].indicemerce < prossima'[coda[i].mtype]
      BY <1>5, <1>6, <1>7 DEF Mandate
    <3>6. ASSUME NEW i \in 1 .. n + 1
          PROVE  /\ mercato[coda'[i].mtype][coda'[i].indicemerce] < 0
                 /\ coda'[i].nlotti = -mercato[coda'[i].mtype][coda'[i].indicemerce]
                 /\ coda'[i].indicemerce < prossima'[coda'[i].mtype]
      <4>1. CASE i = n + 1
        BY <1>1, <3>1, <3>2, <3>4, <4>1
      <4>2. CASE i # n + 1
        <5>1. i \in 1 .. n
          BY <1>6, <4>2
        <5> QED
          BY <3>4, <3>5, <5>1 DEF Mandate
      <4> QED
        BY <4>1, <4>2
    <3>7. ASSUME NEW q \in Porti, NEW g \in Merci, g < prossima'[q], mercato[q][g] < 0
          PROVE  \E i \in 1 .. n + 1 : coda'[i].mtype = q /\ coda'[i].indicemerce = g
      <4>1. CASE q = p /\ g = h
        BY <1>6, <3>2, <3>4, <4>1
      <4>2. CASE ~(q = p /\ g = h)
        <5>1. PICK i \in 1 .. n : coda[i].mtype = q /\ coda[i].indicemerce = g
          BY <1>8, <3>7, <4>2 DEF Mandate
        <5>2. i \in 1 .. n + 1
          BY <1>6
        <5> QED
          BY <3>4, <5>1, <5>2
      <4> QED
        BY <4>1, <4>2
    <3>8. ASSUME NEW i \in 1 .. n + 1, NEW j \in 1 .. n + 1, i < j, coda'[i].mtype = coda'[j].mtype
          PROVE  coda'[i].indicemerce < coda'[j].indicemerce
      <4>1. i \in 1 .. n
        BY <1>6, <3>8
      <4>2. CASE j = n + 1
        BY <3>2, <3>4, <3>8, <4>1, <4>2 DEF Mandate
      <4>3. CASE j # n + 1
        <5>1. j \in 1 .. n
          BY <1>6, <4>3
        <5> QED
          BY <3>4, <3>8, <4>1, <5>1 DEF Mandate
      <4> QED
        BY <4>2, <4>3
    <3>9. n + 1 <= MAX_CODA
      BY <1>6, <3>1, AvvioAssumption
    <3> QED
      BY <1>1, <3>4, <3>6, <3>7, <3>8, <3>9 DEF Mandate
  <2> QED
    BY <2>1, <2>2
<1> QED
  BY <1>1, <1>2, <1>3, <1>9, AvanzateAltrove

LEMMA InitInvAvvio == Init => InvAvvio
<1> SUFFICES ASSUME Init PROVE InvAvvio
  OBVIOUS
<1>1. TypeOK /\ Barriera
  BY InitTypeOK, InitBarriera
<1>2. DumpDiUno
  BY DEF Init, DumpDiUno
<1>3. Mandate
  <2>1. Len(coda) = 0
    BY DEF Init
  <2>2. \A p \in Porti, g \in Merci : ~(g < prossima[p])
    BY AvvioAssumption DEF Init, Merci
  <2> QED
    BY <2>1, <2>2, AvvioAssumption DEF Mandate
<1>4. ASSUME NEW p \in Porti PROVE Avanzata(p)
  BY DEF Init, Avanzata, Riempita, DopoDump, DopoInvio, DopoBanchine
<1>5. Dichiarate
  <2> SUFFICES ASSUME NEW g \in Merci PROVE presente[g] = Somma([p \in Porti |-> Dichiarata(p, g)])
    BY DEF Dichiarate
  <2> DEFINE f == [p \in Porti |-> Dichiarata(p, g)]
  <2>1. f \in [Porti -> Nat] /\ \A p \in Porti : f[p] = 0
    BY DEF Init, Dichiarata, DopoDump
  <2> HIDE DEF f
  <2>2. Somma(f) = 0
    BY <2>1, SommaZero
  <2> QED
    BY <2>2 DEF f, Init, Nulla
<1> QED
  BY <1>1, <1>2, <1>3, <1>4, <1>5 DEF InvAvvio

LEMMA NextInvAvvio == InvAvvio /\ [Next]_vars => InvAvvio'
<1> SUFFICES ASSUME InvAvvio, [Next]_vars PROVE InvAvvio'
  OBVIOUS
<1>1. TypeOK' /\ Barriera'
  BY NextTypeOK, NextBarriera DEF InvAvvio
<1>2. DumpDiUno' /\ Dichiarate' /\ Mandate' /\ \A q \in Porti : Avanzata(q)'
  <2>1. CASE UNCHANGED Resto
    BY <2>1, RestoFermo DEF InvAvvio
  <2>2. ASSUME NEW s \in Navi, ForkNave(s) \/ PassoNave(s) PROVE UNCHANGED Resto
    BY <2>2 DEF ForkNave, PassoNave, RiservaNave, Parte, condivise, Resto
  <2>3. CASE FineFork \/ AvviaMaster \/ UNCHANGED vars
    BY <2>1, <2>3 DEF FineFork, AvviaMaster, vars, condivise, Resto
  <2>4. ASSUME NEW p \in Porti, ForkPorto(p) \/ PassoPorto(p)
        PROVE  DumpDiUno' /\ Dichiarate' /\ Mandate' /\ \A q \in Porti : Avanzata(q)'
    BY <2>4, PassoInterno, PassoSpawn, PassoRiserva, PassoScrivi, PassoInvio DEF PassoPorto
  <2> QED
    BY <2>1, <2>2, <2>3, <2>4 DEF Next, PassoMaster
<1> QED
  BY <1>1, <1>2 DEF InvAvvio

LEMMA SempreInvAvvio == Spec => []InvAvvio
BY InitInvAvvio, NextInvAvvio, PTL DEF Spec

-----------------------------------------------------------------------------
(* The state at the opening of the barrier is an initial state of Nave.     *)

\* The instance has copies of the operators of its own.
LEMMA ConteggioN ==
  ASSUME NEW S
  PROVE  N!Cardinality(S) = Cardinality(S)
BY DEF N!Cardinality, Cardinality

LEMMA SommaUgualeN ==
  ASSUME NEW f
  PROVE  N!Somma(f) = Somma(f)
<1>1. N!Unita(f) = Unita(f)
  BY DEF N!Unita, Unita
<1> QED
  BY <1>1, ConteggioN DEF N!Somma, Somma

LEMMA OffertaN ==
  ASSUME NEW n
  PROVE  N!Offerta(n) = Offerta(n)
BY DEF N!Offerta, Offerta

LEMMA RichiesteN ==
  ASSUME NEW c
  PROVE  c \in N!RichiesteDi(mercato) <=>
           \E p \in Porti, g \in Merci :
             /\ mercato[p][g] < 0
             /\ c = [mtype |-> p, indicemerce |-> g, nlotti |-> -mercato[p][g]]
<1> DEFINE C == {d \in Porti \X Merci : mercato[d[1]][d[2]] < 0}
<1>1. N!RichiesteDi(mercato) =
        {[mtype |-> d[1], indicemerce |-> d[2], nlotti |-> -mercato[d[1]][d[2]]] : d \in C}
  BY DEF N!RichiesteDi, N!Porti, N!Merci, Porti, Merci
<1>2. ASSUME NEW p \in Porti, NEW g \in Merci, mercato[p][g] < 0
      PROVE  [mtype |-> p, indicemerce |-> g, nlotti |-> -mercato[p][g]] \in N!RichiesteDi(mercato)
  <2> DEFINE d == <<p, g>>
  <2>1. d \in C /\ d[1] = p /\ d[2] = g
    BY <1>2
  <2> HIDE DEF d, C
  <2> QED
    BY <1>1, <2>1
<1>3. ASSUME NEW d \in C
      PROVE  d[1] \in Porti /\ d[2] \in Merci /\ mercato[d[1]][d[2]] < 0
  OBVIOUS
<1>4. ASSUME c \in N!RichiesteDi(mercato)
      PROVE  \E p \in Porti, g \in Merci :
               /\ mercato[p][g] < 0
               /\ c = [mtype |-> p, indicemerce |-> g, nlotti |-> -mercato[p][g]]
  <2>1. PICK d \in C : c = [mtype |-> d[1], indicemerce |-> d[2], nlotti |-> -mercato[d[1]][d[2]]]
    BY <1>1, <1>4
  <2> HIDE DEF C
  <2> QED
    BY <1>3, <2>1
<1> QED
  BY <1>2, <1>4

\* The turns that went to the port of turn i, up to it.
Turni(f, i) == Cardinality({j \in 1 .. i : f[j] = f[i]})

LEMMA TurnoN ==
  ASSUME NEW f, NEW i, NEW c
  PROVE  N!Turno(mercato, f, i, c) <=>
           /\ c.mtype = f[i]
           /\ Turni(f, i) =
                Cardinality({d \in N!RichiesteDi(mercato) :
                               d.mtype = c.mtype /\ d.indicemerce <= c.indicemerce})
BY ConteggioN DEF N!Turno, Turni

\* The requests that are in the queue are those the ports had to send, once.
LEMMA CodaCompleta ==
  ASSUME InvAvvio, \A p \in Porti : prossima[p] = SO_MERCI
  PROVE  /\ Len(coda) \in Nat
         /\ \A i \in 1 .. Len(coda) : coda[i] \in N!RichiesteDi(mercato)
         /\ \A i, j \in 1 .. Len(coda) : coda[i] = coda[j] => i = j
         /\ \A c \in N!RichiesteDi(mercato) : \E i \in 1 .. Len(coda) : coda[i] = c
         /\ coda = [i \in 1 .. Len(coda) |-> coda[i]]
<1> USE DEF InvAvvio
<1> DEFINE n == Len(coda)
           R == [mtype : Porti, indicemerce : Merci, nlotti : Nat \ {0}]
<1>1. coda \in Seq(R)
  BY TipiAvvio
<1>2. n \in Nat /\ coda = [i \in 1 .. n |-> coda[i]] /\ \A i \in 1 .. n : coda[i] \in R
  BY <1>1, LenProperties, ElementOfSeq
<1>3. /\ \A g \in Merci : g \in Nat /\ g < SO_MERCI
      /\ \A i \in 1 .. n : coda[i].mtype \in Porti /\ coda[i].indicemerce \in Merci
  BY CodaTipi, AvvioAssumption DEF Merci
<1>4. ASSUME NEW i \in 1 .. n
      PROVE  LET p == coda[i].mtype
                 g == coda[i].indicemerce
             IN  mercato[p][g] < 0 /\ coda[i] = [mtype |-> p, indicemerce |-> g, nlotti |-> -mercato[p][g]]
  <2> DEFINE p == coda[i].mtype
             g == coda[i].indicemerce
  <2>1. mercato[p][g] < 0 /\ coda[i].nlotti = -mercato[p][g]
    BY DEF Mandate
  <2>2. coda[i] = [mtype |-> p, indicemerce |-> g, nlotti |-> coda[i].nlotti]
    BY <1>2
  <2> QED
    BY <2>1, <2>2
<1>5. \A i \in 1 .. n : coda[i] \in N!RichiesteDi(mercato)
  BY <1>3, <1>4, RichiesteN
<1>6. ASSUME NEW i \in 1 .. n, NEW j \in 1 .. n, coda[i] = coda[j], i < j PROVE FALSE
  <2>1. coda[i].indicemerce < coda[j].indicemerce
    BY <1>6 DEF Mandate
  <2>2. coda[j].indicemerce \in Nat
    BY <1>3
  <2> QED
    BY <1>6, <2>1, <2>2
<1>7. \A i, j \in 1 .. n : coda[i] = coda[j] => i = j
  <2> SUFFICES ASSUME NEW i \in 1 .. n, NEW j \in 1 .. n, coda[i] = coda[j], i # j PROVE FALSE
    OBVIOUS
  <2>1. i < j \/ j < i
    BY <1>2
  <2> QED
    BY <1>6, <2>1
<1>8. ASSUME NEW c \in N!RichiesteDi(mercato) PROVE \E i \in 1 .. n : coda[i] = c
  <2>1. PICK p \in Porti, g \in Merci :
          /\ mercato[p][g] < 0
          /\ c = [mtype |-> p, indicemerce |-> g, nlotti |-> -mercato[p][g]]
    BY RichiesteN
  <2>2. g < prossima[p]
    BY <1>3
  <2>3. PICK i \in 1 .. n : coda[i].mtype = p /\ coda[i].indicemerce = g
    BY <2>1, <2>2 DEF Mandate
  <2> QED
    BY <1>4, <2>1, <2>3
<1> QED
  BY <1>2, <1>5, <1>7, <1>8

\* A request of port p is at turn i when as many turns went to p by then as
\* p has requests up to that good.
LEMMA TurnoMandato ==
  ASSUME InvAvvio, \A p \in Porti : prossima[p] = SO_MERCI,
         NEW i \in 1 .. Len(coda)
  PROVE  LET f == [j \in 1 .. Len(coda) |-> coda[j].mtype]
         IN  N!Turno(mercato, f, i, coda[i])
<1> DEFINE n == Len(coda)
           f == [j \in 1 .. n |-> coda[j].mtype]
           A == {j \in 1 .. i : f[j] = f[i]}
           B == {d \in N!RichiesteDi(mercato) :
                   d.mtype = coda[i].mtype /\ d.indicemerce <= coda[i].indicemerce}
           b == [j \in A |-> coda[j]]
<1>1. /\ n \in Nat
      /\ \A j \in 1 .. n : coda[j] \in N!RichiesteDi(mercato)
      /\ \A j, k \in 1 .. n : coda[j] = coda[k] => j = k
      /\ \A c \in N!RichiesteDi(mercato) : \E j \in 1 .. n : coda[j] = c
  BY CodaCompleta
<1>2. 1 .. i \subseteq 1 .. n
  BY <1>1
<1>3. \A j \in 1 .. n : coda[j].indicemerce \in Nat
  BY CodaTipi, AvvioAssumption DEF InvAvvio, Merci
<1>4. \A j, k \in 1 .. n : j < k /\ coda[j].mtype = coda[k].mtype =>
         coda[j].indicemerce < coda[k].indicemerce
  BY DEF InvAvvio, Mandate
<1>5. ASSUME NEW j \in A PROVE coda[j] \in B
  <2>1. j \in 1 .. n /\ coda[j].mtype = coda[i].mtype /\ (j < i \/ j = i)
    BY <1>1, <1>2
  <2>2. coda[j].indicemerce \in Nat /\ coda[i].indicemerce \in Nat
    BY <1>3, <2>1
  <2>3. j < i => coda[j].indicemerce < coda[i].indicemerce
    BY <1>4, <2>1
  <2>4. coda[j].indicemerce <= coda[i].indicemerce
    BY <2>1, <2>2, <2>3
  <2>5. coda[j] \in N!RichiesteDi(mercato)
    BY <1>1, <2>1
  <2> QED
    BY <2>1, <2>4, <2>5
<1>6. ASSUME NEW d \in B PROVE \E j \in A : coda[j] = d
  <2>1. PICK j \in 1 .. n : coda[j] = d
    BY <1>1
  <2>2. ~(i < j)
    BY <1>3, <1>4, <2>1
  <2>3. j \in A
    BY <1>1, <2>1, <2>2
  <2> QED
    BY <2>1, <2>3
<1>7. \A j \in A : j \in 1 .. n
  BY <1>2
<1>8. IsFiniteSet(A)
  <2>1. IsFiniteSet(1 .. i) /\ A \in SUBSET (1 .. i)
    BY <1>1, FS_Interval
  <2> QED
    BY <2>1, FS_Subset
<1>9. f[i] = coda[i].mtype
  OBVIOUS
<1> HIDE DEF A, B
<1>10. /\ b \in [A -> B]
       /\ \A j, k \in A : b[j] = b[k] => j = k
       /\ \A d \in B : \E j \in A : b[j] = d
  BY <1>1, <1>5, <1>6, <1>7
<1> HIDE DEF b
<1>11. b \in Bijection(A, B)
  BY <1>10, Fun_IsBij
<1>12. Cardinality(A) = Cardinality(B)
  BY <1>8, <1>11, FS_Bijection DEF ExistsBijection
<1> QED
  BY <1>9, <1>12, TurnoN DEF A, B, Turni

\* Two turns of the same port are at different counts.
LEMMA TurniCrescenti ==
  ASSUME NEW n \in Nat, NEW f, NEW i \in 1 .. n, NEW k \in 1 .. n, i < k, f[i] = f[k]
  PROVE  Turni(f, i) # Turni(f, k)
<1> DEFINE B == {j \in 1 .. i : f[j] = f[i]}
           D == {j \in 1 .. k : f[j] = f[k]}
<1>1. B \in SUBSET D /\ k \in D /\ k \notin B
  OBVIOUS
<1>2. IsFiniteSet(D)
  <2>1. IsFiniteSet(1 .. k) /\ D \in SUBSET (1 .. k)
    BY FS_Interval
  <2> QED
    BY <2>1, FS_Subset
<1> HIDE DEF B, D
<1>3. IsFiniteSet(B) /\ Cardinality(B) \in Nat
  BY <1>1, <1>2, FS_Subset, FS_CardinalityType
<1>4. Cardinality(B \cup {k}) = Cardinality(B) + 1
  BY <1>1, <1>3, FS_AddElement
<1>5. B \cup {k} \in SUBSET D
  BY <1>1
<1>6. Cardinality(B \cup {k}) <= Cardinality(D) /\ Cardinality(D) \in Nat
  BY <1>2, <1>5, FS_Subset, FS_CardinalityType
<1> QED
  BY <1>3, <1>4, <1>6 DEF B, D, Turni

\* The queue is one of those Nave starts from.
LEMMA CodaPronta ==
  ASSUME InvAvvio, \A p \in Porti : prossima[p] = SO_MERCI
  PROVE  coda \in N!CodeDi(mercato)
<1> DEFINE n == Len(coda)
           R == N!RichiesteDi(mercato)
           f == [j \in 1 .. n |-> coda[j].mtype]
<1>1. /\ n \in Nat
      /\ \A j \in 1 .. n : coda[j] \in R
      /\ \A j, k \in 1 .. n : coda[j] = coda[k] => j = k
      /\ \A c \in R : \E j \in 1 .. n : coda[j] = c
      /\ coda = [i \in 1 .. n |-> coda[i]]
  BY CodaCompleta
<1>2. \A i \in 1 .. n : N!Turno(mercato, f, i, coda[i])
  BY TurnoMandato
<1>3. f \in [1 .. n -> Porti]
  BY CodaTipi DEF InvAvvio
<1> HIDE DEF n, f, R
<1>4. Cardinality(R) = n
  <2>1. coda \in [1 .. n -> R]
    BY <1>1
  <2>2. coda \in Bijection(1 .. n, R)
    BY <1>1, <2>1, Fun_IsBij
  <2>3. IsFiniteSet(1 .. n) /\ Cardinality(1 .. n) = n
    BY <1>1, FS_Interval
  <2> QED
    BY <2>2, <2>3, FS_Bijection DEF ExistsBijection
<1>5. ASSUME NEW i \in 1 .. n, NEW c \in R, N!Turno(mercato, f, i, c)
      PROVE  c = coda[i]
  <2>1. PICK k \in 1 .. n : coda[k] = c
    BY <1>1
  <2>2. N!Turno(mercato, f, k, c) /\ N!Turno(mercato, f, i, c)
    BY <1>2, <1>5, <2>1
  <2> DEFINE K == Cardinality({d \in R : d.mtype = c.mtype /\ d.indicemerce <= c.indicemerce})
  <2>3. c.mtype = f[i] /\ Turni(f, i) = K
    BY <2>2, TurnoN DEF R
  <2>4. c.mtype = f[k] /\ Turni(f, k) = K
    BY <2>2, TurnoN DEF R
  <2> HIDE DEF K
  <2>5. f[i] = f[k] /\ f[k] = f[i] /\ n \in Nat
    BY <1>1, <2>3, <2>4
  <2>6. ASSUME i < k PROVE Turni(f, i) # Turni(f, k)
    BY <2>5, <2>6, TurniCrescenti
  <2>7. ASSUME k < i PROVE Turni(f, k) # Turni(f, i)
    BY <2>5, <2>7, TurniCrescenti
  <2>8. ~(i < k) /\ ~(k < i)
    BY <2>3, <2>4, <2>6, <2>7
  <2>9. i = k
    BY <1>1, <2>8
  <2> QED
    BY <2>1, <2>9
<1>6. \A i \in 1 .. n : coda[i] = CHOOSE c \in R : N!Turno(mercato, f, i, c)
  BY <1>1, <1>2, <1>5
<1>7. coda = [i \in 1 .. n |-> CHOOSE c \in R : N!Turno(mercato, f, i, c)]
  <2> DEFINE g == [i \in 1 .. n |-> CHOOSE c \in R : N!Turno(mercato, f, i, c)]
             h == [i \in 1 .. n |-> coda[i]]
  <2>1. \A i \in 1 .. n : g[i] = h[i]
    BY <1>6
  <2>2. g = h
    BY <2>1
  <2> QED
    BY <1>1, <2>2
<1>8. \A i \in 1 .. n : \E c \in R : N!Turno(mercato, f, i, c)
  BY <1>1, <1>2
<1>9. N!Cardinality(R) = n
  BY <1>4, ConteggioN
<1>10. f \in [1 .. n -> N!Porti]
  BY <1>3 DEF N!Porti, Porti
<1> QED
  BY <1>7, <1>8, <1>9, <1>10 DEF N!CodeDi, R

LEMMA InizioPronto ==
  ASSUME InvAvvio, gestione = 0
  PROVE  N!Init
<1>1. Pronti /\ TypeOK
  BY ZeroPronti DEF InvAvvio, Barriera
<1>2. \A p \in Porti :
        /\ ppc[p] \in Riempita /\ ppc[p] \in DopoDump /\ ppc[p] \in DopoInvio
        /\ ppc[p] \in DopoBanchine /\ ppc[p] # "scriviDump"
  BY <1>1 DEF Pronti, Riempita, DopoDump, DopoInvio, DopoBanchine
<1>3. \A p \in Porti :
        /\ mercato[p] \in Righe[p] /\ prossima[p] = SO_MERCI
        /\ semBanchine[p] = BanchineTotali[p] /\ mercepresente[p] = OffertaDi(p)
  BY <1>2 DEF InvAvvio, Avanzata
<1>4. semDump = 1
  BY <1>2 DEF InvAvvio, DumpDiUno
<1>5. mercato \in Matrice
  BY <1>1, <1>3, TipiAvvio DEF Matrice
<1>6. coda \in N!CodeDi(mercato) /\ Len(coda) <= MAX_CODA
  BY <1>3, CodaPronta DEF InvAvvio, Mandate
<1>7. semBanchine = BanchineTotali
  BY <1>1, <1>3, TipiAvvio, AvvioAssumption
<1>8. \A g \in Merci : presente[g] = Somma([p \in Porti |-> Offerta(mercato[p][g])])
  <2> SUFFICES ASSUME NEW g \in Merci
               PROVE  presente[g] = Somma([p \in Porti |-> Offerta(mercato[p][g])])
    OBVIOUS
  <2>1. \A p \in Porti : Dichiarata(p, g) = Offerta(mercato[p][g])
    BY <1>2 DEF Dichiarata
  <2>2. [p \in Porti |-> Dichiarata(p, g)] = [p \in Porti |-> Offerta(mercato[p][g])]
    BY <2>1
  <2> QED
    BY <2>2 DEF InvAvvio, Dichiarate
<1>9. N!Porti = Porti /\ N!Merci = Merci
  BY DEF N!Porti, Porti, N!Merci, Merci
<1>10. [g \in Merci |-> Contatori(presente[g])] =
         [g \in Merci |-> [c \in N!CampiMerce |->
            IF c = "presente_in_porto"
              THEN N!Somma([p \in Porti |-> N!Offerta(mercato[p][g])]) ELSE 0]]
  <2>1. ASSUME NEW g \in Merci
        PROVE  Contatori(presente[g]) = [c \in N!CampiMerce |->
            IF c = "presente_in_porto"
              THEN N!Somma([p \in Porti |-> N!Offerta(mercato[p][g])]) ELSE 0]
    <3>1. N!Somma([p \in Porti |-> N!Offerta(mercato[p][g])]) = presente[g]
      BY <1>8, SommaUgualeN, OffertaN
    <3>2. Contatori(presente[g]) =
            [c \in N!CampiMerce |-> IF c = "presente_in_porto" THEN presente[g] ELSE 0]
      BY DEF Contatori, N!CampiMerce
    <3> QED
      BY <3>1, <3>2
  <2> QED
    BY <2>1
<1>11. [p \in Porti |-> Voci(mercepresente[p])] =
         [p \in Porti |-> [c \in N!CampiPorto |->
            IF c = "mercepresente"
              THEN N!Somma([g \in Merci |-> N!Offerta(mercato[p][g])]) ELSE 0]]
  <2>1. ASSUME NEW p \in Porti
        PROVE  Voci(mercepresente[p]) = [c \in N!CampiPorto |->
            IF c = "mercepresente"
              THEN N!Somma([g \in Merci |-> N!Offerta(mercato[p][g])]) ELSE 0]
    <3>1. N!Somma([g \in Merci |-> N!Offerta(mercato[p][g])]) = mercepresente[p]
      BY <1>3, SommaUgualeN, OffertaN DEF OffertaDi
    <3>2. Voci(mercepresente[p]) =
            [c \in N!CampiPorto |-> IF c = "mercepresente" THEN mercepresente[p] ELSE 0]
      BY DEF Voci, N!CampiPorto
    <3> QED
      BY <3>1, <3>2
  <2> QED
    BY <2>1
<1>12. [naviporto |-> 0, naviscariche |-> Cardinality(Navi), navicariche |-> 0] =
         [c \in N!StatiNave |-> IF c = "naviscariche" THEN N!Cardinality(Navi) ELSE 0]
  BY ConteggioN DEF N!StatiNave
<1>13. [s \in Navi |-> 0] \in [Navi -> Porti]
  BY AvvioAssumption, AvvioNaveAssumption DEF Porti
<1>14. [nd |-> [c \in {"naviporto", "naviscariche", "navicariche"} |-> 0],
        merce |-> [g \in Merci |-> Contatori(0)],
        porto |-> [p \in Porti |-> Voci(0)]] = N!CopiaVuota
  <2>1. Contatori(0) = [c \in N!CampiMerce |-> 0]
    BY DEF Contatori, N!CampiMerce
  <2>2. Voci(0) = [c \in N!CampiPorto |-> 0]
    BY DEF Voci, N!CampiPorto
  <2> QED
    BY <1>9, <2>1, <2>2 DEF N!CopiaVuota, N!StatiNave
<1>15. [i \in {0, 1} |-> IF i = 0 THEN semDump ELSE 1] = [i \in {0, 1} |-> 1]
  BY <1>4
<1> QED
  BY <1>5, <1>6, <1>7, <1>9, <1>10, <1>11, <1>12, <1>13, <1>14, <1>15
     DEF N!Init, N!InitMerce, N!NESSUNA, Nulla

\* Whatever the children do in whatever order, once the barrier is open the
\* ports have left, in what they share with the ships, an initial state of
\* module Nave (master.c:119-175, porto.c:55-68): what NaveProofs and
\* MerciProofs prove from there on is proved from where the start really ends.
THEOREM InizioSempreNave == Spec => []InizioNave
<1>1. InvAvvio => InizioNave
  BY InizioPronto DEF InizioNave
<1> QED
  BY SempreInvAvvio, <1>1, PTL

=============================================================================
