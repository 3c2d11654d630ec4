---------------------------- MODULE RisorseProofs ----------------------------
(***************************************************************************)
(* Who owns the System V objects, for any number of starts.  A start that  *)
(* is creating owns the objects it has passed, one that simulates owns     *)
(* them all, and nobody else removes them: IPC_EXCL gives away free keys   *)
(* only, and IPC_RMID takes an identifier.                                 *)
(***************************************************************************)
EXTENDS Risorse, TLAPS

TypeOK ==
  /\ di \in [Oggetti -> Avvii \union {Nessuno}]
  /\ fase \in [Avvii -> {"fermo", "crea", "prepara", "forca", "simula", "distrugge",
                         "finito", "errore", "morto"}]
  /\ passo \in [Avvii -> 1 .. 9]
  /\ figlio \in [Avvii -> {"assente", "cerca", "pronto", "uscito"}]
  /\ cercati \in [Avvii -> 0 .. 9]
  /\ trovati \in [Avvii -> SUBSET Avvii]

\* What a start owns while it creates, simulates and removes.
Proprieta(a) ==
  /\ fase[a] = "crea" => \A n \in 1 .. passo[a] - 1 : di[Creazione[n]] = a
  /\ fase[a] \in {"prepara", "forca", "simula"} => \A o \in Oggetti : di[o] = a
  /\ fase[a] = "distrugge" => \A n \in 1 .. passo[a] - 1 : di[Distruzione[n]] # a
  /\ fase[a] = "finito" => \A o \in Oggetti : di[o] # a

\* A child that is looking for the objects has its master simulating, unless
\* the master has been killed.
ConPadre(a) ==
  /\ figlio[a] = "cerca" => fase[a] \in {"simula", "morto"} /\ cercati[a] < 9
  /\ fase[a] \in {"fermo", "crea", "prepara", "forca"} =>
       figlio[a] = "assente" /\ cercati[a] = 0 /\ trovati[a] = {}
  /\ fase[a] # "morto" => trovati[a] \subseteq {a}

IndInv == TypeOK /\ \A a \in Avvii : Proprieta(a) /\ ConPadre(a)

\* The three orders go through the same nine objects.
LEMMA NoveOggetti ==
  /\ Len(Creazione) = 9 /\ Len(Distruzione) = 9 /\ Len(Ricerca) = 9
  /\ Oggetti = {Creazione[n] : n \in 1 .. 9}
  /\ \A o \in Oggetti : \E n \in 1 .. 9 : o = Distruzione[n]
  /\ \A n \in 1 .. 9 :
       Creazione[n] \in Oggetti /\ Distruzione[n] \in Oggetti /\ Ricerca[n] \in Oggetti
  <1>1. Len(Creazione) = 9 /\ Len(Distruzione) = 9 /\ Len(Ricerca) = 9
    BY DEF Creazione, Distruzione, Ricerca
  <1>2. DOMAIN Creazione = 1 .. 9
    BY DEF Creazione
  <1>3. Oggetti = {Creazione[n] : n \in 1 .. 9}
    BY <1>2 DEF Oggetti
  <1>4. Oggetti = {"mercato", "lotti", "posizioni", "dump", "coda",
                   "semGestione", "semBanchine", "semDump", "semMercato"}
    <2>1. 1 .. 9 = {1, 2, 3, 4, 5, 6, 7, 8, 9}
      OBVIOUS
    <2>2. Oggetti = {Creazione[n] : n \in {1, 2, 3, 4, 5, 6, 7, 8, 9}}
      BY <1>3, <2>1
    <2> QED BY <2>2 DEF Creazione
  <1>5. \A o \in Oggetti : \E n \in 1 .. 9 : o = Distruzione[n]
    BY <1>4 DEF Distruzione
  <1>6. ASSUME NEW n \in 1 .. 9
        PROVE  Creazione[n] \in Oggetti /\ Distruzione[n] \in Oggetti /\ Ricerca[n] \in Oggetti
    <2>1. n \in {1, 2, 3, 4, 5, 6, 7, 8, 9}
      OBVIOUS
    <2> QED BY <1>3, <1>4, <2>1 DEF Distruzione, Ricerca
  <1> QED BY <1>1, <1>3, <1>5, <1>6

LEMMA InizioProprio == Init => IndInv
  BY RisorseAssumption DEF Init, IndInv, TypeOK, Proprieta, ConPadre

\* A start whose own state does not move, and whose objects are neither taken
\* nor given, keeps what is said of it.
LEMMA FermoProprio ==
  ASSUME NEW b \in Avvii, TypeOK, Proprieta(b), ConPadre(b),
         fase'[b] = fase[b], passo'[b] = passo[b], figlio'[b] = figlio[b],
         cercati'[b] = cercati[b], trovati'[b] = trovati[b],
         \A o \in Oggetti : di'[o] = b <=> di[o] = b
  PROVE  Proprieta(b)' /\ ConPadre(b)'
  <1>1. \A n \in 1 .. passo[b] - 1 : n \in 1 .. 9
    BY DEF TypeOK
  <1>2. Proprieta(b)'
    <2>1. \A n \in 1 .. passo[b] - 1 : di'[Creazione[n]] = b <=> di[Creazione[n]] = b
      BY <1>1, NoveOggetti
    <2>2. \A n \in 1 .. passo[b] - 1 : di'[Distruzione[n]] = b <=> di[Distruzione[n]] = b
      BY <1>1, NoveOggetti
    <2> QED BY <2>1, <2>2 DEF Proprieta
  <1>3. ConPadre(b)'
    BY DEF ConPadre
  <1> QED BY <1>2, <1>3

\* The steps of a master that leave the objects and the children alone.
LEMMA PadreDaSolo ==
  ASSUME IndInv, NEW a \in Avvii,
         Parte(a) \/ CreaFallita(a) \/ SetUpLotto(a) \/ DistruggiFallita(a) \/ Ucciso(a)
  PROVE  IndInv'
  <1>1. /\ di' = di /\ figlio' = figlio /\ cercati' = cercati /\ trovati' = trovati
        /\ fase' = [fase EXCEPT ![a] = fase'[a]] /\ passo' = [passo EXCEPT ![a] = 1]
        /\ \/ fase[a] = "fermo" /\ fase'[a] = "crea"
           \/ fase[a] = "crea" /\ fase'[a] = "errore"
           \/ fase[a] = "prepara" /\ fase'[a] \in {"morto", "forca"}
           \/ fase[a] = "distrugge" /\ fase'[a] = "errore"
           \/ fase'[a] = "morto"
    BY DEF Parte, CreaFallita, SetUpLotto, DistruggiFallita, Ucciso, Va, figli, IndInv, TypeOK
  <1>2. TypeOK'
    BY <1>1 DEF IndInv, TypeOK
  <1>3. ASSUME NEW b \in Avvii, b # a PROVE Proprieta(b)' /\ ConPadre(b)'
    <2>1. fase'[b] = fase[b] /\ passo'[b] = passo[b]
      BY <1>1, <1>3 DEF IndInv, TypeOK
    <2> QED BY <1>1, <2>1, FermoProprio DEF IndInv
  <1>4. passo'[a] = 1
    BY <1>1 DEF IndInv, TypeOK
  <1>5. Proprieta(a)'
    BY <1>1, <1>4 DEF IndInv, TypeOK, Proprieta
  <1>6. ConPadre(a)'
    BY <1>1 DEF IndInv, TypeOK, ConPadre
  <1> QED BY <1>2, <1>3, <1>5, <1>6 DEF IndInv

\* An object is created on a free key: nobody else loses it.
LEMMA CreaProprio == ASSUME IndInv, NEW a \in Avvii, Crea(a) PROVE IndInv'
  <1> DEFINE o == Creazione[passo[a]]
  <1>1. /\ fase[a] = "crea" /\ passo[a] \in 1 .. 9 /\ o \in Oggetti /\ di[o] = Nessuno
        /\ di' = [di EXCEPT ![o] = a]
        /\ figlio' = figlio /\ cercati' = cercati /\ trovati' = trovati
    BY NoveOggetti DEF Crea, Libero, figli, IndInv, TypeOK
  <1>2. \/ passo[a] < 9 /\ fase' = [fase EXCEPT ![a] = "crea"]
                        /\ passo' = [passo EXCEPT ![a] = passo[a] + 1]
        \/ passo[a] = 9 /\ fase' = [fase EXCEPT ![a] = "prepara"]
                        /\ passo' = [passo EXCEPT ![a] = 1]
    BY <1>1, NoveOggetti DEF Crea, Va
  <1>3. TypeOK'
    BY <1>1, <1>2 DEF IndInv, TypeOK
  <1>4. ASSUME NEW b \in Avvii, b # a PROVE Proprieta(b)' /\ ConPadre(b)'
    <2>1. \A x \in Oggetti : di'[x] = b <=> di[x] = b
      BY <1>1, <1>4, RisorseAssumption DEF IndInv, TypeOK
    <2>2. fase'[b] = fase[b] /\ passo'[b] = passo[b]
      BY <1>2, <1>4 DEF IndInv, TypeOK
    <2> QED BY <1>1, <2>1, <2>2, FermoProprio DEF IndInv
  <1>5. \A n \in 1 .. passo[a] : di'[Creazione[n]] = a
    <2> SUFFICES ASSUME NEW n \in 1 .. passo[a] PROVE di'[Creazione[n]] = a
      OBVIOUS
    <2>1. n \in 1 .. 9 /\ Creazione[n] \in Oggetti
      BY <1>1, NoveOggetti
    <2>2. CASE n = passo[a]
      BY <1>1, <2>2 DEF IndInv, TypeOK
    <2>3. CASE n # passo[a]
      <3>1. di[Creazione[n]] = a
        BY <1>1, <2>3 DEF IndInv, Proprieta
      <3> QED BY <1>1, <2>1, <3>1 DEF IndInv, TypeOK
    <2> QED BY <2>2, <2>3
  <1>6. Proprieta(a)'
    <2>1. CASE passo[a] < 9
      <3>1. fase'[a] = "crea" /\ passo'[a] - 1 = passo[a]
        BY <1>1, <1>2, <2>1 DEF IndInv, TypeOK
      <3> QED BY <1>5, <3>1 DEF Proprieta
    <2>2. CASE passo[a] = 9
      <3>1. fase'[a] = "prepara"
        BY <1>2, <2>2 DEF IndInv, TypeOK
      <3>2. \A x \in Oggetti : di'[x] = a
        BY <1>5, <2>2, NoveOggetti
      <3> QED BY <3>1, <3>2 DEF Proprieta
    <2> QED BY <1>1, <2>1, <2>2
  <1>7. ConPadre(a)'
    <2>1. fase'[a] \in {"crea", "prepara"}
      BY <1>2 DEF IndInv, TypeOK
    <2> QED BY <1>1, <2>1 DEF IndInv, ConPadre
  <1> QED BY <1>3, <1>4, <1>6, <1>7 DEF IndInv

\* An object is removed by the start that made it: nobody else loses it.
LEMMA DistruggiProprio == ASSUME IndInv, NEW a \in Avvii, Distruggi(a) PROVE IndInv'
  <1> DEFINE o == Distruzione[passo[a]]
  <1>1. /\ fase[a] = "distrugge" /\ passo[a] \in 1 .. 9 /\ o \in Oggetti /\ di[o] = a
        /\ di' = [di EXCEPT ![o] = Nessuno]
        /\ figlio' = figlio /\ cercati' = cercati /\ trovati' = trovati
    BY NoveOggetti DEF Distruggi, figli, IndInv, TypeOK
  <1>2. \/ passo[a] < 9 /\ fase' = [fase EXCEPT ![a] = "distrugge"]
                        /\ passo' = [passo EXCEPT ![a] = passo[a] + 1]
        \/ passo[a] = 9 /\ fase' = [fase EXCEPT ![a] = "finito"]
                        /\ passo' = [passo EXCEPT ![a] = 1]
    BY <1>1, NoveOggetti DEF Distruggi, Va
  <1>3. TypeOK'
    BY <1>1, <1>2 DEF IndInv, TypeOK
  <1>4. ASSUME NEW b \in Avvii, b # a PROVE Proprieta(b)' /\ ConPadre(b)'
    <2>1. \A x \in Oggetti : di'[x] = b <=> di[x] = b
      BY <1>1, <1>4, RisorseAssumption DEF IndInv, TypeOK
    <2>2. fase'[b] = fase[b] /\ passo'[b] = passo[b]
      BY <1>2, <1>4 DEF IndInv, TypeOK
    <2> QED BY <1>1, <2>1, <2>2, FermoProprio DEF IndInv
  <1>5. \A n \in 1 .. passo[a] : di'[Distruzione[n]] # a
    <2> SUFFICES ASSUME NEW n \in 1 .. passo[a] PROVE di'[Distruzione[n]] # a
      OBVIOUS
    <2>1. n \in 1 .. 9 /\ Distruzione[n] \in Oggetti
      BY <1>1, NoveOggetti
    <2>2. CASE n = passo[a]
      BY <1>1, <2>2, RisorseAssumption DEF IndInv, TypeOK
    <2>3. CASE n # passo[a]
      <3>1. di[Distruzione[n]] # a
        BY <1>1, <2>3 DEF IndInv, Proprieta
      <3> QED BY <1>1, <2>1, <3>1, RisorseAssumption DEF IndInv, TypeOK
    <2> QED BY <2>2, <2>3
  <1>6. Proprieta(a)'
    <2>1. CASE passo[a] < 9
      <3>1. fase'[a] = "distrugge" /\ passo'[a] - 1 = passo[a]
        BY <1>1, <1>2, <2>1 DEF IndInv, TypeOK
      <3> QED BY <1>5, <3>1 DEF Proprieta
    <2>2. CASE passo[a] = 9
      <3>1. fase'[a] = "finito"
        BY <1>2, <2>2 DEF IndInv, TypeOK
      <3>2. \A x \in Oggetti : di'[x] # a
        BY <1>5, <2>2, NoveOggetti
      <3> QED BY <3>1, <3>2 DEF Proprieta
    <2> QED BY <1>1, <2>1, <2>2
  <1>7. ConPadre(a)'
    <2>1. fase'[a] \in {"distrugge", "finito"} /\ fase[a] = "distrugge"
      BY <1>1, <1>2 DEF IndInv, TypeOK
    <2> QED BY <1>1, <2>1 DEF IndInv, ConPadre
  <1> QED BY <1>3, <1>4, <1>6, <1>7 DEF IndInv

\* fork(), the look-ups of the child and its end.
LEMMA FiglioProprio ==
  ASSUME IndInv, NEW a \in Avvii, Forca(a) \/ Trova(a) \/ TrovaFallita(a) \/ Conclude(a)
  PROVE  IndInv'
  <1>1. di' = di
    BY DEF Forca, Trova, TrovaFallita, Conclude
  <1>2. ASSUME NEW b \in Avvii, b # a
        PROVE  /\ fase'[b] = fase[b] /\ passo'[b] = passo[b] /\ figlio'[b] = figlio[b]
               /\ cercati'[b] = cercati[b] /\ trovati'[b] = trovati[b]
    BY <1>2 DEF Forca, Trova, TrovaFallita, Conclude, Va, padri, IndInv, TypeOK
  <1>3. ASSUME NEW b \in Avvii, b # a PROVE Proprieta(b)' /\ ConPadre(b)'
    BY <1>1, <1>2, <1>3, FermoProprio DEF IndInv
  <1>4. CASE Forca(a)
    <2>1. TypeOK'
      BY <1>4 DEF Forca, Va, IndInv, TypeOK
    <2>2. Proprieta(a)' /\ ConPadre(a)'
      BY <1>1, <1>4 DEF Forca, Va, IndInv, TypeOK, Proprieta, ConPadre
    <2> QED BY <1>3, <2>1, <2>2 DEF IndInv
  <1>5. CASE Trova(a)
    <2> DEFINE o == Ricerca[cercati[a] + 1]
    <2>1. /\ figlio[a] = "cerca" /\ cercati[a] \in 0 .. 8 /\ o \in Oggetti
          /\ di[o] \in Avvii /\ fase' = fase /\ passo' = passo
          /\ trovati' = [trovati EXCEPT ![a] = trovati[a] \union {di[o]}]
          /\ cercati' = [cercati EXCEPT ![a] = cercati[a] + 1]
      <3>1. figlio[a] = "cerca" /\ cercati[a] \in 0 .. 8
        BY <1>5 DEF Trova, IndInv, TypeOK, ConPadre
      <3>2. o \in Oggetti
        BY <3>1, NoveOggetti
      <3> QED BY <1>5, <3>1, <3>2 DEF Trova, padri, IndInv, TypeOK
    <2>2. figlio' = [figlio EXCEPT ![a] = IF cercati[a] + 1 = 9 THEN "pronto" ELSE "cerca"]
      BY <1>5, <2>1, NoveOggetti DEF Trova, IndInv, TypeOK
    <2>3. TypeOK'
      BY <1>1, <2>1, <2>2 DEF IndInv, TypeOK
    <2>4. Proprieta(a)'
      BY <1>1, <2>1 DEF IndInv, Proprieta
    <2>5. ConPadre(a)'
      <3>1. fase[a] \in {"simula", "morto"}
        BY <2>1 DEF IndInv, ConPadre
      <3>2. fase[a] = "simula" => di[o] = a
        BY <2>1 DEF IndInv, Proprieta
      <3>3. trovati'[a] = trovati[a] \union {di[o]} /\ cercati'[a] = cercati[a] + 1
            /\ (figlio'[a] = "cerca" => cercati'[a] < 9)
        BY <2>1, <2>2 DEF IndInv, TypeOK
      <3> QED BY <2>1, <3>1, <3>2, <3>3 DEF IndInv, ConPadre
    <2> QED BY <1>3, <2>3, <2>4, <2>5 DEF IndInv
  <1>6. CASE TrovaFallita(a)
    <2>1. TypeOK'
      BY <1>6 DEF TrovaFallita, padri, IndInv, TypeOK
    <2>2. Proprieta(a)' /\ ConPadre(a)'
      BY <1>1, <1>6 DEF TrovaFallita, padri, IndInv, TypeOK, Proprieta, ConPadre
    <2> QED BY <1>3, <2>1, <2>2 DEF IndInv
  <1>7. CASE Conclude(a)
    <2>1. TypeOK'
      BY <1>7 DEF Conclude, Va, IndInv, TypeOK
    <2>2. Proprieta(a)' /\ ConPadre(a)'
      BY <1>1, <1>7 DEF Conclude, Va, IndInv, TypeOK, Proprieta, ConPadre
    <2> QED BY <1>3, <2>1, <2>2 DEF IndInv
  <1> QED BY <1>4, <1>5, <1>6, <1>7

\* ipcrm finds nobody creating or simulating.
LEMMA IpcrmProprio == ASSUME IndInv, Ipcrm PROVE IndInv'
  <1>1. /\ di' = [o \in Oggetti |-> Nessuno] /\ fase' = fase /\ passo' = passo
        /\ figlio' = figlio /\ cercati' = cercati /\ trovati' = trovati
    BY DEF Ipcrm, padri, figli
  <1>2. TypeOK'
    BY <1>1 DEF IndInv, TypeOK
  <1>3. ASSUME NEW a \in Avvii PROVE Proprieta(a)' /\ ConPadre(a)'
    <2>1. fase[a] \notin {"crea", "prepara", "forca", "simula"}
      BY DEF Ipcrm, Vivi
    <2>2. \A o \in Oggetti : di'[o] # a
      BY <1>1, RisorseAssumption
    <2>3. \A n \in 1 .. passo[a] - 1 : Distruzione[n] \in Oggetti
      BY NoveOggetti DEF IndInv, TypeOK
    <2>4. Proprieta(a)'
      BY <1>1, <2>1, <2>2, <2>3 DEF Proprieta
    <2> QED BY <1>1, <2>4 DEF IndInv, ConPadre
  <1> QED BY <1>2, <1>3 DEF IndInv

LEMMA Invariante == Spec => []IndInv
  <1>1. IndInv /\ [Next]_vars => IndInv'
    <2> SUFFICES ASSUME IndInv, [Next]_vars PROVE IndInv'
      OBVIOUS
    <2>1. ASSUME NEW a \in Avvii, Avvio(a) PROVE IndInv'
      BY <2>1, PadreDaSolo, CreaProprio, DistruggiProprio, FiglioProprio DEF Avvio
    <2>2. CASE UNCHANGED vars
      BY <2>2 DEF vars, padri, figli, IndInv, TypeOK, Proprieta, ConPadre
    <2> QED BY <2>1, <2>2, IpcrmProprio DEF Next
  <1> QED BY <1>1, InizioProprio, PTL DEF Spec

\* However many starts there are, and wherever they fail or are killed, who
\* simulates owns all nine objects (alloca_shm, sem_create and
\* set_coda_richieste with IPC_EXCL).
THEOREM SempreSeparati == Spec => []Separati
  <1>1. IndInv => Separati
    BY DEF IndInv, Proprieta, Separati
  <1> QED BY <1>1, Invariante, PTL

\* A start that has gone through distruggi_risorse and distruggi_semafori has
\* left nothing behind, whoever created objects meanwhile.
THEOREM FineSemprePulita == Spec => []FinePulita
  <1>1. IndInv => FinePulita
    BY DEF IndInv, Proprieta, FinePulita
  <1> QED BY <1>1, Invariante, PTL

\* The objects a port or a ship finds by key are those of its own simulation,
\* as long as its master has not been killed (inizializza_risorse).
THEOREM FigliSempreAlLoroPosto == Spec => []FigliPropri
  <1>1. IndInv => FigliPropri
    BY DEF IndInv, ConPadre, FigliPropri
  <1> QED BY <1>1, Invariante, PTL

=============================================================================
