----------------------------- MODULE NaveProofs -----------------------------
(***************************************************************************)
(* Proofs about the ships, for any number of ships, ports and goods, and   *)
(* for any lots, markets, travel times and limits that NaveAssumption      *)
(* allows: the state is well formed (IInv); the units of a semaphore and   *)
(* its holders add up to the initial value, less what killed ships took    *)
(* with them (Inv); a ship's locals agree with the point it has reached,   *)
(* its hold with its free space, and its copy of the dump with the dump    *)
(* (InvMerci); the ship counters of the dump are exact.                    *)
(***************************************************************************)
EXTENDS NaveProprieta, SommaProofs, SequenceTheorems

\* Where the code uses the fields of r, a request is in hand.
ConRichiesta ==
  \A s \in Navi :
    pc[s] \in {"valuta", "invia", "inviaResto", "valutaDest", "controllaCarico",
               "inviaDest"} => r[s] \in Richiesta

IInv == TypeOK /\ ConRichiesta

-----------------------------------------------------------------------------
(* The operators of the module. *)

LEMMA PesoNat ==
  ASSUME NEW g \in Merci, NEW n \in Nat
  PROVE  Peso(g, n) \in Nat /\ TempoCarico(g, n) \in Nat
<1>1. Lotto[g].val \in Nat /\ SO_LOADSPEED \in Nat \ {0}
  BY NaveAssumption
<1>2. Peso(g, n) \in Nat
  BY <1>1 DEF Peso
<1>3. Peso(g, n) \div SO_LOADSPEED \in Nat
  BY <1>1, <1>2
<1> QED
  BY <1>2, <1>3 DEF TempoCarico

LEMMA MerciFinite == IsFiniteSet(Merci) /\ IsFiniteSet(Porti)
BY NaveAssumption, FS_Interval DEF Merci, Porti

LEMMA RimossoSeq ==
  ASSUME NEW S, NEW q \in Seq(S), NEW i \in DOMAIN q
  PROVE  RemoveAt(q, i) \in Seq(S)
<1>1. DOMAIN q = 1 .. Len(q) /\ Len(q) \in Nat /\ \A j \in 1 .. Len(q) : q[j] \in S
  BY LenProperties, ElementOfSeq
<1>2. SubSeq(q, 1, i - 1) \in Seq(S)
  BY <1>1, SubSeqProperties
<1>3. SubSeq(q, i + 1, Len(q)) \in Seq(S)
  BY <1>1, SubSeqProperties
<1> QED
  BY <1>2, <1>3, ConcatProperties DEF RemoveAt

\* What a ship takes from the queue is a request, and leaves requests.
LEMMA EstraiTipi ==
  ASSUME coda \in Seq(Richiesta), r \in [Navi -> Richiesta \cup {NESSUNA}],
         NEW s \in Navi, NEW i \in DOMAIN coda, Estrai(s, i)
  PROVE  /\ coda' \in Seq(Richiesta)
         /\ r' \in [Navi -> Richiesta \cup {NESSUNA}]
         /\ r'[s] \in Richiesta
         /\ \A q \in Navi \ {s} : r'[q] = r[q]
<1>1. coda[i] \in Richiesta
  BY LenProperties, ElementOfSeq
<1>2. coda' \in Seq(Richiesta)
  BY RimossoSeq DEF Estrai
<1> QED
  BY <1>1, <1>2 DEF Estrai

\* What a ship sends is the request it holds.
LEMMA InviaTipi ==
  ASSUME coda \in Seq(Richiesta), r \in [Navi -> Richiesta \cup {NESSUNA}],
         NEW s \in Navi, r[s] \in Richiesta, InviaRichiesta(s)
  PROVE  /\ coda' \in Seq(Richiesta)
         /\ r' \in [Navi -> Richiesta \cup {NESSUNA}]
         /\ \A q \in Navi \ {s} : r'[q] = r[q]
BY AppendProperties DEF InviaRichiesta

LEMMA RestoRichiesta ==
  ASSUME NEW q \in Richiesta, NEW k \in Nat \ {0}
  PROVE  [q EXCEPT !.nlotti = k] \in Richiesta
BY DEF Richiesta

\* Loading n lots of the request in hand keeps every type; the free space
\* stays a natural number because n lots fit in it.
LEMMA ImbarcaTipi ==
  ASSUME TypeOK, NEW s \in Navi, r[s] \in Richiesta,
         NEW n \in 1 .. r[s].nlotti, Ridotti(s, n), Imbarca(s, n)
  PROVE  /\ carico' \in [Navi -> [Merci -> Nat]]
         /\ i_carico' \in [Navi -> Nat]
         /\ spaziolibero' \in [Navi -> Nat]
         /\ mercato' \in Matrici
         /\ r' \in [Navi -> Richiesta \cup {NESSUNA}]
         /\ n < r[s].nlotti => r'[s] \in Richiesta
         /\ \A q \in Navi \ {s} : r'[q] = r[q]
<1> DEFINE g == r[s].indicemerce
<1>1. g \in Merci /\ n \in Nat /\ r[s].nlotti \in Nat \ {0} /\ r[s].mtype \in Porti
  BY DEF Richiesta
<1>2. carico' \in [Navi -> [Merci -> Nat]]
  <2>0. carico[s] \in [Merci -> Nat]
    BY DEF TypeOK
  <2>1. carico[s][g] + n \in Nat
    BY <1>1, <2>0
  <2>2. [carico[s] EXCEPT ![g] = carico[s][g] + n] \in [Merci -> Nat]
    BY <2>0, <2>1
  <2> QED
    BY <2>2 DEF TypeOK, Imbarca
<1>3. i_carico' \in [Navi -> Nat]
  BY DEF TypeOK, Imbarca
<1>4. spaziolibero' \in [Navi -> Nat]
  <2>1. Peso(g, n) \in Nat /\ Peso(g, n) <= spaziolibero[s] /\ spaziolibero[s] \in Nat
    <3>1. Peso(g, n) \in Nat
      BY <1>1, PesoNat
    <3>2. Peso(g, n) <= spaziolibero[s]
      BY DEF Ridotti
    <3> QED
      BY <3>1, <3>2 DEF TypeOK
  <2>2. spaziolibero[s] - Peso(g, n) \in Nat
    BY <2>1
  <2> QED
    BY <2>2 DEF TypeOK, Imbarca
<1>5. mercato' \in Matrici
  <2> DEFINE riga == [mercato[porto[s]] EXCEPT ![g] = mercato[porto[s]][g] - n]
  <2>1. porto[s] \in Porti /\ mercato \in [Porti -> [Merci -> Int]]
    BY DEF TypeOK, Matrici
  <2>2. mercato[porto[s]] \in [Merci -> Int] /\ mercato[porto[s]][g] - n \in Int
    BY <1>1, <2>1
  <2>3. riga \in [Merci -> Int]
    BY <2>2
  <2>4. mercato' = [mercato EXCEPT ![porto[s]] = riga]
    BY DEF Imbarca
  <2> HIDE DEF riga, g
  <2> QED
    BY <2>1, <2>3, <2>4 DEF Matrici
<1>6. /\ Resto(r[s], n) \in Richiesta \cup {NESSUNA}
      /\ n < r[s].nlotti => Resto(r[s], n) \in Richiesta
  <2>1. ASSUME n < r[s].nlotti PROVE Resto(r[s], n) \in Richiesta
    <3>1. r[s].nlotti - n \in Nat \ {0}
      BY <1>1, <2>1
    <3>2. Resto(r[s], n) = [r[s] EXCEPT !.nlotti = r[s].nlotti - n]
      BY <2>1, Zenon DEF Resto
    <3>3. [r[s] EXCEPT !.nlotti = r[s].nlotti - n] \in Richiesta
      <4> DEFINE k == r[s].nlotti - n
      <4> HIDE DEF k
      <4>1. k \in Nat \ {0}
        BY <3>1 DEF k
      <4>2. [r[s] EXCEPT !.nlotti = k] \in Richiesta
        BY <4>1, RestoRichiesta
      <4> QED
        BY <4>2 DEF k
    <3> QED
      BY <3>2, <3>3
  <2>2. ~(n < r[s].nlotti) => Resto(r[s], n) = NESSUNA
    BY Zenon DEF Resto
  <2> QED
    BY <2>1, <2>2
<1>7. /\ r' \in [Navi -> Richiesta \cup {NESSUNA}]
      /\ n < r[s].nlotti => r'[s] \in Richiesta
      /\ \A q \in Navi \ {s} : r'[q] = r[q]
  BY <1>6 DEF TypeOK, Imbarca
<1> QED
  BY <1>2, <1>3, <1>4, <1>5, <1>7

-----------------------------------------------------------------------------
(* The initial states. *)

LEMMA RichiesteIniziali ==
  ASSUME NEW m \in Matrici
  PROVE  /\ RichiesteDi(m) \subseteq Richiesta
         /\ IsFiniteSet(RichiesteDi(m))
<1> DEFINE C == {c \in Porti \X Merci : m[c[1]][c[2]] < 0}
           h == [c \in C |-> [mtype |-> c[1], indicemerce |-> c[2], nlotti |-> -m[c[1]][c[2]]]]
<1>1. RichiesteDi(m) \subseteq Richiesta
  BY DEF RichiesteDi, Richiesta, Matrici
<1>2. IsFiniteSet(Porti \X Merci)
  BY MerciFinite, FS_Product
<1>3. IsFiniteSet(C)
  BY <1>2, FS_Subset
<1>4. h \in [C -> RichiesteDi(m)] /\ \A t \in RichiesteDi(m) : \E c \in C : h[c] = t
  BY DEF RichiesteDi
<1>5. h \in Surjection(C, RichiesteDi(m))
  <2> HIDE DEF h, C
  <2> QED
    BY <1>4, Fun_IsSurj
<1>6. IsFiniteSet(RichiesteDi(m))
  <2> HIDE DEF h, C
  <2> QED
    BY <1>3, <1>5, FS_Surjection
<1> QED
  BY <1>1, <1>6

LEMMA CodeIniziali ==
  ASSUME NEW m \in Matrici, NEW q \in CodeDi(m)
  PROVE  q \in Seq(Richiesta)
<1> DEFINE n == Cardinality(RichiesteDi(m))
<1>1. n \in Nat
  BY RichiesteIniziali, FS_CardinalityType
<1>2. PICK f \in [1 .. n -> Porti] :
        /\ \A i \in 1 .. n : \E c \in RichiesteDi(m) : Turno(m, f, i, c)
        /\ q = [i \in 1 .. n |-> CHOOSE c \in RichiesteDi(m) : Turno(m, f, i, c)]
  BY DEF CodeDi
<1>3. \A i \in 1 .. n : (CHOOSE c \in RichiesteDi(m) : Turno(m, f, i, c)) \in Richiesta
  BY <1>2, RichiesteIniziali
<1>4. q \in [1 .. n -> Richiesta]
  BY <1>2, <1>3
<1> QED
  BY <1>1, <1>4, SeqDef

LEMMA OffertaNat == \A n \in Int : Offerta(n) \in Nat
BY DEF Offerta

LEMMA InitMerceTipi ==
  ASSUME NEW m \in Matrici, InitMerce(m)
  PROVE  /\ merceDump \in [Merci -> [CampiMerce -> Int]]
         /\ portoDump \in [Porti -> [CampiPorto -> Int]]
<1>1. \A g \in Merci : Somma([p \in Porti |-> Offerta(m[p][g])]) \in Nat
  <2> TAKE g \in Merci
  <2>1. [p \in Porti |-> Offerta(m[p][g])] \in [Porti -> Nat]
    BY OffertaNat DEF Matrici
  <2> QED
    BY <2>1, MerciFinite, UnitaFinita
<1>2. \A p \in Porti : Somma([g \in Merci |-> Offerta(m[p][g])]) \in Nat
  <2> TAKE p \in Porti
  <2>1. [g \in Merci |-> Offerta(m[p][g])] \in [Merci -> Nat]
    BY OffertaNat DEF Matrici
  <2> QED
    BY <2>1, MerciFinite, UnitaFinita
<1> QED
  BY <1>1, <1>2 DEF InitMerce

LEMMA InitIInv == Init => IInv
<1> SUFFICES ASSUME Init PROVE IInv
  OBVIOUS
<1>1. mercato \in Matrici /\ coda \in Seq(Richiesta)
  BY NaveAssumption, CodeIniziali DEF Init
<1>2. /\ merceDump \in [Merci -> [CampiMerce -> Int]]
      /\ portoDump \in [Porti -> [CampiPorto -> Int]]
  BY <1>1, InitMerceTipi DEF Init
<1>3. nd \in [StatiNave -> Int]
  BY NaveAssumption, FS_CardinalityType DEF Init
<1>4. copia \in [Navi -> [nd : [StatiNave -> Int], merce : [Merci -> [CampiMerce -> Int]],
                          porto : [Porti -> [CampiPorto -> Int]]]]
  BY DEF Init, CopiaVuota
<1>5. pc \in [Navi -> Fasi] /\ dest \in [Navi -> Porti] /\ porto \in [Navi -> Porti]
  BY DEF Init, Fasi, InNavigazione
<1>6. /\ reqlett \in [Navi -> Nat] /\ tempo \in [Navi -> Nat] /\ i_carico \in [Navi -> Nat]
      /\ datascarico \in [Navi -> Nat] /\ carico \in [Navi -> [Merci -> Nat]]
      /\ spaziolibero \in [Navi -> Nat]
      /\ r \in [Navi -> Richiesta \cup {NESSUNA}]
  BY NaveAssumption DEF Init
<1>7. scarico \in [Navi -> [indice : Merci, val : Nat]]
  BY NaveAssumption DEF Init, Merci
<1>8. /\ semMercato \in [Porti -> Nat] /\ semBanchine \in [Porti -> Nat]
      /\ semDump \in [{0, 1} -> Nat] /\ data \in Nat /\ continua \in BOOLEAN
      /\ master \in {"controlla", "pausa", "fine"}
  BY NaveAssumption DEF Init
<1>9. ConRichiesta
  BY DEF Init, ConRichiesta
<1> QED
  BY <1>1, <1>2, <1>3, <1>4, <1>5, <1>6, <1>7, <1>8, <1>9 DEF IInv, TypeOK

-----------------------------------------------------------------------------
(* The steps.  Only r and coda, and the sums written into the dump, need    *)
(* more than the definitions.                                               *)

StatiRichiesta == {"valuta", "invia", "inviaResto", "valutaDest", "controllaCarico",
                   "inviaDest"}

\* A ship that moves to fase leaves the requests of the others alone.
LEMMA ConRichiestaPasso ==
  ASSUME IInv, NEW s \in Navi, NEW fase \in Fasi, Vai(s, fase),
         \A q \in Navi \ {s} : r'[q] = r[q],
         fase \in StatiRichiesta => r'[s] \in Richiesta
  PROVE  ConRichiesta' /\ pc' \in [Navi -> Fasi]
<1>1. pc \in [Navi -> Fasi] /\ pc' = [pc EXCEPT ![s] = fase]
  BY DEF IInv, TypeOK, Vai
<1> QED
  BY <1>1 DEF IInv, ConRichiesta, StatiRichiesta

\* The same for a step that does not touch r and ends where no request is
\* needed.
LEMMA ConRichiestaSemplice ==
  ASSUME IInv, NEW s \in Navi, NEW fase \in Fasi \ StatiRichiesta, Vai(s, fase), r' = r
  PROVE  ConRichiesta' /\ pc' \in [Navi -> Fasi]
BY ConRichiestaPasso

TipoCopia == [nd : [StatiNave -> Int], merce : [Merci -> [CampiMerce -> Int]],
              porto : [Porti -> [CampiPorto -> Int]]]

LEMMA CopiaVuotaTipo == CopiaVuota \in TipoCopia
BY DEF CopiaVuota, TipoCopia

LEMMA CopiaDump ==
  ASSUME NEW c \in TipoCopia, NEW a \in [Merci -> [CampiMerce -> Int]],
         NEW b \in [Porti -> [CampiPorto -> Int]]
  PROVE  [c EXCEPT !.merce = a, !.porto = b] \in TipoCopia
BY DEF TipoCopia

LEMMA RichiediBanchinaIInv ==
  ASSUME IInv, NEW s \in Navi, RichiediBanchina(s) PROVE IInv'
<1>1. semBanchine' \in [Porti -> Nat] /\ porto' \in [Navi -> Porti]
  BY DEF RichiediBanchina, Positivo, Preso, IInv, TypeOK
<1>2. ConRichiesta' /\ pc' \in [Navi -> Fasi]
  BY ConRichiestaSemplice DEF RichiediBanchina, StatiRichiesta, Fasi, AttesaStato, merci, ricerca
<1> QED
  BY <1>1, <1>2 DEF RichiediBanchina, IInv, TypeOK, merci, ricerca, stiva, dump, giornata

LEMMA RiservaStatoIInv ==
  ASSUME IInv, NEW s \in Navi, RiservaStato(s) PROVE IInv'
<1>1. semDump' \in [{0, 1} -> Nat]
  BY DEF RiservaStato, Positivo, Preso, IInv, TypeOK
<1>2. copia' \in [Navi -> TipoCopia]
  <2>1. /\ copia \in [Navi -> TipoCopia] /\ nd \in [StatiNave -> Int]
        /\ copia' = [copia EXCEPT ![s].nd = nd]
    BY DEF RiservaStato, IInv, TypeOK, TipoCopia
  <2>2. [copia[s] EXCEPT !.nd = nd] \in TipoCopia
    BY <2>1 DEF TipoCopia
  <2> QED
    BY <2>1, <2>2 DEF TipoCopia
<1>3. ConRichiesta' /\ pc' \in [Navi -> Fasi]
  <2>1. PICK fase \in NelDump1 : Vai(s, fase)
    BY DEF RiservaStato, AttesaStato, NelDump1
  <2>2. fase \in Fasi \ StatiRichiesta
    BY DEF NelDump1, Fasi, StatiRichiesta
  <2> QED
    BY <2>1, <2>2, ConRichiestaSemplice DEF RiservaStato, merci, ricerca
<1> QED
  BY <1>1, <1>2, <1>3 DEF RiservaStato, TipoCopia, IInv, TypeOK, merci, ricerca, stiva, dump, giornata

LEMMA ScriviStatoIInv ==
  ASSUME IInv, NEW s \in Navi, ScriviStato(s) PROVE IInv'
<1>1. semDump' \in [{0, 1} -> Nat]
  BY DEF ScriviStato, Lasciato, IInv, TypeOK
<1>2. copia' \in [Navi -> TipoCopia]
  BY CopiaVuotaTipo DEF ScriviStato, IInv, TypeOK, TipoCopia
<1>3. nd' \in [StatiNave -> Int]
  <2>1. copia[s].nd \in [StatiNave -> Int]
    BY DEF IInv, TypeOK
  <2>2. InMareCome(s) \in StatiNave /\ "naviporto" \in StatiNave
    BY DEF InMareCome, StatiNave
  <2>3. \A a, b \in StatiNave : NdSpostata(copia[s].nd, a, b) \in [StatiNave -> Int]
    BY <2>1 DEF NdSpostata
  <2> QED
    BY <2>2, <2>3 DEF ScriviStato
<1>4. ConRichiesta' /\ pc' \in [Navi -> Fasi]
  <2>1. PICK fase \in {"mercato", "inMare", "scarico"} : Vai(s, fase)
    BY DEF ScriviStato, NelDump1
  <2>2. fase \in Fasi \ StatiRichiesta
    BY DEF InNavigazione, AttesaMercato, Fasi, StatiRichiesta
  <2> QED
    BY <2>1, <2>2, ConRichiestaSemplice DEF ScriviStato, merci, ricerca
<1> QED
  BY <1>1, <1>2, <1>3, <1>4 DEF ScriviStato, TipoCopia, IInv, TypeOK, merci, ricerca, stiva, giornata

LEMMA RiservaMercatoIInv ==
  ASSUME IInv, NEW s \in Navi, RiservaMercato(s) PROVE IInv'
<1>1. semMercato' \in [Porti -> Nat]
  BY DEF RiservaMercato, Positivo, Preso, IInv, TypeOK
<1>2. ConRichiesta' /\ pc' \in [Navi -> Fasi]
  BY ConRichiestaSemplice DEF RiservaMercato, StatiRichiesta, Fasi, AlMercato, merci, ricerca
<1> QED
  BY <1>1, <1>2 DEF RiservaMercato, IInv, TypeOK, merci, ricerca, stiva, dump, giornata

LEMMA AccettaIInv ==
  ASSUME IInv, NEW s \in Navi, AccettaPrima(s) \/ AccettaDest(s) PROVE IInv'
<1>1. PICK i \in DOMAIN coda : Estrai(s, i)
  <2>1. coda # << >> => 1 \in DOMAIN coda
    BY LenProperties, EmptySeq DEF IInv, TypeOK
  <2> QED
    BY <2>1 DEF AccettaPrima, AccettaDest
<1>2. /\ coda' \in Seq(Richiesta)
      /\ r' \in [Navi -> Richiesta \cup {NESSUNA}]
      /\ r'[s] \in Richiesta
      /\ \A q \in Navi \ {s} : r'[q] = r[q]
  BY <1>1, EstraiTipi DEF IInv, TypeOK
<1>3. PICK fase \in {"valuta", "valutaDest"} : Vai(s, fase)
  BY DEF AccettaPrima, AccettaDest
<1>4. ConRichiesta' /\ pc' \in [Navi -> Fasi]
  BY <1>2, <1>3, ConRichiestaPasso DEF Fasi, AlMercato
<1> QED
  BY <1>2, <1>4 DEF AccettaPrima, AccettaDest, IInv, TypeOK, altrove, stiva, semafori, dump,
                    giornata

\* The steps that only move the ship, or only change its loading time, its
\* destination or the date it has read.
LEMMA SempliceIInv ==
  ASSUME IInv, NEW s \in Navi,
         CodaVuota(s) \/ NessunaPerDest(s) \/ Salta(s) \/ LeggiData(s) \/ Sigusr2(s)
  PROVE  IInv'
<1>1. PICK fase \in {"morta", "rilascia", "mercatoScarico", "uscita"} : Vai(s, fase)
  BY DEF CodaVuota, NessunaPerDest, Salta, LeggiData, Sigusr2
<1>2. fase \in Fasi \ StatiRichiesta
  BY DEF Fasi, AlMercato, AttesaMercato, Finita, StatiRichiesta
<1>3. r' = r
  BY DEF CodaVuota, NessunaPerDest, Salta, LeggiData, Sigusr2, merci, ricerca
<1>4. ConRichiesta' /\ pc' \in [Navi -> Fasi]
  BY <1>1, <1>2, <1>3, ConRichiestaSemplice
<1>5. dest' \in [Navi -> Porti]
  <2>1. dest \in [Navi -> Porti]
    BY DEF IInv, TypeOK
  <2>3. \A p \in 0 .. SO_PORTI - 2 : p \in Porti
    <3>1. SO_PORTI \in Nat
      BY NaveAssumption
    <3> QED
      BY <3>1 DEF Porti
  <2>2. dest' = dest \/ \E p \in 0 .. SO_PORTI - 2 : dest' = [dest EXCEPT ![s] = p]
    BY DEF CodaVuota, NessunaPerDest, Salta, LeggiData, Sigusr2
  <2> QED
    BY <2>1, <2>2, <2>3
<1>6. datascarico' \in [Navi -> Nat]
  BY DEF CodaVuota, NessunaPerDest, Salta, LeggiData, Sigusr2, IInv, TypeOK, altrove
<1> QED
  BY <1>4, <1>5, <1>6 DEF CodaVuota, NessunaPerDest, Salta, LeggiData, Sigusr2, IInv, TypeOK,
                          altrove, merci, ricerca, stiva, semafori, dump, giornata

\* Whatever Ridotti leaves of a request is a natural number of lots.
LEMMA RidottiTempo ==
  ASSUME IInv, NEW s \in Navi, r[s] \in Richiesta, NEW n \in 0 .. r[s].nlotti
  PROVE  /\ tempo[s] + TempoCarico(r[s].indicemerce, n) \in Nat
         /\ [tempo EXCEPT ![s] = tempo[s] + TempoCarico(r[s].indicemerce, n)] \in [Navi -> Nat]
<1>1. n \in Nat /\ r[s].indicemerce \in Merci
  BY DEF Richiesta
<1>2. TempoCarico(r[s].indicemerce, n) \in Nat
  BY <1>1, PesoNat
<1>3. tempo \in [Navi -> Nat]
  BY DEF IInv, TypeOK
<1> QED
  BY <1>2, <1>3

LEMMA CaricaPrimaIInv ==
  ASSUME IInv, NEW s \in Navi, CaricaPrima(s) PROVE IInv'
<1>1. r[s] \in Richiesta
  BY DEF CaricaPrima, IInv, ConRichiesta
<1>2. PICK n \in 1 .. r[s].nlotti :
        /\ Ridotti(s, n)
        /\ Imbarca(s, n)
        /\ tempo' = [tempo EXCEPT ![s] = tempo[s] + TempoCarico(r[s].indicemerce, n)]
        /\ Vai(s, IF n < r[s].nlotti THEN "inviaResto" ELSE "cercaDest")
  BY DEF CaricaPrima
<1>3. /\ carico' \in [Navi -> [Merci -> Nat]] /\ i_carico' \in [Navi -> Nat]
      /\ spaziolibero' \in [Navi -> Nat] /\ mercato' \in Matrici
      /\ r' \in [Navi -> Richiesta \cup {NESSUNA}]
      /\ n < r[s].nlotti => r'[s] \in Richiesta
      /\ \A q \in Navi \ {s} : r'[q] = r[q]
  BY <1>1, <1>2, ImbarcaTipi DEF IInv
<1>4. tempo' \in [Navi -> Nat]
  <2>1. n \in 0 .. r[s].nlotti
    BY <1>1 DEF Richiesta
  <2> QED
    BY <1>1, <1>2, <2>1, RidottiTempo
<1>5. dest' \in [Navi -> Porti]
  BY <1>1 DEF CaricaPrima, IInv, TypeOK, Richiesta
<1>6. ConRichiesta' /\ pc' \in [Navi -> Fasi]
  <2>1. CASE n < r[s].nlotti
    BY <1>2, <1>3, <2>1, ConRichiestaPasso DEF Fasi, AlMercato
  <2>2. CASE ~(n < r[s].nlotti)
    BY <1>2, <1>3, <2>2, ConRichiestaPasso DEF Fasi, AlMercato, StatiRichiesta
  <2> QED
    BY <2>1, <2>2
<1> QED
  BY <1>3, <1>4, <1>5, <1>6 DEF CaricaPrima, IInv, TypeOK, altrove, semafori, dump, giornata

LEMMA RifiutaPrimaIInv ==
  ASSUME IInv, NEW s \in Navi, RifiutaPrima(s) PROVE IInv'
<1>1. r[s] \in Richiesta /\ r' = r
  BY DEF RifiutaPrima, IInv, ConRichiesta
<1>2. ConRichiesta' /\ pc' \in [Navi -> Fasi]
  BY <1>1, ConRichiestaPasso DEF RifiutaPrima, Fasi, AlMercato
<1>3. tempo' \in [Navi -> Nat]
  <2>1. tempo' = tempo \/ tempo' = [tempo EXCEPT ![s] = 0]
    BY DEF RifiutaPrima
  <2>2. tempo \in [Navi -> Nat]
    BY DEF IInv, TypeOK
  <2> QED
    BY <2>1, <2>2
<1> QED
  BY <1>2, <1>3 DEF RifiutaPrima, IInv, TypeOK, altrove, stiva, semafori, dump, giornata

\* The three places where the ship sends what it holds.
LEMMA InviaIInv ==
  ASSUME IInv, NEW s \in Navi, RimandaPrima(s) \/ InviaResto(s) \/ RimandaDest(s) PROVE IInv'
<1>1. r[s] \in Richiesta /\ InviaRichiesta(s)
  BY DEF RimandaPrima, InviaResto, RimandaDest, IInv, ConRichiesta
<1>2. /\ coda' \in Seq(Richiesta)
      /\ r' \in [Navi -> Richiesta \cup {NESSUNA}]
      /\ \A q \in Navi \ {s} : r'[q] = r[q]
  BY <1>1, InviaTipi DEF IInv, TypeOK
<1>3. PICK fase \in {"cerca", "salta", "cercaDest", "rilascia"} : Vai(s, fase)
  BY DEF RimandaPrima, InviaResto, RimandaDest, DopoLettura
<1>4. fase \in Fasi \ StatiRichiesta
  BY DEF Fasi, AlMercato, StatiRichiesta
<1>5. ConRichiesta' /\ pc' \in [Navi -> Fasi]
  BY <1>2, <1>3, <1>4, ConRichiestaPasso
<1>6. reqlett' \in [Navi -> Nat]
  <2>1. reqlett' = reqlett \/ reqlett' = [reqlett EXCEPT ![s] = reqlett[s] + 1]
    BY DEF RimandaPrima, InviaResto, RimandaDest
  <2>2. reqlett \in [Navi -> Nat] /\ reqlett[s] + 1 \in Nat
    BY DEF IInv, TypeOK
  <2> QED
    BY <2>1, <2>2
<1> QED
  BY <1>2, <1>5, <1>6 DEF RimandaPrima, InviaResto, RimandaDest, IInv, TypeOK, altrove, stiva,
                          semafori, dump, giornata

\* The steps that weigh a request of the destination without loading it.
LEMMA ValutaIInv ==
  ASSUME IInv, NEW s \in Navi, ValutaDest(s) \/ RifiutaDest(s) \/ ScartaDest(s) PROVE IInv'
<1>1. r[s] \in Richiesta /\ r' = r
  BY DEF ValutaDest, RifiutaDest, ScartaDest, IInv, ConRichiesta, merci, ricerca
<1>2. PICK fase \in {"controllaCarico", "inviaDest"} : Vai(s, fase)
  BY DEF ValutaDest, RifiutaDest, ScartaDest
<1>3. ConRichiesta' /\ pc' \in [Navi -> Fasi]
  BY <1>1, <1>2, ConRichiestaPasso DEF Fasi, AlMercato
<1>4. tempo' \in [Navi -> Nat]
  <2>1. \/ tempo' = tempo
        \/ \E n \in 1 .. r[s].nlotti :
             tempo' = [tempo EXCEPT ![s] = tempo[s] + TempoCarico(r[s].indicemerce, n)]
    BY DEF ValutaDest, RifiutaDest, ScartaDest, merci, ricerca
  <2>2. \A n \in 1 .. r[s].nlotti : n \in 0 .. r[s].nlotti
    BY <1>1 DEF Richiesta
  <2> QED
    <3>1. CASE tempo' = tempo
      BY <3>1 DEF IInv, TypeOK
    <3>2. ASSUME NEW n \in 1 .. r[s].nlotti,
                 tempo' = [tempo EXCEPT ![s] = tempo[s] + TempoCarico(r[s].indicemerce, n)]
          PROVE  tempo' \in [Navi -> Nat]
      BY <1>1, <2>2, <3>2, RidottiTempo
    <3> QED
      BY <2>1, <3>1, <3>2
<1> QED
  BY <1>3, <1>4 DEF ValutaDest, RifiutaDest, ScartaDest, IInv, TypeOK, altrove, merci, ricerca,
                    stiva, semafori, dump, giornata

LEMMA CaricaDestIInv ==
  ASSUME IInv, NEW s \in Navi, CaricaDest(s) PROVE IInv'
<1>1. r[s] \in Richiesta
  BY DEF CaricaDest, IInv, ConRichiesta
<1>2. PICK n \in 1 .. r[s].nlotti :
        /\ Ridotti(s, n)
        /\ Imbarca(s, n)
        /\ IF n < r[s].nlotti
             THEN Vai(s, "inviaDest") /\ UNCHANGED reqlett
             ELSE /\ Vai(s, DopoLettura(s))
                  /\ reqlett' = [reqlett EXCEPT ![s] = reqlett[s] + 1]
  BY DEF CaricaDest
<1>3. /\ carico' \in [Navi -> [Merci -> Nat]] /\ i_carico' \in [Navi -> Nat]
      /\ spaziolibero' \in [Navi -> Nat] /\ mercato' \in Matrici
      /\ r' \in [Navi -> Richiesta \cup {NESSUNA}]
      /\ n < r[s].nlotti => r'[s] \in Richiesta
      /\ \A q \in Navi \ {s} : r'[q] = r[q]
  BY <1>1, <1>2, ImbarcaTipi DEF IInv
<1>4. reqlett' \in [Navi -> Nat]
  <2>1. reqlett' = reqlett \/ reqlett' = [reqlett EXCEPT ![s] = reqlett[s] + 1]
    BY <1>2
  <2>2. reqlett \in [Navi -> Nat] /\ reqlett[s] + 1 \in Nat
    BY DEF IInv, TypeOK
  <2> QED
    BY <2>1, <2>2
<1>5. ConRichiesta' /\ pc' \in [Navi -> Fasi]
  <2>1. CASE n < r[s].nlotti
    BY <1>2, <1>3, <2>1, ConRichiestaPasso DEF Fasi, AlMercato
  <2>2. CASE ~(n < r[s].nlotti)
    <3>1. DopoLettura(s) \in Fasi \ StatiRichiesta
      BY DEF DopoLettura, Fasi, AlMercato, StatiRichiesta
    <3> QED
      BY <1>2, <1>3, <2>2, <3>1, ConRichiestaPasso
  <2> QED
    BY <2>1, <2>2
<1> QED
  BY <1>3, <1>4, <1>5 DEF CaricaDest, IInv, TypeOK, altrove, semafori, dump, giornata

LEMMA RilasciaMercatoIInv ==
  ASSUME IInv, NEW s \in Navi, RilasciaMercato(s) PROVE IInv'
<1>1. semMercato' \in [Porti -> Nat]
  BY DEF RilasciaMercato, Lasciato, IInv, TypeOK
<1>2. ConRichiesta' /\ pc' \in [Navi -> Fasi]
  BY ConRichiestaSemplice DEF RilasciaMercato, StatiRichiesta, Fasi, merci, ricerca
<1> QED
  BY <1>1, <1>2 DEF RilasciaMercato, IInv, TypeOK, merci, ricerca, stiva, dump, giornata

LEMMA RiservaDumpIInv ==
  ASSUME IInv, NEW s \in Navi, RiservaDump(s) PROVE IInv'
<1>1. semDump' \in [{0, 1} -> Nat]
  BY DEF RiservaDump, Positivo, Preso, IInv, TypeOK
<1>2. copia' \in [Navi -> TipoCopia]
  <2>1. /\ copia \in [Navi -> TipoCopia]
        /\ merceDump \in [Merci -> [CampiMerce -> Int]]
        /\ portoDump \in [Porti -> [CampiPorto -> Int]]
        /\ copia' = [copia EXCEPT ![s].merce = merceDump, ![s].porto = portoDump]
    BY DEF RiservaDump, IInv, TypeOK, TipoCopia
  <2>2. [copia[s] EXCEPT !.merce = merceDump, !.porto = portoDump] \in TipoCopia
    <3>1. copia[s] \in TipoCopia
      BY <2>1
    <3> QED
      BY <2>1, <3>1, CopiaDump
  <2> QED
    BY <2>1, <2>2 DEF TipoCopia
<1>3. ConRichiesta' /\ pc' \in [Navi -> Fasi]
  <2>1. PICK fase \in NelDump0 : Vai(s, fase)
    BY DEF RiservaDump, NelDump0
  <2>2. fase \in Fasi \ StatiRichiesta
    BY DEF NelDump0, Fasi, AlMercato, StatiRichiesta
  <2> QED
    BY <2>1, <2>2, ConRichiestaSemplice DEF RiservaDump, merci, ricerca
<1> QED
  BY <1>1, <1>2, <1>3 DEF RiservaDump, TipoCopia, IInv, TypeOK, merci, ricerca, stiva, dump,
                          giornata

LEMMA LasciaBanchinaIInv ==
  ASSUME IInv, NEW s \in Navi, LasciaBanchina(s) PROVE IInv'
<1>1. semBanchine' \in [Porti -> Nat]
  BY DEF LasciaBanchina, Lasciato, IInv, TypeOK
<1>2. ConRichiesta' /\ pc' \in [Navi -> Fasi]
  BY ConRichiestaSemplice DEF LasciaBanchina, StatiRichiesta, Fasi, AttesaStato, merci, ricerca
<1> QED
  BY <1>1, <1>2 DEF LasciaBanchina, IInv, TypeOK, merci, ricerca, stiva, dump, giornata

\* What a counter of one good, or of one port, becomes.
LEMMA Contatore ==
  ASSUME NEW C, NEW v \in [C -> Int], NEW a \in C, NEW b \in C, NEW n \in Nat
  PROVE  /\ [v EXCEPT ![a] = @ + n] \in [C -> Int]
         /\ [v EXCEPT ![a] = @ + n, ![b] = @ - n] \in [C -> Int]
         /\ [v EXCEPT ![a] = @ - n, ![b] = @ + n] \in [C -> Int]
OBVIOUS

LEMMA ScriviDumpCaricoIInv ==
  ASSUME IInv, NEW s \in Navi, ScriviDumpCarico(s) PROVE IInv'
<1>0. /\ merceDump \in [Merci -> [CampiMerce -> Int]]
      /\ portoDump \in [Porti -> [CampiPorto -> Int]]
      /\ carico[s] \in [Merci -> Nat] /\ porto[s] \in Porti
      /\ copia[s].merce \in [Merci -> [CampiMerce -> Int]]
      /\ copia[s].porto \in [Porti -> [CampiPorto -> Int]]
  BY DEF IInv, TypeOK
<1>1. merceDump' \in [Merci -> [CampiMerce -> Int]]
  <2>1. \A g \in Merci : [copia[s].merce[g] EXCEPT
                             !["presente_in_nave"] = @ + carico[s][g],
                             !["presente_in_porto"] = @ - carico[s][g]] \in [CampiMerce -> Int]
    <3> TAKE g \in Merci
    <3>1. copia[s].merce[g] \in [CampiMerce -> Int] /\ carico[s][g] \in Nat
      BY <1>0
    <3> QED
      BY <3>1, Contatore DEF CampiMerce
  <2>2. \/ merceDump' = merceDump
        \/ merceDump' = [g \in Merci |->
             IF carico[s][g] = 0 THEN merceDump[g]
             ELSE [copia[s].merce[g] EXCEPT
                     !["presente_in_nave"] = @ + carico[s][g],
                     !["presente_in_porto"] = @ - carico[s][g]]]
    BY DEF ScriviDumpCarico
  <2> QED
    BY <1>0, <2>1, <2>2
<1>2. portoDump' \in [Porti -> [CampiPorto -> Int]]
  <2> DEFINE v == [copia[s].porto[porto[s]] EXCEPT
                     !["mercespedita"] = @ + Somma(carico[s]),
                     !["mercepresente"] = @ - Somma(carico[s])]
  <2>1. Somma(carico[s]) \in Nat
    BY <1>0, MerciFinite, UnitaFinita
  <2>2. copia[s].porto[porto[s]] \in [CampiPorto -> Int]
    BY <1>0
  <2>3. v \in [CampiPorto -> Int]
    BY <2>1, <2>2, Contatore DEF CampiPorto
  <2>4. portoDump' = portoDump \/ portoDump' = [portoDump EXCEPT ![porto[s]] = v]
    BY DEF ScriviDumpCarico
  <2> HIDE DEF v
  <2> QED
    BY <1>0, <2>3, <2>4
<1>3. semDump' \in [{0, 1} -> Nat]
  BY DEF ScriviDumpCarico, Lasciato, IInv, TypeOK
<1>4. copia' \in [Navi -> TipoCopia]
  BY CopiaVuotaTipo DEF ScriviDumpCarico, IInv, TypeOK, TipoCopia
<1>5. ConRichiesta' /\ pc' \in [Navi -> Fasi]
  BY ConRichiestaSemplice DEF ScriviDumpCarico, StatiRichiesta, Fasi, merci, ricerca
<1> QED
  BY <1>1, <1>2, <1>3, <1>4, <1>5 DEF ScriviDumpCarico, TipoCopia, IInv, TypeOK, merci,
                                      ricerca, stiva, giornata

LEMMA ScaricaMercatoIInv ==
  ASSUME IInv, NEW s \in Navi, ScaricaMercato(s) PROVE IInv'
<1>0. /\ mercato \in [Porti -> [Merci -> Int]] /\ porto[s] \in Porti
      /\ carico \in [Navi -> [Merci -> Nat]]
      /\ scarico \in [Navi -> [indice : Merci, val : Nat]]
  BY DEF IInv, TypeOK, Matrici
<1>1. PICK g \in Merci :
        /\ \/ mercato' = mercato
           \/ mercato' = [mercato EXCEPT ![porto[s]] =
                [mercato[porto[s]] EXCEPT ![g] = mercato[porto[s]][g] + carico[s][g]]]
        /\ scarico' = [scarico EXCEPT ![s] = [indice |-> g, val |-> carico[s][g]]]
        /\ carico' = [carico EXCEPT ![s] = [carico[s] EXCEPT ![g] = 0]]
  BY DEF ScaricaMercato
<1>2. carico' \in [Navi -> [Merci -> Nat]]
  <2>1. [carico[s] EXCEPT ![g] = 0] \in [Merci -> Nat]
    BY <1>0
  <2> QED
    BY <1>0, <1>1, <2>1
<1>3. mercato' \in Matrici
  <2> DEFINE riga == [mercato[porto[s]] EXCEPT ![g] = mercato[porto[s]][g] + carico[s][g]]
  <2>1. mercato[porto[s]] \in [Merci -> Int] /\ mercato[porto[s]][g] + carico[s][g] \in Int
    BY <1>0
  <2>2. riga \in [Merci -> Int]
    BY <2>1
  <2>3. mercato' = mercato \/ mercato' = [mercato EXCEPT ![porto[s]] = riga]
    BY <1>1
  <2> HIDE DEF riga
  <2> QED
    BY <1>0, <2>2, <2>3 DEF Matrici
<1>4. scarico' \in [Navi -> [indice : Merci, val : Nat]]
  <2>1. [indice |-> g, val |-> carico[s][g]] \in [indice : Merci, val : Nat]
    BY <1>0
  <2> QED
    BY <1>0, <1>1, <2>1
<1>5. ConRichiesta' /\ pc' \in [Navi -> Fasi]
  BY ConRichiestaSemplice DEF ScaricaMercato, StatiRichiesta, Fasi, AlMercato, ricerca
<1> QED
  BY <1>2, <1>3, <1>4, <1>5 DEF ScaricaMercato, IInv, TypeOK, ricerca, semafori, dump, giornata

LEMMA ScriviDumpScaricoIInv ==
  ASSUME IInv, NEW s \in Navi, ScriviDumpScarico(s) PROVE IInv'
<1> DEFINE g == scarico[s].indice
           n == scarico[s].val
<1>0. /\ merceDump \in [Merci -> [CampiMerce -> Int]]
      /\ portoDump \in [Porti -> [CampiPorto -> Int]]
      /\ scarico \in [Navi -> [indice : Merci, val : Nat]]
      /\ porto[s] \in Porti
      /\ copia[s].merce \in [Merci -> [CampiMerce -> Int]]
      /\ copia[s].porto \in [Porti -> [CampiPorto -> Int]]
  BY DEF IInv, TypeOK
<1>1. g \in Merci /\ n \in Nat
  BY <1>0
<1>2. merceDump' \in [Merci -> [CampiMerce -> Int]]
  <2> DEFINE v == [copia[s].merce[g] EXCEPT !["presente_in_nave"] = @ - n,
                                            ![Esito(s, g)] = @ + n]
  <2>1. copia[s].merce[g] \in [CampiMerce -> Int]
    BY <1>0, <1>1
  <2>2. "presente_in_nave" \in CampiMerce /\ Esito(s, g) \in CampiMerce
    BY DEF Esito, CampiMerce
  <2>3. v \in [CampiMerce -> Int]
    BY <1>1, <2>1, <2>2, Contatore
  <2>4. merceDump' = [merceDump EXCEPT ![g] = v]
    BY DEF ScriviDumpScarico
  <2> HIDE DEF v, g
  <2> QED
    BY <1>0, <2>3, <2>4
<1>3. portoDump' \in [Porti -> [CampiPorto -> Int]]
  <2> DEFINE v == [copia[s].porto[porto[s]] EXCEPT !["mercericevuta"] = @ + n]
  <2>1. copia[s].porto[porto[s]] \in [CampiPorto -> Int]
    BY <1>0
  <2>2. v \in [CampiPorto -> Int]
    BY <1>1, <2>1, Contatore DEF CampiPorto
  <2>3. portoDump' = portoDump \/ portoDump' = [portoDump EXCEPT ![porto[s]] = v]
    BY DEF ScriviDumpScarico
  <2> HIDE DEF v
  <2> QED
    BY <1>0, <2>2, <2>3
<1>4. semDump' \in [{0, 1} -> Nat] /\ scarico' \in [Navi -> [indice : Merci, val : Nat]]
  <2>1. semDump' \in [{0, 1} -> Nat]
    BY DEF ScriviDumpScarico, Lasciato, IInv, TypeOK
  <2>2. [indice |-> 0, val |-> 0] \in [indice : Merci, val : Nat]
    BY NaveAssumption DEF Merci
  <2> QED
    BY <1>0, <2>1, <2>2 DEF ScriviDumpScarico
<1>5. copia' \in [Navi -> TipoCopia]
  BY CopiaVuotaTipo DEF ScriviDumpScarico, IInv, TypeOK, TipoCopia
<1>6. ConRichiesta' /\ pc' \in [Navi -> Fasi]
  BY ConRichiestaSemplice DEF ScriviDumpScarico, StatiRichiesta, Fasi, AlMercato, merci, ricerca
<1> QED
  BY <1>2, <1>3, <1>4, <1>5, <1>6 DEF ScriviDumpScarico, TipoCopia, IInv, TypeOK, merci,
                                      ricerca, stiva, giornata

LEMMA FineScaricoIInv ==
  ASSUME IInv, NEW s \in Navi, FineScarico(s) PROVE IInv'
<1>1. semMercato' \in [Porti -> Nat]
  BY DEF FineScarico, Lasciato, IInv, TypeOK
<1>2. /\ spaziolibero' \in [Navi -> Nat] /\ tempo' \in [Navi -> Nat]
      /\ i_carico' \in [Navi -> Nat] /\ reqlett' \in [Navi -> Nat]
  BY NaveAssumption DEF FineScarico, IInv, TypeOK
<1>3. ConRichiesta' /\ pc' \in [Navi -> Fasi]
  BY ConRichiestaSemplice DEF FineScarico, StatiRichiesta, Fasi, AttesaMercato
<1> QED
  BY <1>1, <1>2, <1>3 DEF FineScarico, IInv, TypeOK, dump, giornata

LEMMA NextIInv == IInv /\ [Next]_vars => IInv'
<1> SUFFICES ASSUME IInv, [Next]_vars PROVE IInv'
  OBVIOUS
<1>1. ASSUME NEW s \in Navi, Passo(s) PROVE IInv'
  BY <1>1, RichiediBanchinaIInv, RiservaStatoIInv, ScriviStatoIInv, RiservaMercatoIInv,
     AccettaIInv, SempliceIInv, CaricaPrimaIInv, RifiutaPrimaIInv, InviaIInv, ValutaIInv,
     CaricaDestIInv, RilasciaMercatoIInv, RiservaDumpIInv, ScriviDumpCaricoIInv,
     LasciaBanchinaIInv, ScaricaMercatoIInv, ScriviDumpScaricoIInv, FineScaricoIInv DEF Passo
<1>2. ASSUME NEW s \in Navi, Sigusr2(s) PROVE IInv'
  BY <1>2, SempliceIInv
<1>3. CASE Controlla
  <2>1. ControllaMercato \in BOOLEAN
    BY Zenon DEF ControllaMercato, Offerte, Richieste
  <2>2. continua' \in BOOLEAN
    BY <1>3, <2>1, Zenon DEF Controlla
  <2> QED
    BY <1>3, <2>2 DEF Controlla, IInv, TypeOK, ConRichiesta, merci, ricerca, stiva, semafori,
                      dump
<1>4. CASE Giorno
  <2>1. master' = "controlla" \/ master' = "fine"
    BY <1>4, Zenon DEF Giorno
  <2>2. data' \in Nat
    BY <1>4 DEF Giorno, IInv, TypeOK
  <2>3. UNCHANGED <<merci, semafori, dump, pc, porto, dest, scarico, datascarico, copia, continua>>
    BY <1>4 DEF Giorno
  <2> QED
    BY <2>1, <2>2, <2>3 DEF IInv, TypeOK, ConRichiesta, merci, ricerca, stiva, semafori, dump
<1>5. CASE UNCHANGED vars
  BY <1>5 DEF vars, altrove, IInv, TypeOK, ConRichiesta, merci, ricerca, stiva, semafori, dump,
              giornata
<1> QED
  BY <1>1, <1>2, <1>3, <1>4, <1>5 DEF Next, TuttiUsciti

\* In every behaviour of any fleet the shared memory and the locals of the
\* ships are well formed: no semaphore goes below zero, no ship takes more
\* tons than it has room for (nave.c:131-149, 212-226), and every message a
\* ship sends is a request of a positive number of lots, although the
\* requests are cut and sent back again and again.
THEOREM NaveTypeOK == Spec => []TypeOK
<1>1. IInv => TypeOK
  BY DEF IInv
<1> QED
  BY InitIInv, NextIInv, <1>1, PTL DEF Spec

-----------------------------------------------------------------------------
(* The three semaphore sets.  The argument is one bookkeeping lemma,        *)
(* ConservaPasso, and a summary of what each step does to each semaphore    *)
(* and to the set of its holders.                                           *)

\* v units free before and w after, the holders H before and K after: nothing
\* changes, a unit is taken, a unit is given back, or, at the end of the
\* simulation, a holder is killed.
Scambio(v, w, H, K) ==
  \/ w = v /\ K = H
  \/ w = v - 1 /\ \E s : s \notin H /\ K = H \cup {s}
  \/ w = v + 1 /\ \E s : s \in H /\ K = H \ {s}
  \/ w = v /\ K \subseteq H /\ master' = "fine"

LEMMA ConservaPasso ==
  ASSUME NEW v \in Nat, NEW w \in Nat, NEW totale \in Nat,
         NEW H, IsFiniteSet(H), NEW K, Scambio(v, w, H, K),
         v + Cardinality(H) <= totale,
         InCorso => v + Cardinality(H) = totale,
         InCorso' => InCorso
  PROVE  /\ w + Cardinality(K) <= totale
         /\ InCorso' => w + Cardinality(K) = totale
<1>0. Cardinality(H) \in Nat
  BY FS_CardinalityType
<1>1. CASE w = v /\ K = H
  BY <1>1
<1>2. ASSUME NEW s, s \notin H, K = H \cup {s}, w = v - 1
      PROVE  /\ w + Cardinality(K) <= totale
             /\ InCorso' => w + Cardinality(K) = totale
  <2>1. Cardinality(K) = Cardinality(H) + 1
    BY <1>2, FS_AddElement
  <2> QED
    BY <1>0, <1>2, <2>1
<1>3. ASSUME NEW s, s \in H, K = H \ {s}, w = v + 1
      PROVE  /\ w + Cardinality(K) <= totale
             /\ InCorso' => w + Cardinality(K) = totale
  <2>1. Cardinality(K) = Cardinality(H) - 1
    BY <1>3, FS_RemoveElement
  <2> QED
    BY <1>0, <1>3, <2>1
<1>4. CASE w = v /\ K \subseteq H /\ master' = "fine"
  <2>1. IsFiniteSet(K) /\ Cardinality(K) <= Cardinality(H)
    BY <1>4, FS_Subset
  <2>2. Cardinality(K) \in Nat
    BY <2>1, FS_CardinalityType
  <2> QED
    BY <1>0, <1>4, <2>1, <2>2 DEF InCorso
<1> QED
  BY <1>1, <1>2, <1>3, <1>4 DEF Scambio

ChiMercato(p)  == {s \in Navi : porto[s] = p /\ TieneMercato(s)}
ChiBanchina(p) == {s \in Navi : porto[s] = p /\ Ormeggiata(s)}
ChiDump(fasi)  == {s \in Navi : pc[s] \in fasi}

LEMMA ChiFinito ==
  /\ \A p \in Porti : IsFiniteSet(ChiMercato(p)) /\ IsFiniteSet(ChiBanchina(p))
  /\ IsFiniteSet(ChiDump(NelDump0)) /\ IsFiniteSet(ChiDump(NelDump1))
<1>1. \A p : ChiMercato(p) \in SUBSET Navi /\ ChiBanchina(p) \in SUBSET Navi
  BY DEF ChiMercato, ChiBanchina
<1>2. \A f : ChiDump(f) \in SUBSET Navi
  BY DEF ChiDump
<1> QED
  BY <1>1, <1>2, NaveAssumption, FS_Subset

-----------------------------------------------------------------------------
(* What a step of ship s does to its place and to each semaphore. *)

SoloLei(s) ==
  /\ \A q \in Navi \ {s} : pc'[q] = pc[q] /\ porto'[q] = porto[q]
  /\ master' = master

SulMercato(s) ==
  \/ /\ semMercato' = semMercato
     /\ TieneMercato(s)' <=> TieneMercato(s)
     /\ TieneMercato(s) => porto'[s] = porto[s]
  \/ /\ semMercato' = Preso(semMercato, porto[s])
     /\ ~TieneMercato(s) /\ TieneMercato(s)' /\ porto'[s] = porto[s]
  \/ /\ semMercato' = Lasciato(semMercato, porto[s])
     /\ TieneMercato(s) /\ ~TieneMercato(s)' /\ porto'[s] = porto[s]

SullaBanchina(s) ==
  \/ /\ semBanchine' = semBanchine
     /\ Ormeggiata(s)' <=> Ormeggiata(s)
     /\ Ormeggiata(s) => porto'[s] = porto[s]
  \/ /\ semBanchine' = Preso(semBanchine, dest[s])
     /\ ~Ormeggiata(s) /\ Ormeggiata(s)' /\ porto'[s] = dest[s]
  \/ /\ semBanchine' = Lasciato(semBanchine, porto[s])
     /\ Ormeggiata(s) /\ ~Ormeggiata(s)' /\ porto'[s] = porto[s]

SulDump(s, i, fasi) ==
  \/ semDump'[i] = semDump[i] /\ (pc'[s] \in fasi <=> pc[s] \in fasi)
  \/ semDump'[i] = semDump[i] - 1 /\ pc[s] \notin fasi /\ pc'[s] \in fasi
  \/ semDump'[i] = semDump[i] + 1 /\ pc[s] \in fasi /\ pc'[s] \notin fasi

Sintesi(s) == /\ SoloLei(s) /\ SulMercato(s) /\ SullaBanchina(s)
              /\ SulDump(s, 0, NelDump0) /\ SulDump(s, 1, NelDump1)

\* Where a ship may be, for the case splits below.
LEMMA Posti ==
  ASSUME IInv, NEW s \in Navi
  PROVE  /\ pc \in [Navi -> Fasi] /\ porto \in [Navi -> Porti] /\ dest \in [Navi -> Porti]
         /\ semDump \in [{0, 1} -> Nat]
BY DEF IInv, TypeOK

LEMMA PassoSintesi ==
  ASSUME IInv, NEW s \in Navi, Passo(s)
  PROVE  Sintesi(s)
<1> USE Posti DEF Vai, Preso, Lasciato, Positivo, merci, ricerca, stiva, semafori, dump, giornata,
                  altrove, TieneMercato, Ormeggiata, AlMercato, NelDump0, NelDump1, AttesaDump0,
                  AttesaStato, AttesaMercato, InNavigazione, DopoLettura,
                  Sintesi, SoloLei, SulMercato, SullaBanchina, SulDump
<1>1. CASE RichiediBanchina(s)
  BY <1>1 DEF RichiediBanchina
<1>2. CASE RiservaStato(s)
  BY <1>2 DEF RiservaStato
<1>3. CASE ScriviStato(s)
  BY <1>3 DEF ScriviStato
<1>4. CASE RiservaMercato(s)
  BY <1>4 DEF RiservaMercato
<1>5. CASE AccettaPrima(s)
  BY <1>5 DEF AccettaPrima
<1>6. CASE CodaVuota(s)
  BY <1>6 DEF CodaVuota
<1>7. CASE CaricaPrima(s)
  BY <1>7 DEF CaricaPrima
<1>8. CASE RifiutaPrima(s)
  BY <1>8 DEF RifiutaPrima
<1>9. CASE RimandaPrima(s)
  BY <1>9 DEF RimandaPrima
<1>10. CASE InviaResto(s)
  BY <1>10 DEF InviaResto
<1>11. CASE Salta(s)
  BY <1>11 DEF Salta
<1>12. CASE AccettaDest(s)
  BY <1>12 DEF AccettaDest
<1>13. CASE NessunaPerDest(s)
  BY <1>13 DEF NessunaPerDest
<1>14. CASE ValutaDest(s)
  BY <1>14 DEF ValutaDest
<1>15. CASE RifiutaDest(s)
  BY <1>15 DEF RifiutaDest
<1>16. CASE CaricaDest(s)
  BY <1>16 DEF CaricaDest
<1>17. CASE ScartaDest(s)
  BY <1>17 DEF ScartaDest
<1>18. CASE RimandaDest(s)
  BY <1>18 DEF RimandaDest
<1>19. CASE RilasciaMercato(s)
  BY <1>19 DEF RilasciaMercato
<1>20. CASE RiservaDump(s)
  BY <1>20 DEF RiservaDump
<1>21. CASE ScriviDumpCarico(s)
  BY <1>21 DEF ScriviDumpCarico
<1>22. CASE LasciaBanchina(s)
  BY <1>22 DEF LasciaBanchina
<1>23. CASE LeggiData(s)
  BY <1>23 DEF LeggiData
<1>24. CASE ScaricaMercato(s)
  BY <1>24 DEF ScaricaMercato
<1>25. CASE ScriviDumpScarico(s)
  BY <1>25 DEF ScriviDumpScarico
<1>26. CASE FineScarico(s)
  BY <1>26 DEF FineScarico
<1> QED
  BY <1>1, <1>2, <1>3, <1>4, <1>5, <1>6, <1>7, <1>8, <1>9, <1>10, <1>11, <1>12, <1>13, <1>14, <1>15, <1>16, <1>17, <1>18, <1>19, <1>20, <1>21, <1>22, <1>23, <1>24, <1>25, <1>26 DEF Passo

-----------------------------------------------------------------------------
(* The three invariants. *)

Serrature == MercatoEsclusivo /\ DumpEsclusivo /\ BanchineConservate

Inv == IInv /\ Serrature

LEMMA InitSerrature == Init => Serrature
<1> SUFFICES ASSUME Init PROVE Serrature
  OBVIOUS
<1>1. \A p : ChiMercato(p) = {} /\ ChiBanchina(p) = {}
  BY DEF Init, ChiMercato, ChiBanchina, TieneMercato, Ormeggiata, AlMercato, InNavigazione
<1>2. ChiDump(NelDump0) = {} /\ ChiDump(NelDump1) = {}
  BY DEF Init, ChiDump, NelDump0, NelDump1
<1>3. Cardinality({}) = 0
  BY FS_EmptySet
<1>4. MercatoEsclusivo
  <2> SUFFICES ASSUME NEW p \in Porti PROVE Conserva(semMercato, p, ChiMercato(p), 1)
    BY DEF MercatoEsclusivo, ChiMercato
  <2>1. semMercato[p] = 1 /\ Cardinality(ChiMercato(p)) = 0
    BY <1>1, <1>3 DEF Init
  <2> QED
    BY <2>1 DEF Conserva, Conta
<1>5. DumpEsclusivo
  <2>1. Conserva(semDump, 0, ChiDump(NelDump0), 1) /\ Conserva(semDump, 1, ChiDump(NelDump1), 1)
    BY <1>2, <1>3 DEF Init, Conserva, Conta
  <2> QED
    BY <2>1 DEF DumpEsclusivo, ChiDump
<1>6. BanchineConservate
  <2> SUFFICES ASSUME NEW p \in Porti
               PROVE  Conserva(semBanchine, p, ChiBanchina(p), BanchineTotali[p])
    BY DEF BanchineConservate, ChiBanchina
  <2>1. BanchineTotali[p] \in Nat
    BY NaveAssumption
  <2>2. semBanchine[p] = BanchineTotali[p] /\ Cardinality(ChiBanchina(p)) = 0
    BY <1>1, <1>3 DEF Init
  <2> QED
    BY <2>1, <2>2 DEF Conserva, Conta
<1> QED
  BY <1>4, <1>5, <1>6 DEF Serrature

\* A step that is an exchange at every semaphore keeps the invariants.
Scambi ==
  /\ \A p \in Porti : Scambio(semMercato[p], semMercato'[p], ChiMercato(p), ChiMercato(p)')
  /\ \A p \in Porti : Scambio(semBanchine[p], semBanchine'[p], ChiBanchina(p), ChiBanchina(p)')
  /\ Scambio(semDump[0], semDump'[0], ChiDump(NelDump0), ChiDump(NelDump0)')
  /\ Scambio(semDump[1], semDump'[1], ChiDump(NelDump1), ChiDump(NelDump1)')

LEMMA ScambiSerrature ==
  ASSUME Inv, IInv', Scambi, InCorso' => InCorso
  PROVE  Serrature'
<1>0. /\ semMercato \in [Porti -> Nat] /\ semMercato' \in [Porti -> Nat]
      /\ semBanchine \in [Porti -> Nat] /\ semBanchine' \in [Porti -> Nat]
      /\ semDump \in [{0, 1} -> Nat] /\ semDump' \in [{0, 1} -> Nat]
  BY DEF Inv, IInv, TypeOK
<1>1. MercatoEsclusivo'
  <2> SUFFICES ASSUME NEW p \in Porti
               PROVE  /\ semMercato'[p] + Cardinality(ChiMercato(p)') <= 1
                      /\ InCorso' => semMercato'[p] + Cardinality(ChiMercato(p)') = 1
    BY DEF MercatoEsclusivo, ChiMercato, Conserva, Conta
  <2>1. /\ semMercato[p] + Cardinality(ChiMercato(p)) <= 1
        /\ InCorso => semMercato[p] + Cardinality(ChiMercato(p)) = 1
    BY DEF Inv, Serrature, MercatoEsclusivo, ChiMercato, Conserva, Conta
  <2>2. semMercato[p] \in Nat /\ semMercato'[p] \in Nat /\ IsFiniteSet(ChiMercato(p))
    BY <1>0, ChiFinito
  <2>3. Scambio(semMercato[p], semMercato'[p], ChiMercato(p), ChiMercato(p)')
    BY DEF Scambi
  <2> QED
    BY <2>1, <2>2, <2>3, ConservaPasso
<1>2. BanchineConservate'
  <2> SUFFICES ASSUME NEW p \in Porti
               PROVE  /\ semBanchine'[p] + Cardinality(ChiBanchina(p)') <= BanchineTotali[p]
                      /\ InCorso' =>
                           semBanchine'[p] + Cardinality(ChiBanchina(p)') = BanchineTotali[p]
    BY DEF BanchineConservate, ChiBanchina, Conserva, Conta
  <2>1. /\ semBanchine[p] + Cardinality(ChiBanchina(p)) <= BanchineTotali[p]
        /\ InCorso => semBanchine[p] + Cardinality(ChiBanchina(p)) = BanchineTotali[p]
    BY DEF Inv, Serrature, BanchineConservate, ChiBanchina, Conserva, Conta
  <2>2. /\ semBanchine[p] \in Nat /\ semBanchine'[p] \in Nat /\ IsFiniteSet(ChiBanchina(p))
        /\ BanchineTotali[p] \in Nat
    BY <1>0, ChiFinito, NaveAssumption
  <2>3. Scambio(semBanchine[p], semBanchine'[p], ChiBanchina(p), ChiBanchina(p)')
    BY DEF Scambi
  <2> QED
    BY <2>1, <2>2, <2>3, ConservaPasso
<1>3. DumpEsclusivo'
  <2>1. /\ semDump'[0] + Cardinality(ChiDump(NelDump0)') <= 1
        /\ InCorso' => semDump'[0] + Cardinality(ChiDump(NelDump0)') = 1
    <3>1. /\ semDump[0] + Cardinality(ChiDump(NelDump0)) <= 1
          /\ InCorso => semDump[0] + Cardinality(ChiDump(NelDump0)) = 1
      BY DEF Inv, Serrature, DumpEsclusivo, ChiDump, Conserva, Conta
    <3>2. semDump[0] \in Nat /\ semDump'[0] \in Nat /\ IsFiniteSet(ChiDump(NelDump0))
      BY <1>0, ChiFinito
    <3> QED
      BY <3>1, <3>2, ConservaPasso DEF Scambi
  <2>2. /\ semDump'[1] + Cardinality(ChiDump(NelDump1)') <= 1
        /\ InCorso' => semDump'[1] + Cardinality(ChiDump(NelDump1)') = 1
    <3>1. /\ semDump[1] + Cardinality(ChiDump(NelDump1)) <= 1
          /\ InCorso => semDump[1] + Cardinality(ChiDump(NelDump1)) = 1
      BY DEF Inv, Serrature, DumpEsclusivo, ChiDump, Conserva, Conta
    <3>2. semDump[1] \in Nat /\ semDump'[1] \in Nat /\ IsFiniteSet(ChiDump(NelDump1))
      BY <1>0, ChiFinito
    <3> QED
      BY <3>1, <3>2, ConservaPasso DEF Scambi
  <2> QED
    BY <2>1, <2>2 DEF DumpEsclusivo, ChiDump, Conserva, Conta
<1> QED
  BY <1>1, <1>2, <1>3 DEF Serrature

\* The summary of a ship's step is an exchange at every semaphore.
LEMMA SintesiScambi ==
  ASSUME Inv, NEW s \in Navi, Sintesi(s)
  PROVE  Scambi
<1>0. /\ semMercato \in [Porti -> Nat] /\ semBanchine \in [Porti -> Nat]
      /\ porto[s] \in Porti /\ dest[s] \in Porti
  BY DEF Inv, IInv, TypeOK
<1>1. ASSUME NEW p \in Porti
      PROVE  Scambio(semMercato[p], semMercato'[p], ChiMercato(p), ChiMercato(p)')
  <2>1. \A q \in Navi \ {s} : q \in ChiMercato(p)' <=> q \in ChiMercato(p)
    BY DEF Sintesi, SoloLei, ChiMercato, TieneMercato
  <2>2. CASE semMercato' = semMercato /\ (s \in ChiMercato(p)' <=> s \in ChiMercato(p))
    <3>1. ChiMercato(p)' = ChiMercato(p)
      BY <2>1, <2>2 DEF ChiMercato
    <3> QED
      BY <2>2, <3>1 DEF Scambio
  <2>3. CASE /\ semMercato' = Preso(semMercato, porto[s])
             /\ ~TieneMercato(s) /\ TieneMercato(s)' /\ porto'[s] = porto[s]
    <3>1. CASE p = porto[s]
      <4>1. s \notin ChiMercato(p) /\ ChiMercato(p)' = ChiMercato(p) \cup {s}
        BY <2>1, <2>3, <3>1 DEF ChiMercato
      <4>2. semMercato'[p] = semMercato[p] - 1
        BY <1>0, <2>3, <3>1 DEF Preso
      <4> QED
        BY <4>1, <4>2 DEF Scambio
    <3>2. CASE p # porto[s]
      <4>1. ChiMercato(p)' = ChiMercato(p)
        BY <2>1, <2>3, <3>2 DEF ChiMercato
      <4>2. semMercato'[p] = semMercato[p]
        BY <1>0, <2>3, <3>2 DEF Preso
      <4> QED
        BY <4>1, <4>2 DEF Scambio
    <3> QED
      BY <3>1, <3>2
  <2>4. CASE /\ semMercato' = Lasciato(semMercato, porto[s])
             /\ TieneMercato(s) /\ ~TieneMercato(s)' /\ porto'[s] = porto[s]
    <3>1. CASE p = porto[s]
      <4>1. s \in ChiMercato(p) /\ ChiMercato(p)' = ChiMercato(p) \ {s}
        BY <2>1, <2>4, <3>1 DEF ChiMercato
      <4>2. semMercato'[p] = semMercato[p] + 1
        BY <1>0, <2>4, <3>1 DEF Lasciato
      <4> QED
        BY <4>1, <4>2 DEF Scambio
    <3>2. CASE p # porto[s]
      <4>1. ChiMercato(p)' = ChiMercato(p)
        BY <2>1, <2>4, <3>2 DEF ChiMercato
      <4>2. semMercato'[p] = semMercato[p]
        BY <1>0, <2>4, <3>2 DEF Lasciato
      <4> QED
        BY <4>1, <4>2 DEF Scambio
    <3> QED
      BY <3>1, <3>2
  <2> QED
    BY <2>2, <2>3, <2>4 DEF Sintesi, SulMercato, ChiMercato
<1>2. ASSUME NEW p \in Porti
      PROVE  Scambio(semBanchine[p], semBanchine'[p], ChiBanchina(p), ChiBanchina(p)')
  <2>1. \A q \in Navi \ {s} : q \in ChiBanchina(p)' <=> q \in ChiBanchina(p)
    BY DEF Sintesi, SoloLei, ChiBanchina, Ormeggiata
  <2>2. CASE semBanchine' = semBanchine /\ (s \in ChiBanchina(p)' <=> s \in ChiBanchina(p))
    <3>1. ChiBanchina(p)' = ChiBanchina(p)
      BY <2>1, <2>2 DEF ChiBanchina
    <3> QED
      BY <2>2, <3>1 DEF Scambio
  <2>3. CASE /\ semBanchine' = Preso(semBanchine, dest[s])
             /\ ~Ormeggiata(s) /\ Ormeggiata(s)' /\ porto'[s] = dest[s]
    <3>1. CASE p = dest[s]
      <4>1. s \notin ChiBanchina(p) /\ ChiBanchina(p)' = ChiBanchina(p) \cup {s}
        BY <2>1, <2>3, <3>1 DEF ChiBanchina
      <4>2. semBanchine'[p] = semBanchine[p] - 1
        BY <1>0, <2>3, <3>1 DEF Preso
      <4> QED
        BY <4>1, <4>2 DEF Scambio
    <3>2. CASE p # dest[s]
      <4>1. ChiBanchina(p)' = ChiBanchina(p)
        BY <2>1, <2>3, <3>2 DEF ChiBanchina
      <4>2. semBanchine'[p] = semBanchine[p]
        BY <1>0, <2>3, <3>2 DEF Preso
      <4> QED
        BY <4>1, <4>2 DEF Scambio
    <3> QED
      BY <3>1, <3>2
  <2>4. CASE /\ semBanchine' = Lasciato(semBanchine, porto[s])
             /\ Ormeggiata(s) /\ ~Ormeggiata(s)' /\ porto'[s] = porto[s]
    <3>1. CASE p = porto[s]
      <4>1. s \in ChiBanchina(p) /\ ChiBanchina(p)' = ChiBanchina(p) \ {s}
        BY <2>1, <2>4, <3>1 DEF ChiBanchina
      <4>2. semBanchine'[p] = semBanchine[p] + 1
        BY <1>0, <2>4, <3>1 DEF Lasciato
      <4> QED
        BY <4>1, <4>2 DEF Scambio
    <3>2. CASE p # porto[s]
      <4>1. ChiBanchina(p)' = ChiBanchina(p)
        BY <2>1, <2>4, <3>2 DEF ChiBanchina
      <4>2. semBanchine'[p] = semBanchine[p]
        BY <1>0, <2>4, <3>2 DEF Lasciato
      <4> QED
        BY <4>1, <4>2 DEF Scambio
    <3> QED
      BY <3>1, <3>2
  <2> QED
    BY <2>2, <2>3, <2>4 DEF Sintesi, SullaBanchina, ChiBanchina
<1>3. ASSUME NEW i \in {0, 1}, NEW fasi, SulDump(s, i, fasi)
      PROVE  Scambio(semDump[i], semDump'[i], ChiDump(fasi), ChiDump(fasi)')
  <2>1. \A q \in Navi \ {s} : q \in ChiDump(fasi)' <=> q \in ChiDump(fasi)
    BY DEF Sintesi, SoloLei, ChiDump
  <2>2. CASE semDump'[i] = semDump[i] /\ (pc'[s] \in fasi <=> pc[s] \in fasi)
    <3>1. ChiDump(fasi)' = ChiDump(fasi)
      BY <2>1, <2>2 DEF ChiDump
    <3> QED
      BY <2>2, <3>1 DEF Scambio
  <2>3. CASE semDump'[i] = semDump[i] - 1 /\ pc[s] \notin fasi /\ pc'[s] \in fasi
    <3>1. s \notin ChiDump(fasi) /\ ChiDump(fasi)' = ChiDump(fasi) \cup {s}
      BY <2>1, <2>3 DEF ChiDump
    <3> QED
      BY <2>3, <3>1 DEF Scambio
  <2>4. CASE semDump'[i] = semDump[i] + 1 /\ pc[s] \in fasi /\ pc'[s] \notin fasi
    <3>1. s \in ChiDump(fasi) /\ ChiDump(fasi)' = ChiDump(fasi) \ {s}
      BY <2>1, <2>4 DEF ChiDump
    <3> QED
      BY <2>4, <3>1 DEF Scambio
  <2> QED
    BY <1>3, <2>2, <2>3, <2>4 DEF SulDump
<1>4. /\ Scambio(semDump[0], semDump'[0], ChiDump(NelDump0), ChiDump(NelDump0)')
      /\ Scambio(semDump[1], semDump'[1], ChiDump(NelDump1), ChiDump(NelDump1)')
  <2>1. SulDump(s, 0, NelDump0) /\ SulDump(s, 1, NelDump1)
    BY DEF Sintesi
  <2> QED
    BY <1>3, <2>1 DEF NelDump0, NelDump1
<1> QED
  BY <1>1, <1>2, <1>4 DEF Scambi

\* Of a killed ship nothing is given back.
LEMMA Sigusr2Scambi ==
  ASSUME Inv, NEW s \in Navi, Sigusr2(s)
  PROVE  Scambi /\ (InCorso' => InCorso)
<1>0. pc \in [Navi -> Fasi] /\ pc' = [pc EXCEPT ![s] = "uscita"] /\ master = "fine"
      /\ porto' = porto /\ master' = master
  BY DEF Inv, IInv, TypeOK, Sigusr2, Vai, altrove, giornata
<1>1. semMercato' = semMercato /\ semBanchine' = semBanchine /\ semDump' = semDump
  BY DEF Sigusr2, altrove, semafori
<1>2. \A p : ChiMercato(p)' \subseteq ChiMercato(p)
  BY <1>0 DEF ChiMercato, TieneMercato, AlMercato
<1>3. \A p : ChiBanchina(p)' \subseteq ChiBanchina(p)
  BY <1>0 DEF ChiBanchina, Ormeggiata
<1>4. /\ ChiDump(NelDump0)' \subseteq ChiDump(NelDump0)
      /\ ChiDump(NelDump1)' \subseteq ChiDump(NelDump1)
  BY <1>0 DEF ChiDump, NelDump0, NelDump1
<1> QED
  BY <1>0, <1>1, <1>2, <1>3, <1>4 DEF Scambi, Scambio, InCorso

LEMMA NextInv == Inv /\ [Next]_vars => Inv'
<1> SUFFICES ASSUME Inv, [Next]_vars PROVE Inv'
  OBVIOUS
<1>0. IInv'
  BY NextIInv DEF Inv
<1>1. ASSUME NEW s \in Navi, Passo(s) PROVE Serrature'
  <2>1. Sintesi(s)
    BY <1>1, PassoSintesi DEF Inv
  <2>2. InCorso' => InCorso
    BY <2>1 DEF Sintesi, SoloLei, InCorso
  <2> QED
    BY <1>0, <2>1, <2>2, SintesiScambi, ScambiSerrature
<1>2. ASSUME NEW s \in Navi, Sigusr2(s) PROVE Serrature'
  BY <1>0, <1>2, Sigusr2Scambi, ScambiSerrature
<1>3. CASE Controlla \/ Giorno \/ UNCHANGED vars
  <2>1. pc' = pc /\ porto' = porto /\ UNCHANGED semafori /\ (InCorso' => InCorso)
    BY <1>3 DEF Controlla, Giorno, vars, altrove, giornata, InCorso
  <2>2. Scambi
    BY <2>1 DEF Scambi, Scambio, semafori, ChiMercato, ChiBanchina, ChiDump, TieneMercato,
                Ormeggiata
  <2> QED
    BY <1>0, <2>1, <2>2, ScambiSerrature DEF Inv
<1> QED
  BY <1>0, <1>1, <1>2, <1>3 DEF Next, TuttiUsciti, Inv

LEMMA SempreInv == Spec => []Inv
<1>1. Init => Inv
  BY InitIInv, InitSerrature DEF Inv
<1> QED
  BY <1>1, NextInv, PTL DEF Spec

\* For any number of ships and ports, a market row is never in the hands of
\* two ships, and until the ships are killed its semaphore is free exactly
\* when nobody, alive or dead, holds it (nave.c:118-257, 293-304).
THEOREM MercatoSicuro == Spec => []MercatoEsclusivo
<1>1. Inv => MercatoEsclusivo
  BY DEF Inv, Serrature
<1> QED
  BY SempreInv, <1>1, PTL

\* For any number of ships, each section of the dump has at most one writer
\* (nave_lib.c:53-87, 113-147).
THEOREM DumpSicuro == Spec => []DumpEsclusivo
<1>1. Inv => DumpEsclusivo
  BY DEF Inv, Serrature
<1> QED
  BY SempreInv, <1>1, PTL

\* For any number of ships and any berths, no port has more ships moored than
\* berths, and no berth is lost while the simulation runs (nave.c:107, 263).
THEOREM BanchineSicure == Spec => []BanchineConservate
<1>1. Inv => BanchineConservate
  BY DEF Inv, Serrature
<1> QED
  BY SempreInv, <1>1, PTL

-----------------------------------------------------------------------------
(* No circular wait.  The reserves are nested berth, market, dump; a ship   *)
(* that waits for one of them points at a holder, and the holders of the    *)
(* dump wait for nothing.                                                   *)

LEMMA SemaforoZero ==
  ASSUME NEW H, IsFiniteSet(H), NEW v, v = 0, NEW totale \in Nat \ {0},
         v + Cardinality(H) = totale
  PROVE  \E s : s \in H
<1>1. Cardinality(H) # 0
  <2>1. Cardinality(H) \in Nat
    BY FS_CardinalityType
  <2> QED
    BY <2>1
<1> QED
  BY <1>1, FS_EmptySet

LEMMA InvStallo == Inv => NessunoStallo
<1> SUFFICES ASSUME Inv, InCorso, \A s \in Navi : pc[s] # "morta",
                    NEW n \in Navi, \A s \in Navi : Bloccata(s)
             PROVE  FALSE
  BY DEF NessunoStallo
<1>0. /\ pc \in [Navi -> Fasi]
      /\ \A s \in Navi : porto[s] \in Porti /\ dest[s] \in Porti
  BY DEF Inv, IInv, TypeOK
<1>1. ASSUME NEW s \in Navi, pc[s] \in AttesaDump0, semDump[0] = 0 PROVE FALSE
  <2>1. semDump[0] + Cardinality(ChiDump(NelDump0)) = 1
    BY DEF Inv, Serrature, DumpEsclusivo, Conserva, Conta, ChiDump
  <2>2. PICK h : h \in ChiDump(NelDump0)
    BY <1>1, <2>1, ChiFinito, SemaforoZero
  <2>3. h \in Navi /\ pc[h] \in NelDump0
    BY <2>2 DEF ChiDump
  <2> QED
    BY <2>3 DEF Bloccata, NelDump0, InNavigazione, AttesaMercato, AttesaDump0, AttesaStato
<1>2. ASSUME NEW s \in Navi, pc[s] \in AttesaStato, semDump[1] = 0 PROVE FALSE
  <2>1. semDump[1] + Cardinality(ChiDump(NelDump1)) = 1
    BY DEF Inv, Serrature, DumpEsclusivo, Conserva, Conta, ChiDump
  <2>2. PICK h : h \in ChiDump(NelDump1)
    BY <1>2, <2>1, ChiFinito, SemaforoZero
  <2>3. h \in Navi /\ pc[h] \in NelDump1
    BY <2>2 DEF ChiDump
  <2> QED
    BY <2>3 DEF Bloccata, NelDump1, InNavigazione, AttesaMercato, AttesaDump0, AttesaStato
<1>3. ASSUME NEW s \in Navi, pc[s] \in AttesaMercato, semMercato[porto[s]] = 0 PROVE FALSE
  <2>1. semMercato[porto[s]] + Cardinality(ChiMercato(porto[s])) = 1
    BY <1>0 DEF Inv, Serrature, MercatoEsclusivo, Conserva, Conta, ChiMercato
  <2>2. IsFiniteSet(ChiMercato(porto[s]))
    BY <1>0, ChiFinito
  <2>3. PICK h : h \in ChiMercato(porto[s])
    BY <1>3, <2>1, <2>2, SemaforoZero
  <2>4. h \in Navi /\ pc[h] \in AlMercato
    BY <2>3 DEF ChiMercato, TieneMercato
  <2>5. pc[h] \in AttesaDump0 /\ semDump[0] = 0
    BY <2>4 DEF Bloccata, AlMercato, InNavigazione, AttesaMercato, AttesaDump0, AttesaStato
  <2> QED
    BY <1>1, <2>4, <2>5
<1>4. ASSUME NEW s \in Navi, pc[s] \in InNavigazione, semBanchine[dest[s]] = 0 PROVE FALSE
  <2>1. /\ semBanchine[dest[s]] + Cardinality(ChiBanchina(dest[s])) = BanchineTotali[dest[s]]
        /\ BanchineTotali[dest[s]] \in Nat \ {0}
    BY <1>0, NaveAssumption DEF Inv, Serrature, BanchineConservate, Conserva, Conta, ChiBanchina
  <2>2. IsFiniteSet(ChiBanchina(dest[s]))
    BY <1>0, ChiFinito
  <2>3. PICK h : h \in ChiBanchina(dest[s])
    BY <1>4, <2>1, <2>2, SemaforoZero
  <2>4. h \in Navi /\ pc[h] \notin InNavigazione
    BY <2>3 DEF ChiBanchina, Ormeggiata
  <2> QED
    BY <1>1, <1>2, <1>3, <2>4 DEF Bloccata
<1> QED
  BY <1>1, <1>2, <1>3, <1>4 DEF Bloccata

\* The answer to the question of nave.c:290, for any number of ships, ports
\* and berths: the nested reserves never close a circle, unless a ship died
\* on an empty queue holding its market.
THEOREM NienteStallo == Spec => []NessunoStallo
BY SempreInv, InvStallo, PTL

-----------------------------------------------------------------------------
(* What the steps below need of the types. *)

LEMMA Tipi ==
  ASSUME IInv
  PROVE  /\ pc \in [Navi -> Fasi] /\ porto \in [Navi -> Porti] /\ dest \in [Navi -> Porti]
         /\ r \in [Navi -> Richiesta \cup {NESSUNA}]
         /\ tempo \in [Navi -> Nat] /\ carico \in [Navi -> [Merci -> Nat]]
         /\ i_carico \in [Navi -> Nat] /\ spaziolibero \in [Navi -> Nat]
         /\ scarico \in [Navi -> [indice : Merci, val : Nat]]
         /\ copia \in [Navi -> TipoCopia] /\ datascarico \in [Navi -> Nat]
         /\ mercato \in [Porti -> [Merci -> Int]] /\ coda \in Seq(Richiesta)
         /\ nd \in [StatiNave -> Int]
         /\ merceDump \in [Merci -> [CampiMerce -> Int]]
         /\ portoDump \in [Porti -> [CampiPorto -> Int]]
         /\ \A s \in Navi : pc[s] \in StatiRichiesta => r[s] \in Richiesta
BY DEF IInv, TypeOK, TipoCopia, Matrici, ConRichiesta, StatiRichiesta

LEMMA CampiRichiesta ==
  ASSUME NEW q \in Richiesta
  PROVE  q.mtype \in Porti /\ q.indicemerce \in Merci /\ q.nlotti \in Nat \ {0}
BY DEF Richiesta

-----------------------------------------------------------------------------
(* The steps that change the market, or a hold. *)

\* n lots of the request of s go from the market of its port to its hold.
Carica(s, n) ==
  /\ pc[s] \in {"valuta", "controllaCarico"}
  /\ n \in 1 .. r[s].nlotti
  /\ Ridotti(s, n) /\ Imbarca(s, n)

LEMMA ChiCarica ==
  ASSUME NEW s \in Navi, CaricaPrima(s) \/ CaricaDest(s)
  PROVE  \E n \in Nat : Carica(s, n)
<1>1. PICK n \in 1 .. r[s].nlotti : Ridotti(s, n) /\ Imbarca(s, n)
  BY DEF CaricaPrima, CaricaDest
<1> QED
  BY <1>1 DEF CaricaPrima, CaricaDest, Carica

LEMMA CaricaPezzi ==
  ASSUME IInv, NEW s \in Navi, NEW n \in Nat, Carica(s, n)
  PROVE  /\ r[s] \in Richiesta /\ r[s].indicemerce \in Merci /\ r[s].mtype \in Porti
         /\ n >= 1 /\ n <= r[s].nlotti /\ r[s].nlotti \in Nat
         /\ n <= mercato[porto[s]][r[s].indicemerce]
         /\ Peso(r[s].indicemerce, n) <= spaziolibero[s]
         /\ n = r[s].nlotti \/ Peso(r[s].indicemerce, n + 1) > spaziolibero[s]
                            \/ n + 1 > mercato[porto[s]][r[s].indicemerce]
         /\ porto[s] \in Porti
<1>1. r[s] \in Richiesta
  BY Tipi DEF Carica, StatiRichiesta
<1>2. r[s].indicemerce \in Merci /\ r[s].mtype \in Porti /\ r[s].nlotti \in Nat \ {0}
  BY <1>1, CampiRichiesta
<1>3. /\ Peso(r[s].indicemerce, n) <= spaziolibero[s]
      /\ n <= mercato[porto[s]][r[s].indicemerce]
  BY DEF Carica, Ridotti, Offerti
<1>4. n = r[s].nlotti \/ ~(/\ Peso(r[s].indicemerce, n + 1) <= spaziolibero[s]
                           /\ n + 1 <= mercato[porto[s]][r[s].indicemerce])
  BY DEF Carica, Ridotti, Offerti
<1>5. /\ porto[s] \in Porti /\ spaziolibero[s] \in Nat
      /\ mercato[porto[s]][r[s].indicemerce] \in Int
  BY <1>2, Tipi
<1>6. Peso(r[s].indicemerce, n + 1) \in Nat
  <2>1. n + 1 \in Nat
    OBVIOUS
  <2> QED
    BY <1>2, <2>1, PesoNat
<1> QED
  BY <1>1, <1>2, <1>3, <1>4, <1>5, <1>6 DEF Carica

LEMMA MercatoFermo ==
  ASSUME IInv, mercato' = mercato
  PROVE  \A p \in Porti, g \in Merci : VersoZero(mercato[p][g], mercato'[p][g])
<1>1. \A p \in Porti, g \in Merci : mercato[p][g] \in Int
  BY Tipi
<1> QED
  BY <1>1 DEF VersoZero

LEMMA VersoZeroPasso ==
  ASSUME IInv, [Next]_vars
  PROVE  \A p \in Porti, g \in Merci : VersoZero(mercato[p][g], mercato'[p][g])
<1>1. ASSUME NEW s \in Navi, CaricaPrima(s) \/ CaricaDest(s)
      PROVE  \A p \in Porti, g \in Merci : VersoZero(mercato[p][g], mercato'[p][g])
  <2>1. PICK n \in Nat : Carica(s, n)
    BY <1>1, ChiCarica
  <2> DEFINE h == r[s].indicemerce
             v == mercato[porto[s]][h] - n
  <2>2. /\ h \in Merci /\ porto[s] \in Porti /\ n >= 1 /\ n <= mercato[porto[s]][h]
    BY <2>1, CaricaPezzi
  <2>3. mercato' = [mercato EXCEPT ![porto[s]] = [mercato[porto[s]] EXCEPT ![h] = v]]
    BY <2>1 DEF Carica, Imbarca
  <2>4. mercato \in [Porti -> [Merci -> Int]]
    BY Tipi
  <2>5. 0 <= v /\ v <= mercato[porto[s]][h]
    BY <2>2, <2>4
  <2> HIDE DEF h, v
  <2> TAKE p \in Porti, g \in Merci
  <2>6. CASE p = porto[s] /\ g = h
    BY <2>2, <2>3, <2>4, <2>5, <2>6 DEF VersoZero
  <2>7. CASE ~(p = porto[s] /\ g = h)
    <3>1. mercato'[p][g] = mercato[p][g] /\ mercato[p][g] \in Int
      BY <2>2, <2>3, <2>4, <2>7
    <3> QED
      BY <3>1 DEF VersoZero
  <2> QED
    BY <2>6, <2>7
<1>2. ASSUME NEW s \in Navi, ScaricaMercato(s)
      PROVE  \A p \in Porti, g \in Merci : VersoZero(mercato[p][g], mercato'[p][g])
  <2>1. PICK h \in Merci :
          \/ mercato' = mercato
          \/ /\ mercato[porto[s]][h] <= -carico[s][h]
             /\ mercato' = [mercato EXCEPT ![porto[s]] =
                  [mercato[porto[s]] EXCEPT ![h] = mercato[porto[s]][h] + carico[s][h]]]
    BY <1>2 DEF ScaricaMercato
  <2> DEFINE v == mercato[porto[s]][h] + carico[s][h]
  <2>2. CASE mercato' = mercato
    BY <2>2, MercatoFermo
  <2>3. CASE /\ mercato[porto[s]][h] <= -carico[s][h]
             /\ mercato' = [mercato EXCEPT ![porto[s]] = [mercato[porto[s]] EXCEPT ![h] = v]]
    <3>1. porto[s] \in Porti /\ mercato \in [Porti -> [Merci -> Int]] /\ carico[s][h] \in Nat
      BY Tipi
    <3>2. mercato[porto[s]][h] <= v /\ v <= 0
      BY <2>3, <3>1
    <3> HIDE DEF v
    <3> TAKE p \in Porti, g \in Merci
    <3>3. CASE p = porto[s] /\ g = h
      BY <2>3, <3>1, <3>2, <3>3 DEF VersoZero
    <3>4. CASE ~(p = porto[s] /\ g = h)
      <4>1. mercato'[p][g] = mercato[p][g] /\ mercato[p][g] \in Int
        BY <2>3, <3>1, <3>4
      <4> QED
        BY <4>1 DEF VersoZero
    <3> QED
      BY <3>3, <3>4
  <2> QED
    BY <2>1, <2>2, <2>3
<1>3. CASE mercato' = mercato
  BY <1>3, MercatoFermo
<1>4. ASSUME NEW s \in Navi, Passo(s)
      PROVE  CaricaPrima(s) \/ CaricaDest(s) \/ ScaricaMercato(s) \/ mercato' = mercato
  BY <1>4 DEF Passo, RichiediBanchina, RiservaStato, ScriviStato, RiservaMercato,
              AccettaPrima, CodaVuota, RifiutaPrima, RimandaPrima, InviaResto, Salta,
              AccettaDest, NessunaPerDest, ValutaDest, RifiutaDest, ScartaDest, RimandaDest,
              RilasciaMercato, RiservaDump, ScriviDumpCarico, LasciaBanchina, LeggiData,
              ScriviDumpScarico, FineScarico, merci
<1>5. CASE (\E s \in Navi : Sigusr2(s)) \/ Controlla \/ Giorno \/ UNCHANGED vars
  BY <1>3, <1>5 DEF Sigusr2, Controlla, Giorno, vars, merci
<1> QED
  BY <1>1, <1>2, <1>3, <1>4, <1>5 DEF Next, TuttiUsciti

\* No step of any fleet overdraws a cell of the market: an offer or a request
\* shrinks towards zero and never turns into the other (nave.c:144-149,
\* 229-234, nave_lib.c:118-136).
THEOREM MercatoMonotono == Spec => MercatoVersoZero
<1>1. IInv /\ [Next]_vars =>
        [\A p \in Porti, g \in Merci : VersoZero(mercato[p][g], mercato'[p][g])]_vars
  BY VersoZeroPasso
<1> QED
  BY InitIInv, NextIInv, <1>1, PTL DEF Spec, MercatoVersoZero

-----------------------------------------------------------------------------
(* What a ship has in hand and in its hold, by where it is. *)

Vuote == {"inizio", "statoInizio", "scriviInizio", "mercato", "cerca", "valuta", "invia",
          "salta", "morta"}

\* Nothing aboard until the first request is loaded, and after unloading.
StivaVuota(s) ==
  pc[s] \in Vuote => /\ \A g \in Merci : carico[s][g] = 0
                     /\ spaziolibero[s] = SO_CAPACITY /\ i_carico[s] = 0

\* r holds a request exactly where the code uses it (and when killed there).
ManoVuota(s) == pc[s] \notin StatiRichiesta \cup {"uscita"} => r[s] = NESSUNA

\* The second search only reads requests of the destination; a ship unloads
\* at its destination.
Rotta(s) ==
  /\ pc[s] \in {"inviaResto", "valutaDest", "controllaCarico", "inviaDest"}
       => r[s].mtype = dest[s]
  /\ pc[s] \in {"statoArrivo", "scriviArrivo", "scarico", "mercatoScarico", "scarica",
                "dumpScarico", "scriviScarico"} => porto[s] = dest[s]

ScaricoVuoto(s) ==
  pc[s] \notin {"dumpScarico", "scriviScarico", "uscita"} => scarico[s].val = 0

Locale(s) == StivaVuota(s) /\ ManoVuota(s) /\ Rotta(s) /\ ScaricoVuoto(s)

\* A step of s leaves the variables of the other ships alone.
SoloSue(s) ==
  \A q \in Navi \ {s} :
    /\ pc'[q] = pc[q] /\ porto'[q] = porto[q] /\ dest'[q] = dest[q] /\ r'[q] = r[q]
    /\ tempo'[q] = tempo[q] /\ carico'[q] = carico[q] /\ i_carico'[q] = i_carico[q]
    /\ spaziolibero'[q] = spaziolibero[q] /\ scarico'[q] = scarico[q]
    /\ datascarico'[q] = datascarico[q] /\ copia'[q] = copia[q]

LEMMA PassoSoloSue ==
  ASSUME IInv, NEW s \in Navi, Passo(s) \/ Sigusr2(s)
  PROVE  SoloSue(s)
<1> USE Tipi DEF Vai, SoloSue, merci, ricerca, stiva, giornata, altrove
<1>1. CASE RichiediBanchina(s)
  BY <1>1 DEF RichiediBanchina
<1>2. CASE RiservaStato(s)
  BY <1>2 DEF RiservaStato
<1>3. CASE ScriviStato(s)
  BY <1>3 DEF ScriviStato
<1>4. CASE RiservaMercato(s)
  BY <1>4 DEF RiservaMercato
<1>5. CASE AccettaPrima(s)
  BY <1>5 DEF AccettaPrima, Estrai
<1>6. CASE CodaVuota(s)
  BY <1>6 DEF CodaVuota
<1>7. CASE CaricaPrima(s)
  BY <1>7 DEF CaricaPrima, Imbarca
<1>8. CASE RifiutaPrima(s)
  BY <1>8 DEF RifiutaPrima
<1>9. CASE RimandaPrima(s)
  BY <1>9 DEF RimandaPrima, InviaRichiesta
<1>10. CASE InviaResto(s)
  BY <1>10 DEF InviaResto, InviaRichiesta
<1>11. CASE Salta(s)
  BY <1>11 DEF Salta
<1>12. CASE AccettaDest(s)
  BY <1>12 DEF AccettaDest, Estrai
<1>13. CASE NessunaPerDest(s)
  BY <1>13 DEF NessunaPerDest
<1>14. CASE ValutaDest(s)
  BY <1>14 DEF ValutaDest
<1>15. CASE RifiutaDest(s)
  BY <1>15 DEF RifiutaDest
<1>16. CASE CaricaDest(s)
  <2>1. PICK n \in 1 .. r[s].nlotti : Imbarca(s, n)
    BY <1>16 DEF CaricaDest
  <2>2. \A q \in Navi \ {s} : pc'[q] = pc[q]
    BY <1>16 DEF CaricaDest
  <2>3. UNCHANGED <<altrove, dest, tempo, coda>>
    BY <1>16 DEF CaricaDest
  <2> QED
    BY <2>1, <2>2, <2>3 DEF Imbarca
<1>17. CASE ScartaDest(s)
  BY <1>17 DEF ScartaDest
<1>18. CASE RimandaDest(s)
  BY <1>18 DEF RimandaDest, InviaRichiesta
<1>19. CASE RilasciaMercato(s)
  BY <1>19 DEF RilasciaMercato
<1>20. CASE RiservaDump(s)
  BY <1>20 DEF RiservaDump
<1>21. CASE ScriviDumpCarico(s)
  BY <1>21 DEF ScriviDumpCarico
<1>22. CASE LasciaBanchina(s)
  BY <1>22 DEF LasciaBanchina
<1>23. CASE LeggiData(s)
  BY <1>23 DEF LeggiData
<1>24. CASE ScaricaMercato(s)
  BY <1>24 DEF ScaricaMercato
<1>25. CASE ScriviDumpScarico(s)
  BY <1>25 DEF ScriviDumpScarico
<1>26. CASE FineScarico(s)
  BY <1>26 DEF FineScarico
<1>27. CASE Sigusr2(s)
  BY <1>27 DEF Sigusr2
<1> QED
  BY <1>1, <1>2, <1>3, <1>4, <1>5, <1>6, <1>7, <1>8, <1>9, <1>10, <1>11, <1>12, <1>13, <1>14,
     <1>15, <1>16, <1>17, <1>18, <1>19, <1>20, <1>21, <1>22, <1>23, <1>24, <1>25, <1>26, <1>27
     DEF Passo

\* Of the request in hand a load leaves the rest, or nothing.
LEMMA RestoPezzi ==
  ASSUME IInv, NEW s \in Navi, NEW n \in Nat, Carica(s, n)
  PROVE  /\ n < r[s].nlotti => /\ r'[s].mtype = r[s].mtype
                               /\ r'[s].indicemerce = r[s].indicemerce
                               /\ r'[s].nlotti = r[s].nlotti - n
                               /\ r'[s] \in Richiesta
         /\ ~(n < r[s].nlotti) => r'[s] = NESSUNA /\ n = r[s].nlotti
<1>1. r'[s] = Resto(r[s], n)
  BY Tipi DEF Carica, Imbarca
<1>2. r[s] \in Richiesta /\ n >= 1 /\ n <= r[s].nlotti /\ r[s].nlotti \in Nat
  BY CaricaPezzi
<1>3. CASE n < r[s].nlotti
  <2> DEFINE k == r[s].nlotti - n
  <2>1. k \in Nat \ {0}
    BY <1>2, <1>3
  <2>2. r'[s] = [r[s] EXCEPT !.nlotti = k]
    BY <1>1, <1>3, Zenon DEF Resto
  <2> HIDE DEF k
  <2>3. /\ r'[s] \in Richiesta /\ r'[s].mtype = r[s].mtype
        /\ r'[s].indicemerce = r[s].indicemerce /\ r'[s].nlotti = k
    BY <1>2, <2>1, <2>2 DEF Richiesta
  <2> QED
    BY <1>3, <2>3 DEF k
<1>4. CASE ~(n < r[s].nlotti)
  BY <1>1, <1>2, <1>4 DEF Resto
<1> QED
  BY <1>3, <1>4

LEMMA PassoLocale ==
  ASSUME IInv, NEW s \in Navi, Passo(s) \/ Sigusr2(s), Locale(s)
  PROVE  Locale(s)'
<1> USE Tipi DEF Vai, merci, ricerca, stiva, giornata, altrove, Locale, StivaVuota, ManoVuota,
                 Rotta, ScaricoVuoto, Vuote, StatiRichiesta, InNavigazione, AttesaStato,
                 NelDump1, AttesaMercato, AttesaDump0
<1>1. CASE RichiediBanchina(s)
  BY <1>1 DEF RichiediBanchina
<1>2. CASE RiservaStato(s)
  BY <1>2 DEF RiservaStato
<1>3. CASE ScriviStato(s)
  BY <1>3 DEF ScriviStato
<1>4. CASE RiservaMercato(s)
  BY <1>4 DEF RiservaMercato
<1>5. CASE AccettaPrima(s)
  BY <1>5 DEF AccettaPrima
<1>6. CASE CodaVuota(s)
  BY <1>6 DEF CodaVuota
<1>7. CASE CaricaPrima(s)
  <2>1. PICK n \in 1 .. r[s].nlotti :
          /\ Ridotti(s, n) /\ Imbarca(s, n)
          /\ Vai(s, IF n < r[s].nlotti THEN "inviaResto" ELSE "cercaDest")
    BY <1>7 DEF CaricaPrima
  <2>2. Carica(s, n)
    BY <1>7, <2>1 DEF CaricaPrima, Carica
  <2>3. UNCHANGED <<altrove, reqlett, coda>> /\ dest' = [dest EXCEPT ![s] = r[s].mtype]
    BY <1>7 DEF CaricaPrima
  <2>4. CASE n < r[s].nlotti
    BY <2>1, <2>2, <2>3, <2>4, RestoPezzi, <1>7 DEF CaricaPrima
  <2>5. CASE ~(n < r[s].nlotti)
    BY <2>1, <2>2, <2>3, <2>5, RestoPezzi, <1>7 DEF CaricaPrima
  <2> QED
    BY <2>4, <2>5
<1>8. CASE RifiutaPrima(s)
  BY <1>8 DEF RifiutaPrima
<1>9. CASE RimandaPrima(s)
  BY <1>9 DEF RimandaPrima, InviaRichiesta
<1>10. CASE InviaResto(s)
  BY <1>10 DEF InviaResto, InviaRichiesta
<1>11. CASE Salta(s)
  BY <1>11 DEF Salta
<1>12. CASE AccettaDest(s)
  <2>1. PICK i \in DOMAIN coda : coda[i].mtype = dest[s] /\ r' = [r EXCEPT ![s] = coda[i]]
    BY <1>12 DEF AccettaDest, PrimoDi, Estrai
  <2> QED
    BY <1>12, <2>1 DEF AccettaDest
<1>13. CASE NessunaPerDest(s)
  BY <1>13 DEF NessunaPerDest
<1>14. CASE ValutaDest(s)
  BY <1>14 DEF ValutaDest
<1>15. CASE RifiutaDest(s)
  BY <1>15 DEF RifiutaDest
<1>16. CASE CaricaDest(s)
  <2>1. PICK n \in 1 .. r[s].nlotti :
          /\ Ridotti(s, n) /\ Imbarca(s, n)
          /\ IF n < r[s].nlotti THEN Vai(s, "inviaDest") ELSE Vai(s, DopoLettura(s))
    BY <1>16 DEF CaricaDest
  <2>2. Carica(s, n)
    BY <1>16, <2>1 DEF CaricaDest, Carica
  <2>3. UNCHANGED <<altrove, dest, tempo, coda>> /\ pc[s] = "controllaCarico"
    BY <1>16 DEF CaricaDest
  <2>4. CASE n < r[s].nlotti
    BY <2>1, <2>2, <2>3, <2>4, RestoPezzi
  <2>5. CASE ~(n < r[s].nlotti)
    BY <2>1, <2>2, <2>3, <2>5, RestoPezzi DEF DopoLettura
  <2> QED
    BY <2>4, <2>5
<1>17. CASE ScartaDest(s)
  BY <1>17 DEF ScartaDest
<1>18. CASE RimandaDest(s)
  BY <1>18 DEF RimandaDest, InviaRichiesta, DopoLettura
<1>19. CASE RilasciaMercato(s)
  BY <1>19 DEF RilasciaMercato
<1>20. CASE RiservaDump(s)
  BY <1>20 DEF RiservaDump
<1>21. CASE ScriviDumpCarico(s)
  BY <1>21 DEF ScriviDumpCarico
<1>22. CASE LasciaBanchina(s)
  BY <1>22 DEF LasciaBanchina
<1>23. CASE LeggiData(s)
  BY <1>23 DEF LeggiData
<1>24. CASE ScaricaMercato(s)
  BY <1>24 DEF ScaricaMercato
<1>25. CASE ScriviDumpScarico(s)
  BY <1>25 DEF ScriviDumpScarico
<1>26. CASE FineScarico(s)
  BY <1>26 DEF FineScarico
<1>27. CASE Sigusr2(s)
  BY <1>27 DEF Sigusr2
<1> QED
  BY <1>1, <1>2, <1>3, <1>4, <1>5, <1>6, <1>7, <1>8, <1>9, <1>10, <1>11, <1>12, <1>13, <1>14,
     <1>15, <1>16, <1>17, <1>18, <1>19, <1>20, <1>21, <1>22, <1>23, <1>24, <1>25, <1>26, <1>27
     DEF Passo

-----------------------------------------------------------------------------
(* The copies of the dump.  Whoever is between the reserve and the release  *)
(* of a section is alone in it, so the counters it has read are still those *)
(* in the dump when it writes.                                              *)

LEMMA AlPiuUno ==
  ASSUME NEW H, IsFiniteSet(H), Cardinality(H) <= 1, NEW a \in H, NEW b \in H
  PROVE  a = b
<1> SUFFICES ASSUME a # b PROVE FALSE
  OBVIOUS
<1>1. IsFiniteSet({a}) /\ Cardinality({a}) = 1
  BY FS_Singleton
<1>2. Cardinality({a} \cup {b}) = 2
  <2>1. b \notin {a}
    OBVIOUS
  <2>2. Cardinality({a} \cup {b}) = IF b \in {a} THEN Cardinality({a}) ELSE Cardinality({a}) + 1
    BY <1>1, FS_AddElement
  <2> QED
    BY <1>1, <2>1, <2>2
<1>3. Cardinality({a} \cup {b}) <= Cardinality(H)
  <2>1. {a} \cup {b} \in SUBSET H
    OBVIOUS
  <2> QED
    BY <2>1, FS_Subset
<1>4. Cardinality(H) \in Nat
  BY FS_CardinalityType
<1> QED
  BY <1>2, <1>3, <1>4

LEMMA SoloNelDump ==
  ASSUME Inv, NEW s \in Navi, NEW q \in Navi, s # q
  PROVE  /\ ~(pc[s] \in NelDump0 /\ pc[q] \in NelDump0)
         /\ ~(pc[s] \in NelDump1 /\ pc[q] \in NelDump1)
<1>1. semDump[0] \in Nat /\ semDump[1] \in Nat
  BY DEF Inv, IInv, TypeOK
<1>2. /\ IsFiniteSet(ChiDump(NelDump0)) /\ Cardinality(ChiDump(NelDump0)) \in Nat
      /\ IsFiniteSet(ChiDump(NelDump1)) /\ Cardinality(ChiDump(NelDump1)) \in Nat
  BY ChiFinito, FS_CardinalityType
<1>3. /\ semDump[0] + Cardinality(ChiDump(NelDump0)) <= 1
      /\ semDump[1] + Cardinality(ChiDump(NelDump1)) <= 1
  BY DEF Inv, Serrature, DumpEsclusivo, Conserva, Conta, ChiDump
<1>4. Cardinality(ChiDump(NelDump0)) <= 1 /\ Cardinality(ChiDump(NelDump1)) <= 1
  BY <1>1, <1>2, <1>3
<1>5. ASSUME pc[s] \in NelDump0, pc[q] \in NelDump0 PROVE FALSE
  <2>1. s \in ChiDump(NelDump0) /\ q \in ChiDump(NelDump0)
    BY <1>5 DEF ChiDump
  <2> QED
    BY <1>2, <1>4, <2>1, AlPiuUno
<1>6. ASSUME pc[s] \in NelDump1, pc[q] \in NelDump1 PROVE FALSE
  <2>1. s \in ChiDump(NelDump1) /\ q \in ChiDump(NelDump1)
    BY <1>6 DEF ChiDump
  <2> QED
    BY <1>2, <1>4, <2>1, AlPiuUno
<1> QED
  BY <1>5, <1>6

LEMMA SoloAlMercato ==
  ASSUME Inv, NEW s \in Navi, NEW q \in Navi, s # q, porto[s] = porto[q],
         TieneMercato(s)
  PROVE  ~TieneMercato(q)
<1> SUFFICES ASSUME TieneMercato(q) PROVE FALSE
  OBVIOUS
<1>0. porto[s] \in Porti /\ semMercato[porto[s]] \in Nat
  BY DEF Inv, IInv, TypeOK
<1>1. IsFiniteSet(ChiMercato(porto[s])) /\ Cardinality(ChiMercato(porto[s])) \in Nat
  BY <1>0, ChiFinito, FS_CardinalityType
<1>2. semMercato[porto[s]] + Cardinality(ChiMercato(porto[s])) <= 1
  BY <1>0 DEF Inv, Serrature, MercatoEsclusivo, Conserva, Conta, ChiMercato
<1>3. Cardinality(ChiMercato(porto[s])) <= 1
  BY <1>0, <1>1, <1>2
<1>4. s \in ChiMercato(porto[s]) /\ q \in ChiMercato(porto[s])
  BY DEF ChiMercato
<1> QED
  BY <1>1, <1>3, <1>4, AlPiuUno

Copia(s) ==
  /\ pc[s] \in NelDump1 => copia[s].nd = nd
  /\ pc[s] \in NelDump0 => copia[s].merce = merceDump /\ copia[s].porto = portoDump

CopieEsatte == \A s \in Navi : Copia(s)

\* The steps that touch the dump or read it; any other leaves it alone and
\* does not enter a section.
ToccaDump(s) ==
  RiservaStato(s) \/ ScriviStato(s) \/ RiservaDump(s) \/ ScriviDumpCarico(s)
  \/ ScriviDumpScarico(s)

LEMMA FuoriDalDump ==
  ASSUME IInv, NEW s \in Navi, Passo(s) \/ Sigusr2(s), ~ToccaDump(s)
  PROVE  /\ UNCHANGED dump /\ copia' = copia
         /\ pc'[s] \notin NelDump0 \cup NelDump1
<1> USE Tipi DEF Vai, dump, altrove, NelDump0, NelDump1, ToccaDump
<1>1. CASE RichiediBanchina(s)
  BY <1>1 DEF RichiediBanchina
<1>2. CASE RiservaMercato(s)
  BY <1>2 DEF RiservaMercato
<1>3. CASE AccettaPrima(s) \/ CodaVuota(s) \/ CaricaPrima(s) \/ RifiutaPrima(s)
           \/ RimandaPrima(s) \/ InviaResto(s) \/ Salta(s)
  BY <1>3 DEF AccettaPrima, CodaVuota, CaricaPrima, RifiutaPrima, RimandaPrima, InviaResto, Salta
<1>4. CASE AccettaDest(s) \/ NessunaPerDest(s) \/ ValutaDest(s) \/ RifiutaDest(s)
           \/ CaricaDest(s) \/ ScartaDest(s) \/ RimandaDest(s)
  BY <1>4 DEF AccettaDest, NessunaPerDest, ValutaDest, RifiutaDest, CaricaDest, ScartaDest,
              RimandaDest, DopoLettura
<1>5. CASE RilasciaMercato(s) \/ LasciaBanchina(s) \/ LeggiData(s)
  BY <1>5 DEF RilasciaMercato, LasciaBanchina, LeggiData
<1>6. CASE ScaricaMercato(s) \/ FineScarico(s)
  BY <1>6 DEF ScaricaMercato, FineScarico
<1>7. CASE Sigusr2(s)
  BY <1>7 DEF Sigusr2
<1> QED
  BY <1>1, <1>2, <1>3, <1>4, <1>5, <1>6, <1>7 DEF Passo

LEMMA PassoCopie ==
  ASSUME Inv, NEW s \in Navi, Passo(s) \/ Sigusr2(s), CopieEsatte
  PROVE  CopieEsatte'
<1>0. IInv /\ SoloSue(s)
  BY PassoSoloSue DEF Inv
<1>1. CASE RiservaStato(s)
  <2>1. copia'[s].nd = nd /\ nd' = nd /\ merceDump' = merceDump /\ portoDump' = portoDump
    BY <1>0, <1>1, Tipi DEF RiservaStato, dump, TipoCopia
  <2>2. pc'[s] \notin NelDump0
    BY <1>0, <1>1, Tipi DEF RiservaStato, Vai, NelDump0, AttesaStato
  <2> QED
    BY <1>0, <2>1, <2>2 DEF CopieEsatte, Copia, SoloSue
<1>2. CASE RiservaDump(s)
  <2>1. /\ copia'[s].merce = merceDump /\ copia'[s].porto = portoDump
        /\ nd' = nd /\ merceDump' = merceDump /\ portoDump' = portoDump
    BY <1>0, <1>2, Tipi DEF RiservaDump, dump, TipoCopia
  <2>2. pc'[s] \notin NelDump1
    BY <1>0, <1>2, Tipi DEF RiservaDump, Vai, NelDump1, AttesaDump0
  <2> QED
    BY <1>0, <2>1, <2>2 DEF CopieEsatte, Copia, SoloSue
<1>3. CASE ScriviStato(s)
  <2>1. \A q \in Navi \ {s} : pc[q] \notin NelDump1
    BY <1>3, SoloNelDump DEF ScriviStato
  <2>2. pc'[s] \notin NelDump0 \cup NelDump1 /\ merceDump' = merceDump /\ portoDump' = portoDump
    BY <1>0, <1>3, Tipi DEF ScriviStato, Vai, NelDump0, NelDump1
  <2> QED
    BY <1>0, <2>1, <2>2 DEF CopieEsatte, Copia, SoloSue
<1>4. CASE ScriviDumpCarico(s) \/ ScriviDumpScarico(s)
  <2>1. \A q \in Navi \ {s} : pc[q] \notin NelDump0
    BY <1>4, SoloNelDump DEF ScriviDumpCarico, ScriviDumpScarico, NelDump0
  <2>2. pc'[s] \notin NelDump0 \cup NelDump1 /\ nd' = nd
    BY <1>0, <1>4, Tipi DEF ScriviDumpCarico, ScriviDumpScarico, Vai, NelDump0, NelDump1
  <2> QED
    BY <1>0, <2>1, <2>2 DEF CopieEsatte, Copia, SoloSue
<1>5. CASE ~ToccaDump(s)
  BY <1>0, <1>5, FuoriDalDump DEF CopieEsatte, Copia, SoloSue, dump
<1> QED
  BY <1>1, <1>2, <1>3, <1>4, <1>5 DEF ToccaDump

-----------------------------------------------------------------------------
(* Which steps a ship takes, and which the master. *)

\* Only SIGUSR2 takes a ship out, and the master sends it at the end.
NessunaUscita == InCorso => \A s \in Navi : pc[s] # "uscita"

\* The steps of the master, as the ships see them.
Ferme == UNCHANGED <<pc, dest, merci, porto, scarico, datascarico, copia, semafori, dump>>

LEMMA ChiMuove ==
  ASSUME [Next]_vars
  PROVE  (\E s \in Navi : Passo(s) \/ Sigusr2(s)) \/ (Ferme /\ (InCorso' => InCorso))
<1>1. CASE Controlla
  BY <1>1 DEF Controlla, Ferme, InCorso
<1>2. CASE Giorno
  BY <1>2 DEF Giorno, Ferme, InCorso
<1>3. CASE UNCHANGED vars
  BY <1>3 DEF vars, altrove, giornata, Ferme, InCorso
<1> QED
  BY <1>1, <1>2, <1>3 DEF Next, TuttiUsciti

LEMMA SoloSigusr2Esce ==
  ASSUME IInv, NEW s \in Navi, Passo(s)
  PROVE  pc'[s] # "uscita" /\ pc[s] # "uscita" /\ giornata' = giornata
<1> USE Tipi DEF Vai, merci, ricerca, stiva, giornata, altrove, InNavigazione, AttesaStato,
                 NelDump1, AttesaMercato, AttesaDump0, DopoLettura
<1>1. CASE RichiediBanchina(s) \/ RiservaStato(s) \/ ScriviStato(s)
  BY <1>1 DEF RichiediBanchina, RiservaStato, ScriviStato
<1>2. CASE RiservaMercato(s) \/ AccettaPrima(s) \/ CodaVuota(s)
  BY <1>2 DEF RiservaMercato, AccettaPrima, CodaVuota
<1>3. CASE CaricaPrima(s)
  <2>1. PICK n \in 1 .. r[s].nlotti :
          Vai(s, IF n < r[s].nlotti THEN "inviaResto" ELSE "cercaDest")
    BY <1>3 DEF CaricaPrima
  <2> QED
    BY <1>3, <2>1 DEF CaricaPrima
<1>4. CASE RifiutaPrima(s) \/ RimandaPrima(s) \/ InviaResto(s) \/ Salta(s) \/ AccettaDest(s)
  BY <1>4 DEF RifiutaPrima, RimandaPrima, InviaResto, Salta, AccettaDest
<1>5. CASE NessunaPerDest(s) \/ ValutaDest(s) \/ RifiutaDest(s) \/ ScartaDest(s) \/ RimandaDest(s)
  BY <1>5 DEF NessunaPerDest, ValutaDest, RifiutaDest, ScartaDest, RimandaDest
<1>6. CASE CaricaDest(s)
  <2>1. PICK n \in 1 .. r[s].nlotti :
          IF n < r[s].nlotti THEN Vai(s, "inviaDest") ELSE Vai(s, DopoLettura(s))
    BY <1>6 DEF CaricaDest
  <2>2. pc[s] = "controllaCarico" /\ UNCHANGED altrove
    BY <1>6 DEF CaricaDest
  <2> QED
    BY <2>1, <2>2
<1>7. CASE RilasciaMercato(s) \/ RiservaDump(s) \/ ScriviDumpCarico(s) \/ LasciaBanchina(s)
           \/ LeggiData(s)
  BY <1>7 DEF RilasciaMercato, RiservaDump, ScriviDumpCarico, LasciaBanchina, LeggiData
<1>8. CASE ScaricaMercato(s) \/ ScriviDumpScarico(s) \/ FineScarico(s)
  BY <1>8 DEF ScaricaMercato, ScriviDumpScarico, FineScarico
<1> QED
  BY <1>1, <1>2, <1>3, <1>4, <1>5, <1>6, <1>7, <1>8 DEF Passo

-----------------------------------------------------------------------------
(* The weight of the hold. *)

Tonnellaggio(s) == Somma([g \in Merci |-> Peso(g, carico[s][g])])

\* spaziolibero is what the cargo leaves of SO_CAPACITY; while a ship unloads
\* it still counts what it has already given.
Pesata(s) ==
  /\ spaziolibero[s] + Tonnellaggio(s) <= SO_CAPACITY
  /\ ~InScarico(s) /\ pc[s] # "uscita" => spaziolibero[s] + Tonnellaggio(s) = SO_CAPACITY

\* The steps that load or unload, or that start over with an empty hold.
ToccaStiva(s) == CaricaPrima(s) \/ CaricaDest(s) \/ ScaricaMercato(s) \/ FineScarico(s)

LEMMA StivaFerma ==
  ASSUME IInv, NEW s \in Navi, Passo(s) \/ Sigusr2(s), ~ToccaStiva(s)
  PROVE  /\ UNCHANGED stiva /\ mercato' = mercato
         /\ InScarico(s) => InScarico(s)' \/ pc'[s] = "uscita"
<1> USE Tipi DEF Vai, altrove, merci, ToccaStiva, InScarico
<1>1. CASE RichiediBanchina(s)
  BY <1>1 DEF RichiediBanchina, InNavigazione
<1>2. CASE RiservaMercato(s)
  BY <1>2 DEF RiservaMercato, AttesaMercato
<1>3. CASE AccettaPrima(s) \/ CodaVuota(s) \/ RifiutaPrima(s) \/ RimandaPrima(s)
           \/ InviaResto(s) \/ Salta(s)
  BY <1>3 DEF AccettaPrima, CodaVuota, RifiutaPrima, RimandaPrima, InviaResto, Salta
<1>4. CASE AccettaDest(s) \/ NessunaPerDest(s) \/ ValutaDest(s) \/ RifiutaDest(s)
           \/ ScartaDest(s) \/ RimandaDest(s)
  BY <1>4 DEF AccettaDest, NessunaPerDest, ValutaDest, RifiutaDest, ScartaDest, RimandaDest
<1>5. CASE RilasciaMercato(s) \/ LasciaBanchina(s) \/ LeggiData(s) \/ ScriviDumpCarico(s)
  BY <1>5 DEF RilasciaMercato, LasciaBanchina, LeggiData, ScriviDumpCarico
<1>6. CASE RiservaStato(s) \/ ScriviStato(s)
  BY <1>6 DEF RiservaStato, ScriviStato, AttesaStato, NelDump1
<1>7. CASE RiservaDump(s) \/ ScriviDumpScarico(s)
  BY <1>7 DEF RiservaDump, ScriviDumpScarico, AttesaDump0
<1>8. CASE Sigusr2(s)
  BY <1>8 DEF Sigusr2
<1> QED
  BY <1>1, <1>2, <1>3, <1>4, <1>5, <1>6, <1>7, <1>8 DEF Passo

LEMMA PesoPiu ==
  ASSUME NEW g \in Merci, NEW a \in Nat, NEW b \in Nat
  PROVE  Peso(g, a + b) = Peso(g, a) + Peso(g, b)
<1>1. Lotto[g].val \in Nat
  BY NaveAssumption
<1> QED
  BY <1>1 DEF Peso

LEMMA PesoZero ==
  ASSUME NEW g \in Merci, NEW n \in Nat
  PROVE  /\ Peso(g, 0) = 0 /\ TempoCarico(g, 0) = 0
         /\ n <= Peso(g, n)
<1>1. Lotto[g].val \in Nat \ {0} /\ SO_LOADSPEED \in Nat \ {0}
  BY NaveAssumption
<1>2. Peso(g, 0) = 0 /\ n <= Peso(g, n)
  <2> DEFINE v == Lotto[g].val
  <2>1. \A a, b \in Nat : a <= a * (b + 1)
    OBVIOUS
  <2>2. v - 1 \in Nat /\ v \in Nat /\ v = (v - 1) + 1
    BY <1>1
  <2>3. Peso(g, n) = n * v /\ Peso(g, 0) = 0 * v
    BY DEF Peso
  <2> HIDE DEF v
  <2>4. n <= n * v
    BY <2>1, <2>2
  <2> QED
    BY <2>2, <2>3, <2>4
<1>3. 0 \div SO_LOADSPEED = 0
  BY <1>1
<1> QED
  BY <1>2, <1>3 DEF TempoCarico

LEMMA PesoFunzione ==
  ASSUME NEW f \in [Merci -> Nat]
  PROVE  [g \in Merci |-> Peso(g, f[g])] \in [Merci -> Nat]
BY PesoNat

\* What a load does to the hold and to the market.
LEMMA CaricaStiva ==
  ASSUME IInv, NEW s \in Navi, NEW n \in Nat, Carica(s, n)
  PROVE  /\ carico'[s] \in [Merci -> Nat]
         /\ carico'[s][r[s].indicemerce] = carico[s][r[s].indicemerce] + n
         /\ \A g \in Merci \ {r[s].indicemerce} : carico'[s][g] = carico[s][g]
         /\ spaziolibero'[s] = spaziolibero[s] - Peso(r[s].indicemerce, n)
         /\ i_carico'[s] = i_carico[s] + 1
         /\ mercato'[porto[s]][r[s].indicemerce] = mercato[porto[s]][r[s].indicemerce] - n
         /\ \A p \in Porti, g \in Merci : ~(p = porto[s] /\ g = r[s].indicemerce) =>
              mercato'[p][g] = mercato[p][g]
<1> DEFINE h == r[s].indicemerce
           v == carico[s][h] + n
           w == mercato[porto[s]][h] - n
<1>1. h \in Merci /\ porto[s] \in Porti
  BY CaricaPezzi
<1>2. /\ carico \in [Navi -> [Merci -> Nat]] /\ mercato \in [Porti -> [Merci -> Int]]
      /\ spaziolibero \in [Navi -> Nat] /\ i_carico \in [Navi -> Nat]
  BY Tipi
<1>3. v \in Nat
  BY <1>1, <1>2
<1>4. /\ carico' = [carico EXCEPT ![s] = [carico[s] EXCEPT ![h] = v]]
      /\ i_carico' = [i_carico EXCEPT ![s] = i_carico[s] + 1]
      /\ spaziolibero' = [spaziolibero EXCEPT ![s] = spaziolibero[s] - Peso(h, n)]
      /\ mercato' = [mercato EXCEPT ![porto[s]] = [mercato[porto[s]] EXCEPT ![h] = w]]
  BY DEF Carica, Imbarca
<1> HIDE DEF v, w, h
<1>5. /\ carico'[s] \in [Merci -> Nat] /\ carico'[s][h] = v
      /\ \A g \in Merci \ {h} : carico'[s][g] = carico[s][g]
  BY <1>1, <1>2, <1>3, <1>4
<1>6. /\ spaziolibero'[s] = spaziolibero[s] - Peso(h, n)
      /\ i_carico'[s] = i_carico[s] + 1
  BY <1>2, <1>4
<1>7. /\ mercato'[porto[s]][h] = w
      /\ \A p \in Porti, g \in Merci : ~(p = porto[s] /\ g = h) => mercato'[p][g] = mercato[p][g]
  BY <1>1, <1>2, <1>4
<1> QED
  BY <1>5, <1>6, <1>7 DEF v, w, h

\* What unloading one good does to them.
Scarica(s, g) ==
  LET n == carico[s][g] IN
  /\ pc[s] = "scarica" /\ n > 0
  /\ mercato' = IF ~Scaduta(s, g) /\ mercato[porto[s]][g] <= -n
       THEN [mercato EXCEPT ![porto[s]] =
               [mercato[porto[s]] EXCEPT ![g] = mercato[porto[s]][g] + n]]
       ELSE mercato
  /\ scarico' = [scarico EXCEPT ![s] = [indice |-> g, val |-> n]]
  /\ carico' = [carico EXCEPT ![s] = [carico[s] EXCEPT ![g] = 0]]

LEMMA ChiScarica ==
  ASSUME NEW s \in Navi, ScaricaMercato(s)
  PROVE  \E g \in Merci : Scarica(s, g)
BY DEF ScaricaMercato, Scarica

LEMMA ScaricaStiva ==
  ASSUME IInv, NEW s \in Navi, NEW h \in Merci, Scarica(s, h)
  PROVE  /\ carico'[s] \in [Merci -> Nat] /\ carico'[s][h] = 0
         /\ \A g \in Merci \ {h} : carico'[s][g] = carico[s][g]
         /\ scarico'[s].indice = h /\ scarico'[s].val = carico[s][h]
         /\ \A p \in Porti, g \in Merci : ~(p = porto[s] /\ g = h) =>
              mercato'[p][g] = mercato[p][g]
         /\ IF ~Scaduta(s, h) /\ mercato[porto[s]][h] <= -carico[s][h]
              THEN mercato'[porto[s]][h] = mercato[porto[s]][h] + carico[s][h]
              ELSE mercato'[porto[s]][h] = mercato[porto[s]][h]
         /\ carico[s][h] \in Nat \ {0} /\ porto[s] \in Porti
<1> DEFINE n == carico[s][h]
           w == mercato[porto[s]][h] + n
<1>1. /\ carico \in [Navi -> [Merci -> Nat]] /\ mercato \in [Porti -> [Merci -> Int]]
      /\ scarico \in [Navi -> [indice : Merci, val : Nat]] /\ porto[s] \in Porti
  BY Tipi
<1>2. n \in Nat /\ n > 0
  BY <1>1 DEF Scarica
<1>3. /\ mercato' = IF ~Scaduta(s, h) /\ mercato[porto[s]][h] <= -n
           THEN [mercato EXCEPT ![porto[s]] = [mercato[porto[s]] EXCEPT ![h] = w]]
           ELSE mercato
      /\ scarico' = [scarico EXCEPT ![s] = [indice |-> h, val |-> n]]
      /\ carico' = [carico EXCEPT ![s] = [carico[s] EXCEPT ![h] = 0]]
  BY DEF Scarica
<1> HIDE DEF n, w
<1>4. /\ carico'[s] \in [Merci -> Nat] /\ carico'[s][h] = 0
      /\ \A g \in Merci \ {h} : carico'[s][g] = carico[s][g]
      /\ scarico'[s].indice = h /\ scarico'[s].val = n
  BY <1>1, <1>3
<1>5. CASE ~Scaduta(s, h) /\ mercato[porto[s]][h] <= -n
  <2>1. mercato' = [mercato EXCEPT ![porto[s]] = [mercato[porto[s]] EXCEPT ![h] = w]]
    BY <1>3, <1>5
  <2>2. /\ mercato'[porto[s]][h] = w
        /\ \A p \in Porti, g \in Merci : ~(p = porto[s] /\ g = h) => mercato'[p][g] = mercato[p][g]
    BY <1>1, <2>1
  <2> QED
    BY <1>1, <1>2, <1>4, <1>5, <2>2 DEF n, w
<1>6. CASE ~(~Scaduta(s, h) /\ mercato[porto[s]][h] <= -n)
  <2>1. mercato' = mercato
    BY <1>3, <1>6
  <2> QED
    BY <1>1, <1>2, <1>4, <1>6, <2>1 DEF n
<1> QED
  BY <1>5, <1>6

LEMMA PassoPesata ==
  ASSUME IInv, NEW s \in Navi, Passo(s) \/ Sigusr2(s), Pesata(s)
  PROVE  Pesata(s)'
<1> DEFINE peso == [g \in Merci |-> Peso(g, carico[s][g])]
           pesoDopo == [g \in Merci |-> Peso(g, carico'[s][g])]
<1>1. peso \in [Merci -> Nat] /\ carico[s] \in [Merci -> Nat] /\ spaziolibero[s] \in Nat
  BY Tipi, PesoNat
<1>2. Somma(peso) \in Nat /\ Tonnellaggio(s) = Somma(peso)
  BY <1>1, MerciFinite, UnitaFinita DEF Tonnellaggio
<1>3. Tonnellaggio(s)' = Somma(pesoDopo)
  BY DEF Tonnellaggio, Peso
<1>4. SO_CAPACITY \in Nat
  BY NaveAssumption
<1>5. CASE CaricaPrima(s) \/ CaricaDest(s)
  <2>1. PICK n \in Nat : Carica(s, n)
    BY <1>5, ChiCarica
  <2> DEFINE h == r[s].indicemerce
  <2>2. /\ h \in Merci /\ Peso(h, n) <= spaziolibero[s]
        /\ carico'[s] \in [Merci -> Nat] /\ carico'[s][h] = carico[s][h] + n
        /\ \A g \in Merci \ {h} : carico'[s][g] = carico[s][g]
        /\ spaziolibero'[s] = spaziolibero[s] - Peso(h, n)
    BY <2>1, CaricaPezzi, CaricaStiva
  <2> HIDE DEF h
  <2>3. pesoDopo \in [Merci -> Nat] /\ Peso(h, n) \in Nat
    BY <2>2, PesoNat
  <2>4. \A g \in Merci \ {h} : pesoDopo[g] = peso[g]
    BY <2>2
  <2>5. pesoDopo[h] = peso[h] + Peso(h, n)
    BY <1>1, <2>2, PesoPiu
  <2> HIDE DEF peso, pesoDopo
  <2>6. Somma(pesoDopo) = Somma(peso) - peso[h] + pesoDopo[h]
    BY <1>1, <2>2, <2>3, <2>4, MerciFinite, SommaCambia
  <2>7. Somma(pesoDopo) = Somma(peso) + Peso(h, n)
    BY <1>1, <1>2, <2>2, <2>3, <2>5, <2>6
  <2>8. pc[s] \in {"valuta", "controllaCarico"}
    BY <2>1 DEF Carica
  <2> QED
    BY <1>1, <1>2, <1>3, <1>4, <2>2, <2>3, <2>7, <2>8 DEF Pesata, InScarico
<1>6. CASE ScaricaMercato(s)
  <2>1. PICK h \in Merci : Scarica(s, h)
    BY <1>6, ChiScarica
  <2>2. /\ carico'[s] \in [Merci -> Nat] /\ carico'[s][h] = 0
        /\ \A g \in Merci \ {h} : carico'[s][g] = carico[s][g]
    BY <2>1, ScaricaStiva
  <2>3. pesoDopo \in [Merci -> Nat]
    BY <2>2, PesoNat
  <2>4. \A g \in Merci : pesoDopo[g] <= peso[g]
    <3>1. \A g \in Merci \ {h} : pesoDopo[g] = peso[g]
      BY <2>2
    <3>2. pesoDopo[h] = 0
      BY <2>2, PesoZero
    <3> HIDE DEF peso, pesoDopo
    <3> QED
      BY <1>1, <2>3, <3>1, <3>2
  <2>5. Somma(pesoDopo) <= Somma(peso) /\ Somma(pesoDopo) \in Nat
    <3> HIDE DEF peso, pesoDopo
    <3> QED
      BY <1>1, <2>3, <2>4, MerciFinite, SommaMonotona, UnitaFinita
  <2>6. pc'[s] = "dumpScarico" /\ spaziolibero' = spaziolibero
    BY <1>6, Tipi DEF ScaricaMercato, Vai
  <2> HIDE DEF peso, pesoDopo
  <2> QED
    BY <1>1, <1>2, <1>3, <1>4, <2>5, <2>6 DEF Pesata, InScarico
<1>7. CASE FineScarico(s)
  <2>1. /\ \A g \in Merci : carico[s][g] = 0 /\ carico'[s][g] = 0
        /\ spaziolibero'[s] = SO_CAPACITY
    BY <1>7, Tipi DEF FineScarico
  <2>2. pesoDopo \in [Merci -> Nat] /\ \A g \in Merci : pesoDopo[g] = 0
    BY <2>1, PesoZero
  <2>3. Somma(pesoDopo) = 0
    <3> HIDE DEF pesoDopo
    <3> QED
      BY <2>2, SommaZero
  <2> HIDE DEF pesoDopo
  <2> QED
    BY <1>3, <1>4, <2>1, <2>3 DEF Pesata
<1>8. CASE ~ToccaStiva(s)
  <2>1. UNCHANGED stiva /\ (InScarico(s) => InScarico(s)' \/ pc'[s] = "uscita")
    BY <1>8, StivaFerma
  <2>2. pc[s] = "uscita" => pc'[s] = "uscita"
    BY SoloSigusr2Esce DEF Sigusr2, Finita
  <2> QED
    BY <2>1, <2>2 DEF Pesata, stiva, Tonnellaggio
<1> QED
  BY <1>5, <1>6, <1>7, <1>8 DEF ToccaStiva

-----------------------------------------------------------------------------
(* These facts together, on top of the locks. *)

InvMerci == /\ Inv /\ CopieEsatte /\ NessunaUscita
            /\ \A s \in Navi : Locale(s) /\ Pesata(s)

LEMMA InitInvMerci == Init => InvMerci
<1> SUFFICES ASSUME Init PROVE InvMerci
  OBVIOUS
<1>1. Inv
  BY InitIInv, InitSerrature DEF Inv
<1>2. ASSUME NEW s \in Navi PROVE Locale(s)
  BY DEF Init, Locale, StivaVuota, ManoVuota, Rotta, ScaricoVuoto, StatiRichiesta
<1>3. ASSUME NEW s \in Navi PROVE Pesata(s)
  <2> DEFINE peso == [g \in Merci |-> Peso(g, carico[s][g])]
  <2>1. carico[s] \in [Merci -> Nat] /\ (\A g \in Merci : carico[s][g] = 0) /\ spaziolibero[s] = SO_CAPACITY
    BY DEF Init
  <2>2. peso \in [Merci -> Nat] /\ \A g \in Merci : peso[g] = 0
    BY <2>1, PesoZero
  <2>3. Somma(peso) = 0
    <3> HIDE DEF peso
    <3> QED
      BY <2>2, SommaZero
  <2> QED
    BY <2>1, <2>3, NaveAssumption DEF Pesata, Tonnellaggio
<1>4. CopieEsatte
  BY DEF Init, CopieEsatte, Copia, NelDump0, NelDump1
<1>5. NessunaUscita
  BY DEF Init, NessunaUscita
<1> QED
  BY <1>1, <1>2, <1>3, <1>4, <1>5 DEF InvMerci

LEMMA NextInvMerci == InvMerci /\ [Next]_vars => InvMerci'
<1> SUFFICES ASSUME InvMerci, [Next]_vars PROVE InvMerci'
  OBVIOUS
<1>0. Inv /\ IInv /\ Inv'
  BY NextInv DEF InvMerci, Inv
<1>1. ASSUME NEW s \in Navi, Passo(s) \/ Sigusr2(s) PROVE InvMerci'
  <2>1. SoloSue(s)
    BY <1>0, <1>1, PassoSoloSue
  <2>2. ASSUME NEW q \in Navi PROVE Locale(q)' /\ Pesata(q)'
    <3>1. CASE q = s
      BY <1>0, <1>1, <3>1, PassoLocale, PassoPesata DEF InvMerci
    <3>2. CASE q # s
      <4>1. Locale(q) /\ Pesata(q)
        BY DEF InvMerci
      <4>2. Locale(q)'
        BY <2>1, <3>2, <4>1 DEF SoloSue, Locale, StivaVuota, ManoVuota, Rotta, ScaricoVuoto
      <4>3. /\ carico'[q] = carico[q] /\ spaziolibero'[q] = spaziolibero[q]
            /\ pc'[q] = pc[q]
        BY <2>1, <3>2 DEF SoloSue
      <4>4. Tonnellaggio(q)' = Tonnellaggio(q)
        BY <4>3 DEF Tonnellaggio
      <4> QED
        BY <4>1, <4>2, <4>3, <4>4 DEF Pesata, InScarico
    <3> QED
      BY <3>1, <3>2
  <2>3. CopieEsatte'
    BY <1>0, <1>1, PassoCopie DEF InvMerci
  <2>4. NessunaUscita'
    <3>1. CASE Passo(s)
      BY <1>0, <2>1, <3>1, SoloSigusr2Esce DEF InvMerci, NessunaUscita, SoloSue, InCorso, giornata
    <3>2. CASE Sigusr2(s)
      BY <3>2 DEF Sigusr2, NessunaUscita, InCorso, altrove, giornata
    <3> QED
      BY <1>1, <3>1, <3>2
  <2> QED
    BY <1>0, <2>2, <2>3, <2>4 DEF InvMerci
<1>2. CASE Ferme /\ (InCorso' => InCorso)
  <2>1. \A q \in Navi : Locale(q)' /\ Pesata(q)'
    BY <1>2 DEF InvMerci, Ferme, Locale, StivaVuota, ManoVuota, Rotta, ScaricoVuoto, merci,
                ricerca, stiva, Pesata, Tonnellaggio, InScarico
  <2>2. CopieEsatte'
    BY <1>2 DEF InvMerci, Ferme, CopieEsatte, Copia, dump
  <2>3. NessunaUscita'
    BY <1>2 DEF InvMerci, Ferme, NessunaUscita
  <2> QED
    BY <1>0, <2>1, <2>2, <2>3 DEF InvMerci
<1> QED
  BY <1>1, <1>2, ChiMuove

LEMMA SempreInvMerci == Spec => []InvMerci
BY InitInvMerci, NextInvMerci, PTL DEF Spec

-----------------------------------------------------------------------------
(* What is written in the dump. *)

LEMMA StivaSgombra ==
  ASSUME InvMerci, NEW s \in Navi, ~InScarico(s), pc[s] # "uscita",
         spaziolibero[s] = SO_CAPACITY
  PROVE  \A g \in Merci : carico[s][g] = 0
<1> TAKE g \in Merci
<1> DEFINE peso == [h \in Merci |-> Peso(h, carico[s][h])]
<1>1. carico[s] \in [Merci -> Nat] /\ SO_CAPACITY \in Nat
  BY Tipi, NaveAssumption DEF InvMerci, Inv
<1>2. peso \in [Merci -> Nat] /\ carico[s][g] <= peso[g]
  BY <1>1, PesoNat, PesoZero
<1>3. Somma(peso) = Tonnellaggio(s)
  BY DEF Tonnellaggio
<1> HIDE DEF peso
<1>4. Somma(peso) \in Nat /\ peso[g] <= Somma(peso)
  BY <1>2, MerciFinite, UnitaFinita, SommaAlmeno
<1>5. spaziolibero[s] + Tonnellaggio(s) <= SO_CAPACITY
  BY DEF InvMerci, Pesata
<1> QED
  BY <1>1, <1>2, <1>3, <1>4, <1>5

LEMMA ScriviCaricoPezzi ==
  ASSUME InvMerci, NEW s \in Navi, ScriviDumpCarico(s)
  PROVE  /\ \A g \in Merci :
              /\ merceDump'[g]["presente_in_nave"] =
                   merceDump[g]["presente_in_nave"] + carico[s][g]
              /\ merceDump'[g]["presente_in_porto"] =
                   merceDump[g]["presente_in_porto"] - carico[s][g]
              /\ merceDump'[g]["consegnata"] = merceDump[g]["consegnata"]
              /\ merceDump'[g]["scaduta_in_nave"] = merceDump[g]["scaduta_in_nave"]
         /\ \A p \in Porti :
              /\ portoDump'[p]["mercespedita"] = portoDump[p]["mercespedita"]
                   + (IF p = porto[s] THEN Somma(carico[s]) ELSE 0)
              /\ portoDump'[p]["mercericevuta"] = portoDump[p]["mercericevuta"]
         /\ Somma(carico[s]) \in Nat
<1>1. IInv /\ Copia(s) /\ pc[s] = "scriviCarico"
  BY DEF InvMerci, Inv, CopieEsatte, ScriviDumpCarico
<1>2. copia[s].merce = merceDump /\ copia[s].porto = portoDump
  BY <1>1 DEF Copia, NelDump0
<1>3. /\ carico[s] \in [Merci -> Nat] /\ porto[s] \in Porti
      /\ merceDump \in [Merci -> [CampiMerce -> Int]]
      /\ portoDump \in [Porti -> [CampiPorto -> Int]]
  BY <1>1, Tipi
<1>4. Somma(carico[s]) \in Nat
  BY <1>3, MerciFinite, UnitaFinita
<1>5. CASE spaziolibero[s] = SO_CAPACITY
  <2>1. \A g \in Merci : carico[s][g] = 0
    BY <1>1, <1>5, StivaSgombra DEF InScarico
  <2>2. Somma(carico[s]) = 0
    BY <1>3, <2>1, SommaZero
  <2>3. merceDump' = merceDump /\ portoDump' = portoDump
    BY <1>5 DEF ScriviDumpCarico
  <2>4. \A g \in Merci, c \in CampiMerce : merceDump[g][c] \in Int
    BY <1>3
  <2>5. \A p \in Porti, c \in CampiPorto : portoDump[p][c] \in Int
    BY <1>3
  <2> QED
    BY <2>1, <2>2, <2>3, <2>4, <2>5 DEF CampiMerce, CampiPorto
<1>6. CASE spaziolibero[s] # SO_CAPACITY
  <2> DEFINE k == Somma(carico[s])
  <2>1. /\ merceDump' = [g \in Merci |->
              IF carico[s][g] = 0 THEN merceDump[g]
              ELSE [merceDump[g] EXCEPT
                      !["presente_in_nave"] = @ + carico[s][g],
                      !["presente_in_porto"] = @ - carico[s][g]]]
        /\ portoDump' = [portoDump EXCEPT ![porto[s]] =
              [portoDump[porto[s]] EXCEPT
                 !["mercespedita"] = @ + k, !["mercepresente"] = @ - k]]
    BY <1>2, <1>6 DEF ScriviDumpCarico
  <2>2. k \in Nat
    BY <1>4
  <2> HIDE DEF k
  <2>3. ASSUME NEW g \in Merci
        PROVE  /\ merceDump'[g]["presente_in_nave"] =
                    merceDump[g]["presente_in_nave"] + carico[s][g]
               /\ merceDump'[g]["presente_in_porto"] =
                    merceDump[g]["presente_in_porto"] - carico[s][g]
               /\ merceDump'[g]["consegnata"] = merceDump[g]["consegnata"]
               /\ merceDump'[g]["scaduta_in_nave"] = merceDump[g]["scaduta_in_nave"]
    <3>1. merceDump[g] \in [CampiMerce -> Int] /\ carico[s][g] \in Nat
      BY <1>3
    <3>2. CASE carico[s][g] = 0
      <4>1. merceDump'[g] = merceDump[g]
        BY <2>1, <3>2
      <4> QED
        BY <3>1, <3>2, <4>1 DEF CampiMerce
    <3>3. CASE carico[s][g] # 0
      <4>1. merceDump'[g] = [merceDump[g] EXCEPT
                 !["presente_in_nave"] = @ + carico[s][g],
                 !["presente_in_porto"] = @ - carico[s][g]]
        BY <2>1, <3>3
      <4> QED
        BY <3>1, <4>1 DEF CampiMerce
    <3> QED
      BY <3>2, <3>3
  <2>4. ASSUME NEW p \in Porti
        PROVE  /\ portoDump'[p]["mercespedita"] = portoDump[p]["mercespedita"]
                    + (IF p = porto[s] THEN k ELSE 0)
               /\ portoDump'[p]["mercericevuta"] = portoDump[p]["mercericevuta"]
    <3>1. portoDump[p] \in [CampiPorto -> Int]
      BY <1>3
    <3>2. CASE p = porto[s]
      <4>1. portoDump'[p] = [portoDump[p] EXCEPT
                 !["mercespedita"] = @ + k, !["mercepresente"] = @ - k]
        BY <1>3, <2>1, <3>2
      <4> QED
        BY <2>2, <3>1, <3>2, <4>1 DEF CampiPorto
    <3>3. CASE p # porto[s]
      <4>1. portoDump'[p] = portoDump[p]
        BY <1>3, <2>1, <3>3
      <4> QED
        BY <3>1, <3>3, <4>1 DEF CampiPorto
    <3> QED
      BY <3>2, <3>3
  <2> QED
    BY <1>4, <2>3, <2>4 DEF k
<1> QED
  BY <1>5, <1>6

LEMMA ScriviScaricoPezzi ==
  ASSUME InvMerci, NEW s \in Navi, ScriviDumpScarico(s)
  PROVE  /\ \A g \in Merci :
              LET n == IF g = scarico[s].indice THEN scarico[s].val ELSE 0 IN
              /\ merceDump'[g]["presente_in_nave"] = merceDump[g]["presente_in_nave"] - n
              /\ merceDump'[g]["presente_in_porto"] = merceDump[g]["presente_in_porto"]
              /\ merceDump'[g]["consegnata"] =
                   merceDump[g]["consegnata"] + (IF Scaduta(s, g) THEN 0 ELSE n)
              /\ merceDump'[g]["scaduta_in_nave"] =
                   merceDump[g]["scaduta_in_nave"] + (IF Scaduta(s, g) THEN n ELSE 0)
         /\ \A p \in Porti :
              /\ portoDump'[p]["mercespedita"] = portoDump[p]["mercespedita"]
              /\ portoDump'[p]["mercericevuta"] = portoDump[p]["mercericevuta"]
                   + (IF p = porto[s] /\ ~Scaduta(s, scarico[s].indice)
                        THEN scarico[s].val ELSE 0)
<1> DEFINE h == scarico[s].indice
           k == scarico[s].val
<1>1. IInv /\ Copia(s) /\ pc[s] = "scriviScarico"
  BY DEF InvMerci, Inv, CopieEsatte, ScriviDumpScarico
<1>2. copia[s].merce = merceDump /\ copia[s].porto = portoDump
  BY <1>1 DEF Copia, NelDump0
<1>3. /\ scarico[s] \in [indice : Merci, val : Nat] /\ porto[s] \in Porti
      /\ merceDump \in [Merci -> [CampiMerce -> Int]]
      /\ portoDump \in [Porti -> [CampiPorto -> Int]]
  BY <1>1, Tipi
<1>4. h \in Merci /\ k \in Nat
  BY <1>3
<1>5. /\ merceDump' = [merceDump EXCEPT ![h] =
            [merceDump[h] EXCEPT !["presente_in_nave"] = @ - k, ![Esito(s, h)] = @ + k]]
      /\ portoDump' = IF Scaduta(s, h) THEN portoDump
           ELSE [portoDump EXCEPT ![porto[s]] =
                   [portoDump[porto[s]] EXCEPT !["mercericevuta"] = @ + k]]
  BY <1>2 DEF ScriviDumpScarico
<1> HIDE DEF h, k
<1>6. ASSUME NEW g \in Merci, NEW n, n = IF g = h THEN k ELSE 0
      PROVE  /\ merceDump'[g]["presente_in_nave"] = merceDump[g]["presente_in_nave"] - n
             /\ merceDump'[g]["presente_in_porto"] = merceDump[g]["presente_in_porto"]
             /\ merceDump'[g]["consegnata"] =
                  merceDump[g]["consegnata"] + (IF Scaduta(s, g) THEN 0 ELSE n)
             /\ merceDump'[g]["scaduta_in_nave"] =
                  merceDump[g]["scaduta_in_nave"] + (IF Scaduta(s, g) THEN n ELSE 0)
  <2>1. merceDump[g] \in [CampiMerce -> Int]
    BY <1>3
  <2>2. CASE g # h
    <3>1. merceDump'[g] = merceDump[g]
      BY <1>4, <1>3, <1>5, <2>2
    <3> QED
      BY <2>1, <2>2, <1>6, <3>1 DEF CampiMerce
  <2>3. CASE g = h
    <3>1. merceDump'[g] = [merceDump[g] EXCEPT !["presente_in_nave"] = @ - k,
                                               ![Esito(s, g)] = @ + k]
      BY <1>3, <1>5, <2>3
    <3>2. CASE Scaduta(s, g)
      <4>1. merceDump'[g] = [merceDump[g] EXCEPT !["presente_in_nave"] = @ - k,
                                                 !["scaduta_in_nave"] = @ + k]
        BY <3>1, <3>2 DEF Esito
      <4> QED
        BY <1>4, <1>6, <2>1, <2>3, <3>2, <4>1 DEF CampiMerce
    <3>3. CASE ~Scaduta(s, g)
      <4>1. merceDump'[g] = [merceDump[g] EXCEPT !["presente_in_nave"] = @ - k,
                                                 !["consegnata"] = @ + k]
        BY <3>1, <3>3 DEF Esito
      <4> QED
        BY <1>4, <1>6, <2>1, <2>3, <3>3, <4>1 DEF CampiMerce
    <3> QED
      BY <3>2, <3>3
  <2> QED
    BY <2>2, <2>3
<1>7. ASSUME NEW p \in Porti
      PROVE  /\ portoDump'[p]["mercespedita"] = portoDump[p]["mercespedita"]
             /\ portoDump'[p]["mercericevuta"] = portoDump[p]["mercericevuta"]
                  + (IF p = porto[s] /\ ~Scaduta(s, h) THEN k ELSE 0)
  <2>1. portoDump[p] \in [CampiPorto -> Int]
    BY <1>3
  <2>2. CASE p = porto[s] /\ ~Scaduta(s, h)
    <3>1. portoDump'[p] = [portoDump[p] EXCEPT !["mercericevuta"] = @ + k]
      BY <1>3, <1>5, <2>2
    <3> QED
      BY <1>4, <2>1, <2>2, <3>1 DEF CampiPorto
  <2>3. CASE ~(p = porto[s] /\ ~Scaduta(s, h))
    <3>1. portoDump'[p] = portoDump[p]
      BY <1>3, <1>5, <2>3
    <3> QED
      BY <2>1, <2>3, <3>1 DEF CampiPorto
  <2> QED
    BY <2>2, <2>3
<1> QED
  BY <1>6, <1>7 DEF h, k

ScriveMerci(s) == ScriviDumpCarico(s) \/ ScriviDumpScarico(s)

LEMMA DumpMerciFermo ==
  ASSUME InvMerci, NEW s \in Navi, Passo(s) \/ Sigusr2(s), ~ScriveMerci(s)
  PROVE  merceDump' = merceDump /\ portoDump' = portoDump
<1>1. CASE RiservaStato(s) \/ ScriviStato(s) \/ RiservaDump(s)
  BY <1>1 DEF RiservaStato, ScriviStato, RiservaDump, dump
<1>2. CASE ~ToccaDump(s)
  BY <1>2, FuoriDalDump DEF dump, InvMerci, Inv
<1> QED
  BY <1>1, <1>2 DEF ToccaDump, ScriveMerci

ConservaDump ==
  /\ \A g \in Merci :
       /\ Registrati(g)' = Registrati(g)
       /\ \A c \in {"consegnata", "scaduta_in_nave"} : merceDump'[g][c] >= merceDump[g][c]
  /\ \A p \in Porti, c \in {"mercespedita", "mercericevuta"} :
       portoDump'[p][c] >= portoDump[p][c]

LEMMA DumpConservatoPasso ==
  ASSUME InvMerci, [Next]_vars
  PROVE  ConservaDump
<1>0. /\ \A g \in Merci : /\ merceDump[g]["presente_in_nave"] \in Int
                          /\ merceDump[g]["presente_in_porto"] \in Int
                          /\ merceDump[g]["consegnata"] \in Int
                          /\ merceDump[g]["scaduta_in_nave"] \in Int
      /\ \A p \in Porti : /\ portoDump[p]["mercespedita"] \in Int
                          /\ portoDump[p]["mercericevuta"] \in Int
      /\ \A q \in Navi : scarico[q].val \in Nat
  BY Tipi DEF InvMerci, Inv, CampiMerce, CampiPorto
<1>1. CASE merceDump' = merceDump /\ portoDump' = portoDump
  BY <1>0, <1>1 DEF ConservaDump, Registrati
<1>2. ASSUME NEW s \in Navi, ScriviDumpCarico(s) PROVE ConservaDump
  <2>1. \A g \in Merci : carico[s][g] \in Nat
    BY Tipi DEF InvMerci, Inv
  <2> QED
    BY <1>0, <1>2, <2>1, ScriviCaricoPezzi DEF ConservaDump, Registrati
<1>3. ASSUME NEW s \in Navi, ScriviDumpScarico(s) PROVE ConservaDump
  BY <1>0, <1>3, ScriviScaricoPezzi DEF ConservaDump, Registrati
<1>4. CASE Ferme
  BY <1>1, <1>4 DEF Ferme, dump
<1>5. ASSUME NEW s \in Navi, Passo(s) \/ Sigusr2(s) PROVE ConservaDump
  BY <1>1, <1>2, <1>3, <1>5, DumpMerciFermo DEF ScriveMerci
<1> QED
  BY <1>4, <1>5, ChiMuove

\* No update of the goods counters is ever lost, for any number of ships
\* writing the dump: what each writes back from its copy (nave_lib.c:53-87,
\* 113-147) leaves the sum of the four counters of every good as it was, and
\* takes back nothing delivered, expired, shipped or received.
THEOREM DumpMaiPerso == Spec => DumpConservato
<1>1. InvMerci /\ [Next]_vars => [ConservaDump]_vars
  BY DumpConservatoPasso
<1> QED
  BY SempreInvMerci, <1>1, PTL DEF Spec, DumpConservato, ConservaDump

-----------------------------------------------------------------------------
(* The ship counters of the dump. *)

Contate(c) == {s \in Navi : StatoDi(s) = c}

LEMMA ContateFinite ==
  ASSUME NEW c
  PROVE  IsFiniteSet(Contate(c)) /\ Cardinality(Contate(c)) \in Nat
<1>1. Contate(c) \in SUBSET Navi
  BY DEF Contate
<1> QED
  BY <1>1, NaveAssumption, FS_Subset, FS_CardinalityType

LEMMA StatoFermo ==
  ASSUME IInv, NEW s \in Navi, Passo(s), ~ScriviStato(s)
  PROVE  StatoDi(s)' = StatoDi(s) /\ nd' = nd
<1> USE Tipi DEF Vai, altrove, merci, stiva, dump, InNavigazione, StatoDi
<1>1. CASE RiservaMercato(s) \/ AccettaPrima(s) \/ CodaVuota(s) \/ RifiutaPrima(s)
           \/ RimandaPrima(s) \/ InviaResto(s) \/ Salta(s)
  BY <1>1 DEF RiservaMercato, AttesaMercato, AccettaPrima, CodaVuota, RifiutaPrima,
              RimandaPrima, InviaResto, Salta
<1>2. CASE AccettaDest(s) \/ NessunaPerDest(s) \/ ValutaDest(s) \/ RifiutaDest(s)
           \/ ScartaDest(s) \/ RimandaDest(s)
  BY <1>2 DEF AccettaDest, NessunaPerDest, ValutaDest, RifiutaDest, ScartaDest, RimandaDest,
              DopoLettura
<1>3. CASE CaricaPrima(s)
  <2>1. PICK n \in 1 .. r[s].nlotti :
          Vai(s, IF n < r[s].nlotti THEN "inviaResto" ELSE "cercaDest")
    BY <1>3 DEF CaricaPrima
  <2>2. pc[s] = "valuta" /\ UNCHANGED altrove
    BY <1>3 DEF CaricaPrima
  <2> QED
    BY <2>1, <2>2
<1>4. CASE CaricaDest(s)
  <2>1. PICK n \in 1 .. r[s].nlotti :
          IF n < r[s].nlotti THEN Vai(s, "inviaDest") ELSE Vai(s, DopoLettura(s))
    BY <1>4 DEF CaricaDest
  <2>2. pc[s] = "controllaCarico" /\ UNCHANGED altrove
    BY <1>4 DEF CaricaDest
  <2> QED
    BY <2>1, <2>2 DEF DopoLettura
<1>5. CASE RilasciaMercato(s) \/ RiservaDump(s) \/ ScriviDumpCarico(s) \/ LasciaBanchina(s)
           \/ LeggiData(s) \/ ScaricaMercato(s) \/ ScriviDumpScarico(s) \/ FineScarico(s)
  BY <1>5 DEF RilasciaMercato, RiservaDump, ScriviDumpCarico, LasciaBanchina, LeggiData,
              ScaricaMercato, ScriviDumpScarico, FineScarico, AttesaDump0
<1>6. CASE RichiediBanchina(s)
  BY <1>6 DEF RichiediBanchina, InMareCome
<1>7. CASE RiservaStato(s)
  BY <1>7 DEF RiservaStato, AttesaStato, InMareCome
<1> QED
  BY <1>1, <1>2, <1>3, <1>4, <1>5, <1>6, <1>7 DEF Passo

\* A ship counts as somewhere else exactly when stato_nave() writes it.
LEMMA StatoScritto ==
  ASSUME InvMerci, NEW s \in Navi, ScriviStato(s)
  PROVE  \E da, a \in StatiNave :
           /\ StatoDi(s) = da /\ StatoDi(s)' = a /\ da # a
           /\ nd' = NdSpostata(nd, da, a)
<1>1. IInv /\ copia[s].nd = nd /\ pc[s] \in NelDump1
  BY DEF InvMerci, Inv, CopieEsatte, Copia, ScriviStato
<1>2. InMareCome(s)' = InMareCome(s) /\ InMareCome(s) \in {"naviscariche", "navicariche"}
  BY DEF ScriviStato, InMareCome, merci, stiva
<1>3. /\ pc[s] = "scriviPartenza" => pc'[s] = "inMare"
      /\ pc[s] = "scriviInizio" => pc'[s] = "mercato"
      /\ pc[s] = "scriviArrivo" => pc'[s] = "scarico"
  BY <1>1, Tipi DEF ScriviStato, Vai
<1>4. nd' = IF pc[s] = "scriviPartenza" THEN NdSpostata(nd, "naviporto", InMareCome(s))
            ELSE NdSpostata(nd, InMareCome(s), "naviporto")
  BY <1>1 DEF ScriviStato
<1>5. CASE pc[s] = "scriviPartenza"
  <2>1. StatoDi(s) = "naviporto" /\ StatoDi(s)' = InMareCome(s)
    BY <1>2, <1>3, <1>5 DEF StatoDi, InNavigazione
  <2> QED
    BY <1>2, <1>4, <1>5, <2>1 DEF StatiNave
<1>6. CASE pc[s] \in {"scriviInizio", "scriviArrivo"}
  <2>1. StatoDi(s) = InMareCome(s) /\ StatoDi(s)' = "naviporto"
    BY <1>3, <1>6 DEF StatoDi, InNavigazione
  <2> QED
    BY <1>2, <1>4, <1>6, <2>1 DEF StatiNave
<1> QED
  BY <1>1, <1>5, <1>6 DEF NelDump1

LEMMA InitNaviContate == Init => NaviContate
<1> SUFFICES ASSUME Init, NEW c \in StatiNave PROVE nd[c] = Conta(Contate(c))
  BY DEF NaviContate, Contate
<1>1. \A s \in Navi : StatoDi(s) = "naviscariche"
  BY DEF Init, StatoDi, InNavigazione, InMareCome
<1>2. nd[c] = IF c = "naviscariche" THEN Cardinality(Navi) ELSE 0
  BY DEF Init
<1>3. CASE c = "naviscariche"
  <2>1. Contate(c) = Navi
    BY <1>1, <1>3 DEF Contate
  <2> QED
    BY <1>2, <1>3, <2>1 DEF Conta
<1>4. CASE c # "naviscariche"
  <2>1. Contate(c) = {}
    BY <1>1, <1>4 DEF Contate
  <2> QED
    BY <1>2, <1>4, <2>1, FS_EmptySet DEF Conta
<1> QED
  BY <1>3, <1>4

LEMMA NextNaviContate ==
  ASSUME InvMerci, NaviContate, [Next]_vars
  PROVE  NaviContate'
<1> SUFFICES ASSUME InCorso', NEW c \in StatiNave
             PROVE  nd'[c] = Conta(Contate(c)')
  BY DEF NaviContate, Contate, Conta
<1>1. CASE Ferme /\ (InCorso' => InCorso)
  <2>1. nd[c] = Conta(Contate(c))
    BY <1>1 DEF NaviContate, Contate
  <2>2. Contate(c)' = Contate(c) /\ nd' = nd
    BY <1>1 DEF Ferme, Contate, StatoDi, InMareCome, merci, stiva, dump
  <2> QED
    BY <2>1, <2>2 DEF Conta
<1>2. ASSUME NEW s \in Navi, Sigusr2(s) PROVE FALSE
  BY <1>2 DEF Sigusr2, altrove, giornata, InCorso
<1>3. ASSUME NEW s \in Navi, Passo(s)
      PROVE  nd'[c] = Conta(Contate(c)')
  <2>0. IInv /\ SoloSue(s)
    BY <1>3, PassoSoloSue DEF InvMerci, Inv
  <2>1. /\ InCorso
        /\ \A q \in Navi \ {s} : StatoDi(q)' = StatoDi(q)
    BY <1>3, <2>0, SoloSigusr2Esce DEF giornata, InCorso, SoloSue, StatoDi, InMareCome
  <2>2. nd[c] = Cardinality(Contate(c))
    BY <2>1 DEF NaviContate, Contate, Conta
  <2>3. CASE ~ScriviStato(s)
    <3>1. StatoDi(s)' = StatoDi(s) /\ nd' = nd
      BY <1>3, <2>0, <2>3, StatoFermo
    <3>2. Contate(c)' = Contate(c)
      BY <2>1, <3>1 DEF Contate
    <3> QED
      BY <2>2, <3>1, <3>2 DEF Conta
  <2>4. CASE ScriviStato(s)
    <3>1. PICK da \in StatiNave, a \in StatiNave :
            /\ StatoDi(s) = da /\ StatoDi(s)' = a /\ da # a
            /\ nd' = NdSpostata(nd, da, a)
      BY <2>4, StatoScritto
    <3>2. nd \in [StatiNave -> Int]
      BY <2>0, Tipi
    <3>3. CASE c = da
      <4>1. nd'[c] = nd[c] - 1
        BY <3>1, <3>2, <3>3 DEF NdSpostata
      <4>2. Contate(c)' = Contate(c) \ {s} /\ s \in Contate(c)
        BY <2>1, <3>1, <3>3 DEF Contate
      <4> QED
        BY <2>2, <4>1, <4>2, ContateFinite, FS_RemoveElement DEF Conta
    <3>4. CASE c = a
      <4>1. nd'[c] = nd[c] + 1
        BY <3>1, <3>2, <3>4 DEF NdSpostata
      <4>2. Contate(c)' = Contate(c) \cup {s} /\ s \notin Contate(c)
        BY <2>1, <3>1, <3>4 DEF Contate
      <4> QED
        BY <2>2, <4>1, <4>2, ContateFinite, FS_AddElement DEF Conta
    <3>5. CASE c # da /\ c # a
      <4>1. nd'[c] = nd[c]
        BY <3>1, <3>2, <3>5 DEF NdSpostata
      <4>2. Contate(c)' = Contate(c)
        BY <2>1, <3>1, <3>5 DEF Contate
      <4> QED
        BY <2>2, <4>1, <4>2 DEF Conta
    <3> QED
      BY <3>3, <3>4, <3>5
  <2> QED
    BY <2>3, <2>4
<1> QED
  BY <1>1, <1>2, <1>3, ChiMuove

\* The dump counts every ship right at every moment before the end, whatever
\* the interleaving of the calls of stato_nave() (nave.c:100, 262, 272): the
\* two counters it writes are computed from the values still in the dump.
THEOREM NaviSempreContate == Spec => []NaviContate
<1>1. InvMerci /\ NaviContate /\ [Next]_vars => NaviContate'
  BY NextNaviContate
<1> QED
  BY SempreInvMerci, InitNaviContate, <1>1, PTL DEF Spec

=============================================================================
