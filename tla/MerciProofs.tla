---------------------------- MODULE MerciProofs -----------------------------
(***************************************************************************)
(* Proofs about what the ships carry: the requests and where their lots    *)
(* are, the counters of the goods, the slots and the loading time of a     *)
(* hold, and the refinement of Trasporto.  They rest on the invariants of  *)
(* NaveProofs and on the sums of SommaProofs.                              *)
(***************************************************************************)
EXTENDS NaveProofs, NaveTrasporto

-----------------------------------------------------------------------------
(* The steps that move a request. *)

LEMMA ChiEstrae ==
  ASSUME InvMerci, NEW s \in Navi, AccettaPrima(s) \/ AccettaDest(s)
  PROVE  /\ \E i \in DOMAIN coda : Estrai(s, i)
         /\ r[s] = NESSUNA /\ dest' = dest /\ carico' = carico /\ mercato' = mercato
<1>1. CASE AccettaPrima(s)
  <2>1. coda \in Seq(Richiesta) /\ coda # << >> /\ Estrai(s, 1)
    BY <1>1, Tipi DEF AccettaPrima, InvMerci, Inv
  <2>2. 1 \in DOMAIN coda
    BY <2>1, LenProperties, EmptySeq
  <2> QED
    BY <1>1, <2>1, <2>2 DEF AccettaPrima, InvMerci, Locale, ManoVuota, StatiRichiesta, stiva
<1>2. CASE AccettaDest(s)
  BY <1>2 DEF AccettaDest, InvMerci, Locale, ManoVuota, StatiRichiesta, stiva
<1> QED
  BY <1>1, <1>2

LEMMA ChiInvia ==
  ASSUME IInv, NEW s \in Navi, RimandaPrima(s) \/ RimandaDest(s) \/ InviaResto(s)
  PROVE  /\ InviaRichiesta(s) /\ r[s] \in Richiesta
         /\ dest' = dest /\ carico' = carico /\ mercato' = mercato
BY Tipi DEF RimandaPrima, RimandaDest, InviaResto, StatiRichiesta, stiva

\* A load fixes the destination, or finds it already fixed.
LEMMA ChiCaricaDest ==
  ASSUME InvMerci, NEW s \in Navi, CaricaPrima(s) \/ CaricaDest(s)
  PROVE  /\ \E n \in Nat : Carica(s, n)
         /\ coda' = coda /\ dest'[s] = r[s].mtype
         /\ \A q \in Navi \ {s} : dest'[q] = dest[q]
         /\ dest' = dest \/ \A g \in Merci : carico[s][g] = 0
<1>1. dest \in [Navi -> Porti] /\ Locale(s)
  BY Tipi DEF InvMerci, Inv
<1>2. CASE CaricaPrima(s)
  BY <1>1, <1>2, ChiCarica DEF CaricaPrima, Locale, StivaVuota, Vuote
<1>3. CASE CaricaDest(s)
  BY <1>1, <1>3, ChiCarica DEF CaricaDest, Locale, Rotta
<1> QED
  BY <1>2, <1>3

ToccaRichieste(s) ==
  AccettaPrima(s) \/ AccettaDest(s) \/ RimandaPrima(s) \/ RimandaDest(s) \/ InviaResto(s)
  \/ CaricaPrima(s) \/ CaricaDest(s)

LEMMA RichiesteFerme ==
  ASSUME IInv, NEW s \in Navi, Passo(s) \/ Sigusr2(s), ~ToccaRichieste(s)
  PROVE  r' = r /\ coda' = coda
<1>1. CASE Sigusr2(s)
  BY <1>1 DEF Sigusr2, merci, ricerca
<1>2. CASE Passo(s)
  BY <1>2 DEF Passo, ToccaRichieste, RichiediBanchina, RiservaStato, ScriviStato, RiservaMercato,
              CodaVuota, RifiutaPrima, Salta, NessunaPerDest, ValutaDest, RifiutaDest, ScartaDest,
              RilasciaMercato, RiservaDump, ScriviDumpCarico, LasciaBanchina, LeggiData,
              ScaricaMercato, ScriviDumpScarico, FineScarico, merci, ricerca
<1> QED
  BY <1>1, <1>2

-----------------------------------------------------------------------------
(* The queue never fills. *)

ConRichiestaInMano == {s \in Navi : r[s] # NESSUNA}

\* The requests in the queue and those in hand are never more than the queue
\* holds: a request in hand has left it a place.
CodaCapiente == Len(coda) + Cardinality(ConRichiestaInMano) <= MAX_CODA

LEMMA InManoFiniti ==
  IsFiniteSet(ConRichiestaInMano) /\ Cardinality(ConRichiestaInMano) \in Nat
<1>1. ConRichiestaInMano \in SUBSET Navi
  BY DEF ConRichiestaInMano
<1> QED
  BY <1>1, NaveAssumption, FS_Subset, FS_CardinalityType

LEMMA RichiestaNonNessuna ==
  ASSUME NEW q \in Richiesta
  PROVE  q # NESSUNA
<1>1. q.mtype \in Porti
  BY CampiRichiesta
<1>2. -1 \notin Porti
  BY NaveAssumption DEF Porti
<1> QED
  BY <1>1, <1>2 DEF NESSUNA

LEMMA RimossoLungo ==
  ASSUME NEW S, NEW q \in Seq(S), NEW d \in DOMAIN q
  PROVE  /\ Len(RemoveAt(q, d)) = Len(q) - 1
         /\ \A i \in 1 .. Len(q) - 1 : RemoveAt(q, d)[i] = q[IF i < d THEN i ELSE i + 1]
         /\ d \in 1 .. Len(q) /\ Len(q) \in Nat
<1> DEFINE a == SubSeq(q, 1, d - 1)
           b == SubSeq(q, d + 1, Len(q))
<1>1. DOMAIN q = 1 .. Len(q) /\ Len(q) \in Nat
  BY LenProperties
<1>2. /\ a \in Seq(S) /\ Len(a) = d - 1 /\ \A i \in 1 .. d - 1 : a[i] = q[i]
  BY <1>1, SubSeqProperties
<1>3. /\ b \in Seq(S) /\ Len(b) = Len(q) - d
      /\ \A i \in 1 .. Len(q) - d : b[i] = q[d + i]
  BY <1>1, SubSeqProperties
<1>4. RemoveAt(q, d) = a \o b
  BY DEF RemoveAt
<1> HIDE DEF a, b
<1>5. /\ Len(a \o b) = Len(a) + Len(b)
      /\ \A i \in 1 .. Len(a) + Len(b) : (a \o b)[i] = IF i <= Len(a) THEN a[i] ELSE b[i - Len(a)]
  BY <1>2, <1>3, ConcatProperties
<1>7. Len(a) + Len(b) = Len(q) - 1 /\ Len(a) = d - 1 /\ d \in Nat
  BY <1>1, <1>2, <1>3
<1>6. ASSUME NEW i \in 1 .. Len(q) - 1
      PROVE  (a \o b)[i] = q[IF i < d THEN i ELSE i + 1]
  <2>0. (a \o b)[i] = IF i <= d - 1 THEN a[i] ELSE b[i - (d - 1)]
    BY <1>5, <1>7
  <2>1. CASE i < d
    <3>1. i \in 1 .. d - 1
      BY <1>7, <2>1
    <3> QED
      BY <1>2, <2>0, <2>1, <3>1
  <2>2. CASE ~(i < d)
    <3>1. i - (d - 1) \in 1 .. Len(q) - d /\ d + (i - (d - 1)) = i + 1 /\ ~(i <= d - 1)
      BY <1>1, <1>7, <2>2
    <3>2. (a \o b)[i] = b[i - (d - 1)]
      BY <2>0, <3>1
    <3>3. b[i - (d - 1)] = q[i + 1]
      BY <1>3, <3>1
    <3> QED
      BY <2>2, <3>2, <3>3
  <2> QED
    BY <2>1, <2>2
<1> QED
  BY <1>1, <1>4, <1>5, <1>6, <1>7

LEMMA CodaCapientePasso ==
  ASSUME InvMerci, CodaCapiente, [Next]_vars
  PROVE  CodaCapiente'
<1> DEFINE H == ConRichiestaInMano
           K == {s \in Navi : r'[s] # NESSUNA}
<1>0. /\ IInv /\ coda \in Seq(Richiesta) /\ Len(coda) \in Nat /\ MAX_CODA \in Nat
      /\ IsFiniteSet(H) /\ Cardinality(H) \in Nat
      /\ Len(coda) + Cardinality(H) <= MAX_CODA
  BY Tipi, LenProperties, InManoFiniti, NaveAssumption DEF InvMerci, Inv, CodaCapiente
<1>1. SUFFICES Len(coda') + Cardinality(K) <= MAX_CODA
  BY DEF CodaCapiente, ConRichiestaInMano
<1>2. ASSUME coda' = coda, K \subseteq H PROVE Len(coda') + Cardinality(K) <= MAX_CODA
  <2>1. K \in SUBSET H
    BY <1>2
  <2>2. IsFiniteSet(K) /\ Cardinality(K) <= Cardinality(H) /\ Cardinality(K) \in Nat
    BY <1>0, <2>1, FS_Subset, FS_CardinalityType
  <2> QED
    BY <1>0, <1>2, <2>2
<1>3. ASSUME NEW s \in Navi, Passo(s) \/ Sigusr2(s)
      PROVE  Len(coda') + Cardinality(K) <= MAX_CODA
  <2>1. \A q \in Navi \ {s} : r'[q] = r[q]
    BY <1>0, <1>3, PassoSoloSue DEF SoloSue
  <2>2. CASE AccettaPrima(s) \/ AccettaDest(s)
    <3>1. PICK i \in DOMAIN coda : Estrai(s, i)
      BY <2>2, ChiEstrae
    <3>2. Len(coda') = Len(coda) - 1
      BY <1>0, <3>1, RimossoLungo DEF Estrai
    <3>3. K \subseteq H \cup {s}
      BY <2>1 DEF ConRichiestaInMano
    <3>4. s \notin H
      BY <2>2, ChiEstrae DEF ConRichiestaInMano
    <3>5. IsFiniteSet(H \cup {s}) /\ Cardinality(H \cup {s}) = Cardinality(H) + 1
      BY <1>0, <3>4, FS_AddElement
    <3>6. K \in SUBSET (H \cup {s})
      BY <3>3
    <3>7. IsFiniteSet(K) /\ Cardinality(K) <= Cardinality(H) + 1 /\ Cardinality(K) \in Nat
      BY <3>5, <3>6, FS_Subset, FS_CardinalityType
    <3> QED
      BY <1>0, <3>2, <3>7
  <2>3. CASE RimandaPrima(s) \/ RimandaDest(s) \/ InviaResto(s)
    <3>1. InviaRichiesta(s) /\ r[s] \in Richiesta /\ r[s] # NESSUNA
      BY <1>0, <2>3, ChiInvia, RichiestaNonNessuna
    <3>2. r'[s] = NESSUNA /\ coda' = Append(coda, r[s])
      BY <1>0, <3>1, Tipi DEF InviaRichiesta
    <3>3. Len(coda') = Len(coda) + 1
      BY <1>0, <3>1, <3>2, AppendProperties
    <3>4. K = H \ {s} /\ s \in H
      BY <2>1, <3>1, <3>2 DEF ConRichiestaInMano
    <3>5. Cardinality(K) = Cardinality(H) - 1
      BY <1>0, <3>4, FS_RemoveElement
    <3> QED
      BY <1>0, <3>3, <3>5
  <2>4. CASE CaricaPrima(s) \/ CaricaDest(s)
    <3>1. PICK n \in Nat : Carica(s, n)
      BY <2>4, ChiCaricaDest
    <3>2. r[s] # NESSUNA /\ coda' = coda
      BY <1>0, <2>4, <3>1, CaricaPezzi, ChiCaricaDest, RichiestaNonNessuna
    <3>3. K \subseteq H
      BY <2>1, <3>2 DEF ConRichiestaInMano
    <3> QED
      BY <1>2, <3>2, <3>3
  <2>5. CASE ~ToccaRichieste(s)
    <3>1. r' = r /\ coda' = coda
      BY <1>0, <1>3, <2>5, RichiesteFerme
    <3> QED
      BY <1>2, <3>1 DEF ConRichiestaInMano
  <2> QED
    BY <2>2, <2>3, <2>4, <2>5 DEF ToccaRichieste
<1>4. CASE Ferme
  BY <1>2, <1>4 DEF Ferme, merci, ricerca, ConRichiestaInMano
<1> QED
  BY <1>3, <1>4, ChiMuove

LEMMA InitCodaCapiente == Init => CodaCapiente
<1> SUFFICES ASSUME Init PROVE CodaCapiente
  OBVIOUS
<1>1. ConRichiestaInMano = {}
  BY DEF Init, ConRichiestaInMano
<1>2. Len(coda) \in Nat /\ Len(coda) <= MAX_CODA
  BY InitIInv, Tipi, LenProperties DEF Init
<1> QED
  BY <1>1, <1>2, FS_EmptySet DEF CodaCapiente

LEMMA CodaCapienteBasta ==
  ASSUME InvMerci, CodaCapiente
  PROVE  InvioMaiBloccato
<1> SUFFICES ASSUME NEW s \in Navi, pc[s] \in {"invia", "inviaResto", "inviaDest"}
             PROVE  Len(coda) < MAX_CODA
  BY DEF InvioMaiBloccato
<1>1. r[s] \in Richiesta /\ Len(coda) \in Nat /\ MAX_CODA \in Nat
  BY Tipi, LenProperties, NaveAssumption DEF InvMerci, Inv, StatiRichiesta
<1>2. s \in ConRichiestaInMano
  BY <1>1, RichiestaNonNessuna DEF ConRichiestaInMano
<1>3. Cardinality(ConRichiestaInMano) # 0
  BY <1>2, InManoFiniti, FS_EmptySet
<1> QED
  BY <1>1, <1>3, InManoFiniti DEF CodaCapiente

\* A ship that sends a request back never finds the queue full, whatever the
\* number of ships and the size of the queue: every request in hand has left
\* its place free (nave.c:158-172, 222-248; queue_lib.c:31-37).
THEOREM InvioLibero == Spec => []InvioMaiBloccato
<1>1. InvMerci /\ CodaCapiente /\ [Next]_vars => CodaCapiente'
  BY CodaCapientePasso
<1>2. InvMerci /\ CodaCapiente => InvioMaiBloccato
  BY CodaCapienteBasta
<1> QED
  BY SempreInvMerci, InitCodaCapiente, <1>1, <1>2, PTL DEF Spec

-----------------------------------------------------------------------------
(* Where the requested lots are: in the queue, in hand, or on their way.    *)

\* What request q asks of good g for port p.
Quota(q, p, g) == IF q.mtype = p /\ q.indicemerce = g THEN q.nlotti ELSE 0

\* What ship s is bringing.
Porta(s, p, g) == IF dest[s] = p THEN carico[s][g] ELSE 0

Residuo(p, g) == Attesi(p, g) - InCoda(p, g) - InMano(p, g) - InViaggio(p, g)

LEMMA QuotaNat ==
  ASSUME NEW p \in Porti, NEW g \in Merci
  PROVE  /\ \A q \in Richiesta \cup {NESSUNA} : Quota(q, p, g) \in Nat
         /\ Quota(NESSUNA, p, g) = 0
<1>1. Quota(NESSUNA, p, g) = 0
  BY DEF Quota, NESSUNA
<1>2. ASSUME NEW q \in Richiesta PROVE Quota(q, p, g) \in Nat
  BY CampiRichiesta DEF Quota
<1> QED
  BY <1>1, <1>2

CodaConta(q, p, g) == [i \in DOMAIN q |-> Quota(q[i], p, g)]

LEMMA CodaContaTipo ==
  ASSUME NEW q \in Seq(Richiesta), NEW p \in Porti, NEW g \in Merci
  PROVE  /\ CodaConta(q, p, g) \in [1 .. Len(q) -> Nat] /\ Len(q) \in Nat
         /\ \A i \in 1 .. Len(q) : CodaConta(q, p, g)[i] = Quota(q[i], p, g)
         /\ Somma(CodaConta(q, p, g)) \in Nat
<1>1. DOMAIN q = 1 .. Len(q) /\ Len(q) \in Nat /\ \A i \in 1 .. Len(q) : q[i] \in Richiesta
  BY LenProperties, ElementOfSeq
<1>2. CodaConta(q, p, g) \in [1 .. Len(q) -> Nat]
  BY <1>1, QuotaNat DEF CodaConta
<1>3. IsFiniteSet(1 .. Len(q))
  BY <1>1, FS_Interval
<1> QED
  BY <1>1, <1>2, <1>3, UnitaFinita DEF CodaConta

LEMMA InCodaConta ==
  ASSUME NEW p \in Porti, NEW g \in Merci
  PROVE  InCoda(p, g) = Somma(CodaConta(coda, p, g))
BY DEF InCoda, CodaConta, Quota

LEMMA InCodaEstrai ==
  ASSUME NEW q \in Seq(Richiesta), NEW d \in DOMAIN q, NEW p \in Porti, NEW g \in Merci
  PROVE  Somma(CodaConta(RemoveAt(q, d), p, g)) =
           Somma(CodaConta(q, p, g)) - Quota(q[d], p, g)
<1> DEFINE f == CodaConta(q, p, g)
           h == CodaConta(RemoveAt(q, d), p, g)
           n == Len(q)
<1>1. /\ Len(RemoveAt(q, d)) = n - 1 /\ d \in 1 .. n /\ n \in Nat
      /\ \A i \in 1 .. n - 1 : RemoveAt(q, d)[i] = q[IF i < d THEN i ELSE i + 1]
  BY RimossoLungo
<1>2. /\ f \in [1 .. n -> Nat]
      /\ \A i \in 1 .. n : f[i] = Quota(q[i], p, g)
  BY CodaContaTipo
<1>3. RemoveAt(q, d) \in Seq(Richiesta)
  BY RimossoSeq
<1>4. /\ h \in [1 .. n - 1 -> Nat]
      /\ \A i \in 1 .. n - 1 : h[i] = Quota(RemoveAt(q, d)[i], p, g)
  BY <1>1, <1>3, CodaContaTipo
<1> HIDE DEF f, h, n
<1>5. \A i \in 1 .. n - 1 : h[i] = f[IF i < d THEN i ELSE i + 1]
  <2> TAKE i \in 1 .. n - 1
  <2>1. (IF i < d THEN i ELSE i + 1) \in 1 .. n
    BY <1>1
  <2> QED
    BY <1>1, <1>2, <1>4, <2>1
<1>6. Somma(h) = Somma(f) - f[d]
  BY <1>1, <1>2, <1>4, <1>5, SommaEstrai
<1> QED
  BY <1>1, <1>2, <1>6 DEF f, h

LEMMA InCodaAccoda ==
  ASSUME NEW q \in Seq(Richiesta), NEW e \in Richiesta, NEW p \in Porti, NEW g \in Merci
  PROVE  Somma(CodaConta(Append(q, e), p, g)) =
           Somma(CodaConta(q, p, g)) + Quota(e, p, g)
<1> DEFINE f == CodaConta(q, p, g)
           h == CodaConta(Append(q, e), p, g)
           n == Len(q)
<1>1. /\ Append(q, e) \in Seq(Richiesta) /\ Len(Append(q, e)) = n + 1 /\ n \in Nat
      /\ \A i \in 1 .. n : Append(q, e)[i] = q[i]
      /\ Append(q, e)[n + 1] = e
  BY AppendProperties, LenProperties
<1>2. /\ f \in [1 .. n -> Nat]
      /\ \A i \in 1 .. n : f[i] = Quota(q[i], p, g)
  BY CodaContaTipo
<1>3. /\ h \in [1 .. n + 1 -> Nat]
      /\ \A i \in 1 .. n + 1 : h[i] = Quota(Append(q, e)[i], p, g)
  BY <1>1, CodaContaTipo
<1> HIDE DEF f, h, n
<1>4. (\A i \in 1 .. n : h[i] = f[i]) /\ h[n + 1] = Quota(e, p, g)
  BY <1>1, <1>2, <1>3
<1>5. Somma(h) = Somma(f) + h[n + 1]
  BY <1>1, <1>2, <1>3, <1>4, SommaAccoda
<1> QED
  BY <1>4, <1>5 DEF f, h

LEMMA InManoCambia ==
  ASSUME IInv, IInv', NEW s \in Navi, \A q \in Navi \ {s} : r'[q] = r[q],
         NEW p \in Porti, NEW g \in Merci
  PROVE  /\ InMano(p, g)' = InMano(p, g) - Quota(r[s], p, g) + Quota(r'[s], p, g)
         /\ InMano(p, g) \in Nat
<1> DEFINE f == [q \in Navi |-> Quota(r[q], p, g)]
           h == [q \in Navi |-> Quota(r'[q], p, g)]
<1>1. f \in [Navi -> Nat] /\ h \in [Navi -> Nat] /\ \A q \in Navi \ {s} : h[q] = f[q]
  <2>1. r \in [Navi -> Richiesta \cup {NESSUNA}] /\ r' \in [Navi -> Richiesta \cup {NESSUNA}]
    BY DEF IInv, TypeOK
  <2> QED
    BY <2>1, QuotaNat
<1>2. InMano(p, g) = Somma(f) /\ InMano(p, g)' = Somma(h)
  BY DEF InMano, Quota
<1>3. f[s] = Quota(r[s], p, g) /\ h[s] = Quota(r'[s], p, g)
  OBVIOUS
<1> HIDE DEF f, h
<1>0. IsFiniteSet(Navi)
  BY NaveAssumption
<1>4. Somma(h) = Somma(f) - f[s] + h[s] /\ Somma(f) \in Nat
  <2>1. Somma(h) = Somma(f) - f[s] + h[s]
    BY <1>0, <1>1, SommaCambia
  <2> QED
    BY <1>0, <1>1, <2>1, UnitaFinita
<1>5. InMano(p, g)' = InMano(p, g) - f[s] + h[s] /\ InMano(p, g) \in Nat
  BY <1>2, <1>4
<1> QED
  BY <1>3, <1>5

LEMMA InViaggioCambia ==
  ASSUME IInv, IInv', NEW s \in Navi,
         \A q \in Navi \ {s} : dest'[q] = dest[q] /\ carico'[q] = carico[q],
         NEW p \in Porti, NEW g \in Merci
  PROVE  /\ InViaggio(p, g)' = InViaggio(p, g) - Porta(s, p, g) + Porta(s, p, g)'
         /\ InViaggio(p, g) \in Nat /\ Porta(s, p, g) <= InViaggio(p, g)
<1> DEFINE f == [q \in Navi |-> Porta(q, p, g)]
           h == [q \in Navi |-> IF dest'[q] = p THEN carico'[q][g] ELSE 0]
<1>1. f \in [Navi -> Nat] /\ h \in [Navi -> Nat] /\ \A q \in Navi \ {s} : h[q] = f[q]
  <2>1. carico \in [Navi -> [Merci -> Nat]] /\ carico' \in [Navi -> [Merci -> Nat]]
    BY DEF IInv, TypeOK
  <2> QED
    BY <2>1 DEF Porta
<1>2. InViaggio(p, g) = Somma(f) /\ InViaggio(p, g)' = Somma(h)
  BY DEF InViaggio, Porta
<1>3. f[s] = Porta(s, p, g) /\ h[s] = Porta(s, p, g)'
  BY DEF Porta
<1> HIDE DEF f, h
<1>4. Somma(h) = Somma(f) - f[s] + h[s] /\ Somma(f) \in Nat /\ f[s] <= Somma(f)
  BY <1>1, NaveAssumption, SommaCambia, UnitaFinita, SommaAlmeno
<1> QED
  BY <1>2, <1>3, <1>4

LEMMA ResiduoTipi ==
  ASSUME IInv, NEW p \in Porti, NEW g \in Merci
  PROVE  /\ Attesi(p, g) \in Nat /\ InCoda(p, g) \in Nat /\ InMano(p, g) \in Nat
         /\ InViaggio(p, g) \in Nat
         /\ \A s \in Navi : Porta(s, p, g) <= InViaggio(p, g) /\ Porta(s, p, g) \in Nat
         /\ \A s \in Navi : Quota(r[s], p, g) \in Nat
<1>1. Attesi(p, g) \in Nat
  BY Tipi DEF Attesi, Offerta
<1>2. InCoda(p, g) \in Nat
  BY Tipi, CodaContaTipo, InCodaConta
<1>3. InMano(p, g) \in Nat /\ \A s \in Navi : Quota(r[s], p, g) \in Nat
  <2> DEFINE f == [q \in Navi |-> Quota(r[q], p, g)]
  <2>1. f \in [Navi -> Nat] /\ \A s \in Navi : Quota(r[s], p, g) \in Nat
    BY Tipi, QuotaNat
  <2>2. InMano(p, g) = Somma(f)
    BY DEF InMano, Quota
  <2> HIDE DEF f
  <2> QED
    BY <2>1, <2>2, NaveAssumption, UnitaFinita
<1>4. /\ InViaggio(p, g) \in Nat
      /\ \A s \in Navi : Porta(s, p, g) <= InViaggio(p, g) /\ Porta(s, p, g) \in Nat
  <2> DEFINE f == [q \in Navi |-> Porta(q, p, g)]
  <2>1. f \in [Navi -> Nat] /\ \A s \in Navi : f[s] = Porta(s, p, g)
    BY Tipi DEF Porta
  <2>2. InViaggio(p, g) = Somma(f)
    BY DEF InViaggio, Porta
  <2> HIDE DEF f
  <2> QED
    BY <2>1, <2>2, NaveAssumption, UnitaFinita, SommaAlmeno
<1> QED
  BY <1>1, <1>2, <1>3, <1>4

LEMMA AttesiFermi ==
  ASSUME NEW p \in Porti, NEW g \in Merci, mercato'[p][g] = mercato[p][g]
  PROVE  Attesi(p, g)' = Attesi(p, g)
BY DEF Attesi, Offerta

\* The steps with no part in a request or in the hold.
LEMMA RottaFerma ==
  ASSUME InvMerci, NEW s \in Navi, Passo(s) \/ Sigusr2(s), ~ToccaRichieste(s), ~ScaricaMercato(s)
  PROVE  /\ carico' = carico /\ mercato' = mercato
         /\ dest' = dest \/ /\ \A q \in Navi \ {s} : dest'[q] = dest[q]
                            /\ \A g \in Merci : carico[s][g] = 0
<1>1. CASE Salta(s)
  BY <1>1, Tipi DEF Salta, InvMerci, Inv, Locale, StivaVuota, Vuote, merci, stiva
<1>2. CASE Sigusr2(s)
  BY <1>2 DEF Sigusr2, merci, stiva
<1>3. CASE Passo(s) /\ ~Salta(s)
  BY <1>3 DEF Passo, ToccaRichieste, RichiediBanchina, RiservaStato, ScriviStato, RiservaMercato,
              CodaVuota, RifiutaPrima, NessunaPerDest, ValutaDest, RifiutaDest, ScartaDest,
              RilasciaMercato, RiservaDump, ScriviDumpCarico, LasciaBanchina, LeggiData,
              ScriviDumpScarico, FineScarico, merci, stiva
<1> QED
  BY <1>1, <1>2, <1>3

LEMMA ResiduoCarica ==
  ASSUME InvMerci, IInv', NEW s \in Navi, NEW n \in Nat, Carica(s, n),
         coda' = coda, dest'[s] = r[s].mtype,
         \A q \in Navi \ {s} : dest'[q] = dest[q] /\ carico'[q] = carico[q] /\ r'[q] = r[q],
         dest' = dest \/ (\A g \in Merci : carico[s][g] = 0),
         NEW p \in Porti, NEW g \in Merci
  PROVE  Residuo(p, g)' = Residuo(p, g)
<1>0. IInv
  BY DEF InvMerci, Inv
<1> DEFINE h == r[s].indicemerce
           m == IF r[s].mtype = p /\ g = h THEN n ELSE 0
<1>1. /\ h \in Merci /\ porto[s] \in Porti /\ n <= mercato[porto[s]][h]
      /\ n >= 1 /\ n <= r[s].nlotti /\ r[s].nlotti \in Nat /\ r[s] \in Richiesta
  BY <1>0, CaricaPezzi
<1>2. Attesi(p, g)' = Attesi(p, g)
  <2>1. CASE p = porto[s] /\ g = h
    <3>1. mercato'[p][g] = mercato[p][g] - n
      BY <1>0, <2>1, CaricaStiva
    <3>2. mercato[p][g] \in Int
      BY <1>0, Tipi
    <3>3. Attesi(p, g) = 0 /\ Attesi(p, g)' = 0
      BY <1>1, <2>1, <3>1, <3>2 DEF Attesi, Offerta
    <3> QED
      BY <3>3
  <2>2. CASE ~(p = porto[s] /\ g = h)
    BY <1>0, <2>2, CaricaStiva, AttesiFermi
  <2> QED
    BY <2>1, <2>2
<1>3. InCoda(p, g)' = InCoda(p, g)
  BY DEF InCoda
<1>4. Quota(r'[s], p, g) = Quota(r[s], p, g) - m /\ Quota(r[s], p, g) \in Nat /\ m \in Nat
  <2>1. CASE n < r[s].nlotti
    BY <1>0, <1>1, <2>1, RestoPezzi DEF Quota
  <2>2. CASE ~(n < r[s].nlotti)
    BY <1>0, <1>1, <2>2, RestoPezzi, QuotaNat DEF Quota
  <2> QED
    BY <2>1, <2>2
<1>5. Porta(s, p, g)' = Porta(s, p, g) + m /\ Porta(s, p, g) \in Nat
  <2>1. carico \in [Navi -> [Merci -> Nat]]
    BY <1>0, Tipi
  <2>2. carico'[s][g] = carico[s][g] + IF g = h THEN n ELSE 0
    <3>1. carico[s][g] \in Nat
      BY <2>1
    <3> QED
      BY <1>0, <3>1, CaricaStiva
  <2>3. carico[s][g] \in Nat
    BY <2>1
  <2>4. CASE dest[s] = r[s].mtype
    BY <2>2, <2>3, <2>4 DEF Porta
  <2>5. CASE carico[s][g] = 0
    BY <2>2, <2>5 DEF Porta
  <2> QED
    BY <2>4, <2>5
<1> HIDE DEF m, h
<1>6. /\ InMano(p, g)' = InMano(p, g) - Quota(r[s], p, g) + Quota(r'[s], p, g)
      /\ InViaggio(p, g)' = InViaggio(p, g) - Porta(s, p, g) + Porta(s, p, g)'
  BY <1>0, InManoCambia, InViaggioCambia
<1>7. /\ Attesi(p, g) \in Nat /\ InCoda(p, g) \in Nat /\ InMano(p, g) \in Nat
      /\ InViaggio(p, g) \in Nat
  BY <1>0, ResiduoTipi
<1>8. InMano(p, g)' = InMano(p, g) - m
  BY <1>4, <1>6, <1>7
<1>9. InViaggio(p, g)' = InViaggio(p, g) + m
  BY <1>4, <1>5, <1>6, <1>7
<1> QED
  BY <1>2, <1>3, <1>4, <1>7, <1>8, <1>9 DEF Residuo

LEMMA ResiduoFermo ==
  ASSUME InvMerci, IInv', NEW s \in Navi, Passo(s) \/ Sigusr2(s), ~ScaricaMercato(s),
         NEW p \in Porti, NEW g \in Merci
  PROVE  Residuo(p, g)' = Residuo(p, g)
<1>0. IInv /\ coda \in Seq(Richiesta) /\ SoloSue(s)
  BY Tipi, PassoSoloSue DEF InvMerci, Inv
<1>1. /\ Attesi(p, g) \in Nat /\ InCoda(p, g) \in Nat /\ InMano(p, g) \in Nat
      /\ InViaggio(p, g) \in Nat
  BY <1>0, ResiduoTipi
<1>2. InMano(p, g)' = InMano(p, g) - Quota(r[s], p, g) + Quota(r'[s], p, g)
  BY <1>0, InManoCambia DEF SoloSue
<1>3. /\ InCoda(p, g) = Somma(CodaConta(coda, p, g))
      /\ InCoda(p, g)' = Somma(CodaConta(coda', p, g))
  BY DEF InCoda, CodaConta, Quota
<1>4. CASE AccettaPrima(s) \/ AccettaDest(s)
  <2>1. PICK i \in DOMAIN coda : Estrai(s, i)
    BY <1>4, ChiEstrae
  <2>2. r'[s] = coda[i] /\ coda' = RemoveAt(coda, i) /\ coda[i] \in Richiesta
    BY <1>0, <2>1, Tipi, LenProperties, ElementOfSeq DEF Estrai
  <2>3. r[s] = NESSUNA /\ dest' = dest /\ carico' = carico /\ mercato' = mercato
    BY <1>4, ChiEstrae
  <2>4. Quota(r[s], p, g) = 0 /\ Quota(coda[i], p, g) \in Nat
    BY <2>2, <2>3, QuotaNat
  <2>5. InCoda(p, g)' = InCoda(p, g) - Quota(coda[i], p, g)
    BY <1>0, <1>3, <2>2, InCodaEstrai
  <2>6. InMano(p, g)' = InMano(p, g) + Quota(coda[i], p, g)
    BY <1>1, <1>2, <2>2, <2>4
  <2>7. Attesi(p, g)' = Attesi(p, g) /\ InViaggio(p, g)' = InViaggio(p, g)
    BY <2>3 DEF Attesi, InViaggio
  <2> QED
    BY <1>1, <2>4, <2>5, <2>6, <2>7 DEF Residuo
<1>5. CASE RimandaPrima(s) \/ RimandaDest(s) \/ InviaResto(s)
  <2>1. InviaRichiesta(s) /\ r[s] \in Richiesta
    BY <1>0, <1>5, ChiInvia
  <2>2. r'[s] = NESSUNA /\ coda' = Append(coda, r[s])
    BY <1>0, <2>1, Tipi DEF InviaRichiesta
  <2>3. dest' = dest /\ carico' = carico /\ mercato' = mercato
    BY <1>0, <1>5, ChiInvia
  <2>4. Quota(r'[s], p, g) = 0 /\ Quota(r[s], p, g) \in Nat
    BY <2>1, <2>2, QuotaNat
  <2>5. InCoda(p, g)' = InCoda(p, g) + Quota(r[s], p, g)
    BY <1>0, <1>3, <2>1, <2>2, InCodaAccoda
  <2>6. InMano(p, g)' = InMano(p, g) - Quota(r[s], p, g)
    BY <1>1, <1>2, <2>4
  <2>7. Attesi(p, g)' = Attesi(p, g) /\ InViaggio(p, g)' = InViaggio(p, g)
    BY <2>3 DEF Attesi, InViaggio
  <2> QED
    BY <1>1, <2>4, <2>5, <2>6, <2>7 DEF Residuo
<1>6. CASE CaricaPrima(s) \/ CaricaDest(s)
  <2>1. PICK n \in Nat : Carica(s, n)
    BY <1>6, ChiCaricaDest
  <2> QED
    BY <1>0, <1>6, <2>1, ChiCaricaDest, ResiduoCarica DEF SoloSue
<1>7. CASE ~ToccaRichieste(s)
  <2>1. r' = r /\ coda' = coda
    BY <1>0, <1>7, RichiesteFerme
  <2>2. /\ carico' = carico /\ mercato' = mercato
        /\ dest' = dest \/ /\ \A q \in Navi \ {s} : dest'[q] = dest[q]
                           /\ \A k \in Merci : carico[s][k] = 0
    BY <1>7, RottaFerma
  <2>3. InViaggio(p, g)' = InViaggio(p, g)
    <3>1. CASE dest' = dest
      BY <2>2, <3>1 DEF InViaggio
    <3>2. CASE /\ \A q \in Navi \ {s} : dest'[q] = dest[q]
               /\ \A k \in Merci : carico[s][k] = 0
      <4>1. Porta(s, p, g) = 0 /\ Porta(s, p, g)' = 0
        BY <2>2, <3>2 DEF Porta
      <4> QED
        BY <1>0, <1>1, <2>2, <3>2, <4>1, InViaggioCambia
    <3> QED
      BY <2>2, <3>1, <3>2
  <2>4. /\ Attesi(p, g)' = Attesi(p, g) /\ InCoda(p, g)' = InCoda(p, g)
        /\ InMano(p, g)' = InMano(p, g)
    BY <2>1, <2>2 DEF Attesi, InCoda, InMano
  <2> QED
    BY <2>3, <2>4 DEF Residuo
<1> QED
  BY <1>4, <1>5, <1>6, <1>7 DEF ToccaRichieste

LEMMA ResiduoScarica ==
  ASSUME InvMerci, IInv', NEW s \in Navi, NEW h \in Merci, Scarica(s, h), ScaricaMercato(s),
         Residuo(porto[s], h) >= 0, NEW p \in Porti, NEW g \in Merci
  PROVE  /\ Residuo(p, g)' = Residuo(p, g)
              + (IF p = porto[s] /\ g = h /\ Scaduta(s, h) THEN carico[s][h] ELSE 0)
         /\ mercato[porto[s]][h] <= -carico[s][h]
<1>0. IInv /\ SoloSue(s) /\ porto[s] = dest[s] /\ pc[s] = "scarica"
  BY PassoSoloSue DEF InvMerci, Inv, Locale, Rotta, Scarica, Passo
<1> DEFINE n == carico[s][h]
           m == IF p = porto[s] /\ g = h THEN n ELSE 0
<1>1. /\ carico'[s][h] = 0 /\ \A k \in Merci \ {h} : carico'[s][k] = carico[s][k]
      /\ \A q \in Porti, k \in Merci : ~(q = porto[s] /\ k = h) => mercato'[q][k] = mercato[q][k]
      /\ IF ~Scaduta(s, h) /\ mercato[porto[s]][h] <= -n
           THEN mercato'[porto[s]][h] = mercato[porto[s]][h] + n
           ELSE mercato'[porto[s]][h] = mercato[porto[s]][h]
      /\ n \in Nat \ {0} /\ porto[s] \in Porti
  BY <1>0, ScaricaStiva
<1>2. mercato[porto[s]][h] <= -n
  <2>1. /\ Attesi(porto[s], h) \in Nat /\ InCoda(porto[s], h) \in Nat
        /\ InMano(porto[s], h) \in Nat /\ InViaggio(porto[s], h) \in Nat
        /\ Porta(s, porto[s], h) <= InViaggio(porto[s], h)
    BY <1>0, <1>1, ResiduoTipi
  <2>2. Porta(s, porto[s], h) = n
    BY <1>0 DEF Porta
  <2>3. n <= Attesi(porto[s], h)
    BY <1>1, <2>1, <2>2 DEF Residuo
  <2>4. mercato[porto[s]][h] \in Int
    BY <1>0, <1>1, Tipi
  <2> QED
    BY <1>1, <2>3, <2>4 DEF Attesi, Offerta
<1>3. r' = r /\ coda' = coda /\ dest' = dest
  BY DEF ScaricaMercato, ricerca
<1>4. InCoda(p, g)' = InCoda(p, g) /\ InMano(p, g)' = InMano(p, g)
  BY <1>3 DEF InCoda, InMano
<1>5. /\ Attesi(p, g) \in Nat /\ InCoda(p, g) \in Nat /\ InMano(p, g) \in Nat
      /\ InViaggio(p, g) \in Nat
  BY <1>0, ResiduoTipi
<1>6. InViaggio(p, g)' = InViaggio(p, g) - m
  <2>1. InViaggio(p, g)' = InViaggio(p, g) - Porta(s, p, g) + Porta(s, p, g)'
    BY <1>0, InViaggioCambia DEF SoloSue
  <2>2. Porta(s, p, g)' = Porta(s, p, g) - m /\ Porta(s, p, g) \in Nat
    <3>1. carico[s][g] \in Nat
      BY <1>0, Tipi
    <3>2. CASE g = h
      BY <1>0, <1>1, <1>3, <3>1, <3>2 DEF Porta
    <3>3. CASE g # h
      BY <1>0, <1>1, <1>3, <3>1, <3>3 DEF Porta
    <3> QED
      BY <3>2, <3>3
  <2>3. m \in Nat
    BY <1>1
  <2> HIDE DEF m
  <2> QED
    BY <1>5, <2>1, <2>2, <2>3
<1>7. CASE p = porto[s] /\ g = h
  <2>0. mercato[p][g] \in Int
    BY <1>0, Tipi
  <2>1. CASE Scaduta(s, h)
    <3>1. Attesi(p, g)' = Attesi(p, g)
      BY <1>1, <1>7, <2>1, AttesiFermi
    <3> QED
      BY <1>1, <1>2, <1>4, <1>5, <1>6, <1>7, <2>1, <3>1 DEF Residuo
  <2>2. CASE ~Scaduta(s, h)
    <3>1. Attesi(p, g)' = Attesi(p, g) - n
      BY <1>1, <1>2, <1>7, <2>0, <2>2 DEF Attesi, Offerta
    <3> QED
      BY <1>1, <1>2, <1>4, <1>5, <1>6, <1>7, <2>2, <3>1 DEF Residuo
  <2> QED
    BY <2>1, <2>2
<1>8. CASE ~(p = porto[s] /\ g = h)
  <2>1. Attesi(p, g)' = Attesi(p, g)
    BY <1>1, <1>8, AttesiFermi
  <2> QED
    BY <1>2, <1>4, <1>5, <1>6, <1>8, <2>1 DEF Residuo
<1> QED
  BY <1>7, <1>8

-----------------------------------------------------------------------------
(* At the start every request is in the queue, once.                        *)

LEMMA CodaIniziale ==
  ASSUME NEW m \in Matrici, NEW q \in CodeDi(m)
  PROVE  q \in Bijection(1 .. Len(q), RichiesteDi(m)) /\ Len(q) \in Nat
<1> DEFINE R == RichiesteDi(m)
           n == Cardinality(R)
<1>1. n \in Nat /\ IsFiniteSet(R)
  BY RichiesteIniziali, FS_CardinalityType
<1>2. PICK f \in [1 .. n -> Porti] :
        /\ \A i \in 1 .. n : \E c \in R : Turno(m, f, i, c)
        /\ q = [i \in 1 .. n |-> CHOOSE c \in R : Turno(m, f, i, c)]
  BY DEF CodeDi
<1>3. ASSUME NEW i \in 1 .. n PROVE q[i] \in R /\ Turno(m, f, i, q[i])
  BY <1>2
<1>4. q \in [1 .. n -> R]
  BY <1>2, <1>3
<1> DEFINE A(i, p) == {k \in 1 .. i : f[k] = p}
<1>5. ASSUME NEW i \in 1 .. n, NEW j \in 1 .. n, i < j, q[i] = q[j] PROVE FALSE
  <2>1. f[i] = f[j] /\ Cardinality(A(i, f[i])) = Cardinality(A(j, f[i]))
    <3>1. Turno(m, f, i, q[i]) /\ Turno(m, f, j, q[i])
      BY <1>3, <1>5
    <3> QED
      BY <3>1 DEF Turno
  <2> DEFINE B == A(i, f[i])
             D == A(j, f[i])
  <2>2. B \in SUBSET D /\ j \in D /\ j \notin B
    BY <1>1, <1>5, <2>1
  <2>3. IsFiniteSet(D)
    <3>1. IsFiniteSet(1 .. j) /\ D \in SUBSET (1 .. j)
      BY <1>1, FS_Interval
    <3> QED
      BY <3>1, FS_Subset
  <2> HIDE DEF B, D
  <2>4. IsFiniteSet(B) /\ Cardinality(B) \in Nat
    BY <2>2, <2>3, FS_Subset, FS_CardinalityType
  <2>5. Cardinality(B \cup {j}) = Cardinality(B) + 1
    BY <2>2, <2>4, FS_AddElement
  <2>6. B \cup {j} \in SUBSET D
    BY <2>2
  <2>7. Cardinality(B \cup {j}) <= Cardinality(D) /\ Cardinality(D) \in Nat
    BY <2>3, <2>6, FS_Subset, FS_CardinalityType
  <2> QED
    BY <2>1, <2>4, <2>5, <2>7 DEF B, D
<1>6. \A i, j \in 1 .. n : q[i] = q[j] => i = j
  <2> SUFFICES ASSUME NEW i \in 1 .. n, NEW j \in 1 .. n, q[i] = q[j], i # j PROVE FALSE
    OBVIOUS
  <2>1. i < j \/ j < i
    BY <1>1
  <2> QED
    BY <1>5, <2>1
<1> HIDE DEF n, R
<1>7. q \in Injection(1 .. n, R)
  BY <1>4, <1>6, Fun_IsInj
<1>8. Cardinality(1 .. n) = n
  BY <1>1, FS_Interval
<1>9. q \in Surjection(1 .. n, R)
  BY <1>1, <1>7, <1>8, FS_Injection DEF n
<1>10. q \in Seq(Richiesta)
  BY CodeIniziali
<1>11. Len(q) = n
  BY <1>1, <1>4, <1>10, LenProperties
<1> QED
  BY <1>1, <1>7, <1>9, <1>11 DEF Bijection, R

LEMMA SommaSola ==
  ASSUME NEW D, IsFiniteSet(D), NEW f \in [D -> Nat], NEW d \in D,
         \A x \in D \ {d} : f[x] = 0
  PROVE  Somma(f) = f[d]
<1> DEFINE zero == [x \in D |-> 0]
<1>1. zero \in [D -> Nat] /\ \A x \in D : zero[x] = 0
  OBVIOUS
<1> HIDE DEF zero
<1>2. Somma(zero) = 0
  BY <1>1, SommaZero
<1>3. \A x \in D \ {d} : f[x] = zero[x]
  BY <1>1
<1>4. Somma(f) = Somma(zero) - zero[d] + f[d]
  BY <1>1, <1>3, SommaCambia
<1> QED
  BY <1>1, <1>2, <1>4

\* Each request the ports sent is in the queue, for the lots the port asks.
LEMMA CodaInizialeConta ==
  ASSUME NEW m \in Matrici, NEW q \in CodeDi(m), NEW p \in Porti, NEW g \in Merci
  PROVE  Somma(CodaConta(q, p, g)) = Offerta(-m[p][g])
<1> DEFINE n == Len(q)
           f == CodaConta(q, p, g)
<1>0. q \in Seq(Richiesta) /\ n \in Nat /\ m[p][g] \in Int
  BY CodeIniziali, LenProperties DEF Matrici
<1>1. /\ \A i \in 1 .. n : q[i] \in RichiesteDi(m)
      /\ \A i, j \in 1 .. n : q[i] = q[j] => i = j
      /\ \A e \in RichiesteDi(m) : \E i \in 1 .. n : q[i] = e
  BY CodaIniziale, Fun_BijectionProperties
<1>2. f \in [1 .. n -> Nat] /\ \A i \in 1 .. n : f[i] = Quota(q[i], p, g)
  BY <1>0, CodaContaTipo
<1> HIDE DEF n, f
<1>3. ASSUME NEW e \in RichiesteDi(m), e.mtype = p, e.indicemerce = g
      PROVE  m[p][g] < 0 /\ e = [mtype |-> p, indicemerce |-> g, nlotti |-> -m[p][g]]
  BY <1>3 DEF RichiesteDi
<1>4. CASE m[p][g] < 0
  <2> DEFINE d == [mtype |-> p, indicemerce |-> g, nlotti |-> -m[p][g]]
  <2>1. d \in RichiesteDi(m)
    <3> DEFINE C == {c \in Porti \X Merci : m[c[1]][c[2]] < 0}
    <3>1. <<p, g>> \in C
      BY <1>4
    <3>2. d = [mtype |-> <<p, g>>[1], indicemerce |-> <<p, g>>[2],
               nlotti |-> -m[<<p, g>>[1]][<<p, g>>[2]]]
      OBVIOUS
    <3> QED
      BY <3>1, <3>2 DEF RichiesteDi
  <2>2. PICK k \in 1 .. n : q[k] = d
    BY <1>1, <2>1
  <2>3. f[k] = -m[p][g]
    BY <1>2, <2>2 DEF Quota
  <2>4. \A i \in 1 .. n \ {k} : f[i] = 0
    <3> TAKE i \in 1 .. n \ {k}
    <3>1. q[i] # d /\ q[i] \in RichiesteDi(m)
      BY <1>1, <2>2
    <3>2. ~(q[i].mtype = p /\ q[i].indicemerce = g)
      BY <1>3, <3>1
    <3> QED
      BY <1>2, <3>2 DEF Quota
  <2>5. IsFiniteSet(1 .. n)
    BY <1>0, FS_Interval
  <2>6. Somma(f) = f[k]
    BY <1>2, <2>4, <2>5, SommaSola
  <2> QED
    BY <1>0, <1>4, <2>3, <2>6 DEF f, Offerta
<1>5. CASE ~(m[p][g] < 0)
  <2>1. \A i \in 1 .. n : f[i] = 0
    BY <1>1, <1>2, <1>3, <1>5 DEF Quota
  <2>2. Somma(f) = 0
    BY <1>2, <2>1, SommaZero
  <2> QED
    BY <1>0, <1>5, <2>2 DEF f, Offerta
<1> QED
  BY <1>4, <1>5

LEMMA ResiduoIniziale ==
  ASSUME Init, NEW p \in Porti, NEW g \in Merci
  PROVE  Residuo(p, g) = 0
<1>1. mercato \in Matrici /\ coda \in CodeDi(mercato)
  BY NaveAssumption DEF Init
<1>2. InCoda(p, g) = Attesi(p, g)
  BY <1>1, CodaInizialeConta, InCodaConta DEF Attesi
<1>3. InMano(p, g) = 0
  <2> DEFINE f == [q \in Navi |-> Quota(r[q], p, g)]
  <2>1. f \in [Navi -> Nat] /\ \A q \in Navi : f[q] = 0
    BY QuotaNat DEF Init
  <2>2. InMano(p, g) = Somma(f)
    BY DEF InMano, Quota
  <2> HIDE DEF f
  <2> QED
    BY <2>1, <2>2, SommaZero
<1>4. InViaggio(p, g) = 0
  <2> DEFINE f == [q \in Navi |-> Porta(q, p, g)]
  <2>1. f \in [Navi -> Nat] /\ \A q \in Navi : f[q] = 0
    BY DEF Init, Porta
  <2>2. InViaggio(p, g) = Somma(f)
    BY DEF InViaggio, Porta
  <2> HIDE DEF f
  <2> QED
    BY <2>1, <2>2, SommaZero
<1>5. Attesi(p, g) \in Nat
  BY InitIInv, ResiduoTipi
<1> QED
  BY <1>2, <1>3, <1>4, <1>5 DEF Residuo

\* Nothing is promised to a port beyond what it asks for.
ResiduoNat == \A p \in Porti, g \in Merci : Residuo(p, g) \in Nat

LEMMA ResiduoNatPasso ==
  ASSUME InvMerci, ResiduoNat, [Next]_vars
  PROVE  ResiduoNat'
<1>0. IInv /\ IInv'
  BY NextIInv DEF InvMerci, Inv
<1> SUFFICES ASSUME NEW p \in Porti, NEW g \in Merci PROVE Residuo(p, g)' \in Nat
  BY DEF ResiduoNat
<1>1. Residuo(p, g) \in Nat
  BY DEF ResiduoNat
<1>2. CASE Ferme
  BY <1>1, <1>2 DEF Ferme, merci, ricerca, stiva, Residuo, Attesi, InCoda, InMano, InViaggio
<1>3. ASSUME NEW s \in Navi, Passo(s) \/ Sigusr2(s) PROVE Residuo(p, g)' \in Nat
  <2>1. CASE ScaricaMercato(s)
    <3>1. PICK h \in Merci : Scarica(s, h)
      BY <2>1, ChiScarica
    <3>2. porto[s] \in Porti /\ carico[s][h] \in Nat
      BY <1>0, Tipi
    <3>3. Residuo(porto[s], h) \in Nat
      BY <3>2 DEF ResiduoNat
    <3>4. Residuo(p, g)' = Residuo(p, g)
            + (IF p = porto[s] /\ g = h /\ Scaduta(s, h) THEN carico[s][h] ELSE 0)
      BY <1>0, <2>1, <3>1, <3>3, ResiduoScarica
    <3> QED
      BY <1>1, <3>2, <3>4
  <2>2. CASE ~ScaricaMercato(s)
    BY <1>0, <1>1, <1>3, <2>2, ResiduoFermo
  <2> QED
    BY <2>1, <2>2
<1> QED
  BY <1>2, <1>3, ChiMuove

LEMMA InitResiduoNat == Init => ResiduoNat
BY ResiduoIniziale DEF ResiduoNat

LEMMA SempreResiduoNat == Spec => []ResiduoNat
<1>1. InvMerci /\ ResiduoNat /\ [Next]_vars => ResiduoNat'
  BY ResiduoNatPasso
<1> QED
  BY SempreInvMerci, InitResiduoNat, <1>1, PTL DEF Spec

LEMMA ResiduoBasta ==
  ASSUME InvMerci, ResiduoNat
  PROVE  RichiestaCoperta /\ MaiErroreScarico
<1>0. IInv
  BY DEF InvMerci, Inv
<1>1. RichiestaCoperta
  <2> SUFFICES ASSUME NEW p \in Porti, NEW g \in Merci
               PROVE  InCoda(p, g) + InMano(p, g) + InViaggio(p, g) <= Attesi(p, g)
    BY DEF RichiestaCoperta
  <2>1. Residuo(p, g) \in Nat
    BY DEF ResiduoNat
  <2> QED
    BY <1>0, <2>1, ResiduoTipi DEF Residuo
<1>2. MaiErroreScarico
  <2> SUFFICES ASSUME NEW s \in Navi, NEW g \in Merci, pc[s] = "scarica", carico[s][g] > 0
               PROVE  mercato[porto[s]][g] <= -carico[s][g]
    BY DEF MaiErroreScarico
  <2>1. porto[s] \in Porti /\ carico[s][g] \in Nat /\ mercato[porto[s]][g] \in Int
    BY <1>0, Tipi
  <2>2. porto[s] = dest[s]
    BY DEF InvMerci, Locale, Rotta
  <2>3. Porta(s, porto[s], g) = carico[s][g]
    BY <2>2 DEF Porta
  <2>4. /\ Attesi(porto[s], g) \in Nat /\ InCoda(porto[s], g) \in Nat
        /\ InMano(porto[s], g) \in Nat /\ InViaggio(porto[s], g) \in Nat
        /\ Porta(s, porto[s], g) <= InViaggio(porto[s], g)
    BY <1>0, <2>1, ResiduoTipi
  <2>5. Residuo(porto[s], g) \in Nat
    BY <2>1 DEF ResiduoNat
  <2>6. carico[s][g] <= Attesi(porto[s], g)
    BY <2>1, <2>3, <2>4, <2>5 DEF Residuo
  <2> QED
    BY <2>1, <2>6 DEF Attesi, Offerta
<1> QED
  BY <1>1, <1>2

\* What is queued, in hand or on its way to a port never exceeds what the
\* port still asks for, in any interleaving of any number of ships: every
\* step moves lots between the queue, a hand, a hold and the market by the
\* same amount (nave.c:118-248, nave_lib.c:113-136).
THEOREM RichiestaSempreCoperta == Spec => []RichiestaCoperta
<1>1. InvMerci /\ ResiduoNat => RichiestaCoperta
  BY ResiduoBasta
<1> QED
  BY SempreInvMerci, SempreResiduoNat, <1>1, PTL

\* The error branch of scaricamerci (nave_lib.c:134-136) is dead code: the
\* port a ship unloads at still asks for every lot it brings.
THEOREM ScaricoSenzaErrore == Spec => []MaiErroreScarico
<1>1. InvMerci /\ ResiduoNat => MaiErroreScarico
  BY ResiduoBasta
<1> QED
  BY SempreInvMerci, SempreResiduoNat, <1>1, PTL

-----------------------------------------------------------------------------
(* No request is lost.                                                      *)

\* Lots of g that expired in the hold of s and are not yet in the dump.
Perdendo(s, g) == IF scarico[s].indice = g /\ Scaduta(s, g) THEN scarico[s].val ELSE 0

LEMMA PerdendoCambia ==
  ASSUME IInv, IInv', NEW s \in Navi, NEW g \in Merci,
         \A q \in Navi \ {s} : scarico'[q] = scarico[q] /\ datascarico'[q] = datascarico[q]
  PROVE  /\ ScaduteInScarico(g)' = ScaduteInScarico(g) - Perdendo(s, g) + Perdendo(s, g)'
         /\ ScaduteInScarico(g) \in Nat /\ Perdendo(s, g) \in Nat /\ Perdendo(s, g)' \in Nat
<1> DEFINE f == [q \in Navi |-> Perdendo(q, g)]
           h == [q \in Navi |-> IF scarico'[q].indice = g /\ Lotto[g].exp < datascarico'[q]
                                  THEN scarico'[q].val ELSE 0]
<1>1. f \in [Navi -> Nat] /\ h \in [Navi -> Nat] /\ \A q \in Navi \ {s} : h[q] = f[q]
  <2>1. /\ scarico \in [Navi -> [indice : Merci, val : Nat]]
        /\ scarico' \in [Navi -> [indice : Merci, val : Nat]]
    BY DEF IInv, TypeOK
  <2>2. f \in [Navi -> Nat] /\ h \in [Navi -> Nat]
    BY <2>1 DEF Perdendo
  <2>3. \A q \in Navi \ {s} : h[q] = f[q]
    BY DEF Perdendo, Scaduta
  <2> QED
    BY <2>2, <2>3
<1>2. ScaduteInScarico(g) = Somma(f) /\ ScaduteInScarico(g)' = Somma(h)
  BY DEF ScaduteInScarico, Perdendo, Scaduta
<1>3. f[s] = Perdendo(s, g) /\ h[s] = Perdendo(s, g)'
  BY DEF Perdendo, Scaduta
<1> HIDE DEF f, h
<1>4. IsFiniteSet(Navi)
  BY NaveAssumption
<1>5. Somma(h) = Somma(f) - f[s] + h[s]
  BY <1>1, <1>4, SommaCambia
<1>6. Somma(f) \in Nat /\ f[s] \in Nat /\ h[s] \in Nat
  BY <1>1, <1>4, UnitaFinita
<1> QED
  BY <1>2, <1>3, <1>5, <1>6

LEMMA PerdendoFermo ==
  ASSUME InvMerci, NEW s \in Navi, Passo(s) \/ Sigusr2(s),
         ~ScaricaMercato(s), ~ScriviDumpScarico(s), NEW g \in Merci
  PROVE  Perdendo(s, g)' = Perdendo(s, g)
<1>1. CASE LeggiData(s)
  <2>1. scarico' = scarico /\ scarico[s].val = 0
    BY <1>1 DEF LeggiData, InvMerci, Locale, ScaricoVuoto
  <2> QED
    BY <2>1 DEF Perdendo
<1>2. CASE Sigusr2(s)
  BY <1>2 DEF Sigusr2, altrove, Perdendo, Scaduta
<1>3. CASE Passo(s) /\ ~LeggiData(s)
  <2>1. scarico' = scarico /\ datascarico' = datascarico
    BY <1>3 DEF Passo, RichiediBanchina, RiservaStato, ScriviStato, RiservaMercato, AccettaPrima,
                CodaVuota, CaricaPrima, RifiutaPrima, RimandaPrima, InviaResto, Salta, AccettaDest,
                NessunaPerDest, ValutaDest, RifiutaDest, CaricaDest, ScartaDest, RimandaDest,
                RilasciaMercato, RiservaDump, ScriviDumpCarico, LasciaBanchina, FineScarico, altrove
  <2> QED
    BY <2>1 DEF Perdendo, Scaduta
<1> QED
  BY <1>1, <1>2, <1>3

ResiduoDi(g) == [p \in Porti |-> Residuo(p, g)]

LEMMA SmarriteResiduo ==
  ASSUME NEW g \in Merci
  PROVE  RichiesteSmarrite(g) = Somma(ResiduoDi(g))
BY DEF RichiesteSmarrite, ResiduoDi, Residuo

\* Demand no longer covered, all the ports together, grows exactly by what
\* expires when a ship unloads.
LEMMA SmarritePasso ==
  ASSUME InvMerci, IInv', ResiduoNat, ResiduoNat', NEW s \in Navi, Passo(s) \/ Sigusr2(s),
         NEW g \in Merci
  PROVE  /\ ~ScaricaMercato(s) => RichiesteSmarrite(g)' = RichiesteSmarrite(g)
         /\ \A h \in Merci : ScaricaMercato(s) /\ Scarica(s, h) =>
              RichiesteSmarrite(g)' = RichiesteSmarrite(g)
                + (IF g = h /\ Scaduta(s, h) THEN carico[s][h] ELSE 0)
         /\ RichiesteSmarrite(g) \in Nat
<1> DEFINE f == ResiduoDi(g)
           k == [p \in Porti |-> Residuo(p, g)']
<1>1. f \in [Porti -> Nat] /\ k \in [Porti -> Nat] /\ IsFiniteSet(Porti)
  BY MerciFinite DEF ResiduoNat, ResiduoDi
<1>2. RichiesteSmarrite(g) = Somma(f) /\ RichiesteSmarrite(g)' = Somma(k)
  BY DEF RichiesteSmarrite, ResiduoDi, Residuo
<1>3. \A p \in Porti : f[p] = Residuo(p, g) /\ k[p] = Residuo(p, g)'
  BY DEF ResiduoDi
<1>4. Somma(f) \in Nat
  <2> HIDE DEF f
  <2> QED
    BY <1>1, UnitaFinita
<1>5. ASSUME ~ScaricaMercato(s) PROVE Somma(k) = Somma(f)
  <2>1. \A p \in Porti : Residuo(p, g)' = Residuo(p, g)
    BY <1>5, ResiduoFermo
  <2>2. \A p \in Porti : k[p] = f[p]
    BY <1>3, <2>1
  <2> HIDE DEF f, k
  <2> QED
    BY <1>1, <2>2, SommaUguale
<1>6. ASSUME NEW h \in Merci, ScaricaMercato(s), Scarica(s, h)
      PROVE  Somma(k) = Somma(f) + (IF g = h /\ Scaduta(s, h) THEN carico[s][h] ELSE 0)
  <2>1. porto[s] \in Porti /\ carico[s][h] \in Nat
    BY Tipi DEF InvMerci, Inv
  <2>2. Residuo(porto[s], h) >= 0
    <3>1. Residuo(porto[s], h) \in Nat
      BY <2>1 DEF ResiduoNat
    <3> QED
      BY <3>1
  <2>3. \A p \in Porti : Residuo(p, g)' = Residuo(p, g)
          + (IF p = porto[s] /\ g = h /\ Scaduta(s, h) THEN carico[s][h] ELSE 0)
    BY <1>6, <2>2, ResiduoScarica
  <2> HIDE DEF f, k
  <2>4. \A p \in Porti \ {porto[s]} : k[p] = f[p]
    BY <1>1, <1>3, <2>3
  <2>5. k[porto[s]] = f[porto[s]] + (IF g = h /\ Scaduta(s, h) THEN carico[s][h] ELSE 0)
    BY <1>3, <2>1, <2>3
  <2>6. Somma(k) = Somma(f) - f[porto[s]] + k[porto[s]]
    BY <1>1, <2>1, <2>4, SommaCambia
  <2>7. f[porto[s]] \in Nat
    BY <1>1, <2>1
  <2> QED
    BY <1>4, <2>1, <2>5, <2>6, <2>7
<1> QED
  BY <1>2, <1>4, <1>5, <1>6

LEMMA RichiesteMaiPersePasso ==
  ASSUME InvMerci, ResiduoNat, RichiesteMaiPerse, [Next]_vars
  PROVE  RichiesteMaiPerse'
<1>0. IInv /\ IInv' /\ ResiduoNat'
  BY NextIInv, ResiduoNatPasso DEF InvMerci, Inv
<1> SUFFICES ASSUME NEW g \in Merci
             PROVE  RichiesteSmarrite(g)' = merceDump'[g]["scaduta_in_nave"] + ScaduteInScarico(g)'
  BY DEF RichiesteMaiPerse
<1>1. RichiesteSmarrite(g) = merceDump[g]["scaduta_in_nave"] + ScaduteInScarico(g)
  BY DEF RichiesteMaiPerse
<1>2. merceDump[g]["scaduta_in_nave"] \in Int
  BY <1>0, Tipi DEF CampiMerce
<1>3. CASE Ferme
  <2>1. RichiesteSmarrite(g)' = RichiesteSmarrite(g)
    BY <1>3 DEF Ferme, merci, ricerca, stiva, RichiesteSmarrite, Attesi, InCoda, InMano, InViaggio
  <2>2. ScaduteInScarico(g)' = ScaduteInScarico(g) /\ merceDump' = merceDump
    BY <1>3 DEF Ferme, dump, ScaduteInScarico, Scaduta
  <2> QED
    BY <1>1, <2>1, <2>2
<1>4. ASSUME NEW s \in Navi, Passo(s) \/ Sigusr2(s)
      PROVE  RichiesteSmarrite(g)' = merceDump'[g]["scaduta_in_nave"] + ScaduteInScarico(g)'
  <2>0. SoloSue(s)
    BY <1>0, <1>4, PassoSoloSue
  <2>1. /\ ScaduteInScarico(g)' = ScaduteInScarico(g) - Perdendo(s, g) + Perdendo(s, g)'
        /\ ScaduteInScarico(g) \in Nat /\ Perdendo(s, g) \in Nat /\ Perdendo(s, g)' \in Nat
    BY <1>0, <2>0, PerdendoCambia DEF SoloSue
  <2>2. CASE ScaricaMercato(s)
    <3>1. PICK h \in Merci : Scarica(s, h)
      BY <2>2, ChiScarica
    <3>2. /\ scarico'[s].indice = h /\ scarico'[s].val = carico[s][h] /\ datascarico' = datascarico
          /\ scarico[s].val = 0 /\ carico[s][h] \in Nat
      BY <1>0, <2>2, <3>1, ScaricaStiva, Tipi DEF ScaricaMercato, InvMerci, Locale, ScaricoVuoto
    <3>3. Perdendo(s, g) = 0
      BY <3>2 DEF Perdendo
    <3>4. Perdendo(s, g)' = IF g = h /\ Scaduta(s, h) THEN carico[s][h] ELSE 0
      BY <3>2 DEF Perdendo, Scaduta
    <3>5. merceDump' = merceDump
      BY <1>4, <2>2, DumpMerciFermo DEF ScriveMerci, ScaricaMercato, ScriviDumpCarico,
                                        ScriviDumpScarico
    <3>6. /\ RichiesteSmarrite(g)' = RichiesteSmarrite(g)
               + (IF g = h /\ Scaduta(s, h) THEN carico[s][h] ELSE 0)
          /\ RichiesteSmarrite(g) \in Nat
      BY <1>0, <1>4, <2>2, <3>1, SmarritePasso
    <3> QED
      BY <1>1, <1>2, <2>1, <3>3, <3>4, <3>5, <3>6
  <2>3. CASE ScriviDumpScarico(s)
    <3>0. ~ScaricaMercato(s) /\ scarico[s] \in [indice : Merci, val : Nat]
      BY <1>0, <2>3, Tipi DEF ScaricaMercato, ScriviDumpScarico
    <3>1. RichiesteSmarrite(g)' = RichiesteSmarrite(g)
      BY <1>0, <1>4, <3>0, SmarritePasso
    <3>2. merceDump'[g]["scaduta_in_nave"] = merceDump[g]["scaduta_in_nave"] + Perdendo(s, g)
      BY <1>2, <2>3, <3>0, ScriviScaricoPezzi DEF Perdendo
    <3>3. scarico'[s].val = 0
      BY <1>0, <2>3, Tipi DEF ScriviDumpScarico
    <3>4. Perdendo(s, g)' = 0
      BY <3>3 DEF Perdendo
    <3> QED
      BY <1>1, <1>2, <2>1, <3>1, <3>2, <3>4
  <2>4. CASE ~ScaricaMercato(s) /\ ~ScriviDumpScarico(s)
    <3>1. RichiesteSmarrite(g)' = RichiesteSmarrite(g)
      BY <1>0, <1>4, <2>4, SmarritePasso
    <3>2. Perdendo(s, g)' = Perdendo(s, g)
      BY <1>4, <2>4, PerdendoFermo
    <3>3. merceDump'[g]["scaduta_in_nave"] = merceDump[g]["scaduta_in_nave"]
      BY <1>4, <2>4, DumpMerciFermo, ScriviCaricoPezzi DEF ScriveMerci
    <3> QED
      BY <1>1, <1>2, <2>1, <3>1, <3>2, <3>3
  <2> QED
    BY <2>2, <2>3, <2>4
<1> QED
  BY <1>3, <1>4, ChiMuove

LEMMA InitRichiesteMaiPerse == Init => RichiesteMaiPerse
<1> SUFFICES ASSUME Init, NEW g \in Merci
             PROVE  RichiesteSmarrite(g) = merceDump[g]["scaduta_in_nave"] + ScaduteInScarico(g)
  BY DEF RichiesteMaiPerse
<1>1. RichiesteSmarrite(g) = 0
  <2>1. ResiduoDi(g) \in [Porti -> Nat] /\ \A p \in Porti : ResiduoDi(g)[p] = 0
    BY ResiduoIniziale DEF ResiduoDi
  <2> QED
    BY <2>1, SommaZero, SmarriteResiduo
<1>2. ScaduteInScarico(g) = 0
  <2> DEFINE f == [q \in Navi |-> Perdendo(q, g)]
  <2>1. f \in [Navi -> Nat] /\ \A q \in Navi : f[q] = 0
    BY DEF Init, Perdendo
  <2>2. ScaduteInScarico(g) = Somma(f)
    BY DEF ScaduteInScarico, Perdendo
  <2> HIDE DEF f
  <2> QED
    BY <2>1, <2>2, SommaZero
<1>3. merceDump[g]["scaduta_in_nave"] = 0
  BY DEF Init, InitMerce, CampiMerce
<1> QED
  BY <1>1, <1>2, <1>3

\* The queue traffic never loses a request: for any number of ships, what the
\* ports ask for and nobody has queued, in hand or aboard is exactly what
\* expired at sea (nave.c:118-248, nave_lib.c:113-147).
THEOREM NessunaRichiestaPersa == Spec => []RichiesteMaiPerse
<1>1. InvMerci /\ ResiduoNat /\ RichiesteMaiPerse /\ [Next]_vars => RichiesteMaiPerse'
  BY RichiesteMaiPersePasso
<1> QED
  BY SempreInvMerci, SempreResiduoNat, InitRichiesteMaiPerse, <1>1, PTL DEF Spec

-----------------------------------------------------------------------------
(* The end for lack of offers and requests. *)

FermoTutto == /\ coda = << >>
              /\ \A s \in Navi : r[s] = NESSUNA /\ \A g \in Merci : carico[s][g] = 0

\* Where no port asks for anything, nothing is queued, in hand or aboard.
LEMMA SenzaRichieste ==
  ASSUME IInv, ResiduoNat, ~Richieste
  PROVE  FermoTutto
<1>1. ASSUME NEW p \in Porti, NEW g \in Merci
      PROVE  InCoda(p, g) = 0 /\ InMano(p, g) = 0 /\ InViaggio(p, g) = 0
  <2>1. mercato[p][g] \in Int /\ ~(mercato[p][g] < 0)
    BY Tipi DEF Richieste
  <2>2. Attesi(p, g) = 0
    BY <2>1 DEF Attesi, Offerta
  <2>3. Residuo(p, g) \in Nat
    BY DEF ResiduoNat
  <2> QED
    BY <2>2, <2>3, ResiduoTipi DEF Residuo
<1>2. coda = << >>
  <2> SUFFICES ASSUME coda # << >> PROVE FALSE
    OBVIOUS
  <2>1. coda \in Seq(Richiesta)
    BY Tipi
  <2>2. 1 \in 1 .. Len(coda) /\ coda[1] \in Richiesta
    BY <2>1, LenProperties, EmptySeq, ElementOfSeq
  <2> DEFINE p == coda[1].mtype
             g == coda[1].indicemerce
             f == CodaConta(coda, p, g)
  <2>3. p \in Porti /\ g \in Merci /\ coda[1].nlotti \in Nat \ {0}
    BY <2>2, CampiRichiesta
  <2>4. f \in [1 .. Len(coda) -> Nat] /\ f[1] = coda[1].nlotti /\ Len(coda) \in Nat
    BY <2>1, <2>2, <2>3, CodaContaTipo DEF Quota
  <2>5. Somma(f) = 0
    BY <1>1, <2>3, InCodaConta
  <2> HIDE DEF f, p, g
  <2>6. f[1] <= Somma(f)
    <3>1. IsFiniteSet(1 .. Len(coda))
      BY <2>4, FS_Interval
    <3> QED
      BY <2>2, <2>4, <3>1, SommaAlmeno
  <2> QED
    BY <2>3, <2>4, <2>5, <2>6
<1>3. ASSUME NEW s \in Navi PROVE r[s] = NESSUNA
  <2> SUFFICES ASSUME r[s] # NESSUNA PROVE FALSE
    OBVIOUS
  <2>1. r[s] \in Richiesta
    BY Tipi
  <2> DEFINE p == r[s].mtype
             g == r[s].indicemerce
             f == [q \in Navi |-> Quota(r[q], p, g)]
  <2>2. p \in Porti /\ g \in Merci /\ r[s].nlotti \in Nat \ {0}
    BY <2>1, CampiRichiesta
  <2>3. f \in [Navi -> Nat] /\ f[s] = r[s].nlotti
    BY <2>2, Tipi, QuotaNat DEF Quota
  <2>4. Somma(f) = 0
    <3>1. InMano(p, g) = Somma(f)
      BY DEF InMano, Quota
    <3> QED
      BY <1>1, <2>2, <3>1
  <2> HIDE DEF f, p, g
  <2>5. f[s] <= Somma(f)
    BY <2>3, NaveAssumption, SommaAlmeno
  <2> QED
    BY <2>2, <2>3, <2>4, <2>5
<1>4. ASSUME NEW s \in Navi, NEW g \in Merci PROVE carico[s][g] = 0
  <2>1. dest[s] \in Porti /\ carico[s][g] \in Nat
    BY Tipi
  <2>2. Porta(s, dest[s], g) <= 0
    BY <1>1, <2>1, ResiduoTipi
  <2> QED
    BY <2>1, <2>2 DEF Porta
<1> QED
  BY <1>2, <1>3, <1>4 DEF FermoTutto

\* From there no step moves a lot again.
LEMMA FermoResta ==
  ASSUME InvMerci, FermoTutto, NEW s \in Navi, Passo(s) \/ Sigusr2(s)
  PROVE  FermoTutto'
<1>0. IInv
  BY DEF InvMerci, Inv
<1>1. ~ScaricaMercato(s)
  <2> SUFFICES ASSUME ScaricaMercato(s) PROVE FALSE
    OBVIOUS
  <2>1. PICK h \in Merci : carico[s][h] > 0
    BY DEF ScaricaMercato
  <2>2. carico[s][h] = 0
    BY DEF FermoTutto
  <2> QED
    BY <2>1, <2>2
<1>2. ~(AccettaPrima(s) \/ AccettaDest(s))
  <2>1. DOMAIN coda = {}
    BY DEF FermoTutto
  <2> QED
    BY <2>1, ChiEstrae
<1>3. r[s] \notin Richiesta
  BY RichiestaNonNessuna DEF FermoTutto
<1>4. ~(RimandaPrima(s) \/ RimandaDest(s) \/ InviaResto(s))
  BY <1>0, <1>3, ChiInvia
<1>5. ~(CaricaPrima(s) \/ CaricaDest(s))
  <2> SUFFICES ASSUME CaricaPrima(s) \/ CaricaDest(s) PROVE FALSE
    OBVIOUS
  <2>1. PICK n \in Nat : Carica(s, n)
    BY ChiCarica
  <2> QED
    BY <1>0, <1>3, <2>1, CaricaPezzi
<1>6. ~ToccaRichieste(s)
  BY <1>2, <1>4, <1>5 DEF ToccaRichieste
<1>7. r' = r /\ coda' = coda /\ carico' = carico
  BY <1>0, <1>1, <1>6, RichiesteFerme, RottaFerma
<1> QED
  BY <1>7 DEF FermoTutto

LEMMA FineSenzaCaricoPasso ==
  ASSUME InvMerci, ResiduoNat, FineSenzaCarico, [Next]_vars
  PROVE  FineSenzaCarico'
<1>0. IInv
  BY DEF InvMerci, Inv
<1> SUFFICES ASSUME ~continua' PROVE FermoTutto'
  BY DEF FineSenzaCarico, FermoTutto
<1>1. ~continua => FermoTutto
  BY DEF FineSenzaCarico, FermoTutto
<1>2. CASE Controlla
  <2>1. ~Richieste /\ UNCHANGED <<coda, r, carico>>
    BY <1>2 DEF Controlla, ControllaMercato, merci, ricerca, stiva
  <2>2. FermoTutto
    BY <1>0, <2>1, SenzaRichieste
  <2> QED
    BY <2>1, <2>2 DEF FermoTutto
<1>3. CASE Giorno \/ UNCHANGED vars
  BY <1>1, <1>3 DEF Giorno, vars, altrove, giornata, merci, ricerca, stiva, FermoTutto
<1>4. ASSUME NEW s \in Navi, Passo(s) \/ Sigusr2(s) PROVE FermoTutto'
  <2>1. continua' = continua
    BY <1>0, <1>4, SoloSigusr2Esce DEF Sigusr2, altrove, giornata
  <2> QED
    BY <1>1, <1>4, <2>1, FermoResta
<1> QED
  BY <1>2, <1>3, <1>4 DEF Next, TuttiUsciti

LEMMA InitFineSenzaCarico == Init => FineSenzaCarico
BY DEF Init, FineSenzaCarico

\* When the master stops because nothing is offered and nothing is asked for
\* (master.c:188), no fleet of any size has a lot left to deliver or a
\* request to serve, from that moment on.
THEOREM FineVuota == Spec => []FineSenzaCarico
<1>1. InvMerci /\ ResiduoNat /\ FineSenzaCarico /\ [Next]_vars => FineSenzaCarico'
  BY FineSenzaCaricoPasso
<1> QED
  BY SempreInvMerci, SempreResiduoNat, InitFineSenzaCarico, <1>1, PTL DEF Spec

-----------------------------------------------------------------------------
(* The goods counters of the dump against the facts.                        *)

\* The shares of ship s in the counters of good g: aboard and not recorded,
\* aboard and recorded, and taken from the hold while the dump still counts
\* it aboard.  A killed ship has no part in the last two.
NonSegnato(s, g) == IF NonRegistrato(s) THEN carico[s][g] ELSE 0
Segnato(s, g) == IF NonRegistrato(s) \/ pc[s] = "uscita" THEN 0 ELSE carico[s][g]
Tolto(s, g) == IF scarico[s].indice = g /\ pc[s] # "uscita" THEN scarico[s].val ELSE 0

Offerto(g) == Somma([p \in Porti |-> Offerta(mercato[p][g])])
NonSegnati(g) == Somma([s \in Navi |-> NonSegnato(s, g)])
Segnati(g) == Somma([s \in Navi |-> Segnato(s, g)])
Tolti(g) == Somma([s \in Navi |-> Tolto(s, g)])

ScartoPorto(g) == merceDump[g]["presente_in_porto"] - Offerto(g) - NonSegnati(g)
ScartoNave(g) == merceDump[g]["presente_in_nave"] - Segnati(g) - Tolti(g)

LEMMA SommaNavi ==
  ASSUME NEW f \in [Navi -> Nat], NEW h \in [Navi -> Nat], NEW s \in Navi,
         \A q \in Navi \ {s} : h[q] = f[q]
  PROVE  /\ Somma(h) = Somma(f) - f[s] + h[s]
         /\ Somma(f) \in Nat /\ f[s] \in Nat /\ h[s] \in Nat
<1>1. IsFiniteSet(Navi)
  BY NaveAssumption
<1>2. Somma(h) = Somma(f) - f[s] + h[s]
  BY <1>1, SommaCambia
<1>3. Somma(f) \in Nat
  BY <1>1, UnitaFinita
<1> QED
  BY <1>2, <1>3

LEMMA SegnatiTipi ==
  ASSUME IInv, NEW g \in Merci
  PROVE  /\ \A s \in Navi : /\ NonSegnato(s, g) \in Nat /\ Segnato(s, g) \in Nat
                            /\ Tolto(s, g) \in Nat /\ carico[s][g] \in Nat
                            /\ scarico[s].val \in Nat /\ scarico[s].indice \in Merci
         /\ NonSegnati(g) \in Nat /\ Segnati(g) \in Nat /\ Tolti(g) \in Nat
         /\ Offerto(g) \in Nat
         /\ merceDump[g]["presente_in_porto"] \in Int
         /\ merceDump[g]["presente_in_nave"] \in Int
<1>1. /\ \A s \in Navi : carico[s][g] \in Nat /\ scarico[s].val \in Nat /\ scarico[s].indice \in Merci
      /\ merceDump[g]["presente_in_porto"] \in Int
      /\ merceDump[g]["presente_in_nave"] \in Int
  <2>1. /\ carico \in [Navi -> [Merci -> Nat]]
        /\ scarico \in [Navi -> [indice : Merci, val : Nat]]
        /\ merceDump \in [Merci -> [CampiMerce -> Int]]
    BY Tipi
  <2>2. \A s \in Navi : carico[s][g] \in Nat /\ scarico[s].val \in Nat /\ scarico[s].indice \in Merci
    BY <2>1
  <2>3. merceDump[g] \in [CampiMerce -> Int]
    BY <2>1
  <2>4. "presente_in_porto" \in CampiMerce /\ "presente_in_nave" \in CampiMerce
    BY DEF CampiMerce
  <2> QED
    BY <2>2, <2>3, <2>4
<1>2. \A s \in Navi : NonSegnato(s, g) \in Nat /\ Segnato(s, g) \in Nat /\ Tolto(s, g) \in Nat
  BY <1>1 DEF NonSegnato, Segnato, Tolto
<1>3. IsFiniteSet(Navi) /\ IsFiniteSet(Porti)
  BY NaveAssumption, MerciFinite
<1>4. NonSegnati(g) \in Nat /\ Segnati(g) \in Nat /\ Tolti(g) \in Nat
  <2>1. /\ [s \in Navi |-> NonSegnato(s, g)] \in [Navi -> Nat]
        /\ [s \in Navi |-> Segnato(s, g)] \in [Navi -> Nat]
        /\ [s \in Navi |-> Tolto(s, g)] \in [Navi -> Nat]
    BY <1>2
  <2> QED
    BY <1>3, <2>1, UnitaFinita DEF NonSegnati, Segnati, Tolti
<1>5. Offerto(g) \in Nat
  <2>1. [p \in Porti |-> Offerta(mercato[p][g])] \in [Porti -> Nat]
    BY Tipi, OffertaNat
  <2> QED
    BY <1>3, <2>1, UnitaFinita DEF Offerto
<1> QED
  BY <1>1, <1>2, <1>4, <1>5

\* A step of s changes the totals by its own share.
LEMMA SegnatiCambiano ==
  ASSUME IInv, IInv', NEW s \in Navi, SoloSue(s), NEW g \in Merci
  PROVE  /\ NonSegnati(g)' = NonSegnati(g) - NonSegnato(s, g) + NonSegnato(s, g)'
         /\ Segnati(g)' = Segnati(g) - Segnato(s, g) + Segnato(s, g)'
         /\ Tolti(g)' = Tolti(g) - Tolto(s, g) + Tolto(s, g)'
<1>1. \A q \in Navi : /\ NonSegnato(q, g) \in Nat /\ NonSegnato(q, g)' \in Nat
                      /\ Segnato(q, g) \in Nat /\ Segnato(q, g)' \in Nat
                      /\ Tolto(q, g) \in Nat /\ Tolto(q, g)' \in Nat
  <2>1. \A q \in Navi : carico'[q][g] \in Nat /\ scarico'[q].val \in Nat
    BY DEF IInv, TypeOK
  <2>2. \A q \in Navi : NonSegnato(q, g)' \in Nat /\ Segnato(q, g)' \in Nat /\ Tolto(q, g)' \in Nat
    BY <2>1 DEF NonSegnato, Segnato, Tolto
  <2> QED
    BY <2>2, SegnatiTipi
<1>2. \A q \in Navi \ {s} : /\ NonSegnato(q, g)' = NonSegnato(q, g)
                            /\ Segnato(q, g)' = Segnato(q, g)
                            /\ Tolto(q, g)' = Tolto(q, g)
  BY DEF SoloSue, NonSegnato, Segnato, Tolto, NonRegistrato
<1>3. NonSegnati(g)' = NonSegnati(g) - NonSegnato(s, g) + NonSegnato(s, g)'
  <2> DEFINE f == [q \in Navi |-> NonSegnato(q, g)]
             h == [q \in Navi |-> NonSegnato(q, g)']
  <2>1. /\ f \in [Navi -> Nat] /\ h \in [Navi -> Nat] /\ \A q \in Navi \ {s} : h[q] = f[q]
        /\ f[s] = NonSegnato(s, g) /\ h[s] = NonSegnato(s, g)'
        /\ NonSegnati(g) = Somma(f) /\ NonSegnati(g)' = Somma(h)
    BY <1>1, <1>2 DEF NonSegnati
  <2> HIDE DEF f, h
  <2> QED
    BY <2>1, SommaNavi
<1>4. Segnati(g)' = Segnati(g) - Segnato(s, g) + Segnato(s, g)'
  <2> DEFINE f == [q \in Navi |-> Segnato(q, g)]
             h == [q \in Navi |-> Segnato(q, g)']
  <2>1. /\ f \in [Navi -> Nat] /\ h \in [Navi -> Nat] /\ \A q \in Navi \ {s} : h[q] = f[q]
        /\ f[s] = Segnato(s, g) /\ h[s] = Segnato(s, g)'
        /\ Segnati(g) = Somma(f) /\ Segnati(g)' = Somma(h)
    BY <1>1, <1>2 DEF Segnati
  <2> HIDE DEF f, h
  <2> QED
    BY <2>1, SommaNavi
<1>5. Tolti(g)' = Tolti(g) - Tolto(s, g) + Tolto(s, g)'
  <2> DEFINE f == [q \in Navi |-> Tolto(q, g)]
             h == [q \in Navi |-> Tolto(q, g)']
  <2>1. /\ f \in [Navi -> Nat] /\ h \in [Navi -> Nat] /\ \A q \in Navi \ {s} : h[q] = f[q]
        /\ f[s] = Tolto(s, g) /\ h[s] = Tolto(s, g)'
        /\ Tolti(g) = Somma(f) /\ Tolti(g)' = Somma(h)
    BY <1>1, <1>2 DEF Tolti
  <2> HIDE DEF f, h
  <2> QED
    BY <2>1, SommaNavi
<1> QED
  BY <1>3, <1>4, <1>5

\* The steps that move a lot, in the market, in a hold or in the dump.
MuoveLotti(s) == ToccaStiva(s) \/ ScriveMerci(s)

LEMMA SegnatoFermo ==
  ASSUME InvMerci, NEW s \in Navi, Passo(s), ~MuoveLotti(s), NEW g \in Merci
  PROVE  /\ NonSegnato(s, g)' = NonSegnato(s, g) /\ Segnato(s, g)' = Segnato(s, g)
         /\ Tolto(s, g)' = Tolto(s, g)
<1>0. /\ IInv /\ pc'[s] # "uscita" /\ pc[s] # "uscita" /\ carico' = carico
      /\ scarico' = scarico
  <2>1. IInv
    BY DEF InvMerci, Inv
  <2>2. carico' = carico
    BY <2>1, StivaFerma DEF MuoveLotti, stiva
  <2>3. scarico' = scarico
    BY DEF Passo, MuoveLotti, ToccaStiva, ScriveMerci, RichiediBanchina, RiservaStato, ScriviStato,
           RiservaMercato, AccettaPrima, CodaVuota, RifiutaPrima, RimandaPrima, InviaResto, Salta,
           AccettaDest, NessunaPerDest, ValutaDest, RifiutaDest, ScartaDest, RimandaDest,
           RilasciaMercato, RiservaDump, LasciaBanchina, LeggiData, altrove
  <2> QED
    BY <2>1, <2>2, <2>3, SoloSigusr2Esce
<1>1. Tolto(s, g)' = Tolto(s, g)
  BY <1>0 DEF Tolto
<1>2. CASE carico[s][g] = 0
  BY <1>0, <1>1, <1>2 DEF NonSegnato, Segnato
<1>3. CASE NonRegistrato(s)' <=> NonRegistrato(s)
  BY <1>0, <1>1, <1>3 DEF NonSegnato, Segnato
<1> USE <1>0, Tipi DEF Vai, NonRegistrato, AlMercato
<1>4. CASE RichiediBanchina(s) \/ RiservaStato(s) \/ ScriviStato(s) \/ LasciaBanchina(s)
           \/ LeggiData(s)
  <2>1. NonRegistrato(s)' <=> NonRegistrato(s)
    <3>1. CASE RichiediBanchina(s) \/ LasciaBanchina(s) \/ LeggiData(s)
      BY <3>1 DEF RichiediBanchina, LasciaBanchina, LeggiData, InNavigazione
    <3>2. CASE RiservaStato(s)
      BY <3>2 DEF RiservaStato, AttesaStato
    <3>3. CASE ScriviStato(s)
      BY <3>3 DEF ScriviStato, NelDump1
    <3> QED
      BY <1>4, <3>1, <3>2, <3>3
  <2> QED
    BY <1>3, <2>1
<1>5. CASE RiservaMercato(s)
  <2>1. CASE pc[s] = "mercato"
    BY <1>2, <2>1 DEF InvMerci, Locale, StivaVuota, Vuote
  <2>2. CASE pc[s] # "mercato"
    <3>1. NonRegistrato(s)' <=> NonRegistrato(s)
      BY <1>5, <2>2 DEF RiservaMercato, AttesaMercato
    <3> QED
      BY <1>3, <3>1
  <2> QED
    BY <2>1, <2>2
<1>6. CASE CodaVuota(s)
  BY <1>2, <1>6 DEF CodaVuota, InvMerci, Locale, StivaVuota, Vuote
<1>7. CASE AccettaPrima(s) \/ RifiutaPrima(s) \/ RimandaPrima(s) \/ InviaResto(s) \/ Salta(s)
           \/ AccettaDest(s) \/ NessunaPerDest(s)
  <2>1. NonRegistrato(s)' <=> NonRegistrato(s)
    BY <1>7 DEF AccettaPrima, RifiutaPrima, RimandaPrima, InviaResto, Salta, AccettaDest,
                NessunaPerDest
  <2> QED
    BY <1>3, <2>1
<1>8. CASE ValutaDest(s) \/ RifiutaDest(s) \/ ScartaDest(s) \/ RimandaDest(s)
           \/ RilasciaMercato(s) \/ RiservaDump(s)
  <2>1. NonRegistrato(s)' <=> NonRegistrato(s)
    BY <1>8 DEF ValutaDest, RifiutaDest, ScartaDest, RimandaDest, DopoLettura, RilasciaMercato,
                RiservaDump, AttesaDump0
  <2> QED
    BY <1>3, <2>1
<1> QED
  BY <1>4, <1>5, <1>6, <1>7, <1>8 DEF Passo, MuoveLotti, ToccaStiva, ScriveMerci

LEMMA OffertoCambia ==
  ASSUME IInv, IInv', NEW p \in Porti, NEW g \in Merci,
         \A q \in Porti \ {p} : mercato'[q][g] = mercato[q][g]
  PROVE  Offerto(g)' = Offerto(g) - Offerta(mercato[p][g]) + Offerta(mercato'[p][g])
<1> DEFINE f == [q \in Porti |-> Offerta(mercato[q][g])]
           h == [q \in Porti |-> Offerta(mercato'[q][g])]
<1>1. mercato \in [Porti -> [Merci -> Int]] /\ mercato' \in [Porti -> [Merci -> Int]]
  BY DEF IInv, TypeOK, Matrici
<1>2. f \in [Porti -> Nat] /\ h \in [Porti -> Nat] /\ IsFiniteSet(Porti)
  BY <1>1, OffertaNat, MerciFinite
<1>3. /\ \A q \in Porti \ {p} : h[q] = f[q]
      /\ f[p] = Offerta(mercato[p][g]) /\ h[p] = Offerta(mercato'[p][g])
  OBVIOUS
<1>4. Offerto(g) = Somma(f) /\ Offerto(g)' = Somma(h)
  BY DEF Offerto, Offerta
<1> HIDE DEF f, h
<1>5. Somma(h) = Somma(f) - f[p] + h[p]
  BY <1>2, <1>3, SommaCambia
<1> QED
  BY <1>3, <1>4, <1>5

LEMMA OffertoFermo ==
  ASSUME IInv, NEW g \in Merci,
         \A p \in Porti : Offerta(mercato'[p][g]) = Offerta(mercato[p][g])
  PROVE  Offerto(g)' = Offerto(g)
<1> DEFINE f == [q \in Porti |-> Offerta(mercato[q][g])]
           h == [q \in Porti |-> Offerta(mercato'[q][g])]
<1>1. f = h
  OBVIOUS
<1>2. Offerto(g) = Somma(f) /\ Offerto(g)' = Somma(h)
  BY DEF Offerto, Offerta
<1> QED
  BY <1>1, <1>2

ScartiFermi(g) == ScartoPorto(g)' = ScartoPorto(g) /\ ScartoNave(g)' = ScartoNave(g)

LEMMA ScartoCarica ==
  ASSUME InvMerci, IInv', NEW s \in Navi, Passo(s), CaricaPrima(s) \/ CaricaDest(s),
         NEW g \in Merci
  PROVE  ScartiFermi(g)
<1>0. IInv /\ SoloSue(s)
  BY PassoSoloSue DEF InvMerci, Inv
<1>1. PICK n \in Nat : Carica(s, n)
  BY ChiCarica
<1> DEFINE h == r[s].indicemerce
           m == IF g = h THEN n ELSE 0
<1>2. /\ h \in Merci /\ porto[s] \in Porti /\ n <= mercato[porto[s]][h] /\ m \in Nat
  BY <1>0, <1>1, CaricaPezzi
<1>3. /\ carico'[s][h] = carico[s][h] + n
      /\ \A k \in Merci \ {h} : carico'[s][k] = carico[s][k]
      /\ mercato'[porto[s]][h] = mercato[porto[s]][h] - n
      /\ \A p \in Porti, k \in Merci : ~(p = porto[s] /\ k = h) => mercato'[p][k] = mercato[p][k]
  BY <1>0, <1>1, CaricaStiva
<1>4. NonRegistrato(s) /\ NonRegistrato(s)' /\ scarico' = scarico /\ merceDump' = merceDump
  <2>1. CASE CaricaPrima(s)
    <3>1. PICK k \in 1 .. r[s].nlotti :
            Vai(s, IF k < r[s].nlotti THEN "inviaResto" ELSE "cercaDest")
      BY <2>1 DEF CaricaPrima
    <3>2. pc[s] = "valuta" /\ UNCHANGED altrove
      BY <2>1 DEF CaricaPrima
    <3> QED
      BY <1>0, <3>1, <3>2, Tipi DEF Vai, NonRegistrato, AlMercato, altrove, dump
  <2>2. CASE CaricaDest(s)
    <3>1. PICK k \in 1 .. r[s].nlotti :
            IF k < r[s].nlotti THEN Vai(s, "inviaDest") ELSE Vai(s, DopoLettura(s))
      BY <2>2 DEF CaricaDest
    <3>2. pc[s] = "controllaCarico" /\ UNCHANGED altrove
      BY <2>2 DEF CaricaDest
    <3> QED
      BY <1>0, <3>1, <3>2, Tipi DEF Vai, DopoLettura, NonRegistrato, AlMercato, altrove, dump
  <2> QED
    BY <2>1, <2>2
<1>5. pc[s] # "uscita" /\ pc'[s] # "uscita"
  BY <1>0, SoloSigusr2Esce
<1>6. carico'[s][g] = carico[s][g] + m /\ carico[s][g] \in Nat
  <2>1. carico[s][g] \in Nat
    BY <1>0, Tipi
  <2> QED
    BY <1>3, <2>1
<1>7. /\ NonSegnato(s, g)' = NonSegnato(s, g) + m
      /\ Segnato(s, g)' = Segnato(s, g) /\ Tolto(s, g)' = Tolto(s, g)
  BY <1>4, <1>5, <1>6 DEF NonSegnato, Segnato, Tolto
<1>8. Offerto(g)' = Offerto(g) - m
  <2>0. mercato \in [Porti -> [Merci -> Int]]
    BY <1>0, Tipi
  <2>1. Offerto(g)' = Offerto(g) - Offerta(mercato[porto[s]][g]) + Offerta(mercato'[porto[s]][g])
    BY <1>0, <1>2, <1>3, OffertoCambia
  <2>2. CASE g = h
    <3>1. /\ Offerta(mercato[porto[s]][g]) = mercato[porto[s]][g]
          /\ Offerta(mercato'[porto[s]][g]) = mercato[porto[s]][g] - n
      <4> DEFINE a == mercato[porto[s]][g]
                 b == mercato'[porto[s]][g]
      <4>1. a \in Int
        BY <1>2, <2>0
      <4>2. b = a - n /\ n <= a
        BY <1>2, <1>3, <2>2
      <4> HIDE DEF a, b
      <4>3. /\ (IF a > 0 THEN a ELSE 0) = a
            /\ (IF b > 0 THEN b ELSE 0) = a - n
        BY <4>1, <4>2
      <4> QED
        BY <4>3 DEF a, b, Offerta
    <3>2. mercato[porto[s]][g] \in Int /\ Offerto(g) \in Nat
      BY <1>0, <1>2, <2>0, SegnatiTipi
    <3> QED
      BY <2>1, <2>2, <3>1, <3>2
  <2>3. CASE g # h
    <3>1. mercato'[porto[s]][g] = mercato[porto[s]][g] /\ mercato[porto[s]][g] \in Int
      BY <1>2, <1>3, <2>0, <2>3
    <3>2. Offerta(mercato[porto[s]][g]) \in Nat /\ Offerto(g) \in Nat
      BY <1>0, <3>1, OffertaNat, SegnatiTipi
    <3> QED
      BY <2>1, <2>3, <3>1, <3>2
  <2> QED
    BY <2>2, <2>3
<1> HIDE DEF m, h
<1>9. /\ NonSegnati(g)' = NonSegnati(g) + m /\ Segnati(g)' = Segnati(g) /\ Tolti(g)' = Tolti(g)
  BY <1>0, <1>2, <1>7, SegnatiTipi, SegnatiCambiano
<1> QED
  BY <1>0, <1>2, <1>4, <1>8, <1>9, SegnatiTipi DEF ScartiFermi, ScartoPorto, ScartoNave

LEMMA ScartoScarica ==
  ASSUME InvMerci, IInv', NEW s \in Navi, Passo(s), ScaricaMercato(s), NEW g \in Merci
  PROVE  ScartiFermi(g)
<1>0. IInv /\ SoloSue(s)
  BY PassoSoloSue DEF InvMerci, Inv
<1>1. PICK h \in Merci : Scarica(s, h)
  BY ChiScarica
<1> DEFINE n == carico[s][h]
           m == IF g = h THEN n ELSE 0
<1>2. /\ carico'[s][h] = 0 /\ \A k \in Merci \ {h} : carico'[s][k] = carico[s][k]
      /\ scarico'[s].indice = h /\ scarico'[s].val = n
      /\ \A p \in Porti, k \in Merci : ~(p = porto[s] /\ k = h) => mercato'[p][k] = mercato[p][k]
      /\ IF ~Scaduta(s, h) /\ mercato[porto[s]][h] <= -n
           THEN mercato'[porto[s]][h] = mercato[porto[s]][h] + n
           ELSE mercato'[porto[s]][h] = mercato[porto[s]][h]
      /\ n \in Nat \ {0} /\ porto[s] \in Porti
  BY <1>0, <1>1, ScaricaStiva
<1>3. /\ pc[s] = "scarica" /\ pc'[s] = "dumpScarico" /\ scarico[s].val = 0
      /\ merceDump' = merceDump
  BY <1>0, Tipi DEF ScaricaMercato, Vai, InvMerci, Locale, ScaricoVuoto, dump
<1>4. ~NonRegistrato(s) /\ ~NonRegistrato(s)'
  BY <1>3 DEF NonRegistrato
<1>5. carico[s][g] \in Nat /\ m \in Nat
  BY <1>0, <1>2, Tipi
<1>6. carico'[s][g] = carico[s][g] - m
  BY <1>2, <1>5
<1>7. /\ NonSegnato(s, g) = 0 /\ NonSegnato(s, g)' = 0
      /\ Segnato(s, g) = carico[s][g] /\ Segnato(s, g)' = carico[s][g] - m
      /\ Tolto(s, g) = 0 /\ Tolto(s, g)' = m
  BY <1>2, <1>3, <1>4, <1>6 DEF NonSegnato, Segnato, Tolto
<1>8. Offerto(g)' = Offerto(g)
  <2>1. ASSUME NEW p \in Porti PROVE Offerta(mercato'[p][g]) = Offerta(mercato[p][g])
    <3>1. mercato[p][g] \in Int
      BY <1>0, Tipi
    <3>2. CASE p = porto[s] /\ g = h
      BY <1>2, <3>1, <3>2 DEF Offerta
    <3>3. CASE ~(p = porto[s] /\ g = h)
      BY <1>2, <3>3
    <3> QED
      BY <3>2, <3>3
  <2> QED
    BY <1>0, <2>1, OffertoFermo
<1> HIDE DEF m, n
<1>9. /\ NonSegnati(g)' = NonSegnati(g) - NonSegnato(s, g) + NonSegnato(s, g)'
      /\ Segnati(g)' = Segnati(g) - Segnato(s, g) + Segnato(s, g)'
      /\ Tolti(g)' = Tolti(g) - Tolto(s, g) + Tolto(s, g)'
  BY <1>0, SegnatiCambiano
<1>10. NonSegnati(g)' = NonSegnati(g) /\ Segnati(g)' = Segnati(g) - m /\ Tolti(g)' = Tolti(g) + m
  BY <1>0, <1>5, <1>7, <1>9, SegnatiTipi
<1> QED
  BY <1>0, <1>3, <1>5, <1>8, <1>10, SegnatiTipi DEF ScartiFermi, ScartoPorto, ScartoNave

LEMMA ScartoScriviCarico ==
  ASSUME InvMerci, IInv', NEW s \in Navi, Passo(s), ScriviDumpCarico(s), NEW g \in Merci
  PROVE  ScartiFermi(g)
<1>0. IInv /\ SoloSue(s)
  BY PassoSoloSue DEF InvMerci, Inv
<1>1. /\ pc[s] = "scriviCarico" /\ pc'[s] = "carica" /\ carico' = carico /\ mercato' = mercato
      /\ scarico' = scarico
  BY <1>0, Tipi DEF ScriviDumpCarico, Vai, merci, stiva
<1>2. NonRegistrato(s) /\ ~NonRegistrato(s)'
  BY <1>1 DEF NonRegistrato, AlMercato
<1>3. /\ NonSegnato(s, g) = carico[s][g] /\ NonSegnato(s, g)' = 0
      /\ Segnato(s, g) = 0 /\ Segnato(s, g)' = carico[s][g]
      /\ Tolto(s, g)' = Tolto(s, g) /\ carico[s][g] \in Nat
  BY <1>0, <1>1, <1>2, Tipi DEF NonSegnato, Segnato, Tolto
<1>4. /\ NonSegnati(g)' = NonSegnati(g) - NonSegnato(s, g) + NonSegnato(s, g)'
      /\ Segnati(g)' = Segnati(g) - Segnato(s, g) + Segnato(s, g)'
      /\ Tolti(g)' = Tolti(g) - Tolto(s, g) + Tolto(s, g)'
  BY <1>0, SegnatiCambiano
<1>5. /\ NonSegnati(g)' = NonSegnati(g) - carico[s][g] /\ Segnati(g)' = Segnati(g) + carico[s][g]
      /\ Tolti(g)' = Tolti(g)
  BY <1>0, <1>3, <1>4, SegnatiTipi
<1>6. Offerto(g)' = Offerto(g)
  BY <1>0, <1>1, OffertoFermo
<1>7. /\ merceDump'[g]["presente_in_nave"] = merceDump[g]["presente_in_nave"] + carico[s][g]
      /\ merceDump'[g]["presente_in_porto"] = merceDump[g]["presente_in_porto"] - carico[s][g]
  BY ScriviCaricoPezzi
<1> QED
  BY <1>0, <1>3, <1>5, <1>6, <1>7, SegnatiTipi DEF ScartiFermi, ScartoPorto, ScartoNave

LEMMA ScartoScriviScarico ==
  ASSUME InvMerci, IInv', NEW s \in Navi, Passo(s), ScriviDumpScarico(s), NEW g \in Merci
  PROVE  ScartiFermi(g)
<1>0. IInv /\ SoloSue(s)
  BY PassoSoloSue DEF InvMerci, Inv
<1>1. /\ pc[s] = "scriviScarico" /\ pc'[s] = "scarica" /\ carico' = carico /\ mercato' = mercato
      /\ scarico'[s].val = 0
  BY <1>0, Tipi DEF ScriviDumpScarico, Vai, merci, stiva
<1> DEFINE m == IF g = scarico[s].indice THEN scarico[s].val ELSE 0
<1>2. /\ NonSegnato(s, g) = 0 /\ NonSegnato(s, g)' = 0
      /\ Segnato(s, g)' = Segnato(s, g) /\ Tolto(s, g) = m /\ Tolto(s, g)' = 0
  BY <1>1 DEF NonSegnato, Segnato, Tolto, NonRegistrato
<1>3. /\ NonSegnati(g)' = NonSegnati(g) - NonSegnato(s, g) + NonSegnato(s, g)'
      /\ Segnati(g)' = Segnati(g) - Segnato(s, g) + Segnato(s, g)'
      /\ Tolti(g)' = Tolti(g) - Tolto(s, g) + Tolto(s, g)'
  BY <1>0, SegnatiCambiano
<1>4. m \in Nat
  BY <1>0, SegnatiTipi
<1>5. /\ merceDump'[g]["presente_in_nave"] = merceDump[g]["presente_in_nave"] - m
      /\ merceDump'[g]["presente_in_porto"] = merceDump[g]["presente_in_porto"]
  BY ScriviScaricoPezzi
<1> HIDE DEF m
<1>6. NonSegnati(g)' = NonSegnati(g) /\ Segnati(g)' = Segnati(g) /\ Tolti(g)' = Tolti(g) - m
  BY <1>0, <1>2, <1>3, <1>4, SegnatiTipi
<1>7. Offerto(g)' = Offerto(g)
  BY <1>0, <1>1, OffertoFermo
<1> QED
  BY <1>0, <1>4, <1>5, <1>6, <1>7, SegnatiTipi DEF ScartiFermi, ScartoPorto, ScartoNave

LEMMA ScartoPasso ==
  ASSUME InvMerci, IInv', NEW s \in Navi, Passo(s), NEW g \in Merci
  PROVE  ScartiFermi(g)
<1>0. IInv /\ SoloSue(s)
  BY PassoSoloSue DEF InvMerci, Inv
<1>1. ASSUME /\ NonSegnato(s, g)' = NonSegnato(s, g) /\ Segnato(s, g)' = Segnato(s, g)
             /\ Tolto(s, g)' = Tolto(s, g) /\ mercato' = mercato /\ merceDump' = merceDump
      PROVE  ScartiFermi(g)
  <2>1. Offerto(g)' = Offerto(g)
    BY <1>0, <1>1, OffertoFermo
  <2>2. NonSegnati(g)' = NonSegnati(g) /\ Segnati(g)' = Segnati(g) /\ Tolti(g)' = Tolti(g)
    BY <1>0, <1>1, SegnatiTipi, SegnatiCambiano
  <2> QED
    BY <1>1, <2>1, <2>2 DEF ScartiFermi, ScartoPorto, ScartoNave
<1>2. CASE FineScarico(s)
  <2>1. /\ pc[s] = "scarica" /\ pc'[s] = "mercato" /\ carico' = carico /\ scarico' = scarico
        /\ mercato' = mercato /\ merceDump' = merceDump
    BY <1>0, <1>2, Tipi DEF FineScarico, Vai, dump
  <2> QED
    BY <1>1, <2>1 DEF NonSegnato, Segnato, Tolto, NonRegistrato, AlMercato
<1>3. CASE ~MuoveLotti(s)
  BY <1>0, <1>1, <1>3, SegnatoFermo, StivaFerma, DumpMerciFermo DEF MuoveLotti
<1> QED
  BY <1>2, <1>3, ScartoCarica, ScartoScarica, ScartoScriviCarico, ScartoScriviScarico
     DEF MuoveLotti, ToccaStiva, ScriveMerci

\* The scraps: none before the end, and afterwards the dump may only count
\* aboard what killed ships had.
Scarti == \A g \in Merci : /\ ScartoNave(g) >= 0
                           /\ InCorso => ScartoNave(g) = 0 /\ ScartoPorto(g) = 0

LEMMA ScartiPasso ==
  ASSUME InvMerci, Scarti, [Next]_vars
  PROVE  Scarti'
<1>0. IInv /\ IInv'
  BY NextIInv DEF InvMerci, Inv
<1> SUFFICES ASSUME NEW g \in Merci
             PROVE  /\ ScartoNave(g)' >= 0
                    /\ InCorso' => ScartoNave(g)' = 0 /\ ScartoPorto(g)' = 0
  BY DEF Scarti
<1>1. /\ ScartoNave(g) >= 0
      /\ InCorso => ScartoNave(g) = 0 /\ ScartoPorto(g) = 0
  BY DEF Scarti
<1>2. CASE Ferme /\ (InCorso' => InCorso)
  <2>1. ScartoNave(g)' = ScartoNave(g) /\ ScartoPorto(g)' = ScartoPorto(g)
    BY <1>2 DEF Ferme, merci, stiva, dump, ScartoNave, ScartoPorto, Offerto, NonSegnati, Segnati,
                Tolti, NonSegnato, Segnato, Tolto, NonRegistrato
  <2> QED
    BY <1>1, <1>2, <2>1
<1>3. ASSUME NEW s \in Navi, Passo(s)
      PROVE  /\ ScartoNave(g)' >= 0
             /\ InCorso' => ScartoNave(g)' = 0 /\ ScartoPorto(g)' = 0
  <2>1. InCorso' => InCorso
    BY <1>0, <1>3, SoloSigusr2Esce DEF giornata, InCorso
  <2> QED
    BY <1>0, <1>1, <1>3, <2>1, ScartoPasso DEF ScartiFermi
<1>4. ASSUME NEW s \in Navi, Sigusr2(s)
      PROVE  /\ ScartoNave(g)' >= 0
             /\ InCorso' => ScartoNave(g)' = 0 /\ ScartoPorto(g)' = 0
  <2>0. SoloSue(s)
    BY <1>0, <1>4, PassoSoloSue
  <2>1. ~InCorso' /\ pc'[s] = "uscita" /\ merceDump' = merceDump
    BY <1>0, <1>4, Tipi DEF Sigusr2, altrove, giornata, InCorso, Vai, dump
  <2>2. Segnato(s, g)' = 0 /\ Tolto(s, g)' = 0
    BY <2>1 DEF Segnato, Tolto
  <2>3. /\ Segnati(g)' = Segnati(g) - Segnato(s, g)
        /\ Tolti(g)' = Tolti(g) - Tolto(s, g)
    BY <1>0, <2>0, <2>2, SegnatiCambiano, SegnatiTipi
  <2>4. ScartoNave(g)' = ScartoNave(g) + Segnato(s, g) + Tolto(s, g)
    BY <1>0, <2>1, <2>3, SegnatiTipi DEF ScartoNave
  <2>5. ScartoNave(g) \in Int /\ Segnato(s, g) \in Nat /\ Tolto(s, g) \in Nat
    BY <1>0, SegnatiTipi DEF ScartoNave
  <2> QED
    BY <1>1, <2>1, <2>4, <2>5
<1> QED
  BY <1>2, <1>3, <1>4, ChiMuove

LEMMA InitScarti == Init => Scarti
<1> SUFFICES ASSUME Init, NEW g \in Merci PROVE ScartoNave(g) = 0 /\ ScartoPorto(g) = 0
  BY DEF Scarti
<1>0. IInv
  BY InitIInv
<1>1. \A s \in Navi : NonSegnato(s, g) = 0 /\ Segnato(s, g) = 0 /\ Tolto(s, g) = 0
  BY DEF Init, NonSegnato, Segnato, Tolto
<1>2. NonSegnati(g) = 0 /\ Segnati(g) = 0 /\ Tolti(g) = 0
  <2> DEFINE e == [s \in Navi |-> NonSegnato(s, g)]
             f == [s \in Navi |-> Segnato(s, g)]
             h == [s \in Navi |-> Tolto(s, g)]
  <2>1. e \in [Navi -> Nat] /\ f \in [Navi -> Nat] /\ h \in [Navi -> Nat]
    BY <1>1
  <2>2. \A s \in Navi : e[s] = 0 /\ f[s] = 0 /\ h[s] = 0
    BY <1>1
  <2>3. NonSegnati(g) = Somma(e) /\ Segnati(g) = Somma(f) /\ Tolti(g) = Somma(h)
    BY DEF NonSegnati, Segnati, Tolti
  <2> HIDE DEF e, f, h
  <2>4. Somma(e) = 0 /\ Somma(f) = 0 /\ Somma(h) = 0
    BY <2>1, <2>2, SommaZero
  <2> QED
    BY <2>3, <2>4
<1>3. merceDump[g]["presente_in_porto"] = Offerto(g) /\ merceDump[g]["presente_in_nave"] = 0
  BY DEF Init, InitMerce, CampiMerce, Offerto
<1> QED
  BY <1>0, <1>2, <1>3, SegnatiTipi DEF ScartoNave, ScartoPorto

LEMMA ScartiBastano ==
  ASSUME InvMerci, Scarti
  PROVE  MerceContata
<1> SUFFICES ASSUME InCorso, NEW g \in Merci
             PROVE  /\ merceDump[g]["presente_in_porto"] = Offerto(g) + NonSegnati(g)
                    /\ merceDump[g]["presente_in_nave"] =
                         Somma([s \in Navi |-> IF NonRegistrato(s) THEN 0 ELSE carico[s][g]])
                         + Somma([s \in Navi |-> IF scarico[s].indice = g THEN scarico[s].val ELSE 0])
  BY DEF MerceContata, Offerto, NonSegnati, NonSegnato
<1>1. ScartoNave(g) = 0 /\ ScartoPorto(g) = 0
  BY DEF Scarti
<1>2. \A s \in Navi : pc[s] # "uscita"
  BY DEF InvMerci, NessunaUscita
<1>3. /\ Somma([s \in Navi |-> IF NonRegistrato(s) THEN 0 ELSE carico[s][g]]) = Segnati(g)
      /\ Somma([s \in Navi |-> IF scarico[s].indice = g THEN scarico[s].val ELSE 0]) = Tolti(g)
  <2>1. /\ [s \in Navi |-> IF NonRegistrato(s) THEN 0 ELSE carico[s][g]]
             = [s \in Navi |-> Segnato(s, g)]
        /\ [s \in Navi |-> IF scarico[s].indice = g THEN scarico[s].val ELSE 0]
             = [s \in Navi |-> Tolto(s, g)]
    BY <1>2 DEF Segnato, Tolto
  <2> QED
    BY <2>1 DEF Segnati, Tolti
<1>4. IInv
  BY DEF InvMerci, Inv
<1>5. /\ merceDump[g]["presente_in_porto"] = Offerto(g) + NonSegnati(g)
      /\ merceDump[g]["presente_in_nave"] = Segnati(g) + Tolti(g)
  BY <1>1, <1>4, SegnatiTipi DEF ScartoNave, ScartoPorto
<1> QED
  BY <1>3, <1>5

LEMMA SempreScarti == Spec => []Scarti
<1>1. InvMerci /\ Scarti /\ [Next]_vars => Scarti'
  BY ScartiPasso
<1> QED
  BY SempreInvMerci, InitScarti, <1>1, PTL DEF Spec

\* The dump counts every lot right, at every moment before the end, for any
\* number of ships: "in port" is the offers and what is being loaded, "aboard"
\* what the recorded holds carry and what is being unloaded, although the
\* market, the hold and the dump are written in different steps under
\* different semaphores (nave.c:142-149, 229-234; nave_lib.c:53-87, 113-147).
THEOREM MerceSempreContata == Spec => []MerceContata
<1>1. InvMerci /\ Scarti => MerceContata
  BY ScartiBastano
<1> QED
  BY SempreInvMerci, SempreScarti, <1>1, PTL

-----------------------------------------------------------------------------
(* The totals of the ports against the totals of the goods. *)

\* Lots the dump counts as shipped and not received: aboard, or expired there.
Fuori(g) == merceDump[g]["presente_in_nave"] + merceDump[g]["scaduta_in_nave"]

\* No counter of the balance is negative.  (A sum counts the units of its
\* terms, so a negative one would not be seen.)
LibriNat ==
  /\ \A g \in Merci : merceDump[g]["presente_in_nave"] \in Nat
                      /\ merceDump[g]["scaduta_in_nave"] \in Nat
  /\ \A p \in Porti : portoDump[p]["mercespedita"] \in Nat
                      /\ portoDump[p]["mercericevuta"] \in Nat

\* What only grows, from zero.
CrescentiNat ==
  /\ \A g \in Merci : merceDump[g]["scaduta_in_nave"] >= 0
  /\ \A p \in Porti : portoDump[p]["mercespedita"] >= 0 /\ portoDump[p]["mercericevuta"] >= 0

LEMMA CrescentiTipi ==
  ASSUME IInv
  PROVE  /\ \A g \in Merci : /\ merceDump[g]["scaduta_in_nave"] \in Int
                             /\ merceDump[g]["presente_in_nave"] \in Int
         /\ \A p \in Porti : /\ portoDump[p]["mercespedita"] \in Int
                             /\ portoDump[p]["mercericevuta"] \in Int
BY Tipi DEF CampiMerce, CampiPorto

LEMMA CrescentiNatPasso ==
  ASSUME InvMerci, CrescentiNat, [Next]_vars
  PROVE  CrescentiNat'
<1>1. ConservaDump
  BY DumpConservatoPasso
<1>2. IInv /\ IInv'
  BY NextIInv DEF InvMerci, Inv
<1>3. /\ \A g \in Merci : /\ merceDump[g]["scaduta_in_nave"] \in Int
                          /\ merceDump'[g]["scaduta_in_nave"] \in Int
      /\ \A p \in Porti : /\ portoDump[p]["mercespedita"] \in Int
                          /\ portoDump'[p]["mercespedita"] \in Int
                          /\ portoDump[p]["mercericevuta"] \in Int
                          /\ portoDump'[p]["mercericevuta"] \in Int
  <2>1. /\ merceDump \in [Merci -> [CampiMerce -> Int]] /\ merceDump' \in [Merci -> [CampiMerce -> Int]]
        /\ portoDump \in [Porti -> [CampiPorto -> Int]] /\ portoDump' \in [Porti -> [CampiPorto -> Int]]
    BY <1>2 DEF IInv, TypeOK
  <2> QED
    BY <2>1 DEF CampiMerce, CampiPorto
<1>4. /\ \A g \in Merci : merceDump'[g]["scaduta_in_nave"] >= merceDump[g]["scaduta_in_nave"]
      /\ \A p \in Porti : /\ portoDump'[p]["mercespedita"] >= portoDump[p]["mercespedita"]
                          /\ portoDump'[p]["mercericevuta"] >= portoDump[p]["mercericevuta"]
  BY <1>1 DEF ConservaDump
<1> QED
  BY <1>3, <1>4 DEF CrescentiNat

LEMMA SempreCrescentiNat == Spec => []CrescentiNat
<1>1. Init => CrescentiNat
  BY DEF Init, InitMerce, CrescentiNat, CampiMerce, CampiPorto
<1>2. InvMerci /\ CrescentiNat /\ [Next]_vars => CrescentiNat'
  BY CrescentiNatPasso
<1> QED
  BY SempreInvMerci, <1>1, <1>2, PTL DEF Spec

LEMMA LibriNonNegativi ==
  ASSUME IInv, Scarti, CrescentiNat
  PROVE  LibriNat
<1>1. ASSUME NEW g \in Merci PROVE merceDump[g]["presente_in_nave"] \in Nat
  BY <1>1, SegnatiTipi DEF Scarti, ScartoNave
<1> QED
  BY <1>1, CrescentiTipi DEF LibriNat, CrescentiNat

\* A balance of the books over ports and goods: a step that adds a to the
\* shipped, b to the received and c to what is out keeps a = b + c.
LEMMA BilancioCambia ==
  ASSUME NEW p \in Porti,
         NEW a \in Nat, NEW b \in Nat,
         LibriNat, LibriNat', BilancioPorti,
         \A q \in Porti :
           /\ portoDump'[q]["mercespedita"] =
                portoDump[q]["mercespedita"] + (IF q = p THEN a ELSE 0)
           /\ portoDump'[q]["mercericevuta"] =
                portoDump[q]["mercericevuta"] + (IF q = p THEN b ELSE 0),
         a + Somma([g \in Merci |-> Fuori(g)]) = b + Somma([g \in Merci |-> Fuori(g)'])
  PROVE  BilancioPorti'
<1> DEFINE f == [q \in Porti |-> portoDump[q]["mercespedita"]]
           f1 == [q \in Porti |-> portoDump'[q]["mercespedita"]]
           h == [q \in Porti |-> portoDump[q]["mercericevuta"]]
           h1 == [q \in Porti |-> portoDump'[q]["mercericevuta"]]
           w == [g \in Merci |-> Fuori(g)]
           w1 == [g \in Merci |-> Fuori(g)']
<1>1. /\ f \in [Porti -> Nat] /\ f1 \in [Porti -> Nat] /\ h \in [Porti -> Nat] /\ h1 \in [Porti -> Nat]
      /\ w \in [Merci -> Nat] /\ w1 \in [Merci -> Nat]
  BY DEF LibriNat, Fuori
<1>2. /\ \A q \in Porti \ {p} : f1[q] = f[q] /\ h1[q] = h[q]
      /\ f1[p] = f[p] + a /\ h1[p] = h[p] + b
  BY DEF LibriNat
<1>3. /\ SpeditaOvunque = Somma(f) /\ SpeditaOvunque' = Somma(f1)
      /\ RicevutaOvunque = Somma(h) /\ RicevutaOvunque' = Somma(h1)
      /\ Somma([g \in Merci |-> merceDump[g]["presente_in_nave"]
                                + merceDump[g]["scaduta_in_nave"]]) = Somma(w)
      /\ Somma([g \in Merci |-> merceDump'[g]["presente_in_nave"]
                                + merceDump'[g]["scaduta_in_nave"]]) = Somma(w1)
  BY DEF SpeditaOvunque, RicevutaOvunque, Fuori
<1>4. a + Somma(w) = b + Somma(w1)
  OBVIOUS
<1> HIDE DEF f, f1, h, h1, w, w1
<1>5. Somma(f) \in Nat /\ Somma(h) \in Nat /\ Somma(w) \in Nat /\ Somma(w1) \in Nat
  BY <1>1, MerciFinite, UnitaFinita
<1>6. f[p] \in Nat /\ h[p] \in Nat
  BY <1>1
<1>7. Somma(f1) = Somma(f) - f[p] + f1[p]
  BY <1>1, <1>2, MerciFinite, SommaCambia
<1>8. Somma(h1) = Somma(h) - h[p] + h1[p]
  BY <1>1, <1>2, MerciFinite, SommaCambia
<1>9. Somma(f) = Somma(h) + Somma(w)
  BY <1>3 DEF BilancioPorti
<1>10. Somma(f1) = Somma(h1) + Somma(w1)
  BY <1>2, <1>4, <1>5, <1>6, <1>7, <1>8, <1>9
<1> QED
  BY <1>3, <1>10 DEF BilancioPorti

LEMMA BilancioCarico ==
  ASSUME InvMerci, LibriNat, LibriNat', BilancioPorti, NEW s \in Navi, ScriviDumpCarico(s)
  PROVE  BilancioPorti'
<1>0. IInv /\ porto[s] \in Porti /\ carico[s] \in [Merci -> Nat]
  BY Tipi DEF InvMerci, Inv
<1>1. Somma(carico[s]) \in Nat
  BY ScriviCaricoPezzi
<1>2. \A q \in Porti :
        /\ portoDump'[q]["mercespedita"] =
             portoDump[q]["mercespedita"] + (IF q = porto[s] THEN Somma(carico[s]) ELSE 0)
        /\ portoDump'[q]["mercericevuta"] =
             portoDump[q]["mercericevuta"] + (IF q = porto[s] THEN 0 ELSE 0)
  BY ScriviCaricoPezzi DEF LibriNat
<1>3. Somma(carico[s]) + Somma([g \in Merci |-> Fuori(g)])
        = 0 + Somma([g \in Merci |-> Fuori(g)'])
  <2> DEFINE w == [g \in Merci |-> Fuori(g)]
             w1 == [g \in Merci |-> Fuori(g)']
  <2>1. w \in [Merci -> Nat] /\ w1 \in [Merci -> Nat]
    BY DEF LibriNat, Fuori
  <2>2. \A g \in Merci : w1[g] = w[g] + carico[s][g]
    BY <1>0, ScriviCaricoPezzi DEF Fuori, LibriNat
  <2> HIDE DEF w, w1
  <2>3. Somma(w1) = Somma(w) + Somma(carico[s])
    BY <1>0, <2>1, <2>2, MerciFinite, SommaPiu
  <2>4. Somma(w) \in Nat
    BY <2>1, MerciFinite, UnitaFinita
  <2>5. Somma(carico[s]) + Somma(w) = 0 + Somma(w1)
    BY <1>1, <2>3, <2>4
  <2> QED
    BY <2>5 DEF w, w1
<1> QED
  BY <1>0, <1>1, <1>2, <1>3, BilancioCambia

LEMMA BilancioScarico ==
  ASSUME InvMerci, LibriNat, LibriNat', BilancioPorti, NEW s \in Navi, ScriviDumpScarico(s)
  PROVE  BilancioPorti'
<1> DEFINE h == scarico[s].indice
           n == scarico[s].val
           b == IF Scaduta(s, h) THEN 0 ELSE n
<1>0. IInv /\ porto[s] \in Porti /\ h \in Merci /\ n \in Nat /\ b \in Nat
  BY Tipi DEF InvMerci, Inv
<1>1. \A q \in Porti :
        /\ portoDump'[q]["mercespedita"] =
             portoDump[q]["mercespedita"] + (IF q = porto[s] THEN 0 ELSE 0)
        /\ portoDump'[q]["mercericevuta"] =
             portoDump[q]["mercericevuta"] + (IF q = porto[s] THEN b ELSE 0)
  BY ScriviScaricoPezzi DEF LibriNat
<1>2. 0 + Somma([g \in Merci |-> Fuori(g)]) = b + Somma([g \in Merci |-> Fuori(g)'])
  <2> DEFINE w == [g \in Merci |-> Fuori(g)]
             w1 == [g \in Merci |-> Fuori(g)']
  <2>1. w \in [Merci -> Nat] /\ w1 \in [Merci -> Nat]
    BY DEF LibriNat, Fuori
  <2>2. \A g \in Merci \ {h} : w1[g] = w[g]
    BY ScriviScaricoPezzi DEF Fuori, LibriNat
  <2>3. w1[h] = w[h] - b
    BY <1>0, ScriviScaricoPezzi DEF Fuori, LibriNat
  <2> HIDE DEF w, w1
  <2>4. Somma(w1) = Somma(w) - w[h] + w1[h]
    BY <1>0, <2>1, <2>2, MerciFinite, SommaCambia
  <2>5. Somma(w) \in Nat /\ w[h] \in Nat
    BY <1>0, <2>1, MerciFinite, UnitaFinita
  <2>6. 0 + Somma(w) = b + Somma(w1)
    BY <1>0, <2>3, <2>4, <2>5
  <2> QED
    BY <2>6 DEF w, w1
<1> HIDE DEF b
<1> QED
  BY <1>0, <1>1, <1>2, BilancioCambia

LEMMA BilancioPortiPasso ==
  ASSUME InvMerci, LibriNat, LibriNat', BilancioPorti, [Next]_vars
  PROVE  BilancioPorti'
<1>1. CASE merceDump' = merceDump /\ portoDump' = portoDump
  BY <1>1 DEF BilancioPorti, SpeditaOvunque, RicevutaOvunque
<1>2. CASE Ferme
  BY <1>1, <1>2 DEF Ferme, dump
<1>3. ASSUME NEW s \in Navi, Passo(s) \/ Sigusr2(s) PROVE BilancioPorti'
  BY <1>1, <1>3, DumpMerciFermo, BilancioCarico, BilancioScarico DEF ScriveMerci
<1> QED
  BY <1>2, <1>3, ChiMuove

LEMMA InitBilancioPorti == Init => BilancioPorti
<1> SUFFICES ASSUME Init PROVE BilancioPorti
  OBVIOUS
<1> DEFINE f == [q \in Porti |-> portoDump[q]["mercespedita"]]
           h == [q \in Porti |-> portoDump[q]["mercericevuta"]]
           w == [g \in Merci |-> merceDump[g]["presente_in_nave"]
                                 + merceDump[g]["scaduta_in_nave"]]
<1>1. /\ \A q \in Porti : f[q] = 0 /\ h[q] = 0
      /\ \A g \in Merci : w[g] = 0
  BY DEF Init, InitMerce, CampiMerce, CampiPorto
<1>2. f \in [Porti -> Nat] /\ h \in [Porti -> Nat] /\ w \in [Merci -> Nat]
  BY <1>1
<1>3. SpeditaOvunque = Somma(f) /\ RicevutaOvunque = Somma(h)
  BY DEF SpeditaOvunque, RicevutaOvunque
<1>4. BilancioPorti <=> SpeditaOvunque = RicevutaOvunque + Somma(w)
  BY DEF BilancioPorti
<1> HIDE DEF f, h, w
<1>5. Somma(f) = 0 /\ Somma(h) = 0 /\ Somma(w) = 0
  BY <1>1, <1>2, SommaZero
<1> QED
  BY <1>3, <1>4, <1>5

\* The books of the dump balance at every moment, the end included, for any
\* fleet: over all ports, the lots shipped are those received, those expired
\* aboard and those still aboard (nave_lib.c:62-83 and 120-143 write the two
\* sides, ships killed between a loading and an unloading included).
THEOREM BilancioSempre == Spec => []BilancioPorti
<1>1. InvMerci /\ Scarti /\ CrescentiNat => LibriNat
  BY LibriNonNegativi DEF InvMerci, Inv
<1>2. InvMerci /\ LibriNat /\ LibriNat' /\ BilancioPorti /\ [Next]_vars => BilancioPorti'
  BY BilancioPortiPasso
<1> QED
  BY SempreInvMerci, SempreScarti, SempreCrescentiNat, InitBilancioPorti, <1>1, <1>2, PTL
     DEF Spec

-----------------------------------------------------------------------------
(* Requests are unique, and a good is loaded once.                          *)

Stessa(a, b) == a.mtype = b.mtype /\ a.indicemerce = b.indicemerce

\* A request of a port for a good is in one place only: the splitting of a
\* request sends back the part not loaded and keeps nothing.
Unica ==
  /\ \A i, j \in DOMAIN coda : Stessa(coda[i], coda[j]) => i = j
  /\ \A i \in DOMAIN coda, s \in Navi : r[s] # NESSUNA => ~Stessa(coda[i], r[s])
  /\ \A s, q \in Navi : r[s] # NESSUNA /\ r[q] # NESSUNA /\ Stessa(r[s], r[q]) => s = q

LEMMA UnicaEstrae ==
  ASSUME InvMerci, IInv', Unica, NEW s \in Navi, AccettaPrima(s) \/ AccettaDest(s), SoloSue(s)
  PROVE  Unica'
<1>0. IInv /\ coda \in Seq(Richiesta) /\ r \in [Navi -> Richiesta \cup {NESSUNA}]
  BY Tipi DEF InvMerci, Inv
<1>1. PICK d \in DOMAIN coda : Estrai(s, d)
  BY ChiEstrae
<1>2. r'[s] = coda[d] /\ coda' = RemoveAt(coda, d) /\ \A q \in Navi \ {s} : r'[q] = r[q]
  BY <1>0, <1>1 DEF Estrai, SoloSue
<1> DEFINE K(i) == IF i < d THEN i ELSE i + 1
<1>3. /\ DOMAIN coda = 1 .. Len(coda) /\ Len(coda) \in Nat /\ d \in 1 .. Len(coda)
      /\ \A i \in 1 .. Len(coda) - 1 : coda'[i] = coda[K(i)]
  BY <1>0, <1>1, <1>2, RimossoLungo, LenProperties
<1>4. DOMAIN coda' = 1 .. Len(coda) - 1
  <2>1. coda' \in Seq(Richiesta) /\ Len(coda') = Len(coda) - 1
    BY <1>0, <1>1, <1>2, RimossoLungo DEF IInv, TypeOK
  <2> QED
    BY <2>1, LenProperties
<1>5. \A i \in DOMAIN coda' : K(i) \in DOMAIN coda /\ K(i) # d /\ coda'[i] = coda[K(i)]
  BY <1>3, <1>4
<1>6. \A i, j \in DOMAIN coda' : K(i) = K(j) => i = j
  BY <1>3, <1>4
<1> HIDE DEF K
<1>7. \A i, j \in DOMAIN coda' : Stessa(coda'[i], coda'[j]) => i = j
  BY <1>5, <1>6 DEF Unica
<1>8. ASSUME NEW i \in DOMAIN coda', NEW q \in Navi, r'[q] # NESSUNA
      PROVE  ~Stessa(coda'[i], r'[q])
  BY <1>2, <1>5, <1>8 DEF Unica
<1>9. ASSUME NEW q \in Navi, NEW t \in Navi, r'[q] # NESSUNA, r'[t] # NESSUNA, Stessa(r'[q], r'[t])
      PROVE  q = t
  <2>1. CASE q = s /\ t # s
    BY <1>2, <1>9, <2>1 DEF Unica
  <2>2. CASE q # s /\ t = s
    BY <1>2, <1>9, <2>2 DEF Unica, Stessa
  <2>3. CASE q # s /\ t # s
    BY <1>2, <1>9, <2>3 DEF Unica
  <2> QED
    BY <2>1, <2>2, <2>3
<1> QED
  BY <1>7, <1>8, <1>9 DEF Unica, Stessa

LEMMA UnicaInvia ==
  ASSUME InvMerci, Unica, NEW s \in Navi, RimandaPrima(s) \/ RimandaDest(s) \/ InviaResto(s),
         SoloSue(s)
  PROVE  Unica'
<1>0. IInv /\ coda \in Seq(Richiesta) /\ r \in [Navi -> Richiesta \cup {NESSUNA}]
  BY Tipi DEF InvMerci, Inv
<1>1. InviaRichiesta(s) /\ r[s] \in Richiesta /\ r[s] # NESSUNA
  BY <1>0, ChiInvia, RichiestaNonNessuna
<1>2. r'[s] = NESSUNA /\ coda' = Append(coda, r[s]) /\ \A q \in Navi \ {s} : r'[q] = r[q]
  BY <1>0, <1>1 DEF InviaRichiesta, SoloSue
<1> DEFINE n == Len(coda)
<1>3. /\ n \in Nat /\ DOMAIN coda = 1 .. n /\ DOMAIN coda' = 1 .. n + 1
      /\ coda'[n + 1] = r[s] /\ \A i \in 1 .. n : coda'[i] = coda[i]
  BY <1>0, <1>1, <1>2, AppendProperties, LenProperties
<1> HIDE DEF n
<1>4. ASSUME NEW i \in DOMAIN coda', NEW j \in DOMAIN coda', Stessa(coda'[i], coda'[j]) PROVE i = j
  <2>1. CASE i \in 1 .. n /\ j \in 1 .. n
    BY <1>3, <1>4, <2>1 DEF Unica
  <2>2. CASE i \in 1 .. n /\ j = n + 1
    BY <1>1, <1>3, <1>4, <2>2 DEF Unica
  <2>3. CASE i = n + 1 /\ j \in 1 .. n
    BY <1>1, <1>3, <1>4, <2>3 DEF Unica, Stessa
  <2> QED
    BY <1>3, <2>1, <2>2, <2>3
<1>5. ASSUME NEW i \in DOMAIN coda', NEW q \in Navi, r'[q] # NESSUNA PROVE ~Stessa(coda'[i], r'[q])
  <2>1. q # s /\ r'[q] = r[q]
    BY <1>2, <1>5
  <2>2. CASE i \in 1 .. n
    BY <1>3, <1>5, <2>1, <2>2 DEF Unica
  <2>3. CASE i = n + 1
    BY <1>1, <1>3, <1>5, <2>1, <2>3 DEF Unica
  <2> QED
    BY <1>3, <2>2, <2>3
<1>6. \A q, t \in Navi : r'[q] # NESSUNA /\ r'[t] # NESSUNA /\ Stessa(r'[q], r'[t]) => q = t
  BY <1>2 DEF Unica
<1> QED
  BY <1>4, <1>5, <1>6 DEF Unica, Stessa

LEMMA UnicaCarica ==
  ASSUME InvMerci, Unica, NEW s \in Navi, CaricaPrima(s) \/ CaricaDest(s), SoloSue(s)
  PROVE  Unica'
<1>0. IInv
  BY DEF InvMerci, Inv
<1>1. PICK n \in Nat : Carica(s, n)
  BY ChiCaricaDest
<1>2. /\ coda' = coda /\ r[s] # NESSUNA /\ \A q \in Navi \ {s} : r'[q] = r[q]
      /\ r'[s] = NESSUNA \/ Stessa(r'[s], r[s])
  BY <1>0, <1>1, CaricaPezzi, RichiestaNonNessuna, ChiCaricaDest, RestoPezzi DEF SoloSue, Stessa
<1> QED
  BY <1>2 DEF Unica, Stessa

LEMMA UnicaPasso ==
  ASSUME InvMerci, Unica, [Next]_vars
  PROVE  Unica'
<1>0. IInv /\ IInv'
  BY NextIInv DEF InvMerci, Inv
<1>1. ASSUME NEW s \in Navi, Passo(s) \/ Sigusr2(s) PROVE Unica'
  <2>1. SoloSue(s)
    BY <1>0, <1>1, PassoSoloSue
  <2>2. CASE ~ToccaRichieste(s)
    BY <1>0, <1>1, <2>2, RichiesteFerme DEF Unica, Stessa
  <2> QED
    BY <1>0, <2>1, <2>2, UnicaEstrae, UnicaInvia, UnicaCarica DEF ToccaRichieste
<1>2. CASE Ferme
  BY <1>2 DEF Ferme, merci, ricerca, Unica, Stessa
<1> QED
  BY <1>1, <1>2, ChiMuove

LEMMA InitUnica == Init => Unica
<1> SUFFICES ASSUME Init PROVE Unica
  OBVIOUS
<1>1. mercato \in Matrici /\ coda \in CodeDi(mercato)
  BY NaveAssumption DEF Init
<1>2. coda \in Bijection(1 .. Len(coda), RichiesteDi(mercato)) /\ Len(coda) \in Nat
  BY <1>1, CodaIniziale
<1>3. /\ DOMAIN coda = 1 .. Len(coda)
      /\ \A i \in 1 .. Len(coda) : coda[i] \in RichiesteDi(mercato)
      /\ \A i, j \in 1 .. Len(coda) : coda[i] = coda[j] => i = j
  BY <1>2, Fun_BijectionProperties
<1>4. \A a, b \in RichiesteDi(mercato) : Stessa(a, b) => a = b
  BY DEF RichiesteDi, Stessa
<1>5. \A s \in Navi : r[s] = NESSUNA
  BY DEF Init
<1> QED
  BY <1>3, <1>4, <1>5 DEF Unica

\* Nothing of the request of p for g is waiting or in hand.
Esaurita(p, g) ==
  /\ \A i \in DOMAIN coda : ~(coda[i].mtype = p /\ coda[i].indicemerce = g)
  /\ \A q \in Navi : ~(r[q].mtype = p /\ r[q].indicemerce = g)

LEMMA EsauritaPasso ==
  ASSUME InvMerci, [Next]_vars, NEW p \in Porti, NEW g \in Merci, Esaurita(p, g)
  PROVE  Esaurita(p, g)'
<1>0. /\ IInv /\ coda \in Seq(Richiesta) /\ r \in [Navi -> Richiesta \cup {NESSUNA}]
      /\ coda' \in Seq(Richiesta)
  BY NextIInv, Tipi DEF InvMerci, Inv, IInv, TypeOK
<1>n. ~(NESSUNA.mtype = p)
  BY NaveAssumption DEF NESSUNA, Porti
<1>1. ASSUME NEW s \in Navi, Passo(s) \/ Sigusr2(s) PROVE Esaurita(p, g)'
  <2>1. \A q \in Navi \ {s} : r'[q] = r[q]
    BY <1>0, <1>1, PassoSoloSue DEF SoloSue
  <2>2. CASE ~ToccaRichieste(s)
    BY <1>0, <1>1, <2>2, RichiesteFerme DEF Esaurita
  <2>3. CASE AccettaPrima(s) \/ AccettaDest(s)
    <3>1. PICK d \in DOMAIN coda : Estrai(s, d)
      BY <2>3, ChiEstrae
    <3>2. r'[s] = coda[d] /\ coda' = RemoveAt(coda, d)
      BY <1>0, <3>1 DEF Estrai
    <3>3. /\ DOMAIN coda = 1 .. Len(coda) /\ Len(coda) \in Nat /\ Len(coda') = Len(coda) - 1
          /\ DOMAIN coda' = 1 .. Len(coda')
          /\ \A i \in 1 .. Len(coda) - 1 : coda'[i] = coda[IF i < d THEN i ELSE i + 1]
      BY <1>0, <3>1, <3>2, RimossoLungo, LenProperties
    <3>4. \A i \in DOMAIN coda' : \E j \in DOMAIN coda : coda'[i] = coda[j]
      BY <3>3
    <3> QED
      BY <2>1, <3>2, <3>4 DEF Esaurita
  <2>4. CASE RimandaPrima(s) \/ RimandaDest(s) \/ InviaResto(s)
    <3>1. InviaRichiesta(s) /\ r[s] \in Richiesta
      BY <1>0, <2>4, ChiInvia
    <3>2. r'[s] = NESSUNA /\ coda' = Append(coda, r[s])
      BY <1>0, <3>1 DEF InviaRichiesta
    <3>3. /\ Len(coda) \in Nat /\ DOMAIN coda = 1 .. Len(coda) /\ DOMAIN coda' = 1 .. Len(coda) + 1
          /\ coda'[Len(coda) + 1] = r[s] /\ \A i \in 1 .. Len(coda) : coda'[i] = coda[i]
      BY <1>0, <3>1, <3>2, AppendProperties, LenProperties
    <3>4. \A i \in DOMAIN coda' : coda'[i] = r[s] \/ \E j \in DOMAIN coda : coda'[i] = coda[j]
      BY <3>3
    <3> QED
      BY <1>n, <2>1, <3>2, <3>4 DEF Esaurita
  <2>5. CASE CaricaPrima(s) \/ CaricaDest(s)
    <3>1. PICK n \in Nat : Carica(s, n)
      BY <2>5, ChiCaricaDest
    <3>2. coda' = coda /\ (r'[s] = NESSUNA \/ Stessa(r'[s], r[s]))
      BY <1>0, <2>5, <3>1, ChiCaricaDest, RestoPezzi DEF Stessa
    <3> QED
      BY <1>n, <2>1, <3>2 DEF Esaurita, Stessa
  <2> QED
    BY <2>2, <2>3, <2>4, <2>5 DEF ToccaRichieste
<1>2. CASE Ferme
  BY <1>2 DEF Ferme, merci, ricerca, Esaurita
<1> QED
  BY <1>1, <1>2, ChiMuove

\* Where a ship is between two loads.
Caricando == {"inviaResto", "cercaDest", "valutaDest", "controllaCarico", "inviaDest"}

\* A good aboard cannot be loaded a second time: no lot of it fits, or the
\* port has none left, or nobody asks for it at the destination any more.
NonRicarica(s) ==
  pc[s] \in Caricando => \A g \in Merci : carico[s][g] > 0 =>
    \/ Peso(g, 1) > spaziolibero[s]
    \/ mercato[porto[s]][g] <= 0
    \/ Esaurita(dest[s], g)

\* The same, of the next state.
EsauritaDopo(p, g) ==
  /\ \A i \in DOMAIN coda' : ~(coda'[i].mtype = p /\ coda'[i].indicemerce = g)
  /\ \A q \in Navi : ~(r'[q].mtype = p /\ r'[q].indicemerce = g)

Casella(s) ==
  ~InScarico(s) /\ pc[s] # "uscita" =>
    i_carico[s] = Cardinality({g \in Merci : carico[s][g] > 0})

\* What stays of the three reasons for a good that no step loads.
LEMMA NonRicaricaResta ==
  ASSUME InvMerci, [Next]_vars, NEW s \in Navi, NonRicarica(s), pc[s] \in Caricando,
         porto'[s] = porto[s], dest'[s] = dest[s],
         NEW g \in Merci, carico[s][g] > 0,
         spaziolibero'[s] <= spaziolibero[s]
  PROVE  \/ Peso(g, 1) > spaziolibero'[s]
         \/ mercato'[porto'[s]][g] <= 0
         \/ EsauritaDopo(dest'[s], g)
<1>0. IInv /\ IInv'
  BY NextIInv DEF InvMerci, Inv
<1>1. CASE Peso(g, 1) > spaziolibero[s]
  <2>1. Peso(g, 1) \in Nat /\ spaziolibero[s] \in Nat /\ spaziolibero'[s] \in Nat
    <3>1. 1 \in Nat
      OBVIOUS
    <3>2. spaziolibero[s] \in Nat /\ spaziolibero'[s] \in Nat
      BY <1>0 DEF IInv, TypeOK
    <3> QED
      BY <3>1, <3>2, PesoNat
  <2> QED
    BY <1>1, <2>1
<1>2. CASE mercato[porto[s]][g] <= 0
  <2>1. porto[s] \in Porti /\ mercato[porto[s]][g] \in Int /\ mercato'[porto[s]][g] \in Int
    <3>1. porto[s] \in Porti /\ mercato \in [Porti -> [Merci -> Int]]
      BY <1>0, Tipi
    <3>2. mercato' \in [Porti -> [Merci -> Int]]
      BY <1>0 DEF IInv, TypeOK, Matrici
    <3> QED
      BY <3>1, <3>2
  <2>2. VersoZero(mercato[porto[s]][g], mercato'[porto[s]][g])
    BY <1>0, <2>1, VersoZeroPasso
  <2> QED
    BY <1>2, <2>1, <2>2 DEF VersoZero
<1>3. CASE Esaurita(dest[s], g)
  <2>1. dest[s] \in Porti
    BY <1>0, Tipi
  <2> QED
    BY <1>3, <2>1, EsauritaPasso DEF Esaurita, EsauritaDopo
<1> QED
  BY <1>1, <1>2, <1>3 DEF NonRicarica

\* What is loaded is not loaded again.
LEMMA CaricatoEsaurito ==
  ASSUME InvMerci, Unica, NEW s \in Navi, NEW n \in Nat, Carica(s, n), SoloSue(s),
         coda' = coda, dest'[s] = r[s].mtype, porto'[s] = porto[s],
         NEW h, h = r[s].indicemerce
  PROVE  \/ Peso(h, 1) > spaziolibero'[s]
         \/ mercato'[porto'[s]][h] <= 0
         \/ EsauritaDopo(dest'[s], h)
<1>0. IInv
  BY DEF InvMerci, Inv
<1>1. /\ r[s] \in Richiesta /\ h \in Merci /\ r[s].mtype \in Porti /\ porto[s] \in Porti
      /\ n <= r[s].nlotti /\ r[s].nlotti \in Nat /\ n <= mercato[porto[s]][h]
      /\ n = r[s].nlotti \/ Peso(h, n + 1) > spaziolibero[s] \/ n + 1 > mercato[porto[s]][h]
  BY <1>0, CaricaPezzi
<1>2. /\ spaziolibero'[s] = spaziolibero[s] - Peso(h, n)
      /\ mercato'[porto[s]][h] = mercato[porto[s]][h] - n
  BY <1>0, CaricaStiva
<1>3. CASE n = r[s].nlotti
  <2>1. r'[s] = NESSUNA
    BY <1>0, <1>1, <1>3, RestoPezzi
  <2>2. r[s] # NESSUNA
    BY <1>1, RichiestaNonNessuna
  <2>3. ~(NESSUNA.mtype = r[s].mtype)
    BY <1>1, NaveAssumption DEF NESSUNA, Porti
  <2>4. \A i \in DOMAIN coda : ~(coda[i].mtype = r[s].mtype /\ coda[i].indicemerce = h)
    BY <2>2 DEF Unica, Stessa
  <2>5. ASSUME NEW q \in Navi PROVE ~(r'[q].mtype = r[s].mtype /\ r'[q].indicemerce = h)
    <3>1. CASE q = s
      BY <2>1, <2>3, <3>1
    <3>2. CASE q # s
      <4>1. r'[q] = r[q]
        BY <3>2 DEF SoloSue
      <4> QED
        BY <2>2, <2>3, <3>2, <4>1 DEF Unica, Stessa
    <3> QED
      BY <3>1, <3>2
  <2> QED
    BY <2>4, <2>5 DEF EsauritaDopo
<1>4. CASE Peso(h, n + 1) > spaziolibero[s]
  <2>0. 1 \in Nat
    OBVIOUS
  <2>1. Peso(h, n + 1) = Peso(h, n) + Peso(h, 1) /\ Peso(h, n) \in Nat /\ Peso(h, 1) \in Nat
    BY <1>1, <2>0, PesoPiu, PesoNat
  <2>2. spaziolibero[s] \in Nat
    BY <1>0, Tipi
  <2> QED
    BY <1>2, <1>4, <2>1, <2>2
<1>5. CASE n + 1 > mercato[porto[s]][h]
  <2>1. mercato[porto[s]][h] \in Int
    BY <1>0, <1>1, Tipi
  <2> QED
    BY <1>1, <1>2, <1>5, <2>1
<1> QED
  BY <1>1, <1>3, <1>4, <1>5

\* A good is not loaded twice.
LEMMA CaricaNuova ==
  ASSUME InvMerci, NEW s \in Navi, NonRicarica(s), NEW n \in Nat, Carica(s, n)
  PROVE  carico[s][r[s].indicemerce] = 0
<1>0. IInv
  BY DEF InvMerci, Inv
<1> DEFINE h == r[s].indicemerce
<1>1. /\ r[s] \in Richiesta /\ h \in Merci /\ r[s].mtype \in Porti
      /\ n >= 1 /\ n <= mercato[porto[s]][h] /\ Peso(h, n) <= spaziolibero[s]
      /\ porto[s] \in Porti
  BY <1>0, CaricaPezzi
<1>2. carico[s][h] \in Nat /\ mercato[porto[s]][h] \in Int /\ spaziolibero[s] \in Nat
  BY <1>0, <1>1, Tipi
<1>3. CASE pc[s] = "valuta"
  BY <1>1, <1>3 DEF InvMerci, Locale, StivaVuota, Vuote
<1>4. CASE pc[s] = "controllaCarico"
  <2>1. SUFFICES ASSUME carico[s][h] > 0 PROVE FALSE
    BY <1>2
  <2>2. pc[s] \in Caricando /\ r[s].mtype = dest[s]
    BY <1>4 DEF Caricando, InvMerci, Locale, Rotta
  <2>3. Peso(h, 1) <= spaziolibero[s]
    <3>1. n - 1 \in Nat /\ 1 \in Nat /\ n = 1 + (n - 1)
      BY <1>1
    <3>2. Peso(h, 1 + (n - 1)) = Peso(h, 1) + Peso(h, n - 1) /\ Peso(h, n - 1) \in Nat
          /\ Peso(h, 1) \in Nat
      BY <1>1, <3>1, PesoPiu, PesoNat
    <3> QED
      BY <1>1, <1>2, <3>1, <3>2
  <2>4. ~Esaurita(dest[s], h)
    BY <2>2 DEF Esaurita
  <2>5. Peso(h, 1) \in Nat
    <3>1. 1 \in Nat
      OBVIOUS
    <3> QED
      BY <1>1, <3>1, PesoNat
  <2> QED
    BY <1>1, <1>2, <2>1, <2>2, <2>3, <2>4, <2>5 DEF NonRicarica
<1> QED
  BY <1>3, <1>4 DEF Carica

\* A ship that is between two loads after a step and has not loaded was there
\* before it.
LEMMA RestaCaricando ==
  ASSUME IInv, NEW s \in Navi, Passo(s), ~CaricaPrima(s), ~CaricaDest(s), pc'[s] \in Caricando
  PROVE  pc[s] \in Caricando /\ porto' = porto /\ dest' = dest /\ ~ToccaStiva(s)
<1> USE Tipi DEF Vai, altrove, Caricando
<1>1. CASE RichiediBanchina(s) \/ RiservaMercato(s) \/ LasciaBanchina(s) \/ LeggiData(s)
  BY <1>1 DEF RichiediBanchina, RiservaMercato, LasciaBanchina, LeggiData
<1>2. CASE RiservaStato(s) \/ RiservaDump(s)
  BY <1>2 DEF RiservaStato, RiservaDump, AttesaStato
<1>3. CASE ScriviStato(s)
  BY <1>3 DEF ScriviStato, NelDump1
<1>4. CASE ScriviDumpCarico(s) \/ ScriviDumpScarico(s) \/ ScaricaMercato(s) \/ FineScarico(s)
  BY <1>4 DEF ScriviDumpCarico, ScriviDumpScarico, ScaricaMercato, FineScarico
<1>5. CASE AccettaPrima(s) \/ CodaVuota(s) \/ RifiutaPrima(s) \/ RimandaPrima(s) \/ Salta(s)
           \/ NessunaPerDest(s) \/ RilasciaMercato(s)
  BY <1>5 DEF AccettaPrima, CodaVuota, RifiutaPrima, RimandaPrima, Salta, NessunaPerDest,
              RilasciaMercato
<1>6. CASE InviaResto(s)
  BY <1>6 DEF InviaResto, ToccaStiva, CaricaPrima, CaricaDest, ScaricaMercato, FineScarico
<1>7. CASE AccettaDest(s)
  BY <1>7 DEF AccettaDest, ToccaStiva, CaricaPrima, CaricaDest, ScaricaMercato, FineScarico
<1>8. CASE ValutaDest(s)
  BY <1>8 DEF ValutaDest, ToccaStiva, CaricaPrima, CaricaDest, ScaricaMercato, FineScarico
<1>9. CASE RifiutaDest(s)
  BY <1>9 DEF RifiutaDest, ToccaStiva, CaricaPrima, CaricaDest, ScaricaMercato, FineScarico
<1>10. CASE ScartaDest(s)
  BY <1>10 DEF ScartaDest, ToccaStiva, CaricaPrima, CaricaDest, ScaricaMercato, FineScarico
<1>11. CASE RimandaDest(s)
  BY <1>11 DEF RimandaDest, ToccaStiva, CaricaPrima, CaricaDest, ScaricaMercato, FineScarico
<1> QED
  BY <1>1, <1>2, <1>3, <1>4, <1>5, <1>6, <1>7, <1>8, <1>9, <1>10, <1>11 DEF Passo

LEMMA CaricaPasso ==
  ASSUME InvMerci, [Next]_vars, Unica, NEW s \in Navi, CaricaPrima(s) \/ CaricaDest(s), SoloSue(s),
         NonRicarica(s), Casella(s)
  PROVE  NonRicarica(s)' /\ Casella(s)'
<1>0. IInv /\ IInv'
  BY NextIInv DEF InvMerci, Inv
<1>1. PICK n \in Nat : Carica(s, n)
  BY ChiCaricaDest
<1>2. /\ coda' = coda /\ dest'[s] = r[s].mtype /\ porto'[s] = porto[s]
      /\ dest' = dest \/ \A g \in Merci : carico[s][g] = 0
  BY ChiCaricaDest DEF CaricaPrima, CaricaDest, altrove
<1> DEFINE h == r[s].indicemerce
<1>3. /\ carico'[s] \in [Merci -> Nat] /\ carico'[s][h] = carico[s][h] + n
      /\ \A g \in Merci \ {h} : carico'[s][g] = carico[s][g]
      /\ spaziolibero'[s] = spaziolibero[s] - Peso(h, n) /\ i_carico'[s] = i_carico[s] + 1
      /\ h \in Merci /\ n >= 1
  BY <1>0, <1>1, CaricaStiva, CaricaPezzi
<1>4. carico[s][h] = 0
  BY <1>1, CaricaNuova
<1>5. NonRicarica(s)'
  <2> SUFFICES ASSUME NEW g \in Merci, carico'[s][g] > 0
               PROVE  \/ Peso(g, 1) > spaziolibero'[s]
                      \/ mercato'[porto'[s]][g] <= 0
                      \/ EsauritaDopo(dest'[s], g)
    BY DEF NonRicarica, Peso, Esaurita, EsauritaDopo
  <2>1. CASE g = h
    BY <1>1, <1>2, <2>1, CaricatoEsaurito
  <2>2. CASE g # h
    <3>1. carico[s][g] > 0
      BY <1>3, <2>2
    <3>2. dest'[s] = dest[s] /\ pc[s] # "valuta"
      BY <1>2, <3>1 DEF InvMerci, Locale, StivaVuota, Vuote
    <3>3. pc[s] \in Caricando
      BY <1>1, <3>2 DEF Carica, Caricando
    <3>4. spaziolibero'[s] <= spaziolibero[s]
      <4>1. Peso(h, n) \in Nat /\ spaziolibero[s] \in Nat
        BY <1>0, <1>3, PesoNat, Tipi
      <4> QED
        BY <1>3, <4>1
    <3> QED
      BY <1>2, <3>1, <3>2, <3>3, <3>4, NonRicaricaResta
  <2> QED
    BY <2>1, <2>2
<1>6. Casella(s)'
  <2> DEFINE A == {g \in Merci : carico[s][g] > 0}
             B == {g \in Merci : carico'[s][g] > 0}
  <2>1. ~InScarico(s) /\ pc[s] # "uscita"
    BY <1>1 DEF Carica, InScarico
  <2>2. i_carico[s] = Cardinality(A)
    BY <2>1 DEF Casella
  <2>3. B = A \cup {h} /\ h \notin A
    BY <1>3, <1>4
  <2>4. IsFiniteSet(A)
    <3>1. A \in SUBSET Merci
      OBVIOUS
    <3> QED
      BY <3>1, MerciFinite, FS_Subset
  <2>5. Cardinality(B) = Cardinality(A) + 1
    BY <2>3, <2>4, FS_AddElement
  <2>6. i_carico'[s] = Cardinality(B)
    BY <1>3, <2>2, <2>5
  <2> QED
    BY <2>6 DEF Casella
<1> QED
  BY <1>5, <1>6

LEMMA CasellePasso ==
  ASSUME InvMerci, Unica, [Next]_vars, \A s \in Navi : NonRicarica(s) /\ Casella(s)
  PROVE  \A s \in Navi : NonRicarica(s)' /\ Casella(s)'
<1>0. IInv /\ IInv'
  BY NextIInv DEF InvMerci, Inv
<1> SUFFICES ASSUME NEW s \in Navi PROVE NonRicarica(s)' /\ Casella(s)'
  OBVIOUS
\* A ship that does not load and whose hold stays.
<1>1. ASSUME carico'[s] = carico[s], spaziolibero'[s] = spaziolibero[s],
             pc'[s] \in Caricando =>
               pc[s] \in Caricando /\ porto'[s] = porto[s] /\ dest'[s] = dest[s]
      PROVE  NonRicarica(s)'
  <2> SUFFICES ASSUME pc'[s] \in Caricando, NEW g \in Merci, carico'[s][g] > 0
               PROVE  \/ Peso(g, 1) > spaziolibero'[s]
                      \/ mercato'[porto'[s]][g] <= 0
                      \/ EsauritaDopo(dest'[s], g)
    BY DEF NonRicarica, Peso, Esaurita, EsauritaDopo
  <2>1. spaziolibero'[s] <= spaziolibero[s]
    <3>1. spaziolibero[s] \in Nat
      BY <1>0, Tipi
    <3> QED
      BY <1>1, <3>1
  <2> QED
    BY <1>1, <2>1, NonRicaricaResta
<1>2. CASE Ferme
  BY <1>1, <1>2 DEF Ferme, merci, stiva, Casella, InScarico
<1>3. ASSUME NEW q \in Navi, Passo(q) \/ Sigusr2(q), q # s PROVE NonRicarica(s)' /\ Casella(s)'
  <2>1. /\ pc'[s] = pc[s] /\ porto'[s] = porto[s] /\ dest'[s] = dest[s] /\ carico'[s] = carico[s]
        /\ i_carico'[s] = i_carico[s] /\ spaziolibero'[s] = spaziolibero[s]
    BY <1>0, <1>3, PassoSoloSue DEF SoloSue
  <2> QED
    BY <1>1, <2>1 DEF Casella, InScarico
<1>4. CASE Sigusr2(s)
  <2>1. pc'[s] = "uscita"
    BY <1>0, <1>4, Tipi DEF Sigusr2, Vai
  <2> QED
    BY <2>1 DEF NonRicarica, Casella, Caricando
<1>5. CASE Passo(s)
  <2>1. CASE CaricaPrima(s) \/ CaricaDest(s)
    BY <1>0, <1>5, <2>1, PassoSoloSue, CaricaPasso
  <2>2. CASE ScaricaMercato(s)
    <3>1. pc'[s] = "dumpScarico"
      BY <1>0, <2>2, Tipi DEF ScaricaMercato, Vai
    <3> QED
      BY <3>1 DEF NonRicarica, Casella, Caricando, InScarico
  <2>3. CASE FineScarico(s)
    <3>1. /\ pc'[s] = "mercato" /\ i_carico'[s] = 0
          /\ \A g \in Merci : carico'[s][g] = 0
      BY <1>0, <2>3, Tipi DEF FineScarico, Vai
    <3>2. {g \in Merci : carico'[s][g] > 0} = {}
      BY <3>1
    <3> QED
      BY <3>1, <3>2, FS_EmptySet DEF NonRicarica, Casella, Caricando
  <2>4. CASE ~ToccaStiva(s)
    <3>1. UNCHANGED stiva /\ (InScarico(s) => InScarico(s)' \/ pc'[s] = "uscita")
      BY <1>0, <1>5, <2>4, StivaFerma
    <3>2. pc[s] # "uscita" /\ pc'[s] # "uscita"
      BY <1>0, <1>5, SoloSigusr2Esce
    <3>3. Casella(s)'
      BY <3>1, <3>2 DEF Casella, stiva
    <3>4. NonRicarica(s)'
      BY <1>0, <1>1, <1>5, <2>4, <3>1, RestaCaricando DEF stiva, ToccaStiva
    <3> QED
      BY <3>3, <3>4
  <2> QED
    BY <2>1, <2>2, <2>3, <2>4 DEF ToccaStiva
<1> QED
  BY <1>2, <1>3, <1>4, <1>5, ChiMuove

LEMMA InitCaselle == Init => \A s \in Navi : NonRicarica(s) /\ Casella(s)
<1> SUFFICES ASSUME Init, NEW s \in Navi PROVE NonRicarica(s) /\ Casella(s)
  OBVIOUS
<1>1. pc[s] = "inizio" /\ i_carico[s] = 0 /\ \A g \in Merci : carico[s][g] = 0
  BY DEF Init
<1>2. {g \in Merci : carico[s][g] > 0} = {}
  BY <1>1
<1> QED
  BY <1>1, <1>2, FS_EmptySet DEF NonRicarica, Casella, Caricando

Caselle == \A s \in Navi : NonRicarica(s) /\ Casella(s)

\* For any fleet and any capacity, a ship uses one slot of carico[] per good:
\* the rest of a request, sent back to the queue and read again, is never
\* loaded into a second slot (nave.c:133-149, 196-234).
THEOREM UnaCasellaSempre == Spec => []UnaCasellaPerMerce
<1>1. InvMerci /\ Unica /\ [Next]_vars => Unica'
  BY UnicaPasso
<1>2. InvMerci /\ Unica /\ Caselle /\ [Next]_vars => Caselle'
  BY CasellePasso DEF Caselle
<1>3. Caselle => UnaCasellaPerMerce
  BY DEF Caselle, Casella, UnaCasellaPerMerce, Conta
<1>4. Init => Caselle
  BY InitCaselle DEF Caselle
<1> QED
  BY SempreInvMerci, InitUnica, <1>1, <1>2, <1>3, <1>4, PTL DEF Spec

-----------------------------------------------------------------------------
(* tempo_carico and the days the cargo takes. *)

Cercando == AlMercato \ {"scarica", "dumpScarico", "scriviScarico"}

\* tempo_carico is at least the loading days of what is aboard, and of the
\* request about to be loaded when the cargo aboard is checked against it.
TempoBasta(s) ==
  /\ pc[s] \in Cercando => GiorniDiCarico(s) <= tempo[s]
  /\ pc[s] = "controllaCarico" => \A n \in Nat : Ridotti(s, n) =>
       GiorniDiCarico(s) + TempoCarico(r[s].indicemerce, n) <= tempo[s]

LEMMA GiorniNat ==
  ASSUME NEW f \in [Merci -> Nat]
  PROVE  /\ [g \in Merci |-> TempoCarico(g, f[g])] \in [Merci -> Nat]
         /\ Somma([g \in Merci |-> TempoCarico(g, f[g])]) \in Nat
         /\ (\A g \in Merci : f[g] = 0) => Somma([g \in Merci |-> TempoCarico(g, f[g])]) = 0
<1> DEFINE d == [g \in Merci |-> TempoCarico(g, f[g])]
<1>1. d \in [Merci -> Nat]
  BY PesoNat
<1>2. (\A g \in Merci : f[g] = 0) => \A g \in Merci : d[g] = 0
  BY PesoZero
<1> HIDE DEF d
<1>3. Somma(d) \in Nat /\ ((\A g \in Merci : f[g] = 0) => Somma(d) = 0)
  BY <1>1, <1>2, MerciFinite, UnitaFinita, SommaZero
<1> QED
  BY <1>1, <1>3 DEF d

LEMMA GiorniTipi ==
  ASSUME IInv, NEW s \in Navi
  PROVE  /\ GiorniDiCarico(s) \in Nat
         /\ (\A g \in Merci : carico[s][g] = 0) => GiorniDiCarico(s) = 0
<1>1. carico[s] \in [Merci -> Nat]
  BY Tipi
<1> QED
  BY <1>1, GiorniNat DEF GiorniDiCarico

\* A good that was not aboard adds the days of its own loading: loading it in
\* two slots could add one day more.
LEMMA GiorniCarica ==
  ASSUME InvMerci, NEW s \in Navi, NonRicarica(s), NEW n \in Nat, Carica(s, n)
  PROVE  /\ GiorniDiCarico(s)' = GiorniDiCarico(s) + TempoCarico(r[s].indicemerce, n)
         /\ GiorniDiCarico(s) \in Nat /\ TempoCarico(r[s].indicemerce, n) \in Nat
<1>0. IInv
  BY DEF InvMerci, Inv
<1> DEFINE h == r[s].indicemerce
           d == [g \in Merci |-> TempoCarico(g, carico[s][g])]
           e == [g \in Merci |-> TempoCarico(g, carico'[s][g])]
<1>1. /\ h \in Merci /\ carico[s][h] = 0 /\ carico'[s] \in [Merci -> Nat] /\ carico'[s][h] = n
      /\ \A g \in Merci \ {h} : carico'[s][g] = carico[s][g]
      /\ carico[s] \in [Merci -> Nat]
  <2>1. h \in Merci /\ carico[s] \in [Merci -> Nat]
    BY <1>0, CaricaPezzi, Tipi
  <2>2. carico[s][h] = 0
    BY CaricaNuova
  <2>3. /\ carico'[s] \in [Merci -> Nat] /\ carico'[s][h] = carico[s][h] + n
        /\ \A g \in Merci \ {h} : carico'[s][g] = carico[s][g]
    BY <1>0, CaricaStiva
  <2> QED
    BY <2>1, <2>2, <2>3
<1>2. d \in [Merci -> Nat] /\ e \in [Merci -> Nat]
  BY <1>1, PesoNat
<1>3. d[h] = 0 /\ e[h] = TempoCarico(h, n) /\ \A g \in Merci \ {h} : e[g] = d[g]
  <2>1. d[h] = TempoCarico(h, carico[s][h]) /\ e[h] = TempoCarico(h, carico'[s][h])
    BY <1>1
  <2>2. TempoCarico(h, 0) = 0
    BY <1>1, PesoZero
  <2>3. \A g \in Merci \ {h} : e[g] = d[g]
    BY <1>1
  <2> HIDE DEF d, e, h
  <2> QED
    BY <1>1, <2>1, <2>2, <2>3
<1>4. GiorniDiCarico(s) = Somma(d) /\ GiorniDiCarico(s)' = Somma(e)
  BY DEF GiorniDiCarico, TempoCarico, Peso
<1>5. TempoCarico(h, n) \in Nat
  BY <1>1, PesoNat
<1> HIDE DEF h, d, e
<1>6. Somma(e) = Somma(d) - d[h] + e[h] /\ Somma(d) \in Nat
  BY <1>1, <1>2, <1>3, MerciFinite, SommaCambia, UnitaFinita
<1>7. Somma(e) = Somma(d) + TempoCarico(h, n)
  BY <1>3, <1>5, <1>6
<1> QED
  BY <1>4, <1>5, <1>6, <1>7 DEF h

LEMMA PesoMonotono ==
  ASSUME NEW g \in Merci, NEW a \in Nat, NEW b \in Nat, a <= b
  PROVE  Peso(g, a) <= Peso(g, b)
<1>1. b - a \in Nat /\ b = a + (b - a)
  OBVIOUS
<1>2. Peso(g, a + (b - a)) = Peso(g, a) + Peso(g, b - a)
  BY <1>1, PesoPiu
<1>3. Peso(g, a) \in Nat /\ Peso(g, b - a) \in Nat
  BY <1>1, PesoNat
<1> QED
  BY <1>1, <1>2, <1>3

\* The two loops that shrink a request leave one value.
LEMMA RidottiUnico ==
  ASSUME IInv, NEW s \in Navi, r[s] \in Richiesta,
         NEW n \in Nat, Ridotti(s, n), NEW k \in Nat, Ridotti(s, k)
  PROVE  k = n
<1> DEFINE h == r[s].indicemerce
           Sta(j) == Peso(h, j) <= spaziolibero[s] /\ j <= Offerti(s)
<1>1. h \in Merci /\ r[s].nlotti \in Nat \ {0}
  BY CampiRichiesta
<1>2. /\ n <= r[s].nlotti /\ Sta(n) /\ (n = r[s].nlotti \/ ~Sta(n + 1))
      /\ k <= r[s].nlotti /\ Sta(k) /\ (k = r[s].nlotti \/ ~Sta(k + 1))
  BY <1>1 DEF Ridotti
<1>3. spaziolibero[s] \in Nat /\ Offerti(s) \in Int
  <2>1. spaziolibero[s] \in Nat /\ porto[s] \in Porti /\ mercato \in [Porti -> [Merci -> Int]]
    BY Tipi
  <2> QED
    BY <1>1, <2>1 DEF Offerti
<1>4. ASSUME NEW a \in Nat, NEW b \in Nat, a < b, Sta(b) PROVE Sta(a + 1)
  <2>1. a + 1 \in Nat /\ a + 1 <= b
    BY <1>4
  <2>2. Peso(h, a + 1) <= Peso(h, b) /\ Peso(h, a + 1) \in Nat /\ Peso(h, b) \in Nat
    BY <1>1, <2>1, PesoMonotono, PesoNat
  <2> QED
    BY <1>3, <1>4, <2>1, <2>2
<1> HIDE DEF h, Sta
<1>5. ~(n < k)
  BY <1>1, <1>2, <1>4
<1>6. ~(k < n)
  BY <1>1, <1>2, <1>4
<1> QED
  BY <1>5, <1>6

\* A ship at a market is alone there: no other changes what its port offers.
LEMMA MercatoMio ==
  ASSUME InvMerci, NEW s \in Navi, TieneMercato(s),
         NEW q \in Navi, q # s, Passo(q) \/ Sigusr2(q), NEW g \in Merci
  PROVE  mercato'[porto[s]][g] = mercato[porto[s]][g]
<1>0. IInv /\ Inv /\ porto[s] \in Porti
  BY Tipi DEF InvMerci, Inv
<1>1. CASE CaricaPrima(q) \/ CaricaDest(q)
  <2>1. PICK n \in Nat : Carica(q, n)
    BY <1>1, ChiCarica
  <2>2. TieneMercato(q)
    BY <2>1 DEF Carica, TieneMercato, AlMercato
  <2>3. porto[q] # porto[s]
    BY <1>0, <2>2, SoloAlMercato
  <2> QED
    BY <1>0, <2>1, <2>3, CaricaStiva
<1>2. CASE ScaricaMercato(q)
  <2>1. PICK h \in Merci : Scarica(q, h)
    BY <1>2, ChiScarica
  <2>2. TieneMercato(q)
    BY <2>1 DEF Scarica, TieneMercato, AlMercato
  <2>3. porto[q] # porto[s]
    BY <1>0, <2>2, SoloAlMercato
  <2> QED
    BY <1>0, <2>1, <2>3, ScaricaStiva
<1>3. CASE FineScarico(q)
  BY <1>3 DEF FineScarico
<1>4. CASE ~ToccaStiva(q)
  BY <1>0, <1>4, StivaFerma
<1> QED
  BY <1>1, <1>2, <1>3, <1>4 DEF ToccaStiva

LEMMA TempoFermo ==
  ASSUME InvMerci, NEW s \in Navi, TempoBasta(s),
         pc'[s] = pc[s], porto'[s] = porto[s], r'[s] = r[s], tempo'[s] = tempo[s],
         carico'[s] = carico[s], spaziolibero'[s] = spaziolibero[s],
         pc[s] = "controllaCarico" =>
           \A g \in Merci : mercato'[porto[s]][g] = mercato[porto[s]][g]
  PROVE  TempoBasta(s)'
<1>1. GiorniDiCarico(s)' = GiorniDiCarico(s)
  BY DEF GiorniDiCarico, TempoCarico, Peso
<1>2. pc[s] \in Cercando => GiorniDiCarico(s)' <= tempo'[s]
  BY <1>1 DEF TempoBasta
<1>3. ASSUME pc[s] = "controllaCarico", NEW n \in Nat, Ridotti(s, n)'
      PROVE  GiorniDiCarico(s)' + TempoCarico(r[s].indicemerce, n) <= tempo'[s]
  <2>1. r[s].indicemerce \in Merci
    BY <1>3, Tipi, CampiRichiesta DEF InvMerci, Inv, StatiRichiesta
  <2>2. Offerti(s)' = Offerti(s)
    BY <1>3, <2>1 DEF Offerti
  <2>3. Ridotti(s, n)
    BY <1>3, <2>2 DEF Ridotti, Peso
  <2> QED
    BY <1>1, <1>3, <2>3 DEF TempoBasta
<1> QED
  BY <1>2, <1>3 DEF TempoBasta, TempoCarico, Peso

\* A load: the good was not aboard, and its days were counted before it.
LEMMA TempoCaricato ==
  ASSUME InvMerci, IInv', NEW s \in Navi, NonRicarica(s), TempoBasta(s),
         CaricaPrima(s) \/ CaricaDest(s)
  PROVE  TempoBasta(s)' /\ pc'[s] # "controllaCarico"
         /\ (CaricaDest(s) => GiorniDiCarico(s)' <= tempo[s])
<1>0. IInv
  BY DEF InvMerci, Inv
<1>1. CASE CaricaPrima(s)
  <2>1. PICK n \in 1 .. r[s].nlotti :
          /\ Ridotti(s, n) /\ Imbarca(s, n)
          /\ tempo' = [tempo EXCEPT ![s] = tempo[s] + TempoCarico(r[s].indicemerce, n)]
          /\ Vai(s, IF n < r[s].nlotti THEN "inviaResto" ELSE "cercaDest")
    BY <1>1 DEF CaricaPrima
  <2>2. n \in Nat /\ Carica(s, n) /\ pc[s] = "valuta"
    BY <1>1, <2>1 DEF CaricaPrima, Carica
  <2>3. /\ GiorniDiCarico(s)' = GiorniDiCarico(s) + TempoCarico(r[s].indicemerce, n)
        /\ GiorniDiCarico(s) \in Nat /\ TempoCarico(r[s].indicemerce, n) \in Nat
    BY <2>2, GiorniCarica
  <2>4. GiorniDiCarico(s) = 0
    BY <1>0, <2>2, GiorniTipi DEF InvMerci, Locale, StivaVuota, Vuote
  <2> DEFINE t == TempoCarico(r[s].indicemerce, n)
  <2>5. tempo'[s] = tempo[s] + t /\ tempo[s] \in Nat
    BY <1>0, <2>1, Tipi
  <2>6. pc'[s] # "controllaCarico"
    BY <1>0, <2>1, Tipi DEF Vai
  <2>7. ~CaricaDest(s)
    BY <2>2 DEF CaricaDest
  <2> HIDE DEF t
  <2>8. GiorniDiCarico(s)' <= tempo'[s]
    BY <2>3, <2>4, <2>5 DEF t
  <2> QED
    BY <2>6, <2>7, <2>8 DEF TempoBasta
<1>2. CASE CaricaDest(s)
  <2>1. PICK n \in 1 .. r[s].nlotti :
          /\ Ridotti(s, n) /\ Imbarca(s, n)
          /\ IF n < r[s].nlotti THEN Vai(s, "inviaDest") ELSE Vai(s, DopoLettura(s))
    BY <1>2 DEF CaricaDest
  <2>2. n \in Nat /\ Carica(s, n) /\ pc[s] = "controllaCarico" /\ tempo' = tempo
    BY <1>2, <2>1 DEF CaricaDest, Carica
  <2>3. GiorniDiCarico(s)' = GiorniDiCarico(s) + TempoCarico(r[s].indicemerce, n)
    BY <2>2, GiorniCarica
  <2>4. GiorniDiCarico(s) + TempoCarico(r[s].indicemerce, n) <= tempo[s]
    BY <2>1, <2>2 DEF TempoBasta
  <2>5. pc'[s] # "controllaCarico"
    BY <1>0, <2>1, Tipi DEF Vai, DopoLettura
  <2> QED
    BY <2>2, <2>3, <2>4, <2>5 DEF TempoBasta
<1> QED
  BY <1>1, <1>2

\* The evaluation of a request of the destination adds its days.
LEMMA TempoValutato ==
  ASSUME InvMerci, IInv', NEW s \in Navi, TempoBasta(s), ValutaDest(s)
  PROVE  TempoBasta(s)'
<1>0. IInv
  BY DEF InvMerci, Inv
<1>1. PICK n \in 1 .. r[s].nlotti :
        /\ Ridotti(s, n)
        /\ tempo' = [tempo EXCEPT ![s] = tempo[s] + TempoCarico(r[s].indicemerce, n)]
  BY DEF ValutaDest
<1>2. /\ pc[s] = "valutaDest" /\ UNCHANGED <<porto, stiva, r, mercato>>
      /\ r[s] \in Richiesta
  BY <1>0, Tipi DEF ValutaDest, altrove, StatiRichiesta
<1>3. n \in Nat /\ r[s].indicemerce \in Merci /\ tempo[s] \in Nat
  BY <1>0, <1>1, <1>2, CampiRichiesta, Tipi
<1> DEFINE t == TempoCarico(r[s].indicemerce, n)
<1>4. t \in Nat
  BY <1>3, PesoNat
<1>5. tempo'[s] = tempo[s] + t
  BY <1>0, <1>1, Tipi
<1>6. GiorniDiCarico(s)' = GiorniDiCarico(s) /\ GiorniDiCarico(s) \in Nat
  BY <1>0, <1>2, GiorniTipi DEF GiorniDiCarico, TempoCarico, Peso, stiva
<1>7. GiorniDiCarico(s) <= tempo[s]
  BY <1>2 DEF TempoBasta, Cercando, AlMercato
<1>8. ASSUME NEW k \in Nat, Ridotti(s, k)'
      PROVE  GiorniDiCarico(s)' + TempoCarico(r[s].indicemerce, k) <= tempo'[s]
  <2>1. Ridotti(s, k)
    BY <1>2, <1>8 DEF Ridotti, Peso, Offerti, stiva
  <2>2. k = n
    BY <1>0, <1>1, <1>2, <1>3, <2>1, RidottiUnico
  <2>3. GiorniDiCarico(s) + t <= tempo[s] + t
    BY <1>3, <1>4, <1>6, <1>7
  <2> QED
    BY <1>5, <1>6, <2>2, <2>3
<1>9. GiorniDiCarico(s)' <= tempo'[s]
  BY <1>3, <1>4, <1>5, <1>6, <1>7
<1> QED
  BY <1>2, <1>8, <1>9 DEF TempoBasta, TempoCarico, Peso

\* The time of a request discarded after its evaluation is added again.
LEMMA TempoScartato ==
  ASSUME InvMerci, IInv', NEW s \in Navi, TempoBasta(s), ScartaDest(s)
  PROVE  TempoBasta(s)'
<1>0. IInv
  BY DEF InvMerci, Inv
<1>1. PICK n \in 1 .. r[s].nlotti :
        tempo' = [tempo EXCEPT ![s] = tempo[s] + TempoCarico(r[s].indicemerce, n)]
  BY DEF ScartaDest
<1>2. /\ pc[s] = "controllaCarico" /\ pc'[s] = "inviaDest" /\ carico' = carico
      /\ r[s] \in Richiesta
  BY <1>0, Tipi DEF ScartaDest, Vai, stiva, StatiRichiesta
<1>3. n \in Nat /\ r[s].indicemerce \in Merci /\ tempo[s] \in Nat
  BY <1>0, <1>1, <1>2, CampiRichiesta, Tipi
<1> DEFINE t == TempoCarico(r[s].indicemerce, n)
<1>4. t \in Nat
  BY <1>3, PesoNat
<1>5. tempo'[s] = tempo[s] + t
  BY <1>0, <1>1, Tipi
<1>6. GiorniDiCarico(s)' = GiorniDiCarico(s) /\ GiorniDiCarico(s) \in Nat
  BY <1>0, <1>2, GiorniTipi DEF GiorniDiCarico, TempoCarico, Peso
<1>7. GiorniDiCarico(s) <= tempo[s]
  BY <1>2 DEF TempoBasta, Cercando, AlMercato
<1> HIDE DEF t
<1> QED
  BY <1>2, <1>3, <1>4, <1>5, <1>6, <1>7 DEF TempoBasta

\* Where nothing is aboard tempo_carico may be anything.
LEMMA TempoVuota ==
  ASSUME IInv', NEW s \in Navi, \A g \in Merci : carico'[s][g] = 0, pc'[s] # "controllaCarico"
  PROVE  TempoBasta(s)'
<1>1. carico'[s] \in [Merci -> Nat] /\ tempo'[s] \in Nat
  BY DEF IInv, TypeOK
<1>2. GiorniDiCarico(s)' = 0
  BY <1>1, GiorniNat DEF GiorniDiCarico, TempoCarico, Peso
<1> QED
  BY <1>1, <1>2 DEF TempoBasta

LEMMA TempoPasso ==
  ASSUME InvMerci, IInv', NEW s \in Navi, Passo(s), NonRicarica(s), TempoBasta(s)
  PROVE  TempoBasta(s)'
<1>0. IInv
  BY DEF InvMerci, Inv
<1>1. CASE pc'[s] \notin Cercando /\ pc'[s] # "controllaCarico"
  BY <1>1 DEF TempoBasta
<1>2. ASSUME pc[s] \in Vuote, carico' = carico, pc'[s] # "controllaCarico" PROVE TempoBasta(s)'
  <2>1. \A g \in Merci : carico'[s][g] = 0
    BY <1>2 DEF InvMerci, Locale, StivaVuota
  <2> QED
    BY <1>2, <2>1, TempoVuota
<1>3. ASSUME pc[s] \in Cercando, carico' = carico, tempo' = tempo, pc'[s] # "controllaCarico"
      PROVE  TempoBasta(s)'
  <2>1. GiorniDiCarico(s)' = GiorniDiCarico(s)
    BY <1>3 DEF GiorniDiCarico, TempoCarico, Peso
  <2> QED
    BY <1>3, <2>1 DEF TempoBasta
<1>4. CASE CaricaPrima(s) \/ CaricaDest(s)
  BY <1>4, TempoCaricato
<1>5. CASE ValutaDest(s) \/ ScartaDest(s)
  BY <1>5, TempoValutato, TempoScartato
<1> USE <1>0, Tipi DEF Vai, Cercando, AlMercato, Vuote
<1>6. CASE RiservaMercato(s)
  BY <1>1, <1>2, <1>6 DEF RiservaMercato, AttesaMercato, merci, stiva
<1>7. CASE AccettaPrima(s) \/ CodaVuota(s) \/ RifiutaPrima(s) \/ RimandaPrima(s) \/ Salta(s)
  BY <1>2, <1>7 DEF AccettaPrima, CodaVuota, RifiutaPrima, RimandaPrima, Salta, merci, stiva
<1>8. CASE InviaResto(s) \/ AccettaDest(s) \/ NessunaPerDest(s) \/ RifiutaDest(s)
  BY <1>3, <1>8 DEF InviaResto, AccettaDest, NessunaPerDest, RifiutaDest, merci, stiva, ricerca
<1>9. CASE RimandaDest(s)
  BY <1>3, <1>9 DEF RimandaDest, DopoLettura, merci, stiva, ricerca
<1>10. CASE RichiediBanchina(s) \/ RilasciaMercato(s) \/ LasciaBanchina(s) \/ LeggiData(s)
  BY <1>1, <1>10 DEF RichiediBanchina, RilasciaMercato, LasciaBanchina, LeggiData
<1>11. CASE RiservaStato(s) \/ ScriviStato(s) \/ RiservaDump(s)
  BY <1>1, <1>11 DEF RiservaStato, ScriviStato, RiservaDump, AttesaStato, NelDump1
<1>12. CASE ScriviDumpCarico(s) \/ ScaricaMercato(s) \/ ScriviDumpScarico(s) \/ FineScarico(s)
  BY <1>1, <1>2, <1>12 DEF ScriviDumpCarico, ScaricaMercato, ScriviDumpScarico, FineScarico
<1> QED
  BY <1>4, <1>5, <1>6, <1>7, <1>8, <1>9, <1>10, <1>11, <1>12 DEF Passo

TempiBastano == \A s \in Navi : TempoBasta(s)

LEMMA TempiPasso ==
  ASSUME InvMerci, Caselle, TempiBastano, [Next]_vars
  PROVE  TempiBastano'
<1>0. IInv /\ IInv'
  BY NextIInv DEF InvMerci, Inv
<1> SUFFICES ASSUME NEW s \in Navi PROVE TempoBasta(s)'
  BY DEF TempiBastano
<1>1. TempoBasta(s) /\ NonRicarica(s)
  BY DEF TempiBastano, Caselle
<1>2. CASE Ferme
  BY <1>1, <1>2, TempoFermo DEF Ferme, merci, ricerca, stiva
<1>3. ASSUME NEW q \in Navi, Passo(q) \/ Sigusr2(q), q # s PROVE TempoBasta(s)'
  <2>1. /\ pc'[s] = pc[s] /\ porto'[s] = porto[s] /\ r'[s] = r[s] /\ tempo'[s] = tempo[s]
        /\ carico'[s] = carico[s] /\ spaziolibero'[s] = spaziolibero[s]
    BY <1>0, <1>3, PassoSoloSue DEF SoloSue
  <2>2. pc[s] = "controllaCarico" =>
          \A g \in Merci : mercato'[porto[s]][g] = mercato[porto[s]][g]
    BY <1>3, MercatoMio DEF TieneMercato, AlMercato
  <2> QED
    BY <1>1, <2>1, <2>2, TempoFermo
<1>4. CASE Sigusr2(s)
  <2>1. pc'[s] = "uscita"
    BY <1>0, <1>4, Tipi DEF Sigusr2, Vai
  <2> QED
    BY <2>1 DEF TempoBasta, Cercando, AlMercato
<1>5. CASE Passo(s)
  BY <1>0, <1>1, <1>5, TempoPasso
<1> QED
  BY <1>2, <1>3, <1>4, <1>5, ChiMuove

AncoraInTempo ==
  \A s \in Navi : pc[s] = "controllaCarico" /\ carico'[s] # carico[s] =>
    \A g \in Merci : carico[s][g] > 0 =>
      2 * Lotto[g].exp >= Viaggio[porto[s]][dest[s]] + 2 * (data + GiorniDiCarico(s)')

LEMMA AncoraInTempoPasso ==
  ASSUME InvMerci, Caselle, TempiBastano, [Next]_vars
  PROVE  AncoraInTempo
<1>0. IInv /\ IInv'
  BY NextIInv DEF InvMerci, Inv
<1> SUFFICES ASSUME NEW s \in Navi, pc[s] = "controllaCarico", carico'[s] # carico[s],
                    NEW g \in Merci, carico[s][g] > 0
             PROVE  2 * Lotto[g].exp >=
                      Viaggio[porto[s]][dest[s]] + 2 * (data + GiorniDiCarico(s)')
  BY DEF AncoraInTempo
<1>1. CaricaDest(s)
  <2>1. CASE Ferme
    BY <2>1 DEF Ferme, merci, stiva
  <2>2. ASSUME NEW q \in Navi, Passo(q) \/ Sigusr2(q), q # s PROVE FALSE
    BY <1>0, <2>2, PassoSoloSue DEF SoloSue
  <2>3. CASE Passo(s) \/ Sigusr2(s)
    BY <1>0, <2>3, StivaFerma DEF ToccaStiva, stiva, CaricaPrima, ScaricaMercato, FineScarico
  <2> QED
    BY <2>1, <2>2, <2>3, ChiMuove
<1>2. 2 * Lotto[g].exp >= Viaggio[porto[s]][dest[s]] + 2 * (tempo[s] + data)
  <2>1. ~(2 * Lotto[g].exp < Viaggio[porto[s]][dest[s]] + 2 * (tempo[s] + data))
    BY <1>1 DEF CaricaDest, NonCaricare
  <2>2. /\ Lotto[g].exp \in Nat /\ tempo[s] \in Nat /\ data \in Nat
        /\ porto[s] \in Porti /\ dest[s] \in Porti
    BY <1>0, NaveAssumption, Tipi DEF IInv, TypeOK
  <2>3. Viaggio[porto[s]][dest[s]] \in Nat
    BY <2>2, NaveAssumption
  <2> QED
    BY <2>1, <2>2, <2>3
<1>3. GiorniDiCarico(s)' <= tempo[s]
  BY <1>0, <1>1, TempoCaricato DEF Caselle, TempiBastano
<1>4. /\ Lotto[g].exp \in Nat /\ tempo[s] \in Nat /\ data \in Nat
      /\ Viaggio[porto[s]][dest[s]] \in Nat /\ GiorniDiCarico(s)' \in Nat
  <2>1. porto[s] \in Porti /\ dest[s] \in Porti /\ tempo[s] \in Nat /\ data \in Nat
    BY <1>0, Tipi DEF IInv, TypeOK
  <2>2. Lotto[g].exp \in Nat /\ Viaggio[porto[s]][dest[s]] \in Nat
    BY <2>1, NaveAssumption
  <2>3. carico'[s] \in [Merci -> Nat]
    BY <1>0 DEF IInv, TypeOK
  <2>4. GiorniDiCarico(s)' \in Nat
    BY <2>3, GiorniNat DEF GiorniDiCarico, TempoCarico, Peso
  <2> QED
    BY <2>1, <2>2, <2>4
<1> DEFINE v == Viaggio[porto[s]][dest[s]]
           e == Lotto[g].exp
           d == GiorniDiCarico(s)'
           t == tempo[s]
<1> HIDE DEF v, e, d, t
<1>5. 2 * e >= v + 2 * (t + data) /\ d <= t /\ e \in Nat /\ v \in Nat /\ d \in Nat /\ t \in Nat
      /\ data \in Nat
  BY <1>2, <1>3, <1>4 DEF v, e, d, t
<1>6. 2 * e >= v + 2 * (data + d)
  BY <1>5
<1> QED
  BY <1>6 DEF v, e, d

\* For any fleet, goods and distances: when a further good is loaded,
\* everything already aboard still arrives in time, the days of the new
\* loading included.  tempo_carico covers the days of all that is aboard,
\* although a discarded request adds its days twice (nave.c:196-221), because
\* a ship is alone at its market between the evaluation of a request and its
\* loading, and because a good never takes a second slot.
THEOREM CaricoSempreInTempo == Spec => CaricoAncoraInTempo
<1>1. InvMerci /\ Unica /\ [Next]_vars => Unica'
  BY UnicaPasso
<1>2. InvMerci /\ Unica /\ Caselle /\ [Next]_vars => Caselle'
  BY CasellePasso DEF Caselle
<1>3. Init => Caselle /\ TempiBastano
  <2>1. Init => Caselle
    BY InitCaselle DEF Caselle
  <2>2. Init => TempiBastano
    BY DEF Init, TempiBastano, TempoBasta, Cercando, AlMercato
  <2> QED
    BY <2>1, <2>2
<1>4. InvMerci /\ Caselle /\ TempiBastano /\ [Next]_vars => TempiBastano'
  BY TempiPasso
<1>5. InvMerci /\ Caselle /\ TempiBastano /\ [Next]_vars => [AncoraInTempo]_vars
  BY AncoraInTempoPasso
<1> QED
  BY SempreInvMerci, InitUnica, <1>1, <1>2, <1>3, <1>4, <1>5, PTL
     DEF Spec, CaricoAncoraInTempo, AncoraInTempo

-----------------------------------------------------------------------------
(* The ships implement Trasporto. *)

\* The part of ship s in the delivered, or expired, lots of good g that the
\* dump does not know yet.
InSospeso(s, g, e) == IF scarico[s].indice = g /\ Esito(s, g) = e THEN scarico[s].val ELSE 0

Esiti == {"consegnata", "scaduta_in_nave"}

LEMMA SospesoCambia ==
  ASSUME IInv, IInv', NEW s \in Navi, SoloSue(s), NEW g \in Merci, NEW e \in Esiti
  PROVE  /\ InScaricoCome(g, e)' = InScaricoCome(g, e) - InSospeso(s, g, e) + InSospeso(s, g, e)'
         /\ InScaricoCome(g, e) \in Nat /\ InSospeso(s, g, e) \in Nat /\ InSospeso(s, g, e)' \in Nat
         /\ merceDump[g][e] \in Int
<1> DEFINE f == [q \in Navi |-> InSospeso(q, g, e)]
           h == [q \in Navi |-> InSospeso(q, g, e)']
<1>1. \A q \in Navi : scarico[q].val \in Nat /\ scarico'[q].val \in Nat
  <2>1. scarico \in [Navi -> [indice : Merci, val : Nat]]
        /\ scarico' \in [Navi -> [indice : Merci, val : Nat]]
    BY DEF IInv, TypeOK
  <2> QED
    BY <2>1
<1>2. f \in [Navi -> Nat] /\ h \in [Navi -> Nat]
  BY <1>1 DEF InSospeso
<1>3. \A q \in Navi \ {s} : h[q] = f[q]
  BY DEF SoloSue, InSospeso, Esito, Scaduta
<1>4. f[s] = InSospeso(s, g, e) /\ h[s] = InSospeso(s, g, e)'
  OBVIOUS
<1>5. InScaricoCome(g, e) = Somma(f) /\ InScaricoCome(g, e)' = Somma(h)
  BY DEF InScaricoCome, InSospeso, Esito, Scaduta
<1>6. merceDump[g][e] \in Int
  BY Tipi DEF Esiti, CampiMerce
<1> HIDE DEF f, h
<1>7. Somma(h) = Somma(f) - f[s] + h[s] /\ Somma(f) \in Nat /\ f[s] \in Nat /\ h[s] \in Nat
  BY <1>2, <1>3, SommaNavi
<1> QED
  BY <1>4, <1>5, <1>6, <1>7

\* A step of s that gives the dump what it takes from what is pending.
LEMMA EsitataResta ==
  ASSUME IInv, IInv', NEW s \in Navi, SoloSue(s), NEW e \in Esiti,
         \A g \in Merci : merceDump'[g][e] + InSospeso(s, g, e)'
                            = merceDump[g][e] + InSospeso(s, g, e)
  PROVE  Esitata(e)' = Esitata(e)
<1>1. ASSUME NEW g \in Merci
      PROVE  merceDump'[g][e] + InScaricoCome(g, e)' = merceDump[g][e] + InScaricoCome(g, e)
  <2>1. merceDump'[g][e] \in Int
    <3>1. merceDump' \in [Merci -> [CampiMerce -> Int]]
      BY DEF IInv, TypeOK
    <3> QED
      BY <3>1 DEF Esiti, CampiMerce
  <2>2. merceDump'[g][e] + InSospeso(s, g, e)' = merceDump[g][e] + InSospeso(s, g, e)
    OBVIOUS
  <2>3. /\ InScaricoCome(g, e)' = InScaricoCome(g, e) - InSospeso(s, g, e) + InSospeso(s, g, e)'
        /\ InScaricoCome(g, e) \in Nat /\ InSospeso(s, g, e) \in Nat /\ InSospeso(s, g, e)' \in Nat
        /\ merceDump[g][e] \in Int
    BY SospesoCambia
  <2> QED
    BY <2>1, <2>2, <2>3
<1> DEFINE a == [g \in Merci |-> merceDump'[g][e] + InScaricoCome(g, e)']
           b == [g \in Merci |-> merceDump[g][e] + InScaricoCome(g, e)]
<1>2. Esitata(e)' = a /\ Esitata(e) = b
  BY DEF Esitata
<1>3. a = b
  BY <1>1
<1> QED
  BY <1>2, <1>3

EsitateFerme ==
  Esitata("consegnata")' = Esitata("consegnata")
  /\ Esitata("scaduta_in_nave")' = Esitata("scaduta_in_nave")

\* Nothing happens in Trasporto.
LEMMA TrasportoFermo ==
  ASSUME mercato' = mercato, porto' = porto, dest' = dest, carico' = carico, EsitateFerme
  PROVE  UNCHANGED T!vars
BY DEF T!vars, EsitateFerme, Attesi, Offerta

\* The steps that leave the outcomes alone.
LEMMA EsitateImmobili ==
  ASSUME InvMerci, IInv', NEW s \in Navi, Passo(s) \/ Sigusr2(s), ~ScaricaMercato(s)
  PROVE  EsitateFerme
<1>0. IInv /\ SoloSue(s)
  BY PassoSoloSue DEF InvMerci, Inv
<1>1. CASE ScriviDumpScarico(s)
  <2>1. /\ scarico'[s].val = 0
        /\ \A g \in Merci :
             LET n == IF g = scarico[s].indice THEN scarico[s].val ELSE 0 IN
             /\ merceDump'[g]["consegnata"] =
                  merceDump[g]["consegnata"] + (IF Scaduta(s, g) THEN 0 ELSE n)
             /\ merceDump'[g]["scaduta_in_nave"] =
                  merceDump[g]["scaduta_in_nave"] + (IF Scaduta(s, g) THEN n ELSE 0)
    <3>1. scarico'[s].val = 0
      BY <1>0, <1>1, Tipi DEF ScriviDumpScarico
    <3> QED
      BY <1>0, <1>1, <3>1, ScriviScaricoPezzi
  <2>2. ASSUME NEW e \in Esiti, NEW g \in Merci
        PROVE  merceDump'[g][e] + InSospeso(s, g, e)' = merceDump[g][e] + InSospeso(s, g, e)
    <3>1. InSospeso(s, g, e)' = 0 /\ merceDump[g][e] \in Int /\ InSospeso(s, g, e) \in Nat
      BY <1>0, <2>1, SospesoCambia DEF InSospeso
    <3>2. merceDump'[g][e] = merceDump[g][e] + InSospeso(s, g, e)
      BY <2>1, <2>2 DEF InSospeso, Esito, Esiti
    <3> QED
      BY <3>1, <3>2
  <2> QED
    BY <1>0, <2>2, EsitataResta DEF EsitateFerme, Esiti
<1>2. CASE ~ScriviDumpScarico(s)
  <2>1. /\ \A g \in Merci, e \in Esiti : merceDump'[g][e] = merceDump[g][e]
        /\ scarico' = scarico
        /\ datascarico'[s] = datascarico[s] \/ scarico[s].val = 0
    <3>1. CASE ScriviDumpCarico(s)
      BY <3>1, ScriviCaricoPezzi DEF ScriviDumpCarico, Esiti
    <3>2. CASE ~ScriviDumpCarico(s)
      <4>1. merceDump' = merceDump
        BY <1>2, <3>2, DumpMerciFermo DEF ScriveMerci
      <4>2. scarico' = scarico
        BY <1>2, <3>2 DEF Passo, Sigusr2, RichiediBanchina, RiservaStato, ScriviStato,
             RiservaMercato, AccettaPrima, CodaVuota, CaricaPrima, RifiutaPrima, RimandaPrima,
             InviaResto, Salta, AccettaDest, NessunaPerDest, ValutaDest, RifiutaDest, CaricaDest,
             ScartaDest, RimandaDest, RilasciaMercato, RiservaDump, LasciaBanchina, LeggiData,
             FineScarico, altrove
      <4>3. CASE LeggiData(s)
        BY <4>1, <4>2, <4>3 DEF LeggiData, InvMerci, Locale, ScaricoVuoto
      <4>4. CASE ~LeggiData(s)
        <5>1. datascarico' = datascarico
          BY <1>2, <3>2, <4>4 DEF Passo, Sigusr2, RichiediBanchina, RiservaStato, ScriviStato,
             RiservaMercato, AccettaPrima, CodaVuota, CaricaPrima, RifiutaPrima, RimandaPrima,
             InviaResto, Salta, AccettaDest, NessunaPerDest, ValutaDest, RifiutaDest, CaricaDest,
             ScartaDest, RimandaDest, RilasciaMercato, RiservaDump, LasciaBanchina,
             FineScarico, altrove
        <5> QED
          BY <4>1, <4>2, <5>1
      <4> QED
        BY <4>3, <4>4
    <3> QED
      BY <3>1, <3>2
  <2>2. \A g \in Merci, e \in Esiti : InSospeso(s, g, e)' = InSospeso(s, g, e)
    BY <2>1 DEF InSospeso, Esito, Scaduta
  <2> QED
    BY <1>0, <2>1, <2>2, EsitataResta DEF EsitateFerme, Esiti
<1> QED
  BY <1>1, <1>2

\* The instance has copies of Somma and of Cardinality of its own.
LEMMA ConteggioT ==
  ASSUME NEW S
  PROVE  T!Cardinality(S) = Cardinality(S)
BY DEF T!Cardinality, Cardinality

LEMMA SommaUgualeT ==
  ASSUME NEW f
  PROVE  T!Somma(f) = Somma(f)
<1>1. T!Unita(f) = Unita(f)
  BY DEF T!Unita, Unita
<1> QED
  BY <1>1, ConteggioT DEF T!Somma, Somma

\* A load of the code is a load of Trasporto: what is asked for covers it
\* (ResiduoNat), the hold has room (Pesata), and the hold is empty or bound
\* for the same port.
LEMMA ImplementaCarica ==
  ASSUME InvMerci, IInv', ResiduoNat, NEW s \in Navi, Passo(s), CaricaPrima(s) \/ CaricaDest(s)
  PROVE  \E g \in Merci, q \in Porti : \E n \in 1 .. Offerta(mercato[porto[s]][g]) : T!Carica(s, g, n, q)
<1>0. IInv /\ SoloSue(s) /\ EsitateFerme
  <2>1. ~ScaricaMercato(s)
    BY DEF CaricaPrima, CaricaDest, ScaricaMercato
  <2>2. IInv
    BY DEF InvMerci, Inv
  <2> QED
    BY <2>1, <2>2, PassoSoloSue, EsitateImmobili
<1>1. PICK n \in Nat : Carica(s, n)
  BY ChiCaricaDest
<1> DEFINE h == r[s].indicemerce
           p == porto[s]
           q == r[s].mtype
<1>2. /\ r[s] \in Richiesta /\ h \in Merci /\ q \in Porti /\ n >= 1 /\ n <= r[s].nlotti
      /\ r[s].nlotti \in Nat /\ n <= mercato[p][h] /\ Peso(h, n) <= spaziolibero[s] /\ p \in Porti
  BY <1>0, <1>1, CaricaPezzi
<1>3. /\ mercato \in [Porti -> [Merci -> Int]] /\ carico \in [Navi -> [Merci -> Nat]]
      /\ dest \in [Navi -> Porti] /\ mercato[p][h] \in Int
  BY <1>0, <1>2, Tipi
<1>4. n \in 1 .. Offerta(mercato[p][h]) /\ n <= Offerta(mercato[p][h])
  BY <1>2, <1>3 DEF Offerta
<1>5. n + InViaggio(q, h) <= Attesi(q, h)
  <2>1. /\ Attesi(q, h) \in Nat /\ InCoda(q, h) \in Nat /\ InMano(q, h) \in Nat
        /\ InViaggio(q, h) \in Nat
    BY <1>0, <1>2, ResiduoTipi
  <2>2. InCoda(q, h) + InMano(q, h) + InViaggio(q, h) <= Attesi(q, h)
    BY <1>2, <2>1 DEF ResiduoNat, Residuo
  <2>3. Quota(r[s], q, h) <= InMano(q, h)
    <3> DEFINE f == [t \in Navi |-> Quota(r[t], q, h)]
    <3>1. f \in [Navi -> Nat]
      BY <1>0, <1>2, ResiduoTipi
    <3>2. InMano(q, h) = Somma(f) /\ f[s] = Quota(r[s], q, h) /\ IsFiniteSet(Navi)
      BY NaveAssumption DEF InMano, Quota
    <3> HIDE DEF f
    <3> QED
      BY <3>1, <3>2, SommaAlmeno
  <2>4. Quota(r[s], q, h) = r[s].nlotti
    BY DEF Quota
  <2> QED
    BY <1>2, <2>1, <2>2, <2>3, <2>4
<1>6. Tonnellaggio(s) + Peso(h, n) <= SO_CAPACITY
  <2>1. Tonnellaggio(s) \in Nat
    <3>1. carico[s] \in [Merci -> Nat]
      BY <1>3
    <3>2. [g \in Merci |-> Peso(g, carico[s][g])] \in [Merci -> Nat]
      BY <3>1, PesoFunzione
    <3> QED
      BY <3>2, MerciFinite, UnitaFinita DEF Tonnellaggio
  <2>2. spaziolibero[s] + Tonnellaggio(s) <= SO_CAPACITY /\ spaziolibero[s] \in Nat
    BY <1>0, Tipi DEF InvMerci, Pesata
  <2>3. Peso(h, n) \in Nat /\ SO_CAPACITY \in Nat
    BY <1>2, PesoNat, NaveAssumption
  <2> QED
    BY <1>2, <2>1, <2>2, <2>3
<1>7. carico[s] = [g \in Merci |-> 0] \/ dest[s] = q
  <2>1. dest'[s] = q /\ (dest' = dest \/ \A g \in Merci : carico[s][g] = 0)
    BY ChiCaricaDest
  <2>2. carico[s] \in [Merci -> Nat]
    BY <1>3
  <2> QED
    BY <2>1, <2>2
<1>8. dest' = [dest EXCEPT ![s] = q]
  <2>1. CASE CaricaPrima(s)
    BY <2>1 DEF CaricaPrima
  <2>2. CASE CaricaDest(s)
    <3>1. dest' = dest /\ dest[s] = q
      BY <2>2, ChiCaricaDest DEF CaricaDest
    <3> QED
      BY <1>3, <3>1
  <2> QED
    BY <2>1, <2>2
<1>9. carico' = [carico EXCEPT ![s] = [carico[s] EXCEPT ![h] = carico[s][h] + n]]
  BY <1>1 DEF Carica, Imbarca
<1>10. porto' = porto
  BY DEF CaricaPrima, CaricaDest, altrove
<1> DEFINE offerta == [x \in Porti |-> [g \in Merci |-> Offerta(mercato[x][g])]]
           offertaDopo == [x \in Porti |-> [g \in Merci |-> Offerta(mercato'[x][g])]]
<1>11. offertaDopo = [offerta EXCEPT ![p] = [offerta[p] EXCEPT ![h] = offerta[p][h] + (-n)]]
  <2>1. /\ mercato'[p][h] = mercato[p][h] - n
        /\ \A x \in Porti, g \in Merci : ~(x = p /\ g = h) => mercato'[x][g] = mercato[x][g]
    BY <1>0, <1>1, CaricaStiva
  <2>2. Offerta(mercato'[p][h]) = Offerta(mercato[p][h]) + (-n)
    <3> DEFINE a == mercato[p][h]
               b == mercato'[p][h]
    <3>1. a \in Int /\ n \in Nat /\ n >= 1 /\ n <= a /\ b = a - n
      BY <1>2, <1>3, <2>1
    <3> HIDE DEF a, b
    <3>2. Offerta(b) = Offerta(a) + (-n)
      BY <3>1 DEF Offerta
    <3> QED
      BY <3>2 DEF a, b
  <2> DEFINE v == offerta[p][h] + (-n)
  <2>3. v = Offerta(mercato'[p][h])
    BY <1>2, <2>2
  <2> HIDE DEF v
  <2>4. \A x \in Porti, g \in Merci :
          offertaDopo[x][g] = IF x = p /\ g = h THEN v ELSE offerta[x][g]
    BY <2>1, <2>3
  <2>5. [offerta EXCEPT ![p] = [offerta[p] EXCEPT ![h] = v]]
          = [x \in Porti |-> [g \in Merci |-> IF x = p /\ g = h THEN v ELSE offerta[x][g]]]
    BY <1>2
  <2>6. offertaDopo = [x \in Porti |-> [g \in Merci |-> IF x = p /\ g = h THEN v ELSE offerta[x][g]]]
    BY <2>4
  <2> QED
    BY <2>5, <2>6 DEF v
<1>12. [x \in Porti |-> [g \in Merci |-> Attesi(x, g)]]'
         = [x \in Porti |-> [g \in Merci |-> Attesi(x, g)]]
  <2>1. ASSUME NEW x \in Porti, NEW g \in Merci PROVE Attesi(x, g)' = Attesi(x, g)
    <3>1. CASE x = p /\ g = h
      <4>1. mercato'[x][g] = mercato[x][g] - n
        BY <1>0, <1>1, <3>1, CaricaStiva
      <4> QED
        BY <1>2, <1>3, <3>1, <4>1 DEF Attesi, Offerta
    <3>2. CASE ~(x = p /\ g = h)
      BY <1>0, <1>1, <3>2, CaricaStiva, AttesiFermi
    <3> QED
      BY <3>1, <3>2
  <2> QED
    BY <2>1
<1> HIDE DEF h, p, q
<1>13. T!Carica(s, h, n, q)
  <2>1. T!Tonnellaggio(s) + n * Lotto[h].val <= SO_CAPACITY
    <3>1. T!Tonnellaggio(s) = Tonnellaggio(s)
      BY SommaUgualeT DEF T!Tonnellaggio, Tonnellaggio, Peso
    <3> QED
      BY <1>6, <3>1 DEF Peso
  <2>2. T!InViaggio(q, h) = InViaggio(q, h)
    BY SommaUgualeT DEF T!InViaggio, InViaggio
  <2>3. [x \in Porti |-> [g \in Merci |-> Attesi(x, g)]][q][h] = Attesi(q, h)
    BY <1>2
  <2>4. offerta[p][h] = Offerta(mercato[p][h])
    BY <1>2
  <2> QED
    BY <1>0, <1>4, <1>5, <1>7, <1>8, <1>9, <1>10, <1>11, <1>12, <2>1, <2>2, <2>3, <2>4
       DEF T!Carica, T!Cambia, T!Vuota, EsitateFerme, p, q, h
<1> QED
  BY <1>2, <1>4, <1>13 DEF p

\* An empty ship that found nothing may choose any port but the last one.
LEMMA ImplementaSalta ==
  ASSUME InvMerci, IInv', NEW s \in Navi, Passo(s), Salta(s)
  PROVE  T!CambiaRotta(s)
<1>1. EsitateFerme
  <2>1. ~ScaricaMercato(s)
    BY DEF Salta, ScaricaMercato
  <2> QED
    BY <2>1, EsitateImmobili
<1>2. carico[s] = [g \in Merci |-> 0]
  <2>1. carico[s] \in [Merci -> Nat]
    BY Tipi DEF InvMerci, Inv
  <2>2. \A g \in Merci : carico[s][g] = 0
    BY DEF InvMerci, Locale, StivaVuota, Vuote, Salta
  <2> QED
    BY <2>1, <2>2
<1>3. \E q \in Porti : dest' = [dest EXCEPT ![s] = q]
  <2>1. PICK q \in 0 .. SO_PORTI - 2 : dest' = [dest EXCEPT ![s] = q]
    BY DEF Salta
  <2>2. q \in Porti
    BY NaveAssumption DEF Porti
  <2> QED
    BY <2>1, <2>2
<1>4. mercato' = mercato /\ porto' = porto /\ carico' = carico
  BY DEF Salta, altrove, merci, stiva
<1> QED
  BY <1>1, <1>2, <1>3, <1>4 DEF T!CambiaRotta, T!Vuota, EsitateFerme, Attesi

LEMMA ImplementaApprodo ==
  ASSUME InvMerci, IInv', NEW s \in Navi, Passo(s), RichiediBanchina(s)
  PROVE  T!Arriva(s)
<1>1. EsitateFerme
  <2>1. ~ScaricaMercato(s)
    BY DEF RichiediBanchina, ScaricaMercato, InNavigazione
  <2> QED
    BY <2>1, EsitateImmobili
<1>2. porto' = [porto EXCEPT ![s] = dest[s]] /\ mercato' = mercato /\ dest' = dest /\ carico' = carico
  BY DEF RichiediBanchina, merci, stiva
<1> QED
  BY <1>1, <1>2 DEF T!Arriva, EsitateFerme, Attesi

\* What leaves the hold is pending until the dump is written.
LEMMA EsitataScarica ==
  ASSUME InvMerci, IInv', NEW s \in Navi, Passo(s), ScaricaMercato(s),
         NEW h \in Merci, Scarica(s, h), NEW e \in Esiti
  PROVE  Esitata(e)' = [Esitata(e) EXCEPT ![h] = @ + (IF Esito(s, h) = e THEN carico[s][h] ELSE 0)]
<1>0. IInv /\ SoloSue(s)
  BY PassoSoloSue DEF InvMerci, Inv
<1> DEFINE n == carico[s][h]
           k == IF Esito(s, h) = e THEN n ELSE 0
<1>1. /\ scarico'[s].indice = h /\ scarico'[s].val = n /\ n \in Nat
      /\ scarico[s].val = 0 /\ merceDump' = merceDump /\ datascarico' = datascarico
  <2>1. scarico'[s].indice = h /\ scarico'[s].val = n /\ n \in Nat
    BY <1>0, ScaricaStiva
  <2> QED
    BY <2>1 DEF ScaricaMercato, dump, InvMerci, Locale, ScaricoVuoto
<1>2. k \in Nat
  BY <1>1
<1>3. ASSUME NEW g \in Merci
      PROVE  InSospeso(s, g, e) = 0 /\ InSospeso(s, g, e)' = IF g = h THEN k ELSE 0
  BY <1>1 DEF InSospeso, Esito, Scaduta
<1> HIDE DEF k, n
<1>4. ASSUME NEW g \in Merci
      PROVE  merceDump'[g][e] + InScaricoCome(g, e)'
               = IF g = h THEN merceDump[g][e] + InScaricoCome(g, e) + k
                 ELSE merceDump[g][e] + InScaricoCome(g, e)
  <2>1. /\ InScaricoCome(g, e)' = InScaricoCome(g, e) - InSospeso(s, g, e) + InSospeso(s, g, e)'
        /\ InScaricoCome(g, e) \in Nat /\ merceDump[g][e] \in Int
    BY <1>0, SospesoCambia
  <2>2. InScaricoCome(g, e)' = InScaricoCome(g, e) + (IF g = h THEN k ELSE 0)
    BY <1>2, <1>3, <2>1
  <2> QED
    BY <1>1, <1>2, <2>1, <2>2
<1> DEFINE a == [g \in Merci |-> merceDump[g][e] + InScaricoCome(g, e)]
           b == [g \in Merci |-> merceDump'[g][e] + InScaricoCome(g, e)']
<1>5. Esitata(e) = a /\ Esitata(e)' = b
  BY DEF Esitata
<1>6. b = [a EXCEPT ![h] = @ + k]
  BY <1>4
<1> QED
  BY <1>5, <1>6 DEF k, n

\* A slot of the hold is delivered, or has expired.
LEMMA ImplementaScarica ==
  ASSUME InvMerci, IInv', ResiduoNat, NEW s \in Navi, Passo(s), ScaricaMercato(s)
  PROVE  \E g \in Merci : T!Consegna(s, g) \/ T!Scade(s, g)
<1>0. IInv
  BY DEF InvMerci, Inv
<1>1. PICK h \in Merci : Scarica(s, h)
  BY ChiScarica
<1> DEFINE n == carico[s][h]
           p == porto[s]
<1>2. /\ \A x \in Porti, g \in Merci : ~(x = p /\ g = h) => mercato'[x][g] = mercato[x][g]
      /\ IF ~Scaduta(s, h) /\ mercato[p][h] <= -n
           THEN mercato'[p][h] = mercato[p][h] + n
           ELSE mercato'[p][h] = mercato[p][h]
      /\ n \in Nat \ {0} /\ p \in Porti
  BY <1>0, <1>1, ScaricaStiva
<1>3. /\ carico' = [carico EXCEPT ![s] = [carico[s] EXCEPT ![h] = carico[s][h] + (-n)]]
      /\ porto' = porto /\ dest' = dest /\ porto[s] = dest[s] /\ pc[s] = "scarica"
  <2>1. n + (-n) = 0
    BY <1>2
  <2>2. carico' = [carico EXCEPT ![s] = [carico[s] EXCEPT ![h] = 0]]
    BY <1>1 DEF Scarica
  <2>3. carico' = [carico EXCEPT ![s] = [carico[s] EXCEPT ![h] = carico[s][h] + (-n)]]
    BY <2>1, <2>2
  <2> QED
    BY <2>3 DEF ScaricaMercato, InvMerci, Locale, Rotta
<1>4. mercato[p][h] <= -n /\ mercato[p][h] \in Int
  <2>1. MaiErroreScarico
    BY ResiduoBasta
  <2>2. carico[s][h] > 0
    BY <1>2
  <2>3. mercato[p][h] <= -n
    BY <1>3, <2>1, <2>2 DEF MaiErroreScarico
  <2>4. mercato[p][h] \in Int
    BY <1>0, <1>2, Tipi
  <2> QED
    BY <2>3, <2>4
<1> DEFINE offerta == [x \in Porti |-> [g \in Merci |-> Offerta(mercato[x][g])]]
           domanda == [x \in Porti |-> [g \in Merci |-> Offerta(-mercato[x][g])]]
           offertaDopo == [x \in Porti |-> [g \in Merci |-> Offerta(mercato'[x][g])]]
           domandaDopo == [x \in Porti |-> [g \in Merci |-> Offerta(-mercato'[x][g])]]
<1>6. /\ [x \in Porti |-> [g \in Merci |-> Attesi(x, g)]] = domanda
      /\ [x \in Porti |-> [g \in Merci |-> Attesi(x, g)]]' = domandaDopo
  BY DEF Attesi
<1>7. offertaDopo = offerta
  <2>1. \A x \in Porti, g \in Merci : Offerta(mercato'[x][g]) = Offerta(mercato[x][g])
    <3>1. Offerta(mercato'[p][h]) = Offerta(mercato[p][h])
      BY <1>2, <1>4 DEF Offerta
    <3> QED
      BY <1>2, <3>1
  <2> QED
    BY <2>1
<1>8. /\ Esitata("consegnata")' = [Esitata("consegnata") EXCEPT
           ![h] = @ + (IF Esito(s, h) = "consegnata" THEN n ELSE 0)]
      /\ Esitata("scaduta_in_nave")' = [Esitata("scaduta_in_nave") EXCEPT
           ![h] = @ + (IF Esito(s, h) = "scaduta_in_nave" THEN n ELSE 0)]
  BY <1>1, EsitataScarica DEF Esiti
<1>9. \A e \in Esiti : [Esitata(e) EXCEPT ![h] = @ + 0] = Esitata(e)
  <2> TAKE e \in Esiti
  <2>1. ASSUME NEW g \in Merci PROVE merceDump[g][e] + InScaricoCome(g, e) \in Int
    <3>1. SoloSue(s)
      BY <1>0, PassoSoloSue
    <3>2. merceDump[g][e] \in Int /\ InScaricoCome(g, e) \in Nat
      BY <1>0, <3>1, SospesoCambia
    <3> QED
      BY <3>2
  <2> DEFINE a == [g \in Merci |-> merceDump[g][e] + InScaricoCome(g, e)]
  <2>2. a \in [Merci -> Int] /\ Esitata(e) = a
    BY <2>1 DEF Esitata
  <2> HIDE DEF a
  <2> QED
    BY <2>2
<1>10. CASE Scaduta(s, h)
  <2>1. domandaDopo = domanda
    <3>1. \A x \in Porti, g \in Merci : mercato'[x][g] = mercato[x][g]
      BY <1>2, <1>10
    <3> QED
      BY <3>1
  <2>2. Esitata("consegnata")' = Esitata("consegnata")
    BY <1>8, <1>9, <1>10 DEF Esito, Esiti
  <2>3. Esitata("scaduta_in_nave")' = [Esitata("scaduta_in_nave") EXCEPT ![h] = @ + n]
    BY <1>8, <1>10 DEF Esito
  <2>4. T!Scade(s, h)
    BY <1>2, <1>3, <1>6, <1>7, <2>1, <2>2, <2>3 DEF T!Scade, T!Cambia
  <2> QED
    BY <2>4
<1>11. CASE ~Scaduta(s, h)
  <2>1. domandaDopo[p][h] = domanda[p][h] + (-n) /\ n <= domanda[p][h]
    <3> DEFINE a == mercato[p][h]
               b == mercato'[p][h]
    <3>1. a \in Int /\ n \in Nat /\ a <= -n /\ b = a + n
      BY <1>2, <1>4, <1>11
    <3>2. domanda[p][h] = Offerta(-a) /\ domandaDopo[p][h] = Offerta(-b)
      BY <1>2
    <3> HIDE DEF a, b, n, domanda, domandaDopo
    <3>3. Offerta(-b) = Offerta(-a) + (-n) /\ n <= Offerta(-a)
      BY <3>1 DEF Offerta
    <3> QED
      BY <3>2, <3>3
  <2>2. \A x \in Porti, g \in Merci : ~(x = p /\ g = h) => domandaDopo[x][g] = domanda[x][g]
    BY <1>2
  <2>3. domandaDopo = T!Cambia(domanda, p, h, -n)
    <3> DEFINE v == domanda[p][h] + (-n)
    <3>1. v = domandaDopo[p][h]
      BY <2>1
    <3> HIDE DEF v
    <3>2. \A x \in Porti, g \in Merci :
            domandaDopo[x][g] = IF x = p /\ g = h THEN v ELSE domanda[x][g]
      BY <2>2, <3>1
    <3>3. [domanda EXCEPT ![p] = [domanda[p] EXCEPT ![h] = v]]
            = [x \in Porti |-> [g \in Merci |-> IF x = p /\ g = h THEN v ELSE domanda[x][g]]]
      BY <1>2
    <3>4. domandaDopo = [x \in Porti |-> [g \in Merci |-> IF x = p /\ g = h THEN v ELSE domanda[x][g]]]
      BY <3>2
    <3> QED
      BY <3>3, <3>4 DEF v, T!Cambia
  <2>4. Esitata("scaduta_in_nave")' = Esitata("scaduta_in_nave")
    BY <1>8, <1>9, <1>11 DEF Esito, Esiti
  <2>5. Esitata("consegnata")' = [Esitata("consegnata") EXCEPT ![h] = @ + n]
    BY <1>8, <1>11 DEF Esito
  <2>6. T!Consegna(s, h)
    <3>1. carico' = T!Cambia(carico, s, h, -n)
      BY <1>3 DEF T!Cambia
    <3>2. domanda[p][h] >= n /\ n > 0
      BY <1>2, <2>1
    <3> HIDE DEF domanda, domandaDopo
    <3> QED
      BY <1>2, <1>3, <1>6, <1>7, <2>1, <2>3, <2>4, <2>5, <3>1, <3>2 DEF T!Consegna
  <2> QED
    BY <2>6
<1> QED
  BY <1>10, <1>11

LEMMA ImplementaPasso ==
  ASSUME InvMerci, ResiduoNat, [Next]_vars
  PROVE  [T!Next]_(T!vars)
<1>0. IInv'
  BY NextIInv DEF InvMerci, Inv
<1>1. CASE Ferme
  <2>1. mercato' = mercato /\ porto' = porto /\ dest' = dest /\ carico' = carico
        /\ merceDump' = merceDump /\ scarico' = scarico /\ datascarico' = datascarico
    BY <1>1 DEF Ferme, merci, stiva, dump
  <2>2. EsitateFerme
    BY <2>1 DEF EsitateFerme, Esitata, InScaricoCome, Esito, Scaduta
  <2> QED
    BY <2>1, <2>2, TrasportoFermo
<1>2. ASSUME NEW s \in Navi, Passo(s) \/ Sigusr2(s) PROVE [T!Next]_(T!vars)
  <2>1. CASE Passo(s) /\ (CaricaPrima(s) \/ CaricaDest(s))
    <3>1. PICK g \in Merci, q \in Porti :
            \E n \in 1 .. Offerta(mercato[porto[s]][g]) : T!Carica(s, g, n, q)
      BY <1>0, <2>1, ImplementaCarica
    <3>2. porto[s] \in Porti
      BY Tipi DEF InvMerci, Inv
    <3>3. [p \in Porti |-> [x \in Merci |-> Offerta(mercato[p][x])]][porto[s]][g]
            = Offerta(mercato[porto[s]][g])
      BY <3>2
    <3>4. T!Next
      BY <3>1, <3>3, Zenon DEF T!Next
    <3> QED
      BY <3>4
  <2>2. CASE Passo(s) /\ Salta(s)
    BY <1>0, <2>2, ImplementaSalta DEF T!Next
  <2>3. CASE Passo(s) /\ RichiediBanchina(s)
    BY <1>0, <2>3, ImplementaApprodo DEF T!Next
  <2>4. CASE Passo(s) /\ ScaricaMercato(s)
    BY <1>0, <2>4, ImplementaScarica DEF T!Next
  <2>5. CASE ~(Passo(s) /\ (CaricaPrima(s) \/ CaricaDest(s) \/ Salta(s) \/ RichiediBanchina(s)
                            \/ ScaricaMercato(s)))
    <3>1. mercato' = mercato /\ porto' = porto /\ dest' = dest /\ carico' = carico
      <4>1. CASE Sigusr2(s)
        BY <4>1 DEF Sigusr2, altrove, merci, stiva
      <4>2. CASE Passo(s)
        BY <2>5, <4>2 DEF Passo, RiservaStato, ScriviStato,
             RiservaMercato, AccettaPrima, CodaVuota, RifiutaPrima, RimandaPrima,
             InviaResto, AccettaDest, NessunaPerDest, ValutaDest, RifiutaDest,
             ScartaDest, RimandaDest, RilasciaMercato, RiservaDump, ScriviDumpCarico,
             LasciaBanchina, LeggiData, ScriviDumpScarico, FineScarico, altrove, merci, stiva
      <4> QED
        BY <1>2, <4>1, <4>2
    <3>2. ~ScaricaMercato(s)
      BY <2>5 DEF Passo
    <3> QED
      BY <1>0, <1>2, <3>1, <3>2, EsitateImmobili, TrasportoFermo
  <2> QED
    BY <2>1, <2>2, <2>3, <2>4, <2>5
<1> QED
  BY <1>1, <1>2, ChiMuove

LEMMA ImplementaInit == Init => T!Init
<1> SUFFICES ASSUME Init PROVE T!Init
  OBVIOUS
<1>1. [x \in Porti |-> [g \in Merci |-> Offerta(mercato[x][g])]]
        = [x \in Porti |-> [g \in Merci |-> T!Positiva(mercato[x][g])]]
  BY DEF Offerta, T!Positiva
<1>2. [x \in Porti |-> [g \in Merci |-> Attesi(x, g)]]
        = [x \in Porti |-> [g \in Merci |-> T!Positiva(-mercato[x][g])]]
  BY DEF Attesi, Offerta, T!Positiva
<1>3. mercato \in MercatiIniziali /\ dest \in [Navi -> Porti] /\ porto = dest
      /\ carico = [s \in Navi |-> T!Vuota]
  BY DEF Init, T!Vuota
<1>4. ASSUME NEW e \in Esiti PROVE Esitata(e) = T!Vuota
  <2>1. ASSUME NEW g \in Merci PROVE merceDump[g][e] + InScaricoCome(g, e) = 0
    <3>1. merceDump[g][e] = 0
      BY DEF Init, InitMerce, Esiti, CampiMerce
    <3> DEFINE f == [s \in Navi |-> InSospeso(s, g, e)]
    <3>2. f \in [Navi -> Nat] /\ \A s \in Navi : f[s] = 0
      BY DEF Init, InSospeso
    <3>3. InScaricoCome(g, e) = Somma(f)
      BY DEF InScaricoCome, InSospeso
    <3> HIDE DEF f
    <3>4. Somma(f) = 0
      BY <3>2, SommaZero
    <3> QED
      BY <3>1, <3>3, <3>4
  <2> QED
    BY <2>1 DEF Esitata, T!Vuota
<1> QED
  BY <1>1, <1>2, <1>3, <1>4 DEF T!Init, Esiti

\* The ships, as they take turns on the market rows, the queue and the dump
\* (nave.c:118-313, nave_lib.c:53-147), implement Trasporto: nothing is
\* carried that was not offered, no more is under way to a port than it asks
\* for, and what leaves a hold is delivered or has expired.
THEOREM TrasportoImplementato == Spec => ImplementaTrasporto
<1>1. InvMerci /\ ResiduoNat /\ [Next]_vars => [T!Next]_(T!vars)
  BY ImplementaPasso
<1> QED
  BY SempreInvMerci, SempreResiduoNat, ImplementaInit, <1>1, PTL DEF Spec, ImplementaTrasporto, T!Spec

=============================================================================
