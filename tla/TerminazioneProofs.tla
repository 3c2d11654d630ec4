-------------------------- MODULE TerminazioneProofs --------------------------
(***************************************************************************)
(* Proofs about the final report, for any number of ports and whatever the *)
(* ships do meanwhile.  The port calcola_porti_term names is justified:    *)
(* the value last read of the winner's counter is at least what every port *)
(* already compared had at the start, and the counter itself only grows.   *)
(* And what the lines printed before it add up to is off by one update at  *)
(* most.                                                                   *)
(***************************************************************************)
EXTENDS StampaTerminazione, SommaProofs, SequenceTheorems, TLAPS

\* The ports the loop has compared in counter c, the first one included.
Confrontati(c) ==
  {p \in Porti : p < i \/ (p = i /\ c = "mercespedita" /\ campo = "mercericevuta")}

SoloCrescono == \A c \in Campi, p \in Porti : conta[c][p] >= inizio[c][p]

LettureFondate ==
  /\ \A c \in Campi : conta[c][vincitore[c]] >= noto[c]
  /\ sfidante.letto => i < SO_PORTI /\ sfidante.v >= inizio[campo][i]
                                    /\ conta[campo][i] >= sfidante.v

NotoFondato == \A c \in Campi : \A p \in Confrontati(c) : noto[c] >= inizio[c][p]

IndInv == TypeOK /\ SoloCrescono /\ LettureFondate /\ NotoFondato

\* The four parts hold before the loop starts.
LEMMA InizioFondato == Init => IndInv
  <1>1. SUFFICES ASSUME Init PROVE IndInv
    OBVIOUS
  <1>2. Porti \subseteq Nat /\ 0 \in Porti /\ 0 .. MAX_CONTA \subseteq Nat
    BY PortiTermAssumption DEF Porti
  <1>3. TypeOK
    BY <1>1, <1>2, PortiTermAssumption DEF Init, TypeOK, Campi
  <1>4. SoloCrescono
    BY <1>1, <1>3 DEF Init, SoloCrescono, TypeOK
  <1>5. LettureFondate
    BY <1>1, <1>3, <1>2 DEF Init, LettureFondate, TypeOK
  <1>6. ASSUME NEW c \in Campi, NEW p \in Confrontati(c)
        PROVE  noto[c] >= inizio[c][p]
    <2>1. p = 0
      BY <1>1, <1>2, <1>6 DEF Init, Confrontati
    <2>2. noto[c] = inizio[c][0] /\ inizio[c][0] \in Nat
      BY <1>1, <1>2, <1>3 DEF Init, TypeOK
    <2> QED BY <2>1, <2>2
  <1> QED BY <1>3, <1>4, <1>5, <1>6 DEF IndInv, NotoFondato

\* Reads, comparisons and the ships' own steps keep them.
LEMMA PassoFondato == IndInv /\ [Next]_vars => IndInv'
  <1> SUFFICES ASSUME IndInv, [Next]_vars PROVE IndInv'
    OBVIOUS
  <1> USE PortiTermAssumption
  <1>0. Porti \subseteq Nat /\ 0 \in Porti /\ 0 .. MAX_CONTA \subseteq Nat
    BY DEF Porti
  <1>1. ASSUME NEW c \in Campi, NEW p \in Porti, Cresce(c, p) PROVE IndInv'
    <2>1. PICK n \in 0 .. MAX_CONTA :
            n > conta[c][p] /\ conta' = [conta EXCEPT ![c][p] = n]
      BY <1>1 DEF Cresce
    <2>2. conta' \in [Campi -> [Porti -> Nat]]
      BY <2>1, <1>0 DEF IndInv, TypeOK
    <2>3. \A d \in Campi, q \in Porti : conta'[d][q] >= conta[d][q]
      BY <2>1, <1>0 DEF IndInv, TypeOK
    <2>4. TypeOK'
      BY <1>1, <2>2 DEF IndInv, TypeOK, Cresce, Campi
    <2>5. SoloCrescono'
      BY <1>1, <2>2, <2>3 DEF IndInv, TypeOK, SoloCrescono, Cresce
    <2>6. LettureFondate'
      <3>1. \A d \in Campi : conta'[d][vincitore[d]] >= noto[d]
        BY <2>2, <2>3 DEF IndInv, TypeOK, LettureFondate
      <3>2. ASSUME sfidante.letto PROVE conta'[campo][i] >= sfidante.v
        <4>1. i \in Porti
          BY <3>2 DEF IndInv, TypeOK, LettureFondate, Porti
        <4> QED BY <3>2, <4>1, <2>2, <2>3 DEF IndInv, TypeOK, LettureFondate
      <3> QED BY <1>1, <3>1, <3>2 DEF IndInv, LettureFondate, Cresce
    <2>7. NotoFondato'
      BY <1>1 DEF IndInv, NotoFondato, Cresce, Confrontati
    <2> QED BY <2>4, <2>5, <2>6, <2>7 DEF IndInv
  <1>2. CASE LeggiPorto
    <2>1. i \in Porti
      BY <1>2 DEF LeggiPorto, Fine, IndInv, TypeOK, Porti
    <2>2. TypeOK'
      BY <1>2, <2>1 DEF LeggiPorto, IndInv, TypeOK
    <2>3. SoloCrescono' /\ NotoFondato'
      BY <1>2 DEF LeggiPorto, IndInv, SoloCrescono, NotoFondato, Confrontati
    <2>4. LettureFondate'
      BY <1>2, <2>1 DEF LeggiPorto, Fine, IndInv, TypeOK, SoloCrescono, LettureFondate, Porti
    <2> QED BY <2>2, <2>3, <2>4 DEF IndInv
  <1>3. CASE LeggiVincitore
    <2>1. /\ \A c \in Campi : noto'[c] \in Nat /\ noto'[c] >= noto[c]
          /\ \A c \in Campi : conta[c][vincitore[c]] >= noto'[c]
      BY <1>3 DEF LeggiVincitore, IndInv, TypeOK, LettureFondate
    <2>2. TypeOK'
      BY <1>3, <2>1 DEF LeggiVincitore, IndInv, TypeOK
    <2>3. SoloCrescono' /\ LettureFondate'
      BY <1>3, <2>1 DEF LeggiVincitore, IndInv, SoloCrescono, LettureFondate
    <2>4. ASSUME NEW c \in Campi, NEW p \in Confrontati(c)'
          PROVE  noto'[c] >= inizio'[c][p]
      <3>1. p \in Confrontati(c) /\ p \in Porti /\ inizio' = inizio
        BY <1>3, <2>4 DEF LeggiVincitore, Confrontati
      <3>2. noto[c] >= inizio[c][p]
        BY <3>1 DEF IndInv, NotoFondato
      <3> QED BY <3>1, <3>2, <2>1 DEF IndInv, TypeOK
    <2> QED BY <2>2, <2>3, <2>4 DEF IndInv, NotoFondato
  <1>4. CASE Confronta
    <2>1. /\ i \in Porti /\ i < SO_PORTI /\ campo \in Campi
          /\ sfidante.v \in Nat /\ sfidante.v >= inizio[campo][i]
          /\ conta[campo][i] >= sfidante.v
      BY <1>4 DEF Confronta, Fine, IndInv, TypeOK, LettureFondate, Porti
    <2>2. noto' \in [Campi -> Nat] /\ vincitore' \in [Campi -> Porti]
      BY <1>4, <2>1 DEF Confronta, IndInv, TypeOK
    <2>3. /\ \A c \in Campi : noto'[c] >= noto[c]
          /\ noto'[campo] >= sfidante.v
          /\ \A c \in Campi : conta[c][vincitore'[c]] >= noto'[c]
      <3>1. CASE sfidante.v > noto[campo]
        <4>1. /\ vincitore' = [vincitore EXCEPT ![campo] = i]
              /\ noto' = [noto EXCEPT ![campo] = sfidante.v]
          BY <1>4, <3>1 DEF Confronta, Maggiore
        <4> QED BY <3>1, <4>1, <2>1 DEF IndInv, TypeOK, LettureFondate
      <3>2. CASE ~(sfidante.v > noto[campo])
        <4>1. vincitore' = vincitore /\ noto' = noto
          BY <1>4, <3>2 DEF Confronta, Maggiore
        <4> QED BY <3>2, <4>1, <2>1 DEF IndInv, TypeOK, LettureFondate
      <3> QED BY <3>1, <3>2
    <2>4. TypeOK'
      <3>1. /\ sfidante' = [letto |-> FALSE, v |-> 0]
            /\ UNCHANGED <<conta, inizio>>
        BY <1>4 DEF Confronta
      <3>2. campo' \in Campi /\ i' \in 1 .. SO_PORTI
        <4>1. i \in Nat /\ i \in 1 .. SO_PORTI
          BY DEF IndInv, TypeOK
        <4>2. CASE campo = "mercespedita"
          BY <1>4, <4>1, <4>2 DEF Confronta, Campi
        <4>3. CASE campo # "mercespedita"
          BY <1>4, <2>1, <4>1, <4>3 DEF Confronta, Campi
        <4> QED BY <4>2, <4>3
      <3> QED BY <3>1, <3>2, <2>2 DEF IndInv, TypeOK
    <2>5. SoloCrescono' /\ LettureFondate'
      BY <1>4, <2>3 DEF Confronta, IndInv, SoloCrescono, LettureFondate
    <2>6. ASSUME NEW c \in Campi, NEW p \in Confrontati(c)'
          PROVE  noto'[c] >= inizio'[c][p]
      <3>1. p \in Porti /\ inizio' = inizio /\ noto[c] \in Nat /\ inizio[c][p] \in Nat
            /\ noto'[c] \in Nat /\ i \in Nat
        BY <1>4, <2>2, <2>6 DEF Confronta, Confrontati, IndInv, TypeOK
      <3>2. CASE p \in Confrontati(c)
        BY <3>1, <3>2, <2>3 DEF IndInv, NotoFondato
      <3>3. CASE p \notin Confrontati(c)
        <4>1. p = i /\ c = campo
          <5>1. p \in Nat /\ ~(p < i)
                /\ ~(p = i /\ c = "mercespedita" /\ campo = "mercericevuta")
            BY <3>1, <3>3, <1>0 DEF Confrontati
          <5>2. p < i' \/ (p = i' /\ c = "mercespedita" /\ campo' = "mercericevuta")
            BY <2>6 DEF Confrontati
          <5>3. CASE campo = "mercespedita"
            <6>1. i' = i /\ campo' = "mercericevuta"
              BY <1>4, <5>3 DEF Confronta
            <6> QED BY <5>1, <5>2, <5>3, <6>1
          <5>4. CASE campo = "mercericevuta"
            <6>1. i' = i + 1 /\ campo' = "mercespedita"
              BY <1>4, <5>4 DEF Confronta
            <6>2. p = i
              BY <3>1, <5>1, <5>2, <6>1
            <6> QED BY <5>1, <5>4, <6>2 DEF Campi
          <5> QED BY <2>1, <5>3, <5>4 DEF Campi
        <4> QED BY <4>1, <3>1, <2>1, <2>3
      <3> QED BY <3>2, <3>3
    <2> QED BY <2>4, <2>5, <2>6 DEF IndInv, NotoFondato
  <1>5. CASE UNCHANGED vars
    BY <1>5 DEF vars, IndInv, TypeOK, SoloCrescono, LettureFondate, NotoFondato, Confrontati
  <1> QED BY <1>1, <1>2, <1>3, <1>4, <1>5 DEF Next

\* When the loop has ended every port has been compared.
LEMMA IndInvBasta == IndInv => VincitoreFondato
  <1> SUFFICES ASSUME IndInv, Fine, NEW c \in Campi, NEW p \in Porti
               PROVE  conta[c][vincitore[c]] >= inizio[c][p]
    BY DEF VincitoreFondato
  <1>1. p \in Confrontati(c)
    BY PortiTermAssumption DEF Fine, Confrontati, Porti, IndInv, TypeOK
  <1>2. noto[c] >= inizio[c][p]
    BY <1>1 DEF IndInv, NotoFondato
  <1> QED BY <1>2 DEF IndInv, TypeOK, LettureFondate

\* Whatever the ships do during the search, the port the final report names has
\* at the end at least what any port had when the search started
\* (calcola_porti_term, master_lib.c:188-201).
THEOREM VincitoreSempreFondato == Spec => []VincitoreFondato
  BY IndInvBasta, InizioFondato, PassoFondato, PTL DEF Spec

-----------------------------------------------------------------------------
(* What is printed of the dump.  The invariant speaks of the counters and  *)
(* of what the update in progress has still to add to them: the two        *)
(* together are always the lots there are, the second moves one way, and   *)
(* what has been printed bounds what can still be printed.                 *)

\* What the update in progress has still to add to field f.
Sospeso(f) == IF f \in DOMAIN resta THEN resta[f] ELSE 0

DumpTipi ==
  /\ dump \in [S!Campi -> Int]
  /\ semDump \in {0, 1}
  /\ DOMAIN resta \subseteq S!Campi
  /\ \A f \in DOMAIN resta : resta[f] \in Int
  /\ semDump = 1 => DOMAIN resta = {}
  /\ stampato \in Seq(Int)
  /\ Len(stampato) <= 4 + 2 * SO_PORTI

\* An update delivers, expires or sends lots, and takes them from where they
\* are: no more of them than one update moves.
SospesoNeiLimiti ==
  /\ Sospeso(S!Consegnata) >= 0 /\ Sospeso(S!Scaduta) >= 0 /\ dump[S!Scaduta] >= 0
  /\ Sospeso(S!InPorto) \in -MAX_LOTTI .. 0
  /\ Sospeso(S!InNave) >= -MAX_LOTTI
  /\ Sospeso(S!InNave) + Sospeso(S!InPorto) >= -MAX_LOTTI
  /\ \A p \in Porti : /\ Sospeso(S!Spedita(p)) \in 0 .. MAX_LOTTI
                      /\ Sospeso(S!Presente(p)) <= 0

LottiConservati ==
  /\ dump[S!Consegnata] + dump[S!InNave] + dump[S!InPorto] + dump[S!Scaduta]
       + Sospeso(S!Consegnata) + Sospeso(S!InNave) + Sospeso(S!InPorto)
       + Sospeso(S!Scaduta) = S!Totale
  /\ \A p \in Porti :
       dump[S!Presente(p)] + dump[S!Spedita(p)]
         + Sospeso(S!Presente(p)) + Sospeso(S!Spedita(p)) = Offerti[p]

\* The delivered lots only grow, and those in port only shrink.
MerceLimitata ==
  /\ Len(stampato) >= 1 => stampato[1] <= dump[S!Consegnata]
  /\ Len(stampato) >= 2 => stampato[1] + stampato[2] + dump[S!InPorto] <= S!Totale + MAX_LOTTI
  /\ Len(stampato) >= 3 => stampato[1] + stampato[2] + stampato[3] <= S!Totale + MAX_LOTTI

\* The lots sent only grow.
PortoLimitato(p) ==
  /\ Len(stampato) >= 5 + 2 * p =>
       stampato[5 + 2 * p] + dump[S!Spedita(p)] >= Offerti[p] - MAX_LOTTI
  /\ Len(stampato) >= 6 + 2 * p =>
       stampato[5 + 2 * p] + stampato[6 + 2 * p] >= Offerti[p] - MAX_LOTTI

InvStampa ==
  /\ DumpTipi /\ SospesoNeiLimiti /\ LottiConservati /\ MerceLimitata
  /\ \A p \in Porti : PortoLimitato(p)

LEMMA TotaleNat == S!Totale \in Nat
<1>1. S!Unita(Offerti) = Unita(Offerti)
  BY DEF S!Unita, Unita
<1>2. \A D : S!Cardinality(D) = Cardinality(D)
  BY DEF S!Cardinality, Cardinality
<1>3. S!Somma(Offerti) = Somma(Offerti)
  BY <1>1, <1>2 DEF S!Somma, Somma
<1>4. IsFiniteSet(Porti)
  BY PortiTermAssumption, FS_Interval DEF Porti
<1> QED
  BY <1>3, <1>4, StampaAssumption, UnitaFinita DEF S!Totale

\* The fields are all different.
LEMMA CampiDiversi ==
  /\ {S!Consegnata, S!InNave, S!InPorto, S!Scaduta} \subseteq S!Campi
  /\ \A p \in Porti : S!Presente(p) \in S!Campi /\ S!Spedita(p) \in S!Campi
  /\ S!Consegnata # S!InNave /\ S!Consegnata # S!InPorto /\ S!Consegnata # S!Scaduta
  /\ S!InNave # S!InPorto /\ S!InNave # S!Scaduta /\ S!InPorto # S!Scaduta
  /\ \A p : /\ S!Presente(p) \notin {S!Consegnata, S!InNave, S!InPorto, S!Scaduta}
            /\ S!Spedita(p) \notin {S!Consegnata, S!InNave, S!InPorto, S!Scaduta}
  /\ \A p, q : S!Presente(p) # S!Spedita(q)
  /\ \A p, q : (S!Presente(p) = S!Presente(q) \/ S!Spedita(p) = S!Spedita(q)) => p = q
BY DEF S!Campi, S!Porti, Porti, S!Consegnata, S!InNave, S!InPorto, S!Scaduta, S!Presente, S!Spedita

\* Where each field is printed.
LEMMA RigheOrdine ==
  /\ Len(S!Righe) = 4 + 2 * SO_PORTI
  /\ \A j \in 1 .. 4 + 2 * SO_PORTI :
       /\ S!Righe[j] = S!Consegnata <=> j = 1
       /\ S!Righe[j] = S!InNave <=> j = 2
       /\ S!Righe[j] = S!InPorto <=> j = 3
       /\ S!Righe[j] \in S!Campi
       /\ \A p \in Porti : /\ S!Righe[j] = S!Presente(p) <=> j = 5 + 2 * p
                           /\ S!Righe[j] = S!Spedita(p) <=> j = 6 + 2 * p
<1> DEFINE n == 4 + 2 * SO_PORTI
<1>1. n \in Nat /\ n >= 4 /\ Porti \subseteq Nat /\ \A p \in Porti : 6 + 2 * p <= n
  BY PortiTermAssumption DEF Porti
<1>2. S!Righe = [j \in 1 .. n |-> S!Righe[j]]
  BY DEF S!Righe
<1>3. Len(S!Righe) = n
  BY <1>1, <1>2
<1>4. ASSUME NEW j \in 1 .. n, j <= 4
      PROVE  S!Righe[j] = IF j = 1 THEN S!Consegnata ELSE IF j = 2 THEN S!InNave
                          ELSE IF j = 3 THEN S!InPorto ELSE S!Scaduta
  BY <1>1, <1>4 DEF S!Righe, S!RigheMerce
<1>5. ASSUME NEW p \in Porti
      PROVE  S!Righe[5 + 2 * p] = S!Presente(p) /\ S!Righe[6 + 2 * p] = S!Spedita(p)
  <2>1. p \in Nat /\ 5 + 2 * p \in 1 .. n /\ 6 + 2 * p \in 1 .. n
    BY <1>1
  <2>2. /\ ((5 + 2 * p) - 5) \div 2 = p /\ ((5 + 2 * p) - 5) % 2 = 0
        /\ ((6 + 2 * p) - 5) \div 2 = p /\ ((6 + 2 * p) - 5) % 2 = 1
    BY <2>1
  <2>3. S!Righe[5 + 2 * p] = S!RighePorto(p)[1]
    BY <2>1, <2>2 DEF S!Righe
  <2>4. S!Righe[6 + 2 * p] = S!RighePorto(p)[2]
    BY <2>1, <2>2 DEF S!Righe
  <2> QED
    BY <2>3, <2>4 DEF S!RighePorto
<1>6. ASSUME NEW j \in 1 .. n, j > 4
      PROVE  \E p \in Porti : j = 5 + 2 * p \/ j = 6 + 2 * p
  <2> DEFINE q == (j - 5) \div 2
  <2>1. j \in Nat /\ j - 5 \in Nat
    BY <1>1, <1>6
  <2>2. q \in Nat /\ (j = 5 + 2 * q \/ j = 6 + 2 * q)
    BY <2>1
  <2>3. q \in Porti
    BY <1>1, <2>2, PortiTermAssumption DEF Porti
  <2> QED
    BY <2>2, <2>3
<1> HIDE DEF n
<1>7. ASSUME NEW j \in 1 .. n
      PROVE  /\ S!Righe[j] = S!Consegnata <=> j = 1
             /\ S!Righe[j] = S!InNave <=> j = 2
             /\ S!Righe[j] = S!InPorto <=> j = 3
             /\ S!Righe[j] \in S!Campi
             /\ \A p \in Porti : /\ S!Righe[j] = S!Presente(p) <=> j = 5 + 2 * p
                                 /\ S!Righe[j] = S!Spedita(p) <=> j = 6 + 2 * p
  <2>1. CASE j <= 4
    <3>1. \A p \in Porti : 5 + 2 * p > 4 /\ 6 + 2 * p > 4 /\ p \in Nat
      BY <1>1
    <3>2. j \in {1, 2, 3, 4}
      BY <1>1, <2>1
    <3> QED
      BY <1>4, <2>1, <3>1, <3>2, CampiDiversi
  <2>2. CASE j > 4
    <3>1. PICK q \in Porti : j = 5 + 2 * q \/ j = 6 + 2 * q
      BY <1>6, <2>2
    <3>2. /\ \A p \in Porti : j = 5 + 2 * p => p = q /\ j = 5 + 2 * q
          /\ \A p \in Porti : j = 6 + 2 * p => p = q /\ j = 6 + 2 * q
          /\ j # 1 /\ j # 2 /\ j # 3
      BY <1>1, <2>2, <3>1
    <3>3. CASE j = 5 + 2 * q
      <4>1. S!Righe[j] = S!Presente(q) /\ j # 6 + 2 * q
        BY <1>1, <1>5, <3>3
      <4> QED
        BY <3>2, <3>3, <4>1, CampiDiversi
    <3>4. CASE j = 6 + 2 * q
      <4>1. S!Righe[j] = S!Spedita(q) /\ j # 5 + 2 * q
        BY <1>1, <1>5, <3>4
      <4> QED
        BY <3>2, <3>4, <4>1, CampiDiversi
    <3> QED
      BY <3>1, <3>3, <3>4
  <2> QED
    BY <1>1, <2>1, <2>2
<1> QED
  BY <1>3, <1>7 DEF n

LEMMA InizioStampa == S!Init => InvStampa
<1> SUFFICES ASSUME S!Init PROVE InvStampa
  OBVIOUS
<1>1. /\ DOMAIN resta = {} /\ semDump = 1 /\ stampato = <<>>
      /\ dump = [f \in S!Campi |-> IF f = S!InPorto THEN S!Totale
                   ELSE IF f[1] = "mercepresente" THEN Offerti[f[2]] ELSE 0]
  BY DEF S!Init, S!Nulla
<1>2. \A f : Sospeso(f) = 0
  BY <1>1 DEF Sospeso
<1>3. /\ dump[S!InPorto] = S!Totale /\ dump[S!Consegnata] = 0
      /\ dump[S!InNave] = 0 /\ dump[S!Scaduta] = 0
  BY <1>1, CampiDiversi DEF S!Consegnata, S!InNave, S!Scaduta, S!InPorto
<1>4. ASSUME NEW p \in Porti
      PROVE  dump[S!Presente(p)] = Offerti[p] /\ dump[S!Spedita(p)] = 0
  <2>1. /\ S!Presente(p) \in S!Campi /\ S!Presente(p) # S!InPorto
        /\ S!Spedita(p) \in S!Campi /\ S!Spedita(p) # S!InPorto
    BY CampiDiversi
  <2>2. /\ S!Presente(p)[1] = "mercepresente" /\ S!Presente(p)[2] = p
        /\ S!Spedita(p)[1] = "mercespedita"
    BY DEF S!Presente, S!Spedita
  <2> QED
    BY <1>1, <2>1, <2>2
<1>5. dump \in [S!Campi -> Int]
  <2>1. ASSUME NEW f \in S!Campi PROVE dump[f] \in Int
    <3>1. f \in {S!Consegnata, S!InNave, S!InPorto, S!Scaduta}
          \/ \E p \in Porti : f = S!Presente(p) \/ f = S!Spedita(p)
      BY DEF S!Campi, S!Porti, Porti
    <3> QED
      BY <1>3, <1>4, <3>1, TotaleNat, StampaAssumption
  <2> QED
    BY <1>1, <2>1
<1>6. Len(stampato) = 0 /\ stampato \in Seq(Int)
  BY <1>1
<1>7. DumpTipi
  BY <1>1, <1>5, <1>6, PortiTermAssumption DEF DumpTipi
<1>8. SospesoNeiLimiti
  BY <1>2, <1>3, StampaAssumption DEF SospesoNeiLimiti
<1>9. LottiConservati
  BY <1>2, <1>3, <1>4, TotaleNat, StampaAssumption DEF LottiConservati
<1>10. MerceLimitata /\ \A p \in Porti : PortoLimitato(p)
  BY <1>6, PortiTermAssumption DEF MerceLimitata, PortoLimitato, Porti
<1> QED
  BY <1>7, <1>8, <1>9, <1>10 DEF InvStampa

\* What a number is.
LEMMA TipiStampa ==
  ASSUME DumpTipi
  PROVE  /\ \A f \in S!Campi : dump[f] \in Int /\ Sospeso(f) \in Int
         /\ Len(stampato) \in Nat /\ \A j \in 1 .. Len(stampato) : stampato[j] \in Int
<1>1. \A f \in S!Campi : dump[f] \in Int /\ Sospeso(f) \in Int
  BY DEF DumpTipi, Sospeso
<1>2. stampato \in Seq(Int)
  BY DEF DumpTipi
<1> QED
  BY <1>1, <1>2, LenProperties, ElementOfSeq

\* A step that only moves counters, each towards what it will be.
LEMMA LimitiFermi ==
  ASSUME InvStampa, DumpTipi', stampato' = stampato,
         dump'[S!Consegnata] >= dump[S!Consegnata], dump'[S!InPorto] <= dump[S!InPorto],
         \A p \in Porti : dump'[S!Spedita(p)] >= dump[S!Spedita(p)]
  PROVE  MerceLimitata' /\ \A p \in Porti : PortoLimitato(p)'
<1>1. /\ \A f \in S!Campi : dump[f] \in Int /\ dump'[f] \in Int
      /\ Len(stampato) \in Nat /\ \A j \in 1 .. Len(stampato) : stampato[j] \in Int
  <2>1. /\ \A f \in S!Campi : dump[f] \in Int
        /\ Len(stampato) \in Nat /\ \A j \in 1 .. Len(stampato) : stampato[j] \in Int
    BY TipiStampa DEF InvStampa
  <2>2. \A f \in S!Campi : dump'[f] \in Int
    BY DEF DumpTipi
  <2> QED
    BY <2>1, <2>2
<1>2. /\ S!Consegnata \in S!Campi /\ S!InPorto \in S!Campi
      /\ \A p \in Porti : S!Spedita(p) \in S!Campi
  BY CampiDiversi
<1>3. MerceLimitata'
  <2>1. /\ 1 <= Len(stampato) => stampato[1] \in Int
        /\ 2 <= Len(stampato) => stampato[1] \in Int /\ stampato[2] \in Int
    BY <1>1
  <2>2. dump[S!Consegnata] \in Int /\ dump'[S!Consegnata] \in Int
        /\ dump[S!InPorto] \in Int /\ dump'[S!InPorto] \in Int
    BY <1>1, <1>2
  <2> QED
    BY <1>1, <2>1, <2>2, TotaleNat, StampaAssumption DEF InvStampa, MerceLimitata
<1>4. ASSUME NEW p \in Porti PROVE PortoLimitato(p)'
  <2>1. p \in Nat /\ Offerti[p] \in Nat /\ MAX_LOTTI \in Nat
    BY PortiTermAssumption, StampaAssumption DEF Porti
  <2>2. dump[S!Spedita(p)] \in Int /\ dump'[S!Spedita(p)] \in Int
    BY <1>1, <1>2
  <2>3. 5 + 2 * p <= Len(stampato) => stampato[5 + 2 * p] \in Int
    BY <1>1, <2>1
  <2>4. PortoLimitato(p) /\ dump'[S!Spedita(p)] >= dump[S!Spedita(p)]
    BY DEF InvStampa
  <2> QED
    BY <1>1, <2>1, <2>2, <2>3, <2>4 DEF PortoLimitato
<1> QED
  BY <1>3, <1>4

\* What a set of changes adds to field f.
Aggiunge(d, f) == IF f \in DOMAIN d THEN d[f] ELSE 0

\* Entering the critical section: the changes are what is to be added.
LEMMA PassoAggiorna ==
  ASSUME InvStampa, NEW d, S!Aggiorna(d),
         DOMAIN d \subseteq S!Campi, \A f \in DOMAIN d : d[f] \in Int,
         Aggiunge(d, S!Consegnata) >= 0, Aggiunge(d, S!Scaduta) >= 0,
         Aggiunge(d, S!InPorto) \in -MAX_LOTTI .. 0,
         Aggiunge(d, S!InNave) >= -MAX_LOTTI,
         Aggiunge(d, S!InNave) + Aggiunge(d, S!InPorto) >= -MAX_LOTTI,
         Aggiunge(d, S!Consegnata) + Aggiunge(d, S!InNave) + Aggiunge(d, S!InPorto)
           + Aggiunge(d, S!Scaduta) = 0,
         \A p \in Porti : /\ Aggiunge(d, S!Spedita(p)) \in 0 .. MAX_LOTTI
                          /\ Aggiunge(d, S!Presente(p)) <= 0
                          /\ Aggiunge(d, S!Presente(p)) + Aggiunge(d, S!Spedita(p)) = 0
  PROVE  InvStampa'
<1>1. semDump = 1 /\ semDump' = 0 /\ resta' = d /\ dump' = dump /\ stampato' = stampato
  BY DEF S!Aggiorna
<1>2. \A f : Sospeso(f) = 0 /\ Sospeso(f)' = Aggiunge(d, f)
  BY <1>1 DEF InvStampa, DumpTipi, Sospeso, Aggiunge
<1>3. DumpTipi'
  BY <1>1 DEF InvStampa, DumpTipi
<1>4. SospesoNeiLimiti'
  BY <1>1, <1>2 DEF InvStampa, SospesoNeiLimiti
<1>5. LottiConservati'
  <2>1. /\ \A f \in S!Campi : dump[f] \in Int
        /\ \A f : Aggiunge(d, f) \in Int
    BY DEF InvStampa, DumpTipi, Aggiunge
  <2>2. dump[S!Consegnata] + dump[S!InNave] + dump[S!InPorto] + dump[S!Scaduta] = S!Totale
    <3>1. dump[S!Consegnata] \in Int /\ dump[S!InNave] \in Int /\ dump[S!InPorto] \in Int
          /\ dump[S!Scaduta] \in Int
      BY <2>1, CampiDiversi
    <3> QED
      BY <1>2, <3>1 DEF InvStampa, LottiConservati
  <2>3. dump[S!Consegnata] + dump[S!InNave] + dump[S!InPorto] + dump[S!Scaduta]
         + Aggiunge(d, S!Consegnata) + Aggiunge(d, S!InNave) + Aggiunge(d, S!InPorto)
         + Aggiunge(d, S!Scaduta) = S!Totale
    <3>1. dump[S!Consegnata] \in Int /\ dump[S!InNave] \in Int /\ dump[S!InPorto] \in Int
          /\ dump[S!Scaduta] \in Int
      BY <2>1, CampiDiversi
    <3> QED
      BY <2>1, <2>2, <3>1
  <2>4. ASSUME NEW p \in Porti
        PROVE  dump[S!Presente(p)] + dump[S!Spedita(p)]
                 + Aggiunge(d, S!Presente(p)) + Aggiunge(d, S!Spedita(p)) = Offerti[p]
    <3>1. dump[S!Presente(p)] \in Int /\ dump[S!Spedita(p)] \in Int
      BY <2>1, CampiDiversi
    <3>2. dump[S!Presente(p)] + dump[S!Spedita(p)] = Offerti[p]
      BY <1>2, <3>1 DEF InvStampa, LottiConservati
    <3> QED
      BY <2>1, <3>1, <3>2
  <2> QED
    BY <1>1, <1>2, <2>3, <2>4 DEF LottiConservati
<1>6. MerceLimitata' /\ \A p \in Porti : PortoLimitato(p)'
  <2>1. \A f \in S!Campi : dump[f] \in Int
    BY DEF InvStampa, DumpTipi
  <2>2. /\ dump'[S!Consegnata] >= dump[S!Consegnata] /\ dump'[S!InPorto] <= dump[S!InPorto]
        /\ \A p \in Porti : dump'[S!Spedita(p)] >= dump[S!Spedita(p)]
    BY <1>1, <2>1, CampiDiversi
  <2> QED
    BY <1>1, <1>3, <2>2, LimitiFermi
<1> QED
  BY <1>3, <1>4, <1>5, <1>6 DEF InvStampa

LEMMA PassoCarica ==
  ASSUME InvStampa, NEW q \in Porti, NEW n \in 1 .. MAX_LOTTI, S!Carica(q, n)
  PROVE  InvStampa'
<1> DEFINE da == {S!Presente(q), S!InPorto}
           a  == {S!Spedita(q), S!InNave}
           d  == S!Sposta(da, a, n)
<1>1. S!Aggiorna(d)
  BY DEF S!Carica
<1>2. /\ DOMAIN d = {S!Presente(q), S!InPorto, S!Spedita(q), S!InNave}
      /\ \A f \in DOMAIN d : d[f] = IF f \in a THEN n ELSE -n
  BY DEF S!Sposta
<1>3. n \in Nat /\ -n \in Int /\ n <= MAX_LOTTI /\ MAX_LOTTI \in Nat
  BY StampaAssumption
<1> HIDE DEF d
<1>4. /\ DOMAIN d \subseteq S!Campi
      /\ \A f \in DOMAIN d : d[f] \in Int
  <2>1. S!InPorto \in S!Campi /\ S!InNave \in S!Campi
        /\ S!Presente(q) \in S!Campi /\ S!Spedita(q) \in S!Campi
    BY CampiDiversi
  <2>2. DOMAIN d \subseteq S!Campi
    BY <1>2, <2>1
  <2>3. \A f \in DOMAIN d : d[f] \in Int
    BY <1>2, <1>3
  <2> QED
    BY <2>2, <2>3
<1>5. /\ Aggiunge(d, S!Consegnata) = 0 /\ Aggiunge(d, S!Scaduta) = 0
      /\ Aggiunge(d, S!InPorto) = -n /\ Aggiunge(d, S!InNave) = n
  BY <1>2, CampiDiversi DEF Aggiunge
<1>6. ASSUME NEW p \in Porti
      PROVE  /\ Aggiunge(d, S!Spedita(p)) = IF p = q THEN n ELSE 0
             /\ Aggiunge(d, S!Presente(p)) = IF p = q THEN -n ELSE 0
  BY <1>2, CampiDiversi DEF Aggiunge
<1>7. \A p \in Porti : /\ Aggiunge(d, S!Spedita(p)) \in 0 .. MAX_LOTTI
                       /\ Aggiunge(d, S!Presente(p)) <= 0
                       /\ Aggiunge(d, S!Presente(p)) + Aggiunge(d, S!Spedita(p)) = 0
  BY <1>3, <1>6
<1>8. /\ Aggiunge(d, S!Consegnata) >= 0 /\ Aggiunge(d, S!Scaduta) >= 0
      /\ Aggiunge(d, S!InPorto) \in -MAX_LOTTI .. 0
      /\ Aggiunge(d, S!InNave) >= -MAX_LOTTI
      /\ Aggiunge(d, S!InNave) + Aggiunge(d, S!InPorto) >= -MAX_LOTTI
      /\ Aggiunge(d, S!Consegnata) + Aggiunge(d, S!InNave) + Aggiunge(d, S!InPorto)
           + Aggiunge(d, S!Scaduta) = 0
  BY <1>3, <1>5
<1> QED
  BY <1>1, <1>4, <1>7, <1>8, PassoAggiorna

LEMMA PassoScarica ==
  ASSUME InvStampa, NEW n \in 1 .. MAX_LOTTI, S!Scarica(n)
  PROVE  InvStampa'
<1>1. PICK dove \in {S!Consegnata, S!Scaduta} : S!Aggiorna(S!Sposta({S!InNave}, {dove}, n))
  BY DEF S!Scarica
<1> DEFINE d == S!Sposta({S!InNave}, {dove}, n)
<1>2. /\ DOMAIN d = {S!InNave, dove}
      /\ \A f \in DOMAIN d : d[f] = IF f = dove THEN n ELSE -n
  BY DEF S!Sposta
<1>3. n \in Nat /\ -n \in Int /\ n <= MAX_LOTTI /\ MAX_LOTTI \in Nat
  BY StampaAssumption
<1>4. /\ DOMAIN d \subseteq S!Campi
      /\ \A f \in DOMAIN d : d[f] \in Int
  BY <1>2, <1>3, CampiDiversi
<1> HIDE DEF d
<1>5. /\ Aggiunge(d, S!Consegnata) = IF dove = S!Consegnata THEN n ELSE 0
      /\ Aggiunge(d, S!Scaduta) = IF dove = S!Consegnata THEN 0 ELSE n
      /\ Aggiunge(d, S!InPorto) = 0 /\ Aggiunge(d, S!InNave) = -n
  BY <1>2, CampiDiversi DEF Aggiunge
<1>6. \A p \in Porti : Aggiunge(d, S!Spedita(p)) = 0 /\ Aggiunge(d, S!Presente(p)) = 0
  BY <1>2, CampiDiversi DEF Aggiunge
<1>7. \A p \in Porti : /\ Aggiunge(d, S!Spedita(p)) \in 0 .. MAX_LOTTI
                       /\ Aggiunge(d, S!Presente(p)) <= 0
                       /\ Aggiunge(d, S!Presente(p)) + Aggiunge(d, S!Spedita(p)) = 0
  BY <1>3, <1>6
<1>8. /\ Aggiunge(d, S!Consegnata) >= 0 /\ Aggiunge(d, S!Scaduta) >= 0
      /\ Aggiunge(d, S!InPorto) \in -MAX_LOTTI .. 0
      /\ Aggiunge(d, S!InNave) >= -MAX_LOTTI
      /\ Aggiunge(d, S!InNave) + Aggiunge(d, S!InPorto) >= -MAX_LOTTI
      /\ Aggiunge(d, S!Consegnata) + Aggiunge(d, S!InNave) + Aggiunge(d, S!InPorto)
           + Aggiunge(d, S!Scaduta) = 0
  BY <1>3, <1>5
<1> QED
  BY <1>1, <1>4, <1>7, <1>8, PassoAggiorna DEF d

LEMMA PassoScrive ==
  ASSUME InvStampa, S!Scrive
  PROVE  InvStampa'
<1>1. PICK f \in DOMAIN resta :
        /\ dump' = [dump EXCEPT ![f] = @ + resta[f]]
        /\ resta' = S!Restrict(resta, DOMAIN resta \ {f})
        /\ semDump' = semDump /\ stampato' = stampato
  BY DEF S!Scrive
<1>2. /\ DOMAIN resta' = DOMAIN resta \ {f}
      /\ \A g \in DOMAIN resta' : resta'[g] = resta[g]
  BY <1>1 DEF S!Restrict
<1>3. /\ dump \in [S!Campi -> Int] /\ f \in S!Campi /\ resta[f] \in Int
      /\ DOMAIN resta \subseteq S!Campi /\ \A g \in DOMAIN resta : resta[g] \in Int
  BY DEF InvStampa, DumpTipi
<1>4. DumpTipi'
  <2>1. dump' \in [S!Campi -> Int]
    <3>1. dump[f] + resta[f] \in Int
      BY <1>3
    <3> QED
      BY <1>1, <1>3, <3>1
  <2>2. DOMAIN resta' \subseteq S!Campi /\ \A g \in DOMAIN resta' : resta'[g] \in Int
    BY <1>2, <1>3
  <2>3. semDump' = 1 => DOMAIN resta' = {}
    BY <1>1, <1>2 DEF InvStampa, DumpTipi
  <2> QED
    BY <1>1, <2>1, <2>2, <2>3 DEF InvStampa, DumpTipi
<1>5. ASSUME NEW g \in S!Campi
      PROVE  /\ dump[g] \in Int /\ Sospeso(g) \in Int /\ dump'[g] \in Int
             /\ \/ dump'[g] = dump[g] /\ Sospeso(g)' = Sospeso(g)
                \/ dump'[g] = dump[g] + Sospeso(g) /\ Sospeso(g)' = 0
  <2>1. CASE g = f
    <3>1. /\ Sospeso(f) = resta[f] /\ Sospeso(f)' = 0
          /\ dump'[f] = dump[f] + resta[f] /\ dump[f] \in Int
      BY <1>1, <1>2, <1>3 DEF Sospeso
    <3> QED
      BY <1>3, <2>1, <3>1
  <2>2. CASE g # f
    <3>1. dump'[g] = dump[g] /\ dump[g] \in Int
      BY <1>1, <1>3, <2>2
    <3>2. Sospeso(g)' = Sospeso(g) /\ Sospeso(g) \in Int
      BY <1>2, <1>3, <2>2 DEF Sospeso
    <3> QED
      BY <3>1, <3>2
  <2> QED
    BY <2>1, <2>2
<1>6. /\ S!Consegnata \in S!Campi /\ S!InNave \in S!Campi /\ S!InPorto \in S!Campi
      /\ S!Scaduta \in S!Campi
      /\ \A p \in Porti : S!Presente(p) \in S!Campi /\ S!Spedita(p) \in S!Campi
  BY CampiDiversi
<1>7. SospesoNeiLimiti'
  <2>1. /\ Sospeso(S!Consegnata)' >= 0 /\ Sospeso(S!Scaduta)' >= 0 /\ dump'[S!Scaduta] >= 0
        /\ Sospeso(S!InPorto)' \in -MAX_LOTTI .. 0
        /\ Sospeso(S!InNave)' >= -MAX_LOTTI
        /\ Sospeso(S!InNave)' + Sospeso(S!InPorto)' >= -MAX_LOTTI
    BY <1>5, <1>6, StampaAssumption DEF InvStampa, SospesoNeiLimiti
  <2>2. ASSUME NEW p \in Porti
        PROVE  /\ Sospeso(S!Spedita(p))' \in 0 .. MAX_LOTTI
               /\ Sospeso(S!Presente(p))' <= 0
    BY <1>5, <1>6, StampaAssumption DEF InvStampa, SospesoNeiLimiti
  <2> QED
    BY <2>1, <2>2 DEF SospesoNeiLimiti
<1>8. LottiConservati'
  <2>1. \A g \in S!Campi : /\ dump'[g] + Sospeso(g)' = dump[g] + Sospeso(g)
                           /\ dump'[g] \in Int /\ Sospeso(g)' \in Int
                           /\ dump[g] \in Int /\ Sospeso(g) \in Int
    BY <1>5
  <2>2. dump'[S!Consegnata] + dump'[S!InNave] + dump'[S!InPorto] + dump'[S!Scaduta]
         + Sospeso(S!Consegnata)' + Sospeso(S!InNave)' + Sospeso(S!InPorto)'
         + Sospeso(S!Scaduta)' = S!Totale
    <3> DEFINE cd == dump[S!Consegnata]
               cr == Sospeso(S!Consegnata)
               cd1 == dump'[S!Consegnata]
               cr1 == Sospeso(S!Consegnata)'
               nd == dump[S!InNave]
               nr == Sospeso(S!InNave)
               nd1 == dump'[S!InNave]
               nr1 == Sospeso(S!InNave)'
               pd == dump[S!InPorto]
               pr == Sospeso(S!InPorto)
               pd1 == dump'[S!InPorto]
               pr1 == Sospeso(S!InPorto)'
               sd == dump[S!Scaduta]
               sr == Sospeso(S!Scaduta)
               sd1 == dump'[S!Scaduta]
               sr1 == Sospeso(S!Scaduta)'
    <3>1. cd1 + cr1 = cd + cr /\ cd1 \in Int /\ cr1 \in Int /\ cd \in Int /\ cr \in Int
      BY <1>6, <2>1
    <3>2. nd1 + nr1 = nd + nr /\ nd1 \in Int /\ nr1 \in Int /\ nd \in Int /\ nr \in Int
      BY <1>6, <2>1
    <3>3. pd1 + pr1 = pd + pr /\ pd1 \in Int /\ pr1 \in Int /\ pd \in Int /\ pr \in Int
      BY <1>6, <2>1
    <3>4. sd1 + sr1 = sd + sr /\ sd1 \in Int /\ sr1 \in Int /\ sd \in Int /\ sr \in Int
      BY <1>6, <2>1
    <3>5. cd + nd + pd + sd + cr + nr + pr + sr = S!Totale
      BY DEF InvStampa, LottiConservati
    <3> HIDE DEF cd, cr, cd1, cr1, nd, nr, nd1, nr1, pd, pr, pd1, pr1, sd, sr, sd1, sr1
    <3>6. cd1 + nd1 + pd1 + sd1 + cr1 + nr1 + pr1 + sr1 = S!Totale
      BY <3>1, <3>2, <3>3, <3>4, <3>5
    <3> QED
      BY <3>6 DEF cd1, cr1, nd1, nr1, pd1, pr1, sd1, sr1
  <2>3. ASSUME NEW p \in Porti
        PROVE  dump'[S!Presente(p)] + dump'[S!Spedita(p)]
                 + Sospeso(S!Presente(p))' + Sospeso(S!Spedita(p))' = Offerti[p]
    <3>1. /\ dump'[S!Presente(p)] + Sospeso(S!Presente(p))' = dump[S!Presente(p)] + Sospeso(S!Presente(p))
          /\ dump'[S!Presente(p)] \in Int /\ Sospeso(S!Presente(p))' \in Int
          /\ dump[S!Presente(p)] \in Int /\ Sospeso(S!Presente(p)) \in Int
      BY <1>6, <2>1
    <3>2. /\ dump'[S!Spedita(p)] + Sospeso(S!Spedita(p))' = dump[S!Spedita(p)] + Sospeso(S!Spedita(p))
          /\ dump'[S!Spedita(p)] \in Int /\ Sospeso(S!Spedita(p))' \in Int
          /\ dump[S!Spedita(p)] \in Int /\ Sospeso(S!Spedita(p)) \in Int
      BY <1>6, <2>1
    <3>3. dump[S!Presente(p)] + dump[S!Spedita(p)]
            + Sospeso(S!Presente(p)) + Sospeso(S!Spedita(p)) = Offerti[p]
      BY DEF InvStampa, LottiConservati
    <3> QED
      BY <3>1, <3>2, <3>3
  <2> QED
    BY <2>2, <2>3 DEF LottiConservati
<1>9. /\ dump'[S!Consegnata] >= dump[S!Consegnata] /\ dump'[S!InPorto] <= dump[S!InPorto]
      /\ \A p \in Porti : dump'[S!Spedita(p)] >= dump[S!Spedita(p)]
  <2>1. Sospeso(S!Consegnata) >= 0 /\ Sospeso(S!InPorto) <= 0
    BY <1>5, <1>6, StampaAssumption DEF InvStampa, SospesoNeiLimiti
  <2>2. ASSUME NEW p \in Porti PROVE Sospeso(S!Spedita(p)) >= 0
    BY <1>5, <1>6, StampaAssumption DEF InvStampa, SospesoNeiLimiti
  <2> QED
    BY <1>5, <1>6, <2>1, <2>2
<1>10. MerceLimitata' /\ \A p \in Porti : PortoLimitato(p)'
  BY <1>1, <1>4, <1>9, LimitiFermi
<1> QED
  BY <1>4, <1>7, <1>8, <1>10 DEF InvStampa

LEMMA PassoRilascia ==
  ASSUME InvStampa, S!Rilascia
  PROVE  InvStampa'
<1>1. semDump' = 1 /\ DOMAIN resta = {} /\ dump' = dump /\ resta' = resta /\ stampato' = stampato
  BY DEF S!Rilascia, S!Nulla
<1>2. \A f : Sospeso(f)' = Sospeso(f)
  BY <1>1 DEF Sospeso
<1>3. DumpTipi'
  BY <1>1 DEF InvStampa, DumpTipi
<1>4. SospesoNeiLimiti' /\ LottiConservati'
  BY <1>1, <1>2 DEF InvStampa, SospesoNeiLimiti, LottiConservati
<1>5. MerceLimitata' /\ \A p \in Porti : PortoLimitato(p)'
  BY <1>1 DEF InvStampa, MerceLimitata, PortoLimitato
<1> QED
  BY <1>3, <1>4, <1>5 DEF InvStampa

\* A line is printed: this is where the two limits come from.
LEMMA PassoStampa ==
  ASSUME InvStampa, S!StampaRiga
  PROVE  InvStampa'
<1> DEFINE n == Len(stampato)
<1>1. /\ n < Len(S!Righe) /\ stampato' = Append(stampato, dump[S!Righe[n + 1]])
      /\ dump' = dump /\ semDump' = semDump /\ resta' = resta
  BY DEF S!StampaRiga
<1>2. /\ \A f \in S!Campi : dump[f] \in Int /\ Sospeso(f) \in Int
      /\ n \in Nat /\ \A j \in 1 .. n : stampato[j] \in Int
  BY TipiStampa DEF InvStampa
<1>3. n + 1 \in 1 .. 4 + 2 * SO_PORTI /\ S!Righe[n + 1] \in S!Campi
  BY <1>1, <1>2, RigheOrdine, PortiTermAssumption
<1>4. stampato \in Seq(Int) /\ dump[S!Righe[n + 1]] \in Int
  BY <1>2, <1>3 DEF InvStampa, DumpTipi
<1>5. /\ stampato' \in Seq(Int) /\ Len(stampato') = n + 1
      /\ \A j \in 1 .. n : stampato'[j] = stampato[j]
      /\ stampato'[n + 1] = dump[S!Righe[n + 1]]
  BY <1>1, <1>4, AppendProperties
<1>6. DumpTipi'
  BY <1>1, <1>3, <1>5 DEF InvStampa, DumpTipi
<1>7. \A f : Sospeso(f)' = Sospeso(f)
  BY <1>1 DEF Sospeso
<1>8. SospesoNeiLimiti' /\ LottiConservati'
  BY <1>1, <1>7 DEF InvStampa, SospesoNeiLimiti, LottiConservati
<1>9. /\ S!Consegnata \in S!Campi /\ S!InNave \in S!Campi /\ S!InPorto \in S!Campi
      /\ S!Scaduta \in S!Campi
      /\ \A p \in Porti : S!Presente(p) \in S!Campi /\ S!Spedita(p) \in S!Campi
  BY CampiDiversi
<1>10. MAX_LOTTI \in Nat /\ S!Totale \in Nat /\ Offerti \in [Porti -> Nat] /\ Porti \subseteq Nat
  BY StampaAssumption, TotaleNat DEF Porti
<1>11. dump[S!Consegnata] + dump[S!InNave] + dump[S!InPorto] <= S!Totale + MAX_LOTTI
  <2>1. /\ dump[S!Consegnata] \in Int /\ dump[S!InNave] \in Int
        /\ dump[S!InPorto] \in Int /\ dump[S!Scaduta] \in Int
        /\ Sospeso(S!Consegnata) \in Int /\ Sospeso(S!InNave) \in Int
        /\ Sospeso(S!InPorto) \in Int /\ Sospeso(S!Scaduta) \in Int
    BY <1>2, <1>9
  <2>2. /\ Sospeso(S!Consegnata) >= 0 /\ Sospeso(S!Scaduta) >= 0 /\ dump[S!Scaduta] >= 0
        /\ Sospeso(S!InNave) + Sospeso(S!InPorto) >= -MAX_LOTTI
    BY DEF InvStampa, SospesoNeiLimiti
  <2>3. dump[S!Consegnata] + dump[S!InNave] + dump[S!InPorto] + dump[S!Scaduta]
          + Sospeso(S!Consegnata) + Sospeso(S!InNave) + Sospeso(S!InPorto)
          + Sospeso(S!Scaduta) = S!Totale
    BY DEF InvStampa, LottiConservati
  <2> QED
    BY <1>10, <2>1, <2>2, <2>3
<1>12. ASSUME NEW p \in Porti
       PROVE  dump[S!Presente(p)] + dump[S!Spedita(p)] >= Offerti[p] - MAX_LOTTI
  <2>1. /\ dump[S!Presente(p)] \in Int /\ dump[S!Spedita(p)] \in Int
        /\ Sospeso(S!Presente(p)) \in Int /\ Sospeso(S!Spedita(p)) \in Int /\ Offerti[p] \in Nat
    BY <1>2, <1>9, <1>10
  <2>2. Sospeso(S!Spedita(p)) <= MAX_LOTTI /\ Sospeso(S!Presente(p)) <= 0
    BY <1>10 DEF InvStampa, SospesoNeiLimiti
  <2>3. dump[S!Presente(p)] + dump[S!Spedita(p)]
          + Sospeso(S!Presente(p)) + Sospeso(S!Spedita(p)) = Offerti[p]
    BY DEF InvStampa, LottiConservati
  <2> QED
    BY <1>10, <2>1, <2>2, <2>3
<1>13. MerceLimitata'
  <2>1. dump[S!Consegnata] \in Int /\ dump[S!InNave] \in Int /\ dump[S!InPorto] \in Int
    BY <1>2, <1>9
  <2>2. CASE n = 0
    <3>1. stampato'[1] = dump[S!Consegnata]
      BY <1>3, <1>5, <2>2, RigheOrdine
    <3> QED
      BY <1>1, <1>5, <2>1, <2>2, <3>1 DEF MerceLimitata
  <2>3. CASE n = 1
    <3>1. stampato'[2] = dump[S!InNave] /\ stampato'[1] = stampato[1] /\ stampato[1] \in Int
      BY <1>2, <1>3, <1>5, <2>3, RigheOrdine
    <3>2. stampato[1] <= dump[S!Consegnata]
      BY <2>3 DEF InvStampa, MerceLimitata
    <3> QED
      BY <1>1, <1>5, <1>10, <1>11, <2>1, <2>3, <3>1, <3>2 DEF MerceLimitata
  <2>4. CASE n = 2
    <3>1. /\ stampato'[3] = dump[S!InPorto] /\ stampato'[1] = stampato[1]
          /\ stampato'[2] = stampato[2] /\ stampato[1] \in Int /\ stampato[2] \in Int
      BY <1>2, <1>3, <1>5, <2>4, RigheOrdine
    <3>2. /\ stampato[1] <= dump[S!Consegnata]
          /\ stampato[1] + stampato[2] + dump[S!InPorto] <= S!Totale + MAX_LOTTI
      BY <2>4 DEF InvStampa, MerceLimitata
    <3> QED
      BY <1>1, <1>5, <2>4, <3>1, <3>2 DEF MerceLimitata
  <2>5. CASE n >= 3
    <3>1. \A j \in {1, 2, 3} : stampato'[j] = stampato[j]
      BY <1>2, <1>5, <2>5
    <3>2. /\ stampato[1] <= dump[S!Consegnata]
          /\ stampato[1] + stampato[2] + dump[S!InPorto] <= S!Totale + MAX_LOTTI
          /\ stampato[1] + stampato[2] + stampato[3] <= S!Totale + MAX_LOTTI
      BY <1>2, <2>5 DEF InvStampa, MerceLimitata
    <3>3. stampato'[1] = stampato[1] /\ stampato'[2] = stampato[2] /\ stampato'[3] = stampato[3]
      BY <3>1
    <3> QED
      BY <1>1, <3>2, <3>3 DEF MerceLimitata
  <2>6. n = 0 \/ n = 1 \/ n = 2 \/ n >= 3
    <3>1. n \in Nat
      BY <1>2
    <3> HIDE DEF n
    <3> QED
      BY <3>1
  <2> QED
    BY <2>2, <2>3, <2>4, <2>5, <2>6
<1>14. ASSUME NEW p \in Porti PROVE PortoLimitato(p)'
  <2>1. /\ p \in Nat /\ Offerti[p] \in Nat
        /\ dump[S!Presente(p)] \in Int /\ dump[S!Spedita(p)] \in Int
    BY <1>2, <1>9, <1>10
  <2>2. CASE n < 4 + 2 * p
    BY <1>2, <1>5, <2>1, <2>2 DEF PortoLimitato
  <2>3. CASE n = 4 + 2 * p
    <3>1. stampato'[5 + 2 * p] = dump[S!Presente(p)]
      <4>1. S!Righe[n + 1] = S!Presente(p)
        BY <1>3, <2>1, <2>3, RigheOrdine
      <4> QED
        BY <1>5, <2>1, <2>3, <4>1
    <3> QED
      BY <1>1, <1>5, <1>12, <2>1, <2>3, <3>1 DEF PortoLimitato
  <2>4. CASE n = 5 + 2 * p
    <3>1. stampato'[6 + 2 * p] = dump[S!Spedita(p)] /\ stampato'[5 + 2 * p] = stampato[5 + 2 * p]
      <4>1. S!Righe[n + 1] = S!Spedita(p)
        BY <1>3, <2>1, <2>4, RigheOrdine
      <4>2. n \in Nat /\ 5 + 2 * p \in 1 .. n /\ n + 1 = 6 + 2 * p
        BY <1>2, <2>1, <2>4
      <4> HIDE DEF n
      <4> QED
        BY <1>5, <4>1, <4>2
    <3>2. stampato[5 + 2 * p] + dump[S!Spedita(p)] >= Offerti[p] - MAX_LOTTI
      BY <2>1, <2>4 DEF InvStampa, PortoLimitato
    <3> QED
      BY <1>1, <1>5, <2>1, <2>4, <3>1, <3>2 DEF PortoLimitato
  <2>5. CASE n > 5 + 2 * p
    <3>1. stampato'[5 + 2 * p] = stampato[5 + 2 * p] /\ stampato'[6 + 2 * p] = stampato[6 + 2 * p]
      <4>1. 5 + 2 * p \in 1 .. n /\ 6 + 2 * p \in 1 .. n
        BY <1>2, <2>1, <2>5
      <4> HIDE DEF n
      <4> QED
        BY <1>5, <4>1
    <3>2. PortoLimitato(p)
      BY DEF InvStampa
    <3> QED
      BY <1>1, <1>2, <1>5, <2>1, <2>5, <3>1, <3>2 DEF PortoLimitato
  <2> QED
    BY <1>2, <2>1, <2>2, <2>3, <2>4, <2>5
<1> QED
  BY <1>6, <1>8, <1>13, <1>14 DEF InvStampa

LEMMA PassoInvStampa == InvStampa /\ S!Next => InvStampa'
BY PassoCarica, PassoScarica, PassoScrive, PassoRilascia, PassoStampa DEF S!Next, S!Porti, Porti

\* What is printed is in the lines the invariant speaks of.
LEMMA StampaLimitata == InvStampa => EccessoLimitato /\ AmmancoLimitato
<1> SUFFICES ASSUME InvStampa PROVE EccessoLimitato /\ AmmancoLimitato
  OBVIOUS
<1>1. Len(stampato) \in Nat /\ Len(stampato) <= 4 + 2 * SO_PORTI
      /\ DOMAIN stampato = 1 .. Len(stampato)
  BY TipiStampa, LenProperties DEF InvStampa, DumpTipi
<1>2. \A j \in DOMAIN stampato : j \in 1 .. 4 + 2 * SO_PORTI
  BY <1>1, PortiTermAssumption
<1>3. ASSUME NEW f, NEW j, \A h \in 1 .. 4 + 2 * SO_PORTI : S!Righe[h] = f <=> h = j, S!Stampata(f)
      PROVE  j \in 1 .. Len(stampato) /\ S!Letto(f) = stampato[j]
  <2>1. \A h \in DOMAIN stampato : S!Righe[h] = f <=> h = j
    BY <1>2, <1>3
  <2>2. j \in DOMAIN stampato /\ S!Righe[j] = f
    BY <1>3, <2>1 DEF S!Stampata
  <2>3. (CHOOSE h \in DOMAIN stampato : S!Righe[h] = f) = j
    BY <2>1, <2>2
  <2> QED
    BY <1>1, <2>2, <2>3 DEF S!Letto
<1>4. EccessoLimitato
  <2> SUFFICES ASSUME S!Stampata(S!Consegnata), S!Stampata(S!InNave), S!Stampata(S!InPorto)
               PROVE  S!Letto(S!Consegnata) + S!Letto(S!InNave) + S!Letto(S!InPorto)
                        <= S!Totale + MAX_LOTTI
    BY DEF EccessoLimitato, S!EccessoLimitato
  <2>1. S!Letto(S!Consegnata) = stampato[1]
    BY <1>3, RigheOrdine
  <2>2. S!Letto(S!InNave) = stampato[2]
    BY <1>3, RigheOrdine
  <2>3. 3 \in 1 .. Len(stampato) /\ S!Letto(S!InPorto) = stampato[3]
    BY <1>3, RigheOrdine
  <2> QED
    BY <1>1, <2>1, <2>2, <2>3 DEF InvStampa, MerceLimitata
<1>5. AmmancoLimitato
  <2> SUFFICES ASSUME NEW p \in Porti, S!Stampata(S!Presente(p)), S!Stampata(S!Spedita(p))
               PROVE  S!Letto(S!Presente(p)) + S!Letto(S!Spedita(p)) >= Offerti[p] - MAX_LOTTI
    BY DEF AmmancoLimitato, S!AmmancoLimitato, S!Porti, Porti
  <2>1. S!Letto(S!Presente(p)) = stampato[5 + 2 * p]
    BY <1>3, RigheOrdine
  <2>2. 6 + 2 * p \in 1 .. Len(stampato) /\ S!Letto(S!Spedita(p)) = stampato[6 + 2 * p]
    BY <1>3, RigheOrdine
  <2>3. PortoLimitato(p)
    BY DEF InvStampa
  <2> QED
    BY <1>1, <2>1, <2>2, <2>3 DEF PortoLimitato
<1> QED
  BY <1>4, <1>5

-----------------------------------------------------------------------------
(* One after the other.  While the lines are printed the search is as it    *)
(* will start; once they are printed nothing looks at them.                 *)

InvTerminazione ==
  /\ fase \in {"righe", "report", "ricerca"}
  /\ IF fase = "righe" THEN InvStampa ELSE stampato = <<>>
  /\ IF fase = "ricerca" THEN IndInv ELSE Init

LEMMA SenzaRighe ==
  ASSUME stampato = <<>>
  PROVE  EccessoLimitato /\ AmmancoLimitato
<1>1. \A f : ~S!Stampata(f)
  BY DEF S!Stampata
<1> QED
  BY <1>1 DEF EccessoLimitato, AmmancoLimitato, S!EccessoLimitato, S!AmmancoLimitato

LEMMA InizioTerminazione == InitTerminazione => InvTerminazione
<1> SUFFICES ASSUME InitTerminazione PROVE InvTerminazione
  OBVIOUS
<1>1. 0 \in Porti /\ 0 \in 0 .. MAX_CONTA
  BY PortiTermAssumption DEF Porti
<1>2. conta \in [Campi -> [Porti -> 0 .. MAX_CONTA]]
  BY <1>1 DEF InitTerminazione
<1>3. noto = [c \in Campi |-> conta[c][0]]
  BY <1>1 DEF InitTerminazione
<1>4. Init
  BY <1>2, <1>3 DEF InitTerminazione, Init
<1> QED
  BY <1>4, InizioStampa DEF InitTerminazione, InvTerminazione

LEMMA PassoTerminazione ==
  InvTerminazione /\ [NextTerminazione]_<<fase, vars, righe>> => InvTerminazione'
<1> SUFFICES ASSUME InvTerminazione, [NextTerminazione]_<<fase, vars, righe>>
             PROVE  InvTerminazione'
  OBVIOUS
<1>1. CASE StampaRighe
  <2>1. InvStampa'
    BY <1>1, PassoInvStampa DEF StampaRighe, InvTerminazione
  <2> QED
    BY <1>1, <2>1 DEF StampaRighe, InvTerminazione, Init, vars
<1>2. CASE FineRighe
  BY <1>2 DEF FineRighe, InvTerminazione, Init, vars
<1>3. CASE IniziaRicerca
  <2>1. Init'
    BY <1>3 DEF IniziaRicerca, InvTerminazione, Init
  <2>2. IndInv'
    BY <2>1, InizioFondato, PTL
  <2> QED
    BY <1>3, <2>2 DEF IniziaRicerca, InvTerminazione, righe
<1>4. CASE Ricerca
  <2>1. IndInv'
    BY <1>4, PassoFondato DEF Ricerca, InvTerminazione
  <2> QED
    BY <1>4, <2>1 DEF Ricerca, InvTerminazione, righe
<1>5. CASE UNCHANGED <<fase, vars, righe>>
  <2>1. InvStampa => InvStampa'
    <3>1. dump' = dump /\ semDump' = semDump /\ resta' = resta /\ stampato' = stampato
      BY <1>5 DEF righe
    <3>2. \A f : Sospeso(f)' = Sospeso(f)
      BY <3>1 DEF Sospeso
    <3> QED
      BY <3>1, <3>2 DEF InvStampa, DumpTipi, SospesoNeiLimiti, LottiConservati,
                       MerceLimitata, PortoLimitato
  <2>2. IndInv => IndInv'
    BY <1>5, PassoFondato
  <2>3. Init => Init'
    BY <1>5 DEF Init, vars
  <2> QED
    BY <1>5, <2>1, <2>2, <2>3 DEF InvTerminazione, righe
<1> QED
  BY <1>1, <1>2, <1>3, <1>4, <1>5 DEF NextTerminazione

LEMMA SempreInvTerminazione == SpecTerminazione => []InvTerminazione
BY InizioTerminazione, PassoTerminazione, PTL DEF SpecTerminazione

\* However many ports there are and whatever the ships load and deliver while
\* the lines are printed, delivered, aboard and in port do not add up to more
\* than the lots there are and those of one update (stampa_merci_porti_navi,
\* master_lib.c:150-152).
THEOREM EccessoSempreLimitato == SpecTerminazione => []EccessoLimitato
<1>1. InvTerminazione => EccessoLimitato
  BY StampaLimitata, SenzaRighe DEF InvTerminazione
<1> QED
  BY <1>1, SempreInvTerminazione, PTL

\* What a port is printed to have and to have sent misses no more of the lots
\* it offered than one update moves (master_lib.c:157-159).
THEOREM AmmancoSempreLimitato == SpecTerminazione => []AmmancoLimitato
<1>1. InvTerminazione => AmmancoLimitato
  BY StampaLimitata, SenzaRighe DEF InvTerminazione
<1> QED
  BY <1>1, SempreInvTerminazione, PTL

\* The port the final report names is justified in the search that follows
\* the printing of the lines too (stampa_terminazione, master_lib.c:203-219).
THEOREM VincitoreFondatoDopoLeRighe == SpecTerminazione => []VincitoreFondato
<1>1. InvTerminazione => VincitoreFondato
  BY InizioFondato, IndInvBasta DEF InvTerminazione
<1> QED
  BY <1>1, SempreInvTerminazione, PTL

=============================================================================
