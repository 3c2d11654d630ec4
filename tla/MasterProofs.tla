----------------------------- MODULE MasterProofs -----------------------------
(***************************************************************************)
(* Proofs about the master.  First its daily loop and its end, for any     *)
(* number of ships, ports and days and whether or not the alarm may go off *)
(* before pause(); then what it prepares before the start, for any         *)
(* configuration file, any line of it and any map.                         *)
(***************************************************************************)
EXTENDS MasterProprieta, Preparazione, FiniteSetTheorems, SequenceTheorems,
        WellFoundedInduction, TLAPS

-----------------------------------------------------------------------------
(* The daily loop and the end (Master). *)

Chiude == {"svuota", "rimuove", "fine"}

\* An alarm is armed only inside a turn of the daily loop that began before
\* the last day was over.
AllarmeInTempo ==
  /\ mpc = "alarm" => ~allarme /\ data < SO_DAYS
  /\ allarme => mpc \in {"controlla", "pausa"} /\ data < SO_DAYS

\* The closing steps: nothing of them has happened before every child has
\* been waited for, and the loop on the queue has emptied the ports below i.
ChiusuraInOrdine ==
  /\ mpc \in Chiude => \A f \in Figli : figlio[f] = "atteso"
  /\ mpc \notin Chiude => indice = 0
  /\ mpc \notin {"rimuove", "fine"} => rimossi = 0
  /\ mpc = "rimuove" => rimossi < Len(Oggetti)
  /\ mpc = "svuota" => \A p \in Porti : p < indice => coda[p] = 0
  /\ mpc \in {"rimuove", "fine"} => \A p \in Porti : coda[p] = 0

IInv == TypeOK /\ AllarmeInTempo /\ ChiusuraInOrdine /\ OgniGiornoStampato

\* The nine objects of distruggi_risorse() and distruggi_semafori().
LEMMA NoveOggetti == Len(Oggetti) = 9
BY DEF Oggetti

LEMMA InitIInv == Init => IInv
<1> SUFFICES ASSUME Init PROVE IInv
  OBVIOUS
<1> USE MasterAssumption, NoveOggetti DEF Init
<1>1. TypeOK
  <2>1. mpc \in Stati /\ data \in 0 .. SO_DAYS /\ stampati \subseteq Nat
    BY DEF Stati
  <2>2. coda \in [Porti -> Nat] /\ indice \in 0 .. SO_PORTI /\ rimossi \in 0 .. Len(Oggetti)
    OBVIOUS
  <2>3. /\ figlio \in [Figli -> {"vivo", "zombie", "atteso"}]
        /\ segnali \in [Figli -> SUBSET {"USR1", "USR2"}]
        /\ esito \in [Figli -> {"nessuno", "EXIT_SUCCESS", "255", "SIGSEGV"}]
    OBVIOUS
  <2> QED
    BY <2>1, <2>2, <2>3 DEF TypeOK
<1>2. AllarmeInTempo
  BY DEF AllarmeInTempo
<1>3. ChiusuraInOrdine
  BY DEF ChiusuraInOrdine, Chiude
<1>4. OgniGiornoStampato
  BY DEF OgniGiornoStampato
<1> QED
  BY <1>1, <1>2, <1>3, <1>4 DEF IInv

\* A child that exits, for whatever reason, was running: no child that has
\* been waited for changes, so the closing steps stay justified.
LEMMA EscePreserva ==
  ASSUME IInv, NEW f \in Figli, figlio[f] = "vivo",
         NEW stato \in {"EXIT_SUCCESS", "255", "SIGSEGV"}, Esce(f, stato)
  PROVE  IInv'
<1>1. TypeOK'
  BY DEF IInv, TypeOK, Esce, orologio, chiusura
<1>2. AllarmeInTempo'
  BY DEF IInv, AllarmeInTempo, Esce, orologio, chiusura
<1>3. ChiusuraInOrdine'
  <2>1. mpc \notin Chiude
    BY DEF IInv, ChiusuraInOrdine
  <2> QED
    BY <2>1 DEF IInv, ChiusuraInOrdine, Chiude, Esce, orologio, chiusura
<1>4. OgniGiornoStampato'
  BY DEF IInv, OgniGiornoStampato, Esce, orologio, chiusura
<1> QED
  BY <1>1, <1>2, <1>3, <1>4 DEF IInv

LEMMA NextIInv == IInv /\ [Next]_vars => IInv'
<1> SUFFICES ASSUME IInv, [Next]_vars PROVE IInv'
  OBVIOUS
<1> USE MasterAssumption, NoveOggetti
<1>1. CASE Alarm
  BY <1>1 DEF Alarm, IInv, TypeOK, Stati, AllarmeInTempo, ChiusuraInOrdine, Chiude,
              OgniGiornoStampato, chiusura, figli
<1>2. CASE Controlla
  BY <1>2 DEF Controlla, IInv, TypeOK, Stati, AllarmeInTempo, ChiusuraInOrdine, Chiude,
              OgniGiornoStampato, chiusura, figli
<1>3. CASE Scatta
  <2>0. /\ data < SO_DAYS /\ data \in Nat /\ data' = data + 1
        /\ UltimoGiorno <=> data + 1 = SO_DAYS
    BY <1>3 DEF Scatta, UltimoGiorno, IInv, TypeOK, AllarmeInTempo
  <2>1. TypeOK'
    <3>1. mpc' \in Stati /\ data' \in 0 .. SO_DAYS
      BY <1>3, <2>0 DEF Scatta, Interrompibile, IInv, TypeOK, Stati
    <3>3. stampati' \subseteq Nat /\ terminazione' \in BOOLEAN
      <4>1. stampati' = stampati \/ stampati' = stampati \cup {data + 1}
        BY <1>3 DEF Scatta
      <4>2. data + 1 \in Nat /\ stampati \subseteq Nat
        BY <2>0 DEF IInv, TypeOK
      <4>3. terminazione' \in BOOLEAN
        BY <1>3 DEF Scatta, IInv, TypeOK
      <4> QED
        BY <4>1, <4>2, <4>3
    <3>2. segnali' \in [Figli -> SUBSET {"USR1", "USR2"}]
      <4>1. segnali' = segnali \/ Manda("USR1")
        BY <1>3 DEF Scatta
      <4> QED
        BY <4>1 DEF Manda, IInv, TypeOK
    <3> QED
      BY <1>3, <3>1, <3>2, <3>3 DEF Scatta, IInv, TypeOK, chiusura
  <2>2. AllarmeInTempo'
    BY <1>3 DEF Scatta, Interrompibile, IInv, AllarmeInTempo
  <2>3. ChiusuraInOrdine'
    BY <1>3 DEF Scatta, Interrompibile, IInv, ChiusuraInOrdine, Chiude, chiusura
  <2>4. OgniGiornoStampato'
    <3>1. CASE UltimoGiorno
      BY <1>3, <2>0, <3>1 DEF Scatta, IInv, OgniGiornoStampato
    <3>2. CASE ~UltimoGiorno
      BY <1>3, <2>0, <3>2 DEF Scatta, IInv, OgniGiornoStampato
    <3> QED
      BY <3>1, <3>2
  <2> QED
    BY <2>1, <2>2, <2>3, <2>4 DEF IInv
<1>4. CASE Prova
  BY <1>4 DEF Prova, IInv, TypeOK, Stati, AllarmeInTempo, ChiusuraInOrdine, Chiude,
              OgniGiornoStampato, orologio, chiusura, figli
<1>5. CASE Uccide
  BY <1>5 DEF Uccide, Manda, Vivi, IInv, TypeOK, Stati, AllarmeInTempo,
              ChiusuraInOrdine, Chiude, OgniGiornoStampato, orologio, chiusura
<1>6. CASE Aspetta
  BY <1>6 DEF Aspetta, IInv, TypeOK, Stati, AllarmeInTempo, ChiusuraInOrdine, Chiude,
              OgniGiornoStampato, orologio, chiusura
<1>7. CASE FineAttesa
  BY <1>7 DEF FineAttesa, NessunFiglio, IInv, TypeOK, Stati, AllarmeInTempo, Porti,
              ChiusuraInOrdine, Chiude, OgniGiornoStampato, orologio, figli
<1>8. CASE Svuota
  <2>0. indice \in Porti /\ coda[indice] \in Nat
    BY <1>8 DEF Svuota, IInv, TypeOK, Porti
  <2>1. TypeOK'
    BY <1>8, <2>0 DEF Svuota, Prossimo, IInv, TypeOK, Porti, orologio, figli
  <2>2. AllarmeInTempo' /\ OgniGiornoStampato'
    BY <1>8 DEF Svuota, IInv, AllarmeInTempo, OgniGiornoStampato, orologio
  <2>3. ChiusuraInOrdine'
    BY <1>8, <2>0 DEF Svuota, Prossimo, IInv, TypeOK, ChiusuraInOrdine, Chiude, Porti, figli
  <2> QED
    BY <2>1, <2>2, <2>3 DEF IInv
<1>9. CASE FineSvuota
  BY <1>9 DEF FineSvuota, IInv, TypeOK, Stati, AllarmeInTempo, ChiusuraInOrdine, Chiude,
              OgniGiornoStampato, Porti, orologio, chiusura, figli
<1>10. CASE Rimuove
  BY <1>10 DEF Rimuove, IInv, TypeOK, Stati, AllarmeInTempo, ChiusuraInOrdine, Chiude,
               OgniGiornoStampato, orologio, figli
<1>11. ASSUME NEW s \in Navi, Usr1Nave(s) PROVE IInv'
  <2>1. TypeOK'
    BY <1>11 DEF Usr1Nave, IInv, TypeOK, orologio, chiusura
  <2>2. AllarmeInTempo' /\ ChiusuraInOrdine' /\ OgniGiornoStampato'
    BY <1>11 DEF Usr1Nave, IInv, AllarmeInTempo, ChiusuraInOrdine, Chiude,
                 OgniGiornoStampato, orologio, chiusura
  <2> QED
    BY <2>1, <2>2 DEF IInv
<1>12. ASSUME NEW s \in Navi, Usr2Nave(s) \/ CodaVuotaNave(s) PROVE IInv'
  BY <1>12, EscePreserva DEF Usr2Nave, CodaVuotaNave, Figli
<1>13. ASSUME NEW p \in Porti, Usr1Porto(p) \/ Usr2Porto(p) PROVE IInv'
  BY <1>13, EscePreserva DEF Usr1Porto, Usr2Porto, Figli
<1>14. CASE UNCHANGED vars
  BY <1>14 DEF vars, orologio, chiusura, figli, IInv, TypeOK, AllarmeInTempo,
               ChiusuraInOrdine, Chiude, OgniGiornoStampato
<1> QED
  BY <1>1, <1>2, <1>3, <1>4, <1>5, <1>6, <1>7, <1>8, <1>9, <1>10, <1>11, <1>12,
     <1>13, <1>14 DEF Next, PassoMaster, Segnale

\* In every behaviour the state of the master is well formed; in particular
\* the date never passes SO_DAYS (master.c:188, 251).
THEOREM MasterTypeOK == Spec => []TypeOK
<1>1. IInv => TypeOK
  BY DEF IInv
<1> QED
  BY InitIInv, NextIInv, <1>1, PTL DEF Spec

\* However many children there are and whatever they die of, no IPC object is
\* removed and no queued request is drained before all of them have been
\* waited for (master.c:202-222).
THEOREM IpcProtetto == Spec => []IpcFinoAllUltimo
<1>1. IInv => IpcFinoAllUltimo
  BY DEF IInv, ChiusuraInOrdine, Chiude, IpcFinoAllUltimo, TypeOK
<1> QED
  BY InitIInv, NextIInv, <1>1, PTL DEF Spec

\* The queue is removed empty for any number of ports (master.c:208-216).
THEOREM CodaVuotaAllaFine == Spec => []CodaSvuotata
<1>1. IInv => CodaSvuotata
  BY DEF IInv, ChiusuraInOrdine, CodaSvuotata, TypeOK
<1> QED
  BY InitIInv, NextIInv, <1>1, PTL DEF Spec

\* Every day that has passed was printed once, the last one and only it as
\* the termination dump, for any length of the simulation
\* (master.c:251-264).
THEOREM GiorniStampati == Spec => []OgniGiornoStampato
<1>1. IInv => OgniGiornoStampato
  BY DEF IInv
<1> QED
  BY InitIInv, NextIInv, <1>1, PTL DEF Spec

-----------------------------------------------------------------------------
(* The areas of memory the master lays out (Memoria). *)

\* A set of naturals has a least element: the parts of it up to one of its
\* elements are finite, and strict inclusion is well founded on finite sets.
LEMMA Minimo ==
  ASSUME NEW S \in SUBSET Nat, S # {}
  PROVE  \E m \in S : \A n \in S : m <= n
<1> DEFINE Fino(m) == {n \in S : n <= m}
           Parti == {Fino(m) : m \in S}
<1>1. \A m \in S : IsFiniteSet(Fino(m))
  <2> TAKE m \in S
  <2>1. Fino(m) \in SUBSET Nat /\ m \in Nat /\ \A n \in Fino(m) : n <= m
    OBVIOUS
  <2> HIDE DEF Fino
  <2> QED
    BY <2>1, FS_BoundedSetOfNaturals
<1>2. Parti \subseteq FiniteSubsetsOf(S)
  BY <1>1 DEF FiniteSubsetsOf
<1>3. Parti # {}
  OBVIOUS
<1>4. IsWellFoundedOn(StrictSubsetOrdering(S), FiniteSubsetsOf(S))
  BY FS_StrictSubsetOrderingWellFounded
<1>5. PICK U \in Parti : \A V \in Parti : ~(<<V, U>> \in StrictSubsetOrdering(S))
  <2> HIDE DEF Parti
  <2> QED
    BY <1>2, <1>3, <1>4, WFMin
<1>6. PICK m \in S : U = Fino(m)
  OBVIOUS
<1>7. ASSUME NEW n \in S, ~(m <= n) PROVE FALSE
  <2>1. m \in Nat /\ n \in Nat /\ n < m
    BY <1>7
  <2>2. Fino(n) \subseteq U /\ m \in U /\ m \notin Fino(n)
    <3>1. \A h \in S : h \in Nat
      OBVIOUS
    <3>2. \A h \in S : h <= n => h <= m
      BY <2>1, <3>1
    <3>3. m <= m /\ ~(m <= n)
      BY <2>1
    <3> QED
      BY <1>6, <3>2, <3>3
  <2>3. <<Fino(n), U>> \in StrictSubsetOrdering(S)
    <3>1. U \in SUBSET S /\ Fino(n) \in SUBSET S
      BY <1>6
    <3> HIDE DEF Fino
    <3> QED
      BY <2>2, <3>1 DEF StrictSubsetOrdering
  <2> QED
    BY <1>5, <2>3
<1> QED
  BY <1>7

\* What main has in its hands while it writes the areas: a line of the file
\* with numbers, and the structure it wrote last.
Righe == {Valori[riga] : riga \in DOMAIN Valori}
Aree == {"dump", "posizioni", "lotti", "child_pids"}

Letti ==
  /\ par \in Righe
  /\ pos \in Nat \ {0}
  /\ \A n \in DOMAIN PARAMETRO : PARAMETRO[n] \in {File[m] : m \in DOMAIN File}
  /\ \A n \in DOMAIN PARAMETRO : PARAMETRO[n].tipo = "numero"
  /\ PARAMETRO \in Seq([tipo : Tipi, riga : Nat])
  /\ fase = "letti" => PARAMETRO # <<>>

Scritto ==
  /\ area \in Aree
  /\ k \in Nat
  /\ passo = "parametri" => k = 0
  /\ k > 0 => scritto = Me!Struttura(k - 1)

InvMemoria == Letti /\ Scritto

\* Where structure n begins and ends.
LEMMA Confini ==
  ASSUME par \in [NAVI : Nat \ {0}, PORTI : Nat \ {0}, MERCI : Nat \ {0}], NEW n \in Nat
  PROVE  /\ area = "posizioni" => Me!Struttura(n).da = 16 * n /\ Me!Struttura(n).a = 16 * n + 15
         /\ area = "lotti" => Me!Struttura(n).da = 8 * n /\ Me!Struttura(n).a = 8 * n + 7
         /\ area = "child_pids" => Me!Struttura(n).da = 4 * n /\ Me!Struttura(n).a = 4 * n + 3
         /\ area = "dump" =>
              IF n = 0 THEN Me!Struttura(n).da = 0 /\ Me!Struttura(n).a = 47
              ELSE Me!Struttura(n).da = 60 + 20 * n /\ Me!Struttura(n).a = 79 + 20 * n
<1>0. par.MERCI \in Nat /\ par.PORTI \in Nat
  OBVIOUS
<1>1. ASSUME area = "posizioni"
      PROVE  Me!Struttura(n).da = 16 * n /\ Me!Struttura(n).a = 16 * n + 15
  BY <1>1 DEF Me!Struttura, Me!PUNTO, Me!Tratto
<1>2. ASSUME area = "lotti"
      PROVE  Me!Struttura(n).da = 8 * n /\ Me!Struttura(n).a = 8 * n + 7
  BY <1>2 DEF Me!Struttura, Me!MERCE, Me!INT, Me!Tratto
<1>3. ASSUME area = "child_pids"
      PROVE  Me!Struttura(n).da = 4 * n /\ Me!Struttura(n).a = 4 * n + 3
  BY <1>3 DEF Me!Struttura, Me!INT, Me!Tratto
<1>4. ASSUME area = "dump", n = 0
      PROVE  Me!Struttura(n).da = 0 /\ Me!Struttura(n).a = 47
  BY <1>4 DEF Me!Struttura, Me!DUMP, Me!Tratto
<1>5. ASSUME area = "dump", n # 0
      PROVE  Me!Struttura(n).da = 60 + 20 * n /\ Me!Struttura(n).a = 79 + 20 * n
  <2>1. Me!Struttura(n) = Me!Contatore(n)
    BY <1>5 DEF Me!Struttura
  <2>2. Me!CastMerceDump = 80 /\ Me!CastPortoDump = 80 + 20 * par.MERCI
    BY DEF Me!CastMerceDump, Me!CastPortoDump, Me!INT, Me!MERCE_DUMP
  <2>3. Me!MERCE_DUMP = 20 /\ Me!PORTO_DUMP = 20
    BY DEF Me!MERCE_DUMP, Me!PORTO_DUMP, Me!INT
  <2>4. CASE n <= par.MERCI
    <3>1. Me!Contatore(n) = Me!Tratto(80 + 20 * (n - 1), 20)
      BY <2>2, <2>3, <2>4 DEF Me!Contatore
    <3> QED
      BY <2>1, <3>1 DEF Me!Tratto
  <2>5. CASE ~(n <= par.MERCI)
    <3>1. Me!Contatore(n) = Me!Tratto(80 + 20 * par.MERCI + 20 * (n - 1 - par.MERCI), 20)
      BY <2>2, <2>3, <2>5 DEF Me!Contatore
    <3>2. 80 + 20 * par.MERCI + 20 * (n - 1 - par.MERCI) = 60 + 20 * n
      BY <1>0
    <3> QED
      BY <2>1, <3>1, <3>2 DEF Me!Tratto
  <2> QED
    BY <2>4, <2>5
<1> QED
  BY <1>1, <1>2, <1>3, <1>4, <1>5

\* A structure depends on the line and on the area only.
LEMMA StrutturaFerma ==
  ASSUME UNCHANGED <<par, area>>, NEW CONSTANT n
  PROVE  Me!Struttura(n)' = Me!Struttura(n)
BY DEF Me!Struttura, Me!Contatore, Me!CastMerceDump, Me!CastPortoDump

LEMMA ScrittoFermo ==
  ASSUME Scritto, UNCHANGED memoria, passo' # "parametri" \/ passo' = passo
  PROVE  Scritto'
<1>1. Me!Struttura(k - 1)' = Me!Struttura(k - 1)
  BY DEF memoria, Me!Struttura, Me!Contatore, Me!CastMerceDump, Me!CastPortoDump
<1> QED
  BY <1>1 DEF Scritto, memoria

LEMMA InitInvMemoria == InitPreparazione => InvMemoria
<1> SUFFICES ASSUME InitPreparazione PROVE InvMemoria
  OBVIOUS
<1>1. Letti
  <2>1. PARAMETRO = <<>> /\ pos = 1 /\ fase # "letti" /\ par = Valori[RigaMappa]
    BY DEF InitPreparazione, Co!Init
  <2>2. par \in Righe
    BY <2>1, PreparazioneAssumption DEF Righe
  <2>3. PARAMETRO \in Seq([tipo : Tipi, riga : Nat]) /\ DOMAIN PARAMETRO = {}
    BY <2>1
  <2> QED
    BY <2>1, <2>2, <2>3 DEF Letti
<1>2. Scritto
  BY DEF InitPreparazione, Scritto, Aree
<1> QED
  BY <1>1, <1>2 DEF InvMemoria

LEMMA NextInvMemoria ==
  InvMemoria /\ [NextPreparazione]_<<parametri, passo, memoria, mappa>> => InvMemoria'
<1> SUFFICES ASSUME InvMemoria, [NextPreparazione]_<<parametri, passo, memoria, mappa>>
             PROVE  InvMemoria'
  OBVIOUS
<1> USE DEF InvMemoria
<1>1. CASE Parametri
  <2>1. Scritto'
    BY <1>1, ScrittoFermo DEF Parametri
  <2>2. par' \in Righe
    BY <1>1 DEF Parametri, Letti, memoria
  <2>3. CASE Co!Cerca
    <3>1. UNCHANGED <<PARAMETRO, fase>> /\ pos' = pos + 1
      BY <2>3 DEF Co!Cerca
    <3> QED
      BY <2>1, <2>2, <3>1 DEF Letti
  <2>4. CASE Co!CercaFinita
    <3>1. UNCHANGED <<PARAMETRO, pos>> /\ fase' = "lettura"
      BY <2>4 DEF Co!CercaFinita
    <3> QED
      BY <2>1, <2>2, <3>1 DEF Letti
  <2>5. CASE Co!Leggi
    <3>1. CASE PARAMETRO' = PARAMETRO /\ pos' = pos /\ fase' = "errore"
      BY <2>1, <2>2, <3>1 DEF Letti
    <3>2. CASE \E m \in DOMAIN File : /\ File[m].tipo = "numero"
                                      /\ PARAMETRO' = Append(PARAMETRO, File[m])
                                      /\ pos' = m + 1
      <4>1. PICK m \in DOMAIN File : /\ File[m].tipo = "numero"
                                     /\ PARAMETRO' = Append(PARAMETRO, File[m])
                                     /\ pos' = m + 1
        BY <3>2
      <4>2. m \in Nat \ {0} /\ File[m] \in [tipo : Tipi, riga : Nat]
        <5> DEFINE Voci == [tipo : Tipi, riga : Nat]
        <5>1. File \in Seq(Voci)
          BY PreparazioneAssumption
        <5> HIDE DEF Voci
        <5>2. m \in Nat \ {0} /\ File[m] \in Voci
          BY <5>1
        <5> QED
          BY <5>2 DEF Voci
      <4>3. PARAMETRO \in Seq([tipo : Tipi, riga : Nat])
        BY DEF Letti
      <4>4. PARAMETRO' \in Seq([tipo : Tipi, riga : Nat]) /\ PARAMETRO' # <<>>
        BY <4>1, <4>2, <4>3
      <4>5. \A n \in DOMAIN PARAMETRO' :
               \/ PARAMETRO'[n] = File[m]
               \/ n \in DOMAIN PARAMETRO /\ PARAMETRO'[n] = PARAMETRO[n]
        <5>1. /\ Len(PARAMETRO') = Len(PARAMETRO) + 1 /\ Len(PARAMETRO) \in Nat
              /\ \A n \in 1 .. Len(PARAMETRO) : PARAMETRO'[n] = PARAMETRO[n]
              /\ PARAMETRO'[Len(PARAMETRO) + 1] = File[m]
          <6>1. Append(PARAMETRO, File[m]) = PARAMETRO'
            BY <4>1
          <6>2. Len(PARAMETRO) \in Nat
            BY <4>3
          <6> DEFINE Voci == [tipo : Tipi, riga : Nat]
          <6>3. PARAMETRO \in Seq(Voci) /\ File[m] \in Voci
            BY <4>2, <4>3
          <6> HIDE DEF Voci
          <6>4. /\ Len(Append(PARAMETRO, File[m])) = Len(PARAMETRO) + 1
                /\ \A n \in 1 .. Len(PARAMETRO) : Append(PARAMETRO, File[m])[n] = PARAMETRO[n]
                /\ Append(PARAMETRO, File[m])[Len(PARAMETRO) + 1] = File[m]
            BY <6>3, AppendProperties
          <6> QED
            BY <6>1, <6>2, <6>4
        <5>2. DOMAIN PARAMETRO' = 1 .. Len(PARAMETRO') /\ DOMAIN PARAMETRO = 1 .. Len(PARAMETRO)
          BY <4>3, <4>4
        <5> QED
          BY <5>1, <5>2
      <4>6. \A n \in DOMAIN PARAMETRO' : /\ PARAMETRO'[n] \in {File[h] : h \in DOMAIN File}
                                         /\ PARAMETRO'[n].tipo = "numero"
        BY <4>1, <4>5 DEF Letti
      <4>7. pos' \in Nat \ {0}
        BY <4>1, <4>2
      <4> QED
        BY <2>1, <2>2, <4>4, <4>6, <4>7 DEF Letti
    <3>3. ASSUME Co!Prossimi # {} PROVE Co!Min(Co!Prossimi) \in DOMAIN File
      <4>1. Len(File) \in Nat /\ DOMAIN File = 1 .. Len(File)
        BY PreparazioneAssumption
      <4>2. pos \in Nat \ {0}
        BY DEF Letti
      <4>3. \A m \in Co!Prossimi : m \in Nat /\ m \in 1 .. Len(File)
        <5>1. \A m \in Co!Prossimi : m \in pos .. Len(File)
          BY DEF Co!Prossimi
        <5> QED
          BY <4>1, <4>2, <5>1
      <4>4. \E m \in Co!Prossimi : \A n \in Co!Prossimi : m <= n
        <5>1. Co!Prossimi \in SUBSET Nat
          BY <4>3
        <5> QED
          BY <3>3, <5>1, Minimo
      <4>5. Co!Min(Co!Prossimi) \in Co!Prossimi
        BY <4>4 DEF Co!Min
      <4> QED
        BY <4>1, <4>3, <4>5
    <3>4. CASE Co!Prossimi # {} /\ File[Co!Min(Co!Prossimi)].tipo = "numero"
      BY <2>5, <3>2, <3>3, <3>4 DEF Co!Leggi
    <3>5. CASE ~(Co!Prossimi # {} /\ File[Co!Min(Co!Prossimi)].tipo = "numero")
      BY <2>5, <3>1, <3>5 DEF Co!Leggi
    <3> QED
      BY <3>4, <3>5
  <2> QED
    BY <1>1, <2>3, <2>4, <2>5 DEF Parametri, Co!Next
<1>2. CASE ParametriLetti
  <2>1. par' \in Righe
    <3>1. 1 \in DOMAIN PARAMETRO
      BY <1>2 DEF ParametriLetti, Letti
    <3> QED
      BY <1>2, <3>1, PreparazioneAssumption DEF ParametriLetti, Letti, Righe
  <2> QED
    BY <1>2, <2>1 DEF ParametriLetti, Letti, Scritto, parametri, mappa
<1>3. CASE Memoria
  <2>1. Letti'
    BY <1>3 DEF Memoria, parametri, Letti, Me!Next, Me!Scrive, Me!Passa
  <2>2. ASSUME Me!Scrive PROVE Scritto'
    <3>1. /\ k' = k + 1 /\ k \in Nat /\ scritto' = Me!Struttura(k)
          /\ UNCHANGED <<par, area, passo>> /\ passo = "memoria"
      BY <1>3, <2>2 DEF Memoria, Me!Scrive, Scritto
    <3>2. k' - 1 = k
      BY <3>1
    <3>3. Me!Struttura(k' - 1) = Me!Struttura(k)
      BY <3>2
    <3>4. Me!Struttura(k - 1)' = Me!Struttura(k' - 1)
      BY <3>1 DEF Me!Struttura, Me!Contatore, Me!CastMerceDump, Me!CastPortoDump
    <3> QED
      BY <3>1, <3>3, <3>4 DEF Scritto
  <2>3. ASSUME NEW da, NEW a \in Aree, Me!Passa(da, a) PROVE Scritto'
    BY <1>3, <2>3 DEF Memoria, Me!Passa, Scritto
  <2> QED
    BY <1>3, <2>1, <2>2, <2>3 DEF Memoria, Me!Next, Aree
<1>4. CASE GeneraPosizioni
  <2>1. Letti'
    BY <1>4 DEF GeneraPosizioni, Letti, parametri, memoria
  <2> QED
    BY <1>4, <2>1, ScrittoFermo DEF GeneraPosizioni
<1>5. CASE Mappa
  <2>1. Letti'
    BY <1>5 DEF Mappa, Letti, parametri, memoria
  <2> QED
    BY <1>5, <2>1, ScrittoFermo DEF Mappa
<1>6. CASE UNCHANGED <<parametri, passo, memoria, mappa>>
  <2>1. Letti'
    BY <1>6 DEF Letti, parametri, memoria
  <2> QED
    BY <1>6, <2>1, ScrittoFermo
<1> QED
  BY <1>1, <1>2, <1>3, <1>4, <1>5, <1>6 DEF NextPreparazione

\* No structure is written over one already there, for any numbers of ships,
\* ports and goods (definitions.h:129-133).
THEOREM NienteSopra == SpecPreparazione => MaiSopra
<1>1. InvMemoria /\ [NextPreparazione]_<<parametri, passo, memoria, mappa>>
        => (k > 0 /\ k' = k + 1 => scritto'.da > scritto.a)
  <2> SUFFICES ASSUME InvMemoria, [NextPreparazione]_<<parametri, passo, memoria, mappa>>,
                      k > 0, k' = k + 1
               PROVE  scritto'.da > scritto.a
    OBVIOUS
  <2>1. k \in Nat /\ k' # k
    BY DEF InvMemoria, Scritto
  <2>2. Memoria
    BY <2>1 DEF NextPreparazione, Parametri, ParametriLetti, GeneraPosizioni, Mappa, memoria
  <2>3. Me!Scrive
    BY <2>1, <2>2 DEF Memoria, Me!Next, Me!Passa
  <2>4. par \in [NAVI : Nat \ {0}, PORTI : Nat \ {0}, MERCI : Nat \ {0}]
    BY PreparazioneAssumption DEF InvMemoria, Letti, Righe
  <2>5. Me!Struttura(k - 1).a < Me!Struttura(k).da
    <3>1. k - 1 \in Nat /\ k # 0
      BY <2>1
    <3> QED
      <4>1. /\ area = "posizioni" => Me!Struttura(k).da = 16 * k /\ Me!Struttura(k - 1).a = 16 * (k - 1) + 15
            /\ area = "lotti" => Me!Struttura(k).da = 8 * k /\ Me!Struttura(k - 1).a = 8 * (k - 1) + 7
            /\ area = "child_pids" => Me!Struttura(k).da = 4 * k /\ Me!Struttura(k - 1).a = 4 * (k - 1) + 3
            /\ area = "dump" => /\ Me!Struttura(k).da = 60 + 20 * k
                                /\ Me!Struttura(k - 1).a = IF k = 1 THEN 47 ELSE 79 + 20 * (k - 1)
        <5>1. k - 1 = 0 <=> k = 1
          BY <2>1
        <5> QED
          BY <2>1, <2>4, <3>1, <5>1, Confini
      <4> QED
        BY <2>1, <4>1 DEF InvMemoria, Scritto, Aree
  <2>6. scritto = Me!Struttura(k - 1) /\ scritto' = Me!Struttura(k)
    BY <2>3 DEF InvMemoria, Scritto, Me!Scrive
  <2> QED
    BY <2>5, <2>6
<1> QED
  BY InitInvMemoria, NextInvMemoria, <1>1, PTL DEF SpecPreparazione, MaiSopra, Me!MaiSopra

\* A segment is at least as long as it was asked with.
LEMMA PagineIntere ==
  ASSUME NEW n \in Nat
  PROVE  Me!Pagine(n) \in Int /\ n <= Me!Pagine(n)
<1> DEFINE q == (n + PAGINA - 1) \div PAGINA
<1>1. PAGINA \in Nat /\ PAGINA > 0 /\ n + PAGINA - 1 \in Nat
  BY PreparazioneAssumption
<1>2. \A x \in Nat, d \in Nat \ {0} : x \div d \in Int /\ x < (x \div d) * d + d
  BY SMT
<1>3. q \in Int /\ n + PAGINA - 1 < q * PAGINA + PAGINA
  BY <1>1, <1>2
<1>4. q * PAGINA \in Int
  BY <1>1, <1>3
<1>5. Me!Pagine(n) = q * PAGINA
  BY DEF Me!Pagine
<1> HIDE DEF q
<1> QED
  BY <1>1, <1>3, <1>4, <1>5

\* No area receives more structures than it is due.
NonDiPiu == k <= Me!Quante[area]

LEMMA QuanteNat ==
  ASSUME par \in [NAVI : Nat \ {0}, PORTI : Nat \ {0}, MERCI : Nat \ {0}]
  PROVE  /\ Me!Quante["dump"] = 1 + par.MERCI + par.PORTI
         /\ Me!Quante["posizioni"] = IF 4 >= par.PORTI THEN 4 ELSE par.PORTI
         /\ Me!Quante["lotti"] = par.MERCI
         /\ Me!Quante["child_pids"] = par.PORTI + par.NAVI
         /\ \A a \in Aree : Me!Quante[a] \in Nat
BY DEF Me!Quante, Me!Massimo, Aree

LEMMA QuanteFerme == par' = par => \A a \in Aree : Me!Quante[a]' = Me!Quante[a]
BY DEF Me!Quante, Me!Massimo

LEMMA NextNonDiPiu ==
  InvMemoria /\ NonDiPiu /\ [NextPreparazione]_<<parametri, passo, memoria, mappa>> => NonDiPiu'
<1> SUFFICES ASSUME InvMemoria, NonDiPiu,
                    [NextPreparazione]_<<parametri, passo, memoria, mappa>>
             PROVE  NonDiPiu'
  OBVIOUS
<1>0. InvMemoria'
  BY NextInvMemoria
<1>1. /\ par \in [NAVI : Nat \ {0}, PORTI : Nat \ {0}, MERCI : Nat \ {0}]
      /\ area \in Aree /\ k \in Nat
  BY PreparazioneAssumption DEF InvMemoria, Letti, Scritto, Righe
<1>2. (/\ par \in [NAVI : Nat \ {0}, PORTI : Nat \ {0}, MERCI : Nat \ {0}]
       /\ area \in Aree)'
  BY <1>0, PreparazioneAssumption DEF InvMemoria, Letti, Scritto, Righe
<1>3. ASSUME UNCHANGED memoria PROVE NonDiPiu'
  BY <1>1, <1>3, QuanteFerme DEF NonDiPiu, memoria
<1>4. ASSUME k' = 0 PROVE NonDiPiu'
  <2>1. (Me!Quante[area] \in Nat)'
    <3>1. (\A a \in Aree : Me!Quante[a] \in Nat)'
      BY <1>2, QuanteNat, PTL
    <3> QED
      BY <1>2, <3>1
  <2> QED
    BY <1>4, <2>1 DEF NonDiPiu
<1>5. CASE ParametriLetti
  BY <1>4, <1>5 DEF ParametriLetti, InvMemoria, Scritto
<1>6. CASE Memoria
  <2>1. ASSUME Me!Scrive PROVE NonDiPiu'
    <3>1. k < Me!Quante[area] /\ k' = k + 1 /\ par' = par /\ area' = area
      BY <2>1 DEF Me!Scrive
    <3>2. Me!Quante[area] \in Nat /\ Me!Quante[area]' = Me!Quante[area]
      BY <1>1, <3>1, QuanteNat, QuanteFerme
    <3> QED
      BY <1>1, <3>1, <3>2 DEF NonDiPiu
  <2>2. ASSUME NEW da, NEW a, Me!Passa(da, a) PROVE NonDiPiu'
    BY <1>4, <2>2 DEF Me!Passa
  <2> QED
    BY <1>6, <2>1, <2>2 DEF Memoria, Me!Next
<1> QED
  BY <1>3, <1>5, <1>6 DEF NextPreparazione, Parametri, GeneraPosizioni, Mappa

\* Nothing is written past the end of an area if the lines of the file leave
\* room for it: the counters of the dump, 32 bytes longer than the segment, the
\* four corners and the pids of the children (definitions.h:105, 129-133,
\* master.c:94).
THEOREM MappatoSeCapienti ==
  ASSUME \A riga \in DOMAIN Valori : Me!Capiente(Valori[riga])
  PROVE  SpecPreparazione => []SempreMappato
<1>1. ASSUME InvMemoria, NonDiPiu PROVE SempreMappato
  <2> SUFFICES ASSUME k > 0 PROVE scritto.a < Me!Mappati[area]
    BY DEF SempreMappato, Me!SempreMappato
  <2>1. /\ par \in [NAVI : Nat \ {0}, PORTI : Nat \ {0}, MERCI : Nat \ {0}]
        /\ Me!Capiente(par) /\ area \in Aree /\ k \in Nat
        /\ scritto = Me!Struttura(k - 1)
    BY <1>1, PreparazioneAssumption DEF InvMemoria, Letti, Scritto, Righe
  <2>2. par.NAVI \in Nat /\ par.PORTI \in Nat /\ par.MERCI \in Nat /\ k - 1 \in Nat
    BY <2>1
  <2>3. k <= Me!Quante[area]
    BY <1>1 DEF NonDiPiu
  <2>4. CASE area = "dump"
    <3>1. k <= 1 + par.MERCI + par.PORTI
      BY <2>1, <2>3, <2>4, QuanteNat
    <3>2. Me!Mappati[area] = Me!Pagine(20 * (par.MERCI + par.PORTI) + 48)
      <4>1. Me!SizeDump = 20 * (par.MERCI + par.PORTI) + 48
        BY <2>2 DEF Me!SizeDump, Me!PORTO_DUMP, Me!MERCE_DUMP, Me!INT, Me!DUMP
      <4> QED
        BY <2>4, <4>1 DEF Me!Mappati
    <3>3. 20 * (par.MERCI + par.PORTI) + 80 <= Me!Mappati[area]
      BY <2>1, <3>2 DEF Me!Capiente, Me!DUMP
    <3>4. scritto.a = IF k - 1 = 0 THEN 47 ELSE 79 + 20 * (k - 1)
      BY <2>1, <2>2, <2>4, Confini
    <3>5. Me!Mappati[area] \in Int
      BY <2>2, <3>2, PagineIntere
    <3> QED
      BY <2>1, <2>2, <3>1, <3>3, <3>4, <3>5
  <2>5. CASE area = "posizioni"
    <3>1. k <= 4 \/ k <= par.PORTI
      BY <2>1, <2>3, <2>5, QuanteNat
    <3>2. Me!Mappati[area] = Me!Pagine(16 * par.PORTI)
      BY <2>5 DEF Me!Mappati, Me!PUNTO
    <3>3. 64 <= Me!Mappati[area] /\ 16 * par.PORTI <= Me!Mappati[area] /\ Me!Mappati[area] \in Int
      <4>1. 16 * par.PORTI \in Nat
        BY <2>2
      <4>2. 4 * 16 <= Me!Pagine(16 * par.PORTI)
        BY <2>1 DEF Me!Capiente, Me!PUNTO
      <4> QED
        BY <3>2, <4>1, <4>2, PagineIntere
    <3>4. scritto.a = 16 * (k - 1) + 15
      BY <2>1, <2>2, <2>5, Confini
    <3> QED
      BY <2>1, <2>2, <3>1, <3>3, <3>4
  <2>6. CASE area = "lotti"
    <3>1. k <= par.MERCI
      BY <2>1, <2>3, <2>6, QuanteNat
    <3>2. Me!Mappati[area] = Me!Pagine(8 * par.MERCI)
      BY <2>6 DEF Me!Mappati, Me!MERCE, Me!INT
    <3>3. 8 * par.MERCI <= Me!Mappati[area] /\ Me!Mappati[area] \in Int
      <4>1. 8 * par.MERCI \in Nat
        BY <2>2
      <4> QED
        BY <3>2, <4>1, PagineIntere
    <3>4. scritto.a = 8 * (k - 1) + 7
      BY <2>1, <2>2, <2>6, Confini
    <3> QED
      BY <2>1, <2>2, <3>1, <3>3, <3>4
  <2>7. CASE area = "child_pids"
    <3>1. k <= par.PORTI + par.NAVI
      BY <2>1, <2>3, <2>7, QuanteNat
    <3>2. Me!Mappati[area] = 4 * (par.NAVI * par.PORTI)
      BY <2>7 DEF Me!Mappati, Me!INT
    <3>3. par.NAVI + par.PORTI <= par.NAVI * par.PORTI /\ par.NAVI * par.PORTI \in Nat
      BY <2>1, <2>2 DEF Me!Capiente
    <3>4. scritto.a = 4 * (k - 1) + 3
      BY <2>1, <2>2, <2>7, Confini
    <3>5. ASSUME NEW z \in Nat, par.NAVI + par.PORTI <= z PROVE 4 * (k - 1) + 3 < 4 * z
      BY <2>1, <2>2, <3>1, <3>5
    <3> QED
      BY <3>2, <3>3, <3>4, <3>5
  <2> QED
    BY <2>1, <2>4, <2>5, <2>6, <2>7 DEF Aree
<1>2. InitPreparazione => NonDiPiu
  <2> SUFFICES ASSUME InitPreparazione PROVE NonDiPiu
    OBVIOUS
  <2>1. par \in [NAVI : Nat \ {0}, PORTI : Nat \ {0}, MERCI : Nat \ {0}] /\ area \in Aree /\ k = 0
    BY PreparazioneAssumption DEF InitPreparazione, Aree
  <2>2. Me!Quante[area] \in Nat
    BY <2>1, QuanteNat
  <2> QED
    BY <2>1, <2>2 DEF NonDiPiu
<1> QED
  BY InitInvMemoria, NextInvMemoria, <1>1, <1>2, NextNonDiPiu, PTL DEF SpecPreparazione

-----------------------------------------------------------------------------
(* The map: the ports placed and the search for the nearest (Mappa). *)

\* The points of the map, in units of 1/lato.
Limite == SO_LATO * SO_LATO
Punti == {z \in Int \X Int : /\ -Limite <= z[1] /\ z[1] <= Limite
                             /\ -Limite <= z[2] /\ z[2] <= Limite}

LEMMA Resto ==
  ASSUME NEW x \in Int, NEW n \in Nat \ {0}
  PROVE  Ma!CResto(x, n) \in Int /\ -n < Ma!CResto(x, n) /\ Ma!CResto(x, n) < n
<1>1. x % n \in Int /\ 0 <= x % n /\ x % n < n
  BY SMT
<1> QED
  BY <1>1, SMT DEF Ma!CResto

LEMMA Prodotto ==
  ASSUME NEW x \in Nat, NEW y \in Nat
  PROVE  Ma!Prodotto32(x, y) \in Int
<1> DEFINE basso == x * (y % 65536)
           alto  == (x * (y \div 65536) + basso \div 65536) % 65536
<1>1. basso \in Int
  BY SMT
<1>2. x * (y \div 65536) \in Int
  BY SMT
<1> HIDE DEF basso
<1>3. alto \in Int /\ basso % 65536 \in Int
  BY <1>1, <1>2, SMT
<1>4. Ma!Prodotto32(x, y) =
        (IF alto >= 32768 THEN alto - 65536 ELSE alto) * 65536 + (basso % 65536)
  BY SMT DEF Ma!Prodotto32, basso
<1> HIDE DEF alto
<1> QED
  BY <1>3, <1>4, SMT

LEMMA CoordinataLimitata ==
  ASSUME NEW m \in Tiri, NEW pid \in Pid
  PROVE  /\ Ma!Coordinata(m, pid) \in Int
         /\ -Limite <= Ma!Coordinata(m, pid) /\ Ma!Coordinata(m, pid) <= Limite
<1> DEFINE c == Ma!CResto(Ma!Prodotto32(m, pid), SO_LATO)
<1>1. m \in Nat /\ m < SO_LATO /\ pid \in Nat /\ SO_LATO \in Nat /\ SO_LATO > 0
  BY PreparazioneAssumption, SMT
<1>2. c \in Int /\ -SO_LATO < c /\ c < SO_LATO
  <2>1. Ma!Prodotto32(m, pid) \in Int
    BY <1>1, Prodotto, SMT
  <2> QED
    BY <1>1, <2>1, Resto, SMT
<1>3. Ma!Coordinata(m, pid) = m + SO_LATO * c
  BY SMT DEF Ma!Coordinata
<1> HIDE DEF c
<1>4. SO_LATO * c <= SO_LATO * (SO_LATO - 1) /\ SO_LATO * c >= SO_LATO * (1 - SO_LATO)
  BY <1>1, <1>2, SMT
<1>5. /\ SO_LATO * (SO_LATO - 1) = Limite - SO_LATO
      /\ SO_LATO * (1 - SO_LATO) = SO_LATO - Limite
      /\ Limite \in Int /\ SO_LATO * c \in Int
  BY <1>1, <1>2, SMT DEF Limite
<1> QED
  BY <1>1, <1>3, <1>4, <1>5, SMT

LEMMA PuntiCasualiPunti == \A pid \in Pid : Ma!PuntiCasuali(pid) \subseteq Punti
BY CoordinataLimitata, SMT DEF Ma!PuntiCasuali, Punti

LEMMA VerticiPunti ==
  /\ Ma!Vertici \in [0 .. 3 -> Punti]
  /\ Ma!Vertici[0] = <<0, 0>>
<1>1. Limite \in Nat
  BY PreparazioneAssumption, SMT DEF Limite
<1>2. Ma!Vertici = [n \in 0 .. 3 |-> <<IF n \in {1, 2} THEN Limite ELSE 0, IF n \in {2, 3} THEN Limite ELSE 0>>]
  BY SMT DEF Ma!Vertici, Limite
<1>3. \A u, v \in {0, Limite} : <<u, v>> \in Punti
  BY <1>1, SMT DEF Punti
<1> QED
  BY <1>2, <1>3, SMT

LEMMA QuadratoLimitato ==
  ASSUME NEW a \in Nat, NEW u \in Int, NEW v \in Int,
         -a <= u, u <= a, -a <= v, v <= a
  PROVE  (u - v) * (u - v) \in Nat /\ (u - v) * (u - v) <= 4 * (a * a)
<1> DEFINE d == u - v
<1>1. d \in Int /\ -(2 * a) <= d /\ d <= 2 * a
  BY SMT
<1> HIDE DEF d
<1>2. d * d \in Nat
  BY <1>1, SMT
<1>3. d * d <= (2 * a) * (2 * a)
  BY <1>1, SMT
<1>4. (2 * a) * (2 * a) = 4 * (a * a)
  BY SMT
<1> QED
  BY <1>2, <1>3, <1>4 DEF d

\* From four up, no distance on the map is the one the search starts from.
LEMMA DistanzaLimitata ==
  ASSUME SO_LATO >= 4, NEW p \in Punti, NEW q \in Punti
  PROVE  Ma!Distanza2(p, q) \in Nat /\ Ma!Distanza2(p, q) < Ma!Lontano
<1>1. SO_LATO \in Nat /\ Limite \in Nat /\ Limite >= 16
  <2>1. \A l \in Nat : l >= 4 => l * l \in Nat /\ l * l >= 16
    BY SMT
  <2> QED
    BY PreparazioneAssumption, <2>1 DEF Limite
<1>0. /\ p[1] \in Int /\ -Limite <= p[1] /\ p[1] <= Limite
      /\ p[2] \in Int /\ -Limite <= p[2] /\ p[2] <= Limite
      /\ q[1] \in Int /\ -Limite <= q[1] /\ q[1] <= Limite
      /\ q[2] \in Int /\ -Limite <= q[2] /\ q[2] <= Limite
  BY DEF Punti
<1>2. /\ (p[1] - q[1]) * (p[1] - q[1]) \in Nat
      /\ (p[1] - q[1]) * (p[1] - q[1]) <= 4 * (Limite * Limite)
  BY <1>0, <1>1, QuadratoLimitato
<1>3. /\ (p[2] - q[2]) * (p[2] - q[2]) \in Nat
      /\ (p[2] - q[2]) * (p[2] - q[2]) <= 4 * (Limite * Limite)
  BY <1>0, <1>1, QuadratoLimitato
<1>4. Ma!Lontano = Limite * (Limite * Limite)
  <2>1. Ma!Lontano = (SO_LATO * SO_LATO * SO_LATO) * (SO_LATO * SO_LATO * SO_LATO)
    BY DEF Ma!Lontano
  <2>2. \A l \in Nat : (l * l * l) * (l * l * l) = (l * l) * ((l * l) * (l * l))
    BY SMT
  <2> QED
    BY <1>1, <2>1, <2>2 DEF Limite
<1>5. Limite * Limite \in Nat /\ Limite * Limite > 0
  BY <1>1, SMT
<1>6. Limite * (Limite * Limite) >= 16 * (Limite * Limite)
  <2> DEFINE l2 == Limite * Limite
  <2>1. l2 \in Nat
    BY <1>5
  <2> HIDE DEF l2
  <2>2. Limite * l2 >= 16 * l2
    BY <1>1, <2>1, SMT
  <2> QED
    BY <2>2 DEF l2
<1>7. /\ Ma!Distanza2(p, q) \in Nat
      /\ Ma!Distanza2(p, q) <= 8 * (Limite * Limite)
  <2>1. \A x, y, z \in Nat : x <= 4 * z /\ y <= 4 * z => x + y \in Nat /\ x + y <= 8 * z
    OBVIOUS
  <2> QED
    BY <1>2, <1>3, <1>5, <2>1 DEF Ma!Distanza2
<1> QED
  BY <1>4, <1>5, <1>6, <1>7, SMT

\* What the search has found among the first n places: the first of those that
\* are nearest.
Primo(p, n, j) ==
  /\ j \in 0 .. n - 1
  /\ \A h \in 0 .. n - 1 : /\ Ma!Distanza2(p, Ma!Letta(j)) <= Ma!Distanza2(p, Ma!Letta(h))
                           /\ h < j => Ma!Distanza2(p, Ma!Letta(j)) < Ma!Distanza2(p, Ma!Letta(h))

\* All the places the search reads.
Misurabili(p) ==
  \A h \in 0 .. SO_LATO - 1 : /\ Ma!Distanza2(p, Ma!Letta(h)) \in Nat
                             /\ Ma!Distanza2(p, Ma!Letta(h)) < Ma!Lontano

LEMMA PrimoUnico ==
  ASSUME NEW p, Misurabili(p), NEW n \in 1 .. SO_LATO, NEW a, NEW b, Primo(p, n, a), Primo(p, n, b)
  PROVE  a = b
<1> DEFINE D(h) == Ma!Distanza2(p, Ma!Letta(h))
<1>1. \A h \in 0 .. n - 1 : D(h) \in Nat
  BY PreparazioneAssumption DEF Misurabili
<1>2. a \in 0 .. n - 1 /\ \A h \in 0 .. n - 1 : D(a) <= D(h) /\ (h < a => D(a) < D(h))
  BY DEF Primo
<1>3. b \in 0 .. n - 1 /\ \A h \in 0 .. n - 1 : D(b) <= D(h) /\ (h < b => D(b) < D(h))
  BY DEF Primo
<1> HIDE DEF D
<1> QED
  BY <1>1, <1>2, <1>3

LEMMA PrimoEsiste ==
  ASSUME NEW p, Misurabili(p), NEW n \in 1 .. SO_LATO
  PROVE  \E j : Primo(p, n, j)
<1> DEFINE D(h) == Ma!Distanza2(p, Ma!Letta(h))
           Valore == {D(h) : h \in 0 .. n - 1}
<1>1. \A h \in 0 .. n - 1 : D(h) \in Nat
  BY PreparazioneAssumption DEF Misurabili
<1>2. PICK a \in 0 .. n - 1 : \A h \in 0 .. n - 1 : D(a) <= D(h)
  <2> HIDE DEF D
  <2>1. Valore \in SUBSET Nat /\ D(0) \in Valore
    BY <1>1
  <2>2. PICK v \in Valore : \A w \in Valore : v <= w
    <3> HIDE DEF Valore
    <3> QED
      BY <2>1, Minimo
  <2> QED
    BY <2>2
<1> DEFINE Vicini == {h \in 0 .. n - 1 : D(h) = D(a)}
<1>3. PICK j \in Vicini : \A h \in Vicini : j <= h
  <2> HIDE DEF D
  <2>1. Vicini \in SUBSET Nat /\ a \in Vicini
    OBVIOUS
  <2> HIDE DEF Vicini
  <2> QED
    BY <2>1, Minimo
<1>4. ASSUME NEW h \in 0 .. n - 1 PROVE D(j) <= D(h) /\ (h < j => D(j) < D(h))
  <2> HIDE DEF D
  <2>1. j \in 0 .. n - 1 /\ D(j) = D(a) /\ D(a) <= D(h)
    BY <1>2, <1>3
  <2>2. h < j => D(h) # D(a)
    BY <1>3, <2>1
  <2> QED
    BY <1>1, <2>1, <2>2
<1> QED
  BY <1>3, <1>4 DEF Primo

\* One place more.
LEMMA PrimoAvanza ==
  ASSUME NEW p, Misurabili(p), NEW n \in 1 .. SO_LATO - 1, NEW j, Primo(p, n, j)
  PROVE  Primo(p, n + 1,
               IF Ma!Distanza2(p, Ma!Letta(n)) < Ma!Distanza2(p, Ma!Letta(j)) THEN n ELSE j)
<1> DEFINE D(h) == Ma!Distanza2(p, Ma!Letta(h))
<1>1. \A h \in 0 .. n : D(h) \in Nat
  BY PreparazioneAssumption DEF Misurabili
<1>2. j \in 0 .. n - 1 /\ \A h \in 0 .. n - 1 : D(j) <= D(h) /\ (h < j => D(j) < D(h))
  BY DEF Primo
<1> DEFINE m == IF D(n) < D(j) THEN n ELSE j
<1>3. m \in 0 .. n /\ \A h \in 0 .. n : D(m) <= D(h) /\ (h < m => D(m) < D(h))
  <2> HIDE DEF D
  <2>1. \A h \in 0 .. n : h \in 0 .. n - 1 \/ h = n
    OBVIOUS
  <2>2. CASE D(n) < D(j)
    BY <1>1, <1>2, <2>1, <2>2
  <2>3. CASE ~(D(n) < D(j))
    BY <1>1, <1>2, <2>1, <2>3
  <2> QED
    BY <2>2, <2>3
<1>4. 0 .. n = 0 .. (n + 1) - 1
  OBVIOUS
<1> QED
  BY <1>3, <1>4 DEF Primo

\* What the loop of calcola_porto_piu_vicino computes.  The recursive function
\* exists, the first nearest place being a solution of its equation, and the
\* first n at which it would be something else cannot be.
LEMMA RicercaGiusta ==
  ASSUME NEW p, Misurabili(p)
  PROVE  Primo(p, SO_LATO, Ma!Vicino(p))
<1> DEFINE D(h) == Ma!Distanza2(p, Ma!Letta(h))
           Inizio == [indicemin |-> Ma!Indefinito, distmin |-> Ma!Lontano]
           Trovato(j) == [indicemin |-> j, distmin |-> D(j)]
           Segue(g) ==
             g = [n \in 0 .. SO_LATO |->
                    IF n = 0
                      THEN [indicemin |-> Ma!Indefinito, distmin |-> Ma!Lontano]
                      ELSE LET d == Ma!Distanza2(p, Ma!Letta(n - 1))
                           IN IF Ma!PiuVicino(d, g[n - 1].distmin)
                                THEN [indicemin |-> n - 1, distmin |-> d]
                                ELSE g[n - 1]]
           f == CHOOSE g : Segue(g)
           Meta(n) == CHOOSE j : Primo(p, n, j)
           Esito == [n \in 0 .. SO_LATO |-> IF n = 0 THEN Inizio ELSE Trovato(Meta(n))]
<1>0. SO_LATO \in Nat /\ SO_LATO > 0
  BY PreparazioneAssumption
<1>1. Ma!Vicino(p) = f[SO_LATO].indicemin
  BY DEF Ma!Vicino
<1>2. \A n \in 1 .. SO_LATO : Primo(p, n, Meta(n))
  BY PrimoEsiste
<1>3. \A h \in 0 .. SO_LATO - 1 : D(h) \in Nat /\ D(h) < Ma!Lontano
  BY DEF Misurabili
<1>4. ASSUME NEW g, Segue(g)
      PROVE  /\ DOMAIN g = 0 .. SO_LATO
             /\ g[0] = Inizio
             /\ \A n \in 1 .. SO_LATO :
                  g[n] = IF D(n - 1) < g[n - 1].distmin THEN Trovato(n - 1) ELSE g[n - 1]
  BY <1>0, <1>4 DEF Ma!PiuVicino
<1>5. ASSUME NEW g, DOMAIN g = 0 .. SO_LATO, g = [n \in DOMAIN g |-> g[n]],
             g[0] = Inizio,
             \A n \in 1 .. SO_LATO :
               g[n] = IF D(n - 1) < g[n - 1].distmin THEN Trovato(n - 1) ELSE g[n - 1]
      PROVE  Segue(g)
  <2> DEFINE Corpo(n) ==
               IF n = 0
                 THEN [indicemin |-> Ma!Indefinito, distmin |-> Ma!Lontano]
                 ELSE LET d == Ma!Distanza2(p, Ma!Letta(n - 1))
                      IN IF Ma!PiuVicino(d, g[n - 1].distmin)
                           THEN [indicemin |-> n - 1, distmin |-> d]
                           ELSE g[n - 1]
  <2>1. \A n \in 0 .. SO_LATO : g[n] = Corpo(n)
    <3> TAKE n \in 0 .. SO_LATO
    <3>1. CASE n = 0
      BY <1>5, <3>1
    <3>2. CASE n # 0
      <4>1. n \in 1 .. SO_LATO
        BY <1>0, <3>2
      <4>2. g[n] = IF D(n - 1) < g[n - 1].distmin THEN Trovato(n - 1) ELSE g[n - 1]
        BY <1>5, <4>1
      <4>3. Corpo(n) = IF D(n - 1) < g[n - 1].distmin THEN Trovato(n - 1) ELSE g[n - 1]
        BY <3>2, Zenon DEF Ma!PiuVicino
      <4> QED
        BY <4>2, <4>3
    <3> QED
      BY <3>1, <3>2
  <2>2. g = [n \in 0 .. SO_LATO |-> g[n]]
    BY <1>5
  <2>3. [n \in 0 .. SO_LATO |-> g[n]] = [n \in 0 .. SO_LATO |-> Corpo(n)]
    <3> HIDE DEF Corpo
    <3> QED
      BY <2>1
  <2> QED
    BY <2>2, <2>3
<1> HIDE DEF D, Segue
<1>6. \A n \in 1 .. SO_LATO :
        Trovato(Meta(n)) = IF n = 1 THEN Trovato(0)
                           ELSE IF D(n - 1) < D(Meta(n - 1)) THEN Trovato(n - 1)
                           ELSE Trovato(Meta(n - 1))
  <2> TAKE n \in 1 .. SO_LATO
  <2> HIDE DEF Meta
  <2>1. CASE n = 1
    <3>1. Meta(1) = 0
      BY <1>0, <1>2 DEF Primo
    <3> QED
      BY <2>1, <3>1
  <2>2. CASE n # 1
    <3> DEFINE m == n - 1
    <3>1. m \in 1 .. SO_LATO - 1 /\ m \in 1 .. SO_LATO /\ m + 1 = n
      BY <1>0, <2>2
    <3>2. Primo(p, m, Meta(m))
      BY <1>2, <3>1
    <3>3. Primo(p, n, IF D(m) < D(Meta(m)) THEN m ELSE Meta(m))
      <4> HIDE DEF m
      <4>1. Primo(p, m + 1, IF D(m) < D(Meta(m)) THEN m ELSE Meta(m))
        BY <3>1, <3>2, PrimoAvanza DEF D
      <4> QED
        BY <3>1, <4>1
    <3>4. Meta(n) = IF D(m) < D(Meta(m)) THEN m ELSE Meta(m)
      <4> HIDE DEF m
      <4>1. Primo(p, n, Meta(n))
        BY <1>2
      <4> QED
        BY <3>3, <4>1, PrimoUnico
    <3> QED
      BY <2>2, <3>4
  <2> QED
    BY <2>1, <2>2
<1>7. Segue(Esito)
  <2>1. DOMAIN Esito = 0 .. SO_LATO /\ Esito = [n \in DOMAIN Esito |-> Esito[n]]
    OBVIOUS
  <2>2. Esito[0] = Inizio
    BY <1>0
  <2>3. ASSUME NEW n \in 1 .. SO_LATO
        PROVE  Esito[n] = IF D(n - 1) < Esito[n - 1].distmin THEN Trovato(n - 1) ELSE Esito[n - 1]
    <3>1. Esito[n] = Trovato(Meta(n))
      BY <1>0
    <3>2. CASE n = 1
      <4>1. Esito[n - 1] = Inizio
        BY <2>2, <3>2
      <4>2. D(0) < Ma!Lontano
        BY <1>0, <1>3
      <4> HIDE DEF Meta, Esito
      <4>3. Trovato(Meta(n)) = Trovato(0)
        BY <1>6, <3>2
      <4>4. D(n - 1) < Inizio.distmin
        BY <3>2, <4>2
      <4> QED
        BY <3>1, <3>2, <4>1, <4>3, <4>4
    <3>3. CASE n # 1
      <4>1. n - 1 \in 1 .. SO_LATO /\ n - 1 # 0 /\ n - 1 \in 0 .. SO_LATO
        BY <1>0, <3>3
      <4>2. Esito[n - 1] = Trovato(Meta(n - 1))
        BY <4>1
      <4> HIDE DEF Meta, Esito
      <4>3. Esito[n - 1].distmin = D(Meta(n - 1))
        BY <4>2
      <4> HIDE DEF Trovato
      <4> QED
        BY <1>6, <3>1, <3>3, <4>2, <4>3
    <3> QED
      BY <3>2, <3>3
  <2> HIDE DEF Esito
  <2> QED
    BY <1>5, <2>1, <2>2, <2>3
<1>8. Segue(f)
  <2>1. \E g : Segue(g)
    BY <1>7
  <2> QED
    BY <2>1, Zenon
<1> DEFINE Diversi == {n \in 0 .. SO_LATO : f[n] # Esito[n]}
<1>9. Diversi = {}
  <2> SUFFICES ASSUME Diversi # {} PROVE FALSE
    OBVIOUS
  <2>1. PICK n \in Diversi : \A h \in Diversi : n <= h
    <3>1. Diversi \in SUBSET Nat
      OBVIOUS
    <3> HIDE DEF Diversi
    <3> QED
      BY <3>1, Minimo
  <2> HIDE DEF f, Esito
  <2>2. n \in 0 .. SO_LATO /\ f[n] # Esito[n]
    BY <2>1
  <2>3. f[0] = Inizio /\ Esito[0] = Inizio
    BY <1>4, <1>7, <1>8
  <2>4. n # 0
    BY <2>2, <2>3
  <2>5. n \in 1 .. SO_LATO /\ n - 1 \in 0 .. SO_LATO /\ ~(n <= n - 1)
    BY <1>0, <2>2, <2>4
  <2>6. f[n - 1] = Esito[n - 1]
    BY <2>1, <2>5
  <2> QED
    BY <1>4, <1>7, <1>8, <2>2, <2>5, <2>6
<1>10. f[SO_LATO] = Trovato(Meta(SO_LATO))
  <2>1. SO_LATO \in 0 .. SO_LATO /\ SO_LATO # 0
    BY <1>0
  <2>2. Esito[SO_LATO] = Trovato(Meta(SO_LATO))
    BY <2>1
  <2> HIDE DEF f, Esito, Meta
  <2> QED
    BY <1>9, <2>1, <2>2
<1>11. Ma!Vicino(p) = Meta(SO_LATO)
  <2> HIDE DEF f, Meta
  <2> QED
    BY <1>1, <1>10
<1> QED
  BY <1>0, <1>2, <1>11

\* The ports placed so far, four at least, the first of them in the origin.
PortiMessi ==
  /\ \E n \in 4 .. Valori[RigaMappa].PORTI : porti \in [0 .. n - 1 -> Punti]
  /\ porti[0] = <<0, 0>>

InvMappa ==
  /\ passo \in {"parametri", "memoria", "mappa"}
  /\ passo # "mappa" => posizione = <<>>
  /\ passo = "mappa" => ppid \in Pid /\ PortiMessi
  /\ posizione # <<>> => Ma!Piazzati /\ Ma!VicinoGiusto

\* With all the ports placed, and none beyond so_lato, the search ends on a port
\* that no other is nearer than: what is read behind the ports is the origin
\* again, where the first port is.
LEMMA VicinoDi ==
  ASSUME Valori[RigaMappa].PORTI <= SO_LATO, PortiMessi, Ma!Piazzati, NEW z \in Punti
  PROVE  /\ Ma!Vicino(z) \in Ma!Porti
         /\ \A q \in Ma!Porti :
              Ma!Distanza2(z, porti[Ma!Vicino(z)]) <= Ma!Distanza2(z, porti[q])
<1> DEFINE N == Valori[RigaMappa].PORTI
           D(h) == Ma!Distanza2(z, Ma!Letta(h))
           v == Ma!Vicino(z)
<1>1. N \in Nat /\ N >= 4 /\ SO_LATO \in Nat /\ N <= SO_LATO /\ SO_LATO >= 4
  BY PreparazioneAssumption
<1>2. Ma!Porti = 0 .. N - 1
  BY DEF Ma!Porti
<1>3. porti \in [Ma!Porti -> Punti] /\ porti[0] = <<0, 0>> /\ <<0, 0>> \in Punti
  <2>1. PICK n \in 4 .. N : porti \in [0 .. n - 1 -> Punti]
    BY DEF PortiMessi
  <2>2. DOMAIN porti = Ma!Porti
    BY DEF Ma!Piazzati
  <2>3. 0 \in 0 .. n - 1 /\ porti[0] = <<0, 0>>
    BY <1>1, <2>1 DEF PortiMessi
  <2> QED
    BY <2>1, <2>2, <2>3
<1> HIDE DEF N
<1>4. \A h \in 0 .. SO_LATO - 1 :
        Ma!Letta(h) \in Punti /\ Ma!Letta(h) = IF h \in Ma!Porti THEN porti[h] ELSE <<0, 0>>
  BY <1>3 DEF Ma!Letta
<1>5. Misurabili(z)
  BY <1>1, <1>4, DistanzaLimitata DEF Misurabili
<1>6. Primo(z, SO_LATO, v)
  BY <1>5, RicercaGiusta
<1>7. \A h \in 0 .. SO_LATO - 1 : D(h) \in Nat
  BY <1>5 DEF Misurabili
<1>8. v \in 0 .. SO_LATO - 1 /\ \A h \in 0 .. SO_LATO - 1 : D(v) <= D(h) /\ (h < v => D(v) < D(h))
  BY <1>6 DEF Primo
<1> HIDE DEF v
<1>9. v \in Ma!Porti
  <2> SUFFICES ASSUME v \notin Ma!Porti PROVE FALSE
    OBVIOUS
  <2>1. 0 \in 0 .. SO_LATO - 1 /\ 0 \in Ma!Porti /\ 0 < v
    BY <1>1, <1>2, <1>8
  <2>2. Ma!Letta(v) = <<0, 0>> /\ Ma!Letta(0) = <<0, 0>>
    BY <1>3, <1>4, <1>8, <2>1
  <2>3. D(v) = D(0)
    BY <2>2
  <2> HIDE DEF D
  <2> QED
    BY <1>7, <1>8, <2>1, <2>3
<1>10. ASSUME NEW q \in Ma!Porti
       PROVE  Ma!Distanza2(z, porti[v]) <= Ma!Distanza2(z, porti[q])
  <2>1. q \in 0 .. SO_LATO - 1
    BY <1>1, <1>2
  <2>2. Ma!Letta(v) = porti[v] /\ Ma!Letta(q) = porti[q]
    BY <1>4, <1>8, <1>9, <2>1
  <2> QED
    BY <1>8, <2>1, <2>2
<1> QED
  BY <1>9, <1>10 DEF v

LEMMA InitInvMappa == InitPreparazione => InvMappa
BY DEF InitPreparazione, InvMappa

LEMMA NextInvMappa ==
  ASSUME Valori[RigaMappa].PORTI <= SO_LATO,
         InvMappa, [NextPreparazione]_<<parametri, passo, memoria, mappa>>
  PROVE  InvMappa'
<1> DEFINE N == Valori[RigaMappa].PORTI
<1>0. N \in Nat /\ N >= 4 /\ N <= SO_LATO
  BY PreparazioneAssumption
<1>1. ASSUME UNCHANGED mappa, passo' \in {"parametri", "memoria", "mappa"},
             passo' = "mappa" <=> passo = "mappa"
      PROVE  InvMappa'
  BY <1>1 DEF mappa, InvMappa, PortiMessi, Ma!Piazzati, Ma!Porti, Ma!VicinoGiusto
<1>2. CASE Parametri
  BY <1>1, <1>2 DEF Parametri, InvMappa
<1>3. CASE ParametriLetti
  BY <1>1, <1>3 DEF ParametriLetti, InvMappa
<1>4. CASE Memoria
  BY <1>1, <1>4 DEF Memoria, InvMappa
<1>5. CASE GeneraPosizioni
  <2>1. /\ passo' = "mappa" /\ ppid' \in Pid /\ porti' = Ma!Vertici
        /\ posizione' = <<>>
    BY <1>5 DEF GeneraPosizioni, InvMappa
  <2>2. PortiMessi'
    <3>1. 4 \in 4 .. N /\ 0 .. 4 - 1 = 0 .. 3
      BY <1>0
    <3>2. porti' \in [0 .. 4 - 1 -> Punti] /\ porti'[0] = <<0, 0>>
      BY <2>1, <3>1, VerticiPunti
    <3> QED
      BY <3>1, <3>2 DEF PortiMessi
  <2> QED
    BY <2>1, <2>2 DEF InvMappa
<1>6. CASE Mappa
  <2>0. passo = "mappa" /\ passo' = "mappa" /\ ppid \in Pid /\ PortiMessi
    BY <1>6 DEF Mappa, InvMappa
  <2>1. CASE Ma!Piazza
    <3>1. PICK n \in 4 .. N : porti \in [0 .. n - 1 -> Punti]
      BY <2>0 DEF PortiMessi
    <3>2. DOMAIN porti = 0 .. n - 1 /\ n \in Nat /\ n >= 4 /\ n <= N
      BY <1>0, <3>1
    <3>3. n # N /\ n \in Ma!Porti
      BY <1>0, <2>1, <3>2 DEF Ma!Piazza, Ma!Piazzati, Ma!Porti
    <3>4. ASSUME NEW m \in Ma!Porti, DOMAIN porti = 0 .. m - 1 PROVE m = n
      <4>1. m \in Nat /\ 0 .. m - 1 = 0 .. n - 1
        BY <1>0, <3>2, <3>4 DEF Ma!Porti
      <4>2. n - 1 \in 0 .. n - 1 /\ n \notin 0 .. n - 1
        BY <3>2
      <4>3. n - 1 \in 0 .. m - 1 /\ n \notin 0 .. m - 1
        BY <4>1, <4>2
      <4> QED
        BY <3>2, <4>1, <4>3
    <3>5. (CHOOSE m \in Ma!Porti : DOMAIN porti = 0 .. m - 1) = n
      BY <3>2, <3>3, <3>4
    <3>6. PICK z \in Ma!PuntiCasuali(ppid) :
            porti' = [j \in 0 .. n |-> IF j = n THEN z ELSE porti[j]]
      <4> DEFINE c == CHOOSE m \in Ma!Porti : DOMAIN porti = 0 .. m - 1
      <4>1. \E z \in Ma!PuntiCasuali(ppid) :
              porti' = [j \in 0 .. c |-> IF j = c THEN z ELSE porti[j]]
        BY <2>1, Zenon DEF Ma!Piazza
      <4>2. c = n
        BY <3>5
      <4> HIDE DEF c
      <4> QED
        BY <4>1, <4>2
    <3>7. z \in Punti
      BY <2>0, <3>6, PuntiCasualiPunti
    <3>8. porti' \in [0 .. (n + 1) - 1 -> Punti] /\ n + 1 \in 4 .. N
      <4>1. 0 .. (n + 1) - 1 = 0 .. n /\ \A j \in 0 .. n : j # n => j \in 0 .. n - 1
        BY <3>2
      <4>2. \A j \in 0 .. n : (IF j = n THEN z ELSE porti[j]) \in Punti
        BY <3>1, <3>7, <4>1
      <4>3. n + 1 \in 4 .. N
        BY <1>0, <3>2, <3>3
      <4> QED
        BY <3>6, <4>1, <4>2, <4>3
    <3>9. porti'[0] = <<0, 0>>
      <4>1. 0 \in 0 .. n /\ 0 # n
        BY <3>2
      <4> QED
        BY <2>0, <3>6, <4>1 DEF PortiMessi
    <3>10. PortiMessi'
      BY <3>8, <3>9 DEF PortiMessi
    <3>11. UNCHANGED <<ppid, posizione, vicino>> /\ ~Ma!Piazzati
      BY <2>1 DEF Ma!Piazza
    <3>12. posizione' = <<>>
      BY <3>11 DEF InvMappa
    <3> QED
      BY <2>0, <3>10, <3>11, <3>12 DEF InvMappa
  <2>2. CASE Ma!Nasce
    <3>1. PICK pid \in Pid : posizione' \in Ma!PuntiCasuali(pid)
      BY <2>2 DEF Ma!Nasce
    <3>2. PICK z \in Punti : posizione' = z
      BY <3>1, PuntiCasualiPunti
    <3>3. /\ UNCHANGED <<ppid, porti>> /\ Ma!Piazzati
          /\ vicino' = Ma!Vicino(z)
      BY <2>2, <3>2 DEF Ma!Nasce
    <3>4. /\ Ma!Vicino(z) \in Ma!Porti
          /\ \A q \in Ma!Porti :
               Ma!Distanza2(z, porti[Ma!Vicino(z)]) <= Ma!Distanza2(z, porti[q])
      BY <2>0, <3>3, VicinoDi
    <3>5. Ma!VicinoGiusto'
      BY <3>2, <3>3, <3>4 DEF Ma!VicinoGiusto, Ma!Porti
    <3>6. PortiMessi' /\ Ma!Piazzati'
      BY <2>0, <3>3 DEF PortiMessi, Ma!Piazzati, Ma!Porti
    <3> QED
      BY <2>0, <3>3, <3>5, <3>6 DEF InvMappa
  <2> QED
    BY <1>6, <2>1, <2>2 DEF Mappa, Ma!Next
<1>7. CASE UNCHANGED <<parametri, passo, memoria, mappa>>
  BY <1>1, <1>7 DEF InvMappa
<1> QED
  BY <1>2, <1>3, <1>4, <1>5, <1>6, <1>7 DEF NextPreparazione

\* A ship heads for the nearest port, on any map with no more ports than the
\* side of it: the loop of the search ends at so_lato, not at so_porti
\* (nave_lib.c:27-39).
THEOREM VicinoSempreGiusto ==
  ASSUME Valori[RigaMappa].PORTI <= SO_LATO
  PROVE  SpecPreparazione => []VicinoGiusto
<1>1. InvMappa => VicinoGiusto
  BY DEF InvMappa, VicinoGiusto, Ma!VicinoGiusto
<1>2. InvMappa /\ [NextPreparazione]_<<parametri, passo, memoria, mappa>> => InvMappa'
  BY NextInvMappa
<1> QED
  BY InitInvMappa, <1>1, <1>2, PTL DEF SpecPreparazione

-----------------------------------------------------------------------------
(* The line of config.txt the parameters come from (Configurazione). *)

\* The search has passed as many newlines as it has counted; the numbers read
\* are those that follow one another from where the line asked for begins.
Letta(p) ==
  /\ Co!Principia(p) /\ Co!RigaDi(p) = n_righe_file + 1
  /\ pos = p + Len(PARAMETRO)
  /\ Len(PARAMETRO) = 0 \/ Co!Piena(p)

InvLettura ==
  /\ fase \in {"errore", "ricerca", "lettura", "letti"}
  /\ n_righe_file \in Nat /\ pos \in 1 .. Len(File) + 1
  /\ PARAMETRO \in Seq([tipo : Tipi, riga : Nat])
  /\ fase = "ricerca" =>
       /\ n_righe_file >= 1 /\ PARAMETRO = <<>>
       /\ i \in 0 .. n_righe_file /\ Co!RigaDi(pos) = i + 1
       /\ i = n_righe_file => Co!Principia(pos)
  /\ fase \in {"lettura", "letti"} =>
       /\ \E p \in 1 .. Len(File) + 1 : Letta(p)
       /\ Co!RigaDi(pos) = n_righe_file + 1
       /\ \A n \in DOMAIN PARAMETRO : PARAMETRO[n].riga = n_righe_file + 1
  /\ fase = "lettura" => Len(PARAMETRO) < QNT_PARAMETRI
  /\ fase = "errore" =>
       n_righe_file = 0 \/ Co!Cardinality(Co!Numeri(n_righe_file + 1)) < QNT_PARAMETRI

LEMMA TipiFile ==
  /\ Len(File) \in Nat /\ DOMAIN File = 1 .. Len(File)
  /\ \A m \in 1 .. Len(File) : File[m] \in [tipo : Tipi, riga : Nat] /\ File[m].riga \in Nat
<1> DEFINE Voci == [tipo : Tipi, riga : Nat]
<1>1. File \in Seq(Voci)
  BY PreparazioneAssumption
<1> HIDE DEF Voci
<1>2. /\ Len(File) \in Nat /\ DOMAIN File = 1 .. Len(File)
      /\ \A m \in 1 .. Len(File) : File[m] \in Voci
  BY <1>1
<1> QED
  BY <1>2 DEF Voci

\* The line one position further on.
LEMMA RigaSegue ==
  ASSUME Co!FileOrdinato, NEW p \in 1 .. Len(File)
  PROVE  /\ Co!RigaDi(p + 1) = IF File[p].tipo = "a capo" THEN Co!RigaDi(p) + 1 ELSE Co!RigaDi(p)
         /\ Co!RigaDi(p) \in Nat
<1>1. File[p].riga = Co!RigaDi(p) /\ File[p].riga \in Nat
  BY TipiFile DEF Co!FileOrdinato
<1>2. p + 1 # 1 /\ (p + 1) - 1 = p
  OBVIOUS
<1>3. Co!RigaDi(p + 1) = IF File[p].tipo = "a capo" THEN File[p].riga + 1 ELSE File[p].riga
  BY <1>2 DEF Co!RigaDi
<1> QED
  BY <1>1, <1>3

\* What fscanf finds from the start of a full line is its next number, and from
\* the start of one that is not it finds no number.
LEMMA TrovaNumero ==
  ASSUME InvLettura, NEW p \in 1 .. Len(File) + 1, Letta(p), Co!Piena(p),
         Len(PARAMETRO) < QNT_PARAMETRI
  PROVE  /\ Co!Prossimi # {} /\ Co!Min(Co!Prossimi) = pos
         /\ pos \in DOMAIN File /\ File[pos].tipo = "numero"
<1>1. Len(PARAMETRO) \in Nat
  BY DEF InvLettura
<1>2. pos \in DOMAIN File /\ File[pos].tipo = "numero"
  <2>1. Len(PARAMETRO) \in 0 .. QNT_PARAMETRI - 1
    BY <1>1, PreparazioneAssumption
  <2>2. pos = p + Len(PARAMETRO)
    BY DEF Letta
  <2> QED
    BY <2>1, <2>2 DEF Co!Piena
<1>3. pos \in Nat /\ pos \in Co!Prossimi
  <2>1. pos \in Nat /\ pos \in pos .. Len(File)
    BY <1>2, TipiFile
  <2> QED
    BY <1>2, <2>1 DEF Co!Prossimi
<1>4. \A m \in Co!Prossimi : m \in Nat /\ pos <= m
  <2>1. \A m \in Co!Prossimi : m \in pos .. Len(File)
    BY DEF Co!Prossimi
  <2> QED
    BY <1>3, <2>1, TipiFile
<1>5. \A m \in Co!Prossimi : (\A n \in Co!Prossimi : m <= n) => m = pos
  BY <1>3, <1>4
<1>6. Co!Min(Co!Prossimi) = pos
  <2>1. \E m \in Co!Prossimi : \A n \in Co!Prossimi : m <= n
    BY <1>3, <1>4
  <2>2. /\ Co!Min(Co!Prossimi) \in Co!Prossimi
        /\ \A n \in Co!Prossimi : Co!Min(Co!Prossimi) <= n
    BY <2>1 DEF Co!Min
  <2> QED
    BY <1>5, <2>2
<1> QED
  BY <1>2, <1>3, <1>6

LEMMA NonTrovaNumero ==
  ASSUME InvLettura, NEW p \in 1 .. Len(File) + 1, pos = p, Co!SenzaNumeri(p),
         Co!Prossimi # {}
  PROVE  File[Co!Min(Co!Prossimi)].tipo # "numero"
<1>1. \A m : m \in Co!Prossimi <=> m \in pos .. Len(File) /\ File[m].tipo # "a capo"
  BY DEF Co!Prossimi
<1>2. pos \in Nat /\ pos >= 1 /\ Len(File) \in Nat /\ DOMAIN File = 1 .. Len(File)
  BY TipiFile DEF InvLettura
<1>0. \A m \in pos .. Len(File) : m \in Nat /\ m \in 1 .. Len(File) /\ m >= pos
  BY <1>2
<1>3. PICK m \in Co!Prossimi : \A n \in Co!Prossimi : m <= n
  <2>1. Co!Prossimi \in SUBSET Nat
    BY <1>0, <1>1
  <2> QED
    BY <2>1, Minimo
<1> DEFINE v == Co!Min(Co!Prossimi)
<1>4. v \in Co!Prossimi /\ \A n \in Co!Prossimi : v <= n
  BY <1>3 DEF Co!Min
<1> HIDE DEF v
<1> SUFFICES ASSUME File[v].tipo = "numero" PROVE FALSE
  BY DEF v
<1>5. v \in pos .. Len(File) /\ v \in DOMAIN File /\ v >= p
  <2>1. v \in pos .. Len(File)
    BY <1>1, <1>4
  <2> QED
    BY <1>0, <1>2, <2>1
<1>6. PICK h \in p .. v - 1 : File[h].tipo = "parola"
  BY <1>5 DEF Co!SenzaNumeri
<1>7. h \in Co!Prossimi /\ ~(v <= h)
  <2>1. h \in pos .. Len(File) /\ ~(v <= h)
    BY <1>2, <1>5, <1>6
  <2> QED
    BY <1>1, <1>6, <2>1
<1> QED
  BY <1>4, <1>7

LEMMA InitInvLettura == InitPreparazione => InvLettura
<1> SUFFICES ASSUME InitPreparazione PROVE InvLettura
  OBVIOUS
<1>1. /\ n_righe_file \in Nat /\ pos = 1 /\ i = 0 /\ PARAMETRO = <<>>
      /\ fase = IF n_righe_file < 1 THEN "errore" ELSE "ricerca"
  BY PreparazioneAssumption DEF InitPreparazione, Co!Init
<1>2. pos \in 1 .. Len(File) + 1 /\ PARAMETRO \in Seq([tipo : Tipi, riga : Nat])
  BY <1>1, TipiFile
<1>3. Co!RigaDi(pos) = i + 1
  BY <1>1 DEF Co!RigaDi
<1>4. CASE n_righe_file < 1
  <2>1. n_righe_file = 0 /\ fase = "errore"
    BY <1>1, <1>4
  <2> QED
    BY <1>1, <1>2, <2>1 DEF InvLettura
<1>5. CASE ~(n_righe_file < 1)
  <2>1. n_righe_file >= 1 /\ fase = "ricerca" /\ i \in 0 .. n_righe_file /\ i # n_righe_file
    BY <1>1, <1>5
  <2> QED
    BY <1>1, <1>2, <1>3, <2>1 DEF InvLettura
<1> QED
  BY <1>4, <1>5

LEMMA NextInvLettura ==
  ASSUME Co!FileOrdinato,
         InvLettura, [NextPreparazione]_<<parametri, passo, memoria, mappa>>
  PROVE  InvLettura'
<1>00. /\ n_righe_file \in Nat /\ pos \in Nat /\ pos >= 1 /\ pos <= Len(File) + 1
       /\ Len(File) \in Nat
  BY TipiFile DEF InvLettura
<1>0. /\ n_righe_file \in Nat /\ pos \in Nat /\ pos >= 1 /\ pos <= Len(File) + 1
      /\ Len(File) \in Nat /\ DOMAIN File = 1 .. Len(File)
      /\ PARAMETRO \in Seq([tipo : Tipi, riga : Nat]) /\ Len(PARAMETRO) \in Nat
      /\ QNT_PARAMETRI \in Nat /\ QNT_PARAMETRI > 0
  BY TipiFile, PreparazioneAssumption DEF InvLettura
<1>1. CASE UNCHANGED parametri
  BY <1>1 DEF parametri, InvLettura, Letta
<1>2. CASE Co!Cerca
  <2>1. /\ fase = "ricerca" /\ i # n_righe_file /\ pos \in 1 .. Len(File)
        /\ i' = (IF File[pos].tipo = "a capo" THEN i + 1 ELSE i) /\ pos' = pos + 1
        /\ UNCHANGED <<n_righe_file, PARAMETRO, fase>>
    <3>1. pos <= Len(File)
      BY <1>2 DEF Co!Cerca
    <3>2. pos \in 1 .. Len(File)
      BY <1>00, <3>1
    <3> QED
      BY <1>2, <3>2 DEF Co!Cerca, Co!Trovata
  <2>2. /\ n_righe_file >= 1 /\ PARAMETRO = <<>>
        /\ i \in 0 .. n_righe_file /\ Co!RigaDi(pos) = i + 1
    BY <2>1 DEF InvLettura
  <2>3. i' \in 0 .. n_righe_file
    <3>1. i' = i \/ i' = i + 1
      BY <2>1
    <3>2. i # n_righe_file
      BY <2>1
    <3> QED
      BY <1>00, <2>2, <3>1, <3>2
  <2>4. Co!RigaDi(pos + 1) = i' + 1
    BY <2>1, <2>2, RigaSegue
  <2>5. i' = n_righe_file => Co!Principia(pos + 1)
    <3>1. i' = n_righe_file => File[pos].tipo = "a capo"
      BY <2>1
    <3>2. (pos + 1) - 1 = pos
      BY <1>0
    <3> QED
      BY <3>1, <3>2 DEF Co!Principia
  <2>6. pos' \in 1 .. Len(File) + 1
    <3>1. pos' = pos + 1 /\ pos \in 1 .. Len(File)
      BY <2>1
    <3> QED
      BY <1>00, <3>1
  <2>7. Co!RigaDi(pos)' = Co!RigaDi(pos + 1) /\ Co!Principia(pos)' = Co!Principia(pos + 1)
    BY <2>1 DEF Co!RigaDi, Co!Principia
  <2> QED
    BY <1>0, <2>1, <2>2, <2>3, <2>4, <2>5, <2>6, <2>7 DEF InvLettura
<1>3. CASE Co!CercaFinita
  <2>1. /\ fase = "ricerca" /\ i = n_righe_file /\ fase' = "lettura"
        /\ UNCHANGED <<n_righe_file, pos, i, PARAMETRO>>
    BY <1>3 DEF Co!CercaFinita, Co!Trovata
  <2>2. PARAMETRO = <<>> /\ Co!RigaDi(pos) = n_righe_file + 1 /\ Co!Principia(pos)
    BY <2>1 DEF InvLettura
  <2>3. Len(PARAMETRO) = 0 /\ DOMAIN PARAMETRO = {} /\ pos = pos + 0
    BY <1>0, <2>2
  <2>4. Letta(pos) /\ pos \in 1 .. Len(File) + 1
    BY <1>0, <2>2, <2>3 DEF Letta
  <2>5. Letta(pos)'
    BY <2>1, <2>4 DEF Letta
  <2> QED
    BY <1>0, <2>1, <2>2, <2>3, <2>4, <2>5 DEF InvLettura, Letta
<1>4. CASE Co!Leggi
  <2>0. /\ fase = "lettura" /\ Len(PARAMETRO) < QNT_PARAMETRI
        /\ Co!RigaDi(pos) = n_righe_file + 1
        /\ \A n \in DOMAIN PARAMETRO : PARAMETRO[n].riga = n_righe_file + 1
        /\ UNCHANGED <<n_righe_file, i>>
    BY <1>4 DEF Co!Leggi, InvLettura
  <2>1. PICK p \in 1 .. Len(File) + 1 : Letta(p)
    BY <2>0 DEF InvLettura
  <2>2. CASE Co!Piena(p)
    <3>1. /\ Co!Prossimi # {} /\ Co!Min(Co!Prossimi) = pos
          /\ pos \in DOMAIN File /\ File[pos].tipo = "numero"
      BY <2>0, <2>1, <2>2, TrovaNumero
    <3>2. /\ PARAMETRO' = Append(PARAMETRO, File[pos]) /\ pos' = pos + 1
          /\ fase' = IF Len(PARAMETRO') = QNT_PARAMETRI THEN "letti" ELSE fase
      BY <1>4, <3>1 DEF Co!Leggi
    <3>3. File[pos].riga = n_righe_file + 1 /\ Co!RigaDi(pos + 1) = n_righe_file + 1
      <4>1. File[pos].riga = Co!RigaDi(pos)
        BY <3>1 DEF Co!FileOrdinato
      <4> QED
        BY <1>0, <2>0, <3>1, <4>1, RigaSegue
    <3> DEFINE Voci == [tipo : Tipi, riga : Nat]
    <3>4. PARAMETRO \in Seq(Voci) /\ File[pos] \in Voci
      BY <1>0, <3>1, TipiFile
    <3> HIDE DEF Voci
    <3>5. /\ PARAMETRO' \in Seq(Voci)
          /\ Len(PARAMETRO') = Len(PARAMETRO) + 1
          /\ \A n \in 1 .. Len(PARAMETRO) : PARAMETRO'[n] = PARAMETRO[n]
          /\ PARAMETRO'[Len(PARAMETRO) + 1] = File[pos]
      BY <3>2, <3>4, AppendProperties
    <3>6. \A n \in DOMAIN PARAMETRO' : PARAMETRO'[n].riga = n_righe_file + 1
      <4>1. DOMAIN PARAMETRO = 1 .. Len(PARAMETRO) /\ DOMAIN PARAMETRO' = 1 .. Len(PARAMETRO) + 1
        BY <3>4, <3>5
      <4>2. \A n \in DOMAIN PARAMETRO' : n \in DOMAIN PARAMETRO \/ n = Len(PARAMETRO) + 1
        BY <1>0, <4>1
      <4> QED
        BY <2>0, <3>3, <3>5, <4>1, <4>2
    <3>7. pos' \in 1 .. Len(File) + 1 /\ pos' = p + Len(PARAMETRO')
      BY <1>0, <2>1, <3>1, <3>2, <3>5 DEF Letta
    <3>8. Letta(p)'
      BY <2>0, <2>1, <2>2, <3>7 DEF Letta
    <3>9. Co!RigaDi(pos)' = n_righe_file' + 1
      BY <2>0, <3>2, <3>3 DEF Co!RigaDi
    <3>10. fase' \in {"lettura", "letti"} /\ (fase' = "lettura" => Len(PARAMETRO') < QNT_PARAMETRI)
      BY <1>0, <2>0, <3>2, <3>5
    <3>11. PARAMETRO' \in Seq([tipo : Tipi, riga : Nat])
      BY <3>5 DEF Voci
    <3> QED
      BY <1>0, <2>0, <3>6, <3>7, <3>8, <3>9, <3>10, <3>11 DEF InvLettura
  <2>3. CASE ~Co!Piena(p)
    <3>1. Len(PARAMETRO) = 0 /\ pos = p /\ Co!Principia(p) /\ Co!RigaDi(p) = n_righe_file + 1
      BY <1>0, <2>1, <2>3 DEF Letta
    <3>2. Co!SenzaNumeri(p) /\ Co!Cardinality(Co!Numeri(n_righe_file + 1)) < QNT_PARAMETRI
      <4>1. \A q \in 1 .. Len(File) + 1 :
              Co!Principia(q) =>
                \/ Co!Piena(q)
                \/ Co!SenzaNumeri(q) /\ Co!Cardinality(Co!Numeri(Co!RigaDi(q))) < QNT_PARAMETRI
        BY Zenon DEF Co!FileOrdinato
      <4>2. /\ Co!SenzaNumeri(p)
            /\ Co!Cardinality(Co!Numeri(Co!RigaDi(p))) < QNT_PARAMETRI
        BY <2>1, <2>3, <3>1, <4>1, Zenon
      <4> QED
        BY <3>1, <4>2, Zenon
    <3>3. ~(Co!Prossimi # {} /\ File[Co!Min(Co!Prossimi)].tipo = "numero")
      BY <3>1, <3>2, NonTrovaNumero
    <3>4. fase' = "errore" /\ UNCHANGED <<PARAMETRO, pos>>
      BY <1>4, <3>3 DEF Co!Leggi
    <3>5. Co!Cardinality(Co!Numeri(n_righe_file + 1))' < QNT_PARAMETRI
      BY <2>0, <3>2 DEF Co!Numeri
    <3> QED
      BY <1>0, <2>0, <3>4, <3>5 DEF InvLettura
  <2> QED
    BY <2>2, <2>3
<1> QED
  BY <1>1, <1>2, <1>3, <1>4 DEF NextPreparazione, Parametri, Co!Next, ParametriLetti,
     Memoria, GeneraPosizioni, Mappa

\* The parameters taken are those of the line asked for, and a line without them
\* is refused, for every file whose lines are full or come to a word before any
\* number (master.c:73-89).
THEOREM ParametriSempreDellaRiga ==
  ASSUME Co!FileOrdinato
  PROVE  SpecPreparazione => []ParametriDellaRiga
<1>1. InvLettura => ParametriDellaRiga
  <2> SUFFICES ASSUME InvLettura PROVE Co!ParametriDellaRiga
    BY DEF ParametriDellaRiga
  <2>1. fase = "letti" => \A n \in DOMAIN PARAMETRO : PARAMETRO[n].riga = n_righe_file + 1
    BY DEF InvLettura
  <2>2. fase = "errore" =>
          n_righe_file = 0 \/ Co!Cardinality(Co!Numeri(n_righe_file + 1)) < QNT_PARAMETRI
    BY DEF InvLettura
  <2> QED
    BY <2>1, <2>2, Zenon DEF Co!ParametriDellaRiga
<1>2. InvLettura /\ [NextPreparazione]_<<parametri, passo, memoria, mappa>> => InvLettura'
  BY NextInvLettura
<1> QED
  BY InitInvLettura, <1>1, <1>2, PTL DEF SpecPreparazione

=============================================================================
