------------------------------ MODULE SpawnProofs ------------------------------
(***************************************************************************)
(* For any goods, lots and Fill: what spawnMerciPorti leaves in the row of *)
(* a port (SpesaEsatta, RigaAmmessa), and that its second loop can always  *)
(* go on (ScambioPossibile).                                               *)
(***************************************************************************)
EXTENDS SpawnMerci, SommaProofs, TLAPS

Righe == [Merci -> Int]
Lotti == [Merci -> [val : Nat \ {0}, exp : Nat]]

Pesi(x, l) == [g \in Merci |-> Assoluto(x[g]) * l[g].val]
Primi(x, l, g) == [h \in {d \in Merci : d < g} |-> Primo(x[h]) * l[h].val]

\* The goods the first loop has dealt with.
Trattata(g) == fase # "primo" \/ g < i

\* The first good is traded, or there was nothing to spend.
PrimaScambiata == Trattata(0) => riga[0] # 0 \/ fill = 0

CelleAmmesse ==
  \A g \in Merci : /\ riga[g] # 1
                   /\ ~Trattata(g) => riga[g] = 0

\* In the first loop a cell holds exactly what Primo says.
PrimoEsatto == fase = "primo" => \A g \in Merci : Primo(riga[g]) = Assoluto(riga[g])

Escluse ==
  \A g \in Merci :
    Trattata(g) /\ riga[g] = 0 => Fill - Somma(Primi(riga, lotto, g)) < lotto[g].val

IInv ==
  /\ TypeOK
  /\ lotto[0].val = 1
  /\ SpesaEsatta
  /\ PrimaScambiata /\ CelleAmmesse /\ PrimoEsatto /\ Escluse
  /\ fase = "primo" /\ i = 0 => fill = Fill
  /\ fase = "fine" => fill = 0

-----------------------------------------------------------------------------
(* Arithmetic of the draws. *)

LEMMA PrimoTipo ==
  ASSUME NEW n \in Int
  PROVE  Primo(n) \in Nat /\ Primo(n) <= Assoluto(n)
BY DEF Primo, AlPiuDieci, Assoluto

LEMMA PrimoCresce ==
  ASSUME NEW n \in Int, NEW k \in Estrazione, n # 0
  PROVE  Primo(n) <= Primo(Cresciuta(n, k))
BY DEF Primo, AlPiuDieci, Cresciuta, Estrazione

LEMMA PrimoSegno ==
  ASSUME NEW k \in 0 .. 10
  PROVE  /\ Primo(ConSegno(k)) = k /\ Assoluto(ConSegno(k)) = k
         /\ ConSegno(k) \in Int /\ ConSegno(k) # 1 /\ (ConSegno(k) = 0 <=> k = 0)
BY DEF Primo, AlPiuDieci, ConSegno, Assoluto

LEMMA Prodotto ==
  ASSUME NEW a \in Nat, NEW b \in Nat
  PROVE  a * b \in Nat
OBVIOUS

LEMMA ProdottoMonotono ==
  ASSUME NEW a \in Nat, NEW b \in Nat, NEW c \in Nat, a <= b
  PROVE  a * c <= b * c
<1>1. PICK d \in Nat : b = a + d
  <2>1. b - a \in Nat /\ b = a + (b - a)
    OBVIOUS
  <2> QED
    BY <2>1
<1>2. b * c = a * c + d * c
  BY <1>1
<1> QED
  BY <1>2, Prodotto

LEMMA MerciFinite ==
  /\ IsFiniteSet(Merci) /\ 0 \in Merci
  /\ Merci \subseteq Nat
  /\ \A g : IsFiniteSet({d \in Merci : d < g})
<1>1. IsFiniteSet(Merci)
  BY FS_Interval, SpawnAssumption DEF Merci
<1>2. \A g : IsFiniteSet({d \in Merci : d < g})
  BY <1>1, FS_Subset
<1>3. 0 \in Merci /\ Merci \subseteq Nat
  BY SpawnAssumption DEF Merci
<1> QED
  BY <1>1, <1>2, <1>3

LEMMA FillTipo == Fill \in Nat
BY SpawnAssumption DEF Fill

LEMMA PesiTipo ==
  ASSUME NEW x \in Righe, NEW l \in Lotti
  PROVE  /\ Pesi(x, l) \in [Merci -> Nat] /\ Tonnellate(x, l) = Somma(Pesi(x, l))
         /\ Tonnellate(x, l) \in Nat
<1>1. ASSUME NEW g \in Merci PROVE Assoluto(x[g]) * l[g].val \in Nat
  <2>1. Assoluto(x[g]) \in Nat /\ l[g].val \in Nat
    BY DEF Righe, Lotti, Assoluto
  <2> QED
    BY <2>1, Prodotto
<1>2. Pesi(x, l) \in [Merci -> Nat]
  BY <1>1 DEF Pesi
<1>3. Tonnellate(x, l) = Somma(Pesi(x, l))
  BY DEF Tonnellate, Pesi, Righe
<1> QED
  BY <1>2, <1>3, UnitaFinita, MerciFinite

LEMMA PrimiTipo ==
  ASSUME NEW x \in Righe, NEW l \in Lotti, NEW g
  PROVE  /\ Primi(x, l, g) \in [{d \in Merci : d < g} -> Nat]
         /\ Somma(Primi(x, l, g)) \in Nat /\ Somma(Primi(x, l, g)) = PrimaDi(x, l, g)
<1>1. ASSUME NEW h \in Merci PROVE Primo(x[h]) * l[h].val \in Nat
  <2>1. Primo(x[h]) \in Nat /\ l[h].val \in Nat
    BY PrimoTipo DEF Righe, Lotti
  <2> QED
    BY <2>1, Prodotto
<1>2. Primi(x, l, g) \in [{d \in Merci : d < g} -> Nat]
  BY <1>1 DEF Primi
<1>3. Primi(x, l, g) = [h \in {d \in DOMAIN x : d < g} |-> Primo(x[h]) * l[h].val]
  BY DEF Primi, Righe
<1> QED
  BY <1>2, <1>3, UnitaFinita, MerciFinite DEF PrimaDi

\* A cell changes, and the tons with it.
LEMMA TonnellateCambiano ==
  ASSUME NEW x \in Righe, NEW l \in Lotti, NEW g \in Merci, NEW n \in Int
  PROVE  /\ [x EXCEPT ![g] = n] \in Righe
         /\ Tonnellate([x EXCEPT ![g] = n], l) =
              Tonnellate(x, l) - Assoluto(x[g]) * l[g].val + Assoluto(n) * l[g].val
<1> DEFINE y == [x EXCEPT ![g] = n]
<1>1. y \in Righe
  BY DEF Righe
<1>2. \A h \in Merci \ {g} : Pesi(y, l)[h] = Pesi(x, l)[h]
  BY DEF Pesi, Righe
<1>3. Pesi(x, l)[g] = Assoluto(x[g]) * l[g].val /\ Pesi(y, l)[g] = Assoluto(n) * l[g].val
  BY DEF Pesi, Righe
<1>4. Somma(Pesi(y, l)) = Somma(Pesi(x, l)) - Pesi(x, l)[g] + Pesi(y, l)[g]
  <2> DEFINE a == Pesi(x, l)
             b == Pesi(y, l)
  <2>1. a \in [Merci -> Nat] /\ b \in [Merci -> Nat] /\ \A h \in Merci \ {g} : b[h] = a[h]
    BY <1>1, <1>2, PesiTipo
  <2> HIDE DEF a, b
  <2>2. Somma(b) = Somma(a) - a[g] + b[g]
    BY <2>1, SommaCambia, MerciFinite
  <2> QED
    BY <2>2 DEF a, b
<1> QED
  BY <1>1, <1>3, <1>4, PesiTipo

\* A row that grows away from zero may only have given more in the first loop.
LEMMA PrimiCrescono ==
  ASSUME NEW x \in Righe, NEW l \in Lotti, NEW y \in Righe, NEW g,
         \A h \in Merci : h < g => Primo(x[h]) <= Primo(y[h])
  PROVE  Somma(Primi(x, l, g)) <= Somma(Primi(y, l, g))
<1>1. ASSUME NEW h \in Merci, h < g PROVE Primo(x[h]) * l[h].val <= Primo(y[h]) * l[h].val
  <2>1. Primo(x[h]) \in Nat /\ Primo(y[h]) \in Nat /\ l[h].val \in Nat
    BY PrimoTipo DEF Righe, Lotti
  <2> QED
    BY <1>1, <2>1, ProdottoMonotono
<1>2. \A h \in {d \in Merci : d < g} : Primi(x, l, g)[h] <= Primi(y, l, g)[h]
  BY <1>1 DEF Primi
<1> QED
  BY <1>2, PrimiTipo, SommaMonotona, MerciFinite

\* In the first loop nothing lies behind the current good, and what lies
\* before it is what Primo says.
LEMMA PrimiSonoPesi ==
  ASSUME NEW x \in Righe, NEW l \in Lotti, NEW g \in Merci,
         \A h \in Merci : Primo(x[h]) = Assoluto(x[h]),
         \A h \in Merci : ~(h < g) => x[h] = 0
  PROVE  Somma(Primi(x, l, g)) = Tonnellate(x, l)
<1>1. Unita(Primi(x, l, g)) \subseteq Unita(Pesi(x, l))
  BY DEF Unita, Primi, Pesi
<1>2. Unita(Pesi(x, l)) \subseteq Unita(Primi(x, l, g))
  <2> SUFFICES ASSUME NEW h \in Merci, NEW k \in 1 .. Pesi(x, l)[h]
               PROVE  <<h, k>> \in Unita(Primi(x, l, g))
    BY DEF Unita, Pesi
  <2>1. h < g
    <3>1. CASE ~(h < g)
      <4>1. Pesi(x, l)[h] = 0
        BY <3>1 DEF Pesi, Assoluto, Lotti
      <4> QED
        BY <4>1
    <3> QED
      BY <3>1
  <2>2. Primi(x, l, g)[h] = Pesi(x, l)[h] /\ h \in DOMAIN Primi(x, l, g)
    BY <2>1 DEF Primi, Pesi
  <2> QED
    BY <2>2 DEF Unita
<1>3. Unita(Primi(x, l, g)) = Unita(Pesi(x, l))
  BY <1>1, <1>2
<1> QED
  BY <1>3, PesiTipo DEF Somma

-----------------------------------------------------------------------------
(* The invariant. *)

LEMMA InitIInv == Init => IInv
<1> SUFFICES ASSUME Init PROVE IInv
  OBVIOUS
<1> USE DEF Init
<1>1. lotto \in Lotti /\ lotto[0].val = 1
  <2>1. Taglie(SO_SIZE) \subseteq Nat \ {0}
    BY SpawnAssumption DEF Taglie
  <2>2. Scadenze(SO_MIN_VITA, SO_MAX_VITA) \subseteq Nat
    BY SpawnAssumption DEF Scadenze
  <2> QED
    BY <2>1, <2>2 DEF LottiPossibili, Lotti
<1>2. riga \in Righe /\ \A g \in Merci : riga[g] = 0
  BY DEF Righe
<1>3. TypeOK
  BY <1>1, <1>2, FillTipo, MerciFinite DEF TypeOK, Righe, Lotti
<1>4. Tonnellate(riga, lotto) = 0
  <2>1. \A g \in Merci : Pesi(riga, lotto)[g] = 0
    BY <1>1, <1>2 DEF Pesi, Assoluto, Lotti
  <2> QED
    BY <2>1, <1>1, <1>2, PesiTipo, SommaZero
<1>5. SpesaEsatta
  BY <1>4, FillTipo DEF SpesaEsatta
<1>6. \A g \in Merci : ~Trattata(g)
  BY MerciFinite DEF Trattata
<1>7. PrimaScambiata /\ CelleAmmesse /\ Escluse
  BY <1>2, <1>6, MerciFinite DEF PrimaScambiata, CelleAmmesse, Escluse
<1>8. PrimoEsatto
  BY <1>2 DEF PrimoEsatto, Primo, Assoluto
<1> QED
  BY <1>1, <1>3, <1>5, <1>7, <1>8 DEF IInv

\* One turn of the first loop.
LEMMA PrimoGiroIInv == IInv /\ PrimoGiro => IInv'
<1> SUFFICES ASSUME IInv, fase = "primo", UNCHANGED lotto,
                    NEW n \in Estrazione, NEW k \in 0 .. 10, Ridotto(k, n),
                    riga' = [riga EXCEPT ![i] = ConSegno(k)],
                    fill' = fill - k * lotto[i].val,
                    IF i + 1 < SO_MERCI THEN i' = i + 1 /\ fase' = fase
                                        ELSE i' = 0 /\ fase' = "resto"
             PROVE  IInv'
  BY DEF PrimoGiro
<1>1. riga \in Righe /\ lotto \in Lotti /\ i \in Merci /\ i \in Nat /\ fill \in Nat
  BY MerciFinite, FillTipo DEF IInv, TypeOK, Righe, Lotti
<1>2. /\ Primo(ConSegno(k)) = k /\ Assoluto(ConSegno(k)) = k /\ ConSegno(k) \in Int
      /\ ConSegno(k) # 1 /\ (ConSegno(k) = 0 <=> k = 0)
  BY PrimoSegno
<1>3. riga[i] = 0
  BY <1>1 DEF IInv, CelleAmmesse, Trattata
<1>4. k * lotto[i].val \in Nat /\ k * lotto[i].val <= fill
  <2>1. k \in Nat /\ lotto[i].val \in Nat
    BY <1>1 DEF Lotti
  <2> QED
    BY <2>1, Prodotto DEF Ridotto
<1>5. riga' \in Righe /\ Tonnellate(riga, lotto)' = Tonnellate(riga, lotto) + k * lotto[i].val
  <2>1. Assoluto(riga[i]) * lotto[i].val = 0
    BY <1>1, <1>3 DEF Assoluto, Lotti
  <2>2. Tonnellate(riga, lotto) \in Nat
    BY <1>1, PesiTipo
  <2>3. /\ riga' \in Righe
        /\ Tonnellate(riga', lotto) = Tonnellate(riga, lotto) - Assoluto(riga[i]) * lotto[i].val
                                       + Assoluto(ConSegno(k)) * lotto[i].val
    BY <1>1, <1>2, TonnellateCambiano
  <2> QED
    BY <2>1, <2>2, <2>3, <1>2, <1>4
<1>6. TypeOK' /\ i' \in Nat
  <2>1. lotto' \in Lotti /\ riga' \in Righe
    BY <1>1, <1>5
  <2>2. fill' \in 0 .. Fill
    BY <1>1, <1>4, FillTipo DEF IInv, TypeOK
  <2>3. i' \in Merci /\ fase' \in {"primo", "resto", "fine"}
    BY <1>1, SpawnAssumption DEF Merci
  <2> QED
    BY <2>1, <2>2, <2>3, MerciFinite DEF TypeOK, Righe, Lotti
<1>7. SpesaEsatta'
  BY <1>1, <1>4, <1>5, PesiTipo, FillTipo DEF IInv, SpesaEsatta
<1>8. \A g \in Merci : Trattata(g)' <=> Trattata(g) \/ g = i
  BY <1>1, SpawnAssumption, MerciFinite DEF Trattata, Merci
<1>9. k = 0 => fill < lotto[i].val
  BY <1>1 DEF Ridotto, Estrazione, Lotti
<1>10. /\ riga'[i] = ConSegno(k) /\ Primo(riga[i]) = 0
       /\ \A g \in Merci \ {i} : riga'[g] = riga[g]
  BY <1>1, <1>3 DEF Righe, Primo
<1>11. CelleAmmesse'
  BY <1>2, <1>8, <1>10 DEF IInv, CelleAmmesse
<1>12. PrimoEsatto'
  BY <1>2, <1>10 DEF IInv, PrimoEsatto
<1>13. PrimaScambiata'
  <2>1. CASE i = 0
    <3>1. CASE k = 0
      <4>1. fill = 0 /\ k * lotto[i].val = 0
        BY <3>1, <2>1, <1>1, <1>9 DEF IInv
      <4> QED
        BY <4>1 DEF PrimaScambiata
    <3>2. CASE k # 0
      BY <3>2, <2>1, <1>2, <1>10 DEF PrimaScambiata
    <3> QED
      BY <3>1, <3>2
  <2>2. CASE i # 0
    <3>1. Trattata(0)
      BY <2>2, <1>1 DEF Trattata
    <3>2. riga'[0] = riga[0] /\ (fill = 0 => fill' = 0)
      BY <2>2, <1>1, <1>4, <1>10, MerciFinite
    <3> QED
      BY <3>1, <3>2 DEF IInv, PrimaScambiata
  <2> QED
    BY <2>1, <2>2
<1>14. Escluse'
  <2>1. \A h \in Merci : Primo(riga[h]) <= Primo(riga'[h])
    BY <1>1, <1>2, <1>5, <1>10, PrimoTipo DEF Righe
  <2> SUFFICES ASSUME NEW g \in Merci, Trattata(g)', riga'[g] = 0
               PROVE  Fill - Somma(Primi(riga', lotto, g)) < lotto[g].val
    BY DEF Escluse
  <2>2. /\ Somma(Primi(riga, lotto, g)) <= Somma(Primi(riga', lotto, g))
        /\ Somma(Primi(riga, lotto, g)) \in Nat /\ Somma(Primi(riga', lotto, g)) \in Nat
    BY <2>1, <1>1, <1>5, PrimiCrescono, PrimiTipo
  <2>3. Fill - Somma(Primi(riga, lotto, g)) < lotto[g].val
    <3>1. CASE g = i
      <4>1. Somma(Primi(riga, lotto, i)) = Tonnellate(riga, lotto)
        <5>1. \A h \in Merci : ~(h < i) => riga[h] = 0
          BY DEF IInv, CelleAmmesse, Trattata
        <5>2. \A h \in Merci : Primo(riga[h]) = Assoluto(riga[h])
          BY DEF IInv, PrimoEsatto
        <5> QED
          BY <5>1, <5>2, <1>1, PrimiSonoPesi
      <4>2. fill < lotto[i].val
        BY <3>1, <1>2, <1>9, <1>10
      <4> QED
        BY <3>1, <4>1, <4>2, <1>1, PesiTipo, FillTipo DEF IInv, SpesaEsatta
    <3>2. CASE g # i
      BY <3>2, <1>8, <1>10 DEF IInv, Escluse
    <3> QED
      BY <3>1, <3>2
  <2> QED
    BY <2>2, <2>3, <1>1, FillTipo DEF Lotti
<1>15. (fase = "primo" /\ i = 0 => fill = Fill)' /\ (fase = "fine" => fill = 0)'
  BY <1>1
<1> QED
  BY <1>6, <1>7, <1>11, <1>12, <1>13, <1>14, <1>15 DEF IInv

\* A draw of the second loop that fits.
LEMMA AggiungeIInv ==
  ASSUME IInv, NEW n \in Estrazione, AggiungeLotti(n)
  PROVE  IInv'
<1> USE DEF AggiungeLotti, InGiro
<1>1. /\ riga \in Righe /\ lotto \in Lotti /\ i \in Merci /\ i \in Nat /\ fill \in Nat
      /\ n \in Nat /\ n > 0
  BY MerciFinite, FillTipo DEF IInv, TypeOK, Righe, Lotti, Estrazione
<1> DEFINE v == lotto[i].val
           c == Cresciuta(riga[i], n)
<1>2. riga[i] \in Int /\ v \in Nat /\ riga[i] # 1 /\ riga[i] # 0
  BY <1>1 DEF Righe, Lotti, IInv, CelleAmmesse
<1>3. c \in Int /\ c # 0 /\ c # 1 /\ Assoluto(c) = Assoluto(riga[i]) + n /\ Assoluto(riga[i]) \in Nat
  BY <1>1, <1>2 DEF Cresciuta, Assoluto
<1>4. n * v \in Nat /\ n * v <= fill
  BY <1>1, <1>2, Prodotto
<1>5. riga' \in Righe /\ Tonnellate(riga, lotto)' = Tonnellate(riga, lotto) + n * v
  <2>1. Assoluto(c) * v = Assoluto(riga[i]) * v + n * v
    <3> DEFINE a == Assoluto(riga[i])
    <3>1. (a + n) * v = a * v + n * v
      BY <1>1, <1>2, <1>3
    <3> QED
      BY <3>1, <1>3
  <2>2. Assoluto(riga[i]) * v \in Nat /\ Tonnellate(riga, lotto) \in Nat
    BY <1>1, <1>2, <1>3, Prodotto, PesiTipo
  <2>3. /\ riga' \in Righe
        /\ Tonnellate(riga', lotto) = Tonnellate(riga, lotto) - Assoluto(riga[i]) * v + Assoluto(c) * v
    BY <1>1, <1>3, TonnellateCambiano
  <2> QED
    BY <2>1, <2>2, <2>3, <1>4
<1>6. TypeOK'
  <2>1. lotto' \in Lotti /\ riga' \in Righe
    BY <1>1, <1>5
  <2>2. fill' \in 0 .. Fill
    BY <1>1, <1>4, FillTipo DEF IInv, TypeOK
  <2>3. i' \in Merci /\ fase' \in {"primo", "resto", "fine"}
    BY <1>1, SpawnAssumption DEF Merci
  <2> QED
    BY <2>1, <2>2, <2>3 DEF TypeOK, Righe, Lotti
<1>7. SpesaEsatta'
  BY <1>1, <1>4, <1>5, PesiTipo, FillTipo DEF IInv, SpesaEsatta
<1>8. riga'[i] = c /\ \A g \in Merci \ {i} : riga'[g] = riga[g]
  BY <1>1 DEF Righe
<1>9. \A g \in Merci : Trattata(g) /\ Trattata(g)'
  BY DEF Trattata
<1>10. CelleAmmesse' /\ PrimaScambiata'
  BY <1>3, <1>4, <1>8, <1>9, <1>1, MerciFinite DEF IInv, CelleAmmesse, PrimaScambiata
<1>11. Escluse'
  <2>1. \A h \in Merci : Primo(riga[h]) <= Primo(riga'[h])
    BY <1>1, <1>2, <1>8, PrimoCresce, PrimoTipo DEF Righe
  <2> SUFFICES ASSUME NEW g \in Merci, riga'[g] = 0
               PROVE  Fill - Somma(Primi(riga', lotto, g)) < lotto[g].val
    BY DEF Escluse
  <2>2. /\ Somma(Primi(riga, lotto, g)) <= Somma(Primi(riga', lotto, g))
        /\ Somma(Primi(riga, lotto, g)) \in Nat /\ Somma(Primi(riga', lotto, g)) \in Nat
    BY <2>1, <1>1, <1>5, PrimiCrescono, PrimiTipo
  <2>3. Fill - Somma(Primi(riga, lotto, g)) < lotto[g].val
    BY <1>3, <1>8, <1>9 DEF IInv, Escluse
  <2> QED
    BY <2>2, <2>3, <1>1, FillTipo DEF Lotti
<1> QED
  BY <1>6, <1>7, <1>10, <1>11 DEF IInv, PrimoEsatto

LEMMA NextIInv == IInv /\ [Next]_vars => IInv'
<1> SUFFICES ASSUME IInv, [Next]_vars PROVE IInv'
  OBVIOUS
<1> USE DEF IInv, TypeOK, SpesaEsatta, PrimaScambiata, CelleAmmesse, PrimoEsatto, Escluse, Trattata
<1>1. CASE PrimoGiro
  BY <1>1, PrimoGiroIInv
<1>2. ASSUME NEW n \in Estrazione, AggiungeLotti(n) PROVE IInv'
  BY <1>2, AggiungeIInv
<1>3. ASSUME NEW n \in Estrazione, SaltaMerce(n) PROVE IInv'
  <2>1. (i + 1) % SO_MERCI \in Merci
    BY SpawnAssumption DEF Merci
  <2> QED
    BY <1>3, <2>1 DEF SaltaMerce, InGiro
<1>4. CASE Fine
  BY <1>4 DEF Fine
<1>5. CASE UNCHANGED vars
  BY <1>5 DEF vars
<1> QED
  BY <1>1, <1>2, <1>3, <1>4, <1>5 DEF Next, SecondoGiro, Finito

LEMMA SpawnIInv == Spec => []IInv
BY InitIInv, NextIInv, PTL DEF Spec

-----------------------------------------------------------------------------
\* The row, the lots and what is left of Fill are well formed at every turn.
THEOREM SpawnTypeOK == Spec => []TypeOK
BY SpawnIInv, PTL DEF IInv

\* No ton of Fill is spent twice or lost (porto_lib.c:20-52).
THEOREM SpesaSempreEsatta == Spec => []SpesaEsatta
BY SpawnIInv, PTL DEF IInv

\* Every finished row is one that RigaPossibile allows.
THEOREM RigaSempreAmmessa == Spec => []RigaAmmessa
<1>1. IInv => RigaAmmessa
  <2> SUFFICES ASSUME IInv, fase = "fine" PROVE RigaPossibile(riga, lotto, Fill)
    BY DEF RigaAmmessa
  <2>1. riga \in Righe /\ lotto \in Lotti /\ DOMAIN riga = Merci
    BY DEF IInv, TypeOK, Righe, Lotti
  <2>2. Tonnellate(riga, lotto) = Fill
    BY <2>1, PesiTipo, FillTipo DEF IInv, SpesaEsatta
  <2>3. ASSUME NEW g \in Merci
        PROVE  riga[g] # 1 /\ (riga[g] = 0 => Fill - PrimaDi(riga, lotto, g) < lotto[g].val)
    BY <2>1, PrimiTipo DEF IInv, CelleAmmesse, Escluse, Trattata
  <2> QED
    BY <2>1, <2>2, <2>3 DEF RigaPossibile
<1> QED
  BY <1>1, SpawnIInv, PTL

\* The second loop always has a good it can grow (porto_lib.c:40).
THEOREM ScambioSemprePossibile == Spec => []ScambioPossibile
<1>1. IInv => ScambioPossibile
  BY MerciFinite DEF IInv, TypeOK, PrimaScambiata, Trattata, ScambioPossibile
<1> QED
  BY <1>1, SpawnIInv, PTL
=============================================================================
