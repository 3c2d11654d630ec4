------------------------------ MODULE Estrazioni ------------------------------
(***************************************************************************)
(* What the program may draw before the ships start: the lots of every     *)
(* good (setUpLotto) and what spawnMerciPorti may leave in the row of a    *)
(* port.  The instances of the other modules are checked against it.       *)
(***************************************************************************)
EXTENDS Integers, Somma

Bit(v, i) == (v \div 2^i) % 2

\* rand() & SO_SIZE is a mask, not a remainder: only the submasks of SO_SIZE
\* come out, and the largest lot has SO_SIZE + 1 tons.
Taglie(size) == {v + 1 : v \in {u \in 0 .. size : \A i \in 0 .. size : Bit(u, i) <= Bit(size, i)}}

\* SO_MIN_VITA + rand() % (SO_MAX_VITA - SO_MIN_VITA), where that is defined.
Scadenze(minvita, maxvita) == minvita .. maxvita - 1

\* Mutant: the first good is drawn like the others.
LottiPossibili_Tutti(merci, size, minvita, maxvita) ==
  [merci -> [val : Taglie(size), exp : Scadenze(minvita, maxvita)]]

\* The first good weighs one ton, whatever is drawn for the others.
LottiPossibili(merci, size, minvita, maxvita) ==
  {lotto \in [merci -> [val : Taglie(size), exp : Scadenze(minvita, maxvita)]] :
     lotto[0].val = 1}

-----------------------------------------------------------------------------
\* rand() % 10 + 1
Estrazione == 1 .. 10

Assoluto(n) == IF n < 0 THEN -n ELSE n

Tonnellate(riga, lotto) == Somma([g \in DOMAIN riga |-> Assoluto(riga[g]) * lotto[g].val])

\* The most the first loop can have given to a cell that now holds n: at
\* most ten lots, an even number for an offer and an odd one for a request.
AlPiuDieci(n) == IF n < 10 THEN n ELSE 10
Primo(n) ==
  IF n = 0 THEN 0
  ELSE IF n > 0 THEN AlPiuDieci(n) - (AlPiuDieci(n) % 2)
  ELSE AlPiuDieci(-n) - ((AlPiuDieci(-n) + 1) % 2)

\* The tons the first loop can have given to the goods before g.
PrimaDi(riga, lotto, g) ==
  Somma([h \in {d \in DOMAIN riga : d < g} |-> Primo(riga[h]) * lotto[h].val])

\* A finished row: it weighs exactly fill, no port offers a single lot, and
\* a good is left out only if its lot was too heavy for what the goods
\* before it may have left.
RigaPossibile(riga, lotto, fill) ==
  /\ Tonnellate(riga, lotto) = fill
  /\ \A g \in DOMAIN riga :
       /\ riga[g] # 1
       /\ riga[g] = 0 => fill - PrimaDi(riga, lotto, g) < lotto[g].val

=============================================================================
