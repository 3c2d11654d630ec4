------------------------------ MODULE SpawnMerci ------------------------------
(***************************************************************************)
(* spawnMerciPorti (porto_lib.c:15-52) on the row of one port, before      *)
(* anybody else looks at it: one action per turn of its two loops.         *)
(***************************************************************************)
EXTENDS Estrazioni

CONSTANTS SO_MERCI, SO_PORTI, SO_FILL, SO_SIZE, SO_MIN_VITA, SO_MAX_VITA

Merci == 0 .. SO_MERCI - 1
Fill == SO_FILL \div SO_PORTI

ASSUME SpawnAssumption ==
  /\ SO_MERCI \in Nat \ {0}
  /\ SO_PORTI \in Nat \ {0}
  /\ SO_FILL \in Nat
  /\ SO_SIZE \in Nat
  /\ SO_MIN_VITA \in Nat
  /\ SO_MAX_VITA \in Nat

VARIABLES
  lotto,   \* the lots setUpLotto has drawn
  riga,    \* CAST_MERCATO(..)[indice][..].val
  fill,    \* Fill, what is left to spend
  i,       \* the good the loop is at
  fase     \* which loop

vars == <<lotto, riga, fill, i, fase>>

Init ==
  /\ lotto \in LottiPossibili(Merci, SO_SIZE, SO_MIN_VITA, SO_MAX_VITA)
  /\ riga = [g \in Merci |-> 0]
  /\ fill = Fill
  /\ i = 0
  /\ fase = "primo"

\* k is what the while loop leaves of a draw of n lots.
Ridotto(k, n) ==
  /\ k \in 0 .. n
  /\ k * lotto[i].val <= fill
  /\ k = n \/ (k + 1) * lotto[i].val > fill

\* Mutant: the parity is that of an odd number of lots.
ConSegno_Inverso(k) == IF k % 2 = 1 THEN k ELSE -k

\* An even number of lots is offered, an odd one asked for.
ConSegno(k) == IF k % 2 = 0 THEN k ELSE -k

PrimoGiro ==
  /\ fase = "primo"
  /\ \E n \in Estrazione, k \in 0 .. 10 :
       /\ Ridotto(k, n)
       /\ riga' = [riga EXCEPT ![i] = ConSegno(k)]
       /\ fill' = fill - k * lotto[i].val
  /\ IF i + 1 < SO_MERCI THEN i' = i + 1 /\ UNCHANGED fase
                         ELSE i' = 0 /\ fase' = "resto"
  /\ UNCHANGED lotto

\* The test of while(Fill>0) is made only before a whole turn of the goods.
InGiro == fase = "resto" /\ (i > 0 \/ fill > 0)

\* Mutant: += in both branches.
Cresciuta_Piu(n, k) == n + k

Cresciuta(n, k) == IF n > 0 THEN n + k ELSE n - k

AggiungeLotti(n) ==
  /\ InGiro
  /\ n * lotto[i].val <= fill /\ riga[i] # 0
  /\ riga' = [riga EXCEPT ![i] = Cresciuta(riga[i], n)]
  /\ fill' = fill - n * lotto[i].val
  /\ i' = (i + 1) % SO_MERCI
  /\ UNCHANGED <<lotto, fase>>

\* The draw does not fit, or the good is not traded here.
SaltaMerce(n) ==
  /\ InGiro
  /\ n * lotto[i].val > fill \/ riga[i] = 0
  /\ i' = (i + 1) % SO_MERCI
  /\ UNCHANGED <<lotto, riga, fill, fase>>

Fine ==
  /\ fase = "resto" /\ i = 0 /\ fill = 0
  /\ fase' = "fine"
  /\ UNCHANGED <<lotto, riga, fill, i>>

Finito == fase = "fine" /\ UNCHANGED vars

SecondoGiro == \E n \in Estrazione : AggiungeLotti(n) \/ SaltaMerce(n)

Next == PrimoGiro \/ SecondoGiro \/ Fine \/ Finito

Spec == Init /\ [][Next]_vars

\* The port runs, and rand() does not avoid the remainder 0 for ever at the
\* turns of good 0, the one whose lot always fits.
UnLottoDellaPrima == i = 0 /\ AggiungeLotti(1)
SpecEqua == Spec /\ WF_vars(Next) /\ SF_vars(UnLottoDellaPrima)

-----------------------------------------------------------------------------
TypeOK ==
  /\ lotto \in [Merci -> [val : Nat \ {0}, exp : Nat]]
  /\ riga \in [Merci -> Int]
  /\ fill \in 0 .. Fill
  /\ i \in Merci
  /\ fase \in {"primo", "resto", "fine"}

\* At every turn of the two loops (porto_lib.c:20-52) the lots in the row and
\* the tons left make up Fill: no ton is spent twice by the shrinking loop or
\* by a draw that does not fit.
SpesaEsatta == Tonnellate(riga, lotto) + fill = Fill

\* What the port puts on the market when the loops are over: all of Fill, no
\* offer of one lot, and no good left out that could have been traded.
RigaAmmessa == fase = "fine" => RigaPossibile(riga, lotto, Fill)

\* While tons are left (porto_lib.c:40) some good the port trades has a lot
\* that fits, so the loop can always go on: only because setUpLotto makes the
\* first good weigh one ton (master_lib.c:94) and the first loop never leaves
\* it out.
ScambioPossibile ==
  fase = "resto" /\ fill > 0 => \E g \in Merci : riga[g] # 0 /\ lotto[g].val <= fill

\* The loops end: the port gets to its requests and to the barrier.
SpawnTermina == <>(fase = "fine")

=============================================================================
