-------------------------------- MODULE Mappa --------------------------------
(***************************************************************************)
(* The map: generate_positions places the ports (master_lib.c:28-62), a    *)
(* ship draws the point it starts from and looks for the nearest one       *)
(* (nave_lib.c:6-39).  A coordinate is counted in units of 1/lato, in      *)
(* which every one the code computes is whole.                             *)
(***************************************************************************)
EXTENDS Integers

CONSTANTS SO_PORTI, SO_LATO,
          Tiri,    \* what rand() % lato may give
          Pid      \* what getppid() may give

Porti == 0 .. SO_PORTI - 1
Indefinito == -1

VARIABLES
  ppid,        \* getppid() in the master
  porti,       \* the positions written so far
  posizione,   \* where the ship starts; <<>> before it draws
  vicino       \* what calcola_porto_piu_vicino returns

vars == <<ppid, porti, posizione, vicino>>

\* x * y in an int of 32 bits, for x below 2^15, in sixteen bits at a time.
Prodotto32(x, y) ==
  LET basso == x * (y % 65536)
      alto  == (x * (y \div 65536) + basso \div 65536) % 65536
  IN (IF alto >= 32768 THEN alto - 65536 ELSE alto) * 65536 + (basso % 65536)

\* The remainder of C, which has the sign of x.
CResto(x, n) == IF x >= 0 \/ x % n = 0 THEN x % n ELSE (x % n) - n

\* mant/lato + (p_intera*getppid()%lato)
Coordinata(mant, pid) == mant + SO_LATO * CResto(Prodotto32(mant, pid), SO_LATO)

\* generate_random_point_master and generate_random_point_nave
PuntiCasuali(pid) == {Coordinata(m, pid) : m \in Tiri} \X {Coordinata(m, pid) : m \in Tiri}

\* Mutant: the difference is not made positive.
Equals_SenzaModulo(x, y) == 20 * (x - y) < SO_LATO

\* equals, with TOLLERANZA a twentieth of a unit of the map.
Equals(x, y) == 20 * (IF x > y THEN x - y ELSE y - x) < SO_LATO

StessoPunto(p, q) == Equals(p[1], q[1]) /\ Equals(p[2], q[2])

Vertici ==
  LET lato == SO_LATO * SO_LATO
  IN [i \in 0 .. 3 |-> <<IF i \in {1, 2} THEN lato ELSE 0, IF i \in {2, 3} THEN lato ELSE 0>>]

\* The ports a new position is compared with.
Confrontati(i) == 0 .. i - 1

Piazzati == DOMAIN porti = Porti

Init ==
  /\ ppid \in Pid
  /\ porti = Vertici
  /\ posizione = <<>>
  /\ vicino = Indefinito

\* A point that equals one already there is drawn again and nothing changes.
Piazza ==
  /\ ~Piazzati
  /\ LET i == CHOOSE n \in Porti : DOMAIN porti = 0 .. n - 1
     IN \E p \in PuntiCasuali(ppid) :
          /\ \A j \in Confrontati(i) : ~StessoPunto(p, porti[j])
          /\ porti' = [j \in 0 .. i |-> IF j = i THEN p ELSE porti[j]]
  /\ UNCHANGED <<ppid, posizione, vicino>>

\* The square of calcola_distanza.
Distanza2(p, q) == (p[1] - q[1]) * (p[1] - q[1]) + (p[2] - q[2]) * (p[2] - q[2])

\* The array as the loop reads it: what follows the ports is zero.
Letta(i) == IF i \in Porti THEN porti[i] ELSE <<0, 0>>

\* Mutant: of two ports at one distance the second is taken.
PiuVicino_Ultimo(d, m) == d <= m

PiuVicino(d, m) == d < m

\* The square of so_lato*so_lato, where distmin starts from.
Lontano ==
  LET lungo == SO_LATO * SO_LATO * SO_LATO IN lungo * lungo

\* calcola_porto_piu_vicino: the loop goes to so_lato.
Vicino(p) ==
  LET f[n \in 0 .. SO_LATO] ==
        IF n = 0
          THEN [indicemin |-> Indefinito, distmin |-> Lontano]
          ELSE LET d == Distanza2(p, Letta(n - 1))
               IN IF PiuVicino(d, f[n - 1].distmin)
                    THEN [indicemin |-> n - 1, distmin |-> d]
                    ELSE f[n - 1]
  IN f[SO_LATO].indicemin

\* A ship is born: its parent is the master.
Nasce ==
  /\ Piazzati
  /\ posizione = <<>>
  /\ \E pid \in Pid : posizione' \in PuntiCasuali(pid)
  /\ vicino' = Vicino(posizione')
  /\ UNCHANGED <<ppid, porti>>

Next == Piazza \/ Nasce

\* rand() does not give occupied points for ever when there are others.
Spec == Init /\ [][Next]_vars /\ WF_vars(Piazza)
-----------------------------------------------------------------------------
\* All the ports find a place, even when getppid() is a multiple of lato and
\* every point drawn falls in the first square of the map (master_lib.c:33,
\* 57-58).
PiazzamentoTermina == <>Piazzati

\* A ship heads for "il porto più vicino alla posizione p" (nave_lib.h:15):
\* for a port, and for one no other is nearer than (nave_lib.c:27-39).
VicinoGiusto ==
  posizione # <<>> =>
    /\ vicino \in Porti
    /\ \A q \in Porti : Distanza2(posizione, porti[vicino]) <= Distanza2(posizione, porti[q])
=============================================================================
