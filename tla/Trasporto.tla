------------------------------ MODULE Trasporto ------------------------------
(***************************************************************************)
(* What the ships promise together, without queue, semaphores or dump:     *)
(* lots go from an offer into a hold and from there to a port that still   *)
(* asks for them, or expire on the way; a ship carries for one port at a   *)
(* time, within its capacity; and never is more under way to a port than   *)
(* it asks for.                                                            *)
(***************************************************************************)
EXTENDS Integers, Somma

CONSTANTS Navi, Porti, Merci, SO_CAPACITY, Lotto, MercatiIniziali

VARIABLES
  offerta, domanda,      \* lots each port offers and asks for
  posto, verso,          \* the port a ship is at or comes from, and the next
  stiva,                 \* lots aboard
  consegnata, scaduta    \* lots delivered, and expired aboard, by good

vars == <<offerta, domanda, posto, verso, stiva, consegnata, scaduta>>

Positiva(n) == IF n > 0 THEN n ELSE 0
Vuota == [g \in Merci |-> 0]

Init ==
  /\ \E m \in MercatiIniziali :
       /\ offerta = [p \in Porti |-> [g \in Merci |-> Positiva(m[p][g])]]
       /\ domanda = [p \in Porti |-> [g \in Merci |-> Positiva(-m[p][g])]]
  /\ posto \in [Navi -> Porti]
  /\ verso = posto
  /\ stiva = [s \in Navi |-> Vuota]
  /\ consegnata = Vuota /\ scaduta = Vuota

Cambia(f, a, b, n) == [f EXCEPT ![a] = [f[a] EXCEPT ![b] = f[a][b] + n]]

InViaggio(p, g) == Somma([s \in Navi |-> IF verso[s] = p THEN stiva[s][g] ELSE 0])
Tonnellaggio(s) == Somma([g \in Merci |-> stiva[s][g] * Lotto[g].val])

\* n lots of g for port q, where everything else aboard is for q as well, and
\* q asks for more than is on its way.
Carica(s, g, n, q) ==
  /\ n <= offerta[posto[s]][g]
  /\ n + InViaggio(q, g) <= domanda[q][g]
  /\ Tonnellaggio(s) + n * Lotto[g].val <= SO_CAPACITY
  /\ stiva[s] = Vuota \/ verso[s] = q
  /\ offerta' = Cambia(offerta, posto[s], g, -n)
  /\ stiva' = Cambia(stiva, s, g, n)
  /\ verso' = [verso EXCEPT ![s] = q]
  /\ UNCHANGED <<domanda, posto, consegnata, scaduta>>

\* An empty ship may go anywhere.
CambiaRotta(s) ==
  /\ stiva[s] = Vuota
  /\ \E q \in Porti : verso' = [verso EXCEPT ![s] = q]
  /\ UNCHANGED <<offerta, domanda, posto, stiva, consegnata, scaduta>>

Arriva(s) ==
  /\ posto' = [posto EXCEPT ![s] = verso[s]]
  /\ UNCHANGED <<offerta, domanda, verso, stiva, consegnata, scaduta>>

\* All lots of a good are delivered where they were asked for.
Consegna(s, g) ==
  /\ posto[s] = verso[s] /\ stiva[s][g] > 0
  /\ stiva[s][g] <= domanda[posto[s]][g]
  /\ domanda' = Cambia(domanda, posto[s], g, -stiva[s][g])
  /\ consegnata' = [consegnata EXCEPT ![g] = @ + stiva[s][g]]
  /\ stiva' = Cambia(stiva, s, g, -stiva[s][g])
  /\ UNCHANGED <<offerta, posto, verso, scaduta>>

\* All lots of a good expire aboard; the port goes without them.
Scade(s, g) ==
  /\ stiva[s][g] > 0
  /\ scaduta' = [scaduta EXCEPT ![g] = @ + stiva[s][g]]
  /\ stiva' = Cambia(stiva, s, g, -stiva[s][g])
  /\ UNCHANGED <<offerta, domanda, posto, verso, consegnata>>

Next ==
  \E s \in Navi :
    \/ \E g \in Merci, q \in Porti : \E n \in 1 .. offerta[posto[s]][g] : Carica(s, g, n, q)
    \/ CambiaRotta(s) \/ Arriva(s)
    \/ \E g \in Merci : Consegna(s, g) \/ Scade(s, g)

Spec == Init /\ [][Next]_vars

=============================================================================
