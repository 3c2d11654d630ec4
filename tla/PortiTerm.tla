------------------------------ MODULE PortiTerm ------------------------------
(***************************************************************************)
(* calcola_porti_term (master_lib.c:188-201): the two ports the final      *)
(* report names, looked for in counters that the ships still move, since   *)
(* the handler calls it before main sends SIGUSR2.  Nothing is locked: a   *)
(* comparison reads its two counters one after the other, in an order C    *)
(* leaves open, and the build may use again the value of the winner's      *)
(* counter that it has already read.                                       *)
(***************************************************************************)
EXTENDS Naturals

CONSTANTS SO_PORTI,
          MAX_CONTA    \* bound: what a counter can reach

Porti == 0 .. SO_PORTI - 1
Campi == {"mercespedita", "mercericevuta"}

ASSUME PortiTermAssumption == SO_PORTI \in Nat \ {0} /\ MAX_CONTA \in Nat

VARIABLES
  conta,       \* the counters of porto_dump
  vincitore,   \* term_dump, porto_spedite and porto_ricevute
  noto,        \* the winner's counter as last read
  i,           \* the port compared
  campo,       \* the counter compared
  sfidante,    \* the counter of port i, once read
  inizio       \* history: the counters when the loop started

vars == <<conta, vincitore, noto, i, campo, sfidante, inizio>>

Init ==
  /\ conta \in [Campi -> [Porti -> 0 .. MAX_CONTA]]
  /\ vincitore = [c \in Campi |-> 0]
  /\ noto = [c \in Campi |-> conta[c][0]]
  /\ i = 1
  /\ campo = "mercespedita"
  /\ sfidante = [letto |-> FALSE, v |-> 0]
  /\ inizio = conta

\* Mutant: the last port is not looked at.
Fine_Prima == i >= SO_PORTI - 1

Fine == i >= SO_PORTI

Maggiore(x, y) == x > y

\* A ship loads or unloads meanwhile.
Cresce(c, p) ==
  /\ \E n \in 0 .. MAX_CONTA : n > conta[c][p] /\ conta' = [conta EXCEPT ![c][p] = n]
  /\ UNCHANGED <<vincitore, noto, i, campo, sfidante, inizio>>

LeggiPorto ==
  /\ ~Fine
  /\ sfidante' = [letto |-> TRUE, v |-> conta[campo][i]]
  /\ UNCHANGED <<conta, vincitore, noto, i, campo, inizio>>

LeggiVincitore ==
  /\ ~Fine
  /\ noto' = [noto EXCEPT ![campo] = conta[campo][vincitore[campo]]]
  /\ UNCHANGED <<conta, vincitore, i, campo, sfidante, inizio>>

Confronta ==
  /\ ~Fine
  /\ sfidante.letto
  /\ sfidante' = [letto |-> FALSE, v |-> 0]
  /\ IF Maggiore(sfidante.v, noto[campo])
       THEN /\ vincitore' = [vincitore EXCEPT ![campo] = i]
            /\ noto' = [noto EXCEPT ![campo] = sfidante.v]
       ELSE UNCHANGED <<vincitore, noto>>
  /\ IF campo = "mercespedita"
       THEN campo' = "mercericevuta" /\ i' = i
       ELSE campo' = "mercespedita" /\ i' = i + 1
  /\ UNCHANGED <<conta, inizio>>

Next ==
  \/ \E c \in Campi, p \in Porti : Cresce(c, p)
  \/ LeggiPorto
  \/ LeggiVincitore
  \/ Confronta

Spec == Init /\ [][Next]_vars
-----------------------------------------------------------------------------
\* The shape of the state.
TypeOK ==
  /\ conta \in [Campi -> [Porti -> Nat]]
  /\ inizio \in [Campi -> [Porti -> Nat]]
  /\ vincitore \in [Campi -> Porti]
  /\ noto \in [Campi -> Nat]
  /\ i \in 1 .. SO_PORTI
  /\ campo \in Campi
  /\ sfidante \in [letto : BOOLEAN, v : Nat]

\* Whatever the ships do during the loop, the port it names has at the end at
\* least as much as any port had when the loop started (master_lib.c:188-201).
VincitoreFondato ==
  Fine => \A c \in Campi, p \in Porti : conta[c][vincitore[c]] >= inizio[c][p]
=============================================================================
