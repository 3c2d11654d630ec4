------------------------------- MODULE Stampa -------------------------------
(***************************************************************************)
(* stampa_merci_porti_navi (master_lib.c:142-175) read over the counters   *)
(* the ships change under the semaphore of the dump, which the printing    *)
(* does not take: one good, and the lines of the ports.  scaduta_in_porto, *)
(* mercericevuta and the berths take part in no sum and are left out.      *)
(***************************************************************************)
EXTENDS Integers, Sequences, Functions, Somma

CONSTANTS SO_PORTI,
          Offerti,      \* lots of the good each port offers after the barrier
          MAX_LOTTI     \* bound: lots a single update of the dump moves

Porti == 0 .. SO_PORTI - 1

\* The fields of merce_dump the good has, and those of porto_dump of port p.
Consegnata == <<"consegnata", 0>>
InNave     == <<"presente_in_nave", 0>>
InPorto    == <<"presente_in_porto", 0>>
Scaduta    == <<"scaduta_in_nave", 0>>
Presente(p) == <<"mercepresente", p>>
Spedita(p)  == <<"mercespedita", p>>

Campi ==
  {Consegnata, InNave, InPorto, Scaduta}
    \union {Presente(p) : p \in Porti} \union {Spedita(p) : p \in Porti}

\* Mutants: the lots in port before those aboard; the lots sent before those
\* left.
RigheMerce_Porto == <<Consegnata, InPorto, InNave, Scaduta>>
RighePorto_Spedita(p) == <<Spedita(p), Presente(p)>>

\* The order of the lines.
RigheMerce == <<Consegnata, InNave, InPorto, Scaduta>>
RighePorto(p) == <<Presente(p), Spedita(p)>>

Righe == [k \in 1 .. 4 + 2 * SO_PORTI |->
            IF k <= 4 THEN RigheMerce[k] ELSE RighePorto((k - 5) \div 2)[1 + ((k - 5) % 2)]]

VARIABLES
  dump,      \* the counters in shared memory
  semDump,   \* semaphore 0 of the dump
  resta,     \* what the update in progress has still to add, by field
  stampato   \* the values printed so far, in the order of Righe

vars == <<dump, semDump, resta, stampato>>

Nulla == [f \in {} |-> 0]

Totale == Somma(Offerti)

Init ==
  /\ dump = [f \in Campi |-> IF f = InPorto THEN Totale
                             ELSE IF f[1] = "mercepresente" THEN Offerti[f[2]] ELSE 0]
  /\ semDump = 1
  /\ resta = Nulla
  /\ stampato = <<>>

\* A ship enters its critical section with the changes d to make, in whatever
\* order the build makes them.
Aggiorna(d) ==
  /\ semDump = 1
  /\ semDump' = 0
  /\ resta' = d
  /\ UNCHANGED <<dump, stampato>>

\* n lots leave the fields da for the fields a.
Sposta(da, a, n) == [f \in da \union a |-> IF f \in a THEN n ELSE -n]

\* aggiorna_dump_carico: n lots loaded in port p.
Carica(p, n) ==
  /\ n <= dump[Presente(p)]
  /\ Aggiorna(Sposta({Presente(p), InPorto}, {Spedita(p), InNave}, n))

\* scaricamerci: n lots delivered, or found expired.
Scarica(n) ==
  /\ n <= dump[InNave]
  /\ \E dove \in {Consegnata, Scaduta} : Aggiorna(Sposta({InNave}, {dove}, n))

\* One += or -= of the update.
Scrive ==
  \E f \in DOMAIN resta :
    /\ dump' = [dump EXCEPT ![f] = @ + resta[f]]
    /\ resta' = Restrict(resta, DOMAIN resta \ {f})
    /\ UNCHANGED <<semDump, stampato>>

Rilascia ==
  /\ semDump = 0
  /\ resta = Nulla
  /\ semDump' = 1
  /\ UNCHANGED <<dump, resta, stampato>>

StampaRiga ==
  /\ Len(stampato) < Len(Righe)
  /\ stampato' = Append(stampato, dump[Righe[Len(stampato) + 1]])
  /\ UNCHANGED <<dump, semDump, resta>>

Next ==
  \/ \E n \in 1 .. MAX_LOTTI : (\E p \in Porti : Carica(p, n)) \/ Scarica(n)
  \/ Scrive
  \/ Rilascia
  \/ StampaRiga

Spec == Init /\ [][Next]_vars
-----------------------------------------------------------------------------
Stampata(f) == \E k \in DOMAIN stampato : Righe[k] = f
Letto(f) == stampato[CHOOSE k \in DOMAIN stampato : Righe[k] = f]

\* Delivered, aboard and in port are printed against the way a lot goes, so a
\* lot is printed in two of them only by the update half done at that moment:
\* the sum exceeds the lots there are by one update at most
\* (master_lib.c:150-152, nave_lib.c:117-125, 137-146).
EccessoLimitato ==
  (\A f \in {Consegnata, InNave, InPorto} : Stampata(f)) =>
    Letto(Consegnata) + Letto(InNave) + Letto(InPorto) <= Totale + MAX_LOTTI

\* What a port still has is printed before what it has sent: of the lots it
\* offered at the start no more are missing from the two than one update moves
\* (master_lib.c:157-159, nave_lib.c:119-120).
AmmancoLimitato ==
  \A p \in Porti :
    Stampata(Presente(p)) /\ Stampata(Spedita(p)) =>
      Letto(Presente(p)) + Letto(Spedita(p)) >= Offerti[p] - MAX_LOTTI
=============================================================================
