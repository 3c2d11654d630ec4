------------------------------- MODULE Memoria -------------------------------
(***************************************************************************)
(* Where the master writes before the simulation starts: the counters of   *)
(* the dump, which the macros of definitions.h place by pointer            *)
(* arithmetic, the positions, the lots and the pids of the children        *)
(* (master.c:94-166), against the size each area was asked with.  One      *)
(* structure is written at each step.                                      *)
(***************************************************************************)
EXTENDS Integers

CONSTANTS Righe,    \* the lines of config.txt, as [NAVI, PORTI, MERCI]
          PAGINA    \* the kernel maps a segment by whole pages

\* sizeof on the platform the makefile builds for.
INT == 4
PUNTO == 16
MERCE == 2 * INT
MERCE_DUMP == 5 * INT
PORTO_DUMP == 5 * INT
DUMP == 48

VARIABLES
  par,       \* the line read
  area,      \* the area being written
  k,         \* the structures of it already written
  scritto    \* the bytes of the last one

vars == <<par, area, k, scritto>>

Massimo(x, y) == IF x >= y THEN x ELSE y

\* Mutant: the segment has room for the counters of the ports only.
SizeDump_Porti == PORTO_DUMP * par.PORTI + DUMP

SizeDump == PORTO_DUMP * par.PORTI + MERCE_DUMP * par.MERCI + DUMP

\* Mutant: sizeof(int) counted in bytes.
CastMerceDump_Byte == INT

\* CAST_MERCE_DUMP: the pointer moves by sizeof(int) structures.
CastMerceDump == INT * MERCE_DUMP

CastPortoDump == CastMerceDump + MERCE_DUMP * par.MERCI

\* How many structures an area receives: generate_positions always writes the
\* four corners.
Quante ==
  [dump |-> 1 + par.MERCI + par.PORTI,
   posizioni |-> Massimo(4, par.PORTI),
   lotti |-> par.MERCI,
   child_pids |-> par.PORTI + par.NAVI]

\* The bytes of an area that can be written: whole pages of shared memory, and
\* what malloc was asked for.
Pagine(n) == ((n + PAGINA - 1) \div PAGINA) * PAGINA

Mappati ==
  [dump |-> Pagine(SizeDump),
   posizioni |-> Pagine(PUNTO * par.PORTI),
   lotti |-> Pagine(MERCE * par.MERCI),
   child_pids |-> INT * (par.NAVI * par.PORTI)]

Tratto(da, lungo) == [da |-> da, a |-> da + lungo - 1]

\* A counter of the dump, after data and nd, for a good or for a port.
Contatore(n) ==
  IF n <= par.MERCI
    THEN Tratto(CastMerceDump + MERCE_DUMP * (n - 1), MERCE_DUMP)
    ELSE Tratto(CastPortoDump + PORTO_DUMP * (n - 1 - par.MERCI), PORTO_DUMP)

\* The bytes of structure n of the area.
Struttura(n) ==
  IF area = "dump"
    THEN IF n = 0 THEN Tratto(0, DUMP) ELSE Contatore(n)
    ELSE LET lungo == [posizioni |-> PUNTO, lotti |-> MERCE, child_pids |-> INT][area]
         IN Tratto(lungo * n, lungo)

Init ==
  /\ par \in Righe
  /\ area = "dump"
  /\ k = 0
  /\ scritto = Tratto(0, 0)

Scrive ==
  /\ k < Quante[area]
  /\ scritto' = Struttura(k)
  /\ k' = k + 1
  /\ UNCHANGED <<par, area>>

Passa(da, a) ==
  /\ area = da
  /\ k = Quante[area]
  /\ area' = a
  /\ k' = 0
  /\ UNCHANGED <<par, scritto>>

Next ==
  \/ Scrive
  \/ Passa("dump", "posizioni")
  \/ Passa("posizioni", "lotti")
  \/ Passa("lotti", "child_pids")

Spec == Init /\ [][Next]_vars
-----------------------------------------------------------------------------
\* With the parameters of Righe nothing is written past the end of its
\* area, although the counters of the dump end 32 bytes after the size the
\* segment is asked with and child_pids has a product of places for a sum of
\* children (definitions.h:105, 129-133, master.c:94).
SempreMappato == k > 0 => scritto.a < Mappati[area]

\* What a line has to be for that: the counters of the dump end inside the last
\* page of the segment, a page holds four positions, and the product of ships
\* and ports is no less than their sum.
Capiente(riga) ==
  /\ 20 * (riga.MERCI + riga.PORTI) + 80 <= Pagine(20 * (riga.MERCI + riga.PORTI) + DUMP)
  /\ 4 * PUNTO <= Pagine(PUNTO * riga.PORTI)
  /\ riga.NAVI + riga.PORTI <= riga.NAVI * riga.PORTI

\* No structure is written over one already there, above all no counter over
\* data and nd, which share the segment with them (definitions.h:129-133).
MaiSopra == [][k > 0 /\ k' = k + 1 => scritto'.da > scritto.a]_vars
=============================================================================
