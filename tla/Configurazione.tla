--------------------------- MODULE Configurazione ---------------------------
(***************************************************************************)
(* How main takes the parameters from config.txt (master.c:61-90): it      *)
(* skips as many newlines as its argument says and scans thirteen numbers. *)
(* The file is a sequence of newlines, numbers and words; what fgetc reads *)
(* one character at a time is read here one item at a time.                *)
(***************************************************************************)
EXTENDS Naturals, Sequences, FiniteSets, FiniteSetsExt

CONSTANTS File,            \* items [tipo, riga]: "a capo", "numero" or "parola", and its line
          Argomenti,       \* what argv[1] may be
          QNT_PARAMETRI

VARIABLES
  n_righe_file,   \* atoi(argv[1])
  pos,            \* the next item of the file
  i,              \* the counter of the loop
  PARAMETRO,      \* the numbers read
  fase

vars == <<n_righe_file, pos, i, PARAMETRO, fase>>

Init ==
  /\ n_righe_file \in Argomenti
  /\ pos = 1
  /\ i = 0
  /\ PARAMETRO = <<>>
  /\ fase = IF n_righe_file < 1 THEN "errore" ELSE "ricerca"

\* Mutant: one newline more is looked for.
Trovata_Dopo == i > n_righe_file

Trovata == i = n_righe_file

\* fgetc.  The assignment keeps the result of the comparison with '\n', which
\* is never EOF: at the end of the file the loop turns without reading.
Cerca ==
  /\ fase = "ricerca"
  /\ ~Trovata
  /\ pos <= Len(File)
  /\ i' = IF File[pos].tipo = "a capo" THEN i + 1 ELSE i
  /\ pos' = pos + 1
  /\ UNCHANGED <<n_righe_file, PARAMETRO, fase>>

CercaFinita ==
  /\ fase = "ricerca"
  /\ Trovata
  /\ fase' = "lettura"
  /\ UNCHANGED <<n_righe_file, pos, i, PARAMETRO>>

\* What fscanf("%d") finds once it has skipped the newlines, if anything.
Prossimi == {k \in pos .. Len(File) : File[k].tipo # "a capo"}

Leggi ==
  /\ fase = "lettura"
  /\ IF Prossimi # {} /\ File[Min(Prossimi)].tipo = "numero"
       THEN /\ PARAMETRO' = Append(PARAMETRO, File[Min(Prossimi)])
            /\ pos' = Min(Prossimi) + 1
            /\ fase' = IF Len(PARAMETRO') = QNT_PARAMETRI THEN "letti" ELSE fase
       ELSE fase' = "errore" /\ UNCHANGED <<PARAMETRO, pos>>
  /\ UNCHANGED <<n_righe_file, i>>

Next == Cerca \/ CercaFinita \/ Leggi

Spec == Init /\ [][Next]_vars /\ WF_vars(Next)
-----------------------------------------------------------------------------
Numeri(r) == {k \in DOMAIN File : File[k].tipo = "numero" /\ File[k].riga = r}

\* The line a position of the file is on, and where a line begins.
RigaDi(p) ==
  IF p = 1 THEN 1
  ELSE IF File[p - 1].tipo = "a capo" THEN File[p - 1].riga + 1 ELSE File[p - 1].riga

Principia(p) == p > 1 => File[p - 1].tipo = "a capo"

\* The numbers fscanf finds from a position on are those of a full line.
Piena(p) ==
  \A d \in 0 .. QNT_PARAMETRI - 1 : p + d \in DOMAIN File /\ File[p + d].tipo = "numero"

\* From a position on, the first thing that is not a newline is not a number.
SenzaNumeri(p) ==
  \A m \in DOMAIN File :
    m >= p /\ File[m].tipo = "numero" => \E h \in p .. m - 1 : File[h].tipo = "parola"

\* What config.txt has to be for a line to be read rightly: a line is full, or
\* it has fewer numbers than asked and they come after a word, its own or one of
\* the lines that follow.
FileOrdinato ==
  /\ \A m \in DOMAIN File : File[m].riga = RigaDi(m)
  /\ \A p \in 1 .. Len(File) + 1 :
       Principia(p) =>
         \/ Piena(p)
         \/ SenzaNumeri(p) /\ Cardinality(Numeri(RigaDi(p))) < QNT_PARAMETRI

\* The parameters are those of one line, the one after as many newlines as
\* asked, and a line without them is refused rather than passed over for the
\* next one that has them (master.c:73-89).
ParametriDellaRiga ==
  /\ fase = "letti" => \A k \in DOMAIN PARAMETRO : PARAMETRO[k].riga = n_righe_file + 1
  /\ fase = "errore" => n_righe_file = 0 \/ Cardinality(Numeri(n_righe_file + 1)) < QNT_PARAMETRI
=============================================================================
