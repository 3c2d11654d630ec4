SPECIFICATION SpecPreparazione
CONSTANTS
  File <- MCFile
  Argomenti <- MCArgomenti
  QNT_PARAMETRI = 13
  Valori <- MCValori
  PAGINA = 4096
  RigaMappa = 12
  SO_LATO = 7
  Tiri = {0, 1, 3, 6}
  Pid = {7, 9}
INVARIANTS  SempreMappato 
PROPERTIES MaiSopra 
\* main stops on an error, and goes on to the fork otherwise.
CHECK_DEADLOCK FALSE
