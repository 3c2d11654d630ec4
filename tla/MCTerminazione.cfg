SPECIFICATION SpecTerminazione
CONSTANTS
  SO_PORTI = 3
  MAX_CONTA = 2
  Offerti <- MCOfferti
  MAX_LOTTI = 1
INVARIANTS VincitoreFondato EccessoLimitato AmmancoLimitato
\* The report is printed and the master goes on elsewhere.
CHECK_DEADLOCK FALSE
