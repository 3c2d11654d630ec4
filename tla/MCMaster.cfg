SPECIFICATION SpecEqua
CONSTANTS
  Navi = {n1, n2}
  SO_PORTI = 2
  SO_DAYS = 3
  MAX_MSG = 2
  Puntuale = FALSE
INVARIANTS IpcFinoAllUltimo 
PROPERTY Termina
\* A master whose alarm went off too early sleeps for ever.
CHECK_DEADLOCK FALSE
