SPECIFICATION Spec
CONSTANTS
  Navi = {n1, n2}
  SO_PORTI = 2
  SO_DAYS = 3
  MAX_MSG = 2
  Puntuale = TRUE
INVARIANT PortoEsceBene
