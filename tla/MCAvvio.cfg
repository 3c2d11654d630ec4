SPECIFICATION SpecEqua
CONSTANTS
  Navi = {n1, n2}
  SO_PORTI = 3
  SO_MERCI = 2
  SO_CAPACITY = 1
  SO_LOADSPEED = 1
  SO_DAYS = 1
  MAX_REQ_LETTE = 1
  MAX_CARICO = 10
  MAX_CODA = 4
  ForkFallibile = TRUE
  Righe <- MCRighe
  BanchineTotali <- MCBanchine
  Lotto <- MCLotto
  Viaggio <- MCViaggio
INVARIANTS NessunoInAnticipo InizioNave
PROPERTY BarrieraAperta
\* When a child is lost the program hangs at the barrier.
CHECK_DEADLOCK FALSE
