SPECIFICATION SpecEqua
CONSTANTS
  Navi = {n1}
  SO_PORTI = 3
  SO_MERCI = 2
  SO_CAPACITY = 1
  SO_LOADSPEED = 1
  SO_DAYS = 1
  MAX_REQ_LETTE = 1
  MAX_CARICO = 10
  MAX_CODA = 2
  ForkFallibile = FALSE
  Righe <- MCRighe
  BanchineTotali <- MCBanchine
  Lotto <- MCLotto
  Viaggio <- MCViaggio
PROPERTY AvvioRiuscito
CHECK_DEADLOCK FALSE
