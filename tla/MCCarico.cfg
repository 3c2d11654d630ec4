SPECIFICATION Spec
CONSTANTS
  Navi = {n1}
  SO_PORTI = 2
  SO_MERCI = 11
  SO_CAPACITY = 22
  SO_LOADSPEED = 30
  SO_DAYS = 1
  MAX_REQ_LETTE = 20
  MAX_CARICO = 10
  MAX_CODA = 11
  Lotto <- MCLotto
  Viaggio <- MCViaggio
  MercatiIniziali <- MCMatrici
  BanchineTotali <- MCBanchine
INVARIANT CaricoNellArray
