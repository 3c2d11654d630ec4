SPECIFICATION SpecEqua
CONSTANTS
  Navi = {n1, n2}
  SO_PORTI = 2
  SO_MERCI = 1
  SO_CAPACITY = 2
  SO_LOADSPEED = 3
  SO_DAYS = 1
  MAX_REQ_LETTE = 1
  MAX_CARICO = 10
  MAX_CODA = 2
  Lotto <- MCLotto
  Viaggio <- MCViaggio
  MercatiIniziali <- MCMatrici
  BanchineTotali <- MCBanchine
PROPERTIES
  MercatoRaggiunto ApprodoRaggiunto
