SPECIFICATION Spec
CONSTANTS
  Navi = {n1, n2}
  SO_PORTI = 3
  SO_MERCI = 1
  SO_CAPACITY = 1
  SO_LOADSPEED = 3
  SO_DAYS = 2
  MAX_REQ_LETTE = 2
  MAX_CARICO = 10
  MAX_CODA = 3
  Lotto <- MCLotto
  Viaggio <- MCViaggio
  MercatiIniziali <- MCMatrici
  BanchineTotali <- MCBanchine
SYMMETRY MCSimmetria
INVARIANTS
   RichiesteMaiPerse MaiErroreScarico
PROPERTY ImplementaTrasporto
