SPECIFICATION Spec
CONSTANTS
  Navi = {n1, n2}
  SO_PORTI = 2
  SO_MERCI = 2
  SO_CAPACITY = 5
  SO_LOADSPEED = 3
  SO_DAYS = 2
  MAX_REQ_LETTE = 2
  MAX_CARICO = 10
  MAX_CODA = 2
  Lotto <- MCLotto
  Viaggio <- MCViaggio
  MercatiIniziali <- MCMatrici
  BanchineTotali <- MCBanchine
SYMMETRY MCSimmetria
INVARIANTS
  TypeOK MercatoEsclusivo DumpEsclusivo BanchineConservate NaviContate MerceContata
  RichiestaCoperta InvioMaiBloccato FineSenzaCarico
  UnaCasellaPerMerce NessunoStallo
PROPERTIES
  MercatoVersoZero  
