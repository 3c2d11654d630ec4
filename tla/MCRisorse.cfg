SPECIFICATION Spec
CONSTANTS
  a1 = a1
  a2 = a2
  a3 = a3
  Avvii = {a1, a2, a3}
  Nessuno = Nessuno
  SO_MIN_VITA = 3
  SO_MAX_VITA = 10
  Interrotti = {a1, a2, a3}
SYMMETRY Simmetria
INVARIANTS Separati FinePulita FigliPropri
CHECK_DEADLOCK FALSE
