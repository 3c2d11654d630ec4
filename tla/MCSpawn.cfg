SPECIFICATION SpecEqua
CONSTANTS
  SO_MERCI = 3
  SO_PORTI = 3
  SO_FILL = 40
  SO_SIZE = 3
  SO_MIN_VITA = 3
  SO_MAX_VITA = 4
INVARIANTS SpesaEsatta RigaAmmessa
PROPERTY SpawnTermina
