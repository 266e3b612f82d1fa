SPECIFICATION Spec
CONSTANTS
  Avvii = {1, 2}
  PORT_SERVER = 3
  Modulo = 8
  Riservate = {1, 2}
  Iniziali = {4}
  Pulita = 4
  InOrdine = FALSE
  MaxMorti = 0
  MaxPulizie = 0
INVARIANTS
  LineaDelServer
CHECK_DEADLOCK FALSE
