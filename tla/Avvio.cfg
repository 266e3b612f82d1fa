SPECIFICATION Spec
CONSTANTS
  Avvii = {1, 2}
  PORT_SERVER = 3
  Modulo = 8
  Riservate = {1, 2}
  Iniziali = {4, 7}
  Pulita = 4
  InOrdine = TRUE
  MaxMorti = 1
  MaxPulizie = 1
INVARIANTS
  PortaLibera
  LineaMantenuta
PROPERTIES
  StudenteCollegato
CHECK_DEADLOCK FALSE
