SPECIFICATION SpecBase
CONSTANTS
  Proc = {p1, p2}
  Link = Link
  Backlog = 1
  Guasti = {"studente", "segreteria", "server", "query"}
  MaxGuasti = 1
  Numeri = {5}
  Password = {"w5"}
  Codici = {10}
  Nomi = {"prog1", Vuoto}
  Vuoto = Vuoto
  Residuo = 99
  Scelte = {1, 2, 3}
  Richieste = {1, 2, 3}
  MaxScelte = 1
  MaxFd = 2
  DimArray = 3
  Giorni = {3, Vuoto}
  Malformata = Malformata
  MaxInserimenti = 1
  OperatoreLento = FALSE
  Esame <- MCEsame
  esame <- MCesame
  Matricola <- MCMatricola
  studente <- MCstudente
  supera = {}
  Data <- MCData
  Oggi <- MCOggi
  AppelliIniziali <- MCAppelli
INVARIANTS
  TypeOK
  DescrittoriDistinti
  SessioneGenuina
  SceltaMaiBloccante
  LineaInPari
  ConfermaRegistrata
  SessioneAperta
  NessunoDimenticato
  AttesaSoloDiTesti
PROPERTIES
  SessioneConclusa
CHECK_DEADLOCK FALSE
