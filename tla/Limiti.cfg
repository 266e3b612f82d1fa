SPECIFICATION SpecBase
CONSTANTS
  Proc = {p1, p2, p3}
  Link = Link
  Backlog = 1
  Guasti = {}
  MaxGuasti = 0
  Numeri <- MCNumeri
  Password <- MCPassword
  Codici = {10, 11}
  Nomi = {"prog1"}
  Vuoto = Vuoto
  Residuo = 99
  Scelte = {1, 2, 3}
  Richieste = {1, 2}
  MaxScelte = 0
  MaxFd = 2
  DimArray = 2
  Giorni <- MCData
  Malformata = Malformata
  MaxInserimenti = 0
  OperatoreLento = TRUE
  Esame <- MCEsame
  esame <- MCesame
  Matricola <- MCMatricola
  studente <- MCstudente
  supera = {}
  Data <- MCData
  Oggi <- MCOggi
  AppelliIniziali <- MCAppelli
INVARIANTS
  DescrittoriDistinti
  SessioneAperta
  ConnessioneUnica
CHECK_DEADLOCK FALSE
