SPECIFICATION SpecBase
CONSTANTS
  Proc = {p1}
  Link = Link
  Backlog = 1
  Guasti = {}
  MaxGuasti = 0
  Numeri = {5}
  Password = {"w5"}
  Codici = {10}
  Nomi = {"prog1"}
  Vuoto = Vuoto
  Residuo = 99
  Scelte = {1, 2, 3}
  Richieste = {1}
  MaxScelte = 1
  MaxFd = 2
  DimArray = 3
  Giorni = {3}
  Malformata = Malformata
  MaxInserimenti = 0
  OperatoreLento = TRUE
  Esame <- MCEsame
  esame <- MCesame
  Matricola <- MCMatricola
  studente <- MCstudente
  supera <- MCsupera
  Data <- MCData
  Oggi <- MCOggi
  AppelliIniziali <- MCAppelli
INVARIANTS
  SuperatiEsclusi
CHECK_DEADLOCK FALSE
