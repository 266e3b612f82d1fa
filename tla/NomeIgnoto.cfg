SPECIFICATION Spec
CONSTANTS
  Proc = {p1}
  Link = Link
  Backlog = 1
  Guasti = {}
  MaxGuasti = 0
  Numeri = {5}
  Password = {"w5"}
  Codici = {10}
  Nomi = {"prog1", "ignoto"}
  Vuoto = Vuoto
  Residuo = 99
  Scelte = {3}
  Richieste = {1}
  MaxScelte = 1
  MaxFd = 2
  DimArray = 3
  Giorni = {3}
  Malformata = Malformata
  MaxInserimenti = 2
  OperatoreLento = TRUE
  Esame <- MCEsame
  esame <- MCesame
  Matricola <- MCMatricola
  studente <- MCstudente
  supera = {}
  Data <- MCData
  Oggi <- MCOggi
  AppelliIniziali <- MCAppelli
PROPERTIES
  AppelloDelNome
CHECK_DEADLOCK FALSE
