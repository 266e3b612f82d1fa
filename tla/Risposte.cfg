SPECIFICATION Spec
CONSTANTS
  Proc = {p1, p2}
  Link = Link
  Backlog = 0
  Guasti = {"studente", "server"}
  MaxGuasti = 1
  Numeri = {5}
  Password = {"w5"}
  Codici = {10}
  Nomi = {"prog1", Vuoto}
  Vuoto = Vuoto
  Residuo = 99
  Scelte = {1, 2}
  Richieste = {2}
  MaxScelte = 1
  MaxFd = 2
  DimArray = 3
  Giorni = {3, Vuoto}
  Malformata = Malformata
  MaxInserimenti = 1
  OperatoreLento = TRUE
  Esame <- MCEsame
  esame <- MCesame
  Matricola <- MCMatricola
  studente <- MCstudente
  supera = {}
  Data <- MCData
  Oggi <- MCOggi
  AppelliIniziali <- MCAppelli
PROPERTIES
  RichiestaServita
  ConnessioneAccolta
  ConsoleRaggiunta
CHECK_DEADLOCK FALSE
