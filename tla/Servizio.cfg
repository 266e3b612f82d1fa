SPECIFICATION SpecBase
CONSTANTS
  Proc = {p1, p2}
  Link = Link
  Backlog = 1
  Guasti = {}
  MaxGuasti = 0
  Numeri <- MCNumeri
  Password <- MCPassword
  Codici = {10, 11}
  Nomi = {"prog1"}
  Vuoto = Vuoto
  Residuo = 99
  Scelte = {1, 2, 3}
  Richieste = {1, 2}
  MaxScelte = 1
  MaxFd = 2
  DimArray = 3
  Giorni <- MCData
  Malformata = Malformata
  MaxInserimenti = 1
  OperatoreLento = TRUE
  Esame <- MCEsame
  esame <- MCesame
  Matricola <- MCMatricola
  studente <- MCstudente
  supera <- MCsupera
  Data <- MCData
  Oggi <- MCOggi
  AppelliIniziali <- MCAppelli
INVARIANTS
  TypeOK
  EsitoProprio
  PrenotazioniRichieste
  LineaInPari
  NessunaAttesaReciproca
PROPERTIES
  RealizzaSportello
