----------------------------- MODULE Universita -----------------------------
(***************************************************************************)
(* The MySQL schema "universita" (sql/ddl.sql) and the queries that        *)
(* segreteria.c and server.c send to it.  Two tables are written by the    *)
(* program and are variables; the others are only read and are constants.  *)
(*                                                                         *)
(* The tables without a primary key may hold the same row more than once,  *)
(* so they are bags: a function from rows to the number of copies.         *)
(***************************************************************************)
EXTENDS Integers, FiniteSets

CONSTANTS
  Esame,            \* the identifiers in table esame, ints
  esame,            \* Esame -> [nome, anno]
  Matricola,        \* the texts stored in studente.mat_studente
  studente,         \* Matricola -> [password, anno]
  supera,           \* the pairs <<mat_studente, id_esame>> of table supera
  Data,             \* the dates of appelli, as day numbers
  Malformata,       \* a text STR_TO_DATE refuses
  Oggi,             \* sysdate()
  AppelliIniziali   \* the initial contents of table appello

(* A varchar matricola is a decimal text, which may have leading zeros     *)
(* ('0124000001' is in the sample data): how many zeros, and its value.    *)
Testo(n) == [zeri |-> 0, num |-> n]     \* what snprintf's '%d' makes of an int

ASSUME UniversitaAssumption ==
  /\ IsFiniteSet(Esame) /\ IsFiniteSet(Matricola) /\ Esame \subseteq Nat
  /\ Data \subseteq Nat /\ Oggi \in Nat /\ Malformata \notin Data
  /\ Matricola \subseteq [zeri : Nat, num : Nat]
  /\ DOMAIN esame = Esame /\ \A e \in Esame : esame[e].anno \in 1..3
  /\ DOMAIN studente = Matricola /\ \A m \in Matricola : studente[m].anno \in 1..3
  /\ supera \subseteq Matricola \X Esame
  /\ AppelliIniziali \in [Esame \X Data -> Nat]

VARIABLES
  appello,    \* table appello: the bag of rows <<id_esame, data_appello>>
  prenota     \* table prenota: the bag of rows <<mat_studente, id_esame>>

(* prenota counts the bookings made from here on: no query reads the table.*)
InitDB ==
  /\ appello = AppelliIniziali
  /\ prenota = [r \in Matricola \X Esame |-> 0]

(* Mutant: the statement is executed twice.                                *)
InserisciDoppio(tabella, riga) == [tabella EXCEPT ![riga] = @ + 2]
Inserisci(tabella, riga) == [tabella EXCEPT ![riga] = @ + 1]

-----------------------------------------------------------------------------
(* Login: the int is compared with the varchar column without quotes, so   *)
(* MySQL compares numbers and leading zeros do not count.                  *)
AccessoConsentito(n, w) ==
  Cardinality({m \in Matricola : m.num = n /\ studente[m].password = w}) = 1

(* View: the int is quoted, so MySQL compares texts.  When no studente has *)
(* that text the subquery is NULL and no row passes the comparison.        *)
Elenco(n, esami) ==
  [r \in Esame \X Data |->
     IF /\ r[1] \in esami
        /\ Testo(n) \in Matricola
        /\ esame[r[1]].anno <= studente[Testo(n)].anno
     THEN appello[r] ELSE 0]

Nominati(nome) == {e \in Esame : esame[e].nome = nome}

(* Booking: the query joins esame e without tying e.id_esame to the        *)
(* appello, so the year is compared with that of any exam.  Its last two   *)
(* arguments are swapped: it looks in supera for a student whose matricola *)
(* is the code of the exam.                                                *)
DateFuture(e) == {d \in Data : d > Oggi /\ appello[<<e, d>>] > 0}

(* Mutant: a student of the year of the exam is refused.                   *)
PrenotabileDallAnnoDopo(n, e) ==
  /\ e \in Esame
  /\ DateFuture(e) # {}
  /\ Testo(n) \in Matricola
  /\ \E x \in Esame : studente[Testo(n)].anno > esame[x].anno
  /\ <<Testo(e), n>> \notin supera
Prenotabile(n, e) ==
  /\ e \in Esame
  /\ DateFuture(e) # {}
  /\ Testo(n) \in Matricola
  /\ \E x \in Esame : studente[Testo(n)].anno >= esame[x].anno
  /\ <<Testo(e), n>> \notin supera
=============================================================================
