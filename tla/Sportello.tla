----------------------------- MODULE Sportello -----------------------------
(***************************************************************************)
(* What the service promises to the students who book, with no processes   *)
(* and no connections: a booking that was asked for is decided once,       *)
(* entered once if it is accepted, and the outcome that was decided is the *)
(* one the student gets.  Sistema implements it.                           *)
(***************************************************************************)
EXTENDS Universita

CONSTANTS
  Proc,      \* the students
  Numeri,    \* the ints they send as matricola
  Codici     \* the exam codes they send

VARIABLE
  aperte     \* Proc -> the booking the student waits for, or Nessuna

Nessuna == [num |-> 0, cod |-> 0, esito |-> "nessuna"]
Chiesta(n, e, x) == [num |-> n, cod |-> e, esito |-> x]

varsSportello == <<appello, prenota, aperte>>

(* Who must be let in: the exam has a date to come and is not of a later   *)
(* year than the student, who has not passed it.                           *)
Diritto(n, e) ==
  /\ e \in Esame /\ DateFuture(e) # {}
  /\ Testo(n) \in Matricola /\ esame[e].anno <= studente[Testo(n)].anno
  /\ <<Testo(n), e>> \notin supera

(* Who may be let in at most: between this and Diritto are the years and   *)
(* the passed exams that the query does not look at.                       *)
Possibile(n, e) == e \in Esame /\ DateFuture(e) # {} /\ Testo(n) \in Matricola

InitSportello == InitDB /\ aperte = [p \in Proc |-> Nessuna]

Chiedi(p, n, e) ==
  /\ aperte[p] = Nessuna
  /\ aperte' = [aperte EXCEPT ![p] = Chiesta(n, e, "attesa")]
  /\ UNCHANGED <<appello, prenota>>

Accetta(p) ==
  LET r == aperte[p] IN
  /\ r.esito = "attesa" /\ Possibile(r.num, r.cod)
  /\ prenota' = Inserisci(prenota, <<Testo(r.num), r.cod>>)
  /\ aperte' = [aperte EXCEPT ![p].esito = "ok"]
  /\ UNCHANGED appello

Rifiuta(p) ==
  LET r == aperte[p] IN
  /\ r.esito = "attesa" /\ ~Diritto(r.num, r.cod)
  /\ aperte' = [aperte EXCEPT ![p].esito = "rifiutata"]
  /\ UNCHANGED <<appello, prenota>>

Consegna(p) ==
  /\ aperte[p].esito \in {"ok", "rifiutata"}
  /\ aperte' = [aperte EXCEPT ![p] = Nessuna]
  /\ UNCHANGED <<appello, prenota>>

AppelloAggiunto(e, d) ==
  /\ appello' = Inserisci(appello, <<e, d>>)
  /\ UNCHANGED <<prenota, aperte>>

NextSportello ==
  \/ \E p \in Proc : \/ \E n \in Numeri, e \in Codici : Chiedi(p, n, e)
                     \/ Accetta(p) \/ Rifiuta(p) \/ Consegna(p)
  \/ \E e \in Esame, d \in Data : AppelloAggiunto(e, d)

SpecSportello == InitSportello /\ [][NextSportello]_varsSportello
=============================================================================
