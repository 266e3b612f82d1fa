------------------------------- MODULE Server -------------------------------
(***************************************************************************)
(* server.c: the university server, one process that serves the requests   *)
(* of the segreteria one at a time.  A handler keeps to the order of the   *)
(* reads; the query and the insertion that follow the last read do not     *)
(* block and belong to it.                                                 *)
(***************************************************************************)
EXTENDS Rete, Universita

VARIABLES
  pcU,        \* where the process is blocked
  connfd,     \* the segreteria's connection was accepted (connfd > -1)
  nomeEsame,  \* the name read for the insertion in course
  id_esame,   \* the uninitialised local of aggiungiAppello, as last left
  idU, matU   \* the uninitialised locals of aggiungiPrenotazione, as last left

varsU == <<pcU, connfd, nomeEsame, id_esame, idU, matU>>

StatiU == {"select", "nome", "data", "idmat", "uscita", "finito"}

InitU ==
  /\ pcU = "select"
  /\ connfd = FALSE
  /\ nomeEsame = Vuoto
  /\ id_esame = Residuo /\ idU = Residuo /\ matU = Residuo

-----------------------------------------------------------------------------
AccettaSegreteria ==
  /\ pcU = "select" /\ ~connfd
  /\ connfd' = TRUE
  /\ UNCHANGED <<pcU, nomeEsame, id_esame, idU, matU, appello, prenota, varsRete>>

(* A read that returns 0 is ignored, and so is a request that is not 1     *)
(* nor 2.  connfd stays as it is: the next select finds it readable again. *)
LeggiRichiesta ==
  /\ pcU = "select" /\ connfd /\ Pronto(Link, "server")
  /\ su' = Tolto(su, Link)
  /\ pcU' = IF su[Link] = <<>> THEN "select"
            ELSE CASE Head(su[Link]).val = 1 -> "nome"
                   [] Head(su[Link]).val = 2 -> "idmat"
                   [] OTHER -> "select"
  /\ UNCHANGED <<connfd, nomeEsame, id_esame, idU, matU, appello, prenota,
                 coda, giu, chiuso, rotto, guasti>>

(* One read takes whatever has come: the name, or, when the date came      *)
(* before the read, the two texts as one, which names no exam.             *)
LeggiNomeEsame ==
  /\ pcU = "nome" /\ Pronto(Link, "server")
  /\ \E k \in Presi(su, Link) :
       /\ su' = Senza(su, Link, k)
       /\ nomeEsame' = IF k = 1 /\ Head(su[Link]).tipo = "nome" THEN Head(su[Link]).nome ELSE Vuoto
  /\ pcU' = "data"
  /\ UNCHANGED <<connfd, id_esame, idU, matU, appello, prenota, coda, giu, chiuso, rotto, guasti>>

(* An answer to the segreteria in k writes, then back to select.           *)
(* Mutant: a refusal is followed by the text of another error.             *)
ReplicaDoppia(voci) ==
  LET tutte == IF voci[1].esito = "rifiutata" THEN voci \o voci ELSE voci IN
  /\ giu' = Messo(giu, Link, "server", tutte)
  /\ rotto' = Risposta(Link, "server", tutte)
  /\ pcU' = "select"
(* Mutant: only a failure is answered.                                     *)
ReplicaSoloErrori(voci) ==
  LET tutte == IF voci[1].esito = "ok" THEN <<>> ELSE voci IN
  /\ giu' = Messo(giu, Link, "server", tutte)
  /\ rotto' = Risposta(Link, "server", tutte)
  /\ pcU' = "select"
Replica(voci) ==
  /\ giu' = Messo(giu, Link, "server", voci)
  /\ rotto' = Risposta(Link, "server", voci)
  /\ pcU' = IF Sigpipe(Link, "server", Len(voci)) THEN "uscita" ELSE "select"

(* Exams with the same name leave in id_esame whichever row comes last; a  *)
(* name without exam leaves what the stack held.                           *)
IdDelNome == IF Nominati(nomeEsame) # {} THEN Nominati(nomeEsame) ELSE {id_esame, Residuo}

AggiungiAppello ==
  LET d == IF su[Link] # <<>> THEN Head(su[Link]).giorno ELSE Malformata IN
  /\ pcU = "data" /\ Pronto(Link, "server")
  /\ su' = Tolto(su, Link)
  /\ \/ \E id \in IdDelNome :
          LET x == IF d \notin Data THEN "data" ELSE IF id \in Esame THEN "ok" ELSE "fk" IN
          /\ id_esame' = id
          /\ appello' = IF x = "ok" THEN Inserisci(appello, <<id, d>>) ELSE appello
          /\ Replica(<<EsitoAppello(x)>>)
          /\ NessunGuasto
     \/ /\ Guasto("query")               \* the insertion fails
        /\ id_esame' \in IdDelNome
        /\ Replica(<<EsitoAppello("errore")>>)
        /\ UNCHANGED appello
     \/ /\ Guasto("query")               \* the query fails: mysql_fetch_row(NULL)
        /\ pcU' = "uscita"
        /\ UNCHANGED <<id_esame, appello, giu, rotto>>
  /\ nomeEsame' = Vuoto
  /\ UNCHANGED <<connfd, idU, matU, prenota, coda, chiuso>>

(* Mutant: the outcome of the insertion is not looked at.                  *)
FallitaIgnorata(n, e) == Esito("ok", n, e)
Fallita(n, e) == Esito("errore", n, e)

(* read gives id and mat a value, or they keep what the stack held.        *)
AggiungiPrenotazione ==
  /\ pcU = "idmat" /\ Pronto(Link, "server")
  /\ su' = Tolto(su, Link)
  /\ IF su[Link] # <<>>
     THEN idU' = Head(su[Link]).cod /\ matU' = Head(su[Link]).num
     ELSE idU' \in {idU, Residuo} /\ matU' \in {matU, Residuo}
  /\ \/ /\ Prenotabile(matU', idU')
        /\ prenota' = Inserisci(prenota, <<Testo(matU'), idU'>>)
        /\ Replica(<<Esito("ok", matU', idU')>>)
        /\ NessunGuasto
     \/ /\ ~Prenotabile(matU', idU')
        /\ Replica(<<Esito("rifiutata", matU', idU')>>)
        /\ NessunGuasto
        /\ UNCHANGED prenota
     \/ /\ Prenotabile(matU', idU')        \* the insertion fails
        /\ Replica(<<Fallita(matU', idU')>>)
        /\ Guasto("query")
        /\ UNCHANGED prenota
     \/ /\ Guasto("query")               \* the query fails: mysql_num_rows(NULL)
        /\ LET e == Fallita(matU', idU') IN
             /\ giu' = Messo(giu, Link, "server", <<e, e>>)
             /\ rotto' = Risposta(Link, "server", <<e, e>>)
        /\ pcU' = "uscita"
        /\ UNCHANGED prenota
  /\ UNCHANGED <<connfd, nomeEsame, id_esame, appello, coda, chiuso>>

-----------------------------------------------------------------------------
(* Fault: the process is killed.                                           *)
UccidiServer ==
  /\ pcU \notin {"uscita", "finito"}
  /\ pcU' = "uscita"
  /\ Guasto("server")
  /\ UNCHANGED <<connfd, nomeEsame, id_esame, idU, matU, appello, prenota,
                 coda, su, giu, chiuso, rotto>>

TerminaServer ==
  /\ pcU = "uscita"
  /\ pcU' = "finito"
  /\ Chiudi({Link}, "server")
  /\ UNCHANGED <<connfd, nomeEsame, id_esame, idU, matU, appello, prenota,
                 coda, su, giu, guasti>>

ProgrammaU ==
  AccettaSegreteria \/ LeggiRichiesta \/ LeggiNomeEsame \/ AggiungiAppello
    \/ AggiungiPrenotazione \/ TerminaServer

NextU == ProgrammaU \/ UccidiServer
=============================================================================
