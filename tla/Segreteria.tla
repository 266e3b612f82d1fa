----------------------------- MODULE Segreteria -----------------------------
(***************************************************************************)
(* segreteria.c: one process and one loop.  Every turn accepts and logs in *)
(* the students that wait, serves one request of each student whose        *)
(* descriptor was readable, and then asks the operator at the console what *)
(* to do.  Every read blocks the whole process: an action ends at one.     *)
(*                                                                         *)
(* Variables and arrays carry over from one turn, and from one client, to  *)
(* the next, as they do in main: a read that returns 0 leaves them as they *)
(* were.                                                                   *)
(***************************************************************************)
EXTENDS Rete, Universita

CONSTANTS
  MaxFd,            \* descriptors the process may have open for students
  DimArray,         \* length of client_sockets, 4096 in the code
  Giorni,           \* the dates typed at the console, Vuoto for an empty line
  MaxInserimenti,   \* bound on the appelli the operator inserts
  OperatoreLento    \* TRUE: the date is typed once the server, if it lives, took the name

Fd   == 1..MaxFd
Slot == 1..DimArray
Nessuno == Link     \* a descriptor that is free

ASSUME SegreteriaAssumption ==
  /\ MaxFd \in Nat /\ DimArray \in Nat /\ MaxInserimenti \in Nat
  /\ OperatoreLento \in BOOLEAN
  /\ Giorni \subseteq Data \cup {Malformata, Vuoto}

VARIABLES
  pcG,             \* where the process is blocked
  fdConn,          \* the kernel's table: descriptor -> connection
  client_sockets,  \* the array of [connfd, matricola]
  dim,             \* logins accepted so far
  master_set,      \* the students' descriptors given to select
  read_set,        \* those select found readable
  max_fd,          \* highest of them (the fixed descriptors are lower)
  i,               \* index of the loop over client_sockets
  behaviour, req, seg_cod, seg_mat, password,   \* last values read from students
  inserimenti      \* appelli asked by the operator (bounded)

varsG == <<pcG, fdConn, client_sockets, dim, master_set, read_set, max_fd, i,
           behaviour, req, seg_cod, seg_mat, password, inserimenti>>

StatiG == {"giro", "ancora", "credenziali", "scorri", "req", "nomeEsame", "dati",
           "esito", "menu", "nome", "data", "esitoAppello", "uscita", "finita", "sforata"}

InitG ==
  /\ pcG = "giro"
  /\ fdConn = [f \in Fd |-> Nessuno]
  /\ client_sockets = [k \in Slot |-> [connfd |-> -1, matricola |-> Residuo]]
  /\ dim = 0
  /\ master_set = {} /\ read_set = {} /\ max_fd = 0
  /\ i = 1
  /\ behaviour = Residuo /\ req = Residuo
  /\ seg_cod = Residuo /\ seg_mat = Residuo
  /\ password = Vuoto
  /\ inserimenti = 0

-----------------------------------------------------------------------------
Libero(f) == fdConn[f] = Nessuno
(* Mutant: the descriptors of master_set are taken as readable.            *)
LeggibiliTutti == master_set
(* Mutant: select(max_fd, ...) instead of max_fd + 1.                      *)
LeggibiliSenzaUltimo == {f \in master_set : f < max_fd /\ Pronto(fdConn[f], "server")}
Leggibili == {f \in master_set : f <= max_fd /\ Pronto(fdConn[f], "server")}
Cliente(k) == fdConn[client_sockets[k].connfd]

(* The student the process is blocked on, or serves.                       *)
InCorso == IF pcG = "credenziali" THEN Cliente(dim + 1) ELSE Cliente(i)

(* The names of the variables an action may leave alone.                   *)
varsGiro   == <<fdConn, client_sockets, dim, master_set, read_set, max_fd>>
varsLette  == <<behaviour, req, seg_cod, seg_mat, password>>
varsAltriG == <<inserimenti, appello, prenota>>

(* A reply to the student in course; SIGPIPE is fatal.                     *)
Risponde(voci) ==
  /\ giu' = Messo(giu, InCorso, "server", voci)
  /\ rotto' = Risposta(InCorso, "server", voci)

Dopo(morta, stato) == pcG' = IF morta THEN "uscita" ELSE stato

-----------------------------------------------------------------------------
(* select: of the whole master_set at the beginning of a turn, then only   *)
(* of what the previous select left in read_set.                           *)
Select == read_set' = IF pcG = "giro" THEN Leggibili ELSE read_set \cap Leggibili

Accetta ==
  /\ pcG \in {"giro", "ancora"} /\ coda # <<>> /\ dim < DimArray
  /\ Select
  /\ \E f \in Fd :
       /\ Libero(f) /\ \A g \in Fd : g < f => ~Libero(g)
       /\ fdConn' = [fdConn EXCEPT ![f] = Head(coda)]
       /\ client_sockets' = [client_sockets EXCEPT ![dim + 1].connfd = f]
       /\ master_set' = master_set \cup {f}
       /\ max_fd' = IF max_fd > f THEN max_fd ELSE f
  /\ coda' = Tail(coda)
  /\ pcG' = "credenziali"
  /\ UNCHANGED <<dim, i, varsLette, varsAltriG, su, giu, chiuso, rotto, guasti>>

(* accept fails when no descriptor is left; the connection stays in the    *)
(* backlog, and select finds it again.                                     *)
(* Mutant: the connection is lost.                                         *)
CodaPersa == Tail(coda)
CodaDopoErrore == coda

AccettaFallita ==
  /\ pcG \in {"giro", "ancora"} /\ coda # <<>> /\ dim < DimArray
  /\ \A f \in Fd : ~Libero(f)
  /\ Select
  /\ client_sockets' = [client_sockets EXCEPT ![dim + 1].connfd = -1]
  /\ coda' = CodaDopoErrore
  /\ pcG' = "ancora"
  /\ UNCHANGED <<fdConn, dim, master_set, max_fd, i, varsLette, varsAltriG,
                 su, giu, chiuso, rotto, guasti>>

(* dim only grows: the login after DimArray accepted ones writes past the  *)
(* array, and nothing can be said of the process from there on.            *)
Sfora ==
  /\ pcG \in {"giro", "ancora"} /\ coda # <<>> /\ dim = DimArray
  /\ pcG' = "sforata"
  /\ UNCHANGED <<i, varsGiro, varsLette, varsAltriG, varsRete>>

NessunaAttesa ==
  /\ pcG \in {"giro", "ancora"} /\ coda = <<>>
  /\ Select
  /\ i' = 1
  /\ pcG' = "scorri"
  /\ UNCHANGED <<fdConn, client_sockets, dim, master_set, max_fd, varsLette, varsAltriG,
                 varsRete>>

(* The two reads of a login; at the end of the connection the entry and    *)
(* the password stay as the last login left them.                          *)
(* Mutant: one variable holds the last matricola read, as password does.   *)
CredenzialiDelPrecedente(p) ==
  IF su[p] # <<>> THEN Head(su[p])
  ELSE Credenziali(client_sockets[IF dim > 0 THEN dim ELSE 1].matricola, password)
CredenzialiLette(p) ==
  IF su[p] # <<>> THEN Head(su[p])
  ELSE Credenziali(client_sockets[dim + 1].matricola, password)

(* Mutant: a refusal frees an entry.                                       *)
DopoAccessoIndietro(ok) == IF ok THEN dim + 1 ELSE IF dim > 0 THEN dim - 1 ELSE dim
DopoAccesso(ok) == IF ok THEN dim + 1 ELSE dim

(* A refused student keeps its descriptor: it is neither closed nor taken  *)
(* out of master_set, and the next login overwrites its slot.              *)
Login ==
  LET p  == InCorso
      n  == CredenzialiLette(p).num
      w  == CredenzialiLette(p).pass
      ok == AccessoConsentito(n, w)
  IN
  /\ pcG = "credenziali" /\ Pronto(p, "server")
  /\ su' = Tolto(su, p)
  /\ client_sockets' = [client_sockets EXCEPT ![dim + 1].matricola = n]
  /\ password' = w
  /\ \/ /\ Risponde(<<EsitoAccesso(ok)>>)
        /\ dim' = DopoAccesso(ok)
        /\ Dopo(Sigpipe(p, "server", 1), "ancora")
        /\ NessunGuasto
     \/ /\ Guasto("query")               \* the query fails: mysql_num_rows(NULL)
        /\ pcG' = "uscita"
        /\ UNCHANGED <<dim, giu, rotto>>
  /\ UNCHANGED <<fdConn, master_set, read_set, max_fd, i, behaviour, req, seg_cod, seg_mat,
                 varsAltriG, coda, chiuso>>

-----------------------------------------------------------------------------
(* The loop over the clients.                                              *)
DaServire(k) == client_sockets[k].connfd # -1 /\ client_sockets[k].connfd \in read_set

Salta ==
  /\ pcG = "scorri" /\ i <= dim /\ ~DaServire(i)
  /\ i' = i + 1
  /\ UNCHANGED <<pcG, varsGiro, varsLette, varsAltriG, varsRete>>

(* select finds sockfd writable at every turn: the operator is asked.      *)
FineScorri ==
  /\ pcG = "scorri" /\ i > dim
  /\ pcG' = "menu"
  /\ UNCHANGED <<i, varsGiro, varsLette, varsAltriG, varsRete>>

(* The entry of a student after the logout.                                *)
(* Mutant: connfd is not reset.                                            *)
SloggataSenzaReset(k) == [client_sockets[k] EXCEPT !.matricola = 0]
Sloggata(k) == [connfd |-> -1, matricola |-> 0]

(* The choice of a student, or the one read last when the student is gone. *)
LeggiScelta ==
  LET p == Cliente(i)
      f == client_sockets[i].connfd
      b == IF su[p] # <<>> THEN Head(su[p]).val ELSE behaviour
  IN
  /\ pcG = "scorri" /\ i <= dim /\ DaServire(i) /\ Pronto(p, "server")
  /\ su' = IF b = 2 THEN Messo(Tolto(su, p), Link, "client", <<Scelta(b)>>)
                    ELSE Tolto(su, p)
  /\ behaviour' = b
  /\ \/ /\ b = 1
        /\ pcG' = "req"
        /\ UNCHANGED <<i, fdConn, client_sockets, master_set, chiuso, rotto>>
     \/ /\ b = 2
        /\ rotto' = Risposta(Link, "client", <<Scelta(b)>>)
        /\ Dopo(Sigpipe(Link, "client", 1), "dati")
        /\ UNCHANGED <<i, fdConn, client_sockets, master_set, chiuso>>
     \/ /\ b = 3
        /\ fdConn' = [fdConn EXCEPT ![f] = Nessuno]
        /\ master_set' = master_set \ {f}
        /\ client_sockets' = [client_sockets EXCEPT ![i] = Sloggata(i)]
        /\ chiuso' = [chiuso EXCEPT ![p] = @ \cup {"server"}]
        /\ i' = i + 1
        /\ UNCHANGED <<pcG, rotto>>
     \/ /\ b \notin 1..3
        /\ i' = i + 1
        /\ UNCHANGED <<pcG, fdConn, client_sockets, master_set, chiuso, rotto>>
  /\ UNCHANGED <<dim, read_set, max_fd, req, seg_cod, seg_mat, password, varsAltriG,
                 coda, giu, guasti>>

(* The reply to a view: the number of rows, then three writes a row.  A    *)
(* request that is neither 1 nor 2 runs no query and gets no reply, and    *)
(* so does a query that fails.                                             *)
RispondeRighe(p, righe) ==
  LET quante == IF \E r \in DOMAIN righe : righe[r] > 0 THEN 4 ELSE 1 IN
  \/ /\ Risponde(<<Righe(righe)>>)
     /\ Dopo(Sigpipe(p, "server", quante), "scorri")
     /\ NessunGuasto
  \/ /\ Guasto("query")
     /\ pcG' = "scorri"
     /\ UNCHANGED <<giu, rotto>>

LeggiReq ==
  LET p == Cliente(i)
      r == IF su[p] # <<>> THEN Head(su[p]).val ELSE req
  IN
  /\ pcG = "req" /\ Pronto(p, "server")
  /\ su' = Tolto(su, p)
  /\ req' = r
  /\ \/ /\ r = 1
        /\ RispondeRighe(p, Elenco(client_sockets[i].matricola, Esame))
        /\ i' = i + 1
     \/ /\ r = 2
        /\ pcG' = "nomeEsame"
        /\ UNCHANGED <<i, giu, rotto, guasti>>
     \/ /\ r \notin 1..2
        /\ i' = i + 1
        /\ pcG' = "scorri"
        /\ UNCHANGED <<giu, rotto, guasti>>
  /\ UNCHANGED <<varsGiro, behaviour, seg_cod, seg_mat, password, varsAltriG, coda, chiuso>>

LeggiNome ==
  LET p == Cliente(i)
      x == IF su[p] # <<>> THEN Head(su[p]).nome ELSE Vuoto
  IN
  /\ pcG = "nomeEsame" /\ Pronto(p, "server")
  /\ su' = Tolto(su, p)
  /\ RispondeRighe(p, Elenco(client_sockets[i].matricola, Nominati(x)))
  /\ i' = i + 1
  /\ UNCHANGED <<varsGiro, varsLette, varsAltriG, coda, chiuso>>

(* A booking: the server already has the request; code and matricola go    *)
(* after it as they were read, or as they were left by the last booking.   *)
(* Mutant: the two reads are swapped.                                      *)
DatiScambiati(p) ==
  IF su[p] # <<>> THEN Dati(Head(su[p]).cod, Head(su[p]).num) ELSE Dati(seg_mat, seg_cod)
(* Mutant: the last booking is forwarded.                                  *)
DatiVecchi(p) == Dati(seg_mat, seg_cod)
DatiLetti(p) == IF su[p] # <<>> THEN Head(su[p]) ELSE Dati(seg_mat, seg_cod)

(* Mutant: nothing is forwarded when the student is gone.                  *)
LeggiDatiSeArrivano ==
  LET p == Cliente(i) IN
  /\ pcG = "dati" /\ Pronto(p, "server")
  /\ IF su[p] = <<>>
     THEN pcG' = "scorri" /\ i' = i + 1 /\ UNCHANGED <<su, rotto, seg_cod, seg_mat>>
     ELSE /\ su' = Messo(Tolto(su, p), Link, "client", <<Head(su[p])>>)
          /\ rotto' = Risposta(Link, "client", <<Head(su[p])>>)
          /\ seg_cod' = Head(su[p]).cod /\ seg_mat' = Head(su[p]).num
          /\ Dopo(Sigpipe(Link, "client", 2), "esito") /\ UNCHANGED i
  /\ UNCHANGED <<varsGiro, behaviour, req, password, varsAltriG, coda, giu, chiuso, guasti>>

LeggiDati ==
  LET p == Cliente(i)
      d == DatiLetti(p)
  IN
  /\ pcG = "dati" /\ Pronto(p, "server")
  /\ su' = Messo(Tolto(su, p), Link, "client", <<d>>)
  /\ rotto' = Risposta(Link, "client", <<d>>)
  /\ seg_cod' = d.cod /\ seg_mat' = d.num
  /\ Dopo(Sigpipe(Link, "client", 2), "esito")
  /\ UNCHANGED <<i, varsGiro, behaviour, req, password, varsAltriG, coda, giu, chiuso, guasti>>

(* A read of the answers of the server takes one of them or several; res   *)
(* is cleared for each booking, so it stays empty when read returns 0.     *)
(* Mutant: the read is repeated until something comes.                     *)
EsitoInsistito == giu[Link] # <<>>
EsitoPronto == Pronto(Link, "client")

(* Mutant: only what the server answered is passed on.                     *)
InoltratoSeNonVuoto(x) == IF x.esito = "vuoto" THEN <<>> ELSE <<x>>
Inoltrato(x) == <<x>>

InoltraEsito ==
  LET p == Cliente(i)
      x == IF giu[Link] # <<>> THEN Head(giu[Link]) ELSE Esito("vuoto", seg_mat, seg_cod)
  IN
  /\ pcG = "esito" /\ EsitoPronto
  /\ \E k \in Presi(giu, Link) : giu' = Messo(Senza(giu, Link, k), p, "server", Inoltrato(x))
  /\ rotto' = Risposta(p, "server", Inoltrato(x))
  /\ Dopo(Sigpipe(p, "server", 1), "scorri")
  /\ i' = i + 1
  /\ UNCHANGED <<varsGiro, varsLette, varsAltriG, coda, su, chiuso, guasti>>

-----------------------------------------------------------------------------
(* The console.                                                            *)
Continua ==
  /\ pcG = "menu"
  /\ pcG' = "giro"
  /\ UNCHANGED <<i, varsGiro, varsLette, varsAltriG, varsRete>>

(* A line typed at the console, written to the server.  Of an empty one    *)
(* nothing is written (strlen is 0), and the dialogue goes on.             *)
Digita(voci, stato) ==
  /\ su' = Messo(su, Link, "client", voci)
  /\ rotto' = Risposta(Link, "client", voci)
  /\ Dopo(Sigpipe(Link, "client", 1), stato)
  /\ UNCHANGED <<i, varsGiro, varsLette, appello, prenota, coda, giu, chiuso, guasti>>

NuovoAppello ==
  /\ pcG = "menu" /\ inserimenti < MaxInserimenti
  /\ inserimenti' = inserimenti + 1
  /\ Digita(<<Scelta(1)>>, "nome")

DigitaNomeAppello(x) ==
  /\ pcG = "nome"
  /\ Digita(IF x = Vuoto THEN <<>> ELSE <<Nome(x)>>, "data")
  /\ UNCHANGED inserimenti

DigitaData(d) ==
  /\ pcG = "data"
  /\ OperatoreLento => su[Link] = <<>> \/ Chiusa(Link, "client")
  /\ Digita(IF d = Vuoto THEN <<>> ELSE <<Giorno(d)>>, "esitoAppello")
  /\ UNCHANGED inserimenti

EsitoInserimento ==
  /\ pcG = "esitoAppello" /\ Pronto(Link, "client")
  /\ \E k \in Presi(giu, Link) : giu' = Senza(giu, Link, k)
  /\ pcG' = "giro"
  /\ UNCHANGED <<i, varsGiro, varsLette, inserimenti, appello, prenota,
                 coda, su, chiuso, rotto, guasti>>

-----------------------------------------------------------------------------
(* Fault: the console is closed, the process is killed.                    *)
UccidiSegreteria ==
  /\ pcG \notin {"uscita", "finita", "sforata"}
  /\ pcG' = "uscita"
  /\ Guasto("segreteria")
  /\ UNCHANGED <<i, varsGiro, varsLette, varsAltriG, coda, su, giu, chiuso, rotto>>

(* The kernel closes every socket, and resets what nobody accepted.        *)
Termina ==
  LET aperte == {fdConn[f] : f \in Fd} \cup {coda[k] : k \in 1..Len(coda)}
      capo(c) == IF c = Link THEN "client" ELSE "server"
      cc == (aperte \ {Nessuno}) \cup {Link}
  IN
  /\ pcG = "uscita"
  /\ pcG' = "finita"
  /\ coda' = <<>>
  /\ fdConn' = [f \in Fd |-> Nessuno]
  /\ chiuso' = [c \in Conn |-> IF c \in cc THEN chiuso[c] \cup {capo(c)} ELSE chiuso[c]]
  /\ rotto' = [c \in Conn |-> IF c \in cc /\ Arrivo(c, capo(c)) # <<>>
                              THEN rotto[c] \cup {Altro(capo(c))} ELSE rotto[c]]
  /\ UNCHANGED <<i, client_sockets, dim, master_set, read_set, max_fd, varsLette, varsAltriG,
                 su, giu, guasti>>

(* What the operator types, and what the program does by itself.           *)
Operatore ==
  \/ \E x \in Nomi : DigitaNomeAppello(x)
  \/ \E d \in Giorni : DigitaData(d)

ProgrammaG ==
  \/ Accetta \/ AccettaFallita \/ Sfora \/ NessunaAttesa \/ Login
  \/ Salta \/ FineScorri \/ LeggiScelta \/ LeggiReq \/ LeggiNome
  \/ LeggiDati \/ InoltraEsito
  \/ EsitoInserimento \/ Termina

NextG == Operatore \/ Continua \/ NuovoAppello \/ ProgrammaG \/ UccidiSegreteria
=============================================================================
