------------------------------ MODULE Sistema ------------------------------
(***************************************************************************)
(* The running system: the students, the segreteria and the server, after  *)
(* start.sh has connected the segreteria to the server.  Each process is   *)
(* sequential; their steps interleave, and they share the connections and  *)
(* the database.                                                           *)
(***************************************************************************)
EXTENDS Studente, Segreteria, Server

varsDB == <<appello, prenota>>
vars == <<varsRete, varsDB, varsS, varsG, varsU>>

Init == InitR /\ InitDB /\ InitS /\ InitG /\ InitU

PassoStudente(A)   == A /\ UNCHANGED <<varsDB, varsG, varsU>>
PassoSegreteria(A) == A /\ UNCHANGED <<varsS, varsU>>
PassoServer(A)     == A /\ UNCHANGED <<varsS, varsG>>

Next == PassoStudente(NextS) \/ PassoSegreteria(NextG) \/ PassoServer(NextU)

(* The programs go on as long as they are not blocked.                     *)
EquitaProgrammi ==
  /\ \A p \in Proc : WF_vars(PassoStudente(Programma(p)))
  /\ WF_vars(PassoSegreteria(ProgrammaG))
  /\ WF_vars(PassoServer(ProgrammaU))

(* Whoever sits at the console answers its prompts, sooner or later.       *)
EquitaOperatore ==
  /\ WF_vars(PassoSegreteria(Operatore))
  /\ WF_vars(PassoSegreteria(Continua))

(* So do the students, but at the main menu they may stay forever.         *)
EquitaUtenti == \A p \in Proc : WF_vars(PassoStudente(Utente(p)))

SpecBase == Init /\ [][Next]_vars
SpecProgrammi == SpecBase /\ EquitaProgrammi /\ EquitaOperatore
Spec == SpecProgrammi /\ EquitaUtenti

-----------------------------------------------------------------------------
(* Type invariant.                                                         *)
Int0 == Numeri \cup Codici \cup Scelte \cup Richieste \cup {0, 1, 2, Residuo}
Testi == {"errore", "fk", "ok", "data"}
VociSu ==
  [tipo : {"scelta", "richiesta"}, val : Int0]
    \cup [tipo : {"credenziali"}, num : Numeri, pass : Password]
    \cup [tipo : {"nome"}, nome : Nomi \ {Vuoto}]
    \cup [tipo : {"giorno"}, giorno : Giorni \ {Vuoto}]
    \cup [tipo : {"dati"}, num : Numeri \cup {Residuo}, cod : Codici \cup {Residuo}]
VociGiu ==
  [tipo : {"accesso"}, ok : BOOLEAN]
    \cup [tipo : {"righe"}, righe : [Esame \X Data -> Nat]]
    \cup [tipo : {"esito"}, esito : {"ok", "rifiutata", "errore", "vuoto"},
         num : Numeri \cup {Residuo}, cod : Codici \cup {Residuo}]
    \cup [tipo : {"appello"}, esito : Testi]

TipoRete ==
  /\ coda \in Seq(Proc) /\ Len(coda) <= Backlog + 1
  /\ su \in [Conn -> Seq(VociSu)] /\ giu \in [Conn -> Seq(VociGiu)]
  /\ chiuso \in [Conn -> SUBSET Capi] /\ rotto \in [Conn -> SUBSET Capi]
  /\ guasti \subseteq Guasti /\ Cardinality(guasti) <= MaxGuasti

TipoDB ==
  /\ appello \in [Esame \X Data -> Nat] /\ prenota \in [Matricola \X Esame -> Nat]

TipoStudente ==
  /\ pcS \in [Proc -> StatiS]
  /\ mat \in [Proc -> Numeri \cup {Residuo}] /\ cod \in [Proc -> Codici \cup {Residuo}]
  /\ reqS \in [Proc -> Richieste \cup {Residuo}]
  /\ scelte \in [Proc -> 0..MaxScelte] /\ chieste \in [Numeri \X Codici -> Nat]

TipoSegreteria ==
  /\ pcG \in StatiG
  /\ fdConn \in [Fd -> Proc \cup {Nessuno}]
  /\ client_sockets \in [Slot -> [connfd : Fd \cup {-1}, matricola : Numeri \cup {0, Residuo}]]
  /\ dim \in 0..DimArray /\ i \in 1..(DimArray + 1)
  /\ master_set \subseteq Fd /\ read_set \subseteq Fd /\ max_fd \in 0..MaxFd
  /\ behaviour \in Int0 /\ req \in Int0
  /\ seg_cod \in Codici \cup {Residuo} /\ seg_mat \in Numeri \cup {Residuo}
  /\ password \in Password \cup {Vuoto}
  /\ inserimenti \in 0..MaxInserimenti

TipoServer ==
  /\ pcU \in StatiU /\ connfd \in BOOLEAN /\ nomeEsame \in Nomi \cup {Vuoto}
  /\ id_esame \in Esame \cup {Residuo}
  /\ idU \in Codici \cup {Residuo} /\ matU \in Numeri \cup {Residuo}

(* Every variable keeps to its values: in particular what a process reads  *)
(* is a message of the kind it expects, whatever the other end did.        *)
TypeOK == TipoRete /\ TipoDB /\ TipoStudente /\ TipoSegreteria /\ TipoServer

-----------------------------------------------------------------------------
(* The table of the clients, segreteria.c.                                 *)
Vivo(k) == k \in 1..dim /\ client_sockets[k].connfd # -1 /\ pcG # "finita"

(* Every logged-in student keeps a descriptor and a connection of his own: *)
(* no two live entries share one, and each is in master_set, not above     *)
(* max_fd and open.  Refused logins overwrite entry dim and keep their     *)
(* descriptors, and the kernel gives closed descriptors out again.         *)
DescrittoriDistinti ==
  /\ \A k \in Slot : Vivo(k) =>
       LET f == client_sockets[k].connfd IN
       f \in master_set /\ f <= max_fd /\ fdConn[f] \in Proc
  /\ \A k, h \in Slot : Vivo(k) /\ Vivo(h) /\ k # h =>
       /\ client_sockets[k].connfd # client_sockets[h].connfd
       /\ Cliente(k) # Cliente(h)

(* An entry of the array that logged in holds the number its own student   *)
(* typed, and credentials of the database: a student who went away before  *)
(* sending any is checked against what another one left in the buffers.    *)
SessioneGenuina ==
  \A k \in Slot : Vivo(k) =>
    /\ client_sockets[k].matricola = mat[Cliente(k)]
    /\ \E m \in Matricola : m.num = client_sockets[k].matricola

(* A student who was accepted, and whose connection nobody closed, has a   *)
(* live entry of his own: no refusal, logout, death or lack of descriptors *)
(* takes it from him.  Who goes on to the menu without having been         *)
(* accepted (studente.c:85) has lost the segreteria.                       *)
InSessione == {"menu", "sceltaReq", "digitaNome", "attendeRighe", "digitaCod", "attendeEsito"}
SessioneAperta ==
  \A p \in Proc :
    /\ pcS[p] \in InSessione \/ (pcS[p] = "attendeLogin" /\ giu[p] # <<>> /\ Head(giu[p]).ok)
    /\ "server" \notin chiuso[p]
    => \E k \in Slot : Vivo(k) /\ Cliente(k) = p

(* Whoever waits for an answer is still going to be served, or is served,  *)
(* or has it: what he sent is in the backlog or behind a live entry of his *)
(* own.  Only a view with a request that does not exist, or whose query    *)
(* fails, is dropped.                                                      *)
InServizio(p) == pcG \in {"credenziali", "req", "nomeEsame", "dati", "esito"} /\ InCorso = p
InFila(p) ==
  /\ su[p] # <<>>
  /\ \/ \E k \in 1..Len(coda) : coda[k] = p
     \/ \E k \in Slot : Vivo(k) /\ Cliente(k) = p
NessunoDimenticato ==
  \A p \in Proc : pcS[p] \in Attese =>
    \/ Pronto(p, "client") \/ InServizio(p) \/ InFila(p)
    \/ pcG \in {"uscita", "sforata"}
    \/ pcS[p] = "attendeRighe" /\ (reqS[p] \notin 1..2 \/ "query" \in guasti)

(* The loop over the clients reads only where select found something: the  *)
(* read of a choice never blocks the segreteria, though connections are    *)
(* accepted, refused and closed between select and the read.               *)
SceltaMaiBloccante ==
  pcG = "scorri" /\ i <= dim /\ DaServire(i) => Pronto(Cliente(i), "server")

(* The outcome of a booking goes to the student who asked, who waits for   *)
(* it, and it is about the exam and the matricola he sent.                 *)
EsitoProprio ==
  \A p \in Proc : \A k \in 1..Len(giu[p]) : giu[p][k].tipo = "esito" =>
    /\ pcS[p] \in {"attendeEsito", "uscita", "finito"}
    /\ giu[p][k].num = mat[p] /\ giu[p][k].cod = cod[p]

(* "inoltriamo la richiesta dello studente al server universitario": only  *)
(* bookings that a student sent are made, and each at most once.           *)
PrenotazioniRichieste ==
  \A m \in Matricola, e \in Esame : prenota[<<m, e>>] > 0 =>
    /\ <<m.num, e>> \in Numeri \X Codici
    /\ prenota[<<m, e>>] <= chieste[<<m.num, e>>]

(* A confirmation on its way, or delivered, says the row is in the table.  *)
ConfermaRegistrata ==
  \A c \in Conn : \A k \in 1..Len(giu[c]) :
    giu[c][k].tipo = "esito" /\ giu[c][k].esito = "ok" =>
      prenota[<<Testo(giu[c][k].num), giu[c][k].cod>>] > 0

(* Between two dialogues the connection to the server is empty, and the    *)
(* server, if it lives, waits for a request: a leftover would be the       *)
(* answer to the next one.                                                 *)
LineaInPari ==
  /\ pcG \in {"giro", "ancora", "credenziali", "scorri", "req", "nomeEsame", "menu"}
  /\ pcU \notin {"uscita", "finito"}
  => su[Link] = <<>> /\ giu[Link] = <<>> /\ pcU = "select"

(* Two programs wait for each other when each is in a read and what it     *)
(* reads is what the other would write.                                    *)
AttesaServer ==
  /\ pcG \in {"esito", "esitoAppello"} /\ ~Pronto(Link, "client")
  /\ pcU \in {"select", "nome", "data", "idmat"} /\ ~Pronto(Link, "server")
  /\ connfd
AttesaStudente(p) ==
  /\ pcG \in {"credenziali", "req", "nomeEsame", "dati"} /\ InCorso = p
  /\ ~Pronto(p, "server") /\ pcS[p] \in Attese /\ ~Pronto(p, "client")

(* The segreteria and the server never wait for each other, and neither do *)
(* the segreteria and a student, when nobody types an empty line and the   *)
(* operator waits for the server before the date.                          *)
NessunaAttesaReciproca == ~AttesaServer /\ \A p \in Proc : ~AttesaStudente(p)

(* An empty line is a write of nothing, and two texts may be read as one:  *)
(* the reader then waits for a text that the writer is through with.       *)
TestoMancante == AttesaServer /\ pcG = "esitoAppello" /\ pcU \in {"nome", "data"}
NomeMancante(p) == AttesaStudente(p) /\ pcG = "nomeEsame" /\ pcS[p] = "attendeRighe"

(* Whatever is typed and whatever fails, these are the only ways for two   *)
(* programs to wait for each other: over the name or the date of an        *)
(* appello, or over the name of a view.  Never over a number, a booking or *)
(* an answer.                                                              *)
AttesaSoloDiTesti ==
  /\ AttesaServer => TestoMancante
  /\ \A p \in Proc : AttesaStudente(p) => NomeMancante(p)

(* The refinement of Sportello.  A student's booking is open while he waits *)
(* for its outcome, which is decided as soon as the server answers.        *)
Deciso(p) ==
  IF giu[p] # <<>> THEN Head(giu[p]).esito
  ELSE IF pcG = "esito" /\ Cliente(i) = p /\ giu[Link] # <<>> THEN Head(giu[Link]).esito
  ELSE "attesa"
Prenotazioni ==
  [p \in Proc |-> IF pcS[p] = "attendeEsito" THEN [num |-> mat[p], cod |-> cod[p], esito |-> Deciso(p)]
                  ELSE [num |-> 0, cod |-> 0, esito |-> "nessuna"]]
Banco == INSTANCE Sportello WITH aperte <- Prenotazioni

(* Bookings are decided by the rule, entered once and reported as decided, *)
(* whatever the students do at the same time on the one line to the server.*)
RealizzaSportello == Banco!SpecSportello

(* A login lasts until its own student logs out or goes away: logins that  *)
(* are refused, logouts and deaths of other students never end it, only    *)
(* the end of the segreteria does.                                         *)
SessioneConclusa ==
  [][\A k \in Slot : Vivo(k) /\ (~Vivo(k)' \/ client_sockets'[k] # client_sockets[k]) =>
       pcG' = "finita" \/ pcS[Cliente(k)] \in {"uscita", "finito"}]_vars

(* Until the segreteria closes it, the connection of a student is in one   *)
(* place: once in the backlog, or behind one descriptor.  An accept that   *)
(* fails leaves it in the backlog.                                         *)
Posti(p) == {<<"coda", k>> : k \in {h \in 1..Len(coda) : coda[h] = p}}
              \cup {<<"fd", f>> : f \in {g \in Fd : fdConn[g] = p}}
ConnessioneUnica ==
  \A p \in Proc : Cardinality(Posti(p)) =
    IF pcS[p] = "inizio" \/ "server" \in chiuso[p] \/ ~SegreteriaInAscolto THEN 0 ELSE 1

(* The one way to stop for good: an empty line (segreteria.c:416 and 425,  *)
(* studente.c:147), or a date typed too soon, and nobody dies.             *)
FermiPerUnTesto == <>[](TestoMancante \/ \E p \in Proc : NomeMancante(p))

(* Whoever waits for an answer of the segreteria gets it, or the end of    *)
(* the connection, unless the programs stop for good over a text.          *)
RichiestaServita ==
  (\A p \in Proc : pcS[p] \in Attese ~> pcS[p] \notin Attese) \/ FermiPerUnTesto

(* A student who starts is connected, also when the backlog is full, with  *)
(* the same exception.                                                     *)
ConnessioneAccolta ==
  (\A p \in Proc : pcS[p] = "inizio" ~> pcS[p] # "inizio") \/ FermiPerUnTesto

(* Every turn of the segreteria, and every dialogue of the operator with   *)
(* the server, comes back to the console, unless the process ends or the   *)
(* programs stop for good over a text.                                     *)
ConsoleRaggiunta ==
  (pcG # "menu" ~> pcG \in {"menu", "finita", "sforata"}) \/ FermiPerUnTesto

-----------------------------------------------------------------------------
(* What the comments and the documentation say, and the code does not do:  *)
(* each of these is checked by a run that finds it violated.               *)

(* "Ciclo infinito per effettuare operazioni": students that go away do    *)
(* not end the segreteria.                                                 *)
CicloInfinito == pcG \notin {"uscita", "finita", "sforata"}

(* "non esiste un esame con questo nome!": an appello is only added to an  *)
(* exam that has the name the operator typed.                              *)
AppelloDelNome ==
  [][\A r \in Esame \X Data : appello'[r] # appello[r] => r[1] \in Nominati(nomeEsame)]_vars

(* "(select count(...) from supera s where s.mat_studente = ... and        *)
(* s.id_esame = ...) = 0": nobody books an exam he passed.                 *)
SuperatiEsclusi == \A r \in supera : prenota[r] = 0
=============================================================================
