------------------------------- MODULE Avvio -------------------------------
(***************************************************************************)
(* How the programs start and find each other.  Run k of start.sh launches *)
(* a server, a segreteria and a student; the server takes the next port    *)
(* from porta.txt and listens on it, the segreteria reads the port there,  *)
(* connects, and listens on a fixed port for the students.  The model ends *)
(* where each program enters its loop, apart from the server's accept.     *)
(***************************************************************************)
EXTENDS Integers, Sequences, FiniteSets

CONSTANTS
  Avvii,          \* the runs of start.sh
  PORT_SERVER,    \* the port of the segreteria, 1025 in the code
  Modulo,         \* ports are the numbers below it, 2^16
  Riservate,      \* the ports a user may not bind, 1..1023
  Iniziali,       \* what porta.txt may hold at first
  Pulita,         \* what clean.sh writes in it, 1030
  InOrdine,       \* TRUE: a second is enough for what was launched before
  MaxMorti,       \* bound on the processes that die, or fail to reach the database
  MaxPulizie      \* bound on the runs of clean.sh

ASSUME AvvioAssumption ==
  /\ Avvii \subseteq Nat \ {0}
  /\ PORT_SERVER \in Nat /\ Modulo \in Nat \ {0} /\ Riservate \subseteq Nat
  /\ Iniziali \subseteq {n \in Nat : n >= PORT_SERVER} /\ Pulita \in Nat
  /\ InOrdine \in BOOLEAN /\ MaxMorti \in Nat /\ MaxPulizie \in Nat

VARIABLES
  server, segreteria, studente,   \* run -> where its process is
  portaTxt,    \* the number in porta/porta.txt
  porta,       \* the local of setPorta in the server, then the port it listens on
  portaSeg,    \* what getPorta returned to the segreteria
  attesa,      \* server -> the connections its kernel holds for accept
  connfd,      \* server -> the segreteria it reads from
  linea,       \* segreteria -> the server it connected to
  sportello,   \* student -> the segreteria it connected to
  timeWait,    \* the ports with connections in TIME_WAIT
  morti, pulizie,   \* deaths (and failing databases), runs of clean.sh (bounded)
  corsa,       \* history: two servers were in setPorta at once
  sovrapposti  \* history: a run of start.sh began before another was through

vars == <<server, segreteria, studente, portaTxt, porta, portaSeg, attesa, connfd, linea,
          sportello, timeWait, morti, pulizie, corsa, sovrapposti>>
varsLinee == <<attesa, connfd, linea, sportello>>
varsMondo == <<timeWait, morti, pulizie>>
varsStoria == <<corsa, sovrapposti>>

Nessuno == 0        \* no process: runs are positive
(* interrotto: killed before it wrote the port.                            *)
Spenti == {"fermo", "fallito", "occupata", "interrotto", "morto"}

Init ==
  /\ server = [k \in Avvii |-> "fermo"]
  /\ segreteria = [k \in Avvii |-> "fermo"]
  /\ studente = [k \in Avvii |-> "fermo"]
  /\ portaTxt \in Iniziali
  /\ porta = [k \in Avvii |-> 0] /\ portaSeg = [k \in Avvii |-> 0]
  /\ attesa = [k \in Avvii |-> <<>>]
  /\ connfd = [k \in Avvii |-> Nessuno]
  /\ linea = [k \in Avvii |-> Nessuno]
  /\ sportello = [k \in Avvii |-> Nessuno]
  /\ timeWait = {} /\ morti = 0 /\ pulizie = 0
  /\ corsa = FALSE /\ sovrapposti = FALSE

Htons(n) == n % Modulo
InAscolto(g) == segreteria[g] \in {"ascolta", "attivo"}
Occupata(q) ==
  \/ q \in timeWait
  \/ \E k \in Avvii : server[k] = "attivo" /\ porta[k] = q
  \/ q = PORT_SERVER /\ \E g \in Avvii : InAscolto(g)

-----------------------------------------------------------------------------
(* start.c waits a second after each launch, not for what it launched: the *)
(* script still has to compile.  Pronto: the process is in its loop, or    *)
(* has ended.                                                              *)
Pronto(stato) == stato = "attivo" \/ stato \in Spenti \ {"fermo"}
(* Mutant: the launcher does not wait.                                     *)
DopoAncheSubito(stato) == TRUE
Dopo(stato) == InOrdine => Pronto(stato)

Compiuto(k) == Pronto(server[k]) /\ Pronto(segreteria[k]) /\ Pronto(studente[k])

LanciaServer(k) ==
  /\ server[k] = "fermo"
  /\ server' = [server EXCEPT ![k] = "avviato"]
  /\ sovrapposti' = (sovrapposti \/ \E j \in Avvii : server[j] # "fermo" /\ ~Compiuto(j))
  /\ UNCHANGED <<segreteria, studente, portaTxt, porta, portaSeg, varsLinee, varsMondo, corsa>>

LanciaSegreteria(k) ==
  /\ segreteria[k] = "fermo" /\ Dopo(server[k])
  /\ segreteria' = [segreteria EXCEPT ![k] = "avviato"]
  /\ UNCHANGED <<server, studente, portaTxt, porta, portaSeg, varsLinee, varsMondo, varsStoria>>

LanciaStudente(k) ==
  /\ studente[k] = "fermo" /\ Dopo(segreteria[k])
  /\ studente' = [studente EXCEPT ![k] = "avviato"]
  /\ UNCHANGED <<server, segreteria, portaTxt, porta, portaSeg, varsLinee, varsMondo, varsStoria>>

-----------------------------------------------------------------------------
(* The server.  setPorta reads the file, and writes it only at fclose.     *)
SetPortaLegge(k) ==
  /\ server[k] = "avviato"
  /\ server' = [server EXCEPT ![k] = "setPorta"]
  /\ porta' = [porta EXCEPT ![k] = portaTxt]
  /\ corsa' = (corsa \/ \E j \in Avvii : server[j] = "setPorta")
  /\ UNCHANGED <<segreteria, studente, portaTxt, portaSeg, varsLinee, varsMondo,
                 sovrapposti>>

(* Mutant: the number is not incremented.                                  *)
Stessa(n) == n
Prossima(n) == n + 1

SetPortaScrive(k) ==
  /\ server[k] = "setPorta"
  /\ server' = [server EXCEPT ![k] = "bind"]
  /\ porta' = [porta EXCEPT ![k] = Prossima(porta[k])]
  /\ portaTxt' = Prossima(porta[k])
  /\ UNCHANGED <<segreteria, studente, portaSeg, varsLinee, varsMondo, varsStoria>>

(* bind and listen.  Port 0 lets the kernel pick a port, which nobody gets *)
(* to know: -k stands for it.                                              *)
AscoltaServer(k) ==
  LET q == Htons(porta[k]) IN
  /\ server[k] = "bind"
  /\ \/ /\ q = 0
        /\ server' = [server EXCEPT ![k] = "attivo"]
        /\ porta' = [porta EXCEPT ![k] = -k]
     \/ /\ q \in Riservate
        /\ server' = [server EXCEPT ![k] = "fallito"]
        /\ UNCHANGED porta
     \/ /\ q # 0 /\ q \notin Riservate /\ Occupata(q)
        /\ server' = [server EXCEPT ![k] = "occupata"]
        /\ UNCHANGED porta
     \/ /\ q # 0 /\ q \notin Riservate /\ ~Occupata(q)
        /\ server' = [server EXCEPT ![k] = "attivo"]
        /\ porta' = [porta EXCEPT ![k] = q]
  /\ UNCHANGED <<segreteria, studente, portaTxt, portaSeg, varsLinee, varsMondo, varsStoria>>

(* Every connection that comes takes the place of the one before, whether  *)
(* that one is closed or not.                                              *)
AccettaSegreteria(k) ==
  /\ server[k] = "attivo" /\ attesa[k] # <<>>
  /\ connfd' = [connfd EXCEPT ![k] = Head(attesa[k])]
  /\ attesa' = [attesa EXCEPT ![k] = Tail(@)]
  /\ UNCHANGED <<server, segreteria, studente, portaTxt, porta, portaSeg, linea, sportello,
                 varsMondo, varsStoria>>

-----------------------------------------------------------------------------
(* The segreteria.                                                         *)
GetPorta(k) ==
  /\ segreteria[k] = "avviato"
  /\ segreteria' = [segreteria EXCEPT ![k] = "connect"]
  /\ portaSeg' = [portaSeg EXCEPT ![k] = Htons(portaTxt)]
  /\ UNCHANGED <<server, studente, portaTxt, porta, varsLinee, varsMondo, varsStoria>>

ConnettiSegreteria(k) ==
  /\ segreteria[k] = "connect"
  /\ \/ \E j \in Avvii :
          /\ server[j] = "attivo" /\ porta[j] = portaSeg[k]
          /\ attesa' = [attesa EXCEPT ![j] = Append(@, k)]
          /\ linea' = [linea EXCEPT ![k] = j]
          /\ segreteria' = [segreteria EXCEPT ![k] = "bind"]
     \/ /\ \A j \in Avvii : server[j] = "attivo" => porta[j] # portaSeg[k]
        /\ segreteria' = [segreteria EXCEPT ![k] = "fallito"]
        /\ UNCHANGED <<attesa, linea>>
  /\ UNCHANGED <<server, studente, portaTxt, porta, portaSeg, connfd, sportello, varsMondo, varsStoria>>

(* bind and listen on the fixed port: by now the server holds a connection *)
(* of this process, which may end here.                                    *)
AscoltaSegreteria(k) ==
  /\ segreteria[k] = "bind"
  /\ segreteria' = [segreteria EXCEPT ![k] = IF Occupata(PORT_SERVER) THEN "occupata" ELSE "ascolta"]
  /\ UNCHANGED <<server, studente, portaTxt, porta, portaSeg, varsLinee, varsMondo, varsStoria>>

(* Processes that die, or that the database refuses.                       *)
Muore == morti < MaxMorti /\ morti' = morti + 1

(* mysql_init and mysql_real_connect: the process exits when one of them   *)
(* fails, with students in the backlog of its port, which get a RST.       *)
ConnettiDB(k) ==
  /\ segreteria[k] = "ascolta"
  /\ \/ /\ segreteria' = [segreteria EXCEPT ![k] = "attivo"]
        /\ UNCHANGED morti
     \/ /\ Muore
        /\ segreteria' = [segreteria EXCEPT ![k] = "fallito"]
  /\ UNCHANGED <<server, studente, portaTxt, porta, portaSeg, varsLinee, timeWait, pulizie,
                 varsStoria>>

(* The student: the kernel accepts for whoever listens.                    *)
ConnettiStudente(k) ==
  /\ studente[k] = "avviato"
  /\ \/ \E g \in Avvii :
          /\ InAscolto(g)
          /\ sportello' = [sportello EXCEPT ![k] = g]
          /\ studente' = [studente EXCEPT ![k] = "attivo"]
     \/ /\ \A g \in Avvii : ~InAscolto(g)
        /\ studente' = [studente EXCEPT ![k] = "fallito"]
        /\ UNCHANGED sportello
  /\ UNCHANGED <<server, segreteria, portaTxt, porta, portaSeg, attesa, connfd, linea,
                 varsMondo, varsStoria>>

-----------------------------------------------------------------------------
(* Ends of processes.  A port keeps connections in TIME_WAIT when its side *)
(* closed first a connection it had accepted.                              *)

UccidiServer(k) ==
  /\ server[k] \notin Spenti /\ Muore
  /\ server' = [server EXCEPT ![k] = IF @ \in {"avviato", "setPorta"} THEN "interrotto" ELSE "morto"]
  /\ timeWait' = IF connfd[k] # Nessuno /\ segreteria[connfd[k]] \notin Spenti
                 THEN timeWait \cup {porta[k]} ELSE timeWait
  /\ UNCHANGED <<segreteria, studente, portaTxt, porta, portaSeg, varsLinee, pulizie, varsStoria>>

UccidiSegreteria(k) ==
  /\ segreteria[k] \notin Spenti /\ Muore
  /\ segreteria' = [segreteria EXCEPT ![k] = "morto"]
  /\ \/ UNCHANGED timeWait
     \/ /\ segreteria[k] = "attivo" /\ \E p \in Avvii : studente[p] = "attivo" /\ sportello[p] = k
        /\ timeWait' = timeWait \cup {PORT_SERVER}
  /\ UNCHANGED <<server, studente, portaTxt, porta, portaSeg, varsLinee, pulizie, varsStoria>>

(* A logout: whichever of the two closes first.                            *)
EsciStudente(k) ==
  /\ studente[k] = "attivo"
  /\ studente' = [studente EXCEPT ![k] = "morto"]
  /\ \/ UNCHANGED timeWait
     \/ segreteria[sportello[k]] = "attivo" /\ timeWait' = timeWait \cup {PORT_SERVER}
  /\ UNCHANGED <<server, segreteria, portaTxt, porta, portaSeg, varsLinee, morti, pulizie, varsStoria>>

Scade ==
  /\ timeWait # {}
  /\ timeWait' = {}
  /\ UNCHANGED <<server, segreteria, studente, portaTxt, porta, portaSeg, varsLinee, morti,
                 pulizie, varsStoria>>

Clean ==
  /\ pulizie < MaxPulizie
  /\ pulizie' = pulizie + 1
  /\ portaTxt' = Pulita
  /\ UNCHANGED <<server, segreteria, studente, porta, portaSeg, varsLinee, timeWait, morti, varsStoria>>

-----------------------------------------------------------------------------
(* What goes on by itself once start.sh runs.                              *)
Parte(k) ==
  \/ SetPortaLegge(k) \/ SetPortaScrive(k) \/ AscoltaServer(k) \/ AccettaSegreteria(k)
  \/ LanciaSegreteria(k) \/ GetPorta(k) \/ ConnettiSegreteria(k) \/ AscoltaSegreteria(k)
  \/ ConnettiDB(k)
  \/ LanciaStudente(k) \/ ConnettiStudente(k)

Next ==
  \/ \E k \in Avvii : \/ LanciaServer(k) \/ Parte(k)
                      \/ UccidiServer(k) \/ UccidiSegreteria(k) \/ EsciStudente(k)
  \/ Scade \/ Clean

Spec == Init /\ [][Next]_vars /\ \A k \in Avvii : WF_vars(Parte(k))

-----------------------------------------------------------------------------
(* Nothing went wrong: no death, no clean.sh, no overlap of two runs.      *)
Tranquillo == morti = 0 /\ pulizie = 0 /\ ~sovrapposti

(* Mutual exclusion in setPorta, and a file that only grows, within range. *)
PorteInOrdine == ~corsa /\ pulizie = 0 /\ portaTxt < Modulo

(* "funzione per impostare la porta lato server (evita errori del tipo     *)
(* bind: address already in use)", wrapper.h: however servers die and are  *)
(* started again, bind finds its port free, unless two of them were in     *)
(* setPorta at once, clean.sh set the number back or the numbers ran out.  *)
PortaLibera == PorteInOrdine => \A k \in Avvii : server[k] # "occupata"

(* A segreteria has the attention of the server it connected to, or will   *)
(* have it.                                                                *)
HaLinea(g) ==
  LET j == linea[g] IN
  j # Nessuno /\ (connfd[j] = g \/ \E n \in 1..Len(attesa[j]) : attesa[j][n] = g)

(* "in modo che il server possa servire una nuova connessione, quindi un   *)
(* nuovo client, dopo averne terminata una", server.c:75-77: a segreteria  *)
(* that is running is not given up for another.  Whoever connects to the   *)
(* same server takes its place (accept overwrites connfd, server.c:108).   *)
LineaDelServer ==
  \A g \in Avvii :
    segreteria[g] \in {"bind", "ascolta", "attivo"} /\ server[linea[g]] = "attivo" => HaLinea(g)

(* Runs of start.sh keep to a server each, so that the segreteria of one   *)
(* never takes the line of another's, unless they overlap, clean.sh sets   *)
(* the number back, a server killed in setPorta left the port of the one   *)
(* before in the file, or the numbers ran out: after 2^16 of them a server *)
(* that finds its port taken leaves its segreteria to the one that has it. *)
LineaMantenuta ==
  \/ sovrapposti \/ pulizie > 0 \/ \E k \in Avvii : server[k] = "interrotto"
  \/ portaTxt >= Modulo
  \/ LineaDelServer

(* Every run of start.sh connects its student to a segreteria that its     *)
(* server listens to, unless something went wrong or the port numbers ran  *)
(* out (wrapper.c:124 never goes back, htons keeps 16 bits).               *)
StudenteCollegato ==
  \A k \in Avvii : server[k] = "avviato" ~>
    \/ ~Tranquillo \/ portaTxt >= Modulo
    \/ studente[k] = "attivo" /\ segreteria[sportello[k]] = "attivo" /\ HaLinea(sportello[k])
=============================================================================
