-------------------------------- MODULE Rete --------------------------------
(***************************************************************************)
(* The TCP connections of the system and what read, write and close do on  *)
(* them.  Every student process opens one connection to the segreteria and *)
(* the segreteria opens one, Link, to the server.  A connection has a      *)
(* "client" end, which called connect, and a "server" end; su carries the  *)
(* client's writes, giu the server's.  A stream holds what was written and *)
(* not yet read, one element for the writes a process makes in a row       *)
(* without blocking in between.                                            *)
(***************************************************************************)
EXTENDS Integers, Sequences, FiniteSets

CONSTANTS
  Proc,        \* the student processes
  Link,        \* the connection from the segreteria to the server
  Backlog,     \* the second argument of listen()
  Guasti,      \* the faults that may happen: who is killed, or "query"
  MaxGuasti,   \* bound on their number
  Numeri,      \* the ints users type as matricola
  Password,    \* the passwords users type
  Codici,      \* the exam codes users type to book
  Nomi,        \* the exam names people type
  Vuoto,       \* the empty line: its strlen is 0 and write sends nothing
  Residuo      \* the int an uninitialised variable happens to hold

ASSUME ReteAssumption ==
  /\ Link \notin Proc /\ Backlog \in Nat /\ MaxGuasti \in Nat
  /\ Guasti \subseteq {"studente", "segreteria", "server", "query"}
  /\ Numeri \subseteq Nat /\ Codici \subseteq Int
  /\ Residuo \in Int \ (Numeri \cup Codici)

VARIABLES
  coda,     \* connections the segreteria's kernel holds for accept
  su,       \* Conn -> the client's writes still to be read
  giu,      \* Conn -> the server's writes still to be read
  chiuso,   \* Conn -> the ends that were closed
  rotto,    \* Conn -> the ends that were told, by a RST, that the other is gone
  guasti    \* the kinds of fault that happened

varsRete == <<coda, su, giu, chiuso, rotto, guasti>>

Conn  == Proc \cup {Link}
Capi  == {"client", "server"}
Altro(capo) == IF capo = "client" THEN "server" ELSE "client"

InitR ==
  /\ coda = <<>>
  /\ su = [c \in Conn |-> <<>>]
  /\ giu = [c \in Conn |-> <<>>]
  /\ chiuso = [c \in Conn |-> {}]
  /\ rotto = [c \in Conn |-> {}]
  /\ guasti = {}

(* The items of the streams.  An item names what was written, and a reply  *)
(* the request it answers; the bytes do not: the properties compare the    *)
(* two, and a read takes the fields it expects, whatever the item is.      *)
Scelta(k)         == [tipo |-> "scelta", val |-> k]
Richiesta(r)      == [tipo |-> "richiesta", val |-> r]
Credenziali(n, w) == [tipo |-> "credenziali", num |-> n, pass |-> w]
Nome(x)           == [tipo |-> "nome", nome |-> x]
Giorno(d)         == [tipo |-> "giorno", giorno |-> d]
Dati(n, e)        == [tipo |-> "dati", num |-> n, cod |-> e]
EsitoAccesso(b)   == [tipo |-> "accesso", ok |-> b]
Righe(r)          == [tipo |-> "righe", righe |-> r]
Esito(x, n, e)    == [tipo |-> "esito", esito |-> x, num |-> n, cod |-> e]
EsitoAppello(x)   == [tipo |-> "appello", esito |-> x]

Guasto(quale) ==
  quale \in Guasti \ guasti /\ Cardinality(guasti) < MaxGuasti /\ guasti' = guasti \cup {quale}
NessunGuasto == UNCHANGED guasti

-----------------------------------------------------------------------------
(* What an end can read, and whether a read returns at once: with data, or *)
(* with 0 because the other end was closed.                                *)
Arrivo(c, capo) == IF capo = "client" THEN giu[c] ELSE su[c]
Chiusa(c, capo) == Altro(capo) \in chiuso[c]
Pronto(c, capo) == Arrivo(c, capo) # <<>> \/ Chiusa(c, capo)

(* The stream after a read.  A read of a closed connection takes nothing   *)
(* and leaves the buffer of the caller as it was: no caller looks at the   *)
(* value read returns, apart from the server's read of a request.          *)
Tolto(flusso, c) ==
  [flusso EXCEPT ![c] = IF @ = <<>> THEN @ ELSE Tail(@)]

(* A read into a buffer larger than a message takes whatever has come: k   *)
(* messages, as one.                                                       *)
Presi(flusso, c) == IF flusso[c] = <<>> THEN {0} ELSE 1..Len(flusso[c])
Senza(flusso, c, k) == [flusso EXCEPT ![c] = SubSeq(@, k + 1, Len(@))]

(* The stream after a write, and the RST which answers it when the other   *)
(* end was closed.                                                         *)
Messo(flusso, c, capo, voci) ==
  [flusso EXCEPT ![c] = IF Chiusa(c, capo) THEN @ ELSE @ \o voci]
Risposta(c, capo, voci) ==
  [rotto EXCEPT ![c] = IF Chiusa(c, capo) /\ voci # <<>> THEN @ \cup {capo} ELSE @]

(* A write after the RST raises SIGPIPE, which no process handles: of k    *)
(* writes in a row to a closed connection the second one is fatal, and the *)
(* first one too when the RST came with an earlier write.                  *)
Sigpipe(c, capo, k) == Chiusa(c, capo) /\ (capo \in rotto[c] \/ k > 1)

(* Closing an end; unread data makes the kernel send a RST.                *)
Chiudi(cc, capo) ==
  /\ chiuso' = [c \in Conn |-> IF c \in cc THEN chiuso[c] \cup {capo} ELSE chiuso[c]]
  /\ rotto' = [c \in Conn |-> IF c \in cc /\ Arrivo(c, capo) # <<>>
                              THEN rotto[c] \cup {Altro(capo)} ELSE rotto[c]]

SegreteriaInAscolto == "client" \notin chiuso[Link]
=============================================================================
