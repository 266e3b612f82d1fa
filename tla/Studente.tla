------------------------------ MODULE Studente ------------------------------
(***************************************************************************)
(* studente.c: one process per student.  It connects to the segreteria,    *)
(* sends the credentials the user types, and then serves a menu until the  *)
(* user logs out.  An action ends where the program blocks: at a prompt or *)
(* in a read of the socket.                                                *)
(***************************************************************************)
EXTENDS Rete

CONSTANTS
  Scelte,          \* the ints users type at the main menu
  Richieste,       \* the ints users type at the menu of the view
  MaxScelte        \* bound on the choices of one user, logout apart

ASSUME StudenteAssumption ==
  Scelte \subseteq Int /\ Richieste \subseteq Int /\ MaxScelte \in Nat

VARIABLES
  pcS,       \* where each process is blocked
  mat,       \* the matricola it read from its user
  cod,       \* the code of its last booking
  reqS,      \* req: the last choice at the menu of the view
  scelte,    \* choices made so far (bounded by MaxScelte)
  chieste    \* history: bookings asked, <<mat, cod>> -> how many

varsS == <<pcS, mat, cod, reqS, scelte, chieste>>

StatiS == {"inizio", "login", "attendeLogin", "menu", "sceltaReq", "digitaNome",
           "attendeRighe", "digitaCod", "attendeEsito", "uscita", "finito"}
Attese == {"attendeLogin", "attendeRighe", "attendeEsito"}

InitS ==
  /\ pcS = [p \in Proc |-> "inizio"]
  /\ mat = [p \in Proc |-> Residuo]
  /\ cod = [p \in Proc |-> Residuo]
  /\ reqS = [p \in Proc |-> Residuo]
  /\ scelte = [p \in Proc |-> 0]
  /\ chieste = [r \in Numeri \X Codici |-> 0]

Vai(p, stato) == pcS' = [pcS EXCEPT ![p] = stato]

(* k writes in a row, then block at stato; SIGPIPE ends the process.       *)
Scrive(p, voci, k, stato) ==
  /\ su' = Messo(su, p, "client", voci)
  /\ rotto' = Risposta(p, "client", voci)
  /\ Vai(p, IF Sigpipe(p, "client", k) THEN "uscita" ELSE stato)
  /\ UNCHANGED <<coda, giu, chiuso, guasti>>

(* A blocking read, then block at stato.                                   *)
Legge(p, stato) ==
  /\ Pronto(p, "client")
  /\ giu' = Tolto(giu, p)
  /\ Vai(p, stato)
  /\ UNCHANGED <<coda, su, chiuso, rotto, guasti>>

-----------------------------------------------------------------------------
(* socket, connect.  The kernel completes a connection that fits in the    *)
(* backlog before the segreteria accepts it; nobody listens once the       *)
(* segreteria is gone, and connect fails.                                  *)
Connetti(p) ==
  /\ pcS[p] = "inizio"
  /\ \/ /\ SegreteriaInAscolto /\ Len(coda) <= Backlog
        /\ coda' = Append(coda, p)
        /\ Vai(p, "login")
     \/ /\ ~SegreteriaInAscolto
        /\ Vai(p, "finito")
        /\ UNCHANGED coda
  /\ UNCHANGED <<mat, cod, reqS, scelte, chieste, su, giu, chiuso, rotto, guasti>>

InviaCredenziali(p, n, w) ==
  /\ pcS[p] = "login"
  /\ mat' = [mat EXCEPT ![p] = n]
  /\ Scrive(p, <<Credenziali(n, w)>>, 2, "attendeLogin")
  /\ UNCHANGED <<cod, reqS, scelte, chieste>>

(* Only the text of a refusal ends the process: when read returns 0, state *)
(* stays empty and the program goes on to the menu.                        *)
EsitoLogin(p) ==
  /\ pcS[p] = "attendeLogin"
  /\ Legge(p, IF giu[p] # <<>> /\ ~Head(giu[p]).ok THEN "uscita" ELSE "menu")
  /\ UNCHANGED <<mat, cod, reqS, scelte, chieste>>

Scegli(p, k) ==
  /\ pcS[p] = "menu"
  /\ k # 3 => scelte[p] < MaxScelte
  /\ scelte' = [scelte EXCEPT ![p] = IF k # 3 THEN @ + 1 ELSE @]
  /\ Scrive(p, <<Scelta(k)>>, 1,
            CASE k = 1 -> "sceltaReq"
              [] k = 2 -> "digitaCod"
              [] k = 3 -> "uscita"
              [] OTHER -> "menu")
  /\ UNCHANGED <<mat, cod, reqS, chieste>>

ScegliReq(p, r) ==
  /\ pcS[p] = "sceltaReq"
  /\ reqS' = [reqS EXCEPT ![p] = r]
  /\ Scrive(p, <<Richiesta(r)>>, 1, IF r = 2 THEN "digitaNome" ELSE "attendeRighe")
  /\ UNCHANGED <<mat, cod, scelte, chieste>>

DigitaNome(p, x) ==
  /\ pcS[p] = "digitaNome"
  /\ Scrive(p, IF x = Vuoto THEN <<>> ELSE <<Nome(x)>>, 1, "attendeRighe")
  /\ UNCHANGED <<mat, cod, reqS, scelte, chieste>>

RiceviRighe(p) ==
  /\ pcS[p] = "attendeRighe"
  /\ Legge(p, "menu")
  /\ UNCHANGED <<mat, cod, reqS, scelte, chieste>>

DigitaCod(p, e) ==
  /\ pcS[p] = "digitaCod"
  /\ cod' = [cod EXCEPT ![p] = e]
  /\ chieste' = [chieste EXCEPT ![<<mat[p], e>>] = @ + 1]
  /\ Scrive(p, <<Dati(mat[p], e)>>, 2, "attendeEsito")
  /\ UNCHANGED <<mat, reqS, scelte>>

RiceviEsito(p) ==
  /\ pcS[p] = "attendeEsito"
  /\ Legge(p, "menu")
  /\ UNCHANGED <<mat, cod, reqS, scelte, chieste>>

(* exit, or a signal: the kernel closes the socket.                        *)
Esci(p) ==
  /\ pcS[p] = "uscita"
  /\ Vai(p, "finito")
  /\ Chiudi({p}, "client")
  /\ UNCHANGED <<mat, cod, reqS, scelte, chieste, coda, su, giu, guasti>>

(* Fault: the terminal is closed, the machine goes away.                   *)
UccidiStudente(p) ==
  /\ pcS[p] \notin {"inizio", "uscita", "finito"}
  /\ Vai(p, "uscita")
  /\ Guasto("studente")
  /\ UNCHANGED <<mat, cod, reqS, scelte, chieste, coda, su, giu, chiuso, rotto>>

(* What the user does, and what the program then does by itself.           *)
Utente(p) ==
  \/ \E n \in Numeri, w \in Password : InviaCredenziali(p, n, w)
  \/ \E r \in Richieste : ScegliReq(p, r)
  \/ \E x \in Nomi : DigitaNome(p, x)
  \/ \E e \in Codici : DigitaCod(p, e)

Programma(p) ==
  \/ Connetti(p)
  \/ EsitoLogin(p)
  \/ RiceviRighe(p)
  \/ RiceviEsito(p)
  \/ Esci(p)

NextS ==
  \E p \in Proc :
    \/ Utente(p)
    \/ Programma(p)
    \/ \E k \in Scelte : Scegli(p, k)
    \/ UccidiStudente(p)
=============================================================================
