--------------------------- MODULE SistemaProofs ---------------------------
(***************************************************************************)
(* Proofs about the table of the clients and the descriptors behind it,    *)
(* for any number of students, descriptors and entries and for any         *)
(* database.                                                               *)
(***************************************************************************)
EXTENDS Sistema, TLAPS

(* The part of the type invariant the argument needs.                      *)
Tipi ==
  /\ coda \in Seq(Proc)
  /\ pcS \in [Proc -> StatiS]
  /\ fdConn \in [Fd -> Proc \cup {Nessuno}]
  /\ dim \in 0..DimArray /\ i \in Nat \ {0}
  /\ master_set \subseteq Fd /\ max_fd \in Nat
  /\ DOMAIN client_sockets = Slot
  /\ \A k \in Slot :
       /\ client_sockets[k] = [connfd |-> client_sockets[k].connfd,
                               matricola |-> client_sockets[k].matricola]
       /\ client_sockets[k].connfd \in Fd \cup {-1}

(* A connection is in the backlog, once, or behind one descriptor.         *)
Unica ==
  /\ \A f, g \in Fd : fdConn[f] = fdConn[g] /\ fdConn[f] # Nessuno => f = g
  /\ \A k, h \in 1..Len(coda) : coda[k] = coda[h] => k = h
  /\ \A f \in Fd, k \in 1..Len(coda) : fdConn[f] # coda[k]
  /\ \A p \in Proc : pcS[p] = "inizio" =>
       /\ \A f \in Fd : fdConn[f] # p
       /\ \A k \in 1..Len(coda) : coda[k] # p

Aperto(f) == f \in master_set /\ f <= max_fd /\ fdConn[f] \in Proc

(* A live entry has an open descriptor of its own, and so has the entry    *)
(* that a login is filling.                                                *)
Tabella ==
  pcG # "finita" =>
    /\ \A k \in Slot : k <= dim /\ client_sockets[k].connfd # -1 =>
         Aperto(client_sockets[k].connfd)
    /\ \A k, h \in Slot : k <= dim /\ h <= dim /\ k # h /\ client_sockets[k].connfd # -1 =>
         client_sockets[k].connfd # client_sockets[h].connfd

InAccesso ==
  pcG = "credenziali" =>
    /\ dim < DimArray
    /\ Aperto(client_sockets[dim + 1].connfd)
    /\ client_sockets[dim + 1].connfd # -1
    /\ \A k \in Slot : k <= dim => client_sockets[k].connfd # client_sockets[dim + 1].connfd

IInv == Tipi /\ Unica /\ Tabella /\ InAccesso

varsTavola == <<coda, fdConn, client_sockets, dim, master_set, max_fd>>

LEMMA Costanti == MaxFd \in Nat /\ DimArray \in Nat /\ Link \notin Proc
  BY SegreteriaAssumption, ReteAssumption

(* Initially no descriptor is given out and no entry is live.              *)
LEMMA Inizio == Init => IInv
  <1> SUFFICES ASSUME Init PROVE IInv
    OBVIOUS
  <1> USE DEF Init, InitR, InitS, InitG
  <1>1. Tipi
    BY Costanti DEF Tipi, StatiS, Fd, Slot, Nessuno
  <1>2. Unica
    BY Costanti DEF Unica, Nessuno
  <1>3. Tabella /\ InAccesso
    BY DEF Tabella, InAccesso, Slot
  <1> QED
    BY <1>1, <1>2, <1>3 DEF IInv

(* A step of the segreteria that leaves the table alone.                   *)
LEMMA TavolaFerma ==
  ASSUME IInv, UNCHANGED varsTavola, pcS' = pcS, i' \in Nat \ {0},
         pcG # "finita", pcG' # "credenziali"
  PROVE  IInv'
  <1>1. Tipi'
    BY DEF IInv, Tipi, varsTavola
  <1>2. Unica'
    BY DEF IInv, Unica, varsTavola
  <1>3. Tabella' /\ InAccesso'
    BY DEF IInv, Tabella, InAccesso, Aperto, varsTavola
  <1> QED
    BY <1>1, <1>2, <1>3 DEF IInv

(* A step of a student that has connected.                                 *)
LEMMA StudenteConnesso ==
  ASSUME IInv, UNCHANGED <<varsG, coda>>,
         NEW p \in Proc, NEW stato \in StatiS, stato # "inizio",
         pcS' = [pcS EXCEPT ![p] = stato]
  PROVE  IInv'
  <1>1. Tipi'
    BY DEF IInv, Tipi, varsG
  <1>2. Unica'
    BY DEF IInv, Tipi, Unica, varsG
  <1>3. Tabella' /\ InAccesso'
    BY DEF IInv, Tabella, InAccesso, Aperto, varsG
  <1> QED
    BY <1>1, <1>2, <1>3 DEF IInv

(* A connect either puts a new connection in the backlog or fails.         *)
LEMMA Connessione ==
  ASSUME IInv, NEW p \in Proc, PassoStudente(Connetti(p))
  PROVE  IInv'
  <1> USE DEF PassoStudente, Connetti, Vai, varsG
  <1>1. CASE pcS'[p] = "finito"
    <2>1. UNCHANGED coda /\ pcS' = [pcS EXCEPT ![p] = "finito"]
      BY <1>1 DEF IInv, Tipi
    <2> QED
      BY <2>1, StudenteConnesso DEF StatiS
  <1>2. CASE pcS'[p] # "finito"
    <2>1. coda' = Append(coda, p) /\ pcS' = [pcS EXCEPT ![p] = "login"] /\ pcS[p] = "inizio"
      BY <1>2 DEF IInv, Tipi
    <2>2. coda' \in Seq(Proc) /\ Len(coda') = Len(coda) + 1 /\ coda'[Len(coda) + 1] = p
          /\ \A k \in 1..Len(coda) : coda'[k] = coda[k]
      BY <2>1 DEF IInv, Tipi
    <2>3. Len(coda) \in Nat
      BY DEF IInv, Tipi
    <2>4. Tipi'
      BY <2>1, <2>2 DEF IInv, Tipi, StatiS
    <2>5. Unica'
      <3>1. \A k \in 1..Len(coda) : coda[k] # p
        BY <2>1 DEF IInv, Unica
      <3>2. \A k, h \in 1..Len(coda') : coda'[k] = coda'[h] => k = h
        BY <2>2, <2>3, <3>1 DEF IInv, Unica
      <3>3. \A f \in Fd, k \in 1..Len(coda') : fdConn'[f] # coda'[k]
        BY <2>1, <2>2, <2>3 DEF IInv, Unica
      <3>4. \A q \in Proc : pcS'[q] = "inizio" => q # p /\ pcS[q] = "inizio"
        BY <2>1 DEF IInv, Tipi
      <3> QED
        BY <2>2, <2>3, <3>2, <3>3, <3>4 DEF IInv, Unica
    <2>6. Tabella' /\ InAccesso'
      BY DEF IInv, Tabella, InAccesso, Aperto
    <2> QED
      BY <2>4, <2>5, <2>6 DEF IInv
  <1> QED
    BY <1>1, <1>2

(* No step of a student disturbs the table.                                *)
LEMMA PassiStudente ==
  ASSUME IInv, PassoStudente(NextS)
  PROVE  IInv'
  <1>1. PICK p \in Proc :
          \/ Utente(p) \/ Programma(p)
          \/ \E k \in Scelte : Scegli(p, k)
          \/ UccidiStudente(p)
    BY DEF PassoStudente, NextS
  <1>2. UNCHANGED varsG
    BY DEF PassoStudente
  <1>3. CASE Connetti(p)
    BY <1>3, Connessione DEF PassoStudente
  <1>4. CASE ~Connetti(p)
    <2>1. \E stato \in StatiS \ {"inizio"} : pcS' = [pcS EXCEPT ![p] = stato] /\ UNCHANGED coda
      <3>1. CASE Utente(p)
        BY <3>1 DEF Utente, InviaCredenziali, ScegliReq, DigitaNome, DigitaCod, Scrive, Vai, StatiS
      <3>2. CASE Programma(p)
        BY <3>2, <1>4 DEF Programma, EsitoLogin, RiceviRighe, RiceviEsito, Esci, Legge, Vai, StatiS
      <3>3. CASE \E k \in Scelte : Scegli(p, k)
        BY <3>3 DEF Scegli, Scrive, Vai, StatiS
      <3>4. CASE UccidiStudente(p)
        BY <3>4 DEF UccidiStudente, Vai, StatiS
      <3> QED
        BY <1>1, <3>1, <3>2, <3>3, <3>4
    <2> QED
      BY <1>2, <2>1, StudenteConnesso
  <1> QED
    BY <1>3, <1>4

(* The kernel gives out a descriptor that was free, so no live entry has   *)
(* it, and takes the connection out of the backlog.                        *)
LEMMA PassoAccetta ==
  ASSUME IInv, Accetta, pcS' = pcS
  PROVE  IInv'
  <1>1. PICK f \in Fd :
          /\ Libero(f)
          /\ fdConn' = [fdConn EXCEPT ![f] = Head(coda)]
          /\ client_sockets' = [client_sockets EXCEPT ![dim + 1].connfd = f]
          /\ master_set' = master_set \cup {f}
          /\ max_fd' = IF max_fd > f THEN max_fd ELSE f
    BY DEF Accetta
  <1>2. /\ pcG \in {"giro", "ancora"} /\ pcG' = "credenziali"
        /\ coda # <<>> /\ coda' = Tail(coda) /\ dim < DimArray
        /\ dim' = dim /\ i' = i
    BY DEF Accetta
  <1>3. /\ coda \in Seq(Proc) /\ coda' \in Seq(Proc) /\ Head(coda) = coda[1]
        /\ Head(coda) \in Proc /\ Len(coda) \in Nat \ {0} /\ Len(coda') = Len(coda) - 1
        /\ \A k \in 1..Len(coda') : coda'[k] = coda[k + 1] /\ k + 1 \in 1..Len(coda)
    BY <1>2 DEF IInv, Tipi
  <1>4. /\ dim + 1 \in Slot /\ f \in Nat \ {0} /\ f # -1
        /\ client_sockets'[dim + 1].connfd = f
        /\ client_sockets'[dim + 1] = [connfd |-> f, matricola |-> client_sockets[dim + 1].matricola]
        /\ \A k \in Slot : k # dim + 1 => client_sockets'[k] = client_sockets[k]
    BY <1>1, <1>2, Costanti DEF IInv, Tipi, Slot, Fd
  <1>5. Tipi'
    <2>1. fdConn' \in [Fd -> Proc \cup {Nessuno}] /\ master_set' \subseteq Fd /\ max_fd' \in Nat
      BY <1>1, <1>3, <1>4 DEF IInv, Tipi
    <2>2. \A k \in Slot :
            /\ client_sockets'[k] = [connfd |-> client_sockets'[k].connfd,
                                     matricola |-> client_sockets'[k].matricola]
            /\ client_sockets'[k].connfd \in Fd \cup {-1}
      BY <1>4 DEF IInv, Tipi
    <2>3. DOMAIN client_sockets' = Slot
      BY <1>1 DEF IInv, Tipi
    <2> QED
      BY <1>2, <1>3, <2>1, <2>2, <2>3 DEF IInv, Tipi
  <1>6. Unica'
    <2>1. \A g \in Fd : fdConn'[g] = IF g = f THEN coda[1] ELSE fdConn[g]
      BY <1>1, <1>3 DEF IInv, Tipi
    <2>2. \A g \in Fd : fdConn[g] # coda[1]
      BY <1>3 DEF IInv, Unica
    <2>3. \A k \in 1..Len(coda') : coda'[k] # coda[1]
      BY <1>3 DEF IInv, Unica
    <2>4. \A k, h \in 1..Len(coda') : coda'[k] = coda'[h] => k = h
      BY <1>3 DEF IInv, Unica
    <2>5. \A g \in Fd, k \in 1..Len(coda') : fdConn'[g] # coda'[k]
      BY <1>3, <2>1, <2>3 DEF IInv, Unica
    <2>6. \A p \in Proc : pcS'[p] = "inizio" =>
            /\ \A g \in Fd : fdConn'[g] # p
            /\ \A k \in 1..Len(coda') : coda'[k] # p
      BY <1>3, <2>1 DEF IInv, Unica
    <2> QED
      BY <2>1, <2>2, <2>4, <2>5, <2>6 DEF IInv, Unica
  <1>7. \A g \in Fd : Aperto(g) => Aperto(g)' /\ g # f
    BY <1>1, <1>3, <1>4, Costanti DEF IInv, Tipi, Aperto, Libero, Nessuno, Fd
  <1>8. Aperto(f)'
    BY <1>1, <1>3, <1>4 DEF IInv, Tipi, Aperto
  <1>9. \A k \in Slot : k <= dim /\ client_sockets[k].connfd # -1 =>
          Aperto(client_sockets[k].connfd) /\ client_sockets[k].connfd \in Fd
    BY <1>2 DEF IInv, Tabella, Tipi
  <1>10. \A k \in Slot : k <= dim => client_sockets'[k] = client_sockets[k]
    BY <1>4 DEF IInv, Tipi
  <1>11. Tabella'
    BY <1>2, <1>7, <1>9, <1>10 DEF IInv, Tabella
  <1>12. InAccesso'
    BY <1>2, <1>4, <1>7, <1>8, <1>9, <1>10 DEF InAccesso
  <1> QED
    BY <1>5, <1>6, <1>11, <1>12 DEF IInv

(* A failed accept writes -1 in the entry of the next login.               *)
LEMMA PassoAccettaFallita ==
  ASSUME IInv, AccettaFallita, pcS' = pcS
  PROVE  IInv'
  <1>1. /\ client_sockets' = [client_sockets EXCEPT ![dim + 1].connfd = -1]
        /\ UNCHANGED <<coda, fdConn, dim, master_set, max_fd, i>>
        /\ pcG \in {"giro", "ancora"} /\ pcG' = "ancora" /\ dim < DimArray
    BY DEF AccettaFallita, CodaDopoErrore
  <1>2. /\ dim + 1 \in Slot
        /\ client_sockets'[dim + 1] = [connfd |-> -1, matricola |-> client_sockets[dim + 1].matricola]
        /\ \A k \in Slot : k # dim + 1 => client_sockets'[k] = client_sockets[k]
        /\ DOMAIN client_sockets' = Slot
    BY <1>1, Costanti DEF IInv, Tipi, Slot
  <1>3. Tipi'
    BY <1>1, <1>2 DEF IInv, Tipi
  <1>4. Unica'
    BY <1>1 DEF IInv, Unica
  <1>5. \A k \in Slot : k <= dim => client_sockets'[k] = client_sockets[k]
    BY <1>2 DEF IInv, Tipi
  <1>6. Tabella' /\ InAccesso'
    BY <1>1, <1>5 DEF IInv, Tabella, InAccesso, Aperto
  <1> QED
    BY <1>3, <1>4, <1>6 DEF IInv

(* A login that succeeds makes live the entry that InAccesso describes; a  *)
(* refused one leaves it above dim.                                        *)
LEMMA PassoLogin ==
  ASSUME IInv, Login, pcS' = pcS
  PROVE  IInv'
  <1>1. PICK n : client_sockets' = [client_sockets EXCEPT ![dim + 1].matricola = n]
    BY DEF Login
  <1>2. /\ UNCHANGED <<coda, fdConn, master_set, max_fd, i>>
        /\ pcG = "credenziali" /\ pcG' \in {"ancora", "uscita"}
        /\ dim' \in {dim, dim + 1}
    BY DEF Login, DopoAccesso, Dopo
  <1>3. dim < DimArray /\ dim + 1 \in Slot
    BY <1>2, Costanti DEF IInv, Tipi, InAccesso, Slot
  <1>4. /\ DOMAIN client_sockets' = Slot
        /\ \A k \in Slot : /\ client_sockets'[k].connfd = client_sockets[k].connfd
                           /\ client_sockets'[k] = [connfd |-> client_sockets'[k].connfd,
                                                    matricola |-> client_sockets'[k].matricola]
    BY <1>1, <1>3 DEF IInv, Tipi
  <1>5. Tipi'
    BY <1>2, <1>3, <1>4, Costanti DEF IInv, Tipi
  <1>6. Unica'
    BY <1>2 DEF IInv, Unica
  <1>7. Tabella'
    <2>1. \A k \in Slot : k <= dim' => k <= dim \/ k = dim + 1
      BY <1>2 DEF IInv, Tipi, Slot
    <2>2. \A f : Aperto(f)' <=> Aperto(f)
      BY <1>2 DEF Aperto
    <2>3. \A k \in Slot : k <= dim' /\ client_sockets'[k].connfd # -1 =>
            Aperto(client_sockets[k].connfd)'
      BY <1>2, <1>4, <2>1, <2>2 DEF IInv, Tabella, InAccesso
    <2>4. \A k, h \in Slot : k <= dim' /\ h <= dim' /\ k # h /\ client_sockets'[k].connfd # -1 =>
            client_sockets'[k].connfd # client_sockets'[h].connfd
      BY <1>2, <1>3, <1>4, <2>1 DEF IInv, Tabella, InAccesso
    <2> QED
      BY <2>3, <2>4 DEF Tabella
  <1>8. InAccesso'
    BY <1>2 DEF InAccesso
  <1> QED
    BY <1>5, <1>6, <1>7, <1>8 DEF IInv

(* A choice other than the logout leaves the table alone; the logout frees *)
(* a descriptor that no other live entry has.                              *)
LEMMA PassoLeggiScelta ==
  ASSUME IInv, LeggiScelta, pcS' = pcS
  PROVE  IInv'
  <1>1. /\ pcG = "scorri" /\ i <= dim /\ DaServire(i)
        /\ pcG' \in {"scorri", "req", "dati", "uscita"} /\ i' \in {i, i + 1}
        /\ UNCHANGED <<coda, dim, max_fd>>
    BY DEF LeggiScelta, Dopo
  <1>2. i \in Slot /\ client_sockets[i].connfd \in Fd /\ i' \in Nat \ {0}
    BY <1>1, Costanti DEF IInv, Tipi, Slot, DaServire
  <1>3. CASE UNCHANGED <<fdConn, client_sockets, master_set>>
    BY <1>1, <1>2, <1>3, TavolaFerma DEF varsTavola
  <1>4. CASE /\ fdConn' = [fdConn EXCEPT ![client_sockets[i].connfd] = Nessuno]
             /\ master_set' = master_set \ {client_sockets[i].connfd}
             /\ client_sockets' = [client_sockets EXCEPT ![i] = Sloggata(i)]
    <2>1. /\ client_sockets'[i] = [connfd |-> -1, matricola |-> 0]
          /\ \A k \in Slot : k # i => client_sockets'[k] = client_sockets[k]
          /\ DOMAIN client_sockets' = Slot
      BY <1>2, <1>4 DEF IInv, Tipi, Sloggata
    <2>2. Tipi'
      BY <1>1, <1>2, <1>4, <2>1 DEF IInv, Tipi
    <2>3. Unica'
      BY <1>1, <1>4, Costanti DEF IInv, Tipi, Unica, Nessuno
    <2>4. \A f \in Fd : Aperto(f) /\ f # client_sockets[i].connfd => Aperto(f)'
      BY <1>1, <1>4 DEF IInv, Tipi, Aperto
    <2>5. Tabella'
      <3>1. \A k \in Slot : k <= dim' /\ client_sockets'[k].connfd # -1 =>
              /\ k # i /\ k <= dim /\ client_sockets'[k] = client_sockets[k]
              /\ client_sockets[k].connfd # -1 /\ client_sockets[k].connfd \in Fd
        BY <1>1, <2>1 DEF IInv, Tipi
      <3>2. \A k \in Slot : k # i /\ k <= dim /\ client_sockets[k].connfd # -1 =>
              client_sockets[k].connfd # client_sockets[i].connfd
        BY <1>1, <1>2 DEF IInv, Tabella
      <3>3. \A k \in Slot : k <= dim' /\ client_sockets'[k].connfd # -1 =>
              Aperto(client_sockets[k].connfd)'
        BY <1>1, <2>4, <3>1, <3>2 DEF IInv, Tabella
      <3>4. \A k, h \in Slot : k <= dim' /\ h <= dim' /\ k # h /\ client_sockets'[k].connfd # -1 =>
              client_sockets'[k].connfd # client_sockets'[h].connfd
        BY <1>1, <2>1, <3>1 DEF IInv, Tabella
      <3> QED
        BY <3>3, <3>4 DEF Tabella
    <2>6. InAccesso'
      BY <1>1 DEF InAccesso
    <2> QED
      BY <2>2, <2>3, <2>5, <2>6 DEF IInv
  <1> QED
    BY <1>3, <1>4 DEF LeggiScelta

(* At the end of the process nothing is open any more.                     *)
LEMMA PassoTermina ==
  ASSUME IInv, Termina, pcS' = pcS
  PROVE  IInv'
  <1>1. /\ pcG' = "finita" /\ coda' = <<>> /\ fdConn' = [f \in Fd |-> Nessuno]
        /\ UNCHANGED <<client_sockets, dim, master_set, max_fd, i>>
    BY DEF Termina
  <1>2. Tipi'
    BY <1>1 DEF IInv, Tipi
  <1>3. Unica'
    BY <1>1, Costanti DEF Unica, Nessuno
  <1>4. Tabella' /\ InAccesso'
    BY <1>1 DEF Tabella, InAccesso
  <1> QED
    BY <1>2, <1>3, <1>4 DEF IInv

(* Every step of the segreteria.                                           *)
LEMMA PassiSegreteria ==
  ASSUME IInv, PassoSegreteria(NextG)
  PROVE  IInv'
  <1>1. NextG /\ pcS' = pcS
    BY DEF PassoSegreteria, varsS
  <1> USE DEF varsTavola, varsGiro, varsRete
  <1>2. i \in Nat \ {0} /\ i + 1 \in Nat \ {0} /\ 1 \in Nat \ {0}
    BY DEF IInv, Tipi
  <1>3. CASE Operatore
    BY <1>1, <1>2, <1>3, TavolaFerma DEF Operatore, DigitaNomeAppello, DigitaData, Digita, Dopo
  <1>4. CASE Continua \/ NuovoAppello \/ UccidiSegreteria
    BY <1>1, <1>2, <1>4, TavolaFerma DEF Continua, NuovoAppello, Digita, Dopo, UccidiSegreteria
  <1>5. CASE Sfora \/ NessunaAttesa \/ Salta \/ FineScorri
    BY <1>1, <1>2, <1>5, TavolaFerma DEF Sfora, NessunaAttesa, Salta, FineScorri
  <1>6. CASE LeggiReq \/ LeggiNome
    BY <1>1, <1>2, <1>6, TavolaFerma DEF LeggiReq, LeggiNome, RispondeRighe, Dopo
  <1>7. CASE LeggiDati \/ InoltraEsito \/ EsitoInserimento
    BY <1>1, <1>2, <1>7, TavolaFerma DEF LeggiDati, InoltraEsito, EsitoInserimento, Dopo
  <1> QED
    BY <1>1, <1>3, <1>4, <1>5, <1>6, <1>7, PassoAccetta, PassoAccettaFallita, PassoLogin,
       PassoLeggiScelta, PassoTermina
    DEF NextG, ProgrammaG

LEMMA PassoDelSistema == IInv /\ [Next]_vars => IInv'
  <1> SUFFICES ASSUME IInv, [Next]_vars PROVE IInv'
    OBVIOUS
  <1>1. CASE PassoServer(NextU)
    <2>1. UNCHANGED <<varsS, varsG, coda>>
      BY <1>1 DEF PassoServer, NextU, ProgrammaU, AccettaSegreteria, LeggiRichiesta, LeggiNomeEsame,
           AggiungiAppello, AggiungiPrenotazione, UccidiServer, TerminaServer, varsRete
    <2> QED
      BY <2>1 DEF IInv, Tipi, Unica, Tabella, InAccesso, Aperto, varsS, varsG
  <1>2. CASE UNCHANGED vars
    BY <1>2 DEF IInv, Tipi, Unica, Tabella, InAccesso, Aperto, vars, varsS, varsG, varsRete
  <1> QED
    BY <1>1, <1>2, PassiStudente, PassiSegreteria DEF Next

(* Two live entries share neither a descriptor nor a connection.           *)
LEMMA TabellaDistinta == IInv => DescrittoriDistinti
  <1> SUFFICES ASSUME IInv PROVE DescrittoriDistinti
    OBVIOUS
  <1>1. \A k \in Slot : Vivo(k) =>
          /\ k <= dim /\ client_sockets[k].connfd \in Fd /\ Aperto(client_sockets[k].connfd)
          /\ client_sockets[k].connfd # -1 /\ pcG # "finita"
    BY DEF IInv, Tipi, Tabella, Vivo
  <1>2. ASSUME NEW k \in Slot, NEW h \in Slot, Vivo(k), Vivo(h), k # h
        PROVE  client_sockets[k].connfd # client_sockets[h].connfd /\ Cliente(k) # Cliente(h)
    <2>1. client_sockets[k].connfd # client_sockets[h].connfd
      BY <1>1, <1>2 DEF IInv, Tabella
    <2>2. fdConn[client_sockets[k].connfd] \in Proc
      BY <1>1, <1>2 DEF Aperto
    <2> QED
      BY <1>1, <1>2, <2>1, <2>2, Costanti DEF IInv, Unica, Cliente, Nessuno
  <1> QED
    BY <1>1, <1>2 DEF DescrittoriDistinti, Aperto

(* The invariant the argument rests on, for every value of the constants.  *)
THEOREM InvarianteDescrittori == SpecBase => []IInv
  <1>1. Init => IInv
    BY Inizio
  <1>2. IInv /\ [Next]_vars => IInv'
    BY PassoDelSistema
  <1> QED
    BY <1>1, <1>2, PTL DEF SpecBase

(* Every logged-in student has a descriptor and a connection of his own,   *)
(* in master_set, not above max_fd and open, whatever is refused, closed   *)
(* or killed, however many students there are.                             *)
THEOREM DescrittoriSempreDistinti == SpecBase => []DescrittoriDistinti
  BY InvarianteDescrittori, TabellaDistinta, PTL
=============================================================================
