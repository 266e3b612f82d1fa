---------------------------- MODULE PostiProofs ----------------------------
(***************************************************************************)
(* Proof that no connection of a student is lost or doubled: as long as    *)
(* the segreteria listens, what it has not closed is in one place.         *)
(***************************************************************************)
EXTENDS SistemaProofs, FiniteSetTheorems

InCoda(p) == \E k \in 1..Len(coda) : coda[k] = p
InFd(p) == \E f \in Fd : fdConn[f] = p
Aperta(p) == pcS[p] # "inizio" /\ "server" \notin chiuso[p] /\ SegreteriaInAscolto

(* A connection has a place exactly as long as it is open.                 *)
Posto ==
  /\ DOMAIN chiuso = Conn
  /\ \A p \in Proc : InCoda(p) \/ InFd(p) <=> Aperta(p)
  /\ \A p \in Proc : pcS[p] = "inizio" => "server" \notin chiuso[p]

LEMMA InizioPosto == ASSUME Init PROVE Posto
<1>1. DOMAIN chiuso = Conn /\ \A p \in Proc : chiuso[p] = {} /\ pcS[p] = "inizio"
  BY DEF Init, InitR, InitS, Conn
<1>2. \A p \in Proc : ~InCoda(p)
  BY DEF Init, InitR, InCoda
<1>3. \A p \in Proc : ~InFd(p)
  BY Costanti DEF Init, InitG, InFd, Nessuno
<1>. QED BY <1>1, <1>2, <1>3 DEF Posto, Aperta

(* A step that moves, opens and closes no connection on this side.         *)
LEMMA PostoFermo ==
  ASSUME Posto, UNCHANGED <<coda, fdConn>>, DOMAIN chiuso' = Conn,
         \A p \in Proc : pcS'[p] = "inizio" <=> pcS[p] = "inizio",
         \A p \in Proc : "server" \in chiuso'[p] <=> "server" \in chiuso[p],
         "client" \in chiuso'[Link] <=> "client" \in chiuso[Link]
  PROVE  Posto'
  BY DEF Posto, InCoda, InFd, Aperta, SegreteriaInAscolto

LEMMA PostoStudente == ASSUME IInv, Posto, PassoStudente(NextS) PROVE Posto'
<1>1. PICK p \in Proc :
        \/ Utente(p) \/ Programma(p)
        \/ \E k \in Scelte : Scegli(p, k)
        \/ UccidiStudente(p)
  BY DEF PassoStudente, NextS
<1>2. UNCHANGED fdConn /\ pcS \in [Proc -> StatiS]
  BY DEF PassoStudente, varsG, IInv, Tipi
<1>3. CASE Connetti(p) /\ coda' = Append(coda, p) /\ SegreteriaInAscolto /\ Vai(p, "login")
  <2>1. chiuso' = chiuso /\ pcS[p] = "inizio" /\ pcS' = [pcS EXCEPT ![p] = "login"]
    BY <1>3 DEF Connetti, Vai
  <2>2. /\ Len(coda') = Len(coda) + 1 /\ coda'[Len(coda) + 1] = p /\ Len(coda) \in Nat
        /\ \A k \in 1..Len(coda) : coda'[k] = coda[k]
    BY <1>3 DEF IInv, Tipi
  <2>3. \A q \in Proc : InCoda(q)' <=> InCoda(q) \/ q = p
    BY <2>2 DEF InCoda
  <2>. QED BY <1>2, <1>3, <2>1, <2>3 DEF Posto, InFd, Aperta, SegreteriaInAscolto
<1>4. CASE Connetti(p) /\ coda' = coda /\ ~SegreteriaInAscolto /\ Vai(p, "finito")
  <2>1. chiuso' = chiuso /\ pcS' = [pcS EXCEPT ![p] = "finito"]
    BY <1>4 DEF Connetti, Vai
  <2>. QED BY <1>2, <1>4, <2>1 DEF Posto, InCoda, InFd, Aperta, SegreteriaInAscolto
<1>5. CASE ~Connetti(p)
  <2>1. /\ \E stato \in StatiS \ {"inizio"} : pcS' = [pcS EXCEPT ![p] = stato]
        /\ pcS[p] # "inizio" /\ coda' = coda
        /\ chiuso' = chiuso \/ Chiudi({p}, "client")
    <3>1. CASE Utente(p)
      BY <3>1 DEF Utente, InviaCredenziali, ScegliReq, DigitaNome, DigitaCod, Scrive, Vai, StatiS
    <3>2. CASE Programma(p)
      BY <3>2, <1>5 DEF Programma, EsitoLogin, RiceviRighe, RiceviEsito, Esci, Legge, Vai, StatiS
    <3>3. CASE \E k \in Scelte : Scegli(p, k)
      BY <3>3 DEF Scegli, Scrive, Vai, StatiS
    <3>4. CASE UccidiStudente(p)
      BY <3>4 DEF UccidiStudente, Vai, StatiS
    <3>. QED BY <1>1, <3>1, <3>2, <3>3, <3>4
  <2>2. \A q \in Proc : pcS'[q] = "inizio" <=> pcS[q] = "inizio"
    BY <1>2, <2>1
  <2>3. /\ DOMAIN chiuso' = Conn
        /\ \A q \in Proc : "server" \in chiuso'[q] <=> "server" \in chiuso[q]
        /\ chiuso'[Link] = chiuso[Link]
    BY <2>1, Costanti DEF Posto, Chiudi, Conn
  <2>. QED BY <1>2, <2>1, <2>2, <2>3, PostoFermo
<1>. QED BY <1>1, <1>3, <1>4, <1>5 DEF Connetti

LEMMA PostoServer == ASSUME IInv, Posto, PassoServer(NextU) PROVE Posto'
<1>1. UNCHANGED <<coda, fdConn, pcS>> /\ (chiuso' = chiuso \/ Chiudi({Link}, "server"))
  BY DEF PassoServer, NextU, ProgrammaU, AccettaSegreteria, LeggiRichiesta, LeggiNomeEsame,
         AggiungiAppello, AggiungiPrenotazione, UccidiServer, TerminaServer, varsRete, varsS, varsG
<1>2. /\ DOMAIN chiuso' = Conn
      /\ \A q \in Proc : chiuso'[q] = chiuso[q]
      /\ "client" \in chiuso'[Link] <=> "client" \in chiuso[Link]
  BY <1>1, Costanti DEF Posto, Chiudi, Conn
<1>. QED BY <1>1, <1>2, PostoFermo

-----------------------------------------------------------------------------
(* accept moves a connection from the backlog to a descriptor.             *)
LEMMA PostoAccetta == ASSUME IInv, Posto, Accetta, pcS' = pcS PROVE Posto'
<1>1. PICK f \in Fd : Libero(f) /\ fdConn' = [fdConn EXCEPT ![f] = Head(coda)]
  BY DEF Accetta
<1>2. coda # <<>> /\ coda' = Tail(coda) /\ chiuso' = chiuso
  BY DEF Accetta
<1>3. /\ Head(coda) = coda[1] /\ Len(coda) \in Nat \ {0} /\ Len(coda') = Len(coda) - 1
      /\ \A k \in 1..Len(coda') : coda'[k] = coda[k + 1]
  BY <1>2 DEF IInv, Tipi
<1>4. \A p \in Proc : InFd(p)' <=> InFd(p) \/ p = coda[1]
  BY <1>1, <1>3, Costanti DEF IInv, Tipi, InFd, Libero, Nessuno
<1>5. \A p \in Proc : InCoda(p) <=> InCoda(p)' \/ p = coda[1]
  <2>1. \A p \in Proc : InCoda(p)' \/ p = coda[1] => InCoda(p)
    BY <1>3 DEF InCoda
  <2>2. ASSUME NEW p \in Proc, InCoda(p), p # coda[1] PROVE InCoda(p)'
    <3>1. PICK k \in 1..Len(coda) : coda[k] = p
      BY <2>2 DEF InCoda
    <3>2. k - 1 \in 1..Len(coda') /\ coda'[k - 1] = p
      BY <1>3, <2>2, <3>1
    <3>. QED BY <3>2 DEF InCoda
  <2>. QED BY <2>1, <2>2
<1>. QED BY <1>2, <1>4, <1>5 DEF Posto, Aperta, SegreteriaInAscolto

(* A logout gives up the only place the connection had.                    *)
LEMMA PostoLogout ==
  ASSUME IInv, Posto, pcS' = pcS, coda' = coda,
         NEW f \in Fd, NEW p \in Proc, fdConn[f] = p, fdConn' = [fdConn EXCEPT ![f] = Nessuno],
         chiuso' = [chiuso EXCEPT ![p] = @ \cup {"server"}]
  PROVE  Posto'
<1>1. /\ DOMAIN chiuso' = Conn /\ chiuso'[Link] = chiuso[Link]
      /\ "server" \in chiuso'[p]
      /\ \A q \in Proc : q # p => chiuso'[q] = chiuso[q]
  BY Costanti DEF Posto, Conn
<1>2. \A q \in Proc : q # p => (InFd(q)' <=> InFd(q))
  BY Costanti DEF IInv, Tipi, InFd, Nessuno
<1>3. ~InFd(p)'
  BY Costanti DEF IInv, Tipi, Unica, InFd, Nessuno
<1>4. ~InCoda(p) /\ pcS[p] # "inizio"
  BY DEF IInv, Unica, InCoda
<1>. QED BY <1>1, <1>2, <1>3, <1>4 DEF Posto, InCoda, Aperta, SegreteriaInAscolto

(* Nothing is left of a process that ended.                                *)
LEMMA PostoTermina == ASSUME IInv, Posto, Termina, pcS' = pcS PROVE Posto'
<1>1. coda' = <<>> /\ fdConn' = [f \in Fd |-> Nessuno]
  BY DEF Termina
<1>2. DOMAIN chiuso' = Conn /\ "client" \in chiuso'[Link]
  BY DEF Termina, Conn
<1>3. \A p \in Proc : ~InCoda(p)' /\ ~InFd(p)'
  <2>1. \A p \in Proc : ~InCoda(p)'
    BY <1>1 DEF InCoda
  <2>2. \A p \in Proc : ~InFd(p)'
    BY <1>1, Costanti DEF InFd, Nessuno
  <2>. QED BY <2>1, <2>2
<1>4. ASSUME NEW p \in Proc, pcS[p] = "inizio" PROVE chiuso'[p] = chiuso[p]
  <2>1. p \notin (({fdConn[f] : f \in Fd} \cup {coda[k] : k \in 1..Len(coda)}) \ {Nessuno}) \cup {Link}
    BY <1>4, Costanti DEF IInv, Unica
  <2>. QED BY <2>1 DEF Termina, Conn
<1>. QED BY <1>2, <1>3, <1>4 DEF Posto, Aperta, SegreteriaInAscolto

LEMMA PostoSegreteria == ASSUME IInv, Posto, PassoSegreteria(NextG) PROVE Posto'
<1>1. NextG /\ pcS' = pcS
  BY DEF PassoSegreteria, varsS
<1>2. CASE UNCHANGED <<coda, fdConn, chiuso>>
  BY <1>1, <1>2, PostoFermo DEF Posto
<1>3. CASE Operatore \/ Continua \/ NuovoAppello \/ UccidiSegreteria
  BY <1>2, <1>3 DEF Operatore, Continua, NuovoAppello, UccidiSegreteria, DigitaNomeAppello,
                    DigitaData, Digita, varsGiro, varsRete
<1>4. CASE AccettaFallita \/ Sfora \/ NessunaAttesa \/ Login \/ Salta \/ FineScorri
  BY <1>2, <1>4 DEF AccettaFallita, CodaDopoErrore, Sfora, NessunaAttesa, Login, Salta, FineScorri,
                    varsGiro, varsRete
<1>5. CASE LeggiReq \/ LeggiNome \/ LeggiDati \/ InoltraEsito \/ EsitoInserimento
  BY <1>2, <1>5 DEF LeggiReq, LeggiNome, LeggiDati, InoltraEsito, EsitoInserimento, varsGiro
<1>6. CASE LeggiScelta
  <2>1. client_sockets[i].connfd \in Fd /\ fdConn[client_sockets[i].connfd] \in Proc
    BY <1>6, Costanti DEF LeggiScelta, DaServire, IInv, Tipi, Slot, Tabella, Aperto
  <2>2. coda' = coda
    BY <1>6 DEF LeggiScelta
  <2>. QED BY <1>1, <1>2, <1>6, <2>1, <2>2, PostoLogout DEF LeggiScelta, Cliente
<1>. QED BY <1>1, <1>3, <1>4, <1>5, <1>6, PostoAccetta, PostoTermina DEF NextG, ProgrammaG

(* Places of connections, for every value of the constants.                *)
THEOREM InvariantePosto == SpecBase => [](IInv /\ Posto)
<1>1. Init => IInv /\ Posto
  BY Inizio, InizioPosto
<1>2. IInv /\ Posto /\ [Next]_vars => (IInv /\ Posto)'
  <2>1. ASSUME IInv, Posto, UNCHANGED vars PROVE Posto'
    BY <2>1, PostoFermo DEF Posto, vars, varsRete, varsS, varsG
  <2>. QED BY <2>1, PassoDelSistema, PostoStudente, PostoServer, PostoSegreteria DEF Next
<1>. QED BY <1>1, <1>2, PTL DEF SpecBase

(* A connection that nobody closed waits in the backlog, once, or is       *)
(* behind one descriptor: accepts that fail, refusals and logouts of       *)
(* others neither lose it nor double it.                                   *)
THEOREM ConnessioneSempreUnica == SpecBase => []ConnessioneUnica
<1>1. ASSUME IInv, Posto PROVE ConnessioneUnica
  <2>1. ASSUME NEW p \in Proc, ~Aperta(p) PROVE Cardinality(Posti(p)) = 0
    <3>1. Posti(p) = {}
      BY <1>1, <2>1 DEF Posto, InCoda, InFd, Posti
    <3>. QED BY <3>1, FS_EmptySet
  <2>2. ASSUME NEW p \in Proc, Aperta(p) PROVE Cardinality(Posti(p)) = 1
    <3>1. \E x : Posti(p) = {x}
      <4>1. CASE InCoda(p)
        <5>1. PICK k \in 1..Len(coda) : coda[k] = p
          BY <4>1 DEF InCoda
        <5>2. \A h \in 1..Len(coda) : coda[h] = p => h = k
          BY <1>1, <5>1 DEF IInv, Unica
        <5>3. {h \in 1..Len(coda) : coda[h] = p} = {k} /\ {g \in Fd : fdConn[g] = p} = {}
          BY <1>1, <5>1, <5>2 DEF IInv, Unica
        <5>4. Posti(p) = {<<"coda", k>>}
          BY <5>3 DEF Posti
        <5>. QED BY <5>4
      <4>2. CASE ~InCoda(p) /\ InFd(p)
        <5>1. PICK f \in Fd : fdConn[f] = p
          BY <4>2 DEF InFd
        <5>2. {h \in 1..Len(coda) : coda[h] = p} = {} /\ {g \in Fd : fdConn[g] = p} = {f}
          BY <1>1, <4>2, <5>1, Costanti DEF IInv, Unica, InCoda, Nessuno
        <5>3. Posti(p) = {<<"fd", f>>}
          BY <5>2 DEF Posti
        <5>. QED BY <5>3
      <4>. QED BY <1>1, <2>2, <4>1, <4>2 DEF Posto
    <3>. QED BY <3>1, FS_Singleton
  <2>. QED BY <2>1, <2>2 DEF ConnessioneUnica, Aperta
<1>. QED BY <1>1, InvariantePosto, PTL
=============================================================================
