---------------------------- MODULE LineaProofs ----------------------------
(***************************************************************************)
(* Proof that the one line to the server never falls out of step: as long  *)
(* as both programs live, what is on it and where the server is follow     *)
(* from where the segreteria is, for any number of students and any        *)
(* faults, whatever the operator types and when.                           *)
(***************************************************************************)
EXTENDS LetturaProofs, SequenceTheorems

SegreteriaViva == pcG \notin {"uscita", "finita", "sforata"}
ServerVivo == pcU \notin {"uscita", "finito"}

Sequenza(s) == \E S : s \in Seq(S)

Collegati ==
  /\ DOMAIN su = Conn /\ DOMAIN giu = Conn /\ DOMAIN chiuso = Conn
  /\ Sequenza(su[Link]) /\ Sequenza(giu[Link])
  /\ "client" \in chiuso[Link] <=> pcG = "finita"
  /\ "server" \in chiuso[Link] <=> pcU = "finito"

(* n items on the line, of which the server has read none yet: the first   *)
(* one is the choice k.                                                    *)
Aperto1(k, n) == pcU = "select" /\ Len(su[Link]) = n /\ su[Link][1].val = k

(* The server is at stato and has n items still to read.                   *)
Letto(stato, n) == pcU = stato /\ Len(su[Link]) = n

Risposto == pcU = "select" /\ Len(su[Link]) = 0 /\ Len(giu[Link]) = 1
InSilenzio == Len(giu[Link]) = 0

(* An operator who waits for the server before he types the date, and      *)
(* nobody who types an empty line.                                         *)
Puntuale == OperatoreLento /\ Vuoto \notin Nomi /\ Vuoto \notin Giorni

Quiete == {"giro", "ancora", "credenziali", "scorri", "req", "nomeEsame", "menu"}

(* What is on the line and where the server is, by where the segreteria is.*)
Fase ==
  /\ pcG \in Quiete => InSilenzio /\ Letto("select", 0)
  /\ pcG = "dati" => InSilenzio /\ (Aperto1(2, 1) \/ Letto("idmat", 0))
  /\ pcG = "esito" => Risposto \/ (InSilenzio /\ (Aperto1(2, 2) \/ Letto("idmat", 1)))
  /\ pcG = "nome" => InSilenzio /\ (Aperto1(1, 1) \/ Letto("nome", 0))
  /\ pcG = "data" =>
       /\ InSilenzio
       /\ \/ Aperto1(1, 2) \/ Letto("nome", 1) \/ Letto("data", 0)
          \/ (~Puntuale /\ (Aperto1(1, 1) \/ Letto("nome", 0)))
  /\ pcG = "esitoAppello" =>
       \/ Risposto
       \/ (InSilenzio /\ Letto("data", 1))
       \/ /\ InSilenzio /\ ~Puntuale
          /\ \/ Aperto1(1, 2) \/ Aperto1(1, 3) \/ Letto("nome", 1) \/ Letto("nome", 2)
             \/ Letto("data", 0) \/ Aperto1(1, 1) \/ Letto("nome", 0)

Scambio == SegreteriaViva /\ ServerVivo => Fase

Linea == Collegati /\ pcU \in StatiU /\ pcG \in StatiG /\ Scambio

-----------------------------------------------------------------------------
LEMMA VuotaSequenza == Sequenza(<<>>) /\ Len(<<>>) = 0
<1>1. <<>> \in Seq({})
  OBVIOUS
<1>. QED BY <1>1 DEF Sequenza

(* A write puts one item at the end.                                       *)
LEMMA Scritta ==
  ASSUME NEW s, Sequenza(s), NEW v
  PROVE  /\ Sequenza(s \o <<v>>) /\ Len(s) \in Nat /\ Len(s \o <<v>>) = Len(s) + 1
         /\ Len(s) > 0 => (s \o <<v>>)[1] = s[1]
         /\ Len(s) = 0 => (s \o <<v>>)[1] = v
<1>1. PICK S : s \in Seq(S)
  BY DEF Sequenza
<1>. DEFINE T == S \cup {v}
<1>2. s \in Seq(T) /\ <<v>> \in Seq(T) /\ Len(<<v>>) = 1 /\ <<v>>[1] = v
  BY <1>1
<1>. HIDE DEF T
<1>. QED BY <1>2 DEF Sequenza

LEMMA ScrittaDoppia ==
  ASSUME NEW s, Sequenza(s), NEW v, NEW w
  PROVE  Sequenza(s \o <<v, w>>)
<1>1. PICK S : s \in Seq(S)
  BY DEF Sequenza
<1>. DEFINE T == S \cup {v, w}
<1>2. s \in Seq(T) /\ <<v, w>> \in Seq(T)
  BY <1>1
<1>. HIDE DEF T
<1>. QED BY <1>2 DEF Sequenza

(* A read takes the first item.                                            *)
LEMMA Letta ==
  ASSUME NEW s, Sequenza(s)
  PROVE  /\ Len(s) \in Nat
         /\ (s = <<>> <=> Len(s) = 0)
         /\ s # <<>> => Sequenza(Tail(s)) /\ Len(Tail(s)) = Len(s) - 1 /\ Head(s) = s[1]
<1>1. PICK S : s \in Seq(S)
  BY DEF Sequenza
<1>. QED BY <1>1 DEF Sequenza

(* A read into a large buffer takes the first k.                           *)
LEMMA LettaInsieme ==
  ASSUME NEW flusso, Sequenza(flusso[Link]), NEW k \in Presi(flusso, Link)
  PROVE  LET t == SubSeq(flusso[Link], k + 1, Len(flusso[Link])) IN
         Sequenza(t) /\ Len(t) = Len(flusso[Link]) - k /\ k \in 0..Len(flusso[Link])
         /\ (Len(flusso[Link]) > 0 => k > 0)
<1>1. PICK S : flusso[Link] \in Seq(S)
  BY DEF Sequenza
<1>. DEFINE s == flusso[Link]
<1>2. s \in Seq(S) /\ k \in (IF s = <<>> THEN {0} ELSE 1..Len(s))
  BY <1>1 DEF Presi
<1>. HIDE DEF s
<1>3. k \in 0..Len(s) /\ (Len(s) > 0 => k > 0)
  BY <1>2
<1>4. LET t == SubSeq(s, k + 1, Len(s)) IN t \in Seq(S) /\ Len(t) = Len(s) - k
  BY <1>2, <1>3
<1>. QED BY <1>3, <1>4 DEF Sequenza, s

LEMMA InizioLinea == ASSUME Init PROVE Linea
<1>. USE DEF Init, InitR, InitG, InitU
<1>1. Collegati
  BY VuotaSequenza DEF Collegati, Conn
<1>2. pcU \in StatiU /\ pcG \in StatiG /\ Scambio
  BY VuotaSequenza DEF StatiU, StatiG, Scambio, Fase, InSilenzio, Letto, Conn
<1>. QED BY <1>1, <1>2 DEF Linea

-----------------------------------------------------------------------------
(* A step that does not touch the line, and takes neither program from one *)
(* phase of a dialogue to another.                                         *)
LEMMA LineaFerma ==
  ASSUME Linea,
         DOMAIN su' = Conn, DOMAIN giu' = Conn, DOMAIN chiuso' = Conn,
         su'[Link] = su[Link], giu'[Link] = giu[Link], chiuso'[Link] = chiuso[Link],
         pcU' = pcU, pcG' = pcG \/ (pcG \in Quiete /\ pcG' \in Quiete)
                                \/ (pcG # "finita" /\ pcG' \in {"uscita", "sforata"})
  PROVE  Linea'
<1>1. Collegati'
  BY DEF Linea, Collegati, Quiete
<1>2. Scambio' /\ pcG' \in StatiG
  BY DEF Linea, Scambio, Fase, SegreteriaViva, ServerVivo, InSilenzio, Letto, Aperto1, Risposto, Quiete,
         StatiG
<1>. QED BY <1>1, <1>2 DEF Linea

LEMMA LineaStudente == ASSUME Linea, PassoStudente(NextS) PROVE Linea'
<1>1. PICK p \in Proc :
        \/ Utente(p) \/ Programma(p)
        \/ \E k \in Scelte : Scegli(p, k)
        \/ UccidiStudente(p)
  BY DEF PassoStudente, NextS
<1>2. pcG' = pcG /\ pcU' = pcU /\ p # Link
  BY Costanti DEF PassoStudente, varsG, varsU
<1>3. /\ su' = su \/ \E voci : su' = Messo(su, p, "client", voci)
      /\ giu' = giu \/ giu' = Tolto(giu, p)
      /\ chiuso' = chiuso \/ Chiudi({p}, "client")
  BY <1>1 DEF Utente, InviaCredenziali, ScegliReq, DigitaNome, DigitaCod, Scegli, Scrive,
              Programma, Connetti, EsitoLogin, RiceviRighe, RiceviEsito, Esci, Legge, UccidiStudente
<1>4. /\ DOMAIN su' = Conn /\ DOMAIN giu' = Conn /\ DOMAIN chiuso' = Conn
      /\ su'[Link] = su[Link] /\ giu'[Link] = giu[Link] /\ chiuso'[Link] = chiuso[Link]
  BY <1>2, <1>3 DEF Linea, Collegati, Messo, Tolto, Chiudi, Conn
<1>. QED BY <1>2, <1>4, LineaFerma

-----------------------------------------------------------------------------
(* The server.                                                             *)

(* A read of the server from the line; there is something as long as the   *)
(* segreteria has not closed.                                              *)
LEMMA ServerLegge ==
  ASSUME Linea, Pronto(Link, "server"), pcG \in StatiG, su' = Tolto(su, Link)
  PROVE  /\ DOMAIN su' = Conn /\ Sequenza(su'[Link])
         /\ Len(su[Link]) \in Nat /\ Len(su'[Link]) \in Nat
         /\ pcG # "finita" => Len(su[Link]) > 0
         /\ Len(su[Link]) > 0 => /\ Len(su'[Link]) = Len(su[Link]) - 1
                                 /\ su[Link] # <<>> /\ Head(su[Link]) = su[Link][1]
<1>1. DOMAIN su' = Conn /\ su'[Link] = IF su[Link] = <<>> THEN su[Link] ELSE Tail(su[Link])
  BY DEF Linea, Collegati, Tolto, Conn
<1>2. pcG # "finita" => su[Link] # <<>>
  BY DEF Linea, Collegati, Pronto, Chiusa, Arrivo, Altro
<1>3. Sequenza(su[Link])
  BY DEF Linea, Collegati
<1>4. /\ Len(su[Link]) \in Nat /\ (su[Link] = <<>> <=> Len(su[Link]) = 0)
      /\ su[Link] # <<>> => /\ Sequenza(Tail(su[Link])) /\ Len(Tail(su[Link])) = Len(su[Link]) - 1
                            /\ Head(su[Link]) = su[Link][1]
  BY <1>3, Letta
<1>. QED BY <1>1, <1>2, <1>3, <1>4

(* What the server writes comes to the segreteria, unless it is gone.      *)
LEMMA ServerScrive ==
  ASSUME Linea, NEW v, giu' = Messo(giu, Link, "server", <<v>>)
  PROVE  /\ DOMAIN giu' = Conn /\ Sequenza(giu'[Link])
         /\ pcG # "finita" => Len(giu'[Link]) = Len(giu[Link]) + 1 /\ Len(giu[Link]) \in Nat
<1>1. DOMAIN giu' = Conn /\ giu'[Link] = IF pcG = "finita" THEN giu[Link] ELSE giu[Link] \o <<v>>
  BY DEF Linea, Collegati, Messo, Chiusa, Altro, Conn
<1>2. Sequenza(giu[Link])
  BY DEF Linea, Collegati
<1>3. /\ Sequenza(giu[Link] \o <<v>>) /\ Len(giu[Link]) \in Nat
      /\ Len(giu[Link] \o <<v>>) = Len(giu[Link]) + 1
  BY <1>2, Scritta
<1>. QED BY <1>1, <1>2, <1>3

LEMMA LineaRichiesta ==
  ASSUME Linea, LeggiRichiesta, UNCHANGED varsG
  PROVE  Linea'
<1>1. /\ pcU = "select" /\ Pronto(Link, "server") /\ su' = Tolto(su, Link)
      /\ UNCHANGED <<giu, chiuso, pcG>>
      /\ pcU' = IF su[Link] = <<>> THEN "select"
                ELSE IF Head(su[Link]).val = 1 THEN "nome"
                ELSE IF Head(su[Link]).val = 2 THEN "idmat" ELSE "select"
  BY DEF LeggiRichiesta, varsG
<1>2. Collegati' /\ pcU' \in StatiU /\ pcG' \in StatiG
  BY <1>1, ServerLegge DEF Linea, Collegati, StatiU
<1>3. ASSUME SegreteriaViva PROVE Scambio'
  <2>1. /\ Len(su[Link]) \in Nat /\ Len(su[Link]) > 0 /\ Len(su'[Link]) = Len(su[Link]) - 1
        /\ su[Link] # <<>> /\ Head(su[Link]) = su[Link][1]
    BY <1>1, <1>3, ServerLegge DEF Linea, SegreteriaViva
  <2>. QED BY <1>1, <1>3, <2>1
       DEF Linea, Scambio, Fase, SegreteriaViva, ServerVivo, InSilenzio, Letto, Aperto1, Risposto, Quiete
<1>. QED BY <1>1, <1>2, <1>3 DEF Linea, Scambio, Fase, SegreteriaViva

LEMMA LineaNome ==
  ASSUME Linea, LeggiNomeEsame, UNCHANGED varsG
  PROVE  Linea'
<1>1. PICK k \in Presi(su, Link) : su' = Senza(su, Link, k)
  BY DEF LeggiNomeEsame
<1>2. /\ pcU = "nome" /\ pcU' = "data" /\ Pronto(Link, "server") /\ UNCHANGED <<giu, chiuso, pcG>>
      /\ Len(su[Link]) \in Nat
  BY Letta DEF LeggiNomeEsame, varsG, Linea, Collegati
<1>3. /\ DOMAIN su' = Conn /\ Sequenza(su'[Link])
      /\ Len(su'[Link]) = Len(su[Link]) - k /\ k \in 0..Len(su[Link])
      /\ Len(su[Link]) > 0 => k > 0
  BY <1>1, LettaInsieme DEF Senza, Linea, Collegati, Conn
<1>4. Collegati' /\ pcU' \in StatiU /\ pcG' \in StatiG
  BY <1>2, <1>3 DEF Linea, Collegati, StatiU
<1>5. ASSUME SegreteriaViva PROVE Scambio'
  <2>1. Len(su[Link]) > 0
    BY <1>2, <1>5, Letta DEF Linea, Collegati, Pronto, Chiusa, Arrivo, Altro, SegreteriaViva
  <2>2. k \in 1..Len(su[Link]) /\ Len(su'[Link]) = Len(su[Link]) - k
    BY <1>2, <1>3, <2>1
  <2>. USE <1>2, <1>5, <2>1, <2>2 DEF SegreteriaViva, ServerVivo, Letto, InSilenzio, Aperto1, Risposto
  <2>3. pcG \notin Quiete \cup {"dati", "esito", "nome"}
    BY DEF Linea, Scambio, Fase, Quiete
  <2>4. CASE pcG = "data"
    <3>1. InSilenzio /\ Letto("nome", 1)
      BY <2>4 DEF Linea, Scambio, Fase
    <3>2. InSilenzio' /\ Letto("data", 0)'
      BY <3>1
    <3>. QED BY <2>4, <3>2 DEF Scambio, Fase, Quiete
  <2>5. CASE pcG = "esitoAppello"
    <3>1. InSilenzio /\ ~Puntuale /\ (Letto("nome", 1) \/ Letto("nome", 2))
      BY <2>5 DEF Linea, Scambio, Fase
    <3>2. Len(su'[Link]) = 0 \/ Len(su'[Link]) = 1
      <4>1. CASE Len(su[Link]) = 1
        BY <2>2, <4>1
      <4>2. CASE Len(su[Link]) = 2
        <5>1. k = 1 \/ k = 2
          BY <2>2, <4>2
        <5>. QED BY <2>2, <4>2, <5>1
      <4>. QED BY <3>1, <4>1, <4>2
    <3>3. InSilenzio' /\ (Letto("data", 0)' \/ Letto("data", 1)')
      BY <3>1, <3>2
    <3>. QED BY <2>5, <3>1, <3>3 DEF Scambio, Fase, Quiete, Puntuale
  <2>. QED BY <2>3, <2>4, <2>5 DEF Linea, StatiG, Quiete
<1>. QED BY <1>2, <1>4, <1>5 DEF Linea, Scambio, Fase, SegreteriaViva

(* The read of the last item of a request, and the answer; a query that    *)
(* fails ends the server, with two writes or with none.                    *)
LEMMA LineaRisposta ==
  ASSUME Linea, Pronto(Link, "server"), su' = Tolto(su, Link), UNCHANGED <<chiuso, pcG>>,
         pcU \in {"data", "idmat"}, pcU' \in {"select", "uscita"},
         \/ \E v : giu' = Messo(giu, Link, "server", <<v>>)
         \/ pcU' = "uscita" /\ giu' = giu
         \/ pcU' = "uscita" /\ \E v, w : giu' = Messo(giu, Link, "server", <<v, w>>)
  PROVE  Linea'
<1>1. DOMAIN giu' = Conn /\ Sequenza(giu'[Link])
  <2>1. CASE \E v : giu' = Messo(giu, Link, "server", <<v>>)
    BY <2>1, ServerScrive
  <2>2. CASE giu' = giu
    BY <2>2 DEF Linea, Collegati
  <2>3. CASE \E v, w : giu' = Messo(giu, Link, "server", <<v, w>>)
    <3>1. PICK v, w : giu' = Messo(giu, Link, "server", <<v, w>>)
      BY <2>3
    <3>2. Sequenza(giu[Link]) /\ Sequenza(giu[Link] \o <<v, w>>)
      BY ScrittaDoppia DEF Linea, Collegati
    <3>. QED BY <3>1, <3>2 DEF Messo, Linea, Collegati, Conn
  <2>. QED BY <2>1, <2>2, <2>3
<1>2. Collegati' /\ pcU' \in StatiU /\ pcG' \in StatiG
  BY <1>1, ServerLegge DEF Linea, Collegati, StatiU
<1>3. ASSUME SegreteriaViva, pcU' = "select" PROVE Scambio'
  <2>1. /\ Len(su[Link]) \in Nat /\ Len(su[Link]) > 0 /\ Len(su'[Link]) = Len(su[Link]) - 1
    BY <1>3, ServerLegge DEF Linea, SegreteriaViva
  <2>2. Len(giu'[Link]) = Len(giu[Link]) + 1
    BY <1>3, ServerScrive DEF SegreteriaViva
  <2>3. pcG \in {"esito", "esitoAppello"} /\ InSilenzio /\ Len(su[Link]) = 1
    BY <1>3, <2>1 DEF Linea, Scambio, Fase, SegreteriaViva, ServerVivo, Letto, Aperto1, Risposto,
                      Quiete, StatiG
  <2>4. Risposto'
    BY <1>3, <2>1, <2>2, <2>3 DEF InSilenzio, Risposto
  <2>. QED BY <2>3, <2>4 DEF Scambio, Fase, Quiete
<1>. QED BY <1>2, <1>3 DEF Linea, Scambio, Fase, SegreteriaViva, ServerVivo

LEMMA LineaServer == ASSUME Linea, PassoServer(NextU) PROVE Linea'
<1>1. NextU /\ UNCHANGED varsG
  BY DEF PassoServer
<1>2. CASE AccettaSegreteria
  BY <1>1, <1>2, LineaFerma DEF AccettaSegreteria, varsRete, varsG, Linea, Collegati
<1>3. CASE AggiungiAppello
  <2>1. /\ Pronto(Link, "server") /\ su' = Tolto(su, Link) /\ UNCHANGED <<chiuso, pcG>>
        /\ pcU = "data" /\ pcU' \in {"select", "uscita"}
        /\ \/ \E v : giu' = Messo(giu, Link, "server", <<v>>)
           \/ pcU' = "uscita" /\ giu' = giu
    BY <1>1, <1>3 DEF AggiungiAppello, Replica, varsG
  <2>. QED BY <2>1, LineaRisposta
<1>4. CASE AggiungiPrenotazione
  <2>1. /\ Pronto(Link, "server") /\ su' = Tolto(su, Link) /\ UNCHANGED <<chiuso, pcG>>
        /\ pcU = "idmat" /\ pcU' \in {"select", "uscita"}
        /\ \/ \E v : giu' = Messo(giu, Link, "server", <<v>>)
           \/ pcU' = "uscita" /\ \E v, w : giu' = Messo(giu, Link, "server", <<v, w>>)
    BY <1>1, <1>4 DEF AggiungiPrenotazione, Replica, varsG
  <2>. QED BY <2>1, LineaRisposta
<1>5. CASE UccidiServer \/ TerminaServer
  <2>1. /\ UNCHANGED <<su, giu, pcG>> /\ pcU' \in {"uscita", "finito"} /\ pcU # "finito"
        /\ DOMAIN chiuso' = Conn
        /\ chiuso'[Link] = IF pcU' = "finito" THEN chiuso[Link] \cup {"server"} ELSE chiuso[Link]
    BY <1>1, <1>5 DEF UccidiServer, TerminaServer, Chiudi, varsG, Linea, Collegati, Conn
  <2>. QED BY <2>1 DEF Linea, Collegati, Scambio, Fase, ServerVivo, StatiU
<1>. QED BY <1>1, <1>2, <1>3, <1>4, <1>5, LineaRichiesta, LineaNome DEF NextU, ProgrammaU

-----------------------------------------------------------------------------
(* The segreteria.                                                         *)

(* Whoever it serves, or logs in, is a student.                            *)
LEMMA InCorsoStudente ==
  ASSUME IInv, Lettura
  PROVE  /\ pcG = "credenziali" \/ pcG \in Fermi => InCorso \in Proc /\ InCorso # Link
         /\ pcG = "scorri" /\ i <= dim /\ DaServire(i) => Cliente(i) \in Proc /\ Cliente(i) # Link
<1>1. pcG = "credenziali" => Cliente(dim + 1) \in Proc
  BY DEF IInv, InAccesso, Aperto, Cliente
<1>2. i <= dim /\ client_sockets[i].connfd # -1 /\ pcG # "finita" => Cliente(i) \in Proc
  BY Costanti DEF IInv, Tipi, Tabella, Aperto, Cliente, Slot
<1>. QED BY <1>1, <1>2, Costanti DEF Lettura, ServitoVivo, Fermi, InCorso, DaServire

LEMMA SegreteriaScrive ==
  ASSUME Linea, NEW flusso, DOMAIN flusso = Conn, flusso[Link] = su[Link],
         NEW v, su' = Messo(flusso, Link, "client", <<v>>)
  PROVE  /\ DOMAIN su' = Conn /\ Sequenza(su'[Link]) /\ Len(su[Link]) \in Nat
         /\ pcU # "finito" =>
              /\ Len(su'[Link]) = Len(su[Link]) + 1
              /\ su'[Link][1] = IF Len(su[Link]) > 0 THEN su[Link][1] ELSE v
<1>1. /\ DOMAIN su' = Conn
      /\ su'[Link] = IF pcU = "finito" THEN su[Link] ELSE su[Link] \o <<v>>
  BY DEF Linea, Collegati, Messo, Chiusa, Altro, Conn
<1>2. Sequenza(su[Link])
  BY DEF Linea, Collegati
<1>3. /\ Sequenza(su[Link] \o <<v>>) /\ Len(su[Link]) \in Nat
      /\ Len(su[Link] \o <<v>>) = Len(su[Link]) + 1
      /\ Len(su[Link]) > 0 => (su[Link] \o <<v>>)[1] = su[Link][1]
      /\ Len(su[Link]) = 0 => (su[Link] \o <<v>>)[1] = v
  BY <1>2, Scritta
<1>4. su[Link] \o <<v>> = su'[Link] \/ pcU = "finito"
  BY <1>1
<1>. QED BY <1>1, <1>2, <1>3, <1>4

(* The next item of a dialogue, written to the server.                     *)
LEMMA LineaScritta ==
  ASSUME Linea, NEW flusso, DOMAIN flusso = Conn, flusso[Link] = su[Link],
         NEW v, su' = Messo(flusso, Link, "client", <<v>>),
         giu' = giu, chiuso' = chiuso, pcU' = pcU,
         \/ pcG \in Quiete /\ pcG' = "dati" /\ v.val = 2
         \/ pcG = "dati" /\ pcG' = "esito"
         \/ pcG = "menu" /\ pcG' = "nome" /\ v.val = 1
         \/ pcG = "nome" /\ pcG' = "data"
         \/ pcG = "data" /\ pcG' = "esitoAppello" /\ (Puntuale => su[Link] = <<>> \/ pcU = "finito")
         \/ pcG # "finita" /\ pcG' = "uscita"
  PROVE  Linea'
<1>1. Collegati' /\ pcU' \in StatiU /\ pcG' \in StatiG
  BY SegreteriaScrive DEF Linea, Collegati, StatiG, Quiete
<1>2. pcG \in Quiete \/ pcG \in {"dati", "nome", "data"} \/ pcG' = "uscita"
  BY DEF Quiete
<1>3. ASSUME ServerVivo, pcG' # "uscita" PROVE Scambio'
  <2>1. /\ Len(su[Link]) \in Nat /\ Len(su'[Link]) = Len(su[Link]) + 1
        /\ su'[Link][1] = IF Len(su[Link]) > 0 THEN su[Link][1] ELSE v
    BY <1>3, SegreteriaScrive DEF ServerVivo
  <2>2. /\ InSilenzio => InSilenzio'
        /\ \A n \in 0..2 : \A x \in {"select", "nome", "data", "idmat"} :
             Letto(x, n) => Letto(x, n + 1)'
        /\ \A n \in 1..2 : \A h \in {1, 2} : Aperto1(h, n) => Aperto1(h, n + 1)'
        /\ Letto("select", 0) => Aperto1(v.val, 1)'
    <3>1. InSilenzio => InSilenzio'
      BY DEF InSilenzio
    <3>2. \A n \in 0..2 : \A x \in {"select", "nome", "data", "idmat"} :
            Letto(x, n) => Letto(x, n + 1)'
      BY <2>1 DEF Letto
    <3>3. \A n \in 1..2 : \A h \in {1, 2} : Aperto1(h, n) => Aperto1(h, n + 1)'
      BY <2>1 DEF Aperto1
    <3>4. Letto("select", 0) => Aperto1(v.val, 1)'
      BY <2>1 DEF Letto, Aperto1
    <3>. QED BY <3>1, <3>2, <3>3, <3>4
  <2>3. Fase
    BY <1>3 DEF Linea, Scambio, Fase, SegreteriaViva, Quiete
  <2>. HIDE DEF InSilenzio, Letto, Aperto1, Risposto
  <2>4. CASE pcG \in Quiete
    BY <1>3, <2>2, <2>3, <2>4 DEF Scambio, Fase, Quiete
  <2>5. CASE pcG = "dati"
    BY <1>3, <2>2, <2>3, <2>5 DEF Scambio, Fase, Quiete
  <2>6. CASE pcG = "nome"
    BY <1>3, <2>2, <2>3, <2>6 DEF Scambio, Fase, Quiete
  <2>7. CASE pcG = "data"
    <3>1. Puntuale => Len(su[Link]) = 0
      BY <1>3, <2>7, Letta DEF Linea, Collegati, ServerVivo, Quiete
    <3>2. Puntuale => Letto("data", 0)
      BY <2>3, <2>7, <3>1 DEF Fase, Letto, Aperto1, Quiete
    <3>. QED BY <1>3, <2>2, <2>3, <2>7, <3>2 DEF Scambio, Fase, Quiete
  <2>. QED BY <1>2, <1>3, <2>4, <2>5, <2>6, <2>7
<1>. QED BY <1>1, <1>3 DEF Linea, Scambio, Fase, SegreteriaViva, ServerVivo

(* An empty line: nothing is written, and the dialogue goes on without.    *)
LEMMA LineaVuota ==
  ASSUME Linea, su' = Messo(su, Link, "client", <<>>), giu' = giu, chiuso' = chiuso, pcU' = pcU,
         ~Puntuale,
         \/ pcG = "nome" /\ pcG' \in {"data", "uscita"}
         \/ pcG = "data" /\ pcG' \in {"esitoAppello", "uscita"}
  PROVE  Linea'
<1>1. su[Link] \o <<>> = su[Link]
  BY ConcatEmptySeq DEF Linea, Collegati, Sequenza
<1>2. DOMAIN su' = Conn /\ su'[Link] = su[Link]
  BY <1>1 DEF Messo, Conn, Linea, Collegati
<1>3. Collegati' /\ pcG' \in StatiG
  BY <1>2 DEF Linea, Collegati, StatiG
<1>4. Scambio'
  BY <1>2 DEF Linea, Scambio, Fase, SegreteriaViva, ServerVivo, InSilenzio, Letto, Aperto1, Quiete
<1>. QED BY <1>3, <1>4 DEF Linea

(* The answer of the server, read; what is left of it is not looked at.    *)
LEMMA LineaLetta ==
  ASSUME Linea, NEW k \in Presi(giu, Link), NEW flusso, flusso[Link] = Senza(giu, Link, k)[Link],
         giu' = flusso, DOMAIN flusso = Conn, su' = su, chiuso' = chiuso, pcU' = pcU,
         pcG \in {"esito", "esitoAppello"}, pcG' \in Quiete \cup {"uscita"},
         Pronto(Link, "client")
  PROVE  Linea'
<1>1. /\ Sequenza(giu'[Link]) /\ Len(giu'[Link]) = Len(giu[Link]) - k /\ k \in 0..Len(giu[Link])
      /\ (Len(giu[Link]) > 0 => k > 0)
  BY LettaInsieme DEF Senza, Linea, Collegati, Conn
<1>2. Collegati' /\ pcU' \in StatiU /\ pcG' \in StatiG
  BY <1>1 DEF Linea, Collegati, StatiG, Quiete
<1>3. ASSUME ServerVivo PROVE Scambio'
  <2>1. giu[Link] # <<>>
    BY <1>3 DEF Linea, Collegati, Pronto, Chiusa, Arrivo, Altro, ServerVivo
  <2>2. Len(giu[Link]) > 0 /\ Len(giu[Link]) \in Nat
    BY <2>1, Letta DEF Linea, Collegati
  <2>3. Risposto
    BY <1>3, <2>2 DEF Linea, Scambio, Fase, SegreteriaViva, InSilenzio
  <2>4. Len(giu'[Link]) = 0
    BY <1>1, <2>3 DEF Risposto
  <2>. QED BY <2>3, <2>4 DEF Scambio, Fase, Risposto, InSilenzio, Letto, Quiete
<1>. QED BY <1>2, <1>3 DEF Linea, Scambio, Fase, SegreteriaViva, ServerVivo

(* Every step of the segreteria.                                           *)
LEMMA LineaSegreteria == ASSUME IInv, Lettura, Linea, PassoSegreteria(NextG) PROVE Linea'
<1>1. NextG /\ pcU' = pcU /\ UNCHANGED varsU
  BY DEF PassoSegreteria, varsU
<1>2. DOMAIN su = Conn /\ DOMAIN giu = Conn /\ DOMAIN chiuso = Conn
  BY DEF Linea, Collegati
<1>. USE DEF Dopo
<1>3. CASE Accetta \/ AccettaFallita \/ Sfora \/ NessunaAttesa \/ Salta \/ FineScorri
           \/ Continua \/ UccidiSegreteria
  BY <1>1, <1>2, <1>3, LineaFerma
  DEF Accetta, AccettaFallita, Sfora, NessunaAttesa, Salta, FineScorri, Continua,
      UccidiSegreteria, varsRete, Quiete
<1>4. CASE Login \/ LeggiReq \/ LeggiNome
  <2>1. /\ su' = Tolto(su, InCorso) /\ chiuso' = chiuso
        /\ giu' = giu \/ \E voci : giu' = Messo(giu, InCorso, "server", voci)
        /\ pcG \in {"credenziali", "req", "nomeEsame"}
        /\ pcG' \in {"ancora", "uscita", "scorri", "nomeEsame"}
    BY <1>4 DEF Login, LeggiReq, LeggiNome, RispondeRighe, Risponde, InCorso
  <2>2. InCorso # Link
    BY <2>1, InCorsoStudente DEF Fermi
  <2>3. /\ DOMAIN su' = Conn /\ DOMAIN giu' = Conn
        /\ su'[Link] = su[Link] /\ giu'[Link] = giu[Link]
    BY <1>2, <2>1, <2>2 DEF Tolto, Messo, Conn
  <2>. QED BY <1>1, <1>2, <2>1, <2>3, LineaFerma DEF Quiete
<1>5. CASE LeggiScelta
  <2>1. Cliente(i) \in Proc /\ Cliente(i) # Link
    BY <1>5, InCorsoStudente DEF LeggiScelta
  <2>2. /\ DOMAIN Tolto(su, Cliente(i)) = Conn /\ Tolto(su, Cliente(i))[Link] = su[Link]
    BY <1>2, <2>1 DEF Tolto, Conn
  <2>3. PICK b : /\ pcG = "scorri" /\ giu' = giu
                 /\ su' = IF b = 2 THEN Messo(Tolto(su, Cliente(i)), Link, "client", <<Scelta(b)>>)
                                   ELSE Tolto(su, Cliente(i))
                 /\ \/ b # 2 /\ pcG' \in {"scorri", "req"}
                       /\ \/ chiuso' = chiuso
                          \/ chiuso' = [chiuso EXCEPT ![Cliente(i)] = @ \cup {"server"}]
                    \/ b = 2 /\ pcG' \in {"dati", "uscita"} /\ chiuso' = chiuso
    BY <1>5 DEF LeggiScelta
  <2>4. CASE b = 2
    <3>1. Scelta(2).val = 2
      BY DEF Scelta
    <3>2. su' = Messo(Tolto(su, Cliente(i)), Link, "client", <<Scelta(2)>>)
      BY <2>3, <2>4
    <3>. QED BY <1>1, <2>2, <2>3, <2>4, <3>1, <3>2, LineaScritta DEF Quiete
  <2>5. CASE b # 2
    <3>1. DOMAIN chiuso' = Conn /\ chiuso'[Link] = chiuso[Link]
      BY <1>2, <2>1, <2>3, <2>5 DEF Conn
    <3>. QED BY <1>1, <1>2, <2>2, <2>3, <2>5, <3>1, LineaFerma DEF Quiete
  <2>. QED BY <2>4, <2>5
<1>6. CASE LeggiDati
  <2>1. /\ pcG = "dati" /\ pcG' \in {"esito", "uscita"} /\ giu' = giu /\ chiuso' = chiuso
        /\ \E v : su' = Messo(Tolto(su, Cliente(i)), Link, "client", <<v>>)
    BY <1>6 DEF LeggiDati
  <2>2. Cliente(i) # Link
    BY <2>1, InCorsoStudente DEF Fermi, InCorso
  <2>3. /\ DOMAIN Tolto(su, Cliente(i)) = Conn /\ Tolto(su, Cliente(i))[Link] = su[Link]
    BY <1>2, <2>2 DEF Tolto, Conn
  <2>. QED BY <1>1, <2>1, <2>3, LineaScritta
<1>7. CASE InoltraEsito
  <2>1. /\ pcG = "esito" /\ pcG' \in {"scorri", "uscita"} /\ Pronto(Link, "client")
        /\ su' = su /\ chiuso' = chiuso
    BY <1>7 DEF InoltraEsito, EsitoPronto
  <2>2. PICK k \in Presi(giu, Link) :
          \E voci : giu' = Messo(Senza(giu, Link, k), Cliente(i), "server", voci)
    BY <1>7 DEF InoltraEsito
  <2>3. Cliente(i) # Link
    BY <2>1, InCorsoStudente DEF Fermi, InCorso
  <2>4. DOMAIN giu' = Conn /\ giu'[Link] = Senza(giu, Link, k)[Link]
    BY <1>2, <2>2, <2>3 DEF Messo, Senza, Conn
  <2>. QED BY <1>1, <2>1, <2>4, LineaLetta DEF Quiete
<1>8. CASE EsitoInserimento
  <2>1. PICK k \in Presi(giu, Link) : giu' = Senza(giu, Link, k)
    BY <1>8 DEF EsitoInserimento
  <2>2. DOMAIN giu' = Conn
    BY <1>2, <2>1 DEF Senza
  <2>. QED BY <1>1, <1>8, <2>1, <2>2, LineaLetta DEF EsitoInserimento, Quiete
<1>9. CASE NuovoAppello
  BY <1>1, <1>2, <1>9, LineaScritta DEF NuovoAppello, Digita, Scelta
<1>10. ASSUME NEW x \in Nomi, DigitaNomeAppello(x) PROVE Linea'
  <2>1. CASE x # Vuoto
    BY <1>1, <1>2, <1>10, <2>1, LineaScritta DEF DigitaNomeAppello, Digita
  <2>2. CASE x = Vuoto
    BY <1>1, <1>10, <2>2, LineaVuota DEF DigitaNomeAppello, Digita, Puntuale
  <2>. QED BY <2>1, <2>2
<1>11. ASSUME NEW d \in Giorni, DigitaData(d) PROVE Linea'
  <2>1. OperatoreLento => su[Link] = <<>> \/ pcU = "finito"
    BY <1>11 DEF DigitaData, Linea, Collegati, Chiusa, Altro
  <2>2. CASE d # Vuoto
    BY <1>1, <1>2, <1>11, <2>1, <2>2, LineaScritta DEF DigitaData, Digita, Puntuale
  <2>3. CASE d = Vuoto
    BY <1>1, <1>11, <2>3, LineaVuota DEF DigitaData, Digita, Puntuale
  <2>. QED BY <2>2, <2>3
<1>12. CASE Termina
  <2>1. /\ pcG = "uscita" /\ pcG' = "finita" /\ UNCHANGED <<su, giu>>
        /\ DOMAIN chiuso' = Conn /\ chiuso'[Link] = chiuso[Link] \cup {"client"}
    BY <1>12 DEF Termina, Conn
  <2>. QED BY <1>1, <2>1 DEF Linea, Collegati, Scambio, SegreteriaViva, StatiG
<1>. QED BY <1>1, <1>3, <1>4, <1>5, <1>6, <1>7, <1>8, <1>9, <1>10, <1>11, <1>12
     DEF NextG, ProgrammaG, Operatore

(* The invariant the argument rests on, for every value of the constants.  *)
THEOREM InvarianteLinea == SpecBase => [](IInv /\ Lettura /\ Linea)
<1>1. Init => Linea
  BY InizioLinea
<1>2. IInv /\ Lettura /\ Linea /\ [Next]_vars => Linea'
  <2>1. ASSUME Linea, UNCHANGED vars PROVE Linea'
    BY <2>1, LineaFerma DEF vars, varsRete, varsG, varsU, Linea, Collegati
  <2>. QED BY <2>1, LineaStudente, LineaServer, LineaSegreteria DEF Next
<1>. QED BY <1>1, <1>2, InvarianteLettura, PTL DEF SpecBase

(* Between two dialogues nothing is left on the line to the server, and    *)
(* the server waits for a request: no answer can be taken for the answer   *)
(* to a later request, whatever the operator types and whoever dies.       *)
THEOREM LineaSempreInPari == SpecBase => []LineaInPari
<1>1. Linea => LineaInPari
  <2>. SUFFICES ASSUME Linea PROVE LineaInPari
    OBVIOUS
  <2>1. (su[Link] = <<>> <=> Len(su[Link]) = 0) /\ (giu[Link] = <<>> <=> Len(giu[Link]) = 0)
    BY Letta DEF Linea, Collegati
  <2>. QED BY <2>1 DEF LineaInPari, Linea, Scambio, Fase, SegreteriaViva, ServerVivo, InSilenzio,
                       Letto, Quiete
<1>. QED BY <1>1, InvarianteLinea, PTL

-----------------------------------------------------------------------------
(* What is on the line, beyond how much: a booking the server is about to  *)
(* read is the one the segreteria has in hand, and the answer the          *)
(* segreteria is about to read is the answer to it.                        *)

InMano(v) == v.num = seg_mat /\ v.cod = seg_cod

(* What a server that lives has still to read; the segreteria may be gone. *)
Voci ==
  LET s == su[Link] IN
  ServerVivo =>
    \/ Len(s) = 0
    \/ pcU = "select" /\ Len(s) \in 1..3 /\ s[1].val = 1
    \/ pcU = "nome" /\ Len(s) \in 1..2
    \/ pcU = "data" /\ Len(s) = 1
    \/ pcU = "select" /\ Len(s) = 1 /\ s[1].val = 2
    \/ pcU = "select" /\ Len(s) = 2 /\ s[1].val = 2 /\ InMano(s[2])
    \/ pcU = "idmat" /\ Len(s) = 1 /\ InMano(s[1])

(* What the server has answered.  A query that fails in the middle of a    *)
(* booking leaves two answers to it, of which the second may be read as    *)
(* the answer to the next booking.                                         *)
Risposte ==
  LET s == giu[Link] IN
  SegreteriaViva =>
    /\ \A k \in 1..Len(s) : s[k].tipo = "esito" \/ (k = 1 /\ pcG = "esitoAppello")
    /\ "query" \notin guasti /\ Len(s) > 0 =>
         /\ Len(s) = 1 /\ pcG \in {"esito", "esitoAppello"}
         /\ pcG = "esito" => InMano(s[1])

LEMMA InizioRisposte == ASSUME Init PROVE Voci /\ Risposte
  BY VuotaSequenza DEF Init, InitR, Conn, Voci, Risposte

-----------------------------------------------------------------------------
(* The items behind the first one, and those before the last one.          *)
LEMMA Resto ==
  ASSUME NEW s, Sequenza(s), s # <<>>
  PROVE  /\ Len(s) \in Nat \ {0} /\ Len(Tail(s)) = Len(s) - 1 /\ Head(s) = s[1]
         /\ \A k \in 1..Len(Tail(s)) : Tail(s)[k] = s[k + 1]
<1>1. PICK S : s \in Seq(S)
  BY DEF Sequenza
<1>2. Len(s) \in Nat \ {0} /\ Head(s) = s[1]
  BY <1>1
<1>3. Len(Tail(s)) = Len(s) - 1 /\ \A k \in 1..Len(Tail(s)) : Tail(s)[k] = s[k + 1]
  BY <1>1, HeadTailProperties
<1>. QED BY <1>2, <1>3

LEMMA InFondo ==
  ASSUME NEW s, Sequenza(s), NEW v
  PROVE  /\ Len(s) \in Nat /\ Len(s \o <<v>>) = Len(s) + 1
         /\ \A k \in 1..Len(s) : (s \o <<v>>)[k] = s[k]
         /\ (s \o <<v>>)[Len(s) + 1] = v
<1>1. PICK S : s \in Seq(S)
  BY DEF Sequenza
<1>. DEFINE T == S \cup {v}
<1>2. s \in Seq(T) /\ <<v>> \in Seq(T) /\ Len(<<v>>) = 1 /\ <<v>>[1] = v
  BY <1>1
<1>. HIDE DEF T
<1>. QED BY <1>2

(* What a read into a large buffer leaves.                                 *)
LEMMA Rimasti ==
  ASSUME NEW flusso, Sequenza(flusso[Link]), NEW k \in Presi(flusso, Link)
  PROVE  LET s == flusso[Link]
             t == SubSeq(s, k + 1, Len(s))
         IN  /\ Len(s) \in Nat /\ k \in 0..Len(s) /\ (Len(s) > 0 => k > 0)
             /\ Len(t) = Len(s) - k
             /\ \A j \in 1..Len(t) : t[j] = s[j + k]
<1>1. PICK S : flusso[Link] \in Seq(S)
  BY DEF Sequenza
<1>. DEFINE s == flusso[Link]
            t == SubSeq(s, k + 1, Len(s))
<1>2. s \in Seq(S) /\ Len(s) \in Nat /\ k \in 0..Len(s) /\ (Len(s) > 0 => k > 0)
  <2>1. s \in Seq(S) /\ k \in (IF s = <<>> THEN {0} ELSE 1..Len(s))
    BY <1>1 DEF Presi
  <2>. HIDE DEF s
  <2>. QED BY <2>1
<1>. HIDE DEF s
<1>3. Len(t) = Len(s) - k /\ \A j \in 1..Len(t) : t[j] = s[j + k]
  BY <1>2
<1>. QED BY <1>2, <1>3 DEF s

-----------------------------------------------------------------------------
(* The line is as it was, and so is what the segreteria has in hand.       *)
LEMMA VociFerme ==
  ASSUME Voci, su'[Link] = su[Link], UNCHANGED <<seg_mat, seg_cod>>,
         pcU' = pcU \/ pcU' \in {"uscita", "finito"}
  PROVE  Voci'
  BY DEF Voci, InMano, ServerVivo

LEMMA RisposteFerme ==
  ASSUME Risposte, giu'[Link] = giu[Link], guasti \subseteq guasti',
         pcG = "esito" => UNCHANGED <<seg_mat, seg_cod>>,
         pcG' # pcG => pcG \notin {"esito", "esitoAppello"} \/ ~SegreteriaViva',
         SegreteriaViva' => SegreteriaViva
  PROVE  Risposte'
  BY DEF Risposte, InMano

LEMMA RisposteStudente ==
  ASSUME Linea, Voci, Risposte, PassoStudente(NextS) PROVE Voci' /\ Risposte'
<1>1. PICK p \in Proc :
        \/ Utente(p) \/ Programma(p)
        \/ \E k \in Scelte : Scegli(p, k)
        \/ UccidiStudente(p)
  BY DEF PassoStudente, NextS
<1>2. UNCHANGED <<varsG, varsU>> /\ p # Link
  BY Costanti DEF PassoStudente
<1>3. /\ su' = su \/ \E voci : su' = Messo(su, p, "client", voci)
      /\ giu' = giu \/ giu' = Tolto(giu, p)
      /\ guasti \subseteq guasti'
  BY <1>1 DEF Utente, InviaCredenziali, ScegliReq, DigitaNome, DigitaCod, Scegli, Scrive, Guasto,
              Programma, Connetti, EsitoLogin, RiceviRighe, RiceviEsito, Esci, Legge, UccidiStudente
<1>4. su'[Link] = su[Link] /\ giu'[Link] = giu[Link]
  BY <1>2, <1>3 DEF Linea, Collegati, Messo, Tolto, Conn
<1>5. Voci'
  BY <1>2, <1>4, VociFerme DEF varsG, varsU
<1>6. Risposte'
  BY <1>2, <1>3, <1>4, RisposteFerme DEF varsG, SegreteriaViva
<1>. QED BY <1>5, <1>6

-----------------------------------------------------------------------------
(* The server takes the items in order.                                    *)
LEMMA VociRichiesta ==
  ASSUME Linea, Voci, LeggiRichiesta, UNCHANGED varsG PROVE Voci'
<1>. DEFINE s == su[Link]
<1>1. /\ pcU = "select" /\ su'[Link] = (IF s = <<>> THEN s ELSE Tail(s))
      /\ UNCHANGED <<seg_mat, seg_cod>>
      /\ pcU' = IF s = <<>> THEN "select"
                ELSE IF Head(s).val = 1 THEN "nome"
                ELSE IF Head(s).val = 2 THEN "idmat" ELSE "select"
  BY DEF LeggiRichiesta, Tolto, varsG, Linea, Collegati, Conn
<1>2. Sequenza(s) /\ (s = <<>> <=> Len(s) = 0)
  BY Letta DEF Linea, Collegati
<1>. HIDE DEF s
<1>3. CASE s = <<>>
  BY <1>1, <1>2, <1>3 DEF Voci, s
<1>4. CASE s # <<>>
  <2>. DEFINE z == su'[Link]
  <2>1. /\ Len(s) \in Nat \ {0} /\ Len(z) = Len(s) - 1 /\ Head(s) = s[1]
        /\ \A k \in 1..Len(z) : z[k] = s[k + 1]
    BY <1>1, <1>2, <1>4, Resto
  <2>2. \/ Len(s) \in 1..3 /\ s[1].val = 1
        \/ Len(s) = 1 /\ s[1].val = 2
        \/ Len(s) = 2 /\ s[1].val = 2 /\ InMano(s[2])
    BY <1>1, <1>2, <1>4 DEF Voci, ServerVivo, s
  <2>. HIDE DEF z
  <2>3. \/ Len(z) = 0
        \/ pcU' = "nome" /\ Len(z) \in 1..2
        \/ pcU' = "idmat" /\ Len(z) = 1 /\ InMano(z[1])
    <3>1. CASE Len(s) \in 1..3 /\ s[1].val = 1
      BY <1>1, <1>4, <2>1, <3>1
    <3>2. CASE Len(s) = 1 /\ s[1].val = 2
      BY <2>1, <3>2
    <3>3. CASE Len(s) = 2 /\ s[1].val = 2 /\ InMano(s[2])
      <4>1. 1 \in 1..Len(z) /\ Len(z) = 1
        BY <2>1, <3>3
      <4>2. z[1] = s[2]
        BY <2>1, <4>1
      <4>. QED BY <1>1, <1>4, <2>1, <3>3, <4>1, <4>2
    <3>. QED BY <2>2, <3>1, <3>2, <3>3
  <2>. QED BY <1>1, <2>3 DEF Voci, InMano, z
<1>. QED BY <1>3, <1>4

LEMMA VociNome ==
  ASSUME Linea, Voci, LeggiNomeEsame PROVE Voci'
<1>1. PICK k \in Presi(su, Link) : su' = Senza(su, Link, k)
  BY DEF LeggiNomeEsame
<1>2. /\ pcU = "nome" /\ pcU' = "data" /\ Sequenza(su[Link])
      /\ su'[Link] = SubSeq(su[Link], k + 1, Len(su[Link]))
  BY <1>1 DEF LeggiNomeEsame, Senza, Linea, Collegati, Conn
<1>3. /\ Len(su[Link]) \in Nat /\ k \in 0..Len(su[Link]) /\ (Len(su[Link]) > 0 => k > 0)
      /\ Len(su'[Link]) = Len(su[Link]) - k
  BY <1>2, Rimasti
<1>4. Len(su[Link]) \in 0..2
  BY <1>2 DEF Voci, ServerVivo
<1>. QED BY <1>2, <1>3, <1>4 DEF Voci

(* The last item of a request, read; nothing is left.                      *)
LEMMA VociFinite ==
  ASSUME Linea, Voci, su' = Tolto(su, Link), pcU \in {"data", "idmat"} PROVE Voci'
<1>1. /\ su'[Link] = (IF su[Link] = <<>> THEN su[Link] ELSE Tail(su[Link]))
      /\ Sequenza(su[Link]) /\ (su[Link] = <<>> <=> Len(su[Link]) = 0)
  BY Letta DEF Tolto, Linea, Collegati, Conn
<1>2. Len(su[Link]) = 0 \/ Len(su[Link]) = 1
  BY DEF Voci, ServerVivo
<1>3. Len(su'[Link]) = 0
  <2>1. CASE su[Link] = <<>>
    BY <1>1, <2>1
  <2>2. CASE su[Link] # <<>>
    <3>1. Len(Tail(su[Link])) = Len(su[Link]) - 1
      BY <1>1, <2>2, Resto
    <3>. QED BY <1>1, <1>2, <2>2, <3>1
  <2>. QED BY <2>1, <2>2
<1>. QED BY <1>3 DEF Voci

(* What the segreteria is waiting for when the server has read everything. *)
LEMMA AlServer ==
  ASSUME Linea, Voci, SegreteriaViva, pcU \in {"data", "idmat"}, Pronto(Link, "server")
  PROVE  /\ giu[Link] = <<>> /\ su[Link] # <<>>
         /\ pcG = IF pcU = "data" THEN "esitoAppello" ELSE "esito"
         /\ pcU = "idmat" => InMano(Head(su[Link]))
<1>1. /\ Sequenza(su[Link]) /\ Sequenza(giu[Link]) /\ pcG \in StatiG
      /\ (su[Link] = <<>> <=> Len(su[Link]) = 0) /\ (giu[Link] = <<>> <=> Len(giu[Link]) = 0)
  BY Letta DEF Linea, Collegati
<1>2. su[Link] # <<>>
  BY DEF Pronto, Arrivo, Chiusa, Altro, Linea, Collegati, SegreteriaViva
<1>3. Head(su[Link]) = su[Link][1] /\ Len(su[Link]) # 0
  BY <1>1, <1>2, Resto
<1>4. pcU = "idmat" => InMano(su[Link][1])
  BY <1>1, <1>2 DEF Voci, ServerVivo
<1>5. InSilenzio /\ pcG = IF pcU = "data" THEN "esitoAppello" ELSE "esito"
  BY <1>1, <1>3 DEF Linea, Scambio, Fase, SegreteriaViva, ServerVivo, Letto, Aperto1, Risposto, Quiete,
                    StatiG
<1>. QED BY <1>1, <1>2, <1>3, <1>4, <1>5 DEF InSilenzio

(* The answer that an insertion, or a booking, gets.                       *)
LEMMA RisposteAppello ==
  ASSUME Linea, Voci, Risposte, AggiungiAppello, UNCHANGED varsG PROVE Risposte'
<1>1. CASE ~SegreteriaViva
  BY <1>1 DEF Risposte, SegreteriaViva, varsG
<1>2. CASE SegreteriaViva
  <2>1. giu[Link] = <<>> /\ pcG = "esitoAppello" /\ pcG' = pcG /\ Sequenza(giu[Link])
        /\ UNCHANGED <<seg_mat, seg_cod>>
    BY <1>2, AlServer DEF AggiungiAppello, varsG, Linea, Collegati
  <2>2. \/ giu' = giu
        \/ \E v : giu' = Messo(giu, Link, "server", <<v>>)
    BY DEF AggiungiAppello, Replica
  <2>3. CASE giu' = giu
    BY <2>1, <2>3, VuotaSequenza DEF Risposte
  <2>4. CASE \E v : giu' = Messo(giu, Link, "server", <<v>>)
    <3>1. PICK v : giu' = Messo(giu, Link, "server", <<v>>)
      BY <2>4
    <3>2. giu'[Link] = giu[Link] \o <<v>>
      BY <1>2, <3>1 DEF Messo, Chiusa, Altro, Linea, Collegati, SegreteriaViva, Conn
    <3>3. Len(giu'[Link]) = 1
      BY <2>1, <3>2, InFondo, VuotaSequenza
    <3>. QED BY <2>1, <3>3 DEF Risposte
  <2>. QED BY <2>2, <2>3, <2>4
<1>. QED BY <1>1, <1>2

LEMMA RispostePrenotazione ==
  ASSUME Linea, Voci, Risposte, AggiungiPrenotazione, UNCHANGED varsG PROVE Risposte'
<1>1. CASE ~SegreteriaViva
  BY <1>1 DEF Risposte, SegreteriaViva, varsG
<1>2. CASE SegreteriaViva
  <2>1. /\ giu[Link] = <<>> /\ su[Link] # <<>> /\ pcG = "esito" /\ pcG' = pcG /\ Sequenza(giu[Link])
        /\ InMano(Head(su[Link])) /\ UNCHANGED <<seg_mat, seg_cod>>
    BY <1>2, AlServer DEF AggiungiPrenotazione, varsG, Linea, Collegati
  <2>2. matU' = Head(su[Link]).num /\ idU' = Head(su[Link]).cod
    BY <2>1 DEF AggiungiPrenotazione
  <2>3. PICK v : /\ v.tipo = "esito" /\ v.num = matU' /\ v.cod = idU'
                 /\ \/ giu' = Messo(giu, Link, "server", <<v>>)
                    \/ giu' = Messo(giu, Link, "server", <<v, v>>) /\ "query" \in guasti'
    <3>1. \A x : LET v == Esito(x, matU', idU') IN
                 v.tipo = "esito" /\ v.num = matU' /\ v.cod = idU'
      BY DEF Esito
    <3>2. \E x : LET v == Esito(x, matU', idU') IN
                 \/ giu' = Messo(giu, Link, "server", <<v>>)
                 \/ giu' = Messo(giu, Link, "server", <<v, v>>) /\ "query" \in guasti'
      BY DEF AggiungiPrenotazione, Replica, Guasto, Fallita
    <3>. QED BY <3>1, <3>2
  <2>4. \A voci : Messo(giu, Link, "server", voci)[Link] = giu[Link] \o voci
    BY <1>2 DEF Messo, Chiusa, Altro, Linea, Collegati, SegreteriaViva, Conn
  <2>5. InMano(v)
    BY <2>1, <2>2, <2>3 DEF InMano
  <2>6. CASE giu' = Messo(giu, Link, "server", <<v>>)
    <3>1. Len(giu'[Link]) = 1 /\ giu'[Link][1] = v
      BY <2>1, <2>4, <2>6, InFondo, VuotaSequenza
    <3>. QED BY <2>1, <2>3, <2>5, <3>1 DEF Risposte, InMano
  <2>7. CASE giu' = Messo(giu, Link, "server", <<v, v>>) /\ "query" \in guasti'
    <3>1. <<>> \o <<v, v>> = <<v, v>>
      OBVIOUS
    <3>2. giu'[Link] = <<v, v>>
      BY <2>1, <2>4, <2>7, <3>1
    <3>. QED BY <2>3, <2>7, <3>2 DEF Risposte
  <2>. QED BY <2>3, <2>6, <2>7
<1>. QED BY <1>1, <1>2

LEMMA RisposteServer ==
  ASSUME Linea, Voci, Risposte, PassoServer(NextU) PROVE Voci' /\ Risposte'
<1>1. NextU /\ UNCHANGED varsG
  BY DEF PassoServer
<1>2. Voci'
  <2>1. CASE AccettaSegreteria \/ UccidiServer \/ TerminaServer
    <3>1. su' = su /\ UNCHANGED <<seg_mat, seg_cod>> /\ (pcU' = pcU \/ pcU' \in {"uscita", "finito"})
      BY <1>1, <2>1 DEF AccettaSegreteria, UccidiServer, TerminaServer, varsRete, varsG
    <3>. QED BY <3>1, VociFerme
  <2>2. CASE AggiungiAppello \/ AggiungiPrenotazione
    <3>1. su' = Tolto(su, Link) /\ pcU \in {"data", "idmat"}
      BY <2>2 DEF AggiungiAppello, AggiungiPrenotazione
    <3>. QED BY <3>1, VociFinite
  <2>. QED BY <1>1, <2>1, <2>2, VociRichiesta, VociNome DEF NextU, ProgrammaU
<1>3. Risposte'
  <2>1. CASE AccettaSegreteria \/ UccidiServer \/ TerminaServer \/ LeggiRichiesta \/ LeggiNomeEsame
    <3>1. giu' = giu /\ guasti \subseteq guasti' /\ UNCHANGED <<seg_mat, seg_cod, pcG>>
      BY <1>1, <2>1 DEF AccettaSegreteria, UccidiServer, TerminaServer, LeggiRichiesta, LeggiNomeEsame,
                        varsRete, varsG, Guasto
    <3>. QED BY <3>1, RisposteFerme DEF SegreteriaViva
  <2>. QED BY <1>1, <2>1, RisposteAppello, RispostePrenotazione DEF NextU, ProgrammaU
<1>. QED BY <1>2, <1>3

-----------------------------------------------------------------------------
(* A booking follows its request, whose length says where the server is.   *)
LEMMA VociDati ==
  ASSUME IInv, Lettura, Linea, Linea', LeggiDati, pcU' = pcU, pcG' = "esito" PROVE Voci'
<1>. PICK d : d = DatiLetti(Cliente(i))
  OBVIOUS
<1>. DEFINE s == su[Link]
<1>1. /\ pcG = "dati" /\ su' = Messo(Tolto(su, Cliente(i)), Link, "client", <<d>>)
      /\ seg_cod' = d.cod /\ seg_mat' = d.num
  BY DEF LeggiDati
<1>2. Cliente(i) # Link /\ Sequenza(s)
  BY <1>1, InCorsoStudente DEF Fermi, InCorso, Linea, Collegati
<1>3. ASSUME ServerVivo'
      PROVE  \/ Len(su'[Link]) = 0
             \/ Len(su'[Link]) = 1 /\ pcU' = "idmat" /\ InMano(su[Link][1])'
             \/ Len(su'[Link]) = 2 /\ pcU' = "select" /\ su'[Link][1].val = 2 /\ InMano(su[Link][2])'
  <2>1. su'[Link] = s \o <<d>>
    BY <1>1, <1>2, <1>3 DEF Tolto, Messo, Chiusa, Altro, Linea, Collegati, ServerVivo, Conn
  <2>2. Len(s) \in Nat /\ Len(su'[Link]) = Len(s) + 1 /\ su'[Link][Len(s) + 1] = d
    BY <1>2, <2>1, InFondo
  <2>3. InMano(d)'
    BY <1>1 DEF InMano
  <2>4. \/ Len(su'[Link]) = 0
        \/ Len(su'[Link]) = 1 /\ pcU' = "idmat"
        \/ Len(su'[Link]) = 2 /\ pcU' = "select" /\ su'[Link][1].val = 2
    BY <1>3 DEF Linea, Scambio, Fase, SegreteriaViva, Letto, Aperto1, Risposto, Quiete
  <2>. HIDE DEF s
  <2>5. CASE Len(su'[Link]) = 1
    <3>1. Len(s) + 1 = 1
      BY <2>2, <2>5
    <3>. QED BY <2>2, <2>3, <2>4, <2>5, <3>1 DEF InMano
  <2>6. CASE Len(su'[Link]) = 2
    <3>1. Len(s) + 1 = 2
      BY <2>2, <2>6
    <3>. QED BY <2>2, <2>3, <2>4, <2>6, <3>1 DEF InMano
  <2>. QED BY <2>4, <2>5, <2>6
<1>. QED BY <1>3 DEF Voci

LEMMA VociSegreteria ==
  ASSUME IInv, Lettura, Linea, Linea', Voci, PassoSegreteria(NextG) PROVE Voci'
<1>1. NextG /\ pcU' = pcU
  BY DEF PassoSegreteria, varsU
<1>2. CASE SegreteriaViva' /\ pcG' # "esito"
  BY <1>2 DEF Linea, Scambio, Fase, SegreteriaViva, Voci, ServerVivo, Letto, Aperto1, Risposto, Quiete,
              StatiG
<1>3. CASE pcG' = "esito"
  <2>1. LeggiDati
    BY <1>1, <1>3
    DEF NextG, ProgrammaG, Operatore, DigitaNomeAppello, DigitaData, Digita, Continua, NuovoAppello,
        UccidiSegreteria, Accetta, AccettaFallita, Sfora, NessunaAttesa, Login, Salta, FineScorri,
        LeggiScelta, LeggiReq, LeggiNome, RispondeRighe, InoltraEsito, EsitoInserimento, Termina, Dopo
  <2>. QED BY <1>1, <1>3, <2>1, VociDati
<1>4. CASE ~SegreteriaViva'
  <2>1. CASE Sfora \/ UccidiSegreteria \/ Termina \/ InoltraEsito
    <3>1. su' = su /\ UNCHANGED <<seg_mat, seg_cod>>
      BY <2>1 DEF Sfora, UccidiSegreteria, Termina, InoltraEsito, varsLette, varsRete
    <3>. QED BY <1>1, <3>1, VociFerme
  <2>2. CASE Login \/ LeggiReq \/ LeggiNome
    <3>1. su' = Tolto(su, InCorso) /\ UNCHANGED <<seg_mat, seg_cod>>
      BY <2>2 DEF Login, LeggiReq, LeggiNome, InCorso, varsLette
    <3>2. InCorso # Link
      BY <2>2, InCorsoStudente DEF Login, LeggiReq, LeggiNome, Fermi
    <3>3. su'[Link] = su[Link]
      BY <3>1, <3>2 DEF Tolto, Linea, Collegati, Conn
    <3>. QED BY <1>1, <3>1, <3>3, VociFerme
  <2>3. CASE Operatore \/ NuovoAppello \/ LeggiScelta \/ LeggiDati
    <3>1. pcG' = "uscita" => Sigpipe(Link, "client", 1) \/ Sigpipe(Link, "client", 2)
      BY <2>3 DEF Operatore, DigitaNomeAppello, DigitaData, NuovoAppello, Digita, LeggiScelta, LeggiDati,
                  Dopo
    <3>2. pcG' = "uscita"
      BY <1>4, <2>3 DEF Operatore, DigitaNomeAppello, DigitaData, NuovoAppello, Digita, LeggiScelta,
                        LeggiDati, Dopo, SegreteriaViva
    <3>. QED BY <1>1, <3>1, <3>2 DEF Sigpipe, Chiusa, Altro, Linea, Collegati, Voci, ServerVivo
  <2>4. CASE Continua \/ Accetta \/ AccettaFallita \/ NessunaAttesa \/ Salta \/ FineScorri
             \/ EsitoInserimento
    BY <1>4, <2>4 DEF Continua, Accetta, AccettaFallita, NessunaAttesa, Salta, FineScorri,
                      EsitoInserimento, SegreteriaViva
  <2>. QED BY <1>1, <2>1, <2>2, <2>3, <2>4 DEF NextG, ProgrammaG
<1>. QED BY <1>2, <1>3, <1>4

(* The segreteria reads the answers it waits for; of several, one is read  *)
(* and another may stay.                                                   *)
LEMMA RisposteLette ==
  ASSUME Linea, Risposte, InoltraEsito \/ EsitoInserimento,
         InoltraEsito => Cliente(i) # Link
  PROVE  Risposte'
<1>1. PICK k \in Presi(giu, Link) :
        \/ giu' = Senza(giu, Link, k)
        \/ \E voci : giu' = Messo(Senza(giu, Link, k), Cliente(i), "server", voci)
  BY DEF InoltraEsito, EsitoInserimento
<1>2. giu'[Link] = SubSeq(giu[Link], k + 1, Len(giu[Link])) /\ Sequenza(giu[Link])
  BY <1>1 DEF Senza, Messo, Linea, Collegati, Conn
<1>3. guasti' = guasti /\ SegreteriaViva
  BY DEF InoltraEsito, EsitoInserimento, SegreteriaViva
<1>. DEFINE s == giu[Link]
            t == giu'[Link]
<1>4. /\ Len(s) \in Nat /\ k \in 0..Len(s) /\ (Len(s) > 0 => k > 0)
      /\ Len(t) = Len(s) - k
      /\ \A j \in 1..Len(t) : t[j] = s[j + k]
  BY <1>2, Rimasti
<1>5. /\ \A j \in 1..Len(s) : s[j].tipo = "esito" \/ j = 1
      /\ "query" \notin guasti /\ Len(s) > 0 => Len(s) = 1
  BY <1>3 DEF Risposte
<1>. HIDE DEF s, t
<1>6. ASSUME NEW j \in 1..Len(t) PROVE t[j].tipo = "esito"
  <2>1. j + k \in 1..Len(s) /\ j + k # 1
    BY <1>4
  <2>. QED BY <1>4, <1>5, <2>1
<1>7. "query" \notin guasti => Len(t) = 0
  BY <1>4, <1>5
<1>. QED BY <1>3, <1>6, <1>7 DEF Risposte, t

LEMMA RisposteSegreteria ==
  ASSUME IInv, Lettura, Linea, Risposte, PassoSegreteria(NextG) PROVE Risposte'
<1>1. NextG
  BY DEF PassoSegreteria
<1>2. CASE InoltraEsito \/ EsitoInserimento
  <2>1. InoltraEsito => Cliente(i) # Link
    BY InCorsoStudente DEF InoltraEsito, Fermi, InCorso
  <2>. QED BY <1>2, <2>1, RisposteLette
<1>3. CASE Login \/ LeggiReq \/ LeggiNome
  <2>1. /\ giu' = giu \/ \E voci : giu' = Messo(giu, InCorso, "server", voci)
        /\ pcG \in {"credenziali", "req", "nomeEsame"} /\ guasti \subseteq guasti'
    BY <1>3 DEF Login, LeggiReq, LeggiNome, RispondeRighe, Risponde, InCorso, Guasto, NessunGuasto
  <2>2. InCorso # Link
    BY <2>1, InCorsoStudente DEF Fermi
  <2>3. giu'[Link] = giu[Link]
    BY <2>1, <2>2 DEF Messo, Linea, Collegati, Conn
  <2>. QED BY <2>1, <2>3, RisposteFerme DEF SegreteriaViva
<1>4. CASE ~(InoltraEsito \/ EsitoInserimento \/ Login \/ LeggiReq \/ LeggiNome)
  <2>1. /\ giu' = giu /\ guasti \subseteq guasti'
        /\ SegreteriaViva' => SegreteriaViva
        /\ pcG = "esito" => UNCHANGED <<seg_mat, seg_cod>>
        /\ pcG' # pcG => pcG \notin {"esito", "esitoAppello"} \/ ~SegreteriaViva'
    <3>1. CASE Operatore \/ NuovoAppello \/ Continua
      BY <3>1 DEF Operatore, DigitaNomeAppello, DigitaData, Digita, NuovoAppello, Continua, varsLette,
                  varsRete, SegreteriaViva
    <3>2. CASE Accetta \/ AccettaFallita \/ Sfora \/ NessunaAttesa \/ Salta \/ FineScorri
      BY <3>2 DEF Accetta, AccettaFallita, Sfora, NessunaAttesa, Salta, FineScorri, varsLette,
                  varsRete, SegreteriaViva
    <3>3. CASE LeggiScelta \/ LeggiDati
      BY <3>3 DEF LeggiScelta, LeggiDati, SegreteriaViva
    <3>4. CASE UccidiSegreteria \/ Termina
      BY <3>4 DEF UccidiSegreteria, Termina, Guasto, varsLette, SegreteriaViva
    <3>. QED BY <1>1, <1>4, <3>1, <3>2, <3>3, <3>4 DEF NextG, ProgrammaG
  <2>. QED BY <2>1, RisposteFerme
<1>. QED BY <1>2, <1>3, <1>4

(* A booking the server reads is the one in hand, and unless a query       *)
(* failed the segreteria only reads the answer to it, for every value of   *)
(* the constants.                                                          *)
THEOREM InvarianteRisposte == SpecBase => [](IInv /\ Lettura /\ Linea /\ Voci /\ Risposte)
<1>1. Init => Voci /\ Risposte
  BY InizioRisposte
<1>2. IInv /\ Lettura /\ Linea /\ Linea' /\ Voci /\ Risposte /\ [Next]_vars => Voci' /\ Risposte'
  <2>. SUFFICES ASSUME IInv, Lettura, Linea, Linea', Voci, Risposte, [Next]_vars
                PROVE  Voci' /\ Risposte'
    OBVIOUS
  <2>1. CASE UNCHANGED vars
    BY <2>1, VociFerme, RisposteFerme DEF vars, varsRete, varsG, varsU, SegreteriaViva
  <2>2. CASE PassoSegreteria(NextG)
    BY <2>2, VociSegreteria, RisposteSegreteria
  <2>. QED BY <2>1, <2>2, RisposteStudente, RisposteServer DEF Next
<1>. QED BY <1>1, <1>2, InvarianteLinea, PTL DEF SpecBase
=============================================================================
