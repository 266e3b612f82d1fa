------------------------- MODULE PrenotazioniProofs -------------------------
(***************************************************************************)
(* Proof that the outcome of a booking goes to whoever asked for it, and   *)
(* that no booking is made that nobody asked for, nor one more often than  *)
(* it was asked: counting those that were made and those still on the way. *)
(* Then that, where nothing fails, Sistema implements the booking desk of  *)
(* Sportello.                                                              *)
(***************************************************************************)
EXTENDS TipiProofs

(* At a prompt nothing is there to be read, and one reply at most after it;*)
(* the outcomes a student may read are about his own booking.              *)
Quieto(p) ==
  /\ pcS[p] \in DOMAIN Invia \cup {"inizio"} => giu[p] = <<>>
  /\ pcS[p] \in Attese => Len(giu[p]) <= 1
EsitiPropri(p) ==
  \A k \in 1..Len(giu[p]) : giu[p][k].tipo = "esito" =>
    /\ pcS[p] \in {"attendeEsito", "uscita", "finito"}
    /\ giu[p][k].num = mat[p] /\ giu[p][k].cod = cod[p]

(* The booking in hand is of the student who is served, if he is there.    *)
Propria ==
  pcG = "esito" /\ "client" \notin chiuso[Cliente(i)] =>
    seg_mat = mat[Cliente(i)] /\ seg_cod = cod[Cliente(i)]

Esiti ==
  /\ \A p \in Proc : Quieto(p) /\ ("query" \notin guasti => EsitiPropri(p))
  /\ Propria

LEMMA InizioEsiti == ASSUME Init PROVE Esiti
<1>1. \A p \in Proc : giu[p] = <<>>
  BY DEF Init, InitR, Conn
<1>2. Propria
  BY DEF Init, InitG, Propria
<1>. QED BY <1>1, <1>2, VuotaSequenza DEF Esiti, Quieto, EsitiPropri

(* Whose outcome the segreteria is about to read waits for it, or is gone. *)
LEMMA AttendeEsito ==
  ASSUME Intesa, pcG = "esito", NEW p, p = Cliente(i)
  PROVE  p \in Proc /\ InFd(p) /\ pcS[p] \in {"attendeEsito", "uscita", "finito"}
<1>1. p \in Proc /\ InFd(p) /\ SegreteriaViva /\ Turno(p) = "esito"
  BY Interlocutore DEF Fermi, Legge1, InCorso
<1>2. InDialogo(p) /\ Colloquio(p) /\ pcS[p] \in StatiS
  BY <1>1 DEF Intesa, Posto, Aperta, InDialogo, Dialogo, IInv, Tipi
<1>3. Accordo(p) /\ Sequenza(su[p]) /\ pcS[p] # "inizio"
  BY <1>2 DEF Colloquio, InDialogo
<1>4. Poi(su[p], Turno(p)) = "esito"
  BY <1>1, <1>3, PoiInizio DEF Accordo, TipiStudente
<1>5. pcS[p] \notin DOMAIN Invia
  BY <1>3, <1>4 DEF Accordo, Invia
<1>6. pcS[p] \in Attese => pcS[p] = "attendeEsito"
  BY <1>1, <1>3, <1>4 DEF Accordo, DaServireAncora, Servito, Attese, Aspetta
<1>. QED BY <1>1, <1>2, <1>3, <1>5, <1>6 DEF StatiS, Attese, Invia

LEMMA EsitiStudente == ASSUME Intesa, Esiti, PassoStudente(NextS) PROVE Esiti'
<1>1. PICK p \in Proc :
        \/ Utente(p) \/ Programma(p)
        \/ \E k \in Scelte : Scegli(p, k)
        \/ UccidiStudente(p)
  BY DEF PassoStudente, NextS
<1>2. /\ UNCHANGED varsG /\ pcS \in [Proc -> StatiS] /\ Quieto(p) /\ Sequenza(giu[p])
      /\ DOMAIN giu = Conn /\ DOMAIN mat = Proc /\ DOMAIN cod = Proc /\ p \in Conn
      /\ DOMAIN chiuso = Conn
  BY DEF PassoStudente, Intesa, IInv, Tipi, Dialogo, Colloquio, Esiti, Conn, Posto
<1>3. /\ guasti \subseteq guasti'
      /\ chiuso' = chiuso \/ Chiudi({p}, "client")
      /\ giu' = giu \/ giu' = Tolto(giu, p)
      /\ \E stato : pcS' = [pcS EXCEPT ![p] = stato]
      /\ mat' = mat \/ \E n : mat' = [mat EXCEPT ![p] = n] /\ pcS[p] = "login"
      /\ cod' = cod \/ \E n : cod' = [cod EXCEPT ![p] = n] /\ pcS[p] = "digitaCod"
  <2>1. CASE Utente(p)
    BY <2>1 DEF Utente, InviaCredenziali, ScegliReq, DigitaNome, DigitaCod, Scrive, Vai
  <2>2. CASE Programma(p)
    BY <2>2 DEF Programma, Connetti, EsitoLogin, RiceviRighe, RiceviEsito, Esci, Legge, Vai
  <2>3. CASE (\E k \in Scelte : Scegli(p, k)) \/ UccidiStudente(p)
    BY <2>3 DEF Scegli, Scrive, UccidiStudente, Vai, Guasto
  <2>. QED BY <1>1, <2>1, <2>2, <2>3
<1>4. \/ giu'[p] = <<>>
      \/ /\ giu'[p] = giu[p] /\ mat'[p] = mat[p] /\ cod'[p] = cod[p]
         /\ pcS'[p] \in {"uscita", "finito"}
  <2>1. CASE Utente(p) \/ (\E k \in Scelte : Scegli(p, k)) \/ Connetti(p)
    <3>1. giu' = giu /\ pcS[p] \in DOMAIN Invia \cup {"inizio"}
      BY <2>1 DEF Utente, InviaCredenziali, ScegliReq, DigitaNome, DigitaCod, Scegli, Scrive, Connetti, Invia
    <3>. QED BY <1>2, <3>1 DEF Quieto
  <2>2. CASE EsitoLogin(p) \/ RiceviRighe(p) \/ RiceviEsito(p)
    <3>1. giu' = Tolto(giu, p) /\ pcS[p] \in Attese
      BY <2>2 DEF EsitoLogin, RiceviRighe, RiceviEsito, Legge, Attese
    <3>2. giu'[p] = (IF giu[p] = <<>> THEN <<>> ELSE Tail(giu[p])) /\ Len(giu[p]) <= 1
      BY <1>2, <3>1 DEF Tolto, Quieto
    <3>3. giu[p] # <<>> => Len(giu[p]) \in Nat \ {0} /\ Len(Tail(giu[p])) = Len(giu[p]) - 1
                           /\ Sequenza(Tail(giu[p]))
      BY <1>2, Resto, Letta
    <3>4. giu[p] # <<>> => Tail(giu[p]) = <<>>
      BY <3>2, <3>3, Letta
    <3>. QED BY <3>2, <3>4
  <2>3. CASE Esci(p) \/ UccidiStudente(p)
    BY <1>2, <2>3 DEF Esci, UccidiStudente, Vai
  <2>. QED BY <1>1, <2>1, <2>2, <2>3 DEF Programma
<1>5. ASSUME NEW q \in Proc PROVE Quieto(q)' /\ ("query" \notin guasti' => EsitiPropri(q)')
  <2>1. CASE q = p
    <3>1. CASE giu'[p] = <<>>
      BY <2>1, <3>1, VuotaSequenza DEF Quieto, EsitiPropri
    <3>2. CASE /\ giu'[p] = giu[p] /\ mat'[p] = mat[p] /\ cod'[p] = cod[p]
               /\ pcS'[p] \in {"uscita", "finito"}
      BY <1>3, <2>1, <3>2 DEF Quieto, EsitiPropri, Esiti, Invia, Attese
    <3>. QED BY <1>4, <3>1, <3>2
  <2>2. CASE q # p
    <3>1. giu'[q] = giu[q] /\ pcS'[q] = pcS[q] /\ mat'[q] = mat[q] /\ cod'[q] = cod[q]
      BY <1>2, <1>3, <2>2 DEF Tolto, Conn
    <3>. QED BY <1>3, <3>1 DEF Quieto, EsitiPropri, Esiti
  <2>. QED BY <2>1, <2>2
<1>6. Propria'
  <2>1. ASSUME pcG = "esito", NEW c, c = Cliente(i), "client" \notin chiuso'[c]
        PROVE  seg_mat = mat'[c] /\ seg_cod = cod'[c]
    <3>1. c \in Proc /\ pcS[c] \in {"attendeEsito", "uscita", "finito"}
      BY <2>1, AttendeEsito
    <3>2. mat'[c] = mat[c] /\ cod'[c] = cod[c]
      BY <1>2, <1>3, <3>1
    <3>3. "client" \notin chiuso[c]
      BY <1>2, <1>3, <2>1, <3>1 DEF Chiudi, Conn
    <3>. QED BY <2>1, <3>2, <3>3 DEF Esiti, Propria
  <2>2. Cliente(i)' = Cliente(i) /\ UNCHANGED <<pcG, seg_mat, seg_cod>>
    BY <1>2 DEF varsG, Cliente
  <2>. QED BY <2>1, <2>2 DEF Propria
<1>. QED BY <1>5, <1>6 DEF Esiti

-----------------------------------------------------------------------------
(* What the segreteria writes to a student, while it goes on.              *)
LEMMA ReplicaScritta ==
  ASSUME Intesa, PassoSegreteria(NextG), NEW q \in Proc
  PROVE  \/ giu'[q] = giu[q]
         \/ \E v : /\ giu'[q] = giu[q] \o <<v>> /\ InDialogo(q)'
                   /\ v.tipo = "esito" =>
                        /\ InoltraEsito /\ q = Cliente(i) /\ "client" \notin chiuso[q]
                        /\ v = IF giu[Link] # <<>> THEN Head(giu[Link])
                               ELSE Esito("vuoto", seg_mat, seg_cod)
<1>1. /\ NextG /\ UNCHANGED varsS /\ DOMAIN giu = Conn /\ q \in Conn /\ q # Link
      /\ \A p \in Proc : InFd(p) => "server" \notin chiuso[p] /\ pcS[p] # "inizio"
  BY Costanti DEF PassoSegreteria, Intesa, Dialogo, Posto, Aperta, Conn
<1>. PICK p : p = InCorso
  OBVIOUS
<1>2. CASE Login \/ LeggiReq \/ LeggiNome
  <2>1. pcG \in {"credenziali", "req", "nomeEsame"} /\ chiuso' = chiuso /\ pcG' # pcG
    BY <1>2 DEF Login, LeggiReq, LeggiNome, RispondeRighe, Dopo
  <2>2. p \in Proc /\ InFd(p)
    BY <2>1, Interlocutore DEF Fermi
  <2>3. PICK v, k : /\ v.tipo # "esito"
                    /\ \/ giu' = giu
                       \/ /\ giu' = Messo(giu, p, "server", <<v>>)
                          /\ pcG' \in {"ancora", "scorri"} \/ Sigpipe(p, "server", k)
    <3>1. CASE Login
      <4>1. EsitoAccesso(AccessoConsentito(CredenzialiLette(p).num, CredenzialiLette(p).pass)).tipo # "esito"
        BY DEF EsitoAccesso
      <4>. QED BY <3>1, <4>1 DEF Login, Risponde, Dopo
    <3>2. \A righe : Righe(righe).tipo # "esito" /\
            (RispondeRighe(p, righe) =>
               \/ giu' = giu
               \/ \E k : /\ giu' = Messo(giu, p, "server", <<Righe(righe)>>)
                         /\ pcG' \in {"ancora", "scorri"} \/ Sigpipe(p, "server", k))
      BY DEF RispondeRighe, Risponde, Righe, Dopo
    <3>3. CASE LeggiReq \/ LeggiNome
      <4>1. p = Cliente(i)
        BY <2>1, <3>3 DEF LeggiReq, LeggiNome, InCorso
      <4>2. giu' = giu \/ \E righe : RispondeRighe(p, righe)
        BY <3>3, <4>1 DEF LeggiReq, LeggiNome
      <4>3. Righe(0).tipo # "esito"
        BY DEF Righe
      <4>. QED BY <3>2, <4>2, <4>3
    <3>. QED BY <1>2, <3>1, <3>3
  <2>4. giu'[q] = giu[q] \/ (q = p /\ ~Chiusa(p, "server") /\ giu'[q] = giu[q] \o <<v>>)
    BY <1>1, <2>3 DEF Messo
  <2>5. ASSUME q = p, ~Chiusa(p, "server"), giu'[q] # giu[q] PROVE InDialogo(q)'
    <3>1. pcG' \in {"ancora", "scorri"}
      BY <2>3, <2>5 DEF Sigpipe
    <3>. QED BY <1>1, <2>1, <2>2, <2>5, <3>1 DEF InDialogo, SegreteriaViva, varsS
  <2>. QED BY <2>3, <2>4, <2>5
<1>3. CASE InoltraEsito
  <2>. PICK x : x = IF giu[Link] # <<>> THEN Head(giu[Link]) ELSE Esito("vuoto", seg_mat, seg_cod)
    OBVIOUS
  <2>1. /\ pcG = "esito" /\ chiuso' = chiuso /\ p = Cliente(i)
        /\ \E k \in Presi(giu, Link) : giu' = Messo(Senza(giu, Link, k), p, "server", <<x>>)
        /\ pcG' = "scorri" \/ Sigpipe(p, "server", 1)
    BY <1>3 DEF InoltraEsito, Inoltrato, InCorso, Dopo
  <2>2. p \in Proc /\ InFd(p)
    BY <2>1, AttendeEsito
  <2>3. giu'[q] = giu[q] \/ (q = p /\ ~Chiusa(p, "server") /\ giu'[q] = giu[q] \o <<x>>)
    BY <1>1, <2>1 DEF Messo, Senza
  <2>4. ASSUME q = p, ~Chiusa(p, "server") PROVE InDialogo(q)' /\ "client" \notin chiuso[q]
    <3>1. pcG' = "scorri"
      BY <2>1, <2>4 DEF Sigpipe
    <3>. QED BY <1>1, <2>1, <2>2, <2>4, <3>1 DEF InDialogo, SegreteriaViva, varsS, Chiusa, Altro
  <2>. QED BY <1>3, <2>1, <2>3, <2>4
<1>4. CASE ~(Login \/ LeggiReq \/ LeggiNome \/ InoltraEsito)
  <2>1. giu' = giu \/ \E k \in Presi(giu, Link) : giu' = Senza(giu, Link, k)
    BY <1>1, <1>4 DEF NextG, ProgrammaG, Operatore, NuovoAppello, DigitaNomeAppello, DigitaData, Digita,
       EsitoInserimento, Accetta, AccettaFallita, Sfora, NessunaAttesa, Salta, FineScorri, Continua,
       UccidiSegreteria, Termina, LeggiScelta, LeggiDati, varsRete
  <2>. QED BY <1>1, <2>1 DEF Senza
<1>. QED BY <1>2, <1>3, <1>4

(* What the segreteria forwards is the booking of the student who waits.   *)
LEMMA PropriaDati ==
  ASSUME Intesa, LeggiDati, UNCHANGED varsS PROVE Propria'
<1>. PICK p, d : p = Cliente(i) /\ d = DatiLetti(p)
  OBVIOUS
<1>1. /\ pcG = "dati" /\ p = InCorso /\ Pronto(p, "server") /\ seg_cod' = d.cod /\ seg_mat' = d.num
      /\ UNCHANGED <<chiuso, mat, cod>> /\ Cliente(i)' = p
  BY DEF LeggiDati, InCorso, varsS, varsGiro, Cliente
<1>2. p \in Proc /\ InFd(p) /\ SegreteriaViva /\ Turno(p) = "dati"
  BY <1>1, Interlocutore DEF Fermi, Legge1
<1>3. Accordo(p) /\ Ultimo(p) /\ Sequenza(su[p])
  BY <1>2 DEF Intesa, Posto, Aperta, InDialogo, Dialogo, Colloquio
<1>4. CASE su[p] # <<>>
  <2>1. /\ Head(su[p]).tipo = "dati"
        /\ Seguito(Head(su[p])) \notin TipiStudente => Tail(su[p]) = <<>>
        /\ Tail(su[p]) = <<>> => Head(su[p]) = su[p][Len(su[p])]
    BY <1>2, <1>3, <1>4, CatenaLetta DEF Accordo
  <2>2. Seguito(Head(su[p])) = "esito" /\ "esito" \notin TipiStudente
    BY <2>1 DEF Seguito, TipiStudente
  <2>3. Head(su[p]).num = mat[p] /\ Head(su[p]).cod = cod[p]
    BY <1>3, <1>4, <2>1, <2>2 DEF Ultimo
  <2>. QED BY <1>1, <1>4, <2>3 DEF DatiLetti, Propria
<1>5. CASE su[p] = <<>>
  <2>1. "client" \in chiuso[p]
    BY <1>1, <1>5 DEF Pronto, Arrivo, Chiusa, Altro
  <2>. QED BY <1>1, <2>1 DEF Propria
<1>. QED BY <1>4, <1>5

LEMMA EsitiSegreteria ==
  ASSUME Intesa, Intesa', Esiti, PassoSegreteria(NextG) PROVE Esiti'
<1>1. NextG /\ UNCHANGED varsS /\ guasti \subseteq guasti'
  <2>1. guasti' = guasti \/ \E quale : Guasto(quale)
    BY DEF PassoSegreteria, NextG, ProgrammaG, Operatore, NuovoAppello, DigitaNomeAppello, DigitaData, Digita,
       EsitoInserimento, Accetta, AccettaFallita, Sfora, NessunaAttesa, Salta, FineScorri, Continua, Login,
       UccidiSegreteria, Termina, LeggiScelta, LeggiDati, LeggiReq, LeggiNome, RispondeRighe, InoltraEsito,
       NessunGuasto, varsRete
  <2>. QED BY <2>1 DEF PassoSegreteria, Guasto
<1>2. ASSUME NEW q \in Proc PROVE Quieto(q)'
  <2>1. CASE giu'[q] = giu[q]
    BY <1>1, <2>1 DEF Esiti, Quieto, varsS
  <2>2. CASE InDialogo(q)'
    <3>1. Accordo(q)' /\ pcS'[q] # "inizio"
      BY <2>2 DEF Intesa, Dialogo, Colloquio, InDialogo
    <3>2. pcS'[q] \in DOMAIN Invia \cup {"inizio"} => giu'[q] = <<>>
      BY <3>1 DEF Accordo
    <3>3. pcS'[q] \in Attese => giu'[q] = <<>> \/ Len(giu'[q]) = 1
      <4>. SUFFICES ASSUME pcS'[q] \in Attese PROVE giu'[q] = <<>> \/ Len(giu'[q]) = 1
        OBVIOUS
      <4>1. DaServireAncora(q)' \/ Servito(q)'
        BY <3>1 DEF Accordo
      <4>2. DaServireAncora(q)' => giu'[q] = <<>>
        BY DEF DaServireAncora
      <4>3. Servito(q)' => giu'[q] = <<>> \/ Len(giu'[q]) = 1
        BY DEF Servito
      <4>. QED BY <4>1, <4>2, <4>3
    <3>4. \A s : s = <<>> \/ Len(s) = 1 => Len(s) <= 1
      <4>1. \A n : n = 0 \/ n = 1 => n <= 1
        OBVIOUS
      <4>2. ASSUME NEW s, s = <<>> \/ Len(s) = 1 PROVE Len(s) = 0 \/ Len(s) = 1
        BY <4>2, VuotaSequenza
      <4>. QED BY <4>1, <4>2, Zenon
    <3>. QED BY <3>2, <3>3, <3>4 DEF Quieto
  <2>3. giu'[q] = giu[q] \/ InDialogo(q)'
    BY ReplicaScritta
  <2>. QED BY <2>1, <2>2, <2>3
<1>3. ASSUME NEW q \in Proc, "query" \notin guasti' PROVE EsitiPropri(q)'
  <2>1. EsitiPropri(q) /\ Sequenza(giu[q]) /\ pcS'[q] = pcS[q] /\ mat'[q] = mat[q] /\ cod'[q] = cod[q]
    BY <1>1, <1>3 DEF Esiti, Intesa, Dialogo, Colloquio, varsS
  <2>2. CASE giu'[q] = giu[q]
    BY <2>1, <2>2 DEF EsitiPropri
  <2>3. ASSUME NEW v, giu'[q] = giu[q] \o <<v>>,
               v.tipo = "esito" =>
                 /\ InoltraEsito /\ q = Cliente(i) /\ "client" \notin chiuso[q]
                 /\ v = IF giu[Link] # <<>> THEN Head(giu[Link]) ELSE Esito("vuoto", seg_mat, seg_cod)
        PROVE  EsitiPropri(q)'
    <3>1. /\ Len(giu'[q]) = Len(giu[q]) + 1 /\ Len(giu[q]) \in Nat /\ giu'[q][Len(giu[q]) + 1] = v
          /\ \A k \in 1..Len(giu[q]) : giu'[q][k] = giu[q][k]
      BY <2>1, <2>3, InFondo
    <3>2. ASSUME v.tipo = "esito"
          PROVE  /\ pcS[q] \in {"attendeEsito", "uscita", "finito"}
                 /\ v.num = mat[q] /\ v.cod = cod[q]
      <4>1. pcG = "esito" /\ q = Cliente(i) /\ SegreteriaViva
        BY <2>3, <3>2 DEF InoltraEsito, SegreteriaViva
      <4>2. seg_mat = mat[q] /\ seg_cod = cod[q]
        BY <2>3, <3>2, <4>1 DEF Esiti, Propria
      <4>3. InMano(v)
        <5>1. CASE giu[Link] = <<>>
          BY <2>3, <3>2, <5>1 DEF Esito, InMano
        <5>2. CASE giu[Link] # <<>>
          <6>1. Len(giu[Link]) > 0 /\ Head(giu[Link]) = giu[Link][1]
            BY <5>2, Resto DEF Intesa, Linea, Collegati
          <6>2. "query" \notin guasti
            BY <1>1, <1>3
          <6>. QED BY <2>3, <3>2, <4>1, <5>2, <6>1, <6>2 DEF Intesa, Risposte
        <5>. QED BY <5>1, <5>2
      <4>. QED BY <4>1, <4>2, <4>3, AttendeEsito DEF InMano
    <3>3. \A k \in 1..Len(giu'[q]) : k \in 1..Len(giu[q]) \/ k = Len(giu[q]) + 1
      BY <3>1
    <3>. QED BY <2>1, <3>1, <3>2, <3>3 DEF EsitiPropri
  <2>. QED BY <2>2, <2>3, ReplicaScritta
<1>4. Propria'
  <2>1. CASE pcG' = "esito"
    <3>1. LeggiDati
      BY <1>1, <2>1
      DEF NextG, ProgrammaG, Operatore, DigitaNomeAppello, DigitaData, Digita, Continua, NuovoAppello,
          UccidiSegreteria, Accetta, AccettaFallita, Sfora, NessunaAttesa, Login, Salta, FineScorri,
          LeggiScelta, LeggiReq, LeggiNome, RispondeRighe, InoltraEsito, EsitoInserimento, Termina, Dopo
    <3>. QED BY <1>1, <3>1, PropriaDati
  <2>2. CASE pcG' # "esito"
    BY <2>2 DEF Propria
  <2>. QED BY <2>1, <2>2
<1>. QED BY <1>2, <1>3, <1>4 DEF Esiti

LEMMA EsitiServer == ASSUME Intesa, Esiti, PassoServer(NextU) PROVE Esiti'
<1>1. /\ UNCHANGED <<varsS, varsG>>
      /\ giu' = giu \/ \E voci : giu' = Messo(giu, Link, "server", voci)
      /\ guasti' = guasti \/ \E quale : Guasto(quale)
      /\ chiuso' = chiuso \/ Chiudi({Link}, "server")
  BY DEF PassoServer, NextU, ProgrammaU, AccettaSegreteria, LeggiRichiesta, LeggiNomeEsame, AggiungiAppello,
         AggiungiPrenotazione, UccidiServer, TerminaServer, Replica, NessunGuasto, varsRete
<1>2. DOMAIN giu = Conn /\ DOMAIN chiuso = Conn /\ guasti \subseteq guasti'
  BY <1>1 DEF Intesa, Dialogo, Posto, Guasto
<1>3. \A q \in Proc : giu'[q] = giu[q] /\ chiuso'[q] = chiuso[q]
  BY <1>1, <1>2, Costanti DEF Messo, Chiudi, Conn
<1>4. \A q \in Proc : Quieto(q)' /\ ("query" \notin guasti' => EsitiPropri(q)')
  BY <1>1, <1>2, <1>3 DEF Esiti, Quieto, EsitiPropri, varsS
<1>5. Propria'
  <2>1. pcG = "esito" => Cliente(i) \in Proc
    BY AttendeEsito
  <2>. QED BY <1>1, <1>3, <2>1 DEF Esiti, Propria, Cliente, varsS, varsG
<1>. QED BY <1>4, <1>5 DEF Esiti

LEMMA PassoEsiti == Intesa /\ Intesa' /\ Esiti /\ [Next]_vars => Esiti'
<1>. SUFFICES ASSUME Intesa, Intesa', Esiti, [Next]_vars PROVE Esiti'
  OBVIOUS
<1>1. CASE UNCHANGED vars
  BY <1>1 DEF vars, varsRete, varsS, varsG, Esiti, Quieto, EsitiPropri, Propria, Cliente
<1>. QED BY <1>1, EsitiStudente, EsitiSegreteria, EsitiServer DEF Next

(* As long as no query failed, the outcome of a booking only goes to the   *)
(* student who asked for it and waits, and is about the exam and the       *)
(* number he sent, whoever is killed at any step.                          *)
THEOREM EsitoSempreProprio == SpecBase => []("query" \notin guasti => EsitoProprio)
<1>1. Init => Esiti
  BY InizioEsiti
<1>2. Esiti => ("query" \notin guasti => EsitoProprio)
  BY DEF Esiti, EsitiPropri, EsitoProprio
<1>. QED BY <1>1, <1>2, PassoEsiti, InvarianteDialogo, PTL DEF SpecBase

-----------------------------------------------------------------------------
(* Bookings that were sent and not yet entered or refused.  A student who  *)
(* sent one waits: it is the last item of his stream.  On the line there   *)
(* is one at most, the one the segreteria has in hand, also when the       *)
(* segreteria has ended meanwhile.                                         *)
InArrivo(p, n, e) ==
  /\ su[p] # <<>>
  /\ LET v == su[p][Len(su[p])] IN v.tipo = "dati" /\ v.num = n /\ v.cod = e
SullaLinea ==
  /\ ServerVivo
  /\ \/ pcU = "select" /\ Len(su[Link]) = 2 /\ su[Link][1].val = 2
     \/ pcU = "idmat" /\ Len(su[Link]) = 1
Pendenti(n, e) ==
  {p \in Proc : InArrivo(p, n, e)} \cup {c \in {Link} : SullaLinea /\ seg_mat = n /\ seg_cod = e}

(* Those made and those on the way are not more than were asked.           *)
Volte(n, e) == IF <<n, e>> \in Numeri \X Codici THEN chieste[<<n, e>>] ELSE 0
Conto(m, e) ==
  /\ IsFiniteSet(Pendenti(m.num, e))
  /\ prenota[<<m, e>>] + Cardinality(Pendenti(m.num, e)) <= Volte(m.num, e)

(* A booking is asked with the number that was typed at the login; and the *)
(* server only waits for its data as long as the segreteria does.          *)
Digitata ==
  \A p \in Proc : pcS[p] \notin {"inizio", "login", "uscita", "finito"} => mat[p] \in Numeri
AttesaDati ==
  "segreteria" \notin guasti /\ ServerVivo /\ (Aperto1(2, 1) \/ Letto("idmat", 0)) => pcG = "dati"

NessunoUcciso == "studente" \notin guasti /\ "segreteria" \notin guasti
Contate ==
  /\ Digitata /\ AttesaDati
  /\ NessunoUcciso => \A m \in Matricola, e \in Esame : Conto(m, e)

-----------------------------------------------------------------------------
(* The count, when bookings are only taken off the way, sent, handed on to *)
(* the server, and entered.                                                *)
LEMMA Numerate ==
  ASSUME Tipato, NEW m \in Matricola, NEW e \in Esame
  PROVE  prenota[<<m, e>>] \in Nat /\ Volte(m.num, e) \in Nat
  BY DEF Tipato, TipoDB, TipoStudente, Volte

LEMMA UnoInPiu ==
  ASSUME NEW S, IsFiniteSet(S), NEW x
  PROVE  /\ IsFiniteSet(S \cup {x}) /\ Cardinality(S \cup {x}) <= Cardinality(S) + 1
         /\ Cardinality(S \cup {x}) \in Nat
<1>1. /\ IsFiniteSet(S \cup {x})
      /\ Cardinality(S \cup {x}) = IF x \in S THEN Cardinality(S) ELSE Cardinality(S) + 1
  BY FS_AddElement
<1>2. Cardinality(S) \in Nat
  BY FS_CardinalityType
<1>. QED BY <1>1, <1>2

LEMMA ContoFermo ==
  ASSUME Tipato, NEW m \in Matricola, NEW e \in Esame, Conto(m, e),
         Pendenti(m.num, e)' \subseteq Pendenti(m.num, e), chieste' = chieste,
         prenota'[<<m, e>>] = prenota[<<m, e>>]
  PROVE  Conto(m, e)'
<1>. PICK P, Q : P = Pendenti(m.num, e) /\ Q = Pendenti(m.num, e)'
  OBVIOUS
<1>1. IsFiniteSet(P) /\ Cardinality(P) \in Nat /\ prenota[<<m, e>>] + Cardinality(P) <= Volte(m.num, e)
  BY FS_CardinalityType DEF Conto
<1>2. IsFiniteSet(Q) /\ Cardinality(Q) \in Nat /\ Cardinality(Q) <= Cardinality(P)
  BY <1>1, FS_Subset, FS_CardinalityType
<1>3. Volte(m.num, e)' = Volte(m.num, e)
  BY DEF Volte
<1>4. prenota[<<m, e>>] + Cardinality(Q) <= Volte(m.num, e)
  BY <1>1, <1>2, Numerate
<1>. QED BY <1>2, <1>3, <1>4 DEF Conto

LEMMA ContoChiesto ==
  ASSUME Tipato, NEW m \in Matricola, NEW e \in Esame, Conto(m, e), prenota' = prenota,
         NEW n \in Numeri, NEW c \in Codici, chieste' = [chieste EXCEPT ![<<n, c>>] = @ + 1],
         NEW p, Pendenti(m.num, e)' \subseteq Pendenti(m.num, e) \cup {p},
         (n = m.num /\ c = e) \/ Pendenti(m.num, e)' \subseteq Pendenti(m.num, e)
  PROVE  Conto(m, e)'
<1>. PICK P, Q : P = Pendenti(m.num, e) /\ Q = Pendenti(m.num, e)'
  OBVIOUS
<1>1. IsFiniteSet(P) /\ Cardinality(P) \in Nat /\ prenota[<<m, e>>] + Cardinality(P) <= Volte(m.num, e)
  BY FS_CardinalityType DEF Conto
<1>2. CASE n = m.num /\ c = e
  <2>1. Volte(m.num, e)' = Volte(m.num, e) + 1
    BY <1>2 DEF Volte, Tipato, TipoStudente
  <2>2. IsFiniteSet(P \cup {p}) /\ Cardinality(P \cup {p}) <= Cardinality(P) + 1
        /\ Cardinality(P \cup {p}) \in Nat
    BY <1>1, UnoInPiu
  <2>3. IsFiniteSet(Q) /\ Cardinality(Q) \in Nat /\ Cardinality(Q) <= Cardinality(P \cup {p})
    BY <2>2, FS_Subset, FS_CardinalityType
  <2>4. prenota[<<m, e>>] + Cardinality(Q) <= Volte(m.num, e) + 1
    BY <1>1, <2>2, <2>3, Numerate
  <2>. QED BY <2>1, <2>3, <2>4 DEF Conto
<1>3. CASE ~(n = m.num /\ c = e)
  <2>1. Volte(m.num, e)' = Volte(m.num, e)
    BY <1>3 DEF Volte, Tipato, TipoStudente
  <2>2. IsFiniteSet(Q) /\ Cardinality(Q) \in Nat /\ Cardinality(Q) <= Cardinality(P)
    BY <1>1, <1>3, FS_Subset, FS_CardinalityType
  <2>3. prenota[<<m, e>>] + Cardinality(Q) <= Volte(m.num, e)
    BY <1>1, <2>2, Numerate
  <2>. QED BY <2>1, <2>2, <2>3 DEF Conto
<1>. QED BY <1>2, <1>3

LEMMA ContoPassato ==
  ASSUME Tipato, NEW m \in Matricola, NEW e \in Esame, Conto(m, e), UNCHANGED <<prenota, chieste>>,
         NEW p, NEW x, Pendenti(m.num, e)' \subseteq (Pendenti(m.num, e) \ {p}) \cup {x},
         x \in Pendenti(m.num, e)' => p \in Pendenti(m.num, e)
  PROVE  Conto(m, e)'
<1>. PICK P, Q : P = Pendenti(m.num, e) /\ Q = Pendenti(m.num, e)'
  OBVIOUS
<1>1. IsFiniteSet(P) /\ Cardinality(P) \in Nat /\ prenota[<<m, e>>] + Cardinality(P) <= Volte(m.num, e)
  BY FS_CardinalityType DEF Conto
<1>2. Volte(m.num, e)' = Volte(m.num, e)
  BY DEF Volte
<1>3. CASE p \in P
  <2>1. /\ IsFiniteSet(P \ {p}) /\ Cardinality(P \ {p}) = Cardinality(P) - 1
    BY <1>1, <1>3, FS_RemoveElement
  <2>2. /\ IsFiniteSet((P \ {p}) \cup {x}) /\ Cardinality((P \ {p}) \cup {x}) <= Cardinality(P)
        /\ Cardinality((P \ {p}) \cup {x}) \in Nat
    <3>. PICK R : R = P \ {p}
      OBVIOUS
    <3>1. IsFiniteSet(R \cup {x}) /\ Cardinality(R \cup {x}) <= Cardinality(R) + 1
          /\ Cardinality(R \cup {x}) \in Nat
      BY <2>1, UnoInPiu
    <3>2. Cardinality(R) + 1 = Cardinality(P)
      BY <1>1, <2>1
    <3>. QED BY <3>1, <3>2
  <2>3. IsFiniteSet(Q) /\ Cardinality(Q) \in Nat /\ Cardinality(Q) <= Cardinality((P \ {p}) \cup {x})
    BY <2>2, FS_Subset, FS_CardinalityType
  <2>4. prenota[<<m, e>>] + Cardinality(Q) <= Volte(m.num, e)
    BY <1>1, <2>2, <2>3, Numerate
  <2>. QED BY <1>2, <2>3, <2>4 DEF Conto
<1>4. CASE p \notin P
  <2>1. Q \subseteq P
    BY <1>4
  <2>. QED BY <2>1, ContoFermo
<1>. QED BY <1>3, <1>4

LEMMA ContoFatto ==
  ASSUME Tipato, NEW m \in Matricola, NEW e \in Esame, Conto(m, e), chieste' = chieste,
         NEW x \in Pendenti(m.num, e), Pendenti(m.num, e)' \subseteq Pendenti(m.num, e) \ {x},
         prenota'[<<m, e>>] = prenota[<<m, e>>] + 1
  PROVE  Conto(m, e)'
<1>. PICK P, Q : P = Pendenti(m.num, e) /\ Q = Pendenti(m.num, e)'
  OBVIOUS
<1>1. IsFiniteSet(P) /\ Cardinality(P) \in Nat /\ prenota[<<m, e>>] + Cardinality(P) <= Volte(m.num, e)
  BY FS_CardinalityType DEF Conto
<1>2. IsFiniteSet(P \ {x}) /\ Cardinality(P \ {x}) = Cardinality(P) - 1
  BY <1>1, FS_RemoveElement
<1>3. IsFiniteSet(Q) /\ Cardinality(Q) \in Nat /\ Cardinality(Q) <= Cardinality(P) - 1
  BY <1>2, FS_Subset, FS_CardinalityType
<1>4. Volte(m.num, e)' = Volte(m.num, e)
  BY DEF Volte
<1>5. prenota[<<m, e>>] + 1 + Cardinality(Q) <= Volte(m.num, e)
  BY <1>1, <1>3, Numerate
<1>. QED BY <1>3, <1>4, <1>5 DEF Conto

(* A stream from which the first item is read, or at whose end another one *)
(* than a booking is put, carries no new booking.                          *)
CalaSu(p) == \A n, e : InArrivo(p, n, e)' => InArrivo(p, n, e)

LEMMA LettaCala ==
  ASSUME NEW p, Sequenza(su[p]),
         su'[p] = su[p] \/ (su[p] # <<>> /\ su'[p] = Tail(su[p]))
  PROVE  CalaSu(p)
<1>1. CASE su'[p] = su[p]
  BY <1>1 DEF CalaSu, InArrivo
<1>2. CASE su[p] # <<>> /\ su'[p] = Tail(su[p])
  <2>1. /\ Len(su[p]) \in Nat \ {0} /\ Len(su'[p]) = Len(su[p]) - 1
        /\ \A k \in 1..Len(su'[p]) : su'[p][k] = su[p][k + 1]
    BY <1>2, Resto
  <2>2. su'[p] # <<>> => Len(su'[p]) # 0
    BY <1>2, Letta
  <2>3. su'[p] # <<>> => su'[p][Len(su'[p])] = su[p][Len(su[p])]
    BY <2>1, <2>2
  <2>. QED BY <1>2, <2>3 DEF CalaSu, InArrivo
<1>. QED BY <1>1, <1>2

LEMMA ScrittaArriva ==
  ASSUME NEW p, Sequenza(su[p]), NEW v, su'[p] = su[p] \/ su'[p] = su[p] \o <<v>>,
         NEW n, NEW e, InArrivo(p, n, e)'
  PROVE  InArrivo(p, n, e) \/ (v.tipo = "dati" /\ v.num = n /\ v.cod = e)
<1>1. CASE su'[p] = su[p]
  BY <1>1 DEF InArrivo
<1>2. CASE su'[p] = su[p] \o <<v>>
  <2>1. Len(su'[p]) = Len(su[p]) + 1 /\ su'[p][Len(su[p]) + 1] = v
    BY <1>2, InFondo
  <2>. QED BY <2>1 DEF InArrivo
<1>. QED BY <1>1, <1>2

LEMMA Calano ==
  ASSUME \A p \in Proc : CalaSu(p), SullaLinea' => SullaLinea /\ UNCHANGED <<seg_mat, seg_cod>>
  PROVE  \A n, e : Pendenti(n, e)' \subseteq Pendenti(n, e)
  BY DEF Pendenti, CalaSu

LEMMA InizioContate == ASSUME Init PROVE Contate
<1>1. \A p \in Proc : pcS[p] = "inizio" /\ su[p] = <<>>
  BY DEF Init, InitS, InitR, Conn
<1>2. su[Link] = <<>> /\ Len(su[Link]) = 0 /\ pcU # "idmat"
  BY VuotaSequenza DEF Init, InitR, InitU, Conn
<1>3. Digitata /\ AttesaDati /\ ~SullaLinea
  BY <1>1, <1>2 DEF Digitata, AttesaDati, SullaLinea, Aperto1, Letto
<1>4. ASSUME NEW m \in Matricola, NEW e \in Esame PROVE Conto(m, e)
  <2>1. Pendenti(m.num, e) = {}
    BY <1>1, <1>3 DEF Pendenti, InArrivo
  <2>2. prenota[<<m, e>>] = 0 /\ Volte(m.num, e) \in Nat
    BY DEF Init, InitDB, InitS, Volte
  <2>3. IsFiniteSet({}) /\ Cardinality({}) = 0
    BY FS_EmptySet
  <2>. QED BY <2>1, <2>2, <2>3 DEF Conto
<1>. QED BY <1>3, <1>4 DEF Contate

(* Only the data a student types are a new booking.                        *)
LEMMA ContateStudente ==
  ASSUME Intesa, Tipato, Contate, PassoStudente(NextS) PROVE Contate'
<1>1. PICK p \in Proc :
        \/ Utente(p) \/ Programma(p)
        \/ \E k \in Scelte : Scegli(p, k)
        \/ UccidiStudente(p)
  BY DEF PassoStudente, NextS
<1>2. /\ UNCHANGED <<varsG, varsU, prenota>> /\ pcS \in [Proc -> StatiS] /\ DOMAIN su = Conn
      /\ DOMAIN mat = Proc /\ Sequenza(su[p]) /\ p \in Conn /\ p # Link
  BY Costanti DEF PassoStudente, varsDB, Intesa, IInv, Tipi, Dialogo, Colloquio, Linea, Collegati, Conn
<1>3. /\ guasti \subseteq guasti'
      /\ su' = su \/ \E v : su' = Messo(su, p, "client", <<v>>) \/ su' = Messo(su, p, "client", <<>>)
  <2>1. CASE Utente(p)
    BY <2>1 DEF Utente, InviaCredenziali, ScegliReq, DigitaNome, DigitaCod, Scrive
  <2>2. CASE Programma(p)
    BY <2>2 DEF Programma, Connetti, EsitoLogin, RiceviRighe, RiceviEsito, Esci, Legge
  <2>3. CASE (\E k \in Scelte : Scegli(p, k)) \/ UccidiStudente(p)
    BY <2>3 DEF Scegli, Scrive, UccidiStudente, Guasto
  <2>. QED BY <1>1, <2>1, <2>2, <2>3
<1>4. \A q \in Conn \ {p} : su'[q] = su[q]
  BY <1>2, <1>3 DEF Messo
<1>5. SullaLinea' => SullaLinea /\ UNCHANGED <<seg_mat, seg_cod>>
  <2>1. su'[Link] = su[Link]
    BY <1>2, <1>4 DEF Conn
  <2>. QED BY <1>2, <2>1 DEF SullaLinea, ServerVivo, varsG, varsU
<1>6. AttesaDati'
  <2>1. su'[Link] = su[Link]
    BY <1>2, <1>4 DEF Conn
  <2>. QED BY <1>2, <1>3, <2>1 DEF Contate, AttesaDati, ServerVivo, Aperto1, Letto, varsG, varsU
<1>7. Digitata'
  <2>1. ASSUME NEW q \in Proc, pcS'[q] \notin {"inizio", "login", "uscita", "finito"}
        PROVE  mat'[q] \in Numeri
    <3>1. CASE \E n \in Numeri, w \in Password : InviaCredenziali(p, n, w)
      BY <1>2, <2>1, <3>1 DEF Contate, Digitata, InviaCredenziali, Scrive, Vai
    <3>2. CASE Connetti(p)
      BY <1>2, <2>1, <3>2 DEF Contate, Digitata, Connetti, Vai
    <3>3. CASE /\ Utente(p) \/ (\E k \in Scelte : Scegli(p, k))
               /\ ~\E n \in Numeri, w \in Password : InviaCredenziali(p, n, w)
      BY <1>2, <2>1, <3>3 DEF Contate, Digitata, Utente, ScegliReq, DigitaNome, DigitaCod, Scegli, Scrive, Vai
    <3>4. CASE UccidiStudente(p) \/ (Programma(p) /\ ~Connetti(p))
      BY <1>2, <2>1, <3>4 DEF Contate, Digitata, Programma, EsitoLogin, RiceviRighe, RiceviEsito, Esci, Legge,
                              UccidiStudente, Vai
    <3>. QED BY <1>1, <3>1, <3>2, <3>3, <3>4
  <2>. QED BY <2>1 DEF Digitata
<1>8. ASSUME NessunoUcciso', NEW m \in Matricola, NEW e \in Esame PROVE Conto(m, e)'
  <2>1. Conto(m, e)
    BY <1>3, <1>8 DEF Contate, NessunoUcciso
  <2>2. \A q \in Proc \ {p} : CalaSu(q)
    BY <1>4 DEF CalaSu, InArrivo, Conn
  <2>3. CASE \E c \in Codici : DigitaCod(p, c)
    <3>1. PICK c \in Codici : DigitaCod(p, c)
      BY <2>3
    <3>2. PICK n \in Numeri : n = mat[p]
      BY <3>1 DEF DigitaCod, Contate, Digitata
    <3>3. chieste' = [chieste EXCEPT ![<<n, c>>] = @ + 1]
      BY <3>1, <3>2 DEF DigitaCod
    <3>4. su'[p] = su[p] \/ su'[p] = su[p] \o <<Dati(n, c)>>
      BY <1>2, <3>1, <3>2 DEF DigitaCod, Scrive, Messo
    <3>5. Dati(n, c).num = n /\ Dati(n, c).cod = c
      BY DEF Dati
    <3>6. InArrivo(p, m.num, e)' => InArrivo(p, m.num, e) \/ (n = m.num /\ c = e)
      BY <1>2, <3>4, <3>5, ScrittaArriva
    <3>7. Pendenti(m.num, e)' \subseteq Pendenti(m.num, e) \cup {p}
      BY <1>5, <2>2 DEF Pendenti, CalaSu
    <3>8. (n = m.num /\ c = e) \/ Pendenti(m.num, e)' \subseteq Pendenti(m.num, e)
      BY <1>5, <2>2, <3>6 DEF Pendenti, CalaSu
    <3>. QED BY <1>2, <2>1, <3>3, <3>7, <3>8, ContoChiesto
  <2>4. CASE ~\E c \in Codici : DigitaCod(p, c)
    <3>1. /\ chieste' = chieste
          /\ \/ su' = su \/ su' = Messo(su, p, "client", <<>>)
             \/ \E v : v.tipo # "dati" /\ su' = Messo(su, p, "client", <<v>>)
      <4>1. \A n, w : /\ Credenziali(n, w).tipo # "dati" /\ Richiesta(n).tipo # "dati"
                      /\ Nome(n).tipo # "dati" /\ Scelta(n).tipo # "dati"
        BY DEF Credenziali, Richiesta, Nome, Scelta
      <4>2. CASE Utente(p)
        BY <2>4, <4>1, <4>2 DEF Utente, InviaCredenziali, ScegliReq, DigitaNome, Scrive
      <4>3. CASE Programma(p)
        BY <4>3 DEF Programma, Connetti, EsitoLogin, RiceviRighe, RiceviEsito, Esci, Legge
      <4>4. CASE (\E k \in Scelte : Scegli(p, k)) \/ UccidiStudente(p)
        BY <4>1, <4>4 DEF Scegli, Scrive, UccidiStudente
      <4>. QED BY <1>1, <4>2, <4>3, <4>4
    <3>2. su'[p] = su[p] \/ \E v : v.tipo # "dati" /\ su'[p] = su[p] \o <<v>>
      BY <1>2, <3>1, ConcatEmptySeq DEF Messo, Sequenza
    <3>3. CalaSu(p)
      <4>1. CASE su'[p] = su[p]
        BY <4>1 DEF CalaSu, InArrivo
      <4>2. CASE \E v : v.tipo # "dati" /\ su'[p] = su[p] \o <<v>>
        BY <1>2, <4>2, ScrittaArriva DEF CalaSu
      <4>. QED BY <3>2, <4>1, <4>2
    <3>4. Pendenti(m.num, e)' \subseteq Pendenti(m.num, e)
      BY <1>5, <2>2, <3>3, Calano
    <3>. QED BY <1>2, <2>1, <3>1, <3>4, ContoFermo
  <2>. QED BY <2>3, <2>4
<1>. QED BY <1>6, <1>7, <1>8 DEF Contate

(* While the segreteria goes on, a booking on the line is the one it has   *)
(* in hand, and the server waits for data only while the segreteria does.  *)
LEMMA LineaInMano ==
  ASSUME Linea, SegreteriaViva
  PROVE  /\ SullaLinea => pcG = "esito"
         /\ ServerVivo /\ (Aperto1(2, 1) \/ Letto("idmat", 0)) => pcG = "dati"
<1>1. ASSUME ServerVivo PROVE Fase /\ pcG \in StatiG
  BY <1>1 DEF Linea, Scambio
<1>2. pcG \in StatiG => pcG \in Quiete \cup {"dati", "esito", "nome", "data", "esitoAppello"}
  BY DEF StatiG, Quiete, SegreteriaViva
<1>. QED BY <1>1, <1>2 DEF SullaLinea, Fase, Letto, Aperto1, Risposto, ServerVivo

(* What the steps of the segreteria, apart from the booking, take away.    *)
LEMMA SegreteriaCala ==
  ASSUME Intesa, PassoSegreteria(NextG), ~LeggiDati
  PROVE  /\ \A p \in Proc : CalaSu(p)
         /\ UNCHANGED <<seg_mat, seg_cod>>
         /\ ~SegreteriaViva' => su'[Link] = su[Link] \/ pcU = "finito"
<1>1. NextG /\ DOMAIN su = Conn /\ \A p \in Proc : Sequenza(su[p])
  BY DEF PassoSegreteria, Intesa, Linea, Collegati, Dialogo, Colloquio
<1>2. CASE Login \/ LeggiReq \/ LeggiNome \/ LeggiScelta
  <2>. PICK p : p = InCorso
    OBVIOUS
  <2>1. p \in Proc /\ p # Link
    <3>1. \/ pcG \in Fermi \cup {"credenziali"}
          \/ pcG = "scorri" /\ i <= dim /\ DaServire(i)
      BY <1>2 DEF Login, LeggiReq, LeggiNome, LeggiScelta, Fermi
    <3>. QED BY <3>1, Interlocutore
  <2>2. /\ \/ su' = Tolto(su, p)
           \/ /\ \E v : su' = Messo(Tolto(su, p), Link, "client", <<v>>)
              /\ pcG' = "dati" \/ Sigpipe(Link, "client", 1)
        /\ UNCHANGED <<seg_mat, seg_cod>>
    <3>1. CASE Login \/ LeggiReq \/ LeggiNome
      <4>1. su' = Tolto(su, InCorso) /\ UNCHANGED <<seg_mat, seg_cod>>
        BY <3>1 DEF Login, LeggiReq, LeggiNome, InCorso, varsLette
      <4>. QED BY <4>1
    <3>2. CASE LeggiScelta
      <4>. PICK b : b = IF su[p] # <<>> THEN Head(su[p]).val ELSE behaviour
        OBVIOUS
      <4>1. p = Cliente(i)
        BY <3>2 DEF LeggiScelta, InCorso
      <4>2. /\ su' = IF b = 2 THEN Messo(Tolto(su, p), Link, "client", <<Scelta(b)>>) ELSE Tolto(su, p)
            /\ b = 2 => pcG' = "dati" \/ Sigpipe(Link, "client", 1)
            /\ UNCHANGED <<seg_mat, seg_cod>>
        BY <3>2, <4>1 DEF LeggiScelta, Dopo
      <4>. QED BY <4>2
    <3>. QED BY <1>2, <3>1, <3>2
  <2>3. ASSUME NEW q \in Proc PROVE CalaSu(q)
    <3>1. su'[q] = su[q] \/ (su[q] # <<>> /\ su'[q] = Tail(su[q]))
      BY <1>1, <2>1, <2>2, Costanti DEF Tolto, Messo, Conn
    <3>. QED BY <1>1, <3>1, LettaCala
  <2>4. ~SegreteriaViva' => su'[Link] = su[Link] \/ pcU = "finito"
    <3>1. CASE su' = Tolto(su, p)
      BY <1>1, <2>1, <3>1 DEF Tolto, Conn
    <3>2. CASE pcG' = "dati"
      BY <3>2 DEF SegreteriaViva
    <3>3. CASE Sigpipe(Link, "client", 1)
      BY <3>3 DEF Sigpipe, Chiusa, Altro, Intesa, Linea, Collegati
    <3>. QED BY <2>2, <3>1, <3>2, <3>3
  <2>. QED BY <2>2, <2>3, <2>4
<1>3. CASE Operatore \/ NuovoAppello
  <2>1. /\ \E voci : su' = Messo(su, Link, "client", voci)
        /\ pcG' \in {"nome", "data", "esitoAppello"} \/ Sigpipe(Link, "client", 1)
        /\ UNCHANGED <<seg_mat, seg_cod>>
    BY <1>3 DEF Operatore, NuovoAppello, DigitaNomeAppello, DigitaData, Digita, varsLette, Dopo
  <2>2. \A q \in Proc : su'[q] = su[q]
    BY <1>1, <2>1, Costanti DEF Messo, Conn
  <2>3. \A q \in Proc : CalaSu(q)
    BY <2>2 DEF CalaSu, InArrivo
  <2>. QED BY <2>1, <2>3 DEF SegreteriaViva, Sigpipe, Chiusa, Altro, Intesa, Linea, Collegati
<1>4. CASE ~(Login \/ LeggiReq \/ LeggiNome \/ LeggiScelta \/ Operatore \/ NuovoAppello)
  <2>1. UNCHANGED <<su, seg_mat, seg_cod>>
    BY <1>1, <1>4
    DEF NextG, ProgrammaG, Continua, UccidiSegreteria, Accetta, AccettaFallita, Sfora, NessunaAttesa, Salta,
        FineScorri, InoltraEsito, EsitoInserimento, Termina, varsLette, varsRete
  <2>. QED BY <2>1 DEF CalaSu, InArrivo
<1>. QED BY <1>2, <1>3, <1>4

(* The data of a student who was not killed are his booking, and the last  *)
(* thing he sent; nothing is on the line yet.                              *)
LEMMA DatiPassati ==
  ASSUME Intesa, Tipato, LeggiDati, "studente" \notin guasti, NEW p, p = Cliente(i)
  PROVE  /\ p \in Proc /\ ~SullaLinea
         /\ InArrivo(p, seg_mat', seg_cod') /\ \A n, e : ~InArrivo(p, n, e)'
         /\ \A q \in Proc \ {p} : su'[q] = su[q]
<1>. PICK d : d = DatiLetti(p)
  OBVIOUS
<1>1. /\ pcG = "dati" /\ p = InCorso /\ Pronto(p, "server") /\ seg_cod' = d.cod /\ seg_mat' = d.num
      /\ su' = Messo(Tolto(su, p), Link, "client", <<d>>) /\ DOMAIN su = Conn
  BY DEF LeggiDati, InCorso, Intesa, Linea, Collegati
<1>2. p \in Proc /\ p # Link /\ InFd(p) /\ SegreteriaViva /\ Turno(p) = "dati"
  BY <1>1, Interlocutore DEF Fermi, Legge1
<1>3. Accordo(p) /\ Sequenza(su[p]) /\ Chiusura(p)
  BY <1>2 DEF Intesa, Posto, Aperta, InDialogo, Dialogo, Colloquio
<1>4. su[p] # <<>>
  <2>. SUFFICES ASSUME su[p] = <<>> PROVE FALSE
    OBVIOUS
  <2>1. pcS[p] = "finito"
    BY <1>1, <1>3 DEF Pronto, Arrivo, Chiusa, Altro, Chiusura
  <2>2. Poi(su[p], Turno(p)) = "dati"
    BY <1>2 DEF Poi
  <2>. QED BY <1>2, <1>3, <2>1, <2>2 DEF Accordo, Congedo
<1>5. /\ Head(su[p]).tipo = "dati" /\ d = Head(su[p])
      /\ Seguito(Head(su[p])) \notin TipiStudente => Tail(su[p]) = <<>>
      /\ Tail(su[p]) = <<>> => Head(su[p]) = su[p][Len(su[p])]
  BY <1>2, <1>3, <1>4, CatenaLetta DEF Accordo, DatiLetti
<1>6. Tail(su[p]) = <<>> /\ d = su[p][Len(su[p])]
  <2>1. Seguito(Head(su[p])) = "esito" /\ "esito" \notin TipiStudente
    BY <1>5 DEF Seguito, TipiStudente
  <2>. QED BY <1>5, <2>1
<1>7. InArrivo(p, seg_mat', seg_cod')
  BY <1>1, <1>4, <1>5, <1>6 DEF InArrivo
<1>8. su'[p] = <<>> /\ \A q \in Proc \ {p} : su'[q] = su[q]
  BY <1>1, <1>2, <1>4, <1>6, Costanti DEF Tolto, Messo, Conn
<1>9. ~SullaLinea
  BY <1>1, <1>2, LineaInMano DEF Intesa
<1>. QED BY <1>2, <1>7, <1>8, <1>9 DEF InArrivo

LEMMA ContateSegreteria ==
  ASSUME Intesa, Intesa', Tipato, Contate, PassoSegreteria(NextG) PROVE Contate'
<1>1. NextG /\ UNCHANGED <<varsS, varsU, prenota>> /\ guasti \subseteq guasti'
  <2>1. guasti' = guasti \/ \E quale : Guasto(quale)
    BY DEF PassoSegreteria, NextG, ProgrammaG, Operatore, NuovoAppello, DigitaNomeAppello, DigitaData, Digita,
       EsitoInserimento, Accetta, AccettaFallita, Sfora, NessunaAttesa, Salta, FineScorri, Continua, Login,
       UccidiSegreteria, Termina, LeggiScelta, LeggiDati, LeggiReq, LeggiNome, RispondeRighe, InoltraEsito,
       NessunGuasto, varsRete
  <2>2. prenota' = prenota
    BY DEF PassoSegreteria, NextG, ProgrammaG, Operatore, NuovoAppello, DigitaNomeAppello, DigitaData, Digita,
       EsitoInserimento, Accetta, AccettaFallita, Sfora, NessunaAttesa, Salta, FineScorri, Continua, Login,
       UccidiSegreteria, Termina, LeggiScelta, LeggiDati, LeggiReq, LeggiNome, InoltraEsito, varsAltriG
  <2>. QED BY <2>1, <2>2 DEF PassoSegreteria, Guasto
<1>2. Digitata'
  BY <1>1 DEF Contate, Digitata, varsS
<1>3. AttesaDati'
  <2>. SUFFICES ASSUME "segreteria" \notin guasti', ServerVivo', Aperto1(2, 1)' \/ Letto("idmat", 0)'
                PROVE  pcG' = "dati"
    BY DEF AttesaDati
  <2>1. CASE SegreteriaViva'
    <3>1. (SegreteriaViva => (ServerVivo /\ (Aperto1(2, 1) \/ Letto("idmat", 0)) => pcG = "dati"))'
      <4>1. Linea'
        BY DEF Intesa
      <4>. QED BY <4>1, LineaInMano, PTL
    <3>. QED BY <2>1, <3>1
  <2>2. CASE ~SegreteriaViva'
    <3>1. ~LeggiDati \/ pcU = "finito"
      BY <2>2 DEF LeggiDati, Dopo, SegreteriaViva, Sigpipe, Chiusa, Altro, Intesa, Linea, Collegati
    <3>2. su'[Link] = su[Link] /\ pcU' = pcU
      BY <1>1, <2>2, <3>1, SegreteriaCala DEF varsU, ServerVivo
    <3>3. pcG = "dati"
      BY <1>1, <3>2 DEF Contate, AttesaDati, ServerVivo, Aperto1, Letto
    <3>4. UccidiSegreteria
      BY <1>1, <2>2, <3>1, <3>2, <3>3
      DEF NextG, ProgrammaG, Operatore, DigitaNomeAppello, DigitaData, Continua, NuovoAppello, Accetta,
          AccettaFallita, Sfora, NessunaAttesa, Login, Salta, FineScorri, LeggiScelta, LeggiReq, LeggiNome,
          InoltraEsito, EsitoInserimento, Termina, ServerVivo
    <3>. QED BY <3>4 DEF UccidiSegreteria, Guasto
  <2>. QED BY <2>1, <2>2
<1>4. ASSUME NessunoUcciso', NEW m \in Matricola, NEW e \in Esame PROVE Conto(m, e)'
  <2>1. Conto(m, e) /\ "studente" \notin guasti
    BY <1>1, <1>4 DEF Contate, NessunoUcciso
  <2>2. CASE LeggiDati
    <3>. PICK p : p = Cliente(i)
      OBVIOUS
    <3>1. /\ p \in Proc /\ ~SullaLinea
          /\ InArrivo(p, seg_mat', seg_cod') /\ \A n, c : ~InArrivo(p, n, c)'
          /\ \A q \in Proc \ {p} : su'[q] = su[q]
      BY <2>1, <2>2, DatiPassati
    <3>2. Pendenti(m.num, e)' \subseteq (Pendenti(m.num, e) \ {p}) \cup {Link}
      BY <3>1 DEF Pendenti, InArrivo
    <3>3. Link \in Pendenti(m.num, e)' => p \in Pendenti(m.num, e)
      BY <3>1, Costanti DEF Pendenti
    <3>. QED BY <1>1, <2>1, <3>2, <3>3, ContoPassato DEF varsS
  <2>3. CASE ~LeggiDati
    <3>1. /\ \A p \in Proc : CalaSu(p)
          /\ UNCHANGED <<seg_mat, seg_cod>>
          /\ ~SegreteriaViva' => su'[Link] = su[Link] \/ pcU = "finito"
      BY <2>3, SegreteriaCala
    <3>2. SullaLinea' => SullaLinea
      <4>1. CASE SegreteriaViva'
        <5>1. (SegreteriaViva => (SullaLinea => pcG = "esito"))'
          <6>1. Linea'
            BY DEF Intesa
          <6>. QED BY <6>1, LineaInMano, PTL
        <5>2. pcG' # "esito"
          BY <1>1, <2>3
          DEF NextG, ProgrammaG, Operatore, DigitaNomeAppello, DigitaData, Digita, Continua, NuovoAppello,
              UccidiSegreteria, Accetta, AccettaFallita, Sfora, NessunaAttesa, Login, Salta, FineScorri,
              LeggiScelta, LeggiReq, LeggiNome, RispondeRighe, InoltraEsito, EsitoInserimento, Termina, Dopo
        <5>. QED BY <4>1, <5>1, <5>2
      <4>2. CASE ~SegreteriaViva'
        BY <1>1, <3>1, <4>2 DEF SullaLinea, ServerVivo, varsU
      <4>. QED BY <4>1, <4>2
    <3>3. Pendenti(m.num, e)' \subseteq Pendenti(m.num, e)
      BY <3>1, <3>2, Calano
    <3>. QED BY <1>1, <2>1, <3>3, ContoFermo DEF varsS
  <2>. QED BY <2>2, <2>3
<1>. QED BY <1>2, <1>3, <1>4 DEF Contate

(* The server reads a request, or the end of one, and enters a booking     *)
(* only when it has its data, which are the ones the segreteria forwarded. *)
LEMMA RichiestaCala ==
  ASSUME Linea, Voci, LeggiRichiesta
  PROVE  /\ SullaLinea' => SullaLinea
         /\ Aperto1(2, 1)' \/ Letto("idmat", 0)' => Aperto1(2, 1)
<1>. DEFINE s == su[Link]
<1>1. /\ pcU = "select" /\ ServerVivo /\ su'[Link] = (IF s = <<>> THEN s ELSE Tail(s))
      /\ pcU' = IF s = <<>> THEN "select"
                ELSE IF Head(s).val = 1 THEN "nome"
                ELSE IF Head(s).val = 2 THEN "idmat" ELSE "select"
  BY DEF LeggiRichiesta, ServerVivo, Tolto, Linea, Collegati, Conn
<1>2. Sequenza(s) /\ (s = <<>> <=> Len(s) = 0)
  BY Letta DEF Linea, Collegati
<1>. HIDE DEF s
<1>3. CASE s = <<>>
  <2>1. Len(su'[Link]) = 0 /\ pcU' = "select"
    BY <1>1, <1>2, <1>3
  <2>. QED BY <2>1 DEF SullaLinea, Aperto1, Letto
<1>4. CASE s # <<>>
  <2>1. Len(s) \in Nat \ {0} /\ Len(su'[Link]) = Len(s) - 1 /\ Head(s) = s[1]
    BY <1>1, <1>2, <1>4, Resto
  <2>2. \/ Len(s) \in 1..3 /\ s[1].val = 1
        \/ Len(s) \in 1..2 /\ s[1].val = 2
    BY <1>1, <2>1 DEF Voci, s
  <2>3. pcU' = IF s[1].val = 1 THEN "nome" ELSE "idmat"
    BY <1>1, <1>4, <2>1, <2>2
  <2>. QED BY <1>1, <2>1, <2>2, <2>3 DEF SullaLinea, Aperto1, Letto, s
<1>. QED BY <1>3, <1>4

LEMMA FineRichiesta ==
  ASSUME Linea, Voci, pcU \in {"data", "idmat"}, su' = Tolto(su, Link), pcU' \in {"select", "uscita"}
  PROVE  ~SullaLinea' /\ ~Aperto1(2, 1)' /\ ~Letto("idmat", 0)'
<1>1. /\ su'[Link] = (IF su[Link] = <<>> THEN su[Link] ELSE Tail(su[Link]))
      /\ Sequenza(su[Link]) /\ (su[Link] = <<>> <=> Len(su[Link]) = 0)
  BY Letta DEF Tolto, Linea, Collegati, Conn
<1>2. Len(su[Link]) = 0 \/ Len(su[Link]) = 1
  BY DEF Voci, ServerVivo
<1>3. Len(su'[Link]) = 0
  <2>1. CASE su[Link] = <<>>
    BY <1>1, <2>1
  <2>2. CASE su[Link] # <<>>
    <3>1. Len(Tail(su[Link])) = Len(su[Link]) - 1
      BY <1>1, <2>2, Resto
    <3>. QED BY <1>1, <1>2, <2>2, <3>1
  <2>. QED BY <2>1, <2>2
<1>. QED BY <1>3 DEF SullaLinea, Aperto1, Letto

LEMMA ServerCala ==
  ASSUME Intesa, PassoServer(NextU)
  PROVE  /\ SullaLinea' => SullaLinea
         /\ ServerVivo' /\ (Aperto1(2, 1)' \/ Letto("idmat", 0)') =>
              ServerVivo /\ (Aperto1(2, 1) \/ Letto("idmat", 0))
         /\ AggiungiPrenotazione => ~SullaLinea'
<1>1. NextU /\ Linea /\ Voci
  BY DEF PassoServer, Intesa
<1>2. CASE LeggiRichiesta
  BY <1>1, <1>2, RichiestaCala DEF LeggiRichiesta, AggiungiPrenotazione, ServerVivo
<1>3. CASE AggiungiAppello \/ AggiungiPrenotazione
  <2>1. pcU \in {"data", "idmat"} /\ su' = Tolto(su, Link) /\ pcU' \in {"select", "uscita"}
    BY <1>3 DEF AggiungiAppello, AggiungiPrenotazione, Replica
  <2>. QED BY <1>1, <2>1, FineRichiesta
<1>4. CASE LeggiNomeEsame
  BY <1>4 DEF LeggiNomeEsame, SullaLinea, Aperto1, Letto, AggiungiPrenotazione
<1>5. CASE AccettaSegreteria
  BY <1>5 DEF AccettaSegreteria, SullaLinea, Aperto1, Letto, ServerVivo, AggiungiPrenotazione, varsRete
<1>6. CASE UccidiServer \/ TerminaServer
  BY <1>6 DEF UccidiServer, TerminaServer, SullaLinea, ServerVivo, AggiungiPrenotazione
<1>. QED BY <1>1, <1>2, <1>3, <1>4, <1>5, <1>6 DEF NextU, ProgrammaU

LEMMA PrenotazioneAttesa ==
  ASSUME Intesa, AttesaDati, "segreteria" \notin guasti, AggiungiPrenotazione
  PROVE  SullaLinea /\ matU' = seg_mat /\ idU' = seg_cod
<1>. DEFINE s == su[Link]
<1>1. /\ pcU = "idmat" /\ ServerVivo /\ Pronto(Link, "server")
      /\ s # <<>> => idU' = Head(s).cod /\ matU' = Head(s).num
  BY DEF AggiungiPrenotazione, ServerVivo
<1>2. Sequenza(s) /\ (s = <<>> <=> Len(s) = 0)
  BY Letta DEF Intesa, Linea, Collegati
<1>3. s # <<>>
  <2>. SUFFICES ASSUME s = <<>> PROVE FALSE
    OBVIOUS
  <2>1. Letto("idmat", 0)
    BY <1>1, <1>2 DEF Letto
  <2>2. pcG = "dati"
    BY <1>1, <2>1 DEF AttesaDati
  <2>. QED BY <1>1, <2>2 DEF Intesa, Linea, Collegati, Pronto, Arrivo, Chiusa, Altro
<1>4. Len(s) = 1 /\ InMano(s[1])
  BY <1>1, <1>2, <1>3 DEF Intesa, Voci
<1>5. Head(s) = s[1]
  BY <1>2, <1>3, Resto
<1>. QED BY <1>1, <1>3, <1>4, <1>5 DEF SullaLinea, InMano

LEMMA ContateServer ==
  ASSUME Intesa, Intesa', Tipato, Contate, PassoServer(NextU) PROVE Contate'
<1>1. /\ NextU /\ UNCHANGED <<varsS, varsG>>
      /\ su' = su \/ su' = Tolto(su, Link) \/ \E k \in Presi(su, Link) : su' = Senza(su, Link, k)
      /\ guasti' = guasti \/ \E quale : Guasto(quale)
  BY DEF PassoServer, NextU, ProgrammaU, AccettaSegreteria, LeggiRichiesta, LeggiNomeEsame, AggiungiAppello,
         AggiungiPrenotazione, UccidiServer, TerminaServer, Replica, NessunGuasto, varsRete
<1>2. \A p \in Proc : CalaSu(p)
  <2>1. DOMAIN su = Conn /\ \A p \in Proc : p \in Conn /\ p # Link
    BY Costanti DEF Intesa, Linea, Collegati, Conn
  <2>2. \A p \in Proc : su'[p] = su[p]
    BY <1>1, <2>1 DEF Tolto, Senza
  <2>. QED BY <2>2 DEF CalaSu, InArrivo
<1>3. guasti \subseteq guasti'
  BY <1>1 DEF Guasto
<1>4. Digitata'
  BY <1>1 DEF Contate, Digitata, varsS
<1>5. AttesaDati'
  BY <1>1, <1>3, ServerCala DEF Contate, AttesaDati, varsG
<1>6. \A n, c : Pendenti(n, c)' \subseteq Pendenti(n, c)
  <2>1. SullaLinea' => SullaLinea /\ UNCHANGED <<seg_mat, seg_cod>>
    BY <1>1, ServerCala DEF varsG
  <2>. QED BY <1>2, <2>1, Calano
<1>7. ASSUME NessunoUcciso', NEW m \in Matricola, NEW e \in Esame PROVE Conto(m, e)'
  <2>1. Conto(m, e) /\ NessunoUcciso /\ chieste' = chieste
    BY <1>1, <1>3, <1>7 DEF Contate, NessunoUcciso, varsS
  <2>2. CASE prenota'[<<m, e>>] = prenota[<<m, e>>]
    BY <1>6, <2>1, <2>2, ContoFermo
  <2>3. CASE prenota'[<<m, e>>] # prenota[<<m, e>>]
    <3>1. AggiungiPrenotazione /\ prenota' = Inserisci(prenota, <<Testo(matU'), idU'>>)
      BY <1>1, <2>3 DEF NextU, ProgrammaU, AccettaSegreteria, LeggiRichiesta, LeggiNomeEsame, AggiungiAppello,
                        AggiungiPrenotazione, UccidiServer, TerminaServer
    <3>2. SullaLinea /\ matU' = seg_mat /\ idU' = seg_cod /\ ~SullaLinea'
      BY <2>1, <3>1, PrenotazioneAttesa, ServerCala DEF Contate, NessunoUcciso
    <3>3. <<m, e>> = <<Testo(seg_mat), seg_cod>> /\ prenota'[<<m, e>>] = prenota[<<m, e>>] + 1
      BY <2>3, <3>1, <3>2 DEF Inserisci, Tipato, TipoDB
    <3>4. m.num = seg_mat /\ e = seg_cod
      BY <3>3 DEF Testo
    <3>5. Link \in Pendenti(m.num, e) /\ Link \notin Pendenti(m.num, e)'
      BY <3>2, <3>4, Costanti DEF Pendenti
    <3>6. Pendenti(m.num, e)' \subseteq Pendenti(m.num, e) \ {Link}
      BY <1>6, <3>5
    <3>. QED BY <2>1, <3>3, <3>5, <3>6, ContoFatto
  <2>. QED BY <2>2, <2>3
<1>. QED BY <1>4, <1>5, <1>7 DEF Contate

LEMMA PassoContate == Intesa /\ Intesa' /\ Tipato /\ Contate /\ [Next]_vars => Contate'
<1>. SUFFICES ASSUME Intesa, Intesa', Tipato, Contate, [Next]_vars PROVE Contate'
  OBVIOUS
<1>1. CASE UNCHANGED vars
  <2>1. UNCHANGED <<su, pcU, pcG, guasti, pcS, mat, chieste, prenota, seg_mat, seg_cod>>
    BY <1>1 DEF vars, varsRete, varsDB, varsS, varsG, varsU
  <2>. QED BY <2>1 DEF Contate, Digitata, AttesaDati, ServerVivo, Aperto1, Letto, NessunoUcciso, Conto,
                       Pendenti, InArrivo, SullaLinea, Volte
<1>. QED BY <1>1, ContateStudente, ContateSegreteria, ContateServer DEF Next

(* As long as neither a student nor the segreteria is killed, only         *)
(* bookings that a student asked for are made, and none more often than it *)
(* was asked, whatever the server, the database and the operator do.       *)
THEOREM PrenotazioniSempreRichieste ==
  SpecBase => [](NessunoUcciso => PrenotazioniRichieste)
<1>1. Init => Contate
  BY InizioContate
<1>2. Tipato /\ Contate => (NessunoUcciso => PrenotazioniRichieste)
  <2>. SUFFICES ASSUME Tipato, Contate, NessunoUcciso, NEW m \in Matricola, NEW e \in Esame,
                       prenota[<<m, e>>] > 0
                PROVE  <<m.num, e>> \in Numeri \X Codici /\ prenota[<<m, e>>] <= chieste[<<m.num, e>>]
    BY DEF PrenotazioniRichieste
  <2>1. Cardinality(Pendenti(m.num, e)) \in Nat /\ prenota[<<m, e>>] \in Nat /\ Volte(m.num, e) \in Nat
        /\ prenota[<<m, e>>] + Cardinality(Pendenti(m.num, e)) <= Volte(m.num, e)
    BY Numerate, FS_CardinalityType DEF Contate, Conto
  <2>2. Volte(m.num, e) > 0 /\ prenota[<<m, e>>] <= Volte(m.num, e)
    BY <2>1
  <2>. QED BY <2>2 DEF Volte
<1>. QED BY <1>1, <1>2, PassoContate, InvarianteTipi, PTL DEF SpecBase

-----------------------------------------------------------------------------
(* The refinement of Sportello, where nothing fails.  Nobody then ends     *)
(* while another waits for him: a student only goes away after a logout or *)
(* a refusal, so that no reply meets a closed connection, and the other    *)
(* programs go on, but for a segreteria that has no room for a login.      *)
Sereno ==
  /\ guasti = {} /\ pcG \notin {"uscita", "finita"} /\ ServerVivo
  /\ pcG = "sforata" => Letto("select", 0)

(* What a student may read as an outcome says whether he is in.            *)
Decisione(s) == s # <<>> => Head(s).esito \in {"ok", "rifiutata"}
Decisi ==
  /\ \A p \in Proc : pcS[p] = "attendeEsito" => Decisione(giu[p])
  /\ pcG = "esito" => Decisione(giu[Link])

(* No row of supera also reads as a row with its columns swapped.          *)
SuperaOrdinata == \A n \in Numeri, e \in Esame : <<Testo(e), n>> \notin supera

LEMMA InizioSereno == ASSUME Init PROVE Sereno /\ Decisi
  BY VuotaSequenza DEF Init, InitR, InitS, InitG, InitU, Sereno, Decisi, ServerVivo

(* In the middle of a dialogue a student does not log out.                 *)
LEMMA PoiNonFine ==
  ASSUME NEW s, Sequenza(s), NEW t \in {"credenziali", "richiesta", "nome", "dati", "esito"}, Catena(s, t)
  PROVE  Poi(s, t) # "fine"
<1>1. ASSUME NEW z, Sequenza(z), NEW u \in {"nome", "dati", "righe"}, Catena(z, u)
      PROVE  Poi(z, u) \in {"nome", "dati", "righe", "esito"}
  <2>1. CASE u = "righe"
    BY <1>1, <2>1, PoiInizio DEF TipiStudente
  <2>2. CASE u \in {"nome", "dati"} /\ z = <<>>
    BY <2>2 DEF Poi
  <2>3. CASE u \in {"nome", "dati"} /\ z # <<>>
    <3>1. /\ Head(z).tipo = u
          /\ Seguito(Head(z)) \notin TipiStudente => Tail(z) = <<>>
          /\ Tail(z) = <<>> => Head(z) = z[Len(z)]
      BY <1>1, <2>3, CatenaLetta
    <3>2. Seguito(Head(z)) \in {"righe", "esito"}
      BY <2>3, <3>1 DEF Seguito
    <3>. QED BY <2>3, <3>1, <3>2 DEF Poi, TipiStudente
  <2>. QED BY <1>1, <2>1, <2>2, <2>3
<1>2. CASE t = "richiesta" /\ s # <<>>
  <2>1. /\ Head(s).tipo = t /\ Sequenza(Tail(s)) /\ Catena(Tail(s), Seguito(Head(s)))
        /\ Poi(Tail(s), Seguito(Head(s))) = Poi(s, t)
    BY <1>2, CatenaLetta
  <2>2. Seguito(Head(s)) \in {"nome", "righe"}
    BY <1>2, <2>1 DEF Seguito
  <2>3. Poi(Tail(s), Seguito(Head(s))) \in {"nome", "dati", "righe", "esito"}
    BY <1>1, <2>1, <2>2
  <2>. QED BY <2>1, <2>3
<1>3. CASE t = "richiesta" /\ s = <<>>
  BY <1>3 DEF Poi
<1>4. CASE t \in {"credenziali", "esito"}
  BY <1>4, PoiInizio DEF TipiStudente
<1>5. CASE t \in {"nome", "dati"}
  <2>1. Poi(s, t) \in {"nome", "dati", "righe", "esito"}
    BY <1>1, <1>5
  <2>. QED BY <2>1
<1>. QED BY <1>2, <1>3, <1>4, <1>5

LEMMA InCorsoPresente ==
  ASSUME Intesa, guasti = {}, pcG \in Fermi \cup {"credenziali"}, NEW p, p = InCorso
  PROVE  p \in Proc /\ InDialogo(p) /\ pcS[p] \notin {"uscita", "finito"} /\ "client" \notin chiuso[p]
<1>1. /\ p \in Proc /\ InFd(p) /\ SegreteriaViva
      /\ Turno(p) = IF pcG = "credenziali" THEN "credenziali" ELSE Legge1[pcG]
  BY Interlocutore
<1>2. InDialogo(p) /\ Colloquio(p)
  BY <1>1 DEF Intesa, Posto, Aperta, InDialogo, Dialogo
<1>3. Turno(p) \in {"credenziali", "richiesta", "nome", "dati", "esito"}
  BY <1>1 DEF Legge1, Fermi
<1>4. Sequenza(su[p]) /\ Catena(su[p], Turno(p)) /\ Congedo(p) /\ Chiusura(p)
  BY <1>2 DEF Colloquio, Accordo
<1>5. Poi(su[p], Turno(p)) # "fine"
  BY <1>3, <1>4, PoiNonFine
<1>6. pcS[p] \notin {"uscita", "finito"}
  BY <1>3, <1>4, <1>5 DEF Congedo
<1>. QED BY <1>1, <1>2, <1>4, <1>6 DEF Chiusura

LEMMA SerenoSegreteria ==
  ASSUME Guasti = {}, Intesa, Sereno, PassoSegreteria(NextG) PROVE Sereno'
<1>1. NextG /\ UNCHANGED varsU /\ \A quale : ~Guasto(quale)
  BY DEF PassoSegreteria, Guasto
<1>2. \A k : ~Sigpipe(Link, "client", k)
  BY DEF Sigpipe, Chiusa, Altro, Intesa, Linea, Collegati, Sereno, ServerVivo
<1>3. pcG \in Fermi \cup {"credenziali"} => \A k : ~Sigpipe(InCorso, "server", k)
  BY InCorsoPresente DEF Sigpipe, Chiusa, Altro, Sereno
<1>4. CASE Login \/ LeggiReq \/ LeggiNome \/ InoltraEsito
  <2>. PICK p : p = InCorso
    OBVIOUS
  <2>1. pcG \in Fermi \cup {"credenziali"} /\ \A k : ~Sigpipe(p, "server", k)
    BY <1>3, <1>4 DEF Login, LeggiReq, LeggiNome, InoltraEsito, Fermi
  <2>2. pcG' \in StatiG \ {"uscita", "finita", "sforata"} /\ guasti' = guasti
    <3>1. CASE Login
      BY <1>1, <2>1, <3>1 DEF Login, Dopo, NessunGuasto, StatiG
    <3>2. CASE LeggiReq \/ LeggiNome \/ InoltraEsito
      <4>1. p = Cliente(i)
        BY <3>2 DEF LeggiReq, LeggiNome, InoltraEsito, InCorso
      <4>. QED BY <1>1, <2>1, <3>2, <4>1
           DEF LeggiReq, LeggiNome, InoltraEsito, RispondeRighe, Dopo, NessunGuasto, StatiG
    <3>. QED BY <1>4, <3>1, <3>2
  <2>. QED BY <1>1, <2>2 DEF Sereno, ServerVivo, varsU
<1>5. CASE Sfora
  <2>1. pcG \in Quiete /\ SegreteriaViva /\ UNCHANGED <<su, guasti>> /\ pcG' = "sforata"
    BY <1>5 DEF Sfora, Quiete, SegreteriaViva, varsRete
  <2>2. Letto("select", 0)
    BY <2>1 DEF Intesa, Linea, Scambio, Fase, Sereno
  <2>. QED BY <1>1, <2>1, <2>2 DEF Sereno, ServerVivo, Letto, varsU
<1>6. CASE LeggiScelta \/ LeggiDati \/ Operatore \/ NuovoAppello
  <2>1. pcG' \notin {"uscita", "finita", "sforata"} /\ guasti' = guasti
    BY <1>2, <1>6
    DEF LeggiScelta, LeggiDati, Operatore, DigitaNomeAppello, DigitaData, NuovoAppello, Digita, Dopo
  <2>. QED BY <1>1, <2>1 DEF Sereno, ServerVivo, varsU
<1>7. CASE ~(Login \/ LeggiReq \/ LeggiNome \/ InoltraEsito \/ Sfora \/ LeggiScelta \/ LeggiDati
             \/ Operatore \/ NuovoAppello)
  <2>1. pcG' \notin {"uscita", "finita", "sforata"} /\ guasti' = guasti
    BY <1>1, <1>7
    DEF NextG, ProgrammaG, Continua, UccidiSegreteria, Accetta, AccettaFallita, NessunaAttesa, Salta,
        FineScorri, EsitoInserimento, Termina, Sereno, varsRete
  <2>. QED BY <1>1, <2>1 DEF Sereno, ServerVivo, varsU
<1>. QED BY <1>4, <1>5, <1>6, <1>7

LEMMA SerenoServer ==
  ASSUME Guasti = {}, Intesa, Sereno, PassoServer(NextU) PROVE Sereno'
<1>1. NextU /\ UNCHANGED varsG /\ \A quale : ~Guasto(quale)
  BY DEF PassoServer, Guasto
<1>2. \A k : ~Sigpipe(Link, "server", k)
  BY DEF Sigpipe, Chiusa, Altro, Intesa, Linea, Collegati, Sereno
<1>3. pcU' \notin {"uscita", "finito"} /\ guasti' = guasti
  BY <1>1, <1>2
  DEF NextU, ProgrammaU, AccettaSegreteria, LeggiRichiesta, LeggiNomeEsame, AggiungiAppello,
      AggiungiPrenotazione, Replica, UccidiServer, TerminaServer, Sereno, ServerVivo, NessunGuasto, varsRete
<1>4. ASSUME pcG = "sforata" PROVE Letto("select", 0)'
  <2>1. pcU = "select" /\ ~Pronto(Link, "server")
    BY <1>4, Letta DEF Sereno, Letto, Pronto, Arrivo, Chiusa, Altro, Intesa, Linea, Collegati
  <2>2. AccettaSegreteria
    BY <1>1, <2>1 DEF NextU, ProgrammaU, LeggiRichiesta, LeggiNomeEsame, AggiungiAppello,
                      AggiungiPrenotazione, UccidiServer, TerminaServer
  <2>. QED BY <1>4, <2>2 DEF AccettaSegreteria, Sereno, Letto, varsRete
<1>. QED BY <1>1, <1>3, <1>4 DEF Sereno, ServerVivo, varsG

LEMMA SerenoStudente ==
  ASSUME Guasti = {}, Intesa, Sereno, PassoStudente(NextS) PROVE Sereno'
<1>1. NextS /\ UNCHANGED <<varsG, varsU>> /\ \A quale : ~Guasto(quale)
  BY DEF PassoStudente, Guasto
<1>2. guasti' = guasti /\ \E p \in Proc : su' = su \/ \E voci : su' = Messo(su, p, "client", voci)
  BY <1>1 DEF NextS, Utente, Programma, InviaCredenziali, ScegliReq, DigitaNome, DigitaCod, Connetti,
              EsitoLogin, RiceviRighe, RiceviEsito, Esci, Scegli, UccidiStudente, Scrive, Legge
<1>3. su'[Link] = su[Link]
  BY <1>2, Costanti DEF Messo, Intesa, Linea, Collegati, Conn
<1>. QED BY <1>1, <1>2, <1>3 DEF Sereno, ServerVivo, Letto, varsG, varsU

-----------------------------------------------------------------------------
(* The booking of one student, as the abstract specification sees it.      *)
LEMMA VoceFerma ==
  ASSUME NEW p \in Proc, pcS'[p] = pcS[p], mat'[p] = mat[p], cod'[p] = cod[p],
         pcS[p] = "attendeEsito" => Deciso(p)' = Deciso(p)
  PROVE  Prenotazioni'[p] = Prenotazioni[p]
  BY DEF Prenotazioni

LEMMA FuoriAttesa ==
  ASSUME NEW p \in Proc, pcS[p] # "attendeEsito" PROVE Prenotazioni[p] = Banco!Nessuna
  BY DEF Prenotazioni, Banco!Nessuna

LEMMA VociUguali ==
  ASSUME \A p \in Proc : Prenotazioni'[p] = Prenotazioni[p] PROVE Prenotazioni' = Prenotazioni
  BY DEF Prenotazioni

LEMMA UnaVoceCambia ==
  ASSUME NEW p \in Proc, NEW r, Prenotazioni'[p] = r,
         \A q \in Proc \ {p} : Prenotazioni'[q] = Prenotazioni[q]
  PROVE  Prenotazioni' = [Prenotazioni EXCEPT ![p] = r]
  BY DEF Prenotazioni

(* A student asks, or gets his outcome: nobody else's booking changes.     *)
LEMMA BancoStudente ==
  ASSUME Guasti = {}, Intesa, Esiti, Digitata, Sereno, Decisi, PassoStudente(NextS)
  PROVE  Decisi' /\ [Banco!NextSportello]_(Banco!varsSportello)
<1>1. PICK p \in Proc :
        \/ Utente(p) \/ Programma(p)
        \/ \E k \in Scelte : Scegli(p, k)
        \/ UccidiStudente(p)
  BY DEF PassoStudente, NextS
<1>2. /\ UNCHANGED <<appello, prenota, pcG, i, fdConn, client_sockets>>
      /\ pcS \in [Proc -> StatiS] /\ DOMAIN giu = Conn /\ DOMAIN mat = Proc /\ DOMAIN cod = Proc
      /\ p \in Conn /\ p # Link /\ \A quale : ~Guasto(quale)
  BY Costanti DEF PassoStudente, varsDB, varsG, Intesa, IInv, Tipi, Dialogo, Conn, Guasto
<1>3. /\ giu' = giu \/ giu' = Tolto(giu, p)
      /\ \E stato : pcS' = [pcS EXCEPT ![p] = stato]
      /\ mat' = mat \/ \E n : mat' = [mat EXCEPT ![p] = n]
      /\ cod' = cod \/ \E n : cod' = [cod EXCEPT ![p] = n]
  <2>1. CASE Utente(p)
    BY <2>1 DEF Utente, InviaCredenziali, ScegliReq, DigitaNome, DigitaCod, Scrive, Vai
  <2>2. CASE Programma(p)
    BY <2>2 DEF Programma, Connetti, EsitoLogin, RiceviRighe, RiceviEsito, Esci, Legge, Vai
  <2>3. CASE (\E k \in Scelte : Scegli(p, k)) \/ UccidiStudente(p)
    BY <2>3 DEF Scegli, Scrive, UccidiStudente, Vai
  <2>. QED BY <1>1, <2>1, <2>2, <2>3
<1>4. /\ giu'[Link] = giu[Link]
      /\ \A q \in Proc \ {p} : /\ giu'[q] = giu[q] /\ pcS'[q] = pcS[q]
                               /\ mat'[q] = mat[q] /\ cod'[q] = cod[q]
  BY <1>2, <1>3 DEF Tolto, Conn
<1>5. \A q : Cliente(i)' = q <=> Cliente(i) = q
  BY <1>2 DEF Cliente
<1>6. \A q \in Proc \ {p} : Prenotazioni'[q] = Prenotazioni[q]
  BY <1>2, <1>4, <1>5, VoceFerma DEF Deciso
<1>7. CASE pcS[p] # "attendeEsito" /\ pcS'[p] # "attendeEsito"
  <2>1. Prenotazioni'[p] = Prenotazioni[p]
    BY <1>7 DEF Prenotazioni
  <2>2. Prenotazioni' = Prenotazioni
    BY <1>6, <2>1, VociUguali
  <2>3. Decisi'
    BY <1>2, <1>4, <1>7 DEF Decisi, Decisione
  <2>. QED BY <1>2, <2>2, <2>3 DEF Banco!varsSportello
<1>8. CASE pcS[p] # "attendeEsito" /\ pcS'[p] = "attendeEsito"
  <2>1. PICK e \in Codici : DigitaCod(p, e)
    BY <1>1, <1>2, <1>8
    DEF Utente, InviaCredenziali, ScegliReq, DigitaNome, Programma, Connetti, EsitoLogin, RiceviRighe,
        RiceviEsito, Esci, Scegli, UccidiStudente, Scrive, Legge, Vai
  <2>2. pcS[p] = "digitaCod" /\ mat' = mat /\ cod'[p] = e /\ giu' = giu
    BY <1>2, <2>1 DEF DigitaCod, Scrive
  <2>3. mat[p] \in Numeri /\ giu[p] = <<>>
    BY <2>2 DEF Digitata, Esiti, Quieto, Invia
  <2>4. Deciso(p)' = "attesa"
    <3>1. ~(pcG = "esito" /\ Cliente(i) = p)
      BY <2>2, AttendeEsito
    <3>. QED BY <1>2, <1>5, <2>2, <2>3, <3>1 DEF Deciso
  <2>5. Prenotazioni'[p] = Banco!Chiesta(mat[p], e, "attesa")
    BY <1>8, <2>2, <2>4 DEF Prenotazioni, Banco!Chiesta
  <2>6. Banco!Chiedi(p, mat[p], e)
    BY <1>2, <1>6, <1>8, <2>5, FuoriAttesa, UnaVoceCambia DEF Banco!Chiedi
  <2>7. Decisi'
    BY <1>2, <1>4, <2>2, <2>3 DEF Decisi, Decisione
  <2>. QED BY <2>3, <2>6, <2>7 DEF Banco!NextSportello
<1>9. CASE pcS[p] = "attendeEsito"
  <2>1. RiceviEsito(p)
    BY <1>1, <1>2, <1>9
    DEF Utente, InviaCredenziali, ScegliReq, DigitaNome, DigitaCod, Programma, Connetti, EsitoLogin,
        RiceviRighe, Esci, Scegli, UccidiStudente
  <2>2. pcS'[p] = "menu" /\ Pronto(p, "client")
    BY <1>2, <2>1 DEF RiceviEsito, Legge, Vai
  <2>3. giu[p] # <<>>
    BY <1>9, <2>2 DEF Pronto, Arrivo, Chiusa, Altro, Sereno, Intesa, Dialogo, Colloquio, Chiusura
  <2>4. Prenotazioni[p].esito \in {"ok", "rifiutata"}
    BY <1>9, <2>3 DEF Prenotazioni, Deciso, Decisi, Decisione
  <2>5. Prenotazioni'[p] = Banco!Nessuna
    BY <2>2 DEF Prenotazioni, Banco!Nessuna
  <2>6. Banco!Consegna(p)
    BY <1>2, <1>6, <2>4, <2>5, UnaVoceCambia DEF Banco!Consegna
  <2>7. Decisi'
    BY <1>2, <1>4, <2>2 DEF Decisi, Decisione
  <2>. QED BY <2>6, <2>7 DEF Banco!NextSportello
<1>. QED BY <1>7, <1>8, <1>9

(* The server decides the booking in hand: of the student who is served,   *)
(* who waits for it and has no outcome yet.                                *)
LEMMA PrenotazioneServita ==
  ASSUME Intesa, Esiti, Sereno, AggiungiPrenotazione, NEW p, p = Cliente(i)
  PROVE  /\ pcG = "esito" /\ p \in Proc /\ pcS[p] = "attendeEsito"
         /\ giu[p] = <<>> /\ giu[Link] = <<>>
         /\ matU' = mat[p] /\ idU' = cod[p]
<1>1. pcU = "idmat" /\ Pronto(Link, "server") /\ SegreteriaViva
  BY DEF AggiungiPrenotazione, Sereno, SegreteriaViva, Letto
<1>2. giu[Link] = <<>> /\ su[Link] # <<>> /\ pcG = "esito" /\ InMano(Head(su[Link]))
  BY <1>1, AlServer DEF Intesa
<1>3. matU' = seg_mat /\ idU' = seg_cod
  BY <1>2 DEF AggiungiPrenotazione, InMano
<1>4. p \in Proc /\ InDialogo(p) /\ pcS[p] \notin {"uscita", "finito"} /\ "client" \notin chiuso[p]
  BY <1>2, InCorsoPresente DEF Sereno, Fermi, InCorso
<1>5. pcS[p] = "attendeEsito"
  BY <1>2, <1>4, AttendeEsito
<1>6. Turno(p) = "esito"
  BY <1>2, Interlocutore DEF Fermi, Legge1, InCorso
<1>7. giu[p] = <<>>
  BY <1>4, <1>5, <1>6 DEF Intesa, Dialogo, Colloquio, Accordo, DaServireAncora, Servito, Attese
<1>8. seg_mat = mat[p] /\ seg_cod = cod[p]
  BY <1>2, <1>4 DEF Esiti, Propria
<1>. QED BY <1>2, <1>3, <1>4, <1>5, <1>7, <1>8

(* The rule of the query lies between the two of the abstract service.     *)
LEMMA Regola ==
  ASSUME SuperaOrdinata, NEW n \in Numeri, NEW e
  PROVE  /\ Prenotabile(n, e) => Banco!Possibile(n, e)
         /\ Banco!Diritto(n, e) => Prenotabile(n, e)
<1>1. Banco!DateFuture(e) = DateFuture(e) /\ Banco!Testo(n) = Testo(n)
  BY DEF Banco!DateFuture, DateFuture, Banco!Testo, Testo
<1>2. Prenotabile(n, e) => Banco!Possibile(n, e)
  BY <1>1 DEF Prenotabile, Banco!Possibile
<1>3. ASSUME Banco!Diritto(n, e) PROVE Prenotabile(n, e)
  <2>1. /\ e \in Esame /\ DateFuture(e) # {} /\ Testo(n) \in Matricola
        /\ esame[e].anno <= studente[Testo(n)].anno
    BY <1>1, <1>3 DEF Banco!Diritto
  <2>2. esame[e].anno \in Int /\ studente[Testo(n)].anno \in Int
    BY <2>1, UniversitaAssumption
  <2>3. studente[Testo(n)].anno >= esame[e].anno
    BY <2>1, <2>2
  <2>. QED BY <2>1, <2>3 DEF Prenotabile, SuperaOrdinata
<1>. QED BY <1>2, <1>3

(* An answer on the line is a decision on the booking in hand.             *)
LEMMA BancoPrenotazione ==
  ASSUME Guasti = {}, SuperaOrdinata, Intesa, Esiti, Digitata, Sereno, Decisi,
         AggiungiPrenotazione, UNCHANGED <<varsS, varsG>>
  PROVE  Decisi' /\ [Banco!NextSportello]_(Banco!varsSportello)
<1>. PICK p : p = Cliente(i)
  OBVIOUS
<1>1. /\ pcG = "esito" /\ p \in Proc /\ pcS[p] = "attendeEsito"
      /\ giu[p] = <<>> /\ giu[Link] = <<>> /\ matU' = mat[p] /\ idU' = cod[p]
  BY PrenotazioneServita
<1>2. PICK x \in {"ok", "rifiutata"} :
        /\ giu' = Messo(giu, Link, "server", <<Esito(x, mat[p], cod[p])>>) /\ appello' = appello
        /\ \/ /\ x = "ok" /\ Prenotabile(mat[p], cod[p])
              /\ prenota' = Inserisci(prenota, <<Testo(mat[p]), cod[p]>>)
           \/ x = "rifiutata" /\ ~Prenotabile(mat[p], cod[p]) /\ prenota' = prenota
  BY <1>1 DEF AggiungiPrenotazione, Replica, Guasto
<1>3. /\ UNCHANGED <<pcS, mat, cod, pcG, i, fdConn, client_sockets>> /\ DOMAIN giu = Conn
      /\ mat[p] \in Numeri
  BY <1>1 DEF varsS, varsG, Intesa, Dialogo, Digitata
<1>4. giu'[Link] = <<Esito(x, mat[p], cod[p])>> /\ \A q \in Proc : giu'[q] = giu[q]
  <2>1. giu'[Link] = giu[Link] \o <<Esito(x, mat[p], cod[p])>>
    BY <1>1, <1>2, <1>3 DEF Messo, Chiusa, Altro, Intesa, Linea, Collegati, Conn
  <2>2. \A v : <<>> \o <<v>> = <<v>>
    OBVIOUS
  <2>3. giu'[Link] = <<Esito(x, mat[p], cod[p])>>
    BY <1>1, <2>1, <2>2
  <2>4. \A q \in Proc : giu'[q] = giu[q]
    BY <1>2, <1>3, Costanti DEF Messo, Conn
  <2>. QED BY <2>3, <2>4
<1>5. giu'[Link] # <<>> /\ Head(giu'[Link]).esito = x
  <2>1. \A v : <<v>> # <<>> /\ Head(<<v>>) = v
    OBVIOUS
  <2>. QED BY <1>4, <2>1 DEF Esito
<1>6. \A q : Cliente(i)' = q <=> Cliente(i) = q
  BY <1>3 DEF Cliente
<1>7. \A q \in Proc \ {p} : Prenotazioni'[q] = Prenotazioni[q]
  BY <1>3, <1>4, <1>6, VoceFerma DEF Deciso
<1>8. /\ Prenotazioni[p] = [num |-> mat[p], cod |-> cod[p], esito |-> "attesa"]
      /\ Prenotazioni'[p] = [num |-> mat[p], cod |-> cod[p], esito |-> x]
  <2>1. Deciso(p) = "attesa"
    BY <1>1 DEF Deciso
  <2>2. Deciso(p)' = x
    BY <1>1, <1>3, <1>4, <1>5, <1>6 DEF Deciso
  <2>. QED BY <1>1, <1>3, <2>1, <2>2 DEF Prenotazioni
<1>9. Prenotazioni' = [Prenotazioni EXCEPT ![p].esito = x]
  <2>1. [Prenotazioni[p] EXCEPT !.esito = x] = [num |-> mat[p], cod |-> cod[p], esito |-> x]
    BY <1>8
  <2>2. Prenotazioni' = [Prenotazioni EXCEPT ![p] = [Prenotazioni[p] EXCEPT !.esito = x]]
    BY <1>1, <1>7, <1>8, <2>1, UnaVoceCambia
  <2>. QED BY <2>2
<1>10. Banco!Accetta(p) \/ Banco!Rifiuta(p)
  <2>1. CASE x = "ok"
    <3>1. Banco!Possibile(mat[p], cod[p])
      BY <1>2, <1>3, <2>1, Regola
    <3>. QED BY <1>2, <1>8, <1>9, <2>1, <3>1
         DEF Banco!Accetta, Banco!Inserisci, Inserisci, Banco!Testo, Testo
  <2>2. CASE x = "rifiutata"
    <3>1. ~Banco!Diritto(mat[p], cod[p])
      BY <1>2, <1>3, <2>2, Regola
    <3>. QED BY <1>2, <1>8, <1>9, <2>2, <3>1 DEF Banco!Rifiuta
  <2>. QED BY <2>1, <2>2
<1>11. Decisi'
  BY <1>3, <1>4, <1>5 DEF Decisi, Decisione
<1>. QED BY <1>1, <1>10, <1>11 DEF Banco!NextSportello

(* The other steps of the server decide nothing.                           *)
LEMMA BancoServer ==
  ASSUME Guasti = {}, SuperaOrdinata, Intesa, Esiti, Digitata, Sereno, Decisi, PassoServer(NextU)
  PROVE  Decisi' /\ [Banco!NextSportello]_(Banco!varsSportello)
<1>1. /\ NextU /\ UNCHANGED <<varsS, varsG>> /\ DOMAIN giu = Conn
      /\ UNCHANGED <<pcS, mat, cod, pcG, i, fdConn, client_sockets>>
      /\ \A quale : ~Guasto(quale)
  BY DEF PassoServer, varsS, varsG, Intesa, Dialogo, Guasto
<1>2. CASE AggiungiPrenotazione
  BY <1>1, <1>2, BancoPrenotazione
<1>3. ASSUME \A q \in Proc : giu'[q] = giu[q], pcG # "esito" \/ giu'[Link] = giu[Link]
      PROVE  Decisi' /\ Prenotazioni' = Prenotazioni
  <2>1. \A q : Cliente(i)' = q <=> Cliente(i) = q
    BY <1>1 DEF Cliente
  <2>2. \A q \in Proc : Prenotazioni'[q] = Prenotazioni[q]
    BY <1>1, <1>3, <2>1, VoceFerma DEF Deciso
  <2>3. Decisi'
    BY <1>1, <1>3 DEF Decisi, Decisione
  <2>. QED BY <2>2, <2>3, VociUguali
<1>4. CASE AggiungiAppello
  <2>1. pcU = "data" /\ Pronto(Link, "server") /\ SegreteriaViva
    BY <1>4 DEF AggiungiAppello, Sereno, SegreteriaViva, Letto
  <2>2. pcG # "esito"
    BY <2>1, AlServer DEF Intesa
  <2>3. \A q \in Proc : giu'[q] = giu[q]
    BY <1>1, <1>4, Costanti DEF AggiungiAppello, Replica, Messo, Conn
  <2>4. /\ prenota' = prenota
        /\ \/ appello' = appello
           \/ \E e \in Esame, d \in Data : appello' = Inserisci(appello, <<e, d>>)
    BY <1>1, <1>4 DEF AggiungiAppello
  <2>5. Prenotazioni' = Prenotazioni /\ Decisi'
    BY <1>3, <2>2, <2>3
  <2>6. CASE appello' = appello
    BY <2>4, <2>5, <2>6 DEF Banco!varsSportello
  <2>7. CASE \E e \in Esame, d \in Data : appello' = Inserisci(appello, <<e, d>>)
    <3>1. \E e \in Esame, d \in Data : Banco!AppelloAggiunto(e, d)
      BY <2>4, <2>5, <2>7 DEF Banco!AppelloAggiunto, Banco!Inserisci, Inserisci
    <3>. QED BY <2>5, <3>1 DEF Banco!NextSportello
  <2>. QED BY <2>4, <2>6, <2>7
<1>5. CASE ~(AggiungiAppello \/ AggiungiPrenotazione)
  <2>1. UNCHANGED <<giu, appello, prenota>>
    BY <1>1, <1>5 DEF NextU, ProgrammaU, AccettaSegreteria, LeggiRichiesta, LeggiNomeEsame, UccidiServer,
                      TerminaServer, varsRete
  <2>. QED BY <1>3, <2>1 DEF Banco!varsSportello
<1>. QED BY <1>2, <1>4, <1>5

(* Forwarding the outcome moves it from the line to the student, decided   *)
(* as it was.                                                              *)
LEMMA BancoInoltra ==
  ASSUME Intesa, Intesa', Sereno, Decisi, InoltraEsito, UNCHANGED varsS, NEW q \in Proc,
         pcS[q] = "attendeEsito"
  PROVE  Deciso(q)' = Deciso(q) /\ Decisione(giu[q])'
<1>. PICK p, x : p = Cliente(i) /\ x = Head(giu[Link])
  OBVIOUS
<1>1. /\ pcG = "esito" /\ pcG' \in {"uscita", "scorri"} /\ DOMAIN giu = Conn /\ chiuso' = chiuso
      /\ Pronto(Link, "client")
  <2>1. pcG = "esito" /\ pcG' \in {"uscita", "scorri"} /\ chiuso' = chiuso
    BY DEF InoltraEsito, Dopo
  <2>2. Pronto(Link, "client")
    BY DEF InoltraEsito, EsitoPronto
  <2>. QED BY <2>1, <2>2 DEF Intesa, Dialogo
<1>2. p \in Proc /\ InDialogo(p) /\ "client" \notin chiuso[p]
  BY <1>1, InCorsoPresente DEF Sereno, Fermi, InCorso
<1>3. giu[Link] # <<>> /\ x.esito \in {"ok", "rifiutata"}
  BY <1>1 DEF Pronto, Arrivo, Chiusa, Altro, Intesa, Linea, Collegati, Sereno, ServerVivo, Decisi, Decisione
<1>4. giu'[q] = IF q = p THEN giu[q] \o <<x>> ELSE giu[q]
  <2>1. \E k \in Presi(giu, Link) : giu' = Messo(Senza(giu, Link, k), p, "server", <<x>>)
    BY <1>3 DEF InoltraEsito, Inoltrato
  <2>. QED BY <1>1, <1>2, <2>1, Costanti DEF Messo, Senza, Chiusa, Altro, Conn
<1>5. CASE q # p
  BY <1>1, <1>4, <1>5 DEF Deciso, Decisi, Decisione
<1>6. CASE q = p
  <2>1. Turno(p) = "esito"
    BY <1>1, Interlocutore DEF Fermi, Legge1, InCorso
  <2>2. giu[q] = <<>>
    BY <1>2, <1>6, <2>1 DEF Intesa, Dialogo, Colloquio, Accordo, DaServireAncora, Servito, Attese
  <2>3. \A v : <<>> \o <<v>> # <<>> /\ Head(<<>> \o <<v>>) = v
    OBVIOUS
  <2>4. giu'[q] # <<>> /\ Head(giu'[q]) = x
    BY <1>4, <1>6, <2>2, <2>3
  <2>. QED BY <1>1, <1>3, <1>6, <2>2, <2>4 DEF Deciso, Decisione
<1>. QED BY <1>5, <1>6

(* The segreteria decides nothing: it carries decisions.                   *)
LEMMA BancoSegreteria ==
  ASSUME Guasti = {}, Intesa, Intesa', Esiti, Esiti', Sereno, Sereno', Decisi, PassoSegreteria(NextG)
  PROVE  Decisi' /\ UNCHANGED Banco!varsSportello
<1>1. /\ NextG /\ UNCHANGED <<varsS, pcS, mat, cod, appello, prenota>> /\ \A quale : ~Guasto(quale)
  <2>1. UNCHANGED <<appello, prenota>>
    BY DEF PassoSegreteria, NextG, ProgrammaG, Operatore, NuovoAppello, DigitaNomeAppello, DigitaData, Digita,
       EsitoInserimento, Accetta, AccettaFallita, Sfora, NessunaAttesa, Salta, FineScorri, Continua, Login,
       UccidiSegreteria, Termina, LeggiScelta, LeggiDati, LeggiReq, LeggiNome, InoltraEsito, varsAltriG
  <2>. QED BY <2>1 DEF PassoSegreteria, varsS, Guasto
<1>2. pcG = "esito" => InoltraEsito
  BY <1>1 DEF NextG, ProgrammaG, Operatore, NuovoAppello, DigitaNomeAppello, DigitaData, EsitoInserimento,
       Accetta, AccettaFallita, Sfora, NessunaAttesa, Salta, FineScorri, Continua, Login, UccidiSegreteria,
       Termina, LeggiScelta, LeggiDati, LeggiReq, LeggiNome
<1>3. pcG' = "esito" => giu'[Link] = <<>>
  <2>. SUFFICES ASSUME pcG' = "esito" PROVE giu'[Link] = <<>>
    OBVIOUS
  <2>1. LeggiDati
    BY <1>1
    DEF NextG, ProgrammaG, Operatore, DigitaNomeAppello, DigitaData, Digita, Continua, NuovoAppello,
        UccidiSegreteria, Accetta, AccettaFallita, Sfora, NessunaAttesa, Login, Salta, FineScorri,
        LeggiScelta, LeggiReq, LeggiNome, RispondeRighe, InoltraEsito, EsitoInserimento, Termina, Dopo
  <2>2. pcG = "dati" /\ giu' = giu
    BY <2>1 DEF LeggiDati
  <2>3. Len(giu[Link]) = 0 /\ Sequenza(giu[Link])
    BY <2>2 DEF Intesa, Linea, Collegati, Scambio, Fase, Sereno, SegreteriaViva, InSilenzio
  <2>. QED BY <2>2, <2>3, Letta
<1>4. ASSUME NEW q \in Proc, pcS[q] = "attendeEsito", ~InoltraEsito
      PROVE  Deciso(q)' = Deciso(q) /\ Decisione(giu[q])'
  <2>1. giu'[q] = giu[q]
    <3>. SUFFICES ASSUME NEW v, giu'[q] = giu[q] \o <<v>>, InDialogo(q)', v.tipo # "esito" PROVE FALSE
      BY <1>4, ReplicaScritta
    <3>1. /\ Len(giu'[q]) = Len(giu[q]) + 1 /\ Len(giu[q]) \in Nat
          /\ giu'[q][Len(giu[q]) + 1] = v /\ giu'[q] # <<>>
      <4>1. Sequenza(giu[q])
        BY DEF Intesa, Dialogo, Colloquio
      <4>2. Sequenza(giu[q])'
        BY DEF Intesa, Dialogo, Colloquio
      <4>3. Len(giu'[q]) = Len(giu[q]) + 1 /\ Len(giu[q]) \in Nat /\ giu'[q][Len(giu[q]) + 1] = v
        BY <4>1, InFondo
      <4>. QED BY <4>2, <4>3, VuotaSequenza
    <3>2. Accordo(q)' /\ pcS'[q] = "attendeEsito"
      BY <1>1, <1>4 DEF Intesa, Dialogo, Colloquio
    <3>3. Servito(q)'
      BY <3>1, <3>2 DEF Accordo, Attese, DaServireAncora
    <3>4. Len(giu'[q]) = 1 /\ giu'[q][1].tipo = "esito"
      BY <3>2, <3>3 DEF Servito, Aspetta
    <3>. QED BY <3>1, <3>4
  <2>2. pcG # "esito"
    BY <1>2, <1>4
  <2>. QED BY <1>3, <1>4, <2>1, <2>2 DEF Deciso, Decisi, Decisione
<1>5. \A q \in Proc : pcS[q] = "attendeEsito" => Deciso(q)' = Deciso(q) /\ Decisione(giu[q])'
  BY <1>1, <1>4, BancoInoltra
<1>6. Prenotazioni' = Prenotazioni
  BY <1>1, <1>5, VoceFerma, VociUguali
<1>7. Decisi'
  BY <1>1, <1>3, <1>5 DEF Decisi, Decisione
<1>. QED BY <1>1, <1>6, <1>7 DEF Banco!varsSportello

(* What the system shows to the students who book is the abstract service, *)
(* for every number of students and whatever they do, when nothing fails:  *)
(* every booking is decided once, by the rule, entered once if it is       *)
(* accepted, and its own student gets the outcome that was decided.  The   *)
(* rule is only the right one where the query, which swaps two columns,    *)
(* finds in supera no row it should not.                                   *)
THEOREM SportelloRealizzato ==
  ASSUME Guasti = {}, SuperaOrdinata
  PROVE  SpecBase => RealizzaSportello
<1>1. Init => Sereno /\ Decisi /\ Esiti /\ Contate /\ Banco!InitSportello
  <2>1. Init => Banco!InitDB /\ \A p \in Proc : Prenotazioni[p] = Banco!Nessuna
    BY FuoriAttesa DEF Init, InitDB, Banco!InitDB, InitS
  <2>2. Init => Banco!InitSportello
    BY <2>1 DEF Banco!InitSportello, Prenotazioni
  <2>. QED BY <2>2, InizioSereno, InizioEsiti, InizioContate
<1>2. Intesa /\ Intesa' /\ Esiti /\ Esiti' /\ Contate /\ Sereno /\ Decisi /\ [Next]_vars =>
        Sereno' /\ Decisi' /\ [Banco!NextSportello]_(Banco!varsSportello)
  <2>. SUFFICES ASSUME Intesa, Intesa', Esiti, Esiti', Digitata, Sereno, Decisi, [Next]_vars
                PROVE  Sereno' /\ Decisi' /\ [Banco!NextSportello]_(Banco!varsSportello)
    BY DEF Contate
  <2>1. CASE UNCHANGED vars
    <3>1. UNCHANGED <<giu, su, guasti, appello, prenota, pcS, mat, cod, pcG, i, fdConn, client_sockets, pcU>>
      BY <2>1 DEF vars, varsRete, varsDB, varsS, varsG, varsU
    <3>2. Sereno' /\ Decisi'
      BY <3>1 DEF Sereno, ServerVivo, Letto, Decisi, Decisione
    <3>3. \A q : Cliente(i)' = q <=> Cliente(i) = q
      BY <3>1 DEF Cliente
    <3>4. \A q \in Proc : Prenotazioni'[q] = Prenotazioni[q]
      BY <3>1, <3>3, VoceFerma DEF Deciso
    <3>. QED BY <3>1, <3>2, <3>4, VociUguali DEF Banco!varsSportello
  <2>2. CASE PassoStudente(NextS)
    BY <2>2, SerenoStudente, BancoStudente
  <2>3. CASE PassoSegreteria(NextG)
    BY <2>3, SerenoSegreteria, BancoSegreteria
  <2>4. CASE PassoServer(NextU)
    BY <2>4, SerenoServer, BancoServer
  <2>. QED BY <2>1, <2>2, <2>3, <2>4 DEF Next
<1>. QED BY <1>1, <1>2, PassoEsiti, PassoContate, InvarianteTipi, PTL
     DEF SpecBase, RealizzaSportello, Banco!SpecSportello
=============================================================================
