--------------------------- MODULE DialogoProofs ---------------------------
(***************************************************************************)
(* Proof that a student and the segreteria never fall out of step: the     *)
(* items a student has sent and nobody has read follow one another as the  *)
(* protocol says, from the item the segreteria expects of him to the one   *)
(* he sends next, or the reply he waits for.                               *)
(***************************************************************************)
EXTENDS LineaProofs, PostiProofs

(* What a student sends after an item, or the reply he waits for.          *)
Seguito(v) ==
  CASE v.tipo = "credenziali"               -> "accesso"
    [] v.tipo = "scelta" /\ v.val = 1       -> "richiesta"
    [] v.tipo = "scelta" /\ v.val = 2       -> "dati"
    [] v.tipo = "scelta" /\ v.val = 3       -> "fine"
    [] v.tipo = "scelta" /\ v.val \notin 1..3 -> "scelta"
    [] v.tipo = "richiesta" /\ v.val = 2    -> "nome"
    [] v.tipo = "richiesta" /\ v.val # 2    -> "righe"
    [] v.tipo = "nome"                      -> "righe"
    [] v.tipo = "dati"                      -> "esito"

(* A stream s of which the reader expects an item of kind t is in order.   *)
TipiStudente == {"credenziali", "scelta", "richiesta", "nome", "dati"}
Catena(s, t) ==
  /\ \A k \in 1..Len(s) : s[k].tipo \in TipiStudente
  /\ s # <<>> => s[1].tipo = t
  /\ \A k \in 1..Len(s) : k < Len(s) => s[k + 1].tipo = Seguito(s[k])

(* What comes after all of s.                                              *)
Poi(s, t) == IF s = <<>> THEN t ELSE Seguito(s[Len(s)])

-----------------------------------------------------------------------------
(* Where the segreteria is with a student: the kind of item it reads from  *)
(* him next, "esito" while he waits for the server, "nulla" once refused.  *)
AllAccesso(p) == InCoda(p) \/ (pcG = "credenziali" /\ Cliente(dim + 1) = p)
InTabella(p) == \E k \in Slot : k <= dim /\ client_sockets[k].connfd # -1 /\ Cliente(k) = p
Legge1 == [req |-> "richiesta", nomeEsame |-> "nome", dati |-> "dati", esito |-> "esito"]

Turno(p) ==
  IF AllAccesso(p) THEN "credenziali"
  ELSE IF pcG \in Fermi /\ Cliente(i) = p THEN Legge1[pcG]
  ELSE IF InTabella(p) THEN "scelta" ELSE "nulla"

(* What a student is about to send, and the reply he waits for.            *)
Invia == [login |-> "credenziali", menu |-> "scelta", sceltaReq |-> "richiesta",
          digitaNome |-> "nome", digitaCod |-> "dati"]
Aspetta == [attendeLogin |-> "accesso", attendeRighe |-> "righe", attendeEsito |-> "esito"]

(* A student who waits has not been served yet, or has his reply, or never *)
(* gets one: he sent an empty name, or his view was dropped.               *)
DaServireAncora(p) ==
  /\ giu[p] = <<>>
  /\ \/ Poi(su[p], Turno(p)) = Aspetta[pcS[p]]
     \/ /\ pcS[p] = "attendeRighe" /\ Vuoto \in Nomi
        /\ Poi(su[p], Turno(p)) = "nome"
Servito(p) ==
  /\ su[p] = <<>>
  /\ \/ /\ Len(giu[p]) = 1 /\ giu[p][1].tipo = Aspetta[pcS[p]]
        /\ Turno(p) = IF pcS[p] = "attendeLogin" /\ ~giu[p][1].ok THEN "nulla" ELSE "scelta"
     \/ /\ pcS[p] = "attendeRighe" /\ giu[p] = <<>> /\ Turno(p) = "scelta"
        /\ reqS[p] \notin 1..2 \/ "query" \in guasti

(* Who was not killed only ends after a logout or a refusal.               *)
Congedo(p) ==
  "studente" \notin guasti /\ pcS[p] \in {"uscita", "finito"} =>
    Turno(p) = "nulla" \/ Poi(su[p], Turno(p)) = "fine"

Accordo(p) ==
  /\ Catena(su[p], Turno(p))
  /\ pcS[p] \in DOMAIN Invia => giu[p] = <<>> /\ Poi(su[p], Turno(p)) = Invia[pcS[p]]
  /\ pcS[p] \in Attese => DaServireAncora(p) \/ Servito(p)
  /\ Congedo(p)

(* The last item sent holds what the student's variables hold.             *)
Ultimo(p) ==
  /\ Turno(p) = "credenziali" /\ su[p] = <<>> => mat[p] = Residuo
  /\ su[p] # <<>> =>
       LET v == su[p][Len(su[p])] IN
       /\ v.tipo = "credenziali" => v.num = mat[p]
       /\ v.tipo = "richiesta" => v.val = reqS[p]
       /\ v.tipo = "dati" => v.num = mat[p] /\ v.cod = cod[p]

(* Who has closed the connection of a student.                             *)
Chiusura(p) ==
  /\ pcS[p] = "inizio" => su[p] = <<>> /\ giu[p] = <<>> /\ chiuso[p] = {} /\ mat[p] = Residuo
  /\ "client" \in chiuso[p] => pcS[p] = "finito"
  /\ "server" \in chiuso[p] => pcG = "finita" \/ pcS[p] \in {"uscita", "finito"}
  /\ pcG = "finita" => "server" \in chiuso[p] \/ pcS[p] \in {"inizio", "finito"}

InDialogo(p) == SegreteriaViva /\ "server" \notin chiuso[p] /\ pcS[p] # "inizio"

Colloquio(p) ==
  /\ Sequenza(su[p]) /\ Sequenza(giu[p])
  /\ Chiusura(p)
  /\ InDialogo(p) => Accordo(p) /\ Ultimo(p)

Dialogo ==
  /\ DOMAIN giu = Conn
  /\ DOMAIN mat = Proc /\ DOMAIN cod = Proc /\ DOMAIN reqS = Proc
  /\ \A p \in Proc : Colloquio(p)

-----------------------------------------------------------------------------
(* The next item in order, at the end of the stream.                       *)
LEMMA CatenaScritta ==
  ASSUME NEW s, Sequenza(s), NEW t, Catena(s, t),
         NEW v, v.tipo = Poi(s, t), v.tipo \in TipiStudente
  PROVE  LET z == s \o <<v>> IN
         Sequenza(z) /\ z # <<>> /\ z[Len(z)] = v /\ Catena(z, t) /\ Poi(z, t) = Seguito(v)
<1>1. PICK S : s \in Seq(S)
  BY DEF Sequenza
<1>. DEFINE T == S \cup {v}
            z == s \o <<v>>
<1>2. s \in Seq(T) /\ <<v>> \in Seq(T) /\ Len(<<v>>) = 1 /\ <<v>>[1] = v
  BY <1>1
<1>. HIDE DEF T
<1>3. /\ z \in Seq(T) /\ Len(z) = Len(s) + 1 /\ Len(s) \in Nat /\ z[Len(s) + 1] = v
      /\ \A k \in 1..Len(s) : z[k] = s[k]
      /\ s = <<>> <=> Len(s) = 0
  BY <1>2
<1>. HIDE DEF z
<1>4. z # <<>>
  BY <1>3
<1>5. Catena(z, t)
  <2>1. \A k \in 1..Len(z) : z[k].tipo \in TipiStudente
    BY <1>3 DEF Catena
  <2>2. z[1].tipo = t
    BY <1>3 DEF Catena, Poi
  <2>3. ASSUME NEW k \in 1..Len(z), k < Len(z) PROVE z[k + 1].tipo = Seguito(z[k])
    <3>1. CASE k < Len(s)
      BY <1>3, <3>1 DEF Catena
    <3>2. CASE k = Len(s)
      BY <1>3, <3>2 DEF Poi
    <3>. QED BY <1>3, <2>3, <3>1, <3>2
  <2>. QED BY <2>1, <2>2, <2>3 DEF Catena
<1>. QED BY <1>3, <1>4, <1>5 DEF Sequenza, Poi, z

(* The first item, read.  One that is answered is the last one.            *)
LEMMA CatenaLetta ==
  ASSUME NEW s, Sequenza(s), NEW t, Catena(s, t), s # <<>>
  PROVE  /\ Sequenza(Tail(s)) /\ Head(s).tipo = t /\ t \in TipiStudente
         /\ Catena(Tail(s), Seguito(Head(s)))
         /\ Poi(Tail(s), Seguito(Head(s))) = Poi(s, t)
         /\ Tail(s) # <<>> => Tail(s)[Len(Tail(s))] = s[Len(s)]
         /\ Tail(s) = <<>> => Head(s) = s[Len(s)]
         /\ Seguito(Head(s)) \notin TipiStudente => Tail(s) = <<>>
<1>1. PICK S : s \in Seq(S)
  BY DEF Sequenza
<1>. DEFINE z == Tail(s)
<1>2. /\ z \in Seq(S) /\ Len(s) \in Nat \ {0} /\ Len(z) = Len(s) - 1 /\ Head(s) = s[1]
      /\ \A k \in 1..Len(z) : z[k] = s[k + 1]
      /\ z = <<>> <=> Len(z) = 0
  <2>1. Len(s) \in Nat \ {0} /\ Head(s) = s[1]
    BY <1>1
  <2>2. z \in Seq(S) /\ Len(z) = Len(s) - 1 /\ \A k \in 1..Len(z) : z[k] = s[k + 1]
    BY <1>1, HeadTailProperties
  <2>. QED BY <2>1, <2>2, EmptySeq
<1>. HIDE DEF z
<1>3. Head(s).tipo = t /\ t \in TipiStudente
  BY <1>2 DEF Catena
<1>4. z # <<>> => z[Len(z)] = s[Len(s)] /\ z[1].tipo = Seguito(s[1]) /\ z[1].tipo \in TipiStudente
  BY <1>2 DEF Catena
<1>5. Catena(z, Seguito(Head(s)))
  BY <1>2, <1>4 DEF Catena
<1>6. Poi(z, Seguito(Head(s))) = Poi(s, t)
  <2>1. z = <<>> => s[Len(s)] = Head(s)
    <3>1. z = <<>> => Len(s) = 1
      BY <1>2
    <3>. QED BY <1>2, <3>1
  <2>. QED BY <1>4, <2>1 DEF Poi
<1>. QED BY <1>2, <1>3, <1>4, <1>5, <1>6 DEF Sequenza, z

(* A stream from which nothing was sent yet.                               *)
LEMMA CatenaVuota == \A t : Catena(<<>>, t) /\ Poi(<<>>, t) = t
  BY VuotaSequenza DEF Catena, Poi

-----------------------------------------------------------------------------
(* A step in which nothing of p's conversation changes, apart from p's     *)
(* death.                                                                  *)
LEMMA ColloquioFermo ==
  ASSUME NEW p \in Proc, Colloquio(p),
         su'[p] = su[p], giu'[p] = giu[p], chiuso'[p] = chiuso[p],
         mat'[p] = mat[p], cod'[p] = cod[p], reqS'[p] = reqS[p], guasti \subseteq guasti',
         \/ pcS'[p] = pcS[p]
         \/ /\ pcS[p] \notin {"inizio", "finito"} /\ pcS'[p] = "uscita"
            /\ "studente" \in guasti' \/ "server" \in chiuso[p],
         pcG = "finita" <=> pcG' = "finita",
         SegreteriaViva' => SegreteriaViva /\ Turno(p)' = Turno(p)
  PROVE  Colloquio(p)'
<1>1. Sequenza(su[p])' /\ Sequenza(giu[p])' /\ Chiusura(p)'
  BY DEF Colloquio, Chiusura
<1>2. ASSUME InDialogo(p)' PROVE Accordo(p)' /\ Ultimo(p)'
  <2>1. InDialogo(p) /\ Turno(p)' = Turno(p)
    BY <1>2 DEF InDialogo
  <2>2. Catena(su[p], Turno(p))' /\ Poi(su[p], Turno(p))' = Poi(su[p], Turno(p))
    BY <2>1 DEF Colloquio, Accordo, Catena, Poi
  <2>3. Accordo(p)'
    <3>1. Congedo(p)'
      BY <2>1, <2>2 DEF Colloquio, Accordo, Congedo, InDialogo
    <3>. QED BY <2>1, <2>2, <3>1 DEF Colloquio, Accordo, DaServireAncora, Servito, Invia, Attese
  <2>. QED BY <2>1, <2>3 DEF Colloquio, Ultimo
<1>. QED BY <1>1, <1>2 DEF Colloquio

LEMMA TurnoFermo ==
  ASSUME UNCHANGED <<coda, fdConn, client_sockets, dim, i, pcG>>
  PROVE  \A p \in Proc : Turno(p)' = Turno(p)
  BY DEF Turno, AllAccesso, InCoda, InTabella, Cliente

(* The student writes v at the prompt where v is asked, and blocks at      *)
(* stato, where what comes next is asked or awaited.                       *)
LEMMA StudenteScrive ==
  ASSUME NEW p \in Proc, Dialogo, DOMAIN su = Conn, pcS \in [Proc -> StatiS],
         NEW v, NEW k, NEW stato, Scrive(p, <<v>>, k, stato), UNCHANGED pcG,
         \A q \in Proc : Turno(q)' = Turno(q),
         pcS[p] \in DOMAIN Invia, v.tipo = Invia[pcS[p]],
         \/ stato \in DOMAIN Invia /\ Invia[stato] = Seguito(v)
         \/ stato \in Attese /\ Aspetta[stato] = Seguito(v)
         \/ stato = "uscita" /\ Seguito(v) = "fine",
         \A q \in Proc \ {p} : mat'[q] = mat[q] /\ cod'[q] = cod[q] /\ reqS'[q] = reqS[q],
         v.tipo = "credenziali" => v.num = mat'[p],
         v.tipo = "richiesta" => v.val = reqS'[p],
         v.tipo = "dati" => v.num = mat'[p] /\ v.cod = cod'[p]
  PROVE  \A q \in Proc : Colloquio(q)'
<1>1. /\ su' = Messo(su, p, "client", <<v>>)
      /\ \E t \in {"uscita", stato} :
           /\ pcS' = [pcS EXCEPT ![p] = t]
           /\ t = stato \/ "server" \in chiuso[p]
      /\ UNCHANGED <<giu, chiuso, guasti>>
  BY DEF Scrive, Vai, Sigpipe, Chiusa, Altro
<1>2. stato \in DOMAIN Invia \cup Attese \cup {"uscita"} /\ stato \notin {"inizio", "finito"}
  BY DEF Invia, Attese
<1>3. \A q \in Proc \ {p} : su'[q] = su[q] /\ pcS'[q] = pcS[q]
  BY <1>1 DEF Messo, Conn
<1>4. ASSUME NEW q \in Proc \ {p} PROVE Colloquio(q)'
  BY <1>1, <1>3, ColloquioFermo DEF Dialogo, SegreteriaViva
<1>5. Colloquio(p)'
  <2>1. Colloquio(p) /\ pcS[p] \notin {"inizio", "uscita", "finito"} /\ pcS[p] \notin Attese
    BY DEF Dialogo, Invia, Attese
  <2>2. pcS'[p] \in {"uscita", stato}
    BY <1>1
  <2>3. Chiusura(p)'
    BY <1>1, <1>2, <2>1, <2>2 DEF Colloquio, Chiusura
  <2>4. CASE "server" \in chiuso[p]
    <3>1. su'[p] = su[p]
      BY <1>1, <2>4 DEF Messo, Chiusa, Altro, Conn
    <3>. QED BY <1>1, <2>1, <2>3, <2>4, <3>1 DEF Colloquio, InDialogo
  <2>5. CASE "server" \notin chiuso[p]
    <3>1. su'[p] = su[p] \o <<v>>
      BY <1>1, <2>5 DEF Messo, Chiusa, Altro, Conn
    <3>2. Sequenza(su[p])' /\ Sequenza(giu[p])'
      <4>1. Sequenza(su[p] \o <<v>>)
        BY <2>1, Scritta DEF Colloquio
      <4>. QED BY <1>1, <2>1, <3>1, <4>1 DEF Colloquio
    <3>3. ASSUME InDialogo(p)' PROVE Accordo(p)' /\ Ultimo(p)'
      <4>1. InDialogo(p)
        BY <1>1, <2>1, <3>3 DEF InDialogo, SegreteriaViva
      <4>2. /\ Catena(su[p], Turno(p)) /\ giu[p] = <<>>
            /\ v.tipo = Poi(su[p], Turno(p)) /\ v.tipo \in TipiStudente
        BY <2>1, <4>1 DEF Colloquio, Accordo, Invia, TipiStudente
      <4>3. LET z == su[p] \o <<v>> IN
            z # <<>> /\ z[Len(z)] = v /\ Catena(z, Turno(p)) /\ Poi(z, Turno(p)) = Seguito(v)
        BY <2>1, <4>2, CatenaScritta DEF Colloquio
      <4>4. /\ su[p]' # <<>> /\ su[p]'[Len(su[p]')] = v /\ Catena(su[p]', Turno(p)')
            /\ Poi(su[p]', Turno(p)') = Seguito(v)
        BY <3>1, <4>3
      <4>5. Ultimo(p)'
        BY <4>4 DEF Ultimo
      <4>6. pcS'[p] = stato
        BY <1>1, <2>5
      <4>7. Accordo(p)'
        BY <1>1, <1>2, <4>2, <4>4, <4>6 DEF Accordo, Congedo, DaServireAncora, Invia, Attese
      <4>. QED BY <4>5, <4>7
    <3>. QED BY <2>3, <3>2, <3>3 DEF Colloquio
  <2>. QED BY <2>4, <2>5
<1>. QED BY <1>4, <1>5

(* The student reads his reply; only a refusal ends him.                   *)
LEMMA StudenteLegge ==
  ASSUME NEW p \in Proc, Dialogo, pcS \in [Proc -> StatiS],
         NEW stato \in {"menu", "uscita"}, Legge(p, stato), pcS[p] \in Attese,
         UNCHANGED <<pcG, mat, cod, reqS>>, \A q \in Proc : Turno(q)' = Turno(q),
         stato = "uscita" <=> pcS[p] = "attendeLogin" /\ giu[p] # <<>> /\ ~giu[p][1].ok
  PROVE  \A q \in Proc : Colloquio(q)'
<1>1. /\ Pronto(p, "client") /\ giu' = Tolto(giu, p) /\ pcS' = [pcS EXCEPT ![p] = stato]
      /\ UNCHANGED <<su, chiuso, guasti>>
  BY DEF Legge, Vai
<1>2. \A q \in Proc \ {p} : giu'[q] = giu[q] /\ pcS'[q] = pcS[q]
  BY <1>1 DEF Tolto, Dialogo, Conn
<1>3. ASSUME NEW q \in Proc \ {p} PROVE Colloquio(q)'
  BY <1>1, <1>2, ColloquioFermo DEF Dialogo, SegreteriaViva
<1>4. Colloquio(p)'
  <2>1. Colloquio(p) /\ pcS[p] \notin {"inizio", "uscita", "finito"} /\ pcS'[p] = stato
    BY <1>1 DEF Dialogo, Attese
  <2>2. giu'[p] = IF giu[p] = <<>> THEN giu[p] ELSE Tail(giu[p])
    BY <1>1 DEF Tolto, Dialogo, Conn
  <2>3. Sequenza(giu[p])' /\ (giu[p] # <<>> /\ Len(giu[p]) = 1 => giu'[p] = <<>>)
    <3>1. giu[p] # <<>> => Len(Tail(giu[p])) = Len(giu[p]) - 1 /\ Sequenza(Tail(giu[p]))
                           /\ (Tail(giu[p]) = <<>> <=> Len(Tail(giu[p])) = 0)
      BY <2>1, Letta DEF Colloquio
    <3>. QED BY <2>1, <2>2, <3>1 DEF Colloquio
  <2>4. Chiusura(p)'
    BY <1>1, <2>1 DEF Colloquio, Chiusura
  <2>5. ASSUME InDialogo(p)' PROVE Accordo(p)' /\ Ultimo(p)'
    <3>1. InDialogo(p) /\ giu[p] # <<>>
      BY <1>1, <2>1, <2>5 DEF InDialogo, SegreteriaViva, Pronto, Arrivo, Chiusa, Altro
    <3>2. /\ Catena(su[p], Turno(p)) /\ su[p] = <<>> /\ Len(giu[p]) = 1
          /\ Turno(p) = IF stato = "menu" THEN "scelta" ELSE "nulla"
      BY <2>1, <3>1 DEF Colloquio, Accordo, DaServireAncora, Servito
    <3>3. Accordo(p)'
      BY <1>1, <2>1, <2>3, <3>1, <3>2, CatenaVuota DEF Accordo, Congedo, Invia, Attese
    <3>4. Ultimo(p)'
      BY <1>1, <2>1, <3>1 DEF Colloquio, Ultimo
    <3>. QED BY <3>3, <3>4
  <2>. QED BY <1>1, <2>1, <2>3, <2>4, <2>5 DEF Colloquio
<1>. QED BY <1>3, <1>4

LEMMA DialogoStudente ==
  ASSUME IInv, Lettura, Linea, Dialogo, PassoStudente(NextS)
  PROVE  Dialogo'
<1>1. /\ pcS \in [Proc -> StatiS] /\ DOMAIN su = Conn /\ DOMAIN chiuso = Conn
      /\ UNCHANGED <<fdConn, client_sockets, dim, i, pcG>>
  BY DEF IInv, Tipi, Linea, Collegati, PassoStudente, varsG
<1>2. PICK p \in Proc :
        \/ Utente(p) \/ Programma(p)
        \/ \E k \in Scelte : Scegli(p, k)
        \/ UccidiStudente(p)
  BY DEF PassoStudente, NextS
<1>3. DOMAIN giu' = Conn /\ DOMAIN mat' = Proc /\ DOMAIN cod' = Proc /\ DOMAIN reqS' = Proc
  BY <1>2 DEF Dialogo, Utente, Programma, InviaCredenziali, ScegliReq, DigitaNome, DigitaCod, Connetti,
              EsitoLogin, RiceviRighe, RiceviEsito, Esci, Scegli, UccidiStudente, Scrive, Legge, Tolto
<1>4. coda' = coda => \A q \in Proc : Turno(q)' = Turno(q)
  BY <1>1, TurnoFermo
<1>. SUFFICES \A q \in Proc : Colloquio(q)'
  BY <1>3 DEF Dialogo
<1>5. ASSUME NEW n \in Numeri, NEW w \in Password, InviaCredenziali(p, n, w)
      PROVE  \A q \in Proc : Colloquio(q)'
  <2>. DEFINE v == Credenziali(n, w)
  <2>1. /\ Scrive(p, <<v>>, 2, "attendeLogin") /\ pcS[p] = "login" /\ coda' = coda
        /\ mat' = [mat EXCEPT ![p] = n] /\ cod' = cod /\ reqS' = reqS
    BY <1>5 DEF InviaCredenziali, Scrive
  <2>2. v.tipo = "credenziali" /\ v.num = mat'[p] /\ Seguito(v) = "accesso"
    BY <2>1 DEF Credenziali, Seguito, Dialogo
  <2>. HIDE DEF v
  <2>3. \A q \in Proc \ {p} : mat'[q] = mat[q]
    BY <2>1 DEF Dialogo
  <2>4. pcS[p] \in DOMAIN Invia /\ v.tipo = Invia[pcS[p]]
        /\ "attendeLogin" \in Attese /\ Aspetta["attendeLogin"] = Seguito(v)
    BY <2>1, <2>2 DEF Invia, Attese, Aspetta
  <2>. QED BY <1>1, <1>4, <2>1, <2>2, <2>3, <2>4, StudenteScrive
<1>6. ASSUME NEW r \in Richieste, ScegliReq(p, r)
      PROVE  \A q \in Proc : Colloquio(q)'
  <2>. DEFINE v == Richiesta(r)
              stato == IF r = 2 THEN "digitaNome" ELSE "attendeRighe"
  <2>1. /\ Scrive(p, <<v>>, 1, stato) /\ pcS[p] = "sceltaReq" /\ coda' = coda
        /\ reqS' = [reqS EXCEPT ![p] = r] /\ cod' = cod /\ mat' = mat
    BY <1>6 DEF ScegliReq, Scrive
  <2>2. /\ v.tipo = "richiesta" /\ v.val = reqS'[p]
        /\ Seguito(v) = IF r = 2 THEN "nome" ELSE "righe"
    BY <2>1 DEF Richiesta, Seguito, Dialogo
  <2>3. \A q \in Proc \ {p} : reqS'[q] = reqS[q]
    BY <2>1 DEF Dialogo
  <2>4. /\ pcS[p] \in DOMAIN Invia /\ v.tipo = Invia[pcS[p]]
        /\ \/ stato \in DOMAIN Invia /\ Invia[stato] = Seguito(v)
           \/ stato \in Attese /\ Aspetta[stato] = Seguito(v)
    BY <2>1, <2>2 DEF Invia, Attese, Aspetta
  <2>. HIDE DEF v, stato
  <2>. QED BY <1>1, <1>4, <2>1, <2>2, <2>3, <2>4, StudenteScrive
<1>7. ASSUME NEW e \in Codici, DigitaCod(p, e)
      PROVE  \A q \in Proc : Colloquio(q)'
  <2>. DEFINE v == Dati(mat[p], e)
  <2>1. /\ Scrive(p, <<v>>, 2, "attendeEsito") /\ pcS[p] = "digitaCod" /\ coda' = coda
        /\ cod' = [cod EXCEPT ![p] = e] /\ mat' = mat /\ reqS' = reqS
    BY <1>7 DEF DigitaCod, Scrive
  <2>2. v.tipo = "dati" /\ v.num = mat'[p] /\ v.cod = cod'[p] /\ Seguito(v) = "esito"
    BY <2>1 DEF Dati, Seguito, Dialogo
  <2>. HIDE DEF v
  <2>3. \A q \in Proc \ {p} : cod'[q] = cod[q]
    BY <2>1 DEF Dialogo
  <2>4. pcS[p] \in DOMAIN Invia /\ v.tipo = Invia[pcS[p]]
        /\ "attendeEsito" \in Attese /\ Aspetta["attendeEsito"] = Seguito(v)
    BY <2>1, <2>2 DEF Invia, Attese, Aspetta
  <2>. QED BY <1>1, <1>4, <2>1, <2>2, <2>3, <2>4, StudenteScrive
<1>8. ASSUME NEW k \in Scelte, Scegli(p, k)
      PROVE  \A q \in Proc : Colloquio(q)'
  <2>. DEFINE v == Scelta(k)
              stato == CASE k = 1 -> "sceltaReq" [] k = 2 -> "digitaCod" [] k = 3 -> "uscita"
                         [] OTHER -> "menu"
  <2>1. /\ Scrive(p, <<v>>, 1, stato) /\ pcS[p] = "menu" /\ coda' = coda
        /\ UNCHANGED <<mat, cod, reqS>>
    BY <1>8 DEF Scegli, Scrive
  <2>2. k \in Int
    BY StudenteAssumption
  <2>3. /\ v.tipo = "scelta"
        /\ k = 1 => Seguito(v) = "richiesta" /\ stato = "sceltaReq"
        /\ k = 2 => Seguito(v) = "dati" /\ stato = "digitaCod"
        /\ k = 3 => Seguito(v) = "fine" /\ stato = "uscita"
        /\ k \notin 1..3 => Seguito(v) = "scelta" /\ stato = "menu"
    BY <2>2 DEF Scelta, Seguito
  <2>. HIDE DEF v, stato
  <2>4. /\ pcS[p] \in DOMAIN Invia /\ v.tipo = Invia[pcS[p]]
        /\ \/ stato \in DOMAIN Invia /\ Invia[stato] = Seguito(v)
           \/ stato = "uscita" /\ Seguito(v) = "fine"
    BY <2>1, <2>2, <2>3 DEF Invia
  <2>. QED BY <1>1, <1>4, <2>1, <2>3, <2>4, StudenteScrive
<1>9. ASSUME NEW x \in Nomi, DigitaNome(p, x)
      PROVE  \A q \in Proc : Colloquio(q)'
  <2>1. /\ pcS[p] = "digitaNome" /\ coda' = coda /\ UNCHANGED <<mat, cod, reqS>>
        /\ Scrive(p, IF x = Vuoto THEN <<>> ELSE <<Nome(x)>>, 1, "attendeRighe")
    BY <1>9 DEF DigitaNome, Scrive
  <2>2. CASE x # Vuoto
    <3>. DEFINE v == Nome(x)
    <3>1. Scrive(p, <<v>>, 1, "attendeRighe") /\ v.tipo = "nome" /\ Seguito(v) = "righe"
      BY <2>1, <2>2 DEF Nome, Seguito
    <3>. HIDE DEF v
    <3>2. pcS[p] \in DOMAIN Invia /\ v.tipo = Invia[pcS[p]]
          /\ "attendeRighe" \in Attese /\ Aspetta["attendeRighe"] = Seguito(v)
      BY <2>1, <3>1 DEF Invia, Attese, Aspetta
    <3>. QED BY <1>1, <1>4, <2>1, <3>1, <3>2, StudenteScrive
  <2>3. CASE x = Vuoto
    <3>1. /\ \E t \in {"uscita", "attendeRighe"} :
               /\ pcS' = [pcS EXCEPT ![p] = t]
               /\ t = "attendeRighe" \/ "server" \in chiuso[p]
          /\ UNCHANGED <<giu, chiuso, guasti>> /\ su' = Messo(su, p, "client", <<>>)
      BY <2>1, <2>3 DEF Scrive, Vai, Sigpipe, Chiusa, Altro
    <3>2. \A q \in Proc \ {p} : su'[q] = su[q] /\ pcS'[q] = pcS[q]
      BY <1>1, <3>1 DEF Messo, Conn
    <3>3. su[p] \o <<>> = su[p]
      BY ConcatEmptySeq DEF Dialogo, Colloquio, Sequenza
    <3>4. /\ su'[p] = su[p] /\ pcS'[p] \in {"uscita", "attendeRighe"}
          /\ pcS'[p] = "attendeRighe" \/ "server" \in chiuso[p]
      BY <1>1, <3>1, <3>3 DEF Messo, Conn
    <3>5. ASSUME NEW q \in Proc, q # p \/ pcS'[p] = "uscita" PROVE Colloquio(q)'
      BY <1>1, <1>4, <2>1, <3>1, <3>2, <3>4, <3>5, ColloquioFermo DEF Dialogo, SegreteriaViva
    <3>6. ASSUME pcS'[p] = "attendeRighe" PROVE Colloquio(p)'
      <4>1. Sequenza(su[p])' /\ Sequenza(giu[p])' /\ Chiusura(p)'
        BY <1>1, <2>1, <3>1, <3>4, <3>6 DEF Dialogo, Colloquio, Chiusura
      <4>2. ASSUME InDialogo(p)' PROVE Accordo(p)' /\ Ultimo(p)'
        <5>1. InDialogo(p)
          BY <1>1, <2>1, <3>1, <4>2 DEF InDialogo, SegreteriaViva
        <5>2. giu[p] = <<>> /\ Poi(su[p], Turno(p)) = "nome"
          BY <2>1, <5>1 DEF Dialogo, Colloquio, Accordo, Invia
        <5>3. Poi(su[p], Turno(p))' = "nome" /\ Catena(su[p], Turno(p))'
          BY <1>4, <2>1, <3>4, <5>1, <5>2 DEF Dialogo, Colloquio, Accordo, Poi, Catena
        <5>. QED BY <1>4, <2>1, <2>3, <3>1, <3>4, <3>6, <5>1, <5>2, <5>3
             DEF Dialogo, Colloquio, Accordo, Congedo, Ultimo, DaServireAncora, Invia, Attese
      <4>. QED BY <4>1, <4>2 DEF Colloquio
    <3>. QED BY <3>4, <3>5, <3>6
  <2>. QED BY <2>2, <2>3
<1>10. CASE EsitoLogin(p)
  <2>. DEFINE stato == IF giu[p] # <<>> /\ ~Head(giu[p]).ok THEN "uscita" ELSE "menu"
  <2>1. /\ pcS[p] = "attendeLogin" /\ coda' = coda /\ UNCHANGED <<mat, cod, reqS>>
        /\ Legge(p, stato)
    BY <1>10 DEF EsitoLogin, Legge
  <2>2. giu[p] # <<>> => Head(giu[p]) = giu[p][1]
    BY Letta DEF Dialogo, Colloquio
  <2>3. stato \in {"menu", "uscita"} /\ (stato = "uscita" <=> giu[p] # <<>> /\ ~giu[p][1].ok)
    BY <2>2
  <2>. HIDE DEF stato
  <2>4. UNCHANGED <<pcG, mat, cod, reqS>> /\ pcS[p] \in Attese /\ \A q \in Proc : Turno(q)' = Turno(q)
    BY <1>1, <1>4, <2>1 DEF Attese
  <2>. QED BY <1>1, <2>1, <2>3, <2>4, StudenteLegge
<1>11. CASE RiceviRighe(p) \/ RiceviEsito(p)
  <2>1. /\ pcS[p] \in {"attendeRighe", "attendeEsito"} /\ coda' = coda
        /\ UNCHANGED <<mat, cod, reqS>> /\ Legge(p, "menu")
    BY <1>11 DEF RiceviRighe, RiceviEsito, Legge
  <2>. QED BY <1>1, <1>4, <2>1, StudenteLegge DEF Attese
<1>12. CASE Connetti(p)
  <2>1. /\ pcS[p] = "inizio" /\ UNCHANGED <<mat, cod, reqS, su, giu, chiuso, guasti>>
        /\ \/ coda' = Append(coda, p) /\ pcS' = [pcS EXCEPT ![p] = "login"] /\ pcG # "finita"
           \/ coda' = coda /\ pcS' = [pcS EXCEPT ![p] = "finito"] /\ pcG = "finita"
    BY <1>12 DEF Connetti, Vai, SegreteriaInAscolto, Linea, Collegati
  <2>2. \A q \in Proc \ {p} : pcS'[q] = pcS[q]
    BY <1>1, <2>1
  <2>3. ASSUME NEW q \in Proc
        PROVE  /\ q # p => Turno(q)' = Turno(q)
               /\ coda' = Append(coda, p) => Turno(p)' = "credenziali"
    <3>1. CASE coda' = coda
      <4>1. coda' # Append(coda, p)
        BY <3>1 DEF IInv, Tipi
      <4>. QED BY <1>4, <3>1, <4>1
    <3>2. CASE coda' = Append(coda, p)
      <4>1. /\ Len(coda') = Len(coda) + 1 /\ coda'[Len(coda) + 1] = p /\ Len(coda) \in Nat
            /\ \A k \in 1..Len(coda) : coda'[k] = coda[k]
        BY <3>2 DEF IInv, Tipi
      <4>2. InCoda(q)' <=> InCoda(q) \/ q = p
        BY <4>1 DEF InCoda
      <4>3. InCoda(p)'
        BY <4>1 DEF InCoda
      <4>. QED BY <1>1, <4>2, <4>3 DEF Turno, AllAccesso, InTabella, Cliente
    <3>. QED BY <2>1, <3>1, <3>2
  <2>4. ASSUME NEW q \in Proc \ {p} PROVE Colloquio(q)'
    BY <1>1, <2>1, <2>2, <2>3, ColloquioFermo DEF Dialogo, SegreteriaViva
  <2>5. Colloquio(p)'
    <3>1. /\ su[p] = <<>> /\ giu[p] = <<>> /\ chiuso[p] = {} /\ mat[p] = Residuo
          /\ Sequenza(su[p]) /\ Sequenza(giu[p]) /\ pcS'[p] \in {"login", "finito"}
      BY <2>1, <1>1 DEF Dialogo, Colloquio, Chiusura
    <3>2. Chiusura(p)'
      BY <1>1, <2>1, <3>1 DEF Chiusura
    <3>3. InDialogo(p)' => Accordo(p)' /\ Ultimo(p)'
      BY <1>1, <2>1, <2>3, <3>1, CatenaVuota
      DEF InDialogo, SegreteriaViva, Accordo, Congedo, Ultimo, Invia, Attese
    <3>. QED BY <2>1, <3>1, <3>2, <3>3 DEF Colloquio
  <2>. QED BY <2>4, <2>5
<1>13. CASE Esci(p)
  <2>1. /\ pcS[p] = "uscita" /\ UNCHANGED <<coda, mat, cod, reqS, su, giu, guasti>>
        /\ pcS' = [pcS EXCEPT ![p] = "finito"]
        /\ chiuso' = [c \in Conn |-> IF c = p THEN chiuso[c] \cup {"client"} ELSE chiuso[c]]
    BY <1>13 DEF Esci, Vai, Chiudi
  <2>2. \A q \in Proc \ {p} : pcS'[q] = pcS[q] /\ chiuso'[q] = chiuso[q]
    BY <2>1 DEF Conn
  <2>3. ASSUME NEW q \in Proc \ {p} PROVE Colloquio(q)'
    BY <1>1, <1>4, <2>1, <2>2, ColloquioFermo DEF Dialogo, SegreteriaViva
  <2>4. Colloquio(p)'
    <3>1. pcS'[p] = "finito" /\ chiuso'[p] = chiuso[p] \cup {"client"}
      BY <1>1, <2>1 DEF Conn
    <3>2. Chiusura(p)'
      BY <1>1, <2>1, <3>1 DEF Dialogo, Colloquio, Chiusura
    <3>3. ASSUME InDialogo(p)' PROVE Accordo(p)' /\ Ultimo(p)'
      <4>1. InDialogo(p)
        BY <1>1, <2>1, <3>1, <3>3 DEF InDialogo, SegreteriaViva
      <4>2. Catena(su[p], Turno(p))' /\ Poi(su[p], Turno(p))' = Poi(su[p], Turno(p))
        BY <1>4, <2>1, <4>1 DEF Dialogo, Colloquio, Accordo, Catena, Poi
      <4>. QED BY <1>4, <2>1, <3>1, <4>1, <4>2
           DEF Dialogo, Colloquio, Accordo, Congedo, Ultimo, Invia, Attese
    <3>. QED BY <2>1, <3>2, <3>3 DEF Dialogo, Colloquio
  <2>. QED BY <2>3, <2>4
<1>14. CASE UccidiStudente(p)
  <2>1. /\ pcS[p] \notin {"inizio", "finito"} /\ UNCHANGED <<coda, mat, cod, reqS, su, giu, chiuso>>
        /\ pcS' = [pcS EXCEPT ![p] = "uscita"] /\ guasti \subseteq guasti'
        /\ "studente" \in guasti'
    BY <1>14 DEF UccidiStudente, Vai, Guasto
  <2>. QED BY <1>1, <1>4, <2>1, ColloquioFermo DEF Dialogo, SegreteriaViva
<1>. QED BY <1>2, <1>5, <1>6, <1>7, <1>8, <1>9, <1>10, <1>11, <1>12, <1>13, <1>14
     DEF Utente, Programma

(* The server knows nothing of the students' connections.                  *)
LEMMA DialogoServer == ASSUME Lettura, Dialogo, PassoServer(NextU) PROVE Dialogo'
<1>1. /\ su' = su \/ su' = Tolto(su, Link) \/ \E k \in Presi(su, Link) : su' = Senza(su, Link, k)
      /\ chiuso' = chiuso \/ Chiudi({Link}, "server")
      /\ UNCHANGED <<varsG, varsS, coda>>
  BY DEF PassoServer, NextU, ProgrammaU, AccettaSegreteria, LeggiRichiesta, LeggiNomeEsame,
         AggiungiAppello, AggiungiPrenotazione, UccidiServer, TerminaServer, varsRete
<1>2. giu' = giu \/ \E voci : giu' = Messo(giu, Link, "server", voci)
  BY DEF PassoServer, NextU, ProgrammaU, AccettaSegreteria, LeggiRichiesta, LeggiNomeEsame,
         AggiungiAppello, AggiungiPrenotazione, UccidiServer, TerminaServer, Replica, varsRete
<1>3. guasti \subseteq guasti'
  BY DEF PassoServer, NextU, ProgrammaU, AccettaSegreteria, LeggiRichiesta, LeggiNomeEsame,
         AggiungiAppello, AggiungiPrenotazione, UccidiServer, TerminaServer, varsRete, Guasto,
         NessunGuasto
<1>4. \A p \in Proc : su'[p] = su[p] /\ chiuso'[p] = chiuso[p]
  BY <1>1, Costanti DEF Lettura, Flussi, Tolto, Senza, Chiudi, Conn
<1>5. DOMAIN giu' = Conn /\ \A p \in Proc : giu'[p] = giu[p]
  BY <1>2, Costanti DEF Dialogo, Messo, Conn
<1>6. ASSUME NEW p \in Proc PROVE Colloquio(p)'
  <2>1. Turno(p)' = Turno(p)
    BY <1>1, TurnoFermo DEF varsG
  <2>. QED BY <1>1, <1>3, <1>4, <1>5, <2>1, ColloquioFermo DEF Dialogo, varsG, varsS, SegreteriaViva
<1>. QED BY <1>1, <1>5, <1>6 DEF Dialogo, varsS

-----------------------------------------------------------------------------
(* A live entry is of a student of its own, who is not in the backlog.     *)
LEMMA ClienteVivo ==
  ASSUME IInv, pcG # "finita", NEW k \in Slot, k <= dim, client_sockets[k].connfd # -1
  PROVE  /\ Cliente(k) \in Proc /\ ~InCoda(Cliente(k)) /\ InTabella(Cliente(k))
         /\ pcS[Cliente(k)] # "inizio"
         /\ pcG = "credenziali" => Cliente(k) # Cliente(dim + 1)
<1>. DEFINE f == client_sockets[k].connfd
<1>1. f \in Fd /\ fdConn[f] \in Proc /\ Cliente(k) = fdConn[f]
  BY DEF IInv, Tipi, Tabella, Aperto, Cliente
<1>. HIDE DEF f
<1>2. ~InCoda(Cliente(k)) /\ pcS[Cliente(k)] # "inizio"
  BY <1>1 DEF IInv, Unica, InCoda
<1>3. InTabella(Cliente(k))
  BY DEF InTabella
<1>4. ASSUME pcG = "credenziali" PROVE Cliente(k) # Cliente(dim + 1)
  <2>1. dim + 1 \in Slot /\ dim \in Nat
    BY <1>4, Costanti DEF IInv, Tipi, InAccesso, Slot
  <2>2. client_sockets[dim + 1].connfd \in Fd /\ client_sockets[dim + 1].connfd # f
    BY <1>4, <2>1 DEF IInv, Tipi, InAccesso, f
  <2>. QED BY <1>1, <2>2, Costanti DEF IInv, Unica, Cliente, Nessuno
<1>. QED BY <1>1, <1>2, <1>3, <1>4

(* The loop over the clients, and the dialogues in it, move one student on *)
(* and leave the others where they are.                                    *)
LEMMA TurnoServito ==
  ASSUME IInv, pcG \in Fermi \cup {"scorri"}, pcG' \in Fermi \cup {"scorri"},
         i \in Slot, i <= dim, client_sockets[i].connfd # -1,
         UNCHANGED <<coda, fdConn, client_sockets, dim>>,
         pcG' \in Fermi => i' = i
  PROVE  /\ \A q \in Proc \ {Cliente(i)} : Turno(q)' = Turno(q)
         /\ Turno(Cliente(i)) = IF pcG = "scorri" THEN "scelta" ELSE Legge1[pcG]
         /\ \A p : p = Cliente(i) =>
              Turno(p)' = IF pcG' = "scorri" THEN "scelta" ELSE Legge1[pcG']
<1>1. Cliente(i) \in Proc /\ ~InCoda(Cliente(i)) /\ InTabella(Cliente(i))
  BY ClienteVivo DEF Fermi
<1>2. \A q : (InCoda(q)' <=> InCoda(q)) /\ (InTabella(q)' <=> InTabella(q))
  BY DEF InCoda, InTabella, Cliente
<1>3. Cliente(i)' = Cliente(i) \/ pcG' = "scorri"
  BY DEF Cliente
<1>4. pcG # "credenziali" /\ pcG' # "credenziali" /\ "scorri" \notin Fermi
  BY DEF Fermi
<1>. QED BY <1>1, <1>2, <1>3, <1>4 DEF Turno, AllAccesso

-----------------------------------------------------------------------------
(* The segreteria reads the next item of p, or the end of the connection,  *)
(* and expects what comes after it, or answers it, or drops a view.        *)
LEMMA SegreteriaLegge ==
  ASSUME NEW p \in Proc, Dialogo, DOMAIN su = Conn, Pronto(p, "server"), pcS[p] # "inizio",
         su'[p] = Tolto(su, p)[p], chiuso'[p] = chiuso[p],
         UNCHANGED <<pcS, mat, cod, reqS>>, guasti \subseteq guasti',
         SegreteriaViva, pcG' # "finita",
         NEW v, giu'[p] = giu[p] \/ giu'[p] = Messo(giu, p, "server", <<v>>)[p],
         SegreteriaViva' => Turno(p) \in TipiStudente /\ Turno(p)' # "credenziali",
         SegreteriaViva' /\ su[p] # <<>> /\ Head(su[p]).tipo = Turno(p) =>
           \/ giu'[p] = giu[p] /\ Turno(p)' = Seguito(Head(su[p]))
           \/ /\ giu'[p] = Messo(giu, p, "server", <<v>>)[p]
              /\ v.tipo = Seguito(Head(su[p])) /\ v.tipo \in {"accesso", "righe"}
              /\ Turno(p)' = IF v.tipo = "accesso" /\ ~v.ok THEN "nulla" ELSE "scelta"
           \/ /\ giu'[p] = giu[p] /\ Turno(p)' = "scelta" /\ Seguito(Head(su[p])) = "righe"
              /\ \/ Head(su[p]).tipo = "richiesta" /\ Head(su[p]).val \notin 1..2
                 \/ "query" \in guasti'
  PROVE  Colloquio(p)'
<1>. DEFINE h == Head(su[p])
<1>1. Colloquio(p)
  BY DEF Dialogo
<1>2. su'[p] = IF su[p] = <<>> THEN <<>> ELSE Tail(su[p])
  BY DEF Tolto, Conn
<1>3. giu'[p] = giu[p] \/ (giu'[p] = giu[p] \o <<v>> /\ "client" \notin chiuso[p])
  BY DEF Messo, Chiusa, Altro, Dialogo, Conn
<1>4. Sequenza(su[p])' /\ Sequenza(giu[p])'
  <2>1. Sequenza(su'[p])
    BY <1>1, <1>2, Letta, VuotaSequenza DEF Colloquio
  <2>2. Sequenza(giu[p] \o <<v>>)
    BY <1>1, Scritta DEF Colloquio
  <2>3. Sequenza(giu'[p])
    BY <1>1, <1>3, <2>2 DEF Colloquio
  <2>. QED BY <2>1, <2>3
<1>5. Chiusura(p)'
  BY <1>1 DEF Colloquio, Chiusura, SegreteriaViva
<1>6. ASSUME InDialogo(p)' PROVE Accordo(p)' /\ Ultimo(p)'
  <2>1. InDialogo(p) /\ SegreteriaViva'
    BY <1>6 DEF InDialogo
  <2>2. Catena(su[p], Turno(p)) /\ Accordo(p) /\ Ultimo(p)
    BY <1>1, <2>1 DEF Colloquio, Accordo
  <2>3. CASE su[p] = <<>>
    <3>1. "client" \in chiuso[p] /\ pcS[p] = "finito"
      BY <1>1, <2>3 DEF Pronto, Arrivo, Chiusa, Altro, Colloquio, Chiusura
    <3>2. su'[p] = <<>> /\ Turno(p)' # "credenziali" /\ Catena(<<>>, Turno(p)')
      BY <1>2, <2>1, <2>3, CatenaVuota
    <3>3. "studente" \in guasti
      BY <2>1, <2>2, <2>3, <3>1, CatenaVuota DEF Accordo, Congedo, TipiStudente
    <3>. QED BY <3>1, <3>2, <3>3 DEF Accordo, Congedo, Ultimo, Invia, Attese
  <2>4. CASE su[p] # <<>>
    <3>1. /\ h.tipo = Turno(p) /\ Catena(Tail(su[p]), Seguito(h))
          /\ Poi(Tail(su[p]), Seguito(h)) = Poi(su[p], Turno(p))
          /\ Tail(su[p]) # <<>> => Tail(su[p])[Len(Tail(su[p]))] = su[p][Len(su[p])]
          /\ Tail(su[p]) = <<>> => h = su[p][Len(su[p])]
          /\ Seguito(h) \notin TipiStudente => Tail(su[p]) = <<>>
      BY <1>1, <2>2, <2>4, CatenaLetta DEF Colloquio
    <3>2. Turno(p)' # "credenziali" /\ su'[p] = Tail(su[p])
      BY <1>2, <2>1, <2>4
    <3>3. CASE giu'[p] = giu[p] /\ Turno(p)' = Seguito(h)
      <4>1. Catena(su[p], Turno(p))' /\ Poi(su[p], Turno(p))' = Poi(su[p], Turno(p))
        BY <3>1, <3>2, <3>3 DEF Catena, Poi
      <4>2. Accordo(p)'
        BY <2>1, <2>2, <2>4, <3>3, <4>1 DEF Accordo, Congedo, DaServireAncora, Servito, TipiStudente
      <4>3. Ultimo(p)'
        BY <2>2, <2>4, <3>1, <3>2 DEF Ultimo
      <4>. QED BY <4>2, <4>3
    <3>4. CASE ~(giu'[p] = giu[p] /\ Turno(p)' = Seguito(h))
      <4>. Seguito(h) \in {"accesso", "righe"}
        BY <2>1, <2>4, <3>1, <3>4
      <4>1. su'[p] = <<>> /\ Poi(su[p], Turno(p)) = Seguito(h)
        BY <2>4, <3>1, <3>2, <3>4 DEF TipiStudente, Poi
      <4>2. /\ pcS[p] \notin DOMAIN Invia
            /\ pcS[p] \in Attese => giu[p] = <<>> /\ Aspetta[pcS[p]] = Seguito(h)
        BY <2>2, <2>4, <3>4, <4>1
        DEF Accordo, DaServireAncora, Servito, Invia, Attese, Aspetta
      <4>7. Congedo(p)'
        BY <2>1, <2>2, <4>1 DEF Accordo, Congedo, TipiStudente
      <4>3. Catena(su[p], Turno(p))'
        BY <4>1, CatenaVuota
      <4>4. ASSUME pcS[p] \in Attese PROVE Servito(p)'
        <5>1. giu[p] = <<>> /\ Aspetta[pcS[p]] = Seguito(h) /\ "client" \notin chiuso[p]
          BY <1>1, <4>2, <4>4 DEF Colloquio, Chiusura, Attese
        <5>2. CASE /\ giu'[p] = Messo(giu, p, "server", <<v>>)[p] /\ v.tipo = Seguito(h)
                   /\ Turno(p)' = IF v.tipo = "accesso" /\ ~v.ok THEN "nulla" ELSE "scelta"
          <6>1. giu'[p] = giu[p] \o <<v>>
            BY <5>1, <5>2 DEF Messo, Chiusa, Altro, Dialogo, Conn
          <6>2. Len(giu'[p]) = 1 /\ giu'[p][1] = v
            BY <1>1, <5>1, <6>1, Scritta, VuotaSequenza DEF Colloquio
          <6>3. pcS[p] = "attendeLogin" <=> v.tipo = "accesso"
            BY <4>4, <5>1, <5>2 DEF Attese, Aspetta
          <6>. QED BY <4>1, <5>1, <5>2, <6>2, <6>3 DEF Servito
        <5>3. CASE /\ giu'[p] = giu[p] /\ Turno(p)' = "scelta" /\ Seguito(h) = "righe"
                   /\ \/ h.tipo = "richiesta" /\ h.val \notin 1..2
                      \/ "query" \in guasti'
          <6>1. pcS[p] = "attendeRighe"
            BY <4>4, <5>1, <5>3 DEF Attese, Aspetta
          <6>2. reqS[p] \notin 1..2 \/ "query" \in guasti'
            BY <2>2, <2>4, <3>1, <3>2, <4>1, <5>3 DEF Ultimo
          <6>. QED BY <4>1, <5>1, <5>3, <6>1, <6>2 DEF Servito
        <5>. QED BY <2>1, <2>4, <3>1, <3>4, <5>2, <5>3
      <4>5. Accordo(p)'
        BY <4>2, <4>3, <4>4, <4>7 DEF Accordo
      <4>6. Ultimo(p)'
        BY <3>2, <4>1 DEF Ultimo
      <4>. QED BY <4>5, <4>6
    <3>. QED BY <2>1, <2>4, <3>1, <3>3, <3>4
  <2>. QED BY <2>3, <2>4
<1>. QED BY <1>4, <1>5, <1>6 DEF Colloquio

(* The outcome of a booking is passed on to the student who waits for it.  *)
LEMMA SegreteriaInoltra ==
  ASSUME NEW p \in Proc, Dialogo, pcS[p] # "inizio", su'[p] = su[p], chiuso'[p] = chiuso[p],
         UNCHANGED <<pcS, mat, cod, reqS, guasti>>, SegreteriaViva, pcG' # "finita",
         NEW v, v.tipo = "esito", giu'[p] = Messo(giu, p, "server", <<v>>)[p],
         Turno(p) = "esito", SegreteriaViva' => Turno(p)' = "scelta"
  PROVE  Colloquio(p)'
<1>1. Colloquio(p)
  BY DEF Dialogo
<1>2. giu'[p] = giu[p] \/ (giu'[p] = giu[p] \o <<v>> /\ "client" \notin chiuso[p])
  BY DEF Messo, Chiusa, Altro, Dialogo, Conn
<1>3. Sequenza(giu[p])'
  <2>1. Sequenza(giu[p] \o <<v>>)
    BY <1>1, Scritta DEF Colloquio
  <2>. QED BY <1>1, <1>2, <2>1 DEF Colloquio
<1>4. Chiusura(p)'
  BY <1>1 DEF Colloquio, Chiusura, SegreteriaViva
<1>5. ASSUME InDialogo(p)' PROVE Accordo(p)' /\ Ultimo(p)'
  <2>1. InDialogo(p) /\ Turno(p)' = "scelta"
    BY <1>5 DEF InDialogo
  <2>2. Accordo(p) /\ su[p] = <<>>
    <3>1. Catena(su[p], Turno(p)) /\ Accordo(p) /\ Len(su[p]) \in Nat
          /\ (su[p] # <<>> => Len(su[p]) # 0)
      BY <1>1, <2>1, Letta DEF Colloquio, Accordo
    <3>. QED BY <3>1 DEF Catena, TipiStudente
  <2>3. Poi(su[p], Turno(p)) = "esito" /\ Catena(su[p], Turno(p))'
    BY <2>2, CatenaVuota
  <2>4. /\ pcS[p] \notin DOMAIN Invia
        /\ pcS[p] \in Attese => giu[p] = <<>> /\ pcS[p] = "attendeEsito"
    BY <2>2, <2>3 DEF Accordo, DaServireAncora, Servito, Invia, Attese, Aspetta
  <2>5. ASSUME pcS[p] \in Attese PROVE Servito(p)'
    <3>1. giu[p] = <<>> /\ pcS[p] = "attendeEsito" /\ "client" \notin chiuso[p]
      BY <1>1, <2>4, <2>5 DEF Colloquio, Chiusura
    <3>2. giu'[p] = giu[p] \o <<v>>
      BY <3>1 DEF Messo, Chiusa, Altro, Dialogo, Conn
    <3>3. Len(giu'[p]) = 1 /\ giu'[p][1] = v
      <4>1. Len(giu[p]) = 0 /\ Len(giu[p] \o <<v>>) = Len(giu[p]) + 1
            /\ (Len(giu[p]) = 0 => (giu[p] \o <<v>>)[1] = v)
        BY <1>1, <3>1, Scritta, VuotaSequenza DEF Colloquio
      <4>. QED BY <3>2, <4>1
    <3>. QED BY <2>1, <2>2, <3>1, <3>3 DEF Servito, Aspetta
  <2>6. Congedo(p)'
    BY <2>1, <2>2, <2>3 DEF Accordo, Congedo
  <2>. QED BY <2>1, <2>2, <2>3, <2>4, <2>5, <2>6 DEF Accordo, Ultimo
<1>. QED BY <1>1, <1>3, <1>4, <1>5 DEF Colloquio

(* Away from the students, and where a connection is accepted.             *)
LEMMA TurnoFuori ==
  ASSUME IInv, pcG \notin Fermi \cup {"credenziali"}, pcG' \notin Fermi \cup {"credenziali"},
         UNCHANGED <<coda, fdConn, dim>>,
         \A k \in Slot : k <= dim => client_sockets'[k] = client_sockets[k]
  PROVE  \A q \in Proc : Turno(q)' = Turno(q)
  BY DEF Turno, AllAccesso, InCoda, InTabella, Cliente

LEMMA TurnoAccetta == ASSUME IInv, Accetta PROVE \A q \in Proc : Turno(q)' = Turno(q)
<1>1. PICK f \in Fd :
        /\ fdConn[f] = Nessuno /\ fdConn' = [fdConn EXCEPT ![f] = Head(coda)]
        /\ client_sockets' = [client_sockets EXCEPT ![dim + 1].connfd = f]
  BY DEF Accetta, Libero
<1>2. /\ coda # <<>> /\ coda' = Tail(coda) /\ dim' = dim /\ dim + 1 \in Slot /\ dim \in Nat
      /\ pcG \in {"giro", "ancora"} /\ pcG' = "credenziali"
  BY Costanti DEF Accetta, IInv, Tipi, Slot
<1>3. /\ Head(coda) = coda[1] /\ Len(coda) \in Nat \ {0} /\ Len(coda') = Len(coda) - 1
      /\ \A k \in 1..Len(coda') : coda'[k] = coda[k + 1]
  BY <1>2 DEF IInv, Tipi
<1>4. \A q \in Proc : InCoda(q) <=> InCoda(q)' \/ q = coda[1]
  <2>1. \A q \in Proc : InCoda(q)' \/ q = coda[1] => InCoda(q)
    BY <1>3 DEF InCoda
  <2>2. ASSUME NEW q \in Proc, InCoda(q), q # coda[1] PROVE InCoda(q)'
    <3>1. PICK k \in 1..Len(coda) : coda[k] = q
      BY <2>2 DEF InCoda
    <3>2. k - 1 \in 1..Len(coda') /\ coda'[k - 1] = q
      BY <1>3, <2>2, <3>1
    <3>. QED BY <3>2 DEF InCoda
  <2>. QED BY <2>1, <2>2
<1>5. (Cliente(dim + 1))' = coda[1]
  BY <1>1, <1>2, <1>3 DEF Cliente, IInv, Tipi
<1>6. ASSUME NEW q \in Proc PROVE InTabella(q)' <=> InTabella(q)
  <2>1. ASSUME NEW k \in Slot, k <= dim, client_sockets[k].connfd # -1
        PROVE  Cliente(k)' = Cliente(k) /\ client_sockets'[k] = client_sockets[k]
    <3>1. client_sockets'[k] = client_sockets[k]
      BY <1>1, <1>2, <2>1 DEF Slot
    <3>2. client_sockets[k].connfd \in Fd /\ fdConn[client_sockets[k].connfd] \in Proc
      BY <1>2, <2>1 DEF IInv, Tipi, Tabella, Aperto
    <3>3. client_sockets[k].connfd # f
      BY <1>1, <3>2, Costanti DEF Nessuno
    <3>. QED BY <1>1, <3>1, <3>2, <3>3 DEF Cliente, IInv, Tipi
  <2>2. \A k \in Slot : k <= dim => client_sockets'[k] = client_sockets[k]
    BY <1>1, <1>2 DEF Slot
  <2>. QED BY <1>2, <2>1, <2>2 DEF InTabella
<1>. QED BY <1>2, <1>4, <1>5, <1>6 DEF Turno, AllAccesso, Fermi

LEMMA TurnoLogin ==
  ASSUME IInv, pcG = "credenziali", pcG' = "ancora", UNCHANGED <<coda, fdConn>>,
         NEW n, client_sockets' = [client_sockets EXCEPT ![dim + 1].matricola = n],
         dim' \in {dim, dim + 1},
         NEW p, p = Cliente(dim + 1)
  PROVE  /\ p \in Proc /\ pcS[p] # "inizio" /\ Turno(p) = "credenziali"
         /\ Turno(p)' = IF dim' = dim THEN "nulla" ELSE "scelta"
         /\ \A q \in Proc \ {p} : Turno(q)' = Turno(q)
<1>1. dim + 1 \in Slot /\ dim \in Nat /\ client_sockets[dim + 1].connfd # -1
  BY Costanti DEF IInv, Tipi, InAccesso, Slot
<1>2. client_sockets[dim + 1].connfd \in Fd /\ p = fdConn[client_sockets[dim + 1].connfd] /\ p \in Proc
  BY <1>1 DEF IInv, Tipi, InAccesso, Aperto, Cliente
<1>3. ~InCoda(p) /\ pcS[p] # "inizio"
  BY <1>2 DEF IInv, Unica, InCoda
<1>4. \A k \in Slot : Cliente(k)' = Cliente(k) /\ client_sockets'[k].connfd = client_sockets[k].connfd
  BY <1>1 DEF Cliente, IInv, Tipi
<1>5. \A q : InCoda(q)' <=> InCoda(q)
  BY DEF InCoda
<1>6. ~InTabella(p)
  <2>1. ASSUME NEW k \in Slot, k <= dim, client_sockets[k].connfd # -1 PROVE Cliente(k) # p
    BY <2>1, ClienteVivo
  <2>. QED BY <2>1 DEF InTabella
<1>7. ASSUME NEW q \in Proc PROVE InTabella(q)' <=> InTabella(q) \/ (q = p /\ dim' # dim)
  <2>1. \A k \in Slot : k <= dim' <=> k <= dim \/ (k = dim + 1 /\ dim' # dim)
    BY <1>1 DEF Slot
  <2>. QED BY <1>1, <1>4, <2>1 DEF InTabella
<1>. QED BY <1>2, <1>3, <1>5, <1>6, <1>7 DEF Turno, AllAccesso, Fermi

-----------------------------------------------------------------------------
(* The steps of the segreteria.  A login answers the credentials.          *)
LEMMA DialogoLogin == ASSUME IInv, Dialogo, DOMAIN su = Conn, Login, UNCHANGED varsS PROVE Dialogo'
<1>. PICK p : p = Cliente(dim + 1)
  OBVIOUS
<1>. DEFINE n == CredenzialiLette(p).num
            ok == AccessoConsentito(n, CredenzialiLette(p).pass)
            v == EsitoAccesso(ok)
<1>1. /\ pcG = "credenziali" /\ Pronto(p, "server") /\ su' = Tolto(su, p)
      /\ UNCHANGED <<coda, fdConn, chiuso, pcS, mat, cod, reqS>>
      /\ client_sockets' = [client_sockets EXCEPT ![dim + 1].matricola = n]
      /\ \/ /\ giu' = Messo(giu, p, "server", <<v>>)
            /\ dim' = IF ok THEN dim + 1 ELSE dim
            /\ pcG' \in {"ancora", "uscita"} /\ guasti' = guasti
         \/ pcG' = "uscita" /\ dim' = dim /\ giu' = giu /\ guasti \subseteq guasti'
  BY DEF Login, InCorso, Risponde, DopoAccesso, Dopo, Guasto, NessunGuasto, varsS
<1>2. v.tipo = "accesso" /\ v.ok = ok /\ ok \in BOOLEAN
  BY DEF EsitoAccesso, AccessoConsentito
<1>. HIDE DEF n, ok, v
<1>3. p \in Proc /\ pcS[p] # "inizio" /\ dim \in Nat
  <2>1. dim + 1 \in Slot /\ dim \in Nat
    BY <1>1, Costanti DEF IInv, Tipi, InAccesso, Slot
  <2>2. client_sockets[dim + 1].connfd \in Fd /\ p = fdConn[client_sockets[dim + 1].connfd] /\ p \in Proc
    BY <1>1, <2>1 DEF IInv, Tipi, InAccesso, Aperto, Cliente
  <2>. QED BY <2>1, <2>2 DEF IInv, Unica
<1>4. pcG' = "ancora" => /\ Turno(p) = "credenziali"
                         /\ Turno(p)' = IF ok THEN "scelta" ELSE "nulla"
                         /\ \A q \in Proc \ {p} : Turno(q)' = Turno(q)
  <2>1. pcG' = "ancora" => dim' \in {dim, dim + 1} /\ (dim' = dim <=> ~ok)
    BY <1>1, <1>2, <1>3
  <2>2. ASSUME pcG' = "ancora"
        PROVE  /\ Turno(p) = "credenziali" /\ Turno(p)' = IF dim' = dim THEN "nulla" ELSE "scelta"
               /\ \A q \in Proc \ {p} : Turno(q)' = Turno(q)
    BY <1>1, <2>1, <2>2, TurnoLogin
  <2>. QED BY <1>2, <2>1, <2>2
<1>5. SegreteriaViva /\ pcG' # "finita" /\ (SegreteriaViva' => pcG' = "ancora")
  BY <1>1 DEF SegreteriaViva
<1>6. ASSUME NEW q \in Proc \ {p} PROVE Colloquio(q)'
  <2>1. su'[q] = su[q] /\ giu'[q] = giu[q]
    BY <1>1, <1>3 DEF Tolto, Messo, Dialogo, Conn
  <2>. QED BY <1>1, <1>4, <1>5, <2>1, ColloquioFermo DEF Dialogo, SegreteriaViva
<1>7. Colloquio(p)'
  <2>1. su[p] # <<>> /\ Head(su[p]).tipo = "credenziali" => Seguito(Head(su[p])) = "accesso"
    BY DEF Seguito
  <2>2. /\ su'[p] = Tolto(su, p)[p] /\ chiuso'[p] = chiuso[p] /\ guasti \subseteq guasti'
        /\ giu'[p] = giu[p] \/ giu'[p] = Messo(giu, p, "server", <<v>>)[p]
        /\ pcG' = "ancora" => giu'[p] = Messo(giu, p, "server", <<v>>)[p]
    BY <1>1
  <2>3. SegreteriaViva' => Turno(p) \in TipiStudente /\ Turno(p)' # "credenziali"
    BY <1>4, <1>5 DEF TipiStudente
  <2>4. SegreteriaViva' /\ su[p] # <<>> /\ Head(su[p]).tipo = Turno(p) =>
              /\ giu'[p] = Messo(giu, p, "server", <<v>>)[p]
              /\ v.tipo = Seguito(Head(su[p])) /\ v.tipo \in {"accesso", "righe"}
              /\ Turno(p)' = IF v.tipo = "accesso" /\ ~v.ok THEN "nulla" ELSE "scelta"
    BY <1>2, <1>4, <1>5, <2>1, <2>2
  <2>. QED BY <1>1, <1>3, <1>5, <2>2, <2>3, <2>4, SegreteriaLegge
<1>8. DOMAIN giu' = Conn
  BY <1>1 DEF Messo, Dialogo
<1>. QED BY <1>1, <1>6, <1>7, <1>8 DEF Dialogo

(* The choice of a student; the logout closes his connection.              *)
LEMMA DialogoScelta ==
  ASSUME IInv, Lettura, Dialogo, LeggiScelta, UNCHANGED varsS PROVE Dialogo'
<1>. PICK p : p = Cliente(i)
  OBVIOUS
<1>. DEFINE b == IF su[p] # <<>> THEN Head(su[p]).val ELSE behaviour
<1>1. /\ pcG = "scorri" /\ i <= dim /\ DaServire(i) /\ Pronto(p, "server")
      /\ su' = IF b = 2 THEN Messo(Tolto(su, p), Link, "client", <<Scelta(b)>>) ELSE Tolto(su, p)
      /\ UNCHANGED <<coda, dim, giu, guasti, pcS, mat, cod, reqS>>
      /\ \/ b = 1 /\ pcG' = "req" /\ UNCHANGED <<i, fdConn, client_sockets, chiuso>>
         \/ b = 2 /\ pcG' \in {"dati", "uscita"} /\ UNCHANGED <<i, fdConn, client_sockets, chiuso>>
         \/ /\ b = 3 /\ pcG' = "scorri"
            /\ fdConn' = [fdConn EXCEPT ![client_sockets[i].connfd] = Nessuno]
            /\ client_sockets' = [client_sockets EXCEPT ![i] = Sloggata(i)]
            /\ chiuso' = [chiuso EXCEPT ![p] = @ \cup {"server"}]
         \/ b \notin 1..3 /\ pcG' = "scorri" /\ UNCHANGED <<fdConn, client_sockets, chiuso>>
  BY DEF LeggiScelta, Dopo, varsS
<1>. HIDE DEF b
<1>2. /\ DOMAIN su = Conn /\ DOMAIN chiuso = Conn /\ pcS \in [Proc -> StatiS]
      /\ i \in Slot /\ client_sockets[i].connfd # -1
  BY <1>1, Costanti DEF Lettura, Flussi, IInv, Tipi, Slot, DaServire
<1>3. p \in Proc /\ p # Link /\ ~InCoda(p) /\ InTabella(p) /\ pcS[p] # "inizio"
  BY <1>1, <1>2, ClienteVivo, Costanti
<1>4. su'[p] = Tolto(su, p)[p] /\ \A q \in Proc \ {p} : su'[q] = su[q] /\ chiuso'[q] = chiuso[q]
  BY <1>1, <1>2, <1>3, Costanti DEF Tolto, Messo, Conn
<1>5. SegreteriaViva /\ pcG' # "finita" /\ (SegreteriaViva' <=> pcG' # "uscita")
  BY <1>1 DEF SegreteriaViva
<1>6. CASE pcG' = "uscita" \/ b # 3
  <2>1. chiuso' = chiuso /\ fdConn' = fdConn /\ client_sockets' = client_sockets
    BY <1>1, <1>6
  <2>2. pcG' # "uscita" => /\ \A q \in Proc \ {p} : Turno(q)' = Turno(q)
                           /\ Turno(p) = "scelta"
                           /\ Turno(p)' = CASE b = 1 -> "richiesta" [] b = 2 -> "dati" [] OTHER -> "scelta"
    <3>1. pcG' # "uscita" => pcG' \in Fermi \cup {"scorri"} /\ (pcG' \in Fermi => i' = i)
      BY <1>1 DEF Fermi
    <3>2. pcG' # "uscita" =>
             /\ \A q \in Proc \ {p} : Turno(q)' = Turno(q)
             /\ Turno(p) = "scelta" /\ Turno(p)' = IF pcG' = "scorri" THEN "scelta" ELSE Legge1[pcG']
      BY <1>1, <1>2, <2>1, <3>1, TurnoServito
    <3>. QED BY <1>1, <1>6, <3>2 DEF Legge1
  <2>3. ASSUME NEW q \in Proc \ {p} PROVE Colloquio(q)'
    BY <1>1, <1>4, <1>5, <2>1, <2>2, ColloquioFermo DEF Dialogo, SegreteriaViva
  <2>4. Colloquio(p)'
    <3>. DEFINE h == Head(su[p])
    <3>1. ASSUME SegreteriaViva', su[p] # <<>>, h.tipo = Turno(p) PROVE Turno(p)' = Seguito(h)
      <4>1. h.tipo = "scelta" /\ h.val = b
        BY <1>5, <2>2, <3>1 DEF b
      <4>2. b # 3
        BY <1>5, <1>6, <3>1
      <4>. QED BY <1>1, <1>5, <2>2, <3>1, <4>1, <4>2 DEF Seguito
    <3>2. SegreteriaViva' => Turno(p) \in TipiStudente /\ Turno(p)' # "credenziali"
      BY <1>1, <1>5, <2>2 DEF TipiStudente
    <3>. QED BY <1>1, <1>2, <1>3, <1>4, <1>5, <2>1, <3>1, <3>2, SegreteriaLegge
  <2>. QED BY <1>1, <2>3, <2>4 DEF Dialogo
<1>7. CASE pcG' # "uscita" /\ b = 3
  <2>1. /\ fdConn' = [fdConn EXCEPT ![client_sockets[i].connfd] = Nessuno]
        /\ client_sockets' = [client_sockets EXCEPT ![i] = Sloggata(i)]
        /\ chiuso'[p] = chiuso[p] \cup {"server"} /\ pcG' = "scorri"
    BY <1>1, <1>2, <1>3, <1>7 DEF Conn
  <2>2. ASSUME NEW q \in Proc \ {p} PROVE InTabella(q)' <=> InTabella(q)
    <3>1. client_sockets'[i].connfd = -1 /\ \A k \in Slot \ {i} : client_sockets'[k] = client_sockets[k]
      BY <1>2, <2>1 DEF Sloggata, IInv, Tipi
    <3>2. ASSUME NEW k \in Slot \ {i}, k <= dim, client_sockets[k].connfd # -1
          PROVE  Cliente(k)' = Cliente(k)
      <4>1. client_sockets[k].connfd # client_sockets[i].connfd /\ client_sockets[k].connfd \in Fd
        BY <1>1, <1>2, <3>2 DEF IInv, Tipi, Tabella
      <4>. QED BY <2>1, <3>1, <4>1 DEF Cliente, IInv, Tipi
    <3>3. Cliente(i) # q
      OBVIOUS
    <3>. QED BY <1>1, <3>1, <3>2, <3>3 DEF InTabella
  <2>3. ASSUME NEW q \in Proc \ {p} PROVE Turno(q)' = Turno(q)
    BY <1>1, <2>1, <2>2 DEF Turno, AllAccesso, InCoda, Fermi
  <2>4. ASSUME NEW q \in Proc \ {p} PROVE Colloquio(q)'
    BY <1>1, <1>4, <1>5, <2>3, ColloquioFermo DEF Dialogo, SegreteriaViva
  <2>5. pcS[p] \in {"uscita", "finito"}
    <3>1. Colloquio(p)
      BY <1>3 DEF Dialogo
    <3>2. CASE su[p] = <<>> \/ "server" \in chiuso[p]
      BY <1>1, <3>1, <3>2 DEF Pronto, Arrivo, Chiusa, Altro, Colloquio, Chiusura
    <3>3. CASE su[p] # <<>> /\ "server" \notin chiuso[p]
      <4>1. Accordo(p) /\ Catena(su[p], Turno(p))
        BY <1>3, <1>5, <3>1, <3>3 DEF Colloquio, InDialogo, Accordo
      <4>2. Turno(p) = "scelta"
        BY <1>1, <1>3 DEF Turno, AllAccesso, Fermi
      <4>3. Head(su[p]).tipo = "scelta" /\ Head(su[p]).val = 3
        BY <1>7, <3>1, <3>3, <4>1, <4>2, CatenaLetta DEF Colloquio, b
      <4>4. Seguito(Head(su[p])) = "fine"
        BY <4>3 DEF Seguito
      <4>5. Poi(su[p], Turno(p)) = "fine"
        BY <3>1, <3>3, <4>1, <4>4, CatenaLetta DEF Colloquio, Poi, TipiStudente
      <4>. QED BY <1>2, <1>3, <3>3, <4>1, <4>5
           DEF Accordo, DaServireAncora, Servito, Invia, Attese, Aspetta, StatiS
    <3>. QED BY <3>2, <3>3
  <2>6. Colloquio(p)'
    <3>1. Colloquio(p) /\ su'[p] = IF su[p] = <<>> THEN <<>> ELSE Tail(su[p])
      BY <1>2, <1>3, <1>4 DEF Dialogo, Tolto, Conn
    <3>2. Sequenza(su'[p])
      BY <3>1, Letta, VuotaSequenza DEF Colloquio
    <3>. QED BY <1>1, <1>5, <2>1, <2>5, <3>1, <3>2 DEF Colloquio, Chiusura, InDialogo, SegreteriaViva
  <2>. QED BY <1>1, <2>4, <2>6 DEF Dialogo
<1>. QED BY <1>6, <1>7

(* What the dialogue with one student leaves as it was for the others.     *)
LEMMA AltriFermi ==
  ASSUME IInv, Lettura, Dialogo, NEW p \in Proc, p = Cliente(i), pcG \in Fermi,
         pcG' \in Fermi \cup {"scorri", "uscita"}, pcG' \in Fermi => i' = i,
         UNCHANGED <<coda, fdConn, client_sockets, dim, chiuso>>, UNCHANGED varsS,
         guasti \subseteq guasti',
         \A q \in Proc \ {p} : su'[q] = su[q] /\ giu'[q] = giu[q]
  PROVE  /\ pcS[p] # "inizio" /\ SegreteriaViva /\ pcG' # "finita"
         /\ Turno(p) = Legge1[pcG]
         /\ SegreteriaViva' => Turno(p)' = IF pcG' = "scorri" THEN "scelta" ELSE Legge1[pcG']
         /\ \A q \in Proc \ {p} : Colloquio(q)'
<1>1. i \in Slot /\ i <= dim /\ client_sockets[i].connfd # -1
  BY Costanti DEF Lettura, ServitoVivo, IInv, Tipi, Slot
<1>2. pcS[p] # "inizio" /\ SegreteriaViva /\ pcG' # "finita" /\ (SegreteriaViva' <=> pcG' # "uscita")
  BY <1>1, ClienteVivo DEF Fermi, SegreteriaViva
<1>3. ASSUME pcG' # "uscita"
      PROVE  /\ \A q \in Proc \ {p} : Turno(q)' = Turno(q)
             /\ Turno(p)' = IF pcG' = "scorri" THEN "scelta" ELSE Legge1[pcG']
  BY <1>1, <1>3, TurnoServito
<1>4. Turno(p) = Legge1[pcG]
  BY <1>1, ClienteVivo DEF Turno, AllAccesso, Fermi
<1>5. ASSUME NEW q \in Proc \ {p} PROVE Colloquio(q)'
  BY <1>2, <1>3, ColloquioFermo DEF Dialogo, varsS, SegreteriaViva
<1>. QED BY <1>2, <1>3, <1>4, <1>5

(* A view: the request, then the name; then the rows, or nothing.          *)
LEMMA DialogoVista ==
  ASSUME IInv, Lettura, Dialogo, LeggiReq \/ LeggiNome, UNCHANGED varsS PROVE Dialogo'
<1>. PICK p : p = Cliente(i)
  OBVIOUS
<1>1. /\ pcG \in {"req", "nomeEsame"} /\ Pronto(p, "server") /\ su' = Tolto(su, p)
      /\ UNCHANGED <<coda, fdConn, client_sockets, dim, chiuso>>
  BY DEF LeggiReq, LeggiNome, varsGiro
<1>. DEFINE r == IF su[p] # <<>> THEN Head(su[p]).val ELSE req
<1>2. su[p] # <<>> => r = Head(su[p]).val
  OBVIOUS
<1>3. PICK righe :
        \/ /\ pcG = "nomeEsame" \/ r = 1
           /\ \/ /\ giu' = Messo(giu, p, "server", <<Righe(righe)>>)
                 /\ pcG' \in {"scorri", "uscita"} /\ guasti' = guasti
              \/ giu' = giu /\ pcG' = "scorri" /\ "query" \in guasti' /\ guasti \subseteq guasti'
        \/ pcG = "req" /\ r = 2 /\ pcG' = "nomeEsame" /\ UNCHANGED <<i, giu, guasti>>
        \/ pcG = "req" /\ r \notin 1..2 /\ pcG' = "scorri" /\ UNCHANGED <<giu, guasti>>
  <2>1. \A righe : RispondeRighe(p, righe) =>
           \/ /\ giu' = Messo(giu, InCorso, "server", <<Righe(righe)>>)
              /\ pcG' \in {"scorri", "uscita"} /\ guasti' = guasti
           \/ giu' = giu /\ pcG' = "scorri" /\ "query" \in guasti' /\ guasti \subseteq guasti'
    BY DEF RispondeRighe, Risponde, Dopo, Guasto, NessunGuasto
  <2>2. InCorso = p
    BY <1>1 DEF InCorso
  <2>3. CASE LeggiReq
    BY <2>1, <2>2, <2>3 DEF LeggiReq
  <2>4. CASE LeggiNome
    BY <2>1, <2>2, <2>4 DEF LeggiNome
  <2>. QED BY <2>3, <2>4
<1>. DEFINE v == Righe(righe)
<1>4. v.tipo = "righe"
  BY DEF Righe
<1>5. i \in Slot /\ i <= dim /\ client_sockets[i].connfd # -1 /\ p \in Proc /\ DOMAIN su = Conn
  BY <1>1, Costanti, ClienteVivo DEF Lettura, Flussi, ServitoVivo, IInv, Tipi, Slot, Fermi
<1>. HIDE DEF v, r
<1>6. /\ giu' = giu \/ giu' = Messo(giu, p, "server", <<v>>)
      /\ pcG \in Fermi /\ pcG' \in Fermi \cup {"scorri", "uscita"} /\ (pcG' \in Fermi => i' = i)
      /\ guasti \subseteq guasti'
  BY <1>1, <1>3 DEF Fermi, v
<1>7. \A q \in Proc \ {p} : su'[q] = su[q] /\ giu'[q] = giu[q]
  BY <1>1, <1>5, <1>6 DEF Tolto, Messo, Dialogo, Conn
<1>8. /\ pcS[p] # "inizio" /\ SegreteriaViva /\ pcG' # "finita"
      /\ Turno(p) = Legge1[pcG]
      /\ SegreteriaViva' => Turno(p)' = IF pcG' = "scorri" THEN "scelta" ELSE Legge1[pcG']
      /\ \A q \in Proc \ {p} : Colloquio(q)'
  BY <1>1, <1>5, <1>6, <1>7, AltriFermi
<1>9. Colloquio(p)'
  <2>. DEFINE h == Head(su[p])
  <2>1. SegreteriaViva' => Turno(p) \in TipiStudente /\ Turno(p)' # "credenziali"
    BY <1>1, <1>3, <1>8 DEF Legge1, SegreteriaViva, TipiStudente
  <2>2. ASSUME SegreteriaViva', su[p] # <<>>, h.tipo = Turno(p)
        PROVE  \/ giu'[p] = giu[p] /\ Turno(p)' = Seguito(h)
               \/ /\ giu'[p] = Messo(giu, p, "server", <<v>>)[p]
                  /\ v.tipo = Seguito(h) /\ v.tipo \in {"accesso", "righe"}
                  /\ Turno(p)' = IF v.tipo = "accesso" /\ ~v.ok THEN "nulla" ELSE "scelta"
               \/ /\ giu'[p] = giu[p] /\ Turno(p)' = "scelta" /\ Seguito(h) = "righe"
                  /\ \/ h.tipo = "richiesta" /\ h.val \notin 1..2
                     \/ "query" \in guasti'
    <3>1. h.tipo = IF pcG = "req" THEN "richiesta" ELSE "nome"
      BY <1>1, <1>8, <2>2 DEF Legge1
    <3>2. pcG = "req" => h.val = r
      BY <1>2, <2>2
    <3>3. Seguito(h) = IF pcG = "req" /\ r = 2 THEN "nome" ELSE "righe"
      BY <1>1, <3>1, <3>2 DEF Seguito
    <3>4. Turno(p)' = IF pcG' = "nomeEsame" THEN "nome" ELSE "scelta"
      BY <1>3, <1>8, <2>2 DEF Legge1, SegreteriaViva
    <3>5. CASE pcG = "req" /\ r = 2
      BY <1>3, <3>3, <3>4, <3>5
    <3>6. CASE ~(pcG = "req" /\ r = 2)
      BY <1>1, <1>3, <1>4, <2>2, <3>1, <3>2, <3>3, <3>4, <3>6 DEF v, SegreteriaViva
    <3>. QED BY <3>5, <3>6
  <2>. QED BY <1>1, <1>5, <1>6, <1>8, <2>1, <2>2, SegreteriaLegge DEF varsS
<1>10. DOMAIN giu' = Conn
  BY <1>6 DEF Messo, Dialogo
<1>. QED BY <1>8, <1>9, <1>10 DEF Dialogo, varsS

(* A booking: code and matricola, then the outcome.                        *)
LEMMA DialogoDati ==
  ASSUME IInv, Lettura, Dialogo, LeggiDati, UNCHANGED varsS PROVE Dialogo'
<1>. PICK p : p = Cliente(i)
  OBVIOUS
<1>1. /\ pcG = "dati" /\ Pronto(p, "server") /\ \E d : su' = Messo(Tolto(su, p), Link, "client", <<d>>)
      /\ UNCHANGED <<i, coda, fdConn, client_sockets, dim, chiuso, giu, guasti>>
      /\ pcG' \in {"esito", "uscita"}
  BY DEF LeggiDati, varsGiro, Dopo
<1>2. i \in Slot /\ i <= dim /\ client_sockets[i].connfd # -1 /\ p \in Proc /\ DOMAIN su = Conn
  BY <1>1, Costanti, ClienteVivo DEF Lettura, Flussi, ServitoVivo, IInv, Tipi, Slot, Fermi
<1>3. su'[p] = Tolto(su, p)[p] /\ \A q \in Proc \ {p} : su'[q] = su[q] /\ giu'[q] = giu[q]
  BY <1>1, <1>2, Costanti DEF Tolto, Messo, Conn
<1>4. pcG \in Fermi /\ pcG' \in Fermi \cup {"scorri", "uscita"} /\ guasti \subseteq guasti'
  BY <1>1 DEF Fermi
<1>5. /\ pcS[p] # "inizio" /\ SegreteriaViva /\ pcG' # "finita" /\ Turno(p) = "dati"
      /\ SegreteriaViva' => Turno(p)' = "esito"
      /\ \A q \in Proc \ {p} : Colloquio(q)'
  BY <1>1, <1>2, <1>3, <1>4, AltriFermi DEF Legge1, SegreteriaViva
<1>6. Colloquio(p)'
  <2>1. Head(su[p]).tipo = "dati" => Seguito(Head(su[p])) = "esito"
    BY DEF Seguito
  <2>2. "dati" \in TipiStudente
    BY DEF TipiStudente
  <2>. QED BY <1>1, <1>2, <1>3, <1>5, <2>1, <2>2, SegreteriaLegge DEF varsS
<1>. QED BY <1>1, <1>5, <1>6 DEF Dialogo, varsS

LEMMA DialogoEsito ==
  ASSUME IInv, Lettura, Linea, Dialogo, InoltraEsito, UNCHANGED varsS,
         giu[Link] # <<>> => Head(giu[Link]).tipo = "esito"
  PROVE  Dialogo'
<1>. PICK p : p = Cliente(i)
  OBVIOUS
<1>. DEFINE x == IF giu[Link] # <<>> THEN Head(giu[Link]) ELSE Esito("vuoto", seg_mat, seg_cod)
<1>1. /\ pcG = "esito" /\ \E k \in Presi(giu, Link) : giu' = Messo(Senza(giu, Link, k), p, "server", <<x>>)
      /\ UNCHANGED <<su, coda, fdConn, client_sockets, dim, chiuso, guasti>>
      /\ pcG' \in {"scorri", "uscita"}
  BY DEF InoltraEsito, Inoltrato, varsGiro, Dopo
<1>2. x.tipo = "esito"
  BY DEF Esito
<1>. HIDE DEF x
<1>3. i \in Slot /\ i <= dim /\ client_sockets[i].connfd # -1 /\ p \in Proc
  BY <1>1, Costanti, ClienteVivo DEF Lettura, ServitoVivo, IInv, Tipi, Slot, Fermi
<1>4. /\ giu'[p] = Messo(giu, p, "server", <<x>>)[p] /\ DOMAIN giu' = Conn
      /\ \A q \in Proc \ {p} : giu'[q] = giu[q]
  BY <1>1, <1>3, Costanti DEF Senza, Messo, Dialogo, Conn
<1>5. pcG \in Fermi /\ pcG' \in Fermi \cup {"scorri", "uscita"} /\ (pcG' \in Fermi => i' = i)
  BY <1>1 DEF Fermi
<1>6. /\ pcS[p] # "inizio" /\ SegreteriaViva /\ pcG' # "finita" /\ Turno(p) = "esito"
      /\ SegreteriaViva' => Turno(p)' = "scelta"
      /\ \A q \in Proc \ {p} : Colloquio(q)'
  BY <1>1, <1>3, <1>4, <1>5, AltriFermi DEF Legge1, SegreteriaViva
<1>7. Colloquio(p)'
  BY <1>1, <1>2, <1>3, <1>4, <1>6, SegreteriaInoltra DEF varsS
<1>. QED BY <1>4, <1>6, <1>7 DEF Dialogo, varsS

(* The end of the process closes every connection.                         *)
LEMMA DialogoTermina ==
  ASSUME IInv, Linea, Posto, Dialogo, Termina, UNCHANGED varsS PROVE Dialogo'
<1>1. /\ pcG = "uscita" /\ pcG' = "finita" /\ UNCHANGED <<su, giu>> /\ "client" \notin chiuso[Link]
      /\ \A p \in Proc : chiuso'[p] = IF InCoda(p) \/ InFd(p) THEN chiuso[p] \cup {"server"} ELSE chiuso[p]
  BY Costanti DEF Termina, Linea, Collegati, Conn, Nessuno, InCoda, InFd
<1>2. ASSUME NEW p \in Proc PROVE Colloquio(p)'
  <2>1. Colloquio(p) /\ (InCoda(p) \/ InFd(p) <=> pcS[p] # "inizio" /\ "server" \notin chiuso[p])
    BY <1>1 DEF Dialogo, Posto, Aperta, SegreteriaInAscolto
  <2>2. chiuso'[p] = IF pcS[p] = "inizio" THEN chiuso[p] ELSE chiuso[p] \cup {"server"}
    BY <1>1, <2>1
  <2>3. Chiusura(p)'
    BY <1>1, <2>1, <2>2 DEF Colloquio, Chiusura, varsS
  <2>. QED BY <1>1, <2>1, <2>3 DEF Colloquio, InDialogo, SegreteriaViva
<1>. QED BY <1>1, <1>2 DEF Dialogo, varsS

(* The steps that concern no student who has one of his items read.        *)
LEMMA DialogoFuori ==
  ASSUME Dialogo, UNCHANGED varsS, DOMAIN giu' = Conn, pcG # "finita", pcG' # "finita",
         \A q \in Proc : su'[q] = su[q] /\ giu'[q] = giu[q],
         chiuso' = chiuso, guasti \subseteq guasti',
         SegreteriaViva' => SegreteriaViva /\ \A q \in Proc : Turno(q)' = Turno(q)
  PROVE  Dialogo'
<1>1. ASSUME NEW q \in Proc PROVE Colloquio(q)'
  BY ColloquioFermo DEF Dialogo, varsS
<1>. QED BY <1>1 DEF Dialogo, varsS

LEMMA DialogoGiro ==
  ASSUME IInv, Dialogo, UNCHANGED varsS,
         \/ Accetta \/ AccettaFallita \/ Sfora \/ NessunaAttesa \/ Salta \/ FineScorri
         \/ Continua \/ UccidiSegreteria
  PROVE  Dialogo'
<1>1. /\ UNCHANGED <<su, giu, chiuso>> /\ guasti \subseteq guasti' /\ SegreteriaViva
      /\ pcG' # "finita"
  BY DEF Accetta, AccettaFallita, Sfora, NessunaAttesa, Salta, FineScorri, Continua,
         UccidiSegreteria, varsRete, Guasto, SegreteriaViva
<1>2. ASSUME SegreteriaViva' PROVE \A q \in Proc : Turno(q)' = Turno(q)
  <2>1. CASE AccettaFallita
    <3>1. \A k \in Slot : k <= dim => client_sockets'[k] = client_sockets[k]
      BY <2>1 DEF AccettaFallita, IInv, Tipi, Slot
    <3>. QED BY <2>1, <3>1, TurnoFuori DEF AccettaFallita, CodaDopoErrore, Fermi
  <2>2. CASE NessunaAttesa \/ Salta \/ FineScorri \/ Continua
    <3>1. /\ pcG \notin Fermi \cup {"credenziali"} /\ pcG' \notin Fermi \cup {"credenziali"}
          /\ UNCHANGED <<coda, fdConn, dim, client_sockets>>
      BY <2>2 DEF NessunaAttesa, Salta, FineScorri, Continua, varsGiro, varsRete, Fermi
    <3>. QED BY <3>1, TurnoFuori
  <2>. QED BY <1>2, <2>1, <2>2, TurnoAccetta DEF Sfora, UccidiSegreteria, SegreteriaViva
<1>. QED BY <1>1, <1>2, DialogoFuori DEF Dialogo, SegreteriaViva

LEMMA DialogoConsole ==
  ASSUME IInv, Linea, Dialogo, UNCHANGED varsS, Operatore \/ NuovoAppello \/ EsitoInserimento
  PROVE  Dialogo'
<1>1. /\ UNCHANGED <<coda, fdConn, dim, client_sockets, chiuso, guasti>>
      /\ SegreteriaViva /\ pcG' # "finita"
      /\ pcG \notin Fermi \cup {"credenziali"} /\ pcG' \notin Fermi \cup {"credenziali"}
      /\ \/ su' = su /\ \E k \in Presi(giu, Link) : giu' = Senza(giu, Link, k)
         \/ giu' = giu /\ \E voci : su' = Messo(su, Link, "client", voci)
  BY DEF Operatore, DigitaNomeAppello, DigitaData, NuovoAppello, Digita, EsitoInserimento, Dopo,
         varsGiro, SegreteriaViva, Fermi
<1>2. DOMAIN giu' = Conn /\ \A q \in Proc : su'[q] = su[q] /\ giu'[q] = giu[q]
  BY <1>1, Costanti DEF Messo, Senza, Linea, Collegati, Conn
<1>3. \A q \in Proc : Turno(q)' = Turno(q)
  BY <1>1, TurnoFuori
<1>. QED BY <1>1, <1>2, <1>3, DialogoFuori DEF SegreteriaViva

LEMMA DialogoSegreteria ==
  ASSUME IInv, Lettura, Linea, Posto, Risposte, Dialogo, PassoSegreteria(NextG) PROVE Dialogo'
<1>1. NextG /\ UNCHANGED varsS /\ DOMAIN su = Conn
  BY DEF PassoSegreteria, Linea, Collegati
<1>2. CASE InoltraEsito
  <2>1. giu[Link] # <<>> => Head(giu[Link]).tipo = "esito"
    <3>. SUFFICES ASSUME giu[Link] # <<>> PROVE Head(giu[Link]).tipo = "esito"
      OBVIOUS
    <3>1. Len(giu[Link]) \in Nat \ {0} /\ Head(giu[Link]) = giu[Link][1]
      BY Resto DEF Linea, Collegati
    <3>. QED BY <1>2, <3>1 DEF Risposte, InoltraEsito, SegreteriaViva
  <2>. QED BY <1>1, <1>2, <2>1, DialogoEsito
<1>. QED BY <1>1, <1>2, DialogoGiro, DialogoConsole, DialogoLogin, DialogoScelta, DialogoVista,
            DialogoDati, DialogoTermina DEF NextG, ProgrammaG

LEMMA InizioDialogo == ASSUME Init PROVE Dialogo
<1>. USE DEF Init, InitR, InitS, InitG
<1>1. DOMAIN giu = Conn /\ DOMAIN mat = Proc /\ DOMAIN cod = Proc /\ DOMAIN reqS = Proc
  OBVIOUS
<1>2. ASSUME NEW p \in Proc PROVE Colloquio(p)
  <2>1. su[p] = <<>> /\ giu[p] = <<>> /\ chiuso[p] = {} /\ mat[p] = Residuo /\ pcS[p] = "inizio"
    BY DEF Conn
  <2>2. Chiusura(p) /\ ~InDialogo(p)
    BY <2>1 DEF Chiusura, InDialogo
  <2>. QED BY <2>1, <2>2, VuotaSequenza DEF Colloquio
<1>. QED BY <1>1, <1>2 DEF Dialogo

Intesa == IInv /\ Lettura /\ Linea /\ Posto /\ Voci /\ Risposte /\ Dialogo

(* The invariant the argument rests on, for every value of the constants.  *)
THEOREM InvarianteDialogo == SpecBase => []Intesa
<1>1. Init => Dialogo
  BY InizioDialogo
<1>2. IInv /\ Lettura /\ Linea /\ Posto /\ Risposte /\ Dialogo /\ [Next]_vars => Dialogo'
  <2>1. ASSUME IInv, Dialogo, UNCHANGED vars PROVE Dialogo'
    <3>1. \A q \in Proc : Turno(q)' = Turno(q)
      BY <2>1, TurnoFermo DEF vars, varsRete, varsG
    <3>2. ASSUME NEW q \in Proc PROVE Colloquio(q)'
      BY <2>1, <3>1, ColloquioFermo DEF Dialogo, vars, varsRete, varsS, varsG, SegreteriaViva
    <3>. QED BY <2>1, <3>2 DEF Dialogo, vars, varsRete, varsS
  <2>. QED BY <2>1, DialogoStudente, DialogoServer, DialogoSegreteria DEF Next
<1>. QED BY <1>1, <1>2, InvarianteRisposte, InvariantePosto, PTL DEF SpecBase, Intesa

-----------------------------------------------------------------------------
(* What the dialogue says of who waits.                                    *)

(* The student the segreteria is blocked on is the one it is expecting     *)
(* something of.                                                           *)
LEMMA TurnoInCorso ==
  ASSUME IInv, Lettura, NEW p \in Proc, InCorso = p
  PROVE  /\ pcG = "credenziali" => Turno(p) = "credenziali"
         /\ pcG \in Fermi => Turno(p) = Legge1[pcG]
<1>1. ASSUME pcG = "credenziali" PROVE Turno(p) = "credenziali"
  BY <1>1 DEF InCorso, Turno, AllAccesso
<1>2. ASSUME pcG \in Fermi PROVE Turno(p) = Legge1[pcG]
  <2>1. i \in Slot /\ i <= dim /\ client_sockets[i].connfd # -1
    BY <1>2, Costanti DEF Lettura, ServitoVivo, IInv, Tipi, Slot
  <2>2. p = Cliente(i) /\ pcG # "credenziali" /\ pcG # "finita"
    BY <1>2 DEF InCorso, Fermi
  <2>3. ~InCoda(p)
    BY <2>1, <2>2, ClienteVivo
  <2>. QED BY <1>2, <2>2, <2>3 DEF Turno, AllAccesso
<1>. QED BY <1>1, <1>2

(* Whoever has his turn is somewhere, and the segreteria gets to him.      *)
LEMMA TurnoDove ==
  ASSUME IInv, Lettura, SegreteriaViva, NEW p \in Proc
  PROVE  /\ Turno(p) = "credenziali" => InCoda(p) \/ InServizio(p)
         /\ Turno(p) \in {"richiesta", "nome", "dati", "esito"} => InServizio(p)
         /\ Turno(p) \in {"richiesta", "nome", "dati", "esito", "scelta"} =>
              \E k \in Slot : Vivo(k) /\ Cliente(k) = p
         /\ Turno(p) \in {"credenziali", "richiesta", "nome", "dati", "esito", "scelta", "nulla"}
<1>1. InTabella(p) => \E k \in Slot : Vivo(k) /\ Cliente(k) = p
  BY DEF InTabella, Vivo, SegreteriaViva, Slot
<1>2. pcG \in Fermi => i \in Slot /\ Vivo(i)
  BY Costanti DEF Lettura, ServitoVivo, IInv, Tipi, Slot, Vivo, SegreteriaViva
<1>3. AllAccesso(p) => InCoda(p) \/ InServizio(p)
  BY DEF AllAccesso, InServizio, InCorso
<1>4. pcG \in Fermi /\ Cliente(i) = p =>
        InServizio(p) /\ Legge1[pcG] \in {"richiesta", "nome", "dati", "esito"}
  BY DEF InServizio, InCorso, Fermi, Legge1
<1>. QED BY <1>1, <1>2, <1>3, <1>4 DEF Turno

(* What the reader who expects nothing, or the credentials, comes to.      *)
LEMMA PoiInizio ==
  ASSUME NEW s, Sequenza(s), NEW t, Catena(s, t)
  PROVE  /\ t \notin TipiStudente => s = <<>> /\ Poi(s, t) = t
         /\ t = "credenziali" => Poi(s, t) \in {"credenziali", "accesso"}
<1>1. CASE s = <<>>
  BY <1>1 DEF Poi
<1>2. CASE s # <<>>
  <2>1. Head(s).tipo = t /\ t \in TipiStudente
    BY <1>2, CatenaLetta
  <2>2. t = "credenziali" => Seguito(Head(s)) = "accesso"
    BY <2>1 DEF Seguito
  <2>3. t = "credenziali" => Tail(s) = <<>> /\ Head(s) = s[Len(s)]
    BY <1>2, <2>2, CatenaLetta DEF TipiStudente
  <2>. QED BY <1>2, <2>1, <2>2, <2>3 DEF Poi
<1>. QED BY <1>1, <1>2

(* Nobody who waits for an answer is forgotten, whoever else connects, is  *)
(* refused, leaves or dies.                                                *)
THEOREM MaiDimenticato == SpecBase => []NessunoDimenticato
<1>1. Intesa => NessunoDimenticato
  <2>. SUFFICES ASSUME Intesa, NEW p \in Proc, pcS[p] \in Attese, ~Pronto(p, "client"),
                       pcG \notin {"uscita", "sforata"},
                       ~(pcS[p] = "attendeRighe" /\ (reqS[p] \notin 1..2 \/ "query" \in guasti))
                PROVE  InServizio(p) \/ InFila(p)
    BY DEF NessunoDimenticato
  <2>1. giu[p] = <<>> /\ "server" \notin chiuso[p] /\ Colloquio(p)
    BY DEF Pronto, Arrivo, Chiusa, Altro, Intesa, Dialogo
  <2>2. InDialogo(p)
    BY <2>1 DEF InDialogo, SegreteriaViva, Colloquio, Chiusura, Attese
  <2>3. Catena(su[p], Turno(p)) /\ DaServireAncora(p)
    BY <2>1, <2>2, VuotaSequenza DEF Colloquio, Accordo, Servito
  <2>4. CASE su[p] = <<>>
    <3>1. Turno(p) \in {"accesso", "righe", "esito", "nome"}
      BY <2>3, <2>4 DEF DaServireAncora, Poi, Aspetta, Attese
    <3>. QED BY <2>2, <3>1, TurnoDove DEF Intesa, InDialogo
  <2>5. CASE su[p] # <<>>
    <3>1. Turno(p) \in TipiStudente
      BY <2>1, <2>3, <2>5, CatenaLetta DEF Colloquio
    <3>. QED BY <2>2, <2>5, <3>1, TurnoDove DEF Intesa, InDialogo, TipiStudente, InFila, InCoda
  <2>. QED BY <2>4, <2>5
<1>. QED BY <1>1, InvarianteDialogo, PTL

(* The two ways to wait for each other, and what was typed before.         *)
LEMMA AttesaConServer == ASSUME Intesa, AttesaServer PROVE TestoMancante /\ ~Puntuale
<1>1. su[Link] = <<>> /\ giu[Link] = <<>>
  BY DEF AttesaServer, Pronto, Arrivo
<1>2. ~Risposto /\ Len(su[Link]) = 0
  BY <1>1, VuotaSequenza DEF Risposto
<1>3. Fase /\ pcG \in {"esito", "esitoAppello"}
  BY DEF Intesa, Linea, Scambio, AttesaServer, SegreteriaViva, ServerVivo
<1>4. pcG = "esitoAppello" /\ ~Puntuale /\ (Letto("nome", 0) \/ Letto("data", 0))
  BY <1>2, <1>3 DEF Fase, Aperto1, Letto
<1>. QED BY <1>4 DEF TestoMancante, Letto

LEMMA AttesaConStudente ==
  ASSUME Intesa, NEW p \in Proc, AttesaStudente(p)
  PROVE  NomeMancante(p) /\ Vuoto \in Nomi
<1>. USE DEF AttesaStudente
<1>1. su[p] = <<>> /\ giu[p] = <<>> /\ "server" \notin chiuso[p] /\ Colloquio(p)
  BY DEF Pronto, Arrivo, Chiusa, Altro, Intesa, Dialogo
<1>2. /\ pcG = "credenziali" => Turno(p) = "credenziali"
      /\ pcG \in Fermi => Turno(p) = Legge1[pcG]
  BY TurnoInCorso DEF Intesa
<1>3. /\ Turno(p) \in {"credenziali", "richiesta", "nome", "dati"}
      /\ Turno(p) = "nome" => pcG = "nomeEsame"
  BY <1>2 DEF Fermi, Legge1
<1>4. InDialogo(p)
  BY <1>1 DEF InDialogo, SegreteriaViva, Attese
<1>5. DaServireAncora(p)
  BY <1>1, <1>3, <1>4, VuotaSequenza DEF Colloquio, Accordo, Servito
<1>6. pcS[p] = "attendeRighe" /\ Turno(p) = "nome" /\ Vuoto \in Nomi
  BY <1>1, <1>3, <1>5 DEF DaServireAncora, Poi, Aspetta, Attese
<1>. QED BY <1>3, <1>6 DEF NomeMancante

(* The segreteria and the server never wait for each other, and neither do *)
(* the segreteria and a student, when the operator waits for the server    *)
(* before the date and nobody types an empty line, name or date.           *)
THEOREM MaiAttesaReciproca == ASSUME Puntuale PROVE SpecBase => []NessunaAttesaReciproca
<1>1. ASSUME Intesa PROVE NessunaAttesaReciproca
  BY <1>1, Puntuale, AttesaConServer, AttesaConStudente DEF NessunaAttesaReciproca, Puntuale
<1>. QED BY <1>1, InvarianteDialogo, PTL

(* Whatever is typed, empty lines and dates too soon included, and         *)
(* whatever fails, two programs wait for each other only over the name or  *)
(* the date of an appello or the name of a view.                           *)
THEOREM AttesaSempreDiTesti == SpecBase => []AttesaSoloDiTesti
<1>1. ASSUME Intesa PROVE AttesaSoloDiTesti
  BY <1>1, AttesaConServer, AttesaConStudente DEF AttesaSoloDiTesti
<1>. QED BY <1>1, InvarianteDialogo, PTL

-----------------------------------------------------------------------------
(* A student who was accepted, also when he has not read it yet.           *)
Accolto(p) ==
  \/ pcS[p] \in InSessione
  \/ /\ pcS[p] \in {"inizio", "login", "attendeLogin"}
     /\ giu[p] # <<>> /\ Head(giu[p]).ok
HaVoce(p) == \E k \in Slot : Vivo(k) /\ Cliente(k) = p
Aperte == \A p \in Proc : Accolto(p) /\ "server" \notin chiuso[p] => HaVoce(p)

(* As long as the segreteria lives this follows from the dialogue.         *)
LEMMA ApertoVivo ==
  ASSUME Intesa, SegreteriaViva, NEW p \in Proc, Accolto(p), "server" \notin chiuso[p]
  PROVE  HaVoce(p)
<1>1. Colloquio(p)
  BY DEF Intesa, Dialogo
<1>2. pcS[p] # "inizio"
  BY <1>1 DEF Accolto, InSessione, Colloquio, Chiusura
<1>3. Accordo(p) /\ Catena(su[p], Turno(p)) /\ Sequenza(su[p])
  BY <1>1, <1>2 DEF Colloquio, InDialogo, Accordo
<1>4. Turno(p) \notin {"credenziali", "nulla"}
  <2>1. CASE pcS[p] \in DOMAIN Invia
    <3>1. giu[p] = <<>> /\ Poi(su[p], Turno(p)) = Invia[pcS[p]] /\ pcS[p] # "login"
      BY <1>3, <2>1 DEF Accordo, Accolto, InSessione
    <3>2. Poi(su[p], Turno(p)) \in {"scelta", "richiesta", "nome", "dati"}
      BY <2>1, <3>1 DEF Invia
    <3>. QED BY <1>3, <3>2, PoiInizio DEF TipiStudente
  <2>2. CASE pcS[p] \in Attese /\ DaServireAncora(p)
    <3>1. pcS[p] # "attendeLogin"
      BY <2>2 DEF DaServireAncora, Accolto, InSessione
    <3>2. Poi(su[p], Turno(p)) \in {"righe", "esito", "nome"}
      BY <2>2, <3>1 DEF DaServireAncora, Attese, Aspetta
    <3>. QED BY <1>3, <3>2, PoiInizio DEF TipiStudente
  <2>3. CASE pcS[p] \in Attese /\ Servito(p)
    <3>1. giu[p] # <<>> => Head(giu[p]) = giu[p][1]
      BY <1>1, Letta DEF Colloquio
    <3>2. pcS[p] = "attendeLogin" => giu[p] # <<>> /\ giu[p][1].ok
      BY <3>1 DEF Accolto, InSessione
    <3>. QED BY <2>3, <3>2 DEF Servito
  <2>. QED BY <1>2, <1>3, <2>1, <2>2, <2>3 DEF Accordo, Accolto, InSessione, Invia, Attese
<1>. QED BY <1>4, TurnoDove DEF Intesa, HaVoce

(* Entries stay when the segreteria dies, and nobody is accepted then.     *)
LEMMA ApertoResta ==
  ASSUME IInv, Aperte, NEW p \in Proc, Accolto(p)', "server" \notin chiuso'[p],
         Accolto(p)' => Accolto(p), "server" \in chiuso[p] => "server" \in chiuso'[p],
         pcG' # "finita", UNCHANGED fdConn, dim' \in {dim, dim + 1},
         \A k \in Slot : client_sockets'[k].connfd = client_sockets[k].connfd
  PROVE  HaVoce(p)'
<1>1. PICK k \in Slot : Vivo(k) /\ Cliente(k) = p
  BY DEF Aperte, HaVoce
<1>2. Vivo(k)' /\ Cliente(k)' = p
  BY <1>1 DEF Vivo, Cliente, IInv, Tipi
<1>. QED BY <1>2 DEF HaVoce

LEMMA AperteStudente ==
  ASSUME Intesa, Aperte, PassoStudente(NextS), pcG # "finita"
  PROVE  \A p \in Proc : Accolto(p)' /\ "server" \notin chiuso'[p] => HaVoce(p)'
<1>1. PICK p \in Proc :
        \/ Utente(p) \/ Programma(p)
        \/ \E k \in Scelte : Scegli(p, k)
        \/ UccidiStudente(p)
  BY DEF PassoStudente, NextS
<1>2. /\ pcS \in [Proc -> StatiS] /\ DOMAIN giu = Conn /\ DOMAIN chiuso = Conn /\ UNCHANGED varsG
      /\ "client" \notin chiuso[Link]
  BY DEF Intesa, IInv, Tipi, Dialogo, Linea, Collegati, PassoStudente
<1>3. /\ \E stato : pcS' = [pcS EXCEPT ![p] = stato]
      /\ giu' = giu \/ giu' = Tolto(giu, p)
      /\ chiuso' = chiuso \/ Chiudi({p}, "client")
  BY <1>1 DEF Utente, InviaCredenziali, ScegliReq, DigitaNome, DigitaCod, Scegli, Scrive, Vai,
              Programma, Connetti, EsitoLogin, RiceviRighe, RiceviEsito, Esci, Legge, UccidiStudente
<1>4. \A q \in Proc : "server" \in chiuso[q] <=> "server" \in chiuso'[q]
  BY <1>2, <1>3 DEF Chiudi, Conn
<1>5. \A q \in Proc \ {p} : pcS'[q] = pcS[q] /\ giu'[q] = giu[q]
  BY <1>2, <1>3 DEF Tolto, Conn
<1>6. ASSUME Accolto(p)', "server" \notin chiuso[p] PROVE Accolto(p)
  <2>1. CASE Connetti(p) \/ \E n \in Numeri, w \in Password : InviaCredenziali(p, n, w)
    BY <1>2, <1>6, <2>1 DEF Connetti, InviaCredenziali, Scrive, Vai, Accolto, InSessione
  <2>2. CASE EsitoLogin(p)
    BY <1>2, <1>6, <2>2 DEF EsitoLogin, Legge, Vai, Pronto, Arrivo, Chiusa, Altro, Accolto, InSessione
  <2>3. CASE UccidiStudente(p) \/ Esci(p)
    BY <1>2, <1>6, <2>3 DEF UccidiStudente, Esci, Vai, Accolto, InSessione
  <2>4. CASE \/ RiceviRighe(p) \/ RiceviEsito(p)
             \/ \E k \in Scelte : Scegli(p, k)
             \/ \E r \in Richieste : ScegliReq(p, r)
             \/ \E x \in Nomi : DigitaNome(p, x)
             \/ \E e \in Codici : DigitaCod(p, e)
    BY <2>4 DEF RiceviRighe, RiceviEsito, Scegli, ScegliReq, DigitaNome, DigitaCod, Accolto, InSessione
  <2>. QED BY <1>1, <2>1, <2>2, <2>3, <2>4 DEF Utente, Programma
<1>7. ASSUME NEW q \in Proc, Accolto(q)', "server" \notin chiuso'[q] PROVE HaVoce(q)'
  <2>1. Accolto(q)
    BY <1>4, <1>5, <1>6, <1>7 DEF Accolto
  <2>2. pcG' # "finita" /\ UNCHANGED <<fdConn, dim, client_sockets>>
    BY <1>2 DEF varsG
  <2>. QED BY <1>4, <1>7, <2>1, <2>2, ApertoResta DEF Intesa
<1>. QED BY <1>7

(* A segreteria that dies has just answered nobody who is there.           *)
LEMMA AperteSegreteria ==
  ASSUME Intesa, Aperte, PassoSegreteria(NextG), ~SegreteriaViva', pcG' # "finita"
  PROVE  \A p \in Proc : Accolto(p)' /\ "server" \notin chiuso'[p] => HaVoce(p)'
<1>1. /\ NextG /\ UNCHANGED varsS /\ DOMAIN giu = Conn /\ DOMAIN su = Conn /\ DOMAIN chiuso = Conn
      /\ Lettura /\ IInv /\ Linea
  BY DEF PassoSegreteria, Intesa, Dialogo, Linea, Collegati
<1>2. /\ UNCHANGED <<fdConn, chiuso>> /\ dim' \in {dim, dim + 1}
      /\ \A k \in Slot : client_sockets'[k].connfd = client_sockets[k].connfd
  <2>1. CASE Login
    BY <1>1, <2>1 DEF Login, DopoAccesso, IInv, Tipi
  <2>2. CASE LeggiScelta
    BY <1>1, <2>2 DEF LeggiScelta, SegreteriaViva
  <2>3. CASE Operatore \/ NuovoAppello \/ LeggiReq \/ LeggiNome \/ LeggiDati \/ InoltraEsito
    BY <2>3 DEF Operatore, DigitaNomeAppello, DigitaData, Digita, NuovoAppello, LeggiReq, LeggiNome,
                LeggiDati, InoltraEsito, varsGiro
  <2>4. CASE Sfora \/ UccidiSegreteria
    BY <2>4 DEF Sfora, UccidiSegreteria, varsGiro, varsRete
  <2>5. CASE \/ Accetta \/ AccettaFallita \/ NessunaAttesa \/ Salta \/ FineScorri \/ Continua
             \/ EsitoInserimento \/ Termina
    BY <2>5 DEF Accetta, AccettaFallita, NessunaAttesa, Salta, FineScorri, Continua, EsitoInserimento,
                Termina, SegreteriaViva
  <2>. QED BY <1>1, <2>1, <2>2, <2>3, <2>4, <2>5 DEF NextG, ProgrammaG
<1>3. \A p \in Proc : giu'[p] = giu[p]
  <2>1. CASE Login \/ LeggiReq \/ LeggiNome
    <3>1. \/ giu' = giu
          \/ /\ \E voci : giu' = Messo(giu, InCorso, "server", voci)
             /\ \E k \in Nat : Sigpipe(InCorso, "server", k)
      BY <2>1 DEF Login, LeggiReq, LeggiNome, RispondeRighe, Risponde, Dopo, InCorso, SegreteriaViva
    <3>. QED BY <1>1, <3>1 DEF Messo, Sigpipe, Conn
  <2>2. CASE InoltraEsito
    <3>1. /\ \E k \in Presi(giu, Link) : \E voci :
               giu' = Messo(Senza(giu, Link, k), Cliente(i), "server", voci)
          /\ Sigpipe(Cliente(i), "server", 1)
      BY <2>2 DEF InoltraEsito, Dopo, SegreteriaViva
    <3>. QED BY <1>1, <3>1, Costanti DEF Messo, Senza, Sigpipe, Conn
  <2>3. CASE Operatore \/ NuovoAppello \/ LeggiScelta \/ LeggiDati \/ Sfora \/ UccidiSegreteria
    BY <2>3 DEF Operatore, DigitaNomeAppello, DigitaData, Digita, NuovoAppello, LeggiScelta, LeggiDati,
                Sfora, UccidiSegreteria, varsRete
  <2>4. CASE \/ Accetta \/ AccettaFallita \/ NessunaAttesa \/ Salta \/ FineScorri \/ Continua
             \/ EsitoInserimento \/ Termina
    BY <2>4 DEF Accetta, AccettaFallita, NessunaAttesa, Salta, FineScorri, Continua, EsitoInserimento,
                Termina, SegreteriaViva
  <2>. QED BY <1>1, <2>1, <2>2, <2>3, <2>4 DEF NextG, ProgrammaG
<1>4. ASSUME NEW p \in Proc, Accolto(p)', "server" \notin chiuso'[p] PROVE HaVoce(p)'
  <2>1. Accolto(p)
    BY <1>1, <1>3, <1>4 DEF Accolto, varsS
  <2>. QED BY <1>1, <1>2, <1>4, <2>1, ApertoResta
<1>. QED BY <1>4

(* A student who was accepted keeps a live entry until his connection is   *)
(* closed, whoever is refused, logs out or dies.                           *)
THEOREM SessioneSempreAperta == SpecBase => []SessioneAperta
<1>1. Init => Aperte
  BY DEF Init, InitR, InitS, Aperte, Accolto, InSessione, Conn
<1>2. Intesa /\ SegreteriaViva => Aperte
  BY ApertoVivo DEF Aperte
<1>3. Intesa /\ Intesa' /\ Aperte /\ [Next]_vars /\ ~SegreteriaViva' => Aperte'
  <2>. SUFFICES ASSUME Intesa, Intesa', Aperte, [Next]_vars, ~SegreteriaViva' PROVE Aperte'
    OBVIOUS
  <2>1. CASE pcG' = "finita"
    BY <2>1 DEF Intesa, Dialogo, Colloquio, Chiusura, Aperte, Accolto, InSessione
  <2>2. CASE pcG' # "finita" /\ PassoStudente(NextS)
    <3>1. pcG # "finita"
      BY <2>2 DEF PassoStudente, varsG
    <3>. QED BY <2>2, <3>1, AperteStudente DEF Aperte
  <2>3. CASE pcG' # "finita" /\ PassoSegreteria(NextG)
    BY <2>3, AperteSegreteria DEF Aperte
  <2>4. CASE pcG' # "finita" /\ PassoServer(NextU)
    <3>1. /\ UNCHANGED <<varsS, varsG>>
          /\ giu' = giu \/ \E voci : giu' = Messo(giu, Link, "server", voci)
          /\ chiuso' = chiuso \/ Chiudi({Link}, "server")
      BY <2>4 DEF PassoServer, NextU, ProgrammaU, AccettaSegreteria, LeggiRichiesta, LeggiNomeEsame,
             AggiungiAppello, AggiungiPrenotazione, UccidiServer, TerminaServer, Replica, varsRete
    <3>2. \A p \in Proc : giu'[p] = giu[p] /\ chiuso'[p] = chiuso[p]
      BY <3>1, Costanti DEF Messo, Chiudi, Conn, Intesa, Dialogo, Linea, Collegati
    <3>. QED BY <2>4, <3>1, <3>2, ApertoResta DEF Intesa, Aperte, Accolto, varsS, varsG
  <2>5. CASE pcG' # "finita" /\ UNCHANGED vars
    BY <2>5, ApertoResta DEF Intesa, Aperte, Accolto, vars, varsS, varsG, varsRete
  <2>. QED BY <2>1, <2>2, <2>3, <2>4, <2>5 DEF Next
<1>4. Aperte => SessioneAperta
  BY DEF Aperte, Accolto, HaVoce, SessioneAperta
<1>. QED BY <1>1, <1>2, <1>3, <1>4, InvarianteDialogo, PTL DEF SpecBase
=============================================================================
