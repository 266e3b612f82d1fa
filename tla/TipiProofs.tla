----------------------------- MODULE TipiProofs -----------------------------
(***************************************************************************)
(* Proof that every variable and every stream holds values of its kind,    *)
(* which rests on the dialogues: a read takes the fields it expects        *)
(* because what comes next is the item it expects.  That a booking that is *)
(* reported as made is in the table.  That a session holds the number its  *)
(* own student typed, and lasts as long as he does.                        *)
(***************************************************************************)
EXTENDS DialogoProofs

(* Replies of which a confirmation is true.                                *)
Iscritta(n, e) == <<Testo(n), e>> \in Matricola \X Esame /\ prenota[<<Testo(n), e>>] > 0
Vere == {v \in VociGiu : v.tipo = "esito" /\ v.esito = "ok" => Iscritta(v.num, v.cod)}

(* The values of the segreteria that Tipi says nothing of.                 *)
ValoriG ==
  /\ client_sockets \in [Slot -> [connfd : Fd \cup {-1}, matricola : Numeri \cup {0, Residuo}]]
  /\ i <= DimArray + 1 /\ read_set \subseteq Fd /\ max_fd <= MaxFd
  /\ behaviour \in Int0 /\ req \in Int0
  /\ seg_cod \in Codici \cup {Residuo} /\ seg_mat \in Numeri \cup {Residuo}
  /\ password \in Password \cup {Vuoto}
  /\ inserimenti \in 0..MaxInserimenti

ValoriU ==
  /\ connfd \in BOOLEAN /\ nomeEsame \in Nomi \cup {Vuoto}
  /\ id_esame \in Esame \cup {Residuo}
  /\ idU \in Codici \cup {Residuo} /\ matU \in Numeri \cup {Residuo}

RegoleRete ==
  /\ Len(coda) <= Backlog + 1
  /\ chiuso \in [Conn -> SUBSET Capi] /\ rotto \in [Conn -> SUBSET Capi]
  /\ guasti \subseteq Guasti /\ Cardinality(guasti) <= MaxGuasti

Tipato ==
  /\ su \in [Conn -> Seq(VociSu)] /\ giu \in [Conn -> Seq(Vere)]
  /\ RegoleRete /\ TipoDB /\ TipoStudente /\ ValoriG /\ ValoriU

LEMMA TipatoTypeOK == ASSUME Intesa, Tipato PROVE TypeOK /\ ConfermaRegistrata
<1>1. giu \in [Conn -> Seq(VociGiu)]
  <2>1. Vere \subseteq VociGiu
    BY DEF Vere
  <2>2. \A s \in Seq(Vere) : s \in Seq(VociGiu)
    <3>. HIDE DEF Vere
    <3>. QED BY <2>1
  <2>. QED BY <2>2 DEF Tipato
<1>2. TipoRete
  BY <1>1 DEF TipoRete, Tipato, RegoleRete, Intesa, IInv, Tipi
<1>3. /\ fdConn \in [Fd -> Proc \cup {Nessuno}] /\ dim \in 0..DimArray /\ i \in 1..(DimArray + 1)
      /\ master_set \subseteq Fd /\ max_fd \in 0..MaxFd
  BY Costanti DEF Tipato, ValoriG, Intesa, IInv, Tipi
<1>4. TipoSegreteria
  BY <1>3 DEF TipoSegreteria, Tipato, ValoriG, Intesa, Linea
<1>5. TipoServer
  BY DEF TipoServer, Tipato, ValoriU, Intesa, Linea
<1>6. ConfermaRegistrata
  <2>1. ASSUME NEW c \in Conn, NEW k \in 1..Len(giu[c]) PROVE giu[c][k] \in Vere
    <3>1. giu[c] \in Seq(Vere)
      BY DEF Tipato
    <3>. HIDE DEF Vere
    <3>. QED BY <3>1, <2>1
  <2>. QED BY <2>1 DEF ConfermaRegistrata, Vere, Iscritta
<1>. QED BY <1>2, <1>4, <1>5, <1>6 DEF TypeOK, Tipato

LEMMA InizioTipato == ASSUME Init PROVE Tipato
<1>1. su \in [Conn -> Seq(VociSu)] /\ giu \in [Conn -> Seq(Vere)]
  <2>1. \A V : <<>> \in Seq(V)
    OBVIOUS
  <2>. QED BY <2>1 DEF Init, InitR
<1>2. RegoleRete
  BY FS_EmptySet, ReteAssumption DEF Init, InitR, RegoleRete, Conn, Capi
<1>3. TipoDB
  BY UniversitaAssumption DEF Init, InitDB, TipoDB
<1>4. TipoStudente
  BY StudenteAssumption DEF Init, InitS, TipoStudente, StatiS
<1>5. ValoriG
  BY SegreteriaAssumption DEF Init, InitG, ValoriG, Slot, Int0
<1>6. ValoriU
  BY DEF Init, InitU, ValoriU
<1>. QED BY <1>1, <1>2, <1>3, <1>4, <1>5, <1>6 DEF Tipato

-----------------------------------------------------------------------------
(* What reads, writes, closings and faults do to the values.               *)
LEMMA FlussoTolto ==
  ASSUME NEW V, NEW flusso \in [Conn -> Seq(V)], NEW c
  PROVE  Tolto(flusso, c) \in [Conn -> Seq(V)]
<1>1. \A s \in Seq(V) : s # <<>> => Tail(s) \in Seq(V)
  OBVIOUS
<1>. QED BY <1>1 DEF Tolto

LEMMA FlussoSenza ==
  ASSUME NEW V, NEW flusso \in [Conn -> Seq(V)], NEW k \in Presi(flusso, Link)
  PROVE  Senza(flusso, Link, k) \in [Conn -> Seq(V)]
<1>. DEFINE s == flusso[Link]
            t == SubSeq(s, k + 1, Len(s))
<1>1. s \in Seq(V)
  BY DEF Conn
<1>2. k \in Nat
  <2>1. k \in (IF s = <<>> THEN {0} ELSE 1..Len(s))
    BY DEF Presi
  <2>. HIDE DEF s
  <2>. QED BY <1>1, <2>1
<1>3. t \in Seq(V)
  <2>. HIDE DEF s
  <2>. QED BY <1>1, <1>2
<1>. QED BY <1>3 DEF Senza

LEMMA FlussoMesso ==
  ASSUME NEW V, NEW flusso \in [Conn -> Seq(V)], NEW c, NEW capo, NEW voci \in Seq(V)
  PROVE  Messo(flusso, c, capo, voci) \in [Conn -> Seq(V)]
<1>1. \A s \in Seq(V) : s \o voci \in Seq(V)
  OBVIOUS
<1>. QED BY <1>1 DEF Messo

LEMMA UnaSola == \A V, v : v \in V => <<v>> \in Seq(V) /\ <<v, v>> \in Seq(V)
  OBVIOUS

LEMMA UnaInPiu ==
  ASSUME NEW D, NEW f \in [D -> Nat], NEW r
  PROVE  [f EXCEPT ![r] = @ + 1] \in [D -> Nat]
<1>1. CASE r \in D
  <2>1. f[r] + 1 \in Nat
    BY <1>1
  <2>. QED BY <2>1
<1>2. CASE r \notin D
  BY <1>2
<1>. QED BY <1>1, <1>2

LEMMA RegoleScritte ==
  ASSUME RegoleRete, UNCHANGED <<coda, chiuso, guasti>>, NEW c, NEW capo \in Capi, NEW voci,
         rotto' = Risposta(c, capo, voci)
  PROVE  RegoleRete'
  BY DEF RegoleRete, Risposta

LEMMA RegoleChiuse ==
  ASSUME RegoleRete, UNCHANGED <<coda, guasti>>, NEW cc, NEW capo \in Capi, Chiudi(cc, capo)
  PROVE  RegoleRete'
  BY DEF RegoleRete, Chiudi, Altro, Capi

LEMMA GuastiFiniti ==
  ASSUME guasti \subseteq Guasti, Cardinality(guasti) <= MaxGuasti,
         guasti' = guasti \/ \E quale : Guasto(quale)
  PROVE  guasti' \subseteq Guasti /\ Cardinality(guasti') <= MaxGuasti
<1>1. IsFiniteSet(guasti)
  <2>1. IsFiniteSet({"studente"} \cup {"segreteria"} \cup {"server"} \cup {"query"})
    BY FS_Singleton, FS_Union
  <2>2. guasti \subseteq {"studente"} \cup {"segreteria"} \cup {"server"} \cup {"query"}
    BY ReteAssumption
  <2>. QED BY <2>1, <2>2, FS_Subset
<1>2. ASSUME NEW quale, Guasto(quale) PROVE guasti' \subseteq Guasti /\ Cardinality(guasti') <= MaxGuasti
  <2>1. guasti' = guasti \cup {quale} /\ quale \in Guasti \ guasti /\ Cardinality(guasti) < MaxGuasti
    BY <1>2 DEF Guasto
  <2>2. Cardinality(guasti \cup {quale}) = Cardinality(guasti) + 1 /\ Cardinality(guasti) \in Nat
    BY <1>1, <2>1, FS_AddElement, FS_CardinalityType
  <2>. QED BY <2>1, <2>2, ReteAssumption
<1>. QED BY <1>2

-----------------------------------------------------------------------------
(* What the students write.                                                *)
LEMMA VociScritte ==
  /\ \A n \in Numeri, w \in Password : <<Credenziali(n, w)>> \in Seq(VociSu)
  /\ \A k \in Int0 : <<Scelta(k)>> \in Seq(VociSu) /\ <<Richiesta(k)>> \in Seq(VociSu)
  /\ \A x \in Nomi \ {Vuoto} : <<Nome(x)>> \in Seq(VociSu)
  /\ \A d \in Giorni \ {Vuoto} : <<Giorno(d)>> \in Seq(VociSu)
  /\ \A n \in Numeri \cup {Residuo}, e \in Codici \cup {Residuo} : <<Dati(n, e)>> \in Seq(VociSu)
  /\ <<>> \in Seq(VociSu)
<1>1. /\ \A n \in Numeri, w \in Password : Credenziali(n, w) \in VociSu
      /\ \A k \in Int0 : Scelta(k) \in VociSu /\ Richiesta(k) \in VociSu
      /\ \A x \in Nomi \ {Vuoto} : Nome(x) \in VociSu
      /\ \A d \in Giorni \ {Vuoto} : Giorno(d) \in VociSu
      /\ \A n \in Numeri \cup {Residuo}, e \in Codici \cup {Residuo} : Dati(n, e) \in VociSu
  BY DEF VociSu, Credenziali, Scelta, Richiesta, Nome, Giorno, Dati
<1>2. <<>> \in Seq(VociSu)
  OBVIOUS
<1>. QED BY <1>1, <1>2, UnaSola

LEMMA TipatoStudente == ASSUME Intesa, Tipato, PassoStudente(NextS) PROVE Tipato'
<1>1. PICK p \in Proc :
        \/ Utente(p) \/ Programma(p)
        \/ \E k \in Scelte : Scegli(p, k)
        \/ UccidiStudente(p)
  BY DEF PassoStudente, NextS
<1>2. ValoriG' /\ ValoriU' /\ TipoDB' /\ Vere' = Vere
  BY DEF PassoStudente, varsDB, varsG, varsU, Tipato, ValoriG, ValoriU, TipoDB, Vere, Iscritta
<1>3. su' = su \/ \E voci \in Seq(VociSu) : su' = Messo(su, p, "client", voci)
  <2>1. ASSUME Utente(p) \/ \E k \in Scelte : Scegli(p, k)
        PROVE  \E voci \in Seq(VociSu) : su' = Messo(su, p, "client", voci)
    <3>1. ASSUME NEW n \in Numeri, NEW w \in Password, InviaCredenziali(p, n, w)
          PROVE  \E voci \in Seq(VociSu) : su' = Messo(su, p, "client", voci)
      BY <3>1, VociScritte DEF InviaCredenziali, Scrive
    <3>2. ASSUME NEW r \in Richieste, ScegliReq(p, r)
          PROVE  \E voci \in Seq(VociSu) : su' = Messo(su, p, "client", voci)
      BY <3>2, VociScritte DEF ScegliReq, Scrive, Int0
    <3>3. ASSUME NEW x \in Nomi, DigitaNome(p, x)
          PROVE  \E voci \in Seq(VociSu) : su' = Messo(su, p, "client", voci)
      BY <3>3, VociScritte DEF DigitaNome, Scrive
    <3>4. ASSUME NEW e \in Codici, DigitaCod(p, e)
          PROVE  \E voci \in Seq(VociSu) : su' = Messo(su, p, "client", voci)
      <4>1. mat[p] \in Numeri \cup {Residuo}
        BY DEF Tipato, TipoStudente
      <4>. QED BY <3>4, <4>1, VociScritte DEF DigitaCod, Scrive
    <3>5. ASSUME NEW k \in Scelte, Scegli(p, k)
          PROVE  \E voci \in Seq(VociSu) : su' = Messo(su, p, "client", voci)
      BY <3>5, VociScritte DEF Scegli, Scrive, Int0
    <3>. QED BY <2>1, <3>1, <3>2, <3>3, <3>4, <3>5 DEF Utente
  <2>2. ASSUME Programma(p) \/ UccidiStudente(p) PROVE su' = su
    BY <2>2 DEF Programma, Connetti, EsitoLogin, RiceviRighe, RiceviEsito, Esci, Legge, UccidiStudente
  <2>. QED BY <1>1, <2>1, <2>2
<1>4. su' \in [Conn -> Seq(VociSu)]
  BY <1>3, FlussoMesso DEF Tipato
<1>5. giu' \in [Conn -> Seq(Vere)]'
  <2>1. giu' = giu \/ giu' = Tolto(giu, p)
    BY <1>1 DEF Utente, InviaCredenziali, ScegliReq, DigitaNome, DigitaCod, Scegli, Scrive,
                Programma, Connetti, EsitoLogin, RiceviRighe, RiceviEsito, Esci, Legge, UccidiStudente
  <2>2. giu' \in [Conn -> Seq(Vere)]
    BY <2>1, FlussoTolto DEF Tipato
  <2>. QED BY <1>2, <2>2
<1>6. RegoleRete'
  <2>1. ASSUME Utente(p) \/ \E k \in Scelte : Scegli(p, k) PROVE RegoleRete'
    <3>1. \E voci : rotto' = Risposta(p, "client", voci) /\ UNCHANGED <<coda, chiuso, guasti>>
      BY <2>1 DEF Utente, InviaCredenziali, ScegliReq, DigitaNome, DigitaCod, Scegli, Scrive
    <3>. QED BY <3>1, RegoleScritte DEF Tipato, Capi
  <2>2. CASE EsitoLogin(p) \/ RiceviRighe(p) \/ RiceviEsito(p)
    BY <2>2 DEF EsitoLogin, RiceviRighe, RiceviEsito, Legge, Tipato, RegoleRete
  <2>3. CASE Connetti(p)
    <3>1. Len(coda') <= Backlog + 1
      <4>1. coda \in Seq(Proc) /\ Backlog \in Nat
        BY ReteAssumption DEF Intesa, IInv, Tipi
      <4>. QED BY <2>3, <4>1 DEF Connetti, Tipato, RegoleRete
    <3>. QED BY <2>3, <3>1 DEF Connetti, Tipato, RegoleRete
  <2>4. CASE Esci(p)
    BY <2>4, RegoleChiuse DEF Esci, Tipato, Capi
  <2>5. CASE UccidiStudente(p)
    BY <2>5, GuastiFiniti DEF UccidiStudente, Tipato, RegoleRete
  <2>. QED BY <1>1, <2>1, <2>2, <2>3, <2>4, <2>5 DEF Programma
<1>7. TipoStudente'
  <2>. USE DEF Tipato, TipoStudente
  <2>0. pcS' \in [Proc -> StatiS]
    <3>1. IInv'
      BY PassiStudente DEF Intesa
    <3>. QED BY <3>1 DEF IInv, Tipi
  <2>1. ASSUME NEW n \in Numeri, NEW w \in Password, InviaCredenziali(p, n, w) PROVE TipoStudente'
    BY <2>0, <2>1 DEF InviaCredenziali
  <2>2. ASSUME NEW r \in Richieste, ScegliReq(p, r) PROVE TipoStudente'
    BY <2>0, <2>2 DEF ScegliReq
  <2>3. ASSUME NEW x \in Nomi, DigitaNome(p, x) PROVE TipoStudente'
    BY <2>0, <2>3 DEF DigitaNome
  <2>4. ASSUME NEW e \in Codici, DigitaCod(p, e) PROVE TipoStudente'
    <3>1. cod' \in [Proc -> Codici \cup {Residuo}] /\ UNCHANGED <<mat, reqS, scelte>>
      BY <2>4 DEF DigitaCod
    <3>2. chieste' \in [Numeri \X Codici -> Nat]
      <4>1. chieste' = [chieste EXCEPT ![<<mat[p], e>>] = @ + 1]
        BY <2>4 DEF DigitaCod
      <4>. QED BY <4>1, UnaInPiu
    <3>. QED BY <2>0, <3>1, <3>2
  <2>5. ASSUME NEW k \in Scelte, Scegli(p, k) PROVE TipoStudente'
    <3>1. scelte' \in [Proc -> 0..MaxScelte]
      <4>1. scelte[p] \in 0..MaxScelte
        OBVIOUS
      <4>2. (IF k # 3 THEN scelte[p] + 1 ELSE scelte[p]) \in 0..MaxScelte
        BY <2>5, <4>1, StudenteAssumption DEF Scegli
      <4>. QED BY <2>5, <4>2 DEF Scegli
    <3>. QED BY <2>0, <2>5, <3>1 DEF Scegli
  <2>6. ASSUME Programma(p) \/ UccidiStudente(p) PROVE TipoStudente'
    BY <2>0, <2>6 DEF Programma, Connetti, EsitoLogin, RiceviRighe, RiceviEsito, Esci, UccidiStudente
  <2>. QED BY <1>1, <2>1, <2>2, <2>3, <2>4, <2>5, <2>6 DEF Utente
<1>. QED BY <1>2, <1>4, <1>5, <1>6, <1>7 DEF Tipato

-----------------------------------------------------------------------------
(* Rows are only added: what was true stays true.                          *)
LEMMA VereCrescono ==
  ASSUME TipoDB, prenota' = prenota \/ \E r : prenota' = Inserisci(prenota, r)
  PROVE  /\ Vere \subseteq Vere' /\ prenota' \in [Matricola \X Esame -> Nat]
         /\ giu \in [Conn -> Seq(Vere)] => giu \in [Conn -> Seq(Vere')]
<1>1. prenota' \in [Matricola \X Esame -> Nat]
  BY UnaInPiu DEF TipoDB, Inserisci
<1>2. \A r \in Matricola \X Esame : prenota[r] > 0 => prenota'[r] > 0
  <2>1. ASSUME NEW D, NEW f \in [D -> Nat], NEW x, NEW r \in D, f[r] > 0
        PROVE  [f EXCEPT ![x] = @ + 1][r] > 0
    BY <2>1
  <2>. QED BY <2>1 DEF TipoDB, Inserisci
<1>3. Vere \subseteq Vere'
  BY <1>2 DEF Vere, Iscritta
<1>4. \A S, T : S \subseteq T => Seq(S) \subseteq Seq(T)
  OBVIOUS
<1>. QED BY <1>1, <1>3, <1>4

LEMMA RisposteServite ==
  /\ \A x \in {"ok", "rifiutata", "errore", "vuoto"}, n \in Numeri \cup {Residuo},
        e \in Codici \cup {Residuo} : (x = "ok" => Iscritta(n, e)') => Esito(x, n, e) \in Vere'
  /\ \A x \in Testi : EsitoAppello(x) \in Vere'
<1>1. ASSUME NEW x \in {"ok", "rifiutata", "errore", "vuoto"}, NEW n \in Numeri \cup {Residuo},
             NEW e \in Codici \cup {Residuo}, x = "ok" => Iscritta(n, e)'
      PROVE  Esito(x, n, e) \in Vere'
  BY <1>1 DEF Esito, Vere, VociGiu
<1>2. ASSUME NEW x \in Testi PROVE EsitoAppello(x) \in Vere'
  BY <1>2 DEF EsitoAppello, Vere, VociGiu, Testi
<1>. QED BY <1>1, <1>2

(* A step of the server, from what it reads, inserts and answers.          *)
LEMMA ServitoTipato ==
  ASSUME Tipato, UNCHANGED <<coda, varsS, varsG>>, ValoriU',
         su' = su \/ su' = Tolto(su, Link) \/ \E k \in Presi(su, Link) : su' = Senza(su, Link, k),
         appello' = appello \/ \E r : appello' = Inserisci(appello, r),
         prenota' = prenota \/ \E r : prenota' = Inserisci(prenota, r),
         giu' = giu \/ \E voci \in Seq(Vere') : giu' = Messo(giu, Link, "server", voci),
         RegoleRete'
  PROVE  Tipato'
<1>1. su' \in [Conn -> Seq(VociSu)]
  <2>1. su \in [Conn -> Seq(VociSu)]
    BY DEF Tipato
  <2>2. Tolto(su, Link) \in [Conn -> Seq(VociSu)]
    BY <2>1, FlussoTolto
  <2>3. \A k \in Presi(su, Link) : Senza(su, Link, k) \in [Conn -> Seq(VociSu)]
    BY <2>1, FlussoSenza
  <2>. QED BY <2>1, <2>2, <2>3
<1>2. prenota' \in [Matricola \X Esame -> Nat] /\ giu \in [Conn -> Seq(Vere')]
  BY VereCrescono DEF Tipato
<1>3. giu' \in [Conn -> Seq(Vere')]
  BY <1>2, FlussoMesso
<1>4. appello' \in [Esame \X Data -> Nat]
  BY UnaInPiu DEF Tipato, TipoDB, Inserisci
<1>5. TipoStudente' /\ ValoriG'
  BY DEF Tipato, TipoStudente, ValoriG, varsS, varsG
<1>. QED BY <1>1, <1>2, <1>3, <1>4, <1>5 DEF Tipato, TipoDB

LEMMA RegoleRisposte ==
  ASSUME RegoleRete, UNCHANGED <<coda, chiuso>>,
         guasti' = guasti \/ \E quale : Guasto(quale),
         rotto' = rotto \/ \E c, voci : \E capo \in Capi : rotto' = Risposta(c, capo, voci)
  PROVE  RegoleRete'
<1>1. guasti' \subseteq Guasti /\ Cardinality(guasti') <= MaxGuasti
  BY GuastiFiniti DEF RegoleRete
<1>2. rotto' \in [Conn -> SUBSET Capi]
  BY DEF RegoleRete, Risposta
<1>. QED BY <1>1, <1>2 DEF RegoleRete

LEMMA TipatoAppello ==
  ASSUME Tipato, AggiungiAppello, UNCHANGED <<varsS, varsG>> PROVE Tipato'
<1>1. ValoriU'
  <2>1. IdDelNome \subseteq Esame \cup {Residuo}
    BY DEF IdDelNome, Nominati, Tipato, ValoriU
  <2>2. id_esame' \in Esame \cup {Residuo}
    BY <2>1 DEF AggiungiAppello, Tipato, ValoriU
  <2>. QED BY <2>2 DEF AggiungiAppello, Tipato, ValoriU
<1>2. giu' = giu \/ \E x \in Testi : giu' = Messo(giu, Link, "server", <<EsitoAppello(x)>>)
  BY DEF AggiungiAppello, Replica, Testi
<1>3. giu' = giu \/ \E voci \in Seq(Vere') : giu' = Messo(giu, Link, "server", voci)
  BY <1>2, RisposteServite, UnaSola
<1>4. /\ su' = Tolto(su, Link) /\ prenota' = prenota /\ UNCHANGED <<coda, chiuso>>
      /\ appello' = appello \/ \E r : appello' = Inserisci(appello, r)
      /\ guasti' = guasti \/ \E quale : Guasto(quale)
      /\ rotto' = rotto \/ \E voci : rotto' = Risposta(Link, "server", voci)
  BY DEF AggiungiAppello, Replica, NessunGuasto
<1>5. RegoleRete'
  BY <1>4, RegoleRisposte DEF Tipato, Capi
<1>. QED BY <1>1, <1>3, <1>4, <1>5, ServitoTipato

LEMMA TipatoPrenotazione ==
  ASSUME Voci, Tipato, AggiungiPrenotazione, UNCHANGED <<varsS, varsG>> PROVE Tipato'
<1>1. idU' \in Codici \cup {Residuo} /\ matU' \in Numeri \cup {Residuo}
  <2>1. su[Link] \in Seq(VociSu)
    BY DEF Tipato, Conn
  <2>2. su[Link] # <<>> => InMano(Head(su[Link]))
    <3>1. su[Link] # <<>> => Len(su[Link]) # 0 /\ Head(su[Link]) = su[Link][1]
      BY <2>1
    <3>. QED BY <3>1 DEF Voci, ServerVivo, AggiungiPrenotazione
  <2>. QED BY <2>2 DEF InMano, AggiungiPrenotazione, Tipato, ValoriG, ValoriU
<1>2. ValoriU'
  BY <1>1 DEF AggiungiPrenotazione, Tipato, ValoriU
<1>3. giu' = giu \/ \E voci \in Seq(Vere') : giu' = Messo(giu, Link, "server", voci)
  <2>1. ASSUME Prenotabile(matU', idU'), prenota' = Inserisci(prenota, <<Testo(matU'), idU'>>)
        PROVE  Iscritta(matU, idU)'
    <3>1. <<Testo(matU'), idU'>> \in Matricola \X Esame
      BY <2>1 DEF Prenotabile
    <3>2. ASSUME NEW D, NEW f \in [D -> Nat], NEW r \in D PROVE [f EXCEPT ![r] = @ + 1][r] > 0
      OBVIOUS
    <3>. QED BY <2>1, <3>1, <3>2 DEF Iscritta, Inserisci, Tipato, TipoDB
  <2>2. \E x \in {"ok", "rifiutata", "errore", "vuoto"} :
          /\ x = "ok" => Iscritta(matU, idU)'
          /\ \E voci \in {<<Esito(x, matU', idU')>>, <<Esito(x, matU', idU'), Esito(x, matU', idU')>>} :
               giu' = Messo(giu, Link, "server", voci)
    BY <2>1 DEF AggiungiPrenotazione, Replica, Fallita
  <2>. QED BY <1>1, <2>2, RisposteServite, UnaSola
<1>4. /\ su' = Tolto(su, Link) /\ appello' = appello /\ UNCHANGED <<coda, chiuso>>
      /\ prenota' = prenota \/ \E r : prenota' = Inserisci(prenota, r)
      /\ guasti' = guasti \/ \E quale : Guasto(quale)
      /\ \E voci : rotto' = Risposta(Link, "server", voci)
  BY DEF AggiungiPrenotazione, Replica, NessunGuasto
<1>5. RegoleRete'
  BY <1>4, RegoleRisposte DEF Tipato, Capi
<1>. QED BY <1>2, <1>3, <1>4, <1>5, ServitoTipato

LEMMA TipatoServer == ASSUME Voci, Tipato, PassoServer(NextU) PROVE Tipato'
<1>1. UNCHANGED <<varsS, varsG>>
  BY DEF PassoServer
<1>2. CASE AccettaSegreteria \/ LeggiRichiesta
  BY <1>1, <1>2, ServitoTipato
  DEF AccettaSegreteria, LeggiRichiesta, Tipato, ValoriU, RegoleRete, varsRete
<1>3. CASE LeggiNomeEsame
  <2>1. ValoriU'
    <3>1. PICK k \in Presi(su, Link) :
            nomeEsame' = IF k = 1 /\ Head(su[Link]).tipo = "nome" THEN Head(su[Link]).nome ELSE Vuoto
      BY <1>3 DEF LeggiNomeEsame
    <3>2. k = 1 => Head(su[Link]) \in VociSu
      <4>1. su[Link] \in Seq(VociSu)
        BY DEF Tipato, Conn
      <4>2. k = 1 => su[Link] # <<>>
        BY DEF Presi
      <4>. HIDE DEF VociSu
      <4>. QED BY <4>1, <4>2
    <3>3. nomeEsame' \in Nomi \cup {Vuoto}
      BY <3>1, <3>2 DEF VociSu
    <3>. QED BY <1>3, <3>3 DEF LeggiNomeEsame, Tipato, ValoriU
  <2>2. RegoleRete'
    BY <1>3 DEF LeggiNomeEsame, Tipato, RegoleRete
  <2>. QED BY <1>1, <1>3, <2>1, <2>2, ServitoTipato DEF LeggiNomeEsame
<1>4. CASE UccidiServer
  <2>1. RegoleRete'
    BY <1>4, RegoleRisposte DEF UccidiServer, Tipato
  <2>. QED BY <1>1, <1>4, <2>1, ServitoTipato DEF UccidiServer, Tipato, ValoriU
<1>5. CASE TerminaServer
  <2>1. RegoleRete'
    BY <1>5, RegoleChiuse DEF TerminaServer, Tipato, Capi
  <2>. QED BY <1>1, <1>5, <2>1, ServitoTipato DEF TerminaServer, Tipato, ValoriU
<1>. QED BY <1>1, <1>2, <1>3, <1>4, <1>5, TipatoAppello, TipatoPrenotazione
     DEF PassoServer, NextU, ProgrammaU

-----------------------------------------------------------------------------
(* The item the segreteria reads is of the kind it expects.                *)
LEMMA VoceAttesa ==
  ASSUME Intesa, su \in [Conn -> Seq(VociSu)], SegreteriaViva, NEW p \in Proc, InFd(p), su[p] # <<>>
  PROVE  Head(su[p]) \in VociSu /\ Head(su[p]).tipo = Turno(p)
<1>1. su[p] \in Seq(VociSu)
  BY DEF Conn
<1>2. Head(su[p]) \in VociSu
  <2>. HIDE DEF VociSu
  <2>. QED BY <1>1
<1>3. InDialogo(p) /\ Colloquio(p)
  BY DEF Intesa, Posto, Aperta, InDialogo, Dialogo
<1>4. Head(su[p]).tipo = Turno(p)
  BY <1>3, CatenaLetta DEF Colloquio, Accordo
<1>. QED BY <1>2, <1>4

LEMMA VociLette ==
  ASSUME NEW v \in VociSu
  PROVE  /\ v.tipo \in {"scelta", "richiesta"} => v.val \in Int0
         /\ v.tipo = "credenziali" => v.num \in Numeri /\ v.pass \in Password
         /\ v.tipo = "nome" => v.nome \in Nomi
         /\ v.tipo = "dati" => /\ v.num \in Numeri \cup {Residuo} /\ v.cod \in Codici \cup {Residuo}
                               /\ v = Dati(v.num, v.cod)
  BY DEF VociSu, Dati

(* A step of the segreteria, from what it reads and writes.                *)
LEMMA SegreteriaTipata ==
  ASSUME Tipato, UNCHANGED <<varsS, varsU, appello, prenota>>, ValoriG', RegoleRete',
         su' \in [Conn -> Seq(VociSu)], giu' \in [Conn -> Seq(Vere)]
  PROVE  Tipato'
<1>1. Vere' = Vere
  BY DEF Vere, Iscritta
<1>2. TipoStudente' /\ ValoriU' /\ TipoDB'
  BY DEF Tipato, TipoStudente, ValoriU, TipoDB, varsS, varsU
<1>. QED BY <1>1, <1>2 DEF Tipato

LEMMA TipatoAccetta ==
  ASSUME Intesa, Tipato, Accetta \/ AccettaFallita PROVE ValoriG' /\ RegoleRete'
<1>1. read_set' \subseteq Fd
  BY DEF Accetta, AccettaFallita, Select, Leggibili, Tipato, ValoriG, Intesa, IInv, Tipi
<1>2. CASE Accetta
  <2>1. PICK f \in Fd :
          /\ client_sockets' = [client_sockets EXCEPT ![dim + 1].connfd = f]
          /\ max_fd' = IF max_fd > f THEN max_fd ELSE f
    BY <1>2 DEF Accetta
  <2>2. max_fd' <= MaxFd
    BY <2>1, Costanti DEF Fd, Tipato, ValoriG
  <2>3. ValoriG'
    BY <1>1, <1>2, <2>1, <2>2 DEF Accetta, Tipato, ValoriG, varsLette, varsAltriG
  <2>4. Len(coda') <= Backlog + 1
    <3>1. coda \in Seq(Proc) /\ coda # <<>> /\ coda' = Tail(coda) /\ Len(coda) <= Backlog + 1
      BY <1>2 DEF Accetta, Intesa, IInv, Tipi, Tipato, RegoleRete
    <3>2. Len(Tail(coda)) = Len(coda) - 1 /\ Len(coda) \in Nat /\ Backlog \in Nat
      BY <3>1, ReteAssumption
    <3>. QED BY <3>1, <3>2
  <2>. QED BY <1>2, <2>3, <2>4 DEF Accetta, Tipato, RegoleRete
<1>3. CASE AccettaFallita
  BY <1>1, <1>3
  DEF AccettaFallita, CodaDopoErrore, Tipato, ValoriG, RegoleRete, varsLette, varsAltriG
<1>. QED BY <1>2, <1>3

LEMMA TipatoGiro ==
  ASSUME Intesa, Tipato,
         Sfora \/ NessunaAttesa \/ Salta \/ FineScorri \/ Continua \/ UccidiSegreteria
  PROVE  ValoriG' /\ RegoleRete'
<1>1. /\ UNCHANGED <<client_sockets, max_fd, varsLette, inserimenti>>
      /\ read_set' = read_set \/ read_set' \subseteq Leggibili
      /\ i' = i \/ i' = 1 \/ (i' = i + 1 /\ i <= dim)
      /\ UNCHANGED <<coda, chiuso, rotto>> /\ (guasti' = guasti \/ \E quale : Guasto(quale))
  BY DEF Sfora, NessunaAttesa, Select, Salta, FineScorri, Continua, UccidiSegreteria,
         varsGiro, varsAltriG, varsRete
<1>2. read_set' \subseteq Fd
  BY <1>1 DEF Leggibili, Tipato, ValoriG, Intesa, IInv, Tipi
<1>3. i' <= DimArray + 1
  BY <1>1, Costanti DEF Tipato, ValoriG, Intesa, IInv, Tipi
<1>4. RegoleRete'
  BY <1>1, RegoleRisposte DEF Tipato
<1>. QED BY <1>1, <1>2, <1>3, <1>4 DEF Tipato, ValoriG, varsLette

LEMMA TipatoTermina == ASSUME Tipato, Termina PROVE ValoriG' /\ RegoleRete'
<1>1. ValoriG'
  BY DEF Termina, Tipato, ValoriG, varsLette, varsAltriG
<1>2. chiuso' \in [Conn -> SUBSET Capi] /\ rotto' \in [Conn -> SUBSET Capi]
  BY DEF Termina, Tipato, RegoleRete, Altro, Capi
<1>3. Len(<<>>) <= Backlog + 1
  BY ReteAssumption
<1>. QED BY <1>1, <1>2, <1>3 DEF Termina, Tipato, RegoleRete

(* The console writes to the server, and reads from it.                    *)
LEMMA TipatoConsole ==
  ASSUME Tipato, Operatore \/ NuovoAppello \/ EsitoInserimento
  PROVE  /\ ValoriG' /\ RegoleRete'
         /\ su' \in [Conn -> Seq(VociSu)] /\ giu' \in [Conn -> Seq(Vere)]
<1>1. /\ UNCHANGED <<i, varsGiro, varsLette, coda, chiuso, guasti>>
      /\ inserimenti' = inserimenti \/ (inserimenti' = inserimenti + 1 /\ inserimenti < MaxInserimenti)
      /\ rotto' = rotto \/ \E voci : rotto' = Risposta(Link, "client", voci)
  BY DEF Operatore, NuovoAppello, EsitoInserimento, DigitaNomeAppello, DigitaData, Digita
<1>2. ValoriG'
  <2>1. inserimenti' \in 0..MaxInserimenti
    BY <1>1, SegreteriaAssumption DEF Tipato, ValoriG
  <2>. QED BY <1>1, <2>1 DEF Tipato, ValoriG, varsGiro, varsLette
<1>3. RegoleRete'
  BY <1>1, RegoleRisposte DEF Tipato, Capi
<1>4. su' \in [Conn -> Seq(VociSu)]
  <2>1. su' = su \/ \E voci \in Seq(VociSu) : su' = Messo(su, Link, "client", voci)
    <3>1. CASE \E x \in Nomi : DigitaNomeAppello(x)
      BY <3>1, VociScritte DEF DigitaNomeAppello, Digita
    <3>2. CASE \E d \in Giorni : DigitaData(d)
      BY <3>2, VociScritte DEF DigitaData, Digita
    <3>3. CASE NuovoAppello
      BY <3>3, VociScritte DEF NuovoAppello, Digita, Int0
    <3>. QED BY <3>1, <3>2, <3>3 DEF Operatore, EsitoInserimento
  <2>. QED BY <2>1, FlussoMesso DEF Tipato
<1>5. giu' \in [Conn -> Seq(Vere)]
  <2>1. giu' = giu \/ \E k \in Presi(giu, Link) : giu' = Senza(giu, Link, k)
    BY DEF Operatore, NuovoAppello, EsitoInserimento, DigitaNomeAppello, DigitaData, Digita
  <2>. QED BY <2>1, FlussoSenza DEF Tipato
<1>. QED BY <1>2, <1>3, <1>4, <1>5

(* Whom the segreteria is blocked on, or is about to read from.            *)
LEMMA Interlocutore ==
  ASSUME Intesa, \/ pcG \in Fermi \cup {"credenziali"}
                 \/ pcG = "scorri" /\ i <= dim /\ DaServire(i),
         NEW p, p = InCorso
  PROVE  /\ p \in Proc /\ p # Link /\ InFd(p) /\ SegreteriaViva
         /\ pcG # "credenziali" => p = Cliente(i) /\ i <= dim /\ i \in Slot
         /\ pcG = "credenziali" => Turno(p) = "credenziali" /\ dim + 1 \in Slot
         /\ pcG = "scorri" => Turno(p) = "scelta"
         /\ pcG \in Fermi => Turno(p) = Legge1[pcG]
<1>1. IInv /\ Lettura /\ SegreteriaViva
  BY DEF Intesa, SegreteriaViva, Fermi
<1>2. p \in Proc /\ p # Link
  BY <1>1, InCorsoStudente DEF InCorso
<1>3. CASE pcG = "credenziali"
  <2>1. p = Cliente(dim + 1) /\ dim + 1 \in Slot /\ client_sockets[dim + 1].connfd \in Fd
    BY <1>1, <1>3, Costanti DEF InCorso, IInv, Tipi, InAccesso, Aperto, Slot
  <2>2. InFd(p)
    BY <2>1 DEF InFd, Cliente
  <2>. QED BY <1>1, <1>2, <1>3, <2>1, <2>2, TurnoInCorso DEF Fermi
<1>4. CASE pcG # "credenziali"
  <2>1. p = Cliente(i) /\ i <= dim /\ i \in Slot /\ client_sockets[i].connfd \in Fd
        /\ client_sockets[i].connfd # -1
    BY <1>1, <1>4, Costanti DEF InCorso, IInv, Tipi, Lettura, ServitoVivo, DaServire, Slot
  <2>2. InFd(p)
    BY <2>1 DEF InFd, Cliente
  <2>3. pcG = "scorri" => Turno(p) = "scelta"
    <3>1. ASSUME pcG = "scorri" PROVE Turno(p) = "scelta"
      <4>1. ~InCoda(p) /\ InTabella(p)
        BY <1>1, <2>1, <3>1, ClienteVivo
      <4>. QED BY <3>1, <4>1 DEF Turno, AllAccesso, Fermi
    <3>. QED BY <3>1
  <2>4. pcG \in Fermi => Turno(p) = Legge1[pcG]
    BY <1>1, <1>2, TurnoInCorso
  <2>. QED BY <1>1, <1>2, <1>4, <2>1, <2>2, <2>3, <2>4
<1>. QED BY <1>3, <1>4

(* What it reads then.                                                     *)
LEMMA InterlocutoreLetto ==
  ASSUME Intesa, Tipato, \/ pcG \in Fermi \cup {"credenziali"}
                         \/ pcG = "scorri" /\ i <= dim /\ DaServire(i),
         NEW p, p = InCorso, su[p] # <<>>
  PROVE  /\ pcG \in {"scorri", "req"} => Head(su[p]).val \in Int0
         /\ pcG = "credenziali" => Head(su[p]).num \in Numeri /\ Head(su[p]).pass \in Password
         /\ pcG = "dati" =>
              /\ Head(su[p]).num \in Numeri \cup {Residuo} /\ Head(su[p]).cod \in Codici \cup {Residuo}
              /\ Head(su[p]) = Dati(Head(su[p]).num, Head(su[p]).cod)
<1>1. p \in Proc /\ InFd(p) /\ SegreteriaViva
  BY Interlocutore
<1>2. Head(su[p]) \in VociSu /\ Head(su[p]).tipo = Turno(p)
  BY <1>1, VoceAttesa DEF Tipato
<1>3. /\ pcG = "scorri" => Turno(p) = "scelta"
      /\ pcG = "req" => Turno(p) = "richiesta"
      /\ pcG = "dati" => Turno(p) = "dati"
      /\ pcG = "credenziali" => Turno(p) = "credenziali"
  BY Interlocutore DEF Fermi, Legge1
<1>. PICK v \in VociSu : v = Head(su[p])
  BY <1>2
<1>. QED BY <1>2, <1>3, VociLette

LEMMA TipatoLogin ==
  ASSUME Intesa, Tipato, Login
  PROVE  /\ ValoriG' /\ RegoleRete'
         /\ su' \in [Conn -> Seq(VociSu)] /\ giu' \in [Conn -> Seq(Vere)]
<1>. PICK p : p = InCorso
  OBVIOUS
<1>. PICK n, w : n = CredenzialiLette(p).num /\ w = CredenzialiLette(p).pass
  OBVIOUS
<1>. PICK ok \in BOOLEAN : ok = AccessoConsentito(n, w)
  BY DEF AccessoConsentito
<1>1. /\ pcG = "credenziali" /\ su' = Tolto(su, p) /\ password' = w
      /\ client_sockets' = [client_sockets EXCEPT ![dim + 1].matricola = n]
      /\ giu' = giu \/ giu' = Messo(giu, p, "server", <<EsitoAccesso(ok)>>)
      /\ rotto' = rotto \/ \E voci : rotto' = Risposta(p, "server", voci)
      /\ guasti' = guasti \/ \E quale : Guasto(quale)
      /\ UNCHANGED <<read_set, max_fd, i, behaviour, req, seg_cod, seg_mat, inserimenti, coda, chiuso>>
  BY DEF Login, Risponde, NessunGuasto, varsAltriG
<1>2. n \in Numeri \cup {0, Residuo} /\ w \in Password \cup {Vuoto}
  <2>1. CASE su[p] # <<>>
    BY <1>1, <2>1, InterlocutoreLetto DEF CredenzialiLette
  <2>2. CASE su[p] = <<>>
    <3>1. dim + 1 \in Slot
      BY <1>1, Interlocutore
    <3>2. n = client_sockets[dim + 1].matricola /\ w = password
      BY <2>2 DEF CredenzialiLette, Credenziali
    <3>. QED BY <3>1, <3>2 DEF Tipato, ValoriG
  <2>. QED BY <2>1, <2>2
<1>3. ValoriG'
  BY <1>1, <1>2 DEF Tipato, ValoriG
<1>4. RegoleRete'
  BY <1>1, RegoleRisposte DEF Tipato, Capi
<1>5. su' \in [Conn -> Seq(VociSu)]
  BY <1>1, FlussoTolto DEF Tipato
<1>6. giu' \in [Conn -> Seq(Vere)]
  <2>1. <<EsitoAccesso(ok)>> \in Seq(Vere)
    BY UnaSola DEF EsitoAccesso, Vere, VociGiu
  <2>2. giu \in [Conn -> Seq(Vere)]
    BY DEF Tipato
  <2>3. Messo(giu, p, "server", <<EsitoAccesso(ok)>>) \in [Conn -> Seq(Vere)]
    BY <2>1, <2>2, FlussoMesso
  <2>. QED BY <1>1, <2>2, <2>3
<1>. QED BY <1>3, <1>4, <1>5, <1>6

LEMMA TipatoScelta ==
  ASSUME Intesa, Tipato, LeggiScelta
  PROVE  ValoriG' /\ RegoleRete' /\ su' \in [Conn -> Seq(VociSu)]
<1>. PICK p : p = Cliente(i)
  OBVIOUS
<1>. PICK b : b = IF su[p] # <<>> THEN Head(su[p]).val ELSE behaviour
  OBVIOUS
<1>1. /\ pcG = "scorri" /\ i <= dim /\ DaServire(i) /\ p = InCorso /\ behaviour' = b
      /\ su' = IF b = 2 THEN Messo(Tolto(su, p), Link, "client", <<Scelta(b)>>) ELSE Tolto(su, p)
      /\ UNCHANGED <<read_set, max_fd, req, seg_cod, seg_mat, password, inserimenti, coda, guasti>>
      /\ i' \in {i, i + 1}
      /\ client_sockets' = client_sockets \/ client_sockets' = [client_sockets EXCEPT ![i] = Sloggata(i)]
      /\ rotto' = rotto \/ \E voci : rotto' = Risposta(Link, "client", voci)
      /\ chiuso' = chiuso \/ chiuso' = [chiuso EXCEPT ![p] = @ \cup {"server"}]
  BY DEF LeggiScelta, InCorso, varsAltriG
<1>2. b \in Int0
  <2>1. su[p] # <<>> => Head(su[p]).val \in Int0
    BY <1>1, InterlocutoreLetto
  <2>. QED BY <2>1 DEF Tipato, ValoriG
<1>3. ValoriG'
  <2>1. client_sockets' \in [Slot -> [connfd : Fd \cup {-1}, matricola : Numeri \cup {0, Residuo}]]
    <3>1. Sloggata(i) \in [connfd : Fd \cup {-1}, matricola : Numeri \cup {0, Residuo}]
      BY DEF Sloggata
    <3>. QED BY <1>1, <3>1 DEF Tipato, ValoriG
  <2>2. i' <= DimArray + 1
    BY <1>1, Costanti DEF Intesa, IInv, Tipi
  <2>. QED BY <1>1, <1>2, <2>1, <2>2 DEF Tipato, ValoriG
<1>4. RegoleRete'
  <2>1. rotto' \in [Conn -> SUBSET Capi]
    BY <1>1 DEF Tipato, RegoleRete, Risposta, Capi
  <2>2. chiuso' \in [Conn -> SUBSET Capi]
    <3>1. p \in Conn
      BY <1>1, Interlocutore DEF Conn
    <3>2. chiuso[p] \cup {"server"} \in SUBSET Capi
      BY <3>1 DEF Tipato, RegoleRete, Capi
    <3>. QED BY <1>1, <3>2 DEF Tipato, RegoleRete
  <2>. QED BY <1>1, <2>1, <2>2 DEF Tipato, RegoleRete
<1>5. su' \in [Conn -> Seq(VociSu)]
  <2>1. Tolto(su, p) \in [Conn -> Seq(VociSu)]
    BY FlussoTolto DEF Tipato
  <2>2. <<Scelta(b)>> \in Seq(VociSu)
    BY <1>2, VociScritte
  <2>. QED BY <1>1, <2>1, <2>2, FlussoMesso
<1>. QED BY <1>3, <1>4, <1>5

LEMMA TipatoVista ==
  ASSUME Intesa, Tipato, LeggiReq \/ LeggiNome
  PROVE  /\ ValoriG' /\ RegoleRete'
         /\ su' \in [Conn -> Seq(VociSu)] /\ giu' \in [Conn -> Seq(Vere)]
<1>. PICK p : p = Cliente(i)
  OBVIOUS
<1>1. \A n, esami : Elenco(n, esami) \in [Esame \X Data -> Nat]
  BY DEF Elenco, Tipato, TipoDB
<1>2. /\ pcG \in {"req", "nomeEsame"} /\ p = InCorso /\ su' = Tolto(su, p)
      /\ UNCHANGED <<varsGiro, behaviour, seg_cod, seg_mat, password, inserimenti, coda, chiuso>>
      /\ i' \in {i, i + 1}
  BY DEF LeggiReq, LeggiNome, InCorso, varsLette, varsAltriG
<1>3. /\ giu' = giu \/ \E r \in [Esame \X Data -> Nat] : giu' = Messo(giu, p, "server", <<Righe(r)>>)
      /\ rotto' = rotto \/ \E voci : rotto' = Risposta(p, "server", voci)
      /\ guasti' = guasti \/ \E quale : Guasto(quale)
  <2>1. \A r : RispondeRighe(p, r) =>
          /\ giu' = giu \/ giu' = Messo(giu, p, "server", <<Righe(r)>>)
          /\ rotto' = rotto \/ rotto' = Risposta(p, "server", <<Righe(r)>>)
          /\ guasti' = guasti \/ Guasto("query")
    BY <1>2 DEF RispondeRighe, Risponde, NessunGuasto
  <2>2. CASE LeggiReq
    BY <1>1, <2>1, <2>2 DEF LeggiReq
  <2>3. CASE LeggiNome
    BY <1>1, <2>1, <2>3 DEF LeggiNome
  <2>. QED BY <2>2, <2>3
<1>4. ValoriG'
  <2>1. req' \in Int0
    <3>1. pcG = "req" /\ su[p] # <<>> => Head(su[p]).val \in Int0
      BY <1>2, InterlocutoreLetto DEF Fermi
    <3>2. CASE LeggiReq
      BY <3>1, <3>2 DEF LeggiReq, Tipato, ValoriG
    <3>3. CASE LeggiNome
      BY <3>3 DEF LeggiNome, Tipato, ValoriG, varsLette
    <3>. QED BY <3>2, <3>3
  <2>2. i' <= DimArray + 1
    BY <1>2, Interlocutore, Costanti DEF Fermi, Slot
  <2>. QED BY <1>2, <2>1, <2>2 DEF Tipato, ValoriG, varsGiro
<1>5. RegoleRete'
  BY <1>2, <1>3, RegoleRisposte DEF Tipato, Capi
<1>6. su' \in [Conn -> Seq(VociSu)]
  BY <1>2, FlussoTolto DEF Tipato
<1>7. giu' \in [Conn -> Seq(Vere)]
  <2>1. \A r \in [Esame \X Data -> Nat] : <<Righe(r)>> \in Seq(Vere)
    BY UnaSola DEF Righe, Vere, VociGiu
  <2>2. giu \in [Conn -> Seq(Vere)]
    BY DEF Tipato
  <2>3. \A r \in [Esame \X Data -> Nat] : Messo(giu, p, "server", <<Righe(r)>>) \in [Conn -> Seq(Vere)]
    BY <2>1, <2>2, FlussoMesso
  <2>. QED BY <1>3, <2>2, <2>3
<1>. QED BY <1>4, <1>5, <1>6, <1>7

LEMMA TipatoDati ==
  ASSUME Intesa, Tipato, LeggiDati
  PROVE  ValoriG' /\ RegoleRete' /\ su' \in [Conn -> Seq(VociSu)]
<1>. PICK p, d : p = Cliente(i) /\ d = DatiLetti(p)
  OBVIOUS
<1>1. /\ pcG = "dati" /\ p = InCorso /\ su' = Messo(Tolto(su, p), Link, "client", <<d>>)
      /\ rotto' = Risposta(Link, "client", <<d>>) /\ seg_cod' = d.cod /\ seg_mat' = d.num
      /\ UNCHANGED <<i, varsGiro, behaviour, req, password, inserimenti, coda, chiuso, guasti>>
  BY DEF LeggiDati, InCorso, varsAltriG
<1>2. PICK n \in Numeri \cup {Residuo}, e \in Codici \cup {Residuo} : d = Dati(n, e)
  <2>1. CASE su[p] # <<>>
    BY <1>1, <2>1, InterlocutoreLetto DEF DatiLetti, Fermi
  <2>2. CASE su[p] = <<>>
    BY <2>2 DEF DatiLetti, Tipato, ValoriG
  <2>. QED BY <2>1, <2>2
<1>3. ValoriG'
  BY <1>1, <1>2 DEF Dati, Tipato, ValoriG, varsGiro
<1>4. RegoleRete'
  BY <1>1, RegoleScritte DEF Tipato, Capi
<1>5. su' \in [Conn -> Seq(VociSu)]
  <2>1. Tolto(su, p) \in [Conn -> Seq(VociSu)]
    BY FlussoTolto DEF Tipato
  <2>2. <<d>> \in Seq(VociSu)
    BY <1>2, VociScritte
  <2>. QED BY <1>1, <2>1, <2>2, FlussoMesso
<1>. QED BY <1>3, <1>4, <1>5

(* An answer is passed on as it is, or as an empty text.                   *)
LEMMA TipatoEsito ==
  ASSUME Intesa, Tipato, InoltraEsito
  PROVE  ValoriG' /\ RegoleRete' /\ giu' \in [Conn -> Seq(Vere)]
<1>. PICK p, x : p = Cliente(i) /\ x = IF giu[Link] # <<>> THEN Head(giu[Link])
                                      ELSE Esito("vuoto", seg_mat, seg_cod)
  OBVIOUS
<1>1. PICK k \in Presi(giu, Link) : giu' = Messo(Senza(giu, Link, k), p, "server", <<x>>)
  BY DEF InoltraEsito, Inoltrato
<1>2. /\ pcG = "esito" /\ i' = i + 1 /\ rotto' = Risposta(p, "server", <<x>>)
      /\ UNCHANGED <<varsGiro, varsLette, inserimenti, coda, chiuso, guasti>>
  BY DEF InoltraEsito, Inoltrato, varsAltriG
<1>3. x \in Vere
  <2>1. CASE giu[Link] # <<>>
    <3>1. giu[Link] \in Seq(Vere)
      BY DEF Tipato, Conn
    <3>. HIDE DEF Vere
    <3>. QED BY <2>1, <3>1
  <2>2. CASE giu[Link] = <<>>
    BY <2>2 DEF Esito, Vere, VociGiu, Tipato, ValoriG
  <2>. QED BY <2>1, <2>2
<1>4. ValoriG'
  <2>1. i + 1 <= DimArray + 1
    BY <1>2, Interlocutore, Costanti DEF Fermi, Slot
  <2>. QED BY <1>2, <2>1 DEF Tipato, ValoriG, varsGiro, varsLette
<1>5. RegoleRete'
  BY <1>2, RegoleScritte DEF Tipato, Capi
<1>6. giu' \in [Conn -> Seq(Vere)]
  <2>1. Senza(giu, Link, k) \in [Conn -> Seq(Vere)]
    BY FlussoSenza DEF Tipato
  <2>. QED BY <1>1, <1>3, <2>1, FlussoMesso, UnaSola
<1>. QED BY <1>4, <1>5, <1>6

LEMMA TipatoSegreteria == ASSUME Intesa, Tipato, PassoSegreteria(NextG) PROVE Tipato'
<1>1. /\ NextG /\ UNCHANGED <<varsS, varsU>>
      /\ su \in [Conn -> Seq(VociSu)] /\ giu \in [Conn -> Seq(Vere)]
  BY DEF PassoSegreteria, Tipato
<1>2. UNCHANGED <<appello, prenota>>
  BY <1>1 DEF NextG, ProgrammaG, Operatore, NuovoAppello, DigitaNomeAppello, DigitaData, Digita,
     EsitoInserimento, Accetta, AccettaFallita, Sfora, NessunaAttesa, Login, Salta, FineScorri, Continua,
     UccidiSegreteria, Termina, LeggiScelta, LeggiReq, LeggiNome, LeggiDati, InoltraEsito, varsAltriG
<1>3. CASE \/ Accetta \/ AccettaFallita \/ Sfora \/ NessunaAttesa \/ Salta \/ FineScorri \/ Continua
           \/ UccidiSegreteria \/ Termina
  <2>1. UNCHANGED <<su, giu>>
    BY <1>3 DEF Accetta, AccettaFallita, Sfora, NessunaAttesa, Salta, FineScorri, Continua,
                UccidiSegreteria, Termina, varsRete
  <2>2. ValoriG' /\ RegoleRete'
    BY <1>3, TipatoAccetta, TipatoGiro, TipatoTermina
  <2>. QED BY <1>1, <1>2, <2>1, <2>2, SegreteriaTipata
<1>4. CASE Operatore \/ NuovoAppello \/ EsitoInserimento
  BY <1>1, <1>2, <1>4, TipatoConsole, SegreteriaTipata
<1>5. CASE Login
  BY <1>1, <1>2, <1>5, TipatoLogin, SegreteriaTipata
<1>6. CASE LeggiReq \/ LeggiNome
  BY <1>1, <1>2, <1>6, TipatoVista, SegreteriaTipata
<1>7. CASE LeggiScelta \/ LeggiDati
  <2>1. giu' = giu
    BY <1>7 DEF LeggiScelta, LeggiDati
  <2>. QED BY <1>1, <1>2, <1>7, <2>1, TipatoScelta, TipatoDati, SegreteriaTipata
<1>8. CASE InoltraEsito
  <2>1. su' = su
    BY <1>8 DEF InoltraEsito
  <2>. QED BY <1>1, <1>2, <1>8, <2>1, TipatoEsito, SegreteriaTipata
<1>. QED BY <1>1, <1>3, <1>4, <1>5, <1>6, <1>7, <1>8 DEF NextG, ProgrammaG

LEMMA PassoTipato == Intesa /\ Tipato /\ [Next]_vars => Tipato'
<1>. SUFFICES ASSUME Intesa, Tipato, [Next]_vars PROVE Tipato'
  OBVIOUS
<1>1. CASE UNCHANGED vars
  BY <1>1 DEF vars, varsRete, varsDB, varsS, varsG, varsU, Tipato, RegoleRete, TipoDB, TipoStudente,
              ValoriG, ValoriU, Vere, Iscritta
<1>. QED BY <1>1, TipatoStudente, TipatoSegreteria, TipatoServer DEF Next, Intesa

(* The values together with the dialogues, for every value of the          *)
(* constants.                                                              *)
THEOREM InvarianteTipi == SpecBase => [](Intesa /\ Tipato)
<1>1. Init => Tipato
  BY InizioTipato
<1>. QED BY <1>1, PassoTipato, InvarianteDialogo, PTL DEF SpecBase

(* Every variable keeps to its values: a process that reads takes the item *)
(* it expects, whoever died or closed.                                     *)
THEOREM TipiSempreGiusti == SpecBase => []TypeOK
<1>1. Intesa /\ Tipato => TypeOK
  BY TipatoTypeOK
<1>. QED BY <1>1, InvarianteTipi, PTL

(* A confirmation on its way to a student, or delivered, is true: the row  *)
(* is in the table, whatever fails before or after.                        *)
THEOREM ConfermaSempreVera == SpecBase => []ConfermaRegistrata
<1>1. Intesa /\ Tipato => ConfermaRegistrata
  BY TipatoTypeOK
<1>. QED BY <1>1, InvarianteTipi, PTL

-----------------------------------------------------------------------------
(* A live entry holds the number of its own student; the entry of the next *)
(* login holds a number that was refused, with the password that was.      *)
Intestato(k) ==
  /\ client_sockets[k].matricola = mat[Cliente(k)]
  /\ \E m \in Matricola : m.num = client_sockets[k].matricola
  /\ pcS[Cliente(k)] \notin {"inizio", "login"}

Genuina ==
  /\ \A k \in Slot : Vivo(k) => Intestato(k)
  /\ \A k \in Slot : k > dim + 1 => client_sockets[k].matricola = Residuo
  /\ \A k \in Slot : k = dim + 1 /\ SegreteriaViva =>
       \/ client_sockets[k].matricola = Residuo
       \/ ~AccessoConsentito(client_sockets[k].matricola, password)

LEMMA InizioGenuina == ASSUME Init PROVE Genuina
  BY DEF Init, InitG, Genuina, Vivo, Slot

LEMMA GenuinaFerma ==
  ASSUME Genuina, UNCHANGED <<dim, password, mat, pcS>>, SegreteriaViva' => SegreteriaViva,
         \A k \in Slot : k > dim => client_sockets'[k].matricola = client_sockets[k].matricola,
         \A k \in Slot : Vivo(k)' =>
           /\ Vivo(k) /\ Cliente(k)' = Cliente(k)
           /\ client_sockets'[k].matricola = client_sockets[k].matricola,
         dim \in Nat
  PROVE  Genuina'
<1>1. ASSUME NEW k \in Slot, Vivo(k)' PROVE Intestato(k)'
  BY <1>1 DEF Genuina, Intestato
<1>2. ASSUME NEW k \in Slot, k > dim' + 1 PROVE client_sockets'[k].matricola = Residuo
  BY <1>2 DEF Genuina, Slot
<1>3. ASSUME NEW k \in Slot, k = dim' + 1, SegreteriaViva'
      PROVE  \/ client_sockets'[k].matricola = Residuo
             \/ ~AccessoConsentito(client_sockets'[k].matricola, password')
  <2>1. client_sockets'[k].matricola = client_sockets[k].matricola /\ k = dim + 1
    BY <1>3
  <2>. QED BY <1>3, <2>1 DEF Genuina
<1>. QED BY <1>1, <1>2, <1>3 DEF Genuina, AccessoConsentito

(* Only who is at the prompt of the login changes his number.              *)
LEMMA GenuinaStudente == ASSUME Intesa, Genuina, PassoStudente(NextS) PROVE Genuina'
<1>1. PICK p \in Proc :
        \/ Utente(p) \/ Programma(p)
        \/ \E k \in Scelte : Scegli(p, k)
        \/ UccidiStudente(p)
  BY DEF PassoStudente, NextS
<1>2. UNCHANGED varsG
  BY DEF PassoStudente
<1>3. ASSUME NEW q \in Proc, pcS[q] \notin {"inizio", "login"}
      PROVE  mat'[q] = mat[q] /\ pcS'[q] \notin {"inizio", "login"}
  <2>1. pcS \in [Proc -> StatiS] /\ DOMAIN mat = Proc
    BY DEF Intesa, IInv, Tipi, Dialogo
  <2>2. CASE \E n \in Numeri, w \in Password : InviaCredenziali(p, n, w)
    BY <1>3, <2>1, <2>2 DEF InviaCredenziali, Scrive, Vai
  <2>3. CASE Connetti(p)
    BY <1>3, <2>1, <2>3 DEF Connetti, Vai
  <2>4. CASE /\ Utente(p) \/ (\E k \in Scelte : Scegli(p, k))
             /\ ~\E n \in Numeri, w \in Password : InviaCredenziali(p, n, w)
    BY <1>3, <2>1, <2>4 DEF Utente, ScegliReq, DigitaNome, DigitaCod, Scegli, Scrive, Vai
  <2>5. CASE UccidiStudente(p) \/ (Programma(p) /\ ~Connetti(p))
    BY <1>3, <2>1, <2>5 DEF Programma, EsitoLogin, RiceviRighe, RiceviEsito, Esci, Legge, UccidiStudente, Vai
  <2>. QED BY <1>1, <2>2, <2>3, <2>4, <2>5
<1>4. ASSUME NEW k \in Slot, Vivo(k)' PROVE Intestato(k)'
  <2>1. Vivo(k) /\ Cliente(k)' = Cliente(k) /\ client_sockets' = client_sockets
    BY <1>2, <1>4 DEF varsG, Vivo, Cliente
  <2>2. Cliente(k) \in Proc
    BY <2>1, ClienteVivo DEF Vivo, Intesa
  <2>3. Intestato(k)
    BY <2>1 DEF Genuina
  <2>. QED BY <1>3, <2>1, <2>2, <2>3 DEF Intestato
<1>. QED BY <1>2, <1>4 DEF Genuina, varsG, SegreteriaViva, AccessoConsentito

(* The accepted number is the one the student typed: what he sends is all  *)
(* there is, and who sent nothing is only accepted when the number that    *)
(* happened to be in the entry is also the one he never typed.             *)
LEMMA LoginGenuino ==
  ASSUME Intesa, Genuina, pcG = "credenziali", NEW p, p = InCorso, Pronto(p, "server"),
         NEW n, NEW w, n = CredenzialiLette(p).num, w = CredenzialiLette(p).pass, AccessoConsentito(n, w)
  PROVE  n = mat[p] /\ (\E m \in Matricola : m.num = n) /\ pcS[p] \notin {"inizio", "login"}
<1>1. p \in Proc /\ InFd(p) /\ SegreteriaViva /\ Turno(p) = "credenziali" /\ dim + 1 \in Slot
  BY Interlocutore
<1>2. \E m \in Matricola : m.num = n
  <2>. DEFINE chi == {m \in Matricola : m.num = n /\ studente[m].password = w}
  <2>1. Cardinality(chi) = 1
    BY DEF AccessoConsentito
  <2>2. chi # {}
    <3>. HIDE DEF chi
    <3>. QED BY <2>1, FS_EmptySet
  <2>. QED BY <2>2
<1>3. InDialogo(p) /\ Colloquio(p) /\ pcS[p] # "inizio"
  BY <1>1 DEF Intesa, Posto, Aperta, InDialogo, Dialogo
<1>4. Accordo(p) /\ Ultimo(p) /\ Sequenza(su[p])
  BY <1>3 DEF Colloquio
<1>5. CASE su[p] # <<>>
  <2>1. /\ Head(su[p]).tipo = "credenziali"
        /\ Seguito(Head(su[p])) \notin TipiStudente => Tail(su[p]) = <<>>
        /\ Tail(su[p]) = <<>> => Head(su[p]) = su[p][Len(su[p])]
        /\ Poi(Tail(su[p]), Seguito(Head(su[p]))) = Poi(su[p], Turno(p))
    BY <1>1, <1>4, <1>5, CatenaLetta DEF Accordo
  <2>2. Seguito(Head(su[p])) = "accesso" /\ "accesso" \notin TipiStudente
    BY <2>1 DEF Seguito, TipiStudente
  <2>3. Head(su[p]).num = mat[p]
    BY <1>4, <1>5, <2>1, <2>2 DEF Ultimo
  <2>4. Poi(su[p], Turno(p)) = "accesso"
    BY <2>1, <2>2, CatenaVuota
  <2>5. pcS[p] # "login"
    BY <1>4, <2>4 DEF Accordo, Invia
  <2>. QED BY <1>2, <1>3, <1>5, <2>3, <2>5 DEF CredenzialiLette
<1>6. CASE su[p] = <<>>
  <2>1. mat[p] = Residuo
    BY <1>1, <1>4, <1>6 DEF Ultimo
  <2>2. pcS[p] = "finito"
    BY <1>3, <1>6 DEF Pronto, Arrivo, Chiusa, Altro, Colloquio, Chiusura
  <2>3. n = client_sockets[dim + 1].matricola /\ w = password
    BY <1>6 DEF CredenzialiLette, Credenziali
  <2>4. n = Residuo
    BY <1>1, <2>3 DEF Genuina
  <2>. QED BY <1>2, <2>1, <2>2, <2>4
<1>. QED BY <1>5, <1>6

LEMMA GenuinaLogin ==
  ASSUME Intesa, Tipato, Genuina, Login, UNCHANGED varsS
  PROVE  Genuina'
<1>. PICK p : p = InCorso
  OBVIOUS
<1>. PICK n, w : n = CredenzialiLette(p).num /\ w = CredenzialiLette(p).pass
  OBVIOUS
<1>1. /\ pcG = "credenziali" /\ Pronto(p, "server") /\ password' = w
      /\ client_sockets' = [client_sockets EXCEPT ![dim + 1].matricola = n]
      /\ \/ AccessoConsentito(n, w) /\ dim' = dim + 1
         \/ ~AccessoConsentito(n, w) /\ dim' = dim
         \/ pcG' = "uscita" /\ dim' = dim
      /\ UNCHANGED <<fdConn, mat, pcS>>
  BY DEF Login, DopoAccesso, varsS
<1>2. /\ dim + 1 \in Slot /\ dim \in Nat /\ pcG # "finita" /\ p = Cliente(dim + 1)
      /\ client_sockets'[dim + 1].matricola = n
      /\ \A k \in Slot : client_sockets'[k].connfd = client_sockets[k].connfd
      /\ \A k \in Slot : k # dim + 1 => client_sockets'[k] = client_sockets[k]
  <2>1. dim + 1 \in Slot
    BY <1>1, Interlocutore
  <2>. QED BY <1>1, <2>1 DEF InCorso, Intesa, IInv, Tipi, Tipato, ValoriG
<1>3. AccessoConsentito(n, w) => n = mat[p] /\ (\E m \in Matricola : m.num = n)
                                 /\ pcS[p] \notin {"inizio", "login"}
  BY <1>1, LoginGenuino
<1>4. \A k \in Slot : Cliente(k)' = Cliente(k)
  BY <1>1, <1>2 DEF Cliente
<1>5. ASSUME NEW k \in Slot, Vivo(k)' PROVE Intestato(k)'
  <2>1. CASE k = dim + 1
    <3>1. AccessoConsentito(n, w)
      BY <1>1, <1>2, <1>5, <2>1 DEF Vivo
    <3>. QED BY <1>1, <1>2, <1>3, <1>4, <2>1, <3>1 DEF Intestato
  <2>2. CASE k # dim + 1
    <3>1. Vivo(k)
      BY <1>1, <1>2, <1>5, <2>2 DEF Vivo, Slot
    <3>2. Intestato(k)
      BY <3>1 DEF Genuina
    <3>. QED BY <1>1, <1>2, <1>4, <2>2, <3>2 DEF Intestato
  <2>. QED BY <2>1, <2>2
<1>6. ASSUME NEW k \in Slot, k > dim + 1 PROVE client_sockets'[k].matricola = Residuo
  <2>1. k # dim + 1
    BY <1>2, <1>6 DEF Slot
  <2>2. client_sockets'[k] = client_sockets[k]
    BY <1>2, <2>1
  <2>. QED BY <1>6, <2>2 DEF Genuina
<1>7. ASSUME NEW k \in Slot, k > dim' + 1 PROVE client_sockets'[k].matricola = Residuo
  <2>1. k > dim + 1
    BY <1>1, <1>2, <1>7 DEF Slot
  <2>. QED BY <1>6, <2>1
<1>8. ASSUME NEW k \in Slot, k = dim' + 1, SegreteriaViva'
      PROVE  \/ client_sockets'[k].matricola = Residuo
             \/ ~AccessoConsentito(client_sockets'[k].matricola, password')
  <2>1. CASE dim' = dim
    BY <1>1, <1>2, <1>8, <2>1 DEF SegreteriaViva
  <2>2. CASE dim' = dim + 1
    <3>1. k > dim + 1
      BY <1>2, <1>8, <2>2
    <3>. QED BY <1>6, <3>1
  <2>. QED BY <1>1, <2>1, <2>2
<1>. QED BY <1>5, <1>7, <1>8 DEF Genuina, AccessoConsentito

(* A logout takes its own entry away and no other.                         *)
LEMMA GenuinaScelta ==
  ASSUME Intesa, Tipato, Genuina, LeggiScelta, UNCHANGED varsS PROVE Genuina'
<1>1. /\ pcG = "scorri" /\ i <= dim /\ i \in Slot /\ client_sockets[i].connfd # -1
      /\ UNCHANGED <<dim, password, mat, pcS>> /\ dim \in Nat /\ SegreteriaViva
      /\ \/ UNCHANGED <<client_sockets, fdConn>>
         \/ /\ client_sockets' = [client_sockets EXCEPT ![i] = Sloggata(i)]
            /\ fdConn' = [fdConn EXCEPT ![client_sockets[i].connfd] = Nessuno]
  <2>1. i \in Slot /\ dim \in Nat
    BY Costanti DEF LeggiScelta, Intesa, IInv, Tipi, Slot
  <2>. QED BY <2>1 DEF LeggiScelta, DaServire, varsS, SegreteriaViva
<1>2. CASE UNCHANGED <<client_sockets, fdConn>>
  <2>1. \A k \in Slot : Vivo(k)' => Vivo(k) /\ Cliente(k)' = Cliente(k)
    BY <1>1, <1>2 DEF Vivo, Cliente
  <2>. QED BY <1>1, <1>2, <2>1, GenuinaFerma
<1>3. CASE /\ client_sockets' = [client_sockets EXCEPT ![i] = Sloggata(i)]
           /\ fdConn' = [fdConn EXCEPT ![client_sockets[i].connfd] = Nessuno]
  <2>1. /\ client_sockets'[i].connfd = -1
        /\ \A k \in Slot : k # i => client_sockets'[k] = client_sockets[k]
    <3>1. client_sockets \in [Slot -> [connfd : Fd \cup {-1}, matricola : Numeri \cup {0, Residuo}]]
      BY DEF Tipato, ValoriG
    <3>. QED BY <1>1, <1>3, <3>1 DEF Sloggata
  <2>2. ASSUME NEW k \in Slot, Vivo(k)'
        PROVE  /\ Vivo(k) /\ Cliente(k)' = Cliente(k)
               /\ client_sockets'[k].matricola = client_sockets[k].matricola
    <3>1. k # i /\ client_sockets'[k] = client_sockets[k] /\ Vivo(k) /\ k <= dim
      BY <1>1, <2>1, <2>2 DEF Vivo
    <3>2. client_sockets[k].connfd # client_sockets[i].connfd /\ client_sockets[k].connfd \in Fd
      BY <1>1, <3>1 DEF Vivo, Intesa, IInv, Tipi, Tabella
    <3>3. Cliente(k)' = Cliente(k)
      BY <1>3, <3>1, <3>2 DEF Cliente, Intesa, IInv, Tipi
    <3>. QED BY <3>1, <3>3
  <2>3. \A k \in Slot : k > dim => client_sockets'[k].matricola = client_sockets[k].matricola
    <3>1. \A k \in Slot : k > dim => k # i
      BY <1>1 DEF Slot
    <3>. QED BY <2>1, <3>1
  <2>. QED BY <1>1, <2>2, <2>3, GenuinaFerma
<1>. QED BY <1>1, <1>2, <1>3

(* An accept fills the entry of the next login.                            *)
LEMMA GenuinaAccetta ==
  ASSUME Intesa, Tipato, Genuina, Accetta \/ AccettaFallita, UNCHANGED varsS PROVE Genuina'
<1>1. PICK f : /\ client_sockets' = [client_sockets EXCEPT ![dim + 1].connfd = f]
               /\ \/ fdConn' = fdConn
                  \/ f \in Fd /\ fdConn[f] = Nessuno /\ fdConn' = [fdConn EXCEPT ![f] = Head(coda)]
  BY DEF Accetta, AccettaFallita, Libero
<1>2. /\ UNCHANGED <<dim, password, mat, pcS>> /\ dim \in Nat /\ SegreteriaViva /\ pcG # "finita"
  BY DEF Accetta, AccettaFallita, varsLette, varsS, SegreteriaViva, Intesa, IInv, Tipi
<1>3. /\ \A k \in Slot : client_sockets'[k].matricola = client_sockets[k].matricola
      /\ \A k \in Slot : k # dim + 1 => client_sockets'[k] = client_sockets[k]
  <2>1. client_sockets \in [Slot -> [connfd : Fd \cup {-1}, matricola : Numeri \cup {0, Residuo}]]
    BY DEF Tipato, ValoriG
  <2>. QED BY <1>1, <2>1
<1>4. ASSUME NEW k \in Slot, Vivo(k)'
      PROVE  Vivo(k) /\ Cliente(k)' = Cliente(k)
  <2>1. k # dim + 1 /\ client_sockets'[k] = client_sockets[k] /\ k <= dim
    BY <1>2, <1>3, <1>4 DEF Vivo, Slot
  <2>2. Vivo(k)
    BY <1>2, <1>4, <2>1 DEF Vivo
  <2>3. fdConn[client_sockets[k].connfd] \in Proc
    BY <1>2, <2>1, <2>2 DEF Vivo, Intesa, IInv, Tabella, Aperto
  <2>4. Cliente(k)' = Cliente(k)
    <3>1. client_sockets[k].connfd \in Fd /\ DOMAIN fdConn = Fd
      BY <1>2, <2>2 DEF Vivo, Intesa, IInv, Tipi
    <3>2. fdConn[f] = Nessuno => client_sockets[k].connfd # f
      BY <2>3, Costanti DEF Nessuno
    <3>3. fdConn'[client_sockets[k].connfd] = fdConn[client_sockets[k].connfd]
      BY <1>1, <3>1, <3>2
    <3>. QED BY <2>1, <3>3 DEF Cliente
  <2>. QED BY <2>2, <2>4
<1>. QED BY <1>2, <1>3, <1>4, GenuinaFerma

LEMMA GenuinaSegreteria ==
  ASSUME Intesa, Tipato, Genuina, PassoSegreteria(NextG) PROVE Genuina'
<1>1. NextG /\ UNCHANGED varsS /\ dim \in Nat
  BY DEF PassoSegreteria, Intesa, IInv, Tipi
<1>2. CASE ~(Accetta \/ AccettaFallita \/ Login \/ LeggiScelta \/ Termina)
  <2>1. UNCHANGED <<dim, password, client_sockets, fdConn>> /\ SegreteriaViva /\ pcG # "finita"
    <3>1. CASE Operatore \/ NuovoAppello \/ EsitoInserimento \/ Continua \/ UccidiSegreteria
      BY <3>1 DEF Operatore, NuovoAppello, EsitoInserimento, DigitaNomeAppello, DigitaData, Digita, Continua,
                  UccidiSegreteria, varsGiro, varsLette, SegreteriaViva
    <3>2. CASE Sfora \/ NessunaAttesa \/ Salta \/ FineScorri
      BY <3>2 DEF Sfora, NessunaAttesa, Salta, FineScorri, varsGiro, varsLette, SegreteriaViva
    <3>3. CASE LeggiReq \/ LeggiNome \/ LeggiDati \/ InoltraEsito
      BY <3>3 DEF LeggiReq, LeggiNome, LeggiDati, InoltraEsito, varsGiro, varsLette, SegreteriaViva
    <3>. QED BY <1>1, <1>2, <3>1, <3>2, <3>3 DEF NextG, ProgrammaG
  <2>2. \A k \in Slot : Vivo(k)' => Vivo(k) /\ Cliente(k)' = Cliente(k)
    BY <2>1 DEF Vivo, Cliente
  <2>. QED BY <1>1, <2>1, <2>2, GenuinaFerma DEF varsS
<1>3. CASE Termina
  <2>1. pcG' = "finita" /\ UNCHANGED <<dim, password, client_sockets>>
    BY <1>3 DEF Termina, varsLette
  <2>2. (\A k \in Slot : ~Vivo(k)') /\ ~SegreteriaViva'
    BY <2>1 DEF Vivo, SegreteriaViva
  <2>. QED BY <1>1, <2>1, <2>2, GenuinaFerma DEF varsS
<1>. QED BY <1>1, <1>2, <1>3, GenuinaAccetta, GenuinaLogin, GenuinaScelta

(* Every login that lasts belongs to the student who typed that number, of *)
(* a studente of the database, whoever else went away, was refused or was  *)
(* accepted on what was left in the buffers.                               *)
THEOREM SessioneSempreGenuina == SpecBase => []SessioneGenuina
<1>1. Init => Genuina
  BY InizioGenuina
<1>2. Intesa /\ Tipato /\ Genuina /\ [Next]_vars => Genuina'
  <2>. SUFFICES ASSUME Intesa, Tipato, Genuina, [Next]_vars PROVE Genuina'
    OBVIOUS
  <2>1. CASE UNCHANGED vars \/ PassoServer(NextU)
    <3>1. UNCHANGED <<varsS, varsG>>
      BY <2>1 DEF vars, PassoServer
    <3>2. \A k \in Slot : Vivo(k)' => Vivo(k) /\ Cliente(k)' = Cliente(k)
      BY <3>1 DEF varsG, Vivo, Cliente
    <3>. QED BY <3>1, <3>2, GenuinaFerma DEF varsS, varsG, SegreteriaViva, Intesa, IInv, Tipi
  <2>. QED BY <2>1, GenuinaStudente, GenuinaSegreteria DEF Next
<1>3. Genuina => SessioneGenuina
  BY DEF Genuina, Intestato, SessioneGenuina
<1>. QED BY <1>1, <1>2, <1>3, InvarianteTipi, PTL DEF SpecBase

-----------------------------------------------------------------------------
(* The choice 3 is of a student who then left, and so is the end of his    *)
(* stream: the logout that an older choice is taken for hits nobody else.  *)
LEMMA LogoutProprio ==
  ASSUME Intesa, LeggiScelta, client_sockets' # client_sockets
  PROVE  pcS[Cliente(i)] \in {"uscita", "finito"}
<1>. PICK p : p = Cliente(i)
  OBVIOUS
<1>1. /\ pcG = "scorri" /\ i <= dim /\ DaServire(i) /\ Pronto(p, "server") /\ i \in Slot
      /\ su[p] # <<>> => Head(su[p]).val = 3
  BY Costanti DEF LeggiScelta, Intesa, IInv, Tipi, Slot
<1>2. p \in Proc /\ InTabella(p) /\ pcS[p] # "inizio" /\ ~InCoda(p)
  BY <1>1, ClienteVivo DEF DaServire, Intesa
<1>3. Turno(p) = "scelta" /\ SegreteriaViva
  BY <1>1, <1>2 DEF Turno, AllAccesso, Fermi, SegreteriaViva
<1>4. InFd(p)
  BY <1>1, <1>2 DEF InFd, DaServire, Cliente, Intesa, IInv, Tipi
<1>5. InDialogo(p) /\ Colloquio(p) /\ pcS[p] \in StatiS
  BY <1>2, <1>3, <1>4 DEF Intesa, Posto, Aperta, InDialogo, Dialogo, IInv, Tipi
<1>6. CASE su[p] = <<>>
  BY <1>1, <1>5, <1>6 DEF Pronto, Arrivo, Chiusa, Altro, Colloquio, Chiusura
<1>7. CASE su[p] # <<>>
  <2>1. Accordo(p) /\ Sequenza(su[p])
    BY <1>5 DEF Colloquio
  <2>2. /\ Head(su[p]).tipo = "scelta"
        /\ Seguito(Head(su[p])) \notin TipiStudente => Tail(su[p]) = <<>>
        /\ Poi(Tail(su[p]), Seguito(Head(su[p]))) = Poi(su[p], Turno(p))
    BY <1>3, <1>7, <2>1, CatenaLetta DEF Accordo
  <2>3. Seguito(Head(su[p])) = "fine" /\ "fine" \notin TipiStudente
    BY <1>1, <1>7, <2>2 DEF Seguito, TipiStudente
  <2>4. Poi(su[p], Turno(p)) = "fine"
    BY <2>2, <2>3, CatenaVuota
  <2>5. pcS[p] \notin DOMAIN Invia
    BY <2>1, <2>4 DEF Accordo, Invia
  <2>6. pcS[p] \notin Attese
    BY <1>7, <2>1, <2>4 DEF Accordo, DaServireAncora, Servito, Attese, Aspetta
  <2>. QED BY <1>2, <1>5, <2>5, <2>6 DEF StatiS, Attese, Invia
<1>. QED BY <1>6, <1>7

(* A step that takes an entry away, or changes it, is its own logout.      *)
LEMMA EntrataResta ==
  ASSUME Intesa, Tipato, [Next]_vars, NEW k \in Slot, Vivo(k),
         ~Vivo(k)' \/ client_sockets'[k] # client_sockets[k]
  PROVE  pcG' = "finita" \/ pcS[Cliente(k)] \in {"uscita", "finito"}
<1>1. /\ dim \in Nat /\ k <= dim /\ pcG # "finita" /\ client_sockets[k].connfd # -1
      /\ client_sockets \in [Slot -> [connfd : Fd \cup {-1}, matricola : Numeri \cup {0, Residuo}]]
  BY DEF Vivo, Intesa, IInv, Tipi, Tipato, ValoriG
<1>2. CASE UNCHANGED <<pcG, dim, client_sockets>>
  BY <1>2 DEF Vivo
<1>3. CASE ~UNCHANGED varsG
  <2>1. PassoSegreteria(NextG)
    BY <1>3 DEF Next, PassoStudente, PassoServer, vars
  <2>2. CASE Login
    <3>1. /\ \E n : client_sockets' = [client_sockets EXCEPT ![dim + 1].matricola = n]
          /\ dim' \in {dim, dim + 1} /\ pcG' # "finita"
      BY <2>2 DEF Login, DopoAccesso, Dopo
    <3>2. k # dim + 1 /\ k <= dim'
      BY <1>1, <3>1 DEF Slot
    <3>. QED BY <1>1, <3>1, <3>2 DEF Vivo, Slot
  <2>3. CASE Accetta \/ AccettaFallita
    <3>1. /\ \E f : client_sockets' = [client_sockets EXCEPT ![dim + 1].connfd = f]
          /\ dim' = dim /\ pcG' # "finita"
      BY <2>3 DEF Accetta, AccettaFallita
    <3>2. k # dim + 1
      BY <1>1 DEF Slot
    <3>. QED BY <1>1, <3>1, <3>2 DEF Vivo
  <2>4. CASE LeggiScelta
    <3>1. /\ \/ client_sockets' = client_sockets
             \/ client_sockets' = [client_sockets EXCEPT ![i] = Sloggata(i)]
          /\ dim' = dim /\ pcG' # "finita"
      BY <2>4 DEF LeggiScelta, Dopo
    <3>2. client_sockets'[k] # client_sockets[k]
      BY <1>1, <3>1 DEF Vivo
    <3>3. k = i
      BY <1>1, <3>1, <3>2
    <3>. QED BY <2>4, <3>2, <3>3, LogoutProprio
  <2>5. CASE ~(Login \/ Accetta \/ AccettaFallita \/ LeggiScelta)
    <3>1. UNCHANGED <<dim, client_sockets>>
      <4>1. CASE Operatore \/ NuovoAppello \/ EsitoInserimento \/ Continua \/ UccidiSegreteria \/ Termina
        BY <4>1 DEF Operatore, NuovoAppello, EsitoInserimento, DigitaNomeAppello, DigitaData, Digita,
                    Continua, UccidiSegreteria, Termina, varsGiro
      <4>2. CASE Sfora \/ NessunaAttesa \/ Salta \/ FineScorri
        BY <4>2 DEF Sfora, NessunaAttesa, Salta, FineScorri, varsGiro
      <4>3. CASE LeggiReq \/ LeggiNome \/ LeggiDati \/ InoltraEsito
        BY <4>3 DEF LeggiReq, LeggiNome, LeggiDati, InoltraEsito, varsGiro
      <4>. QED BY <2>1, <2>5, <4>1, <4>2, <4>3 DEF PassoSegreteria, NextG, ProgrammaG
    <3>. QED BY <1>1, <3>1 DEF Vivo
  <2>. QED BY <2>2, <2>3, <2>4, <2>5
<1>. QED BY <1>2, <1>3 DEF varsG

(* A login lasts until its own student logs out or goes away: no refusal,  *)
(* logout or death of another ends it, nor a choice that a read left from  *)
(* another student.                                                        *)
THEOREM SessioneMaiTolta == SpecBase => SessioneConclusa
<1>1. Intesa /\ Tipato /\ [Next]_vars =>
        [\A k \in Slot : Vivo(k) /\ (~Vivo(k)' \/ client_sockets'[k] # client_sockets[k]) =>
           pcG' = "finita" \/ pcS[Cliente(k)] \in {"uscita", "finito"}]_vars
  BY EntrataResta
<1>. QED BY <1>1, InvarianteTipi, PTL DEF SpecBase, SessioneConclusa
=============================================================================
