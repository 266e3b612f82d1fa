--------------------------- MODULE LetturaProofs ---------------------------
(***************************************************************************)
(* Proof that the loop over the clients reads a choice only where there is *)
(* something to read, for any number of students, descriptors and entries: *)
(* what select found stays readable while connections are accepted,        *)
(* refused, served and closed, because nobody else reads it.               *)
(***************************************************************************)
EXTENDS SistemaProofs

(* Blocked with the request of entry i half read.                          *)
Fermi == {"req", "nomeEsame", "dati", "esito"}

(* The entries whose choice is still to be read in this turn.              *)
DaLeggere(k) ==
  \/ pcG = "scorri" /\ k >= i
  \/ pcG \in Fermi /\ k > i

Leggibile ==
  \A k \in Slot : k <= dim /\ DaServire(k) /\ DaLeggere(k) => Pronto(Cliente(k), "server")

ServitoVivo == pcG \in Fermi => i <= dim /\ client_sockets[i].connfd # -1

Flussi ==
  /\ DOMAIN su = Conn /\ DOMAIN chiuso = Conn
  /\ \E S : \A c \in Proc : su[c] \in Seq(S)

Lettura == Flussi /\ ServitoVivo /\ Leggibile

LEMMA InizioLettura == ASSUME Init PROVE Lettura
<1>1. Flussi
  <2>1. \A c \in Proc : su[c] \in Seq({})
    BY DEF Init, InitR, Conn
  <2>. QED BY <2>1 DEF Flussi, Init, InitR
<1>2. ServitoVivo /\ Leggibile
  BY DEF Init, InitG, ServitoVivo, Leggibile, DaLeggere, Fermi
<1>. QED BY <1>1, <1>2 DEF Lettura

-----------------------------------------------------------------------------
(* What is written or closed makes nothing unreadable.                     *)
Cresce(c) == Pronto(c, "server") => Pronto(c, "server")'

LEMMA ProntoResta ==
  ASSUME NEW c, su[c] # <<>> => su'[c] # <<>>,
         "client" \in chiuso[c] => "client" \in chiuso'[c]
  PROVE  Cresce(c)
  BY DEF Cresce, Pronto, Arrivo, Chiusa, Altro

LEMMA FlussiScritti ==
  ASSUME Flussi, NEW p \in Proc, NEW x, NEW voci \in {<<x>>, <<>>},
         su' = Messo(su, p, "client", voci), chiuso' = chiuso
  PROVE  Flussi' /\ \A c \in Proc : Cresce(c)
<1>1. PICK S : \A c \in Proc : su[c] \in Seq(S)
  BY DEF Flussi
<1>. DEFINE T == S \cup {x}
<1>2. \A c \in Proc : su[c] \in Seq(T)
  BY <1>1
<1>3. voci \in Seq(T)
  <2>1. CASE voci = <<x>>
    BY <2>1
  <2>2. CASE voci = <<>>
    BY <2>2
  <2>. QED BY <2>1, <2>2
<1>4. /\ DOMAIN su' = Conn /\ p \in Conn
      /\ su'[p] = IF Chiusa(p, "client") THEN su[p] ELSE su[p] \o voci
      /\ \A c \in Conn : c # p => su'[c] = su[c]
  BY DEF Messo, Flussi, Conn
<1>5. su[p] \o voci \in Seq(T) /\ (su[p] # <<>> => su[p] \o voci # <<>>)
  <2>. HIDE DEF T
  <2>. QED BY <1>2, <1>3
<1>6. \A c \in Proc : su'[c] \in Seq(T)
  <2>. HIDE DEF T
  <2>. QED BY <1>2, <1>4, <1>5 DEF Conn
<1>7. \A c \in Proc : Cresce(c)
  BY <1>4, <1>5, ProntoResta DEF Conn
<1>. QED BY <1>4, <1>6, <1>7 DEF Flussi

(* A step that leaves the segreteria alone.                                *)
LEMMA LetturaFerma ==
  ASSUME IInv, Lettura, Flussi', UNCHANGED varsG, \A c \in Proc : Cresce(c)
  PROVE  Lettura'
<1>1. ServitoVivo'
  BY DEF Lettura, ServitoVivo, varsG
<1>2. ASSUME NEW k \in Slot, (k <= dim /\ DaServire(k) /\ DaLeggere(k))'
      PROVE  Pronto(Cliente(k), "server")'
  <2>1. k <= dim /\ DaServire(k) /\ DaLeggere(k) /\ Cliente(k)' = Cliente(k)
    BY <1>2 DEF varsG, DaServire, DaLeggere, Cliente
  <2>2. Cliente(k) \in Proc
    BY <2>1 DEF IInv, Tabella, Aperto, Cliente, DaServire, DaLeggere, Fermi
  <2>3. Pronto(Cliente(k), "server")
    BY <2>1 DEF Lettura, Leggibile
  <2>. QED BY <2>1, <2>2, <2>3 DEF Cresce, Pronto, Arrivo, Chiusa
<1>. QED BY <1>1, <1>2 DEF Lettura, Leggibile

LEMMA LetturaStudente == ASSUME IInv, Lettura, PassoStudente(NextS) PROVE Lettura'
<1>1. PICK p \in Proc :
        \/ Utente(p) \/ Programma(p)
        \/ \E k \in Scelte : Scegli(p, k)
        \/ UccidiStudente(p)
  BY DEF PassoStudente, NextS
<1>2. UNCHANGED varsG
  BY DEF PassoStudente
<1>3. CASE \E x, voci : voci \in {<<x>>, <<>>} /\ su' = Messo(su, p, "client", voci) /\ chiuso' = chiuso
  BY <1>2, <1>3, FlussiScritti, LetturaFerma DEF Lettura
<1>4. CASE UNCHANGED <<su, chiuso>>
  <2>1. Flussi' /\ \A c \in Proc : Cresce(c)
    BY <1>4, ProntoResta DEF Lettura, Flussi
  <2>. QED BY <1>2, <2>1, LetturaFerma
<1>5. CASE Esci(p)
  <2>1. su' = su /\ chiuso' = [c \in Conn |-> IF c \in {p} THEN chiuso[c] \cup {"client"} ELSE chiuso[c]]
    BY <1>5 DEF Esci, Chiudi
  <2>2. Flussi' /\ \A c \in Proc : Cresce(c)
    BY <2>1, ProntoResta DEF Lettura, Flussi, Conn
  <2>. QED BY <1>2, <2>2, LetturaFerma
<1>6. ASSUME Utente(p) \/ \E k \in Scelte : Scegli(p, k)
      PROVE  \E x, voci : voci \in {<<x>>, <<>>} /\ su' = Messo(su, p, "client", voci) /\ chiuso' = chiuso
  BY <1>6 DEF Utente, InviaCredenziali, ScegliReq, DigitaNome, DigitaCod, Scegli, Scrive
<1>7. ASSUME Programma(p) \/ UccidiStudente(p), ~Esci(p) PROVE UNCHANGED <<su, chiuso>>
  BY <1>7 DEF Programma, Connetti, EsitoLogin, RiceviRighe, RiceviEsito, Legge, UccidiStudente
<1>. QED BY <1>1, <1>3, <1>4, <1>5, <1>6, <1>7

(* The server reads and closes its own connection only.                    *)
LEMMA LetturaServer == ASSUME IInv, Lettura, PassoServer(NextU) PROVE Lettura'
<1>1. /\ su' = su \/ su' = Tolto(su, Link) \/ \E k \in Presi(su, Link) : su' = Senza(su, Link, k)
      /\ chiuso' = chiuso \/ Chiudi({Link}, "server")
      /\ UNCHANGED varsG
  BY DEF PassoServer, NextU, ProgrammaU, AccettaSegreteria, LeggiRichiesta, LeggiNomeEsame,
         AggiungiAppello, AggiungiPrenotazione, UccidiServer, TerminaServer, varsRete
<1>2. DOMAIN su' = Conn /\ \A c \in Proc : su'[c] = su[c]
  BY <1>1, Costanti DEF Lettura, Flussi, Tolto, Senza, Conn
<1>3. DOMAIN chiuso' = Conn /\ \A c \in Proc : chiuso[c] = chiuso'[c]
  BY <1>1, Costanti DEF Lettura, Flussi, Chiudi, Conn
<1>4. Flussi' /\ \A c \in Proc : Cresce(c)
  BY <1>2, <1>3, ProntoResta DEF Lettura, Flussi
<1>. QED BY <1>1, <1>4, LetturaFerma

-----------------------------------------------------------------------------
(* A step of the segreteria reads at most the connection of one student.   *)
LEMMA FlussiLetti ==
  ASSUME Flussi, NEW p \in Proc, chiuso' = chiuso,
         \/ su' = su
         \/ su' = Tolto(su, p)
         \/ \E voci : su' = Messo(su, Link, "client", voci)
         \/ \E voci : su' = Messo(Tolto(su, p), Link, "client", voci)
  PROVE  Flussi' /\ \A c \in Proc \ {p} : Cresce(c)
<1>1. PICK S : \A c \in Proc : su[c] \in Seq(S)
  BY DEF Flussi
<1>2. /\ DOMAIN su' = Conn
      /\ \A c \in Proc : su'[c] = su[c] \/ (c = p /\ su[c] # <<>> /\ su'[c] = Tail(su[c]))
  BY Costanti DEF Flussi, Tolto, Messo, Conn
<1>3. ASSUME NEW c \in Proc PROVE su'[c] \in Seq(S)
  <2>1. su[c] \in Seq(S)
    BY <1>1
  <2>2. su[c] # <<>> => Tail(su[c]) \in Seq(S)
    BY <2>1
  <2>. QED BY <1>2, <2>1, <2>2
<1>4. \A c \in Proc \ {p} : Cresce(c)
  BY <1>2, ProntoResta
<1>. QED BY <1>2, <1>3, <1>4 DEF Flussi

(* Entries are live apart from each other.                                 *)
LEMMA ClientiDistinti ==
  ASSUME IInv, pcG # "finita", NEW k \in Slot, NEW h \in Slot, k <= dim, h <= dim, k # h,
         client_sockets[k].connfd # -1, client_sockets[h].connfd # -1
  PROVE  Cliente(k) \in Proc /\ Cliente(k) # Cliente(h)
<1>1. client_sockets[k].connfd \in Fd /\ client_sockets[h].connfd \in Fd
  BY DEF IInv, Tipi
<1>2. client_sockets[k].connfd # client_sockets[h].connfd /\ Cliente(k) \in Proc
  BY DEF IInv, Tabella, Aperto, Cliente
<1>. QED BY <1>1, <1>2, Costanti DEF IInv, Unica, Cliente, Nessuno

(* A step on entry i: what it read was that entry's, and those after it    *)
(* are still to be read.                                                   *)
LEMMA UnaVoce ==
  ASSUME IInv, Lettura, Flussi', UNCHANGED varsGiro,
         pcG \in Fermi \cup {"scorri"}, i \in Slot, i <= dim, client_sockets[i].connfd # -1,
         \A c \in Proc \ {Cliente(i)} : Cresce(c),
         \/ pcG' = "scorri" /\ i' = i + 1
         \/ pcG' \in Fermi /\ i' = i
         \/ pcG' = "uscita"
  PROVE  Lettura'
<1>1. ServitoVivo'
  BY DEF Lettura, ServitoVivo, varsGiro, Fermi
<1>2. ASSUME NEW k \in Slot, (k <= dim /\ DaServire(k) /\ DaLeggere(k))'
      PROVE  Pronto(Cliente(k), "server")'
  <2>1. k > i /\ k \in Nat /\ i \in Nat
    BY <1>2 DEF DaLeggere, Fermi, Slot
  <2>2. /\ k <= dim /\ DaServire(k) /\ DaLeggere(k) /\ Cliente(k)' = Cliente(k)
        /\ client_sockets[k].connfd # -1
    BY <1>2, <2>1 DEF varsGiro, DaServire, DaLeggere, Cliente, Fermi
  <2>3. Cliente(k) \in Proc /\ Cliente(k) # Cliente(i)
    BY <2>1, <2>2, ClientiDistinti DEF Fermi
  <2>4. Pronto(Cliente(k), "server")
    BY <2>2 DEF Lettura, Leggibile
  <2>. QED BY <2>2, <2>3, <2>4 DEF Cresce, Pronto, Arrivo, Chiusa
<1>. QED BY <1>1, <1>2 DEF Lettura, Leggibile

(* The last select of a turn leaves in read_set only what is readable.     *)
LEMMA LetturaSelect == ASSUME IInv, Lettura, NessunaAttesa PROVE Lettura'
<1>1. /\ pcG' = "scorri" /\ i' = 1 /\ read_set' \subseteq Leggibili
      /\ UNCHANGED <<su, chiuso, fdConn, client_sockets, dim>>
  BY DEF NessunaAttesa, Select, varsRete
<1>2. ASSUME NEW k \in Slot, (k <= dim /\ DaServire(k) /\ DaLeggere(k))'
      PROVE  Pronto(Cliente(k), "server")'
  <2>1. client_sockets[k].connfd \in Leggibili
    BY <1>1, <1>2 DEF DaServire
  <2>. QED BY <1>1, <2>1 DEF Leggibili, Cliente, Pronto, Arrivo, Chiusa
<1>. QED BY <1>1, <1>2 DEF Lettura, Leggibile, ServitoVivo, Fermi, Flussi

(* Where no entry is being gone through there is nothing to say.           *)
LEMMA FuoriDalGiro ==
  ASSUME Flussi', pcG' \notin Fermi \cup {"scorri"}
  PROVE  Lettura'
  BY DEF Lettura, Leggibile, ServitoVivo, DaLeggere, Fermi

(* The choice is read from an entry that select found; a logout closes     *)
(* that entry and no other.                                                *)
LEMMA LetturaScelta == ASSUME IInv, Lettura, LeggiScelta PROVE Lettura'
<1>1. /\ pcG = "scorri" /\ i <= dim /\ client_sockets[i].connfd # -1
      /\ i \in Slot /\ client_sockets[i].connfd \in Fd
  BY Costanti DEF LeggiScelta, DaServire, IInv, Tipi, Slot
<1>2. Cliente(i) \in Proc
  BY <1>1 DEF IInv, Tabella, Aperto, Cliente
<1>3. \/ su' = Tolto(su, Cliente(i))
      \/ \E voci : su' = Messo(Tolto(su, Cliente(i)), Link, "client", voci)
  BY DEF LeggiScelta
<1>4. CASE chiuso' = chiuso /\ UNCHANGED varsGiro
  <2>1. Flussi' /\ \A c \in Proc \ {Cliente(i)} : Cresce(c)
    BY <1>2, <1>3, <1>4, FlussiLetti DEF Lettura
  <2>2. \/ pcG' = "scorri" /\ i' = i + 1
        \/ pcG' \in Fermi /\ i' = i
        \/ pcG' = "uscita"
    <3>1. CASE client_sockets' = [client_sockets EXCEPT ![i] = Sloggata(i)]
      <4>1. client_sockets'[i] = [connfd |-> -1, matricola |-> 0]
        BY <1>1, <3>1 DEF IInv, Tipi, Sloggata
      <4>. QED BY <1>1, <1>4, <4>1 DEF varsGiro
    <3>. QED BY <1>1, <3>1 DEF LeggiScelta, Dopo, Fermi
  <2>. QED BY <1>1, <1>4, <2>1, <2>2, UnaVoce
<1>5. CASE /\ fdConn' = [fdConn EXCEPT ![client_sockets[i].connfd] = Nessuno]
           /\ client_sockets' = [client_sockets EXCEPT ![i] = Sloggata(i)]
           /\ chiuso' = [chiuso EXCEPT ![Cliente(i)] = @ \cup {"server"}]
           /\ i' = i + 1 /\ pcG' = pcG /\ su' = Tolto(su, Cliente(i))
           /\ UNCHANGED <<dim, read_set>>
  <2>1. PICK S : \A c \in Proc : su[c] \in Seq(S)
    BY DEF Lettura, Flussi
  <2>2. /\ DOMAIN su' = Conn /\ DOMAIN chiuso' = Conn
        /\ \A c \in Proc : c # Cliente(i) => su'[c] = su[c] /\ chiuso'[c] = chiuso[c]
        /\ su'[Cliente(i)] = IF su[Cliente(i)] = <<>> THEN <<>> ELSE Tail(su[Cliente(i)])
    BY <1>2, <1>5 DEF Lettura, Flussi, Tolto, Conn
  <2>3. ASSUME NEW c \in Proc PROVE su'[c] \in Seq(S)
    <3>1. su[c] \in Seq(S)
      BY <2>1
    <3>2. su[c] # <<>> => Tail(su[c]) \in Seq(S)
      BY <3>1
    <3>. QED BY <2>2, <3>1, <3>2
  <2>4. Flussi'
    BY <2>2, <2>3 DEF Flussi
  <2>5. ASSUME NEW k \in Slot, (k <= dim /\ DaServire(k) /\ DaLeggere(k))'
        PROVE  Pronto(Cliente(k), "server")'
    <3>1. k > i /\ k # i /\ k \in Nat
      BY <1>1, <1>5, <2>5 DEF DaLeggere, Fermi, Slot
    <3>2. client_sockets'[k] = client_sockets[k]
      BY <1>5, <3>1 DEF IInv, Tipi
    <3>3. k <= dim /\ DaServire(k) /\ DaLeggere(k) /\ client_sockets[k].connfd # -1
      BY <1>1, <1>5, <2>5, <3>1, <3>2 DEF DaServire, DaLeggere, Slot
    <3>4. Cliente(k) \in Proc /\ Cliente(k) # Cliente(i)
      BY <1>1, <3>1, <3>3, ClientiDistinti
    <3>5. client_sockets[k].connfd # client_sockets[i].connfd /\ client_sockets[k].connfd \in Fd
      BY <3>3, <3>4 DEF IInv, Tipi, Cliente
    <3>6. Cliente(k)' = Cliente(k)
      BY <1>5, <3>2, <3>5 DEF Cliente, IInv, Tipi
    <3>7. Pronto(Cliente(k), "server")
      BY <3>3 DEF Lettura, Leggibile
    <3>. QED BY <2>2, <3>4, <3>6, <3>7 DEF Pronto, Arrivo, Chiusa
  <2>. QED BY <1>1, <1>5, <2>4, <2>5 DEF Lettura, Leggibile, ServitoVivo, Fermi
<1>. QED BY <1>4, <1>5 DEF LeggiScelta, varsGiro

LEMMA LetturaSegreteria == ASSUME IInv, Lettura, PassoSegreteria(NextG) PROVE Lettura'
<1>1. NextG /\ Flussi /\ i \in Nat
  BY DEF PassoSegreteria, Lettura, IInv, Tipi
<1>2. CASE UNCHANGED <<su, chiuso>> /\ pcG' \notin Fermi \cup {"scorri"}
  BY <1>1, <1>2, FuoriDalGiro DEF Flussi
<1>3. CASE Accetta \/ AccettaFallita \/ Sfora \/ FineScorri \/ Continua \/ UccidiSegreteria
  BY <1>2, <1>3
  DEF Accetta, AccettaFallita, Sfora, FineScorri, Continua, UccidiSegreteria, Fermi, varsRete
<1>4. CASE Login
  <2>1. Cliente(dim + 1) \in Proc
    BY <1>4 DEF Login, IInv, InAccesso, Aperto, Cliente
  <2>2. su' = Tolto(su, Cliente(dim + 1)) /\ chiuso' = chiuso /\ pcG' \in {"ancora", "uscita"}
    BY <1>4 DEF Login, InCorso, Dopo
  <2>3. Flussi'
    BY <1>1, <2>1, <2>2, FlussiLetti
  <2>. QED BY <2>2, <2>3, FuoriDalGiro DEF Fermi
<1>5. CASE Operatore \/ NuovoAppello
  <2>1. /\ \E voci : su' = Messo(su, Link, "client", voci)
        /\ chiuso' = chiuso /\ pcG' \notin Fermi \cup {"scorri"}
    BY <1>5 DEF Operatore, NuovoAppello, DigitaNomeAppello, DigitaData, Digita, Dopo, Fermi
  <2>2. Flussi'
    BY <1>1, <2>1, Costanti DEF Flussi, Messo, Conn
  <2>. QED BY <2>1, <2>2, FuoriDalGiro
<1>6. CASE EsitoInserimento
  BY <1>2, <1>6 DEF EsitoInserimento, Fermi
<1>7. CASE Salta
  <2>1. /\ UNCHANGED <<varsGiro, su, chiuso>> /\ i' = i + 1
        /\ pcG = "scorri" /\ pcG' = "scorri" /\ ~DaServire(i)
    BY <1>7 DEF Salta, varsRete
  <2>2. ASSUME NEW k \in Slot, (k <= dim /\ DaServire(k) /\ DaLeggere(k))'
        PROVE  Pronto(Cliente(k), "server")'
    <3>1. k <= dim /\ DaServire(k) /\ DaLeggere(k)
      BY <1>1, <2>1, <2>2 DEF DaServire, DaLeggere, varsGiro, Fermi, Slot
    <3>. QED BY <2>1, <3>1 DEF Lettura, Leggibile, Cliente, Pronto, Arrivo, Chiusa, varsGiro
  <2>. QED BY <1>1, <2>1, <2>2 DEF Lettura, Leggibile, ServitoVivo, Fermi, Flussi
<1>8. ASSUME LeggiReq \/ LeggiNome \/ LeggiDati \/ InoltraEsito PROVE Lettura'
  <2>1. /\ pcG \in Fermi /\ chiuso' = chiuso /\ UNCHANGED varsGiro
        /\ \/ pcG' = "scorri" /\ i' = i + 1
           \/ pcG' \in Fermi /\ i' = i
           \/ pcG' = "uscita"
    BY <1>8 DEF LeggiReq, LeggiNome, LeggiDati, InoltraEsito, RispondeRighe, Dopo, Fermi
  <2>2. i <= dim /\ client_sockets[i].connfd # -1 /\ i \in Slot
    BY <2>1, Costanti DEF Lettura, ServitoVivo, IInv, Tipi, Slot
  <2>3. Cliente(i) \in Proc
    BY <2>1, <2>2 DEF IInv, Tabella, Aperto, Cliente, Fermi
  <2>4. \/ su' = su
        \/ su' = Tolto(su, Cliente(i))
        \/ \E voci : su' = Messo(Tolto(su, Cliente(i)), Link, "client", voci)
    BY <1>8 DEF LeggiReq, LeggiNome, LeggiDati, InoltraEsito
  <2>5. Flussi' /\ \A c \in Proc \ {Cliente(i)} : Cresce(c)
    BY <1>1, <2>1, <2>3, <2>4, FlussiLetti
  <2>. QED BY <2>1, <2>2, <2>5, UnaVoce
<1>9. CASE Termina
  <2>1. su' = su /\ DOMAIN chiuso' = Conn /\ pcG' = "finita"
    BY <1>9 DEF Termina
  <2>. QED BY <1>1, <2>1, FuoriDalGiro DEF Flussi, Fermi
<1>. QED BY <1>1, <1>3, <1>4, <1>5, <1>6, <1>7, <1>8, <1>9, LetturaSelect, LetturaScelta
     DEF NextG, ProgrammaG

(* What select found readable stays so until the segreteria reads it, for  *)
(* every value of the constants.                                           *)
THEOREM InvarianteLettura == SpecBase => [](IInv /\ Lettura)
<1>1. Init => IInv /\ Lettura
  BY Inizio, InizioLettura
<1>2. IInv /\ Lettura /\ [Next]_vars => (IInv /\ Lettura)'
  <2>1. ASSUME IInv, Lettura, UNCHANGED vars PROVE Lettura'
    <3>1. Flussi' /\ (\A c \in Proc : Cresce(c)) /\ UNCHANGED varsG
      BY <2>1, ProntoResta DEF Lettura, Flussi, vars, varsRete
    <3>. QED BY <2>1, <3>1, LetturaFerma
  <2>. QED BY <2>1, PassoDelSistema, LetturaStudente, LetturaServer, LetturaSegreteria DEF Next
<1>. QED BY <1>1, <1>2, PTL DEF SpecBase

(* The read of a choice never blocks the segreteria, however connections   *)
(* are accepted, refused and closed between select and the read.           *)
THEOREM SceltaNonBloccaMai == SpecBase => []SceltaMaiBloccante
<1>1. IInv /\ Lettura => SceltaMaiBloccante
  BY Costanti DEF IInv, Tipi, Lettura, Leggibile, SceltaMaiBloccante, DaLeggere, Slot
<1>. QED BY <1>1, InvarianteLettura, PTL
=============================================================================
