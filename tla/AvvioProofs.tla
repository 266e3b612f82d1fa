---------------------------- MODULE AvvioProofs ----------------------------
(***************************************************************************)
(* Proof that setPorta gives every server a free port: why it is enough    *)
(* that servers read and write porta.txt one at a time; and that runs of   *)
(* start.sh that do not overlap keep to a server each.                     *)
(***************************************************************************)
EXTENDS Avvio, TLAPS

StatiServer == {"avviato", "setPorta", "bind", "attivo"} \cup Spenti

TipiPorte ==
  /\ server \in [Avvii -> StatiServer]
  /\ portaTxt \in Nat /\ porta \in [Avvii -> Int]
  /\ \A k \in Avvii : server[k] = "setPorta" => porta[k] \in Nat
  /\ attesa \in [Avvii -> Seq(Avvii)]
  /\ connfd \in [Avvii -> Avvii \cup {Nessuno}]
  /\ timeWait \subseteq Int
  /\ pulizie \in Nat /\ corsa \in BOOLEAN

(* A server has accepted only after it listened.                           *)
PrimaAscolta ==
  \A k \in Avvii : connfd[k] # Nessuno => server[k] \notin {"fermo", "avviato", "setPorta", "bind"}

(* Who is in setPorta alone has read what the file still holds.            *)
UnoAllaVolta ==
  /\ \A k \in Avvii : server[k] = "setPorta" => porta[k] = portaTxt
  /\ \A j, k \in Avvii : server[j] = "setPorta" /\ server[k] = "setPorta" => j = k

(* The file holds the last port given out: every port in use, or in        *)
(* TIME_WAIT, is not above it.                                             *)
UltimaPorta ==
  /\ portaTxt >= PORT_SERVER
  /\ \A k \in Avvii : server[k] \in {"bind", "attivo"} => porta[k] <= portaTxt
  /\ \A q \in timeWait : q <= portaTxt

(* The port of a server about to bind is nobody else's.                    *)
PortaNuova ==
  \A k \in Avvii : server[k] = "bind" =>
    /\ PORT_SERVER < porta[k] /\ porta[k] \notin timeWait
    /\ \A j \in Avvii : server[j] \in {"bind", "attivo"} /\ j # k => porta[j] # porta[k]

NonOccupata == \A k \in Avvii : server[k] # "occupata"

InvPorte ==
  /\ TipiPorte /\ PrimaAscolta
  /\ ~corsa /\ pulizie = 0 => UnoAllaVolta
  /\ PorteInOrdine => UltimaPorta /\ PortaNuova /\ NonOccupata

-----------------------------------------------------------------------------
LEMMA ModuloSotto == ASSUME NEW n \in Nat, NEW m \in Nat, n < m PROVE n % m = n
  BY SMT

(* At first no server runs, and the file is not below PORT_SERVER.         *)
LEMMA InizioPorte == ASSUME Init PROVE InvPorte
<1>1. attesa \in [Avvii -> Seq(Avvii)] /\ portaTxt \in Nat /\ porta \in [Avvii -> Int]
  BY AvvioAssumption DEF Init
<1>2. connfd \in [Avvii -> Avvii \cup {Nessuno}] /\ server \in [Avvii -> StatiServer]
  BY DEF Init, StatiServer, Spenti
<1>3. TipiPorte /\ PrimaAscolta
  BY <1>1, <1>2 DEF Init, TipiPorte, PrimaAscolta
<1>4. UnoAllaVolta /\ UltimaPorta /\ PortaNuova /\ NonOccupata
  BY AvvioAssumption DEF Init, UnoAllaVolta, UltimaPorta, PortaNuova, NonOccupata
<1>. QED BY <1>3, <1>4 DEF InvPorte

(* What neither starts, feeds nor ends a server leaves the ports alone,    *)
(* but for the segreteria's own port, which may enter TIME_WAIT.           *)
varsServer == <<server, portaTxt, porta, connfd, corsa, pulizie>>

LEMMA AltriPassi ==
  ASSUME InvPorte, UNCHANGED varsServer, attesa' \in [Avvii -> Seq(Avvii)],
         timeWait' \subseteq timeWait \cup {PORT_SERVER}
  PROVE  InvPorte'
  BY AvvioAssumption
  DEF varsServer, InvPorte, TipiPorte, PrimaAscolta, UnoAllaVolta, UltimaPorta, PortaNuova, NonOccupata,
      PorteInOrdine

LEMMA PassoLancia ==
  ASSUME InvPorte, NEW k \in Avvii, LanciaServer(k) PROVE InvPorte'
<1>1. /\ server' = [server EXCEPT ![k] = "avviato"] /\ server[k] = "fermo"
      /\ UNCHANGED <<portaTxt, porta, attesa, connfd, timeWait, pulizie, corsa>>
  BY DEF LanciaServer, varsLinee, varsMondo
<1>2. TipiPorte' /\ PrimaAscolta'
  BY <1>1 DEF InvPorte, TipiPorte, PrimaAscolta, StatiServer, Spenti
<1>3. ASSUME PorteInOrdine' PROVE (UltimaPorta /\ PortaNuova /\ NonOccupata)'
  BY <1>1, <1>3 DEF InvPorte, TipiPorte, PorteInOrdine, UltimaPorta, PortaNuova, NonOccupata
<1>4. ASSUME ~corsa', pulizie' = 0 PROVE UnoAllaVolta'
  BY <1>1, <1>4 DEF InvPorte, TipiPorte, UnoAllaVolta
<1>. QED BY <1>2, <1>3, <1>4 DEF InvPorte

LEMMA PassoLegge ==
  ASSUME InvPorte, NEW k \in Avvii, SetPortaLegge(k) PROVE InvPorte'
<1>1. /\ server' = [server EXCEPT ![k] = "setPorta"] /\ server[k] = "avviato"
      /\ porta' = [porta EXCEPT ![k] = portaTxt]
      /\ UNCHANGED <<portaTxt, attesa, connfd, timeWait, pulizie>>
  BY DEF SetPortaLegge, varsLinee, varsMondo
<1>2. TipiPorte' /\ PrimaAscolta'
  <2>1. corsa' \in BOOLEAN
    BY DEF SetPortaLegge
  <2>. QED BY <1>1, <2>1 DEF InvPorte, TipiPorte, PrimaAscolta, StatiServer, Spenti
<1>3. ASSUME PorteInOrdine' PROVE (UltimaPorta /\ PortaNuova /\ NonOccupata)'
  <2>1. PorteInOrdine /\ \A j \in Avvii : server[j] # "setPorta"
    BY <1>1, <1>3 DEF SetPortaLegge, PorteInOrdine
  <2>. QED BY <1>1, <2>1 DEF InvPorte, TipiPorte, UltimaPorta, PortaNuova, NonOccupata
<1>4. ASSUME ~corsa', pulizie' = 0 PROVE UnoAllaVolta'
  <2>1. ~corsa /\ \A j \in Avvii : server[j] # "setPorta"
    BY <1>4 DEF SetPortaLegge
  <2>. QED BY <1>1, <1>4, <2>1 DEF InvPorte, TipiPorte, UnoAllaVolta
<1>. QED BY <1>2, <1>3, <1>4 DEF InvPorte

LEMMA PassoScrive ==
  ASSUME InvPorte, NEW k \in Avvii, SetPortaScrive(k) PROVE InvPorte'
<1>1. /\ server' = [server EXCEPT ![k] = "bind"] /\ server[k] = "setPorta"
      /\ porta' = [porta EXCEPT ![k] = porta[k] + 1] /\ portaTxt' = porta[k] + 1
      /\ UNCHANGED <<attesa, connfd, timeWait, pulizie, corsa>>
  BY DEF SetPortaScrive, Prossima, varsLinee, varsMondo, varsStoria
<1>2. TipiPorte' /\ PrimaAscolta'
  BY <1>1 DEF InvPorte, TipiPorte, PrimaAscolta, StatiServer, Spenti
<1>3. ASSUME ~corsa', pulizie' = 0 PROVE portaTxt = porta[k] /\ UnoAllaVolta'
  BY <1>1, <1>3 DEF InvPorte, TipiPorte, UnoAllaVolta
<1>4. ASSUME PorteInOrdine' PROVE (UltimaPorta /\ PortaNuova /\ NonOccupata)'
  <2>1. portaTxt = porta[k] /\ PorteInOrdine
    <3>1. ~corsa' /\ pulizie' = 0 /\ portaTxt' < Modulo
      BY <1>4 DEF PorteInOrdine
    <3>2. portaTxt = porta[k]
      BY <1>3, <3>1
    <3>3. portaTxt < Modulo
      BY <1>1, <3>1, <3>2, AvvioAssumption DEF InvPorte, TipiPorte
    <3>. QED BY <1>1, <3>1, <3>2, <3>3 DEF PorteInOrdine
  <2>2. /\ portaTxt' = portaTxt + 1 /\ porta'[k] = portaTxt + 1
        /\ \A j \in Avvii : j # k => porta'[j] = porta[j] /\ server'[j] = server[j]
        /\ server'[k] = "bind" /\ timeWait' = timeWait
    BY <1>1, <2>1 DEF InvPorte, TipiPorte
  <2>3. UltimaPorta /\ PortaNuova /\ NonOccupata /\ TipiPorte
    BY <2>1 DEF InvPorte
  <2>4. UltimaPorta' /\ NonOccupata'
    <3>1. \A q \in timeWait : q \in Int /\ q <= portaTxt + 1
      BY <2>3 DEF TipiPorte, UltimaPorta
    <3>2. ASSUME NEW j \in Avvii, server'[j] \in {"bind", "attivo"} PROVE porta'[j] <= portaTxt'
      <4>1. CASE j = k
        BY <2>2, <2>3, <4>1 DEF TipiPorte
      <4>2. CASE j # k
        <5>1. porta[j] <= portaTxt /\ porta'[j] = porta[j]
          BY <2>2, <2>3, <3>2, <4>2 DEF UltimaPorta
        <5>. QED BY <2>2, <2>3, <5>1 DEF TipiPorte
      <4>. QED BY <4>1, <4>2
    <3>. QED BY <2>2, <2>3, <3>1, <3>2, AvvioAssumption DEF TipiPorte, UltimaPorta, NonOccupata
  <2>5. \A q \in timeWait : q # portaTxt + 1
    BY <2>3 DEF TipiPorte, UltimaPorta
  <2>6. \A j \in Avvii : server[j] \in {"bind", "attivo"} => porta[j] # portaTxt + 1
    BY <2>3 DEF TipiPorte, UltimaPorta
  <2>7. PORT_SERVER < portaTxt + 1
    BY <2>3, AvvioAssumption DEF TipiPorte, UltimaPorta
  <2>8. PortaNuova'
    BY <2>2, <2>3, <2>5, <2>6, <2>7 DEF PortaNuova
  <2>. QED BY <2>4, <2>8
<1>. QED BY <1>2, <1>3, <1>4 DEF InvPorte

(* bind: no port in use, or in TIME_WAIT, is the one this server asks for. *)
LEMMA BindLibera ==
  ASSUME InvPorte, PorteInOrdine, NEW k \in Avvii, server[k] = "bind"
  PROVE  Htons(porta[k]) = porta[k] /\ porta[k] > 0 /\ ~Occupata(porta[k])
<1>1. porta[k] \in Nat /\ porta[k] > PORT_SERVER /\ porta[k] < Modulo
  BY AvvioAssumption DEF InvPorte, TipiPorte, UltimaPorta, PortaNuova, PorteInOrdine
<1>2. Htons(porta[k]) = porta[k]
  BY <1>1, ModuloSotto, AvvioAssumption DEF Htons
<1>3. ~Occupata(porta[k])
  BY <1>1 DEF Occupata, InvPorte, PortaNuova
<1>. QED BY <1>1, <1>2, <1>3, AvvioAssumption

LEMMA PassoAscolta ==
  ASSUME InvPorte, NEW k \in Avvii, AscoltaServer(k) PROVE InvPorte'
<1>1. /\ server[k] = "bind"
      /\ \E s \in {"attivo", "fallito", "occupata"} : server' = [server EXCEPT ![k] = s]
      /\ UNCHANGED <<portaTxt, attesa, connfd, timeWait, pulizie, corsa>>
  BY DEF AscoltaServer, varsLinee, varsMondo, varsStoria
<1>2. TipiPorte' /\ PrimaAscolta'
  <2>1. porta' \in [Avvii -> Int]
    <3>1. Htons(porta[k]) \in Int /\ -k \in Int
      BY AvvioAssumption DEF Htons, InvPorte, TipiPorte
    <3>2. porta' = porta \/ \E v \in Int : porta' = [porta EXCEPT ![k] = v]
      BY <3>1 DEF AscoltaServer
    <3>. QED BY <3>2 DEF InvPorte, TipiPorte
  <2>2. \A j \in Avvii : server[j] = "setPorta" => porta'[j] = porta[j]
    BY <1>1 DEF AscoltaServer, InvPorte, TipiPorte
  <2>. QED BY <1>1, <2>1, <2>2 DEF InvPorte, TipiPorte, PrimaAscolta, StatiServer, Spenti
<1>3. ASSUME PorteInOrdine' PROVE (UltimaPorta /\ PortaNuova /\ NonOccupata)'
  <2>1. PorteInOrdine
    BY <1>1, <1>3 DEF PorteInOrdine
  <2>2. UNCHANGED porta /\ server' \in {[server EXCEPT ![k] = s] : s \in {"attivo", "fallito"}}
    <3>1. Htons(porta[k]) = porta[k] /\ porta[k] > 0 /\ ~Occupata(Htons(porta[k]))
      BY <1>1, <2>1, BindLibera
    <3>2. [porta EXCEPT ![k] = porta[k]] = porta
      BY DEF InvPorte, TipiPorte
    <3>. QED BY <3>1, <3>2 DEF AscoltaServer, InvPorte, TipiPorte
  <2>. QED BY <1>1, <2>1, <2>2
       DEF InvPorte, TipiPorte, UltimaPorta, PortaNuova, NonOccupata
<1>4. ASSUME ~corsa', pulizie' = 0 PROVE UnoAllaVolta'
  <2>1. \A j \in Avvii : j # k => porta'[j] = porta[j]
    BY DEF AscoltaServer, InvPorte, TipiPorte
  <2>. QED BY <1>1, <1>4, <2>1 DEF InvPorte, TipiPorte, UnoAllaVolta
<1>. QED BY <1>2, <1>3, <1>4 DEF InvPorte

LEMMA PassoAccetta ==
  ASSUME InvPorte, NEW k \in Avvii, AccettaSegreteria(k) PROVE InvPorte'
<1>1. Head(attesa[k]) \in Avvii /\ Tail(attesa[k]) \in Seq(Avvii)
  BY DEF AccettaSegreteria, InvPorte, TipiPorte
<1>2. UNCHANGED <<server, portaTxt, porta, timeWait, pulizie, corsa>>
  BY DEF AccettaSegreteria, varsMondo, varsStoria
<1>3. TipiPorte' /\ PrimaAscolta'
  BY <1>1, <1>2 DEF AccettaSegreteria, InvPorte, TipiPorte, PrimaAscolta
<1>. QED BY <1>2, <1>3
     DEF InvPorte, UnoAllaVolta, UltimaPorta, PortaNuova, NonOccupata, PorteInOrdine

(* A server that is killed leaves its port in TIME_WAIT only if it had     *)
(* accepted, so that no other server has it.                               *)
LEMMA PassoUccidi ==
  ASSUME InvPorte, NEW k \in Avvii, UccidiServer(k) PROVE InvPorte'
<1>1. \/ timeWait' = timeWait
      \/ server[k] = "attivo" /\ timeWait' = timeWait \cup {porta[k]}
  BY DEF UccidiServer, InvPorte, TipiPorte, PrimaAscolta, StatiServer, Spenti
<1>2. \E s \in {"interrotto", "morto"} : server' = [server EXCEPT ![k] = s]
  BY DEF UccidiServer
<1>3. UNCHANGED <<portaTxt, porta, attesa, connfd, pulizie, corsa>>
  BY DEF UccidiServer, varsLinee, varsStoria
<1>4. TipiPorte' /\ PrimaAscolta'
  BY <1>1, <1>2, <1>3 DEF InvPorte, TipiPorte, PrimaAscolta, StatiServer, Spenti
<1>5. ASSUME PorteInOrdine' PROVE (UltimaPorta /\ PortaNuova /\ NonOccupata)'
  <2>1. PorteInOrdine
    BY <1>3, <1>5 DEF PorteInOrdine
  <2>. QED BY <1>1, <1>2, <1>3, <2>1
       DEF InvPorte, TipiPorte, UltimaPorta, PortaNuova, NonOccupata
<1>6. ASSUME ~corsa', pulizie' = 0 PROVE UnoAllaVolta'
  BY <1>2, <1>3, <1>6 DEF InvPorte, TipiPorte, UnoAllaVolta
<1>. QED BY <1>4, <1>5, <1>6 DEF InvPorte

LEMMA PassoConnetti ==
  ASSUME InvPorte, NEW k \in Avvii, ConnettiSegreteria(k) PROVE InvPorte'
<1>1. attesa' \in [Avvii -> Seq(Avvii)]
  <2>1. \A j \in Avvii : Append(attesa[j], k) \in Seq(Avvii)
    BY DEF InvPorte, TipiPorte
  <2>. QED BY <2>1 DEF ConnettiSegreteria, InvPorte, TipiPorte
<1>2. UNCHANGED varsServer /\ timeWait' = timeWait
  BY DEF ConnettiSegreteria, varsServer, varsMondo, varsStoria
<1>. QED BY <1>1, <1>2, AltriPassi

LEMMA PassoPorte == ASSUME InvPorte, [Next]_vars PROVE InvPorte'
<1>0. attesa \in [Avvii -> Seq(Avvii)]
  BY DEF InvPorte, TipiPorte
<1>1. CASE UNCHANGED vars
  BY <1>0, <1>1, AltriPassi DEF vars, varsServer
<1>2. ASSUME NEW k \in Avvii, Parte(k) PROVE InvPorte'
  <2>1. CASE LanciaSegreteria(k) \/ GetPorta(k) \/ AscoltaSegreteria(k) \/ ConnettiDB(k)
             \/ LanciaStudente(k) \/ ConnettiStudente(k)
    BY <1>0, <2>1, AltriPassi
    DEF LanciaSegreteria, GetPorta, AscoltaSegreteria, ConnettiDB, LanciaStudente,
        ConnettiStudente, varsServer, varsLinee, varsMondo, varsStoria
  <2>. QED BY <1>2, <2>1, PassoLegge, PassoScrive, PassoAscolta, PassoAccetta, PassoConnetti
       DEF Parte
<1>3. ASSUME NEW k \in Avvii, UccidiSegreteria(k) \/ EsciStudente(k) PROVE InvPorte'
  BY <1>0, <1>3, AltriPassi
  DEF UccidiSegreteria, EsciStudente, varsServer, varsLinee, varsStoria
<1>4. CASE Scade
  BY <1>0, <1>4, AltriPassi DEF Scade, varsServer, varsLinee, varsStoria
<1>5. CASE Clean
  <2>1. ~PorteInOrdine' /\ pulizie' # 0
    BY <1>5 DEF Clean, PorteInOrdine, InvPorte, TipiPorte
  <2>. QED BY <1>5, <2>1, AvvioAssumption
       DEF Clean, InvPorte, TipiPorte, PrimaAscolta, varsLinee, varsStoria
<1>. QED BY <1>1, <1>2, <1>3, <1>4, <1>5, PassoLancia, PassoUccidi DEF Next

(* The port file of the servers, for any number of runs of start.sh.       *)
THEOREM InvariantePorte == Spec => []InvPorte
<1>. QED BY InizioPorte, PassoPorte, PTL DEF Spec

(* No bind of the server fails with "address already in use", whatever     *)
(* dies and is started again, as long as servers are in setPorta one at a  *)
(* time, clean.sh is not run and the ports last.                           *)
THEOREM PortaSempreLibera == Spec => []PortaLibera
<1>1. InvPorte => PortaLibera
  BY DEF InvPorte, NonOccupata, PortaLibera
<1>. QED BY <1>1, InvariantePorte, PTL

-----------------------------------------------------------------------------
(* Runs that do not overlap.  A run is under way until its three programs  *)
(* are in their loops or have ended; they start in order.                  *)
Incompiuto(k) == server[k] # "fermo" /\ ~Compiuto(k)
InOrdineDiLancio ==
  \A k \in Avvii : /\ segreteria[k] # "fermo" => Pronto(server[k])
                   /\ studente[k] # "fermo" => Pronto(segreteria[k])
UnoPerVolta ==
  /\ \A j, k \in Avvii : Incompiuto(j) /\ Incompiuto(k) => j = k
  /\ ~corsa

(* The file holds the port of the server of the run under way, or of none  *)
(* that is listening, and it is the one its segreteria has read.           *)
PortaDelTurno ==
  \A k \in Avvii : Incompiuto(k) /\ server[k] \notin {"avviato", "setPorta"} =>
    /\ \A j \in Avvii : server[j] = "attivo" /\ j # k => porta[j] # portaTxt
    /\ segreteria[k] = "connect" => portaSeg[k] = portaTxt

(* A server only ever has connections of the segreteria of its own run.    *)
LineaPropria ==
  \A k \in Avvii :
    /\ \A n \in 1..Len(attesa[k]) : attesa[k][n] = k
    /\ connfd[k] \in {k, Nessuno}
    /\ segreteria[k] \in {"bind", "ascolta", "attivo"} => linea[k] = k /\ HaLinea(k)

Regolare ==
  /\ ~sovrapposti /\ pulizie = 0 /\ portaTxt < Modulo
  /\ \A k \in Avvii : server[k] # "interrotto"

TipiAvvii ==
  /\ DOMAIN segreteria = Avvii /\ DOMAIN studente = Avvii
  /\ DOMAIN portaSeg = Avvii /\ DOMAIN linea = Avvii
  /\ sovrapposti \in BOOLEAN

InvLinea ==
  /\ TipiAvvii /\ InOrdineDiLancio
  /\ ~sovrapposti => UnoPerVolta
  /\ Regolare => PortaDelTurno /\ LineaPropria

LEMMA InizioLinea == ASSUME Init PROVE InvLinea
<1>1. TipiAvvii /\ InOrdineDiLancio
  BY DEF Init, TipiAvvii, InOrdineDiLancio
<1>2. \A k \in Avvii : ~Incompiuto(k)
  BY DEF Init, Incompiuto
<1>3. LineaPropria
  <2>1. \A k \in Avvii : Len(attesa[k]) = 0
    BY DEF Init
  <2>. QED BY <2>1 DEF Init, LineaPropria
<1>. QED BY <1>1, <1>2, <1>3 DEF Init, InvLinea, UnoPerVolta, PortaDelTurno

(* The programs start in order, because start.c waits.                     *)
LEMMA LancioInOrdine ==
  ASSUME InOrdine, InvPorte, InvLinea, [Next]_vars
  PROVE  TipiAvvii' /\ InOrdineDiLancio'
<1>1. TipiAvvii /\ InOrdineDiLancio /\ DOMAIN server = Avvii
  BY DEF InvLinea, InvPorte, TipiPorte
<1>2. ASSUME NEW l \in Avvii, \/ LanciaServer(l) \/ SetPortaLegge(l) \/ SetPortaScrive(l)
                              \/ AscoltaServer(l) \/ UccidiServer(l)
      PROVE  TipiAvvii' /\ InOrdineDiLancio'
  <2>1. /\ \A k \in Avvii \ {l} : server'[k] = server[k]
        /\ Pronto(server[l]) => Pronto(server'[l])
        /\ UNCHANGED <<segreteria, studente, portaSeg, linea>> /\ sovrapposti' \in BOOLEAN
    BY <1>1, <1>2 DEF TipiAvvii, LanciaServer, SetPortaLegge, SetPortaScrive, AscoltaServer, UccidiServer,
                      Pronto, Spenti, varsLinee, varsStoria
  <2>. QED BY <1>1, <2>1 DEF TipiAvvii, InOrdineDiLancio
<1>3. ASSUME NEW l \in Avvii, \/ LanciaSegreteria(l) \/ GetPorta(l) \/ ConnettiSegreteria(l)
                              \/ AscoltaSegreteria(l) \/ ConnettiDB(l) \/ UccidiSegreteria(l)
      PROVE  TipiAvvii' /\ InOrdineDiLancio'
  <2>1. /\ \A k \in Avvii \ {l} : segreteria'[k] = segreteria[k]
        /\ Pronto(segreteria[l]) => Pronto(segreteria'[l])
        /\ segreteria[l] # "fermo" \/ Pronto(server[l])
        /\ UNCHANGED <<server, studente>> /\ TipiAvvii'
    BY <1>1, <1>3
    DEF TipiAvvii, LanciaSegreteria, GetPorta, ConnettiSegreteria, AscoltaSegreteria, ConnettiDB,
        UccidiSegreteria, Dopo, Pronto, Spenti, varsLinee, varsStoria
  <2>. QED BY <1>1, <2>1 DEF InOrdineDiLancio
<1>4. ASSUME NEW l \in Avvii, LanciaStudente(l) \/ ConnettiStudente(l) \/ EsciStudente(l)
      PROVE  TipiAvvii' /\ InOrdineDiLancio'
  <2>1. /\ \A k \in Avvii \ {l} : studente'[k] = studente[k]
        /\ studente[l] # "fermo" \/ Pronto(segreteria[l])
        /\ UNCHANGED <<server, segreteria>> /\ TipiAvvii'
    BY <1>1, <1>4
    DEF TipiAvvii, LanciaStudente, ConnettiStudente, EsciStudente, Dopo, varsLinee, varsStoria
  <2>. QED BY <1>1, <2>1 DEF InOrdineDiLancio
<1>5. CASE \/ Scade \/ Clean \/ UNCHANGED vars
           \/ \E l \in Avvii : AccettaSegreteria(l)
  <2>1. UNCHANGED <<server, segreteria, studente, portaSeg, linea, sovrapposti>>
    BY <1>5 DEF Scade, Clean, AccettaSegreteria, vars, varsLinee, varsStoria
  <2>. QED BY <1>1, <2>1 DEF TipiAvvii, InOrdineDiLancio
<1>. QED BY <1>2, <1>3, <1>4, <1>5 DEF Next, Parte

(* Whose run goes on was under way; only start.sh begins one.              *)
LEMMA Avanza ==
  ASSUME InOrdine, InvPorte, InvLinea, NEW l \in Avvii,
         Parte(l) \/ UccidiServer(l) \/ UccidiSegreteria(l) \/ EsciStudente(l)
  PROVE  /\ \A k \in Avvii : Incompiuto(k)' => Incompiuto(k)
         /\ sovrapposti' = sovrapposti
<1>1. TipiAvvii /\ InOrdineDiLancio /\ DOMAIN server = Avvii
  BY DEF InvLinea, InvPorte, TipiPorte
<1>2. /\ sovrapposti' = sovrapposti
      /\ \A k \in Avvii \ {l} : /\ server'[k] = server[k] /\ segreteria'[k] = segreteria[k]
                                /\ studente'[k] = studente[k]
      /\ server[l] = "fermo" => server'[l] = "fermo"
  BY <1>1
  DEF Parte, SetPortaLegge, SetPortaScrive, AscoltaServer, AccettaSegreteria, LanciaSegreteria, GetPorta,
      ConnettiSegreteria, AscoltaSegreteria, ConnettiDB, LanciaStudente, ConnettiStudente, UccidiServer,
      UccidiSegreteria, EsciStudente, TipiAvvii, Spenti, varsStoria
<1>3. /\ Pronto(server[l]) => Pronto(server'[l])
      /\ Pronto(segreteria[l]) => Pronto(segreteria'[l])
      /\ Pronto(studente[l]) => Pronto(studente'[l])
  BY <1>1
  DEF Parte, SetPortaLegge, SetPortaScrive, AscoltaServer, AccettaSegreteria, LanciaSegreteria, GetPorta,
      ConnettiSegreteria, AscoltaSegreteria, ConnettiDB, LanciaStudente, ConnettiStudente, UccidiServer,
      UccidiSegreteria, EsciStudente, TipiAvvii, Pronto, Spenti
<1>. QED BY <1>2, <1>3 DEF Incompiuto, Compiuto

LEMMA UnoAncora ==
  ASSUME InOrdine, InvPorte, InvLinea, [Next]_vars, ~sovrapposti' PROVE UnoPerVolta'
<1>1. TipiAvvii /\ InOrdineDiLancio /\ DOMAIN server = Avvii
  BY DEF InvLinea, InvPorte, TipiPorte
<1>2. ASSUME NEW l \in Avvii, Parte(l) \/ UccidiServer(l) \/ UccidiSegreteria(l) \/ EsciStudente(l)
      PROVE  UnoPerVolta'
  <2>1. UnoPerVolta /\ \A k \in Avvii : Incompiuto(k)' => Incompiuto(k)
    BY <1>2, Avanza DEF InvLinea
  <2>2. ~corsa'
    <3>1. CASE SetPortaLegge(l)
      <4>1. \A j \in Avvii : server[j] \in {"avviato", "setPorta"} => Incompiuto(j)
        BY DEF Incompiuto, Compiuto, Pronto, Spenti
      <4>. QED BY <2>1, <3>1, <4>1 DEF SetPortaLegge, UnoPerVolta
    <3>2. CASE ~SetPortaLegge(l)
      BY <1>2, <2>1, <3>2
      DEF UnoPerVolta, Parte, SetPortaScrive, AscoltaServer, AccettaSegreteria, LanciaSegreteria, GetPorta,
          ConnettiSegreteria, AscoltaSegreteria, ConnettiDB, LanciaStudente, ConnettiStudente, UccidiServer,
          UccidiSegreteria, EsciStudente, varsStoria
    <3>. QED BY <3>1, <3>2
  <2>. QED BY <2>1, <2>2 DEF UnoPerVolta
<1>3. ASSUME NEW l \in Avvii, LanciaServer(l) PROVE UnoPerVolta'
  <2>1. /\ ~sovrapposti /\ \A j \in Avvii : server[j] # "fermo" => Compiuto(j)
        /\ server' = [server EXCEPT ![l] = "avviato"] /\ UNCHANGED <<segreteria, studente, corsa>>
    BY <1>3 DEF LanciaServer
  <2>2. \A k \in Avvii \ {l} : ~Incompiuto(k)'
    BY <1>1, <2>1 DEF Incompiuto, Compiuto
  <2>. QED BY <2>1, <2>2 DEF InvLinea, UnoPerVolta
<1>4. CASE Scade \/ Clean \/ UNCHANGED vars
  <2>1. UNCHANGED <<server, segreteria, studente, corsa, sovrapposti>>
    BY <1>4 DEF Scade, Clean, vars, varsStoria
  <2>. QED BY <2>1 DEF InvLinea, UnoPerVolta, Incompiuto, Compiuto
<1>. QED BY <1>2, <1>3, <1>4 DEF Next

(* What was in order stays so backwards: the file only grows.              *)
LEMMA RegolarePrima ==
  ASSUME InvPorte, InvLinea, [Next]_vars, Regolare' PROVE Regolare
<1>1. /\ ~sovrapposti /\ pulizie = 0 /\ \A k \in Avvii : server[k] # "interrotto"
      /\ portaTxt \in Nat /\ Modulo \in Nat
  <2>1. sovrapposti => sovrapposti'
    BY DEF Next, Parte, LanciaServer, SetPortaLegge, SetPortaScrive, AscoltaServer, AccettaSegreteria,
           LanciaSegreteria, GetPorta, ConnettiSegreteria, AscoltaSegreteria, ConnettiDB, LanciaStudente,
           ConnettiStudente, UccidiServer, UccidiSegreteria, EsciStudente, Scade, Clean, vars, varsStoria
  <2>2. pulizie' = pulizie \/ pulizie' = pulizie + 1
    BY DEF Next, Parte, LanciaServer, SetPortaLegge, SetPortaScrive, AscoltaServer, AccettaSegreteria,
           LanciaSegreteria, GetPorta, ConnettiSegreteria, AscoltaSegreteria, ConnettiDB, LanciaStudente,
           ConnettiStudente, UccidiServer, UccidiSegreteria, EsciStudente, Scade, Clean, vars, varsMondo
  <2>3. \A k \in Avvii : server[k] = "interrotto" => server'[k] = "interrotto"
    BY DEF Next, Parte, LanciaServer, SetPortaLegge, SetPortaScrive, AscoltaServer, AccettaSegreteria,
           LanciaSegreteria, GetPorta, ConnettiSegreteria, AscoltaSegreteria, ConnettiDB, LanciaStudente,
           ConnettiStudente, UccidiServer, UccidiSegreteria, EsciStudente, Scade, Clean, vars, Spenti,
           InvPorte, TipiPorte
  <2>. QED BY <2>1, <2>2, <2>3, AvvioAssumption DEF Regolare, InvPorte, TipiPorte
<1>2. ~corsa
  BY <1>1 DEF InvLinea, UnoPerVolta
<1>3. portaTxt < Modulo
  <2>1. CASE \E l \in Avvii : SetPortaScrive(l)
    <3>1. PICK l \in Avvii : SetPortaScrive(l)
      BY <2>1
    <3>2. porta[l] = portaTxt /\ portaTxt' = porta[l] + 1
      BY <1>1, <1>2, <3>1 DEF SetPortaScrive, Prossima, InvPorte, UnoAllaVolta
    <3>. QED BY <1>1, <3>2 DEF Regolare
  <2>2. CASE ~\E l \in Avvii : SetPortaScrive(l)
    <3>1. portaTxt' = portaTxt \/ Clean
      BY <2>2 DEF Next, Parte, LanciaServer, SetPortaLegge, AscoltaServer, AccettaSegreteria,
           LanciaSegreteria, GetPorta, ConnettiSegreteria, AscoltaSegreteria, ConnettiDB, LanciaStudente,
           ConnettiStudente, UccidiServer, UccidiSegreteria, EsciStudente, Scade, vars
    <3>2. ~Clean
      BY <1>1 DEF Clean, Regolare
    <3>. QED BY <3>1, <3>2 DEF Regolare
  <2>. QED BY <2>1, <2>2
<1>. QED BY <1>1, <1>3 DEF Regolare

(* PortaDelTurno where the file does not change and nothing new comes to   *)
(* listen, to be under way or to have read the port.                       *)
LEMMA PortaFerma ==
  ASSUME PortaDelTurno, portaTxt' = portaTxt,
         \A k \in Avvii : Incompiuto(k)' /\ server'[k] \notin {"avviato", "setPorta"} =>
                            Incompiuto(k) /\ server[k] \notin {"avviato", "setPorta"},
         \A j \in Avvii : server'[j] = "attivo" => server[j] = "attivo" /\ porta'[j] = porta[j],
         \A k \in Avvii : segreteria'[k] = "connect" =>
                            segreteria[k] = "connect" /\ portaSeg'[k] = portaSeg[k]
  PROVE  PortaDelTurno'
  BY DEF PortaDelTurno

(* The two steps that change the file or add a listener belong to the only *)
(* run that is under way, and its segreteria is not launched yet.          *)
LEMMA PortaDelServer ==
  ASSUME InOrdine, InvPorte, InvLinea, Regolare, NEW l \in Avvii, SetPortaScrive(l) \/ AscoltaServer(l)
  PROVE  PortaDelTurno'
<1>1. TipiPorte /\ TipiAvvii /\ InOrdineDiLancio /\ UnoPerVolta /\ PortaDelTurno
  BY DEF InvPorte, InvLinea, Regolare
<1>2. UnoAllaVolta /\ UltimaPorta
  BY <1>1 DEF InvPorte, PorteInOrdine, UnoPerVolta, Regolare
<1>3. server[l] \in {"setPorta", "bind"} /\ segreteria' = segreteria /\ portaSeg' = portaSeg
  BY DEF SetPortaScrive, AscoltaServer
<1>4. Incompiuto(l) /\ segreteria[l] # "connect"
  BY <1>1, <1>3 DEF Incompiuto, Compiuto, Pronto, Spenti, InOrdineDiLancio
<1>5. \A k \in Avvii : Incompiuto(k)' => k = l
  <2>1. \A k \in Avvii : Incompiuto(k)' => Incompiuto(k)
    BY Avanza DEF Parte
  <2>. QED BY <1>1, <1>4, <2>1 DEF UnoPerVolta
<1>6. \A j \in Avvii : server'[j] = "attivo" /\ j # l => server[j] = "attivo" /\ porta'[j] = porta[j]
  BY <1>1 DEF SetPortaScrive, AscoltaServer, TipiPorte
<1>7. \A j \in Avvii : server'[j] = "attivo" /\ j # l => porta'[j] # portaTxt'
  <2>1. CASE SetPortaScrive(l)
    <3>1. portaTxt' = portaTxt + 1
      BY <1>2, <2>1 DEF SetPortaScrive, Prossima, UnoAllaVolta
    <3>2. \A j \in Avvii : server[j] = "attivo" => porta[j] <= portaTxt
      BY <1>2 DEF UltimaPorta
    <3>3. portaTxt \in Int /\ \A j \in Avvii : porta[j] \in Int
      BY <1>1 DEF TipiPorte
    <3>. QED BY <1>6, <3>1, <3>2, <3>3
  <2>2. CASE AscoltaServer(l)
    <3>1. portaTxt' = portaTxt /\ server[l] = "bind"
      BY <2>2 DEF AscoltaServer
    <3>. QED BY <1>1, <1>4, <1>6, <3>1 DEF PortaDelTurno
  <2>. QED BY <2>1, <2>2
<1>. QED BY <1>3, <1>4, <1>5, <1>7 DEF PortaDelTurno

LEMMA PassoTurno ==
  ASSUME InOrdine, InvPorte, InvLinea, [Next]_vars, Regolare, Regolare' PROVE PortaDelTurno'
<1>1. TipiPorte /\ TipiAvvii /\ InOrdineDiLancio /\ UnoPerVolta /\ PortaDelTurno
  BY DEF InvPorte, InvLinea, Regolare
<1>2. DOMAIN server = Avvii /\ DOMAIN porta = Avvii
  BY <1>1 DEF TipiPorte
<1>3. ASSUME NEW l \in Avvii, LanciaServer(l) PROVE PortaDelTurno'
  <2>1. /\ server' = [server EXCEPT ![l] = "avviato"]
        /\ UNCHANGED <<segreteria, studente, portaTxt, porta, portaSeg>>
    BY <1>3 DEF LanciaServer
  <2>2. \A k \in Avvii : Incompiuto(k)' /\ server'[k] \notin {"avviato", "setPorta"} =>
                           Incompiuto(k) /\ server[k] \notin {"avviato", "setPorta"}
    BY <1>2, <2>1 DEF Incompiuto, Compiuto
  <2>. QED BY <1>1, <1>2, <2>1, <2>2, PortaFerma
<1>4. ASSUME NEW l \in Avvii, GetPorta(l) PROVE PortaDelTurno'
  <2>1. Incompiuto(l)
    BY <1>1, <1>4 DEF GetPorta, Incompiuto, Compiuto, Pronto, Spenti, InOrdineDiLancio
  <2>2. \A k \in Avvii : Incompiuto(k)' => k = l
    <3>1. \A k \in Avvii : Incompiuto(k)' => Incompiuto(k)
      BY <1>4, Avanza DEF Parte
    <3>. QED BY <1>1, <2>1, <3>1 DEF UnoPerVolta
  <2>3. Htons(portaTxt) = portaTxt
    BY <1>1, ModuloSotto, AvvioAssumption DEF Htons, TipiPorte, Regolare
  <2>4. portaSeg'[l] = portaTxt /\ UNCHANGED <<server, porta, portaTxt>>
    BY <1>1, <1>4, <2>3 DEF GetPorta, TipiAvvii
  <2>. QED BY <1>1, <2>1, <2>2, <2>4 DEF PortaDelTurno
<1>5. ASSUME NEW l \in Avvii,
             \/ SetPortaLegge(l) \/ AccettaSegreteria(l) \/ LanciaSegreteria(l)
             \/ ConnettiSegreteria(l) \/ AscoltaSegreteria(l) \/ ConnettiDB(l) \/ LanciaStudente(l)
             \/ ConnettiStudente(l) \/ UccidiServer(l) \/ UccidiSegreteria(l) \/ EsciStudente(l)
      PROVE  PortaDelTurno'
  <2>1. \A k \in Avvii : Incompiuto(k)' => Incompiuto(k)
    BY <1>5, Avanza DEF Parte
  <2>2. portaTxt' = portaTxt
    BY <1>5
    DEF SetPortaLegge, AccettaSegreteria, LanciaSegreteria, ConnettiSegreteria, AscoltaSegreteria,
        ConnettiDB, LanciaStudente, ConnettiStudente, UccidiServer, UccidiSegreteria, EsciStudente
  <2>3. \A j \in Avvii : server'[j] = "attivo" => server[j] = "attivo" /\ porta'[j] = porta[j]
    BY <1>2, <1>5
    DEF SetPortaLegge, AccettaSegreteria, LanciaSegreteria, ConnettiSegreteria, AscoltaSegreteria,
        ConnettiDB, LanciaStudente, ConnettiStudente, UccidiServer, UccidiSegreteria, EsciStudente
  <2>4. \A k \in Avvii : segreteria'[k] = "connect" =>
                           segreteria[k] = "connect" /\ portaSeg'[k] = portaSeg[k]
    BY <1>1, <1>5
    DEF TipiAvvii, SetPortaLegge, AccettaSegreteria, LanciaSegreteria, ConnettiSegreteria,
        AscoltaSegreteria, ConnettiDB, LanciaStudente, ConnettiStudente, UccidiServer,
        UccidiSegreteria, EsciStudente
  <2>5. \A k \in Avvii : server'[k] \notin {"avviato", "setPorta"} => server[k] \notin {"avviato", "setPorta"}
    BY <1>2, <1>5
    DEF Regolare, SetPortaLegge, AccettaSegreteria, LanciaSegreteria, ConnettiSegreteria,
        AscoltaSegreteria, ConnettiDB, LanciaStudente, ConnettiStudente, UccidiServer,
        UccidiSegreteria, EsciStudente
  <2>. QED BY <1>1, <2>1, <2>2, <2>3, <2>4, <2>5, PortaFerma
<1>6. ~Clean
  BY AvvioAssumption DEF Clean, Regolare
<1>7. CASE Scade \/ UNCHANGED vars
  <2>1. UNCHANGED <<server, segreteria, studente, portaTxt, porta, portaSeg>>
    BY <1>7 DEF Scade, vars
  <2>. QED BY <1>1, <2>1 DEF PortaDelTurno, Incompiuto, Compiuto
<1>. QED BY <1>3, <1>4, <1>5, <1>6, <1>7, PortaDelServer DEF Next, Parte

-----------------------------------------------------------------------------
(* The lines.  Only accept and connect change them.                        *)
LEMMA LineeFerme ==
  ASSUME LineaPropria, UNCHANGED <<attesa, connfd, linea>>,
         \A k \in Avvii : segreteria'[k] \in {"bind", "ascolta", "attivo"} =>
                            segreteria[k] \in {"bind", "ascolta", "attivo"}
  PROVE  LineaPropria'
  BY DEF LineaPropria, HaLinea

LEMMA LineaAccettata ==
  ASSUME InvPorte, InvLinea, LineaPropria, NEW l \in Avvii, AccettaSegreteria(l)
  PROVE  LineaPropria'
<1>1. attesa \in [Avvii -> Seq(Avvii)] /\ connfd \in [Avvii -> Avvii \cup {Nessuno}]
  BY DEF InvPorte, TipiPorte
<1>2. attesa[l] # <<>> /\ attesa[l] \in Seq(Avvii)
  BY <1>1 DEF AccettaSegreteria
<1>3. Len(attesa[l]) >= 1 /\ Head(attesa[l]) = attesa[l][1]
  BY <1>2
<1>4. Head(attesa[l]) = l
  BY <1>2, <1>3 DEF LineaPropria
<1>5. \A n \in 1..Len(Tail(attesa[l])) : Tail(attesa[l])[n] = l
  <2>1. /\ Len(Tail(attesa[l])) = Len(attesa[l]) - 1
        /\ \A n \in 1..Len(Tail(attesa[l])) : Tail(attesa[l])[n] = attesa[l][n + 1]
    BY <1>2
  <2>2. \A n \in 1..Len(attesa[l]) : attesa[l][n] = l
    BY DEF LineaPropria
  <2>. QED BY <1>2, <2>1, <2>2
<1>6. /\ connfd'[l] = l /\ attesa'[l] = Tail(attesa[l])
      /\ \A k \in Avvii \ {l} : connfd'[k] = connfd[k] /\ attesa'[k] = attesa[k]
      /\ UNCHANGED <<segreteria, linea>>
  BY <1>1, <1>4 DEF AccettaSegreteria
<1>7. ASSUME NEW k \in Avvii
      PROVE  /\ \A n \in 1..Len(attesa'[k]) : attesa'[k][n] = k
             /\ connfd'[k] \in {k, Nessuno}
             /\ segreteria'[k] \in {"bind", "ascolta", "attivo"} => linea'[k] = k /\ HaLinea(k)'
  <2>1. CASE k = l
    BY <1>5, <1>6, <2>1, AvvioAssumption DEF LineaPropria, HaLinea
  <2>2. CASE k # l
    BY <1>6, <2>2 DEF LineaPropria, HaLinea
  <2>. QED BY <2>1, <2>2
<1>. QED BY <1>7 DEF LineaPropria

(* The port the segreteria has read is the one of its own server, if of    *)
(* anybody.                                                                *)
LEMMA LineaConnessa ==
  ASSUME InvPorte, InvLinea, Regolare, NEW l \in Avvii, ConnettiSegreteria(l)
  PROVE  LineaPropria'
<1>1. TipiAvvii /\ InOrdineDiLancio /\ PortaDelTurno /\ LineaPropria
  BY DEF InvLinea
<1>2. attesa \in [Avvii -> Seq(Avvii)]
  BY DEF InvPorte, TipiPorte
<1>3. CASE UNCHANGED <<attesa, linea>> /\ segreteria' = [segreteria EXCEPT ![l] = "fallito"]
  BY <1>1, <1>3, LineeFerme DEF ConnettiSegreteria, TipiAvvii
<1>4. ASSUME NEW j \in Avvii, server[j] = "attivo", porta[j] = portaSeg[l],
             attesa' = [attesa EXCEPT ![j] = Append(@, l)], linea' = [linea EXCEPT ![l] = j],
             segreteria' = [segreteria EXCEPT ![l] = "bind"]
      PROVE  LineaPropria'
  <2>1. segreteria[l] = "connect" /\ connfd' = connfd
    BY DEF ConnettiSegreteria
  <2>2. Incompiuto(l) /\ server[l] \notin {"avviato", "setPorta"}
    BY <1>1, <2>1 DEF Incompiuto, Compiuto, Pronto, Spenti, InOrdineDiLancio
  <2>3. j = l
    BY <1>1, <1>4, <2>1, <2>2 DEF PortaDelTurno
  <2>4. /\ attesa'[l] = Append(attesa[l], l) /\ linea'[l] = l
        /\ \A k \in Avvii \ {l} : /\ attesa'[k] = attesa[k] /\ linea'[k] = linea[k]
                                  /\ segreteria'[k] = segreteria[k]
    BY <1>1, <1>2, <1>4, <2>3 DEF TipiAvvii
  <2>5. /\ Len(attesa'[l]) = Len(attesa[l]) + 1 /\ attesa'[l][Len(attesa[l]) + 1] = l
        /\ \A n \in 1..Len(attesa[l]) : attesa'[l][n] = attesa[l][n]
        /\ Len(attesa[l]) \in Nat
    BY <1>2, <2>4
  <2>6. \A n \in 1..Len(attesa'[l]) : attesa'[l][n] = l
    <3>1. \A n \in 1..Len(attesa[l]) : attesa[l][n] = l
      BY <1>1 DEF LineaPropria
    <3>. QED BY <2>5, <3>1
  <2>7. HaLinea(l)'
    <3>1. Len(attesa'[l]) \in 1..Len(attesa'[l])
      BY <2>5
    <3>2. l # Nessuno /\ attesa'[l][Len(attesa'[l])] = l
      BY <2>6, <3>1, AvvioAssumption DEF Nessuno
    <3>. QED BY <2>4, <3>1, <3>2 DEF HaLinea
  <2>8. ASSUME NEW k \in Avvii \ {l}
        PROVE  segreteria'[k] \in {"bind", "ascolta", "attivo"} => linea'[k] = k /\ HaLinea(k)'
    BY <1>1, <2>1, <2>4 DEF LineaPropria, HaLinea
  <2>. QED BY <1>1, <2>1, <2>4, <2>6, <2>7, <2>8 DEF LineaPropria
<1>. QED BY <1>3, <1>4 DEF ConnettiSegreteria

LEMMA PassoLinea == ASSUME InOrdine, InvPorte, InvLinea, [Next]_vars PROVE InvLinea'
<1>1. TipiAvvii' /\ InOrdineDiLancio' /\ (~sovrapposti' => UnoPerVolta')
  BY LancioInOrdine, UnoAncora
<1>2. ASSUME Regolare' PROVE PortaDelTurno' /\ LineaPropria'
  <2>1. Regolare
    BY <1>2, RegolarePrima
  <2>2. PortaDelTurno'
    BY <1>2, <2>1, PassoTurno
  <2>3. LineaPropria /\ TipiAvvii
    BY <2>1 DEF InvLinea
  <2>4. ASSUME NEW l \in Avvii, LanciaServer(l) \/ Parte(l) \/ UccidiServer(l) \/ UccidiSegreteria(l)
                                \/ EsciStudente(l)
        PROVE  LineaPropria'
    <3>1. CASE AccettaSegreteria(l)
      BY <2>3, <3>1, LineaAccettata
    <3>2. CASE ConnettiSegreteria(l)
      BY <2>1, <3>2, LineaConnessa
    <3>3. CASE ~AccettaSegreteria(l) /\ ~ConnettiSegreteria(l)
      <4>1. UNCHANGED <<attesa, connfd, linea>>
        BY <2>4, <3>3
        DEF Parte, LanciaServer, SetPortaLegge, SetPortaScrive, AscoltaServer, LanciaSegreteria, GetPorta,
            AscoltaSegreteria, ConnettiDB, LanciaStudente, ConnettiStudente, UccidiServer,
            UccidiSegreteria, EsciStudente, varsLinee
      <4>2. \A k \in Avvii : segreteria'[k] \in {"bind", "ascolta", "attivo"} =>
                               segreteria[k] \in {"bind", "ascolta", "attivo"}
        BY <2>3, <2>4, <3>3
        DEF Parte, LanciaServer, SetPortaLegge, SetPortaScrive, AscoltaServer, LanciaSegreteria, GetPorta,
            AscoltaSegreteria, ConnettiDB, LanciaStudente, ConnettiStudente, UccidiServer,
            UccidiSegreteria, EsciStudente, TipiAvvii
      <4>. QED BY <2>3, <4>1, <4>2, LineeFerme
    <3>. QED BY <3>1, <3>2, <3>3
  <2>5. CASE Scade \/ Clean \/ UNCHANGED vars
    BY <2>2, <2>3, <2>5, LineeFerme DEF Scade, Clean, vars, varsLinee
  <2>. QED BY <2>2, <2>4, <2>5 DEF Next
<1>. QED BY <1>1, <1>2 DEF InvLinea

(* Where start.c waits long enough (InOrdine), the segreteria of a run is  *)
(* never given up by its server for another, until runs overlap, clean.sh  *)
(* is run, a server is killed before it wrote its port, or the ports end.  *)
THEOREM LineaSempreMantenuta == ASSUME InOrdine PROVE Spec => []LineaMantenuta
<1>1. InvPorte /\ InvLinea => LineaMantenuta
  <2>1. SUFFICES ASSUME InvPorte, InvLinea, Regolare PROVE LineaDelServer
    BY AvvioAssumption DEF LineaMantenuta, Regolare, InvLinea, TipiAvvii, InvPorte, TipiPorte
  <2>. QED BY <2>1 DEF InvLinea, LineaPropria, LineaDelServer
<1>2. Init => InvLinea
  BY InizioLinea
<1>3. InvPorte /\ InvLinea /\ [Next]_vars => InvLinea'
  BY PassoLinea
<1>. QED BY <1>1, <1>2, <1>3, InvariantePorte, PTL DEF Spec
=============================================================================
