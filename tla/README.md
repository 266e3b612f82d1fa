# TLA+ model of the university exam system

The repository is a university exam service in C over TCP sockets and MySQL: *students* look up
exam dates (*appelli*) and book them through the *segreteria* (the registrar's office), which
forwards the bookings, and the new appelli that its operator types, to the *server*. This directory
holds TLA+ modules of the three programs and of what they share, the TLC runs over them and the
TLAPS proofs about them. Paths below are relative to the repository; names in the modules are those
of the code where it has one.

## Inventory

| part | source | state it keeps | operations |
|---|---|---|---|
| student | `codice/studente.c` | socket, matricola, current choice | connect, login, view (all / by name), book, logout |
| segreteria | `codice/segreteria.c` | `client_sockets[4096]`, `dim`, `master_set`, `read_set`, `max_fd`, and locals `behaviour`, `req`, `cod`, `mat`, `password` that outlive a client | accept and login, serve one request per readable client, forward a booking, logout, console: insert an appello |
| server | `codice/server.c` | `connfd`, the stack of its two handlers | accept the segreteria, `aggiungiAppello`, `aggiungiPrenotazione` |
| database | `sql/ddl.sql`, queries in the two servers | tables `appello`, `prenota` (written), `esame`, `studente`, `supera` (read) | login, view, exam by name, insert appello, check and insert booking |
| connections | the kernel, as the programs use it | one TCP stream per student, one from the segreteria to the server, backlog of `listen` | connect, accept, read, write, close, RST, SIGPIPE |
| start-up | `codice/start.c`, `codice/script/`, `codice/porta/porta.txt`, `setPorta`/`getPorta` of `codice/libreria/wrapper.c` | the port number in a file | launch three processes one second apart, take the next port, find the port of the server |
| wrapper library | `codice/libreria/wrapper.{c,h}` | none | system calls with an exit; `FullRead`/`FullWrite`, which nobody calls |

Outside the inventory: `codice/mysql` and `connector_j` (third-party headers), `codice/cmake-build-debug`
(generated), `.idea`, the documentation's images.

How they interact. Each student has a connection to the segreteria; the segreteria has one to the
server, on which the dialogues of all students and of the operator follow one another without
framing or identifiers. Segreteria and server query the same database on their own connections.
All three programs are sequential; every `read` blocks the whole process.

What is hard:

- *one loop for everybody*: a blocking read of one student's next message is a wait for all;
- *values that survive*: `read` results are ignored, so at the end of a connection a variable keeps
  what another student, or another turn, left in it;
- *descriptors*: refused logins keep theirs, logouts free them, the kernel reuses the numbers;
- *one line to the server*: a request or an answer too many shifts every later dialogue;
- *going away*: SIGPIPE is not handled, EOF is not noticed, queries that fail are used all the same;
- *bytes without boundaries*: two texts written one after the other may be read as one.

What makes each part correct: a student gets the outcome of his own request, and gets one; the
segreteria serves each logged-in student on a descriptor of his own until he logs out, never blocks
where `select` promised data, and comes back to the console; the server makes the bookings it was
asked for, as often as it was asked, and says so only if it did; the two never wait for each other.

## Modules

| module | models | notes |
|---|---|---|
| `Universita` | tables and queries | tables without a key are bags; ints are compared with the text column `mat_studente` as MySQL does: as numbers when unquoted (login), as texts when quoted (view, booking), hence `[zeri, num]` for a text with leading zeros |
| `Rete` | connections | streams `su`/`giu`, backlog `coda`, closed ends, resets, SIGPIPE; faults are counted here |
| `Studente` | `studente.c` | one process per element of `Proc` |
| `Segreteria` | `segreteria.c` | the whole loop |
| `Server` | `server.c` | the loop and both handlers |
| `Sistema` | the three together | `Init`, `Next`, fairness, type invariant, properties |
| `Sportello` | | the booking desk `Sistema` implements: who may book, one decision for each request, one delivery |
| `MCSistema` | | a small database for TLC |
| `Avvio` | `start.c`, the scripts, `setPorta`/`getPorta`, the code of the three programs before their loops, `server.c`'s accept | runs of `start.sh`, in order or overlapping |
| `SistemaProofs`, `LetturaProofs`, `PostiProofs` | | theorems about `Sistema`: descriptors, reads that do not block, places of connections |
| `LineaProofs` | | theorems about the line to the server and what is on it |
| `DialogoProofs` | | the protocol between students and segreteria, and what follows from it |
| `TipiProofs` | | types, confirmations, sessions |
| `PrenotazioniProofs` | | outcomes, the count of bookings, the refinement of `Sportello` |
| `AvvioProofs` | | theorems about `Avvio` |

**Steps.** An action goes from one blocking point (a prompt, a `read`, `select`) to the next and does
everything the code does in between, queries and writes included. `pcS`, `pcG` and `pcU` say where
each process is blocked. The pairs of reads that belong together (matricola and password; code and
matricola) are one action, because their writes are one stretch without a prompt.

**Segreteria.** A turn of the loop is `Accetta`/`AccettaFallita`/`Sfora` and `Login` as long as
somebody waits (`"giro"` for the first `select` of the turn, which looks at `master_set`; `"ancora"`
for the next ones, which can only shrink the `read_set` they are given), then `NessunaAttesa`, the loop over the
clients (`Salta`, `LeggiScelta`, `LeggiReq`, `LeggiNome`, `LeggiDati`, `InoltraEsito`, `FineScorri`)
and the console (`Continua`, or `NuovoAppello`, `DigitaNomeAppello`, `DigitaData`,
`EsitoInserimento`). `fdConn` is the kernel's descriptor table for the students' sockets; `accept`
takes the lowest free one. `dim` and `i` are those of the code; entry `k` of the model is entry
`k-1` of the array.

**Uninitialised and stale values.** The scripts compile without optimisation, so a scalar of `main`
has a stack slot of its own and keeps its last value from one turn to the next, also when it is
declared inside a block (`req`, `cod`, `mat`); before its first use it holds `Residuo`. The locals of
the server's handlers live in frames that other calls overwrite: there each use is a choice between
the last value and `Residuo`.

**Connections.** A stream element stands for the writes a process makes in a row. A read of a closed
and drained stream returns 0 and leaves the buffer as it was. The answers of the server, and the
name of an exam, are read into buffers larger than a message, so such a read may take several
elements (`Presi`). A write to a connection whose other end is closed is lost and draws a RST; the
next write raises SIGPIPE, which kills the process (`Sigpipe` counts the writes in a row, so the
several writes of a view can be fatal by themselves; a write of nothing draws no RST, but is fatal after
one). Closing with unread data sends a RST.

**Faults** (`Guasti`, at most `MaxGuasti`): any process is killed at any blocking point, any query
fails. A query that fails in `aggiungiPrenotazione`, `aggiungiAppello` or the login leads to
`mysql_num_rows(NULL)` or `mysql_fetch_row(NULL)`, and the process dies.

**History.** `chieste` counts the bookings a user asked for; the elements of the reply streams carry
the request they answer. Properties read them, no action does.

**The booking desk.** `Sportello` has the two tables and `aperte`, what each student is waiting for.
A request is decided once, entered once if it is accepted, and delivered as it was decided. It must
be accepted if the student has the right to it (`Diritto`) and may only be if the exam has a date to
come and the student exists (`Possibile`); in between lie the year and the passed exams, which the
query of the server does not look at (`server.c:237`, 244). The refinement mapping of `Sistema`
(`Prenotazioni`) opens the booking of a student while he is in `"attendeEsito"` and takes it as
decided as soon as the answer is on the line to the segreteria (when the entry being served is his)
or in his own stream; all else is a stutter. So a decision that is dropped, doubled, swapped between
two students or given to the dialogue of the operator is a step the desk does not have.

**Start-up.** In `Avvio` a process is a state per run of `start.sh`, from `"fermo"` to its loop
(`"attivo"`) or its end. `SetPortaLegge` and `SetPortaScrive` are the two halves of `setPorta`, which
writes only at `fclose`; `AscoltaServer`, `GetPorta`, `ConnettiSegreteria`, `AscoltaSegreteria`,
`ConnettiDB` and `ConnettiStudente` are the calls in the order of the code: the segreteria connects
to the server before it knows whether its own port is free, and the database may refuse it after that
(`segreteria.c:68`, 76; counted with the deaths). `attesa` is the backlog of a server,
`AccettaSegreteria` overwrites `connfd`. Ports are cut to `Modulo` numbers (`htons`), port 0 is one
the kernel chooses and nobody learns, low ones are refused. No socket has `SO_REUSEADDR`: a port is
taken while a process listens on it and while closed connections of it are in TIME_WAIT
(`timeWait`). `InOrdine` says that the second the launcher waits is enough for what it launched
before; with `FALSE` the scripts are started by hand, in any order. `corsa` and `sovrapposti` are
history: two servers in `setPorta` at once, two runs of `start.sh` that overlap. A server never gets
the port of the segreteria in `Avvio`: that takes some 64 thousand starts.

### Left out of the modelled parts

Users type numbers where numbers are asked and the end of standard input is not modelled. Empty lines
are: a name (`segreteria.c:416`, `studente.c:147`) or a date (`segreteria.c:425`) that is empty is a
`write` of nothing (`Vuoto`). A password is written with a fixed length. A process
is not killed between two writes of one stretch. The wording of the outcomes is reduced to their
kind; the texts in `result` and `res` of the programs are not modelled: what a short outcome leaves of a longer one is seen on
the console only. `Sistema` starts where `Avvio` ends, with one segreteria connected to one server;
a second one, restarts and TIME_WAIT are in `Avvio`. `prenota` starts empty: it
counts the bookings made during a behaviour, and no query of the program reads it.

## Runs

The runs of `Sistema` use `MCSistema`: two exams (years 1 and 2), two students, a past and a future date, one
appello for the future one. `Residuo` (99) is no exam and no matricola.

| run | setting | shows |
|---|---|---|
| `Servizio` | 2 students, every choice, right and wrong credentials, 1 insertion, no empty line, an operator who waits before the date, no fault, deadlock checked | `EsitoProprio`, `PrenotazioniRichieste`, `LineaInPari`, `NessunaAttesaReciproca`, `TypeOK`; `RealizzaSportello`, the refinement, with a student who passed the exam |
| `Guasti` | 2 students, every choice, every view and a request that does not exist, 1 insertion, names and dates that may be empty, a date that may come too soon, any one fault | `DescrittoriDistinti`, `SessioneGenuina`, `SceltaMaiBloccante`, `LineaInPari`, `ConfermaRegistrata`, `SessioneAperta`, `NessunoDimenticato`, `AttesaSoloDiTesti`, `SessioneConclusa`, `TypeOK` |
| `Limiti` | 3 students, 2 descriptors, 2 entries | `DescrittoriDistinti`, `ConnessioneUnica`, `SessioneAperta` with failing accepts and the array overrun |
| `Risposte` | 2 students, view by name and booking, backlog of one, 1 insertion, names and dates that may be empty, one death of a student or the server, fairness | `RichiestaServita`, `ConnessioneAccolta`, `ConsoleRaggiunta` |
| `Avvio` | 2 runs of `start.sh`, 8 ports of which 2 are reserved, a port file that wraps or does not, 1 death or refusal of the database, 1 `clean.sh`, fairness | `PortaLibera`, `LineaMantenuta`, `StudenteCollegato` |

`NessunoDimenticato` says of a state what `RichiestaServita` says of a behaviour, and needs neither
fairness nor users who answer: whoever waits has his request in the backlog or behind a live entry,
or is being served, or has his answer, whatever faults happen; only a query that fails and a request
that does not exist drop him.

**Waiting for each other.** The code can stop for good: after an empty date the server is in the read
of the date (`server.c:163`) and the segreteria in that of the outcome (`segreteria.c:430`); after an
empty name too, or when name and date are read as one text (`NomeEData`); and after a view by an empty
name the segreteria and the student wait for each other (`segreteria.c:283`, `studente.c:155`). Two
invariants share this. `NessunaAttesaReciproca`, checked by `Servizio`, has as hypothesis that nobody
types an empty line and that the operator waits before the date. `AttesaSoloDiTesti`, checked by
`Guasti`, has no hypothesis, and says that these are the only waits: `TestoMancante` and
`NomeMancante`, never one over a number, a booking or an answer. The three properties of `Risposte`
have the same waits as their one exception (`FermiPerUnTesto`), and only when they last for ever: who
waits is served again when the death of a process ends such a wait.

`TypeOK` says more than types: the streams are untyped bytes in the code, and an element of the
wrong kind at a read, such as an answer in the place of another, shows up as a value outside it.

Seven runs find that the code does not do what a comment, or the text of its own query, says:

| run | property | the code |
|---|---|---|
| `AbbandonoFatale` | `CicloInfinito` | a student who leaves before his answer kills the segreteria by SIGPIPE (`segreteria.c:357`, and 263-265) |
| `PrenotazioneDoppia` | `PrenotazioniRichieste` | EOF is taken for a repetition of the last choice: a booking is made again each turn (`segreteria.c:210`, 340) |
| `UtenteInerte` | `RichiestaServita` | a user who stops at the login, or half way through a request, blocks everybody (`segreteria.c:148`, 221, 340) |
| `NomeEData` | `NessunaAttesaReciproca` | name and date read as one text, then both programs wait (`server.c:158`) |
| `NomeIgnoto` | `AppelloDelNome` | an unknown name adds an appello to another exam (`server.c:170`) |
| `EsameSuperato` | `SuperatiEsclusi` | swapped arguments let a student book an exam he passed (`server.c:244`) |
| `SegreteriaOrfana` | `LineaDelServer` | a second segreteria takes the only `connfd` of the server from the one that runs (`server.c:108`), even when its own `bind` is about to be refused |

`PrenotazioniRichieste` and `NessunaAttesaReciproca` therefore hold under the assumptions of
`Servizio` (no student dies; the date is typed after the server read the name, `OperatoreLento`), and
`PrenotazioneDoppia` and `NomeEData` drop one assumption each and show that it is needed. The
assumptions are constants; the actions are the same in all runs. Likewise `LineaMantenuta` is
`LineaDelServer` for runs of `start.sh` that do not overlap, as long as the port file is in order and
the numbers last: after 2^16 starts a server may find the port of one that still runs, and the
segreteria of its run connects to that one. This last exception came out of the attempt to prove the
property without it: the two runs of `Avvio` are too few to meet it, four of them with `Modulo = 3` do.

**Bounds.** Two students are enough for one to be served while the other waits, dies or reuses a
descriptor; the third one of `Limiti` finds descriptors and entries exhausted by the first two. One
choice per student besides the logout (`MaxScelte`; a stale choice can be repeated without bound),
one insertion. One fault: the properties under faults are about what survivors do after it. `MaxFd`
and `DimArray` stand for the descriptor limit and for 4096 and are out of reach in `Servizio`,
`Guasti` and `Risposte`, reached in `Limiti`. In `Avvio` two runs are enough for one to meet what the other left (its port,
its segreteria, its TIME_WAIT); from 7 the port number goes to 8, which `htons` makes 0, and to 9,
which it makes a reserved port. `Risposte` leaves out the logout and the view of all
exams to stay small: both take fewer steps than those it has. Its `Richieste` leave out a request
other than 1 and 2, after which the student does wait for ever (`NessunoDimenticato` in the run
`Guasti` names the case), and its operator waits before the date; what a date typed too soon may do is
in `Guasti`. No symmetry is used.

**Fairness.** `EquitaProgrammi`: a program that is not blocked goes on (the scheduler), weakly fair
per process. `EquitaOperatore`: the operator answers the prompts; the console is on the only loop,
so without it nobody is served, by design of the program. `EquitaUtenti`: a user at a prompt inside an
operation finishes it. Nothing forces a choice at the main menu, a logout, a new appello or a fault.
`UtenteInerte` drops `EquitaUtenti` and shows it cannot be dropped. `SpecBase` has no fairness and
is used for safety. In `Avvio` only what goes on by itself after a launch is fair (`Parte`), never a
launch of `start.sh`, a death, a logout or the end of TIME_WAIT.

## Proofs

### The descriptors

`SistemaProofs` proves, for every number of students, descriptors, entries, faults and for every
database, from `ReteAssumption` and `SegreteriaAssumption` (a connection to the server that is no
student's; `MaxFd` and `DimArray` natural numbers):

- `InvarianteDescrittori`: `SpecBase => []IInv`;
- `DescrittoriSempreDistinti`: `SpecBase => []DescrittoriDistinti`, the property of `Guasti` and
  `Limiti`.

`DescrittoriDistinti` is not inductive: nothing in it says that the descriptor `accept` returns is
not in a live entry, nor that the entry which a login makes live is not a copy of another. `IInv` is
the conjunction of

- `Tipi`, what the argument needs of the types;
- `Unica`: a connection is at most once in the backlog or behind one descriptor, and nowhere before
  its student connects, so `accept` cannot hand out a connection twice;
- `Tabella`: live entries have open descriptors, pairwise different, in `master_set` and not above `max_fd`;
- `InAccesso`: while a login is read, entry `dim` (above the live ones) has such a descriptor too,
  different from all of theirs.

A free descriptor is not open, so by `Tabella` no live entry has the one `Accetta` takes; `Login`
turns `InAccesso` into `Tabella` for one more entry; the logout in `LeggiScelta` closes a descriptor
that by `Tabella` only its own entry has. One lemma per action that touches the table
(`PassoAccetta`, `PassoAccettaFallita`, `PassoLogin`, `PassoLeggiScelta`, `PassoTermina`,
`Connessione`), one for the rest (`TavolaFerma`, `StudenteConnesso`). `IInv` also holds as an
invariant of the runs `Guasti` and `Limiti` under TLC.

### What select found is still there

`LetturaProofs`, from the same assumptions: `SceltaNonBloccaMai`, `SpecBase => []SceltaMaiBloccante`.
The property is about the entry the loop is at; its step to the next entry needs the same of all
entries still to come. `Lettura` says that: in `"scorri"` from entry `i` on, and while the request of
entry `i` is half read (`"req"`, `"nomeEsame"`, `"dati"`, `"esito"`) after it, what is in `read_set`
is readable (`Leggibile`); the entry being served is live (`ServitoVivo`). Students and server only
add to what the segreteria may read (`Cresce`, `LetturaFerma`); a step on entry `i` takes from the
connection of `i`, which by `IInv` is no other live entry's (`ClientiDistinti`, `UnaVoce`); the last
`select` of a turn establishes it (`LetturaSelect`). Accepts and logins come before that, which is
why they cannot disturb it.

### No connection is lost or doubled

`PostiProofs`: `ConnessioneSempreUnica`, `SpecBase => []ConnessioneUnica`. `Unica`, of `IInv`, bounds
the places of a connection by one. `Posto` adds that there is one exactly from `connect` until the
segreteria closes it or ends: `accept` moves it (`PostoAccetta`), a logout gives up the only place
(`PostoLogout`), and an accept that fails leaves the backlog alone.

### A free port for every server

`AvvioProofs`, from `AvvioAssumption`: `PortaSempreLibera`, `Spec => []PortaLibera`, for any number
of runs of `start.sh`. The invariant `InvPorte`: a server in `setPorta` has read what the file still
holds, and is alone there (`UnoAllaVolta`); ports in use or in TIME_WAIT are not above the number in
the file (`UltimaPorta`); the port of a server about to bind is nobody else's (`PortaNuova`). The
first part must hold also when the numbers run out, the others only below the modulus. The three
exceptions of the property are the three ways to break the induction: a lost update
(`corsa`), a file set back (`clean.sh`), a wrap.

### Runs of start.sh that keep to themselves

`AvvioProofs`: `LineaSempreMantenuta`, `ASSUME InOrdine PROVE Spec => []LineaMantenuta`. `InOrdine`
is what `start.c:30` relies on when it sleeps one second after each launch; with scripts started by
hand a second segreteria can read the same port (`SegreteriaOrfana`), without any of the exceptions
of the property. `InvLinea`, on top of `InvPorte`, in three parts:

- `InOrdineDiLancio`: the programs of a run are launched when the one before is ready;
- `UnoPerVolta`, while runs do not overlap: at most one run is under way (`Incompiuto`), so two
  servers are never in `setPorta` at once (`corsa` stays false) and a segreteria reads the file
  between the write of its own server and the next launch;
- `PortaDelTurno` and `LineaPropria`, while nothing else went wrong (`Regolare`): the port in the file
  is not one on which another server listens, and the segreteria of the run under way has read that
  one. So whoever connects finds its own server or nobody, and a backlog and a `connfd` only ever
  hold the segreteria of the same run: that `accept` overwrites `connfd` does no harm.

`Regolare` only ever ends (`RegolarePrima`), which makes the implication inductive. That the new port
is nobody else's comes from `UltimaPorta`: the two theorems about the start-up need each other's order.

### The line to the server

`LineaProofs`. `InvarianteLinea`: `SpecBase => [](IInv /\ Lettura /\ Linea)`, and from it
`LineaSempreInPari`, `SpecBase => []LineaInPari`. The property is about the moments between two
dialogues and nothing in it survives a dialogue, so `Fase` says for every `pcG` what is on the line
and where the server is: `Aperto1(k, n)`, n items of which the server has read none and the first is
the choice k; `Letto(stato, n)`, the server at `stato` with n still to read; `Risposto`, the answer
waits. `Scambio` claims it as long as both programs live; `Collegati` says who has closed. The case
of an operator who types the date too soon (and those of an empty name or date) is the disjunct `~Puntuale`:
the line is in step even then, since the segreteria does not leave `"esitoAppello"` without an
answer. The invariant has one lemma per way to touch the line: a write of the segreteria
(`LineaScritta`), or of nothing (`LineaVuota`), its read of the answers (`LineaLetta`), each read of the server (`LineaRichiesta`,
`LineaNome`, `LineaRisposta`), and `LineaFerma` for the rest.

`InvarianteRisposte` adds what the items are. `Voci`: what a live server has still to read, also when
the segreteria has ended in the middle of a dialogue; the booking it is about to read is the one in
`seg_mat` and `seg_cod` (`InMano`). `Risposte`: the answers on the line are outcomes, apart from the
one to an insertion; while no query has failed there is one at most, about the booking in hand.

### The dialogue with a student

`DialogoProofs`, `InvarianteDialogo`: `SpecBase => []Intesa`, where `Intesa` joins all the above with
`Dialogo`. Two programs that write without waiting for each other are tied by what is in between:

- `Turno(p)`: the kind of item the segreteria reads next from p, from the backlog, the entries, `pcG`
  and `i`; `"nulla"` once he was refused or logged out;
- `Catena(su[p], Turno(p))`: the items p sent and nobody read follow one another as the protocol
  says, from the kind that is expected; `Seguito(v)` is what follows item v, a further item or a
  reply, and `Poi` what follows all of them;
- `Accordo(p)`: at a prompt, `Poi` is the item asked there and no reply waits. A student who waits
  is still to be served, with `Poi` the reply he waits for (`DaServireAncora`), or has been, with
  nothing sent and one reply of that kind (`Servito`); the cases without reply (an empty name, a view
  that does not exist or whose query failed) are disjuncts of these. `Congedo`: a student who was not
  killed ends only after a logout, which is then the last thing he sent, or a refusal;
- `Ultimo(p)`: the last item holds what `mat`, `cod` and `reqS` hold;
- `Chiusura(p)`: who closed the connection, and what that says of the other side.

`Accordo` and `Ultimo` are claimed while the segreteria lives and has not closed p's connection. A step of p
adds an item in order (`CatenaScritta`, `StudenteScrive`) or takes the reply (`StudenteLegge`), a
step of the segreteria takes the first item (`CatenaLetta`, `SegreteriaLegge`) and moves `Turno` to
its `Seguito` or replies; that it moves nobody else's `Turno` is what `IInv` is needed for. From
`Intesa`:

- `MaiDimenticato`, `SpecBase => []NessunoDimenticato`, under all faults;
- `AttesaSempreDiTesti`, `SpecBase => []AttesaSoloDiTesti`, whatever is typed and under all faults.
  Whoever two programs wait over, `Fase` and `Accordo` leave only the dialogue of an appello without
  its text (`AttesaConServer`) and the view whose name is expected (`AttesaConStudente`);
- `MaiAttesaReciproca`, `ASSUME Puntuale PROVE SpecBase => []NessunaAttesaReciproca`, under all
  faults. `Puntuale` is `OperatoreLento` and no empty line among `Nomi` and `Giorni`: the run
  `NomeEData` shows the first is needed, and with an empty line the two do wait (see "Runs");
- `SessioneSempreAperta`, `SpecBase => []SessioneAperta`: `Aperte` carries it over the end of the
  segreteria, when `Accordo` is no longer claimed.

### Types, confirmations, sessions

`TipiProofs`. `InvarianteTipi`: `SpecBase => [](Intesa /\ Tipato)`. Types are not inductive alone: a read
takes the field it expects, and that the item has this field is what `Catena` says (`VoceAttesa`).
`TipiSempreGiusti` is `SpecBase => []TypeOK`. In `Tipato` the replies are in `Vere`, those of which a
confirmation has its row in `prenota`, which only grows (`VereCrescono`): hence `ConfermaSempreVera`,
`SpecBase => []ConfermaRegistrata`.

`SessioneSempreGenuina`, `SpecBase => []SessioneGenuina`, with the invariant `Genuina`. What makes it
delicate is a student who leaves before he sends credentials: he is checked against the matricola
left in the entry and the last `password`. Either the entry was never used and holds `Residuo`, or
it was refused with that very password (`LoginGenuino`).

`SessioneMaiTolta`, `SpecBase => SessioneConclusa`, an action property: an entry goes with its own
logout, and a choice 3 left in `behaviour` by another can only be used for a student who has ended
(`LogoutProprio`).

### Outcomes and bookings

`PrenotazioniProofs`:

- `EsitoSempreProprio`, `SpecBase => []("query" \notin guasti => EsitoProprio)`, whoever is killed.
  `Propria` ties `seg_mat` and `seg_cod` to the student who is served, `Risposte` the answer to them,
  `EsitiPropri` what was delivered to what he asked. Without the hypothesis it is false: the query of
  `aggiungiPrenotazione` that fails writes two error texts before the server dies, one of them stays
  on the line and is read as the answer to the next booking.
- `PrenotazioniSempreRichieste`, `SpecBase => [](NessunoUcciso => PrenotazioniRichieste)`, where
  `NessunoUcciso` says that no student and not the segreteria was killed; the server and any query may fail. The
  property compares a table with a history that is written long before, so `Conto(m, e)` counts what
  is in between: bookings made plus `Pendenti`, the students whose stream ends with the booking and
  the one on the line to the server, are at most those asked. Typing adds one to both sides
  (`ContoChiesto`), `LeggiDati` moves one from the student to the line (`ContoPassato`,
  `DatiPassati`), `AggiungiPrenotazione` from the line to the table (`ContoFatto`). `AttesaDati` says
  that the server waits for the data of a booking only while the segreteria does, so it never books
  what an earlier call left on its stack. Both parts of the hypothesis are needed: a student who is
  killed leaves an end of file that repeats his booking (`PrenotazioneDoppia`), and a segreteria
  killed between the choice and the data leaves the server to book with what `id` and `mat` held.

### The booking desk

`PrenotazioniProofs`: `SportelloRealizzato`, `ASSUME Guasti = {}, SuperaOrdinata PROVE SpecBase =>
RealizzaSportello`. The mapping `Prenotazioni` is in `Sistema` (see above). The initial states map to
initial states, and a step maps to a step of the desk or a stutter (`BancoStudente`, `BancoServer`,
`BancoInoltra`, `BancoSegreteria`):

| step of `Sistema` | step of `Sportello` |
|---|---|
| `DigitaCod`, the student types the code and writes it | `Chiedi` |
| `AggiungiPrenotazione`, the server runs the query, inserts the row and answers | `Accetta` or `Rifiuta` |
| `InoltraEsito`, the answer goes from the line to the student's stream | stutter |
| `RiceviEsito`, the student reads it | `Consegna` |
| `AggiungiAppello`, the server inserts what the operator typed | `AppelloAggiunto` |
| all others | stutter |

A step of the server decides the booking in hand and no other (`PrenotazioneServita`): the data it
reads is that of the student being served (`Propria`, `Voci`), who is still there and waits
(`InCorsoPresente`), and the outcome is not yet on the line. The step `InoltraEsito` is a stutter
because the decision counts the same on the line and in the student's stream, and because the line
holds no answer meant for anybody else (`Linea`, `Risposte`). `Regola` compares the query with the
rule of the desk: what the query accepts is `Possibile`, and it accepts what has `Diritto`.

`Sereno` and `Decisi` are the two invariants this needs beyond the earlier ones: where nothing fails
nobody ends while another waits for him, so that no reply meets a closed connection; and what lies
on the way to a student who waits is a decision, not the text of a failed query. Hence the two hypotheses:

- `Guasti = {}`. A student who is killed leaves a request that is never delivered, a query that fails
  in the middle of a booking leaves a text that is no decision: the desk has neither. Nothing else
  is assumed: any number of students, choices and insertions, an operator who types too soon, names
  that are unknown, empty lines, descriptors and entries that run out.
- `SuperaOrdinata`: nobody whose matricola reads as an exam code passed an exam whose code reads as
  a number a student may type. The query of `server.c:244` swaps the two, so that student n who books
  exam e would be refused, though he has the right to it, because a student "e" passed exam n. No
  matricola in `sql/ddl.sql` is an exam code (12410 to 12413);
  nothing in the code keeps them so. That the swap lets in who passed the exam is the run `EsameSuperato`;
  the desk allows it (`Possibile`).

`Linea`, `Dialogo`, `Tipato`, `Esiti` and `Contate` were checked as invariants of `Guasti` with TLC
before they were proved, `Sereno` and `Decisi` of `Servizio`, the parts of `InvLinea` of `Avvio` with
three runs and two deaths.

### Only model-checked

Liveness under fairness (`RichiestaServita`, `ConnessioneAccolta`, `ConsoleRaggiunta`,
`StudenteCollegato`) is out of the reach of the prover, as is what depends on ENABLED. All invariants,
the action property and the refinement of the passing runs are theorems.

## Not modelled

- `FullRead`, `FullWrite` (`wrapper.c:80-117`) and the other wrappers that no program calls
  (`setInet`, `connessioneSocket`, `Read`, `Write`, `accettaConnessione`, `connessioneDB`): the
  programs use `getSocket`, `getListenSocket`, `bindListener`, `setPorta` and `getPorta` only.
- The texts of the outcomes and the layout of what is printed (see above).
- `connection()` of `server.c:291-311`, which opens a connection to MySQL for each request: it
  either gives one or ends the handler like a failing query.
- `codice/mysql` and `connector_j`: some 29,500 of the about 30,800 lines of C here are headers of
  the MySQL client library. They hold declarations and error numbers, none of this system's
  behaviour; the calls the programs make are modelled from their use. The system's own code is
  about 1,300 lines, and the modules stand for the greater part of them.
- Build files, IDE settings, images.

## State of the plan

Done: connections, database, the three programs and their composition; the start-up with restarts
and a second segreteria; the abstract booking desk and the refinement; all safety properties of
`Sistema` and `Avvio` that a passing run checks are theorems, as is the refinement. Left: the composition
of `Avvio` with the loop of `Sistema`; what follows from `EquitaProgrammi` alone, which only TLC checks.
