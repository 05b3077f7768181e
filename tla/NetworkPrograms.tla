--------------------------- MODULE NetworkPrograms ---------------------------
(***************************************************************************)
(* The network programs of the course and the reactor's cloud drive, one   *)
(* at a time: part says which one runs.  Those that talk to TCP clients    *)
(* share the variables of TcpClients; the variables that only other parts  *)
(* have are Unused.                                                        *)
(***************************************************************************)
EXTENDS Integers, Sequences, FiniteSets

CONSTANTS
  Clients, Callers,      \* the clients, and those of 04 to 08
  Polite, NoClient, Unused,
  SessTalks, MuxTalks, EchoTalks, CalcTalks, HttpTalks,
  SessRead, MuxRead, EchoRead, CalcRead, HttpRead,
  MaxFailures,           \* of forks, threads and files
  Threads,                                                       \* sess
  Fds, Listener, NoFd, TxCap, MaxEvents,                         \* mux, echo
  IntMin, IntMax, Sep,                                           \* calc
  Files, Dirs,                                                   \* http
  Texts, Words, QuitWords, BufferSize, MaxDatagrams,             \* udp
  Names, Datas, Blocks, MaxRequests, NoFile                      \* drive

VARIABLES
  part,        \* "sess", "mux", "echo", "calc", "http", "udp" or "drive"
  peer, talk, sent, got, backlog, rx, tx, fin, rst,    \* TcpClients
  conn,                                                \* sess, calc
  alive,                                               \* sess, calc, http
  failures,                                            \* sess, http, drive
  fdtab,                                               \* mux, echo
  inbuffer,                                            \* echo, calc
  heard,                                               \* http, udp
  variant, main, sess, holders, cmd, copies, queue,    \* sess
  kind, table, hits, cur, stdin, lost,                 \* mux
  ready, batch, cut, exhausted,                        \* echo
  package, shown, closed,                              \* calc
  thread, reply, g_sessions, raced,                    \* http
  prog, wire, count, _online_users, inbox,             \* udp
  disk, job, at, buf, resp, requests, stored, quiet    \* drive

Sess  == INSTANCE SessionServers WITH
           Clients <- Callers, Talks <- SessTalks, ReadMax <- SessRead
Mux   == INSTANCE MuxServers WITH Talks <- MuxTalks, ReadMax <- MuxRead
Echo  == INSTANCE EdgeEcho WITH Talks <- EchoTalks, ReadMax <- EchoRead
Calc  == INSTANCE Calculator WITH
           Clients <- Callers, Talks <- CalcTalks, ReadMax <- CalcRead
Http  == INSTANCE HttpSessions WITH Talks <- HttpTalks, ReadMax <- HttpRead
Udp   == INSTANCE UdpServers WITH Users <- Callers
Drive == INSTANCE CloudDrive WITH Workers <- Callers

ASSUME NetworkProgramsAssumption ==
  /\ Callers \subseteq Clients
  /\ Sess!TcpClientsAssumption /\ Sess!SessionServersAssumption
  /\ Mux!TcpClientsAssumption /\ Mux!MuxServersAssumption
  /\ Echo!TcpClientsAssumption /\ Echo!EdgeEchoAssumption
  /\ Calc!TcpClientsAssumption /\ Calc!CalculatorAssumption /\ Calc!ProtocolAssumption
  /\ Http!TcpClientsAssumption /\ Http!HttpSessionsAssumption
  /\ Udp!UdpServersAssumption /\ Drive!CloudDriveAssumption
-----------------------------------------------------------------------------
host    == <<peer, talk, sent, got, backlog, rx, tx, fin, rst>>
shared  == <<conn, alive, failures, fdtab, inbuffer, heard>>
ofSess  == <<variant, main, sess, holders, cmd, copies, queue>>
ofMux   == <<kind, table, hits, cur, stdin, lost>>
ofEcho  == <<ready, batch, cut, exhausted>>
ofCalc  == <<package, shown, closed>>
ofHttp  == <<thread, reply, g_sessions, raced>>
ofUdp   == <<prog, wire, count, _online_users, inbox>>
ofDrive == <<disk, job, at, buf, resp, requests, stored, quiet>>

all == <<part, host, shared, ofSess, ofMux, ofEcho, ofCalc, ofHttp, ofUdp, ofDrive>>

(* What stays when a part takes a step. *)
notSess  == <<part, fdtab, inbuffer, heard, ofMux, ofEcho, ofCalc, ofHttp,
             ofUdp, ofDrive>>
notMux   == <<part, conn, alive, failures, inbuffer, heard, ofSess, ofEcho,
             ofCalc, ofHttp, ofUdp, ofDrive>>
notEcho  == <<part, conn, alive, failures, heard, ofSess, ofMux, ofCalc,
             ofHttp, ofUdp, ofDrive>>
notCalc  == <<part, failures, fdtab, heard, ofSess, ofMux, ofEcho, ofHttp,
             ofUdp, ofDrive>>
notHttp  == <<part, conn, fdtab, inbuffer, ofSess, ofMux, ofEcho,
             ofCalc, ofUdp, ofDrive>>
notUdp   == <<part, host, conn, alive, failures, fdtab, inbuffer, ofSess,
             ofMux, ofEcho, ofCalc, ofHttp, ofDrive>>
notDrive == <<part, host, conn, alive, fdtab, inbuffer, heard, ofSess, ofMux,
             ofEcho, ofCalc, ofHttp, ofUdp>>

Off(v) == v = Unused
NoTcp   == Off(peer) /\ Off(talk) /\ Off(sent) /\ Off(got) /\ Off(backlog)
           /\ Off(rx) /\ Off(tx) /\ Off(fin) /\ Off(rst)
NoSess  == Off(variant) /\ Off(main) /\ Off(sess) /\ Off(holders) /\
          Off(cmd) /\ Off(copies) /\ Off(queue)
NoMux   == Off(kind) /\ Off(table) /\ Off(hits) /\ Off(cur) /\ Off(stdin) /\
          Off(lost)
NoEcho  == Off(ready) /\ Off(batch) /\ Off(cut) /\ Off(exhausted)
NoCalc  == Off(package) /\ Off(shown) /\ Off(closed)
NoHttp  == Off(thread) /\ Off(reply) /\ Off(g_sessions) /\ Off(raced)
NoUdp   == Off(prog) /\ Off(wire) /\ Off(count) /\ Off(_online_users) /\
          Off(inbox)
NoDrive == Off(disk) /\ Off(job) /\ Off(at) /\ Off(buf) /\ Off(resp) /\
          Off(requests) /\ Off(stored) /\ Off(quiet)

Init ==
  \/ /\ part = "sess" /\ Sess!Init
     /\ NoMux /\ NoEcho /\ NoCalc /\ NoHttp /\ NoUdp /\ NoDrive
     /\ Off(fdtab) /\ Off(inbuffer) /\ Off(heard)
  \/ /\ part = "mux" /\ Mux!Init
     /\ NoSess /\ NoEcho /\ NoCalc /\ NoHttp /\ NoUdp /\ NoDrive
     /\ Off(conn) /\ Off(alive) /\ Off(failures) /\ Off(inbuffer) /\
        Off(heard)
  \/ /\ part = "echo" /\ Echo!Init
     /\ NoSess /\ NoMux /\ NoCalc /\ NoHttp /\ NoUdp /\ NoDrive
     /\ Off(conn) /\ Off(alive) /\ Off(failures) /\ Off(heard)
  \/ /\ part = "calc" /\ Calc!Init
     /\ NoSess /\ NoMux /\ NoEcho /\ NoHttp /\ NoUdp /\ NoDrive
     /\ Off(failures) /\ Off(fdtab) /\ Off(heard)
  \/ /\ part = "http" /\ Http!Init
     /\ NoSess /\ NoMux /\ NoEcho /\ NoCalc /\ NoUdp /\ NoDrive
     /\ Off(conn) /\ Off(fdtab) /\ Off(inbuffer)
  \/ /\ part = "udp" /\ Udp!Init /\ NoTcp
     /\ NoSess /\ NoMux /\ NoEcho /\ NoCalc /\ NoHttp /\ NoDrive
     /\ Off(conn) /\ Off(alive) /\ Off(failures) /\ Off(fdtab) /\
        Off(inbuffer)
  \/ /\ part = "drive" /\ Drive!Init /\ NoTcp
     /\ NoSess /\ NoMux /\ NoEcho /\ NoCalc /\ NoHttp /\ NoUdp
     /\ Off(conn) /\ Off(alive) /\ Off(fdtab) /\ Off(inbuffer) /\ Off(heard)

(* The steps, by whose they are. *)
Server ==
  \/ part = "sess" /\ Sess!Main /\ UNCHANGED notSess
  \/ part = "mux" /\ Mux!Server /\ UNCHANGED notMux
  \/ part = "echo" /\ Echo!Server /\ UNCHANGED notEcho
  \/ part = "calc" /\ Calc!Server /\ UNCHANGED notCalc
  \/ part = "http" /\ Http!Accept /\ UNCHANGED notHttp

Pool == part = "sess" /\ Sess!PoolTake /\ UNCHANGED notSess

Session(c) ==
  \/ part = "sess" /\ c \in Callers /\ Sess!Session(c) /\ UNCHANGED notSess
  \/ part = "http" /\ Http!Thread(c) /\ UNCHANGED notHttp

Client(c) ==
  \/ part = "sess" /\ c \in Callers /\ Sess!Client(c) /\ UNCHANGED notSess
  \/ part = "mux" /\ Mux!Client(c) /\ UNCHANGED notMux
  \/ part = "echo" /\ Echo!Client(c) /\ UNCHANGED notEcho
  \/ part = "calc" /\ c \in Callers /\ Calc!Client(c) /\ UNCHANGED notCalc
  \/ part = "http" /\ Http!Client(c) /\ UNCHANGED notHttp

(* What nobody schedules: what is typed, a command that may run for ever;  *)
(* the parts without a property about what happens in the end.             *)
Others ==
  \/ \E c \in Callers : part = "sess" /\ Sess!CommandEnds(c) /\ UNCHANGED notSess
  \/ part = "mux" /\ Mux!Type /\ UNCHANGED notMux
  \/ part = "udp" /\ Udp!Next /\ UNCHANGED notUdp
  \/ part = "drive" /\ Drive!Next /\ UNCHANGED notDrive

Next == Server \/ Pool \/ Others \/ \E c \in Clients : Session(c) \/ Client(c)

(* Servers, their processes and threads are scheduled, and the polite      *)
(* clients go on.                                                          *)
Spec ==
  /\ Init /\ [][Next]_all
  /\ WF_all(Server) /\ WF_all(Pool)
  /\ \A c \in Clients : WF_all(Session(c))
  /\ \A c \in Polite : WF_all(Client(c))
-----------------------------------------------------------------------------
(* The properties of the parts: what each says is told in its module.      *)

(* 04 to 07, 11, 12 and 14: the server's processes close a descriptor when *)
(* and only when its session is over, and what keeps the connection open   *)
(* beyond that is a command of 06 or 07; the tables name the descriptors   *)
(* that are open.                                                          *)
DescriptorsAccounted ==
  CASE part = "sess" -> Sess!DescriptorsAccounted
    [] part = "mux" -> Mux!DescriptorsAccounted
    [] part = "echo" -> Echo!DescriptorsAccounted
    [] OTHER -> TRUE

(* Every answer is the answer to what was asked, by whoever asked it; the  *)
(* cloud drive's files are what was uploaded.                              *)
AnswersRight ==
  CASE part = "sess" -> Sess!AnswersRight
    [] part = "echo" -> Echo!AnswersRight
    [] part = "calc" -> Calc!AnswersRight
    [] part = "http" -> Http!AnswersRight
    [] part = "udp" -> Udp!AnswersRight
    [] part = "drive" -> Drive!DriveRight
    [] OTHER -> TRUE

(* 14: no input and no connection waits without an event to come. *)
NothingMissed == part = "echo" => Echo!NothingMissed

(* A polite client gets what it asked for and can leave, whatever the      *)
(* others do, unless it is blocked for ever in the way its module tells.   *)
Served(c) ==
  CASE part = "sess" -> Sess!Served(c)
    [] part = "mux" -> Mux!Served(c)
    [] part = "echo" -> Echo!Served(c)
    [] part = "calc" -> Calc!Served(c)
    [] part = "http" -> Http!Served(c)
    [] OTHER -> TRUE
Blocked(c) ==
  CASE part = "sess" -> Sess!Blocked(c)
    [] part = "mux" -> Mux!Blocked(c)
    [] part = "calc" -> Calc!Blocked(c)
    [] part = "http" -> Http!Blocked(c)
    [] OTHER -> FALSE
EveryoneServed == \A c \in Polite : <>Served(c) \/ <>[]Blocked(c)
=============================================================================
