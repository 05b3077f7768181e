--------------------------- MODULE SessionServers ---------------------------
(***************************************************************************)
(* The servers of 04 to 07: the same session, read a piece and answer it,  *)
(* run by the accepting thread itself ("inline"), by a grandchild process  *)
(* ("process"), by a detached thread ("thread") or by one of Threads pool  *)
(* threads ("pool").  04 and 05 echo, 06 and 07 execute commands: popen    *)
(* forks a shell, which inherits a copy of every connection that is open,  *)
(* and the session waits for it to end.                                    *)
(***************************************************************************)
EXTENDS TcpClients, FiniteSetsExt

CONSTANTS ReadMax,      \* sizeof(buffer) - 1, server and client
          Threads,      \* _thread_num of the pool
          MaxFailures,  \* bound: forks and thread creations that fail
          NoClient

SessionServersAssumption ==
  /\ ReadMax \in Nat \ {0} /\ Threads \in Nat \ {0} /\ MaxFailures \in Nat
  /\ NoClient \notin Clients
  /\ \A t \in Talks : \A c \in Clients : t[c] \in Seq(Seq(STRING))

VARIABLES
  variant,
  main,         \* the accepting process: "accept", "serve", "fork", "close", "wait"
  conn,         \* its sockfd
  sess,         \* each connection's session
  holders,      \* the server's processes that have its descriptor open
  cmd,          \* the piece read whose command runs, <<>> without one
  copies,       \* the connections the running command has copies of
  queue,        \* _task_queue
  alive,        \* FALSE: SIGPIPE has killed the server
  failures      \* forks and creations that have failed

commandVars == <<cmd, copies>>
serverVars == <<variant, main, conn, sess, holders, commandVars, queue, alive, failures>>
vars == <<hostVars, serverVars>>

Init ==
  /\ HostInit
  /\ variant \in {"inline", "process", "thread", "pool"}
  /\ main = "accept" /\ conn = NoClient
  /\ sess = [c \in Clients |-> "none"]
  /\ holders = [c \in Clients |-> {}]
  /\ cmd = [c \in Clients |-> <<>>] /\ copies = [c \in Clients |-> {}]
  /\ queue = <<>>
  /\ alive = TRUE
  /\ failures = 0

-----------------------------------------------------------------------------
(* The client of 04 and 05: a line, one read of the answer, the next line. *)
LineEnd(c, i) == Len(FlattenSeq(SubSeq(talk[c], 1, i)))
Asking(c) == Len(got[c]) < Len(talk[c])

ClientWrite(c) ==
  /\ Asking(c) /\ sent[c] < LineEnd(c, Len(got[c]) + 1)
  /\ Send(c)
ClientRead(c) ==
  /\ Asking(c) /\ sent[c] = LineEnd(c, Len(got[c]) + 1)
  /\ Receive(c, ReadMax)

(* The connection is closed on the server's side: the server has done so,  *)
(* or has died, and no command has a copy.                                 *)
Copied(c, others) == \E d \in others : c \in copies[d]
Closed(c) ==
  /\ ~alive \/ (sess[c] # "none" /\ holders[c] = {})
  /\ ~Copied(c, Clients)

ClientQuit(c) ==
  /\ ~Asking(c) \/ (tx[c] = <<>> /\ Closed(c))
  /\ Leave(c)

Client(c) ==
  /\ \/ Connect(c) \/ Refuse(c)
     \/ c \in Polite /\ (ClientWrite(c) \/ ClientRead(c) \/ ClientQuit(c))
     \/ c \notin Polite /\ (Send(c) \/ Receive(c, ReadMax) \/ Leave(c))
  /\ UNCHANGED serverVars

-----------------------------------------------------------------------------
(* The accepting thread *)

Accepting(v) ==
  /\ alive /\ variant = v /\ main = "accept" /\ backlog # <<>>
  /\ backlog' = Tail(backlog)
  /\ UNCHANGED <<peer, talk, sent, got, rx, tx, fin, rst, variant, commandVars, alive>>

(* 04: Server(sockfd) on the spot. *)
AcceptInline ==
  /\ Accepting("inline")
  /\ main' = "serve" /\ conn' = Head(backlog)
  /\ sess' = [sess EXCEPT ![Head(backlog)] = "serving"]
  /\ holders' = [holders EXCEPT ![Head(backlog)] = {"main"}]
  /\ UNCHANGED <<queue, failures>>

(* 05: ProcessConnection. *)
AcceptProcess ==
  /\ Accepting("process")
  /\ main' = "fork" /\ conn' = Head(backlog)
  /\ sess' = [sess EXCEPT ![Head(backlog)] = "accepted"]
  /\ holders' = [holders EXCEPT ![Head(backlog)] = {"main"}]
  /\ UNCHANGED <<queue, failures>>

Fork ==
  /\ alive /\ main = "fork"
  /\ main' = "close"
  /\ sess' = [sess EXCEPT ![conn] = "forked"]
  /\ holders' = [holders EXCEPT ![conn] = @ \cup {"child"}]
  /\ UNCHANGED <<hostVars, variant, commandVars, conn, queue, alive, failures>>

ForkFails ==
  /\ alive /\ main = "fork" /\ failures < MaxFailures
  /\ failures' = failures + 1
  /\ main' = "accept" /\ conn' = NoClient
  /\ sess' = [sess EXCEPT ![conn] = "dropped"]
  /\ holders' = [holders EXCEPT ![conn] = {}]
  /\ UNCHANGED <<hostVars, variant, commandVars, queue, alive>>

(* Slips: the parent keeps sockfd; the child serves the client itself. *)
MainKeeps ==
  /\ alive /\ main = "close"
  /\ main' = "wait"
  /\ UNCHANGED <<hostVars, variant, commandVars, conn, sess, holders, queue, alive, failures>>
SecondForkServes(c) ==
  /\ sess[c] = "forked"
  /\ sess' = [sess EXCEPT ![c] = "serving"]
  /\ UNCHANGED <<hostVars, variant, commandVars, main, conn, holders, queue, alive, failures>>

(* The parent closes sockfd and waits for the child. *)
MainCloses ==
  /\ alive /\ main = "close"
  /\ main' = "wait"
  /\ holders' = [holders EXCEPT ![conn] = @ \ {"main"}]
  /\ UNCHANGED <<hostVars, variant, commandVars, conn, sess, queue, alive, failures>>

(* waitpid returns once the child has exited. *)
MainWaited ==
  /\ alive /\ main = "wait"
  /\ sess[conn] # "forked" /\ "child" \notin holders[conn]
  /\ main' = "accept" /\ conn' = NoClient
  /\ UNCHANGED <<hostVars, variant, commandVars, sess, holders, queue, alive, failures>>

(* The child forks the process that serves and exits. *)
SecondFork(c) ==
  /\ sess[c] = "forked"
  /\ sess' = [sess EXCEPT ![c] = "serving"]
  /\ holders' = [holders EXCEPT ![c] = (@ \ {"child"}) \cup {"server"}]
  /\ UNCHANGED <<hostVars, variant, commandVars, main, conn, queue, alive, failures>>

(* fork() > 0 is false for -1 too: the child goes on as if it were the     *)
(* grandchild, and the parent waits for it.                                *)
SecondForkFails(c) ==
  /\ sess[c] = "forked" /\ failures < MaxFailures
  /\ failures' = failures + 1
  /\ sess' = [sess EXCEPT ![c] = "serving"]
  /\ UNCHANGED <<hostVars, variant, commandVars, main, conn, holders, queue, alive>>

(* 06: ProcessConnect; the result of pthread_create is not looked at. *)
AcceptThread ==
  /\ Accepting("thread")
  /\ \/ /\ sess' = [sess EXCEPT ![Head(backlog)] = "serving"]
        /\ failures' = failures
     \/ /\ failures < MaxFailures
        /\ sess' = [sess EXCEPT ![Head(backlog)] = "stuck"]
        /\ failures' = failures + 1
  /\ holders' = [holders EXCEPT ![Head(backlog)] = {"server"}]
  /\ UNCHANGED <<main, conn, queue>>

(* 07: ProcessConnect pushes the session as a task. *)
AcceptPool ==
  /\ Accepting("pool")
  /\ queue' = Append(queue, Head(backlog))
  /\ sess' = [sess EXCEPT ![Head(backlog)] = "queued"]
  /\ holders' = [holders EXCEPT ![Head(backlog)] = {"server"}]
  /\ UNCHANGED <<main, conn, failures>>

Serving == {c \in Clients : sess[c] \in {"serving", "running"}}

(* ThreadRoutine: a thread that is free pops a task and runs it. *)
PoolTake ==
  /\ alive /\ queue # <<>> /\ Cardinality(Serving) < Threads
  /\ sess' = [sess EXCEPT ![Head(queue)] = "serving"]
  /\ queue' = Tail(queue)
  /\ UNCHANGED <<hostVars, variant, commandVars, main, conn, holders, alive, failures>>

Main ==
  \/ AcceptInline \/ AcceptProcess \/ Fork \/ ForkFails \/ MainCloses
  \/ MainWaited \/ AcceptThread \/ AcceptPool

-----------------------------------------------------------------------------
(* A session *)

(* The trailing line ends of a command are cut off; nothing left means no  *)
(* command and no answer.                                                  *)
Strip(s) == SubSeq(s, 1, Max({0} \cup {i \in DOMAIN s : s[i] # "nl"}))

(* SafeCheck lets the command pass, and popen can run it. *)
SafeCheck(v, chunk) ==
  v \in {"thread", "pool"} /\ Strip(chunk) # <<>> /\ "rm" \notin Range(Strip(chunk))

(* What is answered without a command: the echo, nothing to nothing, and   *)
(* Execute's refusal or, of a command that passes, that popen failed.      *)
Prompt(v, chunk) ==
  IF v \in {"inline", "process"} THEN <<"echo">> \o chunk
  ELSE IF Strip(chunk) = <<>> THEN <<>>
  ELSE IF SafeCheck(v, chunk) THEN <<"failed">> ELSE <<"refused">>

(* What Execute has collected when the command has ended. *)
Output(chunk) == <<"out">> \o Strip(chunk)

Answers(v, chunk) ==
  {Prompt(v, chunk)} \cup IF SafeCheck(v, chunk) THEN {Output(chunk)} ELSE {}

(* The session is over and its descriptor closed; the thread or process    *)
(* that ran it is free, or has exited.                                     *)
Finish(c, how) ==
  /\ sess' = [sess EXCEPT ![c] = how]
  /\ holders' = [holders EXCEPT ![c] = @ \ ({"server", "child"} \cup
                                  IF variant = "inline" THEN {"main"} ELSE {})]
  /\ main' = IF variant = "inline" THEN "accept" ELSE main
  /\ conn' = IF variant = "inline" THEN NoClient ELSE conn

(* Slip: what an earlier, longer read left in the buffer is answered too. *)
SessionReadStale(c) ==
  /\ alive /\ sess[c] = "serving" /\ rx[c] # <<>> /\ c \notin rst
  /\ rx' = [rx EXCEPT ![c] = SubSeq(@, 2, Len(@))]
  /\ tx' = [tx EXCEPT ![c] = @ \o Prompt(variant, Chunk(c, ReadMax))]
  /\ UNCHANGED <<peer, talk, sent, got, backlog, fin, rst, serverVars>>

(* read() and write() of what is answered at once. *)
SessionRead(c) ==
  /\ alive /\ sess[c] = "serving" /\ rx[c] # <<>> /\ c \notin rst
  /\ rx' = [rx EXCEPT ![c] = SubSeq(@, Len(Chunk(c, ReadMax)) + 1, Len(@))]
  /\ tx' = [tx EXCEPT ![c] = @ \o Prompt(variant, Chunk(c, ReadMax))]
  /\ UNCHANGED <<peer, talk, sent, got, backlog, fin, rst, serverVars>>

(* RST has arrived but data came before it: write() fails, which is not    *)
(* looked at, or raises SIGPIPE, which kills the process that wrote.       *)
SessionReset(c) ==
  /\ alive /\ sess[c] = "serving" /\ rx[c] # <<>> /\ c \in rst
  /\ rx' = [rx EXCEPT ![c] = SubSeq(@, Len(Chunk(c, ReadMax)) + 1, Len(@))]
  /\ \/ UNCHANGED <<sess, holders, main, conn, alive>>
     \/ /\ Prompt(variant, Chunk(c, ReadMax)) # <<>>
        /\ IF variant = "process" THEN Finish(c, "killed") /\ alive' = alive
           ELSE alive' = FALSE /\ UNCHANGED <<sess, holders, main, conn>>
  /\ UNCHANGED <<peer, talk, sent, got, backlog, tx, fin, rst, variant, commandVars, queue, failures>>

(* read() of a command, and popen: the shell starts with a copy of every   *)
(* descriptor the server has open, for accept() did not set SOCK_CLOEXEC.  *)
CommandStarts(c) ==
  /\ alive /\ sess[c] = "serving" /\ rx[c] # <<>>
  /\ SafeCheck(variant, Chunk(c, ReadMax))
  /\ rx' = [rx EXCEPT ![c] = SubSeq(@, Len(Chunk(c, ReadMax)) + 1, Len(@))]
  /\ cmd' = [cmd EXCEPT ![c] = Chunk(c, ReadMax)]
  /\ copies' = [copies EXCEPT ![c] = {d \in Clients : holders[d] # {}}]
  /\ sess' = [sess EXCEPT ![c] = "running"]
  /\ UNCHANGED <<peer, talk, sent, got, backlog, tx, fin, rst, variant, main,
                 conn, holders, queue, alive, failures>>

(* The command ends, which may take it for ever: fgets meets the end of    *)
(* the output, pclose returns and the output is written.  A command ends   *)
(* also when the server is dead by then, and a write to a connection that  *)
(* is reset may be what kills it.                                          *)
CommandEnds(c) ==
  /\ sess[c] = "running"
  /\ sess' = [sess EXCEPT ![c] = "serving"]
  /\ cmd' = [cmd EXCEPT ![c] = <<>>]
  /\ copies' = [copies EXCEPT ![c] = {}]
  /\ IF alive /\ c \notin rst
     THEN tx' = [tx EXCEPT ![c] = @ \o Output(cmd[c])] /\ alive' = alive
     ELSE tx' = tx /\ alive' \in {alive, FALSE}
  /\ UNCHANGED <<peer, talk, sent, got, backlog, rx, fin, rst, variant, main,
                 conn, holders, queue, failures>>

SessionEnd(c) ==
  /\ alive /\ sess[c] = "serving" /\ Ended(c)
  /\ Finish(c, "done")
  /\ UNCHANGED <<hostVars, variant, commandVars, queue, alive, failures>>

(* A polite client's commands end; those of others need not. *)
Session(c) ==
  \/ SecondFork(c) \/ SecondForkFails(c)
  \/ SessionRead(c) \/ SessionReset(c) \/ SessionEnd(c)
  \/ CommandStarts(c) \/ (c \in Polite /\ CommandEnds(c))

Next ==
  \/ Main \/ PoolTake
  \/ \E c \in Clients : Session(c) \/ CommandEnds(c) \/ Client(c)

-----------------------------------------------------------------------------
(* The server's own processes have a connection's descriptor open as long  *)
(* as its session needs it, and no longer: neither the parent nor the      *)
(* child of 05 keeps a copy that would hide the end of the connection from *)
(* the client, and none closes the last one too early.  In 06 and 07 a     *)
(* command has copies: those that outlive a session are those of commands  *)
(* still running, which started before it ended.                           *)
DescriptorsAccounted ==
  /\ main = "accept" => \A c \in Clients : "main" \notin holders[c]
  /\ \A c \in Clients :
       sess[c] \in {"done", "killed", "dropped"}
         => holders[c] \subseteq (IF main \in {"fork", "close"} /\ conn = c
                                  THEN {"main"} ELSE {})
  /\ \A c \in Clients :
       sess[c] \in {"accepted", "forked", "serving", "running", "queued"}
         => holders[c] # {}
  /\ \A c, d \in Clients :
       c \in copies[d] => variant \in {"thread", "pool"} /\ sess[d] = "running"
                          /\ sess[c] # "none"

(* What the stream s can be answered with, by how much of it was read. *)
Dialogue(s) ==
  Said(Len(s), [k \in 1 .. Len(s) |-> [i \in 1 .. Len(s) |->
    IF i - k < ReadMax THEN Answers(variant, SubSeq(s, k, i)) ELSE {}]])

(* What a client receives answers what the server has read of what it sent *)
(* itself, in order and once, however the network cuts it; the last of it  *)
(* may not be all there yet.                                               *)
AnswersRight ==
  \A c \in Clients : \E i \in 0 .. sent[c] - Len(rx[c]) :
    \E g \in Dialogue(Stream(c))[i] : IsPrefix(FlattenSeq(got[c]) \o tx[c], g)

(* Others occupy every thread there is, or the parent waits for a child    *)
(* that serves because a fork failed.                                      *)
Hogged ==
  /\ Serving # {} /\ Serving \cap Polite = {}
  /\ \/ variant = "inline" /\ main = "serve"
     \/ variant = "process" /\ main = "wait" /\ failures > 0
     \/ variant = "pool" /\ Cardinality(Serving) = Threads

(* A polite client's lines are all answered and its connection is closed,  *)
(* unless a process or thread could not be made or SIGPIPE killed the      *)
(* server; for ever idle clients stop 04, and 07 when they are as many as  *)
(* the pool has threads, but neither 05 nor 06.  Another client's command  *)
(* that never ends occupies a thread of 07, and keeps open in 06 and 07    *)
(* the connections that were there when it started.                        *)
Served(c) == (Closed(c) /\ ~Asking(c)) \/ ~alive \/ sess[c] \in {"dropped", "stuck"}
Blocked(c) == Hogged \/ (~Asking(c) /\ Copied(c, Clients \ Polite))
EveryoneServed == \A c \in Polite : <>Served(c) \/ <>[]Blocked(c)
=============================================================================
