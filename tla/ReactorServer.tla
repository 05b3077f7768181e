--------------------------- MODULE ReactorServer ---------------------------
(***************************************************************************)
(* The Reactor web server end to end: the kernel's sockets, descriptors    *)
(* and edge-triggered epoll, the one reactor thread (EpollServer), the     *)
(* pool workers running AsyncProcessHttpRequest, and the clients.          *)
(*                                                                         *)
(* A client makes one connection and sends one request of ReqLen[c] units, *)
(* the first HeadLen[c] its header; whether the header's Content-Length is *)
(* a number shows when the reactor reads it.  A response has RespLen units *)
(* <<c, i>>, c naming the request it answers.  A Connection object has its *)
(* client's name, which no other object has; descriptors are numbers and   *)
(* are reused.                                                             *)
(***************************************************************************)
EXTENDS Integers, Sequences, FiniteSets

CONSTANTS Clients,
          Polite,       \* clients that send a whole request and wait
          Listener,     \* the listening Connection
          NoClient,
          ReqLen,       \* ReqLen[c]: header and body of c's request
          HeadLen,      \* HeadLen[c]: header of c's request
          RespLen,
          TxCap,        \* units the kernel buffers towards a client
          Fds,          \* descriptors left for accepted connections
          MaxEvents,    \* _max_events
          QueueCap,     \* _max_cap of the pool
          Workers       \* threads of the pool

ASSUME ReactorServerAssumption ==
  /\ IsFiniteSet(Clients) /\ Polite \subseteq Clients
  /\ Listener \notin Clients /\ NoClient \notin Clients \cup {Listener}
  /\ ReqLen \in [Clients -> Nat \ {0}] /\ HeadLen \in [Clients -> Nat \ {0}]
  /\ \A c \in Clients : HeadLen[c] <= ReqLen[c]
  /\ RespLen \in Nat \ {0} /\ TxCap \in Nat \ {0}
  /\ Fds \in SUBSET Nat /\ IsFiniteSet(Fds) /\ Fds # {}
  /\ MaxEvents \in Nat \ {0} /\ QueueCap \in Nat \ {0}
  /\ IsFiniteSet(Workers) /\ Workers # {}

VARIABLES
  peer,         \* what each client is doing: "new", "open", "half", "gone"
  sent,         \* sent[c]: request units sent
  got,          \* got[c]: response units received
  backlog,      \* connections not yet accepted, oldest first
  rx,           \* rx[c]: request units in the kernel's receive buffer
  tx,           \* tx[c]: response units in the kernel's send buffer
  fin, rst,     \* FIN, RST arrived from c
  fdtab,        \* fdtab[f]: the connection descriptor f refers to
  interest,     \* connections in the epoll set
  ready,        \* epoll's ready list
  pc,           \* where the reactor thread is; "aborted": the process has
                \* ended, and what it had is left as it was
  batch,        \* results of epoll_wait still to dispatch
  cur,          \* the Connection whose handler runs
  heap,         \* live Connection objects
  sockfd,       \* _sockfd of each Connection object
  inbuffer,     \* inbuffer[c]: request units in _inbuffer
  jobs,         \* the pool's task queue
  work,         \* what each worker does
  exhausted     \* ghost: accept() has failed for want of a descriptor

clientVars == <<peer, sent, got>>
netVars == <<backlog, rx, tx, fin, rst>>
objVars == <<heap, sockfd, inbuffer>>
vars == <<clientVars, netVars, fdtab, interest, ready, pc, batch, cur,
          objVars, jobs, work, exhausted>>

Conns == Clients \cup {Listener}
NoFd == -1
Idle == [fd |-> NoFd, req |-> NoClient, sent |-> 0]

Init ==
  /\ peer = [c \in Clients |-> "new"]
  /\ sent = [c \in Clients |-> 0]
  /\ got = [c \in Clients |-> <<>>]
  /\ backlog = <<>>
  /\ rx = [c \in Clients |-> 0]
  /\ tx = [c \in Clients |-> <<>>]
  /\ fin = {} /\ rst = {}
  /\ fdtab = [f \in Fds |-> NoClient]
  /\ interest = {Listener}
  /\ ready = {}
  /\ pc = "wait"
  /\ batch = {}
  /\ cur = NoClient
  /\ heap = {Listener}
  /\ sockfd = [c \in Clients |-> NoFd]
  /\ inbuffer = [c \in Clients |-> 0]
  /\ jobs = <<>>
  /\ work = [w \in Workers |-> Idle]
  /\ exhausted = FALSE

-----------------------------------------------------------------------------
(* The clients and the kernel *)

(* An event on a connection of the epoll set puts it on the ready list. *)
Edge(c) == ready' = IF c \in interest THEN ready \cup {c} ELSE ready

(* The kernel completes the handshake. *)
Connect(c) ==
  /\ peer[c] = "new"
  /\ peer' = [peer EXCEPT ![c] = "open"]
  /\ backlog' = Append(backlog, c)
  /\ Edge(Listener)
  /\ UNCHANGED <<sent, got, rx, tx, fin, rst, fdtab, interest, pc, batch, cur,
                 objVars, jobs, work, exhausted>>

Send(c) ==
  /\ peer[c] = "open"
  /\ sent[c] < ReqLen[c]
  /\ sent' = [sent EXCEPT ![c] = @ + 1]
  /\ rx' = [rx EXCEPT ![c] = @ + 1]
  /\ Edge(c)
  /\ UNCHANGED <<peer, got, backlog, tx, fin, rst, fdtab, interest, pc, batch,
                 cur, objVars, jobs, work, exhausted>>

Receive(c) ==
  /\ peer[c] \in {"open", "half"}
  /\ tx[c] # <<>>
  /\ got' = [got EXCEPT ![c] = Append(@, Head(tx[c]))]
  /\ tx' = [tx EXCEPT ![c] = Tail(@)]
  /\ UNCHANGED <<peer, sent, backlog, rx, fin, rst, fdtab, interest, ready, pc,
                 batch, cur, objVars, jobs, work, exhausted>>

(* The client ends its sending side and still reads. *)
HalfClose(c) ==
  /\ c \notin Polite /\ peer[c] = "open"
  /\ peer' = [peer EXCEPT ![c] = "half"]
  /\ fin' = fin \cup {c}
  /\ Edge(c)
  /\ UNCHANGED <<sent, got, backlog, rx, tx, rst, fdtab, interest, pc, batch,
                 cur, objVars, jobs, work, exhausted>>

(* The client closes.  With response units unread its kernel sends RST,    *)
(* and it may send RST at any time.                                        *)
Leave(c) ==
  /\ c \notin Polite /\ peer[c] \in {"open", "half"}
  /\ peer' = [peer EXCEPT ![c] = "gone"]
  /\ \/ tx[c] = <<>> /\ fin' = fin \cup {c} /\ rst' = rst
     \/ rst' = rst \cup {c} /\ fin' = fin
  /\ tx' = [tx EXCEPT ![c] = <<>>]
  /\ Edge(c)
  /\ UNCHANGED <<sent, got, backlog, rx, fdtab, interest, pc, batch, cur,
                 objVars, jobs, work, exhausted>>

-----------------------------------------------------------------------------
(* The reactor thread: EpollServer::Start *)

Readable(c) ==
  IF c = Listener THEN backlog # <<>>
  ELSE rx[c] > 0 \/ c \in fin \/ c \in rst

(* What epoll_wait reports of a connection on the ready list. *)
Event(c) == [conn |-> c,
             bits |-> IF c \in rst THEN {"IN", "ERR"} ELSE {"IN"}]

(* epoll_wait: at most MaxEvents entries leave the edge-triggered ready    *)
(* list; those without anything to report leave it unreported.             *)
EpollWait ==
  /\ pc = "wait"
  /\ ready # {}
  /\ LET live == {c \in ready : Readable(c)}
     IN  \E S \in SUBSET live :
           /\ \/ Cardinality(S) = MaxEvents
              \/ Cardinality(S) < MaxEvents /\ S = live
           /\ batch' = {Event(c) : c \in S}
           /\ ready' = live \ S
           /\ pc' = IF S = {} THEN "wait" ELSE "dispatch"
  /\ UNCHANGED <<clientVars, netVars, fdtab, interest, cur, objVars, jobs,
                 work, exhausted>>

(* for(int i = 0; i < nready; i++), one entry; the kernel's order is not   *)
(* relied on.                                                              *)
Dispatch(e) ==
  /\ pc = "dispatch"
  /\ e \in batch
  /\ batch' = batch \ {e}
  /\ cur' = e.conn
  /\ pc' = IF "ERR" \in e.bits THEN "except"
           ELSE IF e.conn = Listener THEN "accept" ELSE "recv"
  /\ UNCHANGED <<clientVars, netVars, fdtab, interest, ready, objVars, jobs,
                 work, exhausted>>

NextEntry ==
  /\ cur' = NoClient
  /\ pc' = IF batch = {} THEN "wait" ELSE "dispatch"

-----------------------------------------------------------------------------
(* AcceptHandler *)

FreeFds == {f \in Fds : fdtab[f] = NoClient}
LowestFree == CHOOSE f \in FreeFds : \A g \in FreeFds : f <= g

(* Slip: one accept() per report, as with level-triggered epoll. *)
AcceptOne ==
  /\ pc = "accept"
  /\ backlog # <<>> /\ FreeFds # {}
  /\ LET c == Head(backlog)
     IN  /\ backlog' = Tail(backlog)
         /\ fdtab' = [fdtab EXCEPT ![LowestFree] = c]
         /\ sockfd' = [sockfd EXCEPT ![c] = LowestFree]
         /\ heap' = heap \cup {c}
         /\ interest' = interest \cup {c}
         /\ ready' = IF Readable(c) THEN ready \cup {c} ELSE ready
  /\ NextEntry
  /\ UNCHANGED <<clientVars, rx, tx, fin, rst, batch, inbuffer, jobs, work,
                 exhausted>>

(* accept() returns a descriptor: SetNonBlock, new Connection, Add. *)
Accept ==
  /\ pc = "accept"
  /\ backlog # <<>> /\ FreeFds # {}
  /\ LET c == Head(backlog)
     IN  /\ backlog' = Tail(backlog)
         /\ fdtab' = [fdtab EXCEPT ![LowestFree] = c]
         /\ sockfd' = [sockfd EXCEPT ![c] = LowestFree]
         /\ heap' = heap \cup {c}
         /\ interest' = interest \cup {c}
         /\ ready' = IF Readable(c) THEN ready \cup {c} ELSE ready
  /\ UNCHANGED <<clientVars, rx, tx, fin, rst, pc, batch, cur, inbuffer, jobs,
                 work, exhausted>>

(* accept() fails: EAGAIN, all taken. *)
AcceptAgain ==
  /\ pc = "accept"
  /\ backlog = <<>>
  /\ NextEntry
  /\ UNCHANGED <<clientVars, netVars, fdtab, interest, ready, batch, objVars,
                 jobs, work, exhausted>>

(* accept() fails: EMFILE; the loop ends with connections left in the      *)
(* backlog.                                                                *)
AcceptFails ==
  /\ pc = "accept"
  /\ backlog # <<>> /\ FreeFds = {}
  /\ exhausted' = TRUE
  /\ NextEntry
  /\ UNCHANGED <<clientVars, netVars, fdtab, interest, ready, batch, objVars,
                 jobs, work>>

-----------------------------------------------------------------------------
(* RecvHandler *)

(* Slips: one read() per report; what was read is kept twice. *)
RecvPartOne ==
  /\ pc = "recv"
  /\ cur \notin fin \cup rst
  /\ rx[cur] > 0 => inbuffer[cur] + 1 < ReqLen[cur]
  /\ rx' = [rx EXCEPT ![cur] = IF @ > 0 THEN @ - 1 ELSE 0]
  /\ inbuffer' = [inbuffer EXCEPT ![cur] = @ + rx[cur] - rx'[cur]]
  /\ NextEntry
  /\ UNCHANGED <<clientVars, backlog, tx, fin, rst, fdtab, interest, ready,
                 batch, heap, sockfd, jobs, work, exhausted>>
RecvPartTwice ==
  /\ pc = "recv"
  /\ cur \notin fin \cup rst
  /\ inbuffer[cur] + rx[cur] < ReqLen[cur]
  /\ inbuffer' = [inbuffer EXCEPT ![cur] = @ + 2 * rx[cur]]
  /\ rx' = [rx EXCEPT ![cur] = 0]
  /\ NextEntry
  /\ UNCHANGED <<clientVars, backlog, tx, fin, rst, fdtab, interest, ready,
                 batch, heap, sockfd, jobs, work, exhausted>>

(* read() until EAGAIN; the header, or the body it announces, is not all   *)
(* there: the Connection stays in the epoll set.  stoul reads the length   *)
(* as soon as the header is complete: RecvThrows.                          *)
RecvPart ==
  /\ pc = "recv"
  /\ cur \notin fin \cup rst
  /\ inbuffer[cur] + rx[cur] < ReqLen[cur]
  /\ inbuffer' = [inbuffer EXCEPT ![cur] = @ + rx[cur]]
  /\ rx' = [rx EXCEPT ![cur] = 0]
  /\ NextEntry
  /\ UNCHANGED <<clientVars, backlog, tx, fin, rst, fdtab, interest, ready,
                 batch, heap, sockfd, jobs, work, exhausted>>

(* Slip: the Connection stays in the epoll set. *)
RecvWholeNoDel ==
  /\ pc = "recv"
  /\ cur \notin fin \cup rst
  /\ inbuffer[cur] + rx[cur] >= ReqLen[cur]
  /\ inbuffer' = [inbuffer EXCEPT ![cur] = @ + rx[cur] - ReqLen[cur]]
  /\ rx' = [rx EXCEPT ![cur] = 0]
  /\ pc' = "enqueue"
  /\ UNCHANGED <<clientVars, backlog, tx, fin, rst, fdtab, interest, ready,
                 batch, cur, heap, sockfd, jobs, work, exhausted>>

(* read() until EAGAIN; header and body are complete, and the length is a  *)
(* number: the request is cut out of _inbuffer and the descriptor leaves   *)
(* the epoll set.                                                          *)
RecvWhole ==
  /\ pc = "recv"
  /\ cur \notin fin \cup rst
  /\ inbuffer[cur] + rx[cur] >= ReqLen[cur]
  /\ inbuffer' = [inbuffer EXCEPT ![cur] = @ + rx[cur] - ReqLen[cur]]
  /\ rx' = [rx EXCEPT ![cur] = 0]
  /\ interest' = interest \ {cur}
  /\ ready' = ready \ {cur}
  /\ pc' = "enqueue"
  /\ UNCHANGED <<clientVars, backlog, tx, fin, rst, fdtab, batch, cur, heap,
                 sockfd, jobs, work, exhausted>>

(* The header is complete and its Content-Length no unsigned long: nothing *)
(* catches what stoul throws, and the process ends with all its threads.   *)
RecvThrows ==
  /\ pc = "recv" /\ cur \notin Polite
  /\ cur \notin fin \cup rst
  /\ inbuffer[cur] < HeadLen[cur] /\ inbuffer[cur] + rx[cur] >= HeadLen[cur]
  /\ inbuffer' = [inbuffer EXCEPT ![cur] = @ + rx[cur]]
  /\ rx' = [rx EXCEPT ![cur] = 0]
  /\ pc' = "aborted"
  /\ UNCHANGED <<clientVars, backlog, tx, fin, rst, fdtab, interest, ready,
                 batch, cur, heap, sockfd, jobs, work, exhausted>>

(* read() meets the end of the stream or an error, whatever was read       *)
(* before: ExceptHandler.                                                  *)
RecvEnds ==
  /\ pc = "recv"
  /\ cur \in fin \cup rst
  /\ inbuffer' = [inbuffer EXCEPT ![cur] = @ + rx[cur]]
  /\ rx' = [rx EXCEPT ![cur] = 0]
  /\ pc' = "except"
  /\ UNCHANGED <<clientVars, backlog, tx, fin, rst, fdtab, interest, ready,
                 batch, cur, heap, sockfd, jobs, work, exhausted>>

(* ThreadPool::Enqueue stores the task; while the queue is full the        *)
(* reactor thread sleeps here.                                             *)
Enqueue ==
  /\ pc = "enqueue"
  /\ Len(jobs) < QueueCap
  /\ jobs' = Append(jobs, [fd |-> sockfd[cur], req |-> cur])
  /\ pc' = "delete"
  /\ UNCHANGED <<clientVars, netVars, fdtab, interest, ready, batch, cur,
                 objVars, work, exhausted>>

(* Slip: the destructor closes the descriptor the worker now owns. *)
DeleteCloses ==
  /\ pc = "delete"
  /\ heap' = heap \ {cur}
  /\ fdtab' = [fdtab EXCEPT ![sockfd[cur]] = NoClient]
  /\ NextEntry
  /\ UNCHANGED <<clientVars, netVars, interest, ready, batch, sockfd, inbuffer,
                 jobs, work, exhausted>>

(* delete conn, whose destructor leaves the descriptor open. *)
Delete ==
  /\ pc = "delete"
  /\ heap' = heap \ {cur}
  /\ NextEntry
  /\ UNCHANGED <<clientVars, netVars, fdtab, interest, ready, batch, sockfd,
                 inbuffer, jobs, work, exhausted>>

(* ExceptHandler: Del, close, delete. *)
Except ==
  /\ pc = "except"
  /\ interest' = interest \ {cur}
  /\ ready' = ready \ {cur}
  /\ fdtab' = [fdtab EXCEPT ![sockfd[cur]] = NoClient]
  /\ heap' = heap \ {cur}
  /\ NextEntry
  /\ UNCHANGED <<clientVars, netVars, batch, sockfd, inbuffer, jobs, work,
                 exhausted>>

-----------------------------------------------------------------------------
(* A pool worker: HandlerTask and AsyncProcessHttpRequest *)

Take(w) ==
  /\ work[w] = Idle
  /\ jobs # <<>>
  /\ work' = [work EXCEPT ![w] =
                [fd |-> Head(jobs).fd, req |-> Head(jobs).req, sent |-> 0]]
  /\ jobs' = Tail(jobs)
  /\ UNCHANGED <<clientVars, netVars, fdtab, interest, ready, pc, batch, cur,
                 objVars, exhausted>>

(* The connection the worker's descriptor number refers to. *)
Target(w) == fdtab[work[w].fd]

(* write() moves one unit into the send buffer; on a full buffer (EAGAIN)  *)
(* the worker sleeps 1 ms and tries again.  A peer that is gone answers    *)
(* with RST, which a later write() reports.                                *)
Write(w) ==
  /\ work[w] # Idle
  /\ work[w].sent < RespLen
  /\ LET c == Target(w)
         unit == <<work[w].req, work[w].sent + 1>>
     IN  /\ c \in Clients \ rst
         /\ IF peer[c] # "gone"
            THEN /\ Len(tx[c]) < TxCap
                 /\ tx' = [tx EXCEPT ![c] = Append(@, unit)]
                 /\ rst' = rst
            ELSE /\ rst' = rst \cup {c}
                 /\ tx' = tx
  /\ work' = [work EXCEPT ![w].sent = @ + 1]
  /\ UNCHANGED <<clientVars, backlog, rx, fin, fdtab, interest, ready, pc,
                 batch, cur, objVars, jobs, exhausted>>

(* Slip: a full send buffer counts as an error. *)
WriteFailsEager(w) ==
  \/ Target(w) \in rst \cup {NoClient}
  \/ Target(w) \in Clients /\ Len(tx[Target(w)]) = TxCap

(* What write() reports other than a full buffer: EPIPE or ECONNRESET, or  *)
(* EBADF if the descriptor were closed.                                    *)
WriteFails(w) == Target(w) \in rst \cup {NoClient}

(* All written, or write() failed: close(fd). *)
Close(w) ==
  /\ work[w] # Idle
  /\ work[w].sent = RespLen \/ WriteFails(w)
  /\ fdtab' = [fdtab EXCEPT ![work[w].fd] = NoClient]
  /\ work' = [work EXCEPT ![w] = Idle]
  /\ UNCHANGED <<clientVars, netVars, interest, ready, pc, batch, cur, objVars,
                 jobs, exhausted>>

Reactor ==
  \/ EpollWait \/ (\E e \in batch : Dispatch(e))
  \/ Accept \/ AcceptAgain \/ AcceptFails
  \/ RecvPart \/ RecvWhole \/ RecvThrows \/ RecvEnds \/ Enqueue \/ Delete \/ Except
Worker(w) == pc # "aborted" /\ (Take(w) \/ Write(w) \/ Close(w))
Client(c) == Connect(c) \/ Send(c) \/ Receive(c) \/ HalfClose(c) \/ Leave(c)

Next ==
  \/ Reactor
  \/ \E w \in Workers : Worker(w)
  \/ \E c \in Clients : Client(c)

(* The server's threads are scheduled; a polite client sends its request;  *)
(* whoever stays connected keeps reading.                                  *)
Fairness ==
  /\ WF_vars(Reactor)
  /\ \A w \in Workers : WF_vars(Worker(w))
  /\ \A c \in Polite : WF_vars(Connect(c)) /\ WF_vars(Send(c))
  /\ \A c \in Clients : WF_vars(Receive(c))

Spec == Init /\ [][Next]_vars
FairSpec == Spec /\ Fairness

-----------------------------------------------------------------------------
(* The types; what the reactor is doing agrees with cur. *)
TypeOK ==
  /\ peer \in [Clients -> {"new", "open", "half", "gone"}]
  /\ \A c \in Clients : sent[c] \in 0 .. ReqLen[c]
  /\ backlog \in Seq(Clients)
  /\ \A c \in Clients : rx[c] \in 0 .. ReqLen[c] /\ Len(tx[c]) <= TxCap
  /\ fin \subseteq Clients /\ rst \subseteq Clients
  /\ fdtab \in [Fds -> Clients \cup {NoClient}]
  /\ interest \subseteq Conns /\ ready \subseteq interest
  /\ pc \in {"wait", "dispatch", "accept", "recv", "enqueue", "delete",
             "except", "aborted"}
  /\ pc \in {"wait", "dispatch"} <=> cur = NoClient
  /\ pc = "accept" <=> cur = Listener
  /\ pc = "wait" => batch = {}
  /\ heap \subseteq Conns
  /\ \A c \in Clients : inbuffer[c] + rx[c] <= sent[c]
  /\ Len(jobs) <= QueueCap

(* Who will close descriptor f: a live Connection, a queued task, or the   *)
(* worker serving it.  Between Enqueue and delete the Connection no longer *)
(* counts.                                                                 *)
Owners(f) ==
  {<<"conn", c>> : c \in {d \in heap \cap Clients :
                            sockfd[d] = f /\ ~(pc = "delete" /\ cur = d)}}
  \cup {<<"job", i>> : i \in {j \in DOMAIN jobs : jobs[j].fd = f}}
  \cup {<<"worker", w>> : w \in {v \in Workers : work[v].fd = f}}

(* Every open descriptor has exactly one owner, every closed one none: the *)
(* hand-over from reactor to worker neither leaks a connection nor closes  *)
(* one twice, or a stranger's whose accept got the number again.           *)
SingleOwner ==
  \A f \in Fds :
    Cardinality(Owners(f)) = IF fdtab[f] = NoClient THEN 0 ELSE 1

(* The raw Connection pointers in the epoll set, in the results still to   *)
(* dispatch and in the running handler all point to live objects.          *)
NoDanglingConnection ==
  /\ interest \subseteq heap
  /\ {e.conn : e \in batch} \subseteq heap
  /\ cur # NoClient => cur \in heap

(* What a client receives is a prefix of the response to its own request,  *)
(* though descriptor numbers are reused while workers still hold them.     *)
OwnResponse ==
  \A c \in Clients : \A i \in DOMAIN (got[c] \o tx[c]) :
    (got[c] \o tx[c])[i] = <<c, i>>

(* Edge-triggered epoll reports an arrival once.  Unread data, an end of   *)
(* stream or an error on a watched connection always has a report coming   *)
(* or being handled.                                                       *)
InHand(c) ==
  c \in ready \/ c = cur \/ \E e \in batch : e.conn = c
NoMissedData ==
  \A c \in interest \cap Clients : Readable(c) => InHand(c)

(* The same for connections waiting to be accepted, until descriptors run  *)
(* out: what AcceptHandler then leaves in the backlog is not reported again *)
(* before another client connects.                                         *)
NoMissedConnection == backlog # <<>> /\ ~exhausted => InHand(Listener)

(* A client that neither ended nor reset its connection is never hung up   *)
(* on before the end of its response: a full send buffer, a request that   *)
(* arrives in pieces or a busy pool do not cut it short.  Only the end of  *)
(* the whole server does.                                                  *)
AnsweredWhole ==
  pc # "aborted" => \A c \in Clients :
    (peer[c] = "open" /\ \A i \in DOMAIN backlog : backlog[i] # c)
      => \/ \E f \in Fds : fdtab[f] = c
         \/ Len(got[c] \o tx[c]) = RespLen

(* A polite client gets its whole response, whatever the others do, unless *)
(* descriptors ran out or another client's Content-Length, no number, has  *)
(* ended the server.                                                       *)
PoliteServed ==
  \A c \in Polite : <>(Len(got[c]) = RespLen \/ exhausted \/ pc = "aborted")
=============================================================================
