------------------------------ MODULE EdgeEcho ------------------------------
(***************************************************************************)
(* The edge-triggered echo server (14): a report of a descriptor comes     *)
(* once, so AcceptHandler accepts until nothing is left and RecvHandler    *)
(* reads until nothing is left, then answers all it has read in one write. *)
(***************************************************************************)
EXTENDS TcpClients

CONSTANTS ReadMax,     \* sizeof(buf) - 1, and what a client reads at once
          TxCap,       \* what a send buffer takes
          Fds,         \* descriptors left for connections
          MaxEvents, Listener

EdgeEchoAssumption ==
  /\ {ReadMax, TxCap, MaxEvents} \subseteq Nat \ {0}
  /\ IsFiniteSet(Fds) /\ Fds \subseteq Nat /\ Listener \notin Fds
  /\ \A t \in Talks : \A c \in Clients : t[c] \in Seq(Seq(STRING))

VARIABLES
  fdtab,       \* the open descriptors and whose they are
  ready,       \* the epoll ready list
  batch,       \* _revents_ptr[i ..]
  inbuffer,    \* what RecvHandler has read so far
  cut,         \* clients to which write() has not written all
  exhausted    \* accept() has failed with the listener reported

echoVars == <<fdtab, ready, batch, inbuffer, cut, exhausted>>
vars == <<hostVars, echoVars>>

Init ==
  /\ HostInit
  /\ fdtab = <<>> /\ ready = <<>> /\ batch = <<>> /\ inbuffer = <<>>
  /\ cut = {} /\ exhausted = FALSE

FreeFds == Fds \ DOMAIN fdtab
LowestFree == CHOOSE fd \in FreeFds : \A g \in FreeFds : fd <= g
Owned(c) == {fd \in DOMAIN fdtab : fdtab[fd] = c}

Readable(fd) ==
  IF fd = Listener THEN backlog # <<>>
  ELSE fd \in DOMAIN fdtab /\ (rx[fdtab[fd]] # <<>> \/ Ended(fdtab[fd]))

(* The members of s that are in T, in their order. *)
Those(s, T) ==
  LET those[i \in 0 .. Len(s)] ==
        IF i = 0 THEN <<>>
        ELSE those[i - 1] \o IF s[i] \in T THEN <<s[i]>> ELSE <<>>
  IN  those[Len(s)]

(* Something happens to the descriptors fds: each is on the list once. *)
InSomeOrder(S) == CHOOSE s \in [1 .. Cardinality(S) -> S] : IsInjective(s)
Edge(fds) == ready' = ready \o InSomeOrder(fds \ Range(ready))

-----------------------------------------------------------------------------
(* A polite client leaves when all it sent is answered. *)
Client(c) ==
  /\ \/ Connect(c) /\ Edge({Listener})
     \/ Send(c) /\ Edge(Owned(c))
     \/ Receive(c, ReadMax) /\ UNCHANGED ready
     \/ /\ \/ c \notin Polite
           \/ sent[c] = Len(Stream(c)) /\ tx[c] = <<>>
              /\ rx[c] = <<>> /\ ~(batch # <<>> /\ Head(batch) \in Owned(c))
        /\ Leave(c) /\ Edge(Owned(c))
     \/ Refuse(c) /\ Edge(Owned(c))
  /\ UNCHANGED <<fdtab, batch, inbuffer, cut, exhausted>>

-----------------------------------------------------------------------------
(* epoll_wait: what has nothing to report any more is passed over. *)
EpollWait ==
  /\ batch = <<>> /\ ready # <<>>
  /\ LET first == SubSeq(ready, 1, IF Len(ready) < MaxEvents THEN Len(ready) ELSE MaxEvents)
     IN  /\ batch' = Those(first, {fd \in Range(first) : Readable(fd)})
         /\ ready' = SubSeq(ready, Len(first) + 1, Len(ready))
  /\ UNCHANGED <<hostVars, fdtab, inbuffer, cut, exhausted>>

At(fd) == batch # <<>> /\ Head(batch) = fd
(* Slip: the buffer is a member that keeps what was read. *)
ReturnKeeps == batch' = Tail(batch) /\ inbuffer' = inbuffer
Return == batch' = Tail(batch) /\ inbuffer' = <<>>

(* Slip: one connection for each report. *)
AcceptOne ==
  /\ At(Listener) /\ backlog # <<>> /\ FreeFds # {}
  /\ backlog' = Tail(backlog)
  /\ fdtab' = [fd \in DOMAIN fdtab \cup {LowestFree} |->
                 IF fd = LowestFree THEN Head(backlog) ELSE fdtab[fd]]
  /\ Edge(IF rx[Head(backlog)] # <<>> \/ Ended(Head(backlog)) THEN {LowestFree} ELSE {})
  /\ Return
  /\ UNCHANGED <<peer, talk, sent, got, rx, tx, fin, rst, cut, exhausted>>

(* AcceptHandler, one connection; Add reports what has come already. *)
Accept ==
  /\ At(Listener) /\ backlog # <<>> /\ FreeFds # {}
  /\ backlog' = Tail(backlog)
  /\ fdtab' = [fd \in DOMAIN fdtab \cup {LowestFree} |->
                 IF fd = LowestFree THEN Head(backlog) ELSE fdtab[fd]]
  /\ LET c == Head(backlog)
     IN  Edge(IF rx[c] # <<>> \/ Ended(c) THEN {LowestFree} ELSE {})
  /\ UNCHANGED <<peer, talk, sent, got, rx, tx, fin, rst, batch, inbuffer, cut, exhausted>>

(* accept() fails: nothing waits, or no descriptor is free. *)
AcceptEnds ==
  /\ At(Listener) /\ (backlog = <<>> \/ FreeFds = {})
  /\ exhausted' = (exhausted \/ backlog # <<>>)
  /\ Return
  /\ UNCHANGED <<hostVars, fdtab, ready, cut>>

(* Slip: one read() for each report. *)
RecvPartOnly(fd) ==
  /\ At(fd) /\ rx[fdtab[fd]] # <<>>
  /\ LET c == fdtab[fd]
     IN  /\ rx' = [rx EXCEPT ![c] = SubSeq(@, Len(Chunk(c, ReadMax)) + 1, Len(@))]
         /\ tx' = [tx EXCEPT ![c] = @ \o <<"echo">> \o Chunk(c, ReadMax)]
  /\ Return
  /\ UNCHANGED <<peer, talk, sent, got, backlog, fin, rst, fdtab, ready, cut, exhausted>>

(* RecvHandler: one read() > 0. *)
RecvPart(fd) ==
  /\ At(fd) /\ rx[fdtab[fd]] # <<>>
  /\ LET c == fdtab[fd]
     IN  /\ inbuffer' = inbuffer \o Chunk(c, ReadMax)
         /\ rx' = [rx EXCEPT ![c] = SubSeq(@, Len(Chunk(c, ReadMax)) + 1, Len(@))]
  /\ UNCHANGED <<peer, talk, sent, got, backlog, tx, fin, rst, fdtab, ready, batch, cut, exhausted>>

(* read() returns 0 or fails: closed, and what was read is dropped. *)
RecvEnds(fd) ==
  /\ At(fd) /\ Ended(fdtab[fd])
  /\ fdtab' = [g \in DOMAIN fdtab \ {fd} |-> fdtab[g]]
  /\ ready' = Those(ready, Range(ready) \ {fd})
  /\ Return
  /\ UNCHANGED <<hostVars, cut, exhausted>>

(* EAGAIN: one write() of the echo, whose result is not looked at. *)
RecvAgain(fd) ==
  /\ At(fd) /\ rx[fdtab[fd]] = <<>> /\ ~Ended(fdtab[fd])
  /\ LET c == fdtab[fd]
         echo == IF inbuffer = <<>> THEN <<>> ELSE <<"echo">> \o inbuffer
         room == TxCap - Len(tx[c])
     IN  /\ tx' = [tx EXCEPT ![c] = @ \o SubSeq(echo, 1, IF room < Len(echo) THEN room ELSE Len(echo))]
         /\ cut' = IF room < Len(echo) THEN cut \cup {c} ELSE cut
  /\ Return
  /\ UNCHANGED <<peer, talk, sent, got, backlog, rx, fin, rst, fdtab, ready, exhausted>>

Server ==
  \/ EpollWait \/ Accept \/ AcceptEnds
  \/ \E fd \in Fds : RecvPart(fd) \/ RecvEnds(fd) \/ RecvAgain(fd)

Next == Server \/ \E c \in Clients : Client(c)

-----------------------------------------------------------------------------
(* A descriptor is open for one connection, and what is reported or about  *)
(* to be reported is open.                                                 *)
DescriptorsAccounted ==
  /\ \A fd, g \in DOMAIN fdtab : fdtab[fd] = fdtab[g] => fd = g
  /\ Range(ready) \cup Range(batch) \subseteq {Listener} \cup DOMAIN fdtab
  /\ IsInjective(batch)

(* What the stream s can be answered with, by how much of it was read. *)
Echoes(s) ==
  Said(Len(s), [k \in 1 .. Len(s) |-> [i \in 1 .. Len(s) |-> {<<"echo">> \o SubSeq(s, k, i)}]])

(* A client gets back what it sent, in order and once, in one or more      *)
(* answers; all of it if it is polite; unless write() could not write all. *)
AnswersRight ==
  \A c \in Clients \ cut :
    LET g == FlattenSeq(got[c]) \o tx[c]
    IN  /\ \E i \in 0 .. sent[c] : \E h \in Echoes(Stream(c))[i] : IsPrefix(g, h)
        /\ c \in Polite /\ peer[c] = "gone" => g \in Echoes(Stream(c))[Len(Stream(c))]

(* No edge is missed: what is there to read or to accept is reported,      *)
(* about to be reported, or being read, except after accept() has failed.  *)
NothingMissed ==
  /\ \A fd \in DOMAIN fdtab : Readable(fd) => fd \in Range(ready) \cup Range(batch)
  /\ backlog # <<>> => Listener \in Range(ready) \cup Range(batch) \/ exhausted

(* Every polite client is answered and its descriptor closed, unless   *)
(* accept() has run out of descriptors.                                    *)
Served(c) == (peer[c] = "gone" /\ Owned(c) = {}) \/ (exhausted /\ c \in Range(backlog))
EveryoneServed == \A c \in Polite : <>Served(c)
=============================================================================
