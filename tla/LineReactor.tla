---------------------------- MODULE LineReactor ----------------------------
(***************************************************************************)
(* 15_tcp_reactor_server: one thread, edge-triggered epoll, requests that  *)
(* are lines, answers that wait in _outbuffer for EPOLLOUT when the kernel *)
(* takes no more.  Client c makes one connection and sends the characters  *)
(* of Script[c] in pieces of any size; it may half-close, close or reset.  *)
(* A Connection object is named by its client.                             *)
(***************************************************************************)
EXTENDS Integers, Sequences, FiniteSets

CONSTANTS Clients,
          Staying,      \* clients that send their script and only read then
          Listener,     \* the listening Connection
          NoConn,
          Script,       \* Script[c]: the characters c sends
          ReadSize,     \* sizeof(buf) - 1
          TxCap,        \* characters the kernel buffers towards a client
          MaxEvents     \* _max_events

(* A line break, a NUL, another character as sent and as answered, and     *)
(* the fixed text in front of an answer.                                   *)
Sent == {"x", "nl", "nul"}
Char == Sent \cup {"X", "tag"}

ASSUME LineReactorAssumption ==
  /\ IsFiniteSet(Clients) /\ Staying \subseteq Clients
  /\ Listener \notin Clients /\ NoConn \notin Clients \cup {Listener}
  /\ Script \in [Clients -> Seq(Sent)]
  /\ ReadSize \in Nat \ {0} /\ TxCap \in Nat \ {0}
  /\ MaxEvents \in Nat \ {0}

VARIABLES
  peer,         \* what each client is doing: "new", "open", "half", "gone"
  sent,         \* sent[c]: characters sent
  got,          \* got[c]: characters received
  backlog,      \* connections not yet accepted, oldest first
  rx, tx,       \* the kernel's receive and send buffer of each connection
  fin, rst,     \* FIN, RST arrived from c
  interest,     \* connections in the epoll set
  armed,        \* those of them watched for EPOLLOUT too
  ready,        \* epoll's ready list
  pc,           \* where the server thread is
  batch,        \* results of epoll_wait still to dispatch
  cur, bits,    \* the entry being dispatched: Connection and events
  back,         \* who called SendHandler: "parse" or "next"
  heap,         \* live Connection objects
  inbuffer, outbuffer,
  exhausted     \* ghost: accept() or epoll_ctl(ADD) has failed

clientVars == <<peer, sent, got>>
netVars == <<backlog, rx, tx, fin, rst>>
epollVars == <<interest, armed, ready>>
entryVars == <<batch, cur, bits>>
objVars == <<heap, inbuffer, outbuffer>>
vars == <<clientVars, netVars, epollVars, pc, entryVars, back, objVars,
          exhausted>>

Init ==
  /\ peer = [c \in Clients |-> "new"]
  /\ sent = [c \in Clients |-> 0]
  /\ got = [c \in Clients |-> <<>>]
  /\ backlog = <<>>
  /\ rx = [c \in Clients |-> <<>>]
  /\ tx = [c \in Clients |-> <<>>]
  /\ fin = {} /\ rst = {}
  /\ interest = {Listener} /\ armed = {} /\ ready = {}
  /\ pc = "wait"
  /\ batch = {}
  /\ cur = NoConn /\ bits = {}
  /\ back = "next"
  /\ heap = {Listener}
  /\ inbuffer = [c \in Clients |-> <<>>]
  /\ outbuffer = [c \in Clients |-> <<>>]
  /\ exhausted = FALSE

-----------------------------------------------------------------------------
(* Clients and kernel.  serverVars is what the server thread owns. *)
serverVars == <<interest, armed, pc, entryVars, back, objVars, exhausted>>

Edge(c) == ready' = IF c \in interest THEN ready \cup {c} ELSE ready

Connect(c) ==
  /\ peer[c] = "new"
  /\ peer' = [peer EXCEPT ![c] = "open"]
  /\ backlog' = Append(backlog, c)
  /\ Edge(Listener)
  /\ UNCHANGED <<sent, got, rx, tx, fin, rst, serverVars>>

Send(c) ==
  /\ peer[c] = "open"
  /\ sent[c] < Len(Script[c])
  /\ sent' = [sent EXCEPT ![c] = @ + 1]
  /\ rx' = [rx EXCEPT ![c] = Append(@, Script[c][sent'[c]])]
  /\ Edge(c)
  /\ UNCHANGED <<peer, got, backlog, tx, fin, rst, serverVars>>

(* Room in the send buffer is an event for those watched for EPOLLOUT. *)
Receive(c) ==
  /\ peer[c] \in {"open", "half"}
  /\ tx[c] # <<>>
  /\ got' = [got EXCEPT ![c] = Append(@, Head(tx[c]))]
  /\ tx' = [tx EXCEPT ![c] = Tail(@)]
  /\ ready' = IF c \in armed THEN ready \cup {c} ELSE ready
  /\ UNCHANGED <<peer, sent, backlog, rx, fin, rst, serverVars>>

HalfClose(c) ==
  /\ c \notin Staying /\ peer[c] = "open"
  /\ peer' = [peer EXCEPT ![c] = "half"]
  /\ fin' = fin \cup {c}
  /\ Edge(c)
  /\ UNCHANGED <<sent, got, backlog, rx, tx, rst, serverVars>>

(* close() with nothing unread sends FIN, otherwise, or on SO_LINGER, RST. *)
Leave(c) ==
  /\ c \notin Staying /\ peer[c] \in {"open", "half"}
  /\ peer' = [peer EXCEPT ![c] = "gone"]
  /\ \/ tx[c] = <<>> /\ fin' = fin \cup {c} /\ rst' = rst
     \/ rst' = rst \cup {c} /\ fin' = fin
  /\ tx' = [tx EXCEPT ![c] = <<>>]
  /\ Edge(c)
  /\ UNCHANGED <<sent, got, backlog, rx, serverVars>>

(* What reaches a client that has closed is answered with RST. *)
Refuse(c) ==
  /\ peer[c] = "gone" /\ tx[c] # <<>>
  /\ rst' = rst \cup {c}
  /\ tx' = [tx EXCEPT ![c] = <<>>]
  /\ Edge(c)
  /\ UNCHANGED <<clientVars, backlog, rx, fin, serverVars>>

-----------------------------------------------------------------------------
(* The loop of Start *)

Readable(c) ==
  IF c = Listener THEN backlog # <<>> ELSE rx[c] # <<>> \/ c \in fin \cup rst
Writable(c) == c # Listener /\ (Len(tx[c]) < TxCap \/ c \in rst)

(* What epoll reports of c while the set out is watched for EPOLLOUT. *)
Events(c, out) ==
  (IF Readable(c) THEN {"IN"} ELSE {})
    \cup (IF c \in out /\ Writable(c) THEN {"OUT"} ELSE {})
    \cup (IF c \in rst THEN {"ERR"} ELSE {})

(* epoll_wait takes what it reports, and what has nothing to report, off   *)
(* the ready list.                                                         *)
EpollWait ==
  /\ pc = "wait" /\ ready # {}
  /\ LET live == {c \in ready : Events(c, armed) # {}}
     IN  \E S \in SUBSET live :
           /\ \/ Cardinality(S) = MaxEvents
              \/ Cardinality(S) < MaxEvents /\ S = live
           /\ batch' = {[conn |-> c, bits |-> Events(c, armed)] : c \in S}
           /\ ready' = live \ S
           /\ pc' = IF S = {} THEN "wait" ELSE "dispatch"
  /\ UNCHANGED <<clientVars, netVars, interest, armed, cur, bits, back,
                 objVars, exhausted>>

(* One entry.  The listening Connection has no _except_cb and no _write_cb;*)
(* the kernel's order of the entries is not relied on.                     *)
Dispatch(e) ==
  /\ pc = "dispatch" /\ e \in batch
  /\ batch' = batch \ {e}
  /\ cur' = e.conn
  /\ bits' = e.bits
  /\ back' = "next"
  /\ pc' = CASE "ERR" \in e.bits -> "except"
             [] "ERR" \notin e.bits /\ e.conn = Listener -> "accept"
             [] "ERR" \notin e.bits /\ e.conn # Listener ->
                  IF "IN" \in e.bits THEN "recv" ELSE "send"
  /\ UNCHANGED <<clientVars, netVars, epollVars, objVars, exhausted>>

(* Slip: the rest of the batch is dropped. *)
NextEntryEarly ==
  /\ cur' = NoConn /\ bits' = {}
  /\ pc' = "wait"

NextEntry ==
  /\ cur' = NoConn /\ bits' = {}
  /\ pc' = IF batch = {} THEN "wait" ELSE "dispatch"

(* After _read_cb, if(cur_events & EPOLLOUT && conn->_write_cb), which     *)
(* looks into an object the handler may have deleted.                      *)
AfterRead(deleted) ==
  /\ back' = "next"
  /\ IF "OUT" \in bits
     THEN /\ pc' = IF deleted THEN "undefined" ELSE "send"
          /\ UNCHANGED <<cur, bits>>
     ELSE NextEntry

(* Slip: the object is deleted, its descriptor stays open and watched. *)
ExceptHandlerLeak(c) ==
  /\ heap' = heap \ {c}
  /\ UNCHANGED <<interest, armed, ready>>

(* ExceptHandler: Del, close, delete. *)
ExceptHandler(c) ==
  /\ heap' = heap \ {c}
  /\ interest' = interest \ {c}
  /\ armed' = armed \ {c}
  /\ ready' = ready \ {c}

ExceptEvent ==
  /\ pc = "except"
  /\ ExceptHandler(cur)
  /\ NextEntry
  /\ UNCHANGED <<clientVars, netVars, batch, back, inbuffer, outbuffer,
                 exhausted>>

-----------------------------------------------------------------------------
(* AcceptHandler *)

(* accept, SetNonBlock, new Connection, RegisterCallBack, Add. *)
Accept ==
  /\ pc = "accept" /\ backlog # <<>>
  /\ LET c == Head(backlog)
     IN  /\ heap' = heap \cup {c}
         /\ interest' = interest \cup {c}
         /\ ready' = IF Readable(c) THEN ready \cup {c} ELSE ready
  /\ backlog' = Tail(backlog)
  /\ UNCHANGED <<clientVars, rx, tx, fin, rst, armed, pc, entryVars, back,
                 inbuffer, outbuffer, exhausted>>

(* Add fails (ENOSPC, ENOMEM): ExceptHandler, and on to the next. *)
AcceptAddFails ==
  /\ pc = "accept" /\ backlog # <<>>
  /\ backlog' = Tail(backlog)
  /\ exhausted' = TRUE
  /\ UNCHANGED <<clientVars, rx, tx, fin, rst, epollVars, pc, entryVars, back,
                 objVars>>

(* accept() reports EAGAIN. *)
AcceptAgain ==
  /\ pc = "accept" /\ backlog = <<>>
  /\ NextEntry
  /\ UNCHANGED <<clientVars, netVars, epollVars, batch, back, objVars,
                 exhausted>>

(* accept() reports another error (EMFILE, ENFILE, ECONNABORTED): return,  *)
(* whatever the backlog still holds.                                       *)
AcceptError ==
  /\ pc = "accept" /\ backlog # <<>>
  /\ exhausted' = TRUE
  /\ NextEntry
  /\ UNCHANGED <<clientVars, netVars, epollVars, batch, back, objVars>>

-----------------------------------------------------------------------------
(* RecvHandler *)

(* buf[s] = 0; _inbuffer += buf: what follows a NUL of this read is lost.  *)
UpToNul(buf) ==
  IF \A i \in DOMAIN buf : buf[i] # "nul" THEN buf
  ELSE LET first == CHOOSE i \in DOMAIN buf :
                      buf[i] = "nul" /\ \A j \in 1 .. i - 1 : buf[j] # "nul"
       IN  SubSeq(buf, 1, first - 1)

Smaller(m, n) == IF m < n THEN m ELSE n

(* Slip: one read() per report. *)
RecvReadOnce ==
  /\ pc = "recv" /\ rx[cur] # <<>>
  /\ LET s == Smaller(ReadSize, Len(rx[cur]))
     IN  /\ inbuffer' = [inbuffer EXCEPT
                           ![cur] = @ \o UpToNul(SubSeq(rx[cur], 1, s))]
         /\ rx' = [rx EXCEPT ![cur] = SubSeq(@, s + 1, Len(@))]
  /\ pc' = "parse"
  /\ UNCHANGED <<clientVars, backlog, tx, fin, rst, epollVars, entryVars, back,
                 heap, outbuffer, exhausted>>

RecvRead ==
  /\ pc = "recv" /\ rx[cur] # <<>>
  /\ LET s == Smaller(ReadSize, Len(rx[cur]))
     IN  /\ inbuffer' = [inbuffer EXCEPT
                           ![cur] = @ \o UpToNul(SubSeq(rx[cur], 1, s))]
         /\ rx' = [rx EXCEPT ![cur] = SubSeq(@, s + 1, Len(@))]
  /\ UNCHANGED <<clientVars, backlog, tx, fin, rst, epollVars, pc, entryVars,
                 back, heap, outbuffer, exhausted>>

(* read() reports the end of the stream or an error: the lines just read   *)
(* are not looked at.                                                      *)
RecvEnds ==
  /\ pc = "recv" /\ rx[cur] = <<>> /\ cur \in fin \cup rst
  /\ ExceptHandler(cur)
  /\ AfterRead(TRUE)
  /\ UNCHANGED <<clientVars, netVars, batch, inbuffer, outbuffer,
                 exhausted>>

RecvAgain ==
  /\ pc = "recv" /\ rx[cur] = <<>> /\ cur \notin fin \cup rst
  /\ pc' = "parse"
  /\ UNCHANGED <<clientVars, netVars, epollVars, entryVars, back, objVars,
                 exhausted>>

HasLine(s) == \E i \in DOMAIN s : s[i] = "nl"
FirstBreak(s) ==
  CHOOSE i \in DOMAIN s : s[i] = "nl" /\ \A j \in 1 .. i - 1 : s[j] # "nl"

(* ToUpperService and the line break RecvHandler adds. *)
Response(msg) ==
  <<"tag">> \o [i \in DOMAIN msg |-> IF msg[i] = "x" THEN "X" ELSE msg[i]]
            \o <<"nl">>

(* Slip: one line per report. *)
ParseOne ==
  /\ pc = "parse" /\ HasLine(inbuffer[cur])
  /\ LET s == inbuffer[cur]
         pos == FirstBreak(s)
     IN  /\ outbuffer' = [outbuffer EXCEPT
                            ![cur] = @ \o Response(SubSeq(s, 1, pos - 1))]
         /\ inbuffer' = [inbuffer EXCEPT ![cur] = SubSeq(s, pos + 1, Len(s))]
  /\ pc' = "send" /\ back' = "next"
  /\ UNCHANGED <<clientVars, netVars, epollVars, entryVars, heap, exhausted>>

(* ParseMessage cuts a line out of _inbuffer; its answer joins _outbuffer; *)
(* SendHandler(conn).                                                      *)
ParseMessage ==
  /\ pc = "parse" /\ HasLine(inbuffer[cur])
  /\ LET s == inbuffer[cur]
         pos == FirstBreak(s)
     IN  /\ outbuffer' = [outbuffer EXCEPT
                            ![cur] = @ \o Response(SubSeq(s, 1, pos - 1))]
         /\ inbuffer' = [inbuffer EXCEPT ![cur] = SubSeq(s, pos + 1, Len(s))]
  /\ pc' = "send" /\ back' = "parse"
  /\ UNCHANGED <<clientVars, netVars, epollVars, entryVars, heap, exhausted>>

(* No complete line is left: RecvHandler returns. *)
ParseDone ==
  /\ pc = "parse" /\ ~HasLine(inbuffer[cur])
  /\ AfterRead(FALSE)
  /\ UNCHANGED <<clientVars, netVars, epollVars, batch, objVars, exhausted>>

-----------------------------------------------------------------------------
(* SendHandler *)

(* Slip: a short write counts as a whole one. *)
SendWriteAll ==
  /\ pc = "send" /\ outbuffer[cur] # <<>>
  /\ cur \notin rst /\ Len(tx[cur]) < TxCap
  /\ LET s == Smaller(TxCap - Len(tx[cur]), Len(outbuffer[cur]))
     IN  tx' = [tx EXCEPT ![cur] = @ \o SubSeq(outbuffer[cur], 1, s)]
  /\ outbuffer' = [outbuffer EXCEPT ![cur] = <<>>]
  /\ UNCHANGED <<clientVars, backlog, rx, fin, rst, epollVars, pc, entryVars,
                 back, heap, inbuffer, exhausted>>

(* write() takes what fits; erase(0, s). *)
SendWrite ==
  /\ pc = "send" /\ outbuffer[cur] # <<>>
  /\ cur \notin rst /\ Len(tx[cur]) < TxCap
  /\ LET s == Smaller(TxCap - Len(tx[cur]), Len(outbuffer[cur]))
     IN  /\ tx' = [tx EXCEPT ![cur] = @ \o SubSeq(outbuffer[cur], 1, s)]
         /\ outbuffer' = [outbuffer EXCEPT ![cur] = SubSeq(@, s + 1, Len(@))]
  /\ UNCHANGED <<clientVars, backlog, rx, fin, rst, epollVars, pc, entryVars,
                 back, heap, inbuffer, exhausted>>

(* Slip: EPOLLOUT is never asked for. *)
ModInOnly(out) ==
  /\ armed' = armed \ {cur}
  /\ ready' = IF Events(cur, armed') # {} THEN ready \cup {cur} ELSE ready

(* Epoll::Mod, with or without EPOLLOUT: the kernel looks at the           *)
(* descriptor anew.                                                        *)
Mod(out) ==
  /\ armed' = IF out THEN armed \cup {cur} ELSE armed \ {cur}
  /\ ready' = IF Events(cur, armed') # {} THEN ready \cup {cur} ELSE ready

SendReturns ==
  IF back = "parse" THEN pc' = "parse" /\ UNCHANGED <<cur, bits>> ELSE NextEntry

(* All is written, or write() reports EAGAIN. *)
SendDone ==
  /\ pc = "send"
  /\ outbuffer[cur] = <<>> \/ (cur \notin rst /\ Len(tx[cur]) = TxCap)
  /\ Mod(outbuffer[cur] # <<>>)
  /\ SendReturns
  /\ UNCHANGED <<clientVars, netVars, interest, batch, back, objVars,
                 exhausted>>

(* write() reports ECONNRESET: ExceptHandler, return; RecvHandler goes on  *)
(* with the deleted Connection.                                            *)
SendError ==
  /\ pc = "send" /\ outbuffer[cur] # <<>>
  /\ cur \in rst \ fin
  /\ ExceptHandler(cur)
  /\ IF back = "parse" THEN pc' = "undefined" /\ UNCHANGED <<cur, bits>>
     ELSE NextEntry
  /\ UNCHANGED <<clientVars, netVars, batch, back, inbuffer, outbuffer,
                 exhausted>>

(* RST after FIN: write() raises SIGPIPE, which nothing in 15 ignores, and *)
(* the process ends.                                                       *)
SendKilled ==
  /\ pc = "send" /\ outbuffer[cur] # <<>>
  /\ cur \in rst \cap fin
  /\ pc' = "killed"
  /\ UNCHANGED <<clientVars, netVars, epollVars, entryVars, back, objVars,
                 exhausted>>

-----------------------------------------------------------------------------
Server ==
  \/ EpollWait \/ (\E e \in batch : Dispatch(e)) \/ ExceptEvent
  \/ Accept \/ AcceptAddFails \/ AcceptAgain \/ AcceptError
  \/ RecvRead \/ RecvEnds \/ RecvAgain \/ ParseMessage \/ ParseDone
  \/ SendWrite \/ SendDone \/ SendError \/ SendKilled
Client(c) ==
  Connect(c) \/ Send(c) \/ Receive(c) \/ HalfClose(c) \/ Leave(c) \/ Refuse(c)

Next == Server \/ \E c \in Clients : Client(c)

(* The server thread is scheduled; those who stay send and read. *)
Fairness ==
  /\ WF_vars(Server)
  /\ \A c \in Staying : WF_vars(Connect(c)) /\ WF_vars(Send(c))
                        /\ WF_vars(Receive(c))

Spec == Init /\ [][Next]_vars
FairSpec == Spec /\ Fairness

-----------------------------------------------------------------------------
(* The types; what the thread is doing agrees with cur. *)
TypeOK ==
  /\ peer \in [Clients -> {"new", "open", "half", "gone"}]
  /\ \A c \in Clients : sent[c] \in 0 .. Len(Script[c])
  /\ got \in [Clients -> Seq(Char)]
  /\ backlog \in Seq(Clients)
  /\ rx \in [Clients -> Seq(Sent)] /\ tx \in [Clients -> Seq(Char)]
  /\ \A c \in Clients : Len(tx[c]) <= TxCap
  /\ fin \subseteq Clients /\ rst \subseteq Clients
  /\ interest \subseteq Clients \cup {Listener}
  /\ ready \subseteq interest /\ armed \subseteq interest \ {Listener}
  /\ pc \in {"wait", "dispatch", "accept", "recv", "parse", "send", "except",
             "undefined", "killed"}
  /\ pc \in {"wait", "dispatch"} <=> cur = NoConn
  /\ pc = "accept" <=> cur = Listener
  /\ pc = "wait" => batch = {}
  /\ bits \subseteq {"IN", "OUT", "ERR"} /\ back \in {"parse", "next"}
  /\ inbuffer \in [Clients -> Seq(Sent)]
  /\ outbuffer \in [Clients -> Seq(Char)]
  /\ exhausted \in BOOLEAN

Alive == pc \notin {"undefined", "killed"}

(* The answers to the complete lines of a stream, read one character at a  *)
(* time: the reference for the framing by find, substr and erase.          *)
Unread == [line |-> <<>>, out |-> <<>>]
ReadChar(acc, ch) ==
  IF ch = "nl" THEN [line |-> <<>>, out |-> acc.out \o Response(acc.line)]
  ELSE [line |-> Append(acc.line, ch), out |-> acc.out]
Reading(stream) ==
  LET after[i \in 0 .. Len(stream)] ==
        IF i = 0 THEN Unread ELSE ReadChar(after[i - 1], stream[i])
  IN  after
Answers(stream) == Reading(stream)[Len(stream)].out

(* However the stream is cut by read() and the answers by write(), what a  *)
(* client has, has coming, and will be answered from _inbuffer is the      *)
(* answer to what was read from it: nothing is lost, doubled or reordered. *)
(* Streams with NUL are excepted.                                          *)
StreamPreserved ==
  \A c \in (heap \cap Clients) \ rst :
    (\A i \in DOMAIN Script[c] : Script[c][i] # "nul")
      => got[c] \o tx[c] \o outbuffer[c] \o Answers(inbuffer[c])
           = Answers(SubSeq(Script[c], 1, sent[c] - Len(rx[c])))

Reported(c, bit) == \E e \in batch : e.conn = c /\ {bit, "ERR"} \cap e.bits # {}

(* Edge-triggered epoll reports an arrival once: what is unread on a       *)
(* watched connection has a report coming, or the read loop is at it.      *)
NoMissedInput ==
  Alive => \A c \in interest \cap Clients :
    Readable(c) => \/ c \in ready \/ Reported(c, "IN")
                   \/ c = cur /\ pc \in {"recv", "except"}

(* What waits in _outbuffer will be sent: either SendHandler is about to   *)
(* run, or EPOLLOUT is watched and the buffer is full or its report on its *)
(* way; no complete line is left lying in _inbuffer.                       *)
NothingStalled ==
  Alive => \A c \in heap \cap Clients :
    /\ outbuffer[c] # <<>> =>
         \/ c = cur /\ (pc \in {"send", "except"} \/ "OUT" \in bits)
         \/ c \in armed /\ (~Writable(c) \/ c \in ready \/ Reported(c, "OUT"))
    /\ HasLine(inbuffer[c]) => c = cur /\ pc \in {"recv", "parse", "send"}

(* Every object is watched and every watched pointer, also those in the    *)
(* results of epoll_wait still to be dispatched, is to a live object.      *)
EventsLive ==
  /\ interest = heap
  /\ \A e \in batch : e.conn \in heap

(* A client that stays gets the answers to all its lines, whatever the     *)
(* others do, unless accept failed or the server ended; and the thread     *)
(* always comes back to epoll_wait, where it hears of the others.          *)
LinesAnswered ==
  /\ \A c \in Staying :
       <>(got[c] = Answers(Script[c]) \/ exhausted \/ ~Alive)
  /\ []<>(pc = "wait" \/ ~Alive)

-----------------------------------------------------------------------------
(* Expected of the code and not so. *)

(* "Uniformly and safely released": once ExceptHandler has deleted a       *)
(* Connection no handler looks into it.                                    *)
NoUseAfterDelete == pc # "undefined"
=============================================================================
