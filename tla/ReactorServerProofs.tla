------------------------ MODULE ReactorServerProofs ------------------------
(***************************************************************************)
(* The safety of ReactorServer, for any clients, descriptors, workers,     *)
(* queue, buffers and lengths.  The invariant follows a connection through *)
(* the hand-over: backlog, Connection object, queued task, worker.         *)
(***************************************************************************)
EXTENDS ReactorServer, FiniteSetTheorems, WellFoundedInduction, TLAPS

Entries == [conn : Conns, bits : {{"IN"}, {"IN", "ERR"}}]
Jobs == [fd : Fds, req : Clients]
Busy == [fd : Fds, req : Clients, sent : 0 .. RespLen]
Units == Clients \X Nat

Types ==
  /\ peer \in [Clients -> {"new", "open", "half", "gone"}]
  /\ sent \in [Clients -> Nat] /\ got \in [Clients -> Seq(Units)]
  /\ backlog \in Seq(Clients)
  /\ rx \in [Clients -> Nat] /\ tx \in [Clients -> Seq(Units)]
  /\ fin \subseteq Clients /\ rst \subseteq Clients
  /\ fdtab \in [Fds -> Clients \cup {NoClient}]
  /\ interest \subseteq Conns /\ ready \subseteq interest
  /\ pc \in {"wait", "dispatch", "accept", "recv", "enqueue", "delete",
             "except", "aborted"}
  /\ batch \subseteq Entries
  /\ cur \in Conns \cup {NoClient}
  /\ heap \subseteq Conns
  /\ sockfd \in [Clients -> Fds \cup {NoFd}]
  /\ inbuffer \in [Clients -> Nat]
  /\ jobs \in Seq(Jobs)
  /\ work \in [Workers -> Busy \cup {Idle}]
  /\ exhausted \in BOOLEAN

(* The numbers: what was sent bounds what was received. *)
Bounds ==
  /\ \A c \in Clients : inbuffer[c] + rx[c] <= sent[c] /\ sent[c] <= ReqLen[c]
  /\ \A c \in Clients : Len(tx[c]) <= TxCap
  /\ Len(jobs) <= QueueCap

(* The reactor thread, its batch and the objects they point to. *)
Shape ==
  /\ pc \in {"wait", "dispatch"} <=> cur = NoClient
  /\ pc = "accept" <=> cur = Listener
  /\ pc = "wait" => batch = {}
  /\ interest \subseteq heap /\ Listener \in interest
  /\ cur # NoClient => cur \in heap
  /\ pc \in {"recv", "except"} => cur \in interest
  /\ pc \in {"enqueue", "delete"} => cur \notin interest
  /\ pc = "except" => cur \in fin \cup rst
  /\ \A e \in batch : /\ e.conn \in interest /\ e.conn # cur
                      /\ "ERR" \in e.bits => e.conn \in rst
  /\ \A d, e \in batch : d.conn = e.conn => d = e

(* The other end of a connection. *)
InLine(c) == \E i \in 1 .. Len(backlog) : backlog[i] = c
Ends ==
  /\ \A c \in fin : peer[c] \in {"half", "gone"}
  /\ \A c \in rst : peer[c] = "gone"
  /\ \A c \in Clients : peer[c] = "gone" => tx[c] = <<>>
  /\ \A i, j \in 1 .. Len(backlog) : backlog[i] = backlog[j] => i = j
  /\ \A c \in Clients :
       peer[c] = "new" \/ InLine(c) => c \notin heap /\ \A f \in Fds : fdtab[f] # c
  /\ \A c \in Clients : peer[c] = "new" => ~InLine(c)

(* The hand-over.  A connection is a live object's, a task's or a worker's;*)
(* its owner knows its descriptor, and every open descriptor has an owner. *)
Live(c) == c \in heap /\ ~(pc = "delete" /\ cur = c)
Queued(c) == \E i \in 1 .. Len(jobs) : jobs[i].req = c
Served(c) == \E w \in Workers : work[w].req = c

Owned ==
  /\ \A c \in Clients : Live(c) => sockfd[c] \in Fds /\ fdtab[sockfd[c]] = c
  /\ \A i \in 1 .. Len(jobs) : fdtab[jobs[i].fd] = jobs[i].req
  /\ \A w \in Workers : work[w] # Idle => fdtab[work[w].fd] = work[w].req
  /\ \A c \in Clients, f \in Fds : fdtab[f] = c =>
       \/ Live(c) /\ sockfd[c] = f
       \/ \E i \in 1 .. Len(jobs) : jobs[i].fd = f
       \/ \E w \in Workers : work[w].fd = f

Apart ==
  /\ \A c \in Clients : Live(c) => ~Queued(c) /\ ~Served(c)
  /\ \A c \in Clients : Queued(c) => ~Served(c)
  /\ \A i, j \in 1 .. Len(jobs) : jobs[i].req = jobs[j].req => i = j
  /\ \A v, w \in Workers : work[v].req = work[w].req /\ work[v] # Idle => v = w

(* What was written to a connection is the response to its request, as far *)
(* as its worker has come; before there is a worker that is nothing.       *)
Written(c) == Len(got[c]) + Len(tx[c])
InOrder ==
  /\ \A c \in Clients : \A i \in 1 .. Len(got[c]) : got[c][i] = <<c, i>>
  /\ \A c \in Clients : \A i \in 1 .. Len(tx[c]) : tx[c][i] = <<c, Len(got[c]) + i>>
Unwritten ==
  \A c \in Clients :
    peer[c] = "new" \/ InLine(c) \/ Live(c) \/ Queued(c) => Written(c) = 0
InStep ==
  \A w \in Workers, c \in Clients :
    work[w].req = c /\ peer[c] # "gone" => Written(c) = work[w].sent
Complete ==
  \A c \in Clients :
    peer[c] = "open" /\ ~InLine(c) =>
      (\E f \in Fds : fdtab[f] = c) \/ Written(c) = RespLen

IInv ==
  /\ Types /\ Bounds /\ Shape /\ Ends /\ Owned /\ Apart
  /\ InOrder /\ Unwritten /\ InStep /\ Complete
  /\ NoMissedData /\ NoMissedConnection

-----------------------------------------------------------------------------
(* Operators of the model *)

(* While a descriptor is free the least one exists: accept() can return    *)
(* it.                                                                     *)
LEMMA LowestFreeIsFree ==
  ASSUME FreeFds # {}
  PROVE  LowestFree \in Fds /\ fdtab[LowestFree] = NoClient
  <1> DEFINE R == {p \in Nat \X Nat : p[1] < p[2]}
  <1>1. IsWellFoundedOn(R, Nat)
    BY NatLessThanWellFounded, Zenon DEF OpToRel
  <1> HIDE DEF R
  <1>2. FreeFds \subseteq Nat /\ FreeFds \subseteq Fds
    BY ReactorServerAssumption DEF FreeFds
  <1>3. PICK f \in FreeFds : \A g \in FreeFds : <<g, f>> \notin R
    BY <1>1, <1>2, WFMin, Zenon
  <1>4. \A g \in FreeFds : f <= g
    <2>1. TAKE g \in FreeFds
    <2>2. <<g, f>> \notin R BY <1>3
    <2> QED BY <1>2, <2>2 DEF R
  <1>5. LowestFree \in FreeFds BY <1>4 DEF LowestFree
  <1> QED BY <1>5 DEF FreeFds

(* The listening Connection is no client's, and "none" is neither. *)
LEMMA NamesApart ==
  /\ Listener \notin Clients /\ NoClient \notin Clients /\ NoClient # Listener
  /\ NoFd \notin Fds
  BY ReactorServerAssumption DEF NoFd

(* A step that leaves descriptors, objects, tasks and workers alone        *)
(* leaves their ownership alone.                                           *)
LEMMA OwnersKept ==
  ASSUME UNCHANGED <<fdtab, pc, cur, heap, sockfd, jobs, work>>
  PROVE  (Owned => Owned') /\ (Apart => Apart')
  BY DEF Owned, Apart, Live, Queued, Served

(* Connect puts one client at the end of the backlog and moves nobody      *)
(* else.                                                                   *)
LEMMA Joins ==
  ASSUME Types, NEW c \in Clients, backlog' = Append(backlog, c)
  PROVE  \A d \in Clients : InLine(d)' <=> InLine(d) \/ d = c
  <1>1. /\ Len(backlog') = Len(backlog) + 1 /\ Len(backlog) \in Nat
        /\ backlog'[Len(backlog) + 1] = c
        /\ \A i \in 1 .. Len(backlog) : backlog'[i] = backlog[i]
    BY DEF Types
  <1> QED BY <1>1 DEF InLine

(* accept() takes the oldest connection out of the backlog, where it       *)
(* occurs once.                                                            *)
LEMMA Leaves ==
  ASSUME Types, Ends, backlog # <<>>, backlog' = Tail(backlog),
         NEW c, c = Head(backlog)
  PROVE  /\ c \in Clients /\ InLine(c) /\ ~InLine(c)'
         /\ \A d \in Clients : d # c => (InLine(d)' <=> InLine(d))
         /\ \A i, j \in 1 .. Len(backlog') : backlog'[i] = backlog'[j] => i = j
  <1>1. /\ Len(backlog) \in Nat \ {0} /\ c = backlog[1] /\ c \in Clients
        /\ Len(backlog') = Len(backlog) - 1
    BY DEF Types
  <1>2. \A i \in 1 .. Len(backlog') :
          i + 1 \in 1 .. Len(backlog) /\ i + 1 # 1 /\ backlog'[i] = backlog[i + 1]
    BY <1>1 DEF Types
  <1>3. \A i \in 1 .. Len(backlog) :
          i = 1 \/ (i - 1 \in 1 .. Len(backlog') /\ backlog'[i - 1] = backlog[i])
    BY <1>1 DEF Types
  <1>4. InLine(c) BY <1>1 DEF InLine
  <1>5. \A i, j \in 1 .. Len(backlog) : backlog[i] = backlog[j] => i = j
    BY DEF Ends
  <1>6. ~InLine(c)'
    <2>1. ASSUME NEW i \in 1 .. Len(backlog'), backlog'[i] = c PROVE FALSE
      BY <1>1, <1>2, <1>5, <2>1
    <2> QED BY <2>1 DEF InLine
  <1>7. ASSUME NEW d \in Clients, d # c PROVE InLine(d)' <=> InLine(d)
    BY <1>1, <1>2, <1>3, <1>7, SMTT(30) DEF InLine
  <1>8. ASSUME NEW i \in 1 .. Len(backlog'), NEW j \in 1 .. Len(backlog'),
               backlog'[i] = backlog'[j]
        PROVE  i = j
    <2>1. i + 1 = j + 1 BY <1>2, <1>5, <1>8
    <2> QED BY <2>1
  <1> QED BY <1>1, <1>4, <1>6, <1>7, <1>8

-----------------------------------------------------------------------------
(* Clients *)

(* A client's SYN: it joins the backlog and the listening descriptor is    *)
(* reported.                                                               *)
LEMMA ConnectStep ==
  ASSUME IInv, NEW c \in Clients, Connect(c)
  PROVE  IInv'
  <1>1. Types' BY SMTT(30) DEF Connect, Edge, IInv, objVars, Types
  <1>2. Bounds' BY DEF Connect, Edge, IInv, objVars, Types, Bounds
  <1>3. Shape' BY DEF Connect, Edge, IInv, objVars, Types, Shape
  <1>4. Ends'
    <2>1. \A d \in Clients : InLine(d)' <=> InLine(d) \/ d = c
      BY Joins DEF IInv, Connect
    <2>2. peer' = [peer EXCEPT ![c] = "open"] /\ peer[c] = "new"
          /\ UNCHANGED <<fin, rst, tx, heap, fdtab>>
      BY DEF Connect, objVars
    <2>3. \A i, j \in 1 .. Len(backlog') : backlog'[i] = backlog'[j] => i = j
      <3>1. \A i \in 1 .. Len(backlog) : backlog[i] # c
        BY DEF IInv, Ends, InLine, Connect
      <3>2. /\ Len(backlog') = Len(backlog) + 1 /\ Len(backlog) \in Nat
            /\ backlog'[Len(backlog) + 1] = c
            /\ \A i \in 1 .. Len(backlog) : backlog'[i] = backlog[i]
        BY DEF IInv, Types, Connect
      <3>3. \A i, j \in 1 .. Len(backlog) : backlog[i] = backlog[j] => i = j
        BY DEF IInv, Ends
      <3> QED BY <3>1, <3>2, <3>3
    <2> QED BY <2>1, <2>2, <2>3 DEF IInv, Types, Ends
  <1>5. Owned' BY OwnersKept DEF IInv, Connect, objVars
  <1>6. Apart' BY OwnersKept DEF IInv, Connect, objVars
  <1>7. InOrder' BY DEF Connect, Edge, IInv, objVars, Types, InOrder
  <1>8. Unwritten'
    <2>1. \A d \in Clients : InLine(d)' <=> InLine(d) \/ d = c
      BY Joins DEF IInv, Connect
    <2> QED
      BY <2>1
      DEF Connect, IInv, objVars, Types, Unwritten, Written, Live, Queued
  <1>9. InStep'
    BY DEF Connect, Edge, IInv, objVars, Types, InStep, Written, Busy, Idle
  <1>10. Complete'
    <2>1. \A d \in Clients : InLine(d)' <=> InLine(d) \/ d = c
      BY Joins DEF IInv, Connect
    <2> QED BY <2>1 DEF Connect, IInv, objVars, Types, Complete, Written
  <1>11. NoMissedData'
    BY DEF Connect, Edge, IInv, objVars, Types, Shape, NoMissedData, Readable,
           InHand
  <1>12. NoMissedConnection'
    BY DEF Connect, Edge, IInv, objVars, Types, Shape, NoMissedConnection,
           InHand
  <1> QED
    BY <1>1, <1>2, <1>3, <1>4, <1>5, <1>6, <1>7, <1>8, <1>9, <1>10, <1>11, <1>12
    DEF IInv

(* A client sends one more unit of its request. *)
LEMMA SendStep ==
  ASSUME IInv, NEW c \in Clients, Send(c)
  PROVE  IInv'
  <1>1. Types' BY SMTT(30) DEF Send, Edge, IInv, objVars, Types
  <1>2. Bounds'
    <2>1. /\ ReqLen[c] \in Nat /\ sent[c] \in Nat /\ rx[c] \in Nat
          /\ inbuffer[c] \in Nat
      BY ReactorServerAssumption DEF IInv, Types
    <2>2. sent'[c] = sent[c] + 1 /\ rx'[c] = rx[c] + 1 /\ sent[c] < ReqLen[c]
      BY DEF Send, IInv, Types
    <2>3. \A d \in Clients : d # c => sent'[d] = sent[d] /\ rx'[d] = rx[d]
      BY DEF Send, IInv, Types
    <2> QED BY <2>1, <2>2, <2>3 DEF Send, objVars, IInv, Bounds
  <1>3. Shape' BY DEF Send, Edge, IInv, objVars, Types, Shape
  <1>4. Ends' BY SMTT(30) DEF Send, Edge, IInv, objVars, Types, Ends, InLine
  <1>5. Owned' BY OwnersKept DEF IInv, Send, objVars
  <1>6. Apart' BY OwnersKept DEF IInv, Send, objVars
  <1>7. InOrder' BY DEF Send, Edge, IInv, objVars, Types, InOrder
  <1>8. Unwritten'
    BY DEF Send, Edge, IInv, objVars, Types, Unwritten, Written, InLine, Live,
           Queued
  <1>9. InStep' BY DEF Send, Edge, IInv, objVars, Types, InStep, Written
  <1>10. Complete'
    BY DEF Send, Edge, IInv, objVars, Types, Complete, Written, InLine
  <1>11. NoMissedData'
    BY DEF Send, Edge, IInv, objVars, Types, Shape, NoMissedData, Readable,
           InHand
  <1>12. NoMissedConnection'
    BY DEF Send, Edge, IInv, objVars, Types, Shape, NoMissedConnection, InHand
  <1> QED
    BY <1>1, <1>2, <1>3, <1>4, <1>5, <1>6, <1>7, <1>8, <1>9, <1>10, <1>11, <1>12
    DEF IInv

(* A client takes one unit out of the kernel's buffer: the units stay in   *)
(* order and their number is what it was.                                  *)
LEMMA ReceiveStep ==
  ASSUME IInv, NEW c \in Clients, Receive(c)
  PROVE  IInv'
  <1>1. Types' BY SMTT(30) DEF Receive, IInv, objVars, Types
  <1>a. /\ got[c] \in Seq(Units) /\ tx[c] \in Seq(Units) /\ tx[c] # <<>>
        /\ got' = [got EXCEPT ![c] = Append(@, Head(tx[c]))]
        /\ tx' = [tx EXCEPT ![c] = Tail(@)]
    BY DEF IInv, Types, Receive
  <1>b. /\ Len(got'[c]) = Len(got[c]) + 1 /\ Len(tx'[c]) = Len(tx[c]) - 1
        /\ Len(got[c]) \in Nat /\ Len(tx[c]) \in Nat \ {0}
        /\ got'[c] \in Seq(Units) /\ tx'[c] \in Seq(Units)
    BY <1>a DEF IInv, Types
  <1>c. \A d \in Clients : d # c => got'[d] = got[d] /\ tx'[d] = tx[d]
    BY <1>a DEF IInv, Types
  <1>d. \A d \in Clients : Written(d)' = Written(d)
    <2>1. got \in [Clients -> Seq(Units)] /\ got' \in [Clients -> Seq(Units)]
          /\ tx \in [Clients -> Seq(Units)] /\ tx' \in [Clients -> Seq(Units)]
      BY <1>1 DEF IInv, Types
    <2>2. Written(c)' = Written(c) BY <2>1, <1>b DEF Written
    <2> QED BY <2>2, <1>c DEF Written
  <1>2. Bounds'
    <2>1. \A d \in Clients : Len(tx'[d]) <= TxCap
      <3>1. Len(tx'[c]) <= TxCap
        BY <1>a, <1>b, ReactorServerAssumption DEF IInv, Bounds
      <3> QED BY <1>c, <3>1 DEF IInv, Bounds
    <2> QED BY <2>1 DEF Receive, objVars, IInv, Bounds
  <1>3. Shape' BY DEF Receive, IInv, objVars, Types, Shape
  <1>4. Ends' BY SMTT(30) DEF Receive, IInv, objVars, Types, Ends, InLine
  <1>5. Owned' BY OwnersKept DEF IInv, Receive, objVars
  <1>6. Apart' BY OwnersKept DEF IInv, Receive, objVars
  <1>7. InOrder'
    <2>1. ASSUME NEW i \in 1 .. Len(got'[c]) PROVE got'[c][i] = <<c, i>>
      <3>1. CASE i = Len(got[c]) + 1
        <4>1. got'[c][i] = tx[c][1] /\ 1 \in 1 .. Len(tx[c])
          BY <1>a, <1>b, <3>1 DEF IInv, Types
        <4>2. tx[c][1] = <<c, Len(got[c]) + 1>> BY <4>1 DEF IInv, InOrder
        <4> QED BY <3>1, <4>1, <4>2
      <3>2. CASE i \in 1 .. Len(got[c])
        <4>1. got'[c][i] = got[c][i] BY <1>a, <3>2 DEF IInv, Types
        <4> QED BY <3>2, <4>1 DEF IInv, InOrder
      <3> QED BY <1>b, <3>1, <3>2
    <2>2. ASSUME NEW i \in 1 .. Len(tx'[c])
          PROVE  tx'[c][i] = <<c, Len(got'[c]) + i>>
      <3>1. i + 1 \in 1 .. Len(tx[c]) /\ tx'[c][i] = tx[c][i + 1]
        BY <1>a, <1>b DEF IInv, Types
      <3>2. tx[c][i + 1] = <<c, Len(got[c]) + (i + 1)>>
        BY <3>1 DEF IInv, InOrder
      <3>3. Len(got[c]) + (i + 1) = Len(got'[c]) + i
        <4>1. got \in [Clients -> Seq(Units)] /\ got' \in [Clients -> Seq(Units)]
          BY <1>1 DEF IInv, Types
        <4>2. Len(got'[c]) = Len(got[c]) + 1 /\ i \in Int BY <1>b
        <4> QED BY <4>1, <4>2
      <3> QED BY <3>1, <3>2, <3>3
    <2>3. ASSUME NEW d \in Clients, d # c
          PROVE  /\ \A i \in 1 .. Len(got'[d]) : got'[d][i] = <<d, i>>
                 /\ \A i \in 1 .. Len(tx'[d]) : tx'[d][i] = <<d, Len(got'[d]) + i>>
      <3>1. got'[d] = got[d] /\ tx'[d] = tx[d] BY <1>c, <2>3
      <3> QED BY <3>1 DEF IInv, InOrder
    <2> QED BY <2>1, <2>2, <2>3 DEF InOrder
  <1>8. Unwritten'
    BY <1>d DEF Receive, IInv, Unwritten, InLine, Live, Queued, objVars
  <1>9. InStep' BY <1>d DEF Receive, IInv, Types, InStep, Busy, Idle
  <1>10. Complete' BY <1>d DEF Receive, IInv, Complete, InLine
  <1>11. NoMissedData'
    BY DEF Receive, IInv, objVars, Types, Shape, NoMissedData, Readable, InHand
  <1>12. NoMissedConnection'
    BY DEF Receive, IInv, objVars, Types, Shape, NoMissedConnection, InHand
  <1> QED
    BY <1>1, <1>2, <1>3, <1>4, <1>5, <1>6, <1>7, <1>8, <1>9, <1>10, <1>11, <1>12
    DEF IInv

(* A client shuts its sending side down. *)
LEMMA HalfCloseStep ==
  ASSUME IInv, NEW c \in Clients, HalfClose(c)
  PROVE  IInv'
  <1>1. Types' BY DEF HalfClose, Edge, IInv, objVars, Types
  <1>2. Bounds' BY DEF HalfClose, Edge, IInv, objVars, Types, Bounds
  <1>3. Shape' BY DEF HalfClose, Edge, IInv, objVars, Types, Shape
  <1>4. Ends'
    <2>1. /\ peer' = [peer EXCEPT ![c] = "half"] /\ peer[c] = "open"
          /\ fin' = fin \cup {c}
          /\ UNCHANGED <<backlog, rst, tx, heap, fdtab>>
      BY DEF HalfClose, objVars
    <2>2. \A d \in Clients : InLine(d)' <=> InLine(d) BY <2>1 DEF InLine
    <2> QED BY <2>1, <2>2 DEF IInv, Types, Ends
  <1>5. Owned' BY OwnersKept DEF IInv, HalfClose, objVars
  <1>6. Apart' BY OwnersKept DEF IInv, HalfClose, objVars
  <1>7. InOrder' BY DEF HalfClose, Edge, IInv, objVars, Types, InOrder
  <1>8. Unwritten'
    BY DEF HalfClose, Edge, IInv, objVars, Types, Unwritten, Written, InLine,
           Live, Queued
  <1>9. InStep'
    BY DEF HalfClose, Edge, IInv, objVars, Types, InStep, Written, Busy, Idle
  <1>10. Complete'
    BY DEF HalfClose, Edge, IInv, objVars, Types, Complete, Written, InLine
  <1>11. NoMissedData'
    BY DEF HalfClose, Edge, IInv, objVars, Types, Shape, NoMissedData, Readable,
           InHand
  <1>12. NoMissedConnection'
    BY DEF HalfClose, Edge, IInv, objVars, Types, Shape, NoMissedConnection,
           InHand
  <1> QED
    BY <1>1, <1>2, <1>3, <1>4, <1>5, <1>6, <1>7, <1>8, <1>9, <1>10, <1>11, <1>12
    DEF IInv

(* A client closes: what was under way to it is thrown away. *)
LEMMA LeaveStep ==
  ASSUME IInv, NEW c \in Clients, Leave(c)
  PROVE  IInv'
  <1>1. Types' BY DEF Leave, Edge, IInv, objVars, Types
  <1>a. /\ tx' = [tx EXCEPT ![c] = <<>>] /\ got' = got
        /\ Len(tx'[c]) = 0 /\ tx[c] \in Seq(Units) /\ got[c] \in Seq(Units)
        /\ \A d \in Clients : d # c => tx'[d] = tx[d]
    BY DEF Leave, IInv, Types
  <1>2. Bounds'
    <2>1. \A d \in Clients : Len(tx'[d]) <= TxCap
      BY <1>a, ReactorServerAssumption DEF IInv, Bounds
    <2> QED BY <2>1 DEF Leave, objVars, IInv, Bounds
  <1>3. Shape' BY DEF Leave, Edge, IInv, objVars, Types, Shape
  <1>4. Ends' BY DEF Leave, Edge, IInv, objVars, Types, Ends, InLine
  <1>5. Owned' BY OwnersKept DEF IInv, Leave, objVars
  <1>6. Apart' BY OwnersKept DEF IInv, Leave, objVars
  <1>7. InOrder'
    <2>1. ASSUME NEW d \in Clients
          PROVE  /\ \A i \in 1 .. Len(got[d]) : got[d][i] = <<d, i>>
                 /\ \A i \in 1 .. Len(tx'[d]) : tx'[d][i] = <<d, Len(got[d]) + i>>
      <3>1. CASE d = c BY <1>a, <3>1 DEF IInv, InOrder
      <3>2. CASE d # c
        <4>1. tx'[d] = tx[d] BY <1>a, <3>2
        <4> QED BY <4>1 DEF IInv, InOrder
      <3> QED BY <3>1, <3>2
    <2> QED BY <1>a, <2>1 DEF InOrder
  <1>8. Unwritten'
    <2>1. \A d \in Clients : Written(d) = 0 => Written(d)' = 0
      <3>1. got \in [Clients -> Seq(Units)] /\ tx \in [Clients -> Seq(Units)]
            /\ tx' \in [Clients -> Seq(Units)]
        BY <1>1 DEF IInv, Types
      <3> QED BY <3>1, <1>a DEF Written
    <2>2. \A d \in Clients : peer'[d] = "new" => peer[d] = "new"
      BY DEF Leave, IInv, Types
    <2> QED
      BY <2>1, <2>2 DEF Leave, IInv, Unwritten, InLine, Live, Queued, objVars
  <1>9. InStep'
    BY DEF Leave, Edge, IInv, objVars, Types, InStep, Written, Busy, Idle
  <1>10. Complete'
    BY DEF Leave, Edge, IInv, objVars, Types, Complete, Written, InLine
  <1>11. NoMissedData'
    BY DEF Leave, Edge, IInv, objVars, Types, Shape, NoMissedData, Readable,
           InHand
  <1>12. NoMissedConnection'
    BY DEF Leave, Edge, IInv, objVars, Types, Shape, NoMissedConnection, InHand
  <1> QED
    BY <1>1, <1>2, <1>3, <1>4, <1>5, <1>6, <1>7, <1>8, <1>9, <1>10, <1>11, <1>12
    DEF IInv

-----------------------------------------------------------------------------
(* The reactor thread *)

(* epoll_wait moves reports from the ready list to the batch, one for      *)
(* each connection; none is lost on the way.                               *)
LEMMA EpollWaitStep ==
  ASSUME IInv, EpollWait
  PROVE  IInv'
  <1>a. PICK S \in SUBSET {c \in ready : Readable(c)} :
          /\ batch' = {Event(c) : c \in S}
          /\ ready' = {c \in ready : Readable(c)} \ S
          /\ pc' = IF S = {} THEN "wait" ELSE "dispatch"
    BY DEF EpollWait
  <1>b. /\ pc = "wait" /\ cur = NoClient /\ batch = {}
        /\ UNCHANGED <<clientVars, netVars, fdtab, interest, cur, objVars, jobs,
                       work, exhausted>>
    BY DEF EpollWait, IInv, Shape
  <1>c. \A c : Event(c).conn = c /\ ("ERR" \in Event(c).bits => c \in rst)
    BY DEF Event
  <1>1. Types'
    <2>1. batch' \subseteq Entries
      <3>1. S \subseteq Conns BY DEF IInv, Types
      <3> QED BY <1>a, <3>1 DEF Event, Entries
    <2> QED BY <1>a, <1>b, <2>1 DEF IInv, Types, clientVars, netVars, objVars
  <1>2. Bounds'
    BY DEF EpollWait, IInv, clientVars, netVars, objVars, Types, Bounds
  <1>3. Shape'
    <2>1. \A e \in batch' : e.conn \in interest /\ ("ERR" \in e.bits => e.conn \in rst)
      BY <1>a, <1>c DEF IInv, Types
    <2>2. \A d, e \in batch' : d.conn = e.conn => d = e
      BY <1>a, <1>c
    <2>3. \A e \in batch' : e.conn # NoClient
      BY <2>1, ReactorServerAssumption DEF IInv, Types, Conns
    <2>4. pc' = "wait" => batch' = {} BY <1>a
    <2>5. pc' \in {"wait", "dispatch"} BY <1>a
    <2>6. cur' = NoClient /\ NoClient # Listener
      BY <1>b, ReactorServerAssumption
    <2> QED
      BY <1>b, <2>1, <2>2, <2>3, <2>4, <2>5, <2>6
      DEF IInv, Shape, netVars, objVars
  <1>4. Ends'
    BY DEF EpollWait, IInv, clientVars, netVars, objVars, Types, Ends, InLine
  <1>5. Owned'
    BY DEF EpollWait, IInv, clientVars, netVars, objVars, Types, Shape, Owned,
           Live
  <1>6. Apart'
    BY DEF EpollWait, IInv, clientVars, netVars, objVars, Types, Shape, Apart,
           Live, Queued, Served
  <1>7. InOrder'
    BY DEF EpollWait, IInv, clientVars, netVars, objVars, Types, InOrder
  <1>8. Unwritten'
    BY DEF EpollWait, IInv, clientVars, netVars, objVars, Types, Unwritten,
           Written, InLine, Live, Queued
  <1>9. InStep'
    BY DEF EpollWait, IInv, clientVars, netVars, objVars, Types, InStep, Written
  <1>10. Complete'
    BY DEF EpollWait, IInv, clientVars, netVars, objVars, Types, Complete,
           Written, InLine
  <1>11. NoMissedData'
    <2>1. ASSUME NEW c \in Conns, Readable(c), c \in ready
          PROVE  c \in ready' \/ \E e \in batch' : e.conn = c
      BY <1>a, <1>c, <2>1
    <2>2. \A c \in Conns : Readable(c)' = Readable(c)
      BY <1>b DEF Readable, netVars
    <2>3. \A c \in Conns : InHand(c) => c \in ready
      BY <1>b, ReactorServerAssumption DEF InHand, Conns
    <2> QED BY <1>b, <2>1, <2>2, <2>3 DEF IInv, NoMissedData, InHand, Conns
  <1>12. NoMissedConnection'
    <2>1. ASSUME NEW c \in Conns, Readable(c), c \in ready
          PROVE  c \in ready' \/ \E e \in batch' : e.conn = c
      BY <1>a, <1>c, <2>1
    <2>2. \A c \in Conns : Readable(c)' = Readable(c)
      BY <1>b DEF Readable, netVars
    <2>3. \A c \in Conns : InHand(c) => c \in ready
      BY <1>b, ReactorServerAssumption DEF InHand, Conns
    <2> QED
      BY <1>b, <2>1, <2>2, <2>3
      DEF IInv, NoMissedConnection, InHand, Conns, Readable, netVars
  <1> QED
    BY <1>1, <1>2, <1>3, <1>4, <1>5, <1>6, <1>7, <1>8, <1>9, <1>10, <1>11, <1>12
    DEF IInv

(* One entry of the batch is taken up; no other entry is of that           *)
(* connection.                                                             *)
LEMMA DispatchStep ==
  ASSUME IInv, NEW e \in batch, Dispatch(e)
  PROVE  IInv'
  <1>1. Types'
    BY DEF Dispatch, IInv, clientVars, netVars, objVars, Types, Entries, Conns
  <1>2. Bounds'
    BY DEF Dispatch, IInv, clientVars, netVars, objVars, Types, Bounds
  <1>3. Shape'
    BY NamesApart
    DEF Dispatch, Entries, Conns, IInv, clientVars, netVars, objVars, Types,
        Shape
  <1>4. Ends'
    BY DEF Dispatch, IInv, clientVars, netVars, objVars, Types, Ends, InLine
  <1>5. Owned'
    BY DEF Dispatch, IInv, clientVars, netVars, objVars, Types, Shape, Owned,
           Live
  <1>6. Apart'
    BY DEF Dispatch, IInv, clientVars, netVars, objVars, Types, Shape, Apart,
           Live, Queued, Served
  <1>7. InOrder'
    BY DEF Dispatch, IInv, clientVars, netVars, objVars, Types, InOrder
  <1>8. Unwritten'
    BY DEF Dispatch, IInv, clientVars, netVars, objVars, Types, Unwritten,
           Written, InLine, Live, Queued
  <1>9. InStep'
    BY DEF Dispatch, IInv, clientVars, netVars, objVars, Types, InStep, Written
  <1>10. Complete'
    BY DEF Dispatch, IInv, clientVars, netVars, objVars, Types, Complete,
           Written, InLine
  <1>11. NoMissedData'
    BY NamesApart, ZenonT(30)
    DEF Dispatch, IInv, clientVars, netVars, objVars, Types, Shape,
        NoMissedData, Readable, InHand, Conns
  <1>12. NoMissedConnection'
    BY DEF Dispatch, IInv, clientVars, netVars, objVars, Types, Shape,
           NoMissedConnection, InHand
  <1> QED
    BY <1>1, <1>2, <1>3, <1>4, <1>5, <1>6, <1>7, <1>8, <1>9, <1>10, <1>11, <1>12
    DEF IInv

(* AcceptHandler accepts one connection: it gets a descriptor that was     *)
(* free, so nobody else's, and an object of its own.                       *)
LEMMA AcceptStep ==
  ASSUME IInv, Accept
  PROVE  IInv'
  <1>a. PICK f \in Fds : f = LowestFree /\ fdtab[f] = NoClient
    BY LowestFreeIsFree DEF Accept
  <1>b. PICK c \in Clients : c = Head(backlog)
    BY DEF Accept, IInv, Types
  <1>c. /\ backlog # <<>> /\ backlog' = Tail(backlog)
        /\ fdtab' = [fdtab EXCEPT ![f] = c]
        /\ sockfd' = [sockfd EXCEPT ![c] = f]
        /\ heap' = heap \cup {c}
        /\ interest' = interest \cup {c}
        /\ ready' = IF Readable(c) THEN ready \cup {c} ELSE ready
        /\ pc = "accept"
        /\ UNCHANGED <<peer, sent, got, rx, tx, fin, rst, pc, batch, cur,
                       inbuffer, jobs, work, exhausted>>
    BY <1>a, <1>b DEF Accept, clientVars
  <1>d. /\ InLine(c) /\ ~InLine(c)'
        /\ \A d \in Clients : d # c => (InLine(d)' <=> InLine(d))
        /\ \A i, j \in 1 .. Len(backlog') : backlog'[i] = backlog'[j] => i = j
    BY <1>b, <1>c, Leaves DEF IInv
  <1>e. /\ c \notin heap /\ peer[c] # "new" /\ \A g \in Fds : fdtab[g] # c
    BY <1>d DEF IInv, Ends
  <1>f. /\ \A g \in Fds : fdtab'[g] = IF g = f THEN c ELSE fdtab[g]
        /\ \A d \in Clients : sockfd'[d] = IF d = c THEN f ELSE sockfd[d]
        /\ \A d \in Clients : Live(d)' <=> Live(d) \/ d = c
    BY <1>c DEF IInv, Types, Live
  <1>g. \A i \in 1 .. Len(jobs) :
          jobs[i] \in Jobs /\ jobs[i].req # c /\ jobs[i].fd # f
    <2>1. TAKE i \in 1 .. Len(jobs)
    <2>2. jobs[i] \in Jobs /\ fdtab[jobs[i].fd] = jobs[i].req
      BY DEF IInv, Types, Owned
    <2> QED BY <1>a, <1>e, <2>2, NamesApart DEF Jobs
  <1>h. \A w \in Workers :
          work[w] = Idle \/ (work[w] \in Busy /\ work[w].req # c /\ work[w].fd # f)
    <2>1. TAKE w \in Workers
    <2>2. work[w] = Idle \/ (work[w] \in Busy /\ fdtab[work[w].fd] = work[w].req)
      BY DEF IInv, Types, Owned
    <2> QED BY <1>a, <1>e, <2>2, NamesApart DEF Busy
  <1>i. \A d \in Clients : Live(d) => sockfd[d] # f
    BY <1>a, NamesApart DEF IInv, Owned
  <1>1. Types'
    <2>1. backlog' \in Seq(Clients) BY <1>c DEF IInv, Types
    <2>2. /\ fdtab' \in [Fds -> Clients \cup {NoClient}]
          /\ sockfd' \in [Clients -> Fds \cup {NoFd}]
      BY <1>c DEF IInv, Types
    <2> QED BY <1>c, <2>1, <2>2 DEF IInv, Types, Conns
  <1>2. Bounds' BY DEF Accept, IInv, clientVars, Types, Bounds
  <1>3. Shape' BY DEF Accept, IInv, clientVars, Types, Shape
  <1>4. Ends' BY <1>c, <1>d, <1>f, ZenonT(30) DEF IInv, Types, Ends
  <1>5. Owned'
    <2>1. \A d \in Clients : Live(d)' => sockfd'[d] \in Fds /\ fdtab'[sockfd'[d]] = d
      BY <1>f, <1>i DEF IInv, Owned
    <2>2. \A i \in 1 .. Len(jobs) : fdtab'[jobs[i].fd] = jobs[i].req
      BY <1>f, <1>g DEF IInv, Owned, Jobs
    <2>3. \A w \in Workers : work[w] # Idle => fdtab'[work[w].fd] = work[w].req
      BY <1>f, <1>h DEF IInv, Owned, Busy
    <2>4. ASSUME NEW d \in Clients, NEW g \in Fds, fdtab'[g] = d
          PROVE  \/ Live(d)' /\ sockfd'[d] = g
                 \/ \E i \in 1 .. Len(jobs) : jobs[i].fd = g
                 \/ \E w \in Workers : work[w].fd = g
      <3>1. CASE g = f BY <1>f, <2>4, <3>1
      <3>2. CASE g # f
        <4>1. fdtab[g] = d /\ d # c BY <1>e, <1>f, <2>4, <3>2
        <4> QED BY <4>1, <1>f DEF IInv, Owned
      <3> QED BY <3>1, <3>2
    <2> QED BY <1>c, <2>1, <2>2, <2>3, <2>4 DEF Owned
  <1>6. Apart'
    <2>1. \A d : (Queued(d)' <=> Queued(d)) /\ (Served(d)' <=> Served(d))
      BY <1>c DEF Queued, Served
    <2>2. ~Queued(c) /\ ~Served(c)
      BY <1>g, <1>h, NamesApart DEF Queued, Served, Idle
    <2> QED BY <1>c, <1>f, <2>1, <2>2 DEF IInv, Apart
  <1>7. InOrder' BY DEF Accept, IInv, clientVars, Types, InOrder
  <1>8. Unwritten'
    <2>1. \A d \in Clients : Queued(d)' <=> Queued(d) BY <1>c DEF Queued
    <2> QED BY <1>c, <1>d, <1>f, <2>1 DEF IInv, Unwritten, Written
  <1>9. InStep' BY DEF Accept, IInv, clientVars, Types, InStep, Written
  <1>10. Complete'
    <2>1. ASSUME NEW d \in Clients, d # c, peer'[d] = "open", ~InLine(d)'
          PROVE  (\E g \in Fds : fdtab'[g] = d) \/ Written(d)' = RespLen
      <3>1. (\E g \in Fds : fdtab[g] = d) \/ Written(d) = RespLen
        BY <1>c, <1>d, <2>1 DEF IInv, Complete
      <3>2. \A g \in Fds : fdtab[g] = d => fdtab'[g] = d
        BY <1>a, <1>f, NamesApart
      <3> QED BY <1>c, <3>1, <3>2 DEF Written
    <2>2. \E g \in Fds : fdtab'[g] = c BY <1>f
    <2> QED BY <2>1, <2>2 DEF Complete
  <1>11. NoMissedData'
    BY DEF Accept, IInv, clientVars, Types, Shape, NoMissedData, Readable,
           InHand
  <1>12. NoMissedConnection'
    BY DEF Accept, IInv, clientVars, Types, Shape, NoMissedConnection, Readable,
           InHand
  <1> QED
    BY <1>1, <1>2, <1>3, <1>4, <1>5, <1>6, <1>7, <1>8, <1>9, <1>10, <1>11, <1>12
    DEF IInv

(* accept() reports EAGAIN: the backlog is empty. *)
LEMMA AcceptAgainStep ==
  ASSUME IInv, AcceptAgain
  PROVE  IInv'
  <1>1. Types'
    BY DEF AcceptAgain, NextEntry, IInv, clientVars, netVars, objVars, Types
  <1>2. Bounds'
    BY DEF AcceptAgain, NextEntry, IInv, clientVars, netVars, objVars, Types,
           Bounds
  <1>3. Shape'
    BY NamesApart
    DEF AcceptAgain, NextEntry, IInv, clientVars, netVars, objVars, Types,
        Shape, Entries, Conns
  <1>4. Ends'
    BY DEF AcceptAgain, NextEntry, IInv, clientVars, netVars, objVars, Types,
           Ends, InLine
  <1>5. Owned'
    BY DEF AcceptAgain, NextEntry, IInv, clientVars, netVars, objVars, Types,
           Shape, Owned, Live
  <1>6. Apart'
    BY DEF AcceptAgain, NextEntry, IInv, clientVars, netVars, objVars, Types,
           Shape, Apart, Live, Queued, Served
  <1>7. InOrder'
    BY DEF AcceptAgain, NextEntry, IInv, clientVars, netVars, objVars, Types,
           InOrder
  <1>8. Unwritten'
    BY DEF AcceptAgain, NextEntry, IInv, clientVars, netVars, objVars, Types,
           Unwritten, Written, InLine, Live, Queued
  <1>9. InStep'
    BY DEF AcceptAgain, NextEntry, IInv, clientVars, netVars, objVars, Types,
           InStep, Written
  <1>10. Complete'
    BY DEF AcceptAgain, NextEntry, IInv, clientVars, netVars, objVars, Types,
           Complete, Written, InLine
  <1>11. NoMissedData'
    BY DEF AcceptAgain, NextEntry, IInv, clientVars, netVars, objVars, Types,
           Shape, NoMissedData, Readable, InHand
  <1>12. NoMissedConnection'
    BY DEF AcceptAgain, NextEntry, IInv, clientVars, netVars, objVars, Types,
           Shape, NoMissedConnection, InHand
  <1> QED
    BY <1>1, <1>2, <1>3, <1>4, <1>5, <1>6, <1>7, <1>8, <1>9, <1>10, <1>11, <1>12
    DEF IInv

(* accept() fails otherwise: the connection is not accepted. *)
LEMMA AcceptFailsStep ==
  ASSUME IInv, AcceptFails
  PROVE  IInv'
  <1>1. Types'
    BY DEF AcceptFails, NextEntry, IInv, clientVars, netVars, objVars, Types
  <1>2. Bounds'
    BY DEF AcceptFails, NextEntry, IInv, clientVars, netVars, objVars, Types,
           Bounds
  <1>3. Shape'
    BY NamesApart
    DEF AcceptFails, NextEntry, IInv, clientVars, netVars, objVars, Types,
        Shape, Entries, Conns
  <1>4. Ends'
    BY DEF AcceptFails, NextEntry, IInv, clientVars, netVars, objVars, Types,
           Ends, InLine
  <1>5. Owned'
    BY DEF AcceptFails, NextEntry, IInv, clientVars, netVars, objVars, Types,
           Shape, Owned, Live
  <1>6. Apart'
    BY DEF AcceptFails, NextEntry, IInv, clientVars, netVars, objVars, Types,
           Shape, Apart, Live, Queued, Served
  <1>7. InOrder'
    BY DEF AcceptFails, NextEntry, IInv, clientVars, netVars, objVars, Types,
           InOrder
  <1>8. Unwritten'
    BY DEF AcceptFails, NextEntry, IInv, clientVars, netVars, objVars, Types,
           Unwritten, Written, InLine, Live, Queued
  <1>9. InStep'
    BY DEF AcceptFails, NextEntry, IInv, clientVars, netVars, objVars, Types,
           InStep, Written
  <1>10. Complete'
    BY DEF AcceptFails, NextEntry, IInv, clientVars, netVars, objVars, Types,
           Complete, Written, InLine
  <1>11. NoMissedData'
    BY NamesApart
    DEF AcceptFails, NextEntry, IInv, clientVars, netVars, objVars, Types,
        Shape, NoMissedData, Readable, InHand
  <1>12. NoMissedConnection'
    BY DEF AcceptFails, NextEntry, IInv, clientVars, netVars, objVars, Types,
           Shape, NoMissedConnection, InHand
  <1> QED
    BY <1>1, <1>2, <1>3, <1>4, <1>5, <1>6, <1>7, <1>8, <1>9, <1>10, <1>11, <1>12
    DEF IInv

(* RecvHandler appends what there is to read and waits for the rest of the *)
(* request: the Connection stays with the loop.                            *)
LEMMA RecvPartStep ==
  ASSUME IInv, RecvPart
  PROVE  IInv'
  <1>1. Types' BY DEF RecvPart, NextEntry, IInv, clientVars, Types, Shape, Conns
  <1>2. Bounds' BY DEF RecvPart, NextEntry, IInv, clientVars, Types, Bounds
  <1>3. Shape'
    BY NamesApart
    DEF RecvPart, NextEntry, IInv, clientVars, Types, Shape, Entries, Conns
  <1>4. Ends' BY DEF RecvPart, NextEntry, IInv, clientVars, Types, Ends, InLine
  <1>5. Owned'
    BY DEF RecvPart, NextEntry, IInv, clientVars, Types, Shape, Owned, Live
  <1>6. Apart'
    BY DEF RecvPart, NextEntry, IInv, clientVars, Types, Shape, Apart, Live,
           Queued, Served
  <1>7. InOrder' BY DEF RecvPart, NextEntry, IInv, clientVars, Types, InOrder
  <1>8. Unwritten'
    BY DEF RecvPart, NextEntry, IInv, clientVars, Types, Unwritten, Written,
           InLine, Live, Queued
  <1>9. InStep'
    BY DEF RecvPart, NextEntry, IInv, clientVars, Types, InStep, Written
  <1>10. Complete'
    BY DEF RecvPart, NextEntry, IInv, clientVars, Types, Complete, Written,
           InLine
  <1>11. NoMissedData'
    BY NamesApart
    DEF RecvPart, NextEntry, IInv, clientVars, Types, Shape, NoMissedData,
        Readable, InHand
  <1>12. NoMissedConnection'
    BY DEF RecvPart, NextEntry, IInv, clientVars, Types, Shape,
           NoMissedConnection, InHand
  <1> QED
    BY <1>1, <1>2, <1>3, <1>4, <1>5, <1>6, <1>7, <1>8, <1>9, <1>10, <1>11, <1>12
    DEF IInv

(* RecvHandler has the whole request and takes the descriptor out of       *)
(* epoll: from here on nothing reports it to the loop.                     *)
LEMMA RecvWholeStep ==
  ASSUME IInv, RecvWhole
  PROVE  IInv'
  <1>a. cur \in Clients BY NamesApart DEF RecvWhole, IInv, Types, Shape, Conns
  <1>b. /\ inbuffer' = [inbuffer EXCEPT ![cur] = @ + rx[cur] - ReqLen[cur]]
        /\ rx' = [rx EXCEPT ![cur] = 0]
        /\ inbuffer[cur] + rx[cur] >= ReqLen[cur]
        /\ ReqLen[cur] \in Nat \ {0}
    BY <1>a, ReactorServerAssumption DEF RecvWhole
  <1>c. inbuffer[cur] + rx[cur] - ReqLen[cur] \in Nat
    BY <1>a, <1>b DEF IInv, Types
  <1>1. Types'
    <2>1. inbuffer' \in [Clients -> Nat] /\ rx' \in [Clients -> Nat]
      BY <1>a, <1>b, <1>c DEF IInv, Types
    <2> QED BY <2>1 DEF RecvWhole, IInv, Types, clientVars
  <1>2. Bounds'
    <2>1. inbuffer'[cur] + rx'[cur] <= sent[cur]
      BY <1>a, <1>b DEF IInv, Types, Bounds
    <2>2. \A d \in Clients : d # cur => inbuffer'[d] = inbuffer[d] /\ rx'[d] = rx[d]
      BY <1>b DEF IInv, Types
    <2> QED BY <2>1, <2>2 DEF RecvWhole, clientVars, IInv, Bounds
  <1>3. Shape' BY DEF RecvWhole, IInv, clientVars, Types, Shape
  <1>4. Ends' BY DEF RecvWhole, IInv, clientVars, Types, Ends, InLine
  <1>5. Owned' BY DEF RecvWhole, IInv, clientVars, Types, Shape, Owned, Live
  <1>6. Apart'
    BY DEF RecvWhole, IInv, clientVars, Types, Shape, Apart, Live, Queued,
           Served
  <1>7. InOrder' BY DEF RecvWhole, IInv, clientVars, Types, InOrder
  <1>8. Unwritten'
    BY DEF RecvWhole, IInv, clientVars, Types, Unwritten, Written, InLine, Live,
           Queued
  <1>9. InStep' BY DEF RecvWhole, IInv, clientVars, Types, InStep, Written
  <1>10. Complete'
    BY DEF RecvWhole, IInv, clientVars, Types, Complete, Written, InLine
  <1>11. NoMissedData'
    BY DEF RecvWhole, IInv, clientVars, Types, Shape, NoMissedData, Readable,
           InHand
  <1>12. NoMissedConnection'
    BY DEF RecvWhole, IInv, clientVars, Types, Shape, NoMissedConnection, InHand
  <1> QED
    BY <1>1, <1>2, <1>3, <1>4, <1>5, <1>6, <1>7, <1>8, <1>9, <1>10, <1>11, <1>12
    DEF IInv

(* stoul throws and the process ends: the reactor thread was about to let  *)
(* go of nothing, and nothing moves but the clients from here on.          *)
LEMMA RecvThrowsStep ==
  ASSUME IInv, RecvThrows
  PROVE  IInv'
  <1>1. Types'
    BY NamesApart, SMTT(30) DEF RecvThrows, IInv, clientVars, Types, Shape, Conns
  <1>2. Bounds' BY DEF RecvThrows, IInv, clientVars, Types, Bounds
  <1>3. Shape' BY DEF RecvThrows, IInv, clientVars, Types, Shape
  <1>4. Ends' BY DEF RecvThrows, IInv, clientVars, Types, Ends, InLine
  <1>5. Owned' BY DEF RecvThrows, IInv, clientVars, Types, Shape, Owned, Live
  <1>6. Apart'
    BY DEF RecvThrows, IInv, clientVars, Types, Shape, Apart, Live, Queued, Served
  <1>7. InOrder' BY DEF RecvThrows, IInv, clientVars, Types, InOrder
  <1>8. Unwritten'
    BY DEF RecvThrows, IInv, clientVars, Types, Unwritten, Written, InLine, Live,
           Queued
  <1>9. InStep' BY DEF RecvThrows, IInv, clientVars, Types, InStep, Written
  <1>10. Complete'
    BY DEF RecvThrows, IInv, clientVars, Types, Complete, Written, InLine
  <1>11. NoMissedData'
    BY DEF RecvThrows, IInv, clientVars, Types, Shape, NoMissedData, Readable,
           InHand
  <1>12. NoMissedConnection'
    BY DEF RecvThrows, IInv, clientVars, Types, Shape, NoMissedConnection, InHand
  <1> QED
    BY <1>1, <1>2, <1>3, <1>4, <1>5, <1>6, <1>7, <1>8, <1>9, <1>10, <1>11, <1>12
    DEF IInv

(* read() reports the end of the stream or an error: ExceptHandler is      *)
(* next.                                                                   *)
LEMMA RecvEndsStep ==
  ASSUME IInv, RecvEnds
  PROVE  IInv'
  <1>1. Types' BY DEF RecvEnds, IInv, clientVars, Types
  <1>2. Bounds' BY DEF RecvEnds, IInv, clientVars, Types, Bounds
  <1>3. Shape' BY DEF RecvEnds, IInv, clientVars, Types, Shape
  <1>4. Ends' BY DEF RecvEnds, IInv, clientVars, Types, Ends, InLine
  <1>5. Owned' BY DEF RecvEnds, IInv, clientVars, Types, Shape, Owned, Live
  <1>6. Apart'
    BY DEF RecvEnds, IInv, clientVars, Types, Shape, Apart, Live, Queued, Served
  <1>7. InOrder' BY DEF RecvEnds, IInv, clientVars, Types, InOrder
  <1>8. Unwritten'
    BY DEF RecvEnds, IInv, clientVars, Types, Unwritten, Written, InLine, Live,
           Queued
  <1>9. InStep' BY DEF RecvEnds, IInv, clientVars, Types, InStep, Written
  <1>10. Complete'
    BY DEF RecvEnds, IInv, clientVars, Types, Complete, Written, InLine
  <1>11. NoMissedData'
    BY DEF RecvEnds, IInv, clientVars, Types, Shape, NoMissedData, Readable,
           InHand
  <1>12. NoMissedConnection'
    BY DEF RecvEnds, IInv, clientVars, Types, Shape, NoMissedConnection, InHand
  <1> QED
    BY <1>1, <1>2, <1>3, <1>4, <1>5, <1>6, <1>7, <1>8, <1>9, <1>10, <1>11, <1>12
    DEF IInv

(* The request enters the pool's queue: the task becomes the owner of the  *)
(* descriptor and the object, about to be deleted, ceases to be it.        *)
LEMMA EnqueueStep ==
  ASSUME IInv, Enqueue
  PROVE  IInv'
  <1>a. cur \in Clients /\ cur \in heap /\ Live(cur)
    BY NamesApart DEF Enqueue, IInv, Types, Shape, Conns, Live
  <1>b. PICK f \in Fds : f = sockfd[cur] /\ fdtab[f] = cur
    BY <1>a DEF IInv, Owned
  <1>c. /\ jobs' = Append(jobs, [fd |-> f, req |-> cur])
        /\ Len(jobs) < QueueCap /\ pc = "enqueue" /\ pc' = "delete"
        /\ UNCHANGED <<peer, sent, got, backlog, rx, tx, fin, rst, fdtab,
                       interest, ready, batch, cur, heap, sockfd, inbuffer,
                       work, exhausted>>
    BY <1>b DEF Enqueue, clientVars, netVars, objVars
  <1>d. /\ jobs' \in Seq(Jobs) /\ Len(jobs) \in Nat /\ Len(jobs') = Len(jobs) + 1
        /\ jobs'[Len(jobs) + 1] = [fd |-> f, req |-> cur]
        /\ \A i \in 1 .. Len(jobs) : jobs'[i] = jobs[i] /\ jobs[i] \in Jobs
    <2>1. [fd |-> f, req |-> cur] \in Jobs BY <1>a DEF Jobs
    <2>2. jobs \in Seq(Jobs) BY DEF IInv, Types
    <2> QED BY <1>c, <2>1, <2>2
  <1>e. \A d \in Clients : Live(d)' <=> Live(d) /\ d # cur
    BY <1>c DEF Live
  <1>f. \A d \in Clients : Queued(d)' <=> Queued(d) \/ d = cur
    BY <1>d DEF Queued
  <1>1. Types' BY <1>c, <1>d DEF IInv, Types
  <1>2. Bounds'
    <2>1. Len(jobs') <= QueueCap BY <1>c, <1>d, ReactorServerAssumption
    <2> QED BY <1>c, <2>1 DEF IInv, Bounds
  <1>3. Shape' BY DEF Enqueue, IInv, clientVars, netVars, objVars, Types, Shape
  <1>4. Ends'
    BY DEF Enqueue, IInv, clientVars, netVars, objVars, Types, Ends, InLine
  <1>5. Owned'
    <2>1. \A i \in 1 .. Len(jobs') : fdtab[jobs'[i].fd] = jobs'[i].req
      BY <1>b, <1>d DEF IInv, Owned
    <2>2. ASSUME NEW d \in Clients, NEW g \in Fds, fdtab[g] = d
          PROVE  \/ Live(d)' /\ sockfd[d] = g
                 \/ \E i \in 1 .. Len(jobs') : jobs'[i].fd = g
                 \/ \E w \in Workers : work[w].fd = g
      <3>1. CASE Live(d) /\ sockfd[d] = g
        <4>1. CASE d = cur
          <5>1. Len(jobs) + 1 \in 1 .. Len(jobs') /\ jobs'[Len(jobs) + 1].fd = g
            BY <1>b, <1>d, <3>1, <4>1
          <5> QED BY <5>1
        <4> QED BY <1>e, <3>1, <4>1
      <3>2. CASE \E i \in 1 .. Len(jobs) : jobs[i].fd = g
        BY <1>d, <3>2
      <3> QED BY <2>2, <3>1, <3>2 DEF IInv, Owned
    <2> QED BY <1>c, <1>e, <2>1, <2>2 DEF IInv, Owned
  <1>6. Apart'
    <2>1. \A d : Served(d)' <=> Served(d) BY <1>c DEF Served
    <2>2. ~Queued(cur) /\ ~Served(cur) BY <1>a DEF IInv, Apart
    <2>3. ASSUME NEW i \in 1 .. Len(jobs'), NEW j \in 1 .. Len(jobs'),
                 jobs'[i].req = jobs'[j].req
          PROVE  i = j
      <3>1. \A k \in 1 .. Len(jobs) : jobs[k].req # cur BY <2>2 DEF Queued
      <3>2. \A k, l \in 1 .. Len(jobs) : jobs[k].req = jobs[l].req => k = l
        BY DEF IInv, Apart
      <3> QED BY <1>d, <2>3, <3>1, <3>2
    <2> QED BY <1>c, <1>e, <1>f, <2>1, <2>2, <2>3 DEF IInv, Apart
  <1>7. InOrder'
    BY DEF Enqueue, IInv, clientVars, netVars, objVars, Types, InOrder
  <1>8. Unwritten'
    <2>1. \A d \in Clients : InLine(d)' <=> InLine(d) BY <1>c DEF InLine
    <2> QED BY <1>a, <1>c, <1>e, <1>f, <2>1 DEF IInv, Unwritten, Written
  <1>9. InStep'
    BY DEF Enqueue, IInv, clientVars, netVars, objVars, Types, InStep, Written
  <1>10. Complete'
    BY DEF Enqueue, IInv, clientVars, netVars, objVars, Types, Complete,
           Written, InLine
  <1>11. NoMissedData'
    BY DEF Enqueue, IInv, clientVars, netVars, objVars, Types, Shape,
           NoMissedData, Readable, InHand
  <1>12. NoMissedConnection'
    BY DEF Enqueue, IInv, clientVars, netVars, objVars, Types, Shape,
           NoMissedConnection, InHand
  <1> QED
    BY <1>1, <1>2, <1>3, <1>4, <1>5, <1>6, <1>7, <1>8, <1>9, <1>10, <1>11, <1>12
    DEF IInv

(* The Connection is deleted after its task was queued; its descriptor     *)
(* stays open.                                                             *)
LEMMA DeleteStep ==
  ASSUME IInv, Delete
  PROVE  IInv'
  <1>1. Types' BY DEF Delete, NextEntry, IInv, clientVars, netVars, Types
  <1>2. Bounds'
    BY DEF Delete, NextEntry, IInv, clientVars, netVars, Types, Bounds
  <1>3. Shape'
    BY NamesApart
    DEF Delete, NextEntry, IInv, clientVars, netVars, Types, Shape, Entries,
        Conns
  <1>4. Ends'
    BY DEF Delete, NextEntry, IInv, clientVars, netVars, Types, Ends, InLine
  <1>5. Owned'
    <2>1. /\ heap' = heap \ {cur} /\ pc' # "delete" /\ pc = "delete"
          /\ UNCHANGED <<fdtab, sockfd, jobs, work>>
      BY DEF Delete, NextEntry
    <2>2. \A c \in Clients : Live(c)' <=> Live(c) BY <2>1 DEF Live
    <2> QED BY <2>1, <2>2 DEF IInv, Owned
  <1>6. Apart'
    BY DEF Delete, NextEntry, IInv, clientVars, netVars, Types, Shape, Apart,
           Live, Queued, Served
  <1>7. InOrder'
    BY DEF Delete, NextEntry, IInv, clientVars, netVars, Types, InOrder
  <1>8. Unwritten'
    BY DEF Delete, NextEntry, IInv, clientVars, netVars, Types, Unwritten,
           Written, InLine, Live, Queued
  <1>9. InStep'
    BY DEF Delete, NextEntry, IInv, clientVars, netVars, Types, InStep, Written
  <1>10. Complete'
    BY DEF Delete, NextEntry, IInv, clientVars, netVars, Types, Complete,
           Written, InLine
  <1>11. NoMissedData'
    BY DEF Delete, NextEntry, IInv, clientVars, netVars, Types, Shape,
           NoMissedData, Readable, InHand
  <1>12. NoMissedConnection'
    BY DEF Delete, NextEntry, IInv, clientVars, netVars, Types, Shape,
           NoMissedConnection, InHand
  <1> QED
    BY <1>1, <1>2, <1>3, <1>4, <1>5, <1>6, <1>7, <1>8, <1>9, <1>10, <1>11, <1>12
    DEF IInv

(* ExceptHandler takes the descriptor out of epoll, closes it and deletes  *)
(* the object, and no task or worker has that descriptor.                  *)
LEMMA ExceptStep ==
  ASSUME IInv, Except
  PROVE  IInv'
  <1>1. Types' BY DEF Except, NextEntry, IInv, clientVars, netVars, Types
  <1>2. Bounds'
    BY DEF Except, NextEntry, IInv, clientVars, netVars, Types, Bounds
  <1>3. Shape'
    BY NamesApart
    DEF Except, NextEntry, IInv, clientVars, netVars, Types, Shape, Entries,
        Conns
  <1>a. cur \in Clients /\ cur \in heap /\ Live(cur)
    BY NamesApart DEF Except, IInv, Types, Shape, Conns, Live
  <1>b. PICK f \in Fds : f = sockfd[cur] /\ fdtab[f] = cur
    BY <1>a DEF IInv, Owned
  <1>c. /\ fdtab' = [fdtab EXCEPT ![f] = NoClient] /\ heap' = heap \ {cur}
        /\ \A d \in Clients : Live(d)' <=> Live(d) /\ d # cur
        /\ UNCHANGED <<sockfd, jobs, work, backlog, peer, fin, rst, tx, got>>
    BY <1>b, NamesApart DEF Except, NextEntry, Live, clientVars, netVars
  <1>d. \A g \in Fds : fdtab'[g] = IF g = f THEN NoClient ELSE fdtab[g]
    BY <1>c DEF IInv, Types
  <1>4. Ends'
    <2>1. \A d \in Clients : InLine(d)' <=> InLine(d) BY <1>c DEF InLine
    <2>2. \A d \in Clients, g \in Fds : fdtab'[g] = d => fdtab[g] = d
      BY <1>d, NamesApart
    <2> QED BY <1>c, <2>1, <2>2 DEF IInv, Types, Ends
  <1>5. Owned'
    <2>1. ASSUME NEW d \in Clients, Live(d)'
          PROVE  sockfd'[d] \in Fds /\ fdtab'[sockfd'[d]] = d
      BY <1>b, <1>c, <1>d, <2>1 DEF IInv, Owned
    <2>2. ASSUME NEW i \in 1 .. Len(jobs')
          PROVE  fdtab'[jobs'[i].fd] = jobs'[i].req
      <3>1. jobs[i] \in Jobs /\ fdtab[jobs[i].fd] = jobs[i].req
        BY <1>c, <2>2 DEF IInv, Types, Owned
      <3>2. jobs[i].req # cur
        BY <1>a, <1>c, <2>2 DEF IInv, Apart, Queued
      <3> QED BY <1>b, <1>c, <1>d, <3>1, <3>2 DEF Jobs
    <2>3. ASSUME NEW w \in Workers, work'[w] # Idle
          PROVE  fdtab'[work'[w].fd] = work'[w].req
      <3>1. work[w] \in Busy /\ fdtab[work[w].fd] = work[w].req
        BY <1>c, <2>3 DEF IInv, Types, Owned
      <3>2. work[w].req # cur
        BY <1>a, <1>c, <2>3 DEF IInv, Apart, Served
      <3> QED BY <1>b, <1>c, <1>d, <3>1, <3>2 DEF Busy
    <2>4. ASSUME NEW d \in Clients, NEW g \in Fds, fdtab'[g] = d
          PROVE  \/ Live(d)' /\ sockfd'[d] = g
                 \/ \E i \in 1 .. Len(jobs') : jobs'[i].fd = g
                 \/ \E w \in Workers : work'[w].fd = g
      <3>1. g # f /\ fdtab[g] = d BY <1>d, <2>4, NamesApart
      <3>2. Live(d) /\ sockfd[d] = g => Live(d)' BY <1>b, <1>c, <3>1
      <3> QED BY <1>c, <3>1, <3>2 DEF IInv, Owned
    <2> QED BY <2>1, <2>2, <2>3, <2>4 DEF Owned
  <1>6. Apart'
    BY DEF Except, NextEntry, IInv, clientVars, netVars, Types, Shape, Apart,
           Live, Queued, Served
  <1>7. InOrder'
    BY DEF Except, NextEntry, IInv, clientVars, netVars, Types, InOrder
  <1>8. Unwritten'
    BY DEF Except, NextEntry, IInv, clientVars, netVars, Types, Unwritten,
           Written, InLine, Live, Queued
  <1>9. InStep'
    BY DEF Except, NextEntry, IInv, clientVars, netVars, Types, InStep, Written
  <1>10. Complete'
    <2>1. peer[cur] # "open" BY DEF Except, IInv, Shape, Ends
    <2>2. \A d \in Clients : InLine(d)' <=> InLine(d) BY <1>c DEF InLine
    <2>3. \A d \in Clients : (\E g \in Fds : fdtab[g] = d) =>
            d = cur \/ \E g \in Fds : fdtab'[g] = d
      BY <1>b, <1>d
    <2> QED BY <1>c, <2>1, <2>2, <2>3 DEF IInv, Complete, Written
  <1>11. NoMissedData'
    BY DEF Except, NextEntry, IInv, clientVars, netVars, Types, Shape,
           NoMissedData, Readable, InHand
  <1>12. NoMissedConnection'
    BY DEF Except, NextEntry, IInv, clientVars, netVars, Types, Shape,
           NoMissedConnection, InHand
  <1> QED
    BY <1>1, <1>2, <1>3, <1>4, <1>5, <1>6, <1>7, <1>8, <1>9, <1>10, <1>11, <1>12
    DEF IInv

-----------------------------------------------------------------------------
(* The workers *)

(* A worker takes the oldest task: owner of the descriptor is now the      *)
(* worker.                                                                 *)
LEMMA TakeStep ==
  ASSUME IInv, NEW w \in Workers, Take(w)
  PROVE  IInv'
  <1>a. PICK j \in Jobs :
          /\ j = Head(jobs) /\ jobs # <<>> /\ jobs' = Tail(jobs)
          /\ work' = [work EXCEPT ![w] = [fd |-> j.fd, req |-> j.req, sent |-> 0]]
          /\ work[w] = Idle
          /\ UNCHANGED <<peer, sent, got, backlog, rx, tx, fin, rst, fdtab,
                         interest, ready, pc, batch, cur, heap, sockfd,
                         inbuffer, exhausted>>
    <2>1. Head(jobs) \in Jobs BY DEF Take, IInv, Types
    <2> QED BY <2>1 DEF Take, clientVars, netVars, objVars
  <1>b. /\ jobs' \in Seq(Jobs) /\ Len(jobs) \in Nat \ {0}
        /\ Len(jobs') = Len(jobs) - 1
        /\ jobs[1] = j
        /\ \A i \in 1 .. Len(jobs') : jobs'[i] = jobs[i + 1] /\ i + 1 \in 1 .. Len(jobs)
        /\ \A i \in 1 .. Len(jobs) : i = 1 \/ (i - 1 \in 1 .. Len(jobs') /\ jobs'[i - 1] = jobs[i])
    <2>1. jobs \in Seq(Jobs) BY DEF IInv, Types
    <2> QED BY <1>a, <2>1
  <1>c. /\ work'[w] = [fd |-> j.fd, req |-> j.req, sent |-> 0]
        /\ work'[w] \in Busy /\ work'[w] # Idle
        /\ \A v \in Workers : v # w => work'[v] = work[v]
    <2>1. [fd |-> j.fd, req |-> j.req, sent |-> 0] \in Busy
      BY ReactorServerAssumption DEF Jobs, Busy
    <2>2. [fd |-> j.fd, req |-> j.req, sent |-> 0] # Idle
      BY NamesApart DEF Jobs, Idle
    <2> QED BY <1>a, <2>1, <2>2 DEF IInv, Types
  <1>d. j.req \in Clients /\ j.fd \in Fds /\ fdtab[j.fd] = j.req /\ Queued(j.req)
    BY <1>b, SMTT(30) DEF IInv, Owned, Queued, Jobs
  <1>e. ~Live(j.req) /\ ~Served(j.req)
    BY <1>d DEF IInv, Apart
  <1>f. \A d \in Clients : Queued(d)' <=> Queued(d) /\ d # j.req
    <2>1. \A i, k \in 1 .. Len(jobs) : jobs[i].req = jobs[k].req => i = k
      BY DEF IInv, Apart
    <2>2. ASSUME NEW d \in Clients, Queued(d)' PROVE Queued(d) /\ d # j.req
      <3>1. PICK i \in 1 .. Len(jobs') : jobs'[i].req = d BY <2>2 DEF Queued
      <3>2. jobs[i + 1].req = d /\ i + 1 \in 1 .. Len(jobs) /\ i + 1 # 1
        BY <1>b, <3>1
      <3> QED BY <1>b, <2>1, <3>2, SMTT(30) DEF Queued
    <2>3. ASSUME NEW d \in Clients, Queued(d), d # j.req PROVE Queued(d)'
      <3>1. PICK i \in 1 .. Len(jobs) : jobs[i].req = d BY <2>3 DEF Queued
      <3> QED BY <1>b, <2>3, <3>1 DEF Queued
    <2> QED BY <2>2, <2>3
  <1>g. \A d \in Clients : Served(d)' <=> Served(d) \/ d = j.req
    BY <1>a, <1>c, NamesApart DEF Served, Idle
  <1>h. \A d : Live(d)' <=> Live(d) BY <1>a DEF Live
  <1>i. \A d : InLine(d)' <=> InLine(d) BY <1>a DEF InLine
  <1>1. Types'
    <2>1. work' \in [Workers -> Busy \cup {Idle}] BY <1>a, <1>c DEF IInv, Types
    <2> QED BY <1>a, <1>b, <2>1 DEF IInv, Types
  <1>2. Bounds'
    <2>1. Len(jobs') <= QueueCap
      BY <1>b, ReactorServerAssumption DEF IInv, Bounds
    <2> QED BY <1>a, <2>1 DEF IInv, Bounds
  <1>3. Shape' BY DEF Take, IInv, clientVars, netVars, objVars, Types, Shape
  <1>4. Ends'
    BY DEF Take, IInv, clientVars, netVars, objVars, Types, Ends, InLine
  <1>5. Owned'
    <2>1. \A d \in Clients : Live(d)' => sockfd'[d] \in Fds /\ fdtab'[sockfd'[d]] = d
      BY <1>a, <1>h DEF IInv, Owned
    <2>2. \A i \in 1 .. Len(jobs') : fdtab'[jobs'[i].fd] = jobs'[i].req
      BY <1>a, <1>b DEF IInv, Owned
    <2>3. \A v \in Workers : work'[v] # Idle => fdtab'[work'[v].fd] = work'[v].req
      BY <1>a, <1>c, <1>d DEF IInv, Owned
    <2>4. ASSUME NEW d \in Clients, NEW g \in Fds, fdtab[g] = d
          PROVE  \/ Live(d)' /\ sockfd[d] = g
                 \/ \E i \in 1 .. Len(jobs') : jobs'[i].fd = g
                 \/ \E v \in Workers : work'[v].fd = g
      <3>1. CASE \E i \in 1 .. Len(jobs) : jobs[i].fd = g
        BY <1>b, <1>c, <3>1
      <3>2. CASE \E v \in Workers : work[v].fd = g
        BY <1>a, <1>c, <3>2, NamesApart DEF Idle
      <3> QED BY <1>h, <2>4, <3>1, <3>2 DEF IInv, Owned
    <2> QED BY <1>a, <2>1, <2>2, <2>3, <2>4 DEF Owned
  <1>6. Apart'
    <2>1. ASSUME NEW i \in 1 .. Len(jobs'), NEW k \in 1 .. Len(jobs'),
                 jobs'[i].req = jobs'[k].req
          PROVE  i = k
      <3>1. i + 1 = k + 1 BY <1>b, <2>1, SMTT(30) DEF IInv, Apart
      <3> QED BY <3>1
    <2>2. ASSUME NEW u \in Workers, NEW v \in Workers,
                 work'[u].req = work'[v].req, work'[u] # Idle
          PROVE  u = v
      <3>1. \A t \in Workers : work[t].req # j.req BY <1>e DEF Served
      <3> QED BY <1>c, <2>2, <3>1 DEF IInv, Apart
    <2> QED BY <1>e, <1>f, <1>g, <1>h, <2>1, <2>2 DEF IInv, Apart
  <1>7. InOrder' BY DEF Take, IInv, clientVars, netVars, objVars, Types, InOrder
  <1>8. Unwritten' BY <1>a, <1>f, <1>h, <1>i DEF IInv, Unwritten, Written
  <1>9. InStep'
    <2>1. \A d \in Clients : Written(d)' = Written(d) BY <1>a DEF Written
    <2>2. Written(j.req) = 0 BY <1>d DEF IInv, Unwritten
    <2>3. work'[w].sent = 0 /\ work'[w].req = j.req BY <1>c
    <2> QED BY <1>a, <1>c, <2>1, <2>2, <2>3 DEF IInv, InStep
  <1>10. Complete'
    BY DEF Take, IInv, clientVars, netVars, objVars, Types, Complete, Written,
           InLine
  <1>11. NoMissedData'
    BY DEF Take, IInv, clientVars, netVars, objVars, Types, Shape, NoMissedData,
           Readable, InHand
  <1>12. NoMissedConnection'
    BY DEF Take, IInv, clientVars, netVars, objVars, Types, Shape,
           NoMissedConnection, InHand
  <1> QED
    BY <1>1, <1>2, <1>3, <1>4, <1>5, <1>6, <1>7, <1>8, <1>9, <1>10, <1>11, <1>12
    DEF IInv

(* A worker writes some units of its response: they follow what it had     *)
(* written, and the client is its own.                                     *)
LEMMA WriteStep ==
  ASSUME IInv, NEW w \in Workers, Write(w)
  PROVE  IInv'
  <1>a. PICK c \in Clients :
          /\ c = work[w].req /\ fdtab[work[w].fd] = c /\ c \notin rst
          /\ work[w] \in Busy /\ work[w] # Idle /\ work[w].sent < RespLen
          /\ work' = [work EXCEPT ![w].sent = @ + 1]
          /\ \/ /\ peer[c] # "gone" /\ Len(tx[c]) < TxCap /\ rst' = rst
                /\ tx' = [tx EXCEPT ![c] = Append(@, <<c, work[w].sent + 1>>)]
             \/ peer[c] = "gone" /\ rst' = rst \cup {c} /\ tx' = tx
    <2>1. work[w] \in Busy /\ fdtab[work[w].fd] = work[w].req
      BY DEF Write, IInv, Types, Owned
    <2> QED BY <2>1 DEF Write, Target, Busy
  <1>b. UNCHANGED <<peer, sent, got, backlog, rx, fin, fdtab, interest, ready,
                    pc, batch, cur, heap, sockfd, inbuffer, jobs, exhausted>>
    BY DEF Write, clientVars, objVars
  <1>c. /\ work'[w] = [fd |-> work[w].fd, req |-> c, sent |-> work[w].sent + 1]
        /\ work'[w] \in Busy /\ work'[w] # Idle
        /\ \A v \in Workers : v # w => work'[v] = work[v]
    <2>1. work'[w] = [work[w] EXCEPT !.sent = @ + 1] BY <1>a DEF IInv, Types
    <2>2. work'[w] = [fd |-> work[w].fd, req |-> c, sent |-> work[w].sent + 1]
      BY <1>a, <2>1 DEF Busy
    <2>3. work[w].sent + 1 \in 0 .. RespLen
      BY <1>a, ReactorServerAssumption DEF Busy
    <2> QED BY <1>a, <2>2, <2>3, NamesApart DEF IInv, Types, Busy, Idle
  <1>d. Served(c) /\ ~Live(c) /\ ~Queued(c) /\ c \notin interest
    <2>1. Served(c) BY <1>a DEF Served
    <2>2. ~Live(c) /\ ~Queued(c) BY <2>1 DEF IInv, Apart
    <2> QED BY <2>1, <2>2 DEF Live, IInv, Shape
  <1>e. \A v \in Workers :
          /\ work'[v].fd = work[v].fd /\ work'[v].req = work[v].req
          /\ work'[v] # Idle <=> work[v] # Idle
    BY <1>a, <1>c
  <1>f. \A d : /\ Live(d)' <=> Live(d)
               /\ Queued(d)' <=> Queued(d)
               /\ InLine(d)' <=> InLine(d)
    BY <1>b DEF Live, Queued, InLine
  <1>g. \A d : Served(d)' <=> Served(d) BY <1>e DEF Served
  <1>h. \A d \in Clients : d # c => tx'[d] = tx[d] BY <1>a DEF IInv, Types
  <1>1. Types'
    <2>1. work' \in [Workers -> Busy \cup {Idle}] BY <1>a, <1>c DEF IInv, Types
    <2>2. rst' \subseteq Clients BY <1>a DEF IInv, Types
    <2>3. tx' \in [Clients -> Seq(Units)]
      <3>1. <<c, work[w].sent + 1>> \in Units BY <1>a DEF Units, Busy
      <3>2. tx \in [Clients -> Seq(Units)] BY DEF IInv, Types
      <3>3. Append(tx[c], <<c, work[w].sent + 1>>) \in Seq(Units)
        BY <3>1, <3>2, SMTT(30)
      <3> HIDE DEF Units
      <3> QED BY <1>a, <3>2, <3>3
    <2> QED BY <1>b, <2>1, <2>2, <2>3 DEF IInv, Types
  <1>i. ASSUME peer[c] # "gone"
        PROVE  /\ Len(tx[c]) < TxCap /\ Len(tx[c]) \in Nat
               /\ Len(tx'[c]) = Len(tx[c]) + 1
               /\ tx'[c][Len(tx[c]) + 1] = <<c, work[w].sent + 1>>
               /\ \A i \in 1 .. Len(tx[c]) : tx'[c][i] = tx[c][i]
    <2>1. tx'[c] = Append(tx[c], <<c, work[w].sent + 1>>)
      BY <1>a, <1>i DEF IInv, Types
    <2>2. tx[c] \in Seq(Units) BY DEF IInv, Types
    <2>3. <<c, work[w].sent + 1>> \in Units BY <1>a DEF Units, Busy
    <2>4. PICK u \in Units : u = <<c, work[w].sent + 1>> BY <2>3
    <2>5. tx'[c] = Append(tx[c], u) BY <2>1, <2>4
    <2>6. /\ Len(tx[c]) \in Nat /\ Len(tx'[c]) = Len(tx[c]) + 1
          /\ tx'[c][Len(tx[c]) + 1] = u
          /\ \A i \in 1 .. Len(tx[c]) : tx'[c][i] = tx[c][i]
      BY <2>2, <2>5
    <2> QED BY <1>a, <1>i, <2>4, <2>6
  <1>j. ASSUME peer[c] = "gone" PROVE tx' = tx BY <1>a, <1>j
  <1>2. Bounds'
    <2>1. Len(tx'[c]) <= TxCap
      <3>1. CASE peer[c] # "gone" BY <1>i, <3>1, ReactorServerAssumption
      <3>2. CASE peer[c] = "gone" BY <1>j, <3>2 DEF IInv, Bounds
      <3> QED BY <3>1, <3>2
    <2> QED BY <1>b, <1>h, <2>1 DEF IInv, Bounds
  <1>3. Shape' BY <1>a, <1>b DEF IInv, Shape
  <1>4. Ends'
    <2>1. \A d \in Clients : peer[d] = "gone" => tx'[d] = <<>>
      BY <1>h, <1>j DEF IInv, Ends
    <2> QED BY <1>a, <1>b, <1>f, <2>1 DEF IInv, Ends
  <1>5. Owned' BY <1>b, <1>e, <1>f DEF IInv, Owned
  <1>6. Apart' BY <1>b, <1>e, <1>f, <1>g DEF IInv, Apart
  <1>k. ASSUME peer[c] # "gone"
        PROVE  Written(c)' = Written(c) + 1 /\ Written(c) = work[w].sent
    <2>1. tx \in [Clients -> Seq(Units)] /\ tx' \in [Clients -> Seq(Units)]
          /\ got \in [Clients -> Seq(Units)]
      BY <1>1 DEF IInv, Types
    <2>2. Written(c)' = Written(c) + 1
      <3>1. Len(tx'[c]) = Len(tx[c]) + 1 /\ got' = got BY <1>b, <1>i, <1>k
      <3> QED BY <2>1, <3>1 DEF Written
    <2>3. Written(c) = work[w].sent BY <1>a, <1>k DEF IInv, InStep
    <2> QED BY <2>2, <2>3
  <1>l. \A d \in Clients : d # c \/ peer[c] = "gone" => Written(d)' = Written(d)
    BY <1>b, <1>h, <1>j DEF Written
  <1>7. InOrder'
    <2>1. ASSUME peer[c] # "gone", NEW i \in 1 .. Len(tx'[c])
          PROVE  tx'[c][i] = <<c, Len(got[c]) + i>>
      <3>1. CASE i = Len(tx[c]) + 1
        <4>1. Written(c) + 1 = Len(got[c]) + i
          <5>1. tx \in [Clients -> Seq(Units)] /\ got \in [Clients -> Seq(Units)]
            BY DEF IInv, Types
          <5> QED BY <3>1, <5>1 DEF Written
        <4> QED BY <1>i, <1>k, <2>1, <3>1, <4>1
      <3>2. CASE i \in 1 .. Len(tx[c])
        BY <1>i, <2>1, <3>2 DEF IInv, InOrder
      <3> QED BY <1>i, <2>1, <3>1, <3>2
    <2>2. \A d \in Clients : d # c \/ peer[c] = "gone" => tx'[d] = tx[d]
      BY <1>h, <1>j
    <2>3. \A d \in Clients : \A i \in 1 .. Len(tx'[d]) :
            tx'[d][i] = <<d, Len(got[d]) + i>>
      BY <2>1, <2>2, ZenonT(30) DEF IInv, InOrder
    <2> QED BY <1>b, <2>3 DEF IInv, InOrder
  <1>8. Unwritten'
    <2>1. peer[c] # "new" /\ ~InLine(c)
      BY <1>a DEF IInv, Ends, Types, Busy
    <2> QED BY <1>b, <1>d, <1>f, <1>l, <2>1 DEF IInv, Unwritten
  <1>9. InStep'
    <2>1. ASSUME NEW v \in Workers, NEW d \in Clients, work'[v].req = d,
                 peer[d] # "gone"
          PROVE  Written(d)' = work'[v].sent
      <3>1. CASE v = w BY <1>a, <1>c, <1>k, <2>1, <3>1
      <3>2. CASE v # w
        <4>1. work'[v] = work[v] /\ work[v].req = d BY <1>c, <2>1, <3>2
        <4>2. d # c BY <1>a, <4>1, <3>2 DEF IInv, Apart
        <4> QED BY <1>l, <2>1, <4>1, <4>2 DEF IInv, InStep
      <3> QED BY <3>1, <3>2
    <2> QED BY <1>b, <2>1 DEF InStep
  <1>10. Complete'
    <2>1. \E g \in Fds : fdtab[g] = c BY <1>a DEF Busy
    <2> QED BY <1>b, <1>f, <1>l, <2>1 DEF IInv, Complete
  <1>11. NoMissedData'
    <2>1. \A d \in interest \cap Clients : Readable(d)' => Readable(d)
      BY <1>a, <1>b, <1>d DEF Readable
    <2> QED BY <1>b, <2>1 DEF IInv, NoMissedData, InHand
  <1>12. NoMissedConnection' BY <1>b DEF IInv, NoMissedConnection, InHand
  <1> QED
    BY <1>1, <1>2, <1>3, <1>4, <1>5, <1>6, <1>7, <1>8, <1>9, <1>10, <1>11, <1>12
    DEF IInv

(* A worker has written all, or cannot: it closes the descriptor, which    *)
(* had no other owner, so no connection loses its descriptor.              *)
LEMMA CloseStep ==
  ASSUME IInv, NEW w \in Workers, Close(w)
  PROVE  IInv'
  <1>a. PICK c \in Clients, f \in Fds :
          /\ c = work[w].req /\ f = work[w].fd /\ fdtab[f] = c
          /\ work[w] \in Busy /\ work[w] # Idle
          /\ work[w].sent = RespLen \/ c \in rst
          /\ fdtab' = [fdtab EXCEPT ![f] = NoClient]
          /\ work' = [work EXCEPT ![w] = Idle]
    <2>1. work[w] \in Busy /\ fdtab[work[w].fd] = work[w].req
      BY DEF Close, IInv, Types, Owned
    <2>2. work[w].req \in Clients /\ work[w].fd \in Fds BY <2>1 DEF Busy
    <2> QED BY <2>1, <2>2, NamesApart DEF Close, WriteFails, Target
  <1>b. UNCHANGED <<peer, sent, got, backlog, rx, tx, fin, rst, interest, ready,
                    pc, batch, cur, heap, sockfd, inbuffer, jobs, exhausted>>
    BY DEF Close, clientVars, netVars, objVars
  <1>c. /\ work'[w] = Idle
        /\ \A v \in Workers : v # w => work'[v] = work[v] /\ work[v].req # c
        /\ \A g \in Fds : fdtab'[g] = IF g = f THEN NoClient ELSE fdtab[g]
    BY <1>a DEF IInv, Types, Apart
  <1>d. Served(c) /\ ~Live(c) /\ ~Queued(c)
    <2>1. Served(c) BY <1>a DEF Served
    <2> QED BY <2>1 DEF IInv, Apart
  <1>e. \A d : /\ Live(d)' <=> Live(d)
               /\ Queued(d)' <=> Queued(d)
               /\ InLine(d)' <=> InLine(d)
    BY <1>b DEF Live, Queued, InLine
  <1>f. \A d \in Clients : Served(d)' => Served(d)
    BY <1>c, NamesApart DEF Served, Idle
  <1>1. Types' BY <1>a, <1>b DEF IInv, Types
  <1>2. Bounds' BY <1>b DEF IInv, Bounds
  <1>3. Shape' BY <1>b DEF IInv, Shape
  <1>4. Ends'
    <2>1. \A d \in Clients, g \in Fds : fdtab'[g] = d => fdtab[g] = d
      BY <1>c, NamesApart
    <2> QED BY <1>b, <1>e, <2>1 DEF IInv, Ends
  <1>5. Owned'
    <2>1. \A d \in Clients : Live(d)' => sockfd'[d] \in Fds /\ fdtab'[sockfd'[d]] = d
      <3>1. \A d \in Clients : Live(d) => d # c /\ sockfd[d] \in Fds /\ fdtab[sockfd[d]] = d
        BY <1>d DEF IInv, Owned
      <3> QED BY <1>a, <1>b, <1>c, <1>e, <3>1
    <2>2. ASSUME NEW i \in 1 .. Len(jobs)
          PROVE  fdtab'[jobs[i].fd] = jobs[i].req
      <3>1. jobs[i] \in Jobs /\ fdtab[jobs[i].fd] = jobs[i].req
        BY DEF IInv, Types, Owned
      <3>2. jobs[i].req # c BY <1>d DEF Queued
      <3> QED BY <1>a, <1>c, <3>1, <3>2 DEF Jobs
    <2>3. ASSUME NEW v \in Workers, work'[v] # Idle
          PROVE  fdtab'[work'[v].fd] = work'[v].req
      <3>1. v # w /\ work'[v] = work[v] /\ work[v].req # c BY <1>c, <2>3
      <3>2. work[v].fd \in Fds /\ fdtab[work[v].fd] = work[v].req
        BY <2>3, <3>1 DEF IInv, Types, Owned, Busy
      <3> QED BY <1>a, <1>c, <3>1, <3>2
    <2>4. ASSUME NEW d \in Clients, NEW g \in Fds, fdtab'[g] = d
          PROVE  \/ Live(d)' /\ sockfd[d] = g
                 \/ \E i \in 1 .. Len(jobs) : jobs[i].fd = g
                 \/ \E v \in Workers : work'[v].fd = g
      <3>1. g # f /\ fdtab[g] = d BY <1>c, <2>4, NamesApart
      <3>2. \A v \in Workers : work[v].fd = g => work'[v].fd = g
        BY <1>a, <1>c, <3>1
      <3> QED BY <1>e, <3>1, <3>2 DEF IInv, Owned
    <2> QED BY <1>b, <2>1, <2>2, <2>3, <2>4 DEF Owned
  <1>6. Apart'
    <2>1. \A u, v \in Workers : work'[u].req = work'[v].req /\ work'[u] # Idle => u = v
      <3>1. \A v \in Workers : work[v] # Idle => work[v].req \in Clients
        BY DEF IInv, Types, Busy
      <3> QED BY <1>c, <3>1, NamesApart DEF IInv, Apart, Idle
    <2> QED BY <1>b, <1>e, <1>f, <2>1 DEF IInv, Apart
  <1>7. InOrder' BY <1>b DEF IInv, InOrder
  <1>8. Unwritten' BY <1>b, <1>e DEF IInv, Unwritten, Written
  <1>9. InStep'
    <2>1. \A d \in Clients : Written(d)' = Written(d) BY <1>b DEF Written
    <2>2. \A v \in Workers, d \in Clients : work'[v].req = d => v # w
      BY <1>c, NamesApart DEF Idle
    <2> QED BY <1>b, <1>c, <2>1, <2>2 DEF IInv, InStep
  <1>10. Complete'
    <2>1. peer[c] = "open" => Written(c) = RespLen
      <3>1. peer[c] = "open" => work[w].sent = RespLen BY <1>a DEF IInv, Ends
      <3> QED BY <1>a, <3>1 DEF IInv, InStep
    <2>2. ASSUME NEW d \in Clients, NEW g \in Fds, fdtab[g] = d, d # c
          PROVE  fdtab'[g] = d
      BY <1>a, <1>c, <2>2
    <2> QED BY <1>b, <1>e, <2>1, <2>2 DEF IInv, Complete, Written
  <1>11. NoMissedData' BY <1>b DEF IInv, NoMissedData, Readable, InHand
  <1>12. NoMissedConnection' BY <1>b DEF IInv, NoMissedConnection, InHand
  <1> QED
    BY <1>1, <1>2, <1>3, <1>4, <1>5, <1>6, <1>7, <1>8, <1>9, <1>10, <1>11, <1>12
    DEF IInv

-----------------------------------------------------------------------------
(* The theorems *)

(* The loop starts with the listening Connection alone. *)
LEMMA InitIInv == Init => IInv
  <1> SUFFICES ASSUME Init PROVE IInv OBVIOUS
  <1>1. \A c : ~Queued(c) /\ ~InLine(c) BY DEF Init, Queued, InLine
  <1>2. \A c \in Clients : ~Live(c) /\ ~Served(c)
    BY NamesApart DEF Init, Live, Served, Idle
  <1>3. \A c \in Clients : Len(got[c]) = 0 /\ Len(tx[c]) = 0 /\ Written(c) = 0
    BY DEF Init, Written
  <1>4. Types
    <2>1. /\ got \in [Clients -> Seq(Units)] /\ tx \in [Clients -> Seq(Units)]
          /\ backlog \in Seq(Clients) /\ jobs \in Seq(Jobs)
      BY DEF Init
    <2> QED BY <2>1 DEF Init, Types, Conns
  <1>5. Bounds BY <1>3, ReactorServerAssumption DEF Init, Bounds
  <1>6. Shape BY NamesApart DEF Init, Shape
  <1>7. Ends BY <1>1, NamesApart DEF Init, Ends
  <1>8. Owned BY <1>2, NamesApart DEF Init, Owned, Idle
  <1>9. Apart BY <1>1, <1>2, NamesApart DEF Init, Apart
  <1>10. InOrder BY <1>3 DEF InOrder
  <1>11. Unwritten /\ Complete BY <1>3 DEF Init, Unwritten, Complete
  <1>12. InStep BY NamesApart DEF Init, InStep, Idle
  <1>13. NoMissedData /\ NoMissedConnection
    BY NamesApart DEF Init, NoMissedData, NoMissedConnection
  <1> QED
    BY <1>4, <1>5, <1>6, <1>7, <1>8, <1>9, <1>10, <1>11, <1>12, <1>13 DEF IInv

(* Every step of the reactor, of a worker and of a client keeps the        *)
(* invariant.                                                              *)
LEMMA NextIInv == IInv /\ [Next]_vars => IInv'
  <1> SUFFICES ASSUME IInv, [Next]_vars PROVE IInv' OBVIOUS
  <1>1. CASE Reactor
    BY <1>1, EpollWaitStep, DispatchStep, AcceptStep, AcceptAgainStep,
       AcceptFailsStep, RecvPartStep, RecvWholeStep, RecvThrowsStep, RecvEndsStep,
       EnqueueStep, DeleteStep, ExceptStep
    DEF Reactor
  <1>2. ASSUME NEW w \in Workers, Worker(w) PROVE IInv'
    BY <1>2, TakeStep, WriteStep, CloseStep DEF Worker
  <1>3. ASSUME NEW c \in Clients, Client(c) PROVE IInv'
    BY <1>3, ConnectStep, SendStep, ReceiveStep, HalfCloseStep, LeaveStep
    DEF Client
  <1>4. CASE UNCHANGED vars
    <2>1. UNCHANGED <<peer, sent, got, backlog, rx, tx, fin, rst, fdtab,
                      interest, ready, pc, batch, cur, heap, sockfd, inbuffer,
                      jobs, work, exhausted>>
      BY <1>4 DEF vars, clientVars, netVars, objVars
    <2>2. Types' BY <2>1 DEF IInv, Types
    <2>3. Bounds' BY <2>1 DEF IInv, Bounds
    <2>4. Shape' BY <2>1 DEF IInv, Shape
    <2>5. Ends' BY <2>1 DEF IInv, Ends, InLine
    <2>6. Owned' /\ Apart' BY <2>1, OwnersKept DEF IInv
    <2>7. InOrder' BY <2>1 DEF IInv, InOrder
    <2>8. Unwritten'
      BY <2>1 DEF IInv, Unwritten, Written, InLine, Live, Queued
    <2>9. InStep' BY <2>1 DEF IInv, InStep, Written
    <2>10. Complete' BY <2>1 DEF IInv, Complete, Written, InLine
    <2>11. NoMissedData' BY <2>1 DEF IInv, NoMissedData, Readable, InHand
    <2>12. NoMissedConnection' BY <2>1 DEF IInv, NoMissedConnection, InHand
    <2> QED BY <2>2, <2>3, <2>4, <2>5, <2>6, <2>7, <2>8, <2>9, <2>10, <2>11,
               <2>12 DEF IInv
  <1> QED BY <1>1, <1>2, <1>3, <1>4 DEF Next

(* IInv holds in every reachable state, for any clients, descriptors,      *)
(* workers and capacities.                                                 *)
THEOREM Invariance == Spec => []IInv
  <1> QED BY InitIInv, NextIInv, PTL DEF Spec

-----------------------------------------------------------------------------
(* Every variable keeps its type, and what the thread is doing agrees      *)
(* with the Connection it holds.                                           *)
THEOREM TypeCorrect == Spec => []TypeOK
  <1>1. IInv => TypeOK
    <2> SUFFICES ASSUME IInv PROVE TypeOK OBVIOUS
    <2>1. \A c \in Clients : sent[c] \in 0 .. ReqLen[c] /\ rx[c] \in 0 .. ReqLen[c]
      <3>1. TAKE c \in Clients
      <3>2. /\ sent[c] \in Nat /\ rx[c] \in Nat /\ inbuffer[c] \in Nat
            /\ ReqLen[c] \in Nat
        BY ReactorServerAssumption DEF IInv, Types
      <3>3. inbuffer[c] + rx[c] <= sent[c] /\ sent[c] <= ReqLen[c]
        BY DEF IInv, Bounds
      <3> QED BY <3>2, <3>3
    <2> QED BY <2>1 DEF IInv, Types, Bounds, Shape, TypeOK
  <1> QED BY <1>1, Invariance, PTL

(* A descriptor is open for one connection and has one owner: the          *)
(* reactor's object, a queued task or a worker. So no close() in one       *)
(* thread hits a connection another thread is writing.                     *)
THEOREM OneOwner == Spec => []SingleOwner
  <1>1. ASSUME IInv, NEW f \in Fds
        PROVE  Cardinality(Owners(f)) = IF fdtab[f] = NoClient THEN 0 ELSE 1
    <2>1. \A d \in heap \cap Clients :
            sockfd[d] = f /\ ~(pc = "delete" /\ cur = d) => fdtab[f] = d /\ Live(d)
      BY <1>1 DEF IInv, Owned, Live
    <2>2. DOMAIN jobs = 1 .. Len(jobs) BY <1>1 DEF IInv, Types
    <2>3. \A i \in 1 .. Len(jobs) : jobs[i].fd = f =>
            fdtab[f] = jobs[i].req /\ jobs[i].req \in Clients /\ Queued(jobs[i].req)
      <3>1. \A i \in 1 .. Len(jobs) : jobs[i] \in Jobs BY <1>1 DEF IInv, Types
      <3> QED BY <1>1, <3>1 DEF IInv, Owned, Jobs, Queued
    <2>4. \A v \in Workers : work[v].fd = f =>
            /\ fdtab[f] = work[v].req /\ work[v].req \in Clients
            /\ work[v] # Idle /\ Served(work[v].req)
      <3>1. \A v \in Workers : work[v] = Idle \/ work[v] \in Busy
        BY <1>1 DEF IInv, Types
      <3> QED BY <1>1, <3>1, NamesApart DEF IInv, Owned, Busy, Idle, Served
    <2>5. CASE fdtab[f] = NoClient
      <3>1. Owners(f) = {}
        BY <2>1, <2>2, <2>3, <2>4, <2>5, NamesApart DEF Owners
      <3> QED BY <2>5, <3>1, FS_EmptySet
    <2>6. CASE fdtab[f] # NoClient
      <3>1. PICK c \in Clients : fdtab[f] = c BY <1>1, <2>6 DEF IInv, Types
      <3>2. \E o : Owners(f) = {o}
        <4>1. CASE Live(c) /\ sockfd[c] = f
          <5>1. ~Queued(c) /\ ~Served(c) BY <1>1, <4>1 DEF IInv, Apart
          <5>2. c \in heap \cap Clients /\ ~(pc = "delete" /\ cur = c)
            BY <4>1 DEF Live
          <5>3. Owners(f) = {<<"conn", c>>}
            BY <2>1, <2>2, <2>3, <2>4, <3>1, <4>1, <5>1, <5>2 DEF Owners
          <5> QED BY <5>3
        <4>2. CASE \E i \in 1 .. Len(jobs) : jobs[i].fd = f
          <5>1. PICK i \in 1 .. Len(jobs) : jobs[i].fd = f BY <4>2
          <5>2. jobs[i].req = c /\ Queued(c) BY <2>3, <3>1, <5>1
          <5>3. ~Live(c) /\ ~Served(c) BY <1>1, <5>2 DEF IInv, Apart
          <5>4. \A k \in 1 .. Len(jobs) : jobs[k].fd = f => k = i
            BY <1>1, <2>3, <3>1, <5>2 DEF IInv, Apart
          <5>5. Owners(f) = {<<"job", i>>}
            BY <2>1, <2>2, <2>4, <3>1, <5>1, <5>3, <5>4 DEF Owners
          <5> QED BY <5>5
        <4>3. CASE \E v \in Workers : work[v].fd = f
          <5>1. PICK v \in Workers : work[v].fd = f BY <4>3
          <5>2. work[v].req = c /\ Served(c) BY <2>4, <3>1, <5>1
          <5>3. ~Live(c) /\ ~Queued(c) BY <1>1, <5>2 DEF IInv, Apart
          <5>4. \A u \in Workers : work[u].fd = f => u = v
            BY <1>1, <2>4, <3>1, <5>2 DEF IInv, Apart
          <5>5. Owners(f) = {<<"worker", v>>}
            BY <2>1, <2>2, <2>3, <3>1, <5>1, <5>3, <5>4 DEF Owners
          <5> QED BY <5>5
        <4> QED BY <1>1, <3>1, <4>1, <4>2, <4>3 DEF IInv, Owned
      <3> QED BY <2>6, <3>2, FS_Singleton
    <2> QED BY <2>5, <2>6
  <1>2. IInv => SingleOwner BY <1>1 DEF SingleOwner
  <1> QED BY <1>2, Invariance, PTL

(* Every pointer epoll can return, and every one in a batch still to be    *)
(* dispatched, is to a live Connection: deleting an object leaves none     *)
(* behind.                                                                 *)
THEOREM NothingDangles == Spec => []NoDanglingConnection
  <1>1. IInv => NoDanglingConnection BY DEF IInv, Shape, NoDanglingConnection
  <1> QED BY <1>1, Invariance, PTL

(* A client only ever receives the response to its own request, in order,  *)
(* although descriptors are reused at once after close().                  *)
THEOREM ResponsesOwn == Spec => []OwnResponse
  <1>1. ASSUME IInv, NEW c \in Clients, NEW i \in DOMAIN (got[c] \o tx[c])
        PROVE  (got[c] \o tx[c])[i] = <<c, i>>
    <2>1. PICK g \in Seq(Units), t \in Seq(Units) : g = got[c] /\ t = tx[c]
      BY <1>1 DEF IInv, Types
    <2>2. /\ \A k \in 1 .. Len(g) : g[k] = <<c, k>>
          /\ \A k \in 1 .. Len(t) : t[k] = <<c, Len(g) + k>>
      BY <1>1, <2>1 DEF IInv, InOrder
    <2>3. Len(g) \in Nat /\ Len(t) \in Nat BY <2>1
    <2>4. DOMAIN (g \o t) = 1 .. Len(g) + Len(t) BY <2>1
    <2>5. i \in 1 .. Len(g) + Len(t) BY <1>1, <2>1, <2>4
    <2>6. CASE i <= Len(g)
      <3>1. (g \o t)[i] = g[i] BY <2>1, <2>5, <2>6
      <3> QED BY <2>1, <2>2, <2>3, <2>5, <2>6, <3>1
    <2>7. CASE i > Len(g)
      <3>1. PICK k \in Int : k = i - Len(g) BY <2>3, <2>5
      <3>2. k \in 1 .. Len(t) /\ Len(g) + k = i BY <2>3, <2>5, <2>7, <3>1
      <3>3. (g \o t)[i] = t[i - Len(g)] BY <2>1, <2>5, <2>7
      <3> QED BY <2>1, <2>2, <3>1, <3>2, <3>3
    <2> QED BY <2>3, <2>5, <2>6, <2>7
  <1>2. IInv => OwnResponse BY <1>1 DEF OwnResponse
  <1> QED BY <1>2, Invariance, PTL

(* Edge-triggered epoll reports an arrival once: unread data, an end of    *)
(* stream or an error on a watched connection has a report coming or       *)
(* being handled.                                                          *)
THEOREM DataKept == Spec => []NoMissedData
  <1>1. IInv => NoMissedData BY DEF IInv
  <1> QED BY <1>1, Invariance, PTL

(* And while the backlog holds a connection, the listening descriptor has  *)
(* a report coming or AcceptHandler is running, unless accept failed.      *)
THEOREM ConnectionsKept == Spec => []NoMissedConnection
  <1>1. IInv => NoMissedConnection BY DEF IInv
  <1> QED BY <1>1, Invariance, PTL

(* A client that neither ended nor reset its connection has the whole      *)
(* response, received or on its way, once its descriptor is closed: a      *)
(* short write or a full buffer never cuts an answer.                      *)
THEOREM AnswersWhole == Spec => []AnsweredWhole
  <1>1. ASSUME IInv PROVE AnsweredWhole
    <2>1. DOMAIN backlog = 1 .. Len(backlog) BY <1>1 DEF IInv, Types
    <2>2. \A c \in Clients : Len(got[c] \o tx[c]) = Written(c)
      <3>1. TAKE c \in Clients
      <3>2. got[c] \in Seq(Units) /\ tx[c] \in Seq(Units)
        BY <1>1 DEF IInv, Types
      <3> QED BY <3>2 DEF Written
    <2> QED BY <1>1, <2>1, <2>2 DEF IInv, Complete, InLine, AnsweredWhole
  <1> QED BY <1>1, Invariance, PTL
=============================================================================
