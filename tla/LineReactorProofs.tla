------------------------- MODULE LineReactorProofs -------------------------
(***************************************************************************)
(* The safety of LineReactor, for any clients, scripts and sizes.  IInv    *)
(* says that every object, watch and report is where the next step of the  *)
(* event loop needs it; SInv follows the text from the client's script to  *)
(* the answers, for which the reference reading is unfolded from the left. *)
(***************************************************************************)
EXTENDS LineReactor, Lemmas, SequenceTheorems

Conns == Clients \cup {Listener}
Entries == [conn : Conns, bits : SUBSET {"IN", "OUT", "ERR"}]

Types ==
  /\ peer \in [Clients -> {"new", "open", "half", "gone"}]
  /\ sent \in [Clients -> Nat] /\ got \in [Clients -> Seq(Char)]
  /\ backlog \in Seq(Clients)
  /\ rx \in [Clients -> Seq(Sent)] /\ tx \in [Clients -> Seq(Char)]
  /\ fin \subseteq Clients /\ rst \subseteq Clients
  /\ interest \subseteq Conns /\ ready \subseteq interest
  /\ armed \subseteq interest \ {Listener}
  /\ pc \in {"wait", "dispatch", "accept", "recv", "parse", "send", "except",
             "undefined", "killed"}
  /\ batch \subseteq Entries
  /\ cur \in Conns \cup {NoConn} /\ bits \subseteq {"IN", "OUT", "ERR"}
  /\ back \in {"parse", "next"}
  /\ heap \subseteq Conns
  /\ inbuffer \in [Clients -> Seq(Sent)] /\ outbuffer \in [Clients -> Seq(Char)]
  /\ exhausted \in BOOLEAN

Bounds ==
  \A c \in Clients : sent[c] <= Len(Script[c]) /\ Len(tx[c]) <= TxCap

(* The server thread, its batch and the objects they point to.  SendHandler*)
(* runs outside RecvHandler only when no complete line is left.            *)
Shape ==
  /\ pc \in {"wait", "dispatch"} <=> cur = NoConn
  /\ pc = "accept" <=> cur = Listener
  /\ pc = "wait" => batch = {}
  /\ interest = heap /\ Listener \in heap
  /\ Alive /\ cur # NoConn => cur \in heap
  /\ \A e \in batch : /\ e.conn \in heap /\ e.conn # cur
                      /\ "ERR" \in e.bits => e.conn \in rst
  /\ \A d, e \in batch : d.conn = e.conn => d = e
  /\ pc = "send" /\ back = "next" => ~HasLine(inbuffer[cur])

(* A connection not yet accepted is in the backlog once, without an object *)
(* and with empty buffers.                                                 *)
InLine(c) == \E i \in 1 .. Len(backlog) : backlog[i] = c
Fresh ==
  /\ \A i, j \in 1 .. Len(backlog) : backlog[i] = backlog[j] => i = j
  /\ \A c \in Clients : peer[c] = "new" => ~InLine(c)
  /\ \A c \in Clients : peer[c] = "new" \/ InLine(c) =>
       c \notin heap /\ inbuffer[c] = <<>> /\ outbuffer[c] = <<>>

IInv == Types /\ Bounds /\ Shape /\ Fresh /\ NoMissedInput /\ NothingStalled

-----------------------------------------------------------------------------
(* Operators of the model *)

(* The listening Connection is no client's, and "none" is neither. *)
LEMMA NamesApart ==
  Listener \notin Clients /\ NoConn \notin Clients /\ NoConn # Listener
  BY LineReactorAssumption

(* A character that occurs has a first occurrence: what find() returns. *)
LEMMA FirstExists ==
  ASSUME NEW s \in Seq(Char), NEW ch, \E i \in DOMAIN s : s[i] = ch
  PROVE  \E i \in DOMAIN s : s[i] = ch /\ \A j \in 1 .. i - 1 : s[j] # ch
  <1> DEFINE P == {i \in DOMAIN s : s[i] = ch}
  <1>1. P \in SUBSET Nat /\ P # {} OBVIOUS
  <1>2. PICK i \in P : \A j \in P : i <= j
    <2> HIDE DEF P
    <2> QED BY <1>1, LeastMember
  <1>3. ASSUME NEW j \in 1 .. i - 1 PROVE s[j] # ch
    <2>1. i \in 1 .. Len(s) /\ Len(s) \in Nat OBVIOUS
    <2>2. j \in 1 .. Len(s) /\ j < i BY <2>1
    <2> QED BY <1>2, <2>2
  <1> QED BY <1>3

(* _inbuffer += buf: what is appended is text the client sent. *)
LEMMA UpToNulType ==
  ASSUME NEW s \in Seq(Sent)
  PROVE  UpToNul(s) \in Seq(Sent)
  <1>1. s \in Seq(Char) BY DEF Char
  <1>2. CASE \E i \in DOMAIN s : s[i] = "nul"
    <2> DEFINE first == CHOOSE i \in DOMAIN s :
                          s[i] = "nul" /\ \A j \in 1 .. i - 1 : s[j] # "nul"
    <2>1. first \in DOMAIN s BY <1>1, <1>2, FirstExists
    <2>2. first \in 1 .. Len(s) /\ Len(s) \in Nat BY <2>1
    <2> HIDE DEF first
    <2>3. SubSeq(s, 1, first - 1) \in Seq(Sent) BY <2>2
    <2> QED BY <1>2, <2>3 DEF UpToNul, first
  <1> QED BY <1>2 DEF UpToNul

(* The position ParseMessage cuts at is that of the first line break. *)
LEMMA FirstBreakIs ==
  ASSUME NEW s \in Seq(Sent), HasLine(s)
  PROVE  /\ FirstBreak(s) \in 1 .. Len(s) /\ s[FirstBreak(s)] = "nl"
         /\ \A j \in 1 .. FirstBreak(s) - 1 : s[j] # "nl"
  <1>1. s \in Seq(Char) /\ DOMAIN s = 1 .. Len(s) BY DEF Char
  <1>2. \E i \in DOMAIN s : s[i] = "nl" /\ \A j \in 1 .. i - 1 : s[j] # "nl"
    BY <1>1, FirstExists DEF HasLine
  <1> QED BY <1>1, <1>2 DEF FirstBreak

(* An answer is text the server may send. *)
LEMMA ResponseType ==
  ASSUME NEW s \in Seq(Sent)
  PROVE  Response(s) \in Seq(Char)
  <1>1. [i \in DOMAIN s |-> IF s[i] = "x" THEN "X" ELSE s[i]] \in Seq(Char)
    BY DEF Sent, Char
  <1>2. <<"tag">> \in Seq(Char) /\ <<"nl">> \in Seq(Char) BY DEF Sent, Char
  <1> QED BY <1>1, <1>2 DEF Response

(* Connect puts one client at the end of the backlog and moves nobody      *)
(* else.                                                                   *)
LEMMA Joins ==
  ASSUME Types, NEW c \in Clients, backlog' = Append(backlog, c)
  PROVE  /\ \A d \in Clients : InLine(d)' <=> InLine(d) \/ d = c
         /\ backlog' \in Seq(Clients)
         /\ (\A i \in 1 .. Len(backlog) : backlog[i] # c)
              /\ (\A i, j \in 1 .. Len(backlog) : backlog[i] = backlog[j] => i = j)
            => \A i, j \in 1 .. Len(backlog') : backlog'[i] = backlog'[j] => i = j
  <1>1. /\ Len(backlog') = Len(backlog) + 1 /\ Len(backlog) \in Nat
        /\ backlog'[Len(backlog) + 1] = c
        /\ \A i \in 1 .. Len(backlog) : backlog'[i] = backlog[i]
    BY DEF Types
  <1>2. backlog' \in Seq(Clients) BY DEF Types
  <1> QED BY <1>1, <1>2 DEF InLine

(* accept() takes the oldest connection out of the backlog, where it       *)
(* occurs once.                                                            *)
LEMMA Leaves ==
  ASSUME Types, Fresh, backlog # <<>>, backlog' = Tail(backlog),
         NEW c, c = Head(backlog)
  PROVE  /\ c \in Clients /\ InLine(c) /\ ~InLine(c)'
         /\ \A d \in Clients : InLine(d)' => InLine(d)
         /\ backlog' \in Seq(Clients)
         /\ \A i, j \in 1 .. Len(backlog') : backlog'[i] = backlog'[j] => i = j
  <1>1. /\ Len(backlog) \in Nat \ {0} /\ c = backlog[1] /\ c \in Clients
        /\ Len(backlog') = Len(backlog) - 1 /\ backlog' \in Seq(Clients)
    BY DEF Types
  <1>2. \A i \in 1 .. Len(backlog') :
          i + 1 \in 1 .. Len(backlog) /\ i + 1 # 1 /\ backlog'[i] = backlog[i + 1]
    BY <1>1 DEF Types
  <1>4. InLine(c) BY <1>1 DEF InLine
  <1>5. \A i, j \in 1 .. Len(backlog) : backlog[i] = backlog[j] => i = j
    BY DEF Fresh
  <1>6. ~InLine(c)'
    <2>1. ASSUME NEW i \in 1 .. Len(backlog'), backlog'[i] = c PROVE FALSE
      BY <1>1, <1>2, <1>5, <2>1
    <2> QED BY <2>1 DEF InLine
  <1>7. \A d \in Clients : InLine(d)' => InLine(d) BY <1>2 DEF InLine
  <1>8. ASSUME NEW i \in 1 .. Len(backlog'), NEW j \in 1 .. Len(backlog'),
               backlog'[i] = backlog'[j]
        PROVE  i = j
    <2>1. i + 1 = j + 1 BY <1>2, <1>5, <1>8
    <2> QED BY <2>1
  <1> QED BY <1>1, <1>4, <1>6, <1>7, <1>8

-----------------------------------------------------------------------------
(* Clients: the invariant IInv *)

(* A client's SYN: it joins the backlog and the listening descriptor is    *)
(* reported.                                                               *)
LEMMA ConnectStep ==
  ASSUME IInv, NEW c \in Clients, Connect(c)
  PROVE  IInv'
  <1>1. Types'
    <2>1. backlog' \in Seq(Clients) BY Joins DEF IInv, Connect
    <2> QED
      BY <2>1 DEF Connect, Edge, serverVars, entryVars, objVars, IInv, Types
  <1>2. Bounds'
    BY NamesApart
    DEF Connect, Edge, serverVars, entryVars, objVars, IInv, Types, Bounds
  <1>3. Shape'
    BY NamesApart
    DEF Connect, Edge, serverVars, entryVars, objVars, IInv, Types, Shape, Alive
  <1>4. Fresh'
    <2>1. \A d \in Clients : InLine(d)' <=> InLine(d) \/ d = c
      BY Joins DEF IInv, Connect
    <2>2. \A i \in 1 .. Len(backlog) : backlog[i] # c
      BY DEF IInv, Fresh, InLine, Connect
    <2>3. \A i, j \in 1 .. Len(backlog') : backlog'[i] = backlog'[j] => i = j
      BY <2>2, Joins DEF IInv, Fresh, Connect
    <2> QED BY <2>1, <2>3 DEF Connect, serverVars, objVars, IInv, Types, Fresh
  <1>5. NoMissedInput'
    BY NamesApart
    DEF Connect, Edge, serverVars, entryVars, objVars, IInv, Types, Shape,
        NoMissedInput, Alive, Readable, Reported
  <1>6. NothingStalled'
    BY NamesApart
    DEF Connect, Edge, serverVars, entryVars, objVars, IInv, Types, Shape,
        NothingStalled, Alive, Writable, Reported
  <1> QED BY <1>1, <1>2, <1>3, <1>4, <1>5, <1>6 DEF IInv

(* A client sends its next character. *)
LEMMA SendStep ==
  ASSUME IInv, NEW c \in Clients, Send(c)
  PROVE  IInv'
  <1>a. /\ sent[c] + 1 \in 1 .. Len(Script[c]) /\ Script[c] \in Seq(Sent)
        /\ sent' = [sent EXCEPT ![c] = sent[c] + 1]
        /\ rx' = [rx EXCEPT ![c] = Append(rx[c], Script[c][sent[c] + 1])]
    <2>1. sent[c] \in Nat /\ Script[c] \in Seq(Sent) /\ sent[c] < Len(Script[c])
      BY LineReactorAssumption DEF Send, IInv, Types
    <2>2. sent' = [sent EXCEPT ![c] = sent[c] + 1] /\ sent'[c] = sent[c] + 1
      BY DEF Send, IInv, Types
    <2>3. sent[c] + 1 \in 1 .. Len(Script[c]) BY <2>1
    <2>4. rx' = [rx EXCEPT ![c] = Append(rx[c], Script[c][sent[c] + 1])]
      BY <2>2 DEF Send
    <2> QED BY <2>1, <2>2, <2>3, <2>4
  <1>b. rx' \in [Clients -> Seq(Sent)] BY <1>a DEF IInv, Types
  <1>c. sent' \in [Clients -> Nat] BY <1>a DEF IInv, Types
  <1>1. Types'
    BY <1>b, <1>c
    DEF Send, Edge, serverVars, entryVars, objVars, IInv, Types, Conns
  <1>2. Bounds'
    <2>1. sent'[c] <= Len(Script[c]) BY <1>a DEF IInv, Types
    <2>2. \A d \in Clients : d # c => sent'[d] = sent[d] BY <1>a DEF IInv, Types
    <2> QED BY <2>1, <2>2 DEF Send, IInv, Bounds
  <1>3. Shape'
    BY NamesApart
    DEF Send, Edge, serverVars, entryVars, objVars, IInv, Types, Shape, Alive
  <1>4. Fresh'
    BY NamesApart
    DEF Send, Edge, serverVars, entryVars, objVars, IInv, Types, Fresh, InLine
  <1>5. NoMissedInput'
    <2>1. \A d \in Clients : d # c => rx'[d] = rx[d] BY <1>a DEF IInv, Types
    <2>2. c \in interest => c \in ready' BY DEF Send, Edge
    <2>3. ready \subseteq ready' /\ UNCHANGED <<serverVars, fin, rst>>
      BY DEF Send, Edge
    <2> QED
      BY <2>1, <2>2, <2>3, NamesApart
      DEF serverVars, entryVars, IInv, NoMissedInput, Alive, Readable, Reported
  <1>6. NothingStalled'
    BY NamesApart
    DEF Send, Edge, serverVars, entryVars, objVars, IInv, Types, Shape,
        NothingStalled, Alive, Writable, Reported
  <1> QED BY <1>1, <1>2, <1>3, <1>4, <1>5, <1>6 DEF IInv

(* A client takes a character: room for one more, which is reported where  *)
(* EPOLLOUT is watched.                                                    *)
LEMMA ReceiveStep ==
  ASSUME IInv, NEW c \in Clients, Receive(c)
  PROVE  IInv'
  <1>a. /\ got[c] \in Seq(Char) /\ tx[c] \in Seq(Char) /\ tx[c] # <<>>
        /\ got' = [got EXCEPT ![c] = Append(got[c], Head(tx[c]))]
        /\ tx' = [tx EXCEPT ![c] = Tail(tx[c])]
    BY DEF IInv, Types, Receive
  <1>b. /\ got' \in [Clients -> Seq(Char)] /\ tx' \in [Clients -> Seq(Char)]
        /\ Len(tx'[c]) = Len(tx[c]) - 1
        /\ \A d \in Clients : d # c => tx'[d] = tx[d]
    BY <1>a DEF IInv, Types
  <1>1. Types' BY <1>b DEF Receive, serverVars, entryVars, objVars, IInv, Types
  <1>2. Bounds'
    <2>1. Len(tx'[c]) <= TxCap
      BY <1>a, <1>b, LineReactorAssumption DEF IInv, Bounds
    <2> QED BY <1>b, <2>1 DEF Receive, IInv, Bounds
  <1>3. Shape'
    BY NamesApart
    DEF Receive, serverVars, entryVars, objVars, IInv, Types, Shape, Alive
  <1>4. Fresh'
    BY NamesApart
    DEF Receive, serverVars, entryVars, objVars, IInv, Types, Fresh, InLine
  <1>5. NoMissedInput'
    BY NamesApart
    DEF Receive, serverVars, entryVars, objVars, IInv, Types, Shape,
        NoMissedInput, Alive, Readable, Reported
  <1>6. NothingStalled'
    <2>1. c \in armed => c \in ready' BY DEF Receive
    <2>2. ready \subseteq ready' /\ UNCHANGED <<serverVars, rst>> BY DEF Receive
    <2> QED
      BY <1>b, <2>1, <2>2, NamesApart
      DEF serverVars, entryVars, objVars, IInv, NothingStalled, Alive, Writable,
          Reported
  <1> QED BY <1>1, <1>2, <1>3, <1>4, <1>5, <1>6 DEF IInv

(* A client shuts its sending side down. *)
LEMMA HalfCloseStep ==
  ASSUME IInv, NEW c \in Clients, HalfClose(c)
  PROVE  IInv'
  <1>1. Types'
    BY NamesApart
    DEF HalfClose, Edge, serverVars, entryVars, objVars, IInv, Types, Conns
  <1>2. Bounds'
    BY NamesApart
    DEF HalfClose, Edge, serverVars, entryVars, objVars, IInv, Types, Bounds
  <1>3. Shape'
    BY NamesApart
    DEF HalfClose, Edge, serverVars, entryVars, objVars, IInv, Types, Shape,
        Alive
  <1>4. Fresh'
    BY NamesApart, ZenonT(30)
    DEF HalfClose, Edge, serverVars, entryVars, objVars, IInv, Types, Fresh,
        InLine
  <1>5. NoMissedInput'
    <2>1. c \in interest => c \in ready' BY DEF HalfClose, Edge
    <2>2. /\ ready \subseteq ready' /\ fin' \subseteq fin \cup {c}
          /\ rst' \subseteq rst \cup {c}
          /\ UNCHANGED <<serverVars, backlog, rx>>
      BY DEF HalfClose, Edge
    <2> QED
      BY <2>1, <2>2, NamesApart
      DEF serverVars, entryVars, IInv, NoMissedInput, Alive, Readable, Reported
  <1>6. NothingStalled'
    BY NamesApart
    DEF HalfClose, Edge, serverVars, entryVars, objVars, IInv, Types, Shape,
        NothingStalled, Alive, Writable, Reported
  <1> QED BY <1>1, <1>2, <1>3, <1>4, <1>5, <1>6 DEF IInv

(* A client closes or resets. *)
LEMMA LeaveStep ==
  ASSUME IInv, NEW c \in Clients, Leave(c)
  PROVE  IInv'
  <1>a. /\ tx' = [tx EXCEPT ![c] = <<>>] /\ tx' \in [Clients -> Seq(Char)]
        /\ Len(tx'[c]) = 0 /\ \A d \in Clients : d # c => tx'[d] = tx[d]
    BY DEF Leave, IInv, Types
  <1>1. Types'
    BY <1>a, ZenonT(30)
    DEF Leave, Edge, serverVars, entryVars, objVars, IInv, Types, Conns
  <1>2. Bounds'
    <2>1. Len(tx'[c]) <= TxCap BY <1>a, LineReactorAssumption
    <2> QED BY <1>a, <2>1 DEF Leave, IInv, Bounds
  <1>3. Shape'
    BY NamesApart
    DEF Leave, Edge, serverVars, entryVars, objVars, IInv, Types, Shape, Alive
  <1>4. Fresh'
    BY NamesApart
    DEF Leave, Edge, serverVars, entryVars, objVars, IInv, Types, Fresh, InLine
  <1>5. NoMissedInput'
    <2>1. c \in interest => c \in ready' BY DEF Leave, Edge
    <2>2. /\ ready \subseteq ready' /\ fin' \subseteq fin \cup {c}
          /\ rst' \subseteq rst \cup {c}
          /\ UNCHANGED <<serverVars, backlog, rx>>
      BY DEF Leave, Edge
    <2> QED
      BY <2>1, <2>2, NamesApart
      DEF serverVars, entryVars, IInv, NoMissedInput, Alive, Readable, Reported
  <1>6. NothingStalled'
    <2>1. c \in interest => c \in ready' BY DEF Leave, Edge
    <2>2. /\ ready \subseteq ready' /\ rst' \subseteq rst \cup {c}
          /\ \A d \in Clients : d # c => tx'[d] = tx[d]
          /\ UNCHANGED serverVars
      BY <1>a DEF Leave, Edge
    <2>3. armed \subseteq interest BY DEF IInv, Types
    <2>4. \A d \in Clients : d # c => (Writable(d)' => Writable(d))
      BY <2>2 DEF Writable
    <2> QED
      BY <2>1, <2>2, <2>3, <2>4
      DEF serverVars, entryVars, objVars, IInv, NothingStalled, Alive, Reported
  <1> QED BY <1>1, <1>2, <1>3, <1>4, <1>5, <1>6 DEF IInv

(* What reached a closed client is answered with RST. *)
LEMMA RefuseStep ==
  ASSUME IInv, NEW c \in Clients, Refuse(c)
  PROVE  IInv'
  <1>a. /\ tx' = [tx EXCEPT ![c] = <<>>] /\ tx' \in [Clients -> Seq(Char)]
        /\ Len(tx'[c]) = 0 /\ \A d \in Clients : d # c => tx'[d] = tx[d]
    BY DEF Refuse, IInv, Types
  <1>1. Types'
    BY <1>a, ZenonT(30)
    DEF Refuse, Edge, serverVars, entryVars, objVars, clientVars, IInv, Types,
        Conns
  <1>2. Bounds'
    <2>1. Len(tx'[c]) <= TxCap BY <1>a, LineReactorAssumption
    <2> QED BY <1>a, <2>1 DEF Refuse, clientVars, IInv, Bounds
  <1>3. Shape'
    BY NamesApart
    DEF Refuse, Edge, serverVars, entryVars, objVars, clientVars, IInv, Types,
        Shape, Alive
  <1>4. Fresh'
    BY NamesApart
    DEF Refuse, Edge, serverVars, entryVars, objVars, clientVars, IInv, Types,
        Fresh, InLine
  <1>5. NoMissedInput'
    <2>1. c \in interest => c \in ready' BY DEF Refuse, Edge
    <2>2. /\ ready \subseteq ready' /\ fin' \subseteq fin \cup {c}
          /\ rst' \subseteq rst \cup {c}
          /\ UNCHANGED <<serverVars, backlog, rx>>
      BY DEF Refuse, Edge
    <2> QED
      BY <2>1, <2>2, NamesApart
      DEF serverVars, entryVars, IInv, NoMissedInput, Alive, Readable, Reported
  <1>6. NothingStalled'
    <2>1. c \in interest => c \in ready' BY DEF Refuse, Edge
    <2>2. /\ ready \subseteq ready' /\ rst' \subseteq rst \cup {c}
          /\ \A d \in Clients : d # c => tx'[d] = tx[d]
          /\ UNCHANGED serverVars
      BY <1>a DEF Refuse, Edge
    <2>3. armed \subseteq interest BY DEF IInv, Types
    <2>4. \A d \in Clients : d # c => (Writable(d)' => Writable(d))
      BY <2>2 DEF Writable
    <2> QED
      BY <2>1, <2>2, <2>3, <2>4
      DEF serverVars, entryVars, objVars, IInv, NothingStalled, Alive, Reported
  <1> QED BY <1>1, <1>2, <1>3, <1>4, <1>5, <1>6 DEF IInv

-----------------------------------------------------------------------------
(* The server thread: the invariant IInv *)

(* epoll_wait moves reports from the ready list to the batch, one for      *)
(* each connection; none is lost on the way.                               *)
LEMMA EpollWaitStep ==
  ASSUME IInv, EpollWait
  PROVE  IInv'
  <1> DEFINE live == {c \in ready : Events(c, armed) # {}}
             Entry(c) == [conn |-> c, bits |-> Events(c, armed)]
  <1>a. PICK S \in SUBSET live :
          /\ batch' = {Entry(c) : c \in S}
          /\ ready' = live \ S
          /\ pc' = IF S = {} THEN "wait" ELSE "dispatch"
    BY DEF EpollWait
  <1>b. /\ pc = "wait" /\ cur = NoConn /\ batch = {}
        /\ UNCHANGED <<peer, sent, got, backlog, rx, tx, fin, rst, interest,
                       armed, cur, bits, back, heap, inbuffer, outbuffer,
                       exhausted>>
    BY DEF EpollWait, clientVars, netVars, objVars, IInv, Shape
  <1>c. /\ S \subseteq ready /\ ready \subseteq Conns
        /\ \A e \in batch' : /\ e.conn \in S /\ e = Entry(e.conn)
                             /\ e.conn \in Conns /\ e.bits = Events(e.conn, armed)
    BY <1>a DEF IInv, Types
  <1>d. \A c : /\ Events(c, armed) \subseteq {"IN", "OUT", "ERR"}
               /\ "ERR" \in Events(c, armed) => c \in rst
               /\ Readable(c) => "IN" \in Events(c, armed)
               /\ c \in armed /\ Writable(c) => "OUT" \in Events(c, armed)
    BY DEF Events
  <1>e. \A c \in S : \E e \in batch' : e.conn = c /\ e.bits = Events(c, armed)
    <2>1. TAKE c \in S
    <2>2. Entry(c) \in batch' BY <1>a
    <2>3. Entry(c).conn = c /\ Entry(c).bits = Events(c, armed) OBVIOUS
    <2> QED BY <2>2, <2>3
  <1> HIDE DEF Entry
  <1>1. Types'
    <2>1. batch' \subseteq Entries
      <3>1. ASSUME NEW e \in batch' PROVE e \in Entries
        BY <1>c, <1>d DEF Entries, Entry
      <3> QED BY <3>1
    <2> QED BY <1>a, <1>b, <2>1 DEF IInv, Types
  <1>2. Bounds' BY <1>b DEF IInv, Bounds
  <1>3. Shape'
    <2>1. \A e \in batch' : /\ e.conn \in heap /\ e.conn # NoConn
                            /\ "ERR" \in e.bits => e.conn \in rst
      BY <1>c, <1>d, NamesApart DEF IInv, Types, Shape, Conns
    <2>2. \A d, e \in batch' : d.conn = e.conn => d = e BY <1>c
    <2>3. pc' \in {"wait", "dispatch"} /\ (pc' = "wait" => batch' = {}) BY <1>a
    <2> QED BY <1>b, <2>1, <2>2, <2>3, NamesApart DEF IInv, Shape
  <1>4. Fresh' BY <1>b DEF IInv, Fresh, InLine
  <1>5. NoMissedInput'
    <2>1. ASSUME NEW c \in interest \cap Clients, Readable(c)
          PROVE  c \in ready' \/ \E e \in batch' : e.conn = c /\ "IN" \in e.bits
      <3>1. c \in ready
        BY <1>b, <2>1, NamesApart DEF IInv, NoMissedInput, Alive, Reported
      <3> QED BY <1>a, <1>d, <1>e, <2>1, <3>1
    <2> QED BY <1>b, <2>1 DEF NoMissedInput, Readable, Reported
  <1>6. NothingStalled'
    <2>1. ASSUME NEW c \in heap \cap Clients, outbuffer[c] # <<>>
          PROVE  /\ c \in armed
                 /\ \/ ~Writable(c) \/ c \in ready'
                    \/ \E e \in batch' : e.conn = c /\ "OUT" \in e.bits
      <3>1. c \in armed /\ (~Writable(c) \/ c \in ready)
        BY <1>b, <2>1, NamesApart DEF IInv, NothingStalled, Alive, Reported
      <3> QED BY <1>a, <1>d, <1>e, <3>1
    <2>2. \A c \in heap \cap Clients : ~HasLine(inbuffer[c])
      BY <1>b, NamesApart DEF IInv, NothingStalled, Alive
    <2> QED BY <1>b, <2>1, <2>2 DEF NothingStalled, Writable, Reported
  <1> QED BY <1>1, <1>2, <1>3, <1>4, <1>5, <1>6 DEF IInv

(* One entry of the batch is taken up; no other entry is of that           *)
(* connection.                                                             *)
LEMMA DispatchStep ==
  ASSUME IInv, NEW e \in batch, Dispatch(e)
  PROVE  IInv'
  <1>a. /\ e \in Entries /\ e.conn \in heap /\ e.conn \in Conns
        /\ "ERR" \in e.bits => e.conn \in Clients /\ e.conn \in rst
        /\ \A d \in batch' : d \in batch /\ d.conn # e.conn
        /\ cur = NoConn /\ pc = "dispatch"
    BY DEF Dispatch, IInv, Types, Shape, Entries
  <1>b. /\ cur' = e.conn /\ bits' = e.bits /\ back' = "next"
        /\ batch' = batch \ {e}
        /\ pc' = IF "ERR" \in e.bits THEN "except"
                 ELSE IF e.conn = Listener THEN "accept"
                 ELSE IF "IN" \in e.bits THEN "recv" ELSE "send"
        /\ UNCHANGED <<peer, sent, got, backlog, rx, tx, fin, rst, interest,
                       armed, ready, heap, inbuffer, outbuffer, exhausted>>
    BY DEF Dispatch, clientVars, netVars, epollVars, objVars
  <1>c. \A d \in Clients : d \in heap => ~HasLine(inbuffer[d])
    BY <1>a, NamesApart DEF IInv, NothingStalled, Alive
  <1>1. Types' BY <1>a, <1>b DEF IInv, Types, Entries
  <1>2. Bounds'
    BY NamesApart
    DEF Dispatch, clientVars, netVars, epollVars, objVars, IInv, Types, Bounds
  <1>3. Shape'
    <2>1. /\ pc' \notin {"wait", "dispatch", "undefined", "killed"}
          /\ cur' # NoConn
          /\ pc' = "accept" <=> cur' = Listener
      BY <1>a, <1>b, NamesApart DEF Conns
    <2>2. pc' = "send" => ~HasLine(inbuffer'[cur'])
      BY <1>a, <1>b, <1>c, NamesApart DEF Conns
    <2> QED BY <1>a, <1>b, <2>1, <2>2 DEF IInv, Shape
  <1>4. Fresh'
    BY NamesApart
    DEF Dispatch, clientVars, netVars, epollVars, objVars, IInv, Types, Fresh,
        InLine
  <1>5. NoMissedInput'
    <2>1. ASSUME NEW c \in interest \cap Clients, Readable(c), c \notin ready
          PROVE  \/ \E d \in batch' : d.conn = c /\ {"IN", "ERR"} \cap d.bits # {}
                 \/ c = cur' /\ pc' \in {"recv", "except"}
      <3>1. PICK d \in batch : d.conn = c /\ {"IN", "ERR"} \cap d.bits # {}
        BY <1>a, <2>1, NamesApart DEF IInv, NoMissedInput, Alive, Reported
      <3> QED BY <1>b, <3>1, NamesApart
    <2> QED BY <1>b, <2>1 DEF NoMissedInput, Readable, Reported
  <1>6. NothingStalled'
    <2>1. ASSUME NEW c \in heap \cap Clients, outbuffer[c] # <<>>
          PROVE  \/ c = cur' /\ (pc' \in {"send", "except"} \/ "OUT" \in bits')
                 \/ /\ c \in armed
                    /\ \/ ~Writable(c) \/ c \in ready
                       \/ \E d \in batch' : d.conn = c /\ {"OUT", "ERR"} \cap d.bits # {}
      <3>1. /\ c \in armed
            /\ \/ ~Writable(c) \/ c \in ready
               \/ \E d \in batch : d.conn = c /\ {"OUT", "ERR"} \cap d.bits # {}
        BY <1>a, <2>1, NamesApart DEF IInv, NothingStalled, Alive, Reported
      <3> QED BY <1>b, <3>1, NamesApart
    <2> QED BY <1>b, <1>c, <2>1 DEF NothingStalled, Writable, Reported
  <1> QED BY <1>1, <1>2, <1>3, <1>4, <1>5, <1>6 DEF IInv

(* ExceptHandler, for EPOLLERR or EPOLLHUP: object, watch and descriptor   *)
(* go together, and no entry of the batch is of this connection.           *)
LEMMA ExceptEventStep ==
  ASSUME IInv, ExceptEvent
  PROVE  IInv'
  <1>1. Types'
    BY NamesApart
    DEF ExceptEvent, NextEntry, ExceptHandler, clientVars, netVars, IInv, Types,
        Conns
  <1>2. Bounds'
    BY NamesApart
    DEF ExceptEvent, NextEntry, ExceptHandler, clientVars, netVars, IInv, Types,
        Bounds
  <1>3. Shape'
    <2>1. /\ pc = "except" /\ cur \in Clients /\ cur' = NoConn
          /\ heap' = heap \ {cur} /\ interest' = interest \ {cur}
          /\ pc' = IF batch = {} THEN "wait" ELSE "dispatch"
          /\ UNCHANGED <<batch, rst>>
      BY NamesApart
      DEF ExceptEvent, NextEntry, ExceptHandler, netVars, IInv, Types, Shape,
          Conns
    <2> QED BY <2>1, NamesApart DEF IInv, Types, Shape, Entries, Conns
  <1>4. Fresh'
    BY NamesApart
    DEF ExceptEvent, NextEntry, ExceptHandler, clientVars, netVars, IInv, Types,
        Fresh, InLine
  <1>5. NoMissedInput'
    BY NamesApart
    DEF ExceptEvent, NextEntry, ExceptHandler, clientVars, netVars, IInv, Types,
        Shape, NoMissedInput, Alive, Readable, Reported
  <1>6. NothingStalled'
    BY NamesApart
    DEF ExceptEvent, NextEntry, ExceptHandler, clientVars, netVars, IInv, Types,
        Shape, NothingStalled, Alive, Writable, Reported
  <1> QED BY <1>1, <1>2, <1>3, <1>4, <1>5, <1>6 DEF IInv

(* AcceptHandler accepts one connection and adds it to epoll, which        *)
(* reports at once what has already arrived.                               *)
LEMMA AcceptStep ==
  ASSUME IInv, Accept
  PROVE  IInv'
  <1>a. PICK c \in Clients : c = Head(backlog)
    BY SMTT(30) DEF Accept, IInv, Types
  <1>b. /\ backlog # <<>> /\ backlog' = Tail(backlog)
        /\ heap' = heap \cup {c} /\ interest' = interest \cup {c}
        /\ ready' = IF Readable(c) THEN ready \cup {c} ELSE ready
        /\ pc = "accept" /\ cur = Listener
        /\ UNCHANGED <<peer, sent, got, rx, tx, fin, rst, armed, pc, batch, cur,
                       bits, back, inbuffer, outbuffer, exhausted>>
    BY <1>a DEF Accept, clientVars, entryVars, IInv, Shape
  <1>c. /\ InLine(c) /\ ~InLine(c)' /\ \A d \in Clients : InLine(d)' => InLine(d)
        /\ backlog' \in Seq(Clients)
        /\ \A i, j \in 1 .. Len(backlog') : backlog'[i] = backlog'[j] => i = j
    BY <1>a, <1>b, Leaves DEF IInv
  <1>d. /\ c \notin heap /\ peer[c] # "new" /\ inbuffer[c] = <<>>
        /\ outbuffer[c] = <<>>
    BY <1>c DEF IInv, Fresh
  <1>1. Types' BY <1>a, <1>b, <1>c DEF IInv, Types, Conns
  <1>2. Bounds' BY <1>b DEF IInv, Bounds
  <1>3. Shape' BY <1>b, <1>d, NamesApart DEF IInv, Shape, Alive
  <1>4. Fresh' BY <1>b, <1>c, <1>d DEF IInv, Fresh
  <1>5. NoMissedInput'
    <2>1. Readable(c) => c \in ready' BY <1>b
    <2>2. \A d \in Clients : Readable(d)' = Readable(d)
      BY <1>b, NamesApart DEF Readable
    <2> QED
      BY <1>b, <2>1, <2>2, NamesApart DEF IInv, NoMissedInput, Alive, Reported
  <1>6. NothingStalled'
    <2>1. ~HasLine(inbuffer[c]) BY <1>d DEF HasLine
    <2> QED
      BY <1>b, <1>d, <2>1, NamesApart
      DEF IInv, NothingStalled, Alive, Writable, Reported
  <1> QED BY <1>1, <1>2, <1>3, <1>4, <1>5, <1>6 DEF IInv

(* AcceptHandler accepts one connection and epoll refuses it: it is        *)
(* dropped whole.                                                          *)
LEMMA AcceptAddFailsStep ==
  ASSUME IInv, AcceptAddFails
  PROVE  IInv'
  <1>1. Types'
    <2>1. backlog' \in Seq(Clients) BY DEF AcceptAddFails, IInv, Types
    <2> QED
      BY <2>1
      DEF AcceptAddFails, clientVars, epollVars, entryVars, objVars, IInv, Types
  <1>2. Bounds'
    BY NamesApart
    DEF AcceptAddFails, clientVars, epollVars, entryVars, objVars, IInv, Types,
        Bounds
  <1>3. Shape'
    BY NamesApart
    DEF AcceptAddFails, clientVars, epollVars, entryVars, objVars, IInv, Types,
        Shape, Alive
  <1>4. Fresh'
    BY NamesApart, SMTT(30)
    DEF AcceptAddFails, clientVars, epollVars, entryVars, objVars, IInv, Types,
        Fresh, InLine
  <1>5. NoMissedInput'
    BY NamesApart
    DEF AcceptAddFails, clientVars, epollVars, entryVars, objVars, IInv, Types,
        Shape, NoMissedInput, Alive, Readable, Reported
  <1>6. NothingStalled'
    BY NamesApart
    DEF AcceptAddFails, clientVars, epollVars, entryVars, objVars, IInv, Types,
        Shape, NothingStalled, Alive, Writable, Reported
  <1> QED BY <1>1, <1>2, <1>3, <1>4, <1>5, <1>6 DEF IInv

(* accept() reports EAGAIN: the backlog is empty, nothing is missed. *)
LEMMA AcceptAgainStep ==
  ASSUME IInv, AcceptAgain
  PROVE  IInv'
  <1>1. Types'
    BY NamesApart
    DEF AcceptAgain, NextEntry, clientVars, netVars, epollVars, objVars, IInv,
        Types, Conns
  <1>2. Bounds'
    BY NamesApart
    DEF AcceptAgain, NextEntry, clientVars, netVars, epollVars, objVars, IInv,
        Types, Bounds
  <1>3. Shape'
    <2>1. /\ cur' = NoConn /\ pc' = IF batch = {} THEN "wait" ELSE "dispatch"
          /\ UNCHANGED <<batch, rst, interest, heap>>
      BY DEF AcceptAgain, NextEntry, netVars, epollVars, objVars
    <2> QED BY <2>1, NamesApart DEF IInv, Types, Shape, Entries, Conns
  <1>4. Fresh'
    BY NamesApart
    DEF AcceptAgain, NextEntry, clientVars, netVars, epollVars, objVars, IInv,
        Types, Fresh, InLine
  <1>5. NoMissedInput'
    BY NamesApart
    DEF AcceptAgain, NextEntry, clientVars, netVars, epollVars, objVars, IInv,
        Types, Shape, NoMissedInput, Alive, Readable, Reported
  <1>6. NothingStalled'
    BY NamesApart
    DEF AcceptAgain, NextEntry, clientVars, netVars, epollVars, objVars, IInv,
        Types, Shape, NothingStalled, Alive, Writable, Reported
  <1> QED BY <1>1, <1>2, <1>3, <1>4, <1>5, <1>6 DEF IInv

(* accept() fails otherwise: from here on the listening descriptor is      *)
(* excepted.                                                               *)
LEMMA AcceptErrorStep ==
  ASSUME IInv, AcceptError
  PROVE  IInv'
  <1>1. Types'
    BY NamesApart
    DEF AcceptError, NextEntry, clientVars, netVars, epollVars, objVars, IInv,
        Types, Conns
  <1>2. Bounds'
    BY NamesApart
    DEF AcceptError, NextEntry, clientVars, netVars, epollVars, objVars, IInv,
        Types, Bounds
  <1>3. Shape'
    <2>1. /\ cur' = NoConn /\ pc' = IF batch = {} THEN "wait" ELSE "dispatch"
          /\ UNCHANGED <<batch, rst, interest, heap>>
      BY DEF AcceptError, NextEntry, netVars, epollVars, objVars
    <2> QED BY <2>1, NamesApart DEF IInv, Types, Shape, Entries, Conns
  <1>4. Fresh'
    BY NamesApart
    DEF AcceptError, NextEntry, clientVars, netVars, epollVars, objVars, IInv,
        Types, Fresh, InLine
  <1>5. NoMissedInput'
    BY NamesApart
    DEF AcceptError, NextEntry, clientVars, netVars, epollVars, objVars, IInv,
        Types, Shape, NoMissedInput, Alive, Readable, Reported
  <1>6. NothingStalled'
    BY NamesApart
    DEF AcceptError, NextEntry, clientVars, netVars, epollVars, objVars, IInv,
        Types, Shape, NothingStalled, Alive, Writable, Reported
  <1> QED BY <1>1, <1>2, <1>3, <1>4, <1>5, <1>6 DEF IInv

(* One read() of RecvHandler's loop. *)
LEMMA RecvReadStep ==
  ASSUME IInv, RecvRead
  PROVE  IInv'
  <1>a. /\ pc = "recv" /\ cur \in Clients /\ cur \in heap
        /\ rx[cur] \in Seq(Sent) /\ inbuffer[cur] \in Seq(Sent) /\ rx[cur] # <<>>
    BY NamesApart DEF RecvRead, IInv, Types, Shape, Conns, Alive
  <1>b. PICK n \in 1 .. Len(rx[cur]) :
          /\ inbuffer' = [inbuffer EXCEPT
                            ![cur] = inbuffer[cur] \o UpToNul(SubSeq(rx[cur], 1, n))]
          /\ rx' = [rx EXCEPT ![cur] = SubSeq(rx[cur], n + 1, Len(rx[cur]))]
    <2>1. Smaller(ReadSize, Len(rx[cur])) \in 1 .. Len(rx[cur])
      BY <1>a, LineReactorAssumption DEF Smaller
    <2> QED BY <2>1 DEF RecvRead
  <1>c. UNCHANGED <<peer, sent, got, backlog, tx, fin, rst, interest, armed,
                    ready, pc, batch, cur, bits, back, heap, outbuffer,
                    exhausted>>
    BY DEF RecvRead, clientVars, epollVars, entryVars
  <1>d. /\ rx' \in [Clients -> Seq(Sent)] /\ inbuffer' \in [Clients -> Seq(Sent)]
        /\ \A d \in Clients : d # cur => rx'[d] = rx[d] /\ inbuffer'[d] = inbuffer[d]
    <2>1. SubSeq(rx[cur], 1, n) \in Seq(Sent)
          /\ SubSeq(rx[cur], n + 1, Len(rx[cur])) \in Seq(Sent)
      BY <1>a
    <2>2. UpToNul(SubSeq(rx[cur], 1, n)) \in Seq(Sent) BY <2>1, UpToNulType
    <2>3. inbuffer[cur] \o UpToNul(SubSeq(rx[cur], 1, n)) \in Seq(Sent)
      BY <1>a, <2>2
    <2> QED BY <1>a, <1>b, <2>1, <2>3 DEF IInv, Types
  <1>1. Types' BY <1>c, <1>d DEF IInv, Types
  <1>2. Bounds' BY <1>c DEF IInv, Bounds
  <1>3. Shape' BY <1>a, <1>c DEF IInv, Shape, Alive
  <1>4. Fresh'
    <2>1. \A d \in Clients : InLine(d)' <=> InLine(d) BY <1>c DEF InLine
    <2> QED BY <1>a, <1>c, <1>d, <2>1 DEF IInv, Fresh
  <1>5. NoMissedInput'
    <2>1. \A d \in Clients : d # cur => (Readable(d)' <=> Readable(d))
      BY <1>c, <1>d, NamesApart DEF Readable
    <2> QED BY <1>a, <1>c, <2>1 DEF IInv, NoMissedInput, Alive, Reported
  <1>6. NothingStalled'
    BY <1>a, <1>c, <1>d, ZenonT(30)
    DEF IInv, NothingStalled, Alive, Writable, Reported
  <1> QED BY <1>1, <1>2, <1>3, <1>4, <1>5, <1>6 DEF IInv

(* read() reports the end of the stream or an error: the Connection is     *)
(* deleted, and if EPOLLOUT was reported too, looked into again.           *)
LEMMA RecvEndsStep ==
  ASSUME IInv, RecvEnds
  PROVE  IInv'
  <1>1. Types'
    BY NamesApart
    DEF RecvEnds, AfterRead, NextEntry, ExceptHandler, clientVars, netVars,
        IInv, Types, Conns
  <1>2. Bounds'
    BY NamesApart
    DEF RecvEnds, AfterRead, NextEntry, ExceptHandler, clientVars, netVars,
        IInv, Types, Bounds
  <1>3. Shape'
    <2>1. /\ pc = "recv" /\ cur \in Clients
          /\ heap' = heap \ {cur} /\ interest' = interest \ {cur}
          /\ \/ pc' = "undefined" /\ cur' = cur
             \/ cur' = NoConn /\ pc' = IF batch = {} THEN "wait" ELSE "dispatch"
          /\ UNCHANGED <<batch, rst>>
      BY NamesApart
      DEF RecvEnds, AfterRead, NextEntry, ExceptHandler, netVars, IInv, Types,
          Shape, Conns
    <2> QED BY <2>1, NamesApart DEF IInv, Types, Shape, Entries, Conns, Alive
  <1>4. Fresh'
    BY NamesApart
    DEF RecvEnds, AfterRead, NextEntry, ExceptHandler, clientVars, netVars,
        IInv, Types, Fresh, InLine
  <1>5. NoMissedInput'
    BY NamesApart
    DEF RecvEnds, AfterRead, NextEntry, ExceptHandler, clientVars, netVars,
        IInv, Types, Shape, NoMissedInput, Alive, Readable, Reported
  <1>6. NothingStalled'
    BY NamesApart
    DEF RecvEnds, AfterRead, NextEntry, ExceptHandler, clientVars, netVars,
        IInv, Types, Shape, NothingStalled, Alive, Writable, Reported
  <1> QED BY <1>1, <1>2, <1>3, <1>4, <1>5, <1>6 DEF IInv

(* read() reports EAGAIN: nothing is unread, and the lines are looked at. *)
LEMMA RecvAgainStep ==
  ASSUME IInv, RecvAgain
  PROVE  IInv'
  <1>1. Types'
    BY NamesApart
    DEF RecvAgain, clientVars, netVars, epollVars, entryVars, objVars, IInv,
        Types, Conns
  <1>2. Bounds'
    BY NamesApart
    DEF RecvAgain, clientVars, netVars, epollVars, entryVars, objVars, IInv,
        Types, Bounds
  <1>3. Shape'
    BY NamesApart
    DEF RecvAgain, clientVars, netVars, epollVars, entryVars, objVars, IInv,
        Types, Shape, Alive
  <1>4. Fresh'
    BY NamesApart
    DEF RecvAgain, clientVars, netVars, epollVars, entryVars, objVars, IInv,
        Types, Fresh, InLine
  <1>5. NoMissedInput'
    <2>1. cur \in Clients /\ ~Readable(cur)
      BY NamesApart DEF RecvAgain, Readable, IInv, Types, Shape, Conns
    <2> QED
      BY <2>1, NamesApart
      DEF RecvAgain, netVars, epollVars, entryVars, IInv, NoMissedInput, Alive,
          Readable, Reported
  <1>6. NothingStalled'
    BY NamesApart
    DEF RecvAgain, clientVars, netVars, epollVars, entryVars, objVars, IInv,
        Types, Shape, NothingStalled, Alive, Writable, Reported
  <1> QED BY <1>1, <1>2, <1>3, <1>4, <1>5, <1>6 DEF IInv

(* One line is answered and SendHandler called, which comes back to the    *)
(* next line.                                                              *)
LEMMA ParseMessageStep ==
  ASSUME IInv, ParseMessage
  PROVE  IInv'
  <1>a. /\ pc = "parse" /\ cur \in Clients /\ cur \in heap
        /\ inbuffer[cur] \in Seq(Sent) /\ outbuffer[cur] \in Seq(Char)
        /\ HasLine(inbuffer[cur])
    BY NamesApart DEF ParseMessage, IInv, Types, Shape, Conns, Alive
  <1>b. PICK pos \in 1 .. Len(inbuffer[cur]) :
          /\ outbuffer' = [outbuffer EXCEPT ![cur] =
                             outbuffer[cur] \o Response(SubSeq(inbuffer[cur], 1, pos - 1))]
          /\ inbuffer' = [inbuffer EXCEPT
                            ![cur] = SubSeq(inbuffer[cur], pos + 1, Len(inbuffer[cur]))]
    BY <1>a, FirstBreakIs DEF ParseMessage
  <1>c. /\ pc' = "send" /\ back' = "parse"
        /\ UNCHANGED <<peer, sent, got, backlog, rx, tx, fin, rst, interest,
                       armed, ready, batch, cur, bits, heap, exhausted>>
    BY DEF ParseMessage, clientVars, netVars, epollVars, entryVars
  <1>d. /\ inbuffer' \in [Clients -> Seq(Sent)]
        /\ outbuffer' \in [Clients -> Seq(Char)]
        /\ \A d \in Clients : d # cur =>
             inbuffer'[d] = inbuffer[d] /\ outbuffer'[d] = outbuffer[d]
    <2>1. SubSeq(inbuffer[cur], 1, pos - 1) \in Seq(Sent)
          /\ SubSeq(inbuffer[cur], pos + 1, Len(inbuffer[cur])) \in Seq(Sent)
      BY <1>a
    <2>2. Response(SubSeq(inbuffer[cur], 1, pos - 1)) \in Seq(Char)
      BY <2>1, ResponseType
    <2>3. outbuffer[cur] \o Response(SubSeq(inbuffer[cur], 1, pos - 1)) \in Seq(Char)
      BY <1>a, <2>2
    <2> QED BY <1>a, <1>b, <2>1, <2>3 DEF IInv, Types
  <1>1. Types' BY <1>c, <1>d DEF IInv, Types
  <1>2. Bounds' BY <1>c DEF IInv, Bounds
  <1>3. Shape' BY <1>a, <1>c, NamesApart DEF IInv, Shape, Alive
  <1>4. Fresh'
    <2>1. \A d \in Clients : InLine(d)' <=> InLine(d) BY <1>c DEF InLine
    <2> QED BY <1>a, <1>c, <1>d, <2>1 DEF IInv, Fresh
  <1>5. NoMissedInput'
    BY <1>a, <1>c, NamesApart DEF IInv, NoMissedInput, Alive, Readable, Reported
  <1>6. NothingStalled'
    BY <1>a, <1>c, <1>d DEF IInv, NothingStalled, Alive, Writable, Reported
  <1> QED BY <1>1, <1>2, <1>3, <1>4, <1>5, <1>6 DEF IInv

(* No complete line is left; the handler returns or goes on to             *)
(* SendHandler.                                                            *)
LEMMA ParseDoneStep ==
  ASSUME IInv, ParseDone
  PROVE  IInv'
  <1>1. Types'
    BY NamesApart
    DEF ParseDone, AfterRead, NextEntry, clientVars, netVars, epollVars,
        objVars, IInv, Types, Conns
  <1>2. Bounds'
    BY NamesApart
    DEF ParseDone, AfterRead, NextEntry, clientVars, netVars, epollVars,
        objVars, IInv, Types, Bounds
  <1>3. Shape'
    <2>1. /\ pc = "parse" /\ cur \in Clients /\ ~HasLine(inbuffer[cur])
          /\ cur \in heap
          /\ \/ pc' = "send" /\ cur' = cur
             \/ cur' = NoConn /\ pc' = IF batch = {} THEN "wait" ELSE "dispatch"
          /\ UNCHANGED <<batch, rst, interest, heap, inbuffer>>
      BY NamesApart
      DEF ParseDone, AfterRead, NextEntry, netVars, epollVars, objVars, IInv,
          Types, Shape, Conns, Alive
    <2> QED BY <2>1, NamesApart DEF IInv, Types, Shape, Entries, Conns, Alive
  <1>4. Fresh'
    BY NamesApart
    DEF ParseDone, AfterRead, NextEntry, clientVars, netVars, epollVars,
        objVars, IInv, Types, Fresh, InLine
  <1>5. NoMissedInput'
    BY NamesApart
    DEF ParseDone, AfterRead, NextEntry, clientVars, netVars, epollVars,
        objVars, IInv, Types, Shape, NoMissedInput, Alive, Readable, Reported
  <1>6. NothingStalled'
    BY NamesApart
    DEF ParseDone, AfterRead, NextEntry, clientVars, netVars, epollVars,
        objVars, IInv, Types, Shape, NothingStalled, Alive, Writable, Reported
  <1> QED BY <1>1, <1>2, <1>3, <1>4, <1>5, <1>6 DEF IInv

(* write() takes what fits; the rest stays in _outbuffer. *)
LEMMA SendWriteStep ==
  ASSUME IInv, SendWrite
  PROVE  IInv'
  <1>a. /\ pc = "send" /\ cur \in Clients /\ cur \in heap
        /\ tx[cur] \in Seq(Char) /\ outbuffer[cur] \in Seq(Char)
        /\ outbuffer[cur] # <<>>
        /\ Len(tx[cur]) < TxCap
    BY NamesApart DEF SendWrite, IInv, Types, Shape, Conns, Alive
  <1>b. PICK n \in 1 .. Len(outbuffer[cur]) :
          /\ Len(tx[cur]) + n <= TxCap
          /\ tx' = [tx EXCEPT ![cur] = tx[cur] \o SubSeq(outbuffer[cur], 1, n)]
          /\ outbuffer' = [outbuffer EXCEPT
                             ![cur] = SubSeq(outbuffer[cur], n + 1, Len(outbuffer[cur]))]
    <2> DEFINE n == Smaller(TxCap - Len(tx[cur]), Len(outbuffer[cur]))
    <2>1. n \in 1 .. Len(outbuffer[cur]) /\ Len(tx[cur]) + n <= TxCap
      <3>1. PICK t \in Nat, o \in Nat : t = Len(tx[cur]) /\ o = Len(outbuffer[cur])
        BY <1>a
      <3>2. o # 0 /\ t < TxCap /\ TxCap \in Nat
        BY <1>a, <3>1, LineReactorAssumption
      <3>3. Smaller(TxCap - t, o) \in 1 .. o /\ t + Smaller(TxCap - t, o) <= TxCap
        BY <3>2 DEF Smaller
      <3> QED BY <3>1, <3>3
    <2> QED BY <2>1 DEF SendWrite
  <1>c. UNCHANGED <<peer, sent, got, backlog, rx, fin, rst, interest, armed,
                    ready, pc, batch, cur, bits, back, heap, inbuffer,
                    exhausted>>
    BY DEF SendWrite, clientVars, epollVars, entryVars
  <1>d. /\ tx' \in [Clients -> Seq(Char)] /\ outbuffer' \in [Clients -> Seq(Char)]
        /\ Len(tx'[cur]) <= TxCap
        /\ \A d \in Clients : d # cur => tx'[d] = tx[d] /\ outbuffer'[d] = outbuffer[d]
    <2>1. /\ SubSeq(outbuffer[cur], 1, n) \in Seq(Char)
          /\ Len(SubSeq(outbuffer[cur], 1, n)) = n
          /\ SubSeq(outbuffer[cur], n + 1, Len(outbuffer[cur])) \in Seq(Char)
      BY <1>a
    <2>2. /\ tx[cur] \o SubSeq(outbuffer[cur], 1, n) \in Seq(Char)
          /\ Len(tx[cur] \o SubSeq(outbuffer[cur], 1, n)) <= TxCap
      BY <1>a, <1>b, <2>1
    <2> QED BY <1>a, <1>b, <2>1, <2>2 DEF IInv, Types
  <1>1. Types' BY <1>c, <1>d DEF IInv, Types
  <1>2. Bounds' BY <1>a, <1>c, <1>d DEF IInv, Bounds
  <1>3. Shape' BY <1>c DEF IInv, Shape, Alive
  <1>4. Fresh'
    <2>1. \A d \in Clients : InLine(d)' <=> InLine(d) BY <1>c DEF InLine
    <2> QED BY <1>a, <1>c, <1>d, <2>1 DEF IInv, Fresh
  <1>5. NoMissedInput'
    BY <1>c DEF IInv, NoMissedInput, Alive, Readable, Reported
  <1>6. NothingStalled'
    <2>1. \A d \in Clients : d # cur => (Writable(d)' <=> Writable(d))
      BY <1>c, <1>d DEF Writable
    <2> QED BY <1>a, <1>c, <1>d, <2>1 DEF IInv, NothingStalled, Alive, Reported
  <1> QED BY <1>1, <1>2, <1>3, <1>4, <1>5, <1>6 DEF IInv

(* SendHandler returns with everything written, or with EPOLLOUT asked     *)
(* for and the buffer full: Mod looks at the descriptor anew, so that      *)
(* room made meanwhile is reported.                                        *)
LEMMA SendDoneStep ==
  ASSUME IInv, SendDone
  PROVE  IInv'
  <1>a. /\ pc = "send" /\ cur \in Clients /\ cur \in heap /\ cur \in interest
        /\ outbuffer[cur] = <<>> \/ ~Writable(cur)
        /\ back = "next" => ~HasLine(inbuffer[cur])
    <2>1. cur \in Clients BY NamesApart DEF SendDone, IInv, Types, Shape, Conns
    <2>2. Len(tx[cur]) = TxCap => ~(Len(tx[cur]) < TxCap)
      BY LineReactorAssumption
    <2> QED BY <2>1, <2>2, NamesApart DEF SendDone, IInv, Shape, Writable, Alive
  <1>b. /\ armed' = IF outbuffer[cur] # <<>> THEN armed \cup {cur} ELSE armed \ {cur}
        /\ ready \subseteq ready' /\ ready' \subseteq ready \cup {cur}
        /\ \/ back = "parse" /\ pc' = "parse" /\ cur' = cur /\ bits' = bits
           \/ /\ back = "next" /\ cur' = NoConn /\ bits' = {}
              /\ pc' = IF batch = {} THEN "wait" ELSE "dispatch"
    BY DEF SendDone, Mod, SendReturns, NextEntry, IInv, Types
  <1>c. UNCHANGED <<peer, sent, got, backlog, rx, tx, fin, rst, interest, batch,
                    back, heap, inbuffer, outbuffer, exhausted>>
    BY DEF SendDone, clientVars, netVars, objVars
  <1>1. Types' BY <1>a, <1>b, <1>c, NamesApart DEF IInv, Types
  <1>2. Bounds' BY <1>c DEF IInv, Bounds
  <1>3. Shape'
    BY <1>a, <1>b, <1>c, NamesApart
    DEF IInv, Types, Shape, Alive, Entries, Conns
  <1>4. Fresh' BY <1>c DEF IInv, Fresh, InLine
  <1>5. NoMissedInput'
    BY <1>a, <1>b, <1>c DEF IInv, NoMissedInput, Alive, Readable, Reported
  <1>6. NothingStalled'
    <2>1. \A d \in Clients : Writable(d)' <=> Writable(d) BY <1>c DEF Writable
    <2> QED
      BY <1>a, <1>b, <1>c, <2>1, NamesApart
      DEF IInv, NothingStalled, Alive, Reported
  <1> QED BY <1>1, <1>2, <1>3, <1>4, <1>5, <1>6 DEF IInv

(* write() fails: the Connection is deleted; inside RecvHandler the loop   *)
(* goes on with it.                                                        *)
LEMMA SendErrorStep ==
  ASSUME IInv, SendError
  PROVE  IInv'
  <1>1. Types'
    BY NamesApart
    DEF SendError, NextEntry, ExceptHandler, clientVars, netVars, IInv, Types,
        Conns
  <1>2. Bounds'
    BY NamesApart
    DEF SendError, NextEntry, ExceptHandler, clientVars, netVars, IInv, Types,
        Bounds
  <1>3. Shape'
    <2>1. /\ pc = "send" /\ cur \in Clients
          /\ heap' = heap \ {cur} /\ interest' = interest \ {cur}
          /\ \/ pc' = "undefined" /\ cur' = cur
             \/ cur' = NoConn /\ pc' = IF batch = {} THEN "wait" ELSE "dispatch"
          /\ UNCHANGED <<batch, rst>>
      BY NamesApart
      DEF SendError, NextEntry, ExceptHandler, netVars, IInv, Types, Shape,
          Conns
    <2> QED BY <2>1, NamesApart DEF IInv, Types, Shape, Entries, Conns, Alive
  <1>4. Fresh'
    BY NamesApart
    DEF SendError, NextEntry, ExceptHandler, clientVars, netVars, IInv, Types,
        Fresh, InLine
  <1>5. NoMissedInput'
    BY NamesApart
    DEF SendError, NextEntry, ExceptHandler, clientVars, netVars, IInv, Types,
        Shape, NoMissedInput, Alive, Readable, Reported
  <1>6. NothingStalled'
    BY NamesApart
    DEF SendError, NextEntry, ExceptHandler, clientVars, netVars, IInv, Types,
        Shape, NothingStalled, Alive, Writable, Reported
  <1> QED BY <1>1, <1>2, <1>3, <1>4, <1>5, <1>6 DEF IInv

(* write() raises SIGPIPE and the process ends. *)
LEMMA SendKilledStep ==
  ASSUME IInv, SendKilled
  PROVE  IInv'
  <1>1. Types'
    BY NamesApart
    DEF SendKilled, clientVars, netVars, epollVars, entryVars, objVars, IInv,
        Types, Conns
  <1>2. Bounds'
    BY NamesApart
    DEF SendKilled, clientVars, netVars, epollVars, entryVars, objVars, IInv,
        Types, Bounds
  <1>3. Shape'
    BY NamesApart
    DEF SendKilled, clientVars, netVars, epollVars, entryVars, objVars, IInv,
        Types, Shape, Alive
  <1>4. Fresh'
    BY NamesApart
    DEF SendKilled, clientVars, netVars, epollVars, entryVars, objVars, IInv,
        Types, Fresh, InLine
  <1>5. NoMissedInput'
    BY NamesApart
    DEF SendKilled, clientVars, netVars, epollVars, entryVars, objVars, IInv,
        Types, Shape, NoMissedInput, Alive, Readable, Reported
  <1>6. NothingStalled'
    BY NamesApart
    DEF SendKilled, clientVars, netVars, epollVars, entryVars, objVars, IInv,
        Types, Shape, NothingStalled, Alive, Writable, Reported
  <1> QED BY <1>1, <1>2, <1>3, <1>4, <1>5, <1>6 DEF IInv

-----------------------------------------------------------------------------
(* The theorems that rest on IInv *)

(* The server starts with the listening Connection alone. *)
LEMMA InitIInv == Init => IInv
  <1> SUFFICES ASSUME Init PROVE IInv OBVIOUS
  <1>1. Types
    <2>1. /\ got \in [Clients -> Seq(Char)] /\ tx \in [Clients -> Seq(Char)]
          /\ rx \in [Clients -> Seq(Sent)] /\ inbuffer \in [Clients -> Seq(Sent)]
          /\ outbuffer \in [Clients -> Seq(Char)] /\ backlog \in Seq(Clients)
      BY DEF Init
    <2> QED BY <2>1, NamesApart DEF Init, Types, Conns
  <1>2. Bounds
    <2>1. \A c \in Clients : Len(Script[c]) \in Nat BY LineReactorAssumption
    <2> QED BY <2>1, LineReactorAssumption DEF Init, Bounds
  <1>3. Shape BY NamesApart DEF Init, Shape
  <1>4. Fresh BY NamesApart DEF Init, Fresh, InLine
  <1>5. NoMissedInput BY NamesApart DEF Init, NoMissedInput
  <1>6. NothingStalled BY NamesApart DEF Init, NothingStalled
  <1> QED BY <1>1, <1>2, <1>3, <1>4, <1>5, <1>6 DEF IInv

(* Every step of the server and of a client keeps the invariant. *)
LEMMA NextIInv == IInv /\ [Next]_vars => IInv'
  <1> SUFFICES ASSUME IInv, [Next]_vars PROVE IInv' OBVIOUS
  <1>1. CASE Server
    BY <1>1, EpollWaitStep, DispatchStep, ExceptEventStep, AcceptStep,
       AcceptAddFailsStep, AcceptAgainStep, AcceptErrorStep, RecvReadStep,
       RecvEndsStep, RecvAgainStep, ParseMessageStep, ParseDoneStep,
       SendWriteStep, SendDoneStep, SendErrorStep, SendKilledStep
    DEF Server
  <1>2. ASSUME NEW c \in Clients, Client(c) PROVE IInv'
    BY <1>2, ConnectStep, SendStep, ReceiveStep, HalfCloseStep, LeaveStep,
       RefuseStep
    DEF Client
  <1>3. CASE UNCHANGED vars
    <2>1. UNCHANGED <<peer, sent, got, backlog, rx, tx, fin, rst, interest,
                      armed, ready, pc, batch, cur, bits, back, heap, inbuffer,
                      outbuffer, exhausted>>
      BY <1>3 DEF vars, clientVars, netVars, epollVars, entryVars, objVars
    <2>2. Types' BY <2>1 DEF IInv, Types
    <2>3. Bounds' BY <2>1 DEF IInv, Bounds
    <2>4. Shape' BY <2>1 DEF IInv, Shape, Alive
    <2>5. Fresh' BY <2>1 DEF IInv, Fresh, InLine
    <2>6. NoMissedInput'
      BY <2>1 DEF IInv, NoMissedInput, Alive, Readable, Reported
    <2>7. NothingStalled'
      BY <2>1 DEF IInv, NothingStalled, Alive, Writable, Reported
    <2> QED BY <2>2, <2>3, <2>4, <2>5, <2>6, <2>7 DEF IInv
  <1> QED BY <1>1, <1>2, <1>3 DEF Next

(* IInv holds in every reachable state, for any clients, scripts and       *)
(* sizes.                                                                  *)
THEOREM Invariance == Spec => []IInv
  <1> QED BY InitIInv, NextIInv, PTL DEF Spec

(* Every variable keeps its type, and what the thread is doing agrees      *)
(* with the Connection it holds.                                           *)
THEOREM TypeCorrect == Spec => []TypeOK
  <1>1. ASSUME IInv PROVE TypeOK
    <2>1. \A c \in Clients : sent[c] \in 0 .. Len(Script[c])
      <3>1. \A c \in Clients : Len(Script[c]) \in Nat BY LineReactorAssumption
      <3> QED BY <1>1, <3>1 DEF IInv, Types, Bounds
    <2> QED BY <1>1, <2>1 DEF IInv, Types, Bounds, Shape, Conns, TypeOK
  <1> QED BY <1>1, Invariance, PTL

(* The epoll set and the live objects are the same, and every pointer in   *)
(* the results still to be dispatched is to a live object.                 *)
THEOREM PointersLive == Spec => []EventsLive
  <1>1. IInv => EventsLive BY DEF IInv, Shape, EventsLive
  <1> QED BY <1>1, Invariance, PTL

(* What is unread on a watched connection has a report coming, or the      *)
(* read loop is at it: the loop of read() down to EAGAIN misses nothing.   *)
THEOREM InputReported == Spec => []NoMissedInput
  <1>1. IInv => NoMissedInput BY DEF IInv
  <1> QED BY <1>1, Invariance, PTL

(* What waits in _outbuffer has SendHandler, or EPOLLOUT with a full       *)
(* buffer or a report, ahead of it, and no complete line lies in           *)
(* _inbuffer unanswered.                                                   *)
THEOREM OutputMoves == Spec => []NothingStalled
  <1>1. IInv => NothingStalled BY DEF IInv
  <1> QED BY <1>1, Invariance, PTL

-----------------------------------------------------------------------------
(* Reading a stream one character at a time *)

Parses == [line : Seq(Sent), out : Seq(Char)]
After(s) == Reading(s)[Len(s)]

(* One character more: what was read and answered stays text. *)
LEMMA ReadCharType ==
  ASSUME NEW p \in Parses, NEW ch \in Sent
  PROVE  ReadChar(p, ch) \in Parses
  <1>1. p.line \in Seq(Sent) /\ p.out \in Seq(Char) BY DEF Parses
  <1>2. Response(p.line) \in Seq(Char) BY <1>1, ResponseType
  <1>3. p.out \o Response(p.line) \in Seq(Char) BY <1>1, <1>2
  <1>4. Append(p.line, ch) \in Seq(Sent) BY <1>1
  <1> QED BY <1>1, <1>3, <1>4 DEF ReadChar, Parses

(* The reference reading is defined: there is a function that gives, for   *)
(* each prefix, what one character more makes of it.                       *)
LEMMA ReadingExists ==
  ASSUME NEW s \in Seq(Sent)
  PROVE  \E f : f = [i \in 0 .. Len(s) |->
                       IF i = 0 THEN Unread ELSE ReadChar(f[i - 1], s[i])]
  <1> DEFINE Reads(f, n) == f = [i \in 0 .. n |->
                                   IF i = 0 THEN Unread ELSE ReadChar(f[i - 1], s[i])]
             P == {n \in 0 .. Len(s) : ~\E f : Reads(f, n)}
  <1>1. SUFFICES ASSUME P # {} PROVE FALSE
    BY DEF P
  <1>2. PICK n \in P : \A m \in P : n <= m
    <2>1. P \in SUBSET Nat OBVIOUS
    <2> HIDE DEF P
    <2> QED BY <1>1, <2>1, LeastMember
  <1>3. n \in 0 .. Len(s) /\ Len(s) \in Nat OBVIOUS
  <1>4. \E f : Reads(f, n)
    <2>1. CASE n = 0
      <3> DEFINE f == [i \in 0 .. 0 |-> Unread]
      <3>1. Reads(f, 0) OBVIOUS
      <3> QED BY <2>1, <3>1
    <2>2. CASE n # 0
      <3>1. n - 1 \in 0 .. Len(s) /\ n - 1 \notin P
        <4> HIDE DEF P
        <4> QED BY <1>2, <1>3, <2>2
      <3>2. PICK f : Reads(f, n - 1) BY <3>1
      <3> DEFINE g == [i \in 0 .. n |-> IF i = n THEN ReadChar(f[n - 1], s[n]) ELSE f[i]]
      <3>3. \A i \in 0 .. n - 1 : f[i] = IF i = 0 THEN Unread ELSE ReadChar(f[i - 1], s[i])
        BY <3>2
      <3>4. \A i \in 0 .. n - 1 : g[i] = f[i] BY <1>3
      <3>5. g[n] = ReadChar(f[n - 1], s[n]) BY <1>3
      <3>6. ASSUME NEW i \in 0 .. n
            PROVE  g[i] = IF i = 0 THEN Unread ELSE ReadChar(g[i - 1], s[i])
        <4> HIDE DEF g
        <4>1. CASE i = n BY <1>3, <2>2, <3>4, <3>5, <4>1
        <4>2. CASE i # n BY <1>3, <3>3, <3>4, <4>2
        <4> QED BY <4>1, <4>2
      <3>7. g = [i \in 0 .. n |-> g[i]] OBVIOUS
      <3>8. Reads(g, n)
        <4> HIDE DEF g
        <4> QED BY <3>6, <3>7
      <3> QED BY <3>8
    <2> QED BY <2>1, <2>2
  <1> QED BY <1>4

(* What the reference has read after i characters, in terms of i - 1. *)
LEMMA ReadingIs ==
  ASSUME NEW s \in Seq(Sent)
  PROVE  /\ Reading(s)[0] = Unread
         /\ \A i \in 1 .. Len(s) : Reading(s)[i] = ReadChar(Reading(s)[i - 1], s[i])
  <1>1. Reading(s) = [i \in 0 .. Len(s) |->
                        IF i = 0 THEN Unread ELSE ReadChar(Reading(s)[i - 1], s[i])]
    BY ReadingExists DEF Reading
  <1>2. Len(s) \in Nat OBVIOUS
  <1> QED BY <1>1, <1>2

(* It is a line begun and answers, for every prefix. *)
LEMMA ReadingType ==
  ASSUME NEW s \in Seq(Sent)
  PROVE  \A i \in 0 .. Len(s) : Reading(s)[i] \in Parses
  <1> DEFINE P == {n \in 0 .. Len(s) : Reading(s)[n] \notin Parses}
  <1>1. SUFFICES ASSUME P # {} PROVE FALSE
    OBVIOUS
  <1>2. PICK n \in P : \A m \in P : n <= m
    <2>1. P \in SUBSET Nat OBVIOUS
    <2> HIDE DEF P
    <2> QED BY <1>1, <2>1, LeastMember
  <1>3. n \in 0 .. Len(s) /\ Len(s) \in Nat OBVIOUS
  <1>4. CASE n = 0
    <2>1. <<>> \in Seq(Sent) /\ <<>> \in Seq(Char) OBVIOUS
    <2>2. Unread \in Parses BY <2>1 DEF Unread, Parses
    <2> QED BY <1>4, <2>2, ReadingIs
  <1>5. CASE n # 0
    <2>1. n - 1 \in 0 .. Len(s) /\ n - 1 \notin P /\ n \in 1 .. Len(s)
      BY <1>2, <1>3, <1>5
    <2>2. Reading(s)[n - 1] \in Parses /\ s[n] \in Sent BY <2>1
    <2>3. ReadChar(Reading(s)[n - 1], s[n]) \in Parses BY <2>2, ReadCharType
    <2> QED BY <2>1, <2>3, ReadingIs
  <1> QED BY <1>4, <1>5

(* So it is at the end of the stream. *)
LEMMA AfterType ==
  ASSUME NEW s \in Seq(Sent)
  PROVE  After(s) \in Parses /\ After(s).line \in Seq(Sent) /\ After(s).out \in Seq(Char)
  <1>1. Len(s) \in 0 .. Len(s) OBVIOUS
  <1> QED BY <1>1, ReadingType DEF After, Parses

(* Nothing read, nothing answered. *)
LEMMA AfterEmpty == After(<<>>) = Unread
  <1>1. <<>> \in Seq(Sent) /\ Len(<<>>) = 0 OBVIOUS
  <1> QED BY <1>1, ReadingIs DEF After

(* The reading of a longer stream is that of the shorter and one           *)
(* character more: a prefix is read the same whatever follows.             *)
LEMMA AfterAppend ==
  ASSUME NEW s \in Seq(Sent), NEW ch \in Sent
  PROVE  After(Append(s, ch)) = ReadChar(After(s), ch)
  <1> DEFINE t == Append(s, ch)
             P == {n \in 0 .. Len(s) : Reading(t)[n] # Reading(s)[n]}
  <1>1. /\ t \in Seq(Sent) /\ Len(t) = Len(s) + 1 /\ t[Len(s) + 1] = ch
        /\ Len(s) \in Nat
        /\ \A i \in 1 .. Len(s) : t[i] = s[i]
    OBVIOUS
  <1> HIDE DEF t
  <1>2. P = {}
    <2>1. SUFFICES ASSUME P # {} PROVE FALSE
      OBVIOUS
    <2>2. PICK n \in P : \A m \in P : n <= m
      <3>1. P \in SUBSET Nat OBVIOUS
      <3> HIDE DEF P
      <3> QED BY <2>1, <3>1, LeastMember
    <2>3. n \in 0 .. Len(s) OBVIOUS
    <2>4. CASE n = 0 BY <1>1, <2>4, ReadingIs
    <2>5. CASE n # 0
      <3>1. /\ n - 1 \in 0 .. Len(s) /\ n - 1 \notin P /\ n \in 1 .. Len(s)
            /\ n \in 1 .. Len(t)
        BY <1>1, <2>2, <2>3, <2>5
      <3>2. Reading(t)[n - 1] = Reading(s)[n - 1] /\ t[n] = s[n] BY <1>1, <3>1
      <3>3. Reading(t)[n] = ReadChar(Reading(t)[n - 1], t[n])
        BY <1>1, <3>1, ReadingIs
      <3>4. Reading(s)[n] = ReadChar(Reading(s)[n - 1], s[n]) BY <3>1, ReadingIs
      <3> QED BY <3>2, <3>3, <3>4
    <2> QED BY <2>4, <2>5
  <1>3. Reading(t)[Len(s)] = Reading(s)[Len(s)] BY <1>1, <1>2
  <1>4. Reading(t)[Len(t)] = ReadChar(Reading(t)[Len(t) - 1], t[Len(t)])
    BY <1>1, ReadingIs
  <1> QED BY <1>1, <1>3, <1>4 DEF After, t

(* Appending to the second of two joined sequences appends to the whole. *)
LEMMA ConcatAppend ==
  ASSUME NEW S, NEW s \in Seq(S), NEW t \in Seq(S), NEW e \in S
  PROVE  s \o Append(t, e) = Append(s \o t, e)
  <1>1. <<e>> \in Seq(S) OBVIOUS
  <1>2. s \o (t \o <<e>>) = (s \o t) \o <<e>> BY <1>1, ConcatAssociative
  <1>3. s \o t \in Seq(S) OBVIOUS
  <1> QED BY <1>2, <1>3, AppendIsConcat

(* A prefix is the prefix before it and one element. *)
LEMMA PrefixAppend ==
  ASSUME NEW S, NEW u \in Seq(S), NEW n \in 1 .. Len(u)
  PROVE  /\ SubSeq(u, 1, n) = Append(SubSeq(u, 1, n - 1), u[n])
         /\ SubSeq(u, 1, n - 1) \in Seq(S) /\ u[n] \in S
  <1>1. SubSeq(u, 1, n) = SubSeq(u, 1, n - 1) \o <<u[n]>>
    <2>1. n \in 1 .. Len(u) /\ 1 \in 1 .. Len(u) /\ n \in 1 .. Len(u) OBVIOUS
    <2> QED BY <2>1, SubSeqRecursiveSecond
  <1>2. SubSeq(u, 1, n - 1) \in Seq(S) /\ u[n] \in S OBVIOUS
  <1> QED BY <1>1, <1>2, AppendIsConcat

(* One stream is read with d already answered of the other. *)
Ahead(d, s, t) ==
  d \o After(s).out = After(t).out /\ After(s).line = After(t).line

(* Streams read alike but for d stay so with one character more. *)
LEMMA ReadOneMore ==
  ASSUME NEW d \in Seq(Char), NEW s \in Seq(Sent), NEW t \in Seq(Sent),
         NEW ch \in Sent,
         Ahead(d, s, t)
  PROVE  Ahead(d, Append(s, ch), Append(t, ch))
  <1>1. PICK p \in Parses, q \in Parses : p = After(s) /\ q = After(t)
    BY AfterType
  <1>2. /\ p.line \in Seq(Sent) /\ p.out \in Seq(Char) /\ d \o p.out = q.out
        /\ p.line = q.line
    BY <1>1 DEF Ahead, Parses
  <1>3. d \o (p.out \o Response(p.line)) = (d \o p.out) \o Response(p.line)
    <2>1. PICK a \in Seq(Char), b \in Seq(Char) : a = p.out /\ b = Response(p.line)
      BY <1>2, ResponseType
    <2>2. d \o (a \o b) = (d \o a) \o b BY ConcatAssociative, SMTT(30)
    <2> QED BY <2>1, <2>2
  <1>4. /\ After(Append(s, ch)) = ReadChar(p, ch)
        /\ After(Append(t, ch)) = ReadChar(q, ch)
    BY <1>1, AfterAppend
  <1>5. /\ d \o ReadChar(p, ch).out = ReadChar(q, ch).out
        /\ ReadChar(p, ch).line = ReadChar(q, ch).line
    BY <1>2, <1>3 DEF ReadChar
  <1> QED BY <1>4, <1>5 DEF Ahead

(* And with any number of characters more. *)
LEMMA ReadOn ==
  ASSUME NEW d \in Seq(Char), NEW s \in Seq(Sent), NEW t \in Seq(Sent),
         NEW u \in Seq(Sent),
         Ahead(d, s, t)
  PROVE  Ahead(d, s \o u, t \o u)
  <1> DEFINE U(n) == SubSeq(u, 1, n)
             P == {n \in 0 .. Len(u) : ~Ahead(d, s \o U(n), t \o U(n))}
  <1>1. P = {}
    <2>1. SUFFICES ASSUME P # {} PROVE FALSE
      OBVIOUS
    <2>2. PICK n \in P : \A m \in P : n <= m
      <3>1. P \in SUBSET Nat OBVIOUS
      <3> HIDE DEF P
      <3> QED BY <2>1, <3>1, LeastMember
    <2>3. n \in 0 .. Len(u) /\ Len(u) \in Nat OBVIOUS
    <2>4. CASE n = 0
      <3>1. U(n) = <<>> BY <2>4
      <3>2. s \o <<>> = s /\ t \o <<>> = t OBVIOUS
      <3> QED BY <3>1, <3>2
    <2>5. CASE n # 0
      <3>1. n \in 1 .. Len(u) /\ n - 1 \in 0 .. Len(u) /\ n - 1 \notin P
        <4> HIDE DEF P
        <4> QED BY <2>2, <2>3, <2>5
      <3>2. Ahead(d, s \o U(n - 1), t \o U(n - 1)) BY <3>1
      <3>3. /\ U(n) = Append(U(n - 1), u[n]) /\ U(n - 1) \in Seq(Sent)
            /\ u[n] \in Sent
        BY <3>1, PrefixAppend
      <3> HIDE DEF U
      <3>4. /\ s \o U(n) = Append(s \o U(n - 1), u[n])
            /\ t \o U(n) = Append(t \o U(n - 1), u[n])
        <4>1. s \o Append(U(n - 1), u[n]) = Append(s \o U(n - 1), u[n])
          BY <3>3, ConcatAppend, SMTT(30)
        <4>2. t \o Append(U(n - 1), u[n]) = Append(t \o U(n - 1), u[n])
          BY <3>3, ConcatAppend, SMTT(30)
        <4> QED BY <3>3, <4>1, <4>2
      <3>5. s \o U(n - 1) \in Seq(Sent) /\ t \o U(n - 1) \in Seq(Sent) BY <3>3
      <3>6. Ahead(d, s \o U(n), t \o U(n))
        BY <3>2, <3>3, <3>4, <3>5, ReadOneMore
      <3> QED BY <3>6
    <2> QED BY <2>4, <2>5
  <1>2. Len(u) \in 0 .. Len(u) /\ U(Len(u)) = u BY SubSeqFull
  <1> QED BY <1>1, <1>2

(* A stream without a line break is a line begun and no answer. *)
LEMMA LineBegun ==
  ASSUME NEW m \in Seq(Sent), \A i \in 1 .. Len(m) : m[i] # "nl"
  PROVE  After(m) = [line |-> m, out |-> <<>>]
  <1> DEFINE M(n) == SubSeq(m, 1, n)
             P == {n \in 0 .. Len(m) : After(M(n)) # [line |-> M(n), out |-> <<>>]}
  <1>1. P = {}
    <2>1. SUFFICES ASSUME P # {} PROVE FALSE
      OBVIOUS
    <2>2. PICK n \in P : \A k \in P : n <= k
      <3>1. P \in SUBSET Nat OBVIOUS
      <3> HIDE DEF P
      <3> QED BY <2>1, <3>1, LeastMember
    <2>3. n \in 0 .. Len(m) /\ Len(m) \in Nat OBVIOUS
    <2>4. CASE n = 0
      <3>1. M(n) = <<>> BY <2>4
      <3> QED BY <3>1, AfterEmpty DEF Unread
    <2>5. CASE n # 0
      <3>1. n \in 1 .. Len(m) /\ n - 1 \in 0 .. Len(m) /\ n - 1 \notin P
        <4> HIDE DEF P
        <4> QED BY <2>2, <2>3, <2>5
      <3>2. After(M(n - 1)) = [line |-> M(n - 1), out |-> <<>>] BY <3>1
      <3>3. /\ M(n) = Append(M(n - 1), m[n]) /\ M(n - 1) \in Seq(Sent)
            /\ m[n] \in Sent
        BY <3>1, PrefixAppend
      <3> HIDE DEF M
      <3>4. After(M(n)) = [line |-> M(n), out |-> <<>>]
        <4>1. After(Append(M(n - 1), m[n])) = ReadChar(After(M(n - 1)), m[n])
          BY <3>3, AfterAppend
        <4>2. m[n] # "nl" BY <3>1
        <4>3. After(M(n - 1)).line = M(n - 1) /\ After(M(n - 1)).out = <<>>
          BY <3>2
        <4>4. ReadChar(After(M(n - 1)), m[n]) =
                [line |-> Append(M(n - 1), m[n]), out |-> <<>>]
          BY <4>2, <4>3 DEF ReadChar
        <4> QED BY <3>3, <4>1, <4>4
      <3> QED BY <3>4
    <2> QED BY <2>4, <2>5
  <1>2. Len(m) \in 0 .. Len(m) /\ M(Len(m)) = m BY SubSeqFull
  <1> QED BY <1>1, <1>2

(* What ParseMessage does: reading the text after the first line break,    *)
(* with the answer to the line before it already given, is reading the     *)
(* whole.                                                                  *)
LEMMA LineAnswered ==
  ASSUME NEW s \in Seq(Sent), NEW pos \in 1 .. Len(s), s[pos] = "nl",
         \A j \in 1 .. pos - 1 : s[j] # "nl"
  PROVE  Ahead(Response(SubSeq(s, 1, pos - 1)), SubSeq(s, pos + 1, Len(s)), s)
  <1> DEFINE m == SubSeq(s, 1, pos - 1)
             r == SubSeq(s, pos + 1, Len(s))
             d == Response(m)
  <1>1. /\ m \in Seq(Sent) /\ r \in Seq(Sent) /\ SubSeq(s, 1, pos) \in Seq(Sent)
        /\ \A i \in 1 .. Len(m) : m[i] # "nl"
    OBVIOUS
  <1>2. s = SubSeq(s, 1, pos) \o r
    <2>1. SubSeq(s, 1, pos) \o r = SubSeq(s, 1, Len(s))
      <3>1. /\ 1 \in 1 .. Len(s) + 1 /\ pos \in 1 - 1 .. Len(s)
            /\ Len(s) \in pos .. Len(s)
        OBVIOUS
      <3> QED BY <3>1, ConcatAdjacentSubSeq
    <2> QED BY <2>1, SubSeqFull
  <1>3. SubSeq(s, 1, pos) = Append(m, "nl") BY PrefixAppend
  <1> HIDE DEF m, r
  <1>4. After(Append(m, "nl")) = [line |-> <<>>, out |-> d]
    <2>1. After(m) = [line |-> m, out |-> <<>>] BY <1>1, LineBegun
    <2>2. d \in Seq(Char) /\ <<>> \o d = d BY <1>1, ResponseType
    <2>3. "nl" \in Sent BY DEF Sent
    <2>4. After(Append(m, "nl")) = ReadChar(After(m), "nl")
      BY <1>1, <2>3, AfterAppend
    <2> QED BY <2>1, <2>2, <2>4 DEF ReadChar
  <1>5. d \in Seq(Char) /\ d \o <<>> = d BY <1>1, ResponseType
  <1>6. Ahead(d, <<>>, Append(m, "nl"))
    BY <1>4, <1>5, AfterEmpty DEF Ahead, Unread
  <1>7. Ahead(d, <<>> \o r, Append(m, "nl") \o r)
    <2>1. <<>> \in Seq(Sent) /\ Append(m, "nl") \in Seq(Sent) BY <1>1, <1>3
    <2> QED BY <1>1, <1>5, <1>6, <2>1, ReadOn
  <1>8. <<>> \o r = r /\ Append(m, "nl") \o r = s
    <2>1. <<>> \o r = r BY <1>1, ConcatEmptySeq
    <2> QED BY <1>2, <1>3, <2>1
  <1> QED BY <1>7, <1>8 DEF m, r

-----------------------------------------------------------------------------
(* Steps that keep the stream *)

(* What was read from c; what was written for c, wherever it is now. *)
ReadSoFar(c) == SubSeq(Script[c], 1, sent[c] - Len(rx[c]))
Joined(g, t, o) == g \o t \o o
Given(c) == got[c] \o tx[c] \o outbuffer[c]
NoNul(c) == \A i \in DOMAIN Script[c] : Script[c][i] # "nul"

(* The kernel holds the end of what was sent; a connection not yet         *)
(* accepted was never read or written; a live one has the answers to what  *)
(* was read.                                                               *)
Arrived ==
  \A c \in Clients :
    /\ Len(rx[c]) <= sent[c]
    /\ \A i \in 1 .. Len(rx[c]) : rx[c][i] = Script[c][sent[c] - Len(rx[c]) + i]
Untouched ==
  \A c \in Clients : peer[c] = "new" \/ InLine(c) =>
    got[c] = <<>> /\ tx[c] = <<>> /\ Len(rx[c]) = sent[c]
Framed ==
  \A c \in (heap \cap Clients) \ rst :
    NoNul(c) => Ahead(Given(c), inbuffer[c], ReadSoFar(c))
SInv == Arrived /\ Untouched /\ Framed

(* Joining text is associative. *)
LEMMA CharConcat ==
  \A s, t, u \in Seq(Char) : (s \o t) \o u = s \o (t \o u) /\ s \o t \in Seq(Char)
  BY ConcatAssociative

(* A part that moves from the front of _outbuffer to the end of the        *)
(* kernel's buffer changes nothing in what the client has and will get.    *)
LEMMA PartMoved ==
  ASSUME NEW g \in Seq(Char), NEW t \in Seq(Char), NEW p \in Seq(Char),
         NEW q \in Seq(Char)
  PROVE  Joined(g, t \o p, q) = Joined(g, t, p \o q)
  <1>1. (g \o t) \o p = g \o (t \o p) BY CharConcat, SMTT(30)
  <1>2. g \o t \in Seq(Char) BY CharConcat
  <1>3. ((g \o t) \o p) \o q = (g \o t) \o (p \o q)
    BY <1>2, CharConcat, ZenonT(30)
  <1> QED BY <1>1, <1>3 DEF Joined

(* Two answers given one after the other are ahead together. *)
LEMMA AheadTrans ==
  ASSUME NEW d \in Seq(Char), NEW f \in Seq(Char),
         NEW r \in Seq(Sent), NEW s \in Seq(Sent), NEW t \in Seq(Sent),
         Ahead(d, s, t), Ahead(f, r, s)
  PROVE  Ahead(d \o f, r, t)
  <1>1. PICK o \in Seq(Char) : o = After(r).out BY AfterType
  <1>2. d \o (f \o o) = (d \o f) \o o BY ConcatAssociative, SMTT(30)
  <1> QED BY <1>1, <1>2 DEF Ahead

(* What was read from a client is a prefix of its script. *)
LEMMA ReadSoFarType ==
  ASSUME IInv, SInv, NEW c \in Clients
  PROVE  /\ sent[c] - Len(rx[c]) \in 0 .. Len(Script[c])
         /\ ReadSoFar(c) \in Seq(Sent)
  <1>1. PICK s \in Seq(Sent), n \in Nat, x \in Seq(Sent) :
          s = Script[c] /\ n = sent[c] /\ x = rx[c]
    BY LineReactorAssumption DEF IInv, Types
  <1>2. n <= Len(s) /\ Len(x) <= n /\ Len(x) \in Nat /\ Len(s) \in Nat
    BY <1>1 DEF IInv, Bounds, SInv, Arrived
  <1>3. n - Len(x) \in 0 .. Len(s) BY <1>2
  <1>4. SubSeq(s, 1, n - Len(x)) \in Seq(Sent) BY <1>3
  <1> QED BY <1>1, <1>3, <1>4 DEF ReadSoFar

(* A step that touches no text keeps the stream invariant; a connection    *)
(* may go.                                                                 *)
LEMMA StreamsKept ==
  ASSUME SInv, UNCHANGED <<sent, got, rx, inbuffer, outbuffer>>,
         rst \subseteq rst', heap' \subseteq heap,
         \A c \in Clients : tx'[c] = tx[c] \/ (c \in rst' /\ tx'[c] = <<>>),
         \A c \in Clients :
           peer'[c] = "new" \/ InLine(c)' => peer[c] = "new" \/ InLine(c)
  PROVE  SInv'
  <1>1. Arrived' BY DEF SInv, Arrived
  <1>2. Untouched' BY DEF SInv, Untouched
  <1>3. Framed'
    <2>1. ASSUME NEW c \in Clients, c \in heap', c \notin rst', NoNul(c)
          PROVE  Ahead(Given(c)', inbuffer'[c], ReadSoFar(c)')
      <3>1. Ahead(Given(c), inbuffer[c], ReadSoFar(c)) BY <2>1 DEF SInv, Framed
      <3>2. tx'[c] = tx[c] BY <2>1
      <3> QED BY <3>1, <3>2 DEF Given, ReadSoFar
    <2> QED BY <2>1 DEF Framed, NoNul
  <1> QED BY <1>1, <1>2, <1>3 DEF SInv

(* A character arrives: nothing is read yet. *)
LEMMA SendStream ==
  ASSUME IInv, SInv, NEW c \in Clients, Send(c)
  PROVE  SInv'
  <1>1. PICK n \in Nat, x \in Seq(Sent), s \in Seq(Sent) :
          n = sent[c] /\ x = rx[c] /\ s = Script[c]
    BY LineReactorAssumption DEF IInv, Types
  <1>2. /\ n < Len(s) /\ peer[c] = "open"
        /\ sent' = [sent EXCEPT ![c] = n + 1]
        /\ UNCHANGED <<peer, got, backlog, tx, rst, heap, inbuffer, outbuffer>>
    BY <1>1 DEF Send, serverVars, objVars
  <1>3. sent'[c] = n + 1 /\ \A d \in Clients : d # c => sent'[d] = sent[d]
    BY <1>1, <1>2 DEF IInv, Types
  <1>4. rx' = [rx EXCEPT ![c] = Append(x, s[n + 1])]
    BY <1>1, <1>3 DEF Send
  <1>5. n + 1 \in 1 .. Len(s) /\ s[n + 1] \in Sent BY <1>2
  <1>6. /\ rx'[c] = Append(x, s[n + 1])
        /\ \A d \in Clients : d # c => rx'[d] = rx[d]
    BY <1>4 DEF IInv, Types
  <1>7. /\ Len(rx'[c]) = Len(x) + 1 /\ Len(x) \in Nat
        /\ \A i \in 1 .. Len(x) : rx'[c][i] = x[i]
        /\ rx'[c][Len(x) + 1] = s[n + 1]
    BY <1>5, <1>6
  <1>8. /\ Len(x) <= n /\ \A i \in 1 .. Len(x) : x[i] = s[n - Len(x) + i]
    BY <1>1 DEF SInv, Arrived
  <1>9. sent'[c] - Len(rx'[c]) = n - Len(x) BY <1>3, <1>7
  <1>10. Arrived'
    <2>1. ASSUME NEW i \in 1 .. Len(rx'[c])
          PROVE  rx'[c][i] = Script[c][sent'[c] - Len(rx'[c]) + i]
      <3>1. rx'[c][i] = s[n - Len(x) + i]
        <4>1. CASE i \in 1 .. Len(x) BY <1>7, <1>8, <4>1
        <4>2. CASE i = Len(x) + 1
          <5>1. n - Len(x) + i = n + 1 BY <1>7, <4>2
          <5> QED BY <1>7, <4>2, <5>1
        <4> QED BY <1>7, <4>1, <4>2
      <3> QED BY <1>1, <1>9, <3>1
    <2>2. Len(rx'[c]) <= sent'[c] BY <1>3, <1>7, <1>8
    <2>3. ASSUME NEW d \in Clients, d # c
          PROVE  /\ Len(rx'[d]) <= sent'[d]
                 /\ \A i \in 1 .. Len(rx'[d]) :
                      rx'[d][i] = Script[d][sent'[d] - Len(rx'[d]) + i]
      <3>1. rx'[d] = rx[d] /\ sent'[d] = sent[d] BY <1>3, <1>6, <2>3
      <3> QED BY <3>1 DEF SInv, Arrived
    <2> QED BY <2>1, <2>2, <2>3 DEF Arrived
  <1>11. Untouched'
    <2>1. InLine(c)' => Len(x) = n BY <1>1, <1>2 DEF SInv, Untouched, InLine
    <2>2. InLine(c)' => Len(rx'[c]) = sent'[c] BY <1>3, <1>7, <2>1
    <2> QED BY <1>2, <1>3, <1>6, <2>2 DEF SInv, Untouched, InLine
  <1>12. Framed'
    <2>1. \A d \in Clients : ReadSoFar(d)' = ReadSoFar(d)
      <3>1. ReadSoFar(c)' = ReadSoFar(c) BY <1>1, <1>9 DEF ReadSoFar
      <3> QED BY <1>3, <1>6, <3>1 DEF ReadSoFar
    <2> QED BY <1>2, <2>1 DEF SInv, Framed, Given, NoNul
  <1> QED BY <1>10, <1>11, <1>12 DEF SInv

(* A character that moves from the kernel's buffer to the client changes   *)
(* nothing in their sum.                                                   *)
LEMMA HeadMoved ==
  ASSUME NEW S, NEW s \in Seq(S), NEW t \in Seq(S), t # <<>>
  PROVE  Append(s, Head(t)) \o Tail(t) = s \o t
  <1>1. Head(t) \in S /\ Tail(t) \in Seq(S) /\ <<Head(t)>> \in Seq(S) OBVIOUS
  <1>2. t = <<Head(t)>> \o Tail(t)
    <2>1. 1 \in 1 .. Len(t) /\ Len(t) \in 1 .. Len(t) /\ Head(t) = t[1] OBVIOUS
    <2> QED BY <2>1, SubSeqRecursiveFirst, SubSeqFull, TailIsSubSeq
  <1>3. Append(s, Head(t)) = s \o <<Head(t)>> BY <1>1, AppendIsConcat
  <1>4. (s \o <<Head(t)>>) \o Tail(t) = s \o (<<Head(t)>> \o Tail(t))
    BY <1>1, ConcatAssociative
  <1> QED BY <1>2, <1>3, <1>4

(* The client takes a character. *)
LEMMA ReceiveStream ==
  ASSUME IInv, SInv, NEW c \in Clients, Receive(c)
  PROVE  SInv'
  <1>1. PICK g \in Seq(Char), t \in Seq(Char) : g = got[c] /\ t = tx[c]
    BY DEF IInv, Types
  <1>2. /\ t # <<>>
        /\ got' = [got EXCEPT ![c] = Append(g, Head(t))]
        /\ tx' = [tx EXCEPT ![c] = Tail(t)]
        /\ UNCHANGED <<peer, sent, backlog, rx, rst, heap, inbuffer, outbuffer>>
    BY <1>1 DEF Receive, serverVars, objVars
  <1>3. /\ got'[c] = Append(g, Head(t)) /\ tx'[c] = Tail(t)
        /\ \A d \in Clients : d # c => got'[d] = got[d] /\ tx'[d] = tx[d]
    BY <1>2 DEF IInv, Types
  <1>4. Arrived' BY <1>2 DEF SInv, Arrived
  <1>5. Untouched' BY <1>1, <1>2, <1>3 DEF SInv, Untouched, InLine
  <1>6. Framed'
    <2>1. \A d \in Clients : Given(d)' = Given(d)
      <3>1. Append(g, Head(t)) \o Tail(t) = g \o t BY <1>2, HeadMoved
      <3>2. Given(c)' = Given(c) BY <1>1, <1>2, <1>3, <3>1 DEF Given
      <3> QED BY <1>2, <1>3, <3>2 DEF Given
    <2> QED BY <1>2, <2>1 DEF SInv, Framed, ReadSoFar, NoNul
  <1> QED BY <1>4, <1>5, <1>6 DEF SInv

(* A connection accepted is one from which nothing was read and to which   *)
(* nothing was written.                                                    *)
LEMMA AcceptStream ==
  ASSUME IInv, SInv, Accept
  PROVE  SInv'
  <1>1. PICK c \in Clients : c = Head(backlog)
    BY SMTT(30) DEF Accept, IInv, Types
  <1>2. /\ backlog # <<>> /\ backlog' = Tail(backlog) /\ heap' = heap \cup {c}
        /\ UNCHANGED <<peer, sent, got, rx, tx, rst, inbuffer, outbuffer>>
    BY <1>1 DEF Accept, clientVars
  <1>3. InLine(c) /\ \A d \in Clients : InLine(d)' => InLine(d)
    BY <1>1, <1>2, Leaves DEF IInv
  <1>4. /\ got[c] = <<>> /\ tx[c] = <<>> /\ Len(rx[c]) = sent[c]
        /\ sent[c] \in Nat
        /\ inbuffer[c] = <<>> /\ outbuffer[c] = <<>>
    BY <1>3 DEF IInv, Types, Fresh, SInv, Untouched
  <1>5. Arrived' BY <1>2 DEF SInv, Arrived
  <1>6. Untouched' BY <1>2, <1>3 DEF SInv, Untouched
  <1>7. Framed'
    <2>1. Given(c) = <<>>
      <3>1. <<>> \o <<>> \o <<>> = <<>> OBVIOUS
      <3> QED BY <1>4, <3>1 DEF Given
    <2>2. ReadSoFar(c) = <<>> BY <1>4 DEF ReadSoFar
    <2>3. Ahead(Given(c), inbuffer[c], ReadSoFar(c))
      BY <1>4, <2>1, <2>2, AfterEmpty DEF Ahead, Unread
    <2> QED BY <1>2, <2>3 DEF SInv, Framed, Given, ReadSoFar, NoNul
  <1> QED BY <1>5, <1>6, <1>7 DEF SInv

(* A line moves from _inbuffer to _outbuffer as its answer. *)
LEMMA ParseStream ==
  ASSUME IInv, SInv, ParseMessage
  PROVE  SInv'
  <1>1. cur \in Clients /\ cur \in heap /\ HasLine(inbuffer[cur])
    BY NamesApart DEF ParseMessage, IInv, Types, Shape, Conns, Alive
  <1>2. PICK s \in Seq(Sent), o \in Seq(Char) : s = inbuffer[cur] /\ o = outbuffer[cur]
    BY <1>1 DEF IInv, Types
  <1>3. PICK pos \in 1 .. Len(s) :
          /\ s[pos] = "nl" /\ \A j \in 1 .. pos - 1 : s[j] # "nl"
          /\ outbuffer' = [outbuffer EXCEPT ![cur] = o \o Response(SubSeq(s, 1, pos - 1))]
          /\ inbuffer' = [inbuffer EXCEPT ![cur] = SubSeq(s, pos + 1, Len(s))]
    BY <1>1, <1>2, FirstBreakIs DEF ParseMessage
  <1>4. UNCHANGED <<peer, sent, got, backlog, rx, tx, rst, heap>>
    BY DEF ParseMessage, clientVars, netVars
  <1>5. PICK m \in Seq(Char), r \in Seq(Sent) :
          m = Response(SubSeq(s, 1, pos - 1)) /\ r = SubSeq(s, pos + 1, Len(s))
    <2>1. /\ SubSeq(s, 1, pos - 1) \in Seq(Sent)
          /\ SubSeq(s, pos + 1, Len(s)) \in Seq(Sent)
      OBVIOUS
    <2> QED BY <2>1, ResponseType
  <1>6. /\ outbuffer'[cur] = o \o m /\ inbuffer'[cur] = r
        /\ \A d \in Clients : d # cur =>
             inbuffer'[d] = inbuffer[d] /\ outbuffer'[d] = outbuffer[d]
    BY <1>1, <1>3, <1>5 DEF IInv, Types
  <1>7. Ahead(m, r, s) BY <1>3, <1>5, LineAnswered
  <1>8. Arrived' BY <1>4 DEF SInv, Arrived
  <1>9. Untouched' BY <1>4 DEF SInv, Untouched, InLine
  <1>10. Framed'
    <2>1. ASSUME cur \notin rst, NoNul(cur)
          PROVE  Ahead(got[cur] \o tx[cur] \o (o \o m), r, ReadSoFar(cur))
      <3>1. PICK d \in Seq(Char), t \in Seq(Sent) :
              /\ d = got[cur] \o tx[cur] /\ t = ReadSoFar(cur)
        <4>1. got[cur] \in Seq(Char) /\ tx[cur] \in Seq(Char)
          BY <1>1 DEF IInv, Types
        <4>2. ReadSoFar(cur) \in Seq(Sent) BY <1>1, ReadSoFarType
        <4>3. got[cur] \o tx[cur] \in Seq(Char) BY <4>1
        <4> QED BY <4>2, <4>3
      <3>2. Ahead(d \o o, s, t)
        BY <1>1, <1>2, <2>1, <3>1 DEF SInv, Framed, Given
      <3>3. d \o o \in Seq(Char) OBVIOUS
      <3>4. Ahead((d \o o) \o m, r, t) BY <1>7, <3>2, <3>3, AheadTrans
      <3>5. (d \o o) \o m = d \o (o \o m) BY CharConcat
      <3> QED BY <3>1, <3>4, <3>5
    <2> QED BY <1>1, <1>4, <1>6, <2>1 DEF SInv, Framed, Given, ReadSoFar, NoNul
  <1> QED BY <1>8, <1>9, <1>10 DEF SInv

(* A part of _outbuffer moves to the kernel. *)
LEMMA WriteStream ==
  ASSUME IInv, SInv, SendWrite
  PROVE  SInv'
  <1>1. cur \in Clients /\ cur \in heap
    BY NamesApart DEF SendWrite, IInv, Types, Shape, Conns, Alive
  <1>2. PICK g \in Seq(Char), t \in Seq(Char), o \in Seq(Char) :
          g = got[cur] /\ t = tx[cur] /\ o = outbuffer[cur]
    BY <1>1 DEF IInv, Types
  <1>3. PICK n \in 0 .. Len(o) :
          /\ tx' = [tx EXCEPT ![cur] = t \o SubSeq(o, 1, n)]
          /\ outbuffer' = [outbuffer EXCEPT ![cur] = SubSeq(o, n + 1, Len(o))]
    <2>1. Len(t) < TxCap /\ TxCap \in Nat /\ Len(t) \in Nat /\ Len(o) \in Nat
      BY <1>2, LineReactorAssumption DEF SendWrite
    <2>2. Smaller(TxCap - Len(t), Len(o)) \in 0 .. Len(o) BY <2>1 DEF Smaller
    <2> QED BY <1>2, <2>2 DEF SendWrite
  <1>4. UNCHANGED <<peer, sent, got, backlog, rx, rst, heap, inbuffer, cur>>
    BY DEF SendWrite, clientVars, entryVars
  <1>5. PICK p \in Seq(Char), q \in Seq(Char) :
          p = SubSeq(o, 1, n) /\ q = SubSeq(o, n + 1, Len(o))
    <2>1. SubSeq(o, 1, n) \in Seq(Char) /\ SubSeq(o, n + 1, Len(o)) \in Seq(Char)
      OBVIOUS
    <2> QED BY <2>1
  <1>6. p \o q = o
    <2>1. 1 \in 1 .. Len(o) + 1 /\ n \in 1 - 1 .. Len(o) /\ Len(o) \in n .. Len(o)
      OBVIOUS
    <2> QED BY <1>5, <2>1, ConcatAdjacentSubSeq, SubSeqFull
  <1>7. /\ tx'[cur] = t \o p /\ outbuffer'[cur] = q
        /\ \A d \in Clients : d # cur => tx'[d] = tx[d] /\ outbuffer'[d] = outbuffer[d]
    BY <1>1, <1>3, <1>5 DEF IInv, Types
  <1>8. Arrived' BY <1>4 DEF SInv, Arrived
  <1>9. Untouched'
    <2>1. peer[cur] # "new" /\ ~InLine(cur) BY <1>1 DEF IInv, Fresh
    <2> QED BY <1>4, <1>7, <2>1 DEF SInv, Untouched, InLine
  <1>10. Framed'
    <2>1. Joined(g, t \o p, q) = Joined(g, t, o)
      <3>1. Joined(g, t \o p, q) = Joined(g, t, p \o q) BY PartMoved
      <3> QED BY <1>6, <3>1
    <2>2. Given(cur)' = Given(cur)
      <3>1. Given(cur) = Joined(g, t, o) BY <1>2 DEF Given, Joined
      <3>2. Given(cur)' = Joined(g, t \o p, q)
        BY <1>2, <1>4, <1>7 DEF Given, Joined
      <3> QED BY <2>1, <3>1, <3>2
    <2>3. \A d \in Clients : Given(d)' = Given(d) BY <1>4, <1>7, <2>2 DEF Given
    <2> QED BY <1>4, <2>3 DEF SInv, Framed, ReadSoFar, NoNul
  <1> QED BY <1>8, <1>9, <1>10 DEF SInv

(* Without NUL all that was read is appended. *)
LEMMA NoNulKept ==
  ASSUME NEW s \in Seq(Sent), \A i \in 1 .. Len(s) : s[i] # "nul"
  PROVE  UpToNul(s) = s
  <1>1. DOMAIN s = 1 .. Len(s) OBVIOUS
  <1> QED BY <1>1 DEF UpToNul

NulFree(s) == \A i \in 1 .. Len(s) : s[i] # "nul"

(* x is what lies in s up to position m; one read cuts u off x. *)
LiesIn(x, s, m) ==
  /\ Len(x) <= m /\ m <= Len(s)
  /\ \A i \in 1 .. Len(x) : x[i] = s[m - Len(x) + i]
Before(x, s, m) == SubSeq(s, 1, m - Len(x))
CutOff(x, n, u, y) == u = SubSeq(x, 1, n) /\ y = SubSeq(x, n + 1, Len(x))

(* What read() cuts off the kernel's buffer continues the prefix read      *)
(* before.                                                                 *)
LEMMA ReadCut ==
  ASSUME NEW x \in Seq(Sent), NEW s \in Seq(Sent), NEW m \in Nat,
         NEW n \in 1 .. Len(x),
         NEW u \in Seq(Sent), NEW y \in Seq(Sent), CutOff(x, n, u, y),
         LiesIn(x, s, m)
  PROVE  /\ LiesIn(y, s, m)
         /\ Before(x, s, m) \in Seq(Sent)
         /\ Before(x, s, m) \o u = Before(y, s, m)
         /\ NulFree(s) => NulFree(u)
  <1>1. PICK lx \in Nat, ly \in Nat, ls \in Nat :
          lx = Len(x) /\ ly = Len(y) /\ ls = Len(s)
    OBVIOUS
  <1>2. n \in 1 .. lx /\ lx <= m /\ m <= ls BY <1>1 DEF LiesIn
  <1>3. ly = lx - n /\ \A i \in 1 .. ly : y[i] = x[n + i]
    <2>1. Len(y) = Len(x) - n BY <1>1, <1>2 DEF CutOff
    <2>2. \A i \in 1 .. Len(y) : y[i] = x[n + i] BY <1>1, <1>2 DEF CutOff
    <2> QED BY <1>1, <2>1, <2>2
  <1>4. PICK k \in Nat : k = m - lx BY <1>2
  <1>5. k + n = m - ly /\ k \in 0 .. ls /\ k + n \in k .. ls /\ n \in Nat
    BY <1>2, <1>3, <1>4
  <1>6. \A i \in 1 .. lx : x[i] = s[k + i] BY <1>1, <1>4 DEF LiesIn
  <1>7. ASSUME NEW i \in 1 .. ly PROVE y[i] = s[m - ly + i]
    <2>1. n + i \in 1 .. lx /\ i \in Nat BY <1>2, <1>3
    <2>2. x[n + i] = s[k + (n + i)] BY <1>6, <2>1
    <2>3. k + (n + i) = m - ly + i BY <1>5, <2>1
    <2> QED BY <1>3, <2>2, <2>3
  <1>8. Len(u) = n /\ \A i \in 1 .. n : u[i] = x[i] BY <1>1, <1>2 DEF CutOff
  <1>9. ASSUME NEW i \in 1 .. n PROVE u[i] = s[k + i]
    <2>1. i \in 1 .. lx BY <1>2
    <2>2. x[i] = s[k + i] BY <1>6, <2>1
    <2>3. u[i] = x[i] BY <1>8
    <2> QED BY <2>2, <2>3
  <1>10. \A i \in 1 .. n : k + i \in 1 .. ls BY <1>2, <1>4
  <1>11. SubSeq(s, k + 1, k + n) = u
    <2>1. PICK v \in Seq(Sent) : v = SubSeq(s, k + 1, k + n)
      <3>1. SubSeq(s, k + 1, k + n) \in Seq(Sent) BY <1>1, <1>5
      <3> QED BY <3>1
    <2>2. Len(v) = n /\ \A i \in 1 .. n : v[i] = s[k + i]
      <3>1. k + n <= Len(s) BY <1>1, <1>5
      <3>2. Len(SubSeq(s, k + 1, k + n)) = n BY <1>5, <3>1
      <3>3. ASSUME NEW i \in 1 .. n PROVE SubSeq(s, k + 1, k + n)[i] = s[k + i]
        BY <1>5, <3>1
      <3> QED BY <2>1, <3>2, <3>3
    <2>3. Len(v) = Len(u) /\ \A i \in 1 .. Len(v) : v[i] = u[i]
      BY <1>8, <1>9, <2>2
    <2>4. v = u BY <2>3, SeqEqual
    <2> QED BY <2>1, <2>4
  <1>12. SubSeq(s, 1, k) \o u = SubSeq(s, 1, k + n)
    <2>1. 1 \in 1 .. Len(s) + 1 /\ k \in 1 - 1 .. Len(s) /\ k + n \in k .. Len(s)
      BY <1>1, <1>5
    <2> QED BY <1>11, <2>1, ConcatAdjacentSubSeq
  <1>13. SubSeq(s, 1, k) \in Seq(Sent) BY <1>1, <1>5
  <1>14. \A i \in 1 .. n : \E j \in 1 .. ls : u[i] = s[j] BY <1>9, <1>10
  <1>15. LiesIn(y, s, m)
    <2>1. ly <= m BY <1>2, <1>3
    <2> QED BY <1>1, <1>2, <1>7, <2>1 DEF LiesIn
  <1>16. NulFree(s) => NulFree(u) BY <1>1, <1>8, <1>14 DEF NulFree
  <1> QED BY <1>1, <1>4, <1>5, <1>12, <1>13, <1>15, <1>16 DEF Before

(* A part of the stream moves from the kernel to _inbuffer. *)
LEMMA ReadStream ==
  ASSUME IInv, SInv, RecvRead
  PROVE  SInv'
  <1>1. cur \in Clients /\ cur \in heap
    BY NamesApart DEF RecvRead, IInv, Types, Shape, Conns, Alive
  <1>2. PICK m \in Nat, x \in Seq(Sent), s \in Seq(Sent), b \in Seq(Sent) :
          m = sent[cur] /\ x = rx[cur] /\ s = Script[cur] /\ b = inbuffer[cur]
    BY <1>1, LineReactorAssumption DEF IInv, Types
  <1>3. PICK n \in 1 .. Len(x) :
          /\ inbuffer' = [inbuffer EXCEPT ![cur] = b \o UpToNul(SubSeq(x, 1, n))]
          /\ rx' = [rx EXCEPT ![cur] = SubSeq(x, n + 1, Len(x))]
    <2>1. Len(x) \in Nat \ {0} BY <1>2 DEF RecvRead
    <2>2. Smaller(ReadSize, Len(x)) \in 1 .. Len(x)
      BY <2>1, LineReactorAssumption DEF Smaller
    <2> QED BY <1>2, <2>2 DEF RecvRead
  <1>4. UNCHANGED <<peer, sent, got, backlog, tx, rst, heap, outbuffer, cur>>
    BY DEF RecvRead, clientVars, entryVars
  <1>5. PICK u \in Seq(Sent), y \in Seq(Sent) :
          u = SubSeq(x, 1, n) /\ y = SubSeq(x, n + 1, Len(x))
    <2>1. SubSeq(x, 1, n) \in Seq(Sent) /\ SubSeq(x, n + 1, Len(x)) \in Seq(Sent)
      OBVIOUS
    <2> QED BY <2>1
  <1>6. /\ rx'[cur] = y /\ inbuffer'[cur] = b \o UpToNul(u)
        /\ \A d \in Clients : d # cur => rx'[d] = rx[d] /\ inbuffer'[d] = inbuffer[d]
    BY <1>1, <1>3, <1>5 DEF IInv, Types
  <1>7. /\ Len(x) <= m /\ m <= Len(s)
        /\ \A i \in 1 .. Len(x) : x[i] = s[m - Len(x) + i]
    BY <1>1, <1>2 DEF IInv, Bounds, SInv, Arrived
  <1>8. LiesIn(y, s, m) /\ (NulFree(s) => NulFree(u))
    <2>1. CutOff(x, n, u, y) /\ LiesIn(x, s, m) BY <1>5, <1>7 DEF CutOff, LiesIn
    <2> QED BY <2>1, ReadCut
  <1>9. PICK r \in Seq(Sent), z \in Seq(Sent) :
          r = Before(x, s, m) /\ z = Before(y, s, m) /\ r \o u = z
    <2>1. CutOff(x, n, u, y) /\ LiesIn(x, s, m) BY <1>5, <1>7 DEF CutOff, LiesIn
    <2>2. Before(x, s, m) \in Seq(Sent) /\ Before(x, s, m) \o u = Before(y, s, m)
      BY <2>1, ReadCut
    <2>3. PICK r \in Seq(Sent) : r = Before(x, s, m) BY <2>2
    <2>4. r \o u \in Seq(Sent) OBVIOUS
    <2> QED BY <2>2, <2>3, <2>4
  <1>10. Arrived'
    <2>1. ASSUME NEW d \in Clients, d # cur
          PROVE  /\ Len(rx'[d]) <= sent'[d]
                 /\ \A i \in 1 .. Len(rx'[d]) :
                      rx'[d][i] = Script[d][sent'[d] - Len(rx'[d]) + i]
      <3>1. rx'[d] = rx[d] /\ sent'[d] = sent[d] BY <1>4, <1>6, <2>1
      <3> QED BY <3>1 DEF SInv, Arrived
    <2>2. sent'[cur] = m BY <1>2, <1>4
    <2>3. /\ Len(rx'[cur]) <= sent'[cur]
          /\ \A i \in 1 .. Len(rx'[cur]) :
               rx'[cur][i] = Script[cur][sent'[cur] - Len(rx'[cur]) + i]
      BY <1>2, <1>6, <1>8, <2>2 DEF LiesIn
    <2> QED BY <2>1, <2>3 DEF Arrived
  <1>11. Untouched'
    <2>1. peer[cur] # "new" /\ ~InLine(cur) BY <1>1 DEF IInv, Fresh
    <2> QED BY <1>4, <1>6, <2>1 DEF SInv, Untouched, InLine
  <1>12. ASSUME cur \notin rst, NoNul(cur)
         PROVE  Ahead(Given(cur), b \o UpToNul(u), z)
    <2>1. PICK d \in Seq(Char) : d = Given(cur)
      <3>1. PICK g \in Seq(Char), t \in Seq(Char), o \in Seq(Char) :
              g = got[cur] /\ t = tx[cur] /\ o = outbuffer[cur]
        BY <1>1 DEF IInv, Types
      <3>2. g \o t \in Seq(Char) BY CharConcat
      <3>3. (g \o t) \o o \in Seq(Char) BY <3>2, CharConcat
      <3> QED BY <3>1, <3>3 DEF Given
    <2>2. Ahead(d, b, r)
      BY <1>1, <1>2, <1>12, <1>9, <2>1 DEF SInv, Framed, ReadSoFar, Before
    <2>3. UpToNul(u) = u
      <3>1. NulFree(s) BY <1>2, <1>12 DEF NoNul, NulFree
      <3> QED BY <1>8, <3>1, NoNulKept DEF NulFree
    <2>4. Ahead(d, b \o u, r \o u) BY <2>2, ReadOn
    <2> QED BY <1>9, <2>1, <2>3, <2>4
  <1>13. Framed'
    <2>1. ReadSoFar(cur)' = z BY <1>2, <1>4, <1>6, <1>9 DEF ReadSoFar, Before
    <2>2. \A d \in Clients : Given(d)' = Given(d) BY <1>4 DEF Given
    <2>3. ASSUME cur \notin rst, NoNul(cur)
          PROVE  Ahead(Given(cur)', inbuffer'[cur], ReadSoFar(cur)')
      <3>1. Ahead(Given(cur), b \o UpToNul(u), z) BY <1>12, <2>3
      <3>2. Given(cur)' = Given(cur) /\ inbuffer'[cur] = b \o UpToNul(u)
        BY <1>4, <1>6 DEF Given
      <3> QED BY <2>1, <3>1, <3>2
    <2>4. ASSUME NEW d \in Clients, d \in heap, d \notin rst, d # cur, NoNul(d)
          PROVE  Ahead(Given(d)', inbuffer'[d], ReadSoFar(d)')
      <3>1. Ahead(Given(d), inbuffer[d], ReadSoFar(d)) BY <2>4 DEF SInv, Framed
      <3>2. ReadSoFar(d)' = ReadSoFar(d) BY <1>4, <1>6, <2>4 DEF ReadSoFar
      <3> QED BY <1>6, <2>2, <2>4, <3>1, <3>2
    <2>5. ASSUME NEW d \in Clients, d \in heap', d \notin rst', NoNul(d)
          PROVE  Ahead(Given(d)', inbuffer'[d], ReadSoFar(d)')
      <3>1. d \in heap /\ d \notin rst BY <1>4, <2>5
      <3>2. CASE d = cur
        <4>1. cur' = cur /\ cur \notin rst /\ NoNul(cur)
          BY <1>4, <2>5, <3>1, <3>2
        <4> QED BY <1>4, <2>3, <3>2, <4>1 DEF Given, ReadSoFar
      <3>3. CASE d # cur BY <2>4, <2>5, <3>1, <3>3
      <3> QED BY <3>2, <3>3
    <2> QED BY <2>5 DEF Framed, NoNul
  <1> QED BY <1>10, <1>11, <1>13 DEF SInv

(* Nothing sent, read, answered or written. *)
LEMMA InitSInv == Init => SInv
  <1> SUFFICES ASSUME Init PROVE SInv OBVIOUS
  <1>1. \A c \in Clients : got[c] = <<>> /\ tx[c] = <<>> /\ Len(rx[c]) = 0 /\ sent[c] = 0
    BY DEF Init
  <1>2. Arrived BY <1>1 DEF Arrived
  <1>3. Untouched BY <1>1 DEF Untouched
  <1>4. Framed BY NamesApart DEF Init, Framed
  <1> QED BY <1>2, <1>3, <1>4 DEF SInv

(* Every step keeps the stream invariant. *)
LEMMA NextSInv == IInv /\ SInv /\ [Next]_vars => SInv'
  <1> SUFFICES ASSUME IInv, SInv, [Next]_vars PROVE SInv' OBVIOUS
  <1>1. CASE \E c \in Clients : Connect(c)
    <2>1. PICK c \in Clients : Connect(c) BY <1>1
    <2>2. \A d \in Clients : InLine(d)' => InLine(d) \/ d = c
      BY <2>1, Joins DEF IInv, Connect
    <2>3. /\ UNCHANGED <<sent, got, rx, tx, rst, heap, inbuffer, outbuffer>>
          /\ peer' = [peer EXCEPT ![c] = "open"] /\ peer[c] = "new"
      BY <2>1 DEF Connect, serverVars, objVars
    <2>4. \A d \in Clients : peer'[d] = "new" => peer[d] = "new"
      BY <2>3 DEF IInv, Types
    <2> QED BY <2>2, <2>3, <2>4, StreamsKept
  <1>2. CASE \E c \in Clients : HalfClose(c) \/ Leave(c) \/ Refuse(c)
    <2>1. PICK c \in Clients : HalfClose(c) \/ Leave(c) \/ Refuse(c) BY <1>2
    <2>2. /\ UNCHANGED <<sent, got, backlog, rx, heap, inbuffer, outbuffer>>
          /\ rst \subseteq rst'
      BY <2>1 DEF HalfClose, Leave, Refuse, serverVars, objVars, clientVars
    <2>3. \A d \in Clients : tx'[d] = tx[d] \/ (d \in rst' /\ tx'[d] = <<>>)
      BY <2>1 DEF HalfClose, Leave, Refuse, IInv, Types
    <2>4. \A d \in Clients : peer'[d] = "new" => peer[d] = "new"
      BY <2>1 DEF HalfClose, Leave, Refuse, clientVars, IInv, Types
    <2>5. \A d \in Clients : InLine(d)' => InLine(d) BY <2>2 DEF InLine
    <2> QED BY <2>2, <2>3, <2>4, <2>5, StreamsKept
  <1>3. CASE AcceptAddFails
    <2>1. /\ UNCHANGED <<peer, sent, got, rx, tx, rst, heap, inbuffer, outbuffer>>
          /\ backlog # <<>> /\ backlog' = Tail(backlog)
      BY <1>3 DEF AcceptAddFails, clientVars, objVars
    <2>2. \A d \in Clients : InLine(d)' => InLine(d) BY <2>1, Leaves DEF IInv
    <2> QED BY <2>1, <2>2, StreamsKept
  <1>4. CASE \/ EpollWait \/ (\E e \in batch : Dispatch(e)) \/ ExceptEvent
             \/ AcceptAgain \/ AcceptError \/ RecvEnds \/ RecvAgain \/ ParseDone
             \/ SendDone \/ SendError \/ SendKilled \/ UNCHANGED vars
    <2>1. /\ UNCHANGED <<peer, sent, got, backlog, rx, tx, rst, inbuffer,
                         outbuffer>>
          /\ heap' \subseteq heap
      BY <1>4
      DEF EpollWait, Dispatch, ExceptEvent, AcceptAgain, AcceptError, RecvEnds,
          RecvAgain, ParseDone, SendDone, SendError, SendKilled, ExceptHandler,
          vars, clientVars, netVars, objVars
    <2>2. \A d \in Clients : InLine(d)' => InLine(d) BY <2>1 DEF InLine
    <2> QED BY <2>1, <2>2, StreamsKept
  <1>5. CASE \E c \in Clients : Send(c) \/ Receive(c)
    BY <1>5, SendStream, ReceiveStream
  <1>6. CASE Accept \/ RecvRead \/ ParseMessage \/ SendWrite
    BY <1>6, AcceptStream, ReadStream, ParseStream, WriteStream
  <1> QED BY <1>1, <1>2, <1>3, <1>4, <1>5, <1>6 DEF Next, Server, Client

(* For every connection alive and not reset, on which no NUL is sent:      *)
(* what the client has, has coming and will be answered from _inbuffer is  *)
(* exactly the answers to the lines read from it, however reads and        *)
(* writes cut them.                                                        *)
THEOREM NothingLost == Spec => []StreamPreserved
  <1>1. Spec => []SInv
    <2>1. Init => IInv /\ SInv BY InitIInv, InitSInv
    <2>2. (IInv /\ SInv) /\ [Next]_vars => (IInv /\ SInv)' BY NextIInv, NextSInv
    <2> QED BY <2>1, <2>2, PTL DEF Spec
  <1>2. SInv => StreamPreserved
    <2> SUFFICES ASSUME SInv PROVE StreamPreserved OBVIOUS
    <2>1. \A c \in (heap \cap Clients) \ rst :
            NoNul(c) => Given(c) \o After(inbuffer[c]).out = After(ReadSoFar(c)).out
      BY DEF SInv, Framed, Ahead
    <2> QED BY <2>1 DEF StreamPreserved, NoNul, Given, After, ReadSoFar, Answers
  <1> QED BY <1>1, <1>2, PTL

=============================================================================
