----------------------------- MODULE TcpClients -----------------------------
(***************************************************************************)
(* The clients of the course's TCP servers and the kernel between them and *)
(* the server, as far as the servers rely on it.  Client c connects once   *)
(* and sends the messages talk[c]; their units arrive one by one.  It may  *)
(* leave at any time unless it is polite.  The server that extends this    *)
(* module takes connections from backlog, units from rx and puts units     *)
(* into tx.                                                                *)
(***************************************************************************)
EXTENDS Integers, Sequences, FiniteSets, Functions

CONSTANTS Clients,
          Polite,       \* clients that send all, read all and leave then
          Talks         \* what the clients may say: each a sequence of messages,
                        \* sequences of units

TcpClientsAssumption ==
  /\ IsFiniteSet(Clients) /\ Polite \subseteq Clients
  /\ \A t \in Talks :
       DOMAIN t = Clients /\ \A c \in Clients : \A i \in DOMAIN t[c] : Len(t[c][i]) > 0

VARIABLES
  peer,         \* what each client is doing: "new", "open", "gone"
  talk,         \* what they say
  sent,         \* units of talk[c] sent
  got,          \* what each read of c returned
  backlog,      \* connections not yet accepted, oldest first
  rx, tx,       \* the kernel's receive and send buffer of each connection
  fin, rst      \* connections on which FIN, RST has arrived

hostVars == <<peer, talk, sent, got, backlog, rx, tx, fin, rst>>

(* These two are those of SequencesExt, which as a whole would come into    *)
(* every proof about the servers once for each of them.                    *)
FlattenSeq(seqs) ==
  IF Len(seqs) = 0 THEN seqs
  ELSE LET upTo[i \in 1 .. Len(seqs)] == IF i = 1 THEN seqs[i] ELSE upTo[i - 1] \o seqs[i]
       IN  upTo[Len(seqs)]
IsPrefix(s, t) == Len(s) <= Len(t) /\ SubSeq(s, 1, Len(s)) = SubSeq(t, 1, Len(s))

Stream(c) == FlattenSeq(talk[c])

HostInit ==
  /\ peer = [c \in Clients |-> "new"]
  /\ talk \in Talks
  /\ sent = [c \in Clients |-> 0]
  /\ got = [c \in Clients |-> <<>>]
  /\ backlog = <<>>
  /\ rx = [c \in Clients |-> <<>>]
  /\ tx = [c \in Clients |-> <<>>]
  /\ fin = {} /\ rst = {}

Connect(c) ==
  /\ peer[c] = "new"
  /\ peer' = [peer EXCEPT ![c] = "open"]
  /\ backlog' = Append(backlog, c)
  /\ UNCHANGED <<talk, sent, got, rx, tx, fin, rst>>

(* The next unit arrives. *)
Send(c) ==
  /\ peer[c] = "open"
  /\ sent[c] < Len(Stream(c))
  /\ sent' = [sent EXCEPT ![c] = @ + 1]
  /\ rx' = [rx EXCEPT ![c] = Append(@, Stream(c)[sent'[c]])]
  /\ UNCHANGED <<peer, talk, got, backlog, tx, fin, rst>>

(* One read of the client, of at most max units. *)
Receive(c, max) ==
  /\ peer[c] = "open"
  /\ tx[c] # <<>>
  /\ LET n == IF Len(tx[c]) < max THEN Len(tx[c]) ELSE max
     IN  /\ got' = [got EXCEPT ![c] = Append(@, SubSeq(tx[c], 1, n))]
         /\ tx' = [tx EXCEPT ![c] = SubSeq(@, n + 1, Len(@))]
  /\ UNCHANGED <<peer, talk, sent, backlog, rx, fin, rst>>

(* close() sends FIN, or RST if something was left unread. *)
Leave(c) ==
  /\ peer[c] = "open"
  /\ peer' = [peer EXCEPT ![c] = "gone"]
  /\ IF tx[c] = <<>> THEN fin' = fin \cup {c} /\ rst' = rst
                     ELSE rst' = rst \cup {c} /\ fin' = fin
  /\ tx' = [tx EXCEPT ![c] = <<>>]
  /\ UNCHANGED <<talk, sent, got, backlog, rx>>

(* What reaches a client that has closed is answered with RST. *)
Refuse(c) ==
  /\ peer[c] = "gone" /\ tx[c] # <<>>
  /\ rst' = rst \cup {c}
  /\ tx' = [tx EXCEPT ![c] = <<>>]
  /\ UNCHANGED <<peer, talk, sent, got, backlog, rx, fin>>

(* read() returns 0 or an error. *)
Ended(c) == rx[c] = <<>> /\ c \in fin \cup rst

(* What one read() of at most max units returns. *)
Chunk(c, max) == SubSeq(rx[c], 1, IF Len(rx[c]) < max THEN Len(rx[c]) ELSE max)

(* For each i, what the first i of n units can be answered with, when      *)
(* those from the k-th to the i-th, read together, get one of A[k][i].     *)
Said(n, A) ==
  LET said[i \in 0 .. n] ==
        IF i = 0 THEN {<<>>}
        ELSE UNION {{h \o a : h \in said[k - 1], a \in A[k][i]} : k \in 1 .. i}
  IN  said
=============================================================================
