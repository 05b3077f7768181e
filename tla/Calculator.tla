----------------------------- MODULE Calculator -----------------------------
(***************************************************************************)
(* The calculator (08): clients that send a framed request, read until the *)
(* framed answer is whole and ask again; a server that serves one          *)
(* connection at a time and answers every whole request in its buffer.     *)
(***************************************************************************)
EXTENDS TcpClients, Protocol

CONSTANTS ReadMax, NoClient

(* A client says whole requests. *)
Asks(m) ==
  Body(m) \in (IntMin .. IntMax) \X STRING \X (IntMin .. IntMax) /\ m = Encode(Body(m))

CalculatorAssumption ==
  /\ ReadMax \in Nat \ {0} /\ NoClient \notin Clients
  /\ \A t \in Talks : \A c \in Clients : t[c] \in Seq({m \in Range(t[c]) : Asks(m)})

VARIABLES
  conn,        \* the connection in HandleSession
  inbuffer,    \* the server's
  package,     \* each client's inbuffer
  shown,       \* the results and codes each client has printed
  closed,      \* connections the server has closed
  alive        \* FALSE: SIGFPE has killed the server

calcVars == <<conn, inbuffer, package, shown, closed, alive>>
vars == <<hostVars, calcVars>>

Init ==
  /\ HostInit
  /\ conn = NoClient /\ inbuffer = <<>>
  /\ package = [c \in Clients |-> <<>>]
  /\ shown = [c \in Clients |-> <<>>]
  /\ closed = {} /\ alive = TRUE

Request(c, i) == Body(talk[c][i])
Asking(c) == Len(shown[c]) < Len(talk[c])
Asked(c) == Len(FlattenSeq(SubSeq(talk[c], 1, Len(shown[c]) + 1)))

-----------------------------------------------------------------------------
(* The client: send the next request; recv a piece of the answer and, once *)
(* it is whole, show it.                                                   *)
Ask(c) == Asking(c) /\ sent[c] < Asked(c) /\ Send(c) /\ UNCHANGED calcVars

Show(c) ==
  /\ Asking(c) /\ sent[c] = Asked(c)
  /\ Receive(c, ReadMax)
  /\ LET all == package[c] \o got'[c][Len(got'[c])]
     IN  IF Whole(all)
         THEN shown' = [shown EXCEPT ![c] = Append(@, Body(all))]
              /\ package' = [package EXCEPT ![c] = Rest(all)]
         ELSE shown' = shown /\ package' = [package EXCEPT ![c] = all]
  /\ UNCHANGED <<conn, inbuffer, closed, alive>>

(* It leaves when it has no more to ask, the server has closed, or the     *)
(* user interrupts it.                                                     *)
Quit(c) ==
  /\ c \in Polite => ~Asking(c) \/ (tx[c] = <<>> /\ (c \in closed \/ ~alive))
  /\ Leave(c) /\ UNCHANGED calcVars

Client(c) ==
  \/ (Connect(c) \/ Refuse(c)) /\ UNCHANGED calcVars
  \/ Ask(c) \/ Show(c) \/ Quit(c)

-----------------------------------------------------------------------------
Accept ==
  /\ alive /\ conn = NoClient /\ backlog # <<>>
  /\ conn' = Head(backlog) /\ backlog' = Tail(backlog)
  /\ inbuffer' = <<>>
  /\ UNCHANGED <<peer, talk, sent, got, rx, tx, fin, rst, package, shown, closed, alive>>

InSession == alive /\ conn # NoClient

(* recv() > 0, once Decode has found nothing more. *)
Recv ==
  /\ InSession /\ ~Whole(inbuffer) /\ rx[conn] # <<>>
  /\ inbuffer' = inbuffer \o Chunk(conn, ReadMax)
  /\ rx' = [rx EXCEPT ![conn] = SubSeq(@, Len(Chunk(conn, ReadMax)) + 1, Len(@))]
  /\ UNCHANGED <<peer, talk, sent, got, backlog, tx, fin, rst, conn, package, shown, closed, alive>>

(* Decode, Deserialize, Execute, Serialize, Encode and send; SIGPIPE is    *)
(* ignored, so send to a client that has gone only fails.                  *)
Answer ==
  /\ InSession /\ Whole(inbuffer)
  /\ LET r == Body(inbuffer)
     IN  IF Traps(r[1], r[2], r[3])
         THEN alive' = FALSE /\ UNCHANGED <<inbuffer, tx>>
         ELSE /\ inbuffer' = Rest(inbuffer)
              /\ tx' = IF conn \in rst THEN tx
                       ELSE [tx EXCEPT ![conn] = @ \o Encode(Execute(r[1], r[2], r[3]))]
              /\ alive' = alive
  /\ UNCHANGED <<peer, talk, sent, got, backlog, rx, fin, rst, conn, package, shown, closed>>

(* recv() returns 0 or fails. *)
SessionEnd ==
  /\ InSession /\ ~Whole(inbuffer) /\ Ended(conn)
  /\ conn' = NoClient
  /\ closed' = closed \cup {conn}
  /\ UNCHANGED <<hostVars, inbuffer, package, shown, alive>>

Server == Accept \/ Recv \/ Answer \/ SessionEnd

Next == Server \/ \E c \in Clients : Client(c)

-----------------------------------------------------------------------------
(* What arithmetic says of a result: exact when it is an int, for / and %  *)
(* by the remainder's size and sign, and the code that says why not.       *)
Correct(x, oper, y, result, code) ==
  CASE oper \in {"+", "-", "*"} ->
         LET exact == CASE oper = "+" -> x + y [] oper = "-" -> x - y [] oper = "*" -> x * y
         IN  code = 0 /\ (exact \in IntMin .. IntMax => result = exact)
    [] oper = "/" /\ y = 0 -> code = 1
    [] oper = "%" /\ y = 0 -> code = 2
    [] oper = "/" /\ y # 0 ->
                     LET r == x - result * y
                     IN  code = 0 /\ Abs(r) < Abs(y) /\ (r = 0 \/ Sign(r) = Sign(x))
    [] oper = "%" /\ y # 0 ->
                     /\ code = 0 /\ Abs(result) < Abs(y)
                     /\ result = 0 \/ Sign(result) = Sign(x)
                     /\ \E q \in IntMin .. -IntMin : x = q * y + result
    [] OTHER -> code = 3

(* However requests and answers are cut on the way and whoever was served  *)
(* before, a client is shown the right result of each of its requests, in  *)
(* order.                                                                  *)
AnswersRight ==
  \A c \in Clients : \A i \in DOMAIN shown[c] :
    Correct(Request(c, i)[1], Request(c, i)[2], Request(c, i)[3], shown[c][i][1], shown[c][i][2])

(* A polite client gets all its results, unless a quotient that is no int  *)
(* kills the server or another client stays connected for ever.            *)
Served(c) == ~Asking(c) \/ ~alive
Blocked(c) == conn \notin Polite \cup {NoClient}
EveryoneServed == \A c \in Polite : <>Served(c) \/ <>[]Blocked(c)
=============================================================================
