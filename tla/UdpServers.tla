----------------------------- MODULE UdpServers -----------------------------
(***************************************************************************)
(* The UDP servers: echo (01), dictionary (02) and chat (03).  Datagrams   *)
(* reach the server in any order or not at all; each is handled at once.   *)
(***************************************************************************)
EXTENDS Integers, Sequences, FiniteSets, Functions

CONSTANTS Users,         \* addresses that send
          Texts,         \* what they send: sequences of characters
          Words,         \* the keys of dict
          QuitWords,
          BufferSize,    \* sizeof(buffer) - 1
          MaxDatagrams   \* bound: datagrams sent

UdpServersAssumption == BufferSize \in Nat /\ MaxDatagrams \in Nat

VARIABLES
  prog,        \* "echo", "dict" or "chat"
  wire,        \* datagrams under way to the server
  count,       \* datagrams sent
  heard,       \* what the server has handled, a history
  _online_users,
  inbox        \* what the server has sent to each address

vars == <<prog, wire, count, heard, _online_users, inbox>>

Init ==
  /\ prog \in {"echo", "dict", "chat"}
  /\ wire = {} /\ count = 0 /\ heard = <<>>
  /\ _online_users = <<>>
  /\ inbox = [u \in Users |-> <<>>]

Transmit(u) ==
  /\ count < MaxDatagrams
  /\ count' = count + 1
  /\ \E t \in Texts : wire' = wire \cup {[id |-> count', from |-> u, text |-> t]}
  /\ UNCHANGED <<prog, heard, _online_users, inbox>>

Lose(d) == wire' = wire \ {d} /\ UNCHANGED <<prog, count, heard, _online_users, inbox>>

-----------------------------------------------------------------------------
(* recvfrom cuts a datagram that is too long. *)
Received(t) == SubSeq(t, 1, IF Len(t) < BufferSize THEN Len(t) ELSE BufferSize)

(* One "\n" and one "\r" at the end go. *)
Without(s, ch) == IF s # <<>> /\ s[Len(s)] = ch THEN SubSeq(s, 1, Len(s) - 1) ELSE s
Stripped(t) == Without(Without(t, "nl"), "cr")

(* What 01 and 02 answer. *)
Echo(t) == <<"echo">> \o t
TranslateDict(req) == IF req \in Words THEN <<"meaning">> \o req ELSE <<"unknown">>

Reply(d) ==
  LET t == Received(d.text)
  IN  /\ prog \in {"echo", "dict"} /\ t # <<>>
      /\ inbox' = [inbox EXCEPT ![d.from] =
           Append(@, IF prog = "echo" THEN Echo(t) ELSE TranslateDict(Stripped(t)))]
      /\ _online_users' = _online_users

(* 03 *)
First(s, u) == CHOOSE i \in DOMAIN s : s[i] = u /\ \A j \in 1 .. i - 1 : s[j] # u
Erase(s, i) == SubSeq(s, 1, i - 1) \o SubSeq(s, i + 1, Len(s))
CheckUser(u) == IF u \in Range(_online_users) THEN _online_users ELSE Append(_online_users, u)
RemoveUser(u) ==
  IF u \in Range(_online_users) THEN Erase(_online_users, First(_online_users, u)) ELSE _online_users
(* Slip: who leaves is told so too, from the list as it was. *)
BroadcastToOld(users, message, who) ==
  inbox' = [u \in Users |-> IF u \in Range(_online_users) THEN Append(inbox[u], <<who>> \o message) ELSE inbox[u]]

Broadcast(users, message, who) ==
  inbox' = [u \in Users |-> IF u \in Range(users) THEN Append(inbox[u], <<who>> \o message) ELSE inbox[u]]

Chat(d) ==
  LET req == Stripped(Received(d.text))
  IN  /\ prog = "chat" /\ Received(d.text) # <<>>
      /\ \/ /\ req \in QuitWords
            /\ _online_users' = RemoveUser(d.from)
            /\ Broadcast(_online_users', <<"left">>, d.from)
         \/ /\ req \notin QuitWords
            /\ _online_users' = CheckUser(d.from)
            /\ Broadcast(_online_users', req, d.from)

(* n = 0: nothing is done. *)
Empty(d) == Received(d.text) = <<>> /\ UNCHANGED <<_online_users, inbox>>

Handle(d) ==
  /\ Reply(d) \/ Chat(d) \/ Empty(d)
  /\ wire' = wire \ {d}
  /\ heard' = Append(heard, d)
  /\ UNCHANGED <<prog, count>>

Next ==
  \/ \E u \in Users : Transmit(u)
  \/ \E d \in wire : Handle(d) \/ Lose(d)

-----------------------------------------------------------------------------
(* The chat as its users see it: after n datagrams those are in the room   *)
(* whose last one that had content was not a word for leaving.             *)
Speaks(n) == Received(heard[n].text) # <<>>
Leaves(n) == Stripped(Received(heard[n].text)) \in QuitWords
InRoom(u, n) ==
  \E i \in 1 .. n :
    /\ heard[i].from = u /\ Speaks(i) /\ ~Leaves(i)
    /\ \A j \in i + 1 .. n : heard[j].from = u /\ Speaks(j) => ~Leaves(j)

(* What is sent to u because of datagram n, and which of those it is.      *)
Concerns(u, n) ==
  Speaks(n) /\ IF prog = "chat" THEN InRoom(u, n) ELSE heard[n].from = u
Answer(n) ==
  LET t == Received(heard[n].text)
  IN  CASE prog = "echo" -> Echo(t)
        [] prog = "dict" -> TranslateDict(Stripped(t))
        [] prog = "chat" -> <<heard[n].from>> \o IF Leaves(n) THEN <<"left">> ELSE Stripped(t)
Concerning(u, n) == {m \in 1 .. n : Concerns(u, m)}
Place(u, n) == Cardinality(Concerning(u, n))

(* Each datagram goes once and in order to everyone in the room, its       *)
(* sender included, and to nobody else; 01 and 02 answer each to its       *)
(* sender.                                                                 *)
AnswersRight ==
  /\ prog = "chat" =>
       /\ IsInjective(_online_users)
       /\ Range(_online_users) = {u \in Users : InRoom(u, Len(heard))}
  /\ \A u \in Users :
       /\ Len(inbox[u]) = Place(u, Len(heard))
       /\ \A n \in Concerning(u, Len(heard)) : inbox[u][Place(u, n)] = Answer(n)
=============================================================================
