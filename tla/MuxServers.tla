----------------------------- MODULE MuxServers -----------------------------
(***************************************************************************)
(* The select server (11) and the poll server (12): one thread that waits  *)
(* for any of its descriptors and then goes through its table of them.     *)
(***************************************************************************)
EXTENDS TcpClients

CONSTANTS ReadMax,     \* sizeof(client_buf) - 1
          Fds,         \* descriptors left for connections
          Listener, NoFd

MuxServersAssumption ==
  /\ ReadMax \in Nat \ {0}
  /\ IsFiniteSet(Fds) /\ Fds \subseteq Nat \ {0}
  /\ {Listener, NoFd} \cap (Fds \cup {0}) = {} /\ Listener # NoFd

VARIABLES
  kind,        \* "select" or "poll"
  fdtab,       \* the open descriptors and whose they are
  table,       \* fds, poll_fds
  hits,        \* descriptors reported, in the set or in their slot's revents
  cur,         \* i; 0 outside a scan
  stdin,       \* 11: "open", "typed", "eof" or "closed"
  lost         \* connections accepted and forgotten

muxVars == <<kind, fdtab, table, hits, cur, stdin, lost>>
vars == <<hostVars, muxVars>>

Init ==
  /\ HostInit
  /\ \/ kind = "select" /\ table = <<0, Listener>>
     \/ kind = "poll" /\ table = <<Listener>>
  /\ fdtab = <<>> /\ hits = {} /\ cur = 0
  /\ stdin = "open" /\ lost = {}

FreeFds == (Fds \cup IF stdin = "closed" THEN {0} ELSE {}) \ DOMAIN fdtab
LowestFree == CHOOSE fd \in FreeFds : \A g \in FreeFds : fd <= g

Readable(fd) ==
  \/ fd = 0 /\ stdin \in {"typed", "eof"}
  \/ fd = Listener /\ backlog # <<>>
  \/ fd \in DOMAIN fdtab /\ (rx[fdtab[fd]] # <<>> \/ Ended(fdtab[fd]))

-----------------------------------------------------------------------------
(* A polite client leaves when all it sent has been read. *)
Client(c) ==
  /\ \/ Connect(c) \/ Send(c)
     \/ (c \in Polite => sent[c] = Len(Stream(c)) /\ rx[c] = <<>>) /\ Leave(c)
  /\ UNCHANGED muxVars

(* Somebody types a line or ends the input. *)
Type ==
  /\ kind = "select" /\ stdin = "open"
  /\ stdin' \in {"typed", "eof"}
  /\ UNCHANGED <<hostVars, kind, fdtab, table, hits, cur, lost>>

-----------------------------------------------------------------------------
(* select or poll returns; what it does not report is passed over. *)
Wait ==
  /\ cur = 0
  /\ hits' = {fd \in Range(table) : Readable(fd)}
  /\ hits' # {}
  /\ cur' = 1
  /\ UNCHANGED <<hostVars, kind, fdtab, table, stdin, lost>>

Skip ==
  /\ cur > 0
  /\ IF cur > Len(table) THEN cur' = 0 /\ hits' = {}
     ELSE table[cur] \notin hits /\ cur' = cur + 1 /\ hits' = hits
  /\ UNCHANGED <<hostVars, kind, fdtab, table, stdin, lost>>

Current(fd) == cur \in DOMAIN table /\ table[cur] = fd /\ fd \in hits

(* Slip: the free slot is found and not filled. *)
EnterUnfilled(fd) ==
  IF \E i \in DOMAIN table : table[i] = NoFd THEN table ELSE Append(table, fd)

(* The table with fd: poll takes the first free slot. *)
Enter(fd) ==
  LET free == {i \in DOMAIN table : table[i] = NoFd}
  IN  IF free = {} THEN Append(table, fd)
      ELSE [table EXCEPT ![CHOOSE i \in free : \A j \in free : i <= j] = fd]

(* accept(); select's > 0 drops the descriptor 0 it gets once stdin is     *)
(* closed.                                                                 *)
Accept ==
  /\ Current(Listener)
  /\ IF FreeFds = {} THEN UNCHANGED <<backlog, fdtab, table, hits, lost>>
     ELSE /\ backlog' = Tail(backlog)
          /\ fdtab' = [fd \in DOMAIN fdtab \cup {LowestFree} |->
                         IF fd = LowestFree THEN Head(backlog) ELSE fdtab[fd]]
          /\ IF LowestFree = 0
             THEN lost' = lost \cup {Head(backlog)} /\ table' = table
             ELSE lost' = lost /\ table' = Enter(LowestFree)
          /\ hits' = IF kind = "poll" THEN hits \ {LowestFree} ELSE hits
  /\ cur' = cur + 1
  /\ UNCHANGED <<peer, talk, sent, got, rx, tx, fin, rst, kind, stdin>>

(* read() > 0: the text is only shown. *)
Read(fd) ==
  /\ Current(fd)
  /\ \/ fd = 0 /\ stdin = "typed" /\ stdin' = "open" /\ rx' = rx
     \/ /\ fd \in DOMAIN fdtab /\ rx[fdtab[fd]] # <<>> /\ stdin' = stdin
        /\ LET c == fdtab[fd]
           IN  rx' = [rx EXCEPT ![c] = SubSeq(@, Len(Chunk(c, ReadMax)) + 1, Len(@))]
  /\ cur' = cur + 1
  /\ UNCHANGED <<peer, talk, sent, got, backlog, tx, fin, rst, kind, fdtab, table, hits, lost>>

(* Slip: the closed descriptor stays in the table. *)
DropNothing == table

(* read() returns 0 or fails: close() and erase(), or the slot is freed. *)
Drop ==
  IF kind = "poll" THEN [table EXCEPT ![cur] = NoFd]
  ELSE SubSeq(table, 1, cur - 1) \o SubSeq(table, cur + 1, Len(table))
After == IF kind = "poll" THEN cur + 1 ELSE cur

ReadEnds(fd) ==
  /\ Current(fd)
  /\ \/ fd = 0 /\ stdin = "eof" /\ stdin' = "closed" /\ fdtab' = fdtab
     \/ /\ fd \in DOMAIN fdtab /\ Ended(fdtab[fd]) /\ stdin' = stdin
        /\ fdtab' = [g \in DOMAIN fdtab \ {fd} |-> fdtab[g]]
  /\ table' = Drop /\ cur' = After
  /\ UNCHANGED <<hostVars, kind, hits, lost>>

Server ==
  \/ Wait \/ Skip \/ Accept
  \/ \E fd \in Fds \cup {0} : Read(fd) \/ ReadEnds(fd)

Next == Server \/ Type \/ \E c \in Clients : Client(c)

-----------------------------------------------------------------------------
(* The table names exactly the open descriptors, each once, so that no     *)
(* connection is deaf, none is read as another's and poll_fds does not     *)
(* grow with every client that ever came; one client at most is lost.      *)
DescriptorsAccounted ==
  LET listed == {i \in DOMAIN table : table[i] # NoFd}
  IN  /\ \A i, j \in listed : table[i] = table[j] => i = j
      /\ {table[i] : i \in listed} =
           {Listener} \cup (DOMAIN fdtab \ {0})
           \cup IF kind = "select" /\ stdin # "closed" THEN {0} ELSE {}
      /\ Len(table) <= Cardinality(Fds) + (IF kind = "select" THEN 2 ELSE 1)
      /\ \A c, d \in lost : c = d
      /\ lost # {} => stdin = "closed"

(* Whatever the others do, a polite client is heard to its end and its     *)
(* descriptor is closed, unless it is the one that is lost or the others   *)
(* keep all descriptors for ever.                                          *)
Served(c) == c \in lost \/ (peer[c] = "gone" /\ \A fd \in DOMAIN fdtab : fdtab[fd] # c)
Blocked(c) == FreeFds = {}
EveryoneServed == \A c \in Polite : <>Served(c) \/ <>[]Blocked(c)
=============================================================================
