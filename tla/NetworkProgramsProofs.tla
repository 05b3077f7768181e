----------------------- MODULE NetworkProgramsProofs -----------------------
(***************************************************************************)
(* What the network programs keep, for any clients, talks, descriptors and *)
(* sizes.                                                                  *)
(***************************************************************************)
EXTENDS NetworkPrograms, Lemmas

-----------------------------------------------------------------------------
(* One part at a time.                                                     *)

(* Nobody changes which part runs, and only its own steps are taken. *)
LEMMA OwnSteps ==
  ASSUME Next
  PROVE  /\ part' = part
         /\ part = "sess" => \/ Sess!Main \/ Sess!PoolTake
                             \/ \E c \in Callers : \/ Sess!Session(c) \/ Sess!Client(c)
                                                  \/ Sess!CommandEnds(c)
         /\ part = "mux" => \/ Mux!Server \/ Mux!Type
                            \/ \E c \in Clients : Mux!Client(c)
         /\ part = "echo" => Echo!Server \/ \E c \in Clients : Echo!Client(c)
         /\ part = "calc" => Calc!Server \/ \E c \in Callers : Calc!Client(c)
         /\ part = "http" => \/ Http!Accept
                             \/ \E c \in Clients : Http!Thread(c) \/ Http!Client(c)
         /\ part = "udp" => Udp!Next
         /\ part = "drive" => Drive!Next
  BY DEF Next, Server, Pool, Session, Client, Others, notSess, notMux, notEcho,
         notCalc, notHttp, notUdp, notDrive

(* A stuttering step changes no variable of any part. *)
LEMMA NoSteps ==
  ASSUME UNCHANGED all
  PROVE  /\ UNCHANGED <<part, host, conn, alive, failures, fdtab, inbuffer, heard>>
         /\ UNCHANGED <<ofSess, ofMux, ofEcho, ofCalc, ofHttp, ofUdp, ofDrive>>
  BY DEF all, shared

-----------------------------------------------------------------------------
(* The servers of 04 to 07.                                                *)

(* The accepting process has the descriptor of the connection it is at, a  *)
(* child only until it has forked, and who serves until the session ends:  *)
(* one of them as long as there is something to serve.                     *)
Held(c) ==
  /\ holders[c] \subseteq {"main", "child", "server"}
  /\ "main" \in holders[c] => conn = c /\ main \in {"serve", "fork", "close"}
  /\ "child" \in holders[c] => sess[c] \in {"forked", "serving", "running"}
  /\ "server" \in holders[c] => sess[c] \in {"serving", "running", "queued", "stuck"}
  /\ holders[c] # {} => sess[c] # "none"
  /\ sess[c] = "accepted" => main = "fork" /\ conn = c /\ "main" \in holders[c]
  /\ sess[c] = "forked" => "child" \in holders[c]
  /\ sess[c] \in {"serving", "running"} =>
       IF variant = "inline" THEN "main" \in holders[c]
       ELSE "server" \in holders[c] \/ "child" \in holders[c]
  /\ sess[c] = "queued" => "server" \in holders[c]
SessTypes ==
  /\ backlog \in Seq(Callers) /\ queue \in Seq(Callers) /\ DOMAIN peer = Callers
  /\ sess \in [Callers -> {"none", "accepted", "forked", "serving", "running",
                           "queued", "stuck", "done", "killed", "dropped"}]
  /\ holders \in [Callers -> SUBSET {"main", "child", "server"}]
  /\ copies \in [Callers -> SUBSET Callers]
  /\ main \in {"accept", "serve", "fork", "close", "wait"}
  /\ main # "accept" => conn \in Callers
SessControl ==
  /\ main = "serve" => variant = "inline" /\ sess[conn] = "serving"
  /\ main \in {"fork", "close", "wait"} => variant = "process"
  /\ main = "fork" => sess[conn] = "accepted"
  /\ queue # <<>> => variant = "pool"
  /\ variant = "inline" => \A c \in Callers :
       sess[c] # "forked" /\ (sess[c] = "serving" => main = "serve" /\ conn = c)

(* Who waits to be accepted has no session yet, who waits for a pool       *)
(* thread has one that has not begun.                                      *)
SessQueue ==
  /\ Once(backlog) /\ Once(queue)
  /\ \A c \in Members(backlog) : c \in Callers /\ peer[c] # "new" /\ sess[c] = "none"
  /\ \A c \in Members(queue) : c \in Callers /\ sess[c] = "queued"
  /\ \A c \in Callers : peer[c] = "new" => sess[c] = "none"

(* Commands run in 06 and 07, and have copies of what was accepted.        *)
SessCommands ==
  \A d \in Callers :
    /\ sess[d] = "running" => variant \in {"thread", "pool"}
    /\ copies[d] # {} => sess[d] = "running"
    /\ \A c \in copies[d] : sess[c] # "none"
SessInv ==
  /\ SessTypes /\ SessControl /\ SessQueue /\ SessCommands
  /\ \A c \in Callers : Held(c)

(* Nobody has a descriptor before the first connection. *)
LEMMA SessInit == Sess!Init => SessInv
  BY NoMembers DEF Sess!Init, Sess!HostInit, SessInv, SessTypes, SessControl, SessQueue,
                   SessCommands, Held

(* A step that has to do with a session that has begun leaves the queues. *)
LEMMA SessQueueKept ==
  ASSUME SessInv, UNCHANGED <<backlog, queue, peer>>,
         \A c \in Callers : sess[c] \in {"none", "queued"} => sess'[c] = sess[c]
  PROVE  SessQueue'
  BY DEF SessInv, SessQueue

(* A client's step does not concern the server's processes. *)
LEMMA SessClient ==
  ASSUME SessInv, NEW c \in Callers, Sess!Client(c)
  PROVE  SessInv'
  <1>1. UNCHANGED <<variant, main, conn, sess, holders, copies, queue>>
    BY DEF Sess!Client, Sess!serverVars, Sess!commandVars
  <1>2. \/ Sess!Connect(c)
        \/ backlog' = backlog /\ peer' = peer
        \/ backlog' = backlog /\ peer[c] # "new" /\ peer' = [peer EXCEPT ![c] = "gone"]
    BY DEF Sess!Client, Sess!Refuse, Sess!ClientWrite, Sess!ClientRead, Sess!ClientQuit,
           Sess!Send, Sess!Receive, Sess!Leave
  <1>3. backlog' \in Seq(Callers) /\ DOMAIN peer' = Callers /\ SessQueue'
    <2>1. CASE Sess!Connect(c)
      <3>1. /\ backlog' = Append(backlog, c) /\ peer[c] = "new"
            /\ peer' = [peer EXCEPT ![c] = "open"]
        BY <2>1 DEF Sess!Connect
      <3>2. c \notin Members(backlog) /\ sess[c] = "none" BY <3>1 DEF SessInv, SessQueue
      <3>3. /\ backlog' \in Seq(Callers) /\ Members(backlog') = Members(backlog) \cup {c}
            /\ Once(backlog')
        <4>1. backlog \in Seq(Callers) /\ Once(backlog)
          BY DEF SessInv, SessTypes, SessQueue
        <4> QED BY <3>1, <3>2, <4>1, AppendedMember
      <3>4. /\ DOMAIN peer' = Callers /\ peer'[c] = "open"
            /\ \A d \in Callers \ {c} : peer'[d] = peer[d]
        BY <3>1 DEF SessInv, SessTypes
      <3>5. \A d \in Members(backlog') : d \in Callers /\ peer'[d] # "new" /\ sess'[d] = "none"
        BY <1>1, <3>2, <3>3, <3>4 DEF SessInv, SessQueue
      <3>6. SessQueue' BY <1>1, <3>3, <3>4, <3>5 DEF SessInv, SessQueue
      <3> QED BY <3>3, <3>4, <3>6
    <2>2. CASE backlog' = backlog /\ peer' = peer
      BY <1>1, <2>2 DEF SessInv, SessTypes, SessQueue
    <2>3. CASE backlog' = backlog /\ peer[c] # "new" /\ peer' = [peer EXCEPT ![c] = "gone"]
      <3>1. \A d : peer'[d] = "new" => peer[d] = "new" BY <2>3
      <3>2. \A d : peer[d] # "new" => peer'[d] # "new" BY <2>3
      <3> QED BY <1>1, <2>3, <3>1, <3>2 DEF SessInv, SessTypes, SessQueue
    <2> QED BY <1>2, <2>1, <2>2, <2>3
  <1> QED BY <1>1, <1>3 DEF SessInv, SessTypes, SessControl, SessCommands, Held

(* accept(), and the first steps of whoever serves the connection. *)
LEMMA SessAccept ==
  ASSUME SessInv,
         \/ Sess!AcceptInline \/ Sess!AcceptProcess \/ Sess!AcceptThread \/ Sess!AcceptPool
  PROVE  SessInv' /\ \A c \in Callers : sess'[c] = "running" <=> sess[c] = "running"
  <1>1. /\ backlog # <<>> /\ main = "accept" /\ backlog' = Tail(backlog)
        /\ UNCHANGED <<variant, copies, peer>>
    BY DEF Sess!AcceptInline, Sess!AcceptProcess, Sess!AcceptThread, Sess!AcceptPool,
           Sess!Accepting, Sess!commandVars
  <1>2. /\ Head(backlog) \in Callers /\ backlog' \in Seq(Callers) /\ Once(backlog')
        /\ Members(backlog) = {Head(backlog)} \cup Members(backlog')
        /\ Head(backlog) \notin Members(backlog')
    <2>1. backlog \in Seq(Callers) /\ Once(backlog) BY DEF SessInv, SessTypes, SessQueue
    <2> QED BY <1>1, <2>1, FirstMember
  <1> PICK c \in Callers : c = Head(backlog)
    BY <1>2
  <1>3. sess[c] = "none" /\ peer[c] # "new" BY <1>2 DEF SessInv, SessQueue
  <1>4. SessTypes /\ SessControl /\ SessCommands /\ \A d \in Callers : Held(d)
    BY DEF SessInv
  <1>5. ASSUME NEW how \in {"accepted", "serving", "stuck", "queued"},
               sess' = [sess EXCEPT ![c] = how],
               queue' = queue \/ (queue' = Append(queue, c) /\ how = "queued")
        PROVE  SessQueue' /\ SessCommands' /\ queue' \in Seq(Callers)
               /\ \A d \in Callers : sess'[d] = "running" <=> sess[d] = "running"
    <2>1. sess'[c] = how /\ \A d \in Callers \ {c} : sess'[d] = sess[d]
      BY <1>4, <1>5 DEF SessTypes
    <2>2. c \notin Members(queue) BY <1>3 DEF SessInv, SessQueue
    <2>3. /\ queue' \in Seq(Callers) /\ Once(queue')
          /\ \A d \in Members(queue') : d \in Members(queue) \/ (d = c /\ how = "queued")
      <3>1. queue \in Seq(Callers) /\ Once(queue) BY DEF SessInv, SessTypes, SessQueue
      <3>2. CASE queue' = queue BY <3>1, <3>2
      <3>3. CASE queue' = Append(queue, c) /\ how = "queued"
        BY <2>2, <3>1, <3>3, AppendedMember
      <3> QED BY <1>5, <3>2, <3>3
    <2>4. \A d \in Members(queue') : d \in Callers /\ sess'[d] = "queued"
      BY <2>1, <2>2, <2>3 DEF SessInv, SessQueue
    <2>5. \A d \in Members(backlog') : d \in Callers /\ peer'[d] # "new" /\ sess'[d] = "none"
      BY <1>1, <1>2, <2>1 DEF SessInv, SessQueue
    <2>6. \A d \in Callers : peer'[d] = "new" => sess'[d] = "none"
      BY <1>1, <1>3, <2>1 DEF SessInv, SessQueue
    <2>7. SessQueue' BY <1>2, <2>3, <2>4, <2>5, <2>6 DEF SessQueue
    <2>8. SessCommands' BY <1>1, <1>3, <1>4, <2>1 DEF SessTypes, SessCommands
    <2> QED BY <1>3, <2>1, <2>3, <2>7, <2>8
  <1>6. CASE Sess!AcceptInline
    <2>1. /\ sess' = [sess EXCEPT ![c] = "serving"] /\ queue' = queue
          /\ holders' = [holders EXCEPT ![c] = {"main"}] /\ main' = "serve" /\ conn' = c
          /\ variant = "inline"
      BY <1>6 DEF Sess!AcceptInline, Sess!Accepting
    <2>2. SessQueue' /\ SessCommands' /\ queue' \in Seq(Callers)
          /\ \A d \in Callers : sess'[d] = "running" <=> sess[d] = "running"
      BY <1>5, <2>1
    <2>3. SessTypes' /\ SessControl' /\ \A d \in Callers : Held(d)'
      BY <1>1, <1>2, <1>4, <2>1, <2>2 DEF SessTypes, SessControl, Held
    <2> QED BY <2>2, <2>3 DEF SessInv
  <1>7. CASE Sess!AcceptProcess
    <2>1. /\ sess' = [sess EXCEPT ![c] = "accepted"] /\ queue' = queue
          /\ holders' = [holders EXCEPT ![c] = {"main"}] /\ main' = "fork" /\ conn' = c
          /\ variant = "process"
      BY <1>7 DEF Sess!AcceptProcess, Sess!Accepting
    <2>2. SessQueue' /\ SessCommands' /\ queue' \in Seq(Callers)
          /\ \A d \in Callers : sess'[d] = "running" <=> sess[d] = "running"
      BY <1>5, <2>1
    <2>3. SessTypes' /\ SessControl' /\ \A d \in Callers : Held(d)'
      BY <1>1, <1>2, <1>4, <2>1, <2>2 DEF SessTypes, SessControl, Held
    <2> QED BY <2>2, <2>3 DEF SessInv
  <1>8. CASE Sess!AcceptThread \/ Sess!AcceptPool
    <2>1. PICK how \in {"serving", "stuck", "queued"} :
            /\ sess' = [sess EXCEPT ![c] = how] /\ UNCHANGED <<main, conn>>
            /\ holders' = [holders EXCEPT ![c] = {"server"}]
            /\ queue' = queue \/ (queue' = Append(queue, c) /\ how = "queued"
                                  /\ variant = "pool")
            /\ variant \in {"thread", "pool"}
      BY <1>8 DEF Sess!AcceptThread, Sess!AcceptPool, Sess!Accepting
    <2>2. SessQueue' /\ SessCommands' /\ queue' \in Seq(Callers)
          /\ \A d \in Callers : sess'[d] = "running" <=> sess[d] = "running"
      BY <1>5, <2>1
    <2>3. SessTypes' /\ SessControl' /\ \A d \in Callers : Held(d)'
      BY <1>1, <1>2, <1>4, <2>1, <2>2 DEF SessTypes, SessControl, Held
    <2> QED BY <2>2, <2>3 DEF SessInv
  <1> QED
    BY <1>6, <1>7, <1>8

(* The steps of the parent and the child between accept() and the session. *)
LEMMA SessFork ==
  ASSUME SessInv,
         \/ Sess!Fork \/ Sess!ForkFails \/ Sess!MainCloses \/ Sess!MainWaited
         \/ \E c \in Callers : Sess!SecondFork(c) \/ Sess!SecondForkFails(c)
  PROVE  SessInv' /\ \A c \in Callers : sess'[c] = "running" <=> sess[c] = "running"
  <1>0. UNCHANGED <<backlog, queue, variant, peer, copies>>
    BY DEF Sess!Fork, Sess!ForkFails, Sess!MainCloses, Sess!MainWaited,
           Sess!SecondFork, Sess!SecondForkFails, Sess!hostVars, Sess!commandVars
  <1>1. CASE Sess!Fork \/ Sess!ForkFails
    <2>1. PICK how \in {"forked", "dropped"} : sess' = [sess EXCEPT ![conn] = how]
      BY <1>1 DEF Sess!Fork, Sess!ForkFails
    <2>2. sess[conn] = "accepted" /\ conn \in Callers
      BY <1>1 DEF Sess!Fork, Sess!ForkFails, SessInv, SessTypes, SessControl
    <2>3. sess'[conn] = how /\ \A d \in Callers \ {conn} : sess'[d] = sess[d]
      BY <2>1, <2>2 DEF SessInv, SessTypes
    <2>4. SessQueue' BY <1>0, <2>2, <2>3, SessQueueKept
    <2>5. \A c \in Callers : /\ sess'[c] = "running" <=> sess[c] = "running"
                             /\ sess[c] # "none" => sess'[c] # "none"
      BY <2>2, <2>3
    <2>6. SessCommands' BY <1>0, <2>5 DEF SessInv, SessTypes, SessCommands
    <2>7. SessTypes' /\ SessControl' /\ \A d \in Callers : Held(d)'
      BY <1>0, <1>1 DEF Sess!Fork, Sess!ForkFails, SessInv, SessTypes, SessControl, Held
    <2> QED BY <2>4, <2>5, <2>6, <2>7 DEF SessInv
  <1>2. CASE Sess!MainCloses \/ Sess!MainWaited
    <2>1. sess' = sess BY <1>2 DEF Sess!MainCloses, Sess!MainWaited
    <2>2. SessQueue' /\ SessCommands' BY <1>0, <2>1 DEF SessInv, SessQueue, SessCommands
    <2>3. SessTypes' /\ SessControl' /\ \A d \in Callers : Held(d)'
      BY <1>0, <1>2 DEF Sess!MainCloses, Sess!MainWaited, SessInv, SessTypes,
                        SessControl, Held
    <2> QED BY <2>1, <2>2, <2>3 DEF SessInv
  <1>3. ASSUME NEW c \in Callers, Sess!SecondFork(c) \/ Sess!SecondForkFails(c)
        PROVE  SessInv' /\ \A d \in Callers : sess'[d] = "running" <=> sess[d] = "running"
    <2>1. sess[c] = "forked" /\ sess' = [sess EXCEPT ![c] = "serving"]
      BY <1>3 DEF Sess!SecondFork, Sess!SecondForkFails
    <2>2. sess'[c] = "serving" /\ \A d \in Callers \ {c} : sess'[d] = sess[d]
      BY <2>1 DEF SessInv, SessTypes
    <2>3. SessQueue' BY <1>0, <2>1, <2>2, SessQueueKept
    <2>4. SessCommands' BY <1>0, <2>1, <2>2 DEF SessInv, SessTypes, SessCommands
    <2>5. SessTypes' /\ SessControl' /\ \A d \in Callers : Held(d)'
      BY <1>0, <1>3 DEF Sess!SecondFork, Sess!SecondForkFails, SessInv, SessTypes,
                        SessControl, Held
    <2> QED BY <2>1, <2>2, <2>3, <2>4, <2>5 DEF SessInv
  <1> QED
    BY <1>1, <1>2, <1>3

(* A pool thread takes the oldest session. *)
LEMMA SessTake ==
  ASSUME SessInv, Sess!PoolTake
  PROVE  SessInv' /\ \A c \in Callers : sess'[c] = "running" <=> sess[c] = "running"
  <1>1. /\ queue # <<>> /\ queue' = Tail(queue)
        /\ UNCHANGED <<backlog, variant, main, conn, holders, copies, peer>>
    BY DEF Sess!PoolTake, Sess!hostVars, Sess!commandVars
  <1>2. /\ Head(queue) \in Callers /\ queue' \in Seq(Callers) /\ Once(queue')
        /\ Members(queue) = {Head(queue)} \cup Members(queue')
        /\ Head(queue) \notin Members(queue')
    <2>1. queue \in Seq(Callers) /\ Once(queue) BY DEF SessInv, SessTypes, SessQueue
    <2> QED BY <1>1, <2>1, FirstMember
  <1> PICK c \in Callers : c = Head(queue)
    BY <1>2
  <1>3. sess' = [sess EXCEPT ![c] = "serving"] /\ sess[c] = "queued"
    BY <1>2 DEF Sess!PoolTake, SessInv, SessQueue
  <1>4. sess'[c] = "serving" /\ \A d \in Callers \ {c} : sess'[d] = sess[d]
    BY <1>3 DEF SessInv, SessTypes
  <1>5. SessQueue' BY <1>1, <1>2, <1>3, <1>4 DEF SessInv, SessQueue
  <1>6. SessCommands' BY <1>1, <1>3, <1>4 DEF SessInv, SessTypes, SessCommands
  <1>7. SessTypes' /\ SessControl' /\ \A d \in Callers : Held(d)'
    BY <1>1, <1>2, <1>3 DEF SessInv, SessTypes, SessControl, Held
  <1> QED
    BY <1>3, <1>4, <1>5, <1>6, <1>7 DEF SessInv

(* A session reads, answers and ends. *)
LEMMA SessServe ==
  ASSUME SessInv, NEW c \in Callers,
         Sess!SessionRead(c) \/ Sess!SessionReset(c) \/ Sess!SessionEnd(c)
  PROVE  SessInv' /\ \A d \in Callers : sess'[d] = "running" <=> sess[d] = "running"
  <1>0. sess[c] = "serving" /\ UNCHANGED <<backlog, queue, variant, copies, peer>>
    BY DEF Sess!SessionRead, Sess!SessionReset, Sess!SessionEnd, Sess!hostVars,
           Sess!serverVars, Sess!commandVars
  <1>1. ASSUME NEW how \in {"done", "killed"}, Sess!Finish(c, how)
        PROVE  SessInv' /\ \A d \in Callers : sess'[d] = "running" <=> sess[d] = "running"
    <2>1. sess' = [sess EXCEPT ![c] = how] BY <1>1 DEF Sess!Finish
    <2>2. sess'[c] = how /\ \A d \in Callers \ {c} : sess'[d] = sess[d]
      BY <2>1 DEF SessInv, SessTypes
    <2>3. SessQueue' BY <1>0, <2>2, SessQueueKept
    <2>4. SessCommands' BY <1>0, <2>2 DEF SessInv, SessTypes, SessCommands
    <2>5. SessTypes' /\ SessControl' /\ \A d \in Callers : Held(d)'
      BY <1>0, <1>1 DEF Sess!Finish, SessInv, SessTypes, SessControl, Held
    <2> QED BY <1>0, <2>2, <2>3, <2>4, <2>5 DEF SessInv
  <1>2. CASE UNCHANGED <<sess, holders, main, conn>>
    BY <1>0, <1>2 DEF SessInv, SessTypes, SessControl, SessQueue, SessCommands, Held
  <1> QED
    BY <1>1, <1>2 DEF Sess!SessionRead, Sess!SessionReset, Sess!SessionEnd,
                      Sess!serverVars

(* A command starts with copies of what is open, and ends. *)
LEMMA SessCommand ==
  ASSUME SessInv, NEW c \in Callers, Sess!CommandStarts(c) \/ Sess!CommandEnds(c)
  PROVE  SessInv'
  <1>0. UNCHANGED <<backlog, queue, variant, main, conn, holders, peer>>
    BY DEF Sess!CommandStarts, Sess!CommandEnds
  <1>1. PICK how \in {"serving", "running"} : sess' = [sess EXCEPT ![c] = how]
    BY DEF Sess!CommandStarts, Sess!CommandEnds
  <1>2. /\ sess[c] \in {"serving", "running"} /\ sess'[c] = how
        /\ \A d \in Callers \ {c} : sess'[d] = sess[d]
    BY <1>1 DEF Sess!CommandStarts, Sess!CommandEnds, SessInv, SessTypes
  <1>3. variant \in {"thread", "pool"}
    BY DEF Sess!CommandStarts, Sess!CommandEnds, Sess!SafeCheck, SessInv, SessCommands
  <1>4. /\ copies' \in [Callers -> SUBSET Callers]
        /\ \A d \in Callers \ {c} : copies'[d] = copies[d]
        /\ copies'[c] # {} => how = "running"
        /\ \A d \in copies'[c] : holders[d] # {}
    <2>1. CASE Sess!CommandStarts(c)
      <3>1. copies' = [copies EXCEPT ![c] = {d \in Callers : holders[d] # {}}]
            /\ sess' = [sess EXCEPT ![c] = "running"]
        BY <2>1 DEF Sess!CommandStarts
      <3>2. how = "running" BY <1>2, <3>1 DEF SessInv, SessTypes
      <3> QED BY <3>1, <3>2 DEF SessInv, SessTypes
    <2>2. CASE Sess!CommandEnds(c)
      BY <2>2 DEF Sess!CommandEnds, SessInv, SessTypes
    <2> QED BY <2>1, <2>2
  <1>5. SessQueue' BY <1>0, <1>2, SessQueueKept
  <1>6. SessCommands'
    BY <1>0, <1>2, <1>3, <1>4 DEF SessInv, SessTypes, SessCommands, Held
  <1>7. SessTypes' /\ SessControl' /\ \A d \in Callers : Held(d)'
    BY <1>0, <1>1, <1>2, <1>3, <1>4 DEF SessInv, SessTypes, SessControl, Held
  <1> QED
    BY <1>5, <1>6, <1>7 DEF SessInv

(* Every step of the part keeps its invariant. *)
LEMMA SessNext ==
  ASSUME SessInv,
         \/ Sess!Main \/ Sess!PoolTake
         \/ \E c \in Callers : Sess!Session(c) \/ Sess!Client(c) \/ Sess!CommandEnds(c)
  PROVE  SessInv'
  BY SessClient, SessAccept, SessFork, SessTake, SessServe, SessCommand
     DEF Sess!Main, Sess!Session

(* What is open at the end of a session is only what the invariant allows. *)
LEMMA SessDescriptors == SessInv => Sess!DescriptorsAccounted
  BY DEF SessInv, SessTypes, SessControl, SessCommands, Held, Sess!DescriptorsAccounted

(* What is said on a connection of 04 to 07. *)
Spoken == STRING \cup {"echo", "refused", "failed", "out"}

(* What each piece of the stream s may be answered with. *)
Ways(v, s) ==
  [k \in 1 .. Len(s) |-> [i \in 1 .. Len(s) |->
    IF i - k < SessRead THEN Sess!Answers(v, SubSeq(s, k, i)) ELSE {}]]
Stream(t, c) == Flat(t[c])

(* The command of a session is the piece it has read last, which is still  *)
(* to be answered.                                                         *)
Commanded(c) ==
  IF sess[c] = "running"
  THEN cmd[c] # <<>> /\ Len(cmd[c]) <= SessRead /\ Sess!SafeCheck(variant, cmd[c])
  ELSE cmd[c] = <<>>

(* The conversation of each connection is right so far: p is what was read *)
(* and not answered, as long as somebody lives to answer it.               *)
Conversed(c) ==
  \E p \in Seq(STRING) :
    /\ alive => p = cmd[c]
    /\ Says(Ways(variant, Stream(talk, c)), Spoken, Stream(talk, c), sent[c], p \o rx[c],
            got[c], tx[c], c \in rst)
SaysTypes ==
  /\ talk \in SessTalks
  /\ sent \in [Callers -> Nat] /\ DOMAIN got = Callers /\ DOMAIN tx = Callers
  /\ rx \in [Callers -> Seq(STRING)] /\ cmd \in [Callers -> Seq(STRING)]
SaysInv == SaysTypes /\ \A c \in Callers : Commanded(c) /\ Conversed(c)

(* The streams are of strings. *)
LEMMA TalksTyped ==
  ASSUME NEW t \in SessTalks, NEW c \in Callers
  PROVE  /\ Stream(t, c) \in Seq(STRING) /\ Len(Stream(t, c)) \in Nat
         /\ Sess!FlattenSeq(t[c]) = Stream(t, c)
  <1>1. t[c] \in Seq(Seq(STRING))
    BY NetworkProgramsAssumption DEF Sess!SessionServersAssumption
  <1>2. <<>> \in Seq(STRING) OBVIOUS
  <1>3. Flat(t[c]) \in Seq(STRING) BY <1>1, <1>2, FlatAppended
  <1>4. Sess!FlattenSeq(t[c]) = Flat(t[c]) BY DEF Sess!FlattenSeq, Flat
  <1> QED BY <1>3, <1>4 DEF Stream

(* Answers are said in the same words. *)
LEMMA AnswersTyped ==
  ASSUME NEW s \in Seq(Spoken), NEW v, NEW a \in Sess!Answers(v, s)
  PROVE  a \in Seq(Spoken)
  <1>1. ASSUME NEW e \in {"echo", "refused", "failed", "out"}
        PROVE  <<e>> \in Seq(Spoken)
    BY DEF Spoken
  <1>2. ASSUME NEW e \in {"echo", "refused", "failed", "out"}, NEW u \in Seq(Spoken)
        PROVE  <<e>> \o u \in Seq(Spoken)
    <2>1. <<e>> \in Seq(Spoken) BY <1>1
    <2> QED BY <2>1, Concatenation
  <1>3. Sess!Strip(s) \in Seq(Spoken)
    <2> DEFINE N == {0} \cup {i \in DOMAIN s : s[i] # "nl"}
               P == {Len(s) - i : i \in N}
    <2>1. Len(s) \in Nat /\ \A i \in N : i \in 0 .. Len(s) OBVIOUS
    <2>2. P \in SUBSET Nat /\ P # {} BY <2>1
    <2>3. \E i \in N : \A j \in N : i >= j
      <3>1. PICK p \in P : \A q \in P : p <= q
        <4> HIDE DEF P
        <4> QED BY <2>2, LeastMember
      <3>2. PICK i \in N : p = Len(s) - i BY <3>1
      <3>3. ASSUME NEW j \in N PROVE i >= j
        <4>1. Len(s) - j \in P OBVIOUS
        <4>2. p <= Len(s) - j BY <3>1, <4>1
        <4>3. i \in 0 .. Len(s) /\ j \in 0 .. Len(s) BY <2>1, <3>2
        <4> QED BY <2>1, <3>2, <4>2, <4>3
      <3> QED BY <3>2, <3>3
    <2>4. PICK n : n = Sess!Max(N) OBVIOUS
    <2>5. n \in N
      <3> HIDE DEF N
      <3> QED BY <2>3, <2>4 DEF Sess!Max
    <2>6. n \in 0 .. Len(s) BY <2>1, <2>5
    <2>7. Sess!Strip(s) = SubSeq(s, 1, n) BY <2>4 DEF Sess!Strip
    <2> QED BY <2>6, <2>7, CutInTwo
  <1>4. \/ \E u \in Seq(Spoken) : a = <<"echo">> \o u \/ a = <<"out">> \o u
        \/ a = <<>> \/ a = <<"refused">> \/ a = <<"failed">>
    BY <1>3 DEF Sess!Answers, Sess!Prompt, Sess!Output
  <1>5. <<>> \in Seq(Spoken) OBVIOUS
  <1> QED BY <1>1, <1>2, <1>4, <1>5

(* Nobody has said anything at first. *)
LEMMA SaysInit == Sess!Init => SaysInv
  <1> SUFFICES ASSUME Sess!Init PROVE SaysInv OBVIOUS
  <1>1. /\ talk \in SessTalks /\ sent = [c \in Callers |-> 0] /\ rst = {}
        /\ got = [c \in Callers |-> <<>>] /\ rx = [c \in Callers |-> <<>>]
        /\ tx = [c \in Callers |-> <<>>] /\ cmd = [c \in Callers |-> <<>>]
        /\ sess = [c \in Callers |-> "none"]
    BY DEF Sess!Init, Sess!HostInit
  <1>2. <<>> \in Seq(STRING) /\ <<>> \o <<>> = <<>> OBVIOUS
  <1>3. ASSUME NEW c \in Callers PROVE Commanded(c) /\ Conversed(c)
    <2>1. Says(Ways(variant, Stream(talk, c)), Spoken, Stream(talk, c), 0, <<>>,
               <<>>, <<>>, FALSE)
      BY <1>1, TalksTyped, SaysBegin
    <2>2. (c \in rst) = FALSE /\ sent[c] = 0 /\ <<>> \o rx[c] = <<>> /\ got[c] = <<>>
          /\ tx[c] = <<>> /\ cmd[c] = <<>> /\ sess[c] = "none"
      BY <1>1, <1>2
    <2>3. Says(Ways(variant, Stream(talk, c)), Spoken, Stream(talk, c), sent[c], <<>> \o rx[c],
               got[c], tx[c], c \in rst)
      BY <2>1, <2>2
    <2> QED BY <1>2, <2>2, <2>3 DEF Commanded, Conversed
  <1>4. SaysTypes BY <1>1, <1>2 DEF SaysTypes
  <1> QED BY <1>3, <1>4 DEF SaysInv

(* A step that concerns c alone keeps the others' conversations. *)
LEMMA SaysOne ==
  ASSUME SaysInv, NEW c \in Callers, talk' = talk, variant' = variant, alive' => alive,
         \A d \in Callers \ {c} :
           /\ sent'[d] = sent[d] /\ rx'[d] = rx[d] /\ got'[d] = got[d] /\ tx'[d] = tx[d]
           /\ cmd'[d] = cmd[d] /\ (d \in rst') = (d \in rst)
           /\ sess'[d] = "running" <=> sess[d] = "running",
         SaysTypes', Commanded(c)', Conversed(c)'
  PROVE  SaysInv'
  <1>1. ASSUME NEW d \in Callers, d # c PROVE Commanded(d)' /\ Conversed(d)'
    <2>1. Commanded(d) /\ Conversed(d) BY DEF SaysInv
    <2>2. Commanded(d)' BY <1>1, <2>1 DEF Commanded
    <2>3. PICK p \in Seq(STRING) :
            /\ alive => p = cmd[d]
            /\ Says(Ways(variant, Stream(talk, d)), Spoken, Stream(talk, d), sent[d],
                    p \o rx[d], got[d], tx[d], d \in rst)
      BY <2>1 DEF Conversed
    <2>4. Says(Ways(variant', Stream(talk', d)), Spoken, Stream(talk', d), sent'[d],
               p \o rx'[d], got'[d], tx'[d], d \in rst')
      BY <1>1, <2>3
    <2>5. alive' => p = cmd'[d] BY <1>1, <2>3
    <2> QED BY <2>2, <2>4, <2>5 DEF Conversed
  <1>2. \A d \in Callers : Commanded(d)' /\ Conversed(d)' BY <1>1
  <1> QED BY <1>2 DEF SaysInv

(* What a client does. *)
LEMMA SaysClient ==
  ASSUME SaysInv, NEW c \in Callers, Sess!Client(c)
  PROVE  SaysInv'
  <1> DEFINE s == Stream(talk, c)
             A == Ways(variant, s)
  <1>0. UNCHANGED <<talk, variant, sess, cmd, alive>>
    BY DEF Sess!Client, Sess!Connect, Sess!Refuse, Sess!ClientWrite, Sess!ClientRead,
           Sess!ClientQuit, Sess!Send, Sess!Receive, Sess!Leave, Sess!serverVars,
           Sess!commandVars
  <1>1. \/ UNCHANGED <<sent, got, rx, tx, rst>>
        \/ Sess!Refuse(c) \/ Sess!Send(c) \/ Sess!Receive(c, SessRead) \/ Sess!Leave(c)
    BY DEF Sess!Client, Sess!Connect, Sess!ClientWrite, Sess!ClientRead, Sess!ClientQuit
  <1>2. /\ s \in Seq(STRING) /\ Len(s) \in Nat /\ Sess!Stream(c) = s
        /\ SessRead \in Nat \ {0}
    BY TalksTyped, NetworkProgramsAssumption
       DEF SaysInv, SaysTypes, Sess!Stream, Sess!SessionServersAssumption
  <1>9. PICK p \in Seq(STRING) :
          /\ alive => p = cmd[c]
          /\ Says(A, Spoken, s, sent[c], p \o rx[c], got[c], tx[c], c \in rst)
    BY DEF SaysInv, Conversed
  <1>4. sent \in [Callers -> Nat] /\ DOMAIN got = Callers /\ DOMAIN tx = Callers
        /\ rx \in [Callers -> Seq(STRING)] /\ cmd \in [Callers -> Seq(STRING)]
        /\ talk \in SessTalks
    BY DEF SaysInv, SaysTypes
  <1>3. ASSUME \A d \in Callers \ {c} :
                 /\ sent'[d] = sent[d] /\ rx'[d] = rx[d] /\ got'[d] = got[d]
                 /\ tx'[d] = tx[d] /\ (d \in rst') = (d \in rst),
               sent' \in [Callers -> Nat], DOMAIN got' = Callers,
               rx' \in [Callers -> Seq(STRING)], DOMAIN tx' = Callers,
               Says(A, Spoken, s, sent'[c], p \o rx'[c], got'[c], tx'[c], c \in rst')
        PROVE  SaysInv'
    <2>1. SaysTypes' BY <1>0, <1>3, <1>4 DEF SaysTypes
    <2>2. Commanded(c)' BY <1>0 DEF SaysInv, Commanded
    <2>3. Conversed(c)' BY <1>0, <1>3, <1>9 DEF Conversed
    <2> QED BY <1>0, <1>3, <2>1, <2>2, <2>3, SaysOne
  <1> HIDE DEF A, s
  <1>5. CASE UNCHANGED <<sent, got, rx, tx, rst>>
    BY <1>3, <1>4, <1>5, <1>9
  <1>6. CASE Sess!Send(c)
    <2>1. /\ sent[c] < Len(s) /\ sent' = [sent EXCEPT ![c] = sent[c] + 1]
          /\ rx' = [rx EXCEPT ![c] = Append(rx[c], s[sent'[c]])]
          /\ UNCHANGED <<got, tx, rst>>
      BY <1>2, <1>6 DEF Sess!Send
    <2>2. sent'[c] = sent[c] + 1 /\ sent' \in [Callers -> Nat] BY <1>4, <2>1
    <2>3. Says(A, Spoken, s, sent[c] + 1, Append(p \o rx[c], s[sent[c] + 1]), got[c], tx[c],
               c \in rst)
      BY <1>2, <1>9, <2>1, SaysSend
    <2>4. s[sent[c] + 1] \in STRING BY <1>2, <1>4, <2>1
    <2>5. rx'[c] = Append(rx[c], s[sent[c] + 1]) /\ rx' \in [Callers -> Seq(STRING)]
          /\ \A d \in Callers \ {c} : sent'[d] = sent[d] /\ rx'[d] = rx[d]
      BY <1>4, <2>1, <2>2, <2>4
    <2>6. p \o rx'[c] = Append(p \o rx[c], s[sent[c] + 1])
      <3>1. rx[c] \in Seq(STRING) BY <1>4
      <3> QED BY <2>4, <2>5, <3>1, ComesAfter
    <2> QED BY <1>3, <1>4, <2>1, <2>2, <2>3, <2>5, <2>6
  <1>7. CASE Sess!Receive(c, SessRead)
    <2>1. PICK m : m = IF Len(tx[c]) < SessRead THEN Len(tx[c]) ELSE SessRead OBVIOUS
    <2>2. /\ tx[c] # <<>>
          /\ got' = [got EXCEPT ![c] = Append(got[c], SubSeq(tx[c], 1, m))]
          /\ tx' = [tx EXCEPT ![c] = SubSeq(tx[c], m + 1, Len(tx[c]))]
          /\ UNCHANGED <<sent, rx, rst>>
      BY <1>7, <2>1 DEF Sess!Receive
    <2>3. m \in 0 .. Len(tx[c])
      <3>1. tx[c] \in Seq(Spoken) BY <1>9 DEF Says
      <3>2. Len(tx[c]) \in Nat BY <3>1
      <3> QED BY <1>2, <2>1, <3>2
    <2>4. Says(A, Spoken, s, sent[c], p \o rx[c], Append(got[c], SubSeq(tx[c], 1, m)),
               SubSeq(tx[c], m + 1, Len(tx[c])), c \in rst)
      BY <1>9, <2>2, <2>3, SaysReceive
    <2>5. /\ got'[c] = Append(got[c], SubSeq(tx[c], 1, m)) /\ DOMAIN got' = Callers
          /\ tx'[c] = SubSeq(tx[c], m + 1, Len(tx[c])) /\ DOMAIN tx' = Callers
          /\ \A d \in Callers \ {c} : got'[d] = got[d] /\ tx'[d] = tx[d]
      BY <1>4, <2>2
    <2> QED BY <1>3, <1>4, <2>2, <2>4, <2>5
  <1>8. CASE Sess!Leave(c) \/ Sess!Refuse(c)
    <2>1. /\ tx' = [tx EXCEPT ![c] = <<>>] /\ UNCHANGED <<sent, got, rx>>
          /\ rst' = IF tx[c] = <<>> THEN rst ELSE rst \cup {c}
      BY <1>8 DEF Sess!Leave, Sess!Refuse
    <2>2. /\ tx'[c] = <<>> /\ DOMAIN tx' = Callers
          /\ \A d \in Callers \ {c} : tx'[d] = tx[d] /\ (d \in rst') = (d \in rst)
      BY <1>4, <2>1
    <2>3. Says(A, Spoken, s, sent[c], p \o rx[c], got[c], <<>>, c \in rst')
      <3>1. CASE tx[c] = <<>>
        BY <1>9, <2>1, <3>1
      <3>2. CASE tx[c] # <<>>
        <4>1. Says(A, Spoken, s, sent[c], p \o rx[c], got[c], <<>>, TRUE)
          BY <1>2, <1>9, <3>2, SaysLeave
        <4>2. (c \in rst') = TRUE BY <2>1, <3>2
        <4> QED BY <4>1, <4>2
      <3> QED BY <3>1, <3>2
    <2> QED BY <1>3, <1>4, <2>1, <2>2, <2>3
  <1> QED BY <1>1, <1>5, <1>6, <1>7, <1>8

(* The m units that were read first are answered with a. *)
LEMMA SaysAnswered ==
  ASSUME SaysInv, NEW c \in Callers, NEW r \in Seq(STRING),
         Says(Ways(variant, Stream(talk, c)), Spoken, Stream(talk, c), sent[c], r, got[c],
              tx[c], FALSE),
         NEW m \in 1 .. Len(r), m <= SessRead,
         NEW a \in Sess!Answers(variant, SubSeq(r, 1, m))
  PROVE  Says(Ways(variant, Stream(talk, c)), Spoken, Stream(talk, c), sent[c],
              SubSeq(r, m + 1, Len(r)), got[c], tx[c] \o a, FALSE)
  <1> DEFINE s == Stream(talk, c)
             A == Ways(variant, s)
  <1>1. /\ s \in Seq(STRING) /\ Len(s) \in Nat /\ SessRead \in Nat \ {0}
        /\ Says(A, Spoken, s, sent[c], r, got[c], tx[c], FALSE) /\ m \in Nat
    <2>1. s \in Seq(STRING) /\ Len(s) \in Nat BY TalksTyped DEF SaysInv, SaysTypes
    <2>2. SessRead \in Nat \ {0}
      BY NetworkProgramsAssumption DEF Sess!SessionServersAssumption
    <2>3. m \in Nat OBVIOUS
    <2> QED BY <2>1, <2>2, <2>3
  <1> HIDE DEF s
  <1>2. SubSeq(r, 1, m) \in Seq(Spoken)
    <2>1. PICK u \in Seq(STRING) : u = SubSeq(r, 1, m)
      <3>1. m \in 0 .. Len(r) OBVIOUS
      <3> QED BY <3>1, CutInTwo
    <2>2. \A i \in 1 .. Len(u) : u[i] \in Spoken BY <2>1 DEF Spoken
    <2> QED BY <2>1, <2>2, Retyped
  <1>3. a \in Seq(Spoken) BY <1>2, AnswersTyped
  <1>4. ASSUME NEW k \in 0 .. sent[c] - m, SubSeq(r, 1, m) = SubSeq(s, k + 1, k + m)
        PROVE  a \in A[k + 1][k + m]
    <2>1. sent[c] \in 0 .. Len(s) BY <1>1 DEF Says
    <2>2. /\ k + 1 \in 1 .. Len(s) /\ k + m \in 1 .. Len(s)
          /\ (k + m) - (k + 1) < SessRead
      BY <1>1, <2>1
    <2>3. A[k + 1][k + m] = Sess!Answers(variant, SubSeq(s, k + 1, k + m))
      BY <2>2 DEF Ways
    <2> QED BY <1>4, <2>3
  <1> HIDE DEF A
  <1>5. Says(A, Spoken, s, sent[c], SubSeq(r, m + 1, Len(r)), got[c], tx[c] \o a, FALSE)
    BY <1>1, <1>3, <1>4, SaysRead
  <1> QED BY <1>5 DEF A, s

(* How long what one read() returns is. *)
LEMMA ChunkLength ==
  ASSUME SaysInv, NEW c \in Callers, rx[c] # <<>>
  PROVE  \E m \in 1 .. Len(rx[c]) :
           /\ m <= SessRead /\ m \in 0 .. Len(rx[c])
           /\ Sess!Chunk(c, SessRead) = SubSeq(rx[c], 1, m)
           /\ Sess!Chunk(c, SessRead) \in Seq(STRING) /\ Len(Sess!Chunk(c, SessRead)) = m
  <1> PICK m : m = IF Len(rx[c]) < SessRead THEN Len(rx[c]) ELSE SessRead OBVIOUS
  <1>1. SessRead \in Nat \ {0}
    BY NetworkProgramsAssumption DEF Sess!SessionServersAssumption
  <1>2. rx[c] \in Seq(STRING) /\ Len(rx[c]) \in Nat /\ Len(rx[c]) # 0
    BY DEF SaysInv, SaysTypes
  <1>3. m \in 1 .. Len(rx[c]) /\ m \in 0 .. Len(rx[c]) /\ m <= SessRead BY <1>1, <1>2
  <1>4. Sess!Chunk(c, SessRead) = SubSeq(rx[c], 1, m) BY DEF Sess!Chunk
  <1> QED BY <1>2, <1>3, <1>4, CutInTwo

(* A session reads and answers. *)
LEMMA SaysSession ==
  ASSUME SaysInv, NEW c \in Callers, Sess!SessionRead(c) \/ Sess!SessionReset(c),
         \A d \in Callers : sess'[d] = "running" <=> sess[d] = "running"
  PROVE  SaysInv'
  <1> DEFINE s == Stream(talk, c)
             A == Ways(variant, s)
             chunk == Sess!Chunk(c, SessRead)
  <1>1. /\ rx[c] # <<>> /\ UNCHANGED <<talk, sent, got, rst, variant, cmd>>
        /\ alive /\ sess[c] = "serving"
        /\ rx' = [rx EXCEPT ![c] = SubSeq(rx[c], Len(chunk) + 1, Len(rx[c]))]
        /\ \/ /\ c \notin rst /\ tx' = [tx EXCEPT ![c] = tx[c] \o Sess!Prompt(variant, chunk)]
           \/ c \in rst /\ tx' = tx
    BY DEF Sess!SessionRead, Sess!SessionReset, Sess!serverVars, Sess!commandVars
  <1>2. SaysTypes /\ Commanded(c) /\ cmd[c] = <<>> BY <1>1 DEF SaysInv, Commanded
  <1>3. PICK m \in 1 .. Len(rx[c]) :
          /\ m <= SessRead /\ m \in 0 .. Len(rx[c])
          /\ chunk = SubSeq(rx[c], 1, m) /\ Len(chunk) = m
    BY <1>1, ChunkLength
  <1>4. rx[c] \in Seq(STRING) /\ SubSeq(rx[c], m + 1, Len(rx[c])) \in Seq(STRING)
    <2>1. rx[c] \in Seq(STRING) BY <1>2 DEF SaysTypes
    <2> QED BY <1>3, <2>1, CutInTwo
  <1>5. <<>> \o rx[c] = rx[c] /\ <<>> \in Seq(STRING) BY <1>4
  <1>6. Says(A, Spoken, s, sent[c], rx[c], got[c], tx[c], c \in rst)
    BY <1>1, <1>2, <1>5 DEF SaysInv, Conversed
  <1>7. /\ rx'[c] = SubSeq(rx[c], m + 1, Len(rx[c])) /\ rx' \in [Callers -> Seq(STRING)]
        /\ \A d \in Callers \ {c} : rx'[d] = rx[d]
    BY <1>1, <1>2, <1>3, <1>4 DEF SaysTypes
  <1>8. /\ DOMAIN tx' = Callers /\ \A d \in Callers \ {c} : tx'[d] = tx[d]
        /\ c \notin rst => tx'[c] = tx[c] \o Sess!Prompt(variant, chunk)
        /\ c \in rst => tx'[c] = tx[c]
    BY <1>1, <1>2 DEF SaysTypes
  <1>9. Says(A, Spoken, s, sent[c], rx'[c], got[c], tx'[c], c \in rst)
    <2>1. CASE c \notin rst
      <3>1. (c \in rst) = FALSE BY <2>1
      <3>2. Sess!Prompt(variant, chunk) \in Sess!Answers(variant, SubSeq(rx[c], 1, m))
        BY <1>3 DEF Sess!Answers
      <3>3. Says(A, Spoken, s, sent[c], rx[c], got[c], tx[c], FALSE) BY <1>6, <3>1
      <3>4. Says(A, Spoken, s, sent[c], SubSeq(rx[c], m + 1, Len(rx[c])), got[c],
                 tx[c] \o Sess!Prompt(variant, chunk), FALSE)
        BY <1>3, <1>4, <3>2, <3>3, SaysAnswered
      <3> HIDE DEF A, s, chunk
      <3> QED BY <1>7, <1>8, <2>1, <3>1, <3>4
    <2>2. CASE c \in rst
      <3>1. (c \in rst) = TRUE BY <2>2
      <3>2. s \in Seq(STRING) BY <1>2, TalksTyped DEF SaysTypes
      <3> HIDE DEF A, s, chunk
      <3>3. Says(A, Spoken, s, sent[c], rx[c], got[c], tx[c], TRUE) BY <1>6, <3>1
      <3>4. Says(A, Spoken, s, sent[c], SubSeq(rx[c], m + 1, Len(rx[c])), got[c], tx[c], TRUE)
        BY <1>3, <3>2, <3>3, SaysNothing
      <3> QED BY <1>7, <1>8, <2>2, <3>1, <3>4
    <2> QED BY <2>1, <2>2
  <1>10. SaysTypes' BY <1>1, <1>2, <1>7, <1>8 DEF SaysTypes
  <1>11. Commanded(c)'
    <2>1. sess'[c] # "running" BY <1>1
    <2> QED BY <1>1, <1>2, <2>1 DEF Commanded
  <1>12. Conversed(c)'
    <2>1. rx'[c] \in Seq(STRING) BY <1>7
    <2>2. <<>> \o rx'[c] = rx'[c] BY <2>1
    <2> QED BY <1>1, <1>2, <1>5, <1>9, <2>2 DEF Conversed
  <1> QED BY <1>1, <1>7, <1>8, <1>10, <1>11, <1>12, SaysOne

(* A command is read, which changes nothing of what was said. *)
LEMMA SaysStarts ==
  ASSUME SaysInv, NEW c \in Callers, Sess!CommandStarts(c), DOMAIN sess = Callers
  PROVE  SaysInv'
  <1> DEFINE chunk == Sess!Chunk(c, SessRead)
  <1>1. /\ rx[c] # <<>> /\ UNCHANGED <<talk, sent, got, tx, rst, variant, alive>>
        /\ alive /\ sess[c] = "serving" /\ Sess!SafeCheck(variant, chunk)
        /\ rx' = [rx EXCEPT ![c] = SubSeq(rx[c], Len(chunk) + 1, Len(rx[c]))]
        /\ cmd' = [cmd EXCEPT ![c] = chunk] /\ sess' = [sess EXCEPT ![c] = "running"]
    BY DEF Sess!CommandStarts
  <1>2. SaysTypes /\ Commanded(c) /\ cmd[c] = <<>> BY <1>1 DEF SaysInv, Commanded
  <1>3. PICK m \in 1 .. Len(rx[c]) :
          /\ m <= SessRead /\ m \in 0 .. Len(rx[c]) /\ chunk \in Seq(STRING)
          /\ chunk = SubSeq(rx[c], 1, m) /\ Len(chunk) = m
    BY <1>1, ChunkLength
  <1>4. /\ rx[c] \in Seq(STRING) /\ SubSeq(rx[c], m + 1, Len(rx[c])) \in Seq(STRING)
        /\ chunk \o SubSeq(rx[c], m + 1, Len(rx[c])) = rx[c]
    <2>1. rx[c] \in Seq(STRING) BY <1>2 DEF SaysTypes
    <2>2. chunk \o SubSeq(rx[c], m + 1, Len(rx[c]))
            = SubSeq(rx[c], 1, m) \o SubSeq(rx[c], m + 1, Len(rx[c]))
      BY <1>3
    <2> HIDE DEF chunk
    <2> QED BY <1>3, <2>1, <2>2, CutInTwo
  <1>5. <<>> \o rx[c] = rx[c] /\ chunk # <<>> BY <1>3, <1>4
  <1>6. Says(Ways(variant, Stream(talk, c)), Spoken, Stream(talk, c), sent[c], rx[c], got[c],
             tx[c], c \in rst)
    BY <1>1, <1>2, <1>5 DEF SaysInv, Conversed
  <1> HIDE DEF chunk
  <1>7. /\ rx'[c] = SubSeq(rx[c], m + 1, Len(rx[c])) /\ rx' \in [Callers -> Seq(STRING)]
        /\ cmd'[c] = chunk /\ cmd' \in [Callers -> Seq(STRING)] /\ sess'[c] = "running"
        /\ \A d \in Callers \ {c} : rx'[d] = rx[d] /\ cmd'[d] = cmd[d] /\ sess'[d] = sess[d]
    BY <1>1, <1>2, <1>3, <1>4 DEF SaysTypes
  <1>8. SaysTypes' BY <1>1, <1>2, <1>7 DEF SaysTypes
  <1>9. Commanded(c)' BY <1>1, <1>3, <1>5, <1>7 DEF Commanded
  <1>10. chunk \o rx'[c] = rx[c] BY <1>4, <1>7
  <1>11. Conversed(c)' BY <1>1, <1>3, <1>6, <1>7, <1>10 DEF Conversed
  <1> QED BY <1>1, <1>7, <1>8, <1>9, <1>11, SaysOne

(* What was put together is taken apart. *)
LEMMA TakenApart ==
  ASSUME NEW S, NEW a \in Seq(S), a # <<>>, NEW b \in Seq(S), NEW u, u = a \o b,
         NEW l, l = Len(a)
  PROVE  /\ u \in Seq(S) /\ l \in 1 .. Len(u) /\ l \in 0 .. Len(u)
         /\ SubSeq(u, 1, l) = a /\ SubSeq(u, l + 1, Len(u)) = b
  <1>1. /\ u \in Seq(S) /\ Len(u) = l + Len(b) /\ l \in Nat /\ Len(b) \in Nat
        /\ \A i \in 1 .. l : u[i] = a[i]
        /\ \A i \in 1 .. Len(b) : u[i + l] = b[i]
    BY Concatenation
  <1>2. l \in 1 .. Len(u) /\ l \in 0 .. Len(u)
    <2>1. l # 0 OBVIOUS
    <2> QED BY <1>1, <2>1
  <1>3. SubSeq(u, 1, l) = a
    <2>1. PICK v : v = SubSeq(u, 1, l) OBVIOUS
    <2>2. v \in Seq(S) /\ Len(v) = l /\ \A i \in 1 .. l : v[i] = u[i] BY <1>1, <1>2, <2>1
    <2> QED BY <1>1, <2>1, <2>2, SameSeq
  <1>4. SubSeq(u, l + 1, Len(u)) = b
    <2>1. PICK v : v = SubSeq(u, l + 1, Len(u)) OBVIOUS
    <2>2. /\ v \in Seq(S) /\ Len(v) = Len(b)
          /\ \A i \in 1 .. Len(b) : v[i] = u[i + l]
      BY <1>1, <1>2, <2>1
    <2> QED BY <1>1, <2>1, <2>2, SameSeq
  <1> QED BY <1>1, <1>2, <1>3, <1>4

(* A command ends and is answered with its output, if somebody lives to    *)
(* write it and the client is there.                                       *)
LEMMA SaysEnds ==
  ASSUME SaysInv, NEW c \in Callers, Sess!CommandEnds(c), DOMAIN sess = Callers
  PROVE  SaysInv'
  <1> DEFINE s == Stream(talk, c)
             A == Ways(variant, s)
  <1>1. /\ UNCHANGED <<talk, sent, got, rx, rst, variant>> /\ sess[c] = "running"
        /\ sess' = [sess EXCEPT ![c] = "serving"] /\ cmd' = [cmd EXCEPT ![c] = <<>>]
        /\ \/ /\ alive /\ c \notin rst /\ alive' = alive
              /\ tx' = [tx EXCEPT ![c] = tx[c] \o Sess!Output(cmd[c])]
           \/ (~alive \/ c \in rst) /\ tx' = tx /\ (alive' => alive)
    BY DEF Sess!CommandEnds
  <1>2. /\ SaysTypes /\ cmd[c] # <<>> /\ Len(cmd[c]) <= SessRead
        /\ Sess!SafeCheck(variant, cmd[c])
    BY <1>1 DEF SaysInv, Commanded
  <1>3. PICK p \in Seq(STRING) :
          /\ alive => p = cmd[c]
          /\ Says(A, Spoken, s, sent[c], p \o rx[c], got[c], tx[c], c \in rst)
    BY DEF SaysInv, Conversed
  <1>4. rx[c] \in Seq(STRING) /\ cmd[c] \in Seq(STRING) /\ <<>> \in Seq(STRING)
    BY <1>2 DEF SaysTypes
  <1>5. <<>> \o rx[c] = rx[c] BY <1>4
  <1>6. /\ cmd'[c] = <<>> /\ cmd' \in [Callers -> Seq(STRING)] /\ sess'[c] = "serving"
        /\ \A d \in Callers \ {c} : cmd'[d] = cmd[d] /\ sess'[d] = sess[d]
    BY <1>1, <1>2, <1>4 DEF SaysTypes
  <1>7. /\ DOMAIN tx' = Callers /\ \A d \in Callers \ {c} : tx'[d] = tx[d]
        /\ alive /\ c \notin rst => tx'[c] = tx[c] \o Sess!Output(cmd[c])
        /\ ~alive \/ c \in rst => tx'[c] = tx[c]
    BY <1>1, <1>2 DEF SaysTypes
  <1>8. \E q \in Seq(STRING) :
          /\ alive' => q = <<>>
          /\ Says(A, Spoken, s, sent[c], q \o rx[c], got[c], tx'[c], c \in rst)
    <2> HIDE DEF A, s
    <2>1. CASE ~alive
      BY <1>1, <1>3, <1>7, <2>1
    <2>2. CASE alive
      <3> PICK r, m : r = cmd[c] \o rx[c] /\ m = Len(cmd[c]) OBVIOUS
      <3>1. /\ r \in Seq(STRING) /\ m \in 0 .. Len(r) /\ SubSeq(r, 1, m) = cmd[c]
            /\ SubSeq(r, m + 1, Len(r)) = rx[c] /\ m \in 1 .. Len(r) /\ m <= SessRead
        <4>1. /\ r \in Seq(STRING) /\ m \in 1 .. Len(r) /\ m \in 0 .. Len(r)
              /\ SubSeq(r, 1, m) = cmd[c] /\ SubSeq(r, m + 1, Len(r)) = rx[c]
          <5>1. \A x, y \in Seq(STRING) : x # <<>> =>
                  LET u == x \o y  l == Len(x)
                  IN  /\ u \in Seq(STRING) /\ l \in 1 .. Len(u) /\ l \in 0 .. Len(u)
                      /\ SubSeq(u, 1, l) = x /\ SubSeq(u, l + 1, Len(u)) = y
            BY TakenApart
          <5> QED BY <1>2, <1>4, <5>1
        <4> QED BY <1>2, <4>1
      <3>2. Says(A, Spoken, s, sent[c], r, got[c], tx[c], c \in rst) BY <1>3, <2>2
      <3>3. CASE c \in rst
        <4>1. (c \in rst) = TRUE /\ s \in Seq(STRING) BY <1>2, <3>3, TalksTyped DEF SaysTypes, s
        <4>2. Says(A, Spoken, s, sent[c], r, got[c], tx[c], TRUE) BY <3>2, <4>1
        <4>3. Says(A, Spoken, s, sent[c], SubSeq(r, m + 1, Len(r)), got[c], tx[c], TRUE)
          BY <3>1, <4>1, <4>2, SaysNothing
        <4> QED BY <1>4, <1>5, <1>7, <3>1, <3>3, <4>1, <4>3
      <3>4. CASE c \notin rst
        <4>1. (c \in rst) = FALSE BY <3>4
        <4>2. Sess!Output(cmd[c]) \in Sess!Answers(variant, SubSeq(r, 1, m))
          BY <1>2, <3>1 DEF Sess!Answers
        <4>3. Says(A, Spoken, s, sent[c], r, got[c], tx[c], FALSE) BY <3>2, <4>1
        <4>4. Says(A, Spoken, s, sent[c], SubSeq(r, m + 1, Len(r)), got[c],
                   tx[c] \o Sess!Output(cmd[c]), FALSE)
          BY <3>1, <4>2, <4>3, SaysAnswered DEF A, s
        <4> QED BY <1>4, <1>5, <1>7, <2>2, <3>1, <3>4, <4>1, <4>4
      <3> QED BY <3>3, <3>4
    <2> QED BY <2>1, <2>2
  <1>9. SaysTypes' BY <1>1, <1>2, <1>6, <1>7 DEF SaysTypes
  <1>10. Commanded(c)' BY <1>6 DEF Commanded
  <1>11. Conversed(c)' BY <1>1, <1>6, <1>8 DEF Conversed
  <1> QED BY <1>1, <1>6, <1>7, <1>9, <1>10, <1>11, SaysOne

(* Nothing else touches a conversation. *)
LEMMA SaysKept ==
  ASSUME SaysInv, UNCHANGED <<talk, sent, got, rx, tx, rst, variant, cmd, alive>>,
         \A c \in Callers : sess'[c] = "running" <=> sess[c] = "running"
  PROVE  SaysInv'
  BY DEF SaysInv, SaysTypes, Commanded, Conversed

(* Every step of the part keeps its invariant. *)
LEMMA SaysNext ==
  ASSUME SessInv, SaysInv,
         \/ Sess!Main \/ Sess!PoolTake
         \/ \E c \in Callers : Sess!Session(c) \/ Sess!Client(c) \/ Sess!CommandEnds(c)
  PROVE  SaysInv'
  <1>0. DOMAIN sess = Callers BY DEF SessInv, SessTypes
  <1>1. CASE Sess!Main
    <2>1. \A c \in Callers : sess'[c] = "running" <=> sess[c] = "running"
      BY <1>1, SessAccept, SessFork DEF Sess!Main
    <2> QED
      BY <1>1, <2>1, SaysKept
         DEF Sess!Main, Sess!AcceptInline, Sess!AcceptProcess, Sess!Fork, Sess!ForkFails,
             Sess!MainCloses, Sess!MainWaited, Sess!AcceptThread, Sess!AcceptPool,
             Sess!Accepting, Sess!hostVars, Sess!commandVars
  <1>2. CASE Sess!PoolTake
    BY <1>2, SessTake, SaysKept DEF Sess!PoolTake, Sess!hostVars, Sess!commandVars
  <1>3. ASSUME NEW c \in Callers, Sess!Session(c) PROVE SaysInv'
    <2>1. CASE Sess!SecondFork(c) \/ Sess!SecondForkFails(c) \/ Sess!SessionEnd(c)
      <3>1. \A d \in Callers : sess'[d] = "running" <=> sess[d] = "running"
        BY <2>1, SessFork, SessServe
      <3> QED
        BY <2>1, <3>1, SaysKept DEF Sess!SecondFork, Sess!SecondForkFails,
                                    Sess!SessionEnd, Sess!hostVars, Sess!commandVars
    <2>2. CASE Sess!SessionRead(c) \/ Sess!SessionReset(c)
      BY <2>2, SessServe, SaysSession
    <2> QED BY <1>0, <1>3, <2>1, <2>2, SaysStarts, SaysEnds DEF Sess!Session
  <1> QED BY <1>0, <1>1, <1>2, <1>3, SaysClient, SaysEnds

(* What was said is an answer to what was read. *)
LEMMA SaysAnswers == SaysInv => Sess!AnswersRight
  <1> SUFFICES ASSUME SaysInv, NEW c \in Callers
               PROVE  \E i \in 0 .. sent[c] - Len(rx[c]) :
                        \E g \in Sess!Dialogue(Sess!Stream(c))[i] :
                          Sess!IsPrefix(Sess!FlattenSeq(got[c]) \o tx[c], g)
    BY DEF Sess!AnswersRight
  <1>1. Stream(talk, c) \in Seq(STRING) /\ Sess!Stream(c) = Stream(talk, c)
    BY TalksTyped DEF SaysInv, SaysTypes, Sess!Stream
  <1>6. PICK p \in Seq(STRING) :
          Says(Ways(variant, Stream(talk, c)), Spoken, Stream(talk, c), sent[c], p \o rx[c],
               got[c], tx[c], c \in rst)
    BY DEF SaysInv, Conversed
  <1>2. \E i \in 0 .. sent[c] - Len(rx[c]) :
          \E h \in Told(Len(Stream(talk, c)), Ways(variant, Stream(talk, c)))[i] :
            Starts(Flat(got[c]) \o tx[c], h)
    <2>1. PICK i \in 0 .. sent[c] - Len(p \o rx[c]) :
            \E h \in Told(Len(Stream(talk, c)), Ways(variant, Stream(talk, c)))[i] :
              Starts(Flat(got[c]) \o tx[c], h)
      BY <1>1, <1>6, SaysRight
    <2>2. Len(p \o rx[c]) = Len(p) + Len(rx[c]) /\ Len(p) \in Nat /\ Len(rx[c]) \in Nat
      <3>1. rx[c] \in Seq(STRING) BY DEF SaysInv, SaysTypes
      <3> QED BY <3>1, Concatenation
    <2>3. sent[c] \in Nat BY DEF SaysInv, SaysTypes
    <2>4. i \in 0 .. sent[c] - Len(rx[c]) BY <2>2, <2>3
    <2> QED BY <2>1, <2>4
  <1>3. Sess!FlattenSeq(got[c]) = Flat(got[c]) BY DEF Sess!FlattenSeq, Flat
  <1>4. Sess!Dialogue(Stream(talk, c))
          = Told(Len(Stream(talk, c)), Ways(variant, Stream(talk, c)))
    BY DEF Sess!Dialogue, Sess!Said, Told, Further, Ways
  <1>5. ASSUME NEW x, NEW y PROVE Sess!IsPrefix(x, y) <=> Starts(x, y)
    BY DEF Sess!IsPrefix, Starts
  <1> QED BY <1>1, <1>2, <1>3, <1>4, <1>5

-----------------------------------------------------------------------------
(* The edge-triggered echo server of 14.                                   *)

Watched == Fds \cup {Listener}
EchoTypes ==
  /\ backlog \in Seq(Clients) /\ ready \in Seq(Watched) /\ batch \in Seq(Watched)
  /\ peer \in [Clients -> {"new", "open", "gone"}] /\ DOMAIN rx = Clients
  /\ DOMAIN fdtab \subseteq Fds
  /\ \A fd \in DOMAIN fdtab : fdtab[fd] \in Clients

(* A client has one connection: it waits in the backlog or has a           *)
(* descriptor, and before it connects neither.                             *)
OneConnection ==
  /\ Once(backlog)
  /\ \A fd, g \in DOMAIN fdtab : fdtab[fd] = fdtab[g] => fd = g
  /\ \A fd \in DOMAIN fdtab : fdtab[fd] \notin Members(backlog)
  /\ \A c \in Clients : peer[c] = "new" =>
       c \notin Members(backlog) /\ \A fd \in DOMAIN fdtab : fdtab[fd] # c

(* The ready list and the batch name watched descriptors, each once.       *)
Reports ==
  /\ Once(ready) /\ Once(batch)
  /\ Members(ready) \cup Members(batch) \subseteq {Listener} \cup DOMAIN fdtab

(* NothingMissed.                                                          *)
AllReported ==
  /\ \A fd \in DOMAIN fdtab :
       Echo!Readable(fd) => fd \in Members(ready) \cup Members(batch)
  /\ backlog # <<>> => Listener \in Members(ready) \cup Members(batch) \/ exhausted

EchoInv == EchoTypes /\ OneConnection /\ Reports /\ AllReported

(* Nothing is open, nothing is there to be reported. *)
LEMMA EchoInit == Echo!Init => EchoInv
  <1> SUFFICES ASSUME Echo!Init PROVE EchoInv OBVIOUS
  <1>1. /\ fdtab = <<>> /\ ready = <<>> /\ batch = <<>> /\ backlog = <<>>
        /\ peer = [c \in Clients |-> "new"] /\ DOMAIN rx = Clients
    BY DEF Echo!Init, Echo!HostInit
  <1>2. DOMAIN fdtab = {} BY <1>1
  <1>3. EchoTypes BY <1>1, <1>2 DEF EchoTypes
  <1>4. OneConnection /\ Reports BY <1>1, <1>2, NoMembers DEF OneConnection, Reports
  <1> QED BY <1>1, <1>2, <1>3, <1>4 DEF EchoInv, AllReported

(* What epoll_wait and epoll_ctl keep of a list. *)
LEMMA ThoseMembers ==
  ASSUME NEW S, NEW s \in Seq(S), NEW T
  PROVE  /\ Echo!Those(s, T) \in Seq(S)
         /\ Members(Echo!Those(s, T)) = Members(s) \cap T
         /\ Once(s) => Once(Echo!Those(s, T))
  <1>1. Echo!Those(s, T) = Kept(s, T)[Len(s)] BY DEF Echo!Those, Kept
  <1> QED BY <1>1, KeptMembers

(* The members and repetitions of a sequence in the words of the library. *)
LEMMA SameWords ==
  ASSUME NEW s
  PROVE  Echo!Range(s) = Members(s) /\ (Echo!IsInjective(s) <=> Once(s))
  BY DEF Echo!Range, Members, Echo!IsInjective, Once

(* What happens is reported, and what was reported stays reported. *)
LEMMA EdgeReports ==
  ASSUME EchoTypes, Once(ready), NEW fds, fds \subseteq Watched, Echo!Edge(fds)
  PROVE  /\ ready' \in Seq(Watched) /\ Once(ready')
         /\ Members(ready') = Members(ready) \cup fds
  <1> DEFINE more == fds \ Members(ready)
             s == Echo!InSomeOrder(more)
  <1>1. IsFiniteSet(more)
    <2>1. Echo!IsFiniteSet(Fds) BY NetworkProgramsAssumption DEF Echo!EdgeEchoAssumption
    <2>2. IsFiniteSet(Fds) BY <2>1 DEF Echo!IsFiniteSet, IsFiniteSet
    <2>3. IsFiniteSet(Watched) BY <2>2, FS_AddElement DEF Watched
    <2> QED BY <2>3, FS_Subset
  <1>2. s \in Seq(Watched) /\ Members(s) = more /\ Once(s)
    <2>1. Echo!Cardinality(more) = Cardinality(more) BY DEF Echo!Cardinality, Cardinality
    <2>2. /\ \E f \in [1 .. Cardinality(more) -> more] : Once(f)
          /\ \A f \in [1 .. Cardinality(more) -> more] :
               Once(f) => f \in Seq(Watched) /\ Members(f) = more
      BY <1>1, ListedMembers
    <2>3. s = CHOOSE f \in [1 .. Cardinality(more) -> more] : Once(f)
      BY <2>1, SameWords DEF Echo!InSomeOrder
    <2> HIDE DEF more, s
    <2> QED BY <2>2, <2>3
  <1>3. ready' = ready \o s BY SameWords DEF Echo!Edge
  <1>4. ready \in Seq(Watched) /\ Members(ready) \cap more = {} BY DEF EchoTypes
  <1> HIDE DEF s
  <1>5. /\ ready \o s \in Seq(Watched)
        /\ Members(ready \o s) = Members(ready) \cup Members(s)
        /\ Once(ready \o s)
    BY <1>2, <1>4, JoinedMembers
  <1> QED BY <1>2, <1>3, <1>5

(* A client connects, speaks, reads, leaves or is refused: what that       *)
(* changes for the server is reported.                                     *)
LEMMA EchoClient ==
  ASSUME EchoInv, NEW c \in Clients, Echo!Client(c)
  PROVE  EchoInv'
  <1>1. UNCHANGED <<fdtab, batch, exhausted>> BY DEF Echo!Client
  <1> DEFINE own == Echo!Owned(c)
  <1>2. own \subseteq DOMAIN fdtab /\ own \subseteq Watched
        /\ \A fd \in DOMAIN fdtab : fdtab[fd] = c => fd \in own
    BY DEF Echo!Owned, EchoInv, EchoTypes, Watched
  <1>3. CASE Echo!Connect(c) /\ Echo!Edge({Listener})
    <2>1. /\ backlog' = Append(backlog, c) /\ peer[c] = "new"
          /\ peer' = [peer EXCEPT ![c] = "open"] /\ UNCHANGED <<rx, fin, rst>>
      BY <1>3 DEF Echo!Connect
    <2>2. /\ backlog' \in Seq(Clients) /\ Members(backlog') = Members(backlog) \cup {c}
          /\ Once(backlog')
      BY <2>1, AppendedMember DEF EchoInv, EchoTypes, OneConnection
    <2>3. /\ ready' \in Seq(Watched) /\ Once(ready')
          /\ Members(ready') = Members(ready) \cup {Listener}
      BY <1>3, EdgeReports DEF EchoInv, Reports, Watched
    <2>4. EchoTypes' BY <1>1, <2>1, <2>2, <2>3 DEF EchoInv, EchoTypes
    <2>5. OneConnection'
      BY <1>1, <2>1, <2>2 DEF EchoInv, EchoTypes, OneConnection
    <2>6. Reports' BY <1>1, <2>3 DEF EchoInv, Reports
    <2>7. AllReported'
      BY <1>1, <2>1, <2>3 DEF EchoInv, EchoTypes, AllReported, Echo!Readable, Echo!Ended
    <2> QED BY <2>4, <2>5, <2>6, <2>7 DEF EchoInv
  <1>4. ASSUME Echo!Edge(own), UNCHANGED backlog,
               \A d \in Clients \ {c} :
                 rx'[d] = rx[d] /\ (d \in fin' \cup rst' <=> d \in fin \cup rst),
               DOMAIN rx' = Clients,
               peer' \in [Clients -> {"new", "open", "gone"}],
               \A d \in Clients : peer'[d] = "new" => peer[d] = "new"
        PROVE  EchoInv'
    <2>1. /\ ready' \in Seq(Watched) /\ Once(ready')
          /\ Members(ready') = Members(ready) \cup own
      BY <1>2, <1>4, EdgeReports DEF EchoInv, Reports
    <2>2. EchoTypes' BY <1>1, <1>4, <2>1 DEF EchoInv, EchoTypes
    <2>3. OneConnection' BY <1>1, <1>4 DEF EchoInv, OneConnection
    <2>4. Reports' BY <1>1, <1>2, <2>1 DEF EchoInv, Reports
    <2>5. AllReported'
      <3>1. ASSUME NEW fd \in DOMAIN fdtab, Echo!Readable(fd)'
            PROVE  fd \in Members(ready') \cup Members(batch)
        <4>1. CASE fdtab[fd] = c BY <1>2, <2>1, <4>1
        <4>2. CASE fdtab[fd] # c
          <5>1. Echo!Readable(fd)
            BY <1>1, <1>4, <3>1, <4>2
            DEF EchoInv, EchoTypes, Echo!Readable, Echo!Ended
          <5> QED BY <2>1, <5>1 DEF EchoInv, AllReported
        <4> QED BY <4>1, <4>2
      <3>2. backlog' # <<>> => Listener \in Members(ready') \cup Members(batch) \/ exhausted
        BY <1>4, <2>1 DEF EchoInv, AllReported
      <3> QED BY <1>1, <3>1, <3>2 DEF AllReported
    <2> QED BY <2>2, <2>3, <2>4, <2>5 DEF EchoInv
  <1>5. CASE Echo!Send(c) /\ Echo!Edge(own)
    BY <1>4, <1>5 DEF Echo!Send, EchoInv, EchoTypes
  <1>6. CASE Echo!Receive(c, EchoRead) /\ UNCHANGED ready
    BY <1>1, <1>6 DEF Echo!Receive, EchoInv, EchoTypes, OneConnection, Reports,
                      AllReported, Echo!Readable, Echo!Ended
  <1>7. CASE Echo!Leave(c) /\ Echo!Edge(own)
    BY <1>4, <1>7 DEF Echo!Leave, EchoInv, EchoTypes
  <1>8. CASE Echo!Refuse(c) /\ Echo!Edge(own)
    BY <1>4, <1>8 DEF Echo!Refuse, EchoInv, EchoTypes
  <1> QED BY <1>3, <1>5, <1>6, <1>7, <1>8 DEF Echo!Client

(* epoll_wait takes the oldest reports and passes over those that have     *)
(* nothing to say any more.                                                *)
LEMMA EchoWait ==
  ASSUME EchoInv, Echo!EpollWait
  PROVE  EchoInv'
  <1>0. UNCHANGED <<peer, backlog, rx, fin, rst, fdtab, exhausted>> /\ batch = <<>>
    BY DEF Echo!EpollWait, Echo!hostVars
  <1> PICK n : n = IF Len(ready) < MaxEvents THEN Len(ready) ELSE MaxEvents OBVIOUS
  <1>1. n \in 0 .. Len(ready) /\ ready \in Seq(Watched)
    <2>1. MaxEvents \in Nat /\ Len(ready) \in Nat /\ ready \in Seq(Watched)
      BY NetworkProgramsAssumption DEF Echo!EdgeEchoAssumption, EchoInv, EchoTypes
    <2> QED BY <2>1
  <1> PICK first \in Seq(Watched), left \in Seq(Watched) :
        /\ first = SubSeq(ready, 1, n) /\ left = SubSeq(ready, n + 1, Len(ready))
    BY <1>1, SplitMembers
  <1>2. /\ Len(first) = n /\ Members(ready) = Members(first) \cup Members(left)
        /\ Once(first) /\ Once(left)
    BY <1>1, SplitMembers DEF EchoInv, Reports
  <1> DEFINE T == {fd \in Members(first) : Echo!Readable(fd)}
  <1>3. /\ batch' = Echo!Those(first, T) /\ ready' = left
    <2>1. Echo!Range(first) = Members(first) BY SameWords
    <2> QED BY <1>2, <2>1 DEF Echo!EpollWait
  <1>4. /\ batch' \in Seq(Watched) /\ Once(batch')
        /\ Members(batch') = Members(first) \cap T
    <2> HIDE DEF T
    <2>1. /\ Echo!Those(first, T) \in Seq(Watched)
          /\ Members(Echo!Those(first, T)) = Members(first) \cap T
          /\ Once(first) => Once(Echo!Those(first, T))
      BY ThoseMembers, ZenonT(30)
    <2> QED BY <1>2, <1>3, <2>1
  <1>5. EchoTypes' BY <1>0, <1>3, <1>4 DEF EchoInv, EchoTypes
  <1>6. OneConnection' BY <1>0 DEF EchoInv, OneConnection
  <1>7. Reports' BY <1>0, <1>2, <1>3, <1>4 DEF EchoInv, Reports
  <1>8. Members(batch) = {} BY <1>0, NoMembers
  <1>9. AllReported'
    <2>1. ASSUME NEW fd \in DOMAIN fdtab, Echo!Readable(fd)
          PROVE  fd \in Members(ready') \cup Members(batch')
      <3>1. fd \in Members(ready) BY <1>8, <2>1 DEF EchoInv, AllReported
      <3> QED BY <1>2, <1>3, <1>4, <2>1, <3>1
    <2>2. ASSUME backlog # <<>>, ~exhausted
          PROVE  Listener \in Members(ready') \cup Members(batch')
      <3>1. Listener \in Members(ready) BY <1>8, <2>2 DEF EchoInv, AllReported
      <3>2. Echo!Readable(Listener) BY <2>2 DEF Echo!Readable
      <3> QED BY <1>2, <1>3, <1>4, <3>1, <3>2
    <2>3. \A fd : Echo!Readable(fd)' <=> Echo!Readable(fd)
      BY <1>0 DEF Echo!Readable, Echo!Ended
    <2> QED BY <1>0, <2>1, <2>2, <2>3 DEF AllReported
  <1> QED BY <1>5, <1>6, <1>7, <1>9 DEF EchoInv

(* The descriptor the kernel gives is one that was free. *)
LEMMA EchoLowest ==
  ASSUME EchoTypes, Echo!FreeFds # {}
  PROVE  Echo!LowestFree \in Fds \ DOMAIN fdtab
  <1>1. Echo!FreeFds \in SUBSET Nat
    BY NetworkProgramsAssumption DEF Echo!EdgeEchoAssumption, Echo!FreeFds
  <1>2. \E fd \in Echo!FreeFds : \A g \in Echo!FreeFds : fd <= g
    BY <1>1, LeastMember
  <1> QED BY <1>2 DEF Echo!LowestFree, Echo!FreeFds

(* A connection gets the lowest free descriptor, and what has come on it   *)
(* already is reported when it is added.                                   *)
LEMMA EchoAccept ==
  ASSUME EchoInv, Echo!Accept
  PROVE  EchoInv'
  <1>0. /\ UNCHANGED <<peer, rx, fin, rst, batch, exhausted>>
        /\ batch # <<>> /\ Head(batch) = Listener
        /\ backlog # <<>> /\ backlog' = Tail(backlog)
    BY DEF Echo!Accept, Echo!At
  <1> PICK fd \in Fds \ DOMAIN fdtab : fd = Echo!LowestFree
    BY EchoLowest DEF Echo!Accept, EchoInv
  <1>1. /\ Head(backlog) \in Clients /\ backlog' \in Seq(Clients)
        /\ Members(backlog) = {Head(backlog)} \cup Members(backlog')
        /\ Once(backlog') /\ Head(backlog) \notin Members(backlog')
    BY <1>0, FirstMember DEF EchoInv, EchoTypes, OneConnection
  <1> PICK c \in Clients : c = Head(backlog) BY <1>1
  <1>2. /\ fdtab' = [g \in DOMAIN fdtab \cup {fd} |-> IF g = fd THEN c ELSE fdtab[g]]
        /\ Echo!Edge(IF rx[c] # <<>> \/ Echo!Ended(c) THEN {fd} ELSE {})
    BY DEF Echo!Accept
  <1>3. /\ DOMAIN fdtab' = DOMAIN fdtab \cup {fd} /\ fdtab'[fd] = c
        /\ \A g \in DOMAIN fdtab : fdtab'[g] = fdtab[g]
    BY <1>2
  <1>4. /\ ready' \in Seq(Watched) /\ Once(ready')
        /\ Members(ready') = Members(ready) \cup
                             IF rx[c] # <<>> \/ Echo!Ended(c) THEN {fd} ELSE {}
    BY <1>2, EdgeReports DEF EchoInv, Reports, Watched
  <1>5. EchoTypes' BY <1>0, <1>1, <1>3, <1>4 DEF EchoInv, EchoTypes
  <1>6. OneConnection' BY <1>0, <1>1, <1>3 DEF EchoInv, EchoTypes, OneConnection
  <1>7. Reports' BY <1>0, <1>3, <1>4 DEF EchoInv, Reports
  <1>8. Listener \in Members(batch')
    BY <1>0, FirstMember DEF EchoInv, EchoTypes
  <1>9. AllReported'
    <2>1. fd # Listener
      BY NetworkProgramsAssumption DEF Echo!EdgeEchoAssumption
    <2>2. Echo!Readable(fd)' => fd \in Members(ready')
      BY <1>0, <1>3, <1>4, <2>1 DEF Echo!Readable, Echo!Ended
    <2>3. ASSUME NEW g \in DOMAIN fdtab, Echo!Readable(g)'
          PROVE  g \in Members(ready') \cup Members(batch')
      <3>1. g # Listener
        BY NetworkProgramsAssumption DEF Echo!EdgeEchoAssumption, EchoInv, EchoTypes
      <3>2. Echo!Readable(g) BY <1>0, <1>3, <2>3, <3>1 DEF Echo!Readable, Echo!Ended
      <3> QED BY <1>0, <1>4, <3>2 DEF EchoInv, AllReported
    <2> QED BY <1>3, <1>8, <2>2, <2>3 DEF AllReported
  <1> QED BY <1>5, <1>6, <1>7, <1>9 DEF EchoInv

(* The batch goes on to its next report. *)
LEMMA NextReport ==
  ASSUME EchoInv, batch # <<>>, batch' = Tail(batch)
  PROVE  /\ batch' \in Seq(Watched) /\ Once(batch')
         /\ Members(batch) = {Head(batch)} \cup Members(batch')
         /\ Head(batch) \notin Members(batch')
  BY FirstMember DEF EchoInv, EchoTypes, Reports

(* accept() fails: nobody waits any more, or nothing is left to give.      *)
LEMMA EchoAcceptEnds ==
  ASSUME EchoInv, Echo!AcceptEnds
  PROVE  EchoInv'
  <1>0. /\ UNCHANGED <<peer, backlog, rx, fin, rst, fdtab, ready>>
        /\ batch # <<>> /\ Head(batch) = Listener /\ batch' = Tail(batch)
        /\ exhausted' = (exhausted \/ backlog # <<>>)
    BY DEF Echo!AcceptEnds, Echo!At, Echo!Return, Echo!hostVars
  <1>1. /\ batch' \in Seq(Watched) /\ Once(batch')
        /\ Members(batch) = {Listener} \cup Members(batch')
    BY <1>0, NextReport
  <1>2. EchoTypes' /\ OneConnection' /\ Reports'
    BY <1>0, <1>1 DEF EchoInv, EchoTypes, OneConnection, Reports
  <1>3. AllReported'
    <2>1. ASSUME NEW fd \in DOMAIN fdtab, Echo!Readable(fd)'
          PROVE  fd \in Members(ready') \cup Members(batch')
      <3>1. fd # Listener
        BY NetworkProgramsAssumption DEF Echo!EdgeEchoAssumption, EchoInv, EchoTypes
      <3>2. Echo!Readable(fd) BY <1>0, <2>1 DEF Echo!Readable, Echo!Ended
      <3> QED BY <1>0, <1>1, <3>1, <3>2 DEF EchoInv, AllReported
    <2>2. backlog' # <<>> => exhausted' BY <1>0
    <2> QED BY <1>0, <2>1, <2>2 DEF AllReported
  <1> QED BY <1>2, <1>3 DEF EchoInv

(* One read(): the descriptor stays in the batch until nothing is left. *)
LEMMA EchoRecvPart ==
  ASSUME EchoInv, NEW fd \in Fds, Echo!RecvPart(fd)
  PROVE  EchoInv'
  <1>0. /\ UNCHANGED <<peer, backlog, fin, rst, fdtab, ready, batch, exhausted>>
        /\ batch # <<>> /\ Head(batch) = fd
    BY DEF Echo!RecvPart, Echo!At
  <1>1. fd \in Members(batch) BY <1>0, FirstMember DEF EchoInv, EchoTypes
  <1>2. fd \in DOMAIN fdtab
    BY <1>1, NetworkProgramsAssumption DEF Echo!EdgeEchoAssumption, EchoInv, Reports
  <1> PICK c \in Clients : c = fdtab[fd] BY <1>2 DEF EchoInv, EchoTypes
  <1>3. DOMAIN rx' = Clients /\ \A d \in Clients \ {c} : rx'[d] = rx[d]
    BY DEF Echo!RecvPart, EchoInv, EchoTypes
  <1>4. EchoTypes' /\ OneConnection' /\ Reports'
    BY <1>0, <1>3 DEF EchoInv, EchoTypes, OneConnection, Reports
  <1>5. AllReported'
    <2>1. ASSUME NEW g \in DOMAIN fdtab, g # fd, Echo!Readable(g)'
          PROVE  g \in Members(ready) \cup Members(batch)
      <3>1. fdtab[g] \in Clients \ {c}
        BY <1>2, <2>1 DEF EchoInv, EchoTypes, OneConnection
      <3>2. Echo!Readable(g) BY <1>0, <1>3, <2>1, <3>1 DEF Echo!Readable, Echo!Ended
      <3> QED BY <3>2 DEF EchoInv, AllReported
    <2> QED BY <1>0, <1>1, <2>1 DEF EchoInv, AllReported
  <1> QED BY <1>4, <1>5 DEF EchoInv

(* The connection is over: its descriptor is closed and off the list.      *)
LEMMA EchoRecvEnds ==
  ASSUME EchoInv, NEW fd \in Fds, Echo!RecvEnds(fd)
  PROVE  EchoInv'
  <1>0. /\ UNCHANGED <<peer, backlog, rx, fin, rst, exhausted>>
        /\ batch # <<>> /\ Head(batch) = fd /\ batch' = Tail(batch)
        /\ ready' = Echo!Those(ready, Members(ready) \ {fd})
        /\ fdtab' = [g \in DOMAIN fdtab \ {fd} |-> fdtab[g]]
    BY SameWords DEF Echo!RecvEnds, Echo!At, Echo!Return, Echo!hostVars
  <1>1. /\ batch' \in Seq(Watched) /\ Once(batch') /\ fd \notin Members(batch')
        /\ Members(batch) = {fd} \cup Members(batch')
    BY <1>0, NextReport
  <1>2. /\ ready' \in Seq(Watched) /\ Once(ready')
        /\ Members(ready') = Members(ready) \ {fd}
    BY <1>0, ThoseMembers DEF EchoInv, EchoTypes, Reports
  <1>3. /\ DOMAIN fdtab' = DOMAIN fdtab \ {fd}
        /\ \A g \in DOMAIN fdtab' : fdtab'[g] = fdtab[g]
    BY <1>0
  <1>4. EchoTypes' /\ OneConnection'
    BY <1>0, <1>1, <1>2, <1>3 DEF EchoInv, EchoTypes, OneConnection
  <1>5. Reports' BY <1>1, <1>2, <1>3 DEF EchoInv, Reports
  <1>6. fd # Listener BY NetworkProgramsAssumption DEF Echo!EdgeEchoAssumption
  <1>7. AllReported'
    <2>1. ASSUME NEW g \in DOMAIN fdtab', Echo!Readable(g)'
          PROVE  g \in Members(ready') \cup Members(batch')
      <3>1. Echo!Readable(g) BY <1>0, <1>3, <2>1 DEF Echo!Readable, Echo!Ended
      <3> QED BY <1>1, <1>2, <1>3, <3>1 DEF EchoInv, AllReported
    <2> QED BY <1>0, <1>1, <1>2, <1>6, <2>1 DEF EchoInv, AllReported
  <1> QED BY <1>4, <1>5, <1>7 DEF EchoInv

(* Nothing is left to read: the echo is written, and the report is done    *)
(* with.                                                                   *)
LEMMA EchoRecvAgain ==
  ASSUME EchoInv, NEW fd \in Fds, Echo!RecvAgain(fd)
  PROVE  EchoInv'
  <1>0. /\ UNCHANGED <<peer, backlog, rx, fin, rst, fdtab, ready, exhausted>>
        /\ batch # <<>> /\ Head(batch) = fd /\ batch' = Tail(batch)
        /\ rx[fdtab[fd]] = <<>> /\ ~Echo!Ended(fdtab[fd])
    BY DEF Echo!RecvAgain, Echo!At, Echo!Return
  <1>1. /\ batch' \in Seq(Watched) /\ Once(batch')
        /\ Members(batch) = {fd} \cup Members(batch')
    BY <1>0, NextReport
  <1>2. EchoTypes' /\ OneConnection' /\ Reports'
    BY <1>0, <1>1 DEF EchoInv, EchoTypes, OneConnection, Reports
  <1>3. fd # Listener BY NetworkProgramsAssumption DEF Echo!EdgeEchoAssumption
  <1>4. ~Echo!Readable(fd) BY <1>0, <1>3 DEF Echo!Readable
  <1>5. \A g : Echo!Readable(g)' <=> Echo!Readable(g)
    BY <1>0 DEF Echo!Readable, Echo!Ended
  <1>6. AllReported'
    BY <1>0, <1>1, <1>3, <1>4, <1>5 DEF EchoInv, AllReported
  <1> QED BY <1>2, <1>6 DEF EchoInv

(* Every step of the part keeps its invariant. *)
LEMMA EchoNext ==
  ASSUME EchoInv, Echo!Server \/ \E c \in Clients : Echo!Client(c)
  PROVE  EchoInv'
  BY EchoClient, EchoWait, EchoAccept, EchoAcceptEnds, EchoRecvPart, EchoRecvEnds,
     EchoRecvAgain DEF Echo!Server

(* The invariant in the words of the properties. *)
LEMMA EchoDescriptors == EchoInv => Echo!DescriptorsAccounted /\ Echo!NothingMissed
  BY SameWords DEF EchoInv, OneConnection, Reports, AllReported,
                   Echo!DescriptorsAccounted, Echo!NothingMissed

(* What a stream may be echoed as, piece by piece. *)
Echoings(s) ==
  [k \in 1 .. Len(s) |-> [i \in 1 .. Len(s) |-> {<<"echo">> \o SubSeq(s, k, i)}]]

(* What RecvHandler has read of c and not answered yet. *)
Pend(c) == IF batch # <<>> /\ Head(batch) \in Echo!Owned(c) THEN inbuffer ELSE <<>>

(* What has been said to somebody who has gone. *)
Parted(A, s, n, g, t, wholly) ==
  /\ n \in 0 .. Len(s) /\ t = <<>>
  /\ \E i \in 0 .. n : \E h \in Told(Len(s), A)[i] : Starts(Flat(g) \o t, h)
  /\ wholly => Flat(g) \o t \in Told(Len(s), A)[Len(s)]

(* One client's conversation; over tells whether FIN or RST has come. *)
Echoed(s, n, r, g, t, gone, over, wholly) ==
  IF gone THEN over /\ Parted(Echoings(s), s, n, g, t, wholly)
          ELSE ~over /\ Says(Echoings(s), Spoken, s, n, r, g, t, FALSE)

RightTypes ==
  /\ talk \in EchoTalks /\ sent \in [Clients -> Nat]
  /\ rx \in [Clients -> Seq(STRING)] /\ inbuffer \in Seq(STRING)
  /\ DOMAIN got = Clients /\ DOMAIN tx = Clients
  /\ batch = <<>> => inbuffer = <<>>
RightInv ==
  /\ RightTypes
  /\ \A c \in Clients \ cut :
       Echoed(Stream(talk, c), sent[c], Pend(c) \o rx[c], got[c], tx[c],
              peer[c] = "gone", c \in fin \cup rst, c \in Polite)

(* The streams are of strings. *)
LEMMA EchoTalksTyped ==
  ASSUME NEW t \in EchoTalks, NEW c \in Clients
  PROVE  /\ Stream(t, c) \in Seq(STRING) /\ Len(Stream(t, c)) \in Nat
         /\ Echo!FlattenSeq(t[c]) = Stream(t, c)
  <1>1. t[c] \in Seq(Seq(STRING))
    BY NetworkProgramsAssumption DEF Echo!EdgeEchoAssumption
  <1>2. <<>> \in Seq(STRING) OBVIOUS
  <1>3. Flat(t[c]) \in Seq(STRING) BY <1>1, <1>2, FlatAppended
  <1>4. Echo!FlattenSeq(t[c]) = Flat(t[c]) BY DEF Echo!FlattenSeq, Flat
  <1> QED BY <1>3, <1>4 DEF Stream

(* Nothing is said at first. *)
LEMMA RightInit == Echo!Init => RightInv
  <1> SUFFICES ASSUME Echo!Init PROVE RightInv OBVIOUS
  <1>1. /\ talk \in EchoTalks /\ sent = [c \in Clients |-> 0]
        /\ rst = {} /\ fin = {} /\ batch = <<>> /\ inbuffer = <<>>
        /\ got = [c \in Clients |-> <<>>] /\ rx = [c \in Clients |-> <<>>]
        /\ tx = [c \in Clients |-> <<>>] /\ peer = [c \in Clients |-> "new"]
    BY DEF Echo!Init, Echo!HostInit
  <1>2. RightTypes
    <2>1. <<>> \in Seq(STRING) OBVIOUS
    <2> QED BY <1>1, <2>1 DEF RightTypes
  <1>3. ASSUME NEW c \in Clients
        PROVE  Echoed(Stream(talk, c), sent[c], Pend(c) \o rx[c], got[c], tx[c],
                      peer[c] = "gone", c \in fin \cup rst, c \in Polite)
    <2>1. Pend(c) = <<>> /\ rx[c] = <<>> /\ got[c] = <<>> /\ tx[c] = <<>> /\ sent[c] = 0
          /\ peer[c] # "gone" /\ c \notin fin \cup rst
      BY <1>1 DEF Pend
    <2>2. Says(Echoings(Stream(talk, c)), Spoken, Stream(talk, c), 0, <<>>, <<>>, <<>>, FALSE)
      BY <1>1, EchoTalksTyped, SaysBegin
    <2>3. Pend(c) \o rx[c] = <<>> BY <2>1
    <2> QED BY <2>1, <2>2, <2>3 DEF Echoed
  <1> QED BY <1>2, <1>3 DEF RightInv

(* One client's conversation goes on, the others stay as they are. *)
LEMMA RightOne ==
  ASSUME RightInv, NEW c \in Clients, RightTypes', talk' = talk,
         cut \subseteq cut',
         \A d \in Clients \ {c} :
           /\ Pend(d)' = Pend(d) /\ sent'[d] = sent[d] /\ rx'[d] = rx[d]
           /\ got'[d] = got[d] /\ tx'[d] = tx[d] /\ (peer'[d] = "gone" <=> peer[d] = "gone")
           /\ d \in fin' \cup rst' <=> d \in fin \cup rst,
         c \notin cut' =>
           Echoed(Stream(talk, c), sent'[c], Pend(c)' \o rx'[c], got'[c], tx'[c],
                  peer'[c] = "gone", c \in fin' \cup rst', c \in Polite)
  PROVE  RightInv'
  <1>1. ASSUME NEW d \in Clients \ cut'
        PROVE  Echoed(Stream(talk, d), sent'[d], Pend(d)' \o rx'[d], got'[d], tx'[d],
                      peer'[d] = "gone", d \in fin' \cup rst', d \in Polite)
    <2>1. CASE d = c BY <1>1, <2>1
    <2>2. CASE d # c
      <3>1. Echoed(Stream(talk, d), sent[d], Pend(d) \o rx[d], got[d], tx[d],
                   peer[d] = "gone", d \in fin \cup rst, d \in Polite)
        BY <1>1 DEF RightInv
      <3>2. /\ Pend(d)' = Pend(d) /\ sent'[d] = sent[d] /\ rx'[d] = rx[d]
            /\ got'[d] = got[d] /\ tx'[d] = tx[d]
        BY <2>2
      <3>3. (peer'[d] = "gone") = (peer[d] = "gone") BY <2>2
      <3>4. (d \in fin' \cup rst') = (d \in fin \cup rst) BY <2>2
      <3> QED BY <3>1, <3>2, <3>3, <3>4, Zenon
    <2> QED BY <2>1, <2>2
  <1> QED BY <1>1 DEF RightInv


(* The reading connection has the unanswered input. *)
LEMMA PendIs ==
  ASSUME NEW c
  PROVE  /\ Pend(c) = inbuffer \/ Pend(c) = <<>>
         /\ ~(batch # <<>> /\ Head(batch) \in Echo!Owned(c)) => Pend(c) = <<>>
         /\ UNCHANGED <<fdtab, batch, inbuffer>> => Pend(c)' = Pend(c)
         /\ inbuffer' = <<>> => Pend(c)' = <<>>
  BY DEF Pend, Echo!Owned

(* What a client does. *)
LEMMA RightClient ==
  ASSUME RightInv, EchoInv, NEW c \in Clients, Echo!Client(c)
  PROVE  RightInv'
  <1> DEFINE s == Stream(talk, c)
             r == Pend(c) \o rx[c]
             over == c \in fin \cup rst
             wholly == c \in Polite
  <1>0. /\ UNCHANGED <<talk, fdtab, batch, inbuffer, cut>>
        /\ \A d \in Clients : Pend(d)' = Pend(d)
    <2>1. UNCHANGED <<talk, fdtab, batch, inbuffer, cut>>
      BY DEF Echo!Client, Echo!Connect, Echo!Send, Echo!Receive, Echo!Leave, Echo!Refuse
    <2> QED BY <2>1, PendIs
  <1>1. /\ s \in Seq(STRING) /\ Len(s) \in Nat /\ Echo!Stream(c) = s
        /\ EchoRead \in Nat \ {0} /\ peer \in [Clients -> {"new", "open", "gone"}]
        /\ RightTypes
    BY EchoTalksTyped, NetworkProgramsAssumption
       DEF RightInv, RightTypes, Echo!Stream, Echo!EdgeEchoAssumption, EchoInv, EchoTypes
  <1>2. /\ sent \in [Clients -> Nat] /\ rx \in [Clients -> Seq(STRING)]
        /\ DOMAIN got = Clients /\ DOMAIN tx = Clients
        /\ inbuffer \in Seq(STRING) /\ talk \in EchoTalks
    BY <1>1 DEF RightTypes
  <1>3. c \notin cut => Echoed(s, sent[c], r, got[c], tx[c], peer[c] = "gone", over, wholly)
    BY DEF RightInv
  <1>4. Pend(c) \in Seq(STRING) /\ rx[c] \in Seq(STRING) /\ r \in Seq(STRING)
    <2>1. <<>> \in Seq(STRING) OBVIOUS
    <2>2. Pend(c) \in Seq(STRING) BY <1>2, <2>1, PendIs
    <2>3. rx[c] \in Seq(STRING) BY <1>2
    <2> QED BY <2>2, <2>3, Concatenation
  <1> HIDE DEF s, r, over, wholly
  <1>5. CASE Echo!Connect(c)
    <2>1. /\ UNCHANGED <<sent, got, rx, tx, fin, rst>> /\ peer[c] = "new"
          /\ peer' = [peer EXCEPT ![c] = "open"]
      BY <1>5 DEF Echo!Connect
    <2>2. RightTypes' BY <1>0, <1>1, <2>1 DEF RightTypes
    <2>3. (peer'[c] = "gone") = (peer[c] = "gone")
          /\ \A d \in Clients \ {c} : peer'[d] = peer[d]
      BY <1>1, <2>1
    <2> QED BY <1>0, <1>3, <2>1, <2>2, <2>3, RightOne DEF s, r, over, wholly
  <1>6. CASE Echo!Send(c)
    <2>1. /\ sent[c] < Len(s) /\ sent' = [sent EXCEPT ![c] = sent[c] + 1]
          /\ rx' = [rx EXCEPT ![c] = Append(rx[c], s[sent'[c]])]
          /\ UNCHANGED <<got, tx, fin, rst, peer>> /\ peer[c] = "open"
      BY <1>1, <1>6 DEF Echo!Send
    <2>2. sent'[c] = sent[c] + 1 /\ sent' \in [Clients -> Nat] BY <1>2, <2>1
    <2>3. PICK x \in STRING : x = s[sent[c] + 1]
      <3>1. sent[c] + 1 \in 1 .. Len(s) BY <1>1, <1>2, <2>1
      <3>2. s[sent[c] + 1] \in STRING BY <1>1, <3>1
      <3> QED BY <3>2
    <2>4. /\ rx'[c] = Append(rx[c], x) /\ rx' \in [Clients -> Seq(STRING)]
          /\ \A d \in Clients \ {c} : sent'[d] = sent[d] /\ rx'[d] = rx[d]
      <3>1. Append(rx[c], x) \in Seq(STRING) BY <1>4, <2>3
      <3> QED BY <1>2, <2>1, <2>2, <2>3, <3>1
    <2>5. Pend(c) \o rx'[c] = Append(r, x)
      BY <1>4, <2>3, <2>4, ComesAfter DEF r
    <2>6. RightTypes' BY <1>0, <1>1, <2>1, <2>2, <2>4 DEF RightTypes
    <2>7. ASSUME c \notin cut
          PROVE  Echoed(s, sent'[c], Pend(c) \o rx'[c], got[c], tx[c], peer[c] = "gone",
                        over, wholly)
      <3>1. Says(Echoings(s), Spoken, s, sent[c], r, got[c], tx[c], FALSE) /\ ~over
        BY <1>3, <2>1, <2>7 DEF Echoed
      <3>2. Says(Echoings(s), Spoken, s, sent[c] + 1, Append(r, s[sent[c] + 1]), got[c],
                 tx[c], FALSE)
        BY <1>1, <2>1, <3>1, SaysSend
      <3> QED BY <2>1, <2>2, <2>3, <2>5, <3>1, <3>2 DEF Echoed
    <2> QED BY <1>0, <2>1, <2>4, <2>6, <2>7, RightOne DEF s, over, wholly
  <1>7. CASE Echo!Receive(c, EchoRead)
    <2>1. PICK m : m = IF Len(tx[c]) < EchoRead THEN Len(tx[c]) ELSE EchoRead OBVIOUS
    <2>2. /\ tx[c] # <<>>
          /\ got' = [got EXCEPT ![c] = Append(got[c], SubSeq(tx[c], 1, m))]
          /\ tx' = [tx EXCEPT ![c] = SubSeq(tx[c], m + 1, Len(tx[c]))]
          /\ UNCHANGED <<sent, rx, fin, rst, peer>> /\ peer[c] = "open"
      BY <1>7, <2>1 DEF Echo!Receive
    <2>3. /\ got'[c] = Append(got[c], SubSeq(tx[c], 1, m)) /\ DOMAIN got' = Clients
          /\ tx'[c] = SubSeq(tx[c], m + 1, Len(tx[c])) /\ DOMAIN tx' = Clients
          /\ \A d \in Clients \ {c} : got'[d] = got[d] /\ tx'[d] = tx[d]
      BY <1>2, <2>2
    <2>4. RightTypes' BY <1>0, <1>1, <2>2, <2>3 DEF RightTypes
    <2>5. ASSUME c \notin cut
          PROVE  Echoed(s, sent[c], r, got'[c], tx'[c], peer[c] = "gone", over, wholly)
      <3>1. Says(Echoings(s), Spoken, s, sent[c], r, got[c], tx[c], FALSE) /\ ~over
        BY <1>3, <2>2, <2>5 DEF Echoed
      <3>2. m \in 0 .. Len(tx[c])
        <4>1. tx[c] \in Seq(Spoken) BY <3>1 DEF Says
        <4>2. Len(tx[c]) \in Nat BY <4>1
        <4> QED BY <1>1, <2>1, <4>2
      <3>3. Says(Echoings(s), Spoken, s, sent[c], r, Append(got[c], SubSeq(tx[c], 1, m)),
                 SubSeq(tx[c], m + 1, Len(tx[c])), FALSE)
        BY <2>2, <3>1, <3>2, SaysReceive
      <3> QED BY <2>2, <2>3, <3>1, <3>3 DEF Echoed
    <2> QED BY <1>0, <2>2, <2>3, <2>4, <2>5, RightOne DEF s, r, over, wholly
  <1>8. CASE /\ Echo!Leave(c)
             /\ c \in Polite => /\ sent[c] = Len(s) /\ tx[c] = <<>> /\ rx[c] = <<>>
                                /\ ~(batch # <<>> /\ Head(batch) \in Echo!Owned(c))
    <2>1. /\ peer[c] = "open" /\ peer' = [peer EXCEPT ![c] = "gone"]
          /\ tx' = [tx EXCEPT ![c] = <<>>] /\ UNCHANGED <<sent, got, rx>>
          /\ c \in fin' \cup rst'
          /\ \A d : d # c => (d \in fin' \cup rst' <=> d \in fin \cup rst)
      BY <1>8 DEF Echo!Leave
    <2>2. /\ peer'[c] = "gone" /\ tx'[c] = <<>> /\ DOMAIN tx' = Clients
          /\ \A d \in Clients \ {c} : peer'[d] = peer[d] /\ tx'[d] = tx[d]
      BY <1>1, <1>2, <2>1
    <2>3. RightTypes' BY <1>0, <1>1, <2>1, <2>2 DEF RightTypes
    <2>4. ASSUME c \notin cut
          PROVE  Parted(Echoings(s), s, sent[c], got[c], <<>>, wholly)
      <3>1. Says(Echoings(s), Spoken, s, sent[c], r, got[c], tx[c], FALSE)
        BY <1>3, <2>1, <2>4 DEF Echoed
      <3>2. \E short \in BOOLEAN : Says(Echoings(s), Spoken, s, sent[c], r, got[c], <<>>, short)
        <4>1. CASE tx[c] = <<>> BY <3>1, <4>1
        <4>2. CASE tx[c] # <<>>
          <5>1. Says(Echoings(s), Spoken, s, sent[c], r, got[c], <<>>, TRUE)
            BY <1>1, <3>1, <4>2, SaysLeave
          <5> QED BY <5>1
        <4> QED BY <4>1, <4>2
      <3>3. PICK short \in BOOLEAN : Says(Echoings(s), Spoken, s, sent[c], r, got[c], <<>>, short)
        BY <3>2
      <3>4. /\ Len(r) \in 0 .. sent[c]
            /\ \E i \in 0 .. sent[c] - Len(r) : \E h \in Told(Len(s), Echoings(s))[i] :
                 Starts(Flat(got[c]) \o <<>>, h)
        BY <1>1, <3>3, SaysRight, ZenonT(30)
      <3>5. sent[c] \in 0 .. Len(s) BY <3>1 DEF Says
      <3>6. \A i \in 0 .. sent[c] - Len(r) : i \in 0 .. sent[c] BY <3>4, <3>5
      <3>7. ASSUME wholly
            PROVE  Flat(got[c]) \o <<>> \in Told(Len(s), Echoings(s))[Len(s)]
        <4>1. /\ sent[c] = Len(s) /\ tx[c] = <<>> /\ rx[c] = <<>>
              /\ ~(batch # <<>> /\ Head(batch) \in Echo!Owned(c))
          BY <1>8, <3>7 DEF wholly
        <4>2. Pend(c) = <<>> BY <4>1, PendIs
        <4>3. r = <<>> BY <4>1, <4>2 DEF r
        <4>4. Says(Echoings(s), Spoken, s, Len(s), <<>>, got[c], <<>>, FALSE)
          BY <3>1, <4>1, <4>3
        <4> QED BY <1>1, <4>4, SaysAll
      <3> QED BY <3>4, <3>5, <3>6, <3>7 DEF Parted
    <2>5. c \notin cut =>
            Echoed(s, sent[c], r, got[c], tx'[c], TRUE, c \in fin' \cup rst', wholly)
      BY <2>1, <2>2, <2>4 DEF Echoed
    <2>6. (peer'[c] = "gone") = TRUE BY <2>2
    <2>7. c \notin cut' =>
            Echoed(Stream(talk, c), sent'[c], Pend(c)' \o rx'[c], got'[c], tx'[c],
                   peer'[c] = "gone", c \in fin' \cup rst', c \in Polite)
      <3>1. Pend(c)' = Pend(c) /\ rx' = rx /\ sent' = sent /\ got' = got /\ cut' = cut
        BY <1>0, <2>1
      <3> QED BY <2>5, <2>6, <3>1 DEF s, r, wholly
    <2>8. \A d \in Clients \ {c} : /\ d \in fin' \cup rst' <=> d \in fin \cup rst
      BY <2>1
    <2>9. \A d \in Clients \ {c} : peer'[d] = "gone" <=> peer[d] = "gone" BY <2>2
    <2> QED BY <1>0, <2>1, <2>2, <2>3, <2>7, <2>8, <2>9, RightOne
  <1>9. CASE Echo!Refuse(c)
    <2>1. /\ peer[c] = "gone" /\ tx[c] # <<>> /\ UNCHANGED <<sent, got, rx, peer, fin>>
          /\ tx' = [tx EXCEPT ![c] = <<>>] /\ rst' = rst \cup {c}
      BY <1>9 DEF Echo!Refuse
    <2>2. DOMAIN tx' = Clients /\ \A d \in Clients \ {c} : tx'[d] = tx[d]
      BY <1>2, <2>1
    <2>3. RightTypes' BY <1>0, <1>1, <2>1, <2>2 DEF RightTypes
    <2>4. c \in cut BY <1>3, <2>1 DEF Echoed, Parted
    <2>5. \A d \in Clients \ {c} : d \in fin' \cup rst' <=> d \in fin \cup rst BY <2>1
    <2> QED BY <1>0, <2>1, <2>2, <2>3, <2>4, <2>5, RightOne
  <1>10. \/ Echo!Connect(c) \/ Echo!Send(c) \/ Echo!Receive(c, EchoRead) \/ Echo!Refuse(c)
         \/ /\ Echo!Leave(c)
            /\ c \in Polite => /\ sent[c] = Len(s) /\ tx[c] = <<>> /\ rx[c] = <<>>
                               /\ ~(batch # <<>> /\ Head(batch) \in Echo!Owned(c))
    BY <1>1 DEF Echo!Client
  <1> QED BY <1>5, <1>6, <1>7, <1>8, <1>9, <1>10


(* epoll_wait, accept() and its end do not concern what was read. *)
LEMMA RightAside ==
  ASSUME RightInv, EchoInv, EchoInv', Echo!EpollWait \/ Echo!Accept \/ Echo!AcceptEnds
  PROVE  RightInv'
  <1>1. UNCHANGED <<talk, sent, got, rx, tx, fin, rst, peer, cut>>
    BY DEF Echo!EpollWait, Echo!Accept, Echo!AcceptEnds, Echo!hostVars
  <1>2. \/ batch = <<>> /\ inbuffer' = inbuffer
        \/ /\ batch # <<>> /\ Head(batch) = Listener /\ batch' = batch
           /\ inbuffer' = inbuffer
        \/ /\ batch # <<>> /\ Head(batch) = Listener /\ inbuffer' = <<>>
    BY DEF Echo!EpollWait, Echo!Accept, Echo!AcceptEnds, Echo!At, Echo!Return
  <1>3. \A c : Listener \notin Echo!Owned(c) /\ Listener \notin Echo!Owned(c)'
    <2>1. DOMAIN fdtab \subseteq Fds /\ DOMAIN fdtab' \subseteq Fds /\ Listener \notin Fds
      BY NetworkProgramsAssumption DEF Echo!EdgeEchoAssumption, EchoInv, EchoTypes
    <2> QED BY <2>1 DEF Echo!Owned
  <1>4. \A c : Pend(c)' = <<>> /\ Pend(c) = <<>>
    BY <1>2, <1>3 DEF Pend, RightInv, RightTypes
  <1>5. RightTypes'
    <2>1. <<>> \in Seq(STRING) OBVIOUS
    <2>2. batch' = <<>> => inbuffer' = <<>>
      BY <1>2 DEF RightInv, RightTypes
    <2> QED BY <1>1, <1>2, <2>1, <2>2 DEF RightInv, RightTypes
  <1>6. ASSUME NEW c \in Clients \ cut
        PROVE  Echoed(Stream(talk, c), sent[c], Pend(c)' \o rx[c], got[c], tx[c],
                      peer[c] = "gone", c \in fin \cup rst, c \in Polite)
    BY <1>4, Zenon DEF RightInv
  <1> QED BY <1>1, <1>5, <1>6 DEF RightInv

(* A descriptor that is reported is the only one of its client. *)
LEMMA Reader ==
  ASSUME EchoInv, NEW fd \in Fds, Echo!At(fd)
  PROVE  /\ fd \in DOMAIN fdtab /\ fdtab[fd] \in Clients
         /\ batch # <<>> /\ Head(batch) = fd
         /\ Pend(fdtab[fd]) = inbuffer
         /\ \A d : d # fdtab[fd] => Pend(d) = <<>>
  <1>1. batch # <<>> /\ Head(batch) = fd BY DEF Echo!At
  <1>2. fd \in Members(batch) BY <1>1, FirstMember DEF EchoInv, EchoTypes
  <1>3. fd \in DOMAIN fdtab
    BY <1>2, NetworkProgramsAssumption DEF Echo!EdgeEchoAssumption, EchoInv, Reports
  <1>4. fdtab[fd] \in Clients BY <1>3 DEF EchoInv, EchoTypes
  <1> QED BY <1>1, <1>3, <1>4 DEF Pend, Echo!Owned

(* One read(). *)
LEMMA RightPart ==
  ASSUME RightInv, EchoInv, NEW fd \in Fds, Echo!RecvPart(fd)
  PROVE  RightInv'
  <1>0. PICK c \in Clients : c = fdtab[fd] BY Reader DEF Echo!RecvPart
  <1>1. PICK m : m = IF Len(rx[c]) < EchoRead THEN Len(rx[c]) ELSE EchoRead OBVIOUS
  <1>2. PICK a, b : a = SubSeq(rx[c], 1, m) /\ b = SubSeq(rx[c], m + 1, Len(rx[c])) OBVIOUS
  <1>3. /\ rx \in [Clients -> Seq(STRING)] /\ rx[c] \in Seq(STRING) /\ Len(rx[c]) \in Nat
        /\ inbuffer \in Seq(STRING) /\ EchoRead \in Nat \ {0}
    <2>1. rx[c] \in Seq(STRING) BY <1>0 DEF RightInv, RightTypes
    <2> QED BY <2>1, NetworkProgramsAssumption
            DEF RightInv, RightTypes, Echo!EdgeEchoAssumption
  <1>4. m \in 0 .. Len(rx[c]) BY <1>1, <1>3
  <1>5. a \in Seq(STRING) /\ Len(a) = m /\ b \in Seq(STRING) /\ a \o b = rx[c]
    BY <1>2, <1>3, <1>4, CutInTwo, ZenonT(30)
  <1>6. /\ inbuffer' = inbuffer \o a
        /\ rx' = [rx EXCEPT ![c] = b]
        /\ UNCHANGED <<talk, sent, got, tx, fin, rst, peer, cut, fdtab, batch>>
        /\ Echo!At(fd)
    BY <1>0, <1>1, <1>2, <1>5, ZenonT(30) DEF Echo!RecvPart, Echo!Chunk
  <1>7. /\ batch # <<>> /\ Head(batch) = fd /\ fd \in DOMAIN fdtab
        /\ Pend(c) = inbuffer /\ \A d : d # c => Pend(d) = <<>>
    BY <1>0, <1>6, Reader
  <1>8. Pend(c)' = inbuffer' /\ \A d : d # c => Pend(d)' = <<>>
    BY <1>0, <1>6, <1>7 DEF Pend, Echo!Owned
  <1>9. rx'[c] = b /\ rx' \in [Clients -> Seq(STRING)]
        /\ \A d \in Clients \ {c} : rx'[d] = rx[d]
    BY <1>0, <1>3, <1>5, <1>6
  <1>10. inbuffer' \in Seq(STRING) BY <1>3, <1>5, <1>6, Concatenation
  <1>11. RightTypes' BY <1>6, <1>7, <1>9, <1>10 DEF RightInv, RightTypes
  <1>12. Pend(c)' \o rx'[c] = Pend(c) \o rx[c]
    <2>0. \A x, y, z \in Seq(STRING) : (x \o y) \o z = x \o (y \o z) BY Associated
    <2>1. (inbuffer \o a) \o b = inbuffer \o (a \o b) BY <1>3, <1>5, <2>0, Zenon
    <2> QED BY <1>5, <1>6, <1>7, <1>8, <1>9, <2>1
  <1>13. c \notin cut =>
           Echoed(Stream(talk, c), sent[c], Pend(c)' \o rx'[c], got[c], tx[c],
                  peer[c] = "gone", c \in fin \cup rst, c \in Polite)
    BY <1>0, <1>12, Zenon DEF RightInv
  <1>14. \A d \in Clients \ {c} :
           /\ Pend(d)' = Pend(d) /\ sent'[d] = sent[d] /\ rx'[d] = rx[d]
           /\ got'[d] = got[d] /\ tx'[d] = tx[d]
           /\ peer'[d] = "gone" <=> peer[d] = "gone"
           /\ d \in fin' \cup rst' <=> d \in fin \cup rst
    BY <1>6, <1>7, <1>8, <1>9
  <1>15. c \notin cut' =>
           Echoed(Stream(talk, c), sent'[c], Pend(c)' \o rx'[c], got'[c], tx'[c],
                  peer'[c] = "gone", c \in fin' \cup rst', c \in Polite)
    BY <1>6, <1>13
  <1>16. talk' = talk /\ cut \subseteq cut' BY <1>6
  <1> QED BY <1>0, <1>11, <1>14, <1>15, <1>16, RightOne

(* The connection has ended: nothing more will be said to it. *)
LEMMA RightEnds ==
  ASSUME RightInv, EchoInv, NEW fd \in Fds, Echo!RecvEnds(fd)
  PROVE  RightInv'
  <1>0. PICK c \in Clients : c = fdtab[fd] BY Reader DEF Echo!RecvEnds
  <1>1. /\ UNCHANGED <<talk, sent, got, rx, tx, fin, rst, peer, cut>>
        /\ inbuffer' = <<>> /\ c \in fin \cup rst /\ Echo!At(fd)
    BY <1>0 DEF Echo!RecvEnds, Echo!Ended, Echo!hostVars, Echo!Return
  <1>2. (\A d : d # c => Pend(d) = <<>>) /\ \A d : Pend(d)' = <<>>
    BY <1>0, <1>1, Reader, PendIs
  <1>3. RightTypes'
    <2>1. <<>> \in Seq(STRING) OBVIOUS
    <2> QED BY <1>1, <2>1 DEF RightInv, RightTypes
  <1>4. c \notin cut =>
          Echoed(Stream(talk, c), sent[c], Pend(c)' \o rx[c], got[c], tx[c],
                 peer[c] = "gone", c \in fin \cup rst, c \in Polite)
    <2>1. c \notin cut =>
            Echoed(Stream(talk, c), sent[c], Pend(c) \o rx[c], got[c], tx[c],
                   peer[c] = "gone", c \in fin \cup rst, c \in Polite)
      BY <1>0 DEF RightInv
    <2> QED BY <1>1, <2>1 DEF Echoed
  <1> QED BY <1>0, <1>1, <1>2, <1>3, <1>4, RightOne

(* All that was read is echoed, unless write() has no room for all of it. *)
LEMMA RightAgain ==
  ASSUME RightInv, EchoInv, NEW fd \in Fds, Echo!RecvAgain(fd)
  PROVE  RightInv'
  <1>0. PICK c \in Clients : c = fdtab[fd] BY Reader DEF Echo!RecvAgain
  <1>1. PICK e, room : /\ e = IF inbuffer = <<>> THEN <<>> ELSE <<"echo">> \o inbuffer
                       /\ room = TxCap - Len(tx[c])
    OBVIOUS
  <1>2. /\ UNCHANGED <<talk, sent, got, rx, fin, rst, peer>>
        /\ inbuffer' = <<>> /\ rx[c] = <<>> /\ c \notin fin \cup rst /\ Echo!At(fd)
        /\ tx' = [tx EXCEPT ![c] = tx[c] \o SubSeq(e, 1, IF room < Len(e) THEN room ELSE Len(e))]
        /\ cut' = IF room < Len(e) THEN cut \cup {c} ELSE cut
    BY <1>0, <1>1 DEF Echo!RecvAgain, Echo!Ended, Echo!Return
  <1>3. (\A d : d # c => Pend(d) = <<>>) /\ (\A d : Pend(d)' = <<>>) /\ Pend(c) = inbuffer
    BY <1>0, <1>2, Reader, PendIs
  <1>4. DOMAIN tx' = Clients /\ \A d \in Clients \ {c} : tx'[d] = tx[d]
    BY <1>2 DEF RightInv, RightTypes
  <1>5. RightTypes'
    <2>1. <<>> \in Seq(STRING) OBVIOUS
    <2> QED BY <1>2, <1>4, <2>1 DEF RightInv, RightTypes
  <1> DEFINE s == Stream(talk, c)
  <1>6. s \in Seq(STRING) /\ inbuffer \in Seq(STRING)
    BY <1>0, EchoTalksTyped DEF RightInv, RightTypes
  <1>7. inbuffer \in Seq(Spoken)
    <2>1. \A i \in 1 .. Len(inbuffer) : inbuffer[i] \in Spoken BY <1>6 DEF Spoken
    <2> QED BY <1>6, <2>1, Retyped
  <1>8. e \in Seq(Spoken)
    <2>1. <<>> \in Seq(Spoken) /\ <<"echo">> \in Seq(Spoken) BY DEF Spoken
    <2>2. <<"echo">> \o inbuffer \in Seq(Spoken) BY <1>7, <2>1, Concatenation
    <2> QED BY <1>1, <2>1, <2>2
  <1>9. ASSUME c \notin cut'
        PROVE  Echoed(s, sent[c], Pend(c)' \o rx[c], got[c], tx'[c], peer[c] = "gone",
                      c \in fin \cup rst, c \in Polite)
    <2>1. c \notin cut /\ ~(room < Len(e)) BY <1>2, <1>9
    <2>2. tx'[c] = tx[c] \o e
      <3>1. SubSeq(e, 1, Len(e)) = e BY <1>8, AllOf
      <3> QED BY <1>0, <1>2, <2>1, <3>1 DEF RightInv, RightTypes
    <2>3. Echoed(s, sent[c], inbuffer \o <<>>, got[c], tx[c], peer[c] = "gone",
                 c \in fin \cup rst, c \in Polite)
      BY <1>0, <1>2, <1>3, <2>1, Zenon DEF RightInv
    <2>4. inbuffer \o <<>> = inbuffer /\ <<>> \o <<>> = <<>> BY <1>6
    <2>5. /\ peer[c] # "gone"
          /\ Says(Echoings(s), Spoken, s, sent[c], inbuffer, got[c], tx[c], FALSE)
      BY <1>2, <2>3, <2>4 DEF Echoed
    <2> HIDE DEF s
    <2>6. Says(Echoings(s), Spoken, s, sent[c], <<>>, got[c], tx[c] \o e, FALSE)
      <3>1. CASE inbuffer = <<>>
        <4>1. tx[c] \in Seq(Spoken) BY <2>5 DEF Says
        <4>2. tx[c] \o e = tx[c] BY <1>1, <3>1, <4>1
        <4> QED BY <2>5, <3>1, <4>2
      <3>2. CASE inbuffer # <<>>
        <4>1. PICK m \in 1 .. Len(inbuffer) : m = Len(inbuffer)
          <5>1. Len(inbuffer) \in 1 .. Len(inbuffer) BY <1>6, <3>2
          <5> QED BY <5>1
        <4>2. SubSeq(inbuffer, 1, m) = inbuffer BY <1>6, <4>1, AllOf
        <4>3. SubSeq(inbuffer, m + 1, Len(inbuffer)) = <<>> BY <1>6, <4>1
        <4>4. ASSUME NEW k \in 0 .. sent[c] - m,
                     SubSeq(inbuffer, 1, m) = SubSeq(s, k + 1, k + m)
              PROVE  e \in Echoings(s)[k + 1][k + m]
          <5>1. sent[c] \in 0 .. Len(s) /\ Len(s) \in Nat BY <1>6, <2>5 DEF Says
          <5>2. m \in Nat /\ m > 0 BY <4>1
          <5>3. k + 1 \in 1 .. Len(s) /\ k + m \in 1 .. Len(s) BY <5>1, <5>2
          <5>4. Echoings(s)[k + 1][k + m] = {<<"echo">> \o SubSeq(s, k + 1, k + m)}
            BY <5>3 DEF Echoings
          <5> QED BY <1>1, <3>2, <4>2, <4>4, <5>4
        <4>5. Says(Echoings(s), Spoken, s, sent[c], SubSeq(inbuffer, m + 1, Len(inbuffer)),
                   got[c], tx[c] \o e, FALSE)
          BY <1>6, <1>8, <2>5, <4>1, <4>4, SaysRead
        <4> QED BY <4>3, <4>5
      <3> QED BY <3>1, <3>2
    <2>7. Pend(c)' \o rx[c] = <<>> BY <1>2, <1>3, <2>4
    <2> QED BY <1>2, <2>2, <2>5, <2>6, <2>7 DEF Echoed
  <1>10. talk' = talk /\ cut \subseteq cut' BY <1>2
  <1>11. \A d \in Clients \ {c} :
           /\ Pend(d)' = Pend(d) /\ sent'[d] = sent[d] /\ rx'[d] = rx[d]
           /\ got'[d] = got[d] /\ tx'[d] = tx[d]
           /\ peer'[d] = "gone" <=> peer[d] = "gone"
           /\ d \in fin' \cup rst' <=> d \in fin \cup rst
    BY <1>2, <1>3, <1>4
  <1>12. c \notin cut' =>
           Echoed(Stream(talk, c), sent'[c], Pend(c)' \o rx'[c], got'[c], tx'[c],
                  peer'[c] = "gone", c \in fin' \cup rst', c \in Polite)
    BY <1>2, <1>9
  <1> QED BY <1>0, <1>5, <1>10, <1>11, <1>12, RightOne

(* Every step of the part keeps both its invariants. *)
LEMMA RightNext ==
  ASSUME RightInv, EchoInv, Echo!Server \/ \E c \in Clients : Echo!Client(c)
  PROVE  RightInv' /\ EchoInv'
  <1>1. EchoInv' BY EchoNext
  <1> QED BY <1>1, RightClient, RightAside, RightPart, RightEnds, RightAgain
          DEF Echo!Server

(* A step that changes none of it keeps it. *)
LEMMA RightKept ==
  ASSUME RightInv, UNCHANGED <<talk, sent, got, rx, tx, fin, rst, peer, cut, fdtab, batch,
                               inbuffer>>
  PROVE  RightInv'
  <1>1. \A c : Pend(c)' = Pend(c) BY PendIs
  <1> QED BY <1>1 DEF RightInv, RightTypes

(* What a client has got is an echo of what it sent. *)
LEMMA RightAnswers == RightInv => Echo!AnswersRight
  <1> SUFFICES ASSUME RightInv, NEW c \in Clients \ cut
               PROVE  LET g == Echo!FlattenSeq(got[c]) \o tx[c]
                      IN  /\ \E i \in 0 .. sent[c] : \E h \in Echo!Echoes(Echo!Stream(c))[i] :
                               Echo!IsPrefix(g, h)
                          /\ c \in Polite /\ peer[c] = "gone" =>
                               g \in Echo!Echoes(Echo!Stream(c))[Len(Echo!Stream(c))]
    BY DEF Echo!AnswersRight
  <1> DEFINE s == Stream(talk, c)
             A == Echoings(s)
             g == Flat(got[c]) \o tx[c]
  <1>1. s \in Seq(STRING) /\ Echo!Stream(c) = s
    BY EchoTalksTyped DEF RightInv, RightTypes, Echo!Stream
  <1>2. Echoed(s, sent[c], Pend(c) \o rx[c], got[c], tx[c], peer[c] = "gone",
               c \in fin \cup rst, c \in Polite)
    BY DEF RightInv
  <1>3. Echo!Echoes(s) = Told(Len(s), A)
    BY DEF Echo!Echoes, Echo!Said, Told, Further, Echoings
  <1>4. Echo!FlattenSeq(got[c]) = Flat(got[c]) BY DEF Echo!FlattenSeq, Flat
  <1>5. ASSUME NEW x, NEW y PROVE Echo!IsPrefix(x, y) <=> Starts(x, y)
    BY DEF Echo!IsPrefix, Starts
  <1> HIDE DEF s
  <1>6. \E i \in 0 .. sent[c] : \E h \in Told(Len(s), A)[i] : Starts(g, h)
    <2>1. CASE peer[c] = "gone" BY <1>2, <2>1 DEF Echoed, Parted
    <2>2. CASE peer[c] # "gone"
      <3>1. PICK r : r = Pend(c) \o rx[c] OBVIOUS
      <3>2. Says(A, Spoken, s, sent[c], r, got[c], tx[c], FALSE)
        BY <1>2, <2>2, <3>1 DEF Echoed
      <3>3. /\ Len(r) \in 0 .. sent[c]
            /\ \E i \in 0 .. sent[c] - Len(r) : \E h \in Told(Len(s), A)[i] :
                 Starts(Flat(got[c]) \o tx[c], h)
        BY <1>1, <3>2, SaysRight
      <3>4. sent[c] \in 0 .. Len(s) BY <3>2 DEF Says
      <3>5. \A i \in 0 .. sent[c] - Len(r) : i \in 0 .. sent[c] BY <3>3, <3>4
      <3> QED BY <3>3, <3>5
    <2> QED BY <2>1, <2>2
  <1>7. c \in Polite /\ peer[c] = "gone" => g \in Told(Len(s), A)[Len(s)]
    BY <1>2 DEF Echoed, Parted
  <1> HIDE DEF A
  <1> QED BY <1>1, <1>3, <1>4, <1>5, <1>6, <1>7

-----------------------------------------------------------------------------
(* The select server of 11 and the poll server of 12.                      *)

(* What is to be watched. *)
Open == {Listener} \cup (DOMAIN fdtab \ {0})
          \cup IF kind = "select" /\ stdin # "closed" THEN {0} ELSE {}
Most == Cardinality(Fds) + IF kind = "select" THEN 2 ELSE 1

MuxTypes ==
  /\ kind \in {"select", "poll"} /\ stdin \in {"open", "typed", "eof", "closed"}
  /\ cur \in Nat /\ DOMAIN fdtab \subseteq Fds \cup {0}

(* Only once stdin is closed can accept() return 0, and then 0 stays open  *)
(* and is watched by nobody.                                               *)
MuxInv ==
  /\ MuxTypes
  /\ Lists(table, Open, NoFd) /\ Len(table) <= Most
  /\ kind = "select" => Full(table, NoFd)
  /\ kind = "poll" => stdin = "open"
  /\ 0 \in DOMAIN fdtab => stdin = "closed"
  /\ lost # {} => 0 \in DOMAIN fdtab
  /\ \A c, d \in lost : c = d

(* 0, the listening descriptor, those of connections and the mark of a     *)
(* free slot are different.                                                *)
LEMMA SlotsApart ==
  /\ IsFiniteSet(Fds) /\ Cardinality(Fds) \in Nat /\ Fds \subseteq Nat
  /\ 0 \notin Fds /\ Listener \notin Fds /\ NoFd \notin Fds
  /\ 0 # Listener /\ 0 # NoFd /\ Listener # NoFd
  <1>1. IsFiniteSet(Fds)
    BY NetworkProgramsAssumption DEF Mux!MuxServersAssumption, Mux!IsFiniteSet, IsFiniteSet
  <1>2. Cardinality(Fds) \in Nat BY <1>1, FS_CardinalityType
  <1> QED BY <1>1, <1>2, NetworkProgramsAssumption DEF Mux!MuxServersAssumption

(* The table with a descriptor more: Enter fills a free slot where there   *)
(* is one.                                                                 *)
LEMMA EnterLists ==
  ASSUME NEW names, Lists(table, names, NoFd), NEW fd, fd \notin names, fd # NoFd
  PROVE  /\ Lists(Mux!Enter(fd), names \cup {fd}, NoFd)
         /\ Full(table, NoFd) => Full(Mux!Enter(fd), NoFd)
         /\ ~Full(table, NoFd) => Len(Mux!Enter(fd)) = Len(table)
  <1> DEFINE free == {i \in DOMAIN table : table[i] = NoFd}
  <1>0. table \in Seq(names \cup {NoFd}) /\ DOMAIN table = 1 .. Len(table) BY DEF Lists
  <1>1. CASE Full(table, NoFd)
    <2>1. free = {} BY <1>0, <1>1 DEF Full
    <2>2. Mux!Enter(fd) = Append(table, fd) BY <2>1 DEF Mux!Enter
    <2>3. /\ Lists(Append(table, fd), names \cup {fd}, NoFd)
          /\ Full(Append(table, fd), NoFd)
      BY <1>1, Lengthened
    <2> HIDE DEF free
    <2> QED BY <1>1, <2>2, <2>3
  <1>2. CASE ~Full(table, NoFd)
    <2> PICK k : k = CHOOSE i \in free : \A j \in free : i <= j OBVIOUS
    <2>1. k \in free BY <1>0, <1>2, FirstFree
    <2>2. free # {} /\ k \in 1 .. Len(table) /\ table[k] = NoFd BY <1>0, <2>1
    <2>3. Mux!Enter(fd) = With(table, k, fd) BY <2>2 DEF Mux!Enter, With
    <2> HIDE DEF free
    <2>4. /\ Lists(With(table, k, fd), names \cup {fd}, NoFd)
          /\ Len(With(table, k, fd)) = Len(table)
      BY <2>2, Filled
    <2> QED BY <1>2, <2>3, <2>4
  <1> QED BY <1>1, <1>2

(* The table without the descriptor at hand: Drop frees its slot or erases *)
(* it.                                                                     *)
LEMMA DropLists ==
  ASSUME NEW names, Lists(table, names, NoFd),
         cur \in 1 .. Len(table), NEW fd \in names, table[cur] = fd
  PROVE  /\ Lists(Mux!Drop, names \ {fd}, NoFd)
         /\ Len(Mux!Drop) <= Len(table)
         /\ kind # "poll" /\ Full(table, NoFd) => Full(Mux!Drop, NoFd)
  <1>0. Len(table) \in Nat BY DEF Lists
  <1> PICK k \in 1 .. Len(table) : k = cur OBVIOUS
  <1>1. CASE kind = "poll"
    <2>1. Mux!Drop = With(table, k, NoFd) BY <1>1 DEF Mux!Drop, With
    <2> QED BY <1>0, <1>1, <2>1, Freed
  <1>2. CASE kind # "poll"
    <2>1. Mux!Drop = Without(table, k) BY <1>2 DEF Mux!Drop, Without
    <2>2. /\ Lists(Without(table, k), names \ {fd}, NoFd)
          /\ Len(Without(table, k)) = Len(table) - 1
          /\ Full(table, NoFd) => Full(Without(table, k), NoFd)
      BY Shortened
    <2> PICK n \in Nat : n = Len(table) BY <1>0
    <2>3. Len(Without(table, k)) = n - 1 /\ n - 1 <= n BY <2>2
    <2>4. Len(Mux!Drop) <= Len(table) BY <2>1, <2>3
    <2> QED BY <1>2, <2>1, <2>2, <2>4
  <1> QED BY <1>1, <1>2

(* Both tables name the listening descriptor, and select's 0. *)
LEMMA MuxInit == Mux!Init => MuxInv
  <1> SUFFICES ASSUME Mux!Init PROVE MuxInv OBVIOUS
  <1>1. /\ fdtab = <<>> /\ DOMAIN fdtab = {} /\ cur = 0 /\ stdin = "open" /\ lost = {}
        /\ \/ kind = "select" /\ table = <<0, Listener>>
           \/ kind = "poll" /\ table = <<Listener>>
    BY DEF Mux!Init
  <1>2. MuxTypes BY <1>1 DEF MuxTypes
  <1>3. Lists(table, Open, NoFd) /\ Len(table) <= Most /\ (kind = "select" => Full(table, NoFd))
    <2>1. CASE kind = "select" /\ table = <<0, Listener>>
      <3>1. /\ Len(table) = 2 /\ table[1] = 0 /\ table[2] = Listener
            /\ 1 \in 1 .. Len(table) /\ 2 \in 1 .. Len(table)
            /\ \A i \in 1 .. Len(table) : i = 1 \/ i = 2
        BY <2>1
      <3>2. Open = {Listener, 0} BY <1>1, <2>1 DEF Open
      <3>3. table \in Seq({Listener, 0} \cup {NoFd}) BY <2>1
      <3>4. Lists(table, Open, NoFd) BY <3>1, <3>2, <3>3, SlotsApart DEF Lists
      <3>5. Full(table, NoFd) BY <3>1, SlotsApart DEF Full
      <3>6. Len(table) <= Most BY <2>1, <3>1, SlotsApart DEF Most
      <3> QED BY <3>4, <3>5, <3>6
    <2>2. CASE kind = "poll" /\ table = <<Listener>>
      <3>1. /\ Len(table) = 1 /\ table[1] = Listener
            /\ 1 \in 1 .. Len(table) /\ \A i \in 1 .. Len(table) : i = 1
        BY <2>2
      <3>2. Open = {Listener} BY <1>1, <2>2 DEF Open
      <3>3. table \in Seq({Listener} \cup {NoFd}) BY <2>2
      <3>4. Lists(table, Open, NoFd) BY <3>1, <3>2, <3>3, SlotsApart DEF Lists
      <3>6. Len(table) <= Most BY <2>2, <3>1, SlotsApart DEF Most
      <3> QED BY <2>2, <3>4, <3>6
    <2> QED BY <1>1, <2>1, <2>2
  <1> QED BY <1>1, <1>2, <1>3 DEF MuxInv

(* A step that opens and closes nothing: only stdin may be typed or read,  *)
(* and the scan goes on.                                                   *)
LEMMA MuxQuiet ==
  ASSUME MuxInv, UNCHANGED <<kind, fdtab, table, lost>>, cur' \in Nat,
         \/ stdin' = stdin
         \/ /\ kind = "select" /\ stdin # "closed"
            /\ stdin' \in {"open", "typed", "eof"}
  PROVE  MuxInv'
  <1>1. MuxTypes' BY DEF MuxInv, MuxTypes
  <1>2. UNCHANGED <<Open, Most>> BY DEF Open, Most
  <1>3. Lists(table', Open', NoFd) /\ Len(table') <= Most' /\ (kind' = "select" => Full(table', NoFd))
    BY <1>2 DEF MuxInv
  <1>4. /\ kind' = "poll" => stdin' = "open"
        /\ 0 \in DOMAIN fdtab' => stdin' = "closed"
        /\ lost' # {} => 0 \in DOMAIN fdtab'
        /\ \A c, d \in lost' : c = d
    BY DEF MuxInv
  <1> QED BY <1>1, <1>3, <1>4 DEF MuxInv

(* accept() returns a descriptor that is free. *)
LEMMA MuxLowest ==
  ASSUME Mux!FreeFds # {}
  PROVE  Mux!LowestFree \in (Fds \cup IF stdin = "closed" THEN {0} ELSE {}) \ DOMAIN fdtab
  <1>1. Mux!FreeFds \in SUBSET Nat
    <2>1. \A fd \in Mux!FreeFds : fd \in Fds \/ fd = 0 BY DEF Mux!FreeFds
    <2>2. Fds \subseteq Nat /\ 0 \in Nat BY SlotsApart
    <2>3. \A fd \in Mux!FreeFds : fd \in Nat BY <2>1, <2>2
    <2> QED BY <2>3
  <1>2. \E fd \in Mux!FreeFds : \A g \in Mux!FreeFds : fd <= g BY <1>1, LeastMember
  <1> QED BY <1>2 DEF Mux!LowestFree, Mux!FreeFds

(* A connection is entered into the table; where it gets 0 it is lost, and *)
(* no other will be.                                                       *)
LEMMA MuxAccept ==
  ASSUME MuxInv, Mux!Accept
  PROVE  MuxInv'
  <1>1. UNCHANGED <<kind, stdin>> /\ cur' = cur + 1 /\ cur \in Nat /\ cur' \in Nat
    BY DEF Mux!Accept, MuxInv, MuxTypes
  <1>2. CASE Mux!FreeFds = {}
    BY <1>1, <1>2, MuxQuiet DEF Mux!Accept
  <1>3. CASE Mux!FreeFds # {}
    <2> PICK fd : fd = Mux!LowestFree OBVIOUS
    <2>1. /\ fd \in Fds \cup {0} /\ fd \notin DOMAIN fdtab
          /\ fd = 0 => stdin = "closed"
      BY <1>3, MuxLowest, SlotsApart
    <2>2. DOMAIN fdtab' = DOMAIN fdtab \cup {fd}
      BY <1>3 DEF Mux!Accept
    <2>3. MuxTypes' BY <1>1, <2>1, <2>2 DEF MuxInv, MuxTypes
    <2>4. CASE fd = 0
      <3>1. table' = table /\ lost' = lost \cup {Head(backlog)}
        BY <1>3, <2>4 DEF Mux!Accept
      <3>2. UNCHANGED <<Open, Most>> BY <1>1, <2>2, <2>4 DEF Open, Most
      <3>3. lost = {} BY <2>1, <2>4 DEF MuxInv
      <3>4. stdin' = "closed" /\ 0 \in DOMAIN fdtab' BY <1>1, <2>1, <2>2, <2>4
      <3> QED BY <1>1, <2>3, <3>1, <3>2, <3>3, <3>4 DEF MuxInv
    <2>5. CASE fd # 0
      <3>1. table' = Mux!Enter(fd) /\ lost' = lost BY <1>3, <2>5 DEF Mux!Accept
      <3>2. Open' = Open \cup {fd} /\ Most' = Most
        BY <1>1, <2>1, <2>2, <2>5 DEF Open, Most
      <3>3. /\ fd \notin Open /\ fd # NoFd /\ NoFd \notin Open
        BY <2>1, <2>5, SlotsApart DEF Open, MuxInv, MuxTypes
      <3>4. /\ Lists(table', Open', NoFd) /\ (Full(table, NoFd) => Full(table', NoFd))
            /\ (~Full(table, NoFd) => Len(table') = Len(table))
        BY <3>1, <3>2, <3>3, EnterLists DEF MuxInv
      <3>5. Len(table') <= Most'
        <4>1. CASE Full(table, NoFd)
          <5> DEFINE S == Fds \cup {Listener} \cup IF kind = "select" THEN {0} ELSE {}
          <5>1. Open' \subseteq S
            BY <1>1, <2>1, <2>3 DEF Open, MuxInv, MuxTypes
          <5>2. IsFiniteSet(S) /\ Cardinality(S) = Most'
            <6>1. /\ IsFiniteSet(Fds \cup {Listener})
                  /\ Cardinality(Fds \cup {Listener}) = Cardinality(Fds) + 1
              BY SlotsApart, FS_AddElement
            <6>2. /\ IsFiniteSet((Fds \cup {Listener}) \cup {0})
                  /\ Cardinality((Fds \cup {Listener}) \cup {0}) = Cardinality(Fds) + 1 + 1
              BY <6>1, SlotsApart, FS_AddElement
            <6>3. CASE kind = "select"
              <7>1. S = (Fds \cup {Listener}) \cup {0} BY <6>3
              <7>2. Most' = Cardinality(Fds) + 2 BY <1>1, <6>3 DEF Most
              <7> HIDE DEF S
              <7> QED BY <6>2, <7>1, <7>2, SlotsApart
            <6>4. CASE kind # "select"
              <7>1. S = Fds \cup {Listener} BY <6>4
              <7>2. Most' = Cardinality(Fds) + 1 BY <1>1, <6>4 DEF Most
              <7> HIDE DEF S
              <7> QED BY <6>1, <7>1, <7>2
            <6> QED BY <6>3, <6>4
          <5> HIDE DEF S
          <5>3. Full(table', NoFd) BY <3>4, <4>1
          <5>4. Len(table') <= Cardinality(S) BY <3>4, <5>1, <5>2, <5>3, LengthBound
          <5> QED BY <5>2, <5>4
        <4>2. CASE ~Full(table, NoFd) BY <3>2, <3>4, <4>2 DEF MuxInv
        <4> QED BY <4>1, <4>2
      <3>6. /\ kind' = "select" => Full(table', NoFd)
            /\ kind' = "poll" => stdin' = "open"
        BY <1>1, <3>4 DEF MuxInv
      <3>7. /\ 0 \in DOMAIN fdtab' => stdin' = "closed"
            /\ lost' # {} => 0 \in DOMAIN fdtab'
            /\ \A c, d \in lost' : c = d
        BY <1>1, <2>2, <2>5, <3>1 DEF MuxInv
      <3> QED BY <2>3, <3>4, <3>5, <3>6, <3>7 DEF MuxInv
    <2> QED BY <2>4, <2>5
  <1> QED BY <1>2, <1>3

(* A connection or stdin has ended: its descriptor is closed and leaves    *)
(* the table in the same step.                                             *)
LEMMA MuxReadEnds ==
  ASSUME MuxInv, NEW fd \in Fds \cup {0}, Mux!ReadEnds(fd)
  PROVE  MuxInv'
  <1>0. /\ cur \in 1 .. Len(table) /\ table[cur] = fd /\ table' = Mux!Drop
        /\ UNCHANGED <<kind, lost>> /\ cur' \in Nat
    BY DEF Mux!ReadEnds, Mux!Current, Mux!After, MuxInv, MuxTypes, Lists
  <1>1. fd \in Open /\ NoFd \notin Open
    BY <1>0, SlotsApart DEF MuxInv, MuxTypes, Lists, Open
  <1>2. /\ Lists(table', Open \ {fd}, NoFd) /\ Len(table') <= Len(table)
        /\ kind = "select" => Full(table', NoFd)
    BY <1>0, <1>1, DropLists DEF MuxInv
  <1>3. Len(table) \in Nat /\ Len(table') \in Nat /\ Most' = Most /\ Most \in Nat
    <2>1. Len(table) \in Nat /\ Len(table') \in Nat BY <1>2 DEF Lists, MuxInv
    <2> QED BY <1>0, <2>1, SlotsApart DEF Most
  <1>4. Len(table') <= Most' BY <1>2, <1>3 DEF MuxInv
  <1>5. CASE fd = 0 /\ stdin = "eof" /\ stdin' = "closed" /\ fdtab' = fdtab
    <2>1. kind = "select" BY <1>5 DEF MuxInv, MuxTypes
    <2>2. Open' = Open \ {fd} BY <1>0, <1>5, <2>1, SlotsApart DEF Open
    <2> QED BY <1>0, <1>2, <1>4, <1>5, <2>1, <2>2 DEF MuxInv, MuxTypes
  <1>6. CASE /\ fd \in DOMAIN fdtab /\ stdin' = stdin
             /\ fdtab' = [g \in DOMAIN fdtab \ {fd} |-> fdtab[g]]
    <2>1. fd # 0
      BY <1>1, <1>6, SlotsApart DEF MuxInv, Open
    <2>2. DOMAIN fdtab' = DOMAIN fdtab \ {fd} BY <1>6
    <2>3. Open' = Open \ {fd} BY <1>0, <1>6, <2>1, <2>2, SlotsApart DEF Open
    <2> QED BY <1>0, <1>2, <1>4, <1>6, <2>1, <2>2, <2>3 DEF MuxInv, MuxTypes
  <1> QED BY <1>5, <1>6 DEF Mux!ReadEnds

(* Every step of the part keeps its invariant. *)
LEMMA MuxNext ==
  ASSUME MuxInv, Mux!Server \/ Mux!Type \/ \E c \in Clients : Mux!Client(c)
  PROVE  MuxInv'
  <1>0. cur \in Nat /\ cur + 1 \in Nat BY DEF MuxInv, MuxTypes
  <1>1. CASE Mux!Wait \/ Mux!Skip
    BY <1>0, <1>1, MuxQuiet DEF Mux!Wait, Mux!Skip
  <1>2. ASSUME NEW fd, Mux!Read(fd) PROVE MuxInv'
    <2>1. stdin = "typed" => kind = "select" BY DEF MuxInv, MuxTypes
    <2> QED BY <1>0, <1>2, <2>1, MuxQuiet DEF Mux!Read
  <1>3. CASE Mux!Type
    BY <1>0, <1>3, MuxQuiet DEF Mux!Type
  <1>4. CASE \E c \in Clients : Mux!Client(c)
    BY <1>0, <1>4, MuxQuiet DEF Mux!Client, Mux!muxVars
  <1> QED BY <1>1, <1>2, <1>3, <1>4, MuxAccept, MuxReadEnds DEF Mux!Server

(* The invariant in the words of the property. *)
LEMMA MuxDescriptors == MuxInv => Mux!DescriptorsAccounted
  <1> SUFFICES ASSUME MuxInv PROVE Mux!DescriptorsAccounted OBVIOUS
  <1> DEFINE listed == {i \in DOMAIN table : table[i] # NoFd}
  <1>0. DOMAIN table = 1 .. Len(table) BY DEF MuxInv, Lists
  <1>1. \A i, j \in listed : table[i] = table[j] => i = j BY <1>0 DEF MuxInv, Lists
  <1>2. {table[i] : i \in listed} = Open
    <2>1. NoFd \notin Open BY SlotsApart DEF MuxInv, MuxTypes, Open
    <2>2. \A i \in listed : table[i] \in Open BY <1>0 DEF MuxInv, Lists
    <2>3. \A fd \in Open : \E i \in listed : table[i] = fd
      BY <1>0, <2>1 DEF MuxInv, Lists
    <2> QED BY <2>2, <2>3
  <1>3. Mux!Cardinality(Fds) = Cardinality(Fds) BY DEF Mux!Cardinality, Cardinality
  <1>4. Len(table) <= Mux!Cardinality(Fds) + (IF kind = "select" THEN 2 ELSE 1)
    BY <1>3 DEF MuxInv, Most
  <1>5. (\A c, d \in lost : c = d) /\ (lost # {} => stdin = "closed")
    BY DEF MuxInv
  <1> QED BY <1>1, <1>2, <1>4, <1>5 DEF Mux!DescriptorsAccounted, Open

-----------------------------------------------------------------------------
(* The calculator of 08: its framing, for messages of any length, its       *)
(* arithmetic, and what its clients are shown.                             *)

Unit == Int \cup STRING \cup {Sep}

(* Euclid: for positive b there is one way to write a as q * b + r.  *)
LEMMA Divided ==
  ASSUME NEW a \in Nat, NEW b \in Nat \ {0}
  PROVE  \E q \in Nat, r \in 0 .. b - 1 : a = q * b + r /\ a \div b = q
  <1>1. a \div b \in Nat /\ a % b \in 0 .. b - 1 OBVIOUS
  <1>2. a = b * (a \div b) + (a % b) OBVIOUS
  <1> QED BY <1>1, <1>2
(* Nothing is lost of a number that an int holds. *)
LEMMA Wrapped ==
  ASSUME NEW n \in IntMin .. IntMax, IntMin \in Int, IntMax \in Nat, IntMin = -IntMax - 1
  PROVE Calc!Wrap(n) = n
  <1> PICK N \in Nat \ {0} : N = IntMax - IntMin + 1 OBVIOUS
  <1>1. n - IntMin \in 0 .. N - 1 OBVIOUS
  <1>2. \A a \in 0 .. N - 1 : a % N = a OBVIOUS
  <1>3. (n - IntMin) % (IntMax - IntMin + 1) = n - IntMin BY <1>1, <1>2
  <1> QED BY <1>3 DEF Calc!Wrap

(* Division of ints as the build does it: towards zero.                    *)
LEMMA Truncated ==
  ASSUME NEW x \in Int, NEW y \in Int \ {0}
  PROVE  \E q, r \in Int :
           /\ q = Calc!Quotient(x, y) /\ x = q * y + r
           /\ Calc!Abs(r) < Calc!Abs(y) /\ (r = 0 \/ Calc!Sign(r) = Calc!Sign(x))
           /\ Calc!Abs(q) <= Calc!Abs(x)
  <1> PICK a \in Nat, b \in Nat \ {0} : a = Calc!Abs(x) /\ b = Calc!Abs(y) BY DEF Calc!Abs
  <1>1. PICK k \in Nat, m \in 0 .. b - 1 : a = k * b + m /\ a \div b = k BY Divided
  <1>2. k <= k * b
    <2>1. PICK l \in Nat : b = l + 1
      <3>1. b - 1 \in Nat /\ b = (b - 1) + 1 OBVIOUS
      <3> QED BY <3>1
    <2>2. k * b = k * l + k /\ k * l \in Nat BY <2>1
    <2> QED BY <2>2
  <1>3. k <= a BY <1>1, <1>2
  <1>4. CASE x >= 0 /\ y > 0
    <2>1. Calc!Quotient(x, y) = k
      <3>1. Calc!Sign(x) = 1 /\ Calc!Sign(y) = 1 BY <1>4 DEF Calc!Sign
      <3> QED BY <1>1, <3>1 DEF Calc!Quotient
    <2>2. x = k * y + m BY <1>1, <1>4 DEF Calc!Abs
    <2>3. /\ Calc!Abs(m) < Calc!Abs(y) /\ Calc!Sign(m) = Calc!Sign(x)
          /\ Calc!Abs(k) <= Calc!Abs(x) /\ k \in Int /\ m \in Int
      BY <1>1, <1>3, <1>4 DEF Calc!Abs, Calc!Sign
    <2> QED BY <2>1, <2>2, <2>3
  <1>5. CASE x >= 0 /\ y < 0
    <2>1. Calc!Quotient(x, y) = -k
      <3>1. Calc!Sign(x) = 1 /\ Calc!Sign(y) = -1 BY <1>5 DEF Calc!Sign
      <3> QED BY <1>1, <3>1 DEF Calc!Quotient
    <2>2. x = (-k) * y + m
      <3>1. b = -y /\ x = a BY <1>5 DEF Calc!Abs
      <3>2. (-k) * y = k * b BY <3>1
      <3> QED BY <1>1, <3>1, <3>2
    <2>3. /\ Calc!Abs(m) < Calc!Abs(y) /\ Calc!Sign(m) = Calc!Sign(x)
          /\ Calc!Abs(-k) <= Calc!Abs(x) /\ -k \in Int /\ m \in Int
      BY <1>1, <1>3, <1>5 DEF Calc!Abs, Calc!Sign
    <2> QED BY <2>1, <2>2, <2>3
  <1>6. CASE x < 0 /\ y > 0
    <2>1. Calc!Quotient(x, y) = -k
      <3>1. Calc!Sign(x) = -1 /\ Calc!Sign(y) = 1 BY <1>6 DEF Calc!Sign
      <3> QED BY <1>1, <3>1 DEF Calc!Quotient
    <2>2. x = (-k) * y + (-m)
      <3>1. b = y /\ x = -a BY <1>6 DEF Calc!Abs
      <3>2. PICK p \in Int : p = k * b OBVIOUS
      <3>3. (-k) * y = -p BY <3>1, <3>2
      <3>4. a = p + m BY <1>1, <3>2
      <3> QED BY <3>1, <3>3, <3>4
    <2>3. /\ Calc!Abs(-m) < Calc!Abs(y) /\ (-m = 0 \/ Calc!Sign(-m) = Calc!Sign(x))
          /\ Calc!Abs(-k) <= Calc!Abs(x) /\ -k \in Int /\ -m \in Int
      BY <1>1, <1>3, <1>6 DEF Calc!Abs, Calc!Sign
    <2> QED BY <2>1, <2>2, <2>3
  <1>7. CASE x < 0 /\ y < 0
    <2>1. Calc!Quotient(x, y) = k
      <3>1. Calc!Sign(x) = -1 /\ Calc!Sign(y) = -1 BY <1>7 DEF Calc!Sign
      <3> QED BY <1>1, <3>1 DEF Calc!Quotient
    <2>2. x = k * y + (-m)
      <3>1. b = -y /\ x = -a BY <1>7 DEF Calc!Abs
      <3>2. PICK p \in Int : p = k * b OBVIOUS
      <3>3. k * y = -p BY <3>1, <3>2
      <3>4. a = p + m BY <1>1, <3>2
      <3> QED BY <3>1, <3>3, <3>4
    <2>3. /\ Calc!Abs(-m) < Calc!Abs(y) /\ (-m = 0 \/ Calc!Sign(-m) = Calc!Sign(x))
          /\ Calc!Abs(k) <= Calc!Abs(x) /\ k \in Int /\ -m \in Int
      BY <1>1, <1>3, <1>7 DEF Calc!Abs, Calc!Sign
    <2> QED BY <2>1, <2>2, <2>3
  <1>8. (x >= 0 \/ x < 0) /\ (y > 0 \/ y < 0) OBVIOUS
  <1> QED BY <1>4, <1>5, <1>6, <1>7, <1>8

(* Execute computes what arithmetic says.                                  *)
THEOREM ExecuteRight ==
  ASSUME NEW x \in IntMin .. IntMax, NEW y \in IntMin .. IntMax, NEW oper
  PROVE  \E result, code \in Int :
           /\ Calc!Execute(x, oper, y) = <<result, code>>
           /\ Calc!Correct(x, oper, y, result, code)
  <1>0. IntMin \in Int /\ IntMax \in Nat /\ IntMin = -IntMax - 1
    BY NetworkProgramsAssumption DEF Calc!ProtocolAssumption
  <1>1. x \in Int /\ y \in Int BY <1>0
  <1>2. \A n \in Int : Calc!Wrap(n) \in Int /\ (n \in IntMin .. IntMax => Calc!Wrap(n) = n)
    <2>1. ASSUME NEW n \in Int PROVE Calc!Wrap(n) \in Int
      <3> PICK N \in Nat \ {0}, d \in Int : N = IntMax - IntMin + 1 /\ d = n - IntMin BY <1>0
      <3>1. d % N \in Int OBVIOUS
      <3> QED BY <1>0, <3>1 DEF Calc!Wrap
    <2> QED BY <1>0, <2>1, Wrapped
  <1>3. CASE oper = "+"
    <2>1. Calc!Execute(x, oper, y) = <<Calc!Wrap(x + y), 0>> BY <1>3 DEF Calc!Execute
    <2>2. x + y \in Int BY <1>1
    <2>3. Calc!Correct(x, oper, y, Calc!Wrap(x + y), 0)
      BY <1>2, <1>3, <2>2 DEF Calc!Correct
    <2> QED BY <1>2, <2>1, <2>2, <2>3
  <1>4. CASE oper = "-"
    <2>1. Calc!Execute(x, oper, y) = <<Calc!Wrap(x - y), 0>> BY <1>4 DEF Calc!Execute
    <2>2. x - y \in Int BY <1>1
    <2>3. Calc!Correct(x, oper, y, Calc!Wrap(x - y), 0)
      BY <1>2, <1>4, <2>2 DEF Calc!Correct
    <2> QED BY <1>2, <2>1, <2>2, <2>3
  <1>5. CASE oper = "*"
    <2>1. Calc!Execute(x, oper, y) = <<Calc!Wrap(x * y), 0>> BY <1>5 DEF Calc!Execute
    <2>2. x * y \in Int BY <1>1
    <2>3. Calc!Correct(x, oper, y, Calc!Wrap(x * y), 0)
      BY <1>2, <1>5, <2>2 DEF Calc!Correct
    <2> QED BY <1>2, <2>1, <2>2, <2>3
  <1>6. CASE oper \in {"/", "%"} /\ y = 0
    <2>1. CASE oper = "/"
      <3>1. Calc!Execute(x, oper, y) = <<0, 1>> BY <1>6, <2>1 DEF Calc!Execute
      <3>2. Calc!Correct(x, oper, y, 0, 1) BY <1>6, <2>1 DEF Calc!Correct
      <3> QED BY <3>1, <3>2
    <2>2. CASE oper = "%"
      <3>1. Calc!Execute(x, oper, y) = <<0, 2>> BY <1>6, <2>2 DEF Calc!Execute
      <3>2. Calc!Correct(x, oper, y, 0, 2) BY <1>6, <2>2 DEF Calc!Correct
      <3> QED BY <3>1, <3>2
    <2> QED BY <1>6, <2>1, <2>2
  <1>7. CASE oper \in {"/", "%"} /\ y # 0
    <2>1. PICK q \in Int, r \in Int :
            /\ q = Calc!Quotient(x, y) /\ x = q * y + r
            /\ Calc!Abs(r) < Calc!Abs(y) /\ (r = 0 \/ Calc!Sign(r) = Calc!Sign(x))
            /\ Calc!Abs(q) <= Calc!Abs(x)
      BY <1>1, <1>7, Truncated
    <2>2. x - q * y = r /\ x - y * q = r BY <1>1, <2>1
    <2>3. q \in IntMin .. -IntMin BY <1>0, <2>1 DEF Calc!Abs
    <2>4. CASE oper = "/"
      <3>1. Calc!Execute(x, oper, y) = <<q, 0>> BY <1>7, <2>1, <2>4 DEF Calc!Execute
      <3>2. Calc!Correct(x, oper, y, q, 0) BY <1>7, <2>1, <2>2, <2>4 DEF Calc!Correct
      <3> QED BY <3>1, <3>2
    <2>5. CASE oper = "%"
      <3>1. Calc!Execute(x, oper, y) = <<r, 0>> BY <1>7, <2>1, <2>2, <2>5 DEF Calc!Execute
      <3>2. Calc!Correct(x, oper, y, r, 0) BY <1>7, <2>1, <2>3, <2>5 DEF Calc!Correct
      <3> QED BY <3>1, <3>2
    <2> QED BY <1>7, <2>4, <2>5
  <1>8. CASE oper \notin {"+", "-", "*", "/", "%"}
    <2>1. Calc!Execute(x, oper, y) = <<0, 3>> BY <1>8 DEF Calc!Execute
    <2>2. Calc!Correct(x, oper, y, 0, 3) BY <1>8 DEF Calc!Correct
    <2> QED BY <2>1, <2>2
  <1> QED BY <1>3, <1>4, <1>5, <1>6, <1>7, <1>8
(* What Encode puts where. *)
LEMMA EncodeShape ==
  ASSUME NEW m \in Seq(Unit)
  PROVE  /\ Calc!Encode(m) \in Seq(Unit)
         /\ Len(Calc!Encode(m)) = Len(m) + 3
         /\ Calc!Encode(m)[1] = Len(m) /\ Calc!Encode(m)[2] = Sep
         /\ \A i \in 1 .. Len(m) : Calc!Encode(m)[i + 2] = m[i]
<1> DEFINE h == <<Len(m), Sep>>
           hm == h \o m
<1>1. h \in Seq(Unit) /\ Len(h) = 2 /\ h[1] = Len(m) /\ h[2] = Sep /\ Len(m) \in Nat
  BY DEF Unit
<1>2. <<Sep>> \in Seq(Unit) /\ Len(<<Sep>>) = 1 BY DEF Unit
<1> HIDE DEF h
<1>3. /\ hm \in Seq(Unit) /\ Len(hm) = Len(m) + 2
      /\ hm[1] = Len(m) /\ hm[2] = Sep
      /\ \A i \in 1 .. Len(m) : hm[i + 2] = m[i]
  <2>1. /\ h \o m \in Seq(Unit) /\ Len(h \o m) = Len(h) + Len(m)
        /\ \A i \in 1 .. Len(h) : (h \o m)[i] = h[i]
        /\ \A i \in 1 .. Len(m) : (h \o m)[i + Len(h)] = m[i]
    <3>1. h \in Seq(Unit) BY <1>1
    <3>2. h \o m \in Seq(Unit) /\ Len(h \o m) = Len(h) + Len(m) BY <3>1
    <3>3. \A i \in 1 .. Len(h) : (h \o m)[i] = h[i] BY <3>1
    <3>4. \A i \in 1 .. Len(m) : (h \o m)[i + Len(h)] = m[i] BY <3>1
    <3> QED BY <3>2, <3>3, <3>4
  <2> HIDE DEF hm
  <2>2. hm = h \o m BY DEF hm
  <2>3. 1 \in 1 .. Len(h) /\ 2 \in 1 .. Len(h) BY <1>1
  <2>4. hm[1] = Len(m) /\ hm[2] = Sep BY <1>1, <2>1, <2>2, <2>3
  <2>5. \A i \in 1 .. Len(m) : hm[i + 2] = m[i] BY <1>1, <2>1, <2>2
  <2>6. hm \in Seq(Unit) /\ Len(hm) = Len(m) + 2 BY <1>1, <2>1, <2>2
  <2> QED BY <2>4, <2>5, <2>6
<1> HIDE DEF hm
<1>4. /\ hm \o <<Sep>> \in Seq(Unit) /\ Len(hm \o <<Sep>>) = Len(m) + 3
      /\ \A i \in 1 .. Len(m) + 2 : (hm \o <<Sep>>)[i] = hm[i]
  BY <1>1, <1>2, <1>3, Concatenation
<1>5. Calc!Encode(m) = hm \o <<Sep>> BY DEF Calc!Encode, hm, h
<1> QED BY <1>1, <1>3, <1>4, <1>5

(* A whole message at the front of a buffer is found, whatever follows it  *)
(* (Decode, Protocol.hpp:16-38).                                           *)
THEOREM DecodeEncode ==
  ASSUME NEW m \in Seq(Unit), NEW rest \in Seq(Unit)
  PROVE  /\ Calc!Whole(Calc!Encode(m) \o rest)
         /\ Calc!Body(Calc!Encode(m) \o rest) = m
         /\ Calc!Rest(Calc!Encode(m) \o rest) = rest
<1> DEFINE p == Calc!Encode(m) \o rest
           e == Calc!Encode(m)
<1>0. Len(m) \in Nat /\ Len(rest) \in Nat OBVIOUS
<1>3. /\ e \in Seq(Unit) /\ Len(e) = Len(m) + 3
      /\ e[1] = Len(m) /\ e[2] = Sep
      /\ \A i \in 1 .. Len(m) : e[i + 2] = m[i]
  BY EncodeShape
<1> HIDE DEF e
<1>1. /\ p \in Seq(Unit) /\ Len(p) = Len(m) + 3 + Len(rest)
      /\ \A i \in 1 .. Len(m) + 3 : p[i] = e[i]
      /\ \A i \in 1 .. Len(rest) : p[i + (Len(m) + 3)] = rest[i]
  <2>1. /\ e \o rest \in Seq(Unit) /\ Len(e \o rest) = Len(e) + Len(rest)
        /\ \A i \in 1 .. Len(e) : (e \o rest)[i] = e[i]
        /\ \A i \in 1 .. Len(rest) : (e \o rest)[i + Len(e)] = rest[i]
    <3>1. e \in Seq(Unit) BY <1>3
    <3>2. e \o rest \in Seq(Unit) /\ Len(e \o rest) = Len(e) + Len(rest) BY <3>1
    <3>3. \A i \in 1 .. Len(e) : (e \o rest)[i] = e[i] BY <3>1
    <3>4. \A i \in 1 .. Len(rest) : (e \o rest)[i + Len(e)] = rest[i] BY <3>1
    <3> QED BY <3>2, <3>3, <3>4
  <2> HIDE DEF p
  <2>2. p = e \o rest BY DEF p, e
  <2> QED BY <1>0, <1>3, <2>1, <2>2
<1> HIDE DEF p
<1>2. /\ p[1] = Len(m) /\ p[2] = Sep
      /\ \A i \in 1 .. Len(m) : p[2 + i] = m[i]
  <2>1. 1 \in 1 .. Len(m) + 3 /\ 2 \in 1 .. Len(m) + 3 BY <1>0
  <2>2. p[1] = Len(m) /\ p[2] = Sep BY <1>1, <1>3, <2>1
  <2>3. ASSUME NEW i \in 1 .. Len(m) PROVE p[2 + i] = m[i]
    <3>1. 2 + i = i + 2 /\ i + 2 \in 1 .. Len(m) + 3 BY <1>0
    <3>2. p[i + 2] = e[i + 2] BY <1>1, <3>1
    <3> QED BY <1>3, <3>1, <3>2
  <2> QED BY <2>2, <2>3
<1>4. Calc!Whole(p)
  <2>1. 2 \in DOMAIN p BY <1>0, <1>1
  <2> QED BY <1>0, <1>1, <1>2, <2>1 DEF Calc!Whole
<1>5. Calc!Body(p) = m
  <2>1. /\ SubSeq(p, 3, 2 + Len(m)) \in Seq(Unit)
        /\ Len(SubSeq(p, 3, 2 + Len(m))) = Len(m)
        /\ \A i \in 1 .. Len(m) : SubSeq(p, 3, 2 + Len(m))[i] = p[2 + i]
    BY <1>0, <1>1, Part
  <2>2. SubSeq(p, 3, 2 + Len(m)) = m BY <1>2, <2>1, SameSeq
  <2>3. Calc!Body(p) = SubSeq(p, 3, 2 + Len(m)) BY <1>0, <1>2 DEF Calc!Body
  <2> QED BY <2>2, <2>3
<1>6. Calc!Rest(p) = rest
  <2> DEFINE k == Len(m) + 3
  <2>1. /\ SubSeq(p, k + 1, k + Len(rest)) \in Seq(Unit)
        /\ Len(SubSeq(p, k + 1, k + Len(rest))) = Len(rest)
        /\ \A i \in 1 .. Len(rest) : SubSeq(p, k + 1, k + Len(rest))[i] = p[k + i]
    BY <1>0, <1>1, Part
  <2>2. \A i \in 1 .. Len(rest) : p[k + i] = rest[i] BY <1>0, <1>1
  <2>3. SubSeq(p, k + 1, k + Len(rest)) = rest BY <2>1, <2>2, SameSeq
  <2>4. Calc!Rest(p) = SubSeq(p, k + 1, k + Len(rest)) BY <1>0, <1>1, <1>2 DEF Calc!Rest
  <2> QED BY <2>3, <2>4
<1> QED BY <1>4, <1>5, <1>6 DEF p, e

(* A message that is not all there yet is not found: Decode returns false  *)
(* until its last separator has come (Protocol.hpp:19 and :30).            *)
THEOREM DecodeWaits ==
  ASSUME NEW m \in Seq(Unit), NEW n \in 0 .. Len(m) + 2
  PROVE  ~Calc!Whole(SubSeq(Calc!Encode(m), 1, n))
<1> DEFINE p == SubSeq(Calc!Encode(m), 1, n)
<1>0. Len(m) \in Nat /\ n \in Nat OBVIOUS
<1>1. /\ p \in Seq(Unit) /\ Len(p) = n
      /\ \A i \in 1 .. n : p[i] = Calc!Encode(m)[i]
  <2>1. 0 \in 0 .. Len(Calc!Encode(m)) /\ n \in 0 .. Len(Calc!Encode(m)) - 0
    BY <1>0, EncodeShape
  <2>2. /\ SubSeq(Calc!Encode(m), 0 + 1, 0 + n) \in Seq(Unit)
        /\ Len(SubSeq(Calc!Encode(m), 0 + 1, 0 + n)) = n
        /\ \A i \in 1 .. n : SubSeq(Calc!Encode(m), 0 + 1, 0 + n)[i] = Calc!Encode(m)[0 + i]
    BY <2>1, EncodeShape, Part
  <2> QED BY <1>0, <2>2
<1>2. n > 0 => p[1] = Len(m) BY <1>0, <1>1, EncodeShape
<1> HIDE DEF p
<1>3. CASE n = 0
  <2>1. ~\E pos \in DOMAIN p : p[pos] = Sep BY <1>1, <1>3
  <2>2. ~Calc!Whole(p) BY <2>1 DEF Calc!Whole
  <2> QED BY <2>2 DEF p
<1>4. CASE n > 0
  <2>1. ~(Len(p) >= p[1] + 3) BY <1>0, <1>1, <1>2, <1>4
  <2>2. ~Calc!Whole(p) BY <2>1 DEF Calc!Whole
  <2> QED BY <2>2 DEF p
<1>5. n = 0 \/ n > 0 BY <1>0
<1> QED BY <1>3, <1>4, <1>5

(* A talk of whole requests. *)
Requests(t) ==
  /\ t \in Seq(Seq(Unit))
  /\ \A i \in 1 .. Len(t) : LET q == Calc!Body(t[i]) IN
       /\ q \in Seq(Unit) /\ t[i] = Calc!Encode(q)
       /\ q[1] \in IntMin .. IntMax /\ q[3] \in IntMin .. IntMax

(* What Execute makes of a request, and its answer on the wire. *)
Result(m) == Calc!Execute(Calc!Body(m)[1], Calc!Body(m)[2], Calc!Body(m)[3])
Reply(m) == Calc!Encode(Result(m))

(* Where a conversation over t is: m results were shown and s units sent;  *)
(* the server has p of them to decode, the client k and the connection a   *)
(* of an answer.  A request is unanswered, or its answer is under way.     *)
Talking(t, m, s, p, k, a) ==
  \/ /\ a = <<>> /\ k = <<>>
     /\ s \in Len(FlatTo(t, m)) .. Len(FlatTo(t, IF m < Len(t) THEN m + 1 ELSE m))
     /\ p = SubSeq(Flat(t), Len(FlatTo(t, m)) + 1, s)
  \/ /\ p = <<>> /\ m < Len(t) /\ s = Len(FlatTo(t, m + 1))
     /\ a \in Seq(Unit) /\ k \in Seq(Unit) /\ a # <<>>
     /\ k \o a = Reply(t[m + 1])

(* What the clients of 08 may say is requests. *)
LEMMA CalcRequests ==
  ASSUME NEW t \in CalcTalks, NEW c \in Callers
  PROVE  Requests(t[c])
  <1> PICK u : u = t[c] OBVIOUS
  <1>1. u \in Seq({m \in Calc!Range(u) : Calc!Asks(m)})
    BY NetworkProgramsAssumption DEF Calc!CalculatorAssumption
  <1>2. ASSUME NEW m, Calc!Asks(m)
        PROVE  LET q == Calc!Body(m) IN
               /\ q \in Seq(Unit) /\ m = Calc!Encode(q) /\ m \in Seq(Unit)
               /\ q[1] \in IntMin .. IntMax /\ q[3] \in IntMin .. IntMax
    <2> PICK q : q = Calc!Body(m) OBVIOUS
    <2>1. q \in (IntMin .. IntMax) \X STRING \X (IntMin .. IntMax) /\ m = Calc!Encode(q)
      BY <1>2 DEF Calc!Asks
    <2>2. q \in Seq(Unit)
      <3> PICK x, o, y : x = q[1] /\ o = q[2] /\ y = q[3] OBVIOUS
      <3>1. x \in IntMin .. IntMax /\ o \in STRING /\ y \in IntMin .. IntMax /\ q = <<x, o, y>>
        BY <2>1
      <3>2. x \in Unit /\ o \in Unit /\ y \in Unit BY <3>1 DEF Unit
      <3> QED BY <3>1, <3>2
    <2>3. m \in Seq(Unit) BY <2>1, <2>2, EncodeShape
    <2>4. q[1] \in IntMin .. IntMax /\ q[3] \in IntMin .. IntMax BY <2>1
    <2> QED BY <2>1, <2>2, <2>3, <2>4
  <1>3. ASSUME NEW i \in 1 .. Len(u) PROVE Calc!Asks(u[i]) BY <1>1
  <1>4. u \in Seq(Seq(Unit))
    <2>1. \A i \in 1 .. Len(u) : u[i] \in Seq(Unit) BY <1>2, <1>3
    <2> QED BY <1>1, <2>1, Retyped
  <1> QED BY <1>2, <1>3, <1>4 DEF Requests

(* Nothing of a conversation that has not begun. *)
LEMMA TalkBegins ==
  ASSUME NEW t, Requests(t)
  PROVE  Talking(t, 0, 0, <<>>, <<>>, <<>>)
  <1>1. t \in Seq(Seq(Unit)) BY DEF Requests
  <1>2. FlatTo(t, 0) = <<>> /\ \A n \in 0 .. Len(t) : FlatTo(t, n) \in Seq(Unit)
    BY <1>1, FlatNext
  <1>3. Len(FlatTo(t, 0)) = 0 BY <1>2
  <1> DEFINE e == IF 0 < Len(t) THEN 0 + 1 ELSE 0
  <1>4. FlatTo(t, e) \in Seq(Unit) BY <1>1, <1>2
  <1>5. 0 \in 0 .. Len(FlatTo(t, e)) BY <1>4
  <1>6. Flat(t) \in Seq(Unit)
    <2>1. Len(t) \in 0 .. Len(t) BY <1>1
    <2> QED BY <1>1, <1>2, <2>1, FlatNext
  <1>7. SubSeq(Flat(t), 0 + 1, 0) = <<>> BY <1>6
  <1> QED BY <1>3, <1>5, <1>7 DEF Talking

(* The next unit of a request is sent. *)
LEMMA TalkAsks ==
  ASSUME NEW t, Requests(t), NEW m \in Nat, NEW s \in Nat, NEW p, NEW k, NEW a,
         Talking(t, m, s, p, k, a), m < Len(t), s < Len(FlatTo(t, m + 1))
  PROVE  Talking(t, m, s + 1, Append(p, Flat(t)[s + 1]), k, a)
  <1>1. t \in Seq(Seq(Unit)) BY DEF Requests
  <1>2. m + 1 \in 1 .. Len(t) /\ (m + 1) - 1 = m BY <1>1
  <1>0. PICK b, e, f : b = Len(FlatTo(t, m)) /\ e = Len(FlatTo(t, m + 1)) /\ f = Flat(t)
    OBVIOUS
  <1>3. f \in Seq(Unit) /\ b \in Nat /\ e = b + Len(t[m + 1]) /\ e <= Len(f)
    BY <1>0, <1>1, <1>2, FlatPiece
  <1>4. a = <<>> /\ k = <<>> /\ s \in b .. e /\ p = SubSeq(f, b + 1, s)
    BY <1>0 DEF Talking
  <1>5. Len(f) \in Nat /\ Len(t[m + 1]) \in Nat
    <2>1. t[m + 1] \in Seq(Unit) BY <1>1, <1>2
    <2> QED BY <1>3, <2>1
  <1>6. Append(SubSeq(f, b + 1, s), f[s + 1]) = SubSeq(f, b + 1, s + 1)
    <2>1. s \in Nat /\ s < Len(f) /\ b <= s BY <1>0, <1>3, <1>4, <1>5
    <2>2. SubSeq(f, b + 1, s) \in Seq(Unit) /\ Len(SubSeq(f, b + 1, s)) = s - b
          /\ \A i \in 1 .. s - b : SubSeq(f, b + 1, s)[i] = f[b + i]
      BY <1>3, <2>1, InTwoPieces
    <2>3. SubSeq(f, b + 1, s + 1) \in Seq(Unit) /\ Len(SubSeq(f, b + 1, s + 1)) = s + 1 - b
          /\ \A i \in 1 .. s + 1 - b : SubSeq(f, b + 1, s + 1)[i] = f[b + i]
      <3>1. s + 1 \in b .. Len(f) /\ b \in b .. Len(f) BY <1>3, <1>5, <2>1
      <3> QED BY <1>3, <3>1, InTwoPieces
    <2>0. PICK l, u, v : l = s - b /\ u = SubSeq(f, b + 1, s) /\ v = SubSeq(f, b + 1, s + 1)
      OBVIOUS
    <2>4. l \in Nat /\ s + 1 - b = l + 1 /\ b + (l + 1) = s + 1 /\ f[s + 1] \in Unit
      BY <1>3, <1>5, <2>0, <2>1
    <2>5. u \in Seq(Unit) /\ Len(u) = l BY <2>0, <2>2
    <2>6. Append(u, f[s + 1]) \in Seq(Unit) /\ Len(Append(u, f[s + 1])) = l + 1
          /\ Append(u, f[s + 1])[l + 1] = f[s + 1]
          /\ \A i \in 1 .. l : Append(u, f[s + 1])[i] = u[i]
      BY <2>4, <2>5
    <2>7. v \in Seq(Unit) /\ Len(v) = l + 1 /\ \A i \in 1 .. l + 1 : v[i] = f[b + i]
      BY <2>0, <2>3, <2>4
    <2>8. ASSUME NEW i \in 1 .. l + 1 PROVE Append(u, f[s + 1])[i] = v[i]
      <3>1. CASE i = l + 1 BY <2>4, <2>6, <2>7, <3>1
      <3>2. CASE i \in 1 .. l
        <4>1. u[i] = f[b + i] BY <2>0, <2>2, <3>2
        <4> QED BY <2>6, <2>7, <3>2, <4>1
      <3>3. i = l + 1 \/ i \in 1 .. l BY <2>4
      <3> QED BY <3>1, <3>2, <3>3
    <2>9. Append(u, f[s + 1]) = v BY <2>6, <2>7, <2>8, SameSeq
    <2> QED BY <2>0, <2>9
  <1>7. s + 1 \in b .. e BY <1>0, <1>3, <1>4, <1>5
  <1> QED BY <1>0, <1>4, <1>6, <1>7 DEF Talking

(* A request that is there whole, and no other, is answered. *)
LEMMA TalkAnswers ==
  ASSUME NEW t, Requests(t), NEW m \in Nat, m <= Len(t), NEW s \in Nat, NEW p, NEW k, NEW a,
         Talking(t, m, s, p, k, a), NEW b \in Seq(Unit), NEW r \in Seq(Unit),
         p = b \o r, Calc!Whole(b)
  PROVE  /\ m < Len(t) /\ Calc!Body(b) = Calc!Body(t[m + 1]) /\ Calc!Rest(b) = <<>>
         /\ Talking(t, m, s, Calc!Rest(b) \o r, k, a \o Reply(t[m + 1]))
  <1>1. t \in Seq(Seq(Unit)) /\ Len(t) \in Nat BY DEF Requests
  <1>2. b # <<>> BY DEF Calc!Whole
  <1>3. p \in Seq(Unit) /\ Len(p) = Len(b) + Len(r) /\ Len(b) \in Nat \ {0} /\ Len(r) \in Nat
        /\ SubSeq(p, 1, Len(b)) = b
    <2>1. Len(b) \in Nat \ {0} /\ Len(r) \in Nat BY <1>2
    <2>2. b \o r \in Seq(Unit) /\ Len(b \o r) = Len(b) + Len(r) OBVIOUS
    <2>3. SubSeq(b \o r, 1, Len(b)) = b OBVIOUS
    <2> QED BY <2>1, <2>2, <2>3
  <1>0. PICK B, E, f : /\ B = Len(FlatTo(t, m)) /\ f = Flat(t)
                       /\ E = Len(FlatTo(t, IF m < Len(t) THEN m + 1 ELSE m))
    OBVIOUS
  <1>4. a = <<>> /\ k = <<>> /\ s \in B .. E /\ p = SubSeq(f, B + 1, s)
    <2>1. p # <<>> BY <1>3
    <2> QED BY <1>0, <2>1 DEF Talking
  <1>5. m < Len(t)
    <2> SUFFICES ASSUME m = Len(t) PROVE FALSE BY <1>1
    <2>1. E = B BY <1>0, <1>1
    <2>2. FlatTo(t, m) \in Seq(Unit) /\ Flat(t) \in Seq(Unit)
      <3>1. m \in 0 .. Len(t) BY <1>1
      <3> QED BY <1>1, <3>1, FlatNext
    <2>3. B \in Nat BY <1>0, <2>2
    <2>4. s = B BY <1>4, <2>1, <2>3
    <2>5. p = <<>> BY <1>0, <1>4, <2>2, <2>3, <2>4
    <2> QED BY <1>3, <2>5
  <1>6. m + 1 \in 1 .. Len(t) /\ (m + 1) - 1 = m BY <1>1, <1>5
  <1>a. PICK x, q : x = t[m + 1] /\ q = Calc!Body(x) OBVIOUS
  <1>7. q \in Seq(Unit) /\ x = Calc!Encode(q) /\ x \in Seq(Unit) /\ Len(x) = Len(q) + 3
    <2>1. q \in Seq(Unit) /\ x = Calc!Encode(q) BY <1>6, <1>a DEF Requests
    <2> QED BY <2>1, EncodeShape
  <1>8. f \in Seq(Unit) /\ B \in Nat /\ E = B + Len(x) /\ E <= Len(f) /\ SubSeq(f, B + 1, E) = x
    BY <1>0, <1>1, <1>5, <1>6, <1>a, FlatPiece
  <1>9. Len(x) \in Nat /\ Len(q) \in Nat /\ Len(f) \in Nat BY <1>7, <1>8
  <1>10. Len(p) = s - B /\ p = SubSeq(x, 1, s - B)
    <2>1. Len(p) = s - B BY <1>4, <1>8, <1>9
    <2>2. \A i \in 1 .. s - B : p[i] = f[B + i] BY <1>4, <1>8, <1>9
    <2>3. \A i \in 1 .. Len(x) : x[i] = f[B + i]
      <3>0. B \in Nat /\ B \in B .. Len(f) /\ E \in B .. Len(f) BY <1>8, <1>9
      <3>1. \A i \in 1 .. E - B : SubSeq(f, B + 1, E)[i] = f[B + i]
        BY <1>8, <3>0, InTwoPieces
      <3>2. E - B = Len(x) BY <1>8, <1>9
      <3> QED BY <1>8, <3>1, <3>2
    <2>0. PICK n \in 0 .. Len(x) : n = s - B BY <1>4, <1>8, <1>9
    <2>4. SubSeq(x, 1, n) \in Seq(Unit) /\ Len(SubSeq(x, 1, n)) = n
          /\ \A i \in 1 .. n : SubSeq(x, 1, n)[i] = x[i]
      <3>1. n \in 0 .. Len(x) /\ 0 \in 0 .. Len(x) /\ n \in Nat BY <1>9
      <3>2. SubSeq(x, 0 + 1, 0 + n) \in Seq(Unit) /\ Len(SubSeq(x, 0 + 1, 0 + n)) = n
            /\ \A i \in 1 .. n : SubSeq(x, 0 + 1, 0 + n)[i] = x[0 + i]
        <4>1. n \in 0 .. Len(x) - 0 BY <1>9
        <4> QED BY <1>7, <3>1, <4>1, Part
      <3> QED BY <3>1, <3>2
    <2>5. \A i \in 1 .. n : p[i] = x[i]
      <3>1. \A i \in 1 .. n : i \in 1 .. Len(x) BY <1>9
      <3> QED BY <2>0, <2>2, <2>3, <3>1
    <2>6. p = SubSeq(x, 1, n)
      <3>0. PICK y : y = SubSeq(x, 1, n) OBVIOUS
      <3>1. y \in Seq(Unit) /\ Len(y) = Len(p) /\ \A i \in 1 .. Len(p) : p[i] = y[i]
        BY <2>0, <2>1, <2>4, <2>5, <3>0
      <3> QED BY <1>3, <3>0, <3>1, SameSeq
    <2> QED BY <2>0, <2>1, <2>6
  <1>11. b = SubSeq(x, 1, Len(b))
    <2>a. PICK n \in Nat : n = s - B /\ n <= Len(x) BY <1>4, <1>8, <1>9
    <2>0. Len(b) <= n BY <1>3, <1>10, <2>a
    <2>1. SubSeq(SubSeq(x, 1, n), 1, Len(b)) = SubSeq(x, 1, Len(b))
      BY <1>3, <1>7, <1>9, <2>0, <2>a, SMTT(30)
    <2> QED BY <1>3, <1>10, <2>1, <2>a
  <1>12. Len(b) = Len(x)
    <2>1. ~(Len(b) \in 0 .. Len(q) + 2) BY <1>7, <1>11, DecodeWaits
    <2>2. Len(b) <= Len(x)
      <3>1. s - B <= Len(x) BY <1>4, <1>8, <1>9
      <3> QED BY <1>3, <1>10, <3>1
    <2>3. \A u, v \in Nat : ~(u \in 0 .. v + 2) /\ u <= v + 3 => u = v + 3 OBVIOUS
    <2> QED BY <1>3, <1>7, <1>9, <2>1, <2>2, <2>3, ZenonT(30)
  <1>13. b = x BY <1>7, <1>11, <1>12, AllOf
  <1>14. s = E /\ r = <<>>
    <2>1. Len(p) = Len(x) /\ Len(r) = 0
      <3>1. s - B <= Len(x) BY <1>4, <1>8, <1>9
      <3>2. \A u, v \in Nat : u + v <= u => v = 0 /\ u + v = u OBVIOUS
      <3>3. Len(p) = Len(x) + Len(r) /\ Len(p) <= Len(x) BY <1>3, <1>10, <1>12, <3>1
      <3> QED BY <1>3, <1>9, <3>2, <3>3
    <2>2. s = E BY <1>4, <1>8, <1>9, <1>10, <2>1
    <2> QED BY <2>1, <2>2
  <1>15. Calc!Body(b) = q /\ Calc!Rest(b) = <<>>
    <2>1. <<>> \in Seq(Unit) /\ x \o <<>> = x BY <1>7
    <2>2. Calc!Body(Calc!Encode(q) \o <<>>) = q /\ Calc!Rest(Calc!Encode(q) \o <<>>) = <<>>
      BY <1>7, <2>1, DecodeEncode
    <2> QED BY <1>7, <1>13, <2>1, <2>2
  <1>16. Reply(x) \in Seq(Unit) /\ Reply(x) # <<>> /\ <<>> \o Reply(x) = Reply(x)
    <2>1. q[1] \in IntMin .. IntMax /\ q[3] \in IntMin .. IntMax BY <1>6, <1>a DEF Requests
    <2>2. PICK result \in Int, code \in Int : Result(x) = <<result, code>>
      BY <2>1, ExecuteRight, <1>a DEF Result
    <2>3. Result(x) \in Seq(Unit) BY <2>2 DEF Unit
    <2>4. Reply(x) \in Seq(Unit) /\ Len(Reply(x)) = Len(Result(x)) + 3
      BY <2>3, EncodeShape DEF Reply
    <2> QED BY <2>3, <2>4
  <1>17. Calc!Rest(b) \o r = <<>> BY <1>14, <1>15
  <1> QED BY <1>0, <1>4, <1>5, <1>14, <1>15, <1>16, <1>17, <1>a DEF Talking

(* n units of the answer are read. *)
LEMMA TalkShows ==
  ASSUME NEW t, Requests(t), NEW m \in Nat, NEW s \in Nat, NEW p, NEW k, NEW a,
         Talking(t, m, s, p, k, a), a # <<>>, NEW n \in 1 .. Len(a)
  PROVE  LET taken == k \o SubSeq(a, 1, n)
             left == SubSeq(a, n + 1, Len(a))
         IN  /\ m < Len(t)
             /\ Calc!Whole(taken) => /\ Calc!Body(taken) = Result(t[m + 1])
                                   /\ Talking(t, m + 1, s, p, Calc!Rest(taken), left)
             /\ ~Calc!Whole(taken) => Talking(t, m, s, p, taken, left)
  <1>0. PICK taken, left, x : /\ taken = k \o SubSeq(a, 1, n) /\ left = SubSeq(a, n + 1, Len(a))
                            /\ x = t[m + 1]
    OBVIOUS
  <1>1. /\ p = <<>> /\ m < Len(t) /\ s = Len(FlatTo(t, m + 1))
        /\ a \in Seq(Unit) /\ k \in Seq(Unit) /\ k \o a = Reply(x)
    BY <1>0 DEF Talking
  <1>2. t \in Seq(Seq(Unit)) /\ Len(t) \in Nat /\ m + 1 \in 1 .. Len(t)
    BY <1>1 DEF Requests
  <1>3. Len(a) \in Nat /\ Len(k) \in Nat /\ n \in Nat /\ n <= Len(a) BY <1>1
  <1>4. /\ SubSeq(a, 1, n) \in Seq(Unit) /\ Len(SubSeq(a, 1, n)) = n
        /\ left \in Seq(Unit) /\ Len(left) = Len(a) - n
        /\ SubSeq(a, 1, n) \o left = a
    <2>1. n \in 0 .. Len(a) BY <1>3
    <2> QED BY <1>0, <1>1, <2>1, CutInTwo
  <1>5. taken \in Seq(Unit) /\ Len(taken) = Len(k) + n /\ taken \o left = Reply(x)
    <2>0. PICK h : h = SubSeq(a, 1, n) OBVIOUS
    <2>1. h \in Seq(Unit) /\ Len(h) = n /\ h \o left = a /\ taken = k \o h BY <1>0, <1>4, <2>0
    <2>4. k \in Seq(Unit) /\ h \in Seq(Unit) /\ left \in Seq(Unit) BY <1>1, <1>4, <2>1
    <2>2. (k \o h) \o left = k \o (h \o left) BY <2>4, Associated
    <2>3. taken \in Seq(Unit) /\ Len(taken) = Len(k) + n
      <3>1. k \o h \in Seq(Unit) /\ Len(k \o h) = Len(k) + Len(h) BY <2>4, Concatenation
      <3> QED BY <2>1, <3>1
    <2> QED BY <1>1, <2>1, <2>2, <2>3
  <1>6. /\ Result(x) \in Seq(Unit) /\ Reply(x) \in Seq(Unit)
        /\ Len(Reply(x)) = Len(Result(x)) + 3 /\ Len(Result(x)) \in Nat
    <2>1. Calc!Body(x)[1] \in IntMin .. IntMax /\ Calc!Body(x)[3] \in IntMin .. IntMax
      BY <1>0, <1>2 DEF Requests
    <2>2. PICK result \in Int, code \in Int : Result(x) = <<result, code>>
      BY <2>1, ExecuteRight DEF Result
    <2>3. Result(x) \in Seq(Unit) BY <2>2 DEF Unit
    <2> QED BY <2>3, EncodeShape DEF Reply
  <1>7. Len(Reply(x)) = Len(taken) + Len(left) /\ Len(left) \in Nat
    <2>1. Len(taken \o left) = Len(taken) + Len(left) BY <1>4, <1>5, Concatenation
    <2>2. Len(left) \in Nat BY <1>4
    <2> QED BY <1>5, <2>1, <2>2
  <1>8. CASE left = <<>>
    <2>1. taken = Reply(x)
      <3>1. taken \o <<>> = taken BY <1>5
      <3> QED BY <1>5, <1>8, <3>1
    <2>2. Calc!Whole(taken) /\ Calc!Body(taken) = Result(x) /\ Calc!Rest(taken) = <<>>
      <3>1. <<>> \in Seq(Unit) /\ Reply(x) \o <<>> = Reply(x) BY <1>6
      <3>2. /\ Calc!Whole(Reply(x) \o <<>>) /\ Calc!Body(Reply(x) \o <<>>) = Result(x)
            /\ Calc!Rest(Reply(x) \o <<>>) = <<>>
        BY <1>6, <3>1, DecodeEncode DEF Reply
      <3> QED BY <2>1, <3>1, <3>2
    <2>3. Talking(t, m + 1, s, p, <<>>, <<>>)
      <3> PICK M \in 1 .. Len(t) : M = m + 1 BY <1>2
      <3> PICK e : e = IF M < Len(t) THEN M + 1 ELSE M OBVIOUS
      <3>1. FlatTo(t, M) \in Seq(Unit) /\ FlatTo(t, e) \in Seq(Unit) /\ Flat(t) \in Seq(Unit)
        <4>1. M \in 0 .. Len(t) /\ e \in 0 .. Len(t) /\ Len(t) \in 0 .. Len(t) BY <1>2
        <4> QED BY <1>2, <4>1, FlatNext
      <3>2. Len(FlatTo(t, M)) <= Len(FlatTo(t, e))
        <4>1. CASE M < Len(t)
          <5>1. e \in 1 .. Len(t) /\ e - 1 = M BY <1>2, <4>1
          <5>2. Len(FlatTo(t, e)) = Len(FlatTo(t, e - 1)) + Len(t[e])
            BY <1>2, <5>1, FlatPiece
          <5>3. Len(FlatTo(t, M)) \in Nat BY <3>1
          <5>4. Len(t[e]) \in Nat BY <1>2, <5>1
          <5>5. \A u, v \in Nat : u <= u + v OBVIOUS
          <5>6. Len(FlatTo(t, M)) <= Len(FlatTo(t, M)) + Len(t[e]) BY <5>3, <5>4, <5>5
          <5> QED BY <5>1, <5>2, <5>6
        <4>2. CASE ~(M < Len(t))
          <5>1. e = M /\ Len(FlatTo(t, M)) \in Nat BY <3>1, <4>2
          <5> QED BY <5>1
        <4> QED BY <4>1, <4>2
      <3>3. s = Len(FlatTo(t, M)) /\ s \in Nat /\ s \in s .. Len(FlatTo(t, e))
        BY <1>1, <3>1, <3>2
      <3>4. SubSeq(Flat(t), s + 1, s) = <<>> BY <3>1, <3>3
      <3> QED BY <1>1, <3>3, <3>4 DEF Talking
    <2> QED BY <1>0, <1>1, <1>8, <2>2, <2>3
  <1>9. CASE left # <<>>
    <2>1. Len(left) > 0 BY <1>4, <1>7, <1>9
    <2>2. Len(taken) \in 0 .. Len(Result(x)) + 2
      <3>1. \A u, v, w \in Nat : v > 0 /\ w + 3 = u + v => u \in 0 .. w + 2 OBVIOUS
      <3>2. Len(Result(x)) + 3 = Len(taken) + Len(left) /\ Len(taken) \in Nat
        BY <1>5, <1>6, <1>7
      <3> QED BY <1>6, <1>7, <2>1, <3>1, <3>2
    <2>3. taken = SubSeq(Reply(x), 1, Len(taken))
      <3>1. left \in Seq(Unit) BY <1>4
      <3>2. taken \in Seq(Unit) BY <1>5
      <3>3. SubSeq(taken \o left, 1, Len(taken)) = taken BY <3>1, <3>2
      <3> QED BY <1>5, <3>3
    <2>4. ~Calc!Whole(taken) BY <1>6, <2>2, <2>3, DecodeWaits DEF Reply
    <2>5. Talking(t, m, s, p, taken, left) BY <1>0, <1>1, <1>4, <1>5, <1>9 DEF Talking
    <2> QED BY <1>0, <1>1, <2>4, <2>5
  <1> QED BY <1>8, <1>9

CalcTypes ==
  /\ talk \in CalcTalks /\ peer \in [Callers -> {"new", "open", "gone"}]
  /\ sent \in [Callers -> Nat]
  /\ DOMAIN got = Callers /\ DOMAIN rx = Callers /\ DOMAIN tx = Callers
  /\ DOMAIN package = Callers /\ DOMAIN shown = Callers

(* What has come from c and is not decoded. *)
Pending(c) == (IF conn = c THEN inbuffer ELSE <<>>) \o rx[c]

(* While c has not left, its conversation is where Talking says. *)
CalcTalk(c) ==
  peer[c] # "gone" =>
    /\ c \notin fin \cup rst
    /\ Listed(got[c])
    /\ rx[c] \in Seq(Unit) /\ (conn = c => inbuffer \in Seq(Unit))
    /\ Talking(talk[c], Len(shown[c]), sent[c], Pending(c), package[c], tx[c])

(* What c was shown, it was shown rightly. *)
ShownRight(t, r) ==
  /\ Listed(r) /\ Len(r) <= Len(t)
  /\ \A i \in 1 .. Len(r) :
       LET q == Calc!Body(t[i]) IN Calc!Correct(q[1], q[2], q[3], r[i][1], r[i][2])

CalcInv ==
  /\ CalcTypes
  /\ \A c \in Callers : CalcTalk(c) /\ ShownRight(talk[c], shown[c])

(* Nobody has asked and nothing is shown at first. *)
LEMMA CalcInit == Calc!Init => CalcInv
  <1> SUFFICES ASSUME Calc!Init PROVE CalcInv OBVIOUS
  <1>1. /\ peer = [c \in Callers |-> "new"] /\ talk \in CalcTalks
        /\ sent = [c \in Callers |-> 0] /\ got = [c \in Callers |-> <<>>]
        /\ rx = [c \in Callers |-> <<>>] /\ tx = [c \in Callers |-> <<>>]
        /\ fin = {} /\ rst = {} /\ conn = NoClient /\ inbuffer = <<>>
        /\ package = [c \in Callers |-> <<>>] /\ shown = [c \in Callers |-> <<>>]
    BY DEF Calc!Init, Calc!HostInit
  <1>2. CalcTypes BY <1>1 DEF CalcTypes
  <1>3. <<>> \in Seq(Unit) /\ <<>> \o <<>> = <<>> /\ Len(<<>>) = 0 OBVIOUS
  <1>4. Listed(<<>>) BY <1>3 DEF Listed
  <1>5. ASSUME NEW c \in Callers PROVE CalcTalk(c) /\ ShownRight(talk[c], shown[c])
    <2>1. Requests(talk[c]) BY <1>1, CalcRequests
    <2>2. Talking(talk[c], 0, 0, <<>>, <<>>, <<>>) BY <2>1, TalkBegins
    <2>3. Pending(c) = <<>> BY <1>1, <1>3 DEF Pending
    <2>4. CalcTalk(c) BY <1>1, <1>3, <1>4, <2>2, <2>3 DEF CalcTalk
    <2>5. Len(talk[c]) \in Nat BY <2>1 DEF Requests
    <2>6. 0 <= Len(talk[c]) BY <2>5
    <2> QED BY <1>1, <1>3, <1>4, <2>4, <2>6 DEF ShownRight
  <1> QED BY <1>2, <1>5 DEF CalcInv

(* Whom a step does not concern keeps what it was told. *)
LEMMA CalcKept ==
  ASSUME NEW c \in Callers, CalcTalk(c), ShownRight(talk[c], shown[c]), talk' = talk,
         peer'[c] # "gone" => /\ peer[c] # "gone" /\ sent'[c] = sent[c] /\ got'[c] = got[c]
                              /\ rx'[c] = rx[c] /\ tx'[c] = tx[c] /\ package'[c] = package[c]
                              /\ (c \in fin' \cup rst' => c \in fin \cup rst)
                              /\ conn' = c => inbuffer' \in Seq(Unit)
                              /\ Pending(c)' = Pending(c),
         shown'[c] = shown[c]
  PROVE  CalcTalk(c)' /\ ShownRight(talk[c], shown[c])'
  <1>1. CalcTalk(c)' BY DEF CalcTalk
  <1>2. ShownRight(talk[c], shown[c])' BY DEF ShownRight
  <1> QED BY <1>1, <1>2

(* What a client does, and its own conversation after it. *)
LEMMA CalcClient ==
  ASSUME CalcInv, NEW c \in Callers, Calc!Client(c)
  PROVE  CalcInv'
  <1>1. CalcTypes /\ CalcTalk(c) /\ ShownRight(talk[c], shown[c]) BY DEF CalcInv
  <1>2. UNCHANGED <<talk, conn, inbuffer>> /\ peer[c] \in {"new", "open", "gone"}
    BY <1>1 DEF CalcTypes, Calc!Client, Calc!calcVars, Calc!Ask, Calc!Show, Calc!Quit,
           Calc!Connect, Calc!Refuse, Calc!Send, Calc!Receive, Calc!Leave
  <1>3. Requests(talk[c]) BY <1>1, CalcRequests DEF CalcTypes
  <1>4. Calc!Stream(c) = Flat(talk[c]) BY DEF Calc!Stream, Calc!FlattenSeq, Flat
  <1>5. Calc!Asked(c) = Len(FlatTo(talk[c], Len(shown[c]) + 1))
    BY DEF Calc!Asked, Calc!FlattenSeq, FlatTo, Flat
  <1> DEFINE Own == /\ CalcTypes' /\ CalcTalk(c)' /\ ShownRight(talk[c], shown[c])'
                    /\ fin' \subseteq fin \cup {c} /\ rst' \subseteq rst \cup {c}
                    /\ \A d \in Callers \ {c} :
                         /\ peer'[d] = peer[d] /\ sent'[d] = sent[d] /\ got'[d] = got[d]
                         /\ rx'[d] = rx[d] /\ tx'[d] = tx[d] /\ package'[d] = package[d]
                         /\ shown'[d] = shown[d]
  <1>6. ASSUME Own PROVE CalcInv'
    <2>1. ASSUME NEW d \in Callers PROVE CalcTalk(d)' /\ ShownRight(talk[d], shown[d])'
      <3>1. CASE d = c BY <1>6, <3>1
      <3>2. CASE d # c
        <4>1. CalcTalk(d) /\ ShownRight(talk[d], shown[d]) BY DEF CalcInv
        <4>2. Pending(d)' = Pending(d) BY <1>2, <1>6, <3>2 DEF Pending
        <4>3. peer[d] # "gone" /\ conn = d => inbuffer \in Seq(Unit) BY <4>1 DEF CalcTalk
        <4> QED BY <1>2, <1>6, <3>2, <4>1, <4>2, <4>3, CalcKept
      <3> QED BY <3>1, <3>2
    <2> QED BY <1>6, <2>1 DEF CalcInv
  <1>7. CASE Calc!Connect(c) /\ UNCHANGED Calc!calcVars
    <2>1. /\ peer[c] = "new" /\ peer' = [peer EXCEPT ![c] = "open"]
          /\ UNCHANGED <<sent, got, rx, tx, fin, rst, package, shown>>
      BY <1>7 DEF Calc!Connect, Calc!calcVars
    <2>2. CalcTypes' BY <1>1, <1>2, <2>1 DEF CalcTypes
    <2>3. Pending(c)' = Pending(c) BY <1>2, <2>1 DEF Pending
    <2>4. CalcTalk(c)' BY <1>1, <1>2, <2>1, <2>3 DEF CalcTalk
    <2>5. ShownRight(talk[c], shown[c])' BY <1>1, <1>2, <2>1 DEF ShownRight
    <2> QED BY <1>1, <1>6, <2>1, <2>2, <2>4, <2>5 DEF CalcTypes
  <1>8. CASE (Calc!Refuse(c) \/ Calc!Leave(c)) /\ UNCHANGED Calc!calcVars
    <2>1. /\ peer' = [peer EXCEPT ![c] = "gone"] /\ tx' = [tx EXCEPT ![c] = <<>>]
          /\ fin' \subseteq fin \cup {c} /\ rst' \subseteq rst \cup {c}
          /\ UNCHANGED <<sent, got, rx, package, shown>>
      BY <1>1, <1>8 DEF Calc!Refuse, Calc!Leave, Calc!calcVars, CalcTypes
    <2>2. CalcTypes' /\ peer'[c] = "gone" BY <1>1, <1>2, <2>1 DEF CalcTypes
    <2>3. CalcTalk(c)' BY <2>2 DEF CalcTalk
    <2>4. ShownRight(talk[c], shown[c])' BY <1>1, <1>2, <2>1 DEF ShownRight
    <2> QED BY <1>1, <1>6, <2>1, <2>2, <2>3, <2>4 DEF CalcTypes
  <1>9. CASE Calc!Ask(c)
    <2>0. PICK m, k, t : m = Len(shown[c]) /\ k = sent[c] /\ t = talk[c] OBVIOUS
    <2>1. m \in Nat /\ k \in Nat /\ m < Len(t) /\ k < Len(FlatTo(t, m + 1))
      <3>1. m \in Nat
        <4>1. Listed(shown[c]) BY <1>1 DEF ShownRight
        <4> QED BY <2>0, <4>1 DEF Listed
      <3> QED BY <1>1, <1>5, <1>9, <2>0, <3>1 DEF Calc!Ask, Calc!Asking, CalcTypes
    <2>2. /\ peer[c] = "open" /\ sent' = [sent EXCEPT ![c] = k + 1]
          /\ rx' = [rx EXCEPT ![c] = Append(@, Flat(t)[sent'[c]])]
          /\ UNCHANGED <<peer, got, tx, fin, rst, package, shown>>
      BY <1>4, <1>9, <2>0 DEF Calc!Ask, Calc!Send, Calc!calcVars
    <2>3. sent'[c] = k + 1 /\ rx'[c] = Append(rx[c], Flat(t)[k + 1])
      BY <1>1, <2>2 DEF CalcTypes
    <2>4. CalcTypes'
      <3>1. sent' \in [Callers -> Nat]
        <4>1. k + 1 \in Nat /\ sent \in [Callers -> Nat] BY <1>1, <2>1 DEF CalcTypes
        <4> QED BY <2>2, <4>1
      <3> QED BY <1>1, <1>2, <2>2, <3>1 DEF CalcTypes
    <2>5. /\ c \notin fin \cup rst /\ Listed(got[c]) /\ rx[c] \in Seq(Unit)
          /\ (conn = c => inbuffer \in Seq(Unit))
          /\ Talking(t, m, k, Pending(c), package[c], tx[c])
      BY <1>1, <2>0, <2>2 DEF CalcTalk
    <2>6. Talking(t, m, k + 1, Append(Pending(c), Flat(t)[k + 1]), package[c], tx[c])
      BY <1>3, <2>0, <2>1, <2>5, TalkAsks
    <2>7. Flat(t)[k + 1] \in Unit
      <3>1. t \in Seq(Seq(Unit)) BY <1>3, <2>0 DEF Requests
      <3>2. m + 1 \in 1 .. Len(t) BY <2>1, <3>1
      <3>3. Flat(t) \in Seq(Unit) /\ Len(FlatTo(t, m + 1)) <= Len(Flat(t))
        BY <3>1, <3>2, FlatPiece
      <3>5. Len(FlatTo(t, m + 1)) \in Nat /\ Len(Flat(t)) \in Nat
        <4>1. m + 1 \in 0 .. Len(t) BY <3>2
        <4>2. FlatTo(t, m + 1) \in Seq(Unit) BY <3>1, <4>1, FlatNext
        <4> QED BY <3>3, <4>2
      <3>6. \A u, v, w \in Nat : u < v /\ v <= w => u + 1 \in 1 .. w OBVIOUS
      <3>4. k + 1 \in 1 .. Len(Flat(t)) BY <2>1, <3>3, <3>5, <3>6
      <3> QED BY <3>3, <3>4
    <2>8. rx'[c] \in Seq(Unit) BY <2>3, <2>5, <2>7
    <2>9. Pending(c)' = Append(Pending(c), Flat(t)[k + 1])
      <3>0. PICK i, x, r : i = (IF conn = c THEN inbuffer ELSE <<>>) /\ r = rx[c]
                           /\ x = Flat(t)[k + 1]
        OBVIOUS
      <3>1. i \in Seq(Unit) /\ r \in Seq(Unit) /\ x \in Unit BY <2>5, <2>7, <3>0
      <3>2. i \o Append(r, x) = Append(i \o r, x) BY <3>1
      <3> QED BY <1>2, <2>3, <3>0, <3>2 DEF Pending
    <2>10. CalcTalk(c)'
      <3>1. Talking(t, m, k + 1, Pending(c)', package[c], tx[c]) BY <2>6, <2>9
      <3>2. (Talking(talk[c], Len(shown[c]), sent[c], Pending(c), package[c], tx[c]))'
        BY <1>2, <2>0, <2>2, <2>3, <3>1
      <3> QED BY <1>2, <2>2, <2>5, <2>8, <3>2 DEF CalcTalk
    <2>11. ShownRight(talk[c], shown[c])' BY <1>1, <1>2, <2>2 DEF ShownRight
    <2> QED BY <1>1, <1>6, <2>2, <2>4, <2>10, <2>11 DEF CalcTypes
  <1>10. CASE Calc!Show(c)
    <2>0. PICK m, k, t, a, b : /\ m = Len(shown[c]) /\ k = sent[c] /\ t = talk[c]
                               /\ a = tx[c] /\ b = package[c]
      OBVIOUS
    <2>1. peer[c] = "open" /\ a # <<>> /\ UNCHANGED <<peer, sent, rx, fin, rst>>
      BY <1>10, <2>0 DEF Calc!Show, Calc!Receive
    <2>2. /\ c \notin fin \cup rst /\ Listed(got[c]) /\ rx[c] \in Seq(Unit)
          /\ (conn = c => inbuffer \in Seq(Unit))
          /\ Talking(t, m, k, Pending(c), b, a)
      BY <1>1, <2>0, <2>1 DEF CalcTalk
    <2>3. m \in Nat /\ k \in Nat
      <3>1. Listed(shown[c]) BY <1>1 DEF ShownRight
      <3>2. m \in Nat BY <2>0, <3>1 DEF Listed
      <3> QED BY <1>1, <2>0, <3>2 DEF CalcTypes
    <2>4. PICK n : n = IF Len(a) < CalcRead THEN Len(a) ELSE CalcRead OBVIOUS
    <2>5. n \in 1 .. Len(a)
      <3>1. a \in Seq(Unit) BY <2>1, <2>2 DEF Talking
      <3>2. Len(a) \in Nat \ {0} BY <2>1, <3>1
      <3>3. CalcRead \in Nat \ {0} BY NetworkProgramsAssumption DEF Calc!CalculatorAssumption
      <3> QED BY <2>4, <3>2, <3>3
    <2>6. PICK h, left, whole : /\ h = SubSeq(a, 1, n) /\ left = SubSeq(a, n + 1, Len(a))
                                /\ whole = b \o h
      OBVIOUS
    <2>7. /\ got' = [got EXCEPT ![c] = Append(@, h)]
          /\ tx' = [tx EXCEPT ![c] = left]
      BY <1>10, <2>0, <2>4, <2>6 DEF Calc!Show, Calc!Receive
    <2>8. got'[c] = Append(got[c], h) /\ tx'[c] = left /\ got'[c][Len(got'[c])] = h
          /\ Listed(got'[c])
      <3>1. got'[c] = Append(got[c], h) /\ tx'[c] = left BY <1>1, <2>7 DEF CalcTypes
      <3>2. PICK g : g = got[c] OBVIOUS
      <3>3. Listed(Append(g, h)) /\ Len(Append(g, h)) = Len(g) + 1
            /\ Append(g, h)[Len(g) + 1] = h
        BY <2>2, <3>2, Appended
      <3> QED BY <3>1, <3>2, <3>3
    <2>9. IF Calc!Whole(whole)
          THEN /\ shown' = [shown EXCEPT ![c] = Append(@, Calc!Body(whole))]
               /\ package' = [package EXCEPT ![c] = Calc!Rest(whole)]
          ELSE shown' = shown /\ package' = [package EXCEPT ![c] = whole]
      BY <1>10, <2>0, <2>6, <2>8 DEF Calc!Show
    <2>10. /\ m < Len(t)
           /\ Calc!Whole(whole) => /\ Calc!Body(whole) = Result(t[m + 1])
                                   /\ Talking(t, m + 1, k, Pending(c), Calc!Rest(whole), left)
           /\ ~Calc!Whole(whole) => Talking(t, m, k, Pending(c), whole, left)
      <3>1. Requests(t) BY <1>3, <2>0
      <3>2. PICK p : p = Pending(c) OBVIOUS
      <3>3. Talking(t, m, k, p, b, a) BY <2>2, <3>2
      <3>4. /\ m < Len(t)
            /\ Calc!Whole(b \o SubSeq(a, 1, n)) =>
                 /\ Calc!Body(b \o SubSeq(a, 1, n)) = Result(t[m + 1])
                 /\ Talking(t, m + 1, k, p, Calc!Rest(b \o SubSeq(a, 1, n)),
                            SubSeq(a, n + 1, Len(a)))
            /\ ~Calc!Whole(b \o SubSeq(a, 1, n)) =>
                 Talking(t, m, k, p, b \o SubSeq(a, 1, n), SubSeq(a, n + 1, Len(a)))
        BY <2>1, <2>3, <2>5, <3>1, <3>3, TalkShows
      <3> QED BY <2>6, <3>2, <3>4
    <2>11. Pending(c)' = Pending(c) BY <1>2, <2>1 DEF Pending
    <2>12. CASE Calc!Whole(whole)
      <3>1. shown'[c] = Append(shown[c], Result(t[m + 1])) /\ package'[c] = Calc!Rest(whole)
        BY <1>1, <2>9, <2>10, <2>12 DEF CalcTypes
      <3>2. CalcTypes' BY <1>1, <1>2, <2>1, <2>7, <2>9, <2>12 DEF CalcTypes
      <3>3. PICK r, x : r = shown[c] /\ x = Result(t[m + 1]) OBVIOUS
      <3>4. Listed(r) /\ \A i \in 1 .. m :
              LET q == Calc!Body(t[i]) IN Calc!Correct(q[1], q[2], q[3], r[i][1], r[i][2])
        BY <1>1, <2>0, <3>3 DEF ShownRight
      <3>5. Listed(Append(r, x)) /\ Len(Append(r, x)) = m + 1
            /\ (\A i \in 1 .. m : Append(r, x)[i] = r[i]) /\ Append(r, x)[m + 1] = x
        BY <2>0, <3>3, <3>4, Appended
      <3>6. CalcTalk(c)'
        <4>1. Talking(t, m + 1, k, Pending(c)', Calc!Rest(whole), left) BY <2>10, <2>11, <2>12
        <4>2. (Talking(talk[c], Len(shown[c]), sent[c], Pending(c), package[c], tx[c]))'
          BY <1>2, <2>0, <2>1, <2>8, <3>1, <3>3, <3>5, <4>1
        <4> QED BY <1>2, <2>1, <2>2, <2>8, <4>2 DEF CalcTalk
      <3>7. ShownRight(talk[c], shown[c])'
        <4>1. t \in Seq(Seq(Unit)) BY <1>3, <2>0 DEF Requests
        <4>2. m + 1 <= Len(t) /\ m + 1 \in 1 .. Len(t) BY <2>3, <2>10, <4>1
        <4>3. PICK q : q = Calc!Body(t[m + 1]) OBVIOUS
        <4>4. q[1] \in IntMin .. IntMax /\ q[3] \in IntMin .. IntMax
          BY <1>3, <2>0, <4>2, <4>3 DEF Requests
        <4>5. PICK result \in Int, code \in Int :
                x = <<result, code>> /\ Calc!Correct(q[1], q[2], q[3], result, code)
          BY <3>3, <4>3, <4>4, ExecuteRight DEF Result
        <4>6. Calc!Correct(q[1], q[2], q[3], x[1], x[2]) BY <4>5
        <4>7. ASSUME NEW i \in 1 .. m + 1
              PROVE LET p == Calc!Body(t[i])
                    IN Calc!Correct(p[1], p[2], p[3], Append(r, x)[i][1], Append(r, x)[i][2])
          <5>1. CASE i = m + 1 BY <3>5, <4>3, <4>6, <5>1
          <5>2. CASE i \in 1 .. m BY <3>4, <3>5, <5>2
          <5>3. i = m + 1 \/ i \in 1 .. m BY <2>3
          <5> QED BY <5>1, <5>2, <5>3
        <4>8. ShownRight(t, Append(r, x)) BY <3>5, <4>2, <4>7 DEF ShownRight
        <4> QED BY <1>2, <2>0, <3>1, <3>3, <4>8
      <3>8. \A d \in Callers \ {c} : shown'[d] = shown[d] /\ package'[d] = package[d]
        BY <1>1, <2>9, <2>12 DEF CalcTypes
      <3> QED BY <1>1, <1>6, <2>1, <2>7, <3>2, <3>6, <3>7, <3>8 DEF CalcTypes
    <2>13. CASE ~Calc!Whole(whole)
      <3>1. shown' = shown /\ package' = [package EXCEPT ![c] = whole] BY <2>9, <2>13
      <3>2. package'[c] = whole BY <1>1, <3>1 DEF CalcTypes
      <3>3. CalcTypes' BY <1>1, <1>2, <2>1, <2>7, <3>1 DEF CalcTypes
      <3>4. CalcTalk(c)'
        <4>1. Talking(t, m, k, Pending(c)', whole, left) BY <2>10, <2>11, <2>13
        <4>2. (Talking(talk[c], Len(shown[c]), sent[c], Pending(c), package[c], tx[c]))'
          BY <1>2, <2>0, <2>1, <2>8, <3>1, <3>2, <4>1
        <4> QED BY <1>2, <2>1, <2>2, <2>8, <4>2 DEF CalcTalk
      <3>5. ShownRight(talk[c], shown[c])' BY <1>1, <1>2, <3>1 DEF ShownRight
      <3> QED BY <1>1, <1>6, <2>1, <2>7, <3>1, <3>3, <3>4, <3>5 DEF CalcTypes
    <2> QED BY <2>12, <2>13
  <1> QED BY <1>7, <1>8, <1>9, <1>10 DEF Calc!Client, Calc!Quit

(* What the server does: accept, recv, answer, end the session. *)
LEMMA CalcServer ==
  ASSUME CalcInv, Calc!Server
  PROVE  CalcInv'
  <1>1. CalcTypes /\ \A c \in Callers : CalcTalk(c) /\ ShownRight(talk[c], shown[c])
    BY DEF CalcInv
  <1>2. /\ UNCHANGED <<peer, talk, sent, got, fin, rst, package, shown>>
        /\ DOMAIN rx' = Callers /\ DOMAIN tx' = Callers
    BY <1>1 DEF CalcTypes, Calc!Server, Calc!Accept, Calc!Recv, Calc!Answer, Calc!SessionEnd,
           Calc!hostVars
  <1>3. CalcTypes' BY <1>1, <1>2 DEF CalcTypes
  <1>4. ASSUME NEW c \in Callers PROVE ShownRight(talk[c], shown[c])'
    BY <1>1, <1>2 DEF ShownRight
  <1>5. SUFFICES ASSUME NEW c \in Callers, peer[c] # "gone" PROVE CalcTalk(c)'
    <2>1. ASSUME NEW c \in Callers PROVE CalcTalk(c)'
      <3>1. CASE peer[c] = "gone" BY <1>2, <3>1 DEF CalcTalk
      <3>2. CASE peer[c] # "gone" BY <1>5, <3>2
      <3> QED BY <3>1, <3>2
    <2> QED BY <1>3, <1>4, <2>1 DEF CalcInv
  <1>6. /\ CalcTalk(c) /\ ShownRight(talk[c], shown[c]) /\ c \notin fin \cup rst
        /\ rx[c] \in Seq(Unit) /\ (conn = c => inbuffer \in Seq(Unit))
        /\ Talking(talk[c], Len(shown[c]), sent[c], Pending(c), package[c], tx[c])
    BY <1>1, <1>5 DEF CalcTalk
  <1>7. NoClient \notin Callers BY NetworkProgramsAssumption DEF Calc!CalculatorAssumption
  <1>8. ASSUME rx'[c] = rx[c], tx'[c] = tx[c], Pending(c)' = Pending(c),
               conn' = c => inbuffer' \in Seq(Unit)
        PROVE  CalcTalk(c)'
    BY <1>2, <1>5, <1>6, <1>8, CalcKept
  <1>9. <<>> \in Seq(Unit) /\ <<>> \o rx[c] = rx[c] BY <1>6
  <1>10. CASE Calc!Accept
    <2>1. conn = NoClient /\ inbuffer' = <<>> /\ UNCHANGED <<rx, tx>> BY <1>10 DEF Calc!Accept
    <2>2. Pending(c)' = Pending(c) BY <1>7, <2>1 DEF Pending
    <2> QED BY <1>8, <1>9, <2>1, <2>2
  <1>11. CASE Calc!SessionEnd
    <2>1. /\ conn # NoClient /\ conn' = NoClient /\ conn \in fin \cup rst
          /\ UNCHANGED <<rx, tx, inbuffer>>
      BY <1>11 DEF Calc!SessionEnd, Calc!InSession, Calc!Ended, Calc!hostVars
    <2>2. conn # c /\ conn' # c BY <1>6, <1>7, <2>1
    <2>3. Pending(c)' = Pending(c) BY <2>1, <2>2 DEF Pending
    <2> QED BY <1>8, <2>1, <2>2, <2>3
  <1>12. CASE Calc!Recv
    <2>1. /\ inbuffer' = inbuffer \o Calc!Chunk(conn, CalcRead) /\ UNCHANGED <<tx, conn>>
          /\ rx' = [rx EXCEPT ![conn] = SubSeq(@, Len(Calc!Chunk(conn, CalcRead)) + 1, Len(@))]
      BY <1>12 DEF Calc!Recv
    <2>2. CASE conn # c
      <3>1. rx'[c] = rx[c] BY <1>1, <2>1, <2>2 DEF CalcTypes
      <3>2. Pending(c)' = Pending(c) BY <2>1, <2>2, <3>1 DEF Pending
      <3> QED BY <1>8, <2>1, <2>2, <3>1, <3>2
    <2>3. CASE conn = c
      <3>0. PICK i, r : i = inbuffer /\ r = rx[c] OBVIOUS
      <3>1. i \in Seq(Unit) /\ r \in Seq(Unit) /\ Len(r) \in Nat BY <1>6, <2>3, <3>0
      <3>2. PICK n : n = IF Len(r) < CalcRead THEN Len(r) ELSE CalcRead OBVIOUS
      <3>3. n \in 0 .. Len(r)
        <4>1. CalcRead \in Nat BY NetworkProgramsAssumption DEF Calc!CalculatorAssumption
        <4> QED BY <3>1, <3>2, <4>1
      <3>4. Calc!Chunk(conn, CalcRead) = SubSeq(r, 1, n) BY <2>3, <3>0, <3>2 DEF Calc!Chunk
      <3>5. PICK h, l : h = SubSeq(r, 1, n) /\ l = SubSeq(r, n + 1, Len(r)) OBVIOUS
      <3>6. h \in Seq(Unit) /\ Len(h) = n /\ l \in Seq(Unit) /\ h \o l = r
        BY <3>1, <3>3, <3>5, CutInTwo
      <3>7. inbuffer' = i \o h BY <2>1, <3>0, <3>4, <3>5
      <3>8. rx'[c] = l
        <4>1. rx' = [rx EXCEPT ![c] = SubSeq(@, Len(SubSeq(r, 1, n)) + 1, Len(@))]
          BY <2>1, <2>3, <3>4
        <4>2. rx'[c] = SubSeq(r, Len(SubSeq(r, 1, n)) + 1, Len(r))
          BY <1>1, <3>0, <4>1 DEF CalcTypes
        <4> QED BY <3>5, <3>6, <4>2
      <3>9. (i \o h) \o l = i \o (h \o l)
        <4>1. i \in Seq(Unit) /\ h \in Seq(Unit) /\ l \in Seq(Unit) BY <3>1, <3>6
        <4> QED BY <4>1, Associated
      <3>10. Pending(c)' = Pending(c)
        <4>1. Pending(c) = i \o r BY <2>3, <3>0 DEF Pending
        <4>2. Pending(c)' = (i \o h) \o l BY <2>1, <2>3, <3>7, <3>8 DEF Pending
        <4> QED BY <3>6, <3>9, <4>1, <4>2
      <3>11. rx'[c] \in Seq(Unit) /\ inbuffer' \in Seq(Unit)
        <4>1. i \o h \in Seq(Unit) BY <3>1, <3>6, Concatenation
        <4> QED BY <3>6, <3>7, <3>8, <4>1
      <3> QED BY <1>2, <1>5, <1>6, <2>1, <2>3, <3>10, <3>11 DEF CalcTalk
    <2> QED BY <2>2, <2>3
  <1>13. CASE Calc!Answer
    <2>1. UNCHANGED <<rx, conn>> BY <1>13 DEF Calc!Answer
    <2>2. CASE conn # c
      <3>1. tx'[c] = tx[c]
        <4>1. \/ tx' = tx
              \/ \E x : tx' = [tx EXCEPT ![conn] = x]
          BY <1>13 DEF Calc!Answer
        <4> QED BY <1>1, <2>2, <4>1 DEF CalcTypes
      <3>2. Pending(c)' = Pending(c) BY <2>1, <2>2 DEF Pending
      <3> QED BY <1>8, <2>1, <2>2, <3>1, <3>2
    <2>3. CASE conn = c
      <3>0. PICK i, r, q, t, m : /\ i = inbuffer /\ r = rx[c] /\ q = Calc!Body(i)
                                 /\ t = talk[c] /\ m = Len(shown[c])
        OBVIOUS
      <3>1. Calc!Whole(i) /\ i \in Seq(Unit) /\ r \in Seq(Unit)
        BY <1>6, <1>13, <2>3, <3>0 DEF Calc!Answer
      <3>2. Pending(c) = i \o r BY <2>3, <3>0 DEF Pending
      <3>3. Requests(t) /\ m \in Nat /\ m <= Len(t) /\ sent[c] \in Nat
        <4>1. Requests(t) BY <1>1, <3>0, CalcRequests DEF CalcTypes
        <4>2. Listed(shown[c]) /\ m <= Len(t) BY <1>6, <3>0 DEF ShownRight
        <4>3. m \in Nat BY <3>0, <4>2 DEF Listed
        <4> QED BY <1>1, <4>1, <4>2, <4>3 DEF CalcTypes
      <3>4. PICK p, s, k, a : /\ p = Pending(c) /\ s = sent[c] /\ k = package[c] /\ a = tx[c]
        OBVIOUS
      <3>5. Talking(t, m, s, p, k, a) /\ p = i \o r /\ s \in Nat
        BY <1>6, <3>0, <3>2, <3>3, <3>4
      <3>6. /\ m < Len(t) /\ Calc!Body(i) = Calc!Body(t[m + 1]) /\ Calc!Rest(i) = <<>>
            /\ Talking(t, m, s, Calc!Rest(i) \o r, k, a \o Reply(t[m + 1]))
        BY <3>1, <3>3, <3>5, TalkAnswers
      <3>7. CASE Calc!Traps(q[1], q[2], q[3])
        <4>1. UNCHANGED <<inbuffer, tx>> BY <1>13, <3>0, <3>7 DEF Calc!Answer
        <4>3. rx' = rx /\ conn' = conn /\ inbuffer' = inbuffer BY <2>1, <4>1
        <4>2. Pending(c)' = Pending(c) BY <4>3, SMTT(30) DEF Pending
        <4> QED BY <1>6, <1>8, <2>1, <4>1, <4>2
      <3>8. CASE ~Calc!Traps(q[1], q[2], q[3])
        <4>1. /\ inbuffer' = Calc!Rest(i)
              /\ tx' = [tx EXCEPT ![c] = @ \o Reply(t[m + 1])]
          BY <1>6, <1>13, <2>3, <3>0, <3>6, <3>8, ZenonT(30) DEF Calc!Answer, Reply, Result
        <4>2. tx'[c] = a \o Reply(t[m + 1]) BY <1>1, <3>4, <4>1 DEF CalcTypes
        <4>3. Pending(c)' = Calc!Rest(i) \o r BY <2>1, <2>3, <3>0, <4>1 DEF Pending
        <4>4. (Talking(talk[c], Len(shown[c]), sent[c], Pending(c), package[c], tx[c]))'
          BY <1>2, <3>0, <3>4, <3>6, <4>2, <4>3
        <4>5. inbuffer' \in Seq(Unit)
          BY <1>9, <3>6, <4>1
        <4>6. rx'[c] \in Seq(Unit) /\ c \notin fin' \cup rst' /\ Listed(got'[c])
          BY <1>2, <1>6, <2>1, <1>5 DEF CalcTalk
        <4> QED BY <4>4, <4>5, <4>6, ZenonT(30) DEF CalcTalk
      <3> QED BY <3>7, <3>8
    <2> QED BY <2>2, <2>3
  <1> QED BY <1>10, <1>11, <1>12, <1>13 DEF Calc!Server

(* Every step of the part keeps its invariant. *)
LEMMA CalcNext ==
  ASSUME CalcInv, Calc!Server \/ \E c \in Callers : Calc!Client(c)
  PROVE  CalcInv'
  BY CalcClient, CalcServer

(* A step that changes none of it keeps it. *)
LEMMA CalcStill ==
  ASSUME CalcInv, UNCHANGED <<peer, talk, sent, got, backlog, rx, tx, fin, rst, conn,
                              inbuffer, package, shown, closed, alive>>
  PROVE  CalcInv'
  BY DEF CalcInv, CalcTypes, CalcTalk, ShownRight, Pending

(* What a client is shown is what it asked for. *)
LEMMA CalcAnswers == CalcInv => Calc!AnswersRight
  <1> SUFFICES ASSUME CalcInv, NEW c \in Callers, NEW i \in DOMAIN shown[c]
               PROVE  Calc!Correct(Calc!Request(c, i)[1], Calc!Request(c, i)[2],
                                   Calc!Request(c, i)[3], shown[c][i][1], shown[c][i][2])
    BY DEF Calc!AnswersRight
  <1>1. ShownRight(talk[c], shown[c]) BY DEF CalcInv
  <1>2. DOMAIN shown[c] = 1 .. Len(shown[c]) BY <1>1 DEF ShownRight, Listed
  <1> QED BY <1>1, <1>2 DEF ShownRight, Calc!Request

-----------------------------------------------------------------------------
(* The HTTP server of 09.                                                  *)

(* A request that has begun to arrive: its first line is known. *)
Begun(h, s) == \E k \in 1 .. Len(s) : h = SubSeq(s, 1, k)

(* What the answer a to c must be, who says s and was heard to say h, when *)
(* those who are kept have a session.                                      *)
RightAnswer(s, c, h, a, kept) ==
  /\ Http!Finds(s) => a = IF Http!GetCookie(h) # {} THEN <<200, "/user.html">>
                          ELSE <<200, "401">>
  /\ Http!Target(s) = "POST /login" /\ a = <<200, "refused">>
       => "good" \notin Http!Credentials(s) \/ h # s
  /\ Len(a) = 3 => Http!Inserts(s) /\ c \in kept
  /\ a[1] = 404 => Http!GetPath(Http!Target(s)) \notin Files

HttpTypes ==
  /\ talk \in HttpTalks /\ peer \in [Clients -> {"new", "open", "gone"}]
  /\ sent \in [Clients -> Nat] /\ \A c \in Clients : sent[c] <= Len(Http!Stream(c))
  /\ backlog \in Seq(Clients) /\ Once(backlog)
  /\ thread \in [Clients -> {"none", "stuck", "recv", "map", "in_map", "hung",
                             "answer", "done"}]
  /\ DOMAIN rx = Clients /\ DOMAIN tx = Clients /\ DOMAIN got = Clients
  /\ DOMAIN heard = Clients /\ DOMAIN reply = Clients
  /\ raced \in BOOLEAN

(* Who waits in the backlog has no thread yet, and who is not there has    *)
(* asked nothing.                                                          *)
HttpQueue ==
  /\ \A c \in Members(backlog) : peer[c] # "new" /\ thread[c] = "none"
  /\ \A c \in Clients : peer[c] = "new" => thread[c] = "none"

(* How far the conversation with c is. *)
HttpAsked(c) ==
  /\ thread[c] \in {"none", "stuck", "recv"} =>
       /\ heard[c] = <<>> /\ got[c] = <<>> /\ tx[c] = <<>>
       /\ rx[c] = SubSeq(Http!Stream(c), 1, sent[c])
  /\ thread[c] \in {"map", "in_map", "hung", "answer"} =>
       Begun(heard[c], Http!Stream(c)) /\ got[c] = <<>> /\ tx[c] = <<>>
  /\ thread[c] \in {"map", "in_map"} => Http!Inserts(heard[c]) \/ Http!Finds(heard[c])
  /\ thread[c] = "answer" /\ ~raced => RightAnswer(Http!Stream(c), c, heard[c], reply[c], g_sessions)
HttpAnswered(c) ==
  thread[c] = "done" =>
    \/ got[c] = <<>> /\ tx[c] = <<>>
    \/ /\ \/ got[c] = <<>> /\ tx[c] = <<reply[c]>>
          \/ got[c] = << <<reply[c]>> >> /\ tx[c] = <<>>
       /\ ~raced => RightAnswer(Http!Stream(c), c, heard[c], reply[c], g_sessions)

(* Cookies that are shown were given out. *)
HttpCookies ==
  ~raced => \A c \in Clients : peer[c] # "new" =>
    Http!GetCookie(Http!Stream(c)) \subseteq g_sessions

HttpInv ==
  /\ HttpTypes /\ HttpQueue /\ HttpCookies
  /\ \A c \in Clients : HttpAsked(c) /\ HttpAnswered(c)

(* What a client says is a request. *)
LEMMA HttpStreams ==
  ASSUME HttpTypes, NEW c \in Clients
  PROVE  Http!Asks(Http!Stream(c)) /\ Http!Stream(c) \in Seq(Http!Unit)
  BY NetworkProgramsAssumption DEF HttpTypes, Http!Stream, Http!HttpSessionsAssumption, Http!Asks

(* The first part of a request has its line, and no cookies and body that  *)
(* the whole has not.                                                      *)
LEMMA HttpBegun ==
  ASSUME NEW s \in Seq(Http!Unit), Http!Asks(s), NEW h, Begun(h, s)
  PROVE  /\ Http!Target(h) = Http!Target(s)
         /\ Http!Finds(h) <=> Http!Finds(s)
         /\ Http!GetCookie(h) \subseteq Http!GetCookie(s)
         /\ Http!Credentials(h) \subseteq Http!Credentials(s)
         /\ Http!Inserts(h) => Http!Inserts(s)
         /\ h = s => Http!Credentials(h) = Http!Credentials(s)
  <1>1. PICK k \in 1 .. Len(s) : h = SubSeq(s, 1, k) BY DEF Begun
  <1>2. /\ DOMAIN s = 1 .. Len(s) /\ Len(s) \in Nat /\ DOMAIN h = 1 .. k
        /\ \A i \in 1 .. k : h[i] = s[i] /\ i \in 1 .. Len(s)
    <2>1. k \in Nat /\ h \in Seq(Http!Unit) /\ Len(h) = k /\ \A i \in 1 .. k : h[i] = s[i]
      BY <1>1
    <2> QED BY <2>1
  <1>3. ASSUME NEW what PROVE Http!Units(h, what) \subseteq Http!Units(s, what)
    BY <1>2 DEF Http!Units
  <1>4. 1 \in 1 .. k /\ \A i \in DOMAIN s : s[i][1] = "line" <=> i = 1
    BY DEF Http!Asks
  <1>5. {i \in DOMAIN s : s[i][1] = "line"} = {1} BY <1>2, <1>4
  <1>6. {i \in DOMAIN h : h[i][1] = "line"} = {1} BY <1>2, <1>4
  <1>7. Http!Units(s, "line") = {s[1]} BY <1>5 DEF Http!Units
  <1>8. Http!Units(h, "line") = {s[1]} BY <1>2, <1>4, <1>6 DEF Http!Units
  <1>9. Http!Target(h) = Http!Target(s) BY <1>7, <1>8 DEF Http!Target
  <1>10. /\ Http!GetCookie(h) \subseteq Http!GetCookie(s)
         /\ Http!Credentials(h) \subseteq Http!Credentials(s)
    BY <1>3 DEF Http!GetCookie, Http!Credentials
  <1> QED BY <1>9, <1>10 DEF Http!Finds, Http!Inserts

(* Only clients wait. *)
LEMMA HttpBacklog == HttpTypes => Members(backlog) \subseteq Clients
  <1>1. HttpTypes => backlog \in Seq(Clients) BY DEF HttpTypes
  <1> QED BY <1>1, MembersIn

(* Nobody has asked at first. *)
LEMMA HttpInit == Http!Init => HttpInv
  <1> SUFFICES ASSUME Http!Init PROVE HttpInv OBVIOUS
  <1>1. /\ peer = [c \in Clients |-> "new"] /\ talk \in HttpTalks
        /\ sent = [c \in Clients |-> 0] /\ got = [c \in Clients |-> <<>>] /\ backlog = <<>>
        /\ rx = [c \in Clients |-> <<>>] /\ tx = [c \in Clients |-> <<>>]
        /\ thread = [c \in Clients |-> "none"] /\ heard = [c \in Clients |-> <<>>]
        /\ reply = [c \in Clients |-> <<>>] /\ g_sessions = {} /\ raced = FALSE
    BY DEF Http!Init, Http!HostInit
  <1>2. ASSUME NEW c \in Clients PROVE Http!Stream(c) \in Seq(Http!Unit)
    BY <1>1, NetworkProgramsAssumption DEF Http!Stream, Http!HttpSessionsAssumption, Http!Asks
  <1>3. HttpTypes
    <2>1. \A c \in Clients : 0 <= Len(Http!Stream(c))
      <3>1. \A c \in Clients : Len(Http!Stream(c)) \in Nat BY <1>2
      <3> QED BY <3>1
    <2>2. \A c \in Clients : sent[c] <= Len(Http!Stream(c)) BY <1>1, <2>1
    <2>3. backlog \in Seq(Clients) /\ Once(backlog) BY <1>1, NoMembers
    <2> QED BY <1>1, <2>2, <2>3 DEF HttpTypes
  <1>4. HttpQueue /\ HttpCookies BY <1>1, NoMembers DEF HttpQueue, HttpCookies
  <1>5. ASSUME NEW c \in Clients PROVE HttpAsked(c) /\ HttpAnswered(c)
    <2>1. SubSeq(Http!Stream(c), 1, 0) = <<>> BY <1>2
    <2> QED BY <1>1, <2>1 DEF HttpAsked, HttpAnswered
  <1> QED BY <1>3, <1>4, <1>5 DEF HttpInv

(* Whom a step does not concern keeps what it was told. *)
LEMMA HttpKept ==
  ASSUME NEW c \in Clients, HttpAsked(c), HttpAnswered(c), talk' = talk,
         sent'[c] = sent[c], got'[c] = got[c], rx'[c] = rx[c], tx'[c] = tx[c],
         thread'[c] = thread[c], heard'[c] = heard[c], reply'[c] = reply[c],
         raced => raced', ~raced' => g_sessions \subseteq g_sessions'
  PROVE  HttpAsked(c)' /\ HttpAnswered(c)'
  <1>1. Http!Stream(c)' = Http!Stream(c) BY DEF Http!Stream
  <1>2. ASSUME ~raced', RightAnswer(Http!Stream(c), c, heard[c], reply[c], g_sessions)
        PROVE  RightAnswer(Http!Stream(c), c, heard[c], reply[c], g_sessions)'
    <2> PICK s, h, a : s = Http!Stream(c) /\ h = heard[c] /\ a = reply[c] OBVIOUS
    <2>1. RightAnswer(s, c, h, a, g_sessions) /\ g_sessions \subseteq g_sessions' BY <1>2
    <2>2. RightAnswer(s, c, h, a, g_sessions') BY <2>1 DEF RightAnswer
    <2> QED BY <1>1, <2>2
  <1>3. HttpAsked(c)' BY <1>1, <1>2 DEF HttpAsked
  <1>4. HttpAnswered(c)' BY <1>2 DEF HttpAnswered
  <1> QED BY <1>3, <1>4

(* A step that changes none of it keeps it. *)
LEMMA HttpStill ==
  ASSUME HttpInv, UNCHANGED <<peer, talk, sent, got, backlog, rx, tx, thread, heard, reply,
                              g_sessions, raced>>
  PROVE  HttpInv'
  BY DEF HttpInv, HttpTypes, HttpQueue, HttpAsked, HttpAnswered, HttpCookies, Http!Stream

(* What a client does. *)
LEMMA HttpClient ==
  ASSUME HttpInv, NEW c \in Clients, Http!Client(c)
  PROVE  HttpInv'
  <1>1. UNCHANGED <<talk, thread, heard, reply, g_sessions, raced>>
    BY DEF Http!Client, Http!httpVars, Http!Connect, Http!Send, Http!Receive, Http!Leave,
           Http!Refuse, Http!Reset
  <1>2. \A d : Http!Stream(d)' = Http!Stream(d) BY <1>1 DEF Http!Stream
  <1>3. HttpTypes /\ HttpQueue /\ HttpCookies /\ HttpAsked(c) /\ HttpAnswered(c) BY DEF HttpInv
  <1>4. Http!Stream(c) \in Seq(Http!Unit) /\ Len(Http!Stream(c)) \in Nat
    <2>1. Http!Stream(c) \in Seq(Http!Unit) BY <1>3, HttpStreams
    <2> QED BY <2>1
  <1>5. ASSUME Http!Connect(c),
               \A u \in Http!Units(Http!Stream(c), "cookie") :
                 \E i \in DOMAIN got[u[2]] : Len(got[u[2]][i][1]) = 3
        PROVE  HttpInv'
    <2>1. /\ peer[c] = "new" /\ peer' = [peer EXCEPT ![c] = "open"]
          /\ backlog' = Append(backlog, c) /\ UNCHANGED <<sent, got, rx, tx>>
      BY <1>5 DEF Http!Connect
    <2>2. c \notin Members(backlog) BY <1>3, <2>1 DEF HttpQueue
    <2>3. /\ backlog' \in Seq(Clients) /\ Once(backlog')
          /\ Members(backlog') = Members(backlog) \cup {c}
      <3>1. backlog \in Seq(Clients) /\ Once(backlog) BY <1>3 DEF HttpTypes
      <3> QED BY <2>1, <2>2, <3>1, AppendedMember
    <2>4. HttpTypes' BY <1>1, <1>2, <1>3, <2>1, <2>3 DEF HttpTypes
    <2>5. HttpQueue'
      <3>0. Members(backlog) \subseteq Clients BY <1>3, HttpBacklog
      <3>1. \A d \in Clients : peer'[d] = "new" => peer[d] = "new"
        BY <1>3, <2>1 DEF HttpTypes
      <3>2. thread[c] = "none" /\ peer'[c] = "open" BY <1>3, <2>1 DEF HttpQueue, HttpTypes
      <3> QED BY <1>1, <1>3, <2>3, <3>0, <3>1, <3>2 DEF HttpQueue
    <2>6. HttpCookies'
      <3>1. ASSUME ~raced, NEW u \in Http!Units(Http!Stream(c), "cookie") PROVE u[2] \in g_sessions
        <4>1. u[2] \in Clients
          BY <1>4 DEF Http!Units, Http!Unit
        <4>2. PICK i \in DOMAIN got[u[2]] : Len(got[u[2]][i][1]) = 3 BY <1>5
        <4>3. /\ HttpAsked(u[2]) /\ HttpAnswered(u[2])
              /\ thread[u[2]] \in {"none", "stuck", "recv", "map", "in_map", "hung", "answer", "done"}
          BY <4>1 DEF HttpInv, HttpTypes
        <4> PICK d \in Clients : d = u[2] BY <4>1
        <4>4. got[d] # <<>> BY <4>2
        <4>5. got[d] = << <<reply[d]>> >>
              /\ RightAnswer(Http!Stream(d), d, heard[d], reply[d], g_sessions)
          BY <3>1, <4>3, <4>4 DEF HttpAsked, HttpAnswered
        <4>6. Len(reply[d]) = 3 BY <4>2, <4>5
        <4> QED BY <4>5, <4>6 DEF RightAnswer
      <3> QED BY <1>1, <1>2, <1>3, <2>1, <3>1 DEF HttpCookies, Http!GetCookie, HttpTypes
    <2>7. ASSUME NEW d \in Clients PROVE HttpAsked(d)' /\ HttpAnswered(d)'
      BY <1>1, <2>1, HttpKept DEF HttpInv
    <2> QED BY <2>4, <2>5, <2>6, <2>7 DEF HttpInv
  <1> DEFINE OthersSame == \A d \in Clients \ {c} : /\ sent'[d] = sent[d] /\ got'[d] = got[d]
                                                /\ rx'[d] = rx[d] /\ tx'[d] = tx[d]
  <1>6. ASSUME OthersSame, HttpTypes', backlog' = backlog,
               \A d \in Clients : peer'[d] = "new" <=> peer[d] = "new",
               HttpAsked(c)', HttpAnswered(c)'
        PROVE  HttpInv'
    <2>1. ASSUME NEW d \in Clients PROVE HttpAsked(d)' /\ HttpAnswered(d)'
      BY <1>1, <1>6, HttpKept DEF HttpInv
    <2>2. HttpQueue' 
      <3>1. Members(backlog) \subseteq Clients BY <1>3, HttpBacklog
      <3> QED BY <1>1, <1>3, <1>6, <3>1 DEF HttpQueue
    <2>3. HttpCookies' BY <1>1, <1>2, <1>3, <1>6 DEF HttpCookies
    <2> QED BY <1>6, <2>1, <2>2, <2>3 DEF HttpInv
  <1>7. CASE Http!Send(c)
    <2> PICK k \in Nat : k = sent[c] BY <1>3 DEF HttpTypes
    <2>1. /\ k < Len(Http!Stream(c)) /\ sent' = [sent EXCEPT ![c] = k + 1]
          /\ rx' = [rx EXCEPT ![c] = Append(@, Http!Stream(c)[k + 1])]
          /\ UNCHANGED <<peer, got, backlog, tx>>
      BY <1>2, <1>3, <1>7 DEF Http!Send, HttpTypes
    <2>2. HttpTypes'
      <3>1. k + 1 <= Len(Http!Stream(c)) BY <1>4, <2>1
      <3>2. /\ sent' \in [Clients -> Nat] /\ sent'[c] = k + 1
            /\ \A d \in Clients \ {c} : sent'[d] = sent[d]
        <4>0. k + 1 \in Nat OBVIOUS
        <4>1. sent \in [Clients -> Nat] BY <1>3 DEF HttpTypes
        <4>2. sent' = [sent EXCEPT ![c] = k + 1] BY <2>1
        <4> QED BY <4>0, <4>1, <4>2
      <3>4. \A d \in Clients : sent'[d] <= Len(Http!Stream(d))
        BY <1>3, <3>1, <3>2 DEF HttpTypes
      <3>3. DOMAIN rx' = Clients BY <1>3, <2>1 DEF HttpTypes
      <3> QED BY <1>1, <1>2, <1>3, <2>1, <3>2, <3>3, <3>4 DEF HttpTypes
    <2>3. Append(SubSeq(Http!Stream(c), 1, k), Http!Stream(c)[k + 1])
            = SubSeq(Http!Stream(c), 1, k + 1)
      BY <1>4, <2>1
    <2>4. rx'[c] = Append(rx[c], Http!Stream(c)[k + 1]) /\ sent'[c] = k + 1
      BY <1>3, <2>1 DEF HttpTypes
    <2>5. HttpAsked(c)' BY <1>1, <1>2, <1>3, <2>1, <2>3, <2>4 DEF HttpAsked
    <2>6. HttpAnswered(c)' BY <1>1, <1>2, <1>3, <2>1 DEF HttpAnswered
    <2>7. OthersSame BY <1>3, <2>1 DEF HttpTypes
    <2> QED BY <1>6, <2>1, <2>2, <2>5, <2>6, <2>7
  <1>8. CASE Http!Receive(c, 1)
    <2>1. tx[c] # <<>> BY <1>8 DEF Http!Receive
    <2>2. /\ thread[c] = "done" /\ got[c] = <<>> /\ tx[c] = <<reply[c]>>
          /\ ~raced => RightAnswer(Http!Stream(c), c, heard[c], reply[c], g_sessions)
      BY <1>3, <2>1 DEF HttpAsked, HttpAnswered, HttpTypes
    <2>3. Len(tx[c]) = 1 /\ SubSeq(tx[c], 1, 1) = <<reply[c]>> /\ SubSeq(tx[c], 2, 1) = <<>>
          /\ Append(got[c], <<reply[c]>>) = << <<reply[c]>> >>
      <3> PICK t : t = tx[c] OBVIOUS
      <3>1. t \in Seq({reply[c]}) /\ Len(t) = 1 BY <2>2
      <3>2. SubSeq(t, 1, 1) = t BY <3>1, AllOf
      <3>3. SubSeq(t, 2, 1) = <<>> BY <3>1
      <3> QED BY <2>2, <3>1, <3>2, <3>3
    <2>4. got' = [got EXCEPT ![c] = << <<reply[c]>> >>] /\ tx' = [tx EXCEPT ![c] = <<>>]
          /\ UNCHANGED <<peer, sent, backlog, rx>>
      <3> PICK n : n = IF Len(tx[c]) < 1 THEN Len(tx[c]) ELSE 1 OBVIOUS
      <3>1. n = 1 BY <2>3
      <3>2. /\ got' = [got EXCEPT ![c] = Append(@, SubSeq(tx[c], 1, n))]
            /\ tx' = [tx EXCEPT ![c] = SubSeq(@, n + 1, Len(@))]
            /\ UNCHANGED <<peer, sent, backlog, rx>>
        BY <1>8 DEF Http!Receive
      <3>3. SubSeq(tx[c], n + 1, Len(tx[c])) = <<>> /\ SubSeq(tx[c], 1, n) = <<reply[c]>>
        BY <2>3, <3>1
      <3> QED BY <2>3, <3>2, <3>3
    <2>5. HttpTypes' BY <1>1, <1>2, <1>3, <2>4 DEF HttpTypes
    <2>6. OthersSame BY <1>3, <2>4 DEF HttpTypes
    <2>7. HttpAsked(c)' BY <1>1, <2>2 DEF HttpAsked
    <2>8. HttpAnswered(c)' BY <1>1, <1>2, <1>3, <2>2, <2>4 DEF HttpAnswered, HttpTypes
    <2> QED BY <1>6, <2>4, <2>5, <2>6, <2>7, <2>8
  <1>9. CASE Http!Leave(c) \/ Http!Refuse(c)
    <2>1. /\ tx' = [tx EXCEPT ![c] = <<>>] /\ UNCHANGED <<sent, got, backlog, rx>>
          /\ peer[c] # "new" /\ peer' = [peer EXCEPT ![c] = "gone"]
      BY <1>3, <1>9 DEF Http!Leave, Http!Refuse, HttpTypes
    <2>2. HttpTypes' BY <1>1, <1>2, <1>3, <2>1 DEF HttpTypes
    <2>3. OthersSame BY <1>3, <2>1 DEF HttpTypes
    <2>4. HttpAsked(c)' BY <1>1, <1>2, <1>3, <2>1 DEF HttpAsked, HttpTypes
    <2>5. HttpAnswered(c)' BY <1>1, <1>2, <1>3, <2>1 DEF HttpAnswered, HttpTypes
    <2> QED BY <1>3, <1>6, <2>1, <2>2, <2>3, <2>4, <2>5 DEF HttpTypes
  <1>10. CASE Http!Reset(c)
    <2>1. /\ UNCHANGED <<sent, got, backlog, rx, tx>>
          /\ peer[c] # "new" /\ peer' = [peer EXCEPT ![c] = "gone"]
      BY <1>3, <1>10 DEF Http!Reset, HttpTypes
    <2>2. HttpTypes' BY <1>1, <1>2, <1>3, <2>1 DEF HttpTypes
    <2>3. HttpAsked(c)' BY <1>1, <1>2, <1>3, <2>1 DEF HttpAsked
    <2>4. HttpAnswered(c)' BY <1>1, <1>2, <1>3, <2>1 DEF HttpAnswered
    <2> QED BY <1>3, <1>6, <2>1, <2>2, <2>3, <2>4 DEF HttpTypes
  <1> QED BY <1>5, <1>7, <1>8, <1>9, <1>10 DEF Http!Client

(* accept, and the thread if there is one. *)
LEMMA HttpAccept ==
  ASSUME HttpInv, Http!Accept
  PROVE  HttpInv'
  <1>1. /\ backlog # <<>> /\ backlog' = Tail(backlog)
        /\ UNCHANGED <<peer, talk, sent, got, rx, tx, heard, reply, g_sessions, raced>>
    BY DEF Http!Accept
  <1>2. /\ Head(backlog) \in Clients /\ backlog' \in Seq(Clients) /\ Once(backlog')
        /\ Members(backlog) = {Head(backlog)} \cup Members(backlog')
        /\ Head(backlog) \notin Members(backlog')
    <2>1. backlog \in Seq(Clients) /\ Once(backlog) BY DEF HttpInv, HttpTypes
    <2> QED BY <1>1, <2>1, FirstMember
  <1> PICK c \in Clients : c = Head(backlog) BY <1>2
  <1>3. \/ thread' = [thread EXCEPT ![c] = "recv"]
        \/ thread' = [thread EXCEPT ![c] = "stuck"]
    BY DEF Http!Accept
  <1>4. peer[c] # "new" /\ thread[c] = "none" BY <1>2 DEF HttpInv, HttpQueue
  <1>5. HttpTypes'
    BY <1>1, <1>2, <1>3 DEF HttpInv, HttpTypes, Http!Stream
  <1>6. HttpQueue'
    <2>1. Members(backlog') \subseteq Clients BY <1>2, MembersIn
    <2> QED BY <1>1, <1>2, <1>3, <1>4, <2>1 DEF HttpInv, HttpQueue, HttpTypes
  <1>7. HttpCookies' BY <1>1 DEF HttpInv, HttpCookies, Http!Stream
  <1>8. ASSUME NEW d \in Clients PROVE HttpAsked(d)' /\ HttpAnswered(d)'
    <2>1. CASE d = c
      BY <1>1, <1>3, <1>4, <2>1 DEF HttpInv, HttpTypes, HttpAsked, HttpAnswered, Http!Stream
    <2>2. CASE d # c
      <3>1. thread'[d] = thread[d] BY <1>3, <2>2 DEF HttpInv, HttpTypes
      <3> QED BY <1>1, <3>1, HttpKept DEF HttpInv
    <2> QED BY <2>1, <2>2
  <1> QED BY <1>5, <1>6, <1>7, <1>8 DEF HttpInv

(* A step of c's thread: what is left to show about it. *)
LEMMA HttpOwn ==
  ASSUME HttpInv, NEW c \in Clients, thread[c] # "none",
         NEW t \in {"map", "in_map", "hung", "answer", "done"}, thread' = [thread EXCEPT ![c] = t],
         UNCHANGED <<peer, talk, sent, got, backlog>>,
         DOMAIN rx' = Clients /\ DOMAIN tx' = Clients,
         DOMAIN heard' = Clients /\ DOMAIN reply' = Clients,
         \A d \in Clients \ {c} : rx'[d] = rx[d] /\ tx'[d] = tx[d]
                                 /\ heard'[d] = heard[d] /\ reply'[d] = reply[d],
         raced' \in BOOLEAN, raced => raced', ~raced' => g_sessions \subseteq g_sessions',
         HttpAsked(c)', HttpAnswered(c)'
  PROVE  HttpInv'
  <1>1. HttpTypes' BY DEF HttpInv, HttpTypes, Http!Stream
  <1>2. peer[c] # "new" BY DEF HttpInv, HttpQueue
  <1>3. HttpQueue'
    <2>1. Members(backlog) \subseteq Clients BY HttpBacklog DEF HttpInv
    <2> QED BY <1>2, <2>1 DEF HttpInv, HttpQueue, HttpTypes
  <1>4. HttpCookies' BY DEF HttpInv, HttpCookies, Http!Stream
  <1>5. ASSUME NEW d \in Clients PROVE HttpAsked(d)' /\ HttpAnswered(d)'
    <2>1. CASE d # c
      <3>1. thread'[d] = thread[d] BY <2>1 DEF HttpInv, HttpTypes
      <3> QED BY <2>1, <3>1, HttpKept DEF HttpInv
    <2> QED BY <2>1
  <1> QED BY <1>1, <1>3, <1>4, <1>5 DEF HttpInv

(* What is answered without a session. *)
LEMMA HttpStatic ==
  ASSUME NEW h
  PROVE  /\ Len(Http!Static(h)) = 2
         /\ Http!Static(h)[1] = 404 => Http!GetPath(Http!Target(h)) \notin Files
  <1> PICK a, url, path : /\ a = Http!Static(h) /\ url = Http!Target(h)
                          /\ path = Http!GetPath(url)
    OBVIOUS
  <1>1. \/ a = <<200, "refused">> \/ a = <<302, "bilibili">> \/ a = <<200, path>>
        \/ path \notin Files /\ a = <<404, "/404.html">>
    BY ZenonT(30) DEF Http!Static
  <1>2. CASE a = <<404, "/404.html">> /\ path \notin Files BY <1>2
  <1>3. CASE a = <<200, "refused">> BY <1>3
  <1>4. CASE a = <<302, "bilibili">> BY <1>4
  <1>5. CASE a = <<200, path>> BY <1>5
  <1> QED BY <1>1, <1>2, <1>3, <1>4, <1>5

(* recv *)
LEMMA HttpRecv ==
  ASSUME HttpInv, NEW c \in Clients, Http!Recv(c) \/ Http!RecvFails(c)
  PROVE  HttpInv'
  <1> DEFINE s == Http!Stream(c)
  <1>1. HttpTypes /\ HttpAsked(c) /\ thread[c] = "recv" /\ s \in Seq(Http!Unit) /\ Http!Asks(s)
    BY HttpStreams DEF HttpInv, Http!Recv, Http!RecvFails
  <1>2. heard[c] = <<>> /\ got[c] = <<>> /\ tx[c] = <<>> /\ rx[c] = SubSeq(s, 1, sent[c])
    BY <1>1 DEF HttpAsked
  <1>3. UNCHANGED <<peer, talk, sent, got, backlog, tx, g_sessions, raced>> /\ s' = s
    BY DEF Http!Recv, Http!RecvFails, Http!hostVars, Http!Stream
  <1>4. CASE Http!RecvFails(c)
    <2>1. UNCHANGED <<rx, heard, reply>> /\ thread' = [thread EXCEPT ![c] = "done"]
      BY <1>4 DEF Http!RecvFails, Http!hostVars
    <2>2. thread'[c] = "done" BY <1>1, <2>1 DEF HttpTypes
    <2>3. HttpAsked(c)' /\ HttpAnswered(c)' BY <1>2, <1>3, <2>2 DEF HttpAsked, HttpAnswered
    <2> QED BY <1>1, <1>3, <2>1, <2>3, HttpOwn DEF HttpTypes
  <1>5. CASE Http!Recv(c)
    <2> PICK h : h = Http!Chunk(c, HttpRead) OBVIOUS
    <2>1. /\ rx[c] # <<>> /\ heard' = [heard EXCEPT ![c] = h]
          /\ rx' = [rx EXCEPT ![c] = SubSeq(@, Len(heard'[c]) + 1, Len(@))]
      BY <1>5 DEF Http!Recv
    <2>2. heard'[c] = h BY <1>1, <2>1 DEF HttpTypes
    <2> DEFINE t == IF ~Http!Deserialize(h) THEN "done"
                    ELSE IF Http!Inserts(h) \/ Http!Finds(h) THEN "map" ELSE "answer"
    <2>3. /\ thread' = [thread EXCEPT ![c] = t]
          /\ reply' = [reply EXCEPT ![c] = IF t = "answer" THEN Http!Static(h) ELSE <<>>]
      <3>1. thread' = [thread EXCEPT ![c] = t] BY <1>5, <2>2 DEF Http!Recv
      <3>2. thread'[c] = t BY <1>1, <3>1 DEF HttpTypes
      <3>3. reply' = [reply EXCEPT ![c] =
              IF thread'[c] = "answer" THEN Http!Static(heard'[c]) ELSE <<>>]
        BY <1>5 DEF Http!Recv
      <3> QED BY <2>2, <3>1, <3>2, <3>3
    <2>9. /\ t \in {"map", "answer", "done"} /\ (t # "done" => Http!Deserialize(h))
          /\ (t = "map" => Http!Inserts(h) \/ Http!Finds(h))
          /\ t = "answer" => ~Http!Inserts(h) /\ ~Http!Finds(h)
      OBVIOUS
    <2> HIDE DEF t
    <2>4. thread'[c] = t /\ reply'[c] = IF t = "answer" THEN Http!Static(h) ELSE <<>>
      BY <1>1, <2>3 DEF HttpTypes
    <2>5. t # "done" => Begun(h, s)
      <3> SUFFICES ASSUME t # "done" PROVE Begun(h, s) OBVIOUS
      <3> PICK k \in Nat : k = sent[c] /\ k <= Len(s) BY <1>1 DEF HttpTypes
      <3> PICK n \in Nat : n = IF Len(rx[c]) < HttpRead THEN Len(rx[c]) ELSE HttpRead
        <4>1. HttpRead \in Nat BY NetworkProgramsAssumption DEF Http!HttpSessionsAssumption
        <4>2. Len(rx[c]) \in Nat BY <1>1, <1>2
        <4> QED BY <4>1, <4>2
      <3>1. rx[c] \in Seq(Http!Unit) /\ Len(rx[c]) = k BY <1>1, <1>2
      <3>2. h = SubSeq(rx[c], 1, n) /\ n <= k BY <3>1 DEF Http!Chunk
      <3>3. h # <<>>
        <4>1. Http!Units(<<>>, "eol") = {} BY DEF Http!Units
        <4> QED BY <2>9, <4>1 DEF Http!Deserialize
      <3>4. n # 0 BY <3>1, <3>2, <3>3
      <3>5. h = SubSeq(s, 1, n) BY <1>1, <1>2, <3>2
      <3>6. n \in 1 .. Len(s)
        <4>1. Len(s) \in Nat BY <1>1
        <4> QED BY <3>2, <3>4, <4>1
      <3> QED BY <3>5, <3>6 DEF Begun
    <2>6. t = "answer" => RightAnswer(s, c, h, Http!Static(h), g_sessions)
      <3> SUFFICES ASSUME t = "answer" PROVE RightAnswer(s, c, h, Http!Static(h), g_sessions)
        OBVIOUS
      <3>1. /\ Http!Target(h) = Http!Target(s) /\ ~Http!Finds(s) /\ ~Http!Inserts(h)
            /\ h = s => Http!Credentials(h) = Http!Credentials(s)
        BY <1>1, <2>5, <2>9, HttpBegun
      <3>2. /\ Len(Http!Static(h)) = 2
            /\ Http!Static(h)[1] = 404 => Http!GetPath(Http!Target(h)) \notin Files
        BY HttpStatic
      <3>3. Http!Target(h) = "POST /login" => "good" \notin Http!Credentials(h)
        BY <3>1 DEF Http!Inserts
      <3>4. Http!Target(s) = "POST /login" => "good" \notin Http!Credentials(s) \/ h # s
        BY <3>1, <3>3
      <3>5. Len(Http!Static(h)) # 3 BY <3>2
      <3>6. Http!Static(h)[1] = 404 => Http!GetPath(Http!Target(s)) \notin Files BY <3>1, <3>2
      <3> QED BY <3>1, <3>4, <3>5, <3>6 DEF RightAnswer
    <2>7. HttpAsked(c)' BY <1>2, <1>3, <2>2, <2>4, <2>5, <2>6, <2>9 DEF HttpAsked
    <2>8. HttpAnswered(c)' BY <1>2, <1>3, <2>4, <2>9 DEF HttpAnswered
    <2> QED BY <1>1, <1>3, <2>1, <2>3, <2>7, <2>8, <2>9, HttpOwn DEF HttpTypes
  <1> QED BY <1>4, <1>5

(* g_sessions is called. *)
LEMMA HttpMap ==
  ASSUME HttpInv, NEW c \in Clients, Http!MapCall(c) \/ Http!MapReturn(c)
  PROVE  HttpInv'
  <1> DEFINE s == Http!Stream(c)
             h == heard[c]
  <1>1. HttpTypes /\ HttpAsked(c) /\ thread[c] \in {"map", "in_map"} /\ s \in Seq(Http!Unit)
        /\ Http!Asks(s)
    BY HttpStreams DEF HttpInv, Http!MapCall, Http!MapReturn
  <1>2. got[c] = <<>> /\ tx[c] = <<>> /\ Begun(h, s) /\ (Http!Inserts(h) \/ Http!Finds(h))
    BY <1>1 DEF HttpAsked
  <1>3. UNCHANGED <<peer, talk, sent, got, backlog, rx, tx, heard>> /\ s' = s
    BY DEF Http!MapCall, Http!MapReturn, Http!hostVars, Http!Stream
  <1>4. CASE Http!MapCall(c)
    <2>1. /\ UNCHANGED <<reply, g_sessions>> /\ thread' = [thread EXCEPT ![c] = "in_map"]
          /\ raced' \in BOOLEAN /\ (raced => raced')
      BY <1>4 DEF Http!MapCall
    <2>2. thread'[c] = "in_map" BY <1>1, <2>1 DEF HttpTypes
    <2>3. HttpAsked(c)' /\ HttpAnswered(c)' BY <1>2, <1>3, <2>2 DEF HttpAsked, HttpAnswered
    <2> QED BY <1>1, <1>3, <2>1, <2>3, HttpOwn DEF HttpTypes
  <1>5. CASE Http!MapReturn(c)
    <2>1. thread' = [thread EXCEPT ![c] = "answer"] /\ raced' = raced
      BY <1>5 DEF Http!MapReturn
    <2>0. PICK found \in (IF raced THEN BOOLEAN ELSE {Http!GetCookie(h) \cap g_sessions # {}}) :
           reply' = [reply EXCEPT ![c] =
           CASE Http!Target(h) = "GET /login" -> <<200, "/login.html", c>>
             [] Http!Target(h) = "POST /login" -> <<302, "/user", c>>
             [] OTHER -> IF found THEN <<200, "/user.html">> ELSE <<200, "401">>]
      BY <1>5 DEF Http!MapReturn
    <2>2. /\ thread'[c] = "answer"
          /\ reply'[c] = CASE Http!Target(h) = "GET /login" -> <<200, "/login.html", c>>
                           [] Http!Target(h) = "POST /login" -> <<302, "/user", c>>
                           [] OTHER -> IF found THEN <<200, "/user.html">> ELSE <<200, "401">>
      BY <1>1, <2>0, <2>1 DEF HttpTypes
    <2>3. ~raced => g_sessions' = IF Http!Inserts(h) THEN g_sessions \cup {c} ELSE g_sessions
      BY <1>5 DEF Http!MapReturn
    <2>4. ~raced => RightAnswer(s, c, h, reply'[c], g_sessions')
      <3> SUFFICES ASSUME ~raced PROVE RightAnswer(s, c, h, reply'[c], g_sessions') OBVIOUS
      <3>1. /\ Http!Target(h) = Http!Target(s)
            /\ Http!Finds(h) <=> Http!Finds(s)
            /\ Http!GetCookie(h) \subseteq Http!GetCookie(s)
            /\ Http!Inserts(h) => Http!Inserts(s)
        BY <1>1, <1>2, HttpBegun
      <3>2. Http!GetCookie(s) \subseteq g_sessions
        BY <1>1 DEF HttpInv, HttpCookies, HttpQueue
      <3>3. found = (Http!GetCookie(h) # {})
        BY <2>0, <3>1, <3>2
      <3>4. CASE Http!Finds(h)
        <4>1. reply'[c] = IF Http!GetCookie(h) # {} THEN <<200, "/user.html">> ELSE <<200, "401">>
          BY <2>2, <3>3, <3>4 DEF Http!Finds
        <4> PICK a : a = reply'[c] OBVIOUS
        <4>2. Len(a) # 3 /\ a[1] # 404 BY <4>1
        <4>3. Http!Target(s) # "POST /login" BY <3>1, <3>4 DEF Http!Finds
        <4> QED BY <4>1, <4>2, <4>3 DEF RightAnswer
      <3>5. CASE ~Http!Finds(h)
        <4>1. Http!Inserts(h) /\ c \in g_sessions' BY <1>2, <2>3, <3>5
        <4>2. \/ reply'[c] = <<200, "/login.html", c>>
              \/ reply'[c] = <<302, "/user", c>>
          BY <2>2, <4>1 DEF Http!Inserts
        <4> PICK a : a = reply'[c] OBVIOUS
        <4>3. Len(a) = 3 /\ a[1] # 404 BY <4>2
        <4>4. Len(<<200, "refused">>) = 2 OBVIOUS
        <4>5. a # <<200, "refused">> BY <4>3, <4>4
        <4> QED BY <3>1, <3>5, <4>1, <4>3, <4>5 DEF RightAnswer
      <3> QED BY <3>4, <3>5
    <2>5. HttpAsked(c)' BY <1>2, <1>3, <2>1, <2>2, <2>4 DEF HttpAsked
    <2>6. HttpAnswered(c)' BY <2>2 DEF HttpAnswered
    <2>7. DOMAIN reply' = Clients /\ \A d \in Clients \ {c} : reply'[d] = reply[d]
      BY <1>1, <2>0 DEF HttpTypes
    <2>8. ~raced' => g_sessions \subseteq g_sessions' BY <2>1, <2>3
    <2>9. /\ DOMAIN rx' = Clients /\ DOMAIN tx' = Clients /\ DOMAIN heard' = Clients
          /\ \A d \in Clients \ {c} : rx'[d] = rx[d] /\ tx'[d] = tx[d] /\ heard'[d] = heard[d]
          /\ thread[c] # "none" /\ raced' \in BOOLEAN /\ (raced => raced')
      BY <1>1, <1>3, <2>1 DEF HttpTypes
    <2> QED BY <1>3, <2>1, <2>5, <2>6, <2>7, <2>8, <2>9, HttpOwn
  <1> QED BY <1>4, <1>5

(* A broken map goes round for ever, or crashes. *)
LEMMA HttpBreaks ==
  ASSUME HttpInv, NEW c \in Clients, Http!MapBreaks(c)
  PROVE  HttpInv'
  <1>1. HttpTypes /\ HttpAsked(c) /\ thread[c] = "in_map" BY DEF HttpInv, Http!MapBreaks
  <1>2. UNCHANGED <<peer, talk, sent, got, backlog, rx, tx, heard, reply, g_sessions, raced>>
    BY DEF Http!MapBreaks, Http!hostVars
  <1>3. CASE thread' = thread BY <1>2, <1>3, HttpStill
  <1>4. CASE thread' = [thread EXCEPT ![c] = "hung"]
    <2>1. thread'[c] = "hung" /\ Http!Stream(c)' = Http!Stream(c)
      BY <1>1, <1>2, <1>4 DEF HttpTypes, Http!Stream
    <2>2. HttpAsked(c)' /\ HttpAnswered(c)'
      BY <1>1, <1>2, <2>1 DEF HttpAsked, HttpAnswered
    <2> QED BY <1>1, <1>2, <1>4, <2>2, HttpOwn DEF HttpTypes
  <1> QED BY <1>3, <1>4 DEF Http!MapBreaks

(* send *)
LEMMA HttpAnswer ==
  ASSUME HttpInv, NEW c \in Clients, Http!Answer(c)
  PROVE  HttpInv'
  <1>1. HttpTypes /\ HttpAsked(c) /\ thread[c] = "answer" BY DEF HttpInv, Http!Answer
  <1>2. /\ thread' = [thread EXCEPT ![c] = "done"] /\ thread'[c] = "done"
        /\ UNCHANGED <<peer, talk, sent, got, backlog, rx, heard, reply, g_sessions, raced>>
    BY <1>1 DEF Http!Answer, HttpTypes
  <1>3. /\ DOMAIN tx' = Clients /\ \A d \in Clients \ {c} : tx'[d] = tx[d]
        /\ tx'[c] = tx[c] \/ tx'[c] = Append(tx[c], reply[c])
    BY <1>1 DEF Http!Answer, HttpTypes
  <1>4. /\ got[c] = <<>> /\ tx[c] = <<>>
        /\ ~raced => RightAnswer(Http!Stream(c), c, heard[c], reply[c], g_sessions)
    BY <1>1 DEF HttpAsked
  <1>5. tx'[c] = <<>> \/ tx'[c] = <<reply[c]>> BY <1>3, <1>4
  <1>6. Http!Stream(c)' = Http!Stream(c) BY <1>2 DEF Http!Stream
  <1>7. HttpAsked(c)' /\ HttpAnswered(c)'
    BY <1>2, <1>4, <1>5, <1>6 DEF HttpAsked, HttpAnswered
  <1> QED BY <1>1, <1>2, <1>3, <1>7, HttpOwn DEF HttpTypes

(* Every step. *)
LEMMA HttpNext ==
  ASSUME HttpInv, Http!Accept \/ \E c \in Clients : Http!Thread(c) \/ Http!Client(c)
  PROVE  HttpInv'
  BY HttpAccept, HttpClient, HttpRecv, HttpMap, HttpBreaks, HttpAnswer DEF Http!Thread

(* Every answer is the right one. *)
LEMMA HttpAnswers == HttpInv => Http!AnswersRight
  <1> SUFFICES ASSUME HttpInv, ~raced, NEW c \in Clients, got[c] # <<>>
               PROVE  Len(got[c]) = 1
                      /\ RightAnswer(Http!Stream(c), c, heard[c], got[c][1][1], g_sessions)
    BY DEF RightAnswer, Http!AnswersRight
  <1>1. /\ HttpAsked(c) /\ HttpAnswered(c)
        /\ thread[c] \in {"none", "stuck", "recv", "map", "in_map", "hung", "answer", "done"}
    BY DEF HttpInv, HttpTypes
  <1>2. /\ got[c] = << <<reply[c]>> >>
        /\ RightAnswer(Http!Stream(c), c, heard[c], reply[c], g_sessions)
    BY <1>1 DEF HttpAsked, HttpAnswered
  <1>3. Len(got[c]) = 1 /\ got[c][1][1] = reply[c] BY <1>2
  <1> QED BY <1>2, <1>3

-----------------------------------------------------------------------------
(* The UDP servers of 01 to 03.                                            *)

(* Who leaves is taken off the list. *)
LEMMA UdpRemoved ==
  ASSUME NEW s \in Seq(Callers), Once(s), NEW u \in Members(s)
  PROVE  LET s2 == Udp!Erase(s, Udp!First(s, u))
         IN  s2 \in Seq(Callers) /\ Once(s2) /\ Members(s2) = Members(s) \ {u}
  <1>1. PICK k \in 1 .. Len(s) : s[k] = u BY Positions
  <1>2. \A i \in 1 .. Len(s) : s[i] = u <=> i = k BY <1>1, Positions
  <1>3. DOMAIN s = 1 .. Len(s) /\ Len(s) \in Nat OBVIOUS
  <1>4. Udp!First(s, u) = k BY <1>1, <1>2, <1>3 DEF Udp!First
  <1>5. Udp!Erase(s, Udp!First(s, u)) = Without(s, k) BY <1>4 DEF Udp!Erase, Without
  <1> QED BY <1>1, <1>5, ErasedMembers

UdpTypes ==
  /\ prog \in {"echo", "dict", "chat"}
  /\ _online_users \in Seq(Callers) /\ Listed(heard)
  /\ \A n \in 1 .. Len(heard) : heard[n].from \in Callers
  /\ \A d \in wire : d.from \in Callers
  /\ DOMAIN inbox = Callers /\ \A u \in Callers : Listed(inbox[u])

(* The room after what was heard, and what u got because of it. *)
UdpRoom ==
  prog = "chat" =>
    /\ Once(_online_users)
    /\ Members(_online_users) = {u \in Callers : Udp!InRoom(u, Len(heard))}
UdpAnswered(u) ==
  /\ Len(inbox[u]) = Udp!Place(u, Len(heard))
  /\ \A n \in Udp!Concerning(u, Len(heard)) : inbox[u][Udp!Place(u, n)] = Udp!Answer(n)
UdpInv == UdpTypes /\ UdpRoom /\ \A u \in Callers : UdpAnswered(u)

(* Places are counted. *)
LEMMA UdpPlaces ==
  ASSUME NEW P, NEW n \in Nat
  PROVE  LET D(m) == {k \in 1 .. m : k \in P}
             At(m) == Cardinality(D(m))
         IN  /\ At(n) \in Nat
             /\ \A m \in D(n) : At(m) \in 1 .. At(n)
             /\ D(n + 1) = D(n) \cup (IF n + 1 \in P THEN {n + 1} ELSE {})
             /\ At(n + 1) = At(n) + (IF n + 1 \in P THEN 1 ELSE 0)
  <1> DEFINE D(m) == {k \in 1 .. m : k \in P}
  <1>1. \A m \in Nat : IsFiniteSet(1 .. m) /\ D(m) \subseteq 1 .. m
    <2>1. \A m \in Nat : IsFiniteSet(1 .. m) BY FS_Interval
    <2> QED BY <2>1
  <1>2. \A m : D(m) = {k \in 1 .. m : k \in P} OBVIOUS
  <1> HIDE DEF D
  <1>3. \A m \in Nat : IsFiniteSet(D(m)) /\ Cardinality(D(m)) \in Nat
    BY <1>1, FS_Subset, FS_CardinalityType
  <1>4. ASSUME NEW m \in D(n) PROVE Cardinality(D(m)) \in 1 .. Cardinality(D(n))
    <2>1. m \in Nat /\ m \in D(m) /\ D(m) \subseteq D(n) BY <1>2
    <2>2. Cardinality(D(m)) \in Nat /\ Cardinality(D(n)) \in Nat
          /\ IsFiniteSet(D(m)) /\ IsFiniteSet(D(n))
      BY <1>3, <2>1
    <2>3. Cardinality(D(m)) <= Cardinality(D(n)) BY <2>1, <2>2, FS_Subset
    <2>4. Cardinality(D(m)) # 0 BY <2>1, <2>2, FS_EmptySet
    <2> QED BY <2>2, <2>3, <2>4
  <1>5. D(n + 1) = D(n) \cup (IF n + 1 \in P THEN {n + 1} ELSE {})
    <2>1. 1 .. n + 1 = (1 .. n) \cup {n + 1} OBVIOUS
    <2> QED BY <1>2, <2>1
  <1>6. Cardinality(D(n + 1)) = Cardinality(D(n)) + (IF n + 1 \in P THEN 1 ELSE 0)
    <2>1. n + 1 \notin D(n) BY <1>2
    <2>2. IsFiniteSet(D(n)) /\ Cardinality(D(n)) \in Nat BY <1>3
    <2>3. CASE n + 1 \in P
      <3>1. D(n + 1) = D(n) \cup {n + 1} BY <1>5, <2>3
      <3> QED BY <2>1, <2>2, <2>3, <3>1, FS_AddElement
    <2>4. CASE n + 1 \notin P
      <3>1. D(n + 1) = D(n) BY <1>5, <2>4
      <3> QED BY <2>2, <2>4, <3>1
    <2> QED BY <2>3, <2>4
  <1> QED BY <1>3, <1>4, <1>5, <1>6 DEF D

(* Nobody has said anything. *)
LEMMA UdpInit == Udp!Init => UdpInv
  <1> SUFFICES ASSUME Udp!Init PROVE UdpInv OBVIOUS
  <1>1. /\ wire = {} /\ heard = <<>> /\ _online_users = <<>>
        /\ inbox = [u \in Callers |-> <<>>] /\ prog \in {"echo", "dict", "chat"}
    BY DEF Udp!Init
  <1>2. UdpTypes
    <2>1. <<>> \in Seq({}) OBVIOUS
    <2> QED BY <1>1, <2>1 DEF UdpTypes, Listed
  <1>3. UdpRoom BY <1>1, NoMembers DEF UdpRoom, Udp!InRoom
  <1>4. ASSUME NEW u \in Callers PROVE UdpAnswered(u)
    <2>1. Udp!Concerning(u, 0) = {} BY DEF Udp!Concerning
    <2>2. Udp!Place(u, 0) = 0
      BY <2>1, FS_EmptySet DEF Udp!Place, Udp!Cardinality, Cardinality
    <2> QED BY <1>1, <2>1, <2>2 DEF UdpAnswered
  <1> QED BY <1>2, <1>3, <1>4 DEF UdpInv

(* What was heard keeps its meaning. *)
LEMMA UdpSame ==
  ASSUME prog' = prog, NEW n \in Nat, \A i \in 1 .. n : heard'[i] = heard[i]
  PROVE  /\ \A m \in 1 .. n : Udp!Answer(m)' = Udp!Answer(m)
         /\ \A m \in 1 .. n : Udp!Speaks(m)' <=> Udp!Speaks(m)
         /\ \A m \in 1 .. n : Udp!Leaves(m)' <=> Udp!Leaves(m)
         /\ \A u : \A m \in 0 .. n : Udp!InRoom(u, m)' <=> Udp!InRoom(u, m)
         /\ \A u : \A m \in 0 .. n : Udp!Concerning(u, m)' = Udp!Concerning(u, m)
         /\ \A u : \A m \in 0 .. n : Udp!Place(u, m)' = Udp!Place(u, m)
  <1>1. ASSUME NEW m \in 1 .. n
        PROVE  /\ heard'[m] = heard[m] /\ Udp!Answer(m)' = Udp!Answer(m)
               /\ Udp!Speaks(m)' <=> Udp!Speaks(m)
               /\ Udp!Leaves(m)' <=> Udp!Leaves(m)
    <2>1. heard'[m] = heard[m] OBVIOUS
    <2>2. Udp!Speaks(m)' <=> Udp!Speaks(m) BY <2>1 DEF Udp!Speaks
    <2>3. Udp!Leaves(m)' <=> Udp!Leaves(m) BY <2>1 DEF Udp!Leaves
    <2>4. Udp!Answer(m)' = Udp!Answer(m) BY <2>1, <2>3 DEF Udp!Answer
    <2> QED BY <2>1, <2>2, <2>3, <2>4
  <1>2. ASSUME NEW u, NEW m \in 0 .. n PROVE Udp!InRoom(u, m)' <=> Udp!InRoom(u, m)
    <2>1. \A i \in 1 .. m : i \in 1 .. n /\ \A j \in i + 1 .. m : j \in 1 .. n OBVIOUS
    <2> QED BY <1>1, <2>1 DEF Udp!InRoom
  <1>3. ASSUME NEW u, NEW m \in 1 .. n PROVE Udp!Concerns(u, m)' <=> Udp!Concerns(u, m)
    <2>1. m \in 0 .. n OBVIOUS
    <2>2. Udp!InRoom(u, m)' <=> Udp!InRoom(u, m) BY <1>2, <2>1
    <2> QED BY <1>1, <2>2 DEF Udp!Concerns
  <1>4. ASSUME NEW u, NEW m \in 0 .. n
        PROVE  /\ Udp!Concerning(u, m)' = Udp!Concerning(u, m)
               /\ Udp!Place(u, m)' = Udp!Place(u, m)
    <2>1. \A k \in 1 .. m : k \in 1 .. n OBVIOUS
    <2>2. Udp!Concerning(u, m)' = Udp!Concerning(u, m)
      BY <1>3, <2>1 DEF Udp!Concerning
    <2>3. Udp!Place(u, m)' = Udp!Place(u, m) BY <2>2 DEF Udp!Place
    <2> QED BY <2>2, <2>3
  <1>5. \A m \in 1 .. n : Udp!Speaks(m)' <=> Udp!Speaks(m) BY <1>1
  <1>6. \A m \in 1 .. n : Udp!Leaves(m)' <=> Udp!Leaves(m) BY <1>1
  <1>7. \A u : \A m \in 0 .. n : Udp!InRoom(u, m)' <=> Udp!InRoom(u, m) BY <1>2
  <1>8. \A u : \A m \in 0 .. n : Udp!Concerning(u, m)' = Udp!Concerning(u, m) BY <1>4
  <1>9. \A u : \A m \in 0 .. n : Udp!Place(u, m)' = Udp!Place(u, m) BY <1>4
  <1>10. \A m \in 1 .. n : Udp!Answer(m)' = Udp!Answer(m) BY <1>1
  <1> QED BY <1>5, <1>6, <1>7, <1>8, <1>9, <1>10

(* A datagram more or less on the way, or nothing at all. *)
LEMMA UdpWire ==
  ASSUME UdpInv, UNCHANGED <<prog, heard, _online_users, inbox>>,
         \A d \in wire' : d.from \in Callers
  PROVE  UdpInv'
  <1>1. Len(heard) \in Nat BY DEF UdpInv, UdpTypes, Listed
  <1> PICK n \in Nat : n = Len(heard) BY <1>1
  <1>2. \A u : /\ Udp!InRoom(u, n)' <=> Udp!InRoom(u, n)
               /\ Udp!Concerning(u, n)' = Udp!Concerning(u, n)
               /\ Udp!Place(u, n)' = Udp!Place(u, n)
    BY UdpSame
  <1>3. \A u : \A m \in Udp!Concerning(u, n) :
          Udp!Answer(m)' = Udp!Answer(m) /\ Udp!Place(u, m)' = Udp!Place(u, m)
    BY UdpSame DEF Udp!Concerning
  <1>4. UdpTypes' BY DEF UdpInv, UdpTypes
  <1>5. UdpRoom' BY <1>2 DEF UdpInv, UdpRoom
  <1>6. ASSUME NEW u \in Callers PROVE UdpAnswered(u)'
    BY <1>2, <1>3 DEF UdpInv, UdpAnswered
  <1> QED BY <1>4, <1>5, <1>6 DEF UdpInv

(* A datagram is handled: who is in the room changes, and those it         *)
(* concerns are answered.                                                  *)
LEMMA UdpHandle ==
  ASSUME UdpInv, NEW d \in wire, Udp!Handle(d)
  PROVE  UdpInv'
  <1>1. Len(heard) \in Nat /\ Listed(heard) BY DEF UdpInv, UdpTypes, Listed
  <1> PICK n \in Nat : n = Len(heard) BY <1>1
  <1>2. /\ Len(heard') = n + 1 /\ Listed(heard') /\ heard'[n + 1] = d
        /\ \A i \in 1 .. n : heard'[i] = heard[i]
    <2>1. heard' = Append(heard, d) BY DEF Udp!Handle
    <2> QED BY <1>1, <2>1, Appended
  <1>3. prog' = prog /\ wire' \subseteq wire /\ d.from \in Callers
    BY DEF Udp!Handle, UdpInv, UdpTypes
  <1> DEFINE t == Udp!Received(d.text)
             leaves == Udp!Stripped(t) \in QuitWords
             present(u) == prog = "chat" /\ Udp!InRoom(u, n)
  <1>4. /\ Udp!Speaks(n + 1)' <=> t # <<>>
        /\ Udp!Leaves(n + 1)' <=> leaves
    BY <1>2 DEF Udp!Speaks, Udp!Leaves
  <1>5. ASSUME NEW u
        PROVE  Udp!InRoom(u, n + 1)' <=>
                 IF d.from = u /\ t # <<>> THEN ~leaves ELSE Udp!InRoom(u, n)
    <2>1. Udp!InRoom(u, n)' <=> Udp!InRoom(u, n) BY <1>2, <1>3, UdpSame
    <2>2. Udp!InRoom(u, n + 1)' <=>
            IF d.from = u /\ t # <<>> THEN ~leaves ELSE Udp!InRoom(u, n)'
      BY <1>2, <1>4 DEF Udp!InRoom
    <2> QED BY <2>1, <2>2
  <1>6. ASSUME NEW u
        PROVE  Udp!Concerns(u, n + 1)' <=>
                 /\ t # <<>>
                 /\ IF prog = "chat" THEN Udp!InRoom(u, n + 1)' ELSE d.from = u
    BY <1>2, <1>3, <1>4 DEF Udp!Concerns
  <1>7. Udp!Answer(n + 1)' =
          CASE prog = "echo" -> Udp!Echo(t)
            [] prog = "dict" -> Udp!TranslateDict(Udp!Stripped(t))
            [] prog = "chat" -> <<d.from>> \o IF leaves THEN <<"left">> ELSE Udp!Stripped(t)
    BY <1>2, <1>3, <1>4 DEF Udp!Answer, Udp!Echo, Udp!TranslateDict
  <1> HIDE DEF t, leaves
  <1>8. /\ _online_users' \in Seq(Callers)
        /\ prog = "chat" => /\ Once(_online_users')
                            /\ Members(_online_users') = {u \in Callers : Udp!InRoom(u, n + 1)'}
    <2> DEFINE room == {u \in Callers : Udp!InRoom(u, n)}
               roomNow == {u \in Callers : Udp!InRoom(u, n + 1)'}
    <2>1. _online_users \in Seq(Callers)
          /\ (prog = "chat" => Once(_online_users) /\ Members(_online_users) = room)
      BY DEF UdpInv, UdpTypes, UdpRoom
    <2>2. roomNow = {u \in Callers : IF d.from = u /\ t # <<>> THEN ~leaves ELSE u \in room}
      BY <1>5
    <2> HIDE DEF room, roomNow
    <2>3. CASE prog # "chat" \/ t = <<>>
      <3>1. _online_users' = _online_users
        BY <1>3, <2>3 DEF Udp!Handle, Udp!Reply, Udp!Chat, Udp!Empty, t
      <3>2. roomNow = room \/ prog # "chat" BY <2>2, <2>3 DEF room
      <3> QED BY <2>1, <3>1, <3>2 DEF roomNow
    <2>4. CASE prog = "chat" /\ t # <<>>
      <3>1. \/ leaves /\ _online_users' = Udp!RemoveUser(d.from)
            \/ ~leaves /\ _online_users' = Udp!CheckUser(d.from)
        BY <2>4 DEF Udp!Handle, Udp!Reply, Udp!Chat, Udp!Empty, t, leaves
      <3>2. Udp!Range(_online_users) = room BY <2>1, <2>4 DEF Udp!Range, Members
      <3>3. CASE leaves
        <4>1. roomNow = room \ {d.from} BY <2>2, <2>4, <3>3 DEF room
        <4>2. CASE d.from \in room
          <5>1. _online_users' = Udp!Erase(_online_users, Udp!First(_online_users, d.from))
            BY <3>1, <3>2, <3>3, <4>2 DEF Udp!RemoveUser
          <5> QED BY <2>1, <2>4, <4>1, <4>2, <5>1, UdpRemoved DEF roomNow
        <4>3. CASE d.from \notin room
          <5>1. _online_users' = _online_users /\ roomNow = room
            BY <3>1, <3>2, <3>3, <4>1, <4>3 DEF Udp!RemoveUser
          <5> QED BY <2>1, <2>4, <5>1 DEF roomNow
        <4> QED BY <4>2, <4>3
      <3>4. CASE ~leaves
        <4>1. roomNow = room \cup {d.from} BY <1>3, <2>2, <2>4, <3>4 DEF room
        <4>2. CASE d.from \in room
          <5>1. _online_users' = _online_users /\ roomNow = room
            BY <3>1, <3>2, <3>4, <4>1, <4>2 DEF Udp!CheckUser
          <5> QED BY <2>1, <2>4, <5>1 DEF roomNow
        <4>3. CASE d.from \notin room
          <5>1. _online_users' = Append(_online_users, d.from)
            BY <3>1, <3>2, <3>4, <4>3 DEF Udp!CheckUser
          <5> QED BY <1>3, <2>1, <2>4, <4>1, <4>3, <5>1, AppendedMember DEF roomNow
        <4> QED BY <4>2, <4>3
      <3> QED BY <3>3, <3>4
    <2> QED BY <2>3, <2>4
  <1>9. ASSUME NEW u \in Callers
        PROVE  inbox'[u] = IF Udp!Concerns(u, n + 1)'
                           THEN Append(inbox[u], Udp!Answer(n + 1)') ELSE inbox[u]
    <2>0. DOMAIN inbox = Callers BY DEF UdpInv, UdpTypes
    <2>1. CASE Udp!Reply(d)
      <3>1. /\ prog \in {"echo", "dict"} /\ t # <<>>
            /\ inbox' = [inbox EXCEPT ![d.from] = Append(@,
                 IF prog = "echo" THEN Udp!Echo(t) ELSE Udp!TranslateDict(Udp!Stripped(t)))]
        BY <2>1 DEF Udp!Reply, t
      <3>2. Udp!Answer(n + 1)' =
              IF prog = "echo" THEN Udp!Echo(t) ELSE Udp!TranslateDict(Udp!Stripped(t))
        BY <1>7, <3>1
      <3>3. inbox' = [inbox EXCEPT ![d.from] = Append(@, Udp!Answer(n + 1)')]
        BY <3>1, <3>2
      <3>4. Udp!Concerns(u, n + 1)' <=> d.from = u BY <1>6, <3>1
      <3> QED BY <2>0, <3>3, <3>4
    <2>2. CASE Udp!Chat(d)
      <3>1. /\ prog = "chat" /\ t # <<>>
            /\ inbox' = [v \in Callers |-> IF v \in Udp!Range(_online_users')
                 THEN Append(inbox[v],
                        <<d.from>> \o IF leaves THEN <<"left">> ELSE Udp!Stripped(t))
                 ELSE inbox[v]]
        BY <2>2 DEF Udp!Chat, Udp!Broadcast, t, leaves
      <3>2. Udp!Answer(n + 1)' = <<d.from>> \o IF leaves THEN <<"left">> ELSE Udp!Stripped(t)
        BY <1>7, <3>1
      <3>3. u \in Udp!Range(_online_users') <=> Udp!InRoom(u, n + 1)'
        BY <1>8, <3>1 DEF Udp!Range, Members
      <3>4. Udp!Concerns(u, n + 1)' <=> u \in Udp!Range(_online_users')
        BY <1>6, <3>1, <3>3
      <3> QED BY <3>1, <3>2, <3>4
    <2>3. CASE Udp!Empty(d)
      <3>1. t = <<>> /\ inbox' = inbox BY <2>3 DEF Udp!Empty, t
      <3> QED BY <1>6, <3>1
    <2> QED BY <2>1, <2>2, <2>3 DEF Udp!Handle
  <1>10. UdpTypes'
    <2>1. DOMAIN inbox' = Callers
      BY DEF UdpInv, UdpTypes, Udp!Handle, Udp!Reply, Udp!Chat, Udp!Broadcast, Udp!Empty
    <2>2. ASSUME NEW u \in Callers PROVE Listed(inbox'[u])
      BY <1>9, Appended DEF UdpInv, UdpTypes
    <2>3. \A i \in 1 .. n + 1 : heard'[i].from \in Callers
      BY <1>2, <1>3 DEF UdpInv, UdpTypes
    <2>4. \A e \in wire' : e.from \in Callers BY <1>3 DEF UdpInv, UdpTypes
    <2> QED BY <1>2, <1>3, <1>8, <2>1, <2>2, <2>3, <2>4 DEF UdpInv, UdpTypes
  <1>11. UdpRoom' BY <1>2, <1>3, <1>8 DEF UdpRoom
  <1>12. ASSUME NEW u \in Callers PROVE UdpAnswered(u)'
    <2> DEFINE P == {k \in 1 .. n + 1 : Udp!Concerns(u, k)'}
               D(m) == {k \in 1 .. m : k \in P}
               At(m) == Cardinality(D(m))
    <2>1. /\ At(n) \in Nat /\ \A m \in D(n) : At(m) \in 1 .. At(n)
          /\ D(n + 1) = D(n) \cup (IF n + 1 \in P THEN {n + 1} ELSE {})
          /\ At(n + 1) = At(n) + (IF n + 1 \in P THEN 1 ELSE 0)
      BY UdpPlaces, ZenonT(30)
    <2>2. ASSUME NEW m \in 0 .. n + 1
          PROVE  Udp!Concerning(u, m)' = D(m) /\ Udp!Place(u, m)' = At(m)
      <3>1. \A k \in 1 .. m : k \in 1 .. n + 1 OBVIOUS
      <3>2. Udp!Concerning(u, m)' = {k \in 1 .. m : Udp!Concerns(u, k)'}
        BY DEF Udp!Concerning
      <3>3. D(m) = {k \in 1 .. m : Udp!Concerns(u, k)'} BY <3>1
      <3>4. Udp!Place(u, m)' = Cardinality(Udp!Concerning(u, m)')
        BY DEF Udp!Place, Udp!Cardinality, Cardinality
      <3> QED BY <3>2, <3>3, <3>4
    <2>3. ASSUME NEW m \in 0 .. n
          PROVE  Udp!Concerning(u, m) = D(m) /\ Udp!Place(u, m) = At(m)
      <3> HIDE DEF D, At
      <3>1. m \in 0 .. n + 1 OBVIOUS
      <3>2. Udp!Concerning(u, m)' = D(m) /\ Udp!Place(u, m)' = At(m) BY <2>2, <3>1
      <3>3. /\ Udp!Concerning(u, m)' = Udp!Concerning(u, m)
            /\ Udp!Place(u, m)' = Udp!Place(u, m)
        BY <1>2, <1>3, UdpSame
      <3> QED BY <3>2, <3>3
    <2>4. n + 1 \in P <=> Udp!Concerns(u, n + 1)' OBVIOUS
    <2>5. D(n) \subseteq 1 .. n OBVIOUS
    <2>11. n \in 0 .. n /\ n \in 0 .. n + 1 /\ n + 1 \in 0 .. n + 1
           /\ \A m \in 1 .. n : m \in 0 .. n
      OBVIOUS
    <2> HIDE DEF P, D, At
    <2>6. Listed(inbox[u]) /\ Len(inbox[u]) = At(n)
          /\ \A m \in D(n) : inbox[u][At(m)] = Udp!Answer(m)
      BY <2>3, <2>5, <2>11 DEF UdpInv, UdpTypes, UdpAnswered
    <2>7. \A m \in D(n) : Udp!Answer(m)' = Udp!Answer(m)
      BY <1>2, <1>3, <2>5, UdpSame
    <2>8. /\ Len(inbox'[u]) = At(n + 1)
          /\ \A m \in D(n + 1) : inbox'[u][At(m)] = Udp!Answer(m)'
      <3>1. CASE n + 1 \in P
        <4>1. inbox'[u] = Append(inbox[u], Udp!Answer(n + 1)') BY <1>9, <2>4, <3>1
        <4>2. /\ Len(inbox'[u]) = At(n) + 1 /\ inbox'[u][At(n) + 1] = Udp!Answer(n + 1)'
              /\ \A i \in 1 .. At(n) : inbox'[u][i] = inbox[u][i]
          BY <2>6, <4>1, Appended
        <4>3. D(n + 1) = D(n) \cup {n + 1} /\ At(n + 1) = At(n) + 1 BY <2>1, <3>1
        <4>4. \A m \in D(n) : inbox'[u][At(m)] = Udp!Answer(m)'
          BY <2>1, <2>6, <2>7, <4>2
        <4> QED BY <4>2, <4>3, <4>4
      <3>2. CASE n + 1 \notin P
        <4>1. inbox'[u] = inbox[u] BY <1>9, <2>4, <3>2
        <4>2. D(n + 1) = D(n) BY <2>1, <3>2
        <4>3. At(n + 1) = At(n) BY <2>1, <3>2
        <4> QED BY <2>6, <2>7, <4>1, <4>2, <4>3
      <3> QED BY <3>1, <3>2
    <2>9. \A m \in D(n + 1) : Udp!Place(u, m)' = At(m)
      <3>1. D(n + 1) \subseteq 0 .. n + 1 BY DEF D
      <3> QED BY <2>2, <3>1
    <2> QED BY <1>2, <2>2, <2>8, <2>9, <2>11 DEF UdpAnswered
  <1> QED BY <1>10, <1>11, <1>12 DEF UdpInv

(* Every step. *)
LEMMA UdpNext == UdpInv /\ Udp!Next => UdpInv'
  <1> SUFFICES ASSUME UdpInv, Udp!Next PROVE UdpInv' OBVIOUS
  <1>1. ASSUME NEW u \in Callers, Udp!Transmit(u) PROVE UdpInv'
    <2>1. PICK t \in Texts : wire' = wire \cup {[id |-> count', from |-> u, text |-> t]}
      BY <1>1 DEF Udp!Transmit
    <2>2. \A d \in wire' : d.from \in Callers BY <2>1 DEF UdpInv, UdpTypes
    <2> QED BY <1>1, <2>2, UdpWire DEF Udp!Transmit
  <1>2. ASSUME NEW d \in wire, Udp!Lose(d) PROVE UdpInv'
    <2>1. \A e \in wire' : e.from \in Callers BY <1>2 DEF Udp!Lose, UdpInv, UdpTypes
    <2> QED BY <1>2, <2>1, UdpWire DEF Udp!Lose
  <1>3. ASSUME NEW d \in wire, Udp!Handle(d) PROVE UdpInv' BY <1>3, UdpHandle
  <1> QED BY <1>1, <1>2, <1>3 DEF Udp!Next

(* A step that changes none of it keeps it. *)
LEMMA UdpStill ==
  ASSUME UdpInv, UNCHANGED <<prog, wire, heard, _online_users, inbox>>
  PROVE  UdpInv'
  <1>1. \A d \in wire' : d.from \in Callers BY DEF UdpInv, UdpTypes
  <1> QED BY <1>1, UdpWire

(* Each datagram goes once and in order to everyone it concerns. *)
LEMMA UdpAnswers == UdpInv => Udp!AnswersRight
  <1> SUFFICES ASSUME UdpInv PROVE Udp!AnswersRight OBVIOUS
  <1>1. Udp!Range(_online_users) = Members(_online_users) BY DEF Udp!Range, Members
  <1>2. Once(_online_users) => Udp!IsInjective(_online_users)
    BY DEF Once, Udp!IsInjective
  <1> QED BY <1>1, <1>2 DEF UdpInv, UdpRoom, UdpAnswered, Udp!AnswersRight

-----------------------------------------------------------------------------
(* The cloud drive of the reactor.                                         *)

(* Where the data of a form begins and ends. *)
LEMMA FormData ==
  ASSUME NEW h \in Drive!Headers, NEW d \in Datas, d # <<>>
  PROVE  Drive!FileData(Drive!Form(h, d)) = d
  <1> DEFINE b == Drive!Form(h, d)
  <1>1. d \in Seq(STRING) /\ Len(d) \in Nat \ {0}
    BY NetworkProgramsAssumption DEF Drive!CloudDriveAssumption
  <1>2. PICK x : h = <<x>> /\ x # "blank"
    BY NetworkProgramsAssumption DEF Drive!CloudDriveAssumption, Drive!Headers
  <1> PICK n \in Nat \ {0} : n = Len(d) BY <1>1
  <1> PICK U : U = {x, "blank", "crlf--", "B--"} \cup STRING OBVIOUS
  <1>3. /\ Len(b) = n + 4 /\ DOMAIN b = 1 .. n + 4 /\ b[1] = x /\ b[2] = "blank"
        /\ \A i \in 1 .. n : b[i + 2] = d[i]
        /\ b[n + 3] = "crlf--" /\ b[n + 4] = "B--" /\ b \in Seq(U)
    <2> HIDE DEF b
    <2>3. <<x, "blank">> \in Seq(U) /\ <<"crlf--", "B--">> \in Seq(U) OBVIOUS
    <2> PICK p \in Seq(U) : p = <<x, "blank">> BY <2>3
    <2> PICK q \in Seq(U) : q = <<"crlf--", "B--">> BY <2>3
    <2> PICK e \in Seq(U) : e = d BY <1>1
    <2> PICK u : u = p \o e OBVIOUS
    <2>1. /\ u \in Seq(U) /\ Len(u) = n + 2 /\ u[1] = x /\ u[2] = "blank"
          /\ \A i \in 1 .. n : u[i + 2] = d[i]
      OBVIOUS
    <2>2. /\ u \o q \in Seq(U) /\ Len(u \o q) = n + 2 + 2
          /\ \A i \in 1 .. n + 2 : (u \o q)[i] = u[i]
          /\ (u \o q)[1 + (n + 2)] = "crlf--" /\ (u \o q)[2 + (n + 2)] = "B--"
      BY <2>1
    <2>4. b = u \o q BY <1>2 DEF b, Drive!Form
    <2> QED BY <2>1, <2>2, <2>4
  <1> HIDE DEF b
  <1>5. Drive!First(b, "blank") = 2
    <2>1. \A i \in DOMAIN b : /\ b[i] = "blank" /\ \A j \in 1 .. i - 1 : b[j] # "blank"
                              <=> i = 2
      BY <1>2, <1>3
    <2> QED BY <1>3, <2>1 DEF Drive!First
  <1>6. Drive!Final(b, "crlf--") = n + 3
    <2>1. \A i \in DOMAIN b : /\ b[i] = "crlf--" /\ \A j \in i + 1 .. Len(b) : b[j] # "crlf--"
                              <=> i = n + 3
      BY <1>3
    <2> QED BY <1>3, <2>1 DEF Drive!Final
  <1>7. SubSeq(b, 2 + 1, 2 + n) = d
    <2>1. /\ SubSeq(b, 2 + 1, 2 + n) \in Seq(U)
          /\ Len(SubSeq(b, 2 + 1, 2 + n)) = n
          /\ \A i \in 1 .. n : SubSeq(b, 2 + 1, 2 + n)[i] = b[2 + i]
      <3>1. 2 \in 0 .. Len(b) /\ n \in 0 .. Len(b) - 2 BY <1>3
      <3> QED BY <1>3, <3>1, Part
    <2>2. d \in Seq(U) BY <1>1
    <2>3. \A i \in 1 .. n : b[2 + i] = d[i] BY <1>3
    <2> QED BY <2>1, <2>2, <2>3, SameSeq
  <1>8. Drive!FileData(b) = SubSeq(b, 2 + 1, 2 + n)
    BY <1>5, <1>6 DEF Drive!FileData
  <1> QED BY <1>7, <1>8 DEF b

(* What each worker is at, and with what. *)
DriveTypes ==
  /\ quiet \subseteq Callers
  /\ at \in [Callers -> {"idle", "open", "write", "read", "list", "sent"}]
  /\ DOMAIN job = Callers /\ DOMAIN buf = Callers /\ DOMAIN resp = Callers
  /\ DOMAIN disk = Names /\ DOMAIN stored = Names
DriveJob(w) ==
  /\ at[w] \in {"open", "write"} =>
       /\ job[w].kind = "upload" /\ job[w].name \in Names /\ job[w].data \in Datas
       /\ \E h \in Drive!Headers : job[w].body = Drive!Form(h, job[w].data)
  /\ at[w] = "read" => job[w].kind = "download" /\ job[w].name \in Names
  /\ at[w] = "list" => job[w].kind = "home"
  /\ at[w] = "sent" /\ job[w].kind = "download" => job[w].name \in Names

(* A file that must hold something holds it. *)
DriveFiles ==
  \A n \in Names : \A d \in stored[n] :
    /\ stored[n] = {d} /\ d \in Datas \cup {NoFile}
    /\ d # <<>> => disk[n] = d

(* As long as nobody disturbs it, an upload finds the file as it left it,  *)
(* a download has read a piece of what is there, and its answer stays      *)
(* right.                                                                  *)
DriveQuiet(w) ==
  /\ at[w] = "write" => disk[job[w].name] = <<>>
  /\ at[w] = "read" =>
       /\ disk[job[w].name] = NoFile => buf[w] = <<>>
       /\ \A d \in Datas : disk[job[w].name] = d =>
            \E k \in 0 .. Len(d) : buf[w] = SubSeq(d, 1, k)
  /\ at[w] = "sent" /\ job[w].kind = "download" =>
       \A d \in stored[job[w].name] \ {<<>>} :
         IF d = NoFile THEN resp[w][1] = 404 ELSE resp[w] = <<200, d>>
DriveInv ==
  /\ DriveTypes /\ DriveFiles
  /\ \A w \in Callers : DriveJob(w)
  /\ \A w \in quiet : DriveQuiet(w)

(* Nothing is stored and nobody asks. *)
LEMMA DriveInit == Drive!Init => DriveInv
  BY DEF Drive!Init, Drive!NoJob, DriveInv, DriveTypes, DriveFiles, DriveJob, DriveQuiet

(* A step at no file. *)
LEMMA DriveBegins ==
  ASSUME DriveInv, NEW w \in Callers, Drive!Begin(w) \/ Drive!UploadNameless(w)
  PROVE  DriveInv'
  <1>1. /\ UNCHANGED <<disk, stored>> /\ quiet' \subseteq quiet \cup {w}
        /\ at' \in [Callers -> {"idle", "open", "write", "read", "list", "sent"}]
        /\ at'[w] # "write"
        /\ \A v \in Callers \ {w} : at'[v] = at[v] /\ job'[v] = job[v]
                                     /\ buf'[v] = buf[v] /\ resp'[v] = resp[v]
        /\ DOMAIN job' = Callers /\ DOMAIN buf' = Callers /\ DOMAIN resp' = Callers
        /\ buf'[w] = <<>>
    BY DEF Drive!Begin, Drive!UploadNameless, Drive!Finish, DriveInv, DriveTypes
  <1>2. DriveJob(w)'
    <2>1. {"404.html", "uploaded_file.dat"} \subseteq Names
      BY NetworkProgramsAssumption DEF Drive!CloudDriveAssumption
    <2>2. \A h \in Drive!Headers : Drive!SaveName(h) \in Names
      BY <2>1 DEF Drive!Headers, Drive!SaveName
    <2> QED
      BY <2>2 DEF Drive!Begin, Drive!UploadNameless, Drive!Finish, Drive!NoJob,
                  DriveInv, DriveTypes, DriveJob
  <1>3. at'[w] = "sent" => job'[w].kind = "none"
    BY DEF Drive!Begin, Drive!UploadNameless, Drive!Finish, Drive!NoJob, DriveInv, DriveTypes
  <1>4. DriveQuiet(w)'
    <2>1. \A d \in Datas : 0 \in 0 .. Len(d) /\ SubSeq(d, 1, 0) = <<>>
      BY NetworkProgramsAssumption DEF Drive!CloudDriveAssumption
    <2> QED BY <1>1, <1>3, <2>1 DEF DriveQuiet
  <1>5. \A v \in Callers \ {w} : DriveJob(v)' /\ (v \in quiet' => DriveQuiet(v)')
    BY <1>1, SMTT(30) DEF DriveInv, DriveJob, DriveQuiet
  <1> QED BY <1>1, <1>2, <1>4, <1>5 DEF DriveInv, DriveTypes, DriveFiles

(* An upload truncates its file, and fills it. *)
LEMMA DriveUploads ==
  ASSUME DriveInv, NEW w \in Callers, Drive!UploadOpen(w) \/ Drive!UploadWrite(w)
  PROVE  DriveInv'
  <1> PICK n \in Names : n = job[w].name
    BY DEF Drive!UploadOpen, Drive!UploadWrite, DriveInv, DriveJob
  <1> DEFINE alone == \A v \in quiet' \ {w} : v \in quiet /\ job[v].name # n
  <1>1. /\ UNCHANGED <<job, buf>> /\ DOMAIN disk' = Names /\ DOMAIN stored' = Names
        /\ \A m \in Names \ {n} : disk'[m] = disk[m] /\ stored'[m] = stored[m]
        /\ at' \in [Callers -> {"idle", "open", "write", "read", "list", "sent"}]
        /\ \A v \in Callers \ {w} : at'[v] = at[v] /\ resp'[v] = resp[v]
        /\ DOMAIN resp' = Callers
        /\ job[w].kind = "upload" /\ at'[w] \in {"write", "sent"}
        /\ at'[w] = "write" => at[w] = "open"
    <2>1. job[w].kind = "upload"
      BY Zenon DEF Drive!UploadOpen, Drive!UploadWrite, DriveInv, DriveJob
    <2>2. CASE Drive!UploadOpen(w)
      <3>1. PICK x, y : disk' = [disk EXCEPT ![n] = x] /\ stored' = [stored EXCEPT ![n] = y]
        BY <2>2, Zenon DEF Drive!UploadOpen
      <3>2. /\ UNCHANGED <<job, buf, resp>> /\ at' = [at EXCEPT ![w] = "write"]
            /\ at[w] = "open"
        BY <2>2 DEF Drive!UploadOpen
      <3> QED BY <2>1, <3>1, <3>2 DEF DriveInv, DriveTypes
    <2>3. CASE Drive!UploadWrite(w)
      <3>1. PICK x, y : disk' = [disk EXCEPT ![n] = x] /\ stored' = [stored EXCEPT ![n] = y]
        BY <2>3, ZenonT(30) DEF Drive!UploadWrite
      <3>2. /\ UNCHANGED <<job, buf>> /\ at' = [at EXCEPT ![w] = "sent"]
            /\ resp' = [resp EXCEPT ![w] = <<303, <<>>>>]
        BY <2>3, ZenonT(30) DEF Drive!UploadWrite, Drive!Finish
      <3> QED BY <2>1, <3>1, <3>2, SMTT(30) DEF DriveInv, DriveTypes
    <2> QED BY <2>2, <2>3
  <1>2. quiet' \subseteq Callers /\ alone
    BY DEF Drive!UploadOpen, Drive!UploadWrite, Drive!Disturbed, DriveInv, DriveTypes
  <1>3. \A d \in stored'[n] : /\ stored'[n] = {d} /\ d \in Datas
                              /\ d # <<>> => disk'[n] = d
    <2>1. CASE Drive!UploadOpen(w)
      BY <2>1 DEF Drive!UploadOpen, DriveInv, DriveTypes
    <2>2. CASE Drive!UploadWrite(w)
      <3> DEFINE data == Drive!FileData(job[w].body)
                 d == job[w].data
      <3>1. d \in Datas /\ (d # <<>> => data = d) /\ at[w] = "write"
        <4>1. at[w] = "write" /\ DriveJob(w) BY <2>2, ZenonT(30) DEF Drive!UploadWrite, DriveInv
        <4>2. PICK h \in Drive!Headers : d \in Datas /\ job[w].body = Drive!Form(h, d)
          BY <4>1 DEF DriveJob
        <4> QED BY <4>1, <4>2, FormData, SMTT(30)
      <3>2. d \in Seq(STRING)
        BY <3>1, NetworkProgramsAssumption DEF Drive!CloudDriveAssumption
      <3>3. PICK k :
              /\ disk'[n] = SubSeq(data, 1, k) \o SubSeq(disk[n], k + 1, Len(disk[n]))
              /\ stored'[n] = IF w \in quiet /\ k = Len(data) THEN {d} ELSE {}
        <4>1. PICK k :
                /\ disk' = [disk EXCEPT ![n] = SubSeq(data, 1, k) \o SubSeq(@, k + 1, Len(@))]
                /\ stored' = [stored EXCEPT ![n] = IF w \in quiet /\ k = Len(data) THEN {d} ELSE {}]
          BY <2>2, Zenon DEF Drive!UploadWrite
        <4> HIDE DEF data
        <4>2. DOMAIN disk = Names /\ DOMAIN stored = Names BY DEF DriveInv, DriveTypes
        <4> QED BY <4>1, <4>2, Zenon
      <3> HIDE DEF data
      <3>4. ASSUME w \in quiet, k = Len(data), d # <<>> PROVE disk'[n] = d
        <4>1. disk[n] = <<>> BY <3>1, <3>4 DEF DriveInv, DriveQuiet
        <4>2. SubSeq(d, 1, Len(d)) = d /\ SubSeq(<<>>, Len(d) + 1, Len(<<>>)) = <<>>
              /\ d \o <<>> = d
          BY <3>2
        <4> QED BY <3>1, <3>3, <3>4, <4>1, <4>2
      <3> QED BY <3>1, <3>3, <3>4, SMTT(30)
    <2> QED BY <2>1, <2>2
  <1>4. DriveFiles' BY <1>1, <1>3 DEF DriveInv, DriveFiles
  <1>5. \A v \in Callers : DriveJob(v)'
    <2>1. ASSUME NEW v \in Callers \ {w} PROVE DriveJob(v)'
      BY <1>1 DEF DriveInv, DriveJob
    <2>2. DriveJob(w)' BY <1>1 DEF DriveInv, DriveJob
    <2> QED BY <2>1, <2>2
  <1>6. ASSUME NEW v \in quiet' PROVE DriveQuiet(v)'
    <2>1. CASE v # w
      <3>1. v \in quiet /\ v \in Callers /\ job[v].name # n
        BY <1>2, <2>1 DEF DriveInv, DriveTypes
      <3>2. DriveQuiet(v) /\ DriveJob(v) BY <3>1 DEF DriveInv
      <3> QED BY <1>1, <2>1, <3>1, <3>2 DEF DriveQuiet, DriveJob
    <2>2. CASE v = w
      <3>1. CASE Drive!UploadOpen(w)
        <4>1. disk'[n] = <<>> BY <3>1 DEF Drive!UploadOpen, DriveInv, DriveTypes
        <4> QED BY <1>1, <2>2, <4>1 DEF DriveQuiet
      <3>2. CASE Drive!UploadWrite(w)
        <4>1. at'[w] # "write" BY <3>2 DEF Drive!UploadWrite, Drive!Finish, DriveInv, DriveTypes
        <4> QED BY <1>1, <2>2, <4>1 DEF DriveQuiet
      <3> QED BY <3>1, <3>2
    <2> QED BY <2>1, <2>2
  <1> QED BY <1>1, <1>2, <1>4, <1>5, <1>6 DEF DriveInv, DriveTypes

(* A failing open or listing, and a listing's steps. *)
LEMMA DriveQuietly ==
  ASSUME DriveInv, NEW w \in Callers,
         Drive!UploadOpenFails(w) \/ Drive!HomeEntry(w) \/ Drive!HomeFails(w)
  PROVE  DriveInv'
  <1>1. /\ UNCHANGED <<disk, job, stored, quiet>>
        /\ at' \in [Callers -> {"idle", "open", "write", "read", "list", "sent"}]
        /\ at'[w] \in {"list", "sent"} /\ (at'[w] = "list" => at[w] = "list")
        /\ \A v \in Callers \ {w} : at'[v] = at[v] /\ buf'[v] = buf[v] /\ resp'[v] = resp[v]
        /\ DOMAIN buf' = Callers /\ DOMAIN resp' = Callers
    BY DEF Drive!UploadOpenFails, Drive!HomeEntry, Drive!HomeFails, Drive!Finish,
           DriveInv, DriveTypes
  <1>2. job[w].kind # "download"
    BY DEF Drive!UploadOpenFails, Drive!HomeEntry, Drive!HomeFails, DriveInv, DriveJob
  <1>3. DriveJob(w)' /\ DriveQuiet(w)'
    BY <1>1, <1>2 DEF DriveInv, DriveJob, DriveQuiet
  <1>4. \A v \in Callers \ {w} : DriveJob(v)' /\ (v \in quiet' => DriveQuiet(v)')
    BY <1>1 DEF DriveInv, DriveJob, DriveQuiet
  <1> QED BY <1>1, <1>3, <1>4 DEF DriveInv, DriveTypes, DriveFiles

(* A download reads on, or has read all there is. *)
LEMMA DriveReads ==
  ASSUME DriveInv, NEW w \in Callers, Drive!DownloadRead(w)
  PROVE  DriveInv'
  <1> PICK n \in Names : n = job[w].name
    BY DEF Drive!DownloadRead, DriveInv, DriveJob
  <1> DEFINE file == disk[n]
             seen == Len(buf[w])
             more == file # NoFile /\ seen < Len(file)
  <1>0. at[w] = "read" /\ job[w].kind = "download" /\ (w \in quiet => DriveQuiet(w))
    BY DEF Drive!DownloadRead, DriveInv, DriveJob
  <1>1. /\ UNCHANGED <<disk, job, stored, quiet>>
        /\ at' \in [Callers -> {"idle", "open", "write", "read", "list", "sent"}]
        /\ at'[w] \in {"read", "sent"}
        /\ \A v \in Callers \ {w} : at'[v] = at[v] /\ buf'[v] = buf[v] /\ resp'[v] = resp[v]
        /\ DOMAIN buf' = Callers /\ DOMAIN resp' = Callers
    BY DEF Drive!DownloadRead, Drive!Finish, DriveInv, DriveTypes
  <1>2. DriveJob(w)' BY <1>0, <1>1 DEF DriveJob
  <1>3. ASSUME w \in quiet PROVE DriveQuiet(w)'
    <2>1. CASE more
      <3>1. /\ at'[w] = "read"
            /\ buf'[w] = buf[w] \o SubSeq(file, seen + 1, IF seen + Blocks < Len(file)
                                                       THEN seen + Blocks ELSE Len(file))
        BY <1>0, <2>1 DEF Drive!DownloadRead, DriveInv, DriveTypes
      <3>2. ASSUME NEW d \in Datas, d = file
            PROVE  \E k \in 0 .. Len(d) : buf'[w] = SubSeq(d, 1, k)
        <4>1. PICK k \in 0 .. Len(d) : buf[w] = SubSeq(d, 1, k)
          BY <1>0, <1>3, <3>2 DEF DriveQuiet
        <4>2. d \in Seq(STRING) /\ Blocks \in Nat
          BY NetworkProgramsAssumption DEF Drive!CloudDriveAssumption
        <4>3. Len(SubSeq(d, 1, k)) = k BY <4>2
        <4>4. PICK m \in k .. Len(d) :
                m = IF k + Blocks < Len(d) THEN k + Blocks ELSE Len(d)
          BY <4>2
        <4>5. SubSeq(d, 0 + 1, k) \o SubSeq(d, k + 1, m) = SubSeq(d, 0 + 1, m)
          BY <4>2, InTwoPieces, SMTT(30)
        <4>6. buf'[w] = SubSeq(d, 1, k) \o SubSeq(d, k + 1, m)
          BY <3>1, <3>2, <4>1, <4>3, <4>4
        <4>7. m \in 0 .. Len(d) /\ 0 + 1 = 1 BY <4>2
        <4> QED BY <4>5, <4>6, <4>7
      <3> QED BY <1>1, <2>1, <3>1, <3>2, ZenonT(30) DEF DriveQuiet
    <2>2. CASE ~more
      <3>1. /\ at'[w] = "sent"
            /\ buf[w] # <<>> => resp'[w] = <<200, buf[w]>>
            /\ buf[w] = <<>> => resp'[w][1] = 404
        BY <1>0, <2>2 DEF Drive!DownloadRead, Drive!Finish, DriveInv, DriveTypes
      <3>2. ASSUME NEW d \in stored[n] \ {<<>>}
            PROVE  IF d = NoFile THEN resp'[w][1] = 404 ELSE resp'[w] = <<200, d>>
        <4>1. d = file /\ d \in Datas \cup {NoFile} BY DEF DriveInv, DriveFiles
        <4>2. CASE d = NoFile BY <1>0, <1>3, <3>1, <4>1, <4>2 DEF DriveQuiet
        <4>3. CASE d # NoFile
          <5>1. PICK k \in 0 .. Len(d) : buf[w] = SubSeq(d, 1, k)
            BY <1>0, <1>3, <4>1, <4>3 DEF DriveQuiet
          <5>2. d \in Seq(STRING)
            BY <4>1, <4>3, NetworkProgramsAssumption DEF Drive!CloudDriveAssumption
          <5>3. Len(SubSeq(d, 1, k)) = k /\ SubSeq(d, 1, Len(d)) = d BY <5>2
          <5>4. k = Len(d) BY <2>2, <4>1, <4>3, <5>1, <5>2, <5>3
          <5> QED BY <3>1, <4>3, <5>1, <5>3, <5>4
        <4> QED BY <4>2, <4>3
      <3> QED BY <1>1, <3>1, <3>2 DEF DriveQuiet
    <2> QED BY <2>1, <2>2, SMTT(30)
  <1>4. \A v \in Callers \ {w} : DriveJob(v)' /\ (v \in quiet' => DriveQuiet(v)')
    BY <1>1 DEF DriveInv, DriveJob, DriveQuiet
  <1> QED BY <1>1, <1>2, <1>3, <1>4 DEF DriveInv, DriveTypes, DriveFiles

(* Every step of the part keeps its invariant. *)
LEMMA DriveNext ==
  ASSUME DriveInv, Drive!Next
  PROVE  DriveInv'
  BY DriveBegins, DriveUploads, DriveQuietly, DriveReads DEF Drive!Next, Drive!Worker

(* A step that changes none of it keeps it. *)
LEMMA DriveStill ==
  ASSUME DriveInv, UNCHANGED <<disk, job, at, buf, resp, requests, stored, quiet>>
  PROVE  DriveInv'
  BY DEF DriveInv, DriveTypes, DriveJob, DriveFiles, DriveQuiet

(* The invariant in the words of the property. *)
LEMMA DriveAnswers == DriveInv => Drive!DriveRight
  BY DEF DriveInv, DriveTypes, DriveFiles, DriveJob, DriveQuiet, Drive!DriveRight

-----------------------------------------------------------------------------
(* Whichever part runs.                                                    *)

(* The invariant of the part that runs. *)
PartInv ==
  /\ part = "sess" => SessInv /\ SaysInv
  /\ part = "mux" => MuxInv
  /\ part = "echo" => EchoInv /\ RightInv
  /\ part = "calc" => CalcInv
  /\ part = "http" => HttpInv
  /\ part = "udp" => UdpInv
  /\ part = "drive" => DriveInv

(* It holds at first. *)
LEMMA PartInit == Init => PartInv
  BY SessInit, SaysInit, MuxInit, EchoInit, RightInit, CalcInit, HttpInit, UdpInit,
     DriveInit DEF Init, PartInv

(* Every step keeps it. *)
LEMMA PartNext == PartInv /\ [Next]_all => PartInv'
  <1> SUFFICES ASSUME PartInv, [Next]_all PROVE PartInv' OBVIOUS
  <1>1. CASE Next
    BY <1>1, OwnSteps, SessNext, SaysNext, MuxNext, RightNext, CalcNext, HttpNext,
       UdpNext, DriveNext DEF PartInv
  <1>2. CASE UNCHANGED all
    <2>1. /\ UNCHANGED <<part, host, conn, alive, failures, fdtab, inbuffer, heard>>
          /\ UNCHANGED <<ofSess, ofMux, ofEcho, ofCalc, ofHttp, ofUdp, ofDrive>>
      BY <1>2, NoSteps
    <2>2. part = "sess" => SessInv' /\ SaysInv'
      <3>1. part = "sess" => SessInv'
        BY <2>1 DEF PartInv, SessInv, SessTypes, SessControl, SessQueue, SessCommands, Held,
                    host, ofSess
      <3>2. part = "sess" => SaysInv'
        BY <2>1, SaysKept DEF PartInv, host, ofSess
      <3> QED BY <3>1, <3>2
    <2>3. part = "mux" => MuxInv'
      BY <2>1 DEF PartInv, MuxInv, MuxTypes, Open, Most, host, ofMux
    <2>4. part = "echo" => EchoInv' /\ RightInv'
      <3>1. part = "echo" => EchoInv'
        BY <2>1 DEF PartInv, EchoInv, EchoTypes, OneConnection, Reports, host, ofEcho,
                    AllReported, Echo!Readable, Echo!Ended
      <3>2. part = "echo" => RightInv'
        BY <2>1, RightKept DEF PartInv, host, ofEcho
      <3> QED BY <3>1, <3>2
    <2>5. part = "calc" => CalcInv'
      BY <2>1, CalcStill DEF PartInv, host, ofCalc
    <2>6. part = "http" => HttpInv'
      BY <2>1, HttpStill DEF PartInv, host, ofHttp
    <2>7. part = "udp" => UdpInv'
      BY <2>1, UdpStill DEF PartInv, ofUdp
    <2>8. part = "drive" => DriveInv'
      BY <2>1, DriveStill DEF PartInv, ofDrive
    <2> QED BY <2>1, <2>2, <2>3, <2>4, <2>5, <2>6, <2>7, <2>8 DEF PartInv
  <1> QED BY <1>1, <1>2

(* The part that runs keeps its invariant, in every behaviour. *)
LEMMA PartAlways == Spec => []PartInv
  BY PartInit, PartNext, PTL DEF Spec

(* Whoever asks gets the answer to what it asked, in order and once,       *)
(* however the network cuts the streams, whoever else asks and leaves: a   *)
(* line echoed or its command's output (04 to 07), an echo (14), the sum   *)
(* (08), the page (09), the datagram sent to everyone it concerns (02,     *)
(* 03); and a file of the cloud drive is what was uploaded (Http.cpp).     *)
THEOREM AnswersAlwaysRight == Spec => []AnswersRight
  <1>1. PartInv => AnswersRight
    <2> SUFFICES ASSUME PartInv PROVE AnswersRight OBVIOUS
    <2>1. /\ part = "sess" => Sess!AnswersRight
          /\ part = "echo" => Echo!AnswersRight
          /\ part = "calc" => Calc!AnswersRight
          /\ part = "http" => Http!AnswersRight
          /\ part = "udp" => Udp!AnswersRight
          /\ part = "drive" => Drive!DriveRight
      BY SaysAnswers, RightAnswers, CalcAnswers, HttpAnswers, UdpAnswers, DriveAnswers
         DEF PartInv
    <2> QED BY <2>1 DEF AnswersRight
  <1> QED BY <1>1, PartAlways, PTL

(* The server's own processes have a descriptor open as long as there is a *)
(* session to serve, and no longer but for the next step of 05's parent;   *)
(* any other copy of it is a running command's of 06 or 07 (04 to 07); the *)
(* tables of select and poll name exactly the descriptors that are open,   *)
(* and epoll's lists only those (11, 12 and 14).                           *)
THEOREM DescriptorsAlwaysAccounted == Spec => []DescriptorsAccounted
  <1>1. PartInv => DescriptorsAccounted
    BY SessDescriptors, MuxDescriptors, EchoDescriptors DEF PartInv, DescriptorsAccounted
  <1> QED BY <1>1, PartAlways, PTL

(* No edge is lost: what waits to be read or accepted has a report under   *)
(* way, unless accept() has run out of descriptors (14,                    *)
(* EpollServer.cpp).                                                       *)
THEOREM NothingEverMissed == Spec => []NothingMissed
  <1>1. PartInv => NothingMissed
    BY EchoDescriptors DEF PartInv, NothingMissed
  <1> QED BY <1>1, PartAlways, PTL

=============================================================================
