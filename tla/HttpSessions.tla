---------------------------- MODULE HttpSessions ----------------------------
(***************************************************************************)
(* The HTTP server with sessions (09): a detached thread for each          *)
(* connection hears one request by one recv, answers it and closes.  The   *)
(* threads share g_sessions, an unordered_map without a lock, and the      *)
(* process, which does not ignore SIGPIPE (Daemon is commented out in      *)
(* main) and dies of an exception in any of them.  A request is the units  *)
(* line, eol, cookie, blank, body; a session's id is the connection it was *)
(* given to.                                                               *)
(***************************************************************************)
EXTENDS TcpClients

CONSTANTS Files,         \* the files wwwroot has
          Dirs,          \* the URLs of directories
          ReadMax,       \* what one recv returns at most
          MaxFailures    \* bound: pthread_create calls that fail

(* A client asks once or not at all; cookies are other clients' sessions.  *)
Unit == ({"line", "body"} \X STRING) \cup ({"cookie"} \X Clients) \cup {<<"eol">>, <<"blank">>}
Asks(s) == s \in Seq(Unit) /\ \A i \in DOMAIN s : s[i][1] = "line" <=> i = 1

HttpSessionsAssumption ==
  /\ {ReadMax, MaxFailures} \subseteq Nat
  /\ \A t \in Talks : \A c \in Clients : Asks(FlattenSeq(t[c]))

VARIABLES
  thread,      \* each connection's: "none", "stuck", "recv", "map", "in_map",
               \* "hung", "answer" or "done"
  heard,       \* the request as recv returned it
  reply,       \* the answer made so far
  g_sessions,
  raced,       \* two threads have used g_sessions at once, one to insert
  alive,       \* FALSE: the server has died
  failures

httpVars == <<thread, heard, reply, g_sessions, raced, alive, failures>>
vars == <<hostVars, httpVars>>

Init ==
  /\ HostInit
  /\ thread = [c \in Clients |-> "none"]
  /\ heard = [c \in Clients |-> <<>>]
  /\ reply = [c \in Clients |-> <<>>]
  /\ g_sessions = {} /\ raced = FALSE /\ alive = TRUE /\ failures = 0

-----------------------------------------------------------------------------
(* The request. *)
Units(s, kind) == {s[i] : i \in {j \in DOMAIN s : s[j][1] = kind}}

(* Deserialize: there is a whole first line. *)
Deserialize(s) == Units(s, "eol") # {}
Target(s) == (CHOOSE u \in Units(s, "line") : TRUE)[2]

(* GetCookie; GetBodyParam says "good" of the right name and password.     *)
GetCookie(s) == {u[2] : u \in Units(s, "cookie")}
Credentials(s) == {u[2] : u \in Units(s, "body")}

(* Which requests insert a session and which look one up. *)
Inserts(s) == Target(s) = "GET /login" \/ (Target(s) = "POST /login" /\ "good" \in Credentials(s))
Finds(s) == Target(s) = "/user"

(* The answers that need no session: GetFileContent, 404.html, 302.        *)
GetPath(url) == IF url = "/" THEN "/index.html" ELSE url
Static(s) ==
  CASE Target(s) = "POST /login" -> <<200, "refused">>
    [] Target(s) = "/bilibili" -> <<302, "bilibili">>
    [] OTHER -> IF GetPath(Target(s)) \in Files \cup Dirs
                THEN <<200, GetPath(Target(s))>> ELSE <<404, "/404.html">>

(* GetFileContent opens a directory as if it were a file, but tellg() has  *)
(* no size for it and resize(-1) throws; where the file system has one,    *)
(* that many zeros are the answer.                                         *)
Throws(s) == IF Target(s) \in Dirs THEN BOOLEAN ELSE {FALSE}

-----------------------------------------------------------------------------
(* A browser that is stopped resets the connection it waits on. *)
Reset(c) ==
  /\ peer[c] = "open" /\ c \notin Polite /\ got[c] = <<>> /\ tx[c] = <<>>
  /\ peer' = [peer EXCEPT ![c] = "gone"]
  /\ rst' = rst \cup {c}
  /\ UNCHANGED <<talk, sent, got, backlog, rx, tx, fin>>

(* A browser shows a cookie once it has been given it. *)
Client(c) ==
  /\ \/ /\ \A u \in Units(Stream(c), "cookie") : \E i \in DOMAIN got[u[2]] : Len(got[u[2]][i][1]) = 3
        /\ Connect(c)
     \/ Send(c) \/ Receive(c, 1)
     \/ (c \in Polite => (thread[c] = "done" \/ ~alive) /\ tx[c] = <<>>) /\ Leave(c)
     \/ Refuse(c) \/ Reset(c)
  /\ UNCHANGED httpVars

-----------------------------------------------------------------------------
(* AcceptConnection and pthread_create, whose result is not looked at. *)
Accept ==
  /\ alive /\ backlog # <<>>
  /\ backlog' = Tail(backlog)
  /\ \/ thread' = [thread EXCEPT ![Head(backlog)] = "recv"] /\ failures' = failures
     \/ /\ failures < MaxFailures /\ failures' = failures + 1
        /\ thread' = [thread EXCEPT ![Head(backlog)] = "stuck"]
  /\ UNCHANGED <<peer, talk, sent, got, rx, tx, fin, rst, heard, reply, g_sessions, raced, alive>>

(* Recv and Deserialize: without a whole first line there is no answer;    *)
(* a page that needs no session is read at once.                           *)
Recv(c) ==
  /\ thread[c] = "recv" /\ rx[c] # <<>>
  /\ heard' = [heard EXCEPT ![c] = Chunk(c, ReadMax)]
  /\ rx' = [rx EXCEPT ![c] = SubSeq(@, Len(heard'[c]) + 1, Len(@))]
  /\ LET s == heard'[c]
     IN  /\ thread' = [thread EXCEPT ![c] =
              IF ~Deserialize(s) THEN "done"
              ELSE IF Inserts(s) \/ Finds(s) THEN "map" ELSE "answer"]
         /\ reply' = [reply EXCEPT ![c] =
              IF thread'[c] = "answer" THEN Static(s) ELSE <<>>]
         /\ \E throws \in IF thread'[c] = "answer" THEN Throws(s) ELSE {FALSE} :
              alive' = ~throws
  /\ UNCHANGED <<peer, talk, sent, got, backlog, tx, fin, rst, g_sessions, raced, failures>>

RecvFails(c) ==
  /\ thread[c] = "recv" /\ Ended(c)
  /\ thread' = [thread EXCEPT ![c] = "done"]
  /\ UNCHANGED <<hostVars, heard, reply, g_sessions, raced, alive, failures>>

(* g_sessions[sid] = ..., g_sessions.find(sid): the call begins.  Two at   *)
(* once, one of them inserting, are undefined.                             *)
MapCall(c) ==
  /\ thread[c] = "map"
  /\ thread' = [thread EXCEPT ![c] = "in_map"]
  /\ raced' = (raced \/ \E d \in Clients : /\ thread[d] = "in_map"
                                           /\ Inserts(heard[c]) \/ Inserts(heard[d]))
  /\ UNCHANGED <<hostVars, heard, reply, g_sessions, alive, failures>>

(* Slip: the session is made only when the password is posted. *)
MapReturnForgets(c) ==
  /\ thread[c] = "in_map"
  /\ thread' = [thread EXCEPT ![c] = "answer"]
  /\ g_sessions' = IF Target(heard[c]) = "POST /login" THEN g_sessions \cup {c} ELSE g_sessions
  /\ reply' = [reply EXCEPT ![c] =
       CASE Target(heard[c]) = "GET /login" -> <<200, "/login.html", c>>
         [] Target(heard[c]) = "POST /login" -> <<302, "/user", c>>
         [] OTHER -> IF GetCookie(heard[c]) \cap g_sessions # {} THEN <<200, "/user.html">>
                     ELSE <<200, "401">>]
  /\ UNCHANGED <<hostVars, heard, raced, alive, failures>>

(* The call returns and the answer is made; after a race what is found and *)
(* what is kept is anybody's guess.                                        *)
MapReturn(c) ==
  /\ thread[c] = "in_map"
  /\ thread' = [thread EXCEPT ![c] = "answer"]
  /\ \E now \in IF raced THEN SUBSET (g_sessions \cup {c}) ELSE {g_sessions \cup {c}} :
       g_sessions' = IF Inserts(heard[c]) THEN now ELSE g_sessions
  /\ \E found \in IF raced THEN BOOLEAN ELSE {GetCookie(heard[c]) \cap g_sessions # {}} :
       reply' = [reply EXCEPT ![c] =
         CASE Target(heard[c]) = "GET /login" -> <<200, "/login.html", c>>
           [] Target(heard[c]) = "POST /login" -> <<302, "/user", c>>
           [] OTHER -> IF found THEN <<200, "/user.html">> ELSE <<200, "401">>]
  /\ UNCHANGED <<hostVars, heard, raced, alive, failures>>

(* Or it does not return: a broken map crashes, or a search in it goes     *)
(* round for ever.                                                         *)
MapBreaks(c) ==
  /\ thread[c] = "in_map" /\ raced
  /\ \/ alive' = FALSE /\ thread' = thread
     \/ alive' = alive /\ thread' = [thread EXCEPT ![c] = "hung"]
  /\ UNCHANGED <<hostVars, heard, reply, g_sessions, raced, failures>>

(* Send and CloseSocket.  After RST has arrived send only fails, or raises *)
(* SIGPIPE.                                                                *)
Answer(c) ==
  /\ thread[c] = "answer"
  /\ thread' = [thread EXCEPT ![c] = "done"]
  /\ IF c \in rst THEN tx' = tx /\ alive' \in BOOLEAN
     ELSE tx' = [tx EXCEPT ![c] = Append(@, reply[c])] /\ alive' = alive
  /\ UNCHANGED <<peer, talk, sent, got, backlog, rx, fin, rst, heard, reply, g_sessions, raced, failures>>

Thread(c) ==
  /\ alive
  /\ \/ Recv(c) \/ RecvFails(c) \/ MapCall(c) \/ MapReturn(c) \/ MapBreaks(c)
     \/ Answer(c)

Next == Accept \/ \E c \in Clients : Thread(c) \/ Client(c)

-----------------------------------------------------------------------------
(* Until two threads race on g_sessions: there is one answer at most,      *)
(* /user opens with every cookie that was given out, if the request was    *)
(* heard with it, and not without; a login is refused only for wrong       *)
(* credentials or a body that came late; a session that was announced is   *)
(* kept; 404 is said of what is not there.                                 *)
AnswersRight ==
  ~raced => \A c \in Clients : got[c] # <<>> =>
    LET s == Stream(c)
        answer == got[c][1][1]
    IN  /\ Len(got[c]) = 1
        /\ Finds(s) => answer = IF GetCookie(heard[c]) # {} THEN <<200, "/user.html">>
                                ELSE <<200, "401">>
        /\ Target(s) = "POST /login" /\ answer = <<200, "refused">>
             => "good" \notin Credentials(s) \/ heard[c] # s
        /\ Len(answer) = 3 => Inserts(s) /\ c \in g_sessions
        /\ answer[1] = 404 => GetPath(Target(s)) \notin Files

(* A connection is closed in the end, whatever the others do, and if its   *)
(* first line was heard whole, answered; unless its thread could not be    *)
(* made or goes round in a map broken by a race, or the server has died:   *)
(* of the race, of a directory somebody asked for, or of a write to a      *)
(* client that had reset its connection.                                   *)
Served(c) ==
  \/ peer[c] = "gone" /\ (got[c] # <<>> \/ ~Deserialize(heard[c]))
  \/ thread[c] \in {"stuck", "hung"} \/ ~alive
Blocked(c) == peer[c] = "new"
EveryoneServed == \A c \in Polite : <>Served(c) \/ <>[]Blocked(c)
=============================================================================
