----------------------------- MODULE Deployment -----------------------------
(***************************************************************************)
(* Getting a server up and down.  Each server of the repository is a row   *)
(* of what its Init does with socket, bind and listen; it is run and       *)
(* stopped by hand, the reactor by server.sh, which knows the server only  *)
(* by what lsof says of the port and by a file with a process number.      *)
(***************************************************************************)
EXTENDS Integers

CONSTANTS Pids,        \* bound: processes of the machine
          Polls,       \* how often stop looks whether the process is gone
          MaxCommands  \* bound: commands given

DeploymentAssumption == {Polls, MaxCommands} \subseteq Nat

VARIABLES
  server,      \* which server this is about
  who,         \* each process: "free" (there is none), "starting", "server",
               \* "deaf" (a server without its socket), "squatter" (another
               \* service with the port), "client" (of the port) or "stranger"
  timewait,    \* connections of the last server hold the port in TIME_WAIT
  termed,      \* processes told to terminate
  pidfile,     \* the numbers in server.pid, none if it is not there
  step,        \* the script's next step
  command, commands,
  PID, polls,  \* the script's variables
  said,        \* the script's last word
  clean,       \* ghost: stop's lookup has found the server and nothing else,
               \* and no start is under way
  strangers,   \* ghost: other processes signalled by the last stop
  mishap       \* ghost: since the last start something failed or was slow,
               \* or somebody else had the port

system == <<who, timewait, termed>>
script == <<step, command, commands, PID, polls, said, clean, strangers, pidfile>>
vars == <<server, system, script, mishap>>

(* Whether server.sh runs it, it listens, it may take a port in TIME_WAIT, *)
(* and a call that fails ends the process.                                 *)
Kind(scripted, listens, reuse, orDie) ==
  [scripted |-> scripted, listens |-> listens, reuse |-> reuse, orDie |-> orDie]

UdpEcho    == Kind(FALSE, FALSE, FALSE, TRUE)
UdpDict    == Kind(FALSE, FALSE, FALSE, TRUE)
UdpChat    == Kind(FALSE, FALSE, FALSE, TRUE)
TcpEcho    == Kind(FALSE, TRUE, FALSE, TRUE)
TcpProcess == Kind(FALSE, TRUE, FALSE, TRUE)
TcpThread  == Kind(FALSE, TRUE, FALSE, TRUE)
TcpPool    == Kind(FALSE, TRUE, FALSE, TRUE)
Custom     == Kind(FALSE, TRUE, TRUE, TRUE)
HttpServer == Kind(FALSE, TRUE, TRUE, TRUE)
Select     == Kind(FALSE, TRUE, TRUE, FALSE)
Poll       == Kind(FALSE, TRUE, TRUE, FALSE)
EpollEcho  == Kind(FALSE, TRUE, TRUE, TRUE)
LineEcho   == Kind(FALSE, TRUE, TRUE, TRUE)
(* Slip: SO_REUSEADDR is not set. *)
ReactorStale == Kind(TRUE, TRUE, FALSE, TRUE)
Reactor    == Kind(TRUE, TRUE, TRUE, TRUE)

Servers ==
  {UdpEcho, UdpDict, UdpChat, TcpEcho, TcpProcess, TcpThread, TcpPool, Custom,
   HttpServer, Select, Poll, EpollEcho, LineEcho, Reactor}

Init ==
  /\ server \in Servers
  /\ who = [p \in Pids |-> "free"] /\ timewait = FALSE /\ termed = {}
  /\ pidfile = {} /\ PID = {} /\ polls = 0
  /\ step = "idle" /\ command = "none" /\ commands = 0 /\ said = "nothing"
  /\ clean = FALSE /\ strangers = {} /\ mishap = FALSE

Are(kinds) == {p \in Pids : who[p] \in kinds}
Become(p, kind) == who' = [who EXCEPT ![p] = kind]
Listening == Are({"server", "squatter"})

-----------------------------------------------------------------------------
(* The process between exec and its main loop: the calls of Init in one    *)
(* step; while somebody has the port bind fails, in TIME_WAIT too unless   *)
(* SO_REUSEADDR is set, and any call may fail for other reasons.           *)
BindFails == Listening # {} \/ (timewait /\ server.listens /\ ~server.reuse)

SetUp(p) ==
  /\ who[p] = "starting"
  /\ \/ ~BindFails /\ Become(p, "server") /\ UNCHANGED <<termed, mishap>>
     \/ /\ IF server.orDie THEN Become(p, "free") /\ termed' = termed \ {p}
                           ELSE Become(p, "deaf") /\ termed' = termed
        /\ \/ BindFails /\ mishap' = (mishap \/ Are({"squatter"}) # {})
           \/ mishap' = TRUE
  /\ UNCHANGED <<server, timewait, script>>

Ends(p) ==
  /\ Become(p, "free")
  /\ termed' = termed \ {p}
  /\ timewait' \in IF who[p] = "server" /\ server.listens THEN BOOLEAN ELSE {timewait}

(* A process told to terminate does so sooner or later; a server may end   *)
(* on its own, clients and other services come and go.  No number is used  *)
(* again while the script runs.                                            *)
ProcessEnds ==
  \E p \in Pids :
    /\ p \in termed \/ who[p] \in {"server", "deaf", "client", "squatter"}
    /\ Ends(p)
    /\ mishap' = (mishap \/ who[p] = "server")
    /\ UNCHANGED <<server, script>>

Others ==
  \/ /\ step = "idle"
     /\ \E p \in Are({"free"}) :
          \/ Become(p, "client") /\ mishap' = mishap
          \/ Become(p, "stranger") /\ mishap' = mishap
          \/ Listening = {} /\ Become(p, "squatter") /\ mishap' = TRUE
     /\ UNCHANGED <<server, timewait, termed, script>>
  \/ timewait /\ timewait' = FALSE /\ UNCHANGED <<server, who, termed, script, mishap>>

-----------------------------------------------------------------------------
(* By hand: run it when it is not there, kill it. *)
RunByHand ==
  /\ ~server.scripted /\ commands < MaxCommands
  /\ Are({"starting", "server", "deaf"}) = {}
  /\ commands' = commands + 1
  /\ \E p \in Are({"free"}) : Become(p, "starting")
  /\ mishap' = (Are({"squatter"}) # {})
  /\ UNCHANGED <<server, timewait, termed, step, command, PID, polls, said, clean, strangers, pidfile>>

(* server.sh start, stop, restart *)
Command ==
  /\ server.scripted /\ step = "idle" /\ commands < MaxCommands
  /\ command' \in {"start", "stop", "restart"}
  /\ commands' = commands + 1
  /\ step' = IF command' = "start" THEN "start" ELSE "stop"
  /\ said' = "nothing" /\ clean' = FALSE /\ strangers' = {} /\ PID' = {} /\ polls' = 0
  /\ UNCHANGED <<server, system, mishap, pidfile>>

(* lsof -t -i:PORT: everybody with a socket of that port, here or there. *)
Lsof == Are({"server", "squatter", "client"})

(* start: is the port in use?  If not, run the server. *)
Start ==
  /\ step = "start"
  /\ PID' = Lsof
  /\ IF Lsof # {}
     THEN /\ step' = "idle" /\ said' = "in use" /\ UNCHANGED <<who, mishap>>
     ELSE /\ step' = "record" /\ said' = said /\ mishap' = FALSE
          /\ \E p \in Are({"free"}) : Become(p, "starting")
  /\ UNCHANGED <<server, timewait, termed, command, commands, polls, clean, strangers, pidfile>>

(* Half a second later the port shows the process, or it has failed or     *)
(* is slow.                                                                *)
Record ==
  /\ step = "record" /\ step' = "idle"
  /\ PID' = Lsof
  /\ pidfile' = IF Lsof # {} THEN Lsof ELSE pidfile
  /\ said' = IF Lsof # {} THEN "started" ELSE "failed"
  /\ mishap' = (mishap \/ Are({"starting"}) # {})
  /\ UNCHANGED <<server, system, command, commands, polls, clean, strangers>>

(* stop: the port first, the file only if nobody has it. *)
Lookup ==
  /\ step = "stop"
  /\ PID' = IF Lsof # {} THEN Lsof ELSE pidfile
  /\ clean' = ((\E p \in Pids : PID' = {p} /\ who[p] = "server") /\ Are({"starting"}) = {})
  /\ IF PID' = {} THEN /\ said' = "not running" /\ pidfile' = {}
                       /\ step' = IF command = "restart" THEN "start" ELSE "idle"
                  ELSE said' = said /\ pidfile' = pidfile /\ step' = "term"
  /\ UNCHANGED <<server, system, command, commands, polls, strangers, mishap>>

(* "$PID" is one word: kill takes a single number and fails on a list. *)
Target == {p \in Pids : PID = {p} /\ who[p] # "free"}
Strays == strangers' = strangers \cup {p \in Target : who[p] # "server"}

Term ==
  /\ step = "term" /\ step' = "poll"
  /\ termed' = termed \cup Target /\ Strays
  /\ UNCHANGED <<server, who, timewait, command, commands, PID, polls, said, clean, pidfile, mishap>>

(* kill -0 *)
Wait ==
  /\ step = "poll"
  /\ IF Target = {} \/ polls = Polls THEN step' = "kill" /\ polls' = polls
                                     ELSE step' = step /\ polls' = polls + 1
  /\ UNCHANGED <<server, system, command, commands, PID, said, clean, strangers, pidfile, mishap>>

Stopped ==
  /\ step = "kill"
  /\ step' = IF command = "restart" THEN "start" ELSE "idle"
  /\ said' = "stopped" /\ pidfile' = {} /\ Strays
  /\ UNCHANGED <<server, command, commands, PID, polls, clean, mishap>>

(* Slip: it is not killed when it has not gone by then. *)
KillNever == Stopped /\ UNCHANGED system

(* kill -9 what is still there. *)
Kill ==
  /\ Stopped
  /\ \/ \E p \in Target : Ends(p)
     \/ Target = {} /\ UNCHANGED system

Script == Start \/ Record \/ Lookup \/ Term \/ Wait \/ Kill

Next ==
  \/ (\E p \in Pids : SetUp(p)) \/ ProcessEnds \/ Others
  \/ RunByHand \/ Command \/ Script

-----------------------------------------------------------------------------
(* If stop's lookup finds the server and nothing else with the port, and   *)
(* no slow start is under way, no server is left when the script says so   *)
(* and nobody else was signalled.                                          *)
StopStops ==
  clean => strangers = {} /\ (said = "stopped" /\ step = "idle" => Are({"server"}) = {})

(* A start, after a crash or a stop or in a restart, fails only for a      *)
(* mishap: not because the server before it has left its connections in    *)
(* TIME_WAIT.  (The servers 04 to 07, which are not restarted by a script, *)
(* make no such promise.)                                                  *)
RestartServes ==
  said = "failed" /\ step = "idle" => mishap

(* Two servers never share the port; only 11 and 12 run on without it.     *)
OneServer == (\A p, q \in Listening : p = q) /\ (Are({"deaf"}) # {} => ~server.orDie)
=============================================================================
