--------------------------- MODULE ThreadPrograms ---------------------------
(***************************************************************************)
(* The thread programs, the logger, the keyboard programs and the          *)
(* deployment of the servers, one at a time: part says which one runs, the *)
(* variables that only the others have are Unused.                         *)
(***************************************************************************)
EXTENDS Integers, Sequences, FiniteSets

CONSTANTS Sellers, Total, Threads, Signals, Writers, Records, Keys, ReadMax,
          MaxCalls, Pids, Polls, MaxCommands, Nobody, Unused

VARIABLES
  part,        \* "sale", "demo", "log", "keys", "handle" or "service"
  mutex, at,                                       \* of the first three, at of keys too
  lock, ticket, loaded, sold,                      \* sale
  demo, main, left, late,                          \* demo
  strategy, done, out, failed,                     \* log
  program, typed, input, eof, edge, printed,       \* keys
  _isrunning, _isdetach, owner, calls, thread, detached, reclaimed, cancelled,
  joinedDead, everStopped, everDetached,           \* handle
  server, who, timewait, termed, pidfile, step, command, commands, PID, polls,
  said, clean, strangers, mishap                   \* service

Sale    == INSTANCE Tickets
Demo    == INSTANCE CondDemo
Log     == INSTANCE Logger
Typing  == INSTANCE Keyboard
Handle  == INSTANCE ThreadHandle
Service == INSTANCE Deployment

ASSUME ThreadProgramsAssumption ==
  /\ Sale!TicketsAssumption /\ Demo!CondDemoAssumption /\ Log!LoggerAssumption
  /\ Typing!KeyboardAssumption /\ Handle!ThreadHandleAssumption /\ Service!DeploymentAssumption
-----------------------------------------------------------------------------
ofSale == <<lock, ticket, loaded, sold>>
ofDemo == <<demo, main, left, late>>
ofLog  == <<strategy, done, out, failed>>
ofKeys == <<program, typed, input, eof, edge, printed>>
ofHandle ==
  <<_isrunning, _isdetach, owner, calls, thread, detached, reclaimed, cancelled,
    joinedDead, everStopped, everDetached>>
ofService ==
  <<server, who, timewait, termed, pidfile, step, command, commands, PID, polls,
    said, clean, strangers, mishap>>
shared == <<mutex, at>>

all == <<part, shared, ofSale, ofDemo, ofLog, ofKeys, ofHandle, ofService>>

(* What stays when a part takes a step. *)
notSale    == <<part, ofDemo, ofLog, ofKeys, ofHandle, ofService>>
notDemo    == <<part, ofSale, ofLog, ofKeys, ofHandle, ofService>>
notLog     == <<part, ofSale, ofDemo, ofKeys, ofHandle, ofService>>
notKeys    == <<part, mutex, ofSale, ofDemo, ofLog, ofHandle, ofService>>
notHandle  == <<part, shared, ofSale, ofDemo, ofLog, ofKeys, ofService>>
notService == <<part, shared, ofSale, ofDemo, ofLog, ofKeys, ofHandle>>

Off(v) == v = Unused
NoSale == Off(lock) /\ Off(ticket) /\ Off(loaded) /\ Off(sold)
NoDemo == Off(demo) /\ Off(main) /\ Off(left) /\ Off(late)
NoLog  == Off(strategy) /\ Off(done) /\ Off(out) /\ Off(failed)
NoKeys == Off(program) /\ Off(typed) /\ Off(input) /\ Off(eof) /\ Off(edge) /\ Off(printed)
NoHandle ==
  /\ Off(_isrunning) /\ Off(_isdetach) /\ Off(owner) /\ Off(calls) /\ Off(thread)
  /\ Off(detached) /\ Off(reclaimed) /\ Off(cancelled)
  /\ Off(joinedDead) /\ Off(everStopped) /\ Off(everDetached)
NoService ==
  /\ Off(server) /\ Off(who) /\ Off(timewait) /\ Off(termed) /\ Off(pidfile)
  /\ Off(step) /\ Off(command) /\ Off(commands) /\ Off(PID) /\ Off(polls)
  /\ Off(said) /\ Off(clean) /\ Off(strangers) /\ Off(mishap)

Init ==
  \/ part = "sale" /\ Sale!Init /\ NoDemo /\ NoLog /\ NoKeys /\ NoHandle /\ NoService
  \/ part = "demo" /\ Demo!Init /\ NoSale /\ NoLog /\ NoKeys /\ NoHandle /\ NoService
  \/ part = "log" /\ Log!Init /\ NoSale /\ NoDemo /\ NoKeys /\ NoHandle /\ NoService
  \/ /\ part = "keys" /\ Typing!Init /\ Off(mutex)
     /\ NoSale /\ NoDemo /\ NoLog /\ NoHandle /\ NoService
  \/ /\ part = "handle" /\ Handle!Init /\ Off(mutex) /\ Off(at)
     /\ NoSale /\ NoDemo /\ NoLog /\ NoKeys /\ NoService
  \/ /\ part = "service" /\ Service!Init /\ Off(mutex) /\ Off(at)
     /\ NoSale /\ NoDemo /\ NoLog /\ NoKeys /\ NoHandle

(* The steps, by whose they are: a thread's, main's or the one thread's    *)
(* that matters, and what need not happen.                                 *)
Thread(t) ==
  \/ part = "sale" /\ t \in Sellers /\ Sale!Seller(t) /\ UNCHANGED notSale
  \/ part = "demo" /\ t \in Threads /\ Demo!Thread(t) /\ UNCHANGED notDemo
  \/ part = "log" /\ t \in Writers /\ Log!Writer(t) /\ UNCHANGED notLog

Main ==
  \/ part = "demo" /\ Demo!Main /\ UNCHANGED notDemo
  \/ part = "keys" /\ Typing!Program /\ UNCHANGED notKeys
  \/ part = "handle" /\ Handle!Owner /\ UNCHANGED notHandle

Routine == part = "handle" /\ Handle!Routine /\ UNCHANGED notHandle

Others ==
  \/ part = "demo" /\ (\E t \in Threads : Demo!Spurious(t)) /\ UNCHANGED notDemo
  \/ part = "log" /\ Log!Switch /\ UNCHANGED notLog
  \/ part = "keys" /\ (Typing!Type \/ Typing!End) /\ UNCHANGED notKeys
  \/ part = "service" /\ Service!Next /\ UNCHANGED notService

AllThreads == Sellers \cup Threads \cup Writers
Next == Main \/ Routine \/ Others \/ \E t \in AllThreads : Thread(t)

(* Threads are scheduled. *)
Spec ==
  /\ Init /\ [][Next]_all
  /\ WF_all(Main) /\ WF_all(Routine) /\ \A t \in AllThreads : WF_all(Thread(t))
-----------------------------------------------------------------------------
(* The properties of the parts: what each says is told in its module.      *)

(* 01 and 03 to 04: no ticket is sold twice or left.                       *)
TicketsSold == part = "sale" => Sale!TicketsSold

(* 02: no call names a thread that is gone, and none is left behind.       *)
HandleSafe == part = "handle" => Handle!HandleSafe

(* The loggers: one record, one line; 10 and 13: what is typed is printed, *)
(* and no event is missed.                                                 *)
OutputWhole ==
  /\ part = "log" => Log!LinesWhole
  /\ part = "keys" => Typing!TypedPrinted

(* server.sh and the servers' set-up: stop stops, restart restarts, and    *)
(* one server has the port.                                                *)
ServiceRuns == part = "service" => Service!StopStops /\ Service!RestartServes /\ Service!OneServer

(* Sellers, main of the condition demos, its waiters, the owner of a       *)
(* thread and the keyboard programs all come to their end.                 *)
Ended ==
  CASE part = "sale" -> Sale!Ended
    [] part = "demo" -> Demo!Ended
    [] part = "keys" -> Typing!Ended
    [] part = "handle" -> Handle!Ended
    [] OTHER -> TRUE
EverybodyEnds == <>[]Ended
=============================================================================
