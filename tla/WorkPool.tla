------------------------------ MODULE WorkPool ------------------------------
(***************************************************************************)
(* What ThreadPool promises the threads that submit work: a pool opens     *)
(* once and closes once; a task is accepted only while it is open and      *)
(* there is room, and turned away only while it is not open; accepted      *)
(* tasks begin in the order of acceptance, each exactly once, also those   *)
(* still queued when the pool closed.                                      *)
(***************************************************************************)
EXTENDS Naturals, Sequences

CONSTANTS Tasks, Cap

VARIABLES phase,        \* "before", "open" or "after"
          queue,        \* accepted tasks that have not begun, oldest first
          status        \* what became of each task

vars == <<phase, queue, status>>

Init ==
  /\ phase = "before"
  /\ queue = <<>>
  /\ status = [t \in Tasks |-> "new"]

Open ==
  /\ phase = "before"
  /\ phase' = "open"
  /\ UNCHANGED <<queue, status>>

Close ==
  /\ phase = "open"
  /\ phase' = "after"
  /\ UNCHANGED <<queue, status>>

Accept(t) ==
  /\ phase = "open"
  /\ status[t] = "new"
  /\ Len(queue) < Cap
  /\ queue' = Append(queue, t)
  /\ status' = [status EXCEPT ![t] = "queued"]
  /\ UNCHANGED phase

Reject(t) ==
  /\ phase # "open"
  /\ status[t] = "new"
  /\ status' = [status EXCEPT ![t] = "rejected"]
  /\ UNCHANGED <<phase, queue>>

Begin ==
  /\ queue # <<>>
  /\ queue' = Tail(queue)
  /\ status' = [status EXCEPT ![Head(queue)] = "running"]
  /\ UNCHANGED phase

Finish(t) ==
  /\ status[t] = "running"
  /\ status' = [status EXCEPT ![t] = "done"]
  /\ UNCHANGED <<phase, queue>>

Next ==
  \/ Open
  \/ Close
  \/ Begin
  \/ \E t \in Tasks : Accept(t) \/ Reject(t) \/ Finish(t)

Spec == Init /\ [][Next]_vars
=============================================================================
