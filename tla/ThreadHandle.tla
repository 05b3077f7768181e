---------------------------- MODULE ThreadHandle ----------------------------
(***************************************************************************)
(* The Thread wrapper on its own (02_Thread): one object, the thread that  *)
(* owns it and the thread it starts, which share its flags without a lock. *)
(* The owner calls Start, Detach, Stop and Join in any order and destroys  *)
(* the object at the end.                                                  *)
(***************************************************************************)
EXTENDS Integers

CONSTANT MaxCalls      \* bound: calls of the owner

ThreadHandleAssumption == MaxCalls \in Nat

VARIABLES
  _isrunning, _isdetach,
  owner,       \* the owner's call, between its test and what follows:
               \* "free", "mark", "detach", "stop", "join", "destroy", "gone"
  calls,
  thread,      \* "none", "entry", "run", "flag", "over"
  detached,    \* the system thread is detached
  reclaimed,   \* and it has been joined, or has ended detached
  cancelled,
  joinedDead,  \* ghost: a call has named a thread that was reclaimed
  everStopped, everDetached

vars == <<_isrunning, _isdetach, owner, calls, thread, detached, reclaimed,
          cancelled, joinedDead, everStopped, everDetached>>

Init ==
  /\ _isrunning = FALSE /\ _isdetach = FALSE
  /\ owner = "free" /\ calls = 0
  /\ thread = "none" /\ detached = FALSE /\ reclaimed = FALSE /\ cancelled = FALSE
  /\ joinedDead = FALSE /\ everStopped = FALSE /\ everDetached = FALSE

system == <<thread, detached, reclaimed, cancelled>>
ghosts == <<joinedDead, everStopped, everDetached>>

(* The owner's next call. *)
Call == owner = "free" /\ calls < MaxCalls /\ calls' = calls + 1

(* pthread_create overwrites the handle: a thread that has ended and was   *)
(* not joined is forgotten.  A Start while a cancelled thread is still     *)
(* about to end would be a thread more, which this model does not follow.  *)
Start ==
  /\ Call
  /\ \/ _isrunning /\ UNCHANGED <<owner, system>>
     \/ /\ ~_isrunning /\ thread \in {"none", "flag", "over"}
        /\ \/ /\ owner' = "mark" /\ thread' = "entry"
              /\ detached' = FALSE /\ reclaimed' = FALSE /\ cancelled' = FALSE
           \/ owner' = "free" /\ UNCHANGED system
  /\ UNCHANGED <<_isrunning, _isdetach, ghosts>>

(* Start's last assignment comes after the thread has begun, or ended. *)
StartMark ==
  /\ owner = "mark" /\ owner' = "free"
  /\ _isrunning' = TRUE
  /\ UNCHANGED <<_isdetach, calls, system, ghosts>>

Detach ==
  /\ Call
  /\ IF _isdetach THEN UNCHANGED <<owner, _isdetach>>
     ELSE IF _isrunning THEN owner' = "detach" /\ _isdetach' = _isdetach
     ELSE owner' = owner /\ _isdetach' = TRUE
  /\ everDetached' = TRUE
  /\ UNCHANGED <<_isrunning, system, joinedDead, everStopped>>

DetachSystem ==
  /\ owner = "detach" /\ owner' = "free"
  /\ joinedDead' = (joinedDead \/ reclaimed)
  /\ detached' = TRUE /\ _isdetach' = TRUE
  /\ reclaimed' = (reclaimed \/ thread = "over")
  /\ UNCHANGED <<_isrunning, calls, thread, cancelled, everStopped, everDetached>>

(* Join, called or from the destructor: the test, and pthread_join. *)
Skips == _isdetach \/ ~_isrunning
Join ==
  /\ Call
  /\ owner' = IF Skips THEN "free" ELSE "join"
  /\ UNCHANGED <<_isrunning, _isdetach, system, ghosts>>

(* Slip: the flag is not cleared, so that Join may come twice. *)
JoinSystemKeeps ==
  /\ owner \in {"join", "destroy"} /\ thread = "over"
  /\ owner' = IF owner = "join" THEN "free" ELSE "gone"
  /\ joinedDead' = (joinedDead \/ reclaimed)
  /\ reclaimed' = TRUE
  /\ UNCHANGED <<_isrunning, _isdetach, calls, thread, detached, cancelled, everStopped, everDetached>>

JoinSystem ==
  /\ owner \in {"join", "destroy"} /\ thread = "over"
  /\ owner' = IF owner = "join" THEN "free" ELSE "gone"
  /\ joinedDead' = (joinedDead \/ reclaimed)
  /\ reclaimed' = TRUE /\ _isrunning' = FALSE
  /\ UNCHANGED <<_isdetach, calls, thread, detached, cancelled, everStopped, everDetached>>

Stop ==
  /\ Call
  /\ owner' = IF _isrunning THEN "stop" ELSE "free"
  /\ UNCHANGED <<_isrunning, _isdetach, system, ghosts>>

(* pthread_cancel may fail when the thread has ended already. *)
StopSystem ==
  /\ owner = "stop" /\ owner' = "free"
  /\ joinedDead' = (joinedDead \/ reclaimed)
  /\ \/ cancelled' = TRUE /\ _isrunning' = FALSE /\ everStopped' = TRUE
     \/ thread = "over" /\ UNCHANGED <<cancelled, _isrunning, everStopped>>
  /\ UNCHANGED <<_isdetach, calls, thread, detached, reclaimed, everDetached>>

(* The destructor. *)
Destroy ==
  /\ owner = "free" /\ calls = MaxCalls
  /\ owner' = IF Skips THEN "gone" ELSE "destroy"
  /\ UNCHANGED <<_isrunning, _isdetach, calls, system, ghosts>>

Owner ==
  \/ Start \/ StartMark \/ Detach \/ DetachSystem \/ Join \/ JoinSystem
  \/ Stop \/ StopSystem \/ Destroy

(* Routine: detaches itself, runs _func, clears the flag, returns; or is   *)
(* cancelled on the way.                                                   *)
RoutineEntry ==
  /\ thread = "entry" /\ thread' = "run"
  /\ detached' = (detached \/ _isdetach)
  /\ UNCHANGED <<_isrunning, _isdetach, owner, calls, reclaimed, cancelled, ghosts>>

RoutineFlag ==
  /\ thread = "run" /\ thread' = "flag"
  /\ _isrunning' = FALSE
  /\ UNCHANGED <<_isdetach, owner, calls, detached, reclaimed, cancelled, ghosts>>

RoutineReturn ==
  /\ thread = "flag" \/ (cancelled /\ thread \in {"entry", "run"})
  /\ thread' = "over"
  /\ reclaimed' = detached
  /\ UNCHANGED <<_isrunning, _isdetach, owner, calls, detached, cancelled, ghosts>>

Routine == RoutineEntry \/ RoutineFlag \/ RoutineReturn

Next == Owner \/ Routine

Fairness == WF_vars(Owner) /\ WF_vars(Routine)

-----------------------------------------------------------------------------
(* As long as nobody calls Detach no call names a thread that is gone, and *)
(* the object is not destroyed under its thread unless Stop was called,    *)
(* after which Join and the destructor wait for nothing.                   *)
HandleSafe ==
  /\ ~everDetached => ~joinedDead
  /\ owner = "gone" /\ ~everDetached /\ ~everStopped => thread \in {"none", "flag", "over"}

(* Whatever the owner calls, and whenever the thread sets its flag, no     *)
(* Join and no destructor waits for ever.                                  *)
Ended == owner = "gone"
OwnerEnds == <>[]Ended
=============================================================================
