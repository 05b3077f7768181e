------------------------------ MODULE CondDemo ------------------------------
(***************************************************************************)
(* The condition-variable programs (05_cond_api): threads that wait        *)
(* without a condition to test.  In 01_cond_base they wait for ever and    *)
(* again and main signals Signals times; in 02_cond_broadcast each waits   *)
(* once, main broadcasts once and joins them.                              *)
(***************************************************************************)
EXTENDS Integers, CondVar

CONSTANTS Threads, Signals, Nobody

CondDemoAssumption == Signals \in Nat /\ Nobody \notin Threads

VARIABLES
  demo,        \* "signal" or "broadcast"
  mutex,       \* who holds the mutex
  at,          \* each thread: "start", "about", "waiting", "woken", "work", "done"
  main,        \* "sleep", "send", "join" or "returned"
  left,        \* signals still to be sent
  late         \* ghost: threads that began to wait after the broadcast

vars == <<demo, mutex, at, main, left, late>>

Init ==
  /\ demo \in {"signal", "broadcast"}
  /\ mutex = Nobody
  /\ at = [t \in Threads |-> "start"]
  /\ main = "sleep"
  /\ left = IF demo = "signal" THEN Signals ELSE 1
  /\ late = {}

Alive == main # "returned"
Go(t, place) == at' = [at EXCEPT ![t] = place]

Lock(t) ==
  /\ Alive /\ at[t] = "start" /\ mutex = Nobody
  /\ mutex' = t /\ Go(t, "about")
  /\ UNCHANGED <<demo, main, left, late>>

(* pthread_cond_wait gives the mutex up and waits. *)
Wait(t) ==
  /\ Alive /\ at[t] = "about"
  /\ mutex' = Nobody /\ Go(t, "waiting")
  /\ late' = IF left = 0 THEN late \cup {t} ELSE late
  /\ UNCHANGED <<demo, main, left>>

Spurious(t) ==
  /\ Alive /\ at[t] = "waiting" /\ Go(t, "woken")
  /\ UNCHANGED <<demo, mutex, main, left, late>>

(* It has the mutex again. *)
Resume(t) ==
  /\ Alive /\ at[t] = "woken" /\ mutex = Nobody
  /\ mutex' = t /\ Go(t, "work")
  /\ UNCHANGED <<demo, main, left, late>>

(* Slip: the mutex is not given back. *)
UnlockForgets(t) ==
  /\ Alive /\ at[t] = "work"
  /\ mutex' = mutex /\ Go(t, IF demo = "signal" THEN "start" ELSE "done")
  /\ UNCHANGED <<demo, main, left, late>>

Unlock(t) ==
  /\ Alive /\ at[t] = "work"
  /\ mutex' = Nobody /\ Go(t, IF demo = "signal" THEN "start" ELSE "done")
  /\ UNCHANGED <<demo, main, left, late>>

Thread(t) == Lock(t) \/ Wait(t) \/ Resume(t) \/ Unlock(t)

(* sleep() orders nothing: any thread may be anywhere when it ends. *)
Slept ==
  /\ main = "sleep" /\ main' = "send"
  /\ UNCHANGED <<demo, mutex, at, left, late>>

(* main holds no mutex when it signals. *)
Signal ==
  /\ demo = "signal" /\ main = "send" /\ left > 0
  /\ left' = left - 1
  /\ at' \in Signalled(at, Threads)
  /\ UNCHANGED <<demo, mutex, main, late>>

NotifyAll ==
  /\ demo = "broadcast" /\ main = "send" /\ left > 0
  /\ left' = 0
  /\ at' = Broadcast(at, Threads)
  /\ main' = "join"
  /\ UNCHANGED <<demo, mutex, late>>

(* 01 detaches its threads and returns; 02 joins them. *)
Return ==
  /\ \/ demo = "signal" /\ main = "send" /\ left = 0
     \/ main = "join" /\ \A t \in Threads : at[t] = "done"
  /\ main' = "returned"
  /\ UNCHANGED <<demo, mutex, at, left, late>>

Main == Slept \/ Signal \/ NotifyAll \/ Return

Next == Main \/ \E t \in Threads : Thread(t) \/ Spurious(t)

Fairness == WF_vars(Main) /\ \A t \in Threads : WF_vars(Thread(t))

-----------------------------------------------------------------------------
(* main returns, unless a thread came to wait after the one broadcast:     *)
(* then it sleeps, and main with it, for ever, and nobody that waited in   *)
(* time does.                                                              *)
Ended ==
  \/ main = "returned"
  \/ /\ \E t \in late : at[t] = "waiting"
     /\ \A t \in Threads : at[t] = "done" \/ (t \in late /\ at[t] = "waiting")
MainReturns == <>[]Ended
=============================================================================
