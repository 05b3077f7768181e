------------------------------ MODULE CondVar ------------------------------
(***************************************************************************)
(* Condition variables as the monitors of this repository use them.  A     *)
(* function st tells where each thread is; "waiting" is asleep inside      *)
(* pthread_cond_wait, "woken" is signalled and about to take the mutex     *)
(* again.  S is the set of threads that use one condition variable.        *)
(***************************************************************************)
EXTENDS Naturals, FiniteSets

Waiting(st, S) == {t \in S : st[t] = "waiting"}
Woken(st, S) == {t \in S : st[t] = "woken"}

(* pthread_cond_signal: one of the sleepers, whichever, is woken; nobody   *)
(* if nobody sleeps.  The set of possible results.                         *)
Signalled(st, S) ==
  IF Waiting(st, S) = {} THEN {st}
  ELSE {[st EXCEPT ![t] = "woken"] : t \in Waiting(st, S)}

(* pthread_cond_broadcast: every sleeper is woken. *)
Broadcast(st, S) ==
  [t \in DOMAIN st |-> IF t \in Waiting(st, S) THEN "woken" ELSE st[t]]
=============================================================================
