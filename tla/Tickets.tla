------------------------------- MODULE Tickets ------------------------------
(***************************************************************************)
(* Sellers that share a counter of tickets: without a lock (01_Test and    *)
(* 02_ticket_unsafe), between lock and unlock (03_ticket_mutex), and in    *)
(* the scope of a LockGuard (04_mutex_guard).                              *)
(***************************************************************************)
EXTENDS Integers, Sequences, FiniteSets

CONSTANTS Sellers, Total, Nobody

TicketsAssumption ==
  IsFiniteSet(Sellers) /\ Sellers # {} /\ Total \in Nat \ {0} /\ Nobody \notin Sellers

VARIABLES
  lock,        \* "none", "mutex" or "guard"
  ticket,
  mutex,       \* who holds the mutex
  at,          \* "enter", "test", "sell", "load", "store", "leave" or "done"
  loaded,      \* what ticket-- has read
  sold         \* the numbers printed, in order

vars == <<lock, ticket, mutex, at, loaded, sold>>

Init ==
  /\ lock \in {"none", "mutex", "guard"}
  /\ ticket = Total /\ mutex = Nobody
  /\ at = [s \in Sellers |-> "enter"]
  /\ loaded = [s \in Sellers |-> 0]
  /\ sold = <<>>

(* pthread_mutex_lock, LockGuard's constructor; 02 has neither. *)
Enter(s) ==
  /\ at[s] = "enter"
  /\ IF lock = "none" THEN mutex' = mutex ELSE mutex = Nobody /\ mutex' = s
  /\ at' = [at EXCEPT ![s] = "test"]
  /\ UNCHANGED <<lock, ticket, loaded, sold>>

(* if(ticket > 0) *)
TestUnsafe(s) ==
  /\ at[s] = "test" /\ lock = "none"
  /\ at' = [at EXCEPT ![s] = IF ticket > 0 THEN "sell" ELSE "done"]
  /\ UNCHANGED <<lock, ticket, mutex, loaded, sold>>

(* Slip: unlocked before the ticket is taken. *)
TestMutexUnlocks(s) ==
  /\ at[s] = "test" /\ lock = "mutex"
  /\ at' = [at EXCEPT ![s] = IF ticket > 0 THEN "sell" ELSE "done"]
  /\ mutex' = Nobody
  /\ UNCHANGED <<lock, ticket, loaded, sold>>

(* Both branches unlock, this one before it breaks. *)
TestMutex(s) ==
  /\ at[s] = "test" /\ lock = "mutex"
  /\ at' = [at EXCEPT ![s] = IF ticket > 0 THEN "sell" ELSE "done"]
  /\ mutex' = IF ticket > 0 THEN mutex ELSE Nobody
  /\ UNCHANGED <<lock, ticket, loaded, sold>>

(* Slip: nothing destroys the guard on break. *)
TestGuardKeeps(s) ==
  /\ at[s] = "test" /\ lock = "guard"
  /\ at' = [at EXCEPT ![s] = IF ticket > 0 THEN "sell" ELSE "done"]
  /\ UNCHANGED <<lock, ticket, mutex, loaded, sold>>

(* break leaves the guard's scope. *)
TestGuard(s) ==
  /\ at[s] = "test" /\ lock = "guard"
  /\ at' = [at EXCEPT ![s] = IF ticket > 0 THEN "sell" ELSE "done"]
  /\ mutex' = IF ticket > 0 THEN mutex ELSE Nobody
  /\ UNCHANGED <<lock, ticket, loaded, sold>>

(* The number is printed; ticket-- is a load and a store. *)
Sell(s) ==
  /\ at[s] = "sell"
  /\ sold' = Append(sold, ticket)
  /\ at' = [at EXCEPT ![s] = "load"]
  /\ UNCHANGED <<lock, ticket, mutex, loaded>>

Load(s) ==
  /\ at[s] = "load"
  /\ loaded' = [loaded EXCEPT ![s] = ticket]
  /\ at' = [at EXCEPT ![s] = "store"]
  /\ UNCHANGED <<lock, ticket, mutex, sold>>

Store(s) ==
  /\ at[s] = "store"
  /\ ticket' = loaded[s] - 1
  /\ at' = [at EXCEPT ![s] = "leave"]
  /\ UNCHANGED <<lock, mutex, loaded, sold>>

(* unlock, or ~LockGuard. *)
Leave(s) ==
  /\ at[s] = "leave"
  /\ mutex' = IF mutex = s THEN Nobody ELSE mutex
  /\ at' = [at EXCEPT ![s] = "enter"]
  /\ UNCHANGED <<lock, ticket, loaded, sold>>

Seller(s) ==
  \/ Enter(s) \/ TestUnsafe(s) \/ TestMutex(s) \/ TestGuard(s)
  \/ Sell(s) \/ Load(s) \/ Store(s) \/ Leave(s)

(* main's joins return. *)
Joined == (\A s \in Sellers : at[s] = "done") /\ UNCHANGED vars

Next == Joined \/ \E s \in Sellers : Seller(s)

Fairness == \A s \in Sellers : WF_vars(Seller(s))

-----------------------------------------------------------------------------
(* With the lock every ticket is sold once, in order, and none is left     *)
(* when a seller stops.                                                    *)
TicketsSold ==
  lock # "none" =>
    /\ \A i \in DOMAIN sold : sold[i] = Total + 1 - i
    /\ mutex = Nobody => ticket = Total - Len(sold)
    /\ \A s \in Sellers : at[s] = "done" => Len(sold) = Total

(* Every seller comes to an end: nobody keeps the mutex, and without it    *)
(* the stores of stale values cannot feed each other for ever.             *)
Ended == \A s \in Sellers : at[s] = "done"
SellersEnd == <>[]Ended
=============================================================================
