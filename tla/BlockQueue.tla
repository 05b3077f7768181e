----------------------------- MODULE BlockQueue -----------------------------
(***************************************************************************)
(* BlockQueue<T>: a std::queue of at most _cap items under one mutex with  *)
(* two condition variables.  Each call holds the mutex from its first line *)
(* to its return, except inside pthread_cond_wait, so a call is made of    *)
(* atomic pieces: from taking the mutex to the return or to the next wait. *)
(* A thread is "outside", "waiting" (asleep on its condition variable) or  *)
(* "woken" (signalled, not yet holding the mutex again).                   *)
(***************************************************************************)
EXTENDS Integers, Sequences, CondVar

CONSTANTS Producers,    \* threads that call Enqueue
          Consumers,    \* threads that call Pop
          Values,       \* items
          NoValue,      \* "no item"
          Cap           \* _cap

ASSUME BlockQueueAssumption ==
  /\ Cap \in Nat \ {0}
  /\ IsFiniteSet(Producers)
  /\ IsFiniteSet(Consumers)
  /\ Producers \cap Consumers = {}
  /\ NoValue \notin Values

VARIABLES block_queue,  \* _block_queue
          out,          \* out[c]: what the last Pop of c stored in *out
          in,           \* in[p]: the argument of the Enqueue that p is asleep in
          state         \* where each thread is

vars == <<block_queue, out, in, state>>

Threads == Producers \cup Consumers

(* Slip: one item too many. *)
IsFullLate == Len(block_queue) > Cap
IsFull == Len(block_queue) = Cap
IsEmpty == block_queue = <<>>

Init ==
  /\ block_queue = <<>>
  /\ out = [c \in Consumers |-> NoValue]
  /\ in = [p \in Producers |-> NoValue]
  /\ state = [t \in Threads |-> "outside"]

-----------------------------------------------------------------------------
(* The thread releases the mutex and sleeps; everything else stays. *)
Sleep(t) == state' = [state EXCEPT ![t] = "waiting"]

(* The item goes in, and st is the threads' state afterwards. *)
Store(p, v, st) ==
  /\ block_queue' = Append(block_queue, v)
  /\ state' \in st
  /\ in' = [in EXCEPT ![p] = NoValue]
  /\ UNCHANGED out

(* Slips: the queue is tested with "if"; the signal is sent only when the  *)
(* queue was empty.                                                        *)
EnqueueBodyIf(p, v) ==
  \/ /\ IsFull /\ state[p] = "outside"
     /\ Sleep(p)
     /\ in' = [in EXCEPT ![p] = v]
     /\ UNCHANGED <<block_queue, out>>
  \/ /\ ~IsFull \/ state[p] = "woken"
     /\ Store(p, v, Signalled([state EXCEPT ![p] = "outside"], Consumers))
EnqueueBodyFirst(p, v) ==
  \/ /\ IsFull
     /\ Sleep(p)
     /\ in' = [in EXCEPT ![p] = v]
     /\ UNCHANGED <<block_queue, out>>
  \/ /\ ~IsFull
     /\ LET st == [state EXCEPT ![p] = "outside"]
        IN  Store(p, v, IF IsEmpty THEN Signalled(st, Consumers) ELSE {st})

(* Enqueue(v) of p from the while test on: p sleeps, or stores and returns. *)
EnqueueBody(p, v) ==
  \/ /\ IsFull
     /\ Sleep(p)
     /\ in' = [in EXCEPT ![p] = v]
     /\ UNCHANGED <<block_queue, out>>
  \/ /\ ~IsFull
     /\ Store(p, v, Signalled([state EXCEPT ![p] = "outside"], Consumers))

Enqueue(p) ==
  /\ state[p] = "outside"
  /\ \E v \in Values : EnqueueBody(p, v)

(* pthread_cond_wait returned in Enqueue: the while loop tests again. *)
EnqueueResume(p) ==
  /\ state[p] = "woken"
  /\ EnqueueBody(p, in[p])

(* The front goes out, and st is the threads' state afterwards. *)
Remove(c, st) ==
  /\ out' = [out EXCEPT ![c] = Head(block_queue)]
  /\ block_queue' = Tail(block_queue)
  /\ state' \in st
  /\ UNCHANGED in

(* Slips: the signal is sent only when the queue was full; never. *)
PopBodyFull(c) ==
  \/ /\ IsEmpty
     /\ Sleep(c)
     /\ UNCHANGED <<block_queue, out, in>>
  \/ /\ ~IsEmpty
     /\ LET st == [state EXCEPT ![c] = "outside"]
        IN  Remove(c, IF IsFull THEN Signalled(st, Producers) ELSE {st})
PopBodySilent(c) ==
  \/ /\ IsEmpty
     /\ Sleep(c)
     /\ UNCHANGED <<block_queue, out, in>>
  \/ /\ ~IsEmpty
     /\ Remove(c, {[state EXCEPT ![c] = "outside"]})

(* Pop of c from the while test on: c sleeps, or takes the front. *)
PopBody(c) ==
  \/ /\ IsEmpty
     /\ Sleep(c)
     /\ UNCHANGED <<block_queue, out, in>>
  \/ /\ ~IsEmpty
     /\ Remove(c, Signalled([state EXCEPT ![c] = "outside"], Producers))

Pop(c) == state[c] = "outside" /\ PopBody(c)

PopResume(c) == state[c] = "woken" /\ PopBody(c)

(* pthread_cond_wait may return without any signal. *)
SpuriousWakeup(t) ==
  /\ state[t] = "waiting"
  /\ state' = [state EXCEPT ![t] = "woken"]
  /\ UNCHANGED <<block_queue, out, in>>

ProducerStep(p) == Enqueue(p) \/ EnqueueResume(p)
ConsumerStep(c) == Pop(c) \/ PopResume(c)

Next ==
  \/ \E p \in Producers : ProducerStep(p)
  \/ \E c \in Consumers : ConsumerStep(c)
  \/ \E t \in Threads : SpuriousWakeup(t)

(* The threads of Main.cc call in an endless loop, and a thread that can   *)
(* take the free mutex is scheduled eventually.                            *)
Fairness ==
  /\ \A p \in Producers : WF_vars(ProducerStep(p))
  /\ \A c \in Consumers : WF_vars(ConsumerStep(c))

Spec == Init /\ [][Next]_vars
FairSpec == Spec /\ Fairness

-----------------------------------------------------------------------------
(* The queue never holds more than Cap items, and exactly the producers    *)
(* asleep or just woken inside Enqueue still carry an item to store.       *)
TypeOK ==
  /\ block_queue \in Seq(Values)
  /\ Len(block_queue) <= Cap
  /\ out \in [Consumers -> Values \cup {NoValue}]
  /\ in \in [Producers -> Values \cup {NoValue}]
  /\ state \in [Threads -> {"outside", "waiting", "woken"}]
  /\ \A p \in Producers : in[p] = NoValue <=> state[p] = "outside"

SleepingConsumersCovered ==
  Waiting(state, Consumers) # {} =>
    Len(block_queue) <= Cardinality(Woken(state, Consumers))
SleepingProducersCovered ==
  Waiting(state, Producers) # {} =>
    Cap - Len(block_queue) <= Cardinality(Woken(state, Producers))

(* No wake-up is lost, whichever sleeper a signal picks: while some        *)
(* consumer sleeps every item in the queue has a woken consumer on its way *)
(* to it, while some producer sleeps every free place a woken producer.    *)
NoLostWakeup == SleepingConsumersCovered /\ SleepingProducersCovered

(* Every Enqueue stores its own argument once, below the capacity, and     *)
(* every Pop receives the oldest item, whoever was woken in between.       *)
Fifo == INSTANCE BoundedFifo WITH queue <- block_queue
ImplementsFifo == Fifo!Spec

(* Items keep moving through the queue for ever: producers and consumers   *)
(* are never all asleep waiting for one another.                           *)
KeepsMoving == []<><<block_queue' # block_queue>>_vars
=============================================================================
