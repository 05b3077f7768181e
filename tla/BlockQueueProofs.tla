-------------------------- MODULE BlockQueueProofs --------------------------
(***************************************************************************)
(* For any number of threads and any capacity: the block queue never loses *)
(* a wake-up, never exceeds its capacity, and implements the bounded FIFO. *)
(***************************************************************************)
EXTENDS BlockQueue, Lemmas, SequenceTheorems

States == {"outside", "waiting", "woken"}

(* The two covering facts are inductive together with the types. *)
IInv == TypeOK /\ SleepingConsumersCovered /\ SleepingProducersCovered

USE BlockQueueAssumption DEF Threads

(* The state in which every call begins. *)
LEMMA InitInv == Init => IInv
  <1> SUFFICES ASSUME Init PROVE IInv
    OBVIOUS
  <1>1. TypeOK
    BY DEF Init, TypeOK
  <1>2. Waiting(state, Consumers) = {} /\ Waiting(state, Producers) = {}
    BY DEF Init, Waiting
  <1> QED
    BY <1>1, <1>2 DEF IInv, SleepingConsumersCovered, SleepingProducersCovered

(* What is woken can be counted. *)
LEMMA Counts ==
  ASSUME NEW st
  PROVE  /\ Cardinality(Woken(st, Producers)) \in Nat
         /\ Cardinality(Woken(st, Consumers)) \in Nat
  BY WokenFinite

(* An Enqueue, started or resumed, preserves the invariant. *)
LEMMA EnqueueInv ==
  ASSUME IInv, NEW p \in Producers, NEW v \in Values,
         state[p] \in {"outside", "woken"}, EnqueueBody(p, v)
  PROVE  IInv'
  <1> USE DEF IInv
  <1>0. /\ TypeOK
        /\ Len(block_queue) \in Nat
        /\ p \notin Consumers
    BY DEF TypeOK
  <1>1. CASE IsFull /\ Sleep(p) /\ in' = [in EXCEPT ![p] = v]
             /\ UNCHANGED <<block_queue, out>>
    <2>1. TypeOK'
      BY <1>0, <1>1 DEF TypeOK, Sleep
    <2>2. \A u \in Threads \ {p} : state'[u] = state[u]
      BY <1>0, <1>1 DEF TypeOK, Sleep
    <2>3. SleepingConsumersCovered'
      BY <1>0, <1>1, <2>2, MoveOther DEF SleepingConsumersCovered
    <2>4. SleepingProducersCovered'
      BY <1>0, <1>1, Counts DEF SleepingProducersCovered, IsFull
    <2> QED
      BY <2>1, <2>3, <2>4
  <1>2. CASE ~IsFull /\ block_queue' = Append(block_queue, v)
             /\ state' \in Signalled([state EXCEPT ![p] = "outside"], Consumers)
             /\ in' = [in EXCEPT ![p] = NoValue] /\ UNCHANGED out
    <2> DEFINE st == [state EXCEPT ![p] = "outside"]
    <2>1. /\ st \in [Threads -> States]
          /\ st[p] = "outside" /\ \A u \in Threads \ {p} : st[u] = state[u]
          /\ state' \in Signalled(st, Consumers)
          /\ "woken" \in States /\ Consumers \in SUBSET Threads
      BY <1>0, <1>2 DEF TypeOK, States
    <2> HIDE DEF st
    <2>2. /\ state' \in [Threads -> States]
          /\ \A u \in Threads :
               state'[u] = st[u] \/ (u \in Consumers /\ st[u] = "waiting"
                                                     /\ state'[u] = "woken")
          /\ Waiting(st, Consumers) = {} => state' = st
          /\ Waiting(st, Consumers) # {} =>
               Cardinality(Woken(state', Consumers)) =
                 Cardinality(Woken(st, Consumers)) + 1
      <3> HIDE DEF Threads
      <3> QED
        BY <2>1, SignalOne
    <2>3. /\ state'[p] = "outside"
          /\ \A u \in Producers \ {p} : state'[u] = state[u]
          /\ \A u \in Consumers : st[u] = state[u]
      <3>1. \A u \in Producers : state'[u] = st[u]
        BY <2>2
      <3> QED
        BY <1>0, <2>1, <3>1
    <2>4. Len(block_queue') = Len(block_queue) + 1 /\ Len(block_queue) < Cap
      BY <1>0, <1>2 DEF TypeOK, IsFull
    <2>5. TypeOK'
      <3>1. block_queue' \in Seq(Values) /\ Len(block_queue') <= Cap
        BY <1>0, <1>2, <2>4 DEF TypeOK
      <3>2. \A u \in Producers : in'[u] = NoValue <=> state'[u] = "outside"
        BY <1>0, <1>2, <2>3 DEF TypeOK
      <3> QED
        BY <1>0, <1>2, <2>2, <3>1, <3>2 DEF TypeOK, States
    <2>6. SleepingConsumersCovered'
      <3> SUFFICES ASSUME Waiting(state', Consumers) # {}
                   PROVE  Len(block_queue') <= Cardinality(Woken(state', Consumers))
        BY DEF SleepingConsumersCovered
      <3>1. Waiting(st, Consumers) # {}
        BY <2>2 DEF Waiting
      <3>2. Woken(st, Consumers) = Woken(state, Consumers)
            /\ Waiting(st, Consumers) = Waiting(state, Consumers)
        BY <2>3, MoveOther
      <3>3. Len(block_queue) <= Cardinality(Woken(state, Consumers))
        BY <3>1, <3>2 DEF SleepingConsumersCovered
      <3>4. Cardinality(Woken(state', Consumers)) =
              Cardinality(Woken(state, Consumers)) + 1
        BY <2>2, <3>1, <3>2
      <3> QED
        BY <1>0, <2>4, <3>3, <3>4, Counts
    <2>7. SleepingProducersCovered'
      <3> SUFFICES ASSUME Waiting(state', Producers) # {}
                   PROVE  Cap - Len(block_queue')
                            <= Cardinality(Woken(state', Producers))
        BY DEF SleepingProducersCovered
      <3>1. Waiting(state, Producers) # {}
        BY <2>3 DEF Waiting
      <3>2. \/ Cardinality(Woken(state', Producers)) =
                 Cardinality(Woken(state, Producers))
            \/ Cardinality(Woken(state', Producers)) =
                 Cardinality(Woken(state, Producers)) - 1
        BY <2>3, MoveOne
      <3> QED
        BY <1>0, <2>4, <3>1, <3>2, Counts DEF SleepingProducersCovered
    <2> QED
      BY <2>5, <2>6, <2>7
  <1> QED
    BY <1>1, <1>2 DEF EnqueueBody, Store

(* A Pop, started or resumed, preserves the invariant. *)
LEMMA PopInv ==
  ASSUME IInv, NEW c \in Consumers,
         state[c] \in {"outside", "woken"}, PopBody(c)
  PROVE  IInv'
  <1> USE DEF IInv
  <1>0. /\ TypeOK
        /\ Len(block_queue) \in Nat
        /\ c \notin Producers
    BY DEF TypeOK
  <1>1. CASE IsEmpty /\ Sleep(c) /\ UNCHANGED <<block_queue, out, in>>
    <2>1. TypeOK'
      BY <1>0, <1>1 DEF TypeOK, Sleep
    <2>2. \A u \in Threads \ {c} : state'[u] = state[u]
      BY <1>0, <1>1 DEF TypeOK, Sleep
    <2>3. SleepingProducersCovered'
      BY <1>0, <1>1, <2>2, MoveOther DEF SleepingProducersCovered
    <2>4. Len(block_queue') = 0
      BY <1>1 DEF IsEmpty
    <2>5. SleepingConsumersCovered'
      BY <2>4, Counts DEF SleepingConsumersCovered
    <2> QED
      BY <2>1, <2>3, <2>5
  <1>2. CASE ~IsEmpty /\ out' = [out EXCEPT ![c] = Head(block_queue)]
             /\ block_queue' = Tail(block_queue)
             /\ state' \in Signalled([state EXCEPT ![c] = "outside"], Producers)
             /\ UNCHANGED in
    <2> DEFINE st == [state EXCEPT ![c] = "outside"]
    <2>1. /\ st \in [Threads -> States]
          /\ st[c] = "outside" /\ \A u \in Threads \ {c} : st[u] = state[u]
          /\ state' \in Signalled(st, Producers)
          /\ "woken" \in States /\ Producers \in SUBSET Threads
      BY <1>0, <1>2 DEF TypeOK, States
    <2> HIDE DEF st
    <2>2. /\ state' \in [Threads -> States]
          /\ \A u \in Threads :
               state'[u] = st[u] \/ (u \in Producers /\ st[u] = "waiting"
                                                     /\ state'[u] = "woken")
          /\ Waiting(st, Producers) = {} => state' = st
          /\ Waiting(st, Producers) # {} =>
               Cardinality(Woken(state', Producers)) =
                 Cardinality(Woken(st, Producers)) + 1
      <3> HIDE DEF Threads
      <3> QED
        BY <2>1, SignalOne
    <2>3. /\ state'[c] = "outside"
          /\ \A u \in Consumers \ {c} : state'[u] = state[u]
          /\ \A u \in Producers : st[u] = state[u]
      <3>1. \A u \in Consumers : state'[u] = st[u]
        BY <2>2
      <3> QED
        BY <1>0, <2>1, <3>1
    <2>4. /\ Head(block_queue) \in Values
          /\ block_queue' \in Seq(Values)
          /\ Len(block_queue') = Len(block_queue) - 1
      BY <1>0, <1>2, HeadTailProperties DEF TypeOK, IsEmpty
    <2>5. TypeOK'
      <3>1. Len(block_queue') <= Cap
        BY <1>0, <2>4 DEF TypeOK
      <3>2. out' \in [Consumers -> Values \cup {NoValue}]
        BY <1>0, <1>2, <2>4 DEF TypeOK
      <3>3. \A p \in Producers : state'[p] = "outside" <=> state[p] = "outside"
        BY <2>2, <2>3
      <3> QED
        BY <1>0, <1>2, <2>2, <2>4, <3>1, <3>2, <3>3 DEF TypeOK, States
    <2>6. SleepingProducersCovered'
      <3> SUFFICES ASSUME Waiting(state', Producers) # {}
                   PROVE  Cap - Len(block_queue')
                            <= Cardinality(Woken(state', Producers))
        BY DEF SleepingProducersCovered
      <3>1. Waiting(st, Producers) # {}
        BY <2>2 DEF Waiting
      <3>2. Woken(st, Producers) = Woken(state, Producers)
            /\ Waiting(st, Producers) = Waiting(state, Producers)
        BY <2>3, MoveOther
      <3>3. Cap - Len(block_queue) <= Cardinality(Woken(state, Producers))
        BY <3>1, <3>2 DEF SleepingProducersCovered
      <3>4. Cardinality(Woken(state', Producers)) =
              Cardinality(Woken(state, Producers)) + 1
        BY <2>2, <3>1, <3>2
      <3> QED
        BY <1>0, <2>4, <3>3, <3>4, Counts
    <2>7. SleepingConsumersCovered'
      <3> SUFFICES ASSUME Waiting(state', Consumers) # {}
                   PROVE  Len(block_queue') <= Cardinality(Woken(state', Consumers))
        BY DEF SleepingConsumersCovered
      <3>1. Waiting(state, Consumers) # {}
        BY <2>3 DEF Waiting
      <3>2. \/ Cardinality(Woken(state', Consumers)) =
                 Cardinality(Woken(state, Consumers))
            \/ Cardinality(Woken(state', Consumers)) =
                 Cardinality(Woken(state, Consumers)) - 1
        BY <2>3, MoveOne
      <3> QED
        BY <1>0, <2>4, <3>1, <3>2, Counts DEF SleepingConsumersCovered
    <2> QED
      BY <2>5, <2>6, <2>7
  <1> QED
    BY <1>1, <1>2 DEF PopBody, Remove

(* A wake-up nobody asked for only adds a woken thread. *)
LEMMA SpuriousInv ==
  ASSUME IInv, NEW t \in Threads, SpuriousWakeup(t)
  PROVE  IInv'
  <1> USE DEF IInv
  <1>1. TypeOK'
    BY DEF TypeOK, SpuriousWakeup
  <1>2. /\ state'[t] = "woken" /\ state[t] = "waiting"
        /\ \A u \in Threads \ {t} : state'[u] = state[u]
        /\ UNCHANGED block_queue
    BY DEF TypeOK, SpuriousWakeup
  <1>3. /\ Waiting(state', Consumers) \subseteq Waiting(state, Consumers)
        /\ Waiting(state', Producers) \subseteq Waiting(state, Producers)
    BY <1>2 DEF Waiting
  <1>4. /\ Cardinality(Woken(state', Consumers)) >= Cardinality(Woken(state, Consumers))
        /\ Cardinality(Woken(state', Producers)) >= Cardinality(Woken(state, Producers))
    <2>1. CASE t \in Consumers
      BY <1>2, <2>1, MoveOne, MoveOther, Counts
    <2>2. CASE t \in Producers
      BY <1>2, <2>2, MoveOne, MoveOther, Counts
    <2> QED
      BY <2>1, <2>2
  <1>5. Len(block_queue) \in Nat
    BY DEF TypeOK
  <1> QED
    BY <1>1, <1>2, <1>3, <1>4, <1>5, Counts
       DEF SleepingConsumersCovered, SleepingProducersCovered

(* Every step preserves the invariant. *)
LEMMA NextInv == IInv /\ [Next]_vars => IInv'
  <1> SUFFICES ASSUME IInv, [Next]_vars PROVE IInv'
    OBVIOUS
  <1>1. ASSUME NEW p \in Producers, ProducerStep(p) PROVE IInv'
    <2>1. CASE Enqueue(p)
      BY <2>1, EnqueueInv DEF Enqueue
    <2>2. CASE EnqueueResume(p)
      <3>1. in[p] \in Values
        BY <2>2 DEF EnqueueResume, IInv, TypeOK
      <3> QED
        BY <2>2, <3>1, EnqueueInv DEF EnqueueResume
    <2> QED
      BY <1>1, <2>1, <2>2 DEF ProducerStep
  <1>2. ASSUME NEW c \in Consumers, ConsumerStep(c) PROVE IInv'
    BY <1>2, PopInv DEF ConsumerStep, Pop, PopResume
  <1>3. ASSUME NEW t \in Threads, SpuriousWakeup(t) PROVE IInv'
    BY <1>3, SpuriousInv
  <1>4. CASE UNCHANGED vars
    BY <1>4 DEF vars, IInv, TypeOK, SleepingConsumersCovered,
                SleepingProducersCovered, Waiting, Woken
  <1> QED
    BY <1>1, <1>2, <1>3, <1>4 DEF Next

(* The types hold and the capacity is never exceeded. *)
THEOREM TypeCorrect == Spec => []TypeOK
  <1>1. Spec => []IInv
    BY InitInv, NextInv, PTL DEF Spec
  <1> QED
    BY <1>1, PTL DEF IInv

(* No wake-up is lost on either condition variable, whatever the numbers   *)
(* of producers, consumers and places, and whichever sleeper a signal or a *)
(* spurious wake-up picks.                                                 *)
THEOREM WakeupsKept == Spec => []NoLostWakeup
  <1>1. Spec => []IInv
    BY InitInv, NextInv, PTL DEF Spec
  <1> QED
    BY <1>1, PTL DEF IInv, NoLostWakeup

-----------------------------------------------------------------------------
(* Every step is a Put, a Take or nothing to the abstract queue. *)
LEMMA StepRefines == IInv /\ [Next]_vars => [Fifo!Next]_(Fifo!vars)
  <1> SUFFICES ASSUME IInv, [Next]_vars PROVE [Fifo!Next]_(Fifo!vars)
    OBVIOUS
  <1>0. TypeOK /\ Len(block_queue) \in Nat
    BY DEF IInv, TypeOK
  <1>1. ASSUME NEW p \in Producers, NEW v \in Values, EnqueueBody(p, v)
        PROVE  [Fifo!Next]_(Fifo!vars)
    <2>1. CASE UNCHANGED <<block_queue, out>>
      BY <2>1 DEF Fifo!vars
    <2>2. CASE ~IsFull /\ block_queue' = Append(block_queue, v) /\ UNCHANGED out
      BY <1>0, <2>2 DEF IsFull, TypeOK, Fifo!Next, Fifo!Put
    <2> QED
      BY <1>1, <2>1, <2>2 DEF EnqueueBody, Store
  <1>2. ASSUME NEW c \in Consumers, PopBody(c)
        PROVE  [Fifo!Next]_(Fifo!vars)
    BY <1>2 DEF PopBody, Remove, IsEmpty, Fifo!Next, Fifo!Take, Fifo!vars
  <1>3. ASSUME NEW p \in Producers, EnqueueResume(p) PROVE in[p] \in Values
    BY <1>0, <1>3 DEF TypeOK, EnqueueResume
  <1>4. CASE (\E t \in Threads : SpuriousWakeup(t)) \/ UNCHANGED vars
    BY <1>4 DEF SpuriousWakeup, vars, Fifo!vars
  <1> QED
    BY <1>1, <1>2, <1>3, <1>4 DEF Next, ProducerStep, ConsumerStep, Enqueue,
                                  EnqueueResume, Pop, PopResume

(* BlockQueue implements the bounded FIFO: no item is lost, duplicated,    *)
(* reordered or stored beyond the capacity.                                *)
THEOREM Refinement == Spec => ImplementsFifo
  <1>1. Init => Fifo!Init
    BY DEF Init, Fifo!Init
  <1>2. Spec => []IInv
    BY InitInv, NextInv, PTL DEF Spec
  <1> QED
    BY <1>1, <1>2, StepRefines, PTL DEF Spec, ImplementsFifo, Fifo!Spec
=============================================================================
