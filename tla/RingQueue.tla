----------------------------- MODULE RingQueue -----------------------------
(***************************************************************************)
(* RingQueue<T>: a ring of _cap slots with one semaphore counting free     *)
(* slots and one counting stored items.  A caller takes its ticket from a  *)
(* semaphore first and the mutex of its side second, so producers and      *)
(* consumers never exclude one another: only the tickets keep a producer   *)
(* and a consumer out of the same slot.                                    *)
(***************************************************************************)
EXTENDS Integers, Sequences, FiniteSets

CONSTANTS Producers,    \* threads that call Push
          Consumers,    \* threads that call Pop
          Values,       \* items
          NoValue,      \* content of a slot or output never written
          NoThread,     \* a free mutex
          Cap           \* _cap

ASSUME RingQueueAssumption ==
  /\ Cap \in Nat \ {0}
  /\ IsFiniteSet(Producers)
  /\ IsFiniteSet(Consumers)
  /\ Producers \cap Consumers = {}
  /\ NoValue \notin Values
  /\ NoThread \notin Producers \cup Consumers

VARIABLES ring,         \* _ring_queue
          space_sem,    \* value of _space_sem
          data_sem,     \* value of _data_sem
          p_step,       \* _p_step, the next slot to write
          c_step,       \* _c_step, the next slot to read
          p_mutex,      \* holder of _p_mutex
          c_mutex,      \* holder of _c_mutex
          in,           \* in[p]: the argument of the Push p is in
          out,          \* out[c]: what the last Pop of c stored in *out
          pc            \* where each thread is

vars == <<ring, space_sem, data_sem, p_step, c_step, p_mutex, c_mutex,
          in, out, pc>>

Threads == Producers \cup Consumers
Slots == 0 .. Cap - 1

At(S, labels) == {t \in S : pc[t] \in labels}
Goto(t, label) == pc' = [pc EXCEPT ![t] = label]

(* Slip: the free-slot semaphore starts one too high. *)
InitOneTooMany ==
  /\ ring = [s \in Slots |-> NoValue]
  /\ space_sem = Cap + 1
  /\ data_sem = 0
  /\ p_step = 0 /\ c_step = 0
  /\ p_mutex = NoThread /\ c_mutex = NoThread
  /\ in = [p \in Producers |-> NoValue]
  /\ out = [c \in Consumers |-> NoValue]
  /\ pc = [t \in Threads |-> "idle"]

Init ==
  /\ ring = [s \in Slots |-> NoValue]
  /\ space_sem = Cap
  /\ data_sem = 0
  /\ p_step = 0
  /\ c_step = 0
  /\ p_mutex = NoThread
  /\ c_mutex = NoThread
  /\ in = [p \in Producers |-> NoValue]
  /\ out = [c \in Consumers |-> NoValue]
  /\ pc = [t \in Threads |-> "idle"]

-----------------------------------------------------------------------------
(* _space_sem.P(): sem_wait returns once it could decrement. *)
PushReserve(p) ==
  /\ pc[p] = "idle"
  /\ space_sem > 0
  /\ space_sem' = space_sem - 1
  /\ \E v \in Values : in' = [in EXCEPT ![p] = v]
  /\ Goto(p, "reserved")
  /\ UNCHANGED <<ring, data_sem, p_step, c_step, p_mutex, c_mutex, out>>

(* Slip: the ticket is announced to the consumers before the slot is       *)
(* written.                                                                *)
PushLockEarlyPost(p) ==
  /\ pc[p] = "reserved"
  /\ p_mutex = NoThread
  /\ p_mutex' = p
  /\ data_sem' = data_sem + 1
  /\ Goto(p, "writing")
  /\ UNCHANGED <<ring, space_sem, p_step, c_step, c_mutex, in, out>>

(* The mutex is taken; the assignment to the slot is under way. *)
PushLock(p) ==
  /\ pc[p] = "reserved"
  /\ p_mutex = NoThread
  /\ p_mutex' = p
  /\ Goto(p, "writing")
  /\ UNCHANGED <<ring, space_sem, data_sem, p_step, c_step, c_mutex, in, out>>

(* Slip: the index does not wrap. *)
PushStoreNoWrap(p) ==
  /\ pc[p] = "writing"
  /\ ring' = [ring EXCEPT ![p_step] = in[p]]
  /\ p_step' = p_step + 1
  /\ p_mutex' = NoThread
  /\ Goto(p, "stored")
  /\ UNCHANGED <<space_sem, data_sem, c_step, c_mutex, in, out>>

(* The slot is written, the index advances, the mutex is released. *)
PushStore(p) ==
  /\ pc[p] = "writing"
  /\ ring' = [ring EXCEPT ![p_step] = in[p]]
  /\ p_step' = (p_step + 1) % Cap
  /\ p_mutex' = NoThread
  /\ Goto(p, "stored")
  /\ UNCHANGED <<space_sem, data_sem, c_step, c_mutex, in, out>>

(* _data_sem.V() and return. *)
PushPost(p) ==
  /\ pc[p] = "stored"
  /\ data_sem' = data_sem + 1
  /\ in' = [in EXCEPT ![p] = NoValue]
  /\ Goto(p, "idle")
  /\ UNCHANGED <<ring, space_sem, p_step, c_step, p_mutex, c_mutex, out>>

(* _data_sem.P() *)
PopReserve(c) ==
  /\ pc[c] = "idle"
  /\ data_sem > 0
  /\ data_sem' = data_sem - 1
  /\ Goto(c, "reserved")
  /\ UNCHANGED <<ring, space_sem, p_step, c_step, p_mutex, c_mutex, in, out>>

(* The mutex is taken; the copy out of the slot is under way. *)
PopLock(c) ==
  /\ pc[c] = "reserved"
  /\ c_mutex = NoThread
  /\ c_mutex' = c
  /\ Goto(c, "reading")
  /\ UNCHANGED <<ring, space_sem, data_sem, p_step, c_step, p_mutex, in, out>>

(* The slot is copied, the index advances, the mutex is released. *)
PopLoad(c) ==
  /\ pc[c] = "reading"
  /\ out' = [out EXCEPT ![c] = ring[c_step]]
  /\ c_step' = (c_step + 1) % Cap
  /\ c_mutex' = NoThread
  /\ Goto(c, "loaded")
  /\ UNCHANGED <<ring, space_sem, data_sem, p_step, p_mutex, in>>

(* _space_sem.V() and return. *)
PopPost(c) ==
  /\ pc[c] = "loaded"
  /\ space_sem' = space_sem + 1
  /\ Goto(c, "idle")
  /\ UNCHANGED <<ring, data_sem, p_step, c_step, p_mutex, c_mutex, in, out>>

Push(p) == PushReserve(p) \/ PushLock(p) \/ PushStore(p) \/ PushPost(p)
Pop(c) == PopReserve(c) \/ PopLock(c) \/ PopLoad(c) \/ PopPost(c)

Next ==
  \/ \E p \in Producers : Push(p)
  \/ \E c \in Consumers : Pop(c)

Spec == Init /\ [][Next]_vars

-----------------------------------------------------------------------------
(* The indices stay inside the vector, the semaphores within 0..Cap, and a *)
(* mutex is held exactly by the thread inside its critical section.        *)
TypeOK ==
  /\ ring \in [Slots -> Values \cup {NoValue}]
  /\ space_sem \in 0 .. Cap
  /\ data_sem \in 0 .. Cap
  /\ p_step \in Slots
  /\ c_step \in Slots
  /\ p_mutex \in Producers \cup {NoThread}
  /\ c_mutex \in Consumers \cup {NoThread}
  /\ in \in [Producers -> Values \cup {NoValue}]
  /\ out \in [Consumers -> Values \cup {NoValue}]
  /\ pc \in [Threads -> {"idle", "reserved", "writing", "stored",
                         "reading", "loaded"}]
  /\ \A p \in Producers : pc[p] = "writing" <=> p_mutex = p
  /\ \A c \in Consumers : pc[c] = "reading" <=> c_mutex = c

(* Slots that hold an item nobody has copied out yet, by the books of the  *)
(* free-slot semaphore: all but the free ones, those promised to producers *)
(* still to write, and those read but not yet given back.                  *)
Occupied ==
  Cap - space_sem - Cardinality(At(Producers, {"reserved", "writing"}))
      - Cardinality(At(Consumers, {"loaded"}))

(* The two semaphores and the two indices, which no lock protects          *)
(* together, always tell the same number of stored items.                  *)
TicketsAgree ==
  /\ Occupied = data_sem + Cardinality(At(Producers, {"stored"}))
                         + Cardinality(At(Consumers, {"reserved", "reading"}))
  /\ Occupied \in 0 .. Cap
  /\ p_step = (c_step + Occupied) % Cap

(* A producer writing and a consumer reading, under different mutexes, are *)
(* never at the same slot.                                                 *)
NoTornSlot ==
  \A p \in Producers, c \in Consumers :
    ~(pc[p] = "writing" /\ pc[c] = "reading" /\ p_step = c_step)

(* The items inside, oldest first, begin at _c_step. *)
Content == [i \in 1 .. Occupied |-> ring[(c_step + i - 1) % Cap]]

(* The ring is a bounded FIFO: no item is overwritten before it was read,  *)
(* read twice, or read before it was written.                              *)
Fifo == INSTANCE BoundedFifo WITH queue <- Content
ImplementsFifo == Fifo!Spec
=============================================================================
