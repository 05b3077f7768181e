---------------------------- MODULE BoundedFifo ----------------------------
(***************************************************************************)
(* What the bounded queues of this repository promise their callers: a    *)
(* first-in first-out buffer of at most Cap items.  An item that is put    *)
(* is neither lost, duplicated, overwritten nor reordered, and a taker     *)
(* receives the oldest item.  BlockQueue and RingQueue implement it.       *)
(***************************************************************************)
EXTENDS Naturals, Sequences

CONSTANTS Consumers,    \* threads that take
          Values,       \* items
          NoValue,      \* content of an output that was never written
          Cap           \* capacity

VARIABLES queue,        \* the items inside, oldest first
          out           \* out[c]: the last item consumer c received

vars == <<queue, out>>

Init ==
  /\ queue = <<>>
  /\ out = [c \in Consumers |-> NoValue]

Put(v) ==
  /\ Len(queue) < Cap
  /\ queue' = Append(queue, v)
  /\ UNCHANGED out

Take(c) ==
  /\ queue # <<>>
  /\ out' = [out EXCEPT ![c] = Head(queue)]
  /\ queue' = Tail(queue)

Next ==
  \/ \E v \in Values : Put(v)
  \/ \E c \in Consumers : Take(c)

Spec == Init /\ [][Next]_vars
=============================================================================
