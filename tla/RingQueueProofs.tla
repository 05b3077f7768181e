-------------------------- MODULE RingQueueProofs --------------------------
(***************************************************************************)
(* The ring queue for any number of producers, consumers and slots: the    *)
(* semaphores and the indices agree, nobody writes the slot another reads, *)
(* and the ring is a bounded FIFO.                                         *)
(***************************************************************************)
EXTENDS RingQueue, FiniteSetTheorems, TLAPS

(* Who can be where, and that a Push keeps its argument until it returns. *)
Shape ==
  /\ \A p \in Producers : pc[p] \in {"idle", "reserved", "writing", "stored"}
  /\ \A c \in Consumers : pc[c] \in {"idle", "reserved", "reading", "loaded"}
  /\ \A p \in Producers : pc[p] # "idle" => in[p] \in Values

(* The tickets out of the semaphores: slots promised to producers, items   *)
(* stored and not announced, items promised to consumers, slots read and   *)
(* not given back.                                                         *)
Promised == Cardinality(At(Producers, {"reserved", "writing"}))
Unannounced == Cardinality(At(Producers, {"stored"}))
Due == Cardinality(At(Consumers, {"reserved", "reading"}))
Unreturned == Cardinality(At(Consumers, {"loaded"}))

(* TicketsAgree in terms of the tickets: none is lost or made up. *)
Balance ==
  /\ space_sem + Promised + Unreturned + data_sem + Unannounced + Due = Cap
  /\ p_step = (c_step + (data_sem + Unannounced + Due)) % Cap

IInv == TypeOK /\ Shape /\ Balance

-----------------------------------------------------------------------------
(* Indices wrap at Cap. *)
LEMMA Wraps ==
  ASSUME NEW x \in Slots
  PROVE  x % Cap = x /\ (x + Cap) % Cap = x
  BY RingQueueAssumption DEF Slots

(* Advancing the index at the end of n items ends n + 1 items. *)
LEMMA EndAdvances ==
  ASSUME NEW x \in Slots, NEW n \in 0 .. Cap - 1
  PROVE  (((x + n) % Cap) + 1) % Cap = (x + (n + 1)) % Cap
  <1>1. Cap \in Nat \ {0} /\ x \in Nat /\ x < Cap /\ n \in Nat /\ n < Cap
    BY RingQueueAssumption DEF Slots
  <1>2. CASE x + n < Cap
    <2>1. (x + n) % Cap = x + n BY <1>1, <1>2, Wraps DEF Slots
    <2> QED BY <1>1, <2>1
  <1>3. CASE x + n >= Cap
    <2> DEFINE y == x + n - Cap
    <2>1. y \in Slots /\ y + 1 \in Slots /\ x + n = y + Cap /\ x + (n + 1) = (y + 1) + Cap
      BY <1>1, <1>3 DEF Slots
    <2>2. (x + n) % Cap = y /\ (x + (n + 1)) % Cap = y + 1 /\ (y + 1) % Cap = y + 1
      BY <2>1, Wraps
    <2> QED BY <2>2
  <1> QED BY <1>1, <1>2, <1>3

(* Advancing the index at the start of n items leaves n - 1 behind it. *)
LEMMA StartAdvances ==
  ASSUME NEW x \in Slots, NEW n \in 1 .. Cap
  PROVE  (((x + 1) % Cap) + (n - 1)) % Cap = (x + n) % Cap
  <1>1. Cap \in Nat \ {0} /\ x \in Nat /\ x < Cap /\ n \in Nat /\ n > 0 /\ n <= Cap
    BY RingQueueAssumption DEF Slots
  <1>2. CASE x + 1 < Cap
    <2>1. (x + 1) % Cap = x + 1 BY <1>1, <1>2, Wraps DEF Slots
    <2>2. (x + 1) + (n - 1) = x + n BY <1>1
    <2> QED BY <2>1, <2>2
  <1>3. CASE x + 1 = Cap
    <2>1. 0 \in Slots /\ 0 + Cap = x + 1 BY <1>1, <1>3 DEF Slots
    <2>2. (x + 1) % Cap = 0 BY <2>1, Wraps
    <2>3. n - 1 \in Slots /\ (n - 1) + Cap = x + n /\ 0 + (n - 1) = n - 1 BY <1>1, <1>3 DEF Slots
    <2>4. (n - 1) % Cap = n - 1 /\ (x + n) % Cap = n - 1 BY <2>3, Wraps
    <2> QED BY <2>2, <2>3, <2>4
  <1> QED BY <1>1, <1>2, <1>3

(* One thread that moves changes the number of threads at some labels by   *)
(* one if it enters or leaves them, and not at all otherwise.              *)
LEMMA AtMoves ==
  ASSUME NEW S, IsFiniteSet(S), NEW L, NEW t, \A u \in S \ {t} : pc'[u] = pc[u]
  PROVE  /\ Cardinality(At(S, L)) \in Nat
         /\ t \notin S => At(S, L)' = At(S, L)
         /\ (pc[t] \in L <=> pc'[t] \in L) => At(S, L)' = At(S, L)
         /\ t \in S /\ pc[t] \in L => Cardinality(At(S, L)) > 0
         /\ t \in S /\ pc[t] \in L /\ pc'[t] \notin L
              => Cardinality(At(S, L))' = Cardinality(At(S, L)) - 1
         /\ t \in S /\ pc[t] \notin L /\ pc'[t] \in L
              => Cardinality(At(S, L))' = Cardinality(At(S, L)) + 1
  <1> DEFINE A == {u \in S : pc[u] \in L}
             B == {u \in S : pc'[u] \in L}
  <1>1. IsFiniteSet(A) /\ Cardinality(A) \in Nat /\ IsFiniteSet(B)
    BY FS_Subset, FS_CardinalityType
  <1>2. t \notin S \/ (pc[t] \in L <=> pc'[t] \in L) => B = A
    OBVIOUS
  <1>3. ASSUME t \in S, pc[t] \in L PROVE Cardinality(A) > 0
    <2>1. t \in A BY <1>3
    <2>2. A # {} BY <2>1
    <2> HIDE DEF A
    <2> QED BY <1>1, <2>2, FS_EmptySet
  <1>4. ASSUME t \in S, pc[t] \in L, pc'[t] \notin L
        PROVE  Cardinality(B) = Cardinality(A) - 1
    <2>1. B = A \ {t} /\ t \in A BY <1>4
    <2> HIDE DEF A, B
    <2> QED BY <1>1, <2>1, FS_RemoveElement
  <1>5. ASSUME t \in S, pc[t] \notin L, pc'[t] \in L
        PROVE  Cardinality(B) = Cardinality(A) + 1
    <2>1. B = A \cup {t} /\ t \notin A BY <1>5
    <2> HIDE DEF A, B
    <2> QED BY <1>1, <2>1, FS_AddElement
  <1>6. At(S, L) = A /\ At(S, L)' = B
    BY DEF At
  <1> HIDE DEF A, B
  <1> QED BY <1>1, <1>2, <1>3, <1>4, <1>5, <1>6

(* The four numbers of tickets, and how a step of one thread moves them. *)
LEMMA TicketNumbers == Promised \in Nat /\ Unannounced \in Nat /\ Due \in Nat /\ Unreturned \in Nat
  BY RingQueueAssumption, FS_Subset, FS_CardinalityType
     DEF Promised, Unannounced, Due, Unreturned, At

LEMMA ProducerMoves ==
  ASSUME IInv, NEW p \in Producers, NEW l, Goto(p, l)
  PROVE  /\ Due' = Due /\ Unreturned' = Unreturned
         /\ pc[p] = "idle" /\ l = "reserved" =>
              Promised' = Promised + 1 /\ Unannounced' = Unannounced
         /\ pc[p] = "reserved" /\ l = "writing" =>
              Promised' = Promised /\ Unannounced' = Unannounced
         /\ pc[p] = "writing" => Promised > 0
         /\ pc[p] = "writing" /\ l = "stored" =>
              Promised' = Promised - 1 /\ Unannounced' = Unannounced + 1
         /\ pc[p] = "stored" => Unannounced > 0
         /\ pc[p] = "stored" /\ l = "idle" =>
              Promised' = Promised /\ Unannounced' = Unannounced - 1
  <1> DEFINE L == {"reserved", "writing"}
             K == {"stored"}
             M == {"reserved", "reading"}
             N == {"loaded"}
  <1>1. /\ p \in Threads /\ p \notin Consumers
        /\ pc'[p] = l /\ \A u \in Threads \ {p} : pc'[u] = pc[u]
    BY RingQueueAssumption DEF IInv, TypeOK, Goto, Threads
  <1>2. /\ \A u \in Producers \ {p} : pc'[u] = pc[u]
        /\ \A u \in Consumers \ {p} : pc'[u] = pc[u]
    BY <1>1 DEF Threads
  <1>3. IsFiniteSet(Producers) /\ IsFiniteSet(Consumers)
    BY RingQueueAssumption
  <1>4. /\ Promised = Cardinality(At(Producers, L)) /\ Unannounced = Cardinality(At(Producers, K))
        /\ Due = Cardinality(At(Consumers, M)) /\ Unreturned = Cardinality(At(Consumers, N))
    BY DEF Promised, Unannounced, Due, Unreturned
  <1>5. /\ Promised' = Cardinality(At(Producers, L))' /\ Unannounced' = Cardinality(At(Producers, K))'
        /\ Due' = Cardinality(At(Consumers, M))' /\ Unreturned' = Cardinality(At(Consumers, N))'
    BY DEF Promised, Unannounced, Due, Unreturned
  <1>6. /\ "idle" \notin L /\ "reserved" \in L /\ "writing" \in L /\ "stored" \notin L
        /\ "idle" \notin K /\ "reserved" \notin K /\ "writing" \notin K /\ "stored" \in K
    OBVIOUS
  <1> HIDE DEF L, K, M, N
  <1>7. Due' = Due /\ Unreturned' = Unreturned
    BY <1>1, <1>2, <1>3, <1>4, <1>5, AtMoves
  <1>8. /\ (pc[p] \in L <=> l \in L) => Promised' = Promised
        /\ pc[p] \in L => Promised > 0
        /\ pc[p] \in L /\ l \notin L => Promised' = Promised - 1
        /\ pc[p] \notin L /\ l \in L => Promised' = Promised + 1
    BY <1>1, <1>2, <1>3, <1>4, <1>5, AtMoves
  <1>9. /\ (pc[p] \in K <=> l \in K) => Unannounced' = Unannounced
        /\ pc[p] \in K => Unannounced > 0
        /\ pc[p] \in K /\ l \notin K => Unannounced' = Unannounced - 1
        /\ pc[p] \notin K /\ l \in K => Unannounced' = Unannounced + 1
    BY <1>1, <1>2, <1>3, <1>4, <1>5, AtMoves
  <1> QED BY <1>6, <1>7, <1>8, <1>9

LEMMA ConsumerMoves ==
  ASSUME IInv, NEW c \in Consumers, NEW l, Goto(c, l)
  PROVE  /\ Promised' = Promised /\ Unannounced' = Unannounced
         /\ pc[c] = "idle" /\ l = "reserved" =>
              Due' = Due + 1 /\ Unreturned' = Unreturned
         /\ pc[c] = "reserved" /\ l = "reading" =>
              Due' = Due /\ Unreturned' = Unreturned
         /\ pc[c] = "reading" => Due > 0
         /\ pc[c] = "reading" /\ l = "loaded" =>
              Due' = Due - 1 /\ Unreturned' = Unreturned + 1
         /\ pc[c] = "loaded" => Unreturned > 0
         /\ pc[c] = "loaded" /\ l = "idle" =>
              Due' = Due /\ Unreturned' = Unreturned - 1
  <1> DEFINE L == {"reserved", "writing"}
             K == {"stored"}
             M == {"reserved", "reading"}
             N == {"loaded"}
  <1>1. /\ c \in Threads /\ c \notin Producers
        /\ pc'[c] = l /\ \A u \in Threads \ {c} : pc'[u] = pc[u]
    BY RingQueueAssumption DEF IInv, TypeOK, Goto, Threads
  <1>2. /\ \A u \in Producers \ {c} : pc'[u] = pc[u]
        /\ \A u \in Consumers \ {c} : pc'[u] = pc[u]
    BY <1>1 DEF Threads
  <1>3. IsFiniteSet(Producers) /\ IsFiniteSet(Consumers)
    BY RingQueueAssumption
  <1>4. /\ Promised = Cardinality(At(Producers, L)) /\ Unannounced = Cardinality(At(Producers, K))
        /\ Due = Cardinality(At(Consumers, M)) /\ Unreturned = Cardinality(At(Consumers, N))
    BY DEF Promised, Unannounced, Due, Unreturned
  <1>5. /\ Promised' = Cardinality(At(Producers, L))' /\ Unannounced' = Cardinality(At(Producers, K))'
        /\ Due' = Cardinality(At(Consumers, M))' /\ Unreturned' = Cardinality(At(Consumers, N))'
    BY DEF Promised, Unannounced, Due, Unreturned
  <1>6. /\ "idle" \notin M /\ "reserved" \in M /\ "reading" \in M /\ "loaded" \notin M
        /\ "idle" \notin N /\ "reserved" \notin N /\ "reading" \notin N /\ "loaded" \in N
    OBVIOUS
  <1> HIDE DEF L, K, M, N
  <1>7. Promised' = Promised /\ Unannounced' = Unannounced
    BY <1>1, <1>2, <1>3, <1>4, <1>5, AtMoves
  <1>8. /\ (pc[c] \in M <=> l \in M) => Due' = Due
        /\ pc[c] \in M => Due > 0
        /\ pc[c] \in M /\ l \notin M => Due' = Due - 1
        /\ pc[c] \notin M /\ l \in M => Due' = Due + 1
    BY <1>1, <1>2, <1>3, <1>4, <1>5, AtMoves
  <1>9. /\ (pc[c] \in N <=> l \in N) => Unreturned' = Unreturned
        /\ pc[c] \in N => Unreturned > 0
        /\ pc[c] \in N /\ l \notin N => Unreturned' = Unreturned - 1
        /\ pc[c] \notin N /\ l \in N => Unreturned' = Unreturned + 1
    BY <1>1, <1>2, <1>3, <1>4, <1>5, AtMoves
  <1> QED BY <1>6, <1>7, <1>8, <1>9

-----------------------------------------------------------------------------
(* Balance says the same as TicketsAgree. *)
LEMMA BalanceIs == TypeOK => (TicketsAgree <=> Balance)
  <1> SUFFICES ASSUME TypeOK PROVE TicketsAgree <=> Balance
    OBVIOUS
  <1>1. /\ Cap \in Nat /\ space_sem \in Nat /\ data_sem \in Nat /\ c_step \in Nat
    BY RingQueueAssumption DEF TypeOK, Slots
  <1>2. Occupied = Cap - space_sem - Promised - Unreturned
    BY DEF Occupied, Promised, Unreturned
  <1>3. TicketsAgree <=> /\ Occupied = data_sem + Unannounced + Due
                         /\ Occupied \in 0 .. Cap
                         /\ p_step = (c_step + Occupied) % Cap
    BY DEF TicketsAgree, Unannounced, Due
  <1> HIDE DEF TypeOK
  <1>5. Occupied = data_sem + Unannounced + Due
          <=> space_sem + Promised + Unreturned + data_sem + Unannounced + Due = Cap
    BY <1>1, <1>2, TicketNumbers
  <1>6. space_sem + Promised + Unreturned + data_sem + Unannounced + Due = Cap
          => Occupied \in 0 .. Cap
    BY <1>1, <1>2, TicketNumbers
  <1> QED BY <1>3, <1>5, <1>6 DEF Balance

-----------------------------------------------------------------------------
(* At first no ticket is out. *)
LEMMA EmptyTickets ==
  Init => Promised = 0 /\ Unannounced = 0 /\ Due = 0 /\ Unreturned = 0
  <1> SUFFICES ASSUME Init
               PROVE  Promised = 0 /\ Unannounced = 0 /\ Due = 0 /\ Unreturned = 0
    OBVIOUS
  <1>1. /\ At(Producers, {"reserved", "writing"}) = {} /\ At(Producers, {"stored"}) = {}
        /\ At(Consumers, {"reserved", "reading"}) = {} /\ At(Consumers, {"loaded"}) = {}
    BY DEF Init, At, Threads
  <1> QED BY <1>1, FS_EmptySet DEF Promised, Unannounced, Due, Unreturned

LEMMA InitInv == Init => IInv
  <1> SUFFICES ASSUME Init PROVE IInv
    OBVIOUS
  <1>1. TypeOK
    BY RingQueueAssumption DEF Init, TypeOK, Slots, Threads
  <1>2. Shape
    BY DEF Init, Shape, Threads
  <1>3. Promised = 0 /\ Unannounced = 0 /\ Due = 0 /\ Unreturned = 0
    BY EmptyTickets
  <1>4. 0 \in Slots /\ Cap \in Nat
    BY RingQueueAssumption DEF Slots
  <1>5. 0 % Cap = 0
    BY <1>4, Wraps
  <1> QED BY <1>1, <1>2, <1>3, <1>4, <1>5 DEF IInv, Balance, Init

(* The numbers in Balance. *)
LEMMA Numbers ==
  ASSUME TypeOK
  PROVE  /\ Cap \in Nat \ {0} /\ space_sem \in Nat /\ data_sem \in Nat
         /\ p_step \in Slots /\ c_step \in Slots
         /\ Promised \in Nat /\ Unannounced \in Nat /\ Due \in Nat /\ Unreturned \in Nat
  BY RingQueueAssumption, TicketNumbers DEF TypeOK

LEMMA PushInv ==
  ASSUME IInv, NEW p \in Producers, Push(p)
  PROVE  IInv'
  <1>0. TypeOK /\ Shape /\ Balance /\ p \in Threads
    BY DEF IInv, TypeOK, Threads
  <1>00. /\ Cap \in Nat \ {0} /\ space_sem \in Nat /\ data_sem \in Nat
        /\ p_step \in Slots /\ c_step \in Slots
        /\ Promised \in Nat /\ Unannounced \in Nat /\ Due \in Nat /\ Unreturned \in Nat
    BY <1>0, Numbers
  <1>1. CASE PushReserve(p)
    <2> PICK v \in Values : in' = [in EXCEPT ![p] = v]
      BY <1>1 DEF PushReserve
    <2>0. in' \in [Producers -> Values \cup {NoValue}] /\ space_sem' \in 0 .. Cap
      BY <1>0, <1>00, <1>1 DEF TypeOK, PushReserve
    <2>1. TypeOK' BY <1>0, <1>1, <2>0, RingQueueAssumption DEF TypeOK, PushReserve, Goto
    <2>2. Shape' BY <1>0, <1>1, RingQueueAssumption DEF Shape, TypeOK, PushReserve, Goto
    <2>3. Goto(p, "reserved") /\ pc[p] = "idle" BY <1>1 DEF PushReserve
    <2>4. /\ Promised' = Promised + 1 /\ Unannounced' = Unannounced
          /\ Due' = Due /\ Unreturned' = Unreturned
      BY <2>3, ProducerMoves
    <2>5. /\ space_sem' = space_sem - 1 /\ data_sem' = data_sem
          /\ p_step' = p_step /\ c_step' = c_step
      BY <1>1 DEF PushReserve
    <2>6. Balance' BY <1>0, <1>00, <2>4, <2>5 DEF Balance
    <2> QED BY <2>1, <2>2, <2>6 DEF IInv
  <1>2. CASE PushLock(p)
    <2>1. TypeOK' BY <1>0, <1>2, RingQueueAssumption DEF TypeOK, PushLock, Goto
    <2>2. Shape' BY <1>0, <1>2, RingQueueAssumption DEF Shape, TypeOK, PushLock, Goto
    <2>3. Goto(p, "writing") /\ pc[p] = "reserved" BY <1>2 DEF PushLock
    <2>4. /\ Promised' = Promised /\ Unannounced' = Unannounced
          /\ Due' = Due /\ Unreturned' = Unreturned
      BY <2>3, ProducerMoves
    <2>5. UNCHANGED <<space_sem, data_sem, p_step, c_step>> BY <1>2 DEF PushLock
    <2>6. Balance' BY <1>0, <2>4, <2>5 DEF Balance
    <2> QED BY <2>1, <2>2, <2>6 DEF IInv
  <1>3. CASE PushStore(p)
    <2>1. (p_step + 1) % Cap \in Slots BY <1>00 DEF Slots
    <2>2. TypeOK' BY <1>0, <1>3, <2>1, RingQueueAssumption DEF TypeOK, Shape, PushStore, Goto
    <2>3. Shape' BY <1>0, <1>3, RingQueueAssumption DEF Shape, TypeOK, PushStore, Goto
    <2>4. Goto(p, "stored") /\ pc[p] = "writing" BY <1>3 DEF PushStore
    <2>5. /\ Promised > 0 /\ Promised' = Promised - 1 /\ Unannounced' = Unannounced + 1
          /\ Due' = Due /\ Unreturned' = Unreturned
      BY <2>4, ProducerMoves
    <2>6. /\ space_sem' = space_sem /\ data_sem' = data_sem
          /\ p_step' = (p_step + 1) % Cap /\ c_step' = c_step
      BY <1>3 DEF PushStore
    <2> DEFINE n == data_sem + Unannounced + Due
    <2>7. n \in 0 .. Cap - 1 /\ (data_sem + Unannounced + Due)' = n + 1
      BY <1>0, <1>00, <2>5, <2>6 DEF Balance
    <2>8. p_step = (c_step + n) % Cap BY <1>0 DEF Balance
    <2> HIDE DEF n
    <2>9. (((c_step + n) % Cap) + 1) % Cap = (c_step + (n + 1)) % Cap
      BY <1>00, <2>7, EndAdvances
    <2>10. Balance' BY <1>0, <1>00, <2>5, <2>6, <2>7, <2>8, <2>9 DEF Balance
    <2> QED BY <2>2, <2>3, <2>10 DEF IInv
  <1>4. CASE PushPost(p)
    <2>3. Goto(p, "idle") /\ pc[p] = "stored" BY <1>4 DEF PushPost
    <2>4. /\ Promised' = Promised /\ Unannounced' = Unannounced - 1 /\ Unannounced > 0
          /\ Due' = Due /\ Unreturned' = Unreturned
      BY <2>3, ProducerMoves
    <2>5. /\ space_sem' = space_sem /\ data_sem' = data_sem + 1
          /\ p_step' = p_step /\ c_step' = c_step
      BY <1>4 DEF PushPost
    <2>6. Balance' BY <1>0, <1>00, <2>4, <2>5 DEF Balance
    <2>7. data_sem' \in 0 .. Cap BY <1>0, <1>00, <2>4, <2>5 DEF Balance
    <2>1. TypeOK' BY <1>0, <1>4, <2>7 DEF TypeOK, PushPost, Goto
    <2>2. Shape' BY <1>0, <1>4, RingQueueAssumption DEF Shape, TypeOK, PushPost, Goto
    <2> QED BY <2>1, <2>2, <2>6 DEF IInv
  <1> QED BY <1>1, <1>2, <1>3, <1>4 DEF Push

LEMMA PopInv ==
  ASSUME IInv, NEW c \in Consumers, Pop(c)
  PROVE  IInv'
  <1>0. TypeOK /\ Shape /\ Balance /\ c \in Threads
    BY DEF IInv, TypeOK, Threads
  <1>00. /\ Cap \in Nat \ {0} /\ space_sem \in Nat /\ data_sem \in Nat
         /\ p_step \in Slots /\ c_step \in Slots
         /\ Promised \in Nat /\ Unannounced \in Nat /\ Due \in Nat /\ Unreturned \in Nat
    BY <1>0, Numbers
  <1>1. CASE PopReserve(c)
    <2>1. data_sem' \in 0 .. Cap BY <1>0, <1>00, <1>1 DEF TypeOK, PopReserve
    <2>2. TypeOK' BY <1>0, <1>1, <2>1, RingQueueAssumption DEF TypeOK, PopReserve, Goto
    <2>3. Shape' BY <1>0, <1>1, RingQueueAssumption DEF Shape, TypeOK, PopReserve, Goto
    <2>4. Goto(c, "reserved") /\ pc[c] = "idle" BY <1>1 DEF PopReserve
    <2>5. /\ Promised' = Promised /\ Unannounced' = Unannounced
          /\ Due' = Due + 1 /\ Unreturned' = Unreturned
      BY <2>4, ConsumerMoves
    <2>6. /\ space_sem' = space_sem /\ data_sem' = data_sem - 1
          /\ p_step' = p_step /\ c_step' = c_step
      BY <1>1 DEF PopReserve
    <2>7. Balance' BY <1>0, <1>00, <2>5, <2>6 DEF Balance
    <2> QED BY <2>2, <2>3, <2>7 DEF IInv
  <1>2. CASE PopLock(c)
    <2>1. TypeOK' BY <1>0, <1>2, RingQueueAssumption DEF TypeOK, PopLock, Goto
    <2>2. Shape' BY <1>0, <1>2, RingQueueAssumption DEF Shape, TypeOK, PopLock, Goto
    <2>3. Goto(c, "reading") /\ pc[c] = "reserved" BY <1>2 DEF PopLock
    <2>4. /\ Promised' = Promised /\ Unannounced' = Unannounced
          /\ Due' = Due /\ Unreturned' = Unreturned
      BY <2>3, ConsumerMoves
    <2>5. UNCHANGED <<space_sem, data_sem, p_step, c_step>> BY <1>2 DEF PopLock
    <2>6. Balance' BY <1>0, <2>4, <2>5 DEF Balance
    <2> QED BY <2>1, <2>2, <2>6 DEF IInv
  <1>3. CASE PopLoad(c)
    <2>1. (c_step + 1) % Cap \in Slots BY <1>00 DEF Slots
    <2>2. out' \in [Consumers -> Values \cup {NoValue}] BY <1>0, <1>3 DEF TypeOK, PopLoad
    <2>3. TypeOK' BY <1>0, <1>3, <2>1, <2>2, RingQueueAssumption DEF TypeOK, PopLoad, Goto
    <2>4. Shape' BY <1>0, <1>3, RingQueueAssumption DEF Shape, TypeOK, PopLoad, Goto
    <2>5. Goto(c, "loaded") /\ pc[c] = "reading" BY <1>3 DEF PopLoad
    <2>6. /\ Promised' = Promised /\ Unannounced' = Unannounced
          /\ Due > 0 /\ Due' = Due - 1 /\ Unreturned' = Unreturned + 1
      BY <2>5, ConsumerMoves
    <2>7. /\ space_sem' = space_sem /\ data_sem' = data_sem
          /\ p_step' = p_step /\ c_step' = (c_step + 1) % Cap
      BY <1>3 DEF PopLoad
    <2> DEFINE n == data_sem + Unannounced + Due
    <2>8. n \in 1 .. Cap /\ (data_sem + Unannounced + Due)' = n - 1
      BY <1>0, <1>00, <2>6, <2>7 DEF Balance
    <2>9. p_step = (c_step + n) % Cap BY <1>0 DEF Balance
    <2> HIDE DEF n
    <2>10. (((c_step + 1) % Cap) + (n - 1)) % Cap = (c_step + n) % Cap
      BY <1>00, <2>8, StartAdvances
    <2>11. Balance' BY <1>0, <1>00, <2>6, <2>7, <2>8, <2>9, <2>10 DEF Balance
    <2> QED BY <2>3, <2>4, <2>11 DEF IInv
  <1>4. CASE PopPost(c)
    <2>1. Goto(c, "idle") /\ pc[c] = "loaded" BY <1>4 DEF PopPost
    <2>2. /\ Promised' = Promised /\ Unannounced' = Unannounced
          /\ Due' = Due /\ Unreturned' = Unreturned - 1 /\ Unreturned > 0
      BY <2>1, ConsumerMoves
    <2>3. /\ space_sem' = space_sem + 1 /\ data_sem' = data_sem
          /\ p_step' = p_step /\ c_step' = c_step
      BY <1>4 DEF PopPost
    <2>4. Balance' BY <1>0, <1>00, <2>2, <2>3 DEF Balance
    <2>5. space_sem' \in 0 .. Cap BY <1>0, <1>00, <2>2, <2>3 DEF Balance
    <2>6. TypeOK' BY <1>0, <1>4, <2>5, RingQueueAssumption DEF TypeOK, PopPost, Goto
    <2>7. Shape' BY <1>0, <1>4, RingQueueAssumption DEF Shape, TypeOK, PopPost, Goto
    <2> QED BY <2>4, <2>6, <2>7 DEF IInv
  <1> QED BY <1>1, <1>2, <1>3, <1>4 DEF Pop

(* Every step preserves the invariant. *)
LEMMA NextInv == IInv /\ [Next]_vars => IInv'
  <1> SUFFICES ASSUME IInv, [Next]_vars PROVE IInv'
    OBVIOUS
  <1>1. ASSUME NEW p \in Producers, Push(p) PROVE IInv'
    BY <1>1, PushInv
  <1>2. ASSUME NEW c \in Consumers, Pop(c) PROVE IInv'
    BY <1>2, PopInv
  <1>3. CASE UNCHANGED vars
    BY <1>3 DEF vars, IInv, TypeOK, Shape, Balance,
                Promised, Unannounced, Due, Unreturned, At
  <1> QED BY <1>1, <1>2, <1>3 DEF Next

LEMMA Invariant == Spec => []IInv
  BY InitInv, NextInv, PTL DEF Spec

(* The indices stay inside the ring, the semaphores within their bounds,   *)
(* and a mutex is held exactly by the thread in its critical section.      *)
THEOREM TypeCorrect == Spec => []TypeOK
  BY Invariant, PTL DEF IInv

(* The semaphores and the indices, which no lock protects together, always *)
(* tell the same number of stored items.                                   *)
THEOREM SemaphoresAgree == Spec => []TicketsAgree
  <1>1. IInv => TicketsAgree
    BY BalanceIs DEF IInv
  <1> QED BY <1>1, Invariant, PTL

(* A writing producer and a reading consumer hold a ticket each: the ring  *)
(* is then neither full nor empty, so they are at different slots.         *)
LEMMA SlotsApart == IInv => NoTornSlot
  <1> SUFFICES ASSUME IInv, NEW p \in Producers, NEW c \in Consumers,
                      pc[p] = "writing", pc[c] = "reading", p_step = c_step
               PROVE  FALSE
    BY DEF NoTornSlot
  <1>0. TypeOK /\ Balance BY DEF IInv
  <1>1. /\ Cap \in Nat \ {0} /\ space_sem \in Nat /\ data_sem \in Nat /\ c_step \in Slots
        /\ Promised \in Nat /\ Unannounced \in Nat /\ Due \in Nat /\ Unreturned \in Nat
    BY <1>0, Numbers
  <1>2. Promised > 0 /\ Due > 0
    <2>1. /\ p \in At(Producers, {"reserved", "writing"})
          /\ c \in At(Consumers, {"reserved", "reading"})
      BY DEF At
    <2>2. IsFiniteSet(At(Producers, {"reserved", "writing"}))
          /\ IsFiniteSet(At(Consumers, {"reserved", "reading"}))
      BY RingQueueAssumption, FS_Subset DEF At
    <2>3. Promised # 0 /\ Due # 0
      BY <2>1, <2>2, FS_EmptySet DEF Promised, Due
    <2> QED BY <1>1, <2>3
  <1> DEFINE n == data_sem + Unannounced + Due
  <1>3. n \in 1 .. Cap - 1 /\ c_step = (c_step + n) % Cap
    BY <1>0, <1>1, <1>2 DEF Balance
  <1> HIDE DEF n
  <1>4. CASE c_step + n < Cap
    <2>1. c_step + n \in Slots BY <1>1, <1>3, <1>4 DEF Slots
    <2>2. (c_step + n) % Cap = c_step + n BY <2>1, Wraps
    <2> QED BY <1>1, <1>3, <2>2 DEF Slots
  <1>5. CASE c_step + n >= Cap
    <2> DEFINE y == c_step + n - Cap
    <2>1. y \in Slots /\ c_step + n = y + Cap /\ y # c_step BY <1>1, <1>3, <1>5 DEF Slots
    <2>2. (c_step + n) % Cap = y BY <2>1, Wraps
    <2> QED BY <1>3, <2>1, <2>2
  <1> QED BY <1>1, <1>3, <1>4, <1>5 DEF Slots

(* No slot is written and read at once. *)
THEOREM SlotsNotTorn == Spec => []NoTornSlot
  BY Invariant, SlotsApart, PTL

-----------------------------------------------------------------------------
(* Two places less than Cap apart are different slots. *)
LEMMA PlacesApart ==
  ASSUME NEW x \in Slots, NEW j \in 0 .. Cap - 1, NEW i \in 0 .. j - 1
  PROVE  /\ (x + i) % Cap \in Slots /\ (x + j) % Cap \in Slots
         /\ (x + i) % Cap # (x + j) % Cap
  <1>1. /\ Cap \in Nat \ {0} /\ x \in Nat /\ x < Cap
        /\ i \in Nat /\ j \in Nat /\ i < j /\ j < Cap
    BY RingQueueAssumption DEF Slots
  <1>2. ASSUME NEW k \in Nat, k < Cap
        PROVE  (x + k) % Cap = IF x + k < Cap THEN x + k ELSE x + k - Cap
    <2>1. CASE x + k < Cap
      BY <1>1, <1>2, <2>1, Wraps DEF Slots
    <2>2. CASE x + k >= Cap
      <3> DEFINE y == x + k - Cap
      <3>1. y \in Slots /\ x + k = y + Cap BY <1>1, <1>2, <2>2 DEF Slots
      <3>2. (x + k) % Cap = y BY <3>1, Wraps
      <3> QED BY <1>1, <1>2, <2>2, <3>2
    <2> QED BY <1>1, <2>1, <2>2
  <1> QED BY <1>1, <1>2 DEF Slots

(* The items inside, as a sequence. *)
ContentShape ==
  /\ Occupied = data_sem + Unannounced + Due
  /\ Occupied \in 0 .. Cap
  /\ Content \in Seq(Values \cup {NoValue})
  /\ Len(Content) = Occupied
  /\ \A i \in 1 .. Occupied : Content[i] = ring[(c_step + (i - 1)) % Cap]

LEMMA ContentIs == IInv => ContentShape
  <1> SUFFICES ASSUME IInv PROVE ContentShape
    OBVIOUS
  <1>1. Occupied = data_sem + Unannounced + Due /\ Occupied \in 0 .. Cap
    BY BalanceIs DEF IInv, TicketsAgree, Unannounced, Due
  <1>2. Cap \in Nat \ {0} /\ c_step \in Slots /\ ring \in [Slots -> Values \cup {NoValue}]
    BY RingQueueAssumption DEF IInv, TypeOK
  <1> DEFINE n == Occupied
             e(i) == ring[(c_step + i - 1) % Cap]
  <1>3. Content = [i \in 1 .. n |-> e(i)] BY DEF Content
  <1>4. ASSUME NEW i \in 1 .. n
        PROVE  e(i) \in Values \cup {NoValue} /\ e(i) = ring[(c_step + (i - 1)) % Cap]
    <2>1. c_step + i - 1 \in Nat /\ c_step + i - 1 = c_step + (i - 1)
      BY <1>1, <1>2 DEF Slots
    <2>2. (c_step + i - 1) % Cap \in Slots BY <1>2, <2>1 DEF Slots
    <2> QED BY <1>2, <2>1, <2>2
  <1>5. n \in Nat BY <1>1, <1>2
  <1> HIDE DEF n, e
  <1>6. Content \in Seq(Values \cup {NoValue}) /\ Len(Content) = n
    BY <1>3, <1>4, <1>5
  <1>7. \A i \in 1 .. n : Content[i] = e(i)
    BY <1>3
  <1> QED BY <1>1, <1>4, <1>6, <1>7 DEF n, ContentShape

LEMMA SameSeq ==
  ASSUME NEW S, NEW s \in Seq(S), NEW t \in Seq(S),
         Len(s) = Len(t), \A i \in 1 .. Len(s) : s[i] = t[i]
  PROVE  s = t
  OBVIOUS

(* The end of a Push's critical section puts its argument. *)
LEMMA StorePuts ==
  ASSUME IInv, IInv', NEW p \in Producers, PushStore(p)
  PROVE  Fifo!Put(in[p])
  <1>1. TypeOK /\ Shape /\ Balance BY DEF IInv
  <1>2. ContentShape /\ ContentShape' BY ContentIs, PTL
  <1>3. /\ Cap \in Nat \ {0} /\ space_sem \in Nat /\ data_sem \in Nat
        /\ p_step \in Slots /\ c_step \in Slots /\ ring \in [Slots -> Values \cup {NoValue}]
        /\ Promised \in Nat /\ Unannounced \in Nat /\ Due \in Nat /\ Unreturned \in Nat
    BY <1>1, Numbers DEF TypeOK
  <1>4. /\ Goto(p, "stored") /\ pc[p] = "writing"
        /\ space_sem' = space_sem /\ data_sem' = data_sem /\ c_step' = c_step
        /\ out' = out /\ ring' = [ring EXCEPT ![p_step] = in[p]]
    BY DEF PushStore
  <1>5. /\ Promised > 0 /\ Unannounced' = Unannounced + 1 /\ Due' = Due
    BY <1>4, ProducerMoves
  <1>6. Occupied' = Occupied + 1 /\ Occupied \in 0 .. Cap - 1 /\ p_step = (c_step + Occupied) % Cap
    BY <1>1, <1>2, <1>3, <1>4, <1>5 DEF Balance, ContentShape
  <1>7. in[p] \in Values \cup {NoValue} BY <1>1 DEF TypeOK
  <1>8. /\ Content \in Seq(Values \cup {NoValue}) /\ Len(Content) = Occupied
        /\ Content' \in Seq(Values \cup {NoValue}) /\ Len(Content') = Occupied + 1
    BY <1>2, <1>6 DEF ContentShape
  <1>9. ASSUME NEW i \in 1 .. Occupied PROVE Content'[i] = Content[i]
    <2>1. i \in 1 .. Occupied' /\ i - 1 \in 0 .. Occupied - 1 BY <1>6
    <2>2. Content'[i] = ring'[(c_step + (i - 1)) % Cap]
      BY <1>2, <1>4, <2>1 DEF ContentShape
    <2>3. /\ (c_step + (i - 1)) % Cap \in Slots
          /\ (c_step + (i - 1)) % Cap # p_step
      BY <1>3, <1>6, <2>1, PlacesApart
    <2>4. Content[i] = ring[(c_step + (i - 1)) % Cap] BY <1>2 DEF ContentShape
    <2> QED BY <1>3, <1>4, <2>2, <2>3, <2>4
  <1>10. Content'[Occupied + 1] = in[p]
    <2>1. Occupied + 1 \in 1 .. Occupied' /\ (Occupied + 1) - 1 = Occupied BY <1>6
    <2>2. Content'[Occupied + 1] = ring'[(c_step + ((Occupied + 1) - 1)) % Cap]
      BY <1>2, <1>4, <2>1 DEF ContentShape
    <2> QED BY <1>3, <1>4, <1>6, <2>1, <2>2
  <1> DEFINE s == Content
             t == Content'
             n == Occupied
             v == in[p]
  <1>11. n \in Nat /\ n < Cap BY <1>3, <1>6
  <1>12. t = Append(s, v)
    <2>1. /\ s \in Seq(Values \cup {NoValue}) /\ Len(s) = n /\ v \in Values \cup {NoValue}
          /\ t \in Seq(Values \cup {NoValue}) /\ Len(t) = n + 1
          /\ \A i \in 1 .. n : t[i] = s[i]
          /\ t[n + 1] = v
      BY <1>7, <1>8, <1>9, <1>10
    <2> HIDE DEF s, t, n, v
    <2>2. /\ Append(s, v) \in Seq(Values \cup {NoValue}) /\ Len(Append(s, v)) = n + 1
          /\ \A i \in 1 .. n : Append(s, v)[i] = s[i]
          /\ Append(s, v)[n + 1] = v
      BY <1>11, <2>1
    <2>3. \A i \in 1 .. n + 1 : t[i] = Append(s, v)[i]
      BY <1>11, <2>1, <2>2
    <2> QED BY <2>1, <2>2, <2>3, SameSeq
  <1> QED BY <1>4, <1>8, <1>11, <1>12 DEF Fifo!Put

(* The end of a Pop's critical section takes the oldest item. *)
LEMMA LoadTakes ==
  ASSUME IInv, IInv', NEW c \in Consumers, PopLoad(c)
  PROVE  Fifo!Take(c)
  <1>1. TypeOK /\ Shape /\ Balance BY DEF IInv
  <1>2. ContentShape /\ ContentShape' BY ContentIs, PTL
  <1>3. /\ Cap \in Nat \ {0} /\ space_sem \in Nat /\ data_sem \in Nat
        /\ p_step \in Slots /\ c_step \in Slots /\ ring \in [Slots -> Values \cup {NoValue}]
        /\ Promised \in Nat /\ Unannounced \in Nat /\ Due \in Nat /\ Unreturned \in Nat
    BY <1>1, Numbers DEF TypeOK
  <1>4. /\ Goto(c, "loaded") /\ pc[c] = "reading"
        /\ data_sem' = data_sem /\ c_step' = (c_step + 1) % Cap
        /\ out' = [out EXCEPT ![c] = ring[c_step]] /\ ring' = ring
    BY DEF PopLoad
  <1>5. Due > 0 /\ Due' = Due - 1 /\ Unannounced' = Unannounced
    BY <1>4, ConsumerMoves
  <1>6. Occupied' = Occupied - 1 /\ Occupied \in 1 .. Cap
    BY <1>2, <1>3, <1>4, <1>5 DEF ContentShape
  <1>7. /\ Content \in Seq(Values \cup {NoValue}) /\ Len(Content) = Occupied
        /\ Content' \in Seq(Values \cup {NoValue}) /\ Len(Content') = Occupied - 1
    BY <1>2, <1>6 DEF ContentShape
  <1>8. Content[1] = ring[c_step]
    <2>1. 1 \in 1 .. Occupied /\ c_step + (1 - 1) = c_step BY <1>3, <1>6 DEF Slots
    <2>2. c_step % Cap = c_step BY <1>3, Wraps
    <2>3. Content[1] = ring[(c_step + (1 - 1)) % Cap] BY <1>2, <2>1 DEF ContentShape
    <2> QED BY <2>1, <2>2, <2>3
  <1>9. ASSUME NEW i \in 1 .. Occupied - 1 PROVE Content'[i] = Content[i + 1]
    <2>1. /\ i \in 1 .. Occupied' /\ i + 1 \in 1 .. Occupied /\ i \in 1 .. Cap
          /\ (i + 1) - 1 = i
      BY <1>3, <1>6
    <2>2. Content'[i] = ring[(((c_step + 1) % Cap) + (i - 1)) % Cap]
      BY <1>2, <1>4, <2>1 DEF ContentShape
    <2>3. (((c_step + 1) % Cap) + (i - 1)) % Cap = (c_step + i) % Cap
      BY <1>3, <2>1, StartAdvances
    <2>4. Content[i + 1] = ring[(c_step + ((i + 1) - 1)) % Cap] BY <1>2, <2>1 DEF ContentShape
    <2> QED BY <2>1, <2>2, <2>3, <2>4
  <1> DEFINE s == Content
             t == Content'
             n == Occupied
  <1>10. n \in Nat /\ n > 0 BY <1>3, <1>6
  <1>11. s # <<>> /\ Head(s) = s[1] /\ t = Tail(s)
    <2>1. /\ s \in Seq(Values \cup {NoValue}) /\ Len(s) = n
          /\ t \in Seq(Values \cup {NoValue}) /\ Len(t) = n - 1
          /\ \A i \in 1 .. n - 1 : t[i] = s[i + 1]
      BY <1>7, <1>9
    <2> HIDE DEF s, t, n
    <2>2. /\ s # <<>> /\ Head(s) = s[1]
          /\ Tail(s) \in Seq(Values \cup {NoValue}) /\ Len(Tail(s)) = n - 1
          /\ \A i \in 1 .. n - 1 : Tail(s)[i] = s[i + 1]
      BY <1>10, <2>1
    <2> QED BY <2>1, <2>2, SameSeq
  <1> QED BY <1>4, <1>8, <1>11 DEF Fifo!Take

(* Every step is a Put, a Take or nothing to the abstract queue. *)
LEMMA StepRefines == IInv /\ IInv' /\ [Next]_vars => [Fifo!Next]_(Fifo!vars)
  <1> SUFFICES ASSUME IInv, IInv', [Next]_vars PROVE [Fifo!Next]_(Fifo!vars)
    OBVIOUS
  <1>1. ASSUME UNCHANGED <<ring, c_step, out>>, Occupied' = Occupied
        PROVE  UNCHANGED Fifo!vars
    BY <1>1 DEF Fifo!vars, Content
  <1>2. /\ TypeOK
        /\ space_sem \in Nat /\ Cap \in Nat /\ Promised \in Nat /\ Unreturned \in Nat
    BY Numbers DEF IInv
  <1>3. /\ Occupied = Cap - space_sem - Promised - Unreturned
        /\ Occupied' = Cap - space_sem' - Promised' - Unreturned'
    BY DEF Occupied, Promised, Unreturned
  <1>4. ASSUME NEW p \in Producers, Push(p) PROVE [Fifo!Next]_(Fifo!vars)
    <2>1. CASE PushReserve(p)
      <3>1. Goto(p, "reserved") /\ pc[p] = "idle" /\ space_sem' = space_sem - 1
        BY <2>1 DEF PushReserve
      <3>2. Occupied' = Occupied BY <1>2, <1>3, <3>1, ProducerMoves
      <3> QED BY <1>1, <2>1, <3>2 DEF PushReserve
    <2>2. CASE PushLock(p)
      <3>1. Goto(p, "writing") /\ pc[p] = "reserved" /\ space_sem' = space_sem
        BY <2>2 DEF PushLock
      <3>2. Occupied' = Occupied BY <1>2, <1>3, <3>1, ProducerMoves
      <3> QED BY <1>1, <2>2, <3>2 DEF PushLock
    <2>3. CASE PushStore(p)
      <3>1. in[p] \in Values BY <2>3 DEF IInv, Shape, PushStore
      <3> QED BY <2>3, <3>1, StorePuts DEF Fifo!Next
    <2>4. CASE PushPost(p)
      <3>1. Goto(p, "idle") /\ pc[p] = "stored" /\ space_sem' = space_sem
        BY <2>4 DEF PushPost
      <3>2. Occupied' = Occupied BY <1>2, <1>3, <3>1, ProducerMoves
      <3> QED BY <1>1, <2>4, <3>2 DEF PushPost
    <2> QED BY <1>4, <2>1, <2>2, <2>3, <2>4 DEF Push
  <1>5. ASSUME NEW c \in Consumers, Pop(c) PROVE [Fifo!Next]_(Fifo!vars)
    <2>1. CASE PopReserve(c)
      <3>1. Goto(c, "reserved") /\ pc[c] = "idle" /\ space_sem' = space_sem
        BY <2>1 DEF PopReserve
      <3>2. Occupied' = Occupied BY <1>2, <1>3, <3>1, ConsumerMoves
      <3> QED BY <1>1, <2>1, <3>2 DEF PopReserve
    <2>2. CASE PopLock(c)
      <3>1. Goto(c, "reading") /\ pc[c] = "reserved" /\ space_sem' = space_sem
        BY <2>2 DEF PopLock
      <3>2. Occupied' = Occupied BY <1>2, <1>3, <3>1, ConsumerMoves
      <3> QED BY <1>1, <2>2, <3>2 DEF PopLock
    <2>3. CASE PopLoad(c)
      BY <2>3, LoadTakes DEF Fifo!Next
    <2>4. CASE PopPost(c)
      <3>1. Goto(c, "idle") /\ pc[c] = "loaded" /\ space_sem' = space_sem + 1
        BY <2>4 DEF PopPost
      <3>2. Occupied' = Occupied BY <1>2, <1>3, <3>1, ConsumerMoves
      <3> QED BY <1>1, <2>4, <3>2 DEF PopPost
    <2> QED BY <1>5, <2>1, <2>2, <2>3, <2>4 DEF Pop
  <1>6. CASE UNCHANGED vars
    BY <1>1, <1>6 DEF vars, Occupied, At
  <1> QED BY <1>4, <1>5, <1>6 DEF Next

(* The ring implements the bounded FIFO: no item is overwritten before it  *)
(* was read, read twice, reordered, or read before it was written.         *)
THEOREM Refinement == Spec => ImplementsFifo
  <1>1. Init => Fifo!Init
    <2> SUFFICES ASSUME Init PROVE Fifo!Init
      OBVIOUS
    <2>1. Occupied = 0
      BY InitInv, ContentIs, EmptyTickets DEF Init, ContentShape
    <2>2. Len(Content) = 0 /\ Content \in Seq(Values \cup {NoValue})
      BY <2>1, InitInv, ContentIs DEF ContentShape
    <2>3. Content = <<>> BY <2>2
    <2> QED BY <2>3 DEF Fifo!Init, Init
  <1> QED
    BY <1>1, Invariant, StepRefines, PTL DEF Spec, ImplementsFifo, Fifo!Spec
=============================================================================
