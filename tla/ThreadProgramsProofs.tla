------------------------ MODULE ThreadProgramsProofs ------------------------
(***************************************************************************)
(* What the thread programs, the loggers, the keyboard programs and the    *)
(* deployment keep, for any threads, tickets, records, characters, calls,  *)
(* processes and commands.                                                 *)
(***************************************************************************)
EXTENDS ThreadPrograms, TLAPS, SequenceTheorems

-----------------------------------------------------------------------------
(* One part at a time.                                                     *)

(* Nobody changes which part runs, and only its own steps are taken.       *)
LEMMA OwnSteps ==
  ASSUME Next
  PROVE  /\ part' = part
         /\ part = "sale" => \E s \in Sellers : Sale!Seller(s)
         /\ part = "log" => Log!Switch \/ \E w \in Writers : Log!Writer(w)
         /\ part = "keys" => Typing!Type \/ Typing!End \/ Typing!Program
         /\ part = "handle" => Handle!Owner \/ Handle!Routine
         /\ part = "service" => Service!Next
  BY DEF Next, Main, Routine, Others, Thread, notSale, notDemo, notLog, notKeys,
         notHandle,
         notService

(* A stuttering step changes no variable of any part. *)
LEMMA NoSteps ==
  ASSUME UNCHANGED all
  PROVE  UNCHANGED <<part, mutex, at, lock, ticket, loaded, sold, strategy, done, out, failed,
           program, typed, input, eof, edge, printed, ofHandle, ofService>>
  BY DEF all, shared, ofSale, ofLog, ofKeys

-----------------------------------------------------------------------------
(* The ticket sale.                                                        *)

(* With a lock the holder of the mutex is the one seller between lock and  *)
(* unlock, and the counter is behind the sales only between the holder's   *)
(* printing a number and its storing the next.                             *)
Inside == {"test", "sell", "load", "store", "leave"}
Locked ==
  /\ mutex \in Sellers \cup {Nobody}
  /\ at \in [Sellers -> Inside \cup {"enter", "done"}]
  /\ loaded \in [Sellers -> Int]
  /\ sold \in Seq(Int) /\ ticket \in Int
  /\ \A s \in Sellers : at[s] \in Inside <=> mutex = s
Counted ==
  /\ Len(sold) <= Total
  /\ \A i \in 1 .. Len(sold) : sold[i] = Total + 1 - i
  /\ mutex = Nobody => ticket = Total - Len(sold)
  /\ \A s \in Sellers :
       /\ at[s] \in {"test", "sell", "leave"} => ticket = Total - Len(sold)
       /\ at[s] = "sell" => ticket > 0
       /\ at[s] = "load" => ticket = Total - Len(sold) + 1
       /\ at[s] = "store" => loaded[s] = Total - Len(sold) + 1
       /\ at[s] = "done" => Len(sold) = Total

SaleInv == lock \in {"none", "mutex", "guard"} /\ (lock # "none" => Locked /\ Counted)

(* A sale begins with nothing sold. *)
LEMMA SaleInit == Sale!TicketsAssumption /\ Sale!Init => SaleInv
  BY DEF Sale!TicketsAssumption, Sale!Init, SaleInv, Locked, Counted, Inside

(* A seller's step, when there is a lock. *)
LEMMA SaleStep ==
  ASSUME Sale!TicketsAssumption, SaleInv, lock # "none", NEW s \in Sellers, Sale!Seller(s)
  PROVE  SaleInv'
  <1>1. /\ Total \in Nat /\ Nobody \notin Sellers /\ Locked /\ Counted
        /\ Len(sold) \in Nat /\ at[s] # "done"
    BY DEF Sale!TicketsAssumption, SaleInv, Locked, Sale!Seller, Sale!Enter,
           Sale!TestUnsafe, Sale!TestMutex, Sale!TestGuard,
           Sale!Sell, Sale!Load, Sale!Store, Sale!Leave
  <1>2. lock' = lock
    BY DEF Sale!Seller, Sale!Enter, Sale!TestUnsafe, Sale!TestMutex, Sale!TestGuard,
           Sale!Sell, Sale!Load, Sale!Store, Sale!Leave
  <1>3. CASE Sale!Enter(s)
    <2>1. Locked' BY <1>1, <1>3 DEF Sale!Enter, Locked, Inside
    <2>2. Counted' BY <1>1, <1>3 DEF Sale!Enter, Locked, Counted, Inside
    <2> QED BY <1>2, <2>1, <2>2 DEF SaleInv
  <1>4. CASE Sale!TestMutex(s) \/ Sale!TestGuard(s)
    <2>1. /\ at[s] = "test" /\ mutex = s /\ ticket = Total - Len(sold)
          /\ at' = [at EXCEPT ![s] = IF ticket > 0 THEN "sell" ELSE "done"]
          /\ mutex' = IF ticket > 0 THEN mutex ELSE Nobody
          /\ UNCHANGED <<ticket, loaded, sold>>
      BY <1>1, <1>4 DEF Sale!TestMutex, Sale!TestGuard, Locked, Counted, Inside
    <2>2. Locked' BY <1>1, <2>1 DEF Locked, Inside
    <2>3. Counted' BY <1>1, <2>1 DEF Locked, Counted, Inside
    <2> QED BY <1>2, <2>2, <2>3 DEF SaleInv
  <1>5. CASE Sale!Sell(s)
    <2>1. /\ at[s] = "sell" /\ mutex = s /\ ticket = Total - Len(sold) /\ ticket > 0
          /\ sold' = Append(sold, ticket) /\ at' = [at EXCEPT ![s] = "load"]
          /\ UNCHANGED <<ticket, mutex, loaded>>
      BY <1>1, <1>5 DEF Sale!Sell, Locked, Counted, Inside
    <2>2. /\ sold' \in Seq(Int) /\ Len(sold') = Len(sold) + 1
          /\ \A i \in 1 .. Len(sold) : sold'[i] = sold[i]
          /\ sold'[Len(sold) + 1] = ticket
      BY <1>1, <2>1 DEF Locked
    <2>3. Locked' BY <1>1, <2>1, <2>2 DEF Locked, Inside
    <2>4. \A i \in 1 .. Len(sold') : sold'[i] = Total + 1 - i
      BY <1>1, <2>1, <2>2 DEF Counted
    <2>5. \A t \in Sellers \ {s} : at'[t] = at[t] /\ at[t] \notin Inside /\ at[t] # "done"
      BY <1>1, <2>1 DEF Locked, Counted
    <2>6. at'[s] = "load" /\ mutex' # Nobody
      BY <1>1, <2>1 DEF Locked
    <2>7. Counted'
      BY <1>1, <2>1, <2>2, <2>4, <2>5, <2>6 DEF Counted, Inside
    <2> QED BY <1>2, <2>3, <2>7 DEF SaleInv
  <1>6. CASE Sale!Load(s)
    <2>1. Locked' BY <1>1, <1>6 DEF Sale!Load, Locked, Inside
    <2>2. Counted' BY <1>1, <1>6 DEF Sale!Load, Locked, Counted, Inside
    <2> QED BY <1>2, <2>1, <2>2 DEF SaleInv
  <1>7. CASE Sale!Store(s)
    <2>1. Locked' BY <1>1, <1>7 DEF Sale!Store, Locked, Inside
    <2>2. Counted' BY <1>1, <1>7 DEF Sale!Store, Locked, Counted, Inside
    <2> QED BY <1>2, <2>1, <2>2 DEF SaleInv
  <1>8. CASE Sale!Leave(s)
    <2>1. Locked' BY <1>1, <1>8 DEF Sale!Leave, Locked, Inside
    <2>2. Counted' BY <1>1, <1>8 DEF Sale!Leave, Locked, Counted, Inside
    <2> QED BY <1>2, <2>1, <2>2 DEF SaleInv
  <1>9. ~Sale!TestUnsafe(s) BY DEF Sale!TestUnsafe
  <1> QED BY <1>3, <1>4, <1>5, <1>6, <1>7, <1>8, <1>9 DEF Sale!Seller

(* No step of the programs breaks the invariant of the sale. *)
LEMMA SaleKept ==
  ASSUME ThreadProgramsAssumption, part = "sale" => SaleInv, [Next]_all
  PROVE  (part = "sale" => SaleInv)'
  <1>1. CASE UNCHANGED all
    BY <1>1, NoSteps DEF SaleInv, Locked, Counted
  <1>2. CASE Next /\ part = "sale"
    <2>1. PICK s \in Sellers : Sale!Seller(s)
      BY <1>2, OwnSteps
    <2>2. lock' = lock
      BY <2>1 DEF Sale!Seller, Sale!Enter, Sale!TestUnsafe, Sale!TestMutex,
                  Sale!TestGuard,
             Sale!Sell, Sale!Load, Sale!Store, Sale!Leave
    <2>3. CASE lock = "none" BY <1>2, <2>2, <2>3 DEF SaleInv
    <2>4. CASE lock # "none"
      BY <1>2, <2>1, <2>4, SaleStep DEF ThreadProgramsAssumption
    <2> QED BY <2>3, <2>4
  <1>3. CASE Next /\ part # "sale"
    BY <1>3, OwnSteps
  <1> QED BY <1>1, <1>2, <1>3

(* Under the mutex or the guard no ticket is sold twice, the numbers come  *)
(* in order, and a seller stops only when all are sold (03_ticket_mutex,   *)
(* 04_mutex_guard).                                                        *)
THEOREM SoldOnce == Spec => []TicketsSold
  <1>1. Init => (part = "sale" => SaleInv)
    BY ThreadProgramsAssumption, SaleInit DEF Init, ThreadProgramsAssumption
  <1>2. (part = "sale" => SaleInv) /\ [Next]_all => (part = "sale" => SaleInv)'
    BY ThreadProgramsAssumption, SaleKept
  <1>3. SaleInv => Sale!TicketsSold
    BY DEF SaleInv, Locked, Counted, Sale!TicketsSold
  <1>4. (part = "sale" => SaleInv) => TicketsSold
    BY <1>3 DEF TicketsSold
  <1> QED BY <1>1, <1>2, <1>4, PTL DEF Spec

-----------------------------------------------------------------------------
(* The Thread wrapper.                                                     *)

(* Without Handle!Detach no flag says detached; a thread that was joined has its  *)
(* flag cleared and no call under way; and until Handle!Stop a thread that may    *)
(* still run has its flag set, unless Handle!Start has not set it yet.            *)
NotDetached == ~everDetached => ~_isdetach /\ ~detached /\ owner # "detach"
JoinedOnce ==
  ~everDetached =>
    /\ ~joinedDead
    /\ reclaimed => thread = "over" /\ ~_isrunning /\ owner \in {"free", "gone"}
RunningFlagged ==
  ~everDetached /\ ~everStopped =>
    /\ ~cancelled
    /\ thread \in {"entry", "run"} => owner # "gone" /\ (_isrunning \/ owner = "mark")

HandleInv ==
  /\ owner \in {"free", "mark", "detach", "stop", "join", "destroy", "gone"}
  /\ thread \in {"none", "entry", "run", "flag", "over"}
  /\ \A x \in {_isrunning, _isdetach, detached, reclaimed, cancelled,
               joinedDead, everStopped, everDetached} : x \in BOOLEAN
  /\ owner = "mark" => thread # "none"
  /\ NotDetached /\ JoinedOnce /\ RunningFlagged

(* A new object has no thread and no flag set. *)
LEMMA HandleInit == Handle!Init => HandleInv
  BY DEF Handle!Init, HandleInv, NotDetached, JoinedOnce, RunningFlagged

(* A call of the owner, or what follows its test. *)
LEMMA OwnerStep == ASSUME HandleInv, Handle!Owner PROVE HandleInv'
  <1> USE DEF HandleInv, NotDetached, JoinedOnce, RunningFlagged, Handle!system,
            Handle!ghosts, Handle!Call
  <1>1. CASE Handle!Start
    <2>1. CASE UNCHANGED Handle!system
      BY <1>1, <2>1 DEF Handle!Start
    <2>2. CASE /\ owner' = "mark" /\ thread' = "entry"
               /\ detached' = FALSE /\ reclaimed' = FALSE /\ cancelled' = FALSE
      BY <1>1, <2>2 DEF Handle!Start
    <2> QED BY <1>1, <2>1, <2>2 DEF Handle!Start
  <1>2. CASE Handle!StartMark BY <1>2 DEF Handle!StartMark
  <1>3. CASE Handle!Detach BY <1>3 DEF Handle!Detach
  <1>4. CASE Handle!DetachSystem BY <1>4 DEF Handle!DetachSystem
  <1>5. CASE Handle!Join BY <1>5 DEF Handle!Join, Handle!Skips
  <1>6. CASE Handle!JoinSystem BY <1>6 DEF Handle!JoinSystem
  <1>7. CASE Handle!Stop BY <1>7 DEF Handle!Stop
  <1>8. CASE Handle!StopSystem
    <2>1. CASE cancelled' = TRUE /\ _isrunning' = FALSE /\ everStopped' = TRUE
      BY <1>8, <2>1 DEF Handle!StopSystem
    <2>2. CASE thread = "over" /\ UNCHANGED <<cancelled, _isrunning, everStopped>>
      BY <1>8, <2>2 DEF Handle!StopSystem
    <2> QED BY <1>8, <2>1, <2>2 DEF Handle!StopSystem
  <1>9. CASE Handle!Destroy BY <1>9 DEF Handle!Destroy, Handle!Skips
  <1> QED BY <1>1, <1>2, <1>3, <1>4, <1>5, <1>6, <1>7, <1>8, <1>9 DEF Handle!Owner

(* The thread detaches itself, clears the flag, or is over. *)
LEMMA RoutineStep == ASSUME HandleInv, Handle!Routine PROVE HandleInv'
  <1> USE DEF HandleInv, NotDetached, JoinedOnce, RunningFlagged, Handle!system, Handle!ghosts
  <1>1. CASE Handle!RoutineEntry BY <1>1 DEF Handle!RoutineEntry
  <1>2. CASE Handle!RoutineFlag BY <1>2 DEF Handle!RoutineFlag
  <1>3. CASE Handle!RoutineReturn BY <1>3 DEF Handle!RoutineReturn
  <1> QED BY <1>1, <1>2, <1>3 DEF Handle!Routine

(* No step of the programs breaks the invariant of the wrapper. *)
LEMMA HandleKept ==
  ASSUME part = "handle" => HandleInv, [Next]_all
  PROVE  (part = "handle" => HandleInv)'
  <1>1. CASE UNCHANGED all
    BY <1>1, NoSteps DEF ofHandle, HandleInv, NotDetached, JoinedOnce, RunningFlagged
  <1>2. CASE Next
    BY <1>2, OwnSteps, OwnerStep, RoutineStep
  <1> QED BY <1>1, <1>2

(* While nobody detaches, no call names a thread that is gone, and the     *)
(* object does not go before its thread unless Stop was called             *)
(* (02_Thread/Thread.hpp, Join and the destructor).                        *)
THEOREM NamesLiveThreads == Spec => []HandleSafe
  <1>1. Init => (part = "handle" => HandleInv)
    BY HandleInit DEF Init
  <1>2. (part = "handle" => HandleInv) /\ [Next]_all => (part = "handle" => HandleInv)'
    BY HandleKept
  <1>3. (part = "handle" => HandleInv) => HandleSafe
    BY DEF HandleInv, JoinedOnce, RunningFlagged, HandleSafe, Handle!HandleSafe
  <1> QED BY <1>1, <1>2, <1>3, PTL DEF Spec

-----------------------------------------------------------------------------
(* The keyboard programs.                                                  *)

(* Taking the first element from one sequence to the end of another does   *)
(* not change the two together, nor does taking the first n.               *)
LEMMA HeadMoved ==
  ASSUME NEW S, NEW s \in Seq(S), NEW t \in Seq(S), t # <<>>
  PROVE  Append(s, Head(t)) \o Tail(t) = s \o t
  <1>1. Head(t) \in S /\ Tail(t) \in Seq(S) /\ <<Head(t)>> \in Seq(S) OBVIOUS
  <1>2. t = <<Head(t)>> \o Tail(t)
    <2>1. 1 \in 1 .. Len(t) /\ Len(t) \in 1 .. Len(t) /\ Head(t) = t[1] OBVIOUS
    <2> QED BY <2>1, SubSeqRecursiveFirst, SubSeqFull, TailIsSubSeq
  <1>3. Append(s, Head(t)) = s \o <<Head(t)>> BY <1>1, AppendIsConcat
  <1>4. (s \o <<Head(t)>>) \o Tail(t) = s \o (<<Head(t)>> \o Tail(t))
    BY <1>1, ConcatAssociative
  <1> QED BY <1>2, <1>3, <1>4

(* The same for the first n elements. *)
LEMMA FrontMoved ==
  ASSUME NEW S, NEW s \in Seq(S), NEW t \in Seq(S), NEW n \in 0 .. Len(t)
  PROVE  /\ SubSeq(t, 1, n) \in Seq(S) /\ SubSeq(t, n + 1, Len(t)) \in Seq(S)
         /\ (s \o SubSeq(t, 1, n)) \o SubSeq(t, n + 1, Len(t)) = s \o t
  <1>1. SubSeq(t, 1, n) \in Seq(S) /\ SubSeq(t, n + 1, Len(t)) \in Seq(S)
    BY SubSeqProperties, LenProperties
  <1>2. SubSeq(t, 1, n) \o SubSeq(t, n + 1, Len(t)) = t
    <2>1. /\ Len(t) \in Nat /\ 1 \in 1 .. Len(t) + 1 /\ n \in 1 - 1 .. Len(t)
          /\ Len(t) \in n .. Len(t)
      BY LenProperties
    <2> QED BY <2>1, ConcatAdjacentSubSeq, SubSeqFull
  <1>3. PICK a \in Seq(S), b \in Seq(S) :
          a = SubSeq(t, 1, n) /\ b = SubSeq(t, n + 1, Len(t))
    BY <1>1
  <1>4. (s \o a) \o b = s \o (a \o b)
    BY ConcatAssociative, SMTT(30)
  <1> QED BY <1>1, <1>2, <1>3, <1>4

(* Append at the end of the second of two sequences is Append at the end   *)
(* of both.                                                                *)
LEMMA AppendAfter ==
  ASSUME NEW S, NEW s \in Seq(S), NEW t \in Seq(S), NEW e \in S
  PROVE  s \o Append(t, e) = Append(s \o t, e)
  <1>0. <<e>> \in Seq(S)
    OBVIOUS
  <1>1. PICK u \in Seq(S) : u = <<e>>
    BY <1>0
  <1>2. (s \o t) \o u = s \o (t \o u)
    BY ConcatAssociative
  <1>3. s \o t \in Seq(S)
    BY ConcatProperties
  <1> QED BY <1>1, <1>2, <1>3, AppendIsConcat

(* One character more is typed. *)
LEMMA TypedMore ==
  ASSUME NEW n \in Nat, NEW s \in Seq(Nat), NEW t \in Seq(Nat)
  PROVE  s \o t = [k \in 1 .. n |-> k] => s \o Append(t, n + 1) = [k \in 1 .. n + 1 |-> k]
  <1>1. PICK m \in Nat : m = n + 1
    OBVIOUS
  <1>2. s \o Append(t, m) = Append(s \o t, m)
    BY AppendAfter, SMTT(30)
  <1>3. Append([k \in 1 .. n |-> k], n + 1) = [k \in 1 .. n + 1 |-> k]
    OBVIOUS
  <1> QED BY <1>1, <1>2, <1>3

(* What was typed is what was printed and what is still to be read; an     *)
(* input that waits without an event is empty.                             *)
KeysInv ==
  /\ program \in {"nonblock", "edge"} /\ at \in {"setup", "wait", "read", "over"}
  /\ typed \in Nat /\ input \in Seq(Nat) /\ printed \in Seq(Nat)
  /\ eof \in BOOLEAN /\ edge \in BOOLEAN
  /\ Typing!TypedPrinted

(* Nothing is typed and nothing printed at first. *)
LEMMA KeysInit == Typing!Init => KeysInv
  <1>1. /\ <<>> \o <<>> = <<>> /\ <<>> = [k \in 1 .. 0 |-> k]
        /\ <<>> \in Seq(Nat) /\ 0 \in Nat
    BY ConcatEmptySeq
  <1> QED BY <1>1 DEF Typing!Init, KeysInv, Typing!TypedPrinted

(* The terminal and the programs: a character typed, a read that takes as  *)
(* many as fit, the reads after an edge.                                   *)
LEMMA KeysStep ==
  ASSUME ThreadProgramsAssumption, KeysInv, Typing!Type \/ Typing!End \/ Typing!Program
  PROVE  KeysInv'
  <1>1. CASE Typing!Type
    <2>1. /\ typed' \in Nat /\ input' \in Seq(Nat) /\ typed' = typed + 1
          /\ input' = Append(input, typed + 1)
      BY <1>1 DEF Typing!Type, KeysInv
    <2>2. printed \o input' = [k \in 1 .. typed' |-> k]
      BY <2>1, TypedMore DEF KeysInv, Typing!TypedPrinted
    <2> QED
      BY <1>1, <2>1, <2>2 DEF Typing!Type, Typing!Arrived, KeysInv, Typing!TypedPrinted
  <1>2. CASE Typing!End
    BY <1>2 DEF Typing!End, Typing!Arrived, KeysInv, Typing!TypedPrinted
  <1>3. CASE Typing!Setup
    BY <1>3 DEF Typing!Setup, KeysInv, Typing!TypedPrinted
  <1>4. CASE Typing!NonBlockRead
    <2>0. /\ ReadMax \in Nat \ {0} /\ input \in Seq(Nat) /\ printed \in Seq(Nat)
          /\ Len(input) \in Nat
      BY LenProperties DEF KeysInv, ThreadProgramsAssumption, Typing!KeyboardAssumption
    <2>1. PICK s \in Seq(Nat), t \in Seq(Nat) : s = printed /\ t = input
      BY <2>0
    <2>2. PICK n \in 0 .. Len(t) :
            n = IF Len(t) < ReadMax THEN Len(t) ELSE ReadMax
      BY <2>0, <2>1
    <2>3. /\ printed' = s \o SubSeq(t, 1, n)
          /\ input' = SubSeq(t, n + 1, Len(t))
          /\ at' = IF n = 0 /\ eof THEN "over" ELSE "read"
      BY <1>4, <2>1, <2>2 DEF Typing!NonBlockRead
    <2>4. PICK a \in Seq(Nat), b \in Seq(Nat) :
            a = SubSeq(t, 1, n) /\ b = SubSeq(t, n + 1, Len(t))
      <3>1. SubSeq(t, 1, n) \in Seq(Nat) /\ SubSeq(t, n + 1, Len(t)) \in Seq(Nat)
        BY FrontMoved
      <3> QED BY <3>1
    <2>5. s \o a \in Seq(Nat) /\ (s \o a) \o b = s \o t
      <3>1. s \o a \in Seq(Nat)
        BY ConcatProperties, SMTT(30)
      <3>2. (s \o SubSeq(t, 1, n)) \o SubSeq(t, n + 1, Len(t)) = s \o t
        BY FrontMoved, ZenonT(60)
      <3> QED BY <2>4, <3>1, <3>2
    <2>6. n = 0 => b = <<>>
      <3>1. n = 0 => Len(t) = 0
        BY <2>0, <2>1, <2>2
      <3> QED BY <3>1, <2>4, SubSeqEmpty
    <2>7. /\ printed' \in Seq(Nat) /\ input' \in Seq(Nat)
          /\ printed' \o input' = printed \o input
          /\ at' = "over" => eof /\ input' = <<>>
      BY <2>1, <2>3, <2>4, <2>5, <2>6
    <2> QED BY <1>4, <2>3, <2>7 DEF Typing!NonBlockRead, KeysInv, Typing!TypedPrinted
  <1>5. CASE Typing!EpollWait
    BY <1>5 DEF Typing!EpollWait, KeysInv, Typing!TypedPrinted
  <1>6. CASE Typing!EdgeRead
    <2>1. CASE input # <<>>
      <3>1. /\ input' \in Seq(Nat) /\ printed' \in Seq(Nat)
            /\ printed' \o input' = printed \o input
        <4>1. PICK s \in Seq(Nat), t \in Seq(Nat) : s = printed /\ t = input
          BY DEF KeysInv
        <4>2. t # <<>> /\ printed' = Append(s, Head(t)) /\ input' = Tail(t)
          BY <1>6, <2>1, <4>1 DEF Typing!EdgeRead
        <4> QED BY <4>1, <4>2, HeadMoved, SMTT(30)
      <3> QED BY <1>6, <2>1, <3>1 DEF Typing!EdgeRead, KeysInv, Typing!TypedPrinted
    <2>2. CASE input = <<>>
      BY <1>6, <2>2 DEF Typing!EdgeRead, KeysInv, Typing!TypedPrinted
    <2> QED BY <2>1, <2>2
  <1> QED BY <1>1, <1>2, <1>3, <1>4, <1>5, <1>6 DEF Typing!Program

(* No step of the programs breaks the invariant of the keyboard programs. *)
LEMMA KeysKept ==
  ASSUME ThreadProgramsAssumption, part = "keys" => KeysInv, [Next]_all
  PROVE  (part = "keys" => KeysInv)'
  <1>1. CASE UNCHANGED all
    BY <1>1, NoSteps DEF KeysInv, Typing!TypedPrinted
  <1>2. CASE Next
    BY <1>2, OwnSteps, KeysStep
  <1> QED BY <1>1, <1>2

(* What is typed is printed once and in order, no event that is not yet    *)
(* seen is lost (13_test_for_epoll), and nobody stops before the end.      *)
THEOREM TypedIsPrinted == Spec => [](part = "keys" => Typing!TypedPrinted)
  <1>1. Init => (part = "keys" => KeysInv)
    BY KeysInit DEF Init
  <1>2. (part = "keys" => KeysInv) /\ [Next]_all => (part = "keys" => KeysInv)'
    BY ThreadProgramsAssumption, KeysKept
  <1>3. (part = "keys" => KeysInv) => (part = "keys" => Typing!TypedPrinted)
    BY DEF KeysInv
  <1> QED BY <1>1, <1>2, <1>3, PTL DEF Spec

-----------------------------------------------------------------------------
(* The loggers: first what a record and the end of its line do to one      *)
(* destination.                                                            *)
EOL == Log!EndOfLine
Unit == (Writers \X Nat) \cup {EOL}

Marked(log) == \A i \in 1 .. Len(log) : log[i] = EOL <=> i % 2 = 0
RecordsOf(log) == {log[i] : i \in {j \in 1 .. Len(log) : j % 2 = 1}}
InOrder(u, v) == u[1] = v[1] => u[2] < v[2]
Ordered(log) ==
  \A i, j \in 1 .. Len(log) :
    i % 2 = 1 /\ j % 2 = 1 /\ i < j => InOrder(log[i], log[j])
Lines(log) == log \in Seq(Unit) /\ Marked(log) /\ Ordered(log)

(* A record is not taken for the end of a line. *)
LEMMA NotEOL ==
  ASSUME ThreadProgramsAssumption, NEW r \in Writers \X Nat
  PROVE  r # EOL
  BY DEF EOL, Log!EndOfLine, ThreadProgramsAssumption, Log!LoggerAssumption

(* A record after whole lines. *)
LEMMA RecordAdded ==
  ASSUME ThreadProgramsAssumption, NEW log, Lines(log), Len(log) % 2 = 0,
         NEW r \in Writers \X Nat, \A u \in RecordsOf(log) : InOrder(u, r)
  PROVE  /\ Lines(log \o <<r>>) /\ Len(log \o <<r>>) % 2 = 1
         /\ RecordsOf(log \o <<r>>) = RecordsOf(log) \cup {r}
  <1>1. PICK n \in Nat : n = Len(log)
    BY LenProperties DEF Lines
  <1>2. PICK more : more = log \o <<r>>
    OBVIOUS
  <1>3. /\ more \in Seq(Unit) /\ Len(more) = n + 1 /\ more[n + 1] = r
        /\ \A i \in 1 .. n : more[i] = log[i]
    BY <1>1, <1>2 DEF Lines, Unit
  <1>4. n % 2 = 0 /\ (n + 1) % 2 = 1
    BY <1>1
  <1>5. Marked(more)
    BY <1>1, <1>3, <1>4, NotEOL DEF Lines, Marked
  <1>6. Ordered(more)
    <2> SUFFICES ASSUME NEW i \in 1 .. n + 1, NEW j \in 1 .. n + 1,
                        i % 2 = 1, j % 2 = 1, i < j
                 PROVE  InOrder(more[i], more[j])
      BY <1>3 DEF Ordered
    <2>1. i \in 1 .. n /\ more[i] = log[i]
      BY <1>3
    <2>2. CASE j = n + 1
      <3>1. log[i] \in RecordsOf(log)
        BY <1>1, <2>1 DEF RecordsOf
      <3> QED BY <1>3, <2>1, <2>2, <3>1
    <2>3. CASE j # n + 1
      BY <1>1, <1>3, <2>1, <2>3, SMTT(30) DEF Lines, Ordered
    <2> QED BY <2>2, <2>3
  <1>7. RecordsOf(more) = RecordsOf(log) \cup {r}
    BY <1>1, <1>3, <1>4 DEF RecordsOf
  <1> QED BY <1>2, <1>3, <1>4, <1>5, <1>6, <1>7 DEF Lines

(* The end of a line after its record. *)
LEMMA LineEnded ==
  ASSUME NEW log, Lines(log), Len(log) % 2 = 1
  PROVE  /\ Lines(log \o <<EOL>>) /\ Len(log \o <<EOL>>) % 2 = 0
         /\ RecordsOf(log \o <<EOL>>) = RecordsOf(log)
  <1>1. PICK n \in Nat : n = Len(log)
    BY LenProperties DEF Lines
  <1>2. PICK more : more = log \o <<EOL>>
    OBVIOUS
  <1>3. /\ more \in Seq(Unit) /\ Len(more) = n + 1 /\ more[n + 1] = EOL
        /\ \A i \in 1 .. n : more[i] = log[i]
    BY <1>1, <1>2 DEF Lines, Unit
  <1>4. n % 2 = 1 /\ (n + 1) % 2 = 0
    BY <1>1
  <1>5. Marked(more)
    BY <1>1, <1>3, <1>4 DEF Lines, Marked
  <1>6. Ordered(more)
    BY <1>1, <1>3, <1>4 DEF Lines, Ordered
  <1>7. RecordsOf(more) = RecordsOf(log)
    BY <1>1, <1>3, <1>4 DEF RecordsOf
  <1> QED BY <1>2, <1>3, <1>4, <1>5, <1>6, <1>7 DEF Lines

(* A whole line at once. *)
LEMMA LineAdded ==
  ASSUME ThreadProgramsAssumption, NEW log, Lines(log), Len(log) % 2 = 0,
         NEW r \in Writers \X Nat, \A u \in RecordsOf(log) : InOrder(u, r)
  PROVE  /\ Lines(log \o <<r, EOL>>) /\ Len(log \o <<r, EOL>>) % 2 = 0
         /\ RecordsOf(log \o <<r, EOL>>) = RecordsOf(log) \cup {r}
  <1>1. log \o <<r, EOL>> = (log \o <<r>>) \o <<EOL>>
    <2>1. /\ log \in Seq(Unit) /\ r \in Unit /\ EOL \in Unit
          /\ <<r>> \in Seq(Unit) /\ <<r, EOL>> = Append(<<r>>, EOL)
      BY DEF Lines, Unit
    <2>2. log \o Append(<<r>>, EOL) = Append(log \o <<r>>, EOL)
      BY <2>1, AppendAfter
    <2>3. Append(log \o <<r>>, EOL) = (log \o <<r>>) \o <<EOL>>
      BY <2>1, AppendIsConcat, ConcatProperties
    <2> QED BY <2>1, <2>2, <2>3
  <1>2. /\ Lines(log \o <<r>>) /\ Len(log \o <<r>>) % 2 = 1
        /\ RecordsOf(log \o <<r>>) = RecordsOf(log) \cup {r}
    BY RecordAdded
  <1>3. /\ Lines((log \o <<r>>) \o <<EOL>>) /\ Len((log \o <<r>>) \o <<EOL>>) % 2 = 0
        /\ RecordsOf((log \o <<r>>) \o <<EOL>>) = RecordsOf(log \o <<r>>)
    BY <1>2, LineEnded
  <1> QED BY <1>1, <1>2, <1>3

(* What whole lines hold are records. *)
LEMMA RecordsType ==
  ASSUME NEW log, Lines(log)
  PROVE  RecordsOf(log) \subseteq Writers \X Nat
  <1>1. ASSUME NEW i \in 1 .. Len(log), i % 2 = 1
        PROVE  log[i] \in Writers \X Nat
    <2>1. log[i] \in Unit /\ log[i] # EOL
      BY <1>1 DEF Lines, Marked
    <2> QED BY <2>1 DEF Unit
  <1> QED BY <1>1 DEF RecordsOf

(* The strategy's mutex is held from SyncLog to the return.  With the      *)
(* console nothing is in the file yet, with the file nobody is between a   *)
(* text and its end; and just then a line on the console is half written.  *)
Holding == {"text", "open", "end"}
HalfWritten == \E w \in Writers : at[w] = "end"
LogControl ==
  /\ strategy \in {"console", "file"}
  /\ mutex \in Writers \cup {Nobody}
  /\ at \in [Writers -> Holding \cup {"idle", "flush"}]
  /\ \A w \in Writers : at[w] \in Holding <=> mutex = w
  /\ strategy = "console" => out.file = <<>> /\ \A w \in Writers : at[w] # "open"
  /\ strategy = "file" => \A w \in Writers : at[w] \notin {"text", "end"}

(* Every record logged is in one of the destinations, or failed.           *)
Count(w) == IF at[w] = "end" THEN done[w] + 1 ELSE done[w]
Known == RecordsOf(out.console) \cup RecordsOf(out.file) \cup failed
LogKept ==
  /\ out \in [console : Seq(Unit), file : Seq(Unit)]
  /\ done \in [Writers -> Nat]
  /\ failed \subseteq Writers \X Nat
  /\ Lines(out.console) /\ Len(out.console) % 2 = IF HalfWritten THEN 1 ELSE 0
  /\ Lines(out.file) /\ Len(out.file) % 2 = 0
  /\ \A w \in Writers, n \in Nat : <<w, n>> \in Known <=> n \in 1 .. Count(w)
  /\ \A u \in RecordsOf(out.console), v \in RecordsOf(out.file) : InOrder(u, v)

LogInv == LogControl /\ LogKept

(* An empty destination holds whole lines. *)
LEMMA EmptyLog ==
  /\ Lines(<<>>) /\ Len(<<>>) % 2 = 0 /\ RecordsOf(<<>>) = {}
  BY DEF Lines, Marked, Ordered, RecordsOf

(* Nothing is logged at first. *)
LEMMA LogInit == Log!Init => LogInv
  <1> SUFFICES ASSUME Log!Init PROVE LogInv
    OBVIOUS
  <1>1. /\ out = [console |-> <<>>, file |-> <<>>] /\ failed = {}
        /\ at = [w \in Writers |-> "idle"] /\ done = [w \in Writers |-> 0]
        /\ strategy \in {"console", "file"} /\ mutex = Nobody
    BY DEF Log!Init
  <1>2. LogControl
    BY <1>1, ThreadProgramsAssumption
    DEF LogControl, Holding, ThreadProgramsAssumption, Log!LoggerAssumption
  <1>3. LogKept
    <2>1. Known = {}
      BY <1>1, EmptyLog DEF Known
    <2>2. ~HalfWritten /\ \A w \in Writers : Count(w) = 0
      BY <1>1 DEF HalfWritten, Count
    <2>3. out.console = <<>> /\ out.file = <<>>
      BY <1>1
    <2>4. out \in [console : Seq(Unit), file : Seq(Unit)]
      BY <1>1
    <2> QED BY <1>1, <2>1, <2>2, <2>3, <2>4, EmptyLog DEF LogKept
  <1> QED BY <1>2, <1>3 DEF LogInv

(* The next record of a writer comes after all its others.                 *)
LEMMA NextInOrder ==
  ASSUME LogKept, NEW w \in Writers, at[w] # "end"
  PROVE  /\ Log!Record(w) \in Writers \X Nat
         /\ \A u \in RecordsOf(out.console) \cup RecordsOf(out.file) :
              InOrder(u, Log!Record(w))
  <1>1. Log!Record(w) = <<w, done[w] + 1>> /\ done[w] \in Nat
    BY DEF Log!Record, LogKept
  <1>2. ASSUME NEW u \in RecordsOf(out.console) \cup RecordsOf(out.file)
        PROVE  InOrder(u, Log!Record(w))
    <2>1. u \in Writers \X Nat /\ u \in Known
      BY RecordsType DEF LogKept, Known
    <2>2. PICK v \in Writers, n \in Nat : u = <<v, n>>
      BY <2>1
    <2>3. v = w => n <= done[w]
      BY <1>1, <2>1, <2>2 DEF LogKept, Count
    <2> QED BY <1>1, <2>2, <2>3 DEF InOrder
  <1> QED BY <1>1, <1>2

(* A writer that only goes on leaves what was written alone.               *)
LEMMA GoesOn ==
  ASSUME LogKept, NEW w \in Writers, NEW place,
         at \in [Writers -> Holding \cup {"idle", "flush"}],
         at[w] # "end", place # "end", Log!Go(w, place), UNCHANGED <<done, out, failed>>
  PROVE  LogKept'
  <1>1. /\ HalfWritten' = HalfWritten /\ Known' = Known
        /\ \A v \in Writers : Count(v)' = Count(v)
    BY DEF HalfWritten, Known, Count, Log!Go
  <1> QED BY <1>1 DEF LogKept

(* ENABLE_FILE_LOG: nobody is inside the strategy it takes away. *)
LEMMA SwitchStep ==
  ASSUME LogInv, Log!Switch
  PROVE  LogInv'
  <1>1. LogControl' BY DEF LogInv, LogControl, Log!Switch
  <1>2. HalfWritten' = HalfWritten /\ Known' = Known /\ \A v \in Writers : Count(v)' = Count(v)
    BY DEF HalfWritten, Known, Count, Log!Switch
  <1>3. LogKept' BY <1>2 DEF LogInv, LogKept, Log!Switch
  <1> QED BY <1>1, <1>3 DEF LogInv

(* A writer puts its record together. *)
LEMMA ComposeStep ==
  ASSUME LogInv, NEW w \in Writers, Log!Compose(w)
  PROVE  LogInv'
  <1>1. LogControl' BY DEF LogInv, LogControl, Log!Compose, Log!Go, Holding
  <1>2. LogKept' BY GoesOn DEF LogInv, LogControl, Log!Compose
  <1> QED BY <1>1, <1>2 DEF LogInv

(* A writer takes the strategy's mutex. *)
LEMMA SyncLogStep ==
  ASSUME LogInv, NEW w \in Writers, Log!SyncLog(w), ThreadProgramsAssumption
  PROVE  LogInv'
  <1>1. Nobody \notin Writers
    BY DEF ThreadProgramsAssumption, Log!LoggerAssumption
  <1>2. LogControl' BY <1>1 DEF LogInv, LogControl, Log!SyncLog, Log!Go, Holding
  <1>3. LogKept' BY GoesOn DEF LogInv, LogControl, Log!SyncLog
  <1> QED BY <1>2, <1>3 DEF LogInv

(* The text on the console: a line is half written now. *)
LEMMA TextStep ==
  ASSUME LogInv, NEW w \in Writers, Log!Text(w), ThreadProgramsAssumption
  PROVE  LogInv'
  <1> DEFINE r == Log!Record(w)
  <1>1. /\ at[w] = "text" /\ at' = [at EXCEPT ![w] = "end"] /\ strategy = "console"
        /\ out' = [out EXCEPT !["console"] = @ \o <<r>>]
        /\ UNCHANGED <<strategy, mutex, done, failed>>
    BY DEF LogInv, LogControl, Log!Text, Log!Go, Log!Put
  <1>2. out'.console = out.console \o <<r>> /\ out'.file = out.file
    BY <1>1 DEF LogInv, LogKept
  <1>3. LogControl'
    BY <1>1, <1>2 DEF LogInv, LogControl, Holding
  <1>4. ~HalfWritten /\ HalfWritten'
    BY <1>1 DEF LogInv, LogControl, Holding, HalfWritten
  <1>5. /\ r \in Writers \X Nat
        /\ \A u \in RecordsOf(out.console) \cup RecordsOf(out.file) : InOrder(u, r)
    BY <1>1, NextInOrder DEF LogInv
  <1>6. /\ Lines(out'.console) /\ Len(out'.console) % 2 = 1
        /\ RecordsOf(out'.console) = RecordsOf(out.console) \cup {r}
    <2>1. PICK log : log = out.console /\ Lines(log) /\ Len(log) % 2 = 0
      BY <1>4 DEF LogInv, LogKept
    <2>2. \A u \in RecordsOf(log) : InOrder(u, r)
      BY <1>5, <2>1
    <2>3. /\ Lines(log \o <<r>>) /\ Len(log \o <<r>>) % 2 = 1
          /\ RecordsOf(log \o <<r>>) = RecordsOf(log) \cup {r}
      <3> HIDE DEF r
      <3> QED BY <1>5, <2>1, <2>2, RecordAdded
    <2> QED BY <1>2, <2>1, <2>3
  <1>7. /\ Known' = Known \cup {r} /\ r = <<w, done[w] + 1>> /\ done[w] \in Nat
        /\ RecordsOf(out'.file) = {}
    BY <1>1, <1>2, <1>6, EmptyLog DEF Known, Log!Record, LogInv, LogControl, LogKept
  <1>8. \A v \in Writers, n \in Nat : <<v, n>> \in Known' <=> n \in 1 .. Count(v)'
    <2> SUFFICES ASSUME NEW v \in Writers, NEW n \in Nat
                 PROVE  <<v, n>> \in Known' <=> n \in 1 .. Count(v)'
      OBVIOUS
    <2>1. <<v, n>> \in Known <=> n \in 1 .. Count(v)
      BY DEF LogInv, LogKept
    <2>2. CASE v = w
      BY <1>1, <1>7, <2>1, <2>2 DEF Count, LogInv, LogControl
    <2>3. CASE v # w
      BY <1>1, <1>7, <2>1, <2>3 DEF Count, LogInv, LogControl
    <2> QED BY <2>2, <2>3
  <1>9. out' \in [console : Seq(Unit), file : Seq(Unit)]
    BY <1>1, <1>2, <1>6 DEF LogInv, LogKept, Lines
  <1>10. LogKept'
    BY <1>1, <1>2, <1>4, <1>6, <1>7, <1>8, <1>9 DEF LogInv, LogKept
  <1> QED BY <1>3, <1>10 DEF LogInv

(* The end of the line: the record is logged. *)
LEMMA EndlStep ==
  ASSUME LogInv, NEW w \in Writers, Log!Endl(w), ThreadProgramsAssumption
  PROVE  LogInv'
  <1>1. /\ at[w] = "end" /\ at' = [at EXCEPT ![w] = "idle"] /\ strategy = "console"
        /\ out' = [out EXCEPT !["console"] = @ \o <<EOL>>]
        /\ mutex' = IF mutex = w THEN Nobody ELSE mutex
        /\ done' = [done EXCEPT ![w] = @ + 1]
        /\ UNCHANGED <<strategy, failed>>
    BY DEF LogInv, LogControl, Log!Endl, Log!Return, Log!Go, Log!Put, EOL
  <1>2. out'.console = out.console \o <<EOL>> /\ out'.file = out.file
    BY <1>1 DEF LogInv, LogKept
  <1>3. LogControl'
    <2>1. Nobody \notin Writers
      BY DEF ThreadProgramsAssumption, Log!LoggerAssumption
    <2> QED BY <1>1, <1>2, <2>1 DEF LogInv, LogControl, Holding
  <1>4. HalfWritten /\ ~HalfWritten'
    BY <1>1 DEF LogInv, LogControl, Holding, HalfWritten
  <1>5. /\ Lines(out'.console) /\ Len(out'.console) % 2 = 0
        /\ RecordsOf(out'.console) = RecordsOf(out.console)
    BY <1>2, <1>4, LineEnded DEF LogInv, LogKept
  <1>6. Known' = Known /\ \A v \in Writers : Count(v)' = Count(v)
    BY <1>1, <1>2, <1>5 DEF Known, Count, LogInv, LogControl, LogKept
  <1>7. out' \in [console : Seq(Unit), file : Seq(Unit)] /\ done' \in [Writers -> Nat]
    <2>1. out' \in [console : Seq(Unit), file : Seq(Unit)]
      BY <1>1, <1>2, <1>5 DEF LogInv, LogKept, Lines
    <2>2. done' \in [Writers -> Nat]
      BY <1>1 DEF LogInv, LogKept
    <2> QED BY <2>1, <2>2
  <1>8. LogKept'
    BY <1>1, <1>2, <1>4, <1>5, <1>6, <1>7 DEF LogInv, LogKept
  <1> QED BY <1>3, <1>8 DEF LogInv

(* A line in the file at once, or the file did not open. *)
LEMMA OpenAppendStep ==
  ASSUME LogInv, NEW w \in Writers, Log!OpenAppend(w), ThreadProgramsAssumption
  PROVE  LogInv'
  <1> DEFINE r == Log!Record(w)
  <1>1. /\ at[w] = "open" /\ at' = [at EXCEPT ![w] = "idle"] /\ strategy = "file"
        /\ mutex' = IF mutex = w THEN Nobody ELSE mutex
        /\ done' = [done EXCEPT ![w] = @ + 1]
        /\ strategy' = strategy
    BY DEF LogInv, LogControl, Log!OpenAppend, Log!Return, Log!Go
  <1>2. \/ out' = [out EXCEPT !["file"] = @ \o <<r, EOL>>] /\ failed' = failed
        \/ out' = out /\ failed' = failed \cup {r}
    BY DEF Log!OpenAppend, Log!Put, EOL
  <1>3. out'.console = out.console
    BY <1>2 DEF LogInv, LogKept
  <1>4. LogControl'
    <2>1. Nobody \notin Writers
      BY DEF ThreadProgramsAssumption, Log!LoggerAssumption
    <2> QED BY <1>1, <2>1 DEF LogInv, LogControl, Holding
  <1>5. ~HalfWritten /\ ~HalfWritten'
    BY <1>1 DEF LogInv, LogControl, HalfWritten
  <1>6. /\ r \in Writers \X Nat /\ r = <<w, done[w] + 1>> /\ done[w] \in Nat
        /\ \A u \in RecordsOf(out.console) \cup RecordsOf(out.file) : InOrder(u, r)
    BY <1>1, NextInOrder DEF LogInv, Log!Record, LogKept
  <1>7. /\ out' \in [console : Seq(Unit), file : Seq(Unit)] /\ failed' \subseteq Writers \X Nat
        /\ Lines(out'.file) /\ Len(out'.file) % 2 = 0 /\ Known' = Known \cup {r}
        /\ RecordsOf(out'.file) \subseteq RecordsOf(out.file) \cup {r}
    <2>1. CASE out' = [out EXCEPT !["file"] = @ \o <<r, EOL>>] /\ failed' = failed
      <3>1. out'.file = out.file \o <<r, EOL>>
        BY <2>1 DEF LogInv, LogKept
      <3>2. /\ Lines(out'.file) /\ Len(out'.file) % 2 = 0
            /\ RecordsOf(out'.file) = RecordsOf(out.file) \cup {r}
        <4>1. PICK log : log = out.file /\ Lines(log) /\ Len(log) % 2 = 0
          BY DEF LogInv, LogKept
        <4>2. \A u \in RecordsOf(log) : InOrder(u, r)
          BY <1>6, <4>1
        <4>3. /\ Lines(log \o <<r, EOL>>) /\ Len(log \o <<r, EOL>>) % 2 = 0
              /\ RecordsOf(log \o <<r, EOL>>) = RecordsOf(log) \cup {r}
          <5> HIDE DEF r
          <5> QED BY <1>6, <4>1, <4>2, LineAdded
        <4> QED BY <3>1, <4>1, <4>3
      <3>3. out' \in [console : Seq(Unit), file : Seq(Unit)]
        BY <2>1, <3>1, <3>2 DEF LogInv, LogKept, Lines
      <3> QED BY <1>3, <2>1, <3>2, <3>3 DEF Known, LogInv, LogKept
    <2>2. CASE out' = out /\ failed' = failed \cup {r}
      BY <1>6, <2>2 DEF Known, LogInv, LogKept
    <2> QED BY <1>2, <2>1, <2>2
  <1>8. \A v \in Writers, n \in Nat : <<v, n>> \in Known' <=> n \in 1 .. Count(v)'
    <2> SUFFICES ASSUME NEW v \in Writers, NEW n \in Nat
                 PROVE  <<v, n>> \in Known' <=> n \in 1 .. Count(v)'
      OBVIOUS
    <2>1. <<v, n>> \in Known <=> n \in 1 .. Count(v)
      BY DEF LogInv, LogKept
    <2>2. CASE v = w
      BY <1>1, <1>6, <1>7, <2>1, <2>2 DEF Count, LogInv, LogControl, LogKept
    <2>3. CASE v # w
      BY <1>1, <1>6, <1>7, <2>1, <2>3 DEF Count, LogInv, LogControl, LogKept
    <2> QED BY <2>2, <2>3
  <1>9. \A u \in RecordsOf(out'.console), v \in RecordsOf(out'.file) : InOrder(u, v)
    BY <1>3, <1>6, <1>7 DEF LogInv, LogKept
  <1>10. done' \in [Writers -> Nat]
    BY <1>1 DEF LogInv, LogKept
  <1>11. LogKept'
    BY <1>3, <1>5, <1>7, <1>8, <1>9, <1>10 DEF LogInv, LogKept
  <1> QED BY <1>4, <1>11 DEF LogInv

(* No step of the programs breaks the invariant of the loggers. *)
LEMMA LogStays ==
  ASSUME ThreadProgramsAssumption, part = "log" => LogInv, [Next]_all
  PROVE  (part = "log" => LogInv)'
  <1>1. CASE UNCHANGED all
    <2>1. HalfWritten' = HalfWritten /\ Known' = Known /\ \A v \in Writers : Count(v)' = Count(v)
      BY <1>1, NoSteps DEF HalfWritten, Known, Count
    <2> QED BY <1>1, <2>1, NoSteps DEF LogInv, LogControl, LogKept
  <1>2. CASE Next
    BY <1>2, OwnSteps, SwitchStep, ComposeStep, SyncLogStep, TextStep, EndlStep, OpenAppendStep
    DEF Log!Writer
  <1> QED BY <1>1, <1>2

(* The invariant says what the property of the loggers says. *)
LEMMA LogWhole ==
  ASSUME LogInv
  PROVE  Log!LinesWhole
  <1>1. /\ DOMAIN out = {"console", "file"}
        /\ DOMAIN out.console = 1 .. Len(out.console) /\ DOMAIN out.file = 1 .. Len(out.file)
    BY LenProperties DEF LogInv, LogKept
  <1>2. Known = UNION {{w} \X (1 .. Count(w)) : w \in Writers}
    <2>1. Known \subseteq Writers \X Nat
      BY RecordsType DEF LogInv, LogKept, Known
    <2>2. \A w \in Writers : Count(w) \in Nat
      BY DEF LogInv, LogKept, Count
    <2>3. ASSUME NEW u \in Known PROVE u \in UNION {{w} \X (1 .. Count(w)) : w \in Writers}
      <3>1. PICK w \in Writers, n \in Nat : u = <<w, n>>
        BY <2>1
      <3> QED BY <3>1 DEF LogInv, LogKept
    <2>4. ASSUME NEW w \in Writers, NEW n \in 1 .. Count(w) PROVE <<w, n>> \in Known
      BY <2>2 DEF LogInv, LogKept
    <2> QED BY <2>3, <2>4
  <1>3. /\ {out.console[i] : i \in {i \in DOMAIN out.console : i % 2 = 1}} = RecordsOf(out.console)
        /\ {out.file[i] : i \in {i \in DOMAIN out.file : i % 2 = 1}} = RecordsOf(out.file)
    BY <1>1 DEF RecordsOf
  <1>4. \A where \in DOMAIN out : \A i \in DOMAIN out[where] :
          out[where][i] = Log!EndOfLine <=> i % 2 = 0
    BY <1>1 DEF LogInv, LogKept, Lines, Marked, EOL
  <1>5. \A where \in DOMAIN out : \A i, j \in {i \in DOMAIN out[where] : i % 2 = 1} :
          i < j => (out[where][i][1] = out[where][j][1] => out[where][i][2] < out[where][j][2])
    BY <1>1 DEF LogInv, LogKept, Lines, Ordered, InOrder
  <1>6. \A u \in RecordsOf(out.console), v \in RecordsOf(out.file) :
          u[1] = v[1] => u[2] < v[2]
    BY DEF LogInv, LogKept, InOrder
  <1>7. RecordsOf(out.console) \cup RecordsOf(out.file) \cup failed =
          UNION {{w} \X (1 .. IF at[w] = "end" THEN done[w] + 1 ELSE done[w]) : w \in Writers}
    BY <1>2 DEF Known, Count
  <1> QED BY <1>3, <1>4, <1>5, <1>6, <1>7 DEF Log!LinesWhole

(* However the writers interleave, each record is one line, in its         *)
(* writer's order, and none is missing but those for which the file did    *)
(* not open (Log.hpp, ConsoleLogStrategy and FileLogStrategy); and the     *)
(* keyboard programs print what is typed.                                  *)
THEOREM OutputIsWhole == Spec => []OutputWhole
  <1>1. Init => (part = "log" => LogInv)
    BY LogInit DEF Init
  <1>2. (part = "log" => LogInv) /\ [Next]_all => (part = "log" => LogInv)'
    BY ThreadProgramsAssumption, LogStays
  <1>3. (part = "log" => LogInv) /\ (part = "keys" => Typing!TypedPrinted) => OutputWhole
    BY LogWhole DEF OutputWhole
  <1> QED BY <1>1, <1>2, <1>3, TypedIsPrinted, PTL DEF Spec

-----------------------------------------------------------------------------
(* The deployment.                                                         *)
Kinds == {"free", "starting", "server", "deaf", "squatter", "client", "stranger"}
ServiceTypes ==
  /\ server \in Service!Servers
  /\ who \in [Pids -> Kinds] /\ termed \subseteq Pids
  /\ mishap \in BOOLEAN /\ clean \in BOOLEAN
  /\ step \in {"idle", "start", "record", "stop", "term", "poll", "kill"}

(* One process has the port, and only a server that goes on after a        *)
(* failure runs without it.                                                *)
OneListens ==
  /\ \A p, q \in Pids :
       who[p] \in {"server", "squatter"} /\ who[q] \in {"server", "squatter"} => p = q
  /\ \A p \in Pids : who[p] = "deaf" => ~server.orDie

(* Servers run by hand have no script.                                     *)
ByScript ==
  /\ step # "idle" => server.scripted
  /\ ~server.scripted => ~clean /\ said = "nothing"

(* Only the process that stop waits for was told to terminate.             *)
Told ==
  /\ step \notin {"poll", "kill"} => termed = {}
  /\ \A p \in termed : PID = {p} /\ who[p] # "free"

(* A stop that has found the server and nothing else stays with it.        *)
NoneStarting == \A p \in Pids : who[p] # "starting"
FoundServer ==
  \E p \in Pids :
    /\ PID = {p} /\ who[p] \in {"server", "free"}
    /\ \A q \in Pids : who[q] = "server" => q = p
CleanStop ==
  /\ step = "stop" => strangers = {}
  /\ clean => strangers = {}
  /\ clean /\ step \in {"term", "poll", "kill"} => NoneStarting /\ FoundServer
  /\ clean /\ step = "idle" /\ said = "stopped" =>
       NoneStarting /\ \A p \in Pids : who[p] # "server"

(* Without a mishap the started process is coming up or there.             *)
ComesUp ==
  /\ step = "record" /\ ~mishap =>
       /\ \E p \in Pids : who[p] \in {"starting", "server"}
       /\ \A p \in Pids : who[p] # "squatter"
  /\ step = "idle" /\ said = "failed" => mishap

ServiceInv ==
  ServiceTypes /\ OneListens /\ ByScript /\ Told /\ CleanStop /\ ComesUp

(* server.sh starts a server that may take a port in TIME_WAIT.            *)
LEMMA ScriptedReuses ==
  ASSUME ServiceTypes
  PROVE  /\ server.scripted => server.reuse
         /\ server.scripted \in BOOLEAN /\ server.orDie \in BOOLEAN
  <1> DEFINE Good(s) ==
        /\ s.scripted => s.reuse
        /\ s.scripted \in BOOLEAN /\ s.orDie \in BOOLEAN
  <1>1. \A a, b, c, d \in BOOLEAN : (a => c) => Good(Service!Kind(a, b, c, d))
    BY DEF Service!Kind
  <1> HIDE DEF Good
  <1>2. \A s \in Service!Servers : Good(s)
    BY <1>1
    DEF Service!Servers, Service!UdpEcho, Service!UdpDict, Service!UdpChat, Service!TcpEcho,
        Service!TcpProcess, Service!TcpThread, Service!TcpPool, Service!Custom,
        Service!HttpServer, Service!Select, Service!Poll, Service!EpollEcho,
        Service!LineEcho, Service!Reactor
  <1> QED BY <1>2 DEF ServiceTypes, Good

(* At first there are no processes and no script runs. *)
LEMMA ServiceInit == Service!Init => ServiceInv
  BY DEF Service!Init, ServiceInv, ServiceTypes, OneListens, ByScript, Told, CleanStop,
         ComesUp, Kinds

(* Init of a server: it has the port only if nobody has, and one that      *)
(* server.sh has started fails only for a mishap or because another        *)
(* server is there.                                                        *)
LEMMA SetUpStep ==
  ASSUME ServiceInv, NEW p \in Pids, Service!SetUp(p)
  PROVE  ServiceInv'
  <1>1. /\ who[p] = "starting" /\ UNCHANGED <<server, timewait>>
        /\ UNCHANGED <<step, command, commands, PID, polls, said, clean, strangers, pidfile>>
        /\ who \in [Pids -> Kinds] /\ mishap \in BOOLEAN /\ termed \subseteq Pids
    BY DEF Service!SetUp, Service!script, ServiceInv, ServiceTypes
  <1>2. \/ /\ ~Service!BindFails /\ who' = [who EXCEPT ![p] = "server"]
           /\ UNCHANGED <<termed, mishap>>
        \/ /\ \/ server.orDie /\ who' = [who EXCEPT ![p] = "free"] /\ termed' = termed \ {p}
              \/ ~server.orDie /\ who' = [who EXCEPT ![p] = "deaf"] /\ termed' = termed
           /\ Service!BindFails \/ mishap' = TRUE
           /\ mishap' \in BOOLEAN /\ (mishap => mishap')
    BY <1>1 DEF Service!SetUp, Service!Become
  <1>3. /\ ~Service!BindFails => \A q \in Pids : who[q] \notin {"server", "squatter"}
        /\ Service!BindFails /\ server.scripted =>
             \E q \in Pids : who[q] \in {"server", "squatter"}
    BY ScriptedReuses
    DEF ServiceInv, Service!BindFails, Service!Listening, Service!Are
  <1>4. ServiceTypes'
    BY <1>1, <1>2 DEF ServiceInv, ServiceTypes, Kinds
  <1>5. OneListens'
    BY <1>1, <1>2, <1>3 DEF ServiceInv, OneListens
  <1>6. ByScript' /\ Told'
    BY <1>1, <1>2 DEF ServiceInv, ByScript, Told
  <1>7. CleanStop'
    BY <1>1 DEF ServiceInv, CleanStop, NoneStarting
  <1>8. ComesUp'
    BY <1>1, <1>2, <1>3 DEF ServiceInv, ComesUp, ByScript
  <1> QED BY <1>4, <1>5, <1>6, <1>7, <1>8 DEF ServiceInv

(* A process ends; if it is the server, that is a mishap. *)
LEMMA ProcessEndsStep ==
  ASSUME ServiceInv, Service!ProcessEnds
  PROVE  ServiceInv'
  <1>1. PICK p \in Pids :
          /\ p \in termed \/ who[p] \in {"server", "deaf", "client", "squatter"}
          /\ who' = [who EXCEPT ![p] = "free"] /\ termed' = termed \ {p}
          /\ mishap' = (mishap \/ who[p] = "server")
          /\ UNCHANGED <<server, step, command, commands, PID, polls, said, clean, strangers,
                         pidfile>>
    BY DEF Service!ProcessEnds, Service!Ends, Service!Become, Service!script
  <1>2. ServiceTypes' BY <1>1 DEF ServiceInv, ServiceTypes, Kinds
  <1>3. OneListens' BY <1>1 DEF ServiceInv, ServiceTypes, OneListens
  <1>4. ByScript' /\ Told' BY <1>1 DEF ServiceInv, ServiceTypes, ByScript, Told
  <1>5. CleanStop'
    BY <1>1 DEF ServiceInv, ServiceTypes, CleanStop, NoneStarting, FoundServer
  <1>6. ComesUp' BY <1>1 DEF ServiceInv, ServiceTypes, ComesUp, Told
  <1> QED BY <1>2, <1>3, <1>4, <1>5, <1>6 DEF ServiceInv

(* Clients, strangers and services with the same port come while no        *)
(* script runs.                                                            *)
LEMMA OthersStep ==
  ASSUME ServiceInv, Service!Others
  PROVE  ServiceInv'
  <1>0. /\ UNCHANGED <<server, termed, step, command, commands, PID, polls, said, clean,
                       strangers, pidfile>>
        /\ who \in [Pids -> Kinds]
    BY DEF Service!Others, Service!script, ServiceInv, ServiceTypes
  <1>1. \/ /\ step = "idle"
           /\ \E p \in Pids : \E kind \in {"client", "stranger", "squatter"} :
                /\ who[p] = "free" /\ who' = [who EXCEPT ![p] = kind]
                /\ kind = "squatter" =>
                     \A q \in Pids : who[q] \notin {"server", "squatter"}
           /\ mishap' \in {mishap, TRUE}
        \/ who' = who /\ mishap' = mishap
    BY DEF Service!Others, Service!Are, Service!Listening, Service!Become
  <1>2. ServiceTypes' BY <1>0, <1>1 DEF ServiceInv, ServiceTypes, Kinds
  <1>3. OneListens' BY <1>0, <1>1 DEF ServiceInv, OneListens
  <1>4. ByScript' /\ Told' BY <1>0, <1>1 DEF ServiceInv, ServiceTypes, ByScript, Told
  <1>5. CleanStop' BY <1>0, <1>1 DEF ServiceInv, CleanStop, NoneStarting, FoundServer
  <1>6. ComesUp' BY <1>0, <1>1 DEF ServiceInv, ServiceTypes, ComesUp
  <1> QED BY <1>2, <1>3, <1>4, <1>5, <1>6 DEF ServiceInv

(* A server without a script is run. *)
LEMMA RunByHandStep ==
  ASSUME ServiceInv, Service!RunByHand
  PROVE  ServiceInv'
  <1>1. PICK p \in Pids :
          /\ who[p] = "free" /\ who' = [who EXCEPT ![p] = "starting"]
          /\ ~server.scripted /\ mishap' \in BOOLEAN
          /\ UNCHANGED <<server, termed, step, said, clean, strangers, PID>>
    BY DEF Service!RunByHand, Service!Are, Service!Become
  <1>2. ServiceTypes' BY <1>1 DEF ServiceInv, ServiceTypes, Kinds
  <1>3. OneListens' BY <1>1 DEF ServiceInv, ServiceTypes, OneListens
  <1>4. ByScript' /\ Told' BY <1>1 DEF ServiceInv, ServiceTypes, ByScript, Told
  <1>5. step = "idle" /\ ~clean /\ said = "nothing"
    BY <1>1 DEF ServiceInv, ByScript
  <1>6. CleanStop' /\ ComesUp' BY <1>1, <1>5 DEF CleanStop, ComesUp
  <1> QED BY <1>2, <1>3, <1>4, <1>6 DEF ServiceInv

(* server.sh is called. *)
LEMMA CommandStep ==
  ASSUME ServiceInv, Service!Command
  PROVE  ServiceInv'
  <1>1. /\ server.scripted /\ step = "idle" /\ step' \in {"start", "stop"}
        /\ said' = "nothing" /\ clean' = FALSE /\ strangers' = {}
        /\ UNCHANGED <<server, who, timewait, termed, mishap>>
    BY DEF Service!Command, Service!system
  <1>2. ServiceTypes' /\ OneListens' BY <1>1 DEF ServiceInv, ServiceTypes, OneListens
  <1>3. ByScript' /\ Told' BY <1>1 DEF ServiceInv, ByScript, Told
  <1>4. CleanStop' /\ ComesUp' BY <1>1 DEF CleanStop, ComesUp
  <1> QED BY <1>2, <1>3, <1>4 DEF ServiceInv

(* start() finds the port free and runs the server, or it does not. *)
LEMMA StartStep ==
  ASSUME ServiceInv, Service!Start
  PROVE  ServiceInv'
  <1>1. /\ step = "start" /\ UNCHANGED <<server, timewait, termed, clean, strangers>>
        /\ who \in [Pids -> Kinds] /\ server.scripted /\ termed = {}
    BY DEF Service!Start, ServiceInv, ServiceTypes, ByScript, Told
  <1>2. CASE step' = "idle" /\ said' = "in use" /\ UNCHANGED <<who, mishap>>
    <2>1. ServiceTypes' /\ OneListens'
      BY <1>1, <1>2 DEF ServiceInv, ServiceTypes, OneListens
    <2>2. ByScript' /\ Told' /\ CleanStop' /\ ComesUp'
      BY <1>1, <1>2 DEF ServiceInv, ByScript, Told, CleanStop, ComesUp
    <2> QED BY <2>1, <2>2 DEF ServiceInv
  <1>3. CASE Service!Lsof = {} /\ step' = "record" /\ mishap' = FALSE
             /\ \E p \in Service!Are({"free"}) : Service!Become(p, "starting")
    <2>1. PICK p \in Pids : who[p] = "free" /\ who' = [who EXCEPT ![p] = "starting"]
      BY <1>3 DEF Service!Are, Service!Become
    <2>2. \A q \in Pids : who[q] \notin {"server", "squatter", "client"}
      BY <1>3 DEF Service!Lsof, Service!Are
    <2>3. ServiceTypes' /\ OneListens'
      BY <1>1, <1>3, <2>1, <2>2 DEF ServiceInv, ServiceTypes, OneListens, Kinds
    <2>4. ByScript' /\ Told' /\ CleanStop'
      BY <1>1, <1>3 DEF ServiceInv, ByScript, Told, CleanStop
    <2>5. ComesUp' BY <1>1, <1>3, <2>1, <2>2 DEF ComesUp
    <2> QED BY <2>3, <2>4, <2>5 DEF ServiceInv
  <1> QED BY <1>2, <1>3 DEF Service!Start

(* start() looks for the process half a second later. *)
LEMMA RecordStep ==
  ASSUME ServiceInv, Service!Record
  PROVE  ServiceInv'
  <1>1. /\ step = "record" /\ step' = "idle" /\ server.scripted
        /\ said' = IF Service!Lsof # {} THEN "started" ELSE "failed"
        /\ mishap' = (mishap \/ Service!Are({"starting"}) # {})
        /\ UNCHANGED <<server, who, timewait, termed, clean, strangers>>
    BY DEF Service!Record, Service!system, ServiceInv, ByScript
  <1>2. ServiceTypes' /\ OneListens' BY <1>1 DEF ServiceInv, ServiceTypes, OneListens
  <1>3. ByScript' /\ Told' /\ CleanStop'
    BY <1>1 DEF ServiceInv, ByScript, Told, CleanStop
  <1>4. ComesUp'
    BY <1>1 DEF ServiceInv, ServiceTypes, ComesUp, Service!Lsof, Service!Are
  <1> QED BY <1>2, <1>3, <1>4 DEF ServiceInv

(* stop() asks for the port first: if it finds one process and that is     *)
(* the server, nobody else is a server.                                    *)
LEMMA LookupStep ==
  ASSUME ServiceInv, Service!Lookup
  PROVE  ServiceInv'
  <1>1. /\ step = "stop" /\ server.scripted /\ termed = {} /\ strangers = {}
        /\ PID' = IF Service!Lsof # {} THEN Service!Lsof ELSE pidfile
        /\ clean' = ((\E p \in Pids : PID' = {p} /\ who[p] = "server")
                      /\ Service!Are({"starting"}) = {})
        /\ \/ PID' = {} /\ said' = "not running" /\ step' \in {"start", "idle"}
           \/ PID' # {} /\ said' = said /\ step' = "term"
        /\ UNCHANGED <<server, who, timewait, termed, strangers, mishap>>
    BY DEF Service!Lookup, Service!system, ServiceInv, ByScript, Told, CleanStop
  <1>2. ServiceTypes' /\ OneListens' BY <1>1 DEF ServiceInv, ServiceTypes, OneListens
  <1>3. ByScript' /\ Told' BY <1>1 DEF ServiceInv, ByScript, Told
  <1>4. CleanStop'
    <2>1. ASSUME clean' PROVE PID' # {} /\ NoneStarting' /\ FoundServer'
      BY <1>1, <2>1 DEF NoneStarting, FoundServer, Service!Lsof, Service!Are
    <2> QED BY <1>1, <2>1 DEF CleanStop
  <1>5. ComesUp' BY <1>1 DEF ComesUp
  <1> QED BY <1>2, <1>3, <1>4, <1>5 DEF ServiceInv

(* kill -15. *)
LEMMA TermStep ==
  ASSUME ServiceInv, Service!Term
  PROVE  ServiceInv'
  <1>1. /\ step = "term" /\ step' = "poll" /\ server.scripted /\ termed = {}
        /\ termed' = termed \cup Service!Target
        /\ strangers' = strangers \cup {p \in Service!Target : who[p] # "server"}
        /\ UNCHANGED <<server, who, timewait, PID, said, clean, mishap>>
    BY DEF Service!Term, Service!Strays, ServiceInv, ByScript, Told
  <1>2. \A p \in Service!Target : p \in Pids /\ PID = {p} /\ who[p] # "free"
    BY DEF Service!Target
  <1>3. ServiceTypes' /\ OneListens'
    BY <1>1, <1>2 DEF ServiceInv, ServiceTypes, OneListens
  <1>4. ByScript' /\ Told' BY <1>1, <1>2 DEF ServiceInv, ByScript, Told
  <1>5. CleanStop'
    BY <1>1, <1>2 DEF ServiceInv, CleanStop, NoneStarting, FoundServer
  <1>6. ComesUp' BY <1>1 DEF ComesUp
  <1> QED BY <1>3, <1>4, <1>5, <1>6 DEF ServiceInv

(* kill -0, up to Polls times. *)
LEMMA WaitStep ==
  ASSUME ServiceInv, Service!Wait
  PROVE  ServiceInv'
  <1>1. /\ step = "poll" /\ step' \in {"poll", "kill"}
        /\ UNCHANGED <<server, who, timewait, termed, PID, said, clean, strangers, mishap>>
    BY DEF Service!Wait, Service!system
  <1>2. ServiceTypes' /\ OneListens' BY <1>1 DEF ServiceInv, ServiceTypes, OneListens
  <1>3. ByScript' /\ Told' BY <1>1 DEF ServiceInv, ByScript, Told
  <1>4. CleanStop' /\ ComesUp'
    BY <1>1 DEF ServiceInv, CleanStop, NoneStarting, FoundServer, ComesUp
  <1> QED BY <1>2, <1>3, <1>4 DEF ServiceInv

(* kill -9, and the last word of stop(). *)
LEMMA KillStep ==
  ASSUME ServiceInv, Service!Kill
  PROVE  ServiceInv'
  <1>1. /\ step = "kill" /\ step' \in {"start", "idle"} /\ said' = "stopped" /\ server.scripted
        /\ strangers' = strangers \cup {p \in Service!Target : who[p] # "server"}
        /\ UNCHANGED <<server, PID, clean, mishap>>
        /\ who \in [Pids -> Kinds] /\ termed \subseteq Pids
    BY DEF Service!Kill, Service!Stopped, Service!Strays, ServiceInv, ServiceTypes,
           ByScript
  <1>2. \A p \in Pids : p \in Service!Target <=> PID = {p} /\ who[p] # "free"
    BY DEF Service!Target
  <1>3. /\ termed' = {}
        /\ \/ \E p \in Pids : PID = {p} /\ who' = [who EXCEPT ![p] = "free"]
           \/ Service!Target = {} /\ who' = who
    <2>1. CASE \E p \in Service!Target : Service!Ends(p)
      <3>1. PICK p \in Pids : /\ PID = {p} /\ termed' = termed \ {p}
                              /\ who' = [who EXCEPT ![p] = "free"]
        BY <2>1 DEF Service!Ends, Service!Become, Service!Target
      <3> QED BY <1>1, <3>1 DEF ServiceInv, Told
    <2>2. CASE Service!Target = {} /\ UNCHANGED Service!system
      BY <1>1, <1>2, <2>2 DEF Service!system, ServiceInv, Told
    <2> QED BY <2>1, <2>2 DEF Service!Kill
  <1>4. ServiceTypes' BY <1>1, <1>3 DEF ServiceInv, ServiceTypes, Kinds
  <1>5. OneListens' BY <1>1, <1>3 DEF ServiceInv, OneListens
  <1>6. ByScript' /\ Told' BY <1>1, <1>3 DEF ServiceInv, ByScript, Told
  <1>7. CleanStop'
    <2>1. CASE clean
      <3>1. strangers = {} /\ NoneStarting /\ FoundServer
        BY <1>1, <2>1 DEF ServiceInv, CleanStop
      <3>2. PICK p \in Pids : /\ PID = {p} /\ who[p] \in {"server", "free"}
                              /\ \A q \in Pids : who[q] = "server" => q = p
        BY <3>1 DEF FoundServer
      <3>3. who'[p] = "free" /\ \A q \in Pids \ {p} : who'[q] = who[q]
        BY <1>1, <1>2, <1>3, <3>2
      <3>4. strangers' = {}
        BY <1>1, <3>1, <3>2 DEF Service!Target
      <3>5. NoneStarting' /\ \A q \in Pids : who'[q] # "server"
        BY <3>1, <3>2, <3>3 DEF NoneStarting
      <3> QED BY <1>1, <3>4, <3>5 DEF CleanStop
    <2>2. CASE ~clean
      BY <1>1, <2>2 DEF CleanStop
    <2> QED BY <2>1, <2>2
  <1>8. ComesUp' BY <1>1 DEF ComesUp
  <1> QED BY <1>4, <1>5, <1>6, <1>7, <1>8 DEF ServiceInv

(* No step of the programs breaks the invariant of the deployment. *)
LEMMA ServiceKept ==
  ASSUME part = "service" => ServiceInv, [Next]_all
  PROVE  (part = "service" => ServiceInv)'
  <1>1. CASE UNCHANGED all
    <2>1. /\ part' = part
          /\ UNCHANGED <<server, who, timewait, termed, pidfile, step, command, commands, PID,
                         polls, said, clean, strangers, mishap>>
      BY <1>1, NoSteps DEF ofService
    <2> QED BY <2>1 DEF ServiceInv, ServiceTypes, OneListens, ByScript, Told, CleanStop,
                 NoneStarting, FoundServer, ComesUp
  <1>2. CASE Next
    BY <1>2, OwnSteps, SetUpStep, ProcessEndsStep, OthersStep, RunByHandStep, CommandStep,
       StartStep, RecordStep, LookupStep, TermStep, WaitStep, KillStep
    DEF Service!Next, Service!Script
  <1> QED BY <1>1, <1>2

(* The invariant gives the three properties of the deployment. *)
LEMMA ServiceRight ==
  ASSUME ServiceInv
  PROVE  Service!StopStops /\ Service!RestartServes /\ Service!OneServer
  <1>1. Service!StopStops
    BY DEF ServiceInv, CleanStop, Service!StopStops, Service!Are
  <1>2. Service!RestartServes
    BY DEF ServiceInv, ComesUp, Service!RestartServes
  <1>3. Service!OneServer
    <2>1. \A p, q \in Service!Listening : p = q
      BY DEF ServiceInv, OneListens, Service!Listening, Service!Are
    <2>2. Service!Are({"deaf"}) # {} => ~server.orDie
      BY DEF ServiceInv, OneListens, Service!Are
    <2> QED BY <2>1, <2>2 DEF Service!OneServer
  <1> QED BY <1>1, <1>2, <1>3

(* server.sh: a stop that finds the server and nothing else ends it and    *)
(* signals nobody else, a start fails only for a mishap, and one process   *)
(* has the port, for any processes, polls and commands.                    *)
THEOREM ServiceIsRight == Spec => []ServiceRuns
  <1>1. Init => (part = "service" => ServiceInv)
    BY ServiceInit DEF Init
  <1>2. (part = "service" => ServiceInv) /\ [Next]_all => (part = "service" => ServiceInv)'
    BY ServiceKept
  <1>3. (part = "service" => ServiceInv) => ServiceRuns
    BY ServiceRight DEF ServiceRuns
  <1> QED BY <1>1, <1>2, <1>3, PTL DEF Spec
=============================================================================
