------------------------------- MODULE Logger -------------------------------
(***************************************************************************)
(* The logger (Log.hpp of 08_log_strategy, 09_thread_pool, 09_tcp_http and *)
(* the reactor): a record is put together by its writer and handed to the  *)
(* strategy when LogMessage is destroyed.  A line on the console is two    *)
(* writes, kept together by the strategy's mutex; a line in the file is    *)
(* one, with the file opened and closed around it.                         *)
(***************************************************************************)
EXTENDS Integers, Sequences

CONSTANTS Writers, Records, Nobody

LoggerAssumption == Records \in Nat /\ Nobody \notin Writers

VARIABLES
  strategy,    \* "console" or "file", and which of them in turn
  mutex,       \* of the strategy
  at,          \* each writer: "idle", "flush", "text", "open", "end"
  done,        \* records it has logged
  out,         \* what has been written: [console |-> ..., file |-> ...]
  failed       \* records lost because the file did not open

vars == <<strategy, mutex, at, done, out, failed>>

Init ==
  /\ strategy \in {"console", "file"}
  /\ mutex = Nobody
  /\ at = [w \in Writers |-> "idle"]
  /\ done = [w \in Writers |-> 0]
  /\ out = [console |-> <<>>, file |-> <<>>]
  /\ failed = {}

Go(w, place) == at' = [at EXCEPT ![w] = place]
Put(where, units) == out' = [out EXCEPT ![where] = @ \o units]
Record(w) == <<w, done[w] + 1>>
EndOfLine == <<Nobody, 0>>

(* ENABLE_FILE_LOG, ENABLE_CONSOLE_LOG: main, between its records; a new   *)
(* strategy has a mutex of its own.                                        *)
Switch ==
  /\ \A w \in Writers : at[w] = "idle"
  /\ strategy = "console" /\ strategy' = "file"
  /\ UNCHANGED <<mutex, at, done, out, failed>>

(* LOG(level) << ...: the text, and Flush when the temporary goes. *)
Compose(w) ==
  /\ at[w] = "idle" /\ done[w] < Records
  /\ Go(w, "flush")
  /\ UNCHANGED <<strategy, mutex, done, out, failed>>

(* Slip: SyncLog without its LockGuard. *)
SyncLogUnlocked(w) ==
  /\ at[w] = "flush"
  /\ mutex' = mutex
  /\ Go(w, IF strategy = "console" THEN "text" ELSE "open")
  /\ UNCHANGED <<strategy, done, out, failed>>

SyncLog(w) ==
  /\ at[w] = "flush" /\ mutex = Nobody
  /\ mutex' = w
  /\ Go(w, IF strategy = "console" THEN "text" ELSE "open")
  /\ UNCHANGED <<strategy, done, out, failed>>

Text(w) ==
  /\ at[w] = "text"
  /\ Put("console", <<Record(w)>>)
  /\ Go(w, "end")
  /\ UNCHANGED <<strategy, mutex, done, failed>>

Return(w) ==
  /\ Go(w, "idle")
  /\ mutex' = IF mutex = w THEN Nobody ELSE mutex
  /\ done' = [done EXCEPT ![w] = @ + 1]

Endl(w) ==
  /\ at[w] = "end"
  /\ Put("console", <<EndOfLine>>)
  /\ Return(w)
  /\ UNCHANGED <<strategy, failed>>

OpenAppend(w) ==
  /\ at[w] = "open"
  /\ \/ Put("file", <<Record(w), EndOfLine>>) /\ failed' = failed
     \/ out' = out /\ failed' = failed \cup {Record(w)}
  /\ Return(w)
  /\ UNCHANGED strategy

Writer(w) == Compose(w) \/ SyncLog(w) \/ Text(w) \/ Endl(w) \/ OpenAppend(w)

Next == Switch \/ \E w \in Writers : Writer(w)

-----------------------------------------------------------------------------
(* However the writers interleave, each record is a line of its own, on    *)
(* the console or in the file, each writer's in the order it logged them,  *)
(* and none is missing but those for which the file did not open.          *)
LinesWhole ==
  LET Places(where) == {i \in DOMAIN out[where] : i % 2 = 1}
      Logged(where) == {out[where][i] : i \in Places(where)}
      InOrder(u, v) == u[1] = v[1] => u[2] < v[2]
  IN  /\ \A where \in DOMAIN out : \A i \in DOMAIN out[where] :
           out[where][i] = EndOfLine <=> i % 2 = 0
      /\ Logged("console") \cup Logged("file") \cup failed =
           UNION {{w} \X (1 .. IF at[w] = "end" THEN done[w] + 1 ELSE done[w]) : w \in Writers}
      /\ \A where \in DOMAIN out : \A i, j \in Places(where) :
           i < j => InOrder(out[where][i], out[where][j])
      /\ \A u \in Logged("console"), v \in Logged("file") : InOrder(u, v)
=============================================================================
