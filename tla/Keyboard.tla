------------------------------ MODULE Keyboard ------------------------------
(***************************************************************************)
(* The programs that read standard input without blocking: by asking once  *)
(* a second (10_test_for_nonblock), and by an edge-triggered epoll event   *)
(* after which they read until nothing is left (13_test_for_epoll).        *)
(***************************************************************************)
EXTENDS Integers, Sequences

CONSTANTS Keys,        \* bound: characters typed before the end of input
          ReadMax      \* what one read of 10 returns at most: sizeof(buf) - 1

KeyboardAssumption == Keys \in Nat /\ ReadMax \in Nat \ {0}

VARIABLES
  program,     \* "nonblock" or "edge"
  at,          \* "setup", "wait", "read" or "over"
  typed,       \* characters typed; the k-th is k
  input,       \* those the program has not read
  eof,         \* the user has ended the input
  edge,        \* the event epoll has still to report
  printed

vars == <<program, at, typed, input, eof, edge, printed>>

Init ==
  /\ program \in {"nonblock", "edge"}
  /\ at = "setup" /\ typed = 0 /\ input = <<>> /\ eof = FALSE /\ edge = FALSE
  /\ printed = <<>>

(* The terminal: what comes is an event for epoll from EPOLL_CTL_ADD on. *)
Arrived == edge' = (program = "edge" /\ at # "setup")

Type ==
  /\ ~eof /\ typed < Keys
  /\ typed' = typed + 1 /\ input' = Append(input, typed')
  /\ Arrived
  /\ UNCHANGED <<program, at, eof, printed>>

End ==
  /\ ~eof /\ eof' = TRUE
  /\ Arrived
  /\ UNCHANGED <<program, at, typed, input, printed>>

(* SetNonBlock and, in 13, epoll_ctl: an input that is there already is an *)
(* event at once.                                                          *)
Setup ==
  /\ at = "setup"
  /\ at' = IF program = "edge" THEN "wait" ELSE "read"
  /\ edge' = (program = "edge" /\ (input # <<>> \/ eof))
  /\ UNCHANGED <<program, typed, input, eof, printed>>

(* 10: read(); EAGAIN sleeps and comes back, 0 is the end. *)
NonBlockRead ==
  /\ program = "nonblock" /\ at = "read"
  /\ LET n == IF Len(input) < ReadMax THEN Len(input) ELSE ReadMax
     IN  /\ printed' = printed \o SubSeq(input, 1, n)
         /\ input' = SubSeq(input, n + 1, Len(input))
         /\ at' = IF n = 0 /\ eof THEN "over" ELSE "read"
  /\ UNCHANGED <<program, typed, eof, edge>>

(* 13: epoll_wait reports the event once. *)
EpollWait ==
  /\ program = "edge" /\ at = "wait" /\ edge
  /\ edge' = FALSE /\ at' = "read"
  /\ UNCHANGED <<program, typed, input, eof, printed>>

(* Slip: one read for each event. *)
EdgeReadOnce ==
  /\ program = "edge" /\ at = "read"
  /\ \/ /\ input # <<>>
        /\ printed' = Append(printed, Head(input)) /\ input' = Tail(input)
        /\ at' = "wait"
     \/ /\ input = <<>>
        /\ at' = IF eof THEN "over" ELSE "wait"
        /\ UNCHANGED <<printed, input>>
  /\ UNCHANGED <<program, typed, eof, edge>>

(* 13: one character a read, until EAGAIN or the end. *)
EdgeRead ==
  /\ program = "edge" /\ at = "read"
  /\ \/ /\ input # <<>>
        /\ printed' = Append(printed, Head(input)) /\ input' = Tail(input)
        /\ at' = "read"
     \/ /\ input = <<>>
        /\ at' = IF eof THEN "over" ELSE "wait"
        /\ UNCHANGED <<printed, input>>
  /\ UNCHANGED <<program, typed, eof, edge>>

Program == Setup \/ NonBlockRead \/ EpollWait \/ EdgeRead

Next == Type \/ End \/ Program

Fairness == WF_vars(Program)

-----------------------------------------------------------------------------
(* What is typed is printed once and in order, 13 never waits for an event *)
(* while input it has not read is there, and nobody stops before the end.  *)
TypedPrinted ==
  /\ printed \o input = [k \in 1 .. typed |-> k]
  /\ program = "edge" /\ at = "wait" /\ ~edge => input = <<>> /\ ~eof
  /\ at = "over" => eof /\ input = <<>>

(* The end of input ends the program. *)
Ended == eof => at = "over"
EndEnds == <>[]Ended
=============================================================================
