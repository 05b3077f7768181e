---------------------------- MODULE MCLineReactor ----------------------------
(* LineReactor with a client that stays and pipelines two lines and one    *)
(* that may leave and sends a NUL.                                         *)
EXTENDS LineReactor

CONSTANTS a1, a2

MCScript ==
  [c \in Clients |-> IF c = a1 THEN <<"x", "nl", "nl">> ELSE <<"nul", "nl">>]
=============================================================================
