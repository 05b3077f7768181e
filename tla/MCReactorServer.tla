--------------------------- MODULE MCReactorServer ---------------------------
(* ReactorServer with a few clients: a1 sends header and body apart, the   *)
(* others a request of one unit.                                           *)
EXTENDS ReactorServer

CONSTANTS a1, a2, a3

MCReqLen == [c \in Clients |-> IF c = a1 THEN 2 ELSE 1]
MCHeadLen == [c \in Clients |-> 1]
=============================================================================
