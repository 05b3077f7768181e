------------------------------ MODULE Protocol ------------------------------
(***************************************************************************)
(* The calculator's wire format and arithmetic (08): a message is framed   *)
(* as its length, a separator, its body and a separator.  A length, a      *)
(* separator and a field of the body are one unit each.                    *)
(***************************************************************************)
EXTENDS Integers, Sequences

CONSTANTS Sep,        \* "\r\n"
          IntMin, IntMax

ProtocolAssumption ==
  IntMin \in Int /\ IntMax \in Nat /\ IntMin = -IntMax - 1 /\ Sep \notin Int

(* Encode, as a sequence of units. *)
Encode(message) == <<Len(message), Sep>> \o message \o <<Sep>>

(* Slip: the message must be followed by the next one. *)
WholeLate(package) ==
  /\ \E pos \in DOMAIN package : package[pos] = Sep
  /\ Len(package) > package[1] + 3

(* Whether Decode finds a whole message, the message, and what stays.      *)
Whole(package) ==
  /\ \E pos \in DOMAIN package : package[pos] = Sep
  /\ Len(package) >= package[1] + 3
Body(package) == SubSeq(package, 3, package[1] + 2)
Rest(package) == SubSeq(package, package[1] + 4, Len(package))

(* int's arithmetic: + - * wrap in the build, / and % truncate. *)
Wrap(n) == IntMin + ((n - IntMin) % (IntMax - IntMin + 1))
Abs(n) == IF n < 0 THEN -n ELSE n
Sign(n) == IF n < 0 THEN -1 ELSE 1
Quotient(x, y) == Sign(x) * Sign(y) * (Abs(x) \div Abs(y))

(* The quotient that is no int: the division instruction traps. *)
Traps(x, oper, y) == oper \in {"/", "%"} /\ x = IntMin /\ y = -1

(* Slip: division by zero is only looked at for /. *)
ExecuteNoModCheck(x, oper, y) ==
  CASE oper = "+" -> <<Wrap(x + y), 0>>
    [] oper = "-" -> <<Wrap(x - y), 0>>
    [] oper = "*" -> <<Wrap(x * y), 0>>
    [] oper = "/" -> IF y = 0 THEN <<0, 1>> ELSE <<Quotient(x, y), 0>>
    [] oper = "%" -> IF y = 0 THEN <<0, 1>> ELSE <<x - y * Quotient(x, y), 0>>
    [] OTHER -> <<0, 3>>

(* Business::Execute: the result and its code. *)
Execute(x, oper, y) ==
  CASE oper = "+" -> <<Wrap(x + y), 0>>
    [] oper = "-" -> <<Wrap(x - y), 0>>
    [] oper = "*" -> <<Wrap(x * y), 0>>
    [] oper = "/" -> IF y = 0 THEN <<0, 1>> ELSE <<Quotient(x, y), 0>>
    [] oper = "%" -> IF y = 0 THEN <<0, 2>> ELSE <<x - y * Quotient(x, y), 0>>
    [] OTHER -> <<0, 3>>
=============================================================================
