------------------------------ MODULE MCMachine -----------------------------
(* Instances of Machine for TLC. *)
EXTENDS Machine

\* No property here follows the program counter.
OneAddr == {0}
StayPut == [a \in OneAddr |-> a]
=============================================================================
