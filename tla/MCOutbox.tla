------------------------------ MODULE MCOutbox ------------------------------
(* A small instance of Outbox for TLC: two consumers, two racing drains and  *)
(* two administrators who replay.                                            *)
EXTENDS Outbox

CONSTANTS c1, c2, d1, d2, r1, r2

\* The first consumer chokes on the second transaction's event.
PoisonOne == {<<c1, <<2, 1>>>>}
=============================================================================
