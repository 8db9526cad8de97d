---------------------------- MODULE MCOutboxRelay ---------------------------
(* OutboxRelay for TLC: three rows, two of them of one payment.            *)
EXTENDS OutboxRelay

CONSTANTS r1, r2, r3, a1, a2

MCStreamOf == [r \in Rows |-> IF r = r3 THEN a2 ELSE a1]

=============================================================================
