-------------------------- MODULE MCSettlementClient --------------------------
(* Times for TLC: a settlement has its rule open for two ticks; the expiry    *)
(* test waits one for the deadline and one more for the expiry.               *)
EXTENDS SettlementClient

MCDeadlineAfter == [settlement |-> 2, expiry |-> 1]
MCExpiryAfter == [settlement |-> 3, expiry |-> 2]
=============================================================================
