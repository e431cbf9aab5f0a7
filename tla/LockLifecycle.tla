---------------------------- MODULE LockLifecycle ----------------------------
(* What a registry promises about each lock ID, with no contracts, parties or *)
(* transactions: a lock is offered once, becomes active when every receiver    *)
(* has agreed, pays out under each of its rules at most once and only before   *)
(* its expiry, may be renewed, and ends for good.                              *)
EXTENDS Integers

CONSTANTS
    LockIds,     \* one per factory
    Before(_, _) \* before(t, u): ledger time t is before u

VARIABLES
    clock,       \* ledger time
    lock         \* what stands under each lock ID

Unused == [phase |-> "unused"]
Ended == [phase |-> "ended"]

amountOf(l) == IF l.phase \in {"pending", "active"} THEN l.amount ELSE 0
phaseOf(l) == IF l.receivers \subseteq l.agreed THEN "active" ELSE "pending"
unexpired(l) == Before(clock, l.expiresAt)

\* What an agreement or a payment never changes.
sameLock(l, m) ==
    m.owner = l.owner /\ m.instrument = l.instrument /\ m.expiresAt = l.expiresAt
-----------------------------------------------------------------------------
(* Each step takes one lock from l to m.                                    *)

Offer(l, m) ==
    /\ l = Unused
    /\ m.phase \in {"pending", "active"} /\ m.phase = phaseOf(m)
    /\ m.amount > 0 /\ m.fired = {} /\ m.agreed \subseteq m.receivers

Agree(l, m) ==
    /\ l.phase = "pending" /\ unexpired(l)
    /\ m.phase \in {"pending", "active"} /\ m.phase = phaseOf(m) /\ sameLock(l, m)
    /\ m.amount = l.amount /\ m.open = l.open /\ m.fired = l.fired /\ m.receivers = l.receivers
    /\ \E a \in l.receivers \ l.agreed : m.agreed = l.agreed \union {a}

\* A rule pays part of the lock, which goes on without the rule, or all of it.
Fire(l, m) ==
    /\ l.phase = "active" /\ unexpired(l)
    /\ \E r \in l.open \ l.fired :
         \/ m = Ended
         \/ /\ m.phase = "active" /\ sameLock(l, m)
            /\ m.amount > 0 /\ m.amount < l.amount
            /\ m.open = l.open \ {r} /\ m.fired = l.fired \union {r}
            /\ m.receivers \subseteq l.receivers /\ m.agreed = l.agreed \intersect m.receivers

\* Other terms: the owner stays, nothing is taken out, what has fired stays fired,
\* and every receiver has agreed.
Renew(l, m) ==
    /\ l.phase = "active" /\ unexpired(l)
    /\ m.phase = "active" /\ m.phase = phaseOf(m)
    /\ m.owner = l.owner /\ m.instrument = l.instrument
    /\ m.amount >= l.amount
    /\ m.fired = l.fired /\ m.open \intersect m.fired = {}
    /\ m.agreed \subseteq m.receivers

\* Withdrawn, rejected, expired or cancelled: at any time, and from the expiry on
\* this is all that can happen to a lock.
End(l, m) == l.phase \in {"pending", "active"} /\ m = Ended

Step(l, m) == Offer(l, m) \/ Agree(l, m) \/ Fire(l, m) \/ Renew(l, m) \/ End(l, m)
-----------------------------------------------------------------------------
Init == lock = [id \in LockIds |-> Unused]

Exercise ==
    /\ UNCHANGED clock
    /\ \E id \in LockIds : lock' = [lock EXCEPT ![id] = lock'[id]] /\ Step(lock[id], lock'[id])

Tick == Before(clock, clock') /\ UNCHANGED lock

Next == Exercise \/ Tick

Spec == Init /\ [][Next]_<<clock, lock>>
=============================================================================
