-------------------------- MODULE TestTokenRefinement --------------------------
(* The reference registry implements the lifecycle of locks, and the account  *)
(* book: what its contracts stand for there.                                  *)
EXTENDS TestTokenProperties

LockIds == {f.lockId : f \in {g \in Factories : noSlash(g.lockId)}}
Earlier(t, u) == t < u

\* What the contract of a live lock says about it.
lockOf(s) ==
    [phase      |-> IF s \in locks THEN "active" ELSE "pending",
     owner      |-> s.terms.authorizer,
     instrument |-> s.terms.instrumentId,
     amount     |-> s.terms.amount,
     expiresAt  |-> s.terms.expiresAt,
     open       |-> {r.id : r \in s.terms.rules},
     fired      |-> s.enactedRuleIds,
     receivers  |-> termReceivers(s.terms),
     agreed     |-> s.accepted]

lockUnder(id) ==
    IF \E s \in live : s.lockId = id THEN lockOf(CHOOSE s \in live : s.lockId = id)
    ELSE IF \E f \in factories : f.lockId = id THEN [phase |-> "unused"] ELSE [phase |-> "ended"]

unlocked == [book \in Accounts \X Instruments |-> circulating(book[1], book[2], tokens)]

Lifecycle == INSTANCE LockLifecycle WITH
    LockIds <- LockIds, Before <- Earlier, clock <- now, lock <- [id \in LockIds |-> lockUnder(id)]

Book == INSTANCE AccountBook WITH
    LockIds <- LockIds, Before <- Earlier, clock <- now, lock <- [id \in LockIds |-> lockUnder(id)],
    funds <- unlocked

\* Every choice of the registry is one step in the life of one lock, or leaves all
\* lives as they are (approvals, the archiving of the rules contract): no rule
\* fires twice over any amendments, nothing but the end comes after the expiry,
\* and an ended lock stays ended.
LifecycleSpec == Lifecycle!Spec

\* The same with the money: each step is explained by one lock, whatever tokens,
\* change, legs and top-ups it moved.
BookSpec == Book!BookSpec
=============================================================================
