----------------------------- MODULE AccountBook -----------------------------
(* The lifecycle of locks with the money in it: what each account has unlocked *)
(* before and after a step is explained by what was locked.  Money is neither  *)
(* made nor lost, a release reaches nobody who has not agreed, and whatever is *)
(* not released returns to the owner.                                          *)
EXTENDS LockLifecycle, Functions

CONSTANTS Accounts, Instruments

VARIABLE funds       \* what each account holds unlocked, by instrument

Books == Accounts \X Instruments
gain(book) == funds'[book] - funds[book]
gained == SumFunctionOnSet([book \in Books |-> gain(book)], {book \in Books : gain(book) # 0})
onlyFor(accounts, instrument) ==
    \A book \in Books : gain(book) # 0 => book[1] \in accounts /\ book[2] = instrument

\* The owner pays in or gets back the difference.
settles(l, m) ==
    LET side == IF m = Ended THEN l ELSE m IN
    onlyFor({side.owner}, side.instrument) /\ gained = amountOf(l) - amountOf(m)

\* Every receiver that is paid had agreed to be, and nobody pays.
paysOut(l, m) ==
    /\ onlyFor(l.agreed \union {l.owner}, l.instrument)
    /\ \A book \in Books : gain(book) >= 0
    /\ gained = amountOf(l) - amountOf(m)

BookedStep(l, m) ==
    \/ (Offer(l, m) \/ Renew(l, m) \/ End(l, m)) /\ settles(l, m)
    \/ Agree(l, m) /\ UNCHANGED funds
    \/ Fire(l, m) /\ paysOut(l, m)

BookedNext ==
    \/ /\ UNCHANGED clock
       /\ \E id \in LockIds :
            lock' = [lock EXCEPT ![id] = lock'[id]] /\ BookedStep(lock[id], lock'[id])
    \/ Tick /\ UNCHANGED funds

BookInit == Init /\ funds \in [Books -> Nat]
BookSpec == BookInit /\ [][BookedNext]_<<clock, lock, funds>>
=============================================================================
