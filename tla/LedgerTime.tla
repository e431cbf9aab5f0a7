------------------------------ MODULE LedgerTime ------------------------------
(***************************************************************************)
(* Ledger time as the policy sees it: the ranges of Time and RelTime, the  *)
(* arithmetic of DA.Time, which raises outside them, and the bounds a      *)
(* transaction puts on ledger time.  Daml code never reads the clock here: *)
(* it asks whether ledger time is below or above a bound, and the answer   *)
(* stands for as long as ledger time stays on the same side of the bound.  *)
(*                                                                         *)
(* DA.Time and the four isLedgerTime builtins are not in the repository;   *)
(* they are modelled from the comments and guards of Policy.daml.          *)
(***************************************************************************)
EXTENDS Integers

CONSTANTS
    MinTime, MaxTime,   \* minBound and maxBound of Time
    MaxInt,             \* the largest Int64: a RelTime counts microseconds
    Overflow            \* what arithmetic yields where Daml raises an exception

ASSUME LedgerTimeAssumption ==
    /\ MinTime \in Int /\ MaxTime \in Int /\ MaxInt \in Nat
    /\ MinTime < MaxTime
    \* The whole range of Time spans 315537897599999999 microseconds.
    /\ MaxTime - MinTime <= MaxInt
    /\ Overflow \notin Int

Time    == MinTime .. MaxTime
RelTime == (-MaxInt - 1) .. MaxInt

subTime(t, u) == t - u

\* Raises at the Int minimum, whose opposite has no representation.
negate(d) == IF -d \in RelTime THEN -d ELSE Overflow

addRelTime(t, d) ==
    IF d # Overflow /\ t + d \in Time THEN t + d ELSE Overflow

-------------------------------------------------------------------------------
\* An Update Bool about ledger time: an answer known without asking, or a
\* question whose answer depends on the ledger time of the transaction.
Known(b)          == [ask |-> "nothing", answer |-> b]
isLedgerTimeLT(t) == [ask |-> "LT", bound |-> t]
isLedgerTimeLE(t) == [ask |-> "LE", bound |-> t]
isLedgerTimeGT(t) == [ask |-> "GT", bound |-> t]
isLedgerTimeGE(t) == [ask |-> "GE", bound |-> t]

Asks(q, relation) == q.ask = relation

Answer(q, now) ==
    \/ Asks(q, "nothing") /\ q.answer
    \/ Asks(q, "LT") /\ now < q.bound
    \/ Asks(q, "LE") /\ now <= q.bound
    \/ Asks(q, "GT") /\ now > q.bound
    \/ Asks(q, "GE") /\ now >= q.bound

\* The builtins reject the two bounds they cannot express as a half-open range,
\* and there is no asking about a time that arithmetic failed to produce.
Askable(q) ==
    \/ Asks(q, "nothing")
    \/ /\ q.ask \in {"LT", "GE"}
       /\ q.bound \in Time
    \/ /\ q.ask \in {"LE", "GT"}
       /\ q.bound \in Time \ {MaxTime}

-------------------------------------------------------------------------------
\* Fault: asks about MaxTime.
ledgerTimePlusIsAtMost_AsksMax(d, t) ==
    IF d >= 0
    THEN IF subTime(t, MinTime) < d THEN Known(FALSE) ELSE isLedgerTimeLE(addRelTime(t, negate(d)))
    ELSE IF d <= subTime(t, MaxTime) THEN Known(TRUE) ELSE isLedgerTimeLE(addRelTime(t, negate(d)))

\* now + d <= t, asked as now <= t - d.
ledgerTimePlusIsAtMost(d, t) ==
    IF d >= 0
    THEN IF subTime(t, MinTime) < d
         THEN Known(FALSE)
         ELSE LET bound == addRelTime(t, negate(d))
              IN  IF bound = MaxTime THEN Known(TRUE) ELSE isLedgerTimeLE(bound)
    ELSE IF d <= subTime(t, MaxTime)
         THEN Known(TRUE)
         ELSE isLedgerTimeLE(addRelTime(t, negate(d)))

\* Fault: a duration longer than the time since MinTime is refused.
ledgerTimePlusIsAtLeast_Refuses(d, t) ==
    IF subTime(t, MinTime) < d \/ d < subTime(t, MaxTime)
    THEN Known(FALSE) ELSE isLedgerTimeGE(addRelTime(t, negate(d)))

\* t <= now + d, asked as now >= t - d.
ledgerTimePlusIsAtLeast(d, t) ==
    IF d >= 0
    THEN IF subTime(t, MinTime) < d
         THEN Known(TRUE)
         ELSE isLedgerTimeGE(addRelTime(t, negate(d)))
    ELSE IF d < subTime(t, MaxTime)
         THEN Known(FALSE)
         ELSE isLedgerTimeGE(addRelTime(t, negate(d)))

\* requestedAt < now: no ledger time is after MaxTime.
requestedInPast(t) == IF t = MaxTime THEN Known(FALSE) ELSE isLedgerTimeGT(t)

===============================================================================
