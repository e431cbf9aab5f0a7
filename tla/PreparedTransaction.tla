-------------------------- MODULE PreparedTransaction --------------------------
(***************************************************************************)
(* The time checks of validateTerms in a transaction that is prepared at   *)
(* one ledger time and executed at a later one.  Preparing it evaluates the*)
(* Updates: each question asked about ledger time is answered and recorded.*)
(* The ledger executes the transaction if ledger time still gives every    *)
(* question the same answer, and rejects it otherwise.                     *)
(***************************************************************************)
EXTENDS LedgerTime

CONSTANT Durations      \* those that registries may set as their limits

ASSUME DurationAssumption == Durations \subseteq RelTime

VARIABLES now, tx

vars == <<now, tx>>

\* The questions of validateTerms in order, each asked only if the assertions
\* and conditions before it have held.
asked(minDuration, maxDuration, requestedAt, expiresAt) ==
    LET q1 == requestedInPast(requestedAt)
        q2 == ledgerTimePlusIsAtMost(minDuration, expiresAt)
        q3 == ledgerTimePlusIsAtLeast(maxDuration, expiresAt)
    IN  {q1} \union (IF Answer(q1, now) THEN {q2} ELSE {})
             \union (IF Answer(q1, now) /\ Answer(q2, now) THEN {q3} ELSE {})

Idle == [phase |-> "idle"]

Init == now \in Time /\ tx = Idle

\* The assertions abort the preparation unless every answer is yes.
Prepare(minDuration, maxDuration, requestedAt, expiresAt) ==
    LET questions == asked(minDuration, maxDuration, requestedAt, expiresAt)
    IN  /\ tx = Idle
        /\ tx' = [phase |-> IF \A q \in questions : Answer(q, now) THEN "prepared" ELSE "aborted",
                  minDuration |-> minDuration, maxDuration |-> maxDuration,
                  requestedAt |-> requestedAt, expiresAt |-> expiresAt,
                  questions |-> questions]
        /\ UNCHANGED now

Execute ==
    /\ tx.phase = "prepared"
    /\ tx' = [tx EXCEPT !.phase =
                 IF \A q \in tx.questions : Answer(q, now) THEN "executed" ELSE "rejected"]
    /\ UNCHANGED now

Tick ==
    /\ now < MaxTime
    /\ tx.phase \in {"idle", "prepared"}
    /\ now' = now + 1
    /\ UNCHANGED tx

Next ==
    \/ \E minDuration, maxDuration \in Durations, requestedAt, expiresAt \in Time :
          Prepare(minDuration, maxDuration, requestedAt, expiresAt)
    \/ Execute
    \/ Tick

Spec == Init /\ [][Next]_vars

-------------------------------------------------------------------------------
\* What the terms must satisfy at ledger time now, in unbounded arithmetic.
timesAreValid ==
    /\ tx.requestedAt < now
    /\ now + tx.minDuration <= tx.expiresAt
    /\ tx.expiresAt <= now + tx.maxDuration

\* No preparation raises: no question is about a time outside the range or one
\* that a builtin rejects, for any duration and any time ("total over every Time
\* and RelTime", Policy.daml:315).
QuestionsAskable == tx # Idle => \A q \in tx.questions : Askable(q)

\* Terms are locked exactly when their times are valid at the ledger time of
\* the execution, however long after the preparation that is: a delay neither
\* lets outdated terms through nor rejects terms that are still valid.
ExecutedExactly ==
    /\ tx.phase = "executed" => timesAreValid
    /\ tx.phase \in {"rejected", "aborted"} => ~timesAreValid

===============================================================================
