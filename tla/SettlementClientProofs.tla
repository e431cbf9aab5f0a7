------------------------ MODULE SettlementClientProofs ------------------------
(* For every choice of deadlines, every interleaving of lost, refused and late *)
(* requests with failures, timeouts and the end of the process: delivery and   *)
(* payment go together, what the client has allocated is released, named or    *)
(* still owed by a body that was not let finish, and its record is true.       *)
EXTENDS SettlementClient, TLAPS

Ops == {"mint", "lock", "accept", "sender", "receiver", "settle", "attempt",
        "expire", "read", "check", "withdraw", "archive"}
Request == [op : Ops, test : Tests, side : Sides]
LockPhases == {"none", "pending", "active", "delivered", "refunded"}
AllocationPhases == {"none", "live", "settled", "withdrawn"}

LedgerTypes ==
    /\ lock \in [Tests -> LockPhases]
    /\ allocation \in [Tests -> [Sides -> AllocationPhases]]

TypesOK ==
    /\ LedgerTypes
    /\ now \in Nat /\ start \in [Tests -> Nat] /\ late \subseteq Request
    /\ step \in [Tests -> 0 .. 9] /\ undo \in [Tests -> Seq(Sides)]
    /\ outcome \in [Tests -> {"none", "passed", "failed", "timedOut"}]

PaidOK == \A t \in Tests, s \in Sides : allocation[t][s] = "settled" <=> lock[t] = "delivered"

\* An enactment of the expiry test, however late, comes after the deadline, which
\* does not move any more.
comesLate(r) ==
    r.op = "attempt" =>
        r.test = "expiry" /\ now >= deadline("expiry") /\ step["expiry"] \notin 1 .. 4
AttemptsOK == \A r \in late : comesLate(r)

\* A test that ended by itself leaves no body behind.
OutcomeOK == \A t \in Tests : outcome[t] \in {"passed", "failed"} => step[t] = 9

UndoOK == \A t \in Tests : step[t] = 0 => undo[t] # <<>>

safe(t, s) == allocation[t][s] \in {"settled", "withdrawn"} \/ <<t, s>> \in named
Left(t, s) == \E i \in 1 .. Len(undo[t]) : undo[t][i] = s

\* The sides that a failure at step k of test t withdraws.
due(t, k) ==
    IF t = "settlement" THEN IF k = 5 THEN {"sender"} ELSE IF k = 6 THEN Sides ELSE {}
    ELSE IF k \in 5 .. 8 THEN {"sender"} ELSE {}

\* Whatever the client holds an ID of is safe, or its body will still see to it.
KnownOK ==
    \A t \in Tests, s \in Sides :
        <<t, s>> \in known =>
            \/ safe(t, s)
            \/ step[t] = 0 /\ Left(t, s)
            \/ step[t] > 0 /\ s \in due(t, step[t])

RecordOK ==
    /\ "settlement" \in record => lock["settlement"] = "delivered"
    /\ "expiry" \in record => lock["expiry"] = "refunded" /\ allocation["expiry"]["sender"] = "withdrawn"
    /\ "written" \in record => Tests \subseteq record
    /\ step["settlement"] \in {7, 8} => lock["settlement"] = "delivered"
    /\ step["expiry"] \in {7, 8} => lock["expiry"] = "refunded"

IInv == TypesOK /\ PaidOK /\ AttemptsOK /\ OutcomeOK /\ UndoOK /\ KnownOK /\ RecordOK
-----------------------------------------------------------------------------
LEMMA StepsAre ==
    ASSUME TypesOK, NEW t \in Tests
    PROVE  /\ ended(t) = 9 /\ Len(steps[t]) = 8
           /\ step[t] = 0 => op(t) = "withdraw"
           /\ step[t] \in 1 .. 8 =>
                 /\ op(t) \in Ops \ {"archive"}
                 /\ op(t) = "mint" <=> step[t] = 1
                 /\ op(t) = "sender" <=> step[t] = 4
                 /\ op(t) = "receiver" <=> t = "settlement" /\ step[t] = 5
                 /\ op(t) = "settle" <=> t = "settlement" /\ step[t] = 6
                 /\ op(t) = "attempt" <=> t = "expiry" /\ step[t] = 5
                 /\ op(t) = "expire" <=> t = "expiry" /\ step[t] = 6
                 /\ op(t) = "withdraw" <=> t = "expiry" /\ step[t] = 8
<1>1. step[t] \in 0 .. 9 /\ t \in {"settlement", "expiry"}
    BY DEF TypesOK, Tests
<1>2. step[t] = 0 => op(t) = "withdraw"
    BY DEF op
<1>3. CASE t = "settlement"
    <2>1. steps[t] = <<"mint", "lock", "accept", "sender", "receiver", "settle", "read", "check">>
        BY <1>3 DEF steps
    <2>2. step[t] \in 1 .. 8 => op(t) = steps[t][step[t]]
        BY DEF op
    <2> QED
        BY <1>1, <1>2, <1>3, <2>1, <2>2 DEF Ops, ended
<1>4. CASE t = "expiry"
    <2>1. steps[t] = <<"mint", "lock", "accept", "sender", "attempt", "expire", "read", "withdraw">>
        BY <1>4 DEF steps
    <2>2. step[t] \in 1 .. 8 => op(t) = steps[t][step[t]]
        BY DEF op
    <2> QED
        BY <1>1, <1>2, <1>4, <2>1, <2>2 DEF Ops, ended
<1> QED
    BY <1>1, <1>3, <1>4

LEMMA UndoIs ==
    ASSUME TypesOK, NEW t \in Tests, step[t] \in 1 .. 8
    PROVE  /\ toWithdraw(t) \in Seq(Sides)
           /\ \A s \in Sides : s \in due(t, step[t]) <=>
                  \E i \in 1 .. Len(toWithdraw(t)) : toWithdraw(t)[i] = s
<1>1. <<"sender">> \in Seq(Sides) /\ <<"sender", "receiver">> \in Seq(Sides) /\ <<>> \in Seq(Sides)
    BY DEF Sides
<1>2. CASE t = "settlement" /\ step[t] = 5
    <2>1. toWithdraw(t) = <<"sender">> /\ due(t, step[t]) = {"sender"}
        BY <1>2, StepsAre DEF toWithdraw, due
    <2> QED
        BY <1>1, <2>1
<1>3. CASE t = "settlement" /\ step[t] = 6
    <2>1. toWithdraw(t) = <<"sender", "receiver">> /\ due(t, step[t]) = Sides
        BY <1>3, StepsAre DEF toWithdraw, due
    <2>2. toWithdraw(t)[1] = "sender" /\ toWithdraw(t)[2] = "receiver" /\ Len(toWithdraw(t)) = 2
        BY <2>1
    <2> QED
        BY <1>1, <2>1, <2>2 DEF Sides
<1>4. CASE t = "expiry" /\ step[t] > 4
    <2>1. toWithdraw(t) = <<"sender">> /\ due(t, step[t]) = {"sender"}
        BY <1>4, StepsAre DEF toWithdraw, due
    <2> QED
        BY <1>1, <2>1
<1>5. CASE ~(t = "settlement" /\ step[t] \in {5, 6}) /\ ~(t = "expiry" /\ step[t] > 4)
    <2>1. toWithdraw(t) = <<>> /\ due(t, step[t]) = {}
        BY <1>5, StepsAre DEF toWithdraw, due, Tests
    <2> QED
        BY <1>1, <2>1
<1> QED
    BY <1>2, <1>3, <1>4, <1>5

\* What a body that is under way asks for; an enactment after the deadline only.
LEMMA RequestIs ==
    ASSUME TypesOK, UndoOK, NEW t \in Tests, running(t), slept(t)
    PROVE  /\ step[t] \in 0 .. 8 /\ request(t) \in Request
           /\ request(t).op = op(t) /\ request(t).test = t
           /\ request(t).side = IF step[t] = 0 THEN Head(undo[t]) ELSE "sender"
           /\ comesLate(request(t))
<1>1. step[t] \in 0 .. 8
    BY StepsAre DEF running, TypesOK
<1>2. /\ request(t).op = op(t) /\ request(t).test = t
      /\ request(t).side = IF step[t] = 0 THEN Head(undo[t]) ELSE "sender"
    BY DEF request
<1>3. op(t) \in Ops /\ (op(t) = "attempt" => t = "expiry" /\ step[t] = 5)
    BY <1>1, StepsAre DEF Ops
<1>4. (IF step[t] = 0 THEN Head(undo[t]) ELSE "sender") \in Sides
    BY DEF UndoOK, TypesOK, Sides
<1>5. request(t) \in Request
    BY <1>3, <1>4 DEF request, Request
<1>6. op(t) = "attempt" => now >= deadline(t)
    <2>1. deadline(t) \in Nat /\ now \in Nat
        BY TimesAssumption DEF TypesOK, deadline
    <2> QED
        BY <2>1, TimesAssumption DEF slept, clock
<1> QED
    BY <1>1, <1>2, <1>3, <1>5, <1>6 DEF comesLate
-----------------------------------------------------------------------------
\* Allocations and locks only move forward.
Forward ==
    /\ \A t \in Tests, s \in Sides :
          allocation'[t][s] # allocation[t][s] =>
              allocation[t][s] \in {"none", "live"}
    /\ \A t \in Tests : lock'[t] # lock[t] => lock[t] \notin {"delivered", "refunded"}

LEMMA Taken ==
    ASSUME LedgerTypes, NEW r \in Request, accepts(r), takes(r), PaidOK,
           r.op = "attempt" => now >= deadline(r.test), now \in Nat, start \in [Tests -> Nat]
    PROVE  /\ LedgerTypes' /\ Forward /\ PaidOK'
           /\ r.op = "settle" => lock'[r.test] = "delivered"
           /\ r.op = "expire" => lock'[r.test] = "refunded"
           /\ r.op = "withdraw" => allocation'[r.test][r.side] = "withdrawn"
<1>1. r.test \in Tests /\ r.side \in Sides /\ r.op \in Ops
    BY DEF Request
<1>2. CASE r.op \in {"lock", "accept", "expire"}
    <2>1. lock' = [lock EXCEPT ![r.test] = lockBecomes[r.op]] /\ allocation' = allocation
        BY <1>2 DEF takes, lockBecomes, Sides
    <2>2. lock[r.test] \in {"none", "pending", "active"}
        BY <1>2 DEF accepts, Sides
    <2>3. lockBecomes[r.op] = IF r.op = "lock" THEN "pending" ELSE IF r.op = "accept" THEN "active" ELSE "refunded"
        BY <1>2 DEF lockBecomes
    <2> QED
        BY <1>1, <1>2, <2>1, <2>2, <2>3 DEF LedgerTypes, LockPhases, Forward, PaidOK
<1>3. CASE r.op = "settle"
    <2>1. /\ lock' = [lock EXCEPT ![r.test] = "delivered"]
          /\ allocation' = [allocation EXCEPT ![r.test] = [s \in Sides |-> "settled"]]
        BY <1>3 DEF takes, lockBecomes, Sides
    <2>2. lock[r.test] = "active" /\ \A s \in Sides : allocation[r.test][s] = "live"
        BY <1>3 DEF accepts, Sides
    <2>3. LedgerTypes'
        BY <1>1, <2>1 DEF LedgerTypes, LockPhases, AllocationPhases
    <2> QED
        BY <1>1, <1>3, <2>1, <2>2, <2>3 DEF LedgerTypes, Forward, PaidOK
<1>4. CASE r.op = "attempt"
    <2>1. now < deadline(r.test)
        BY <1>4 DEF accepts, Sides
    <2>2. deadline(r.test) \in Nat
        BY <1>1, TimesAssumption DEF deadline
    <2> QED
        BY <1>4, <2>1, <2>2
<1>5. CASE r.op \in Sides
    <2>1. lock' = lock /\ allocation' = [allocation EXCEPT ![r.test][r.op] = "live"]
        BY <1>5 DEF takes, lockBecomes, Sides
    <2>2. allocation[r.test][r.op] = "none"
        BY <1>5 DEF accepts, Sides
    <2>3. LedgerTypes'
        BY <1>1, <1>5, <2>1 DEF LedgerTypes, AllocationPhases
    <2> QED
        BY <1>1, <1>5, <2>1, <2>2, <2>3 DEF LedgerTypes, Forward, PaidOK, Sides
<1>6. CASE r.op = "withdraw"
    <2>1. lock' = lock /\ allocation' = [allocation EXCEPT ![r.test][r.side] = "withdrawn"]
        BY <1>6 DEF takes, lockBecomes, Sides
    <2>2. allocation[r.test][r.side] = "live"
        BY <1>6 DEF accepts, Sides
    <2>3. LedgerTypes'
        BY <1>1, <2>1 DEF LedgerTypes, AllocationPhases
    <2> QED
        BY <1>1, <1>6, <2>1, <2>2, <2>3 DEF LedgerTypes, Forward, PaidOK, Sides
<1>7. CASE r.op \in {"mint", "read", "check", "archive"}
    <2>1. lock' = lock /\ allocation' = allocation
        BY <1>7 DEF takes, lockBecomes, Sides
    <2> QED
        BY <1>7, <2>1 DEF LedgerTypes, Forward, PaidOK
<1> QED
    BY <1>1, <1>2, <1>3, <1>4, <1>5, <1>6, <1>7 DEF Ops, Sides

\* What becomes of a request, whether the client learns it or not.
LedgerOK ==
    /\ LedgerTypes' /\ Forward /\ PaidOK' /\ late' \subseteq Request
    /\ \A r \in late' : comesLate(r)

LEMMA Accepted ==
    ASSUME IInv, NEW r \in Request, comesLate(r), accepted(r)
    PROVE  /\ LedgerOK
           /\ r.op = "settle" => lock'[r.test] = "delivered"
           /\ r.op = "expire" => lock'[r.test] = "refunded"
           /\ r.op = "withdraw" => allocation'[r.test][r.side] = "withdrawn"
<1>1. r.op = "attempt" => now >= deadline(r.test)
    BY DEF comesLate
<1>2. accepts(r) /\ takes(r) /\ late' = late
    BY DEF accepted
<1> QED
    BY <1>1, <1>2, Taken DEF IInv, TypesOK, AttemptsOK, LedgerOK

LEMMA NotAccepted ==
    ASSUME IInv, NEW requests, \A r \in requests : r \in Request /\ comesLate(r),
           givenUp(requests)
    PROVE  LedgerOK
BY DEF IInv, TypesOK, LedgerTypes, PaidOK, AttemptsOK, LedgerOK, Forward, givenUp, ledger

LEMMA Refused ==
    ASSUME IInv, UNCHANGED <<ledger, late>>
    PROVE  LedgerOK
BY DEF IInv, TypesOK, LedgerTypes, PaidOK, AttemptsOK, LedgerOK, Forward, ledger

\* What is safe stays safe, and what is delivered or refunded stays that.
LEMMA Kept ==
    ASSUME IInv, LedgerOK, named \subseteq named'
    PROVE  /\ \A t \in Tests, s \in Sides : safe(t, s) => safe(t, s)'
           /\ \A t \in Tests : lock[t] \in {"delivered", "refunded"} => lock'[t] = lock[t]
           /\ \A t \in Tests, s \in Sides :
                 allocation[t][s] = "withdrawn" => allocation'[t][s] = "withdrawn"
BY DEF LedgerOK, Forward, safe

\* Once the expiry test is past its allocation its enactments stay late.
LEMMA StaysLate ==
    ASSUME LedgerOK, now' = now, step["expiry"] \notin 1 .. 4 =>
               step'["expiry"] \notin 1 .. 4 /\ start'["expiry"] = start["expiry"]
    PROVE  AttemptsOK'
BY DEF LedgerOK, AttemptsOK, comesLate, deadline

\* A step that leaves the bodies where they are disturbs nothing else.
LEMMA BodiesStay ==
    ASSUME IInv, LedgerOK, now' = now, UNCHANGED <<start, step, undo, known, named>>,
           OutcomeOK', outcome' \in [Tests -> {"none", "passed", "failed", "timedOut"}],
           record' \in {record, record \union {"written"}},
           "written" \in record' => "written" \in record \/ Tests \subseteq record
    PROVE  IInv'
<1>1. TypesOK' /\ PaidOK' /\ UndoOK'
    BY DEF IInv, TypesOK, UndoOK, LedgerOK
<1>2. AttemptsOK'
    BY StaysLate
<1>3. KnownOK'
    BY Kept DEF IInv, KnownOK, Left
<1>4. RecordOK'
    BY Kept DEF IInv, RecordOK, Tests, Sides
<1> QED
    BY <1>1, <1>2, <1>3, <1>4 DEF IInv
-----------------------------------------------------------------------------
\* Before the first test the client has asked for nothing.
THEOREM InitEstablishes == Init => IInv
<1> SUFFICES ASSUME Init PROVE IInv
    OBVIOUS
<1>1. TypesOK
    BY DEF Init, TypesOK, LedgerTypes, LockPhases, AllocationPhases, Tests, Sides
<1> QED
    BY <1>1 DEF Init, IInv, PaidOK, AttemptsOK, OutcomeOK, UndoOK, KnownOK, RecordOK, Tests, Sides

LEMMA TakeLatePreserves == ASSUME IInv, TakeLate PROVE IInv'
<1>1. SUFFICES ASSUME NEW r \in late, late' = late \ {r},
                      accepts(r) => takes(r), ~accepts(r) => UNCHANGED ledger,
                      now' = now, UNCHANGED client
               PROVE  IInv'
    BY DEF TakeLate
<1>2. LedgerTypes' /\ Forward /\ PaidOK'
    <2>1. CASE accepts(r)
        <3>1. r \in Request /\ (r.op = "attempt" => now >= deadline(r.test))
            BY DEF IInv, TypesOK, AttemptsOK, comesLate
        <3> QED
            BY <1>1, <2>1, <3>1, Taken DEF IInv, TypesOK
    <2>2. CASE ~accepts(r)
        BY <1>1, <2>2 DEF IInv, TypesOK, LedgerTypes, Forward, PaidOK, ledger
    <2> QED
        BY <2>1, <2>2
<1>3. LedgerOK
    BY <1>1, <1>2 DEF IInv, TypesOK, AttemptsOK, LedgerOK
<1> QED
    BY <1>1, <1>3, BodiesStay DEF IInv, TypesOK, OutcomeOK, RecordOK, client

LEMMA TickPreserves == ASSUME IInv, Tick PROVE IInv'
<1>1. now' = now + 1 /\ UNCHANGED <<ledger, client, late>>
    BY DEF Tick
<1>2. deadline("expiry") \in Nat
    BY TimesAssumption DEF IInv, TypesOK, deadline, Tests
<1> QED
    BY <1>1, <1>2 DEF IInv, TypesOK, LedgerTypes, PaidOK, AttemptsOK, comesLate, OutcomeOK, UndoOK,
        KnownOK, RecordOK, ledger, client, deadline, safe, Left
-----------------------------------------------------------------------------
\* A test that times out leaves its body as it was.
LEMMA TimesOutPreserves == ASSUME IInv, NEW t \in Tests, TimesOut(t) PROVE IInv'
<1>1. /\ now' = now /\ UNCHANGED <<ledger, late, start, step, undo, known, named, record>>
      /\ outcome' = [outcome EXCEPT ![t] = "timedOut"]
    BY DEF TimesOut, goesOn
<1>2. LedgerOK
    BY <1>1, Refused
<1>3. OutcomeOK'
    BY <1>1 DEF IInv, TypesOK, OutcomeOK
<1> QED
    BY <1>1, <1>2, <1>3, BodiesStay DEF IInv, TypesOK, RecordOK

\* A body that goes on from step k of its test to a later one, or to its end.
LEMMA StepDonePreserves == ASSUME IInv, NEW t \in Tests, StepDone(t) PROVE IInv'
<1> DEFINE r == request(t)
<1>1. /\ running(t) /\ slept(t) /\ step[t] \in 1 .. 8 /\ r \in Request /\ comesLate(r)
      /\ r.op = op(t) /\ r.test = t /\ r.side = "sender"
    BY RequestIs DEF StepDone, IInv
<1>2. /\ now' = now /\ UNCHANGED <<undo, named>>
      /\ step' = [step EXCEPT ![t] = IF hookTimedOut(t) THEN 9 ELSE step[t] + 1]
      /\ start' = IF op(t) = "mint" THEN [start EXCEPT ![t] = clock] ELSE start
    BY StepsAre DEF StepDone, IInv
<1>3. op(t) = "attempt" \/ accepted(r)
    BY DEF StepDone
<1>4. LedgerOK
    <2>1. CASE op(t) = "attempt"
        BY <2>1, Refused DEF StepDone, refused
    <2>2. CASE accepted(r)
        BY <1>1, <2>2, Accepted
    <2> QED
        BY <1>3, <2>1, <2>2
<1>5. /\ op(t) = "settle" => lock'[t] = "delivered"
      /\ op(t) = "expire" => lock'[t] = "refunded"
      /\ op(t) = "withdraw" => allocation'[t]["sender"] = "withdrawn"
    BY <1>1, <1>3, Accepted
<1>6. \/ step[t] # 8 /\ UNCHANGED <<outcome, record>>
      \/ step[t] = 8 /\ record' = record \union {t} /\ outcome' \in {outcome, [outcome EXCEPT ![t] = "passed"]}
    BY StepsAre DEF StepDone, goesOn, IInv
<1>7. /\ step'[t] \in {step[t] + 1, 9} /\ (step'[t] # step[t] + 1 => t = "settlement" /\ step[t] = 7)
      /\ step' \in [Tests -> 0 .. 9] /\ \A u \in Tests \ {t} : step'[u] = step[u]
    <2>1. hookTimedOut(t) => t = "settlement" /\ step[t] = 7
        BY StepsAre DEF hookTimedOut, IInv
    <2> QED
        BY <1>1, <1>2, <2>1 DEF IInv, TypesOK
<1>8. TypesOK'
    <2>1. clock \in Nat
        BY TimesAssumption DEF clock, IInv, TypesOK
    <2>2. start' \in [Tests -> Nat]
        BY <1>2, <2>1 DEF IInv, TypesOK
    <2>3. outcome' \in [Tests -> {"none", "passed", "failed", "timedOut"}]
        BY <1>6 DEF IInv, TypesOK
    <2> QED
        BY <1>2, <1>4, <1>7, <2>2, <2>3 DEF IInv, TypesOK, LedgerOK
<1>9. AttemptsOK'
    <2>1. op(t) = "mint" => step[t] = 1
        BY <1>1, StepsAre DEF IInv
    <2>2. start'["expiry"] # start["expiry"] => t = "expiry" /\ step[t] = 1
        BY <1>2, <2>1 DEF IInv, TypesOK, Tests
    <2>3. step["expiry"] \notin 1 .. 4 => step'["expiry"] \notin 1 .. 4
        BY <1>1, <1>7 DEF Tests
    <2> QED
        BY <1>2, <1>4, <2>2, <2>3, StaysLate
<1>10. OutcomeOK' /\ UndoOK'
    <2>1. outcome[t] \notin {"passed", "failed"}
        BY <1>1 DEF IInv, OutcomeOK
    <2>2. step[t] = 8 => step'[t] = 9
        BY <1>7
    <2> QED
        BY <1>1, <1>2, <1>6, <1>7, <2>1, <2>2 DEF IInv, TypesOK, OutcomeOK, UndoOK
<1>11. KnownOK'
    <2> SUFFICES ASSUME NEW u \in Tests, NEW s \in Sides, <<u, s>> \in known'
                 PROVE  \/ safe(u, s)'
                        \/ step'[u] = 0 /\ Left(u, s)'
                        \/ step'[u] > 0 /\ s \in due(u, step'[u])
        BY DEF KnownOK
    <2>1. safe(u, s) => safe(u, s)'
        BY <1>2, <1>4, Kept
    <2>2. <<u, s>> \in known \/ (u = t /\ op(t) = s)
        BY DEF StepDone, Sides
    <2>3. CASE u # t
        BY <1>2, <1>7, <2>1, <2>2, <2>3 DEF IInv, KnownOK, Left
    <2>4. CASE u = t /\ op(t) = s
        <3>1. \/ s = "sender" /\ step[t] = 4
              \/ s = "receiver" /\ t = "settlement" /\ step[t] = 5
            BY <1>1, <2>4, StepsAre DEF IInv, Sides
        <3>2. step'[t] = step[t] + 1
            BY <1>7, <3>1
        <3> QED
            BY <2>4, <3>1, <3>2 DEF due, Sides
    <2>5. CASE u = t /\ <<u, s>> \in known
        <3>1. safe(t, s) \/ s \in due(t, step[t])
            BY <1>1, <2>5 DEF IInv, KnownOK
        <3>2. CASE s \in due(t, step[t]) /\ s \notin due(t, step'[t])
            <4>1. \/ t = "settlement" /\ step[t] = 6
                  \/ t = "expiry" /\ step[t] = 8 /\ s = "sender"
                <5>1. t = "settlement" => step[t] \in {5, 6} /\ (step[t] = 5 => s = "sender")
                    BY <3>2 DEF due
                <5>2. t = "settlement" /\ step[t] = 5 => step'[t] = 6
                    BY <1>7
                <5>3. t = "expiry" => step[t] \in 5 .. 8 /\ s = "sender" /\ step'[t] = step[t] + 1
                    BY <1>7, <3>2 DEF due
                <5> QED
                    BY <3>2, <5>1, <5>2, <5>3 DEF due, Tests, Sides
            <4>2. CASE t = "settlement" /\ step[t] = 6
                <5>1. op(t) = "settle"
                    BY <1>1, <4>2, StepsAre DEF IInv
                <5>2. allocation'[t][s] = "settled"
                    BY <1>4, <1>5, <5>1 DEF LedgerOK, PaidOK
                <5> QED
                    BY <2>5, <5>2 DEF safe
            <4>3. CASE t = "expiry" /\ step[t] = 8 /\ s = "sender"
                <5>1. op(t) = "withdraw"
                    BY <1>1, <4>3, StepsAre DEF IInv
                <5> QED
                    BY <1>5, <2>5, <4>3, <5>1 DEF safe
            <4> QED
                BY <4>1, <4>2, <4>3
        <3> QED
            BY <1>1, <1>7, <2>1, <2>5, <3>1, <3>2
    <2> QED
        BY <2>2, <2>3, <2>4, <2>5
<1>12. RecordOK'
    <2>1. step[t] = 8 /\ t = "expiry" => op(t) = "withdraw"
        BY StepsAre DEF IInv
    <2>2. step'["settlement"] = 7 /\ t = "settlement" => op(t) = "settle"
        BY <1>1, <1>7, StepsAre DEF IInv
    <2>3. step'["expiry"] = 7 /\ t = "expiry" => op(t) = "expire"
        BY <1>1, <1>7, StepsAre DEF IInv
    <2>4. /\ step'["settlement"] \in {7, 8} => lock'["settlement"] = "delivered"
          /\ step'["expiry"] \in {7, 8} => lock'["expiry"] = "refunded"
        BY <1>1, <1>2, <1>4, <1>5, <1>7, <2>2, <2>3, Kept DEF IInv, RecordOK, Tests
    <2>5. step[t] = 8 => /\ t = "settlement" => lock'[t] = "delivered"
                         /\ t = "expiry" => lock'[t] = "refunded" /\ allocation'[t]["sender"] = "withdrawn"
        BY <1>2, <1>4, <1>5, <2>1, Kept DEF IInv, RecordOK, Tests
    <2>6. "written" \in record' => Tests \subseteq record'
        BY <1>6 DEF IInv, RecordOK, Tests
    <2> QED
        BY <1>2, <1>4, <1>6, <2>4, <2>5, <2>6, Kept DEF IInv, RecordOK, Tests, Sides
<1> QED
    BY <1>4, <1>8, <1>9, <1>10, <1>11, <1>12 DEF IInv, LedgerOK

LEMMA StepFailsPreserves == ASSUME IInv, NEW t \in Tests, StepFails(t) PROVE IInv'
<1> DEFINE r == request(t)
<1>1. running(t) /\ slept(t) /\ step[t] \in 1 .. 8 /\ r \in Request /\ comesLate(r)
    BY RequestIs DEF StepFails, IInv
<1>2. /\ now' = now /\ UNCHANGED <<start, known, named, record>>
      /\ undo' = [undo EXCEPT ![t] = toWithdraw(t)]
    BY DEF StepFails
<1>3. LedgerOK
    <2>1. accepted(r) \/ refused(r) \/ givenUp({r})
        BY DEF StepFails
    <2> QED
        BY <1>1, <2>1, Accepted, Refused, NotAccepted DEF refused
<1>4. \/ /\ toWithdraw(t) = <<>> /\ step' = [step EXCEPT ![t] = 9]
         /\ outcome' \in {outcome, [outcome EXCEPT ![t] = "failed"]}
      \/ toWithdraw(t) # <<>> /\ step' = [step EXCEPT ![t] = 0] /\ outcome' = outcome
    BY StepsAre DEF StepFails, goesOn, IInv
<1>5. TypesOK'
    <2>1. undo' \in [Tests -> Seq(Sides)]
        <3>1. toWithdraw(t) \in Seq(Sides)
            BY <1>1, UndoIs DEF IInv
        <3> QED
            BY <1>2, <3>1 DEF IInv, TypesOK
    <2>2. step' \in [Tests -> 0 .. 9]
        BY <1>4 DEF IInv, TypesOK
    <2>3. outcome' \in [Tests -> {"none", "passed", "failed", "timedOut"}]
        <3>1. outcome' \in {outcome, [outcome EXCEPT ![t] = "failed"]}
            BY <1>4
        <3>2. outcome \in [Tests -> {"none", "passed", "failed", "timedOut"}]
            BY DEF IInv, TypesOK
        <3> QED
            BY <3>1, <3>2
    <2> QED
        BY <1>2, <1>3, <2>1, <2>2, <2>3 DEF IInv, TypesOK, LedgerOK
<1>6. AttemptsOK'
    BY <1>2, <1>3, <1>4, StaysLate DEF IInv, TypesOK, Tests
<1>7. OutcomeOK' /\ UndoOK'
    <2>1. outcome[t] \notin {"passed", "failed"}
        BY <1>1 DEF IInv, OutcomeOK
    <2>2. OutcomeOK'
        BY <1>4, <2>1 DEF IInv, TypesOK, OutcomeOK
    <2>3. \A u \in Tests : step'[u] = 0 => undo'[u] # <<>>
        <3> SUFFICES ASSUME NEW u \in Tests, step'[u] = 0 PROVE undo'[u] # <<>>
            OBVIOUS
        <3>1. CASE u = t
            BY <1>2, <1>4, <3>1 DEF IInv, TypesOK
        <3>2. CASE u # t
            BY <1>2, <1>4, <3>2 DEF IInv, TypesOK, UndoOK
        <3> QED
            BY <3>1, <3>2
    <2> QED
        BY <2>2, <2>3 DEF UndoOK
<1>8. KnownOK'
    <2> SUFFICES ASSUME NEW u \in Tests, NEW s \in Sides, <<u, s>> \in known
                 PROVE  \/ safe(u, s)'
                        \/ step'[u] = 0 /\ Left(u, s)'
                        \/ step'[u] > 0 /\ s \in due(u, step'[u])
        BY <1>2 DEF KnownOK
    <2>1. safe(u, s) => safe(u, s)'
        BY <1>2, <1>3, Kept
    <2>2. CASE u # t
        BY <1>2, <1>4, <2>1, <2>2 DEF IInv, TypesOK, KnownOK, Left
    <2>3. CASE u = t
        <3>1. safe(t, s) \/ s \in due(t, step[t])
            BY <1>1, <2>3 DEF IInv, KnownOK
        <3>2. CASE s \in due(t, step[t])
            <4>1. \E i \in 1 .. Len(toWithdraw(t)) : toWithdraw(t)[i] = s
                BY <1>1, <3>2, UndoIs DEF IInv
            <4>2. undo'[t] = toWithdraw(t)
                BY <1>2 DEF IInv, TypesOK
            <4>3. toWithdraw(t) # <<>>
                BY <4>1
            <4>4. step'[t] = 0
                BY <1>4, <4>3 DEF IInv, TypesOK
            <4> QED
                BY <2>3, <4>1, <4>2, <4>4 DEF Left
        <3> QED
            BY <2>1, <2>3, <3>1, <3>2
    <2> QED
        BY <2>2, <2>3
<1>9. RecordOK'
    BY <1>2, <1>3, <1>4, Kept DEF IInv, TypesOK, RecordOK, Tests, Sides
<1> QED
    BY <1>3, <1>5, <1>6, <1>7, <1>8, <1>9 DEF IInv, LedgerOK
-----------------------------------------------------------------------------
\* A side that is dealt with leaves the list, and the others stay on it.
LEMMA UndonePreserves ==
    ASSUME IInv, NEW t \in Tests, undone(t), LedgerOK, named \subseteq named',
           NEW h, h = Head(undo[t]), safe(t, h)'
    PROVE  IInv'
<1>1. /\ step[t] = 0 /\ now' = now /\ UNCHANGED <<start, known, record>>
      /\ undo' = [undo EXCEPT ![t] = Tail(undo[t])]
    BY DEF undone
<1>2. undo[t] # <<>> /\ undo[t] \in Seq(Sides)
    BY <1>1 DEF IInv, TypesOK, UndoOK
<1>3. \/ /\ Len(undo[t]) = 1 /\ step' = [step EXCEPT ![t] = 9]
         /\ outcome' \in {outcome, [outcome EXCEPT ![t] = "failed"]}
      \/ Len(undo[t]) # 1 /\ step' = step /\ outcome' = outcome
    BY StepsAre DEF undone, goesOn, IInv
<1>4. /\ undo'[t] = Tail(undo[t]) /\ undo'[t] \in Seq(Sides) /\ Len(undo'[t]) = Len(undo[t]) - 1
      /\ \A i \in 1 .. Len(undo[t]) - 1 : undo'[t][i] = undo[t][i + 1]
    BY <1>1, <1>2 DEF IInv, TypesOK
<1>5. TypesOK'
    <2>1. undo' \in [Tests -> Seq(Sides)]
        <3>1. Tail(undo[t]) \in Seq(Sides)
            BY <1>4
        <3> QED
            BY <1>1, <3>1 DEF IInv, TypesOK
    <2>2. step' \in [Tests -> 0 .. 9]
        <3>1. step' \in {step, [step EXCEPT ![t] = 9]}
            BY <1>3
        <3>2. step \in [Tests -> 0 .. 9]
            BY DEF IInv, TypesOK
        <3> QED
            BY <3>1, <3>2
    <2>3. outcome' \in [Tests -> {"none", "passed", "failed", "timedOut"}]
        <3>1. outcome' \in {outcome, [outcome EXCEPT ![t] = "failed"]}
            BY <1>3
        <3>2. outcome \in [Tests -> {"none", "passed", "failed", "timedOut"}]
            BY DEF IInv, TypesOK
        <3> QED
            BY <3>1, <3>2
    <2> QED
        BY <1>1, <2>1, <2>2, <2>3 DEF IInv, TypesOK, LedgerOK
<1>6. AttemptsOK'
    BY <1>1, <1>3, StaysLate DEF IInv, TypesOK, Tests
<1>7. OutcomeOK'
    <2>1. outcome[t] \notin {"passed", "failed"}
        BY <1>1 DEF IInv, OutcomeOK
    <2> QED
        BY <1>3, <2>1 DEF IInv, TypesOK, OutcomeOK
<1>8. UndoOK'
    <2> SUFFICES ASSUME NEW u \in Tests, step'[u] = 0 PROVE undo'[u] # <<>>
        BY DEF UndoOK
    <2>1. CASE u = t
        <3>1. Len(undo[t]) # 1
            BY <1>3, <2>1 DEF IInv, TypesOK
        <3>2. Len(undo[t]) \in Nat /\ Len(undo[t]) > 0
            BY <1>2
        <3>3. Len(undo[t]) - 1 > 0 /\ Len(undo'[t]) = Len(undo[t]) - 1
            <4>1. Len(undo'[t]) = Len(undo[t]) - 1
                BY <1>4
            <4>2. \A n \in Nat : n > 0 /\ n # 1 => n - 1 > 0
                OBVIOUS
            <4> QED
                BY <3>1, <3>2, <4>1, <4>2
        <3> QED
            BY <2>1, <3>3
    <2>2. CASE u # t
        BY <1>1, <1>3, <2>2 DEF IInv, TypesOK, UndoOK
    <2> QED
        BY <2>1, <2>2
<1>9. KnownOK'
    <2> SUFFICES ASSUME NEW u \in Tests, NEW s \in Sides, <<u, s>> \in known
                 PROVE  \/ safe(u, s)'
                        \/ step'[u] = 0 /\ Left(u, s)'
                        \/ step'[u] > 0 /\ s \in due(u, step'[u])
        BY <1>1 DEF KnownOK
    <2>1. safe(u, s) => safe(u, s)'
        BY Kept
    <2>2. CASE u # t
        BY <1>1, <1>3, <2>1, <2>2 DEF IInv, TypesOK, KnownOK, Left
    <2>3. CASE u = t
        <3>1. safe(t, s) \/ Left(t, s)
            BY <1>1, <2>3 DEF IInv, KnownOK
        <3>2. CASE Left(t, s)
            <4>1. PICK i \in 1 .. Len(undo[t]) : undo[t][i] = s
                BY <3>2 DEF Left
            <4>2. CASE i = 1
                <5>1. s = h
                    BY <1>2, <4>1, <4>2
                <5> QED
                    BY <2>3, <5>1
            <4>3. CASE i # 1
                <5>1. i - 1 \in 1 .. Len(undo'[t]) /\ undo'[t][i - 1] = s
                    BY <1>2, <1>4, <4>1, <4>3
                <5>2. step'[t] = 0
                    BY <1>1, <1>2, <1>3, <4>1, <4>3
                <5> QED
                    BY <2>3, <5>1, <5>2 DEF Left
            <4> QED
                BY <4>2, <4>3
        <3> QED
            BY <2>1, <2>3, <3>1, <3>2
    <2> QED
        BY <2>2, <2>3
<1>10. RecordOK'
    BY <1>1, <1>3, Kept DEF IInv, TypesOK, RecordOK, Tests, Sides
<1> QED
    BY <1>5, <1>6, <1>7, <1>8, <1>9, <1>10 DEF IInv, LedgerOK

\* What a withdrawal asks for.
LEMMA WithdrawalIs ==
    ASSUME IInv, NEW t \in Tests, undone(t)
    PROVE  /\ request(t) \in Request /\ comesLate(request(t)) /\ Head(undo[t]) \in Sides
           /\ request(t).op = "withdraw" /\ request(t).test = t
           /\ request(t).side = Head(undo[t])
<1>1. step[t] = 0 /\ op(t) = "withdraw"
    BY DEF undone, op
<1>2. Head(undo[t]) \in Sides
    BY <1>1 DEF IInv, TypesOK, UndoOK
<1> QED
    BY <1>1, <1>2 DEF request, Request, Ops, comesLate

LEMMA WithdrawnPreserves == ASSUME IInv, NEW t \in Tests, Withdrawn(t) PROVE IInv'
<1>1. undone(t) /\ accepted(request(t)) /\ named' = named
    BY DEF Withdrawn
<1>2. LedgerOK /\ allocation'[t][Head(undo[t])] = "withdrawn"
    BY <1>1, WithdrawalIs, Accepted
<1>3. PICK h : h = Head(undo[t])
    OBVIOUS
<1>4. safe(t, h)'
    BY <1>2, <1>3 DEF safe
<1> QED
    BY <1>1, <1>2, <1>3, <1>4, UndonePreserves

LEMMA WithdrawalFailsPreserves == ASSUME IInv, NEW t \in Tests, WithdrawalFails(t) PROVE IInv'
<1>1. /\ undone(t) /\ (refused(request(t)) \/ givenUp({request(t)}))
      /\ named' = named \union {<<t, Head(undo[t])>>}
    BY DEF WithdrawalFails
<1>2. LedgerOK
    BY <1>1, WithdrawalIs, Refused, NotAccepted DEF refused
<1>3. PICK h : h = Head(undo[t])
    OBVIOUS
<1>4. safe(t, h)'
    BY <1>1, <1>3 DEF safe
<1> QED
    BY <1>1, <1>2, <1>3, <1>4, UndonePreserves
-----------------------------------------------------------------------------
LEMMA ArchivePreserves == ASSUME IInv, NEW t \in Tests, Archive(t) PROVE IInv'
<1> DEFINE r == [op |-> "archive", test |-> t, side |-> "sender"]
<1>1. /\ accepted(r) \/ refused(r) \/ givenUp({r})
      /\ now' = now /\ UNCHANGED <<start, step, undo, known, named, outcome, record>>
    BY DEF Archive
<1>2. r \in Request /\ comesLate(r)
    BY DEF Request, Ops, Sides, comesLate
<1>3. LedgerOK
    BY <1>1, <1>2, Accepted, Refused, NotAccepted DEF refused
<1> QED
    BY <1>1, <1>3, BodiesStay DEF IInv, TypesOK, OutcomeOK, RecordOK

LEMMA WriteRecordPreserves == ASSUME IInv, WriteRecord PROVE IInv'
<1>1. /\ now' = now /\ UNCHANGED <<ledger, late, start, step, undo, known, named, outcome>>
      /\ record' = IF record = Tests THEN Tests \union {"written"} ELSE record
    BY DEF WriteRecord
<1>2. LedgerOK
    BY <1>1, Refused
<1> QED
    BY <1>1, <1>2, BodiesStay DEF IInv, TypesOK, OutcomeOK, RecordOK

LEMMA ExitPreserves == ASSUME IInv, Exit PROVE IInv'
<1>1. now' = now /\ UNCHANGED <<start, step, undo, known, named, outcome, record>>
    BY DEF Exit
<1>2. PICK cut \in SUBSET {t \in Tests : running(t) /\ slept(t)} : givenUp({request(t) : t \in cut})
    BY DEF Exit
<1>3. \A r \in {request(t) : t \in cut} : r \in Request /\ comesLate(r)
    BY RequestIs DEF IInv
<1>4. LedgerOK
    BY <1>2, <1>3, NotAccepted
<1> QED
    BY <1>1, <1>4, BodiesStay DEF IInv, TypesOK, OutcomeOK, RecordOK
-----------------------------------------------------------------------------
LEMMA StutterPreserves == ASSUME IInv, UNCHANGED vars PROVE IInv'
<1>1. UNCHANGED <<now, ledger, client, late>>
    BY DEF vars
<1>2. LedgerOK
    BY <1>1, Refused
<1> QED
    BY <1>1, <1>2, BodiesStay DEF IInv, TypesOK, OutcomeOK, RecordOK, client

\* No step of a body, the runner, the ledger or a late request breaks the invariant.
THEOREM Invariance == Spec => []IInv
<1>1. Init => IInv
    BY InitEstablishes
<1>2. IInv /\ [Next]_vars => IInv'
    <2> SUFFICES ASSUME IInv, [Next]_vars PROVE IInv'
        OBVIOUS
    <2>1. CASE \E t \in Tests :
                  \/ StepDone(t) \/ StepFails(t) \/ TimesOut(t)
                  \/ Withdrawn(t) \/ WithdrawalFails(t) \/ Archive(t)
        BY <2>1, StepDonePreserves, StepFailsPreserves, TimesOutPreserves,
           WithdrawnPreserves, WithdrawalFailsPreserves, ArchivePreserves
    <2>2. CASE WriteRecord \/ Exit \/ TakeLate \/ Tick
        BY <2>2, WriteRecordPreserves, ExitPreserves, TakeLatePreserves, TickPreserves
    <2>3. CASE UNCHANGED vars
        BY <2>3, StutterPreserves
    <2> QED
        BY <2>1, <2>2, <2>3 DEF Next
<1> QED
    BY <1>1, <1>2, PTL DEF Spec

(* For every choice of times and of how far the client's clock is ahead, an   *)
(* allocation the client holds an ID for is settled, withdrawn or named, or   *)
(* the body that is to withdraw it has not been let finish: its test is under *)
(* way, has timed out, or was cut off with the process (the catches of        *)
(* scenario.ts and dvp.test.ts, the timeouts of vitest.config.ts).            *)
THEOREM NothingEverStranded == Spec => []NothingStranded
<1>1. IInv => NothingStranded
    <2> SUFFICES ASSUME IInv, NEW t \in Tests, NEW s \in Sides, <<t, s>> \in known,
                        allocation[t][s] = "live", <<t, s>> \notin named
                 PROVE  s \in obliged(t) /\ outcome[t] \in {"none", "timedOut"}
        BY DEF NothingStranded
    <2>1. (step[t] = 0 /\ Left(t, s)) \/ (step[t] > 0 /\ s \in due(t, step[t]))
        BY DEF IInv, KnownOK, safe
    <2>2. step[t] \in 0 .. 8
        BY <2>1 DEF IInv, TypesOK, due, Tests
    <2>3. outcome[t] \in {"none", "timedOut"}
        BY <2>2 DEF IInv, OutcomeOK, TypesOK
    <2>4. CASE step[t] = 0
        <3>1. undo[t] \in Seq(Sides) /\ \E i \in 1 .. Len(undo[t]) : undo[t][i] = s
            BY <2>1, <2>4 DEF IInv, TypesOK, Left
        <3> QED
            BY <2>3, <2>4, <3>1 DEF obliged
    <2>5. CASE step[t] \in 1 .. 8
        <3>1. toWithdraw(t) \in Seq(Sides) /\ \E i \in 1 .. Len(toWithdraw(t)) : toWithdraw(t)[i] = s
            BY <2>1, <2>5, UndoIs DEF IInv
        <3>2. step[t] # ended(t) /\ step[t] # 0
            BY <2>5, StepsAre DEF IInv
        <3> QED
            BY <2>3, <3>1, <3>2 DEF obliged
    <2> QED
        BY <2>2, <2>3, <2>4, <2>5
<1> QED
    BY <1>1, Invariance, PTL

(* For every choice of times, the locked tokens are delivered exactly if the  *)
(* payment is settled, though the seller's side alone is enacted, requests    *)
(* arrive late and the client's clock may be ahead by as much as it sleeps    *)
(* longer: the lock's deadline is what rules that out.                        *)
THEOREM DeliveryAlwaysVersusPayment == Spec => []DeliveryVersusPayment
<1>1. IInv => DeliveryVersusPayment
    BY DEF IInv, PaidOK, DeliveryVersusPayment, Sides
<1> QED
    BY <1>1, Invariance, PTL

(* For every choice of times, a record that is written is true when it is and *)
(* stays true (dvp-run.json of dvp.test.ts).                                  *)
THEOREM RecordAlwaysTrue == Spec => []RecordIsTrue
<1>1. IInv => RecordIsTrue
    BY DEF IInv, TypesOK, LedgerTypes, RecordOK, RecordIsTrue, Tests
<1> QED
    BY <1>1, Invariance, PTL
===============================================================================
