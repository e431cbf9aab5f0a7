--------------------------- MODULE SettlementClient ---------------------------
(* The client that settles a lock against a payment on another registry: the *)
(* two tests of dvp.test.ts over the steps of scenario.ts.  Every step is a   *)
(* request that the ledger takes, refuses, or takes after the client has lost *)
(* the connection; what is allocated when a step fails is withdrawn.  A test  *)
(* that times out has failed, but nothing stops its body: it runs on beside   *)
(* whatever comes next until the process ends, which it may at any moment.    *)
EXTENDS Naturals, Sequences, FiniteSets

CONSTANTS
    DeadlineAfter,    \* test -> time from the terms to the deadline of their rule
    ExpiryAfter,      \* test -> time from the terms to the expiry of the lock
    Margin,           \* how long past an instant the client sleeps
    Ahead,            \* of the ledger's clock, the client's: less than it sleeps
    Horizon,          \* bound: ledger time stops here
    MaxLate           \* bound: requests given up on at any one time

Tests == {"settlement", "expiry"}
Sides == {"sender", "receiver"}

ASSUME TimesAssumption ==
    /\ DeadlineAfter \in [Tests -> Nat] /\ ExpiryAfter \in [Tests -> Nat] /\ Horizon \in Nat
    /\ \A t \in Tests : DeadlineAfter[t] < ExpiryAfter[t]
    /\ Margin \in Nat /\ Ahead \in 0 .. Margin /\ MaxLate \in Nat

VARIABLES
    now, start,       \* ledger time, and when each test built its terms
    rules,            \* TokenRules of each test: none, live or archived
    lock,             \* the lock of each test
    allocation,       \* Amulet allocations, by test and side
    test,             \* where the runner is
    step,             \* where the body of each test is: a step, 0 in its catch block
    late,             \* requests given up on that the ledger has not dealt with
    undo,             \* sides each catch block has still to withdraw
    known,            \* contracts whose ID the client holds: allocations and rules
    named,            \* allocations its errors name: "a human must act"
    outcome,          \* of each test
    swept,            \* tests whose TokenRules afterAll has dealt with
    record            \* what dvp-run.json says

ledger == <<rules, lock, allocation>>
client == <<start, test, step, undo, known, named, outcome, swept, record>>
vars == <<now, ledger, client, late>>

deadline(t) == start[t] + DeadlineAfter[t]
expiresAt(t) == start[t] + ExpiryAfter[t]
-----------------------------------------------------------------------------
(* The ledger: both registries                                              *)

\* The state each request needs, and what it leaves.
accepts(r) ==
    LET t == r.test IN
    CASE r.op = "mint"      -> rules[t] = "none"
      [] r.op = "lock"      -> lock[t] = "none" /\ rules[t] = "live"
      [] r.op = "accept"    -> lock[t] = "pending" /\ now < expiresAt(t)
      [] r.op \in Sides     -> allocation[t][r.op] = "none"
      [] r.op = "settle"    -> /\ lock[t] = "active" /\ now < deadline(t)
                               /\ \A s \in Sides : allocation[t][s] = "live"
      [] r.op = "attempt"   -> lock[t] = "active" /\ now < deadline(t)
      [] r.op = "expire"    -> lock[t] = "active" /\ now >= expiresAt(t)
      [] r.op = "withdraw"  -> allocation[t][r.side] = "live"
      [] r.op = "archive"   -> rules[t] = "live"
      [] OTHER              -> TRUE

lockBecomes == [lock |-> "pending", accept |-> "active", settle |-> "delivered",
                attempt |-> "delivered", expire |-> "refunded"]

takes(r) ==
    LET t == r.test IN
    /\ rules' = CASE r.op = "mint" -> [rules EXCEPT ![t] = "live"]
                  [] r.op = "archive" -> [rules EXCEPT ![t] = "archived"]
                  [] OTHER -> rules
    /\ lock' = IF r.op \in DOMAIN lockBecomes THEN [lock EXCEPT ![t] = lockBecomes[r.op]] ELSE lock
    /\ allocation' =
         CASE r.op \in Sides -> [allocation EXCEPT ![t][r.op] = "live"]
           [] r.op = "settle" -> [allocation EXCEPT ![t] = [s \in Sides |-> "settled"]]
           [] r.op = "withdraw" -> [allocation EXCEPT ![t][r.side] = "withdrawn"]
           [] OTHER -> allocation

\* From the expiry on, an enactment is refused before its alternatives are looked at.
noAlternative(r) == lock[r.test] = "active" /\ deadline(r.test) <= now /\ now < expiresAt(r.test)

\* A client waits for the answer to its request.  Either the ledger takes or
\* refuses it, which is one step with what the client makes of the answer, or the
\* answer is not waited for any more, and the ledger deals with it at any later time.
accepted(r) == accepts(r) /\ takes(r) /\ UNCHANGED late
refused(r) == ~accepts(r) /\ UNCHANGED <<ledger, late>>
givenUp(requests) ==
    /\ late' = late \union {r \in requests : r.op \notin {"read", "check"}}
    /\ Cardinality(late') <= MaxLate /\ UNCHANGED ledger

TakeLate ==
    \E r \in late :
        /\ late' = late \ {r}
        /\ IF accepts(r) THEN takes(r) ELSE UNCHANGED ledger
        /\ UNCHANGED <<now, client>>

Tick == now < Horizon /\ now' = now + 1 /\ UNCHANGED <<ledger, client, late>>
-----------------------------------------------------------------------------
(* The bodies of the tests                                                  *)

\* Fault: the record is filled while the buyer's allocation is still live.
steps_RecordsFirst ==
    [settlement |-> <<"mint", "lock", "accept", "sender", "receiver", "settle", "read", "check">>,
     expiry |-> <<"mint", "lock", "accept", "sender", "attempt", "expire", "read">>]

\* All but the last step of the settlement are those of its beforeAll.
steps ==
    [settlement |-> <<"mint", "lock", "accept", "sender", "receiver", "settle", "read", "check">>,
     expiry |-> <<"mint", "lock", "accept", "sender", "attempt", "expire", "read", "withdraw">>]

ended(t) == Len(steps[t]) + 1
op(t) == IF step[t] = 0 THEN "withdraw" ELSE steps[t][step[t]]

\* A body runs while its test does, or on after its timeout.
running(t) == test # "done" /\ (test = t \/ outcome[t] = "timedOut") /\ step[t] # ended(t)

\* Fault: a second allocation that fails leaves the first alone.
toWithdraw_Settle(t) ==
    CASE t = "settlement" /\ op(t) = "settle" -> <<"sender", "receiver">>
      [] t = "expiry" /\ step[t] > 4 -> <<"sender">>
      [] OTHER -> <<>>

\* What a failure at this step withdraws before the error propagates.
toWithdraw(t) ==
    CASE t = "settlement" /\ op(t) = "receiver" -> <<"sender">>
      [] t = "settlement" /\ op(t) = "settle" -> <<"sender", "receiver">>
      [] t = "expiry" /\ step[t] > 4 -> <<"sender">>
      [] OTHER -> <<>>

clock == now + Ahead

\* Fault: the enactment is tried without waiting for the deadline.
slept_NotForDeadline(t) == op(t) = "expire" => clock >= expiresAt(t) + Margin

\* The expiry test sleeps until the deadline, and then the expiry, has passed.
slept(t) ==
    /\ op(t) = "attempt" => clock >= deadline(t) + Margin
    /\ op(t) = "expire" => clock >= expiresAt(t) + Margin

request(t) ==
    [op |-> op(t), test |-> t, side |-> IF step[t] = 0 THEN Head(undo[t]) ELSE "sender"]

\* The runner goes on; that of a test that timed out has done so already.
goesOn(t, result) ==
    IF test = t
    THEN /\ outcome' = [outcome EXCEPT ![t] = result]
         /\ test' = IF t = "settlement" THEN "expiry" ELSE "afterAll"
    ELSE UNCHANGED <<outcome, test>>

hookTimedOut(t) == test # t /\ t = "settlement" /\ step[t] = Len(steps[t]) - 1

\* The enactment is meant to be refused, and for one reason: else the test fails.
StepDone(t) ==
    /\ running(t) /\ step[t] > 0 /\ slept(t)
    /\ IF op(t) = "attempt" THEN refused(request(t)) /\ noAlternative(request(t))
       ELSE accepted(request(t))
    /\ start' = IF op(t) = "mint" THEN [start EXCEPT ![t] = clock] ELSE start
    /\ known' = CASE op(t) \in Sides -> known \union {<<t, op(t)>>}
                  [] op(t) = "mint" -> known \union {<<t, "rules">>}
                  [] OTHER -> known
    /\ IF step[t] = Len(steps[t])
       THEN goesOn(t, "passed") /\ record' = record \union {t}
       ELSE UNCHANGED <<test, outcome, record>>
    /\ step' = [step EXCEPT ![t] = IF hookTimedOut(t) THEN ended(t) ELSE @ + 1]
    /\ UNCHANGED <<now, undo, named, swept>>

StepFails(t) ==
    /\ running(t) /\ step[t] > 0 /\ slept(t)
    /\ \/ op(t) = "attempt" /\ accepted(request(t))
       \/ (op(t) = "attempt" => ~noAlternative(request(t))) /\ refused(request(t))
       \/ givenUp({request(t)})
    /\ undo' = [undo EXCEPT ![t] = toWithdraw(t)]
    /\ IF toWithdraw(t) = <<>>
       THEN goesOn(t, "failed") /\ step' = [step EXCEPT ![t] = ended(t)]
       ELSE step' = [step EXCEPT ![t] = 0] /\ UNCHANGED <<test, outcome>>
    /\ UNCHANGED <<now, start, known, named, swept, record>>

\* The runner fails the test and goes on; no catch block is run, the body is not stopped.
TimesOut(t) ==
    /\ test = t /\ goesOn(t, "timedOut")
    /\ UNCHANGED <<now, ledger, start, step, late, undo, known, named, swept, record>>
-----------------------------------------------------------------------------
(* withdrawAllocations: one after the other, a failure of one is collected. *)

undone(t) ==
    /\ running(t) /\ step[t] = 0
    /\ undo' = [undo EXCEPT ![t] = Tail(@)]
    /\ IF Len(undo[t]) = 1
       THEN goesOn(t, "failed") /\ step' = [step EXCEPT ![t] = ended(t)]
       ELSE UNCHANGED <<test, step, outcome>>
    /\ UNCHANGED <<now, start, known, swept, record>>

Withdrawn(t) == undone(t) /\ accepted(request(t)) /\ UNCHANGED named

WithdrawalFails(t) ==
    /\ undone(t) /\ (refused(request(t)) \/ givenUp({request(t)}))
    /\ named' = named \union {<<t, Head(undo[t])>>}
-----------------------------------------------------------------------------
(* afterAll: archive the rules of each test, best-effort, and write.        *)

toSweep == {t \in Tests \ swept : <<t, "rules">> \in known}

Archive(t) ==
    /\ test = "afterAll" /\ t \in toSweep /\ swept' = swept \union {t}
    /\ LET archive == [op |-> "archive", test |-> t, side |-> "sender"]
       IN  accepted(archive) \/ refused(archive) \/ givenUp({archive})
    /\ UNCHANGED <<now, start, test, step, undo, known, named, outcome, record>>

WriteRecord ==
    /\ test = "afterAll" /\ toSweep = {} /\ test' = "finished"
    /\ record' = IF record = Tests THEN Tests \union {"written"} ELSE record
    /\ UNCHANGED <<now, ledger, late, start, step, undo, known, named, outcome, swept>>

\* The process is killed, or ends after the run: whatever still runs is cut off,
\* some of it while a request is on its way.
Exit ==
    /\ test # "done" /\ test' = "done"
    /\ \E cut \in SUBSET {t \in Tests : running(t) /\ slept(t)} :
           givenUp({request(t) : t \in cut})
    /\ UNCHANGED <<now, start, step, undo, known, named, outcome, swept, record>>
-----------------------------------------------------------------------------
Init ==
    /\ now = 0 /\ start = [t \in Tests |-> 0]
    /\ rules = [t \in Tests |-> "none"] /\ lock = [t \in Tests |-> "none"]
    /\ allocation = [t \in Tests |-> [s \in Sides |-> "none"]]
    /\ test = "settlement" /\ step = [t \in Tests |-> 1]
    /\ late = {} /\ undo = [t \in Tests |-> <<>>]
    /\ known = {} /\ named = {} /\ outcome = [t \in Tests |-> "none"]
    /\ swept = {} /\ record = {}

Next ==
    \/ \E t \in Tests :
           \/ StepDone(t) \/ StepFails(t) \/ TimesOut(t)
           \/ Withdrawn(t) \/ WithdrawalFails(t) \/ Archive(t)
    \/ WriteRecord \/ Exit \/ TakeLate \/ Tick

Spec == Init /\ [][Next]_vars
-----------------------------------------------------------------------------
\* What the body of a test will withdraw if its current step fails, or is withdrawing.
obliged(t) == IF step[t] = 0 THEN {undo[t][i] : i \in DOMAIN undo[t]}
              ELSE IF step[t] = ended(t) THEN {}
              ELSE {toWithdraw(t)[i] : i \in DOMAIN toWithdraw(t)}

(* "Withdraw it before the error propagates rather than stranding it"       *)
(* (dvp.test.ts:330, scenario.ts:318), whichever answers were lost and however *)
(* late the ledger took a request: an allocation the client got an ID for and   *)
(* that is still live is named in an error for a human, or a catch block of its *)
(* test is still to withdraw it and the test has not ended by itself: it is     *)
(* under way, has timed out, or was cut off with the process.                   *)
NothingStranded ==
    \A t \in Tests, s \in Sides :
        <<t, s>> \in known /\ allocation[t][s] = "live" /\ <<t, s>> \notin named =>
            s \in obliged(t) /\ outcome[t] \in {"none", "timedOut"}

(* The locked tokens reach the buyer exactly if the payment was taken from    *)
(* the buyer, in both tests, also when the settlement arrives after the       *)
(* client has begun to withdraw, when the body of a timed-out test runs on,   *)
(* and when the seller's side alone is enacted by a client whose clock is     *)
(* ahead of the ledger's by no more than the three seconds it sleeps longer.  *)
DeliveryVersusPayment ==
    \A t \in Tests : lock[t] = "delivered" <=> \A s \in Sides : allocation[t][s] = "settled"

(* A record is only written of a lock that was delivered against the payment  *)
(* and of one that was refunded with the buyer's allocation withdrawn, also   *)
(* when it was completed by the body of a test that had timed out.            *)
RecordIsTrue ==
    "written" \in record =>
        /\ lock = [settlement |-> "delivered", expiry |-> "refunded"]
        /\ allocation["expiry"]["sender"] = "withdrawn"
=============================================================================
