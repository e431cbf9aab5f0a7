---------------------------- MODULE DvpRecording -----------------------------
(* The life of a run directory: harness runs that fail or crash between the  *)
(* writes of their three files, packages rebuilt in between, files edited or *)
(* taken from an earlier run by hand, and the recorder judging what it finds *)
(* at some later time.                                                       *)
EXTENDS DvpEvidence

CONSTANTS
    DeadlineAfter,  \* from the lock of the expiry test to the deadline of its rule: 25 s
    ExpiryAfter     \* and to its expiry: 40 s

ASSUME TimesAssumption ==
    {DeadlineAfter, ExpiryAfter} \subseteq Nat /\ DeadlineAfter < ExpiryAfter

VARIABLES
    clock,         \* wall-clock time
    built,         \* the build in packages/*/.daml/dist
    deployed,      \* the build the participants were given
    run,           \* number of runs started
    stage,         \* how far the current run is
    memory,        \* what the current run holds in memory
    participant,   \* the updates the participant recorded, run by run
    dir,           \* the run directory: claims and the two second reads
    edits,         \* edits of the directory by hand so far
    evidence       \* the evidence file with the documents it was made from

vars == <<clock, built, deployed, run, stage, memory, participant, dir, edits, evidence>>
harness == <<run, stage, memory, participant>>
Runs == 1 .. MaxRuns
Nothing == [s |-> NoFile, x |-> NoFile, deadline |-> Missing, expires_at |-> Missing,
            enact_rejected_at |-> Missing]

Init ==
    /\ clock = 0 /\ built = 1 /\ deployed = 1 /\ run = 0 /\ stage = "idle" /\ edits = 0
    /\ memory = Nothing
    /\ participant = [r \in Runs |-> [s |-> NoFile, x |-> NoFile]]
    /\ dir = [claims |-> NoFile, settlement |-> NoFile, expire |-> NoFile]
    /\ evidence = NoFile
-----------------------------------------------------------------------------
(* One run of the harness (integration/test/dvp.test.ts)                    *)

Settle ==
    /\ stage = "idle" /\ run < MaxRuns
    /\ LET s == settlementUpdate(run + 1, deployed, clock) IN
       /\ participant' = [participant EXCEPT ![run + 1].s = s]
       /\ memory' = [Nothing EXCEPT !.s = s]
    /\ run' = run + 1 /\ stage' = "settled"
    /\ UNCHANGED <<clock, built, deployed, dir, edits, evidence>>

LockAgain ==
    /\ stage = "settled" /\ stage' = "locked"
    /\ memory' = [memory EXCEPT !.deadline = clock + DeadlineAfter, !.expires_at = clock + ExpiryAfter]
    /\ UNCHANGED <<clock, built, deployed, run, participant, dir, edits, evidence>>

\* The enactment is attempted after the deadline.  Before the expiry the ledger
\* rejects it for want of an alternative; a client that is later gets another
\* text and fails, which leaves it no step but Abandon.
AttemptEnact ==
    /\ stage = "locked" /\ memory.deadline < clock /\ clock < memory.expires_at
    /\ stage' = "rejected"
    /\ memory' = [memory EXCEPT !.enact_rejected_at = clock]
    /\ UNCHANGED <<clock, built, deployed, run, participant, dir, edits, evidence>>

ExpireLock ==
    /\ stage = "rejected" /\ clock >= memory.expires_at /\ stage' = "expired"
    /\ LET x == expireUpdate(run, deployed, clock) IN
       /\ participant' = [participant EXCEPT ![run].x = x]
       /\ memory' = [memory EXCEPT !.x = x]
    /\ UNCHANGED <<clock, built, deployed, run, dir, edits, evidence>>

observedPackages(s) ==
    [p \in {e.package : e \in s.events} |-> (CHOOSE e \in s.events : e.package = p).packageId]

\* The claims are assembled from parts that share no field.
joined(a, b) == [f \in DOMAIN a \cup DOMAIN b |-> IF f \in DOMAIN a THEN a[f] ELSE b[f]]
ownClaims(r, m, now) ==
    [canton_version_observed |-> "3.5.16", synchronizer_id |-> m.s.synchronizerId,
     alice |-> "alice", bob |-> "bob", executor |-> "executor",
     packages_observed |-> observedPackages(m.s),
     choices_exercised |-> RequiredChoices \cap {e.choice : e \in Exercised(m.s)},
     expiry_lock_id |-> <<"dvp-expiry", r>>, deadline |-> m.deadline, expires_at |-> m.expires_at,
     enact_rejected_at |-> m.enact_rejected_at,
     enact_rejection |-> {"no alternative is satisfied", "POST status line"},
     withdrawn_cid |-> <<"withdrawn", r>>, run_nonce |-> r, recorded_at |-> now]
harnessClaims(r, m, now) ==
    joined(joined(settlementClaims(m.s), expiryClaims(m.x)), ownClaims(r, m, now))

\* afterAll writes the three files one after the other, and only after both halves.
WriteClaims ==
    /\ stage = "expired" /\ stage' = "wroteClaims"
    /\ dir' = [dir EXCEPT !.claims = harnessClaims(run, memory, clock)]
    /\ UNCHANGED <<clock, built, deployed, run, memory, participant, edits, evidence>>

WriteSettlementUpdate ==
    /\ stage = "wroteClaims" /\ stage' = "wroteSettlement"
    /\ dir' = [dir EXCEPT !.settlement = memory.s]
    /\ UNCHANGED <<clock, built, deployed, run, memory, participant, edits, evidence>>

WriteExpireUpdate ==
    /\ stage = "wroteSettlement" /\ stage' = "idle"
    /\ dir' = [dir EXCEPT !.expire = memory.x] /\ memory' = Nothing
    /\ UNCHANGED <<clock, built, deployed, run, participant, edits, evidence>>

\* A test fails, or the process dies: nothing more of this run is written.
Abandon ==
    /\ stage # "idle" /\ stage' = "idle" /\ memory' = Nothing
    /\ UNCHANGED <<clock, built, deployed, run, participant, dir, edits, evidence>>
-----------------------------------------------------------------------------
(* Around the harness                                                       *)

\* The sources change and the packages are rebuilt.
Rebuild ==
    /\ built < MaxBuilds /\ built' = built + 1
    /\ UNCHANGED <<clock, deployed, harness, dir, edits, evidence>>

\* localnet-bootstrap builds what the sources are now and uploads it.
Bootstrap ==
    /\ stage = "idle"
    /\ \E build \in {built, built + 1} : build <= MaxBuilds /\ built' = build /\ deployed' = build
    /\ UNCHANGED <<clock, harness, dir, edits, evidence>>

editable == edits < MaxEdits /\ stage = "idle" /\ edits' = edits + 1

EditClaims ==
    /\ dir.claims # NoFile
    /\ \E f \in DOMAIN Forged : \E v \in Forged[f] :
           editable /\ dir' = [dir EXCEPT !.claims[f] = v]
    /\ UNCHANGED <<clock, built, deployed, harness, evidence>>

\* An owner rewritten in one of the raw updates, wherever it is named.
renamed(e, owner) ==
    IF e.kind = "CreatedEvent" \/ e.choice = "EventLog_HoldingsChange"
    THEN {[e EXCEPT !.owner = owner]} ELSE {}
EditUpdate ==
    /\ \E f \in {"settlement", "expire"}, owner \in {"bob", "third"} :
        /\ dir[f] # NoFile /\ editable
        /\ \E e \in dir[f].events : \E edited \in renamed(e, owner) :
               dir' = [dir EXCEPT ![f].events = (@ \ {e}) \cup {edited}]
    /\ UNCHANGED <<clock, built, deployed, harness, evidence>>

\* An update file copied over from an earlier run.
CopyUpdate ==
    /\ editable
    /\ \E r \in Runs :
        \/ /\ participant[r].s # NoFile /\ dir' = [dir EXCEPT !.settlement = participant[r].s]
        \/ /\ participant[r].x # NoFile /\ dir' = [dir EXCEPT !.expire = participant[r].x]
    /\ UNCHANGED <<clock, built, deployed, harness, evidence>>

Tick == clock < MaxTime /\ clock' = clock + 1 /\ UNCHANGED <<built, deployed, harness, dir, edits, evidence>>

artifactsOf(b) == [p \in FirstParty |-> idOf(p, b)]
RecordDvp ==
    /\ dir.claims # NoFile
    /\ record_dvp(dir.claims, dir.settlement, dir.expire, artifactsOf(built), clock)
    /\ evidence' = [claims |-> dir.claims, settlement |-> dir.settlement, expire |-> dir.expire,
                    artifacts |-> artifactsOf(built), checked_at |-> clock]
    /\ UNCHANGED <<clock, built, deployed, harness, dir, edits>>

Next ==
    \/ Settle \/ LockAgain \/ AttemptEnact \/ ExpireLock
    \/ WriteClaims \/ WriteSettlementUpdate \/ WriteExpireUpdate \/ Abandon
    \/ Rebuild \/ Bootstrap \/ EditClaims \/ EditUpdate \/ CopyUpdate \/ Tick \/ RecordDvp

Spec == Init /\ [][Next]_vars
-----------------------------------------------------------------------------
Recorded == evidence # NoFile
settledIn(s) == {r \in Runs : participant[r].s = s /\ s # NoFile}
expiredIn(x) == {r \in Runs : participant[r].x = x /\ x # NoFile}

(* The gates never refuse a true run: three untouched files of one run, whose *)
(* enactment was refused between the deadline and the expiry, read within the *)
(* day and with the packages it used still in place, pass all of them (every  *)
(* gate of record_dvp, and the harness that writes the files).                *)
HonestRunAccepted ==
    \A r \in Runs :
        /\ dir.claims # NoFile /\ edits = 0 /\ dir.claims.run_nonce = r
        /\ r \in settledIn(dir.settlement) \cap expiredIn(dir.expire)
        /\ clock - dir.claims.recorded_at <= StaleAfter
        /\ packagesPinned(dir.settlement, artifactsOf(built))
        => record_dvp(dir.claims, dir.settlement, dir.expire, artifactsOf(built), clock)

(* What the evidence claims of a settlement and of an expiry is what the     *)
(* participant recorded of them, whatever was typed over the claims, whenever*)
(* the raw updates are the participant's own (gates 14 to 23).               *)
listed == {"transfer_leg_ids", "amulet_allocation_cids"}
ClaimsMatchUpdates ==
    Recorded /\ settledIn(evidence.settlement) # {} /\ expiredIn(evidence.expire) # {} =>
        LET c == evidence.claims
            told == settlementClaims(evidence.settlement)
            toldExpiry == expiryClaims(evidence.expire)
        IN
        /\ \A f \in DOMAIN told \ listed : c[f] = told[f]
        /\ \A f \in listed : SetOf(c[f]) = SetOf(told[f])
        /\ \A f \in DOMAIN toldExpiry : c[f] = toldExpiry[f]

(* Even over edited updates, evidence shows a delivery versus payment: two   *)
(* different parties, the delivery going from the payee to the payer         *)
(* (gates 19 to 21).                                                         *)
DeliveryVersusPayment ==
    Recorded =>
        LET s == evidence.settlement
            leg == batchOf(s).legs[1]
            delivered == evidence.claims.transfer_leg_ids[1]
        IN
        /\ leg.sender # leg.receiver
        /\ legSideOwner(s, delivered, "SenderSide") = leg.receiver
        /\ legSideOwner(s, delivered, "ReceiverSide") = leg.sender

(* The lock that expired returned its holding to the party that delivered in *)
(* the settlement, also when claim and update agree on somebody else         *)
(* (gate 23, scripts/tests/dvp-evidence-tamper.sh).                          *)
SellerRepaid ==
    Recorded =>
        LET c == evidence.claims
            h == findCreated(evidence.expire, c.returned_contract_id) IN
        /\ h.owner = legSideOwner(evidence.settlement, c.transfer_leg_ids[1], "SenderSide")
        /\ h.owner # c.delivery_receiver
        /\ h.amount = c.delivery_amount

(* Evidence names the packages the run really used, and is made within a day *)
(* of the time the run file bears (gates 17b, 25 and 26).                    *)
PackagesAreTheRuns ==
    Recorded =>
        /\ \A e \in evidence.settlement.events \cup evidence.expire.events :
               e.package \in FirstParty => e.packageId = evidence.artifacts[e.package]
        /\ evidence.checked_at - evidence.claims.recorded_at \in 0 .. StaleAfter

(* Without edits the three files of the evidence come from a single run,     *)
(* wherever a later run crashed between its writes.                          *)
OneRunUnlessEdited ==
    Recorded /\ edits = 0 =>
        evidence.claims.run_nonce \in settledIn(evidence.settlement) \cap expiredIn(evidence.expire)
=============================================================================
