----------------------------- MODULE DvpEvidence -----------------------------
(* The evidence of a DvP between registries: record-reference-proof.py with  *)
(* --kind dvp.  The integration harness settles one lock against an Amulet   *)
(* payment, lets a second lock expire, and leaves three files: its claims    *)
(* (dvp-run.json) and its second reads of the two updates.  The recorder     *)
(* lets the claims into the evidence only through a long row of gates.       *)
(* Files are found stale, half replaced after a crash, or edited by hand.    *)
(*                                                                           *)
(* A JSON document is a record of the fields the gates read; an absent field *)
(* is Missing.  A transfer leg ID is the sequence of its components.         *)
EXTENDS Naturals, Sequences, FiniteSets

CONSTANTS
    Missing,       \* the value of an absent field
    NoFile,        \* the content of an absent file, and the evidence before any is written
    MaxRuns,       \* bound on the runs of the harness
    MaxTime,       \* bound on wall-clock time
    MaxEdits,      \* bound on the edits of the run directory by hand
    MaxBuilds,     \* bound on rebuilds of the packages
    StaleAfter,    \* 24 hours
    Forged         \* field of the claims -> the values somebody may type over it

ASSUME BoundsAssumption ==
    /\ {MaxRuns, MaxTime, MaxEdits, MaxBuilds, StaleAfter} \subseteq Nat /\ MaxBuilds > 0
    /\ NoFile # Missing

\* Null is none of the numbers, names and IDs of a document; lists are edited into lists.
ASSUME MissingAssumption ==
    /\ Missing \notin Nat /\ Missing \notin {"alice", "bob", "settle", "delivery"}
    /\ \A run \in 0 .. MaxRuns : Missing # <<"dvp", run>>
IsList(l) == Len(l) \in Nat /\ l = [i \in 1 .. Len(l) |-> l[i]]
ASSUME ForgedAssumption ==
    "transfer_leg_ids" \in DOMAIN Forged => \A l \in Forged["transfer_leg_ids"] : IsList(l)

Roles == {"delivered", "paid", "lock", "returned", "withdrawn", "sender", "receiver"}
\* Run 0 stands for well-formed identifiers that no run produced.
ContractId == Roles \X (0 .. MaxRuns)
UpdateId == {"settle", "expire"} \X (0 .. MaxRuns)
FirstParty == {"conditional-lock-test-token"}
RequiredPackages == {"splice-amulet", "splice-test-token-v2"} \cup FirstParty
PackageId == RequiredPackages \X (0 .. MaxBuilds)
RequiredChoices == {"SettlementFactory_SettleBatch", "Allocation_Settle", "ConditionalLock_Enact"}
RootChoices == {"SettlementFactory_SettleBatch", "ConditionalLock_Enact"}

CantonVersion == {"3.5.16", "3.5.17"}

SetOf(s) == {s[i] : i \in 1 .. Len(s)}
-----------------------------------------------------------------------------
(* Reading an update                                                        *)

Exercised(tx) == {e \in tx.events : e.kind = "ExercisedEvent"}
Created(tx) == {e \in tx.events : e.kind = "CreatedEvent"}
exercisesOf(tx, choice) == {e \in Exercised(tx) : e.choice = choice}

\* A node is a root when no other node's span strictly contains its own.
contains(a, b) ==
    <<a.nodeId, a.lastId>> # <<b.nodeId, b.lastId>> /\ a.nodeId <= b.nodeId /\ b.lastId <= a.lastId
rootEvents(tx) == {e \in tx.events : ~\E o \in tx.events : contains(o, e)}
rootOf(tx, choice) == CHOOSE e \in rootEvents(tx) : e.choice = choice

findCreated(tx, cid) == CHOOSE e \in Created(tx) : e.contractId = cid
isCreated(tx, cid) == \E e \in Created(tx) : e.contractId = cid

\* The owners a leg's side is reported for by the holdings-change events.
sideOwners(tx, leg, side) ==
    {e.owner : e \in {h \in exercisesOf(tx, "EventLog_HoldingsChange") :
                          <<leg, side>> \in h.sides /\ h.owner # Missing}}
legSideOwner(tx, leg, side) == CHOOSE o \in sideOwners(tx, leg, side) : TRUE

\* Every event of an observed package carries the package ID that was observed.
packagesPinned(tx, observed) ==
    \A e \in tx.events : e.package \in DOMAIN observed => e.packageId = observed[e.package]

\* Leg IDs the raw update knows: those of the batch and of the event log.
rawLegIds(tx, batch) ==
    {leg.id : leg \in SetOf(batch.legs)}
        \cup UNION {{side[1] : side \in e.sides} : e \in exercisesOf(tx, "EventLog_HoldingsChange")}

isTimestamp(t) == t \in 0 .. MaxTime
-----------------------------------------------------------------------------
(* The gates over the claims c alone                                        *)

VersionGate(c) == c.canton_version_observed \in CantonVersion
UpdateIdGate(c) ==
    {c.update_id, c.expire_update_id} \subseteq UpdateId /\ c.update_id # c.expire_update_id

claimedCids(c) ==
    <<c.delivery_cid, c.payment_cid, c.lock_contract_id, c.returned_contract_id, c.withdrawn_cid>>
        \o c.amulet_allocation_cids
ContractIdGate(c) ==
    LET cids == claimedCids(c) IN
    SetOf(cids) \subseteq ContractId /\ Cardinality(SetOf(cids)) = Len(cids)

CommandCountGate(c) == c.command_count = 2
LegPackagesGate(c) ==
    c.payment_package = "splice-amulet" /\ c.delivery_package = "splice-test-token-v2"

ObservedGate(c) ==
    /\ RequiredPackages \subseteq DOMAIN c.packages_observed
    /\ \A p \in RequiredPackages : c.packages_observed[p] \in PackageId
    /\ \A p, q \in RequiredPackages :
           c.packages_observed[p] = c.packages_observed[q] => p = q

ChoicesGate(c) == RequiredChoices \subseteq c.choices_exercised

startsWithLock(c, leg) == c.lock_id # Missing /\ Len(leg) > 1 /\ leg[1] = c.lock_id
LegIdsGate(c) ==
    /\ c.transfer_leg_ids # <<>>
    /\ \A leg \in SetOf(c.transfer_leg_ids) : startsWithLock(c, leg)
LocksDifferGate(c) == c.lock_id # c.expiry_lock_id

RejectedAfterDeadlineGate(c) ==
    /\ isTimestamp(c.deadline) /\ isTimestamp(c.expires_at) /\ isTimestamp(c.enact_rejected_at)
    /\ c.deadline < c.expires_at /\ c.enact_rejected_at > c.deadline

\* The text is abstracted to which of its two marks it bears.
RejectionGate(c) == {"no alternative is satisfied", "POST status line"} \subseteq c.enact_rejection
SameAmountGate(c) == c.returned_amount = c.delivery_amount
-----------------------------------------------------------------------------
(* The gates against the settlement update s and the expiry update x        *)

loadUpdateFile(file) == file # NoFile

UpdatesMatchGate(c, s, x) == s.updateId = c.update_id /\ x.updateId = c.expire_update_id
\* Fault: the time is parsed and not compared.
EffectiveAtGate_ParsesOnly(c, s) == isTimestamp(c.effective_at)

EffectiveAtGate(c, s) == c.effective_at = s.effectiveAt /\ isTimestamp(c.effective_at)
\* Fault: an expiry at the very instant it became possible is refused.
ExpiryTimelineGate_Strict(c, x) ==
    isTimestamp(x.effectiveAt) /\ c.expires_at < x.effectiveAt /\ c.enact_rejected_at < x.effectiveAt

ExpiryTimelineGate(c, x) ==
    isTimestamp(x.effectiveAt) /\ c.expires_at <= x.effectiveAt /\ c.enact_rejected_at <= x.effectiveAt
SynchronizerGate(c, s, x) ==
    c.synchronizer_id = s.synchronizerId /\ c.synchronizer_id = x.synchronizerId

RootsGate(c, s) ==
    /\ Cardinality(rootEvents(s)) = 2 /\ c.command_count = 2
    /\ rootEvents(s) \subseteq Exercised(s)
    /\ {e.choice : e \in rootEvents(s)} = RootChoices
batchOf(s) == rootOf(s, "SettlementFactory_SettleBatch")

AllocationsGate(c, s) ==
    /\ SetOf(c.amulet_allocation_cids) = SetOf(batchOf(s).allocations)
    /\ Len(c.amulet_allocation_cids) = Len(batchOf(s).allocations)
    /\ Len(c.amulet_allocation_cids) >= 2

PackagesPinnedGate(c, s, x) ==
    /\ packagesPinned(s, c.packages_observed) /\ packagesPinned(x, c.packages_observed)
    /\ batchOf(s).package = "splice-amulet"
    /\ batchOf(s).packageId = c.packages_observed["splice-amulet"]

LockAndLegsGate(c, s) ==
    /\ c.lock_id = batchOf(s).settlementId
    /\ SetOf(c.transfer_leg_ids) \subseteq rawLegIds(s, batchOf(s))

ChoicesInUpdateGate(c, s) ==
    c.choices_exercised \cup {"Allocation_Settle"} \subseteq {e.choice : e \in Exercised(s)}

DeliveryHoldingGate(c, s) ==
    /\ isCreated(s, c.delivery_cid)
    /\ LET h == findCreated(s, c.delivery_cid) IN
       /\ h.package = "splice-test-token-v2"
       /\ h.owner = c.delivery_receiver /\ h.amount = c.delivery_amount
       /\ h.instrument = c.delivery_instrument

PaymentHoldingGate(c, s) ==
    /\ isCreated(s, c.payment_cid)
    /\ LET h == findCreated(s, c.payment_cid) IN
       h.package = "splice-amulet" /\ h.owner = c.payment_receiver /\ h.amount = c.payment_amount

deliveryLeg(c) == c.transfer_leg_ids[1]
authorizerOf(c, s) == legSideOwner(s, deliveryLeg(c), "SenderSide")
\* Fault: the buyer is not compared with the receiver's side of the delivery.
PartiesGate_SellerOnly(c, s) ==
    /\ sideOwners(s, deliveryLeg(c), "SenderSide") # {}
    /\ sideOwners(s, deliveryLeg(c), "ReceiverSide") # {}
    /\ c.alice = c.payment_receiver /\ c.alice = authorizerOf(c, s) /\ c.bob = c.payment_sender
    /\ c.executor \in batchOf(s).actors
    /\ c.lock_contract_id = rootOf(s, "ConditionalLock_Enact").contractId

PartiesGate(c, s) ==
    /\ sideOwners(s, deliveryLeg(c), "SenderSide") # {}
    /\ sideOwners(s, deliveryLeg(c), "ReceiverSide") # {}
    /\ c.alice = c.payment_receiver /\ c.alice = authorizerOf(c, s)
    /\ c.bob = c.payment_sender /\ c.bob = legSideOwner(s, deliveryLeg(c), "ReceiverSide")
    /\ c.executor \in batchOf(s).actors
    /\ c.lock_contract_id = rootOf(s, "ConditionalLock_Enact").contractId

NoSelfPaymentGate(c) ==
    c.delivery_receiver # c.payment_receiver /\ c.payment_sender # c.payment_receiver

PaymentLegGate(c, s) ==
    /\ batchOf(s).legs # <<>>
    /\ LET leg == batchOf(s).legs[1] IN
       /\ leg.sender = c.payment_sender /\ leg.receiver = c.payment_receiver
       /\ leg.amount = c.payment_amount /\ leg.instrument = c.payment_instrument
       /\ startsWithLock(c, leg.id)

AmountsGate(c) ==
    \A a \in {c.delivery_amount, c.payment_amount} : a # Missing /\ a > 0

\* Fault: who owns the returned holding is read from the claims.
ReturnedGate_AsClaimed(c, s, x) ==
    /\ isCreated(x, c.returned_contract_id)
    /\ LET h == findCreated(x, c.returned_contract_id) IN
       /\ h.package = "splice-test-token-v2" /\ h.amount = c.returned_amount
       /\ c.returned_owner = c.alice /\ c.returned_owner = authorizerOf(c, s)

ReturnedGate(c, s, x) ==
    /\ isCreated(x, c.returned_contract_id)
    /\ LET h == findCreated(x, c.returned_contract_id) IN
       /\ h.package = "splice-test-token-v2" /\ h.owner # c.delivery_receiver
       /\ c.returned_owner # Missing /\ h.owner = c.returned_owner
       /\ h.owner = c.alice /\ h.owner = authorizerOf(c, s)
       /\ h.amount = c.returned_amount

ThreePartsGate(c) ==
    \A leg \in SetOf(c.transfer_leg_ids) :
        Len(leg) = 3 /\ Missing \notin SetOf(leg) /\ leg[1] = c.lock_id

\* Fault: the packages built here are not consulted.
BuiltGate_Dropped(c, artifacts) == RequiredPackages \subseteq DOMAIN c.packages_observed

BuiltGate(c, artifacts) ==
    \A p \in DOMAIN artifacts \cap DOMAIN c.packages_observed : c.packages_observed[p] = artifacts[p]

FreshGate(c, now) ==
    /\ c.run_nonce # Missing
    /\ isTimestamp(c.recorded_at) /\ c.recorded_at <= now /\ now - c.recorded_at <= StaleAfter

ClaimGates(c) ==
    /\ VersionGate(c) /\ UpdateIdGate(c) /\ ContractIdGate(c) /\ CommandCountGate(c)
    /\ LegPackagesGate(c) /\ ObservedGate(c) /\ ChoicesGate(c) /\ LegIdsGate(c)
    /\ LocksDifferGate(c) /\ RejectedAfterDeadlineGate(c) /\ RejectionGate(c) /\ SameAmountGate(c)

UpdateGates(c, s, x) ==
    /\ loadUpdateFile(s) /\ loadUpdateFile(x)
    /\ UpdatesMatchGate(c, s, x) /\ EffectiveAtGate(c, s) /\ ExpiryTimelineGate(c, x)
    /\ SynchronizerGate(c, s, x) /\ RootsGate(c, s) /\ AllocationsGate(c, s)
    /\ PackagesPinnedGate(c, s, x) /\ LockAndLegsGate(c, s) /\ ChoicesInUpdateGate(c, s)
    /\ DeliveryHoldingGate(c, s) /\ PaymentHoldingGate(c, s) /\ PartiesGate(c, s)
    /\ NoSelfPaymentGate(c) /\ PaymentLegGate(c, s) /\ AmountsGate(c) /\ ReturnedGate(c, s, x)
    /\ ThreePartsGate(c)

\* Fault: the claims are taken at their word.
record_dvp_ClaimsOnly(c, s, x, artifacts, now) ==
    ClaimGates(c) /\ loadUpdateFile(s) /\ loadUpdateFile(x) /\ BuiltGate(c, artifacts) /\ FreshGate(c, now)

record_dvp(c, s, x, artifacts, now) ==
    ClaimGates(c) /\ UpdateGates(c, s, x) /\ BuiltGate(c, artifacts) /\ FreshGate(c, now)
-----------------------------------------------------------------------------
(* What the participant records and what the harness claims of it           *)

idOf(p, build) == <<p, IF p \in FirstParty THEN build ELSE 0>>
lockId(run) == <<"dvp", run>>
deliveryLegId(run) == <<lockId(run), "settle", "delivery">>
paymentLegId(run) == <<lockId(run), "payment">>

exercise(node, last, choice, p, build, cid) ==
    [kind |-> "ExercisedEvent", nodeId |-> node, lastId |-> last, choice |-> choice,
     package |-> p, packageId |-> idOf(p, build), contractId |-> cid]
holdingsChange(node, run, build, owner, side) ==
    [kind |-> "ExercisedEvent", nodeId |-> node, lastId |-> node, choice |-> "EventLog_HoldingsChange",
     package |-> "conditional-lock-test-token", packageId |-> idOf("conditional-lock-test-token", build),
     contractId |-> Missing, owner |-> owner, sides |-> {<<deliveryLegId(run), side>>}]
holding(node, p, cid, owner, amount, instrument) ==
    [kind |-> "CreatedEvent", nodeId |-> node, lastId |-> node, package |-> p,
     packageId |-> idOf(p, 0), contractId |-> cid, owner |-> owner, amount |-> amount,
     instrument |-> instrument]

\* SettlementFactory_SettleBatch and ConditionalLock_Enact in one submission.
settlementUpdate(run, build, now) ==
    [updateId |-> <<"settle", run>>, effectiveAt |-> now, synchronizerId |-> "global",
     events |-> {
       [kind |-> "ExercisedEvent", nodeId |-> 0, lastId |-> 2,
        choice |-> "SettlementFactory_SettleBatch", package |-> "splice-amulet",
        packageId |-> idOf("splice-amulet", build), contractId |-> Missing,
        settlementId |-> lockId(run), actors |-> {"executor"},
        allocations |-> <<<<"sender", run>>, <<"receiver", run>>>>,
        legs |-> <<[id |-> paymentLegId(run), sender |-> "bob", receiver |-> "alice",
                    amount |-> 42, instrument |-> "Amulet"]>>],
       exercise(1, 1, "Allocation_Settle", "splice-amulet", build, <<"sender", run>>),
       holding(2, "splice-amulet", <<"paid", run>>, "alice", 42, "Amulet"),
       exercise(3, 6, "ConditionalLock_Enact", "conditional-lock-test-token", build, <<"lock", run>>),
       holdingsChange(4, run, build, "alice", "SenderSide"),
       holdingsChange(5, run, build, "bob", "ReceiverSide"),
       holding(6, "splice-test-token-v2", <<"delivered", run>>, "bob", 100, "TestToken")}]

expireUpdate(run, build, now) ==
    [updateId |-> <<"expire", run>>, effectiveAt |-> now, synchronizerId |-> "global",
     events |-> {
       exercise(0, 1, "ConditionalLock_Expire", "conditional-lock-test-token", build, Missing),
       holding(1, "splice-test-token-v2", <<"returned", run>>, "alice", 100, "TestToken")}]

\* The claims about the settlement, read off the ledger's own echo of it.
settlementClaims(s) ==
    LET made(p) == CHOOSE e \in Created(s) : e.package = p
        paid == made("splice-amulet")
        delivered == made("splice-test-token-v2")
        batch == CHOOSE e \in Exercised(s) : e.choice = "SettlementFactory_SettleBatch"
        enact == CHOOSE e \in Exercised(s) : e.choice = "ConditionalLock_Enact"
        side == CHOOSE e \in Exercised(s) :
                    e.choice = "EventLog_HoldingsChange" /\ \E l \in e.sides : l[2] = "SenderSide"
    IN
    [update_id |-> s.updateId, effective_at |-> s.effectiveAt, lock_id |-> batch.settlementId,
     lock_contract_id |-> enact.contractId, command_count |-> Cardinality(rootEvents(s)),
     transfer_leg_ids |-> <<(CHOOSE l \in side.sides : TRUE)[1]>>,
     amulet_allocation_cids |-> batch.allocations,
     delivery_cid |-> delivered.contractId, delivery_package |-> delivered.package,
     delivery_receiver |-> delivered.owner, delivery_amount |-> delivered.amount,
     delivery_instrument |-> delivered.instrument,
     payment_cid |-> paid.contractId, payment_package |-> paid.package,
     payment_receiver |-> paid.owner, payment_amount |-> paid.amount,
     payment_sender |-> batch.legs[1].sender, payment_instrument |-> batch.legs[1].instrument]

expiryClaims(x) ==
    LET returned == CHOOSE e \in Created(x) : e.owner = "alice" IN
    [expire_update_id |-> x.updateId, returned_contract_id |-> returned.contractId,
     returned_owner |-> returned.owner, returned_amount |-> returned.amount]
=============================================================================
