-------------------------- MODULE DvpRecordingProofs --------------------------
(* For any history of runs, crashes, rebuilds, hand edits and forged claims:  *)
(* what the gates let pass repeats the participant's updates, untouched files *)
(* of one run always pass, and the gates alone imply what evidence shows.     *)
EXTENDS DvpRecording, FiniteSetTheorems, SequenceTheorems, TLAPS

-------------------------------------------------------------------------------
(* Reading a true update: what the gates see of each of its events             *)

OnLedger(e, kind, first, last, package, id) ==
    e.kind = kind /\ e.nodeId = first /\ e.lastId = last /\ e.package = package /\ e.packageId = id
IsBatch(e, r, b) ==
    /\ OnLedger(e, "ExercisedEvent", 0, 2, "splice-amulet", idOf("splice-amulet", b))
    /\ e.choice = "SettlementFactory_SettleBatch" /\ e.settlementId = lockId(r)
    /\ e.actors = {"executor"} /\ e.allocations = <<<<"sender", r>>, <<"receiver", r>>>>
    /\ e.legs = <<[id |-> paymentLegId(r), sender |-> "bob", receiver |-> "alice",
                   amount |-> 42, instrument |-> "Amulet"]>>
IsExercise(e, choice, first, last, package, b) ==
    OnLedger(e, "ExercisedEvent", first, last, package, idOf(package, b)) /\ e.choice = choice
IsHolding(e, node, package, cid, owner, amount, instrument) ==
    /\ OnLedger(e, "CreatedEvent", node, node, package, idOf(package, 0))
    /\ e.contractId = cid /\ e.owner = owner /\ e.amount = amount /\ e.instrument = instrument
IsChange(e, node, r, b, owner, side) ==
    /\ IsExercise(e, "EventLog_HoldingsChange", node, node, "conditional-lock-test-token", b)
    /\ e.owner = owner /\ e.sides = {<<deliveryLegId(r), side>>}

IsSettlement(s, r, b, t) ==
    /\ s.updateId = <<"settle", r>> /\ s.effectiveAt = t /\ s.synchronizerId = "global"
    /\ \E batch, used, paid, enact, gave, got, delivered :
         /\ s.events = {batch, used, paid, enact, gave, got, delivered}
         /\ IsBatch(batch, r, b)
         /\ IsExercise(used, "Allocation_Settle", 1, 1, "splice-amulet", b)
         /\ IsHolding(paid, 2, "splice-amulet", <<"paid", r>>, "alice", 42, "Amulet")
         /\ IsExercise(enact, "ConditionalLock_Enact", 3, 6, "conditional-lock-test-token", b)
         /\ enact.contractId = <<"lock", r>>
         /\ IsChange(gave, 4, r, b, "alice", "SenderSide")
         /\ IsChange(got, 5, r, b, "bob", "ReceiverSide")
         /\ IsHolding(delivered, 6, "splice-test-token-v2", <<"delivered", r>>, "bob", 100, "TestToken")
IsExpiry(x, r, b, t) ==
    /\ x.updateId = <<"expire", r>> /\ x.effectiveAt = t /\ x.synchronizerId = "global"
    /\ \E expire, returned :
         /\ x.events = {expire, returned}
         /\ IsExercise(expire, "ConditionalLock_Expire", 0, 1, "conditional-lock-test-token", b)
         /\ IsHolding(returned, 1, "splice-test-token-v2", <<"returned", r>>, "alice", 100, "TestToken")

\* So reads what the participant records of a settlement ...
LEMMA SettlementEvents ==
    ASSUME NEW r, NEW b, NEW t
    PROVE  IsSettlement(settlementUpdate(r, b, t), r, b, t)
<1> DEFINE s == settlementUpdate(r, b, t)
           batch == [kind |-> "ExercisedEvent", nodeId |-> 0, lastId |-> 2,
                     choice |-> "SettlementFactory_SettleBatch", package |-> "splice-amulet",
                     packageId |-> idOf("splice-amulet", b), contractId |-> Missing,
                     settlementId |-> lockId(r), actors |-> {"executor"},
                     allocations |-> <<<<"sender", r>>, <<"receiver", r>>>>,
                     legs |-> <<[id |-> paymentLegId(r), sender |-> "bob", receiver |-> "alice",
                                 amount |-> 42, instrument |-> "Amulet"]>>]
           used == exercise(1, 1, "Allocation_Settle", "splice-amulet", b, <<"sender", r>>)
           paid == holding(2, "splice-amulet", <<"paid", r>>, "alice", 42, "Amulet")
           enact == exercise(3, 6, "ConditionalLock_Enact", "conditional-lock-test-token", b, <<"lock", r>>)
           gave == holdingsChange(4, r, b, "alice", "SenderSide")
           got == holdingsChange(5, r, b, "bob", "ReceiverSide")
           delivered == holding(6, "splice-test-token-v2", <<"delivered", r>>, "bob", 100, "TestToken")
<1>1. s.updateId = <<"settle", r>> /\ s.effectiveAt = t /\ s.synchronizerId = "global"
    BY DEF settlementUpdate
<1>2. s.events = {batch, used, paid, enact, gave, got, delivered}
    BY Zenon DEF settlementUpdate
<1>3. IsBatch(batch, r, b)
    BY DEF IsBatch, OnLedger
<1>4. /\ IsExercise(used, "Allocation_Settle", 1, 1, "splice-amulet", b)
      /\ IsExercise(enact, "ConditionalLock_Enact", 3, 6, "conditional-lock-test-token", b)
      /\ enact.contractId = <<"lock", r>>
    BY DEF exercise, IsExercise, OnLedger
<1>5. /\ IsHolding(paid, 2, "splice-amulet", <<"paid", r>>, "alice", 42, "Amulet")
      /\ IsHolding(delivered, 6, "splice-test-token-v2", <<"delivered", r>>, "bob", 100, "TestToken")
    BY DEF holding, IsHolding, OnLedger
<1>6. IsChange(gave, 4, r, b, "alice", "SenderSide") /\ IsChange(got, 5, r, b, "bob", "ReceiverSide")
    BY DEF holdingsChange, IsChange, IsExercise, OnLedger
<1> HIDE DEF s, batch, used, paid, enact, gave, got, delivered
<1> QED
    BY <1>1, <1>2, <1>3, <1>4, <1>5, <1>6 DEF IsSettlement, s

\* ... and of an expiry.
LEMMA ExpiryEvents ==
    ASSUME NEW r, NEW b, NEW t
    PROVE  IsExpiry(expireUpdate(r, b, t), r, b, t)
<1> DEFINE x == expireUpdate(r, b, t)
           expire == exercise(0, 1, "ConditionalLock_Expire", "conditional-lock-test-token", b, Missing)
           returned == holding(1, "splice-test-token-v2", <<"returned", r>>, "alice", 100, "TestToken")
<1>1. x.updateId = <<"expire", r>> /\ x.effectiveAt = t /\ x.synchronizerId = "global"
    BY DEF expireUpdate
<1>2. x.events = {expire, returned}
    BY DEF expireUpdate
<1>3. IsExercise(expire, "ConditionalLock_Expire", 0, 1, "conditional-lock-test-token", b)
    BY DEF exercise, IsExercise, OnLedger
<1>4. IsHolding(returned, 1, "splice-test-token-v2", <<"returned", r>>, "alice", 100, "TestToken")
    BY DEF holding, IsHolding, OnLedger
<1> HIDE DEF x, expire, returned
<1> QED
    BY <1>1, <1>2, <1>3, <1>4 DEF IsExpiry, x

Told(s, r, t) ==
    [update_id |-> <<"settle", r>>, effective_at |-> t, lock_id |-> lockId(r),
     lock_contract_id |-> <<"lock", r>>, command_count |-> Cardinality(rootEvents(s)),
     transfer_leg_ids |-> <<deliveryLegId(r)>>,
     amulet_allocation_cids |-> <<<<"sender", r>>, <<"receiver", r>>>>,
     delivery_cid |-> <<"delivered", r>>, delivery_package |-> "splice-test-token-v2",
     delivery_receiver |-> "bob", delivery_amount |-> 100,
     delivery_instrument |-> "TestToken",
     payment_cid |-> <<"paid", r>>, payment_package |-> "splice-amulet",
     payment_receiver |-> "alice", payment_amount |-> 42,
     payment_sender |-> "bob", payment_instrument |-> "Amulet"]

\* What the claims about the settlement are made of, whichever event CHOOSE takes.
LEMMA SettlementTold ==
    ASSUME NEW r, NEW b, NEW t, NEW s, IsSettlement(s, r, b, t)
    PROVE  /\ \A e \in Exercised(s) : e.choice = "SettlementFactory_SettleBatch" => IsBatch(e, r, b)
           /\ \A e \in Exercised(s) : e.choice = "ConditionalLock_Enact" => e.contractId = <<"lock", r>>
           /\ \A e \in Exercised(s) : e.choice = "EventLog_HoldingsChange" =>
                  e.sides \in {{<<deliveryLegId(r), side>>} : side \in {"SenderSide", "ReceiverSide"}}
           /\ \A e \in Created(s) : e.package = "splice-amulet" =>
                  IsHolding(e, 2, "splice-amulet", <<"paid", r>>, "alice", 42, "Amulet")
           /\ \A e \in Created(s) : e.package # "splice-amulet" =>
                  IsHolding(e, 6, "splice-test-token-v2", <<"delivered", r>>, "bob", 100, "TestToken")
           /\ settlementClaims(s) = Told(s, r, t)
<1> DEFINE made(p) == CHOOSE e \in Created(s) : e.package = p
           theBatch == CHOOSE e \in Exercised(s) : e.choice = "SettlementFactory_SettleBatch"
           theEnact == CHOOSE e \in Exercised(s) : e.choice = "ConditionalLock_Enact"
           theSide == CHOOSE e \in Exercised(s) :
                          e.choice = "EventLog_HoldingsChange" /\ \E l \in e.sides : l[2] = "SenderSide"
<1>1. s.updateId = <<"settle", r>> /\ s.effectiveAt = t
    BY DEF IsSettlement
<1>2. PICK batch, used, paid, enact, gave, got, delivered :
          /\ s.events = {batch, used, paid, enact, gave, got, delivered}
          /\ IsBatch(batch, r, b)
          /\ IsExercise(used, "Allocation_Settle", 1, 1, "splice-amulet", b)
          /\ IsHolding(paid, 2, "splice-amulet", <<"paid", r>>, "alice", 42, "Amulet")
          /\ IsExercise(enact, "ConditionalLock_Enact", 3, 6, "conditional-lock-test-token", b)
          /\ enact.contractId = <<"lock", r>>
          /\ IsChange(gave, 4, r, b, "alice", "SenderSide")
          /\ IsChange(got, 5, r, b, "bob", "ReceiverSide")
          /\ IsHolding(delivered, 6, "splice-test-token-v2", <<"delivered", r>>, "bob", 100, "TestToken")
    BY DEF IsSettlement
<1>3. /\ Exercised(s) = {batch, used, enact, gave, got}
      /\ Created(s) = {paid, delivered}
    BY <1>2 DEF Exercised, Created, IsBatch, IsExercise, IsHolding, IsChange, OnLedger
<1>4. /\ \A e \in Exercised(s) : e.choice = "SettlementFactory_SettleBatch" => e = batch
      /\ \A e \in Exercised(s) : e.choice = "ConditionalLock_Enact" => e = enact
      /\ \A e \in Exercised(s) :
             e.choice = "EventLog_HoldingsChange" /\ (\E l \in e.sides : l[2] = "SenderSide") => e = gave
      /\ batch.choice = "SettlementFactory_SettleBatch" /\ enact.choice = "ConditionalLock_Enact"
      /\ gave.choice = "EventLog_HoldingsChange" /\ \E l \in gave.sides : l[2] = "SenderSide"
    BY <1>2, <1>3 DEF IsBatch, IsExercise, IsChange, OnLedger
<1>5. theBatch = batch /\ theEnact = enact /\ theSide = gave
    BY <1>3, <1>4
<1>6. /\ paid.package = "splice-amulet" /\ delivered.package = "splice-test-token-v2"
      /\ \A e \in Created(s) : e.package = "splice-amulet" => e = paid
      /\ \A e \in Created(s) : e.package # "splice-amulet" => e = delivered
    BY <1>2, <1>3 DEF IsHolding, OnLedger
<1>7. made("splice-amulet") = paid /\ made("splice-test-token-v2") = delivered
    BY <1>3, <1>6
<1>8. (CHOOSE l \in gave.sides : TRUE)[1] = deliveryLegId(r)
    <2> DEFINE side == CHOOSE l \in gave.sides : TRUE
    <2>1. gave.sides = {<<deliveryLegId(r), "SenderSide">>}
        BY <1>2 DEF IsChange
    <2>2. side = <<deliveryLegId(r), "SenderSide">>
        BY <2>1
    <2> HIDE DEF side
    <2>3. side[1] = deliveryLegId(r)
        BY <2>2
    <2> QED
        BY <2>3 DEF side
<1>9. settlementClaims(s) =
        [update_id |-> s.updateId, effective_at |-> s.effectiveAt, lock_id |-> batch.settlementId,
         lock_contract_id |-> enact.contractId, command_count |-> Cardinality(rootEvents(s)),
         transfer_leg_ids |-> <<(CHOOSE l \in gave.sides : TRUE)[1]>>,
         amulet_allocation_cids |-> batch.allocations,
         delivery_cid |-> delivered.contractId, delivery_package |-> delivered.package,
         delivery_receiver |-> delivered.owner, delivery_amount |-> delivered.amount,
         delivery_instrument |-> delivered.instrument,
         payment_cid |-> paid.contractId, payment_package |-> paid.package,
         payment_receiver |-> paid.owner, payment_amount |-> paid.amount,
         payment_sender |-> batch.legs[1].sender, payment_instrument |-> batch.legs[1].instrument]
    BY <1>5, <1>7, Zenon DEF settlementClaims
<1>10. batch.legs[1].sender = "bob" /\ batch.legs[1].instrument = "Amulet"
    BY <1>2 DEF IsBatch
<1>11. /\ batch.settlementId = lockId(r) /\ batch.allocations = <<<<"sender", r>>, <<"receiver", r>>>>
       /\ delivered.contractId = <<"delivered", r>> /\ delivered.owner = "bob"
       /\ delivered.amount = 100 /\ delivered.instrument = "TestToken"
       /\ paid.contractId = <<"paid", r>> /\ paid.owner = "alice" /\ paid.amount = 42
    BY <1>2 DEF IsBatch, IsHolding
<1>12. /\ \A e \in Exercised(s) : e.choice = "SettlementFactory_SettleBatch" => IsBatch(e, r, b)
       /\ \A e \in Exercised(s) : e.choice = "ConditionalLock_Enact" => e.contractId = <<"lock", r>>
    BY <1>2, <1>4
<1>13. /\ \A e \in Created(s) : e.package = "splice-amulet" =>
              IsHolding(e, 2, "splice-amulet", <<"paid", r>>, "alice", 42, "Amulet")
       /\ \A e \in Created(s) : e.package # "splice-amulet" =>
              IsHolding(e, 6, "splice-test-token-v2", <<"delivered", r>>, "bob", 100, "TestToken")
    BY <1>2, <1>6
<1>14. \A e \in Exercised(s) : e.choice = "EventLog_HoldingsChange" =>
           e.sides \in {{<<deliveryLegId(r), side>>} : side \in {"SenderSide", "ReceiverSide"}}
    <2>1. \A e \in Exercised(s) : e.choice = "EventLog_HoldingsChange" => e \in {gave, got}
        BY <1>2, <1>3 DEF IsBatch, IsExercise, OnLedger
    <2>2. /\ gave.sides = {<<deliveryLegId(r), "SenderSide">>}
          /\ got.sides = {<<deliveryLegId(r), "ReceiverSide">>}
        BY <1>2 DEF IsChange
    <2> QED
        BY <2>1, <2>2
<1>15. settlementClaims(s) = Told(s, r, t)
    <2>1. /\ paid.package = "splice-amulet" /\ delivered.package = "splice-test-token-v2"
          /\ enact.contractId = <<"lock", r>>
        BY <1>2, <1>6
    <2> QED
        BY <1>1, <1>8, <1>9, <1>10, <1>11, <2>1, Zenon DEF Told
<1> QED
    BY <1>12, <1>13, <1>14, <1>15

\* The same of the expiry.
LEMMA ExpiryTold ==
    ASSUME NEW r, NEW b, NEW t, NEW x, IsExpiry(x, r, b, t)
    PROVE  /\ \A e \in Created(x) :
                  IsHolding(e, 1, "splice-test-token-v2", <<"returned", r>>, "alice", 100, "TestToken")
           /\ Created(x) # {}
           /\ expiryClaims(x) = [expire_update_id |-> <<"expire", r>>,
                                 returned_contract_id |-> <<"returned", r>>,
                                 returned_owner |-> "alice", returned_amount |-> 100]
<1>1. x.updateId = <<"expire", r>>
    BY DEF IsExpiry
<1>2. PICK expire, returned :
          /\ x.events = {expire, returned}
          /\ IsExercise(expire, "ConditionalLock_Expire", 0, 1, "conditional-lock-test-token", b)
          /\ IsHolding(returned, 1, "splice-test-token-v2", <<"returned", r>>, "alice", 100, "TestToken")
    BY DEF IsExpiry
<1>3. Created(x) = {returned}
    BY <1>2 DEF Created, IsExercise, IsHolding, OnLedger
<1>4. returned.contractId = <<"returned", r>> /\ returned.owner = "alice" /\ returned.amount = 100
    BY <1>2 DEF IsHolding
<1>5. (CHOOSE e \in Created(x) : e.owner = "alice") = returned
    BY <1>3, <1>4
<1>6. expiryClaims(x) = [expire_update_id |-> x.updateId, returned_contract_id |-> returned.contractId,
                         returned_owner |-> returned.owner, returned_amount |-> returned.amount]
    BY <1>5, Zenon DEF expiryClaims
<1> QED
    BY <1>1, <1>2, <1>3, <1>4, <1>6

-------------------------------------------------------------------------------
(* Claims against true updates                                                 *)

\* The commands the claims are compared with are the two of the settlement.
LEMMA BatchRead ==
    ASSUME NEW c, NEW s, NEW r, NEW b, NEW t, IsSettlement(s, r, b, t), RootsGate(c, s)
    PROVE  IsBatch(batchOf(s), r, b) /\ rootOf(s, "ConditionalLock_Enact").contractId = <<"lock", r>>
<1>1. \A choice \in RootChoices : \E e \in rootEvents(s) : e.choice = choice
    BY Zenon DEF RootsGate
<1>2. \A choice \in RootChoices :
          rootOf(s, choice) \in rootEvents(s) /\ rootOf(s, choice).choice = choice
    BY <1>1 DEF rootOf
<1>3. rootEvents(s) \subseteq Exercised(s)
    BY DEF RootsGate
<1> QED
    BY <1>2, <1>3, SettlementTold DEF batchOf, RootChoices

\* Only the delivery has an ID of three parts among the legs of the update.
LEMMA LegsRead ==
    ASSUME NEW c, NEW s, NEW r, NEW b, NEW t, IsSettlement(s, r, b, t), IsBatch(batchOf(s), r, b),
           LockAndLegsGate(c, s), ThreePartsGate(c), LegIdsGate(c), IsList(c.transfer_leg_ids)
    PROVE  SetOf(c.transfer_leg_ids) = {deliveryLegId(r)}
<1> DEFINE legs == c.transfer_leg_ids
<1>1. {leg.id : leg \in SetOf(batchOf(s).legs)} = {paymentLegId(r)}
    <2>1. batchOf(s).legs = <<[id |-> paymentLegId(r), sender |-> "bob", receiver |-> "alice",
                               amount |-> 42, instrument |-> "Amulet"]>>
        BY DEF IsBatch
    <2> QED
        BY <2>1 DEF SetOf
<1>2. \A e \in exercisesOf(s, "EventLog_HoldingsChange") : \A side \in e.sides : side[1] = deliveryLegId(r)
    <2> SUFFICES ASSUME NEW e \in exercisesOf(s, "EventLog_HoldingsChange"), NEW side \in e.sides
                 PROVE  side[1] = deliveryLegId(r)
        OBVIOUS
    <2>1. e.sides \in {{<<deliveryLegId(r), w>>} : w \in {"SenderSide", "ReceiverSide"}}
        BY SettlementTold DEF exercisesOf
    <2>2. side = <<deliveryLegId(r), "SenderSide">> \/ side = <<deliveryLegId(r), "ReceiverSide">>
        BY <2>1
    <2> QED
        BY <2>2
<1>3. rawLegIds(s, batchOf(s)) \subseteq {paymentLegId(r), deliveryLegId(r)}
    <2> SUFFICES ASSUME NEW id \in rawLegIds(s, batchOf(s)), id # paymentLegId(r)
                 PROVE  id = deliveryLegId(r)
        OBVIOUS
    <2>1. PICK e \in exercisesOf(s, "EventLog_HoldingsChange") : id \in {side[1] : side \in e.sides}
        BY <1>1 DEF rawLegIds
    <2> QED
        BY <2>1, <1>2
<1>4. \A leg \in SetOf(legs) : leg \in {paymentLegId(r), deliveryLegId(r)} /\ Len(leg) = 3
    BY <1>3 DEF LockAndLegsGate, ThreePartsGate
<1>5. Len(paymentLegId(r)) = 2
    BY DEF paymentLegId
<1>6. SetOf(legs) # {}
    <2>1. Len(legs) # 0
        <3> SUFFICES ASSUME Len(legs) = 0 PROVE legs = <<>>
            BY DEF LegIdsGate
        <3>1. legs = [i \in {} |-> legs[i]]
            BY DEF IsList
        <3> QED
            BY <3>1
    <2>2. 1 \in 1 .. Len(legs)
        BY <2>1 DEF IsList
    <2> QED
        BY <2>2 DEF SetOf
<1> QED
    BY <1>4, <1>5, <1>6

\* Claims that pass the gates over the participant's own updates repeat them.
LEMMA GatesCompareClaims ==
    ASSUME NEW c, NEW s, NEW r, NEW b, NEW t, IsSettlement(s, r, b, t),
           NEW x, NEW q, NEW d, NEW u, IsExpiry(x, q, d, u),
           ClaimGates(c), UpdateGates(c, s, x), IsList(c.transfer_leg_ids)
    PROVE  LET told == settlementClaims(s)
               toldExpiry == expiryClaims(x) IN
           /\ \A f \in DOMAIN told \ listed : c[f] = told[f]
           /\ \A f \in listed : SetOf(c[f]) = SetOf(told[f])
           /\ \A f \in DOMAIN toldExpiry : c[f] = toldExpiry[f]
<1>1. IsBatch(batchOf(s), r, b) /\ rootOf(s, "ConditionalLock_Enact").contractId = <<"lock", r>>
    BY BatchRead DEF UpdateGates
<1>2. /\ c.update_id = <<"settle", r>> /\ c.expire_update_id = <<"expire", q>>
      /\ c.effective_at = t /\ c.command_count = Cardinality(rootEvents(s))
    BY DEF UpdateGates, UpdatesMatchGate, EffectiveAtGate, RootsGate, IsSettlement, IsExpiry
<1>3. c.lock_id = lockId(r) /\ c.lock_contract_id = <<"lock", r>>
    BY <1>1 DEF UpdateGates, LockAndLegsGate, PartiesGate, IsBatch
<1>4. SetOf(c.transfer_leg_ids) = {deliveryLegId(r)}
    BY <1>1, LegsRead DEF UpdateGates, ClaimGates
<1>5. SetOf(c.amulet_allocation_cids) = SetOf(<<<<"sender", r>>, <<"receiver", r>>>>)
    BY <1>1 DEF UpdateGates, AllocationsGate, IsBatch
<1>6. /\ c.delivery_cid = <<"delivered", r>> /\ c.delivery_package = "splice-test-token-v2"
      /\ c.delivery_receiver = "bob" /\ c.delivery_amount = 100 /\ c.delivery_instrument = "TestToken"
    <2> DEFINE h == findCreated(s, c.delivery_cid)
    <2>1. h \in Created(s) /\ h.contractId = c.delivery_cid
        BY DEF UpdateGates, DeliveryHoldingGate, isCreated, findCreated
    <2>2. /\ h.package = "splice-test-token-v2" /\ h.owner = c.delivery_receiver
          /\ h.amount = c.delivery_amount /\ h.instrument = c.delivery_instrument
        BY DEF UpdateGates, DeliveryHoldingGate
    <2> HIDE DEF h
    <2>3. IsHolding(h, 6, "splice-test-token-v2", <<"delivered", r>>, "bob", 100, "TestToken")
        BY <2>1, <2>2, SettlementTold
    <2> QED
        BY <2>1, <2>2, <2>3 DEF IsHolding, ClaimGates, LegPackagesGate
<1>7. /\ c.payment_cid = <<"paid", r>> /\ c.payment_package = "splice-amulet"
      /\ c.payment_receiver = "alice" /\ c.payment_amount = 42
    <2> DEFINE h == findCreated(s, c.payment_cid)
    <2>1. h \in Created(s) /\ h.contractId = c.payment_cid
        BY DEF UpdateGates, PaymentHoldingGate, isCreated, findCreated
    <2>2. h.package = "splice-amulet" /\ h.owner = c.payment_receiver /\ h.amount = c.payment_amount
        BY DEF UpdateGates, PaymentHoldingGate
    <2> HIDE DEF h
    <2>3. IsHolding(h, 2, "splice-amulet", <<"paid", r>>, "alice", 42, "Amulet")
        BY <2>1, <2>2, SettlementTold
    <2> QED
        BY <2>1, <2>2, <2>3 DEF IsHolding, ClaimGates, LegPackagesGate
<1>8. c.payment_sender = "bob" /\ c.payment_instrument = "Amulet"
    <2>1. batchOf(s).legs[1].sender = "bob" /\ batchOf(s).legs[1].instrument = "Amulet"
        BY <1>1 DEF IsBatch
    <2> QED
        BY <2>1 DEF UpdateGates, PaymentLegGate
<1>9. c.returned_contract_id = <<"returned", q>> /\ c.returned_owner = "alice" /\ c.returned_amount = 100
    <2> DEFINE h == findCreated(x, c.returned_contract_id)
    <2>1. h \in Created(x) /\ h.contractId = c.returned_contract_id
        BY DEF UpdateGates, ReturnedGate, isCreated, findCreated
    <2>2. h.owner = c.returned_owner /\ h.amount = c.returned_amount
        BY DEF UpdateGates, ReturnedGate
    <2> HIDE DEF h
    <2>3. IsHolding(h, 1, "splice-test-token-v2", <<"returned", q>>, "alice", 100, "TestToken")
        BY <2>1, ExpiryTold
    <2> QED
        BY <2>1, <2>2, <2>3 DEF IsHolding
<1>10. /\ settlementClaims(s) = Told(s, r, t)
       /\ expiryClaims(x) = [expire_update_id |-> <<"expire", q>>,
                             returned_contract_id |-> <<"returned", q>>,
                             returned_owner |-> "alice", returned_amount |-> 100]
    BY SettlementTold, ExpiryTold
<1>11. \A f \in DOMAIN Told(s, r, t) \ listed : c[f] = Told(s, r, t)[f]
    BY <1>2, <1>3, <1>6, <1>7, <1>8 DEF Told, listed
<1>12. SetOf(<<deliveryLegId(r)>>) = {deliveryLegId(r)}
    BY DEF SetOf
<1>13. \A f \in listed : SetOf(c[f]) = SetOf(Told(s, r, t)[f])
    BY <1>4, <1>5, <1>12 DEF Told, listed
<1>14. \A f \in DOMAIN expiryClaims(x) : c[f] = expiryClaims(x)[f]
    BY <1>2, <1>9, <1>10
<1> QED
    BY <1>10, <1>11, <1>13, <1>14

-------------------------------------------------------------------------------
(* A true run passes every gate                                                *)

\* The commands are the two roots of the update.
LEMMA RootsRead ==
    ASSUME NEW r, NEW b, NEW t, NEW s, IsSettlement(s, r, b, t)
    PROVE  /\ Cardinality(rootEvents(s)) = 2
           /\ rootEvents(s) \subseteq Exercised(s)
           /\ {e.choice : e \in rootEvents(s)} = RootChoices
           /\ RequiredChoices \subseteq {e.choice : e \in Exercised(s)}
<1>1. PICK batch, used, paid, enact, gave, got, delivered :
          /\ s.events = {batch, used, paid, enact, gave, got, delivered}
          /\ IsBatch(batch, r, b)
          /\ IsExercise(used, "Allocation_Settle", 1, 1, "splice-amulet", b)
          /\ IsHolding(paid, 2, "splice-amulet", <<"paid", r>>, "alice", 42, "Amulet")
          /\ IsExercise(enact, "ConditionalLock_Enact", 3, 6, "conditional-lock-test-token", b)
          /\ enact.contractId = <<"lock", r>>
          /\ IsChange(gave, 4, r, b, "alice", "SenderSide")
          /\ IsChange(got, 5, r, b, "bob", "ReceiverSide")
          /\ IsHolding(delivered, 6, "splice-test-token-v2", <<"delivered", r>>, "bob", 100, "TestToken")
    BY DEF IsSettlement
<1>2. /\ batch.nodeId = 0 /\ batch.lastId = 2 /\ used.nodeId = 1 /\ used.lastId = 1
      /\ paid.nodeId = 2 /\ paid.lastId = 2 /\ enact.nodeId = 3 /\ enact.lastId = 6
      /\ gave.nodeId = 4 /\ gave.lastId = 4 /\ got.nodeId = 5 /\ got.lastId = 5
      /\ delivered.nodeId = 6 /\ delivered.lastId = 6
    BY <1>1 DEF IsBatch, IsExercise, IsHolding, IsChange, OnLedger
<1>3. contains(batch, used) /\ contains(batch, paid)
      /\ contains(enact, gave) /\ contains(enact, got) /\ contains(enact, delivered)
    BY <1>2 DEF contains
<1>4. \A o \in s.events : ~contains(o, batch) /\ ~contains(o, enact)
    BY <1>1, <1>2 DEF contains
<1>5. rootEvents(s) = {batch, enact}
    BY <1>1, <1>3, <1>4 DEF rootEvents
<1>6. batch # enact /\ {batch, enact} \subseteq Exercised(s)
    BY <1>1, <1>2 DEF Exercised, IsBatch, IsExercise, OnLedger
<1>7. Cardinality({batch, enact}) = 2
    <2>1. {batch, enact} = {batch} \cup {enact} /\ enact \notin {batch}
        BY <1>6
    <2>2. IsFiniteSet({batch}) /\ Cardinality({batch}) = 1
        BY FS_Singleton
    <2>3. Cardinality({batch} \cup {enact}) = Cardinality({batch}) + 1
        BY <2>1, <2>2, FS_AddElement
    <2> QED
        BY <2>1, <2>2, <2>3
<1>8. batch.choice = "SettlementFactory_SettleBatch" /\ enact.choice = "ConditionalLock_Enact"
    BY <1>1 DEF IsBatch, IsExercise
<1>9. used \in Exercised(s) /\ used.choice = "Allocation_Settle"
    BY <1>1 DEF Exercised, IsExercise, OnLedger
<1>10. {e.choice : e \in rootEvents(s)} = RootChoices
    BY <1>5, <1>8 DEF RootChoices
<1>11. RequiredChoices \subseteq {e.choice : e \in Exercised(s)}
    BY <1>6, <1>8, <1>9 DEF RequiredChoices
<1> QED
    BY <1>5, <1>6, <1>7, <1>10, <1>11

\* The delivery goes from alice to bob.
LEMMA SidesRead ==
    ASSUME NEW r, NEW b, NEW t, NEW s, IsSettlement(s, r, b, t)
    PROVE  /\ sideOwners(s, deliveryLegId(r), "SenderSide") = {"alice"}
           /\ sideOwners(s, deliveryLegId(r), "ReceiverSide") = {"bob"}
           /\ \E e \in exercisesOf(s, "EventLog_HoldingsChange") :
                  \E side \in e.sides : side[1] = deliveryLegId(r)
<1>1. PICK batch, used, paid, enact, gave, got, delivered :
          /\ s.events = {batch, used, paid, enact, gave, got, delivered}
          /\ IsBatch(batch, r, b)
          /\ IsExercise(used, "Allocation_Settle", 1, 1, "splice-amulet", b)
          /\ IsHolding(paid, 2, "splice-amulet", <<"paid", r>>, "alice", 42, "Amulet")
          /\ IsExercise(enact, "ConditionalLock_Enact", 3, 6, "conditional-lock-test-token", b)
          /\ IsChange(gave, 4, r, b, "alice", "SenderSide")
          /\ IsChange(got, 5, r, b, "bob", "ReceiverSide")
          /\ IsHolding(delivered, 6, "splice-test-token-v2", <<"delivered", r>>, "bob", 100, "TestToken")
    BY DEF IsSettlement
<1>2. exercisesOf(s, "EventLog_HoldingsChange") = {gave, got}
    BY <1>1 DEF exercisesOf, Exercised, IsBatch, IsExercise, IsHolding, IsChange, OnLedger
<1>3. /\ gave.owner = "alice" /\ gave.sides = {<<deliveryLegId(r), "SenderSide">>}
      /\ got.owner = "bob" /\ got.sides = {<<deliveryLegId(r), "ReceiverSide">>}
    BY <1>1 DEF IsChange
<1>4. gave.owner # Missing /\ got.owner # Missing
    BY <1>3, MissingAssumption
<1>5. /\ {h \in {gave, got} : <<deliveryLegId(r), "SenderSide">> \in h.sides /\ h.owner # Missing} = {gave}
      /\ {h \in {gave, got} : <<deliveryLegId(r), "ReceiverSide">> \in h.sides /\ h.owner # Missing} = {got}
    BY <1>3, <1>4
<1>6. <<deliveryLegId(r), "SenderSide">> \in gave.sides /\ <<deliveryLegId(r), "SenderSide">>[1] = deliveryLegId(r)
    BY <1>3
<1> QED
    BY <1>2, <1>3, <1>5, <1>6 DEF sideOwners

\* The package of each event, as a build b of the first-party packages leaves it.
LEMMA PackagesRead ==
    ASSUME NEW r, NEW b, NEW t, NEW s, IsSettlement(s, r, b, t)
    PROVE  /\ {e.package : e \in s.events} = RequiredPackages
           /\ \A e \in s.events : e.packageId = idOf(e.package, b)
<1>1. PICK batch, used, paid, enact, gave, got, delivered :
          /\ s.events = {batch, used, paid, enact, gave, got, delivered}
          /\ IsBatch(batch, r, b)
          /\ IsExercise(used, "Allocation_Settle", 1, 1, "splice-amulet", b)
          /\ IsHolding(paid, 2, "splice-amulet", <<"paid", r>>, "alice", 42, "Amulet")
          /\ IsExercise(enact, "ConditionalLock_Enact", 3, 6, "conditional-lock-test-token", b)
          /\ IsChange(gave, 4, r, b, "alice", "SenderSide")
          /\ IsChange(got, 5, r, b, "bob", "ReceiverSide")
          /\ IsHolding(delivered, 6, "splice-test-token-v2", <<"delivered", r>>, "bob", 100, "TestToken")
    BY DEF IsSettlement
<1>2. /\ batch.package = "splice-amulet" /\ used.package = "splice-amulet" /\ paid.package = "splice-amulet"
      /\ enact.package = "conditional-lock-test-token" /\ gave.package = "conditional-lock-test-token"
      /\ got.package = "conditional-lock-test-token" /\ delivered.package = "splice-test-token-v2"
    BY <1>1 DEF IsBatch, IsExercise, IsHolding, IsChange, OnLedger
<1>3. /\ batch.packageId = idOf("splice-amulet", b) /\ used.packageId = idOf("splice-amulet", b)
      /\ paid.packageId = idOf("splice-amulet", 0)
      /\ enact.packageId = idOf("conditional-lock-test-token", b)
      /\ gave.packageId = idOf("conditional-lock-test-token", b)
      /\ got.packageId = idOf("conditional-lock-test-token", b)
      /\ delivered.packageId = idOf("splice-test-token-v2", 0)
    BY <1>1 DEF IsBatch, IsExercise, IsHolding, IsChange, OnLedger
<1>4. idOf("splice-amulet", 0) = idOf("splice-amulet", b)
      /\ idOf("splice-test-token-v2", 0) = idOf("splice-test-token-v2", b)
    BY DEF idOf, FirstParty
<1>5. {e.package : e \in s.events} = RequiredPackages
    BY <1>1, <1>2 DEF RequiredPackages, FirstParty
<1> QED
    BY <1>1, <1>2, <1>3, <1>4, <1>5

\* The same of the expiry.
LEMMA ExpiryPackagesRead ==
    ASSUME NEW r, NEW b, NEW t, NEW x, IsExpiry(x, r, b, t)
    PROVE  \A e \in x.events : e.packageId = idOf(e.package, b)
<1>1. PICK expire, returned :
          /\ x.events = {expire, returned}
          /\ IsExercise(expire, "ConditionalLock_Expire", 0, 1, "conditional-lock-test-token", b)
          /\ IsHolding(returned, 1, "splice-test-token-v2", <<"returned", r>>, "alice", 100, "TestToken")
    BY DEF IsExpiry
<1>2. idOf("splice-test-token-v2", 0) = idOf("splice-test-token-v2", b)
    BY DEF idOf, FirstParty
<1> QED
    BY <1>1, <1>2 DEF IsExercise, IsHolding, OnLedger

\* What the claims of a run say of the updates s and x, and when they were written.
Claimed(c, s, r, t, u, rec) ==
    /\ c.update_id = <<"settle", r>> /\ c.effective_at = t /\ c.lock_id = lockId(r)
    /\ c.lock_contract_id = <<"lock", r>> /\ c.command_count = Cardinality(rootEvents(s))
    /\ c.transfer_leg_ids = <<deliveryLegId(r)>>
    /\ c.amulet_allocation_cids = <<<<"sender", r>>, <<"receiver", r>>>>
    /\ c.delivery_cid = <<"delivered", r>> /\ c.delivery_package = "splice-test-token-v2"
    /\ c.delivery_receiver = "bob" /\ c.delivery_amount = 100 /\ c.delivery_instrument = "TestToken"
    /\ c.payment_cid = <<"paid", r>> /\ c.payment_package = "splice-amulet"
    /\ c.payment_receiver = "alice" /\ c.payment_amount = 42
    /\ c.payment_sender = "bob" /\ c.payment_instrument = "Amulet"
    /\ c.expire_update_id = <<"expire", r>> /\ c.returned_contract_id = <<"returned", r>>
    /\ c.returned_owner = "alice" /\ c.returned_amount = 100
    /\ c.canton_version_observed = "3.5.16" /\ c.synchronizer_id = s.synchronizerId
    /\ c.alice = "alice" /\ c.bob = "bob" /\ c.executor = "executor"
    /\ c.packages_observed = observedPackages(s)
    /\ c.choices_exercised = RequiredChoices \cap {e.choice : e \in Exercised(s)}
    /\ c.expiry_lock_id = <<"dvp-expiry", r>>
    /\ {c.deadline, c.expires_at, c.enact_rejected_at} \subseteq 0 .. MaxTime
    /\ c.deadline < c.expires_at /\ c.deadline < c.enact_rejected_at
    /\ c.expires_at <= u /\ c.enact_rejected_at <= u
    /\ c.enact_rejection = {"no alternative is satisfied", "POST status line"}
    /\ c.withdrawn_cid = <<"withdrawn", r>> /\ c.run_nonce = r /\ c.recorded_at = rec

\* The claims hold what was told, and what the harness knows itself.
LEMMA ClaimsWritten ==
    ASSUME NEW r, NEW b, NEW t, NEW u, NEW m, NEW rec,
           IsSettlement(m.s, r, b, t), IsExpiry(m.x, r, b, u),
           {m.deadline, m.expires_at, m.enact_rejected_at} \subseteq 0 .. MaxTime,
           m.deadline < m.expires_at, m.deadline < m.enact_rejected_at,
           m.expires_at <= u, m.enact_rejected_at <= u
    PROVE  /\ Claimed(harnessClaims(r, m, rec), m.s, r, t, u, rec)
           /\ "transfer_leg_ids" \in DOMAIN harnessClaims(r, m, rec)
<1> DEFINE c == harnessClaims(r, m, rec)
           s == m.s
           A == Told(s, r, t)
           B == [expire_update_id |-> <<"expire", r>>, returned_contract_id |-> <<"returned", r>>,
                 returned_owner |-> "alice", returned_amount |-> 100]
           O == ownClaims(r, m, rec)
<1>1. settlementClaims(s) = A
    <2>1. \A rr, bb, tt, ss : IsSettlement(ss, rr, bb, tt) => settlementClaims(ss) = Told(ss, rr, tt)
        BY SettlementTold
    <2> QED
        BY <2>1
<1>2. expiryClaims(m.x) = B
    BY ExpiryTold
<1>3. c = joined(joined(A, B), O)
    BY <1>1, <1>2 DEF harnessClaims
<1>4. /\ DOMAIN A = {"update_id", "effective_at", "lock_id", "lock_contract_id", "command_count",
                     "transfer_leg_ids", "amulet_allocation_cids", "delivery_cid", "delivery_package",
                     "delivery_receiver", "delivery_amount", "delivery_instrument", "payment_cid",
                     "payment_package", "payment_receiver", "payment_amount", "payment_sender",
                     "payment_instrument"}
      /\ A["update_id"] = <<"settle", r>> /\ A["effective_at"] = t /\ A["lock_id"] = lockId(r)
      /\ A["lock_contract_id"] = <<"lock", r>> /\ A["command_count"] = Cardinality(rootEvents(s))
      /\ A["transfer_leg_ids"] = <<deliveryLegId(r)>>
      /\ A["amulet_allocation_cids"] = <<<<"sender", r>>, <<"receiver", r>>>>
      /\ A["delivery_cid"] = <<"delivered", r>> /\ A["delivery_package"] = "splice-test-token-v2"
      /\ A["delivery_receiver"] = "bob" /\ A["delivery_amount"] = 100
      /\ A["delivery_instrument"] = "TestToken"
      /\ A["payment_cid"] = <<"paid", r>> /\ A["payment_package"] = "splice-amulet"
      /\ A["payment_receiver"] = "alice" /\ A["payment_amount"] = 42
      /\ A["payment_sender"] = "bob" /\ A["payment_instrument"] = "Amulet"
    BY DEF Told
<1>5. /\ DOMAIN B = {"expire_update_id", "returned_contract_id", "returned_owner", "returned_amount"}
      /\ B["expire_update_id"] = <<"expire", r>> /\ B["returned_contract_id"] = <<"returned", r>>
      /\ B["returned_owner"] = "alice" /\ B["returned_amount"] = 100
    OBVIOUS
<1>6. /\ DOMAIN O = {"canton_version_observed", "synchronizer_id", "alice", "bob", "executor",
                     "packages_observed", "choices_exercised", "expiry_lock_id", "deadline",
                     "expires_at", "enact_rejected_at", "enact_rejection", "withdrawn_cid",
                     "run_nonce", "recorded_at"}
      /\ O["canton_version_observed"] = "3.5.16" /\ O["synchronizer_id"] = s.synchronizerId
      /\ O["alice"] = "alice" /\ O["bob"] = "bob" /\ O["executor"] = "executor"
      /\ O["packages_observed"] = observedPackages(s)
      /\ O["choices_exercised"] = RequiredChoices \cap {e.choice : e \in Exercised(s)}
      /\ O["expiry_lock_id"] = <<"dvp-expiry", r>> /\ O["deadline"] = m.deadline
      /\ O["expires_at"] = m.expires_at /\ O["enact_rejected_at"] = m.enact_rejected_at
      /\ O["enact_rejection"] = {"no alternative is satisfied", "POST status line"}
      /\ O["withdrawn_cid"] = <<"withdrawn", r>> /\ O["run_nonce"] = r /\ O["recorded_at"] = rec
    BY DEF ownClaims
<1> HIDE DEF A, B, O, s
<1>7. /\ \A f \in DOMAIN A : f \in DOMAIN c /\ c[f] = A[f]
      /\ \A f \in DOMAIN B \ DOMAIN A : c[f] = B[f]
      /\ \A f \in DOMAIN O \ (DOMAIN A \cup DOMAIN B) : c[f] = O[f]
    BY <1>3 DEF joined
<1> HIDE DEF c
<1>8. (\A f \in DOMAIN B : f \notin DOMAIN A) /\ (\A f \in DOMAIN O : f \notin DOMAIN A \cup DOMAIN B)
    BY <1>4, <1>5, <1>6
<1>9. (\A f \in DOMAIN B : c[f] = B[f]) /\ (\A f \in DOMAIN O : c[f] = O[f])
    BY <1>7, <1>8
<1>10. /\ c.update_id = <<"settle", r>> /\ c.effective_at = t /\ c.lock_id = lockId(r)
       /\ c.lock_contract_id = <<"lock", r>> /\ c.command_count = Cardinality(rootEvents(s))
       /\ c.transfer_leg_ids = <<deliveryLegId(r)>>
       /\ c.amulet_allocation_cids = <<<<"sender", r>>, <<"receiver", r>>>>
       /\ c.delivery_cid = <<"delivered", r>> /\ c.delivery_package = "splice-test-token-v2"
       /\ c.delivery_receiver = "bob" /\ c.delivery_amount = 100 /\ c.delivery_instrument = "TestToken"
       /\ c.payment_cid = <<"paid", r>> /\ c.payment_package = "splice-amulet"
       /\ c.payment_receiver = "alice" /\ c.payment_amount = 42
       /\ c.payment_sender = "bob" /\ c.payment_instrument = "Amulet"
    BY <1>4, <1>7
<1>11. /\ c.expire_update_id = <<"expire", r>> /\ c.returned_contract_id = <<"returned", r>>
       /\ c.returned_owner = "alice" /\ c.returned_amount = 100
    BY <1>5, <1>9
<1>12. /\ c.canton_version_observed = "3.5.16" /\ c.synchronizer_id = s.synchronizerId
       /\ c.alice = "alice" /\ c.bob = "bob" /\ c.executor = "executor"
       /\ c.packages_observed = observedPackages(s)
       /\ c.choices_exercised = RequiredChoices \cap {e.choice : e \in Exercised(s)}
       /\ c.expiry_lock_id = <<"dvp-expiry", r>> /\ c.deadline = m.deadline
       /\ c.expires_at = m.expires_at /\ c.enact_rejected_at = m.enact_rejected_at
       /\ c.enact_rejection = {"no alternative is satisfied", "POST status line"}
       /\ c.withdrawn_cid = <<"withdrawn", r>> /\ c.run_nonce = r /\ c.recorded_at = rec
    BY <1>6, <1>9
<1>13. /\ {c.deadline, c.expires_at, c.enact_rejected_at} \subseteq 0 .. MaxTime
       /\ c.deadline < c.expires_at /\ c.deadline < c.enact_rejected_at
       /\ c.expires_at <= u /\ c.enact_rejected_at <= u
    BY <1>12
<1>14. Claimed(c, s, r, t, u, rec)
    BY <1>10, <1>11, <1>12, <1>13, Zenon DEF Claimed
<1>15. "transfer_leg_ids" \in DOMAIN c
    BY <1>4, <1>7
<1> QED
    BY <1>14, <1>15 DEF c, s

\* Seven different identifiers are claimed.
LEMMA CidsDiffer ==
    ASSUME NEW r \in 1 .. MaxRuns, NEW c,
           c.delivery_cid = <<"delivered", r>>, c.payment_cid = <<"paid", r>>,
           c.lock_contract_id = <<"lock", r>>, c.returned_contract_id = <<"returned", r>>,
           c.withdrawn_cid = <<"withdrawn", r>>,
           c.amulet_allocation_cids = <<<<"sender", r>>, <<"receiver", r>>>>
    PROVE  ContractIdGate(c)
<1> DEFINE cids == <<<<"delivered", r>>, <<"paid", r>>, <<"lock", r>>, <<"returned", r>>,
                     <<"withdrawn", r>>, <<"sender", r>>, <<"receiver", r>>>>
           ids == {cids[i] : i \in 1 .. 7}
<1>1. claimedCids(c) = cids
    <2>1. claimedCids(c) = <<<<"delivered", r>>, <<"paid", r>>, <<"lock", r>>, <<"returned", r>>,
                             <<"withdrawn", r>>>> \o <<<<"sender", r>>, <<"receiver", r>>>>
        BY DEF claimedCids
    <2> DEFINE p == <<<<"delivered", r>>, <<"paid", r>>, <<"lock", r>>, <<"returned", r>>, <<"withdrawn", r>>>>
               q == <<<<"sender", r>>, <<"receiver", r>>>>
    <2>2. /\ p \in Seq(ids) /\ q \in Seq(ids) /\ cids \in Seq(ids)
          /\ Len(p) = 5 /\ Len(q) = 2 /\ Len(cids) = 7
          /\ \A i \in 1 .. 5 : cids[i] = p[i]
          /\ \A i \in 6 .. 7 : cids[i] = q[i - 5]
        OBVIOUS
    <2> HIDE DEF p, q, cids, ids
    <2> DEFINE pq == p \o q
    <2>3. /\ pq \in Seq(ids) /\ Len(pq) = Len(p) + Len(q)
          /\ \A i \in 1 .. Len(p) + Len(q) : pq[i] = IF i <= Len(p) THEN p[i] ELSE q[i - Len(p)]
        BY <2>2, ConcatProperties, Zenon
    <2> HIDE DEF pq
    <2>4. \A i \in 1 .. 7 : pq[i] = cids[i]
        BY <2>2, <2>3
    <2>5. pq = cids
        <3>1. \A one, two \in Seq(ids) :
                  Len(one) = Len(two) /\ (\A i \in 1 .. Len(one) : one[i] = two[i]) => one = two
            BY SeqEqual
        <3>2. Len(pq) = 7
            BY <2>2, <2>3
        <3>3. Len(pq) = Len(cids) /\ \A i \in 1 .. Len(pq) : pq[i] = cids[i]
            BY <2>2, <2>4, <3>2
        <3> QED
            BY <2>2, <2>3, <3>1, <3>3, Zenon
    <2> QED
        BY <2>1, <2>5 DEF p, q, pq
<1>2. Len(cids) = 7 /\ SetOf(cids) = {<<"delivered", r>>, <<"paid", r>>, <<"lock", r>>, <<"returned", r>>,
                                     <<"withdrawn", r>>, <<"sender", r>>, <<"receiver", r>>}
    BY DEF SetOf
<1>3. SetOf(cids) \subseteq ContractId
    <2>1. r \in 0 .. MaxRuns
        BY BoundsAssumption
    <2> QED
        BY <1>2, <2>1 DEF ContractId, Roles
<1>4. Cardinality(SetOf(cids)) = 7
    <2> DEFINE A == {<<"delivered", r>>}
               B == A \cup {<<"paid", r>>}
               C == B \cup {<<"lock", r>>}
               D == C \cup {<<"returned", r>>}
               E == D \cup {<<"withdrawn", r>>}
               F == E \cup {<<"sender", r>>}
    <2>1. SetOf(cids) = F \cup {<<"receiver", r>>}
        BY <1>2
    <2> HIDE DEF cids
    <2>2. /\ <<"paid", r>> \notin A /\ <<"lock", r>> \notin B /\ <<"returned", r>> \notin C
          /\ <<"withdrawn", r>> \notin D /\ <<"sender", r>> \notin E /\ <<"receiver", r>> \notin F
        OBVIOUS
    <2>3. IsFiniteSet(A) /\ Cardinality(A) = 1
        BY FS_Singleton
    <2> HIDE DEF A
    <2>4. IsFiniteSet(B) /\ Cardinality(B) = 2
        BY <2>2, <2>3, FS_AddElement
    <2> HIDE DEF B
    <2>5. IsFiniteSet(C) /\ Cardinality(C) = 3
        BY <2>2, <2>4, FS_AddElement
    <2> HIDE DEF C
    <2>6. IsFiniteSet(D) /\ Cardinality(D) = 4
        BY <2>2, <2>5, FS_AddElement
    <2> HIDE DEF D
    <2>7. IsFiniteSet(E) /\ Cardinality(E) = 5
        BY <2>2, <2>6, FS_AddElement
    <2> HIDE DEF E
    <2>8. IsFiniteSet(F) /\ Cardinality(F) = 6
        BY <2>2, <2>7, FS_AddElement
    <2> HIDE DEF F
    <2>9. Cardinality(F \cup {<<"receiver", r>>}) = Cardinality(F) + 1
        BY <2>2, <2>8, FS_AddElement
    <2> QED
        BY <2>1, <2>8, <2>9
<1> HIDE DEF cids
<1> QED
    BY <1>1, <1>2, <1>3, <1>4 DEF ContractIdGate

\* Every gate lets the untouched files of a run pass.
LEMMA HonestPasses ==
    ASSUME NEW r \in 1 .. MaxRuns, NEW b \in 0 .. MaxBuilds, NEW t \in 0 .. MaxTime, NEW u \in 0 .. MaxTime,
           NEW s, s # NoFile, IsSettlement(s, r, b, t), NEW x, x # NoFile, IsExpiry(x, r, b, u),
           NEW rec \in 0 .. MaxTime, NEW c, Claimed(c, s, r, t, u, rec),
           NEW k, packagesPinned(s, artifactsOf(k)),
           NEW now \in Nat, rec <= now, now - rec <= StaleAfter
    PROVE  record_dvp(c, s, x, artifactsOf(k), now)
<1> DEFINE leg == deliveryLegId(r)
<1>2. /\ c.update_id = <<"settle", r>> /\ c.effective_at = t /\ c.lock_id = lockId(r)
      /\ c.lock_contract_id = <<"lock", r>> /\ c.command_count = Cardinality(rootEvents(s))
      /\ c.transfer_leg_ids = <<leg>>
      /\ c.amulet_allocation_cids = <<<<"sender", r>>, <<"receiver", r>>>>
      /\ c.delivery_cid = <<"delivered", r>> /\ c.delivery_package = "splice-test-token-v2"
      /\ c.delivery_receiver = "bob" /\ c.delivery_amount = 100 /\ c.delivery_instrument = "TestToken"
      /\ c.payment_cid = <<"paid", r>> /\ c.payment_package = "splice-amulet"
      /\ c.payment_receiver = "alice" /\ c.payment_amount = 42
      /\ c.payment_sender = "bob" /\ c.payment_instrument = "Amulet"
    BY DEF Claimed
<1>3. /\ c.expire_update_id = <<"expire", r>> /\ c.returned_contract_id = <<"returned", r>>
      /\ c.returned_owner = "alice" /\ c.returned_amount = 100
      /\ c.canton_version_observed = "3.5.16" /\ c.synchronizer_id = s.synchronizerId
      /\ c.alice = "alice" /\ c.bob = "bob" /\ c.executor = "executor"
      /\ c.packages_observed = observedPackages(s)
      /\ c.choices_exercised = RequiredChoices \cap {e.choice : e \in Exercised(s)}
      /\ c.expiry_lock_id = <<"dvp-expiry", r>>
      /\ {c.deadline, c.expires_at, c.enact_rejected_at} \subseteq 0 .. MaxTime
      /\ c.deadline < c.expires_at /\ c.deadline < c.enact_rejected_at
      /\ c.expires_at <= u /\ c.enact_rejected_at <= u
      /\ c.enact_rejection = {"no alternative is satisfied", "POST status line"}
      /\ c.withdrawn_cid = <<"withdrawn", r>> /\ c.run_nonce = r /\ c.recorded_at = rec
    BY DEF Claimed
<1>4. /\ Cardinality(rootEvents(s)) = 2 /\ rootEvents(s) \subseteq Exercised(s)
      /\ {e.choice : e \in rootEvents(s)} = RootChoices
      /\ RequiredChoices \subseteq {e.choice : e \in Exercised(s)}
    BY RootsRead
<1>5. RootsGate(c, s) /\ CommandCountGate(c) /\ ChoicesGate(c) /\ ChoicesInUpdateGate(c, s)
    BY <1>2, <1>3, <1>4 DEF RootsGate, CommandCountGate, ChoicesGate, ChoicesInUpdateGate, RequiredChoices
<1>6. IsBatch(batchOf(s), r, b) /\ rootOf(s, "ConditionalLock_Enact").contractId = <<"lock", r>>
    BY <1>5, BatchRead
<1>7. c.packages_observed = [p \in RequiredPackages |-> idOf(p, b)]
    <2>1. /\ {e.package : e \in s.events} = RequiredPackages
          /\ \A e \in s.events : e.packageId = idOf(e.package, b)
        BY PackagesRead
    <2>2. \A p \in RequiredPackages : (CHOOSE e \in s.events : e.package = p).packageId = idOf(p, b)
        BY <2>1
    <2>3. observedPackages(s) = [p \in RequiredPackages |-> (CHOOSE e \in s.events : e.package = p).packageId]
        <3> DEFINE seen == {e.package : e \in s.events}
        <3>1. seen = RequiredPackages
            BY <2>1
        <3>2. observedPackages(s) = [p \in seen |-> (CHOOSE e \in s.events : e.package = p).packageId]
            BY DEF observedPackages
        <3> HIDE DEF seen
        <3> QED
            BY <3>1, <3>2
    <2> DEFINE of(p) == (CHOOSE e \in s.events : e.package = p).packageId
    <2>4. \A p \in RequiredPackages : of(p) = idOf(p, b)
        BY <2>2
    <2>5. observedPackages(s) = [p \in RequiredPackages |-> of(p)]
        BY <2>3
    <2> HIDE DEF of
    <2> QED
        BY <1>3, <2>4, <2>5
<1>8. ObservedGate(c)
    <2>1. \A p \in RequiredPackages : idOf(p, b) \in PackageId
        BY BoundsAssumption DEF PackageId, idOf
    <2>2. \A p, q \in RequiredPackages : idOf(p, b) = idOf(q, b) => p = q
        BY DEF idOf
    <2> QED
        BY <1>7, <2>1, <2>2 DEF ObservedGate
<1>9. PackagesPinnedGate(c, s, x)
    <2>1. packagesPinned(s, c.packages_observed) /\ packagesPinned(x, c.packages_observed)
        BY <1>7, PackagesRead, ExpiryPackagesRead DEF packagesPinned
    <2>2. batchOf(s).package = "splice-amulet" /\ batchOf(s).packageId = idOf("splice-amulet", b)
        BY <1>6 DEF IsBatch, OnLedger
    <2> QED
        BY <1>7, <2>1, <2>2 DEF PackagesPinnedGate, RequiredPackages
<1>10. BuiltGate(c, artifactsOf(k))
    <2>1. DOMAIN artifactsOf(k) = FirstParty
        BY DEF artifactsOf
    <2>2. ASSUME NEW p \in FirstParty PROVE artifactsOf(k)[p] = idOf(p, b)
        <3>1. PICK e \in s.events : e.package = p
            BY PackagesRead DEF RequiredPackages
        <3> QED
            BY <2>1, <3>1, PackagesRead DEF packagesPinned
    <2> QED
        BY <1>7, <2>1, <2>2 DEF BuiltGate
<1>11. UpdateIdGate(c)
    <2>1. r \in 0 .. MaxRuns
        BY BoundsAssumption
    <2>2. <<"settle", r>> \in UpdateId /\ <<"expire", r>> \in UpdateId /\ <<"settle", r>> # <<"expire", r>>
        BY <2>1 DEF UpdateId
    <2> QED
        <3>1. c.update_id \in UpdateId /\ c.expire_update_id \in UpdateId /\ c.update_id # c.expire_update_id
            <4>1. c.update_id = <<"settle", r>> /\ c.expire_update_id = <<"expire", r>>
                BY <1>2, <1>3
            <4> QED
                BY <2>2, <4>1, Zenon
        <3> QED
            BY <3>1 DEF UpdateIdGate
<1>12. ContractIdGate(c)
    BY <1>2, <1>3, CidsDiffer
<1>13. startsWithLock(c, leg) /\ startsWithLock(c, paymentLegId(r))
    <2>1. lockId(r) # Missing
        BY BoundsAssumption, MissingAssumption DEF lockId
    <2> QED
        BY <1>2, <2>1 DEF startsWithLock, deliveryLegId, paymentLegId
<1>14. SetOf(c.transfer_leg_ids) = {leg} /\ c.transfer_leg_ids # <<>> /\ c.transfer_leg_ids[1] = leg
    BY <1>2 DEF SetOf
<1>15. ClaimGates(c)
    <2>1. VersionGate(c) /\ LegPackagesGate(c) /\ RejectionGate(c) /\ SameAmountGate(c)
        BY <1>2, <1>3 DEF VersionGate, CantonVersion, LegPackagesGate, RejectionGate, SameAmountGate
    <2>2. LegIdsGate(c)
        BY <1>13, <1>14 DEF LegIdsGate
    <2>2a. LocksDifferGate(c)
        <3>1. <<"dvp", r>> # <<"dvp-expiry", r>>
            OBVIOUS
        <3> QED
            BY <1>2, <1>3, <3>1 DEF LocksDifferGate, lockId
    <2>3. RejectedAfterDeadlineGate(c)
        BY <1>3, BoundsAssumption DEF RejectedAfterDeadlineGate, isTimestamp
    <2> QED
        BY <1>5, <1>8, <1>11, <1>12, <2>1, <2>2, <2>2a, <2>3 DEF ClaimGates
<1>16. /\ UpdatesMatchGate(c, s, x) /\ EffectiveAtGate(c, s) /\ ExpiryTimelineGate(c, x)
       /\ SynchronizerGate(c, s, x)
    BY <1>2, <1>3 DEF UpdatesMatchGate, EffectiveAtGate, ExpiryTimelineGate, SynchronizerGate,
                     isTimestamp, IsSettlement, IsExpiry
<1>17. AllocationsGate(c, s)
    BY <1>2, <1>6 DEF AllocationsGate, IsBatch
<1>18. LockAndLegsGate(c, s)
    <2>1. leg \in rawLegIds(s, batchOf(s))
        BY SidesRead DEF rawLegIds
    <2> QED
        BY <1>2, <1>6, <1>14, <2>1 DEF LockAndLegsGate, IsBatch
<1>19. DeliveryHoldingGate(c, s) /\ PaymentHoldingGate(c, s)
    <2>1. PICK paid \in Created(s) : IsHolding(paid, 2, "splice-amulet", <<"paid", r>>, "alice", 42, "Amulet")
        BY DEF IsSettlement, Created, IsHolding, OnLedger
    <2>2. PICK delivered \in Created(s) :
              IsHolding(delivered, 6, "splice-test-token-v2", <<"delivered", r>>, "bob", 100, "TestToken")
        BY DEF IsSettlement, Created, IsHolding, OnLedger
    <2>3. ASSUME NEW e \in Created(s)
          PROVE  \/ IsHolding(e, 2, "splice-amulet", <<"paid", r>>, "alice", 42, "Amulet")
                 \/ IsHolding(e, 6, "splice-test-token-v2", <<"delivered", r>>, "bob", 100, "TestToken")
        BY SettlementTold
    <2>4. /\ isCreated(s, c.delivery_cid)
          /\ IsHolding(findCreated(s, c.delivery_cid), 6, "splice-test-token-v2", <<"delivered", r>>,
                       "bob", 100, "TestToken")
        BY <1>2, <2>2, <2>3 DEF isCreated, findCreated, IsHolding
    <2>5. /\ isCreated(s, c.payment_cid)
          /\ IsHolding(findCreated(s, c.payment_cid), 2, "splice-amulet", <<"paid", r>>, "alice", 42, "Amulet")
        BY <1>2, <2>1, <2>3 DEF isCreated, findCreated, IsHolding
    <2> QED
        BY <1>2, <2>4, <2>5 DEF DeliveryHoldingGate, PaymentHoldingGate, IsHolding, OnLedger
<1>20. authorizerOf(c, s) = "alice" /\ PartiesGate(c, s)
    <2>1. /\ sideOwners(s, leg, "SenderSide") = {"alice"} /\ sideOwners(s, leg, "ReceiverSide") = {"bob"}
          /\ deliveryLeg(c) = leg
        BY <1>14, SidesRead DEF deliveryLeg
    <2>2. legSideOwner(s, leg, "SenderSide") = "alice" /\ legSideOwner(s, leg, "ReceiverSide") = "bob"
        BY <2>1 DEF legSideOwner
    <2>3. authorizerOf(c, s) = "alice"
        BY <2>1, <2>2 DEF authorizerOf
    <2>4. "executor" \in batchOf(s).actors
        BY <1>6 DEF IsBatch
    <2> QED
        BY <1>2, <1>3, <1>6, <2>1, <2>2, <2>3, <2>4 DEF PartiesGate
<1>21. NoSelfPaymentGate(c) /\ AmountsGate(c)
    <2>1. 100 # Missing /\ 42 # Missing
        BY MissingAssumption
    <2> QED
        BY <1>2, <2>1 DEF NoSelfPaymentGate, AmountsGate
<1>22. PaymentLegGate(c, s)
    BY <1>2, <1>6, <1>13 DEF PaymentLegGate, IsBatch
<1>23. ReturnedGate(c, s, x)
    <2>1. /\ isCreated(x, c.returned_contract_id)
          /\ IsHolding(findCreated(x, c.returned_contract_id), 1, "splice-test-token-v2",
                       <<"returned", r>>, "alice", 100, "TestToken")
        <3>1. PICK e \in Created(x) : IsHolding(e, 1, "splice-test-token-v2", <<"returned", r>>, "alice", 100, "TestToken")
            BY ExpiryTold
        <3>2. \E o \in Created(x) : o.contractId = c.returned_contract_id
            BY <1>3, <3>1 DEF IsHolding
        <3>3. findCreated(x, c.returned_contract_id) \in Created(x)
            BY <3>2 DEF findCreated
        <3> QED
            BY <3>2, <3>3, ExpiryTold DEF isCreated
    <2>2. "alice" # Missing
        BY MissingAssumption
    <2> QED
        BY <1>2, <1>3, <1>20, <2>1, <2>2 DEF ReturnedGate, IsHolding, OnLedger
<1>24. ThreePartsGate(c)
    <2>1. lockId(r) # Missing
        BY BoundsAssumption, MissingAssumption DEF lockId
    <2>2. leg = <<lockId(r), "settle", "delivery">>
        BY DEF deliveryLegId
    <2>3. Len(leg) = 3 /\ SetOf(leg) = {lockId(r), "settle", "delivery"} /\ leg[1] = lockId(r)
        BY <2>2 DEF SetOf
    <2> QED
        BY <1>2, <1>14, <2>1, <2>3, MissingAssumption DEF ThreePartsGate
<1>25. FreshGate(c, now)
    <2>1. r # Missing
        BY BoundsAssumption, MissingAssumption
    <2> QED
        BY <1>3, <2>1 DEF FreshGate, isTimestamp
<1> QED
    BY <1>5, <1>9, <1>10, <1>15, <1>16, <1>17, <1>18, <1>19, <1>20, <1>21, <1>22, <1>23, <1>24, <1>25
       DEF record_dvp, UpdateGates, loadUpdateFile

-------------------------------------------------------------------------------
(* What the runs leave behind, however they end                                *)

TrueSettlement(s, r, b) == s.effectiveAt \in 0 .. MaxTime /\ IsSettlement(s, r, b, s.effectiveAt)
TrueExpiry(x, r, b) == x.effectiveAt \in 0 .. MaxTime /\ IsExpiry(x, r, b, x.effectiveAt)

TypesOK ==
    /\ clock \in 0 .. MaxTime /\ edits \in Nat /\ run \in 0 .. MaxRuns
    /\ built \in 0 .. MaxBuilds /\ deployed \in 0 .. MaxBuilds
    /\ stage \in {"idle", "settled", "locked", "rejected", "expired", "wroteClaims", "wroteSettlement"}
    /\ stage # "idle" => run \in Runs
    /\ DOMAIN dir = {"claims", "settlement", "expire"}
    /\ DOMAIN memory = {"s", "x", "deadline", "expires_at", "enact_rejected_at"}

\* The participant recorded nothing but true updates, and none of a run to come.
ParticipantOK ==
    /\ DOMAIN participant = Runs
    /\ \A r \in Runs :
        /\ DOMAIN participant[r] = {"s", "x"}
        /\ r > run => participant[r].s = NoFile /\ participant[r].x = NoFile
        /\ participant[r].s # NoFile => \E b \in 0 .. MaxBuilds : TrueSettlement(participant[r].s, r, b)
        /\ participant[r].x # NoFile => \E b \in 0 .. MaxBuilds : TrueExpiry(participant[r].x, r, b)

\* The current run remembers what the participant recorded of it, and in which order.
MemoryOK ==
    /\ stage # "idle" =>
           memory.s = participant[run].s /\ TrueSettlement(memory.s, run, deployed)
    /\ stage \notin {"idle", "settled"} =>
           memory.deadline \in Nat /\ memory.expires_at \in Nat /\ memory.deadline < memory.expires_at
    /\ stage \notin {"idle", "settled", "locked"} =>
           memory.enact_rejected_at \in 0 .. MaxTime /\ memory.deadline < memory.enact_rejected_at
               /\ memory.enact_rejected_at <= clock
    /\ stage \notin {"idle", "settled", "locked", "rejected"} =>
           /\ memory.x = participant[run].x /\ TrueExpiry(memory.x, run, deployed)
           /\ memory.expires_at <= memory.x.effectiveAt /\ memory.enact_rejected_at <= memory.x.effectiveAt

\* The runs the participant records nothing more of.
Finished == {r \in 1 .. run : stage \in {"settled", "locked", "rejected"} => r # run}

Truthful(c, p, now) ==
    /\ \E b \in 0 .. MaxBuilds : TrueSettlement(p.s, c.run_nonce, b) /\ TrueExpiry(p.x, c.run_nonce, b)
    /\ Claimed(c, p.s, c.run_nonce, p.s.effectiveAt, p.x.effectiveAt, c.recorded_at)
    /\ c.recorded_at \in 0 .. now

\* Each file was left by a run that had come to its writes.
DirOK ==
    edits = 0 =>
        /\ dir.claims # NoFile =>
               /\ dir.claims.run_nonce \in Finished
               /\ Truthful(dir.claims, participant[dir.claims.run_nonce], clock)
        /\ dir.settlement # NoFile =>
               \E r \in Finished : dir.settlement = participant[r].s /\ dir.settlement.updateId = <<"settle", r>>
        /\ dir.expire # NoFile =>
               \E r \in Finished : dir.expire = participant[r].x /\ dir.expire.updateId = <<"expire", r>>

ListsOK ==
    /\ dir.claims # NoFile => "transfer_leg_ids" \in DOMAIN dir.claims /\ IsList(dir.claims.transfer_leg_ids)
    /\ Recorded => IsList(evidence.claims.transfer_leg_ids)

EvidenceOK ==
    Recorded /\ edits = 0 =>
        /\ evidence.claims.run_nonce \in Finished
        /\ evidence.settlement = participant[evidence.claims.run_nonce].s /\ evidence.settlement # NoFile
        /\ evidence.expire = participant[evidence.claims.run_nonce].x /\ evidence.expire # NoFile

\* The documents the evidence keeps have passed the gates when it was made.
PassedTheGates ==
    Recorded => /\ record_dvp(evidence.claims, evidence.settlement, evidence.expire,
                              evidence.artifacts, evidence.checked_at)
                /\ DOMAIN evidence.artifacts = FirstParty
                /\ evidence.checked_at \in Nat

IInv == TypesOK /\ ParticipantOK /\ MemoryOK /\ DirOK /\ ListsOK /\ EvidenceOK /\ PassedTheGates

\* Nothing has run yet.
LEMMA InitOK == Init => IInv
<1> SUFFICES ASSUME Init PROVE IInv
    OBVIOUS
<1>1. TypesOK /\ ParticipantOK
    BY BoundsAssumption DEF Init, TypesOK, ParticipantOK, Nothing, Runs
<1>2. MemoryOK /\ DirOK /\ ListsOK /\ EvidenceOK /\ PassedTheGates
    BY DEF Init, MemoryOK, DirOK, ListsOK, EvidenceOK, PassedTheGates, Recorded
<1> QED
    BY <1>1, <1>2 DEF IInv

\* A step that leaves the files alone, and the updates of the runs that are over.
LEMMA FilesKept ==
    ASSUME IInv, UNCHANGED <<dir, edits, evidence>>, clock' \in Nat, clock <= clock',
           \A r \in Finished : r \in Finished' /\ participant'[r] = participant[r]
    PROVE  DirOK' /\ ListsOK' /\ EvidenceOK' /\ PassedTheGates'
<1>1. ListsOK' /\ PassedTheGates'
    BY DEF IInv, ListsOK, PassedTheGates, Recorded
<1>2. EvidenceOK'
    BY DEF IInv, EvidenceOK, Recorded
<1>3. DirOK'
    <2> SUFFICES ASSUME edits = 0 PROVE DirOK'
        BY DEF DirOK
    <2>1. ASSUME dir.claims # NoFile
          PROVE  /\ dir.claims.run_nonce \in Finished'
                 /\ Truthful(dir.claims, participant'[dir.claims.run_nonce], clock')
        <3> DEFINE c == dir.claims
                   p == participant[c.run_nonce]
        <3>1. c.run_nonce \in Finished /\ Truthful(c, p, clock)
            BY <2>1 DEF IInv, DirOK
        <3>2. c.recorded_at \in 0 .. clock'
            BY <3>1 DEF Truthful, IInv, TypesOK
        <3>3. Truthful(c, p, clock')
            BY <3>1, <3>2 DEF Truthful
        <3> QED
            BY <3>1, <3>3
    <2>2. ASSUME dir.settlement # NoFile
          PROVE  \E r \in Finished' : dir.settlement = participant'[r].s /\ dir.settlement.updateId = <<"settle", r>>
        BY <2>2 DEF IInv, DirOK
    <2>3. ASSUME dir.expire # NoFile
          PROVE  \E r \in Finished' : dir.expire = participant'[r].x /\ dir.expire.updateId = <<"expire", r>>
        BY <2>3 DEF IInv, DirOK
    <2> QED
        BY <2>1, <2>2, <2>3 DEF DirOK
<1> QED
    BY <1>1, <1>2, <1>3

\* A run starts with the settlement.
LEMMA SettleStep ==
    ASSUME IInv, Settle
    PROVE  IInv'
<1> DEFINE s == settlementUpdate(run + 1, deployed, clock)
<1>1. /\ stage = "idle" /\ run < MaxRuns /\ run' = run + 1 /\ stage' = "settled"
      /\ participant' = [participant EXCEPT ![run + 1].s = s] /\ memory' = [Nothing EXCEPT !.s = s]
      /\ UNCHANGED <<clock, built, deployed, dir, edits, evidence>>
    BY DEF Settle
<1>2. TrueSettlement(s, run + 1, deployed)
    <2>1. IsSettlement(s, run + 1, deployed, clock)
        BY SettlementEvents
    <2>2. s.effectiveAt = clock
        BY <2>1 DEF IsSettlement
    <2> QED
        BY <2>1, <2>2 DEF TrueSettlement, IInv, TypesOK
<1> HIDE DEF s
<1>3. run + 1 \in Runs /\ run' \in 0 .. MaxRuns
    BY <1>1, BoundsAssumption DEF IInv, TypesOK, Runs
<1>4. memory'.s = s /\ DOMAIN memory' = {"s", "x", "deadline", "expires_at", "enact_rejected_at"}
    BY <1>1 DEF Nothing
<1>5. /\ DOMAIN participant' = Runs /\ participant'[run + 1].s = s
      /\ participant'[run + 1].x = participant[run + 1].x /\ DOMAIN participant'[run + 1] = {"s", "x"}
      /\ \A r \in Runs : r # run + 1 => participant'[r] = participant[r]
    BY <1>1, <1>3 DEF IInv, ParticipantOK
<1>6. TypesOK'
    BY <1>1, <1>3, <1>4 DEF IInv, TypesOK
<1>7. ParticipantOK'
    <2>1. participant'[run + 1].x = NoFile
        BY <1>3, <1>5 DEF IInv, ParticipantOK, TypesOK
    <2>2. ASSUME NEW r \in Runs
          PROVE  /\ DOMAIN participant'[r] = {"s", "x"}
                 /\ r > run' => participant'[r].s = NoFile /\ participant'[r].x = NoFile
                 /\ participant'[r].s # NoFile => \E b \in 0 .. MaxBuilds : TrueSettlement(participant'[r].s, r, b)
                 /\ participant'[r].x # NoFile => \E b \in 0 .. MaxBuilds : TrueExpiry(participant'[r].x, r, b)
        <3>1. CASE r = run + 1
            BY <1>1, <1>2, <1>5, <2>1, <3>1 DEF IInv, TypesOK
        <3>2. CASE r # run + 1
            <4>1. r > run' => r > run
                BY <1>1 DEF IInv, TypesOK, Runs
            <4> QED
                BY <1>5, <3>2, <4>1 DEF IInv, ParticipantOK
        <3> QED
            BY <3>1, <3>2
    <2> QED
        BY <1>5, <2>2 DEF ParticipantOK
<1>8. MemoryOK'
    BY <1>1, <1>2, <1>4, <1>5 DEF MemoryOK
<1>9. \A r \in Finished : r \in Finished' /\ participant'[r] = participant[r]
    BY <1>1, <1>3, <1>5 DEF Finished, IInv, TypesOK, Runs
<1>10. DirOK' /\ ListsOK' /\ EvidenceOK' /\ PassedTheGates'
    BY <1>1, <1>9, FilesKept DEF IInv, TypesOK
<1> QED
    BY <1>6, <1>7, <1>8, <1>10 DEF IInv

\* The second lock is made with a deadline.
LEMMA LockAgainStep ==
    ASSUME IInv, LockAgain
    PROVE  IInv'
<1>1. /\ stage = "settled" /\ stage' = "locked"
      /\ memory' = [memory EXCEPT !.deadline = clock + DeadlineAfter, !.expires_at = clock + ExpiryAfter]
      /\ UNCHANGED <<clock, built, deployed, run, participant, dir, edits, evidence>>
    BY DEF LockAgain
<1>2. /\ DOMAIN memory' = DOMAIN memory /\ memory'.s = memory.s
      /\ memory'.deadline = clock + DeadlineAfter /\ memory'.expires_at = clock + ExpiryAfter
    BY <1>1 DEF IInv, TypesOK
<1>3. TypesOK' /\ ParticipantOK'
    BY <1>1, <1>2 DEF IInv, TypesOK, ParticipantOK
<1>4. MemoryOK'
    BY <1>1, <1>2, TimesAssumption DEF IInv, TypesOK, MemoryOK
<1>5. \A r \in Finished : r \in Finished' /\ participant'[r] = participant[r]
    BY <1>1 DEF Finished
<1>6. DirOK' /\ ListsOK' /\ EvidenceOK' /\ PassedTheGates'
    BY <1>1, <1>5, FilesKept DEF IInv, TypesOK
<1> QED
    BY <1>3, <1>4, <1>6 DEF IInv

\* Its enactment is refused after the deadline and before the expiry.
LEMMA AttemptEnactStep ==
    ASSUME IInv, AttemptEnact
    PROVE  IInv'
<1>1. /\ stage = "locked" /\ stage' = "rejected" /\ clock > memory.deadline
      /\ memory' = [memory EXCEPT !.enact_rejected_at = clock]
      /\ UNCHANGED <<clock, built, deployed, run, participant, dir, edits, evidence>>
    BY DEF AttemptEnact
<1>2. /\ DOMAIN memory' = DOMAIN memory /\ memory'.s = memory.s /\ memory'.deadline = memory.deadline
      /\ memory'.expires_at = memory.expires_at /\ memory'.enact_rejected_at = clock
    BY <1>1 DEF IInv, TypesOK
<1>3. TypesOK' /\ ParticipantOK'
    BY <1>1, <1>2 DEF IInv, TypesOK, ParticipantOK
<1>4. MemoryOK'
    BY <1>1, <1>2 DEF IInv, TypesOK, MemoryOK
<1>5. \A r \in Finished : r \in Finished' /\ participant'[r] = participant[r]
    BY <1>1 DEF Finished
<1>6. DirOK' /\ ListsOK' /\ EvidenceOK' /\ PassedTheGates'
    BY <1>1, <1>5, FilesKept DEF IInv, TypesOK
<1> QED
    BY <1>3, <1>4, <1>6 DEF IInv

\* It expires: the participant records the second update of the run.
LEMMA ExpireLockStep ==
    ASSUME IInv, ExpireLock
    PROVE  IInv'
<1> DEFINE x == expireUpdate(run, deployed, clock)
<1>1. /\ stage = "rejected" /\ stage' = "expired" /\ clock >= memory.expires_at
      /\ participant' = [participant EXCEPT ![run].x = x] /\ memory' = [memory EXCEPT !.x = x]
      /\ UNCHANGED <<clock, built, deployed, run, dir, edits, evidence>>
    BY DEF ExpireLock
<1>2. TrueExpiry(x, run, deployed) /\ x.effectiveAt = clock
    <2>1. IsExpiry(x, run, deployed, clock)
        BY ExpiryEvents
    <2>2. x.effectiveAt = clock
        BY <2>1 DEF IsExpiry
    <2> QED
        BY <2>1, <2>2 DEF TrueExpiry, IInv, TypesOK
<1> HIDE DEF x
<1>3. run \in Runs
    BY <1>1 DEF IInv, TypesOK
<1>4. /\ DOMAIN memory' = DOMAIN memory /\ memory'.s = memory.s /\ memory'.deadline = memory.deadline
      /\ memory'.expires_at = memory.expires_at /\ memory'.x = x
      /\ memory'.enact_rejected_at = memory.enact_rejected_at
    BY <1>1 DEF IInv, TypesOK
<1>5. /\ DOMAIN participant' = Runs /\ participant'[run].x = x
      /\ participant'[run].s = participant[run].s /\ DOMAIN participant'[run] = {"s", "x"}
      /\ \A r \in Runs : r # run => participant'[r] = participant[r]
    BY <1>1, <1>3 DEF IInv, ParticipantOK
<1>6. TypesOK'
    BY <1>1, <1>4 DEF IInv, TypesOK
<1>7. ParticipantOK'
    <2>1. ASSUME NEW r \in Runs
          PROVE  /\ DOMAIN participant'[r] = {"s", "x"}
                 /\ r > run' => participant'[r].s = NoFile /\ participant'[r].x = NoFile
                 /\ participant'[r].s # NoFile => \E b \in 0 .. MaxBuilds : TrueSettlement(participant'[r].s, r, b)
                 /\ participant'[r].x # NoFile => \E b \in 0 .. MaxBuilds : TrueExpiry(participant'[r].x, r, b)
        <3>1. CASE r = run
            BY <1>1, <1>2, <1>5, <3>1 DEF IInv, TypesOK, ParticipantOK
        <3>2. CASE r # run
            BY <1>1, <1>5, <3>2 DEF IInv, ParticipantOK
        <3> QED
            BY <3>1, <3>2
    <2> QED
        BY <1>5, <2>1 DEF ParticipantOK
<1>8. MemoryOK'
    BY <1>1, <1>2, <1>4, <1>5 DEF IInv, TypesOK, MemoryOK
<1>9. \A r \in Finished : r \in Finished' /\ participant'[r] = participant[r]
    BY <1>1, <1>5, BoundsAssumption DEF Finished, IInv, TypesOK, Runs
<1>10. DirOK' /\ ListsOK' /\ EvidenceOK' /\ PassedTheGates'
    BY <1>1, <1>9, FilesKept DEF IInv, TypesOK
<1> QED
    BY <1>6, <1>7, <1>8, <1>10 DEF IInv

\* Nothing happens to a run that is given up, nor while time passes and packages are built.
LEMMA AroundStep ==
    ASSUME IInv, Abandon \/ Rebuild \/ Bootstrap \/ Tick \/ UNCHANGED vars
    PROVE  IInv'
<1>1. /\ UNCHANGED <<run, participant, dir, edits, evidence>>
      /\ clock' \in 0 .. MaxTime /\ clock <= clock'
      /\ built' \in 0 .. MaxBuilds /\ deployed' \in 0 .. MaxBuilds
      /\ (stage' = "idle" /\ memory' \in {memory, Nothing}) \/ UNCHANGED <<stage, memory, deployed>>
    BY BoundsAssumption DEF IInv, TypesOK, Abandon, Rebuild, Bootstrap, Tick, vars, harness
<1>2. TypesOK' /\ ParticipantOK'
    BY <1>1 DEF IInv, TypesOK, ParticipantOK, Nothing
<1>3. MemoryOK'
    BY <1>1 DEF IInv, TypesOK, MemoryOK
<1>4. \A r \in Finished : r \in Finished' /\ participant'[r] = participant[r]
    BY <1>1 DEF Finished
<1>5. DirOK' /\ ListsOK' /\ EvidenceOK' /\ PassedTheGates'
    BY <1>1, <1>4, FilesKept DEF IInv, TypesOK
<1> QED
    BY <1>2, <1>3, <1>5 DEF IInv

\* The claims written tell of the two updates the run remembers.
LEMMA WriteClaimsStep ==
    ASSUME IInv, WriteClaims
    PROVE  IInv'
<1> DEFINE c == harnessClaims(run, memory, clock)
           s == memory.s
           x == memory.x
<1>1. /\ stage = "expired" /\ stage' = "wroteClaims" /\ dir' = [dir EXCEPT !.claims = c]
      /\ UNCHANGED <<clock, built, deployed, run, memory, participant, edits, evidence>>
    BY DEF WriteClaims
<1>2. /\ s = participant[run].s /\ x = participant[run].x
      /\ TrueSettlement(s, run, deployed) /\ TrueExpiry(x, run, deployed)
      /\ memory.deadline \in Nat /\ memory.expires_at \in Nat
      /\ memory.deadline < memory.expires_at
      /\ memory.enact_rejected_at \in 0 .. MaxTime /\ memory.deadline < memory.enact_rejected_at
      /\ memory.expires_at <= x.effectiveAt /\ memory.enact_rejected_at <= x.effectiveAt
    BY <1>1 DEF IInv, MemoryOK
<1>3. {memory.deadline, memory.expires_at, memory.enact_rejected_at} \subseteq 0 .. MaxTime
    BY <1>2, BoundsAssumption DEF TrueExpiry
<1>4. Claimed(c, s, run, s.effectiveAt, x.effectiveAt, clock) /\ "transfer_leg_ids" \in DOMAIN c
    <2>1. IsSettlement(memory.s, run, deployed, s.effectiveAt) /\ IsExpiry(memory.x, run, deployed, x.effectiveAt)
        BY <1>2 DEF TrueSettlement, TrueExpiry
    <2>2. \A r, b, t, u, m, rec :
              /\ IsSettlement(m.s, r, b, t) /\ IsExpiry(m.x, r, b, u)
              /\ {m.deadline, m.expires_at, m.enact_rejected_at} \subseteq 0 .. MaxTime
              /\ m.deadline < m.expires_at /\ m.deadline < m.enact_rejected_at
              /\ m.expires_at <= u /\ m.enact_rejected_at <= u
              => /\ Claimed(harnessClaims(r, m, rec), m.s, r, t, u, rec)
                 /\ "transfer_leg_ids" \in DOMAIN harnessClaims(r, m, rec)
        BY ClaimsWritten
    <2> QED
        BY <1>2, <1>3, <2>1, <2>2
<1> HIDE DEF c, s, x
<1>5. c.run_nonce = run /\ c.recorded_at = clock /\ c.transfer_leg_ids = <<deliveryLegId(run)>>
    BY <1>4 DEF Claimed
<1>6. /\ dir'.claims = c /\ dir'.settlement = dir.settlement /\ dir'.expire = dir.expire
      /\ DOMAIN dir' = DOMAIN dir
    BY <1>1 DEF IInv, TypesOK
<1>7. IsList(c.transfer_leg_ids)
    <2>1. Len(<<deliveryLegId(run)>>) = 1 /\ <<deliveryLegId(run)>> = [i \in 1 .. 1 |-> <<deliveryLegId(run)>>[i]]
        OBVIOUS
    <2> QED
        BY <1>5, <2>1 DEF IsList
<1>8. TypesOK' /\ ParticipantOK' /\ MemoryOK' /\ ListsOK' /\ EvidenceOK' /\ PassedTheGates'
    <2>1. TypesOK' /\ ParticipantOK' /\ MemoryOK'
        BY <1>1, <1>6 DEF IInv, TypesOK, ParticipantOK, MemoryOK
    <2>2. ListsOK' /\ PassedTheGates'
        BY <1>1, <1>4, <1>6, <1>7 DEF IInv, ListsOK, PassedTheGates, Recorded
    <2>3. EvidenceOK'
        BY <1>1 DEF IInv, EvidenceOK, Recorded, Finished
    <2> QED
        BY <2>1, <2>2, <2>3
<1>9. Finished \subseteq Finished' /\ run \in Finished'
    BY <1>1 DEF Finished, IInv, TypesOK, Runs
<1>10. DirOK'
    <2>1. Truthful(c, participant[run], clock)
        <3>1. TrueSettlement(participant[run].s, c.run_nonce, deployed)
                 /\ TrueExpiry(participant[run].x, c.run_nonce, deployed)
            BY <1>2, <1>5
        <3>2. Claimed(c, participant[run].s, c.run_nonce, participant[run].s.effectiveAt,
                      participant[run].x.effectiveAt, c.recorded_at)
            BY <1>2, <1>4, <1>5
        <3>3. deployed \in 0 .. MaxBuilds /\ c.recorded_at \in 0 .. clock
            BY <1>5 DEF IInv, TypesOK
        <3> QED
            BY <3>1, <3>2, <3>3 DEF Truthful
    <2>2. c.run_nonce \in Finished' /\ Truthful(c, participant'[c.run_nonce], clock')
        BY <1>1, <1>5, <1>9, <2>1
    <2>3. edits' = 0 =>
              /\ dir'.settlement # NoFile =>
                     \E r \in Finished' : dir'.settlement = participant'[r].s /\ dir'.settlement.updateId = <<"settle", r>>
              /\ dir'.expire # NoFile =>
                     \E r \in Finished' : dir'.expire = participant'[r].x /\ dir'.expire.updateId = <<"expire", r>>
        BY <1>1, <1>6, <1>9 DEF IInv, DirOK
    <2> QED
        BY <1>6, <2>2, <2>3 DEF DirOK
<1> QED
    BY <1>8, <1>10 DEF IInv

\* The second reads are written one after the other, the claims being there already.
LEMMA WriteUpdatesStep ==
    ASSUME IInv, WriteSettlementUpdate \/ WriteExpireUpdate
    PROVE  IInv'
<1>1. /\ stage \in {"wroteClaims", "wroteSettlement"} /\ stage' \in {"wroteSettlement", "idle"}
      /\ UNCHANGED <<clock, built, deployed, run, participant, edits, evidence>>
      /\ stage' # "idle" => memory' = memory
      /\ memory' \in {memory, Nothing}
    BY DEF WriteSettlementUpdate, WriteExpireUpdate
<1>2. /\ memory.s = participant[run].s /\ memory.x = participant[run].x
      /\ memory.s.updateId = <<"settle", run>> /\ memory.x.updateId = <<"expire", run>>
    BY <1>1 DEF IInv, MemoryOK, TrueSettlement, TrueExpiry, IsSettlement, IsExpiry
<1>3. /\ DOMAIN dir' = DOMAIN dir /\ dir'.claims = dir.claims
      /\ dir'.settlement \in {dir.settlement, memory.s} /\ dir'.expire \in {dir.expire, memory.x}
    BY DEF IInv, TypesOK, WriteSettlementUpdate, WriteExpireUpdate
<1>4. Finished' = Finished /\ run \in Finished
    BY <1>1 DEF Finished, IInv, TypesOK, Runs
<1>5. TypesOK' /\ ParticipantOK' /\ MemoryOK'
    <2>1. TypesOK' /\ ParticipantOK'
        BY <1>1, <1>3 DEF IInv, TypesOK, ParticipantOK, Nothing
    <2>2. MemoryOK'
        BY <1>1 DEF IInv, MemoryOK
    <2> QED
        BY <2>1, <2>2
<1>6. ListsOK' /\ PassedTheGates' /\ EvidenceOK'
    BY <1>1, <1>3, <1>4 DEF IInv, ListsOK, PassedTheGates, Recorded, EvidenceOK
<1>7. DirOK'
    <2>1. edits' = 0 =>
              /\ dir'.claims # NoFile =>
                     /\ dir'.claims.run_nonce \in Finished'
                     /\ Truthful(dir'.claims, participant'[dir'.claims.run_nonce], clock')
              /\ dir'.settlement # NoFile =>
                     \E r \in Finished' : dir'.settlement = participant'[r].s /\ dir'.settlement.updateId = <<"settle", r>>
              /\ dir'.expire # NoFile =>
                     \E r \in Finished' : dir'.expire = participant'[r].x /\ dir'.expire.updateId = <<"expire", r>>
        BY <1>1, <1>2, <1>3, <1>4 DEF IInv, DirOK
    <2> QED
        BY <2>1 DEF DirOK
<1> QED
    BY <1>5, <1>6, <1>7 DEF IInv

\* Once a file was edited nothing is known of the directory, but lists are still lists.
LEMMA EditStep ==
    ASSUME IInv, EditClaims \/ EditUpdate \/ CopyUpdate
    PROVE  IInv'
<1>1. edits' = edits + 1 /\ UNCHANGED <<clock, built, deployed, harness, evidence>>
    BY DEF EditClaims, EditUpdate, CopyUpdate, editable
<1>2. edits' \in Nat /\ edits' # 0
    BY <1>1 DEF IInv, TypesOK
<1>3. DOMAIN dir' = DOMAIN dir
    BY DEF EditClaims, EditUpdate, CopyUpdate
<1>4. TypesOK' /\ ParticipantOK' /\ MemoryOK'
    BY <1>1, <1>2, <1>3 DEF IInv, TypesOK, ParticipantOK, MemoryOK, harness
<1>5. DirOK' /\ EvidenceOK' /\ PassedTheGates'
    BY <1>1, <1>2 DEF IInv, DirOK, EvidenceOK, PassedTheGates, Recorded
<1>6. dir'.claims # NoFile =>
          "transfer_leg_ids" \in DOMAIN dir'.claims /\ IsList(dir'.claims.transfer_leg_ids)
    <2>1. CASE EditClaims
        <3>0. PICK f \in DOMAIN Forged : \E v \in Forged[f] : dir' = [dir EXCEPT !.claims[f] = v]
            BY <2>1 DEF EditClaims
        <3>1. PICK v \in Forged[f] : dir' = [dir EXCEPT !.claims[f] = v]
            BY <3>0
        <3>2. dir'.claims = [dir.claims EXCEPT ![f] = v]
            BY <3>1 DEF IInv, TypesOK
        <3>3. "transfer_leg_ids" \in DOMAIN dir.claims /\ IsList(dir.claims.transfer_leg_ids)
            BY <2>1 DEF EditClaims, IInv, ListsOK
        <3>4. f = "transfer_leg_ids" => IsList(v)
            BY ForgedAssumption
        <3>5. /\ "transfer_leg_ids" \in DOMAIN dir'.claims
              /\ dir'.claims.transfer_leg_ids = IF f = "transfer_leg_ids" THEN v ELSE dir.claims.transfer_leg_ids
            BY <3>2, <3>3
        <3> QED
            BY <3>3, <3>4, <3>5
    <2>2. CASE EditUpdate \/ CopyUpdate
        <3>1. dir'.claims = dir.claims
            BY <2>2 DEF IInv, TypesOK, EditUpdate, CopyUpdate
        <3> QED
            BY <3>1 DEF IInv, ListsOK
    <2> QED
        BY <2>1, <2>2
<1>7. ListsOK'
    BY <1>1, <1>6 DEF IInv, ListsOK, Recorded
<1> QED
    BY <1>4, <1>5, <1>7 DEF IInv

\* Gates let in what names one update; untouched, that update is the run's.
LEMMA RecordStep ==
    ASSUME IInv, RecordDvp
    PROVE  IInv'
<1> DEFINE made == [claims |-> dir.claims, settlement |-> dir.settlement, expire |-> dir.expire,
                    artifacts |-> artifactsOf(built), checked_at |-> clock]
<1>1. /\ evidence' = made /\ dir.claims # NoFile
      /\ record_dvp(dir.claims, dir.settlement, dir.expire, artifactsOf(built), clock)
      /\ UNCHANGED <<clock, built, deployed, harness, dir, edits>>
    BY DEF RecordDvp
<1>2. /\ made.claims = dir.claims /\ made.settlement = dir.settlement /\ made.expire = dir.expire
      /\ made.artifacts = artifactsOf(built) /\ made.checked_at = clock
    OBVIOUS
<1> HIDE DEF made
<1>3. DOMAIN artifactsOf(built) = FirstParty
    BY DEF artifactsOf
<1>4. TypesOK' /\ ParticipantOK' /\ MemoryOK'
    BY <1>1 DEF IInv, TypesOK, ParticipantOK, MemoryOK, harness
<1>5. PassedTheGates' /\ ListsOK'
    BY <1>1, <1>2, <1>3 DEF IInv, TypesOK, PassedTheGates, ListsOK
<1>6. DirOK' /\ Finished' = Finished
    <2>1. Finished' = Finished
        BY <1>1 DEF Finished, harness
    <2> QED
        BY <1>1, <2>1 DEF IInv, DirOK, harness
<1>7. EvidenceOK'
    <2> SUFFICES ASSUME edits = 0
                 PROVE  /\ dir.claims.run_nonce \in Finished
                        /\ dir.settlement = participant[dir.claims.run_nonce].s /\ dir.settlement # NoFile
                        /\ dir.expire = participant[dir.claims.run_nonce].x /\ dir.expire # NoFile
        BY <1>1, <1>2, <1>6 DEF EvidenceOK, harness
    <2> DEFINE r == dir.claims.run_nonce
    <2>1. /\ dir.settlement # NoFile /\ dir.expire # NoFile
          /\ dir.settlement.updateId = dir.claims.update_id /\ dir.expire.updateId = dir.claims.expire_update_id
        BY <1>1 DEF record_dvp, UpdateGates, UpdatesMatchGate, loadUpdateFile
    <2>2. r \in Finished /\ dir.claims.update_id = <<"settle", r>> /\ dir.claims.expire_update_id = <<"expire", r>>
        BY <1>1 DEF IInv, DirOK, Truthful, Claimed
    <2>3. PICK q \in Finished : dir.settlement = participant[q].s /\ dir.settlement.updateId = <<"settle", q>>
        BY <2>1 DEF IInv, DirOK
    <2>4. PICK p \in Finished : dir.expire = participant[p].x /\ dir.expire.updateId = <<"expire", p>>
        BY <2>1 DEF IInv, DirOK
    <2>5. <<"settle", q>> = <<"settle", r>> /\ <<"expire", p>> = <<"expire", r>>
        BY <2>1, <2>2, <2>3, <2>4
    <2>6. q = r /\ p = r
        BY <2>5
    <2> QED
        BY <2>1, <2>2, <2>3, <2>4, <2>6
<1> QED
    BY <1>4, <1>5, <1>6, <1>7 DEF IInv

\* The invariant holds throughout, whatever runs, crashes, rebuilds and edits.
THEOREM Invariance == Spec => []IInv
<1>1. IInv /\ [Next]_vars => IInv'
    BY SettleStep, LockAgainStep, AttemptEnactStep, ExpireLockStep, WriteClaimsStep, WriteUpdatesStep,
       AroundStep, EditStep, RecordStep DEF Next
<1> QED
    BY <1>1, InitOK, PTL DEF Spec
-------------------------------------------------------------------------------
(* What the evidence shows                                                     *)

(* Forged claims and edited updates included, evidence shows two different    *)
(* parties, the delivery going from the payee to the payer (gates 19 to 21).  *)
THEOREM EvidenceShowsDvp == Spec => []DeliveryVersusPayment
<1>1. IInv => DeliveryVersusPayment
    <2> SUFFICES ASSUME IInv, Recorded
                 PROVE  LET s == evidence.settlement
                            leg == batchOf(s).legs[1]
                            delivered == evidence.claims.transfer_leg_ids[1]
                        IN /\ leg.sender # leg.receiver
                           /\ legSideOwner(s, delivered, "SenderSide") = leg.receiver
                           /\ legSideOwner(s, delivered, "ReceiverSide") = leg.sender
        BY DEF DeliveryVersusPayment
    <2> DEFINE c == evidence.claims
               s == evidence.settlement
    <2>1. PartiesGate(c, s) /\ NoSelfPaymentGate(c) /\ PaymentLegGate(c, s)
        BY DEF IInv, PassedTheGates, record_dvp, UpdateGates
    <2>2. batchOf(s).legs[1].sender = c.payment_sender /\ batchOf(s).legs[1].receiver = c.payment_receiver
        BY <2>1 DEF PaymentLegGate
    <2>3. /\ legSideOwner(s, c.transfer_leg_ids[1], "SenderSide") = c.payment_receiver
          /\ legSideOwner(s, c.transfer_leg_ids[1], "ReceiverSide") = c.payment_sender
        BY <2>1 DEF PartiesGate, authorizerOf, deliveryLeg
    <2>4. c.payment_sender # c.payment_receiver
        BY <2>1 DEF NoSelfPaymentGate
    <2> QED
        BY <2>2, <2>3, <2>4
<1> QED
    BY <1>1, Invariance, PTL

(* The holding that came back belongs to the party that delivered in the      *)
(* settlement and carries the amount delivered, whatever claim and update     *)
(* agree on (gate 23).                                                        *)
THEOREM EvidenceShowsTheRefund == Spec => []SellerRepaid
<1>1. IInv => SellerRepaid
    <2> SUFFICES ASSUME IInv, Recorded
                 PROVE  LET c == evidence.claims
                            h == findCreated(evidence.expire, c.returned_contract_id)
                        IN /\ h.owner = legSideOwner(evidence.settlement, c.transfer_leg_ids[1], "SenderSide")
                           /\ h.owner # c.delivery_receiver
                           /\ h.amount = c.delivery_amount
        BY DEF SellerRepaid
    <2> DEFINE c == evidence.claims
               s == evidence.settlement
               x == evidence.expire
    <2>1. ReturnedGate(c, s, x) /\ SameAmountGate(c)
        BY DEF IInv, PassedTheGates, record_dvp, UpdateGates, ClaimGates
    <2> QED
        BY <2>1 DEF ReturnedGate, SameAmountGate, authorizerOf, deliveryLeg
<1> QED
    BY <1>1, Invariance, PTL

(* The packages named are those of every event of both updates, and the       *)
(* evidence is made within a day of the run (gates 17b, 25 and 26).           *)
THEOREM EvidenceNamesThePackages == Spec => []PackagesAreTheRuns
<1>1. IInv => PackagesAreTheRuns
    <2> SUFFICES ASSUME IInv, Recorded
                 PROVE  /\ \A e \in evidence.settlement.events \cup evidence.expire.events :
                               e.package \in FirstParty => e.packageId = evidence.artifacts[e.package]
                        /\ evidence.checked_at - evidence.claims.recorded_at \in 0 .. StaleAfter
        BY DEF PackagesAreTheRuns
    <2> DEFINE c == evidence.claims
               s == evidence.settlement
               x == evidence.expire
    <2>1. /\ ObservedGate(c) /\ PackagesPinnedGate(c, s, x)
          /\ BuiltGate(c, evidence.artifacts) /\ FreshGate(c, evidence.checked_at)
        BY DEF IInv, PassedTheGates, record_dvp, UpdateGates, ClaimGates
    <2>2. \A p \in FirstParty : p \in DOMAIN c.packages_observed /\ c.packages_observed[p] = evidence.artifacts[p]
        BY <2>1 DEF ObservedGate, BuiltGate, RequiredPackages, IInv, PassedTheGates
    <2>3. \A e \in s.events \cup x.events :
              e.package \in DOMAIN c.packages_observed => e.packageId = c.packages_observed[e.package]
        BY <2>1 DEF PackagesPinnedGate, packagesPinned
    <2>4. evidence.checked_at - c.recorded_at \in 0 .. StaleAfter
        <3>1. c.recorded_at \in Nat /\ c.recorded_at <= evidence.checked_at
                 /\ evidence.checked_at - c.recorded_at <= StaleAfter
            BY <2>1, BoundsAssumption DEF FreshGate, isTimestamp
        <3> QED
            BY <3>1, BoundsAssumption DEF IInv, PassedTheGates
    <2> QED
        BY <2>2, <2>3, <2>4
<1> QED
    BY <1>1, Invariance, PTL

(* Without edits by hand the claims, the settlement and the expiry kept in    *)
(* the evidence come from one run, although a run may crash between the       *)
(* writes of its three files and leave them over an earlier run's.            *)
THEOREM EvidenceOfOneRun == Spec => []OneRunUnlessEdited
<1>1. IInv => OneRunUnlessEdited
    BY BoundsAssumption DEF IInv, TypesOK, EvidenceOK, OneRunUnlessEdited, settledIn, expiredIn, Finished, Runs
<1> QED
    BY <1>1, Invariance, PTL

(* Over updates the participant recorded, every claim in the evidence is what *)
(* they say, whatever was typed over the claims (gates 14 to 23).             *)
THEOREM EvidenceTellsTheUpdates == Spec => []ClaimsMatchUpdates
<1>1. IInv => ClaimsMatchUpdates
    <2> SUFFICES ASSUME IInv, Recorded, settledIn(evidence.settlement) # {}, expiredIn(evidence.expire) # {}
                 PROVE  LET c == evidence.claims
                            told == settlementClaims(evidence.settlement)
                            toldExpiry == expiryClaims(evidence.expire)
                        IN
                        /\ \A f \in DOMAIN told \ listed : c[f] = told[f]
                        /\ \A f \in listed : SetOf(c[f]) = SetOf(told[f])
                        /\ \A f \in DOMAIN toldExpiry : c[f] = toldExpiry[f]
        BY DEF ClaimsMatchUpdates
    <2> DEFINE c == evidence.claims
               s == evidence.settlement
               x == evidence.expire
    <2>1. PICK r \in Runs : participant[r].s = s /\ s # NoFile
        BY DEF settledIn
    <2>2. PICK q \in Runs : participant[q].x = x /\ x # NoFile
        BY DEF expiredIn
    <2>3. PICK b \in 0 .. MaxBuilds : TrueSettlement(s, r, b)
        BY <2>1 DEF IInv, ParticipantOK
    <2>4. PICK d \in 0 .. MaxBuilds : TrueExpiry(x, q, d)
        BY <2>2 DEF IInv, ParticipantOK
    <2>5. IsSettlement(s, r, b, s.effectiveAt) /\ IsExpiry(x, q, d, x.effectiveAt)
        BY <2>3, <2>4 DEF TrueSettlement, TrueExpiry
    <2>6. ClaimGates(c) /\ UpdateGates(c, s, x) /\ IsList(c.transfer_leg_ids)
        BY DEF IInv, PassedTheGates, ListsOK, record_dvp
    <2> HIDE DEF c, s, x
    <2>7. LET told == settlementClaims(s)
              toldExpiry == expiryClaims(x) IN
          /\ \A f \in DOMAIN told \ listed : c[f] = told[f]
          /\ \A f \in listed : SetOf(c[f]) = SetOf(told[f])
          /\ \A f \in DOMAIN toldExpiry : c[f] = toldExpiry[f]
        BY <2>5, <2>6, GatesCompareClaims
    <2> QED
        BY <2>7 DEF c, s, x
<1> QED
    BY <1>1, Invariance, PTL

(* For every deadline and expiry: the gates never refuse a true run.  Three   *)
(* untouched files of one run, whose enactment the ledger refused between the *)
(* deadline and the expiry, read within the day and with the packages it used *)
(* in place, pass all of them.                                                *)
THEOREM HonestRunsAreAccepted == Spec => []HonestRunAccepted
<1>1. IInv => HonestRunAccepted
    <2> SUFFICES ASSUME IInv, NEW r \in Runs, dir.claims # NoFile, edits = 0, dir.claims.run_nonce = r,
                        r \in settledIn(dir.settlement) \cap expiredIn(dir.expire),
                        clock - dir.claims.recorded_at <= StaleAfter,
                        packagesPinned(dir.settlement, artifactsOf(built))
                 PROVE  record_dvp(dir.claims, dir.settlement, dir.expire, artifactsOf(built), clock)
        BY DEF HonestRunAccepted
    <2> DEFINE c == dir.claims
               s == dir.settlement
               x == dir.expire
    <2>1. participant[r].s = s /\ s # NoFile /\ participant[r].x = x /\ x # NoFile
        BY DEF settledIn, expiredIn
    <2>2. Truthful(c, participant[r], clock)
        BY DEF IInv, DirOK
    <2>3. PICK b \in 0 .. MaxBuilds : TrueSettlement(s, r, b) /\ TrueExpiry(x, r, b)
        BY <2>1, <2>2 DEF Truthful
    <2>4. Claimed(c, s, r, s.effectiveAt, x.effectiveAt, c.recorded_at) /\ c.recorded_at \in 0 .. clock
        BY <2>1, <2>2 DEF Truthful
    <2>5. /\ s.effectiveAt \in 0 .. MaxTime /\ IsSettlement(s, r, b, s.effectiveAt)
          /\ x.effectiveAt \in 0 .. MaxTime /\ IsExpiry(x, r, b, x.effectiveAt)
        BY <2>3 DEF TrueSettlement, TrueExpiry
    <2>6. /\ r \in 1 .. MaxRuns /\ clock \in Nat /\ c.recorded_at \in 0 .. MaxTime
          /\ c.recorded_at <= clock /\ clock - c.recorded_at <= StaleAfter
        BY <2>4, BoundsAssumption DEF IInv, TypesOK, Runs
    <2>7. packagesPinned(s, artifactsOf(built))
        OBVIOUS
    <2> HIDE DEF c, s, x
    <2>8. record_dvp(c, s, x, artifactsOf(built), clock)
        BY <2>1, <2>4, <2>5, <2>6, <2>7, HonestPasses
    <2> QED
        BY <2>8 DEF c, s, x
<1> QED
    BY <1>1, Invariance, PTL
===============================================================================
