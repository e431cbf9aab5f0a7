------------------------------ MODULE TestToken ------------------------------
(***************************************************************************)
(* The reference registry: the contracts that one registry admin keeps on  *)
(* the ledger, and one action per choice of the conditional lock API.      *)
(*                                                                         *)
(* A transaction is atomic: a choice either commits with all its effects   *)
(* or leaves no trace.  Each choice is split in the way the code is:       *)
(*   <Choice>Checks   its own assertions, on its arguments and on the state*)
(*   <Choice>Commits  what the ledger and the templates still demand of the*)
(*                    body: authority for every create, the ensure clauses,*)
(*                    the match of the backing holding, no new approval in *)
(*                    a continuation                                       *)
(* and the action takes both.  That the second never fails after the first *)
(* is a property, not an assumption of the model.                          *)
(***************************************************************************)
EXTENDS Policy

CONSTANTS
    Admin,              \* the registry admin
    Factories,          \* the factories the admin has issued
    InitialTokens,      \* a bag: the unlocked tokens in circulation at the start
    InitialTime,
    ProposedTerms,      \* the terms that wallets propose, valid or not
    SuppliedLegs,       \* the leg lists that enactors and approvers supply
    Witnesses,
    ActorSets,          \* the sets of parties that submit together
    Horizon,            \* bound: ledger time stops here
    MaxGeneration       \* bound: no amendment of a lock replaced this often

Instruments == {terms.instrumentId : terms \in ProposedTerms}

Factory == [lockId : Text, rulesAdmin : Party]
Token   == [account : Accounts, instrumentId : InstrumentId, amount : 1 .. MaxDecimal]

\* A contract id stands for the gen-th backing holding of a lock.
HoldingCid    == [lockId : Text, gen : Nat]
LockedTerms   == {terms \in LockTerms : terms.amount > 0}
LockedHolding == [cid : HoldingCid, terms : LockedTerms, accepted : SUBSET Accounts]

State == [lockId : Text, terms : LockedTerms, accepted : SUBSET Accounts,
          holdingCid : HoldingCid, enactedRuleIds : SUBSET Text,
          approvals : SUBSET Approval]

TransferLegSide ==
    [transferLegId : Text, side : {"Sender", "Receiver"}, account : Accounts,
     otherside : Accounts, amount : Decimal, instrumentId : InstrumentId]

ASSUME TestTokenAssumption ==
    /\ Admin \in Party
    /\ Factories \subseteq Factory
    /\ \A f, g \in Factories : f.lockId = g.lockId => f = g
    /\ IsABag(InitialTokens) /\ DOMAIN InitialTokens \subseteq Token
    /\ IsFiniteSet(DOMAIN InitialTokens)
    /\ ProposedTerms \subseteq LockTerms
    /\ \A terms \in ProposedTerms : IsFiniteSet(terms.rules)      \* a list in the code
    /\ SuppliedLegs \subseteq Seq(Leg)
    /\ Witnesses \subseteq Witness
    /\ ActorSets \subseteq SUBSET Party /\ {} \notin ActorSets
    /\ InitialTime \in Time /\ Horizon \in Time
    /\ MaxGeneration \in Nat

VARIABLES
    now,            \* ledger time
    tokenRules,     \* the admins whose TokenRules contract is live
    factories,      \* live Factory contracts
    tokens,         \* a bag of live Token contracts
    holdings,       \* live LockedHolding contracts
    instructions,   \* the states of live Instruction contracts
    locks,          \* the states of live ActiveLock contracts
    reported,       \* the net holdings change reported for an account
    legSides        \* a bag: the transfer leg sides reported

contracts == <<factories, tokens, holdings, instructions, locks>>
eventLog  == <<reported, legSides>>
vars      == <<now, tokenRules, contracts, eventLog>>

-------------------------------------------------------------------------------
(* State of a lock. *)

\* Fault: the receivers that have accepted do not sign.
stateSignatories_NoReceivers(s) ==
    {s.terms.instrumentId.admin} \union accountParties(s.terms.authorizer)

stateSignatories(s) ==
    {s.terms.instrumentId.admin} \union accountParties(s.terms.authorizer)
    \union UNION {accountParties(a) : a \in s.accepted}

pending(s) == termReceivers(s.terms) \ s.accepted

consent(s) == accountParties(s.terms.authorizer) \union namedParties(s.terms)

mkState(lockId, terms, accepted, gen, enactedRuleIds, approvals) ==
    [lockId |-> lockId, terms |-> terms, accepted |-> accepted,
     holdingCid |-> [lockId |-> lockId, gen |-> gen],
     enactedRuleIds |-> enactedRuleIds, approvals |-> approvals]

backing(s) == [cid |-> s.holdingCid, terms |-> s.terms, accepted |-> s.accepted]

-------------------------------------------------------------------------------
(* The parts that choice bodies share. *)

\* start: the backing holding and, over it, an Instruction or an ActiveLock.
\* Both carry the signatories of the state.
startCommits(s, authority) ==
    /\ stateSignatories(s) \subseteq authority
    /\ s.terms.amount > 0
    /\ s.accepted \subseteq termReceivers(s.terms)

start(s) == IF pending(s) = {} THEN [locks |-> {s}, instructions |-> {}]
                               ELSE [locks |-> {}, instructions |-> {s}]

\* consumeBacking: the holding is live and matches the policy.
backingMatches(s) ==
    \E h \in holdings : h.cid = s.holdingCid /\ h.terms = s.terms /\ h.accepted = s.accepted

\* Fault: the backing is not archived.
withoutBacking_Kept(s) == holdings

withoutBacking(s) == {h \in holdings : h.cid # s.holdingCid}

\* consumeInputs: unlocked tokens of the account, each listed once.
fundedBy(inputs, terms) ==
    /\ IsABag(inputs) /\ inputs \sqsubseteq tokens
    /\ \A t \in DOMAIN inputs :
          t.account = terms.authorizer /\ t.instrumentId = terms.instrumentId

bagTotal(bag) == SumFunction([t \in DOMAIN bag |-> bag[t] * t.amount])

token(terms, account, amount) ==
    [account |-> account, instrumentId |-> terms.instrumentId, amount |-> amount]

\* Fault: equal payments to one account are made once.
issued_Once(terms, legs) ==
    [t \in {token(terms, leg.receiver, leg.amount) : leg \in ToSet(legs)} |-> 1]

\* issue, for every leg of an enactment.
issued(terms, legs) ==
    LET paid(i) == token(terms, legs[i].receiver, legs[i].amount)
    IN  [t \in {paid(i) : i \in DOMAIN legs} |-> Cardinality({i \in DOMAIN legs : paid(i) = t})]

issueToAuthorizer(terms, amount) == SetToBag({token(terms, terms.authorizer, amount)})

\* Fault: change is issued even when there is none.
issueChange_Always(terms, amount) == issueToAuthorizer(terms, amount)

issueChange(terms, amount) ==
    IF amount > 0 THEN issueToAuthorizer(terms, amount) ELSE EmptyBag

\* A Token is signed by the admin and by the parties of its account.
issueCommits(terms, account, authority) ==
    {terms.instrumentId.admin} \union accountParties(account) \subseteq authority

\* report: the net of the outputs over the inputs of a holdings change.
report(terms, change) ==
    reported' = [key \in DOMAIN reported |->
        IF key[2] = terms.instrumentId /\ key[1] \in DOMAIN change
        THEN reported[key] + change[key[1]] ELSE reported[key]]

reportOwn(terms, amount) == report(terms, [a \in {terms.authorizer} |-> amount])

-------------------------------------------------------------------------------
(* enact: pays the legs, continues the lock with what remains, reports both *)
(* sides of every leg to another account, and consumes the backing holding. *)

remaining(s, legs) == s.terms.amount - total(legs)

continuation(s, legs, rules, enactedRuleIds, approvals) ==
    LET terms == [s.terms EXCEPT !.amount = remaining(s, legs), !.rules = rules]
    IN  mkState(s.lockId, terms, s.accepted \intersect termReceivers(terms),
                s.holdingCid.gen + 1, enactedRuleIds, approvals)

toReceivers(s, legs) == {i \in DOMAIN legs : legs[i].receiver # s.terms.authorizer}

\* Fault: the rule is not part of the ID.
transferLegId_NoRule(s, ruleId, leg) == s.lockId \o <<"/">> \o leg.legId

transferLegId(s, ruleId, leg) == s.lockId \o <<"/">> \o ruleId \o <<"/">> \o leg.legId

enactSides(s, ruleId, legs) ==
    LET side(i, direction, account, other) ==
            [transferLegId |-> transferLegId(s, ruleId, legs[i]), side |-> direction,
             account |-> account, otherside |-> other,
             amount |-> legs[i].amount, instrumentId |-> s.terms.instrumentId]
        outgoing(i) == side(i, "Sender", s.terms.authorizer, legs[i].receiver)
        incoming(i) == side(i, "Receiver", legs[i].receiver, s.terms.authorizer)
        sides == {outgoing(i) : i \in toReceivers(s, legs)}
                 \union {incoming(i) : i \in toReceivers(s, legs)}
    IN  [e \in sides |-> Cardinality({i \in toReceivers(s, legs) : e \in {outgoing(i), incoming(i)}})]

\* Fault: only the first holding of an account is reported.
paidTo_First(legs, account) ==
    LET paid == SelectSeq(legs, LAMBDA leg : leg.receiver = account)
    IN  IF paid = <<>> THEN 0 ELSE paid[1].amount

paidTo(legs, account) ==
    SumFunctionOnSet([i \in DOMAIN legs |-> legs[i].amount],
                     {i \in DOMAIN legs : legs[i].receiver = account})

\* ruleId is <<>> for expiry and cancellation, which fire no rule.
enactCommits(s, ruleId, legs, next, authority) ==
    /\ backingMatches(s)
    /\ \A leg \in ToSet(legs) : issueCommits(s.terms, leg.receiver, authority)
    /\ remaining(s, legs) # 0 => startCommits(next, authority) /\ pending(next) = {}
    /\ toReceivers(s, legs) # {} => ruleId # <<>>

enact(s, ruleId, legs, next) ==
    /\ tokens' = tokens (+) issued(s.terms, legs)
    /\ IF remaining(s, legs) = 0
       THEN /\ locks' = locks \ {s}
            /\ holdings' = withoutBacking(s)
       ELSE /\ locks' = (locks \ {s}) \union {next}
            /\ holdings' = withoutBacking(s) \union {backing(next)}
    /\ report(s.terms,
         [a \in {leg.receiver : leg \in ToSet(legs)} \union {s.terms.authorizer} |->
            paidTo(legs, a) + IF a = s.terms.authorizer THEN remaining(s, legs) - s.terms.amount ELSE 0])
    /\ legSides' = legSides (+) enactSides(s, ruleId, legs)
    /\ UNCHANGED <<now, tokenRules, factories, instructions>>


-------------------------------------------------------------------------------
(* ConditionalLockFactory_Lock *)

lockChecks(f, terms, inputs, actors) ==
    /\ validateTerms(Admin, terms, now)
    /\ authorized(accountParties(terms.authorizer), actors)
    /\ f.rulesAdmin \in tokenRules
    /\ f.rulesAdmin = Admin
    /\ fundedBy(inputs, terms)
    /\ bagTotal(inputs) \in Decimal
    /\ bagTotal(inputs) >= terms.amount

\* Receivers whose parties are among the actors accept in the same transaction.
locked(f, terms, actors) ==
    mkState(f.lockId, terms,
            {a \in termReceivers(terms) : authorized(accountParties(a), actors)},
            1, {}, {})

lockCommits(f, terms, actors) ==
    LET authority == {Admin} \union actors
    IN  /\ issueCommits(terms, terms.authorizer, authority)
        /\ startCommits(locked(f, terms, actors), authority)

Lock(f, terms, inputs, actors) ==
    LET s      == locked(f, terms, actors)
        change == bagTotal(inputs) - terms.amount
    IN  /\ f \in factories
        /\ lockChecks(f, terms, inputs, actors)
        /\ lockCommits(f, terms, actors)
        /\ factories' = factories \ {f}
        /\ tokens' = (tokens (-) inputs) (+) issueChange(terms, change)
        /\ holdings' = holdings \union {backing(s)}
        /\ locks' = locks \union start(s).locks
        /\ instructions' = instructions \union start(s).instructions
        /\ reportOwn(terms, (IF change > 0 THEN change ELSE 0) + s.terms.amount - bagTotal(inputs))
        /\ UNCHANGED <<now, tokenRules, legSides>>

-------------------------------------------------------------------------------
(* ConditionalLockInstruction_Accept, _Reject and _Withdraw *)

\* Fault: the expiry itself still counts as before it.
beforeExpiry_Inclusive(s) == Answer(isLedgerTimeLE(s.terms.expiresAt), now)

beforeExpiry(s) == Answer(isLedgerTimeLT(s.terms.expiresAt), now)

acceptChecks(s, approver, actors) ==
    /\ beforeExpiry(s)
    /\ approver \in pending(s)
    /\ authorized(accountParties(approver), actors)

\* Approvals of rules start afresh: none can exist while the lock is pending.
acceptedBy(s, approver) ==
    mkState(s.lockId, s.terms, s.accepted \union {approver},
            s.holdingCid.gen + 1, s.enactedRuleIds, {})

acceptCommits(s, approver, actors) ==
    /\ backingMatches(s)
    /\ startCommits(acceptedBy(s, approver), stateSignatories(s) \union actors)

Accept(s, approver, actors) ==
    LET next == acceptedBy(s, approver)
    IN  /\ s \in instructions
        /\ acceptChecks(s, approver, actors)
        /\ acceptCommits(s, approver, actors)
        /\ holdings' = withoutBacking(s) \union {backing(next)}
        /\ locks' = locks \union start(next).locks
        /\ instructions' = (instructions \ {s}) \union start(next).instructions
        /\ reportOwn(s.terms, next.terms.amount - s.terms.amount)
        /\ UNCHANGED <<now, tokenRules, factories, tokens, legSides>>

\* withdraw: the whole amount returns to the authorizer.
withdrawCommits(s, actors) ==
    /\ backingMatches(s)
    /\ issueCommits(s.terms, s.terms.authorizer, stateSignatories(s) \union actors)

withdraw(s) ==
    /\ instructions' = instructions \ {s}
    /\ tokens' = tokens (+) issueToAuthorizer(s.terms, s.terms.amount)
    /\ holdings' = withoutBacking(s)
    /\ reportOwn(s.terms, s.terms.amount - s.terms.amount)
    /\ UNCHANGED <<now, tokenRules, factories, locks, legSides>>

rejectChecks(s, approver, actors) ==
    /\ approver \in pending(s)
    /\ authorized(accountParties(approver), actors)

Reject(s, approver, actors) ==
    /\ s \in instructions
    /\ rejectChecks(s, approver, actors)
    /\ withdrawCommits(s, actors)
    /\ withdraw(s)

\* Fault: an expired instruction cannot be withdrawn.
withdrawChecks_BeforeExpiry(s, actors) ==
    beforeExpiry(s) /\ authorized(accountParties(s.terms.authorizer), actors)

withdrawChecks(s, actors) == authorized(accountParties(s.terms.authorizer), actors)

Withdraw(s, actors) ==
    /\ s \in instructions
    /\ withdrawChecks(s, actors)
    /\ withdrawCommits(s, actors)
    /\ withdraw(s)

-------------------------------------------------------------------------------
(* ConditionalLock_Approve and _Enact *)

approved(s, rule, legs, actors) ==
    [s EXCEPT !.approvals = recordApproval(rule.id, legs, approversOf(rule, actors), @)]

approveChecks(s, rule, legs, actors) ==
    approve(s.terms, s.approvals, rule, legs, actors, now)

Approve(s, rule, legs, actors) ==
    /\ s \in locks
    /\ approveChecks(s, rule, legs, actors)
    /\ locks' = (locks \ {s}) \union {approved(s, rule, legs, actors)}
    /\ UNCHANGED <<now, tokenRules, factories, tokens, holdings, instructions, eventLog>>

enactChecks(s, rule, legs, witness, actors) ==
    LET acting == actingParties(rule.id, legs, actors, s.approvals)
    IN  /\ beforeExpiry(s)
        /\ rule \in s.terms.rules
        /\ ToSet(rule.enactors) \intersect acting # {}
        /\ validWitness(witness)
        /\ satisfied(acting, witness, rule.anyOf, now)
        /\ resolveOutcome(s.terms, rule.outcome, legs)

afterRule(s, rule, legs) ==
    continuation(s, resolvedLegs(s.terms, rule.outcome, legs),
                 {r \in s.terms.rules : r.id # rule.id},
                 s.enactedRuleIds \union {rule.id}, dropApprovals(rule.id, s.approvals))

Enact(s, rule, legs, witness, actors) ==
    LET paid == resolvedLegs(s.terms, rule.outcome, legs)
        next == afterRule(s, rule, legs)
    IN  /\ s \in locks
        /\ enactChecks(s, rule, legs, witness, actors)
        /\ enactCommits(s, rule.id, paid, next, stateSignatories(s) \union actors)
        /\ enact(s, rule.id, paid, next)

-------------------------------------------------------------------------------
(* ConditionalLock_Expire and _Cancel: one leg, the whole amount, returns. *)

refundLeg(s, legId) ==
    <<[legId |-> <<legId>>, receiver |-> s.terms.authorizer,
       amount |-> s.terms.amount, meta |-> {}]>>

afterRefund(s, legId) == continuation(s, refundLeg(s, legId), {}, s.enactedRuleIds, {})

refundCommits(s, legId, actors) ==
    enactCommits(s, <<>>, refundLeg(s, legId), afterRefund(s, legId),
                 stateSignatories(s) \union actors)

\* Fault: expiry asks for the consent that cancellation needs.
expireChecks_Unanimous(s, actors) ==
    Answer(isLedgerTimeGE(s.terms.expiresAt), now) /\ authorized(consent(s), actors)

expireChecks(s, actors) ==
    /\ Answer(isLedgerTimeGE(s.terms.expiresAt), now)
    /\ authorized(accountParties(s.terms.authorizer), actors)

Expire(s, actors) ==
    /\ s \in locks
    /\ expireChecks(s, actors)
    /\ refundCommits(s, "expire", actors)
    /\ enact(s, <<>>, refundLeg(s, "expire"), afterRefund(s, "expire"))

cancelChecks(s, actors) == authorized(consent(s), actors)

Cancel(s, actors) ==
    /\ s \in locks
    /\ cancelChecks(s, actors)
    /\ refundCommits(s, "cancel", actors)
    /\ enact(s, <<>>, refundLeg(s, "cancel"), afterRefund(s, "cancel"))

-------------------------------------------------------------------------------
(* ConditionalLock_Amend *)

\* The approvals that stand under the new terms: given before, or by the actors.
acceptedUnder(s, newTerms, actors) ==
    {a \in termReceivers(newTerms) : a \in s.accepted \/ authorized(accountParties(a), actors)}

\* Fault: only the rules of the current terms are looked at.
reusesNoRuleId_Current(s, newTerms) ==
    \A r \in newTerms.rules, q \in s.terms.rules : r.id = q.id => r.id \notin s.enactedRuleIds

reusesNoRuleId(s, newTerms) == \A rule \in newTerms.rules : rule.id \notin s.enactedRuleIds

amendChecks(s, newTerms, inputs, actors) ==
    /\ beforeExpiry(s)
    /\ authorized(consent(s), actors)
    /\ newTerms.authorizer = s.terms.authorizer
    /\ newTerms.instrumentId = s.terms.instrumentId
    /\ validateTerms(s.terms.instrumentId.admin, newTerms, now)
    /\ newTerms.amount >= s.terms.amount
    /\ reusesNoRuleId(s, newTerms)
    /\ fundedBy(inputs, s.terms)
    /\ s.terms.amount + bagTotal(inputs) \in Decimal
    /\ s.terms.amount + bagTotal(inputs) >= newTerms.amount
    /\ termReceivers(newTerms) \subseteq acceptedUnder(s, newTerms, actors)

amended(s, newTerms, actors) ==
    mkState(s.lockId, newTerms, acceptedUnder(s, newTerms, actors),
            s.holdingCid.gen + 1, s.enactedRuleIds, clearApprovals(s.approvals))

amendCommits(s, newTerms, actors) ==
    LET authority == stateSignatories(s) \union actors
    IN  /\ backingMatches(s)
        /\ issueCommits(newTerms, newTerms.authorizer, authority)
        /\ startCommits(amended(s, newTerms, actors), authority)

Amend(s, newTerms, inputs, actors) ==
    LET next   == amended(s, newTerms, actors)
        change == (s.terms.amount + bagTotal(inputs)) - newTerms.amount
    IN  /\ s \in locks
        /\ amendChecks(s, newTerms, inputs, actors)
        /\ amendCommits(s, newTerms, actors)
        /\ tokens' = (tokens (-) inputs) (+) issueChange(newTerms, change)
        /\ holdings' = withoutBacking(s) \union {backing(next)}
        /\ locks' = (locks \ {s}) \union start(next).locks
        /\ instructions' = instructions \union start(next).instructions
        /\ reportOwn(s.terms, (IF change > 0 THEN change ELSE 0) + newTerms.amount
                              - s.terms.amount - bagTotal(inputs))
        /\ UNCHANGED <<now, tokenRules, factories, legSides>>

-------------------------------------------------------------------------------
(* Outside the choices: ledger time passes, and an admin archives the rules *)
(* contract that factories refer to.                                       *)

Tick ==
    /\ now < Horizon
    /\ now' = now + 1
    /\ UNCHANGED <<tokenRules, contracts, eventLog>>

ArchiveTokenRules(admin) ==
    /\ admin \in tokenRules
    /\ tokenRules' = tokenRules \ {admin}
    /\ UNCHANGED <<now, contracts, eventLog>>

-------------------------------------------------------------------------------
Init ==
    /\ now = InitialTime
    /\ tokenRules = {f.rulesAdmin : f \in Factories}
    /\ factories = {f \in Factories : noSlash(f.lockId)}    \* Factory's ensure
    /\ tokens = InitialTokens
    /\ holdings = {}
    /\ instructions = {}
    /\ locks = {}
    /\ reported = [key \in Accounts \X Instruments |-> 0]
    /\ legSides = EmptyBag

OnFactories ==
    \E f \in factories, terms \in ProposedTerms, inputs \in SubBag(tokens), actors \in ActorSets :
        Lock(f, terms, inputs, actors)

OnInstructions ==
    \E s \in instructions, actors \in ActorSets :
        \/ \E approver \in pending(s) : Accept(s, approver, actors) \/ Reject(s, approver, actors)
        \/ Withdraw(s, actors)

UseRules ==
    \E s \in locks, actors \in ActorSets, legs \in SuppliedLegs : \E rule \in s.terms.rules :
        \/ Approve(s, rule, legs, actors)
        \/ \E witness \in Witnesses : Enact(s, rule, legs, witness, actors)

EndLocks == \E s \in locks, actors \in ActorSets : Expire(s, actors) \/ Cancel(s, actors)

ChangeTerms ==
    \E s \in locks, newTerms \in ProposedTerms, inputs \in SubBag(tokens), actors \in ActorSets :
        s.holdingCid.gen < MaxGeneration /\ Amend(s, newTerms, inputs, actors)

Environment == Tick \/ \E admin \in tokenRules : ArchiveTokenRules(admin)

Next == OnFactories \/ OnInstructions \/ UseRules \/ EndLocks \/ ChangeTerms \/ Environment

Spec == Init /\ [][Next]_vars

===============================================================================
