-------------------------------- MODULE Policy --------------------------------
(***************************************************************************)
(* The reference evaluator of conditional locks, over the types of the     *)
(* interface: the terms of a lock, their validation, guard evaluation,     *)
(* outcome resolution and approval bookkeeping.                            *)
(*                                                                         *)
(* Lists keep their order where the code depends on it: the alternatives   *)
(* and their guards, which short-circuit, and leg lists, which are compared*)
(* as lists.  The rules and the approvals of a lock are sets: the code     *)
(* only searches and filters them.                                         *)
(***************************************************************************)
EXTENDS LedgerTime, SequencesExt

CONSTANTS
    Party,
    NoParty,            \* an account without an owner or without a provider
    Fragment,           \* what identifiers are spelled with: "/" and slash-free pieces
    Accounts,           \* the accounts that terms may name
    MaxDecimal,         \* the largest Decimal, in units of the smallest one
    MetaKeys,           \* keys of a metadata map
    ReservedKeys,       \* the keys only the registry sets (section 3.7)
    HashAlgorithms,
    HexText,            \* the texts used as digests and preimages
    Hex32,              \* those that are 64 lowercase hexadecimal characters
    asciiToLower,       \* DA.Text.asciiToLower on HexText
    Digest,             \* Digest[a][p]: the hash of the bytes p spells
    NoDigest,           \* the result for a text that spells no 32 bytes
    Limits              \* the bounds the registry advertises and enforces

Text    == Seq(Fragment)
Decimal == (-MaxDecimal) .. MaxDecimal

Account      == [owner : Party \union {NoParty}, provider : Party \union {NoParty}, id : Text]
InstrumentId == [admin : Party, id : Text]

Guard ==
    [tag : {"Preimage"}, algorithm : HashAlgorithms, digest : HexText] \union
    [tag : {"After", "Before"}, time : Time] \union
    [tag : {"Parties"}, parties : Seq(Party), threshold : Int]

Alternative == [allOf : Seq(Guard)]
Witness     == [preimages : Seq(HexText)]

Leg == [legId : Text, receiver : Accounts, amount : Decimal, meta : SUBSET MetaKeys]

Outcome ==
    [tag : {"Unlock"}] \union
    [tag : {"Release"}, fixedLegs : Seq(Leg), receivers : Seq(Accounts)]

Rule == [id : Text, enactors : Seq(Party), anyOf : Seq(Alternative), outcome : Outcome]

LockTerms ==
    [authorizer : Accounts, instrumentId : InstrumentId, amount : Decimal,
     rules : SUBSET Rule, expiresAt : Time, requestedAt : Time, meta : SUBSET MetaKeys]

Approval == [ruleId : Text, legs : Seq(Leg), approvers : SUBSET Party]

ASSUME PolicyAssumption ==
    /\ NoParty \notin Party
    /\ {"/", "unlock", "expire", "cancel"} \subseteq Fragment
    /\ Accounts \subseteq Account
    /\ MaxDecimal \in Nat
    /\ ReservedKeys \subseteq MetaKeys
    /\ Hex32 \subseteq HexText
    /\ asciiToLower \in [HexText -> HexText]
    /\ Digest \in [HashAlgorithms -> [Hex32 -> Hex32]]
    /\ NoDigest \notin HexText
    /\ Limits \in [maxRules : Nat, maxLegs : Nat, maxAlternativesPerRule : Nat,
                   maxGuardsPerAlternative : Nat, maxPreimages : Nat,
                   maxNamedParties : Nat, minDuration : RelTime, maxDuration : RelTime]

-------------------------------------------------------------------------------
(* The parties of accounts, rules and terms. *)

accountParties(account) == {account.owner, account.provider} \ {NoParty}

outcomeReceivers(outcome) ==
    IF outcome.tag = "Unlock" THEN {}
    ELSE {leg.receiver : leg \in ToSet(outcome.fixedLegs)} \union ToSet(outcome.receivers)

termReceivers(terms) ==
    (UNION {outcomeReceivers(rule.outcome) : rule \in terms.rules}) \ {terms.authorizer}

guards(rule) == UNION {ToSet(a.allOf) : a \in ToSet(rule.anyOf)}

guardParties(guard) == IF guard.tag = "Parties" THEN ToSet(guard.parties) ELSE {}

ruleParties(rule) ==
    ToSet(rule.enactors) \union UNION {guardParties(guard) : guard \in guards(rule)}

namedParties(terms) ==
    ((UNION {accountParties(account) : account \in termReceivers(terms)})
     \union (UNION {ruleParties(rule) : rule \in terms.rules}))
    \ accountParties(terms.authorizer)

authorized(required, actors) == required \subseteq actors

-------------------------------------------------------------------------------
(* Guard evaluation. *)

noSlash(text) == text # <<>> /\ "/" \notin ToSet(text)

hashPreimage(algorithm, preimage) ==
    LET normalized == asciiToLower[preimage]
    IN  IF normalized \in Hex32 THEN Digest[algorithm][normalized] ELSE NoDigest

holds(guard, actors, witness, now) ==
    \/ /\ guard.tag = "Preimage"
       /\ \E p \in ToSet(witness.preimages) : hashPreimage(guard.algorithm, p) = guard.digest
    \/ guard.tag = "After" /\ Answer(isLedgerTimeGE(guard.time), now)
    \/ guard.tag = "Before" /\ Answer(isLedgerTimeLT(guard.time), now)
    \/ /\ guard.tag = "Parties"
       /\ Cardinality(ToSet(guard.parties) \intersect actors) >= guard.threshold

satisfied(actors, witness, anyOf, now) ==
    \E a \in ToSet(anyOf) : \A guard \in ToSet(a.allOf) : holds(guard, actors, witness, now)

-------------------------------------------------------------------------------
(* Terms validation.  Decimal addition raises beyond MaxDecimal, so a sum  *)
(* that leaves the range satisfies no check.                               *)

total(legs) == SumFunction([i \in DOMAIN legs |-> legs[i].amount])

validGuard(guard) ==
    /\ guard.tag = "Preimage" => guard.digest \in Hex32
    /\ guard.tag = "Parties" =>
          /\ IsInjective(guard.parties)
          /\ guard.threshold \in 1 .. Len(guard.parties)

validAlternatives(anyOf) ==
    /\ Len(anyOf) \in 1 .. Limits.maxAlternativesPerRule
    /\ \A a \in ToSet(anyOf) :
          /\ Len(a.allOf) \in 1 .. Limits.maxGuardsPerAlternative
          /\ \A guard \in ToSet(a.allOf) : validGuard(guard)

validWitness(witness) == Len(witness.preimages) <= Limits.maxPreimages

validAccount(account) == account.owner # NoParty

validLeg(leg) ==
    /\ noSlash(leg.legId)
    /\ validAccount(leg.receiver)
    /\ leg.amount > 0
    /\ leg.meta \intersect ReservedKeys = {}

validLegs(legs) ==
    /\ Len(legs) <= Limits.maxLegs
    /\ \A leg \in ToSet(legs) : validLeg(leg)
    /\ IsInjective([i \in DOMAIN legs |-> legs[i].legId])

validOutcome(amount, outcome) ==
    outcome.tag = "Release" =>
        /\ ~(outcome.fixedLegs = <<>> /\ outcome.receivers = <<>>)
        /\ validLegs(outcome.fixedLegs)
        /\ total(outcome.fixedLegs) \in Decimal
        /\ total(outcome.fixedLegs) <= amount
        /\ IsInjective(outcome.receivers)
        /\ Len(outcome.receivers) <= Limits.maxLegs
        /\ \A account \in ToSet(outcome.receivers) : validAccount(account)

validRule(amount, rule) ==
    /\ noSlash(rule.id)
    /\ rule.enactors # <<>>
    /\ IsInjective(rule.enactors)
    /\ validAlternatives(rule.anyOf)
    /\ validOutcome(amount, rule.outcome)

validateTerms(admin, terms, now) ==
    /\ terms.instrumentId.admin = admin
    /\ validAccount(terms.authorizer)
    /\ terms.amount > 0
    /\ Answer(requestedInPast(terms.requestedAt), now)
    /\ Answer(ledgerTimePlusIsAtMost(Limits.minDuration, terms.expiresAt), now)
    /\ Answer(ledgerTimePlusIsAtLeast(Limits.maxDuration, terms.expiresAt), now)
    /\ Cardinality(terms.rules) <= Limits.maxRules
    /\ \A r1, r2 \in terms.rules : r1.id = r2.id => r1 = r2
    /\ \A rule \in terms.rules : validRule(terms.amount, rule)
    /\ Cardinality(namedParties(terms)) <= Limits.maxNamedParties
    /\ terms.meta \intersect ReservedKeys = {}

-------------------------------------------------------------------------------
(* Outcome resolution: the checks on the supplied legs, and what is paid.  *)

resolvedLegs(terms, outcome, supplied) ==
    IF outcome.tag = "Unlock"
    THEN <<[legId |-> <<"unlock">>, receiver |-> terms.authorizer,
            amount |-> terms.amount, meta |-> {}]>>
    ELSE outcome.fixedLegs \o supplied

resolveOutcome(terms, outcome, supplied) ==
    LET legs == resolvedLegs(terms, outcome, supplied)
    IN  \/ outcome.tag = "Unlock" /\ supplied = <<>>
        \/ /\ outcome.tag = "Release"
           /\ supplied # <<>> => outcome.receivers # <<>>
           /\ \A leg \in ToSet(supplied) : leg.receiver \in ToSet(outcome.receivers)
           /\ validLegs(legs)
           /\ total(legs) \in Decimal
           /\ total(legs) > 0
           /\ total(legs) <= terms.amount

-------------------------------------------------------------------------------
(* Approval bookkeeping. *)

approvalParties(rule) == ruleParties(rule)

hasPartiesGuard(rule) == \E guard \in guards(rule) : guard.tag = "Parties"

\* Fault: an approval counts for whatever legs are supplied.
approversFor_AnyLegs(ruleId, legs, approvals) ==
    UNION {a.approvers : a \in {b \in approvals : b.ruleId = ruleId}}

approversFor(ruleId, legs, approvals) ==
    UNION {a.approvers : a \in {b \in approvals : b.ruleId = ruleId /\ b.legs = legs}}

actingParties(ruleId, legs, actors, approvals) ==
    actors \union approversFor(ruleId, legs, approvals)

\* The parties that have approved the rule with other legs.
elsewhere(ruleId, legs, approvals) ==
    UNION {a.approvers : a \in {b \in approvals : b.ruleId = ruleId /\ b.legs # legs}}

\* Fault: a second approval of the same legs is a second entry.
recordApproval_Appends(ruleId, legs, approvers, approvals) ==
    approvals \union {[ruleId |-> ruleId, legs |-> legs, approvers |-> approvers]}

\* At most one entry matches (ApprovalsWellFormed), so the first is the only one.
recordApproval(ruleId, legs, approvers, approvals) ==
    LET matches == {a \in approvals : a.ruleId = ruleId /\ a.legs = legs}
        entry   == [ruleId |-> ruleId, legs |-> legs,
                    approvers |-> approvers \union approversFor(ruleId, legs, approvals)]
    IN  (approvals \ matches) \union {entry}

dropApprovals(ruleId, approvals) == {a \in approvals : a.ruleId # ruleId}

\* Fault: an amendment keeps the approvals.
clearApprovals_Kept(approvals) == approvals

clearApprovals(approvals) == {}

\* Those of the actors that an approval of the rule records.
approversOf(rule, actors) == actors \intersect approvalParties(rule)

\* Fault: a party approves what it has approved before.
approve_Again(terms, approvals, rule, legs, actors, now) ==
    /\ Answer(isLedgerTimeLT(terms.expiresAt), now)
    /\ rule \in terms.rules
    /\ hasPartiesGuard(rule)
    /\ approversOf(rule, actors) # {}
    /\ resolveOutcome(terms, rule.outcome, legs)
    /\ approversOf(rule, actors) \intersect elsewhere(rule.id, legs, approvals) = {}

approve(terms, approvals, rule, legs, actors, now) ==
    /\ Answer(isLedgerTimeLT(terms.expiresAt), now)
    /\ rule \in terms.rules
    /\ hasPartiesGuard(rule)
    /\ approversOf(rule, actors) # {}
    /\ resolveOutcome(terms, rule.outcome, legs)
    /\ approversOf(rule, actors) \intersect elsewhere(rule.id, legs, approvals) = {}
    /\ ~(approversOf(rule, actors) \subseteq approversFor(rule.id, legs, approvals))

===============================================================================
