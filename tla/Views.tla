-------------------------------- MODULE Views --------------------------------
(* What the contracts of the reference registry show: the actions that their  *)
(* views list with the parties that can take them, and the parties that       *)
(* observe an enactment and learn its preimages.                              *)
EXTENDS TestTokenProperties

each(parties) == {{p} : p \in parties}

instructionActions(s) ==
    LET approvers == {accountParties(a) : a \in pending(s)}
    IN  [Accept |-> approvers, Reject |-> approvers,
         Withdraw |-> {accountParties(s.terms.authorizer)}]

\* Fault: the named parties alone are listed for what needs everyone's consent.
lockActions_Named(s) ==
    [Enact   |-> [r \in s.terms.rules |-> each(ToSet(r.enactors))],
     Approve |-> [r \in {q \in s.terms.rules : hasPartiesGuard(q)} |-> each(approvalParties(r))],
     Expire  |-> {accountParties(s.terms.authorizer)},
     Cancel  |-> {namedParties(s.terms)},
     Amend   |-> {namedParties(s.terms)}]

lockActions(s) ==
    [Enact   |-> [r \in s.terms.rules |-> each(ToSet(r.enactors))],
     Approve |-> [r \in {q \in s.terms.rules : hasPartiesGuard(q)} |-> each(approvalParties(r))],
     Expire  |-> {accountParties(s.terms.authorizer)},
     Cancel  |-> {consent(s)},
     Amend   |-> {consent(s)}]

observersOf(s, paid) ==
    (UNION {accountParties(a) : a \in paid \ {s.terms.authorizer}}) \ accountParties(s.terms.authorizer)

\* Fault: whoever a supplied leg names observes.
enactObservers_AllLegs(s, rule, legs) ==
    IF rule.outcome.tag = "Unlock" THEN {}
    ELSE observersOf(s, {leg.receiver : leg \in ToSet(rule.outcome.fixedLegs) \union ToSet(legs)})

\* Evaluated before the choice body, so for legs that it will refuse as well.
enactObservers(s, rule, legs) ==
    IF rule.outcome.tag = "Unlock" THEN {}
    ELSE observersOf(s, {leg.receiver : leg \in ToSet(rule.outcome.fixedLegs)}
                        \union ({leg.receiver : leg \in ToSet(legs)} \intersect ToSet(rule.outcome.receivers)))
-----------------------------------------------------------------------------
\* "Never wider than the accounts the outcome pays" (TestToken.daml:264): whatever
\* legs an enactor supplies, an enactment is shown only to parties that have agreed
\* to be paid and therefore sign the lock, and one that commits is shown to all
\* parties of the accounts it pays.
ObserversAgreed ==
    \A s \in locks, legs \in SuppliedLegs : \A rule \in s.terms.rules :
        /\ enactObservers(s, rule, legs) \subseteq stateSignatories(s) \ accountParties(s.terms.authorizer)
        /\ \A actors \in ActorSets, witness \in Witnesses :
              enactChecks(s, rule, legs, witness, actors) /\ rule.outcome.tag = "Release" =>
                  \A leg \in ToSet(resolvedLegs(s.terms, rule.outcome, legs)) :
                      accountParties(leg.receiver) \subseteq
                          enactObservers(s, rule, legs) \union accountParties(s.terms.authorizer)

permits(groups, parties) == \E group \in groups : group \subseteq parties

\* What keeps a listed group from a choice is the time, the arguments of the choice,
\* or that the party has approved the rule already: never another party's absence.
acceptable(s, group) ==
    \E a \in pending(s) :
        /\ rejectChecks(s, a, group) /\ withdrawCommits(s, group)
        /\ beforeExpiry(s) => acceptChecks(s, a, group) /\ acceptCommits(s, a, group)

approvable(s, rule, legs, group) ==
    /\ beforeExpiry(s) /\ resolveOutcome(s.terms, rule.outcome, legs)
    /\ \A a \in s.approvals : a.ruleId = rule.id => a.approvers \intersect group = {}

enactableBy(s, rule, legs, witness, group) ==
    /\ beforeExpiry(s) /\ validWitness(witness) /\ resolveOutcome(s.terms, rule.outcome, legs)
    /\ satisfied(actingParties(rule.id, legs, group, s.approvals), witness, rule.anyOf, now)

instructionActionsListed(s) ==
    LET listed == instructionActions(s) IN
    /\ \A actors \in ActorSets :
          /\ \A a \in pending(s) :
                /\ acceptChecks(s, a, actors) => permits(listed.Accept, actors)
                /\ rejectChecks(s, a, actors) => permits(listed.Reject, actors)
          /\ withdrawChecks(s, actors) => permits(listed.Withdraw, actors)
    /\ \A group \in listed.Accept \union listed.Reject : acceptable(s, group)
    /\ \A group \in listed.Withdraw : withdrawChecks(s, group) /\ withdrawCommits(s, group)

ruleActionsListed(s, rule) ==
    LET listed == lockActions(s) IN
    \A legs \in SuppliedLegs :
        /\ \A actors \in ActorSets :
              /\ approveChecks(s, rule, legs, actors) =>
                     rule \in DOMAIN listed.Approve /\ permits(listed.Approve[rule], actors)
              /\ \A witness \in Witnesses :
                     enactChecks(s, rule, legs, witness, actors) =>
                         permits(listed.Enact[rule], actingParties(rule.id, legs, actors, s.approvals))
        /\ rule \in DOMAIN listed.Approve => \A group \in listed.Approve[rule] :
              approvable(s, rule, legs, group) => approveChecks(s, rule, legs, group)
        /\ \A group \in listed.Enact[rule], witness \in Witnesses :
              enactableBy(s, rule, legs, witness, group) => enactChecks(s, rule, legs, witness, group)

refundActionsListed(s) ==
    LET listed == lockActions(s) IN
    /\ \A actors \in ActorSets :
          /\ cancelChecks(s, actors) => permits(listed.Cancel, actors)
          /\ expireChecks(s, actors) => permits(listed.Expire, actors)
    /\ \A group \in listed.Cancel : cancelChecks(s, group) /\ refundCommits(s, "cancel", group)
    /\ \A group \in listed.Expire :
          Answer(isLedgerTimeGE(s.terms.expiresAt), now) =>
              expireChecks(s, group) /\ refundCommits(s, "expire", group)

amendListed(s) ==
    LET listed == lockActions(s) IN
    \A newTerms \in ProposedTerms, inputs \in SubBag(tokens), actors \in ActorSets :
        amendChecks(s, newTerms, inputs, actors) =>
            /\ permits(listed.Amend, actors)
            /\ termReceivers(newTerms) \subseteq s.accepted =>
                   \A group \in listed.Amend : amendChecks(s, newTerms, inputs, group)

\* A wallet reads off the view who can act, and "which other parties they might be
\* waiting on" (ConditionalLockV1.daml:283, 396).  Whoever gets a choice through had a
\* listed group among the acting parties.  Conversely a listed group needs nobody
\* else: it gets a refund through, an answer to an offer before the expiry, an
\* approval it has not given yet, an enactment whose alternative is satisfied, and
\* each amendment that somebody gets through and that brings no new receiver.
ActionsListed ==
    /\ \A s \in instructions : instructionActionsListed(s)
    /\ \A s \in locks :
          /\ \A rule \in s.terms.rules : ruleActionsListed(s, rule)
          /\ refundActionsListed(s) /\ amendListed(s)
=============================================================================
