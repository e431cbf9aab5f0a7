------------------------- MODULE TestTokenProperties -------------------------
(***************************************************************************)
(* What the reference registry promises, stated over the contracts on the  *)
(* ledger and over its steps.                                              *)
(***************************************************************************)
EXTENDS TestToken

live == locks \union instructions

\* The contracts on the ledger are well typed (TestToken.daml, templates
\* Factory, LockedHolding, Instruction and ActiveLock).
ContractsTypeOK ==
    /\ now \in Time
    /\ tokenRules \subseteq Party
    /\ factories \subseteq Factories
    /\ IsABag(tokens) /\ DOMAIN tokens \subseteq Token
    /\ holdings \subseteq LockedHolding
    /\ instructions \subseteq State
    /\ locks \subseteq State

\* Every variable is well typed, the event log included.
TypeOK ==
    /\ ContractsTypeOK
    /\ reported \in [Accounts \X Instruments -> Int]
    /\ IsABag(legSides) /\ DOMAIN legSides \subseteq TransferLegSide

-------------------------------------------------------------------------------
(* Safety. *)

\* A lock ID is at any time a factory, an instruction or an active lock, and
\* never two of them; each is backed by exactly the holding it names, with the
\* same terms and acceptances, and no holding is left without its contract.
\* (start, consumeBacking: every choice replaces the two contracts together.)
BackingMatches ==
    /\ \A s, t \in live : s.lockId = t.lockId => s = t
    /\ \A s \in live, f \in factories : s.lockId # f.lockId
    /\ \A s \in live : s.holdingCid.lockId = s.lockId /\ backing(s) \in holdings
    /\ \A h \in holdings : \E s \in live : h = backing(s)

\* An account's holdings, the locked ones counting for the authorizer, have
\* changed by exactly the changes reported for that account: a wallet that
\* only follows the event log knows its balance (section 3.7, report).
circulating(account, instrument, bag) ==
    SumFunctionOnSet([t \in DOMAIN bag |-> bag[t] * t.amount],
                     {t \in DOMAIN bag : t.account = account /\ t.instrumentId = instrument})

lockedIn(account, instrument, lockedHoldings) ==
    SumFunctionOnSet([h \in lockedHoldings |-> h.terms.amount],
        {h \in lockedHoldings : h.terms.authorizer = account /\ h.terms.instrumentId = instrument})

ReportsReconcile ==
    \A a \in Accounts, i \in Instruments :
        reported[<<a, i>>] = (circulating(a, i, tokens) + lockedIn(a, i, holdings))
                             - circulating(a, i, InitialTokens)

\* A transfer leg ID names one transfer for ever: one sender side and one
\* receiver side, of the same amount and between the same two accounts, across
\* enactments, continuations, amendments and locks (enact, "distinct legs get
\* distinct ones").
TransferLegsPaired ==
    /\ \A e \in DOMAIN legSides : legSides[e] = 1
    /\ \A e \in DOMAIN legSides :
          LET sameId == {d \in DOMAIN legSides : d.transferLegId = e.transferLegId}
          IN  \E d \in sameId :
                 /\ sameId = {d, e}
                 /\ d.side # e.side
                 /\ d.account = e.otherside /\ d.otherside = e.account
                 /\ d.amount = e.amount /\ d.instrumentId = e.instrumentId

\* A rule ID that has fired is never enactable again under its lock ID, whatever
\* amendments come after ("a rule ID fires once for the lifetime of the lock ID").
FireOnce ==
    \A s \in live : \A rule \in s.terms.rules : rule.id \notin s.enactedRuleIds

\* The approvals of a lock are what its view promises: one entry per rule and
\* leg list, each party in at most one entry per rule, every approver entitled
\* to approve a rule that is still there and that has a Guard_Parties.
wellApproved(s) ==
    \A a \in s.approvals :
        /\ a.approvers # {}
        /\ \E rule \in s.terms.rules :
              /\ rule.id = a.ruleId
              /\ hasPartiesGuard(rule)
              /\ a.approvers \subseteq approvalParties(rule)
        /\ \A b \in s.approvals \ {a} :
              b.ruleId = a.ruleId => b.legs # a.legs /\ a.approvers \intersect b.approvers = {}

ApprovalsWellFormed == \A s \in live : wellApproved(s)

\* Once a choice's own checks pass, nothing in its body can abort it: the
\* signatories of the contract and the actors together authorize every create,
\* the ensure clauses hold, the backing matches and a continuation needs no new
\* approval ("these signatories authorize child updates even when only an
\* enactor acts", TestToken.daml:178).
CheckedChoicesCommit ==
    /\ \A f \in factories, terms \in ProposedTerms, inputs \in SubBag(tokens), actors \in ActorSets :
          lockChecks(f, terms, inputs, actors) => lockCommits(f, terms, actors)
    /\ \A s \in instructions, actors \in ActorSets :
          /\ \A approver \in pending(s) :
                /\ acceptChecks(s, approver, actors) => acceptCommits(s, approver, actors)
                /\ rejectChecks(s, approver, actors) => withdrawCommits(s, actors)
          /\ withdrawChecks(s, actors) => withdrawCommits(s, actors)
    /\ \A s \in locks, actors \in ActorSets :
          /\ \A rule \in s.terms.rules, legs \in SuppliedLegs, witness \in Witnesses :
                enactChecks(s, rule, legs, witness, actors) =>
                    enactCommits(s, rule.id, resolvedLegs(s.terms, rule.outcome, legs),
                                 afterRule(s, rule, legs), stateSignatories(s) \union actors)
          /\ cancelChecks(s, actors) => refundCommits(s, "cancel", actors)
          /\ \A newTerms \in ProposedTerms, inputs \in SubBag(tokens) :
                amendChecks(s, newTerms, inputs, actors) => amendCommits(s, newTerms, actors)

\* Funds are never pinned: whatever has happened to the lock, the parties of the
\* authorizer alone can withdraw a pending instruction at any time and can
\* expire an active lock from its expiry on (sections 3.2 and 3.6).
RefundAlwaysOpen ==
    /\ \A s \in instructions :
          LET own == accountParties(s.terms.authorizer)
          IN  withdrawChecks(s, own) /\ withdrawCommits(s, own)
    /\ \A s \in locks :
          LET own == accountParties(s.terms.authorizer)
          IN  now >= s.terms.expiresAt =>
                  expireChecks(s, own) /\ refundCommits(s, "expire", own)

-------------------------------------------------------------------------------
(* Steps. *)

\* What a party has approved stays approved while the rule can fire as it was
\* agreed, and not one step longer: a continuation keeps the approvals of the
\* rules that remain, and approvals from before an amendment never outlive it.
ApprovalsFollowTerms ==
    [][\A s \in locks, t \in locks' :
          s.lockId = t.lockId /\ s.holdingCid # t.holdingCid =>
              IF /\ t.terms.rules \subseteq s.terms.rules
                 /\ t.enactedRuleIds # s.enactedRuleIds
              THEN t.approvals = {a \in s.approvals : \E r \in t.terms.rules : r.id = a.ruleId}
              ELSE t.approvals = {}]_vars

-------------------------------------------------------------------------------
(* Liveness.  Ledger time passes, and the authorizer of a lock, who wants the *)
(* funds back, withdraws what stays pending and expires what has expired.     *)

reclaim(lockId) ==
    \E s \in live :
        /\ s.lockId = lockId
        /\ \/ Withdraw(s, accountParties(s.terms.authorizer))
           \/ Expire(s, accountParties(s.terms.authorizer))

Fairness ==
    /\ WF_vars(Tick)
    /\ \A f \in Factories : WF_vars(reclaim(f.lockId))

FairSpec == Spec /\ Fairness

\* Every lock ends: the authorizer gets back, without help from anyone, what no
\* rule has released by the expiry of the lock.
FundsReturn ==
    \A f \in Factories :
        (\E s \in live : s.lockId = f.lockId) ~> ~(\E s \in live : s.lockId = f.lockId)

===============================================================================
