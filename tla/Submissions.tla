----------------------------- MODULE Submissions -----------------------------
(* Enactments as wallets submit them.  A draft is prepared against one contract *)
(* of a lock; every choice that replaces the contract, the recording of an     *)
(* approval included, makes it fail, and the enactor has to prepare again.     *)
EXTENDS TestTokenRefinement

VARIABLES
    draft,          \* for each lock ID: none, or against the current or a replaced contract
    rejections      \* how often a draft found its contract replaced

submissionVars == <<vars, draft, rejections>>

\* Some enactment of the lock would get through.
enactable(s) ==
    \E rule \in s.terms.rules, legs \in SuppliedLegs, witness \in Witnesses, actors \in ActorSets :
        enactChecks(s, rule, legs, witness, actors)

\* The wallet interprets the choice on the contract it sees; it only signs what works.
Prepare(s) ==
    /\ s \in locks /\ draft[s.lockId] = "none" /\ enactable(s)
    /\ draft' = [draft EXCEPT ![s.lockId] = "current"]
    /\ UNCHANGED <<vars, rejections>>

\* A choice consumes the contract, whoever submits it; the draft itself may be it.
consumed(id) ==
    \/ draft' = [draft EXCEPT ![id] = IF @ = "current" THEN "stale" ELSE @]
    \/ draft' = [draft EXCEPT ![id] = "none"] /\ draft[id] = "current"

UseLock ==
    /\ \E s \in locks, actors \in ActorSets, legs \in SuppliedLegs : \E rule \in s.terms.rules :
          \/ /\ Approve(s, rule, legs, actors)
             /\ draft' = [draft EXCEPT ![s.lockId] = IF @ = "current" THEN "stale" ELSE @]
          \/ \E witness \in Witnesses : Enact(s, rule, legs, witness, actors) /\ consumed(s.lockId)
    /\ UNCHANGED rejections

RejectDraft(id) ==
    /\ draft[id] = "stale"
    /\ draft' = [draft EXCEPT ![id] = "none"]
    /\ rejections' = [rejections EXCEPT ![id] = IF \E s \in locks : s.lockId = id THEN @ + 1 ELSE @]
    /\ UNCHANGED vars

\* The draft has come too late for its rule: its contract is still the lock's.
DropDraft(s) ==
    /\ s \in locks /\ draft[s.lockId] = "current" /\ ~enactable(s)
    /\ draft' = [draft EXCEPT ![s.lockId] = "none"]
    /\ UNCHANGED <<vars, rejections>>

OtherChoices ==
    /\ OnFactories \/ OnInstructions \/ EndLocks \/ ChangeTerms \/ Environment
    /\ draft' = [id \in LockIds |->
                    IF draft[id] = "current" /\ lockUnder(id)' # lockUnder(id) THEN "stale"
                    ELSE draft[id]]
    /\ UNCHANGED rejections

SubmissionsInit ==
    /\ Init
    /\ draft = [id \in LockIds |-> "none"]
    /\ rejections = [id \in LockIds |-> 0]

SubmissionsNext ==
    \/ \E s \in locks : Prepare(s) \/ DropDraft(s)
    \/ \E id \in LockIds : RejectDraft(id)
    \/ UseLock \/ OtherChoices

SubmissionsSpec == SubmissionsInit /\ [][SubmissionsNext]_submissionVars
-----------------------------------------------------------------------------
\* Who can approve which rule of the terms.
grants(terms) ==
    UNION {{r} \X approvalParties(r) : r \in {q \in terms.rules : hasPartiesGuard(q)}}

rejectionBound(terms) == Cardinality(terms.rules) + Cardinality(grants(terms))

\* Nobody can keep an enactor from enacting by approving: as long as the terms are
\* not amended, which takes the enactor's own consent, drafts are rejected at most
\* once for every party that can approve a rule and once for every rule that fires
\* ("approved only once per rule", approve, Policy.daml:495).
RejectionsBounded ==
    MaxGeneration = 0 =>
        \A id \in LockIds :
            rejections[id] = 0 \/ \E terms \in ProposedTerms : rejections[id] <= rejectionBound(terms)
=============================================================================
