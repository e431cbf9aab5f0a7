--------------------------- MODULE TestTokenHistory ---------------------------
(***************************************************************************)
(* The reference registry with a history: who has asked for which payment. *)
(* The history is written from the choices as they are exercised, never    *)
(* from the approvals that the lock contract records, and so can judge     *)
(* what those approvals have been used for.                                *)
(***************************************************************************)
EXTENDS TestTokenProperties

VARIABLES
    consents,       \* the parties that have approved a rule, as it is, with a leg list
    releases        \* the rules that have fired, with everyone who asked for it

historyVars == <<vars, consents, releases>>

Consent == [lockId : Text, rule : Rule, legs : SuppliedLegs, party : Party]

\* New terms need new consent: an amendment leaves nothing of what was asked.
forgotten(lockId) == {c \in consents : c.lockId # lockId}

askedFor(s, rule, legs, actors) ==
    actors \union {c.party : c \in {d \in consents :
                        d.lockId = s.lockId /\ d.rule = rule /\ d.legs = legs}}

HistoryInit == Init /\ consents = {} /\ releases = {}

ApproveRemembered(s, rule, legs, actors) ==
    /\ Approve(s, rule, legs, actors)
    /\ consents' = consents \union
          {[lockId |-> s.lockId, rule |-> rule, legs |-> legs, party |-> p] : p \in actors}
    /\ UNCHANGED releases

EnactRemembered(s, rule, legs, witness, actors) ==
    /\ Enact(s, rule, legs, witness, actors)
    /\ releases' = releases \union {[rule |-> rule, by |-> askedFor(s, rule, legs, actors)]}
    /\ UNCHANGED consents

AmendRemembered(s, newTerms, inputs, actors) ==
    /\ Amend(s, newTerms, inputs, actors)
    /\ consents' = forgotten(s.lockId)
    /\ UNCHANGED releases

HistoryNext ==
    \/ \E s \in locks, actors \in ActorSets, legs \in SuppliedLegs : \E rule \in s.terms.rules :
          \/ ApproveRemembered(s, rule, legs, actors)
          \/ \E witness \in Witnesses : EnactRemembered(s, rule, legs, witness, actors)
    \/ \E s \in locks, newTerms \in ProposedTerms, inputs \in SubBag(tokens), actors \in ActorSets :
          s.holdingCid.gen < MaxGeneration /\ AmendRemembered(s, newTerms, inputs, actors)
    \/ /\ OnFactories \/ OnInstructions \/ EndLocks \/ Environment
       /\ UNCHANGED <<consents, releases>>

HistorySpec == HistoryInit /\ [][HistoryNext]_historyVars

\* Every rule that has fired was asked for by one of its enactors, and by enough
\* parties for the Guard_Parties of one of its alternatives: each of them either
\* submitted the enactment or had approved that rule, unchanged, with exactly
\* those legs, since the last amendment (actingParties, clearApprovals).
EveryReleaseConsented ==
    \A release \in releases :
        /\ ToSet(release.rule.enactors) \intersect release.by # {}
        /\ \E a \in ToSet(release.rule.anyOf) : \A guard \in ToSet(a.allOf) :
              guard.tag = "Parties" =>
                  Cardinality(ToSet(guard.parties) \intersect release.by) >= guard.threshold

===============================================================================
