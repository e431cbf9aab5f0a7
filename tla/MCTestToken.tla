----------------------------- MODULE MCTestToken -----------------------------
(* Small registries for TLC: the parties, accounts, terms and inputs that   *)
(* the configurations choose from.                                          *)
EXTENDS TestTokenRefinement

None == "none"

MCParties  == {"admin", "alice", "bob", "arbiter", "custodian"}
MCFragment == {"/", "unlock", "expire", "cancel", "L", "M", "X", "Y",
               "settle", "award", "cash", "first", "second", "pay", "back", "more", "sub"}

\* Alice locks; Bob receives; Carol's account, for which Bob also acts, has a
\* provider; Alice has a second account, which is a receiver like any other.
alice == [owner |-> "alice", provider |-> None, id |-> <<>>]
bob   == [owner |-> "bob", provider |-> None, id |-> <<>>]
kept  == [owner |-> "bob", provider |-> "custodian", id |-> <<>>]
sub   == [owner |-> "alice", provider |-> None, id |-> <<"sub">>]
MCAccounts == {alice, bob, kept, sub}

X == [admin |-> "admin", id |-> <<"X">>]
Y == [admin |-> "admin", id |-> <<"Y">>]

MCLimits ==
    [maxRules |-> 3, maxLegs |-> 2, maxAlternativesPerRule |-> 2, maxGuardsPerAlternative |-> 2,
     maxPreimages |-> 2, maxNamedParties |-> 3, minDuration |-> 1, maxDuration |-> 4]

\* Two preimages and their digests; UPPER is the first one in capitals.
MCHexText == {"p", "q", "P", "hp", "hq", "short"}
MCHex32   == {"p", "q", "hp", "hq"}
MCLower   == [t \in MCHexText |-> IF t = "P" THEN "p" ELSE t]
MCDigest  == [a \in {"Sha256"} |-> [t \in MCHex32 |-> CASE t = "p" -> "hp" [] t = "q" -> "hq" [] OTHER -> t]]

leg(id, receiver, amount) == [legId |-> <<id>>, receiver |-> receiver, amount |-> amount, meta |-> {}]

Preimage(d)        == [tag |-> "Preimage", algorithm |-> "Sha256", digest |-> d]
After(t)           == [tag |-> "After", time |-> t]
Before(t)          == [tag |-> "Before", time |-> t]
Parties(ps, n)     == [tag |-> "Parties", parties |-> ps, threshold |-> n]
allOf(gs)          == [allOf |-> gs]
UnlockAll          == [tag |-> "Unlock"]
Release(legs, rs)  == [tag |-> "Release", fixedLegs |-> legs, receivers |-> rs]
rule(id, es, any, outcome) == [id |-> <<id>>, enactors |-> es, anyOf |-> any, outcome |-> outcome]

termsOf(amount, rules, expiry) ==
    [authorizer |-> alice, instrumentId |-> X, amount |-> amount, rules |-> rules,
     expiresAt |-> expiry, requestedAt |-> 0, meta |-> {}]

tokensOf(account, amounts) ==
    [t \in {[account |-> account, instrumentId |-> X, amount |-> n] : n \in DOMAIN amounts} |->
        amounts[t.amount]]

factoryFor(id) == [lockId |-> <<id>>, rulesAdmin |-> "admin"]

NoWitness   == [preimages |-> <<>>]
MCWitnesses == {NoWitness}

-------------------------------------------------------------------------------
(* Escrow: one lock, two receivers to accept, two parties to approve.  The   *)
(* settle rule needs both; the award rule lets the arbiter choose the legs   *)
(* once the dispute window has passed; cash returns the funds.               *)

escrowSettle == rule("settle", <<"alice", "bob">>,
                     <<allOf(<<Parties(<<"alice", "bob">>, 2)>>)>>, Release(<<leg("pay", bob, 2)>>, <<>>))
escrowAward  == rule("award", <<"arbiter">>,
                     <<allOf(<<After(3), Parties(<<"arbiter", "bob">>, 1)>>)>>, Release(<<>>, <<bob, alice>>))
escrowCash   == rule("cash", <<"bob">>, <<allOf(<<Before(3)>>)>>, UnlockAll)

EscrowTerms == {termsOf(2, {escrowSettle, escrowAward, escrowCash}, 4)}
EscrowLegs  == {<<>>, <<leg("pay", bob, 1)>>, <<leg("pay", bob, 1), leg("back", alice, 1)>>,
                <<leg("back", alice, 1), leg("pay", bob, 1)>>, <<leg("pay", kept, 1)>>}
EscrowTokens    == tokensOf(alice, 1 :> 1 @@ 2 :> 1)
EscrowFactories == {factoryFor("L")}
EscrowActors    == (SUBSET {"alice", "bob", "arbiter"}) \ {{}}

-------------------------------------------------------------------------------
(* Vesting: two locks over the same tokens, released in parts.  One rule pays *)
(* two equal legs, another lets Bob name the legs with a preimage; what is    *)
(* left stays locked until it is released, cancelled or expires.              *)

vestFirst  == rule("first", <<"bob">>, <<allOf(<<After(2)>>)>>,
                   Release(<<leg("pay", bob, 1), leg("more", bob, 1)>>, <<>>))
vestSecond == rule("second", <<"bob", "alice">>, <<allOf(<<Preimage("hp"), Before(3)>>), allOf(<<After(3)>>)>>,
                   Release(<<leg("pay", bob, 1)>>, <<sub, alice>>))

VestingTerms ==
    {termsOf(3, {vestFirst, vestSecond}, 4),
     [termsOf(2, {vestSecond}, 3) EXCEPT !.meta = {"reason"}]}
VestingLegs      == {<<>>, <<leg("back", alice, 1)>>, <<leg("more", sub, 1)>>}
VestingTokens    == tokensOf(alice, 1 :> 1 @@ 4 :> 1)
VestingFactories == {factoryFor("L"), factoryFor("M")}
VestingActors    == {{"alice"}, {"bob"}, {"alice", "bob"}}
VestingWitnesses == {NoWitness, [preimages |-> <<"short", "P">>], [preimages |-> <<"q">>]}

-------------------------------------------------------------------------------
(* Amendments: the authorizer and Bob renegotiate while approvals are         *)
(* recorded and rules have fired.  Some of the proposed terms change what an  *)
(* amendment may not change, or bring a receiver that has not accepted.       *)

amendBase(n, rules) == termsOf(n, rules, 4)
splitFirst  == rule("first", <<"bob", "arbiter">>, <<allOf(<<Parties(<<"alice", "bob">>, 2)>>)>>,
                    Release(<<>>, <<bob>>))
laxFirst    == [splitFirst EXCEPT !.anyOf = <<allOf(<<Parties(<<"alice", "bob">>, 1)>>)>>]
splitSecond == rule("second", <<"alice">>, <<allOf(<<Parties(<<"alice", "bob">>, 2)>>)>>,
                    Release(<<>>, <<bob>>))

AmendTerms ==
    {amendBase(2, {splitFirst, splitSecond}),
     amendBase(3, {laxFirst}),
     [amendBase(2, {splitSecond}) EXCEPT !.authorizer = sub, !.instrumentId = Y],
     amendBase(2, {rule("settle", <<"bob">>, <<allOf(<<After(2)>>)>>,
                        Release(<<leg("pay", kept, 1)>>, <<>>)), splitSecond})}
AmendLegs      == {<<leg("pay", bob, 1)>>, <<leg("more", bob, 1)>>}
AmendTokens    == tokensOf(alice, 1 :> 1 @@ 2 :> 1)
AmendFactories == {factoryFor("L")}
AmendActors    == {{"alice"}, {"bob"}, {"alice", "bob", "arbiter"}, {"alice", "bob", "custodian"}, {"arbiter"}}

\* Fewer terms, for the run that also keeps the history.
HistoryTerms  == {amendBase(2, {splitFirst, splitSecond}), amendBase(2, {laxFirst})}
HistoryTokens == tokensOf(alice, 2 :> 1)
HistoryActors == {{"alice"}, {"bob"}, {"arbiter"}, {"alice", "bob", "arbiter"}}

===============================================================================
