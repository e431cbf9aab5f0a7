# Conditional holding lock: TLA+ specifications and proofs

This directory specifies conditional holding locks and what surrounds them in
this repository: the lock policy (`ConditionalLock.Policy`), the registry that
enforces it over a test token (`ConditionalLock.TestToken`), the codec that
advertises a registry's limits, the client that settles a lock against a payment
on another registry, the recorders that turn such runs into evidence, and the
scripts that pin, fetch and release. TLC checks small instances; TLAPS proves
the main safety properties for every value of the constants.

Paths below are relative to `src/`. *Policy.daml* is
`packages/conditional-lock-utils/daml/ConditionalLock/Policy.daml`,
*TestToken.daml* is
`packages/conditional-lock-test-token/daml/ConditionalLock/TestToken.daml`, and
*ConditionalLockV1.daml* is the interface under
`packages/splice-api-token-conditional-lock-v1/daml/`. *The recorder* is
`scripts/record-reference-proof.py`.

## 1. The system

A holder (the *authorizer*) locks an amount of an instrument under *terms*: a
list of *rules*, each with parties that may enact it, alternatives of guards
(preimages, time bounds, party thresholds) and an outcome that unlocks the
amount or releases it in *legs* to receivers. Until the lock expires, rules fire
at most once each; from its expiry on the authorizer takes back what is left.

Around the ledger code, an integration client settles a lock against an Amulet
payment, scripts deploy the packages and record what happened as evidence, a
pinned copy of the Splice localnet is kept in step with Mainnet, and a release
ties commit, build, evidence and tag together.

| Component | State | Operations | Interacts with |
|---|---|---|---|
| Interface, *ConditionalLockV1.daml* | none; the types | choices of factory, instruction, lock | implemented by the registry |
| Policy evaluator, *Policy.daml* | none | `validateTerms`, `satisfied`, `resolveOutcome`, `approve`, `recordApproval`, named parties | called by every choice body |
| Ledger-time bounds, *Policy.daml* 314-334 | answers recorded in a prepared transaction | `ledgerTimePlusIsAtMost`, `ledgerTimePlusIsAtLeast`, `requestedAt` | called by terms validation; answers revisited at execution |
| Reference registry, *TestToken.daml* | `Factory`, `Instruction`, `ActiveLock`, `LockedHolding` contracts, unlocked tokens, the event log | `Lock`; `Accept`, `Reject`, `Withdraw`; `Approve`, `Enact`, `Expire`, `Cancel`, `Amend` | policy, TestTokenV2 (external), the ledger's authorization |
| Views, actions, choice observers, *TestToken.daml* 77-137, 265-273 | none | pure functions of a contract | wallets |
| Limits and duration codec, *Policy.daml* 78-253 | none | render, parse and scale durations | factory metadata, wallets, terms validation |
| Settlement client, `integration/src/scenario.ts`, `integration/test/dvp.test.ts` | contract IDs held between requests, test bodies that run on after a timeout, run record | mint, lock, accept, allocate twice, settle with enact, attempt, expire, withdraw, archive the rules contract | two registries over HTTP |
| Evidence recorder of the DvP, the recorder with `--kind dvp` | run directory (claims and two updates), evidence file | gates over the three files and the packages on disk | settlement client writes what it reads |
| Evidence recorder of the reference deployment, `scripts/devnet-reference.sh` and `--kind reference` | staging directory, what participants hold, script output, evidence per network and tag | stage, deploy, run the two paths, judge, write | registry on a participant, `localnet-bootstrap.sh`, real clock |
| Localnet pin, `scripts/check-compatibility.py`, `scripts/localnet-sync.sh` | vendored trees with `SOURCE.json`, `.env.localnet.example` and `.env.localnet`, runtime fixtures, references in documents | drift report; sync step by step | networks' info pages, the upstream release |
| Download caches, `scripts/fetch-dars.py`, `scripts/fetch-canton.py` | cached DARs, archive, unpacked tree | download, validate, move into place; unpack | builds and test matrices read them |
| Release and publishing, `justfile`, `scripts/make-release-manifest.py`, `scripts/publish-release.sh` and the checks they call | build outputs, matrix results, evidence, manifest, tags, GitHub releases | `just release`, `just publish`, a manifest by hand | git, the upstream tag, GitHub |
| Plumbing, hash references, tests, wrappers | | | |

What is hard here:

* **Authority.** A choice body creates contracts that other parties sign. The
  authority comes from the contract's own signatories, which change with every
  acceptance, continuation and amendment, and from the actors.
* **Long legal sequences.** Releases in parts, amendments that add and remove
  rules, approvals recorded in between. What was agreed for one set of terms must
  not act on another, and a rule fires once under a lock ID.
* **Several contracts per lock.** The lock contract, the backing holding and the
  tokens are replaced together by every choice, and what was prepared against the
  old contract is rejected.
* **Time.** Choices race the expiry. Bounds on time are asked at preparation and
  hold at execution; arithmetic near the ends of `Time`, `RelTime` and `Int` raises.
* **Absent parties.** No party except the authorizer can be needed to get the
  funds back.
* **Lost and late requests.** A connection can break before or after the ledger
  has taken a request. The client gives up and withdraws while the request is
  still on its way. A test that times out is failed by the runner, but its body
  runs on beside the next one.
* **Crashes between file writes.** Every script can die between any two of its
  steps, and the next run reads what was left.
* **Stale files.** Builds, evidence, manifests and run directories are files git
  ignores; they outlive the commit, the run and the pin they were made for.
* **Pins that move.** Networks upgrade, upstream tags move, downloads change.

Correctness, per component: the policy computes what the interface promises and
raises nowhere; the registry keeps contracts, backing and funds paired, lets
every validly requested choice commit, keeps approvals tied to the terms and
legs they were given for, reports every change, and always leaves a way back;
the views list nothing that cannot be done and show an enactment to nobody it
does not concern; the codec round-trips and fails closed; the client delivers
exactly against payment and leaves no allocation it knows without withdrawing or
naming it, unless it is cut off; a recorder accepts every true
run and no evidence says what the ledger did not see; a passing compatibility
check is right about the tree, and a finished sync leaves its release's bytes
there and no other release in the env files; nothing but the pinned file
is taken from the cache; what is released is one commit, listed in its changelog,
and after `just release` its build and exercised.

## 2. Modules

| Module | Contents |
|---|---|
| `LedgerTime` | Ranges of `Time` and `RelTime`, arithmetic that raises (`Overflow`), questions about ledger time, the overflow-safe bounds of *Policy.daml* |
| `PreparedTransaction` | The time checks of `validateTerms` in a transaction prepared at one time, executed at another |
| `AdvertisedLimits` | The duration codec, composed with `PreparedTransaction`: a registry advertises, a wallet reads back and offers |
| `Policy` | Types of the interface; named parties, validation, guards, outcomes, approvals |
| `TestToken` | State machine of the registry, one action per choice |
| `TestTokenProperties` | Type invariant, safety, action and liveness properties |
| `TestTokenHistory` | `TestToken` with a history of who asked for which payment |
| `LockLifecycle` | Abstract specification: what stands under each lock ID, with no contracts, parties or transactions |
| `AccountBook` | `LockLifecycle` with the money of every account |
| `TestTokenRefinement` | The registry as an implementation of both |
| `Submissions` | The registry with enactments that are prepared against one contract of a lock and submitted later |
| `Views` | Actions listed by instruction and lock, observers of an enactment |
| `SettlementClient` | Both tests of `dvp.test.ts`, with their timeouts, over a ledger that takes, refuses, loses or delays each request |
| `DvpEvidence`, `DvpRecording` | The gates of `record_dvp`; runs, crashes, rebuilds and edits of the run directory around them |
| `ReferenceRecording` | `devnet-reference.sh`, the two-path script on a real clock, participants that keep what they hold, the gates of `record_reference` |
| `LocalnetPin` | The compatibility check and the sync, over both env files |
| `ArtifactCache` | Both fetchers, step by step |
| `Release` | `just release` with packages that may not reproduce, `just publish`, and what happens to the repository around them |
| `MCTestToken`, `MCTestTokenHistory`, `MCSubmissions`, `MCPreparedTransaction`, `MCSettlementClient`, `MCDvpRecording`, `MCReferenceRecording` | Small instances for TLC; `LocalnetPin`, `ArtifactCache` and `Release` need none |
| `TestTokenProofs`, `PreparedTransactionProofs`, `SettlementClientProofs`, `DvpRecordingProofs`, `ReferenceRecordingProofs`, `LocalnetPinProofs`, `ArtifactCacheProofs`, `ReleaseProofs` | Theorems |

How they compose: `TestToken` extends `Policy`, which extends `LedgerTime`.
`TestTokenProperties` extends `TestToken`; `TestTokenRefinement` extends that and
instantiates `LockLifecycle` and `AccountBook` (which extends `LockLifecycle`)
under its refinement mapping; `Submissions` extends `TestTokenRefinement` and
`Views` extends `TestTokenProperties`; `MCSubmissions` brings these two together.
`AdvertisedLimits` extends `PreparedTransaction`, which extends `LedgerTime`.
`DvpRecording` extends `DvpEvidence`. The remaining modules stand alone: the
programs they model meet only through files and the ledger, and each models what
it finds there as nondeterministic as the others can leave it.

Operators whose names carry a suffix after an underscore (`lockActions_Named`,
say), marked *Fault*, are plausible mistakes in the code; no specification uses
them, and `PROJECT.json` says which property notices each.

### How `TestToken` corresponds to the code

| Variable | Code |
|---|---|
| `now` | ledger time of the next transaction |
| `tokenRules` | live `TokenRules` contracts, by admin |
| `factories` | live `Factory` contracts |
| `tokens` | live unlocked TestTokenV2 `Token` contracts, a bag because equal tokens are distinct contracts |
| `holdings` | live `LockedHolding` contracts |
| `instructions`, `locks` | the `State` of live `Instruction` and `ActiveLock` contracts |
| `reported`, `legSides` | what `report` has told the event log: net change per account, transfer leg sides |

Each choice is split as its code is. `<Choice>Checks` holds the assertions of the
body on arguments and state; `<Choice>Commits` holds what the ledger and the
templates still demand: authority for each create, the `ensure` clauses, the
match of the backing holding (`consumeBacking`), the `abort` of a continuation
that would need an approval and of a foreign leg without a rule ID. An action is
enabled when both hold, since a transaction is atomic. That the second follows
from the first is the property `CheckedChoicesCommit`, not an assumption.

`start`, `enact`, `withdraw`, `issue`, `issueChange`, `consumeInputs`,
`consumeBacking` and `report` are operators of (almost) the same names. The
environment adds `Tick` (time passes) and `ArchiveTokenRules` (the operation of
the settlement client that removes the contract factories refer to).

Abstractions:

* Rules and approvals of a lock are sets. The code only searches and filters
  these lists and validation demands distinct rule IDs, so the order is not
  observable. A list with the *same* rule twice, which validation rejects, has
  no counterpart.
* Leg lists, alternatives and receivers stay sequences. Approvals compare leg
  lists as lists, and the model does too.
* Identifiers are sequences over a small alphabet of slash-free fragments and
  `"/"`, so `noSlash` and the concatenation in a transfer leg ID mean something.
* A holding contract ID is `[lockId, gen]`: the gen-th backing of that lock. The
  contract IDs of locks are not modelled; a choice is exercised on the live
  contract (`Submissions` adds choices prepared against a contract since replaced).
* Amounts count the smallest decimal unit. A sum beyond `MaxDecimal` raises in
  the code and disables the choice here.
* Metadata is a set of keys. Digests are a constant table over `HexText`;
  `asciiToLower` and the check for 32 bytes are kept.
* The signatories of a TestTokenV2 `Token` (admin and account parties) are
  external and taken from how the code uses the template.
* One clock for all transactions, never going back. `PreparedTransaction` drops
  the assumption that checks and effects happen at one instant.
* The registry issues factories with distinct lock IDs, as *TestToken.daml*
  22-23 demands of it.
* The order of the reports within a transaction, the authority that the event
  log (external) asks of its caller, and the contents of metadata on events are
  left out.

### How the other modules correspond to the code

**Refinement.** `lockUnder(id)` reads the abstract lock off the contract that
lives under the ID (`lockOf`), off its factory (unused), or off their absence
(ended); `unlocked` adds up the tokens of each account. `LockLifecycle` lets a
lock be offered once, agreed to, paid out of under each rule once and before the
expiry, renewed, refunded and ended; `AccountBook` adds that every change of an
account is explained by such a step, that only the authorizer and receivers
that agreed are paid, and that what is not released returns to its owner.

**`Submissions`.** A wallet interprets an enactment on the contract it sees and
signs only what works; every choice on the lock, the recording of an approval
included, makes the draft stale. One draft per lock, its content abstracted to
whether its contract is the current one.

**`Views`** compares the actions listed with all eight choices as `TestToken`
enables them, in both directions. Whoever gets a choice through had a listed
group among the acting parties. A listed group alone gets the choice through, as
far as that is a matter of parties: the converse supposes what the choice demands
of the time, of the arguments, and of what the group has already approved, and,
for an amendment, terms that somebody could amend to and that bring no new
receiver. The observers of the other choices are the named parties or none, and the
labels of `lockHolders` and `holdingView` are presentation.

**`AdvertisedLimits`.** A text is `P<whole>D` or `PT<whole>[.<fraction>]S`,
possibly negative, or anything else; numerals are the numbers they spell, or
malformed. A factory advertises the durations it enforces, or a foreign one any
text. A second is 2 microseconds and a day 3 seconds in the run, so that the
range of `Int` ends where scaling overflows. The six counts go through `parseNat`
alone and are left out. The minimum of `Int` has no magnitude: rendering it raises
and nothing is advertised.

**`SettlementClient`.** `step` numbers the requests of each test in the order of
`dvp.test.ts`; 0 is its catch block. Either the ledger takes or refuses a
request, in one step with what the client makes of the answer, or the answer is
not waited for any more (`givenUp`): the request joins `late`, and the ledger
deals with it at any later time (`TakeLate`). `known` are the contracts whose ID
the client has read, `undo` the allocations a catch block has still to withdraw,
`named` those an error names. What the ledger does with a request is reduced to
the phases of the lock, its rules contract and two allocations. Tokens for the
HTTP APIs are cached, so the withdrawal does not depend on fetching one.

A timeout of vitest (`TimesOut`) fails the test and moves the runner on. It runs no
catch block and stops nothing: the body goes on (`running`), may still withdraw
what it allocated, or even complete its entry of the record, until the process ends
or is killed (`Exit`). So `docs/runbook/localnet.md` 68, a test that fails
"withdraws every Amulet allocation it created before the error propagates", is
more than the code can promise. An allocation whose answer was lost is unknown to
the client, one whose withdrawal failed is only named, and the body of a test that
has timed out withdraws late or never. What holds is `NothingStranded`
(`scenario.ts` 193 to 196 accepts one leftover per aborted run).

The client's clock is ahead of the ledger's by `Ahead`, at most the `Margin` of
three seconds that it sleeps past an instant. A clock that is further ahead may
send the enactment of the expiry test before the deadline; one that is
behind sends it later. An enactment is refused for the reason the test
demands only from the deadline until the expiry; any other answer fails it.

**`DvpEvidence`, `DvpRecording`.** A JSON document is a record of the fields the
gates read, `Missing` when absent; a contract is identified by its kind and its
run. `record_dvp` has the gates in their order. `WriteClaims`,
`WriteSettlementUpdate`, `WriteExpireUpdate` are the three writes of the harness;
a run may be abandoned before each, and the files of an earlier run stay. The
enactment of the expiry test is attempted, and refused for want of an
alternative, after the deadline and before the expiry, as in `dvp.test.ts` 350 to
352; the lock is expired after that.
`EditClaims` types any value of `Forged` over a field, `EditUpdate` changes an
owner in an update, `CopyUpdate` brings a file of another run. Four fields are
written from what the harness holds and no gate compares them with an update:
`expiry.lock_id`, the withdrawn allocation, the registry admin and the Canton
version. Gate 26 asks of `run_nonce` only that it is there.

**`ReferenceRecording`.** The stages of `devnet-reference.sh`: DARs are staged
from what is built or from any earlier build (`--release`, `--dars`),
uploaded from the staging directory, the two-path script settles, locks again,
sleeps for the window and `Extra` more, awards, reads the time after each, and
`record_reference` judges. Between any two steps packages are rebuilt or the
localnet is repinned; any step may fail. The three packages are one build.

A participant keeps the package it holds under a name and version: `deploy-dars.sh`
166 counts HTTP 409 as success, and packages are resolved by name, so the paths
enact what the participant held. The sandbox of the script is started and stopped
with the run; the Docker localnet keeps what an earlier run or
`localnet-bootstrap.sh` uploaded until `localnet.sh --clean`. So *the recorder*
129 and 1086 to 1088, which call the digests those of what was uploaded, hold for
the sandbox and for a participant that did not have the packages; the evidence
tells the cases apart by nothing. What other parties upload to a shared network is
not modelled.

Names of networks and tags are the sequences of their parts, and `slug`
concatenates them as the script does: the file for `localnet` with tag
`mainnet-0.8.0` is that for `localnet-mainnet` with `0.8.0`, both occur in the run,
and the later evidence replaces the earlier. `devnet-reference.sh` 113 to 114
promises a file per network and tag, which holds as long as no two names run
into each other so; evidence names its network and tag inside, and no property
relies on the file name.

**`LocalnetPin`.** A tree is its contents, its file modes and its `SOURCE.json`.
An env file is its `IMAGE_TAG` and its `LOCALNET_DIR`, each of which may be missing,
as may the file. A sync is `Begin`, `RemoveTarget`, `MoveTarget`, `RemoveOther`,
`OthersRemoved`, then for `.env.localnet.example` and after it for `.env.localnet`
one of `SkipMissing`, `RefuseLegacy` (a `.env.localnet` without `IMAGE_TAG` ends the
sync with an error) or the two rewrites, which leave a line that is missing
missing, and `RewriteDocs`. `localnet.sh` may copy the example at any time
(`localnet_env`). `Crash` ends a sync anywhere and may leave
part of a tree when the move crosses file systems. The digests of the Splice
DARs and the Canton and SDK versions are compared like the Splice version and
not modelled apart. Testnet is compared as Mainnet is, and the run leaves it out.

Three things a reader should know. A sync that refuses `.env.localnet` has already
replaced the trees and the example, and the next one finds no other tree, so the
documents stay at the old tag: `DocsFollow` supposes that it did not happen. The
check trims blanks around the value of `IMAGE_TAG`, which the pattern of the
sync does not match; such a line counts here as one that is missing. And edits
of `SOURCE.json` remove it: a digest that is typed over to match an edited tree
would pass the check, and is not modelled.

**`ArtifactCache`.** Contents are one of `Digests` or `"cut"`. Each fetcher checks
the cache, downloads, validates, writes its staged file and moves it over the
target. `Fetchers` may have several members; the runs have one, since two share
the name of the staged file and nothing in the repository promises anything of
that (a hazard without a property).

**`Release`.** A build is the sources it was made of, one of `Bytes` variants and
its package ID. A commit either reproduces, drifts (another ID for every variant),
or builds another interface than the pinned one; its changelog lists an ID of its
own builds, or still that of an earlier commit. `VerifyReproducible` builds twice,
compares the two IDs and the pinned interface, and goes on only if they agree. It
assumes of a package that drifts that two clean builds, one right after the other,
differ: that is what the script can notice, and a package that drifts less often
than that could pass it. Later steps of the recipe build again.

Nobody edits sources while a release runs: nothing in the recipe would notice a
commit made between its build and its manifest. Between recipes sources are
committed or checked out, packages rebuilt, tags moved and a manifest written by
hand (`MakeManifestByHand`: the script is a command of its own, and
`publish-release.sh` cannot tell its manifest from that of the recipe; `made` is
history). A recipe stops at any step. The upstream tag moves at any moment, also
after the check and before the tag: `NoTagOnMovedPin` says that the release has
seen it in place, not that it still is.

### Hazards and properties

`PROJECT.json` lists the hazards by line. The properties:

| Property | Says |
|---|---|
| *Registry* (`TestTokenProperties`) | |
| `TypeOK` | every variable is well typed (no empty tokens, no empty locks) |
| `BackingMatches` | lock contracts and backing holdings correspond one to one; a lock ID is a factory, an instruction or a lock, never two |
| `ReportsReconcile` | the balance of each account is what its reports add up to |
| `TransferLegsPaired` | a transfer leg ID has exactly a sender and a receiver side that agree, for ever |
| `FireOnce` | no live terms contain a rule that has fired |
| `ApprovalsWellFormed` | one entry per rule and leg list, one list per party and rule, entitled approvers only |
| `CheckedChoicesCommit` | a choice whose checks pass is never aborted by its body |
| `RefundAlwaysOpen` | the authorizer alone can withdraw, and can expire from the expiry on |
| `ApprovalsFollowTerms` | continuations keep exactly the approvals of remaining rules, amendments none |
| `FundsReturn` | every lock ends (under fairness) |
| `EveryReleaseConsented` (`TestTokenHistory`) | every release was asked for, by an enactor and by enough parties, for exactly those legs and that rule, since the last amendment |
| `LifecycleSpec` (`TestTokenRefinement`) | the registry implements `LockLifecycle` |
| `BookSpec` (`TestTokenRefinement`) | the registry implements `AccountBook`: no money made or lost, none to an account that had not agreed |
| `RejectionsBounded` (`Submissions`) | without amendments, an enactor's drafts are rejected at most once per pair of rule and approver and once per rule that fires |
| *Views* | |
| `ActionsListed` | for every choice: whoever gets it through had a listed group among the acting parties, and a listed group needs nobody else |
| `ObserversAgreed` | an enactment is shown to everyone it pays and to no account outside the terms |
| *Time and limits* | |
| `QuestionsAskable` (`PreparedTransaction`) | validating times never raises |
| `ExecutedExactly` (`PreparedTransaction`) | a prepared transaction executes exactly if its times are valid then |
| `AdvertisedAreEnforced` (`AdvertisedLimits`) | what a registry advertises within the bound is read back as what it enforces, beyond it not at all; reading any text raises nothing; what a wallet has checked is not refused |
| *Settlement client* (`SettlementClient`) | |
| `NothingStranded` | every allocation the client has the ID of is settled, withdrawn or named in an error, or is still to be withdrawn by the body of a test that is under way, has timed out or was cut off |
| `DeliveryVersusPayment` | the tokens are delivered exactly if the payment is settled, with a client's clock that is ahead within its margin |
| `RecordIsTrue` | a run record is only written of what happened, also if a test that had timed out completed it, and stays true |
| *Evidence of a DvP* (`DvpRecording`) | |
| `HonestRunAccepted` | three untouched files of one run, refused between its deadline and expiry, in time and with its packages in place, pass every gate |
| `OneRunUnlessEdited` | without edits, the three files behind the evidence are of one run |
| `ClaimsMatchUpdates` | claims in the evidence are what the participant's own updates say |
| `PackagesAreTheRuns` | the evidence names the packages of the events, and is made within a day |
| `DeliveryVersusPayment` | even over edited updates: two parties, the delivery going from payee to payer |
| `SellerRepaid` | the lock that expired returned the delivered amount to the party that delivered |
| *Evidence of a reference deployment* (`ReferenceRecording`) | |
| `EvidenceIsTrue` | untouched evidence is of a settlement before and an award after the deadline, in the run it names |
| `ArtifactsAreTheEnacted` | its artifacts are those both paths enacted, except on a participant other than the sandbox that held what somebody else had uploaded before |
| *Localnet pin* (`LocalnetPin`) | |
| `CheckIsSound` | a check that passes is right: Mainnet's release, verbatim, modes included |
| `SyncRepairs` | a sync that ends has put the release's bytes and their digest in place, and no line of either env file pins another release. Files and lines that are missing and modes are not repaired |
| `DocsFollow` | the documents name the synced tag, as long as no sync died or refused `.env.localnet` and nothing was edited: the next sync would find no old tag to replace |
| *Caches* (`ArtifactCache`) | |
| `FetchedIsPinned` | after a fetch every DAR in the cache is the pinned one |
| `CacheIsComplete` | no partly written file is ever in the cache |
| `ReturnedIsOfficial` | the returned Canton is a whole distribution: violated, see below |
| *Release* (`Release`) | |
| `ReleaseIsOneCommit` | release, tag and manifest name one commit, the files have the manifest's digests |
| `BuiltFromTheCommit` | the package ID published is in the changelog of that commit; after `just release` it was built from its sources |
| `ReleaseWasExercised` | after `just release`, its package ID passed every script on each network's Canton |
| `NoTagOnMovedPin` | no release tags its commit without having seen the upstream tag at the reviewed commit |

`RejectionsBounded` assumes that the lock is not amended: an amendment removes
the approvals, and with the parties' consent the count starts again. It and
`LifecycleSpec`, `BookSpec` say more than separate properties about supply,
identity and expiry would: that only a refund follows the expiry, that fired
rules, owner and instrument survive every replacement, and that money is
conserved are conjuncts of the abstract steps.

## 3. Runs

| Run | Configuration | Instance | Distinct states |
|---|---|---|---|
| `escrow` | `MCEscrow.cfg` | one lock, three rules with joint approval, discretionary award, dispute window; all seven actor sets of three parties; four leg lists, two of them permutations; drafts against current and replaced contracts | 12,878 |
| `vesting` | `MCVesting.cfg` | two locks over the same two tokens; equal legs to one account, supplied legs, preimage and time guards, a second account of the authorizer as receiver | 4,922 |
| `amend` | `MCAmend.cfg` | one lock amended while approvals stand and rules have fired; top-ups, new receivers with a provider, forbidden changes of authorizer and instrument; under `FairSpec` | 14,830 |
| `history` | `MCHistory.cfg` | amendments that weaken a rule, with the history variables | 65,580 |
| `prepared` | `MCPrepared.cfg` | every pair of durations the range of `RelTime` has, advertised, read and offered at every pair of times from -1 to 2, or not read at all; every foreign text; every delay | 152,844 |
| `client` | `MCClient.cfg` | both tests; every request taken, refused, lost or late; a timeout of either test; an exit anywhere; a clock ahead | 1,207,972 |
| `dvp` | `MCDvp.cfg` | two harness runs, two builds, one edit of any field, owner or file, recorded at any time | 181,610 |
| `reference` | `MCReference.cfg` | two networks and two tags that run into each other, two runs, earlier builds staged or held, rebuilds, repins, bootstraps between any steps, one edit | 2,690,814 |
| `pin` | `MCPin.cfg` | three releases, one crash anywhere, one edit of content, mode, `SOURCE.json` or an env file, copies of the example | 1,787,460 |
| `cache` | `MCCache.cfg` | one fetcher, two DARs with two contents, one change of the pin, two crashes | 50,010 |
| `release` | `MCRelease.cfg` | two versions, two commits that reproduce or not, builds of two variants, stops and retries, two interventions out of retags, manifests by hand and moves of the upstream tag | 3,269,748 |
| `cache_unpack` | `MCCacheUnpack.cfg` | one crash while Canton is unpacked: `ReturnedIsOfficial` is violated | |

Bounds, and why they are enough:

* `Horizon` stops the clock after the latest expiry, so every choice is tried
  before, at and after it. Liveness needs the clock to pass every expiry; no
  proposed term expires later.
* `MaxGeneration` (guard of `ChangeTerms`) stops amendments of a lock replaced
  that often. Three amendments in a row allow a rule to be dropped, another to
  fire and the first ID to return, which is what `FireOnce` is about. Other
  choices are not bounded: each uses up a rule, an acceptance or an approval.
* `MaxDecimal`, the tokens and the amounts allow exact funding, change, top-ups,
  remainders of zero and sums out of range; larger amounts repeat these cases.
* Proposed terms contain invalid ones on purpose, each next to a valid one.
* In `prepared` the range of `Time` starts below zero and is narrower than that
  of `RelTime`, which is the relation the code relies on (*Policy.daml* 314-334).
  `MaxInt` 20 with days of 6 units, `MaxAdvertised` 12 and `MaxNumeral` 19 lets
  whole days, whole seconds, fractions, numerals beyond the limit and products
  beyond `Int` all occur.
* Actors, accounts and legs are small sets: three parties, a fourth for the
  account with a provider; the admin issues factories and archives the rules
  contract, and no choice of a lock names the admin among its controllers.
* In `client` the deadlines (2 and 1) and expiries (3 and 2) leave time before,
  between and after them within `Horizon` 3. `Ahead` is all of `Margin`, the worst
  a clock may be. `MaxLate` 2 lets a request of each test, or an allocation
  and its settlement, be late together; the theorems hold for any number.
* In `dvp` a second run over the files of the first is where stale files come
  from; `StaleAfter` 1 of `MaxTime` 4 lets a file be too old, and an expiry two
  after the deadline leaves an instant between them. One edit reaches
  every gate alone, which is what shows that none is covered by another; theorems
  cover any number of edits.
* In `reference` four units of time put both paths before, at and after
  their deadlines; two builds and two runs let a participant hold a build that a
  later run does not stage.
* In `pin` three releases allow a release to be skipped; one crash leaves every
  intermediate state to the sync that follows. The proofs have no such bounds.
* In `cache` the second crash hits a run that starts from what the first left.
* In `release` two commits and two variants are the smallest instance in which a
  tag, a manifest, a build and an evidence can each belong to a different one. Two
  interventions let the upstream tag move and come back, and a tag be deleted
  and a manifest written for it.

`CHECK_DEADLOCK FALSE` in every configuration: all locks closed with the clock at
`Horizon`, a transaction executed, tests done and a process killed, or all bounds
on runs, edits and crashes used up, are legitimate ends.

Fairness (`FairSpec`): `WF_vars(Tick)`, since ledger time advances whatever
parties do; and for each lock ID weak fairness of `reclaim`, the authorizer
withdrawing what is pending or expiring what has expired. That is the party that
wants the money back, and `RefundAlwaysOpen` shows that it needs nobody else. No
fairness is assumed of receivers, enactors, approvers or the admin.
`FundsReturn` is about the modelled horizon; an amendment that moves the expiry
needs the authorizer's own consent. The scripts and the client promise nothing
that must eventually happen: they may be interrupted and left.

**A disagreement between code and documentation** (`cache_unpack`).
`scripts/fetch-canton.py` line 25 unpacks unless `bin/canton` exists. A run
interrupted while `tar` extracts, after that entry and before the rest, leaves a
tree that the next run returns as the distribution. Line 3 of the script says
"Fetch the official Canton binary", and `README.md` line 42 that it downloads
"checksum-verified official Canton binaries".

## 4. Proofs

`tlapm` checks all eight proof modules. Assumptions are those named in the
modules, and TLC evaluates each of them in the runs:

| Assumption | Says |
|---|---|
| `LedgerTimeAssumption` | the range of `Time` fits into `RelTime`; `Overflow` is no number |
| `PolicyAssumption`, `TestTokenAssumption` | types of the constants; issued factories have distinct lock IDs; the tokens in circulation at the start are of finitely many kinds, and offered terms have finitely many rules (a list in the code) |
| `DurationAssumption` | the durations enforced are of `RelTime` |
| `AdvertisedAssumption` | the longest advertised duration leaves a second below the end of `Int`, is whole days and can be written as a numeral |
| `TimesAssumption` (`SettlementClient`, `DvpRecording`) | the deadline of each test comes before the expiry of its lock; the client's clock is ahead by no more than it sleeps past an instant |
| `NoneAssumption`, `AbsentAssumption`, `MissingAssumption` | what stands for an absent value, file or tree is none of those that are there |
| `ForgedAssumption` | what a list of IDs is edited into is a list, as in any JSON document the recorder parses |
| `BoundsAssumption` (several modules) | the bounds of the instances are natural numbers, and there is a file, a build or a tag at all; no theorem depends on their size. The reference script sleeps longer than its window, and Mainnet is among the networks of the compatibility check |

Nothing bounds the number of locks, parties, rules, legs, amendments, releases,
crashes, edits, commits or requests.

**Registry** (`TestTokenProofs`). The inductive invariant is

    IInv == FundsOK /\ LocksOK /\ BackingMatches

* `LockOK(s)` types a state and says that its acceptances are receivers of the
  current terms, that no remaining rule has fired, that approvals are well formed
  and that the authorizer is a regular account, the amount is positive and the
  instrument is the admin's. `ActiveOK` adds that nothing is pending, `PendingOK`
  that something is and that no approval exists yet.
* `FundsOK` types clock, factories, tokens and holdings.
* `BackingMatches` is needed as part of it: without it a choice could not be
  shown to find its backing.

`CheckedChoicesCommit` is not itself inductive. It follows from `IInv`: acceptances
being receivers and nothing being pending means that every receiver a rule can
pay has signed, so the tokens of an enactment are authorized
(`ResolvedLegsPayReceivers` bounds what supplied legs can name), and fewer rules
mean fewer receivers, so a continuation needs no new approval. There is one lemma
per action, then `Invariance`, then

| Theorem | Statement |
|---|---|
| `ContractsTypeCorrect` | `Spec => []ContractsTypeOK` |
| `BackingAlwaysMatches` | `Spec => []BackingMatches` |
| `RulesFireOnce` | `Spec => []FireOnce` |
| `ApprovalsStayWellFormed` | `Spec => []ApprovalsWellFormed` |
| `NoCheckedChoiceAborts` | `Spec => []CheckedChoicesCommit` |
| `FundsNeverPinned` | `Spec => []RefundAlwaysOpen` |

`ApprovalsAlwaysFollowTerms` (an action property) and the theorems about `Views`
follow from `IInv` as well: `ObserversAlwaysAgreed` and `ActionsAlwaysListed`. The
latter has one lemma for instructions, one for rules and one for refunds and
amendments (`InstructionListed`, `RuleListed`, `ConsentListed`). Where the property
concludes that a group passes the checks of a choice, `NoCheckedChoiceAborts` takes
it the rest of the way.

Three properties need more than `IInv`:

* `ReleasesAlwaysConsented`. `HInv` adds that every approval recorded in a lock is
  *vouched* for: a consent of that party for that rule and those legs stands in
  the history since the last amendment. An amendment clears both, a fired rule
  drops its own approvals, and `ActingHaveAsked` turns the parties that act into
  parties that have asked.
* `LegsAlwaysPaired`. `LegsInv` adds `NamesOK` (no slash in the ID of a lock or of
  a rule that can fire) and `LogOK` (sides are paired; a logged ID splits into
  a lock, a rule and a leg; the rule is spent there, so that no later enactment
  can produce the ID again). `IdSplits` is why the three parts are determined:
  the first two slashes of an ID end the first two parts. Every contract of a step
  *descends* from one before it or from a factory, which carries both over.
* `ReportsAlwaysReconcile`, and `TypeCorrect` with the event log. `MoneyInv` adds
  `FiniteOK` (finitely many kinds of tokens and finitely many holdings), the types of
  the log and the property itself. `IInv` is needed in it: only since the
  backing is the one holding of its lock does archiving it take exactly the
  amount of the lock out of what is locked.

The last one is about sums over bags and sets. The induction theorems of the
library take a predicate, which the provers cannot instantiate; the section on sums
does induction over the *set* where a statement holds, from a least counterexample
(`NumberInduction`, `SubsetInduction`), and proves what
`SumFunctionOnSet` promises: it exists and is unique, any element can be taken
out first, sums of equal functions, of sums, by class and over larger sets agree.
On these rest lemmas on what a bag of tokens is worth to an account when bags are
added or taken (`BagsAdded`, `BagsTaken`), what an enactment issues
(`IssuedCirculates`) and what a holding adds (`HoldingAdded`).

**Refinement** (`TestTokenProofs`, last sections). `RegistryImplementsLifecycle`:
`Spec => LifecycleSpec`. The invariant `RInv` adds to `IInv` that every contract
is under a lock ID that some factory stood for (`IdsOK`). Each choice is mapped to
one step of one lock: `UnderLive`, `UnderFactory` and their like say what
`lockUnder` reads before and after, `OffersLock`, `AgreesToLock`, `FiresRule`,
`RenewsLock` and `RefundEnds` show the abstract steps, `ApprovalIsInvisible` and
`EnvironmentTicks` the rest, and `RefinesStep` collects them.

`RegistryKeepsTheBooks`: `Spec => BookSpec`. `BookInv` is `MoneyInv` and `RInv`
and that locks are over traded instruments. Each choice takes the lifecycle step
shown above, and the lemmas of `MoneyInv` say by how much every account's
unlocked tokens change. `OneGains` makes one account's change the only gain, for
offers, renewals and ends; `ReceiversGain` adds up an enactment by receiver
(`SumByClass`), so that all gains together are the total of the legs, and each is
that of a receiver who had agreed or of the owner.

**Drafts** (`TestTokenProofs`, last section). `RejectionsAlwaysBounded`:
`SubmissionsSpec => []RejectionsBounded`. `SubInv` adds a potential to `RInv`: the
rejections of a lock's drafts so far, one if its draft is stale now, the rules that have
not fired and the approvals that can still be given (`openGrants`) are together at
most the bound of the terms it was offered with. A draft becomes stale
by an approval, which is one fewer to give since nobody approves a rule twice
(`ApprovalCloses`), or by a rule that fires, which is one fewer and opens nothing
(`FiringCloses`). A rejection moves one from what is stale to what is counted. All
other choices end a lock or start one without drafts (`OthersSettle`).

**Policy** (`TestTokenProofs`). `ResolvedLegsPayReceivers`: an enactment pays
positive legs to the authorizer or to receivers the terms name, no more in total
than is locked. `ValidTerms` and `FewerReceivers` are lemmas used above.

**Time** (`PreparedTransactionProofs`). `AtMostTotalAndExact`,
`AtLeastTotalAndExact` and `InPastTotalAndExact`: for every duration and time the
bounds raise nowhere, ask only what the ledger accepts, and answer the unbounded
comparison. With the invariant `TxInv` (the recorded questions are those of the
recorded arguments, and time has not gone back) they give `PreparationIsTotal` and
`ExecutionIsExact`.

`AdvertisedAlwaysEnforced` is the round trip of the duration codec for every
duration: quotients and remainders of the parts are lemmas of their own, and
`LimitsInv` says that what a wallet has read is the reading of what is advertised.
`OffersAreTransactions` (`LimitsSpec => Spec`) carries the two theorems above over
to terms that are offered under advertised limits.

**Settlement client** (`SettlementClientProofs`): `NothingEverStranded`,
`DeliveryAlwaysVersusPayment`, `RecordAlwaysTrue`. The parts of the invariant:
`PaidOK` (what is settled and what is delivered), `AttemptsOK`, `OutcomeOK` (only a
timeout or the end of the process leaves a body behind), `UndoOK` (a catch block at
work has something to withdraw), `KnownOK` (an allocation known and not safe is
still to be withdrawn by its body) and `RecordOK`. `AttemptsOK` is the interesting
one: the enactment that the expiry test attempts is only sent after the deadline
by the ledger's clock, which is where the margin of the sleep is used, and the
deadline does not move any more, so that it cannot deliver however late the ledger
takes it. Without it the invariant would be lost exactly when a late request
arrives.

**Evidence of a DvP** (`DvpRecordingProofs`): `EvidenceShowsDvp`,
`EvidenceShowsTheRefund`, `EvidenceNamesThePackages`. Evidence keeps the
documents it was made from, and the invariant `PassedTheGates` says that they
passed every gate together; the rest is that the gates alone imply the property,
whatever was typed or copied into the files.

`EvidenceOfOneRun`, `EvidenceTellsTheUpdates` and `HonestRunsAreAccepted` are about
the runs as well. `MemoryOK` says what the current run remembers and in which order
it happened, `ParticipantOK` what a participant has recorded of each run, and
`DirOK` that each file was left by a run that had come to its writes, while nothing
was edited. The three files may be of three runs, when runs die between
their writes; the gates compare update IDs and times that only one run has.
`HonestRunsAreAccepted` covers every deadline and every expiry after it.

**Evidence of a reference deployment** (`ReferenceRecordingProofs`):
`EvidenceAlwaysTrue` and `ArtifactsAlwaysTheEnacted`. The invariant says what a
participant holds at each stage (`ParticipantsOK`: a sandbox only what its run
uploaded), relates the run's stage to what the ledger has seen of it (`RunOK`) and
the output to what the run read (`OutputOK`, while nothing was edited). The two
halves of the interval have different grounds: that the settlement was before the
deadline comes from a gate, that the award was after it from the sleep, which begins
no earlier than the terms and is longer than their window.

**Download caches** (`ArtifactCacheProofs`): `FetchedAlwaysPinned` and
`CacheAlwaysComplete`, both from `[]OneAtATime`: no two processes are at work at once.
Without the hypothesis neither is true, as TLC shows in an instance with two
fetchers: they stage under one name, and one truncates what the other moves into
place. The runs have one fetcher, for which the hypothesis is trivial;
the theorems allow any number of them one after the other, each of
which may be killed at any step. `ProcessOK` says which files a process has
verified so far and what its staged file holds.

**Localnet pin** (`LocalnetPinProofs`): `CheckAlwaysSound`, `SyncAlwaysRepairs`,
`DocsAlwaysFollow`. Invariant `TypesOK`, `SourcesOK` (a `SOURCE.json` that is
there is the one written for its tree's release), `ProgressOK` (what each stage of
the sync has in place, in which env file), `LinesOK` (a line with `IMAGE_TAG` is only
lost by an edit, so that without one no sync refuses) and `DocsOK` (while
nothing was edited or died: which trees there are at each stage, and which tag
the documents name). `SourcesOK` is what makes the digest in `SOURCE.json`
evidence about the tree.

**Release** (`ReleaseProofs`): `ReleasesAreOneCommit`, `ReleasesAreBuiltFromTheCommit`,
`ReleasesWereExercised`, `TagsFollowThePin`. Invariant `TypesOK`, `ReleasingOK`
(sources stand still during a release and each stage leaves what it made),
`ManifestOK` (the changelog of a manifest's commit lists its package ID, and a
manifest of the recipe is of an exercised build of that commit), `PublishingOK` (a
publication found files that match its manifest) and `PublishedOK`. The comparison
of the two builds enters through `ReproducedDoesNotDrift`: once it has passed, every
later build of these sources has the ID that the matrix exercises.

Model-checked only is `FundsReturn`: liveness under fairness and `ENABLED` are
beyond the prover. `ReturnedIsOfficial` is refuted by `cache_unpack`, so there is
nothing to prove.

## 5. Not modelled, and the plan

Not modelled, with reasons:

* HTTP clients, configuration and environment checks of `integration/`: I/O
  without state of their own. How a request can fail is in `SettlementClient`.
* `scripts/lib/localnet_token.py`, `scripts/lib/localnet_endpoints.py` and the
  wrapper scripts: they derive a value from configuration or start processes, and
  no state outlives them.
* Hash references and their vectors: stateless functions of fixed inputs.
* Daml Script tests and worked examples; the instances of the runs follow them.
* Localnet overrides and OpenAPI documents: configuration and an interface of a
  server that is not part of the repository.
* The text of metadata on results and events, `holdingView`, the labels of
  `lockHolders`; the six counts among the limits; dry runs of the release, whose
  files nothing reads.
* Two fetchers at once in `ArtifactCache` (the theorems name the hypothesis).

What could follow:

1. What two fetchers at once may rely on in `ArtifactCache`.
2. `RejectionsBounded` over amendments: the same potential, counted since the last
   one.
