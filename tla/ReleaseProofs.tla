---------------------------- MODULE ReleaseProofs ----------------------------
(* For any number of commits, rebuilds, retries and moves of the upstream tag:*)
(* a published release is one commit, listed in its changelog and, after      *)
(* `just release`, built from it and exercised on every network; no release   *)
(* tags a commit without having seen the pin.                                 *)
EXTENDS Release, TLAPS

ReleaseSteps == {"pin", "reproducible", "mainnet", "testnet", "quickstart", "manifest", "tag"}
Stages ==
    {<<"idle">>} \union ({"release"} \X Versions \X ReleaseSteps)
                 \union ({"publish"} \X Versions \X {"push", "create"})

TypesOK ==
    /\ DOMAIN dist = Versions /\ DOMAIN tags = Versions
    /\ DOMAIN pushed = Versions /\ DOMAIN published = Versions
    /\ head \in DOMAIN commits /\ \A c \in DOMAIN commits : commits[c].version \in Versions
    /\ stage \in Stages

exercisedOn(proofs, network, ids) ==
    \E e \in proofs : /\ e.network = network /\ e.canton = canton[network]
                      /\ e.outcome = "all passed" /\ e.artifacts = ids
exercised(proofs, ids) ==
    exercisedOn(proofs, "mainnet", ids) /\ exercisedOn(proofs, "testnet", ids)

\* The only ID of the packages of a commit when they reproduce.
idFor(c) == [sources |-> c, build |-> 0]

\* While a release runs the sources stand still, and each stage leaves what it made.
ReleasingOK ==
    stage[1] = "release" =>
        /\ work = head /\ package_version = stage[2]
        /\ upstream = splice_release_commit => pinSeen
        /\ stage[3] # "pin" => pinSeen
        /\ stage[3] \notin {"pin", "reproducible"} =>
               ~drifts /\ built_dar.sources = work /\ built_dar.id = idFor(work)
        /\ stage[3] \in {"testnet", "quickstart", "manifest", "tag"} => exercisedOn(evidence, "mainnet", idFor(work))
        /\ stage[3] \in {"quickstart", "manifest", "tag"} => exercisedOn(evidence, "testnet", idFor(work))

\* A manifest names a commit whose changelog lists the ID of the package.
goodManifest(history, proofs, m) ==
    /\ m.git_commit \in DOMAIN history /\ m.package.id = history[m.git_commit].changelog
    /\ m.made = "by the recipe" =>
           m.package.sources = m.git_commit /\ exercised(proofs, m.package.id)
ManifestOK == manifest # None => goodManifest(commits, evidence, manifest)

PublishingOK ==
    stage[1] = "publish" =>
        /\ tags[stage[2]] # None /\ tags[stage[2]].commit = head
        /\ manifest # None /\ manifest.release = stage[2] /\ manifest.git_commit = head
        /\ dist[stage[2]] = manifest.package
        /\ stage[3] = "create" => pushed[stage[2]] = tags[stage[2]]

PublishedOK ==
    \A v \in Versions : published[v] # None =>
        /\ pushed[v] # None /\ pushed[v].commit = published[v].manifest.git_commit
        /\ published[v].manifest.release = v /\ published[v].asset = published[v].manifest.package
        /\ goodManifest(commits, evidence, published[v].manifest)

IInv == TypesOK /\ ReleasingOK /\ ManifestOK /\ PublishingOK /\ PublishedOK
-----------------------------------------------------------------------------
LEMMA NetworksAre ==
    DOMAIN Networks = {1, 2} /\ Len(Networks) = 2 /\ Networks[1] = "mainnet" /\ Networks[2] = "testnet"
BY DEF Networks

LEMMA ExercisedStays ==
    ASSUME NEW proofs, NEW more, proofs \subseteq more, NEW network, NEW ids
    PROVE  /\ exercisedOn(proofs, network, ids) => exercisedOn(more, network, ids)
           /\ exercised(proofs, ids) => exercised(more, ids)
BY DEF exercisedOn, exercised

LEMMA GoodManifestStays ==
    ASSUME NEW history, NEW longer, DOMAIN history \subseteq DOMAIN longer,
           \A c \in DOMAIN history : longer[c] = history[c],
           NEW proofs, NEW more, proofs \subseteq more, NEW m, goodManifest(history, proofs, m)
    PROVE  goodManifest(longer, more, m)
<1>1. /\ m.git_commit \in DOMAIN history /\ m.package.id = history[m.git_commit].changelog
      /\ m.made = "by the recipe" =>
             m.package.sources = m.git_commit /\ exercised(proofs, m.package.id)
    BY DEF goodManifest
<1>2. m.git_commit \in DOMAIN longer /\ longer[m.git_commit] = history[m.git_commit]
    BY <1>1
<1>3. exercised(proofs, m.package.id) => exercised(more, m.package.id)
    BY ExercisedStays
<1> QED
    BY <1>1, <1>2, <1>3 DEF goodManifest

LEMMA StagesAre ==
    ASSUME stage \in Stages
    PROVE  \/ stage = <<"idle">> /\ stage[1] = "idle"
           \/ /\ stage[1] \in {"release", "publish"} /\ stage[2] \in Versions
              /\ stage[1] = "release" => stage[3] \in ReleaseSteps
              /\ stage[1] = "publish" => stage[3] \in {"push", "create"}
              /\ stage = <<stage[1], stage[2], stage[3]>>
BY DEF Stages

LEMMA BuiltIs ==
    ASSUME NEW d, NEW e, DOMAIN d = Versions, TypesOK, e \in built(d)
    PROVE  /\ DOMAIN e = Versions /\ package_version \in Versions
           /\ \E b \in 1 .. Bytes : e[package_version] = build(b)
<1>1. package_version \in Versions
    BY DEF TypesOK, package_version
<1>2. PICK b \in 1 .. Bytes : e = [d EXCEPT ![package_version] = build(b)]
    BY DEF built
<1> QED
    BY <1>1, <1>2

LEMMA BuildIs ==
    ASSUME NEW b
    PROVE  /\ build(b).sources = work /\ build(b).bytes = b
           /\ ~drifts => build(b).id = idFor(work)
           /\ drifts => build(b).id = [sources |-> work, build |-> b]
BY DEF build, idOf, idFor

\* Two builds from clean give one ID only of packages that reproduce.
LEMMA ReproducedDoesNotDrift ==
    ASSUME TypesOK, NEW d \in rebuilds, reproduced(d[1], d[2])
    PROVE  ~drifts /\ DOMAIN d[2] = Versions
<1>1. /\ d[1] \in built(unbuilt) /\ d[2] \in built(unbuilt)
      /\ drifts => d[1][package_version].bytes # d[2][package_version].bytes
    BY DEF rebuilds
<1>2. DOMAIN unbuilt = Versions
    BY DEF unbuilt
<1>3. PICK b \in 1 .. Bytes : d[1][package_version] = build(b)
    BY <1>1, <1>2, BuiltIs
<1>4. PICK c \in 1 .. Bytes : d[2][package_version] = build(c)
    BY <1>1, <1>2, BuiltIs
<1>5. build(b).id = build(c).id
    BY <1>3, <1>4 DEF reproduced, package_id
<1>6. DOMAIN d[2] = Versions
    BY <1>1, <1>2, BuiltIs
<1>7. ASSUME drifts PROVE FALSE
    <2>1. b # c
        BY <1>1, <1>3, <1>4, <1>7, BuildIs
    <2>2. [sources |-> work, build |-> b] = [sources |-> work, build |-> c]
        BY <1>5, <1>7, BuildIs
    <2> QED
        BY <2>1, <2>2
<1> QED
    BY <1>6, <1>7

\* A fresh checkout, with nothing built, recorded, tagged or released.
THEOREM InitEstablishes == Init => IInv
<1> SUFFICES ASSUME Init PROVE IInv
    OBVIOUS
<1>1. stage = <<"idle">> /\ stage[1] = "idle"
    BY DEF Init
<1>2. TypesOK
    <2>1. head \in DOMAIN commits /\ \A c \in DOMAIN commits : commits[c].version \in Versions
        BY DEF Init, Versions
    <2> QED
        BY <1>1, <2>1 DEF Init, TypesOK, Stages
<1>3. ReleasingOK /\ PublishingOK
    BY <1>1 DEF ReleasingOK, PublishingOK
<1>4. ManifestOK /\ PublishedOK
    BY DEF Init, ManifestOK, PublishedOK
<1> QED
    BY <1>2, <1>3, <1>4 DEF IInv
-----------------------------------------------------------------------------
\* Between releases nothing that is published changes.
LEMMA IdlePreserves ==
    ASSUME IInv, EditSources \/ Commit \/ Checkout \/ Build \/ Retag
    PROVE  IInv'
<1>1. idle /\ UNCHANGED <<stage, evidence, manifest, remote>>
    <2>1. CASE Commit
        BY <2>1 DEF Commit, files
    <2>2. CASE EditSources \/ Checkout \/ Build \/ Retag
        BY <2>2 DEF EditSources, Checkout, Build, Retag, files
    <2> QED
        BY <2>1, <2>2
<1>2. stage' = <<"idle">> /\ stage'[1] = "idle" /\ UNCHANGED <<evidence, manifest, remote>>
    BY <1>1 DEF idle
<1>3. ReleasingOK' /\ PublishingOK'
    BY <1>2 DEF ReleasingOK, PublishingOK
<1>4. DOMAIN commits \subseteq DOMAIN commits' /\ \A c \in DOMAIN commits : commits'[c] = commits[c]
    <2>1. CASE Commit
        BY <2>1 DEF Commit, withCommit
    <2>2. CASE EditSources \/ Checkout \/ Build \/ Retag
        BY <2>2 DEF EditSources, Checkout, Build, Retag, sources
    <2> QED
        BY <2>1, <2>2
<1>5. ManifestOK' /\ PublishedOK'
    BY <1>2, <1>4, GoodManifestStays DEF IInv, ManifestOK, PublishedOK, remote
<1>6. stage' \in Stages
    BY <1>2 DEF Stages
<1>7. DOMAIN dist' = Versions /\ DOMAIN tags' = Versions
    <2>1. CASE Build
        BY <2>1, BuiltIs DEF Build, IInv, TypesOK
    <2>2. CASE EditSources \/ Commit \/ Checkout \/ Retag
        BY <2>2 DEF EditSources, Commit, Checkout, Retag, IInv, TypesOK, files
    <2> QED
        BY <2>1, <2>2
<1>8. head' \in DOMAIN commits' /\ \A c \in DOMAIN commits' : commits'[c].version \in Versions
    <2>1. CASE Commit
        <3>1. PICK c \in 1 .. MaxCommits \ DOMAIN commits, v \in Versions :
                  \E daml, listed :
                      /\ commits' = withCommit(c, [version |-> v, daml |-> daml, changelog |-> listed])
                      /\ head' = c
            BY <2>1 DEF Commit
        <3>2. DOMAIN commits' = DOMAIN commits \union {c} /\ head' = c /\ commits'[c].version = v
              /\ \A d \in DOMAIN commits : commits'[d] = commits[d]
            BY <3>1 DEF withCommit
        <3> QED
            BY <3>2 DEF IInv, TypesOK
    <2>2. CASE Checkout
        BY <2>2 DEF Checkout, IInv, TypesOK
    <2>3. CASE EditSources \/ Build \/ Retag
        BY <2>3 DEF EditSources, Build, Retag, IInv, TypesOK, sources
    <2> QED
        BY <2>1, <2>2, <2>3
<1> QED
    BY <1>2, <1>3, <1>5, <1>6, <1>7, <1>8 DEF IInv, TypesOK, remote

\* A manifest written outside the recipe promises only what the script checks.
LEMMA MakeManifestByHandPreserves == ASSUME IInv, MakeManifestByHand PROVE IInv'
<1>1. PICK v \in Versions : manifest_checks(v) /\ manifest' = manifestFor(v, "by hand")
    BY DEF MakeManifestByHand
<1>2. /\ UNCHANGED <<sources, dist, results, evidence, stage, tags, pin, remote>>
      /\ stage = <<"idle">> /\ stage[1] = "idle"
    BY DEF MakeManifestByHand, idle
<1>3. TypesOK' /\ ReleasingOK' /\ PublishingOK' /\ PublishedOK'
    BY <1>2 DEF IInv, TypesOK, ReleasingOK, PublishingOK, PublishedOK, sources, remote
<1>4. manifest'.git_commit = head /\ manifest'.package = built_dar /\ manifest'.made = "by hand"
    BY <1>1 DEF manifestFor
<1>5. head \in DOMAIN commits /\ built_dar.id = commits[head].changelog
    BY <1>1 DEF manifest_checks, changelog_lists, package_id, IInv, TypesOK
<1>6. ManifestOK'
    BY <1>2, <1>4, <1>5 DEF ManifestOK, goodManifest, sources
<1> QED
    BY <1>3, <1>6 DEF IInv

LEMMA UpstreamMovesPreserves == ASSUME IInv, UpstreamMoves PROVE IInv'
<1>1. UNCHANGED <<sources, files, stage, tags, remote>>
    BY DEF UpstreamMoves
<1>2. pinSeen' = (pinSeen \/ upstream' = splice_release_commit)
    BY DEF UpstreamMoves
<1> QED
    BY <1>1, <1>2 DEF IInv, TypesOK, ReleasingOK, ManifestOK, PublishingOK, PublishedOK, sources, files, remote, package_version, built_dar, drifts
-----------------------------------------------------------------------------
\* The steps of a release publish nothing.
LEMMA ReleaseStepPreserves ==
    ASSUME IInv, UNCHANGED <<sources, tags, remote, manifest>>, evidence \subseteq evidence',
           DOMAIN dist' = Versions, stage'[1] = "release", stage' \in Stages, ReleasingOK'
    PROVE  IInv'
<1>1. TypesOK'
    BY DEF IInv, TypesOK, sources, remote
<1>3. PublishingOK'
    <2>1. stage'[1] # "publish"
        OBVIOUS
    <2> QED
        BY <2>1 DEF PublishingOK
<1>2. ManifestOK' /\ PublishedOK'
    BY GoodManifestStays DEF IInv, ManifestOK, PublishedOK, sources, remote
<1> QED
    BY <1>1, <1>2, <1>3 DEF IInv

LEMMA NextStage ==
    ASSUME NEW from \in ReleaseSteps, NEW to \in ReleaseSteps, stage \in Stages, at(from), next(to)
    PROVE  /\ stage' \in Stages /\ stage'[1] = "release" /\ stage'[2] = stage[2] /\ stage'[3] = to
           /\ stage[1] = "release" /\ stage[3] = from /\ stage[2] \in Versions
<1>1. stage[1] = "release" /\ stage[3] = from /\ stage' = <<"release", stage[2], to>>
    BY DEF at, next
<1>2. stage[2] \in Versions
    BY <1>1, StagesAre
<1> QED
    BY <1>1, <1>2 DEF Stages

LEMMA StartReleasePreserves == ASSUME IInv, StartRelease PROVE IInv'
<1>1. PICK v \in Versions : package_version = v /\ stage' = <<"release", v, "pin">>
    BY DEF StartRelease
<1>2. /\ stage'[1] = "release" /\ stage'[2] = v /\ stage'[3] = "pin" /\ stage' \in Stages
    BY <1>1 DEF Stages, ReleaseSteps
<1>3. /\ UNCHANGED <<sources, files, tags, upstream, remote>> /\ work = head
      /\ pinSeen' = (upstream = splice_release_commit)
    BY DEF StartRelease, clean
<1>4. ReleasingOK'
    BY <1>1, <1>2, <1>3 DEF ReleasingOK, sources, package_version
<1> QED
    BY <1>2, <1>3, <1>4, ReleaseStepPreserves DEF IInv, TypesOK, files

LEMMA CheckPinPreserves == ASSUME IInv, CheckPin PROVE IInv'
<1>1. /\ at("pin") /\ next("reproducible") /\ upstream = splice_release_commit
      /\ UNCHANGED <<sources, files, tags, pin, interventions, remote>>
    BY DEF CheckPin, check_pin
<1>2. /\ stage' \in Stages /\ stage'[1] = "release" /\ stage'[2] = stage[2]
      /\ stage'[3] = "reproducible" /\ stage[1] = "release"
    BY <1>1, NextStage DEF IInv, TypesOK, ReleaseSteps
<1>3. ReleasingOK'
    BY <1>1, <1>2 DEF IInv, ReleasingOK, sources, pin, package_version
<1> QED
    BY <1>1, <1>2, <1>3, ReleaseStepPreserves DEF IInv, TypesOK, files

LEMMA VerifyReproduciblePreserves == ASSUME IInv, VerifyReproducible PROVE IInv'
<1>1. /\ at("reproducible") /\ next("mainnet")
      /\ UNCHANGED <<sources, results, evidence, manifest, tags, pin, interventions, remote>>
    BY DEF VerifyReproducible
<1>2. /\ stage' \in Stages /\ stage'[1] = "release" /\ stage'[2] = stage[2]
      /\ stage'[3] = "mainnet" /\ stage[1] = "release" /\ stage[3] = "reproducible"
    BY <1>1, NextStage DEF IInv, TypesOK, ReleaseSteps
<1>3. PICK d \in rebuilds : reproduced(d[1], d[2]) /\ dist' \in built(d[2])
    BY DEF VerifyReproducible
<1>4. ~drifts /\ DOMAIN d[2] = Versions
    BY <1>3, ReproducedDoesNotDrift DEF IInv
<1>5. /\ DOMAIN dist' = Versions /\ dist'[package_version].sources = work
      /\ dist'[package_version].id = idFor(work)
    <2>1. PICK b \in 1 .. Bytes : DOMAIN dist' = Versions /\ dist'[package_version] = build(b)
        BY <1>3, <1>4, BuiltIs DEF IInv
    <2> QED
        BY <1>4, <2>1, BuildIs
<1>6. ~drifts'
    BY <1>1, <1>4 DEF drifts, sources
<1>7. ReleasingOK'
    BY <1>1, <1>2, <1>5, <1>6 DEF IInv, ReleasingOK, sources, pin, package_version, built_dar, drifts
<1> QED
    BY <1>1, <1>2, <1>5, <1>7, ReleaseStepPreserves

LEMMA RunMatrixPreserves == ASSUME IInv, RunMatrix PROVE IInv'
<1>1. UNCHANGED <<sources, dist, evidence, manifest, stage, tags, pin, interventions, remote>>
    BY DEF RunMatrix
<1> QED
    BY <1>1 DEF IInv, TypesOK, ReleasingOK, ManifestOK, PublishingOK, PublishedOK, sources, pin, remote, package_version, built_dar, drifts

\* What was built before the matrix is what the matrix is recorded for.
LEMMA RecordProofPreserves == ASSUME IInv, RecordProof PROVE IInv'
<1>1. PICK i \in DOMAIN Networks :
        /\ at(Networks[i]) /\ record_proof(Networks[i])
        /\ evidence' = evidence \union {[network |-> Networks[i], canton |-> results.canton,
                                       artifacts |-> package_id(built_dar),
                                       outcome |-> results.outcome]}
        /\ next(IF i < Len(Networks) THEN Networks[i + 1] ELSE "quickstart")
    BY DEF RecordProof
<1>2. UNCHANGED <<sources, dist, manifest, tags, pin, interventions, remote>>
    BY DEF RecordProof
<1>3. \/ Networks[i] = "mainnet" /\ at("mainnet") /\ next("testnet")
      \/ Networks[i] = "testnet" /\ at("testnet") /\ next("quickstart")
    BY <1>1, NetworksAre DEF at, next
<1> DEFINE from == Networks[i]
           to == IF from = "mainnet" THEN "testnet" ELSE "quickstart"
<1>4. /\ stage' \in Stages /\ stage'[1] = "release" /\ stage'[2] = stage[2] /\ stage'[3] = to
      /\ stage[1] = "release" /\ stage[3] = from /\ stage[2] \in Versions
    <2>1. CASE from = "mainnet" /\ at("mainnet") /\ next("testnet")
        BY <2>1, NextStage DEF IInv, TypesOK, ReleaseSteps
    <2>2. CASE from = "testnet" /\ at("testnet") /\ next("quickstart")
        BY <2>2, NextStage DEF IInv, TypesOK, ReleaseSteps
    <2> QED
        BY <1>3, <2>1, <2>2
<1>5. package_id(built_dar) = idFor(work)
    BY <1>3, <1>4 DEF IInv, ReleasingOK, package_id
<1>6. exercisedOn(evidence', from, idFor(work))
    <2> DEFINE e == [network |-> Networks[i], canton |-> results.canton,
                     artifacts |-> package_id(built_dar), outcome |-> results.outcome]
    <2>1. e \in evidence'
        BY <1>1
    <2>2. e.network = from /\ e.canton = canton[from] /\ e.outcome = "all passed" /\ e.artifacts = idFor(work)
        BY <1>1, <1>3, <1>5 DEF record_proof
    <2> QED
        BY <2>1, <2>2 DEF exercisedOn
<1>7. \A n : exercisedOn(evidence, n, idFor(work)) => exercisedOn(evidence', n, idFor(work))
    BY <1>1, ExercisedStays
<1>8. ReleasingOK'
    BY <1>2, <1>3, <1>4, <1>6, <1>7 DEF IInv, ReleasingOK, sources, pin, package_version, built_dar, drifts
<1> QED
    BY <1>1, <1>2, <1>4, <1>8, ReleaseStepPreserves DEF IInv, TypesOK

LEMMA QuickstartCheckPreserves == ASSUME IInv, QuickstartCheck PROVE IInv'
<1>1. /\ at("quickstart") /\ next("manifest")
      /\ UNCHANGED <<sources, results, evidence, manifest, tags, pin, interventions, remote>>
    BY DEF QuickstartCheck
<1>2. /\ stage' \in Stages /\ stage'[1] = "release" /\ stage'[2] = stage[2]
      /\ stage'[3] = "manifest" /\ stage[1] = "release" /\ stage[3] = "quickstart"
    BY <1>1, NextStage DEF IInv, TypesOK, ReleaseSteps
<1>3. ~drifts /\ ~drifts'
    BY <1>1, <1>2 DEF IInv, ReleasingOK, drifts, sources
<1>4. /\ DOMAIN dist' = Versions /\ dist'[package_version].sources = work
      /\ dist'[package_version].id = idFor(work)
    <2>1. PICK b \in 1 .. Bytes : DOMAIN dist' = Versions /\ dist'[package_version] = build(b)
        BY BuiltIs DEF QuickstartCheck, IInv, TypesOK
    <2> QED
        BY <1>3, <2>1, BuildIs
<1>5. ReleasingOK'
    BY <1>1, <1>2, <1>3, <1>4 DEF IInv, ReleasingOK, sources, pin, package_version, built_dar
<1> QED
    BY <1>1, <1>2, <1>4, <1>5, ReleaseStepPreserves

LEMMA MakeManifestPreserves == ASSUME IInv, MakeManifest PROVE IInv'
<1>1. /\ at("manifest") /\ next("tag") /\ manifest_checks(stage[2])
      /\ manifest' = manifestFor(stage[2], "by the recipe")
      /\ UNCHANGED <<sources, dist, results, evidence, tags, pin, interventions, remote>>
    BY DEF MakeManifest
<1>2. /\ stage' \in Stages /\ stage'[1] = "release" /\ stage'[2] = stage[2]
      /\ stage'[3] = "tag" /\ stage[1] = "release" /\ stage[3] = "manifest"
    BY <1>1, NextStage DEF IInv, TypesOK, ReleaseSteps
<1>3. TypesOK' /\ ReleasingOK' /\ PublishingOK' /\ PublishedOK'
    BY <1>1, <1>2 DEF IInv, TypesOK, ReleasingOK, PublishingOK, PublishedOK, sources, pin, remote,
       package_version, built_dar, drifts
<1>4. /\ built_dar.sources = head /\ built_dar.id = idFor(head)
      /\ exercisedOn(evidence, "mainnet", idFor(head)) /\ exercisedOn(evidence, "testnet", idFor(head))
    BY <1>1, <1>2 DEF IInv, ReleasingOK
<1>5. manifest'.package = built_dar /\ manifest'.git_commit = head
    BY <1>1 DEF manifestFor
<1>6. head \in DOMAIN commits /\ built_dar.id = commits[head].changelog
    BY <1>1 DEF manifest_checks, changelog_lists, package_id, IInv, TypesOK
<1>7. ManifestOK'
    BY <1>1, <1>4, <1>5, <1>6 DEF ManifestOK, goodManifest, exercised, sources
<1> QED
    BY <1>3, <1>7 DEF IInv
-----------------------------------------------------------------------------
\* Steps that leave the files as they are.
LEMMA TagPreserves == ASSUME IInv, Tag PROVE IInv'
<1>1. stage' = <<"idle">> /\ stage'[1] = "idle" /\ stage' \in Stages /\ UNCHANGED <<sources, files, pin, interventions, remote>>
    BY DEF Tag, Stages
<1>2. DOMAIN tags' = Versions
    BY DEF Tag, IInv, TypesOK
<1> QED
    BY <1>1, <1>2 DEF IInv, TypesOK, ReleasingOK, PublishingOK, ManifestOK, PublishedOK, sources, files, remote

LEMMA StopPreserves == ASSUME IInv, Stop PROVE IInv'
<1>1. /\ stage' = <<"idle">> /\ stage'[1] = "idle" /\ stage' \in Stages
      /\ UNCHANGED <<sources, dist, evidence, manifest, tags, pin, interventions, remote>>
    BY DEF Stop, Stages
<1> QED
    BY <1>1 DEF IInv, TypesOK, ReleasingOK, PublishingOK, ManifestOK, PublishedOK, sources, remote

LEMMA CheckPublishPreserves == ASSUME IInv, CheckPublish PROVE IInv'
<1>1. PICK v \in Versions : /\ tags[v] # None /\ tags[v].commit = head /\ manifestIsFor(v)
                           /\ assetsMatch(v) /\ stage' = <<"publish", v, "push">>
    BY DEF CheckPublish
<1>2. UNCHANGED <<sources, files, tags, pin, interventions, remote>>
    BY DEF CheckPublish
<1>3. stage' \in Stages /\ stage'[1] = "publish" /\ stage'[2] = v /\ stage'[3] = "push"
    BY <1>1 DEF Stages
<1>4. TypesOK' /\ ReleasingOK' /\ ManifestOK' /\ PublishedOK'
    BY <1>2, <1>3 DEF IInv, TypesOK, ReleasingOK, ManifestOK, PublishedOK,
       sources, files, remote
<1>5. PublishingOK'
    BY <1>1, <1>2, <1>3 DEF PublishingOK, manifestIsFor, assetsMatch, dar_sha256, sources, files
<1> QED
    BY <1>4, <1>5 DEF IInv

LEMMA PushTagPreserves == ASSUME IInv, PushTag PROVE IInv'
<1>1. /\ stage[1] = "publish" /\ stage[3] = "push" /\ stage' = <<"publish", stage[2], "create">>
      /\ pushed[stage[2]] \in {None, tags[stage[2]]}
      /\ pushed' = [pushed EXCEPT ![stage[2]] = tags[stage[2]]]
      /\ UNCHANGED <<sources, files, tags, pin, interventions, published>>
    BY DEF PushTag
<1>2. /\ stage[2] \in Versions /\ stage' \in Stages /\ stage'[1] = "publish"
      /\ stage'[2] = stage[2] /\ stage'[3] = "create"
    BY <1>1, StagesAre DEF IInv, TypesOK, Stages
<1>3. DOMAIN pushed' = Versions /\ pushed'[stage[2]] = tags[stage[2]]
         /\ \A v \in Versions : v # stage[2] => pushed'[v] = pushed[v]
    BY <1>1, <1>2 DEF IInv, TypesOK
<1>4. TypesOK' /\ ReleasingOK' /\ ManifestOK'
    BY <1>1, <1>2, <1>3 DEF IInv, TypesOK, ReleasingOK, ManifestOK, sources, files
<1>5. PublishingOK'
    BY <1>1, <1>2, <1>3 DEF IInv, PublishingOK, sources, files
<1>6. \A v \in Versions : published[v] # None => pushed'[v] = pushed[v]
    BY <1>1, <1>3 DEF IInv, PublishedOK
<1>7. PublishedOK'
    BY <1>1, <1>6 DEF IInv, PublishedOK, sources, files
<1> QED
    BY <1>4, <1>5, <1>7 DEF IInv

LEMMA CreateReleasePreserves == ASSUME IInv, CreateRelease PROVE IInv'
<1>1. /\ stage[1] = "publish" /\ stage[3] = "create" /\ stage' = <<"idle">>
      /\ published' = [published EXCEPT ![stage[2]] = [asset |-> dist[stage[2]], manifest |-> manifest]]
      /\ UNCHANGED <<sources, files, tags, pin, interventions, pushed>>
    BY DEF CreateRelease
<1>2. stage[2] \in Versions /\ stage' \in Stages /\ stage'[1] = "idle"
    BY <1>1, StagesAre DEF IInv, TypesOK, Stages
<1>3. /\ DOMAIN published' = Versions
      /\ published'[stage[2]].asset = dist[stage[2]] /\ published'[stage[2]].manifest = manifest
      /\ \A v \in Versions : v # stage[2] => published'[v] = published[v]
    BY <1>1, <1>2 DEF IInv, TypesOK
<1>4. TypesOK' /\ ReleasingOK' /\ ManifestOK' /\ PublishingOK'
    BY <1>1, <1>2, <1>3 DEF IInv, TypesOK, ReleasingOK, ManifestOK, PublishingOK, sources, files
<1>5. /\ pushed[stage[2]] # None /\ pushed[stage[2]].commit = head
      /\ manifest.release = stage[2] /\ manifest.git_commit = head /\ dist[stage[2]] = manifest.package
      /\ manifest # None /\ goodManifest(commits, evidence, manifest)
    BY <1>1 DEF IInv, PublishingOK, ManifestOK
<1>6. PublishedOK'
    BY <1>1, <1>3, <1>5 DEF IInv, PublishedOK, sources, files
<1> QED
    BY <1>4, <1>6 DEF IInv
-----------------------------------------------------------------------------
\* No step of the recipes, of git or of anybody rebuilding breaks the invariant.
THEOREM Invariance == Spec => []IInv
<1>1. Init => IInv
    BY InitEstablishes
<1>2. IInv /\ [Next]_vars => IInv'
    <2> SUFFICES ASSUME IInv, [Next]_vars PROVE IInv'
        OBVIOUS
    <2>1. CASE EditSources \/ Commit \/ Checkout \/ Build \/ Retag
        BY <2>1, IdlePreserves
    <2>2. CASE MakeManifestByHand \/ UpstreamMoves
        BY <2>2, MakeManifestByHandPreserves, UpstreamMovesPreserves
    <2>3. CASE StartRelease \/ CheckPin \/ VerifyReproducible \/ RunMatrix \/ RecordProof
        BY <2>3, StartReleasePreserves, CheckPinPreserves, VerifyReproduciblePreserves,
           RunMatrixPreserves, RecordProofPreserves
    <2>4. CASE QuickstartCheck \/ MakeManifest \/ Tag
        BY <2>4, QuickstartCheckPreserves, MakeManifestPreserves, TagPreserves
    <2>5. CASE CheckPublish \/ PushTag \/ CreateRelease \/ Stop
        BY <2>5, CheckPublishPreserves, PushTagPreserves, CreateReleasePreserves, StopPreserves
    <2>6. CASE UNCHANGED vars
        <3>1. UNCHANGED <<sources, files, stage, tags, pin, interventions, remote>>
            BY <2>6 DEF vars
        <3> QED
            BY <3>1 DEF IInv, TypesOK, ReleasingOK, ManifestOK, PublishingOK, PublishedOK, sources,
                files, pin, remote, package_version, built_dar, drifts
    <2> QED
        BY <2>1, <2>2, <2>3, <2>4, <2>5, <2>6 DEF Next
<1> QED
    BY <1>1, <1>2, PTL DEF Spec

(* Whatever is rebuilt, checked out, retagged, interrupted or retried, a      *)
(* GitHub release, its tag and its manifest name one commit and the DARs are  *)
(* those of the manifest (publish-release.sh).                                *)
THEOREM ReleasesAreOneCommit == Spec => []ReleaseIsOneCommit
<1>1. IInv => ReleaseIsOneCommit
    BY DEF IInv, PublishedOK, ReleaseIsOneCommit, Released, dar_sha256
<1> QED
    BY <1>1, Invariance, PTL

(* Every package ID that is published is in the changelog of the commit its   *)
(* manifest names; after `just release` it was built from that commit         *)
(* (make-release-manifest.py:62-103, publish-release.sh:31).                  *)
THEOREM ReleasesAreBuiltFromTheCommit == Spec => []BuiltFromTheCommit
<1>1. IInv => BuiltFromTheCommit
    BY DEF IInv, PublishedOK, goodManifest, BuiltFromTheCommit, Released, package_id
<1> QED
    BY <1>1, Invariance, PTL

(* The package IDs `just release` led to passed every script on each network's*)
(* own Canton, though the packages are built again after the matrix: sources  *)
(* whose IDs drift were refused before it (verify-reproducible.sh:50-53).     *)
THEOREM ReleasesWereExercised == Spec => []ReleaseWasExercised
<1>1. IInv => ReleaseWasExercised
    <2> SUFFICES ASSUME IInv, NEW v \in Released, NEW i \in DOMAIN Networks,
                        published[v].manifest.made = "by the recipe"
                 PROVE  \E e \in evidence :
                            /\ e.network = Networks[i] /\ e.canton = canton[Networks[i]]
                            /\ e.outcome = "all passed" /\ e.artifacts = package_id(published[v].asset)
        BY DEF ReleaseWasExercised
    <2>1. exercised(evidence, published[v].asset.id)
        BY DEF IInv, PublishedOK, goodManifest, Released
    <2>2. exercisedOn(evidence, Networks[i], published[v].asset.id)
        BY <2>1, NetworksAre DEF exercised
    <2> QED
        BY <2>2 DEF exercisedOn, package_id
<1> QED
    BY <1>1, Invariance, PTL

(* A release that tags its commit has found the upstream tag at the reviewed  *)
(* commit since it began (check-pin.py).                                      *)
THEOREM TagsFollowThePin == Spec => NoTagOnMovedPin
<1>1. IInv /\ [Next]_vars => [stage[1] = "release" => pinSeen]_tags
    <2> SUFFICES ASSUME IInv, Next, tags' # tags, stage[1] = "release" PROVE pinSeen
        BY DEF vars
    <2>1. Tag
        <3>1. ~idle
            BY DEF idle
        <3> QED
            BY <3>1 DEF Next, EditSources, Commit, Checkout, Build, Retag, MakeManifestByHand, UpstreamMoves, StartRelease,
               CheckPin, VerifyReproducible, RunMatrix, RecordProof, QuickstartCheck, MakeManifest,
               CheckPublish, PushTag, CreateRelease, Stop
    <2>2. stage[3] = "tag"
        BY <2>1 DEF Tag, at
    <2> QED
        BY <2>2 DEF IInv, ReleasingOK
<1> QED
    BY <1>1, Invariance, PTL DEF Spec, NoTagOnMovedPin
=============================================================================
