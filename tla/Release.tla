------------------------------- MODULE Release -------------------------------
(* Cutting and publishing a release: `just release` checks the pin and the   *)
(* changelog, builds, tests on the Canton matrix and records what it ran,    *)
(* writes the manifest and tags HEAD; `just publish` compares what lies on   *)
(* disk with the manifest, pushes the tag and creates the GitHub release.    *)
(* Builds, evidence and manifests are files git ignores: they outlive the    *)
(* commit they were made at.  Any step may fail and be tried again.          *)
EXTENDS Naturals, Sequences

CONSTANTS
    None,
    MaxCommits,
    MaxInterventions,     \* moves of the upstream tag, tags and manifests made by hand
    Bytes                 \* how many different files a build of the same sources can give

ASSUME BoundsAssumption ==
    {MaxCommits, MaxInterventions, Bytes} \subseteq Nat

Versions == {"0.1.0", "0.2.0"}
Networks == <<"mainnet", "testnet">>
canton == [mainnet |-> 1, testnet |-> 2]    \* runtime-versions.json
splice_release_commit == 1                  \* SPLICE_PIN
DirtySources == MaxCommits + 1

VARIABLES
    commits,      \* commit -> its version, how its packages build, the ID its changelog lists
    head, work,   \* HEAD, and the sources in the worktree
    dist,         \* packages/*/.daml/dist, by the version in the file names
    stage,        \* of `just release` or `just publish`
    results,      \* what the last matrix run left for record-proof.py
    evidence,     \* the evidence.json of every matrix run
    manifest,     \* conditional-lock-release.json
    tags,         \* local annotated tags, by version
    upstream,     \* the commit the pinned Splice tag resolves to
    pinSeen,      \* history: upstream was at the pinned commit since the release began
    interventions,
    pushed, published   \* remote tags and GitHub releases

sources == <<commits, head, work>>
files == <<dist, results, evidence, manifest>>
pin == <<upstream, pinSeen>>
remote == <<pushed, published>>
vars == <<sources, files, stage, tags, pin, interventions, remote>>

clean == work = head
package_version == commits[head].version
built_dar == dist[package_version]

\* Packages that drift get another ID with every build that differs.
idOf(daml, c, b) == [sources |-> c, build |-> IF daml = "drifts" THEN b ELSE 0]
drifts == work \in DOMAIN commits /\ commits[work].daml = "drifts"
package_id(dar) == dar.id
dar_sha256(dar) == dar
interface_pinned == commits[head].daml # "new interface"
-----------------------------------------------------------------------------
Init ==
    /\ commits = [c \in {1} |-> [version |-> "0.1.0", daml |-> "reproduces",
                                  changelog |-> idOf("reproduces", 1, 1)]]
    /\ head = 1 /\ work = 1 /\ stage = <<"idle">>
    /\ dist = [v \in Versions |-> None] /\ results = None /\ evidence = {}
    /\ manifest = None /\ tags = [v \in Versions |-> None]
    /\ upstream = splice_release_commit /\ interventions = 0 /\ pinSeen = FALSE
    /\ pushed = [v \in Versions |-> None] /\ published = [v \in Versions |-> None]

idle == stage = <<"idle">>

intervention == interventions < MaxInterventions /\ interventions' = interventions + 1

\* Nobody works on the sources while a release runs: nothing in the recipe would
\* notice a commit made between its build and its manifest.

EditSources ==
    /\ idle /\ clean /\ work' = DirtySources
    /\ UNCHANGED <<commits, head, files, stage, tags, pin, interventions, remote>>

withCommit(c, new) == [d \in DOMAIN commits \cup {c} |-> IF d = c THEN new ELSE commits[d]]

\* The changelog of a commit lists the IDs of a build of its own, or is not updated.
Commit ==
    /\ idle
    /\ \E c \in 1 .. MaxCommits \ DOMAIN commits, v \in Versions,
          daml \in {"reproduces", "drifts", "new interface"} :
       \E listed \in {idOf(daml, c, 1), commits[head].changelog} :
           /\ commits' = withCommit(c, [version |-> v, daml |-> daml, changelog |-> listed])
           /\ head' = c /\ work' = c
    /\ UNCHANGED <<files, stage, tags, pin, interventions, remote>>

Checkout ==
    /\ idle /\ \E c \in DOMAIN commits : head' = c /\ work' = c
    /\ UNCHANGED <<commits, files, stage, tags, pin, interventions, remote>>

\* A build of the same sources may or may not reproduce the bytes.
build(b) == [sources |-> work, bytes |-> b,
             id |-> idOf(IF drifts THEN "drifts" ELSE "reproduces", work, b)]
built(old) == {[old EXCEPT ![package_version] = build(b)] : b \in 1 .. Bytes}

Build ==
    /\ idle /\ dist' \in built(dist)
    /\ UNCHANGED <<sources, results, evidence, manifest, stage, tags, pin, interventions, remote>>

\* By hand: a tag is deleted, or a commit tagged without a release.
Retag ==
    /\ idle /\ intervention
    /\ \E v \in Versions, t \in {None} \cup [commit : DOMAIN commits, object : {1}] :
        tags[v] # t /\ tags' = [tags EXCEPT ![v] = t]
    /\ UNCHANGED <<sources, files, stage, pin, remote>>

\* The tag moves to another commit or is put back; a tag that is deleted stops a
\* release in the same place.
UpstreamMoves ==
    /\ intervention
    /\ upstream' \in {splice_release_commit, splice_release_commit + 1} \ {upstream}
    /\ pinSeen' = (pinSeen \/ upstream' = splice_release_commit)
    /\ UNCHANGED <<sources, files, stage, tags, remote>>
-----------------------------------------------------------------------------
(* just release                                                             *)

\* Fault: it is enough that the tag exists.
check_pin_Found == upstream # None
check_pin == upstream = splice_release_commit

StartRelease ==
    /\ idle /\ clean
    /\ \E v \in Versions :
        tags[v] = None /\ package_version = v /\ stage' = <<"release", v, "pin">>
    /\ pinSeen' = (upstream = splice_release_commit)
    /\ UNCHANGED <<sources, files, tags, upstream, interventions, remote>>

at(step) == stage[1] = "release" /\ stage[3] = step
next(step) == stage' = <<"release", stage[2], step>>

CheckPin ==
    /\ at("pin") /\ check_pin /\ next("reproducible")
    /\ UNCHANGED <<sources, files, tags, pin, interventions, remote>>

unbuilt == [v \in Versions |-> None]

\* Assumed: an ID that drifts differs between two builds from clean, one after the other.
rebuilds ==
    {d \in built(unbuilt) \X built(unbuilt) :
        drifts => d[1][package_version].bytes # d[2][package_version].bytes}

\* Fault: the IDs of the two builds are not compared.
reproduced_Unread(first, second) == interface_pinned
reproduced(first, second) ==
    /\ package_id(first[package_version]) = package_id(second[package_version])
    /\ interface_pinned

\* test.sh and test-compatibility.sh build once more before the matrix.
VerifyReproducible ==
    /\ at("reproducible") /\ next("mainnet")
    /\ \E d \in rebuilds : reproduced(d[1], d[2]) /\ dist' \in built(d[2])
    /\ UNCHANGED <<sources, results, evidence, manifest, tags, pin, interventions, remote>>

RunMatrix ==
    /\ results = None
    /\ \E i \in DOMAIN Networks : at(Networks[i])
    /\ \E c \in {1, 2}, outcome \in {"all passed", "core proofs missing", "some failed"} :
        results' = [canton |-> c, outcome |-> outcome]
    /\ UNCHANGED <<sources, dist, evidence, manifest, stage, tags, pin, interventions, remote>>

record_proof(network) == results.canton = canton[network] /\ results.outcome = "all passed"

RecordProof ==
    /\ results # None /\ results' = None /\ built_dar # None
    /\ \E i \in DOMAIN Networks :
        /\ at(Networks[i]) /\ record_proof(Networks[i])
        /\ evidence' = evidence \cup {[network |-> Networks[i], canton |-> results.canton,
                                       artifacts |-> package_id(built_dar),
                                       outcome |-> results.outcome]}
        /\ next(IF i < Len(Networks) THEN Networks[i + 1] ELSE "quickstart")
    /\ UNCHANGED <<sources, dist, manifest, tags, pin, interventions, remote>>

\* quickstart-check.sh builds once more before it tries the DARs.
QuickstartCheck ==
    /\ at("quickstart") /\ dist' \in built(dist) /\ next("manifest")
    /\ UNCHANGED <<sources, results, evidence, manifest, tags, pin, interventions, remote>>

changelog_lists(dar) == package_id(dar) = commits[head].changelog
manifestFor(v, how) == [release |-> v, git_commit |-> head, package |-> built_dar, made |-> how]
manifest_checks(v) ==
    package_version = v /\ clean /\ built_dar # None /\ changelog_lists(built_dar)

MakeManifest ==
    /\ at("manifest") /\ manifest_checks(stage[2]) /\ next("tag")
    /\ manifest' = manifestFor(stage[2], "by the recipe")
    /\ UNCHANGED <<sources, dist, results, evidence, tags, pin, interventions, remote>>

\* The script is also a command of its own; what it writes looks the same (made is history).
MakeManifestByHand ==
    /\ idle /\ intervention
    /\ \E v \in Versions : manifest_checks(v) /\ manifest' = manifestFor(v, "by hand")
    /\ UNCHANGED <<sources, dist, results, evidence, stage, tags, pin, remote>>

\* Two annotated tags of one commit are as a rule two objects.
Tag ==
    /\ at("tag") /\ tags[stage[2]] = None /\ stage' = <<"idle">>
    /\ \E o \in {1, 2} : tags' = [tags EXCEPT ![stage[2]] = [commit |-> head, object |-> o]]
    /\ UNCHANGED <<sources, files, pin, interventions, remote>>

-----------------------------------------------------------------------------
(* publish-release.sh                                                       *)

\* Fault: the digests of the DARs on disk are not compared.
assetsMatch_Unread(v) == dist[v] # None
assetsMatch(v) == dist[v] # None /\ dar_sha256(dist[v]) = dar_sha256(manifest.package)

\* Fault: a manifest of the version is good enough.
manifestIsFor_Version(v) == manifest # None /\ manifest.release = v
manifestIsFor(v) == manifest # None /\ manifest.release = v /\ manifest.git_commit = head

\* `gh release view` that fails for another reason passes for "no such release".
CheckPublish ==
    /\ idle /\ clean
    /\ \E v \in Versions :
        /\ tags[v] # None /\ tags[v].commit = head /\ manifestIsFor(v) /\ assetsMatch(v)
        /\ stage' = <<"publish", v, "push">>
    /\ UNCHANGED <<sources, files, tags, pin, interventions, remote>>

\* The remote refuses to move a tag it has.
PushTag ==
    /\ stage[1] = "publish" /\ stage[3] = "push"
    /\ LET v == stage[2] IN
       /\ pushed[v] \in {None, tags[v]}
       /\ stage' = <<"publish", v, "create">>
       /\ pushed' = [pushed EXCEPT ![v] = tags[v]]
    /\ UNCHANGED <<sources, files, tags, pin, interventions, published>>

\* GitHub has one release per tag.
CreateRelease ==
    /\ stage[1] = "publish" /\ stage[3] = "create" /\ stage' = <<"idle">>
    /\ LET v == stage[2] IN
       /\ published[v] = None
       /\ published' = [published EXCEPT ![v] = [asset |-> dist[v], manifest |-> manifest]]
    /\ UNCHANGED <<sources, files, tags, pin, interventions, pushed>>

\* A check refuses, a command fails, or the shell is interrupted.
Stop ==
    /\ ~idle /\ stage' = <<"idle">> /\ results' = None
    /\ UNCHANGED <<sources, dist, evidence, manifest, tags, pin, interventions, remote>>

Next ==
    \/ EditSources \/ Commit \/ Checkout \/ Build \/ Retag \/ MakeManifestByHand
    \/ UpstreamMoves
    \/ StartRelease \/ CheckPin \/ VerifyReproducible \/ RunMatrix \/ RecordProof
    \/ QuickstartCheck \/ MakeManifest \/ Tag
    \/ CheckPublish \/ PushTag \/ CreateRelease \/ Stop

Spec == Init /\ [][Next]_vars
-----------------------------------------------------------------------------
Released == {v \in Versions : published[v] # None}

(* A GitHub release, its tag and its manifest name one commit, and the DARs  *)
(* attached have the digests in the manifest, whatever was rebuilt, checked  *)
(* out, retagged or interrupted in between (publish-release.sh).             *)
ReleaseIsOneCommit ==
    \A v \in Released :
        /\ published[v].manifest.release = v
        /\ pushed[v].commit = published[v].manifest.git_commit
        /\ dar_sha256(published[v].asset) = dar_sha256(published[v].manifest.package)

(* "The tag and manifest must describe committed bytes" (publish-release.sh: *)
(* 31, make-release-manifest.py:62): a package ID that is published is in the *)
(* changelog of the commit it names, a manifest written by hand included;    *)
(* after `just release` it was built from the sources of that commit.        *)
BuiltFromTheCommit ==
    \A v \in Released : LET m == published[v].manifest IN
        /\ package_id(published[v].asset) = commits[m.git_commit].changelog
        /\ m.made = "by the recipe" => published[v].asset.sources = m.git_commit

(* Every package `just release` has led to has been through all scripts on   *)
(* each network's own Canton under the package ID it is published with,      *)
(* though it is built once more after the matrix (record-proof.py,           *)
(* verify-reproducible.sh:50-53).                                            *)
ReleaseWasExercised ==
    \A v \in Released, i \in DOMAIN Networks :
        published[v].manifest.made = "by the recipe" => \E e \in evidence :
            /\ e.network = Networks[i] /\ e.canton = canton[Networks[i]]
            /\ e.outcome = "all passed" /\ e.artifacts = package_id(published[v].asset)

(* A release only tags its commit if the upstream tag has resolved to the reviewed *)
(* commit at some moment of that release (check-pin.py:59).                  *)
NoTagOnMovedPin ==
    [][stage[1] = "release" => pinSeen]_tags
=============================================================================
