-------------------------- MODULE ReferenceRecording -------------------------
(* The evidence of the reference deployment: devnet-reference.sh stages DARs, *)
(* uploads them, runs a settle and an award of the same terms on a real clock *)
(* and has record-reference-proof.py (--kind reference) judge what the script *)
(* returned.  Runs follow one another; packages are rebuilt, the tag the      *)
(* localnet is pinned to changes, and a participant that is not the script's  *)
(* own sandbox may hold an earlier build of the same packages.                *)
EXTENDS Naturals, Sequences, FiniteSets

CONSTANTS
    Missing,      \* an absent field, file or evidence
    Networks,     \* networks, each the sequence of the parts of its name
    Tags,         \* Splice image tags, each the sequence of the parts of its name
    Window,       \* the dispute window
    Extra,        \* how much longer than the window the script sleeps
    MaxRuns, MaxTime, MaxBuilds, MaxEdits,
    Forged        \* field of the script's output -> values somebody types over it

ASSUME BoundsAssumption ==
    {Window, MaxRuns, MaxTime, MaxBuilds, MaxEdits} \subseteq Nat /\ Extra \in Nat \ {0}
\* What a participant holds is not an absent value.
ASSUME MissingAssumption == Missing \notin [build : Nat, by : Nat]

VARIABLES
    clock,
    built,        \* the build in packages/*/.daml/dist
    pinned,       \* IMAGE_TAG of .env.localnet
    participant,  \* network -> the build its participant holds, and the run that uploaded it
    run,          \* number of runs started
    stage,        \* how far the current run is
    cur,          \* its arguments, staging directory and what the script holds
    output,       \* script-output.json of the current run directory
    ledger,       \* enactments, each with what the participant held
    edits,
    evidence      \* docs/runbook: file name -> evidence

vars == <<clock, built, pinned, participant, run, stage, cur, output, ledger, edits, evidence>>

Runs == 1 .. MaxRuns
ContractId == {"settle lock", "settle out", "award lock", "award out", "award out 2"} \X Runs
NoRun == [network |-> Missing, tag |-> Missing, staged |-> Missing, deadline |-> Missing,
          settled_at |-> Missing, awake_at |-> Missing, awarded_at |-> Missing]
Sandbox == <<"localnet">>
DockerLocalnet == <<"localnet", "mainnet">>
isTimestamp(t) == t \in 0 .. MaxTime
SetOf(s) == {s[i] : i \in 1 .. Len(s)}
-----------------------------------------------------------------------------
(* The recorder                                                             *)

\* The settle rule pays one receiver, the award splits between its two.
minOutputs == [settle |-> 1, award |-> 2]
\* Fault: the instant of the deadline counts for both paths.
onTime_Inclusive(name, enacted, deadline) ==
    IF name = "settle" THEN enacted <= deadline ELSE enacted >= deadline

onTime(name, enacted, deadline) ==
    IF name = "settle" THEN enacted < deadline ELSE enacted > deadline

PathGate(out, name) ==
    LET p == out[name] IN
    /\ p.lock # Missing /\ p.outputs # <<>> /\ p.rule # Missing
    /\ Len(p.outputs) >= minOutputs[name]
    /\ {p.lock} \cup SetOf(p.outputs) \subseteq ContractId
    /\ isTimestamp(p.enacted_at) /\ isTimestamp(out.deadline)
    /\ onTime(name, p.enacted_at, out.deadline)

allContractIds(out) ==
    <<out["settle"].lock>> \o out["settle"].outputs \o <<out["award"].lock>> \o out["award"].outputs
DistinctGate(out) ==
    LET ids == allContractIds(out) IN Cardinality(SetOf(ids)) = Len(ids)

ReferenceGates(out) ==
    out # Missing /\ PathGate(out, "settle") /\ PathGate(out, "award") /\ DistinctGate(out)

\* Fault: the DARs built now are described instead of those staged.
release_context_Built(staged) == built
release_context(staged) == staged

slug(network, tag) == IF tag = Missing THEN network ELSE network \o tag
Slugs == {slug(n, t) : n \in Networks, t \in Tags \cup {Missing}}

evidenceOf(out) ==
    [run |-> run, network |-> cur.network, tag |-> cur.tag, edited |-> edits > 0,
     artifacts |-> release_context(cur.staged), scripts |-> out]
-----------------------------------------------------------------------------
(* The run                                                                  *)

Init ==
    /\ clock = 0 /\ built = 1 /\ pinned \in Tags /\ run = 0 /\ stage = "none" /\ cur = NoRun
    /\ participant = [n \in Networks |-> Missing]
    /\ output = Missing /\ ledger = {} /\ edits = 0 /\ evidence = [s \in Slugs |-> Missing]

running(s) == stage = s /\ UNCHANGED <<built, pinned, run, edits>>

\* The tag the evidence is filed under: --runtime-tag, or the pin of the Docker localnet.
runtime_tag(network, given) ==
    IF given = Missing /\ network = DockerLocalnet THEN pinned ELSE given

\* DARs of this build, or of an earlier one (--release, --dars), are copied into a
\* fresh run directory.
Stage ==
    /\ stage = "none" /\ run < MaxRuns
    /\ \E network \in Networks, given \in Tags \cup {Missing}, staged \in 1 .. built :
           /\ network = DockerLocalnet => runtime_tag(network, given) # Missing
           /\ cur' = [NoRun EXCEPT !.network = network, !.staged = staged,
                                   !.tag = runtime_tag(network, given)]
    /\ run' = run + 1 /\ stage' = "staged" /\ edits' = 0
    /\ UNCHANGED <<clock, built, pinned, participant, output, ledger, evidence>>

\* The participant takes a build, unless it holds these names and versions already
\* (HTTP 409, which deploy-dars.sh counts as success).
holds(network, build, by) ==
    participant' = [participant EXCEPT ![network] =
                        IF @ = Missing THEN [build |-> build, by |-> by] ELSE @]

Deploy ==
    /\ running("staged") /\ stage' = "deployed" /\ holds(cur.network, cur.staged, run)
    /\ UNCHANGED <<clock, cur, output, ledger, evidence>>

\* Terms are fixed when the script starts.
StartScript ==
    /\ running("deployed") /\ stage' = "locked"
    /\ cur' = [cur EXCEPT !.deadline = clock + Window]
    /\ UNCHANGED <<clock, participant, output, ledger, evidence>>

\* Packages are named, not pinned by ID: what the participant holds is what runs.
enact(what) ==
    ledger' = ledger \cup {[run |-> run, what |-> what, at |-> clock,
                            held |-> participant[cur.network]]}

\* The ledger accepts the settlement strictly before the deadline ...
EnactSettle ==
    /\ running("locked") /\ clock < cur.deadline /\ enact("settle") /\ stage' = "settled"
    /\ UNCHANGED <<clock, participant, cur, output, evidence>>

\* ... and the script asks for the time only after that.
ReadSettleTime ==
    /\ running("settled") /\ stage' = "paid"
    /\ cur' = [cur EXCEPT !.settled_at = clock]
    /\ UNCHANGED <<clock, participant, output, ledger, evidence>>

\* The second lock, of the same terms; the script sleeps from here.
LockAgain ==
    /\ running("paid") /\ stage' = "waiting"
    /\ cur' = [cur EXCEPT !.awake_at = clock + Window + Extra]
    /\ UNCHANGED <<clock, participant, output, ledger, evidence>>

\* The script is awake, and the ledger accepts the award from the deadline on.
EnactAward ==
    /\ running("waiting") /\ clock >= cur.awake_at /\ clock >= cur.deadline
    /\ enact("award") /\ stage' = "awarded"
    /\ UNCHANGED <<clock, participant, cur, output, evidence>>

ReadAwardTime ==
    /\ running("awarded") /\ stage' = "returned"
    /\ cur' = [cur EXCEPT !.awarded_at = clock]
    /\ output' = [deadline |-> cur.deadline,
                  settle |-> [lock |-> <<"settle lock", run>>, outputs |-> <<<<"settle out", run>>>>,
                              rule |-> "settle", enacted_at |-> cur.settled_at],
                  award |-> [lock |-> <<"award lock", run>>,
                             outputs |-> <<<<"award out", run>>, <<"award out 2", run>>>>,
                             rule |-> "award", enacted_at |-> clock]]
    /\ UNCHANGED <<clock, participant, ledger, evidence>>

\* The run directory is left behind, and the sandbox is stopped with what it held.
over ==
    /\ stage' = "none" /\ cur' = NoRun /\ output' = Missing
    /\ participant' = [n \in Networks |-> IF n = Sandbox THEN Missing ELSE participant[n]]

record_reference ==
    /\ running("returned") /\ ReferenceGates(output) /\ over
    /\ evidence' = [evidence EXCEPT ![slug(cur.network, cur.tag)] = evidenceOf(output)]
    /\ UNCHANGED <<clock, ledger>>

\* Any step of the shell script fails, or a gate refuses: the run ends there.
Fail ==
    /\ stage # "none" /\ over
    /\ UNCHANGED <<clock, built, pinned, run, ledger, edits, evidence>>

Rebuild ==
    /\ built < MaxBuilds /\ built' = built + 1
    /\ UNCHANGED <<clock, pinned, participant, run, stage, cur, output, ledger, edits, evidence>>

\* localnet-bootstrap.sh uploads what is built now; no run of this script did (run 0).
Bootstrap ==
    /\ DockerLocalnet \in Networks /\ holds(DockerLocalnet, built, 0)
    /\ UNCHANGED <<clock, built, pinned, run, stage, cur, output, ledger, edits, evidence>>

\* localnet.sh --clean removes the volumes of its participants between runs.
CleanLocalnet ==
    /\ stage = "none" /\ DockerLocalnet \in Networks
    /\ participant' = [participant EXCEPT ![DockerLocalnet] = Missing]
    /\ UNCHANGED <<clock, built, pinned, run, stage, cur, output, ledger, edits, evidence>>

Repin ==
    /\ pinned' \in Tags \cup {Missing}
    /\ UNCHANGED <<clock, built, participant, run, stage, cur, output, ledger, edits, evidence>>

EditOutput ==
    /\ stage = "returned" /\ edits < MaxEdits /\ edits' = edits + 1
    /\ \/ \E f \in DOMAIN Forged, name \in {"settle", "award"} : \E v \in Forged[f] :
              output' = [output EXCEPT ![name][f] = v]
       \/ \E v \in 0 .. MaxTime \cup {Missing} : output' = [output EXCEPT !.deadline = v]
       \/ \E from, to \in {"settle", "award"} : output' = [output EXCEPT ![to] = output[from]]
    /\ UNCHANGED <<clock, built, pinned, participant, run, stage, cur, ledger, evidence>>

Tick ==
    /\ clock < MaxTime /\ clock' = clock + 1
    /\ UNCHANGED <<built, pinned, participant, run, stage, cur, output, ledger, edits, evidence>>

Next ==
    \/ Stage \/ Deploy \/ StartScript \/ EnactSettle \/ ReadSettleTime \/ LockAgain \/ EnactAward
    \/ ReadAwardTime \/ record_reference \/ Fail \/ Rebuild \/ Bootstrap \/ CleanLocalnet
    \/ Repin \/ EditOutput \/ Tick

Spec == Init /\ [][Next]_vars
-----------------------------------------------------------------------------
Written == {s \in Slugs : evidence[s] # Missing}

(* Evidence nobody touched says what the ledger saw: the settlement before   *)
(* the deadline and the award after it, in the run it names, although the    *)
(* times it records are read later than the ledger's (record_reference).     *)
EvidenceIsTrue ==
    \A s \in Written :
        ~evidence[s].edited =>
            \A name \in {"settle", "award"} :
                \E e \in ledger :
                    /\ e.run = evidence[s].run /\ e.what = name
                    /\ e.at <= evidence[s].scripts[name].enacted_at
                    /\ IF name = "settle"
                       THEN evidence[s].scripts[name].enacted_at < evidence[s].scripts.deadline
                       ELSE e.at > evidence[s].scripts.deadline

(* The artifacts in the evidence are the ones both paths of its run enacted, *)
(* however often packages were rebuilt meanwhile (--dar-dir,                 *)
(* record-reference-proof.py:1084-1089).  They may differ only on a          *)
(* participant that is not the sandbox, when it held what somebody else had  *)
(* uploaded before (deploy-dars.sh:166).                                     *)
ArtifactsAreTheEnacted ==
    \A s \in Written, name \in {"settle", "award"} :
        \E e \in ledger :
            /\ e.run = evidence[s].run /\ e.what = name
            /\ \/ e.held.build = evidence[s].artifacts
               \/ evidence[s].network # Sandbox /\ e.held.by # e.run
=============================================================================
