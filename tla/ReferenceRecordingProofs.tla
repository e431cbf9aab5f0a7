----------------------- MODULE ReferenceRecordingProofs -----------------------
(* For any networks, number of runs, rebuilds, repins and edits: evidence of a *)
(* reference deployment that nobody touched is true, and the artifacts it      *)
(* names are those its run enacted, unless its participant is not a sandbox    *)
(* and held what somebody else had uploaded.                                   *)
EXTENDS ReferenceRecording, TLAPS

AfterUpload == {"deployed", "locked", "settled", "paid", "waiting", "awarded", "returned"}
AfterTerms == AfterUpload \ {"deployed"}
Stages == {"none", "staged"} \cup AfterUpload
Held == [build : Nat, by : Nat]

TypesOK ==
    /\ clock \in Nat /\ edits \in Nat /\ run \in Nat /\ built \in Nat /\ stage \in Stages
    /\ DOMAIN cur = DOMAIN NoRun /\ cur = [f \in DOMAIN NoRun |-> cur[f]]
    /\ DOMAIN evidence = Slugs
    /\ \A e \in ledger : e.at \in Nat
    /\ stage # "none" => run # 0 /\ cur.network \in Networks /\ cur.staged \in Nat

\* What a run enacts is what it staged, or what somebody else had uploaded to a
\* participant that is not the sandbox.
Fits(held, r, staged, network) ==
    held.build = staged \/ (network # Sandbox /\ held.by # r)

\* A participant only holds what a run so far or a bootstrap uploaded; there is no
\* sandbox outside a run, and none has the staged packages of a run before its upload.
ParticipantsOK ==
    /\ DOMAIN participant = Networks
    /\ \A n \in Networks :
           /\ participant[n] = Missing \/ (participant[n] \in Held /\ participant[n].by <= run)
           /\ stage \in {"none", "staged"} /\ n = Sandbox => participant[n] = Missing
           /\ stage = "staged" => participant[n] = Missing \/ participant[n].by # run
    /\ stage \in AfterUpload =>
           /\ participant[cur.network] # Missing
           /\ Fits(participant[cur.network], run, cur.staged, cur.network)

\* What the ledger saw of a run: a settlement no later than t, an award after the
\* deadline and no later than t, with packages that fit.
SettleSeen(r, staged, network, t) ==
    \E e \in ledger :
        e.run = r /\ e.what = "settle" /\ e.at <= t /\ Fits(e.held, r, staged, network)
AwardSeen(r, staged, network, deadline, t) ==
    \E e \in ledger :
        /\ e.run = r /\ e.what = "award" /\ e.at > deadline /\ e.at <= t
        /\ Fits(e.held, r, staged, network)

\* How far the current run has come, and what the script holds of it: the second lock
\* is made at or after the first, so sleeping longer than the window ends after the
\* deadline.
RunOK ==
    /\ stage \in AfterTerms => cur.deadline \in Nat /\ cur.deadline <= clock + Window
    /\ stage = "waiting" => cur.awake_at \in Nat /\ cur.deadline < cur.awake_at
    /\ stage = "settled" => SettleSeen(run, cur.staged, cur.network, clock)
    /\ stage \in {"paid", "waiting", "awarded", "returned"} =>
           SettleSeen(run, cur.staged, cur.network, cur.settled_at)
    /\ stage = "awarded" => AwardSeen(run, cur.staged, cur.network, cur.deadline, clock)
    /\ stage = "returned" => AwardSeen(run, cur.staged, cur.network, cur.deadline, cur.awarded_at)

\* The script's output is what it read, until somebody edits it.
OutputOK ==
    stage = "returned" /\ edits = 0 =>
        /\ output.deadline = cur.deadline
        /\ output["settle"].enacted_at = cur.settled_at
        /\ output["award"].enacted_at = cur.awarded_at

IInv ==
    /\ TypesOK /\ ParticipantsOK /\ RunOK /\ OutputOK
    /\ EvidenceIsTrue /\ ArtifactsAreTheEnacted
-------------------------------------------------------------------------------
\* The ledger only grows: what was seen stays seen.
LEMMA StillSeen ==
    ASSUME ledger \subseteq ledger'
    PROVE  /\ \A r, b, n, t : SettleSeen(r, b, n, t) => SettleSeen(r, b, n, t)'
           /\ \A r, b, n, d, t : AwardSeen(r, b, n, d, t) => AwardSeen(r, b, n, d, t)'
BY DEF SettleSeen, AwardSeen, Fits

\* Steps that record no evidence keep what is said of the evidence.
LEMMA EvidenceStays ==
    ASSUME EvidenceIsTrue, ArtifactsAreTheEnacted, evidence' = evidence, ledger \subseteq ledger'
    PROVE  EvidenceIsTrue' /\ ArtifactsAreTheEnacted'
<1>1. Written' = Written
    BY DEF Written
<1>2. EvidenceIsTrue'
    BY <1>1 DEF EvidenceIsTrue
<1>3. ArtifactsAreTheEnacted'
    BY <1>1 DEF ArtifactsAreTheEnacted
<1> QED
    BY <1>2, <1>3

\* The Docker localnet is not the sandbox: its name has two parts.
LEMMA DockerIsNoSandbox == DockerLocalnet # Sandbox
<1>1. Len(DockerLocalnet) = 2 /\ Len(Sandbox) = 1
    BY DEF DockerLocalnet, Sandbox
<1> QED
    BY <1>1

\* The end of a run leaves the participants in order.
LEMMA RunOver ==
    ASSUME IInv, over, run' = run PROVE ParticipantsOK'
BY DEF IInv, ParticipantsOK, over, TypesOK, Stages, AfterUpload

\* The record passes the gates, so the settlement's time is before the deadline.
LEMMA RecordStep == IInv /\ record_reference => IInv'
<1> SUFFICES ASSUME IInv, record_reference PROVE IInv'
    OBVIOUS
<1> DEFINE new == slug(cur.network, cur.tag)
           made == evidenceOf(output)
<1>1. /\ stage = "returned" /\ stage' = "none" /\ cur' = NoRun /\ ReferenceGates(output)
      /\ evidence' = [evidence EXCEPT ![new] = made]
      /\ clock' = clock /\ ledger' = ledger /\ edits' = edits /\ run' = run /\ built' = built
    BY DEF record_reference, running, over
<1>2. /\ made.run = run /\ made.network = cur.network /\ made.tag = cur.tag
      /\ (edits > 0 => made.edited) /\ made.artifacts = cur.staged /\ made.scripts = output
    BY DEF evidenceOf, release_context
<1> HIDE DEF made, new
<1>3. /\ DOMAIN evidence' = Slugs
      /\ \A s \in Slugs : evidence'[s] = IF s = new THEN made ELSE evidence[s]
    BY <1>1 DEF IInv, TypesOK
<1>4. TypesOK' /\ RunOK' /\ OutputOK' /\ ParticipantsOK'
    <2>1. ParticipantsOK'
        BY <1>1, RunOver DEF record_reference
    <2> QED
        BY <1>1, <1>3, <2>1 DEF IInv, TypesOK, RunOK, OutputOK, Stages, AfterUpload, AfterTerms, NoRun
<1>5. \A s \in Written' : s \in Slugs /\ (s # new => s \in Written /\ evidence'[s] = evidence[s])
    BY <1>3 DEF Written
<1>6. /\ SettleSeen(run, cur.staged, cur.network, cur.settled_at)
      /\ AwardSeen(run, cur.staged, cur.network, cur.deadline, cur.awarded_at)
    BY <1>1 DEF IInv, RunOK
<1>7. ArtifactsAreTheEnacted'
    <2> SUFFICES ASSUME NEW s \in Written', NEW name \in {"settle", "award"}
                 PROVE  \E e \in ledger :
                            /\ e.run = evidence'[s].run /\ e.what = name
                            /\ \/ e.held.build = evidence'[s].artifacts
                               \/ evidence'[s].network # Sandbox /\ e.held.by # e.run
        BY <1>1 DEF ArtifactsAreTheEnacted
    <2>1. CASE s = new
        <3>1. \E e \in ledger : /\ e.run = run /\ e.what = name
                                /\ Fits(e.held, run, cur.staged, cur.network)
            BY <1>6 DEF SettleSeen, AwardSeen
        <3> QED
            BY <1>2, <1>3, <1>5, <2>1, <3>1 DEF Fits
    <2>2. CASE s # new
        BY <1>5, <2>2 DEF IInv, ArtifactsAreTheEnacted
    <2> QED
        BY <2>1, <2>2
<1>8. EvidenceIsTrue'
    <2> SUFFICES ASSUME NEW s \in Written', ~evidence'[s].edited, NEW name \in {"settle", "award"}
                 PROVE  \E e \in ledger :
                            /\ e.run = evidence'[s].run /\ e.what = name
                            /\ e.at <= evidence'[s].scripts[name].enacted_at
                            /\ IF name = "settle"
                               THEN evidence'[s].scripts[name].enacted_at < evidence'[s].scripts.deadline
                               ELSE e.at > evidence'[s].scripts.deadline
        BY <1>1 DEF EvidenceIsTrue
    <2>1. CASE s = new
        <3>1. evidence'[s] = made
            BY <1>3, <1>5, <2>1
        <3>2. edits = 0
            BY <1>2, <3>1 DEF IInv, TypesOK
        <3>3. /\ output.deadline = cur.deadline
              /\ output["settle"].enacted_at = cur.settled_at
              /\ output["award"].enacted_at = cur.awarded_at
            BY <1>1, <3>2 DEF IInv, OutputOK
        <3>5. output["settle"].enacted_at < output.deadline
            <4>1. onTime("settle", output["settle"].enacted_at, output.deadline)
                BY <1>1 DEF ReferenceGates, PathGate
            <4> QED
                BY <4>1 DEF onTime
        <3>6. CASE name = "settle"
            BY <1>2, <3>1, <1>6, <3>3, <3>5, <3>6 DEF SettleSeen
        <3>7. CASE name = "award"
            <4>1. PICK e \in ledger : /\ e.run = run /\ e.what = "award"
                                      /\ e.at > cur.deadline /\ e.at <= cur.awarded_at
                BY <1>6 DEF AwardSeen
            <4>2. name = "award" /\ name # "settle"
                BY <3>7
            <4> QED
                BY <1>2, <3>1, <3>3, <4>1, <4>2
        <3> QED
            BY <3>6, <3>7
    <2>2. CASE s # new
        BY <1>5, <2>2 DEF IInv, EvidenceIsTrue
    <2> QED
        BY <2>1, <2>2
<1> QED
    BY <1>4, <1>7, <1>8 DEF IInv
-------------------------------------------------------------------------------
LEMMA Inductive == IInv /\ [Next]_vars => IInv'
<1> SUFFICES ASSUME IInv, [Next]_vars PROVE IInv'
    OBVIOUS
<1> USE DEF IInv, Stages, AfterUpload, AfterTerms
<1>1. CASE record_reference
    BY <1>1, RecordStep
<1>2. CASE Stage
    <2>1. /\ stage = "none" /\ run' = run + 1 /\ stage' = "staged" /\ edits' = 0 /\ clock' = clock
          /\ built' = built /\ participant' = participant /\ ledger' = ledger /\ evidence' = evidence
        BY <1>2 DEF Stage
    <2>2. cur'.network \in Networks /\ cur'.staged \in Nat
          /\ DOMAIN cur' = DOMAIN NoRun /\ cur' = [f \in DOMAIN NoRun |-> cur'[f]]
        <3>1. PICK network \in Networks, given \in Tags \cup {Missing}, staged \in 1 .. built :
                  cur' = [NoRun EXCEPT !.network = network, !.staged = staged,
                                       !.tag = runtime_tag(network, given)]
            BY <1>2 DEF Stage
        <3>2. staged \in Nat
            BY DEF TypesOK
        <3> QED
            BY <3>1, <3>2 DEF NoRun
    <2>3. TypesOK' /\ RunOK' /\ OutputOK'
        BY <2>1, <2>2 DEF TypesOK, RunOK, OutputOK
    <2>4. ParticipantsOK'
        BY <2>1 DEF ParticipantsOK, TypesOK, Held
    <2> QED
        BY <2>1, <2>3, <2>4, EvidenceStays
<1>3. CASE Deploy
    <2> DEFINE upload == [build |-> cur.staged, by |-> run]
               old == participant[cur.network]
    <2>1. /\ stage = "staged" /\ stage' = "deployed" /\ cur' = cur /\ run' = run /\ built' = built
          /\ evidence' = evidence /\ clock' = clock /\ edits' = edits /\ ledger' = ledger
          /\ participant' = [participant EXCEPT ![cur.network] = IF @ = Missing THEN upload ELSE @]
        BY <1>3 DEF Deploy, running, holds
    <2>2. upload \in Held /\ upload.build = cur.staged /\ upload.by = run /\ upload # Missing
        BY <2>1, MissingAssumption DEF TypesOK, Held
    <2> HIDE DEF upload
    <2>3. /\ DOMAIN participant' = Networks
          /\ \A n \in Networks : participant'[n] = IF n = cur.network /\ participant[n] = Missing
                                                   THEN upload ELSE participant[n]
        BY <2>1 DEF ParticipantsOK
    <2>4. cur.network \in Networks
        BY <2>1 DEF TypesOK
    <2>5. /\ participant'[cur.network] # Missing
          /\ Fits(participant'[cur.network], run, cur.staged, cur.network)
        BY <2>1, <2>2, <2>3, <2>4 DEF ParticipantsOK, Fits
    <2>6. \A n \in Networks :
              participant'[n] = Missing \/ (participant'[n] \in Held /\ participant'[n].by <= run)
        BY <2>1, <2>2, <2>3 DEF ParticipantsOK, TypesOK
    <2>7. ParticipantsOK'
        BY <2>1, <2>3, <2>5, <2>6 DEF ParticipantsOK, Fits
    <2>8. TypesOK' /\ RunOK' /\ OutputOK'
        BY <2>1 DEF TypesOK, RunOK, OutputOK
    <2> QED
        BY <2>1, <2>7, <2>8, EvidenceStays
<1>4. CASE StartScript
    <2>1. /\ stage = "deployed" /\ stage' = "locked" /\ cur' = [cur EXCEPT !.deadline = clock + Window]
          /\ run' = run /\ evidence' = evidence /\ clock' = clock /\ edits' = edits /\ ledger' = ledger
          /\ built' = built /\ participant' = participant
        BY <1>4 DEF StartScript, running
    <2>2. cur'.deadline = clock + Window /\ cur'.staged = cur.staged /\ cur'.network = cur.network
          /\ DOMAIN cur' = DOMAIN NoRun /\ cur' = [f \in DOMAIN NoRun |-> cur'[f]]
        BY <2>1 DEF TypesOK, NoRun
    <2>3. TypesOK' /\ RunOK' /\ OutputOK'
        BY <2>1, <2>2, BoundsAssumption DEF TypesOK, RunOK, OutputOK
    <2>4. ParticipantsOK'
        BY <2>1, <2>2 DEF ParticipantsOK
    <2> QED
        BY <2>1, <2>3, <2>4, EvidenceStays
<1>5. CASE EnactSettle
    <2> DEFINE e == [run |-> run, what |-> "settle", at |-> clock, held |-> participant[cur.network]]
    <2>1. /\ stage = "locked" /\ stage' = "settled" /\ cur' = cur /\ run' = run /\ evidence' = evidence
          /\ clock' = clock /\ edits' = edits /\ ledger' = ledger \cup {e} /\ built' = built
          /\ participant' = participant
          /\ e.run = run /\ e.what = "settle" /\ e.at = clock /\ e.held = participant[cur.network]
        BY <1>5 DEF EnactSettle, running, enact
    <2> HIDE DEF e
    <2>2. SettleSeen(run, cur.staged, cur.network, clock)'
        BY <2>1 DEF SettleSeen, TypesOK, ParticipantsOK
    <2>3. TypesOK' /\ RunOK' /\ OutputOK'
        BY <2>1, <2>2 DEF TypesOK, RunOK, OutputOK
    <2>4. ParticipantsOK'
        BY <2>1 DEF ParticipantsOK
    <2> QED
        BY <2>1, <2>3, <2>4, EvidenceStays
<1>6. CASE ReadSettleTime
    <2>1. /\ stage = "settled" /\ stage' = "paid" /\ cur' = [cur EXCEPT !.settled_at = clock]
          /\ run' = run /\ evidence' = evidence /\ clock' = clock /\ edits' = edits /\ ledger' = ledger
          /\ built' = built /\ participant' = participant
        BY <1>6 DEF ReadSettleTime, running
    <2>2. cur'.settled_at = clock /\ cur'.deadline = cur.deadline /\ cur'.staged = cur.staged
          /\ cur'.network = cur.network
          /\ DOMAIN cur' = DOMAIN NoRun /\ cur' = [f \in DOMAIN NoRun |-> cur'[f]]
        BY <2>1 DEF TypesOK, NoRun
    <2>3. TypesOK' /\ RunOK' /\ OutputOK'
        BY <2>1, <2>2, StillSeen DEF TypesOK, RunOK, OutputOK
    <2>4. ParticipantsOK'
        BY <2>1, <2>2 DEF ParticipantsOK
    <2> QED
        BY <2>1, <2>3, <2>4, EvidenceStays
<1>7. CASE LockAgain
    <2>1. /\ stage = "paid" /\ stage' = "waiting"
          /\ cur' = [cur EXCEPT !.awake_at = clock + Window + Extra]
          /\ run' = run /\ evidence' = evidence /\ clock' = clock /\ edits' = edits /\ ledger' = ledger
          /\ built' = built /\ participant' = participant
        BY <1>7 DEF LockAgain, running
    <2>2. /\ cur'.awake_at = clock + Window + Extra /\ cur'.settled_at = cur.settled_at
          /\ cur'.deadline = cur.deadline /\ cur'.staged = cur.staged /\ cur'.network = cur.network
          /\ DOMAIN cur' = DOMAIN NoRun /\ cur' = [f \in DOMAIN NoRun |-> cur'[f]]
        BY <2>1 DEF TypesOK, NoRun
    <2>3. cur'.awake_at \in Nat /\ cur.deadline < cur'.awake_at
        BY <2>1, <2>2, BoundsAssumption DEF TypesOK, RunOK
    <2>4. TypesOK' /\ RunOK' /\ OutputOK'
        BY <2>1, <2>2, <2>3, StillSeen DEF TypesOK, RunOK, OutputOK
    <2>5. ParticipantsOK'
        BY <2>1, <2>2 DEF ParticipantsOK
    <2> QED
        BY <2>1, <2>4, <2>5, EvidenceStays
<1>8. CASE EnactAward
    <2> DEFINE e == [run |-> run, what |-> "award", at |-> clock, held |-> participant[cur.network]]
    <2>1. /\ stage = "waiting" /\ stage' = "awarded" /\ cur' = cur /\ run' = run /\ evidence' = evidence
          /\ clock >= cur.awake_at /\ built' = built /\ participant' = participant
          /\ clock' = clock /\ edits' = edits /\ ledger' = ledger \cup {e}
          /\ e.run = run /\ e.what = "award" /\ e.at = clock /\ e.held = participant[cur.network]
        BY <1>8 DEF EnactAward, running, enact
    <2> HIDE DEF e
    <2>2. clock > cur.deadline
        BY <2>1 DEF RunOK, TypesOK
    <2>3. AwardSeen(run, cur.staged, cur.network, cur.deadline, clock)'
        BY <2>1, <2>2 DEF AwardSeen, TypesOK, ParticipantsOK
    <2>4. TypesOK' /\ RunOK' /\ OutputOK'
        BY <2>1, <2>3, StillSeen DEF TypesOK, RunOK, OutputOK
    <2>5. ParticipantsOK'
        BY <2>1 DEF ParticipantsOK
    <2> QED
        BY <2>1, <2>4, <2>5, EvidenceStays
<1>9. CASE ReadAwardTime
    <2>1. /\ stage = "awarded" /\ stage' = "returned" /\ cur' = [cur EXCEPT !.awarded_at = clock]
          /\ run' = run /\ evidence' = evidence /\ clock' = clock /\ edits' = edits /\ ledger' = ledger
          /\ built' = built /\ participant' = participant
          /\ output'.deadline = cur.deadline
          /\ output'["settle"].enacted_at = cur.settled_at /\ output'["award"].enacted_at = clock
        BY <1>9 DEF ReadAwardTime, running
    <2>2. /\ cur'.awarded_at = clock /\ cur'.deadline = cur.deadline /\ cur'.staged = cur.staged
          /\ cur'.settled_at = cur.settled_at /\ cur'.network = cur.network
          /\ DOMAIN cur' = DOMAIN NoRun /\ cur' = [f \in DOMAIN NoRun |-> cur'[f]]
        BY <2>1 DEF TypesOK, NoRun
    <2>3. TypesOK' /\ RunOK' /\ OutputOK'
        BY <2>1, <2>2, StillSeen DEF TypesOK, RunOK, OutputOK
    <2>4. ParticipantsOK'
        BY <2>1, <2>2 DEF ParticipantsOK
    <2> QED
        BY <2>1, <2>3, <2>4, EvidenceStays
<1>10. CASE Fail
    <2>1. /\ stage' = "none" /\ cur' = NoRun /\ clock' = clock /\ run' = run /\ built' = built
          /\ edits' = edits /\ ledger' = ledger /\ evidence' = evidence /\ over
        BY <1>10 DEF Fail, over
    <2>2. TypesOK' /\ RunOK' /\ OutputOK'
        BY <2>1 DEF TypesOK, RunOK, OutputOK, NoRun
    <2> QED
        BY <2>1, <2>2, RunOver, EvidenceStays
<1>11. CASE EditOutput
    <2>1. /\ clock' = clock /\ run' = run /\ stage' = stage /\ cur' = cur /\ ledger' = ledger
          /\ evidence' = evidence /\ edits' = edits + 1 /\ built' = built /\ participant' = participant
        BY <1>11 DEF EditOutput
    <2>2. TypesOK' /\ RunOK' /\ OutputOK' /\ ParticipantsOK'
        BY <2>1, StillSeen DEF TypesOK, RunOK, OutputOK, ParticipantsOK
    <2> QED
        BY <2>1, <2>2, EvidenceStays
<1>12. CASE Tick
    <2>1. /\ clock' = clock + 1 /\ run' = run /\ stage' = stage /\ cur' = cur /\ ledger' = ledger
          /\ evidence' = evidence /\ edits' = edits /\ output' = output /\ built' = built
          /\ participant' = participant
        BY <1>12 DEF Tick
    <2>2. /\ stage = "settled" => SettleSeen(run, cur.staged, cur.network, clock')
          /\ stage = "awarded" => AwardSeen(run, cur.staged, cur.network, cur.deadline, clock')
        <3>1. \A e \in ledger : e.at <= clock => e.at <= clock'
            BY <2>1 DEF TypesOK
        <3> QED
            BY <2>1, <3>1 DEF RunOK, SettleSeen, AwardSeen
    <2>3. stage \in AfterTerms => cur.deadline \in Nat /\ cur.deadline <= clock' + Window
        BY <2>1, BoundsAssumption DEF RunOK, TypesOK
    <2>4. TypesOK' /\ RunOK' /\ OutputOK' /\ ParticipantsOK'
        BY <2>1, <2>2, <2>3, StillSeen DEF TypesOK, RunOK, OutputOK, ParticipantsOK
    <2> QED
        BY <2>1, <2>4, EvidenceStays
<1>13. CASE Bootstrap
    <2> DEFINE upload == [build |-> built, by |-> 0]
    <2>1. /\ clock' = clock /\ run' = run /\ stage' = stage /\ cur' = cur /\ ledger' = ledger
          /\ evidence' = evidence /\ edits' = edits /\ output' = output /\ built' = built
          /\ DockerLocalnet \in Networks
          /\ participant' = [participant EXCEPT ![DockerLocalnet] =
                                IF @ = Missing THEN upload ELSE @]
        BY <1>13 DEF Bootstrap, holds
    <2>2. upload \in Held /\ upload.by = 0
        BY DEF TypesOK, Held
    <2> HIDE DEF upload
    <2>3. /\ DOMAIN participant' = Networks
          /\ \A n \in Networks : participant'[n] = IF n = DockerLocalnet /\ participant[n] = Missing
                                                   THEN upload ELSE participant[n]
        BY <2>1 DEF ParticipantsOK
    <2>4. \A n \in Networks :
              /\ participant'[n] = Missing \/ (participant'[n] \in Held /\ participant'[n].by <= run)
              /\ stage \in {"none", "staged"} /\ n = Sandbox => participant'[n] = Missing
              /\ stage = "staged" => participant'[n] = Missing \/ participant'[n].by # run
        BY <2>2, <2>3, DockerIsNoSandbox DEF ParticipantsOK, TypesOK
    <2>5. stage \in AfterUpload => participant'[cur.network] = participant[cur.network]
        BY <2>3 DEF ParticipantsOK, TypesOK
    <2>6. ParticipantsOK'
        BY <2>1, <2>3, <2>4, <2>5 DEF ParticipantsOK
    <2>7. TypesOK' /\ RunOK' /\ OutputOK'
        BY <2>1, StillSeen DEF TypesOK, RunOK, OutputOK
    <2> QED
        BY <2>1, <2>6, <2>7, EvidenceStays
<1>14. CASE CleanLocalnet
    <2>1. /\ clock' = clock /\ run' = run /\ stage' = stage /\ cur' = cur /\ ledger' = ledger
          /\ evidence' = evidence /\ edits' = edits /\ output' = output /\ built' = built
          /\ stage = "none" /\ participant' = [participant EXCEPT ![DockerLocalnet] = Missing]
        BY <1>14 DEF CleanLocalnet
    <2>2. ParticipantsOK'
        BY <2>1 DEF ParticipantsOK
    <2>3. TypesOK' /\ RunOK' /\ OutputOK'
        BY <2>1, StillSeen DEF TypesOK, RunOK, OutputOK
    <2> QED
        BY <2>1, <2>2, <2>3, EvidenceStays
<1>15. CASE Rebuild \/ Repin \/ UNCHANGED vars
    <2>1. /\ clock' = clock /\ run' = run /\ stage' = stage /\ cur' = cur /\ ledger' = ledger
          /\ evidence' = evidence /\ edits' = edits /\ output' = output /\ participant' = participant
          /\ built' \in Nat
        BY <1>15 DEF Rebuild, Repin, vars, TypesOK
    <2>2. TypesOK' /\ RunOK' /\ OutputOK' /\ ParticipantsOK'
        BY <2>1, StillSeen DEF TypesOK, RunOK, OutputOK, ParticipantsOK
    <2> QED
        BY <2>1, <2>2, EvidenceStays
<1> QED
    BY <1>1, <1>2, <1>3, <1>4, <1>5, <1>6, <1>7, <1>8, <1>9, <1>10, <1>11, <1>12, <1>13, <1>14,
       <1>15 DEF Next

LEMMA Invariance == Spec => []IInv
<1>1. Init => IInv
    BY DEF Init, IInv, TypesOK, ParticipantsOK, RunOK, OutputOK, EvidenceIsTrue,
           ArtifactsAreTheEnacted, Written, Stages, AfterUpload, AfterTerms, NoRun
<1> QED
    BY <1>1, Inductive, PTL DEF Spec

(* Evidence nobody touched is of a settlement before and of an award after the *)
(* deadline in the run it names, for any bounds, window and sleep beyond it    *)
(* (record_reference).                                                         *)
THEOREM EvidenceAlwaysTrue == Spec => []EvidenceIsTrue
<1>1. IInv => EvidenceIsTrue
    BY DEF IInv
<1> QED
    BY <1>1, Invariance, PTL

(* The artifacts named are those both paths of the run enacted, also over      *)
(* edited output and rebuilt packages (--dar-dir); on a participant that is    *)
(* not the sandbox, unless it held what somebody else had uploaded, which the  *)
(* deployment counts as success (deploy-dars.sh:166).                          *)
THEOREM ArtifactsAlwaysTheEnacted == Spec => []ArtifactsAreTheEnacted
<1>1. IInv => ArtifactsAreTheEnacted
    BY DEF IInv
<1> QED
    BY <1>1, Invariance, PTL
===============================================================================
