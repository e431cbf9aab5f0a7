--------------------------- MODULE LocalnetPinProofs ---------------------------
(* For any number of releases, crashes and edits: a compatibility check that   *)
(* passes is right, a sync that ends has repaired the tree and left no line of *)
(* an env file with another release, and the documents follow the pin.         *)
EXTENDS LocalnetPin, TLAPS, WellFoundedInduction

Stages == {"idle", "remove", "move", "others", "env", "dir", "docs", "done"}
Placed == {"others", "env", "dir", "docs", "done"}
Syncs == [stage : Stages, tag : Tags \union {None}, old : Tags \union {None}, file : Files]

\* Nothing but write_source_json writes a SOURCE.json, and it moves with its tree.
SourcesOK ==
    \A t \in Tags :
        trees[t] = None \/ trees[t].source = None \/ trees[t].source = synced(t).source

Contents == {"release", "edited", "part"} \X Tags
Modes == {"as released", "edited"}
Tree == [content : Contents, mode : Modes,
         source : {None} \union [tag : Tags, tree_sha256 : Contents \X Modes]]

TypesOK ==
    /\ trees \in [Tags -> Tree \union {None}]
    /\ envs \in [Files -> EnvFile \union {None}] /\ docs \in Tags
    /\ crashes \in Nat /\ edits \in Nat
    /\ sync \in Syncs /\ (sync.stage # "idle" => sync.tag \in Tags)

\* No line of this env file pins another release than the sync's.
Repinned(f) == envs[f] # None => {envs[f].tag, envs[f].dir} \subseteq {sync.tag, None}

\* How far a sync has come.
ProgressOK ==
    /\ sync.stage \in Placed =>
          sameBytes(trees[sync.tag], released(sync.tag)) /\ trees[sync.tag].source = synced(sync.tag).source
    /\ sync.stage \in {"remove", "move", "others"} => sync.file = "example"
    /\ sync.stage = "dir" =>
          envs[sync.file] # None /\ envs[sync.file].tag \in {sync.tag, None}
    /\ sync.stage \in {"env", "dir"} /\ sync.file = "local" => Repinned("example")
    /\ sync.stage \in {"docs", "done"} => \A f \in Files : Repinned(f)

\* An IMAGE_TAG line is only lost by an edit.
LinesOK == edits = 0 => \A f \in Files : envs[f] # None => envs[f].tag # None

\* Without crashes and edits one tree is there, except while a sync is at work,
\* and the documents name it.
OneTree(tag) == \A t \in Tags : trees[t] = IF t = tag THEN synced(t) ELSE None
DocsOK ==
    crashes = 0 /\ edits = 0 =>
        /\ sync.stage \in {"idle", "done"} => OneTree(docs)
        /\ sync.stage \in {"remove", "move"} =>
              OneTree(docs) /\ sync.old = docs /\ sync.tag # docs
        /\ sync.stage = "others" =>
              /\ \A t \in Tags : trees[t] \in {None, synced(t)} /\ (trees[t] # None => t \in {docs, sync.tag})
              /\ trees[sync.tag] = synced(sync.tag) /\ sync.old = docs /\ sync.tag # docs
        /\ sync.stage \in {"env", "dir", "docs"} =>
              /\ OneTree(sync.tag)
              /\ (sync.old = None /\ docs = sync.tag) \/ sync.old = docs
        /\ sync.stage = "docs" => sync.old = docs
        /\ sync.stage = "done" => docs = sync.tag

IInv == TypesOK /\ SourcesOK /\ ProgressOK /\ LinesOK /\ DocsOK

\* CHOOSE the first in name order: it is one of them.
LEMMA LowestTag ==
    ASSUME NEW S, S \subseteq Tags, S # {}
    PROVE  (CHOOSE t \in S : \A u \in S : t <= u) \in S
<1>1. S \subseteq Nat
    BY DEF Tags
<1>2. PICK t \in S : \A u \in S : <<u, t>> \notin OpToRel(<, Nat)
    BY <1>1, WFMin, NatLessThanWellFounded, Zenon
<1>3. \A u \in S : <<u, t>> \in Nat \X Nat /\ ~(u < t)
    BY <1>1, <1>2 DEF OpToRel
<1>4. ASSUME NEW u \in S PROVE t <= u
    <2>1. t \in Nat /\ u \in Nat /\ ~(u < t)
        BY <1>1, <1>3
    <2> QED
        BY <2>1
<1> QED
    BY <1>4

LEMMA Absent == None \notin Tags /\ \A t \in Tags : synced(t) # None /\ synced(t).source # None
BY NoneAssumption

LEMMA Written ==
    \A t \in Tags :
        /\ synced(t).content = released(t).content
        /\ synced(t).source.tag = t
        /\ synced(t).source.tree_sha256 = tree_sha256(released(t))
BY DEF synced, released, write_source_json

LEMMA TreesTyped ==
    \A t \in Tags :
        /\ released(t) \in Tree /\ synced(t) \in Tree
        /\ [released(t) EXCEPT !.content = <<"part", t>>] \in Tree
        /\ [synced(t) EXCEPT !.content = <<"part", t>>] \in Tree
<1> SUFFICES ASSUME NEW t \in Tags
             PROVE  /\ released(t) \in Tree /\ synced(t) \in Tree
                    /\ [released(t) EXCEPT !.content = <<"part", t>>] \in Tree
                    /\ [synced(t) EXCEPT !.content = <<"part", t>>] \in Tree
    OBVIOUS
<1>1. <<"release", t>> \in Contents /\ <<"part", t>> \in Contents
    BY DEF Contents
<1>2. released(t) \in Tree
    BY <1>1 DEF released, Tree, Modes
<1>3. tree_sha256(released(t)) \in Contents \X Modes
    BY <1>2 DEF Tree, tree_sha256
<1>4. [tag |-> t, tree_sha256 |-> tree_sha256(released(t))] \in [tag : Tags, tree_sha256 : Contents \X Modes]
    BY <1>3
<1>5. \A source \in [tag : Tags, tree_sha256 : Contents \X Modes], tree \in Tree :
         [tree EXCEPT !.source = source] \in Tree
    BY DEF Tree
<1>6. synced(t) \in Tree
    BY <1>2, <1>4, <1>5 DEF synced, write_source_json
<1>7. \A content \in Contents, tree \in Tree : [tree EXCEPT !.content = content] \in Tree
    BY DEF Tree
<1> QED
    BY <1>1, <1>2, <1>6, <1>7

LEMMA InitEstablishes == Init => IInv
<1> SUFFICES ASSUME Init PROVE IInv
    OBVIOUS
<1> USE BoundsAssumption
<1>1. 1 \in Tags
    BY DEF Tags
<1>2. /\ envs \in [Files -> EnvFile \union {None}] /\ NoSync \in Syncs
      /\ LinesOK
    BY <1>1, Absent DEF Init, EnvFile, Files, NoSync, Syncs, Stages, LinesOK
<1>3. TypesOK
    BY <1>1, <1>2, TreesTyped DEF TypesOK, Init, NoSync
<1>4. SourcesOK
    BY <1>1 DEF SourcesOK, Init
<1>5. ProgressOK
    BY DEF ProgressOK, Init, NoSync, Placed
<1>6. DocsOK
    BY <1>1 DEF DocsOK, Init, NoSync, OneTree
<1> QED
    BY <1>2, <1>3, <1>4, <1>5, <1>6 DEF IInv

\* What a sync finds to do when it starts.
LEMMA BeginKeeps == IInv /\ Begin => IInv'
<1> SUFFICES ASSUME IInv, Begin PROVE IInv'
    OBVIOUS
<1>1. PICK tag \in Tags :
         sync' = IF nothingToDo(tag)
                 THEN [stage |-> "env", tag |-> tag, old |-> None, file |-> "example"]
                 ELSE [stage |-> "remove", tag |-> tag, old |-> oldTag(tag), file |-> "example"]
    BY DEF Begin, NoSync
<1>2. UNCHANGED <<live, expected, crashes, edits, trees, envs, docs>> /\ sync.stage \in {"idle", "done"}
    BY DEF Begin, rest
<1>3. oldTag(tag) \in Tags \union {None}
    <2>1. SyncedTags \ {tag} \subseteq Tags
        BY DEF SyncedTags
    <2> QED
        BY <2>1, LowestTag DEF oldTag
<1>4. TypesOK'
    BY <1>1, <1>2, <1>3 DEF IInv, TypesOK, Syncs, Stages, Files
<1>5. SourcesOK'
    BY <1>2 DEF IInv, SourcesOK
<1>6. ProgressOK'
    BY <1>1, <1>2 DEF ProgressOK, Placed, nothingToDo, Repinned
<1>7. DocsOK'
    <2> SUFFICES ASSUME crashes = 0, edits = 0 PROVE DocsOK'
        BY <1>2 DEF DocsOK
    <2>1. OneTree(docs) /\ docs \in Tags
        BY <1>2 DEF IInv, DocsOK, TypesOK
    <2>2. OneTree(docs)'
        BY <2>1, <1>2 DEF OneTree
    <2>3. SyncedTags = {docs}
        BY <2>1, Absent DEF OneTree, SyncedTags
    <2>4. nothingToDo(docs)
        BY <2>1, Absent, Written DEF OneTree, nothingToDo, sameBytes
    <2>5. CASE nothingToDo(tag)
        <3>1. tag = docs
            BY <2>1, <2>5 DEF nothingToDo, OneTree
        <3> QED
            BY <1>1, <1>2, <2>2, <2>5, <3>1 DEF DocsOK
    <2>6. CASE ~nothingToDo(tag)
        <3>1. tag # docs
            BY <2>4, <2>6
        <3>2. oldTag(tag) = docs
            <4>1. SyncedTags \ {tag} = {docs}
                BY <2>3, <3>1
            <4>2. oldTag(tag) \in {docs}
                BY <4>1, <2>1, LowestTag DEF oldTag
            <4> QED
                BY <4>2
        <3> QED
            BY <1>1, <1>2, <2>2, <2>6, <3>1, <3>2 DEF DocsOK
    <2> QED
        BY <2>5, <2>6
<1> QED
    BY <1>2, <1>4, <1>5, <1>6, <1>7 DEF IInv, LinesOK

LEMMA RemoveTargetKeeps == IInv /\ RemoveTarget => IInv'
<1> SUFFICES ASSUME IInv, RemoveTarget PROVE IInv'
    OBVIOUS
<1> USE DEF RemoveTarget, goto, rest
<1>1. TypesOK'
    BY DEF IInv, TypesOK, Syncs, Stages, Files
<1>2. SourcesOK'
    BY DEF IInv, TypesOK, SourcesOK
<1>3. ProgressOK'
    BY DEF IInv, TypesOK, Syncs, ProgressOK, Placed, Repinned
<1>4. DocsOK'
    BY DEF IInv, TypesOK, Syncs, DocsOK, OneTree
<1> QED
    BY <1>1, <1>2, <1>3, <1>4 DEF IInv, LinesOK

LEMMA MoveTargetKeeps == IInv /\ MoveTarget => IInv'
<1> SUFFICES ASSUME IInv, MoveTarget PROVE IInv'
    OBVIOUS
<1> USE DEF MoveTarget, goto, rest
<1>1. TypesOK'
    BY TreesTyped DEF IInv, TypesOK, Syncs, Stages, Files
<1>2. SourcesOK'
    BY TreesTyped DEF IInv, TypesOK, SourcesOK
<1>3. ProgressOK'
    BY Written DEF IInv, TypesOK, Syncs, ProgressOK, Placed, Repinned, sameBytes
<1>4. DocsOK'
    BY DEF IInv, TypesOK, Syncs, DocsOK, OneTree
<1> QED
    BY <1>1, <1>2, <1>3, <1>4 DEF IInv, LinesOK

LEMMA RemoveOtherKeeps == IInv /\ RemoveOther => IInv'
<1> SUFFICES ASSUME IInv, RemoveOther PROVE IInv'
    OBVIOUS
<1> DEFINE t == CHOOSE u \in others : \A v \in others : u <= v
<1>1. t \in Tags \ {sync.tag}
    BY LowestTag DEF RemoveOther, others
<1>2. /\ sync.stage = "others" /\ trees' = [trees EXCEPT ![t] = None]
      /\ UNCHANGED <<live, expected, crashes, edits, envs, docs, sync>>
    BY DEF RemoveOther, rest
<1> HIDE DEF t
<1>3. TypesOK'
    BY <1>1, <1>2 DEF IInv, TypesOK
<1>4. SourcesOK'
    BY <1>1, <1>2 DEF IInv, TypesOK, SourcesOK
<1>5. ProgressOK'
    BY <1>1, <1>2 DEF IInv, TypesOK, Syncs, ProgressOK, Placed, Repinned
<1>6. DocsOK'
    BY <1>1, <1>2 DEF IInv, TypesOK, DocsOK
<1> QED
    BY <1>1, <1>2, <1>3, <1>4, <1>5, <1>6 DEF IInv, LinesOK

LEMMA OthersRemovedKeeps == IInv /\ OthersRemoved => IInv'
<1> SUFFICES ASSUME IInv, OthersRemoved PROVE IInv'
    OBVIOUS
<1> USE DEF OthersRemoved, goto, rest
<1>1. TypesOK'
    BY DEF IInv, TypesOK, Syncs, Stages, Files
<1>2. SourcesOK'
    BY DEF IInv, SourcesOK
<1>3. ProgressOK'
    BY DEF IInv, TypesOK, Syncs, ProgressOK, Placed, Repinned
<1>4. DocsOK'
    BY DEF IInv, TypesOK, Syncs, DocsOK, OneTree, others
<1> QED
    BY <1>1, <1>2, <1>3, <1>4 DEF IInv, LinesOK

\* The file that comes next, and what is said of the one before it.
LEMMA NextFileKeeps ==
    ASSUME IInv, nextFile, sync.stage \in {"env", "dir"},
           NEW file, file = sync.file, Repinned(file)',
           envs' \in [Files -> EnvFile \union {None}], LinesOK',
           \A f \in Files : f # sync.file => envs'[f] = envs[f],
           UNCHANGED <<live, expected, crashes, edits, trees, docs>>
    PROVE  IInv'
<1>1. /\ sync'.tag = sync.tag /\ sync'.old = sync.old /\ sync' \in Syncs /\ sync'.tag \in Tags
      /\ sync.file \in Files
      /\ IF sync.file = "example" THEN sync'.stage = "env" /\ sync'.file = "local"
         ELSE sync'.stage = IF sync.old = None THEN "done" ELSE "docs"
    BY DEF nextFile, IInv, TypesOK, Syncs, Stages, Files
<1>2. TypesOK'
    BY <1>1 DEF IInv, TypesOK
<1>3. SourcesOK'
    BY DEF IInv, SourcesOK
<1>4. ProgressOK'
    <2>1. /\ sameBytes(trees'[sync'.tag], released(sync'.tag))
          /\ trees'[sync'.tag].source = synced(sync'.tag).source
        BY <1>1 DEF IInv, ProgressOK, Placed
    <2>2. CASE sync.file = "example"
        BY <1>1, <2>1, <2>2 DEF ProgressOK, Repinned
    <2>3. CASE sync.file = "local"
        <3>1. Repinned("example")' /\ Repinned("local")'
            BY <1>1, <2>3 DEF IInv, ProgressOK, Repinned, Files
        <3>2. \A f \in Files : Repinned(f)'
            BY <3>1 DEF Repinned, Files
        <3> QED
            BY <1>1, <2>1, <2>3, <3>1, <3>2 DEF ProgressOK, Repinned
    <2> QED
        BY <1>1, <2>2, <2>3 DEF Files
<1>5. DocsOK'
    <2> SUFFICES ASSUME crashes = 0, edits = 0 PROVE DocsOK'
        BY DEF DocsOK
    <2>1. /\ OneTree(sync.tag) /\ OneTree(sync.tag)'
          /\ (sync.old = None /\ docs = sync.tag) \/ sync.old = docs
        BY <1>1 DEF IInv, DocsOK, OneTree
    <2>2. docs \in Tags /\ None \notin Tags
        BY Absent DEF IInv, TypesOK
    <2> QED
        BY <1>1, <2>1, <2>2 DEF DocsOK, OneTree
<1> QED
    BY <1>2, <1>3, <1>4, <1>5 DEF IInv

LEMMA SkipMissingKeeps == IInv /\ SkipMissing => IInv'
<1> SUFFICES ASSUME IInv, SkipMissing PROVE IInv'
    OBVIOUS
<1>1. /\ sync.stage = "env" /\ envs[sync.file] = None /\ nextFile
      /\ UNCHANGED <<live, expected, crashes, edits, trees, envs, docs>>
    BY DEF SkipMissing, rest
<1>0. PICK file : file = sync.file
    OBVIOUS
<1>2. LinesOK'
    BY <1>1 DEF IInv, LinesOK
<1>3. file = sync.file /\ Repinned(file)'
    BY <1>0, <1>1 DEF Repinned
<1> QED
    BY <1>1, <1>2, <1>3, NextFileKeeps DEF IInv, TypesOK

LEMMA RefuseLegacyKeeps == IInv /\ RefuseLegacy => IInv'
<1> SUFFICES ASSUME IInv, RefuseLegacy PROVE IInv'
    OBVIOUS
<1>1. /\ envs["local"] # None /\ envs["local"].tag = None /\ sync' = NoSync
      /\ UNCHANGED <<live, expected, crashes, edits, trees, envs, docs>>
    BY DEF RefuseLegacy, legacy, rest
<1>2. edits # 0
    BY <1>1 DEF IInv, LinesOK, Files
<1> QED
    BY <1>1, <1>2 DEF IInv, TypesOK, SourcesOK, ProgressOK, LinesOK, DocsOK, NoSync, Syncs, Stages,
                      Placed, Files

LEMMA ImageTagKeeps == IInv /\ rewriteImageTag => IInv'
<1> SUFFICES ASSUME IInv, rewriteImageTag PROVE IInv'
    OBVIOUS
<1>1. /\ sync.stage = "env" /\ envs[sync.file] # None /\ sync' = [sync EXCEPT !.stage = "dir"]
      /\ envs' = [envs EXCEPT ![sync.file].tag = repinned(envs[sync.file].tag)]
      /\ UNCHANGED <<live, expected, crashes, edits, trees, docs>>
    BY DEF rewriteImageTag, goto, rest
<1>2. /\ sync.file \in Files /\ sync.tag \in Tags /\ envs[sync.file] \in EnvFile
      /\ sync' \in Syncs /\ sync'.tag = sync.tag /\ sync'.file = sync.file /\ sync'.old = sync.old
      /\ sync'.stage = "dir"
    BY <1>1 DEF IInv, TypesOK, Syncs, Stages
<1> DEFINE new == [envs[sync.file] EXCEPT !.tag = repinned(envs[sync.file].tag)]
<1>3. /\ new \in EnvFile /\ new.tag \in {sync.tag, None}
      /\ envs[sync.file].tag # None => new.tag # None
    BY <1>2, Absent DEF repinned, EnvFile
<1>4. envs' = [envs EXCEPT ![sync.file] = new] /\ new # None
    BY <1>1, <1>3, NoneAssumption
<1> HIDE DEF new
<1>5. TypesOK'
    BY <1>1, <1>2, <1>3, <1>4 DEF IInv, TypesOK
<1>6. SourcesOK'
    BY <1>1 DEF IInv, SourcesOK
<1>7. ProgressOK'
    <2>1. envs'[sync.file] = new /\ \A f \in Files : f # sync.file => envs'[f] = envs[f]
        BY <1>2, <1>4 DEF IInv, TypesOK
    <2>2. sync.file = "local" => Repinned("example")'
        <3>1. sync.file = "local" => Repinned("example") /\ envs'["example"] = envs["example"]
            BY <1>1, <2>1 DEF IInv, ProgressOK, Files
        <3> QED
            BY <1>2, <3>1 DEF Repinned
    <2> QED
        BY <1>1, <1>2, <1>3, <1>4, <2>1, <2>2 DEF IInv, ProgressOK, Placed
<1>8. LinesOK'
    BY <1>1, <1>2, <1>3, <1>4 DEF IInv, TypesOK, LinesOK
<1>9. DocsOK'
    BY <1>1, <1>2 DEF IInv, DocsOK, OneTree
<1> QED
    BY <1>5, <1>6, <1>7, <1>8, <1>9 DEF IInv

LEMMA LocalnetDirKeeps == IInv /\ rewriteLocalnetDir => IInv'
<1> SUFFICES ASSUME IInv, rewriteLocalnetDir PROVE IInv'
    OBVIOUS
<1>1. /\ sync.stage = "dir" /\ nextFile
      /\ envs' = [envs EXCEPT ![sync.file].dir = repinned(envs[sync.file].dir)]
      /\ UNCHANGED <<live, expected, crashes, edits, trees, docs>>
    BY DEF rewriteLocalnetDir, rest
<1>2. /\ sync.file \in Files /\ sync.tag \in Tags /\ envs[sync.file] \in EnvFile
      /\ envs[sync.file].tag \in {sync.tag, None}
    BY <1>1 DEF IInv, TypesOK, Syncs, ProgressOK
<1> DEFINE new == [envs[sync.file] EXCEPT !.dir = repinned(envs[sync.file].dir)]
<1>3. /\ new \in EnvFile /\ new.dir \in {sync.tag, None} /\ new.tag = envs[sync.file].tag
    BY <1>2 DEF repinned, EnvFile
<1>4. envs' = [envs EXCEPT ![sync.file] = new] /\ new # None
    BY <1>1, <1>3, NoneAssumption
<1> HIDE DEF new
<1>5. envs' \in [Files -> EnvFile \union {None}] /\ envs'[sync.file] = new
      /\ \A f \in Files : f # sync.file => envs'[f] = envs[f]
    BY <1>2, <1>3, <1>4 DEF IInv, TypesOK
<1>6. sync'.tag = sync.tag
    BY <1>1 DEF nextFile, IInv, TypesOK, Syncs
<1>0. PICK file : file = sync.file
    OBVIOUS
<1>7. file = sync.file /\ envs'[file] = new
    BY <1>0, <1>5
<1>8. LinesOK'
    <2>1. envs[sync.file] # None
        BY <1>1 DEF IInv, ProgressOK
    <2> QED
        BY <1>1, <1>2, <1>3, <1>5, <2>1 DEF IInv, LinesOK
<1>9. Repinned(file)'
    BY <1>2, <1>3, <1>6, <1>7 DEF Repinned
<1> QED
    BY <1>1, <1>5, <1>7, <1>8, <1>9, NextFileKeeps

\* A copy of the example is as good as the example.
LEMMA CopyKeeps == IInv /\ localnet_env => IInv'
<1> SUFFICES ASSUME IInv, localnet_env PROVE IInv'
    OBVIOUS
<1>1. /\ envs["local"] = None /\ envs["example"] # None
      /\ envs' = [envs EXCEPT !["local"] = envs["example"]]
      /\ UNCHANGED <<live, expected, crashes, edits, trees, docs, sync>>
    BY DEF localnet_env, rest
<1>2. /\ envs'["example"] = envs["example"] /\ envs'["local"] = envs["example"]
      /\ envs' \in [Files -> EnvFile \union {None}]
    BY <1>1 DEF IInv, TypesOK, Files
<1>3. TypesOK' /\ SourcesOK' /\ DocsOK'
    BY <1>1, <1>2 DEF IInv, TypesOK, SourcesOK, DocsOK, OneTree
<1>4. ProgressOK' /\ LinesOK'
    <2>1. sync.stage = "dir" => sync.file = "example"
        BY <1>1 DEF IInv, TypesOK, Syncs, Files, ProgressOK
    <2> QED
        BY <1>1, <1>2, <2>1 DEF IInv, TypesOK, ProgressOK, LinesOK, Repinned, Files, Placed
<1> QED
    BY <1>3, <1>4 DEF IInv

LEMMA RewriteDocsKeeps == IInv /\ RewriteDocs => IInv'
<1> SUFFICES ASSUME IInv, RewriteDocs PROVE IInv'
    OBVIOUS
<1> USE DEF RewriteDocs, rewriteDocs, goto, rest
<1>1. TypesOK'
    BY DEF IInv, TypesOK, Syncs, Stages, Files
<1>2. SourcesOK'
    BY DEF IInv, SourcesOK
<1>3. ProgressOK'
    BY DEF IInv, TypesOK, Syncs, ProgressOK, Placed, Repinned
<1>4. DocsOK'
    BY Absent DEF IInv, TypesOK, DocsOK, OneTree
<1> QED
    BY <1>1, <1>2, <1>3, <1>4 DEF IInv, LinesOK

\* A part of a tree has no SOURCE.json, or the one of its release.
LEMMA CrashKeeps == IInv /\ Crash => IInv'
<1> SUFFICES ASSUME IInv, Crash PROVE IInv'
    OBVIOUS
<1>1. /\ crashes' = crashes + 1 /\ sync' = NoSync
      /\ UNCHANGED <<live, expected, envs, docs, edits>>
      /\ UNCHANGED trees \/ (sync.stage = "move" /\ \E t \in torn : trees' = [trees EXCEPT ![sync.tag] = t])
    BY DEF Crash
<1>2. \A t \in torn : t.source = None \/ t.source = synced(sync.tag).source
    BY DEF torn, released, synced, write_source_json
<1>3. TypesOK'
    <2>1. torn \subseteq Tree \/ sync.stage # "move"
        BY TreesTyped DEF torn, IInv, TypesOK
    <2>2. trees' \in [Tags -> Tree \union {None}]
        BY <1>1, <2>1 DEF IInv, TypesOK
    <2>3. crashes' \in Nat /\ edits' \in Nat
        BY <1>1 DEF IInv, TypesOK
    <2>4. envs' \in [Files -> EnvFile \union {None}] /\ docs' \in Tags
        BY <1>1 DEF IInv, TypesOK
    <2>5. sync' \in Syncs /\ sync'.stage = "idle"
        BY <1>1 DEF NoSync, Syncs, Stages, Files
    <2> QED
        BY <2>2, <2>3, <2>4, <2>5 DEF TypesOK
<1>4. SourcesOK'
    <2>1. CASE UNCHANGED trees
        BY <2>1 DEF IInv, SourcesOK
    <2>2. CASE sync.stage = "move" /\ \E t \in torn : trees' = [trees EXCEPT ![sync.tag] = t]
        BY <1>2, <2>2 DEF IInv, TypesOK, SourcesOK
    <2> QED
        BY <1>1, <2>1, <2>2
<1>5. ProgressOK'
    BY <1>1 DEF ProgressOK, NoSync, Placed
<1>6. DocsOK'
    <2>1. crashes' # 0
        BY <1>1 DEF IInv, TypesOK
    <2> QED
        BY <2>1 DEF DocsOK
<1> QED
    BY <1>1, <1>2, <1>3, <1>4, <1>5, <1>6 DEF IInv, LinesOK

LEMMA NetworksKeep == IInv /\ (Upgrade \/ UpdateFixtures) => IInv'
<1> SUFFICES ASSUME IInv, Upgrade \/ UpdateFixtures PROVE IInv'
    OBVIOUS
<1>1. UNCHANGED <<trees, envs, docs, sync, crashes, edits>>
    BY DEF Upgrade, UpdateFixtures
<1> QED
    BY <1>1 DEF IInv, TypesOK, SourcesOK, ProgressOK, Repinned, LinesOK, DocsOK, OneTree

LEMMA EditTreeKeeps == IInv /\ EditTree => IInv'
<1> SUFFICES ASSUME IInv, EditTree PROVE IInv'
    OBVIOUS
<1>1. edits' = edits + 1 /\ sync' = NoSync /\ UNCHANGED <<live, expected, envs, docs, crashes>>
    BY DEF EditTree
<1>2. PICK t \in Tags :
         /\ trees[t] # None
         /\ \/ trees' = [trees EXCEPT ![t].content = <<"edited", t>>]
            \/ trees' = [trees EXCEPT ![t].mode = "edited"]
            \/ trees' = [trees EXCEPT ![t].source = None]
    BY DEF EditTree
<1>3. TypesOK' /\ SourcesOK'
    <2>1. trees[t] \in Tree /\ trees \in [Tags -> Tree \union {None}]
        BY <1>2 DEF IInv, TypesOK
    <2>2. PICK edited \in Tree :
             /\ trees' = [trees EXCEPT ![t] = edited]
             /\ edited.source \in {None, trees[t].source}
        <3>1. CASE trees' = [trees EXCEPT ![t].content = <<"edited", t>>]
            <4>1. <<"edited", t>> \in Contents
                BY DEF Contents
            <4>2. [trees[t] EXCEPT !.content = <<"edited", t>>] \in Tree
                BY <2>1, <4>1 DEF Tree
            <4> QED
                BY <2>1, <3>1, <4>2 DEF Tree
        <3>2. CASE trees' = [trees EXCEPT ![t].mode = "edited"]
            <4>1. [trees[t] EXCEPT !.mode = "edited"] \in Tree
                BY <2>1 DEF Tree, Modes
            <4> QED
                BY <2>1, <3>2, <4>1 DEF Tree
        <3>3. CASE trees' = [trees EXCEPT ![t].source = None]
            <4>1. [trees[t] EXCEPT !.source = None] \in Tree
                BY <2>1 DEF Tree
            <4> QED
                BY <2>1, <3>3, <4>1 DEF Tree
        <3> QED
            BY <1>2, <3>1, <3>2, <3>3
    <2>3. trees' \in [Tags -> Tree \union {None}]
        BY <2>1, <2>2
    <2>4. TypesOK'
        <3>1. crashes' \in Nat /\ edits' \in Nat
            BY <1>1 DEF IInv, TypesOK
        <3>2. envs' \in [Files -> EnvFile \union {None}] /\ docs' \in Tags
            BY <1>1 DEF IInv, TypesOK
        <3>3. /\ sync' \in Syncs
              /\ sync'.stage = "idle"
            BY <1>1 DEF NoSync, Syncs, Stages, Files
        <3> QED
            BY <2>3, <3>1, <3>2, <3>3 DEF TypesOK
    <2>5. SourcesOK'
        BY <2>1, <2>2, <1>2 DEF IInv, SourcesOK
    <2> QED
        BY <2>4, <2>5
<1>5. ProgressOK'
    BY <1>1 DEF ProgressOK, NoSync, Placed
<1>6. DocsOK'
    <2>1. edits' # 0
        BY <1>1 DEF IInv, TypesOK
    <2> QED
        BY <2>1 DEF DocsOK
<1>7. LinesOK'
    BY <1>1 DEF IInv, LinesOK, TypesOK
<1> QED
    BY <1>3, <1>5, <1>6, <1>7 DEF IInv

LEMMA EditEnvKeeps == IInv /\ EditEnv => IInv'
<1> SUFFICES ASSUME IInv, EditEnv PROVE IInv'
    OBVIOUS
<1>1. /\ edits' = edits + 1 /\ sync' = NoSync /\ UNCHANGED <<live, expected, trees, docs, crashes>>
      /\ envs' \in [Files -> EnvFile \union {None}]
    BY DEF EditEnv, IInv, TypesOK
<1>2. edits' # 0 /\ edits' \in Nat
    BY <1>1 DEF IInv, TypesOK
<1> QED
    BY <1>1, <1>2 DEF IInv, TypesOK, SourcesOK, ProgressOK, LinesOK, DocsOK, NoSync, Syncs, Stages,
                      Placed, Files

LEMMA Invariance == Spec => []IInv
<1>1. IInv /\ [Next]_vars => IInv'
    <2> SUFFICES ASSUME IInv, [Next]_vars PROVE IInv'
        OBVIOUS
    <2>1. CASE Next
        BY <2>1, BeginKeeps, RemoveTargetKeeps, MoveTargetKeeps, RemoveOtherKeeps, OthersRemovedKeeps,
           SkipMissingKeeps, RefuseLegacyKeeps, ImageTagKeeps, LocalnetDirKeeps, CopyKeeps,
           RewriteDocsKeeps, CrashKeeps, NetworksKeep, EditTreeKeeps, EditEnvKeeps DEF Next
    <2>2. CASE UNCHANGED vars
        BY <2>2 DEF vars, IInv, TypesOK, SourcesOK, ProgressOK, Repinned, LinesOK, DocsOK, OneTree
    <2> QED
        BY <2>1, <2>2
<1> QED
    BY InitEstablishes, <1>1, PTL DEF Spec
-----------------------------------------------------------------------------
\* Whatever was synced, killed, edited or upgraded before: when check-compatibility.py
\* passes, the pinned tree is the release Mainnet runs, to the byte and the mode.
THEOREM CheckAlwaysSound == Spec => []CheckIsSound
<1>1. IInv => CheckIsSound
    <2> DEFINE tag == envs["example"].tag
    <2> SUFFICES ASSUME IInv, CheckPasses PROVE tag = live["mainnet"] /\ verbatim(tag)
        BY DEF CheckIsSound
    <2>1. localnet_row /\ tag \in Tags
        BY DEF CheckPasses, localnet_row, IInv, TypesOK, EnvFile, Files
    <2>2. /\ trees[tag] # None /\ trees[tag].source # None /\ tag = live["mainnet"]
          /\ trees[tag].source.tree_sha256 = tree_sha256(trees[tag])
        BY <2>1 DEF localnet_row, untouched
    <2> HIDE DEF tag
    <2>3. trees[tag].source = synced(tag).source
        BY <2>1, <2>2 DEF IInv, SourcesOK
    <2>4. synced(tag).source.tree_sha256 = tree_sha256(released(tag))
        BY <2>1, Written
    <2> QED
        BY <2>1, <2>2, <2>3, <2>4 DEF verbatim
<1> QED
    BY <1>1, Invariance, PTL

\* A localnet-sync.sh that ends has put its release's bytes and their digest in place, and
\* no line of either env file pins another release, over whatever it found.
THEOREM SyncAlwaysRepairs == Spec => []SyncRepairs
<1>1. IInv => SyncRepairs
    BY DEF IInv, TypesOK, ProgressOK, Placed, Repinned, SyncRepairs
<1> QED
    BY <1>1, Invariance, PTL

\* Over any number of syncs that nothing disturbs, the documents name the release synced last.
THEOREM DocsAlwaysFollow == Spec => []DocsFollow
<1>1. IInv => DocsFollow
    BY DEF IInv, DocsOK, DocsFollow
<1> QED
    BY <1>1, Invariance, PTL
===============================================================================
