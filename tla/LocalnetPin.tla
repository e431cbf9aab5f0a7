----------------------------- MODULE LocalnetPin -----------------------------
(* The vendored Splice localnet: check-compatibility.py decides whether the  *)
(* pins still describe what Mainnet runs and whether the vendored tree is    *)
(* verbatim, localnet-sync.sh replaces the tree and moves the pins.  Mainnet *)
(* moves on, trees and env files are edited by hand, localnet.sh copies one  *)
(* env file to the other, and a sync may die between two steps.              *)
EXTENDS Naturals, FiniteSets

CONSTANTS
    None,          \* absent: a directory, a file, a key
    Unreachable,   \* a network that does not answer
    Networks,      \* of {"mainnet", "testnet", "devnet"}, those looked at
    MaxTag,        \* Splice releases are 1 .. MaxTag
    MaxCrashes, MaxEdits,
    Editable       \* what is edited by hand: a subset of {"content", "mode", "source", "env"}

ASSUME BoundsAssumption ==
    /\ MaxTag \in Nat \ {0} /\ {MaxCrashes, MaxEdits} \subseteq Nat
    /\ "mainnet" \in Networks /\ Editable \subseteq {"content", "mode", "source", "env"}

Tags == 1 .. MaxTag
informational == {"devnet"}
\* .env.localnet.example, and .env.localnet, which is not under version control.
Files == {"example", "local"}
\* IMAGE_TAG and LOCALNET_DIR: None where no line of that form is in the file.
EnvFile == [tag : Tags \cup {None}, dir : Tags \cup {None}]

VARIABLES
    live,       \* what each network's info page answers
    expected,   \* fixtures/runtime-versions.json
    trees,      \* localnet-overrides/splice-<tag>
    envs,       \* the two env files
    docs,       \* the tag README.md, NOTICE and localnet-overrides/README.md name
    sync,       \* the sync under way
    crashes, edits

vars == <<live, expected, trees, envs, docs, sync, crashes, edits>>

\* The digest covers paths, executable bits and bytes of every file but SOURCE.json.
tree_sha256(tree) == <<tree.content, tree.mode>>
released(tag) == [content |-> <<"release", tag>>, mode |-> "as released", source |-> None]
write_source_json(tag, tree) ==
    [tree EXCEPT !.source = [tag |-> tag, tree_sha256 |-> tree_sha256(tree)]]
synced(tag) == write_source_json(tag, released(tag))
verbatim(tag) == trees[tag] # None /\ tree_sha256(trees[tag]) = tree_sha256(released(tag))

ASSUME NoneAssumption ==
    /\ \A t \in Tags : None \notin {t, released(t), synced(t), synced(t).source}
    /\ None \notin EnvFile
-----------------------------------------------------------------------------
(* check-compatibility.py                                                   *)

\* Fault: it is enough that a digest was recorded.
untouched_Recorded(tree) == tree.source.tree_sha256 # None
untouched(tree) == tree.source.tree_sha256 = tree_sha256(tree)

localnet_row ==
    /\ envs["example"] # None /\ envs["example"].tag # None
    /\ LET tag == envs["example"].tag IN
           /\ trees[tag] # None /\ trees[tag].source # None
           /\ trees[tag].source.tag = tag
           /\ trees[tag].source.tree_sha256 # None /\ untouched(trees[tag])
           /\ tag = live["mainnet"]

\* A network that does not answer ends the check, unless it is informational.
network_row(network) ==
    network \in informational \/ (live[network] # Unreachable /\ live[network] = expected[network])

CheckPasses == (\A network \in Networks : network_row(network)) /\ localnet_row
-----------------------------------------------------------------------------
(* localnet-sync.sh                                                         *)

NoSync == [stage |-> "idle", tag |-> None, old |-> None, file |-> "example"]
SyncedTags == {t \in Tags : trees[t] # None /\ trees[t].source # None}

\* The first directory, in name order, that was synced from another tag.
oldTag(tag) ==
    LET others == SyncedTags \ {tag} IN
    IF others = {} THEN None ELSE CHOOSE t \in others : \A u \in others : t <= u

\* diff -r compares names and bytes, no modes.
sameBytes(a, b) == a.content = b.content

\* Fault: SOURCE.json is believed and the tree is not compared.
nothingToDo_SourceOnly(tag) == trees[tag] # None /\ trees[tag].source = synced(tag).source
nothingToDo(tag) ==
    /\ trees[tag] # None /\ trees[tag].source = synced(tag).source
    /\ sameBytes(trees[tag], released(tag))

rest == <<live, expected, crashes, edits>>
goto(stage) == sync' = [sync EXCEPT !.stage = stage]
\* The file of the example comes first, then .env.localnet, then the documents.
nextFile ==
    sync' = IF sync.file = "example" THEN [sync EXCEPT !.stage = "env", !.file = "local"]
            ELSE [sync EXCEPT !.stage = IF sync.old = None THEN "done" ELSE "docs"]

Init ==
    /\ live = [n \in Networks |-> 1] /\ expected = live
    /\ trees = [t \in Tags |-> IF t = 1 THEN synced(1) ELSE None]
    /\ envs = [f \in Files |-> IF f = "example" THEN [tag |-> 1, dir |-> 1] ELSE None]
    /\ docs = 1 /\ sync = NoSync /\ crashes = 0 /\ edits = 0

\* The tag is Mainnet's, or the one given; its tree is staged outside the repository.
Begin ==
    /\ sync.stage \in {"idle", "done"}
    /\ \E tag \in Tags :
        /\ tag <= live["mainnet"]
        /\ sync' = IF nothingToDo(tag)
                   THEN [NoSync EXCEPT !.stage = "env", !.tag = tag]
                   ELSE [NoSync EXCEPT !.stage = "remove", !.tag = tag, !.old = oldTag(tag)]
    /\ UNCHANGED <<rest, trees, envs, docs>>

RemoveTarget ==
    /\ sync.stage = "remove" /\ goto("move")
    /\ trees' = [trees EXCEPT ![sync.tag] = None]
    /\ UNCHANGED <<rest, envs, docs>>

MoveTarget ==
    /\ sync.stage = "move" /\ goto("others")
    /\ trees' = [trees EXCEPT ![sync.tag] = synced(sync.tag)]
    /\ UNCHANGED <<rest, envs, docs>>

others == {t \in Tags \ {sync.tag} : trees[t] # None}
RemoveOther ==
    /\ sync.stage = "others" /\ others # {}
    /\ LET t == CHOOSE t \in others : \A u \in others : t <= u IN
           trees' = [trees EXCEPT ![t] = None]
    /\ UNCHANGED <<rest, envs, docs, sync>>

OthersRemoved ==
    /\ sync.stage = "others" /\ others = {} /\ goto("env")
    /\ UNCHANGED <<rest, trees, envs, docs>>

\* rewrite_env_file warns of a missing example; a missing .env.localnet is not asked for.
SkipMissing ==
    /\ sync.stage = "env" /\ envs[sync.file] = None /\ nextFile
    /\ UNCHANGED <<rest, trees, envs, docs>>

\* A .env.localnet without IMAGE_TAG ends the sync: no line of it can be repaired.
legacy == sync.file = "local" /\ envs["local"].tag = None
RefuseLegacy ==
    /\ sync.stage = "env" /\ envs[sync.file] # None /\ legacy
    /\ sync' = NoSync /\ UNCHANGED <<rest, trees, envs, docs>>

\* A line is replaced where there is one; otherwise the sync warns and goes on.
repinned(line) == IF line = None THEN None ELSE sync.tag

rewriteImageTag ==
    /\ sync.stage = "env" /\ envs[sync.file] # None /\ ~legacy /\ goto("dir")
    /\ envs' = [envs EXCEPT ![sync.file].tag = repinned(@)]
    /\ UNCHANGED <<rest, trees, docs>>

rewriteLocalnetDir ==
    /\ sync.stage = "dir" /\ nextFile
    /\ envs' = [envs EXCEPT ![sync.file].dir = repinned(@)]
    /\ UNCHANGED <<rest, trees, docs>>

\* Fault: the docs are repinned from the tag they are being moved to.
rewriteDocs_FromNew(old, new) == IF docs = new THEN new ELSE docs
\* Only references to the old tag are replaced.
rewriteDocs(old, new) == IF old # None /\ docs = old THEN new ELSE docs

RewriteDocs ==
    /\ sync.stage = "docs" /\ goto("done")
    /\ docs' = rewriteDocs(sync.old, sync.tag)
    /\ UNCHANGED <<rest, trees, envs>>

\* The staging directory is in /tmp: a crash in the middle of mv leaves a part,
\* with or without its SOURCE.json.
torn == {[released(sync.tag) EXCEPT !.content = <<"part", sync.tag>>],
         [synced(sync.tag) EXCEPT !.content = <<"part", sync.tag>>]}
Crash ==
    /\ crashes < MaxCrashes /\ crashes' = crashes + 1
    /\ sync.stage \notin {"idle", "done"} /\ sync' = NoSync
    /\ \/ UNCHANGED trees
       \/ sync.stage = "move" /\ \E t \in torn : trees' = [trees EXCEPT ![sync.tag] = t]
    /\ UNCHANGED <<live, expected, envs, docs, edits>>
-----------------------------------------------------------------------------
(* Around them                                                              *)

Upgrade ==
    /\ \E n \in Networks :
        \E v \in (Tags \cup {Unreachable}) :
            /\ v # live[n]
            /\ n = "mainnet" => v \in Tags /\ v = live[n] + 1
            /\ live' = [live EXCEPT ![n] = v]
    /\ UNCHANGED <<expected, trees, envs, docs, sync, crashes, edits>>

UpdateFixtures ==
    /\ \E n \in Networks :
        /\ live[n] \notin {Unreachable, expected[n]}
        /\ expected' = [expected EXCEPT ![n] = live[n]]
    /\ UNCHANGED <<live, trees, envs, docs, sync, crashes, edits>>

EditTree ==
    /\ edits < MaxEdits /\ edits' = edits + 1 /\ sync.stage \in {"idle", "done"} /\ sync' = NoSync
    /\ \E t \in Tags :
        /\ trees[t] # None
        /\ \/ "content" \in Editable /\ trees' = [trees EXCEPT ![t].content = <<"edited", t>>]
           \/ "mode" \in Editable /\ trees' = [trees EXCEPT ![t].mode = "edited"]
           \/ "source" \in Editable /\ trees' = [trees EXCEPT ![t].source = None]
    /\ UNCHANGED <<live, expected, envs, docs, crashes>>

\* A file from before the Splice compose stack, another release typed in, a file deleted.
EditEnv ==
    /\ edits < MaxEdits /\ edits' = edits + 1 /\ sync.stage \in {"idle", "done"} /\ sync' = NoSync
    /\ "env" \in Editable
    /\ \E f \in Files, file \in EnvFile \cup {None} : envs' = [envs EXCEPT ![f] = file]
    /\ UNCHANGED <<live, expected, trees, docs, crashes>>

\* localnet.sh creates .env.localnet from the example, at any time.
localnet_env ==
    /\ envs["local"] = None /\ envs["example"] # None
    /\ envs' = [envs EXCEPT !["local"] = envs["example"]]
    /\ UNCHANGED <<rest, trees, docs, sync>>

Next ==
    \/ Begin \/ RemoveTarget \/ MoveTarget \/ RemoveOther \/ OthersRemoved
    \/ SkipMissing \/ RefuseLegacy \/ rewriteImageTag \/ rewriteLocalnetDir \/ RewriteDocs
    \/ Crash \/ Upgrade \/ UpdateFixtures \/ EditTree \/ EditEnv \/ localnet_env

Spec == Init /\ [][Next]_vars
-----------------------------------------------------------------------------
(* When the check passes, the pinned tree is Mainnet's release to the byte   *)
(* and to the executable bit, whatever crashed or was edited before          *)
(* (localnet_row, tree_sha256).                                              *)
CheckIsSound ==
    CheckPasses =>
        envs["example"].tag = live["mainnet"] /\ verbatim(envs["example"].tag)

(* A sync that ran to its end leaves every byte of its release's tree and the *)
(* digest of that tree in place, and no line of either env file pins another  *)
(* release, over whatever an earlier crash or an edit left behind, also when  *)
(* localnet.sh copies the example meanwhile (localnet-sync.sh:310-352).  What *)
(* it does not repair is a file or a line that is missing (88-113), and modes,*)
(* which diff -r does not see.                                                *)
SyncRepairs ==
    sync.stage = "done" =>
        /\ sameBytes(trees[sync.tag], released(sync.tag))
        /\ trees[sync.tag].source = synced(sync.tag).source
        /\ \A f \in Files :
               envs[f] # None => {envs[f].tag, envs[f].dir} \subseteq {sync.tag, None}

(* When the tag has changed, a sync brings the references in README.md,      *)
(* NOTICE and localnet-overrides/README.md with it (localnet-sync.sh:24-27). *)
(* This holds over any number of releases skipped or returned to, as long as *)
(* no sync has died or refused .env.localnet and nothing was edited: the next*)
(* sync would find no old tag to replace (rewrite_docs_files).               *)
DocsFollow == crashes = 0 /\ edits = 0 /\ sync.stage = "done" => docs = sync.tag
=============================================================================
