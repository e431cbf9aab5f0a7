---------------------------- MODULE ArtifactCache ----------------------------
(* The two caches of downloads.  fetch-dars.py keeps the published Splice    *)
(* DARs in .dars: it downloads to a file of its own, validates, writes the   *)
(* bytes to <name>.verified and moves that over the target.  fetch-canton.py *)
(* keeps Canton archives and unpacks them.  A process may die anywhere, the  *)
(* network may give other bytes, and the pin may change.                     *)
EXTENDS Naturals

CONSTANTS
    Absent,
    Fetchers,      \* processes that run fetch-dars.py at the same time
    NumFiles,      \* DARs in SPLICE_PIN, in its order
    Digests,       \* contents that DARs and their pins may have
    MaxPins,       \* bound on changes of SPLICE_PIN
    MaxCrashes

ASSUME BoundsAssumption ==
    /\ {NumFiles, MaxPins, MaxCrashes} \subseteq Nat /\ NumFiles > 0
    /\ "cut" \notin Digests

\* No file there is no content, and no path that a process writes.
ASSUME AbsentAssumption == Absent \notin Digests \union {"cut", "staged", "target"}

Files == 1 .. NumFiles

VARIABLES
    pin,         \* SPLICE_PIN: the reviewed content of each DAR
    dars,        \* .dars/<file>
    staged,      \* .dars/<file>.verified
    pc, file,    \* where each fetcher is, and at which DAR
    data,        \* the bytes it downloaded
    open,        \* the path of the file it is writing: other processes may move it
    archive,     \* .localnet/runtimes/canton-<version>.tar.gz
    unpacked,    \* the directory unpacked from it
    canton,      \* where fetch-canton.py is
    pins, crashes

darVars == <<pin, dars, staged, pc, file, data, open>>
cantonVars == <<archive, unpacked, canton>>
vars == <<darVars, cantonVars, pins, crashes>>

\* A file being written holds fewer bytes than the writer was given.
Cut == "cut"
matches(bytes, f) == bytes = pin[f]
-----------------------------------------------------------------------------
(* fetch-dars.py                                                            *)

goto(p, step) == pc' = [pc EXCEPT ![p] = step]
fetchOnly == UNCHANGED <<cantonVars, pins, crashes, pin>>

Start(p) ==
    /\ pc[p] = "idle" /\ goto(p, "check") /\ file' = [file EXCEPT ![p] = 1]
    /\ fetchOnly /\ UNCHANGED <<dars, staged, data, open>>

\* Fault: a cached file is not looked at again.
cached_Exists(f) == dars[f] # Absent
cached(f) == dars[f] # Absent /\ matches(dars[f], f)

atNextFile(p) ==
    IF file[p] + 1 \in Files
    THEN goto(p, "check") /\ file' = [file EXCEPT ![p] = @ + 1]
    ELSE goto(p, "fetched") /\ UNCHANGED file

CheckCache(p) ==
    /\ pc[p] = "check"
    /\ IF cached(file[p]) THEN atNextFile(p) ELSE goto(p, "download") /\ UNCHANGED file
    /\ fetchOnly /\ UNCHANGED <<dars, staged, data, open>>

\* What the ref holds now, SPLICE_DARS_REF's choice included.
Download(p) ==
    /\ pc[p] = "download" /\ goto(p, "validate")
    /\ \E bytes \in Digests : data' = [data EXCEPT ![p] = bytes]
    /\ fetchOnly /\ UNCHANGED <<dars, staged, file, open>>

\* The bytes must match the pin and name the pinned package.
valid(p) == matches(data[p], file[p])

Validate(p) ==
    /\ pc[p] = "validate" /\ goto(p, IF valid(p) THEN "stage" ELSE "failed")
    /\ fetchOnly /\ UNCHANGED <<dars, staged, file, data, open>>

\* Fault: the bytes are written where they are wanted.
OpenStaged_AtTarget(p) ==
    /\ pc[p] = "stage" /\ goto(p, "write")
    /\ dars' = [dars EXCEPT ![file[p]] = Cut]
    /\ open' = [open EXCEPT ![p] = "target"]
    /\ fetchOnly /\ UNCHANGED <<staged, file, data>>

\* Writing truncates whatever file stands at the path.
OpenStaged(p) ==
    /\ pc[p] = "stage" /\ goto(p, "write")
    /\ staged' = [staged EXCEPT ![file[p]] = Cut]
    /\ open' = [open EXCEPT ![p] = "staged"]
    /\ fetchOnly /\ UNCHANGED <<dars, file, data>>

WriteStaged(p) ==
    /\ pc[p] = "write" /\ goto(p, "replace")
    /\ staged' = IF open[p] = "staged" THEN [staged EXCEPT ![file[p]] = data[p]] ELSE staged
    /\ dars' = IF open[p] = "target" THEN [dars EXCEPT ![file[p]] = data[p]] ELSE dars
    /\ open' = [open EXCEPT ![p] = Absent]
    /\ fetchOnly /\ UNCHANGED <<file, data>>

\* Whoever still writes the staged file goes on writing it at its new place.
moved(p, f) ==
    [q \in Fetchers |->
        IF file[q] # f THEN open[q]
        ELSE CASE open[q] = "staged" -> "target" [] open[q] = "target" -> "unlinked" [] OTHER -> open[q]]

ReplaceTarget(p) ==
    /\ pc[p] = "replace"
    /\ IF staged[file[p]] = Absent
       THEN goto(p, "failed") /\ UNCHANGED <<dars, staged, open, file>>
       ELSE /\ dars' = [dars EXCEPT ![file[p]] = staged[file[p]]]
            /\ staged' = [staged EXCEPT ![file[p]] = Absent]
            /\ open' = moved(p, file[p]) /\ atNextFile(p)
    /\ fetchOnly /\ UNCHANGED data

Finish(p) ==
    /\ pc[p] \in {"fetched", "failed"} /\ goto(p, "idle")
    /\ data' = [data EXCEPT ![p] = Absent]
    /\ fetchOnly /\ UNCHANGED <<dars, staged, file, open>>

\* A killed process leaves its staged file behind; its temporary file does no harm.
CrashFetch(p) ==
    /\ crashes < MaxCrashes /\ crashes' = crashes + 1
    /\ pc[p] \notin {"idle", "fetched", "failed"} /\ goto(p, "idle")
    /\ data' = [data EXCEPT ![p] = Absent] /\ open' = [open EXCEPT ![p] = Absent]
    /\ UNCHANGED <<cantonVars, pins, pin, dars, staged, file>>

\* A reviewed change of SPLICE_PIN, while nothing is being fetched.
Repin ==
    /\ pins < MaxPins /\ pins' = pins + 1 /\ \A p \in Fetchers : pc[p] = "idle"
    /\ \E f \in Files : \E bytes \in Digests \ {pin[f]} : pin' = [pin EXCEPT ![f] = bytes]
    /\ UNCHANGED <<cantonVars, crashes, dars, staged, pc, file, data, open>>
-----------------------------------------------------------------------------
(* fetch-canton.py                                                          *)

cantonOnly == UNCHANGED <<darVars, pins>>
official == "official"

archiveVerified == archive = official

StartCanton ==
    /\ canton = "idle" /\ canton' = IF archiveVerified THEN "unpack" ELSE "download"
    /\ cantonOnly /\ UNCHANGED <<archive, unpacked, crashes>>

\* The download is moved over the archive only when its checksum is right.
DownloadArchive ==
    /\ canton = "download"
    /\ \/ archive' = official /\ canton' = "unpack"
       \/ canton' = "failed" /\ UNCHANGED archive
    /\ cantonOnly /\ UNCHANGED <<unpacked, crashes>>

hasBinary(tree) == tree \in {"binary", "complete"}
SkipUnpacking ==
    /\ canton = "unpack" /\ hasBinary(unpacked) /\ canton' = "returned"
    /\ cantonOnly /\ UNCHANGED <<archive, unpacked, crashes>>

\* tar writes entry after entry: bin/canton may stand there before its library does.
Unpack ==
    /\ \/ canton = "unpack" /\ ~hasBinary(unpacked) /\ unpacked' = "begun" /\ canton' = "unpacking"
       \/ canton = "unpacking" /\ unpacked = "begun" /\ unpacked' = "binary" /\ UNCHANGED canton
       \/ canton = "unpacking" /\ unpacked = "binary" /\ unpacked' = "complete" /\ canton' = "returned"
    /\ cantonOnly /\ UNCHANGED <<archive, crashes>>

FinishCanton ==
    /\ canton \in {"returned", "failed"} /\ canton' = "idle"
    /\ cantonOnly /\ UNCHANGED <<archive, unpacked, crashes>>

CrashCanton ==
    /\ crashes < MaxCrashes /\ crashes' = crashes + 1
    /\ canton \in {"download", "unpack", "unpacking"} /\ canton' = "idle"
    /\ cantonOnly /\ UNCHANGED <<archive, unpacked>>

\* The archive on disk is damaged, or is of another build of the version.
DamageArchive ==
    /\ archive = official /\ canton = "idle" /\ archive' = "other"
    /\ cantonOnly /\ UNCHANGED <<unpacked, canton, crashes>>
-----------------------------------------------------------------------------
Init ==
    /\ pin \in [Files -> Digests] /\ dars = [f \in Files |-> Absent]
    /\ staged = [f \in Files |-> Absent]
    /\ pc = [p \in Fetchers |-> "idle"] /\ file = [p \in Fetchers |-> 1]
    /\ data = [p \in Fetchers |-> Absent] /\ open = [p \in Fetchers |-> Absent]
    /\ archive \in {Absent, "other"} /\ unpacked = Absent /\ canton = "idle"
    /\ pins = 0 /\ crashes = 0

FetchDars(p) ==
    \/ Start(p) \/ CheckCache(p) \/ Download(p) \/ Validate(p) \/ OpenStaged(p)
    \/ WriteStaged(p) \/ ReplaceTarget(p) \/ Finish(p)
FetchCanton ==
    \/ StartCanton \/ DownloadArchive \/ SkipUnpacking \/ Unpack \/ FinishCanton

Next ==
    \/ \E p \in Fetchers : FetchDars(p) \/ CrashFetch(p)
    \/ Repin \/ FetchCanton \/ CrashCanton \/ DamageArchive

Spec == Init /\ [][Next]_vars
-----------------------------------------------------------------------------
(* A build that follows fetch-dars.py finds every DAR as the pin reviewed it,*)
(* whatever earlier runs left in the cache and whatever the ref holds now.   *)
FetchedIsPinned == \A p \in Fetchers : pc[p] = "fetched" => \A f \in Files : matches(dars[f], f)

(* "It replaces incomplete or incorrect downloads only after validation"     *)
(* (README.md:55): what stands in the cache is always complete.              *)
CacheIsComplete == \A f \in Files : dars[f] # Cut

(* The binary fetch-canton.py returns is the official distribution           *)
(* (README.md:42, fetch-canton.py:3), also after a run that was interrupted. *)
ReturnedIsOfficial == canton = "returned" => unpacked = "complete"
=============================================================================
