------------------------- MODULE ArtifactCacheProofs -------------------------
(* For any number of DARs, contents, changes of the pin and processes killed  *)
(* anywhere: what fetch-dars.py leaves in the cache is complete, and what a   *)
(* process that succeeded leaves there is what the pin reviewed, as long as   *)
(* no two of them fetch at once.                                              *)
EXTENDS ArtifactCache, TLAPS

Working == {"check", "download", "validate", "stage", "write", "replace"}
Steps == Working \union {"idle", "fetched", "failed"}

TypesOK ==
    /\ pin \in [Files -> Digests]
    /\ dars \in [Files -> Digests \union {Absent}]
    /\ DOMAIN staged = Files /\ staged = [f \in Files |-> staged[f]]
    /\ pc \in [Fetchers -> Steps]
    /\ file \in [Fetchers -> Files]
    /\ DOMAIN data = Fetchers /\ data = [p \in Fetchers |-> data[p]]
    /\ DOMAIN open = Fetchers /\ open = [p \in Fetchers |-> open[p]]

\* A process has seen to the files before its own; from the validation on it holds
\* the reviewed bytes, and while it writes them the file is the one it has staged.
ProcessOK(p) ==
    /\ pc[p] \in Working => \A f \in Files : f < file[p] => matches(dars[f], f)
    /\ pc[p] = "fetched" => \A f \in Files : matches(dars[f], f)
    /\ pc[p] \in {"stage", "write", "replace"} => data[p] = pin[file[p]]
    /\ open[p] = IF pc[p] = "write" THEN "staged" ELSE Absent
    /\ pc[p] = "replace" => staged[file[p]] = data[p]

IInv == TypesOK /\ \A p \in Fetchers : ProcessOK(p)

\* No two processes are at work, or have succeeded and are still looked at.
OneAtATime == \A p, q \in Fetchers : pc[p] # "idle" /\ pc[q] # "idle" => p = q
-------------------------------------------------------------------------------
LEMMA Initially == Init => IInv
BY BoundsAssumption DEF Init, IInv, TypesOK, ProcessOK, Files, Steps, Working

\* A process on its own leaves the others idle, as they are.
LEMMA Alone ==
    ASSUME IInv, OneAtATime, OneAtATime', NEW p \in Fetchers,
           pc[p] # "idle" \/ pc'[p] # "idle",
           \A q \in Fetchers \ {p} : pc'[q] = pc[q] /\ open'[q] = open[q],
           TypesOK', ProcessOK(p)'
    PROVE  IInv'
<1>1. ASSUME NEW q \in Fetchers, q # p PROVE ProcessOK(q)'
  <2>1. pc[q] = "idle"
    BY <1>1 DEF OneAtATime
  <2>2. open[q] = Absent /\ pc'[q] = "idle" /\ open'[q] = Absent
    BY <1>1, <2>1 DEF IInv, ProcessOK
  <2>. QED  BY <2>2 DEF ProcessOK, Working
<1>. QED  BY <1>1 DEF IInv

\* Going on to the next file, or being done with the last.
LEMMA NextFile ==
    ASSUME IInv, NEW p \in Fetchers, atNextFile(p), pin' = pin,
           \A f \in Files : f <= file[p] => dars'[f] = pin[f],
           open'[p] = Absent
    PROVE  /\ pc' \in [Fetchers -> Steps] /\ file' \in [Fetchers -> Files]
           /\ ProcessOK(p)' /\ pc'[p] # "idle"
           /\ \A q \in Fetchers \ {p} : pc'[q] = pc[q]
<1>1. /\ pc \in [Fetchers -> Steps] /\ file \in [Fetchers -> Files]
      /\ file[p] \in 1 .. NumFiles /\ NumFiles \in Nat
  BY BoundsAssumption DEF IInv, TypesOK, Files
<1>2. CASE file[p] + 1 \in Files
  <2>1. pc' = [pc EXCEPT ![p] = "check"] /\ file' = [file EXCEPT ![p] = file[p] + 1]
    BY <1>2 DEF atNextFile, goto
  <2>2. \A f \in Files : f < file[p] + 1 => dars'[f] = pin[f]
    BY <1>1 DEF Files
  <2>. QED  BY <1>1, <1>2, <2>1, <2>2 DEF ProcessOK, Steps, Working, matches
<1>3. CASE file[p] + 1 \notin Files
  <2>1. pc' = [pc EXCEPT ![p] = "fetched"] /\ file' = file
    BY <1>3 DEF atNextFile, goto
  <2>2. \A f \in Files : dars'[f] = pin[f]
    BY <1>1, <1>3 DEF Files
  <2>. QED  BY <1>1, <2>1, <2>2 DEF ProcessOK, Steps, Working, matches
<1>. QED  BY <1>2, <1>3

LEMMA FetchKeeps ==
    ASSUME IInv, OneAtATime, OneAtATime', NEW p \in Fetchers, FetchDars(p) \/ CrashFetch(p)
    PROVE  IInv'
<1>1. /\ TypesOK /\ ProcessOK(p) /\ file[p] \in Files /\ pin[file[p]] \in Digests
      /\ Absent \notin Digests \union {"cut", "staged", "target"}
  BY AbsentAssumption DEF IInv, TypesOK
<1>2. file[p] \in Nat /\ \A f \in Files : f \in Nat
  BY <1>1, BoundsAssumption DEF Files
<1>3. CASE Start(p)
  <2>1. /\ pc' = [pc EXCEPT ![p] = "check"] /\ file' = [file EXCEPT ![p] = 1] /\ pc[p] = "idle"
        /\ UNCHANGED <<pin, dars, staged, data, open>>
    BY <1>3 DEF Start, goto, fetchOnly
  <2>2. 1 \in Files /\ \A f \in Files : ~(f < 1)
    BY BoundsAssumption DEF Files
  <2>3. TypesOK'
    BY <1>1, <2>1, <2>2 DEF TypesOK, Steps, Working
  <2>4. ProcessOK(p)'
    BY <1>1, <2>1, <2>2 DEF TypesOK, ProcessOK
  <2>5. pc'[p] # "idle" /\ \A q \in Fetchers \ {p} : pc'[q] = pc[q] /\ open'[q] = open[q]
    BY <1>1, <2>1 DEF TypesOK
  <2>. QED  BY <2>3, <2>4, <2>5, Alone
<1>4. CASE CheckCache(p)
  <2>1. pc[p] = "check" /\ UNCHANGED <<pin, dars, staged, data, open>>
    BY <1>4 DEF CheckCache, fetchOnly
  <2>2. CASE cached(file[p])
    <3>1. atNextFile(p)
      BY <1>4, <2>2 DEF CheckCache
    <3>2. \A f \in Files : f <= file[p] => dars'[f] = pin[f]
      BY <1>1, <1>2, <2>1, <2>2 DEF ProcessOK, Working, matches, cached
    <3>3. open'[p] = Absent
      BY <1>1, <2>1 DEF ProcessOK
    <3>4. /\ pc' \in [Fetchers -> Steps] /\ file' \in [Fetchers -> Files] /\ ProcessOK(p)'
          /\ pc'[p] # "idle" /\ \A q \in Fetchers \ {p} : pc'[q] = pc[q]
      BY <2>1, <3>1, <3>2, <3>3, NextFile
    <3>5. TypesOK'
      BY <1>1, <2>1, <3>4 DEF TypesOK
    <3>. QED  BY <2>1, <3>4, <3>5, Alone
  <2>3. CASE ~cached(file[p])
    <3>1. pc' = [pc EXCEPT ![p] = "download"] /\ file' = file
      BY <1>4, <2>3 DEF CheckCache, goto
    <3>2. TypesOK'
      BY <1>1, <2>1, <3>1 DEF TypesOK, Steps, Working
    <3>3. ProcessOK(p)'
      BY <1>1, <2>1, <3>1 DEF TypesOK, ProcessOK, Working, matches
    <3>4. pc'[p] # "idle" /\ \A q \in Fetchers \ {p} : pc'[q] = pc[q] /\ open'[q] = open[q]
      BY <1>1, <2>1, <3>1 DEF TypesOK
    <3>. QED  BY <3>2, <3>3, <3>4, Alone
  <2>. QED  BY <2>2, <2>3
<1>5. CASE Download(p) \/ Validate(p)
  <2>1. PICK step \in {"validate", "stage", "failed"} :
            /\ pc' = [pc EXCEPT ![p] = step] /\ pc[p] \in {"download", "validate"}
            /\ step = "stage" => pc[p] = "validate" /\ valid(p) /\ data' = data
    BY <1>5 DEF Download, Validate, goto
  <2>2. UNCHANGED <<pin, dars, staged, file, open>>
    BY <1>5 DEF Download, Validate, fetchOnly
  <2>3. DOMAIN data' = Fetchers /\ data' = [q \in Fetchers |-> data'[q]]
    BY <1>1, <1>5 DEF Download, Validate, TypesOK
  <2>4. TypesOK'
    BY <1>1, <2>1, <2>2, <2>3 DEF TypesOK, Steps, Working
  <2>5. ProcessOK(p)'
    BY <1>1, <2>1, <2>2 DEF TypesOK, ProcessOK, Working, valid, matches
  <2>6. pc'[p] # "idle" /\ \A q \in Fetchers \ {p} : pc'[q] = pc[q] /\ open'[q] = open[q]
    BY <1>1, <2>1, <2>2 DEF TypesOK
  <2>. QED  BY <2>4, <2>5, <2>6, Alone
<1>6. CASE OpenStaged(p)
  <2>1. /\ pc[p] = "stage" /\ pc' = [pc EXCEPT ![p] = "write"]
        /\ staged' = [staged EXCEPT ![file[p]] = Cut] /\ open' = [open EXCEPT ![p] = "staged"]
        /\ UNCHANGED <<pin, dars, file, data>>
    BY <1>6 DEF OpenStaged, goto, fetchOnly
  <2>2. TypesOK'
    BY <1>1, <2>1 DEF TypesOK, Steps, Working
  <2>3. ProcessOK(p)'
    BY <1>1, <2>1 DEF TypesOK, ProcessOK, Working, matches
  <2>4. pc'[p] # "idle" /\ \A q \in Fetchers \ {p} : pc'[q] = pc[q] /\ open'[q] = open[q]
    BY <1>1, <2>1 DEF TypesOK
  <2>. QED  BY <2>2, <2>3, <2>4, Alone
<1>7. CASE WriteStaged(p)
  <2>1. pc[p] = "write" /\ open[p] = "staged" /\ data[p] = pin[file[p]]
    BY <1>1, <1>7 DEF WriteStaged, ProcessOK
  <2>2. /\ pc' = [pc EXCEPT ![p] = "replace"] /\ open' = [open EXCEPT ![p] = Absent]
        /\ staged' = [staged EXCEPT ![file[p]] = data[p]]
        /\ UNCHANGED <<pin, dars, file, data>>
    BY <1>7, <2>1 DEF WriteStaged, goto, fetchOnly
  <2>3. TypesOK'
    BY <1>1, <2>2 DEF TypesOK, Steps, Working
  <2>4. ProcessOK(p)'
    BY <1>1, <2>1, <2>2 DEF TypesOK, ProcessOK, Working, matches
  <2>5. pc'[p] # "idle" /\ \A q \in Fetchers \ {p} : pc'[q] = pc[q] /\ open'[q] = open[q]
    BY <1>1, <2>2 DEF TypesOK
  <2>. QED  BY <2>3, <2>4, <2>5, Alone
<1>8. CASE ReplaceTarget(p)
  <2>1. /\ pc[p] = "replace" /\ staged[file[p]] = pin[file[p]] /\ staged[file[p]] # Absent
        /\ open[p] = Absent
    BY <1>1, <1>8 DEF ReplaceTarget, ProcessOK
  <2>2. /\ dars' = [dars EXCEPT ![file[p]] = staged[file[p]]]
        /\ staged' = [staged EXCEPT ![file[p]] = Absent]
        /\ open' = moved(p, file[p]) /\ atNextFile(p) /\ UNCHANGED <<pin, data>>
    BY <1>8, <2>1 DEF ReplaceTarget, fetchOnly
  <2>3. \A q \in Fetchers : open[q] = Absent
    BY <2>1 DEF IInv, OneAtATime, ProcessOK
  <2>4. \A q \in Fetchers : open'[q] = Absent
    BY <1>1, <2>2, <2>3 DEF moved
  <2>5. \A f \in Files : f <= file[p] => dars'[f] = pin[f]
    BY <1>1, <1>2, <2>1, <2>2 DEF TypesOK, ProcessOK, Working, matches
  <2>6. /\ pc' \in [Fetchers -> Steps] /\ file' \in [Fetchers -> Files] /\ ProcessOK(p)'
        /\ pc'[p] # "idle" /\ \A q \in Fetchers \ {p} : pc'[q] = pc[q]
    BY <2>2, <2>4, <2>5, NextFile
  <2>7. TypesOK'
    BY <1>1, <2>1, <2>2, <2>6 DEF TypesOK, moved
  <2>. QED  BY <2>3, <2>4, <2>6, <2>7, Alone
<1>9. CASE Finish(p) \/ CrashFetch(p)
  <2>1. /\ pc[p] # "idle" /\ pc' = [pc EXCEPT ![p] = "idle"]
        /\ data' = [data EXCEPT ![p] = Absent]
        /\ UNCHANGED <<pin, dars, staged, file>>
    BY <1>9 DEF Finish, CrashFetch, goto, fetchOnly
  <2>2. /\ open' \in {open, [open EXCEPT ![p] = Absent]}
        /\ open'[p] = Absent
    BY <1>1, <1>9 DEF Finish, CrashFetch, TypesOK, ProcessOK
  <2>3. TypesOK'
    BY <1>1, <2>1, <2>2 DEF TypesOK, Steps, Working
  <2>4. ProcessOK(p)'
    BY <1>1, <2>1, <2>2 DEF TypesOK, ProcessOK, Working
  <2>5. \A q \in Fetchers \ {p} : pc'[q] = pc[q] /\ open'[q] = open[q]
    BY <1>1, <2>1, <2>2 DEF TypesOK
  <2>. QED  BY <2>1, <2>3, <2>4, <2>5, Alone
<1>. QED  BY <1>3, <1>4, <1>5, <1>6, <1>7, <1>8, <1>9 DEF FetchDars

LEMMA Inductive == IInv /\ OneAtATime /\ OneAtATime' /\ [Next]_vars => IInv'
<1> SUFFICES ASSUME IInv, OneAtATime, OneAtATime', [Next]_vars PROVE IInv'
  OBVIOUS
<1>1. CASE \E p \in Fetchers : FetchDars(p) \/ CrashFetch(p)
  BY <1>1, FetchKeeps
<1>2. CASE Repin
  <2>1. /\ \A p \in Fetchers : pc[p] = "idle"
        /\ UNCHANGED <<dars, staged, pc, file, data, open>>
        /\ pin' \in [Files -> Digests]
    BY <1>2 DEF Repin, IInv, TypesOK
  <2>. QED  BY <2>1 DEF IInv, TypesOK, ProcessOK, Working
<1>3. CASE FetchCanton \/ CrashCanton \/ DamageArchive \/ UNCHANGED vars
  <2>1. UNCHANGED darVars
    BY <1>3 DEF FetchCanton, StartCanton, DownloadArchive, SkipUnpacking, Unpack, FinishCanton,
                CrashCanton, DamageArchive, cantonOnly, vars
  <2>. QED  BY <2>1 DEF IInv, TypesOK, ProcessOK, matches, darVars
<1>. QED  BY <1>1, <1>2, <1>3 DEF Next

LEMMA Invariance == Spec /\ []OneAtATime => []IInv
<1>1. Spec /\ []OneAtATime => []IInv
  BY Initially, Inductive, PTL DEF Spec
<1>. QED  BY <1>1

\* Whatever earlier runs left behind, whenever they were killed and whatever the ref
\* has come to hold, a build that follows fetch-dars.py finds every DAR as the pin
\* reviewed it, if no two processes fetch at once (fetch-dars.py: what is cached is
\* validated again, and only validated bytes are moved there).
THEOREM FetchedAlwaysPinned == Spec /\ []OneAtATime => []FetchedIsPinned
<1>1. IInv => FetchedIsPinned
  BY DEF IInv, ProcessOK, FetchedIsPinned
<1>. QED  BY <1>1, Invariance, PTL

\* And what stands in the cache is always complete: nothing is ever written there,
\* only moved there when it was written.
THEOREM CacheAlwaysComplete == Spec /\ []OneAtATime => []CacheIsComplete
<1>1. IInv => CacheIsComplete
  BY BoundsAssumption, AbsentAssumption DEF IInv, TypesOK, CacheIsComplete, Cut
<1>. QED  BY <1>1, Invariance, PTL
===============================================================================
