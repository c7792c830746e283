------------------------- MODULE InstallationProofs -------------------------
(* Proofs for any number of processes and releases: what is offered, what    *)
(* is kept of the program, that one instance runs, and who is turned away. *)
EXTENDS Installation, TLAPS

AtStates == {"none", "other", "start", "look", "remove", "fill", "up", "refused", "leaving"}
CheckStates == {"none", "asks", "saves", "done"}
UpdateStates == {"none", "replace", "renamed", "placed", "stopping", "exits"}
Caches == [recent : BOOLEAN, tag : Releases, assets : Releases, etag : Releases]
States == [has : BOOLEAN, latest : Releases, assets : Releases]
Files == 0..(MaxRelease + 1)

LockType ==
  /\ frozen \in BOOLEAN /\ windows \in BOOLEAN
  /\ birth \in [Pids -> Nat] /\ at \in [Pids -> AtStates]
  /\ mutex \subseteq Pids /\ lock \in [Pids -> Nat]
  /\ todo \in [Pids -> SUBSET Pids] /\ judged \in [Pids -> SUBSET Pids]
  /\ born \in Nat /\ met \in BOOLEAN
CheckType ==
  /\ released \in Releases /\ published \in Nat
  /\ cache \in Caches /\ loaded \in [Pids -> Caches]
  /\ check \in [Pids -> CheckStates] /\ state \in [Pids -> States]
FileType ==
  /\ exe \in Files /\ oldExe \in Files /\ runsOld \subseteq Pids
  /\ version \in [Pids -> Nat] /\ update \in [Pids -> UpdateStates]
  /\ fetched \in [Pids -> Files] /\ child \subseteq Pids /\ torn \in BOOLEAN
TypeOK == LockType /\ CheckType /\ FileType

(* A cached ETag stands for the cached release, and the assets are its own.*)
Coherent(c) == (c.tag # 0 => c.assets = c.tag) /\ (c.etag # 0 => c.tag = c.etag)

OfferInv ==
  /\ Coherent(cache) /\ \A p \in Pids : Coherent(loaded[p])
  /\ \A p \in Pids : state[p].has => state[p].latest > version[p] /\ state[p].assets = state[p].latest
  /\ \A p \in Pids : at[p] \in {"none", "other"} => ~state[p].has

(* While no complete program has its own name, every instance runs from the *)
(* other file, which nobody can remove; one process at a time is between    *)
(* its renames, and what it will put in place is there.                    *)
KeptInv ==
  /\ exe \in Programs \/ oldExe \in Programs
  /\ exe = None => torn \/ \E p \in Pids : update[p] = "renamed"
  /\ exe \notin Programs => \A p \in Pids : Ours(p) => p \in runsOld
  /\ \A p \in Pids : update[p] = "renamed" => exe = None
  /\ \A p, q \in Pids : update[p] = "renamed" /\ update[q] = "renamed" => p = q
  /\ \A p \in Pids : update[p] \in {"replace", "renamed"} => fetched[p] # None

(* One process has the mutex; or one is on its way to its lock file, which  *)
(* has yet to look at the file of the one that is up.                      *)
OneInv ==
  /\ windows =>
       /\ \A p \in Pids : at[p] = "up" /\ ~HasGone(p) => p \in mutex
       /\ \A p, q \in mutex : p = q
       /\ \A p \in Pids : ~Locking(p)
  /\ ~windows => \A p \in Pids : update[p] = "none"
  /\ frozen /\ ~windows /\ ~met =>
       /\ \A p \in Pids : at[p] = "up" => lock[p] \in {Empty, birth[p]} \ {Absent}
       /\ \A p, q \in Pids : Locking(p) /\ Locking(q) => p = q
       /\ \A p, q \in Pids : Locking(p) /\ at[q] = "up" => q \in todo[p]
       /\ \A p, q \in Pids : at[p] = "remove" /\ at[q] = "up" => q \notin judged[p]
       /\ \A p \in Pids : at[p] = "fill" => todo[p] = {} /\ lock[p] = Empty
       /\ \A p, q \in Pids : at[p] = "up" /\ at[q] = "up" => p = q
  /\ \A p \in Pids : Ours(p) => birth[p] # 0

-----------------------------------------------------------------------------
(* What run_check puts together is of the right type.                       *)
LEMMA CheckValues ==
  /\ 0 \in Releases /\ NoCache \in Caches /\ NoState \in States
  /\ \A c \in Caches, b \in BOOLEAN : [c EXCEPT !.recent = b] \in Caches
  /\ \A s \in States : [s EXCEPT !.has = FALSE, !.latest = 0] \in States
  /\ \A v \in Nat, t, a \in Releases : Applied(v, t, a) \in States
<1> USE ReleaseAssumption DEF Releases, Caches, States
<1>1. 0 \in Releases
  OBVIOUS
<1>2. NoCache \in Caches
  BY <1>1 DEF NoCache
<1>3. NoState \in States
  BY <1>1 DEF NoState
<1>4. \A c \in Caches, b \in BOOLEAN : [c EXCEPT !.recent = b] \in Caches
  OBVIOUS
<1>5. \A s \in States : [s EXCEPT !.has = FALSE, !.latest = 0] \in States
  BY <1>1
<1>6. \A v \in Nat, t, a \in Releases : Applied(v, t, a) \in States
  BY DEF Applied
<1> QED
  BY <1>1, <1>2, <1>3, <1>4, <1>5, <1>6

(* A new installation.                                                     *)
LEMMA TypeInit == Init => TypeOK
<1> SUFFICES ASSUME Init PROVE TypeOK
  OBVIOUS
<1> USE LockAssumption, ReleaseAssumption, InstallAssumption
<1>1. LockType
  BY DEF Init, LockInit, LockType, AtStates, Absent
<1>2. CheckType
  <2>1. FirstLatest \in Releases
    BY DEF Releases
  <2> QED
    BY <2>1, CheckValues DEF Init, CheckInit, CheckType, CheckStates
<1>3. FileType
  <2>1. FirstVersion \in Files /\ None \in Files
    BY DEF Files, None
  <2> QED
    BY <2>1 DEF Init, FileType, UpdateStates
<1> QED
  BY <1>1, <1>2, <1>3 DEF TypeOK

(* The steps of one process, on the variables of each module.              *)
LEMMA LockTypeStep ==
  ASSUME NEW p \in Pids, LockType, LockStep(p), UNCHANGED platformVars
  PROVE  LockType' /\ UNCHANGED born /\ \A q \in Pids : Ours(q)' <=> Ours(q)
<1> USE LockAssumption DEF LockType, AtStates, platformVars, Goes, Ours
<1>1. CASE AskMutex(p)
  BY <1>1 DEF AskMutex
<1>2. CASE FindLocks(p)
  BY <1>2 DEF FindLocks
<1>3. ASSUME NEW q \in Pids, Look(p, q)
      PROVE  LockType' /\ UNCHANGED born /\ \A r \in Pids : Ours(r)' <=> Ours(r)
  BY <1>3 DEF Look
<1>4. CASE RemoveStale(p)
  BY <1>4 DEF RemoveStale, Absent
<1>5. CASE CreateLock(p)
  BY <1>5 DEF CreateLock, Empty
<1>6. CASE LockFails(p)
  BY <1>6 DEF LockFails
<1>7. CASE FillLock(p)
  BY <1>7 DEF FillLock
<1>8. CASE Release(p)
  BY <1>8 DEF Release, Absent
<1> QED
  BY <1>1, <1>2, <1>3, <1>4, <1>5, <1>6, <1>7, <1>8 DEF LockStep

(* A step of run_check.                                                    *)
LEMMA CheckTypeStep ==
  ASSUME NEW p \in Pids, NEW v \in Nat, CheckType, CheckStep(p, v)
  PROVE  CheckType'
<1> USE CheckValues DEF CheckType, CheckStates
<1>1. CASE LoadCache(p, v)
  <2>1. PICK c \in {cache, NoCache} :
          /\ check' = [check EXCEPT ![p] = IF c.recent THEN "done" ELSE "asks"]
          /\ loaded' = [loaded EXCEPT ![p] = IF c.recent THEN NoCache ELSE c]
          /\ state' = IF ~c.recent THEN state
                      ELSE [state EXCEPT ![p] = IF c.tag # 0 THEN Applied(v, c.tag, c.assets)
                                                ELSE [@ EXCEPT !.has = FALSE, !.latest = 0]]
    BY <1>1 DEF LoadCache
  <2>2. c \in Caches
    OBVIOUS
  <2>3. c.tag \in Releases /\ c.assets \in Releases
    BY <2>2 DEF Caches
  <2>4. Applied(v, c.tag, c.assets) \in States
        /\ [state[p] EXCEPT !.has = FALSE, !.latest = 0] \in States
    BY <2>3
  <2> QED
    BY <1>1, <2>1, <2>2, <2>4 DEF LoadCache
<1>2. CASE NotModified(p, v)
  <2>1. loaded[p].tag \in Releases /\ loaded[p].assets \in Releases
    BY DEF Caches
  <2> QED
    BY <1>2, <2>1 DEF NotModified, Saves
<1>3. CASE FreshRelease(p, v)
  <2>1. [recent |-> TRUE, tag |-> released, assets |-> released, etag |-> released] \in Caches
    BY DEF Caches
  <2> QED
    BY <1>3, <2>1 DEF FreshRelease, Saves
<1>4. CASE CheckFails(p)
  BY <1>4 DEF CheckFails, Saves
<1>5. CASE CheckRaises(p)
  BY <1>5 DEF CheckRaises, Over
<1>6. CASE Save(p)
  BY <1>6 DEF Save, Over
<1>7. CASE SaveFails(p)
  BY <1>7 DEF SaveFails, Over
<1> QED
  BY <1>1, <1>2, <1>3, <1>4, <1>5, <1>6, <1>7 DEF CheckStep

(* Every update step but the one that starts a process leaves the lock      *)
(* files, the check and the place of each process alone.                   *)
LEMMA UpdateTypeStep ==
  ASSUME NEW p \in Pids, TypeOK, UpdateStep(p)
  PROVE  FileType' /\ (~Spawn(p) => UNCHANGED <<checkVars, platformVars, birth, at, lock, todo, judged, born, met>>
                                   /\ mutex' \subseteq mutex)
<1> USE ReleaseAssumption DEF TypeOK, FileType, Updates, unmoved, lockVars, UpdateStates, Files, None
<1>1. CASE Download(p)
  <2>1. state[p].assets \in Files /\ Cut \in Files
    BY DEF CheckType, States, Releases, Cut
  <2> QED
    BY <1>1, <2>1 DEF Download, Offered, Asset
<1>2. CASE GivesUp(p) \/ RemoveOld(p) \/ SpawnFails(p)
  BY <1>2 DEF GivesUp, RemoveOld, SpawnFails
<1>3. CASE RenameIn(p)
  BY <1>3 DEF RenameIn
<1>4. CASE RenameAway(p)
  BY <1>4 DEF RenameAway
<1>5. CASE Restore(p)
  <2>1. None \in Files
    OBVIOUS
  <2>2. exe' \in Files /\ oldExe' \in Files /\ runsOld' \subseteq Pids
    BY <1>5, <2>1 DEF Restore
  <2>3. torn' \in BOOLEAN
    BY <1>5 DEF Restore
  <2> QED
    BY <1>5, <2>1, <2>2, <2>3 DEF Restore
<1>6. CASE HandOver(p)
  BY <1>6 DEF HandOver
<1>7. CASE Spawn(p)
  <2>1. exe \in Nat
    OBVIOUS
  <2>2. PICK c \in Pids : version' = [version EXCEPT ![c] = exe] /\ child' = child \cup {c}
    BY <1>7 DEF Spawn
  <2> QED
    BY <1>7, <2>1, <2>2 DEF Spawn
<1>8. CASE CleanUp(p)
  BY <1>8 DEF CleanUp
<1> QED
  BY <1>1, <1>2, <1>3, <1>4, <1>5, <1>6, <1>7, <1>8 DEF UpdateStep

(* Every step.                                                             *)
LEMMA TypeNext == TypeOK /\ [Next]_vars => TypeOK'
<1> SUFFICES ASSUME TypeOK, [Next]_vars PROVE TypeOK'
  OBVIOUS
<1> USE LockAssumption, ReleaseAssumption, InstallAssumption
<1> USE DEF TypeOK
<1>1. CASE World
  <2>1. CheckType'
    <3>1. CASE HourPasses
      <4>1. cache' = [cache EXCEPT !.recent = FALSE] /\ cache \in Caches
        BY <3>1 DEF HourPasses, CheckType
      <4>2. cache' \in Caches
        BY <4>1 DEF Caches
      <4> QED
        BY <3>1, <4>2 DEF HourPasses, CheckType
    <3>2. ASSUME NEW r \in Releases, Publish(r) PROVE CheckType'
      BY <3>2 DEF Publish, CheckType
    <3> QED
      BY <1>1, <3>1, <3>2 DEF World
  <2> QED
    BY <1>1, <2>1 DEF World, lockVars, platformVars, fileVars, LockType, FileType
<1>2. ASSUME NEW p \in Pids, Start(p) PROVE TypeOK'
  <2>1. LockType'
    BY <1>2 DEF Start, Launch, Goes, LockType, AtStates, platformVars
  <2> QED
    BY <1>2, <2>1 DEF Start, Programs, checkVars, CheckType, FileType
<1>3. ASSUME NEW p \in Pids, StartOther(p) PROVE TypeOK'
  <2>1. LockType'
    BY <1>3 DEF StartOther, Launch, Goes, LockType, AtStates, platformVars
  <2> QED
    BY <1>3, <2>1 DEF StartOther, checkVars, fileVars, CheckType, FileType
<1>4. ASSUME NEW p \in Pids, Ends(p) PROVE TypeOK'
  <2>1. LockType'
    BY <1>4 DEF Ends, Vanish, LockType, AtStates, platformVars
  <2>2. CheckType'
    BY <1>4, CheckValues DEF Ends, Forgotten, CheckType, CheckStates
  <2>3. FileType'
    BY <1>4 DEF Ends, FileType, UpdateStates, Files, None
  <2> QED
    BY <2>1, <2>2, <2>3
<1>5. ASSUME NEW p \in Pids, Locks(p) PROVE TypeOK'
  <2>1. LockType'
    BY <1>5, LockTypeStep DEF Locks
  <2> QED
    BY <1>5, <2>1 DEF Locks, checkVars, fileVars, CheckType, FileType
<1>6. ASSUME NEW p \in Pids, Checks(p) PROVE TypeOK'
  <2>1. version[p] \in Nat
    BY DEF FileType
  <2>2. CheckType'
    BY <1>6, <2>1, CheckTypeStep DEF Checks
  <2> QED
    BY <1>6, <2>2 DEF Checks, lockVars, platformVars, fileVars, LockType, FileType
<1>7. ASSUME NEW p \in Pids, UpdateStep(p) PROVE TypeOK'
  <2>1. FileType'
    BY <1>7, UpdateTypeStep
  <2>2. CASE Spawn(p)
    <3>1. LockType'
      BY <2>2 DEF Spawn, Launch, Goes, LockType, AtStates, platformVars
    <3> QED
      BY <2>1, <2>2, <3>1 DEF Spawn, checkVars, CheckType
  <2>3. CASE ~Spawn(p)
    BY <1>7, <2>1, <2>3, UpdateTypeStep DEF LockType, CheckType, checkVars, platformVars
  <2> QED
    BY <2>2, <2>3
<1>8. CASE UNCHANGED vars
  BY <1>8 DEF vars, lockVars, checkVars, fileVars, platformVars, LockType, CheckType, FileType
<1> QED
  BY <1>1, <1>2, <1>3, <1>4, <1>5, <1>6, <1>7, <1>8 DEF Next

-----------------------------------------------------------------------------
(* run_check offers what belongs together.                                 *)
LEMMA OfferStep ==
  ASSUME NEW p \in Pids, TypeOK, OfferInv, Checks(p) PROVE OfferInv'
<1> USE DEF OfferInv, Coherent
<1> DEFINE Fits(s) == s.has => s.latest > version[p] /\ s.assets = s.latest
<1>1. /\ at[p] = "up" /\ UNCHANGED <<at, version>> /\ CheckStep(p, version[p])
      /\ cache \in Caches /\ loaded \in [Pids -> Caches] /\ state \in [Pids -> States]
  BY DEF Checks, lockVars, fileVars, TypeOK, CheckType
<1> USE <1>1
<1>2. SUFFICES /\ Coherent(cache)' /\ Coherent(loaded'[p]) /\ Fits(state'[p])
               /\ \A q \in Pids \ {p} : loaded'[q] = loaded[q] /\ state'[q] = state[q]
  OBVIOUS
<1>3. CASE LoadCache(p, version[p])
  <2>1. PICK c \in {cache, NoCache} :
          /\ UNCHANGED cache
          /\ loaded' = [loaded EXCEPT ![p] = IF c.recent THEN NoCache ELSE c]
          /\ state' = IF ~c.recent THEN state
                      ELSE [state EXCEPT ![p] = IF c.tag # 0 THEN Applied(version[p], c.tag, c.assets)
                                                ELSE [@ EXCEPT !.has = FALSE, !.latest = 0]]
    BY <1>3 DEF LoadCache
  <2>2. Coherent(NoCache) /\ Coherent(c)
    BY <2>1 DEF NoCache
  <2>3. Coherent(loaded'[p])
    BY <2>1, <2>2
  <2>4. Fits(state'[p])
    <3>1. CASE ~c.recent
      BY <2>1, <3>1
    <3>2. CASE c.recent /\ c.tag # 0
      <4>1. state'[p] = Applied(version[p], c.tag, c.assets)
        BY <2>1, <3>2
      <4>2. state'[p].has = (c.tag > version[p]) /\ state'[p].latest = c.tag /\ state'[p].assets = c.assets
        BY <4>1 DEF Applied
      <4> QED
        BY <4>2, <2>2, <3>2
    <3>3. CASE c.recent /\ c.tag = 0
      <4>1. state'[p] = [state[p] EXCEPT !.has = FALSE, !.latest = 0]
        BY <2>1, <3>3
      <4> QED
        BY <4>1 DEF States
    <3> QED
      BY <3>1, <3>2, <3>3
  <2> QED
    BY <2>1, <2>3, <2>4
<1>4. CASE NotModified(p, version[p])
  BY <1>4 DEF NotModified, Saves, Applied, Caches
<1>5. CASE FreshRelease(p, version[p])
  BY <1>5 DEF FreshRelease, Saves, Applied, Caches
<1>6. CASE CheckFails(p)
  <2>1. /\ state'[p] = [state[p] EXCEPT !.has = FALSE, !.latest = 0]
        /\ loaded'[p] = [loaded[p] EXCEPT !.recent = TRUE]
        /\ \A q \in Pids \ {p} : loaded'[q] = loaded[q] /\ state'[q] = state[q]
    BY <1>6 DEF CheckFails, Saves
  <2>2. ~state'[p].has
    BY <2>1 DEF States
  <2>3. Coherent(loaded'[p])
    BY <2>1 DEF Caches
  <2> QED
    BY <1>6, <2>1, <2>2, <2>3 DEF CheckFails, Saves
<1>7. CASE CheckRaises(p) \/ Save(p) \/ SaveFails(p)
  <2>1. Coherent(NoCache)
    BY DEF NoCache
  <2> QED
    BY <1>7, <2>1 DEF CheckRaises, Save, SaveFails, Over
<1> QED
  BY <1>3, <1>4, <1>5, <1>6, <1>7 DEF CheckStep

(* Every step.                                                             *)
LEMMA OfferNext == TypeOK /\ OfferInv /\ [Next]_vars => OfferInv'
<1> SUFFICES ASSUME TypeOK, OfferInv, [Next]_vars PROVE OfferInv'
  OBVIOUS
<1> USE ReleaseAssumption, InstallAssumption
<1> USE DEF TypeOK, OfferInv, Coherent
<1>1. CASE World
  BY <1>1 DEF World, HourPasses, Publish, Caches, CheckType, lockVars, fileVars
<1>2. ASSUME NEW p \in Pids, Start(p) PROVE OfferInv'
  BY <1>2 DEF Start, Launch, Goes, checkVars, LockType, FileType
<1>3. ASSUME NEW p \in Pids, StartOther(p) PROVE OfferInv'
  BY <1>3 DEF StartOther, Launch, Goes, checkVars, fileVars, LockType
<1>4. ASSUME NEW p \in Pids, Ends(p) PROVE OfferInv'
  BY <1>4 DEF Ends, Vanish, Forgotten, NoCache, NoState, LockType, CheckType, FileType
<1>5. ASSUME NEW p \in Pids, Locks(p) PROVE OfferInv'
  <2>1. \A q \in Pids : at'[q] \in {"none", "other"} => at[q] \in {"none", "other"}
    BY <1>5, LockTypeStep DEF Locks, Ours
  <2> QED
    BY <1>5, <2>1 DEF Locks, checkVars, fileVars
<1>6. ASSUME NEW p \in Pids, Checks(p) PROVE OfferInv'
  BY <1>6, OfferStep
<1>7. ASSUME NEW p \in Pids, UpdateStep(p) PROVE OfferInv'
  <2>1. CASE Spawn(p)
    BY <2>1 DEF Spawn, Launch, Goes, checkVars, LockType, FileType
  <2>2. CASE ~Spawn(p)
    <3>1. UNCHANGED <<checkVars, at>> /\ version' = version
      BY <1>7, <2>2, UpdateTypeStep DEF UpdateStep, Download, Offered, Asset, GivesUp, RemoveOld, RenameAway,
           RenameIn, Restore, HandOver, SpawnFails, CleanUp
    <3> QED
      BY <3>1 DEF checkVars
  <2> QED
    BY <2>1, <2>2
<1>8. CASE UNCHANGED vars
  BY <1>8 DEF vars, lockVars, checkVars, fileVars
<1> QED
  BY <1>1, <1>2, <1>3, <1>4, <1>5, <1>6, <1>7, <1>8 DEF Next

-----------------------------------------------------------------------------
(* An update leaves a program under one of the names.                      *)
LEMMA KeptUpdate ==
  ASSUME NEW p \in Pids, TypeOK, KeptInv, UpdateStep(p) PROVE KeptInv'
<1> USE DEF KeptInv, FileType, Updates, unmoved, lockVars, Ours
<1>1. Ours(p) \/ (Spawn(p) \/ SpawnFails(p) \/ HandOver(p) \/ GivesUp(p) \/ RemoveOld(p)
                \/ RenameAway(p) \/ RenameIn(p) \/ Restore(p))
  BY DEF UpdateStep, Download, Offered, Asset, CleanUp
<1>2. FileType /\ LockType /\ CheckType
  BY DEF TypeOK
<1> USE <1>2
<1>3. CASE Download(p)
  <2>1. state[p].assets # None /\ Cut # None
    BY <1>3, ReleaseAssumption DEF Download, Offered, Asset, Cut, None
  <2>2. fetched'[p] # None /\ update' = [update EXCEPT ![p] = "replace"]
        /\ UNCHANGED <<exe, oldExe, runsOld, at, torn>>
        /\ \A q \in Pids \ {p} : fetched'[q] = fetched[q]
    BY <1>3, <2>1 DEF Download, Offered, Asset
  <2>3. update[p] = "none"
    BY <1>3 DEF Download, Offered, Asset
  <2> QED
    BY <2>2, <2>3
<1>4. CASE GivesUp(p) \/ SpawnFails(p) \/ HandOver(p)
  BY <1>4 DEF GivesUp, SpawnFails, HandOver
<1>5. CASE RemoveOld(p) \/ CleanUp(p)
  <2>1. exe \in Programs
    BY <1>5 DEF RemoveOld, CleanUp
  <2> QED
    BY <1>5, <2>1, ReleaseAssumption DEF RemoveOld, CleanUp, Programs, None
<1>6. CASE RenameAway(p)
  <2>1. exe \in Programs
    BY <1>6, ReleaseAssumption DEF RenameAway, Programs, None
  <2>2. \A q \in Pids : update[q] # "renamed"
    BY <1>6 DEF RenameAway
  <2> QED
    BY <1>6, <2>1, <2>2 DEF RenameAway
<1>7. CASE RenameIn(p)
  <2>1. fetched[p] # None /\ oldExe \in Programs /\ \A q \in Pids \ {p} : update[q] # "renamed"
    BY <1>7, ReleaseAssumption DEF RenameIn, Programs, None
  <2>2. exe \notin Programs
    BY <1>7, ReleaseAssumption DEF RenameIn, Programs, None
  <2> QED
    BY <1>7, <2>1, <2>2 DEF RenameIn
<1>8. CASE Restore(p)
  <2>1. exe = None /\ oldExe \in Programs /\ \A q \in Pids \ {p} : update[q] # "renamed"
    BY <1>8, ReleaseAssumption DEF Restore, Programs, None
  <2>2. oldExe # None
    BY <2>1, ReleaseAssumption DEF Programs, None
  <2> QED
    BY <1>8, <2>1, <2>2 DEF Restore
<1>9. CASE Spawn(p)
  BY <1>9 DEF Spawn, Launch, Goes, LockType
<1> QED
  BY <1>3, <1>4, <1>5, <1>6, <1>7, <1>8, <1>9 DEF UpdateStep

(* Every step.                                                             *)
LEMMA KeptNext == TypeOK /\ KeptInv /\ [Next]_vars => KeptInv'
<1> SUFFICES ASSUME TypeOK, KeptInv, [Next]_vars PROVE KeptInv'
  OBVIOUS
<1> USE DEF KeptInv, TypeOK
<1>1. CASE World
  BY <1>1 DEF World, lockVars, fileVars, Ours
<1>2. ASSUME NEW p \in Pids, Start(p) \/ StartOther(p) PROVE KeptInv'
  BY <1>2 DEF Start, StartOther, Launch, Goes, fileVars, LockType, Ours
<1>3. ASSUME NEW p \in Pids, Ends(p) PROVE KeptInv'
  BY <1>3 DEF Ends, Vanish, LockType, FileType, Ours
<1>4. ASSUME NEW p \in Pids, Locks(p) PROVE KeptInv'
  BY <1>4, LockTypeStep DEF Locks, fileVars
<1>5. ASSUME NEW p \in Pids, Checks(p) PROVE KeptInv'
  BY <1>5 DEF Checks, lockVars, fileVars, Ours
<1>6. ASSUME NEW p \in Pids, UpdateStep(p) PROVE KeptInv'
  BY <1>6, KeptUpdate
<1>7. CASE UNCHANGED vars
  BY <1>7 DEF vars, lockVars, fileVars, Ours
<1> QED
  BY <1>1, <1>2, <1>3, <1>4, <1>5, <1>6, <1>7 DEF Next

-----------------------------------------------------------------------------
(* A start that comes up has met no other instance that is up.             *)
LEMMA OneLocks ==
  ASSUME NEW p \in Pids, TypeOK, OneInv, Locks(p) PROVE OneInv'
<1> USE LockAssumption
    DEF OneInv, LockType, platformVars, Goes, Ours, Locking, Empty, Absent
<1>1. LockType /\ UNCHANGED <<platformVars, update>> /\ LockStep(p)
  BY DEF Locks, TypeOK, fileVars
<1> USE <1>1 DEF HasGone
<1>2. CASE AskMutex(p)
  BY <1>2 DEF AskMutex
<1>3. CASE FindLocks(p)
  BY <1>3 DEF FindLocks
<1>4. ASSUME NEW q \in Pids, Look(p, q) PROVE OneInv'
  <2>1. frozen /\ ~windows /\ ~met /\ ~SameProcess(q) => at[q] # "up"
    BY DEF SameProcess
  <2> QED
    BY <1>4, <2>1 DEF Look
<1>5. CASE RemoveStale(p)
  BY <1>5 DEF RemoveStale
<1>6. CASE CreateLock(p)
  BY <1>6 DEF CreateLock
<1>7. CASE LockFails(p)
  <2>1. /\ at[p] \in {"look", "fill"} /\ todo[p] = {} /\ at' = [at EXCEPT ![p] = "up"]
        /\ met' = (met \/ at[p] = "look")
        /\ UNCHANGED <<birth, mutex, lock, todo, judged>>
    BY <1>7 DEF LockFails
  <2>2. at'[p] = "up" /\ \A q \in Pids : q # p => at'[q] = at[q]
    BY <2>1
  <2>3. ~windows
    BY <2>1
  <2>4. frozen' /\ ~windows' /\ ~met' => at[p] = "fill" /\ ~met
    BY <2>1
  <2>5. frozen' /\ ~windows' /\ ~met' => \A q \in Pids : at[q] # "up"
    BY <2>1, <2>4
  <2>6. frozen' /\ ~windows' /\ ~met' => \A q \in Pids : q # p => at'[q] \notin {"up", "look", "remove", "fill"}
    BY <2>2, <2>4, <2>5
  <2> QED
    BY <2>1, <2>2, <2>3, <2>4, <2>6
<1>8. CASE FillLock(p)
  <2>1. /\ at[p] = "fill" /\ at' = [at EXCEPT ![p] = "up"] /\ lock' = [lock EXCEPT ![p] = birth[p]]
        /\ UNCHANGED <<birth, mutex, met, todo, judged>>
    BY <1>8 DEF FillLock
  <2>2. /\ at'[p] = "up" /\ lock'[p] = birth[p] /\ birth[p] # 0
        /\ \A q \in Pids : q # p => at'[q] = at[q]
    BY <2>1
  <2>3. ~windows
    BY <2>1
  <2>5. frozen' /\ ~windows' /\ ~met' => \A q \in Pids : at[q] # "up"
    BY <2>1
  <2>6. frozen' /\ ~windows' /\ ~met' => \A q \in Pids : q # p => at'[q] \notin {"up", "look", "remove", "fill"}
    BY <2>1, <2>2, <2>5
  <2> QED
    BY <2>1, <2>2, <2>3, <2>6
<1>9. CASE Release(p)
  BY <1>9 DEF Release
<1> QED
  BY <1>2, <1>3, <1>4, <1>5, <1>6, <1>7, <1>8, <1>9 DEF LockStep

(* Every step.                                                             *)
LEMMA OneNext == TypeOK /\ OneInv /\ [Next]_vars => OneInv'
<1> SUFFICES ASSUME TypeOK, OneInv, [Next]_vars PROVE OneInv'
  OBVIOUS
<1> USE LockAssumption DEF OneInv, TypeOK
<1>1. CASE World
  BY <1>1 DEF World, lockVars, platformVars, fileVars, Ours, HasGone, Locking
<1>2. ASSUME NEW p \in Pids, Start(p) \/ StartOther(p) PROVE OneInv'
  <2>1. /\ at' \in {[at EXCEPT ![p] = "start"], [at EXCEPT ![p] = "other"]}
        /\ birth' = [birth EXCEPT ![p] = born + 1]
        /\ UNCHANGED <<platformVars, mutex, lock, todo, judged, met, update>>
    BY <1>2 DEF Start, StartOther, Launch, Goes, platformVars, fileVars
  <2>2. /\ at'[p] \in {"start", "other"} /\ birth'[p] # 0
        /\ \A q \in Pids : q # p => at'[q] = at[q] /\ birth'[q] = birth[q]
    BY <2>1 DEF LockType
  <2>3. \A q \in Pids : at'[q] = "up" \/ Locking(q)' => at'[q] = at[q] /\ birth'[q] = birth[q] /\ q # p
    BY <2>2 DEF Locking
  <2> QED
    BY <2>1, <2>2, <2>3 DEF platformVars, Ours, HasGone, Locking
<1>3. ASSUME NEW p \in Pids, Ends(p) PROVE OneInv'
  <2>1. /\ at'[p] = "none" /\ update'[p] = "none" /\ mutex' = mutex \ {p}
        /\ \A q \in Pids : q # p => /\ at'[q] = at[q] /\ birth'[q] = birth[q] /\ update'[q] = update[q]
                                    /\ todo'[q] = todo[q] /\ judged'[q] = judged[q]
        /\ UNCHANGED <<frozen, windows, lock, met>>
    BY <1>3 DEF Ends, Vanish, LockType, FileType, platformVars
  <2>2. \A q \in Pids : at'[q] = "up" \/ Ours(q)' \/ Locking(q)' => q # p
    BY <2>1 DEF Ours, Locking
  <2> QED
    BY <2>1, <2>2 DEF Ours, HasGone, Locking
<1>4. ASSUME NEW p \in Pids, Locks(p) PROVE OneInv'
  BY <1>4, OneLocks
<1>5. ASSUME NEW p \in Pids, Checks(p) PROVE OneInv'
  BY <1>5 DEF Checks, lockVars, platformVars, fileVars, Ours, HasGone, Locking
<1>6. ASSUME NEW p \in Pids, UpdateStep(p) PROVE OneInv'
  <2>1. CASE Spawn(p)
    BY <2>1 DEF Spawn, Launch, Goes, Updates, platformVars, LockType, FileType, Ours, HasGone, Locking
  <2>2. CASE HandOver(p)
    BY <2>2 DEF HandOver, Updates, unmoved, platformVars, FileType, Ours, HasGone, Locking
  <2>3. CASE ~Spawn(p) /\ ~HandOver(p)
    <3>1. UNCHANGED <<platformVars, lockVars>>
      BY <1>6, <2>3 DEF UpdateStep, Download, Offered, Asset, GivesUp, RemoveOld, RenameAway, RenameIn, Restore,
                        SpawnFails, CleanUp, unmoved
    <3>2. windows \/ update[p] = "none"
      OBVIOUS
    <3>3. (update' = update) \/ (windows /\ \E to : update' = [update EXCEPT ![p] = to] /\ (HasGone(p) => to = "exits"))
      BY <1>6, <2>3, <3>2 DEF UpdateStep, Download, Offered, Asset, GivesUp, RemoveOld, RenameAway, RenameIn,
             Restore, SpawnFails, CleanUp, Updates, HasGone
    <3> QED
      BY <3>1, <3>3 DEF lockVars, platformVars, FileType, Ours, HasGone, Locking
  <2> QED
    BY <2>1, <2>2, <2>3
<1>7. CASE UNCHANGED vars
  BY <1>7 DEF vars, lockVars, platformVars, fileVars, Ours, HasGone, Locking
<1> QED
  BY <1>1, <1>2, <1>3, <1>4, <1>5, <1>6, <1>7 DEF Next

-----------------------------------------------------------------------------
(* A new installation keeps all three.                                     *)
LEMMA InvInit == Init => OfferInv /\ KeptInv /\ OneInv
<1> SUFFICES ASSUME Init PROVE OfferInv /\ KeptInv /\ OneInv
  OBVIOUS
<1> USE LockAssumption, ReleaseAssumption, InstallAssumption DEF Init, LockInit, CheckInit
<1>1. OfferInv
  BY DEF OfferInv, Coherent, NoCache, NoState
<1>2. KeptInv
  BY DEF KeptInv, Programs, None, Ours
<1>3. OneInv
  BY DEF OneInv, Ours, Locking, HasGone
<1> QED
  BY <1>1, <1>2, <1>3

(* Every variable of the three modules keeps its type.                     *)
THEOREM InstallTypes == Spec => []TypeOK
BY TypeInit, TypeNext, PTL DEF Spec

(* Nothing older than what runs is offered, with nothing but its own assets,*)
(* for any number of processes that share the cache.                       *)
THEOREM OfferHolds == Spec => []OfferSound
<1>1. OfferInv => OfferSound
  BY DEF OfferInv, OfferSound, Coherent
<1> QED
  BY <1>1, TypeInit, TypeNext, InvInit, OfferNext, PTL DEF Spec

(* A complete program is there at all times, under its own name unless an   *)
(* update is, or was broken off, between its renames.                      *)
THEOREM ProgramKeptHolds == Spec => []ProgramKept
<1>1. KeptInv => ProgramKept
  BY DEF KeptInv, ProgramKept
<1> QED
  BY <1>1, TypeInit, TypeNext, InvInit, KeptNext, PTL DEF Spec

(* Any number of starts, exits and crashes, and process ids used again,     *)
(* leave one instance of an installed program, but for the named cases.    *)
THEOREM OneInstanceHolds == Spec => []OneInstance
<1>1. OneInv => OneInstance
  BY DEF OneInv, OneInstance
<1> QED
  BY <1>1, TypeInit, TypeNext, InvInit, OneNext, PTL DEF Spec

-----------------------------------------------------------------------------
(* Refusals.  Who holds the mutex is up and stays, and only a program that  *)
(* was up makes room for its update; on the other systems a start never     *)
(* finds its own create time in a file, and the file of its own process id, *)
(* if it has yet to look at it, was not removed by a start it did not meet. *)
RefuseInv ==
  /\ \A q \in mutex : at[q] = "up" /\ ~HasGone(q)
  /\ \A p \in Pids : HasGone(p) => at[p] \in {"up", "leaving"}
  /\ born <= MaxBirth
  /\ \A p \in Pids : birth[p] <= born /\ (lock[p] # Empty => lock[p] <= born)
  /\ \A p \in Pids : at[p] \in {"start", "look", "remove"} => lock[p] # birth[p]
  /\ \A p \in Pids : todo[p] \cap judged[p] = {}
                     /\ (at[p] \in {"none", "other", "start"} => judged[p] = {})
  /\ frozen /\ ~windows /\ ~met => \A p \in Pids : Locking(p) /\ p \in todo[p] => lock[p] # Absent

(* A start on its way to its lock file.                                    *)
LEMMA RefuseLocks ==
  ASSUME NEW p \in Pids, TypeOK, OneInv, RefuseInv, Locks(p) PROVE RefuseInv'
<1> USE LockAssumption DEF RefuseInv, LockType, platformVars, Goes, HasGone
<1>1. LockType /\ UNCHANGED <<platformVars, update>> /\ LockStep(p)
  BY DEF Locks, TypeOK, fileVars
<1>2. /\ \A q \in Pids : Ours(q) => birth[q] # 0
      /\ windows => \A q \in Pids : ~Locking(q)
      /\ frozen /\ ~windows /\ ~met => \A q, r \in Pids : Locking(q) /\ Locking(r) => q = r
  BY DEF OneInv
<1> USE <1>1
<1>3. CASE AskMutex(p)
  <2>1. ~HasGone(p)
    BY <1>3 DEF AskMutex
  <2> QED
    BY <1>3, <2>1 DEF AskMutex, Locking
<1>4. CASE FindLocks(p)
  <2>1. /\ at[p] = "start" /\ at' = [at EXCEPT ![p] = "look"]
        /\ todo' = [todo EXCEPT ![p] = {q \in Pids : lock[q] # Absent}]
        /\ (met => met') /\ UNCHANGED <<birth, mutex, lock, judged, born, frozen, windows, update>>
    BY <1>4 DEF FindLocks
  <2>2. \A q \in Pids : todo'[q] \cap judged'[q] = {}
    BY <2>1
  <2>3. \A q \in Pids : Locking(q)' /\ q \in todo'[q] => lock[q] # Absent \/ (Locking(q) /\ q \in todo[q])
    BY <2>1 DEF Locking
  <2> QED
    BY <2>1, <2>2, <2>3
<1>5. ASSUME NEW q \in Pids, Look(p, q) PROVE RefuseInv'
  BY <1>5 DEF Look, Locking
<1>6. CASE RemoveStale(p)
  <2>1. /\ at[p] = "remove" /\ at' = [at EXCEPT ![p] = "look"]
        /\ \A q \in Pids : lock'[q] = IF q \in judged[p] THEN Absent ELSE lock[q]
        /\ judged' = [judged EXCEPT ![p] = {}]
        /\ UNCHANGED <<birth, mutex, todo, born, met, frozen, windows, update>>
    BY <1>6 DEF RemoveStale
  <2>2. \A q \in Pids : at'[q] = at[q] \/ (q = p /\ at'[q] = "look")
    BY <2>1
  <2>3. /\ \A q \in mutex : at'[q] = "up" /\ ~HasGone(q)
        /\ \A q \in Pids : HasGone(q) => at'[q] \in {"up", "leaving"}
    BY <2>1, <2>2
  <2>4. \A q \in Pids : lock'[q] # Empty => lock'[q] <= born
    BY <2>1 DEF Absent, Empty
  <2>5. \A q \in Pids : at'[q] \in {"start", "look", "remove"} => lock'[q] # birth[q]
    BY <1>2, <2>1, <2>2 DEF Absent, Ours
  <2>6. \A q \in Pids : Locking(q)' <=> Locking(q)
    BY <2>1, <2>2 DEF Locking
  <2>7. frozen /\ ~windows /\ ~met => \A q \in Pids : Locking(q) /\ q \in todo[q] => lock'[q] # Absent
    BY <1>2, <2>1 DEF Locking
  <2> QED
    BY <2>1, <2>3, <2>4, <2>5, <2>6, <2>7 DEF Empty
<1>7. CASE CreateLock(p)
  BY <1>7 DEF CreateLock, Empty, Absent, Locking
<1>8. CASE LockFails(p)
  BY <1>2, <1>8 DEF LockFails, Locking
<1>9. CASE FillLock(p)
  BY <1>2, <1>9 DEF FillLock, Locking
<1>10. CASE Release(p)
  BY <1>10 DEF Release, Absent, Empty, Locking
<1> QED
  BY <1>1, <1>3, <1>4, <1>5, <1>6, <1>7, <1>8, <1>9, <1>10 DEF LockStep

(* A process that starts has a birth of its own, later than any lock file's.*)
LEMMA RefuseLaunch ==
  ASSUME NEW c \in Pids, NEW what \in {"start", "other"}, TypeOK, OneInv, RefuseInv, Launch(c, what),
         frozen' = frozen, windows' = windows,
         \A q \in Pids : HasGone(q)' => HasGone(q)
  PROVE  RefuseInv'
<1> USE LockAssumption DEF RefuseInv, TypeOK, LockType, Empty
<1>1. /\ at[c] = "none" /\ born < MaxBirth /\ born' = born + 1 /\ birth'[c] = born + 1 /\ at'[c] = what
      /\ \A q \in Pids : q # c => at'[q] = at[q] /\ birth'[q] = birth[q]
      /\ UNCHANGED <<mutex, lock, todo, judged, met>>
  BY DEF Launch, Goes
<1>2. c \notin mutex
  BY <1>1
<1>3. /\ \A q \in mutex' : at'[q] = "up" /\ ~HasGone(q)'
      /\ \A q \in Pids : HasGone(q)' => at'[q] \in {"up", "leaving"}
  BY <1>1, <1>2
<1>4. lock'[c] # birth'[c]
  BY <1>1
<1>5. \A q \in Pids : Locking(q)' => Locking(q)
  BY <1>1 DEF Locking
<1> QED
  BY <1>1, <1>3, <1>4, <1>5

(* Every step.                                                             *)
LEMMA RefuseNext == TypeOK /\ OneInv /\ RefuseInv /\ [Next]_vars => RefuseInv'
<1> SUFFICES ASSUME TypeOK, OneInv, RefuseInv, [Next]_vars PROVE RefuseInv'
  OBVIOUS
<1>1. CASE UNCHANGED <<platformVars, lockVars, update>>
  BY <1>1 DEF RefuseInv, lockVars, platformVars, HasGone, Locking
<1>2. ASSUME NEW p \in Pids, Start(p) \/ StartOther(p) PROVE RefuseInv'
  BY <1>2, RefuseLaunch DEF Start, StartOther, platformVars, fileVars, HasGone
<1>3. ASSUME NEW p \in Pids, Ends(p) PROVE RefuseInv'
  <2>1. /\ at'[p] = "none" /\ birth'[p] = 0 /\ todo'[p] = {} /\ judged'[p] = {}
        /\ mutex' = mutex \ {p}
        /\ \A q \in Pids : q # p => /\ at'[q] = at[q] /\ birth'[q] = birth[q] /\ update'[q] = update[q]
                                    /\ todo'[q] = todo[q] /\ judged'[q] = judged[q]
        /\ UNCHANGED <<frozen, windows, lock, met, born>>
    BY <1>3 DEF Ends, Vanish, TypeOK, LockType, FileType, platformVars
  <2>2. born \in Nat /\ mutex \subseteq Pids
    BY DEF TypeOK, LockType
  <2>3. /\ \A q \in mutex' : at'[q] = "up" /\ ~HasGone(q)'
        /\ \A q \in Pids : HasGone(q)' => at'[q] \in {"up", "leaving"}
    <3>1. update'[p] = "none"
      BY <1>3 DEF Ends, TypeOK, FileType
    <3> QED
      BY <2>1, <2>2, <3>1 DEF RefuseInv, HasGone
  <2>4. \A q \in Pids : Locking(q)' => q # p /\ Locking(q)
    BY <2>1 DEF Locking
  <2>5. \A q \in Pids : birth'[q] <= born /\ (lock[q] # Empty => lock[q] <= born)
    BY <2>1, <2>2 DEF RefuseInv
  <2>6. \A q \in Pids : at'[q] \in {"start", "look", "remove"} => lock'[q] # birth'[q]
    BY <2>1 DEF RefuseInv
  <2> QED
    BY <2>1, <2>3, <2>4, <2>5, <2>6 DEF RefuseInv, Empty
<1>4. ASSUME NEW p \in Pids, Locks(p) PROVE RefuseInv'
  BY <1>4, RefuseLocks
<1>5. ASSUME NEW p \in Pids, UpdateStep(p) PROVE RefuseInv'
  <2>0. update \in [Pids -> UpdateStates] /\ mutex \subseteq Pids
    BY DEF TypeOK, LockType, FileType
  <2>1. CASE Spawn(p)
    <3>1. \A q \in Pids : HasGone(q)' => HasGone(q)
      BY <2>0, <2>1 DEF Spawn, Updates, HasGone
    <3>2. PICK c \in Pids : Launch(c, "start")
      BY <2>1 DEF Spawn
    <3>3. frozen' = frozen /\ windows' = windows
      BY <2>1 DEF Spawn, platformVars
    <3> QED
      BY <3>1, <3>2, <3>3, RefuseLaunch
  <2>2. CASE HandOver(p)
    <3>1. /\ mutex' = mutex \ {p} /\ at[p] \in {"up", "leaving"}
          /\ \A q \in Pids : q # p => update'[q] = update[q]
          /\ UNCHANGED <<frozen, windows, birth, at, lock, todo, judged, born, met>>
      BY <2>0, <2>2 DEF HandOver, Updates, unmoved, platformVars
    <3> QED
      BY <2>0, <3>1 DEF RefuseInv, HasGone, Locking
  <2>3. CASE ~Spawn(p) /\ ~HandOver(p)
    <3>1. UNCHANGED <<platformVars, lockVars>>
      BY <1>5, <2>3 DEF UpdateStep, Download, Offered, Asset, GivesUp, RemoveOld, RenameAway, RenameIn, Restore,
                        SpawnFails, CleanUp, unmoved
    <3>2. update' = update \/ \E to : update' = [update EXCEPT ![p] = to] /\ (to \in {"stopping", "exits"} => HasGone(p))
      BY <1>5, <2>3 DEF UpdateStep, Download, Offered, Asset, GivesUp, RemoveOld, RenameAway, RenameIn,
             Restore, SpawnFails, CleanUp, Updates, HasGone
    <3>3. \A q \in Pids : HasGone(q)' => HasGone(q)
      BY <2>0, <3>2 DEF HasGone
    <3> QED
      BY <2>0, <3>1, <3>3 DEF RefuseInv, lockVars, platformVars, Locking
  <2> QED
    BY <2>1, <2>2, <2>3
<1> QED
  BY <1>1, <1>2, <1>3, <1>4, <1>5 DEF Next, World, Checks, vars, fileVars

(* A start is turned away by another instance, which on Windows does not    *)
(* make room for an update, and on the other systems also by a lock file    *)
(* without its content or one that another start removes.                  *)
THEOREM RefusedRightlyHolds == Spec => RefusedRightly
<1> DEFINE A == \A p \in Pids : at[p] # "refused" /\ at'[p] = "refused" =>
                  \/ \E q \in Pids \ {p} : Ours(q) /\ (windows => ~HasGone(q))
                  \/ ~windows /\ (lock[p] = Empty \/ met)
<1>1. TypeOK /\ OneInv /\ RefuseInv /\ [Next]_vars => A
  <2> SUFFICES ASSUME TypeOK, OneInv, RefuseInv, [Next]_vars,
                      NEW p \in Pids, at[p] # "refused", at'[p] = "refused"
               PROVE  \/ \E q \in Pids \ {p} : Ours(q) /\ (windows => ~HasGone(q))
                      \/ ~windows /\ (lock[p] = Empty \/ met)
    OBVIOUS
  <2>0. at \in [Pids -> AtStates] /\ mutex \subseteq Pids
    BY DEF TypeOK, LockType
  <2>1. PICK r \in Pids : \/ AskMutex(r)
                          \/ \E q \in Pids : Look(r, q)
    <3>1. ASSUME NEW r \in Pids, UpdateStep(r) PROVE at'[p] # "refused"
      <4>1. CASE Spawn(r)
        BY <2>0, <4>1 DEF Spawn, Launch, Goes
      <4>2. CASE ~Spawn(r)
        BY <3>1, <4>2, UpdateTypeStep
      <4> QED
        BY <4>1, <4>2
    <3>2. ASSUME NEW r \in Pids, Start(r) \/ StartOther(r) \/ Ends(r) PROVE at'[p] # "refused"
      BY <2>0, <3>2 DEF Start, StartOther, Ends, Launch, Goes, Vanish
    <3>3. ASSUME NEW r \in Pids,
                 FindLocks(r) \/ RemoveStale(r) \/ CreateLock(r) \/ LockFails(r) \/ FillLock(r) \/ Release(r)
          PROVE  at'[p] # "refused"
      BY <2>0, <3>3 DEF FindLocks, RemoveStale, CreateLock, LockFails, FillLock, Release, Goes
    <3>4. PICK r \in Pids : Locks(r)
      BY <3>1, <3>2 DEF Next, World, Checks, vars, lockVars
    <3> QED
      BY <3>3, <3>4 DEF Locks, LockStep
  <2>2. r = p
    BY <2>0, <2>1 DEF AskMutex, Look, Goes
  <2>3. CASE AskMutex(p)
    <3>1. windows /\ at[p] = "start" /\ mutex # {}
      BY <2>0, <2>3 DEF AskMutex, Goes
    <3>2. PICK q \in mutex : at[q] = "up" /\ ~HasGone(q)
      BY <3>1 DEF RefuseInv
    <3> QED
      BY <2>0, <3>1, <3>2 DEF Ours
  <2>4. ASSUME NEW q \in Pids, Look(p, q)
        PROVE  \/ \E x \in Pids \ {p} : Ours(x) /\ (windows => ~HasGone(x))
               \/ ~windows /\ (lock[p] = Empty \/ met)
    <3>1. at[p] = "look" /\ q \in todo[p] /\ SameProcess(q)
      BY <2>0, <2>4 DEF Look, Goes
    <3>2. ~windows /\ frozen /\ Ours(q) /\ lock[q] \in {Absent, Empty, birth[q]}
      BY <3>1 DEF SameProcess, OneInv, Locking
    <3>3. lock[p] # birth[p] /\ (lock[p] = Absent /\ q = p => met)
      BY <3>1, <3>2 DEF RefuseInv, Locking
    <3> QED
      BY <3>2, <3>3
  <2> QED
    BY <2>1, <2>2, <2>3, <2>4
<1>2. TypeOK /\ OneInv /\ RefuseInv /\ [Next]_vars => [A]_vars
  BY <1>1
<1>3. Init => RefuseInv
  BY LockAssumption DEF Init, LockInit, RefuseInv, Locking, HasGone, Absent, Empty
<1> QED
  BY <1>2, <1>3, TypeInit, TypeNext, InvInit, OneNext, RefuseNext, PTL DEF Spec, RefusedRightly
=============================================================================
