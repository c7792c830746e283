---------------------------- MODULE Installation ----------------------------
(***************************************************************************)
(* The tray program on its machine: instances that start, check for an      *)
(* update and, on Windows, replace the file they run from (_perform_update  *)
(* of windows.py), while others start, leave and crash.                    *)
(*                                                                         *)
(* Of Windows it takes that a file some process runs from can be renamed    *)
(* but not removed, that a rename does not overwrite, and that a file cut   *)
(* short does not run.  An operator X_Y is a faulty variant of X that some  *)
(* property must catch.                                                    *)
(***************************************************************************)
EXTENDS InstanceLock, UpdateCheck

CONSTANTS FirstVersion   \* the release installed at the beginning

ASSUME InstallAssumption == FirstVersion \in 1..MaxRelease /\ Checkers = Pids

None == 0               \* no file
Cut == MaxRelease + 1   \* a program file whose download ended early
Programs == 1..MaxRelease

VARIABLES
  exe,        \* the program file
  oldExe,     \* the one named *_oldtgws.exe
  runsOld,    \* the processes whose program file is the old one by now
  version,    \* the release a process runs
  update,     \* where its _perform_update is
  fetched,    \* its temporary file
  child,      \* the process ids of programs that an updater started
  torn        \* history: the exchange of the files was broken off

fileVars == <<exe, oldExe, runsOld, version, update, fetched, child, torn>>
vars == <<platformVars, lockVars, checkVars, fileVars>>

Init ==
  /\ LockInit /\ CheckInit
  /\ exe = FirstVersion /\ oldExe = None /\ runsOld = {}
  /\ version = [p \in Pids |-> 0] /\ update = [p \in Pids |-> "none"]
  /\ fetched = [p \in Pids |-> None] /\ child = {} /\ torn = FALSE

-----------------------------------------------------------------------------
(* Processes.                                                              *)

Start(p) ==
  /\ exe \in Programs
  /\ Launch(p, "start")
  /\ version' = [version EXCEPT ![p] = exe]
  /\ UNCHANGED <<platformVars, checkVars, exe, oldExe, runsOld, update, fetched, child, torn>>

StartOther(p) ==
  /\ Launch(p, "other")
  /\ UNCHANGED <<platformVars, checkVars, fileVars>>

(* The way out, a crash, or the end of the process under a running update,  *)
(* whose thread is a daemon.                                               *)
Ends(p) ==
  /\ Vanish(p) /\ Forgotten(p)
  /\ runsOld' = runsOld \ {p} /\ child' = child \ {p}
  /\ version' = [version EXCEPT ![p] = 0]
  /\ update' = [update EXCEPT ![p] = "none"] /\ fetched' = [fetched EXCEPT ![p] = None]
  /\ torn' = (torn \/ update[p] = "renamed")
  /\ UNCHANGED <<platformVars, exe, oldExe>>

Locks(p) == LockStep(p) /\ UNCHANGED <<platformVars, checkVars, fileVars>>

Checks(p) ==
  /\ at[p] = "up"
  /\ CheckStep(p, version[p])
  /\ UNCHANGED <<platformVars, lockVars, fileVars>>

-----------------------------------------------------------------------------
(* _perform_update, in the one dialog that _update_flow_lock lets be open.  *)

Updates(p, from, to) ==
  /\ at[p] \in {"up", "leaving"} /\ update[p] = from
  /\ update' = [update EXCEPT ![p] = to]
unmoved == <<platformVars, checkVars, child>>

(* The dialog opens for an update that run_check found; get_update_asset    *)
(* picks one of its files, or none.                                        *)
Offered(p) == windows /\ at[p] = "up" /\ check[p] = "done" /\ state[p].has
Asset(p) == state[p].assets

(* A response that ends early looks like one that is complete.             *)
Download(p) ==
  /\ frozen /\ Offered(p) /\ Asset(p) # 0
  /\ Updates(p, "none", "replace")
  /\ \E f \in {Asset(p), Cut} : fetched' = [fetched EXCEPT ![p] = f]
  /\ UNCHANGED <<unmoved, lockVars, exe, oldExe, runsOld, version, torn>>

(* An error at any place before the first rename.                          *)
GivesUp(p) ==
  /\ Updates(p, "replace", "none")
  /\ fetched' = [fetched EXCEPT ![p] = None]
  /\ UNCHANGED <<unmoved, lockVars, exe, oldExe, runsOld, version, torn>>

RemoveOld(p) ==
  /\ oldExe # None /\ runsOld = {}
  /\ Updates(p, "replace", "replace")
  /\ oldExe' = None
  /\ UNCHANGED <<unmoved, lockVars, exe, runsOld, version, fetched, torn>>
RenameAway(p) ==
  /\ exe # None /\ oldExe = None
  /\ Updates(p, "replace", "renamed")
  /\ oldExe' = exe /\ exe' = None
  /\ runsOld' = {q \in Pids : Ours(q)}
  /\ UNCHANGED <<unmoved, lockVars, version, fetched, torn>>
RenameIn(p) ==
  /\ exe = None /\ Updates(p, "renamed", "placed")
  /\ exe' = fetched[p] /\ fetched' = [fetched EXCEPT ![p] = None]
  /\ UNCHANGED <<unmoved, lockVars, oldExe, runsOld, version, torn>>

(* The second rename fails: the first is undone, which can fail as well.   *)
Restore_Forgotten(p) ==
  /\ Updates(p, "renamed", "none")
  /\ fetched' = [fetched EXCEPT ![p] = None]
  /\ UNCHANGED <<unmoved, lockVars, exe, oldExe, runsOld, version, torn>>
Restore(p) ==
  /\ Updates(p, "renamed", "none")
  /\ fetched' = [fetched EXCEPT ![p] = None]
  /\ \/ exe' = oldExe /\ oldExe' = None /\ runsOld' = {} /\ UNCHANGED torn
     \/ torn' = TRUE /\ UNCHANGED <<exe, oldExe, runsOld>>
  /\ UNCHANGED <<unmoved, lockVars, version>>

(* _release_win_mutex, then stop_proxy, ...                                *)
HandOver_KeepsMutex(p) ==
  /\ Updates(p, "placed", "stopping")
  /\ UNCHANGED <<unmoved, lockVars, exe, oldExe, runsOld, version, fetched, torn>>
HandOver(p) ==
  /\ Updates(p, "placed", "stopping")
  /\ mutex' = mutex \ {p}
  /\ UNCHANGED <<unmoved, birth, at, lock, todo, judged, born, met,
                 exe, oldExe, runsOld, version, fetched, torn>>

(* ... and the new program, if it can be run; half a second later this one *)
(* ends without releasing its lock file.                                   *)
Spawn(p) ==
  /\ Updates(p, "stopping", "exits")
  /\ \E c \in Pids :
       /\ exe \in Programs /\ Launch(c, "start")
       /\ version' = [version EXCEPT ![c] = exe] /\ child' = child \cup {c}
  /\ UNCHANGED <<platformVars, checkVars, exe, oldExe, runsOld, fetched, torn>>
SpawnFails(p) ==
  /\ Updates(p, "stopping", "exits")
  /\ UNCHANGED <<unmoved, lockVars, exe, oldExe, runsOld, version, fetched, torn>>

(* main(): three seconds after the start.                                  *)
CleanUp(p) ==
  /\ windows /\ frozen /\ at[p] \in {"up", "leaving"} /\ oldExe # None /\ runsOld = {}
  /\ oldExe' = None
  /\ UNCHANGED <<platformVars, lockVars, checkVars, exe, runsOld, version, update, fetched, child, torn>>

UpdateStep(p) ==
  \/ Download(p) \/ GivesUp(p) \/ RemoveOld(p) \/ RenameAway(p)
  \/ RenameIn(p) \/ Restore(p) \/ HandOver(p) \/ Spawn(p) \/ SpawnFails(p) \/ CleanUp(p)

World ==
  /\ HourPasses \/ \E r \in Releases : Publish(r)
  /\ UNCHANGED <<platformVars, lockVars, fileVars>>

Next ==
  \/ World
  \/ \E p \in Pids :
       Start(p) \/ StartOther(p) \/ Ends(p) \/ Locks(p) \/ Checks(p) \/ UpdateStep(p)

Spec == Init /\ [][Next]_vars

-----------------------------------------------------------------------------
HasGone(p) == update[p] \in {"stopping", "exits"}

(* Of a program that is installed, two instances are up only while one of   *)
(* them makes room after an update, or when they started together, before   *)
(* either had its lock file, or a lock file could not be written.          *)
OneInstance ==
  frozen /\ ~met =>
    \A p, q \in Pids : at[p] = "up" /\ at[q] = "up" /\ p # q => HasGone(p) \/ HasGone(q)

(* A start is refused for another instance only, and on Windows for one     *)
(* that does not make room for an update: no crash, and no process id used  *)
(* again, keeps the program out.  Only a lock file without its content can, *)
(* or one that another start removes before it is read.                    *)
RefusedRightly ==
  [][\A p \in Pids : at[p] # "refused" /\ at'[p] = "refused" =>
       \/ \E q \in Pids \ {p} : Ours(q) /\ (windows => ~HasGone(q))
       \/ ~windows /\ (lock[p] = Empty \/ met)]_vars

(* Whatever fails, crashes or is cut short, a complete program is there     *)
(* under one of the two names, and under its own unless an update is        *)
(* between its renames, was broken off there, or brought a file cut short. *)
ProgramKept ==
  /\ exe \in Programs \/ oldExe \in Programs
  /\ exe = None => torn \/ \E p \in Pids : update[p] = "renamed"

(* What is offered is newer than what runs, its assets belong to it, and    *)
(* what the cache holds is what its ETag stands for, across failures,       *)
(* restarts, withdrawn releases and instances that write it in turns.      *)
OfferSound ==
  /\ \A p \in Pids : state[p].has => state[p].latest > version[p] /\ state[p].assets = state[p].latest
  /\ cache.etag # 0 => cache.tag = cache.etag /\ cache.assets = cache.etag
=============================================================================
