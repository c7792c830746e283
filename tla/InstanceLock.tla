---------------------------- MODULE InstanceLock ----------------------------
(***************************************************************************)
(* One instance of the tray program: acquire_lock and release_lock of       *)
(* utils/tray_common.py, the mutex of windows.py, and main() of the three   *)
(* front ends.                                                             *)
(*                                                                         *)
(* Any number of starts, crashes and exits, with process ids that are used  *)
(* again; the birth of a process stands for its create time.  Each access   *)
(* of the directory is a step.  An operator X_Y is a faulty variant of X    *)
(* that some property must catch.                                          *)
(***************************************************************************)
EXTENDS Naturals, FiniteSets

CONSTANTS
  Pids,       \* process ids
  MaxBirth    \* bound: processes started

ASSUME LockAssumption == IsFiniteSet(Pids) /\ MaxBirth \in Nat

Births == 1..MaxBirth
Absent == 0                \* no lock file
Empty == MaxBirth + 1      \* a lock file without its content

VARIABLES
  frozen,    \* IS_FROZEN
  windows,   \* the front end that has a mutex, taken to work, instead of lock files
  birth,     \* the process that has each id, 0 when none has
  at,        \* where it is; "other" is a program that has nothing to do with this one
  mutex,     \* the processes that hold a handle of the mutex
  lock,      \* the content of <pid>.lock
  todo,      \* the lock files found and not looked at yet
  judged,    \* the lock file about to be removed
  born,      \* processes started
  met        \* history: two starts met on their way, or a lock was not written

lockVars == <<birth, at, mutex, lock, todo, judged, born, met>>
platformVars == <<frozen, windows>>

Ours(p) == at[p] \notin {"none", "other"}
Locking(p) == at[p] \in {"look", "remove", "fill"}

LockInit ==
  /\ frozen \in BOOLEAN /\ windows \in BOOLEAN
  /\ birth = [p \in Pids |-> 0] /\ at = [p \in Pids |-> "none"]
  /\ mutex = {} /\ lock = [p \in Pids |-> Absent]
  /\ todo = [p \in Pids |-> {}] /\ judged = [p \in Pids |-> {}]
  /\ born = 0 /\ met = FALSE

Goes(p, from, to) == at[p] = from /\ at' = [at EXCEPT ![p] = to]

Launch(p, what) ==
  /\ born < MaxBirth /\ Goes(p, "none", what)
  /\ born' = born + 1 /\ birth' = [birth EXCEPT ![p] = born + 1]
  /\ UNCHANGED <<mutex, lock, todo, judged, met>>

(* A process ends, by itself or not; Windows closes its handle.            *)
Vanish(p) ==
  /\ at[p] # "none" /\ at' = [at EXCEPT ![p] = "none"]
  /\ birth' = [birth EXCEPT ![p] = 0]
  /\ mutex' = mutex \ {p}
  /\ todo' = [todo EXCEPT ![p] = {}] /\ judged' = [judged EXCEPT ![p] = {}]
  /\ UNCHANGED <<lock, born, met>>

(* _acquire_win_mutex.                                                     *)
AskMutex(p) ==
  /\ windows
  /\ Goes(p, "start", IF mutex = {} THEN "up" ELSE "refused")
  /\ mutex' = IF mutex = {} THEN {p} ELSE mutex
  /\ UNCHANGED <<birth, lock, todo, judged, born, met>>

(* acquire_lock: APP_DIR.glob, ...                                         *)
FindLocks(p) ==
  /\ ~windows /\ Goes(p, "start", "look")
  /\ todo' = [todo EXCEPT ![p] = {q \in Pids : lock[q] # Absent}]
  /\ met' = (met \/ \E q \in Pids \ {p} : Locking(q))
  /\ UNCHANGED <<birth, mutex, lock, judged, born>>

(* ... is_running for one of them; a file that is gone or cannot be parsed  *)
(* states no create time, ...                                              *)
SameProcess_NeedsTime(q) == frozen /\ Ours(q) /\ lock[q] = birth[q]
SameProcess(q) == frozen /\ Ours(q) /\ lock[q] \in {Absent, Empty, birth[q]}
Look(p, q) ==
  /\ q \in todo[p]
  /\ Goes(p, "look", IF SameProcess(q) THEN "refused" ELSE "remove")
  /\ todo' = [todo EXCEPT ![p] = @ \ {q}]
  /\ judged' = [judged EXCEPT ![p] = {q}]
  /\ UNCHANGED <<birth, mutex, lock, born, met>>

RemoveStale(p) ==
  /\ Goes(p, "remove", "look")
  /\ lock' = [q \in Pids |-> IF q \in judged[p] THEN Absent ELSE lock[q]]
  /\ judged' = [judged EXCEPT ![p] = {}]
  /\ UNCHANGED <<birth, mutex, todo, born, met>>

(* ... and write_text, which creates the file before it fills it; either    *)
(* can fail, and the program goes on.                                      *)
CreateLock(p) ==
  /\ todo[p] = {} /\ Goes(p, "look", "fill")
  /\ lock' = [lock EXCEPT ![p] = Empty]
  /\ UNCHANGED <<birth, mutex, todo, judged, born, met>>
LockFails(p) ==
  /\ todo[p] = {} /\ at[p] \in {"look", "fill"} /\ at' = [at EXCEPT ![p] = "up"]
  /\ met' = (met \/ at[p] = "look")
  /\ UNCHANGED <<birth, mutex, lock, todo, judged, born>>
FillLock(p) ==
  /\ Goes(p, "fill", "up")
  /\ lock' = [lock EXCEPT ![p] = birth[p]]
  /\ UNCHANGED <<birth, mutex, todo, judged, born, met>>

(* The finally clause of main(); the process is there a little longer.      *)
Release(p) ==
  /\ Goes(p, "up", "leaving")
  /\ lock' = IF windows THEN lock ELSE [lock EXCEPT ![p] = Absent]
  /\ mutex' = mutex \ {p}
  /\ UNCHANGED <<birth, todo, judged, born, met>>

LockStep(p) ==
  \/ AskMutex(p) \/ FindLocks(p) \/ (\E q \in Pids : Look(p, q)) \/ RemoveStale(p)
  \/ CreateLock(p) \/ LockFails(p) \/ FillLock(p) \/ Release(p)
=============================================================================
