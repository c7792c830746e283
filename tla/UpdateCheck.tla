---------------------------- MODULE UpdateCheck ----------------------------
(***************************************************************************)
(* run_check of utils/update_check.py, once per process, with the cache     *)
(* file that all processes share and GitHub's latest release, which may be  *)
(* replaced or withdrawn at any time.                                      *)
(*                                                                         *)
(* Releases are numbered in the order of _version_gt; 0 is no release (no   *)
(* tag).  An assets list is named by its release, an ETag, which GitHub     *)
(* always sends, by the release it was sent with.  Of the time only matters *)
(* whether the last attempt in the cache is less than an hour old.  An      *)
(* operator X_Y is a faulty variant of X that some property must catch.     *)
(***************************************************************************)
EXTENDS Naturals

CONSTANTS
  Checkers,   \* the processes
  MaxRelease, \* bound: releases
  MaxPublish, \* bound: how often the latest release changes
  FirstLatest \* the latest release at the beginning

ASSUME ReleaseAssumption ==
  MaxRelease \in Nat \ {0} /\ MaxPublish \in Nat /\ FirstLatest \in 0..MaxRelease

Releases == 0..MaxRelease
NoCache == [recent |-> FALSE, tag |-> 0, assets |-> 0, etag |-> 0]
NoState == [has |-> FALSE, latest |-> 0, assets |-> 0]

VARIABLES
  released,   \* the latest release of the repository
  published,  \* how often it changed
  cache,      \* the cache file
  loaded,     \* what a process read of it, and will write when it asks
  check,      \* where its run_check is
  state       \* its _state

checkVars == <<released, published, cache, loaded, check, state>>

CheckInit ==
  /\ released = FirstLatest /\ published = 0 /\ cache = NoCache
  /\ loaded = [p \in Checkers |-> NoCache]
  /\ check = [p \in Checkers |-> "none"] /\ state = [p \in Checkers |-> NoState]

Applied(version, tag, assets) == [has |-> tag > version, latest |-> tag, assets |-> assets]

(* The file is unreadable while another process writes it.                 *)
LoadCache(p, version) ==
  /\ check[p] = "none"
  /\ \E c \in {cache, NoCache} :
       /\ c = cache \/ \E q \in Checkers : check[q] = "saves"
       /\ check' = [check EXCEPT ![p] = IF c.recent THEN "done" ELSE "asks"]
       /\ loaded' = [loaded EXCEPT ![p] = IF c.recent THEN NoCache ELSE c]
       /\ state' = IF ~c.recent THEN state
                   ELSE [state EXCEPT ![p] = IF c.tag # 0 THEN Applied(version, c.tag, c.assets)
                                             ELSE [@ EXCEPT !.has = FALSE, !.latest = 0]]
  /\ UNCHANGED <<released, published, cache>>

(* fetch_latest_release and what follows it, up to the write.              *)
Saves(p, c) ==
  /\ check' = [check EXCEPT ![p] = "saves"]
  /\ loaded' = [loaded EXCEPT ![p] = c]
  /\ UNCHANGED <<released, published, cache>>
NotModified(p, version) ==
  /\ check[p] = "asks" /\ loaded[p].etag # 0 /\ loaded[p].etag = released
  /\ state' = [state EXCEPT ![p] = Applied(version, loaded[p].tag, loaded[p].assets)]
  /\ Saves(p, [loaded[p] EXCEPT !.recent = TRUE])
FreshRelease_KeepsAssets(p, version) ==
  /\ check[p] = "asks" /\ (loaded[p].etag = 0 \/ loaded[p].etag # released)
  /\ state' = [state EXCEPT ![p] = Applied(version, released, released)]
  /\ Saves(p, [loaded[p] EXCEPT !.recent = TRUE, !.tag = released, !.etag = released])
FreshRelease(p, version) ==
  /\ check[p] = "asks" /\ (loaded[p].etag = 0 \/ loaded[p].etag # released)
  /\ state' = [state EXCEPT ![p] = Applied(version, released, released)]
  /\ Saves(p, [recent |-> TRUE, tag |-> released, assets |-> released, etag |-> released])
CheckFails(p) ==
  /\ check[p] = "asks"
  /\ state' = [state EXCEPT ![p] = [@ EXCEPT !.has = FALSE, !.latest = 0]]
  /\ Saves(p, [loaded[p] EXCEPT !.recent = TRUE])

(* An answer that ends early raises IncompleteRead, which run_check does    *)
(* not expect: nothing is recorded.                                        *)
Over(p) ==
  /\ check' = [check EXCEPT ![p] = "done"] /\ loaded' = [loaded EXCEPT ![p] = NoCache]
  /\ UNCHANGED <<released, published, state>>
CheckRaises(p) == check[p] = "asks" /\ Over(p) /\ UNCHANGED cache

(* _save_cache: the file is truncated, then written.                       *)
Save(p) == check[p] = "saves" /\ Over(p) /\ cache' = loaded[p]
SaveFails(p) == check[p] = "saves" /\ Over(p) /\ cache' \in {cache, NoCache}

Forgotten(p) ==
  /\ check' = [check EXCEPT ![p] = "none"] /\ state' = [state EXCEPT ![p] = NoState]
  /\ loaded' = [loaded EXCEPT ![p] = NoCache]
  /\ UNCHANGED <<released, published, cache>>

CheckStep(p, version) ==
  \/ LoadCache(p, version) \/ NotModified(p, version) \/ FreshRelease(p, version)
  \/ CheckFails(p) \/ CheckRaises(p) \/ Save(p) \/ SaveFails(p)

HourPasses ==
  /\ cache.recent /\ cache' = [cache EXCEPT !.recent = FALSE]
  /\ UNCHANGED <<released, published, loaded, check, state>>
Publish(r) ==
  /\ published < MaxPublish /\ r # released
  /\ published' = published + 1 /\ released' = r
  /\ UNCHANGED <<cache, loaded, check, state>>
=============================================================================
