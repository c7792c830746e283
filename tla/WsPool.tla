------------------------------- MODULE WsPool -------------------------------
(***************************************************************************)
(* The pool of pre-opened WebSockets, class _WsPool of proxy/pool.py, as    *)
(* the event loop runs it: every action is what one task does between two   *)
(* awaits.  Keys are the (dc, is_media) pairs of dc_redirects.              *)
(*                                                                         *)
(* Time is relative: the age of an idle socket saturates just above MaxAge, *)
(* the sleep of a rotation and the back-off of a key count down.  One task  *)
(* record per key is enough for _refill and for _rotate as long as          *)
(* SingleFlight and Watched hold, which is what they say.                   *)
(*                                                                         *)
(* An operator X_Y is a faulty variant of X that some property must catch;  *)
(* no action uses it.                                                       *)
(***************************************************************************)
EXTENDS Integers, FiniteSets

CONSTANTS
  Keys,             \* the (dc, is_media) pairs the pool serves
  Sock,             \* WebSocket identities (finitely many alive at a time)
  PoolSize,         \* proxy_config.pool_size; 0 switches the pool off
  MaxAge,           \* WS_POOL_MAX_AGE
  CheckInterval,    \* WS_POOL_CHECK_INTERVAL
  BackoffInitial,   \* REFILL_BACKOFF_INITIAL
  BackoffMax,       \* REFILL_BACKOFF_MAX
  Doublings         \* the 12 of min(failures - 1, 12)

Running == "running"      \* a _connect_one task that has not ended
Failed  == "failed"       \* one that ended with None or an exception
Unused  == "unused"       \* a slot with no task, or one already awaited

ASSUME PoolSizeAssumption == PoolSize \in Nat
ASSUME TimeAssumption == MaxAge \in Nat /\ CheckInterval \in Nat
ASSUME BackoffAssumption ==
  BackoffInitial \in Nat /\ BackoffMax \in Nat /\ Doublings \in Nat
ASSUME SockAssumption == IsFiniteSet(Sock) /\ {Running, Failed, Unused} \cap Sock = {}

Slots == 1..PoolSize

VARIABLES
  idle,        \* _idle: the sockets of each key's deque
  age,         \* now - created of an idle socket, saturated; 0 for the others
  shut,        \* ws._closed or ws.writer.transport.is_closing()
  open,        \* sockets connected and not yet closed
  inUse,       \* sockets get() returned, owned by a client session
  closing,     \* sockets handed to a _quiet_close task
  lost,        \* sockets nobody refers to any more after reset()
  refilling,   \* _refilling
  rpc,         \* the _refill task of a key: "off", "new" (created), "wait"
  conn,        \* its _connect_one tasks, awaited in slot order
  connected,   \* its local: some socket was added
  rotating,    \* the keys of the _rotating dict
  rot,         \* the _rotate task of a key: "off", "new", "sleep"
  timer,       \* what is left of its asyncio.sleep
  failures,    \* _refill_failures, saturated at Doublings + 1
  backoff,     \* what is left until _refill_after
  warm         \* warmup() has run since reset()

sockVars   == <<idle, age, shut, open, inUse, closing, lost>>
refillVars == <<refilling, rpc, conn, connected>>
rotateVars == <<rotating, rot, timer>>
trustVars  == <<failures, backoff>>
vars == <<sockVars, refillVars, rotateVars, trustVars, warm>>

Min2(a, b) == IF a < b THEN a ELSE b

Outstanding(k) == {i \in Slots : conn[k][i] # Unused}
Results(k) == {conn[k][i] : i \in Slots} \cap Sock
Pooled == UNION {idle[k] : k \in Keys}
Pending == UNION {Results(k) : k \in Keys}

Init ==
  /\ idle = [k \in Keys |-> {}]
  /\ age = [s \in Sock |-> 0]
  /\ shut = {} /\ open = {} /\ inUse = {} /\ closing = {} /\ lost = {}
  /\ refilling = {}
  /\ rpc = [k \in Keys |-> "off"]
  /\ conn = [k \in Keys |-> [i \in Slots |-> Unused]]
  /\ connected = [k \in Keys |-> FALSE]
  /\ rotating = {}
  /\ rot = [k \in Keys |-> "off"]
  /\ timer = [k \in Keys |-> 0]
  /\ failures = [k \in Keys |-> 0]
  /\ backoff = [k \in Keys |-> 0]
  /\ warm = FALSE

(* get() refuses a socket older than MaxAge, the rotation one that has     *)
(* reached it.                                                             *)
Usable_IgnoresClose(s) == age[s] <= MaxAge
Usable(s) == age[s] <= MaxAge /\ s \notin shut
Expired(s) == age[s] >= MaxAge \/ s \in shut

(* The delay after the n-th refill in a row that connected nothing.        *)
Delay(n) == Min2(BackoffInitial * 2^Min2(n - 1, Doublings), BackoffMax)

(* A socket is stamped when it enters a deque; outside one its age is 0.   *)
Stamp(S) == age' = [s \in Sock |-> IF s \in S THEN 0 ELSE age[s]]

(* _schedule_refill for the keys ks; after is the back-off it reads.       *)
MayRefill(k, after) == k \notin refilling /\ after[k] = 0
ScheduleRefill(ks, after) ==
  LET started == {k \in ks : MayRefill(k, after)}
  IN  /\ refilling' = refilling \cup started
      /\ rpc' = [k \in Keys |-> IF k \in started THEN "new" ELSE rpc[k]]

(* Sockets handed to a _quiet_close task each.                             *)
Retire_Dropped(S) == UNCHANGED closing
Retire(S) == closing' = closing \cup S

(* popleft of the sockets S of a deque.                                    *)
Pop_Peeks(k, S) == UNCHANGED idle
Pop(k, S) == idle' = [idle EXCEPT ![k] = @ \ S]

Trust_KeepsDelay(k) == failures' = [failures EXCEPT ![k] = 0] /\ UNCHANGED backoff
Trust(k) == failures' = [failures EXCEPT ![k] = 0] /\ backoff' = [backoff EXCEPT ![k] = 0]

-----------------------------------------------------------------------------
(* The pool's callers.                                                     *)

(* The deque is in order of age, so get() pops every stale socket that is  *)
(* older than the first usable one; sockets of the same age are in either  *)
(* order.                                                                  *)
FirstUsable(k, u) ==
  u \in idle[k] /\ Usable(u) /\ \A s \in idle[k] : Usable(s) => age[s] <= age[u]
Skipped(k, u, D) ==
  /\ D \subseteq {s \in idle[k] : ~Usable(s) /\ age[s] >= age[u]}
  /\ {s \in idle[k] : ~Usable(s) /\ age[s] > age[u]} \subseteq D

Hit(k, u) ==
  /\ FirstUsable(k, u)
  /\ \E D \in SUBSET idle[k] :
       /\ Skipped(k, u, D)
       /\ Pop(k, D \cup {u})
       /\ Retire(D)
       /\ Stamp(D \cup {u})
  /\ inUse' = inUse \cup {u}
  /\ Trust(k)
  /\ ScheduleRefill({k}, backoff')
  /\ UNCHANGED <<shut, open, lost, conn, connected, rotateVars, warm>>

Miss(k) ==
  /\ \A s \in idle[k] : ~Usable(s)
  /\ Pop(k, idle[k])
  /\ Retire(idle[k])
  /\ Stamp(idle[k])
  /\ ScheduleRefill({k}, backoff)
  /\ UNCHANGED <<shut, open, inUse, lost, conn, connected, rotateVars, trustVars, warm>>

Get(k) == Miss(k) \/ \E u \in Sock : Hit(k, u)

(* A client session reports a connection it opened itself.                 *)
ReportSuccess(k) ==
  /\ Trust(k)
  /\ UNCHANGED <<sockVars, refillVars, rotateVars, warm>>

Warmup ==
  /\ ~warm
  /\ warm' = TRUE
  /\ ScheduleRefill(Keys, backoff)
  /\ UNCHANGED <<sockVars, conn, connected, rotateVars, trustVars>>

-----------------------------------------------------------------------------
(* _refill and its _connect_one tasks.                                     *)

Needed_IgnoresIdle(k) == PoolSize
Needed(k) == PoolSize - Cardinality(idle[k])

RefillStart(k) ==
  /\ rpc[k] = "new"
  /\ \/ /\ Needed(k) <= 0
        /\ rpc' = [rpc EXCEPT ![k] = "off"]
        /\ refilling' = refilling \ {k}
        /\ UNCHANGED <<conn, connected>>
     \/ /\ Needed(k) > 0
        /\ rpc' = [rpc EXCEPT ![k] = "wait"]
        /\ conn' = [conn EXCEPT ![k] =
                      [i \in Slots |-> IF i <= Needed(k) THEN Running ELSE Unused]]
        /\ connected' = [connected EXCEPT ![k] = FALSE]
        /\ UNCHANGED refilling
  /\ UNCHANGED <<sockVars, rotateVars, trustVars, warm>>

ConnectOk(k, i) ==
  /\ conn[k][i] = Running
  /\ \E s \in Sock \ open :
       /\ conn' = [conn EXCEPT ![k][i] = s]
       /\ open' = open \cup {s}
  /\ UNCHANGED <<idle, age, shut, inUse, closing, lost, refilling, rpc, connected,
                 rotateVars, trustVars, warm>>

ConnectFail(k, i) ==
  /\ conn[k][i] = Running
  /\ conn' = [conn EXCEPT ![k][i] = Failed]
  /\ UNCHANGED <<sockVars, refilling, rpc, connected, rotateVars, trustVars, warm>>

(* `await t` of a task that has ended does not suspend, so one step takes  *)
(* every result up to the first task still running.                        *)
Settled(k) ==
  {i \in Outstanding(k) :
     \A j \in Outstanding(k) : j <= i => conn[k][j] # Running}
Gained(k) == {conn[k][i] : i \in Settled(k)} \cap Sock

ScheduleRotation_Never(k, wanted) == UNCHANGED <<rotating, rot>>
ScheduleRotation(k, wanted) ==
  IF wanted /\ k \notin rotating
  THEN rotating' = rotating \cup {k} /\ rot' = [rot EXCEPT ![k] = "new"]
  ELSE UNCHANGED <<rotating, rot>>

RefillEnd_KeepsMark(k, any) ==
  /\ rpc' = [rpc EXCEPT ![k] = "off"]
  /\ UNCHANGED <<refilling, trustVars>>
RefillEnd(k, any) ==
  /\ rpc' = [rpc EXCEPT ![k] = "off"]
  /\ refilling' = refilling \ {k}
  /\ IF any
     THEN Trust(k)
     ELSE /\ failures' = [failures EXCEPT ![k] = Min2(@ + 1, Doublings + 1)]
          /\ backoff' = [backoff EXCEPT ![k] = Delay(failures[k] + 1)]

RefillCollect(k) ==
  LET got == Gained(k)
      any == connected[k] \/ got # {}
      done == Settled(k)
  IN  /\ rpc[k] = "wait"
      /\ done # {}
      /\ idle' = [idle EXCEPT ![k] = @ \cup got]
      /\ Stamp(got)
      /\ conn' = [conn EXCEPT ![k] =
                    [i \in Slots |-> IF i \in done THEN Unused ELSE @[i]]]
      /\ connected' = [connected EXCEPT ![k] = any]
      /\ ScheduleRotation(k, got # {})
      /\ IF done = Outstanding(k)
         THEN RefillEnd(k, any)
         ELSE UNCHANGED <<rpc, refilling, trustVars>>
      /\ UNCHANGED <<shut, open, inUse, closing, lost, timer, warm>>

-----------------------------------------------------------------------------
(* _rotate.                                                                *)

(* The longest sleep within CheckInterval that no idle socket outlives.    *)
SleepTimes(b) == {d \in 0..CheckInterval : d = 0 \/ \A s \in b : age[s] + d <= MaxAge}

RotateTop_KeepsEntry(k, b) ==
  \/ /\ b = {}
     /\ rot' = [rot EXCEPT ![k] = "off"]
     /\ UNCHANGED <<rotating, timer>>
  \/ /\ b # {}
     /\ rot' = [rot EXCEPT ![k] = "sleep"]
     /\ UNCHANGED <<rotating, timer>>
(* The top of the loop, with the deque as it is by then.                   *)
RotateTop(k, b) ==
  \/ /\ b = {}
     /\ rot' = [rot EXCEPT ![k] = "off"]
     /\ rotating' = rotating \ {k}
     /\ UNCHANGED timer
  \/ /\ b # {}
     /\ rot' = [rot EXCEPT ![k] = "sleep"]
     /\ \E d \in SleepTimes(b) :
          /\ \A e \in SleepTimes(b) : e <= d
          /\ timer' = [timer EXCEPT ![k] = d]
     /\ UNCHANGED rotating

RotateStart(k) ==
  /\ rot[k] = "new"
  /\ RotateTop(k, idle[k])
  /\ UNCHANGED <<sockVars, refillVars, trustVars, warm>>

RotateWake(k) ==
  LET expired == {s \in idle[k] : Expired(s)}
      ready == idle[k] \ expired
  IN  /\ rot[k] = "sleep"
      /\ timer[k] = 0
      /\ Pop(k, expired)
      /\ Retire(expired)
      /\ Stamp(expired)
      /\ ScheduleRefill(IF Cardinality(ready) < PoolSize THEN {k} ELSE {}, backoff)
      /\ RotateTop(k, ready)
      /\ UNCHANGED <<shut, open, inUse, lost, conn, connected, trustVars, warm>>

-----------------------------------------------------------------------------
(* Closing, the peer, the clock, and a new run of the proxy.               *)

(* The holder of a socket closes it: a _quiet_close task, a client session *)
(* or, for one nobody refers to, the interpreter that collects it.         *)
Close(s) ==
  /\ s \in inUse \cup closing \cup lost
  /\ inUse' = inUse \ {s} /\ closing' = closing \ {s} /\ lost' = lost \ {s}
  /\ open' = open \ {s} /\ shut' = shut \ {s}
  /\ UNCHANGED <<idle, age, refillVars, rotateVars, trustVars, warm>>

PeerClose(s) ==
  /\ s \in (Pooled \cup Pending) \ shut
  /\ shut' = shut \cup {s}
  /\ UNCHANGED <<idle, age, open, inUse, closing, lost,
                 refillVars, rotateVars, trustVars, warm>>

Tick ==
  /\ age' = [s \in Sock |-> IF s \in Pooled THEN Min2(age[s] + 1, MaxAge + 1) ELSE age[s]]
  /\ timer' = [k \in Keys |-> IF timer[k] > 0 THEN timer[k] - 1 ELSE 0]
  /\ backoff' = [k \in Keys |-> IF backoff[k] > 0 THEN backoff[k] - 1 ELSE 0]
  /\ UNCHANGED <<idle, shut, open, inUse, closing, lost,
                 refillVars, rotating, rot, failures, warm>>

(* The old loop cancels every task of its own before it ends, sessions     *)
(* close their sockets, and the next _run() starts with reset(), which     *)
(* drops the idle sockets without closing them.                            *)
Restart ==
  /\ idle' = [k \in Keys |-> {}]
  /\ age' = [s \in Sock |-> 0]
  /\ lost' = lost \cup Pooled \cup Pending \cup closing
  /\ open' = open \ inUse
  /\ shut' = shut \ inUse
  /\ inUse' = {} /\ closing' = {}
  /\ refilling' = {}
  /\ rpc' = [k \in Keys |-> "off"]
  /\ conn' = [k \in Keys |-> [i \in Slots |-> Unused]]
  /\ connected' = [k \in Keys |-> FALSE]
  /\ rotating' = {}
  /\ rot' = [k \in Keys |-> "off"]
  /\ timer' = [k \in Keys |-> 0]
  /\ failures' = [k \in Keys |-> 0]
  /\ backoff' = [k \in Keys |-> 0]
  /\ warm' = FALSE

Next ==
  \/ \E k \in Keys : \/ Get(k)
                     \/ ReportSuccess(k)
                     \/ RefillStart(k)
                     \/ \E i \in Slots : ConnectOk(k, i) \/ ConnectFail(k, i)
                     \/ RefillCollect(k)
                     \/ RotateStart(k)
                     \/ RotateWake(k)
  \/ \E s \in Sock : Close(s) \/ PeerClose(s)
  \/ Warmup
  \/ Tick
  \/ Restart

(* The event loop runs every ready task and every due timer, the clock     *)
(* advances, and a connect ends within its timeout.  Nothing obliges a     *)
(* client, a peer or a restart.                                            *)
Fairness ==
  /\ \A k \in Keys : /\ WF_vars(RefillStart(k))
                     /\ WF_vars(RefillCollect(k))
                     /\ WF_vars(RotateStart(k))
                     /\ WF_vars(RotateWake(k))
                     /\ \A i \in Slots : WF_vars(ConnectOk(k, i) \/ ConnectFail(k, i))
  /\ WF_vars(Tick)

Spec == Init /\ [][Next]_vars
FairSpec == Spec /\ Fairness

-----------------------------------------------------------------------------
(* Every variable has its type.                                            *)
TypeOK ==
  /\ idle \in [Keys -> SUBSET Sock]
  /\ age \in [Sock -> 0..MaxAge + 1]
  /\ shut \in SUBSET Sock
  /\ open \in SUBSET Sock
  /\ inUse \in SUBSET Sock
  /\ closing \in SUBSET Sock
  /\ lost \in SUBSET Sock
  /\ refilling \in SUBSET Keys
  /\ rpc \in [Keys -> {"off", "new", "wait"}]
  /\ conn \in [Keys -> [Slots -> Sock \cup {Running, Failed, Unused}]]
  /\ connected \in [Keys -> BOOLEAN]
  /\ rotating \in SUBSET Keys
  /\ rot \in [Keys -> {"off", "new", "sleep"}]
  /\ timer \in [Keys -> 0..CheckInterval]
  /\ failures \in [Keys -> 0..Doublings + 1]
  /\ backoff \in [Keys -> Nat]
  /\ warm \in BOOLEAN

(* The _refilling mark of a key stands exactly while a _refill task of the *)
(* key is alive, and only a task past its first step has connects in       *)
(* flight: no second refill of a key can start, none is ever locked out.   *)
SingleFlight ==
  \A k \in Keys : /\ k \in refilling <=> rpc[k] # "off"
                  /\ Outstanding(k) # {} <=> rpc[k] = "wait"

(* However gets, refills and rotations interleave, a key never has more    *)
(* than pool_size sockets idle or being connected.                         *)
PoolBounded ==
  \A k \in Keys : Cardinality(idle[k]) + Cardinality(Outstanding(k)) <= PoolSize

(* A deque that holds a socket has a live rotation task, and the dict      *)
(* entry that keeps a second one from starting stands exactly as long.     *)
Watched ==
  \A k \in Keys : /\ k \in rotating <=> rot[k] # "off"
                  /\ idle[k] # {} => k \in rotating

(* A socket is never in two places at once: two deques, two refills, a     *)
(* deque and a client session, or a session and a closing task.            *)
DequesDisjoint == \A k, l \in Keys : k # l => idle[k] \cap idle[l] = {}
SlotsDisjoint ==
  \A k, l \in Keys : \A i, j \in Slots :
    conn[k][i] \in Sock /\ conn[k][i] = conn[l][j] => k = l /\ i = j
HoldersDisjoint ==
  /\ Pooled \cap (Pending \cup inUse \cup closing \cup lost) = {}
  /\ Pending \cap (inUse \cup closing \cup lost) = {}
  /\ inUse \cap (closing \cup lost) = {}
  /\ closing \cap lost = {}
OneOwner == DequesDisjoint /\ SlotsDisjoint /\ HoldersDisjoint

(* Every connection that is open is held by somebody who will use or close *)
(* it, except those a restart dropped.                                     *)
NoOrphan == open = Pooled \cup Pending \cup inUse \cup closing \cup lost

(* A key waits out a back-off only for refills that failed: success of     *)
(* any kind clears the delay with the count.                               *)
BackoffEarned == \A k \in Keys : backoff[k] > 0 => failures[k] > 0

(* A socket get() may no longer hand out.                                  *)
Spoiled(s) == age[s] > MaxAge \/ s \in shut

(* The pool keeps the contract of SocketPool: sockets still held by a      *)
(* refill count as pooled, and whatever closes or is lost as retired.      *)
KeptBar == [k \in Keys |-> idle[k] \cup Results(k)]
StaleBar == {s \in Pooled \cup Pending : Spoiled(s)}
RetiredBar == closing \cup lost
Contract == INSTANCE SocketPool WITH
  Bound   <- PoolSize,
  pooled  <- KeptBar,
  stale   <- StaleBar,
  lent    <- inUse,
  retired <- RetiredBar
PoolContract == Contract!Spec

(* A refill always ends and gives the mark back.                           *)
RefillEnds == \A k \in Keys : k \in refilling ~> k \notin refilling

(* A socket that is too old to be served, or that the peer closed, does    *)
(* not stay in its deque.                                                  *)
StaleLeaves ==
  \A k \in Keys : \A s \in Sock :
    (s \in idle[k] /\ Spoiled(s)) ~> (s \notin idle[k])
=============================================================================
