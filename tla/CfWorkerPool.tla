---------------------------- MODULE CfWorkerPool ----------------------------
(***************************************************************************)
(* The pool of connections to Cloudflare workers, _CfWorkerPool of          *)
(* proxy/pool.py.  Unlike _WsPool it has no rotation and no back-off, it    *)
(* connects one socket after the other, and only a hit or the warm-up       *)
(* starts a refill.                                                        *)
(*                                                                         *)
(* idle is the deque without its order, which is that of the ages: a get    *)
(* throws away stale sockets until it meets a good one.  The age limit and  *)
(* the peer make a socket stale at any moment.  report_failure() returns at *)
(* once, so that available_domains() is every configured worker in any      *)
(* order, and a failed attempt at one of them changes nothing.             *)
(* An operator X_Y is a faulty variant of X that some property must catch. *)
(***************************************************************************)
EXTENDS Naturals, FiniteSets

CONSTANTS
  Dcs,        \* the DCs reached through workers
  Sock,       \* identities of connections
  PoolSize,   \* proxy_config.pool_size
  PerDcLimit  \* PER_DC_LIMIT

ASSUME WorkerAssumption ==
  /\ IsFiniteSet(Sock)
  /\ PoolSize \in Nat /\ PerDcLimit \in Nat

VARIABLES
  idle,       \* _idle
  stale,      \* the idle ones that are too old or closed by the worker
  marked,     \* _refilling
  needed,     \* what the refill of each DC still connects; New before it runs
  lent,       \* connections in use by sessions
  closing,    \* those _quiet_close has taken
  lost        \* those a restart forgot

workerVars == <<idle, stale, marked, needed, lent, closing, lost>>

TargetSize == IF PoolSize < PerDcLimit THEN PoolSize ELSE PerDcLimit
New == TargetSize + 1
Idle == UNION {idle[d] : d \in Dcs}
Open == Idle \cup lent \cup closing \cup lost

(* The first run; warmup() starts a refill for the DCs of D.               *)
WorkerInit(D) ==
  /\ idle = [d \in Dcs |-> {}] /\ stale = {}
  /\ marked = D /\ needed = [d \in Dcs |-> IF d \in D THEN New ELSE 0]
  /\ lent = {} /\ closing = {} /\ lost = {}

ScheduleRefill(D) ==
  /\ marked' = marked \cup D
  /\ needed' = [d \in Dcs |-> IF d \in D \ marked THEN New ELSE needed[d]]

(* get(): the stale sockets D stand before the good one.                   *)
Hit_KeepsPooled(d, s, D) ==
  /\ s \in idle[d] \ stale
  /\ D \subseteq idle[d] \cap stale
  /\ idle' = [idle EXCEPT ![d] = @ \ D]
  /\ stale' = stale \ D
  /\ lent' = lent \cup {s} /\ closing' = closing \cup D
  /\ ScheduleRefill({d})
  /\ UNCHANGED lost
Hit(d, s, D) ==
  /\ s \in idle[d] \ stale
  /\ D \subseteq idle[d] \cap stale
  /\ idle' = [idle EXCEPT ![d] = @ \ (D \cup {s})]
  /\ stale' = stale \ D
  /\ lent' = lent \cup {s} /\ closing' = closing \cup D
  /\ ScheduleRefill({d})
  /\ UNCHANGED lost
Miss(d) ==
  /\ idle[d] \subseteq stale
  /\ idle' = [idle EXCEPT ![d] = {}]
  /\ stale' = stale \ idle[d]
  /\ closing' = closing \cup idle[d]
  /\ UNCHANGED <<marked, needed, lent, lost>>

(* _refill() looks at the deque when it first runs, ...                    *)
RefillBegins(d) ==
  LET n == IF Cardinality(idle[d]) < TargetSize THEN TargetSize - Cardinality(idle[d]) ELSE 0
  IN  /\ d \in marked /\ needed[d] = New
      /\ needed' = [needed EXCEPT ![d] = n]
      /\ marked' = IF n = 0 THEN marked \ {d} ELSE marked
      /\ UNCHANGED <<idle, stale, lent, closing, lost>>

(* ... then _connect_one() returns a socket, or none of the workers answers.*)
Connected(d, s) ==
  /\ d \in marked /\ needed[d] \in 1..TargetSize
  /\ s \in Sock \ Open
  /\ idle' = [idle EXCEPT ![d] = @ \cup {s}]
  /\ needed' = [needed EXCEPT ![d] = @ - 1]
  /\ marked' = IF needed[d] = 1 THEN marked \ {d} ELSE marked
  /\ UNCHANGED <<stale, lent, closing, lost>>
NoneConnects(d) ==
  /\ d \in marked /\ needed[d] \in 1..TargetSize
  /\ needed' = [needed EXCEPT ![d] = 0]
  /\ marked' = marked \ {d}
  /\ UNCHANGED <<idle, stale, lent, closing, lost>>

GoesStale(s) ==
  /\ s \in Idle \ stale
  /\ stale' = stale \cup {s}
  /\ UNCHANGED <<idle, marked, needed, lent, closing, lost>>

(* A session ends, or a _quiet_close task does.                            *)
Closed(s) ==
  /\ s \in lent \cup closing
  /\ lent' = lent \ {s} /\ closing' = closing \ {s}
  /\ UNCHANGED <<idle, stale, marked, needed, lost>>

WorkerStep ==
  \/ \E d \in Dcs : RefillBegins(d) \/ NoneConnects(d) \/ \E s \in Sock : Connected(d, s)
  \/ \E s \in Sock : GoesStale(s)

(* The tasks of the old loop are cancelled, reset() forgets the rest, and  *)
(* warmup() starts anew for the DCs of D.                                  *)
WorkerRestart(D) ==
  /\ idle' = [d \in Dcs |-> {}] /\ stale' = {}
  /\ lost' = lost \cup Idle \cup closing
  /\ lent' = {} /\ closing' = {}
  /\ marked' = D /\ needed' = [d \in Dcs |-> IF d \in D THEN New ELSE 0]

-----------------------------------------------------------------------------
(* What the pool promises, with what is being closed or forgotten retired. *)
Contract == INSTANCE SocketPool WITH
  Keys <- Dcs, Bound <- TargetSize, pooled <- idle, retired <- closing \cup lost

WorkerTypeOK ==
  /\ idle \in [Dcs -> SUBSET Sock] /\ stale \subseteq Idle
  /\ marked \subseteq Dcs /\ needed \in [Dcs -> 0..New]
  /\ lent \subseteq Sock /\ closing \subseteq Sock /\ lost \subseteq Sock
=============================================================================
