---------------------------- MODULE WsPoolProofs ----------------------------
(***************************************************************************)
(* Proofs about WsPool, for every set of keys, every pool size, every age   *)
(* limit and every finite set of sockets: its invariants and, at the end,   *)
(* that the pool keeps the contract of SocketPool.                          *)
(***************************************************************************)
EXTENDS WsPool, FiniteSetTheorems, TLAPS

(* 2^n is the number of subsets of 1..n, hence a natural number.           *)
LEMMA PowerType == \A n \in Nat : 2^n \in Nat
  <1> TAKE n \in Nat
  <1>1. IsFiniteSet(1..n) /\ Cardinality(1..n) = n
    BY FS_Interval
  <1>2. IsFiniteSet(SUBSET (1..n)) /\ Cardinality(SUBSET (1..n)) = 2^n
    BY <1>1, FS_SUBSET
  <1> QED
    BY <1>2, FS_CardinalityType

(* A delay is a number.                                                    *)
LEMMA DelayType == \A n \in Nat \ {0} : Delay(n) \in Nat
  <1> TAKE n \in Nat \ {0}
  <1> DEFINE e == Min2(n - 1, Doublings)
  <1>1. e \in Nat
    BY BackoffAssumption DEF Min2
  <1>2. 2^e \in Nat
    BY <1>1, PowerType
  <1> HIDE DEF e
  <1>3. BackoffInitial * 2^e \in Nat
    BY <1>2, BackoffAssumption
  <1> QED
    BY <1>3, BackoffAssumption DEF Delay, Min2, e

(* A deque is finite.                                                      *)
LEMMA IdleFinite ==
  ASSUME TypeOK, NEW k \in Keys
  PROVE  IsFiniteSet(idle[k]) /\ Cardinality(idle[k]) \in Nat
  <1>1. idle[k] \in SUBSET Sock
    BY DEF TypeOK
  <1> QED
    BY <1>1, SockAssumption, FS_Subset, FS_CardinalityType

(* So what a refill needs can be counted.                                  *)
LEMMA NeededInt == ASSUME TypeOK, NEW k \in Keys PROVE Needed(k) \in Int
  BY IdleFinite, PoolSizeAssumption DEF Needed

(* An empty pool.                                                          *)
LEMMA TypeInit == Init => TypeOK
  <1> SUFFICES ASSUME Init PROVE TypeOK
    OBVIOUS
  <1> USE TimeAssumption, BackoffAssumption
  <1>1. /\ idle \in [Keys -> SUBSET Sock]
        /\ age \in [Sock -> 0..MaxAge + 1]
    BY DEF Init
  <1>2. conn \in [Keys -> [Slots -> Sock \cup {Running, Failed, Unused}]]
    BY DEF Init
  <1>3. /\ timer \in [Keys -> 0..CheckInterval]
        /\ failures \in [Keys -> 0..Doublings + 1]
        /\ backoff \in [Keys -> Nat]
    BY DEF Init
  <1>4. /\ rpc \in [Keys -> {"off", "new", "wait"}]
        /\ rot \in [Keys -> {"off", "new", "sleep"}]
        /\ connected \in [Keys -> BOOLEAN]
    BY DEF Init
  <1> QED
    BY <1>1, <1>2, <1>3, <1>4 DEF Init, TypeOK

(* The turn of a rotation.                                                 *)
LEMMA RotateTopType ==
  ASSUME TypeOK, NEW k \in Keys, NEW b \in SUBSET Sock, RotateTop(k, b)
  PROVE  /\ rotating' \in SUBSET Keys
         /\ rot' \in [Keys -> {"off", "new", "sleep"}]
         /\ timer' \in [Keys -> 0..CheckInterval]
<1>1. rotating' \in SUBSET Keys /\ rot' \in [Keys -> {"off", "new", "sleep"}]
  BY DEF TypeOK, RotateTop
<1>2. SleepTimes(b) \subseteq 0..CheckInterval
  BY DEF TypeOK, SleepTimes
<1>3. timer' \in [Keys -> 0..CheckInterval]
  BY <1>2 DEF TypeOK, RotateTop
<1> QED
  BY <1>1, <1>3

(* Every step keeps the types.                                             *)
LEMMA TypeStep == TypeOK /\ [Next]_vars => TypeOK'
  <1> SUFFICES ASSUME TypeOK, [Next]_vars PROVE TypeOK'
    OBVIOUS
  <1> USE TimeAssumption, BackoffAssumption, PoolSizeAssumption, SockAssumption
  <1>1. ASSUME NEW k \in Keys, NEW u \in Sock, Hit(k, u) PROVE TypeOK'
    BY <1>1 DEF TypeOK, Hit, FirstUsable, Skipped, Pop, Retire, Stamp, Trust, ScheduleRefill, rotateVars
  <1>2. ASSUME NEW k \in Keys, Miss(k) PROVE TypeOK'
    BY <1>2 DEF TypeOK, Miss, Pop, Retire, Stamp, ScheduleRefill, rotateVars, trustVars
  <1>3. ASSUME NEW k \in Keys, ReportSuccess(k) PROVE TypeOK'
    BY <1>3 DEF TypeOK, ReportSuccess, Trust, sockVars, refillVars, rotateVars
  <1>4. CASE Warmup
    BY <1>4 DEF TypeOK, Warmup, ScheduleRefill, sockVars, rotateVars, trustVars
  <1>5. ASSUME NEW k \in Keys, RefillStart(k) PROVE TypeOK'
    <2>1. rpc' \in [Keys -> {"off", "new", "wait"}] /\ refilling' \in SUBSET Keys
      BY <1>5 DEF TypeOK, RefillStart
    <2>2. conn' \in [Keys -> [Slots -> Sock \cup {Running, Failed, Unused}]]
      <3> DEFINE row == [i \in Slots |-> IF i <= Needed(k) THEN Running ELSE Unused]
      <3>1. row \in [Slots -> Sock \cup {Running, Failed, Unused}]
        OBVIOUS
      <3>2. conn' = conn \/ conn' = [conn EXCEPT ![k] = row]
        BY <1>5 DEF RefillStart
      <3>3. conn \in [Keys -> [Slots -> Sock \cup {Running, Failed, Unused}]]
        BY DEF TypeOK
      <3> HIDE DEF row
      <3> QED
        BY <3>1, <3>2, <3>3
    <2>3. connected' \in [Keys -> BOOLEAN]
      BY <1>5 DEF TypeOK, RefillStart
    <2> QED
      BY <1>5, <2>1, <2>2, <2>3 DEF TypeOK, RefillStart, sockVars, rotateVars, trustVars
  <1>6. ASSUME NEW k \in Keys, NEW i \in Slots, ConnectOk(k, i) PROVE TypeOK'
    BY <1>6 DEF TypeOK, ConnectOk, rotateVars, trustVars
  <1>7. ASSUME NEW k \in Keys, NEW i \in Slots, ConnectFail(k, i) PROVE TypeOK'
    BY <1>7 DEF TypeOK, ConnectFail, sockVars, rotateVars, trustVars
  <1>8. ASSUME NEW k \in Keys, RefillCollect(k) PROVE TypeOK'
    <2>1. idle' \in [Keys -> SUBSET Sock] /\ age' \in [Sock -> 0..MaxAge + 1]
      BY <1>8 DEF TypeOK, RefillCollect, Gained, Stamp
    <2>2. conn' \in [Keys -> [Slots -> Sock \cup {Running, Failed, Unused}]]
      BY <1>8 DEF TypeOK, RefillCollect
    <2>3. connected' \in [Keys -> BOOLEAN]
      BY <1>8 DEF TypeOK, RefillCollect
    <2>4. rotating' \in SUBSET Keys /\ rot' \in [Keys -> {"off", "new", "sleep"}]
      BY <1>8 DEF TypeOK, RefillCollect, ScheduleRotation
    <2>5. rpc' \in [Keys -> {"off", "new", "wait"}] /\ refilling' \in SUBSET Keys
      BY <1>8 DEF TypeOK, RefillCollect, RefillEnd
    <2>6. failures' \in [Keys -> 0..Doublings + 1] /\ backoff' \in [Keys -> Nat]
      <3>1. failures[k] + 1 \in Nat \ {0}
        BY DEF TypeOK
      <3>2. Delay(failures[k] + 1) \in Nat
        BY <3>1, DelayType
      <3>3. Min2(failures[k] + 1, Doublings + 1) \in 0..Doublings + 1
        BY DEF TypeOK, Min2
      <3> QED
        BY <1>8, <3>2, <3>3 DEF TypeOK, RefillCollect, RefillEnd, Trust, trustVars
    <2> QED
      BY <1>8, <2>1, <2>2, <2>3, <2>4, <2>5, <2>6 DEF TypeOK, RefillCollect
  <1>9. ASSUME NEW k \in Keys, RotateStart(k) PROVE TypeOK'
    <2>1. RotateTop(k, idle[k])
      BY <1>9 DEF RotateStart
    <2> QED
      BY <1>9, <2>1, RotateTopType DEF TypeOK, RotateStart, sockVars, refillVars, trustVars
  <1>10. ASSUME NEW k \in Keys, RotateWake(k) PROVE TypeOK'
    <2> DEFINE expired == {s \in idle[k] : Expired(s)}
    <2>1. RotateTop(k, idle[k] \ expired)
      BY <1>10 DEF RotateWake
    <2> HIDE DEF expired
    <2>2. /\ rotating' \in SUBSET Keys
          /\ rot' \in [Keys -> {"off", "new", "sleep"}]
          /\ timer' \in [Keys -> 0..CheckInterval]
      <3>1. idle[k] \ expired \in SUBSET Sock
        BY DEF TypeOK
      <3> QED
        BY <2>1, <3>1, RotateTopType
    <2>3. idle' \in [Keys -> SUBSET Sock] /\ closing' \in SUBSET Sock
      BY <1>10 DEF TypeOK, RotateWake, Pop, Retire
    <2>4. age' \in [Sock -> 0..MaxAge + 1]
      BY <1>10 DEF TypeOK, RotateWake, Stamp
    <2>5. rpc' \in [Keys -> {"off", "new", "wait"}] /\ refilling' \in SUBSET Keys
      BY <1>10 DEF TypeOK, RotateWake, ScheduleRefill
    <2> QED
      BY <1>10, <2>2, <2>3, <2>4, <2>5 DEF TypeOK, RotateWake, trustVars
  <1>11. ASSUME NEW s \in Sock, Close(s) \/ PeerClose(s) PROVE TypeOK'
    BY <1>11 DEF TypeOK, Close, PeerClose, refillVars, rotateVars, trustVars
  <1>12. CASE Tick
    BY <1>12 DEF TypeOK, Tick, Min2, refillVars
  <1>13. CASE Restart
    <2>1. lost' \in SUBSET Sock
      BY <1>13 DEF TypeOK, Restart, Pooled, Pending, Results
    <2>2. /\ idle' \in [Keys -> SUBSET Sock]
          /\ age' \in [Sock -> 0..MaxAge + 1]
          /\ conn' \in [Keys -> [Slots -> Sock \cup {Running, Failed, Unused}]]
      BY <1>13 DEF Restart
    <2>3. /\ rpc' \in [Keys -> {"off", "new", "wait"}]
          /\ connected' \in [Keys -> BOOLEAN]
          /\ rot' \in [Keys -> {"off", "new", "sleep"}]
      BY <1>13 DEF Restart
    <2>4. /\ timer' \in [Keys -> 0..CheckInterval]
          /\ failures' \in [Keys -> 0..Doublings + 1]
          /\ backoff' \in [Keys -> Nat]
      BY <1>13 DEF Restart
    <2> QED
      BY <1>13, <2>1, <2>2, <2>3, <2>4 DEF TypeOK, Restart
  <1>14. CASE UNCHANGED vars
    BY <1>14 DEF TypeOK, vars, sockVars, refillVars, rotateVars, trustVars
  <1> QED
    BY <1>1, <1>2, <1>3, <1>4, <1>5, <1>6, <1>7, <1>8, <1>9, <1>10, <1>11, <1>12, <1>13, <1>14
    DEF Next, Get

(* Every variable of the pool keeps its type.                              *)
THEOREM TypeCorrect == Spec => []TypeOK
  BY TypeInit, TypeStep, PTL DEF Spec

-----------------------------------------------------------------------------
(* One refill per key.                                                     *)

(* A refill is scheduled only for a key that has none.                     *)
LEMMA ScheduleKeepsSingleFlight ==
  ASSUME TypeOK, SingleFlight, conn' = conn,
         NEW ks \in SUBSET Keys, NEW after, ScheduleRefill(ks, after)
  PROVE  SingleFlight'
  <1> DEFINE started == {k \in ks : MayRefill(k, after)}
  <1>1. \A k \in started : k \notin refilling
    BY DEF MayRefill
  <1>2. /\ refilling' = refilling \cup started
        /\ rpc' = [k \in Keys |-> IF k \in started THEN "new" ELSE rpc[k]]
    BY DEF ScheduleRefill
  <1>3. \A k \in Keys : Outstanding(k)' = Outstanding(k)
    BY DEF Outstanding
  <1> HIDE DEF started
  <1> QED
    BY <1>1, <1>2, <1>3 DEF SingleFlight, TypeOK

(* Every step.                                                             *)
LEMMA SingleFlightStep == TypeOK /\ SingleFlight /\ [Next]_vars => SingleFlight'
  <1> SUFFICES ASSUME TypeOK, SingleFlight, [Next]_vars PROVE SingleFlight'
    OBVIOUS
  <1>1. ASSUME NEW k \in Keys, Get(k) \/ RotateWake(k) PROVE SingleFlight'
    <2>1. {k} \in SUBSET Keys /\ {} \in SUBSET Keys /\ conn' = conn
      BY <1>1 DEF Get, Hit, Miss, RotateWake
    <2>2. \E ks \in {{}, {k}} : \E after \in {backoff, backoff'} : ScheduleRefill(ks, after)
      BY <1>1 DEF Get, Hit, Miss, RotateWake
    <2> QED
      BY <2>1, <2>2, ScheduleKeepsSingleFlight
  <1>2. CASE Warmup
    BY <1>2, ScheduleKeepsSingleFlight DEF Warmup
  <1>3. ASSUME NEW k \in Keys, RefillStart(k) PROVE SingleFlight'
    <2>1. Outstanding(k) = {}
      BY <1>3 DEF SingleFlight, RefillStart
    <2>2. ASSUME NEW l \in Keys \ {k}
          PROVE  Outstanding(l)' = Outstanding(l) /\ rpc'[l] = rpc[l]
      BY <1>3 DEF TypeOK, RefillStart, Outstanding
    <2>3. CASE Needed(k) <= 0
      <3>0. ~(Needed(k) > 0)
        BY <2>3, NeededInt
      <3>1. rpc'[k] = "off" /\ refilling' = refilling \ {k} /\ conn' = conn
        BY <1>3, <3>0 DEF TypeOK, RefillStart
      <3> QED
        BY <2>1, <2>2, <3>1 DEF SingleFlight, Outstanding
    <2>4. CASE Needed(k) > 0
      <3>0. ~(Needed(k) <= 0)
        BY <2>4, NeededInt
      <3>1. rpc'[k] = "wait" /\ refilling' = refilling /\ rpc[k] = "new"
        BY <1>3, <3>0 DEF TypeOK, RefillStart
      <3>2. conn'[k] = [i \in Slots |-> IF i <= Needed(k) THEN Running ELSE Unused]
        BY <1>3, <3>0 DEF TypeOK, RefillStart
      <3>3. 1 \in Slots /\ 1 <= Needed(k)
        <4>1. Cardinality(idle[k]) \in Nat
          BY IdleFinite
        <4> QED
          BY <4>1, <2>4, PoolSizeAssumption DEF Needed, Slots
      <3>4. 1 \in Outstanding(k)'
        BY <3>2, <3>3 DEF Outstanding, Running, Unused
      <3> QED
        BY <2>2, <3>1, <3>4 DEF SingleFlight
    <2> QED
      BY <1>3, <2>3, <2>4 DEF RefillStart
  <1>4. ASSUME NEW k \in Keys, NEW i \in Slots, ConnectOk(k, i) \/ ConnectFail(k, i)
        PROVE  SingleFlight'
    <2>1. \A l \in Keys : Outstanding(l)' = Outstanding(l)
      BY <1>4, SockAssumption DEF TypeOK, ConnectOk, ConnectFail, Outstanding, Running, Failed, Unused
    <2> QED
      BY <1>4, <2>1 DEF SingleFlight, ConnectOk, ConnectFail
  <1>5. ASSUME NEW k \in Keys, RefillCollect(k) PROVE SingleFlight'
    <2>1. Outstanding(k)' = Outstanding(k) \ Settled(k)
      BY <1>5 DEF TypeOK, RefillCollect, Outstanding, Settled
    <2>2. \A l \in Keys \ {k} : Outstanding(l)' = Outstanding(l)
      BY <1>5 DEF TypeOK, RefillCollect, Outstanding
    <2>3. Settled(k) \subseteq Outstanding(k) /\ rpc[k] = "wait"
      BY <1>5 DEF RefillCollect, Settled
    <2>4. CASE Settled(k) = Outstanding(k)
      <3>1. rpc' = [rpc EXCEPT ![k] = "off"] /\ refilling' = refilling \ {k}
        BY <1>5, <2>4 DEF RefillCollect, RefillEnd
      <3> QED
        BY <2>1, <2>2, <2>4, <3>1 DEF SingleFlight, TypeOK
    <2>5. CASE Settled(k) # Outstanding(k)
      <3>1. rpc' = rpc /\ refilling' = refilling
        BY <1>5, <2>5 DEF RefillCollect
      <3> QED
        BY <2>1, <2>2, <2>3, <2>5, <3>1 DEF SingleFlight
    <2> QED
      BY <2>4, <2>5
  <1>6. CASE Restart
    BY <1>6 DEF Restart, SingleFlight, Outstanding
  <1>7. CASE UNCHANGED refillVars
    BY <1>7 DEF refillVars, SingleFlight, Outstanding
  <1> QED
    BY <1>1, <1>2, <1>3, <1>4, <1>5, <1>6, <1>7
    DEF Next, ReportSuccess, RotateStart, Close, PeerClose, Tick, vars

(* A key is marked as refilling exactly while one refill of it runs.       *)
THEOREM SingleFlightHolds == Spec => []SingleFlight
  <1>1. Init => SingleFlight
    BY DEF Init, SingleFlight, Outstanding
  <1> QED
    BY <1>1, SingleFlightStep, TypeCorrect, PTL DEF Spec

-----------------------------------------------------------------------------
(* A deque that holds a socket is being watched.                           *)

(* A pop only takes.                                                       *)
LEMMA PopShrinks ==
  ASSUME TypeOK, NEW k \in Keys, NEW S, Pop(k, S)
  PROVE  \A l \in Keys : idle'[l] \in SUBSET idle[l]
  BY DEF TypeOK, Pop

(* get() and a rotation only pop.                                          *)
LEMMA TakersPop ==
  ASSUME NEW k \in Keys, Get(k) \/ RotateWake(k)
  PROVE  \E S : Pop(k, S)
  BY DEF Get, Hit, Miss, RotateWake

(* Every step keeps a rotation for a deque that is not empty.              *)
LEMMA WatchedStep == TypeOK /\ Watched /\ [Next]_vars => Watched'
  <1> SUFFICES ASSUME TypeOK, Watched, [Next]_vars PROVE Watched'
    OBVIOUS
  <1>1. ASSUME NEW k \in Keys, Get(k) PROVE Watched'
    <2>1. rotating' = rotating /\ rot' = rot
      BY <1>1 DEF Get, Hit, Miss, rotateVars
    <2>2. \A l \in Keys : idle'[l] \in SUBSET idle[l]
      BY <1>1, TakersPop, PopShrinks
    <2> QED
      BY <2>1, <2>2 DEF Watched
  <1>2. ASSUME NEW k \in Keys, RefillCollect(k) PROVE Watched'
    <2>1. idle' = [idle EXCEPT ![k] = @ \cup Gained(k)]
      BY <1>2 DEF RefillCollect
    <2>2. ScheduleRotation(k, Gained(k) # {})
      BY <1>2 DEF RefillCollect
    <2> QED
      BY <2>1, <2>2 DEF TypeOK, Watched, ScheduleRotation
  <1>3. ASSUME NEW k \in Keys, RotateStart(k) PROVE Watched'
    <2>1. idle' = idle /\ RotateTop(k, idle[k]) /\ k \in rotating
      BY <1>3 DEF Watched, RotateStart, sockVars
    <2> QED
      BY <2>1 DEF TypeOK, Watched, RotateTop
  <1>4. ASSUME NEW k \in Keys, RotateWake(k) PROVE Watched'
    <2> DEFINE ready == idle[k] \ {s \in idle[k] : Expired(s)}
    <2>1. idle' = [idle EXCEPT ![k] = ready] /\ RotateTop(k, ready) /\ k \in rotating
      BY <1>4 DEF Watched, RotateWake, Pop
    <2> HIDE DEF ready
    <2> QED
      BY <2>1 DEF TypeOK, Watched, RotateTop
  <1>5. CASE Restart
    BY <1>5 DEF Restart, Watched
  <1>6. CASE UNCHANGED <<idle, rotating, rot>>
    BY <1>6 DEF Watched
  <1> QED
    BY <1>1, <1>2, <1>3, <1>4, <1>5, <1>6
    DEF Next, ReportSuccess, Warmup, RefillStart, ConnectOk, ConnectFail, Close, PeerClose, Tick, vars, sockVars, rotateVars

(* No deque holds a socket without a rotation task that will look at it.   *)
THEOREM WatchedHolds == Spec => []Watched
  <1>1. Init => Watched
    BY DEF Init, Watched
  <1> QED
    BY <1>1, WatchedStep, TypeCorrect, PTL DEF Spec

-----------------------------------------------------------------------------
(* The size of the pool.                                                   *)

(* The connections of a refill can be counted.                             *)
LEMMA OutstandingFinite ==
  ASSUME NEW k \in Keys
  PROVE  IsFiniteSet(Outstanding(k)) /\ Cardinality(Outstanding(k)) \in Nat
  <1>1. IsFiniteSet(Slots)
    BY PoolSizeAssumption, FS_Interval DEF Slots
  <1>2. Outstanding(k) \in SUBSET Slots
    BY DEF Outstanding
  <1> QED
    BY <1>1, <1>2, FS_Subset, FS_CardinalityType

(* Awaiting n connects adds at most n sockets.                             *)
LEMMA GainedBound ==
  ASSUME NEW k \in Keys
  PROVE  /\ IsFiniteSet(Gained(k)) /\ IsFiniteSet(Settled(k))
         /\ Cardinality(Gained(k)) \in Nat /\ Cardinality(Settled(k)) \in Nat
         /\ Cardinality(Gained(k)) <= Cardinality(Settled(k))
  <1> DEFINE T == {conn[k][i] : i \in Settled(k)}
             f == [i \in Settled(k) |-> conn[k][i]]
  <1>1. Settled(k) \in SUBSET Outstanding(k)
    BY DEF Settled
  <1>2. IsFiniteSet(Settled(k)) /\ Cardinality(Settled(k)) \in Nat
    BY <1>1, OutstandingFinite, FS_Subset, FS_CardinalityType
  <1>3. f \in Surjection(Settled(k), T)
    BY DEF Surjection
  <1>4. IsFiniteSet(T) /\ Cardinality(T) <= Cardinality(Settled(k))
    BY <1>2, <1>3, FS_Surjection
  <1>5. Gained(k) \in SUBSET T
    BY DEF Gained
  <1> HIDE DEF T, f
  <1>6. IsFiniteSet(Gained(k)) /\ Cardinality(Gained(k)) <= Cardinality(T)
    BY <1>4, <1>5, FS_Subset
  <1>7. Cardinality(T) \in Nat /\ Cardinality(Gained(k)) \in Nat
    BY <1>4, <1>6, FS_CardinalityType
  <1> QED
    BY <1>2, <1>4, <1>6, <1>7

(* Every step keeps the bound.                                             *)
LEMMA PoolBoundedStep ==
  TypeOK /\ SingleFlight /\ PoolBounded /\ [Next]_vars => PoolBounded'
  <1> SUFFICES ASSUME TypeOK, SingleFlight, PoolBounded, [Next]_vars, NEW l \in Keys
               PROVE  Cardinality(idle'[l]) + Cardinality(Outstanding(l)') <= PoolSize
    BY DEF PoolBounded
  <1> DEFINE Goal == Cardinality(idle'[l]) + Cardinality(Outstanding(l)') <= PoolSize
  <1>0. /\ Cardinality(idle[l]) + Cardinality(Outstanding(l)) <= PoolSize
        /\ Cardinality(idle[l]) \in Nat /\ Cardinality(Outstanding(l)) \in Nat
        /\ IsFiniteSet(idle[l]) /\ IsFiniteSet(Outstanding(l))
    BY IdleFinite, OutstandingFinite DEF PoolBounded
  <1>1. ASSUME idle'[l] \in SUBSET idle[l], Outstanding(l)' = Outstanding(l) PROVE Goal
    <2>1. Cardinality(idle'[l]) \in Nat /\ Cardinality(idle'[l]) <= Cardinality(idle[l])
      BY <1>0, <1>1, FS_Subset, FS_CardinalityType
    <2> QED
      BY <1>0, <1>1, <2>1, PoolSizeAssumption
  <1>2. ASSUME NEW k \in Keys, Get(k) \/ RotateWake(k) PROVE Goal
    <2>1. idle'[l] \in SUBSET idle[l]
      BY <1>2, TakersPop, PopShrinks
    <2>2. Outstanding(l)' = Outstanding(l)
      BY <1>2 DEF Get, Hit, Miss, RotateWake, Outstanding
    <2> QED
      BY <1>1, <2>1, <2>2
  <1>3. ASSUME NEW k \in Keys, RefillStart(k) PROVE Goal
    <2>1. idle' = idle /\ rpc[k] = "new"
      BY <1>3 DEF RefillStart, sockVars
    <2>2. CASE k # l \/ Needed(k) <= 0
      <3>1. Outstanding(l)' = Outstanding(l)
        BY <1>3, <2>2, NeededInt DEF TypeOK, RefillStart, Outstanding
      <3> QED
        BY <1>1, <2>1, <3>1
    <2>3. CASE k = l /\ Needed(l) > 0
      <3>0. ~(Needed(l) <= 0)
        BY <2>3, NeededInt
      <3>1. conn'[l] = [i \in Slots |-> IF i <= Needed(l) THEN Running ELSE Unused]
        BY <1>3, <2>3, <3>0 DEF TypeOK, RefillStart
      <3>2. Needed(l) \in 1..PoolSize
        BY <1>0, <2>3, PoolSizeAssumption DEF Needed
      <3>3. Outstanding(l)' = 1..Needed(l)
        BY <3>1, <3>2, PoolSizeAssumption DEF Outstanding, Slots, Running, Unused
      <3>4. Cardinality(Outstanding(l)') = Needed(l)
        BY <3>2, <3>3, FS_Interval
      <3> QED
        BY <1>0, <2>1, <3>4, PoolSizeAssumption DEF Needed
    <2> QED
      BY <2>2, <2>3, NeededInt
  <1>4. ASSUME NEW k \in Keys, NEW i \in Slots, ConnectOk(k, i) \/ ConnectFail(k, i) PROVE Goal
    <2>1. Outstanding(l)' = Outstanding(l)
      BY <1>4, SockAssumption DEF TypeOK, ConnectOk, ConnectFail, Outstanding, Running, Failed, Unused
    <2>2. idle' = idle
      BY <1>4 DEF ConnectOk, ConnectFail, sockVars
    <2> QED
      BY <1>1, <2>1, <2>2
  <1>5. ASSUME NEW k \in Keys, RefillCollect(k) PROVE Goal
    <2>1. CASE k # l
      <3>1. idle'[l] = idle[l] /\ conn'[l] = conn[l]
        BY <1>5, <2>1 DEF TypeOK, RefillCollect
      <3> QED
        BY <1>1, <3>1 DEF Outstanding
    <2>2. CASE k = l
      <3>1. idle'[l] = idle[l] \cup Gained(l)
        BY <1>5, <2>2 DEF TypeOK, RefillCollect
      <3>2. Outstanding(l)' = Outstanding(l) \ Settled(l)
        BY <1>5, <2>2 DEF TypeOK, RefillCollect, Outstanding, Settled
      <3>3. Cardinality(idle'[l]) <= Cardinality(idle[l]) + Cardinality(Gained(l))
        <4>1. IsFiniteSet(idle[l] \cap Gained(l)) /\ Cardinality(idle[l] \cap Gained(l)) \in Nat
          BY <1>0, FS_Subset, FS_CardinalityType
        <4> QED
          BY <1>0, <3>1, <4>1, GainedBound, FS_Union
      <3>4. Cardinality(Outstanding(l)') = Cardinality(Outstanding(l)) - Cardinality(Settled(l))
        <4>1. Outstanding(l) \cap Settled(l) = Settled(l)
          BY DEF Settled
        <4> QED
          BY <1>0, <3>2, <4>1, FS_Difference
      <3>5. Cardinality(idle'[l]) \in Nat
        BY <1>0, <3>1, GainedBound, FS_Union, FS_CardinalityType
      <3> QED
        BY <1>0, <3>3, <3>4, <3>5, GainedBound, PoolSizeAssumption
    <2> QED
      BY <2>1, <2>2
  <1>6. CASE Restart
    <2>1. idle'[l] = {} /\ Outstanding(l)' = {}
      BY <1>6 DEF Restart, Outstanding
    <2> QED
      BY <2>1, FS_EmptySet, PoolSizeAssumption
  <1>7. CASE UNCHANGED <<idle, conn>>
    BY <1>1, <1>7 DEF Outstanding
  <1> QED
    BY <1>2, <1>3, <1>4, <1>5, <1>6, <1>7
    DEF Next, ReportSuccess, Warmup, RotateStart, Close, PeerClose, Tick,
        vars, sockVars, refillVars

(* A key never has more than PoolSize sockets idle or on their way.        *)
THEOREM PoolBoundedHolds == Spec => []PoolBounded
  <1>1. Init => PoolBounded
    <2> SUFFICES ASSUME Init, NEW k \in Keys
                 PROVE  Cardinality(idle[k]) + Cardinality(Outstanding(k)) <= PoolSize
      BY DEF PoolBounded
    <2>1. idle[k] = {} /\ Outstanding(k) = {}
      BY DEF Init, Outstanding
    <2> QED
      BY <2>1, FS_EmptySet, PoolSizeAssumption
  <1> QED
    BY <1>1, PoolBoundedStep, TypeCorrect, SingleFlightHolds, PTL DEF Spec

-----------------------------------------------------------------------------
(* Ownership of the connections.                                           *)

Owned == OneOwner /\ NoOrphan

(* Taking the sockets S out of one deque takes them out of the pool.       *)
LEMMA PopMoves ==
  ASSUME TypeOK, DequesDisjoint, NEW k \in Keys, NEW S \in SUBSET idle[k], Pop(k, S)
  PROVE  DequesDisjoint' /\ Pooled' = Pooled \ S /\ S \subseteq Pooled
  <1>1. /\ idle'[k] = idle[k] \ S
        /\ \A l \in Keys \ {k} : idle'[l] = idle[l] /\ idle[l] \cap S = {}
    BY DEF TypeOK, Pop, DequesDisjoint
  <1>2. DequesDisjoint'
    BY <1>1 DEF DequesDisjoint
  <1>3. Pooled' = Pooled \ S
    BY <1>1 DEF Pooled
  <1>4. S \subseteq Pooled
    BY DEF Pooled
  <1> QED
    BY <1>2, <1>3, <1>4

(* Results that stay have one slot each.                                   *)
LEMMA SlotsKept ==
  ASSUME conn' = conn, SlotsDisjoint
  PROVE  SlotsDisjoint' /\ Pending' = Pending
  BY DEF SlotsDisjoint, Pending, Results

(* Deques that stay have no socket in common.                              *)
LEMMA DequesKept ==
  ASSUME idle' = idle, DequesDisjoint
  PROVE  DequesDisjoint' /\ Pooled' = Pooled
  BY DEF DequesDisjoint, Pooled

(* A result is pending.                                                    *)
LEMMA ResultsIn ==
  ASSUME NEW k \in Keys, NEW i \in Slots, conn[k][i] \in Sock
  PROVE  conn[k][i] \in Pending
  BY DEF Pending, Results

(* A pending socket is a result of some refill.                            *)
LEMMA PendingFrom ==
  ASSUME NEW s \in Pending
  PROVE  s \in Sock /\ \E k \in Keys : \E i \in Slots : conn[k][i] = s
  BY DEF Pending, Results

(* Every step keeps one owner for each open connection.                    *)
LEMMA OwnedStep == TypeOK /\ SingleFlight /\ Owned /\ [Next]_vars => Owned'
  <1> SUFFICES ASSUME TypeOK, SingleFlight, Owned, [Next]_vars PROVE Owned'
    OBVIOUS
  <1>0. /\ DequesDisjoint /\ SlotsDisjoint /\ HoldersDisjoint
        /\ open = Pooled \cup Pending \cup inUse \cup closing \cup lost
    BY DEF Owned, OneOwner, NoOrphan
  <1>1. ASSUME NEW k \in Keys, NEW u \in Sock, Hit(k, u) PROVE Owned'
    <2>1. PICK D \in SUBSET idle[k] :
             /\ Skipped(k, u, D)
             /\ Pop(k, D \cup {u})
             /\ Retire(D)
      BY <1>1 DEF Hit
    <2>2. u \in idle[k] /\ u \notin D
      BY <1>1, <2>1 DEF Hit, FirstUsable, Skipped
    <2>3. DequesDisjoint' /\ Pooled' = Pooled \ (D \cup {u}) /\ D \cup {u} \subseteq Pooled
      BY <1>0, <2>1, <2>2, PopMoves
    <2>4. SlotsDisjoint' /\ Pending' = Pending
      BY <1>0, <1>1, SlotsKept DEF Hit
    <2>5. inUse' = inUse \cup {u} /\ closing' = closing \cup D /\ lost' = lost /\ open' = open
      BY <1>1, <2>1 DEF Hit, Retire
    <2> QED
      BY <1>0, <2>2, <2>3, <2>4, <2>5 DEF Owned, OneOwner, NoOrphan, HoldersDisjoint
  <1>2. ASSUME NEW k \in Keys, Miss(k) \/ RotateWake(k) PROVE Owned'
    <2>1. PICK D \in SUBSET idle[k] : Pop(k, D) /\ Retire(D)
      BY <1>2 DEF Miss, RotateWake
    <2>2. DequesDisjoint' /\ Pooled' = Pooled \ D /\ D \subseteq Pooled
      BY <1>0, <2>1, PopMoves
    <2>3. SlotsDisjoint' /\ Pending' = Pending
      BY <1>0, <1>2, SlotsKept DEF Miss, RotateWake
    <2>4. inUse' = inUse /\ closing' = closing \cup D /\ lost' = lost /\ open' = open
      BY <1>2, <2>1 DEF Miss, RotateWake, Retire
    <2> QED
      BY <1>0, <2>2, <2>3, <2>4 DEF Owned, OneOwner, NoOrphan, HoldersDisjoint
  <1>3. ASSUME NEW k \in Keys, RefillStart(k) PROVE Owned'
    <2>1. \A i \in Slots : conn[k][i] \notin Sock
      BY <1>3, SockAssumption DEF RefillStart, SingleFlight, Outstanding
    <2>2. \A i \in Slots : conn'[k][i] \notin Sock
      BY <1>3, <2>1, SockAssumption DEF TypeOK, RefillStart
    <2>3. \A l \in Keys \ {k} : conn'[l] = conn[l]
      BY <1>3 DEF TypeOK, RefillStart
    <2>4. SlotsDisjoint'
      BY <1>0, <2>2, <2>3 DEF SlotsDisjoint
    <2>5. \A l \in Keys : Results(l)' = Results(l)
      BY <2>1, <2>2, <2>3 DEF Results
    <2>6. Pending' = Pending
      BY <2>5 DEF Pending
    <2> QED
      BY <1>0, <1>3, <2>4, <2>6, DequesKept
      DEF RefillStart, sockVars, Owned, OneOwner, NoOrphan, HoldersDisjoint
  <1>4. ASSUME NEW k \in Keys, NEW i \in Slots, ConnectOk(k, i) PROVE Owned'
    <2>1. PICK s \in Sock \ open : conn' = [conn EXCEPT ![k][i] = s] /\ open' = open \cup {s}
      BY <1>4 DEF ConnectOk
    <2>2. /\ conn'[k][i] = s
          /\ \A l \in Keys, j \in Slots : l # k \/ j # i => conn'[l][j] = conn[l][j]
      BY <2>1 DEF TypeOK
    <2>3. conn[k][i] \notin Sock
      BY <1>4, SockAssumption DEF ConnectOk
    <2>4. \A l \in Keys, j \in Slots : conn[l][j] # s
      BY <1>0, <2>1, ResultsIn
    <2>5. SlotsDisjoint'
      BY <1>0, <2>2, <2>4 DEF SlotsDisjoint
    <2>6. Pending' = Pending \cup {s}
      <3>1. ASSUME NEW x \in Sock
            PROVE  x \in Pending' <=> \E l \in Keys : \E j \in Slots : conn'[l][j] = x
        BY DEF Pending, Results
      <3>2. ASSUME NEW x \in Sock
            PROVE  x \in Pending <=> \E l \in Keys : \E j \in Slots : conn[l][j] = x
        BY DEF Pending, Results
      <3>3. Pending \subseteq Sock /\ Pending' \subseteq Sock
        BY DEF Pending, Results
      <3> QED
        BY <2>1, <2>2, <2>3, <3>1, <3>2, <3>3
    <2>7. DequesDisjoint' /\ Pooled' = Pooled
      BY <1>0, <1>4, DequesKept DEF ConnectOk
    <2>8. inUse' = inUse /\ closing' = closing /\ lost' = lost
      BY <1>4 DEF ConnectOk
    <2> QED
      BY <1>0, <2>1, <2>5, <2>6, <2>7, <2>8 DEF Owned, OneOwner, NoOrphan, HoldersDisjoint
  <1>5. ASSUME NEW k \in Keys, NEW i \in Slots, ConnectFail(k, i) PROVE Owned'
    <2>1. /\ conn[k][i] \notin Sock /\ conn'[k][i] \notin Sock
          /\ \A l \in Keys, j \in Slots : l # k \/ j # i => conn'[l][j] = conn[l][j]
      BY <1>5, SockAssumption DEF TypeOK, ConnectFail
    <2>2. SlotsDisjoint'
      BY <1>0, <2>1 DEF SlotsDisjoint
    <2>3. \A l \in Keys : Results(l)' = Results(l)
      BY <2>1 DEF Results
    <2>4. Pending' = Pending
      BY <2>3 DEF Pending
    <2> QED
      BY <1>0, <1>5, <2>2, <2>4, DequesKept
      DEF ConnectFail, sockVars, Owned, OneOwner, NoOrphan, HoldersDisjoint
  <1>6. ASSUME NEW k \in Keys, RefillCollect(k) PROVE Owned'
    <2> DEFINE got == Gained(k)
    <2>1. /\ idle'[k] = idle[k] \cup got
          /\ \A l \in Keys \ {k} : idle'[l] = idle[l]
      BY <1>6 DEF TypeOK, RefillCollect
    <2>2. /\ \A i \in Slots : conn'[k][i] = IF i \in Settled(k) THEN Unused ELSE conn[k][i]
          /\ \A l \in Keys \ {k} : conn'[l] = conn[l]
      BY <1>6 DEF TypeOK, RefillCollect
    <2>3. \A x \in got : x \in Sock /\ \E i \in Slots : i \in Settled(k) /\ conn[k][i] = x
      BY DEF Gained, Settled, Outstanding
    <2>4. \A i \in Settled(k) : conn[k][i] \in Sock => conn[k][i] \in got
      BY DEF Gained
    <2> HIDE DEF got
    <2>5. got \subseteq Pending
      BY <2>3, ResultsIn
    <2>6. Pending' = Pending \ got
      <3>1. ASSUME NEW x \in Sock
            PROVE  x \in Pending' <=> \E l \in Keys : \E j \in Slots : conn'[l][j] = x
        BY DEF Pending, Results
      <3>2. ASSUME NEW x \in Sock
            PROVE  x \in Pending <=> \E l \in Keys : \E j \in Slots : conn[l][j] = x
        BY DEF Pending, Results
      <3>3. Pending \subseteq Sock /\ Pending' \subseteq Sock
        BY DEF Pending, Results
      <3>4. ASSUME NEW x \in Sock, x \in Pending' PROVE x \in Pending /\ x \notin got
        BY <1>0, <2>2, <2>3, <3>1, <3>2, <3>4, SockAssumption DEF SlotsDisjoint
      <3>5. ASSUME NEW x \in Sock, x \in Pending, x \notin got PROVE x \in Pending'
        <4>1. PICK l \in Keys, j \in Slots : conn[l][j] = x
          BY <3>2, <3>5
        <4>2. conn'[l][j] = x
          BY <2>2, <2>4, <3>5, <4>1
        <4> QED
          BY <3>1, <4>2
      <3> QED
        BY <3>3, <3>4, <3>5
    <2>7. SlotsDisjoint'
      BY <1>0, <2>2, SockAssumption DEF SlotsDisjoint
    <2>8. Pooled' = Pooled \cup got
      BY <2>1 DEF Pooled
    <2>9. DequesDisjoint'
      <3>1. \A l \in Keys : idle[l] \cap got = {}
        BY <1>0, <2>5 DEF HoldersDisjoint, Pooled
      <3> QED
        BY <1>0, <2>1, <3>1 DEF DequesDisjoint
    <2>10. inUse' = inUse /\ closing' = closing /\ lost' = lost /\ open' = open
      BY <1>6 DEF RefillCollect
    <2> QED
      BY <1>0, <2>5, <2>6, <2>7, <2>8, <2>9, <2>10 DEF Owned, OneOwner, NoOrphan, HoldersDisjoint
  <1>7. ASSUME NEW s \in Sock, Close(s) PROVE Owned'
    <2>1. DequesDisjoint' /\ Pooled' = Pooled /\ SlotsDisjoint' /\ Pending' = Pending
      BY <1>0, <1>7, DequesKept, SlotsKept DEF Close, refillVars
    <2>2. /\ s \in closing \cup inUse \cup lost
          /\ open' = open \ {s} /\ closing' = closing \ {s}
          /\ inUse' = inUse \ {s} /\ lost' = lost \ {s}
      BY <1>0, <1>7 DEF Close, HoldersDisjoint
    <2> QED
      BY <1>0, <2>1, <2>2 DEF Owned, OneOwner, NoOrphan, HoldersDisjoint
  <1>8. CASE Restart
    <2>1. Pooled' = {} /\ DequesDisjoint'
      BY <1>8 DEF Restart, Pooled, DequesDisjoint
    <2>2. Pending' = {} /\ SlotsDisjoint'
      BY <1>8, SockAssumption DEF Restart, Pending, Results, SlotsDisjoint
    <2>3. /\ lost' = lost \cup Pooled \cup Pending \cup closing
          /\ open' = open \ inUse /\ inUse' = {} /\ closing' = {}
      BY <1>8 DEF Restart
    <2> QED
      BY <1>0, <2>1, <2>2, <2>3 DEF Owned, OneOwner, NoOrphan, HoldersDisjoint
  <1>9. CASE UNCHANGED <<idle, conn, open, inUse, closing, lost>>
    BY <1>0, <1>9, DequesKept, SlotsKept DEF Owned, OneOwner, NoOrphan, HoldersDisjoint
  <1> QED
    BY <1>1, <1>2, <1>3, <1>4, <1>5, <1>6, <1>7, <1>8, <1>9
    DEF Next, Get, ReportSuccess, Warmup, RotateStart, PeerClose, Tick, vars, sockVars, refillVars

(* Every open connection has exactly one holder.                           *)
THEOREM OwnedHolds == Spec => [](OneOwner /\ NoOrphan)
  <1>1. Init => Owned
    BY SockAssumption DEF Init, Owned, OneOwner, NoOrphan, DequesDisjoint, SlotsDisjoint, HoldersDisjoint,
           Pooled, Pending, Results
  <1>2. Owned => OneOwner /\ NoOrphan
    BY DEF Owned
  <1> QED
    BY <1>1, <1>2, OwnedStep, TypeCorrect, SingleFlightHolds, PTL DEF Spec

(* No connection stays open that neither the pool, a bridge, a refill nor a *)
(* close still under way holds, but for the ones counted as lost.          *)
THEOREM NoOrphanHolds == Spec => []NoOrphan
  BY OwnedHolds, PTL

-----------------------------------------------------------------------------
(* The back-off.                                                           *)

(* Every step keeps a delay with its failures.                             *)
LEMMA BackoffStep == TypeOK /\ BackoffEarned /\ [Next]_vars => BackoffEarned'
  <1> SUFFICES ASSUME TypeOK, BackoffEarned, [Next]_vars PROVE BackoffEarned'
    OBVIOUS
  <1>1. ASSUME NEW k \in Keys, Trust(k) PROVE BackoffEarned'
    BY <1>1 DEF TypeOK, BackoffEarned, Trust
  <1>2. ASSUME NEW k \in Keys, Get(k) \/ ReportSuccess(k) PROVE BackoffEarned'
    BY <1>1, <1>2 DEF Get, Hit, Miss, ReportSuccess, trustVars, BackoffEarned
  <1>3. ASSUME NEW k \in Keys, RefillCollect(k) PROVE BackoffEarned'
    <2>1. CASE UNCHANGED trustVars
      BY <2>1 DEF trustVars, BackoffEarned
    <2>2. CASE Trust(k)
      BY <1>1, <2>2
    <2>3. CASE failures' = [failures EXCEPT ![k] = Min2(@ + 1, Doublings + 1)]
               /\ backoff' = [backoff EXCEPT ![k] = Delay(failures[k] + 1)]
      <3>1. Min2(failures[k] + 1, Doublings + 1) > 0
        BY BackoffAssumption DEF TypeOK, Min2
      <3> QED
        BY <2>3, <3>1 DEF TypeOK, BackoffEarned
    <2> QED
      BY <1>3, <2>1, <2>2, <2>3 DEF RefillCollect, RefillEnd
  <1>4. CASE Tick
    BY <1>4 DEF TypeOK, BackoffEarned, Tick
  <1>5. CASE Restart
    BY <1>5 DEF BackoffEarned, Restart
  <1>6. CASE UNCHANGED trustVars
    BY <1>6 DEF BackoffEarned, trustVars
  <1> QED
    BY <1>2, <1>3, <1>4, <1>5, <1>6
    DEF Next, Warmup, RefillStart, ConnectOk, ConnectFail, RotateStart, RotateWake, Close, PeerClose, vars

(* A key waits out a delay only after refills that failed.                 *)
THEOREM BackoffEarnedHolds == Spec => []BackoffEarned
  <1>1. Init => BackoffEarned
    BY DEF Init, BackoffEarned
  <1> QED
    BY <1>1, BackoffStep, TypeCorrect, PTL DEF Spec

-----------------------------------------------------------------------------
(* The refinement.  Each step of the tasks is a step the contract allows,  *)
(* or changes nothing the contract speaks of.                              *)

(* Only the clock ages a socket, and only in a deque; only a connection    *)
(* that is still open can be found shut.                                   *)
Aged == \A s \in Sock : s \notin Pooled => age[s] = 0
ShutOpen == shut \subseteq open

(* What the refinement rests on.                                           *)
Safe == /\ TypeOK /\ SingleFlight /\ PoolBounded
        /\ OneOwner /\ NoOrphan
        /\ Aged /\ ShutOpen

-----------------------------------------------------------------------------
(* The two invariants of ages and closed sockets.                          *)

(* Only a socket in a deque grows old.                                     *)
LEMMA AgedStep ==
  TypeOK /\ OneOwner /\ Aged /\ [Next]_vars => Aged'
  <1> SUFFICES ASSUME TypeOK, OneOwner, Aged, [Next]_vars PROVE Aged'
    OBVIOUS
  <1> USE TimeAssumption
  <1>0. DequesDisjoint
    BY DEF OneOwner
  <1>1. ASSUME NEW k \in Keys, NEW D \in SUBSET idle[k], Pop(k, D), Stamp(D) PROVE Aged'
    <2>1. Pooled' = Pooled \ D
      BY <1>0, <1>1, PopMoves
    <2>2. \A s \in Sock : age'[s] = IF s \in D THEN 0 ELSE age[s]
      BY <1>1 DEF Stamp
    <2> QED
      BY <2>1, <2>2 DEF Aged
  <1>2. ASSUME NEW k \in Keys, Get(k) \/ RotateWake(k) PROVE Aged'
    <2>1. \E D \in SUBSET idle[k] : Pop(k, D) /\ Stamp(D)
      BY <1>2 DEF Get, Hit, FirstUsable, Miss, RotateWake
    <2> QED
      BY <1>1, <2>1
  <1>3. ASSUME NEW k \in Keys, RefillCollect(k) PROVE Aged'
    <2>1. Pooled \subseteq Pooled'
      BY <1>3 DEF TypeOK, RefillCollect, Pooled
    <2>2. \A s \in Sock : age'[s] = 0 \/ age'[s] = age[s]
      BY <1>3 DEF RefillCollect, Stamp
    <2> QED
      BY <2>1, <2>2 DEF Aged
  <1>4. CASE Tick
    <2>1. Pooled' = Pooled
      BY <1>4 DEF Tick, Pooled
    <2>2. \A s \in Sock : s \notin Pooled => age'[s] = age[s]
      BY <1>4 DEF Tick
    <2> QED
      BY <2>1, <2>2 DEF Aged
  <1>5. CASE Restart
    BY <1>5 DEF Restart, Aged
  <1>6. CASE UNCHANGED <<idle, age>>
    BY <1>6 DEF Aged, Pooled
  <1> QED
    BY <1>2, <1>3, <1>4, <1>5, <1>6
    DEF Next, ReportSuccess, Warmup, RefillStart, ConnectOk, ConnectFail, RotateStart,
        Close, PeerClose, vars, sockVars

(* Only an open connection is found shut.                                  *)
LEMMA ShutOpenStep ==
  TypeOK /\ Owned /\ ShutOpen /\ [Next]_vars => ShutOpen'
  <1> SUFFICES ASSUME TypeOK, Owned, ShutOpen, [Next]_vars PROVE ShutOpen'
    OBVIOUS
  <1>1. ASSUME NEW k \in Keys, NEW i \in Slots, ConnectOk(k, i) PROVE ShutOpen'
    BY <1>1 DEF ConnectOk, ShutOpen
  <1>2. ASSUME NEW s \in Sock, Close(s) PROVE ShutOpen'
    BY <1>2 DEF Close, ShutOpen
  <1>3. ASSUME NEW s \in Sock, PeerClose(s) PROVE ShutOpen'
    BY <1>3 DEF PeerClose, ShutOpen, Owned, NoOrphan
  <1>4. CASE Restart
    BY <1>4 DEF Restart, ShutOpen
  <1>5. CASE UNCHANGED <<shut, open>>
    BY <1>5 DEF ShutOpen
  <1> QED
    BY <1>1, <1>2, <1>3, <1>4, <1>5
    DEF Next, Get, Hit, Miss, ReportSuccess, Warmup, RefillStart, ConnectFail, RefillCollect,
        RotateStart, RotateWake, Tick, vars, sockVars

(* All that the mapping rests on.                                          *)
LEMMA SafeHolds == Spec => []Safe
  <1>1. Init => Aged /\ ShutOpen
    BY DEF Init, Aged, ShutOpen
  <1>2. Safe <=> /\ TypeOK /\ SingleFlight /\ PoolBounded
                 /\ (OneOwner /\ NoOrphan) /\ Aged /\ ShutOpen
    BY DEF Safe
  <1>3. Owned <=> OneOwner /\ NoOrphan
    BY DEF Owned
  <1>4. Spec => []Aged
    <2>1. TypeOK /\ (OneOwner /\ NoOrphan) /\ Aged /\ [Next]_vars => Aged'
      BY AgedStep
    <2> QED
      BY <1>1, <2>1, TypeCorrect, OwnedHolds, PTL DEF Spec
  <1>5. Spec => []ShutOpen
    <2>1. TypeOK /\ (OneOwner /\ NoOrphan) /\ ShutOpen /\ [Next]_vars => ShutOpen'
      BY <1>3, ShutOpenStep
    <2> QED
      BY <1>1, <2>1, TypeCorrect, OwnedHolds, PTL DEF Spec
  <1> QED
    BY <1>2, <1>4, <1>5, TypeCorrect, SingleFlightHolds, PoolBoundedHolds, OwnedHolds, PTL

-----------------------------------------------------------------------------
(* Lemmas on the mapping.                                                  *)

(* What the mapping counts as pooled.                                      *)
LEMMA AllKept ==
  UNION {KeptBar[k] : k \in Keys} = Pooled \cup Pending
  BY DEF KeptBar, Pooled, Pending

(* What anybody holds, seen from outside, is open.                         *)
LEMMA HeldOpen ==
  ASSUME Safe
  PROVE  Contract!Held = open
  BY AllKept DEF Safe, NoOrphan, Contract!Held, Contract!AllPooled, RetiredBar

(* What leaves a deque leaves the pool of the contract, stale or not.      *)
LEMMA PopKept ==
  ASSUME Safe, NEW k \in Keys, NEW S \in SUBSET idle[k], Pop(k, S), Stamp(S),
         conn' = conn, shut' = shut
  PROVE  /\ KeptBar' = [KeptBar EXCEPT ![k] = @ \ S]
         /\ StaleBar' = StaleBar \ S
         /\ S \subseteq KeptBar[k]
  <1>0. TypeOK /\ DequesDisjoint /\ HoldersDisjoint /\ Aged
    BY DEF Safe, OneOwner
  <1>1. /\ idle'[k] = idle[k] \ S
        /\ \A l \in Keys \ {k} : idle'[l] = idle[l]
    BY <1>0 DEF TypeOK, Pop
  <1>2. \A l \in Keys : Results(l)' = Results(l)
    BY DEF Results
  <1>3. Pooled' = Pooled \ S /\ S \subseteq Pooled
    BY <1>0, PopMoves
  <1>4. Pending' = Pending
    BY <1>2 DEF Pending
  <1>5. S \cap Results(k) = {}
    BY <1>0, <1>3 DEF HoldersDisjoint, Pending
  <1>6. KeptBar' = [KeptBar EXCEPT ![k] = @ \ S]
    <2>1. \A l \in Keys : idle'[l] \cup Results(l)' = IF l = k THEN (idle[k] \cup Results(k)) \ S
                                                            ELSE idle[l] \cup Results(l)
      BY <1>1, <1>2, <1>5
    <2> QED
      BY <2>1 DEF KeptBar
  <1>7. StaleBar' = StaleBar \ S
    <2>1. \A s \in Sock \ S : age'[s] = age[s]
      BY DEF Stamp
    <2>2. Pooled \subseteq Sock /\ Pending \subseteq Sock
      BY <1>0 DEF TypeOK, Pooled, Pending, Results
    <2>3. S \cap Pending = {}
      BY <1>0, <1>3 DEF HoldersDisjoint
    <2> QED
      BY <1>3, <1>4, <2>1, <2>2, <2>3 DEF StaleBar, Spoiled
  <1>8. S \subseteq KeptBar[k]
    BY DEF KeptBar
  <1> QED
    BY <1>6, <1>7, <1>8

(* SocketPool counts as this module does.                                  *)
LEMMA SameCardinality ==
  ASSUME NEW S
  PROVE  Contract!Cardinality(S) = Cardinality(S)
  BY DEF Contract!Cardinality, Cardinality, Contract!IsFiniteSet, IsFiniteSet

(* A finished connect takes the place of a running one.                    *)
LEMMA RoomForOne ==
  ASSUME Safe, NEW k \in Keys, NEW i \in Slots, conn[k][i] = Running
  PROVE  Cardinality(KeptBar[k]) < PoolSize
  <1> DEFINE Done == Outstanding(k) \ {i}
             T == {conn[k][j] : j \in Done}
             f == [j \in Done |-> conn[k][j]]
  <1>1. /\ TypeOK
        /\ Cardinality(idle[k]) + Cardinality(Outstanding(k)) <= PoolSize
    BY DEF Safe, PoolBounded
  <1>2. /\ IsFiniteSet(idle[k]) /\ Cardinality(idle[k]) \in Nat
        /\ IsFiniteSet(Outstanding(k)) /\ Cardinality(Outstanding(k)) \in Nat
    BY <1>1, IdleFinite, OutstandingFinite
  <1>3. i \in Outstanding(k)
    BY DEF Outstanding, Running, Unused
  <1>4. IsFiniteSet(Done) /\ Cardinality(Done) = Cardinality(Outstanding(k)) - 1
    BY <1>2, <1>3, FS_RemoveElement
  <1>5. f \in Surjection(Done, T)
    BY DEF Surjection
  <1>6. IsFiniteSet(T) /\ Cardinality(T) <= Cardinality(Done)
    BY <1>4, <1>5, FS_Surjection
  <1>7. Results(k) \in SUBSET T
    BY SockAssumption DEF Results, Outstanding
  <1> HIDE DEF T, f, Done
  <1>8. IsFiniteSet(Results(k)) /\ Cardinality(Results(k)) <= Cardinality(T)
    BY <1>6, <1>7, FS_Subset
  <1>9. IsFiniteSet(idle[k] \cap Results(k))
    BY <1>2, FS_Subset
  <1>10. Cardinality(KeptBar[k]) = Cardinality(idle[k]) + Cardinality(Results(k))
                                     - Cardinality(idle[k] \cap Results(k))
    BY <1>2, <1>8, FS_Union DEF KeptBar
  <1>11. /\ Cardinality(Results(k)) \in Nat /\ Cardinality(T) \in Nat
         /\ Cardinality(idle[k] \cap Results(k)) \in Nat
    BY <1>6, <1>8, <1>9, FS_CardinalityType
  <1> QED
    BY <1>1, <1>2, <1>4, <1>6, <1>8, <1>10, <1>11, PoolSizeAssumption

-----------------------------------------------------------------------------
(* The steps, by the part of the contract they keep.                       *)

(* A hit lends a socket and discards the stale ones before it.             *)
LEMMA HitLends ==
  ASSUME Safe, NEW k \in Keys, NEW u \in Sock, Hit(k, u)
  PROVE  \E D \in SUBSET Sock : Contract!Lend(k, u, D)
  <1>0. TypeOK
    BY DEF Safe
  <1>1. PICK D \in SUBSET idle[k] :
           Skipped(k, u, D) /\ Pop(k, D \cup {u}) /\ Retire(D) /\ Stamp(D \cup {u})
    BY DEF Hit
  <1>2. u \in idle[k] /\ Usable(u) /\ u \notin D
    BY <1>1 DEF Hit, FirstUsable, Skipped
  <1>3. conn' = conn /\ shut' = shut /\ inUse' = inUse \cup {u} /\ lost' = lost
    BY DEF Hit
  <1>4. /\ KeptBar' = [KeptBar EXCEPT ![k] = @ \ (D \cup {u})]
        /\ StaleBar' = StaleBar \ (D \cup {u})
        /\ D \cup {u} \subseteq KeptBar[k]
    BY <1>1, <1>2, <1>3, PopKept
  <1>5. u \notin StaleBar
    BY <1>0, <1>2, TimeAssumption DEF StaleBar, Spoiled, Usable, TypeOK
  <1>6. D \subseteq StaleBar
    <2>1. \A s \in D : s \in Sock /\ s \in Pooled /\ ~Usable(s)
      BY <1>0, <1>1 DEF Skipped, TypeOK, Pooled
    <2> QED
      BY <1>0, <2>1, TimeAssumption DEF StaleBar, Spoiled, Usable, TypeOK
  <1>7. RetiredBar' = RetiredBar \cup D
    BY <1>1, <1>3 DEF RetiredBar, Retire
  <1>8. D \in SUBSET Sock
    BY <1>0 DEF TypeOK
  <1>9. Contract!Lend(k, u, D)
    BY <1>3, <1>4, <1>5, <1>6, <1>7 DEF Contract!Lend
  <1> QED
    BY <1>8, <1>9

(* A miss and a rotation discard sockets.                                  *)
LEMMA MissAndRotateDiscard ==
  ASSUME Safe, NEW k \in Keys, Miss(k) \/ RotateWake(k)
  PROVE  \E D \in SUBSET Sock : Contract!Discard(k, D)
  <1>1. PICK D \in SUBSET idle[k] : Pop(k, D) /\ Retire(D) /\ Stamp(D)
    BY DEF Miss, RotateWake
  <1>2. conn' = conn /\ shut' = shut /\ inUse' = inUse /\ lost' = lost
    BY DEF Miss, RotateWake
  <1>3. /\ KeptBar' = [KeptBar EXCEPT ![k] = @ \ D]
        /\ StaleBar' = StaleBar \ D
        /\ D \subseteq KeptBar[k]
    BY <1>1, <1>2, PopKept
  <1>4. RetiredBar' = RetiredBar \cup D
    BY <1>1, <1>2 DEF RetiredBar, Retire
  <1>5. D \in SUBSET Sock
    BY DEF Safe, TypeOK
  <1> QED
    BY <1>2, <1>3, <1>4, <1>5 DEF Contract!Discard

(* A connect that succeeds adds a socket.                                  *)
LEMMA ConnectAdds ==
  ASSUME Safe, NEW k \in Keys, NEW i \in Slots, ConnectOk(k, i)
  PROVE  \E s \in Sock : Contract!Add(k, s)
  <1>0. TypeOK /\ Aged /\ ShutOpen /\ open = Pooled \cup Pending \cup inUse \cup closing \cup lost
    BY DEF Safe, NoOrphan
  <1>1. PICK s \in Sock \ open : conn' = [conn EXCEPT ![k][i] = s] /\ open' = open \cup {s}
    BY DEF ConnectOk
  <1>2. /\ conn'[k] = [conn[k] EXCEPT ![i] = s]
        /\ \A l \in Keys \ {k} : conn'[l] = conn[l]
        /\ conn[k][i] \notin Sock
    <2>1. conn \in [Keys -> [Slots -> Sock \cup {Running, Failed, Unused}]]
      BY <1>0 DEF TypeOK
    <2>2. conn[k][i] \notin Sock
      BY SockAssumption DEF ConnectOk
    <2> QED
      BY <1>1, <2>1, <2>2
  <1>3. Results(k)' = Results(k) \cup {s}
    <2>1. \A j \in Slots : conn'[k][j] = IF j = i THEN s ELSE conn[k][j]
      BY <1>0, <1>2 DEF TypeOK
    <2> QED
      BY <1>2, <2>1 DEF Results
  <1>4. \A l \in Keys \ {k} : Results(l)' = Results(l)
    BY <1>2 DEF Results
  <1>5. idle' = idle /\ age' = age /\ shut' = shut
    BY DEF ConnectOk
  <1>6. KeptBar' = [KeptBar EXCEPT ![k] = @ \cup {s}]
    BY <1>3, <1>4, <1>5 DEF KeptBar
  <1>7. Pooled' = Pooled /\ Pending' = Pending \cup {s}
    BY <1>3, <1>4, <1>5 DEF Pooled, Pending
  <1>8. StaleBar' = StaleBar
    <2>1. ~Spoiled(s)
      BY <1>0, <1>1, TimeAssumption DEF Aged, ShutOpen, Spoiled
    <2> QED
      BY <1>5, <1>7, <2>1 DEF StaleBar, Spoiled
  <1>9. Cardinality(KeptBar[k]) < PoolSize
    BY RoomForOne DEF ConnectOk
  <1>10. UNCHANGED <<inUse, RetiredBar>>
    BY DEF ConnectOk, RetiredBar
  <1> QED
    BY <1>1, <1>6, <1>8, <1>9, <1>10, HeldOpen, SameCardinality DEF Contract!Add

(* A close ends a retired one.                                             *)
LEMMA CloseCloses ==
  ASSUME Safe, NEW s \in Sock, Close(s)
  PROVE  Contract!Close(s)
  <1>1. KeptBar' = KeptBar /\ Pooled' = Pooled /\ Pending' = Pending
    BY DEF Close, KeptBar, Results, Pooled, Pending, refillVars
  <1>2. s \notin Pooled \cup Pending
    BY DEF Safe, OneOwner, HoldersDisjoint, Close
  <1>3. StaleBar' = StaleBar
    BY <1>1, <1>2 DEF Close, StaleBar, Spoiled
  <1> QED
    BY <1>1, <1>3 DEF Close, Contract!Close, RetiredBar

(* The peer and the clock spoil sockets.                                   *)
LEMMA PeerAndClockSpoil ==
  ASSUME Safe, Tick \/ \E s \in Sock : PeerClose(s)
  PROVE  \E S \in SUBSET Sock : Contract!Spoil(S)
  <1>0. TypeOK /\ Aged
    BY DEF Safe
  <1>1. KeptBar' = KeptBar /\ Pooled' = Pooled /\ Pending' = Pending
    BY DEF Tick, PeerClose, KeptBar, Results, Pooled, Pending, refillVars
  <1>2. Pooled \subseteq Sock /\ Pending \subseteq Sock
    BY <1>0 DEF TypeOK, Pooled, Pending, Results
  <1>3. shut \subseteq shut' /\ \A s \in Sock : age'[s] >= age[s]
    BY <1>0, TimeAssumption DEF TypeOK, Tick, PeerClose, Min2
  <1>4. StaleBar \subseteq StaleBar'
    <2>1. \A s \in Sock : age[s] > MaxAge => age'[s] > MaxAge
      BY <1>0, TimeAssumption DEF TypeOK, Tick, PeerClose, Min2
    <2> QED
      BY <1>1, <1>2, <1>3, <2>1 DEF StaleBar, Spoiled
  <1>5. StaleBar' \subseteq Pooled \cup Pending /\ StaleBar' \subseteq Sock
    BY <1>1, <1>2 DEF StaleBar
  <1>6. UNCHANGED <<inUse, RetiredBar>>
    BY DEF Tick, PeerClose, RetiredBar
  <1>7. Contract!Spoil(StaleBar')
    BY <1>1, <1>4, <1>5, <1>6, AllKept DEF Contract!Spoil, Contract!AllPooled
  <1> QED
    BY <1>5, <1>7

(* A restart retires all that are pooled.                                  *)
LEMMA RestartResets ==
  ASSUME Safe, Restart
  PROVE  Contract!Reset
  <1>1. \A k \in Keys : idle'[k] = {} /\ Results(k)' = {}
    BY SockAssumption DEF Restart, Results
  <1>2. Pooled' = {} /\ Pending' = {}
    BY <1>1 DEF Pooled, Pending
  <1>3. KeptBar' = [k \in Keys |-> {}] /\ StaleBar' = {}
    BY <1>1, <1>2 DEF KeptBar, StaleBar
  <1>4. RetiredBar' = RetiredBar \cup Pooled \cup Pending /\ inUse' = {}
    BY DEF Restart, RetiredBar
  <1> QED
    BY <1>3, <1>4, AllKept DEF Contract!Reset, Contract!AllPooled

(* The tasks move results from connects to deques, unseen.                 *)
LEMMA CollectUnseen ==
  ASSUME Safe, NEW k \in Keys, RefillCollect(k)
  PROVE  UNCHANGED <<KeptBar, StaleBar, inUse, RetiredBar>>
  <1>0. TypeOK /\ HoldersDisjoint /\ Aged
    BY DEF Safe, OneOwner
  <1> DEFINE got == Gained(k)
  <1>1. /\ idle'[k] = idle[k] \cup got
        /\ \A l \in Keys \ {k} : idle'[l] = idle[l] /\ conn'[l] = conn[l]
        /\ \A i \in Slots : conn'[k][i] = IF i \in Settled(k) THEN Unused ELSE conn[k][i]
    BY <1>0 DEF TypeOK, RefillCollect
  <1>2. got \subseteq Results(k)
    BY DEF Gained, Settled, Outstanding, Results
  <1>3. Results(k)' \cup got = Results(k)
    <2>1. Results(k)' \subseteq Results(k)
      BY <1>1, SockAssumption DEF Results
    <2>2. ASSUME NEW x \in Results(k), x \notin got PROVE x \in Results(k)'
      <3>1. PICK i \in Slots : conn[k][i] = x /\ x \in Sock
        BY DEF Results
      <3>2. i \notin Settled(k)
        BY <2>2, <3>1 DEF Gained
      <3> QED
        BY <1>1, <3>1, <3>2 DEF Results
    <2> QED
      BY <1>2, <2>1, <2>2
  <1>4. \A l \in Keys \ {k} : Results(l)' = Results(l)
    BY <1>1 DEF Results
  <1>5. \A s \in got : age[s] = 0
    BY <1>0, <1>2 DEF HoldersDisjoint, Pending, Aged, Results
  <1>6. age' = age
    <2>1. age' = [s \in Sock |-> IF s \in got THEN 0 ELSE age[s]]
      BY DEF RefillCollect, Stamp
    <2> QED
      BY <1>0, <1>5, <2>1 DEF TypeOK
  <1> HIDE DEF got
  <1>7. \A l \in Keys : idle'[l] \cup Results(l)' = idle[l] \cup Results(l)
    BY <1>1, <1>2, <1>3, <1>4
  <1>8. KeptBar' = KeptBar
    BY <1>7 DEF KeptBar
  <1>9. Pooled' \cup Pending' = Pooled \cup Pending
    BY <1>7 DEF Pooled, Pending
  <1>10. shut' = shut /\ inUse' = inUse /\ RetiredBar' = RetiredBar
    BY DEF RefillCollect, RetiredBar
  <1> QED
    BY <1>6, <1>8, <1>9, <1>10 DEF StaleBar, Spoiled

(* Nor does the contract see any step that hands out and retires nothing.  *)
LEMMA SameSockets ==
  ASSUME UNCHANGED <<idle, age, shut, inUse, closing, lost>>,
         \A k \in Keys : Results(k)' = Results(k)
  PROVE  UNCHANGED <<KeptBar, StaleBar, inUse, RetiredBar>>
  <1>1. KeptBar' = KeptBar
    BY DEF KeptBar
  <1>2. Pooled' = Pooled /\ Pending' = Pending
    BY DEF Pooled, Pending
  <1> QED
    BY <1>1, <1>2 DEF StaleBar, Spoiled, RetiredBar

(* What else the tasks do is not seen from outside.                        *)
LEMMA TasksUnseen ==
  ASSUME Safe, NEW k \in Keys,
         \/ ReportSuccess(k) \/ RefillStart(k) \/ RotateStart(k)
         \/ \E i \in Slots : ConnectFail(k, i)
  PROVE  UNCHANGED <<KeptBar, StaleBar, inUse, RetiredBar>>
  <1>0. TypeOK /\ SingleFlight
    BY DEF Safe
  <1>1. UNCHANGED <<idle, age, shut, inUse, closing, lost>>
    BY DEF ReportSuccess, RefillStart, RotateStart, ConnectFail, sockVars
  <1>2. CASE conn' = conn
    BY <1>1, <1>2, SameSockets DEF Results
  <1>3. CASE RefillStart(k)
    <2>1. \A i \in Slots : conn[k][i] \notin Sock
      BY <1>0, <1>3, SockAssumption DEF RefillStart, SingleFlight, Outstanding
    <2>2. \A i \in Slots : conn'[k][i] \notin Sock
      BY <1>0, <1>3, <2>1, SockAssumption DEF TypeOK, RefillStart
    <2>3. \A l \in Keys \ {k} : conn'[l] = conn[l]
      BY <1>0, <1>3 DEF TypeOK, RefillStart
    <2>4. \A l \in Keys : Results(l)' = Results(l)
      BY <2>1, <2>2, <2>3 DEF Results
    <2> QED
      BY <1>1, <2>4, SameSockets
  <1>4. ASSUME NEW i \in Slots, ConnectFail(k, i)
        PROVE  UNCHANGED <<KeptBar, StaleBar, inUse, RetiredBar>>
    <2>1. /\ conn[k][i] \notin Sock /\ conn'[k][i] \notin Sock
          /\ \A l \in Keys, j \in Slots : l # k \/ j # i => conn'[l][j] = conn[l][j]
      BY <1>0, <1>4, SockAssumption DEF TypeOK, ConnectFail
    <2>2. \A l \in Keys : Results(l)' = Results(l)
      BY <2>1 DEF Results
    <2> QED
      BY <1>1, <2>2, SameSockets
  <1> QED
    BY <1>2, <1>3, <1>4 DEF ReportSuccess, RotateStart, refillVars

-----------------------------------------------------------------------------
(* Every step is one of the contract, or a stutter.                        *)
LEMMA ContractStep == Safe /\ [Next]_vars => [Contract!Next]_Contract!vars
  <1> SUFFICES ASSUME Safe, [Next]_vars PROVE Contract!Next \/ UNCHANGED Contract!vars
    OBVIOUS
  <1>1. ASSUME NEW k \in Keys, Get(k) PROVE Contract!Next
    <2>1. CASE Miss(k)
      BY <2>1, MissAndRotateDiscard DEF Contract!Next
    <2>2. ASSUME NEW u \in Sock, Hit(k, u) PROVE Contract!Next
      BY <2>2, HitLends DEF Contract!Next
    <2> QED
      BY <1>1, <2>1, <2>2 DEF Get
  <1>2. ASSUME NEW k \in Keys, RotateWake(k) PROVE Contract!Next
    BY <1>2, MissAndRotateDiscard DEF Contract!Next
  <1>3. ASSUME NEW k \in Keys, NEW i \in Slots, ConnectOk(k, i) PROVE Contract!Next
    BY <1>3, ConnectAdds DEF Contract!Next
  <1>4. ASSUME NEW s \in Sock, Close(s) PROVE Contract!Next
    BY <1>4, CloseCloses DEF Contract!Next
  <1>5. CASE Tick \/ \E s \in Sock : PeerClose(s)
    BY <1>5, PeerAndClockSpoil DEF Contract!Next
  <1>6. CASE Restart
    BY <1>6, RestartResets DEF Contract!Next
  <1>7. ASSUME NEW k \in Keys,
               \/ ReportSuccess(k) \/ RefillStart(k) \/ RotateStart(k)
               \/ \E i \in Slots : ConnectFail(k, i)
        PROVE  UNCHANGED Contract!vars
    BY <1>7, TasksUnseen DEF Contract!vars
  <1>8. ASSUME NEW k \in Keys, RefillCollect(k) PROVE UNCHANGED Contract!vars
    BY <1>8, CollectUnseen DEF Contract!vars
  <1>9. CASE Warmup \/ UNCHANGED vars
    <2>1. UNCHANGED <<idle, age, shut, inUse, closing, lost, conn>>
      BY <1>9 DEF Warmup, vars, sockVars, refillVars
    <2> QED
      BY <2>1, SameSockets DEF Results, Contract!vars
  <1> QED
    BY <1>1, <1>2, <1>3, <1>4, <1>5, <1>6, <1>7, <1>8, <1>9 DEF Next

(* The pool never lends a connection twice, never lends one that went      *)
(* stale, and never exceeds its bound: class _WsPool implements what       *)
(* SocketPool promises its callers.                                        *)
THEOREM ContractKept == Spec => PoolContract
  <1>1. Init => Contract!Init
    <2> SUFFICES ASSUME Init PROVE Contract!Init
      OBVIOUS
    <2>1. \A k \in Keys : idle[k] = {} /\ Results(k) = {}
      BY SockAssumption DEF Init, Results
    <2>2. KeptBar = [k \in Keys |-> {}] /\ StaleBar = {}
      BY <2>1 DEF KeptBar, StaleBar, Pooled, Pending
    <2> QED
      BY <2>2 DEF Init, Contract!Init, RetiredBar
  <1> QED
    BY <1>1, ContractStep, SafeHolds, PTL DEF Spec, PoolContract, Contract!Spec
=============================================================================
