-------------------------- MODULE CfFallbackProofs --------------------------
(***************************************************************************)
(* Theorems about CfFallback, for any number of clients, workers, DCs and   *)
(* refresh threads and any lists of domains: OwnDomains, TriesAll, and that *)
(* the pool of worker connections implements SocketPool.                   *)
(***************************************************************************)
EXTENDS CfFallback, FiniteSetTheorems, TLAPS

(* The functions among the variables, with the domains they have.          *)
LoopPlaces == {"start", "build", "store", "installed", "idle"}
States == {"idle", "workers", "first", "rest", "session", "failed"}
Shape ==
  /\ at \in [Updaters -> Places] /\ choice = [u \in Updaters |-> choice[u]]
  /\ pc \in [Client -> States] /\ todo = [c \in Client |-> todo[c]]
  /\ tried = [c \in Client |-> tried[c]] /\ lists = [c \in Client |-> lists[c]]
  /\ current = [c \in Client |-> current[c]]
  /\ events \in Nat /\ (~own => events # Loop)
  /\ at[Loop] \in LoopPlaces

(* While the user's own domains are in force and no download is late, no   *)
(* refresh thread is past its check, and nobody holds any other domain.    *)
(* The default list and the downloads differ from the user's, so that a    *)
(* run with own domains replaces the DC's entry together with the list.    *)
OwnInv ==
  /\ ~own /\ at[Loop] # "start" => domains # Own
  /\ own /\ ~late =>
       /\ \A t \in Refreshers : at[t] \notin Installing
       /\ at[Loop] # "start" => domains = Own
       /\ at[Loop] \notin {"build", "store"} /\ domains = Own => dcDomain \in Own
       /\ at[Loop] = "store" => choice[Loop] \in Own
       /\ \A c \in Client : pc[c] \in {"first", "rest"} => todo[c] \subseteq Own
  /\ \A c \in Client : pc[c] # "idle" => Serving

(* What a client has not tried yet of the list it read last.               *)
TriesInv ==
  \A c \in Client :
    /\ pc[c] = "first" => domains \in lists[c] /\ todo[c] = {current[c]}
    /\ pc[c] = "rest" => \E L \in lists[c] : L \subseteq tried[c] \cup todo[c]
    /\ pc[c] = "failed" => \E L \in lists[c] : L \subseteq tried[c]

-----------------------------------------------------------------------------
(* The shape.                                                              *)
LEMMA UpdatersKinds ==
  /\ Loop \in Updaters /\ Refreshers \subseteq Updaters
  /\ \A u \in Updaters : u \in Refreshers \/ u = Loop
  /\ Loop \notin Refreshers
  BY DEF Updaters, Refreshers, Loop

(* Every step keeps the shape of the variables.                            *)
LEMMA ShapeNext == Shape /\ [Next]_vars => Shape'
<1> SUFFICES ASSUME Shape, [Next]_vars PROVE Shape'
  OBVIOUS
<1> USE DEF domainVars, clientVars, LoopPlaces, Places, States
<1>a. ASSUME NEW u \in Updaters, UpdaterStep(u), UNCHANGED <<pc, todo, tried, current>>,
             lists' = [c \in Client |-> lists'[c]]
      PROVE  Shape'
  <2> DEFINE AtFits == /\ at' \in [Updaters -> Places]
                       /\ at'[Loop] \in LoopPlaces
  <2>1. AtFits
    <3>1. ASSUME NEW from, NEW to \in Places, At(u, from, to),
                 u = Loop => to \in LoopPlaces
          PROVE  AtFits
      BY <3>1, UpdatersKinds DEF At, Shape
    <3>2. CASE Build(u) \/ Store(u)
      BY <3>1, <3>2 DEF Build, Store, After
    <3>3. CASE u # Loop /\ (Check(u) \/ Fetched(u) \/ Useless(u) \/ Wait(u))
      BY <3>1, <3>3 DEF Check, Fetched, Install, Useless, Wait, After
    <3>4. CASE u = Loop /\ (InstallOwn \/ InstallDefault)
      BY <3>1, <3>4 DEF InstallOwn, InstallDefault, Install, After
    <3>5. CASE Installed
      BY <3>5, UpdatersKinds DEF Installed, Shape
    <3> QED
      BY <1>a, <3>2, <3>3, <3>4, <3>5 DEF UpdaterStep
  <2>2. choice' = [v \in Updaters |-> choice'[v]] /\ UNCHANGED <<events, own>>
    BY <1>a
    DEF Shape, UpdaterStep, Build, Store, Check, Fetched, Useless, Wait, InstallOwn, InstallDefault,
        Installed, Install
  <2> QED
    BY <1>a, <2>1, <2>2 DEF Shape
<1>b. ASSUME NEW c \in Client, ClientStep(c) PROVE Shape'
  <2>1. UNCHANGED <<own, at, choice, events>>
    BY <1>b DEF ClientStep, Ask, WorkerAnswers, WorkerFails, DomainAnswers, DomainFails, Leaves, Prefer
  <2>2. pc' \in [Client -> States] /\ todo' = [d \in Client |-> todo'[d]]
    <3>1. \E state \in States : \E rest : Becomes(c, state, rest)
      BY <1>b DEF ClientStep, Ask, WorkerAnswers, WorkerFails, DomainAnswers, DomainFails, Leaves, FirstDomain
    <3> QED
      BY <3>1 DEF Becomes, Shape
  <2>3. /\ tried' = [d \in Client |-> tried'[d]] /\ lists' = [d \in Client |-> lists'[d]]
        /\ current' = [d \in Client |-> current'[d]]
    BY <1>b DEF Shape, ClientStep, Ask, WorkerAnswers, WorkerFails, DomainAnswers, DomainFails, Leaves,
                FirstDomain
  <2> QED
    BY <2>1, <2>2, <2>3 DEF Shape
<1>1. CASE \E c \in Client : ClientStep(c)
  BY <1>1, <1>b
<1>2. CASE PoolWorks \/ QuietClose \/ UNCHANGED vars
  BY <1>2 DEF PoolWorks, QuietClose, vars, Shape
<1>3. CASE OtherClient
  BY <1>3 DEF OtherClient, Prefer, Shape
<1>4. CASE Restart
  <2>1. PICK toOwn \in BOOLEAN : NewRun(toOwn)
    BY <1>4 DEF Restart
  <2>2. at' = [at EXCEPT ![Loop] = "start"] /\ UNCHANGED choice
    BY <2>1 DEF NewRun, Restarting
  <2>3. events' \in Nat /\ (~own' => events' # Loop)
    BY <2>1 DEF NewRun, Restarting, Shape, Refreshers, Loop
  <2>4. at' \in [Updaters -> Places] /\ at'[Loop] = "start"
    BY <2>2, UpdatersKinds DEF Shape
  <2>5. /\ pc' \in [Client -> States] /\ todo' = [c \in Client |-> todo'[c]]
        /\ tried' = [c \in Client |-> tried'[c]] /\ lists' = [c \in Client |-> lists'[c]]
        /\ current' = [c \in Client |-> current'[c]]
    BY <1>4 DEF Restart
  <2> QED
    BY <2>2, <2>3, <2>4, <2>5 DEF Shape
<1>5. ASSUME NEW u \in Updaters, ListChanges(u) PROVE Shape'
  BY <1>5, <1>a DEF ListChanges, Watch
<1> QED
  BY <1>1, <1>2, <1>3, <1>4, <1>5 DEF Next

-----------------------------------------------------------------------------
(* The user's own domains.                                                 *)
LEMMA OwnUpdater ==
  ASSUME Shape, OwnInv, NEW u \in Updaters, UpdaterStep(u), UNCHANGED <<pc, todo>>
  PROVE  OwnInv'
<1>0. UNCHANGED <<own, late>>
  BY DEF UpdaterStep, Build, Store, Check, Fetched, Useless, Wait, InstallOwn, InstallDefault,
         Installed, Install
<1>1. Serving => Serving'
  BY UpdatersKinds
  DEF Shape, Serving, UpdaterStep, Build, Store, Check, Fetched, Useless, Wait, InstallOwn,
      InstallDefault, Installed, Install, At
<1>2. ~own /\ at'[Loop] # "start" => domains' # Own
  BY <1>0, OwnAssumption, UpdatersKinds
  DEF OwnInv, Shape, UpdaterStep, Build, Store, Check, Fetched, Useless, Wait, InstallOwn,
      InstallDefault, Installed, Install, At
<1>3. ASSUME own, ~late
      PROVE  /\ \A t \in Refreshers : at'[t] \notin Installing
             /\ at'[Loop] # "start" => domains' = Own
             /\ at'[Loop] \notin {"build", "store"} /\ domains' = Own => dcDomain' \in Own
             /\ at'[Loop] = "store" => choice'[Loop] \in Own
  <2>0. /\ \A t \in Refreshers : at[t] \notin Installing
        /\ at[Loop] # "start" => domains = Own
        /\ at[Loop] \notin {"build", "store"} /\ domains = Own => dcDomain \in Own
        /\ at[Loop] = "store" => choice[Loop] \in Own
    BY <1>3 DEF OwnInv
  <2>1. CASE u \in Refreshers
    <3>1. Check(u) \/ Wait(u)
      BY <2>0, <2>1, UpdatersKinds
      DEF UpdaterStep, Installing, Build, Store, Fetched, Useless, Install, At
    <3>2. /\ UNCHANGED <<domains, dcDomain, choice>> /\ at'[Loop] = at[Loop]
          /\ \A t \in Refreshers : at'[t] \notin Installing
      BY <1>3, <2>0, <2>1, <3>1, UpdatersKinds DEF Check, Wait, At, Shape, Installing
    <3> QED
      BY <2>0, <3>2
  <2>2. CASE u = Loop
    <3>1. \A t \in Refreshers : at'[t] = at[t]
      BY <1>3, <2>2, UpdatersKinds
      DEF UpdaterStep, Build, Store, InstallOwn, InstallDefault, Installed, Install, At, Shape
    <3>2. CASE Build(u)
      BY <2>0, <2>2, <3>1, <3>2, UpdatersKinds DEF Build, At, Shape
    <3>3. CASE Store(u)
      BY <2>0, <2>2, <3>1, <3>3, UpdatersKinds DEF Store, At, After, Shape
    <3>4. CASE InstallOwn
      BY <2>0, <2>2, <3>1, <3>4, UpdatersKinds DEF InstallOwn, Install, At, After, Shape
    <3>5. CASE Installed
      BY <1>3, <2>0, <2>2, <3>1, <3>5, UpdatersKinds DEF Installed, Shape
    <3> QED
      BY <1>3, <2>2, <3>2, <3>3, <3>4, <3>5 DEF UpdaterStep, InstallDefault
  <2> QED
    BY <2>1, <2>2, UpdatersKinds
<1> QED
  BY <1>0, <1>1, <1>2, <1>3 DEF OwnInv

(* A client chooses from the list and changes only the entry of its DC.    *)
LEMMA OwnClient ==
  ASSUME Shape, OwnInv, NEW c \in Client, ClientStep(c)
  PROVE  OwnInv'
<1> USE DEF domainVars
<1>0. UNCHANGED <<own, late, at, domains, choice>>
  BY DEF ClientStep, Ask, WorkerAnswers, WorkerFails, DomainAnswers, DomainFails, Leaves, Prefer
<1>1. Serving
  BY DEF OwnInv, Serving, ClientStep, Ask, WorkerAnswers, WorkerFails, DomainAnswers, DomainFails, Leaves
<1>2. \A d \in Client : d # c => pc'[d] = pc[d] /\ todo'[d] = todo[d]
  BY DEF Shape, ClientStep, Ask, WorkerAnswers, WorkerFails, DomainAnswers, DomainFails, Leaves,
         Becomes, FirstDomain
<1>3. own /\ ~late => domains = Own /\ dcDomain \in Own
  BY <1>1 DEF OwnInv, Serving
<1> DEFINE OwnOnly == own /\ ~late => /\ dcDomain' \in Own
                                      /\ pc'[c] \in {"first", "rest"} => todo'[c] \subseteq Own
<1>4. OwnOnly
  <2>1. CASE Ask(c)
    BY <1>3, <2>1 DEF Ask, FirstDomain, Becomes, Shape
  <2>2. CASE WorkerAnswers(c) \/ Leaves(c)
    BY <1>3, <2>2 DEF WorkerAnswers, Leaves, Becomes, Shape
  <2>3. CASE \E w \in workers : WorkerFails(c, w)
    BY <1>3, <2>3 DEF WorkerFails, FirstDomain, Becomes, Shape
  <2>4. ASSUME NEW d \in todo[c], DomainAnswers(c, d) PROVE OwnOnly
    BY <1>3, <2>4 DEF DomainAnswers, Prefer, Becomes, Shape, OwnInv
  <2>5. ASSUME NEW d \in todo[c], DomainFails(c, d) PROVE OwnOnly
    BY <1>3, <2>5 DEF DomainFails, OtherDomains, Becomes, Shape, OwnInv
  <2> QED
    BY <2>1, <2>2, <2>3, <2>4, <2>5 DEF ClientStep
<1> QED
  BY <1>0, <1>1, <1>2, <1>3, <1>4 DEF OwnInv, Serving

(* A restart begins a run with the list of the user or without.            *)
LEMMA OwnRestart == ASSUME Shape, OwnInv, Restart PROVE OwnInv'
<1>1. PICK toOwn \in BOOLEAN : NewRun(toOwn)
  BY DEF Restart
<1>2. /\ own' = toOwn /\ late' = (toOwn /\ (late \/ \E t \in Refreshers : at[t] \in Installing))
      /\ UNCHANGED <<domains, dcDomain, choice>>
      /\ at' = [at EXCEPT ![Loop] = "start"] /\ at[Loop] = "idle"
  BY <1>1 DEF NewRun, Restarting, Serving
<1>3. at'[Loop] = "start" /\ \A t \in Refreshers : at'[t] = at[t]
  BY <1>2, UpdatersKinds DEF Shape
<1>4. \A c \in Client : pc'[c] = "idle"
  BY DEF Restart
<1>5. own' /\ ~late' => /\ ~late /\ \A t \in Refreshers : at[t] \notin Installing
  BY <1>2
<1>6. own' /\ ~late' /\ domains = Own => dcDomain \in Own
  BY <1>2, <1>5 DEF OwnInv
<1> QED
  BY <1>2, <1>3, <1>4, <1>5, <1>6 DEF OwnInv

(* Every step.                                                             *)
LEMMA OwnNext == Shape /\ OwnInv /\ [Next]_vars => OwnInv'
<1> SUFFICES ASSUME Shape, OwnInv, [Next]_vars PROVE OwnInv'
  OBVIOUS
<1> USE DEF domainVars, clientVars
<1>1. CASE PoolWorks \/ QuietClose \/ UNCHANGED vars
  BY <1>1 DEF PoolWorks, QuietClose, vars, OwnInv, Serving
<1>2. CASE OtherClient
  BY <1>2 DEF OtherClient, Prefer, OwnInv, Serving
<1>3. ASSUME NEW u \in Updaters, ListChanges(u) PROVE OwnInv'
  BY <1>3, OwnUpdater DEF ListChanges
<1> QED
  BY <1>1, <1>2, <1>3, OwnClient, OwnRestart DEF Next

(* A new process.                                                          *)
LEMMA ShapeInit == Init => Shape
<1> SUFFICES ASSUME Init PROVE Shape
  OBVIOUS
<1> USE DEF LoopPlaces, Places, States
<1>1. /\ at \in [Updaters -> Places] /\ at[Loop] = "start"
      /\ choice = [u \in Updaters |-> choice[u]]
  BY UpdatersKinds DEF Init, DomainInit
<1>2. events \in Nat /\ (~own => events # Loop)
  BY DEF Init, DomainInit, Loop
<1>3. /\ pc \in [Client -> States] /\ todo = [c \in Client |-> todo[c]]
      /\ tried = [c \in Client |-> tried[c]] /\ lists = [c \in Client |-> lists[c]]
      /\ current = [c \in Client |-> current[c]]
  BY DEF Init, NoClients
<1> QED
  BY <1>1, <1>2, <1>3 DEF Shape

(* It keeps OwnInv.                                                        *)
LEMMA OwnInit == Init => OwnInv
  BY DomainAssumption DEF Init, DomainInit, NoClients, OwnInv, Updaters, Loop, Refreshers, Installing

(* A run with domains of the user's own uses no other ones, however many   *)
(* refresh threads still run, unless one of them was downloading when the  *)
(* run began.                                                              *)
THEOREM OwnDomainsHolds == Spec => []OwnDomains
<1>1. OwnInv => OwnDomains
  BY DEF OwnInv, OwnDomains, Serving
<1> QED
  BY <1>1, ShapeInit, OwnInit, ShapeNext, OwnNext, PTL DEF Spec
-----------------------------------------------------------------------------
(* No domain of the list is left out.                                      *)
LEMMA TriesClient ==
  ASSUME Shape, TriesInv, NEW c \in Client, ClientStep(c) PROVE TriesInv'
<1> USE DEF domainVars
<1>1. /\ domains' = domains
      /\ \A d \in Client : d # c => /\ pc'[d] = pc[d] /\ todo'[d] = todo[d] /\ current'[d] = current[d]
                                    /\ tried'[d] = tried[d] /\ lists'[d] = lists[d]
  <2>1. domains' = domains
    BY DEF ClientStep, Ask, WorkerAnswers, WorkerFails, DomainAnswers, DomainFails, Leaves, Prefer
  <2>2. \A d \in Client : d # c => pc'[d] = pc[d] /\ todo'[d] = todo[d]
    BY DEF Shape, ClientStep, Ask, WorkerAnswers, WorkerFails, DomainAnswers, DomainFails, Leaves,
           Becomes, FirstDomain
  <2>3. \A d \in Client : d # c => /\ current'[d] = current[d] /\ tried'[d] = tried[d]
                                   /\ lists'[d] = lists[d]
    BY DEF Shape, ClientStep, Ask, WorkerAnswers, WorkerFails, DomainAnswers, DomainFails, Leaves,
           FirstDomain
  <2> QED
    BY <2>1, <2>2, <2>3
<1> DEFINE Fits == /\ pc'[c] = "first" => domains' \in lists'[c] /\ todo'[c] = {current'[c]}
                   /\ pc'[c] = "rest" => \E L \in lists'[c] : L \subseteq tried'[c] \cup todo'[c]
                   /\ pc'[c] = "failed" => \E L \in lists'[c] : L \subseteq tried'[c]
<1>2. ASSUME FirstDomain(c), domains' = domains PROVE Fits
  BY <1>2 DEF FirstDomain, Becomes, Shape
<1>3. ASSUME NEW state \in {"session", "workers", "idle"}, NEW rest, Becomes(c, state, rest) PROVE Fits
  BY <1>3 DEF Becomes, Shape
<1>4. ASSUME NEW d \in todo[c], DomainFails(c, d) PROVE Fits
  <2>1. /\ tried'[c] = tried[c] \cup {d} /\ lists'[c] = lists[c]
        /\ pc[c] \in {"first", "rest"}
    BY <1>4 DEF DomainFails, Shape
  <2>2. CASE pc[c] = "first"
    <3>1. /\ d = current[c] /\ domains \in lists[c]
      BY <2>2 DEF TriesInv
    <3>2. /\ pc'[c] \in {"failed", "rest"} /\ todo'[c] = domains \ {current[c]}
          /\ pc'[c] = "failed" => domains \ {current[c]} = {}
      BY <1>4, <2>2 DEF DomainFails, OtherDomains, Becomes, Shape
    <3>3. domains \subseteq tried'[c] \cup todo'[c] /\ (pc'[c] = "failed" => domains \subseteq tried'[c])
      BY <2>1, <3>1, <3>2
    <3> QED
      BY <2>1, <3>1, <3>2, <3>3
  <2>3. CASE pc[c] = "rest"
    <3>1. PICK L \in lists[c] : L \subseteq tried[c] \cup todo[c]
      BY <2>3 DEF TriesInv
    <3>2. /\ pc'[c] \in {"failed", "rest"} /\ todo'[c] = todo[c] \ {d}
          /\ pc'[c] = "failed" => todo[c] \ {d} = {}
      BY <1>4, <2>3 DEF DomainFails, Becomes, Shape
    <3>3. L \subseteq tried'[c] \cup todo'[c] /\ (pc'[c] = "failed" => L \subseteq tried'[c])
      BY <2>1, <3>1, <3>2
    <3> QED
      BY <2>1, <3>1, <3>2, <3>3
  <2> QED
    BY <2>1, <2>2, <2>3
<1>5. Fits
  <2>1. CASE Ask(c)
    BY <1>1, <1>2, <1>3, <2>1 DEF Ask
  <2>2. CASE WorkerAnswers(c) \/ Leaves(c)
    BY <1>3, <2>2 DEF WorkerAnswers, Leaves
  <2>3. CASE \E w \in workers : WorkerFails(c, w)
    BY <1>1, <1>2, <1>3, <2>3 DEF WorkerFails
  <2>4. CASE \E d \in todo[c] : DomainAnswers(c, d)
    BY <1>3, <2>4 DEF DomainAnswers
  <2> QED
    BY <1>4, <2>1, <2>2, <2>3, <2>4 DEF ClientStep
<1> QED
  BY <1>1, <1>5 DEF TriesInv

(* Every step keeps what a client has tried and has left.                  *)
LEMMA TriesNext == Shape /\ TriesInv /\ [Next]_vars => TriesInv'
<1> SUFFICES ASSUME Shape, TriesInv, [Next]_vars PROVE TriesInv'
  OBVIOUS
<1> USE DEF domainVars, clientVars
<1>1. CASE PoolWorks \/ QuietClose \/ OtherClient \/ UNCHANGED vars
  BY <1>1 DEF PoolWorks, QuietClose, OtherClient, Prefer, vars, TriesInv
<1>2. CASE Restart
  BY <1>2 DEF Restart, TriesInv
<1>3. ASSUME NEW u \in Updaters, ListChanges(u) PROVE TriesInv'
  <2>1. /\ UNCHANGED <<pc, todo, current, tried>>
        /\ \A c \in Client : lists'[c] = IF pc[c] \in {"first", "rest"} THEN lists[c] \cup {domains'}
                                                                       ELSE lists[c]
    BY <1>3 DEF ListChanges, Watch
  <2> QED
    BY <2>1 DEF TriesInv
<1> QED
  BY <1>1, <1>2, <1>3, TriesClient DEF Next

(* A client that gives up has tried a whole list, whatever refreshes and   *)
(* other clients did while it tried.                                       *)
THEOREM TriesAllHolds == Spec => []TriesAll
<1>1. Init => TriesInv
  BY DEF Init, NoClients, TriesInv
<1>2. TriesInv => TriesAll
  BY DEF TriesInv, TriesAll
<1> QED
  BY <1>1, <1>2, ShapeInit, ShapeNext, TriesNext, PTL DEF Spec

-----------------------------------------------------------------------------
(* The pool of worker connections.                                         *)

(* What is still to be connected fits into the deque, and what a restart   *)
(* forgot stays forgotten.                                                 *)
PoolInv ==
  /\ idle \in [Dcs -> SUBSET Sock] /\ needed \in [Dcs -> Nat]
  /\ \A d \in Dcs : needed[d] \in 1..TargetSize => Cardinality(idle[d]) + needed[d] <= TargetSize
  /\ lost \cap (Idle \cup lent \cup closing) = {}
  /\ lent \cup closing \subseteq Sock

(* What a refill aims at is a number.                                      *)
LEMMA TargetNat == TargetSize \in Nat /\ New = TargetSize + 1
  BY WorkerAssumption DEF TargetSize, New

(* Fewer sockets count for less.                                           *)
LEMMA FewerIdle ==
  ASSUME NEW S \in SUBSET Sock, NEW T \in SUBSET S
  PROVE  Cardinality(S) \in Nat /\ Cardinality(T) \in Nat /\ Cardinality(T) <= Cardinality(S)
<1>1. IsFiniteSet(S)
  BY WorkerAssumption, FS_Subset
<1> QED
  BY <1>1, FS_Subset, FS_CardinalityType

(* The contract counts as the pool does.                                   *)
LEMMA SameCount ==
  ASSUME NEW S
  PROVE  Contract!Cardinality(S) = Cardinality(S)
  BY DEF Contract!Cardinality, Cardinality, Contract!IsFiniteSet, IsFiniteSet

(* The steps of the program as the pool sees them.                         *)
PoolStep ==
  \/ \E d \in Dcs, s \in Sock : \E D \in SUBSET stale : Hit(d, s, D)
  \/ \E d \in Dcs : Miss(d)
  \/ \E s \in lent \cup closing : Closed(s)
  \/ WorkerStep
  \/ WorkerRestart(Warmed)
  \/ UNCHANGED workerVars

(* A step is one of the worker pool, or leaves it alone.                   *)
LEMMA PoolSees == ASSUME [Next]_vars PROVE PoolStep
<1>1. ASSUME NEW c \in Client, ClientStep(c) PROVE PoolStep
  <2>1. CASE Ask(c)
    BY <2>1, FallbackAssumption DEF Ask, PoolStep
  <2>2. CASE Leaves(c)
    BY <2>2 DEF Leaves, PoolStep, Closed
  <2>3. CASE UNCHANGED workerVars
    BY <2>3 DEF PoolStep
  <2> QED
    BY <1>1, <2>1, <2>2, <2>3 DEF ClientStep, WorkerAnswers, WorkerFails, DomainAnswers, DomainFails
<1>2. CASE PoolWorks \/ QuietClose \/ OtherClient \/ UNCHANGED vars
  BY <1>2 DEF PoolWorks, QuietClose, OtherClient, vars, PoolStep
<1>3. CASE Restart
  BY <1>3 DEF Restart, PoolStep
<1>4. CASE \E u \in Updaters : ListChanges(u)
  BY <1>4 DEF ListChanges, PoolStep
<1> QED
  BY <1>1, <1>2, <1>3, <1>4 DEF Next

(* get() that finds a socket lends it and drops the stale ones before it.  *)
LEMMA PoolHit ==
  ASSUME PoolInv, NEW d \in Dcs, NEW s \in Sock, NEW D \in SUBSET stale, Hit(d, s, D)
  PROVE  PoolInv' /\ Contract!Lend(d, s, D)
<1> USE TargetNat
<1>1. /\ idle' = [idle EXCEPT ![d] = @ \ (D \cup {s})] /\ idle' \in [Dcs -> SUBSET Sock]
      /\ s \in idle[d] /\ D \subseteq idle[d]
      /\ stale' = stale \ D /\ s \notin stale
      /\ lent' = lent \cup {s} /\ closing' = closing \cup D /\ lost' = lost
  BY DEF Hit, PoolInv
<1>2. Idle' \subseteq Idle /\ s \in Idle /\ D \subseteq Idle
  BY <1>1 DEF Idle, PoolInv
<1>3. needed' \in [Dcs -> Nat] /\ \A e \in Dcs : needed'[e] = New \/ needed'[e] = needed[e]
  BY DEF Hit, ScheduleRefill, PoolInv
<1>4. \A e \in Dcs : Cardinality(idle'[e]) \in Nat /\ Cardinality(idle[e]) \in Nat
                     /\ Cardinality(idle'[e]) <= Cardinality(idle[e])
  <2>1. \A e \in Dcs : idle[e] \in SUBSET Sock /\ idle'[e] \in SUBSET idle[e]
    BY <1>1 DEF PoolInv
  <2> QED
    BY <2>1, FewerIdle
<1>5. ASSUME NEW e \in Dcs, needed'[e] \in 1..TargetSize
      PROVE  Cardinality(idle'[e]) + needed'[e] <= TargetSize
  <2>1. needed'[e] = needed[e]
    BY <1>3, <1>5
  <2>2. Cardinality(idle[e]) + needed[e] <= TargetSize
    BY <1>5, <2>1 DEF PoolInv
  <2> QED
    BY <1>4, <2>1, <2>2 DEF PoolInv
<1>6. lost' \cap (Idle' \cup lent' \cup closing') = {} /\ lent' \cup closing' \subseteq Sock
  BY <1>1, <1>2 DEF PoolInv
<1> QED
  BY <1>1, <1>3, <1>5, <1>6 DEF PoolInv, Contract!Lend

(* get() that finds none has dropped all of the deque.                     *)
LEMMA PoolMiss ==
  ASSUME PoolInv, NEW d \in Dcs, Miss(d)
  PROVE  PoolInv' /\ Contract!Discard(d, idle[d])
<1> USE TargetNat
<1>1. /\ idle' = [idle EXCEPT ![d] = {}] /\ idle' \in [Dcs -> SUBSET Sock]
      /\ idle' = [idle EXCEPT ![d] = @ \ idle[d]]
      /\ stale' = stale \ idle[d] /\ closing' = closing \cup idle[d]
      /\ UNCHANGED <<needed, lent, lost>>
  BY DEF Miss, PoolInv
<1>2. Idle' \subseteq Idle /\ idle[d] \subseteq Idle
  BY <1>1 DEF Idle, PoolInv
<1>3. \A e \in Dcs : Cardinality(idle'[e]) \in Nat /\ Cardinality(idle[e]) \in Nat
                     /\ Cardinality(idle'[e]) <= Cardinality(idle[e])
  <2>1. \A e \in Dcs : idle[e] \in SUBSET Sock /\ idle'[e] \in SUBSET idle[e]
    BY <1>1 DEF PoolInv
  <2> QED
    BY <2>1, FewerIdle
<1>4. \A e \in Dcs : needed'[e] \in 1..TargetSize => Cardinality(idle'[e]) + needed'[e] <= TargetSize
  BY <1>1, <1>3 DEF PoolInv
<1> QED
  BY <1>1, <1>2, <1>4 DEF PoolInv, Contract!Discard

(* A refill adds one socket, or none that can be seen from outside.        *)
LEMMA PoolWork ==
  ASSUME PoolInv, WorkerStep
  PROVE  /\ PoolInv'
         /\ \/ \E d \in Dcs, s \in Sock : Contract!Add(d, s)
            \/ \E S \in SUBSET Sock : Contract!Spoil(S)
            \/ UNCHANGED Contract!vars
<1> USE TargetNat
<1>1. ASSUME NEW d \in Dcs, RefillBegins(d) PROVE PoolInv' /\ UNCHANGED Contract!vars
  <2>1. UNCHANGED <<idle, stale, lent, closing, lost>>
    BY <1>1 DEF RefillBegins
  <2>2. Cardinality(idle[d]) \in Nat
    BY FewerIdle DEF PoolInv
  <2>3. /\ needed' \in [Dcs -> Nat] /\ \A e \in Dcs : e # d => needed'[e] = needed[e]
        /\ needed'[d] # 0 => needed'[d] = TargetSize - Cardinality(idle[d])
    BY <1>1, <2>2 DEF RefillBegins, PoolInv
  <2> QED
    BY <2>1, <2>2, <2>3 DEF PoolInv, Idle, Contract!vars
<1>2. ASSUME NEW d \in Dcs, NoneConnects(d) PROVE PoolInv' /\ UNCHANGED Contract!vars
  BY <1>2 DEF NoneConnects, PoolInv, Idle, Contract!vars
<1>3. ASSUME NEW d \in Dcs, NEW s \in Sock, Connected(d, s) PROVE PoolInv' /\ Contract!Add(d, s)
  <2>1. /\ idle' = [idle EXCEPT ![d] = @ \cup {s}] /\ idle' \in [Dcs -> SUBSET Sock]
        /\ needed' = [needed EXCEPT ![d] = @ - 1] /\ needed[d] \in 1..TargetSize
        /\ s \notin Open /\ UNCHANGED <<stale, lent, closing, lost>>
    BY <1>3 DEF Connected, PoolInv
  <2>2. Cardinality(idle[d]) + needed[d] <= TargetSize /\ idle[d] \in SUBSET Sock
    BY <2>1 DEF PoolInv
  <2>3. IsFiniteSet(idle[d]) /\ Cardinality(idle[d]) \in Nat
    BY <2>2, WorkerAssumption, FS_Subset, FS_CardinalityType
  <2>4. Cardinality(idle'[d]) = Cardinality(idle[d]) + 1
    <3>1. s \notin idle[d] /\ idle'[d] = idle[d] \cup {s}
      BY <2>1 DEF Open, Idle, PoolInv
    <3> QED
      BY <2>3, <3>1, FS_AddElement
  <2>5. Idle' = Idle \cup {s}
    BY <2>1 DEF Idle, PoolInv
  <2>6. lost' \cap (Idle' \cup lent' \cup closing') = {} /\ lent' \cup closing' \subseteq Sock
    BY <2>1, <2>5 DEF PoolInv, Open
  <2>7. /\ needed' \in [Dcs -> Nat]
        /\ \A e \in Dcs : needed'[e] \in 1..TargetSize => Cardinality(idle'[e]) + needed'[e] <= TargetSize
    BY <2>1, <2>2, <2>3, <2>4 DEF PoolInv
  <2>8. s \in Sock \ Contract!Held
    BY <2>1 DEF Open, Idle, Contract!Held, Contract!AllPooled
  <2>9. Contract!Cardinality(idle[d]) < TargetSize
    BY <2>1, <2>2, <2>3, SameCount
  <2> QED
    <3>1. PoolInv'
      BY <2>1, <2>6, <2>7 DEF PoolInv
    <3>2. Contract!Add(d, s)
      BY <2>1, <2>8, <2>9 DEF Contract!Add
    <3> QED
      BY <3>1, <3>2
<1>4. ASSUME NEW s \in Sock, GoesStale(s) PROVE PoolInv' /\ Contract!Spoil({s})
  BY <1>4 DEF GoesStale, PoolInv, Idle, Contract!Spoil, Contract!AllPooled
<1> QED
  BY <1>1, <1>2, <1>3, <1>4 DEF WorkerStep

(* A close ends a socket.                                                  *)
LEMMA PoolClosed ==
  ASSUME PoolInv, NEW s \in lent \cup closing, Closed(s)
  PROVE  PoolInv' /\ Contract!Close(s)
  BY DEF Closed, PoolInv, Idle, Contract!Close

(* reset() forgets all of the deques.                                      *)
LEMMA PoolRestart ==
  ASSUME PoolInv, WorkerRestart(Warmed)
  PROVE  PoolInv' /\ Contract!Reset
<1> USE TargetNat
<1>1. Idle' = {} /\ idle' \in [Dcs -> SUBSET Sock]
  BY DEF WorkerRestart, Idle
<1>2. /\ needed' \in [Dcs -> Nat]
      /\ \A d \in Dcs : needed'[d] \notin 1..TargetSize
  BY DEF WorkerRestart
<1> QED
  BY <1>1, <1>2 DEF WorkerRestart, PoolInv, Idle, Contract!Reset, Contract!AllPooled

(* _CfWorkerPool implements SocketPool.                                    *)
THEOREM WorkerContractHolds == Spec => WorkerContract
<1>1. Init => PoolInv /\ Contract!Init
  <2> SUFFICES ASSUME Init PROVE PoolInv /\ Contract!Init
    OBVIOUS
  <2> USE TargetNat
  <2>1. Idle = {} /\ idle \in [Dcs -> SUBSET Sock]
    BY DEF Init, WorkerInit, Idle
  <2>2. /\ needed \in [Dcs -> Nat] /\ \A d \in Dcs : needed[d] \notin 1..TargetSize
    BY DEF Init, WorkerInit
  <2> QED
    BY <2>1, <2>2 DEF Init, WorkerInit, PoolInv, Contract!Init
<1>2. PoolInv /\ [Next]_vars => PoolInv' /\ [Contract!Next]_(Contract!vars)
  <2> SUFFICES ASSUME PoolInv, [Next]_vars PROVE PoolInv' /\ [Contract!Next]_(Contract!vars)
    OBVIOUS
  <2>1. CASE \E d \in Dcs, s \in Sock : \E D \in SUBSET stale : Hit(d, s, D)
    <3>1. PICK d \in Dcs, s \in Sock : \E D \in SUBSET stale : Hit(d, s, D)
      BY <2>1
    <3>2. PICK D \in SUBSET stale : Hit(d, s, D)
      BY <3>1
    <3>3. D \in SUBSET Sock
      BY <3>2 DEF Hit, PoolInv
    <3> QED
      BY <3>2, <3>3, PoolHit DEF Contract!Next
  <2>2. CASE \E d \in Dcs : Miss(d)
    <3>1. PICK d \in Dcs : Miss(d)
      BY <2>2
    <3>2. idle[d] \in SUBSET Sock
      BY DEF PoolInv
    <3> QED
      BY <3>1, <3>2, PoolMiss DEF Contract!Next
  <2>3. CASE \E s \in lent \cup closing : Closed(s)
    <3>1. PICK s \in lent \cup closing : Closed(s)
      BY <2>3
    <3>2. s \in Sock
      BY DEF PoolInv
    <3> QED
      BY <3>1, <3>2, PoolClosed DEF Contract!Next
  <2>4. CASE WorkerStep
    BY <2>4, PoolWork DEF Contract!Next
  <2>5. CASE WorkerRestart(Warmed)
    BY <2>5, PoolRestart DEF Contract!Next
  <2>6. CASE UNCHANGED workerVars
    BY <2>6 DEF workerVars, PoolInv, Idle, Contract!vars
  <2> QED
    BY <2>1, <2>2, <2>3, <2>4, <2>5, <2>6, PoolSees DEF PoolStep
<1> QED
  BY <1>1, <1>2, PTL DEF Spec, WorkerContract, Contract!Spec

-----------------------------------------------------------------------------
(* Types.                                                                  *)

(* get() that finds a socket.                                              *)
LEMMA HitTypes ==
  ASSUME WorkerTypeOK, NEW d \in Dcs, NEW s \in Sock, NEW D \in SUBSET stale, Hit(d, s, D)
  PROVE  WorkerTypeOK'
<1> USE TargetNat
<1>1. /\ idle' = [idle EXCEPT ![d] = @ \ (D \cup {s})] /\ idle' \in [Dcs -> SUBSET Sock]
      /\ s \notin stale /\ D \subseteq idle[d] /\ stale' = stale \ D
      /\ lent' = lent \cup {s} /\ closing' = closing \cup D /\ lost' = lost
  BY DEF Hit, WorkerTypeOK
<1>2. stale' \subseteq Idle'
  <2>1. \A x \in stale' : \E e \in Dcs : x \in idle[e] /\ x \notin D /\ x # s
    BY <1>1 DEF WorkerTypeOK, Idle
  <2>2. \A e \in Dcs : \A x \in idle[e] : x \notin D /\ x # s => x \in idle'[e]
    BY <1>1 DEF WorkerTypeOK
  <2> QED
    BY <2>1, <2>2 DEF Idle
<1>3. marked' \subseteq Dcs /\ needed' \in [Dcs -> 0..New]
  BY DEF Hit, ScheduleRefill, WorkerTypeOK
<1>4. idle[d] \subseteq Sock
  BY DEF WorkerTypeOK
<1> QED
  BY <1>1, <1>2, <1>3, <1>4 DEF WorkerTypeOK

(* get() that finds none.                                                  *)
LEMMA MissTypes ==
  ASSUME WorkerTypeOK, NEW d \in Dcs, Miss(d)
  PROVE  WorkerTypeOK'
<1>1. /\ idle' = [idle EXCEPT ![d] = {}] /\ idle' \in [Dcs -> SUBSET Sock]
      /\ stale' = stale \ idle[d] /\ closing' = closing \cup idle[d]
      /\ UNCHANGED <<marked, needed, lent, lost>>
  BY DEF Miss, WorkerTypeOK
<1>2. stale' \subseteq Idle'
  <2>1. \A x \in stale' : \E e \in Dcs : x \in idle[e] /\ x \notin idle[d]
    BY <1>1 DEF WorkerTypeOK, Idle
  <2>2. \A e \in Dcs : e # d => idle'[e] = idle[e]
    BY <1>1 DEF WorkerTypeOK
  <2> QED
    BY <2>1, <2>2 DEF Idle
<1>3. idle[d] \subseteq Sock
  BY DEF WorkerTypeOK
<1>4. New' = New
  BY DEF New, TargetSize
<1> QED
  BY <1>1, <1>2, <1>3, <1>4 DEF WorkerTypeOK

(* A refill.                                                               *)
LEMMA WorkTypes == ASSUME WorkerTypeOK, WorkerStep PROVE WorkerTypeOK'
<1> USE TargetNat
<1>1. ASSUME NEW d \in Dcs, RefillBegins(d) PROVE WorkerTypeOK'
  <2>1. Cardinality(idle[d]) \in Nat
    BY FewerIdle DEF WorkerTypeOK
  <2>2. /\ needed' \in [Dcs -> 0..New] /\ marked' \subseteq Dcs
        /\ UNCHANGED <<idle, stale, lent, closing, lost>>
    BY <1>1, <2>1 DEF RefillBegins, WorkerTypeOK
  <2> QED
    BY <2>2 DEF WorkerTypeOK, Idle
<1>2. ASSUME NEW d \in Dcs, NoneConnects(d) PROVE WorkerTypeOK'
  BY <1>2 DEF NoneConnects, WorkerTypeOK, Idle
<1>3. ASSUME NEW d \in Dcs, NEW s \in Sock, Connected(d, s) PROVE WorkerTypeOK'
  <2>1. /\ idle' \in [Dcs -> SUBSET Sock] /\ needed' \in [Dcs -> 0..New] /\ marked' \subseteq Dcs
        /\ \A e \in Dcs : idle[e] \subseteq idle'[e]
        /\ UNCHANGED <<stale, lent, closing, lost>>
    BY <1>3 DEF Connected, WorkerTypeOK
  <2>2. stale' \subseteq Idle'
    BY <2>1 DEF WorkerTypeOK, Idle
  <2> QED
    BY <2>1, <2>2 DEF WorkerTypeOK
<1>4. ASSUME NEW s \in Sock, GoesStale(s) PROVE WorkerTypeOK'
  BY <1>4 DEF GoesStale, WorkerTypeOK, Idle
<1> QED
  BY <1>1, <1>2, <1>3, <1>4 DEF WorkerStep

(* Every step of the pool.                                                 *)
LEMMA PoolTypes == ASSUME WorkerTypeOK, PoolStep PROVE WorkerTypeOK'
<1> USE TargetNat
<1>1. CASE \E d \in Dcs, s \in Sock : \E D \in SUBSET stale : Hit(d, s, D)
  BY <1>1, HitTypes
<1>2. CASE \E d \in Dcs : Miss(d)
  BY <1>2, MissTypes
<1>3. CASE \E s \in lent \cup closing : Closed(s)
  BY <1>3 DEF Closed, WorkerTypeOK, Idle
<1>4. CASE WorkerRestart(Warmed)
  <2>1. idle' \in [Dcs -> SUBSET Sock] /\ stale' = {} /\ lent' = {} /\ closing' = {}
    BY <1>4 DEF WorkerRestart
  <2>2. needed' \in [Dcs -> 0..New] /\ marked' \subseteq Dcs
    BY <1>4 DEF WorkerRestart, Warmed
  <2>3. lost' \subseteq Sock
    BY <1>4 DEF WorkerRestart, WorkerTypeOK, Idle
  <2> QED
    BY <2>1, <2>2, <2>3 DEF WorkerTypeOK
<1>5. CASE UNCHANGED workerVars
  BY <1>5 DEF workerVars, WorkerTypeOK, Idle
<1> QED
  BY <1>1, <1>2, <1>3, <1>4, <1>5, WorkTypes DEF PoolStep

(* The connection of a client is one of the pool's.                        *)
LEMMA SocketTypes ==
  ASSUME socket \in [Client -> SUBSET Sock], [Next]_vars
  PROVE  socket' \in [Client -> SUBSET Sock]
<1>1. ASSUME NEW c \in Client, ClientStep(c) PROVE socket' \in [Client -> SUBSET Sock]
  <2>1. socket' = socket \/ \E S \in SUBSET Sock : socket' = [socket EXCEPT ![c] = S]
    BY <1>1 DEF ClientStep, Ask, WorkerAnswers, WorkerFails, DomainAnswers, DomainFails, Leaves
  <2> QED
    BY <2>1
<1>2. CASE Restart
  BY <1>2 DEF Restart
<1>3. CASE socket' = socket
  BY <1>3
<1> QED
  BY <1>1, <1>2, <1>3
  DEF Next, PoolWorks, QuietClose, OtherClient, ListChanges, vars, clientVars

(* A list holds domains, an entry is a domain of a list or none.           *)
LEMMA NamesKinds ==
  /\ Own \subseteq Names /\ Default \subseteq Names /\ \A P \in Pools : P \subseteq Names
  /\ Names \subseteq Entries /\ NoDomain \in Entries
  BY DEF Names, Entries

(* The steps of the refresh threads and of the start of a run.             *)
LEMMA UpdaterTypes ==
  ASSUME DomainTypeOK, Shape, NEW u \in Updaters, UpdaterStep(u), Shape'
  PROVE  DomainTypeOK'
<1>1. UNCHANGED <<own, late, events, stopped>>
  BY DEF UpdaterStep, Build, Store, Check, Fetched, Useless, Wait, InstallOwn, InstallDefault,
         Installed, Install
<1>2. domains' \subseteq Names
  BY NamesKinds DEF DomainTypeOK, UpdaterStep, Build, Store, Check, Fetched, Useless, Wait,
         InstallOwn, InstallDefault, Installed, Install
<1>3. dcDomain' \in Entries
  BY DEF DomainTypeOK, UpdaterStep, Build, Store, Check, Fetched, Useless, Wait,
         InstallOwn, InstallDefault, Installed, Install
<1>4. choice' = choice \/ \E d \in Entries : choice' = [choice EXCEPT ![u] = d]
  BY NamesKinds DEF DomainTypeOK, UpdaterStep, Build, Store, Check, Fetched, Useless, Wait,
         InstallOwn, InstallDefault, Installed, Install
<1>5. choice' \in [Updaters -> Entries]
  BY <1>4 DEF DomainTypeOK
<1> QED
  BY <1>1, <1>2, <1>3, <1>5 DEF DomainTypeOK, Shape

(* What the clients hold of workers and domains.                           *)
ClientsOK ==
  /\ workers \subseteq Workers
  /\ todo \in [Client -> SUBSET (Workers \cup Entries)]
  /\ \A c \in Client : todo[c] \subseteq IF pc[c] = "workers" THEN Workers ELSE Entries
  /\ current \in [Client -> Entries]
  /\ tried \in [Client -> SUBSET Entries] /\ lists \in [Client -> SUBSET SUBSET Names]

(* A client turns to rest, workers or domains as its place asks.           *)
LEMMA BecomesTypes ==
  ASSUME Shape, ClientsOK, NEW c \in Client, NEW state \in States, NEW rest,
         Becomes(c, state, rest),
         rest \subseteq IF state = "workers" THEN Workers ELSE Entries
  PROVE  /\ todo' \in [Client -> SUBSET (Workers \cup Entries)]
         /\ \A d \in Client : todo'[d] \subseteq IF pc'[d] = "workers" THEN Workers ELSE Entries
<1>1. rest \in SUBSET (Workers \cup Entries)
  OBVIOUS
<1>2. todo' = [todo EXCEPT ![c] = rest] /\ pc' = [pc EXCEPT ![c] = state]
  BY DEF Becomes
<1>3. todo' \in [Client -> SUBSET (Workers \cup Entries)]
  BY <1>1, <1>2 DEF ClientsOK
<1>4. ASSUME NEW d \in Client
      PROVE  todo'[d] \subseteq IF pc'[d] = "workers" THEN Workers ELSE Entries
  <2>1. todo \in [Client -> SUBSET (Workers \cup Entries)] /\ pc \in [Client -> States]
    BY DEF ClientsOK, Shape
  <2>2. CASE d = c
    BY <1>2, <2>1, <2>2
  <2>3. CASE d # c
    <3>1. todo'[d] = todo[d] /\ pc'[d] = pc[d]
      BY <1>2, <2>1, <2>3
    <3> QED
      BY <3>1 DEF ClientsOK
  <2> QED
    BY <2>2, <2>3
<1> QED
  BY <1>3, <1>4

(* The steps of a client.                                                  *)
LEMMA TriesTypes ==
  ASSUME Shape, DomainTypeOK, ClientsOK, NEW c \in Client, ClientStep(c)
  PROVE  DomainTypeOK' /\ ClientsOK'
<1> USE DEF domainVars
<1> DEFINE Kept == current' = current /\ tried' = tried /\ lists' = lists
           Cleared == \E e \in Entries, T \in SUBSET Entries, L \in SUBSET SUBSET Names :
                        /\ current' = [current EXCEPT ![c] = e]
                        /\ tried' = [tried EXCEPT ![c] = T]
                        /\ lists' = [lists EXCEPT ![c] = L]
<1>1. ASSUME NEW state \in States, NEW rest, Becomes(c, state, rest),
             rest \subseteq IF state = "workers" THEN Workers ELSE Entries,
             Kept \/ Cleared, workers' = workers
      PROVE  ClientsOK'
  <2>1. /\ current' \in [Client -> Entries] /\ tried' \in [Client -> SUBSET Entries]
        /\ lists' \in [Client -> SUBSET SUBSET Names]
    BY <1>1 DEF ClientsOK
  <2> QED
    BY <1>1, <2>1, BecomesTypes DEF ClientsOK
<1>2. ASSUME FirstDomain(c), workers' = workers PROVE ClientsOK'
  <2>1. Becomes(c, "first", {dcDomain}) /\ dcDomain \in Entries /\ domains \in SUBSET Names
    BY <1>2 DEF FirstDomain, DomainTypeOK
  <2>2. Cleared
    <3>1. {} \in SUBSET Entries /\ {domains} \in SUBSET SUBSET Names
      BY <2>1
    <3> QED
      BY <1>2, <2>1, <3>1, Zenon DEF FirstDomain
  <2> HIDE DEF Cleared
  <2>3. "first" \in States /\ {dcDomain} \subseteq IF "first" = "workers" THEN Workers ELSE Entries
    BY <2>1 DEF States
  <2> QED
    BY <1>1, <1>2, <2>1, <2>2, <2>3
<1>3. CASE Ask(c)
  <2>1. UNCHANGED domainVars /\ workers' = workers
    BY <1>3 DEF Ask, Hit, Miss, ScheduleRefill
  <2>2. CASE FirstDomain(c)
    BY <1>2, <2>1, <2>2 DEF DomainTypeOK
  <2>3. CASE ~FirstDomain(c)
    <3>1. Kept /\ (Becomes(c, "session", {}) \/ Becomes(c, "workers", workers))
      BY <1>3, <2>3 DEF Ask
    <3>2. "session" \in States /\ "workers" \in States /\ workers \subseteq Workers
      BY DEF States, ClientsOK
    <3> HIDE DEF Kept, Cleared
    <3> QED
      BY <1>1, <2>1, <3>1, <3>2 DEF DomainTypeOK
  <2> QED
    BY <2>2, <2>3
<1>4. CASE WorkerAnswers(c)
  <2>1. Becomes(c, "session", {}) /\ Kept /\ workers' = workers /\ UNCHANGED domainVars
    BY <1>4 DEF WorkerAnswers
  <2> HIDE DEF Kept, Cleared
  <2> QED
    BY <1>1, <2>1 DEF States, DomainTypeOK
<1>5. ASSUME NEW w \in workers, WorkerFails(c, w) PROVE DomainTypeOK' /\ ClientsOK'
  <2>1. workers' = workers /\ UNCHANGED domainVars /\ pc[c] = "workers"
    BY <1>5 DEF WorkerFails
  <2>2. CASE FirstDomain(c)
    BY <1>2, <2>1, <2>2 DEF DomainTypeOK
  <2>3. CASE ~FirstDomain(c)
    <3>1. Becomes(c, "workers", todo[c] \ {w}) /\ Kept
      BY <1>5, <2>3 DEF WorkerFails
    <3>2. todo[c] \ {w} \subseteq Workers
      BY <2>1 DEF ClientsOK
    <3> HIDE DEF Kept, Cleared
    <3> QED
      BY <1>1, <2>1, <3>1, <3>2 DEF States, DomainTypeOK
  <2> QED
    BY <2>2, <2>3
<1>6. ASSUME NEW d \in todo[c], DomainAnswers(c, d) PROVE DomainTypeOK' /\ ClientsOK'
  <2>1. /\ Becomes(c, "session", {}) /\ Kept /\ workers' = workers
        /\ dcDomain' = d /\ UNCHANGED <<own, domains, at, choice, events, stopped, late>>
    BY <1>6 DEF DomainAnswers, Prefer
  <2>2. d \in Entries
    BY <1>6 DEF DomainAnswers, ClientsOK
  <2>3. DomainTypeOK'
    BY <2>1, <2>2 DEF DomainTypeOK
  <2> HIDE DEF Kept, Cleared
  <2> QED
    BY <1>1, <2>1, <2>3 DEF States
<1>7. ASSUME NEW d \in todo[c], DomainFails(c, d) PROVE DomainTypeOK' /\ ClientsOK'
  <2> DEFINE rest == IF pc[c] = "first" THEN OtherDomains(c) ELSE todo[c] \ {d}
  <2>1. /\ workers' = workers /\ UNCHANGED <<domainVars, current, lists>>
        /\ pc[c] \in {"first", "rest"} /\ tried' = [tried EXCEPT ![c] = @ \cup {d}]
        /\ Becomes(c, IF rest = {} THEN "failed" ELSE "rest", rest)
    BY <1>7 DEF DomainFails
  <2>2. todo[c] \subseteq Entries /\ d \in Entries
    BY <1>7, <2>1 DEF ClientsOK
  <2>3. rest \subseteq Entries
    BY <2>2, NamesKinds DEF OtherDomains, DomainTypeOK
  <2> HIDE DEF rest
  <2>4. tried' \in [Client -> SUBSET Entries]
    BY <2>1, <2>2 DEF ClientsOK
  <2>5. /\ todo' \in [Client -> SUBSET (Workers \cup Entries)]
        /\ \A e \in Client : todo'[e] \subseteq IF pc'[e] = "workers" THEN Workers ELSE Entries
    <3>1. (IF rest = {} THEN "failed" ELSE "rest") \in States \ {"workers"}
      BY DEF States
    <3> QED
      BY <2>1, <2>3, <3>1, BecomesTypes
  <2> QED
    BY <2>1, <2>4, <2>5 DEF ClientsOK, DomainTypeOK
<1>8. CASE Leaves(c)
  <2>1. Becomes(c, "idle", {}) /\ workers' = workers /\ UNCHANGED domainVars
    BY <1>8 DEF Leaves
  <2>2. Cleared
    <3>1. {} \in SUBSET Entries /\ {} \in SUBSET SUBSET Names /\ NoDomain \in Entries
      BY NamesKinds
    <3> QED
      BY <1>8, <3>1, Zenon DEF Leaves
  <2> HIDE DEF Kept, Cleared
  <2> QED
    BY <1>1, <2>1, <2>2 DEF States, DomainTypeOK
<1> QED
  BY <1>3, <1>4, <1>5, <1>6, <1>7, <1>8 DEF ClientStep

(* Every step.                                                             *)
LEMMA ListTypes ==
  ASSUME Shape, Shape', DomainTypeOK, ClientsOK, [Next]_vars
  PROVE  DomainTypeOK' /\ ClientsOK'
<1> USE DEF domainVars, clientVars
<1>1. CASE PoolWorks \/ QuietClose \/ UNCHANGED vars
  BY <1>1 DEF PoolWorks, QuietClose, vars, DomainTypeOK, ClientsOK
<1>2. CASE OtherClient
  <2>1. PICK d \in domains : Prefer(d)
    BY <1>2 DEF OtherClient
  <2>2. d \in Entries
    BY NamesKinds DEF DomainTypeOK
  <2> QED
    BY <1>2, <2>1, <2>2 DEF OtherClient, Prefer, DomainTypeOK, ClientsOK
<1>3. CASE Restart
  <2>1. PICK toOwn \in BOOLEAN : NewRun(toOwn)
    BY <1>3 DEF Restart
  <2>2. /\ own' = toOwn /\ late' \in BOOLEAN /\ UNCHANGED <<domains, dcDomain, choice>>
    BY <2>1 DEF NewRun, Restarting, DomainTypeOK
  <2>3. stopped' \subseteq Refreshers
    BY <2>1 DEF NewRun, DomainTypeOK
  <2>4. DomainTypeOK'
    BY <2>2, <2>3 DEF DomainTypeOK, Shape
  <2>5. /\ workers' = workers
        /\ todo' = [c \in Client |-> {}] /\ current' = [c \in Client |-> NoDomain]
        /\ tried' = [c \in Client |-> {}] /\ lists' = [c \in Client |-> {}]
    BY <1>3 DEF Restart
  <2>6. ClientsOK'
    BY <2>5, NamesKinds DEF ClientsOK
  <2> QED
    BY <2>4, <2>6
<1>4. ASSUME NEW u \in Updaters, ListChanges(u) PROVE DomainTypeOK' /\ ClientsOK'
  <2>1. DomainTypeOK'
    BY <1>4, UpdaterTypes DEF ListChanges
  <2>2. domains' \in SUBSET Names
    BY <2>1 DEF DomainTypeOK
  <2>3. lists' \in [Client -> SUBSET SUBSET Names]
    BY <1>4, <2>2 DEF ListChanges, Watch, ClientsOK
  <2> QED
    BY <1>4, <2>1, <2>3 DEF ListChanges, ClientsOK
<1> QED
  BY <1>1, <1>2, <1>3, <1>4, TriesTypes DEF Next

(* Every variable of the worker pool, of its clients and of the refresh     *)
(* threads keeps its type.                                                 *)
THEOREM FallbackTypes == Spec => []TypeOK
<1> DEFINE Sockets == socket \in [Client -> SUBSET Sock]
           Others == DomainTypeOK /\ ClientsOK
<1>1. Init => WorkerTypeOK /\ Sockets
  <2> SUFFICES ASSUME Init PROVE WorkerTypeOK /\ Sockets
    OBVIOUS
  <2>1. marked \subseteq Dcs /\ needed \in [Dcs -> 0..New]
    BY TargetNat DEF Init, WorkerInit, Warmed
  <2> QED
    BY <2>1 DEF Init, WorkerInit, NoClients, WorkerTypeOK
<1>2. WorkerTypeOK /\ [Next]_vars => WorkerTypeOK'
  BY PoolSees, PoolTypes
<1>3. Sockets /\ [Next]_vars => Sockets'
  BY SocketTypes
<1>4. Init => Others
  <2> SUFFICES ASSUME Init PROVE Others
    OBVIOUS
  <2>1. DomainTypeOK
    BY ShapeInit, NamesKinds DEF Shape, Init, DomainInit, DomainTypeOK
  <2>2. ClientsOK
    BY NamesKinds DEF Init, NoClients, ClientsOK
  <2> QED
    BY <2>1, <2>2
<1>5. Shape /\ Others /\ [Next]_vars => Others'
  BY ShapeNext, ListTypes
<1>6. Shape /\ WorkerTypeOK /\ Sockets /\ Others => TypeOK
  BY DEF Shape, States, ClientsOK, TypeOK
<1> QED
  BY <1>1, <1>2, <1>3, <1>4, <1>5, <1>6, ShapeInit, ShapeNext, PTL DEF Spec
=============================================================================
