----------------------------- MODULE CfFallback -----------------------------
(***************************************************************************)
(* Clients that reach Telegram through Cloudflare: _cfproxy_worker_fallback *)
(* and _cfproxy_fallback of proxy/bridge.py over the worker pool            *)
(* (CfWorkerPool) and the balancer with its refresh threads                 *)
(* (DomainRefresh), and the restart that resets all of them.               *)
(*                                                                         *)
(* An operator X_Y is a faulty variant of X that some property must catch. *)
(***************************************************************************)
EXTENDS CfWorkerPool, DomainRefresh

CONSTANTS
  Client,
  Workers,     \* the workers, when the user has configured any
  Dc,          \* the clients' DC
  WithWorkers  \* bound: refresh threads started beside workers

ASSUME FallbackAssumption == Dc \in Dcs

VARIABLES
  workers,  \* proxy_config.cfproxy_worker_domains
  pc,       \* where each client is
  socket,   \* the pooled connection of its session, if it has one
  todo,     \* the workers, or the domains, it has not tried yet
  current,  \* current_domain of its generator
  tried,    \* history: the domains it tried
  lists     \* history: the lists in force since it began with domains

clientVars == <<pc, socket, todo, current, tried, lists>>
vars == <<workerVars, domainVars, workers, clientVars>>

NoClients ==
  /\ pc = [c \in Client |-> "idle"]
  /\ socket = [c \in Client |-> {}] /\ todo = [c \in Client |-> {}]
  /\ current = [c \in Client |-> NoDomain]
  /\ tried = [c \in Client |-> {}] /\ lists = [c \in Client |-> {}]

(* warmup() does something only when there are workers.                    *)
Warmed == IF workers = {} THEN {} ELSE Dcs

Init == workers \in {Workers, {}} /\ WorkerInit(Warmed) /\ DomainInit /\ NoClients

Becomes(c, state, rest) ==
  /\ pc' = [pc EXCEPT ![c] = state]
  /\ todo' = [todo EXCEPT ![c] = rest]

(* The generator up to its first domain: the DC's own, read now, ...       *)
FirstDomain(c) ==
  /\ Becomes(c, "first", {dcDomain})
  /\ current' = [current EXCEPT ![c] = dcDomain]
  /\ tried' = [tried EXCEPT ![c] = {}]
  /\ lists' = [lists EXCEPT ![c] = {domains}]

(* ... and up to the next one: the list is read only now.                  *)
OtherDomains_Reread(c) == domains \ {dcDomain}
OtherDomains(c) == domains \ {current[c]}

-----------------------------------------------------------------------------
(* _cfproxy_worker_fallback.  A client of a test DC does not use the pool. *)

Ask(c) ==
  /\ pc[c] = "idle" /\ Serving
  /\ \/ \E s \in Sock, D \in SUBSET stale :
          /\ workers # {} /\ Hit(Dc, s, D)
          /\ Becomes(c, "session", {}) /\ socket' = [socket EXCEPT ![c] = {s}]
          /\ UNCHANGED <<current, tried, lists>>
     \/ /\ workers # {} /\ Miss(Dc)
        /\ Becomes(c, "workers", workers) /\ UNCHANGED <<socket, current, tried, lists>>
     \/ /\ workers # {} /\ Becomes(c, "workers", workers)
        /\ UNCHANGED <<workerVars, workers, socket, current, tried, lists>>
     \/ /\ workers = {} /\ FirstDomain(c) /\ UNCHANGED <<workerVars, socket>>
  /\ UNCHANGED <<domainVars, workers>>

WorkerAnswers(c) ==
  /\ pc[c] = "workers"
  /\ Becomes(c, "session", {})
  /\ UNCHANGED <<workerVars, domainVars, workers, socket, current, tried, lists>>
WorkerFails(c, w) ==
  /\ pc[c] = "workers" /\ w \in todo[c]
  /\ IF todo[c] = {w} THEN FirstDomain(c)
     ELSE Becomes(c, "workers", todo[c] \ {w}) /\ UNCHANGED <<current, tried, lists>>
  /\ UNCHANGED <<workerVars, domainVars, workers, socket>>

(* _cfproxy_fallback.                                                      *)
DomainAnswers(c, d) ==
  /\ pc[c] \in {"first", "rest"} /\ d \in todo[c]
  /\ Prefer(d)
  /\ Becomes(c, "session", {})
  /\ UNCHANGED <<workerVars, workers, socket, current, tried, lists>>
DomainFails(c, d) ==
  LET rest == IF pc[c] = "first" THEN OtherDomains(c) ELSE todo[c] \ {d}
  IN  /\ pc[c] \in {"first", "rest"} /\ d \in todo[c]
      /\ Becomes(c, IF rest = {} THEN "failed" ELSE "rest", rest)
      /\ tried' = [tried EXCEPT ![c] = @ \cup {d}]
      /\ UNCHANGED <<workerVars, domainVars, workers, socket, current, lists>>

(* The session ends, or the next fallback takes over.                      *)
Leaves(c) ==
  /\ pc[c] \in {"session", "failed"}
  /\ IF socket[c] = {} THEN UNCHANGED workerVars ELSE \E s \in socket[c] : Closed(s)
  /\ Becomes(c, "idle", {})
  /\ socket' = [socket EXCEPT ![c] = {}]
  /\ current' = [current EXCEPT ![c] = NoDomain]
  /\ tried' = [tried EXCEPT ![c] = {}] /\ lists' = [lists EXCEPT ![c] = {}]
  /\ UNCHANGED <<domainVars, workers>>

ClientStep(c) ==
  \/ Ask(c) \/ WorkerAnswers(c) \/ \E w \in workers : WorkerFails(c, w)
  \/ \E d \in todo[c] : DomainAnswers(c, d) \/ DomainFails(c, d)
  \/ Leaves(c)

-----------------------------------------------------------------------------
(* While a client tries domains, a refresh may change the list.            *)
Watch == lists' = [c \in Client |-> IF pc[c] \in {"first", "rest"}
                                    THEN lists[c] \cup {domains'} ELSE lists[c]]

PoolWorks == WorkerStep /\ UNCHANGED <<domainVars, workers, clientVars>>
QuietClose == (\E s \in closing : Closed(s)) /\ UNCHANGED <<domainVars, workers, clientVars>>
ListChanges(u) ==
  /\ UpdaterStep(u) /\ Watch
  /\ UNCHANGED <<workerVars, workers, pc, socket, todo, current, tried>>

(* A client beyond Client connects through a domain of the list.           *)
OtherClient ==
  /\ \E d \in domains : Prefer(d)
  /\ UNCHANGED <<workerVars, workers, clientVars>>

Restart ==
  /\ \E toOwn \in BOOLEAN : NewRun(toOwn)
  /\ events' <= WithWorkers \/ workers = {}
  /\ UNCHANGED workers
  /\ WorkerRestart(Warmed)
  /\ pc' = [c \in Client |-> "idle"]
  /\ socket' = [c \in Client |-> {}] /\ todo' = [c \in Client |-> {}]
  /\ current' = [c \in Client |-> NoDomain]
  /\ tried' = [c \in Client |-> {}] /\ lists' = [c \in Client |-> {}]

Next ==
  \/ \E c \in Client : ClientStep(c)
  \/ PoolWorks \/ QuietClose \/ OtherClient \/ Restart
  \/ \E u \in Updaters : ListChanges(u)

Spec == Init /\ [][Next]_vars

(* Threads run, a download and a wait have time-outs.                      *)
FairSpec == Spec /\ \A u \in Updaters : WF_vars(ListChanges(u))

-----------------------------------------------------------------------------
(* Every variable has its type; what a client has not tried are workers or  *)
(* domains, as it is among the first or the second.                        *)
TypeOK ==
  /\ WorkerTypeOK /\ DomainTypeOK
  /\ workers \subseteq Workers
  /\ pc \in [Client -> {"idle", "workers", "first", "rest", "session", "failed"}]
  /\ socket \in [Client -> SUBSET Sock]
  /\ todo \in [Client -> SUBSET (Workers \cup Entries)]
  /\ \A c \in Client : todo[c] \subseteq IF pc[c] = "workers" THEN Workers ELSE Entries
  /\ current \in [Client -> Entries]
  /\ tried \in [Client -> SUBSET Entries] /\ lists \in [Client -> SUBSET SUBSET Names]

(* _CfWorkerPool implements SocketPool: bounded, one owner per connection,  *)
(* never a stale one lent, none lent again after it was retired.           *)
WorkerContract == Contract!Spec

(* A client that gives up has tried every domain of some list that was in  *)
(* force while it tried, whatever refreshes and other clients did meanwhile.*)
TriesAll ==
  \A c \in Client : pc[c] = "failed" => \E L \in lists[c] : L \subseteq tried[c]
=============================================================================
