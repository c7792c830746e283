---------------------------- MODULE DomainRefresh ----------------------------
(***************************************************************************)
(* The list of Cloudflare domains: _Balancer of proxy/balancer.py, the      *)
(* threads that replace the list every hour (proxy/config.py), and the      *)
(* start of a run (_run of proxy/tg_ws_proxy.py), which chooses between the *)
(* user's own domains and a refresh.                                       *)
(*                                                                         *)
(* A refresh thread runs beside the event loop: each access it makes to the *)
(* configuration or to the balancer is a step.  The event loop, Loop, calls *)
(* the same update_domains_list.  A list is the set of its domains, which   *)
(* are distinct; a download is one of Pools or is of no use.  One DC stands *)
(* for all in _dc_to_domain, whose entries do not depend on each other.    *)
(* An operator X_Y is a faulty variant of X that some property must catch. *)
(***************************************************************************)
EXTENDS Naturals, FiniteSets

CONSTANTS
  Own,        \* the domains the user may configure
  Default,    \* CFPROXY_DEFAULT_DOMAINS
  Pools,      \* the lists with enough valid domains a download may bring
  NoDomain,   \* no entry
  MaxThreads  \* bound: refresh threads started

ASSUME DomainAssumption ==
  /\ Own # {} /\ Default # {} /\ {} \notin Pools
  /\ NoDomain \notin Own \cup Default \cup UNION Pools
  /\ MaxThreads \in Nat

(* Nobody publishes the list that the user types in; update_domains_list     *)
(* would take it for the one it has.                                       *)
ASSUME OwnAssumption == Own # Default /\ Own \notin Pools

Refreshers == 1..MaxThreads   \* in the order in which they are started
Loop == 0
Updaters == {Loop} \cup Refreshers

VARIABLES
  own,        \* whether proxy_config.cfproxy_user_domains is set
  domains,    \* balancer.domains
  dcDomain,   \* the DC's entry in balancer._dc_to_domain
  at,         \* where each updater is
  choice,     \* the entry it is about to store
  events,     \* the threads whose stop event was made; the last one is current
  stopped,    \* those whose event is set
  late        \* history: a download was under way when the user's were set

domainVars == <<own, domains, dcDomain, at, choice, events, stopped, late>>

Installing == {"fetch", "build", "store"}

(* _run of the tray's first start.                                         *)
DomainInit ==
  /\ own \in BOOLEAN
  /\ domains = {} /\ dcDomain = NoDomain
  /\ at = [u \in Updaters |-> IF u = Loop THEN "start" ELSE "unborn"]
  /\ choice = [u \in Updaters |-> NoDomain]
  /\ events = (IF own THEN 0 ELSE 1)
  /\ stopped = {}
  /\ late = FALSE

Serving == at[Loop] = "idle"
After(u) == IF u = Loop THEN "installed" ELSE "wait"
At(u, from, to) == at[u] = from /\ at' = [at EXCEPT ![u] = to]

(* update_domains_list(list) of u: nothing to do if the lists are equal;   *)
(* else self.domains, then for each DC a choice of what self.domains is by  *)
(* then, then self._dc_to_domain.                                          *)
Install(u, from, list) ==
  /\ At(u, from, IF domains = list THEN After(u) ELSE "build")
  /\ domains' = list
  /\ UNCHANGED <<own, dcDomain, choice, events, stopped, late>>
Build(u) ==
  /\ At(u, "build", "store")
  /\ \E d \in domains : choice' = [choice EXCEPT ![u] = d]
  /\ UNCHANGED <<own, domains, dcDomain, events, stopped, late>>
Store(u) ==
  /\ At(u, "store", After(u))
  /\ dcDomain' = choice[u]
  /\ choice' = [choice EXCEPT ![u] = NoDomain]
  /\ UNCHANGED <<own, domains, events, stopped, late>>

(* refresh_cfproxy_domains: the configuration is looked at before the      *)
(* download.                                                               *)
Check_Never(t) ==
  /\ At(t, "check", "fetch")
  /\ UNCHANGED <<own, domains, dcDomain, choice, events, stopped, late>>
Check(t) ==
  /\ At(t, "check", IF own THEN "wait" ELSE "fetch")
  /\ UNCHANGED <<own, domains, dcDomain, choice, events, stopped, late>>
Fetched(t) == \E P \in Pools : Install(t, "fetch", P)
Useless(t) ==
  /\ At(t, "fetch", "wait")
  /\ UNCHANGED <<own, domains, dcDomain, choice, events, stopped, late>>

(* while not stop.wait(timeout=3600)                                       *)
Wait_Newest(t) ==
  /\ At(t, "wait", IF events \in stopped THEN "ended" ELSE "check")
  /\ UNCHANGED <<own, domains, dcDomain, choice, events, stopped, late>>
Wait(t) ==
  /\ At(t, "wait", IF t \in stopped THEN "ended" ELSE "check")
  /\ UNCHANGED <<own, domains, dcDomain, choice, events, stopped, late>>

(* _run installs the user's list, or start_cfproxy_domain_refresh the       *)
(* default one, and ends with the new thread.                              *)
InstallOwn == own /\ Install(Loop, "start", Own)
InstallDefault == ~own /\ Install(Loop, "start", Default)
Installed ==
  /\ at[Loop] = "installed"
  /\ at' = IF own THEN [at EXCEPT ![Loop] = "idle"]
           ELSE [at EXCEPT ![Loop] = "idle", ![events] = "check"]
  /\ UNCHANGED <<own, domains, dcDomain, choice, events, stopped, late>>

UpdaterStep(u) ==
  \/ Build(u) \/ Store(u)
  \/ u # Loop /\ (Check(u) \/ Fetched(u) \/ Useless(u) \/ Wait(u))
  \/ u = Loop /\ (InstallOwn \/ InstallDefault \/ Installed)

(* A restart with other settings, or with the same: the configuration is   *)
(* applied, and _run sets the list or, first, the current stop event.      *)
Restarting(toOwn) ==
  /\ Serving
  /\ own' = toOwn
  /\ late' = (toOwn /\ (late \/ \E t \in Refreshers : at[t] \in Installing))
  /\ UNCHANGED <<domains, dcDomain, choice>>
NewRun(toOwn) ==
  /\ Restarting(toOwn)
  /\ at' = [at EXCEPT ![Loop] = "start"]
  /\ IF toOwn THEN UNCHANGED <<events, stopped>>
     ELSE /\ events + 1 \in Refreshers /\ events' = events + 1
          /\ stopped' = stopped \cup ({events} \cap Refreshers)

(* update_domain_for_dc of a client that connected through d.              *)
Prefer(d) ==
  /\ Serving
  /\ dcDomain' = d
  /\ UNCHANGED <<own, domains, at, choice, events, stopped, late>>

-----------------------------------------------------------------------------
Names == Own \cup Default \cup UNION Pools
Entries == Names \cup {NoDomain}
Places == {"start", "build", "store", "installed", "idle",
           "unborn", "check", "fetch", "wait", "ended"}
DomainTypeOK ==
  /\ own \in BOOLEAN /\ late \in BOOLEAN
  /\ domains \subseteq Names /\ dcDomain \in Entries
  /\ at \in [Updaters -> Places] /\ choice \in [Updaters -> Entries]
  /\ events \in Nat /\ stopped \subseteq Refreshers

(* A run with domains of the user's own uses these only, unless a download  *)
(* that had passed its check was still under way when the run began.       *)
OwnDomains == own /\ Serving /\ ~late => domains = Own /\ dcDomain \in Own

(* A refresh thread that a newer one follows comes to its end.             *)
SupersededEnds ==
  \A t \in Refreshers : (events > t) ~> (at[t] \in {"unborn", "ended"})
=============================================================================
