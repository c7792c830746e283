---------------------------- MODULE ClientRouter ----------------------------
(***************************************************************************)
(* How a client that passed the handshake gets an upstream connection:      *)
(* _handle_client of proxy/tg_ws_proxy.py from the routing decision on, and *)
(* do_fallback with its three methods of proxy/bridge.py.  Clients run      *)
(* concurrently and share the blacklist, the two cool-down tables and the   *)
(* balancer's choice of a domain.  The socket pools answer "hit" or "miss"; *)
(* WsPool models the one of the DCs.                                        *)
(*                                                                         *)
(* Time is relative: a cool-down is what is left of it, and lag is how long *)
(* ago a client read the clock into its local `now`.  Where a step depends  *)
(* on a cancellation (the stop of the server cancels every handler), the    *)
(* handler is at an await.  An operator X_Y is a faulty variant of X that   *)
(* some property must catch.                                               *)
(***************************************************************************)
EXTENDS Integers, Sequences, FiniteSets

CONSTANTS
  Clients,
  Keys,           \* the dc_keys: DC number, test flag, media flag
  TestKeys,       \* those of test DCs
  DcOf,           \* the DC of a key
  Target,         \* proxy_config.dc_redirects: a function from DCs to IPs
  Dst,            \* the DCs with an address in DC_DEFAULT_IPS or DC_TEST_IPS
  WsDomains,      \* how many domains ws_domains() names
  CfProxy,        \* proxy_config.fallback_cfproxy
  CfDomains,      \* balancer.domains
  Workers,        \* proxy_config.cfproxy_worker_domains
  IpCooldown, DcCooldown,  \* IP_FAIL_COOLDOWN, DC_FAIL_COOLDOWN
  MaxLag          \* the longest the attempts of one client take together

Dcs == {DcOf[k] : k \in Keys}
Ips == {Target[d] : d \in DOMAIN Target}
Methods == {"worker", "cf", "tcp"}

ASSUME ConfigAssumption ==
  /\ Keys # {} /\ TestKeys \subseteq Keys /\ Dst \subseteq Dcs /\ DOMAIN Target \subseteq Dcs
  /\ WsDomains \in Nat \ {0} /\ CfProxy \in BOOLEAN
  /\ CfDomains # {} /\ IsFiniteSet(CfDomains) /\ IsFiniteSet(Workers)
ASSUME LagAssumption ==
  /\ MaxLag \in Nat \ {0} /\ IpCooldown \in Nat /\ DcCooldown \in Nat
  /\ MaxLag < IpCooldown /\ MaxLag < DcCooldown

VARIABLES
  cl,          \* the local state of each client's handler
  blacklist,   \* ws_blacklist
  dcFail,      \* what is left of dc_fail_until, per key
  ipFail,      \* what is left of ip_fail_until, per IP
  active,      \* balancer._dc_to_domain
  barred       \* history: for how long an IP has been cooling down without a break

vars == <<cl, blacklist, dcFail, ipFail, active, barred>>

(* pc      "off" before the handshake is done, "route", "ws" while it dials *)
(*         the DC, a method of do_fallback while it dials that one, "send"  *)
(*         while relay_init goes out, "bridge", "bye" while the OP_CLOSE of *)
(*         its WebSocket goes out, "closed"                                 *)
(* res     how its attempts at the WS domains ended                         *)
(* at      the domain it dials, left the ones it can still try              *)
(* todo    the methods left, refused those that returned False              *)
(* up      the kind of its upstream connection while one is open            *)
(* sent    how often it wrote relay_init; broken: such a write failed       *)
(* end     "peer" if Telegram's OP_CLOSE ended it, "cut" if a cancellation  *)
(*         did while it dialled or said goodbye                             *)
Idle == [pc |-> "off", key |-> CHOOSE k \in Keys : TRUE, lag |-> 0, res |-> <<>>,
         at |-> "none", left |-> {}, todo |-> {}, refused |-> {},
         up |-> "none", sent |-> 0, broken |-> FALSE, end |-> "none"]

Init ==
  /\ cl = [c \in Clients |-> Idle]
  /\ blacklist = {}
  /\ dcFail = [k \in Keys |-> 0]
  /\ ipFail = [i \in Ips |-> 0]
  /\ active \in [Dcs -> CfDomains]
  /\ barred = [i \in Ips |-> 0]

(* Locals a handler does not read again are set back.                      *)
Dialled(r) == [r EXCEPT !.res = <<>>, !.lag = 0]
Chosen(r, kind) ==
  [r EXCEPT !.pc = "send", !.up = kind, !.at = "none", !.left = {}]
(* A handler that ends with the upstream connection u still open.          *)
Over(r, u, end) ==
  [Dialled(r) EXCEPT !.pc = "closed", !.at = "none", !.left = {}, !.todo = {}, !.refused = {},
                     !.up = u, !.end = end]

Key(c) == cl[c].key
Dc(c) == DcOf[Key(c)]
Saw(r, outcome) == \E i \in DOMAIN r : r[i] = outcome

-----------------------------------------------------------------------------
(* do_fallback.                                                            *)

(* The methods do_fallback lists for a key; ms are those of its list that   *)
(* it has not come to yet.                                                 *)
Allowed(k) ==
  {m \in Methods : CASE m = "worker" -> Workers # {} /\ DcOf[k] \in Dst
                     [] m = "cf"     -> CfProxy /\ k \notin TestKeys
                     [] m = "tcp"    -> DcOf[k] \in Dst}
First(ms) == IF "worker" \in ms THEN "worker" ELSE IF "cf" \in ms THEN "cf" ELSE "tcp"
Rest_OneCf(ms) == IF First(ms) = "worker" THEN ms \ {"worker", "cf"} ELSE ms \ {First(ms)}
Rest(ms) == ms \ {First(ms)}

(* The state r of a client that turns to the first method of ms.  A worker *)
(* connection may come from the pool, except for a test DC; the balancer's  *)
(* domain of the DC is tried before the other ones.                         *)
Enter(r, ms) ==
  IF ms = {} THEN {[r EXCEPT !.pc = "closed", !.at = "none"]}
  ELSE LET m == First(ms)
           dials == [r EXCEPT !.pc = m, !.todo = Rest(ms)]
           first == CASE m = "worker" -> Workers
                      [] m = "cf"     -> {active[DcOf[r.key]]}
                      [] m = "tcp"    -> {"dst"}
           all == CASE m = "worker" -> Workers [] m = "cf" -> CfDomains [] m = "tcp" -> {"dst"}
       IN  {[dials EXCEPT !.at = d, !.left = all \ {d}] : d \in first}
             \cup IF m = "worker" /\ r.key \notin TestKeys
                  THEN {Chosen(dials, "worker")} ELSE {}

StartFallback(c, r) == \E s \in Enter(r, Allowed(r.key)) : cl' = [cl EXCEPT ![c] = s]

(* The attempt of a method at one domain fails.                            *)
MethodFail_SameDomain(c) ==
  /\ cl[c].pc \in Methods
  /\ LET again == cl[c].left \cup {cl[c].at}
     IN  \E d \in again : cl' = [cl EXCEPT ![c].at = d, ![c].left = again \ {d}]
  /\ UNCHANGED <<blacklist, dcFail, ipFail, active, barred>>
MethodFail(c) ==
  /\ cl[c].pc \in Methods
  /\ IF cl[c].left # {}
     THEN \E d \in cl[c].left :
            cl' = [cl EXCEPT ![c] = [Dialled(cl[c]) EXCEPT !.at = d, !.left = @ \ {d}]]
     ELSE \E s \in Enter([Dialled(cl[c]) EXCEPT !.refused = @ \cup {cl[c].pc}], cl[c].todo) :
            cl' = [cl EXCEPT ![c] = s]
  /\ UNCHANGED <<blacklist, dcFail, ipFail, active, barred>>

MethodOk(c) ==
  /\ cl[c].pc \in Methods
  /\ cl' = [cl EXCEPT ![c] = Chosen(@, @.pc)]
  /\ active' = IF cl[c].pc = "cf" THEN [active EXCEPT ![Dc(c)] = cl[c].at] ELSE active
  /\ UNCHANGED <<blacklist, dcFail, ipFail, barred>>

-----------------------------------------------------------------------------
(* The routing decision and the attempts at the DC's own WebSocket.        *)

Accept(c) ==
  /\ cl[c].pc = "off"
  /\ \E k \in Keys : cl' = [cl EXCEPT ![c].pc = "route", ![c].key = k]
  /\ UNCHANGED <<blacklist, dcFail, ipFail, active, barred>>

Barred(k) == DcOf[k] \notin DOMAIN Target \/ k \in blacklist
Cooling(k) ==
  DcOf[k] \in DOMAIN Target /\ ipFail[Target[DcOf[k]]] > 0 /\ (CfProxy \/ Workers # {})

(* A connected WebSocket, pooled or new, ends the cool-down of the IP.     *)
Connected(c) ==
  /\ cl' = [cl EXCEPT ![c] = Chosen(@, "ws")]
  /\ ipFail' = [ipFail EXCEPT ![Target[Dc(c)]] = 0]
  /\ barred' = [barred EXCEPT ![Target[Dc(c)]] = 0]
  /\ UNCHANGED <<blacklist, dcFail, active>>

RouteHit(c) ==
  /\ cl[c].pc = "route"
  /\ ~Barred(Key(c)) /\ Key(c) \notin TestKeys
  /\ Connected(c)

RouteFallback(c) ==
  /\ cl[c].pc = "route"
  /\ Barred(Key(c)) \/ Cooling(Key(c))
  /\ StartFallback(c, cl[c])
  /\ UNCHANGED <<blacklist, dcFail, ipFail, active, barred>>

RouteDial(c) ==
  /\ cl[c].pc = "route"
  /\ ~Barred(Key(c)) /\ ~Cooling(Key(c))
  /\ cl' = [cl EXCEPT ![c].pc = "ws"]
  /\ UNCHANGED <<blacklist, dcFail, ipFail, active, barred>>

WsOk(c) == cl[c].pc = "ws" /\ Connected(c)

(* What _handle_client notes down when no domain connected; r is how the    *)
(* attempts ended.  A time-out leaves all_redirects as it was.              *)
Until_Rereads(c, cooldown) == cooldown
Until(c, cooldown) == cooldown - cl[c].lag

IpMarks_Pops(c, r) ==
  [ipFail EXCEPT ![Target[Dc(c)]] = IF Saw(r, "timeout") THEN Until(c, IpCooldown) ELSE 0]
IpMarks(c, r) ==
  IF Saw(r, "timeout") THEN [ipFail EXCEPT ![Target[Dc(c)]] = Until(c, IpCooldown)] ELSE ipFail

GivesUpWs(r) == Saw(r, "redirect") /\ ~Saw(r, "error")

Marks(c, r) ==
  /\ ipFail' = IpMarks(c, r)
  /\ IF GivesUpWs(r)
     THEN blacklist' = blacklist \cup {Key(c)} /\ UNCHANGED dcFail
     ELSE dcFail' = [dcFail EXCEPT ![Key(c)] = Until(c, DcCooldown)] /\ UNCHANGED blacklist

WsFail(c, outcome) ==
  LET r == Append(cl[c].res, outcome)
  IN  /\ cl[c].pc = "ws"
      /\ IF outcome # "timeout" /\ Len(r) < WsDomains
         THEN cl' = [cl EXCEPT ![c].res = r] /\ UNCHANGED <<blacklist, dcFail, ipFail>>
         ELSE Marks(c, r) /\ StartFallback(c, [cl[c] EXCEPT !.res = r, !.lag = 0])
      /\ UNCHANGED <<active, barred>>

-----------------------------------------------------------------------------
(* relay_init, the session, and its end.                                   *)

SendOk(c) ==
  /\ cl[c].pc = "send"
  /\ cl' = [cl EXCEPT ![c] = [Dialled(cl[c]) EXCEPT !.pc = "bridge", !.sent = @ + 1, !.todo = {}]]
  /\ UNCHANGED <<blacklist, dcFail, ipFail, active, barred>>

(* The drain fails, or the handler is cancelled in it.  The exception       *)
(* passes through do_fallback up to the handler's own except clause; nobody *)
(* closes the upstream connection on the way.                              *)
SendFail_NextMethod(c) ==
  /\ cl[c].pc = "send"
  /\ \E s \in Enter([cl[c] EXCEPT !.sent = @ + 1, !.broken = TRUE, !.up = "none"], cl[c].todo) :
       cl' = [cl EXCEPT ![c] = s]
  /\ UNCHANGED <<blacklist, dcFail, ipFail, active, barred>>
SendFail(c) ==
  /\ cl[c].pc = "send"
  /\ cl' = [cl EXCEPT ![c] = [Dialled(cl[c]) EXCEPT !.pc = "closed", !.sent = @ + 1, !.todo = {},
                                               !.broken = TRUE]]
  /\ UNCHANGED <<blacklist, dcFail, ipFail, active, barred>>

(* Either direction ended, or the handler is cancelled while it waits for   *)
(* that.  A TCP bridge closes both its writers.  That of a WebSocket calls  *)
(* close(), which returns at once when recv() saw Telegram's OP_CLOSE and   *)
(* otherwise drains an OP_CLOSE of its own before it closes the transport.  *)
BridgeEnd_Leaves(c) ==
  /\ cl[c].pc = "bridge"
  /\ cl' = [cl EXCEPT ![c] = Over(@, @.up, "none")]
  /\ UNCHANGED <<blacklist, dcFail, ipFail, active, barred>>
BridgeEnd(c) ==
  /\ cl[c].pc = "bridge"
  /\ \/ cl[c].up = "tcp" /\ cl' = [cl EXCEPT ![c] = Over(@, "none", "none")]
     \/ cl[c].up # "tcp" /\ cl' = [cl EXCEPT ![c] = Over(@, @.up, "peer")]
     \/ cl[c].up # "tcp" /\ cl' = [cl EXCEPT ![c].pc = "bye"]
  /\ UNCHANGED <<blacklist, dcFail, ipFail, active, barred>>

SaidBye(c) ==
  /\ cl[c].pc = "bye"
  /\ cl' = [cl EXCEPT ![c] = Over(@, "none", "none")]
  /\ UNCHANGED <<blacklist, dcFail, ipFail, active, barred>>

(* The handler is cancelled in connect() or in the drain of OP_CLOSE.       *)
(* A cancelled connect() does not close its transport, if it has one by     *)
(* then; a TCP connect has none.                                           *)
CancelDial(c) ==
  /\ cl[c].pc \in Methods \cup {"ws"}
  /\ \E u \in {"none", cl[c].pc} \ {"tcp"} : cl' = [cl EXCEPT ![c] = Over(@, u, "cut")]
  /\ UNCHANGED <<blacklist, dcFail, ipFail, active, barred>>
CancelBye(c) ==
  /\ cl[c].pc = "bye"
  /\ cl' = [cl EXCEPT ![c] = Over(@, @.up, "cut")]
  /\ UNCHANGED <<blacklist, dcFail, ipFail, active, barred>>

(* A connect ends within its time-out, so no handler dials for longer than *)
(* MaxLag; only the age of a `now` that will still be used matters.        *)
Tick ==
  /\ \A c \in Clients : cl[c].pc = "ws" => cl[c].lag < MaxLag
  /\ cl' = [c \in Clients |-> IF cl[c].pc = "ws" THEN [cl[c] EXCEPT !.lag = @ + 1] ELSE cl[c]]
  /\ dcFail' = [k \in Keys |-> IF dcFail[k] > 0 THEN dcFail[k] - 1 ELSE 0]
  /\ ipFail' = [i \in Ips |-> IF ipFail[i] > 0 THEN ipFail[i] - 1 ELSE 0]
  /\ barred' = [i \in Ips |-> IF ipFail'[i] = 0 THEN 0 ELSE barred[i] + 1]
  /\ UNCHANGED <<blacklist, active>>

WsAttempt(c) == WsOk(c) \/ \E o \in {"redirect", "timeout", "error"} : WsFail(c, o)
Step(c) ==
  \/ RouteHit(c) \/ RouteFallback(c) \/ RouteDial(c)
  \/ WsAttempt(c)
  \/ MethodOk(c) \/ MethodFail(c)
  \/ SendOk(c) \/ SendFail(c)

SessionEnd(c) == BridgeEnd(c) \/ SaidBye(c) \/ CancelDial(c) \/ CancelBye(c)

Next == Tick \/ \E c \in Clients : Accept(c) \/ Step(c) \/ SessionEnd(c)

(* Every attempt of a handler up to the bridge ends, most of its awaits by  *)
(* a time-out of their own; nothing is assumed of the end of a session.    *)
Fairness == \A c \in Clients : WF_vars(Step(c))

Spec == Init /\ [][Next]_vars /\ Fairness

-----------------------------------------------------------------------------
ClientState ==
  [pc : Methods \cup {"off", "route", "ws", "send", "bridge", "bye", "closed"}, key : Keys,
   lag : 0..MaxLag, res : Seq({"redirect", "timeout", "error"}),
   at : CfDomains \cup Workers \cup {"dst", "none"}, left : SUBSET (CfDomains \cup Workers),
   todo : SUBSET Methods, refused : SUBSET Methods, up : Methods \cup {"none", "ws"},
   sent : Nat, broken : BOOLEAN, end : {"none", "peer", "cut"}]

(* Every variable has its type.                                            *)
TypeOK ==
  /\ cl \in [Clients -> ClientState]
  /\ blacklist \subseteq Keys
  /\ dcFail \in [Keys -> 0..DcCooldown]
  /\ ipFail \in [Ips -> 0..IpCooldown]
  /\ active \in [Dcs -> CfDomains]
  /\ barred \in [Ips -> Nat]

(* One client's key material goes to one upstream connection: whatever     *)
(* fails on the way, relay_init is never written twice.                    *)
RelayOnce == \A c \in Clients : cl[c].sent <= 1

(* A client that ends without a session was refused by every method its    *)
(* configuration allows, unless it was cancelled or relay_init could not be *)
(* written; and it goes to Telegram's own address only after the Cloudflare *)
(* ways failed.                                                            *)
NoWaySkipped ==
  \A c \in Clients :
    /\ cl[c].pc = "closed" /\ cl[c].sent = 0 /\ cl[c].end # "cut" => cl[c].refused = Allowed(Key(c))
    /\ cl[c].up = "tcp" => Allowed(Key(c)) \ {"tcp"} \subseteq cl[c].refused

(* A finished handler leaves its upstream connection open only if           *)
(* relay_init could not be written to it, or if it is a WebSocket whose     *)
(* OP_CLOSE came from Telegram or whose connect or goodbye was cancelled;   *)
(* a TCP connection that carried a session is always closed.               *)
UpstreamClosed ==
  \A c \in Clients : cl[c].pc = "closed" /\ cl[c].up # "none" =>
                        cl[c].broken \/ (cl[c].up # "tcp" /\ cl[c].end # "none")

(* "blacklisted for WS (all 302)", the log line of tg_ws_proxy.py:403: a    *)
(* key is blacklisted when every domain answered with a redirect.          *)
BlacklistOnAllRedirects ==
  [][\A k \in blacklist' \ blacklist :
       \E c \in Clients : /\ Key(c) = k /\ cl[c].pc = "ws" /\ cl'[c].pc # "ws"
                          /\ cl'[c].res = [i \in 1..WsDomains |-> "redirect"]]_vars

(* Handlers finish in any order and count from the time they started, so a *)
(* slow one may cut a cool-down short, but never by more than its own age;  *)
(* apart from the clock only a success takes more.                          *)
CooldownKept ==
  [][\A i \in Ips :
       ipFail'[i] < ipFail[i] - MaxLag =>
         \E c \in Clients : cl[c].pc \in {"route", "ws"} /\ cl'[c].up = "ws" /\ ipFail'[i] = 0]_vars

(* "cooldown for %ds" (tg_ws_proxy.py:397): where a fallback lets clients   *)
(* pass an IP that is cooling down, those already dialling it, whose        *)
(* time-outs come later, cannot keep it barred for longer than that.        *)
CooldownNotProlonged ==
  CfProxy \/ Workers # {} => \A i \in Ips : ipFail[i] > 0 => barred[i] + ipFail[i] <= IpCooldown

(* Every client that passed the handshake is served or turned away.        *)
Answered == \A c \in Clients : cl[c].pc = "route" ~> cl[c].pc \in {"bridge", "closed"}
=============================================================================
