------------------------- MODULE ClientRouterProofs -------------------------
(***************************************************************************)
(* Theorems about ClientRouter, for any number of clients, keys, domains    *)
(* and workers and any configuration: the type invariant, RelayOnce,        *)
(* NoWaySkipped and UpstreamClosed, what a step may take of a cool-down,    *)
(* CooldownKept, and how long one can last, CooldownNotProlonged.          *)
(***************************************************************************)
EXTENDS ClientRouter, TLAPS

(* No upstream connection is open and nothing was sent before a client has *)
(* chosen its way; until then the methods it was refused by, the one it     *)
(* tries and those to come are together all it may use, and Telegram's own  *)
(* address is the last of them.                                            *)
Sound(r) ==
  /\ r.pc \in {"off", "route", "ws"} => r.refused = {}
  /\ r.pc \in {"off", "route", "ws"} \cup Methods => r.up = "none" /\ r.sent = 0
  /\ r.pc \in Methods => /\ r.refused \cup {r.pc} \cup r.todo = Allowed(r.key)
                         /\ r.pc = "tcp" => r.todo = {}
                         /\ r.pc = "cf" => r.at \in CfDomains /\ r.left \subseteq CfDomains
  /\ r.pc = "send" => r.sent = 0
  /\ r.pc \in {"bridge", "bye"} => r.sent = 1
  /\ r.pc = "bye" => r.up # "tcp"
  /\ r.sent <= 1
  /\ r.pc = "closed" => /\ r.sent = 0 => r.end = "cut" \/ r.refused = Allowed(r.key)
                        /\ r.up # "none" => r.broken \/ (r.up # "tcp" /\ r.end # "none")
  /\ r.up = "tcp" => Allowed(r.key) \ {"tcp"} \subseteq r.refused
RouteInv == \A c \in Clients : Sound(cl[c])

-----------------------------------------------------------------------------
(* The next method is one of the list; TCP comes last.                     *)
LEMMA NextMethod ==
  ASSUME NEW ms \in SUBSET Methods, ms # {}
  PROVE  /\ First(ms) \in ms /\ Rest(ms) \subseteq Methods /\ ms = {First(ms)} \cup Rest(ms)
         /\ First(ms) = "tcp" => Rest(ms) = {}
  BY DEF First, Rest, Methods

(* Turning to the next method, or to none, keeps a client's state sound.   *)
LEMMA Entered ==
  ASSUME TypeOK, NEW r \in ClientState, NEW ms \in SUBSET Methods, NEW s \in Enter(r, ms),
         r.up = "none", r.sent = 0, r.refused \cup ms = Allowed(r.key)
  PROVE  s \in ClientState /\ Sound(s)
<1> USE DEF ClientState
<1>1. CASE ms = {}
  <2>1. s = [r EXCEPT !.pc = "closed", !.at = "none"]
    BY <1>1 DEF Enter
  <2>2. /\ s.pc = "closed" /\ s.at = "none" /\ s.key = r.key /\ s.refused = r.refused
        /\ s.up = r.up /\ s.sent = r.sent
    BY <2>1
  <2>3. s \in ClientState
    BY <2>1
  <2>4. Sound(s)
    BY <1>1, <2>2 DEF Sound, Methods
  <2> QED
    BY <2>3, <2>4
<1>2. CASE ms # {}
  <2> DEFINE m == First(ms)
             dials == [r EXCEPT !.pc = m, !.todo = Rest(ms)]
  <2>1. m \in Methods /\ m \in {"worker", "cf", "tcp"}
    BY <1>2, NextMethod DEF Methods
  <2>2. \/ \E d \in CfDomains \cup Workers \cup {"dst"}, S \in SUBSET (CfDomains \cup Workers) :
             /\ s = [dials EXCEPT !.at = d, !.left = S]
             /\ m = "cf" => d \in CfDomains /\ S \subseteq CfDomains
        \/ m = "worker" /\ s = Chosen(dials, "worker")
    <3>1. active[DcOf[r.key]] \in CfDomains
      BY DEF TypeOK, Dcs
    <3>2. CASE m = "worker"
      <4>1. \/ \E d \in Workers : s = [dials EXCEPT !.at = d, !.left = Workers \ {d}]
            \/ s = Chosen(dials, "worker")
        BY <1>2, <3>2 DEF Enter
      <4>2. \A d \in Workers : /\ d \in CfDomains \cup Workers \cup {"dst"}
                               /\ Workers \ {d} \in SUBSET (CfDomains \cup Workers)
        OBVIOUS
      <4> HIDE DEF dials
      <4> QED
        BY <3>2, <4>1, <4>2
    <3>3. CASE m = "cf"
      <4> DEFINE d == active[DcOf[r.key]]
      <4>1. s = [dials EXCEPT !.at = d, !.left = CfDomains \ {d}]
        BY <1>2, <3>3 DEF Enter
      <4>2. d \in CfDomains \cup Workers \cup {"dst"}
            /\ CfDomains \ {d} \in SUBSET (CfDomains \cup Workers)
            /\ d \in CfDomains
        BY <3>1
      <4> HIDE DEF d, dials
      <4> QED
        BY <4>1, <4>2
    <3>4. CASE m = "tcp"
      <4>1. s = [dials EXCEPT !.at = "dst", !.left = {"dst"} \ {"dst"}]
        BY <1>2, <3>4 DEF Enter
      <4>2. {"dst"} \ {"dst"} \in SUBSET (CfDomains \cup Workers)
        OBVIOUS
      <4> HIDE DEF dials
      <4> QED
        BY <3>4, <4>1, <4>2
    <3> QED
      BY <2>1, <3>2, <3>3, <3>4
  <2>3. /\ dials \in ClientState /\ dials.pc = m /\ dials.todo = Rest(ms)
        /\ dials.up = "none" /\ dials.sent = 0 /\ dials.refused = r.refused /\ dials.key = r.key
    BY <1>2, <2>1, NextMethod DEF Methods
  <2> HIDE DEF dials
  <2>4. ASSUME NEW d \in CfDomains \cup Workers \cup {"dst"}, NEW S \in SUBSET (CfDomains \cup Workers),
               s = [dials EXCEPT !.at = d, !.left = S],
               m = "cf" => d \in CfDomains /\ S \subseteq CfDomains
        PROVE  s \in ClientState /\ Sound(s)
    <3>1. /\ s.pc = m /\ s.todo = Rest(ms) /\ s.key = r.key /\ s.refused = r.refused
          /\ s.up = "none" /\ s.sent = 0
          /\ m = "cf" => s.at \in CfDomains /\ s.left \subseteq CfDomains
      BY <2>3, <2>4
    <3>2. s \in ClientState
      BY <2>3, <2>4
    <3>3. Sound(s)
      BY <1>2, <2>1, <3>1, NextMethod DEF Sound, Methods
    <3> QED
      BY <3>2, <3>3
  <2>5. ASSUME m = "worker", s = Chosen(dials, "worker") PROVE s \in ClientState /\ Sound(s)
    <3>1. /\ s.pc = "send" /\ s.up = "worker" /\ s.sent = 0
      BY <2>3, <2>5 DEF Chosen
    <3>2. s \in ClientState
      BY <2>3, <2>5 DEF Chosen, Methods
    <3>3. Sound(s)
      BY <3>1 DEF Sound, Methods
    <3> QED
      BY <3>2, <3>3
  <2> QED
    BY <2>2, <2>4, <2>5
<1> QED
  BY <1>1, <1>2

(* A step of one client changes its own state only.                        *)
LEMMA OneChanges ==
  ASSUME TypeOK, RouteInv, NEW c \in Clients, NEW s,
         cl' = [cl EXCEPT ![c] = s], s \in ClientState, Sound(s)
  PROVE  cl' \in [Clients -> ClientState] /\ RouteInv'
<1>1. cl'[c] = s /\ \A d \in Clients : d # c => cl'[d] = cl[d]
  BY DEF TypeOK
<1>2. cl' \in [Clients -> ClientState]
  BY DEF TypeOK
<1>3. \A d \in Clients : Sound(cl'[d])
  BY <1>1 DEF RouteInv
<1> QED
  BY <1>2, <1>3 DEF RouteInv, Sound
(* An attempt to connect starts a list of results and a clock reading.     *)
LEMMA DialledState ==
  ASSUME NEW r \in ClientState
  PROVE  /\ Dialled(r) \in ClientState
         /\ Dialled(r).pc = r.pc /\ Dialled(r).key = r.key /\ Dialled(r).at = r.at
         /\ Dialled(r).left = r.left /\ Dialled(r).todo = r.todo /\ Dialled(r).refused = r.refused
         /\ Dialled(r).up = r.up /\ Dialled(r).sent = r.sent /\ Dialled(r).broken = r.broken
<1>1. 0 \in 0..MaxLag /\ <<>> \in Seq({"redirect", "timeout", "error"})
  BY LagAssumption
<1> QED
  BY <1>1 DEF Dialled, ClientState

(* A refusal changes nothing but the set of those that refused.            *)
LEMMA IsRefused ==
  ASSUME NEW z \in ClientState, NEW m \in SUBSET Methods
  PROVE  LET s == [z EXCEPT !.refused = m]
         IN  /\ s \in ClientState /\ s.refused = m
             /\ s.key = z.key /\ s.up = z.up /\ s.sent = z.sent
  BY DEF ClientState

(* A handler that gives up the DC turns to the fallbacks.                  *)
LEMMA Falls ==
  ASSUME TypeOK, RouteInv, NEW c \in Clients, NEW r \in ClientState, StartFallback(c, r),
         r.up = "none", r.sent = 0, r.refused = {}
  PROVE  cl' \in [Clients -> ClientState] /\ RouteInv'
<1>1. PICK s \in Enter(r, Allowed(r.key)) : cl' = [cl EXCEPT ![c] = s]
  BY DEF StartFallback
<1>2. Allowed(r.key) \in SUBSET Methods
  BY DEF Allowed
<1>3. s \in ClientState /\ Sound(s)
  BY <1>1, <1>2, Entered
<1> QED
  BY <1>1, <1>3, OneChanges

(* A cool-down lasts no longer than its time.                              *)
LEMMA UntilIn ==
  ASSUME TypeOK, NEW c \in Clients
  PROVE  Until(c, IpCooldown) \in 0..IpCooldown /\ Until(c, DcCooldown) \in 0..DcCooldown
<1>1. cl[c].lag \in 0..MaxLag
  BY DEF TypeOK, ClientState
<1> QED
  BY <1>1, LagAssumption DEF Until
-----------------------------------------------------------------------------
(* The steps of a client.                                                  *)

(* A way that connected may be used when all before it were refused.       *)
LEMMA Chooses ==
  ASSUME NEW r \in ClientState, NEW kind \in Methods \cup {"ws"}, r.sent = 0,
         kind = "tcp" => Allowed(r.key) \ {"tcp"} \subseteq r.refused
  PROVE  Chosen(r, kind) \in ClientState /\ Sound(Chosen(r, kind))
<1> DEFINE s == Chosen(r, kind)
<1>1. s \in ClientState /\ s.pc = "send" /\ s.up = kind /\ s.sent = 0 /\ s.key = r.key /\ s.refused = r.refused
  BY DEF Chosen, ClientState
<1> HIDE DEF s
<1>2. Sound(s)
  BY <1>1 DEF Sound, Methods
<1> QED
  BY <1>1, <1>2 DEF s

(* The methods of do_fallback.                                             *)
LEMMA MethodSteps ==
  ASSUME TypeOK, RouteInv, NEW c \in Clients, MethodOk(c) \/ MethodFail(c)
  PROVE  TypeOK' /\ RouteInv'
<1> DEFINE r == cl[c]
<1>1. /\ r \in ClientState /\ Sound(r) /\ r.pc \in Methods /\ c \in DOMAIN cl
      /\ r.up = "none" /\ r.sent = 0 /\ r.refused \cup {r.pc} \cup r.todo = Allowed(r.key)
  BY DEF TypeOK, RouteInv, Sound, MethodOk, MethodFail
<1>2. CASE MethodOk(c)
  <2>1. cl' = [cl EXCEPT ![c] = Chosen(r, r.pc)]
    BY <1>2 DEF MethodOk
  <2>2. r.pc = "tcp" => Allowed(r.key) \ {"tcp"} \subseteq r.refused
    BY <1>1 DEF Sound
  <2>3. cl' \in [Clients -> ClientState] /\ RouteInv'
    BY <1>1, <2>1, <2>2, Chooses, OneChanges
  <2>4. active' \in [Dcs -> CfDomains]
    BY <1>1, <1>2 DEF MethodOk, TypeOK, Sound
  <2> QED
    BY <1>2, <2>3, <2>4 DEF MethodOk, TypeOK
<1>3. CASE MethodFail(c) /\ r.left # {}
  <2>1. PICK d \in r.left : cl' = [cl EXCEPT ![c] = [Dialled(r) EXCEPT !.at = d, !.left = @ \ {d}]]
    BY <1>3 DEF MethodFail
  <2> DEFINE s == [Dialled(r) EXCEPT !.at = d, !.left = @ \ {d}]
  <2>2. r.left \subseteq CfDomains \cup Workers
    BY <1>1 DEF ClientState
  <2>3. /\ s \in ClientState
        /\ s.pc = r.pc /\ s.key = r.key /\ s.refused = r.refused /\ s.todo = r.todo
        /\ s.up = r.up /\ s.sent = r.sent /\ s.at = d /\ s.left = r.left \ {d}
    <3> DEFINE z == Dialled(r)
    <3> DEFINE l == r.left \ {d}
    <3>1. z \in ClientState /\ z.left = r.left
      BY <1>1, DialledState
    <3>2. l \in SUBSET (CfDomains \cup Workers) /\ d \in CfDomains \cup Workers
      BY <2>2
    <3>3. s = [z EXCEPT !.at = d, !.left = l]
      BY <3>1 DEF ClientState
    <3>4. /\ z.pc = r.pc /\ z.key = r.key /\ z.refused = r.refused /\ z.todo = r.todo
          /\ z.up = r.up /\ z.sent = r.sent
      BY <1>1, DialledState
    <3> HIDE DEF s, z, l
    <3>5. /\ s \in ClientState /\ s.at = d /\ s.left = l
          /\ s.pc = z.pc /\ s.key = z.key /\ s.refused = z.refused /\ s.todo = z.todo
          /\ s.up = z.up /\ s.sent = z.sent
      BY <3>1, <3>2, <3>3 DEF ClientState
    <3> QED
      BY <3>4, <3>5 DEF l
  <2> HIDE DEF s
  <2>4. Sound(s)
    BY <1>1, <2>3 DEF Sound, Methods
  <2>5. cl' \in [Clients -> ClientState] /\ RouteInv'
    BY <2>1, <2>3, <2>4, OneChanges DEF s
  <2> QED
    BY <1>3, <2>5 DEF MethodFail, TypeOK
<1>4. CASE MethodFail(c) /\ r.left = {}
  <2> DEFINE q == [Dialled(r) EXCEPT !.refused = @ \cup {r.pc}]
  <2>1. PICK s \in Enter(q, r.todo) : cl' = [cl EXCEPT ![c] = s]
    BY <1>4 DEF MethodFail
  <2>2. /\ q \in ClientState /\ q.key = r.key /\ q.refused = r.refused \cup {r.pc}
        /\ q.up = r.up /\ q.sent = r.sent
    <3> DEFINE m == r.refused \cup {r.pc}
    <3>1. m \in SUBSET Methods
      BY <1>1 DEF ClientState
    <3>2. Dialled(r) \in ClientState /\ Dialled(r).refused = r.refused
      BY <1>1, DialledState
    <3>3. q = [Dialled(r) EXCEPT !.refused = m]
      BY <3>2 DEF ClientState
    <3> HIDE DEF m, q
    <3>4. /\ q \in ClientState /\ q.refused = m
          /\ q.key = Dialled(r).key /\ q.up = Dialled(r).up /\ q.sent = Dialled(r).sent
      BY <3>1, <3>2, <3>3, IsRefused
    <3> QED
      BY <1>1, <3>4, DialledState DEF m
  <2>3. r.todo \in SUBSET Methods
    BY <1>1 DEF ClientState
  <2> HIDE DEF q
  <2>4. s \in ClientState /\ Sound(s)
    BY <1>1, <2>1, <2>2, <2>3, Entered
  <2>5. cl' \in [Clients -> ClientState] /\ RouteInv'
    BY <2>1, <2>4, OneChanges
  <2> QED
    BY <1>4, <2>5 DEF MethodFail, TypeOK
<1> QED
  BY <1>2, <1>3, <1>4
(* What a step changes of one client, when it changes a few fields.        *)
LEMMA Moves ==
  ASSUME TypeOK, RouteInv, NEW c \in Clients, NEW s \in ClientState,
         cl' = [cl EXCEPT ![c] = s], UNCHANGED <<blacklist, dcFail, ipFail, active, barred>>, Sound(s)
  PROVE  TypeOK' /\ RouteInv'
<1>1. cl' \in [Clients -> ClientState] /\ RouteInv'
  BY OneChanges
<1> QED
  BY <1>1 DEF TypeOK

(* The decision on a route, and a WebSocket that connects.                 *)
LEMMA RouteSteps ==
  ASSUME TypeOK, RouteInv, NEW c \in Clients,
         RouteHit(c) \/ RouteFallback(c) \/ RouteDial(c) \/ WsOk(c)
  PROVE  TypeOK' /\ RouteInv'
<1> DEFINE r == cl[c]
<1>1. /\ r \in ClientState /\ Sound(r) /\ r.pc \in {"route", "ws"}
      /\ r.up = "none" /\ r.sent = 0 /\ r.refused = {}
  BY DEF TypeOK, RouteInv, Sound, RouteHit, RouteFallback, RouteDial, WsOk
<1>2. CASE Connected(c)
  <2>1. Chosen(r, "ws") \in ClientState /\ Sound(Chosen(r, "ws"))
    BY <1>1, Chooses
  <2>2. cl' \in [Clients -> ClientState] /\ RouteInv'
    BY <1>2, <2>1, OneChanges DEF Connected
  <2>3. ipFail' \in [Ips -> 0..IpCooldown]
    <3>1. 0 \in 0..IpCooldown
      BY LagAssumption
    <3> DEFINE i == Target[Dc(c)]
    <3>2. ipFail' = [ipFail EXCEPT ![i] = 0]
      BY <1>2 DEF Connected
    <3> HIDE DEF i
    <3> QED
      BY <3>1, <3>2 DEF TypeOK
  <2>4. barred' \in [Ips -> Nat]
    <3> DEFINE i == Target[Dc(c)]
    <3>1. barred' = [barred EXCEPT ![i] = 0]
      BY <1>2 DEF Connected
    <3> HIDE DEF i
    <3> QED
      BY <3>1 DEF TypeOK
  <2> QED
    BY <1>2, <2>2, <2>3, <2>4 DEF Connected, TypeOK
<1>3. CASE RouteFallback(c)
  <2>1. cl' \in [Clients -> ClientState] /\ RouteInv'
    BY <1>1, <1>3, Falls DEF RouteFallback
  <2> QED
    BY <1>3, <2>1 DEF RouteFallback, TypeOK
<1>4. CASE RouteDial(c)
  <2> DEFINE s == [r EXCEPT !.pc = "ws"]
  <2>1. cl' = [cl EXCEPT ![c] = s]
    BY <1>4 DEF RouteDial
  <2>2. s \in ClientState /\ s.pc = "ws" /\ s.up = "none" /\ s.sent = 0 /\ s.refused = {}
    BY <1>1 DEF ClientState
  <2> HIDE DEF s
  <2>3. Sound(s)
    BY <2>2 DEF Sound, Methods
  <2> QED
    BY <1>4, <2>1, <2>2, <2>3, Moves DEF RouteDial
<1> QED
  BY <1>2, <1>3, <1>4 DEF RouteHit, WsOk

(* A WebSocket of the DC that does not connect.                            *)
LEMMA WsFails ==
  ASSUME TypeOK, RouteInv, NEW c \in Clients, NEW o \in {"redirect", "timeout", "error"}, WsFail(c, o)
  PROVE  TypeOK' /\ RouteInv'
<1> DEFINE r == cl[c]
           res == Append(r.res, o)
<1>1. /\ r \in ClientState /\ Sound(r) /\ r.pc = "ws" /\ active' = active /\ barred' = barred
      /\ r.up = "none" /\ r.sent = 0 /\ r.refused = {}
  BY DEF TypeOK, RouteInv, Sound, WsFail
<1>2. res \in Seq({"redirect", "timeout", "error"})
  BY <1>1 DEF ClientState
<1>3. CASE cl' = [cl EXCEPT ![c].res = res] /\ UNCHANGED <<blacklist, dcFail, ipFail, barred>>
  <2> DEFINE s == [r EXCEPT !.res = res]
  <2>1. cl' = [cl EXCEPT ![c] = s]
    BY <1>3
  <2>2. s \in ClientState /\ s.pc = "ws" /\ s.up = "none" /\ s.sent = 0 /\ s.refused = {}
    BY <1>1, <1>2 DEF ClientState
  <2> HIDE DEF s
  <2>3. Sound(s)
    BY <2>2 DEF Sound, Methods
  <2> QED
    BY <1>1, <1>3, <2>1, <2>2, <2>3, Moves
<1>4. CASE Marks(c, res) /\ StartFallback(c, [r EXCEPT !.res = res, !.lag = 0])
  <2> DEFINE q == [r EXCEPT !.res = res, !.lag = 0]
  <2>1. q \in ClientState /\ q.up = "none" /\ q.sent = 0 /\ q.refused = {}
    <3>1. 0 \in 0..MaxLag
      BY LagAssumption
    <3> QED
      BY <1>1, <1>2, <3>1 DEF ClientState
  <2> HIDE DEF q, res
  <2>2. cl' \in [Clients -> ClientState] /\ RouteInv'
    BY <1>4, <2>1, Falls DEF q
  <2>3. /\ blacklist' \subseteq Keys
        /\ dcFail' \in [Keys -> 0..DcCooldown] /\ ipFail' \in [Ips -> 0..IpCooldown]
    <3>1. Key(c) \in Keys
      BY <1>1 DEF Key, ClientState
    <3> QED
      BY <1>4, <3>1, UntilIn DEF Marks, IpMarks, TypeOK
  <2> QED
    BY <1>1, <2>2, <2>3 DEF TypeOK
<1> QED
  BY <1>3, <1>4 DEF WsFail

(* A handler that is over, after a session or cut short, leaves no TCP      *)
(* connection open, and no other one without a reason.                     *)
LEMMA Overs ==
  ASSUME NEW r \in ClientState, NEW u \in (Methods \cup {"none", "ws"}) \ {"tcp"},
         NEW e \in {"none", "peer", "cut"}, r.sent <= 1,
         u # "none" => e # "none", r.sent = 0 => e = "cut"
  PROVE  Over(r, u, e) \in ClientState /\ Sound(Over(r, u, e))
<1> DEFINE q == Dialled(r)
           s == Over(r, u, e)
<1>1. q \in ClientState /\ q.sent = r.sent
  BY DialledState
<1>2. s = [q EXCEPT !.pc = "closed", !.at = "none", !.left = {}, !.todo = {}, !.refused = {},
                    !.up = u, !.end = e]
  BY DEF Over
<1> HIDE DEF q, s
<1>3. s \in ClientState /\ s.pc = "closed" /\ s.sent = r.sent /\ s.up = u /\ s.end = e
  <2>1. s = [pc |-> "closed", key |-> q.key, lag |-> q.lag, res |-> q.res, at |-> "none", left |-> {},
             todo |-> {}, refused |-> {}, up |-> u, sent |-> q.sent, broken |-> q.broken, end |-> e]
    BY <1>1, <1>2 DEF ClientState
  <2>2. /\ q.key \in Keys /\ q.lag \in 0..MaxLag /\ q.res \in Seq({"redirect", "timeout", "error"})
        /\ q.sent \in Nat /\ q.broken \in BOOLEAN
    BY <1>1 DEF ClientState
  <2>3. s \in ClientState
    BY <2>1, <2>2 DEF ClientState
  <2> QED
    BY <1>1, <2>1, <2>3
<1>4. r.sent \in Nat
  BY DEF ClientState
<1>5. Sound(s)
  BY <1>3, <1>4 DEF Sound, Methods
<1> QED
  BY <1>3, <1>5 DEF s

(* The end of a session, and a cancellation.                               *)
LEMMA EndSteps ==
  ASSUME TypeOK, RouteInv, NEW c \in Clients, SessionEnd(c)
  PROVE  TypeOK' /\ RouteInv'
<1> DEFINE r == cl[c]
<1>1. r \in ClientState /\ Sound(r) /\ UNCHANGED <<blacklist, dcFail, ipFail, active, barred>>
  BY DEF TypeOK, RouteInv, SessionEnd, BridgeEnd, SaidBye, CancelDial, CancelBye
<1>2. CASE \E u \in (Methods \cup {"none", "ws"}) \ {"tcp"}, e \in {"none", "peer", "cut"} :
             /\ cl' = [cl EXCEPT ![c] = Over(r, u, e)]
             /\ u # "none" => e # "none"
             /\ r.sent <= 1 /\ (r.sent = 0 => e = "cut")
  <2>1. PICK u \in (Methods \cup {"none", "ws"}) \ {"tcp"}, e \in {"none", "peer", "cut"} :
             /\ cl' = [cl EXCEPT ![c] = Over(r, u, e)]
             /\ u # "none" => e # "none"
             /\ r.sent <= 1 /\ (r.sent = 0 => e = "cut")
    BY <1>2
  <2>2. Over(r, u, e) \in ClientState /\ Sound(Over(r, u, e))
    BY <1>1, <2>1, Overs
  <2> QED
    BY <1>1, <2>1, <2>2, Moves
<1>3. CASE r.pc = "bridge" /\ r.up # "tcp" /\ cl' = [cl EXCEPT ![c].pc = "bye"]
  <2> DEFINE s == [r EXCEPT !.pc = "bye"]
  <2>1. s \in ClientState /\ s.pc = "bye" /\ s.sent = r.sent /\ s.up = r.up
        /\ s.refused = r.refused /\ s.key = r.key
    BY <1>1 DEF ClientState
  <2>2. cl' = [cl EXCEPT ![c] = s]
    BY <1>3
  <2> HIDE DEF s
  <2>3. Sound(s)
    BY <1>1, <1>3, <2>1 DEF Sound, Methods
  <2> QED
    BY <1>1, <2>1, <2>2, <2>3, Moves
<1>4. r.up \in Methods \cup {"none", "ws"} /\ r.sent <= 1
  BY <1>1 DEF ClientState, Sound
<1>5. CASE BridgeEnd(c) /\ ~(r.up # "tcp" /\ cl' = [cl EXCEPT ![c].pc = "bye"])
  BY <1>1, <1>2, <1>4, <1>5 DEF BridgeEnd, Sound
<1>6. CASE SaidBye(c)
  <2>1. cl' = [cl EXCEPT ![c] = Over(r, "none", "none")]
    BY <1>6 DEF SaidBye
  <2>2. r.sent = 1
    BY <1>1, <1>6 DEF SaidBye, Sound
  <2>3. \E u \in (Methods \cup {"none", "ws"}) \ {"tcp"}, e \in {"none", "peer", "cut"} :
             /\ cl' = [cl EXCEPT ![c] = Over(r, u, e)]
             /\ u # "none" => e # "none"
             /\ r.sent <= 1 /\ (r.sent = 0 => e = "cut")
    <3> "none" \in (Methods \cup {"none", "ws"}) \ {"tcp"} /\ "none" \in {"none", "peer", "cut"}
      OBVIOUS
    <3> WITNESS "none" \in (Methods \cup {"none", "ws"}) \ {"tcp"}, "none" \in {"none", "peer", "cut"}
    <3> QED
      BY <2>1, <2>2
  <2> QED
    BY <1>2, <2>3
<1>7. CASE CancelDial(c)
  BY <1>1, <1>2, <1>7 DEF CancelDial, Sound, Methods
<1>8. CASE CancelBye(c)
  BY <1>1, <1>2, <1>4, <1>8 DEF CancelBye, Sound
<1> QED
  BY <1>3, <1>5, <1>6, <1>7, <1>8 DEF SessionEnd, BridgeEnd

(* The write of relay_init.                                                *)
LEMMA SessionSteps ==
  ASSUME TypeOK, RouteInv, NEW c \in Clients, SendOk(c) \/ SendFail(c) \/ Accept(c)
  PROVE  TypeOK' /\ RouteInv'
<1> DEFINE r == cl[c]
<1>1. r \in ClientState /\ Sound(r)
  BY DEF TypeOK, RouteInv
<1>2. CASE SendOk(c)
  <2> DEFINE s == [Dialled(r) EXCEPT !.pc = "bridge", !.sent = @ + 1, !.todo = {}]
  <2>1. s \in ClientState /\ s.pc = "bridge" /\ s.sent = r.sent + 1 /\ s.up = r.up
        /\ s.refused = r.refused /\ s.key = r.key
    <3> DEFINE q == Dialled(r)
    <3>1. q \in ClientState /\ q.sent = r.sent /\ q.up = r.up /\ q.refused = r.refused /\ q.key = r.key
      BY <1>1, DialledState
    <3>2. r.sent + 1 \in Nat
      BY <1>1 DEF ClientState
    <3> HIDE DEF q
    <3> QED
      BY <3>1, <3>2 DEF ClientState, q
  <2>2. cl' = [cl EXCEPT ![c] = s]
    BY <1>2 DEF SendOk
  <2> HIDE DEF s
  <2>3. Sound(s)
    BY <1>1, <1>2, <2>1 DEF SendOk, Sound, Methods
  <2> QED
    BY <1>2, <2>1, <2>2, <2>3, Moves DEF SendOk
<1>3. CASE SendFail(c)
  <2> DEFINE s == [Dialled(r) EXCEPT !.pc = "closed", !.sent = @ + 1, !.todo = {}, !.broken = TRUE]
  <2>1. s \in ClientState /\ s.pc = "closed" /\ s.sent = r.sent + 1 /\ s.up = r.up
        /\ s.refused = r.refused /\ s.key = r.key /\ s.broken = TRUE
    <3> DEFINE q == Dialled(r)
    <3>1. q \in ClientState /\ q.sent = r.sent /\ q.up = r.up /\ q.refused = r.refused /\ q.key = r.key
      BY <1>1, DialledState
    <3>2. r.sent + 1 \in Nat
      BY <1>1 DEF ClientState
    <3> HIDE DEF q
    <3> QED
      BY <3>1, <3>2 DEF ClientState, q
  <2>2. cl' = [cl EXCEPT ![c] = s]
    BY <1>3 DEF SendFail
  <2> HIDE DEF s
  <2>3. Sound(s)
    BY <1>1, <1>3, <2>1 DEF SendFail, Sound, Methods
  <2> QED
    BY <1>3, <2>1, <2>2, <2>3, Moves DEF SendFail
<1>4. CASE Accept(c)
  <2>1. PICK k \in Keys : cl' = [cl EXCEPT ![c] = [r EXCEPT !.pc = "route", !.key = k]]
    BY <1>4 DEF Accept, TypeOK
  <2> DEFINE s == [r EXCEPT !.pc = "route", !.key = k]
  <2>2. s \in ClientState /\ s.pc = "route" /\ s.sent = r.sent /\ s.up = r.up /\ s.refused = r.refused
    BY <1>1 DEF ClientState
  <2> HIDE DEF s
  <2>3. Sound(s)
    BY <1>1, <1>4, <2>2 DEF Accept, Sound, Methods
  <2> QED
    BY <1>4, <2>1, <2>2, <2>3, Moves DEF Accept, s
<1> QED
  BY <1>2, <1>3, <1>4

(* The clock.                                                              *)
LEMMA TickStep == ASSUME TypeOK, RouteInv, Tick PROVE TypeOK' /\ RouteInv'
<1>1. /\ dcFail' \in [Keys -> 0..DcCooldown] /\ ipFail' \in [Ips -> 0..IpCooldown]
      /\ UNCHANGED <<blacklist, active>>
  BY LagAssumption DEF Tick, TypeOK
<1>2. ASSUME NEW c \in Clients PROVE cl'[c] \in ClientState /\ Sound(cl'[c])
  <2>1. cl[c] \in ClientState /\ Sound(cl[c])
    BY DEF TypeOK, RouteInv
  <2>2. CASE cl[c].pc = "ws"
    <3> DEFINE s == [cl[c] EXCEPT !.lag = @ + 1]
    <3>1. cl'[c] = s /\ cl[c].lag + 1 \in 0..MaxLag
      BY <2>1, <2>2, LagAssumption DEF Tick, ClientState
    <3>2. s \in ClientState /\ s.pc = "ws" /\ s.refused = cl[c].refused /\ s.up = cl[c].up
          /\ s.sent = cl[c].sent
      BY <2>1, <2>2, <3>1 DEF ClientState
    <3> HIDE DEF s
    <3>3. Sound(s)
      BY <2>1, <2>2, <3>2 DEF Sound, Methods
    <3> QED
      BY <3>1, <3>2, <3>3
  <2>3. CASE cl[c].pc # "ws"
    <3>1. cl'[c] = cl[c]
      BY <2>3 DEF Tick
    <3> QED
      BY <2>1, <3>1
  <2> QED
    BY <2>2, <2>3
<1>3. cl' \in [Clients -> ClientState]
  <2>1. cl' = [c \in Clients |-> cl'[c]]
    BY DEF Tick
  <2> QED
    BY <1>2, <2>1
<1>4. barred' \in [Ips -> Nat]
  BY DEF Tick, TypeOK
<1> QED
  BY <1>1, <1>2, <1>3, <1>4 DEF TypeOK, RouteInv, Sound

(* No client has come yet.                                                 *)
LEMMA RouteInit == Init => TypeOK /\ RouteInv
<1> SUFFICES ASSUME Init PROVE TypeOK /\ RouteInv
  OBVIOUS
<1>1. Idle \in ClientState /\ Idle.pc = "off" /\ Idle.up = "none" /\ Idle.sent = 0 /\ Idle.refused = {}
  <2>1. 0 \in 0..MaxLag /\ <<>> \in Seq({"redirect", "timeout", "error"})
    BY LagAssumption
  <2>2. (CHOOSE k \in Keys : TRUE) \in Keys
    BY ConfigAssumption
  <2> QED
    BY <2>1, <2>2 DEF Idle, ClientState
<1>2. Sound(Idle)
  BY <1>1 DEF Sound, Methods
<1>3. dcFail \in [Keys -> 0..DcCooldown] /\ ipFail \in [Ips -> 0..IpCooldown]
  BY LagAssumption DEF Init
<1> QED
  BY <1>1, <1>2, <1>3 DEF Init, TypeOK, RouteInv

(* Every step.                                                             *)
LEMMA RouteNext == TypeOK /\ RouteInv /\ [Next]_vars => TypeOK' /\ RouteInv'
<1> SUFFICES ASSUME TypeOK, RouteInv, [Next]_vars PROVE TypeOK' /\ RouteInv'
  OBVIOUS
<1>1. CASE UNCHANGED vars
  BY <1>1 DEF vars, TypeOK, RouteInv, Sound
<1>2. ASSUME NEW c \in Clients, Step(c) PROVE TypeOK' /\ RouteInv'
  BY <1>2, MethodSteps, RouteSteps, WsFails, SessionSteps DEF Step, WsAttempt
<1>3. ASSUME NEW c \in Clients, Accept(c) \/ SessionEnd(c) PROVE TypeOK' /\ RouteInv'
  BY <1>3, SessionSteps, EndSteps
<1> QED
  BY <1>1, <1>2, <1>3, TickStep DEF Next

(* The records of all clients are sound at all times.                      *)
LEMMA RouteInvHolds == Spec => []TypeOK /\ []RouteInv
  BY RouteInit, RouteNext, PTL DEF Spec

(* Every variable of the router keeps its type.                            *)
THEOREM RouterTypes == Spec => []TypeOK
  BY RouteInvHolds, PTL

(* Whatever fails on the way, no client's relay_init is written twice.     *)
THEOREM RelayOnceHolds == Spec => []RelayOnce
<1>1. RouteInv => RelayOnce
  BY DEF RouteInv, Sound, RelayOnce
<1> QED
  BY <1>1, RouteInvHolds, PTL

(* Nobody is turned away before every allowed method refused, and Telegram's*)
(* own address comes last.                                                 *)
THEOREM NoWaySkippedHolds == Spec => []NoWaySkipped
<1>1. RouteInv => NoWaySkipped
  BY DEF RouteInv, Sound, NoWaySkipped, Key
<1> QED
  BY <1>1, RouteInvHolds, PTL

(* A finished handler left its upstream connection open only if relay_init *)
(* could not be written to it, or if it is a WebSocket that Telegram's      *)
(* OP_CLOSE or a cancellation ended.                                       *)
THEOREM UpstreamClosedHolds == Spec => []UpstreamClosed
<1>1. RouteInv => UpstreamClosed
  BY DEF RouteInv, Sound, UpstreamClosed
<1> QED
  BY <1>1, RouteInvHolds, PTL

-----------------------------------------------------------------------------
(* What a step may do to the tables the clients share.                     *)

(* A step takes no more of a cool-down than the longest time a handler can  *)
(* take, unless it is that of a client whose WebSocket connected.          *)
THEOREM CooldownKeptHolds == Spec => CooldownKept
<1> DEFINE A == \A i \in Ips : ipFail'[i] < ipFail[i] - MaxLag =>
                  \E c \in Clients : cl[c].pc \in {"route", "ws"} /\ cl'[c].up = "ws" /\ ipFail'[i] = 0
<1>1. TypeOK /\ [Next]_vars => A
  <2> SUFFICES ASSUME TypeOK, [Next]_vars, NEW i \in Ips, ipFail'[i] < ipFail[i] - MaxLag
               PROVE  \E c \in Clients : cl[c].pc \in {"route", "ws"} /\ cl'[c].up = "ws" /\ ipFail'[i] = 0
    OBVIOUS
  <2>1. ipFail \in [Ips -> 0..IpCooldown] /\ ipFail[i] \in 0..IpCooldown
    BY DEF TypeOK
  <2>2. ~Tick
    BY <2>1, LagAssumption DEF Tick
  <2>3. ASSUME NEW c \in Clients, NEW o \in {"redirect", "timeout", "error"}, WsFail(c, o) PROVE FALSE
    <3>1. cl[c].lag \in 0..MaxLag
      BY DEF TypeOK, ClientState
    <3>2. ipFail'[i] = ipFail[i] \/ ipFail'[i] = IpCooldown - cl[c].lag
      BY <2>1, <2>3 DEF WsFail, Marks, IpMarks, Until
    <3> QED
      BY <2>1, <3>1, <3>2, LagAssumption
  <2>4. ipFail' # ipFail
    BY <2>1, LagAssumption
  <2>5. PICK c \in Clients : cl[c].pc \in {"route", "ws"} /\ Connected(c)
    BY <2>2, <2>3, <2>4
    DEF Next, Accept, Step, SessionEnd, BridgeEnd, SaidBye, CancelDial, CancelBye, RouteHit, RouteFallback, RouteDial, WsAttempt, WsOk,
        MethodOk, MethodFail, SendOk, SendFail, vars
  <2>6. ipFail'[i] = 0
    BY <2>1, <2>5, LagAssumption DEF Connected
  <2>7. cl'[c].up = "ws"
    <3>1. cl[c] \in ClientState /\ cl'[c] = Chosen(cl[c], "ws")
      BY <2>5 DEF TypeOK, Connected
    <3> QED
      BY <3>1 DEF Chosen, ClientState
  <2> QED
    BY <2>5, <2>6, <2>7
<1>2. TypeOK /\ [Next]_vars => [A]_vars
  BY <1>1
<1> QED
  BY <1>2, RouterTypes, PTL DEF Spec, CooldownKept

-----------------------------------------------------------------------------
(* How long a cool-down can last.                                          *)

(* A client that still dials an IP that is cooling down read the clock      *)
(* before the cool-down began, so its own time-out cannot move the end.     *)
BarInv ==
  \A i \in Ips :
    /\ ipFail[i] = 0 => barred[i] = 0
    /\ ipFail[i] > 0 /\ (CfProxy \/ Workers # {}) =>
         /\ barred[i] + ipFail[i] <= IpCooldown
         /\ \A c \in Clients : cl[c].pc = "ws" /\ Target[Dc(c)] = i => barred[i] <= cl[c].lag

(* A client that turns to a method, or to none, dials the DC no more.       *)
LEMMA EnterLeaves ==
  ASSUME NEW r \in ClientState, NEW ms \in SUBSET Methods, NEW s \in Enter(r, ms)
  PROVE  s.pc # "ws"
<1> USE DEF ClientState
<1>1. CASE ms = {}
  BY <1>1 DEF Enter
<1>2. CASE ms # {}
  <2> DEFINE dials == [r EXCEPT !.pc = First(ms), !.todo = Rest(ms)]
  <2>1. dials.pc # "ws"
    BY <1>2, NextMethod DEF Methods
  <2>2. dials \in ClientState
    BY <1>2, NextMethod, ZenonT(30)
  <2>3. (\E d, S : s = [dials EXCEPT !.at = d, !.left = S]) \/ s = Chosen(dials, "worker")
    BY <1>2, ZenonT(30) DEF Enter
  <2> HIDE DEF dials
  <2>4. CASE s = Chosen(dials, "worker")
    BY <2>2, <2>4 DEF Chosen
  <2>5. CASE \E d, S : s = [dials EXCEPT !.at = d, !.left = S]
    <3>1. PICK d, S : s = [dials EXCEPT !.at = d, !.left = S]
      BY <2>5
    <3>2. s.pc = dials.pc
      BY <2>2, <3>1
    <3> QED
      BY <2>1, <3>2
  <2> QED
    BY <2>3, <2>4, <2>5
<1> QED
  BY <1>1, <1>2

(* A client that leaves the DC's WebSockets, or was not at them.           *)
LEMMA BarKept ==
  ASSUME TypeOK, BarInv, NEW c \in Clients, NEW s,
         cl' = [cl EXCEPT ![c] = s], s.pc # "ws", UNCHANGED <<ipFail, barred>>
  PROVE  BarInv'
<1>1. cl'[c] = s /\ \A d \in Clients : d # c => cl'[d] = cl[d]
  BY DEF TypeOK
<1> QED
  BY <1>1 DEF BarInv, Dc, Key

(* A WebSocket attempt that is not the last leaves key and clock reading.  *)
LEMMA BarFails ==
  ASSUME TypeOK, BarInv, NEW c \in Clients, NEW o \in {"redirect", "timeout", "error"}, WsFail(c, o)
  PROVE  BarInv'
<1> DEFINE r == cl[c]
           res == Append(r.res, o)
<1>1. /\ r \in ClientState /\ r.pc = "ws" /\ barred' = barred
      /\ res \in Seq({"redirect", "timeout", "error"})
  BY DEF TypeOK, WsFail, ClientState
<1>2. CASE cl' = [cl EXCEPT ![c].res = res] /\ UNCHANGED <<blacklist, dcFail, ipFail>>
  <2>1. /\ \A d \in Clients : d # c => cl'[d] = cl[d]
        /\ cl'[c].pc = r.pc /\ cl'[c].key = r.key /\ cl'[c].lag = r.lag
    BY <1>1, <1>2 DEF TypeOK, ClientState
  <2>2. \A d \in Clients : cl'[d].pc = cl[d].pc /\ cl'[d].key = cl[d].key /\ cl'[d].lag = cl[d].lag
    BY <2>1
  <2> QED
    BY <1>1, <1>2, <2>2 DEF BarInv, Dc, Key
<1>3. CASE Marks(c, res) /\ StartFallback(c, [r EXCEPT !.res = res, !.lag = 0])
  <2> DEFINE q == [r EXCEPT !.res = res, !.lag = 0]
  <2>1. q \in ClientState
    <3>1. 0 \in 0..MaxLag
      BY LagAssumption
    <3> QED
      BY <1>1, <3>1 DEF ClientState
  <2> HIDE DEF q, res
  <2>2. PICK s \in Enter(q, Allowed(q.key)) : cl' = [cl EXCEPT ![c] = s]
    BY <1>3 DEF StartFallback, q
  <2>3. Allowed(q.key) \in SUBSET Methods
    BY DEF Allowed
  <2>4. s.pc # "ws"
    BY <2>1, <2>2, <2>3, EnterLeaves
  <2>5. cl'[c] = s /\ \A d \in Clients : d # c => cl'[d] = cl[d]
    BY <2>2 DEF TypeOK
  <2>6. /\ ipFail \in [Ips -> 0..IpCooldown] /\ barred \in [Ips -> Nat]
        /\ \A d \in Clients : cl[d].lag \in 0..MaxLag
    BY DEF TypeOK, ClientState
  <2>7. \A i \in Ips : \/ ipFail'[i] = ipFail[i]
                       \/ i = Target[Dc(c)] /\ ipFail'[i] = IpCooldown - r.lag
    BY <1>3, <2>6 DEF Marks, IpMarks, Until
  <2>8. ASSUME NEW i \in Ips
        PROVE  /\ ipFail'[i] = 0 => barred[i] = 0
               /\ ipFail'[i] > 0 /\ (CfProxy \/ Workers # {}) =>
                    /\ barred[i] + ipFail'[i] <= IpCooldown
                    /\ \A d \in Clients : cl'[d].pc = "ws" /\ Target[Dc(d)]' = i => barred[i] <= cl'[d].lag
    <3>1. /\ ipFail[i] \in 0..IpCooldown /\ barred[i] \in Nat
          /\ r.lag \in 0..MaxLag /\ IpCooldown - r.lag > 0 /\ IpCooldown \in Nat
      BY <2>6, LagAssumption
    <3>2. ASSUME NEW d \in Clients, cl'[d].pc = "ws", Target[Dc(d)]' = i
          PROVE  d # c /\ cl[d].pc = "ws" /\ Target[Dc(d)] = i /\ cl'[d].lag = cl[d].lag
      BY <2>4, <2>5, <3>2 DEF Dc, Key
    <3>3. ipFail[i] = 0 => barred[i] = 0
      BY DEF BarInv
    <3>4. ipFail'[i] = 0 => barred[i] = 0
      BY <2>7, <3>1, <3>3
    <3>5. ASSUME CfProxy \/ Workers # {}, ipFail'[i] > 0
          PROVE  /\ barred[i] + ipFail'[i] <= IpCooldown
                 /\ \A d \in Clients : cl'[d].pc = "ws" /\ Target[Dc(d)]' = i => barred[i] <= cl'[d].lag
      <4>1. CASE ipFail[i] = 0
        <5>1. barred[i] = 0
          BY <3>3, <4>1
        <5>2. barred[i] + ipFail'[i] <= IpCooldown
          BY <2>7, <3>1, <4>1, <5>1
        <5>3. \A d \in Clients : barred[i] <= cl'[d].lag \/ cl'[d].pc # "ws" \/ Target[Dc(d)]' # i
          BY <2>6, <3>2, <5>1
        <5> QED
          BY <5>2, <5>3
      <4>2. CASE ipFail[i] # 0
        <5>1. /\ barred[i] + ipFail[i] <= IpCooldown
              /\ \A d \in Clients : cl[d].pc = "ws" /\ Target[Dc(d)] = i => barred[i] <= cl[d].lag
          BY <3>1, <3>5, <4>2 DEF BarInv
        <5>2. Target[Dc(c)] = i => barred[i] <= r.lag
          BY <1>1, <5>1
        <5>3. barred[i] + ipFail'[i] <= IpCooldown
          BY <2>7, <3>1, <5>1, <5>2
        <5>4. \A d \in Clients : barred[i] <= cl'[d].lag \/ cl'[d].pc # "ws" \/ Target[Dc(d)]' # i
          BY <3>2, <5>1
        <5> QED
          BY <5>3, <5>4
      <4> QED
        BY <4>1, <4>2
    <3> QED
      BY <3>4, <3>5
  <2> QED
    BY <1>1, <2>8 DEF BarInv
<1> QED
  BY <1>2, <1>3 DEF WsFail

(* The clock, which counts for those that dial as for the cool-down.       *)
LEMMA BarTick == ASSUME TypeOK, BarInv, Tick PROVE BarInv'
<1>1. /\ ipFail \in [Ips -> 0..IpCooldown] /\ barred \in [Ips -> Nat] /\ cl \in [Clients -> ClientState]
  BY DEF TypeOK
<1>2. \A c \in Clients : /\ cl'[c].pc = cl[c].pc /\ cl'[c].key = cl[c].key
                         /\ cl[c].pc = "ws" => cl'[c].lag = cl[c].lag + 1
  BY <1>1 DEF Tick, ClientState
<1>3. \A i \in Ips : /\ ipFail'[i] = IF ipFail[i] > 0 THEN ipFail[i] - 1 ELSE 0
                     /\ barred'[i] = IF ipFail'[i] = 0 THEN 0 ELSE barred[i] + 1
  BY DEF Tick
<1>4. \A c \in Clients : cl[c].lag \in Nat
  BY <1>1 DEF ClientState
<1>5. \A i \in Ips : ipFail[i] \in Nat /\ barred[i] \in Nat
  BY <1>1
<1>6. IpCooldown \in Nat
  BY LagAssumption
<1>7. ASSUME NEW i \in Ips, ipFail'[i] > 0, CfProxy \/ Workers # {}
      PROVE  barred'[i] + ipFail'[i] <= IpCooldown
  BY <1>3, <1>5, <1>6, <1>7 DEF BarInv
<1>8. ASSUME NEW i \in Ips, ipFail'[i] > 0, CfProxy \/ Workers # {},
             NEW c \in Clients, cl'[c].pc = "ws", Target[Dc(c)]' = i
      PROVE  barred'[i] <= cl'[c].lag
  <2>1. Target[Dc(c)] = i /\ cl[c].pc = "ws" /\ cl'[c].lag = cl[c].lag + 1
    BY <1>2, <1>8 DEF Dc, Key
  <2>2. ipFail[i] > 0 /\ barred'[i] = barred[i] + 1
    BY <1>3, <1>5, <1>8
  <2>3. barred[i] <= cl[c].lag
    BY <1>8, <2>1, <2>2 DEF BarInv
  <2> QED
    BY <1>4, <1>5, <2>1, <2>2, <2>3
<1>9. \A i \in Ips : ipFail'[i] = 0 => barred'[i] = 0
  BY <1>3
<1> QED
  BY <1>7, <1>8, <1>9 DEF BarInv

(* A connected WebSocket, and a client that begins to dial.                *)
LEMMA BarRoutes ==
  ASSUME TypeOK, BarInv, NEW c \in Clients, Connected(c) \/ RouteFallback(c) \/ RouteDial(c)
  PROVE  BarInv'
<1>1. /\ ipFail \in [Ips -> 0..IpCooldown] /\ barred \in [Ips -> Nat] /\ cl \in [Clients -> ClientState]
  BY DEF TypeOK
<1>2. CASE Connected(c)
  <2>1. /\ \A d \in Clients : d # c => cl'[d] = cl[d]
        /\ cl'[c].pc = "send"
    BY <1>1, <1>2 DEF Connected, Chosen, ClientState
  <2>2. \A i \in Ips : \/ ipFail'[i] = 0 /\ barred'[i] = 0
                       \/ ipFail'[i] = ipFail[i] /\ barred'[i] = barred[i]
    BY <1>1, <1>2 DEF Connected
  <2>3. \A d \in Clients : cl'[d].pc = "ws" =>
          cl[d].pc = "ws" /\ cl'[d].key = cl[d].key /\ cl'[d].lag = cl[d].lag
    BY <2>1
  <2> QED
    BY <2>2, <2>3 DEF BarInv, Dc, Key
<1>3. CASE RouteFallback(c)
  <2>1. PICK s \in Enter(cl[c], Allowed(cl[c].key)) : cl' = [cl EXCEPT ![c] = s]
    BY <1>3 DEF RouteFallback, StartFallback
  <2>2. Allowed(cl[c].key) \in SUBSET Methods /\ cl[c] \in ClientState
    BY <1>1 DEF Allowed
  <2>3. s.pc # "ws"
    BY <2>1, <2>2, EnterLeaves
  <2> QED
    BY <1>3, <2>1, <2>3, BarKept DEF RouteFallback
<1>4. CASE RouteDial(c)
  <2>1. /\ \A d \in Clients : d # c => cl'[d] = cl[d]
        /\ cl'[c].key = cl[c].key /\ UNCHANGED <<ipFail, barred>>
    BY <1>1, <1>4 DEF RouteDial, ClientState
  <2>2. (CfProxy \/ Workers # {}) => ~(ipFail[Target[Dc(c)]] > 0)
    BY <1>4 DEF RouteDial, Barred, Cooling, Dc, Key
  <2> QED
    BY <2>1, <2>2 DEF BarInv, Dc, Key
<1> QED
  BY <1>2, <1>3, <1>4

(* The other steps of a client, which is not at the DC's WebSockets after   *)
(* them, leave the tables alone.                                           *)
LEMMA BarOthers ==
  ASSUME TypeOK, BarInv, NEW c \in Clients,
         Accept(c) \/ MethodOk(c) \/ MethodFail(c) \/ SendOk(c) \/ SendFail(c) \/ SessionEnd(c)
  PROVE  BarInv'
<1> DEFINE r == cl[c]
<1>1. /\ r \in ClientState /\ Dialled(r) \in ClientState /\ Dialled(r).pc = r.pc
      /\ UNCHANGED <<ipFail, barred>>
  BY DialledState
  DEF TypeOK, Accept, MethodOk, MethodFail, SendOk, SendFail, SessionEnd, BridgeEnd, SaidBye,
      CancelDial, CancelBye
<1>2. CASE Accept(c)
  <2>1. PICK k \in Keys : cl' = [cl EXCEPT ![c] = [r EXCEPT !.pc = "route", !.key = k]]
    BY <1>2 DEF Accept, TypeOK
  <2> DEFINE s == [r EXCEPT !.pc = "route", !.key = k]
  <2>2. s.pc = "route"
    BY <1>1 DEF ClientState
  <2> HIDE DEF s
  <2> QED
    BY <1>1, <2>1, <2>2, BarKept DEF s
<1>3. CASE MethodOk(c)
  <2>1. Chosen(r, r.pc).pc = "send"
    BY <1>1 DEF Chosen, ClientState
  <2> QED
    BY <1>1, <1>3, <2>1, BarKept DEF MethodOk
<1>4. CASE MethodFail(c) /\ r.left # {}
  <2>1. PICK d \in r.left : cl' = [cl EXCEPT ![c] = [Dialled(r) EXCEPT !.at = d, !.left = @ \ {d}]]
    BY <1>4 DEF MethodFail
  <2> DEFINE s == [Dialled(r) EXCEPT !.at = d, !.left = @ \ {d}]
  <2>2. s.pc = r.pc /\ r.pc # "ws"
    BY <1>1, <1>4 DEF ClientState, MethodFail, Methods
  <2> HIDE DEF s
  <2> QED
    BY <1>1, <2>1, <2>2, BarKept DEF s
<1>5. CASE MethodFail(c) /\ r.left = {}
  <2> DEFINE m == r.refused \cup {r.pc}
             q == [Dialled(r) EXCEPT !.refused = m]
  <2>1. PICK s \in Enter([Dialled(r) EXCEPT !.refused = @ \cup {r.pc}], r.todo) : cl' = [cl EXCEPT ![c] = s]
    BY <1>5 DEF MethodFail
  <2>2. /\ m \in SUBSET Methods /\ r.todo \in SUBSET Methods /\ r.refused = Dialled(r).refused
    BY <1>1, <1>5, DialledState DEF MethodFail, ClientState
  <2>3. s \in Enter(q, r.todo)
    BY <1>1, <2>1, <2>2
  <2> HIDE DEF m
  <2>4. q \in ClientState
    BY <1>1, <2>2, IsRefused
  <2> HIDE DEF q
  <2>5. s.pc # "ws"
    BY <2>2, <2>3, <2>4, EnterLeaves
  <2> QED
    BY <1>1, <2>1, <2>5, BarKept
<1>6. CASE SendOk(c) \/ SendFail(c)
  <2> DEFINE ok == [Dialled(r) EXCEPT !.pc = "bridge", !.sent = @ + 1, !.todo = {}]
             broke == [Dialled(r) EXCEPT !.pc = "closed", !.sent = @ + 1, !.todo = {}, !.broken = TRUE]
  <2>1. ok.pc # "ws" /\ broke.pc # "ws"
    BY <1>1 DEF ClientState
  <2>2. cl' = [cl EXCEPT ![c] = ok] \/ cl' = [cl EXCEPT ![c] = broke]
    BY <1>6 DEF SendOk, SendFail
  <2> HIDE DEF ok, broke
  <2> QED
    BY <1>1, <2>1, <2>2, BarKept
<1>7. CASE SessionEnd(c)
  <2>1. \A u, e : Over(r, u, e).pc = "closed"
    BY <1>1 DEF Over, ClientState
  <2>2. \E s : cl' = [cl EXCEPT ![c] = s] /\ s.pc # "ws"
    <3>1. CASE \E u, e : cl' = [cl EXCEPT ![c] = Over(r, u, e)]
      BY <2>1, <3>1
    <3>2. CASE cl' = [cl EXCEPT ![c].pc = "bye"]
      <4> DEFINE s == [r EXCEPT !.pc = "bye"]
      <4>1. cl' = [cl EXCEPT ![c] = s] /\ s.pc # "ws"
        BY <1>1, <3>2 DEF ClientState
      <4> HIDE DEF s
      <4> QED
        BY <4>1
    <3> QED
      BY <1>7, <3>1, <3>2 DEF SessionEnd, BridgeEnd, SaidBye, CancelDial, CancelBye
  <2> QED
    BY <1>1, <2>2, BarKept
<1> QED
  BY <1>2, <1>3, <1>4, <1>5, <1>6, <1>7

(* An IP is passed over for no longer than its cool-down where a fallback   *)
(* lets new clients pass it over: what those already dialling it write      *)
(* down later ends no later than the first time-out said.                  *)
THEOREM CooldownNotProlongedHolds == Spec => []CooldownNotProlonged
<1>1. Init => BarInv
  BY DEF Init, BarInv
<1>2. TypeOK /\ BarInv /\ [Next]_vars => BarInv'
  <2> SUFFICES ASSUME TypeOK, BarInv, [Next]_vars PROVE BarInv'
    OBVIOUS
  <2>1. CASE UNCHANGED vars
    BY <2>1 DEF vars, BarInv, Dc, Key
  <2>2. ASSUME NEW c \in Clients, Accept(c) \/ Step(c) \/ SessionEnd(c) PROVE BarInv'
    BY <2>2, BarRoutes, BarFails, BarOthers DEF Step, WsAttempt, WsOk, RouteHit
  <2> QED
    BY <2>1, <2>2, BarTick DEF Next
<1>3. BarInv => CooldownNotProlonged
  BY DEF BarInv, CooldownNotProlonged
<1> QED
  BY <1>1, <1>2, <1>3, RouterTypes, PTL DEF Spec
=============================================================================
