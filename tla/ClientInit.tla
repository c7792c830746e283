----------------------------- MODULE ClientInit -----------------------------
(***************************************************************************)
(* How a connection begins: _read_client_init and the decision after it in  *)
(* _handle_client (proxy/tg_ws_proxy.py), and the relay to the masking      *)
(* domain, proxy_to_masking_domain of proxy/fake_tls.py.                    *)
(*                                                                         *)
(* Keys and HMACs are an outcome: the ClientHello is verified or not, the   *)
(* obfuscated init fits the secret or not.  The client is a peer that sends *)
(* what it likes and may stop at any time; the server may be told to stop   *)
(* at any time.  An operator X_Y is a faulty variant of X that some         *)
(* property must catch.                                                    *)
(***************************************************************************)
EXTENDS FakeTls

CONSTANTS
  Wires,      \* sequences of records a client may send after its ClientHello
  MaxProbe,   \* bound: bytes a prober sends after its ClientHello
  MaxReply    \* bound: bytes the masking domain sends

ASSUME ProbeAssumption == MaxProbe \in Nat /\ MaxReply \in Nat
ASSUME WireAssumption == \A w \in Wires : Sendable(w)

VARIABLES
  masking,    \* whether proxy_config.fake_tls_domain is set
  script,     \* the client's records
  hello,      \* its ClientHello: "good", "bad", or "none" when it is no TLS
  init,       \* whether its init fits the secret
  garbled,    \* a line was taken for a PROXY header that was none
  at,         \* where the handler is
  out,        \* what was written to the client
  upConn,     \* the connection to the masking domain
  toMask,     \* what was written to it; the ClientHello is 0, the rest 1, 2, ...
  replied,    \* bytes of the masking domain passed on
  relay,      \* where the two relays are
  clientOpen  \* whether the client's connection is open on this side

client == <<masking, script, hello, init>>
maskVars == <<upConn, toMask, replied, relay>>
vars == <<tlsVars, client, garbled, at, out, maskVars, clientOpen>>

Directions == {"up", "down"}

Init ==
  /\ masking \in BOOLEAN /\ script \in Wires
  /\ hello \in {"good", "bad", "none"} /\ init \in {"good", "bad"}
  /\ garbled = FALSE
  /\ at \in {"proxy", "first"} /\ out = {}
  /\ upConn = "none" /\ toMask = <<>> /\ replied = 0
  /\ relay = [d \in Directions |-> "none"]
  /\ clientOpen = TRUE
  /\ wire = script /\ left = 0 /\ buf = <<>> /\ got = <<>> /\ count = 0

-----------------------------------------------------------------------------
(* _read_client_init.                                                      *)

Goes(from, to) == at = from /\ at' = to

(* A line that is no PROXY header is logged and gone all the same; an end  *)
(* of the connection shows only at the next read.                          *)
ReadProxyLine ==
  /\ Goes("proxy", "first")
  /\ garbled' \in BOOLEAN
  /\ UNCHANGED <<tlsVars, client, out, maskVars, clientOpen>>

FirstByte ==
  /\ at = "first"
  /\ at' = IF ~masking THEN "plain" ELSE IF hello = "none" THEN "redirect" ELSE "hello"
  /\ UNCHANGED <<tlsVars, client, garbled, out, maskVars, clientOpen>>

Redirect ==
  /\ Goes("redirect", "leave")
  /\ out' = out \cup {"redirect"}
  /\ UNCHANGED <<tlsVars, client, garbled, maskVars, clientOpen>>

(* The whole ClientHello has been read and is verified.                    *)
ReadHello_AnswersFirst ==
  /\ Goes("hello", IF hello = "good" THEN "init" ELSE "dial")
  /\ out' = out \cup {"server hello"}
  /\ UNCHANGED <<tlsVars, client, garbled, maskVars, clientOpen>>
ReadHello ==
  /\ Goes("hello", IF hello = "good" THEN "init" ELSE "dial")
  /\ out' = IF hello = "good" THEN out \cup {"server hello"} ELSE out
  /\ UNCHANGED <<tlsVars, client, garbled, maskVars, clientOpen>>

InitPart ==
  /\ at = "init" /\ FillInit
  /\ UNCHANGED <<client, garbled, at, out, maskVars, clientOpen>>

(* _try_handshake: a client whose init does not fit is read and not        *)
(* answered.                                                               *)
Decided == IF init = "good" THEN "routed" ELSE "drain"
InitRead ==
  /\ Goes("init", Decided) /\ TakeInit
  /\ UNCHANGED <<client, garbled, out, maskVars, clientOpen>>
InitShort ==
  /\ Goes("init", "leave") /\ InitCut
  /\ UNCHANGED <<client, garbled, out, maskVars, clientOpen>>
PlainInit ==
  /\ Goes("plain", Decided)
  /\ UNCHANGED <<tlsVars, client, garbled, out, maskVars, clientOpen>>

Streaming == at \in {"routed", "drain"}
StreamRead ==
  /\ Streaming /\ "server hello" \in out
  /\ Read
  /\ UNCHANGED <<client, garbled, at, out, maskVars, clientOpen>>
Answers ==
  /\ at = "routed"
  /\ out' = out \cup {"session"}
  /\ UNCHANGED <<tlsVars, client, garbled, at, maskVars, clientOpen>>

(* The stream ends: the client is done, or its session is.                 *)
StreamEnds ==
  /\ Streaming /\ at' = "leave"
  /\ IF "server hello" \in out THEN ReadEnds ELSE UNCHANGED tlsVars
  /\ UNCHANGED <<client, garbled, out, maskVars, clientOpen>>

(* A time-out, an end of the connection or an error before that.           *)
GivesUp ==
  /\ at \in {"proxy", "first", "hello", "init", "plain", "dial"}
  /\ at' = "leave"
  /\ UNCHANGED <<tlsVars, client, garbled, out, maskVars, clientOpen>>

(* The finally clause of _handle_client.                                   *)
Leave ==
  /\ Goes("leave", "over")
  /\ clientOpen' = FALSE
  /\ UNCHANGED <<tlsVars, client, garbled, out, maskVars>>

-----------------------------------------------------------------------------
(* proxy_to_masking_domain.                                                *)

DialMask ==
  /\ Goes("dial", "forward")
  /\ upConn' = "open" /\ toMask' = <<0>>
  /\ UNCHANGED <<tlsVars, client, garbled, out, replied, relay, clientOpen>>

(* What has been read of the client is written first, and drained.  The     *)
(* relays have begun once gather() has run them for the first time.        *)
StartRelays ==
  /\ Goes("forward", "mask")
  /\ relay' = [d \in Directions |-> "read"]
  /\ UNCHANGED <<tlsVars, client, garbled, out, upConn, toMask, replied, clientOpen>>
ForwardFails ==
  /\ Goes("forward", "leave")
  /\ upConn' = "closed"
  /\ UNCHANGED <<tlsVars, client, garbled, out, toMask, replied, relay, clientOpen>>

Relays(d, from, to) == relay[d] = from /\ relay' = [relay EXCEPT ![d] = to]
RelayUp(n) ==
  /\ Relays("up", "read", "write") /\ upConn = "open" /\ clientOpen
  /\ Len(toMask) + n <= MaxProbe + 1
  /\ toMask' = toMask \o Upto(Len(toMask) - 1, Len(toMask) - 1 + n)
  /\ UNCHANGED <<tlsVars, client, garbled, at, out, upConn, replied, clientOpen>>
RelayDown(n) ==
  /\ Relays("down", "read", "write") /\ upConn = "open" /\ clientOpen
  /\ replied + n <= MaxReply
  /\ replied' = replied + n /\ out' = out \cup {"mask"}
  /\ UNCHANGED <<tlsVars, client, garbled, at, upConn, toMask, clientOpen>>

(* drain() and, at the end, wait_closed() take as long as the peer likes.   *)
Drained(d) ==
  /\ Relays(d, "write", "read") \/ Relays(d, "closing", "done")
  /\ UNCHANGED <<tlsVars, client, garbled, at, out, upConn, toMask, replied, clientOpen>>

(* A relay ends when its source does, when the other relay has closed that,*)
(* or by an error; it then closes its destination.                         *)
RelayEnds_KeepsOpen(d) ==
  /\ Relays(d, "read", "done") \/ Relays(d, "write", "done")
  /\ UNCHANGED <<tlsVars, client, garbled, at, out, upConn, toMask, replied, clientOpen>>
RelayEnds(d) ==
  /\ Relays(d, "read", "closing") \/ Relays(d, "write", "closing")
  /\ IF d = "up" THEN upConn' = "closed" /\ UNCHANGED clientOpen
                 ELSE clientOpen' = FALSE /\ UNCHANGED upConn
  /\ UNCHANGED <<tlsVars, client, garbled, at, out, toMask, replied>>
MaskOver ==
  /\ at = "mask" /\ \A d \in Directions : relay[d] = "done"
  /\ at' = "leave" /\ upConn' = "closed"
  /\ UNCHANGED <<tlsVars, client, garbled, out, toMask, replied, relay, clientOpen>>

-----------------------------------------------------------------------------
(* The handler is cancelled: what it opened is closed on the way out.      *)
Cancelled ==
  /\ at \notin {"mask", "leave", "over"}
  /\ at' = "leave"
  /\ upConn' = IF upConn = "open" THEN "closed" ELSE upConn
  /\ UNCHANGED <<tlsVars, client, garbled, out, toMask, replied, relay, clientOpen>>

(* A relay takes a cancellation for the end of its source and closes its    *)
(* destination, and gather() waits for that; but one that was closing is    *)
(* gone, and gather() with it.                                             *)
Begun(d) == relay[d] \in {"read", "write"}
CancelMask ==
  LET goes == \A d \in Directions : ~Begun(d)
              \/ \E e \in Directions : relay[e] = "closing"
  IN  /\ at = "mask" /\ at' = IF goes THEN "leave" ELSE at
      /\ relay' = [d \in Directions |-> IF Begun(d) THEN "closing" ELSE "done"]
      /\ upConn' = IF goes \/ Begun("up") THEN "closed" ELSE upConn
      /\ clientOpen' = (clientOpen /\ ~Begun("down"))
      /\ UNCHANGED <<tlsVars, client, garbled, out, toMask, replied>>

Handshake ==
  \/ ReadProxyLine \/ FirstByte \/ Redirect \/ ReadHello \/ InitPart \/ InitRead
  \/ InitShort \/ PlainInit \/ GivesUp \/ Leave
Masked ==
  \/ DialMask \/ StartRelays \/ ForwardFails \/ MaskOver
  \/ \E n \in 1..MaxProbe : RelayUp(n)
  \/ \E n \in 1..MaxReply : RelayDown(n)
  \/ \E d \in Directions : Drained(d) \/ RelayEnds(d)
Next == Handshake \/ Masked \/ StreamRead \/ Answers \/ StreamEnds \/ Cancelled \/ CancelMask

Spec == Init /\ [][Next]_vars

(* A relay reads the end of a connection that the other one has closed, and *)
(* gather() returns when both are done.  Nothing is assumed of the steps   *)
(* that wait for a peer: no drain() and no wait_closed() has a time-out.    *)
SourceGone(d) ==
  /\ relay[d] = "read" /\ \E e \in Directions : relay[e] = "done"
  /\ IF d = "up" THEN ~clientOpen ELSE upConn = "closed"
FairSpec ==
  /\ Spec
  /\ WF_vars(MaskOver)
  /\ \A d \in Directions : WF_vars(RelayEnds(d) /\ SourceGone(d))

-----------------------------------------------------------------------------
(* Every variable has its type.                                            *)
TypeOK ==
  /\ masking \in BOOLEAN /\ script \in Wires
  /\ hello \in {"good", "bad", "none"} /\ init \in {"good", "bad"}
  /\ garbled \in BOOLEAN
  /\ at \in {"proxy", "first", "redirect", "hello", "init", "plain", "dial",
             "forward", "mask", "routed", "drain", "leave", "over"}
  /\ out \subseteq {"redirect", "server hello", "mask", "session"}
  /\ upConn \in {"none", "open", "closed"}
  /\ toMask \in Seq(Nat) /\ replied \in 0..MaxReply
  /\ relay \in [Directions -> {"none", "read", "write", "closing", "done"}]
  /\ clientOpen \in BOOLEAN
  /\ wire \in Seq(Records) /\ left \in Nat
  /\ buf \in Seq(Nat) /\ got \in Seq(Nat) /\ count \in Nat

(* However the records are cut and whatever stands between them, what the   *)
(* callers read is the client's bytes, each once and in order, across the   *)
(* change from readexactly() to read(), and at the end all of them.        *)
StreamExact ==
  /\ got \o buf = Upto(0, count)
  /\ ("server hello" \in out /\ StreamOver => count = Said(script))

(* With a masking domain, a client that cannot prove that it knows the      *)
(* secret gets nothing of the proxy's own, except the redirect for one that *)
(* speaks no TLS, and the domain gets all the client sent from its          *)
(* ClientHello on.  A client whose init is wrong gets no session.          *)
Disguised ==
  /\ masking /\ hello = "bad" => out \subseteq {"mask"}
  /\ masking /\ hello = "none" => out \subseteq {"redirect"}
  /\ init = "bad" => "session" \notin out
  /\ \A i \in 1..Len(toMask) : toMask[i] = i - 1

(* When one side of a masked connection ends, so does the other, and the    *)
(* handler comes to its finally clause, unless a peer does not read what    *)
(* was written to it: no write and no closing has a time-out.              *)
MaskEnds ==
  (\E d \in Directions : relay[d] = "done") ~>
    (at \in {"leave", "over"} \/ \E d \in Directions : relay[d] \in {"write", "closing"})
=============================================================================
