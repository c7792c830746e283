----------------------------- MODULE ServerRun ------------------------------
(***************************************************************************)
(* One run of the proxy: _run of proxy/tg_ws_proxy.py with its listening    *)
(* socket, the watchdog that replaces a dead one, the stop event, and the   *)
(* clean-up its caller does when it returns (_run_proxy_thread of           *)
(* utils/tray_common.py, or asyncio.run).                                   *)
(*                                                                         *)
(* Server.wait_closed() of Python 3.12.1 and later waits until every        *)
(* connection of the server is closed; before, it returned at once.  The    *)
(* repository builds with both kinds.  An operator X_Y is a faulty variant  *)
(* of X that some property must catch.                                      *)
(***************************************************************************)
EXTENDS Naturals, FiniteSets

CONSTANTS
  Clients,     \* client connections
  WaitKinds    \* the kinds of wait_closed() looked at, see waits

ASSUME WaitsAssumption == WaitKinds \subseteq BOOLEAN /\ WaitKinds # {}

VARIABLES
  waits,      \* wait_closed() waits for the server's connections
  pc,         \* where _run is
  listening,  \* the server accepts connections
  dead,       \* its listening sockets died and nobody noticed yet
  stop,       \* stop_event
  handler,    \* each client's _handle_client task
  awaited,    \* the tasks the stop path gathers
  late        \* clients accepted after that path cancelled _client_tasks

vars == <<waits, pc, listening, dead, stop, handler, awaited, late>>

Alive == {c \in Clients : handler[c] \in {"live", "cancelled"}}

Init ==
  /\ waits \in WaitKinds
  /\ pc = "start"
  /\ listening = FALSE /\ dead = FALSE /\ stop = FALSE
  /\ handler = [c \in Clients |-> "none"]
  /\ awaited = {} /\ late = {}

Start ==
  /\ pc = "start"
  /\ \/ pc' = "serving" /\ listening' = TRUE
     \/ pc' = "returned" /\ UNCHANGED listening       \* the port is taken
  /\ UNCHANGED <<waits, dead, stop, handler, awaited, late>>

Accept(c) ==
  /\ listening /\ ~dead
  /\ handler[c] = "none"
  /\ handler' = [handler EXCEPT ![c] = "live"]
  /\ late' = IF pc = "gather" THEN late \cup {c} ELSE late
  /\ UNCHANGED <<waits, pc, listening, dead, stop, awaited>>

(* The session is over, or the cancellation reached the handler.           *)
HandlerEnds(c) ==
  /\ c \in Alive
  /\ handler' = [handler EXCEPT ![c] = "done"]
  /\ UNCHANGED <<waits, pc, listening, dead, stop, awaited, late>>

ListenerDies ==
  /\ listening /\ ~dead
  /\ dead' = TRUE
  /\ UNCHANGED <<waits, pc, listening, stop, handler, awaited, late>>

RequestStop ==
  /\ ~stop
  /\ stop' = TRUE
  /\ UNCHANGED <<waits, pc, listening, dead, handler, awaited, late>>

Cancelled(S) == [c \in Clients |-> IF c \in S \cap Alive THEN "cancelled" ELSE handler[c]]

-----------------------------------------------------------------------------
(* The main loop.                                                          *)

(* Stop: cancel the clients there are, wait for them; the listener is      *)
(* still accepting meanwhile.                                              *)
StopSweep_AwaitsNone ==
  /\ pc = "serving" /\ stop
  /\ pc' = "gather" /\ UNCHANGED handler
  /\ awaited' = {}
  /\ UNCHANGED <<waits, listening, dead, stop, late>>
StopSweep ==
  /\ pc = "serving" /\ stop
  /\ pc' = "gather"
  /\ handler' = Cancelled(Alive)
  /\ awaited' = Alive
  /\ UNCHANGED <<waits, listening, dead, stop, late>>

(* Cancelling serve_forever() closes the listener and waits in wait_closed.*)
StopClose ==
  /\ pc = "gather"
  /\ awaited \cap Alive = {}
  /\ pc' = "stopping" /\ listening' = FALSE
  /\ awaited' = {}
  /\ UNCHANGED <<waits, dead, stop, handler, late>>

(* The watchdog looks every LISTENER_CHECK_INTERVAL; a stop event that is  *)
(* set is seen within one turn of the loop, long before.                   *)
WatchdogFires_OnlyIdle ==
  /\ pc = "serving" /\ dead /\ ~stop /\ Alive = {}
  /\ pc' = "closing" /\ listening' = FALSE
  /\ UNCHANGED <<waits, dead, stop, handler, awaited, late>>
WatchdogFires ==
  /\ pc = "serving" /\ dead /\ ~stop
  /\ pc' = "closing" /\ listening' = FALSE
  /\ UNCHANGED <<waits, dead, stop, handler, awaited, late>>

Drained == waits => Alive = {}
ListenerClosed ==
  /\ pc \in {"stopping", "closing"} /\ Drained
  /\ pc' = IF pc = "stopping" THEN "returned" ELSE "delay"
  /\ UNCHANGED <<waits, listening, dead, stop, handler, awaited, late>>

(* After LISTENER_RESTART_DELAY: a new server, or an OSError that ends _run.*)
Rebind_ForgetsStop ==
  /\ pc = "delay"
  /\ \/ pc' = "serving" /\ listening' = TRUE /\ dead' = FALSE /\ stop' = FALSE
     \/ pc' = "returned" /\ UNCHANGED <<listening, dead, stop>>
  /\ UNCHANGED <<waits, handler, awaited, late>>
Rebind ==
  /\ pc = "delay"
  /\ \/ pc' = "serving" /\ listening' = TRUE /\ dead' = FALSE
     \/ pc' = "returned" /\ UNCHANGED <<listening, dead>>
  /\ UNCHANGED <<waits, stop, handler, awaited, late>>

(* The caller cancels what is left on the loop and waits for it.           *)
CleanUp ==
  /\ pc = "returned"
  /\ pc' = "cleanup"
  /\ handler' = Cancelled(Alive)
  /\ UNCHANGED <<waits, listening, dead, stop, awaited, late>>

LoopClosed ==
  /\ pc = "cleanup" /\ Alive = {}
  /\ pc' = "gone"
  /\ UNCHANGED <<waits, listening, dead, stop, handler, awaited, late>>

Gone == pc = "gone" /\ UNCHANGED vars

Supervise == StopSweep \/ StopClose \/ WatchdogFires \/ ListenerClosed \/ Rebind
             \/ CleanUp \/ LoopClosed

Next ==
  \/ Start \/ Supervise \/ RequestStop \/ ListenerDies
  \/ \E c \in Clients : Accept(c) \/ HandlerEnds(c)
  \/ Gone

(* The loop runs what is ready.  A session may go on for ever, and a       *)
(* cancelled handler may wait for ever for the drain or the close of a     *)
(* connection: nothing is assumed of how a handler ends.                   *)
Fairness == WF_vars(Start) /\ WF_vars(Supervise)

Spec == Init /\ [][Next]_vars /\ Fairness

-----------------------------------------------------------------------------
(* Every variable has its type.                                            *)
TypeOK ==
  /\ waits \in WaitKinds
  /\ pc \in {"start", "serving", "gather", "stopping", "closing", "delay",
             "returned", "cleanup", "gone"}
  /\ listening \in BOOLEAN /\ dead \in BOOLEAN /\ stop \in BOOLEAN
  /\ handler \in [Clients -> {"none", "live", "cancelled", "done"}]
  /\ awaited \subseteq Clients /\ late \subseteq Clients

(* When the stop path closes the listener, the only sessions that still    *)
(* run are those accepted while it was waiting for the cancelled ones.     *)
SweepLeavesOnlyLate == pc = "stopping" => Alive \subseteq late

(* The run is over: it gave up, or it was stopped.                         *)
Finished == pc \in {"returned", "cleanup", "gone"}

(* "Listening socket died, restarting server" (tg_ws_proxy.py:600): a dead *)
(* listener is replaced, or the run is over.                               *)
ListenerRestored == dead /\ pc = "serving" ~> (~dead /\ listening) \/ stop \/ Finished

(* The same with all that can stand in its way: a wait_closed() that waits *)
(* for sessions, for as long as there are any.  With the older one no      *)
(* session can keep the listener from being replaced.                      *)
ListenerReplaced ==
  dead /\ pc = "serving" ~> (~dead /\ listening) \/ stop \/ Finished \/ [](waits /\ Alive # {})

(* What can keep a stop: a cancelled handler that does not end or, if      *)
(* wait_closed() waits for sessions, any session.                          *)
Held == \E c \in Alive : waits \/ handler[c] = "cancelled"

(* A stop request ends the run, whatever the listener does meanwhile,      *)
(* unless something keeps it for ever.                                     *)
StopEnds == stop ~> (pc = "gone" \/ []Held)
=============================================================================
