---------------------------- MODULE TrayLifecycle ----------------------------
(***************************************************************************)
(* The proxy inside the tray program: _run_proxy_thread, start_proxy,       *)
(* stop_proxy and restart_proxy of utils/tray_common.py, the callbacks of   *)
(* windows.py, linux.py and macos.py that call them, and the queue through  *)
(* which macos.py brings message boxes to its main thread.                  *)
(*                                                                         *)
(* Everything here runs on threads without a lock: each proxy has a thread, *)
(* each restart has one, and the main thread starts the first proxy and     *)
(* stops the last.  A step is what lies between two reads or writes of      *)
(* _proxy_thread and _async_stop that another thread could separate.        *)
(* apply_proxy_config is one step, although it reads its fields one by one. *)
(* An operator X_Y is a faulty variant of X that some property must catch.  *)
(***************************************************************************)
EXTENDS Naturals, Sequences, FiniteSets

CONSTANTS
  MaxRestarts,  \* bound: restarts the user asks for
  MaxVersion,   \* bound: the successive contents of _config
  PortOf        \* the port each of them names

ASSUME TrayAssumption == MaxRestarts \in Nat /\ MaxVersion \in Nat /\ MaxVersion > 0

Versions == 1..MaxVersion
Restarts == 1..MaxRestarts
Main == 0
Ops == {Main} \cup Restarts         \* the threads that start and stop proxies
Threads == 1..(MaxRestarts + 1)     \* the proxy threads, in order of creation
None == 0

VARIABLES
  platform,     \* "macos", or "other" for Windows and Linux
  proxyThread,  \* _proxy_thread
  asyncStop,    \* the thread whose loop and event _async_stop holds
  thread,       \* where each proxy thread is
  told,         \* the threads whose stop event is set
  serves,       \* the version each thread bound its port for
  op,           \* where each of Ops is
  joins,        \* the thread each of them is joining
  config,       \* the version in _config
  parses,       \* whether its dc_ip list can be parsed
  applied,      \* the version in proxy_config
  main,         \* what the main thread does
  boxes,        \* macOS: the callbacks in _ui_queue
  modal,        \* macOS: whose message box holds the main thread
  exitAsked,    \* the user chose to exit
  due,          \* history: the version when the last restart was asked for
  disturbed     \* history: an operation met another one, or gave up on a thread

proxyVars == <<thread, told, serves>>
handles == <<proxyThread, asyncStop>>
boxVars == <<boxes, modal>>
uiVars == <<main, boxes, modal, exitAsked>>
history == <<due, disturbed>>
vars == <<platform, handles, proxyVars, op, joins, config, parses, applied, uiVars, history>>

IsAlive(t) == thread[t] \notin {"unmade", "dead"}
Working(t) == thread[t] \in {"born", "setup", "serving", "gather", "error", "cleanup", "closed"}
Active(o) == op[o] \notin {"idle", "done", "failed"}
Holds(t, port) == thread[t] \in {"serving", "gather"} /\ PortOf[serves[t]] = port

Init ==
  /\ platform \in {"macos", "other"}
  /\ proxyThread = None /\ asyncStop = None
  /\ thread = [t \in Threads |-> "unmade"]
  /\ told = {} /\ serves = [t \in Threads |-> 1]
  /\ op = [o \in Ops |-> IF o = Main THEN "start" ELSE "idle"]
  /\ joins = [o \in Ops |-> None]
  /\ config = 1 /\ applied = 1 /\ parses \in BOOLEAN
  /\ main = "starting" /\ boxes = <<>> /\ modal = <<>> /\ exitAsked = FALSE
  /\ due = 1 /\ disturbed = FALSE

-----------------------------------------------------------------------------
(* _show_error.  On Windows and Linux the caller opens a window of its own.*)
(* On macOS a thread other than the main one leaves a callback in the queue *)
(* and waits for it.                                                       *)

Ask(who) ==
  /\ boxes' = IF platform = "macos" THEN Append(boxes, who) ELSE boxes
  /\ UNCHANGED modal

(* The user closes the box.                                                *)
Answer(who) ==
  /\ platform = "macos" => modal = who
  /\ modal' = <<>>
  /\ UNCHANGED boxes

-----------------------------------------------------------------------------
(* A proxy thread: _run_proxy_thread.                                      *)

Goes(t, from, to) == thread[t] = from /\ thread' = [thread EXCEPT ![t] = to]

Begin(t) ==
  /\ Goes(t, "born", "setup")
  /\ asyncStop' = t
  /\ UNCHANGED <<proxyThread, told, serves, boxVars>>

(* _run up to its listener.  Another program may have the port.            *)
Bind_NewEvent(t) ==
  /\ Goes(t, "setup", "serving")
  /\ \A u \in Threads : ~Holds(u, PortOf[applied])
  /\ serves' = [serves EXCEPT ![t] = applied]
  /\ told' = told \ {t}
  /\ UNCHANGED <<handles, boxVars>>
Bind(t) ==
  /\ Goes(t, "setup", "serving")
  /\ \A u \in Threads : ~Holds(u, PortOf[applied])
  /\ serves' = [serves EXCEPT ![t] = applied]
  /\ UNCHANGED <<handles, told, boxVars>>

(* The exception is shown, before the finally clause runs, ...             *)
BindFails(t) ==
  /\ Goes(t, "setup", "error")
  /\ Ask(<<"thread", t>>)
  /\ UNCHANGED <<handles, told, serves>>
ErrorClosed(t) ==
  /\ Goes(t, "error", "closed")
  /\ Answer(<<"thread", t>>)
  /\ UNCHANGED <<handles, told, serves>>

(* ... or diagnose_listen_error has nothing to say about it; _run also     *)
(* returns when it cannot replace a dead listener.                         *)
Dies(t) ==
  /\ \/ Goes(t, "setup", "closed")
     \/ Goes(t, "serving", "cleanup")
  /\ UNCHANGED <<handles, told, serves, boxVars>>

(* The stop event: the clients are cancelled; the listener stays until they *)
(* are done.                                                               *)
Stops(t) ==
  /\ Goes(t, "serving", "gather")
  /\ t \in told
  /\ UNCHANGED <<handles, told, serves, boxVars>>

(* _run waits for what it cancelled and closes the listener; then comes     *)
(* wait_closed(), and the finally clause cancels what is left on the loop   *)
(* and waits for that.  ServerRun models both waits; neither has a limit.   *)
StopsListening(t) ==
  /\ Goes(t, "gather", "cleanup")
  /\ UNCHANGED <<handles, told, serves, boxVars>>
LoopClosed(t) ==
  /\ Goes(t, "cleanup", "closed")
  /\ UNCHANGED <<handles, told, serves, boxVars>>

(* The end of the finally clause clears the handle of the closed loop, or  *)
(* whatever handle there is by then; then the function returns.            *)
ClearHandle(t) ==
  /\ Goes(t, "closed", "ending")
  /\ asyncStop' = None
  /\ UNCHANGED <<proxyThread, told, serves, boxVars>>
Return(t) ==
  /\ Goes(t, "ending", "dead")
  /\ told' = told \ {t} /\ serves' = [serves EXCEPT ![t] = 1]
  /\ UNCHANGED <<handles, boxVars>>

ThreadStep(t) ==
  /\ \/ Begin(t) \/ Bind(t) \/ BindFails(t) \/ ErrorClosed(t) \/ Dies(t)
     \/ Stops(t) \/ StopsListening(t) \/ LoopClosed(t) \/ ClearHandle(t) \/ Return(t)
  /\ main # "gone"
  /\ UNCHANGED <<platform, main, exitAsked, op, joins, config, parses, applied, history>>

-----------------------------------------------------------------------------
(* stop_proxy.  Each of its reads of the two variables is a step.          *)

Step(o, from, to) == op[o] = from /\ op' = [op EXCEPT ![o] = to]

(* if _async_stop: call_soon_threadsafe(stop_ev.set), which raises when the *)
(* loop is closed.  A thread that has not come to set the handle is not     *)
(* waited for.                                                             *)
Signal(o) ==
  /\ op[o] = "signal"
  /\ \/ /\ asyncStop = None
        /\ op' = [op EXCEPT ![o] = "forget"]
        /\ disturbed' = (disturbed \/ \E t \in Threads : Working(t))
        /\ UNCHANGED told
     \/ /\ asyncStop # None /\ thread[asyncStop] = "closed"
        /\ op' = [op EXCEPT ![o] = "failed"]
        /\ UNCHANGED <<told, disturbed>>
     \/ /\ asyncStop # None /\ thread[asyncStop] # "closed"
        /\ op' = [op EXCEPT ![o] = "thread"]
        /\ told' = told \cup {asyncStop}
        /\ UNCHANGED disturbed
  /\ UNCHANGED <<handles, thread, serves, joins, applied, boxVars, due>>

(* if _proxy_thread: _proxy_thread.join(timeout=5)                         *)
PickThread(o) ==
  /\ op[o] = "thread"
  /\ joins' = [joins EXCEPT ![o] = proxyThread]
  /\ op' = [op EXCEPT ![o] = IF proxyThread = None THEN "forget"
                             ELSE "join"]
  /\ UNCHANGED <<handles, proxyVars, applied, boxVars, history>>

Joined_AtOnce(o) ==
  /\ Step(o, "join", "alive")
  /\ UNCHANGED <<handles, proxyVars, joins, applied, boxVars, history>>
Joined(o) ==
  /\ Step(o, "join", "alive")
  /\ ~IsAlive(joins[o])
  /\ joins' = [joins EXCEPT ![o] = None]
  /\ UNCHANGED <<handles, proxyVars, applied, boxVars, history>>
JoinTimesOut_Never(o) == FALSE
JoinTimesOut(o) ==
  /\ Step(o, "join", "alive")
  /\ IsAlive(joins[o])
  /\ joins' = [joins EXCEPT ![o] = None]
  /\ disturbed' = TRUE
  /\ UNCHANGED <<handles, proxyVars, applied, boxVars, due>>

(* _proxy_thread.is_alive() fails when another stop has forgotten it; then *)
(* _proxy_thread = None.  restart_proxy sleeps a second before it goes on. *)
Forget(o) ==
  /\ \/ op[o] = "alive" /\ proxyThread = None /\ op' = [op EXCEPT ![o] = "failed"]
     \/ /\ op[o] = "forget" \/ (op[o] = "alive" /\ proxyThread # None)
        /\ op' = [op EXCEPT ![o] = IF o = Main THEN "done" ELSE "start"]
  /\ proxyThread' = None
  /\ UNCHANGED <<asyncStop, proxyVars, joins, applied, boxVars, history>>

-----------------------------------------------------------------------------
(* start_proxy.                                                            *)

Running == proxyThread # None /\ IsAlive(proxyThread)

StartProxy_Keeps(o) ==
  /\ op[o] = "start"
  /\ op' = [op EXCEPT ![o] = IF Running THEN "done" ELSE "assign"]
  /\ UNCHANGED <<handles, proxyVars, joins, applied, boxVars, history>>
StartProxy(o) ==
  /\ op[o] = "start"
  /\ \/ Running /\ op' = [op EXCEPT ![o] = "done"] /\ UNCHANGED <<applied, boxVars>>
     \/ /\ ~Running /\ ~parses
        /\ op' = [op EXCEPT ![o] = "alert"]
        /\ IF o = Main THEN UNCHANGED boxVars ELSE Ask(<<"op", o>>)
        /\ UNCHANGED applied
     \/ /\ ~Running /\ parses
        /\ op' = [op EXCEPT ![o] = "assign"]
        /\ applied' = config /\ UNCHANGED boxVars
  /\ UNCHANGED <<handles, proxyVars, joins, history>>

AlertClosed(o) ==
  /\ Step(o, "alert", "done")
  /\ IF o = Main THEN UNCHANGED boxVars ELSE Answer(<<"op", o>>)
  /\ UNCHANGED <<handles, proxyVars, joins, applied, history>>

(* A new thread is made, assigned and started.                             *)
StartThread(o) ==
  /\ Step(o, "assign", "done")
  /\ \E t \in Threads :
       /\ thread[t] = "unmade" /\ \A u \in 1..(t - 1) : thread[u] # "unmade"
       /\ proxyThread' = t
       /\ thread' = [thread EXCEPT ![t] = "born"]
  /\ UNCHANGED <<asyncStop, told, serves, joins, applied, boxVars, history>>

OpStep(o) ==
  /\ \/ Signal(o) \/ PickThread(o) \/ Joined(o) \/ JoinTimesOut(o)
     \/ Forget(o) \/ StartProxy(o) \/ AlertClosed(o)
     \/ StartThread(o)
  /\ main # "gone"
  /\ UNCHANGED <<platform, config, parses, main, exitAsked>>

-----------------------------------------------------------------------------
(* The user interface and the main thread.                                 *)

idleUi == <<platform, parses, handles, proxyVars, joins, applied>>

(* _on_restart, or a confirmed change of the settings.                     *)
AskRestart(o) ==
  /\ main = "loop" /\ ~exitAsked
  /\ op[o] = "idle" /\ \A r \in 1..(o - 1) : op[r] # "idle"
  /\ op' = [op EXCEPT ![o] = "signal"]
  /\ due' = config
  /\ disturbed' = (disturbed \/ \E p \in Ops : Active(p))
  /\ UNCHANGED <<idleUi, config, uiVars>>

(* on_save of the settings dialog, which accepts only what can be parsed.  *)
Save ==
  /\ main = "loop" /\ ~exitAsked
  /\ config + 1 \in Versions /\ config' = config + 1
  /\ parses' = TRUE
  /\ UNCHANGED <<platform, handles, proxyVars, joins, applied, op, uiVars, history>>

(* run_tray reaches the loop of the tray icon.                             *)
EnterLoop ==
  /\ main = "starting" /\ ~Active(Main)
  /\ main' = "loop"
  /\ UNCHANGED <<idleUi, op, config, boxVars, exitAsked, history>>

(* run_tray after its loop.                                                *)
LeaveLoop ==
  /\ main' = "leaving" /\ UNCHANGED modal
  /\ op' = [op EXCEPT ![Main] = "signal"]
  /\ disturbed' = (disturbed \/ \E p \in Ops : Active(p))
  /\ UNCHANGED <<idleUi, config, due>>

ExitClicked ==
  /\ main = "loop" /\ platform # "macos" /\ ~exitAsked
  /\ exitAsked' = TRUE
  /\ LeaveLoop /\ UNCHANGED boxes

(* The process ends, and its daemon threads with it.                       *)
Gone ==
  /\ main' = "gone" /\ boxes' = <<>> /\ modal' = <<>>
  /\ thread' = [t \in Threads |-> "dead"] /\ op' = [o \in Ops |-> "done"]
  /\ proxyThread' = None /\ asyncStop' = None
  /\ told' = {} /\ serves' = [t \in Threads |-> 1] /\ joins' = [o \in Ops |-> None]
  /\ config' = 1 /\ applied' = 1 /\ parses' = TRUE /\ due' = 1 /\ disturbed' = FALSE
  /\ UNCHANGED <<platform, exitAsked>>

(* The thread that _on_exit starts calls os._exit after three seconds, and *)
(* a second choice of the menu entry does so at once.                      *)
ForceExit ==
  /\ exitAsked /\ platform # "macos" /\ main # "gone"
  /\ Gone

(* macOS: _on_exit only leaves a callback in the queue, ...                *)
ExitQueued ==
  /\ main # "gone" /\ main # "starting" /\ platform = "macos" /\ ~exitAsked
  /\ exitAsked' = TRUE
  /\ boxes' = Append(boxes, <<"exit">>)
  /\ UNCHANGED <<idleUi, op, config, main, modal, history>>

(* ... and _pump_ui_queue runs one callback after the other.               *)
Pump ==
  /\ main = "loop" /\ modal = <<>> /\ boxes # <<>>
  /\ boxes' = Tail(boxes)
  /\ \/ Head(boxes) = <<"exit">> /\ LeaveLoop
     \/ /\ Head(boxes) # <<"exit">> /\ modal' = Head(boxes)
        /\ UNCHANGED <<idleUi, op, config, main, history>>
  /\ UNCHANGED exitAsked

ProcessEnds ==
  /\ main = "leaving" /\ ~Active(Main)
  /\ Gone

UiStep ==
  \/ \E o \in Restarts : AskRestart(o)
  \/ Save \/ EnterLoop \/ ExitClicked \/ ForceExit \/ ExitQueued \/ Pump \/ ProcessEnds

Next ==
  \/ \E t \in Threads : ThreadStep(t)
  \/ \E o \in Ops : OpStep(o)
  \/ UiStep

Spec == Init /\ [][Next]_vars

(* Threads that are ready run, a sleep and a join with a time-out end, and  *)
(* Tk calls the pump again; nothing is assumed of the user, who may leave a *)
(* box open, nor of the sessions a proxy that ends is waiting for.          *)
Waits(t) == thread[t] \in {"error", "gather", "cleanup"}
ThreadRuns(t) == ~Waits(t) /\ (thread[t] = "serving" => t \in told) /\ ThreadStep(t)
OpRuns(o) == op[o] # "alert" /\ OpStep(o)
Fairness ==
  /\ \A t \in Threads : WF_vars(ThreadRuns(t))
  /\ \A o \in Ops : WF_vars(OpRuns(o))
  /\ WF_vars(EnterLoop \/ Pump \/ ForceExit \/ ProcessEnds)
FairSpec == Spec /\ Fairness

-----------------------------------------------------------------------------
States == {"unmade", "born", "setup", "serving", "gather", "error", "cleanup", "closed",
           "ending", "dead"}
OpStates == {"idle", "signal", "thread", "join", "alive", "forget",
             "start", "alert", "assign", "done", "failed"}
(* Who may have a callback in the queue, or a box on the main thread.       *)
Boxes == ({"thread"} \X Threads) \cup ({"op"} \X Ops) \cup {<<"exit">>}

(* Every variable has its type.                                            *)
TypeOK ==
  /\ platform \in {"macos", "other"}
  /\ proxyThread \in Threads \cup {None} /\ asyncStop \in Threads \cup {None}
  /\ thread \in [Threads -> States]
  /\ told \subseteq Threads /\ serves \in [Threads -> Versions]
  /\ op \in [Ops -> OpStates] /\ joins \in [Ops -> Threads \cup {None}]
  /\ parses \in BOOLEAN /\ config \in Versions /\ applied \in Versions /\ due \in Versions
  /\ main \in {"starting", "loop", "leaving", "gone"}
  /\ boxes \in Seq(Boxes) /\ modal \in Boxes \cup {<<>>}
  /\ exitAsked \in BOOLEAN /\ disturbed \in BOOLEAN

(* Restarts and exits that neither overlap nor give up on a thread keep one *)
(* proxy, the one that both variables name, so that the next stop reaches  *)
(* it: stop_proxy waits for the thread, whose end would otherwise clear its *)
(* successor's handle.                                                     *)
OneProxy ==
  ~disturbed => \A t \in Threads : Working(t) =>
                  proxyThread = t /\ (asyncStop = t \/ thread[t] = "born")

(* When they are over, a proxy that serves uses settings at least as recent *)
(* as those of the last restart.                                           *)
ServesLatest ==
  ~disturbed /\ (\A o \in Ops : ~Active(o)) =>
    \A t \in Threads : thread[t] = "serving" => serves[t] >= due

(* A proxy that was told to stop stops, however early it was told and       *)
(* whatever happens to it.  What may keep it for ever is an error box that  *)
(* the user leaves open, or a session that does not end: the stop of _run   *)
(* and the finally clause of its thread wait for sessions without a limit.  *)
ToldEnds ==
  \A t \in Threads : (t \in told) ~> (thread[t] = "dead" \/ main = "gone" \/ []Waits(t))

(* The program exits when asked to, although on macOS the proxy thread may *)
(* wait for the main thread while the main thread waits for it.  A box the *)
(* user leaves open on the main thread is the only obstacle.               *)
ExitEnds == exitAsked ~> (main = "gone" \/ modal # <<>>)
=============================================================================
