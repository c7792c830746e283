----------------------------- MODULE TrayProofs -----------------------------
(***************************************************************************)
(* Theorems about TrayLifecycle, for any number of restarts and settings:   *)
(* its type invariant, OneProxy and ServesLatest.                          *)
(***************************************************************************)
EXTENDS TrayLifecycle, TLAPS

(* As long as operations neither meet nor give up on a thread, one of them  *)
(* at most is under way; it joins the thread it will forget, and when it    *)
(* has joined it, no thread works until it makes a new one.                 *)
AfterJoin == {"alive", "forget", "start", "alert", "assign"}
OneInv ==
  ~disturbed =>
    /\ \A t \in Threads : Working(t) =>
         proxyThread = t /\ (asyncStop = t \/ thread[t] = "born")
    /\ \A o, q \in Ops : Active(o) /\ Active(q) => o = q
    /\ \A o \in Ops : op[o] \in AfterJoin => \A t \in Threads : ~Working(t)
    /\ \A o \in Ops : op[o] = "join" => joins[o] = proxyThread

(* The settings of a thread that does not serve yet are those applied, and  *)
(* they are recent enough unless its replacement has begun.                *)
BeforeJoin == {"signal", "thread", "join"}
Recent ==
  \A t \in Threads :
    /\ thread[t] \in {"born", "setup"} => applied >= due
    /\ thread[t] = "serving" => serves[t] >= due
LatestInv ==
  /\ due <= config
  /\ ~disturbed =>
       /\ \A o \in Ops : op[o] = "assign" => applied >= due
       /\ (\A o \in Ops : op[o] \notin BeforeJoin) => Recent

-----------------------------------------------------------------------------
(* The state never leaves its type.                                        *)
LEMMA TypeInit == Init => TypeOK
<1> SUFFICES ASSUME Init PROVE TypeOK
  OBVIOUS
<1> USE DEF Init
<1>1. 1 \in Versions
  BY TrayAssumption DEF Versions
<1>2. boxes \in Seq(Boxes) /\ modal \in Boxes \cup {<<>>}
  OBVIOUS
<1>3. /\ thread \in [Threads -> States] /\ op \in [Ops -> OpStates]
      /\ serves \in [Threads -> Versions] /\ joins \in [Ops -> Threads \cup {None}]
  BY <1>1 DEF States, OpStates, None
<1> QED
  BY <1>1, <1>2, <1>3 DEF TypeOK

(* Boxes are asked for, shown one by one, and answered.                    *)
LEMMA BoxTypes ==
  ASSUME TypeOK, NEW who \in Boxes, Ask(who) \/ Answer(who) \/ UNCHANGED boxVars
  PROVE  boxes' \in Seq(Boxes) /\ modal' \in Boxes \cup {<<>>}
<1>1. Append(boxes, who) \in Seq(Boxes)
  BY DEF TypeOK
<1> QED
  BY <1>1 DEF TypeOK, Ask, Answer, boxVars

(* A step of a proxy thread.                                               *)
LEMMA TypeThread ==
  ASSUME TypeOK, NEW t \in Threads, ThreadStep(t) PROVE TypeOK'
<1>b. boxes' \in Seq(Boxes) /\ modal' \in Boxes \cup {<<>>}
  <2>1. <<"thread", t>> \in Boxes
    BY DEF Boxes
  <2>2. \/ UNCHANGED boxVars
        \/ Ask(<<"thread", t>>)
        \/ Answer(<<"thread", t>>)
    BY DEF ThreadStep, Begin, Bind, BindFails, ErrorClosed, Dies, Stops, StopsListening, LoopClosed,
           ClearHandle, Return
  <2> QED
    BY <2>1, <2>2, BoxTypes
<1> USE DEF TypeOK, handles, boxVars, history, Goes
<1>0. /\ UNCHANGED <<platform, main, exitAsked, op, joins, config, parses, applied, due, disturbed>>
      /\ boxes' \in Seq(Boxes) /\ modal' \in Boxes \cup {<<>>}
  BY <1>b DEF ThreadStep
<1>a. 1 \in Versions
  BY TrayAssumption DEF Versions
<1>1. CASE Begin(t)
  BY <1>0, <1>1 DEF Begin, States
<1>2. CASE Bind(t)
  BY <1>0, <1>2 DEF Bind, States
<1>3. CASE BindFails(t)
  BY <1>0, <1>3 DEF BindFails, States
<1>4. CASE ErrorClosed(t)
  BY <1>0, <1>4 DEF ErrorClosed, States
<1>5. CASE Dies(t)
  BY <1>0, <1>5 DEF Dies, States
<1>6. CASE Stops(t) \/ StopsListening(t) \/ LoopClosed(t)
  BY <1>0, <1>6 DEF Stops, StopsListening, LoopClosed, States
<1>7. CASE ClearHandle(t)
  BY <1>0, <1>7 DEF ClearHandle, States
<1>8. CASE Return(t)
  BY <1>0, <1>8, <1>a DEF Return, States
<1> QED
  BY <1>1, <1>2, <1>3, <1>4, <1>5, <1>6, <1>7, <1>8 DEF ThreadStep

(* A step of a caller of start_proxy and stop_proxy.                       *)
LEMMA TypeOp ==
  ASSUME TypeOK, NEW o \in Ops, OpStep(o) PROVE TypeOK'
<1>b. boxes' \in Seq(Boxes) /\ modal' \in Boxes \cup {<<>>}
  <2>1. <<"op", o>> \in Boxes
    BY DEF Boxes
  <2>2. UNCHANGED boxVars \/ Ask(<<"op", o>>) \/ Answer(<<"op", o>>)
    BY DEF OpStep, Signal, PickThread, Joined, JoinTimesOut, Forget, StartProxy, AlertClosed, StartThread
  <2> QED
    BY <2>1, <2>2, BoxTypes
<1> USE DEF TypeOK, handles, proxyVars, boxVars, history, Step, OpStates
<1>0. /\ UNCHANGED <<platform, main, exitAsked, config, parses>>
      /\ boxes' \in Seq(Boxes) /\ modal' \in Boxes \cup {<<>>}
  BY <1>b DEF OpStep
<1>1. CASE Signal(o)
  <2>1. disturbed' \in BOOLEAN
    BY <1>1 DEF Signal
  <2>2. op' \in [Ops -> OpStates] /\ told' \subseteq Threads
    BY <1>1 DEF Signal
  <2>3. UNCHANGED <<proxyThread, asyncStop, thread, serves, joins, applied, due>>
    BY <1>1 DEF Signal
  <2> QED
    BY <1>0, <2>1, <2>2, <2>3
<1>2. CASE PickThread(o)
  BY <1>0, <1>2 DEF PickThread
<1>3. CASE Joined(o)
  BY <1>0, <1>3 DEF Joined
<1>4. CASE JoinTimesOut(o)
  BY <1>0, <1>4 DEF JoinTimesOut
<1>5. CASE Forget(o)
  BY <1>0, <1>5 DEF Forget
<1>6. CASE StartProxy(o)
  BY <1>0, <1>6 DEF StartProxy
<1>7. CASE AlertClosed(o)
  BY <1>0, <1>7 DEF AlertClosed
<1>8. CASE StartThread(o)
  <2>1. PICK t \in Threads : proxyThread' = t /\ thread' = [thread EXCEPT ![t] = "born"]
    BY <1>8 DEF StartThread
  <2>2. thread' \in [Threads -> States]
    BY <2>1 DEF States
  <2> QED
    BY <1>0, <1>8, <2>1, <2>2 DEF StartThread
<1> QED
  BY <1>1, <1>2, <1>3, <1>4, <1>5, <1>6, <1>7, <1>8 DEF OpStep

(* A step of the message boxes and of the exit.                            *)
LEMMA TypeUi ==
  ASSUME TypeOK, UiStep PROVE TypeOK'
<1>c. boxes' \in Seq(Boxes) /\ modal' \in Boxes \cup {<<>>}
  <2>1. boxes \in Seq(Boxes) /\ modal \in Boxes \cup {<<>>} /\ <<"exit">> \in Boxes
    BY DEF TypeOK, Boxes
  <2>2. \/ UNCHANGED boxVars
        \/ boxes' = <<>> /\ modal' = <<>>
        \/ boxes' = Append(boxes, <<"exit">>) /\ modal' = modal
        \/ boxes # <<>> /\ boxes' = Tail(boxes) /\ modal' \in {modal, Head(boxes)}
    BY DEF UiStep, AskRestart, Save, EnterLoop, ExitClicked, ForceExit, ExitQueued, Pump, ProcessEnds,
           LeaveLoop, Gone, uiVars, boxVars
  <2>3. boxes # <<>> => Tail(boxes) \in Seq(Boxes) /\ Head(boxes) \in Boxes
    BY <2>1
  <2>4. Append(boxes, <<"exit">>) \in Seq(Boxes)
    BY <2>1
  <2>5. <<>> \in Seq(Boxes) /\ <<>> \in Boxes \cup {<<>>}
    OBVIOUS
  <2>6. CASE UNCHANGED boxVars
    BY <2>1, <2>6 DEF boxVars
  <2>7. CASE boxes' = <<>> /\ modal' = <<>>
    BY <2>5, <2>7
  <2>8. CASE boxes' = Append(boxes, <<"exit">>) /\ modal' = modal
    BY <2>1, <2>4, <2>8
  <2>9. CASE boxes # <<>> /\ boxes' = Tail(boxes) /\ modal' \in {modal, Head(boxes)}
    BY <2>1, <2>3, <2>9
  <2> QED
    BY <2>2, <2>6, <2>7, <2>8, <2>9
<1> USE DEF TypeOK, handles, proxyVars, uiVars, boxVars, history, idleUi, OpStates
<1>a. Main \in Ops /\ Restarts \subseteq Ops
  BY DEF Ops
<1>b. 1 \in Versions
  BY TrayAssumption DEF Versions
<1>g. ASSUME Gone PROVE TypeOK'
  BY <1>c, <1>g, <1>b DEF Gone, States, None
<1>l. ASSUME LeaveLoop, UNCHANGED exitAsked \/ exitAsked' = TRUE PROVE TypeOK'
  <2>1. disturbed' \in BOOLEAN /\ exitAsked' \in BOOLEAN
    BY <1>l DEF LeaveLoop
  <2>2. op' \in [Ops -> OpStates] /\ main' = "leaving"
    BY <1>l, <1>a DEF LeaveLoop
  <2> QED
    BY <1>c, <1>l, <2>1, <2>2 DEF LeaveLoop
<1>1. ASSUME NEW o \in Restarts, AskRestart(o) PROVE TypeOK'
  <2>1. disturbed' \in BOOLEAN
    BY <1>1 DEF AskRestart
  <2>2. op' \in [Ops -> OpStates] /\ due' \in Versions
    BY <1>1, <1>a DEF AskRestart
  <2> QED
    BY <1>c, <1>1, <2>1, <2>2 DEF AskRestart
<1>2. CASE Save
  BY <1>c, <1>2 DEF Save
<1>3. CASE EnterLoop
  BY <1>c, <1>3 DEF EnterLoop
<1>4. CASE ExitClicked
  BY <1>4, <1>l DEF ExitClicked
<1>5. CASE ForceExit
  BY <1>5, <1>g DEF ForceExit
<1>6. CASE ExitQueued
  BY <1>c, <1>6 DEF ExitQueued
<1>7. CASE Pump
  BY <1>c, <1>7, <1>l DEF Pump
<1>8. CASE ProcessEnds
  BY <1>8, <1>g DEF ProcessEnds
<1> QED
  BY <1>1, <1>2, <1>3, <1>4, <1>5, <1>6, <1>7, <1>8 DEF UiStep

(* Every step.                                                             *)
LEMMA TypeNext == TypeOK /\ [Next]_vars => TypeOK'
<1> SUFFICES ASSUME TypeOK, [Next]_vars PROVE TypeOK'
  OBVIOUS
<1>1. CASE UNCHANGED vars
  BY <1>1 DEF vars, handles, proxyVars, uiVars, history, TypeOK
<1> QED
  BY <1>1, TypeThread, TypeOp, TypeUi DEF Next

(* Every variable of the tray program keeps its type.                      *)
THEOREM TrayTypes == Spec => []TypeOK
  BY TypeInit, TypeNext, PTL DEF Spec

-----------------------------------------------------------------------------
(* One proxy.                                                              *)
LEMMA OneThread ==
  ASSUME TypeOK, OneInv, NEW t \in Threads, ThreadStep(t) PROVE OneInv'
<1> USE DEF handles, boxVars, history, Goes
<1>0. UNCHANGED <<op, joins, disturbed>>
  BY DEF ThreadStep
<1>1. UNCHANGED proxyThread
  BY DEF ThreadStep, Begin, Bind, BindFails, ErrorClosed, Dies, Stops, StopsListening, LoopClosed, ClearHandle, Return
<1>2. \E to \in States \ {"unmade", "born"} : thread' = [thread EXCEPT ![t] = to]
  BY DEF ThreadStep, Begin, Bind, BindFails, ErrorClosed, Dies, Stops, StopsListening, LoopClosed, ClearHandle, Return, States
<1>3. thread[t] \in {"unmade", "ending", "dead"} => ~Working(t)'
  BY <1>2 DEF ThreadStep, Begin, Bind, BindFails, ErrorClosed, Dies, Stops, StopsListening, LoopClosed, ClearHandle, Return,
              Working, TypeOK
<1>4. /\ thread[t] \in States
      /\ \A u \in Threads : u # t => thread'[u] = thread[u]
  BY <1>2 DEF TypeOK
<1>5. \A u \in Threads : Working(u)' => Working(u)
  BY <1>3, <1>4 DEF Working, States
<1>6. CASE thread[t] = "born"
  <2>1. Begin(t)
    BY <1>6 DEF ThreadStep, Begin, Bind, BindFails, ErrorClosed, Dies, Stops, StopsListening, LoopClosed, ClearHandle, Return
  <2>2. asyncStop' = t
    BY <2>1 DEF Begin
  <2>3. ~disturbed => \A u \in Threads : Working(u)' => u = t
    BY <1>5, <1>6 DEF OneInv, Working
  <2> QED
    BY <1>0, <1>1, <1>5, <2>2, <2>3 DEF OneInv, Active
<1>7. CASE thread[t] = "closed"
  <2>1. ~Working(t)'
    BY <1>2, <1>7 DEF ThreadStep, Begin, Bind, BindFails, ErrorClosed, Dies, Stops, StopsListening, LoopClosed, ClearHandle, Return,
                      Working, TypeOK
  <2>2. ~disturbed => \A u \in Threads : ~Working(u)'
    BY <1>5, <1>7, <2>1 DEF OneInv, Working
  <2> QED
    BY <1>0, <1>1, <2>2 DEF OneInv, Active
<1>8. CASE thread[t] \notin {"born", "closed"}
  <2>1. asyncStop' = asyncStop
    BY <1>8 DEF ThreadStep, Begin, Bind, BindFails, ErrorClosed, Dies, Stops, StopsListening, LoopClosed, ClearHandle, Return
  <2> QED
    BY <1>0, <1>1, <1>4, <1>5, <1>8, <2>1 DEF OneInv, Active
<1> QED
  BY <1>6, <1>7, <1>8

(* A caller starts and stops one thread at a time.                         *)
LEMMA OneOp ==
  ASSUME TypeOK, OneInv, NEW o \in Ops, OpStep(o) PROVE OneInv'
<1> USE DEF handles, proxyVars, boxVars, history, Step
<1>0. SUFFICES ASSUME ~disturbed' PROVE OneInv'
  BY DEF OneInv
<1>1. ~disturbed
  BY <1>0 DEF OpStep, Signal, PickThread, Joined, JoinTimesOut, Forget, StartProxy, AlertClosed, StartThread
<1>2. /\ \A t \in Threads : Working(t) => proxyThread = t /\ (asyncStop = t \/ thread[t] = "born")
      /\ \A q \in Ops : Active(q) => q = o
      /\ op[o] \in AfterJoin => \A t \in Threads : ~Working(t)
      /\ op[o] = "join" => joins[o] = proxyThread
      /\ Active(o)
  <2>1. Active(o)
    BY DEF OpStep, Signal, PickThread, Joined, JoinTimesOut, Forget, StartProxy, AlertClosed, StartThread, Active
  <2> QED
    BY <1>1, <2>1 DEF OneInv
<1>3. \E to \in OpStates : op' = [op EXCEPT ![o] = to]
  BY DEF OpStep, Signal, PickThread, Joined, JoinTimesOut, Forget, StartProxy, AlertClosed, StartThread, OpStates
<1>4. \A q \in Ops : q # o => op'[q] = op[q] /\ ~Active(q)'
  BY <1>2, <1>3 DEF Active, TypeOK
<1>5. asyncStop' = asyncStop
  BY DEF OpStep, Signal, PickThread, Joined, JoinTimesOut, Forget, StartProxy, AlertClosed, StartThread
<1>6. ASSUME /\ \A t \in Threads : Working(t)' => proxyThread' = t /\ (asyncStop' = t \/ thread'[t] = "born")
             /\ op'[o] \in AfterJoin => \A t \in Threads : ~Working(t)'
             /\ op'[o] = "join" => joins'[o] = proxyThread'
      PROVE  OneInv'
  BY <1>4, <1>6 DEF OneInv, Active, AfterJoin
<1>7. CASE Signal(o)
  <2>1. /\ UNCHANGED <<thread, proxyThread>>
        /\ op'[o] \in {"forget", "thread", "failed"}
        /\ op'[o] = "forget" => \A t \in Threads : ~Working(t)
    BY <1>0, <1>7 DEF Signal, TypeOK
  <2> QED
    BY <1>2, <1>5, <1>6, <2>1 DEF AfterJoin, Working
<1>8. CASE PickThread(o)
  <2>1. /\ UNCHANGED <<thread, proxyThread>>
        /\ joins'[o] = proxyThread
        /\ op'[o] = IF proxyThread = None THEN "forget" ELSE "join"
    BY <1>8 DEF PickThread, TypeOK
  <2>2. op'[o] = "forget" => \A t \in Threads : ~Working(t)
    BY <1>2, <2>1 DEF Threads, None
  <2> QED
    BY <1>2, <1>5, <1>6, <2>1, <2>2 DEF AfterJoin, Working
<1>9. CASE Joined(o)
  <2>1. /\ UNCHANGED <<thread, proxyThread>> /\ op'[o] = "alive"
        /\ ~IsAlive(joins[o]) /\ joins[o] = proxyThread
    BY <1>2, <1>9 DEF Joined, TypeOK
  <2>2. \A t \in Threads : ~Working(t)
    BY <1>2, <2>1 DEF IsAlive, Working
  <2> QED
    BY <1>6, <2>1, <2>2 DEF Working
<1>10. CASE JoinTimesOut(o)
  BY <1>0, <1>10 DEF JoinTimesOut
<1>11. CASE Forget(o)
  <2>1. UNCHANGED thread /\ op'[o] \in {"failed", "done", "start"} /\ op[o] \in AfterJoin
    BY <1>11 DEF Forget, AfterJoin, TypeOK
  <2> QED
    BY <1>2, <1>6, <2>1 DEF Working
<1>12. CASE StartProxy(o)
  <2>1. UNCHANGED thread /\ op'[o] \in {"done", "alert", "assign"} /\ op[o] \in AfterJoin
    BY <1>12 DEF StartProxy, AfterJoin, TypeOK
  <2> QED
    BY <1>2, <1>6, <2>1 DEF Working
<1>13. CASE AlertClosed(o)
  <2>1. UNCHANGED thread /\ op'[o] = "done" /\ op[o] \in AfterJoin
    BY <1>13 DEF AlertClosed, AfterJoin, TypeOK
  <2> QED
    BY <1>2, <1>6, <2>1 DEF Working
<1>14. CASE StartThread(o)
  <2>1. PICK t \in Threads : proxyThread' = t /\ thread' = [thread EXCEPT ![t] = "born"]
    BY <1>14 DEF StartThread
  <2>2. op'[o] = "done" /\ op[o] \in AfterJoin
    BY <1>14 DEF StartThread, AfterJoin, TypeOK
  <2>3. thread'[t] = "born" /\ \A u \in Threads : u # t => ~Working(u)'
    BY <1>2, <2>1, <2>2 DEF Working, TypeOK
  <2> QED
    BY <1>6, <2>1, <2>2, <2>3 DEF AfterJoin
<1> QED
  BY <1>7, <1>8, <1>9, <1>10, <1>11, <1>12, <1>13, <1>14 DEF OpStep

(* The message boxes and the exit.                                         *)
LEMMA OneUi ==
  ASSUME TypeOK, OneInv, UiStep PROVE OneInv'
<1> USE DEF handles, proxyVars, uiVars, boxVars, history, idleUi
<1>a. Main \in Ops /\ Restarts \subseteq Ops
  BY DEF Ops
<1>g. ASSUME Gone PROVE OneInv'
  BY <1>g DEF Gone, OneInv, Working, Active, AfterJoin
<1>s. ASSUME NEW o \in Ops, op' = [op EXCEPT ![o] = "signal"],
             disturbed' = (disturbed \/ \E p \in Ops : Active(p)),
             UNCHANGED <<proxyThread, asyncStop, thread, joins>>
      PROVE  OneInv'
  <2>1. SUFFICES ASSUME ~disturbed' PROVE OneInv'
    BY DEF OneInv
  <2>2. ~disturbed /\ \A p \in Ops : ~Active(p)
    BY <1>s, <2>1
  <2>3. op'[o] = "signal" /\ \A p \in Ops : p # o => op'[p] = op[p]
    BY <1>s DEF TypeOK
  <2> QED
    BY <1>s, <2>2, <2>3 DEF OneInv, Active, AfterJoin, Working
<1>l. ASSUME LeaveLoop PROVE OneInv'
  BY <1>a, <1>l, <1>s DEF LeaveLoop
<1>k. ASSUME UNCHANGED <<proxyThread, asyncStop, thread, joins, op, disturbed>> PROVE OneInv'
  BY <1>k DEF OneInv, Active, AfterJoin, Working
<1>1. ASSUME NEW o \in Restarts, AskRestart(o) PROVE OneInv'
  BY <1>1, <1>a, <1>s DEF AskRestart
<1>2. CASE Save
  BY <1>2, <1>k DEF Save
<1>3. CASE EnterLoop
  BY <1>3, <1>k DEF EnterLoop
<1>4. CASE ExitClicked
  BY <1>4, <1>l DEF ExitClicked
<1>5. CASE ForceExit
  BY <1>5, <1>g DEF ForceExit
<1>6. CASE ExitQueued
  BY <1>6, <1>k DEF ExitQueued
<1>7. CASE Pump
  BY <1>7, <1>k, <1>l DEF Pump
<1>8. CASE ProcessEnds
  BY <1>8, <1>g DEF ProcessEnds
<1> QED
  BY <1>1, <1>2, <1>3, <1>4, <1>5, <1>6, <1>7, <1>8 DEF UiStep

(* Every step.                                                             *)
LEMMA OneNext == TypeOK /\ OneInv /\ [Next]_vars => OneInv'
<1> SUFFICES ASSUME TypeOK, OneInv, [Next]_vars PROVE OneInv'
  OBVIOUS
<1>1. CASE UNCHANGED vars
  BY <1>1 DEF vars, handles, proxyVars, uiVars, history, OneInv, Active, AfterJoin, Working
<1> QED
  BY <1>1, OneThread, OneOp, OneUi DEF Next

(* Restarts and exits that neither overlap nor give up on a thread keep one *)
(* proxy, which the next stop reaches, however many there are.             *)
THEOREM OneProxyHolds == Spec => []OneProxy
<1>1. Init => OneInv
  BY DEF Init, OneInv, Working, Active, AfterJoin, Ops
<1>2. OneInv => OneProxy
  BY DEF OneInv, OneProxy
<1> QED
  BY <1>1, <1>2, TypeInit, TypeNext, OneNext, PTL DEF Spec
-----------------------------------------------------------------------------
(* The last restart's settings.                                            *)
LEMMA LatestThread ==
  ASSUME TypeOK, LatestInv, NEW t \in Threads, ThreadStep(t) PROVE LatestInv'
<1> USE DEF handles, boxVars, history, Goes
<1>0. UNCHANGED <<op, config, applied, due, disturbed>>
  BY DEF ThreadStep
<1>1. ASSUME ~disturbed, \A o \in Ops : op[o] \notin BeforeJoin PROVE Recent'
  <2>1. Recent
    BY <1>1 DEF LatestInv
  <2>2. SUFFICES ASSUME NEW u \in Threads
                 PROVE  /\ thread'[u] \in {"born", "setup"} => applied >= due
                        /\ thread'[u] = "serving" => serves'[u] >= due
    BY <1>0 DEF Recent
  <2>3. \/ thread'[u] = thread[u] /\ serves'[u] = serves[u]
        \/ thread'[u] = "setup" /\ thread[u] = "born"
        \/ thread'[u] = "serving" /\ thread[u] = "setup" /\ serves'[u] = applied
        \/ thread'[u] \in {"gather", "error", "cleanup", "closed", "ending", "dead"}
    BY DEF ThreadStep, Begin, Bind, BindFails, ErrorClosed, Dies, Stops, StopsListening, LoopClosed, ClearHandle, Return, TypeOK
  <2> QED
    BY <2>1, <2>3 DEF Recent
<1> QED
  BY <1>0, <1>1 DEF LatestInv

(* A caller applies settings before it starts a thread.                    *)
LEMMA LatestOp ==
  ASSUME TypeOK, OneInv, LatestInv, NEW o \in Ops, OpStep(o) PROVE LatestInv'
<1> USE DEF handles, proxyVars, boxVars, history, Step
<1>1. UNCHANGED <<config, due, serves>>
  BY DEF OpStep, Signal, PickThread, Joined, JoinTimesOut, Forget, StartProxy, AlertClosed, StartThread
<1>2. SUFFICES ASSUME ~disturbed'
               PROVE  /\ \A q \in Ops : op'[q] = "assign" => applied' >= due
                      /\ (\A q \in Ops : op'[q] \notin BeforeJoin) => Recent'
  BY <1>1 DEF LatestInv
<1>3. /\ ~disturbed /\ due <= config
      /\ op[o] = "assign" => applied >= due
      /\ op[o] \in AfterJoin => \A t \in Threads : ~Working(t)
      /\ \A t \in Threads : Working(t) => proxyThread = t
  <2>1. ~disturbed
    BY <1>2 DEF OpStep, Signal, PickThread, Joined, JoinTimesOut, Forget, StartProxy, AlertClosed,
                StartThread
  <2> QED
    BY <2>1 DEF LatestInv, OneInv
<1>4. \A q \in Ops : q # o => op'[q] # "assign"
  <2>1. Active(o)
    BY DEF OpStep, Signal, PickThread, Joined, JoinTimesOut, Forget, StartProxy, AlertClosed, StartThread, Active
  <2>2. \A q \in Ops : q # o => op[q] # "assign" /\ op'[q] = op[q]
    <3>1. \A q \in Ops : q # o => op'[q] = op[q]
      BY DEF OpStep, Signal, PickThread, Joined, JoinTimesOut, Forget, StartProxy, AlertClosed, StartThread,
             TypeOK
    <3> QED
      BY <1>3, <2>1, <3>1 DEF OneInv, Active
  <2> QED
    BY <2>2
<1>5. op'[o] = "assign" => applied' >= due
  <2>1. op'[o] = "assign" => StartProxy(o) /\ applied' = config
    BY DEF OpStep, Signal, PickThread, Joined, JoinTimesOut, Forget, StartProxy, AlertClosed, StartThread,
           TypeOK
  <2> QED
    BY <1>3, <2>1 DEF TypeOK, Versions
<1>6. ASSUME thread' = thread, \A t \in Threads : thread[t] \notin {"born", "setup", "serving"} PROVE Recent'
  BY <1>6 DEF Recent
<1>7. ASSUME thread' = thread, \A t \in Threads : ~Working(t) PROVE Recent'
  BY <1>6, <1>7 DEF Working
<1>8. ASSUME \A q \in Ops : op'[q] \notin BeforeJoin PROVE Recent'
  <2>0. op'[o] \notin BeforeJoin
    BY <1>8
  <2>1. CASE Signal(o)
    <3>1. thread' = thread /\ op'[o] \in {"forget", "failed", "thread"}
      BY <2>1 DEF Signal, TypeOK
    <3>2. CASE op'[o] = "forget"
      BY <1>2, <1>7, <2>1, <3>1, <3>2 DEF Signal, TypeOK
    <3>3. CASE op'[o] = "failed"
      <4>1. asyncStop \in Threads /\ thread[asyncStop] = "closed"
        BY <2>1, <3>3 DEF Signal, TypeOK
      <4>2. \A t \in Threads : Working(t) => t = asyncStop
        BY <1>3, <4>1 DEF Working
      <4> QED
        BY <1>6, <3>1, <4>1, <4>2 DEF Working
    <3> QED
      BY <2>0, <3>1, <3>2, <3>3 DEF BeforeJoin
  <2>2. CASE PickThread(o)
    <3>1. thread' = thread /\ proxyThread = None
      BY <2>0, <2>2 DEF PickThread, TypeOK, BeforeJoin
    <3> QED
      BY <1>3, <1>7, <3>1 DEF Threads, None
  <2>3. CASE Joined(o)
    <3>1. thread' = thread /\ op[o] = "join" /\ joins[o] = proxyThread /\ ~IsAlive(proxyThread)
      BY <1>3, <2>3 DEF Joined, OneInv
    <3> QED
      BY <1>3, <1>7, <3>1 DEF IsAlive, Working
  <2>4. CASE JoinTimesOut(o)
    BY <1>2, <2>4 DEF JoinTimesOut
  <2>5. CASE Forget(o) \/ StartProxy(o) \/ AlertClosed(o)
    <3>1. thread' = thread /\ op[o] \in AfterJoin
      BY <2>5 DEF Forget, StartProxy, AlertClosed, AfterJoin
    <3> QED
      BY <1>3, <1>7, <3>1
  <2>6. CASE StartThread(o)
    <3>1. op[o] = "assign" /\ applied' = applied
      BY <2>6 DEF StartThread
    <3>2. PICK t \in Threads : thread' = [thread EXCEPT ![t] = "born"]
      BY <2>6 DEF StartThread
    <3>3. \A u \in Threads : u # t => ~Working(u)'
      BY <1>3, <3>1, <3>2 DEF AfterJoin, Working, TypeOK
    <3>4. thread'[t] = "born"
      BY <3>2 DEF TypeOK
    <3> QED
      BY <1>1, <1>3, <3>1, <3>3, <3>4 DEF Recent, Working
  <2> QED
    BY <2>1, <2>2, <2>3, <2>4, <2>5, <2>6 DEF OpStep
<1> QED
  BY <1>4, <1>5, <1>8

(* The message boxes and the exit.                                         *)
LEMMA LatestUi ==
  ASSUME TypeOK, LatestInv, UiStep PROVE LatestInv'
<1> USE DEF handles, proxyVars, uiVars, boxVars, history, idleUi
<1>a. Main \in Ops /\ Restarts \subseteq Ops
  BY DEF Ops
<1>g. ASSUME Gone PROVE LatestInv'
  BY <1>g DEF Gone, LatestInv, Recent
<1>s. ASSUME NEW o \in Ops, op' = [op EXCEPT ![o] = "signal"],
             disturbed' = (disturbed \/ \E p \in Ops : Active(p)),
             UNCHANGED config, due' \in {due, config}
      PROVE  LatestInv'
  <2>1. due' <= config'
    BY <1>s DEF LatestInv, TypeOK, Versions
  <2>2. op'[o] = "signal" /\ \A p \in Ops : p # o => op'[p] = op[p]
    BY <1>s DEF TypeOK
  <2>3. ~disturbed' => \A p \in Ops : op'[p] # "assign"
    BY <1>s, <2>2 DEF Active
  <2> QED
    BY <2>1, <2>2, <2>3 DEF LatestInv, BeforeJoin
<1>l. ASSUME LeaveLoop PROVE LatestInv'
  BY <1>a, <1>l, <1>s DEF LeaveLoop
<1>k. ASSUME UNCHANGED <<thread, serves, applied, op, due, disturbed>>, config' \in {config, config + 1}
      PROVE  LatestInv'
  <2>1. due' <= config'
    BY <1>k DEF LatestInv, TypeOK, Versions
  <2> QED
    BY <1>k, <2>1 DEF LatestInv, Recent
<1>1. ASSUME NEW o \in Restarts, AskRestart(o) PROVE LatestInv'
  BY <1>1, <1>a, <1>s DEF AskRestart
<1>2. CASE Save
  BY <1>2, <1>k DEF Save
<1>3. CASE EnterLoop
  BY <1>3, <1>k DEF EnterLoop
<1>4. CASE ExitClicked
  BY <1>4, <1>l DEF ExitClicked
<1>5. CASE ForceExit
  BY <1>5, <1>g DEF ForceExit
<1>6. CASE ExitQueued
  BY <1>6, <1>k DEF ExitQueued
<1>7. CASE Pump
  BY <1>7, <1>k, <1>l DEF Pump
<1>8. CASE ProcessEnds
  BY <1>8, <1>g DEF ProcessEnds
<1> QED
  BY <1>1, <1>2, <1>3, <1>4, <1>5, <1>6, <1>7, <1>8 DEF UiStep

(* Every step.                                                             *)
LEMMA LatestNext == TypeOK /\ OneInv /\ LatestInv /\ [Next]_vars => LatestInv'
<1> SUFFICES ASSUME TypeOK, OneInv, LatestInv, [Next]_vars PROVE LatestInv'
  OBVIOUS
<1>1. CASE UNCHANGED vars
  BY <1>1 DEF vars, handles, proxyVars, uiVars, history, LatestInv, Recent
<1> QED
  BY <1>1, LatestThread, LatestOp, LatestUi DEF Next

(* When the restarts are over, a proxy that serves has the settings of the *)
(* last of them, however many restarts there were.                         *)
THEOREM ServesLatestHolds == Spec => []ServesLatest
<1>1. Init => OneInv /\ LatestInv
  BY DEF Init, OneInv, LatestInv, Recent, Working, Active, AfterJoin, Ops
<1>2. LatestInv => ServesLatest
  BY DEF LatestInv, ServesLatest, Recent, Active, BeforeJoin
<1> QED
  BY <1>1, <1>2, TypeInit, TypeNext, OneNext, LatestNext, PTL DEF Spec
=============================================================================
