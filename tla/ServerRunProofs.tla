--------------------------- MODULE ServerRunProofs --------------------------
(***************************************************************************)
(* Proofs about ServerRun, for any number of clients and either kind of     *)
(* wait_closed().                                                           *)
(***************************************************************************)
EXTENDS ServerRun, TLAPS

(* A run that begins.                                                      *)
LEMMA TypeInit == Init => TypeOK
  BY DEF Init, TypeOK

(* Every step keeps the types.                                             *)
LEMMA TypeStep == TypeOK /\ [Next]_vars => TypeOK'
  <1> SUFFICES ASSUME TypeOK, [Next]_vars PROVE TypeOK'
    OBVIOUS
  <1> USE DEF TypeOK
  <1>1. CASE Start
    BY <1>1 DEF Start
  <1>2. CASE Supervise
    BY <1>2 DEF Supervise, StopSweep, StopClose, WatchdogFires, ListenerClosed, Rebind,
                CleanUp, LoopClosed, Cancelled, Alive
  <1>3. CASE RequestStop \/ ListenerDies \/ Gone
    BY <1>3 DEF RequestStop, ListenerDies, Gone, vars
  <1>4. ASSUME NEW c \in Clients, Accept(c) \/ HandlerEnds(c) PROVE TypeOK'
    BY <1>4 DEF Accept, HandlerEnds
  <1>5. CASE UNCHANGED vars
    BY <1>5 DEF vars
  <1> QED
    BY <1>1, <1>2, <1>3, <1>4, <1>5 DEF Next

(* The types of _run's state hold throughout a run.                        *)
THEOREM TypeCorrect == Spec => []TypeOK
  BY TypeInit, TypeStep, PTL DEF Spec

-----------------------------------------------------------------------------
(* While the stop path waits, whoever is alive is being waited for or came *)
(* late; once it closed the listener nobody comes any more.                *)
SweepInv ==
  /\ pc = "gather" => Alive \subseteq awaited \cup late
  /\ pc = "stopping" => Alive \subseteq late /\ ~listening

(* A handler that is cancelled is alive until it ends.                     *)
LEMMA CancelKeepsAlive ==
  ASSUME TypeOK, handler' = Cancelled(Alive)
  PROVE  Alive' = Alive
  BY DEF TypeOK, Cancelled, Alive

(* Every step keeps what is known of the clients of the stop path.         *)
LEMMA SweepStep == TypeOK /\ SweepInv /\ [Next]_vars => SweepInv'
  <1> SUFFICES ASSUME TypeOK, SweepInv, [Next]_vars PROVE SweepInv'
    OBVIOUS
  <1>1. CASE StopSweep
    <2>1. Alive' = Alive
      BY <1>1, CancelKeepsAlive DEF StopSweep
    <2> QED
      BY <1>1, <2>1 DEF StopSweep, SweepInv
  <1>2. CASE StopClose
    BY <1>2 DEF StopClose, SweepInv, Alive
  <1>3. CASE Start \/ WatchdogFires \/ ListenerClosed \/ Rebind \/ CleanUp \/ LoopClosed
    BY <1>3 DEF Start, WatchdogFires, ListenerClosed, Rebind, CleanUp, LoopClosed, SweepInv
  <1>4. CASE RequestStop \/ ListenerDies \/ Gone \/ UNCHANGED vars
    BY <1>4 DEF RequestStop, ListenerDies, Gone, vars, SweepInv, Alive
  <1>5. ASSUME NEW c \in Clients, Accept(c) PROVE SweepInv'
    <2>1. Alive' \subseteq Alive \cup {c}
      BY <1>5 DEF Accept, Alive, TypeOK
    <2> QED
      BY <1>5, <2>1 DEF Accept, SweepInv
  <1>6. ASSUME NEW c \in Clients, HandlerEnds(c) PROVE SweepInv'
    <2>1. Alive' \subseteq Alive
      BY <1>6 DEF HandlerEnds, Alive, TypeOK
    <2> QED
      BY <1>6, <2>1 DEF HandlerEnds, SweepInv
  <1> QED
    BY <1>1, <1>2, <1>3, <1>4, <1>5, <1>6 DEF Next, Supervise

(* However many clients there are and whenever they come, the sessions     *)
(* that outlive the stop path's wait are those accepted during it.         *)
THEOREM SweepHolds == Spec => []SweepLeavesOnlyLate
  <1>1. Init => SweepInv
    BY DEF Init, SweepInv
  <1>2. SweepInv => SweepLeavesOnlyLate
    BY DEF SweepInv, SweepLeavesOnlyLate
  <1> QED
    BY <1>1, <1>2, SweepStep, TypeCorrect, PTL DEF Spec
=============================================================================
