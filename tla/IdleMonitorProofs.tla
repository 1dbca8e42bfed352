-------------------------- MODULE IdleMonitorProofs --------------------------
(***************************************************************************)
(* Proofs about IdleMonitor on its own: its types, and what it takes to    *)
(* lose a running timer, for any number of goroutines that fire events,    *)
(* any number of timers and any value of ExitOnIdle.                       *)
(***************************************************************************)
EXTENDS IdleMonitor, TLAPS

\* The manager as Manager.Init leaves it is well typed.
LEMMA TypeInit == Init => TypeOK
  BY MonitorAssumption
     DEF MonitorAssumption, Init, MonitorInit, TypeOK, MonitorTypeOK, IdleLabels

\* The handlers, the runtime timers and the goroutines that wait keep the types.
LEMMA TypeNext == ASSUME TypeOK, [Next]_monitorVars PROVE TypeOK'
  <1> USE MonitorAssumption DEF MonitorAssumption, TypeOK, MonitorTypeOK,
          IdleLabels, BusyLabels, Goto, timerVars
  <1>1. ASSUME NEW p \in Firers, FireEvent(p) PROVE TypeOK'
    BY <1>1 DEF FireEvent
  <1>2. ASSUME NEW p \in Firers, NEW t \in Timers, OnIdleEvent(p, t)
        PROVE  TypeOK'
    BY <1>2 DEF OnIdleEvent, OnIdleStatus, CheckTimer, StopTimer, ClearTimer,
       ArmTimer
  <1>3. ASSUME NEW p \in Firers, OnBusyEvent(p) PROVE TypeOK'
    BY <1>3 DEF OnBusyEvent, OnBusyStatus, CheckTimer, StopTimer, ClearTimer
  <1>4. ASSUME NEW t \in Timers, TimerFires(t) PROVE TypeOK'
    BY <1>4 DEF TimerFires
  <1>5. ASSUME NEW t \in Timers, Watcher(t) PROVE TypeOK'
    BY <1>5 DEF Watcher, WatcherStarts, WatcherPanics
  <1>6. CASE UNCHANGED monitorVars
    BY <1>6 DEF monitorVars
  <1> QED
    BY <1>1, <1>2, <1>3, <1>4, <1>5, <1>6 DEF Next, Handler

\* The fields of the manager keep their types, however many goroutines fire events.
THEOREM TypeCorrect == Spec => []TypeOK
  BY TypeInit, TypeNext, PTL DEF Spec

-----------------------------------------------------------------------------
(***************************************************************************)
(* Handlers that overlap without colliding.  ArmedIsCurrent alone is not   *)
(* inductive: ClearTimer drops the field, ArmTimer overwrites it, and      *)
(* neither looks at the timer that it drops.  They may, since nothing is   *)
(* armed by then: a handler that has found a timer still finds it there,   *)
(* and one that is about to arm a timer finds none.                        *)
(***************************************************************************)
NoneArmed == \A t \in Timers : timer[t] # "armed"

ArmedInv ==
    /\ ArmedIsCurrent
    /\ \A p \in Firers :
           /\ pc[p] \notin {"idlePanic", "busyPanic"}
           /\ pc[p] \in FoundTimer => idleTimer # None
           /\ pc[p] \in {"idleClear", "busyClear"} => NoneArmed
           /\ pc[p] = "idleArm" => idleTimer = None

\* The only timer that Manager.Init arms is in the field.
LEMMA ArmedInit == Init => ArmedInv
  BY DEF Init, MonitorInit, ArmedInv, ArmedIsCurrent, FoundTimer

\* A step between two states without a collision keeps ArmedInv, whatever
\* goroutine takes it.
LEMMA ArmedNext ==
    ASSUME TypeOK, ArmedInv, ~Collide, ~Collide', [Next]_monitorVars
    PROVE  ArmedInv'
  <1> USE MonitorAssumption DEF MonitorAssumption, TypeOK, MonitorTypeOK, Collide,
          FoundTimer, ArmedInv, ArmedIsCurrent, NoneArmed, Goto, timerVars
  <1>1. ASSUME NEW p \in Firers, FireEvent(p) PROVE ArmedInv'
    BY <1>1 DEF FireEvent
  <1>2. ASSUME NEW p \in Firers, OnIdleStatus(p) \/ OnBusyStatus(p) PROVE ArmedInv'
    BY <1>2 DEF OnIdleStatus, OnBusyStatus
  <1>3. ASSUME NEW p \in Firers,
               \/ CheckTimer(p, "idleCheck", "idleStop", "idleArm")
               \/ CheckTimer(p, "busyCheck", "busyStop", "busyFired")
        PROVE  ArmedInv'
    BY <1>3 DEF CheckTimer
  <1>4. ASSUME NEW p \in Firers,
               \/ StopTimer(p, "idleStop", "idleClear", "idlePanic")
               \/ StopTimer(p, "busyStop", "busyClear", "busyPanic")
        PROVE  ArmedInv'
    BY <1>4 DEF StopTimer
  <1>5. ASSUME NEW p \in Firers,
               \/ ClearTimer(p, "idleClear", "idleArm")
               \/ ClearTimer(p, "busyClear", "busyFired")
        PROVE  ArmedInv'
    BY <1>5 DEF ClearTimer
  <1>6. ASSUME NEW p \in Firers, NEW t \in Timers, ArmTimer(p, t) PROVE ArmedInv'
    BY <1>6 DEF ArmTimer
  <1>7. ASSUME NEW t \in Timers, TimerFires(t) PROVE ArmedInv'
    BY <1>7 DEF TimerFires
  <1>8. ASSUME NEW t \in Timers, Watcher(t) PROVE ArmedInv'
    BY <1>8 DEF Watcher, WatcherStarts, WatcherPanics
  <1>9. CASE UNCHANGED monitorVars
    BY <1>9 DEF monitorVars
  <1> QED
    BY <1>1, <1>2, <1>3, <1>4, <1>5, <1>6, <1>7, <1>8, <1>9
       DEF Next, Handler, OnIdleEvent, OnBusyEvent

\* However many goroutines fire events, and however their handlers overlap, no
\* armed timer is lost by m.idleTimer, and no handler dereferences a nil one,
\* before two handlers have collided.
THEOREM CollisionsAlone == Spec => OnlyCollisionsHarm
  <1>1. ArmedInv => /\ ArmedIsCurrent
                    /\ \A p \in Firers : pc[p] \notin {"idlePanic", "busyPanic"}
    BY DEF ArmedInv
  <1> QED
    BY <1>1, TypeInit, TypeNext, ArmedInit, ArmedNext, PTL
       DEF Spec, OnlyCollisionsHarm
=============================================================================
