---------------------------- MODULE IdleMonitor ----------------------------
(***************************************************************************)
(* The idle/busy events of config.Manager: the status of the agent, the    *)
(* timer that makes an idle agent exit, and the goroutine that waits for   *)
(* each timer.                                                             *)
(*                                                                         *)
(* FireEvent runs the handler in the goroutine that fires it, and nothing  *)
(* serialises two handlers, so each read and each write of m.idleTimer is  *)
(* a step of its own.  pc[p] is where the goroutine p stands; a goroutine  *)
(* enters a handler at "fireIdle" or "fireBusy" and leaves it at           *)
(* "idleFired" or "busyFired", or at "idlePanic" or "busyPanic" when the   *)
(* handler dereferences a nil m.idleTimer.                                 *)
(*                                                                         *)
(* Time is abstract: an armed timer may fire at any moment.                *)
(***************************************************************************)
EXTENDS Naturals

CONSTANTS
    Firers,      \* the goroutines that fire events
    Timers,      \* the time.Timer values that can be allocated
    Boot,        \* the one that Manager.Init allocates
    None,        \* nil
    ExitOnIdle   \* AgentConfig.ExitOnIdle, in seconds

ASSUME MonitorAssumption ==
    /\ Boot \in Timers
    /\ None \notin Timers
    /\ ExitOnIdle \in Nat

VARIABLES
    pc,          \* pc[p]: the place of goroutine p
    status,      \* m.status
    idleTimer,   \* m.idleTimer: a timer or nil
    timer,       \* timer[t]: the runtime state of timer t
    spawned,     \* timers whose watcher goroutine has not run yet
    watches,     \* watches[t]: the timer whose channel the watcher that
                 \* was started with t receives from
    agent        \* "up", or how the process ended

timerVars == <<idleTimer, timer, spawned, watches>>
monitorVars == <<pc, status, idleTimer, timer, spawned, watches, agent>>

IdleLabels == {"fireIdle", "idleCheck", "idleStop", "idleClear", "idleArm",
               "idleFired", "idlePanic"}
BusyLabels == {"fireBusy", "busyCheck", "busyStop", "busyClear",
               "busyFired", "busyPanic"}

Goto(p, label) == pc' = [pc EXCEPT ![p] = label]

(***************************************************************************)
(* onIdleEvent                                                             *)
(***************************************************************************)
OnIdleStatus(p) ==
    /\ pc[p] = "fireIdle"
    /\ status' = "idle"
    /\ Goto(p, IF ExitOnIdle = 0 THEN "idleFired" ELSE "idleCheck")
    /\ UNCHANGED <<timerVars, agent>>

\* m.idleTimer != nil, in both handlers
CheckTimer(p, at, some, none) ==
    /\ pc[p] = at
    /\ Goto(p, IF idleTimer = None THEN none ELSE some)
    /\ UNCHANGED <<status, timerVars, agent>>

\* (mutant) the timer is forgotten without being stopped
StopTimerForgets(p, at, next, panic) ==
    /\ pc[p] = at
    /\ Goto(p, IF idleTimer = None THEN panic ELSE next)
    /\ UNCHANGED <<status, timerVars, agent>>

\* m.idleTimer.Stop(), in both handlers: the field is read again, and a timer
\* that has fired keeps its value in the channel
StopTimer(p, at, next, panic) ==
    /\ pc[p] = at
    /\ IF idleTimer = None
       THEN /\ Goto(p, panic)
            /\ UNCHANGED timer
       ELSE /\ Goto(p, next)
            /\ timer' = [timer EXCEPT ![idleTimer] =
                            IF @ = "armed" THEN "stopped" ELSE @]
    /\ UNCHANGED <<status, idleTimer, spawned, watches, agent>>

\* m.idleTimer = nil, in both handlers
ClearTimer(p, at, next) ==
    /\ pc[p] = at
    /\ idleTimer' = None
    /\ Goto(p, next)
    /\ UNCHANGED <<status, timer, spawned, watches, agent>>

\* (mutant) no goroutine waits for the new timer
ArmTimerUnwatched(p, t) ==
    /\ pc[p] = "idleArm"
    /\ timer[t] = "unset"
    /\ timer' = [timer EXCEPT ![t] = "armed"]
    /\ idleTimer' = t
    /\ Goto(p, "idleFired")
    /\ UNCHANGED <<status, spawned, watches, agent>>

\* m.idleTimer = time.NewTimer(..); go func() { .. }
ArmTimer(p, t) ==
    /\ pc[p] = "idleArm"
    /\ timer[t] = "unset"
    /\ timer' = [timer EXCEPT ![t] = "armed"]
    /\ idleTimer' = t
    /\ spawned' = spawned \cup {t}
    /\ Goto(p, "idleFired")
    /\ UNCHANGED <<status, watches, agent>>

OnIdleEvent(p, t) ==
    \/ OnIdleStatus(p)
    \/ CheckTimer(p, "idleCheck", "idleStop", "idleArm")
    \/ StopTimer(p, "idleStop", "idleClear", "idlePanic")
    \/ ClearTimer(p, "idleClear", "idleArm")
    \/ ArmTimer(p, t)

(***************************************************************************)
(* onBusyEvent                                                             *)
(***************************************************************************)
OnBusyStatus(p) ==
    /\ pc[p] = "fireBusy"
    /\ status' = "busy"
    /\ Goto(p, "busyCheck")
    /\ UNCHANGED <<timerVars, agent>>

OnBusyEvent(p) ==
    \/ OnBusyStatus(p)
    \/ CheckTimer(p, "busyCheck", "busyStop", "busyFired")
    \/ StopTimer(p, "busyStop", "busyClear", "busyPanic")
    \/ ClearTimer(p, "busyClear", "busyFired")

(***************************************************************************)
(* The runtime timers and the goroutines that wait for them                *)
(***************************************************************************)
TimerFires(t) ==
    /\ timer[t] = "armed"
    /\ timer' = [timer EXCEPT ![t] = "fired"]
    /\ UNCHANGED <<pc, status, idleTimer, spawned, watches, agent>>

\* the goroutine reads m.idleTimer.C when it is first scheduled, not when it
\* is created: the field may then hold a later timer, or nil
WatcherStarts(t) ==
    /\ t \in spawned
    /\ spawned' = spawned \ {t}
    /\ IF idleTimer = None
       THEN agent' = "watcherPanic" /\ UNCHANGED watches
       ELSE watches' = [watches EXCEPT ![t] = idleTimer] /\ UNCHANGED agent
    /\ UNCHANGED <<pc, status, idleTimer, timer>>

\* t := <-m.idleTimer.C; panic("idle after %d seconds, agent will be exited")
WatcherPanics(t) ==
    /\ watches[t] # None
    /\ timer[watches[t]] = "fired"
    /\ agent' = "idleExit"
    /\ UNCHANGED <<pc, status, timerVars>>

Watcher(t) == WatcherStarts(t) \/ WatcherPanics(t)

(***************************************************************************)
(* The state Manager.Init leaves behind: it has fired the first idle event.*)
(***************************************************************************)
MonitorInit ==
    /\ status = "idle"
    /\ idleTimer = (IF ExitOnIdle = 0 THEN None ELSE Boot)
    /\ timer = [t \in Timers |->
                  IF t = Boot /\ ExitOnIdle > 0 THEN "armed" ELSE "unset"]
    /\ spawned = (IF ExitOnIdle = 0 THEN {} ELSE {Boot})
    /\ watches = [t \in Timers |-> None]
    /\ agent = "up"

-----------------------------------------------------------------------------
(***************************************************************************)
(* The monitor on its own, with goroutines that fire events in any order.  *)
(* The number of idle events is bounded by the number of timers.           *)
(***************************************************************************)
Rested(p) == pc[p] \in {"idleFired", "busyFired"}

FireEvent(p) ==
    /\ Rested(p)
    /\ \/ /\ \E t \in Timers : timer[t] = "unset"
          /\ Goto(p, "fireIdle")
       \/ Goto(p, "fireBusy")
    /\ UNCHANGED <<status, timerVars, agent>>

Handler(p) == (\E t \in Timers : OnIdleEvent(p, t)) \/ OnBusyEvent(p)

Init == MonitorInit /\ pc = [p \in Firers |-> "idleFired"]

Next ==
    /\ agent = "up"
    /\ \/ \E p \in Firers : FireEvent(p) \/ Handler(p)
       \/ \E t \in Timers : TimerFires(t) \/ Watcher(t)

Spec == Init /\ [][Next]_monitorVars

\* A handler that has begun goes on, a timer that is armed fires, and a
\* goroutine that can run is scheduled.  Nothing makes an event be fired.
Fairness ==
    /\ \A p \in Firers : WF_monitorVars(agent = "up" /\ Handler(p))
    /\ \A t \in Timers : /\ WF_monitorVars(agent = "up" /\ TimerFires(t))
                         /\ WF_monitorVars(agent = "up" /\ Watcher(t))

FairSpec == Spec /\ Fairness

-----------------------------------------------------------------------------
MonitorTypeOK ==
    /\ status \in {"idle", "busy"}
    /\ idleTimer \in Timers \cup {None}
    /\ timer \in [Timers -> {"unset", "armed", "fired", "stopped"}]
    /\ spawned \in SUBSET Timers
    /\ watches \in [Timers -> Timers \cup {None}]

\* Types of the monitor's state (config/manager.go, the fields of Manager).
TypeOK ==
    /\ MonitorTypeOK
    /\ pc \in [Firers -> IdleLabels \cup BusyLabels]
    /\ agent \in {"up", "idleExit", "watcherPanic"}

\* m.idleTimer has lost no timer that runs: the next busy event stops
\* whatever timer is armed.
ArmedIsCurrent == \A t \in Timers : timer[t] = "armed" => idleTimer = t

\* Two handlers collide when both have found a timer in m.idleTimer and
\* neither has cleared it, or when two idle events are both about to arm one.
FoundTimer == {"idleStop", "idleClear", "busyStop", "busyClear"}

Collide ==
    \E p, q \in Firers :
        /\ p # q
        /\ \/ pc[p] \in FoundTimer /\ pc[q] \in FoundTimer
           \/ pc[p] = "idleArm" /\ pc[q] = "idleArm"

\* The goroutine of a job fires idle while the consumer of the commands fires
\* busy, and nothing keeps one handler out of the other.  They may overlap in
\* any other way, a busy event overtaking the idle event of the command before
\* it included: only after two of them have collided is a running timer lost by
\* m.idleTimer, where no busy event can stop it any more, or the field found
\* nil by a handler that has just seen a timer in it.
OnlyCollisionsHarm ==
    []~Collide =>
    [](ArmedIsCurrent /\ \A p \in Firers : pc[p] \notin {"idlePanic", "busyPanic"})

\* An agent whose last event was idle, and that is configured to exit on
\* idle, does exit: the newest timer has a watcher and nothing stops it.
IdleAgentExits ==
    (<>[](\A p \in Firers : pc[p] = "idleFired")) => <>(agent # "up")
=============================================================================
