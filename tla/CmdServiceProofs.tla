-------------------------- MODULE CmdServiceProofs --------------------------
(***************************************************************************)
(* Proofs about CmdService, for any set of commands, of callers and of     *)
(* control messages and any value of ExitOnIdle.                           *)
(*                                                                         *)
(* Each invariance proof has one step per action of CmdService.  The steps *)
(* of the idle monitor and of its handlers touch nothing the service's     *)
(* invariants speak of but pc; BusyFrame, IdleFrame and MonitorFrame say   *)
(* so once.                                                                *)
(***************************************************************************)
EXTENDS CmdService, TLAPS

\* A caller that works on a command has one: req is nil only in a caller that
\* never received a SHELL message.
CallerHasCmd ==
    \A p \in Callers :
        req[p] = None => pc[p] \in {"ready", "kill", "closeKill", "cancel"}

TypeInv == TypeOK /\ CallerHasCmd

\* The agent as Manager.Init leaves it is well typed, and no caller is at work.
LEMMA TypeInit == Init => TypeInv
  <1> SUFFICES ASSUME Init PROVE TypeInv
    OBVIOUS
  <1> USE ServiceAssumption DEF ServiceAssumption, Init, Procs, Callers
  <1>1. Idle!MonitorTypeOK
    BY DEF Idle!MonitorInit, Idle!MonitorTypeOK, Timers
  <1>2. /\ pc \in [Procs -> CallerLabels \cup JobLabels]
        /\ \A p \in Callers : pc[p] \in CallerLabels
        /\ \A c \in Cmds : pc[c] \in JobLabels
    BY DEF CallerLabels, JobLabels
  <1>3. agent = "up"
    BY DEF Idle!MonitorInit
  <1>4. CallerHasCmd
    BY DEF CallerHasCmd
  <1> QED
    BY <1>1, <1>2, <1>3, <1>4 DEF TypeInv, TypeOK

\* Every step of a caller, a job, a timer or main keeps the types, and a caller
\* that has entered execShell has a command.
LEMMA TypeNext == ASSUME TypeInv, [Next]_vars PROVE TypeInv'
  <1> USE ServiceAssumption DEF TypeInv, TypeOK, CallerHasCmd,
          Idle!MonitorTypeOK, Goto, Panic, Callers, Procs, Timers
  <1> USE DEF serviceVars, monitorVars, CallerLabels, JobLabels,
          PrepareLabels, FailLabels, ReleaseLabels, WorkLabels
  <1>1. ASSUME NEW p \in Callers, NEW c \in Cmds, Receive(p, c) PROVE TypeInv'
    BY <1>1 DEF Receive
  <1>2. ASSUME NEW p \in Callers, Reject(p) PROVE TypeInv'
    BY <1>2 DEF Reject
  <1>3. ASSUME NEW p \in Callers, Enter(p) PROVE TypeInv'
    BY <1>3 DEF Enter
  <1>4. ASSUME NEW p \in Callers, FireBusy(p) PROVE TypeInv'
    BY <1>4 DEF FireBusy, Idle!OnBusyEvent, Idle!OnBusyStatus,
       Idle!CheckTimer, Idle!StopTimer, Idle!ClearTimer, Idle!timerVars,
       Idle!Goto
  <1>5. ASSUME NEW p \in Callers, Build(p) PROVE TypeInv'
    BY <1>5 DEF Build
  <1>6. ASSUME NEW p \in Callers, InitOk(p) PROVE TypeInv'
    BY <1>6 DEF InitOk
  <1>7. ASSUME NEW p \in Callers, Fail(p) PROVE TypeInv'
    BY <1>7 DEF Fail
  <1>8. ASSUME NEW p \in Callers, FailureBeforeExecute(p) PROVE TypeInv'
    BY <1>8 DEF FailureBeforeExecute
  <1>9. ASSUME NEW c \in Cmds, JobStart(c) PROVE TypeInv'
    BY <1>9 DEF JobStart, JobStep
  <1>10. ASSUME NEW c \in Cmds, StartReturns(c) PROVE TypeInv'
    BY <1>10 DEF StartReturns
  <1>11. ASSUME NEW c \in Cmds, Upload(c) PROVE TypeInv'
    BY <1>11 DEF Upload, JobStep
  <1>12. ASSUME NEW c \in Cmds, Report(c) PROVE TypeInv'
    BY <1>12 DEF Report, JobStep
  <1>13. ASSUME NEW c \in Cmds, Cleanup(c) PROVE TypeInv'
    BY <1>13 DEF Cleanup, JobStep
  <1>14. ASSUME NEW p \in Procs, ReleaseCheck(p) PROVE TypeInv'
    BY <1>14 DEF ReleaseCheck, Back
  <1>15. ASSUME NEW p \in Procs, ReleaseClose(p) PROVE TypeInv'
    BY <1>15 DEF ReleaseClose
  <1>16. ASSUME NEW p \in Procs, ReleaseClear(p) PROVE TypeInv'
    BY <1>16 DEF ReleaseClear
  <1>17. ASSUME NEW p \in Procs, FireIdle(p) PROVE TypeInv'
    BY <1>17 DEF FireIdle, CmdOf, Idle!OnIdleEvent, Idle!OnIdleStatus,
       Idle!CheckTimer, Idle!StopTimer, Idle!ClearTimer, Idle!ArmTimer,
       Idle!timerVars, Idle!Goto
  <1>18. ASSUME NEW p \in Procs, ReleaseReturns(p) PROVE TypeInv'
    BY <1>18 DEF ReleaseReturns, Back
  <1>19. ASSUME NEW p \in Callers, Kill(p) PROVE TypeInv'
    BY <1>19 DEF Kill
  <1>20. ASSUME NEW p \in Callers, Close(p) PROVE TypeInv'
    BY <1>20 DEF Close
  <1>21. ASSUME NEW p \in Callers, KillExecutor(p) PROVE TypeInv'
    BY <1>21 DEF KillExecutor, CancelContext
  <1>22. ASSUME NEW p \in Callers, CancelApp(p) PROVE TypeInv'
    BY <1>22 DEF CancelApp
  <1>23. ASSUME MainExits PROVE TypeInv'
    BY <1>23 DEF MainExits
  <1>24. ASSUME NEW c \in Cmds, Timeout(c) PROVE TypeInv'
    BY <1>24 DEF Timeout, CancelContext
  <1>25. ASSUME NEW t \in Timers, MonitorStep(t) PROVE TypeInv'
    BY <1>25 DEF MonitorStep, Idle!TimerFires, Idle!Watcher,
       Idle!WatcherStarts, Idle!WatcherPanics, Idle!timerVars
  <1>26. CASE UNCHANGED vars
    BY <1>26 DEF vars
  <1> QED
    BY <1>1, <1>2, <1>3, <1>4, <1>5, <1>6, <1>7, <1>8, <1>9, <1>10, <1>11,
       <1>12, <1>13, <1>14, <1>15, <1>16, <1>17, <1>18, <1>19, <1>20, <1>21,
       <1>22, <1>23, <1>24, <1>25, <1>26 DEF Next, Message, CallerStep,
       JobGoroutine, ExecShell, Job, Release

\* The state of the service and of the manager keeps its types, whoever calls.
THEOREM TypeCorrect == Spec => []TypeOK
  <1>1. TypeInv => TypeOK
    BY DEF TypeInv
  <1> QED
    BY <1>1, TypeInit, TypeNext, PTL DEF Spec

-----------------------------------------------------------------------------
(***************************************************************************)
(* What the handlers of the idle monitor do to the service                 *)
(***************************************************************************)
\* onBusyEvent, wherever it stands, moves only its own goroutine and leaves the
\* state of the service alone.
LEMMA BusyFrame ==
    ASSUME NEW p \in Callers, TypeInv, FireBusy(p)
    PROVE  /\ UNCHANGED serviceVars
           /\ pc[p] \in PrepareLabels
           /\ \E l \in PrepareLabels \cup {"busyPanic"} :
                 pc' = [pc EXCEPT ![p] = l]
           /\ UNCHANGED agent
  BY DEF FireBusy, PrepareLabels, Idle!OnBusyEvent, Idle!OnBusyStatus,
     Idle!CheckTimer, Idle!StopTimer, Idle!ClearTimer, Idle!timerVars,
     Idle!Goto

\* So does onIdleEvent.
LEMMA IdleFrame ==
    ASSUME NEW p \in Procs, TypeInv, FireIdle(p)
    PROVE  /\ UNCHANGED serviceVars
           /\ pc[p] \in {"fireIdle", "idleCheck", "idleStop", "idleClear", "idleArm"}
           /\ \E l \in {"idleCheck", "idleStop", "idleClear", "idleArm",
                        "idleFired", "idlePanic"} : pc' = [pc EXCEPT ![p] = l]
           /\ UNCHANGED agent
  BY DEF FireIdle, Idle!OnIdleEvent, Idle!OnIdleStatus, Idle!CheckTimer,
     Idle!StopTimer, Idle!ClearTimer, Idle!ArmTimer, Idle!timerVars, Idle!Goto

\* A timer that fires, and the goroutine that waits for it, move no goroutine of
\* the service; they can only end the agent.
LEMMA MonitorFrame ==
    ASSUME NEW t \in Timers, MonitorStep(t)
    PROVE  /\ UNCHANGED <<serviceVars, pc>>
           /\ agent' \in {agent, "watcherPanic", "idleExit"}
  BY DEF MonitorStep, Idle!TimerFires, Idle!Watcher, Idle!WatcherStarts,
     Idle!WatcherPanics, Idle!timerVars

-----------------------------------------------------------------------------
(***************************************************************************)
(* No executor is forgotten, with any number of HTTP handlers.  s.mux lets *)
(* one caller build at a time, and only while s.executor is nil; and only  *)
(* the one process that could close an executor sets the field to nil.     *)
(***************************************************************************)
HoldLabels == PrepareLabels \cup {"busyPanic", "init"}

LeakInv ==
    /\ \A p \in Callers : pc[p] \in HoldLabels => mux = p
    /\ \A p \in Callers : pc[p] \in PrepareLabels => executor = None
    /\ \A c \in Cmds : Live(c) => executor = c
    /\ \A p \in Procs :
           pc[p] = "clear" => executor # None /\ ex[executor] = "closed"
    /\ \A p, q \in Procs : pc[p] = "clear" /\ pc[q] = "clear" => p = q

\* No executor exists when the service starts.
LEMMA LeakInit == Init => LeakInv
  BY ServiceAssumption DEF ServiceAssumption, Init, LeakInv, HoldLabels,
     PrepareLabels, Live, Callers, Procs

\* execShell, release, Kill and Close keep LeakInv, under any interleaving.
LEMMA LeakNext == ASSUME TypeInv, LeakInv, [Next]_vars PROVE LeakInv'
  <1> USE ServiceAssumption DEF TypeInv, TypeOK, CallerHasCmd, LeakInv
  <1> USE DEF HoldLabels, PrepareLabels, Live, Goto, Callers, Procs,
          serviceVars, monitorVars
  <1>1. ASSUME NEW p \in Callers, NEW c \in Cmds, Receive(p, c) PROVE LeakInv'
    BY <1>1 DEF Receive
  <1>2. ASSUME NEW p \in Callers, Reject(p) PROVE LeakInv'
    BY <1>2 DEF Reject
  <1>3. ASSUME NEW p \in Callers, Enter(p) PROVE LeakInv'
    BY <1>3 DEF Enter
  <1>4. ASSUME NEW p \in Callers, FireBusy(p) PROVE LeakInv'
    BY <1>4, BusyFrame
  <1>5. ASSUME NEW p \in Callers, Build(p) PROVE LeakInv'
    BY <1>5 DEF Build
  <1>6. ASSUME NEW p \in Callers, InitOk(p) PROVE LeakInv'
    BY <1>6 DEF InitOk
  <1>7. ASSUME NEW p \in Callers, Fail(p) PROVE LeakInv'
    BY <1>7 DEF Fail
  <1>8. ASSUME NEW p \in Callers, FailureBeforeExecute(p) PROVE LeakInv'
    BY <1>8 DEF FailureBeforeExecute
  <1>9. ASSUME NEW c \in Cmds, JobStart(c) PROVE LeakInv'
    BY <1>9 DEF JobStart, JobStep, Panic
  <1>10. ASSUME NEW c \in Cmds, StartReturns(c) PROVE LeakInv'
    BY <1>10 DEF StartReturns
  <1>11. ASSUME NEW c \in Cmds, Upload(c) PROVE LeakInv'
    BY <1>11 DEF Upload, JobStep, Panic
  <1>12. ASSUME NEW c \in Cmds, Report(c) PROVE LeakInv'
    BY <1>12 DEF Report, JobStep, Panic
  <1>13. ASSUME NEW c \in Cmds, Cleanup(c) PROVE LeakInv'
    BY <1>13 DEF Cleanup, JobStep, Panic
  <1>14. ASSUME NEW p \in Procs, ReleaseCheck(p) PROVE LeakInv'
    BY <1>14 DEF ReleaseCheck, Back
  <1>15. ASSUME NEW p \in Procs, ReleaseClose(p) PROVE LeakInv'
    BY <1>15 DEF ReleaseClose, Panic
  <1>16. ASSUME NEW p \in Procs, ReleaseClear(p) PROVE LeakInv'
    BY <1>16 DEF ReleaseClear
  <1>17. ASSUME NEW p \in Procs, FireIdle(p) PROVE LeakInv'
    BY <1>17, IdleFrame
  <1>18. ASSUME NEW p \in Procs, ReleaseReturns(p) PROVE LeakInv'
    BY <1>18 DEF ReleaseReturns, Back, Panic
  <1>19. ASSUME NEW p \in Callers, Kill(p) PROVE LeakInv'
    BY <1>19 DEF Kill
  <1>20. ASSUME NEW p \in Callers, Close(p) PROVE LeakInv'
    BY <1>20 DEF Close
  <1>21. ASSUME NEW p \in Callers, KillExecutor(p) PROVE LeakInv'
    BY <1>21 DEF KillExecutor, CancelContext, Panic
  <1>22. ASSUME NEW p \in Callers, CancelApp(p) PROVE LeakInv'
    BY <1>22 DEF CancelApp
  <1>23. ASSUME MainExits PROVE LeakInv'
    BY <1>23 DEF MainExits
  <1>24. ASSUME NEW c \in Cmds, Timeout(c) PROVE LeakInv'
    BY <1>24 DEF Timeout, CancelContext
  <1>25. ASSUME NEW t \in Timers, MonitorStep(t) PROVE LeakInv'
    BY <1>25, MonitorFrame
  <1>26. CASE UNCHANGED vars
    BY <1>26 DEF vars
  <1> QED
    BY <1>1, <1>2, <1>3, <1>4, <1>5, <1>6, <1>7, <1>8, <1>9, <1>10, <1>11,
       <1>12, <1>13, <1>14, <1>15, <1>16, <1>17, <1>18, <1>19, <1>20, <1>21,
       <1>22, <1>23, <1>24, <1>25, <1>26 DEF Next, Message, CallerStep,
       JobGoroutine, ExecShell, Job, Release

\* Whatever the callers do, an open executor is the one s.executor holds, and
\* none is built while another is held.
THEOREM NothingLeaks == Spec => []NoExecutorLeak
  <1>1. LeakInv => NoExecutorLeak
    BY DEF LeakInv, NoExecutorLeak
  <1> QED
    BY <1>1, TypeInit, TypeNext, LeakInit, LeakNext, PTL DEF Spec

-----------------------------------------------------------------------------
(***************************************************************************)
(* What follows is about the consumer of the message queue as the only     *)
(* caller of Execute (HttpHandlers = {}): a job owns its executor,         *)
(* releases hit only what has been executed, and the service implements    *)
(* CmdProtocol.                                                            *)
(*                                                                         *)
(* Why JobOwnsExecutor is not inductive as it stands: the consumer, too,   *)
(* closes and clears s.executor, after a failed command.  OwnInv adds what *)
(* the consumer may find there, and that the command it works on is no     *)
(* longer new and has no job yet.                                          *)
(***************************************************************************)
AtRest == {"ready", "kill", "closeKill", "cancel"}

OwnInv ==
    /\ JobOwnsExecutor
    /\ pc[Consumer] = "busyPanic" => executor = None
    /\ pc[Consumer] \in {"fail", "release"} =>
           executor = None \/ (executor = req[Consumer] /\ Live(executor))
    /\ pc[Consumer] \in {"init", "close"} =>
           executor = req[Consumer] /\ Live(executor)
    /\ pc[Consumer] = "clear" => executor = req[Consumer]
    /\ pc[Consumer] \notin AtRest =>
           pc[req[Consumer]] = "none" /\ outcome[req[Consumer]] # "new"
    /\ \A c \in Cmds : outcome[c] = "new" => pc[c] = "none"
    /\ agent = "jobPanic" => \E c \in Cmds : pc[c] = "idlePanic"

\* No job exists when the service starts.
LEMMA OwnInit == ASSUME HttpHandlers = {} PROVE Init => OwnInv
  BY ServiceAssumption DEF ServiceAssumption, Init, OwnInv, AtRest,
     JobOwnsExecutor, WorkLabels, Callers, Procs, Idle!MonitorInit

\* Every step keeps OwnInv when the consumer is the only caller of execShell.
LEMMA OwnNext ==
    ASSUME HttpHandlers = {}, TypeInv, LeakInv, OwnInv, [Next]_vars
    PROVE  OwnInv'
  <1> USE ServiceAssumption DEF ServiceAssumption, TypeInv, TypeOK,
          CallerHasCmd, LeakInv, OwnInv, JobOwnsExecutor, AtRest
  <1> USE DEF PrepareLabels, WorkLabels, Live, Goto, Callers, Procs,
          serviceVars, monitorVars
  <1>1. ASSUME NEW p \in Callers, NEW c \in Cmds, Receive(p, c) PROVE OwnInv'
    BY <1>1 DEF Receive
  <1>2. ASSUME NEW p \in Callers, Reject(p) PROVE OwnInv'
    BY <1>2 DEF Reject
  <1>3. ASSUME NEW p \in Callers, Enter(p) PROVE OwnInv'
    BY <1>3 DEF Enter
  <1>4. ASSUME NEW p \in Callers, FireBusy(p) PROVE OwnInv'
    BY <1>4, BusyFrame
  <1>5. ASSUME NEW p \in Callers, Build(p) PROVE OwnInv'
    BY <1>5 DEF Build
  <1>6. ASSUME NEW p \in Callers, InitOk(p) PROVE OwnInv'
    BY <1>6 DEF InitOk
  <1>7. ASSUME NEW p \in Callers, Fail(p) PROVE OwnInv'
    BY <1>7 DEF Fail
  <1>8. ASSUME NEW p \in Callers, FailureBeforeExecute(p) PROVE OwnInv'
    BY <1>8 DEF FailureBeforeExecute
  <1>9. ASSUME NEW c \in Cmds, JobStart(c) PROVE OwnInv'
    BY <1>9 DEF JobStart, JobStep, Panic
  <1>10. ASSUME NEW c \in Cmds, StartReturns(c) PROVE OwnInv'
    BY <1>10 DEF StartReturns
  <1>11. ASSUME NEW c \in Cmds, Upload(c) PROVE OwnInv'
    BY <1>11 DEF Upload, JobStep, Panic
  <1>12. ASSUME NEW c \in Cmds, Report(c) PROVE OwnInv'
    BY <1>12 DEF Report, JobStep, Panic
  <1>13. ASSUME NEW c \in Cmds, Cleanup(c) PROVE OwnInv'
    BY <1>13 DEF Cleanup, JobStep, Panic
  <1>14. ASSUME NEW p \in Procs, ReleaseCheck(p) PROVE OwnInv'
    BY <1>14 DEF ReleaseCheck, Back
  <1>15. ASSUME NEW p \in Procs, ReleaseClose(p) PROVE OwnInv'
    BY <1>15 DEF ReleaseClose, Panic
  <1>16. ASSUME NEW p \in Procs, ReleaseClear(p) PROVE OwnInv'
    BY <1>16 DEF ReleaseClear
  <1>17. ASSUME NEW p \in Procs, FireIdle(p) PROVE OwnInv'
    BY <1>17, IdleFrame
  <1>18. ASSUME NEW p \in Procs, ReleaseReturns(p) PROVE OwnInv'
    BY <1>18 DEF ReleaseReturns, Back, Panic
  <1>19. ASSUME NEW p \in Callers, Kill(p) PROVE OwnInv'
    BY <1>19 DEF Kill
  <1>20. ASSUME NEW p \in Callers, Close(p) PROVE OwnInv'
    BY <1>20 DEF Close
  <1>21. ASSUME NEW p \in Callers, KillExecutor(p) PROVE OwnInv'
    BY <1>21 DEF KillExecutor, CancelContext, Panic
  <1>22. ASSUME NEW p \in Callers, CancelApp(p) PROVE OwnInv'
    BY <1>22 DEF CancelApp
  <1>23. ASSUME MainExits PROVE OwnInv'
    BY <1>23 DEF MainExits
  <1>24. ASSUME NEW c \in Cmds, Timeout(c) PROVE OwnInv'
    BY <1>24 DEF Timeout, CancelContext
  <1>25. ASSUME NEW t \in Timers, MonitorStep(t) PROVE OwnInv'
    BY <1>25, MonitorFrame
  <1>26. CASE UNCHANGED vars
    BY <1>26 DEF vars
  <1> QED
    BY <1>1, <1>2, <1>3, <1>4, <1>5, <1>6, <1>7, <1>8, <1>9, <1>10, <1>11,
       <1>12, <1>13, <1>14, <1>15, <1>16, <1>17, <1>18, <1>19, <1>20, <1>21,
       <1>22, <1>23, <1>24, <1>25, <1>26 DEF Next, Message, CallerStep,
       JobGoroutine, ExecShell, Job, Release

\* The three invariants hold together.
LEMMA Owned == ASSUME HttpHandlers = {} PROVE Spec => [](TypeInv /\ LeakInv /\ OwnInv)
  BY TypeInit, TypeNext, LeakInit, LeakNext, OwnInit, OwnNext, PTL DEF Spec

\* With the queue as the only caller a job always finds its own, open executor
\* in the field it shares with everybody.
THEOREM JobsOwn == ASSUME HttpHandlers = {} PROVE Spec => []JobOwnsExecutor
  <1>1. OwnInv => JobOwnsExecutor
    BY DEF OwnInv
  <1> QED
    BY <1>1, Owned, PTL

\* With the queue as the only caller no release closes an executor that a job
\* still works on.
THEOREM ReleasesWait == ASSUME HttpHandlers = {} PROVE Spec => []ReleaseWhenExecuted
  <1>1. ASSUME TypeInv, OwnInv PROVE ReleaseWhenExecuted
    BY <1>1, ServiceAssumption
       DEF ServiceAssumption, TypeInv, TypeOK, OwnInv, JobOwnsExecutor, AtRest,
           ReleaseWhenExecuted, WorkLabels, Callers, Procs
  <1> QED
    BY <1>1, Owned, PTL

\* With the queue as the only caller nothing but the idle timer can make a job
\* end the process.
THEOREM JobsNeverDie == ASSUME HttpHandlers = {} PROVE Spec => []JobsSurvive
  <1>1. ASSUME TypeInv, OwnInv PROVE JobsSurvive
    BY <1>1, ServiceAssumption
       DEF ServiceAssumption, TypeInv, TypeOK, OwnInv, JobOwnsExecutor, AtRest,
           JobsSurvive, Live, WorkLabels, Callers, Procs
  <1> QED
    BY <1>1, Owned, PTL

-----------------------------------------------------------------------------
(***************************************************************************)
(* The refinement.  AnswerInv counts the answers sent so far for the       *)
(* command the consumer works on and for the one each job works on.        *)
(***************************************************************************)
AnswerInv ==
    /\ \A c \in Cmds : outcome[c] \in {"new", "received"} => sent[c] = 0
    /\ pc[Consumer] = "enter" => outcome[req[Consumer]] = "received"
    /\ pc[Consumer] \in HoldLabels \cup {"fail"} =>
           outcome[req[Consumer]] = "accepted" /\ sent[req[Consumer]] = 0
    /\ pc[Consumer] \in {"release", "close", "clear"} => sent[req[Consumer]] = 1
    /\ \A c \in Cmds :
         /\ pc[c] \in WorkLabels \ {"cleanup"} => sent[c] = 0
         /\ pc[c] \in {"cleanup", "release", "close", "clear"} => sent[c] = 1
         /\ pc[c] # "none" => outcome[c] = "accepted"

\* No command has been answered when the service starts.
LEMMA AnswerInit == ASSUME HttpHandlers = {} PROVE Init => AnswerInv
  BY ServiceAssumption DEF ServiceAssumption, Init, AnswerInv, HoldLabels,
     PrepareLabels, WorkLabels, Callers, Procs

\* Report and FailureBeforeExecute answer each accepted command once.
LEMMA AnswerNext ==
    ASSUME HttpHandlers = {}, TypeInv, LeakInv, OwnInv, AnswerInv, [Next]_vars
    PROVE  AnswerInv'
  <1> USE ServiceAssumption DEF ServiceAssumption, TypeInv, TypeOK,
          CallerHasCmd, LeakInv, OwnInv, JobOwnsExecutor, AtRest, AnswerInv
  <1> USE DEF HoldLabels, PrepareLabels, WorkLabels, Live, Goto, Callers,
          Procs, serviceVars, monitorVars
  <1>1. ASSUME NEW p \in Callers, NEW c \in Cmds, Receive(p, c) PROVE
     AnswerInv'
    BY <1>1 DEF Receive
  <1>2. ASSUME NEW p \in Callers, Reject(p) PROVE AnswerInv'
    BY <1>2 DEF Reject
  <1>3. ASSUME NEW p \in Callers, Enter(p) PROVE AnswerInv'
    BY <1>3 DEF Enter
  <1>4. ASSUME NEW p \in Callers, FireBusy(p) PROVE AnswerInv'
    BY <1>4, BusyFrame
  <1>5. ASSUME NEW p \in Callers, Build(p) PROVE AnswerInv'
    BY <1>5 DEF Build
  <1>6. ASSUME NEW p \in Callers, InitOk(p) PROVE AnswerInv'
    BY <1>6 DEF InitOk
  <1>7. ASSUME NEW p \in Callers, Fail(p) PROVE AnswerInv'
    BY <1>7 DEF Fail
  <1>8. ASSUME NEW p \in Callers, FailureBeforeExecute(p) PROVE AnswerInv'
    BY <1>8 DEF FailureBeforeExecute
  <1>9. ASSUME NEW c \in Cmds, JobStart(c) PROVE AnswerInv'
    BY <1>9 DEF JobStart, JobStep, Panic
  <1>10. ASSUME NEW c \in Cmds, StartReturns(c) PROVE AnswerInv'
    BY <1>10 DEF StartReturns
  <1>11. ASSUME NEW c \in Cmds, Upload(c) PROVE AnswerInv'
    BY <1>11 DEF Upload, JobStep, Panic
  <1>12. ASSUME NEW c \in Cmds, Report(c) PROVE AnswerInv'
    BY <1>12 DEF Report, JobStep, Panic
  <1>13. ASSUME NEW c \in Cmds, Cleanup(c) PROVE AnswerInv'
    BY <1>13 DEF Cleanup, JobStep, Panic
  <1>14. ASSUME NEW p \in Procs, ReleaseCheck(p) PROVE AnswerInv'
    BY <1>14 DEF ReleaseCheck, Back
  <1>15. ASSUME NEW p \in Procs, ReleaseClose(p) PROVE AnswerInv'
    BY <1>15 DEF ReleaseClose, Panic
  <1>16. ASSUME NEW p \in Procs, ReleaseClear(p) PROVE AnswerInv'
    BY <1>16 DEF ReleaseClear
  <1>17. ASSUME NEW p \in Procs, FireIdle(p) PROVE AnswerInv'
    BY <1>17, IdleFrame
  <1>18. ASSUME NEW p \in Procs, ReleaseReturns(p) PROVE AnswerInv'
    BY <1>18 DEF ReleaseReturns, Back, Panic
  <1>19. ASSUME NEW p \in Callers, Kill(p) PROVE AnswerInv'
    BY <1>19 DEF Kill
  <1>20. ASSUME NEW p \in Callers, Close(p) PROVE AnswerInv'
    BY <1>20 DEF Close
  <1>21. ASSUME NEW p \in Callers, KillExecutor(p) PROVE AnswerInv'
    BY <1>21 DEF KillExecutor, CancelContext, Panic
  <1>22. ASSUME NEW p \in Callers, CancelApp(p) PROVE AnswerInv'
    BY <1>22 DEF CancelApp
  <1>23. ASSUME MainExits PROVE AnswerInv'
    BY <1>23 DEF MainExits
  <1>24. ASSUME NEW c \in Cmds, Timeout(c) PROVE AnswerInv'
    BY <1>24 DEF Timeout, CancelContext
  <1>25. ASSUME NEW t \in Timers, MonitorStep(t) PROVE AnswerInv'
    BY <1>25, MonitorFrame
  <1>26. CASE UNCHANGED vars
    BY <1>26 DEF vars
  <1> QED
    BY <1>1, <1>2, <1>3, <1>4, <1>5, <1>6, <1>7, <1>8, <1>9, <1>10, <1>11,
       <1>12, <1>13, <1>14, <1>15, <1>16, <1>17, <1>18, <1>19, <1>20, <1>21,
       <1>22, <1>23, <1>24, <1>25, <1>26 DEF Next, Message, CallerStep,
       JobGoroutine, ExecShell, Job, Release

\* An action of the abstract protocol is a step of it.
LEMMA ProtocolActions ==
    ASSUME NEW c \in Cmds,
           \/ Protocol!Accept(c) \/ Protocol!Reject(c)
           \/ Protocol!Answer(c) \/ Protocol!Finish(c)
    PROVE  Protocol!Next
  BY DEF Protocol!Next

\* Each step of execShell, of a job or of release is a step of CmdProtocol, or
\* changes nothing that the server may see.
LEMMA ProtocolNext ==
    ASSUME HttpHandlers = {}, TypeInv, LeakInv, OwnInv, AnswerInv, [Next]_vars
    PROVE  [Protocol!Next]_(Protocol!protocolVars)
  <1> DEFINE Step == [Protocol!Next]_(Protocol!protocolVars)
  <1> USE ServiceAssumption DEF ServiceAssumption, TypeInv, TypeOK,
          CallerHasCmd, LeakInv, OwnInv, JobOwnsExecutor, AtRest, AnswerInv
  <1> USE DEF HoldLabels, PrepareLabels, FailLabels, WorkLabels, Live, Goto,
          Callers, Procs, serviceVars, monitorVars
  <1> USE DEF Protocol!protocolVars, PhaseOf, Current
  <1>1. ASSUME NEW p \in Callers, NEW c \in Cmds, Receive(p, c) PROVE Step
    <2>1. p = Consumer /\ outcome[c] = "new"
      BY <1>1 DEF Receive
    <2>2. \A d \in Cmds : PhaseOf(d)' = PhaseOf(d)
      BY <1>1 DEF Receive
    <2>3. Current' = Current
      BY <1>1, <2>1 DEF Receive
    <2> QED
      BY <1>1, <2>2, <2>3 DEF Receive
  <1>2. ASSUME NEW p \in Callers, Reject(p) PROVE Step
    <2>1. PICK c \in Cmds : c = req[p]
      BY <1>2 DEF Reject
    <2>2. Protocol!Reject(c)
      <3>1. PhaseOf(c) = "new" /\ Current # None /\ Current' = Current /\ sent' = sent
        BY <1>2, <2>1 DEF Reject
      <3>2. \A d \in Cmds : PhaseOf(d)' = IF d = c THEN "rejected" ELSE PhaseOf(d)
        BY <1>2, <2>1 DEF Reject
      <3>3. [d \in Cmds |-> PhaseOf(d)]' = [[d \in Cmds |-> PhaseOf(d)] EXCEPT ![c] = "rejected"]
        BY ONLY <3>2
      <3> QED
        BY <3>1, <3>3 DEF Protocol!Reject
    <2> QED
      BY ONLY <2>2 DEF Protocol!Next
  <1>3. ASSUME NEW p \in Callers, Enter(p) PROVE Step
    <2>1. p = Consumer /\ req[p] \in Cmds
      BY <1>3 DEF Enter
    <2>2. PICK c \in Cmds : c = req[p]
      BY <2>1
    <2>3. Current = None /\ Current' = c
      BY <1>3, <2>1, <2>2 DEF Enter
    <2>4. PhaseOf(c) = "new"
      BY <1>3, <2>1, <2>2 DEF Enter
    <2>5. \A d \in Cmds :
             PhaseOf(d)' = IF d = c THEN "accepted" ELSE PhaseOf(d)
      BY <1>3, <2>1, <2>2 DEF Enter
    <2>6. sent' = sent
      BY <1>3 DEF Enter
    <2>7. Protocol!Accept(c)
      BY ONLY <2>3, <2>4, <2>5, <2>6 DEF Protocol!Accept
    <2> QED
      BY ONLY <2>7 DEF Protocol!Next
  <1>4. ASSUME NEW p \in Callers, FireBusy(p) PROVE Step
    BY <1>4, BusyFrame
  <1>5. ASSUME NEW p \in Callers, Build(p) PROVE Step
    BY <1>5 DEF Build
  <1>6. ASSUME NEW p \in Callers, InitOk(p) PROVE Step
    BY <1>6 DEF InitOk
  <1>7. ASSUME NEW p \in Callers, Fail(p) PROVE Step
    BY <1>7 DEF Fail
  <1>8. ASSUME NEW p \in Callers, FailureBeforeExecute(p) PROVE Step
    <2>1. req[p] \in Cmds
      BY <1>8 DEF FailureBeforeExecute
    <2>2. Protocol!Answer(req[p])
      BY <1>8, <2>1 DEF FailureBeforeExecute, Protocol!Answer
    <2> QED
      BY ONLY <2>1, <2>2 DEF Protocol!Next
  <1>9. ASSUME NEW c \in Cmds, JobStart(c) PROVE Step
    BY <1>9 DEF JobStart, JobStep, Panic
  <1>10. ASSUME NEW c \in Cmds, StartReturns(c) PROVE Step
    BY <1>10 DEF StartReturns
  <1>11. ASSUME NEW c \in Cmds, Upload(c) PROVE Step
    BY <1>11 DEF Upload, JobStep, Panic
  <1>12. ASSUME NEW c \in Cmds, Report(c) PROVE Step
    <2>1. executor = c
      BY <1>12 DEF Report, JobStep
    <2>2. Current = c /\ Current' = c
      BY <1>12, <2>1 DEF Report, JobStep
    <2>3. \A d \in Cmds : PhaseOf(d)' = PhaseOf(d)
      BY <1>12 DEF Report
    <2>4. sent[c] = 0
      BY <1>12 DEF Report, JobStep
    <2>5. sent' = [sent EXCEPT ![c] = sent[c] + 1]
      BY <1>12, <2>1 DEF Report, JobStep
    <2>6. Protocol!Answer(c)
      BY ONLY <2>2, <2>3, <2>4, <2>5 DEF Protocol!Answer
    <2> QED
      BY ONLY <2>6 DEF Protocol!Next
  <1>13. ASSUME NEW c \in Cmds, Cleanup(c) PROVE Step
    BY <1>13 DEF Cleanup, JobStep, Panic
  <1>14. ASSUME NEW p \in Procs, ReleaseCheck(p) PROVE Step
    BY <1>14 DEF ReleaseCheck, Back, Protocol!Next, Protocol!Finish
  <1>15. ASSUME NEW p \in Procs, ReleaseClose(p) PROVE Step
    BY <1>15 DEF ReleaseClose, Panic
  <1>16. ASSUME NEW p \in Procs, ReleaseClear(p) PROVE Step
    BY <1>16 DEF ReleaseClear, Protocol!Next, Protocol!Finish
  <1>17. ASSUME NEW p \in Procs, FireIdle(p) PROVE Step
    BY <1>17, IdleFrame
  <1>18. ASSUME NEW p \in Procs, ReleaseReturns(p) PROVE Step
    BY <1>18 DEF ReleaseReturns, Back, Panic
  <1>19. ASSUME NEW p \in Callers, Kill(p) PROVE Step
    BY <1>19 DEF Kill
  <1>20. ASSUME NEW p \in Callers, Close(p) PROVE Step
    BY <1>20 DEF Close
  <1>21. ASSUME NEW p \in Callers, KillExecutor(p) PROVE Step
    BY <1>21 DEF KillExecutor, CancelContext, Panic
  <1>22. ASSUME NEW p \in Callers, CancelApp(p) PROVE Step
    BY <1>22 DEF CancelApp
  <1>23. ASSUME MainExits PROVE Step
    BY <1>23 DEF MainExits
  <1>24. ASSUME NEW c \in Cmds, Timeout(c) PROVE Step
    BY <1>24 DEF Timeout, CancelContext
  <1>25. ASSUME NEW t \in Timers, MonitorStep(t) PROVE Step
    BY <1>25, MonitorFrame
  <1>26. CASE UNCHANGED vars
    BY <1>26 DEF vars
  <1> QED
    BY <1>1, <1>2, <1>3, <1>4, <1>5, <1>6, <1>7, <1>8, <1>9, <1>10, <1>11,
       <1>12, <1>13, <1>14, <1>15, <1>16, <1>17, <1>18, <1>19, <1>20, <1>21,
       <1>22, <1>23, <1>24, <1>25, <1>26 DEF Next, Message, CallerStep,
       JobGoroutine, ExecShell, Job, Release

\* With the queue as the only caller CmdService implements CmdProtocol.
THEOREM Implements == ASSUME HttpHandlers = {} PROVE Spec => ImplementsProtocol
  <1>1. Init => Protocol!Init
    BY ServiceAssumption
       DEF ServiceAssumption, Init, Protocol!Init, PhaseOf, Current,
           PrepareLabels, FailLabels, Callers, Procs
  <1> QED
    BY <1>1, Owned, AnswerInit, AnswerNext, ProtocolNext, PTL
       DEF Spec, ImplementsProtocol, Protocol!Spec
=============================================================================
