----------------------------- MODULE CmdService -----------------------------
(***************************************************************************)
(* The command service: the goroutines that call Execute (the consumer of  *)
(* the message queue and the HTTP handlers), the job goroutine of each     *)
(* accepted shell command, the one field they share (s.executor) and the   *)
(* idle/busy events they fire.                                             *)
(*                                                                         *)
(* Execute's callers hold s.mux only in execShell.  IsRunning, execKill,   *)
(* execClose, release and the job goroutine read s.executor with no lock,  *)
(* each time anew, so every such read is a step.                           *)
(*                                                                         *)
(* The job goroutine of command c is the process c.  A command stands for  *)
(* one SHELL message; its executor is named after it.                      *)
(***************************************************************************)
EXTENDS Naturals, FiniteSets

CONSTANTS
    Cmds,          \* the SHELL messages the server may send
    Consumer,      \* the goroutine of CmdService.start
    HttpHandlers,  \* goroutines of PostExecuteCmdImpl
    Boot,          \* names the idle timer that Manager.Init arms
    None,          \* nil
    ExitOnIdle,    \* AgentConfig.ExitOnIdle
    Controls       \* the other messages the server may send: "KILL", "CLOSE"

Callers == {Consumer} \cup HttpHandlers
Procs == Callers \cup Cmds

ASSUME ServiceAssumption ==
    /\ Callers \cap Cmds = {}
    /\ Consumer \notin HttpHandlers
    /\ Boot \notin Cmds
    /\ None \notin Procs \cup {Boot}
    /\ ExitOnIdle \in Nat
    /\ Controls \subseteq {"KILL", "CLOSE"}

VARIABLES
    executor,    \* s.executor: the command it was built for, or nil
    mux,         \* who holds s.mux, or None
    ex,          \* ex[c]: the executor of c and its context
    req,         \* req[p]: the SHELL message caller p works on
    outcome,     \* outcome[c]: what execShell decided about c
    sent,        \* sent[c]: number of CmdOut messages sent with c's id
    closing,     \* Manager.Cancel has been called (AppCtx is done)
    pc, status, idleTimer, timer, spawned, watches, agent

Timers == Cmds \cup {Boot}

Idle == INSTANCE IdleMonitor WITH Firers <- Procs

monitorVars == <<status, idleTimer, timer, spawned, watches>>
serviceVars == <<executor, mux, ex, req, outcome, sent, closing>>
vars == <<serviceVars, monitorVars, pc, agent>>

Goto(p, label) == pc' = [pc EXCEPT ![p] = label]

(***************************************************************************)
(* A panic.  gin's Recovery turns one in a handler into a response; in any *)
(* other goroutine it ends the process.                                    *)
(***************************************************************************)
Panic(p) ==
    IF p \in HttpHandlers
    THEN Goto(p, "ready") /\ UNCHANGED agent
    ELSE /\ agent' = IF p = Consumer THEN "consumerPanic" ELSE "jobPanic"
         /\ UNCHANGED pc

\* the command in whose name p works
CmdOf(p) == IF p \in Callers THEN req[p] ELSE p

\* (mutant) a job goroutine that goes on as a caller
BackToReady(p) == "ready"

\* where p goes when release returns
Back(p) == IF p \in Callers THEN "ready" ELSE "done"

-----------------------------------------------------------------------------
(***************************************************************************)
(* execShell                                                               *)
(***************************************************************************)
Receive(p, c) ==
    /\ pc[p] = "ready"
    /\ outcome[c] = "new"
    /\ outcome' = [outcome EXCEPT ![c] = "received"]
    /\ req' = [req EXCEPT ![p] = c]
    /\ Goto(p, "enter")
    /\ UNCHANGED <<executor, mux, ex, sent, closing, monitorVars, agent>>

\* (mutant) the refusal is a panic: the recovery of execShell answers it and
\* releases the executor of the command at work
RejectPanics(p) ==
    /\ pc[p] = "enter"
    /\ mux = None
    /\ executor # None
    /\ Goto(p, "fail")
    /\ UNCHANGED <<executor, mux, ex, req, outcome, sent, closing, monitorVars,
                   agent>>

\* IsRunning: return ErrorCmdIsRunning, and nothing is sent to the server
Reject(p) ==
    /\ pc[p] = "enter"
    /\ mux = None
    /\ executor # None
    /\ outcome' = [outcome EXCEPT ![req[p]] = "rejected"]
    /\ Goto(p, "ready")
    /\ UNCHANGED <<executor, mux, ex, req, sent, closing, monitorVars, agent>>

\* (mutant) IsRunning is not checked
EnterUnchecked(p) ==
    /\ pc[p] = "enter"
    /\ mux = None
    /\ mux' = p
    /\ outcome' = [outcome EXCEPT ![req[p]] = "accepted"]
    /\ Goto(p, "fireBusy")
    /\ UNCHANGED <<executor, ex, req, sent, closing, monitorVars, agent>>

\* (mutant) s.mux is not locked
EnterUnlocked(p) ==
    /\ pc[p] = "enter"
    /\ executor = None
    /\ outcome' = [outcome EXCEPT ![req[p]] = "accepted"]
    /\ Goto(p, "fireBusy")
    /\ UNCHANGED <<executor, mux, ex, req, sent, closing, monitorVars, agent>>

Enter(p) ==
    /\ pc[p] = "enter"
    /\ mux = None
    /\ executor = None
    /\ mux' = p
    /\ outcome' = [outcome EXCEPT ![req[p]] = "accepted"]
    /\ Goto(p, "fireBusy")
    /\ UNCHANGED <<executor, ex, req, sent, closing, monitorVars, agent>>

FireBusy(p) == Idle!OnBusyEvent(p) /\ UNCHANGED serviceVars

\* s.executor = executor.NewExecutor(..), a child context of AppCtx
Build(p) ==
    /\ pc[p] = "busyFired"
    /\ executor' = req[p]
    /\ ex' = [ex EXCEPT ![req[p]] = IF closing THEN "cancelled" ELSE "open"]
    /\ Goto(p, "init")
    /\ UNCHANGED <<mux, req, outcome, sent, closing, monitorVars, agent>>

\* (mutant) the caller releases too, after the go statement
InitOkReleases(p) ==
    /\ pc[p] = "init"
    /\ executor # None
    /\ mux' = None
    /\ pc' = [pc EXCEPT ![p] = "release", ![req[p]] = "start"]
    /\ UNCHANGED <<executor, ex, req, outcome, sent, closing, monitorVars, agent>>

\* s.executor.Init(), startLogConsumer and the go statement
InitOk(p) ==
    /\ pc[p] = "init"
    /\ executor # None
    /\ mux' = None
    /\ pc' = [pc EXCEPT ![p] = "ready", ![req[p]] = "start"]
    /\ UNCHANGED <<executor, ex, req, outcome, sent, closing, monitorVars, agent>>

\* (mutant) s.mux.Unlock is not deferred
FailLocked(p) ==
    /\ pc[p] \in {"busyPanic", "busyFired", "init"}
    /\ Goto(p, "fail")
    /\ UNCHANGED <<executor, mux, ex, req, outcome, sent, closing, monitorVars,
                   agent>>

\* a plugin or a secret that cannot be loaded, an Init that fails, a nil
\* s.executor or a nil idle timer: s.mux is unlocked, then the panic is recovered
Fail(p) ==
    /\ pc[p] \in {"busyPanic", "busyFired", "init"}
    /\ mux' = None
    /\ Goto(p, "fail")
    /\ UNCHANGED <<executor, ex, req, outcome, sent, closing, monitorVars, agent>>

\* (mutant) the failure is not sent
FailureUnsent(p) ==
    /\ pc[p] = "fail"
    /\ Goto(p, "release")
    /\ UNCHANGED <<executor, mux, ex, req, outcome, sent, closing, monitorVars,
                   agent>>

FailureBeforeExecute(p) ==
    /\ pc[p] = "fail"
    /\ sent' = [sent EXCEPT ![req[p]] = @ + 1]
    /\ Goto(p, "release")
    /\ UNCHANGED <<executor, mux, ex, req, outcome, closing, monitorVars, agent>>

ExecShell(p) ==
    \/ Reject(p) \/ Enter(p) \/ FireBusy(p) \/ Build(p) \/ InitOk(p)
    \/ Fail(p) \/ FailureBeforeExecute(p)

-----------------------------------------------------------------------------
(***************************************************************************)
(* The job goroutine.  It goes through s.executor each time.               *)
(***************************************************************************)
JobStep(c, at, next) ==
    /\ pc[c] = at
    /\ IF executor = None THEN Panic(c) ELSE Goto(c, next) /\ UNCHANGED agent

\* Start is entered; StartReturns says that the script and its goroutine ended
JobStart(c) ==
    JobStep(c, "start", "running") /\ UNCHANGED <<serviceVars, monitorVars>>

\* (mutant) the job returns when Start does, and sends no result
StartReturnsUnsent(c) ==
    /\ pc[c] = "running"
    /\ Goto(c, "cleanup")
    /\ UNCHANGED <<serviceVars, monitorVars, agent>>

StartReturns(c) ==
    /\ pc[c] = "running"
    /\ Goto(c, "upload")
    /\ UNCHANGED <<serviceVars, monitorVars, agent>>

Upload(c) ==
    JobStep(c, "upload", "report") /\ UNCHANGED <<serviceVars, monitorVars>>

\* s.executor.GetResult() and SendCmdOut: the result of whatever command the
\* field holds
Report(c) ==
    /\ JobStep(c, "report", "cleanup")
    /\ sent' = IF executor = None THEN sent
               ELSE [sent EXCEPT ![executor] = @ + 1]
    /\ UNCHANGED <<executor, mux, ex, req, outcome, closing, monitorVars>>

Cleanup(c) ==
    JobStep(c, "cleanup", "release") /\ UNCHANGED <<serviceVars, monitorVars>>

Job(c) ==
    JobStart(c) \/ StartReturns(c) \/ Upload(c) \/ Report(c) \/ Cleanup(c)

-----------------------------------------------------------------------------
(***************************************************************************)
(* release, called by a job at its end and by a caller whose command failed*)
(***************************************************************************)
ReleaseCheck(p) ==
    /\ pc[p] = "release"
    /\ Goto(p, IF executor = None THEN Back(p) ELSE "close")
    /\ UNCHANGED <<serviceVars, monitorVars, agent>>

\* s.executor.Close(): closing its channels twice panics
ReleaseClose(p) ==
    /\ pc[p] = "close"
    /\ IF executor = None \/ ex[executor] = "closed"
       THEN Panic(p) /\ UNCHANGED ex
       ELSE /\ ex' = [ex EXCEPT ![executor] = "closed"]
            /\ Goto(p, "clear")
            /\ UNCHANGED agent
    /\ UNCHANGED <<executor, mux, req, outcome, sent, closing, monitorVars>>

ReleaseClear(p) ==
    /\ pc[p] = "clear"
    /\ executor' = None
    /\ Goto(p, "fireIdle")
    /\ UNCHANGED <<mux, ex, req, outcome, sent, closing, monitorVars, agent>>

FireIdle(p) == Idle!OnIdleEvent(p, CmdOf(p)) /\ UNCHANGED serviceVars

ReleaseReturns(p) ==
    /\ \/ pc[p] = "idleFired" /\ Goto(p, Back(p)) /\ UNCHANGED agent
       \/ pc[p] = "idlePanic" /\ Panic(p)
    /\ UNCHANGED <<serviceVars, monitorVars>>

Release(p) ==
    \/ ReleaseCheck(p) \/ ReleaseClose(p) \/ ReleaseClear(p) \/ FireIdle(p)
    \/ ReleaseReturns(p)

-----------------------------------------------------------------------------
(***************************************************************************)
(* execKill and execClose                                                  *)
(***************************************************************************)
Kill(p) ==
    /\ "KILL" \in Controls
    /\ pc[p] = "ready"
    /\ executor # None
    /\ Goto(p, "kill")
    /\ UNCHANGED <<serviceVars, monitorVars, agent>>

Close(p) ==
    /\ "CLOSE" \in Controls
    /\ pc[p] = "ready"
    /\ Goto(p, IF executor = None THEN "cancel" ELSE "closeKill")
    /\ UNCHANGED <<serviceVars, monitorVars, agent>>

CancelContext(c) ==
    ex' = [ex EXCEPT ![c] = IF @ = "open" THEN "cancelled" ELSE @]

\* s.executor.Kill(), after the check: the field may have become nil
KillExecutor(p) ==
    /\ pc[p] \in {"kill", "closeKill"}
    /\ IF executor = None
       THEN Panic(p) /\ UNCHANGED ex
       ELSE /\ CancelContext(executor)
            /\ Goto(p, IF pc[p] = "kill" THEN "ready" ELSE "cancel")
            /\ UNCHANGED agent
    /\ UNCHANGED <<executor, mux, req, outcome, sent, closing, monitorVars>>

\* config.Cancel(): AppCtx is done, and every context made from it
CancelApp(p) ==
    /\ pc[p] = "cancel"
    /\ closing' = TRUE
    /\ ex' = [c \in Cmds |-> IF ex[c] = "open" THEN "cancelled" ELSE ex[c]]
    /\ Goto(p, "ready")
    /\ UNCHANGED <<executor, mux, req, outcome, sent, monitorVars, agent>>

\* startGin and start return: the process ends, whatever still runs
MainExits ==
    /\ closing
    /\ agent' = "exited"
    /\ UNCHANGED <<serviceVars, monitorVars, pc>>

\* the deadline of context.WithTimeout
Timeout(c) ==
    /\ ex[c] = "open"
    /\ CancelContext(c)
    /\ UNCHANGED <<executor, mux, req, outcome, sent, closing, monitorVars, pc,
                   agent>>

-----------------------------------------------------------------------------
Init ==
    /\ executor = None
    /\ mux = None
    /\ ex = [c \in Cmds |-> "none"]
    /\ req = [p \in Callers |-> None]
    /\ outcome = [c \in Cmds |-> "new"]
    /\ sent = [c \in Cmds |-> 0]
    /\ closing = FALSE
    /\ pc = [p \in Procs |-> IF p \in Callers THEN "ready" ELSE "none"]
    /\ Idle!MonitorInit

Message(p) == (\E c \in Cmds : Receive(p, c)) \/ Kill(p) \/ Close(p)

CallerStep(p) == ExecShell(p) \/ KillExecutor(p) \/ CancelApp(p) \/ Release(p)
JobGoroutine(c) == Job(c) \/ Release(c)
MonitorStep(t) == (Idle!TimerFires(t) \/ Idle!Watcher(t)) /\ UNCHANGED serviceVars

Next ==
    /\ agent = "up"
    /\ \/ \E p \in Callers : Message(p) \/ CallerStep(p)
       \/ \E c \in Cmds : JobGoroutine(c) \/ Timeout(c)
       \/ \E t \in Timers : MonitorStep(t)
       \/ MainExits

Spec == Init /\ [][Next]_vars

(***************************************************************************)
(* Go schedules every goroutine that can run, HTTP and file operations     *)
(* return, and a script ends.  Nothing makes the server send a message,    *)
(* and the delay of the idle timer may be as long as it likes.             *)
(***************************************************************************)
Fairness ==
    /\ \A p \in Callers : WF_vars(agent = "up" /\ CallerStep(p))
    /\ \A c \in Cmds : WF_vars(agent = "up" /\ JobGoroutine(c))
    /\ WF_vars(agent = "up" /\ MainExits)

FairSpec == Spec /\ Fairness

-----------------------------------------------------------------------------
(***************************************************************************)
(* Properties                                                              *)
(***************************************************************************)
PrepareLabels == {"fireBusy", "busyCheck", "busyStop", "busyClear", "busyFired"}
FailLabels == {"busyPanic", "fail"}
ReleaseLabels == {"release", "close", "clear", "fireIdle", "idleCheck",
                  "idleStop", "idleClear", "idleArm", "idleFired", "idlePanic"}
CallerLabels == {"ready", "enter", "init", "kill", "closeKill", "cancel"}
                \cup PrepareLabels \cup FailLabels \cup ReleaseLabels
WorkLabels == {"start", "running", "upload", "report", "cleanup"}
JobLabels == {"none", "done"} \cup WorkLabels \cup ReleaseLabels

\* Types of the state of CmdService and Manager (service/cmd_service.go,
\* config/manager.go).
TypeOK ==
    /\ executor \in Cmds \cup {None}
    /\ mux \in Callers \cup {None}
    /\ ex \in [Cmds -> {"none", "open", "cancelled", "closed"}]
    /\ req \in [Callers -> Cmds \cup {None}]
    /\ outcome \in [Cmds -> {"new", "received", "accepted", "rejected"}]
    /\ sent \in [Cmds -> Nat]
    /\ closing \in BOOLEAN
    /\ pc \in [Procs -> CallerLabels \cup JobLabels]
    /\ \A p \in Callers : pc[p] \in CallerLabels
    /\ \A c \in Cmds : pc[c] \in JobLabels
    /\ Idle!MonitorTypeOK
    /\ agent \in {"up", "exited", "idleExit", "watcherPanic", "consumerPanic",
                  "jobPanic"}

Live(c) == ex[c] \in {"open", "cancelled"}

\* From its first step until its release has closed it, a job finds its own
\* executor in s.executor, not yet closed: the field it reads again and again
\* without a lock is neither nil nor another command's.  (The job goroutine of
\* execShell, lines 162-180.)
JobOwnsExecutor ==
    \A c \in Cmds :
        /\ pc[c] \in WorkLabels \cup {"release", "close"} => executor = c /\ Live(c)
        /\ pc[c] = "clear" => executor = c

\* No executor is forgotten: one that is still open, with its channels, its
\* log consumers and its context, is the one s.executor holds, so some release
\* will close it; and NewExecutor never overwrites one.
NoExecutorLeak ==
    /\ \A c \in Cmds : Live(c) => executor = c
    /\ \A p \in Callers : pc[p] \in PrepareLabels => executor = None

\* A release runs when the command has been executed, or never will be: when
\* one is about to close s.executor, of a job or of a command that failed
\* before its job began, no job is at work on that executor.
ReleaseWhenExecuted ==
    \A p \in Procs :
        pc[p] = "close" /\ executor # None => pc[executor] \notin WorkLabels

\* No executor is closed twice, and no job dies of a nil or a closed
\* s.executor; what can kill a job is only the idle timer in its last event.
JobsSurvive ==
    /\ \A p \in Procs : pc[p] = "close" /\ executor # None =>
           ex[executor] # "closed"
    /\ agent = "jobPanic" => \E c \in Cmds : pc[c] = "idlePanic"

\* While a command is being executed the idle timer does not run, so the agent
\* cannot exit for being idle in the middle of a command.
NoTimerAtWork ==
    \A c \in Cmds : pc[c] \in WorkLabels => \A t \in Timers : timer[t] # "armed"

-----------------------------------------------------------------------------
(***************************************************************************)
(* The consumer alone implements CmdProtocol: the current command is the   *)
(* one s.executor was built for or, before and without an executor, the    *)
(* one the consumer prepares or gives up.                                  *)
(***************************************************************************)
PhaseOf(c) == IF outcome[c] = "received" THEN "new" ELSE outcome[c]

Current ==
    IF executor # None THEN executor
    ELSE IF pc[Consumer] \in PrepareLabels \cup FailLabels \cup {"release"}
    THEN req[Consumer]
    ELSE None

Protocol == INSTANCE CmdProtocol WITH
    phase <- [c \in Cmds |-> PhaseOf(c)], current <- Current, answers <- sent

\* With the message queue as the only caller, the service takes one command at
\* a time and sends exactly one CmdOut for each before it takes the next.
ImplementsProtocol == Protocol!Spec

\* An accepted command is answered, unless the process ends first.
AcceptedIsAnswered ==
    \A c \in Cmds : outcome[c] = "accepted" ~> (sent[c] > 0 \/ agent # "up")

\* The service becomes available again after each command it accepts, whether
\* the command ran, failed at its plugin, its cache or its secrets before it had
\* an executor, or failed with one, unless the process ends first: a command
\* stays accepted, so this says that from then on the field and the mutex are
\* free again and again.
ServiceIsFreed ==
    \A c \in Cmds :
        outcome[c] = "accepted"
            ~> ((executor = None /\ mux = None) \/ agent # "up")
=============================================================================
