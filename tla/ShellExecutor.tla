---------------------------- MODULE ShellExecutor ----------------------------
(***************************************************************************)
(* One run of a shell command on Linux: the job goroutine in Start and     *)
(* doStart (retries included), the goroutine that waits for the context    *)
(* and kills, and the bash process of the current attempt.                 *)
(*                                                                         *)
(* The two goroutines share se.command and the fields of se.result without *)
(* a lock, so every write of Status and of Code is a step of its own.      *)
(* Logs, cache and terminals are not modelled.                             *)
(***************************************************************************)
EXTENDS Integers

CONSTANTS
    Retry,         \* ShellIn.Retry
    AllowFailure   \* ShellIn.AllowFailure

ASSUME ShellAssumption ==
    /\ Retry \in Nat
    /\ AllowFailure \in BOOLEAN

\* domain.CmdExitCode...; the status of a process that a signal ended is also -1
Unknown == -1
Killed == -1
TimedOut == -100
Signaled == -1
ExitCodes == {0, 1, Unknown, TimedOut}

VARIABLES
    main,      \* where the job goroutine stands
    handler,   \* where the goroutine started by Start stands
    ctx,       \* the error of se.context: "live", "canceled" or "deadline"
    left,      \* i in Start: the attempts that are left after this one
    proc,      \* se.command: "none" (nil), "made" (its Process is nil),
               \* "running" or "exited"
    exit,      \* the wait status of the process of this attempt
    status,    \* se.result.Status
    code,      \* se.result.Code
    out,       \* what the last doStart returned: "nil" or "error"
    report,    \* the result that was sent
    crashed    \* a panic nobody recovers has ended the agent

vars == <<main, handler, ctx, left, proc, exit, status, code, out, report, crashed>>

FinishStatuses == {"KILLED", "TIMEOUT", "EXCEPTION", "SUCCESS"}
NoReport == [status |-> "PENDING", code |-> Unknown, out |-> "nil"]

Goto(label) == main' = label

-----------------------------------------------------------------------------
(***************************************************************************)
(* The job goroutine                                                       *)
(***************************************************************************)
\* Start: go func() { <-se.context.Done() .. }, then the first attempt
Begin ==
    /\ main = "begin"
    /\ handler' = "waiting"
    /\ Goto("attempt")
    /\ UNCHANGED <<ctx, left, proc, exit, status, code, out, report, crashed>>

\* doStart returns an error of its own making, whatever the context says
AttemptFails(at) ==
    /\ main = at
    /\ status' = "EXCEPTION"
    /\ out' = "error"
    /\ Goto("loop")
    /\ UNCHANGED <<handler, ctx, left, proc, exit, code, report, crashed>>

\* the pipes are made, then se.command = command
SetCommand ==
    /\ main = "attempt"
    /\ proc' = "made"
    /\ exit' = Unknown
    /\ Goto("launch")
    /\ UNCHANGED <<handler, ctx, left, status, code, out, report, crashed>>

\* command.Start()
Launch ==
    /\ main = "launch"
    /\ proc' = "running"
    /\ Goto("script")
    /\ UNCHANGED <<handler, ctx, left, exit, status, code, out, report, crashed>>

\* writeCmd; it panics when there is no script or no file for the environment
WriteCmd ==
    /\ main = "script"
    /\ Goto("started")
    /\ UNCHANGED <<handler, ctx, left, proc, exit, status, code, out, report, crashed>>

ToStartStatus ==
    /\ main = "started"
    /\ status' = "RUNNING"
    /\ Goto("wait")
    /\ UNCHANGED <<handler, ctx, left, proc, exit, code, out, report, crashed>>

\* command.Wait()
Wait ==
    /\ main = "wait"
    /\ proc = "exited"
    /\ Goto("check")
    /\ UNCHANGED <<handler, ctx, left, proc, exit, status, code, out, report, crashed>>

\* (mutant) doStart returns if the context has ended, whatever the status is
CheckFinishedByContext ==
    /\ main = "check"
    /\ IF ctx # "live"
       THEN out' = "nil" /\ Goto("loop")
       ELSE UNCHANGED out /\ Goto("finishCode")
    /\ UNCHANGED <<handler, ctx, left, proc, exit, status, code, report, crashed>>

\* if IsFinishStatus() { return nil }
CheckFinished ==
    /\ main = "check"
    /\ IF status \in FinishStatuses
       THEN out' = "nil" /\ Goto("loop")
       ELSE UNCHANGED out /\ Goto("finishCode")
    /\ UNCHANGED <<handler, ctx, left, proc, exit, status, code, report, crashed>>

\* toFinishStatus: the code first ..
FinishCode ==
    /\ main = "finishCode"
    /\ code' = exit
    /\ Goto("finishStatus")
    /\ UNCHANGED <<handler, ctx, left, proc, exit, status, out, report, crashed>>

\* (mutant) a script that a signal ended counts as a success
FinishStatusSignaled ==
    /\ main = "finishStatus"
    /\ status' = IF exit # 1 \/ AllowFailure THEN "SUCCESS" ELSE "EXCEPTION"
    /\ Goto("contextErr")
    /\ UNCHANGED <<handler, ctx, left, proc, exit, code, out, report, crashed>>

\* .. then the status
FinishStatus ==
    /\ main = "finishStatus"
    /\ status' = IF exit = 0 \/ AllowFailure THEN "SUCCESS" ELSE "EXCEPTION"
    /\ Goto("contextErr")
    /\ UNCHANGED <<handler, ctx, left, proc, exit, code, out, report, crashed>>

\* return se.context.Err()
ContextErr ==
    /\ main = "contextErr"
    /\ out' = IF ctx = "live" THEN "nil" ELSE "error"
    /\ Goto("loop")
    /\ UNCHANGED <<handler, ctx, left, proc, exit, status, code, report, crashed>>

\* (mutant) i >= -1
LoopOnceMore ==
    /\ main = "loop"
    /\ IF (status = "EXCEPTION" \/ out = "error") /\ left >= 0
       THEN Goto("attempt") /\ left' = left - 1
       ELSE Goto("done") /\ UNCHANGED left
    /\ UNCHANGED <<handler, ctx, proc, exit, status, code, out, report, crashed>>

\* (mutant) i is not decremented
LoopForever ==
    /\ main = "loop"
    /\ IF (status = "EXCEPTION" \/ out = "error") /\ left > 0
       THEN Goto("attempt")
       ELSE Goto("done")
    /\ UNCHANGED <<handler, ctx, left, proc, exit, status, code, out, report,
                   crashed>>

\* the retry loop of Start
Loop ==
    /\ main = "loop"
    /\ IF (status = "EXCEPTION" \/ out = "error") /\ left > 0
       THEN Goto("attempt") /\ left' = left - 1
       ELSE Goto("done") /\ UNCHANGED left
    /\ UNCHANGED <<handler, ctx, proc, exit, status, code, out, report, crashed>>

\* the caller of Start: SendCmdOut(GetResult())
Report ==
    /\ main = "done"
    /\ report' = [status |-> status, code |-> code, out |-> out]
    /\ Goto("reported")
    /\ UNCHANGED <<handler, ctx, left, proc, exit, status, code, out, crashed>>

\* the caller of Start: release, whose Close cancels the context
Close ==
    /\ main = "reported"
    /\ ctx' = IF ctx = "live" THEN "canceled" ELSE ctx
    /\ Goto("closed")
    /\ UNCHANGED <<handler, left, proc, exit, status, code, out, report, crashed>>

DoStart ==
    \/ AttemptFails("attempt") \/ SetCommand
    \/ AttemptFails("launch") \/ Launch
    \/ AttemptFails("script") \/ WriteCmd
    \/ ToStartStatus \/ Wait \/ CheckFinished
    \/ FinishCode \/ FinishStatus \/ ContextErr

Main == Begin \/ DoStart \/ Loop \/ Report \/ Close

-----------------------------------------------------------------------------
(***************************************************************************)
(* The goroutine that handles the end of the context; it does so once      *)
(***************************************************************************)
Wake ==
    /\ handler = "waiting"
    /\ ctx # "live"
    /\ handler' = "kill"
    /\ UNCHANGED <<main, ctx, left, proc, exit, status, code, out, report, crashed>>

\* (mutant) the process is not killed
KillProcessNot ==
    /\ handler = "kill"
    /\ handler' = "status"
    /\ UNCHANGED <<main, ctx, left, proc, exit, status, code, out, report, crashed>>

\* se.command.Process.Kill(): Process is nil unless Start has succeeded
KillProcess ==
    /\ handler = "kill"
    /\ IF proc = "made"
       THEN crashed' = TRUE /\ UNCHANGED <<handler, proc, exit>>
       ELSE /\ handler' = "status"
            /\ proc' = IF proc = "running" THEN "exited" ELSE proc
            /\ exit' = IF proc = "running" THEN Signaled ELSE exit
            /\ UNCHANGED crashed
    /\ UNCHANGED <<main, ctx, left, status, code, out, report>>

\* toTimeOutStatus, toKilledStatus: the status first ..
HandlerStatus ==
    /\ handler = "status"
    /\ status' = IF ctx = "deadline" THEN "TIMEOUT" ELSE "KILLED"
    /\ handler' = "code"
    /\ UNCHANGED <<main, ctx, left, proc, exit, code, out, report, crashed>>

\* .. then the code
HandlerCode ==
    /\ handler = "code"
    /\ code' = IF ctx = "deadline" THEN TimedOut ELSE Killed
    /\ handler' = "over"
    /\ UNCHANGED <<main, ctx, left, proc, exit, status, out, report, crashed>>

Handler == Wake \/ KillProcess \/ HandlerStatus \/ HandlerCode

-----------------------------------------------------------------------------
\* bash ends
ProcessExits ==
    /\ proc = "running"
    /\ proc' = "exited"
    /\ exit' \in {0, 1}
    /\ UNCHANGED <<main, handler, ctx, left, status, code, out, report, crashed>>

\* Kill, or the end of AppCtx, or the timeout of the command
ContextEnds ==
    /\ ctx = "live"
    /\ main # "closed"
    /\ ctx' \in {"canceled", "deadline"}
    /\ UNCHANGED <<main, handler, left, proc, exit, status, code, out, report, crashed>>

Init ==
    /\ main = "begin"
    /\ handler = "none"
    /\ ctx = "live"
    /\ left = Retry
    /\ proc = "none"
    /\ exit = Unknown
    /\ status = "PENDING"
    /\ code = Unknown
    /\ out = "nil"
    /\ report = NoReport
    /\ crashed = FALSE

Next == ~crashed /\ (Main \/ Handler \/ ProcessExits \/ ContextEnds)

Spec == Init /\ [][Next]_vars

\* Both goroutines are scheduled.  Nothing makes a script end or anyone kill
\* the command, and its timeout may be as long as it likes.
Fairness ==
    /\ WF_vars(~crashed /\ Main)
    /\ WF_vars(~crashed /\ Handler)

FairSpec == Spec /\ Fairness

\* what the scripts of a well-behaved job do
ScriptsEnd == WF_vars(~crashed /\ ProcessExits)

-----------------------------------------------------------------------------
MainLabels == {"begin", "attempt", "launch", "script", "started", "wait",
               "check", "finishCode", "finishStatus", "contextErr", "loop",
               "done", "reported", "closed"}
Statuses == {"PENDING", "RUNNING"} \cup FinishStatuses

\* Types of the state of shellExecutor and of its result.
TypeOK ==
    /\ main \in MainLabels
    /\ handler \in {"none", "waiting", "kill", "status", "code", "over"}
    /\ ctx \in {"live", "canceled", "deadline"}
    /\ left \in 0 .. Retry
    /\ proc \in {"none", "made", "running", "exited"}
    /\ exit \in {0, 1, Signaled}
    /\ status \in Statuses
    /\ code \in ExitCodes
    /\ out \in {"nil", "error"}
    /\ report \in [status : Statuses, code : ExitCodes, out : {"nil", "error"}]
    /\ crashed \in BOOLEAN

Reported == main \in {"reported", "closed"}

\* The result that is sent is final, however the two goroutines interleave
\* their writes: never PENDING or RUNNING.
ReportIsFinal == Reported => report.status \in FinishStatuses

\* A result says SUCCESS only if the last script succeeded or was allowed to
\* fail; and unless the context ended first, its code is the script's own.
SuccessIsEarned ==
    /\ Reported /\ report.status = "SUCCESS" => exit = 0 \/ AllowFailure
    /\ Reported /\ report.status = "SUCCESS" /\ ctx = "live" => report.code = exit

\* A result says KILLED or TIMEOUT only if the context ended before it was
\* sent, and for that reason.
KilledForCause ==
    Reported =>
        /\ report.status = "KILLED" => ctx = "canceled"
        /\ report.status = "TIMEOUT" => ctx = "deadline"

-----------------------------------------------------------------------------
(***************************************************************************)
(* The run as the command service sees it: an attempt is judged when       *)
(* doStart returns, and what Report sends is the verdict on the command.   *)
(***************************************************************************)
Phase ==
    IF Reported THEN "returned" ELSE IF main \in {"loop", "done"} THEN "judged" ELSE "trying"
ScriptOutcome ==
    IF Phase # "trying" \/ main \in {"begin", "attempt"} \/ proc # "exited" THEN "open"
    ELSE IF exit = 0 \/ AllowFailure THEN "ok" ELSE "failed"
Verdict ==
    IF Phase = "trying" THEN "none" ELSE IF Reported THEN report.status ELSE status

Protocol == INSTANCE ExecutorProtocol WITH
    phase <- Phase, tries <- Retry + 1 - left, script <- ScriptOutcome,
    cause <- IF ctx = "live" THEN "none" ELSE ctx, verdict <- Verdict

\* However the two goroutines interleave their writes, the server sees a run of
\* ExecutorProtocol: each verdict has its cause, and a retry its failure.
ImplementsProtocol == Protocol!Spec

\* A command whose context does not end is run again only after an attempt
\* that failed, and is given up only after the last one.
RetriesOnlyFailures ==
    [][ main = "loop" /\ ctx = "live" =>
          IF main' = "attempt"
          THEN status = "EXCEPTION" /\ left' < left
          ELSE main' = "done" => status = "SUCCESS" \/ left = 0 ]_vars

\* Start returns when its scripts end by themselves: no wait in it can miss
\* what it waits for.
StartReturns == ScriptsEnd => <>(main \in {"done", "reported", "closed"} \/ crashed)

\* A command that is killed or times out while Start waits for the script of
\* its last attempt ends, even if the script would not.
KillAtWorkEnds ==
    (main = "wait" /\ handler = "waiting" /\ ctx # "live" /\ left = 0)
        ~> main = "closed"

\* "wait or timeout" (shell_bash.go): once the context has ended, by its
\* deadline or by Kill, Start does not wait for the script any more.
WaitOrTimeout == ctx # "live" ~> (main = "closed" \/ crashed)
=============================================================================
