--------------------------- MODULE DockerExecutor ---------------------------
(***************************************************************************)
(* One run of a command in containers: Start with its retries, doStart     *)
(* from the images to the clean-up, and the docker daemon with the         *)
(* containers, the bash of every attempt and a terminal next to it.        *)
(*                                                                         *)
(* Every call to the daemon may fail.  A call made with d.context fails    *)
(* with the error of the context once that is over; no goroutine waits for *)
(* the context, it is noticed by the next call.  The daemon may have       *)
(* carried out a call that fails: a container that it has started, and     *)
(* whose id the executor does not have, or has no more, is adrift.  Logs,  *)
(* cache files and exported variables are left to other modules.           *)
(***************************************************************************)
EXTENDS Integers, Sequences, FiniteSets

CONSTANTS
    Cmds,        \* ShellIn: [dockers, script, allowFailure]; an element of
                 \* dockers has the fields runtime, delete, stop and given
    Retry,       \* ShellIn.Retry
    PullRetry,   \* dockerPullRetry
    MaxFaults    \* bound: how often the daemon fails

ASSUME DockerAssumption ==
    /\ Retry \in Nat /\ PullRetry \in Nat \ {0} /\ MaxFaults \in Nat
    /\ \A c \in Cmds :
        /\ c.script \in BOOLEAN /\ c.allowFailure \in BOOLEAN
        /\ c.dockers \in Seq([runtime : BOOLEAN, delete : BOOLEAN,
                              stop : BOOLEAN, given : BOOLEAN])
        /\ c.dockers # <<>>

VARIABLES
    cmd,       \* inCmd, one of Cmds
    job,       \* the goroutine in Start and the fields it writes
    ctx,       \* d.context: "live", "canceled", "deadline" or "background"
    box,       \* box[p][a]: the container that attempt a made for place p of
               \* configs; box[p][0] is the one the command names
    shell,     \* the bash that attempt a has started
    tty,       \* the terminal: "none", then "on", then "off" (bound: one)
    local,     \* the places whose image is on this host
    faults,    \* how often the daemon may still fail
    missed,    \* a clean-up or a kill did not reach its target
    stopAt     \* where the job stood when its context ended

vars == <<cmd, job, ctx, box, shell, tty, local, faults, missed, stopAt>>

Attempts == 1..(Retry + 1)
NoId == -1
Nil == 0
Over == {"canceled", "deadline"}
FinishStatuses == {"KILLED", "TIMEOUT", "EXCEPTION", "SUCCESS"}

-----------------------------------------------------------------------------
(***************************************************************************)
(* d.configs, as initConfig leaves it: a place holds the number of an      *)
(* option, or Nil.  The place of the runtime option is skipped, and its    *)
(* configuration then written to the first place.                          *)
(***************************************************************************)
RuntimeOptions == {i \in DOMAIN cmd.dockers : cmd.dockers[i].runtime}
RuntimeOption ==
    IF RuntimeOptions = {} THEN 1
    ELSE CHOOSE i \in RuntimeOptions : \A j \in RuntimeOptions : j <= i
Places == DOMAIN cmd.dockers
Config(p) ==
    IF p = 1 THEN RuntimeOption ELSE IF p \in RuntimeOptions THEN Nil ELSE p
Option(p) == cmd.dockers[Config(p)]
\* initConfig panics otherwise
InitSucceeds == RuntimeOptions # {} \/ Len(cmd.dockers) = 1

Attempt == Retry + 1 - job.left
Alive(s) == s.state \in {"starting", "running"}
Goto(label) == job' = [job EXCEPT !.pc = label]
Then(label) ==   \* the next place, or label when all places are done
    IF job.place = Len(cmd.dockers)
    THEN [job EXCEPT !.pc = label, !.place = 1, !.tries = 0]
    ELSE [job EXCEPT !.place = @ + 1, !.tries = 0]
Panic(e) == job' = [job EXCEPT !.pc = "cleanup", !.place = 1, !.err = e]
Fault == faults > 0 /\ faults' = faults - 1
\* the container of place p with that id ends up in that state, and its bash dies
Becomes(p, id, state) ==
    /\ box' = [box EXCEPT ![p][id] = state]
    /\ shell' = IF p # 1 \/ state = "running" THEN shell ELSE
        [a \in Attempts |-> IF Alive(shell[a]) /\ shell[a].at = id
                            THEN [shell[a] EXCEPT !.state = "exited", !.exit = 1]
                            ELSE shell[a]]

-----------------------------------------------------------------------------
(***************************************************************************)
(* Images and containers                                                   *)
(***************************************************************************)
DoStart ==
    /\ job.pc = "attempt"
    /\ job' = [job EXCEPT !.pc = "pull", !.place = 1, !.tries = 0, !.err = "none"]
    /\ UNCHANGED <<cmd, ctx, box, shell, tty, local, faults, missed, stopAt>>

\* pullImage reads c.Config of a place that is nil
PullNothing ==
    /\ job.pc = "pull" /\ Config(job.place) = Nil
    /\ Panic("error")
    /\ UNCHANGED <<cmd, ctx, box, shell, tty, local, faults, missed, stopAt>>

\* the image is on the host, or is pulled; the error of an earlier try stays in
\* out, and fails the attempt although the image is there now
PullImage ==
    /\ job.pc = "pull" /\ Config(job.place) # Nil /\ ctx \notin Over
    /\ local' = local \union {job.place}
    /\ IF job.tries = 0 THEN job' = Then("start") ELSE Panic("error")
    /\ UNCHANGED <<cmd, ctx, box, shell, tty, faults, missed, stopAt>>

PullFails ==
    /\ job.pc = "pull" /\ Config(job.place) # Nil /\ ctx \notin Over
    /\ job.place \notin local
    /\ Fault
    /\ IF job.tries + 1 = PullRetry THEN Panic("error")
       ELSE job' = [job EXCEPT !.tries = @ + 1]
    /\ UNCHANGED <<cmd, ctx, box, shell, tty, local, missed, stopAt>>

Id == job.cid[job.place]
CanResume == Id # NoId /\ box[job.place][Id] = "exited"

\* resume, when the container is found, has exited and restarts
Resume ==
    /\ job.pc = "start" /\ ctx \notin Over /\ CanResume
    /\ Becomes(job.place, Id, "running")
    /\ job' = Then("plugins")
    /\ UNCHANGED <<cmd, ctx, tty, local, faults, missed, stopAt>>

\* .. when its restart fails, well or not, and its removal may fail as well
ResumeFails ==
    /\ job.pc = "start" /\ ctx \notin Over /\ CanResume
    /\ Fault
    /\ \E state \in {"removed", "exited", "adrift"} : Becomes(job.place, Id, state)
    /\ Goto("create")
    /\ UNCHANGED <<cmd, ctx, tty, local, missed, stopAt>>

\* .. when there is no id, no container of that id, or one that has not exited
ResumeNothing ==
    /\ job.pc = "start" /\ ctx \notin Over /\ ~CanResume
    /\ Goto("create")
    /\ UNCHANGED <<cmd, ctx, box, shell, tty, local, faults, missed, stopAt>>

CreateContainer ==
    /\ job.pc = "create" /\ ctx \notin Over
    /\ box' = [box EXCEPT ![job.place][Attempt] = "created"]
    /\ Goto("launch")
    /\ UNCHANGED <<cmd, ctx, shell, tty, local, faults, missed, stopAt>>

\* the id is kept only once ContainerStart has succeeded
LaunchContainer ==
    /\ job.pc = "launch" /\ ctx \notin Over
    /\ box' = [box EXCEPT ![job.place][Attempt] = "running"]
    /\ job' = [Then("plugins") EXCEPT !.cid[job.place] = Attempt]
    /\ UNCHANGED <<cmd, ctx, shell, tty, local, faults, missed, stopAt>>

CopyPlugins ==
    /\ job.pc = "plugins" /\ ctx \notin Over
    /\ Goto("exec")
    /\ UNCHANGED <<cmd, ctx, box, shell, tty, local, faults, missed, stopAt>>

-----------------------------------------------------------------------------
(***************************************************************************)
(* The script                                                              *)
(***************************************************************************)
\* runShell: ContainerExecCreate ..
CreateExec ==
    /\ job.pc = "exec" /\ ctx \notin Over
    /\ Goto("attach")
    /\ UNCHANGED <<cmd, ctx, box, shell, tty, local, faults, missed, stopAt>>

\* .. and ContainerExecAttach, which starts a bash; one whose client is gone
\* reads the end of its input, and is left out
ExecShell ==
    /\ job.pc = "attach" /\ ctx \notin Over
    /\ shell' = [shell EXCEPT ![Attempt] =
                    [state |-> "starting", at |-> job.cid[1], exit |-> 0]]
    /\ Goto("script")
    /\ UNCHANGED <<cmd, ctx, box, tty, local, faults, missed, stopAt>>

\* the error of ContainerInspect is dropped and its NetworkSettings, nil, read:
\* the panic does not tell that the context is over
AddressIsUnknown ==
    /\ job.pc = "script"
    /\ IF ctx \in Over THEN UNCHANGED faults ELSE Fault
    /\ Panic("error")
    /\ UNCHANGED <<cmd, ctx, box, shell, tty, local, missed, stopAt>>

\* writeCmd panics when there is no script
WriteCmd ==
    /\ job.pc = "script" /\ ctx \notin Over
    /\ IF cmd.script THEN Goto("started") ELSE Panic("error")
    /\ UNCHANGED <<cmd, ctx, box, shell, tty, local, faults, missed, stopAt>>

\* waitForExit: the first inspection, and toStartStatus
ToStartStatus ==
    /\ job.pc = "started" /\ ctx \notin Over
    /\ job' = [job EXCEPT !.pc = "poll", !.status = "RUNNING"]
    /\ UNCHANGED <<cmd, ctx, box, shell, tty, local, faults, missed, stopAt>>

\* .. and the one that finds the process ended
WaitForExit ==
    /\ job.pc = "poll" /\ ctx \notin Over
    /\ shell[Attempt].state = "exited"
    /\ Goto("tty")
    /\ UNCHANGED <<cmd, ctx, box, shell, tty, local, faults, missed, stopAt>>

IsInteracting ==
    /\ job.pc = "tty"
    /\ Goto(IF tty = "on" THEN "ttyWait" ELSE "finish")
    /\ UNCHANGED <<cmd, ctx, box, shell, tty, local, faults, missed, stopAt>>

\* <-d.ttyCtx.Done(): the terminal may have cleared ttyCtx since the check
WaitForTty ==
    /\ job.pc = "ttyWait"
    /\ IF tty = "on" THEN Goto("ttyDone") ELSE Panic("error")
    /\ UNCHANGED <<cmd, ctx, box, shell, tty, local, faults, missed, stopAt>>

\* (mutant) the context of the terminal is not one under d.context
TtyDoneOnClose ==
    /\ job.pc = "ttyDone" /\ tty = "off"
    /\ Goto("finish")
    /\ UNCHANGED <<cmd, ctx, box, shell, tty, local, faults, missed, stopAt>>

TtyDone ==
    /\ job.pc = "ttyDone"
    /\ tty = "off" \/ ctx \in Over
    /\ Goto("finish")
    /\ UNCHANGED <<cmd, ctx, box, shell, tty, local, faults, missed, stopAt>>

\* (mutant) toFinishStatus reads a failure as a success
FinishAnyway ==
    /\ job.pc = "finish"
    /\ job' = [job EXCEPT !.pc = "cleanup", !.place = 1, !.out = "nil",
                          !.status = "SUCCESS"]
    /\ UNCHANGED <<cmd, ctx, box, shell, tty, local, faults, missed, stopAt>>

\* toFinishStatus; doStart returns nil for a script that failed, too
Finish ==
    /\ job.pc = "finish"
    /\ job' = [job EXCEPT !.pc = "cleanup", !.place = 1, !.out = "nil",
                          !.status = IF shell[Attempt].exit = 0 \/ cmd.allowFailure
                                     THEN "SUCCESS" ELSE "EXCEPTION"]
    /\ UNCHANGED <<cmd, ctx, box, shell, tty, local, faults, missed, stopAt>>

-----------------------------------------------------------------------------
(***************************************************************************)
(* Failures.  The deferred calls run in reverse order: the clean-up first, *)
(* then the recovery with handleErrors.                                    *)
(***************************************************************************)
ContextCalls == {"pull", "start", "create", "launch", "plugins", "exec", "attach",
                 "started", "poll"}

\* (mutant) the daemon's client wraps the error of the context
ContextIsOverWrapped ==
    /\ job.pc \in ContextCalls /\ ctx \in Over
    /\ ~(job.pc = "pull" /\ Config(job.place) = Nil)
    /\ Panic("error")
    /\ UNCHANGED <<cmd, ctx, box, shell, tty, local, faults, missed, stopAt>>

\* what a call to create or to start a container may have done although it
\* has failed
DoneAnyway ==
    \/ UNCHANGED box
    \/ job.pc = "create" /\ box' = [box EXCEPT ![job.place][Attempt] = "created"]
    \/ job.pc = "launch" /\ box' = [box EXCEPT ![job.place][Attempt] = "adrift"]

\* a call with d.context that is over, or that is cut off by its end; after a
\* restart that is cut off, the calls of resume and ContainerCreate fail too
ContextIsOver ==
    /\ job.pc \in ContextCalls /\ ctx \in Over
    /\ ~(job.pc = "pull" /\ Config(job.place) = Nil)
    /\ Panic(ctx)
    /\ \/ DoneAnyway
       \/ job.pc = "start" /\ CanResume /\ box' = [box EXCEPT ![job.place][Id] = "running"]
    /\ UNCHANGED <<cmd, ctx, shell, tty, local, faults, missed, stopAt>>

DaemonFails ==
    /\ job.pc \in ContextCalls \ {"pull"} /\ ctx \notin Over
    /\ Fault
    /\ Panic("error")
    /\ DoneAnyway
    /\ UNCHANGED <<cmd, ctx, shell, tty, local, missed, stopAt>>

Cleaned == IF job.err = "none" THEN "loop" ELSE "handle"
Disposes(p) == Option(p).delete \/ Option(p).stop

\* (mutant) a container that is to be stopped is left alone
CleanUpDeletedOnly ==
    /\ job.pc = "cleanup" /\ Config(job.place) # Nil
    /\ IF Option(job.place).delete /\ Id # NoId /\ box[job.place][Id] # "none"
       THEN Becomes(job.place, Id, "removed")
       ELSE UNCHANGED <<box, shell>>
    /\ job' = Then(Cleaned)
    /\ UNCHANGED <<cmd, ctx, tty, local, faults, missed, stopAt>>

\* (mutant) the clean-up uses d.context, and does nothing once that is over
CleanUpWithContext ==
    /\ job.pc = "cleanup" /\ Config(job.place) # Nil
    /\ IF Disposes(job.place) /\ Id # NoId /\ ctx \notin Over
       THEN Becomes(job.place, Id,
                    IF box[job.place][Id] \in {"none", "removed"} THEN box[job.place][Id]
                    ELSE IF Option(job.place).delete THEN "removed" ELSE "exited")
       ELSE UNCHANGED <<box, shell>>
    /\ job' = Then(Cleaned)
    /\ UNCHANGED <<cmd, ctx, tty, local, faults, missed, stopAt>>

\* ContainerRemove or ContainerStop of the container whose id is kept
Dispose ==
    Becomes(job.place, Id,
            IF box[job.place][Id] \in {"none", "removed"} THEN box[job.place][Id]
            ELSE IF Option(job.place).delete THEN "removed" ELSE "exited")

\* cleanupContainer: an unknown id, a container that is not there and an error
\* of the daemon only leave a line in the log
CleanUp ==
    /\ job.pc = "cleanup" /\ Config(job.place) # Nil
    /\ IF Disposes(job.place) /\ Id # NoId THEN Dispose ELSE UNCHANGED <<box, shell>>
    /\ job' = Then(Cleaned)
    /\ UNCHANGED <<cmd, ctx, tty, local, faults, missed, stopAt>>

CleanUpFails ==
    /\ job.pc = "cleanup" /\ Config(job.place) # Nil
    /\ Disposes(job.place) /\ Id # NoId
    /\ Fault
    /\ Dispose \/ UNCHANGED <<box, shell>>
    /\ missed' = TRUE
    /\ job' = Then(Cleaned)
    /\ UNCHANGED <<cmd, ctx, tty, local, stopAt>>

\* cleanupContainer reads c.IsDelete of a place that is nil: a new panic takes
\* the place of the first, and the rest is not cleaned up
CleanUpNothing ==
    /\ job.pc = "cleanup" /\ Config(job.place) = Nil
    /\ job' = [job EXCEPT !.pc = "handle", !.err = "error"]
    /\ UNCHANGED <<cmd, ctx, box, shell, tty, local, faults, missed, stopAt>>

Ended(status, out, label) ==
    job' = [job EXCEPT !.pc = label, !.status = status, !.out = out]

\* (mutant) the error of the context is returned as well
HandleContextReturnsError ==
    /\ job.pc = "handle" /\ job.err \in Over
    /\ Ended(IF job.err = "canceled" THEN "KILLED" ELSE "TIMEOUT", "error", "loop")
    /\ ctx' = "background"
    /\ missed' = TRUE
    /\ UNCHANGED <<cmd, box, shell, tty, local, faults, stopAt>>

\* (mutant) nothing is killed
HandleContextWithoutKill ==
    /\ job.pc = "handle" /\ job.err \in Over
    /\ Ended(IF job.err = "canceled" THEN "KILLED" ELSE "TIMEOUT", "nil", "loop")
    /\ ctx' = "background"
    /\ UNCHANGED <<cmd, box, shell, tty, local, faults, missed, stopAt>>

\* handleErrors, with the error of the context: kill reads the pid that the
\* bash of this container has written last
HandleContext ==
    /\ job.pc = "handle" /\ job.err \in Over
    /\ \E reached \in BOOLEAN :
        /\ \/ reached /\ UNCHANGED faults
           \/ ~reached /\ Fault
        /\ shell' = [a \in Attempts |->
                        IF reached /\ shell[a].state = "running" /\ shell[a].at = job.cid[1]
                        THEN [shell[a] EXCEPT !.state = "exited", !.exit = 1]
                        ELSE shell[a]]
        /\ missed' = (missed \/ ~reached \/ \E a \in Attempts : shell[a].state = "starting")
    /\ Ended(IF job.err = "canceled" THEN "KILLED" ELSE "TIMEOUT", "nil", "loop")
    /\ ctx' = "background"
    /\ UNCHANGED <<cmd, box, tty, local, stopAt>>

HandleError ==
    /\ job.pc = "handle" /\ job.err = "error"
    /\ Ended("EXCEPTION", "error", "loop")
    /\ UNCHANGED <<cmd, ctx, box, shell, tty, local, faults, missed, stopAt>>

\* (mutant) one attempt more than there are retries
LoopOnceMore ==
    /\ job.pc = "loop"
    /\ job' = IF (job.status = "EXCEPTION" \/ job.out # "nil") /\ job.left >= 0
              THEN [job EXCEPT !.pc = "attempt", !.left = @ - 1]
              ELSE [job EXCEPT !.pc = "done"]
    /\ UNCHANGED <<cmd, ctx, box, shell, tty, local, faults, missed, stopAt>>

\* Start: for i := d.inCmd.Retry; i >= 0; i--
Loop ==
    /\ job.pc = "loop"
    /\ job' = IF (job.status = "EXCEPTION" \/ job.out # "nil") /\ job.left > 0
              THEN [job EXCEPT !.pc = "attempt", !.left = @ - 1]
              ELSE [job EXCEPT !.pc = "done"]
    /\ UNCHANGED <<cmd, ctx, box, shell, tty, local, faults, missed, stopAt>>

-----------------------------------------------------------------------------
(***************************************************************************)
(* The environment                                                         *)
(***************************************************************************)
\* a KILL (cancelFunc) or the timeout of the context
ContextEnds(how) ==
    /\ ctx = "live" /\ job.pc # "done"
    /\ ctx' = how
    /\ stopAt' = job.pc
    /\ UNCHANGED <<cmd, job, box, shell, tty, local, faults, missed>>

\* bash reads the first line it is sent, writeShellPid
ShellWritesPid(a) ==
    /\ shell[a].state = "starting"
    /\ shell' = [shell EXCEPT ![a].state = "running"]
    /\ UNCHANGED <<cmd, job, ctx, box, tty, local, faults, missed, stopAt>>

\* a script that was written to the end may come to its end
ShellExits(a) ==
    /\ shell[a].state = "running"
    /\ a < Attempt \/ job.pc \notin {"exec", "script"}
    /\ cmd.script
    /\ \E code \in {0, 1} :
        shell' = [shell EXCEPT ![a].state = "exited", ![a].exit = code]
    /\ UNCHANGED <<cmd, job, ctx, box, tty, local, faults, missed, stopAt>>

\* StartTty turns a terminal down while the container has not been started
OpenTty ==
    /\ tty = "none" /\ ctx \notin Over
    /\ job.cid[1] # NoId /\ job.pc # "done"
    /\ tty' = "on"
    /\ UNCHANGED <<cmd, job, ctx, box, shell, local, faults, missed, stopAt>>

\* the bash of the terminal exits, is killed by StopTty, or the context is over
CloseTty ==
    /\ tty = "on"
    /\ tty' = "off"
    /\ UNCHANGED <<cmd, job, ctx, box, shell, local, faults, missed, stopAt>>

-----------------------------------------------------------------------------
Init ==
    /\ cmd \in Cmds /\ InitSucceeds
    /\ job = [pc |-> "attempt", place |-> 1, tries |-> 0, left |-> Retry,
              cid |-> [p \in Places |-> IF Config(p) # Nil /\ Option(p).given THEN 0 ELSE NoId],
              err |-> "none", status |-> "PENDING", out |-> "nil"]
    /\ ctx = "live"
    /\ box \in [Places -> [{0} \union Attempts -> {"none", "exited", "running"}]]
    /\ \A p \in Places : /\ \A a \in Attempts : box[p][a] = "none"
                         /\ job.cid[p] = NoId => box[p][0] = "none"
    /\ shell = [a \in Attempts |-> [state |-> "none", at |-> NoId, exit |-> 0]]
    /\ tty = "none"
    /\ local \in {{}, Places}
    /\ faults = MaxFaults
    /\ missed = FALSE
    /\ stopAt = "none"

StartSteps ==
    \/ DoStart \/ PullNothing \/ PullImage \/ PullFails
    \/ Resume \/ ResumeFails \/ ResumeNothing
    \/ CreateContainer \/ LaunchContainer \/ CopyPlugins
    \/ CreateExec \/ ExecShell \/ AddressIsUnknown \/ WriteCmd \/ ToStartStatus \/ WaitForExit
    \/ IsInteracting \/ WaitForTty \/ TtyDone \/ Finish
    \/ ContextIsOver \/ DaemonFails
    \/ CleanUp \/ CleanUpFails \/ CleanUpNothing
    \/ HandleContext \/ HandleError \/ Loop

Next ==
    \/ StartSteps
    \/ \E how \in Over : ContextEnds(how)
    \/ \E a \in Attempts : ShellWritesPid(a) \/ ShellExits(a)
    \/ OpenTty \/ CloseTty

Spec == Init /\ [][Next]_vars

\* the goroutine runs as long as it can; neither the script nor the terminal is
\* under an obligation to end
FairSpec == Spec /\ WF_vars(StartSteps)

-----------------------------------------------------------------------------
(***************************************************************************)
(* Properties                                                              *)
(***************************************************************************)
JobLabels == ContextCalls \union {"attempt", "script", "tty", "ttyWait", "ttyDone",
                                  "finish", "cleanup", "handle", "loop", "done"}
Jobs == [pc : JobLabels, place : Places, tries : 0..(PullRetry - 1), left : 0..Retry,
         cid : [Places -> {NoId, 0} \union Attempts],
         err : {"none", "error"} \union Over,
         status : {"PENDING", "RUNNING"} \union FinishStatuses,
         out : {"nil", "error"}]

Boxes == {"none", "created", "running", "adrift", "exited", "removed"}
Shells == [state : {"none", "starting", "running", "exited"},
           at : {NoId, 0} \union Attempts, exit : {0, 1}]

\* Every variable keeps its type.
TypeOK ==
    /\ cmd \in Cmds
    /\ job \in Jobs
    /\ box \in [Places -> [{0} \union Attempts -> Boxes]]
    /\ shell \in [Attempts -> Shells]
    /\ ctx \in {"live", "background"} \union Over
    /\ tty \in {"none", "on", "off"}
    /\ local \subseteq Places
    /\ faults \in 0..MaxFaults
    /\ missed \in BOOLEAN

\* SUCCESS is reported only for a command whose last script ran to its end with 0
\* or was allowed to fail, with a container for every option of the command; so a
\* command whose runtime option is not the first one never succeeds (initConfig).
SuccessIsEarned ==
    job.pc = "done" /\ job.status = "SUCCESS" =>
        /\ shell[Attempt].state = "exited"
        /\ shell[Attempt].exit = 0 \/ cmd.allowFailure
        /\ {Config(p) : p \in Places} = DOMAIN cmd.dockers
        /\ job.out = "nil"

\* The script never runs twice at a time: when the runtime container is to be
\* stopped or deleted, the bash of a failed attempt is dead before the next
\* attempt starts its own, unless a clean-up call has failed (cleanupContainer).
OneShell ==
    Disposes(1) /\ ~missed => Cardinality({a \in Attempts : Alive(shell[a])}) <= 1

AllCallsAnswered == faults = MaxFaults /\ stopAt = "none"

\* When Start returns, no container whose id it has stored still runs if its
\* option says to stop or to delete it, or is left if it says to delete it, in
\* whatever attempt it was made, unless a clean-up call has failed.  What may be
\* left is a container that only the daemon knows: one whose start has failed,
\* which may run all the same (adrift), and nothing at all if no call has failed
\* and the context has not ended (startContainer, resume, cleanupContainer).
NoContainerLeft ==
    job.pc = "done" /\ ~missed =>
        \A p \in Places : Config(p) # Nil =>
            \A a \in Attempts :
                /\ Disposes(p) => box[p][a] # "running"
                /\ Option(p).delete => box[p][a] \in {"none", "created", "adrift", "removed"}
                /\ AllCallsAnswered => box[p][a] \notin {"created", "adrift"}

\* A command that is reported as killed or timed out has no bash left in its
\* container, unless the kill came before bash had written its pid or the daemon
\* failed (handleErrors).
KillReachesShell ==
    job.pc = "done" /\ job.status \in {"KILLED", "TIMEOUT"} /\ ~missed =>
        \A a \in Attempts : shell[a].at = job.cid[1] => ~Alive(shell[a])

\* A KILL or a timeout that comes while doStart still has a call with d.context to
\* make before the script has ended is reported as what it is, whatever the
\* daemon does, unless configs has a hole.
KilledIsReported ==
    job.pc = "done" /\ stopAt \in ContextCalls /\ (\A p \in Places : Config(p) # Nil) =>
        job.status \in {"KILLED", "TIMEOUT"}

\* A status of KILLED or TIMEOUT is final, and no bash is started after it, although
\* handleErrors has made the context good again.
KilledIsFinal ==
    [][job.status \in {"KILLED", "TIMEOUT"} =>
        /\ job'.status = job.status
        /\ \A a \in Attempts : Alive(shell[a])' => Alive(shell[a])]_vars

\* The run as the command service sees it: handleErrors, the last deferred call of
\* doStart, has the last word on an attempt, and makes the context good again.
Phase ==
    IF job.pc = "done" THEN "returned" ELSE IF job.pc = "loop" THEN "judged" ELSE "trying"
ScriptOutcome ==
    IF Phase # "trying" \/ shell[Attempt].state # "exited" THEN "open"
    ELSE IF shell[Attempt].exit = 0 \/ cmd.allowFailure THEN "ok" ELSE "failed"
Cause ==
    IF ctx = "live" THEN "none" ELSE IF ctx \in Over THEN ctx
    ELSE IF job.status = "TIMEOUT" THEN "deadline" ELSE "canceled"

Protocol == INSTANCE ExecutorProtocol WITH
    phase <- Phase, tries <- Attempt, script <- ScriptOutcome, cause <- Cause,
    verdict <- IF Phase = "trying" THEN "none" ELSE job.status

\* Whatever fails in the daemon and in the clean-up, the server sees a run of
\* ExecutorProtocol, although the deferred calls of doStart write the result last.
ImplementsProtocol == Protocol!Spec

\* An ended context ends the command, however long its script and its terminal
\* go on: the job need not wait for either.
ContextEndsJob == (ctx \in Over) ~> (job.pc = "done")
=============================================================================
