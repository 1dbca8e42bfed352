------------------------------- MODULE Streams -------------------------------
(***************************************************************************)
(* The channels of one shell executor: the log of its script from the      *)
(* pipes of bash to the uploaded file, and its terminals with the input    *)
(* that the message queue hands on and the output that goes to the server. *)
(* Close closes all three channels while some of their users are at work.  *)
(*                                                                         *)
(* A chunk of log is the reader that read it, an input is the terminal it  *)
(* was typed for.  Results and statuses are left to ShellExecutor.         *)
(***************************************************************************)
EXTENDS Integers, Sequences, FiniteSets

CONSTANTS
    Plans,      \* [retry, chunks, ttys, inputs, outputs]: how much happens
    MaxRetry, MaxTtys,   \* bounds of the plans
    Pipes,      \* the pipes of one bash, stdout and stderr
    Capacity    \* defaultChannelBufferSize

ASSUME StreamsAssumption ==
    /\ MaxRetry \in Nat /\ MaxTtys \in Nat
    /\ Plans \subseteq [retry : 0..MaxRetry, chunks : Nat, ttys : 0..MaxTtys, inputs : Nat,
                        outputs : Nat]
    /\ IsFiniteSet(Pipes) /\ Capacity \in Nat \ {0}

VARIABLES
    plan,       \* one of Plans
    agent,      \* "up", or "down" after a panic that nothing recovers
    job,        \* the job goroutine: [pc, attempt, logSize], the last as reported
    over,       \* se.context is over
    handler,    \* the goroutine of Start that waits for that: "wait", "tty",
                \* "process", "done"
    bash,       \* the process of the attempt: "none", "runs", "exited"
    written,    \* what bash has written to each pipe
    reader,     \* the goroutines of writeLog: [pc, n], n chunks read
    wg,         \* stdOutWg
    logSize,    \* result.LogSize
    stdout,     \* b.stdout
    closed,     \* Close has closed stdout, ttyIn and ttyOut
    log,        \* consumeShellLog: [pc, file], the file being what is sent, too
    queue,      \* the consumer of messages: 0, or the terminal whose input it is
                \* blocked with in a send to ttyIn
    term,       \* every StartTty: "none", "check", "start", "up", "exited", "gone"
    current,    \* ttyCtx and ttyCancel: the terminal that has set them, or 0
    shown,      \* tty and ttyId: the terminal that has set them, or 0
    canceled,   \* the terminals whose context has been canceled
    waits,      \* the context of the terminal that the job waits for
    ttyIn,      \* b.ttyIn
    typed,      \* how many inputs the server has sent
    inWriter,   \* the goroutines of writeTtyIn
    outReader,  \* the goroutines of writeTtyOut: [pc, n], n outputs read
    ttyOut,     \* how many outputs are in b.ttyOut
    stray,      \* inputs that another's writeTtyIn took from a terminal that is up
    overlap     \* two terminals have been up together

logs == <<written, reader, wg, logSize, stdout, log>>
ttys == <<term, current, shown, canceled, ttyIn, typed, inWriter, outReader, ttyOut,
          stray, overlap>>
vars == <<plan, agent, job, over, handler, bash, logs, closed, queue, waits, ttys>>

Attempts == 1..(plan.retry + 1)
Readers == (1..(MaxRetry + 1)) \X Pipes
Terms == 1..MaxTtys
RetryMark == <<0, "retry">>
Up == {t \in Terms : term[t] = "up"}
PtyClosed(t) == term[t] = "gone"
Goto(label) == job' = [job EXCEPT !.pc = label]

-----------------------------------------------------------------------------
(***************************************************************************)
(* The job goroutine                                                       *)
(***************************************************************************)
DoStart ==
    /\ job.pc = "attempt"
    /\ wg' = wg + Cardinality(Pipes)
    /\ \/ /\ bash' = "runs"
          /\ \E label \in {"wait", "ended"} : Goto(label)   \* writeCmd may panic
          /\ reader' = [r \in Readers |->
                          IF r[1] = job.attempt THEN [pc |-> "check", n |-> 0] ELSE reader[r]]
       \/ UNCHANGED <<bash, reader>> /\ Goto("ended")     \* command.Start fails
    /\ UNCHANGED <<plan, agent, over, handler, written, logSize, stdout, log, closed, queue,
                   waits, ttys>>

\* command.Wait closes the pipes, whatever has been read of them
CommandWait ==
    /\ job.pc = "wait" /\ bash = "exited"
    /\ Goto("tty")
    /\ UNCHANGED <<plan, agent, over, handler, bash, logs, closed, queue, waits, ttys>>

IsInteracting == current # 0
CheckTty ==
    /\ job.pc = "tty"
    /\ Goto(IF IsInteracting THEN "ttyWait" ELSE "ended")
    /\ UNCHANGED <<plan, agent, over, handler, bash, logs, closed, queue, waits, ttys>>

\* <-se.ttyCtx.Done(): ttyCtx may be nil by now, which doStart recovers from
WaitForTty ==
    /\ job.pc = "ttyWait"
    /\ waits' = current
    /\ Goto(IF current = 0 THEN "ended" ELSE "ttyDone")
    /\ UNCHANGED <<plan, agent, over, handler, bash, logs, closed, queue, ttys>>

TtyDone ==
    /\ job.pc = "ttyDone"
    /\ over \/ waits \in canceled
    /\ Goto("ended")
    /\ UNCHANGED <<plan, agent, over, handler, bash, logs, closed, queue, waits, ttys>>

\* the attempt failed and is retried, after a line in the log, or it is the last;
\* then the result is sent with the LogSize of that moment
AttemptEnds ==
    /\ job.pc = "ended"
    /\ \/ /\ job.attempt < plan.retry + 1 /\ Len(stdout) < Capacity
          /\ stdout' = Append(stdout, RetryMark)
          /\ job' = [job EXCEPT !.pc = "attempt", !.attempt = @ + 1]
          /\ bash' = "none"
       \/ /\ job' = [job EXCEPT !.pc = "close", !.logSize = logSize]
          /\ UNCHANGED <<stdout, bash>>
    /\ UNCHANGED <<plan, agent, over, handler, written, reader, wg, logSize, log, closed,
                   queue, waits, ttys>>

CloseWaits ==
    /\ job.pc = "close"
    /\ Goto(IF stdout # <<>> THEN "drain" ELSE "closing")
    /\ UNCHANGED <<plan, agent, over, handler, bash, logs, closed, queue, waits, ttys>>

\* util.Wait: all readers are done, or five seconds are over
Drained ==
    /\ job.pc = "drain"
    /\ Goto("closing")
    /\ UNCHANGED <<plan, agent, over, handler, bash, logs, closed, queue, waits, ttys>>

\* (mutant) the channels stay open
CloseCancelsOnly ==
    /\ job.pc = "closing"
    /\ over' = TRUE
    /\ Goto("closed")
    /\ UNCHANGED <<plan, agent, handler, bash, logs, closed, queue, waits, ttys>>

Close ==
    /\ job.pc = "closing"
    /\ closed' = TRUE /\ over' = TRUE
    /\ Goto("closed")
    /\ UNCHANGED <<plan, agent, handler, bash, logs, queue, waits, ttys>>

Release ==
    /\ job.pc = "closed"
    /\ Goto("done")
    /\ UNCHANGED <<plan, agent, over, handler, bash, logs, closed, queue, waits, ttys>>

JobStep ==
    \/ DoStart \/ CommandWait \/ CheckTty \/ WaitForTty \/ TtyDone
    \/ AttemptEnds \/ CloseWaits \/ Drained \/ Close \/ Release

-----------------------------------------------------------------------------
(***************************************************************************)
(* handleErrors, once, in the goroutine of Start that awaits the context   *)
(***************************************************************************)
\* the panic of a goroutine that recovers nothing
HandlerPanics == agent' = "down" /\ UNCHANGED <<handler, bash, term>>

\* Kill on se.command, if there is one, and that is the process of this moment: an
\* attempt begun later is never killed.  Between exec.Command and command.Start, and
\* after a Start that failed, the Process of se.command is nil
KillCommand ==
    /\ handler = "wait" /\ over
    /\ \/ /\ bash' = IF bash = "runs" THEN "exited" ELSE bash
          /\ handler' = "tty"
          /\ UNCHANGED <<agent, term>>
       \/ bash = "none" /\ HandlerPanics
    /\ UNCHANGED <<plan, job, over, logs, closed, queue, waits, current, shown, canceled,
                   ttyIn, typed, inWriter, outReader, ttyOut, stray, overlap>>

CheckTtyToKill ==
    /\ handler = "tty"
    /\ handler' = IF shown # 0 THEN "process" ELSE "done"
    /\ UNCHANGED <<plan, agent, job, over, bash, logs, closed, queue, waits, ttys>>

\* StartTty may have cleared se.tty since
KillTty ==
    /\ handler = "process"
    /\ \/ /\ shown # 0
          /\ term' = IF term[shown] = "up" THEN [term EXCEPT ![shown] = "exited"] ELSE term
          /\ handler' = "done"
          /\ UNCHANGED <<agent, bash>>
       \/ shown = 0 /\ HandlerPanics
    /\ UNCHANGED <<plan, job, over, logs, closed, queue, waits, current, shown, canceled,
                   ttyIn, typed, inWriter, outReader, ttyOut, stray, overlap>>

HandleErrors == KillCommand \/ CheckTtyToKill \/ KillTty

-----------------------------------------------------------------------------
(***************************************************************************)
(* The log: writeLog, consumeShellLog and the upload                       *)
(***************************************************************************)
\* (mutant) Done is called twice for one reader
LeaveTwice(r, label) ==
    /\ reader' = [reader EXCEPT ![r].pc = label]
    /\ wg' = wg - 2

Leave(r, label) ==
    /\ reader' = [reader EXCEPT ![r].pc = label]
    /\ wg' = wg - 1

AtWait(r) == r[1] = job.attempt /\ job.pc = "wait"

CheckContext(r) ==
    /\ reader[r].pc = "check"
    /\ IF over THEN Leave(r, "cut")
       ELSE reader' = [reader EXCEPT ![r].pc = "read"] /\ UNCHANGED wg
    /\ UNCHANGED <<plan, agent, job, over, handler, bash, written, logSize, stdout, log,
                   closed, queue, waits, ttys>>

ReadLog(r) ==
    /\ reader[r].pc = "read" /\ AtWait(r) /\ reader[r].n < written[r]
    /\ reader' = [reader EXCEPT ![r] = [pc |-> "send", n |-> @.n + 1]]
    /\ UNCHANGED <<plan, agent, job, over, handler, bash, written, wg, logSize, stdout, log,
                   closed, queue, waits, ttys>>

\* the end of the pipe, or a pipe that Wait has closed
ReadFails(r) ==
    /\ reader[r].pc = "read"
    /\ \/ AtWait(r) /\ bash = "exited" /\ reader[r].n = written[r] /\ Leave(r, "eof")
       \/ ~AtWait(r) /\ Leave(r, "cut")
    /\ UNCHANGED <<plan, agent, job, over, handler, bash, written, logSize, stdout, log,
                   closed, queue, waits, ttys>>

SendLog(r) ==
    /\ reader[r].pc = "send" /\ ~closed /\ Len(stdout) < Capacity
    /\ stdout' = Append(stdout, r)
    /\ logSize' = logSize + 1
    /\ reader' = [reader EXCEPT ![r].pc = "check"]
    /\ UNCHANGED <<plan, agent, job, over, handler, bash, written, wg, log, closed, queue,
                   waits, ttys>>

\* a send on the closed channel panics, and that is recovered
SendLogPanics(r) ==
    /\ reader[r].pc = "send" /\ closed
    /\ Leave(r, "cut")
    /\ UNCHANGED <<plan, agent, job, over, handler, bash, written, logSize, stdout, log,
                   closed, queue, waits, ttys>>

Reader(r) == CheckContext(r) \/ ReadLog(r) \/ ReadFails(r) \/ SendLog(r) \/ SendLogPanics(r)

\* the chunk goes to the file and to the server
ConsumeLog ==
    /\ log.pc = "range" /\ stdout # <<>>
    /\ log' = [log EXCEPT !.file = Append(@, Head(stdout))]
    /\ stdout' = Tail(stdout)
    /\ UNCHANGED <<plan, agent, job, over, handler, bash, written, reader, wg, logSize,
                   closed, queue, waits, ttys>>

\* (mutant) the loop ends as soon as the channel is closed
UploadLogAtOnce ==
    /\ log.pc = "range" /\ closed
    /\ log' = [log EXCEPT !.pc = "uploaded"]
    /\ UNCHANGED <<plan, agent, job, over, handler, bash, written, reader, wg, logSize,
                   stdout, closed, queue, waits, ttys>>

\* the file is flushed and uploaded once the channel is closed and empty; an
\* upload that fails is only logged
UploadLog ==
    /\ log.pc = "range" /\ closed /\ stdout = <<>>
    /\ log' = [log EXCEPT !.pc = "uploaded"]
    /\ UNCHANGED <<plan, agent, job, over, handler, bash, written, reader, wg, logSize,
                   stdout, closed, queue, waits, ttys>>

-----------------------------------------------------------------------------
(***************************************************************************)
(* The messages: execTty and execKill                                      *)
(***************************************************************************)
IsRunning == job.pc # "done"

\* an OPEN, which is answered at once when a terminal is there
OpenTty(t) ==
    /\ queue = 0 /\ IsRunning /\ ~IsInteracting
    /\ t <= plan.ttys /\ term[t] = "none" /\ \A s \in 1..(t - 1) : term[s] # "none"
    /\ term' = [term EXCEPT ![t] = "check"]
    /\ UNCHANGED <<plan, agent, job, over, handler, bash, logs, closed, queue, waits,
                   current, shown, canceled, ttyIn, typed, inWriter, outReader, ttyOut,
                   stray, overlap>>

\* a SHELL; a send on the closed channel panics, which execTty recovers from
TypeInput ==
    /\ queue = 0 /\ IsRunning /\ IsInteracting /\ typed < plan.inputs
    /\ typed' = typed + 1
    /\ IF closed THEN UNCHANGED <<queue, ttyIn>>
       ELSE IF Len(ttyIn) < Capacity
            THEN ttyIn' = Append(ttyIn, current) /\ UNCHANGED queue
            ELSE queue' = current /\ UNCHANGED ttyIn
    /\ UNCHANGED <<plan, agent, job, over, handler, bash, logs, closed, waits, term,
                   current, shown, canceled, inWriter, outReader, ttyOut, stray, overlap>>

\* .. a send that waits gets its place, or panics in its turn
InputUnblocks ==
    /\ queue # 0
    /\ \/ closed /\ UNCHANGED ttyIn
       \/ ~closed /\ Len(ttyIn) < Capacity /\ ttyIn' = Append(ttyIn, queue)
    /\ queue' = 0
    /\ UNCHANGED <<plan, agent, job, over, handler, bash, logs, closed, waits, term,
                   current, shown, canceled, typed, inWriter, outReader, ttyOut, stray,
                   overlap>>

\* a CLOSE kills se.tty; with another terminal's failure that is nil, and the
\* panic is recovered
StopTty ==
    /\ queue = 0 /\ IsRunning /\ IsInteracting
    /\ shown # 0 /\ term[shown] = "up"
    /\ term' = [term EXCEPT ![shown] = "exited"]
    /\ UNCHANGED <<plan, agent, job, over, handler, bash, logs, closed, queue, waits,
                   current, shown, canceled, ttyIn, typed, inWriter, outReader, ttyOut,
                   stray, overlap>>

Kill ==
    /\ queue = 0 /\ IsRunning /\ ~over
    /\ over' = TRUE
    /\ UNCHANGED <<plan, agent, job, handler, bash, logs, closed, queue, waits, ttys>>

-----------------------------------------------------------------------------
(***************************************************************************)
(* The terminals: StartTty, writeTtyIn, writeTtyOut, consumeTtyLog         *)
(***************************************************************************)
\* StartTty panics when a terminal is there by now, or pty.Start fails; its
\* deferred call clears the fields of whatever terminal is up
StartTtyFails(t) ==
    /\ \/ term[t] = "check" /\ IsInteracting
       \/ term[t] = "start"
    /\ term' = [term EXCEPT ![t] = "gone"]
    /\ shown' = 0
    /\ UNCHANGED <<plan, agent, job, over, handler, bash, logs, closed, queue, waits,
                   current, canceled, ttyIn, typed, inWriter, outReader, ttyOut, stray,
                   overlap>>

CheckInteracting(t) ==
    /\ term[t] = "check" /\ ~IsInteracting
    /\ term' = [term EXCEPT ![t] = "start"]
    /\ UNCHANGED <<plan, agent, job, over, handler, bash, logs, closed, queue, waits,
                   current, shown, canceled, ttyIn, typed, inWriter, outReader, ttyOut,
                   stray, overlap>>

StartTty(t) ==
    /\ term[t] = "start"
    /\ term' = [term EXCEPT ![t] = "up"]
    /\ current' = t /\ shown' = t
    /\ inWriter' = [inWriter EXCEPT ![t] = "range"]
    /\ outReader' = [outReader EXCEPT ![t].pc = "read"]
    /\ overlap' = (overlap \/ Up # {} \/ IsInteracting)
    /\ UNCHANGED <<plan, agent, job, over, handler, bash, logs, closed, queue, waits,
                   canceled, ttyIn, typed, ttyOut, stray>>

BashExits(t) ==
    /\ term[t] = "up"
    /\ term' = [term EXCEPT ![t] = "exited"]
    /\ UNCHANGED <<plan, agent, job, over, handler, bash, logs, closed, queue, waits,
                   current, shown, canceled, ttyIn, typed, inWriter, outReader, ttyOut,
                   stray, overlap>>

\* the deferred calls; ttyCancel is that of the last terminal, or nil: StartTty
\* recovers from the panic
Hangup(t) ==
    /\ term[t] = "exited"
    /\ term' = [term EXCEPT ![t] = "gone"]
    /\ canceled' = canceled \union ({current} \ {0})
    /\ current' = 0 /\ shown' = 0
    /\ UNCHANGED <<plan, agent, job, over, handler, bash, logs, closed, queue, waits, ttyIn,
                   typed, inWriter, outReader, ttyOut, stray, overlap>>

\* (mutant) a failed write is only logged
WriteTtyInGoesOn(t) ==
    /\ inWriter[t] = "range" /\ ttyIn # <<>>
    /\ ttyIn' = Tail(ttyIn)
    /\ stray' = stray + (IF Head(ttyIn) \in Up \ {t} THEN 1 ELSE 0)
    /\ UNCHANGED <<plan, agent, job, over, handler, bash, logs, closed, queue, waits, term,
                   current, shown, canceled, typed, inWriter, outReader, ttyOut, overlap>>

\* writeTtyIn takes whatever is typed; bash may not read it, and the write waits;
\* the write to a closed terminal fails and ends the goroutine
WriteTtyIn(t) ==
    /\ inWriter[t] = "range" /\ ttyIn # <<>>
    /\ ttyIn' = Tail(ttyIn)
    /\ \/ PtyClosed(t) /\ inWriter' = [inWriter EXCEPT ![t] = "gone"]
       \/ ~PtyClosed(t) /\ UNCHANGED inWriter
       \/ ~PtyClosed(t) /\ inWriter' = [inWriter EXCEPT ![t] = "write"]
    /\ stray' = stray + (IF Head(ttyIn) \in Up \ {t} THEN 1 ELSE 0)
    /\ UNCHANGED <<plan, agent, job, over, handler, bash, logs, closed, queue, waits, term,
                   current, shown, canceled, typed, outReader, ttyOut, overlap>>

WriterLeaves(t) ==
    /\ \/ inWriter[t] = "write" /\ PtyClosed(t)
       \/ inWriter[t] = "range" /\ closed /\ ttyIn = <<>>
    /\ inWriter' = [inWriter EXCEPT ![t] = "gone"]
    /\ UNCHANGED <<plan, agent, job, over, handler, bash, logs, closed, queue, waits, term,
                   current, shown, canceled, ttyIn, typed, outReader, ttyOut, stray,
                   overlap>>

ReadTty(t) ==
    /\ outReader[t].pc = "read"
    /\ \/ /\ term[t] = "up" /\ outReader[t].n < plan.outputs
          /\ outReader' = [outReader EXCEPT ![t] = [pc |-> "send", n |-> @.n + 1]]
       \/ /\ term[t] \in {"exited", "gone"}
          /\ outReader' = [outReader EXCEPT ![t].pc = "gone"]
    /\ UNCHANGED <<plan, agent, job, over, handler, bash, logs, closed, queue, waits, term,
                   current, shown, canceled, ttyIn, typed, inWriter, ttyOut, stray,
                   overlap>>

\* writeTtyOut recovers nothing: its send on the closed channel ends the agent
SendTty(t) ==
    /\ outReader[t].pc = "send"
    /\ IF closed THEN agent' = "down" /\ UNCHANGED <<outReader, ttyOut>>
       ELSE /\ ttyOut < Capacity /\ ttyOut' = ttyOut + 1
            /\ outReader' = [outReader EXCEPT ![t].pc = "read"]
            /\ UNCHANGED agent
    /\ UNCHANGED <<plan, job, over, handler, bash, logs, closed, queue, waits, term,
                   current, shown, canceled, ttyIn, typed, inWriter, stray, overlap>>

ConsumeTty ==
    /\ ttyOut > 0
    /\ ttyOut' = ttyOut - 1
    /\ UNCHANGED <<plan, agent, job, over, handler, bash, logs, closed, queue, waits, term,
                   current, shown, canceled, ttyIn, typed, inWriter, outReader, stray,
                   overlap>>

Terminal(t) ==
    \/ StartTtyFails(t) \/ CheckInteracting(t) \/ StartTty(t) \/ Hangup(t)
    \/ WriteTtyIn(t) \/ WriterLeaves(t) \/ ReadTty(t) \/ SendTty(t)

-----------------------------------------------------------------------------
(***************************************************************************)
(* The environment                                                         *)
(***************************************************************************)
ScriptWrites(r) ==
    /\ bash = "runs" /\ r[1] = job.attempt /\ written[r] < plan.chunks
    /\ written' = [written EXCEPT ![r] = @ + 1]
    /\ UNCHANGED <<plan, agent, job, over, handler, bash, reader, wg, logSize, stdout, log,
                   closed, queue, waits, ttys>>

\* the script ends by itself
ScriptEnds ==
    /\ bash = "runs"
    /\ bash' = "exited"
    /\ UNCHANGED <<plan, agent, job, over, handler, logs, closed, queue, waits, ttys>>

Timeout ==
    /\ ~over
    /\ over' = TRUE
    /\ UNCHANGED <<plan, agent, job, handler, bash, logs, closed, queue, waits, ttys>>

-----------------------------------------------------------------------------
Init ==
    /\ plan \in Plans
    /\ agent = "up"
    /\ job = [pc |-> "attempt", attempt |-> 1, logSize |-> 0]
    /\ over = FALSE /\ handler = "wait" /\ bash = "none"
    /\ written = [r \in Readers |-> 0]
    /\ reader = [r \in Readers |-> [pc |-> "none", n |-> 0]]
    /\ wg = 0 /\ logSize = 0 /\ stdout = <<>> /\ closed = FALSE
    /\ log = [pc |-> "range", file |-> <<>>]
    /\ queue = 0 /\ waits = 0
    /\ term = [t \in Terms |-> "none"] /\ current = 0 /\ shown = 0 /\ canceled = {}
    /\ ttyIn = <<>> /\ typed = 0 /\ inWriter = [t \in Terms |-> "none"]
    /\ outReader = [t \in Terms |-> [pc |-> "none", n |-> 0]] /\ ttyOut = 0
    /\ stray = 0 /\ overlap = FALSE

Messages == (\E t \in Terms : OpenTty(t)) \/ TypeInput \/ StopTty \/ Kill
Goroutines ==
    \/ JobStep \/ HandleErrors \/ ConsumeLog \/ UploadLog \/ InputUnblocks \/ ConsumeTty
    \/ \E r \in Readers : Reader(r)
    \/ \E t \in Terms : Terminal(t)
Environment ==
    \/ ScriptEnds \/ Timeout
    \/ \E r \in Readers : ScriptWrites(r)
    \/ \E t \in Terms : BashExits(t)

\* an agent that is down takes no step
Next == agent = "up" /\ (Messages \/ Goroutines \/ Environment)
Spec == Init /\ [][Next]_vars

\* what can run does, since every goroutine has an end of its steps here; a terminal
\* may stay up for ever, and so may a script that the handler of the context does
\* not kill
FairSpec == Spec /\ WF_vars(agent = "up" /\ Goroutines)

-----------------------------------------------------------------------------
(***************************************************************************)
(* Properties                                                              *)
(***************************************************************************)
\* Every variable keeps its type, and no channel holds more than it can.
TypeOK ==
    /\ plan \in Plans /\ agent \in {"up", "down"}
    /\ job.pc \in {"attempt", "wait", "tty", "ttyWait", "ttyDone", "ended", "close", "drain",
                   "closing", "closed", "done"}
    /\ job.attempt \in Attempts /\ {over, closed, overlap} \subseteq BOOLEAN
    /\ handler \in {"wait", "tty", "process", "done"}
    /\ bash \in {"none", "runs", "exited"}
    /\ \A r \in Readers : /\ reader[r].pc \in {"none", "check", "read", "send", "eof", "cut"}
                          /\ reader[r].n <= written[r]
    /\ wg \in 0..Cardinality(Readers) /\ job.logSize <= logSize
    /\ Len(stdout) <= Capacity /\ Len(ttyIn) <= Capacity /\ ttyOut \in 0..Capacity
    /\ log.pc \in {"range", "uploaded"} 
    /\ \A t \in Terms : term[t] \in {"none", "check", "start", "up", "exited", "gone"}
    /\ {current, shown, waits, queue} \union canceled \subseteq Terms \union {0}

\* how many of the chunks in s are one of C
Count(s, C) == Cardinality({i \in DOMAIN s : s[i] \in C})

\* The log that is uploaded holds all that the script wrote to a pipe whose reader
\* came to its end, and never less than the LogSize that the result has reported:
\* what is in the channel when Close closes it is not lost (writeLog, Close,
\* consumeShellLog).  A reader that Wait, the context or Close cut short may lose.
UploadIsComplete ==
    log.pc = "uploaded" =>
        /\ \A r \in Readers : reader[r].pc = "eof" =>
               Count(log.file, {r}) = written[r]
        /\ Count(log.file, Readers) >= job.logSize

\* A terminal that has gone costs a later one no more than one input, the one that
\* its writeTtyIn takes before it sees that it writes to nothing, unless two
\* OPENs have put up two terminals at a time.
OneInputStrays ==
    ~overlap => stray <= Cardinality({t \in Terms : inWriter[t] = "gone"})

\* the timeout of the command fires
TimerFires == WF_vars(agent = "up" /\ Timeout)

\* a script that the handler of the context has left alone, being begun after it
\* has acted, ends by itself
LeftScriptsEnd == WF_vars(agent = "up" /\ handler # "wait" /\ ScriptEnds)

\* Whatever the server types and whatever terminals are left open, a command whose
\* timeout fires comes to its end, if the scripts of the attempts begun after that
\* end by themselves: the job is released, the log uploaded, every reader gone, and
\* the consumer of messages, which cannot receive a KILL while a full ttyIn blocks
\* it, free again; unless a panic that nothing recovers has ended the agent
\* (handleErrors, Close, writeTtyIn, consumeShellLog).
EverythingEnds ==
    TimerFires /\ LeftScriptsEnd =>
        <>[](\/ agent = "down"
             \/ /\ job.pc = "done" /\ log.pc = "uploaded" /\ queue = 0
                /\ \A r \in Readers : reader[r].pc \in {"none", "eof", "cut"})
=============================================================================
