# Flow agent: TLA+ models, checks and proofs

flow-agent-x is the build agent of flow.ci. It connects to a server by a
websocket, receives commands (SHELL, TTY, KILL, CLOSE), runs one shell command
at a time in bash or in Docker containers, streams its logs and sends its
result. This directory models the agent, its executors and what they share,
checks the models with TLC on small instances and proves their safety
properties with TLAPS for every value of the constants. `PROJECT.json`
holds the machine-readable index: runs, mutants, the lines of source behind each
definition, hazards, findings and theorems.

## 1. Inventory

Goroutines share Go structures with few locks; one process hosts everything,
and a panic outside an HTTP handler ends the agent. The agent keeps no state of
its own across restarts, but plugins, volumes, job directories and the cache of
the server outlive a job.

| Component | Source | State | Operations | What makes it correct | Modelled in |
|---|---|---|---|---|---|
| Process | `app.go` | main goroutine | start, wait for `AppCtx`, exit | an accepted command is answered before the exit, unless CLOSE | `CmdService` (exit only) |
| Idle/busy events | `config/manager.go` | `status`, `idleTimer`, runtime timers | `FireEvent`, the two handlers, the goroutine per timer | a busy agent never exits for idleness, an idle one does | `IdleMonitor`, `CmdService` |
| Command service | `service/cmd_service.go` | `executor`, `mux` | `Execute` (SHELL, KILL, CLOSE, TTY), job goroutine, `release` | one command at a time, one answer each, the service becomes free again | `CmdService`, `CmdProtocol`; `execTty` and the log consumers in `Streams` |
| Shell executor | `executor/shell.go`, `shell_bash.go`, `executor.go` | `command`, `result`, `context`, channels | `Init`, `Start`, `doStart`, `handleErrors`, `Kill`, `Close`, TTY | the result is final and tells what happened; a kill ends the command | `ShellExecutor`, `Streams`, `JobResources`, `JobVariables` |
| Log and terminals | `writeLog`, `startLogConsumer`, `StartTty`, `execTty`, `Close`, `util.Wait` | `stdout`, `ttyIn`, `ttyOut`, `stdOutWg`, `ttyCtx` | produce, forward, upload, open, type, close | what was read is uploaded, nothing waits for ever | `Streams` |
| Docker executor | `executor/docker.go` | `configs`, containers, `context`, `result` | `Init`, `Start`, `handleErrors`, `cleanupContainer` | success is earned, containers go, a kill reaches its bash | `DockerExecutor`; volumes, network, cache in `JobResources` |
| Cache manager | `service/cache_manager.go`, `util/files.go`, the cache calls of `api/client.go` | temporary directories, job directory, server | `Download`, `copyCache`, `writeCache`, `Upload` | files keep their places, a cache is complete, directories are removed | `JobResources` |
| Plugins, secrets, volumes | `plugin_manager.go`, `GetSecret`, `initVolumeData` | repository, volume | `Load`, `initSecretEnv`, `initNetwork` | a job gets them or fails | `JobResources` |
| Variables | `domain/variables.go`, `util/common.go`, `util_unix.go` | `vars`, the environment file | `Resolve`, `parseVariablesFrom`, `exportEnv` | references are replaced, the result has what the script left | `JobVariables` |
| Websocket client | `api/client.go`, `listenReConn` | `conn`, `pending`, `reConn` | `Connect`, `readMessage`, `consumePendingMessage`, `SendCmdOut`, `Close` | a lost connection is replaced, no message is stuck, commands keep their order | `AgentClient` |
| HTTP controllers | `controller/` | none | `PostExecuteCmdImpl` | as the command service | `CmdService` (`HttpHandlers`) |
| PowerShell executor | `executor/shell_powershell.go` | as shell | as shell | as shell | no: Windows build only, same control |
| Domain types | `domain/` | none | JSON | - | only where control depends on them |
| Generated, unused | `executor/bindata.go`, `dao/`, `util/zk.go` | - | - | - | no |

How they interact: the client's reader hands commands to the consumer of the
command service over an unbuffered channel; HTTP handlers call the same
`Execute`. `Execute` fires the busy event (a call into the manager, in the
caller's goroutine), builds an executor and starts the job goroutine, which
calls `Start`, sends the result through the client's queue, and releases: it
closes the executor, clears the field and fires the idle event. KILL cancels
the executor's context; CLOSE cancels the context of the whole agent, which
also ends main. Timers fire in the runtime and their goroutines end the agent
by a panic.

What is hard in this code: fields read again and again without a lock
(`s.executor`, `m.idleTimer`, `se.command`, `c.conn`); work done after an
unlock (the recovery of `execShell`); a kill handler that acts only once; two
goroutines that write one result; channels that are closed while others send;
consumers of one queue that overlap around a reconnection or of one input that
overlap around a terminal; a container daemon that fails between two steps;
files and volumes that a job before has left half done; a text scanner whose
indexes refer to a text that has changed. `PROJECT.json` lists these hazards,
each at its line, with the properties that would catch it.

## 2. Modules

    CmdProtocol            what the server may rely on (abstract)
      ^ implemented by
    CmdService  ---------- INSTANCE ----------> IdleMonitor
      ^ MCCmdService (symmetry)                   ^ IdleMonitorProofs
      ^ CmdServiceProofs
    ExecutorProtocol       what the command service may rely on (abstract)
      ^ implemented by
    ShellExecutor                       ^ ShellExecutorProofs
    DockerExecutor   ^ MCDocker         ^ DockerExecutorProofs
    AgentClient                         ^ AgentClientProofs
    Streams          ^ MCStreams        ^ StreamsProofs
    JobResources     ^ MCJobResources   ^ JobResourcesProofs
    JobVariables     ^ MCJobVariables   ^ JobVariablesProofs

The MC modules only give values to constants.

**IdleMonitor** (`config/manager.go`). `pc[p]` is the place of a goroutine
inside `onIdleEvent` or `onBusyEvent`; each access to `m.idleTimer` (check,
`Stop`, clear, arm) is a step, because nothing serialises handlers fired by
different goroutines. A timer is `unset`, `armed`, `stopped` or `fired`; the
goroutine of a timer first evaluates `m.idleTimer.C`, whatever the field then
holds (`WatcherStarts`), and panics when that timer has fired
(`WatcherPanics`). Time is abstract: an armed timer may fire at any moment.
Two handlers overlap in any way. `Collide` names the overlaps that do harm: two
handlers between the check of `m.idleTimer` and the end of its clearing, or two
idle ones that are both about to arm. `OnlyCollisionsHarm` says that no other
does, the busy event of one command before the idle event of the last included.

**CmdService** (`service/cmd_service.go`). The processes are the callers of
`Execute` (the queue's consumer and `HttpHandlers`) and one job goroutine per
command. `executor` is `s.executor`, `mux` the mutex, `ex[c]` the state of c's
executor and context. `Enter`/`Reject`, `FireBusy`, `Build`, `InitOk` are
`execShell` in order; `Fail` is a panic anywhere in it (the unlock, then
`recover`), `FailureBeforeExecute` the answer, `Release*` the release that jobs
and failed callers share, with the idle event inside. `FireBusy` and `FireIdle`
are the steps of `IdleMonitor`, instantiated on the same variables, so every
interleaving of the two components is explored. `Panic` ends the agent except
in an HTTP handler, where gin recovers. `JobStart` and `StartReturns` stand for
the whole of `Start`, which `ShellExecutor` details.

**CmdProtocol**. Accept, Reject, Answer, Finish: one command at a time, a
refusal only while another is at work, exactly one answer before the next.
`CmdService!Current` is the refinement mapping: the command `s.executor` was
built for or, before and without an executor, the one the consumer prepares or
gives up.

**ExecutorProtocol**. What one run of `Start` promises its caller, for either
executor: at most `Retry` + 1 attempts, each judged once it is over. SUCCESS is
judged only of a script that ended well in that very attempt, KILLED and TIMEOUT
only after the end of the context, and by its reason; another attempt follows only
a failure or the end of the context; only the last attempt may leave a failure;
what is returned never changes. `Overrule` is the handler of the shell
executor, which writes the status beside the attempt. The refinement mappings
are `Protocol` in both modules: `Phase` is the place of the job goroutine,
`ScriptOutcome` the bash of this attempt, the verdict is `status` once the
attempt is over. The docker executor replaces an ended context by a fresh one
(`handleErrors`); `Cause` reads the reason off the status it has written before.

**ShellExecutor** (`shell.go`, `shell_bash.go`, `executor.go`). One command:
the job goroutine (`main`), the goroutine of `Start` that waits for the context
(`handler`) and bash (`proc`). `status` and `code` are written one at a time, in
the order of the code, by either goroutine. `AttemptFails` covers each error
or panic of `doStart`; `Loop` is the retry loop. A process ended by a signal has
exit status -1, as `ExitStatus` returns it.

**AgentClient** (`api/client.go`, `listenReConn`). `conn` is `c.conn`;
`reader[k]`, `consumer[k]` are the goroutines Connect started for connection k.
A reader re-evaluates the field for each message, hands the command over
(which may block for as long as the service is at work), and after a loss
signals, clears the field and queues the marker. A consumer takes a message and
writes it to what the field then holds. `manager` is the goroutine of
`listenReConn` inside `Connect`.

**DockerExecutor** (`docker.go`). One command with a list of container options.
`job` is the goroutine in `Start`: its step, the place of `configs` it is at,
the pull tries, the retries left, the ids it knows, and the result. `box[p][a]`
is the container made for place p by attempt a, `shell[a]` the bash of that
attempt, so that a container or a bash which the executor has forgotten is
still there to be counted. Every step with `d.context` fails with the error of
the context once that is over (`ContextIsOver`) or with another one while the
daemon may still fail (`DaemonFails`, `faults`); the deferred clean-up comes
first, then `handleErrors`, which kills what has written its pid. A creation or
a start that fails, or that the context cuts short, may have been carried out by
the daemon all the same (`DoneAnyway`): a container is then `created`, or runs
`adrift`, while its id is not stored. `Config` is
what `initConfig` computes, with the hole it leaves when the runtime option is
not the first. `missed` records a clean-up or a kill that the daemon failed to
carry out, and is only read by properties, as is `stopAt`.

**Streams** (`executor.go`, `shell_bash.go`, `cmd_service.go`). One shell
executor: the readers of bash's pipes, `stdout` with its wait group, the log
consumer and its upload; the terminals with `ttyIn`, `ttyOut`, `ttyCtx`
(`current`) and `tty`/`ttyId` (`shown`); the consumer of messages in `execTty`,
blocked at `queue`; the job from `doStart` to the three `close` calls of
`Close`; and the goroutine of `Start` that awaits the context (`handler`), which
kills the bash and the terminal it finds, once, and may find a `Process` or a
`se.tty` that is nil. An attempt begun after that is killed by nobody. The check of
`IsInteracting` and each use of it are steps of their own.
`stray` counts the inputs that the `writeTtyIn` of one terminal has taken from
another that is up.

**JobResources** (`cache_manager.go`, `plugin_manager.go`, `files.go`, the HTTP
calls of `client.go`, `Init`, `copyCache` and `writeCache` of both executors).
One job after the other on a host; what outlives a job is a variable: plugin
repository, volume, job directory, the cache on the server and on disk. A file
is a name whose content says which file it was written as, and by which job.
Each step has its failures, with what they leave behind (a `.tmp` file, half an
archive, a plugin without its origin, an empty volume, a docker attempt that
panics and writes no cache). Some files are symbolic links to others in the same
directories (`Links`): `CopyDir` leaves them out (`WithoutLinks`), and
`untarFromReader` makes empty files of them (`WithEmptyLinks`).

**JobVariables** (`variables.go`, `common.go`, `util_unix.go`, `util.go`).
`Resolve` twice over the map in any order, with the scanner at its index in a
text that its own replacements change; then the environment file and what
`readEnvFromReader` makes of it. Here texts are sequences of characters, since
the indexes are what goes wrong.

## 3. Runs

Each run of a passing specification also has, for each property, a mutant
(operators marked `(mutant)` in the modules) that TLC finds violated.

| Run | Instance | Shows |
|---|---|---|
| IdleMonitor | 2 goroutines, 3 timers | `OnlyCollisionsHarm`, `IdleAgentExits`: unless two handlers collide no running timer is lost and none is found nil, and an agent that stays idle exits |
| ServiceQueue | 2 commands, idle timer, KILL, CLOSE, timeouts, no HTTP | `JobOwnsExecutor`, `ReleaseWhenExecuted`, `JobsSurvive`, `ImplementsProtocol`, `AcceptedIsAnswered`, `ServiceIsFreed` |
| ServiceHttp | 3 commands, 1 HTTP handler, KILL, CLOSE, timeouts | `NoExecutorLeak` |
| Shell | 2 retries | `SuccessIsEarned`, `ImplementsProtocol` (of `ExecutorProtocol`), `StartReturns`, `KillAtWorkEnds` |
| Docker | 6 commands, 1 retry, 2 pull tries, 2 faults, 1 terminal | `SuccessIsEarned`, `OneShell`, `NoContainerLeft`, `KillReachesShell`, `KilledIsReported`, `KilledIsFinal`, `ImplementsProtocol` (of `ExecutorProtocol`), `ContextEndsJob` |
| Streams | 4 plans: a retried log; two terminals; one terminal and three inputs; a log next to terminal output; channels of 1 | `UploadIsComplete`, `OneInputStrays`, `EverythingEnds` |
| Resources | 5 commands, a tree of 6 files with a link, 2 jobs, 1 retry, 1 fault | `CacheKeepsPlaces`, `CacheIsComplete`, `TempDirsRemoved` |
| Variables | 3 variables, 480 environments, each with and without docker | `ResolveIsExact`, `PanicsAtEndOnly`, `ExportIsFaithful`, `ResolveReturns` |
| Client | 3 connections, 2 commands, 1 message, queue of 2, 2 attempts | `ConsumersBalance`, `CommandsInOrder`, `Reconnects`, `PendingIsWritten` |

`CmdService` (with `IdleMonitor`), `ShellExecutor`, `AgentClient`, `DockerExecutor`
and `Streams` have a type invariant, `TypeOK`, in the same runs. Those of
`IdleMonitor`, `JobResources` and `JobVariables` are proved and not run.

Runs that TLC refutes, each a disagreement of the code with what its own
comments, messages or tests say:

| Run | Property | What happens |
|---|---|---|
| ServiceIdleTimer | `NoTimerAtWork` | `release` clears the field before it fires the idle event; the next command's busy event overtakes it and the timer runs during that command |
| ShellTimeout | `WaitOrTimeout` | the context ends before `se.command` is set: nothing is killed, and the handler does not come again |
| ClientLoss | `LossIsSurvived` | a message pending at a loss is written to the nil `c.conn` |

The models show more of the kind, which their properties state as exceptions:

- two handlers of events that collide may lose a running timer, which nothing stops
  any more, or find `m.idleTimer` nil behind their check (`Collide`);
- with an HTTP handler, the recovery of a failed command (`execShell`, after the
  unlock) closes the executor of a command another caller has started;
- a command that fails before its executor exists is released with no idle
  event: the agent stays busy, with no timer;
- bash may die of a kill before the handler has written the status: the result
  is EXCEPTION instead of KILLED or TIMEOUT;
- after a failed `command.Start`, Close wakes the handler, which dereferences
  the nil `Process` (`crashed`);
- a docker command whose runtime option is not the first never succeeds
  (`SuccessIsEarned`); a pull that succeeds after a failed try fails its attempt
  (`PullImage`); an end of the context while addresses are read is an exception,
  not a kill (`AddressIsUnknown`, left out of `ContextCalls`); containers that
  are not to be stopped are made anew by each attempt, and one whose start was cut
  short may run on with nobody to stop it (`NoContainerLeft`);
- a killed command that has retries left is run again, and nobody kills that
  attempt (`LeftScriptsEnd`, the hypothesis of `EverythingEnds`); a handler that
  finds `se.tty` cleared behind its check ends the agent (`KillTty`);
- output of a terminal that is open when `Close` closes `ttyOut` ends the agent
  (`SendTty`), and a terminal that has gone takes one input of the next
  (`OneInputStrays`);
- a cached directory inside another is uploaded incomplete, a cached file at the
  top not at all, and the docker executor moves a nested path to the top; symbolic
  links are left out or come back as empty files, and an attempt that panics leaves
  the cache to the one before (`CacheIsComplete`, `Zipped`, `CacheKeepsPlaces`);
- a message that a consumer takes after the loss of its connection is written to
  nothing and forgotten (`WrittenToLost`, excepted by `PendingIsWritten`);
- `Resolve` depends on the order of the map and skips text behind a short value,
  and panics at a `$` that ends a value (`ResolveIsExact`,
  `PanicsAtEndOnly`); in a container the
  first variable of the environment file is lost (`ExportIsFaithful`).

Bounds. Two commands are one at work and one that arrives meanwhile, is turned
down or follows it while its release is still under way; the safety properties
of that run are also proved for any number. Three commands let a stranger
release the executor of a command while another is taken; a caller is only
distinguished by being recovered or not, so one HTTP handler beside the
consumer gives every pair. In `IdleMonitor` two goroutines give every pair of
handlers, a job's idle one with the consumer's busy one among them, and three
timers let one be replaced twice. Three
connections let a loss happen during and after a reconnection, and let two old
consumers overlap a new one; a queue of two can be full of a message and a
marker. `MaxConns`, `MaxIn`, `MaxOut` and the size of `Timers` are bounds of
the model; `Attempts` (6 in the code) and `Capacity` (100) are parameters of it.
`Attempts` is 6 in `ClientLoss`. `Client` loses connections in the
way that is reconnected for (`away`); the other way (`reset`) ends the agent at
the next read.

One retry is an attempt that follows another, with what the first has left;
two faults let a step fail and its clean-up as well. The docker commands have
each kind of option (stopped, deleted, neither, resumed), one with a service,
one with its runtime option second. Channels of one are full with one message,
as those of 1000 (`Capacity`) are with a thousand; one pipe stands for two that
are alike. Two jobs let the second find what the first left; the cache of the
server may already be that of another host. `MaxLen` (20) is longer than any
text whose variables do not refer to themselves can grow to; `MaxFaults`,
`MaxJobs` and the numbers of a plan are bounds of the models, `Retry` and
`PullRetry` parameters.

Deadlock is not checked: the process ends, the server may stay silent, and an
idle agent without `ExitOnIdle` rightly waits.

Fairness. `WF` of each goroutine: the Go scheduler runs what can run, and a
blocking operation that becomes possible is taken (each channel has one
waiting side here). File and HTTP operations return (the HTTP client has a 10 s
timeout). In `CmdService` a script ends; `ShellExecutor` does not assume it:
`StartReturns` has it as a hypothesis (`ScriptsEnd`), and `KillAtWorkEnds` and
`WaitOrTimeout` ask when a kill or a timeout ends a script instead. In
`IdleMonitor` an armed timer fires; in `CmdService` it need not. In
`DockerExecutor` only the goroutine of `Start` is fair, and the script and the
terminal may go on for ever: `ContextEndsJob` holds because each call with the
context notices its end. In `Streams` one `WF` of all goroutines is enough, since
each has only so many steps to take. Neither a script nor a terminal need end: the
handler of the context is one of the goroutines, and kills what it finds when it acts. `EverythingEnds` has two hypotheses: the timeout fires, and a
script begun after the handler has acted, which nobody kills, ends by itself
(`LeftScriptsEnd`). In `JobVariables` the loop of `Resolve` goes on. Nothing is
assumed of the server: no fairness of messages, of KILL, or of losses.
`Attempts` may all fail, so reconnection says "or the agent ends".

## 4. Proofs

TLAPS proves every safety invariant, every action property and every refinement
that a passing run checks, for every value of the constants that the `ASSUME`s
allow; TLC evaluates these on each run. Each proof rests on an inductive
invariant which TLC was let check first, on the instance of the run.

| Module | Theorems | What the inductive invariant adds, and why |
|---|---|---|
| `CmdServiceProofs` | `TypeCorrect`, `NothingLeaks`: any number of commands and HTTP handlers | who may have a live executor: only the command whose executor the field holds, because a caller that prepares a command holds the mutex and found the field nil, and only the holder of the mutex sets it |
| | `JobsOwn`, `ReleasesWait`, `JobsNeverDie`, `Implements` (the refinement of `CmdProtocol`): any number of commands, without HTTP handlers | a job past its start owns the field, a command between build and hand-over is the consumer's, whoever releases is the owner, and how many answers each command has at each place |
| `IdleMonitorProofs` | `TypeCorrect`; `CollisionsAlone`: any number of goroutines and timers | while no two handlers have collided, what a handler between two of its steps knows of the field: one that has found a timer still finds one, nothing is armed when it clears the field, and one about to arm finds nil |
| `ShellExecutorProofs` | `TypeCorrect`, `ReportsAreFinal`, `SuccessesAreEarned`, `KillsHaveACause`, `OnlyFailuresAreRetried`, `Implements` (the refinement of `ExecutorProtocol`): any `Retry`, both values of `AllowFailure` | the status by the place of both goroutines: PENDING and RUNNING only before the attempt has an outcome. `AttemptInv`: a failure is left, and reported, only after the last attempt |
| `AgentClientProofs` | `TypeCorrect`, `CommandsKeepOrder`, `ConsumersStayBalanced`: any number of connections, messages and attempts to connect | `ReaderInv`: only the last connection has a reader, and none has while a new one is made. `OrderInv`: what was handed over, is in hand and is on its way is one rising sequence, so a step that moves the first of one part to the end of another keeps it |
| `DockerExecutorProofs` | `TypeCorrect`, `SuccessEarned`, `OneShellAtATime`, `ContainersCleaned`, `KillReaches`, `KillReported`, `KillFinal`, `Implements` (the refinement of `ExecutorProtocol`): any list of options, retries, pull tries and failures of the daemon | `PlaceInv`: what a loop over `configs` has behind it. `ResultInv`: where an error can be on its way. `ShellInv`, `BoxInv`: a bash or a container that runs is that of this attempt, until its clean-up; `AnsweredInv`: while no call has failed and the context has not ended, no container is without a stored id. `KillInv`: the error of a context that ended before a call is kept up to the recovery. `VerdictInv`: a bash belongs to the attempt that started it, the error that is handled is why the context ended, the context is good again only after a kill, and an attempt that ends has a verdict |
| `StreamsProofs` | `TypeCorrect`, `UploadComplete`, `OneStrays`: any plan, pipes and capacity | `OrderInv`: an attempt's readers start with it, and one that saw the end of its pipe has read what will ever be written to it. `WaitInv`: `stdOutWg` is the number of readers that have not gone, those of an attempt that never started included. `CountInv`: what a reader has read is in its hand, in the channel or in the file. `OneTerminal`: without an overlap `current` is the one terminal with a process |
| `JobResourcesProofs` | `TypeCorrect`, `DirsRemoved`, `KeepsPlaces`, `CacheComplete`: any tree, commands, jobs, retries and failures | `TempInv`: where a directory of the output can be set. `PlacesInv`: all four directories together, since files go from each to the next. `CopyInv`: while `writeCache` runs, a directory is in the output as its `Images`, or still to come and not in it at all; this needs that two entries of the top have no file in common |
| `JobVariablesProofs` | `TypeCorrect`, `ResolvesExactly`, `PanicsOnlyAtEnd`, `ExportFaithful`: any names and filters, any values, any order of the loops | `ResolveInv`: at each key of a loop its source is unresolved or exactly expanded, and a scan under way is `Scanned`: all that is still to replace in its text, done at once (`Sub`), gives what it gave at the beginning. `EndsInv`: no text in the loops ends in a `$` if none did. `FileInv`: the file is the lines still to read, and the result has what the read ones say |

Assumptions. The last four theorems of `CmdServiceProofs` have `HttpHandlers = {}`:
with a handler beside the queue the properties fail (section 3). The constants of the others are sizes,
or bounds of the model, and are natural numbers; `DockerExecutor` has at least
one container, one pull try. `JobResources` assumes of its tree what
paths are: a directory is not empty and lies in one entry of the top, and a link is
in the same directories as the file it points to (`FilesAssumption`); a path of
the cache is not itself a link, and an archive rooted at the last name of a path that
is at the top leaves files where they are (`CmdsAssumption`). `Streams` has
plans within `MaxRetry` and `MaxTtys`, which may be any numbers. `JobVariables`
assumes that no name is a character with a meaning of its own
(`VariablesAssumption`).

How they are laid out. An invariant has one lemma for its steps, with one case
for each action; those that cannot disturb it are leaves, or share a frame
lemma (`JobActionFrame`, `LogActionFrame`, `TerminalActionFrame` and
`HandlerFrame` of `StreamsProofs`). Counting is done with the theorems on finite sets: a marker or a
chunk in a queue is an index, and taking the first message away is a bijection
of the indexes that are left (`MarkersOfTail`, `CountOfTail`).

Texts. What `Replace`, `FlattenSeq` and `Expand` return for a text of any length
needs induction, and a theorem of induction over an operator cannot be used
here. `JobVariablesProofs` states what is to be shown for all texts of a length
as a set of numbers instead, which is all of Nat because the order of the numbers
is well-founded (`Induction`, `SeqInduction`, `TextInduction`). The lemmas about
`FlattenSeq` (`FlattenAppend`, `FlattenHead`, `JoinedInTwoWays`) and about
replacements follow: replacing one name and then all of them is replacing all at
once, if no value puts a placeholder together with what is beside it (`SubTwice`),
and the scan has missed none behind its index if values are no shorter than
placeholders (`StartsBehind`). The two conditions are those of `Exact`.

`KilledForCause`, `ReportIsFinal` and `RetriesOnlyFailures` of `ShellExecutor`,
which `ImplementsProtocol` largely covers, are proved and not run; likewise
`TypeOK` of `IdleMonitor` and `JobResources`, and `Typed` of `JobVariables`.

Only model-checked: the liveness properties, since fairness and ENABLED are out
of the prover's reach. Refuted, and so neither: the properties of the three runs
that expect a violation.

## 5. Not modelled, and why

- The content of messages and logs, and the JSON of the domain types: no
  property depends on it. In `CmdService` the plugin, the cache and the upload
  are steps that return; `JobResources` has what they do.
- Composition: an executor is checked on its own, with what its callers do to it
  (Kill, Close, messages) as steps of its environment. `CmdService` has Start as
  two steps, which return if the script ends. Their product is too large for
  the bounds that make each interesting.
- The log of a docker command: its readers are those of `Streams`, but its wait
  group counts one and is incremented once for each attempt. The terminals of
  docker are in `DockerExecutor` only as far as `Start` waits for them.
- Two jobs at a time on one job directory: the command service excludes them.
- The names of cache files (base64) and of volumes (`NewVolumesFromString`), the
  docker log header, UTF-16 and the PowerShell environment: formatting.
- Symbolic links that dangle, that point out of their directory or that are
  themselves a path of the cache: what becomes of them depends on what they
  point to.
- The second read of `s.executor` in `execShell`, by `startLogConsumer`: `InitOk`
  does it together with `Init`; a nil there ends the agent in a log goroutine as
  it does in the job's first step.
- The websocket library's check for concurrent writes, which panics: it only
  cuts behaviours of `AgentClient` short, so the safety properties are not
  weakened, and the liveness properties allow the agent to end.
- `client.Close` at the end of the process, and sends on the queue it closes.
- `connState`, `ProcessId`, `FinishAt`: written, never read by control.
- A new `AgentConfig` after a reconnection: `ExitOnIdle` is constant.

## 6. Plan

1. The product of `CmdService` and `ExecutorProtocol` in place of the two steps
   that stand for Start; the conditions under which `ServiceHttp` keeps
   `JobOwnsExecutor`.
2. The docker log and terminals in `Streams`, as a second kind of plan.
3. `AgentSystem`: the command service over the client, end-to-end answers under
   losses, `client.Close` and the exit; an abstract lossy link it implements.
