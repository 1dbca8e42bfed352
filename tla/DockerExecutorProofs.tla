------------------------ MODULE DockerExecutorProofs ------------------------
(***************************************************************************)
(* Proofs about DockerExecutor, for any list of container options, any     *)
(* numbers of retries, of pull tries and of failures of the daemon.        *)
(***************************************************************************)
EXTENDS DockerExecutor, FiniteSetTheorems, WellFoundedInduction, TLAPS

-----------------------------------------------------------------------------
(***************************************************************************)
(* d.configs                                                               *)
(***************************************************************************)
\* The runtime option is one of the options, the last that is marked.
LEMMA RuntimeOptionExists == ASSUME TypeOK PROVE RuntimeOption \in Places
  <1> DEFINE n == Len(cmd.dockers)
  <1>1. n \in Nat \ {0} /\ Places = 1 .. n
    BY DockerAssumption DEF DockerAssumption, TypeOK, Places
  <1>2. CASE RuntimeOptions = {}
    BY <1>1, <1>2 DEF RuntimeOption
  <1>3. CASE RuntimeOptions # {}
    <2> DEFINE back == {n - i : i \in RuntimeOptions}
    <2>1. RuntimeOptions \subseteq Places
      BY DEF RuntimeOptions, Places
    <2>2. back \subseteq Nat /\ back # {}
      <3>1. \A i \in RuntimeOptions : n - i \in Nat
        BY <1>1, <2>1
      <3> QED
        BY <1>3, <3>1
    <2>3. PICK x \in back : \A y \in back : ~ <<y, x>> \in OpToRel(<, Nat)
      BY <2>2, NatLessThanWellFounded, WFMin, Zenon
    <2>4. PICK i \in RuntimeOptions : x = n - i
      BY <2>3
    <2>5. \A j \in RuntimeOptions : j <= i
      <3> SUFFICES ASSUME NEW j \in RuntimeOptions, ~ (j <= i) PROVE FALSE
        OBVIOUS
      <3>1. n - j \in Nat /\ x \in Nat /\ n - j < x /\ n - j \in back
        BY <1>1, <2>1, <2>2, <2>4
      <3>2. <<n - j, x>> \in OpToRel(<, Nat)
        BY <3>1 DEF OpToRel
      <3> QED
        BY <2>3, <3>1, <3>2
    <2> QED
      BY <1>3, <2>1, <2>4, <2>5 DEF RuntimeOption
  <1> QED
    BY <1>2, <1>3

NoHole == \A p \in Places : Config(p) # Nil

\* So the first place of configs always has a configuration.
LEMMA RuntimeIsFirst == ASSUME TypeOK PROVE 1 \in Places /\ Config(1) # Nil
  <1>1. Places = 1 .. Len(cmd.dockers) /\ 1 \in Places
    BY DockerAssumption DEF DockerAssumption, TypeOK, Places
  <1>2. Config(1) \in Places
    BY RuntimeOptionExists DEF Config
  <1> QED
    BY <1>1, <1>2 DEF Nil

\* configs has no hole only if the runtime option is the first: then each option
\* has its configuration, at its own place.
LEMMA NoHoleIsIdentity ==
    ASSUME TypeOK, NoHole PROVE {Config(p) : p \in Places} = DOMAIN cmd.dockers
  <1>1. \A p \in Places : p # 1 => p \notin RuntimeOptions
    BY DEF NoHole, Config
  <1>2. 1 \in Places /\ RuntimeOption \in Places
    BY RuntimeIsFirst, RuntimeOptionExists
  <1>3. RuntimeOption = 1
    <2>1. CASE RuntimeOptions = {}
      BY <2>1 DEF RuntimeOption
    <2>2. CASE RuntimeOptions # {}
      <3>1. RuntimeOptions = {1}
        BY <1>1, <2>2 DEF RuntimeOptions, Places
      <3>2. Places \subseteq Nat
        BY DockerAssumption DEF DockerAssumption, TypeOK, Places
      <3> QED
        BY <3>1, <3>2 DEF RuntimeOption
    <2> QED
      BY <2>1, <2>2
  <1>4. \A p \in Places : Config(p) = p
    BY <1>1, <1>3 DEF Config
  <1> QED
    BY <1>4 DEF Places

\* The command is never written, nor what initConfig has made of it.
LEMMA CmdStays ==
    ASSUME [Next]_vars
    PROVE  /\ cmd' = cmd
           /\ Places' = Places
           /\ NoHole' = NoHole
           /\ \A p : Config(p)' = Config(p)
           /\ \A p : Option(p)' = Option(p)
           /\ \A p : Disposes(p)' = Disposes(p)
  <1>1. cmd' = cmd
    BY DEF Next, StartSteps, vars, DoStart, PullNothing, PullImage, PullFails, Resume,
       ResumeFails, ResumeNothing, CreateContainer, LaunchContainer, CopyPlugins, CreateExec,
       ExecShell, AddressIsUnknown, WriteCmd, ToStartStatus, WaitForExit,
       IsInteracting, WaitForTty, TtyDone, Finish, ContextIsOver, DaemonFails,
       CleanUp, CleanUpFails, CleanUpNothing, HandleContext, HandleError, Loop,
       ContextEnds, ShellWritesPid, ShellExits, OpenTty, CloseTty
  <1> QED
    BY <1>1 DEF Places, NoHole, Config, Option, Disposes, RuntimeOption,
       RuntimeOptions

-----------------------------------------------------------------------------
(***************************************************************************)
(* Types                                                                   *)
(***************************************************************************)
\* What the types need to know of the constants.
LEMMA Sizes ==
    ASSUME cmd \in Cmds
    PROVE  /\ Len(cmd.dockers) \in Nat \ {0}
           /\ Places = 1 .. Len(cmd.dockers)
           /\ 1 \in Places
           /\ Retry \in Nat /\ PullRetry \in Nat \ {0} /\ MaxFaults \in Nat
  BY DockerAssumption DEF DockerAssumption, Places

\* A new executor is well typed.
LEMMA TypeInit == Init => TypeOK
  <1> SUFFICES ASSUME Init PROVE TypeOK
    OBVIOUS
  <1>1. cmd \in Cmds
    BY DEF Init
  <1>2. job \in Jobs
    <2> DEFINE ids == [p \in Places |-> IF Config(p) # Nil /\ Option(p).given THEN 0 ELSE NoId]
    <2>1. ids \in [Places -> {NoId, 0} \union Attempts]
      OBVIOUS
    <2>2. /\ 1 \in Places /\ Retry \in 0..Retry
          /\ 0 \in 0..(PullRetry - 1)
      BY <1>1, Sizes
    <2>3. job = [pc |-> "attempt", place |-> 1, tries |-> 0, left |-> Retry,
                 cid |-> ids, err |-> "none", status |-> "PENDING", out |-> "nil"]
      BY DEF Init
    <2> HIDE DEF ids
    <2> QED
      BY <2>1, <2>2, <2>3 DEF Jobs, JobLabels
  <1>3. /\ box \in [Places -> [{0} \union Attempts -> Boxes]]
        /\ shell \in [Attempts -> Shells]
    <2>1. {"none", "exited", "running"} \subseteq Boxes
      BY DEF Boxes
    <2>2. box \in [Places -> [{0} \union Attempts -> {"none", "exited", "running"}]]
      BY DEF Init
    <2>3. [state |-> "none", at |-> NoId, exit |-> 0] \in Shells
      BY DEF Shells
    <2>4. shell = [a \in Attempts |-> [state |-> "none", at |-> NoId, exit |-> 0]]
      BY DEF Init
    <2> QED
      BY <2>1, <2>2, <2>3, <2>4
  <1>4. /\ ctx = "live" /\ tty = "none" /\ local \subseteq Places
        /\ missed = FALSE
    BY DEF Init
  <1>5. faults \in 0..MaxFaults
    BY <1>1, Sizes DEF Init
  <1> QED
    BY <1>1, <1>2, <1>3, <1>4, <1>5 DEF TypeOK

\* Each way in which the goroutine of Start writes its own state keeps its type.
LEMMA GotoTyped ==
    ASSUME TypeOK, NEW l \in JobLabels, Goto(l) PROVE job' \in Jobs
  BY DEF TypeOK, Jobs, Goto

\* Then moves to the next place, or on from the last one.
LEMMA ThenTyped ==
    ASSUME TypeOK, NEW l \in JobLabels PROVE Then(l) \in Jobs
  <1>1. /\ 1 \in Places /\ 0 \in 0..(PullRetry - 1)
        /\ job.place # Len(cmd.dockers) => job.place + 1 \in Places
    <2>1. /\ Places = 1 .. Len(cmd.dockers) /\ job.place \in Places
          /\ Len(cmd.dockers) \in Nat \ {0} /\ PullRetry \in Nat \ {0}
      BY Sizes DEF TypeOK, Jobs
    <2> QED
      BY <2>1
  <1>2. CASE job.place = Len(cmd.dockers)
    BY <1>1, <1>2 DEF Then, TypeOK, Jobs
  <1>3. CASE job.place # Len(cmd.dockers)
    BY <1>1, <1>3 DEF Then, TypeOK, Jobs
  <1> QED
    BY <1>2, <1>3

\* A panic goes to the clean-up of the first place.
LEMMA PanicTyped ==
    ASSUME TypeOK, NEW e \in {"error"} \union Over, Panic(e)
    PROVE  job' \in Jobs
  BY Sizes DEF TypeOK, Jobs, JobLabels, Panic

\* A status and an exit code end the attempt.
LEMMA EndedTyped ==
    ASSUME TypeOK, NEW s \in FinishStatuses,
           NEW o \in {"nil", "error"}, Ended(s, o, "loop")
    PROVE  job' \in Jobs
  BY DEF TypeOK, Jobs, JobLabels, Ended

\* The goroutine of Start writes its result, its place and its ids as they are
\* declared.
LEMMA JobTypeNext == ASSUME TypeOK, [Next]_vars PROVE job' \in Jobs
  <1>b. /\ job \in Jobs
        /\ JobLabels = ContextCalls \union
               {"attempt", "script", "tty", "ttyWait", "ttyDone", "finish",
                "cleanup", "handle", "loop", "done"}
        /\ ContextCalls = {"pull", "start", "create", "launch", "plugins",
                           "exec", "attach", "started", "poll"}
    BY DEF TypeOK, JobLabels, ContextCalls
  <1> USE <1>b
  <1>1. CASE DoStart
    <2>1. 1 \in Places /\ 0 \in 0..(PullRetry - 1)
      BY Sizes DEF TypeOK
    <2> QED
      BY <1>1, <2>1 DEF DoStart, Jobs
  <1>2. CASE PullNothing
    BY <1>2, PanicTyped DEF PullNothing
  <1>3. CASE PullImage
    BY <1>3, ThenTyped, PanicTyped DEF PullImage
  <1>4. CASE PullFails
    <2>1. CASE job.tries + 1 = PullRetry
      BY <1>4, <2>1, PanicTyped DEF PullFails
    <2>2. CASE job.tries + 1 # PullRetry
      <3>1. job.tries + 1 \in 0..(PullRetry - 1)
        <4>1. job.tries \in 0..(PullRetry - 1) /\ PullRetry \in Nat \ {0}
          BY Sizes DEF TypeOK, Jobs
        <4> QED
          BY <2>2, <4>1
      <3>2. job' = [job EXCEPT !.tries = @ + 1]
        BY <1>4, <2>2 DEF PullFails
      <3> QED
        BY <3>1, <3>2 DEF Jobs
    <2> QED
      BY <2>1, <2>2
  <1>5. CASE Resume
    BY <1>5, ThenTyped DEF Resume
  <1>6. CASE ResumeFails
    BY <1>6, GotoTyped DEF ResumeFails
  <1>7. CASE ResumeNothing
    BY <1>7, GotoTyped DEF ResumeNothing
  <1>8. CASE CreateContainer
    BY <1>8, GotoTyped DEF CreateContainer
  <1>9. CASE LaunchContainer
    <2>1. Attempt \in Attempts
      <3>1. job.left \in 0..Retry /\ Retry \in Nat
        BY Sizes DEF TypeOK, Jobs
      <3> QED
        BY <3>1 DEF Attempt, Attempts
    <2>2. Then("plugins") \in Jobs
      BY ThenTyped
    <2>3. job' = [Then("plugins") EXCEPT !.cid[job.place] = Attempt]
      BY <1>9 DEF LaunchContainer
    <2> QED
      BY <2>1, <2>2, <2>3 DEF Jobs
  <1>10. CASE CopyPlugins
    BY <1>10, GotoTyped DEF CopyPlugins
  <1>10a. CASE CreateExec
    BY <1>10a, GotoTyped DEF CreateExec
  <1>11. CASE ExecShell
    BY <1>11, GotoTyped DEF ExecShell
  <1>12. CASE AddressIsUnknown
    BY <1>12, PanicTyped DEF AddressIsUnknown
  <1>13. CASE WriteCmd
    BY <1>13, GotoTyped, PanicTyped DEF WriteCmd
  <1>14. CASE ToStartStatus
    BY <1>14 DEF ToStartStatus, Jobs
  <1>15. CASE WaitForExit
    BY <1>15, GotoTyped DEF WaitForExit
  <1>16. CASE IsInteracting
    BY <1>16, GotoTyped DEF IsInteracting
  <1>17. CASE WaitForTty
    BY <1>17, GotoTyped, PanicTyped DEF WaitForTty
  <1>18. CASE TtyDone
    BY <1>18, GotoTyped DEF TtyDone
  <1>19. CASE Finish
    BY <1>19, Sizes DEF Finish, TypeOK, Jobs, FinishStatuses
  <1>20. CASE ContextIsOver
    BY <1>20, PanicTyped DEF ContextIsOver, Over
  <1>21. CASE DaemonFails
    BY <1>21, PanicTyped DEF DaemonFails
  <1>22. CASE CleanUp
    BY <1>22, ThenTyped DEF Cleaned, CleanUp
  <1>23. CASE CleanUpFails
    BY <1>23, ThenTyped DEF Cleaned, CleanUpFails
  <1>24. CASE CleanUpNothing
    BY <1>24 DEF CleanUpNothing, Jobs
  <1>25. CASE HandleContext
    BY <1>25, EndedTyped DEF HandleContext, Over, FinishStatuses
  <1>26. CASE HandleError
    BY <1>26, EndedTyped DEF HandleError, Over, FinishStatuses
  <1>27. CASE Loop
    <2>1. CASE job' = [job EXCEPT !.pc = "attempt", !.left = @ - 1] /\ job.left > 0
      <3>1. job.left - 1 \in 0..Retry
        <4>1. job.left \in 0..Retry /\ Retry \in Nat
          BY Sizes DEF TypeOK, Jobs
        <4> QED
          BY <2>1, <4>1
      <3> QED
        BY <2>1, <3>1 DEF Jobs
    <2>2. CASE Goto("done")
      BY <2>2, GotoTyped
    <2> QED
      BY <1>27, <2>1, <2>2 DEF Loop, Goto
  <1>28. ASSUME NEW how \in Over, ContextEnds(how) PROVE job' \in Jobs
    BY <1>28 DEF ContextEnds
  <1>29. ASSUME NEW a \in Attempts, ShellWritesPid(a) PROVE job' \in Jobs
    BY <1>29 DEF ShellWritesPid
  <1>30. ASSUME NEW a \in Attempts, ShellExits(a) PROVE job' \in Jobs
    BY <1>30 DEF ShellExits
  <1>31. CASE OpenTty
    BY <1>31 DEF OpenTty
  <1>32. CASE CloseTty
    BY <1>32 DEF CloseTty
  <1>33. CASE UNCHANGED vars
    BY <1>33 DEF vars
  <1> QED
    BY <1>1, <1>2, <1>3, <1>4, <1>5, <1>6, <1>7, <1>8, <1>9, <1>10, <1>10a, <1>11,
       <1>12, <1>13, <1>14, <1>15, <1>16, <1>17, <1>18, <1>19, <1>20, <1>21,
       <1>22, <1>23, <1>24, <1>25, <1>26, <1>27, <1>28, <1>29, <1>30, <1>31,
       <1>32, <1>33
       DEF Next, StartSteps

\* Each way in which a bash changes keeps its type.
LEMMA ShellTyped ==
    ASSUME NEW s \in Shells, NEW code \in {0, 1}
    PROVE  /\ [s EXCEPT !.state = "running"] \in Shells
           /\ [s EXCEPT !.state = "exited", !.exit = code] \in Shells
  BY DEF Shells

\* Where a container goes when the daemon has changed its state.
LEMMA BecomesTyped ==
    ASSUME TypeOK, NEW p \in Places, NEW id \in {0} \union Attempts, NEW state \in Boxes,
           Becomes(p, id, state)
    PROVE  /\ box' \in [Places -> [{0} \union Attempts -> Boxes]]
           /\ shell' \in [Attempts -> Shells]
  <1>1. box' \in [Places -> [{0} \union Attempts -> Boxes]]
    <2>1. box' = [box EXCEPT ![p] = [box[p] EXCEPT ![id] = state]]
      BY DEF Becomes
    <2>2. [box[p] EXCEPT ![id] = state] \in [{0} \union Attempts -> Boxes]
      BY DEF TypeOK
    <2> QED
      BY <2>1, <2>2 DEF TypeOK
  <1>2. \A a \in Attempts : [shell[a] EXCEPT !.state = "exited", !.exit = 1] \in Shells
    BY ShellTyped DEF TypeOK
  <1> QED
    BY <1>1, <1>2 DEF Becomes, TypeOK

\* What a call that has failed may have done to a container: it was made, or
\* started without its id being kept, or the one with the id was restarted.
LEMMA FailedBox ==
    ASSUME TypeOK, ContextIsOver \/ DaemonFails
    PROVE  /\ box' \in [Places -> [{0} \union Attempts -> Boxes]]
           /\ \A q \in Places, a \in {0} \union Attempts :
                  \/ box'[q][a] = box[q][a]
                  \/ q = job.place /\ a = Attempt /\ job.pc = "create" /\ box'[q][a] = "created"
                  \/ q = job.place /\ a = Attempt /\ job.pc = "launch" /\ box'[q][a] = "adrift"
                  \/ /\ q = job.place /\ a = Id /\ job.pc = "start"
                     /\ box[q][a] = "exited" /\ box'[q][a] = "running"
  <1>1. /\ box \in [Places -> [{0} \union Attempts -> Boxes]]
        /\ job.place \in Places
        /\ Id \in {NoId, 0} \union Attempts
    BY Sizes DEF TypeOK, Jobs, Id
  <1>2. Attempt \in Attempts
    <2>1. job.left \in 0..Retry /\ Retry \in Nat
      BY Sizes DEF TypeOK, Jobs
    <2> QED
      BY <2>1 DEF Attempt, Attempts
  <1>3. \/ box' = box
        \/ \E id \in {0} \union Attempts, state \in Boxes :
              /\ box' = [box EXCEPT ![job.place] = [box[job.place] EXCEPT ![id] = state]]
              /\ \/ id = Attempt /\ job.pc = "create" /\ state = "created"
                 \/ id = Attempt /\ job.pc = "launch" /\ state = "adrift"
                 \/ /\ id = Id /\ job.pc = "start" /\ state = "running"
                    /\ box[job.place][Id] = "exited"
    BY <1>1, <1>2 DEF ContextIsOver, DaemonFails, DoneAnyway, CanResume, Boxes
  <1>4. CASE box' = box
    BY <1>1, <1>4
  <1>5. ASSUME NEW id \in {0} \union Attempts, NEW state \in Boxes,
               box' = [box EXCEPT ![job.place] = [box[job.place] EXCEPT ![id] = state]]
        PROVE  /\ box' \in [Places -> [{0} \union Attempts -> Boxes]]
               /\ \A q \in Places, a \in {0} \union Attempts :
                      box'[q][a] = IF q = job.place /\ a = id THEN state ELSE box[q][a]
    <2>1. [box[job.place] EXCEPT ![id] = state] \in [{0} \union Attempts -> Boxes]
      BY <1>1
    <2> QED
      BY <1>1, <1>5, <2>1
  <1>6. CASE box' # box
    <2>1. PICK id \in {0} \union Attempts, state \in Boxes :
              /\ box' = [box EXCEPT ![job.place] = [box[job.place] EXCEPT ![id] = state]]
              /\ \/ id = Attempt /\ job.pc = "create" /\ state = "created"
                 \/ id = Attempt /\ job.pc = "launch" /\ state = "adrift"
                 \/ /\ id = Id /\ job.pc = "start" /\ state = "running"
                    /\ box[job.place][Id] = "exited"
      BY <1>3, <1>6
    <2>2. /\ box' \in [Places -> [{0} \union Attempts -> Boxes]]
          /\ \A q \in Places, a \in {0} \union Attempts :
                 box'[q][a] = IF q = job.place /\ a = id THEN state ELSE box[q][a]
      BY <1>5, <2>1
    <2> QED
      BY <2>1, <2>2
  <1> QED
    BY <1>4, <1>6

\* The containers and the bash of each attempt stay in the states listed.
LEMMA DaemonTypeNext ==
    ASSUME TypeOK, [Next]_vars
    PROVE  /\ box' \in [Places -> [{0} \union Attempts -> Boxes]]
           /\ shell' \in [Attempts -> Shells]
  <1> DEFINE Typed == /\ box' \in [Places -> [{0} \union Attempts -> Boxes]]
                     /\ shell' \in [Attempts -> Shells]
  <1>a. /\ box \in [Places -> [{0} \union Attempts -> Boxes]]
        /\ shell \in [Attempts -> Shells]
    BY DEF TypeOK
  <1>b. /\ job.place \in Places /\ 1 \in Places
        /\ job.cid \in [Places -> {NoId, 0} \union Attempts]
        /\ Id \in {NoId, 0} \union Attempts
    BY Sizes DEF TypeOK, Jobs, Id
  <1>c. Attempt \in Attempts
    <2>1. job.left \in 0..Retry /\ Retry \in Nat
      BY Sizes DEF TypeOK, Jobs
    <2> QED
      BY <2>1 DEF Attempt, Attempts
  <1>d. \A a \in Attempts :
           /\ [shell[a] EXCEPT !.state = "running"] \in Shells
           /\ \A code \in {0, 1} :
                 [shell[a] EXCEPT !.state = "exited", !.exit = code] \in Shells
    BY <1>a, ShellTyped
  <1> USE <1>a, <1>b
  <1>1. CASE DoStart
    BY <1>1 DEF DoStart
  <1>2. CASE PullNothing
    BY <1>2 DEF PullNothing
  <1>3. CASE PullImage
    BY <1>3 DEF PullImage
  <1>4. CASE PullFails
    BY <1>4 DEF PullFails
  <1>5. CASE Resume
    BY <1>5, BecomesTyped DEF Resume, CanResume, Boxes
  <1>6. CASE ResumeFails
    <2>1. PICK state \in {"removed", "exited", "adrift"} : Becomes(job.place, Id, state)
      BY <1>6 DEF ResumeFails
    <2>2. state \in Boxes
      BY DEF Boxes
    <2>3. Id \in {0} \union Attempts
      BY <1>6 DEF ResumeFails, CanResume
    <2> QED
      BY ONLY TypeOK, <1>b, <2>1, <2>2, <2>3, BecomesTyped
  <1>7. CASE ResumeNothing
    BY <1>7 DEF ResumeNothing
  <1>8. CASE CreateContainer
    <2>1. [box[job.place] EXCEPT ![Attempt] = "created"] \in [{0} \union Attempts -> Boxes]
      BY <1>c DEF Boxes
    <2> QED
      BY <1>8, <2>1, <1>c DEF CreateContainer
  <1>9. CASE LaunchContainer
    <2>1. [box[job.place] EXCEPT ![Attempt] = "running"] \in [{0} \union Attempts -> Boxes]
      BY <1>c DEF Boxes
    <2> QED
      BY <1>9, <2>1, <1>c DEF LaunchContainer
  <1>10. CASE CopyPlugins
    BY <1>10 DEF CopyPlugins
  <1>10a. CASE CreateExec
    BY <1>10a DEF CreateExec
  <1>11. CASE ExecShell
    <2>1. [state |-> "starting", at |-> job.cid[1], exit |-> 0] \in Shells
      BY DEF Shells
    <2> QED
      BY <1>11, <2>1, <1>c DEF ExecShell
  <1>12. CASE AddressIsUnknown
    BY <1>12 DEF AddressIsUnknown
  <1>13. CASE WriteCmd
    BY <1>13 DEF WriteCmd
  <1>14. CASE ToStartStatus
    BY <1>14 DEF ToStartStatus
  <1>15. CASE WaitForExit
    BY <1>15 DEF WaitForExit
  <1>16. CASE IsInteracting
    BY <1>16 DEF IsInteracting
  <1>17. CASE WaitForTty
    BY <1>17 DEF WaitForTty
  <1>18. CASE TtyDone
    BY <1>18 DEF TtyDone
  <1>19. CASE Finish
    BY <1>19 DEF Finish
  <1>20. CASE ContextIsOver
    BY <1>20, FailedBox DEF ContextIsOver
  <1>21. CASE DaemonFails
    BY <1>21, FailedBox DEF DaemonFails
  <1>22. CASE CleanUp \/ CleanUpFails
    <2>1. ASSUME Disposes(job.place), Id # NoId, Dispose PROVE Typed
      <3> DEFINE state == IF box[job.place][Id] \in {"none", "removed"} THEN box[job.place][Id]
                         ELSE IF Option(job.place).delete THEN "removed" ELSE "exited"
      <3>1. state \in Boxes
        BY <2>1 DEF Boxes
      <3>2. Becomes(job.place, Id, state)
        BY <2>1 DEF Dispose
      <3> HIDE DEF state
      <3> QED
        BY <2>1, <3>1, <3>2, BecomesTyped
    <2>2. CASE UNCHANGED <<box, shell>>
      BY <2>2
    <2> QED
      BY <1>22, <2>1, <2>2 DEF CleanUp, CleanUpFails
  <1>24. CASE CleanUpNothing
    BY <1>24 DEF CleanUpNothing
  <1>25. CASE HandleContext
    <2>1. UNCHANGED box /\ \E reached \in BOOLEAN :
             shell' = [a \in Attempts |->
                        IF reached /\ shell[a].state = "running" /\ shell[a].at = job.cid[1]
                        THEN [shell[a] EXCEPT !.state = "exited", !.exit = 1]
                        ELSE shell[a]]
      BY <1>25 DEF HandleContext
    <2> QED
      BY <2>1, <1>d
  <1>26. CASE HandleError
    BY <1>26 DEF HandleError
  <1>27. CASE Loop
    BY <1>27 DEF Loop
  <1>28. ASSUME NEW how \in Over, ContextEnds(how) PROVE Typed
    BY <1>28 DEF ContextEnds
  <1>29. ASSUME NEW a \in Attempts, ShellWritesPid(a) PROVE Typed
    BY <1>29, <1>d DEF ShellWritesPid
  <1>30. ASSUME NEW a \in Attempts, ShellExits(a) PROVE Typed
    <2>1. PICK code \in {0, 1} :
             shell' = [shell EXCEPT ![a].state = "exited", ![a].exit = code]
      BY <1>30 DEF ShellExits
    <2> DEFINE s == [shell[a] EXCEPT !.state = "exited", !.exit = code]
    <2>2. s \in Shells
      BY <1>d
    <2>3. shell' = [shell EXCEPT ![a] = s]
      BY <2>1
    <2> HIDE DEF s
    <2> QED
      BY <1>30, <2>2, <2>3 DEF ShellExits
  <1>31. CASE OpenTty
    BY <1>31 DEF OpenTty
  <1>32. CASE CloseTty
    BY <1>32 DEF CloseTty
  <1>33. CASE UNCHANGED vars
    BY <1>33 DEF vars
  <1> QED
    BY <1>1, <1>2, <1>3, <1>4, <1>5, <1>6, <1>7, <1>8, <1>9, <1>10, <1>10a, <1>11,
       <1>12, <1>13, <1>14, <1>15, <1>16, <1>17, <1>18, <1>19, <1>20, <1>21,
       <1>22, <1>24, <1>25, <1>26, <1>27, <1>28, <1>29, <1>30, <1>31,
       <1>32, <1>33
       DEF Next, StartSteps

\* Start, the daemon, bash and the terminal keep the types.
LEMMA TypeNext == ASSUME TypeOK, [Next]_vars PROVE TypeOK'
  <1>1. cmd' = cmd /\ Places' = Places
    BY CmdStays
  <1>2. Jobs' = Jobs
    BY <1>1 DEF Jobs
  <1>3. (job \in Jobs)'
    BY <1>2, JobTypeNext
  <1>4. /\ (box \in [Places -> [{0} \union Attempts -> Boxes]])'
        /\ (shell \in [Attempts -> Shells])'
    BY <1>1, DaemonTypeNext
  <1>5. /\ ctx' \in {"live", "background"} \union Over
        /\ tty' \in {"none", "on", "off"}
        /\ local' \subseteq Places
        /\ faults' \in 0..MaxFaults
        /\ missed' \in BOOLEAN
    <2>1. /\ ctx \in {"live", "background"} \union Over
          /\ tty \in {"none", "on", "off"}
          /\ local \subseteq Places
          /\ faults \in 0..MaxFaults /\ MaxFaults \in Nat
          /\ missed \in BOOLEAN
          /\ job.place \in Places
      BY Sizes DEF TypeOK, Jobs
    <2>2. ctx' \in {ctx, "background"} \union Over
      BY DEF Next, StartSteps, vars, DoStart, PullNothing, PullImage, PullFails,
         Resume, ResumeFails, ResumeNothing, CreateContainer,
         LaunchContainer, CopyPlugins, CreateExec, ExecShell, AddressIsUnknown, WriteCmd,
         ToStartStatus, WaitForExit, IsInteracting, WaitForTty, TtyDone,
         Finish, ContextIsOver, DaemonFails, CleanUp, CleanUpFails,
         CleanUpNothing, HandleContext, HandleError, Loop, ContextEnds,
         ShellWritesPid, ShellExits, OpenTty, CloseTty
    <2>3. tty' \in {tty, "on", "off"}
      BY DEF Next, StartSteps, vars, DoStart, PullNothing, PullImage, PullFails,
         Resume, ResumeFails, ResumeNothing, CreateContainer,
         LaunchContainer, CopyPlugins, CreateExec, ExecShell, AddressIsUnknown, WriteCmd,
         ToStartStatus, WaitForExit, IsInteracting, WaitForTty, TtyDone,
         Finish, ContextIsOver, DaemonFails, CleanUp, CleanUpFails,
         CleanUpNothing, HandleContext, HandleError, Loop, ContextEnds,
         ShellWritesPid, ShellExits, OpenTty, CloseTty
    <2>4. local' \in {local, local \union {job.place}}
      BY DEF Next, StartSteps, vars, DoStart, PullNothing, PullImage, PullFails,
         Resume, ResumeFails, ResumeNothing, CreateContainer,
         LaunchContainer, CopyPlugins, CreateExec, ExecShell, AddressIsUnknown, WriteCmd,
         ToStartStatus, WaitForExit, IsInteracting, WaitForTty, TtyDone,
         Finish, ContextIsOver, DaemonFails, CleanUp, CleanUpFails,
         CleanUpNothing, HandleContext, HandleError, Loop, ContextEnds,
         ShellWritesPid, ShellExits, OpenTty, CloseTty
    <2>5. UNCHANGED faults \/ (faults > 0 /\ faults' = faults - 1)
      BY DEF Next, StartSteps, vars, DoStart, PullNothing, PullImage, PullFails,
         Resume, ResumeFails, ResumeNothing, CreateContainer,
         LaunchContainer, CopyPlugins, CreateExec, ExecShell, AddressIsUnknown, WriteCmd,
         ToStartStatus, WaitForExit, IsInteracting, WaitForTty, TtyDone,
         Finish, ContextIsOver, DaemonFails, CleanUp, CleanUpFails,
         CleanUpNothing, HandleContext, HandleError, Loop, ContextEnds,
         ShellWritesPid, ShellExits, OpenTty, CloseTty, Fault
    <2>6. missed' \in BOOLEAN
      BY <2>1 DEF Next, StartSteps, vars, DoStart, PullNothing, PullImage, PullFails,
         Resume, ResumeFails, ResumeNothing, CreateContainer,
         LaunchContainer, CopyPlugins, CreateExec, ExecShell, AddressIsUnknown, WriteCmd,
         ToStartStatus, WaitForExit, IsInteracting, WaitForTty, TtyDone,
         Finish, ContextIsOver, DaemonFails, CleanUp, CleanUpFails,
         CleanUpNothing, HandleContext, HandleError, Loop, ContextEnds,
         ShellWritesPid, ShellExits, OpenTty, CloseTty
    <2> QED
      BY <2>1, <2>2, <2>3, <2>4, <2>5, <2>6
  <1> QED
    BY <1>1, <1>3, <1>4, <1>5 DEF TypeOK

\* The state of Start, of the containers and of every bash keeps its type.
THEOREM TypeCorrect == Spec => []TypeOK
  BY TypeInit, TypeNext, PTL DEF Spec

-----------------------------------------------------------------------------
(***************************************************************************)
(* The places of configs                                                   *)
(***************************************************************************)
StartLabels == {"start", "create", "launch"}
ScriptLabels == {"script", "started", "poll"}
EndLabels == {"tty", "ttyWait", "ttyDone", "finish"}
RunLabels == {"plugins", "exec", "attach"} \union ScriptLabels \union EndLabels

\* A place without a configuration stops the images, so nothing behind them runs
\* when there is one, and no container is made; a container that the start has
\* passed has an id.
PlaceInv ==
    /\ job.pc = "pull" => \A p \in Places : p < job.place => Config(p) # Nil
    /\ job.pc \in StartLabels \union RunLabels \/ job.status \in {"RUNNING", "SUCCESS"}
           => NoHole
    /\ ~NoHole => \A p \in Places, a \in Attempts : box[p][a] = "none"
    /\ job.pc \in StartLabels => \A p \in Places : p < job.place => job.cid[p] # NoId
    /\ job.pc \in RunLabels => \A p \in Places : job.cid[p] # NoId

\* The counters of the goroutine as numbers.
LEMMA Numbers ==
    ASSUME TypeOK
    PROVE  /\ Places = 1 .. Len(cmd.dockers) /\ Len(cmd.dockers) \in Nat \ {0}
           /\ job.place \in Places /\ job.cid \in [Places -> {NoId, 0} \union Attempts]
           /\ Attempt \in Attempts /\ Attempts \subseteq Nat \ {0}
           /\ job.left \in 0..Retry /\ Retry \in Nat
  <1>1. /\ Places = 1 .. Len(cmd.dockers) /\ Len(cmd.dockers) \in Nat \ {0}
        /\ job.place \in Places /\ job.cid \in [Places -> {NoId, 0} \union Attempts]
        /\ job.left \in 0..Retry /\ Retry \in Nat
    BY Sizes DEF TypeOK, Jobs
  <1> QED
    BY <1>1 DEF Attempt, Attempts

\* What Then leaves of the state of the goroutine.
LEMMA ThenGoes ==
    ASSUME TypeOK, NEW l, job' = Then(l)
    PROVE  /\ job'.cid = job.cid /\ job'.left = job.left /\ job'.err = job.err
           /\ job'.status = job.status /\ job'.out = job.out
           /\ \/ /\ job.place = Len(cmd.dockers)
                 /\ job'.pc = l /\ job'.place = 1
              \/ /\ job.place # Len(cmd.dockers)
                 /\ job'.pc = job.pc /\ job'.place = job.place + 1
  BY DEF TypeOK, Jobs, Then

\* What a step to another label changes and keeps.
LEMMA GotoGoes ==
    ASSUME TypeOK, NEW l, Goto(l)
    PROVE  /\ job'.pc = l /\ job'.place = job.place
           /\ job'.cid = job.cid /\ job'.left = job.left /\ job'.err = job.err
           /\ job'.status = job.status /\ job'.out = job.out
  BY DEF TypeOK, Jobs, Goto

\* What a panic changes and keeps.
LEMMA PanicGoes ==
    ASSUME TypeOK, NEW e, Panic(e)
    PROVE  /\ job'.pc = "cleanup" /\ job'.place = 1 /\ job'.err = e
           /\ job'.cid = job.cid /\ job'.left = job.left
           /\ job'.status = job.status /\ job'.out = job.out
  BY DEF TypeOK, Jobs, Panic

\* What the end of a script changes and keeps.
LEMMA EndedGoes ==
    ASSUME TypeOK, NEW s, NEW o, NEW l, Ended(s, o, l)
    PROVE  /\ job'.pc = l /\ job'.status = s /\ job'.out = o
           /\ job'.place = job.place /\ job'.err = job.err
           /\ job'.cid = job.cid /\ job'.left = job.left
  BY DEF TypeOK, Jobs, Ended

\* The one container that a call to the daemon changes, and the bash that dies
\* with it.
LEMMA BoxGoes ==
    ASSUME TypeOK, NEW p \in Places, NEW id \in {0} \union Attempts, NEW state,
           box' = [box EXCEPT ![p][id] = state]
    PROVE  \A q \in Places, a \in {0} \union Attempts :
               box'[q][a] = IF q = p /\ a = id THEN state ELSE box[q][a]
  BY DEF TypeOK

\* The daemon changes the state of one container of one place.
LEMMA BecomesBox ==
    ASSUME TypeOK, NEW p \in Places, NEW id \in {0} \union Attempts, NEW state,
           Becomes(p, id, state)
    PROVE  \A q \in Places, a \in {0} \union Attempts :
               box'[q][a] = IF q = p /\ a = id THEN state ELSE box[q][a]
  <1>1. box' = [box EXCEPT ![p][id] = state]
    BY DEF Becomes
  <1> QED
    BY <1>1 DEF TypeOK

\* The bash that is alive in the runtime dies with its container, no other does.
LEMMA BecomesGoes ==
    ASSUME TypeOK, NEW p \in Places, NEW id \in {0} \union Attempts, NEW state,
           Becomes(p, id, state)
    PROVE  /\ \A q \in Places, a \in {0} \union Attempts :
                  box'[q][a] = IF q = p /\ a = id THEN state ELSE box[q][a]
           /\ \A a \in Attempts :
                  /\ shell'[a].at = shell[a].at
                  /\ ~Alive(shell[a]) => shell'[a] = shell[a]
                  /\ Alive(shell'[a]) <=>
                        /\ Alive(shell[a])
                        /\ shell[a].at = id => p # 1 \/ state = "running"
  <1>1. \A q \in Places, a \in {0} \union Attempts :
            box'[q][a] = IF q = p /\ a = id THEN state ELSE box[q][a]
    BY BecomesBox
  <1>2. ASSUME NEW a \in Attempts
        PROVE  /\ shell'[a].at = shell[a].at
               /\ ~Alive(shell[a]) => shell'[a] = shell[a]
               /\ Alive(shell'[a]) <=>
                     /\ Alive(shell[a])
                     /\ shell[a].at = id => p # 1 \/ state = "running"
    <2>1. shell[a] \in Shells
      BY DEF TypeOK
    <2>2. CASE p # 1 \/ state = "running"
      BY <2>2 DEF Becomes
    <2>3. CASE ~(p # 1 \/ state = "running")
      <3>1. shell'[a] = IF Alive(shell[a]) /\ shell[a].at = id
                        THEN [shell[a] EXCEPT !.state = "exited", !.exit = 1]
                        ELSE shell[a]
        BY <2>3 DEF Becomes
      <3>2. CASE Alive(shell[a]) /\ shell[a].at = id
        BY <2>1, <2>3, <3>1, <3>2 DEF Alive, Shells
      <3>3. CASE ~(Alive(shell[a]) /\ shell[a].at = id)
        BY <3>1, <3>3
      <3> QED
        BY <3>2, <3>3
    <2> QED
      BY <2>2, <2>3
  <1> QED
    BY <1>1, <1>2

\* The bash in the runtime dies when its container no longer runs.
LEMMA BashDies ==
    ASSUME TypeOK, 1 \in Places, NEW id \in {0} \union Attempts, NEW state,
           state # "running", Becomes(1, id, state), NEW a \in Attempts,
           shell[a].at = id
    PROVE  ~Alive(shell'[a])
  <1>1. Alive(shell'[a]) => (shell[a].at = id => 1 # 1 \/ state = "running")
    BY BecomesGoes
  <1> QED
    BY <1>1

\* No action takes the goroutine past a place without a configuration.
LEMMA PlaceNext == ASSUME TypeOK, PlaceInv, [Next]_vars PROVE PlaceInv'
  <1>a. /\ job \in Jobs
        /\ box \in [Places -> [{0} \union Attempts -> Boxes]]
    BY DEF TypeOK
  <1>b. /\ cmd' = cmd /\ Places' = Places /\ NoHole' = NoHole
        /\ \A p : Config(p)' = Config(p)
    BY CmdStays
  <1>c. /\ Places = 1 .. Len(cmd.dockers) /\ Len(cmd.dockers) \in Nat \ {0}
        /\ job.place \in Places /\ job.cid \in [Places -> {NoId, 0} \union Attempts]
        /\ Attempt \in Attempts /\ Attempts \subseteq Nat \ {0}
    BY Numbers
  <1> USE <1>a, <1>b, <1>c DEF PlaceInv
  <1>1. CASE DoStart
    BY <1>1 DEF DoStart, Jobs, StartLabels, RunLabels, ScriptLabels, EndLabels
  <1>2. CASE PullNothing
    <2>1. job.pc = "pull" /\ box' = box /\ Panic("error")
      BY <1>2 DEF PullNothing
    <2>2. job'.pc = "cleanup" /\ job'.cid = job.cid /\ job'.status = job.status
      BY <2>1, PanicGoes
    <2> QED
      BY <2>1, <2>2 DEF StartLabels, RunLabels, ScriptLabels, EndLabels
  <1>3. CASE PullImage
    <2>1. CASE job.tries = 0
      <3>1. job.pc = "pull" /\ Config(job.place) # Nil /\ job' = Then("start")
        BY <1>3, <2>1 DEF PullImage
      <3>2. \A p \in Places : p <= job.place => Config(p) # Nil
        BY <3>1
      <3>3. job'.pc = "start" => NoHole
        BY <3>1, <3>2, ThenGoes DEF NoHole
      <3> QED
        BY <1>3, <3>1, <3>2, <3>3, ThenGoes
           DEF PullImage, StartLabels, RunLabels, ScriptLabels, EndLabels
    <2>2. CASE job.tries # 0
      <3>1. Panic("error") /\ UNCHANGED box
        BY <1>3, <2>2 DEF PullImage
      <3> QED
        BY <3>1, PanicGoes DEF StartLabels, RunLabels, ScriptLabels, EndLabels
    <2> QED
      BY <2>1, <2>2
  <1>4. CASE PullFails
    <2>1. UNCHANGED box /\ (Panic("error") \/ job' = [job EXCEPT !.tries = @ + 1])
      BY <1>4 DEF PullFails
    <2>2. CASE Panic("error")
      BY <2>1, <2>2, PanicGoes DEF StartLabels, RunLabels, ScriptLabels, EndLabels
    <2>3. CASE job' = [job EXCEPT !.tries = @ + 1]
      BY <2>1, <2>3 DEF Jobs
    <2> QED
      BY <2>1, <2>2, <2>3
  <1>5. CASE Resume
    <2>1. NoHole /\ Id # NoId
      BY <1>5 DEF Resume, CanResume, StartLabels
    <2>2. job.pc = "start" /\ job' = Then("plugins")
      BY <1>5 DEF Resume
    <2> QED
      BY <2>1, <2>2, ThenGoes DEF Id, StartLabels, RunLabels, ScriptLabels, EndLabels
  <1>6. CASE ResumeFails
    BY <1>6, GotoGoes DEF ResumeFails, StartLabels, RunLabels, ScriptLabels, EndLabels
  <1>7. CASE ResumeNothing
    BY <1>7, GotoGoes DEF ResumeNothing, StartLabels, RunLabels, ScriptLabels, EndLabels
  <1>8. CASE CreateContainer
    BY <1>8, GotoGoes DEF CreateContainer, StartLabels, RunLabels, ScriptLabels, EndLabels
  <1>9. CASE LaunchContainer
    <2>1. /\ job'.cid = [job.cid EXCEPT ![job.place] = Attempt]
          /\ job'.left = job.left /\ job'.err = job.err
          /\ job'.status = job.status /\ job'.out = job.out
          /\ \/ /\ job.place = Len(cmd.dockers)
                /\ job'.pc = "plugins" /\ job'.place = 1
             \/ /\ job.place # Len(cmd.dockers)
                /\ job'.pc = job.pc /\ job'.place = job.place + 1
      BY <1>9 DEF LaunchContainer, Then, Jobs
    <2>2. \A q \in Places, a \in {0} \union Attempts :
               box'[q][a] = IF q = job.place /\ a = Attempt THEN "running" ELSE box[q][a]
      BY <1>9, BoxGoes DEF LaunchContainer
    <2>3. job.pc = "launch" /\ NoHole
      BY <1>9 DEF LaunchContainer, StartLabels
    <2>4. \A p \in Places : job'.cid[p] = IF p = job.place THEN Attempt ELSE job.cid[p]
      BY <2>1
    <2>5. Attempt # NoId
      BY DEF NoId
    <2>6. \/ job.place = Len(cmd.dockers) /\ job'.pc = "plugins"
          \/ job'.pc = "launch" /\ job'.place = job.place + 1
      BY <2>1, <2>3
    <2>7. \A p \in Places : p < job.place => job.cid[p] # NoId
      BY <2>3 DEF StartLabels
    <2>8. job'.pc \in StartLabels => \A p \in Places : p < job'.place => job'.cid[p] # NoId
      BY <2>4, <2>5, <2>6, <2>7 DEF StartLabels
    <2>9. job'.pc \in RunLabels => \A p \in Places : job'.cid[p] # NoId
      BY <2>4, <2>5, <2>6, <2>7 DEF RunLabels, ScriptLabels, EndLabels
    <2> QED
      BY <2>3, <2>6, <2>8, <2>9
  <1>10. CASE CopyPlugins
    BY <1>10, GotoGoes DEF CopyPlugins, StartLabels, RunLabels, ScriptLabels, EndLabels
  <1>10a. CASE CreateExec
    BY <1>10a, GotoGoes DEF CreateExec, StartLabels, RunLabels, ScriptLabels, EndLabels
  <1>11. CASE ExecShell
    BY <1>11, GotoGoes DEF ExecShell, StartLabels, RunLabels, ScriptLabels, EndLabels
  <1>12. CASE AddressIsUnknown
    BY <1>12, PanicGoes DEF AddressIsUnknown, StartLabels, RunLabels, ScriptLabels, EndLabels
  <1>13. CASE WriteCmd
    BY <1>13, GotoGoes, PanicGoes DEF WriteCmd, StartLabels, RunLabels, ScriptLabels, EndLabels
  <1>14. CASE ToStartStatus
    BY <1>14 DEF ToStartStatus, Jobs, StartLabels, RunLabels, ScriptLabels, EndLabels
  <1>15. CASE WaitForExit
    BY <1>15, GotoGoes DEF WaitForExit, StartLabels, RunLabels, ScriptLabels, EndLabels
  <1>16. CASE IsInteracting
    BY <1>16, GotoGoes DEF IsInteracting, StartLabels, RunLabels, ScriptLabels, EndLabels
  <1>17. CASE WaitForTty
    BY <1>17, GotoGoes, PanicGoes DEF WaitForTty, StartLabels, RunLabels, ScriptLabels, EndLabels
  <1>18. CASE TtyDone
    BY <1>18, GotoGoes DEF TtyDone, StartLabels, RunLabels, ScriptLabels, EndLabels
  <1>19. CASE Finish
    BY <1>19 DEF Finish, Jobs, StartLabels, RunLabels, ScriptLabels, EndLabels
  <1>20. CASE ContextIsOver
    BY <1>20, PanicGoes, FailedBox DEF ContextIsOver, StartLabels, RunLabels, ScriptLabels, EndLabels
  <1>21. CASE DaemonFails
    BY <1>21, PanicGoes, FailedBox DEF DaemonFails, StartLabels, RunLabels, ScriptLabels, EndLabels
  <1>22. CASE CleanUp \/ CleanUpFails
    <2>1. ~NoHole => \A p \in Places, a \in Attempts : box'[p][a] = "none"
      <3>1. ASSUME Disposes(job.place), Id # NoId, Dispose, ~NoHole
            PROVE  \A p \in Places, a \in Attempts : box'[p][a] = "none"
        <4>1. Id \in {0} \union Attempts
          BY <3>1 DEF Id
        <4>2. PICK state : /\ box[job.place][Id] = "none" => state = "none"
                          /\ Becomes(job.place, Id, state)
          BY <3>1 DEF Dispose
        <4>3. \A q \in Places, a \in {0} \union Attempts :
                  box'[q][a] = IF q = job.place /\ a = Id THEN state ELSE box[q][a]
          <5>1. Becomes(job.place, Id, state)
            BY <4>2
          <5>2. box' = [box EXCEPT ![job.place][Id] = state]
            BY <5>1 DEF Becomes
          <5>3. job.place \in Places
            BY <1>c
          <5>4. box \in [Places -> [{0} \union Attempts -> Boxes]]
            BY <1>a
          <5> QED
            BY <4>1, <5>2, <5>3, <5>4
        <4>4. \A q \in Places, a \in Attempts : box[q][a] = "none"
          BY <3>1 DEF PlaceInv
        <4> QED
          BY <4>2, <4>3, <4>4
      <3>2. CASE UNCHANGED box
        BY <3>2
      <3> QED
        BY <1>22, <3>1, <3>2 DEF CleanUp, CleanUpFails
    <2>2. job'.pc \in {"cleanup", "loop", "handle"}
      BY <1>22, ThenGoes DEF CleanUp, CleanUpFails, Cleaned
    <2> QED
      BY <1>22, <2>1, <2>2, ThenGoes
         DEF CleanUp, CleanUpFails, StartLabels, RunLabels, ScriptLabels, EndLabels
  <1>24. CASE CleanUpNothing
    BY <1>24 DEF CleanUpNothing, Jobs, StartLabels, RunLabels, ScriptLabels, EndLabels
  <1>25. CASE HandleContext
    <2>1. UNCHANGED box /\ \E s \in {"KILLED", "TIMEOUT"} : Ended(s, "nil", "loop")
      BY <1>25 DEF HandleContext
    <2> QED
      BY <2>1, EndedGoes DEF StartLabels, RunLabels, ScriptLabels, EndLabels
  <1>26. CASE HandleError
    BY <1>26, EndedGoes DEF HandleError, StartLabels, RunLabels, ScriptLabels, EndLabels
  <1>27. CASE Loop
    BY <1>27 DEF Loop, Jobs, StartLabels, RunLabels, ScriptLabels, EndLabels
  <1>28. ASSUME NEW how \in Over, ContextEnds(how) PROVE PlaceInv'
    BY <1>28 DEF ContextEnds, StartLabels, RunLabels, ScriptLabels, EndLabels
  <1>29. ASSUME NEW a \in Attempts, ShellWritesPid(a) PROVE PlaceInv'
    BY <1>29 DEF ShellWritesPid, StartLabels, RunLabels, ScriptLabels, EndLabels
  <1>30. ASSUME NEW a \in Attempts, ShellExits(a) PROVE PlaceInv'
    BY <1>30 DEF ShellExits, StartLabels, RunLabels, ScriptLabels, EndLabels
  <1>31. CASE OpenTty
    BY <1>31 DEF OpenTty, StartLabels, RunLabels, ScriptLabels, EndLabels
  <1>32. CASE CloseTty
    BY <1>32 DEF CloseTty, StartLabels, RunLabels, ScriptLabels, EndLabels
  <1>33. CASE UNCHANGED vars
    BY <1>33 DEF vars
  <1> QED
    BY <1>1, <1>2, <1>3, <1>4, <1>5, <1>6, <1>7, <1>8, <1>9, <1>10, <1>10a, <1>11,
       <1>12, <1>13, <1>14, <1>15, <1>16, <1>17, <1>18, <1>19, <1>20, <1>21,
       <1>22, <1>24, <1>25, <1>26, <1>27, <1>28, <1>29, <1>30, <1>31,
       <1>32, <1>33
       DEF Next, StartSteps

\* No container exists in the initial state.
LEMMA PlaceInit == Init => PlaceInv
  <1> SUFFICES ASSUME Init PROVE PlaceInv
    OBVIOUS
  <1>1. /\ job.pc = "attempt" /\ job.status = "PENDING"
        /\ \A p \in Places, a \in Attempts : box[p][a] = "none"
    BY DEF Init
  <1> QED
    BY <1>1 DEF PlaceInv, StartLabels, RunLabels, ScriptLabels, EndLabels

-----------------------------------------------------------------------------
(***************************************************************************)
(* The result                                                              *)
(***************************************************************************)
\* An error is what leads to the recovery and to nothing else; a script is over
\* when its exit code is read; SUCCESS is the status of a bash that has exited.
ResultInv ==
    /\ job.pc \notin {"attempt", "cleanup", "handle", "loop", "done"} => job.err = "none"
    /\ job.pc = "handle" => job.err # "none"
    /\ job.pc \in EndLabels => shell[Attempt].state = "exited"
    /\ job.status = "SUCCESS" =>
           /\ job.pc \in {"cleanup", "loop", "done"}
           /\ job.err = "none" /\ job.out = "nil"
           /\ shell[Attempt].state = "exited"
           /\ shell[Attempt].exit = 0 \/ cmd.allowFailure

\* A bash that has ended stays as it is, until an attempt starts another.
LEMMA DeadStays ==
    ASSUME TypeOK, [Next]_vars, NEW a \in Attempts, ~Alive(shell[a])
    PROVE  \/ shell'[a] = shell[a]
           \/ ExecShell /\ a = Attempt
  <1> DEFINE Stays == shell'[a] = shell[a] \/ (ExecShell /\ a = Attempt)
  <1>a. shell \in [Attempts -> Shells] /\ job.place \in Places /\ Attempt \in Attempts
    BY Numbers DEF TypeOK
  <1>b. Id # NoId => Id \in {0} \union Attempts
    BY Numbers DEF Id
  <1> USE <1>a, <1>b
  <1>1. CASE DoStart
    BY <1>1 DEF DoStart
  <1>2. CASE PullNothing
    BY <1>2 DEF PullNothing
  <1>3. CASE PullImage
    BY <1>3 DEF PullImage
  <1>4. CASE PullFails
    BY <1>4 DEF PullFails
  <1>5. CASE Resume
    BY <1>5, BecomesGoes DEF Resume, CanResume
  <1>6. CASE ResumeFails
    <2>1. Id # NoId /\ \E state : Becomes(job.place, Id, state)
      BY <1>6 DEF ResumeFails, CanResume
    <2> QED
      BY <2>1, BecomesGoes
  <1>7. CASE ResumeNothing
    BY <1>7 DEF ResumeNothing
  <1>8. CASE CreateContainer
    BY <1>8 DEF CreateContainer
  <1>9. CASE LaunchContainer
    BY <1>9 DEF LaunchContainer
  <1>10. CASE CopyPlugins
    BY <1>10 DEF CopyPlugins
  <1>10a. CASE CreateExec
    BY <1>10a DEF CreateExec
  <1>11. CASE ExecShell
    BY <1>11 DEF ExecShell
  <1>12. CASE AddressIsUnknown
    BY <1>12 DEF AddressIsUnknown
  <1>13. CASE WriteCmd
    BY <1>13 DEF WriteCmd
  <1>14. CASE ToStartStatus
    BY <1>14 DEF ToStartStatus
  <1>15. CASE WaitForExit
    BY <1>15 DEF WaitForExit
  <1>16. CASE IsInteracting
    BY <1>16 DEF IsInteracting
  <1>17. CASE WaitForTty
    BY <1>17 DEF WaitForTty
  <1>18. CASE TtyDone
    BY <1>18 DEF TtyDone
  <1>19. CASE Finish
    BY <1>19 DEF Finish
  <1>20. CASE ContextIsOver
    BY <1>20 DEF ContextIsOver
  <1>21. CASE DaemonFails
    BY <1>21 DEF DaemonFails
  <1>22. CASE CleanUp \/ CleanUpFails
    <2>1. \/ Id # NoId /\ \E state : Becomes(job.place, Id, state)
          \/ UNCHANGED shell
      BY <1>22 DEF CleanUp, CleanUpFails, Dispose
    <2> QED
      BY <2>1, BecomesGoes
  <1>24. CASE CleanUpNothing
    BY <1>24 DEF CleanUpNothing
  <1>25. CASE HandleContext
    BY <1>25 DEF HandleContext, Alive
  <1>26. CASE HandleError
    BY <1>26 DEF HandleError
  <1>27. CASE Loop
    BY <1>27 DEF Loop
  <1>28. ASSUME NEW how \in Over, ContextEnds(how) PROVE Stays
    BY <1>28 DEF ContextEnds
  <1>29. ASSUME NEW b \in Attempts, ShellWritesPid(b) PROVE Stays
    BY <1>29 DEF ShellWritesPid, Alive
  <1>30. ASSUME NEW b \in Attempts, ShellExits(b) PROVE Stays
    BY <1>30 DEF ShellExits, Alive
  <1>31. CASE OpenTty
    BY <1>31 DEF OpenTty
  <1>32. CASE CloseTty
    BY <1>32 DEF CloseTty
  <1>33. CASE UNCHANGED vars
    BY <1>33 DEF vars
  <1> QED
    BY <1>1, <1>2, <1>3, <1>4, <1>5, <1>6, <1>7, <1>8, <1>9, <1>10, <1>10a, <1>11,
       <1>12, <1>13, <1>14, <1>15, <1>16, <1>17, <1>18, <1>19, <1>20, <1>21,
       <1>22, <1>24, <1>25, <1>26, <1>27, <1>28, <1>29, <1>30, <1>31,
       <1>32, <1>33
       DEF Next, StartSteps

\* No action makes a success of a failure.
LEMMA ResultNext == ASSUME TypeOK, PlaceInv, ResultInv, [Next]_vars PROVE ResultInv'
  <1>a. /\ job \in Jobs
        /\ shell \in [Attempts -> Shells]
        /\ box \in [Places -> [{0} \union Attempts -> Boxes]]
    BY DEF TypeOK
  <1>b. /\ cmd' = cmd /\ Places' = Places /\ NoHole' = NoHole
        /\ \A p : Config(p)' = Config(p)
        /\ \A p : Option(p)' = Option(p)
        /\ \A p : Disposes(p)' = Disposes(p)
    BY CmdStays
  <1>c. /\ Places = 1 .. Len(cmd.dockers) /\ Len(cmd.dockers) \in Nat \ {0}
        /\ job.place \in Places /\ job.cid \in [Places -> {NoId, 0} \union Attempts]
        /\ Attempt \in Attempts /\ Attempts \subseteq Nat \ {0}
    BY Numbers
  <1>d. shell[Attempt].state = "exited" /\ job.pc # "attach" =>
            shell'[Attempt] = shell[Attempt]
    BY <1>c, DeadStays DEF Alive, ExecShell
  <1>e. job'.left = job.left => Attempt' = Attempt
    BY DEF Attempt
  <1> USE <1>a, <1>b, <1>d, <1>e DEF ResultInv
  <1>1. CASE DoStart
    BY <1>1 DEF DoStart, Jobs, EndLabels
  <1>2. CASE PullNothing
    BY <1>2, PanicGoes DEF PullNothing, EndLabels, Nil
  <1>3. CASE PullImage
    <2>1. job.pc = "pull" /\ (job' = Then("start") \/ Panic("error"))
      BY <1>3 DEF PullImage
    <2> QED
      BY <2>1, ThenGoes, PanicGoes DEF EndLabels
  <1>4. CASE PullFails
    <2>1. job.pc = "pull" /\ (Panic("error") \/ job' = [job EXCEPT !.tries = @ + 1])
      BY <1>4 DEF PullFails
    <2>2. CASE Panic("error")
      BY <2>1, <2>2, PanicGoes DEF EndLabels
    <2>3. CASE job' = [job EXCEPT !.tries = @ + 1]
      BY <2>1, <2>3 DEF Jobs, EndLabels
    <2> QED
      BY <2>1, <2>2, <2>3
  <1>5. CASE Resume
    BY <1>5, ThenGoes DEF Resume, EndLabels
  <1>6. CASE ResumeFails
    BY <1>6, GotoGoes DEF ResumeFails, EndLabels
  <1>7. CASE ResumeNothing
    BY <1>7, GotoGoes DEF ResumeNothing, EndLabels
  <1>8. CASE CreateContainer
    BY <1>8, GotoGoes DEF CreateContainer, EndLabels
  <1>9. CASE LaunchContainer
    <2>1. /\ job'.cid = [job.cid EXCEPT ![job.place] = Attempt]
          /\ job'.left = job.left /\ job'.err = job.err
          /\ job'.status = job.status /\ job'.out = job.out
          /\ \/ /\ job.place = Len(cmd.dockers)
                /\ job'.pc = "plugins" /\ job'.place = 1
             \/ /\ job.place # Len(cmd.dockers)
                /\ job'.pc = job.pc /\ job'.place = job.place + 1
      BY <1>9 DEF LaunchContainer, Then, Jobs
    <2> QED
      BY <1>9, <2>1 DEF LaunchContainer, EndLabels
  <1>10. CASE CopyPlugins
    BY <1>10, GotoGoes DEF CopyPlugins, EndLabels
  <1>10a. CASE CreateExec
    BY <1>10a, GotoGoes DEF CreateExec, EndLabels
  <1>11. CASE ExecShell
    BY <1>11, GotoGoes DEF ExecShell, EndLabels
  <1>12. CASE AddressIsUnknown
    BY <1>12, PanicGoes DEF AddressIsUnknown, EndLabels
  <1>13. CASE WriteCmd
    BY <1>13, GotoGoes, PanicGoes DEF WriteCmd, EndLabels
  <1>14. CASE ToStartStatus
    BY <1>14 DEF ToStartStatus, Jobs, EndLabels
  <1>15. CASE WaitForExit
    BY <1>15, GotoGoes DEF WaitForExit, EndLabels
  <1>16. CASE IsInteracting
    BY <1>16, GotoGoes DEF IsInteracting, EndLabels
  <1>17. CASE WaitForTty
    BY <1>17, GotoGoes, PanicGoes DEF WaitForTty, EndLabels
  <1>18. CASE TtyDone
    BY <1>18, GotoGoes DEF TtyDone, EndLabels
  <1>19. CASE Finish
    BY <1>19 DEF Finish, Jobs, EndLabels
  <1>20. CASE ContextIsOver
    BY <1>20, PanicGoes DEF ContextIsOver, EndLabels, ContextCalls
  <1>21. CASE DaemonFails
    BY <1>21, PanicGoes DEF DaemonFails, EndLabels, ContextCalls
  <1>22. CASE CleanUp
    BY <1>22, ThenGoes DEF CleanUp, EndLabels, Cleaned
  <1>23. CASE CleanUpFails
    BY <1>23, ThenGoes DEF CleanUpFails, EndLabels, Cleaned
  <1>24. CASE CleanUpNothing
    <2>1. job.status # "SUCCESS"
      BY <1>24, <1>c DEF CleanUpNothing, PlaceInv, NoHole
    <2> QED
      BY <1>24, <2>1 DEF CleanUpNothing, Jobs, EndLabels
  <1>25. CASE HandleContext
    <2>1. job.pc = "handle" /\ \E s \in {"KILLED", "TIMEOUT"} : Ended(s, "nil", "loop")
      BY <1>25 DEF HandleContext
    <2> QED
      BY <2>1, EndedGoes DEF EndLabels
  <1>26. CASE HandleError
    BY <1>26, EndedGoes DEF HandleError, EndLabels
  <1>27. CASE Loop
    BY <1>27 DEF Loop, Jobs, EndLabels
  <1>28. ASSUME NEW how \in Over, ContextEnds(how) PROVE ResultInv'
    BY <1>28 DEF ContextEnds, EndLabels
  <1>29. ASSUME NEW a \in Attempts, ShellWritesPid(a) PROVE ResultInv'
    BY <1>29 DEF ShellWritesPid, EndLabels
  <1>30. ASSUME NEW a \in Attempts, ShellExits(a) PROVE ResultInv'
    BY <1>30 DEF ShellExits, EndLabels
  <1>31. CASE OpenTty
    BY <1>31 DEF OpenTty, EndLabels
  <1>32. CASE CloseTty
    BY <1>32 DEF CloseTty, EndLabels
  <1>33. CASE UNCHANGED vars
    BY <1>33 DEF vars
  <1> QED
    BY <1>1, <1>2, <1>3, <1>4, <1>5, <1>6, <1>7, <1>8, <1>9, <1>10, <1>10a, <1>11,
       <1>12, <1>13, <1>14, <1>15, <1>16, <1>17, <1>18, <1>19, <1>20, <1>21,
       <1>22, <1>23, <1>24, <1>25, <1>26, <1>27, <1>28, <1>29, <1>30, <1>31,
       <1>32, <1>33
       DEF Next, StartSteps

\* No result is reported in the initial state.
LEMMA ResultInit == Init => ResultInv
  <1> SUFFICES ASSUME Init PROVE ResultInv
    OBVIOUS
  <1>1. job.pc = "attempt" /\ job.status = "PENDING"
    BY DEF Init
  <1> QED
    BY <1>1 DEF ResultInv, EndLabels

\* SUCCESS is earned: the types, the places and the result hold together.
THEOREM SuccessEarned == Spec => []SuccessIsEarned
  <1> DEFINE I == TypeOK /\ PlaceInv /\ ResultInv
  <1>1. Init => I
    BY TypeInit, PlaceInit, ResultInit
  <1>2. I /\ [Next]_vars => I'
    BY TypeNext, PlaceNext, ResultNext
  <1>3. I => SuccessIsEarned
    BY NoHoleIsIdentity DEF PlaceInv, ResultInv, SuccessIsEarned
  <1> QED
    BY <1>1, <1>2, <1>3, PTL DEF Spec

-----------------------------------------------------------------------------
(***************************************************************************)
(* One bash at a time                                                      *)
(***************************************************************************)
\* While its container is disposed of after each attempt, the only bash that may
\* be alive is the one of this attempt, in the container in use, until that has
\* been cleaned up.
ShellInv ==
    Disposes(1) /\ ~missed =>
        \A a \in Attempts : Alive(shell[a]) =>
            /\ a = Attempt
            /\ shell[a].at = job.cid[1] /\ job.cid[1] # NoId
            /\ \/ job.pc \in ScriptLabels \union EndLabels
               \/ job.pc = "cleanup" /\ job.place = 1

\* Only a new attempt begins with another number.
LEMMA AliveStays ==
    ASSUME TypeOK, [Next]_vars, NEW a \in Attempts, Alive(shell'[a]),
           ~(ExecShell /\ a = Attempt)
    PROVE  Alive(shell[a]) /\ shell'[a].at = shell[a].at
  <1> DEFINE Stays == Alive(shell[a]) /\ shell'[a].at = shell[a].at
  <1>a. shell \in [Attempts -> Shells] /\ job.place \in Places /\ Attempt \in Attempts
    BY Numbers DEF TypeOK
  <1>b. Id # NoId => Id \in {0} \union Attempts
    BY Numbers DEF Id
  <1>c. \A s \in Shells :
           /\ ~Alive([s EXCEPT !.state = "exited", !.exit = 1])
           /\ [s EXCEPT !.state = "exited", !.exit = 1].at = s.at
    BY DEF Shells, Alive
  <1> USE <1>a, <1>b
  <1>1. CASE DoStart
    BY <1>1 DEF DoStart
  <1>2. CASE PullNothing
    BY <1>2 DEF PullNothing
  <1>3. CASE PullImage
    BY <1>3 DEF PullImage
  <1>4. CASE PullFails
    BY <1>4 DEF PullFails
  <1>5. CASE Resume
    BY <1>5, BecomesGoes DEF Resume, CanResume
  <1>6. CASE ResumeFails
    <2>1. Id # NoId /\ \E state : Becomes(job.place, Id, state)
      BY <1>6 DEF ResumeFails, CanResume
    <2> QED
      BY <2>1, BecomesGoes
  <1>7. CASE ResumeNothing
    BY <1>7 DEF ResumeNothing
  <1>8. CASE CreateContainer
    BY <1>8 DEF CreateContainer
  <1>9. CASE LaunchContainer
    BY <1>9 DEF LaunchContainer
  <1>10. CASE CopyPlugins
    BY <1>10 DEF CopyPlugins
  <1>10a. CASE CreateExec
    BY <1>10a DEF CreateExec
  <1>11. CASE ExecShell
    BY <1>11 DEF ExecShell
  <1>12. CASE AddressIsUnknown
    BY <1>12 DEF AddressIsUnknown
  <1>13. CASE WriteCmd
    BY <1>13 DEF WriteCmd
  <1>14. CASE ToStartStatus
    BY <1>14 DEF ToStartStatus
  <1>15. CASE WaitForExit
    BY <1>15 DEF WaitForExit
  <1>16. CASE IsInteracting
    BY <1>16 DEF IsInteracting
  <1>17. CASE WaitForTty
    BY <1>17 DEF WaitForTty
  <1>18. CASE TtyDone
    BY <1>18 DEF TtyDone
  <1>19. CASE Finish
    BY <1>19 DEF Finish
  <1>20. CASE ContextIsOver
    BY <1>20 DEF ContextIsOver
  <1>21. CASE DaemonFails
    BY <1>21 DEF DaemonFails
  <1>22. CASE CleanUp \/ CleanUpFails
    <2>1. \/ Id # NoId /\ \E state : Becomes(job.place, Id, state)
          \/ UNCHANGED shell
      BY <1>22 DEF CleanUp, CleanUpFails, Dispose
    <2> QED
      BY <2>1, BecomesGoes
  <1>24. CASE CleanUpNothing
    BY <1>24 DEF CleanUpNothing
  <1>25. CASE HandleContext
    <2>1. shell'[a] \in {shell[a], [shell[a] EXCEPT !.state = "exited", !.exit = 1]}
      BY <1>25 DEF HandleContext
    <2> QED
      BY <2>1, <1>c
  <1>26. CASE HandleError
    BY <1>26 DEF HandleError
  <1>27. CASE Loop
    BY <1>27 DEF Loop
  <1>28. ASSUME NEW how \in Over, ContextEnds(how) PROVE Stays
    BY <1>28 DEF ContextEnds
  <1>29. ASSUME NEW b \in Attempts, ShellWritesPid(b) PROVE Stays
    BY <1>29 DEF ShellWritesPid, Alive, Shells
  <1>30. ASSUME NEW b \in Attempts, ShellExits(b) PROVE Stays
    BY <1>30 DEF ShellExits, Alive, Shells
  <1>31. CASE OpenTty
    BY <1>31 DEF OpenTty
  <1>32. CASE CloseTty
    BY <1>32 DEF CloseTty
  <1>33. CASE UNCHANGED vars
    BY <1>33 DEF vars
  <1> QED
    BY <1>1, <1>2, <1>3, <1>4, <1>5, <1>6, <1>7, <1>8, <1>9, <1>10, <1>10a, <1>11,
       <1>12, <1>13, <1>14, <1>15, <1>16, <1>17, <1>18, <1>19, <1>20, <1>21,
       <1>22, <1>24, <1>25, <1>26, <1>27, <1>28, <1>29, <1>30, <1>31,
       <1>32, <1>33
       DEF Next, StartSteps

\* Every way out of an attempt passes the clean-up of its container.
LEMMA ShellNext == ASSUME TypeOK, PlaceInv, ShellInv, [Next]_vars PROVE ShellInv'
  <1>a. /\ job \in Jobs
        /\ shell \in [Attempts -> Shells]
        /\ box \in [Places -> [{0} \union Attempts -> Boxes]]
    BY DEF TypeOK
  <1>b. /\ cmd' = cmd /\ Places' = Places /\ NoHole' = NoHole
        /\ \A p : Config(p)' = Config(p)
        /\ \A p : Option(p)' = Option(p)
        /\ \A p : Disposes(p)' = Disposes(p)
    BY CmdStays
  <1>c. /\ Places = 1 .. Len(cmd.dockers) /\ Len(cmd.dockers) \in Nat \ {0}
        /\ job.place \in Places /\ job.cid \in [Places -> {NoId, 0} \union Attempts]
        /\ Attempt \in Attempts /\ Attempts \subseteq Nat \ {0}
    BY Numbers
  <1>d. 1 \in Places /\ Config(1) # Nil
    BY RuntimeIsFirst
  <1>e. job'.left = job.left => Attempt' = Attempt
    BY DEF Attempt
  <1>f. ASSUME NEW a \in Attempts, Alive(shell'[a]), job.pc # "attach" \/ UNCHANGED job
        PROVE  Alive(shell[a]) /\ shell'[a].at = shell[a].at
    <2>1. ~ExecShell
      BY <1>a, <1>f DEF ExecShell, Goto, Jobs
    <2> QED
      BY <1>f, <2>1, AliveStays
  <1> USE <1>a, <1>b, <1>c, <1>d, <1>e, <1>f DEF ShellInv
  <1>1. CASE DoStart
    BY <1>1 DEF DoStart, Jobs, EndLabels, ScriptLabels
  <1>2. CASE PullNothing
    BY <1>2, PanicGoes DEF PullNothing, EndLabels, ScriptLabels
  <1>3. CASE PullImage
    BY <1>3, ThenGoes, PanicGoes DEF PullImage, EndLabels, ScriptLabels
  <1>4. CASE PullFails
    BY <1>4, PanicGoes DEF PullFails, Jobs, EndLabels, ScriptLabels
  <1>5. CASE Resume
    <2>1. job.pc = "start" /\ missed' = missed
      BY <1>5 DEF Resume
    <2> QED
      BY <2>1 DEF EndLabels, ScriptLabels
  <1>6. CASE ResumeFails
    <2>1. job.pc = "start" /\ missed' = missed
      BY <1>6 DEF ResumeFails
    <2> QED
      BY <2>1 DEF EndLabels, ScriptLabels
  <1>7. CASE ResumeNothing
    BY <1>7, GotoGoes DEF ResumeNothing, EndLabels, ScriptLabels
  <1>8. CASE CreateContainer
    BY <1>8, GotoGoes DEF CreateContainer, EndLabels, ScriptLabels
  <1>9. CASE LaunchContainer
    BY <1>9, ThenGoes DEF LaunchContainer, EndLabels, ScriptLabels
  <1>10. CASE CopyPlugins
    BY <1>10, GotoGoes DEF CopyPlugins, EndLabels, ScriptLabels
  <1>10a. CASE CreateExec
    BY <1>10a, GotoGoes DEF CreateExec, EndLabels, ScriptLabels
  <1>11. CASE ExecShell
    <2>1. ASSUME NEW a \in Attempts, Disposes(1) /\ ~missed, Alive(shell'[a])
          PROVE  a = Attempt
      <3>1. ~Alive(shell[a])
        BY <1>11, <2>1 DEF ExecShell, EndLabels, ScriptLabels
      <3> QED
        BY <2>1, <3>1, AliveStays
    <2>2. job.cid[1] # NoId
      BY <1>11 DEF ExecShell, PlaceInv, RunLabels
    <2>3. shell'[Attempt].at = job.cid[1]
      BY <1>11 DEF ExecShell
    <2>4. missed' = missed /\ job'.pc = "script" /\ job'.cid = job.cid /\ job'.left = job.left
      BY <1>11, GotoGoes DEF ExecShell
    <2> QED
      BY <2>1, <2>2, <2>3, <2>4 DEF ScriptLabels
  <1>12. CASE AddressIsUnknown
    BY <1>12, PanicGoes DEF AddressIsUnknown, EndLabels, ScriptLabels
  <1>13. CASE WriteCmd
    BY <1>13, GotoGoes, PanicGoes DEF WriteCmd, EndLabels, ScriptLabels
  <1>14. CASE ToStartStatus
    BY <1>14 DEF ToStartStatus, Jobs, EndLabels, ScriptLabels
  <1>15. CASE WaitForExit
    BY <1>15, GotoGoes DEF WaitForExit, EndLabels, ScriptLabels
  <1>16. CASE IsInteracting
    BY <1>16, GotoGoes DEF IsInteracting, EndLabels, ScriptLabels
  <1>17. CASE WaitForTty
    BY <1>17, GotoGoes, PanicGoes DEF WaitForTty, EndLabels, ScriptLabels
  <1>18. CASE TtyDone
    BY <1>18, GotoGoes DEF TtyDone, EndLabels, ScriptLabels
  <1>19. CASE Finish
    BY <1>19 DEF Finish, Jobs, EndLabels, ScriptLabels
  <1>20. CASE ContextIsOver
    BY <1>20, PanicGoes DEF ContextIsOver, EndLabels, ScriptLabels, ContextCalls
  <1>21. CASE DaemonFails
    BY <1>21, PanicGoes DEF DaemonFails, EndLabels, ScriptLabels, ContextCalls
  <1>22. CASE CleanUp
    <2>1. ASSUME NEW a \in Attempts, Disposes(1) /\ ~missed, Alive(shell'[a])
          PROVE  FALSE
      <3>1. Alive(shell[a]) /\ shell'[a].at = shell[a].at
        BY <1>22, <1>f, <2>1 DEF CleanUp
      <3>2. job.place = 1 /\ shell[a].at = job.cid[1] /\ job.cid[1] # NoId
        BY <1>22, <2>1, <3>1 DEF CleanUp, EndLabels, ScriptLabels
      <3>3. PICK state : state # "running" /\ Becomes(1, job.cid[1], state)
        BY <1>22, <2>1, <3>2 DEF CleanUp, Dispose, Id
      <3>4. job.cid[1] \in {0} \union Attempts
        BY <3>2
      <3>5. shell[a].at # job.cid[1]
        BY ONLY TypeOK, <1>d, <2>1, <3>3, <3>4, BashDies
      <3> QED
        BY <3>2, <3>5
    <2> QED
      BY <1>22, <2>1 DEF CleanUp
  <1>23. CASE CleanUpFails
    BY <1>23, ThenGoes DEF CleanUpFails, EndLabels, ScriptLabels, Cleaned
  <1>24. CASE CleanUpNothing
    BY <1>24 DEF CleanUpNothing, Jobs, EndLabels, ScriptLabels
  <1>25. CASE HandleContext
    <2>1. job.pc = "handle" /\ (missed => missed')
      BY <1>25 DEF HandleContext
    <2> QED
      BY <2>1 DEF EndLabels, ScriptLabels
  <1>26. CASE HandleError
    BY <1>26, EndedGoes DEF HandleError, EndLabels, ScriptLabels
  <1>27. CASE Loop
    BY <1>27 DEF Loop, Jobs, EndLabels, ScriptLabels
  <1>28. ASSUME NEW how \in Over, ContextEnds(how) PROVE ShellInv'
    BY <1>28 DEF ContextEnds, EndLabels, ScriptLabels
  <1>29. ASSUME NEW a \in Attempts, ShellWritesPid(a) PROVE ShellInv'
    BY <1>29 DEF ShellWritesPid, EndLabels, ScriptLabels
  <1>30. ASSUME NEW a \in Attempts, ShellExits(a) PROVE ShellInv'
    BY <1>30 DEF ShellExits, EndLabels, ScriptLabels
  <1>31. CASE OpenTty
    BY <1>31 DEF OpenTty, EndLabels, ScriptLabels
  <1>32. CASE CloseTty
    BY <1>32 DEF CloseTty, EndLabels, ScriptLabels
  <1>33. CASE UNCHANGED vars
    BY <1>33 DEF vars
  <1> QED
    BY <1>1, <1>2, <1>3, <1>4, <1>5, <1>6, <1>7, <1>8, <1>9, <1>10, <1>10a, <1>11,
       <1>12, <1>13, <1>14, <1>15, <1>16, <1>17, <1>18, <1>19, <1>20, <1>21,
       <1>22, <1>23, <1>24, <1>25, <1>26, <1>27, <1>28, <1>29, <1>30, <1>31,
       <1>32, <1>33
       DEF Next, StartSteps

\* No bash runs in the initial state.
LEMMA ShellInit == Init => ShellInv
  BY DEF Init, ShellInv, Alive

\* The script never runs twice at a time.
THEOREM OneShellAtATime == Spec => []OneShell
  <1> DEFINE I == TypeOK /\ PlaceInv /\ ShellInv
  <1>1. Init => I
    BY TypeInit, PlaceInit, ShellInit
  <1>2. I /\ [Next]_vars => I'
    BY TypeNext, PlaceNext, ShellNext
  <1>3. I => OneShell
    <2> SUFFICES ASSUME I, Disposes(1), ~missed
                 PROVE  Cardinality({a \in Attempts : Alive(shell[a])}) <= 1
      BY DEF OneShell
    <2>1. {a \in Attempts : Alive(shell[a])} \subseteq {Attempt}
      BY DEF ShellInv
    <2>2. IsFiniteSet({Attempt}) /\ Cardinality({Attempt}) = 1
      BY FS_Singleton
    <2> QED
      BY <2>1, <2>2, FS_Subset
  <1> QED
    BY <1>1, <1>2, <1>3, PTL DEF Spec

-----------------------------------------------------------------------------
(***************************************************************************)
(* What is left of the containers                                          *)
(***************************************************************************)
\* As long as every call of a clean-up has reached its container: one that is to
\* be deleted is not left behind once it has run, and one that is to be disposed
\* of runs only as the container in use of its place, between its start and its
\* clean-up.
BoxInv ==
    ~missed => \A p \in Places, a \in Attempts : Config(p) # Nil =>
        /\ Option(p).delete => box[p][a] # "exited"
        /\ Disposes(p) /\ box[p][a] = "running" =>
              /\ job.cid[p] = a
              /\ \/ job.pc \in StartLabels /\ p < job.place
                 \/ job.pc \in RunLabels
                 \/ job.pc = "cleanup" /\ job.place <= p

\* Every container that is started is started for an attempt that cleans up.
LEMMA BoxNext == ASSUME TypeOK, PlaceInv, BoxInv, [Next]_vars PROVE BoxInv'
  <1>a. /\ job \in Jobs
        /\ shell \in [Attempts -> Shells]
        /\ box \in [Places -> [{0} \union Attempts -> Boxes]]
    BY DEF TypeOK
  <1>b. /\ cmd' = cmd /\ Places' = Places /\ NoHole' = NoHole
        /\ \A p : Config(p)' = Config(p)
        /\ \A p : Option(p)' = Option(p)
        /\ \A p : Disposes(p)' = Disposes(p)
    BY CmdStays
  <1>c. /\ Places = 1 .. Len(cmd.dockers) /\ Len(cmd.dockers) \in Nat \ {0}
        /\ job.place \in Places /\ job.cid \in [Places -> {NoId, 0} \union Attempts]
        /\ Attempt \in Attempts /\ Attempts \subseteq Nat \ {0}
    BY Numbers
  <1>d. Id # NoId => Id \in {0} \union Attempts
    BY <1>c DEF Id
  <1> USE <1>a, <1>b, <1>c DEF BoxInv
  <1>1. CASE DoStart
    BY <1>1 DEF DoStart, Jobs, StartLabels, RunLabels, ScriptLabels, EndLabels
  <1>2. CASE PullNothing
    BY <1>2, PanicGoes DEF PullNothing, StartLabels, RunLabels, ScriptLabels, EndLabels
  <1>3. CASE PullImage
    <2>1. /\ job.pc = "pull" /\ (job' = Then("start") \/ Panic("error"))
          /\ UNCHANGED <<box, missed>>
      BY <1>3 DEF PullImage
    <2> QED
      BY <2>1, ThenGoes, PanicGoes DEF StartLabels, RunLabels, ScriptLabels, EndLabels
  <1>4. CASE PullFails
    <2>1. /\ job.pc = "pull" /\ (Panic("error") \/ job' = [job EXCEPT !.tries = @ + 1])
          /\ UNCHANGED <<box, missed>>
      BY <1>4 DEF PullFails
    <2>2. CASE Panic("error")
      BY <2>1, <2>2, PanicGoes DEF StartLabels, RunLabels, ScriptLabels, EndLabels
    <2>3. CASE job' = [job EXCEPT !.tries = @ + 1]
      BY <2>1, <2>3 DEF Jobs, StartLabels, RunLabels, ScriptLabels, EndLabels
    <2> QED
      BY <2>1, <2>2, <2>3
  <1>5. CASE Resume
    <2>1. /\ job.pc = "start" /\ missed' = missed
          /\ Id # NoId /\ box[job.place][Id] = "exited"
          /\ job' = Then("plugins")
      BY <1>5 DEF Resume, CanResume
    <2>4. PICK state : state = "running" /\ Becomes(job.place, Id, state)
      BY <1>5 DEF Resume
    <2>2. \A q \in Places, a \in {0} \union Attempts :
               box'[q][a] = IF q = job.place /\ a = Id THEN "running" ELSE box[q][a]
      <3>1. Id \in {0} \union Attempts
        BY <1>d, <2>1
      <3>2. box' = [box EXCEPT ![job.place][Id] = "running"]
        BY ONLY <2>4 DEF Becomes
      <3> QED
        BY ONLY <1>a, <1>c, <3>1, <3>2
    <2>3. /\ job'.cid = job.cid
          /\ \A p \in Places : p <= job.place =>
                (job'.pc = "start" /\ p < job'.place) \/ job'.pc = "plugins"
      BY <2>1, ThenGoes
    <2> QED
      BY <2>1, <2>2, <2>3 DEF Id, StartLabels, RunLabels, ScriptLabels, EndLabels
  <1>6. CASE ResumeFails
    <2>1. /\ job.pc = "start" /\ missed' = missed
          /\ Id # NoId /\ box[job.place][Id] = "exited" /\ Goto("create")
      BY <1>6 DEF ResumeFails, CanResume
    <2>2. PICK state \in {"removed", "exited", "adrift"} : Becomes(job.place, Id, state)
      BY <1>6 DEF ResumeFails
    <2>3. \A q \in Places, a \in {0} \union Attempts :
               box'[q][a] = IF q = job.place /\ a = Id THEN state ELSE box[q][a]
      <3>1. box' = [box EXCEPT ![job.place][Id] = state]
        BY ONLY <2>2 DEF Becomes
      <3> QED
        BY ONLY <1>a, <1>c, <1>d, <2>1, <3>1
    <2> QED
      BY <2>1, <2>2, <2>3, GotoGoes DEF Id, StartLabels, RunLabels, ScriptLabels, EndLabels
  <1>7. CASE ResumeNothing
    <2>1. job.pc = "start" /\ box' = box /\ missed' = missed /\ Goto("create")
      BY <1>7 DEF ResumeNothing
    <2>2. job'.pc = "create" /\ job'.place = job.place /\ job'.cid = job.cid
      BY <2>1, GotoGoes
    <2> QED
      BY <2>1, <2>2 DEF StartLabels, RunLabels, ScriptLabels, EndLabels
  <1>8. CASE CreateContainer
    <2>1. \A q \in Places, a \in {0} \union Attempts :
               box'[q][a] = IF q = job.place /\ a = Attempt THEN "created" ELSE box[q][a]
      BY <1>8, BoxGoes DEF CreateContainer
    <2>2. job.pc = "create" /\ missed' = missed /\ Goto("launch")
      BY <1>8 DEF CreateContainer
    <2>3. job'.pc = "launch" /\ job'.place = job.place /\ job'.cid = job.cid
      BY <2>2, GotoGoes
    <2>4. \A q \in Places, a \in Attempts : box'[q][a] \in {"created", box[q][a]}
      BY <2>1
    <2> QED
      BY <2>2, <2>3, <2>4 DEF StartLabels, RunLabels, ScriptLabels, EndLabels
  <1>9. CASE LaunchContainer
    <2>1. /\ job'.cid = [job.cid EXCEPT ![job.place] = Attempt]
          /\ job'.left = job.left /\ job'.err = job.err
          /\ job'.status = job.status /\ job'.out = job.out
          /\ \/ /\ job.place = Len(cmd.dockers)
                /\ job'.pc = "plugins" /\ job'.place = 1
             \/ /\ job.place # Len(cmd.dockers)
                /\ job'.pc = job.pc /\ job'.place = job.place + 1
      BY <1>9 DEF LaunchContainer, Then, Jobs
    <2>2. \A q \in Places, a \in {0} \union Attempts :
               box'[q][a] = IF q = job.place /\ a = Attempt THEN "running" ELSE box[q][a]
      BY <1>9, BoxGoes DEF LaunchContainer
    <2>3. job.pc = "launch" /\ missed' = missed
      BY <1>9 DEF LaunchContainer
    <2>4. \A p \in Places : job'.cid[p] = IF p = job.place THEN Attempt ELSE job.cid[p]
      BY <2>1
    <2>5. \A p \in Places : p <= job.place =>
              (job'.pc = "launch" /\ p < job'.place) \/ job'.pc = "plugins"
      BY <2>1, <2>3
    <2>6. ASSUME NEW p \in Places, NEW a \in Attempts, Config(p) # Nil, ~missed
          PROVE  /\ Option(p).delete => box'[p][a] # "exited"
                 /\ Disposes(p) /\ box'[p][a] = "running" =>
                       /\ job'.cid[p] = a
                       /\ (job'.pc = "launch" /\ p < job'.place) \/ job'.pc = "plugins"
      <3>1. CASE p = job.place /\ a = Attempt
        BY <2>2, <2>4, <2>5, <3>1
      <3>2. CASE ~(p = job.place /\ a = Attempt)
        <4>1. box'[p][a] = box[p][a]
          BY <2>2, <3>2
        <4>2. Disposes(p) /\ box[p][a] = "running" => job.cid[p] = a /\ p < job.place
          BY <2>3, <2>6 DEF StartLabels, RunLabels, ScriptLabels, EndLabels
        <4> QED
          BY <2>4, <2>5, <2>6, <4>1, <4>2
      <3> QED
        BY <3>1, <3>2
    <2> QED
      BY <2>3, <2>6 DEF StartLabels, RunLabels, ScriptLabels, EndLabels
  <1>10. CASE CopyPlugins
    BY <1>10, GotoGoes DEF CopyPlugins, StartLabels, RunLabels, ScriptLabels, EndLabels
  <1>10a. CASE CreateExec
    BY <1>10a, GotoGoes DEF CreateExec, StartLabels, RunLabels, ScriptLabels, EndLabels
  <1>11. CASE ExecShell
    BY <1>11, GotoGoes DEF ExecShell, StartLabels, RunLabels, ScriptLabels, EndLabels
  <1>12. CASE AddressIsUnknown
    BY <1>12, PanicGoes DEF AddressIsUnknown, StartLabels, RunLabels, ScriptLabels, EndLabels
  <1>13. CASE WriteCmd
    BY <1>13, GotoGoes, PanicGoes DEF WriteCmd, StartLabels, RunLabels, ScriptLabels, EndLabels
  <1>14. CASE ToStartStatus
    BY <1>14 DEF ToStartStatus, Jobs, StartLabels, RunLabels, ScriptLabels, EndLabels
  <1>15. CASE WaitForExit
    BY <1>15, GotoGoes DEF WaitForExit, StartLabels, RunLabels, ScriptLabels, EndLabels
  <1>16. CASE IsInteracting
    BY <1>16, GotoGoes DEF IsInteracting, StartLabels, RunLabels, ScriptLabels, EndLabels
  <1>17. CASE WaitForTty
    BY <1>17, GotoGoes, PanicGoes DEF WaitForTty, StartLabels, RunLabels, ScriptLabels, EndLabels
  <1>18. CASE TtyDone
    BY <1>18, GotoGoes DEF TtyDone, StartLabels, RunLabels, ScriptLabels, EndLabels
  <1>19. CASE Finish
    BY <1>19 DEF Finish, Jobs, StartLabels, RunLabels, ScriptLabels, EndLabels
  <1>20. CASE ContextIsOver
    <2>1. /\ job.pc \in ContextCalls /\ missed' = missed
          /\ job'.pc = "cleanup" /\ job'.place = 1 /\ job'.cid = job.cid
      BY <1>20, PanicGoes DEF ContextIsOver
    <2>2. \A q \in Places, a \in {0} \union Attempts :
              \/ box'[q][a] = box[q][a]
              \/ q = job.place /\ a = Attempt /\ job.pc = "create" /\ box'[q][a] = "created"
              \/ q = job.place /\ a = Attempt /\ job.pc = "launch" /\ box'[q][a] = "adrift"
              \/ /\ q = job.place /\ a = job.cid[q] /\ job.pc = "start"
                 /\ box[q][a] = "exited" /\ box'[q][a] = "running"
      BY <1>20, FailedBox DEF Id
    <2> QED
      BY <2>1, <2>2 DEF StartLabels, RunLabels, ScriptLabels, EndLabels, ContextCalls
  <1>21. CASE DaemonFails
    <2>1. /\ job.pc \in ContextCalls /\ missed' = missed
          /\ job'.pc = "cleanup" /\ job'.place = 1 /\ job'.cid = job.cid
      BY <1>21, PanicGoes DEF DaemonFails
    <2>2. \A q \in Places, a \in {0} \union Attempts :
              \/ box'[q][a] = box[q][a]
              \/ q = job.place /\ a = Attempt /\ job.pc = "create" /\ box'[q][a] = "created"
              \/ q = job.place /\ a = Attempt /\ job.pc = "launch" /\ box'[q][a] = "adrift"
              \/ /\ q = job.place /\ a = job.cid[q] /\ job.pc = "start"
                 /\ box[q][a] = "exited" /\ box'[q][a] = "running"
      BY <1>21, FailedBox DEF Id
    <2> QED
      BY <2>1, <2>2 DEF StartLabels, RunLabels, ScriptLabels, EndLabels, ContextCalls
  <1>22. CASE CleanUp
    <2>1. /\ job.pc = "cleanup" /\ missed' = missed /\ job' = Then(Cleaned)
          /\ Config(job.place) # Nil
      BY <1>22 DEF CleanUp
    <2>2. ASSUME NEW p \in Places, NEW a \in Attempts, Config(p) # Nil, ~missed
          PROVE  /\ Option(p).delete => box'[p][a] # "exited"
                 /\ Disposes(p) /\ box'[p][a] = "running" =>
                       /\ job.cid[p] = a
                       /\ job.place < p
      <3>1. /\ Option(p).delete => box[p][a] # "exited"
            /\ Disposes(p) /\ box[p][a] = "running" => job.cid[p] = a /\ job.place <= p
        BY <2>1, <2>2 DEF StartLabels, RunLabels, ScriptLabels, EndLabels
      <3>2. CASE Disposes(job.place) /\ Id # NoId
        <4>1. PICK state : /\ Becomes(job.place, Id, state)
                           /\ state # "running"
                           /\ Option(job.place).delete => state # "exited"
          BY <1>22, <3>2 DEF CleanUp, Dispose
        <4>2. box'[p][a] = IF p = job.place /\ a = Id THEN state ELSE box[p][a]
          <5>1. Id \in {0} \union Attempts
            BY <1>d, <3>2
          <5>2. a \in {0} \union Attempts
            OBVIOUS
          <5>3. \A q \in Places, b \in {0} \union Attempts :
                   box'[q][b] = IF q = job.place /\ b = Id THEN state ELSE box[q][b]
            <6>1. box' = [box EXCEPT ![job.place][Id] = state]
              BY ONLY <4>1 DEF Becomes
            <6> QED
              BY ONLY <1>a, <1>c, <5>1, <6>1
          <5> QED
            BY <2>2, <5>2, <5>3
        <4> QED
          BY <3>1, <4>1, <4>2 DEF Id
      <3>3. CASE ~(Disposes(job.place) /\ Id # NoId)
        <4>1. box' = box
          BY <1>22, <3>3 DEF CleanUp
        <4>2. job.cid[p] = a => p # job.place \/ ~Disposes(p)
          BY <3>3 DEF Id, NoId
        <4> QED
          BY <3>1, <4>1, <4>2
      <3> QED
        BY <3>2, <3>3
    <2>3. /\ job'.cid = job.cid
          /\ \/ job'.pc = "cleanup" /\ job'.place = job.place + 1
             \/ job.place = Len(cmd.dockers)
      BY <2>1, ThenGoes
    <2>4. \A p \in Places : job.place < p => job'.pc = "cleanup" /\ job'.place <= p
      BY <2>3
    <2> QED
      BY <2>1, <2>2, <2>3, <2>4
  <1>23. CASE CleanUpFails
    BY <1>23 DEF CleanUpFails
  <1>24. CASE CleanUpNothing
    <2>1. \A p \in Places, a \in Attempts : box[p][a] = "none"
      BY <1>24 DEF CleanUpNothing, PlaceInv, NoHole
    <2> QED
      BY <1>24, <2>1 DEF CleanUpNothing
  <1>25. CASE HandleContext
    <2>1. /\ job.pc = "handle" /\ (missed => missed') /\ UNCHANGED box
          /\ \E s : Ended(s, "nil", "loop")
      BY <1>25 DEF HandleContext
    <2> QED
      BY <2>1, EndedGoes DEF StartLabels, RunLabels, ScriptLabels, EndLabels
  <1>26. CASE HandleError
    BY <1>26, EndedGoes DEF HandleError, StartLabels, RunLabels, ScriptLabels, EndLabels
  <1>27. CASE Loop
    BY <1>27 DEF Loop, Jobs, StartLabels, RunLabels, ScriptLabels, EndLabels
  <1>28. ASSUME NEW how \in Over, ContextEnds(how) PROVE BoxInv'
    BY <1>28 DEF ContextEnds, StartLabels, RunLabels, ScriptLabels, EndLabels
  <1>29. ASSUME NEW a \in Attempts, ShellWritesPid(a) PROVE BoxInv'
    BY <1>29 DEF ShellWritesPid, StartLabels, RunLabels, ScriptLabels, EndLabels
  <1>30. ASSUME NEW a \in Attempts, ShellExits(a) PROVE BoxInv'
    BY <1>30 DEF ShellExits, StartLabels, RunLabels, ScriptLabels, EndLabels
  <1>31. CASE OpenTty
    BY <1>31 DEF OpenTty, StartLabels, RunLabels, ScriptLabels, EndLabels
  <1>32. CASE CloseTty
    BY <1>32 DEF CloseTty, StartLabels, RunLabels, ScriptLabels, EndLabels
  <1>33. CASE UNCHANGED vars
    BY <1>33 DEF vars
  <1> QED
    BY <1>1, <1>2, <1>3, <1>4, <1>5, <1>6, <1>7, <1>8, <1>9, <1>10, <1>10a, <1>11,
       <1>12, <1>13, <1>14, <1>15, <1>16, <1>17, <1>18, <1>19, <1>20, <1>21,
       <1>22, <1>23, <1>24, <1>25, <1>26, <1>27, <1>28, <1>29, <1>30, <1>31,
       <1>32, <1>33
       DEF Next, StartSteps

\* No container runs in the initial state.
LEMMA BoxInit == Init => BoxInv
  BY DEF Init, BoxInv

\* As long as every call has been answered, the context has not ended, no
\* container is adrift, and one that is made is about to be started.
AnsweredInv ==
    AllCallsAnswered =>
        /\ ctx = "live" /\ job.err \notin Over
        /\ \A p \in Places, a \in {0} \union Attempts :
              /\ box[p][a] # "adrift"
              /\ box[p][a] = "created" => job.pc = "launch" /\ p = job.place /\ a = Attempt

\* Nothing takes the goroutine from the creation of a container to anything but
\* its start, unless a call fails.
LEMMA AnsweredNext == ASSUME TypeOK, AnsweredInv, [Next]_vars PROVE AnsweredInv'
  <1>a. /\ job \in Jobs /\ faults \in 0 .. MaxFaults /\ MaxFaults \in Nat
        /\ box \in [Places -> [{0} \union Attempts -> Boxes]]
        /\ Places' = Places
    BY CmdStays, DockerAssumption DEF TypeOK, DockerAssumption
  <1>c. /\ job.place \in Places /\ job.cid \in [Places -> {NoId, 0} \union Attempts]
        /\ Attempt \in Attempts /\ Attempts \subseteq {0} \union Attempts
        /\ job'.left = job.left => Attempt' = Attempt
    BY Numbers DEF Attempt
  <1>d. Id # NoId => Id \in {0} \union Attempts
    BY <1>c DEF Id
  <1>e. Fault => ~AllCallsAnswered'
    BY <1>a DEF Fault, AllCallsAnswered
  <1>f. "none" \notin Over /\ "error" \notin Over
    BY DEF Over
  <1>1. ASSUME box' = box, job.pc # "launch", UNCHANGED <<ctx, faults, stopAt>>,
               job'.err \in {job.err, "none", "error"}
        PROVE  AnsweredInv'
    BY <1>a, <1>f, <1>1 DEF AllCallsAnswered, AnsweredInv
  <1>2. CASE \/ DoStart \/ PullNothing \/ PullImage \/ ResumeNothing \/ CopyPlugins
             \/ CreateExec \/ ExecShell \/ WriteCmd \/ ToStartStatus \/ WaitForExit
             \/ IsInteracting \/ WaitForTty \/ TtyDone \/ Finish
             \/ CleanUpNothing \/ HandleError \/ Loop
    <2>1. /\ UNCHANGED <<box, ctx, faults, stopAt>> /\ job.pc # "launch"
          /\ \/ job' = job \/ \E e \in {"none", "error"} : job'.err = e
             \/ job'.err = job.err
      BY <1>a, <1>2
         DEF DoStart, PullNothing, PullImage, ResumeNothing, CopyPlugins, CreateExec,
             ExecShell, WriteCmd, ToStartStatus, WaitForExit, IsInteracting, WaitForTty,
             TtyDone, Finish, CleanUpNothing, HandleError, Loop, Goto, Then, Panic,
             Ended, Jobs
    <2> QED
      BY <1>1, <2>1
  <1>3. CASE PullFails \/ ResumeFails \/ DaemonFails \/ CleanUpFails
    BY <1>e, <1>3 DEF PullFails, ResumeFails, DaemonFails, CleanUpFails, AnsweredInv
  <1>4. CASE AddressIsUnknown \/ ContextIsOver
    BY <1>e, <1>4 DEF AddressIsUnknown, ContextIsOver, AllCallsAnswered, AnsweredInv, Over
  <1>g. ASSUME NEW id \in {0} \union Attempts, NEW state,
               box' = [box EXCEPT ![job.place][id] = state],
               UNCHANGED <<ctx, faults, stopAt>>, job'.err = job.err,
               AllCallsAnswered =>
                   /\ state # "adrift"
                   /\ state = "created" =>
                         /\ job'.pc = "launch" /\ job'.place = job.place
                         /\ id = Attempt'
                   /\ job.pc = "launch" => id = Attempt /\ state = "running"
        PROVE  AnsweredInv'
    <2> SUFFICES ASSUME AllCallsAnswered', NEW q \in Places, NEW a \in {0} \union Attempts
                 PROVE  /\ ctx' = "live" /\ job'.err \notin Over
                        /\ box'[q][a] # "adrift"
                        /\ box'[q][a] = "created" =>
                              job'.pc = "launch" /\ q = job'.place /\ a = Attempt'
      BY <1>a, <1>c DEF AnsweredInv
    <2>1. AllCallsAnswered
      BY <1>g DEF AllCallsAnswered
    <2>2. /\ ctx = "live" /\ job.err \notin Over
          /\ box[q][a] # "adrift"
          /\ box[q][a] = "created" => job.pc = "launch" /\ q = job.place /\ a = Attempt
      BY <2>1 DEF AnsweredInv
    <2>3. box'[q][a] = IF q = job.place /\ a = id THEN state ELSE box[q][a]
      BY ONLY <1>a, <1>c, <1>g
    <2> QED
      BY <1>g, <2>1, <2>2, <2>3
  <1>5. CASE Resume
    <2>1. /\ job.pc = "start" /\ Id # NoId /\ UNCHANGED <<ctx, faults, stopAt>>
          /\ job'.err = job.err
      BY <1>a, <1>5 DEF Resume, CanResume, Then, Jobs
    <2>2. PICK state : state = "running" /\ Becomes(job.place, Id, state)
      BY <1>5 DEF Resume
    <2>3. box' = [box EXCEPT ![job.place][Id] = state]
      BY ONLY <2>2 DEF Becomes
    <2> QED
      BY <1>d, <1>g, <2>1, <2>2, <2>3
  <1>6. CASE CreateContainer
    <2>1. /\ job.pc = "create" /\ UNCHANGED <<ctx, faults, stopAt>>
          /\ job'.pc = "launch" /\ job'.place = job.place /\ Attempt' = Attempt
          /\ job'.err = job.err
      BY <1>a, <1>c, <1>6 DEF CreateContainer, Goto, Jobs
    <2>2. box' = [box EXCEPT ![job.place][Attempt] = "created"]
      BY <1>6 DEF CreateContainer
    <2> QED
      BY <1>c, <1>g, <2>1, <2>2
  <1>7. CASE LaunchContainer
    <2>1. UNCHANGED <<ctx, faults, stopAt>> /\ job'.err = job.err
      BY <1>a, <1>7 DEF LaunchContainer, Then, Jobs
    <2>2. box' = [box EXCEPT ![job.place][Attempt] = "running"]
      BY <1>7 DEF LaunchContainer
    <2> QED
      BY <1>c, <1>g, <2>1, <2>2
  <1>8. CASE CleanUp
    <2>1. /\ job.pc = "cleanup" /\ UNCHANGED <<ctx, faults, stopAt>>
          /\ job'.err = job.err
      BY <1>a, <1>8 DEF CleanUp, Then, Jobs
    <2>2. CASE Disposes(job.place) /\ Id # NoId
      <3>1. PICK state : /\ \/ state \notin {"created", "adrift"}
                            \/ state = box[job.place][Id]
                         /\ Becomes(job.place, Id, state)
        BY <1>8, <2>2 DEF CleanUp, Dispose
      <3>2. box' = [box EXCEPT ![job.place][Id] = state]
        BY ONLY <3>1 DEF Becomes
      <3>3. Id \in {0} \union Attempts
        BY <1>d, <2>2
      <3>4. AllCallsAnswered => state \notin {"created", "adrift"}
        BY <1>c, <2>1, <3>1, <3>3 DEF AnsweredInv
      <3> QED
        BY <1>g, <2>1, <3>2, <3>3, <3>4
    <2>3. CASE box' = box
      BY <1>1, <2>1, <2>3
    <2> QED
      BY <1>8, <2>2, <2>3 DEF CleanUp
  <1>9. CASE HandleContext
    <2>1. /\ job.pc = "handle" /\ UNCHANGED <<box, stopAt>>
          /\ UNCHANGED faults \/ Fault
          /\ job.err \in Over
      BY <1>9 DEF HandleContext
    <2> QED
      BY <1>e, <2>1 DEF AllCallsAnswered, AnsweredInv
  <1>10. ASSUME NEW how \in Over, ContextEnds(how) PROVE AnsweredInv'
    BY <1>a, <1>10
       DEF ContextEnds, AllCallsAnswered, AnsweredInv, Jobs, JobLabels, ContextCalls
  <1>11. ASSUME UNCHANGED <<job, ctx, box, faults, stopAt>> PROVE AnsweredInv'
    BY <1>a, <1>11 DEF AllCallsAnswered, AnsweredInv, Attempt
  <1>12. ASSUME NEW a \in Attempts, ShellWritesPid(a) \/ ShellExits(a) PROVE AnsweredInv'
    BY <1>11, <1>12 DEF ShellWritesPid, ShellExits
  <1>13. CASE OpenTty \/ CloseTty \/ UNCHANGED vars
    BY <1>11, <1>13 DEF OpenTty, CloseTty, vars
  <1> QED
    BY <1>2, <1>3, <1>4, <1>5, <1>6, <1>7, <1>8, <1>9, <1>10, <1>12, <1>13
       DEF Next, StartSteps

\* No container has been made in the initial state.
LEMMA AnsweredInit == Init => AnsweredInv
  BY DEF Init, AnsweredInv, Over

\* No container is left that the executor has the id of and is to stop or to
\* delete, and none at all if every call was answered.
THEOREM ContainersCleaned == Spec => []NoContainerLeft
  <1> DEFINE I == TypeOK /\ PlaceInv /\ BoxInv /\ AnsweredInv
  <1>1. Init => I
    BY TypeInit, PlaceInit, BoxInit, AnsweredInit
  <1>2. I /\ [Next]_vars => I'
    BY TypeNext, PlaceNext, BoxNext, AnsweredNext
  <1>3. I => NoContainerLeft
    <2> SUFFICES ASSUME I, job.pc = "done", ~missed,
                        NEW p \in Places, Config(p) # Nil, NEW a \in Attempts
                 PROVE  /\ Disposes(p) => box[p][a] # "running"
                        /\ Option(p).delete =>
                              box[p][a] \in {"none", "created", "adrift", "removed"}
                        /\ AllCallsAnswered => box[p][a] \notin {"created", "adrift"}
      BY DEF NoContainerLeft
    <2>1. box[p][a] \in Boxes
      BY DEF TypeOK
    <2>2. Disposes(p) => box[p][a] # "running"
      BY DEF BoxInv, StartLabels, RunLabels, ScriptLabels, EndLabels
    <2>3. AllCallsAnswered => box[p][a] \notin {"created", "adrift"}
      BY DEF AnsweredInv
    <2> QED
      BY <2>1, <2>2, <2>3 DEF BoxInv, Boxes, Disposes
  <1> QED
    BY <1>1, <1>2, <1>3, PTL DEF Spec

-----------------------------------------------------------------------------
(***************************************************************************)
(* A kill and a timeout                                                    *)
(***************************************************************************)
\* A status of KILLED or TIMEOUT is the last one, and comes with the death of the
\* bash in the container in use; a context that ends before a call is noticed by
\* that call, and its error is kept to the recovery.
KillInv ==
    /\ job.status \in {"KILLED", "TIMEOUT"} =>
           /\ job.pc \in {"loop", "done"} /\ job.out = "nil"
           /\ ~missed => \A a \in Attempts : shell[a].at = job.cid[1] => ~Alive(shell[a])
    /\ NoHole /\ stopAt \in ContextCalls =>
           \/ job.pc = stopAt /\ ctx \in Over
           \/ job.pc \in {"cleanup", "handle"} /\ job.err \in Over
           \/ job.pc \in {"loop", "done"} /\ job.status \in {"KILLED", "TIMEOUT"}

\* No action takes back a kill, nor lets it be forgotten.
LEMMA KillNext == ASSUME TypeOK, ResultInv, KillInv, [Next]_vars PROVE KillInv'
  <1>a. /\ job \in Jobs
        /\ shell \in [Attempts -> Shells]
        /\ box \in [Places -> [{0} \union Attempts -> Boxes]]
    BY DEF TypeOK
  <1>b. /\ cmd' = cmd /\ Places' = Places /\ NoHole' = NoHole
        /\ \A p : Config(p)' = Config(p)
        /\ \A p : Option(p)' = Option(p)
        /\ \A p : Disposes(p)' = Disposes(p)
    BY CmdStays
  <1>c. /\ Places = 1 .. Len(cmd.dockers) /\ Len(cmd.dockers) \in Nat \ {0}
        /\ job.place \in Places /\ job.cid \in [Places -> {NoId, 0} \union Attempts]
        /\ Attempt \in Attempts /\ Attempts \subseteq Nat \ {0}
    BY Numbers
  <1>d. ASSUME NEW a \in Attempts, Alive(shell'[a]), job.pc # "attach" \/ UNCHANGED job
        PROVE  Alive(shell[a]) /\ shell'[a].at = shell[a].at
    <2>1. ~ExecShell
      BY <1>a, <1>d DEF ExecShell, Goto, Jobs
    <2> QED
      BY <1>d, <2>1, AliveStays
  <1> USE <1>a, <1>b, <1>c, <1>d DEF KillInv, ContextCalls, Over
  <1>1. CASE DoStart
    BY <1>1 DEF DoStart, Jobs
  <1>2. CASE PullNothing
    <2>1. job.pc = "pull" /\ ~NoHole /\ Panic("error")
      BY <1>2 DEF PullNothing, NoHole
    <2> QED
      BY <2>1, PanicGoes
  <1>3. CASE PullImage
    <2>1. job.pc = "pull" /\ ctx \notin Over /\ UNCHANGED <<stopAt, missed>>
      BY <1>3 DEF PullImage
    <2>2. job.status \notin {"KILLED", "TIMEOUT"} /\ ~(NoHole /\ stopAt \in ContextCalls)
      BY <2>1
    <2>3. job'.status = job.status
      BY <1>3, ThenGoes, PanicGoes DEF PullImage
    <2> QED
      BY <2>1, <2>2, <2>3
  <1>4. CASE PullFails
    <2>1. job.pc = "pull" /\ ctx \notin Over /\ UNCHANGED <<stopAt, missed>>
      BY <1>4 DEF PullFails
    <2>2. job.status \notin {"KILLED", "TIMEOUT"} /\ ~(NoHole /\ stopAt \in ContextCalls)
      BY <2>1
    <2>3. Panic("error") \/ job' = [job EXCEPT !.tries = @ + 1]
      BY <1>4 DEF PullFails
    <2>4. job'.status = job.status
      BY <2>3, PanicGoes DEF Jobs
    <2> QED
      BY <2>1, <2>2, <2>4
  <1>5. CASE Resume
    BY <1>5, ThenGoes DEF Resume
  <1>6. CASE ResumeFails
    BY <1>6, GotoGoes DEF ResumeFails
  <1>7. CASE ResumeNothing
    BY <1>7, GotoGoes DEF ResumeNothing
  <1>8. CASE CreateContainer
    BY <1>8, GotoGoes DEF CreateContainer
  <1>9. CASE LaunchContainer
    <2>1. /\ job'.cid = [job.cid EXCEPT ![job.place] = Attempt]
          /\ job'.left = job.left /\ job'.err = job.err
          /\ job'.status = job.status /\ job'.out = job.out
          /\ \/ /\ job.place = Len(cmd.dockers)
                /\ job'.pc = "plugins" /\ job'.place = 1
             \/ /\ job.place # Len(cmd.dockers)
                /\ job'.pc = job.pc /\ job'.place = job.place + 1
      BY <1>9 DEF LaunchContainer, Then, Jobs
    <2>2. job.pc = "launch" /\ ctx \notin Over /\ UNCHANGED <<stopAt, missed>>
      BY <1>9 DEF LaunchContainer
    <2> QED
      BY <2>1, <2>2
  <1>10. CASE CopyPlugins
    BY <1>10, GotoGoes DEF CopyPlugins
  <1>10a. CASE CreateExec
    BY <1>10a, GotoGoes DEF CreateExec
  <1>11. CASE ExecShell
    BY <1>11, GotoGoes DEF ExecShell
  <1>12. CASE AddressIsUnknown
    BY <1>12, PanicGoes DEF AddressIsUnknown
  <1>13. CASE WriteCmd
    BY <1>13, GotoGoes, PanicGoes DEF WriteCmd
  <1>14. CASE ToStartStatus
    BY <1>14 DEF ToStartStatus, Jobs
  <1>15. CASE WaitForExit
    BY <1>15, GotoGoes DEF WaitForExit
  <1>16. CASE IsInteracting
    BY <1>16, GotoGoes DEF IsInteracting
  <1>17. CASE WaitForTty
    BY <1>17, GotoGoes, PanicGoes DEF WaitForTty
  <1>18. CASE TtyDone
    BY <1>18, GotoGoes DEF TtyDone
  <1>19. CASE Finish
    BY <1>19 DEF Finish, Jobs
  <1>20. CASE ContextIsOver
    BY <1>20, PanicGoes DEF ContextIsOver
  <1>21. CASE DaemonFails
    BY <1>21, PanicGoes DEF DaemonFails
  <1>22. CASE CleanUp
    BY <1>22, ThenGoes DEF CleanUp, Cleaned
  <1>23. CASE CleanUpFails
    BY <1>23, ThenGoes DEF CleanUpFails, Cleaned
  <1>24. CASE CleanUpNothing
    <2>1. job.pc = "cleanup" /\ ~NoHole /\ job'.status = job.status
      BY <1>24 DEF CleanUpNothing, NoHole, Jobs
    <2> QED
      BY <2>1
  <1>25. CASE HandleContext
    <2>1. /\ job.pc = "handle" /\ UNCHANGED stopAt
          /\ \E s \in {"KILLED", "TIMEOUT"} : Ended(s, "nil", "loop")
      BY <1>25 DEF HandleContext
    <2>2. ~missed' => \A a \in Attempts : shell'[a].at = job.cid[1] => ~Alive(shell'[a])
      <3>1. PICK reached \in BOOLEAN :
               /\ shell' = [a \in Attempts |->
                      IF reached /\ shell[a].state = "running" /\ shell[a].at = job.cid[1]
                      THEN [shell[a] EXCEPT !.state = "exited", !.exit = 1]
                      ELSE shell[a]]
               /\ missed' = (missed \/ ~reached \/ \E a \in Attempts : shell[a].state = "starting")
        BY <1>25 DEF HandleContext
      <3>2. ASSUME ~missed', NEW a \in Attempts, shell'[a].at = job.cid[1]
            PROVE  ~Alive(shell'[a])
        <4>1. reached /\ shell[a].state # "starting" /\ shell[a] \in Shells
          BY <3>1, <3>2
        <4>2. CASE shell[a].state = "running" /\ shell[a].at = job.cid[1]
          <5>1. shell'[a] = [shell[a] EXCEPT !.state = "exited", !.exit = 1]
            BY <3>1, <4>1, <4>2
          <5> QED
            BY <4>1, <5>1 DEF Shells, Alive
        <4>3. CASE ~(shell[a].state = "running" /\ shell[a].at = job.cid[1])
          <5>1. shell'[a] = shell[a]
            BY <3>1, <4>3
          <5> QED
            BY <3>2, <4>1, <4>3, <5>1 DEF Alive
        <4> QED
          BY <4>2, <4>3
      <3> QED
        BY <3>2
    <2> QED
      BY <2>1, <2>2, EndedGoes
  <1>26. CASE HandleError
    BY <1>26, EndedGoes DEF HandleError
  <1>27. CASE Loop
    BY <1>27 DEF Loop, Jobs
  <1>28. ASSUME NEW how \in Over, ContextEnds(how) PROVE KillInv'
    BY <1>28 DEF ContextEnds
  <1>29. ASSUME NEW a \in Attempts, ShellWritesPid(a) PROVE KillInv'
    BY <1>29 DEF ShellWritesPid
  <1>30. ASSUME NEW a \in Attempts, ShellExits(a) PROVE KillInv'
    BY <1>30 DEF ShellExits
  <1>31. CASE OpenTty
    BY <1>31 DEF OpenTty
  <1>32. CASE CloseTty
    BY <1>32 DEF CloseTty
  <1>33. CASE UNCHANGED vars
    BY <1>33 DEF vars
  <1> QED
    BY <1>1, <1>2, <1>3, <1>4, <1>5, <1>6, <1>7, <1>8, <1>9, <1>10, <1>10a, <1>11,
       <1>12, <1>13, <1>14, <1>15, <1>16, <1>17, <1>18, <1>19, <1>20, <1>21,
       <1>22, <1>23, <1>24, <1>25, <1>26, <1>27, <1>28, <1>29, <1>30, <1>31,
       <1>32, <1>33
       DEF Next, StartSteps

\* Nothing is killed in the initial state.
LEMMA KillInit == Init => KillInv
  <1> SUFFICES ASSUME Init PROVE KillInv
    OBVIOUS
  <1>1. job.status = "PENDING" /\ stopAt = "none"
    BY DEF Init
  <1> QED
    BY <1>1 DEF KillInv, ContextCalls

KillIInv == TypeOK /\ PlaceInv /\ ResultInv /\ KillInv

\* The invariants about a kill together are inductive.
LEMMA KillInductive == KillIInv /\ [Next]_vars => KillIInv'
  BY TypeNext, PlaceNext, ResultNext, KillNext DEF KillIInv

\* A command that is reported as killed or timed out has no bash left in its
\* container.
THEOREM KillReaches == Spec => []KillReachesShell
  <1>1. Init => KillIInv
    BY TypeInit, PlaceInit, ResultInit, KillInit DEF KillIInv
  <1>2. KillIInv => KillReachesShell
    BY DEF KillIInv, KillInv, KillReachesShell
  <1> QED
    BY <1>1, <1>2, KillInductive, PTL DEF Spec

\* A kill or a timeout that a call with the context can notice is reported.
THEOREM KillReported == Spec => []KilledIsReported
  <1>1. Init => KillIInv
    BY TypeInit, PlaceInit, ResultInit, KillInit DEF KillIInv
  <1>2. KillIInv => KilledIsReported
    BY DEF KillIInv, KillInv, KilledIsReported, ContextCalls, NoHole
  <1> QED
    BY <1>1, <1>2, KillInductive, PTL DEF Spec

\* The status of a killed command is final and no bash is started after it.
THEOREM KillFinal == Spec => KilledIsFinal
  <1>1. Init => KillIInv
    BY TypeInit, PlaceInit, ResultInit, KillInit DEF KillIInv
  <1>2. ASSUME KillIInv, [Next]_vars, job.status \in {"KILLED", "TIMEOUT"}
        PROVE  /\ job'.status = job.status
               /\ \A a \in Attempts : Alive(shell[a])' => Alive(shell[a])
    <2>1. TypeOK /\ job \in Jobs /\ job.pc \in {"loop", "done"}
      BY <1>2 DEF KillIInv, KillInv, TypeOK
    <2>2. ~ExecShell
      BY <2>1 DEF ExecShell
    <2>3. \A a \in Attempts : Alive(shell'[a]) => Alive(shell[a])
      BY <1>2, <2>1, <2>2, AliveStays
    <2>4. job'.status = job.status
      BY <1>2, <2>1 DEF Next, StartSteps, vars, DoStart, PullNothing, PullImage, PullFails,
         Resume, ResumeFails, ResumeNothing, CreateContainer,
         LaunchContainer, CopyPlugins, CreateExec, ExecShell, AddressIsUnknown, WriteCmd,
         ToStartStatus, WaitForExit, IsInteracting, WaitForTty, TtyDone,
         Finish, ContextIsOver, DaemonFails, CleanUp, CleanUpFails,
         CleanUpNothing, HandleContext, HandleError, Loop, ContextEnds,
         ShellWritesPid, ShellExits, OpenTty, CloseTty, ContextCalls, Jobs
    <2> QED
      BY <2>3, <2>4
  <1>3. KillIInv /\ [Next]_vars
            => [job.status \in {"KILLED", "TIMEOUT"} =>
                  /\ job'.status = job.status
                  /\ \A a \in Attempts : Alive(shell[a])' => Alive(shell[a])]_vars
    BY <1>2
  <1> QED
    BY <1>1, <1>3, KillInductive, PTL DEF Spec, KilledIsFinal

-----------------------------------------------------------------------------
(***************************************************************************)
(* The refinement of ExecutorProtocol                                      *)
(***************************************************************************)
FreshLabels == {"attempt", "pull", "plugins", "exec", "attach"} \union StartLabels

\* What the recovery relies on: a bash belongs to the attempt that started it,
\* the error of the context is why the context has ended, the context is good
\* again only after a kill, and an attempt that ends has a verdict.
VerdictInv ==
    /\ \A a \in Attempts :
           a > Attempt \/ (a = Attempt /\ job.pc \in FreshLabels) => shell[a].state = "none"
    /\ job.pc \in {"cleanup", "handle"} /\ job.err \in Over => ctx = job.err
    /\ ctx = "background" => job.status \in {"KILLED", "TIMEOUT"}
    /\ job.pc = "cleanup" /\ job.err = "none" => job.status \in {"SUCCESS", "EXCEPTION"}
    /\ job.pc \in {"loop", "done"} => job.status \in FinishStatuses
    /\ job.pc = "done" /\ job.status = "EXCEPTION" => job.left = 0

\* A new executor has started no bash.
LEMMA VerdictInit == Init => VerdictInv
  <1> SUFFICES ASSUME Init PROVE VerdictInv
    OBVIOUS
  <1>1. /\ job.pc = "attempt" /\ ctx = "live"
        /\ \A a \in Attempts : shell[a].state = "none"
    BY DEF Init
  <1> QED
    BY <1>1 DEF VerdictInv

\* No action makes a verdict up, or gives up a command that may be tried again.
LEMMA VerdictNext ==
    ASSUME TypeOK, ResultInv, KillInv, VerdictInv, [Next]_vars PROVE VerdictInv'
  <1>a. /\ job \in Jobs
        /\ shell \in [Attempts -> Shells]
    BY DEF TypeOK
  <1>c. /\ job.place \in Places /\ Attempt \in Attempts
        /\ Attempts = 1..(Retry + 1) /\ Attempt = Retry + 1 - job.left
        /\ job.left \in 0..Retry /\ Retry \in Nat
    BY Numbers DEF Attempts, Attempt
  <1>d. \A a \in Attempts : shell[a].state = "none" =>
            shell'[a] = shell[a] \/ (ExecShell /\ a = Attempt)
    BY DeadStays DEF Alive
  <1>e. Attempt' = Retry + 1 - job'.left
    BY DEF Attempt
  <1>f. /\ StartLabels = {"start", "create", "launch"}
        /\ FreshLabels = {"attempt", "pull", "plugins", "exec", "attach", "start",
                           "create", "launch"}
    BY DEF FreshLabels, StartLabels
  <1> USE <1>a, <1>c, <1>d, <1>e, <1>f DEF VerdictInv
  <1>1. CASE DoStart
    BY <1>1 DEF DoStart, ExecShell, Goto, Jobs
  <1>2. CASE PullNothing
    BY <1>2, PanicGoes DEF PullNothing, Over
  <1>3. CASE PullImage
    <2>1. /\ job.pc = "pull" /\ UNCHANGED <<ctx, shell>>
          /\ job' = Then("start") \/ Panic("error")
      BY <1>3 DEF PullImage
    <2>2. CASE job' = Then("start")
      BY <2>1, <2>2, ThenGoes
    <2>3. CASE Panic("error")
      BY <2>1, <2>3, PanicGoes DEF Over
    <2> QED
      BY <2>1, <2>2, <2>3
  <1>4. CASE PullFails
    <2>1. /\ job.pc = "pull" /\ UNCHANGED <<ctx, shell>>
          /\ Panic("error") \/ job' = [job EXCEPT !.tries = @ + 1]
      BY <1>4 DEF PullFails
    <2>2. CASE Panic("error")
      BY <2>1, <2>2, PanicGoes DEF Over
    <2>3. CASE job' = [job EXCEPT !.tries = @ + 1]
      BY <2>1, <2>3 DEF Jobs
    <2> QED
      BY <2>1, <2>2, <2>3
  <1>5. CASE Resume
    BY <1>5, ThenGoes DEF Resume, ExecShell
  <1>6. CASE ResumeFails
    BY <1>6, GotoGoes DEF ResumeFails, ExecShell
  <1>7. CASE ResumeNothing
    BY <1>7, GotoGoes DEF ResumeNothing, ExecShell
  <1>8. CASE CreateContainer
    BY <1>8, GotoGoes DEF CreateContainer
  <1>9. CASE LaunchContainer
    <2>1. /\ job'.left = job.left /\ job'.err = job.err
          /\ job'.status = job.status /\ job'.pc \in {"plugins", "launch"}
      BY <1>9 DEF LaunchContainer, Then, Jobs
    <2> QED
      BY <1>9, <2>1 DEF LaunchContainer
  <1>10. CASE CopyPlugins
    BY <1>10, GotoGoes DEF CopyPlugins
  <1>10a. CASE CreateExec
    BY <1>10a, GotoGoes DEF CreateExec
  <1>11. CASE ExecShell
    BY <1>11, GotoGoes DEF ExecShell
  <1>12. CASE AddressIsUnknown
    BY <1>12, PanicGoes DEF AddressIsUnknown, Over
  <1>13. CASE WriteCmd
    <2>1. job.pc = "script" /\ UNCHANGED <<ctx, shell>> /\ (Goto("started") \/ Panic("error"))
      BY <1>13 DEF WriteCmd
    <2>2. CASE Goto("started")
      BY <2>1, <2>2, GotoGoes
    <2>3. CASE Panic("error")
      BY <2>1, <2>3, PanicGoes DEF Over
    <2> QED
      BY <2>1, <2>2, <2>3
  <1>14. CASE ToStartStatus
    <2>1. /\ job'.left = job.left /\ job'.err = job.err
          /\ job'.pc = "poll" /\ job'.status = "RUNNING"
      BY <1>14 DEF ToStartStatus, Jobs
    <2> QED
      BY <1>14, <2>1 DEF ToStartStatus, KillInv
  <1>15. CASE WaitForExit
    BY <1>15, GotoGoes DEF WaitForExit
  <1>16. CASE IsInteracting
    BY <1>16, GotoGoes DEF IsInteracting
  <1>17. CASE WaitForTty
    <2>1. job.pc = "ttyWait" /\ UNCHANGED <<ctx, shell>> /\ (Goto("ttyDone") \/ Panic("error"))
      BY <1>17 DEF WaitForTty
    <2>2. CASE Goto("ttyDone")
      BY <2>1, <2>2, GotoGoes
    <2>3. CASE Panic("error")
      BY <2>1, <2>3, PanicGoes DEF Over
    <2> QED
      BY <2>1, <2>2, <2>3
  <1>18. CASE TtyDone
    BY <1>18, GotoGoes DEF TtyDone
  <1>19. CASE Finish
    <2>1. /\ job'.left = job.left /\ job'.err = job.err
          /\ job'.pc = "cleanup" /\ job'.status \in {"SUCCESS", "EXCEPTION"}
          /\ job.pc = "finish" /\ job.err = "none" /\ UNCHANGED ctx
      BY <1>19 DEF Finish, Jobs, ResultInv
    <2> QED
      BY <1>19, <2>1 DEF Over, KillInv
  <1>20. CASE ContextIsOver
    BY <1>20, PanicGoes DEF ContextIsOver, ContextCalls, Over
  <1>21. CASE DaemonFails
    BY <1>21, PanicGoes DEF DaemonFails, ContextCalls, Over
  <1>22. CASE CleanUp
    <2>1. job.pc = "cleanup" /\ job' = Then(Cleaned) /\ UNCHANGED ctx
      BY <1>22 DEF CleanUp
    <2>2. /\ job'.err = job.err /\ job'.status = job.status /\ job'.left = job.left
          /\ job'.pc \in {"cleanup", Cleaned}
      BY <2>1, ThenGoes
    <2>3. /\ job'.pc \in {"cleanup", "handle", "loop"}
          /\ job'.pc = "loop" => job.err = "none"
      BY <2>2 DEF Cleaned
    <2>4. ~ExecShell
      BY <2>1 DEF ExecShell
    <2> QED
      BY <2>1, <2>2, <2>3, <2>4 DEF FinishStatuses
  <1>23. CASE CleanUpFails
    <2>1. job.pc = "cleanup" /\ job' = Then(Cleaned) /\ UNCHANGED ctx
      BY <1>23 DEF CleanUpFails
    <2>2. /\ job'.err = job.err /\ job'.status = job.status /\ job'.left = job.left
          /\ job'.pc \in {"cleanup", Cleaned}
      BY <2>1, ThenGoes
    <2>3. /\ job'.pc \in {"cleanup", "handle", "loop"}
          /\ job'.pc = "loop" => job.err = "none"
      BY <2>2 DEF Cleaned
    <2>4. ~ExecShell
      BY <2>1 DEF ExecShell
    <2> QED
      BY <2>1, <2>2, <2>3, <2>4 DEF FinishStatuses
  <1>24. CASE CleanUpNothing
    BY <1>24 DEF CleanUpNothing, Jobs, Over
  <1>25. CASE HandleContext
    <2>1. /\ job.pc = "handle" /\ ctx' = "background"
          /\ \E s \in {"KILLED", "TIMEOUT"} : Ended(s, "nil", "loop")
      BY <1>25 DEF HandleContext
    <2> QED
      BY <2>1, EndedGoes DEF FinishStatuses
  <1>26. CASE HandleError
    BY <1>26, EndedGoes DEF HandleError, FinishStatuses, KillInv
  <1>27. CASE Loop
    <2>1. CASE job' = [job EXCEPT !.pc = "attempt", !.left = @ - 1] /\ job.left > 0
      <3>1. /\ job'.pc = "attempt" /\ job'.left = job.left - 1
            /\ job'.status = job.status
        BY <2>1 DEF Jobs
      <3> QED
        BY <1>27, <2>1, <3>1 DEF Loop, ExecShell
    <2>2. CASE Goto("done") /\ ~(job.status = "EXCEPTION" /\ job.left > 0)
      BY <1>27, <2>2, GotoGoes DEF Loop, ExecShell
    <2> QED
      BY <1>27, <2>1, <2>2 DEF Loop, Goto
  <1>28. ASSUME NEW how \in Over, ContextEnds(how) PROVE VerdictInv'
    BY <1>28 DEF ContextEnds, Over, ExecShell, KillInv
  <1>29. ASSUME NEW a \in Attempts, ShellWritesPid(a) PROVE VerdictInv'
    BY <1>29 DEF ShellWritesPid, ExecShell, Goto, Jobs
  <1>30. ASSUME NEW a \in Attempts, ShellExits(a) PROVE VerdictInv'
    BY <1>30 DEF ShellExits, ExecShell, Goto, Jobs
  <1>31. CASE OpenTty
    BY <1>31 DEF OpenTty, ExecShell, Goto, Jobs
  <1>32. CASE CloseTty
    BY <1>32 DEF CloseTty, ExecShell, Goto, Jobs
  <1>33. CASE UNCHANGED vars
    BY <1>33 DEF vars, ExecShell, Goto, Jobs
  <1> QED
    BY <1>1, <1>2, <1>3, <1>4, <1>5, <1>6, <1>7, <1>8, <1>9, <1>10, <1>10a, <1>11,
       <1>12, <1>13, <1>14, <1>15, <1>16, <1>17, <1>18, <1>19, <1>20, <1>21,
       <1>22, <1>23, <1>24, <1>25, <1>26, <1>27, <1>28, <1>29, <1>30, <1>31,
       <1>32, <1>33
       DEF Next, StartSteps

\* The steps of an attempt show at most that its bash has ended.
LEMMA AttemptGoesOn ==
    ASSUME TypeOK, KillInv, VerdictInv, [Next]_vars,
           ctx' = ctx, job'.left = job.left,
           job.pc \notin {"loop", "done"}, job'.pc \notin {"loop", "done"}
    PROVE  Protocol!Next \/ UNCHANGED Protocol!protocolVars
  <1>1. /\ cmd' = cmd /\ Attempt' = Attempt /\ Attempt \in Attempts
        /\ Phase = "trying" /\ Phase' = "trying"
    BY CmdStays, Numbers DEF Attempt, Phase
  <1>2. Cause' = Cause
    BY DEF Cause, Over, TypeOK, KillInv, VerdictInv
  <1>3. CASE shell[Attempt].state = "exited"
    <2>1. ~(ExecShell /\ shell[Attempt].state = "exited")
      BY <1>1 DEF VerdictInv, FreshLabels, ExecShell
    <2>2. shell'[Attempt] = shell[Attempt]
      BY <1>1, <1>3, <2>1, DeadStays DEF Alive
    <2>3. ScriptOutcome' = ScriptOutcome
      BY <1>1, <2>2 DEF ScriptOutcome
    <2> QED
      BY <1>1, <1>2, <2>3 DEF Protocol!protocolVars
  <1>4. CASE shell[Attempt].state # "exited"
    <2>1. ScriptOutcome = "open"
      BY <1>4 DEF ScriptOutcome
    <2>2. CASE ScriptOutcome' = "open"
      BY <1>1, <1>2, <2>1, <2>2 DEF Protocol!protocolVars
    <2>3. CASE ScriptOutcome' # "open"
      <3>1. ScriptOutcome' \in {"ok", "failed"}
        BY <2>3 DEF ScriptOutcome
      <3>2. Protocol!ScriptEnds(ScriptOutcome')
        BY <1>1, <1>2, <2>1 DEF Protocol!ScriptEnds
      <3> QED
        BY <3>1, <3>2 DEF Protocol!Next
    <2> QED
      BY <2>2, <2>3
  <1> QED
    BY <1>3, <1>4

\* Beside the goroutine of Start, only the end of the context shows.
LEMMA JobStandsStill ==
    ASSUME TypeOK, KillInv, VerdictInv, [Next]_vars, job' = job, ctx' = ctx
    PROVE  Protocol!Next \/ UNCHANGED Protocol!protocolVars
  <1>1. CASE job.pc \in {"loop", "done"}
    BY <1>1 DEF Phase, ScriptOutcome, Cause, Attempt, Protocol!protocolVars
  <1>2. CASE job.pc \notin {"loop", "done"}
    BY <1>2, AttemptGoesOn
  <1> QED
    BY <1>1, <1>2

\* An attempt that reaches Loop is judged.
LEMMA AttemptIsJudged ==
    ASSUME job.pc \in {"cleanup", "handle"}, job'.pc = "loop", job'.left = job.left,
           Cause' = Cause,
           \/ job'.status = "SUCCESS" /\ ScriptOutcome = "ok"
           \/ job'.status = "EXCEPTION"
           \/ job'.status = Protocol!StatusOf(Cause) /\ Cause # "none"
    PROVE  Protocol!Next
  <1>1. Protocol!StatusOf(Cause) \in {"KILLED", "TIMEOUT"}
    BY DEF Protocol!StatusOf
  <1>2. /\ Phase = "trying" /\ Phase' = "judged"
        /\ ScriptOutcome' = "open" /\ Attempt' = Attempt
    BY DEF Phase, ScriptOutcome, Attempt
  <1>3. Protocol!Judge(job'.status)
    BY <1>2 DEF Protocol!Judge, Protocol!Interrupted
  <1>4. job'.status \in {"SUCCESS", "EXCEPTION", "KILLED", "TIMEOUT"}
    BY <1>1
  <1> QED
    BY <1>3, <1>4 DEF Protocol!Next

\* A clean-up without an error leads on to the next place, or to the verdict that
\* the script has had.
LEMMA CleanUpShows ==
    ASSUME TypeOK, ResultInv, KillInv, VerdictInv, [Next]_vars,
           job.pc = "cleanup", job' = Then(Cleaned), ctx' = ctx
    PROVE  Protocol!Next \/ UNCHANGED Protocol!protocolVars
  <1>1. /\ job'.left = job.left /\ job'.status = job.status
        /\ job'.pc \in {"cleanup", "handle", "loop"}
        /\ job'.pc = "loop" => job.err = "none"
    BY ThenGoes DEF Cleaned
  <1>2. CASE job'.pc # "loop"
    BY <1>1, <1>2, AttemptGoesOn
  <1>3. CASE job'.pc = "loop"
    <2>1. job.status \in {"SUCCESS", "EXCEPTION"}
      BY <1>1, <1>3 DEF VerdictInv
    <2>2. job.status = "SUCCESS" => ScriptOutcome = "ok"
      BY DEF ResultInv, ScriptOutcome, Phase
    <2>3. Cause' = Cause
      BY <1>1 DEF Cause
    <2> QED
      BY <1>1, <1>3, <2>1, <2>2, <2>3, AttemptIsJudged
  <1> QED
    BY <1>2, <1>3

\* The recovery gives the reason of the context for the verdict, and the reason is
\* still to be seen when it has made the context good.
LEMMA HandleShows ==
    ASSUME TypeOK, ResultInv, KillInv, VerdictInv, HandleContext \/ HandleError
    PROVE  Protocol!Next
  <1>1. CASE HandleContext
    <2> DEFINE st == IF job.err = "canceled" THEN "KILLED" ELSE "TIMEOUT"
    <2>1. /\ job.pc = "handle" /\ job.err \in Over /\ ctx = job.err
          /\ ctx' = "background" /\ Ended(st, "nil", "loop")
      BY <1>1 DEF HandleContext, VerdictInv
    <2>2. job'.pc = "loop" /\ job'.status = st /\ job'.left = job.left
      BY <2>1, EndedGoes
    <2>3. Cause = ctx /\ Cause' = ctx /\ Cause # "none"
      BY <2>1, <2>2 DEF Cause, Over
    <2>4. st = Protocol!StatusOf(Cause)
      BY <2>1, <2>3 DEF Protocol!StatusOf, Over
    <2> QED
      BY <2>1, <2>2, <2>3, <2>4, AttemptIsJudged
  <1>2. CASE HandleError
    <2>1. /\ job.pc = "handle" /\ ctx' = ctx /\ Ended("EXCEPTION", "error", "loop")
      BY <1>2 DEF HandleError
    <2>2. job'.pc = "loop" /\ job'.status = "EXCEPTION" /\ job'.left = job.left
      BY <2>1, EndedGoes
    <2>3. ctx # "background"
      BY <2>1 DEF VerdictInv, KillInv
    <2>4. Cause' = Cause
      BY <2>1, <2>3 DEF Cause, Over, TypeOK
    <2> QED
      BY <2>1, <2>2, <2>4, AttemptIsJudged
  <1> QED
    BY <1>1, <1>2

\* Start tries again after a failure, and gives a command up after the last one.
LEMMA LoopShows ==
    ASSUME TypeOK, ResultInv, KillInv, VerdictInv, Loop
    PROVE  Protocol!Next
  <1>1. /\ job.left \in 0..Retry /\ Retry \in Nat /\ job \in Jobs
        /\ ctx' = ctx /\ job.pc = "loop" /\ Phase = "judged" /\ ScriptOutcome = "open"
    BY Numbers DEF Loop, TypeOK, Phase, ScriptOutcome
  <1>2. CASE (job.status = "EXCEPTION" \/ job.out # "nil") /\ job.left > 0
    <2>1. job'.pc = "attempt" /\ job'.left = job.left - 1 /\ job'.status = job.status
      BY <1>1, <1>2 DEF Loop, Jobs
    <2>2. job.status = "EXCEPTION" /\ ctx # "background"
      BY <1>1, <1>2 DEF VerdictInv, ResultInv, KillInv, FinishStatuses
    <2>3. Cause' = Cause /\ Phase' = "trying"
      BY <1>1, <2>1, <2>2 DEF Cause, Phase
    <2>4. Attempt <= Retry /\ Attempt' = Attempt + 1 /\ Attempt' \in Attempts
      BY <1>1, <1>2, <2>1 DEF Attempt, Attempts
    <2>5. ScriptOutcome' = "open"
      <3>1. Attempt' > Attempt
        BY <1>1, <2>4 DEF Attempt
      <3>2. shell[Attempt'].state = "none" /\ shell' = shell
        BY <2>4, <3>1 DEF VerdictInv, Loop
      <3> QED
        BY <3>2 DEF ScriptOutcome
    <2>6. Protocol!TryAgain
      BY <1>1, <2>1, <2>2, <2>3, <2>4, <2>5 DEF Protocol!TryAgain
    <2> QED
      BY <2>6 DEF Protocol!Next
  <1>3. CASE ~((job.status = "EXCEPTION" \/ job.out # "nil") /\ job.left > 0)
    <2>1. job'.pc = "done" /\ job'.left = job.left /\ job'.status = job.status
      BY <1>1, <1>3 DEF Loop, Jobs
    <2>2. /\ Cause' = Cause /\ Phase' = "returned" /\ ScriptOutcome' = "open"
          /\ Attempt' = Attempt
      BY <1>1, <2>1 DEF Cause, Phase, ScriptOutcome, Attempt
    <2>3. job.status = "EXCEPTION" => Attempt = Retry + 1
      BY <1>1, <1>3 DEF Attempt
    <2>4. Protocol!Return
      BY <1>1, <2>1, <2>2, <2>3 DEF Protocol!Return
    <2> QED
      BY <2>4 DEF Protocol!Next
  <1> QED
    BY <1>2, <1>3

\* Each step of Start, of the daemon, of a bash or of the terminal is a step of
\* ExecutorProtocol, or changes nothing that it shows.
LEMMA ProtocolNext ==
    ASSUME TypeOK, ResultInv, KillInv, VerdictInv, [Next]_vars
    PROVE  Protocol!Next \/ UNCHANGED Protocol!protocolVars
  <1> DEFINE Shown == Protocol!Next \/ UNCHANGED Protocol!protocolVars
  <1>a. job \in Jobs
    BY DEF TypeOK
  <1>b. ASSUME ctx' = ctx, job'.left = job.left,
               job.pc \notin {"loop", "done"}, job'.pc \notin {"loop", "done"}
        PROVE  Shown
    BY <1>b, AttemptGoesOn
  <1>c. ASSUME job' = job, ctx' = ctx PROVE Shown
    BY <1>c, JobStandsStill
  <1> SUFFICES Shown
    OBVIOUS
  <1> HIDE DEF Shown
  <1> USE <1>a
  <1>1. CASE DoStart
    BY <1>1, <1>b DEF DoStart, Jobs
  <1>2. CASE PullNothing
    BY <1>2, <1>b, PanicGoes DEF PullNothing
  <1>3. CASE PullImage
    <2>1. job.pc = "pull" /\ UNCHANGED ctx /\ (job' = Then("start") \/ Panic("error"))
      BY <1>3 DEF PullImage
    <2>2. CASE job' = Then("start")
      BY <1>b, <2>1, <2>2, ThenGoes
    <2>3. CASE Panic("error")
      BY <1>b, <2>1, <2>3, PanicGoes
    <2> QED
      BY <2>1, <2>2, <2>3
  <1>4. CASE PullFails
    <2>1. /\ job.pc = "pull" /\ UNCHANGED ctx
          /\ Panic("error") \/ job' = [job EXCEPT !.tries = @ + 1]
      BY <1>4 DEF PullFails
    <2>2. CASE Panic("error")
      BY <1>b, <2>1, <2>2, PanicGoes
    <2>3. CASE job' = [job EXCEPT !.tries = @ + 1]
      BY <1>b, <2>1, <2>3 DEF Jobs
    <2> QED
      BY <2>1, <2>2, <2>3
  <1>5. CASE Resume
    BY <1>5, <1>b, ThenGoes DEF Resume
  <1>6. CASE ResumeFails
    BY <1>6, <1>b, GotoGoes DEF ResumeFails
  <1>7. CASE ResumeNothing
    BY <1>7, <1>b, GotoGoes DEF ResumeNothing
  <1>8. CASE CreateContainer
    BY <1>8, <1>b, GotoGoes DEF CreateContainer
  <1>9. CASE LaunchContainer
    <2>1. job'.left = job.left /\ job'.pc \in {"plugins", "launch"}
      BY <1>9 DEF LaunchContainer, Then, Jobs
    <2> QED
      BY <1>9, <1>b, <2>1 DEF LaunchContainer
  <1>10. CASE CopyPlugins
    BY <1>10, <1>b, GotoGoes DEF CopyPlugins
  <1>10a. CASE CreateExec
    BY <1>10a, <1>b, GotoGoes DEF CreateExec
  <1>11. CASE ExecShell
    BY <1>11, <1>b, GotoGoes DEF ExecShell
  <1>12. CASE AddressIsUnknown
    BY <1>12, <1>b, PanicGoes DEF AddressIsUnknown
  <1>13. CASE WriteCmd
    BY <1>13, <1>b, GotoGoes, PanicGoes DEF WriteCmd
  <1>14. CASE ToStartStatus
    BY <1>14, <1>b DEF ToStartStatus, Jobs
  <1>15. CASE WaitForExit
    BY <1>15, <1>b, GotoGoes DEF WaitForExit
  <1>16. CASE IsInteracting
    BY <1>16, <1>b, GotoGoes DEF IsInteracting
  <1>17. CASE WaitForTty
    BY <1>17, <1>b, GotoGoes, PanicGoes DEF WaitForTty
  <1>18. CASE TtyDone
    BY <1>18, <1>b, GotoGoes DEF TtyDone
  <1>19. CASE Finish
    BY <1>19, <1>b DEF Finish, Jobs
  <1>20. CASE ContextIsOver
    BY <1>20, <1>b, PanicGoes DEF ContextIsOver, ContextCalls
  <1>21. CASE DaemonFails
    BY <1>21, <1>b, PanicGoes DEF DaemonFails, ContextCalls
  <1>22. CASE CleanUp
    BY <1>22, CleanUpShows DEF CleanUp, Shown
  <1>23. CASE CleanUpFails
    BY <1>23, CleanUpShows DEF CleanUpFails, Shown
  <1>24. CASE CleanUpNothing
    BY <1>24, <1>b DEF CleanUpNothing, Jobs
  <1>25. CASE HandleContext
    BY <1>25, HandleShows DEF Shown
  <1>26. CASE HandleError
    BY <1>26, HandleShows DEF Shown
  <1>27. CASE Loop
    BY <1>27, LoopShows DEF Shown
  <1>28. ASSUME NEW how \in Over, ContextEnds(how) PROVE Shown
    <2>1. /\ ctx = "live" /\ ctx' = how /\ UNCHANGED <<cmd, job, shell>>
      BY <1>28 DEF ContextEnds
    <2>2. Cause = "none" /\ Cause' = how
      BY <2>1 DEF Cause, Over
    <2>3. UNCHANGED <<Phase, Attempt, ScriptOutcome>>
      BY <2>1 DEF Phase, Attempt, ScriptOutcome
    <2>4. Protocol!Interrupt(how)
      BY <2>1, <2>2, <2>3 DEF Protocol!Interrupt, Protocol!Interrupted
    <2> QED
      BY <2>4 DEF Protocol!Next, Over, Shown
  <1>29. ASSUME NEW a \in Attempts, ShellWritesPid(a) PROVE Shown
    BY <1>29, <1>c DEF ShellWritesPid
  <1>30. ASSUME NEW a \in Attempts, ShellExits(a) PROVE Shown
    BY <1>30, <1>c DEF ShellExits
  <1>31. CASE OpenTty
    BY <1>31, <1>c DEF OpenTty
  <1>32. CASE CloseTty
    BY <1>32, <1>c DEF CloseTty
  <1>33. CASE UNCHANGED vars
    BY <1>33, <1>c DEF vars
  <1> QED
    BY <1>1, <1>2, <1>3, <1>4, <1>5, <1>6, <1>7, <1>8, <1>9, <1>10, <1>10a, <1>11,
       <1>12, <1>13, <1>14, <1>15, <1>16, <1>17, <1>18, <1>19, <1>20, <1>21,
       <1>22, <1>23, <1>24, <1>25, <1>26, <1>27, <1>28, <1>29, <1>30, <1>31,
       <1>32, <1>33
       DEF Next, StartSteps

\* DockerExecutor implements ExecutorProtocol: whatever fails in the daemon and in
\* the clean-up, each verdict has its cause, and each new attempt its failure.
THEOREM Implements == Spec => ImplementsProtocol
  <1> DEFINE I == KillIInv /\ VerdictInv
  <1>1. Init => I
    BY TypeInit, PlaceInit, ResultInit, KillInit, VerdictInit DEF KillIInv
  <1>2. I /\ [Next]_vars => I'
    BY KillInductive, VerdictNext DEF KillIInv
  <1>3. I /\ [Next]_vars => [Protocol!Next]_(Protocol!protocolVars)
    BY ProtocolNext DEF KillIInv
  <1>4. Init => Protocol!Init
    <2> SUFFICES ASSUME Init PROVE Protocol!Init
      OBVIOUS
    <2>1. /\ job.pc = "attempt" /\ job.left = Retry /\ ctx = "live"
          /\ Retry \in Nat /\ \A a \in Attempts : shell[a].state = "none"
      BY DockerAssumption DEF DockerAssumption, Init
    <2>2. Attempt = 1 /\ Attempt \in Attempts
      BY <2>1 DEF Attempt, Attempts
    <2>3. Phase = "trying" /\ ScriptOutcome = "open" /\ Cause = "none"
      BY <2>1, <2>2 DEF Phase, ScriptOutcome, Cause
    <2> QED
      BY <2>2, <2>3 DEF Protocol!Init
  <1> QED
    BY <1>1, <1>2, <1>3, <1>4, PTL DEF Spec, ImplementsProtocol, Protocol!Spec
=============================================================================
