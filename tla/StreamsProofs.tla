---------------------------- MODULE StreamsProofs ----------------------------
(***************************************************************************)
(* Proofs about Streams, for every number of attempts, pipes, chunks and   *)
(* terminals and every capacity of the channels: the types, that the log   *)
(* that is uploaded is complete, and that a dead terminal takes no more    *)
(* than one input from a later one.                                        *)
(***************************************************************************)
EXTENDS Streams, FiniteSetTheorems, SequenceTheorems, TLAPS

-----------------------------------------------------------------------------
(***************************************************************************)
(* Counting the chunks in a sequence                                       *)
(***************************************************************************)
LEMMA CountType ==
    ASSUME NEW T, NEW s \in Seq(T), NEW C
    PROVE  /\ IsFiniteSet({i \in DOMAIN s : s[i] \in C})
           /\ Count(s, C) \in Nat
<1>1. DOMAIN s = 1..Len(s) /\ Len(s) \in Nat
  OBVIOUS
<1>2. IsFiniteSet(1..Len(s))
  BY <1>1, FS_Interval
<1>3. IsFiniteSet({i \in DOMAIN s : s[i] \in C})
  BY <1>1, <1>2, FS_Subset
<1> QED
  BY <1>3, FS_CardinalityType DEF Count

\* An empty sequence holds no chunk.
LEMMA CountOfEmpty == ASSUME NEW C PROVE Count(<<>>, C) = 0
<1>1. {i \in DOMAIN <<>> : <<>>[i] \in C} = {}
  OBVIOUS
<1> QED
  BY <1>1, FS_EmptySet DEF Count

\* Appending a chunk counts it once.
LEMMA CountOfAppend ==
    ASSUME NEW T, NEW s \in Seq(T), NEW x \in T, NEW C
    PROVE  Count(Append(s, x), C) = Count(s, C) + IF x \in C THEN 1 ELSE 0
<1> DEFINE old == {i \in DOMAIN s : s[i] \in C}
           new == {i \in DOMAIN Append(s, x) : Append(s, x)[i] \in C}
<1>1. /\ Len(s) \in Nat /\ DOMAIN s = 1..Len(s) /\ DOMAIN Append(s, x) = 1..(Len(s) + 1)
      /\ \A i \in 1..Len(s) : Append(s, x)[i] = s[i]
      /\ Append(s, x)[Len(s) + 1] = x
  OBVIOUS
<1>2. IsFiniteSet(old) /\ Cardinality(old) \in Nat
  BY CountType DEF Count
<1>5. Count(s, C) = Cardinality(old) /\ Count(Append(s, x), C) = Cardinality(new)
  BY DEF Count
<1> HIDE DEF old, new
<1>3. CASE x \in C
  <2>1. new = old \union {Len(s) + 1} /\ Len(s) + 1 \notin old
    BY <1>1, <1>3 DEF old, new
  <2>2. Cardinality(new) = Cardinality(old) + 1
    BY <1>2, <2>1, FS_AddElement
  <2> QED
    BY <1>3, <2>2, <1>5
<1>4. CASE x \notin C
  <2>1. new = old
    BY <1>1, <1>4 DEF old, new
  <2> QED
    BY <1>2, <1>4, <2>1, <1>5
<1> QED
  BY <1>3, <1>4

\* the chunk that is taken from the channel is one less of its kind
LEMMA CountOfTail ==
    ASSUME NEW T, NEW s \in Seq(T), s # <<>>, NEW C
    PROVE  Count(s, C) = Count(Tail(s), C) + IF Head(s) \in C THEN 1 ELSE 0
<1> DEFINE all == {i \in DOMAIN s : s[i] \in C}
           left == {i \in DOMAIN Tail(s) : Tail(s)[i] \in C}
           rest == all \ {1}
           move == [i \in left |-> i + 1]
<1>1. /\ Len(s) \in Nat /\ Len(s) >= 1 /\ DOMAIN s = 1..Len(s)
      /\ Tail(s) \in Seq(T) /\ DOMAIN Tail(s) = 1..(Len(s) - 1)
      /\ \A i \in 1..(Len(s) - 1) : Tail(s)[i] = s[i + 1]
      /\ Head(s) = s[1]
  BY HeadTailProperties, LenProperties, EmptySeq
<1>2. move \in Bijection(left, rest)
  <2>1. left = {i \in 1..(Len(s) - 1) : s[i + 1] \in C}
    BY <1>1
  <2>2. rest = {j \in 2..Len(s) : s[j] \in C}
    BY <1>1
  <2>3. move \in [left -> rest]
    BY <1>1, <2>1, <2>2
  <2>4. \A i, j \in left : move[i] = move[j] => i = j
    BY <1>1, <2>1
  <2>5. ASSUME NEW j \in rest PROVE \E i \in left : move[i] = j
    <3>1. j \in 2..Len(s) /\ s[j] \in C
      BY <2>2
    <3>2. j - 1 \in 1..(Len(s) - 1) /\ (j - 1) + 1 = j
      BY <1>1, <3>1
    <3>3. j - 1 \in left
      BY <2>1, <3>1, <3>2
    <3> QED
      BY <3>2, <3>3
  <2> QED
    BY <2>3, <2>4, <2>5 DEF Bijection, Injection, Surjection, IsInjective
<1>3. IsFiniteSet(left) /\ Cardinality(left) \in Nat
  BY <1>1, CountType DEF Count
<1>4. Cardinality(rest) = Cardinality(left)
  BY <1>2, <1>3, FS_Bijection DEF ExistsBijection
<1>5. IsFiniteSet(all) /\ Cardinality(all) \in Nat
  BY CountType DEF Count
<1>6. Head(s) \in C <=> 1 \in all
  BY <1>1
<1>7. Cardinality(rest) = IF 1 \in all THEN Cardinality(all) - 1 ELSE Cardinality(all)
  BY <1>5, FS_RemoveElement
<1>8. Count(s, C) = Cardinality(all) /\ Count(Tail(s), C) = Cardinality(left)
  BY DEF Count
<1> HIDE DEF all, left, rest
<1> QED
  BY <1>3, <1>4, <1>5, <1>6, <1>7, <1>8

-----------------------------------------------------------------------------
(***************************************************************************)
(* The steps, by what they may change                                      *)
(***************************************************************************)
JobAction == JobStep \/ Kill \/ ScriptEnds \/ Timeout
LogAction ==
    \/ ConsumeLog \/ UploadLog
    \/ \E r \in Readers : Reader(r) \/ ScriptWrites(r)
TerminalAction ==
    \/ TypeInput \/ StopTty \/ InputUnblocks \/ ConsumeTty
    \/ \E t \in Terms : OpenTty(t) \/ Terminal(t) \/ BashExits(t)

\* Every step is one of the job, of a log goroutine or of a terminal.
LEMMA NextSplits ==
    [Next]_vars => JobAction \/ LogAction \/ TerminalAction \/ HandleErrors \/ UNCHANGED vars
BY DEF Next, Messages, Goroutines, Environment, JobAction, LogAction, TerminalAction

\* What no step of the job touches.
LEMMA JobActionFrame == JobAction => UNCHANGED <<plan, agent, handler, written, log, queue, ttys>>
BY DEF JobAction, JobStep, Kill, ScriptEnds, Timeout, DoStart, CommandWait, CheckTty,
   WaitForTty, TtyDone, AttemptEnds, CloseWaits, Drained, Close, Release, logs

\* What no step of a log goroutine touches.
LEMMA LogActionFrame ==
    LogAction => UNCHANGED <<plan, agent, job, over, handler, bash, closed, queue, waits, ttys>>
BY DEF LogAction, Reader, ConsumeLog, UploadLog, ScriptWrites, CheckContext, ReadLog,
   ReadFails, SendLog, SendLogPanics

\* What no step of a terminal touches.
LEMMA TerminalActionFrame ==
    TerminalAction => UNCHANGED <<plan, job, over, handler, bash, logs, closed, waits>>
BY DEF TerminalAction, Terminal, TypeInput, StopTty, InputUnblocks, ConsumeTty, OpenTty,
   BashExits, StartTtyFails, CheckInteracting, StartTty, Hangup, WriteTtyIn, WriterLeaves,
   ReadTty, SendTty

\* What the handler of the context touches: it may end bash, or a terminal, or the
\* agent.
LEMMA HandlerFrame ==
    HandleErrors =>
        /\ UNCHANGED <<plan, job, over, logs, closed, queue, waits, current, shown, canceled,
                       ttyIn, typed, inWriter, outReader, ttyOut, stray, overlap>>
        /\ agent' \in {agent, "down"} /\ handler' \in {handler, "tty", "process", "done"}
        /\ bash' = bash \/ (bash = "runs" /\ bash' = "exited")
        /\ \/ term' = term
           \/ term[shown] = "up" /\ term' = [term EXCEPT ![shown] = "exited"]
BY DEF HandleErrors, KillCommand, CheckTtyToKill, KillTty, HandlerPanics, ttys

-----------------------------------------------------------------------------
(***************************************************************************)
(* The types                                                               *)
(***************************************************************************)
JobLabels == {"attempt", "wait", "tty", "ttyWait", "ttyDone", "ended", "close", "drain",
              "closing", "closed", "done"}
JobTypes ==
    /\ plan \in Plans /\ agent \in {"up", "down"}
    /\ over \in BOOLEAN /\ closed \in BOOLEAN /\ overlap \in BOOLEAN
    /\ handler \in {"wait", "tty", "process", "done"}
    /\ bash \in {"none", "runs", "exited"}
    /\ job \in [pc : JobLabels, attempt : Nat, logSize : Nat] /\ job.attempt \in Attempts
    /\ logSize \in Nat /\ job.logSize <= logSize
    /\ closed => job.pc \in {"closed", "done"}

\* The numbers of a plan and their bounds.
LEMMA PlanTypes ==
    ASSUME plan \in Plans
    PROVE  /\ plan.retry \in Nat /\ plan.retry <= MaxRetry
           /\ plan.ttys \in Nat /\ plan.chunks \in Nat /\ plan.inputs \in Nat
           /\ plan.outputs \in Nat
BY StreamsAssumption

\* The job starts in its first attempt.
LEMMA JobInit == Init => JobTypes
<1> SUFFICES ASSUME Init PROVE JobTypes
  OBVIOUS
<1>1. plan \in Plans /\ plan.retry \in Nat
  BY PlanTypes DEF Init
<1>2. job = [pc |-> "attempt", attempt |-> 1, logSize |-> 0] /\ logSize = 0
  BY DEF Init
<1>3. job.attempt \in Attempts
  BY <1>1, <1>2 DEF Attempts
<1>4. job \in [pc : JobLabels, attempt : Nat, logSize : Nat] /\ job.logSize <= logSize
      /\ logSize \in Nat
  BY <1>2 DEF JobLabels
<1>5. agent = "up" /\ handler = "wait" /\ over = FALSE /\ closed = FALSE /\ overlap = FALSE /\ bash = "none"
  BY DEF Init
<1> QED
  BY <1>1, <1>3, <1>4, <1>5 DEF JobTypes

\* Going to another label keeps the types of the job.
LEMMA GotoTypes ==
    ASSUME JobTypes, NEW label \in JobLabels,
           job' = [job EXCEPT !.pc = label],
           job.pc \in {"closed", "done"} => label \in {"closed", "done"},
           UNCHANGED <<plan, agent, over, handler, closed, overlap, bash, logSize>>
    PROVE  JobTypes'
<1>1. job' \in [pc : JobLabels, attempt : Nat, logSize : Nat]
      /\ job'.attempt = job.attempt /\ job'.logSize = job.logSize /\ job'.pc = label
  BY DEF JobTypes
<1> QED
  BY <1>1 DEF JobTypes, Attempts

\* Every step keeps the types of the job and its attempts.
LEMMA JobStepTypes == JobTypes /\ [Next]_vars => JobTypes'
<1> SUFFICES ASSUME JobTypes, [Next]_vars PROVE JobTypes'
  OBVIOUS
<1>1. CASE JobAction
  <2>1. CASE DoStart
    <3>1. UNCHANGED <<plan, agent, over, handler, closed, overlap, logSize>> /\ job.pc = "attempt"
      BY <2>1 DEF DoStart, logs, ttys
    <3>2. bash' \in {bash, "runs"}
      BY <2>1 DEF DoStart
    <3>3. PICK label \in {"wait", "ended"} : job' = [job EXCEPT !.pc = label]
      BY <2>1 DEF DoStart, Goto
    <3>4. job' \in [pc : JobLabels, attempt : Nat, logSize : Nat]
          /\ job'.attempt = job.attempt /\ job'.logSize = job.logSize
      BY <3>3 DEF JobTypes, JobLabels
    <3> QED
      BY <3>1, <3>2, <3>4 DEF JobTypes, Attempts
  <2>2. CASE CommandWait
    <3>1. UNCHANGED <<plan, agent, over, handler, closed, overlap, bash, logSize>>
      BY <2>2 DEF CommandWait, logs, ttys
    <3>2. \E label \in {"tty"} : job' = [job EXCEPT !.pc = label]
      BY <2>2 DEF CommandWait, Goto
    <3>3. job.pc = "wait"
      BY <2>2 DEF CommandWait
    <3> QED
      BY <3>1, <3>2, <3>3, GotoTypes DEF JobLabels
  <2>3. CASE CheckTty
    <3>1. UNCHANGED <<plan, agent, over, handler, closed, overlap, bash, logSize>>
      BY <2>3 DEF CheckTty, logs, ttys
    <3>2. \E label \in {"ttyWait", "ended"} : job' = [job EXCEPT !.pc = label]
      BY <2>3 DEF CheckTty, Goto
    <3>3. job.pc = "tty"
      BY <2>3 DEF CheckTty
    <3> QED
      BY <3>1, <3>2, <3>3, GotoTypes DEF JobLabels
  <2>4. CASE WaitForTty
    <3>1. UNCHANGED <<plan, agent, over, handler, closed, overlap, bash, logSize>>
      BY <2>4 DEF WaitForTty, logs, ttys
    <3>2. \E label \in {"ended", "ttyDone"} : job' = [job EXCEPT !.pc = label]
      BY <2>4 DEF WaitForTty, Goto
    <3>3. job.pc = "ttyWait"
      BY <2>4 DEF WaitForTty
    <3> QED
      BY <3>1, <3>2, <3>3, GotoTypes DEF JobLabels
  <2>5. CASE TtyDone
    <3>1. UNCHANGED <<plan, agent, over, handler, closed, overlap, bash, logSize>>
      BY <2>5 DEF TtyDone, logs, ttys
    <3>2. \E label \in {"ended"} : job' = [job EXCEPT !.pc = label]
      BY <2>5 DEF TtyDone, Goto
    <3>3. job.pc = "ttyDone"
      BY <2>5 DEF TtyDone
    <3> QED
      BY <3>1, <3>2, <3>3, GotoTypes DEF JobLabels
  <2>6. CASE AttemptEnds
    <3>1. UNCHANGED <<plan, agent, over, handler, closed, overlap, logSize>> /\ job.pc = "ended"
      BY <2>6 DEF AttemptEnds, logs, ttys
    <3>2. bash' \in {bash, "none"}
      BY <2>6 DEF AttemptEnds
    <3>3. \/ job.attempt < plan.retry + 1
             /\ job' = [job EXCEPT !.pc = "attempt", !.attempt = @ + 1]
          \/ job' = [job EXCEPT !.pc = "close", !.logSize = logSize]
      BY <2>6 DEF AttemptEnds
    <3>4. job \in [pc : JobLabels, attempt : Nat, logSize : Nat] /\ job.attempt \in Attempts
          /\ logSize \in Nat /\ plan.retry \in Nat /\ job.logSize <= logSize
      BY PlanTypes DEF JobTypes
    <3>5. /\ job' \in [pc : JobLabels, attempt : Nat, logSize : Nat]
          /\ job'.attempt \in 1..(plan.retry + 1)
          /\ job'.logSize <= logSize
      <4>1. CASE job.attempt < plan.retry + 1
                 /\ job' = [job EXCEPT !.pc = "attempt", !.attempt = @ + 1]
        <5>1. job.attempt \in Nat /\ job.attempt + 1 \in 1..(plan.retry + 1)
              /\ job.logSize \in Nat
          BY <3>4, <4>1 DEF Attempts
        <5>2. job' = [pc |-> "attempt", attempt |-> job.attempt + 1, logSize |-> job.logSize]
          BY <3>4, <4>1
        <5> QED
          BY <3>4, <5>1, <5>2 DEF JobLabels
      <4>2. CASE job' = [job EXCEPT !.pc = "close", !.logSize = logSize]
        <5>1. job' = [pc |-> "close", attempt |-> job.attempt, logSize |-> logSize]
          BY <3>4, <4>2
        <5>2. job.attempt \in Nat /\ job.attempt \in 1..(plan.retry + 1)
          BY <3>4 DEF Attempts
        <5> QED
          BY <3>4, <5>1, <5>2 DEF JobLabels
      <4> QED
        BY <3>3, <4>1, <4>2
    <3>8. ~closed
      BY <3>1 DEF JobTypes
    <3> QED
      BY <3>1, <3>2, <3>5, <3>8 DEF JobTypes, Attempts
  <2>7. CASE CloseWaits
    <3>1. UNCHANGED <<plan, agent, over, handler, closed, overlap, bash, logSize>>
      BY <2>7 DEF CloseWaits, logs, ttys
    <3>2. \E label \in {"drain", "closing"} : job' = [job EXCEPT !.pc = label]
      BY <2>7 DEF CloseWaits, Goto
    <3>3. job.pc = "close"
      BY <2>7 DEF CloseWaits
    <3> QED
      BY <3>1, <3>2, <3>3, GotoTypes DEF JobLabels
  <2>8. CASE Drained
    <3>1. UNCHANGED <<plan, agent, over, handler, closed, overlap, bash, logSize>>
      BY <2>8 DEF Drained, logs, ttys
    <3>2. \E label \in {"closing"} : job' = [job EXCEPT !.pc = label]
      BY <2>8 DEF Drained, Goto
    <3>3. job.pc = "drain"
      BY <2>8 DEF Drained
    <3> QED
      BY <3>1, <3>2, <3>3, GotoTypes DEF JobLabels
  <2>9. CASE Close
    <3>1. UNCHANGED <<plan, agent, handler, overlap, bash, logSize>>
          /\ closed' = TRUE /\ over' = TRUE
      BY <2>9 DEF Close, logs, ttys
    <3>2. job' = [job EXCEPT !.pc = "closed"]
      BY <2>9 DEF Close, Goto
    <3>3. job' \in [pc : JobLabels, attempt : Nat, logSize : Nat]
          /\ job'.attempt = job.attempt /\ job'.logSize = job.logSize /\ job'.pc = "closed"
      BY <3>2 DEF JobTypes, JobLabels
    <3> QED
      BY <3>1, <3>3 DEF JobTypes, Attempts
  <2>10. CASE Release
    <3>1. UNCHANGED <<plan, agent, over, handler, closed, overlap, bash, logSize>>
      BY <2>10 DEF Release, logs, ttys
    <3>2. \E label \in {"done"} : job' = [job EXCEPT !.pc = label]
      BY <2>10 DEF Release, Goto
    <3>3. job.pc = "closed"
      BY <2>10 DEF Release
    <3> QED
      BY <3>1, <3>2, <3>3, GotoTypes DEF JobLabels
  <2>11. CASE Kill
    <3>1. UNCHANGED <<plan, agent, handler, closed, overlap, bash, job, logSize>> /\ over' = TRUE
      BY <2>11 DEF Kill, logs, ttys
    <3> QED
      BY <3>1 DEF JobTypes, Attempts
  <2>12. CASE ScriptEnds
    <3>1. UNCHANGED <<plan, agent, over, handler, closed, overlap, job, logSize>> /\ bash' = "exited"
      BY <2>12 DEF ScriptEnds, logs, ttys
    <3> QED
      BY <3>1 DEF JobTypes, Attempts
  <2>13. CASE Timeout
    <3>1. UNCHANGED <<plan, agent, handler, closed, overlap, bash, job, logSize>> /\ over' = TRUE
      BY <2>13 DEF Timeout, logs, ttys
    <3> QED
      BY <3>1 DEF JobTypes, Attempts
  <2> QED
    BY <1>1, <2>1, <2>2, <2>3, <2>4, <2>5, <2>6, <2>7, <2>8, <2>9, <2>10, <2>11,
       <2>12, <2>13 DEF JobAction, JobStep
<1>2. CASE LogAction
  <2>1. ASSUME NEW r \in Readers, CheckContext(r) PROVE JobTypes'
    BY <2>1, JobTypes DEF CheckContext, Leave, logs, ttys, JobTypes, Attempts
  <2>2. ASSUME NEW r \in Readers, ReadLog(r) PROVE JobTypes'
    BY <2>2, JobTypes DEF ReadLog, logs, ttys, JobTypes, Attempts
  <2>3. ASSUME NEW r \in Readers, ReadFails(r) PROVE JobTypes'
    BY <2>3, JobTypes DEF ReadFails, Leave, logs, ttys, JobTypes, Attempts
  <2>4. ASSUME NEW r \in Readers, SendLog(r) PROVE JobTypes'
    <3>1. UNCHANGED <<plan, agent, over, handler, closed, overlap, bash, job>> /\ logSize' = logSize + 1
      BY <2>4 DEF SendLog, logs, ttys
    <3>2. logSize' \in Nat /\ job.logSize <= logSize'
      BY <3>1 DEF JobTypes
    <3> QED
      BY <3>1, <3>2 DEF JobTypes, Attempts
  <2>5. ASSUME NEW r \in Readers, SendLogPanics(r) PROVE JobTypes'
    BY <2>5, JobTypes DEF SendLogPanics, Leave, logs, ttys, JobTypes, Attempts
  <2>6. CASE ConsumeLog
    BY <2>6, JobTypes DEF ConsumeLog, logs, ttys, JobTypes, Attempts
  <2>7. CASE UploadLog
    BY <2>7, JobTypes DEF UploadLog, logs, ttys, JobTypes, Attempts
  <2>8. ASSUME NEW r \in Readers, ScriptWrites(r) PROVE JobTypes'
    BY <2>8, JobTypes DEF ScriptWrites, logs, ttys, JobTypes, Attempts
  <2> QED
    BY <1>2, <2>1, <2>2, <2>3, <2>4, <2>5, <2>6, <2>7, <2>8 DEF LogAction, Reader
<1>3. CASE TerminalAction
  <2>1. ASSUME NEW t \in Terms, OpenTty(t) PROVE JobTypes'
    BY <2>1, JobTypes DEF OpenTty, logs, ttys, JobTypes, Attempts
  <2>2. CASE TypeInput
    BY <2>2, JobTypes DEF TypeInput, logs, ttys, JobTypes, Attempts
  <2>3. CASE StopTty
    BY <2>3, JobTypes DEF StopTty, logs, ttys, JobTypes, Attempts
  <2>4. CASE InputUnblocks
    BY <2>4, JobTypes DEF InputUnblocks, logs, ttys, JobTypes, Attempts
  <2>5. ASSUME NEW t \in Terms, StartTtyFails(t) PROVE JobTypes'
    BY <2>5, JobTypes DEF StartTtyFails, logs, ttys, JobTypes, Attempts
  <2>6. ASSUME NEW t \in Terms, CheckInteracting(t) PROVE JobTypes'
    BY <2>6, JobTypes DEF CheckInteracting, logs, ttys, JobTypes, Attempts
  <2>7. ASSUME NEW t \in Terms, StartTty(t) PROVE JobTypes'
    <3>1. UNCHANGED <<plan, agent, over, handler, closed, bash, job, logSize>>
      BY <2>7 DEF StartTty, logs
    <3>2. overlap' \in BOOLEAN
      BY <2>7 DEF StartTty
    <3> QED
      BY <3>1, <3>2 DEF JobTypes, Attempts
  <2>8. ASSUME NEW t \in Terms, Hangup(t) PROVE JobTypes'
    BY <2>8, JobTypes DEF Hangup, logs, ttys, JobTypes, Attempts
  <2>9. ASSUME NEW t \in Terms, WriteTtyIn(t) PROVE JobTypes'
    BY <2>9, JobTypes DEF WriteTtyIn, logs, ttys, JobTypes, Attempts
  <2>10. ASSUME NEW t \in Terms, WriterLeaves(t) PROVE JobTypes'
    BY <2>10, JobTypes DEF WriterLeaves, logs, ttys, JobTypes, Attempts
  <2>11. ASSUME NEW t \in Terms, ReadTty(t) PROVE JobTypes'
    BY <2>11, JobTypes DEF ReadTty, logs, ttys, JobTypes, Attempts
  <2>12. ASSUME NEW t \in Terms, SendTty(t) PROVE JobTypes'
    <3>1. UNCHANGED <<plan, over, handler, closed, overlap, bash, job, logSize>>
          /\ agent' \in {agent, "down"}
      BY <2>12 DEF SendTty, logs
    <3> QED
      BY <3>1 DEF JobTypes, Attempts
  <2>13. ASSUME NEW t \in Terms, BashExits(t) PROVE JobTypes'
    BY <2>13, JobTypes DEF BashExits, logs, ttys, JobTypes, Attempts
  <2>14. CASE ConsumeTty
    BY <2>14, JobTypes DEF ConsumeTty, logs, ttys, JobTypes, Attempts
  <2> QED
    BY <1>3, <2>1, <2>2, <2>3, <2>4, <2>5, <2>6, <2>7, <2>8, <2>9, <2>10, <2>11,
       <2>12, <2>13, <2>14 DEF TerminalAction, Terminal
<1>4. CASE UNCHANGED vars
  BY <1>4, JobTypes DEF vars, logs, ttys, JobTypes, Attempts
<1>5. CASE HandleErrors
  <2>1. UNCHANGED <<plan, job, over, closed, overlap, logSize>> /\ agent' \in {agent, "down"}
        /\ handler' \in {handler, "tty", "process", "done"} /\ bash' \in {bash, "exited"}
    BY <1>5, HandlerFrame DEF logs
  <2> QED
    BY <2>1 DEF JobTypes, Attempts
<1> QED
  BY <1>1, <1>2, <1>3, <1>4, <1>5, NextSplits

(***************************************************************************)
(* A channel that was not full has room for one more, and one received     *)
(* from leaves the rest in it                                              *)
(***************************************************************************)
LEMMA ChannelSend ==
    ASSUME NEW T, NEW s \in Seq(T), NEW x \in T, NEW size \in Nat, Len(s) < size
    PROVE  Append(s, x) \in Seq(T) /\ Len(Append(s, x)) <= size
<1>1. Append(s, x) \in Seq(T) /\ Len(Append(s, x)) = Len(s) + 1 /\ Len(s) \in Nat
  BY AppendProperties, LenProperties
<1> QED
  BY <1>1

\* What is received is an element, and the rest still fits.
LEMMA ChannelReceive ==
    ASSUME NEW T, NEW s \in Seq(T), s # <<>>, NEW size \in Nat, Len(s) <= size
    PROVE  Head(s) \in T /\ Tail(s) \in Seq(T) /\ Len(Tail(s)) <= size
<1>1. /\ Head(s) \in T /\ Tail(s) \in Seq(T)
      /\ Len(Tail(s)) = Len(s) - 1 /\ Len(s) \in Nat
  BY HeadTailProperties, LenProperties
<1> QED
  BY <1>1

Chunks == Readers \union {RetryMark}
ReaderState == [pc : {"none", "check", "read", "send", "eof", "cut"}, n : Nat]
ReadIsWritten == \A r \in Readers : reader[r].n <= written[r]
LogTypes ==
    /\ written \in [Readers -> Nat] /\ reader \in [Readers -> ReaderState]
    /\ ReadIsWritten
    /\ stdout \in Seq(Chunks) /\ Len(stdout) <= Capacity
    /\ log \in [pc : {"range", "uploaded"}, file : Seq(Chunks)]

\* The line that a retry writes to the log comes from no reader.
LEMMA MarkIsNoReader == RetryMark \notin Readers
BY DEF RetryMark, Readers

\* a reader that moves to another label, or has read one chunk more
LEMMA ReaderMoves ==
    ASSUME LogTypes, NEW r \in Readers,
           NEW label \in {"none", "check", "read", "send", "eof", "cut"},
           reader' = [reader EXCEPT ![r].pc = label],
           written' = written
    PROVE  reader' \in [Readers -> ReaderState] /\ ReadIsWritten'
<1>1. reader[r] \in ReaderState
  BY DEF LogTypes
<1>2. [reader[r] EXCEPT !.pc = label] \in ReaderState
      /\ [reader[r] EXCEPT !.pc = label].n = reader[r].n
  BY <1>1 DEF ReaderState
<1>3. reader' = [reader EXCEPT ![r] = [reader[r] EXCEPT !.pc = label]]
  OBVIOUS
<1>4. \A x \in Readers : reader'[x].n = reader[x].n
  BY <1>2, <1>3 DEF LogTypes
<1> QED
  BY <1>2, <1>3, <1>4 DEF LogTypes, ReadIsWritten

\* No reader runs and the log is empty in the initial state.
LEMMA LogInit == Init => LogTypes
<1> SUFFICES ASSUME Init PROVE LogTypes
  OBVIOUS
<1>1. written \in [Readers -> Nat] /\ \A r \in Readers : written[r] = 0
  BY DEF Init
<1>2. reader \in [Readers -> ReaderState] /\ \A r \in Readers : reader[r].n = 0
  BY DEF Init, ReaderState
<1>3. ReadIsWritten
  BY <1>1, <1>2 DEF ReadIsWritten
<1>4. stdout \in Seq(Chunks) /\ Len(stdout) <= Capacity
  BY StreamsAssumption DEF Init
<1>5. log \in [pc : {"range", "uploaded"}, file : Seq(Chunks)]
  BY DEF Init
<1> QED
  BY <1>1, <1>2, <1>3, <1>4, <1>5 DEF LogTypes

\* Every step keeps the types of the readers, the log and its channel.
LEMMA LogStepTypes == LogTypes /\ [Next]_vars => LogTypes'
<1> SUFFICES ASSUME LogTypes, [Next]_vars PROVE LogTypes'
  OBVIOUS
<1>1. CASE JobAction
  <2>1. CASE DoStart
    <3>1. UNCHANGED <<written, stdout, log>>
      BY <2>1 DEF DoStart
    <3>2. \/ reader' = reader
          \/ reader' = [r \in Readers |->
                          IF r[1] = job.attempt THEN [pc |-> "check", n |-> 0] ELSE reader[r]]
      BY <2>1 DEF DoStart
    <3>3. [pc |-> "check", n |-> 0] \in ReaderState
      BY DEF ReaderState
    <3>4. reader' \in [Readers -> ReaderState]
      BY <3>2, <3>3 DEF LogTypes
    <3>5. ASSUME NEW r \in Readers PROVE reader'[r].n <= written[r]
      <4>1. reader'[r].n = reader[r].n \/ reader'[r].n = 0
        BY <3>2
      <4> QED
        BY <4>1 DEF LogTypes, ReadIsWritten
    <3> QED
      BY <3>1, <3>4, <3>5 DEF LogTypes, ReadIsWritten
  <2>2. CASE CommandWait
    BY <2>2, LogTypes DEF CommandWait, Goto, logs, ttys, LogTypes, ReadIsWritten
  <2>3. CASE CheckTty
    BY <2>3, LogTypes DEF CheckTty, Goto, logs, ttys, LogTypes, ReadIsWritten
  <2>4. CASE WaitForTty
    BY <2>4, LogTypes DEF WaitForTty, Goto, logs, ttys, LogTypes, ReadIsWritten
  <2>5. CASE TtyDone
    BY <2>5, LogTypes DEF TtyDone, Goto, logs, ttys, LogTypes, ReadIsWritten
  <2>6. CASE AttemptEnds
    <3>1. UNCHANGED <<written, reader, log>>
      BY <2>6 DEF AttemptEnds
    <3>2. stdout' = stdout \/ (Len(stdout) < Capacity /\ stdout' = Append(stdout, RetryMark))
      BY <2>6 DEF AttemptEnds
    <3>3. RetryMark \in Chunks
      BY DEF Chunks
    <3>4. stdout' \in Seq(Chunks) /\ Len(stdout') <= Capacity
      <4>1. stdout \in Seq(Chunks) /\ Len(stdout) <= Capacity
        BY DEF LogTypes
      <4> QED
        BY <3>2, <3>3, <4>1, ChannelSend, StreamsAssumption
    <3> QED
      BY <3>1, <3>4 DEF LogTypes, ReadIsWritten
  <2>7. CASE CloseWaits
    BY <2>7, LogTypes DEF CloseWaits, Goto, logs, ttys, LogTypes, ReadIsWritten
  <2>8. CASE Drained
    BY <2>8, LogTypes DEF Drained, Goto, logs, ttys, LogTypes, ReadIsWritten
  <2>9. CASE Close
    BY <2>9, LogTypes DEF Close, Goto, logs, ttys, LogTypes, ReadIsWritten
  <2>10. CASE Release
    BY <2>10, LogTypes DEF Release, Goto, logs, ttys, LogTypes, ReadIsWritten
  <2>11. CASE Kill
    BY <2>11, LogTypes DEF Kill, logs, ttys, LogTypes, ReadIsWritten
  <2>12. CASE ScriptEnds
    BY <2>12, LogTypes DEF ScriptEnds, logs, ttys, LogTypes, ReadIsWritten
  <2>13. CASE Timeout
    BY <2>13, LogTypes DEF Timeout, logs, ttys, LogTypes, ReadIsWritten
  <2> QED
    BY <1>1, <2>1, <2>2, <2>3, <2>4, <2>5, <2>6, <2>7, <2>8, <2>9, <2>10, <2>11,
       <2>12, <2>13 DEF JobAction, JobStep
<1>2. CASE LogAction
  <2>1. ASSUME NEW r \in Readers, CheckContext(r) PROVE LogTypes'
    <3>1. UNCHANGED <<written, stdout, log>>
      BY <2>1 DEF CheckContext
    <3>2. \E label \in {"cut", "read"} : reader' = [reader EXCEPT ![r].pc = label]
      BY <2>1 DEF CheckContext, Leave
    <3>3. reader' \in [Readers -> ReaderState] /\ ReadIsWritten'
      BY <3>1, <3>2, ReaderMoves
    <3> QED
      BY <3>1, <3>3 DEF LogTypes
  <2>2. ASSUME NEW r \in Readers, ReadLog(r) PROVE LogTypes'
    <3>1. UNCHANGED <<written, stdout, log>> /\ reader[r].n < written[r]
          /\ reader' = [reader EXCEPT ![r] = [pc |-> "send", n |-> reader[r].n + 1]]
      BY <2>2 DEF ReadLog
    <3>2. reader[r] \in ReaderState /\ written[r] \in Nat
      BY DEF LogTypes
    <3>3. reader[r].n + 1 \in Nat /\ reader[r].n + 1 <= written[r]
      BY <3>1, <3>2 DEF ReaderState
    <3>4. reader' \in [Readers -> ReaderState]
      BY <3>1, <3>3 DEF LogTypes, ReaderState
    <3>5. \A x \in Readers : reader'[x].n <= written[x]
      BY <3>1, <3>3 DEF LogTypes, ReadIsWritten
    <3> QED
      BY <3>1, <3>4, <3>5 DEF LogTypes, ReadIsWritten
  <2>3. ASSUME NEW r \in Readers, ReadFails(r) PROVE LogTypes'
    <3>1. UNCHANGED <<written, stdout, log>>
      BY <2>3 DEF ReadFails
    <3>2. \E label \in {"eof", "cut"} : reader' = [reader EXCEPT ![r].pc = label]
      BY <2>3 DEF ReadFails, Leave
    <3>3. reader' \in [Readers -> ReaderState] /\ ReadIsWritten'
      BY <3>1, <3>2, ReaderMoves
    <3> QED
      BY <3>1, <3>3 DEF LogTypes
  <2>4. ASSUME NEW r \in Readers, SendLog(r) PROVE LogTypes'
    <3>1. UNCHANGED <<written, log>> /\ Len(stdout) < Capacity /\ stdout' = Append(stdout, r)
      BY <2>4 DEF SendLog
    <3>2. reader' = [reader EXCEPT ![r].pc = "check"]
      BY <2>4 DEF SendLog
    <3>3. reader' \in [Readers -> ReaderState] /\ ReadIsWritten'
      BY <3>1, <3>2, ReaderMoves
    <3>4. stdout' \in Seq(Chunks) /\ Len(stdout') <= Capacity
      <4>1. stdout \in Seq(Chunks) /\ Len(stdout) <= Capacity
        BY DEF LogTypes
      <4>2. r \in Chunks
        BY DEF Chunks
      <4> QED
        BY <3>1, <4>1, <4>2, ChannelSend, StreamsAssumption
    <3> QED
      BY <3>1, <3>3, <3>4 DEF LogTypes
  <2>5. ASSUME NEW r \in Readers, SendLogPanics(r) PROVE LogTypes'
    <3>1. UNCHANGED <<written, stdout, log>>
      BY <2>5 DEF SendLogPanics
    <3>2. \E label \in {"cut"} : reader' = [reader EXCEPT ![r].pc = label]
      BY <2>5 DEF SendLogPanics, Leave
    <3>3. reader' \in [Readers -> ReaderState] /\ ReadIsWritten'
      BY <3>1, <3>2, ReaderMoves
    <3> QED
      BY <3>1, <3>3 DEF LogTypes
  <2>6. CASE ConsumeLog
    <3>1. UNCHANGED <<written, reader>> /\ stdout # <<>> /\ stdout' = Tail(stdout)
      BY <2>6 DEF ConsumeLog
    <3>2. log' = [log EXCEPT !.file = Append(log.file, Head(stdout))]
      BY <2>6 DEF ConsumeLog
    <3>3. stdout \in Seq(Chunks) /\ Len(stdout) <= Capacity
          /\ log \in [pc : {"range", "uploaded"}, file : Seq(Chunks)]
      BY DEF LogTypes
    <3>4. Head(stdout) \in Chunks /\ stdout' \in Seq(Chunks) /\ Len(stdout') <= Capacity
      BY <3>1, <3>3, ChannelReceive, StreamsAssumption
    <3>5. log' \in [pc : {"range", "uploaded"}, file : Seq(Chunks)]
      <4>1. Append(log.file, Head(stdout)) \in Seq(Chunks)
        BY <3>3, <3>4
      <4>2. log' = [pc |-> log.pc, file |-> Append(log.file, Head(stdout))]
        BY <3>2, <3>3
      <4> QED
        BY <3>3, <4>1, <4>2
    <3> QED
      BY <3>1, <3>4, <3>5 DEF LogTypes, ReadIsWritten
  <2>7. CASE UploadLog
    <3>1. UNCHANGED <<written, reader, stdout>> /\ log' = [log EXCEPT !.pc = "uploaded"]
      BY <2>7 DEF UploadLog
    <3>2. log' \in [pc : {"range", "uploaded"}, file : Seq(Chunks)]
      BY <3>1 DEF LogTypes
    <3> QED
      BY <3>1, <3>2 DEF LogTypes, ReadIsWritten
  <2>8. ASSUME NEW r \in Readers, ScriptWrites(r) PROVE LogTypes'
    <3>1. UNCHANGED <<reader, stdout, log>> /\ written' = [written EXCEPT ![r] = written[r] + 1]
      BY <2>8 DEF ScriptWrites
    <3>2. written \in [Readers -> Nat] /\ reader \in [Readers -> ReaderState] /\ ReadIsWritten
      BY DEF LogTypes
    <3>3. written' \in [Readers -> Nat] /\ \A x \in Readers : written'[x] >= written[x]
      BY <3>1, <3>2
    <3>4. ASSUME NEW x \in Readers PROVE reader[x].n <= written'[x]
      <4>1. reader[x].n \in Nat /\ written[x] \in Nat /\ written'[x] \in Nat
        BY <3>2, <3>3 DEF ReaderState
      <4> QED
        BY <3>2, <3>3, <4>1 DEF ReadIsWritten
    <3> QED
      BY <3>1, <3>2, <3>3, <3>4 DEF LogTypes, ReadIsWritten
  <2> QED
    BY <1>2, <2>1, <2>2, <2>3, <2>4, <2>5, <2>6, <2>7, <2>8 DEF LogAction, Reader
<1>3. CASE TerminalAction
  BY <1>3, TerminalActionFrame, LogTypes DEF logs, ttys, LogTypes, ReadIsWritten
<1>4. CASE UNCHANGED vars
  BY <1>4, LogTypes DEF vars, logs, ttys, LogTypes, ReadIsWritten
<1>5. CASE HandleErrors
  BY <1>5, HandlerFrame DEF logs, LogTypes, ReadIsWritten
<1> QED
  BY <1>1, <1>2, <1>3, <1>4, <1>5, NextSplits

TerminalState == {"none", "check", "start", "up", "exited", "gone"}
TtyTypes ==
    /\ {current, shown, waits, queue} \union canceled \subseteq Terms \union {0}
    /\ ttyIn \in Seq(Terms) /\ Len(ttyIn) <= Capacity
    /\ stray \in Nat /\ ttyOut \in 0..Capacity
    /\ term \in [Terms -> TerminalState]
    /\ inWriter \in [Terms -> {"none", "range", "write", "gone"}]

\* No terminal is open in the initial state.
LEMMA TtyInit == Init => TtyTypes
<1> SUFFICES ASSUME Init PROVE TtyTypes
  OBVIOUS
<1>1. ttyIn \in Seq(Terms) /\ Len(ttyIn) <= Capacity /\ stray \in Nat
      /\ ttyOut \in 0..Capacity
  BY StreamsAssumption DEF Init
<1> QED
  BY <1>1 DEF Init, TtyTypes, TerminalState

\* Every step keeps the types of the terminals and their channels.
LEMMA TtyStepTypes == TtyTypes /\ [Next]_vars => TtyTypes'
<1> SUFFICES ASSUME TtyTypes, [Next]_vars PROVE TtyTypes'
  OBVIOUS
<1>1. CASE JobAction
  <2>1. CASE DoStart
    BY <2>1, TtyTypes DEF DoStart, Goto, logs, ttys, TtyTypes
  <2>2. CASE CommandWait
    BY <2>2, TtyTypes DEF CommandWait, Goto, logs, ttys, TtyTypes
  <2>3. CASE CheckTty
    BY <2>3, TtyTypes DEF CheckTty, Goto, logs, ttys, TtyTypes
  <2>4. CASE WaitForTty
    <3>1. UNCHANGED <<current, shown, queue, canceled, ttyIn, stray, ttyOut, term, inWriter>>
      BY <2>4 DEF WaitForTty, Goto, logs, ttys
    <3>2. waits' = current
      BY <2>4 DEF WaitForTty, Goto
    <3>3. waits' \in Terms \union {0}
      BY <3>2 DEF TtyTypes, TerminalState
    <3> QED
      BY <3>1, <3>3 DEF TtyTypes
  <2>5. CASE TtyDone
    BY <2>5, TtyTypes DEF TtyDone, Goto, logs, ttys, TtyTypes
  <2>6. CASE AttemptEnds
    BY <2>6, TtyTypes DEF AttemptEnds, logs, ttys, TtyTypes
  <2>7. CASE CloseWaits
    BY <2>7, TtyTypes DEF CloseWaits, Goto, logs, ttys, TtyTypes
  <2>8. CASE Drained
    BY <2>8, TtyTypes DEF Drained, Goto, logs, ttys, TtyTypes
  <2>9. CASE Close
    BY <2>9, TtyTypes DEF Close, Goto, logs, ttys, TtyTypes
  <2>10. CASE Release
    BY <2>10, TtyTypes DEF Release, Goto, logs, ttys, TtyTypes
  <2>11. CASE Kill
    BY <2>11, TtyTypes DEF Kill, logs, ttys, TtyTypes
  <2>12. CASE ScriptEnds
    BY <2>12, TtyTypes DEF ScriptEnds, logs, ttys, TtyTypes
  <2>13. CASE Timeout
    BY <2>13, TtyTypes DEF Timeout, logs, ttys, TtyTypes
  <2> QED
    BY <1>1, <2>1, <2>2, <2>3, <2>4, <2>5, <2>6, <2>7, <2>8, <2>9, <2>10, <2>11,
       <2>12, <2>13 DEF JobAction, JobStep
<1>2. CASE LogAction
  BY <1>2, LogActionFrame, TtyTypes DEF logs, ttys, TtyTypes
<1>3. CASE TerminalAction
  <2>1. ASSUME NEW t \in Terms, OpenTty(t) PROVE TtyTypes'
    <3>1. UNCHANGED <<current, shown, waits, queue, canceled, ttyIn, stray, ttyOut, inWriter>>
      BY <2>1 DEF OpenTty, logs, ttys
    <3>2. term' = [term EXCEPT ![t] = "check"]
      BY <2>1 DEF OpenTty
    <3>3. term' \in [Terms -> TerminalState]
      BY <3>2 DEF TtyTypes, TerminalState
    <3> QED
      BY <3>1, <3>3 DEF TtyTypes
  <2>2. CASE TypeInput
    <3>1. UNCHANGED <<current, shown, waits, canceled, stray, ttyOut, term, inWriter>> /\ current # 0
      BY <2>2 DEF TypeInput, logs, IsInteracting
    <3>2. /\ queue' \in {queue, current}
          /\ ttyIn' = ttyIn \/ (Len(ttyIn) < Capacity /\ ttyIn' = Append(ttyIn, current))
      BY <2>2 DEF TypeInput
    <3>3. current \in Terms
      BY <3>1 DEF TtyTypes
    <3>4. ttyIn' \in Seq(Terms) /\ Len(ttyIn') <= Capacity
      <4>1. ttyIn \in Seq(Terms) /\ Len(ttyIn) <= Capacity
        BY DEF TtyTypes
      <4> QED
        BY <3>2, <3>3, <4>1, ChannelSend, StreamsAssumption
    <3> QED
      BY <3>1, <3>2, <3>3, <3>4 DEF TtyTypes
  <2>3. CASE StopTty
    <3>1. UNCHANGED <<current, shown, waits, queue, canceled, ttyIn, stray, ttyOut, inWriter>>
      BY <2>3 DEF StopTty, logs, ttys
    <3>2. term' = [term EXCEPT ![shown] = "exited"]
      BY <2>3 DEF StopTty
    <3>3. term' \in [Terms -> TerminalState]
      BY <3>2 DEF TtyTypes, TerminalState
    <3> QED
      BY <3>1, <3>3 DEF TtyTypes
  <2>4. CASE InputUnblocks
    <3>1. UNCHANGED <<current, shown, waits, canceled, stray, ttyOut, term, inWriter>> /\ queue # 0 /\ queue' = 0
      BY <2>4 DEF InputUnblocks, logs
    <3>2. ttyIn' = ttyIn \/ (Len(ttyIn) < Capacity /\ ttyIn' = Append(ttyIn, queue))
      BY <2>4 DEF InputUnblocks
    <3>3. queue \in Terms
      BY <3>1 DEF TtyTypes
    <3>4. ttyIn' \in Seq(Terms) /\ Len(ttyIn') <= Capacity
      <4>1. ttyIn \in Seq(Terms) /\ Len(ttyIn) <= Capacity
        BY DEF TtyTypes
      <4> QED
        BY <3>2, <3>3, <4>1, ChannelSend, StreamsAssumption
    <3> QED
      BY <3>1, <3>4 DEF TtyTypes
  <2>5. ASSUME NEW t \in Terms, StartTtyFails(t) PROVE TtyTypes'
    <3>1. UNCHANGED <<current, waits, queue, canceled, ttyIn, stray, ttyOut, inWriter>>
      BY <2>5 DEF StartTtyFails, logs, ttys
    <3>2. term' = [term EXCEPT ![t] = "gone"] /\ shown' = 0
      BY <2>5 DEF StartTtyFails
    <3>3. term' \in [Terms -> TerminalState] /\ shown' \in Terms \union {0}
      BY <3>2 DEF TtyTypes, TerminalState
    <3> QED
      BY <3>1, <3>3 DEF TtyTypes
  <2>6. ASSUME NEW t \in Terms, CheckInteracting(t) PROVE TtyTypes'
    <3>1. UNCHANGED <<current, shown, waits, queue, canceled, ttyIn, stray, ttyOut, inWriter>>
      BY <2>6 DEF CheckInteracting, logs, ttys
    <3>2. term' = [term EXCEPT ![t] = "start"]
      BY <2>6 DEF CheckInteracting
    <3>3. term' \in [Terms -> TerminalState]
      BY <3>2 DEF TtyTypes, TerminalState
    <3> QED
      BY <3>1, <3>3 DEF TtyTypes
  <2>7. ASSUME NEW t \in Terms, StartTty(t) PROVE TtyTypes'
    <3>1. UNCHANGED <<waits, queue, canceled, ttyIn, stray, ttyOut>>
      BY <2>7 DEF StartTty, logs
    <3>2. /\ term' = [term EXCEPT ![t] = "up"]
          /\ current' = t /\ shown' = t
          /\ inWriter' = [inWriter EXCEPT ![t] = "range"]
      BY <2>7 DEF StartTty
    <3>3. term' \in [Terms -> TerminalState]
          /\ inWriter' \in [Terms -> {"none", "range", "write", "gone"}]
      BY <3>2 DEF TtyTypes, TerminalState
    <3> QED
      BY <3>1, <3>2, <3>3 DEF TtyTypes
  <2>8. ASSUME NEW t \in Terms, Hangup(t) PROVE TtyTypes'
    <3>1. UNCHANGED <<waits, queue, ttyIn, stray, ttyOut, inWriter>>
      BY <2>8 DEF Hangup, logs
    <3>2. /\ term' = [term EXCEPT ![t] = "gone"]
          /\ canceled' = canceled \union ({current} \ {0})
          /\ current' = 0 /\ shown' = 0
      BY <2>8 DEF Hangup
    <3>3. term' \in [Terms -> TerminalState]
      BY <3>2 DEF TtyTypes, TerminalState
    <3>4. {current', shown'} \union canceled' \subseteq Terms \union {0}
      BY <3>2 DEF TtyTypes
    <3> QED
      BY <3>1, <3>3, <3>4 DEF TtyTypes
  <2>9. ASSUME NEW t \in Terms, WriteTtyIn(t) PROVE TtyTypes'
    <3>1. UNCHANGED <<current, shown, waits, queue, canceled, ttyOut, term>>
      BY <2>9 DEF WriteTtyIn, logs
    <3>2. ttyIn # <<>> /\ ttyIn' = Tail(ttyIn)
          /\ \/ inWriter' = inWriter
             \/ \E label \in {"gone", "write"} : inWriter' = [inWriter EXCEPT ![t] = label]
      BY <2>9 DEF WriteTtyIn
    <3>3. stray' = stray + (IF Head(ttyIn) \in Up \ {t} THEN 1 ELSE 0)
      BY <2>9 DEF WriteTtyIn
    <3>4. stray' \in Nat
      BY <3>3 DEF TtyTypes
    <3>5. ttyIn' \in Seq(Terms) /\ Len(ttyIn') <= Capacity
      <4>1. ttyIn \in Seq(Terms) /\ Len(ttyIn) <= Capacity
        BY DEF TtyTypes
      <4> QED
        BY <3>2, <4>1, ChannelReceive, StreamsAssumption
    <3>6. inWriter' \in [Terms -> {"none", "range", "write", "gone"}]
      BY <3>2 DEF TtyTypes
    <3> QED
      BY <3>1, <3>4, <3>5, <3>6 DEF TtyTypes
  <2>10. ASSUME NEW t \in Terms, WriterLeaves(t) PROVE TtyTypes'
    <3>1. UNCHANGED <<current, shown, waits, queue, canceled, ttyIn, stray, ttyOut, term>>
      BY <2>10 DEF WriterLeaves, logs, ttys
    <3>2. inWriter' = [inWriter EXCEPT ![t] = "gone"]
      BY <2>10 DEF WriterLeaves
    <3>3. inWriter' \in [Terms -> {"none", "range", "write", "gone"}]
      BY <3>2 DEF TtyTypes, TerminalState
    <3> QED
      BY <3>1, <3>3 DEF TtyTypes
  <2>11. ASSUME NEW t \in Terms, ReadTty(t) PROVE TtyTypes'
    BY <2>11, TtyTypes DEF ReadTty, logs, ttys, TtyTypes
  <2>12. ASSUME NEW t \in Terms, SendTty(t) PROVE TtyTypes'
    <3>1. UNCHANGED <<current, shown, waits, queue, canceled, ttyIn, stray, term, inWriter>>
      BY <2>12 DEF SendTty, logs
    <3>2. ttyOut' = ttyOut \/ (ttyOut < Capacity /\ ttyOut' = ttyOut + 1)
      BY <2>12 DEF SendTty
    <3>3. ttyOut' \in 0..Capacity
      BY <3>2, StreamsAssumption DEF TtyTypes
    <3> QED
      BY <3>1, <3>3 DEF TtyTypes
  <2>13. ASSUME NEW t \in Terms, BashExits(t) PROVE TtyTypes'
    <3>1. UNCHANGED <<current, shown, waits, queue, canceled, ttyIn, stray, ttyOut, inWriter>>
      BY <2>13 DEF BashExits, logs, ttys
    <3>2. term' = [term EXCEPT ![t] = "exited"]
      BY <2>13 DEF BashExits
    <3>3. term' \in [Terms -> TerminalState]
      BY <3>2 DEF TtyTypes, TerminalState
    <3> QED
      BY <3>1, <3>3 DEF TtyTypes
  <2>14. CASE ConsumeTty
    <3>1. UNCHANGED <<current, shown, waits, queue, canceled, ttyIn, stray, term, inWriter>> /\ ttyOut > 0 /\ ttyOut' = ttyOut - 1
      BY <2>14 DEF ConsumeTty, logs
    <3>2. ttyOut' \in 0..Capacity
      BY <3>1, StreamsAssumption DEF TtyTypes
    <3> QED
      BY <3>1, <3>2 DEF TtyTypes
  <2> QED
    BY <1>3, <2>1, <2>2, <2>3, <2>4, <2>5, <2>6, <2>7, <2>8, <2>9, <2>10, <2>11,
       <2>12, <2>13, <2>14 DEF TerminalAction, Terminal
<1>4. CASE UNCHANGED vars
  BY <1>4, TtyTypes DEF vars, logs, ttys, TtyTypes
<1>5. CASE HandleErrors
  <2>1. /\ UNCHANGED <<current, shown, waits, queue, canceled, ttyIn, stray, ttyOut, inWriter>>
        /\ term' = term \/ term' = [term EXCEPT ![shown] = "exited"]
    BY <1>5, HandlerFrame
  <2>2. term' \in [Terms -> TerminalState]
    BY <2>1 DEF TtyTypes, TerminalState
  <2> QED
    BY <2>1, <2>2 DEF TtyTypes
<1> QED
  BY <1>1, <1>2, <1>3, <1>4, <1>5, NextSplits

-----------------------------------------------------------------------------
(***************************************************************************)
(* The readers of an attempt: they come with it, and one that sees the end *)
(* of its pipe has read all that was and will be written to it             *)
(***************************************************************************)
Started(r) == r[1] < job.attempt \/ (r[1] = job.attempt /\ job.pc # "attempt")
ReaderOrder(r) ==
    /\ reader[r].pc # "none" => Started(r)
    /\ reader[r].pc = "none" => reader[r].n = 0
    /\ reader[r].pc = "eof" =>
         reader[r].n = written[r] /\ (r[1] = job.attempt => bash # "runs")
OrderInv ==
    /\ \A r \in Readers : ReaderOrder(r)
    /\ job.pc = "attempt" => bash = "none"

\* A reader belongs to one of the attempts.
LEMMA AttemptOfReader == \A r \in Readers : r[1] \in 1..(MaxRetry + 1) /\ r[1] \in Nat
BY StreamsAssumption DEF Readers

\* the job goes on in its attempt
LEMMA StartedStays ==
    ASSUME JobTypes, NEW label, label # "attempt", job.pc # "attempt",
           job' = [job EXCEPT !.pc = label]
    PROVE  /\ job'.attempt = job.attempt /\ job'.pc # "attempt"
           /\ \A r : Started(r)' <=> Started(r)
<1>1. job'.attempt = job.attempt /\ job'.pc = label
  BY DEF JobTypes
<1> QED
  BY <1>1 DEF Started

\* Going to another label within the attempt keeps the order of the attempts.
LEMMA OrderOfJob ==
    ASSUME JobTypes, OrderInv, NEW label, label # "attempt", job.pc # "attempt",
           job' = [job EXCEPT !.pc = label], UNCHANGED <<reader, written, bash>>
    PROVE  OrderInv'
<1>1. /\ job'.attempt = job.attempt /\ job'.pc # "attempt"
      /\ \A r : Started(r)' <=> Started(r)
  BY StartedStays
<1> QED
  BY <1>1 DEF OrderInv, ReaderOrder

\* a reader at work takes another label
LEMMA OrderOfReader ==
    ASSUME LogTypes, OrderInv, NEW r \in Readers, NEW label \in {"check", "read", "send", "cut"},
           reader[r].pc # "none",
           reader' = [reader EXCEPT ![r].pc = label], UNCHANGED <<written, job, bash>>
    PROVE  OrderInv'
<1>1. ASSUME NEW x \in Readers PROVE ReaderOrder(x)'
  <2>1. CASE x = r
    <3>1. reader'[x].pc = label
      BY <2>1 DEF LogTypes, ReaderState
    <3>2. Started(x)
      BY <2>1 DEF OrderInv, ReaderOrder
    <3> QED
      BY <3>1, <3>2 DEF ReaderOrder, Started
  <2>2. CASE x # r
    <3>1. reader'[x] = reader[x]
      BY <2>2 DEF LogTypes
    <3> QED
      BY <3>1 DEF OrderInv, ReaderOrder, Started
  <2> QED
    BY <2>1, <2>2
<1> QED
  BY <1>1 DEF OrderInv

\* Every step keeps the order of the attempts and of their readers.
LEMMA OrderStep == JobTypes /\ LogTypes /\ OrderInv /\ [Next]_vars => OrderInv'
<1> SUFFICES ASSUME JobTypes, LogTypes, OrderInv, [Next]_vars PROVE OrderInv'
  OBVIOUS
<1>1. CASE JobAction
  <2>1. CASE DoStart
    <3>1. job.pc = "attempt" /\ written' = written
          /\ \E label \in {"wait", "ended"} : job' = [job EXCEPT !.pc = label]
      BY <2>1 DEF DoStart, Goto
    <3>2. job'.attempt = job.attempt /\ job'.pc # "attempt"
      BY <3>1 DEF JobTypes
    <3>3. \/ reader' = reader /\ bash' = bash
          \/ reader' = [r \in Readers |->
                          IF r[1] = job.attempt THEN [pc |-> "check", n |-> 0] ELSE reader[r]]
      BY <2>1 DEF DoStart
    <3>4. ASSUME NEW r \in Readers PROVE ReaderOrder(r)'
      <4>1. Started(r) => Started(r)'
        BY <3>2 DEF Started
      <4>2. CASE r[1] = job.attempt
        <5>1. ~Started(r)
          BY <3>1, <4>2, AttemptOfReader DEF Started
        <5>2. reader[r].pc = "none" /\ reader[r].n = 0
          BY <5>1 DEF OrderInv, ReaderOrder
        <5>3. reader'[r] = reader[r] \/ reader'[r] = [pc |-> "check", n |-> 0]
          BY <3>3, <4>2
        <5>4. Started(r)'
          BY <3>2, <4>2 DEF Started
        <5> QED
          BY <5>2, <5>3, <5>4 DEF ReaderOrder
      <4>3. CASE r[1] # job.attempt
        <5>1. reader'[r] = reader[r]
          BY <3>3, <4>3
        <5> QED
          BY <3>1, <3>2, <4>1, <4>3, <5>1 DEF OrderInv, ReaderOrder
      <4> QED
        BY <4>2, <4>3
    <3> QED
      BY <3>2, <3>4 DEF OrderInv
  <2>2. CASE CommandWait
    <3>1. UNCHANGED <<reader, written, bash>> /\ job.pc = "wait"
      BY <2>2 DEF CommandWait, logs, ttys
    <3>2. \E label \in {"tty"} : job' = [job EXCEPT !.pc = label]
      BY <2>2 DEF CommandWait, Goto
    <3> QED
      BY <3>1, <3>2, OrderOfJob
  <2>3. CASE CheckTty
    <3>1. UNCHANGED <<reader, written, bash>> /\ job.pc = "tty"
      BY <2>3 DEF CheckTty, logs, ttys
    <3>2. \E label \in {"ttyWait", "ended"} : job' = [job EXCEPT !.pc = label]
      BY <2>3 DEF CheckTty, Goto
    <3> QED
      BY <3>1, <3>2, OrderOfJob
  <2>4. CASE WaitForTty
    <3>1. UNCHANGED <<reader, written, bash>> /\ job.pc = "ttyWait"
      BY <2>4 DEF WaitForTty, logs, ttys
    <3>2. \E label \in {"ended", "ttyDone"} : job' = [job EXCEPT !.pc = label]
      BY <2>4 DEF WaitForTty, Goto
    <3> QED
      BY <3>1, <3>2, OrderOfJob
  <2>5. CASE TtyDone
    <3>1. UNCHANGED <<reader, written, bash>> /\ job.pc = "ttyDone"
      BY <2>5 DEF TtyDone, logs, ttys
    <3>2. \E label \in {"ended"} : job' = [job EXCEPT !.pc = label]
      BY <2>5 DEF TtyDone, Goto
    <3> QED
      BY <3>1, <3>2, OrderOfJob
  <2>6. CASE AttemptEnds
    <3>1. UNCHANGED <<reader, written>> /\ job.pc = "ended"
      BY <2>6 DEF AttemptEnds
    <3>2. CASE job' = [job EXCEPT !.pc = "attempt", !.attempt = @ + 1] /\ bash' = "none"
      <4>1. job'.attempt = job.attempt + 1 /\ job'.pc = "attempt" /\ job.attempt \in Nat
        BY <3>2 DEF JobTypes
      <4>2. ASSUME NEW r \in Readers PROVE Started(r) => Started(r)'
        BY <3>1, <4>1, AttemptOfReader DEF Started
      <4> QED
        BY <3>1, <3>2, <4>1, <4>2 DEF OrderInv, ReaderOrder
    <3>3. CASE job' = [job EXCEPT !.pc = "close", !.logSize = logSize] /\ bash' = bash
      <4>1. job'.attempt = job.attempt /\ job'.pc = "close"
        BY <3>3 DEF JobTypes
      <4>2. \A r : Started(r) <=> Started(r)'
        BY <3>1, <4>1 DEF Started
      <4> QED
        BY <3>1, <3>3, <4>1, <4>2 DEF OrderInv, ReaderOrder
    <3> QED
      BY <2>6, <3>2, <3>3 DEF AttemptEnds
  <2>7. CASE CloseWaits
    <3>1. UNCHANGED <<reader, written, bash>> /\ job.pc = "close"
      BY <2>7 DEF CloseWaits, logs, ttys
    <3>2. \E label \in {"drain", "closing"} : job' = [job EXCEPT !.pc = label]
      BY <2>7 DEF CloseWaits, Goto
    <3> QED
      BY <3>1, <3>2, OrderOfJob
  <2>8. CASE Drained
    <3>1. UNCHANGED <<reader, written, bash>> /\ job.pc = "drain"
      BY <2>8 DEF Drained, logs, ttys
    <3>2. \E label \in {"closing"} : job' = [job EXCEPT !.pc = label]
      BY <2>8 DEF Drained, Goto
    <3> QED
      BY <3>1, <3>2, OrderOfJob
  <2>9. CASE Close
    <3>1. UNCHANGED <<reader, written, bash>> /\ job.pc = "closing"
      BY <2>9 DEF Close, logs, ttys
    <3>2. \E label \in {"closed"} : job' = [job EXCEPT !.pc = label]
      BY <2>9 DEF Close, Goto
    <3> QED
      BY <3>1, <3>2, OrderOfJob
  <2>10. CASE Release
    <3>1. UNCHANGED <<reader, written, bash>> /\ job.pc = "closed"
      BY <2>10 DEF Release, logs, ttys
    <3>2. \E label \in {"done"} : job' = [job EXCEPT !.pc = label]
      BY <2>10 DEF Release, Goto
    <3> QED
      BY <3>1, <3>2, OrderOfJob
  <2>11. CASE Kill
    BY <2>11, OrderInv DEF Kill, logs, ttys, OrderInv, ReaderOrder, Started
  <2>12. CASE ScriptEnds
    <3>1. UNCHANGED <<reader, job, written>> /\ bash = "runs" /\ bash' = "exited"
      BY <2>12 DEF ScriptEnds, logs
    <3> QED
      BY <3>1 DEF OrderInv, ReaderOrder, Started
  <2>13. CASE Timeout
    BY <2>13, OrderInv DEF Timeout, logs, ttys, OrderInv, ReaderOrder, Started
  <2> QED
    BY <1>1, <2>1, <2>2, <2>3, <2>4, <2>5, <2>6, <2>7, <2>8, <2>9, <2>10, <2>11,
       <2>12, <2>13 DEF JobAction, JobStep
<1>2. CASE LogAction
  <2>1. ASSUME NEW r \in Readers, CheckContext(r) PROVE OrderInv'
    <3>1. UNCHANGED <<written, job, bash>> /\ reader[r].pc = "check"
      BY <2>1 DEF CheckContext
    <3>2. \E label \in {"cut", "read"} : reader' = [reader EXCEPT ![r].pc = label]
      BY <2>1 DEF CheckContext, Leave
    <3> QED
      BY <3>1, <3>2, OrderOfReader
  <2>2. ASSUME NEW r \in Readers, ReadLog(r) PROVE OrderInv'
    <3>1. UNCHANGED <<written, job, bash>> /\ reader[r].pc = "read"
          /\ reader' = [reader EXCEPT ![r] = [pc |-> "send", n |-> reader[r].n + 1]]
      BY <2>2 DEF ReadLog
    <3>2. ASSUME NEW x \in Readers PROVE ReaderOrder(x)'
      <4>1. CASE x = r
        <5>1. reader'[x].pc = "send" /\ Started(x)
          BY <3>1, <4>1 DEF LogTypes, OrderInv, ReaderOrder
        <5> QED
          BY <3>1, <5>1 DEF ReaderOrder, Started
      <4>2. CASE x # r
        <5>1. reader'[x] = reader[x]
          BY <3>1, <4>2 DEF LogTypes
        <5> QED
          BY <3>1, <5>1 DEF OrderInv, ReaderOrder, Started
      <4> QED
        BY <4>1, <4>2
    <3> QED
      BY <3>1, <3>2 DEF OrderInv
  <2>3. ASSUME NEW r \in Readers, ReadFails(r) PROVE OrderInv'
    <3>1. UNCHANGED <<written, job, bash>> /\ reader[r].pc = "read"
      BY <2>3 DEF ReadFails
    <3>2. CASE reader' = [reader EXCEPT ![r].pc = "cut"]
      BY <3>1, <3>2, OrderOfReader
    <3>3. CASE /\ reader' = [reader EXCEPT ![r].pc = "eof"]
               /\ bash = "exited" /\ reader[r].n = written[r]
      <4>1. ASSUME NEW x \in Readers PROVE ReaderOrder(x)'
        <5>1. CASE x = r
          <6>1. reader'[x].pc = "eof" /\ reader'[x].n = reader[x].n
            BY <3>3, <5>1 DEF LogTypes, ReaderState
          <6>2. Started(x)
            BY <3>1, <5>1 DEF OrderInv, ReaderOrder
          <6> QED
            BY <3>1, <3>3, <5>1, <6>1, <6>2 DEF ReaderOrder, Started
        <5>2. CASE x # r
          <6>1. reader'[x] = reader[x]
            BY <3>3, <5>2 DEF LogTypes
          <6> QED
            BY <3>1, <6>1 DEF OrderInv, ReaderOrder, Started
        <5> QED
          BY <5>1, <5>2
      <4> QED
        BY <3>1, <4>1 DEF OrderInv
    <3> QED
      BY <2>3, <3>2, <3>3 DEF ReadFails, Leave
  <2>4. ASSUME NEW r \in Readers, SendLog(r) PROVE OrderInv'
    <3>1. UNCHANGED <<written, job, bash>> /\ reader[r].pc = "send"
      BY <2>4 DEF SendLog
    <3>2. \E label \in {"check"} : reader' = [reader EXCEPT ![r].pc = label]
      BY <2>4 DEF SendLog
    <3> QED
      BY <3>1, <3>2, OrderOfReader
  <2>5. ASSUME NEW r \in Readers, SendLogPanics(r) PROVE OrderInv'
    <3>1. UNCHANGED <<written, job, bash>> /\ reader[r].pc = "send"
      BY <2>5 DEF SendLogPanics
    <3>2. \E label \in {"cut"} : reader' = [reader EXCEPT ![r].pc = label]
      BY <2>5 DEF SendLogPanics, Leave
    <3> QED
      BY <3>1, <3>2, OrderOfReader
  <2>6. CASE ConsumeLog
    BY <2>6, OrderInv DEF ConsumeLog, logs, ttys, OrderInv, ReaderOrder, Started
  <2>7. CASE UploadLog
    BY <2>7, OrderInv DEF UploadLog, logs, ttys, OrderInv, ReaderOrder, Started
  <2>8. ASSUME NEW r \in Readers, ScriptWrites(r) PROVE OrderInv'
    <3>1. UNCHANGED <<reader, job, bash>> /\ bash = "runs" /\ r[1] = job.attempt
          /\ written' = [written EXCEPT ![r] = written[r] + 1]
      BY <2>8 DEF ScriptWrites
    <3>2. ASSUME NEW x \in Readers PROVE ReaderOrder(x)'
      <4>1. x = r => reader[x].pc # "eof"
        BY <3>1 DEF OrderInv, ReaderOrder
      <4>2. x # r => written'[x] = written[x]
        BY <3>1 DEF LogTypes
      <4> QED
        BY <3>1, <4>1, <4>2 DEF OrderInv, ReaderOrder, Started
    <3> QED
      BY <3>1, <3>2 DEF OrderInv
  <2> QED
    BY <1>2, <2>1, <2>2, <2>3, <2>4, <2>5, <2>6, <2>7, <2>8 DEF LogAction, Reader
<1>3. CASE TerminalAction
  BY <1>3, TerminalActionFrame,
     OrderInv DEF logs, ttys, OrderInv, ReaderOrder, Started
<1>4. CASE UNCHANGED vars
  BY <1>4, OrderInv DEF vars, logs, ttys, OrderInv, ReaderOrder, Started
<1>5. CASE HandleErrors
  <2>1. /\ UNCHANGED <<reader, job, written>>
        /\ bash' = bash \/ (bash = "runs" /\ bash' = "exited")
    BY <1>5, HandlerFrame DEF logs
  <2>2. \A r \in Readers : ReaderOrder(r)'
    BY <2>1 DEF OrderInv, ReaderOrder, Started
  <2>3. job'.pc = "attempt" => bash' = "none"
    BY <2>1 DEF OrderInv
  <2> QED
    BY <2>2, <2>3 DEF OrderInv
<1> QED
  BY <1>1, <1>2, <1>3, <1>4, <1>5, NextSplits

-----------------------------------------------------------------------------
(***************************************************************************)
(* stdOutWg counts the readers that have not gone, and those that were     *)
(* never started                                                           *)
(***************************************************************************)
Waited == {r \in Readers : Started(r) /\ reader[r].pc \notin {"eof", "cut"}}
WaitInv == wg = Cardinality(Waited)

\* There are finitely many readers, and finitely many are waited for.
LEMMA ReadersFinite ==
    /\ IsFiniteSet(Readers) /\ Cardinality(Readers) \in Nat
    /\ IsFiniteSet(Waited) /\ Cardinality(Waited) \in Nat
<1>1. IsFiniteSet(1..(MaxRetry + 1)) /\ IsFiniteSet(Pipes)
  BY StreamsAssumption, FS_Interval
<1>2. IsFiniteSet(Readers)
  BY <1>1, FS_Product DEF Readers
<1>3. Waited \in SUBSET Readers
  BY DEF Waited
<1> QED
  BY <1>2, <1>3, FS_Subset, FS_CardinalityType

\* An attempt has one reader for each pipe.
LEMMA PipesOfAttempt ==
    ASSUME NEW a
    PROVE  /\ IsFiniteSet({a} \X Pipes)
           /\ Cardinality({a} \X Pipes) = Cardinality(Pipes)
<1> DEFINE pair == [x \in Pipes |-> <<a, x>>]
<1>1. pair \in Bijection(Pipes, {a} \X Pipes)
  BY DEF Bijection, Injection, Surjection, IsInjective
<1> QED
  BY <1>1, FS_Bijection, StreamsAssumption DEF ExistsBijection

\* a reader that leaves is counted no more, another label changes nothing
LEMMA WaitedOfReader ==
    ASSUME LogTypes, OrderInv, NEW r \in Readers,
           NEW label \in {"check", "read", "send", "eof", "cut"},
           reader[r].pc \in {"check", "read", "send"},
           reader'[r].pc = label, \A x \in Readers \ {r} : reader'[x] = reader[x],
           job' = job
    PROVE  /\ r \in Waited
           /\ Waited' = IF label \in {"eof", "cut"} THEN Waited \ {r} ELSE Waited
<1>1. Started(r) /\ \A x : Started(x)' <=> Started(x)
  BY DEF OrderInv, ReaderOrder, Started
<1> QED
  BY <1>1 DEF Waited

\* Every step keeps the wait group equal to the readers it waits for.
LEMMA WaitStep == JobTypes /\ LogTypes /\ OrderInv /\ WaitInv /\ [Next]_vars => WaitInv'
<1> SUFFICES ASSUME JobTypes, LogTypes, OrderInv, WaitInv, [Next]_vars PROVE WaitInv'
  OBVIOUS
<1>1. CASE JobAction
  <2>1. CASE DoStart
    <3> DEFINE new == {job.attempt} \X Pipes
    <3>1. job.pc = "attempt" /\ wg' = wg + Cardinality(Pipes)
          /\ \E label \in {"wait", "ended"} : job' = [job EXCEPT !.pc = label]
      BY <2>1 DEF DoStart, Goto
    <3>2. job'.attempt = job.attempt /\ job'.pc # "attempt"
      BY <3>1 DEF JobTypes
    <3>3. \/ reader' = reader
          \/ reader' = [r \in Readers |->
                          IF r[1] = job.attempt THEN [pc |-> "check", n |-> 0] ELSE reader[r]]
      BY <2>1 DEF DoStart
    <3>4. job.attempt \in 1..(MaxRetry + 1)
      BY PlanTypes, StreamsAssumption DEF JobTypes, Attempts
    <3>5. new \subseteq Readers /\ \A r \in Readers : r \in new <=> r[1] = job.attempt
      BY <3>4 DEF Readers
    <3>6. \A r \in new : ~Started(r) /\ Started(r)'
      BY <3>1, <3>2, <3>4, <3>5 DEF Started
    <3>7. ASSUME NEW r \in new PROVE reader'[r].pc \notin {"eof", "cut"}
      <4>1. r \in Readers /\ r[1] = job.attempt /\ reader[r].pc = "none"
        BY <3>5, <3>6 DEF OrderInv, ReaderOrder
      <4>2. reader'[r] = reader[r] \/ reader'[r] = [pc |-> "check", n |-> 0]
        BY <3>3, <4>1
      <4> QED
        BY <4>1, <4>2
    <3>8. \A r \in Readers \ new : reader'[r] = reader[r] /\ (Started(r)' <=> Started(r))
      BY <3>2, <3>3, <3>5 DEF Started
    <3>9. Waited' = Waited \union new /\ Waited \intersect new = {}
      BY <3>5, <3>6, <3>7, <3>8 DEF Waited
    <3>10. Cardinality(Waited') = Cardinality(Waited) + Cardinality(new)
      <4>1. Cardinality(Waited \union new)
              = Cardinality(Waited) + Cardinality(new) - Cardinality(Waited \intersect new)
        BY ReadersFinite, PipesOfAttempt, FS_Union
      <4>2. Cardinality(new) \in Nat
        BY PipesOfAttempt, FS_CardinalityType
      <4>3. Cardinality(Waited \intersect new) = 0
        BY <3>9, FS_EmptySet
      <4>4. Cardinality(Waited') = Cardinality(Waited \union new)
        BY <3>9
      <4>5. Cardinality(Waited) \in Nat
        BY ReadersFinite
      <4> HIDE DEF new
      <4> QED
        BY <4>1, <4>2, <4>3, <4>4, <4>5
    <3> QED
      BY <3>1, <3>10, PipesOfAttempt DEF WaitInv
  <2>2. CASE CommandWait
    <3>1. UNCHANGED <<reader, wg>> /\ job.pc = "wait"
      BY <2>2 DEF CommandWait, logs, ttys
    <3>2. \E label \in {"tty"} : job' = [job EXCEPT !.pc = label]
      BY <2>2 DEF CommandWait, Goto
    <3>3. \A r : Started(r)' <=> Started(r)
      BY <3>1, <3>2, StartedStays
    <3> QED
      BY <3>1, <3>3 DEF WaitInv, Waited
  <2>3. CASE CheckTty
    <3>1. UNCHANGED <<reader, wg>> /\ job.pc = "tty"
      BY <2>3 DEF CheckTty, logs, ttys
    <3>2. \E label \in {"ttyWait", "ended"} : job' = [job EXCEPT !.pc = label]
      BY <2>3 DEF CheckTty, Goto
    <3>3. \A r : Started(r)' <=> Started(r)
      BY <3>1, <3>2, StartedStays
    <3> QED
      BY <3>1, <3>3 DEF WaitInv, Waited
  <2>4. CASE WaitForTty
    <3>1. UNCHANGED <<reader, wg>> /\ job.pc = "ttyWait"
      BY <2>4 DEF WaitForTty, logs, ttys
    <3>2. \E label \in {"ended", "ttyDone"} : job' = [job EXCEPT !.pc = label]
      BY <2>4 DEF WaitForTty, Goto
    <3>3. \A r : Started(r)' <=> Started(r)
      BY <3>1, <3>2, StartedStays
    <3> QED
      BY <3>1, <3>3 DEF WaitInv, Waited
  <2>5. CASE TtyDone
    <3>1. UNCHANGED <<reader, wg>> /\ job.pc = "ttyDone"
      BY <2>5 DEF TtyDone, logs, ttys
    <3>2. \E label \in {"ended"} : job' = [job EXCEPT !.pc = label]
      BY <2>5 DEF TtyDone, Goto
    <3>3. \A r : Started(r)' <=> Started(r)
      BY <3>1, <3>2, StartedStays
    <3> QED
      BY <3>1, <3>3 DEF WaitInv, Waited
  <2>6. CASE AttemptEnds
    <3>1. UNCHANGED <<reader, wg>> /\ job.pc = "ended"
      BY <2>6 DEF AttemptEnds
    <3>2. \/ job' = [job EXCEPT !.pc = "attempt", !.attempt = @ + 1]
          \/ job' = [job EXCEPT !.pc = "close", !.logSize = logSize]
      BY <2>6 DEF AttemptEnds
    <3>3. \/ job'.pc = "attempt" /\ job'.attempt = job.attempt + 1
          \/ job'.pc = "close" /\ job'.attempt = job.attempt
      BY <3>2 DEF JobTypes
    <3>4. job.attempt \in Nat
      BY DEF JobTypes
    <3>5. ASSUME NEW r \in Readers PROVE Started(r)' <=> Started(r)
      BY <3>1, <3>3, <3>4, AttemptOfReader DEF Started
    <3> QED
      BY <3>1, <3>5 DEF WaitInv, Waited
  <2>7. CASE CloseWaits
    <3>1. UNCHANGED <<reader, wg>> /\ job.pc = "close"
      BY <2>7 DEF CloseWaits, logs, ttys
    <3>2. \E label \in {"drain", "closing"} : job' = [job EXCEPT !.pc = label]
      BY <2>7 DEF CloseWaits, Goto
    <3>3. \A r : Started(r)' <=> Started(r)
      BY <3>1, <3>2, StartedStays
    <3> QED
      BY <3>1, <3>3 DEF WaitInv, Waited
  <2>8. CASE Drained
    <3>1. UNCHANGED <<reader, wg>> /\ job.pc = "drain"
      BY <2>8 DEF Drained, logs, ttys
    <3>2. \E label \in {"closing"} : job' = [job EXCEPT !.pc = label]
      BY <2>8 DEF Drained, Goto
    <3>3. \A r : Started(r)' <=> Started(r)
      BY <3>1, <3>2, StartedStays
    <3> QED
      BY <3>1, <3>3 DEF WaitInv, Waited
  <2>9. CASE Close
    <3>1. UNCHANGED <<reader, wg>> /\ job.pc = "closing"
      BY <2>9 DEF Close, logs, ttys
    <3>2. \E label \in {"closed"} : job' = [job EXCEPT !.pc = label]
      BY <2>9 DEF Close, Goto
    <3>3. \A r : Started(r)' <=> Started(r)
      BY <3>1, <3>2, StartedStays
    <3> QED
      BY <3>1, <3>3 DEF WaitInv, Waited
  <2>10. CASE Release
    <3>1. UNCHANGED <<reader, wg>> /\ job.pc = "closed"
      BY <2>10 DEF Release, logs, ttys
    <3>2. \E label \in {"done"} : job' = [job EXCEPT !.pc = label]
      BY <2>10 DEF Release, Goto
    <3>3. \A r : Started(r)' <=> Started(r)
      BY <3>1, <3>2, StartedStays
    <3> QED
      BY <3>1, <3>3 DEF WaitInv, Waited
  <2>11. CASE Kill
    BY <2>11, WaitInv DEF Kill, logs, ttys, WaitInv, Waited, Started
  <2>12. CASE ScriptEnds
    BY <2>12, WaitInv DEF ScriptEnds, logs, ttys, WaitInv, Waited, Started
  <2>13. CASE Timeout
    BY <2>13, WaitInv DEF Timeout, logs, ttys, WaitInv, Waited, Started
  <2> QED
    BY <1>1, <2>1, <2>2, <2>3, <2>4, <2>5, <2>6, <2>7, <2>8, <2>9, <2>10, <2>11,
       <2>12, <2>13 DEF JobAction, JobStep
<1>2. CASE LogAction
  <2>1. ASSUME NEW r \in Readers, CheckContext(r) PROVE WaitInv'
    <3>1. reader[r].pc = "check" /\ job' = job
          /\ \/ \E label \in {"cut"} : reader' = [reader EXCEPT ![r].pc = label] /\ wg' = wg - 1
             \/ reader' = [reader EXCEPT ![r].pc = "read"] /\ wg' = wg
      BY <2>1 DEF CheckContext, Leave
    <3>2. CASE reader' = [reader EXCEPT ![r].pc = "read"] /\ wg' = wg
      <4>1. reader'[r].pc = "read" /\ \A x \in Readers \ {r} : reader'[x] = reader[x]
        BY <3>2 DEF LogTypes, ReaderState
      <4>2. Waited' = Waited
        BY <3>1, <4>1, WaitedOfReader
      <4> QED
        BY <3>2, <4>2 DEF WaitInv
    <3>3. ASSUME NEW label \in {"cut"},
                 reader' = [reader EXCEPT ![r].pc = label], wg' = wg - 1
          PROVE  WaitInv'
      <4>1. reader'[r].pc = label /\ \A x \in Readers \ {r} : reader'[x] = reader[x]
        BY <3>3 DEF LogTypes, ReaderState
      <4>2. r \in Waited /\ Waited' = Waited \ {r}
        BY <3>1, <4>1, WaitedOfReader
      <4>3. Cardinality(Waited') = Cardinality(Waited) - 1
        BY <4>2, ReadersFinite, FS_RemoveElement
      <4> QED
        BY <3>3, <4>3 DEF WaitInv
    <3> QED
      BY <3>1, <3>2, <3>3
  <2>2. ASSUME NEW r \in Readers, ReadLog(r) PROVE WaitInv'
    <3>1. reader[r].pc = "read" /\ UNCHANGED <<job, wg>>
          /\ reader' = [reader EXCEPT ![r] = [pc |-> "send", n |-> reader[r].n + 1]]
      BY <2>2 DEF ReadLog
    <3>2. reader'[r].pc = "send" /\ \A x \in Readers \ {r} : reader'[x] = reader[x]
      BY <3>1 DEF LogTypes
    <3>3. Waited' = Waited
      BY <3>1, <3>2, WaitedOfReader
    <3> QED
      BY <3>1, <3>3 DEF WaitInv
  <2>3. ASSUME NEW r \in Readers, ReadFails(r) PROVE WaitInv'
    <3>1. reader[r].pc = "read" /\ job' = job
          /\ \/ \E label \in {"eof", "cut"} : reader' = [reader EXCEPT ![r].pc = label] /\ wg' = wg - 1
             \/ reader' = [reader EXCEPT ![r].pc = "read"] /\ wg' = wg
      BY <2>3 DEF ReadFails, Leave
    <3>2. CASE reader' = [reader EXCEPT ![r].pc = "read"] /\ wg' = wg
      <4>1. reader'[r].pc = "read" /\ \A x \in Readers \ {r} : reader'[x] = reader[x]
        BY <3>2 DEF LogTypes, ReaderState
      <4>2. Waited' = Waited
        BY <3>1, <4>1, WaitedOfReader
      <4> QED
        BY <3>2, <4>2 DEF WaitInv
    <3>3. ASSUME NEW label \in {"eof", "cut"},
                 reader' = [reader EXCEPT ![r].pc = label], wg' = wg - 1
          PROVE  WaitInv'
      <4>1. reader'[r].pc = label /\ \A x \in Readers \ {r} : reader'[x] = reader[x]
        BY <3>3 DEF LogTypes, ReaderState
      <4>2. r \in Waited /\ Waited' = Waited \ {r}
        BY <3>1, <4>1, WaitedOfReader
      <4>3. Cardinality(Waited') = Cardinality(Waited) - 1
        BY <4>2, ReadersFinite, FS_RemoveElement
      <4> QED
        BY <3>3, <4>3 DEF WaitInv
    <3> QED
      BY <3>1, <3>2, <3>3
  <2>4. ASSUME NEW r \in Readers, SendLog(r) PROVE WaitInv'
    <3>1. reader[r].pc = "send" /\ UNCHANGED <<job, wg>>
          /\ reader' = [reader EXCEPT ![r].pc = "check"]
      BY <2>4 DEF SendLog
    <3>2. reader'[r].pc = "check" /\ \A x \in Readers \ {r} : reader'[x] = reader[x]
      BY <3>1 DEF LogTypes, ReaderState
    <3>3. Waited' = Waited
      BY <3>1, <3>2, WaitedOfReader
    <3> QED
      BY <3>1, <3>3 DEF WaitInv
  <2>5. ASSUME NEW r \in Readers, SendLogPanics(r) PROVE WaitInv'
    <3>1. reader[r].pc = "send" /\ job' = job
          /\ \/ \E label \in {"cut"} : reader' = [reader EXCEPT ![r].pc = label] /\ wg' = wg - 1
             \/ reader' = [reader EXCEPT ![r].pc = "read"] /\ wg' = wg
      BY <2>5 DEF SendLogPanics, Leave
    <3>2. CASE reader' = [reader EXCEPT ![r].pc = "read"] /\ wg' = wg
      <4>1. reader'[r].pc = "read" /\ \A x \in Readers \ {r} : reader'[x] = reader[x]
        BY <3>2 DEF LogTypes, ReaderState
      <4>2. Waited' = Waited
        BY <3>1, <4>1, WaitedOfReader
      <4> QED
        BY <3>2, <4>2 DEF WaitInv
    <3>3. ASSUME NEW label \in {"cut"},
                 reader' = [reader EXCEPT ![r].pc = label], wg' = wg - 1
          PROVE  WaitInv'
      <4>1. reader'[r].pc = label /\ \A x \in Readers \ {r} : reader'[x] = reader[x]
        BY <3>3 DEF LogTypes, ReaderState
      <4>2. r \in Waited /\ Waited' = Waited \ {r}
        BY <3>1, <4>1, WaitedOfReader
      <4>3. Cardinality(Waited') = Cardinality(Waited) - 1
        BY <4>2, ReadersFinite, FS_RemoveElement
      <4> QED
        BY <3>3, <4>3 DEF WaitInv
    <3> QED
      BY <3>1, <3>2, <3>3
  <2>6. CASE ConsumeLog
    BY <2>6, WaitInv DEF ConsumeLog, logs, ttys, WaitInv, Waited, Started
  <2>7. CASE UploadLog
    BY <2>7, WaitInv DEF UploadLog, logs, ttys, WaitInv, Waited, Started
  <2>8. ASSUME NEW r \in Readers, ScriptWrites(r) PROVE WaitInv'
    BY <2>8, WaitInv DEF ScriptWrites, logs, ttys, WaitInv, Waited, Started
  <2> QED
    BY <1>2, <2>1, <2>2, <2>3, <2>4, <2>5, <2>6, <2>7, <2>8 DEF LogAction, Reader
<1>3. CASE TerminalAction
  BY <1>3, TerminalActionFrame, WaitInv DEF logs, ttys, WaitInv, Waited, Started
<1>4. CASE UNCHANGED vars
  BY <1>4, WaitInv DEF vars, logs, ttys, WaitInv, Waited, Started
<1>5. CASE HandleErrors
  BY <1>5, HandlerFrame DEF logs, WaitInv, Waited, Started
<1> QED
  BY <1>1, <1>2, <1>3, <1>4, <1>5, NextSplits

\* No attempt has started a reader in the initial state.
LEMMA OrderInit == Init => OrderInv /\ WaitInv
<1> SUFFICES ASSUME Init PROVE OrderInv /\ WaitInv
  OBVIOUS
<1>1. job.pc = "attempt" /\ job.attempt = 1 /\ bash = "none" /\ wg = 0
      /\ \A r \in Readers : reader[r].pc = "none" /\ reader[r].n = 0
  BY DEF Init
<1>2. \A r \in Readers : ~Started(r)
  BY <1>1, AttemptOfReader DEF Started
<1>3. Waited = {}
  BY <1>2 DEF Waited
<1> QED
  BY <1>1, <1>3, FS_EmptySet DEF OrderInv, ReaderOrder, WaitInv

\* Every variable keeps its type, no channel holds more than it can, and stdOutWg
\* never falls below zero (doStart, writeLog).
THEOREM TypeCorrect == Spec => []TypeOK
<1>1. JobTypes /\ LogTypes /\ TtyTypes /\ WaitInv => TypeOK
  <2> SUFFICES ASSUME JobTypes, LogTypes, TtyTypes, WaitInv PROVE TypeOK
    OBVIOUS
  <2>1. wg \in 0..Cardinality(Readers)
    <3>1. Waited \in SUBSET Readers
      BY DEF Waited
    <3>2. Cardinality(Waited) <= Cardinality(Readers)
      BY <3>1, ReadersFinite, FS_Subset
    <3> QED
      BY <3>2, ReadersFinite DEF WaitInv
  <2>2. \A r \in Readers : /\ reader[r].pc \in {"none", "check", "read", "send", "eof", "cut"}
                           /\ reader[r].n <= written[r]
    BY DEF LogTypes, ReaderState, ReadIsWritten
  <2>3. log.pc \in {"range", "uploaded"} /\ Len(stdout) <= Capacity
    BY DEF LogTypes
  <2>4. /\ plan \in Plans /\ agent \in {"up", "down"}
        /\ job.pc \in {"attempt", "wait", "tty", "ttyWait", "ttyDone", "ended", "close", "drain",
                       "closing", "closed", "done"}
        /\ job.attempt \in Attempts /\ {over, closed, overlap} \subseteq BOOLEAN
        /\ handler \in {"wait", "tty", "process", "done"}
        /\ bash \in {"none", "runs", "exited"} /\ job.logSize <= logSize
    BY DEF JobTypes, JobLabels
  <2>5. /\ Len(ttyIn) <= Capacity /\ ttyOut \in 0..Capacity
        /\ \A t \in Terms : term[t] \in {"none", "check", "start", "up", "exited", "gone"}
        /\ {current, shown, waits, queue} \union canceled \subseteq Terms \union {0}
    BY DEF TtyTypes, TerminalState
  <2> QED
    BY <2>1, <2>2, <2>3, <2>4, <2>5 DEF TypeOK
<1> QED
  BY <1>1, JobInit, LogInit, TtyInit, OrderInit, JobStepTypes, LogStepTypes, TtyStepTypes,
     OrderStep, WaitStep, PTL DEF Spec

-----------------------------------------------------------------------------
(***************************************************************************)
(* Where the chunks are: what a reader has read and not kept for its next  *)
(* send is in the channel or in the file                                   *)
(***************************************************************************)
Sent(r) == IF reader[r].pc = "send" THEN reader[r].n - 1 ELSE reader[r].n
Delivered(C) == Count(log.file, C) + Count(stdout, C)
CountInv ==
    /\ \A r \in Readers : reader[r].pc # "cut" => Delivered({r}) = Sent(r)
    /\ Delivered(Readers) = logSize
    /\ log.pc = "uploaded" => closed /\ stdout = <<>>

\* No chunk is read, sent or uploaded in the initial state.
LEMMA CountInit == Init => CountInv
<1> SUFFICES ASSUME Init PROVE CountInv
  OBVIOUS
<1>1. /\ stdout = <<>> /\ log.file = <<>> /\ log.pc = "range" /\ logSize = 0
      /\ \A r \in Readers : reader[r].pc = "none" /\ reader[r].n = 0
  BY DEF Init
<1>2. \A C : Delivered(C) = 0
  BY <1>1, CountOfEmpty DEF Delivered
<1> QED
  BY <1>1, <1>2 DEF CountInv, Sent

\* The chunks of some readers in the channel and in the file are counted.
LEMMA DeliveredIsNat == ASSUME LogTypes, NEW C PROVE Delivered(C) \in Nat
<1>1. stdout \in Seq(Chunks) /\ log.file \in Seq(Chunks)
  BY DEF LogTypes
<1>2. Count(stdout, C) \in Nat /\ Count(log.file, C) \in Nat
  BY <1>1, CountType
<1> QED
  BY <1>2 DEF Delivered

\* one more chunk in the channel
LEMMA DeliveredOfSend ==
    ASSUME LogTypes, NEW x \in Chunks, stdout' = Append(stdout, x), log' = log, NEW C
    PROVE  Delivered(C)' = Delivered(C) + IF x \in C THEN 1 ELSE 0
<1>1. stdout \in Seq(Chunks) /\ log.file \in Seq(Chunks)
  BY DEF LogTypes
<1>2. Count(stdout, C) \in Nat /\ Count(log.file, C) \in Nat
  BY <1>1, CountType
<1>3. Count(stdout', C) = Count(stdout, C) + IF x \in C THEN 1 ELSE 0
  BY <1>1, CountOfAppend
<1> QED
  BY <1>2, <1>3 DEF Delivered

\* the readers' labels and what they have sent do not change
LEMMA CountKept ==
    ASSUME CountInv, UNCHANGED <<stdout, log, logSize>>, closed => closed',
           \A r \in Readers : reader'[r].pc # "cut" =>
               reader[r].pc # "cut" /\ Sent(r)' = Sent(r)
    PROVE  CountInv'
<1>1. \A C : Delivered(C)' = Delivered(C)
  BY DEF Delivered
<1> QED
  BY <1>1 DEF CountInv

\* Every step keeps what was sent, in the channel or in the file.
LEMMA CountStep ==
    JobTypes /\ LogTypes /\ OrderInv /\ CountInv /\ [Next]_vars => CountInv'
<1> SUFFICES ASSUME JobTypes, LogTypes, OrderInv, CountInv, [Next]_vars PROVE CountInv'
  OBVIOUS
<1>1. CASE JobAction
  <2>1. CASE DoStart
    <3>1. UNCHANGED <<stdout, log, logSize, closed>> /\ job.pc = "attempt"
          /\ \/ reader' = reader
             \/ reader' = [r \in Readers |->
                          IF r[1] = job.attempt THEN [pc |-> "check", n |-> 0] ELSE reader[r]]
      BY <2>1 DEF DoStart, logs
    <3>2. ASSUME NEW r \in Readers, reader'[r].pc # "cut"
          PROVE  reader[r].pc # "cut" /\ Sent(r)' = Sent(r)
      <4>1. CASE reader'[r] = reader[r]
        BY <3>2, <4>1 DEF Sent
      <4>2. CASE r[1] = job.attempt /\ reader'[r] = [pc |-> "check", n |-> 0]
        <5>1. ~Started(r)
          BY <3>1, <4>2, AttemptOfReader DEF Started
        <5>2. reader[r].pc = "none" /\ reader[r].n = 0
          BY <5>1 DEF OrderInv, ReaderOrder
        <5> QED
          BY <4>2, <5>2 DEF Sent
      <4> QED
        BY <3>1, <4>1, <4>2
    <3> QED
      BY <3>1, <3>2, CountKept
  <2>2. CASE CommandWait
    BY <2>2, CountInv DEF CommandWait, Goto, logs, ttys, CountInv, Delivered, Sent
  <2>3. CASE CheckTty
    BY <2>3, CountInv DEF CheckTty, Goto, logs, ttys, CountInv, Delivered, Sent
  <2>4. CASE WaitForTty
    BY <2>4, CountInv DEF WaitForTty, Goto, logs, ttys, CountInv, Delivered, Sent
  <2>5. CASE TtyDone
    BY <2>5, CountInv DEF TtyDone, Goto, logs, ttys, CountInv, Delivered, Sent
  <2>6. CASE AttemptEnds
    <3>1. UNCHANGED <<log, reader, logSize, closed>> /\ job.pc = "ended"
      BY <2>6 DEF AttemptEnds
    <3>2. CASE stdout' = stdout
      BY <3>1, <3>2, CountKept DEF Sent
    <3>3. CASE stdout' = Append(stdout, RetryMark)
      <4>1. RetryMark \in Chunks
        BY DEF Chunks
      <4>2. \A C : RetryMark \notin C => Delivered(C)' = Delivered(C)
        BY <3>1, <3>3, <4>1, DeliveredOfSend, DeliveredIsNat
      <4>3. Delivered(Readers)' = Delivered(Readers)
            /\ \A r \in Readers : Delivered({r})' = Delivered({r})
        BY <4>2, MarkIsNoReader
      <4>4. log.pc # "uploaded"
        BY <3>1 DEF CountInv, JobTypes
      <4> QED
        BY <3>1, <4>3, <4>4 DEF CountInv, Sent
    <3> QED
      BY <2>6, <3>2, <3>3 DEF AttemptEnds
  <2>7. CASE CloseWaits
    BY <2>7, CountInv DEF CloseWaits, Goto, logs, ttys, CountInv, Delivered, Sent
  <2>8. CASE Drained
    BY <2>8, CountInv DEF Drained, Goto, logs, ttys, CountInv, Delivered, Sent
  <2>9. CASE Close
    <3>1. UNCHANGED <<log, stdout, reader, logSize>> /\ closed' = TRUE
      BY <2>9 DEF Close, logs
    <3> QED
      BY <3>1, CountKept DEF Sent
  <2>10. CASE Release
    BY <2>10, CountInv DEF Release, Goto, logs, ttys, CountInv, Delivered, Sent
  <2>11. CASE Kill
    BY <2>11, CountInv DEF Kill, logs, ttys, CountInv, Delivered, Sent
  <2>12. CASE ScriptEnds
    BY <2>12, CountInv DEF ScriptEnds, logs, ttys, CountInv, Delivered, Sent
  <2>13. CASE Timeout
    BY <2>13, CountInv DEF Timeout, logs, ttys, CountInv, Delivered, Sent
  <2> QED
    BY <1>1, <2>1, <2>2, <2>3, <2>4, <2>5, <2>6, <2>7, <2>8, <2>9, <2>10, <2>11,
       <2>12, <2>13 DEF JobAction, JobStep
<1>2. CASE LogAction
  <2>1. ASSUME NEW r \in Readers, CheckContext(r) PROVE CountInv'
    <3>1. UNCHANGED <<stdout, log, logSize, closed>> /\ reader[r].pc = "check"
      BY <2>1 DEF CheckContext
    <3>2. PICK label \in {"cut", "read"} : reader' = [reader EXCEPT ![r].pc = label]
      BY <2>1 DEF CheckContext, Leave
    <3>3. reader'[r].pc = label /\ reader'[r].n = reader[r].n
          /\ \A x \in Readers \ {r} : reader'[x] = reader[x]
      BY <3>2 DEF LogTypes, ReaderState
    <3>4. \A x \in Readers : reader'[x].pc # "cut" =>
              reader[x].pc # "cut" /\ Sent(x)' = Sent(x)
      BY <3>1, <3>3 DEF Sent
    <3> QED
      BY <3>1, <3>4, CountKept
  <2>2. ASSUME NEW r \in Readers, ReadLog(r) PROVE CountInv'
    <3>1. UNCHANGED <<stdout, log, logSize, closed>> /\ reader[r].pc = "read"
          /\ reader' = [reader EXCEPT ![r] = [pc |-> "send", n |-> reader[r].n + 1]]
      BY <2>2 DEF ReadLog
    <3>2. reader'[r].pc = "send" /\ reader'[r].n = reader[r].n + 1 /\ reader[r].n \in Nat
          /\ \A x \in Readers \ {r} : reader'[x] = reader[x]
      BY <3>1 DEF LogTypes, ReaderState
    <3>3. Sent(r)' = Sent(r)
      BY <3>1, <3>2 DEF Sent
    <3>4. \A x \in Readers : reader'[x].pc # "cut" =>
              reader[x].pc # "cut" /\ Sent(x)' = Sent(x)
      BY <3>1, <3>2, <3>3 DEF Sent
    <3> QED
      BY <3>1, <3>4, CountKept
  <2>3. ASSUME NEW r \in Readers, ReadFails(r) PROVE CountInv'
    <3>1. UNCHANGED <<stdout, log, logSize, closed>> /\ reader[r].pc = "read"
      BY <2>3 DEF ReadFails
    <3>2. PICK label \in {"eof", "cut"} : reader' = [reader EXCEPT ![r].pc = label]
      BY <2>3 DEF ReadFails, Leave
    <3>3. reader'[r].pc = label /\ reader'[r].n = reader[r].n
          /\ \A x \in Readers \ {r} : reader'[x] = reader[x]
      BY <3>2 DEF LogTypes, ReaderState
    <3>4. \A x \in Readers : reader'[x].pc # "cut" =>
              reader[x].pc # "cut" /\ Sent(x)' = Sent(x)
      BY <3>1, <3>3 DEF Sent
    <3> QED
      BY <3>1, <3>4, CountKept
  <2>4. ASSUME NEW r \in Readers, SendLog(r) PROVE CountInv'
    <3>1. UNCHANGED <<log, closed>> /\ reader[r].pc = "send" /\ ~closed
          /\ stdout' = Append(stdout, r) /\ logSize' = logSize + 1
          /\ reader' = [reader EXCEPT ![r].pc = "check"]
      BY <2>4 DEF SendLog
    <3>2. reader'[r].pc = "check" /\ reader'[r].n = reader[r].n /\ reader[r].n \in Nat
          /\ \A x \in Readers \ {r} : reader'[x] = reader[x]
      BY <3>1 DEF LogTypes, ReaderState
    <3>3. r \in Chunks
      BY DEF Chunks
    <3>4. \A C : Delivered(C)' = Delivered(C) + (IF r \in C THEN 1 ELSE 0)
      BY <3>1, <3>3, DeliveredOfSend
    <3>5. Delivered(Readers)' = logSize'
      BY <3>1, <3>4 DEF CountInv
    <3>6. ASSUME NEW x \in Readers, reader'[x].pc # "cut" PROVE Delivered({x})' = Sent(x)'
      <4>1. CASE x = r
        <5>1. Delivered({r}) = reader[r].n - 1
          BY <3>1 DEF CountInv, Sent
        <5>2. Delivered({r})' = Delivered({r}) + 1
          BY <3>4
        <5>3. Sent(r)' = reader[r].n
          BY <3>2 DEF Sent
        <5> QED
          BY <3>2, <4>1, <5>1, <5>2, <5>3
      <4>2. CASE x # r
        <5>1. Delivered({x})' = Delivered({x})
          BY <3>4, <4>2, DeliveredIsNat
        <5>2. Sent(x)' = Sent(x) /\ reader[x].pc # "cut"
          BY <3>2, <3>6, <4>2 DEF Sent
        <5> QED
          BY <5>1, <5>2 DEF CountInv
      <4> QED
        BY <4>1, <4>2
    <3> QED
      BY <3>1, <3>5, <3>6 DEF CountInv
  <2>5. ASSUME NEW r \in Readers, SendLogPanics(r) PROVE CountInv'
    <3>1. UNCHANGED <<stdout, log, logSize, closed>> /\ reader[r].pc = "send"
      BY <2>5 DEF SendLogPanics
    <3>2. PICK label \in {"cut"} : reader' = [reader EXCEPT ![r].pc = label]
      BY <2>5 DEF SendLogPanics, Leave
    <3>3. reader'[r].pc = label /\ reader'[r].n = reader[r].n
          /\ \A x \in Readers \ {r} : reader'[x] = reader[x]
      BY <3>2 DEF LogTypes, ReaderState
    <3>4. \A x \in Readers : reader'[x].pc # "cut" =>
              reader[x].pc # "cut" /\ Sent(x)' = Sent(x)
      BY <3>1, <3>3 DEF Sent
    <3> QED
      BY <3>1, <3>4, CountKept
  <2>6. CASE ConsumeLog
    <3>1. UNCHANGED <<reader, logSize, closed>> /\ log.pc = "range"
          /\ stdout # <<>> /\ stdout' = Tail(stdout)
          /\ log' = [log EXCEPT !.file = Append(log.file, Head(stdout))]
      BY <2>6 DEF ConsumeLog
    <3>2. stdout \in Seq(Chunks) /\ log.file \in Seq(Chunks) /\ Head(stdout) \in Chunks
          /\ Tail(stdout) \in Seq(Chunks)
      BY <3>1 DEF LogTypes
    <3>3. log'.file = Append(log.file, Head(stdout)) /\ log'.pc = "range"
      BY <3>1 DEF LogTypes
    <3>4. ASSUME NEW C PROVE Delivered(C)' = Delivered(C)
      <4>1. Count(stdout, C) = Count(Tail(stdout), C) + IF Head(stdout) \in C THEN 1 ELSE 0
        BY <3>1, <3>2, CountOfTail
      <4>2. Count(log'.file, C) = Count(log.file, C) + IF Head(stdout) \in C THEN 1 ELSE 0
        BY <3>2, <3>3, CountOfAppend
      <4>3. Count(Tail(stdout), C) \in Nat /\ Count(log.file, C) \in Nat
        BY <3>2, CountType
      <4> QED
        BY <3>1, <4>1, <4>2, <4>3 DEF Delivered
    <3> QED
      BY <3>1, <3>3, <3>4 DEF CountInv, Sent
  <2>7. CASE UploadLog
    <3>1. UNCHANGED <<reader, stdout, logSize, closed>> /\ closed /\ stdout = <<>>
          /\ log' = [log EXCEPT !.pc = "uploaded"]
      BY <2>7 DEF UploadLog
    <3>2. log'.file = log.file
      BY <3>1 DEF LogTypes
    <3>3. \A C : Delivered(C)' = Delivered(C)
      BY <3>1, <3>2 DEF Delivered
    <3> QED
      BY <3>1, <3>3 DEF CountInv, Sent
  <2>8. ASSUME NEW r \in Readers, ScriptWrites(r) PROVE CountInv'
    BY <2>8, CountInv DEF ScriptWrites, logs, ttys, CountInv, Delivered, Sent
  <2> QED
    BY <1>2, <2>1, <2>2, <2>3, <2>4, <2>5, <2>6, <2>7, <2>8 DEF LogAction, Reader
<1>3. CASE TerminalAction
  BY <1>3, TerminalActionFrame, CountInv DEF logs, ttys, CountInv, Delivered, Sent
<1>4. CASE UNCHANGED vars
  BY <1>4, CountInv DEF vars, logs, ttys, CountInv, Delivered, Sent
<1>5. CASE HandleErrors
  BY <1>5, HandlerFrame DEF logs, CountInv, Delivered, Sent
<1> QED
  BY <1>1, <1>2, <1>3, <1>4, <1>5, NextSplits

\* The log that is uploaded has every chunk of a pipe that was read to its end,
\* and no less than the result has reported (writeLog, Close, consumeShellLog).
THEOREM UploadComplete == Spec => []UploadIsComplete
<1>1. JobTypes /\ LogTypes /\ OrderInv /\ CountInv => UploadIsComplete
  <2> SUFFICES ASSUME JobTypes, LogTypes, OrderInv, CountInv, log.pc = "uploaded"
               PROVE  /\ \A r \in Readers : reader[r].pc = "eof" =>
                            Count(log.file, {r}) = written[r]
                      /\ Count(log.file, Readers) >= job.logSize
    BY DEF UploadIsComplete
  <2>1. log.file \in Seq(Chunks) /\ stdout = <<>>
    BY DEF CountInv, LogTypes
  <2>2. ASSUME NEW C PROVE Delivered(C) = Count(log.file, C)
    <3>1. Count(log.file, C) \in Nat
      BY <2>1, CountType
    <3>2. Count(stdout, C) = 0
      BY <2>1, CountOfEmpty
    <3> QED
      BY <3>1, <3>2 DEF Delivered
  <2>3. ASSUME NEW r \in Readers, reader[r].pc = "eof"
        PROVE  Count(log.file, {r}) = written[r]
    <3>1. Sent(r) = written[r]
      BY <2>3 DEF Sent, OrderInv, ReaderOrder
    <3> QED
      BY <2>2, <2>3, <3>1 DEF CountInv
  <2>4. Count(log.file, Readers) >= job.logSize
    BY <2>2 DEF CountInv, JobTypes
  <2> QED
    BY <2>3, <2>4
<1> QED
  BY <1>1, JobInit, LogInit, OrderInit, CountInit, JobStepTypes, LogStepTypes, OrderStep,
     CountStep, PTL DEF Spec

-----------------------------------------------------------------------------
(***************************************************************************)
(* The terminals: without an overlap, the one that is current is the only  *)
(* one with a process, and every stray input has cost a writeTtyIn         *)
(***************************************************************************)
Alive(t) == term[t] \in {"up", "exited"}
GoneWriters == {t \in Terms : inWriter[t] = "gone"}
OneTerminal ==
    /\ ~overlap => \A t \in Terms : Alive(t) <=> current = t
    /\ \A t \in Terms : term[t] \in {"none", "check", "start"} => inWriter[t] = "none"
StrayInv == ~overlap => stray <= Cardinality(GoneWriters)

\* No terminal has taken an input in the initial state.
LEMMA TermInit == Init => OneTerminal /\ StrayInv
<1> SUFFICES ASSUME Init PROVE OneTerminal /\ StrayInv
  OBVIOUS
<1>1. /\ \A t \in Terms : term[t] = "none" /\ inWriter[t] = "none"
      /\ current = 0 /\ stray = 0
  BY DEF Init
<1>2. \A t \in Terms : t # 0
  BY StreamsAssumption DEF Terms
<1>3. GoneWriters = {}
  BY <1>1 DEF GoneWriters
<1> QED
  BY <1>1, <1>2, <1>3, FS_EmptySet DEF OneTerminal, Alive, StrayInv

\* Every step keeps at most one terminal with a process.
LEMMA TerminalStep == TtyTypes /\ OneTerminal /\ [Next]_vars => OneTerminal'
<1> SUFFICES ASSUME TtyTypes, OneTerminal, [Next]_vars PROVE OneTerminal'
  OBVIOUS
<1>1. CASE JobAction
  BY <1>1, JobActionFrame, OneTerminal DEF logs, ttys, OneTerminal, Alive
<1>2. CASE LogAction
  BY <1>2, LogActionFrame, OneTerminal DEF logs, ttys, OneTerminal, Alive
<1>3. CASE TerminalAction
  <2>1. ASSUME NEW t \in Terms, OpenTty(t) PROVE OneTerminal'
    <3>1. UNCHANGED <<current, inWriter, overlap>> /\ term[t] \in {"none"}
          /\ term' = [term EXCEPT ![t] = "check"]
      BY <2>1 DEF OpenTty
    <3>2. \A x \in Terms : term'[x] = IF x = t THEN "check" ELSE term[x]
      BY <3>1 DEF TtyTypes
    <3> QED
      BY <3>1, <3>2 DEF OneTerminal, Alive
  <2>2. CASE TypeInput
    BY <2>2, OneTerminal DEF TypeInput, logs, ttys, OneTerminal, Alive
  <2>3. CASE StopTty
    <3>1. UNCHANGED <<current, inWriter, overlap>> /\ term[shown] \in {"up"}
          /\ term' = [term EXCEPT ![shown] = "exited"]
      BY <2>3 DEF StopTty
    <3>2. \A x \in Terms : term'[x] = IF x = shown THEN "exited" ELSE term[x]
      BY <3>1 DEF TtyTypes
    <3> QED
      BY <3>1, <3>2 DEF OneTerminal, Alive
  <2>4. CASE InputUnblocks
    BY <2>4, OneTerminal DEF InputUnblocks, logs, ttys, OneTerminal, Alive
  <2>5. ASSUME NEW t \in Terms, StartTtyFails(t) PROVE OneTerminal'
    <3>1. UNCHANGED <<current, inWriter, overlap>> /\ term[t] \in {"check", "start"}
          /\ term' = [term EXCEPT ![t] = "gone"]
      BY <2>5 DEF StartTtyFails
    <3>2. \A x \in Terms : term'[x] = IF x = t THEN "gone" ELSE term[x]
      BY <3>1 DEF TtyTypes
    <3> QED
      BY <3>1, <3>2 DEF OneTerminal, Alive
  <2>6. ASSUME NEW t \in Terms, CheckInteracting(t) PROVE OneTerminal'
    <3>1. UNCHANGED <<current, inWriter, overlap>> /\ term[t] \in {"check"}
          /\ term' = [term EXCEPT ![t] = "start"]
      BY <2>6 DEF CheckInteracting
    <3>2. \A x \in Terms : term'[x] = IF x = t THEN "start" ELSE term[x]
      BY <3>1 DEF TtyTypes
    <3> QED
      BY <3>1, <3>2 DEF OneTerminal, Alive
  <2>7. ASSUME NEW t \in Terms, StartTty(t) PROVE OneTerminal'
    <3>1. term[t] = "start" /\ current' = t
          /\ term' = [term EXCEPT ![t] = "up"]
          /\ inWriter' = [inWriter EXCEPT ![t] = "range"]
      BY <2>7 DEF StartTty
    <3>2. ~overlap' => ~overlap /\ current = 0
      BY <2>7 DEF StartTty, IsInteracting
    <3>3. \A x \in Terms : /\ term'[x] = IF x = t THEN "up" ELSE term[x]
                           /\ inWriter'[x] = IF x = t THEN "range" ELSE inWriter[x]
      BY <3>1 DEF TtyTypes
    <3>4. \A x \in Terms : x # 0
      BY StreamsAssumption DEF Terms
    <3>5. ~overlap' => \A x \in Terms : ~Alive(x)
      BY <3>2, <3>4 DEF OneTerminal
    <3>6. ~overlap' => \A x \in Terms : Alive(x)' <=> current' = x
      BY <3>1, <3>3, <3>5 DEF Alive
    <3>7. \A x \in Terms : term'[x] \in {"none", "check", "start"} => inWriter'[x] = "none"
      BY <3>3 DEF OneTerminal
    <3> QED
      BY <3>6, <3>7 DEF OneTerminal
  <2>8. ASSUME NEW t \in Terms, Hangup(t) PROVE OneTerminal'
    <3>1. UNCHANGED <<inWriter, overlap>> /\ term[t] = "exited" /\ current' = 0
          /\ term' = [term EXCEPT ![t] = "gone"]
      BY <2>8 DEF Hangup
    <3>2. \A x \in Terms : term'[x] = IF x = t THEN "gone" ELSE term[x]
      BY <3>1 DEF TtyTypes
    <3>3. \A x \in Terms : x # 0
      BY StreamsAssumption DEF Terms
    <3>4. ~overlap => current = t
      BY <3>1 DEF OneTerminal, Alive
    <3> QED
      BY <3>1, <3>2, <3>3, <3>4 DEF OneTerminal, Alive
  <2>9. ASSUME NEW t \in Terms, WriteTtyIn(t) PROVE OneTerminal'
    <3>1. UNCHANGED <<term, current, overlap>> /\ inWriter[t] = "range"
          /\ \A x \in Terms \ {t} : inWriter'[x] = inWriter[x]
      BY <2>9 DEF WriteTtyIn, TtyTypes
    <3> QED
      BY <3>1 DEF OneTerminal, Alive
  <2>10. ASSUME NEW t \in Terms, WriterLeaves(t) PROVE OneTerminal'
    <3>1. UNCHANGED <<term, current, overlap>> /\ inWriter[t] \in {"range", "write"}
          /\ \A x \in Terms \ {t} : inWriter'[x] = inWriter[x]
      BY <2>10 DEF WriterLeaves, TtyTypes
    <3> QED
      BY <3>1 DEF OneTerminal, Alive
  <2>11. ASSUME NEW t \in Terms, ReadTty(t) PROVE OneTerminal'
    BY <2>11, OneTerminal DEF ReadTty, logs, ttys, OneTerminal, Alive
  <2>12. ASSUME NEW t \in Terms, SendTty(t) PROVE OneTerminal'
    BY <2>12, OneTerminal DEF SendTty, logs, ttys, OneTerminal, Alive
  <2>13. ASSUME NEW t \in Terms, BashExits(t) PROVE OneTerminal'
    <3>1. UNCHANGED <<current, inWriter, overlap>> /\ term[t] \in {"up"}
          /\ term' = [term EXCEPT ![t] = "exited"]
      BY <2>13 DEF BashExits
    <3>2. \A x \in Terms : term'[x] = IF x = t THEN "exited" ELSE term[x]
      BY <3>1 DEF TtyTypes
    <3> QED
      BY <3>1, <3>2 DEF OneTerminal, Alive
  <2>14. CASE ConsumeTty
    BY <2>14, OneTerminal DEF ConsumeTty, logs, ttys, OneTerminal, Alive
  <2> QED
    BY <1>3, <2>1, <2>2, <2>3, <2>4, <2>5, <2>6, <2>7, <2>8, <2>9, <2>10, <2>11,
       <2>12, <2>13, <2>14 DEF TerminalAction, Terminal
<1>4. CASE UNCHANGED vars
  BY <1>4, OneTerminal DEF vars, logs, ttys, OneTerminal, Alive
<1>5. CASE HandleErrors
  <2>1. /\ UNCHANGED <<current, inWriter, overlap>>
        /\ term' = term \/ (term[shown] = "up" /\ term' = [term EXCEPT ![shown] = "exited"])
    BY <1>5, HandlerFrame
  <2>2. \A x \in Terms : term'[x] = term[x] \/ (term[x] = "up" /\ term'[x] = "exited")
    BY <2>1 DEF TtyTypes
  <2> QED
    BY <2>1, <2>2 DEF OneTerminal, Alive
<1> QED
  BY <1>1, <1>2, <1>3, <1>4, <1>5, NextSplits

\* Finitely many writers have ended.
LEMMA GoneFinite ==
    /\ IsFiniteSet(GoneWriters) /\ Cardinality(GoneWriters) \in Nat
<1>1. IsFiniteSet(Terms)
  BY FS_Interval, StreamsAssumption DEF Terms
<1>2. GoneWriters \in SUBSET Terms
  BY DEF GoneWriters
<1> QED
  BY <1>1, <1>2, FS_Subset, FS_CardinalityType

\* Every step pays for a stray input with the end of a writer.
LEMMA StrayStep == TtyTypes /\ OneTerminal /\ StrayInv /\ [Next]_vars => StrayInv'
<1> SUFFICES ASSUME TtyTypes, OneTerminal, StrayInv, [Next]_vars PROVE StrayInv'
  OBVIOUS
<1>1. CASE JobAction
  BY <1>1, JobActionFrame, StrayInv DEF logs, ttys, StrayInv, GoneWriters
<1>2. CASE LogAction
  BY <1>2, LogActionFrame, StrayInv DEF logs, ttys, StrayInv, GoneWriters
<1>3. CASE TerminalAction
  <2>1. ASSUME NEW t \in Terms, OpenTty(t) PROVE StrayInv'
    BY <2>1, StrayInv DEF OpenTty, logs, ttys, StrayInv, GoneWriters
  <2>2. CASE TypeInput
    BY <2>2, StrayInv DEF TypeInput, logs, ttys, StrayInv, GoneWriters
  <2>3. CASE StopTty
    BY <2>3, StrayInv DEF StopTty, logs, ttys, StrayInv, GoneWriters
  <2>4. CASE InputUnblocks
    BY <2>4, StrayInv DEF InputUnblocks, logs, ttys, StrayInv, GoneWriters
  <2>5. ASSUME NEW t \in Terms, StartTtyFails(t) PROVE StrayInv'
    BY <2>5, StrayInv DEF StartTtyFails, logs, ttys, StrayInv, GoneWriters
  <2>6. ASSUME NEW t \in Terms, CheckInteracting(t) PROVE StrayInv'
    BY <2>6, StrayInv DEF CheckInteracting, logs, ttys, StrayInv, GoneWriters
  <2>7. ASSUME NEW t \in Terms, StartTty(t) PROVE StrayInv'
    <3>1. term[t] = "start" /\ stray' = stray /\ inWriter' = [inWriter EXCEPT ![t] = "range"]
          /\ (~overlap' => ~overlap)
      BY <2>7 DEF StartTty
    <3>2. inWriter[t] = "none"
      BY <3>1 DEF OneTerminal
    <3>3. GoneWriters' = GoneWriters
      BY <3>1, <3>2 DEF GoneWriters, TtyTypes
    <3> QED
      BY <3>1, <3>3 DEF StrayInv
  <2>8. ASSUME NEW t \in Terms, Hangup(t) PROVE StrayInv'
    BY <2>8, StrayInv DEF Hangup, logs, ttys, StrayInv, GoneWriters
  <2>9. ASSUME NEW t \in Terms, WriteTtyIn(t) PROVE StrayInv'
    <3>1. overlap' = overlap /\ inWriter[t] = "range" /\ ttyIn # <<>>
          /\ stray' = stray + (IF Head(ttyIn) \in Up \ {t} THEN 1 ELSE 0)
      BY <2>9 DEF WriteTtyIn
    <3>2. \/ PtyClosed(t) /\ inWriter' = [inWriter EXCEPT ![t] = "gone"]
          \/ ~PtyClosed(t) /\ \/ inWriter' = inWriter
                              \/ inWriter' = [inWriter EXCEPT ![t] = "write"]
      BY <2>9 DEF WriteTtyIn
    <3>3. stray \in Nat
      BY DEF TtyTypes
    <3>4. CASE PtyClosed(t)
      <4>1. GoneWriters' = GoneWriters \union {t} /\ t \notin GoneWriters
        BY <3>1, <3>2, <3>4 DEF GoneWriters, TtyTypes
      <4>2. Cardinality(GoneWriters') = Cardinality(GoneWriters) + 1
        BY <4>1, GoneFinite, FS_AddElement
      <4> QED
        BY <3>1, <3>3, <4>2, GoneFinite DEF StrayInv
    <3>5. CASE ~PtyClosed(t) /\ ~overlap
      <4>1. Alive(t)
        <5>1. term[t] \notin {"none", "check", "start"}
          BY <3>1 DEF OneTerminal
        <5> QED
          BY <3>5, <5>1 DEF TtyTypes, TerminalState, PtyClosed, Alive
      <4>2. Up \ {t} = {}
        BY <3>5, <4>1 DEF OneTerminal, Alive, Up
      <4>3. stray' = stray
        BY <3>1, <3>3, <4>2
      <4>4. GoneWriters' = GoneWriters
        BY <3>1, <3>2, <3>5 DEF GoneWriters, TtyTypes
      <4> QED
        BY <3>1, <4>3, <4>4 DEF StrayInv
    <3> QED
      BY <3>1, <3>4, <3>5 DEF StrayInv
  <2>10. ASSUME NEW t \in Terms, WriterLeaves(t) PROVE StrayInv'
    <3>1. UNCHANGED <<stray, overlap>> /\ inWriter[t] # "gone"
          /\ inWriter' = [inWriter EXCEPT ![t] = "gone"]
      BY <2>10 DEF WriterLeaves
    <3>2. GoneWriters' = GoneWriters \union {t} /\ t \notin GoneWriters
      BY <3>1 DEF GoneWriters, TtyTypes
    <3>3. Cardinality(GoneWriters') = Cardinality(GoneWriters) + 1
      BY <3>2, GoneFinite, FS_AddElement
    <3>4. stray \in Nat
      BY DEF TtyTypes
    <3> QED
      BY <3>1, <3>3, <3>4, GoneFinite DEF StrayInv
  <2>11. ASSUME NEW t \in Terms, ReadTty(t) PROVE StrayInv'
    BY <2>11, StrayInv DEF ReadTty, logs, ttys, StrayInv, GoneWriters
  <2>12. ASSUME NEW t \in Terms, SendTty(t) PROVE StrayInv'
    BY <2>12, StrayInv DEF SendTty, logs, ttys, StrayInv, GoneWriters
  <2>13. ASSUME NEW t \in Terms, BashExits(t) PROVE StrayInv'
    BY <2>13, StrayInv DEF BashExits, logs, ttys, StrayInv, GoneWriters
  <2>14. CASE ConsumeTty
    BY <2>14, StrayInv DEF ConsumeTty, logs, ttys, StrayInv, GoneWriters
  <2> QED
    BY <1>3, <2>1, <2>2, <2>3, <2>4, <2>5, <2>6, <2>7, <2>8, <2>9, <2>10, <2>11,
       <2>12, <2>13, <2>14 DEF TerminalAction, Terminal
<1>4. CASE UNCHANGED vars
  BY <1>4, StrayInv DEF vars, logs, ttys, StrayInv, GoneWriters
<1>5. CASE HandleErrors
  BY <1>5, HandlerFrame DEF StrayInv, GoneWriters
<1> QED
  BY <1>1, <1>2, <1>3, <1>4, <1>5, NextSplits

\* Unless two terminals were up together, every input that a terminal has lost to
\* another has ended the writeTtyIn that took it (writeTtyIn, StartTty).
THEOREM OneStrays == Spec => []OneInputStrays
<1>1. StrayInv => OneInputStrays
  BY DEF StrayInv, OneInputStrays, GoneWriters
<1> QED
  BY <1>1, TtyInit, TermInit, TtyStepTypes, TerminalStep, StrayStep, PTL DEF Spec

=============================================================================
