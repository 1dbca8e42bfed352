------------------------- MODULE ShellExecutorProofs -------------------------
(***************************************************************************)
(* Proofs about ShellExecutor, for every number of retries and every       *)
(* interleaving of the job goroutine, the goroutine that kills, and bash.  *)
(***************************************************************************)
EXTENDS ShellExecutor, TLAPS

\* A new shell executor is well typed.
LEMMA TypeInit == Init => TypeOK
  <1> SUFFICES ASSUME Init PROVE TypeOK
    OBVIOUS
  <1>1. NoReport \in [status : Statuses, code : ExitCodes, out : {"nil", "error"}]
    BY DEF NoReport, Statuses, ExitCodes, Unknown
  <1>2. left \in 0 .. Retry
    BY ShellAssumption DEF Init, ShellAssumption
  <1>3. exit = -1 /\ code = -1
    BY DEF Init, Unknown
  <1> QED
    BY <1>1, <1>2, <1>3
       DEF Init, TypeOK, MainLabels, Statuses, ExitCodes, Unknown, Signaled

\* Start, the handler of the context and bash keep the types.
LEMMA TypeNext == ASSUME TypeOK, [Next]_vars PROVE TypeOK'
  <1> USE ShellAssumption DEF ShellAssumption, TypeOK, MainLabels, Statuses,
          FinishStatuses, ExitCodes, Unknown, Killed, Signaled, TimedOut, Goto
  <1>1. CASE Begin
    BY <1>1 DEF Begin
  <1>2. CASE AttemptFails("attempt")
    BY <1>2 DEF AttemptFails
  <1>3. CASE SetCommand
    BY <1>3 DEF SetCommand
  <1>4. CASE AttemptFails("launch")
    BY <1>4 DEF AttemptFails
  <1>5. CASE Launch
    BY <1>5 DEF Launch
  <1>6. CASE AttemptFails("script")
    BY <1>6 DEF AttemptFails
  <1>7. CASE WriteCmd
    BY <1>7 DEF WriteCmd
  <1>8. CASE ToStartStatus
    BY <1>8 DEF ToStartStatus
  <1>9. CASE Wait
    BY <1>9 DEF Wait
  <1>10. CASE CheckFinished
    BY <1>10 DEF CheckFinished
  <1>11. CASE FinishCode
    BY <1>11 DEF FinishCode
  <1>12. CASE FinishStatus
    BY <1>12 DEF FinishStatus
  <1>13. CASE ContextErr
    BY <1>13 DEF ContextErr
  <1>14. CASE Loop
    BY <1>14 DEF Loop
  <1>15. CASE Report
    BY <1>15 DEF Report
  <1>16. CASE Close
    BY <1>16 DEF Close
  <1>17. CASE Wake
    BY <1>17 DEF Wake
  <1>18. CASE KillProcess
    <2>1. CASE proc = "made"
      BY <1>18, <2>1 DEF KillProcess
    <2>2. CASE proc # "made"
      BY <1>18, <2>2 DEF KillProcess
    <2> QED
      BY <2>1, <2>2
  <1>19. CASE HandlerStatus
    BY <1>19 DEF HandlerStatus
  <1>20. CASE HandlerCode
    BY <1>20 DEF HandlerCode
  <1>21. CASE ProcessExits
    BY <1>21 DEF ProcessExits
  <1>22. CASE ContextEnds
    BY <1>22 DEF ContextEnds
  <1>23. CASE UNCHANGED vars
    BY <1>23 DEF vars
  <1> QED
    BY <1>1, <1>2, <1>3, <1>4, <1>5, <1>6, <1>7, <1>8, <1>9, <1>10, <1>11,
       <1>12, <1>13, <1>14, <1>15, <1>16, <1>17, <1>18, <1>19, <1>20, <1>21,
       <1>22, <1>23 DEF Next, Main, DoStart, Handler

\* The state of a shell command and its result keep their types.
THEOREM TypeCorrect == Spec => []TypeOK
  BY TypeInit, TypeNext, PTL DEF Spec

-----------------------------------------------------------------------------
(***************************************************************************)
(* What is known of the shared result on the way from the end of an        *)
(* attempt to the report.  The handler may write it at any step, but only  *)
(* once the context has ended, and then only a final status; the attempt   *)
(* that overwrites a final status with RUNNING goes on to write another    *)
(* final one before it leaves.                                             *)
(***************************************************************************)
Settled == main \in {"contextErr", "loop", "done"}

ResultInv ==
    \* the handler acts only on a context that has ended
    /\ ctx = "live" => handler \in {"none", "waiting"}
    /\ status = "KILLED" => ctx = "canceled"
    /\ status = "TIMEOUT" => ctx = "deadline"
    \* what an attempt leaves behind
    /\ Settled => status \in FinishStatuses
    /\ main \in {"wait", "check", "finishCode", "finishStatus"} =>
           status \in {"RUNNING", "KILLED", "TIMEOUT"}
    /\ main \in {"check", "finishCode", "finishStatus", "contextErr"} =>
           proc = "exited"
    /\ main = "finishStatus" /\ ctx = "live" => code = exit
    /\ Settled /\ status = "SUCCESS" =>
           /\ proc = "exited"
           /\ exit = 0 \/ AllowFailure
           /\ ctx = "live" => code = exit
    /\ main = "loop" /\ ctx = "live" /\ out = "error" => status = "EXCEPTION"
    \* what was reported
    /\ ReportIsFinal
    /\ Reported /\ report.status = "SUCCESS" => proc = "exited"
    /\ SuccessIsEarned
    /\ KilledForCause

\* A new result is PENDING, and nothing has been reported.
LEMMA ResultInit == Init => ResultInv
  BY DEF Init, ResultInv, Settled, Reported, ReportIsFinal, SuccessIsEarned,
         KilledForCause

\* However Start and the handler interleave their writes, ResultInv is kept.
LEMMA ResultNext == ASSUME TypeOK, ResultInv, [Next]_vars PROVE ResultInv'
  <1> USE DEF TypeOK, ResultInv, Settled, Reported, ReportIsFinal,
          SuccessIsEarned, KilledForCause, FinishStatuses, Goto
  <1>1. CASE Begin
    BY <1>1 DEF Begin
  <1>2. CASE AttemptFails("attempt")
    BY <1>2 DEF AttemptFails
  <1>3. CASE SetCommand
    BY <1>3 DEF SetCommand
  <1>4. CASE AttemptFails("launch")
    BY <1>4 DEF AttemptFails
  <1>5. CASE Launch
    BY <1>5 DEF Launch
  <1>6. CASE AttemptFails("script")
    BY <1>6 DEF AttemptFails
  <1>7. CASE WriteCmd
    BY <1>7 DEF WriteCmd
  <1>8. CASE ToStartStatus
    BY <1>8 DEF ToStartStatus
  <1>9. CASE Wait
    BY <1>9 DEF Wait
  <1>10. CASE CheckFinished
    BY <1>10 DEF CheckFinished
  <1>11. CASE FinishCode
    BY <1>11 DEF FinishCode
  <1>12. CASE FinishStatus
    BY <1>12 DEF FinishStatus
  <1>13. CASE ContextErr
    BY <1>13 DEF ContextErr
  <1>14. CASE Loop
    BY <1>14 DEF Loop
  <1>15. CASE Report
    BY <1>15 DEF Report
  <1>16. CASE Close
    BY <1>16 DEF Close
  <1>17. CASE Wake
    BY <1>17 DEF Wake
  <1>18. CASE KillProcess
    BY <1>18 DEF KillProcess
  <1>19. CASE HandlerStatus
    BY <1>19 DEF HandlerStatus
  <1>20. CASE HandlerCode
    BY <1>20 DEF HandlerCode
  <1>21. CASE ProcessExits
    BY <1>21 DEF ProcessExits
  <1>22. CASE ContextEnds
    BY <1>22 DEF ContextEnds
  <1>23. CASE UNCHANGED vars
    BY <1>23 DEF vars
  <1> QED
    BY <1>1, <1>2, <1>3, <1>4, <1>5, <1>6, <1>7, <1>8, <1>9, <1>10, <1>11,
       <1>12, <1>13, <1>14, <1>15, <1>16, <1>17, <1>18, <1>19, <1>20, <1>21,
       <1>22, <1>23 DEF Next, Main, DoStart, Handler

\* Both invariants hold together.
LEMMA ResultCorrect == Spec => [](TypeOK /\ ResultInv)
  BY TypeInit, TypeNext, ResultInit, ResultNext, PTL DEF Spec

\* Whatever is sent to the server is a final result.
THEOREM ReportsAreFinal == Spec => []ReportIsFinal
  <1>1. ResultInv => ReportIsFinal
    BY DEF ResultInv
  <1> QED
    BY <1>1, ResultCorrect, PTL

\* SUCCESS is reported only for a script that succeeded or was allowed to fail.
THEOREM SuccessesAreEarned == Spec => []SuccessIsEarned
  <1>1. ResultInv => SuccessIsEarned
    BY DEF ResultInv
  <1> QED
    BY <1>1, ResultCorrect, PTL

\* KILLED and TIMEOUT are reported only when that is how the context ended.
THEOREM KillsHaveACause == Spec => []KilledForCause
  <1>1. ResultInv => KilledForCause
    BY DEF ResultInv
  <1> QED
    BY <1>1, ResultCorrect, PTL

\* While its context lives, a command is retried after failures only, each
\* time with one attempt less to go, and given up only after the last one.
THEOREM OnlyFailuresAreRetried == Spec => RetriesOnlyFailures
  <1> DEFINE A == main = "loop" /\ ctx = "live" =>
                    IF main' = "attempt"
                    THEN status = "EXCEPTION" /\ left' < left
                    ELSE main' = "done" => status = "SUCCESS" \/ left = 0
  <1>1. ASSUME TypeOK, ResultInv, [Next]_vars PROVE [A]_vars
    <2> USE ShellAssumption DEF ShellAssumption, TypeOK
    <2>1. CASE main # "loop"
      BY <2>1
    <2>2. CASE main = "loop" /\ Loop
      BY <1>1, <2>2 DEF Loop, Goto, ResultInv, Settled, FinishStatuses
    <2>3. CASE main = "loop" /\ ~Loop /\ Next
      <3>1. main' = main
        BY <2>3 DEF Next, Main, DoStart, Handler, Begin, AttemptFails,
              SetCommand, Launch, WriteCmd, ToStartStatus, Wait,
              CheckFinished, FinishCode, FinishStatus, ContextErr, Report,
              Close, Wake, KillProcess, HandlerStatus, HandlerCode,
              ProcessExits, ContextEnds
      <3> QED
        BY <2>3, <3>1
    <2> QED
      BY <1>1, <2>1, <2>2, <2>3 DEF vars
  <1> QED
    BY <1>1, ResultCorrect, PTL DEF Spec, RetriesOnlyFailures

-----------------------------------------------------------------------------
(***************************************************************************)
(* The refinement of ExecutorProtocol                                      *)
(***************************************************************************)
\* The process of an attempt is a new one, and a command that Start has given up
\* as failed has no attempt left.
AttemptInv ==
    /\ main = "launch" => proc = "made"
    /\ main = "done" /\ status = "EXCEPTION" => left = 0
    /\ Reported /\ report.status = "EXCEPTION" => left = 0

\* A new command has not begun an attempt.
LEMMA AttemptInit == Init => AttemptInv
  BY DEF Init, AttemptInv, Reported

\* Loop gives up only after the last attempt, and Report sends what it left.
LEMMA AttemptNext == ASSUME TypeOK, AttemptInv, [Next]_vars PROVE AttemptInv'
  <1> USE ShellAssumption
      DEF ShellAssumption, TypeOK, AttemptInv, Reported, Goto
  <1>1. CASE Begin
    BY <1>1 DEF Begin
  <1>2. CASE AttemptFails("attempt")
    BY <1>2 DEF AttemptFails
  <1>3. CASE SetCommand
    BY <1>3 DEF SetCommand
  <1>4. CASE AttemptFails("launch")
    BY <1>4 DEF AttemptFails
  <1>5. CASE Launch
    BY <1>5 DEF Launch
  <1>6. CASE AttemptFails("script")
    BY <1>6 DEF AttemptFails
  <1>7. CASE WriteCmd
    BY <1>7 DEF WriteCmd
  <1>8. CASE ToStartStatus
    BY <1>8 DEF ToStartStatus
  <1>9. CASE Wait
    BY <1>9 DEF Wait
  <1>10. CASE CheckFinished
    BY <1>10 DEF CheckFinished
  <1>11. CASE FinishCode
    BY <1>11 DEF FinishCode
  <1>12. CASE FinishStatus
    BY <1>12 DEF FinishStatus
  <1>13. CASE ContextErr
    BY <1>13 DEF ContextErr
  <1>14. CASE Loop
    BY <1>14 DEF Loop
  <1>15. CASE Report
    BY <1>15 DEF Report
  <1>16. CASE Close
    BY <1>16 DEF Close
  <1>17. CASE Wake
    BY <1>17 DEF Wake
  <1>18. CASE KillProcess
    BY <1>18 DEF KillProcess
  <1>19. CASE HandlerStatus
    BY <1>19 DEF HandlerStatus
  <1>20. CASE HandlerCode
    BY <1>20 DEF HandlerCode
  <1>21. CASE ProcessExits
    BY <1>21 DEF ProcessExits
  <1>22. CASE ContextEnds
    BY <1>22 DEF ContextEnds
  <1>23. CASE UNCHANGED vars
    BY <1>23 DEF vars
  <1> QED
    BY <1>1, <1>2, <1>3, <1>4, <1>5, <1>6, <1>7, <1>8, <1>9, <1>10, <1>11,
       <1>12, <1>13, <1>14, <1>15, <1>16, <1>17, <1>18, <1>19, <1>20, <1>21,
       <1>22, <1>23 DEF Next, Main, DoStart, Handler

\* An action of the abstract protocol is a step of it.
LEMMA ProtocolActions ==
    ASSUME \/ \E outcome \in {"ok", "failed"} : Protocol!ScriptEnds(outcome)
           \/ \E s \in {"SUCCESS", "EXCEPTION", "KILLED", "TIMEOUT"} : Protocol!Judge(s)
           \/ Protocol!Overrule \/ Protocol!TryAgain \/ Protocol!Return
           \/ \E reason \in {"canceled", "deadline"} : Protocol!Interrupt(reason)
    PROVE  Protocol!Next
  BY DEF Protocol!Next

\* Every step of Start, of the handler and of bash is a step of
\* ExecutorProtocol, or changes nothing that it shows.
LEMMA ProtocolNext ==
    ASSUME TypeOK, ResultInv, AttemptInv, [Next]_vars
    PROVE  [Protocol!Next]_(Protocol!protocolVars)
  <1> USE ShellAssumption
      DEF ShellAssumption, TypeOK, Goto, Phase, ScriptOutcome, Verdict, Reported
  <1> DEFINE Silent == UNCHANGED Protocol!protocolVars
             Ends == \E outcome \in {"ok", "failed"} : Protocol!ScriptEnds(outcome)
             Judges == \E s \in {"SUCCESS", "EXCEPTION", "KILLED", "TIMEOUT"} :
                           Protocol!Judge(s)
             Interrupts == \E reason \in {"canceled", "deadline"} :
                               Protocol!Interrupt(reason)
  <1>1. CASE Begin
    <2>1. Silent
      BY <1>1 DEF Begin, Protocol!protocolVars
    <2> QED
      BY <2>1, ProtocolActions
  <1>2. CASE AttemptFails("attempt")
    <2>1. Judges
      BY <1>2 DEF AttemptFails, Protocol!Judge, Protocol!StatusOf, Protocol!Interrupted, ResultInv, Settled, FinishStatuses
    <2> QED
      BY <2>1, ProtocolActions
  <1>3. CASE SetCommand
    <2>1. Silent
      BY <1>3 DEF SetCommand, Protocol!protocolVars
    <2> QED
      BY <2>1, ProtocolActions
  <1>4. CASE AttemptFails("launch")
    <2>1. Judges
      BY <1>4 DEF AttemptFails, Protocol!Judge, Protocol!StatusOf, Protocol!Interrupted, ResultInv, Settled, FinishStatuses
    <2> QED
      BY <2>1, ProtocolActions
  <1>5. CASE Launch
    <2>1. Silent
      BY <1>5 DEF Launch, AttemptInv, Protocol!protocolVars
    <2> QED
      BY <2>1, ProtocolActions
  <1>6. CASE AttemptFails("script")
    <2>1. Judges
      BY <1>6 DEF AttemptFails, Protocol!Judge, Protocol!StatusOf, Protocol!Interrupted, ResultInv, Settled, FinishStatuses
    <2> QED
      BY <2>1, ProtocolActions
  <1>7. CASE WriteCmd
    <2>1. Silent
      BY <1>7 DEF WriteCmd, Protocol!protocolVars
    <2> QED
      BY <2>1, ProtocolActions
  <1>8. CASE ToStartStatus
    <2>1. Silent
      BY <1>8 DEF ToStartStatus, Protocol!protocolVars
    <2> QED
      BY <2>1, ProtocolActions
  <1>9. CASE Wait
    <2>1. Silent
      BY <1>9 DEF Wait, Protocol!protocolVars
    <2> QED
      BY <2>1, ProtocolActions
  <1>10. CASE CheckFinished
    <2>1. Silent \/ Judges
      BY <1>10 DEF CheckFinished, Protocol!protocolVars, Protocol!Judge, Protocol!StatusOf, Protocol!Interrupted, ResultInv, Settled, FinishStatuses
    <2> QED
      BY <2>1, ProtocolActions
  <1>11. CASE FinishCode
    <2>1. Silent
      BY <1>11 DEF FinishCode, Protocol!protocolVars
    <2> QED
      BY <2>1, ProtocolActions
  <1>12. CASE FinishStatus
    <2>1. Silent
      BY <1>12 DEF FinishStatus, Protocol!protocolVars
    <2> QED
      BY <2>1, ProtocolActions
  <1>13. CASE ContextErr
    <2>1. Judges
      BY <1>13 DEF ContextErr, Protocol!Judge, Protocol!StatusOf, Protocol!Interrupted, ResultInv, Settled, FinishStatuses
    <2> QED
      BY <2>1, ProtocolActions
  <1>14. CASE Loop
    <2>1. Silent \/ Protocol!TryAgain
      BY <1>14 DEF Loop, Protocol!protocolVars, Protocol!TryAgain, Protocol!Interrupted, ResultInv, Settled, FinishStatuses
    <2> QED
      BY <2>1, ProtocolActions
  <1>15. CASE Report
    <2>1. Protocol!Return
      BY <1>15 DEF Report, Protocol!Return, AttemptInv
    <2> QED
      BY <2>1, ProtocolActions
  <1>16. CASE Close
    <2>1. Silent \/ Interrupts
      BY <1>16 DEF Close, Protocol!protocolVars, Protocol!Interrupt, Protocol!Interrupted
    <2> QED
      BY <2>1, ProtocolActions
  <1>17. CASE Wake
    <2>1. Silent
      BY <1>17 DEF Wake, Protocol!protocolVars
    <2> QED
      BY <2>1, ProtocolActions
  <1>18. CASE KillProcess
    <2>1. Silent \/ Ends
      BY <1>18 DEF KillProcess, Protocol!protocolVars, Protocol!ScriptEnds
    <2> QED
      BY <2>1, ProtocolActions
  <1>19. CASE HandlerStatus
    <2>1. Silent \/ Protocol!Overrule
      BY <1>19 DEF HandlerStatus, Protocol!protocolVars, Protocol!Overrule, Protocol!StatusOf, Protocol!Interrupted, ResultInv, Settled, FinishStatuses
    <2> QED
      BY <2>1, ProtocolActions
  <1>20. CASE HandlerCode
    <2>1. Silent
      BY <1>20 DEF HandlerCode, Protocol!protocolVars
    <2> QED
      BY <2>1, ProtocolActions
  <1>21. CASE ProcessExits
    <2>1. Silent \/ Ends
      BY <1>21 DEF ProcessExits, Protocol!protocolVars, Protocol!ScriptEnds
    <2> QED
      BY <2>1, ProtocolActions
  <1>22. CASE ContextEnds
    <2>1. Interrupts
      BY <1>22 DEF ContextEnds, Protocol!Interrupt, Protocol!Interrupted
    <2> QED
      BY <2>1, ProtocolActions
  <1>23. CASE UNCHANGED vars
    BY <1>23 DEF vars, Protocol!protocolVars
  <1> QED
    BY <1>1, <1>2, <1>3, <1>4, <1>5, <1>6, <1>7, <1>8, <1>9, <1>10, <1>11,
       <1>12, <1>13, <1>14, <1>15, <1>16, <1>17, <1>18, <1>19, <1>20, <1>21,
       <1>22, <1>23 DEF Next, Main, DoStart, Handler

\* ShellExecutor implements ExecutorProtocol: whatever the two goroutines write
\* in between, each verdict has its cause, and each new attempt its failure.
THEOREM Implements == Spec => ImplementsProtocol
  <1>1. Init => Protocol!Init
    BY ShellAssumption
       DEF ShellAssumption, Init, Protocol!Init, Phase, ScriptOutcome, Verdict,
           Reported
  <1> QED
    BY <1>1, TypeInit, TypeNext, ResultInit, ResultNext, AttemptInit,
       AttemptNext, ProtocolNext, PTL
       DEF Spec, ImplementsProtocol, Protocol!Spec
=============================================================================
