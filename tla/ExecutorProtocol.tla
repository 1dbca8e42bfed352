--------------------------- MODULE ExecutorProtocol ---------------------------
(***************************************************************************)
(* What an executor promises the command service about one run of Start:   *)
(* at most Retry + 1 attempts, with a verdict on each; SUCCESS only for    *)
(* what the script of this very attempt did, KILLED and TIMEOUT only for   *)
(* the reason for which the context has ended; another attempt only after  *)
(* a failure, unless the context has ended; a command given up as failed   *)
(* only after the last one; and a result that is final and never changes.  *)
(* ShellExecutor and DockerExecutor implement it.                          *)
(***************************************************************************)
EXTENDS Naturals

CONSTANT Retry

VARIABLES
    phase,      \* "trying" in an attempt, "judged" after it, "returned"
    tries,      \* the attempts so far
    script,     \* of this attempt: "open", then "ok" (allowed failures
                \* included) or "failed"
    cause,      \* why the context has ended, or "none"
    verdict     \* of the attempt that is judged, then of the command

protocolVars == <<phase, tries, script, cause, verdict>>

StatusOf(reason) == IF reason = "deadline" THEN "TIMEOUT" ELSE "KILLED"
Interrupted == cause # "none"

Init ==
    /\ phase = "trying" /\ tries = 1 /\ script = "open"
    /\ cause = "none" /\ verdict = "none"

\* by itself, or because something has killed it
ScriptEnds(outcome) ==
    /\ phase = "trying" /\ script = "open"
    /\ script' = outcome
    /\ UNCHANGED <<phase, tries, cause, verdict>>

\* the script has ended, an error ends the attempt, or the end of the context does
Judge(status) ==
    /\ phase = "trying"
    /\ \/ status = "SUCCESS" /\ script = "ok"
       \/ status = "EXCEPTION"
       \/ status = StatusOf(cause) /\ Interrupted
    /\ phase' = "judged" /\ verdict' = status /\ script' = "open"
    /\ UNCHANGED <<tries, cause>>

\* the end of the context is noticed beside the attempt
Overrule ==
    /\ phase = "judged" /\ Interrupted
    /\ verdict' = StatusOf(cause)
    /\ UNCHANGED <<phase, tries, script, cause>>

TryAgain ==
    /\ phase = "judged" /\ tries <= Retry
    /\ verdict = "EXCEPTION" \/ Interrupted
    /\ phase' = "trying" /\ tries' = tries + 1 /\ verdict' = "none"
    /\ UNCHANGED <<script, cause>>

Return ==
    /\ phase = "judged"
    /\ verdict = "EXCEPTION" => tries = Retry + 1
    /\ phase' = "returned"
    /\ UNCHANGED <<tries, script, cause, verdict>>

Interrupt(reason) ==
    /\ ~Interrupted
    /\ cause' = reason
    /\ UNCHANGED <<phase, tries, script, verdict>>

Next ==
    \/ \E outcome \in {"ok", "failed"} : ScriptEnds(outcome)
    \/ \E status \in {"SUCCESS", "EXCEPTION", "KILLED", "TIMEOUT"} : Judge(status)
    \/ Overrule \/ TryAgain \/ Return
    \/ \E reason \in {"canceled", "deadline"} : Interrupt(reason)

Spec == Init /\ [][Next]_protocolVars
=============================================================================
