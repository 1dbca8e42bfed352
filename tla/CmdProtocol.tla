----------------------------- MODULE CmdProtocol -----------------------------
(***************************************************************************)
(* What the agent promises the server about shell commands: it works on    *)
(* one command at a time, it turns a command down only while it works on   *)
(* another one, and it answers each command it has taken exactly once,     *)
(* before it takes the next one.  CmdService implements it as long as its  *)
(* message queue is its only caller.                                       *)
(***************************************************************************)
EXTENDS Naturals

CONSTANTS Cmds, None

VARIABLES
    phase,      \* phase[c]: "new", "accepted" or "rejected"
    current,    \* the command the agent works on, or None
    answers     \* answers[c]: how many results were sent for c

protocolVars == <<phase, current, answers>>

Init ==
    /\ phase = [c \in Cmds |-> "new"]
    /\ current = None
    /\ answers = [c \in Cmds |-> 0]

Accept(c) ==
    /\ phase[c] = "new"
    /\ current = None
    /\ current' = c
    /\ phase' = [phase EXCEPT ![c] = "accepted"]
    /\ UNCHANGED answers

Reject(c) ==
    /\ phase[c] = "new"
    /\ current # None
    /\ phase' = [phase EXCEPT ![c] = "rejected"]
    /\ UNCHANGED <<current, answers>>

Answer(c) ==
    /\ current = c
    /\ answers[c] = 0
    /\ answers' = [answers EXCEPT ![c] = 1]
    /\ UNCHANGED <<phase, current>>

Finish(c) ==
    /\ current = c
    /\ answers[c] = 1
    /\ current' = None
    /\ UNCHANGED <<phase, answers>>

Next == \E c \in Cmds : Accept(c) \/ Reject(c) \/ Answer(c) \/ Finish(c)

Spec == Init /\ [][Next]_protocolVars
=============================================================================
