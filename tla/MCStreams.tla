------------------------------ MODULE MCStreams ------------------------------
(* A log with a retry; two terminals after each other or at a time, and    *)
(* input enough to block the consumer; a log next to a terminal's output.  *)
EXTENDS Streams

MCPlan(retry, chunks, terms, inputs, outputs) ==
    [retry |-> retry, chunks |-> chunks, ttys |-> terms, inputs |-> inputs, outputs |-> outputs]
MCPlans == { MCPlan(1, 2, 0, 0, 0), MCPlan(0, 0, 2, 1, 0), MCPlan(0, 0, 1, 3, 0),
             MCPlan(0, 1, 1, 0, 1) }
=============================================================================
