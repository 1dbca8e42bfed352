------------------------------ MODULE MCDocker ------------------------------
(* Commands for DockerExecutor: a single container of each kind, a runtime *)
(* container with a service, and a runtime option in the second place.     *)
EXTENDS DockerExecutor

Opt(runtime, delete, stop, given) ==
    [runtime |-> runtime, delete |-> delete, stop |-> stop, given |-> given]
Cmd(dockers) == [dockers |-> dockers, script |-> TRUE, allowFailure |-> FALSE]

MCCmds ==
    { Cmd(<<Opt(TRUE, FALSE, FALSE, FALSE)>>),
      Cmd(<<Opt(FALSE, TRUE, FALSE, TRUE)>>),
      [Cmd(<<Opt(TRUE, FALSE, TRUE, FALSE)>>) EXCEPT !.script = FALSE],
      [Cmd(<<Opt(TRUE, FALSE, TRUE, FALSE)>>) EXCEPT !.allowFailure = TRUE],
      Cmd(<<Opt(TRUE, FALSE, TRUE, TRUE), Opt(FALSE, TRUE, FALSE, FALSE)>>),
      Cmd(<<Opt(FALSE, FALSE, TRUE, FALSE), Opt(TRUE, TRUE, FALSE, FALSE)>>) }
=============================================================================
