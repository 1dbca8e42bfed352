--------------------------- MODULE MCJobResources ---------------------------
(* A directory D with a subdirectory s and a link to one of its files, a   *)
(* file F at the top, and the place s/1 that a docker archive of D/s has.  *)
EXTENDS JobResources

MCFiles == {"D/s/1", "D/2", "D/l", "F", "s/1", TmpFile}
MCEntry == [f \in MCFiles |-> CASE f \in {"D/s/1", "D/2", "D/l"} -> "D"
                                [] f = "s/1" -> "s" [] OTHER -> f]
MCUnder == [p \in {"D", "D/s", "s"} |->
              CASE p = "D" -> {"D/s/1", "D/2", "D/l"} [] p = "D/s" -> {"D/s/1"} [] OTHER -> {"s/1"}]
MCLinks == [f \in {"D/l"} |-> "D/2"]
MCBased == [p \in {"D", "D/s", "F"} |-> [f \in MCFiles |->
              IF p = "D/s" /\ f = "D/s/1" THEN "s/1" ELSE f]]

MCCmd(docker, paths, secrets) ==
    [docker |-> docker, plugin |-> secrets # {}, secrets |-> secrets, paths |-> paths]
Auth == [kind |-> "AUTH", use |-> "auth"]
Token == [kind |-> "TOKEN", use |-> "secret"]
Android == [kind |-> "ANDROID_SIGN", use |-> "secret"]
MCCmds ==
    { MCCmd(FALSE, <<"D", "F">>, {Token}), MCCmd(FALSE, <<"D/s", "D">>, {}),
      MCCmd(TRUE, <<"D">>, {Auth}), MCCmd(TRUE, <<"D/s", "F">>, {}),
      MCCmd(TRUE, <<>>, {Auth, Android}) }
=============================================================================
