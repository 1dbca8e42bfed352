---------------------------- MODULE MCCmdService ----------------------------
(***************************************************************************)
(* The command service with a few commands that are interchangeable.  The  *)
(* symmetry is used in the runs that check invariants only.                *)
(***************************************************************************)
EXTENDS CmdService, TLC

CmdSymmetry == Permutations(Cmds)
=============================================================================
