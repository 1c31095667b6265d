------------------------------ MODULE MCRecovery -------------------------------
(***************************************************************************)
(* One compute and two controllers, so that a group can be partly up.  The *)
(* numbers of attempts are different from each other and at least three,   *)
(* to have a first, an inner and a last attempt of each loop; MaxRetryTimes*)
(* is the code's.                                                          *)
(***************************************************************************)
EXTENDS Recovery, TLC

CONSTANTS compute1, controller1, controller2

MCCompute == {compute1}
MCController == {controller1, controller2}

ControllerSymmetry == Permutations(MCController)
=============================================================================
