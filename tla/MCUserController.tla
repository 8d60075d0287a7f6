---------------------------- MODULE MCUserController ----------------------------
(***************************************************************************)
(* Instances of UserController for TLC.                                    *)
(***************************************************************************)
EXTENDS UserController

CONSTANTS w1, w2

OneWorker  == {w1}
TwoWorkers == {w1, w2}
================================================================================
