---------------------------- MODULE MCSubprocVec ----------------------------
(* Two board paths for the model checker.                                  *)
EXTENDS SubprocVec
CONSTANTS b1, b2
=============================================================================
