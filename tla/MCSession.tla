----------------------------- MODULE MCSession -----------------------------
(* One debugger that comes and goes, a program of two words, instructions   *)
(* of one and two cycles, slices of two: every crossing of attach, resume,  *)
(* interrupt, breakpoint and command happens.                               *)
EXTENDS Session

(* Every part has its type, and a debugger's idea of its target agrees with *)
(* the stub's (InLockstep).                                                 *)
MovesTogether == TypeOK /\ InLockstep
=============================================================================
