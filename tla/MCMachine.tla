----------------------------- MODULE MCMachine -----------------------------
(* The model-checking instance of Machine.  An instruction may be longer   *)
(* than a sample period and than the shorter field, so that one step can   *)
(* pass several samples, a deadline and a vertical blank at once.          *)
EXTENDS Machine

CONSTANTS T1, S1

MCCost == {1, 2}
MCField == {1, 2}
(* The timer may be armed for a cycle and then for one before it, so that  *)
(* the heap holds two entries for it.                                      *)
MCTimes == [k \in Device |-> IF k = T1 THEN {1, 2} ELSE {2}]
=============================================================================
