------------------------------- MODULE MCCard -------------------------------
(* Two instances of SioCard in one run, one of them chosen at the start:   *)
(* transactions of any kind as the .cfg sets them, and a single write with *)
(* resets and state loads in the middle of it, its payload one byte.       *)
EXTENDS MCSioCard

VARIABLE instance

Replaced == INSTANCE SioCard
  WITH Payload <- 1, TransferBound <- 11, Program <- OneWrite,
       Controls <- PlainControls, Replacements <- {"reset", "load"}

MCInit == \/ instance = "kept" /\ Init
          \/ instance = "replaced" /\ Replaced!Init

MCNext ==
  /\ UNCHANGED instance
  /\ \/ instance = "kept" /\ Next
     \/ instance = "replaced" /\ Replaced!Next

MCSpec == MCInit /\ [][MCNext]_<<instance, vars>>

(* States that differ only in the history and in the /ACK interrupt, on    *)
(* which no guard but that of Service and none of the variables here       *)
(* depends, count as one while the machine is being replaced.              *)
MCView == IF instance = "kept" THEN <<instance, vars>> ELSE <<instance, NoHistory>>

(* Bound: the states saved are those before the checksum of a write.       *)
MCBound == instance = "replaced" => FewSaves

(* What holds while nothing is replaced.                                   *)
KeptInStep == instance = "kept" => TypeOK /\ InStep
KeptCommitWhole ==
  [][instance = "kept" /\ data' # data => WholeWrite(sent', data')]_<<instance, vars>>
=============================================================================
