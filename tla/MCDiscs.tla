------------------------------ MODULE MCDiscs ------------------------------
(* Two instances of Cdrom in one run, one of them chosen at the start: a   *)
(* data disc with the lid, and a disc of two audio tracks with auto-pause  *)
(* and reports.  The .cfg names the discs and modes of both.               *)
EXTENDS MCCdrom

VARIABLE instance

DataDisc == INSTANCE Cdrom
  WITH Discs <- DataDiscs, Commands <- LidCommands, Modes <- DataModes,
       ReportEvery <- 0, QueueBound <- 2

AudioDisc == INSTANCE Cdrom
  WITH Discs <- AudioDiscs, Commands <- AudioCommands, Modes <- AudioModes,
       QueueBound <- 1

MCInit == \/ instance = "data" /\ DataDisc!Init
          \/ instance = "audio" /\ AudioDisc!Init

MCNext ==
  /\ UNCHANGED instance
  /\ \/ instance = "data" /\ DataDisc!Next
     \/ instance = "audio" /\ AudioDisc!Next

MCSpec == MCInit /\ [][MCNext]_<<instance, vars>>
=============================================================================
