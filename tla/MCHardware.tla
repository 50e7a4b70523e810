----------------------------- MODULE MCHardware -----------------------------
(***************************************************************************)
(* The model-checking instances of the main loop (Machine) and of the      *)
(* units of the console that share no state with it or with each other in  *)
(* the models: a behaviour picks one of them and runs it, the others stand *)
(* still.                                                                  *)
(***************************************************************************)
EXTENDS MCMachine, Sequences

CONSTANTS
  Programs, Interrupts, Breaks,                           (* Cpu           *)
  Channels, Entries, Packets, Payload, GuardBound,        (* Dma           *)
  Opcodes, TopBytes, ImageSizes, Segments,                (* Gp0           *)
  Rows, Tall, Nominal, Widths, Starts, Ranges, Lines,     (* Scanout       *)
  LineClocks, LineCycles, Blanking,
  VramWidth, VramHeight, Reach, Coordinates, Corners,     (* Raster        *)
  Texels, Areas, Offsets, Shades, Effort,
  Size, ColorBlocks, Chroma, Counts, Tables,              (* Mdec          *)
  Voices, Blocks, Span, Pitches, Full, Pivot, Envelopes, Flags   (* Spu    *)

VARIABLES
  unit,   (* which one runs                                                *)
  cpuProgram, cpuCpu, cpuLog, cpuLeft, dmaMemory, dmaLinked, dmaUsed,
  dmaReceived, dmaEnables, dmaFlags, dmaStat, dmaHandler, dmaOwed, gp0Gpu,
  gp0Reads, gp0Sending, gp0Owed, gp0Did, scanoutRegs, scanoutOdd,
  scanoutFrame, scanoutShown, scanoutSteady, rasterVram, rasterArea,
  rasterOffset, rasterCheckMask, rasterForceMask, rasterLast, rasterEffort,
  mdecMdec, mdecSending, mdecGot, mdecEmitted, spuRegs, spuVoice, spuEndx,
  spuRam, spuXfer, spuCnt, spuWatched, spuIrqFlag, spuOver

(* Cpu: every conforming program of three instructions; a breakpoint in    *)
(* the slot or the target of most branches, one on a word that is          *)
(* accessed, and one for kernel mode, which the program never is in.       *)
Instructions ==
  {[op |-> "alu", rd |-> "a", rs |-> "b", rt |-> "b"],
   [op |-> "load", rd |-> "a", rs |-> "b"],
   [op |-> "left", rd |-> "a", rs |-> "zero"],
   [op |-> "right", rd |-> "a", rs |-> "zero"],
   [op |-> "store", rs |-> "b", rt |-> "a"],
   [op |-> "branch", rs |-> "a", to |-> 4],
   [op |-> "link", rd |-> "b", to |-> 3],
   [op |-> "trap"], [op |-> "gte"],
   [op |-> "status", ie |-> FALSE, isolated |-> TRUE]}
MCPrograms == [1 .. 3 -> Instructions]
MCBreaks ==
  {[kind |-> "off", at |-> 0, level |-> "kernel", trap |-> FALSE],
   [kind |-> "code", at |-> 3, level |-> "user", trap |-> TRUE],
   [kind |-> "data", at |-> 1, level |-> "user", trap |-> TRUE],
   [kind |-> "data", at |-> 1, level |-> "kernel", trap |-> TRUE]}

(* Raster: the whole frame buffer and a part of it. *)
MCCorners == {<<1, 0>>, <<2, 1>>}
MCOffsets == {<<-1, 0>>}
MCShades == <<0, 8, 3, 5>>
MCAreas == {<<<<0, 0>>, <<2, 2>>>>, <<<<1, 0>>, <<2, 1>>>>}

(* Spu: an envelope that goes through every phase and both courses.        *)
Envelope ==
  [attack |-> 0, attackExp |-> TRUE, decay |-> 4, level |-> 8, sustain |-> 4,
   sustainDec |-> FALSE, sustainExp |-> TRUE, release |-> 8, releaseExp |-> TRUE]
MCEnvelopes == {Envelope}

(* Gp0: every command that is more than a word on its own. *)
MCOpcodes == 1 .. 255

(* Scanout: a range that is empty and one longer than a field and a line.  *)
MCRanges == {<<2, 1>>, <<0, 9>>}
-----------------------------------------------------------------------------
Core == INSTANCE Cpu WITH
  program <- cpuProgram, cpu <- cpuCpu, log <- cpuLog, left <- cpuLeft
Transfers == INSTANCE Dma WITH
  memory <- dmaMemory, linked <- dmaLinked, used <- dmaUsed,
  received <- dmaReceived, enables <- dmaEnables, flags <- dmaFlags,
  stat <- dmaStat, handler <- dmaHandler, owed <- dmaOwed
Fifo == INSTANCE Gp0 WITH
  Pixels <- ImageSizes,
  gpu <- gp0Gpu, reads <- gp0Reads, sending <- gp0Sending, owed <- gp0Owed,
  did <- gp0Did
Screen == INSTANCE Scanout WITH
  regs <- scanoutRegs, odd <- scanoutOdd, frame <- scanoutFrame,
  shown <- scanoutShown, steady <- scanoutSteady
Pixels == INSTANCE Raster WITH
  Width <- VramWidth, Height <- VramHeight,
  vram <- rasterVram, area <- rasterArea, offset <- rasterOffset,
  checkMask <- rasterCheckMask, forceMask <- rasterForceMask,
  last <- rasterLast, effort <- rasterEffort
Video == INSTANCE Mdec WITH
  mdec <- mdecMdec, sending <- mdecSending, got <- mdecGot,
  emitted <- mdecEmitted
Sound == INSTANCE Spu WITH
  regs <- spuRegs, voice <- spuVoice, endx <- spuEndx, ram <- spuRam,
  xfer <- spuXfer, cnt <- spuCnt, watched <- spuWatched,
  irqFlag <- spuIrqFlag, over <- spuOver

ASSUME HardwareAssumption ==
  /\ Core!CpuAssumption
  /\ Transfers!DmaAssumption
  /\ Fifo!Gp0Assumption
  /\ Screen!ScanoutAssumption
  /\ Pixels!RasterAssumption
  /\ Video!MdecAssumption
  /\ Sound!SpuAssumption

Still == 0
machineVars == 
  <<cycles, heap, deadline, field, origin, nextSample, served, saved>>
cpuVars ==
  <<cpuProgram, cpuCpu, cpuLog, cpuLeft>>
dmaVars ==
  <<dmaMemory, dmaLinked, dmaUsed, dmaReceived, dmaEnables, dmaFlags, dmaStat,
  dmaHandler, dmaOwed>>
gp0Vars ==
  <<gp0Gpu, gp0Reads, gp0Sending, gp0Owed, gp0Did>>
scanoutVars ==
  <<scanoutRegs, scanoutOdd, scanoutFrame, scanoutShown, scanoutSteady>>
rasterVars ==
  <<rasterVram, rasterArea, rasterOffset, rasterCheckMask, rasterForceMask,
  rasterLast, rasterEffort>>
mdecVars ==
  <<mdecMdec, mdecSending, mdecGot, mdecEmitted>>
spuVars ==
  <<spuRegs, spuVoice, spuEndx, spuRam, spuXfer, spuCnt, spuWatched,
  spuIrqFlag, spuOver>>

Units == {"machine", "cpu", "dma", "gp0", "scanout", "raster", "mdec", "spu"}

UnitsInit ==
  /\ unit \in Units
  /\ Init
  /\ IF unit = "cpu" THEN Core!Init
     ELSE cpuProgram = Still /\ cpuCpu = Still /\ cpuLog = Still /\
          cpuLeft = Still
  /\ IF unit = "dma" THEN Transfers!Init
     ELSE dmaMemory = Still /\ dmaLinked = Still /\ dmaUsed = Still /\
          dmaReceived = Still /\ dmaEnables = Still /\ dmaFlags = Still /\
          dmaStat = Still /\ dmaHandler = Still /\ dmaOwed = Still
  /\ IF unit = "gp0" THEN Fifo!Init
     ELSE gp0Gpu = Still /\ gp0Reads = Still /\ gp0Sending = Still /\
          gp0Owed = Still /\ gp0Did = Still
  /\ IF unit = "scanout" THEN Screen!Init
     ELSE scanoutRegs = Still /\ scanoutOdd = Still /\ scanoutFrame = Still /\
          scanoutShown = Still /\ scanoutSteady = Still
  /\ IF unit = "raster" THEN Pixels!Init
     ELSE rasterVram = Still /\ rasterArea = Still /\ rasterOffset = Still /\
          rasterCheckMask = Still /\ rasterForceMask = Still /\
          rasterLast = Still /\ rasterEffort = Still
  /\ IF unit = "mdec" THEN Video!Init
     ELSE mdecMdec = Still /\ mdecSending = Still /\ mdecGot = Still /\
          mdecEmitted = Still
  /\ IF unit = "spu" THEN Sound!Init
     ELSE spuRegs = Still /\ spuVoice = Still /\ spuEndx = Still /\
          spuRam = Still /\ spuXfer = Still /\ spuCnt = Still /\
          spuWatched = Still /\ spuIrqFlag = Still /\ spuOver = Still

Stands(u, state) == IF unit = u THEN TRUE ELSE UNCHANGED state

(* One step of the unit that runs; one that has come to its end stays.     *)
UnitsNext ==
  /\ UNCHANGED unit
  /\ Stands("machine", machineVars)
  /\ Stands("cpu", cpuVars)
  /\ Stands("dma", dmaVars)
  /\ Stands("gp0", gp0Vars)
  /\ Stands("scanout", scanoutVars)
  /\ Stands("raster", rasterVars)
  /\ Stands("mdec", mdecVars)
  /\ Stands("spu", spuVars)
  /\ \/ unit = "machine" /\ Next
     \/ unit = "cpu" /\ (Core!Next \/ UNCHANGED cpuVars)
     \/ unit = "dma" /\ Transfers!Next
     \/ unit = "gp0" /\ Fifo!Next
     \/ unit = "scanout" /\ Screen!Next
     \/ unit = "raster" /\ (Pixels!Next \/ UNCHANGED rasterVars)
     \/ unit = "mdec" /\ Video!Next
     \/ unit = "spu" /\ Sound!Next

UnitsSpec ==
  UnitsInit /\ [][UnitsNext]_<<
    unit, machineVars, cpuVars, dmaVars, gp0Vars, scanoutVars, rasterVars,
    mdecVars, spuVars>>
-----------------------------------------------------------------------------
(* Cpu: interrupts, breakpoints and the two kinds of delay slot are        *)
(* precise: what the program does to memory and, once it has run to its    *)
(* end, to its registers is what it would do alone, no step lost or done   *)
(* twice (Precise, Transparent).                                           *)
ProgramUndisturbed ==
  unit = "cpu" => Core!TypeOK /\ Core!Precise /\ Core!Transparent

(* Dma: no completion of a channel goes unheard.                           *)
CompletionsKept == unit = "dma" => Transfers!TypeOK /\ Transfers!CompletionsKept

(* Dma: a list sent to the GPU arrives in the order of the table.          *)
DrawnInOrder == [][unit = "dma" => Transfers!DrawnInOrderStep]_dmaVars

(* Gp0: a command takes exactly its words, whatever comes before it, and   *)
(* GPUREAD returns what was asked for, in order (InSync, ReadsWhatItAsked).*)
CommandsInSync ==
  unit = "gp0" => Fifo!TypeOK /\ Fifo!InSync /\ Fifo!ReadsWhatItAsked

(* Scanout: the frame shown is woven from the fields the game displayed,   *)
(* and video timing stays sane for every display range (Woven, TimingSane).*)
FramesWoven ==
  unit = "scanout" => Screen!TypeOK /\ Screen!Woven /\ Screen!TimingSane

(* Raster: the halves of a quad leave no seam and overlap nowhere, a       *)
(* shaded pixel lies between the vertices' shades, a line has no gaps, and *)
(* no primitive writes where the area or the mask forbid it.               *)
DrawnAsGiven ==
  [][unit = "raster" => /\ Pixels!WritesWhereAllowedStep
                        /\ (Pixels!TypeOK /\ Pixels!QuadsMeet)'
                        /\ (Pixels!ShadesWithinVertices /\ Pixels!LineUnbroken)']_rasterVars

(* Mdec: the decoder cuts its input where the encoder did and puts out     *)
(* whole macroblocks only (InStep, WholeMacroblocks).                      *)
DecodedInStep ==
  unit = "mdec" => Video!TypeOK /\ Video!InStep /\ Video!WholeMacroblocks

(* Spu: a released voice dies away, one that ran off a one-shot sample     *)
(* stays silent, and the interrupt flag is never up with its enable down.  *)
VoicesEnd ==
  [][unit = "spu" => Sound!VoicesEndStep]_spuVars
=============================================================================
