------------------------------ MODULE Scanout -------------------------------
(***************************************************************************)
(* The GPU's picture (psx-core/src/gpu/mod.rs): the display registers, the *)
(* video timing they amount to, and the frame captured at every vertical   *)
(* blank, which in an interlaced mode is woven out of two fields.          *)
(*                                                                         *)
(* A row of the frame is known by the vertical blank that captured it and  *)
(* the row of VRAM it shows.  Vram rows, lines and clocks are scaled down. *)
(***************************************************************************)
EXTENDS Integers, Sequences

CONSTANTS
  Rows,        (* rows of VRAM: 512                                        *)
  Tall,        (* most rows a field is captured with: 256; a frame: 480    *)
  Nominal,     (* rows shown when the vertical range is empty: 240         *)
  Widths,      (* horizontal resolutions considered                        *)
  Starts,      (* display starts considered                                *)
  Ranges,      (* display ranges <<first, last>> considered                *)
  Lines,       (* lines_per_frame                                          *)
  LineClocks,  (* vclk_per_line                                            *)
  LineCycles,  (* cycles_per_line                                          *)
  Blanking     (* hblank_cycles of a region                                *)

(* What the constants are. *)
ScanoutAssumption ==
  /\ {Rows, Tall, Nominal, Lines, LineClocks, LineCycles, Blanking} \subseteq Nat \ {0}
  /\ Nominal <= Lines /\ Blanking <= LineCycles
  /\ Widths \subseteq Nat \ {0}
  /\ Starts \subseteq 0 .. Rows - 1 /\ Ranges \subseteq Nat \X Nat

VARIABLES
  regs,      (* the display registers                                      *)
  odd,       (* odd_frame                                                  *)
  frame,     (* Frame: what the TV shows                                   *)
  shown,     (* history: the registers at the last vertical blank, None if *)
             (* there was none since a reset                               *)
  steady     (* history: and they were the same at the one before          *)

vars == <<regs, odd, frame, shown, steady>>

None == <<>>
Registers == [width : Widths, interlaced : BOOLEAN, double : BOOLEAN, deep : BOOLEAN,
              start : Starts, v : Ranges, h : Ranges]

Monus(a, b) == IF a > b THEN a - b ELSE 0
Lesser(a, b) == IF a < b THEN a ELSE b
NoFrame == [width |-> 0, height |-> 0, stride |-> 0, deep |-> FALSE, rows |-> <<>>]

Init ==
  /\ regs \in Registers
  /\ odd = FALSE /\ frame = NoFrame /\ shown = None /\ steady = FALSE

(* GP1(08): vres is 480 only in an interlaced mode. *)
Vres480 == regs.double /\ regs.interlaced
(* display_resolution *)
Height ==
  LET span == Monus(regs.v[2], regs.v[1])
      lines == IF span = 0 THEN Nominal ELSE Lesser(span, Tall)
  IN IF Vres480 THEN Lesser(2 * lines, 2 * Nominal) ELSE lines
Stride == IF regs.deep THEN (3 * regs.width + 1) \div 2 ELSE regs.width

(* video_timing: a degenerate window falls back to the region's. *)
VisibleLines ==
  LET lines == Monus(regs.v[2], regs.v[1])
  IN IF lines = 0 \/ lines > Lines THEN Nominal ELSE lines
(* Mutated form of HBlank: the window may be longer than the line. *)
HBlankUnchecked ==
  LET active == Monus(regs.h[2], regs.h[1])
  IN IF active = 0 THEN Blanking ELSE ((LineClocks - active) * LineCycles) \div LineClocks
HBlank ==
  LET active == Monus(regs.h[2], regs.h[1])
  IN IF active = 0 \/ active > LineClocks THEN Blanking
     ELSE ((LineClocks - active) * LineCycles) \div LineClocks

(* drawing_odd_line, this many cycles after the vertical blank. *)
OddLine(cycles) ==
  LET phase == cycles % (LineCycles * Lines)
      blank == (Lines - VisibleLines) * LineCycles
  IN /\ phase >= blank
     /\ IF Vres480 THEN odd ELSE ((phase - blank) \div LineCycles) % 2 = 1

(* capture_frame: whether every row is captured, or only the field's. *)
Whole ==
  \/ frame.stride * Len(frame.rows) # Stride * Height
  \/ frame.width # regs.width \/ frame.stride # Stride \/ frame.deep # regs.deep
  \/ ~Vres480

(* Mutated form of Captured: always the same field. *)
CapturedEven(y) == Whole \/ y % 2 = 0
Captured(y) == Whole \/ y % 2 = (IF odd THEN 0 ELSE 1)

Row(y) == [at |-> 0, from |-> (regs.start + y) % Rows]

(* vblank.  Rows are dated by how many vertical blanks ago they were       *)
(* captured, as far as two.                                                *)
Aged(row) == [row EXCEPT !.at = Lesser(2, @ + 1)]
EndField ==
  /\ odd' = ~odd
  /\ frame' = [width |-> regs.width, height |-> Height, stride |-> Stride, deep |-> regs.deep,
               rows |-> [n \in 1 .. Height |->
                 IF Captured(n - 1) THEN Row(n - 1) ELSE Aged(frame.rows[n])]]
  /\ shown' = regs /\ steady' = (shown = regs)
  /\ UNCHANGED regs

(* GP1(05) to GP1(08). *)
SetDisplay ==
  /\ \/ \E start \in Starts : regs' = [regs EXCEPT !.start = start]
     \/ \E range \in Ranges : regs' = [regs EXCEPT !.h = range] \/ regs' = [regs EXCEPT !.v = range]
     \/ \E width \in Widths, interlaced, double, deep \in BOOLEAN :
          regs' = [regs EXCEPT !.width = width, !.interlaced = interlaced,
                               !.double = double, !.deep = deep]
  /\ UNCHANGED <<odd, frame, shown, steady>>

(* GP1(00); the picture goes with it.  Which ranges and width it sets does *)
(* not matter.                                                             *)
ResetDisplay ==
  /\ regs' \in {r \in Registers : ~r.interlaced /\ ~r.double /\ ~r.deep}
  /\ odd' = FALSE /\ frame' = NoFrame /\ shown' = None /\ steady' = FALSE

Next == EndField \/ SetDisplay \/ ResetDisplay

Spec == Init /\ [][Next]_vars
-----------------------------------------------------------------------------
TypeOK ==
  /\ regs \in Registers /\ odd \in BOOLEAN
  /\ frame.width \in Widths \cup {0} /\ Len(frame.rows) = frame.height
  /\ frame.rows \in Seq([at : 0 .. 2, from : 0 .. Rows - 1])

(* The picture after a vertical blank: if the display stood as it is at    *)
(* the last one too, every row shows the row of VRAM it should, and is no  *)
(* more than one field old in an interlaced picture, new in any other.     *)
Woven ==
  steady =>
    /\ frame.height = Len(frame.rows)
    /\ \A n \in DOMAIN frame.rows :
         /\ frame.rows[n].from = (shown.start + n - 1) % Rows
         /\ frame.rows[n].at <= (IF shown.double /\ shown.interlaced THEN 1 ELSE 0)

(* The timing a counter works with is one a scanline can have, whatever    *)
(* the display ranges are: blanking is part of the line, the visible lines *)
(* are part of the field, and GPUSTAT's line bit alternates over them.     *)
TimingSane ==
  /\ VisibleLines \in 1 .. Lines
  /\ HBlank \in 0 .. LineCycles
  /\ \A line \in 0 .. Lines - 1 :
       OddLine(line * LineCycles) =
         (line >= Lines - VisibleLines
            /\ IF Vres480 THEN odd ELSE (line - (Lines - VisibleLines)) % 2 = 1)
=============================================================================
