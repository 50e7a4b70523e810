-------------------------------- MODULE Gp0 ---------------------------------
(***************************************************************************)
(* The GPU's command port and read port (psx-core/src/gpu/mod.rs): how it  *)
(* finds its way in a stream of words that says nowhere where a command    *)
(* begins or ends, whoever sends them, the processor or DMA channel 2.     *)
(*                                                                         *)
(* A program sends commands, word by word, may reset the port in the       *)
(* middle of one, and reads back what it has asked for.  Of a word, what   *)
(* the parser can tell is kept: its top byte, whether it looks like a      *)
(* polyline's terminator, the number of pixels a size word stands for.  n  *)
(* says which word of its command it is.  Pixels themselves are left out:  *)
(* a drawing command's effect is which words it took as what.              *)
(***************************************************************************)
EXTENDS Integers, Sequences

CONSTANTS
  Opcodes,     (* the commands sent                                        *)
  TopBytes,    (* what the words after the first may begin with            *)
  Pixels,      (* sizes of the images transferred                          *)
  Segments     (* bound: segments of a polyline after the first            *)

Bit(op, mask) == (op \div mask) % 2 = 1   (* op & mask # 0, mask a power of 2 *)
One(b) == IF b THEN 1 ELSE 0

(* What the constants are.  0, a command of one word that does nothing,   *)
(* stands for none.                                                        *)
Gp0Assumption ==
  /\ Opcodes \subseteq 1 .. 255 /\ TopBytes \subseteq 0 .. 255
  /\ Pixels \subseteq Nat \ {0} /\ Segments \in Nat

VARIABLES
  gpu,       (* fifo, words_needed, mode, the polyline's state; what the   *)
             (* code leaves behind and never reads again is cleared        *)
  reads,     (* read_queue                                                 *)
  sending,   (* the program: the command it is sending, how far, its size  *)
  owed,      (* the words the program has asked for and not yet read       *)
  did        (* history: the effects of the command being sent             *)

vars == <<gpu, reads, sending, owed, did>>

Idle == [op |-> 0, sent |-> 0, size |-> 0]
NoPoly == [on |-> FALSE, gouraud |-> FALSE, color |-> 0, vertex |-> 0]
NoLoad == [cur |-> 0, total |-> 0]
PowerOn == [fifo |-> <<>>, op |-> 0, needed |-> 0, load |-> NoLoad, poly |-> NoPoly]

Init ==
  /\ gpu = PowerOn /\ reads = <<>>
  /\ sending = Idle /\ owed = <<>> /\ did = <<>>
-----------------------------------------------------------------------------
(* The parser.  A step maps the gpu and a word to the gpu and the effects. *)

IsPolygon(op) == op \in 32 .. 63
IsLine(op) == op \in 64 .. 95
IsRect(op) == op \in 96 .. 127

(* command_length *)
CommandLength(op) ==
  CASE op = 2 -> 3
    [] op \in 32 .. 39 -> IF Bit(op, 4) THEN 7 ELSE 4
    [] op \in 40 .. 47 -> IF Bit(op, 4) THEN 9 ELSE 5
    [] op \in 48 .. 55 -> IF Bit(op, 4) THEN 9 ELSE 6
    [] op \in 56 .. 63 -> IF Bit(op, 4) THEN 12 ELSE 8
    [] IsLine(op) -> IF Bit(op, 16) THEN 4 ELSE 3
    [] IsRect(op) -> 2 + One(Bit(op, 4)) + One(~Bit(op, 8) /\ ~Bit(op, 16))
    [] op \in 128 .. 159 -> 4
    [] op \in 160 .. 191 -> 3
    [] op \in 192 .. 223 -> 3
    [] OTHER -> 1

(* draw_polygon_command reads stride words a vertex, and a color first     *)
(* unless each vertex has one; lines and rectangles are alike.             *)
Line(v0, v1, c0, c1) == <<"line", v0, v1, c0, c1>>
Draw(op, cmd) == <<"draw", op, [i \in DOMAIN cmd |-> cmd[i].n]>>

StartPoly(op, cmd) ==
  IF ~Bit(op, 8) THEN NoPoly
  ELSE [on |-> TRUE, gouraud |-> Bit(op, 16),
        color |-> cmd[IF Bit(op, 16) THEN 3 ELSE 1].n, vertex |-> cmd[Len(cmd)].n]

FirstLine(op, cmd) ==
  IF Bit(op, 16) THEN Line(cmd[2].n, cmd[4].n, cmd[1].n, cmd[3].n)
  ELSE Line(cmd[2].n, cmd[3].n, cmd[1].n, cmd[1].n)

ExecuteCommand(g, op, cmd) ==
  [g |-> CASE IsLine(op) -> [g EXCEPT !.poly = StartPoly(op, cmd)]
           [] op \in 160 .. 191 -> [g EXCEPT !.load = [cur |-> 0, total |-> cmd[3].size]]
           [] OTHER -> g,
   did |-> <<IF IsLine(op) THEN FirstLine(op, cmd) ELSE Draw(op, cmd)>>,
   reads |-> IF op \in 192 .. 223
             THEN [i \in 1 .. (cmd[3].size + 1) \div 2 |-> <<"pixels", 2 * i - 2>>] ELSE <<>>]

(* Of a word in the fifo, its top byte matters only if it is the first.    *)
Kept(word) == [n |-> word.n, size |-> word.size]
Nothing(g) == [g |-> g, did |-> <<>>, reads |-> <<>>]

(* gp0_polyline: a segment for each vertex, after its color if it has one. *)
Polyline(g, word) ==
  LET words == Append(g.fifo, Kept(word))
      p == g.poly
      color == IF p.gouraud THEN words[1].n ELSE p.color
      vertex == words[Len(words)].n
  IN IF word.term THEN Nothing([g EXCEPT !.poly = NoPoly, !.fifo = <<>>])
     ELSE IF Len(words) < 1 + One(p.gouraud) THEN Nothing([g EXCEPT !.fifo = words])
     ELSE [g |-> [g EXCEPT !.fifo = <<>>, !.poly.color = color, !.poly.vertex = vertex],
           did |-> <<Line(p.vertex, vertex, p.color, color)>>, reads |-> <<>>]

LoadEnds(load) == load.cur + 2 >= load.total

ImageLoad(g, word) ==
  LET load == g.load
  IN [g |-> [g EXCEPT !.load = IF LoadEnds(load) THEN NoLoad ELSE [load EXCEPT !.cur = @ + 2]],
      did |-> <<<<"pixels", load.cur, word.n>>>>, reads |-> <<>>]

(* gp0 *)
Gp0(g, word) ==
  IF g.load # NoLoad THEN ImageLoad(g, word)
  ELSE IF g.poly.on THEN Polyline(g, word)
  ELSE LET op == IF g.fifo = <<>> THEN word.top ELSE g.op
           needed == IF g.fifo = <<>> THEN CommandLength(op) ELSE g.needed
           words == Append(g.fifo, Kept(word))
       IN IF Len(words) < needed
          THEN Nothing([g EXCEPT !.fifo = words, !.op = op, !.needed = needed])
          ELSE ExecuteCommand([g EXCEPT !.fifo = <<>>, !.op = 0, !.needed = 0], op, words)
-----------------------------------------------------------------------------
(* The program: which words make up a command, from the hardware's         *)
(* description of it (external).                                           *)

IsPolyline(op) == IsLine(op) /\ Bit(op, 8)
Vertices(op) == IF Bit(op, 8) THEN 4 ELSE 3
HeadLength(op) ==
  CASE IsPolygon(op) -> Vertices(op) * (1 + One(Bit(op, 4)) + One(Bit(op, 16))) + One(~Bit(op, 16))
    [] IsLine(op) -> 3 + One(Bit(op, 16))
    [] IsRect(op) -> 2 + One(Bit(op, 4)) + One(op % 32 < 8)
    [] op \in 128 .. 159 -> 4
    [] op = 2 \/ op \in 160 .. 223 -> 3
    [] OTHER -> 1

PerSegment(op) == 1 + One(Bit(op, 16))
FullLength(s) ==
  CASE IsPolyline(s.op) -> HeadLength(s.op) + s.size * PerSegment(s.op) + 1
    [] s.op \in 160 .. 191 -> 3 + (s.size + 1) \div 2
    [] OTHER -> HeadLength(s.op)

Sizes(op) == IF op \in 160 .. 223 THEN Pixels ELSE IF IsPolyline(op) THEN 0 .. Segments ELSE {0}

(* What the words sent so far are to have done. *)
Whole(op) == <<"draw", op, [i \in 1 .. HeadLength(op) |-> i]>>
Segment(op, k) ==    (* the k-th line: from which word to which *)
  LET at(j) == IF Bit(op, 16) THEN 2 * j ELSE j + 1     (* the j-th vertex *)
      color(j) == IF Bit(op, 16) THEN 2 * j - 1 ELSE 1
  IN Line(at(k), at(k + 1), color(k), color(k + 1))
Meant(s) ==
  LET n == s.sent - HeadLength(s.op)
  IN IF s.op = 0 \/ n < 0 THEN <<>>
     ELSE IF IsPolyline(s.op)
          THEN [k \in 1 .. 1 + (IF s.sent = FullLength(s) THEN s.size ELSE n \div PerSegment(s.op))
                  |-> Segment(s.op, k)]
     ELSE IF IsLine(s.op) THEN <<Segment(s.op, 1)>>
     ELSE IF s.op \in 160 .. 191
          THEN <<Whole(s.op)>> \o [k \in 1 .. n |-> <<"pixels", 2 * k - 2, 3 + k>>]
     ELSE <<Whole(s.op)>>

(* The next word of command s; none but the last word of a polyline looks  *)
(* like its terminator, but a word of a polygon or an image may.           *)
Words(s) ==
  LET n == s.sent + 1
      last == n = FullLength(s)
  IN {w \in [top : IF n = 1 THEN {s.op} ELSE TopBytes, term : BOOLEAN, n : {n},
             size : {IF n = 3 THEN s.size ELSE 0}] :
        /\ w.term => n > 1
        /\ IsPolyline(s.op) /\ n > HeadLength(s.op) => (w.term <=> last)}

(* A program reads what it has asked for before it asks for another image. *)
Send(s) ==
  /\ s.op \in 192 .. 223 => owed = <<>>
  /\ \E word \in Words(s) :
       LET after == Gp0(gpu, word)
       IN /\ gpu' = after.g
          /\ did' = (IF s.sent = 0 THEN <<>> ELSE did) \o after.did
          /\ reads' = reads \o after.reads
          /\ sending' = [s EXCEPT !.sent = @ + 1]
          /\ owed' = IF s.op \in 192 .. 223 /\ s.sent + 1 = FullLength(s)
                     THEN [i \in 1 .. (s.size + 1) \div 2 |-> <<"pixels", 2 * i - 2>>] ELSE owed

StartCommand ==
  /\ sending.op = 0 \/ sending.sent = FullLength(sending)
  /\ \E op \in Opcodes : \E size \in Sizes(op) :
       Send([op |-> op, sent |-> 0, size |-> size])

SendWord == sending.op # 0 /\ sending.sent < FullLength(sending) /\ Send(sending)

(* gpuread *)
Read ==
  /\ owed # <<>>
  /\ reads' = IF reads = <<>> THEN reads ELSE Tail(reads)
  /\ owed' = Tail(owed)
  /\ UNCHANGED <<gpu, sending, did>>

(* GP1(00): every register, whatever is under way. *)
ResetGpu ==
  /\ gpu' = PowerOn /\ reads' = <<>>
  /\ sending' = Idle /\ owed' = <<>> /\ did' = <<>>

(* Mutated form of ResetBuffer: a polyline goes on. *)
ResetBufferOnly ==
  /\ owed = <<>>
  /\ gpu' = [gpu EXCEPT !.fifo = <<>>, !.op = 0, !.needed = 0, !.load = NoLoad]
  /\ sending' = Idle /\ did' = <<>>
  /\ UNCHANGED <<reads, owed>>

(* GP1(01).  It leaves the read queue alone: a program does not reset the  *)
(* port in the middle of a transfer it reads.                              *)
ResetBuffer ==
  /\ owed = <<>>
  /\ gpu' = [gpu EXCEPT !.fifo = <<>>, !.op = 0, !.needed = 0, !.load = NoLoad, !.poly = NoPoly]
  /\ sending' = Idle /\ did' = <<>>
  /\ UNCHANGED <<reads, owed>>

(* Mutated form of Info: the answer is queued behind what is there. *)
InfoQueued ==
  /\ reads' = Append(reads, <<"info", 0>>)
  /\ owed' = <<<<"info", 0>>>>
  /\ UNCHANGED <<gpu, sending, did>>
(* GP1(10): the answer replaces whatever was queued. *)
Info ==
  /\ reads' = <<<<"info", 0>>>>
  /\ owed' = <<<<"info", 0>>>>
  /\ UNCHANGED <<gpu, sending, did>>

Next == StartCommand \/ SendWord \/ Read \/ ResetGpu \/ ResetBuffer \/ Info

Spec == Init /\ [][Next]_vars
-----------------------------------------------------------------------------
TypeOK ==
  /\ gpu.needed \in 0 .. 12 /\ Len(gpu.fifo) < 12
  /\ gpu.load.cur \in Nat /\ gpu.load.total \in {0} \cup Pixels
  /\ gpu.poly.on \in BOOLEAN
  /\ sending.op \in Opcodes \cup {0}

(* The port never loses its place: after every word, and after a reset in  *)
(* the middle of any command, it has done exactly what the words sent so   *)
(* far amount to, each taken as what it was sent as.                       *)
InSync == did = Meant(sending)

(* The read port gives a program what it last asked for, and GPUSTAT's     *)
(* bit 27 tells it when there is something left to read.                   *)
ReadsWhatItAsked == reads = owed
=============================================================================
