-------------------------------- MODULE Mdec --------------------------------
(***************************************************************************)
(* The macroblock decoder (psx-core/src/mdec.rs): commands, their          *)
(* parameters, and how a stream of halfwords is cut into blocks and the    *)
(* blocks into macroblocks, on the fly, as the words arrive.               *)
(*                                                                         *)
(* A halfword of the stream is known by its run length, or is the          *)
(* end-of-block code.  A block is the list of what went into it: each      *)
(* coefficient's place and the halfword it is from.  The transforms and    *)
(* the queue of pixels they fill are left out.                             *)
(***************************************************************************)
EXTENDS Integers, Sequences, FiniteSets

CONSTANTS
  Size,         (* coefficients of a block: 64                             *)
  ColorBlocks,  (* blocks of a colour macroblock: 6                        *)
  Chroma,       (* how many of them use the chroma table: 2                *)
  Counts,       (* parameter words of the Decode commands sent             *)
  Tables        (* parameter words of the table uploads sent               *)

(* What the constants are. *)
MdecAssumption ==
  /\ Size \in Nat \ {0, 1} /\ ColorBlocks \in Nat \ {0} /\ Chroma \in 0 .. ColorBlocks
  /\ Counts \subseteq Nat \ {0} /\ Tables \subseteq Nat \ {0}

Eob == -1
Halves == {Eob} \cup 0 .. Size - 1

VARIABLES
  mdec,      (* command, remaining and the state of the decoding           *)
  sending,   (* the program: its command, its words, how many are sent     *)
  got,       (* history: the halfwords of the Decode being sent            *)
  emitted    (* history: the macroblocks they came to                      *)

vars == <<mdec, sending, got, emitted>>

Idle == [command |-> "idle", remaining |-> 0, color |-> FALSE,
         in_block |-> FALSE, idx |-> 0, coefs |-> <<>>, blocks |-> <<>>, table |-> "luma"]
Nothing == [kind |-> "idle", words |-> 0, sent |-> 0]

Init == mdec = Idle /\ sending = Nothing /\ got = <<>> /\ emitted = <<>>
-----------------------------------------------------------------------------
(* The decoder: m is the Mdec and made, the macroblocks it has emitted.    *)

Needed(m) == IF m.color THEN ColorBlocks ELSE 1
(* quant_table *)
Table(m) == IF m.color /\ Len(m.blocks) < Chroma THEN "chroma" ELSE "luma"

(* end_block, emit_macroblock *)
EndBlock(s) ==
  LET blocks == Append(s.m.blocks, [table |-> s.m.table, coefs |-> s.m.coefs])
      full == Len(blocks) >= Needed(s.m)
  IN [m |-> [s.m EXCEPT !.in_block = FALSE, !.idx = 0, !.coefs = <<>>, !.table = "luma",
                        !.blocks = IF full THEN <<>> ELSE blocks],
      made |-> IF full THEN Append(s.made, blocks) ELSE s.made]

StartBlock(s, n) ==
  [s EXCEPT !.m.in_block = TRUE, !.m.idx = 1, !.m.coefs = <<<<0, n>>>>, !.m.table = Table(s.m)]

Coefficient(s, half, n) ==
  LET at == s.m.idx + half
      put == [s EXCEPT !.m.coefs = Append(@, <<at, n>>), !.m.idx = at + 1]
  IN IF at >= Size THEN EndBlock(s)
     ELSE IF at + 1 >= Size THEN EndBlock(put) ELSE put

(* Mutated form of Feed: padding starts a block. *)
FeedPadding(s, half, n) ==
  CASE ~s.m.in_block -> StartBlock(s, n)
    [] s.m.in_block /\ half = Eob -> EndBlock(s)
    [] s.m.in_block /\ half # Eob -> Coefficient(s, half, n)
(* feed_coefficient: halfword n of the stream. *)
Feed(s, half, n) ==
  CASE ~s.m.in_block /\ half = Eob -> s
    [] ~s.m.in_block /\ half # Eob -> StartBlock(s, n)
    [] s.m.in_block /\ half = Eob -> EndBlock(s)
    [] s.m.in_block /\ half # Eob -> Coefficient(s, half, n)

FeedHalf(s, half, n) ==
  IF s.m.remaining = 0 THEN s
  ELSE LET t == [s EXCEPT !.m.remaining = @ - 1]
       IN IF t.m.command = "decode" THEN Feed(t, half, n) ELSE t

(* The end of write_data: a block the stream ended in is flushed.          *)
Finish(s) ==
  IF s.m.remaining > 0 THEN s
  ELSE LET t == IF s.m.command = "decode" /\ s.m.in_block THEN EndBlock(s) ELSE s
       IN [t EXCEPT !.m.command = "idle"]

(* A command word; Decode forgets the blocks of an unfinished macroblock.  *)
Started(kind, color, words) ==
  [Idle EXCEPT !.command = kind, !.color = color, !.remaining = 2 * words]

StartDecode ==
  /\ sending.sent = sending.words
  /\ \E color \in BOOLEAN, words \in Counts :
       /\ mdec' = Started("decode", color, words)
       /\ sending' = [kind |-> "decode", words |-> words, sent |-> 0]
  /\ got' = <<>> /\ emitted' = <<>>

StartUpload ==
  /\ sending.sent = sending.words
  /\ \E words \in Tables :
       /\ mdec' = [mdec EXCEPT !.command = "upload", !.remaining = 2 * words]
       /\ sending' = [kind |-> "upload", words |-> words, sent |-> 0]
  /\ got' = <<>> /\ emitted' = <<>>

(* write_data while a command is under way. *)
WriteParameter ==
  /\ sending.sent < sending.words
  /\ \E first, second \in Halves :
       LET start == [m |-> mdec, made |-> <<>>]
           n == Len(got)
           s == Finish(FeedHalf(FeedHalf(start, first, n + 1), second, n + 2))
       IN /\ sending.kind = "upload" => first = 0 /\ second = 0
          /\ mdec' = s.m
          /\ emitted' = emitted \o s.made
          /\ got' = IF sending.kind = "decode" THEN got \o <<first, second>> ELSE got
  /\ sending' = [sending EXCEPT !.sent = @ + 1]

(* Mutated form of Reset: the command goes on. *)
ResetOutput ==
  /\ mdec' = [mdec EXCEPT !.in_block = FALSE, !.blocks = <<>>]
  /\ sending' = Nothing /\ got' = <<>> /\ emitted' = <<>>
(* write_control with bit 31, at any moment. *)
Reset ==
  /\ mdec' = [mdec EXCEPT !.command = "idle", !.remaining = 0, !.in_block = FALSE, !.blocks = <<>>,
                          !.idx = 0, !.coefs = <<>>, !.table = "luma"]
  /\ sending' = Nothing /\ got' = <<>> /\ emitted' = <<>>

Next == StartDecode \/ StartUpload \/ WriteParameter \/ Reset

Spec == Init /\ [][Next]_vars
-----------------------------------------------------------------------------
(* The reference: the blocks in a whole stream.  A block is a range of     *)
(* halfwords: it begins at the first one that is no padding and ends at    *)
(* the first end-of-block code, or where its places are used up.           *)

Place(hs, a, n) == n - a + (IF n = a THEN 0 ELSE
  LET sum[k \in a .. n] == IF k = a THEN 0 ELSE sum[k - 1] + hs[k] IN sum[n])

Ends(hs, a, n) ==
  \/ n > a /\ hs[n] = Eob
  \/ n > a /\ Place(hs, a, n) >= Size - 1
  \/ n = Len(hs)

Cut(hs) ==      (* the ranges <<first, last>> of the blocks, in order *)
  LET first(n) == {k \in n .. Len(hs) : hs[k] # Eob /\ \A j \in n .. k - 1 : hs[j] = Eob}
      last(a) == CHOOSE n \in a .. Len(hs) : Ends(hs, a, n) /\ \A j \in a .. n - 1 : ~Ends(hs, a, j)
      cut[n \in 1 .. Len(hs) + 1] ==
        IF n > Len(hs) \/ first(n) = {} THEN <<>>
        ELSE LET a == CHOOSE k \in first(n) : TRUE
             IN <<<<a, last(a)>>>> \o cut[last(a) + 1]
  IN cut[1]

(* What goes into the block that is halfwords r[1] to r[2]. *)
Content(hs, r) ==
  LET is == {n \in r[1] .. r[2] : hs[n] # Eob /\ Place(hs, r[1], n) < Size}
  IN {<<Place(hs, r[1], n), n>> : n \in is}

BlocksOf(macros) == [k \in 1 .. Len(macros) * Needed(mdec) |->
  macros[((k - 1) \div Needed(mdec)) + 1][((k - 1) % Needed(mdec)) + 1]]
-----------------------------------------------------------------------------
TypeOK ==
  /\ mdec.command \in {"idle", "decode", "upload"} /\ mdec.remaining \in Nat
  /\ mdec.idx \in 0 .. Size - 1 /\ Len(mdec.blocks) < ColorBlocks
  /\ sending.sent \in 0 .. sending.words

(* The decoder and whoever feeds it agree on where a command ends: it is   *)
(* busy exactly while words of the command are missing, and a new command  *)
(* word is never taken for a parameter -- whatever was cut short before.   *)
InStep ==
  /\ mdec.remaining = 2 * (sending.words - sending.sent)
  /\ (mdec.command = "idle") = (sending.sent = sending.words)

(* When a stream is through, its macroblocks are the blocks that are in    *)
(* it, in order, ColorBlocks to one, with their coefficients in place and  *)
(* the chroma table for the first of them; what is left over of a last,    *)
(* incomplete macroblock is not shown.                                     *)
WholeMacroblocks ==
  sending.kind = "decode" /\ mdec.command = "idle" =>
    LET ranges == Cut(got)
        blocks == BlocksOf(emitted)
    IN /\ Len(emitted) = Len(ranges) \div Needed(mdec)
       /\ \A k \in DOMAIN blocks :
            /\ {blocks[k].coefs[i] : i \in DOMAIN blocks[k].coefs} = Content(got, ranges[k])
            /\ (blocks[k].table = "chroma")
                 = (mdec.color /\ (k - 1) % ColorBlocks < Chroma)
=============================================================================
