-------------------------------- MODULE Scan --------------------------------
(***************************************************************************)
(* The memory scanner (psx-app/src/scan.rs) as the control port and the    *)
(* user interface drive it: passes that narrow a list of addresses, each   *)
(* comparing RAM with what it held at the last pass.                       *)
(*                                                                         *)
(* RAM is a few bytes of Base values; between two passes the game writes   *)
(* what it likes.                                                          *)
(***************************************************************************)
EXTENDS Integers, Sequences, SequencesExt, FiniteSets

CONSTANTS
  Base,     (* values of a byte: 256                                       *)
  Size,     (* bytes of RAM                                                *)
  Widths,   (* widths of a value: 1, 2 or 4                                *)
  Values,   (* values looked for                                           *)
  Passes    (* bound: passes of one scan                                   *)

VARIABLES
  ram,
  scan,     (* candidates, the RAM of the last pass, and the width         *)
  passes    (* history: what each pass of this scan asked for and saw      *)

vars == <<ram, scan, passes>>

Addresses == 0 .. Size - 1
NoScan == [width |-> 0, candidates |-> <<>>, snapshot |-> <<>>]

(* The elements of s that are in S, in order (SelectSeq, of a set).        *)
Those(s, S) ==
  LET upto[n \in 0 .. Len(s)] ==
        IF n = 0 THEN <<>>
        ELSE IF s[n] \in S THEN Append(upto[n - 1], s[n]) ELSE upto[n - 1]
  IN upto[Len(s)]

Aligned(w) == Those([n \in 1 .. Size |-> n - 1], {a \in Addresses : a % w = 0})

(* read *)
Value(bytes, a, w) == FoldRight(LAMBDA k, v : Base * v + bytes[a + k], [n \in 1 .. w |-> n - 1], 0)
Most(w) == Value([a \in Addresses |-> Base - 1], 0, w)

Comparisons == {"changed", "unchanged", "increased", "decreased"}
Filters ==
  {[op |-> o] : o \in {"unknown"} \cup Comparisons}
    \cup {[op |-> "exact", value |-> v] : v \in Values}

Init ==
  /\ ram = [a \in Addresses |-> 0]
  /\ scan = NoScan
  /\ passes = <<>>
-----------------------------------------------------------------------------
Compare(op, now, before) ==
  CASE op = "changed" -> now # before
    [] op = "unchanged" -> now = before
    [] op = "increased" -> now > before
    [] op = "decreased" -> now < before

(* Mutated form of Keeps: the first comparison finds nothing, for lack of  *)
(* anything to compare with.                                               *)
KeepsNone(s, filter, a) ==
  CASE filter.op = "unknown" -> TRUE
    [] filter.op = "exact" ->
         Value(ram, a, s.width) = filter.value % (Most(s.width) + 1)
    [] OTHER -> s.snapshot # <<>>
                  /\ Compare(filter.op, Value(ram, a, s.width), Value(s.snapshot, a, s.width))
(* Without a snapshot a comparison keeps everything. *)
Keeps(s, filter, a) ==
  CASE filter.op = "unknown" -> TRUE
    [] filter.op = "exact" ->
         Value(ram, a, s.width) = filter.value % (Most(s.width) + 1)
    [] OTHER -> s.snapshot # <<>>
                  => Compare(filter.op, Value(ram, a, s.width), Value(s.snapshot, a, s.width))

Continues(width, restart) == scan # NoScan /\ ~restart /\ scan.width = width

(* pass *)
Pass(width, filter, restart) ==
  LET going == Continues(width, restart)
      s == IF going THEN scan
           ELSE [width |-> width, candidates |-> Aligned(width), snapshot |-> <<>>]
      before == IF going THEN passes ELSE <<>>
  IN /\ Len(before) < Passes
     /\ scan' = [s EXCEPT !.candidates = Those(@, {a \in ToSet(@) : Keeps(s, filter, a)}),
                          !.snapshot = ram]
     /\ passes' = Append(before, [filter |-> filter, ram |-> ram])
     /\ UNCHANGED ram

(* "scan start", which takes no comparison. *)
Start(width) ==
  \E filter \in Filters : filter.op \notin Comparisons /\ Pass(width, filter, TRUE)

(* "scan filter", which keeps the width and is refused without a scan. *)
Filter ==
  /\ scan # NoScan
  /\ \E filter \in Filters : filter.op # "unknown" /\ Pass(scan.width, filter, FALSE)

(* A pass of the user interface asks for any of it. *)
Ask(width) ==
  \E filter \in Filters, restart \in BOOLEAN : Pass(width, filter, restart)

Clear ==
  /\ scan' = NoScan
  /\ passes' = <<>>
  /\ UNCHANGED ram

GameWrites ==
  /\ \E a \in Addresses, v \in 0 .. Base - 1 : ram' = [ram EXCEPT ![a] = v]
  /\ UNCHANGED <<scan, passes>>

Next ==
  \/ \E width \in Widths : Start(width) \/ Ask(width)
  \/ Filter \/ Clear \/ GameWrites

Spec == Init /\ [][Next]_vars
-----------------------------------------------------------------------------
TypeOK ==
  /\ ram \in [Addresses -> 0 .. Base - 1]
  /\ scan # NoScan => scan.width \in Widths /\ Len(scan.candidates) <= Size

(* list: candidates, their values now and at the last pass. *)
Listed ==
  [n \in DOMAIN scan.candidates |->
    LET a == scan.candidates[n]
    IN <<a, Value(ram, a, scan.width), Value(scan.snapshot, a, scan.width)>>]

(* Survived pass n of the scan: nobody's memory but the passes' own.       *)
Survived(n, a) ==
  LET f == passes[n].filter
      now == Value(passes[n].ram, a, scan.width)
  IN CASE f.op = "unknown" -> TRUE
       [] f.op = "exact" -> now = f.value % (Most(scan.width) + 1)
       [] OTHER -> n > 1 => Compare(f.op, now, Value(passes[n - 1].ram, a, scan.width))

(* However passes, writes of the game, widths and restarts follow one      *)
(* another, what is listed is every aligned address that survived every    *)
(* pass since the scan began, in order, with the value the last pass saw.  *)
ListsSurvivors ==
  scan # NoScan =>
    LET aligned == Aligned(scan.width)
        survivors ==
          Those(aligned, {a \in ToSet(aligned) : \A n \in DOMAIN passes : Survived(n, a)})
        last == passes[Len(passes)].ram
    IN Listed = [n \in DOMAIN survivors |->
                  <<survivors[n], Value(ram, survivors[n], scan.width),
                    Value(last, survivors[n], scan.width)>>]
=============================================================================
