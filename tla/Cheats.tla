------------------------------- MODULE Cheats --------------------------------
(***************************************************************************)
(* The cheat engine (psx-core/src/cheats.rs): the .cht file, what is read  *)
(* from it and written back to it, and the codes run at every vertical     *)
(* blank; with the commands of the control port that touch them            *)
(* (psx-app/src/control.rs).                                               *)
(*                                                                         *)
(* A file is a sequence of lines.  A line in brackets starts a cheat: its  *)
(* text is a sequence of asterisks, blanks and words.  A code line is two  *)
(* hexadecimal words: here the type byte, the address and the value.  A    *)
(* byte has the values 0 .. Base - 1, a halfword is two bytes.             *)
(***************************************************************************)
EXTENDS Integers, Sequences, SequencesExt, FiniteSets

CONSTANTS
  Base,       (* values of a byte: 256                                     *)
  Ram,        (* addresses a cheat can write                               *)
  Rom,        (* addresses a cheat can only read                           *)
  Files,      (* contents of .cht files                                    *)
  Swapped,    (* those of the discs that may be swapped in                 *)
  Held        (* pad halfwords the player holds, active low                *)

VARIABLES
  file,       (* the .cht of the disc in the drive                         *)
  list,       (* the machine's CheatList                                   *)
  enabled,    (* its master switch                                         *)
  memory,     (* what the game and the cheats have written                 *)
  saved       (* history: the file has what the machine has                *)

vars == <<file, list, enabled, memory, saved>>

None == [line |-> "none"]
Bracketed(text) == [line |-> "name", text |-> text]
Words(kind, addr, value) == [line |-> "words", kind |-> kind, addr |-> addr, value |-> value]
(* A line that is not two words of 8 and 4 digits; its first word may be.  *)
Malformed(kind) == [line |-> "malformed", kind |-> kind]
Comment == [line |-> "comment"]

Paired == {"50", "C2"}
Cmp == [D0 |-> "eq", D1 |-> "ne", D2 |-> "lt", D3 |-> "gt",
        E0 |-> "eq", E1 |-> "ne", E2 |-> "lt", E3 |-> "gt"]
-----------------------------------------------------------------------------
Marked(text) == text # <<>> /\ Head(text) = "*"
Trim(text) ==
  LET words == {n \in DOMAIN text : text[n] # " "}
  IN IF words = {} THEN <<>> ELSE SubSeq(text, Min(words), Max(words))

(* The cheat a bracketed line starts: one asterisk says that it is on, and *)
(* is no part of its name.                                                 *)
ParseName(text) ==
  [name |-> Trim(IF Marked(text) THEN Tail(text) ELSE text), on |-> Marked(text),
   codes |-> <<>>]

(* Code::parse *)
ParseLine(l) ==
  CASE l.kind = "30" -> [op |-> "write8", addr |-> l.addr, value |-> l.value % Base]
    [] l.kind = "80" -> [op |-> "write16", addr |-> l.addr, value |-> l.value]
    [] l.kind = "10" -> [op |-> "add16", addr |-> l.addr, delta |-> l.value]
    [] l.kind = "11" -> [op |-> "add16", addr |-> l.addr, delta |-> -l.value]
    [] l.kind = "20" -> [op |-> "add8", addr |-> l.addr, delta |-> l.value % Base]
    [] l.kind = "21" -> [op |-> "add8", addr |-> l.addr, delta |-> -(l.value % Base)]
    [] l.kind = "D4" -> [op |-> "buttons", value |-> l.value]
    [] l.kind \in {"D0", "D1", "D2", "D3"} ->
         [op |-> "if16", kind |-> l.kind, addr |-> l.addr, value |-> l.value]
    [] l.kind \in {"E0", "E1", "E2", "E3"} ->
         [op |-> "if8", kind |-> l.kind, addr |-> l.addr, value |-> l.value % Base]
    [] OTHER -> [op |-> "unsupported", kind |-> l.kind, addr |-> l.addr, value |-> l.value]

(* Code::parse_pair; the address of a slide's first line is nn and bb. *)
ParsePair(head, tail) ==
  IF head.kind = "50"
  THEN [op |-> "slide", addr |-> tail.addr, count |-> head.addr \div Base,
        stride |-> head.addr % Base, value |-> head.value, step |-> tail.value]
  ELSE [op |-> "copy", src |-> head.addr, dst |-> tail.addr, len |-> head.value]

AddCode(cheats, code) == [cheats EXCEPT ![Len(cheats)].codes = Append(@, code)]

(* CheatList::parse, one line; head is the first of two, or None. *)
ParseStep(p, l) ==
  IF p.head # None
  THEN [head |-> None,
        cheats |-> IF l.line = "words" /\ p.head.line = "words"
                   THEN AddCode(p.cheats, ParsePair(p.head, l)) ELSE p.cheats]
  ELSE IF l.line = "name"
  THEN [p EXCEPT !.cheats = Append(@, ParseName(l.text))]
  ELSE IF p.cheats = <<>> THEN p
  ELSE IF l.kind \in Paired THEN [p EXCEPT !.head = l]
  ELSE IF l.line = "words" THEN [p EXCEPT !.cheats = AddCode(@, ParseLine(l))]
  ELSE p

Parse(lines) ==
  FoldLeft(ParseStep, [cheats |-> <<>>, head |-> None],
           SelectSeq(lines, LAMBDA l : l # Comment)).cheats

(* Mutated form of CodeText: the sign of a 16-bit increment is lost. *)
CodeTextUnsigned(c) ==
  CASE c.op = "write8" -> <<Words("30", c.addr, c.value)>>
    [] c.op = "write16" -> <<Words("80", c.addr, c.value)>>
    [] c.op \in {"add8", "add16"} ->
         <<Words(IF c.op = "add8" THEN "20" ELSE "10", c.addr,
                 IF c.delta < 0 THEN -c.delta ELSE c.delta)>>
    [] c.op = "buttons" -> <<Words("D4", 0, c.value)>>
    [] c.op = "slide" -> <<Words("50", c.count * Base + c.stride, c.value),
                           Words("80", c.addr, c.step)>>
    [] c.op = "copy" -> <<Words("C2", c.src, c.len), Words("80", c.dst, 0)>>
    [] OTHER -> <<Words(c.kind, c.addr, c.value)>>
(* CheatList::to_text *)
CodeText(c) ==
  LET signed(up, down) == Words(IF c.delta < 0 THEN down ELSE up, c.addr,
                                IF c.delta < 0 THEN -c.delta ELSE c.delta)
  IN CASE c.op = "write8" -> <<Words("30", c.addr, c.value)>>
       [] c.op = "write16" -> <<Words("80", c.addr, c.value)>>
       [] c.op = "add8" -> <<signed("20", "21")>>
       [] c.op = "add16" -> <<signed("10", "11")>>
       [] c.op = "buttons" -> <<Words("D4", 0, c.value)>>
       [] c.op = "slide" -> <<Words("50", c.count * Base + c.stride, c.value),
                              Words("80", c.addr, c.step)>>
       [] c.op = "copy" -> <<Words("C2", c.src, c.len), Words("80", c.dst, 0)>>
       [] OTHER -> <<Words(c.kind, c.addr, c.value)>>

ToText(cheats) ==
  FlattenSeq([n \in DOMAIN cheats |->
    <<Bracketed((IF cheats[n].on THEN <<"*">> ELSE <<>>) \o cheats[n].name)>>
      \o FlattenSeq([k \in DOMAIN cheats[n].codes |-> CodeText(cheats[n].codes[k])])])
-----------------------------------------------------------------------------
(* Running.  Memory is read and written a byte at a time; ROM, and what is *)
(* neither, refuses a write. *)

Readable(a) == a \in Ram \cup Rom
Peek(m, a) == IF a \in Ram THEN m[a] ELSE 0
Poke(m, a, v) == IF a \in Ram THEN [m EXCEPT ![a] = v] ELSE m

Write16(m, a, v) == Poke(Poke(m, a, v % Base), a + 1, (v \div Base) % Base)
Readable16(a) == Readable(a) /\ Readable(a + 1)
Read16(m, a) == Peek(m, a) + Base * Peek(m, a + 1)

Compare(cmp, operand, value) ==
  CASE cmp = "eq" -> operand = value
    [] cmp = "ne" -> operand # value
    [] cmp = "lt" -> operand < value
    [] cmp = "gt" -> operand > value

Conditional(c) == c.op \in {"if8", "if16", "buttons"}

(* A condition on what cannot be read is false. *)
Holds(c, m, pad) ==
  CASE c.op = "if8" -> Readable(c.addr) /\ Compare(Cmp[c.kind], c.value, Peek(m, c.addr))
    [] c.op = "if16" -> Readable16(c.addr) /\ Compare(Cmp[c.kind], c.value, Read16(m, c.addr))
    [] c.op = "buttons" -> c.value = pad

Slide(c, m) ==
  LET upto[n \in 0 .. c.count] ==
        IF n = 0 THEN m
        ELSE Write16(upto[n - 1], c.addr + (n - 1) * c.stride,
                     (c.value + (n - 1) * c.step) % (Base * Base))
  IN upto[c.count]

(* It stops at the first byte that cannot be read or written. *)
Copy(c, m) ==
  LET open(n) == \A k \in 0 .. n - 1 : Readable(c.src + k) /\ c.dst + k \in Ram
      upto[n \in 0 .. c.len] ==
        IF n = 0 THEN m
        ELSE IF open(n) THEN Poke(upto[n - 1], c.dst + n - 1, Peek(upto[n - 1], c.src + n - 1))
        ELSE upto[n - 1]
  IN upto[c.len]

(* Code::run, the codes that are no conditions. *)
Effect(c, m) ==
  CASE c.op = "write8" -> Poke(m, c.addr, c.value)
    [] c.op = "write16" -> Write16(m, c.addr, c.value)
    [] c.op = "add8" ->
         IF Readable(c.addr) THEN Poke(m, c.addr, (Peek(m, c.addr) + c.delta) % Base) ELSE m
    [] c.op = "add16" ->
         IF Readable16(c.addr)
         THEN Write16(m, c.addr, (Read16(m, c.addr) + c.delta) % (Base * Base)) ELSE m
    [] c.op = "slide" -> Slide(c, m)
    [] c.op = "copy" -> Copy(c, m)
    [] OTHER -> m

(* Mutated form of Skips: only comparisons gate, the buttons do not. *)
SkipsCompared(c, m, pad) == IF c.op \in {"if8", "if16"} /\ ~Holds(c, m, pad) THEN 1 ELSE 0
(* How many of the codes after it are skipped. *)
Skips(c, m, pad) == IF Conditional(c) /\ ~Holds(c, m, pad) THEN 1 ELSE 0

Enabled(cheats) == SelectSeq(cheats, LAMBDA c : c.on)

(* apply *)
RunCodes(m, codes, pad) ==
  FoldLeft(LAMBDA s, c : IF s.skip > 0 THEN [s EXCEPT !.skip = @ - 1]
                         ELSE [memory |-> Effect(c, s.memory), skip |-> Skips(c, s.memory, pad)],
           [memory |-> m, skip |-> 0], codes).memory

Apply(m, cheats, pad) ==
  FoldLeft(LAMBDA s, cheat : RunCodes(s, cheat.codes, pad), m, Enabled(cheats))
-----------------------------------------------------------------------------
Init ==
  /\ file \in Files
  /\ list = Parse(file)
  /\ enabled = TRUE
  /\ memory = [a \in Ram |-> 0]
  /\ saved = TRUE

(* PsxSystem::vblank, with the pad the player holds. *)
VBlank(pad) ==
  /\ memory' = IF enabled THEN Apply(memory, list, pad) ELSE memory
  /\ UNCHANGED <<file, list, enabled, saved>>

GameWrites ==
  /\ \E a \in Ram, v \in 0 .. Base - 1 : memory' = [memory EXCEPT ![a] = v]
  /\ UNCHANGED <<file, list, enabled, saved>>

(* "cheat on|off n": the list is changed, then written back, which may     *)
(* fail and is then told.                                                  *)
Toggle ==
  /\ \E n \in DOMAIN list, on, written \in BOOLEAN :
       /\ list' = [list EXCEPT ![n].on = on]
       /\ file' = IF written THEN ToText(list') ELSE file
       /\ saved' = written
  /\ UNCHANGED <<enabled, memory>>

(* "cheat reload" *)
Reload ==
  /\ list' = Parse(file)
  /\ saved' = TRUE
  /\ UNCHANGED <<file, enabled, memory>>

(* "cheat apply on|off" *)
Master ==
  /\ enabled' \in BOOLEAN
  /\ UNCHANGED <<file, list, memory, saved>>

(* "disc close path": the cheats of another disc, if it has any. *)
SwapDisc ==
  /\ file' \in Swapped
  /\ list' = Parse(file')
  /\ saved' = TRUE
  /\ UNCHANGED <<enabled, memory>>

Next ==
  \/ \E pad \in Held : VBlank(pad)
  \/ GameWrites \/ Toggle \/ Reload \/ Master \/ SwapDisc

Spec == Init /\ [][Next]_vars
-----------------------------------------------------------------------------
TypeOK ==
  /\ memory \in [Ram -> 0 .. Base - 1]
  /\ \A n \in DOMAIN list : list[n].on \in BOOLEAN

(* What comes back of a cheat written to the file.  One that is off and    *)
(* whose own name begins with an asterisk, as "[**A]" or "[ *A]" make one, *)
(* is written with that asterisk first, which reads as the mark.           *)
Reread(cheat) ==
  IF Marked(cheat.name) /\ ~cheat.on
  THEN [cheat EXCEPT !.on = TRUE, !.name = Trim(Tail(@))] ELSE cheat

(* A toggle that was stored is still there when the file is read again,    *)
(* and so is everything else of every cheat, for the file is the only      *)
(* record of what is on; except that a cheat whose name begins with an     *)
(* asterisk comes back on, under the rest of its name, once it was written *)
(* off.                                                                    *)
StoredAsShown ==
  saved => \/ Parse(file) = list
           \/ Parse(file) = [n \in DOMAIN list |-> Reread(list[n])]

(* What a nested reading of conditions does: a code runs if every          *)
(* condition of the unbroken chain of them before it held.                 *)
RunNested(m, codes, pad) ==
  FoldLeft(LAMBDA s, c :
             IF Conditional(c) THEN [s EXCEPT !.live = @ /\ Holds(c, s.memory, pad)]
             ELSE [memory |-> IF s.live THEN Effect(c, s.memory) ELSE s.memory, live |-> TRUE],
           [memory |-> m, live |-> TRUE], codes).memory
ApplyNested(m, cheats, pad) ==
  FoldLeft(LAMBDA s, cheat : RunNested(s, cheat.codes, pad), m, Enabled(cheats))

Chained(cheat) ==
  \E n \in 2 .. Len(cheat.codes) :
    Conditional(cheat.codes[n - 1]) /\ Conditional(cheat.codes[n])

(* A condition gates the code after it, over two lines or one, and no      *)
(* other; none reaches into the next cheat.                                *)
GatesTheNextStep ==
  \A pad \in Held :
    VBlank(pad) /\ enabled /\ (\A n \in DOMAIN list : ~Chained(list[n]))
      => memory' = ApplyNested(memory, list, pad)
GatesTheNext == [][GatesTheNextStep]_vars

(* "Chaining conditionals nests them by construction" (docs/CHEATS.md).    *)
ChainsNest ==
  [][\A pad \in Held :
       VBlank(pad) /\ enabled => memory' = ApplyNested(memory, list, pad)]_vars
=============================================================================
