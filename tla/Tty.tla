-------------------------------- MODULE Tty --------------------------------
(***************************************************************************)
(* The kernel's text output (psx-core/src/tty.rs): a retained window of    *)
(* what the machine has printed, trimmed from the front, and a reader (the *)
(* worker, or the control port's "tty" command) that comes back with a     *)
(* position counted from the first byte ever printed.                      *)
(*                                                                         *)
(* A character takes one byte or two (the kernel prints Latin-1, the text  *)
(* is UTF-8).  A byte is its number in the whole output, whether a         *)
(* character begins with it, and whether it is a newline.                  *)
(***************************************************************************)
EXTENDS Integers, Sequences, SequencesExt, FiniteSetsExt

CONSTANTS
  Cap,      (* CAP: bytes beyond which the text is trimmed                 *)
  Limit     (* bound: bytes printed                                        *)

VARIABLES
  text,     (* the retained bytes                                          *)
  dropped,  (* bytes trimmed so far                                        *)
  line,     (* offset in text at which the unfinished line starts          *)
  read,     (* the reader's position                                       *)
  slice,    (* what its last read returned                                 *)
  logged,   (* the line the last newline completed                         *)
  printed   (* history: for every byte ever printed, is it a newline       *)

vars == <<text, dropped, line, read, slice, logged, printed>>

Characters == {"narrow", "wide", "newline"}
Bytes(ch) ==
  LET n == Len(printed) + 1
      byte(k) == [n |-> k, lead |-> k = n, newline |-> ch = "newline"]
  IN  IF ch = "wide" THEN <<byte(n), byte(n + 1)>> ELSE <<byte(n)>>

Init ==
  /\ text = <<>> /\ dropped = 0 /\ line = 0
  /\ read = 0 /\ slice = <<>> /\ logged = <<>> /\ printed = <<>>
-----------------------------------------------------------------------------
Boundary(s, i) == i = Len(s) \/ s[i + 1].lead
From(s, i) == SubSeq(s, i + 1, Len(s))

(* Mutated form of Cut: at the last line of the whole text. *)
CutLines(s) == Max({Cap \div 2} \cup {k \in DOMAIN s : s[k].newline})

\* Half of the text goes, up to the last line that begins in that half; a
\* line longer than that is cut at the first character past the middle.
Cut(s) ==
  LET half == CHOOSE i \in (Cap \div 2) .. Len(s) :
                 /\ Boundary(s, i)
                 /\ \A j \in (Cap \div 2) .. (i - 1) : ~ Boundary(s, j)
      lines == {k \in 1 .. half : s[k].newline}
  IN  IF lines = {} THEN half ELSE Max(lines)

(* Mutated form of Trim: the cut is counted in characters. *)
TrimCharacters(s) ==
  LET cut == Cut(s) IN
    /\ text' = From(s, cut)
    /\ dropped' = dropped + Len(SelectSeq(SubSeq(s, 1, cut), LAMBDA b : b.lead))
    /\ line' = Max({0, line - cut})

Trim(s) ==
  LET cut == Cut(s) IN
    /\ text' = From(s, cut)
    /\ dropped' = dropped + cut
    /\ line' = Max({0, line - cut})

(* Mutated form of Push: the offset of the line is not moved by a trim. *)
PushKeepingLine(ch) ==
  LET s == text \o Bytes(ch) IN
    /\ Len(printed) + Len(Bytes(ch)) <= Limit
    /\ printed' = printed \o [k \in DOMAIN Bytes(ch) |-> ch = "newline"]
    /\ \/ /\ ch = "newline"
          /\ logged' = From(text, line)
          /\ text' = s /\ line' = Len(s) /\ UNCHANGED dropped
       \/ /\ ch # "newline" /\ Len(s) <= Cap
          /\ text' = s /\ UNCHANGED <<dropped, line, logged>>
       \/ /\ ch # "newline" /\ Len(s) > Cap
          /\ text' = From(s, Cut(s)) /\ dropped' = dropped + Cut(s)
          /\ UNCHANGED <<line, logged>>
    /\ UNCHANGED <<read, slice>>

(* observe_tty, push: a newline completes a line and is never trimmed for. *)
Push(ch) ==
  LET s == text \o Bytes(ch) IN
    /\ Len(printed) + Len(Bytes(ch)) <= Limit
    /\ printed' = printed \o [k \in DOMAIN Bytes(ch) |-> ch = "newline"]
    /\ \/ /\ ch = "newline"
          /\ logged' = From(text, line)
          /\ text' = s /\ line' = Len(s) /\ UNCHANGED dropped
       \/ /\ ch # "newline" /\ Len(s) <= Cap
          /\ text' = s /\ UNCHANGED <<dropped, line, logged>>
       \/ /\ ch # "newline" /\ Len(s) > Cap
          /\ Trim(s) /\ UNCHANGED logged
    /\ UNCHANGED <<read, slice>>

Start == Min({Max({0, read - dropped}), Len(text)})

(* since *)
Read ==
  /\ slice' = From(text, Start)
  /\ read' = dropped + Len(text)
  /\ UNCHANGED <<text, dropped, line, logged, printed>>

Next == (\E ch \in Characters : Push(ch)) \/ Read

Spec == Init /\ [][Next]_vars
-----------------------------------------------------------------------------
TypeOK ==
  /\ dropped \in 0 .. Len(printed) /\ read \in 0 .. Len(printed)
  /\ line \in 0 .. Len(text)
  /\ \A i \in DOMAIN text : text[i].n \in 1 .. Len(printed)

(* A reader that comes back gets what was printed since its last visit and *)
(* is still retained, all of it, once and in order: a position counted     *)
(* over all output survives any number of trims (trim, since).  What it    *)
(* misses has left the window.                                             *)
ReadsOnceStep ==
  Read => LET first == Max({read, Len(printed) - Len(text)})
          IN  [k \in DOMAIN slice' |-> slice'[k].n]
                = [k \in 1 .. Len(printed) - first |-> first + k]
ReadsOnce == [][ReadsOnceStep]_vars

(* The window and every place it is cut at, for a reader or for the log,   *)
(* begin with a whole character (a String slice anywhere else panics), and *)
(* the line a newline completes is the retained part of the last line.     *)
CutsBetweenCharacters ==
  /\ Boundary(text, 0) /\ Boundary(text, Start) /\ Boundary(text, line)
  /\ \A i \in line + 1 .. Len(text) : ~ text[i].newline
  /\ line > 0 => text[line].newline

(* A reader that lags by less than half the cap loses nothing: whatever   *)
(* is trimmed, and however the lines fall, the most recent half stays.     *)
KeepsTheRecentHalf ==
  /\ Len(text) = Len(printed) - dropped
  /\ Len(text) >= Min({Len(printed), Cap \div 2})
=============================================================================
