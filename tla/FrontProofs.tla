---------------------------- MODULE FrontProofs ----------------------------
(***************************************************************************)
(* Proofs about the parts around the machine, as MCFront composes them,    *)
(* for every value of their constants: the program's output (Tty), the     *)
(* control port (Control), the memory scanner (Scan), the cue sheets       *)
(* (CueSheet) and the debugger's packets (Packets).                        *)
(***************************************************************************)
EXTENDS MCFront, Induction, SequenceTheorems, TLAPS

unitsVars ==
  <<unit, controlVars, cheatsVars, scanVars, ttyVars, packetsVars, cueVars>>
-----------------------------------------------------------------------------
(* Tty. *)

Byte == [n : Nat, lead : BOOLEAN, newline : BOOLEAN]

(* Bytes that are whole characters: the first leads, and one that does not *)
(* follows one that does and that is no newline.                           *)
WholeCharacters(s) ==
  /\ s \in Seq(Byte)
  /\ Len(s) > 0 => s[1].lead
  /\ \A i \in 1 .. Len(s) : i < Len(s) /\ ~s[i + 1].lead => s[i].lead /\ ~s[i].newline

(* A place between two characters.                                         *)
Between(s, i) == i \in 0 .. Len(s) /\ (i < Len(s) => s[i + 1].lead)

LEMMA BetweenIsBoundary ==
  ASSUME NEW s \in Seq(Byte), NEW i \in 0 .. Len(s)
  PROVE  Between(s, i) <=> Output!Boundary(s, i)
  BY DEF Between, Output!Boundary

LEMMA FromIs ==
  ASSUME NEW s \in Seq(Byte), NEW i \in 0 .. Len(s)
  PROVE  /\ Output!From(s, i) \in Seq(Byte)
         /\ Len(Output!From(s, i)) = Len(s) - i
         /\ \A k \in 1 .. Len(s) - i : Output!From(s, i)[k] = s[i + k]
  BY DEF Output!From

(* What is left after a cut between characters is whole characters.        *)
LEMMA FromCharacters ==
  ASSUME NEW s, WholeCharacters(s), NEW i, Between(s, i)
  PROVE  WholeCharacters(Output!From(s, i))
<1>1. s \in Seq(Byte) /\ i \in 0 .. Len(s)
  BY DEF WholeCharacters, Between
<1> DEFINE r == Output!From(s, i)
<1>2. /\ r \in Seq(Byte) /\ Len(r) = Len(s) - i
      /\ \A k \in 1 .. Len(s) - i : r[k] = s[i + k]
  BY <1>1, FromIs
<1> HIDE DEF r
<1>3. Len(r) > 0 => r[1].lead
  BY <1>1, <1>2 DEF Between
<1>4. ASSUME NEW k \in 1 .. Len(r), k < Len(r), ~r[k + 1].lead
      PROVE  r[k].lead /\ ~r[k].newline
  <2>1. r[k] = s[i + k] /\ r[k + 1] = s[(i + k) + 1]
    BY <1>1, <1>2, <1>4
  <2>2. i + k \in 1 .. Len(s) /\ i + k < Len(s)
    BY <1>1, <1>2, <1>4
  <2> QED
    BY <1>4, <2>1, <2>2 DEF WholeCharacters
<1> QED
  BY <1>2, <1>3, <1>4 DEF WholeCharacters, r

(* The cut of a text past the cap: between characters, and no further than *)
(* one byte past the middle.                                               *)
LEMMA CutIs ==
  ASSUME TtyCap \in Nat, NEW s, WholeCharacters(s), Len(s) > TtyCap
  PROVE  Between(s, Output!Cut(s)) /\ Output!Cut(s) <= (TtyCap \div 2) + 1
<1> DEFINE m == TtyCap \div 2
           Half(i) == /\ Output!Boundary(s, i)
                      /\ \A j \in m .. (i - 1) : ~ Output!Boundary(s, j)
           half == CHOOSE i \in m .. Len(s) : Half(i)
           lines == {k \in 1 .. half : s[k].newline}
<1>0. s \in Seq(Byte) /\ Len(s) \in Nat /\ m \in Nat /\ m + 1 <= Len(s)
  BY DEF WholeCharacters
<1>1. \E i \in m .. Len(s) : Half(i) /\ i <= m + 1
  <2>1. CASE Output!Boundary(s, m)
    BY <1>0, <2>1
  <2>2. CASE ~Output!Boundary(s, m)
    <3>1. m < Len(s) /\ ~s[m + 1].lead
      BY <1>0, <2>2 DEF Output!Boundary
    <3>2. Output!Boundary(s, m + 1)
      <4>1. CASE m + 1 = Len(s)
        BY <4>1 DEF Output!Boundary
      <4>2. CASE m + 1 < Len(s)
        <5>1. s[(m + 1) + 1].lead
          BY <1>0, <3>1, <4>2 DEF WholeCharacters
        <5> QED
          BY <5>1 DEF Output!Boundary
      <4> QED
        BY <1>0, <4>1, <4>2
    <3> QED
      BY <1>0, <2>2, <3>2
  <2> QED
    BY <2>1, <2>2
<1>2. PICK i \in m .. Len(s) : Half(i) /\ i <= m + 1
  BY <1>1
<1>3. half \in m .. Len(s) /\ Half(half)
  BY <1>2
<1>4. half <= m + 1
  <2>1. half <= i
    <3> HIDE DEF half
    <3> QED
      BY <1>0, <1>2, <1>3
  <2> QED
    BY <1>0, <1>2, <1>3, <2>1
<1>5. Output!Cut(s) = (IF lines = {} THEN half ELSE Output!Max(lines))
  BY DEF Output!Cut
<1> HIDE DEF half, m
<1>6. CASE lines = {}
  <2>1. Output!Cut(s) = half
    BY <1>5, <1>6
  <2>2. half \in 0 .. Len(s) /\ (half = Len(s) \/ s[half + 1].lead)
    BY <1>0, <1>3 DEF Output!Boundary
  <2> QED
    BY <1>4, <2>1, <2>2 DEF Between, m
<1>7. CASE lines # {}
  <2> DEFINE cut == Output!Max(lines)
  <2>1. \E k \in lines : \A j \in lines : k >= j
    <3>1. lines \subseteq 0 .. half /\ half \in Nat
      BY <1>0, <1>3
    <3> HIDE DEF lines
    <3> QED
      BY <1>7, <3>1, UptoGreatest
  <2>2. cut \in lines
    BY <2>1 DEF Output!Max
  <2> HIDE DEF cut
  <2>3. cut \in 1 .. half /\ s[cut].newline
    BY <2>2
  <2>4. cut \in 0 .. Len(s) /\ cut <= m + 1
    BY <1>0, <1>3, <1>4, <2>3
  <2>5. cut < Len(s) => s[cut + 1].lead
    BY <1>0, <2>3, <2>4 DEF WholeCharacters
  <2> QED
    BY <1>5, <1>7, <2>4, <2>5 DEF Between, cut, m
<1> QED
  BY <1>6, <1>7 DEF m

(* The invariant: the bytes retained are the last ones printed, in whole   *)
(* characters; the line that is being printed begins after the last        *)
(* newline; a reader's position is between characters.                     *)
TtyTyped ==
  /\ WholeCharacters(ttyText) /\ ttyPrinted \in Seq(BOOLEAN)
  /\ ttyDropped \in Nat /\ ttyRead \in Nat /\ Between(ttyText, ttyLine)
TtyWindow ==
  /\ ttyDropped + Len(ttyText) = Len(ttyPrinted)
  /\ \A i \in 1 .. Len(ttyText) : ttyText[i].n = ttyDropped + i
TtyLine ==
  /\ ttyLine > 0 => ttyText[ttyLine].newline
  /\ \A i \in 1 .. Len(ttyText) : i > ttyLine => ~ttyText[i].newline
TtyReader ==
  /\ ttyRead <= Len(ttyPrinted)
  /\ ttyRead >= ttyDropped => Between(ttyText, ttyRead - ttyDropped)
TtyRecent == ttyDropped > 0 => Len(ttyText) >= TtyCap \div 2
TtyInv == TtyTyped /\ TtyWindow /\ TtyLine /\ TtyReader /\ TtyRecent

(* What a character adds to the text: one byte or two, whole characters by *)
(* themselves, numbered from the number of bytes printed.                  *)
Pushed(b, ch) ==
  /\ b \in Seq(Byte) /\ Len(b) \in 1 .. 2 /\ b[1].lead
  /\ \A k \in 1 .. Len(b) : b[k].n = Len(ttyPrinted) + k
  /\ \A k \in 1 .. Len(b) : b[k].newline <=> ch = "newline"
  /\ ch = "newline" => Len(b) = 1

LEMMA BytesArePushed ==
  ASSUME ttyPrinted \in Seq(BOOLEAN), NEW ch \in Output!Characters
  PROVE  Pushed(Output!Bytes(ch), ch)
<1> DEFINE n == Len(ttyPrinted) + 1
           byte(k) == [n |-> k, lead |-> k = n, newline |-> ch = "newline"]
<1>1. n \in Nat /\ byte(n) \in Byte /\ byte(n + 1) \in Byte
  BY DEF Byte
<1>2. CASE ch = "wide"
  <2>1. Output!Bytes(ch) = <<byte(n), byte(n + 1)>>
    BY <1>2 DEF Output!Bytes
  <2>2. byte(n).n = n /\ byte(n).lead /\ ~byte(n).newline
    BY <1>2
  <2>3. byte(n + 1).n = n + 1 /\ ~byte(n + 1).newline
    BY <1>2
  <2> DEFINE b == Output!Bytes(ch)
  <2> HIDE DEF byte, n
  <2>4. b \in Seq(Byte) /\ Len(b) = 2 /\ b[1] = byte(n) /\ b[2] = byte(n + 1)
    BY <1>1, <2>1
  <2> HIDE DEF b
  <2>5. \A k \in 1 .. 2 : b[k].n = Len(ttyPrinted) + k /\ ~b[k].newline
    <3>1. n = Len(ttyPrinted) + 1 /\ n + 1 = Len(ttyPrinted) + 2
      BY DEF n
    <3> QED
      BY <2>2, <2>3, <2>4, <3>1
  <2> SUFFICES Pushed(b, ch)
    BY DEF b
  <2> QED
    BY <1>2, <2>2, <2>4, <2>5 DEF Pushed
<1>3. CASE ch # "wide"
  <2>1. Output!Bytes(ch) = <<byte(n)>>
    BY <1>3 DEF Output!Bytes
  <2>2. /\ byte(n).n = Len(ttyPrinted) + 1 /\ byte(n).lead
        /\ byte(n).newline <=> ch = "newline"
    BY <1>1
  <2> HIDE DEF byte
  <2> QED
    BY <1>1, <1>3, <2>1, <2>2 DEF Pushed
<1> QED
  BY <1>2, <1>3

(* A text with a character behind it.                                      *)
LEMMA PushedCharacters ==
  ASSUME NEW t, WholeCharacters(t), NEW ch, NEW b, Pushed(b, ch)
  PROVE  /\ WholeCharacters(t \o b) /\ Len(t \o b) = Len(t) + Len(b)
         /\ \A i \in 1 .. Len(t) : (t \o b)[i] = t[i]
         /\ \A k \in 1 .. Len(b) : (t \o b)[Len(t) + k] = b[k]
         /\ \A i : Between(t, i) => Between(t \o b, i)
<1> DEFINE s == t \o b
<1>1. t \in Seq(Byte) /\ b \in Seq(Byte) /\ Len(b) \in 1 .. 2
  BY DEF WholeCharacters, Pushed
<1>2. /\ s \in Seq(Byte) /\ Len(s) = Len(t) + Len(b)
      /\ \A i \in 1 .. Len(t) : s[i] = t[i]
      /\ \A k \in 1 .. Len(b) : s[Len(t) + k] = b[k]
  BY <1>1
<1> HIDE DEF s
<1>3. s[Len(t) + 1] = b[1] /\ s[Len(t) + 1].lead
  BY <1>1, <1>2 DEF Pushed
<1>4. Len(s) > 0 => s[1].lead
  BY <1>1, <1>2, <1>3 DEF WholeCharacters
<1>5. ASSUME NEW i \in 1 .. Len(s), i < Len(s), ~s[i + 1].lead
      PROVE  s[i].lead /\ ~s[i].newline
  <2>1. CASE i < Len(t)
    <3>1. i \in 1 .. Len(t) /\ s[i] = t[i] /\ s[i + 1] = t[i + 1]
      <4>1. i \in 1 .. Len(t) /\ i + 1 \in 1 .. Len(t)
        BY ONLY <1>1, <1>5, <2>1, <1>2
      <4> QED
        BY ONLY <4>1, <1>2
    <3> QED
      BY <1>5, <2>1, <3>1 DEF WholeCharacters
  <2>2. CASE i = Len(t)
    BY <1>3, <1>5, <2>2
  <2>3. CASE i > Len(t)
    <3>1. i = Len(t) + 1 /\ Len(b) = 2
      <4>1. Len(t) \in Nat /\ Len(b) \in 1 .. 2 /\ i \in Nat
        BY <1>1, <1>5
      <4>2. i < Len(t) + Len(b) /\ i > Len(t)
        BY <1>2, <1>5, <2>3
      <4>3. ASSUME NEW x \in Nat, NEW y \in 1 .. 2, NEW j \in Nat, j < x + y, j > x
            PROVE  j = x + 1 /\ y = 2
        BY ONLY <4>3
      <4> QED
        BY <4>1, <4>2, <4>3
    <3>2. ~b[1].newline
      BY <3>1 DEF Pushed
    <3> QED
      BY <1>3, <3>1, <3>2
  <2> QED
    BY <1>1, <1>2, <2>1, <2>2, <2>3
<1>6. ASSUME NEW i, Between(t, i) PROVE Between(s, i)
  <2>1. CASE i = Len(t)
    BY <1>1, <1>2, <1>3, <2>1 DEF Between
  <2>2. CASE i # Len(t)
    BY <1>1, <1>2, <1>6, <2>2 DEF Between
  <2> QED
    BY <2>1, <2>2
<1> QED
  BY <1>2, <1>4, <1>5, <1>6 DEF WholeCharacters, s

(* The text with a character behind it, before any of it is trimmed.       *)
LEMMA PushedWindow ==
  ASSUME TtyInv, NEW ch, NEW b, Pushed(b, ch)
  PROVE  /\ WholeCharacters(ttyText \o b) /\ Len(ttyText \o b) = Len(ttyText) + Len(b)
         /\ \A i \in 1 .. Len(ttyText \o b) : (ttyText \o b)[i].n = ttyDropped + i
         /\ \A i : Between(ttyText, i) => Between(ttyText \o b, i)
         /\ ttyLine > 0 => (ttyText \o b)[ttyLine].newline
         /\ \A i \in 1 .. Len(ttyText \o b) :
              /\ i > ttyLine /\ i <= Len(ttyText) => ~(ttyText \o b)[i].newline
              /\ i > Len(ttyText) => ((ttyText \o b)[i].newline <=> ch = "newline")
<1> DEFINE t == ttyText
           s == t \o b
<1>1. /\ t \in Seq(Byte) /\ ttyDropped \in Nat /\ Between(t, ttyLine) /\ WholeCharacters(t)
      /\ ttyDropped + Len(t) = Len(ttyPrinted)
      /\ \A i \in 1 .. Len(t) : t[i].n = ttyDropped + i
  BY DEF TtyInv, TtyTyped, TtyWindow, WholeCharacters
<1>2. ttyLine \in 0 .. Len(t)
  BY <1>1 DEF Between
<1>3. /\ ttyLine > 0 => t[ttyLine].newline
      /\ \A i \in 1 .. Len(t) : i > ttyLine => ~t[i].newline
  BY DEF TtyInv, TtyLine
<1>4. /\ b \in Seq(Byte) /\ Len(b) \in 1 .. 2
      /\ \A k \in 1 .. Len(b) : b[k].n = Len(ttyPrinted) + k
      /\ \A k \in 1 .. Len(b) : b[k].newline <=> ch = "newline"
  BY DEF Pushed
<1>5. /\ WholeCharacters(s) /\ Len(s) = Len(t) + Len(b)
      /\ \A i \in 1 .. Len(t) : s[i] = t[i]
      /\ \A k \in 1 .. Len(b) : s[Len(t) + k] = b[k]
      /\ \A i : Between(t, i) => Between(s, i)
  <2> HIDE DEF t
  <2> QED
    BY <1>1, PushedCharacters
<1> SUFFICES /\ WholeCharacters(s) /\ Len(s) = Len(t) + Len(b)
             /\ \A i \in 1 .. Len(s) : s[i].n = ttyDropped + i
             /\ \A i : Between(t, i) => Between(s, i)
             /\ ttyLine > 0 => s[ttyLine].newline
             /\ \A i \in 1 .. Len(s) :
                  /\ i > ttyLine /\ i <= Len(t) => ~s[i].newline
                  /\ i > Len(t) => (s[i].newline <=> ch = "newline")
  OBVIOUS
<1> HIDE DEF s, t
<1>6. ASSUME NEW i \in 1 .. Len(s), i <= Len(t)
      PROVE  s[i].n = ttyDropped + i /\ (i > ttyLine => ~s[i].newline)
  <2>1. i \in 1 .. Len(t) /\ s[i] = t[i]
    BY <1>1, <1>5, <1>6
  <2> QED
    BY <2>1, <1>1, <1>3
<1>7. ASSUME NEW i \in 1 .. Len(s), i > Len(t)
      PROVE  s[i].n = ttyDropped + i /\ (s[i].newline <=> ch = "newline")
  <2> DEFINE k == i - Len(t)
  <2>1. k \in 1 .. Len(b) /\ i = Len(t) + k
    BY <1>1, <1>4, <1>5, <1>7
  <2> HIDE DEF k
  <2>2. s[i] = b[k]
    BY <1>5, <2>1
  <2>3. Len(ttyPrinted) + k = ttyDropped + i
    <3>1. Len(ttyPrinted) = ttyDropped + Len(t) /\ i = Len(t) + k
      BY <1>1, <2>1
    <3>2. Len(t) \in Nat /\ ttyDropped \in Nat /\ k \in Nat
      BY <1>1, <1>4, <2>1
    <3> QED
      BY ONLY <3>1, <3>2
  <2> QED
    BY <1>4, <2>1, <2>2, <2>3
<1>8. ttyLine > 0 => s[ttyLine].newline
  BY <1>2, <1>3, <1>5
<1>9. Len(t) \in Nat
  BY <1>1
<1> QED
  BY <1>5, <1>6, <1>7, <1>8, <1>9

(* A character that is printed without a trim.                             *)
LEMMA TtyPushKept ==
  ASSUME TtyInv, NEW ch, NEW b, Pushed(b, ch),
         ttyText' = ttyText \o b, UNCHANGED <<ttyDropped, ttyRead>>,
         ttyPrinted' \in Seq(BOOLEAN), Len(ttyPrinted') = Len(ttyPrinted) + Len(b),
         IF ch = "newline" THEN ttyLine' = Len(ttyText \o b) ELSE ttyLine' = ttyLine
  PROVE  TtyInv'
<1> DEFINE s == ttyText \o b
<1>1. /\ WholeCharacters(s) /\ Len(s) = Len(ttyText) + Len(b)
      /\ \A i \in 1 .. Len(s) : s[i].n = ttyDropped + i
      /\ \A i : Between(ttyText, i) => Between(s, i)
      /\ ttyLine > 0 => s[ttyLine].newline
      /\ \A i \in 1 .. Len(s) :
           /\ i > ttyLine /\ i <= Len(ttyText) => ~s[i].newline
           /\ i > Len(ttyText) => (s[i].newline <=> ch = "newline")
  BY PushedWindow
<1>2. /\ ttyText' = s
      /\ IF ch = "newline" THEN ttyLine' = Len(s) ELSE ttyLine' = ttyLine
  OBVIOUS
<1>3. /\ Len(ttyText) \in Nat /\ Len(b) \in Nat /\ Len(b) > 0 /\ Len(ttyPrinted) \in Nat
      /\ ttyDropped \in Nat /\ ttyRead \in Nat /\ Between(ttyText, ttyLine)
      /\ ttyDropped + Len(ttyText) = Len(ttyPrinted) /\ ttyRead <= Len(ttyPrinted)
      /\ ttyRead >= ttyDropped => Between(ttyText, ttyRead - ttyDropped)
      /\ ttyDropped > 0 => Len(ttyText) >= TtyCap \div 2
  BY DEF TtyInv, TtyTyped, TtyWindow, TtyReader, TtyRecent, WholeCharacters, Pushed
<1> HIDE DEF s
<1>4. TtyLine' /\ Between(s, ttyLine')
  <2>1. CASE ch = "newline"
    <3>1. ttyLine' = Len(s) /\ Len(s) \in Nat /\ Len(s) > Len(ttyText)
      <4>1. ttyLine' = Len(s) /\ Len(s) = Len(ttyText) + Len(b)
        BY <1>1, <1>2, <2>1
      <4>2. Len(ttyText) \in Nat /\ Len(b) \in Nat /\ Len(b) > 0
        BY <1>3
      <4> QED
        BY ONLY <4>1, <4>2
    <3>2. s[Len(s)].newline
      <4>1. Len(s) \in 1 .. Len(s) /\ Len(s) > Len(ttyText)
        BY <1>3, <3>1
      <4> QED
        BY <1>1, <2>1, <4>1
    <3>3. TtyLine'
      BY <1>2, <3>1, <3>2 DEF TtyLine
    <3> QED
      BY <3>1, <3>3 DEF Between
  <2>2. CASE ch # "newline"
    <3>1. ttyLine' = ttyLine
      BY <1>2, <2>2
    <3>2. \A i \in 1 .. Len(s) : i > ttyLine => ~s[i].newline
      BY <1>1, <1>3, <2>2
    <3>3. TtyLine'
      BY <1>1, <1>2, <3>1, <3>2 DEF TtyLine
    <3> QED
      BY <1>1, <1>3, <3>1, <3>3
  <2> QED
    BY <2>1, <2>2
<1>5. TtyTyped'
  BY <1>1, <1>2, <1>3, <1>4 DEF TtyTyped
<1>6. TtyWindow'
  <2>1. ttyDropped' + Len(s) = Len(ttyPrinted')
    <3>1. /\ ttyDropped' = ttyDropped /\ Len(ttyPrinted') = Len(ttyPrinted) + Len(b)
          /\ Len(s) = Len(ttyText) + Len(b)
      BY <1>1
    <3>2. /\ ttyDropped \in Nat /\ Len(ttyText) \in Nat /\ Len(b) \in Nat
          /\ ttyDropped + Len(ttyText) = Len(ttyPrinted)
      BY <1>3
    <3> QED
      BY ONLY <3>1, <3>2
  <2> QED
    BY <1>1, <1>2, <2>1 DEF TtyWindow
<1>7. TtyReader'
  BY <1>1, <1>2, <1>3 DEF TtyReader
<1>8. TtyRecent'
  <2> DEFINE c == TtyCap \div 2
  <2>1. c \in Nat /\ (ttyDropped > 0 => Len(ttyText) >= c)
    BY <1>3, TtyAssumption
  <2> HIDE DEF c
  <2>2. ttyDropped > 0 => Len(s) >= c
    <3>1. Len(s) = Len(ttyText) + Len(b)
      BY <1>1
    <3>2. Len(ttyText) \in Nat /\ Len(b) \in Nat
      BY <1>3
    <3> QED
      BY ONLY <2>1, <3>1, <3>2
  <2> QED
    BY <1>2, <2>2 DEF TtyRecent, c
<1> QED
  BY <1>4, <1>5, <1>6, <1>7, <1>8 DEF TtyInv

LEMMA LargerOf ==
  ASSUME NEW i \in Int, NEW j \in Int
  PROVE  Output!Max({i, j}) = IF i >= j THEN i ELSE j
<1>1. \E x \in {i, j} : \A y \in {i, j} : x >= y
  OBVIOUS
<1>2. Output!Max({i, j}) \in {i, j} /\ \A y \in {i, j} : Output!Max({i, j}) >= y
  BY <1>1 DEF Output!Max
<1> QED
  BY <1>2

LEMMA SmallerOf ==
  ASSUME NEW i \in Int, NEW j \in Int
  PROVE  Output!Min({i, j}) = IF i <= j THEN i ELSE j
<1>1. \E x \in {i, j} : \A y \in {i, j} : x <= y
  OBVIOUS
<1>2. Output!Min({i, j}) \in {i, j} /\ \A y \in {i, j} : Output!Min({i, j}) <= y
  BY <1>1 DEF Output!Min
<1> QED
  BY <1>2

(* A character that is printed and makes the text longer than the cap.     *)
LEMMA TtyPushTrims ==
  ASSUME TtyInv, NEW ch, ch # "newline", NEW b, Pushed(b, ch),
         Len(ttyText \o b) > TtyCap, Output!Trim(ttyText \o b), UNCHANGED ttyRead,
         ttyPrinted' \in Seq(BOOLEAN), Len(ttyPrinted') = Len(ttyPrinted) + Len(b)
  PROVE  TtyInv'
<1> DEFINE s == ttyText \o b
           cut == Output!Cut(s)
           r == Output!From(s, cut)
<1>1. /\ WholeCharacters(s) /\ Len(s) = Len(ttyText) + Len(b)
      /\ \A i \in 1 .. Len(s) : s[i].n = ttyDropped + i
      /\ \A i : Between(ttyText, i) => Between(s, i)
      /\ ttyLine > 0 => s[ttyLine].newline
      /\ \A i \in 1 .. Len(s) : i > ttyLine => ~s[i].newline
  <2>1. /\ WholeCharacters(s) /\ Len(s) = Len(ttyText) + Len(b)
        /\ \A i \in 1 .. Len(s) : s[i].n = ttyDropped + i
        /\ \A i : Between(ttyText, i) => Between(s, i)
        /\ ttyLine > 0 => s[ttyLine].newline
        /\ \A i \in 1 .. Len(s) :
             /\ i > ttyLine /\ i <= Len(ttyText) => ~s[i].newline
             /\ i > Len(ttyText) => (s[i].newline <=> ch = "newline")
    BY PushedWindow
  <2>2. Len(ttyText) \in Nat
    BY DEF TtyInv, TtyTyped, WholeCharacters
  <2> HIDE DEF s
  <2>3. ASSUME NEW i \in 1 .. Len(s), i > ttyLine PROVE ~s[i].newline
    BY <2>1, <2>2, <2>3
  <2> QED
    BY <2>1, <2>3
<1>2. ttyText' = r /\ ttyDropped' = ttyDropped + cut /\ ttyLine' = Output!Max({0, ttyLine - cut})
  BY DEF Output!Trim
<1>3. Len(s) > TtyCap /\ TtyCap \in Nat
  BY TtyAssumption
<1>4. /\ Len(ttyText) \in Nat /\ Len(b) \in Nat /\ Len(ttyPrinted) \in Nat
      /\ ttyDropped \in Nat /\ ttyRead \in Nat /\ Between(ttyText, ttyLine)
      /\ ttyDropped + Len(ttyText) = Len(ttyPrinted) /\ ttyRead <= Len(ttyPrinted)
      /\ ttyRead >= ttyDropped => Between(ttyText, ttyRead - ttyDropped)
  BY DEF TtyInv, TtyTyped, TtyWindow, TtyReader, WholeCharacters, Pushed
<1> HIDE DEF s
<1>5. Between(s, cut) /\ cut <= (TtyCap \div 2) + 1
  BY <1>1, <1>3, CutIs
<1> HIDE DEF cut
<1>6. cut \in 0 .. Len(s) /\ s \in Seq(Byte) /\ Len(s) \in Nat
  BY <1>1, <1>5 DEF Between, WholeCharacters
<1>7. /\ r \in Seq(Byte) /\ Len(r) = Len(s) - cut
      /\ \A k \in 1 .. Len(s) - cut : r[k] = s[cut + k]
  BY <1>6, FromIs
<1>8. WholeCharacters(r)
  BY <1>1, <1>5, FromCharacters
<1> HIDE DEF r
(* A place of the text before the cut is where it was less the cut.        *)
<1>9. ASSUME NEW i \in Nat, i >= cut, Between(s, i) PROVE Between(r, i - cut)
  <2>1. i \in 0 .. Len(s) /\ (i < Len(s) => s[i + 1].lead)
    BY <1>9 DEF Between
  <2>2. i - cut \in 0 .. Len(r)
    BY <1>6, <1>7, <1>9, <2>1
  <2>3. i - cut < Len(r) => r[(i - cut) + 1] = s[i + 1] /\ i < Len(s)
    <3>1. i - cut < Len(r) => (i - cut) + 1 \in 1 .. Len(s) - cut /\ cut + ((i - cut) + 1) = i + 1
      BY <1>6, <1>7, <1>9, <2>1
    <3>2. i - cut < Len(r) => i < Len(s)
      BY <1>6, <1>7, <1>9, <2>1
    <3> QED
      BY <1>7, <3>1, <3>2
  <2> QED
    BY <2>1, <2>2, <2>3 DEF Between
<1>10. ttyLine \in Nat /\ Between(s, ttyLine)
  <2>1. Between(ttyText, ttyLine)
    BY <1>4
  <2>2. Between(s, ttyLine)
    BY <1>1, <2>1
  <2> QED
    BY <2>1, <2>2 DEF Between
<1>11. TtyLine' /\ Between(r, ttyLine')
  <2>1. CASE ttyLine >= cut
    <3>1. ttyLine' = ttyLine - cut
      <4>1. ttyLine - cut \in Int /\ (0 >= ttyLine - cut => 0 = ttyLine - cut)
        BY <1>6, <1>10, <2>1
      <4> QED
        BY <1>2, <4>1, LargerOf
    <3>2. Between(r, ttyLine')
      BY <1>9, <1>10, <2>1, <3>1
    <3>3. ttyLine' > 0 => r[ttyLine'].newline
      <4>1. ttyLine' > 0 => ttyLine' \in 1 .. Len(s) - cut /\ cut + ttyLine' = ttyLine /\ ttyLine > 0
        BY <1>6, <1>10, <2>1, <3>1 DEF Between
      <4> QED
        BY <1>1, <1>7, <4>1
    <3>4. ASSUME NEW i \in 1 .. Len(r), i > ttyLine' PROVE ~r[i].newline
      <4>1. i \in 1 .. Len(s) - cut /\ cut + i \in 1 .. Len(s) /\ cut + i > ttyLine
        BY <1>6, <1>7, <1>10, <2>1, <3>1, <3>4
      <4> QED
        BY <1>1, <1>7, <4>1
    <3> QED
      BY <1>2, <3>2, <3>3, <3>4 DEF TtyLine
  <2>2. CASE ttyLine < cut
    <3>1. ttyLine' = 0
      <4>1. ttyLine - cut \in Int /\ 0 >= ttyLine - cut
        BY <1>6, <1>10, <2>2
      <4> QED
        BY <1>2, <4>1, LargerOf
    <3>2. Between(r, ttyLine')
      <4>1. cut - cut = 0 /\ cut \in Nat /\ cut >= cut
        BY <1>6
      <4> QED
        BY <1>5, <1>9, <3>1, <4>1
    <3>3. ASSUME NEW i \in 1 .. Len(r) PROVE ~r[i].newline
      <4>1. i \in 1 .. Len(s) - cut /\ cut + i \in 1 .. Len(s) /\ cut + i > ttyLine
        BY <1>6, <1>7, <1>10, <2>2, <3>3
      <4> QED
        BY <1>1, <1>7, <4>1
    <3> QED
      BY <1>2, <3>1, <3>2, <3>3 DEF TtyLine
  <2> QED
    BY <1>6, <1>10, <2>1, <2>2
<1>12. TtyTyped'
  BY <1>2, <1>4, <1>6, <1>8, <1>11 DEF TtyTyped
<1>13. TtyWindow'
  <2>1. ttyDropped' + Len(r) = Len(ttyPrinted')
    <3>1. Len(ttyPrinted') = Len(ttyPrinted) + Len(b) /\ Len(s) = Len(ttyText) + Len(b)
      BY <1>1
    <3>2. cut \in Nat
      BY <1>6
    <3>3. ttyDropped' = ttyDropped + cut /\ Len(r) = Len(s) - cut
      BY <1>2, <1>7
    <3>4. /\ Len(ttyText) \in Nat /\ Len(b) \in Nat /\ ttyDropped \in Nat
          /\ ttyDropped + Len(ttyText) = Len(ttyPrinted)
      BY <1>4
    <3> QED
      BY ONLY <3>1, <3>2, <3>3, <3>4
  <2>2. ASSUME NEW i \in 1 .. Len(r) PROVE r[i].n = ttyDropped' + i
    <3>1. i \in 1 .. Len(s) - cut /\ cut + i \in 1 .. Len(s)
      BY <1>6, <1>7, <2>2
    <3>2. r[i].n = ttyDropped + (cut + i)
      BY <1>1, <1>7, <3>1
    <3>3. ttyDropped + (cut + i) = (ttyDropped + cut) + i
      BY <1>4, <1>6, <3>1
    <3> QED
      BY <1>2, <3>2, <3>3
  <2> QED
    BY <1>2, <2>1, <2>2 DEF TtyWindow
<1>14. TtyReader'
  <2>1. ttyRead' <= Len(ttyPrinted')
    <3>1. ttyRead' = ttyRead /\ Len(ttyPrinted') = Len(ttyPrinted) + Len(b)
      OBVIOUS
    <3> QED
      BY <1>4, <3>1
  <2>2. ASSUME ttyRead >= ttyDropped + cut PROVE Between(r, ttyRead - (ttyDropped + cut))
    <3> DEFINE i == ttyRead - ttyDropped
    <3>1. ttyRead >= ttyDropped /\ i \in Nat /\ i >= cut
      BY <1>4, <1>6, <2>2
    <3>2. i - cut = ttyRead - (ttyDropped + cut)
      BY <1>4, <1>6
    <3>3. Between(s, i)
      BY <1>1, <1>4, <3>1
    <3> HIDE DEF i
    <3> QED
      BY <1>9, <3>1, <3>2, <3>3
  <2> QED
    BY <1>2, <2>1, <2>2 DEF TtyReader
<1>15. TtyRecent'
  <2> DEFINE c == TtyCap \div 2
  <2>1. c \in Nat /\ 2 * c <= TtyCap /\ cut <= c + 1
    BY <1>3, <1>5
  <2> HIDE DEF c
  <2>2. Len(r) >= c
    <3>1. Len(r) = Len(s) - cut /\ cut \in Nat /\ Len(s) \in Nat /\ Len(s) > TtyCap /\ TtyCap \in Nat
      BY <1>3, <1>6, <1>7
    <3> QED
      BY ONLY <2>1, <3>1
  <2> QED
    BY <1>2, <2>2 DEF TtyRecent, c
<1> QED
  BY <1>11, <1>12, <1>13, <1>14, <1>15 DEF TtyInv

LEMMA TtyInit ==
  ASSUME Output!Init
  PROVE  TtyInv
  BY TtyAssumption
     DEF Output!Init, TtyInv, TtyTyped, TtyWindow, TtyLine, TtyReader, TtyRecent,
         WholeCharacters, Between

LEMMA TtyStep ==
  ASSUME TtyInv, Output!Next
  PROVE  TtyInv'
<1>1. CASE Output!Read
  <2>1. /\ ttyText' = ttyText /\ ttyDropped' = ttyDropped /\ ttyLine' = ttyLine
        /\ ttyPrinted' = ttyPrinted /\ ttyRead' = ttyDropped + Len(ttyText)
    BY <1>1 DEF Output!Read
  <2>2. /\ ttyDropped \in Nat /\ Len(ttyText) \in Nat
        /\ ttyDropped + Len(ttyText) = Len(ttyPrinted)
    BY DEF TtyInv, TtyTyped, TtyWindow, WholeCharacters
  <2>3. ttyRead' - ttyDropped = Len(ttyText) /\ ttyRead' \in Nat /\ ttyRead' <= Len(ttyPrinted)
    BY <2>1, <2>2
  <2>4. Between(ttyText, ttyRead' - ttyDropped)
    <3>1. Between(ttyText, Len(ttyText))
      BY <2>2 DEF Between
    <3> QED
      BY <2>3, <3>1
  <2>5. TtyReader'
    BY <2>1, <2>3, <2>4 DEF TtyReader
  <2>6. TtyTyped'
    BY <2>1, <2>3 DEF TtyInv, TtyTyped
  <2>7. TtyWindow' /\ TtyLine' /\ TtyRecent'
    BY <2>1 DEF TtyInv, TtyWindow, TtyLine, TtyRecent
  <2> QED
    BY <2>5, <2>6, <2>7 DEF TtyInv
<1>2. ASSUME NEW ch \in Output!Characters, Output!Push(ch) PROVE TtyInv'
  <2> DEFINE b == Output!Bytes(ch)
             p == [k \in DOMAIN b |-> ch = "newline"]
  <2>1. ttyPrinted \in Seq(BOOLEAN)
    BY DEF TtyInv, TtyTyped
  <2>2. Pushed(b, ch)
    BY <2>1, BytesArePushed
  <2>3. ttyPrinted' = ttyPrinted \o p /\ ttyRead' = ttyRead
    BY <1>2 DEF Output!Push
  <2>4. \/ /\ ch = "newline"
           /\ ttyText' = ttyText \o b /\ ttyLine' = Len(ttyText \o b)
           /\ UNCHANGED ttyDropped
        \/ /\ ch # "newline" /\ ttyText' = ttyText \o b /\ UNCHANGED <<ttyDropped, ttyLine>>
        \/ ch # "newline" /\ Len(ttyText \o b) > TtyCap /\ Output!Trim(ttyText \o b)
    BY <1>2 DEF Output!Push
  <2> HIDE DEF b
  <2>5. p \in Seq(BOOLEAN) /\ Len(p) = Len(b)
    <3>1. b \in Seq(Byte)
      BY <2>2 DEF Pushed
    <3>2. DOMAIN b = 1 .. Len(b) /\ Len(b) \in Nat
      BY <3>1
    <3> QED
      BY <3>2
  <2> HIDE DEF p
  <2>6. ttyPrinted' \in Seq(BOOLEAN) /\ Len(ttyPrinted') = Len(ttyPrinted) + Len(b)
    <3> DEFINE q == ttyPrinted
    <3>1. q \o p \in Seq(BOOLEAN) /\ Len(q \o p) = Len(q) + Len(p)
      <4> HIDE DEF q
      <4> QED
        BY <2>1, <2>5 DEF q
    <3> QED
      BY <2>3, <2>5, <3>1
  <2>7. CASE ch = "newline"
    BY <2>2, <2>3, <2>4, <2>6, <2>7, TtyPushKept
  <2>8. CASE ch # "newline" /\ ttyText' = ttyText \o b /\ UNCHANGED <<ttyDropped, ttyLine>>
    BY <2>2, <2>3, <2>6, <2>8, TtyPushKept
  <2>9. CASE ch # "newline" /\ Len(ttyText \o b) > TtyCap /\ Output!Trim(ttyText \o b)
    BY <2>2, <2>3, <2>6, <2>9, TtyPushTrims
  <2> QED
    BY <2>4, <2>7, <2>8, <2>9
<1> QED
  BY <1>1, <1>2 DEF Output!Next

(* Where a reader's slice starts: at its position, or at the first byte    *)
(* retained when that comes later.                                         *)
LEMMA StartIs ==
  ASSUME TtyInv
  PROVE  /\ Between(ttyText, Output!Start)
         /\ ttyDropped + Output!Start = IF ttyRead >= ttyDropped THEN ttyRead ELSE ttyDropped
<1>1. /\ ttyDropped \in Nat /\ ttyRead \in Nat /\ Len(ttyText) \in Nat
      /\ ttyDropped + Len(ttyText) = Len(ttyPrinted) /\ ttyRead <= Len(ttyPrinted)
      /\ ttyRead >= ttyDropped => Between(ttyText, ttyRead - ttyDropped)
      /\ Len(ttyText) > 0 => ttyText[1].lead
  BY DEF TtyInv, TtyTyped, TtyWindow, TtyReader, WholeCharacters
<1> DEFINE late == Output!Max({0, ttyRead - ttyDropped})
<1>2. late = IF ttyRead >= ttyDropped THEN ttyRead - ttyDropped ELSE 0
  <2>1. ttyRead - ttyDropped \in Int
    BY <1>1
  <2>2. late = IF 0 >= ttyRead - ttyDropped THEN 0 ELSE ttyRead - ttyDropped
    BY <2>1, LargerOf
  <2> HIDE DEF late
  <2> QED
    BY <1>1, <2>2
<1>3. Output!Start = Output!Min({late, Len(ttyText)})
  BY DEF Output!Start
<1> HIDE DEF late
<1>4. late \in Nat /\ late <= Len(ttyText)
  BY <1>1, <1>2
<1>5. Output!Start = late
  BY <1>1, <1>3, <1>4, SmallerOf
<1>6. CASE ttyRead >= ttyDropped
  BY <1>1, <1>2, <1>5, <1>6
<1>7. CASE ~(ttyRead >= ttyDropped)
  BY <1>1, <1>2, <1>5, <1>7 DEF Between
<1> QED
  BY <1>6, <1>7

LEMMA TtyReadsOnce ==
  ASSUME TtyInv
  PROVE  Output!ReadsOnceStep
<1> SUFFICES ASSUME Output!Read
             PROVE  LET first == Output!Max({ttyRead, Len(ttyPrinted) - Len(ttyText)})
                    IN  [k \in DOMAIN ttySlice' |-> ttySlice'[k].n]
                          = [k \in 1 .. Len(ttyPrinted) - first |-> first + k]
  BY DEF Output!ReadsOnceStep
<1> DEFINE start == Output!Start
           r == Output!From(ttyText, start)
           first == Output!Max({ttyRead, Len(ttyPrinted) - Len(ttyText)})
<1>1. ttySlice' = r
  BY DEF Output!Read
<1>2. /\ ttyText \in Seq(Byte) /\ ttyDropped \in Nat /\ ttyRead \in Nat
      /\ Len(ttyText) \in Nat /\ ttyDropped + Len(ttyText) = Len(ttyPrinted)
      /\ \A i \in 1 .. Len(ttyText) : ttyText[i].n = ttyDropped + i
  BY DEF TtyInv, TtyTyped, TtyWindow, WholeCharacters
<1>3. /\ start \in 0 .. Len(ttyText)
      /\ ttyDropped + start = IF ttyRead >= ttyDropped THEN ttyRead ELSE ttyDropped
  BY StartIs DEF Between
<1> HIDE DEF start, r
<1>4. first = ttyDropped + start
  <2>1. Len(ttyPrinted) - Len(ttyText) = ttyDropped
    BY <1>2
  <2>2. first = IF ttyRead >= ttyDropped THEN ttyRead ELSE ttyDropped
    <3>1. ttyRead \in Int /\ ttyDropped \in Int
      BY <1>2
    <3> QED
      BY <2>1, <3>1, LargerOf DEF first
  <2> QED
    BY <1>3, <2>2
<1>5. /\ r \in Seq(Byte) /\ Len(r) = Len(ttyText) - start
      /\ \A k \in 1 .. Len(ttyText) - start : r[k] = ttyText[start + k]
  BY <1>2, <1>3, FromIs DEF r
<1> HIDE DEF first
<1>6. DOMAIN r = 1 .. Len(ttyPrinted) - first
  <2>1. Len(ttyPrinted) - first = Len(ttyText) - start
    BY <1>2, <1>3, <1>4
  <2>2. DOMAIN r = 1 .. Len(r)
    BY <1>5
  <2> QED
    BY <1>5, <2>1, <2>2
<1>7. ASSUME NEW k \in DOMAIN r PROVE r[k].n = first + k
  <2>1. k \in 1 .. Len(ttyText) - start /\ start + k \in 1 .. Len(ttyText)
    BY <1>2, <1>3, <1>5, <1>7
  <2>2. r[k].n = ttyDropped + (start + k)
    BY <1>2, <1>5, <2>1
  <2> QED
    BY <1>2, <1>3, <1>4, <2>1, <2>2
<1>8. [k \in DOMAIN r |-> r[k].n] = [k \in 1 .. Len(ttyPrinted) - first |-> first + k]
  BY <1>6, <1>7
<1> QED
  BY <1>1, <1>8 DEF first

LEMMA TtyShows ==
  TtyInv => Output!TypeOK /\ Output!CutsBetweenCharacters /\ Output!KeepsTheRecentHalf
<1> SUFFICES ASSUME TtyInv
             PROVE  Output!TypeOK /\ Output!CutsBetweenCharacters /\ Output!KeepsTheRecentHalf
  OBVIOUS
<1>1. /\ ttyText \in Seq(Byte) /\ ttyDropped \in Nat /\ ttyRead \in Nat
      /\ Len(ttyText) \in Nat /\ ttyDropped + Len(ttyText) = Len(ttyPrinted)
      /\ Len(ttyPrinted) \in Nat /\ ttyRead <= Len(ttyPrinted)
      /\ \A i \in 1 .. Len(ttyText) : ttyText[i].n = ttyDropped + i
      /\ Len(ttyText) > 0 => ttyText[1].lead
      /\ Between(ttyText, ttyLine)
  BY DEF TtyInv, TtyTyped, TtyWindow, TtyReader, WholeCharacters
<1>2. ttyLine \in 0 .. Len(ttyText)
  BY <1>1 DEF Between
<1>3. Output!TypeOK
  <2>1. DOMAIN ttyText = 1 .. Len(ttyText)
    BY <1>1
  <2>2. ASSUME NEW i \in 1 .. Len(ttyText) PROVE ttyText[i].n \in 1 .. Len(ttyPrinted)
    BY <1>1
  <2>3. ttyDropped \in 0 .. Len(ttyPrinted) /\ ttyRead \in 0 .. Len(ttyPrinted)
    BY <1>1
  <2> QED
    BY <1>2, <2>1, <2>2, <2>3 DEF Output!TypeOK
<1>4. Output!CutsBetweenCharacters
  <2>1. Between(ttyText, 0)
    BY <1>1 DEF Between
  <2>2. Between(ttyText, Output!Start)
    BY StartIs
  <2>3. Output!Boundary(ttyText, 0) /\ Output!Boundary(ttyText, ttyLine)
    BY <1>1, <1>2, <2>1, BetweenIsBoundary
  <2>4. Output!Boundary(ttyText, Output!Start)
    <3>1. Output!Start \in 0 .. Len(ttyText)
      BY <2>2 DEF Between
    <3> QED
      BY <1>1, <2>2, <3>1, BetweenIsBoundary
  <2>5. \A i \in ttyLine + 1 .. Len(ttyText) : ~ ttyText[i].newline
    <3>1. \A i \in ttyLine + 1 .. Len(ttyText) : i \in 1 .. Len(ttyText) /\ i > ttyLine
      BY <1>1, <1>2
    <3> QED
      BY <3>1 DEF TtyInv, TtyLine
  <2>6. ttyLine > 0 => ttyText[ttyLine].newline
    BY DEF TtyInv, TtyLine
  <2> QED
    BY <2>3, <2>4, <2>5, <2>6 DEF Output!CutsBetweenCharacters
<1>5. Output!KeepsTheRecentHalf
  <2> DEFINE c == TtyCap \div 2
             least == Output!Min({Len(ttyPrinted), c})
  <2>1. c \in Nat /\ (ttyDropped > 0 => Len(ttyText) >= c)
    BY TtyAssumption DEF TtyInv, TtyRecent
  <2>2. least = IF Len(ttyPrinted) <= c THEN Len(ttyPrinted) ELSE c
    <3> HIDE DEF c
    <3>1. c \in Int /\ Len(ttyPrinted) \in Int
      BY <1>1, <2>1
    <3> QED
      BY <3>1, SmallerOf
  <2> HIDE DEF c, least
  <2>3. Len(ttyText) >= least /\ Len(ttyText) = Len(ttyPrinted) - ttyDropped
    BY <1>1, <2>1, <2>2
  <2> QED
    BY <2>3 DEF Output!KeepsTheRecentHalf, c, least
<1> QED
  BY <1>3, <1>4, <1>5

(* The program's output, as its reader gets it: what is retained of the    *)
(* news, once and in order; every cut between two characters; the most     *)
(* recent half of the cap always there (trim and since, tty.rs).           *)
THEOREM OutputIsReadOnce == UnitsSpec => OutputReadOnce
<1> DEFINE Inv == unit = "tty" => TtyInv
           Kept == [unit = "tty" =>
                     /\ Output!ReadsOnceStep
                     /\ (Output!TypeOK /\ Output!CutsBetweenCharacters)'
                     /\ (Output!KeepsTheRecentHalf)']_ttyVars
<1>1. UnitsInit => Inv
  BY TtyInit DEF UnitsInit
<1>2. Inv /\ [UnitsNext]_unitsVars => Inv' /\ Kept
  <2> SUFFICES ASSUME Inv, [UnitsNext]_unitsVars PROVE Inv' /\ Kept
    OBVIOUS
  <2>1. CASE UNCHANGED unitsVars
    BY <2>1 DEF unitsVars, ttyVars, TtyInv, TtyTyped, TtyWindow, TtyLine, TtyReader, TtyRecent
  <2>2. CASE UnitsNext /\ unit = "tty"
    <3>1. unit' = unit /\ Output!Next /\ TtyInv
      BY <2>2 DEF UnitsNext
    <3>2. TtyInv'
      BY <3>1, TtyStep
    <3>3. Output!ReadsOnceStep
      BY <3>1, TtyReadsOnce
    <3>4. (Output!TypeOK /\ Output!CutsBetweenCharacters /\ Output!KeepsTheRecentHalf)'
      BY <3>2, TtyShows, PTL
    <3> QED
      BY <3>1, <3>2, <3>3, <3>4
  <2>3. CASE UnitsNext /\ unit # "tty"
    BY <2>3 DEF UnitsNext
  <2> QED
    BY <2>1, <2>2, <2>3
<1> QED
  <2>1. [UnitsNext]_unitsVars <=> [UnitsNext]_<<
          unit, controlVars, cheatsVars, scanVars, ttyVars, packetsVars, cueVars>>
    BY DEF unitsVars
  <2> QED
    BY <1>1, <1>2, <2>1, PTL DEF UnitsSpec, OutputReadOnce
-----------------------------------------------------------------------------
(* What is left of a sequence from a place on.                             *)
LEMMA SuffixIs ==
  ASSUME NEW S, NEW s \in Seq(S), NEW i \in 0 .. Len(s)
  PROVE  /\ SubSeq(s, i + 1, Len(s)) \in Seq(S)
         /\ Len(SubSeq(s, i + 1, Len(s))) = Len(s) - i
         /\ \A k \in 1 .. Len(s) - i : SubSeq(s, i + 1, Len(s))[k] = s[i + k]
  OBVIOUS

(* Control. *)

Piece == Arguments \cup {NL}

(* A sequence of pieces that carries the commands of o, a newline after    *)
(* each but perhaps the last.                                              *)
Carries(s, o) ==
  /\ s \in Seq(Piece) /\ o \in Seq(Arguments)
  /\ Len(s) = 2 * Len(o) \/ Len(s) + 1 = 2 * Len(o)
  /\ \A k \in 1 .. Len(o) : s[2 * k - 1] = o[k]
  /\ \A k \in 1 .. Len(o) : 2 * k <= Len(s) => s[2 * k] = NL

(* What is on its way from client c, when client cl is served: what was    *)
(* read of it, b, and what was not yet, i.                                 *)
StreamOf(c, cl, b, i) == IF c = cl THEN b \o i ELSE i
Stream(c) == StreamOf(c, client, buf, inbox[c])

(* What the parts of a command are.                                        *)
Parts(cmd) ==
  /\ cmd[1] # "newline"
  /\ cmd[1] = "run" => cmd = <<"run">> \/ cmd = <<"run", "bad">>
  /\ cmd[1] = "press" => cmd[2] \in Pads
  /\ cmd[1] = "seq" => cmd[2] \in Seq(Pads \cup {{"bad"}}) /\ Len(cmd[2]) > 0
  /\ cmd[1] = "until" => cmd[2] \in Values /\ cmd[3] \in Nat
  /\ cmd[1] = "input set" => cmd[2] \in Pads
  /\ cmd[1] = "savestate" => cmd[2] \in Slots
  /\ cmd[1] = "loadstate" => cmd[2] \in Slots /\ cmd = <<"loadstate", cmd[2]>>
  /\ cmd[1] = "poke" => cmd[2] \in Values

LEMMA CommandParts ==
  ASSUME NEW cmd \in Commands
  PROVE  Parts(cmd)
<1>1. CASE cmd = <<"run">>
  BY <1>1 DEF Parts
<1>2. CASE cmd = <<"run", "bad">>
  BY <1>2 DEF Parts
<1>3. CASE cmd = <<"input clear">>
  BY <1>3 DEF Parts
<1>4. CASE cmd = <<"reset">>
  BY <1>4 DEF Parts
<1>5. CASE cmd = <<"state">>
  BY <1>5 DEF Parts
<1>6. CASE cmd = <<"quit">>
  BY <1>6 DEF Parts
<1>7. CASE \E p \in Pads : cmd = <<"press", p>>
  BY <1>7 DEF Parts
<1>8. CASE \E v \in Values, n \in 0..2 : cmd = <<"until", v, n>>
  BY <1>8 DEF Parts
<1>9. CASE \E p \in Pads : cmd = <<"input set", p>>
  <2>1. PICK p \in Pads : cmd = <<"input set", p>>
    BY <1>9
  <2>2. cmd[1] = "input set" /\ cmd[2] \in Pads
    BY <2>1
  <2> QED
    BY <2>2 DEF Parts
<1>10. CASE \E s \in Slots : cmd = <<"savestate", s>>
  BY <1>10 DEF Parts
<1>11. CASE \E s \in Slots : cmd = <<"loadstate", s>>
  BY <1>11 DEF Parts
<1>12. CASE \E wait \in BOOLEAN, image \in {"good", "bad"} : cmd = <<"loadexe", wait, image>>
  BY <1>12 DEF Parts
<1>13. CASE \E v \in Values, tail \in {"inside", "outside"} : cmd = <<"poke", v, tail>>
  BY <1>13 DEF Parts
<1>14. CASE \E s \in SeqOf(Pads \cup {{"bad"}}, 2) \ {<<>>} : cmd = <<"seq", s>>
  <2>1. PICK s \in SeqOf(Pads \cup {{"bad"}}, 2) \ {<<>>} : cmd = <<"seq", s>>
    BY <1>14
  <2> DEFINE P == Pads \cup {{"bad"}}
  <2>2. PICK m \in 0 .. 2 : s \in [1 .. m -> P]
    BY <2>1 DEF SeqOf
  <2> HIDE DEF P
  <2>3. s \in Seq(P) /\ Len(s) = m
    BY <2>2
  <2>4. Len(s) > 0
    BY <2>1, <2>3
  <2>5. cmd[1] = "seq" /\ cmd[2] = s
    BY <2>1
  <2> QED
    BY <2>3, <2>4, <2>5 DEF Parts, P
<1>15. ASSUME cmd \in Untils PROVE Parts(cmd)
  BY <1>15, <1>8 DEF Untils
<1>16. ASSUME cmd \in LoadExes PROVE Parts(cmd)
  BY <1>16, <1>12 DEF LoadExes
<1>17. ASSUME cmd \in Pokes PROVE Parts(cmd)
  BY <1>17, <1>13 DEF Pokes
<1> QED
  BY Zenon, <1>1, <1>2, <1>3, <1>4, <1>5, <1>6, <1>7, <1>9, <1>10, <1>11, <1>14, <1>15,
     <1>16, <1>17
     DEF Commands

LEMMA NewlineIsNoCommand == NL \notin Arguments
<1>1. NL[1] = "newline"
  BY DEF NL
<1>2. \A cmd \in Commands : cmd[1] # "newline"
  BY CommandParts DEF Parts
<1> QED
  BY <1>1, <1>2, ControlAssumption

-----------------------------------------------------------------------------
(* Lines. *)

LEMMA CarriesText ==
  ASSUME NEW s, NEW o, Carries(s, o), Len(s) = 2 * Len(o), NEW cmd \in Arguments
  PROVE  Carries(Append(s, cmd), Append(o, cmd))
<1> DEFINE t == Append(s, cmd)
           p == Append(o, cmd)
<1>1. s \in Seq(Piece) /\ o \in Seq(Arguments) /\ cmd \in Piece
  BY DEF Carries, Piece
<1>2. /\ t \in Seq(Piece) /\ Len(t) = Len(s) + 1 /\ t[Len(s) + 1] = cmd
      /\ \A i \in 1 .. Len(s) : t[i] = s[i]
  BY <1>1
<1>3. /\ p \in Seq(Arguments) /\ Len(p) = Len(o) + 1 /\ p[Len(o) + 1] = cmd
      /\ \A i \in 1 .. Len(o) : p[i] = o[i]
  BY <1>1
<1>4. Len(s) \in Nat /\ Len(o) \in Nat
  BY <1>1
<1> HIDE DEF t, p
<1>5. Len(t) + 1 = 2 * Len(p)
  BY <1>2, <1>3, <1>4
<1>6. ASSUME NEW k \in 1 .. Len(p)
      PROVE  t[2 * k - 1] = p[k] /\ (2 * k <= Len(t) => t[2 * k] = NL)
  <2>1. CASE k = Len(o) + 1
    <3>1. 2 * k - 1 = Len(s) + 1 /\ ~(2 * k <= Len(t))
      BY <1>2, <1>4, <2>1
    <3> QED
      BY <1>2, <1>3, <2>1, <3>1
  <2>2. CASE k # Len(o) + 1
    <3>1. k \in 1 .. Len(o) /\ 2 * k - 1 \in 1 .. Len(s) /\ 2 * k \in 1 .. Len(s)
      BY <1>3, <1>4, <2>2
    <3>2. s[2 * k - 1] = o[k] /\ s[2 * k] = NL
      BY <3>1 DEF Carries
    <3> QED
      BY <1>2, <1>3, <3>1, <3>2
  <2> QED
    BY <2>1, <2>2
<1>7. Carries(t, p)
  BY <1>2, <1>3, <1>5, <1>6 DEF Carries
<1> QED
  BY <1>7 DEF t, p

LEMMA CarriesNewline ==
  ASSUME NEW s, NEW o, Carries(s, o), Len(s) + 1 = 2 * Len(o)
  PROVE  Carries(Append(s, NL), o)
<1> DEFINE t == Append(s, NL)
<1>1. s \in Seq(Piece) /\ o \in Seq(Arguments) /\ NL \in Piece
  BY DEF Carries, Piece
<1>2. /\ t \in Seq(Piece) /\ Len(t) = Len(s) + 1 /\ t[Len(s) + 1] = NL
      /\ \A i \in 1 .. Len(s) : t[i] = s[i]
  BY <1>1
<1>3. Len(s) \in Nat /\ Len(o) \in Nat
  BY <1>1
<1> HIDE DEF t
<1>4. ASSUME NEW k \in 1 .. Len(o) PROVE t[2 * k - 1] = o[k] /\ t[2 * k] = NL
  <2>1. 2 * k - 1 \in 1 .. Len(s) /\ s[2 * k - 1] = o[k]
    BY <1>3 DEF Carries
  <2>2. CASE 2 * k = Len(s) + 1
    BY <1>2, <2>1, <2>2
  <2>3. CASE 2 * k # Len(s) + 1
    <3>1. 2 * k \in 1 .. Len(s)
      <4>1. k \in Nat /\ 2 * k - 1 <= Len(s) /\ k > 0
        BY <1>3, <2>1
      <4> QED
        BY <1>3, <2>3, <4>1
    <3>2. s[2 * k] = NL
      BY <3>1 DEF Carries
    <3> QED
      BY <1>2, <2>1, <3>1, <3>2
  <2> QED
    BY <2>2, <2>3
<1>5. Len(t) = 2 * Len(o)
  BY <1>2
<1>6. Carries(t, o)
  BY <1>1, <1>2, <1>4, <1>5 DEF Carries
<1> QED
  BY <1>6 DEF t

(* It is in the middle of a line when its last piece is no newline.        *)
LEMMA CarriesEnds ==
  ASSUME NEW s, NEW o, Carries(s, o)
  PROVE  /\ s = <<>> => Len(s) = 2 * Len(o)
         /\ s # <<>> => (Last(s) = NL <=> Len(s) = 2 * Len(o))
<1>1. s \in Seq(Piece) /\ o \in Seq(Arguments) /\ Len(s) \in Nat /\ Len(o) \in Nat
  BY DEF Carries
<1>2. Len(s) = 2 * Len(o) \/ Len(s) + 1 = 2 * Len(o)
  BY DEF Carries
<1>3. s = <<>> => Len(s) = 2 * Len(o)
  BY <1>1, <1>2
<1>4. ASSUME s # <<>> PROVE Last(s) = NL <=> Len(s) = 2 * Len(o)
  <2>1. Len(s) > 0 /\ Last(s) = s[Len(s)]
    BY <1>1, <1>4 DEF Last
  <2>2. Len(o) \in 1 .. Len(o)
    BY <1>1, <1>2, <2>1
  <2>3. CASE Len(s) = 2 * Len(o)
    BY <2>1, <2>2, <2>3 DEF Carries
  <2>4. CASE Len(s) + 1 = 2 * Len(o)
    <3>1. 2 * Len(o) - 1 = Len(s) /\ Len(s) # 2 * Len(o)
      BY <1>1, <2>4
    <3>2. s[Len(s)] = o[Len(o)]
      BY <2>2, <3>1 DEF Carries
    <3>3. o[Len(o)] \in Arguments
      BY <1>1, <2>2
    <3> QED
      BY <2>1, <3>1, <3>2, <3>3, NewlineIsNoCommand
  <2> QED
    BY <1>2, <2>3, <2>4
<1> QED
  BY <1>3, <1>4

-----------------------------------------------------------------------------
(* What a command does. *)

MachineAt == [time : Nat, pads : Pads, word : Values]
Snapshots == [Slots -> SUBSET Machines]

(* What a result may have done, by the command it is the result of.        *)
Granted(cmd, r) ==
  /\ r.held \in Pads /\ r.sys \in MachineAt
  /\ r.sys \in Machines => r.slots \in Snapshots
  /\ r.held # held => r.ok = TRUE /\ cmd[1] \in {"input set", "input clear", "reset"}
  /\ r.sys.pads # sys.pads =>
       \/ r.sys.pads = r.held
       \/ r.ok = TRUE /\ cmd[1] = "loadstate" /\ r.sys \in slots[cmd[2]]
  /\ owns => r.sys.time = sys.time /\ (r.sys.pads = r.held \/ r.sys.pads = sys.pads)
  /\ r.ok = FALSE /\ cmd[1] \notin {"poke", "loadexe"} =>
       r.held = held /\ r.sys = sys /\ r.slots = slots

LEMMA MachinesAt ==
  ASSUME NEW m
  PROVE  /\ m \in Machines <=> m \in MachineAt /\ m.time <= MaxTime
         /\ m \in MachineAt => m.time \in Nat /\ m.pads \in Pads /\ m.word \in Values
<1>1. MaxTime \in Nat
  BY ControlAssumption
<1>2. ASSUME m \in Machines PROVE m \in MachineAt /\ m.time <= MaxTime
  BY <1>1, <1>2 DEF Machines, MachineAt
<1>3. ASSUME m \in MachineAt PROVE m.time \in Nat /\ m.pads \in Pads /\ m.word \in Values
  BY <1>3 DEF MachineAt
<1>4. ASSUME m \in MachineAt, m.time <= MaxTime PROVE m \in Machines
  <2>1. m.time \in 0 .. MaxTime
    BY <1>1, <1>3, <1>4
  <2> QED
    BY <1>4, <2>1 DEF Machines, MachineAt
<1> QED
  BY <1>2, <1>3, <1>4

LEMMA AdvanceIs ==
  ASSUME NEW m \in MachineAt, NEW h \in Pads, NEW n \in Nat, NEW x \in Advance(m, h, n)
  PROVE  x \in MachineAt /\ x.pads = h /\ x.time = m.time + n
<1>1. m.time + n \in Nat
  BY DEF MachineAt
<1>2. PICK v \in Values : x = [time |-> m.time + n, pads |-> h, word |-> v]
  BY DEF Advance
<1> QED
  BY <1>1, <1>2 DEF MachineAt

(* The machine with other pads.                                            *)
LEMMA PadsIs ==
  ASSUME NEW m \in MachineAt, NEW h \in Pads
  PROVE  /\ [m EXCEPT !.pads = h] \in MachineAt /\ [m EXCEPT !.pads = h].pads = h
         /\ [m EXCEPT !.pads = h].time = m.time
  BY DEF MachineAt

LEMMA BootIs == Boot \in Machines /\ Boot.pads = {}
<1>1. (CHOOSE v \in Values : TRUE) \in Values
  BY ControlAssumption
<1>2. 0 \in 0 .. MaxTime /\ {} \in Pads
  BY ControlAssumption DEF Pads
<1> QED
  BY <1>1, <1>2 DEF Boot, Machines

(* A result that leaves the held buttons and the snapshots alone, whose    *)
(* machine presents the held buttons, of a command that drives execution.  *)
LEMMA GrantedRun ==
  ASSUME held \in Pads, slots \in Snapshots, ~owns,
         NEW cmd, NEW m \in MachineAt, m.pads = held
  PROVE  Granted(cmd, Result(TRUE, held, m, slots))
<1> DEFINE r == Result(TRUE, held, m, slots)
<1>1. r.ok = TRUE /\ r.held = held /\ r.sys = m /\ r.slots = slots
  BY DEF Result
<1> HIDE DEF r
<1>2. Granted(cmd, r)
  BY <1>1 DEF Granted
<1> QED
  BY <1>2 DEF r

LEMMA GrantedRefused ==
  ASSUME held \in Pads, sys \in Machines, slots \in Snapshots, NEW cmd
  PROVE  Granted(cmd, Refused)
<1> DEFINE r == Refused
<1>1. r.ok = FALSE /\ r.held = held /\ r.sys = sys /\ r.slots = slots
  BY DEF Refused, Result
<1> HIDE DEF r
<1>2. sys \in MachineAt
  BY MachinesAt
<1>3. Granted(cmd, r)
  BY <1>1, <1>2 DEF Granted
<1> QED
  BY <1>3 DEF r

LEMMA OutcomeIsGranted ==
  ASSUME held \in Pads, sys \in Machines, slots \in Snapshots, owns \in BOOLEAN,
         NEW cmd \in Commands, NEW r \in Outcome(cmd)
  PROVE  Granted(cmd, r)
<1>0. sys \in MachineAt /\ sys.pads \in Pads /\ sys.time \in Nat
  BY MachinesAt
<1>1. Parts(cmd)
  BY CommandParts
<1>2. CASE owns /\ cmd[1] \in Execution
  <2>1. r = Refused
    BY <1>2 DEF Outcome
  <2> QED
    BY <2>1, GrantedRefused
<1> SUFFICES ASSUME ~(owns /\ cmd[1] \in Execution) PROVE Granted(cmd, r)
  BY <1>2
<1>02. cmd[1] # "run" => cmd # <<"run">> /\ cmd # <<"run", "bad">>
  OBVIOUS
<1>3. CASE cmd = <<"run">>
  <2>1. r \in Run /\ ~owns
    BY <1>3 DEF Outcome, Execution
  <2>2. PICK m \in Advance(sys, held, 1) : r = Result(TRUE, held, m, slots)
    BY <2>1 DEF Run
  <2>3. m \in MachineAt /\ m.pads = held
    BY <1>0, AdvanceIs
  <2> QED
    BY <2>1, <2>2, <2>3, GrantedRun
<1>4. CASE cmd = <<"run", "bad">>
  <2>1. cmd # <<"run">> /\ cmd[1] = "run"
    BY <1>4
  <2>2. r = Refused
    BY <1>4, <2>1 DEF Outcome
  <2> QED
    BY <2>2, GrantedRefused
<1>5. CASE cmd[1] = "press"
  <2>1. r \in Press(cmd[2]) /\ ~owns /\ cmd[2] \in Pads
    BY <1>1, <1>5 DEF Outcome, Execution, Parts
  <2>2. PICK m \in Advance(sys, held \cup cmd[2], 1) :
          r = Result(TRUE, held, [m EXCEPT !.pads = held], slots)
    BY <2>1 DEF Press
  <2>3. held \cup cmd[2] \in Pads
    BY <2>1 DEF Pads
  <2>4. m \in MachineAt
    BY <1>0, <2>3, AdvanceIs
  <2>5. [m EXCEPT !.pads = held] \in MachineAt /\ [m EXCEPT !.pads = held].pads = held
    BY <2>4, PadsIs
  <2> QED
    BY <2>1, <2>2, <2>5, GrantedRun
<1>6. CASE cmd[1] = "seq"
  <2> DEFINE segs == cmd[2]
  <2>1. /\ r \in Sequence(segs) /\ ~owns
        /\ segs \in Seq(Pads \cup {{"bad"}}) /\ Len(segs) > 0
    BY <1>1, <1>6 DEF Outcome, Execution, Parts
  <2> HIDE DEF segs
  <2>2. CASE \E i \in 1..Len(segs) : segs[i] \notin Pads
    <3>1. r = Refused
      BY <2>1, <2>2 DEF Sequence
    <3> QED
      BY <3>1, GrantedRefused
  <2>3. CASE ~(\E i \in 1..Len(segs) : segs[i] \notin Pads)
    <3>1. PICK m \in Advance(sys, Last(segs), Len(segs)) :
            r = Result(TRUE, held, [m EXCEPT !.pads = held], slots)
      BY <2>1, <2>3 DEF Sequence
    <3>2. Len(segs) \in Nat /\ Len(segs) \in 1 .. Len(segs)
      BY <2>1
    <3>3. Last(segs) \in Pads
      BY <2>3, <3>2 DEF Last
    <3>4. m \in MachineAt
      BY <1>0, <3>2, <3>3, AdvanceIs
    <3>5. [m EXCEPT !.pads = held] \in MachineAt /\ [m EXCEPT !.pads = held].pads = held
      BY <3>4, PadsIs
    <3> QED
      BY <2>1, <3>1, <3>5, GrantedRun
  <2> QED
    BY <2>2, <2>3
<1>7. CASE cmd[1] = "until"
  <2> DEFINE target == cmd[2]
             max == cmd[3]
             start == [sys EXCEPT !.pads = held]
  <2>1. r \in Until(target, max) /\ ~owns /\ max \in Nat
    BY <1>1, <1>7 DEF Outcome, Execution, Parts
  <2>2. start \in MachineAt /\ start.pads = held
    BY <1>0, PadsIs
  <2>3. CASE start.word = target \/ max = 0
    <3>1. r = Result(TRUE, held, start, slots)
      BY <2>1, <2>3 DEF Until
    <3> QED
      BY <2>1, <2>2, <3>1, GrantedRun
  <2>4. CASE ~(start.word = target \/ max = 0)
    <3>1. PICK m \in UNION {{x \in Advance(start, held, n) : x.word = target \/ n = max}
                              : n \in 1..max} : r = Result(TRUE, held, m, slots)
      BY <2>1, <2>4 DEF Until
    <3>2. PICK n \in 1 .. max : m \in Advance(start, held, n)
      OBVIOUS
    <3>3. n \in Nat
      BY <2>1
    <3> HIDE DEF start
    <3>4. m \in MachineAt /\ m.pads = held
      BY <2>2, <3>2, <3>3, AdvanceIs
    <3> QED
      BY <2>1, <3>1, <3>4, GrantedRun
  <2> QED
    BY <2>3, <2>4
<1>8. ASSUME NEW mask \in Pads, r \in InputSet(mask), cmd[1] \in {"input set", "input clear"}
      PROVE  Granted(cmd, r)
  <2>1. r = Result(TRUE, mask, [sys EXCEPT !.pads = mask], slots)
    BY <1>8 DEF InputSet
  <2>2. r.ok = TRUE /\ r.held = mask /\ r.sys = [sys EXCEPT !.pads = mask] /\ r.slots = slots
    BY <2>1 DEF Result
  <2>3. r.sys \in MachineAt /\ r.sys.pads = mask /\ r.sys.time = sys.time
    BY <1>0, <2>2, PadsIs
  <2> QED
    BY <1>8, <2>2, <2>3 DEF Granted
<1>9. CASE cmd[1] = "input set"
  <2>1. cmd # <<"run">> /\ cmd # <<"run", "bad">> /\ cmd[1] \notin Execution
    BY <1>02, <1>9 DEF Execution
  <2>2. Outcome(cmd) = InputSet(cmd[2])
    BY <1>9, <2>1 DEF Outcome
  <2>3. cmd[2] \in Pads
    BY <1>1, <1>9 DEF Parts
  <2> QED
    BY <1>8, <1>9, <2>2, <2>3
<1>10. CASE cmd[1] = "input clear"
  <2>1. cmd # <<"run">> /\ cmd # <<"run", "bad">> /\ cmd[1] \notin Execution
    BY <1>02, <1>10 DEF Execution
  <2>2. Outcome(cmd) = InputSet({})
    BY <1>10, <2>1 DEF Outcome
  <2>3. {} \in Pads
    BY DEF Pads
  <2> QED
    BY <1>8, <1>10, <2>2, <2>3
<1>11. CASE cmd[1] = "reset"
  <2>1. r = Result(TRUE, {}, Boot, slots) /\ ~owns
    BY <1>11 DEF Outcome, Reset, Execution
  <2>2. r.ok = TRUE /\ r.held = {} /\ r.sys = Boot /\ r.slots = slots
    BY <2>1 DEF Result
  <2>3. Boot \in MachineAt /\ Boot.pads = {} /\ {} \in Pads
    BY BootIs, MachinesAt DEF Pads
  <2> QED
    BY <1>11, <2>1, <2>2, <2>3 DEF Granted
<1>12. CASE cmd[1] = "savestate"
  <2>1. r = Result(TRUE, held, sys, [slots EXCEPT ![cmd[2]] = {sys}])
    BY <1>02, <1>12, SMTT(30) DEF Outcome, Execution, SaveState
  <2>2. /\ r.ok = TRUE /\ r.held = held /\ r.sys = sys
        /\ r.slots = [slots EXCEPT ![cmd[2]] = {sys}]
    BY <2>1 DEF Result
  <2>3. r.slots \in Snapshots
    <3>1. {sys} \in SUBSET Machines
      OBVIOUS
    <3> QED
      BY <2>2, <3>1 DEF Snapshots
  <2> QED
    BY <1>0, <2>2, <2>3 DEF Granted
<1>13. CASE cmd[1] = "loadstate"
  <2>1. r \in LoadState(cmd[2]) /\ cmd[2] \in Slots /\ ~owns
    BY <1>1, <1>13 DEF Outcome, Execution, Parts
  <2>2. CASE slots[cmd[2]] = {}
    <3>1. r = Refused
      BY <2>1, <2>2 DEF LoadState
    <3> QED
      BY <3>1, GrantedRefused
  <2>3. CASE slots[cmd[2]] # {}
    <3>1. PICK m \in slots[cmd[2]] : r = Result(TRUE, held, m, slots)
      BY <2>1, <2>3 DEF LoadState
    <3>2. r.ok = TRUE /\ r.held = held /\ r.sys = m /\ r.slots = slots
      BY <3>1 DEF Result
    <3>3. m \in Machines
      BY <2>1 DEF Snapshots
    <3>4. m \in MachineAt
      BY <3>3, MachinesAt
    <3> QED
      BY <1>13, <2>1, <3>2, <3>4 DEF Granted
  <2> QED
    BY <2>2, <2>3
<1>14. CASE cmd[1] = "loadexe"
  <2>1. r \in LoadExe(cmd[2], cmd[3]) /\ ~owns
    BY <1>14 DEF Outcome, Execution
  <2>2. PICK m \in IF cmd[2] THEN Advance(sys, sys.pads, 1) ELSE {sys} :
          r = Result(cmd[3] = "good", held, m, slots)
    BY <2>1 DEF LoadExe
  <2>3. r.held = held /\ r.sys = m /\ r.slots = slots
    BY <2>2 DEF Result
  <2>4. m \in MachineAt /\ m.pads = sys.pads
    BY <1>0, AdvanceIs
  <2> QED
    BY <1>14, <2>1, <2>3, <2>4 DEF Granted
<1>15. CASE cmd[1] = "poke"
  <2>1. r = Result(cmd[3] = "inside", held, [sys EXCEPT !.word = cmd[2]], slots) /\ cmd[2] \in Values
    BY <1>1, <1>15 DEF Outcome, Poke, Parts
  <2>2. r.held = held /\ r.sys = [sys EXCEPT !.word = cmd[2]] /\ r.slots = slots
    BY <2>1 DEF Result
  <2>3. r.sys \in MachineAt /\ r.sys.pads = sys.pads /\ r.sys.time = sys.time
    BY <1>0, <2>1, <2>2 DEF MachineAt
  <2> QED
    BY <1>15, <2>2, <2>3 DEF Granted
<1>16. CASE cmd[1] \notin {"run", "press", "seq", "until", "input set", "input clear", "reset",
                           "savestate", "loadstate", "loadexe", "poke"}
  <2>1. cmd # <<"run">> /\ cmd # <<"run", "bad">> /\ cmd[1] \notin Execution
    BY <1>02, <1>16 DEF Execution
  <2>2. Outcome(cmd) = {Result(TRUE, held, sys, slots)}
    BY <1>16, <2>1 DEF Outcome
  <2>3. r.ok = TRUE /\ r.held = held /\ r.sys = sys /\ r.slots = slots
    BY <2>2 DEF Result
  <2> QED
    BY <1>0, <2>3 DEF Granted
<1>17. cmd[1] = "run" => cmd = <<"run">> \/ cmd = <<"run", "bad">>
  BY <1>1 DEF Parts
<1> QED
  BY <1>3, <1>4, <1>5, <1>6, <1>7, <1>9, <1>10, <1>11, <1>12, <1>13, <1>14, <1>15, <1>16, <1>17

-----------------------------------------------------------------------------
(* The invariant: what a client has on its way carries the commands it is  *)
(* owed an answer for, whoever was served before it and wherever the       *)
(* pieces are.                                                             *)
PortTyped ==
  /\ held \in Pads /\ sys \in Machines /\ slots \in Snapshots
  /\ owns \in BOOLEAN /\ quit \in BOOLEAN /\ spent \in 0 .. MaxLines
  /\ client \in Clients \cup {"none"} /\ door \in Seq(Clients) /\ buf \in Seq(Piece)
  /\ inbox \in [Clients -> Seq(Piece)] /\ owed \in [Clients -> Seq(Arguments)]
PortStreams == \A c \in Clients : Carries(Stream(c), owed[c])
PortInv == PortTyped /\ PortStreams /\ AnswersItsOwn

(* The first line of what carries the commands of o is the first of them.  *)
LEMMA CarriesLine ==
  ASSUME NEW s, NEW o, Carries(s, o), NEW j \in 1 .. Len(s), s[j] = NL
  PROVE  /\ o \in Seq(Arguments) /\ Len(o) > 0 /\ o # <<>> /\ o[1] \in Arguments
         /\ 2 = CHOOSE i \in 1 .. Len(s) : s[i] = NL /\ \A k \in 1 .. (i - 1) : s[k] # NL
         /\ SubSeq(s, 1, 2 - 1) = <<o[1]>>
         /\ Carries(SubSeq(s, 2 + 1, Len(s)), SubSeq(o, 2, Len(o)))
<1> DEFINE m == Len(s)
           n == Len(o)
           First(i) == s[i] = NL /\ \A k \in 1 .. (i - 1) : s[k] # NL
           t == SubSeq(s, 2 + 1, m)
           p == SubSeq(o, 2, n)
<1>1. /\ s \in Seq(Piece) /\ o \in Seq(Arguments) /\ m \in Nat /\ n \in Nat
      /\ m = 2 * n \/ m + 1 = 2 * n
      /\ \A k \in 1 .. n : s[2 * k - 1] = o[k]
      /\ \A k \in 1 .. n : 2 * k <= m => s[2 * k] = NL
  BY DEF Carries
<1>2. m > 0 /\ n > 0 /\ 1 \in 1 .. n
  BY <1>1
<1>3. o[1] \in Arguments /\ s[1] = o[1] /\ s[1] # NL
  <2>1. o[1] \in Arguments
    BY <1>1, <1>2
  <2>2. s[2 * 1 - 1] = o[1]
    BY <1>1, <1>2
  <2> QED
    BY <2>1, <2>2, NewlineIsNoCommand
<1>4. m >= 2 /\ s[2] = NL
  <2>1. j # 1
    BY <1>3
  <2>2. m >= 2
    BY <1>1, <2>1
  <2>3. 2 * 1 <= m => s[2 * 1] = NL
    BY <1>1, <1>2
  <2> QED
    BY <2>2, <2>3
<1>5. First(2)
  <2>1. \A k \in 1 .. (2 - 1) : k = 1
    OBVIOUS
  <2> QED
    BY <1>3, <1>4, <2>1
<1>6. 2 = CHOOSE i \in 1 .. m : First(i)
  <2>1. 2 \in 1 .. m
    BY <1>1, <1>4
  <2>2. ASSUME NEW i \in 1 .. m, First(i) PROVE i = 2
    <3>1. i # 1
      BY <1>3, <2>2
    <3>2. ~(i > 2)
      <4>1. i > 2 => 2 \in 1 .. (i - 1)
        BY <2>1
      <4> QED
        BY <1>4, <2>2, <4>1
    <3> QED
      BY <3>1, <3>2
  <2> QED
    BY <1>5, <2>1, <2>2
<1>7. SubSeq(s, 1, 2 - 1) = <<o[1]>>
  <2> DEFINE q == SubSeq(s, 1, 1)
  <2>1. 1 \in 1 .. Len(s) /\ s \in Seq(Piece)
    BY <1>1, <1>2
  <2>2. q \in Seq(Piece) /\ Len(q) = 1 /\ q[1] = s[1]
    BY ONLY <2>1
  <2> HIDE DEF q
  <2>3. q = <<s[1]>>
    BY <2>2
  <2>4. 2 - 1 = 1
    OBVIOUS
  <2> QED
    BY <1>3, <2>3, <2>4 DEF q
<1>8. /\ t \in Seq(Piece) /\ Len(t) = m - 2
      /\ \A k \in 1 .. m - 2 : t[k] = s[2 + k]
  <2>1. s \in Seq(Piece) /\ 2 \in 0 .. Len(s)
    BY <1>1, <1>4
  <2> QED
    BY <2>1, SuffixIs
<1>9. /\ p \in Seq(Arguments) /\ Len(p) = n - 1
      /\ \A k \in 1 .. n - 1 : p[k] = o[1 + k]
  <2>1. o \in Seq(Arguments) /\ 1 \in 0 .. Len(o) /\ 1 + 1 = 2
    BY <1>1, <1>2
  <2> QED
    BY <2>1, SuffixIs
<1> HIDE DEF t, p, m, n
<1>10. Len(t) = 2 * Len(p) \/ Len(t) + 1 = 2 * Len(p)
  BY <1>1, <1>4, <1>8, <1>9
<1>11. ASSUME NEW k \in 1 .. n - 1
       PROVE  t[2 * k - 1] = p[k] /\ (2 * k <= Len(t) => t[2 * k] = NL)
  <2>1. k + 1 \in 1 .. n /\ p[k] = o[1 + k] /\ 1 + k = k + 1 /\ k \in Nat
    <3>1. k \in Nat /\ k >= 1 /\ k + 1 <= n
      BY <1>1
    <3>2. k + 1 \in 1 .. n /\ 1 + k = k + 1
      BY <1>1, <3>1
    <3> QED
      BY <1>9, <3>1, <3>2
  <2>2. s[2 * (k + 1) - 1] = o[k + 1] /\ (2 * (k + 1) <= m => s[2 * (k + 1)] = NL)
    BY <1>1, <2>1
  <2>3. 2 * k - 1 \in 1 .. m - 2 /\ 2 + (2 * k - 1) = 2 * (k + 1) - 1
    <3>1. k \in Nat /\ k >= 1 /\ k <= n - 1 /\ n \in Nat /\ m \in Nat
      BY <1>1
    <3>2. m = 2 * n \/ m + 1 = 2 * n
      BY <1>1
    <3> QED
      BY ONLY <3>1, <3>2
  <2>4. 2 * k <= Len(t) => 2 * k \in 1 .. m - 2 /\ 2 + 2 * k = 2 * (k + 1) /\ 2 * (k + 1) <= m
    BY <1>1, <1>8, <2>1
  <2> QED
    BY <1>8, <2>1, <2>2, <2>3, <2>4
<1>12. Carries(t, p)
  <2>1. \A k \in 1 .. Len(p) : t[2 * k - 1] = p[k] /\ (2 * k <= Len(t) => t[2 * k] = NL)
    BY <1>9, <1>11
  <2> QED
    BY <1>8, <1>9, <1>10, <2>1 DEF Carries
<1>13. n > 0 /\ o # <<>>
  BY <1>1, <1>2 DEF n
<1> QED
  BY <1>1, <1>3, <1>6, <1>7, <1>12, <1>13 DEF t, p, m, n

(* In the middle of a line is where the last command has no newline yet.   *)
LEMMA MidLineIs ==
  ASSUME PortTyped, PortStreams, NEW c \in Clients
  PROVE  MidLine(c) <=> Len(Stream(c)) # 2 * Len(owed[c])
<1> DEFINE i == inbox[c]
           s == Stream(c)
<1>1. i \in Seq(Piece) /\ buf \in Seq(Piece)
  BY DEF PortTyped
<1>2. Carries(s, owed[c])
  BY DEF PortStreams
<1>3. /\ s = <<>> => Len(s) = 2 * Len(owed[c])
      /\ s # <<>> => (Last(s) = NL <=> Len(s) = 2 * Len(owed[c]))
  <2> HIDE DEF s
  <2> QED
    BY <1>2, CarriesEnds
<1>4. s = IF c = client THEN buf \o i ELSE i
  BY DEF Stream, StreamOf
<1>5. MidLine(c) <=> (i # <<>> /\ Last(i) # NL) \/ (c = client /\ i = <<>> /\ buf # <<>> /\ Last(buf) # NL)
  BY DEF MidLine
<1> DEFINE A == Len(s) = 2 * Len(owed[c])
<1> SUFFICES MidLine(c) <=> ~A
  OBVIOUS
<1>0. (s = <<>> => A) /\ (s # <<>> => (Last(s) = NL <=> A))
  BY <1>3
<1> HIDE DEF i, s, A
<1>6. CASE i # <<>>
  <2>1. s # <<>> /\ Last(s) = Last(i)
    <3>1. CASE c = client
      <4>1. Len(i) \in Nat /\ Len(i) > 0 /\ Len(buf) \in Nat
        BY <1>1, <1>6
      <4>2. Len(s) = Len(buf) + Len(i) /\ s[Len(buf) + Len(i)] = i[Len(i)]
        BY <1>1, <1>4, <3>1, <4>1
      <4>3. s # <<>>
        BY <1>1, <1>4, <3>1, <4>1, <4>2
      <4> QED
        BY <4>2, <4>3 DEF Last
    <3>2. CASE c # client
      BY <1>4, <1>6, <3>2
    <3> QED
      BY <3>1, <3>2
  <2> QED
    BY <1>0, <1>5, <1>6, <2>1, Zenon
<1>7. CASE i = <<>>
  <2>1. s = IF c = client THEN buf ELSE <<>>
    BY <1>1, <1>4, <1>7
  <2> QED
    BY <1>0, <1>5, <1>7, <2>1, Zenon
<1> QED
  BY <1>6, <1>7

(* What the property says of one step.                                     *)
PortDoes == GivesButtonsBackStep /\ DebuggerDrivesStep /\ ErrorsChangeNothingStep

(* A step that executes nothing.                                           *)
LEMMA PortQuiet ==
  ASSUME UNCHANGED <<held, sys, slots>>, answer' = <<>>
  PROVE  PortDoes /\ AnswersItsOwn'
<1>1. AnswersItsOwn'
  BY DEF AnswersItsOwn
<1>2. GivesButtonsBackStep /\ DebuggerDrivesStep
  BY DEF GivesButtonsBackStep, DebuggerDrivesStep
<1>3. ErrorsChangeNothingStep
  BY DEF ErrorsChangeNothingStep
<1> QED
  BY <1>1, <1>2, <1>3 DEF PortDoes

(* A piece more on a client's way to the port.                             *)
LEMMA StreamGrows ==
  ASSUME PortTyped, NEW c \in Clients, NEW x \in Piece,
         inbox' = [inbox EXCEPT ![c] = Append(@, x)], UNCHANGED <<client, buf>>
  PROVE  /\ inbox' \in [Clients -> Seq(Piece)]
         /\ Stream(c)' = Append(Stream(c), x)
         /\ \A d \in Clients : d # c => Stream(d)' = Stream(d)
<1> DEFINE i == inbox[c]
           b == buf
<1>1. i \in Seq(Piece) /\ b \in Seq(Piece) /\ inbox \in [Clients -> Seq(Piece)]
  BY DEF PortTyped
<1>2. inbox'[c] = Append(i, x) /\ \A d \in Clients : d # c => inbox'[d] = inbox[d]
  BY <1>1
<1>3. Append(i, x) \in Seq(Piece)
  BY <1>1
<1>4. inbox' \in [Clients -> Seq(Piece)]
  BY <1>1, <1>3
<1>5. b \o Append(i, x) = Append(b \o i, x)
  <2>1. <<x>> \in Seq(Piece) /\ b \o i \in Seq(Piece)
    BY <1>1
  <2>2. Append(i, x) = i \o <<x>> /\ Append(b \o i, x) = (b \o i) \o <<x>>
    BY <1>1, <2>1, AppendIsConcat
  <2> HIDE DEF i, b
  <2> QED
    BY <1>1, <2>1, <2>2, ConcatAssociative
<1>6. Stream(c)' = Append(Stream(c), x)
  BY <1>2, <1>5 DEF Stream, StreamOf
<1>7. \A d \in Clients : d # c => Stream(d)' = Stream(d)
  BY <1>2 DEF Stream, StreamOf
<1> QED
  BY <1>4, <1>6, <1>7

LEMMA SendTextStep ==
  ASSUME PortInv, NEW c \in Clients, SendText(c)
  PROVE  PortInv' /\ PortDoes
<1>1. PortTyped /\ PortStreams
  BY DEF PortInv
<1>2. PICK cmd \in Arguments :
        /\ ~MidLine(c) /\ spent < MaxLines /\ spent' = spent + 1
        /\ inbox' = [inbox EXCEPT ![c] = Append(@, cmd)]
        /\ owed' = [owed EXCEPT ![c] = Append(@, cmd)]
        /\ answer' = <<>>
        /\ UNCHANGED <<door, closed, owns, port>>
  BY DEF SendText, Unanswered
<1>3. UNCHANGED <<client, buf, held, slots, sys, quit>>
  BY <1>2 DEF port
<1>4. /\ inbox' \in [Clients -> Seq(Piece)] /\ Stream(c)' = Append(Stream(c), cmd)
      /\ \A d \in Clients : d # c => Stream(d)' = Stream(d)
  <2>1. cmd \in Piece
    BY DEF Piece
  <2> QED
    BY <1>1, <1>2, <1>3, <2>1, StreamGrows
<1>5. /\ owed \in [Clients -> Seq(Arguments)] /\ owed' \in [Clients -> Seq(Arguments)]
      /\ owed'[c] = Append(owed[c], cmd) /\ \A d \in Clients : d # c => owed'[d] = owed[d]
  <2>1. owed \in [Clients -> Seq(Arguments)]
    BY <1>1 DEF PortTyped
  <2>2. owed[c] \in Seq(Arguments)
    BY <2>1
  <2>3. Append(owed[c], cmd) \in Seq(Arguments)
    BY <2>2
  <2> QED
    BY <1>2, <2>1, <2>3
<1>6. spent' \in 0 .. MaxLines
  BY <1>1, <1>2, ControlAssumption DEF PortTyped
<1>7. PortTyped'
  BY <1>1, <1>2, <1>3, <1>4, <1>5, <1>6 DEF PortTyped
<1>8. Carries(Stream(c)', owed'[c])
  <2> DEFINE s == Stream(c)
             o == owed[c]
  <2>1. Carries(s, o) /\ Len(s) = 2 * Len(o)
    BY <1>1, <1>2, MidLineIs DEF PortStreams
  <2> HIDE DEF s, o
  <2>2. Carries(Append(s, cmd), Append(o, cmd))
    BY <2>1, CarriesText
  <2> QED
    BY <1>4, <1>5, <2>2 DEF s, o
<1>9. PortStreams'
  <2>1. ASSUME NEW d \in Clients, d # c PROVE Carries(Stream(d)', owed'[d])
    <3>1. Carries(Stream(d), owed[d])
      BY <1>1 DEF PortStreams
    <3> QED
      BY <1>4, <1>5, <2>1, <3>1
  <2> QED
    BY <1>8, <2>1 DEF PortStreams
<1> QED
  BY <1>2, <1>3, <1>7, <1>9, PortQuiet DEF PortInv

LEMMA SendNewlineStep ==
  ASSUME PortInv, NEW c \in Clients, SendNewline(c)
  PROVE  PortInv' /\ PortDoes
<1>1. PortTyped /\ PortStreams
  BY DEF PortInv
<1>2. /\ MidLine(c) /\ inbox' = [inbox EXCEPT ![c] = Append(@, NL)]
      /\ answer' = <<>> /\ UNCHANGED <<door, closed, owed, spent, owns, port>>
  BY DEF SendNewline, Unanswered
<1>3. UNCHANGED <<client, buf, held, slots, sys, quit>>
  BY <1>2 DEF port
<1>4. /\ inbox' \in [Clients -> Seq(Piece)] /\ Stream(c)' = Append(Stream(c), NL)
      /\ \A d \in Clients : d # c => Stream(d)' = Stream(d)
  <2>1. NL \in Piece
    BY DEF Piece
  <2> QED
    BY <1>1, <1>2, <1>3, <2>1, StreamGrows
<1>5. PortTyped'
  BY <1>1, <1>2, <1>3, <1>4 DEF PortTyped
<1>6. Carries(Stream(c)', owed'[c])
  <2> DEFINE s == Stream(c)
             o == owed[c]
  <2>1. Carries(s, o) /\ Len(s) # 2 * Len(o)
    BY <1>1, <1>2, MidLineIs DEF PortStreams
  <2> HIDE DEF s, o
  <2>2. Len(s) + 1 = 2 * Len(o)
    BY <2>1 DEF Carries
  <2>3. Carries(Append(s, NL), o)
    BY <2>1, <2>2, CarriesNewline
  <2> QED
    BY <1>2, <1>4, <2>3 DEF s, o
<1>7. PortStreams'
  <2>1. ASSUME NEW d \in Clients, d # c PROVE Carries(Stream(d)', owed'[d])
    <3>1. Carries(Stream(d), owed[d])
      BY <1>1 DEF PortStreams
    <3> QED
      BY <1>2, <1>4, <2>1, <3>1
  <2> QED
    BY <1>6, <2>1 DEF PortStreams
<1> QED
  BY <1>2, <1>3, <1>5, <1>7, PortQuiet DEF PortInv

(* The steps that neither send, read nor execute.                          *)
LEMMA IdleStep ==
  ASSUME PortInv, (\E c \in Clients : Connect(c) \/ HangUp(c)) \/ Attach
  PROVE  PortInv' /\ PortDoes
<1>1. PortTyped /\ PortStreams
  BY DEF PortInv
<1>2. /\ answer' = <<>>
      /\ UNCHANGED <<inbox, owed, spent, client, buf, held, slots, sys, quit>>
      /\ owns' \in BOOLEAN /\ door' \in Seq(Clients)
  <2>1. ASSUME NEW c \in Clients, Connect(c)
        PROVE  /\ answer' = <<>>
               /\ UNCHANGED <<inbox, owed, spent, client, buf, held, slots, sys, quit>>
               /\ owns' \in BOOLEAN /\ door' \in Seq(Clients)
    BY <1>1, <2>1 DEF Connect, Unanswered, port, PortTyped
  <2>2. ASSUME NEW c \in Clients, HangUp(c)
        PROVE  /\ answer' = <<>>
               /\ UNCHANGED <<inbox, owed, spent, client, buf, held, slots, sys, quit>>
               /\ owns' \in BOOLEAN /\ door' \in Seq(Clients)
    BY <1>1, <2>2 DEF HangUp, Unanswered, port, PortTyped
  <2>3. ASSUME Attach
        PROVE  /\ answer' = <<>>
               /\ UNCHANGED <<inbox, owed, spent, client, buf, held, slots, sys, quit>>
               /\ owns' \in BOOLEAN /\ door' \in Seq(Clients)
    BY <1>1, <2>3 DEF Attach, Unanswered, port, wire, PortTyped
  <2> QED
    BY <2>1, <2>2, <2>3
<1>3. PortTyped'
  BY <1>1, <1>2 DEF PortTyped
<1>4. PortStreams'
  BY <1>1, <1>2 DEF PortStreams, Stream, StreamOf
<1> QED
  BY <1>2, <1>3, <1>4, PortQuiet DEF PortInv

-----------------------------------------------------------------------------
(* One pump. *)

(* What is served is the next client in, or the one that was; what is      *)
(* buffered of it carries what it is owed.                                 *)
LEMMA ServedIs ==
  ASSUME PortTyped, PortStreams, Served # "none"
  PROVE  /\ Served \in Clients /\ Fresh \in Seq(Piece) /\ inbox[Served] \in Seq(Piece)
         /\ Carries(Fresh \o inbox[Served], owed[Served])
         /\ client # "none" => client = Served
<1>1. /\ client \in Clients \cup {"none"} /\ door \in Seq(Clients) /\ buf \in Seq(Piece)
      /\ inbox \in [Clients -> Seq(Piece)]
  BY DEF PortTyped
<1>2. "none" \notin Clients
  BY ControlAssumption
<1>3. CASE Accepts
  <2>1. client = "none" /\ door # <<>>
    BY <1>3 DEF Accepts
  <2>2. Served = Head(door) /\ Fresh = <<>>
    BY <1>3 DEF Served, Fresh
  <2>3. Served \in Clients
    BY <1>1, <2>1, <2>2
  <2>4. inbox[Served] \in Seq(Piece)
    BY <1>1, <2>3
  <2>5. Stream(Served) = inbox[Served]
    BY <1>2, <2>1, <2>3 DEF Stream, StreamOf
  <2>6. Fresh \o inbox[Served] = inbox[Served]
    BY <2>2, <2>4
  <2>7. Carries(inbox[Served], owed[Served])
    BY <2>3, <2>5 DEF PortStreams
  <2> QED
    BY <2>1, <2>2, <2>3, <2>4, <2>6, <2>7
<1>4. CASE ~Accepts
  <2>1. Served = client /\ Fresh = buf
    BY <1>4 DEF Served, Fresh
  <2>2. Served \in Clients
    BY <1>1, <2>1
  <2>3. inbox[Served] \in Seq(Piece)
    BY <1>1, <2>2
  <2>4. Stream(Served) = Fresh \o inbox[Served]
    BY <2>1 DEF Stream, StreamOf
  <2>5. Carries(Stream(Served), owed[Served])
    BY <2>2 DEF PortStreams
  <2> QED
    BY <1>1, <2>1, <2>2, <2>3, <2>4, <2>5
<1> QED
  BY <1>3, <1>4

(* What a pump does to what its client has on its way: o is what it is     *)
(* owed from now on.                                                       *)
PumpMoves(o) ==
  /\ Served # "none" /\ client' \in {"none", Served}
  /\ inbox' = [inbox EXCEPT ![Served] = <<>>] /\ owed' = [owed EXCEPT ![Served] = o]
  /\ buf' \in Seq(Piece)
  /\ client' = Served => Carries(buf', o)
  /\ client' # Served => Carries(<<>>, o)

(* What the other clients have on their way is as it was.                  *)
LEMMA PumpedStreams ==
  ASSUME PortTyped, PortStreams, NEW o, PumpMoves(o)
  PROVE  /\ PortStreams' /\ inbox' \in [Clients -> Seq(Piece)]
         /\ owed' \in [Clients -> Seq(Arguments)] /\ client' \in Clients \cup {"none"}
<1>0. /\ Served # "none" /\ client' \in {"none", Served}
      /\ inbox' = [inbox EXCEPT ![Served] = <<>>] /\ owed' = [owed EXCEPT ![Served] = o]
      /\ buf' \in Seq(Piece)
      /\ client' = Served => Carries(buf', o)
      /\ client' # Served => Carries(<<>>, o)
  BY DEF PumpMoves
<1>1. Served \in Clients /\ (client # "none" => client = Served)
  BY <1>0, ServedIs
<1>2. inbox \in [Clients -> Seq(Piece)] /\ owed \in [Clients -> Seq(Arguments)]
  BY DEF PortTyped
<1>3. o \in Seq(Arguments)
  BY <1>0 DEF Carries
<1>4. /\ inbox'[Served] = <<>> /\ owed'[Served] = o
      /\ \A d \in Clients : d # Served => inbox'[d] = inbox[d] /\ owed'[d] = owed[d]
  BY <1>0, <1>1, <1>2
<1>5. ASSUME NEW c \in Clients, c = Served PROVE Carries(Stream(c)', owed'[c])
  <2>1. CASE client' = Served
    <3>1. buf' \o <<>> = buf'
      BY <1>0
    <3>2. Stream(c)' = buf'
      BY <1>4, <1>5, <2>1, <3>1 DEF Stream, StreamOf
    <3> QED
      BY <1>0, <1>4, <1>5, <2>1, <3>2
  <2>2. CASE client' # Served
    <3>1. Stream(c)' = <<>>
      BY <1>4, <1>5, <2>2 DEF Stream, StreamOf
    <3> QED
      BY <1>0, <1>4, <1>5, <2>2, <3>1
  <2> QED
    BY <2>1, <2>2
<1>6. ASSUME NEW d \in Clients, d # Served PROVE Carries(Stream(d)', owed'[d])
  <2>1. "none" \notin Clients
    BY ControlAssumption
  <2>2. d # client /\ d # client'
    BY <1>0, <1>1, <1>6, <2>1
  <2>3. Stream(d)' = Stream(d)
    BY <1>4, <1>6, <2>2 DEF Stream, StreamOf
  <2> QED
    BY <1>4, <1>6, <2>3 DEF PortStreams
<1>7. PortStreams'
  BY <1>5, <1>6 DEF PortStreams
<1>8. <<>> \in Seq(Piece)
  OBVIOUS
<1>9. inbox' \in [Clients -> Seq(Piece)]
  BY <1>0, <1>2, <1>8
<1>10. owed' \in [Clients -> Seq(Arguments)]
  BY <1>0, <1>2, <1>3
<1> QED
  BY <1>0, <1>1, <1>7, <1>9, <1>10

(* What an answer of a granted command shows of the step.                  *)
LEMMA GrantedDoes ==
  ASSUME NEW cmd \in Arguments, Parts(cmd), NEW r, Granted(cmd, r),
         held' = r.held, sys' = r.sys, slots' = r.slots,
         answer' # <<>>, answer'.line = <<cmd>>, answer'.ok = r.ok
  PROVE  PortDoes
<1>1. \A other, ok : Answered(other, ok) <=> other = cmd /\ r.ok = ok
  <2>1. \A other : <<cmd>> = <<other>> <=> other = cmd
    OBVIOUS
  <2> QED
    BY <2>1 DEF Answered
<1>2. GivesButtonsBackStep
  <2>1. ASSUME held' # held
        PROVE  \E c \in Arguments :
                 c[1] \in {"input set", "input clear", "reset"} /\ Answered(c, TRUE)
    BY <1>1, <2>1 DEF Granted
  <2>2. ASSUME sys'.pads # sys.pads
        PROVE  sys'.pads = held'
               \/ \E s \in Slots : sys' \in slots[s] /\ Answered(<<"loadstate", s>>, TRUE)
    <3>1. CASE r.sys.pads = r.held
      BY <3>1
    <3>2. CASE r.ok = TRUE /\ cmd[1] = "loadstate" /\ r.sys \in slots[cmd[2]]
      <4>1. cmd[2] \in Slots /\ cmd = <<"loadstate", cmd[2]>>
        BY <3>2 DEF Parts
      <4>2. sys' \in slots[cmd[2]] /\ Answered(<<"loadstate", cmd[2]>>, TRUE)
        BY <1>1, <3>2, <4>1
      <4> QED
        BY <4>1, <4>2
    <3> QED
      BY <2>2, <3>1, <3>2 DEF Granted
  <2> QED
    BY <2>1, <2>2 DEF GivesButtonsBackStep
<1>3. DebuggerDrivesStep
  BY DEF Granted, DebuggerDrivesStep
<1>4. ErrorsChangeNothingStep
  <2>1. ASSUME NEW other \in Arguments, Answered(other, FALSE), other[1] \notin {"poke", "loadexe"}
        PROVE  UNCHANGED <<held, sys, slots>>
    <3>1. other = cmd /\ r.ok = FALSE
      BY <1>1, <2>1
    <3> QED
      BY <2>1, <3>1 DEF Granted
  <2> QED
    BY <2>1 DEF ErrorsChangeNothingStep
<1> QED
  BY <1>2, <1>3, <1>4 DEF PortDoes

LEMMA ExecutedStep ==
  ASSUME PortInv, Served # "none", inbox' = [inbox EXCEPT ![Served] = <<>>],
         door' \in Seq(Clients), UNCHANGED <<spent, owns>>,
         Executed(Fresh \o inbox[Served])
  PROVE  PortInv' /\ PortDoes
<1> DEFINE text == Fresh \o inbox[Served]
           o == owed[Served]
           nl == CHOOSE i \in 1..Len(text) : text[i] = NL /\ \A j \in 1..(i - 1) : text[j] # NL
           line == SubSeq(text, 1, nl - 1)
           rest == SubSeq(o, 2, Len(o))
<1>1. PortTyped /\ PortStreams
  BY DEF PortInv
<1>2. /\ Contains(text, NL)
      /\ buf' = SubSeq(text, nl + 1, Len(text))
      /\ client' = Served
      /\ \E r \in Execute(line) :
             /\ r.sys.time <= MaxTime
             /\ held' = r.held /\ sys' = r.sys /\ slots' = r.slots
             /\ answer' = [due |-> Due(Served), line |-> line, ok |-> r.ok]
             /\ owed' = [owed EXCEPT ![Served] = SubSeq(@, 2, Len(@))]
      /\ quit' = (line = <<<<"quit">>>>)
  BY DEF Executed
<1>3. Served \in Clients /\ Carries(text, o)
  BY <1>1, ServedIs
<1>4. \E i \in 1 .. Len(text) : text[i] = NL
  BY <1>2 DEF Contains
<1>5. /\ o \in Seq(Arguments) /\ Len(o) > 0 /\ o # <<>> /\ o[1] \in Arguments
      /\ nl = 2 /\ line = <<o[1]>>
      /\ Carries(SubSeq(text, nl + 1, Len(text)), rest)
  <2> HIDE DEF text, o
  <2>1. PICK j \in 1 .. Len(text) : text[j] = NL
    BY <1>4
  <2>2. /\ o \in Seq(Arguments) /\ Len(o) > 0 /\ o # <<>> /\ o[1] \in Arguments
        /\ 2 = nl
        /\ SubSeq(text, 1, 2 - 1) = <<o[1]>>
        /\ Carries(SubSeq(text, 2 + 1, Len(text)), rest)
    BY <1>3, <2>1, CarriesLine
  <2> HIDE DEF nl
  <2> QED
    BY <2>2
<1> HIDE DEF text, nl
<1> DEFINE left == SubSeq(text, nl + 1, Len(text))
           cmd == o[1]
<1>6. PICK r \in Execute(line) :
        /\ r.sys.time <= MaxTime
        /\ held' = r.held /\ sys' = r.sys /\ slots' = r.slots
        /\ answer' = [due |-> Due(Served), line |-> line, ok |-> r.ok]
        /\ owed' = [owed EXCEPT ![Served] = SubSeq(@, 2, Len(@))]
  BY <1>2
<1> HIDE DEF line
<1>7. owed' = [owed EXCEPT ![Served] = rest]
  BY <1>6
<1>8. Due(Served) = <<cmd>>
  BY <1>5 DEF Due
<1> HIDE DEF o, rest, left, cmd
<1>9. cmd \in Commands /\ cmd \in Arguments /\ line = <<cmd>>
  BY <1>5, ControlAssumption DEF cmd
<1>10. r \in Outcome(cmd)
  BY <1>6, <1>9 DEF Execute
<1>11. Granted(cmd, r)
  BY <1>1, <1>9, <1>10, OutcomeIsGranted DEF PortTyped
<1>12. PortStreams' /\ inbox' \in [Clients -> Seq(Piece)]
       /\ owed' \in [Clients -> Seq(Arguments)] /\ client' \in Clients \cup {"none"}
  <2>1. Carries(left, rest) /\ buf' = left
    BY <1>2, <1>5 DEF left
  <2>2. left \in Seq(Piece)
    BY <2>1 DEF Carries
  <2>3. PumpMoves(rest)
    BY <1>2, <1>7, <2>1, <2>2 DEF PumpMoves
  <2> QED
    BY <1>1, <2>3, PumpedStreams
<1>13. buf' \in Seq(Piece)
  BY <1>2, <1>5 DEF Carries, left
<1>14. held' \in Pads /\ sys' \in Machines /\ slots' \in Snapshots
  <2>1. r.sys \in Machines
    BY <1>6, <1>11, MachinesAt DEF Granted
  <2> QED
    BY <1>6, <1>11, <2>1 DEF Granted
<1>15. PortTyped'
  <2>1. quit' \in BOOLEAN /\ owns' \in BOOLEAN /\ spent' \in 0 .. MaxLines
    BY <1>1, <1>2 DEF PortTyped
  <2> QED
    BY <1>12, <1>13, <1>14, <2>1 DEF PortTyped
<1>16. answer' # <<>> /\ answer'.line = <<cmd>> /\ answer'.ok = r.ok /\ answer'.due = <<cmd>>
  BY <1>6, <1>8, <1>9
<1>17. PortDoes
  <2>1. Parts(cmd)
    BY <1>9, CommandParts
  <2> QED
    BY <1>6, <1>9, <1>11, <1>16, <2>1, GrantedDoes
<1> QED
  BY <1>12, <1>15, <1>16, <1>17 DEF PortInv, AnswersItsOwn

LEMMA PumpStep ==
  ASSUME PortInv, Pump
  PROVE  PortInv' /\ PortDoes
<1> DEFINE text == Fresh \o inbox[Served]
<1>1. PortTyped /\ PortStreams
  BY DEF PortInv
<1>2. Served # "none" /\ inbox' = [inbox EXCEPT ![Served] = <<>>] /\ UNCHANGED <<spent, owns>>
  BY DEF Pump
<1>3. door' \in Seq(Clients)
  BY <1>1 DEF Pump, Accepts, PortTyped
<1>4. Served \in Clients /\ Carries(text, owed[Served]) /\ text \in Seq(Piece)
  BY <1>1, <1>2, ServedIs
<1>5. "none" # Served
  BY <1>2
<1>6. CASE Dropped
  <2>1. /\ client' = "none" /\ buf' = text /\ owed' = [owed EXCEPT ![Served] = <<>>]
        /\ answer' = <<>> /\ UNCHANGED <<held, slots, sys, quit>>
    BY <1>6 DEF Dropped, Unanswered
  <2>2. Carries(<<>>, <<>>)
    BY DEF Carries
  <2> HIDE DEF text
  <2>3. PortStreams' /\ inbox' \in [Clients -> Seq(Piece)]
        /\ owed' \in [Clients -> Seq(Arguments)] /\ client' \in Clients \cup {"none"}
    <3>1. PumpMoves(<<>>)
      BY <1>2, <1>4, <1>5, <2>1, <2>2 DEF PumpMoves
    <3> QED
      BY <1>1, <3>1, PumpedStreams
  <2>4. PortTyped'
    BY <1>1, <1>2, <1>3, <1>4, <2>1, <2>3 DEF PortTyped
  <2> QED
    BY <2>1, <2>3, <2>4, PortQuiet DEF PortInv
<1>7. CASE Lacking(text)
  <2>1. /\ client' = Served /\ buf' = text
        /\ answer' = <<>> /\ UNCHANGED <<owed, held, slots, sys, quit>>
    BY <1>7 DEF Lacking, Unanswered
  <2> HIDE DEF text
  <2>2. owed' = [owed EXCEPT ![Served] = owed[Served]]
    BY <1>1, <2>1 DEF PortTyped
  <2>3. PortStreams' /\ inbox' \in [Clients -> Seq(Piece)]
        /\ owed' \in [Clients -> Seq(Arguments)] /\ client' \in Clients \cup {"none"}
    <3>1. PumpMoves(owed[Served])
      BY <1>2, <1>4, <2>1, <2>2 DEF PumpMoves
    <3> QED
      BY <1>1, <3>1, PumpedStreams
  <2>4. PortTyped'
    BY <1>1, <1>2, <1>3, <1>4, <2>1, <2>3 DEF PortTyped
  <2> QED
    BY <2>1, <2>3, <2>4, PortQuiet DEF PortInv
<1>8. CASE Executed(text)
  BY <1>2, <1>3, <1>8, ExecutedStep
<1> QED
  BY <1>6, <1>7, <1>8 DEF Pump

LEMMA PortInit == Init => PortInv
<1> SUFFICES ASSUME Init PROVE PortInv
  OBVIOUS
<1>1. /\ door = <<>> /\ inbox = [c \in Clients |-> <<>>] /\ owed = [c \in Clients |-> <<>>]
      /\ spent = 0 /\ client = "none" /\ buf = <<>> /\ answer = <<>> /\ held = {}
      /\ slots = [s \in Slots |-> {}] /\ sys = Boot /\ owns = FALSE /\ quit = FALSE
  BY DEF Init
<1>2. sys \in Machines
  BY <1>1, BootIs
<1>3. held \in Pads /\ slots \in Snapshots
  BY <1>1 DEF Pads, Snapshots
<1>4. spent \in 0 .. MaxLines
  BY <1>1, ControlAssumption
<1>5. /\ door \in Seq(Clients) /\ buf \in Seq(Piece)
      /\ inbox \in [Clients -> Seq(Piece)] /\ owed \in [Clients -> Seq(Arguments)]
  BY <1>1
<1>6. PortTyped
  BY <1>1, <1>2, <1>3, <1>4, <1>5 DEF PortTyped
<1>7. Carries(<<>>, <<>>)
  BY DEF Carries
<1>8. PortStreams
  <2>1. \A c \in Clients : Stream(c) = <<>> /\ owed[c] = <<>>
    BY <1>1 DEF Stream, StreamOf
  <2> QED
    BY <1>7, <2>1 DEF PortStreams
<1> QED
  BY <1>1, <1>6, <1>8 DEF PortInv, AnswersItsOwn

LEMMA PortShows == PortInv => TypeOK /\ AnswersItsOwn
<1> SUFFICES ASSUME PortInv PROVE TypeOK /\ AnswersItsOwn
  OBVIOUS
<1>1. \A s \in Slots : slots[s] \subseteq Machines
  BY DEF PortInv, PortTyped, Snapshots
<1> QED
  BY <1>1 DEF PortInv, PortTyped, TypeOK

(* The control port: each client is answered for its own commands, in the  *)
(* order it sent them, whatever an earlier one left in the buffer; held    *)
(* buttons are given back; under a debugger no command drives execution;   *)
(* an error has changed nothing (ControlServer::pump, execute).            *)
THEOREM CommandsAreKept == UnitsSpec => CommandsKept
<1> DEFINE Inv == unit = "control" => PortInv
           Kept == [unit = "control" =>
                     /\ GivesButtonsBackStep /\ DebuggerDrivesStep /\ ErrorsChangeNothingStep
                     /\ (TypeOK /\ AnswersItsOwn)']_controlVars
<1>1. UnitsInit => Inv
  BY PortInit DEF UnitsInit
<1>2. Inv /\ [UnitsNext]_unitsVars => Inv' /\ Kept
  <2> SUFFICES ASSUME Inv, [UnitsNext]_unitsVars PROVE Inv' /\ Kept
    OBVIOUS
  <2>1. CASE UNCHANGED <<unit, controlVars>>
    BY <2>1 DEF controlVars, vars, PortInv, PortTyped, PortStreams, Stream, StreamOf,
       AnswersItsOwn
  <2>2. CASE UnitsNext /\ unit = "control" /\ Next
    <3>1. unit' = unit /\ PortInv
      BY <2>2 DEF UnitsNext
    <3>2. PortInv' /\ PortDoes
      <4>1. CASE \E c \in Clients : Connect(c) \/ HangUp(c)
        BY <3>1, <4>1, IdleStep
      <4>2. CASE Attach
        BY <3>1, <4>2, IdleStep
      <4>3. CASE \E c \in Clients : SendText(c)
        BY <3>1, <4>3, SendTextStep
      <4>4. CASE \E c \in Clients : SendNewline(c)
        BY <3>1, <4>4, SendNewlineStep
      <4>5. CASE Pump
        BY <3>1, <4>5, PumpStep
      <4> QED
        BY <2>2, <4>1, <4>2, <4>3, <4>4, <4>5 DEF Next
    <3>3. (TypeOK /\ AnswersItsOwn)'
      BY <3>2, PortShows, PTL
    <3> QED
      BY <3>1, <3>2, <3>3 DEF PortDoes
  <2>3. CASE UnitsNext /\ unit # "control"
    BY <2>3 DEF UnitsNext
  <2> QED
    <3>1. UNCHANGED unitsVars => UNCHANGED <<unit, controlVars>>
      BY DEF unitsVars
    <3>2. UnitsNext /\ unit = "control" => Next \/ UNCHANGED <<unit, controlVars>>
      BY DEF UnitsNext
    <3> QED
      BY <2>1, <2>2, <2>3, <3>1, <3>2
<1> QED
  <2>1. [UnitsNext]_unitsVars <=> [UnitsNext]_<<
          unit, controlVars, cheatsVars, scanVars, ttyVars, packetsVars, cueVars>>
    BY DEF unitsVars
  <2> QED
    BY <1>1, <1>2, <2>1, PTL DEF UnitsSpec, CommandsKept
-----------------------------------------------------------------------------
(* Scan. *)

(* What has been taken of s after each of its places.                      *)
Taking(s, S, f) ==
  /\ f[0] = <<>>
  /\ \A n \in 1 .. Len(s) : f[n] = IF s[n] \in S THEN Append(f[n - 1], s[n]) ELSE f[n - 1]

LEMMA ThoseIs ==
  ASSUME NEW E, NEW s \in Seq(E), NEW S
  PROVE  \E f \in [0 .. Len(s) -> Seq(E)] : Taking(s, S, f) /\ Search!Those(s, S) = f[Len(s)]
<1> DEFINE N == Len(s)
           D == Seq(E)
           z == <<>>
           G == [n \in 1 .. N |-> [t \in D |-> IF s[n] \in S THEN Append(t, s[n]) ELSE t]]
           Is(g) == g = [n \in 0 .. N |-> IF n = 0 THEN <<>>
                                          ELSE IF s[n] \in S THEN Append(g[n - 1], s[n])
                                          ELSE g[n - 1]]
           f == CHOOSE g : Is(g)
<1>1. N \in Nat /\ z \in D
  OBVIOUS
<1>2. G \in [1 .. N -> [D -> D]]
  <2>1. ASSUME NEW n \in 1 .. N, NEW t \in D
        PROVE  (IF s[n] \in S THEN Append(t, s[n]) ELSE t) \in D
    OBVIOUS
  <2> HIDE DEF N, D
  <2> QED
    BY <2>1
<1>3. PICK g \in [0 .. N -> D] : g[0] = z /\ \A n \in 1 .. N : g[n] = G[n][g[n - 1]]
  <2> HIDE DEF N, D, G, z
  <2>1. Courses(N, D, z, G) # {}
    BY <1>1, <1>2, UptoRecursion
  <2> QED
    BY <2>1 DEF Courses
<1>4. ASSUME NEW n \in 1 .. N
      PROVE  g[n] = IF s[n] \in S THEN Append(g[n - 1], s[n]) ELSE g[n - 1]
  <2>1. n - 1 \in 0 .. N
    OBVIOUS
  <2>2. g[n - 1] \in D /\ g[n] = G[n][g[n - 1]]
    BY <1>3, <2>1
  <2> HIDE DEF D, N
  <2> QED
    BY <2>2
<1>5. Is(g)
  <2>1. ASSUME NEW n \in 0 .. N
        PROVE  g[n] = IF n = 0 THEN <<>>
                      ELSE IF s[n] \in S THEN Append(g[n - 1], s[n]) ELSE g[n - 1]
    <3>1. n # 0 => n \in 1 .. N
      OBVIOUS
    <3> QED
      BY <1>3, <1>4, <3>1
  <2> HIDE DEF N, D
  <2>2. g = [n \in 0 .. N |-> g[n]]
    BY <1>3
  <2> QED
    BY <2>1, <2>2
<1>6. Is(f)
  <2> HIDE DEF Is
  <2> QED
    BY <1>5
<1>7. Search!Those(s, S) = f[N]
  BY DEF Search!Those
<1> HIDE DEF f
<1>8. Taking(s, S, f)
  <2>1. f[0] = z
    BY <1>1, <1>6
  <2>2. ASSUME NEW n \in 1 .. N
        PROVE  f[n] = IF s[n] \in S THEN Append(f[n - 1], s[n]) ELSE f[n - 1]
    <3>1. n \in 0 .. N /\ n # 0
      OBVIOUS
    <3> QED
      BY <1>6, <3>1
  <2> QED
    BY <2>1, <2>2 DEF Taking
<1>9. f \in [0 .. N -> D]
  <2> DEFINE T == {m \in 0 .. N : f[m] \in D}
  <2>1. 0 \in T
    <3>1. f[0] = z
      BY <1>8 DEF Taking
    <3>2. 0 \in 0 .. N /\ f[0] \in D
      BY <1>1, <3>1
    <3> HIDE DEF N, D
    <3> QED
      BY <3>2
  <2>2. ASSUME NEW m \in 0 .. N, m < N, m \in T PROVE m + 1 \in T
    <3>1. m + 1 \in 1 .. N /\ (m + 1) - 1 = m /\ f[m] \in D
      BY <2>2
    <3>2. f[m + 1] = IF s[m + 1] \in S THEN Append(f[m], s[m + 1]) ELSE f[m]
      BY <1>8, <3>1 DEF Taking
    <3>3. f[m + 1] \in D /\ m + 1 \in 0 .. N
      BY <3>1, <3>2
    <3> QED
      BY <3>3
  <2> HIDE DEF T
  <2>3. 0 .. N \subseteq T
    BY <1>1, <2>1, <2>2, UptoInduction
  <2>4. \A m \in 0 .. N : f[m] \in D
    BY <2>3 DEF T
  <2>5. f = [m \in 0 .. N |-> f[m]]
    <3>1. DOMAIN f = 0 .. N /\ f = [m \in DOMAIN f |-> f[m]]
      BY <1>6
    <3> QED
      BY <3>1
  <2> HIDE DEF D, N
  <2> QED
    BY <2>4, <2>5
<1> QED
  BY <1>7, <1>8, <1>9

(* Only that way can it be taken, and only the elements' membership counts.*)
LEMMA TakenAre ==
  ASSUME NEW E, NEW s \in Seq(E), NEW A, NEW B, NEW f, Taking(s, A, f),
         \A n \in 1 .. Len(s) : s[n] \in A <=> s[n] \in B
  PROVE  f[Len(s)] = Search!Those(s, B)
<1>1. PICK g \in [0 .. Len(s) -> Seq(E)] : Taking(s, B, g) /\ Search!Those(s, B) = g[Len(s)]
  BY ThoseIs
<1> DEFINE N == Len(s)
           T == {m \in 0 .. N : f[m] = g[m]}
<1>2. N \in Nat
  OBVIOUS
<1>3. 0 \in T
  BY <1>1 DEF Taking
<1>4. ASSUME NEW m \in 0 .. N, m < N, m \in T PROVE m + 1 \in T
  <2>1. m + 1 \in 1 .. N /\ (m + 1) - 1 = m /\ f[m] = g[m]
    BY <1>4
  <2>2. /\ f[m + 1] = IF s[m + 1] \in A THEN Append(f[m], s[m + 1]) ELSE f[m]
        /\ g[m + 1] = IF s[m + 1] \in B THEN Append(g[m], s[m + 1]) ELSE g[m]
    BY <1>1, <2>1 DEF Taking
  <2>3. f[m + 1] = g[m + 1] /\ m + 1 \in 0 .. N
    BY <2>1, <2>2
  <2> QED
    BY <2>3
<1> HIDE DEF T
<1>5. 0 .. N \subseteq T
  BY <1>2, <1>3, <1>4, UptoInduction
<1>6. N \in T
  BY <1>2, <1>5
<1> QED
  BY <1>1, <1>6 DEF T

LEMMA ThoseAgree ==
  ASSUME NEW E, NEW s \in Seq(E), NEW A, NEW B, \A n \in 1 .. Len(s) : s[n] \in A <=> s[n] \in B
  PROVE  Search!Those(s, A) = Search!Those(s, B)
<1>1. PICK f \in [0 .. Len(s) -> Seq(E)] : Taking(s, A, f) /\ Search!Those(s, A) = f[Len(s)]
  BY ThoseIs
<1> QED
  BY <1>1, TakenAre

LEMMA ThoseAppend ==
  ASSUME NEW E, NEW t \in Seq(E), NEW x \in E, NEW S
  PROVE  Search!Those(Append(t, x), S) =
           IF x \in S THEN Append(Search!Those(t, S), x) ELSE Search!Those(t, S)
<1> DEFINE s == Append(t, x)
           N == Len(t)
<1>1. /\ s \in Seq(E) /\ Len(s) = N + 1 /\ N \in Nat /\ s[N + 1] = x
      /\ \A n \in 1 .. N : s[n] = t[n]
  OBVIOUS
<1> HIDE DEF s
<1>2. PICK f \in [0 .. Len(s) -> Seq(E)] : Taking(s, S, f) /\ Search!Those(s, S) = f[Len(s)]
  BY <1>1, ThoseIs
<1>3. Taking(t, S, f)
  BY <1>1, <1>2 DEF Taking
<1>4. f[N] = Search!Those(t, S)
  BY <1>3, TakenAre
<1>5. f[N + 1] = IF x \in S THEN Append(f[N], x) ELSE f[N]
  <2>1. N + 1 \in 1 .. Len(s) /\ (N + 1) - 1 = N
    BY <1>1
  <2> QED
    BY <1>1, <1>2, <2>1 DEF Taking
<1> QED
  BY <1>1, <1>2, <1>4, <1>5 DEF s

LEMMA ThoseOfNone == \A S : Search!Those(<<>>, S) = <<>>
<1> SUFFICES ASSUME NEW S PROVE Search!Those(<<>>, S) = <<>>
  OBVIOUS
<1> DEFINE s == <<>>
<1>1. s \in Seq(Nat) /\ Len(s) = 0
  OBVIOUS
<1> HIDE DEF s
<1>2. PICK f \in [0 .. Len(s) -> Seq(Nat)] : Taking(s, S, f) /\ Search!Those(s, S) = f[Len(s)]
  BY <1>1, ThoseIs
<1>3. Search!Those(s, S) = <<>>
  BY <1>1, <1>2 DEF Taking
<1> QED
  BY <1>3 DEF s

(* Taken once and again is taken for both reasons at once; no more is      *)
(* taken than there is.                                                    *)
LEMMA ThoseTwice ==
  ASSUME NEW E, NEW s \in Seq(E), NEW A, NEW B
  PROVE  /\ Search!Those(Search!Those(s, A), B) = Search!Those(s, A \cap B)
         /\ Search!Those(s, A) \in Seq(E)
         /\ Len(Search!Those(s, A)) <= Len(s)
<1> DEFINE N == Len(s)
<1>1. PICK f \in [0 .. N -> Seq(E)] : Taking(s, A, f) /\ Search!Those(s, A) = f[N]
  BY ThoseIs
<1>2. PICK g \in [0 .. N -> Seq(E)] : Taking(s, A \cap B, g) /\ Search!Those(s, A \cap B) = g[N]
  BY ThoseIs
<1> DEFINE T == {m \in 0 .. N : Search!Those(f[m], B) = g[m] /\ Len(f[m]) <= m}
<1>3. N \in Nat
  OBVIOUS
<1>4. 0 \in T
  BY <1>1, <1>2, ThoseOfNone DEF Taking
<1>5. ASSUME NEW m \in 0 .. N, m < N, m \in T PROVE m + 1 \in T
  <2> DEFINE x == s[m + 1]
             t == f[m]
  <2>1. /\ m + 1 \in 1 .. N /\ (m + 1) - 1 = m /\ x \in E /\ t \in Seq(E)
        /\ Search!Those(t, B) = g[m] /\ Len(t) <= m
    BY <1>5
  <2>2. /\ f[m + 1] = IF x \in A THEN Append(t, x) ELSE t
        /\ g[m + 1] = IF x \in A \cap B THEN Append(g[m], x) ELSE g[m]
    BY <1>1, <1>2, <2>1 DEF Taking
  <2>3. Len(Append(t, x)) = Len(t) + 1 /\ Len(t) \in Nat /\ m \in Nat
    BY <2>1
  <2> HIDE DEF x, t
  <2>4. Search!Those(Append(t, x), B) = IF x \in B THEN Append(g[m], x) ELSE g[m]
    BY <2>1, ThoseAppend
  <2>5. Search!Those(f[m + 1], B) = g[m + 1]
    BY <2>1, <2>2, <2>4
  <2>6. Len(f[m + 1]) <= m + 1
    BY <2>1, <2>2, <2>3
  <2> QED
    BY <2>1, <2>5, <2>6
<1> HIDE DEF T
<1>6. 0 .. N \subseteq T
  BY <1>3, <1>4, <1>5, UptoInduction
<1>7. N \in T /\ f[N] \in Seq(E)
  BY <1>1, <1>3, <1>6
<1> QED
  BY <1>1, <1>2, <1>7 DEF T

(* All are taken when all are asked for.                                   *)
LEMMA ThoseAll ==
  ASSUME NEW E, NEW s \in Seq(E), NEW S, \A n \in 1 .. Len(s) : s[n] \in S
  PROVE  Search!Those(s, S) = s
<1> DEFINE N == Len(s)
<1>1. PICK f \in [0 .. N -> Seq(E)] : Taking(s, S, f) /\ Search!Those(s, S) = f[N]
  BY ThoseIs
<1> DEFINE T == {m \in 0 .. N : Len(f[m]) = m /\ \A n \in 1 .. m : f[m][n] = s[n]}
<1>2. N \in Nat
  OBVIOUS
<1>3. 0 \in T
  BY <1>1 DEF Taking
<1>4. ASSUME NEW m \in 0 .. N, m < N, m \in T PROVE m + 1 \in T
  <2> DEFINE x == s[m + 1]
             t == f[m]
  <2>1. /\ m + 1 \in 1 .. N /\ (m + 1) - 1 = m /\ x \in E /\ t \in Seq(E) /\ m \in Nat
        /\ Len(t) = m /\ \A n \in 1 .. m : t[n] = s[n]
    BY <1>4
  <2>2. f[m + 1] = Append(t, x)
    BY <1>1, <2>1 DEF Taking
  <2>3. /\ Len(Append(t, x)) = m + 1 /\ Append(t, x)[m + 1] = x
        /\ \A n \in 1 .. m : Append(t, x)[n] = t[n]
    BY <2>1
  <2>4. \A n \in 1 .. m + 1 : Append(t, x)[n] = s[n]
    <3>1. \A n \in 1 .. m + 1 : n \in 1 .. m \/ n = m + 1
      BY <2>1
    <3> QED
      BY <2>1, <2>3, <3>1
  <2> HIDE DEF x, t
  <2>5. /\ m + 1 \in 0 .. N /\ Len(f[m + 1]) = m + 1
        /\ \A n \in 1 .. m + 1 : f[m + 1][n] = s[n]
    BY <2>1, <2>2, <2>3, <2>4
  <2> QED
    BY <2>5
<1> HIDE DEF T
<1>5. 0 .. N \subseteq T
  BY <1>2, <1>3, <1>4, UptoInduction
<1>6. N \in T /\ f[N] \in Seq(E)
  BY <1>1, <1>2, <1>5
<1>7. Len(f[N]) = N /\ \A n \in 1 .. N : f[N][n] = s[n]
  BY <1>6 DEF T
<1> DEFINE r == f[N]
<1>8. r \in Seq(E) /\ Len(r) = Len(s) /\ \A n \in 1 .. Len(s) : r[n] = s[n]
  BY <1>6, <1>7
<1> HIDE DEF r
<1>9. r = s
  BY <1>8, SeqEqual
<1> QED
  BY <1>1, <1>9 DEF r

LEMMA ThoseIn ==
  ASSUME NEW E, NEW s \in Seq(E), NEW A
  PROVE  Search!Those(s, A) \in Seq(E) /\ Len(Search!Those(s, A)) <= Len(s)
<1>1. \A B : Search!Those(s, A) \in Seq(E) /\ Len(Search!Those(s, A)) <= Len(s)
  BY ThoseTwice
<1> QED
  BY <1>1

(* What one pass keeps, and what every one of them has kept: f of each     *)
(* pass is what it asked for, ram what it saw.                             *)
Bytes == [Search!Addresses -> 0 .. ScanBase - 1]
PassOf == [filter : Search!Filters, ram : Bytes]
Kept(ps, w, n, a) ==
  LET f == ps[n].filter
      now == Search!Value(ps[n].ram, a, w)
  IN CASE f.op = "unknown" -> TRUE
       [] f.op = "exact" -> now = f.value % (Search!Most(w) + 1)
       [] OTHER -> n > 1 => Search!Compare(f.op, now, Search!Value(ps[n - 1].ram, a, w))
Survivors(ps, w) ==
  Search!Those(Search!Aligned(w),
               {a \in Search!ToSet(Search!Aligned(w)) : \A n \in DOMAIN ps : Kept(ps, w, n, a)})

(* The invariant of the scanner.                                           *)
ScanInv ==
  /\ scanRam \in Bytes
  /\ scanScan # Search!NoScan =>
       /\ scanScan.width \in ScanWidths
       /\ scanPasses \in Seq(PassOf) /\ Len(scanPasses) > 0
       /\ scanScan = [width |-> scanScan.width,
                      candidates |-> Survivors(scanPasses, scanScan.width),
                      snapshot |-> scanPasses[Len(scanPasses)].ram]

LEMMA AlignedIs ==
  ASSUME NEW w
  PROVE  /\ Search!Aligned(w) \in Seq(Search!Addresses) /\ Len(Search!Aligned(w)) <= ScanSize
<1> DEFINE s == [n \in 1 .. ScanSize |-> n - 1]
           A == {a \in Search!Addresses : a % w = 0}
<1>1. s \in Seq(Search!Addresses) /\ Len(s) = ScanSize
  <2>1. \A n \in 1 .. ScanSize : n - 1 \in Search!Addresses
    BY ScanAssumption DEF Search!Addresses
  <2>2. ScanSize \in Nat
    BY ScanAssumption
  <2> QED
    BY <2>1, <2>2
<1>2. Search!Aligned(w) = Search!Those(s, A)
  BY DEF Search!Aligned
<1> HIDE DEF s, A
<1>3. Search!Those(s, A) \in Seq(Search!Addresses) /\ Len(Search!Those(s, A)) <= Len(s)
  BY <1>1, ThoseIn
<1> QED
  BY <1>1, <1>2, <1>3

(* One pass more keeps, of what survived the others, what it keeps itself. *)
LEMMA OnePassMore ==
  ASSUME NEW ps \in Seq(PassOf), NEW p \in PassOf, NEW w, NEW L,
         \A a \in Search!ToSet(Survivors(ps, w)) :
           a \in L <=> Kept(Append(ps, p), w, Len(ps) + 1, a)
  PROVE  Search!Those(Survivors(ps, w), L) = Survivors(Append(ps, p), w)
<1> DEFINE qs == Append(ps, p)
           s == Search!Aligned(w)
           C == Search!ToSet(s)
           A == {a \in C : \A n \in DOMAIN ps : Kept(ps, w, n, a)}
           B == {a \in C : \A n \in DOMAIN qs : Kept(qs, w, n, a)}
           t == Search!Those(s, A)
           K == {a \in C : Kept(qs, w, Len(ps) + 1, a)}
<1>1. s \in Seq(Search!Addresses)
  BY AlignedIs
<1>2. C \subseteq Search!Addresses /\ s \in Seq(C)
  <2> HIDE DEF s
  <2> QED
    BY <1>1 DEF Search!ToSet
<1>3. t \in Seq(C) /\ Search!Those(t, K) = Search!Those(s, A \cap K)
  <2> HIDE DEF s, C, A, K
  <2> QED
    BY <1>2, ThoseTwice
<1>4. Search!Those(t, L) = Search!Those(t, K)
  <2>0. \A a \in Search!ToSet(t) : a \in L <=> Kept(qs, w, Len(ps) + 1, a)
    BY DEF Survivors
  <2> HIDE DEF t, C, qs
  <2>1. \A n \in 1 .. Len(t) : t[n] \in C /\ t[n] \in Search!ToSet(t)
    BY <1>3 DEF Search!ToSet
  <2>2. \A n \in 1 .. Len(t) : t[n] \in L <=> t[n] \in K
    BY <2>0, <2>1
  <2> HIDE DEF K
  <2> QED
    BY <1>3, <2>2, ThoseAgree
<1>5. \A n \in DOMAIN ps : \A a : Kept(ps, w, n, a) <=> Kept(qs, w, n, a)
  <2> SUFFICES ASSUME NEW n \in DOMAIN ps, NEW a PROVE Kept(ps, w, n, a) <=> Kept(qs, w, n, a)
    OBVIOUS
  <2>1. n \in 1 .. Len(ps) /\ qs[n] = ps[n] /\ (n > 1 => qs[n - 1] = ps[n - 1])
    OBVIOUS
  <2> HIDE DEF qs
  <2> QED
    BY <2>1 DEF Kept
<1>6. DOMAIN ps = 1 .. Len(ps) /\ DOMAIN qs = 1 .. Len(ps) + 1 /\ Len(ps) \in Nat
  OBVIOUS
<1> HIDE DEF qs
<1>7. A \cap K = B
  <2>1. ASSUME NEW a \in C
        PROVE  (\A n \in DOMAIN ps : Kept(ps, w, n, a)) /\ a \in K
               <=> \A n \in DOMAIN qs : Kept(qs, w, n, a)
    <3>1. a \in K <=> Kept(qs, w, Len(ps) + 1, a)
      OBVIOUS
    <3>2. DOMAIN qs = DOMAIN ps \cup {Len(ps) + 1}
      BY <1>6
    <3> QED
      BY <1>5, <3>1, <3>2
  <2> HIDE DEF C
  <2> QED
    BY <2>1
<1> HIDE DEF A, B
<1>8. Search!Those(t, L) = Search!Those(s, B)
  BY <1>3, <1>4, <1>7
<1> QED
  BY <1>8 DEF t, s, A, B, C, qs, Survivors

(* A pass keeps what it says: the snapshot it compares with is what the    *)
(* last pass saw, and the first has none.                                  *)
LEMMA KeepsIsKept ==
  ASSUME NEW ps \in Seq(PassOf), NEW f \in Search!Filters, scanRam \in Bytes, NEW s,
         s.snapshot = IF ps = <<>> THEN <<>> ELSE ps[Len(ps)].ram,
         NEW a \in Search!Addresses
  PROVE  Search!Keeps(s, f, a)
           <=> Kept(Append(ps, [filter |-> f, ram |-> scanRam]), s.width, Len(ps) + 1, a)
<1> DEFINE p == [filter |-> f, ram |-> scanRam]
           qs == Append(ps, p)
           m == Len(ps) + 1
<1>1. /\ Len(ps) \in Nat /\ qs[m] = p /\ p.filter = f /\ p.ram = scanRam
      /\ m > 1 <=> ps # <<>>
      /\ m > 1 => qs[m - 1] = ps[Len(ps)] /\ Len(ps) \in 1 .. Len(ps)
  OBVIOUS
<1>2. ps # <<>> => s.snapshot # <<>> /\ s.snapshot = qs[m - 1].ram
  <2> SUFFICES ASSUME ps # <<>> PROVE s.snapshot # <<>> /\ s.snapshot = qs[m - 1].ram
    OBVIOUS
  <2>1. s.snapshot = ps[Len(ps)].ram /\ ps[Len(ps)] \in PassOf
    BY <1>1
  <2>2. s.snapshot \in [Search!Addresses -> 0 .. ScanBase - 1]
    BY <2>1 DEF PassOf, Bytes
  <2>3. DOMAIN (s.snapshot) # DOMAIN (<<>>)
    BY <2>2
  <2> HIDE DEF qs, m
  <2> QED
    BY <1>1, <2>1, <2>3
<1> HIDE DEF p, qs, m
<1>3. Search!Keeps(s, f, a) <=> Kept(qs, s.width, m, a)
  <2>1. CASE f.op = "unknown"
    BY <1>1, <2>1 DEF Search!Keeps, Kept
  <2>2. CASE f.op = "exact"
    BY <1>1, <2>2 DEF Search!Keeps, Kept
  <2>3. CASE f.op # "unknown" /\ f.op # "exact" /\ ps = <<>>
    BY <1>1, <2>3 DEF Search!Keeps, Kept
  <2>4. CASE f.op # "unknown" /\ f.op # "exact" /\ ps # <<>>
    BY <1>1, <1>2, <2>4 DEF Search!Keeps, Kept
  <2> QED
    BY <2>1, <2>2, <2>3, <2>4
<1> QED
  BY <1>3 DEF p, qs, m

LEMMA PassStep ==
  ASSUME ScanInv, NEW w \in ScanWidths, NEW f \in Search!Filters, NEW restart \in BOOLEAN,
         Search!Pass(w, f, restart)
  PROVE  ScanInv'
<1> DEFINE going == Search!Continues(w, restart)
           s == IF going THEN scanScan
                ELSE [width |-> w, candidates |-> Search!Aligned(w), snapshot |-> <<>>]
           ps == IF going THEN scanPasses ELSE <<>>
           p == [filter |-> f, ram |-> scanRam]
<1>1. /\ scanScan' = [s EXCEPT !.candidates =
                        Search!Those(@, {a \in Search!ToSet(@) : Search!Keeps(s, f, a)}),
                      !.snapshot = scanRam]
      /\ scanPasses' = Append(ps, p) /\ scanRam' = scanRam
  BY DEF Search!Pass
<1>2. scanRam \in Bytes /\ p \in PassOf
  BY DEF ScanInv, PassOf
<1>3. /\ ps \in Seq(PassOf)
      /\ s = [width |-> w, candidates |-> Survivors(ps, w),
              snapshot |-> IF ps = <<>> THEN <<>> ELSE ps[Len(ps)].ram]
  <2>1. CASE going
    <3>1. scanScan # Search!NoScan /\ scanScan.width = w
      BY <2>1 DEF Search!Continues
    <3>2. scanPasses \in Seq(PassOf) /\ scanPasses # <<>>
      BY <3>1 DEF ScanInv
    <3>3. scanScan = [width |-> w, candidates |-> Survivors(scanPasses, w),
                      snapshot |-> scanPasses[Len(scanPasses)].ram]
      BY <3>1 DEF ScanInv
    <3> QED
      BY <2>1, <3>2, <3>3
  <2>2. CASE ~going
    <3>1. Survivors(<<>>, w) = Search!Aligned(w)
      <4> DEFINE c == Search!Aligned(w)
                 none == <<>>
                 A == {a \in Search!ToSet(c) : \A n \in DOMAIN none : Kept(none, w, n, a)}
      <4>1. c \in Seq(Search!Addresses)
        BY AlignedIs
      <4>2. A = Search!ToSet(c)
        OBVIOUS
      <4> HIDE DEF c
      <4>3. \A n \in 1 .. Len(c) : c[n] \in Search!ToSet(c)
        BY <4>1 DEF Search!ToSet
      <4>4. Search!Those(c, Search!ToSet(c)) = c
        BY <4>1, <4>3, ThoseAll
      <4> QED
        BY <4>2, <4>4 DEF Survivors, c
    <3> QED
      BY <2>2, <3>1
  <2> QED
    BY <2>1, <2>2
<1> HIDE DEF going, s, ps, p
<1>4. \A a \in Search!Addresses : Search!Keeps(s, f, a) <=> Kept(Append(ps, p), w, Len(ps) + 1, a)
  <2>1. s.width = w /\ s.snapshot = IF ps = <<>> THEN <<>> ELSE ps[Len(ps)].ram
    BY <1>3
  <2> QED
    BY <1>2, <1>3, <2>1, KeepsIsKept DEF p
<1> DEFINE c == Survivors(ps, w)
           L == {a \in Search!ToSet(c) : Search!Keeps(s, f, a)}
<1>5. Search!ToSet(c) \subseteq Search!Addresses
  <2>1. c \in Seq(Search!Addresses)
    BY AlignedIs, ThoseIn DEF Survivors
  <2> HIDE DEF c
  <2> QED
    BY <2>1 DEF Search!ToSet
<1>6. Search!Those(c, L) = Survivors(Append(ps, p), w)
  <2>1. \A a \in Search!ToSet(c) : a \in L <=> Kept(Append(ps, p), w, Len(ps) + 1, a)
    BY <1>4, <1>5
  <2>2. ps \in Seq(PassOf) /\ p \in PassOf
    BY <1>2, <1>3
  <2> HIDE DEF L
  <2> QED
    BY ONLY <2>1, <2>2, OnePassMore
<1>7. s.candidates = c /\ s.width = w
  BY <1>3
<1> HIDE DEF c
<1>8. Search!Those(c, {a \in Search!ToSet(c) : Search!Keeps(s, f, a)}) = Survivors(Append(ps, p), w)
  BY <1>6
<1>9. scanScan' = [width |-> w, candidates |-> Survivors(Append(ps, p), w), snapshot |-> scanRam]
  <2>1. scanScan' = [width |-> w, snapshot |-> scanRam, candidates |->
           Search!Those(c, {a \in Search!ToSet(c) : Search!Keeps(s, f, a)})]
    BY <1>1, <1>3, <1>7
  <2> QED
    BY <1>8, <2>1
<1> DEFINE qs == Append(ps, p)
<1>10. qs \in Seq(PassOf) /\ Len(qs) > 0 /\ qs[Len(qs)].ram = scanRam
  BY <1>2, <1>3 DEF p
<1> HIDE DEF qs
<1>11. scanScan'.width = w /\ scanPasses' = qs
  <2>1. scanPasses' = qs
    BY <1>1 DEF qs
  <2>2. scanScan'.width = w
    BY <1>9
  <2> QED
    BY <2>1, <2>2
<1> QED
  BY <1>1, <1>2, <1>9, <1>10, <1>11 DEF ScanInv, Bytes, qs

LEMMA ScanStep ==
  ASSUME ScanInv, Search!Next
  PROVE  ScanInv'
<1>1. ASSUME NEW w \in ScanWidths, Search!Start(w) PROVE ScanInv'
  BY <1>1, PassStep DEF Search!Start
<1>2. ASSUME NEW w \in ScanWidths, Search!Ask(w) PROVE ScanInv'
  BY <1>2, PassStep DEF Search!Ask
<1>3. ASSUME Search!Filter PROVE ScanInv'
  <2>1. scanScan.width \in ScanWidths
    BY <1>3 DEF Search!Filter, ScanInv
  <2> QED
    BY <1>3, <2>1, PassStep DEF Search!Filter
<1>4. ASSUME Search!Clear PROVE ScanInv'
  BY <1>4 DEF Search!Clear, ScanInv
<1>5. ASSUME Search!GameWrites PROVE ScanInv'
  BY <1>5 DEF Search!GameWrites, ScanInv, Bytes
<1> QED
  BY <1>1, <1>2, <1>3, <1>4, <1>5 DEF Search!Next

LEMMA ScanShows == ScanInv => Search!TypeOK /\ Search!ListsSurvivors
<1> SUFFICES ASSUME ScanInv PROVE Search!TypeOK /\ Search!ListsSurvivors
  OBVIOUS
<1>1. CASE scanScan = Search!NoScan
  BY <1>1 DEF ScanInv, Bytes, Search!TypeOK, Search!ListsSurvivors
<1>2. CASE scanScan # Search!NoScan
  <2> DEFINE w == scanScan.width
             c == Survivors(scanPasses, w)
  <2>1. /\ w \in ScanWidths /\ scanScan.candidates = c
        /\ scanScan.snapshot = scanPasses[Len(scanPasses)].ram
    BY <1>2 DEF ScanInv
  <2>2. Len(c) <= ScanSize
    <3>1. /\ Search!Aligned(w) \in Seq(Search!Addresses) /\ Len(Search!Aligned(w)) <= ScanSize
      BY AlignedIs
    <3>2. c \in Seq(Search!Addresses) /\ Len(c) <= Len(Search!Aligned(w))
      BY <3>1, ThoseIn DEF Survivors
    <3>3. Len(c) \in Nat /\ Len(Search!Aligned(w)) \in Nat /\ ScanSize \in Nat
      BY <3>1, <3>2, ScanAssumption
    <3> HIDE DEF c
    <3> QED
      BY <3>1, <3>2, <3>3
  <2>3. Search!TypeOK
    BY <2>1, <2>2 DEF ScanInv, Bytes, Search!TypeOK
  <2>4. \A n, a : Search!Survived(n, a) <=> Kept(scanPasses, w, n, a)
    BY DEF Search!Survived, Kept
  <2> DEFINE s == Search!Aligned(w)
             A == {a \in Search!ToSet(s) : \A n \in DOMAIN scanPasses : Search!Survived(n, a)}
  <2>5. Search!Those(s, A) = c
    BY <2>4 DEF Survivors
  <2> HIDE DEF c
  <2>6. Search!ListsSurvivors
    BY <2>1, <2>5 DEF Search!ListsSurvivors, Search!Listed
  <2> QED
    BY <2>3, <2>6
<1> QED
  BY <1>1, <1>2

(* The scanner: what is listed is every aligned address that survived each *)
(* pass since the scan began, with the value the last pass saw (Scan::pass,*)
(* Scan::list).                                                            *)
THEOREM SurvivorsAreListed == UnitsSpec => []ListsSurvivors
<1> DEFINE Inv == unit = "scan" => ScanInv
<1>1. UnitsInit => Inv
  <2>1. Search!Init => ScanInv
    <3>1. 0 \in 0 .. ScanBase - 1
      BY ScanAssumption
    <3> QED
      BY <3>1 DEF Search!Init, ScanInv, Bytes
  <2> QED
    BY <2>1 DEF UnitsInit
<1>2. Inv /\ [UnitsNext]_unitsVars => Inv'
  <2> SUFFICES ASSUME Inv, [UnitsNext]_unitsVars PROVE Inv'
    OBVIOUS
  <2>1. CASE UNCHANGED <<unit, scanVars>>
    BY <2>1 DEF scanVars, ScanInv
  <2>2. CASE UnitsNext /\ unit = "scan"
    BY <2>2, ScanStep DEF UnitsNext
  <2>3. CASE UnitsNext /\ unit # "scan"
    BY <2>3 DEF UnitsNext
  <2>4. UNCHANGED unitsVars => UNCHANGED <<unit, scanVars>>
    BY DEF unitsVars
  <2> QED
    BY <2>1, <2>2, <2>3, <2>4
<1>3. Inv => ListsSurvivors
  BY ScanShows DEF ListsSurvivors
<1> QED
  <2>1. [UnitsNext]_unitsVars <=> [UnitsNext]_<<
          unit, controlVars, cheatsVars, scanVars, ttyVars, packetsVars, cueVars>>
    BY DEF unitsVars
  <2> QED
    BY <1>1, <1>2, <1>3, <2>1, PTL DEF UnitsSpec
-----------------------------------------------------------------------------
(* CueSheet. *)

(* Two sequences, one behind the other.                                    *)
LEMMA JoinedIs ==
  ASSUME NEW S, NEW a \in Seq(S), NEW b \in Seq(S), NEW m, NEW n, m = Len(a), n = Len(b)
  PROVE  /\ a \o b \in Seq(S) /\ Len(a \o b) = m + n /\ m \in Nat /\ n \in Nat
         /\ \A i \in 1 .. m : (a \o b)[i] = a[i]
         /\ \A i \in 1 .. n : (a \o b)[m + i] = b[i]
<1>1. a \o b \in Seq(S) /\ Len(a \o b) = m + n /\ m \in Nat /\ n \in Nat
  OBVIOUS
<1>2. \A i \in 1 .. m : (a \o b)[i] = a[i]
  OBVIOUS
<1>3. ASSUME NEW i \in 1 .. n PROVE (a \o b)[m + i] = b[i]
  <2>1. m + i \in 1 .. m + n /\ ~(m + i <= m) /\ (m + i) - m = i
    BY <1>1
  <2> QED
    BY <2>1
<1> QED
  BY <1>1, <1>2, <1>3

CueTrack == [number : CueNumbers, audio : BOOLEAN, pregap : CuePositions, index1 : CuePositions]
CueFile == [name : CueFiles, tracks : Seq(CueTrack)]
Entry == CueFiles \X Nat
Sector == Entry \cup {Disc!Silence}
LaidDisc == [image : Seq(Sector),
             toc : Seq([number : CueNumbers, audio : BOOLEAN, start : Nat])]

(* The tracks of d start where the entries say, in files that are long     *)
(* enough.                                                                 *)
StartsOf(d, e) ==
  /\ Len(d.toc) = Len(e)
  /\ \A i \in 1 .. Len(e) :
       e[i][2] < CueLength[e[i][1]] =>
         /\ d.toc[i].start + 1 \in 1 .. Len(d.image)
         /\ d.image[d.toc[i].start + 1] = e[i]

LEMMA IndexedIs ==
  ASSUME NEW file \in CueFile
  PROVE  /\ Disc!Indexed(file) \in Seq(Entry)
         /\ Len(Disc!Indexed(file)) = Len(file.tracks)
         /\ \A i \in 1 .. Len(file.tracks) :
              Disc!Indexed(file)[i] = <<file.name, file.tracks[i].index1>>
<1> DEFINE t == file.tracks
           e == Disc!Indexed(file)
<1>1. t \in Seq(CueTrack) /\ file.name \in CueFiles
  BY DEF CueFile
<1>2. e = [i \in DOMAIN t |-> <<file.name, t[i].index1>>]
  BY DEF Disc!Indexed
<1> HIDE DEF t, e
<1>3. DOMAIN t = 1 .. Len(t) /\ Len(t) \in Nat
  BY <1>1
<1>4. ASSUME NEW i \in 1 .. Len(t) PROVE <<file.name, t[i].index1>> \in Entry
  <2>1. t[i] \in CueTrack
    BY <1>1, <1>4
  <2>2. t[i].index1 \in Nat
    BY <2>1, CueAssumption DEF CueTrack
  <2> QED
    BY <1>1, <2>2 DEF Entry
<1>5. e \in [1 .. Len(t) -> Entry]
  BY <1>2, <1>3, <1>4
<1>6. e \in Seq(Entry) /\ Len(e) = Len(t)
  BY <1>3, <1>5
<1> QED
  BY <1>2, <1>3, <1>6 DEF t, e

(* One file more: what it adds, behind the pregap it asks for.             *)
LEMMA AddFileIs ==
  ASSUME NEW d \in LaidDisc, NEW file \in CueFile, NEW e \in Seq(Entry)
  PROVE  /\ Disc!AddFile(d, file) \in LaidDisc
         /\ e \o Disc!Indexed(file) \in Seq(Entry)
         /\ StartsOf(d, e) => StartsOf(Disc!AddFile(d, file), e \o Disc!Indexed(file))
<1> DEFINE P == Disc!Pregap(file)
           t == file.tracks
           silence == [i \in 1 .. P |-> Disc!Silence]
           before == d.image \o silence
           sectors == Disc!Sectors(file.name)
           starts == [i \in DOMAIN t |-> [number |-> t[i].number, audio |-> t[i].audio,
                                          start |-> Len(before) + t[i].index1]]
           L == CueLength[file.name]
           x == Disc!Indexed(file)
<1>1. t \in Seq(CueTrack) /\ file.name \in CueFiles /\ L \in Nat
  BY CueAssumption DEF CueFile
<1>2. P \in Nat
  <2>1. t # <<>> => t[1] \in CueTrack
    BY <1>1
  <2>2. t # <<>> => t[1].pregap \in Nat
    BY <2>1, CueAssumption DEF CueTrack
  <2> QED
    BY <2>2 DEF Disc!Pregap
<1> HIDE DEF P
<1>3. d.image \in Seq(Sector) /\ silence \in Seq(Sector) /\ Len(silence) = P
  <2>1. Disc!Silence \in Sector
    BY DEF Sector
  <2> QED
    BY <1>2, <2>1 DEF LaidDisc
<1> HIDE DEF silence
<1>4. before \in Seq(Sector) /\ \A k \in 1 .. Len(d.image) : before[k] = d.image[k]
      /\ Len(before) = Len(d.image) + P
  BY <1>3, JoinedIs
<1>5. /\ sectors \in Seq(Sector) /\ Len(sectors) = L
      /\ \A k \in 1 .. L : sectors[k] = <<file.name, k - 1>>
  <2>1. sectors = [k \in 1 .. L |-> <<file.name, k - 1>>]
    BY DEF Disc!Sectors
  <2>2. \A k \in 1 .. L : <<file.name, k - 1>> \in Sector
    BY <1>1 DEF Sector, Entry
  <2> HIDE DEF sectors, L
  <2> QED
    BY <1>1, <2>1, <2>2
<1>6. Len(before) \in Nat /\ Len(d.image) \in Nat /\ Len(d.image) <= Len(before)
  <2>1. Len(d.image) \in Nat
    BY <1>3
  <2> HIDE DEF before
  <2> QED
    BY <1>2, <1>4, <2>1
<1> HIDE DEF before, sectors, L
<1> DEFINE D == [number : CueNumbers, audio : BOOLEAN, start : Nat]
<1>7. /\ starts \in Seq(D) /\ Len(starts) = Len(t)
      /\ \A i \in 1 .. Len(t) : starts[i].start = Len(before) + t[i].index1
  <2>1. DOMAIN t = 1 .. Len(t) /\ Len(t) \in Nat
    BY <1>1
  <2>2. ASSUME NEW i \in 1 .. Len(t)
        PROVE  [number |-> t[i].number, audio |-> t[i].audio,
                start |-> Len(before) + t[i].index1] \in D
    <3>1. t[i] \in CueTrack
      BY <1>1, <2>2
    <3>2. t[i].index1 \in Nat /\ t[i].number \in CueNumbers /\ t[i].audio \in BOOLEAN
      BY <3>1, CueAssumption DEF CueTrack
    <3>3. Len(before) + t[i].index1 \in Nat
      BY <1>6, <3>2
    <3> QED
      BY <3>2, <3>3
  <2> HIDE DEF t, D
  <2>3. starts \in [1 .. Len(t) -> D]
    BY <2>1, <2>2
  <2> QED
    BY <2>1, <2>3
<1> HIDE DEF starts
<1> DEFINE r == Disc!AddFile(d, file)
<1>8. r = [image |-> before \o sectors, toc |-> d.toc \o starts]
  BY DEF Disc!AddFile, before, silence, sectors, starts, P
<1>9. r.image = before \o sectors /\ r.toc = d.toc \o starts
  BY <1>8
<1>10. d.toc \in Seq(D)
  BY DEF LaidDisc
<1>11. r \in LaidDisc
  <2>1. before \o sectors \in Seq(Sector) /\ d.toc \o starts \in Seq(D)
    BY <1>4, <1>5, <1>7, <1>10
  <2> HIDE DEF r
  <2> QED
    BY <1>8, <2>1 DEF LaidDisc
<1>12. /\ x \in Seq(Entry) /\ Len(x) = Len(t)
       /\ \A i \in 1 .. Len(t) : x[i] = <<file.name, t[i].index1>>
  BY IndexedIs
<1> HIDE DEF r, D, x
<1>13. ASSUME StartsOf(d, e) PROVE StartsOf(r, e \o x)
  <2> DEFINE m == Len(e)
             q == e \o x
             im == r.image
             tc == r.toc
  <2>1. /\ q \in Seq(Entry) /\ Len(q) = m + Len(t) /\ m \in Nat /\ Len(t) \in Nat
        /\ \A i \in 1 .. m : q[i] = e[i]
        /\ \A i \in 1 .. Len(t) : q[m + i] = x[i]
    <3>1. e \in Seq(Entry) /\ x \in Seq(Entry) /\ m = Len(e) /\ Len(t) = Len(x)
      BY <1>12
    <3> HIDE DEF m, t
    <3> QED
      BY ONLY <3>1, JoinedIs DEF q
  <2>2. /\ Len(im) = Len(before) + L
        /\ \A k \in 1 .. Len(before) : im[k] = before[k]
        /\ \A k \in 1 .. L : im[Len(before) + k] = sectors[k]
    BY <1>4, <1>5, <1>9, JoinedIs
  <2>3. Len(d.toc) = m
    BY <1>13 DEF StartsOf
  <2>4. /\ Len(tc) = m + Len(t)
        /\ \A i \in 1 .. m : tc[i] = d.toc[i]
        /\ \A i \in 1 .. Len(t) : tc[m + i] = starts[i]
    <3>1. d.toc \in Seq(D) /\ starts \in Seq(D) /\ m = Len(d.toc) /\ Len(t) = Len(starts)
      BY <1>7, <1>10, <2>3
    <3> HIDE DEF m, t
    <3> QED
      BY ONLY <1>9, <3>1, JoinedIs DEF tc
  <2> HIDE DEF m, q, im, tc
  <2>5. ASSUME NEW i \in 1 .. Len(q), q[i][2] < CueLength[q[i][1]]
        PROVE  tc[i].start + 1 \in 1 .. Len(im) /\ im[tc[i].start + 1] = q[i]
    <3>1. CASE i \in 1 .. m
      <4> DEFINE s == d.toc[i].start
      <4>1. q[i] = e[i] /\ tc[i] = d.toc[i]
        BY <2>1, <2>4, <3>1
      <4>2. s + 1 \in 1 .. Len(d.image) /\ d.image[s + 1] = e[i]
        BY <1>13, <2>5, <3>1, <4>1 DEF StartsOf, m
      <4> HIDE DEF s
      <4>3. s + 1 \in 1 .. Len(before) /\ s + 1 \in 1 .. Len(im)
        BY <1>1, <1>6, <2>2, <4>2
      <4>4. im[s + 1] = e[i]
        BY <1>4, <2>2, <4>2, <4>3
      <4> QED
        BY <4>1, <4>3, <4>4 DEF s
    <3>2. CASE i \notin 1 .. m
      <4> DEFINE k == i - m
                 p == t[k].index1
      <4>1. k \in 1 .. Len(t) /\ m + k = i
        BY <2>1, <3>2
      <4>2. t[k] \in CueTrack
        BY <1>1, <4>1
      <4>3. p \in Nat
        BY <4>2, CueAssumption DEF CueTrack
      <4>4. q[i] = <<file.name, p>> /\ tc[i].start = Len(before) + p
        <5> HIDE DEF k, t
        <5>1. q[m + k] = x[k] /\ tc[m + k] = starts[k]
          <6>1. k \in 1 .. Len(t)
            BY <4>1
          <6>2. \A j \in 1 .. Len(t) : q[m + j] = x[j]
            BY <2>1
          <6>3. \A j \in 1 .. Len(t) : tc[m + j] = starts[j]
            BY <2>4
          <6> QED
            BY Zenon, <6>1, <6>2, <6>3
        <5>2. x[k] = <<file.name, t[k].index1>> /\ starts[k].start = Len(before) + t[k].index1
          BY <1>7, <1>12, <4>1
        <5> QED
          BY <4>1, <5>1, <5>2
      <4>5. p < L
        BY <2>5, <4>4 DEF L
      <4> HIDE DEF p
      <4>6. p + 1 \in 1 .. L /\ (p + 1) - 1 = p
        BY <1>1, <4>3, <4>5
      <4>7. /\ (Len(before) + p) + 1 = Len(before) + (p + 1)
            /\ (Len(before) + p) + 1 \in 1 .. Len(im)
        BY <1>1, <1>6, <2>2, <4>3, <4>5
      <4>8. im[Len(before) + (p + 1)] = <<file.name, p>>
        <5>1. sectors[p + 1] = <<file.name, (p + 1) - 1>>
          BY <1>5, <4>6
        <5>2. im[Len(before) + (p + 1)] = sectors[p + 1]
          <6>1. PICK j \in 1 .. L : j = p + 1
            BY <4>6
          <6>2. im[Len(before) + j] = sectors[j]
            BY <2>2, <6>1
          <6> QED
            BY <6>1, <6>2
        <5> QED
          BY <4>6, <5>1, <5>2
      <4> QED
        BY <4>4, <4>7, <4>8
    <3> QED
      BY <3>1, <3>2
  <2>6. Len(tc) = Len(q)
    BY <2>1, <2>4
  <2>7. StartsOf(r, q)
    BY <2>5, <2>6 DEF StartsOf, im, tc
  <2> QED
    BY <2>7 DEF q
<1> QED
  <2>1. e \o x \in Seq(Entry)
    BY <1>12
  <2> QED
    BY <1>11, <1>13, <2>1 DEF r, x

(* The files laid out, and what their tracks are to start at, file after   *)
(* file.                                                                   *)
LEMMA LaidIs ==
  ASSUME cueSheet \in Seq(CueFile)
  PROVE  /\ Disc!Laid \in LaidDisc /\ Disc!Entries \in Seq(Entry)
         /\ StartsOf(Disc!Laid, Disc!Entries)
<1> DEFINE s == cueSheet
           N == Len(s)
           none == [image |-> <<>>, toc |-> <<>>]
           Step(d, n) == Disc!AddFile(d, s[n])
           StepE(e, n) == e \o Disc!Indexed(s[n])
           IsL(g) == g = [n \in 0 .. N |-> IF n = 0 THEN none ELSE Disc!AddFile(g[n - 1], s[n])]
           IsE(g) == g = [n \in 0 .. N |-> IF n = 0 THEN <<>> ELSE g[n - 1] \o Disc!Indexed(s[n])]
           l == CHOOSE g : IsL(g)
           e == CHOOSE g : IsE(g)
           SE == Seq(Entry)
           zero == <<>>
           GL == [n \in 1 .. N |-> [d \in LaidDisc |-> Disc!AddFile(d, s[n])]]
           GE == [n \in 1 .. N |-> [y \in SE |-> y \o Disc!Indexed(s[n])]]
<1>1. N \in Nat /\ none \in LaidDisc /\ zero \in SE /\ \A n \in 1 .. N : s[n] \in CueFile
  BY DEF LaidDisc
<1>2. ASSUME NEW n \in 1 .. N, NEW d \in LaidDisc PROVE Disc!AddFile(d, s[n]) \in LaidDisc
  <2>1. s[n] \in CueFile
    BY <1>1
  <2> DEFINE y == <<>>
  <2>2. y \in Seq(Entry)
    OBVIOUS
  <2> HIDE DEF y, s
  <2> QED
    BY <2>1, <2>2, AddFileIs
<1>3. ASSUME NEW n \in 1 .. N, NEW y \in SE PROVE y \o Disc!Indexed(s[n]) \in SE
  <2>1. Disc!Indexed(s[n]) \in SE
    BY <1>1, IndexedIs
  <2> QED
    BY <2>1
<1> HIDE DEF N, none, zero, SE, s
<1>4. GL \in [1 .. N -> [LaidDisc -> LaidDisc]] /\ GE \in [1 .. N -> [SE -> SE]]
  BY <1>2, <1>3
<1>5. \E g : IsL(g)
  <2>1. Courses(N, LaidDisc, none, GL) # {}
    <3> HIDE DEF GL
    <3> QED
      BY <1>1, <1>4, UptoRecursion
  <2>2. PICK g \in [0 .. N -> LaidDisc] : g[0] = none /\ \A n \in 1 .. N : g[n] = GL[n][g[n - 1]]
    BY <2>1 DEF Courses
  <2>3. ASSUME NEW n \in 0 .. N
        PROVE  g[n] = IF n = 0 THEN none ELSE Disc!AddFile(g[n - 1], s[n])
    <3>1. n # 0 => n \in 1 .. N /\ n - 1 \in 0 .. N
      BY <1>1
    <3> QED
      BY <2>2, <3>1
  <2>4. g = [n \in 0 .. N |-> g[n]]
    BY <2>2
  <2>5. IsL(g)
    BY <2>3, <2>4
  <2> QED
    BY <2>5
<1>6. \E g : IsE(g)
  <2>1. Courses(N, SE, zero, GE) # {}
    <3> HIDE DEF GE
    <3> QED
      BY <1>1, <1>4, UptoRecursion
  <2>2. PICK g \in [0 .. N -> SE] : g[0] = zero /\ \A n \in 1 .. N : g[n] = GE[n][g[n - 1]]
    BY <2>1 DEF Courses
  <2>3. ASSUME NEW n \in 0 .. N
        PROVE  g[n] = IF n = 0 THEN zero ELSE g[n - 1] \o Disc!Indexed(s[n])
    <3>1. n # 0 => n \in 1 .. N /\ n - 1 \in 0 .. N
      BY <1>1
    <3> QED
      BY <2>2, <3>1
  <2>4. g = [n \in 0 .. N |-> g[n]]
    BY <2>2
  <2>5. IsE(g)
    BY <2>3, <2>4 DEF zero
  <2> QED
    BY <2>5
<1>7. IsL(l) /\ IsE(e)
  <2> HIDE DEF IsL, IsE
  <2> QED
    BY <1>5, <1>6
<1>8. Disc!Laid = l[N] /\ Disc!Entries = e[N]
  BY DEF Disc!Laid, Disc!Entries, none, N, s
<1> HIDE DEF l, e
<1> DEFINE T == {n \in 0 .. N : l[n] \in LaidDisc /\ e[n] \in SE /\ StartsOf(l[n], e[n])}
<1>9. 0 \in T
  <2>1. l[0] = none /\ e[0] = zero /\ 0 \in 0 .. N
    BY <1>1, <1>7 DEF zero
  <2>2. StartsOf(none, zero)
    BY DEF StartsOf, none, zero
  <2> QED
    BY <1>1, <2>1, <2>2
<1>10. ASSUME NEW m \in 0 .. N, m < N, m \in T PROVE m + 1 \in T
  <2>1. m + 1 \in 1 .. N /\ m + 1 \in 0 .. N /\ (m + 1) - 1 = m /\ m + 1 # 0
    BY <1>1, <1>10
  <2>2. l[m + 1] = Disc!AddFile(l[m], s[m + 1]) /\ e[m + 1] = e[m] \o Disc!Indexed(s[m + 1])
    BY <1>7, <2>1
  <2>3. l[m] \in LaidDisc /\ e[m] \in Seq(Entry) /\ StartsOf(l[m], e[m]) /\ s[m + 1] \in CueFile
    BY <1>1, <1>10, <2>1 DEF SE
  <2>4. /\ Disc!AddFile(l[m], s[m + 1]) \in LaidDisc
        /\ e[m] \o Disc!Indexed(s[m + 1]) \in Seq(Entry)
        /\ StartsOf(Disc!AddFile(l[m], s[m + 1]), e[m] \o Disc!Indexed(s[m + 1]))
    BY <2>3, AddFileIs
  <2>5. l[m + 1] \in LaidDisc /\ e[m + 1] \in SE /\ StartsOf(l[m + 1], e[m + 1])
    BY <2>2, <2>4 DEF SE
  <2> QED
    BY <2>1, <2>5
<1> HIDE DEF T
<1>11. 0 .. N \subseteq T
  BY <1>1, <1>9, <1>10, UptoInduction
<1>12. N \in T
  BY <1>1, <1>11
<1> QED
  BY <1>8, <1>12 DEF T, SE

(* The invariant of the opening of a disc.                                 *)
CueInv ==
  /\ cueSheet \in Seq(CueFile) /\ cueLines \in Nat
  /\ cueResult \in {"reading", "open", "refused"}
  /\ cueResult # "open" => cueImage = <<>> /\ cueToc = <<>>
  /\ cueResult = "open" =>
       Disc!Sound(Disc!Laid) /\ cueImage = Disc!Laid.image /\ cueToc = Disc!Laid.toc

LEMMA FileLineStep ==
  ASSUME CueInv, NEW f \in CueFiles, Disc!FileLine(f)
  PROVE  CueInv'
<1> DEFINE file == [name |-> f, tracks |-> <<>>]
<1>1. file \in CueFile
  BY DEF CueFile
<1> HIDE DEF file
<1>2. cueSheet \in Seq(CueFile) /\ cueSheet' = Append(cueSheet, file)
  BY DEF CueInv, Disc!FileLine, file
<1>3. cueSheet' \in Seq(CueFile)
  BY <1>1, <1>2
<1>4. cueLines' \in Nat /\ cueResult' = "reading" /\ cueResult = "reading"
      /\ UNCHANGED <<cueImage, cueToc>>
  BY DEF CueInv, Disc!FileLine, Disc!Line
<1> QED
  BY <1>3, <1>4 DEF CueInv

(* Another track of the last file, or another form of one.                 *)
LEMMA WithTracks ==
  ASSUME NEW s \in Seq(CueFile), NEW f \in 1 .. Len(s), NEW ts \in Seq(CueTrack)
  PROVE  [s EXCEPT ![f].tracks = ts] \in Seq(CueFile)
<1> DEFINE file == [s[f] EXCEPT !.tracks = ts]
<1>1. s[f] \in CueFile
  OBVIOUS
<1>2. file \in CueFile
  BY <1>1 DEF CueFile
<1>3. [s EXCEPT ![f].tracks = ts] = [s EXCEPT ![f] = file]
  OBVIOUS
<1> HIDE DEF file
<1>4. [s EXCEPT ![f] = file] \in Seq(CueFile)
  BY <1>2, ExceptSeq
<1> QED
  BY <1>3, <1>4

LEMMA TrackLineStep ==
  ASSUME CueInv, NEW n \in CueNumbers, NEW mode \in {"audio", "2352", "2048"},
         Disc!TrackLine(n, mode)
  PROVE  CueInv'
<1>1. /\ cueLines' \in Nat /\ cueResult = "reading" /\ UNCHANGED <<cueImage, cueToc>>
      /\ cueSheet \in Seq(CueFile)
  BY DEF CueInv, Disc!TrackLine, Disc!Line
<1>2. CASE cueSheet = <<>> \/ mode = "2048"
  <2>1. cueResult' = "refused" /\ cueSheet' = cueSheet
    BY <1>2 DEF Disc!TrackLine
  <2> QED
    BY <1>1, <2>1 DEF CueInv
<1>3. CASE ~(cueSheet = <<>> \/ mode = "2048")
  <2> DEFINE k == Len(cueSheet)
             t == [number |-> n, audio |-> (mode = "audio"), pregap |-> 0, index1 |-> 0]
             ts == Append(cueSheet[k].tracks, t)
  <2>1. k \in 1 .. Len(cueSheet)
    BY <1>1, <1>3
  <2>2. t \in CueTrack
    BY CueAssumption DEF CueTrack
  <2>3. cueSheet[k] \in CueFile
    BY <1>1, <2>1
  <2>4. cueSheet[k].tracks \in Seq(CueTrack)
    BY <2>3 DEF CueFile
  <2>5. /\ cueSheet' = [cueSheet EXCEPT ![k].tracks = Append(@, t)]
        /\ cueResult' = cueResult
    BY <1>3 DEF Disc!TrackLine
  <2> HIDE DEF t, k
  <2>6. ts \in Seq(CueTrack)
    BY <2>2, <2>4
  <2>7. cueSheet' = [cueSheet EXCEPT ![k].tracks = ts]
    BY <2>5
  <2> HIDE DEF ts
  <2>8. cueSheet' \in Seq(CueFile)
    BY <1>1, <2>1, <2>6, <2>7, WithTracks
  <2> QED
    BY <1>1, <2>5, <2>8 DEF CueInv
<1> QED
  BY <1>2, <1>3

LEMMA OnTrackStep ==
  ASSUME CueInv, NEW field, NEW p \in CuePositions, Disc!OnTrack(field, p)
  PROVE  CueInv'
<1>1. /\ cueLines' \in Nat /\ cueResult = "reading" /\ UNCHANGED <<cueImage, cueToc>>
      /\ cueSheet \in Seq(CueFile)
  BY DEF CueInv, Disc!OnTrack, Disc!Line
<1>2. CASE cueSheet = <<>> \/ Disc!Last(cueSheet).tracks = <<>>
  <2>1. cueResult' = "refused" /\ cueSheet' = cueSheet
    BY <1>2 DEF Disc!OnTrack
  <2> QED
    BY <1>1, <2>1 DEF CueInv
<1>3. CASE ~(cueSheet = <<>> \/ Disc!Last(cueSheet).tracks = <<>>)
  <2> DEFINE f == Len(cueSheet)
             before == cueSheet[f].tracks
             t == Len(before)
             track == IF field = "PREGAP" THEN [before[t] EXCEPT !.pregap = p]
                      ELSE [before[t] EXCEPT !.index1 = p]
             ts == [before EXCEPT ![t] = track]
  <2>1. f \in 1 .. Len(cueSheet) /\ Disc!Last(cueSheet) = cueSheet[f]
    BY <1>1, <1>3 DEF Disc!Last
  <2>2. cueSheet[f] \in CueFile
    BY <1>1, <2>1
  <2>3. before \in Seq(CueTrack) /\ before # <<>>
    BY <1>3, <2>1, <2>2 DEF CueFile
  <2>4. /\ cueSheet' = IF field = "PREGAP" THEN [cueSheet EXCEPT ![f].tracks[t].pregap = p]
                       ELSE [cueSheet EXCEPT ![f].tracks[t].index1 = p]
        /\ cueResult' = cueResult
    BY <1>3 DEF Disc!OnTrack
  <2>5. cueSheet' = [cueSheet EXCEPT ![f].tracks = ts]
    <3> HIDE DEF f, t
    <3> QED
      BY <2>4
  <2> HIDE DEF before
  <2>6. t \in 1 .. Len(before) /\ before[t] \in CueTrack
    BY <2>3
  <2>7. track \in CueTrack
    BY <2>6 DEF CueTrack
  <2> HIDE DEF track, t
  <2>8. ts \in Seq(CueTrack)
    BY <2>3, <2>6, <2>7, ExceptSeq
  <2> HIDE DEF ts, f
  <2>9. cueSheet' \in Seq(CueFile)
    BY <1>1, <2>1, <2>5, <2>8, WithTracks
  <2> QED
    BY <1>1, <2>4, <2>9 DEF CueInv
<1> QED
  BY <1>2, <1>3

LEMMA AssembleStep ==
  ASSUME CueInv, Disc!Assemble
  PROVE  CueInv'
<1>1. cueResult = "reading" /\ UNCHANGED <<cueSheet, cueLines>>
  BY DEF Disc!Assemble
<1>2. Disc!Laid' = Disc!Laid
  BY <1>1 DEF Disc!Laid
<1>3. CASE cueResult' = "refused" /\ UNCHANGED <<cueImage, cueToc>>
  BY <1>1, <1>3 DEF CueInv
<1>4. CASE /\ cueResult' = "open" /\ Disc!Sound(Disc!Laid)
           /\ cueImage' = Disc!Laid.image /\ cueToc' = Disc!Laid.toc
  <2>1. Disc!Sound(Disc!Laid)'
    BY <1>2, <1>4 DEF Disc!Sound
  <2> QED
    BY <1>1, <1>2, <1>4, <2>1 DEF CueInv
<1> QED
  BY <1>3, <1>4 DEF Disc!Assemble

(* What is in order from each to the next is in order.                     *)
LEMMA AscendingIs ==
  ASSUME NEW N \in Nat, NEW h, \A i \in 1 .. N : h[i] \in Nat,
         \A i \in 2 .. N : h[i - 1] <= h[i],
         NEW i \in 1 .. N, NEW j \in 1 .. N, i <= j
  PROVE  h[i] <= h[j]
<1> DEFINE T == {m \in 0 .. N : \A k \in 1 .. m : h[k] <= h[m]}
<1>1. 0 \in T
  OBVIOUS
<1>2. ASSUME NEW m \in 0 .. N, m < N, m \in T PROVE m + 1 \in T
  <2>1. m + 1 \in 1 .. N /\ m + 1 \in 0 .. N /\ h[m + 1] \in Nat
    BY <1>2
  <2>2. ASSUME NEW k \in 1 .. m + 1 PROVE h[k] <= h[m + 1]
    <3>1. CASE k = m + 1
      BY <2>1, <3>1
    <3>2. CASE k # m + 1
      <4>1. k \in 1 .. m /\ k \in 1 .. N /\ m \in 1 .. N /\ m + 1 \in 2 .. N /\ (m + 1) - 1 = m
        BY <1>2, <3>2
      <4>2. h[k] <= h[m] /\ h[m] <= h[m + 1] /\ h[k] \in Nat /\ h[m] \in Nat
        BY <1>2, <4>1
      <4> QED
        BY <2>1, <4>2
    <3> QED
      BY <3>1, <3>2
  <2> QED
    BY <2>1, <2>2
<1> HIDE DEF T
<1>3. 0 .. N \subseteq T
  BY <1>1, <1>2, UptoInduction
<1>4. j \in T
  BY <1>3
<1> QED
  BY <1>4 DEF T

LEMMA CueShows ==
  CueInv => Disc!TypeOK /\ Disc!StartsAreSectors /\ Disc!TracksStartInTheirFiles
<1> SUFFICES ASSUME CueInv
             PROVE  Disc!TypeOK /\ Disc!StartsAreSectors /\ Disc!TracksStartInTheirFiles
  OBVIOUS
<1>1. Disc!TypeOK
  <2>1. ASSUME NEW i \in DOMAIN cueSheet, NEW t \in DOMAIN cueSheet[i].tracks
        PROVE  cueSheet[i].tracks[t] \in Disc!Track
    <3>1. cueSheet[i] \in CueFile
      BY DEF CueInv
    <3>2. cueSheet[i].tracks \in Seq(CueTrack)
      BY <3>1 DEF CueFile
    <3> DEFINE ts == cueSheet[i].tracks
    <3>3. ts \in Seq(CueTrack) /\ t \in 1 .. Len(ts)
      BY <3>2
    <3> HIDE DEF ts
    <3>4. ts[t] \in CueTrack
      BY <3>3
    <3>5. CueTrack = Disc!Track
      BY DEF CueTrack, Disc!Track
    <3> QED
      BY <3>4, <3>5 DEF ts
  <2> QED
    BY <2>1 DEF Disc!TypeOK, CueInv
<1>2. CASE cueResult # "open"
  BY <1>1, <1>2 DEF Disc!StartsAreSectors, Disc!TracksStartInTheirFiles
<1>3. CASE cueResult = "open"
  <2> DEFINE d == Disc!Laid
             e == Disc!Entries
  <2>1. Disc!Sound(d) /\ cueImage = d.image /\ cueToc = d.toc
    BY <1>3 DEF CueInv
  <2>2. d \in LaidDisc /\ e \in Seq(Entry) /\ StartsOf(d, e)
    BY LaidIs DEF CueInv
  <2> HIDE DEF d, e
  <2> DEFINE D == [number : CueNumbers, audio : BOOLEAN, start : Nat]
             n == Len(cueToc)
  <2>3. cueToc \in Seq(D) /\ cueImage \in Seq(Sector)
    BY <2>1, <2>2 DEF LaidDisc
  <2>4. n \in Nat /\ DOMAIN cueToc = 1 .. n /\ DOMAIN cueImage = 1 .. Len(cueImage)
        /\ Len(cueImage) \in Nat
    BY <2>3
  <2>5. \A i \in 1 .. n : cueToc[i].start \in Nat
    <3>1. \A i \in 1 .. n : cueToc[i] \in D
      <4> HIDE DEF D
      <4> QED
        BY <2>3
    <3> QED
      BY <3>1
  <2>6. /\ \A i \in 2 .. n : cueToc[i - 1].start <= cueToc[i].start
        /\ \A i \in 1 .. n : cueToc[i].start < Len(cueImage)
    BY <2>1, <2>4 DEF Disc!Sound
  <2> HIDE DEF n
  <2>7. ASSUME NEW i \in 1 .. n, NEW j \in 1 .. n, i <= j
        PROVE  cueToc[i].start <= cueToc[j].start
    <3> DEFINE h == [k \in 1 .. n |-> cueToc[k].start]
    <3>1. /\ \A k \in 1 .. n : h[k] \in Nat
          /\ \A k \in 2 .. n : h[k - 1] <= h[k]
      <4>1. \A k \in 2 .. n : k \in 1 .. n /\ k - 1 \in 1 .. n
        BY <2>4
      <4> QED
        BY <2>5, <2>6, <4>1
    <3> HIDE DEF h
    <3>2. h[i] <= h[j]
      BY <2>4, <2>7, <3>1, AscendingIs
    <3> QED
      BY <3>2 DEF h
  <2>8. ASSUME NEW i \in 1 .. n
        PROVE  /\ cueToc[i].start + 1 \in DOMAIN cueImage
               /\ Disc!TrackAt(cueToc[i].start).start = cueToc[i].start
    <3> DEFINE lba == cueToc[i].start
               started == {j \in DOMAIN cueToc : cueToc[j].start <= lba}
               last == CHOOSE k \in started : \A j \in started : j <= k
    <3>1. lba \in Nat /\ lba < Len(cueImage)
      BY <2>5, <2>6
    <3>2. i \in started
      BY <2>4, <3>1
    <3>3. last \in started /\ \A j \in started : j <= last
      <4>1. started \subseteq 0 .. n /\ started # {}
        BY <2>4, <3>2
      <4> HIDE DEF started
      <4>2. \E k \in started : \A j \in started : k >= j
        BY <2>4, <4>1, UptoGreatest
      <4>3. \A j, k \in started : k >= j <=> j <= k
        BY <2>4, <4>1
      <4>4. \E k \in started : \A j \in started : j <= k
        BY <4>2, <4>3
      <4> QED
        BY <4>4
    <3>4. Disc!TrackAt(lba) = cueToc[last]
      BY <3>2 DEF Disc!TrackAt
    <3> HIDE DEF last
    <3>5. last \in 1 .. n /\ cueToc[last].start <= lba /\ i <= last
      BY <2>4, <3>2, <3>3
    <3>6. lba <= cueToc[last].start
      BY <2>7, <3>5
    <3>7. cueToc[last].start = lba
      BY <2>5, <3>1, <3>5, <3>6
    <3>8. lba + 1 \in DOMAIN cueImage
      <4> HIDE DEF lba
      <4> QED
        BY <2>4, <3>1
    <3> QED
      BY <3>4, <3>7, <3>8
  <2>9. Disc!StartsAreSectors
    BY <2>4, <2>8 DEF Disc!StartsAreSectors
  <2>10. Disc!TracksStartInTheirFiles
    <3>1. n = Len(e)
      BY <2>1, <2>2 DEF StartsOf, n
    <3>2. \A i \in 1 .. n : e[i][2] < CueLength[e[i][1]] => cueImage[cueToc[i].start + 1] = e[i]
      BY <2>1, <2>2, <3>1 DEF StartsOf
    <3> QED
      BY <2>4, <3>1, <3>2 DEF Disc!TracksStartInTheirFiles, e, n
  <2> QED
    BY <1>1, <2>9, <2>10
<1> QED
  BY <1>2, <1>3

LEMMA CueStep ==
  ASSUME CueInv, Disc!Next
  PROVE  CueInv'
  BY FileLineStep, TrackLineStep, OnTrackStep, AssembleStep DEF Disc!Next

(* The opened disc: every track starts at the sector its INDEX 01 names in *)
(* its own file, whatever files and pregaps come before, on the image, and *)
(* where the drive finds it (parse_cue, load_cue, Disc::with_tracks).      *)
THEOREM TracksAreInPlace == UnitsSpec => []TracksInPlace
<1> DEFINE Inv == unit = "cue" => CueInv
<1>1. UnitsInit => Inv
  <2>1. Disc!Init => CueInv
    BY DEF Disc!Init, CueInv
  <2> QED
    BY <2>1 DEF UnitsInit
<1>2. Inv /\ [UnitsNext]_unitsVars => Inv'
  <2> SUFFICES ASSUME Inv, [UnitsNext]_unitsVars PROVE Inv'
    OBVIOUS
  <2>1. CASE UNCHANGED <<unit, cueVars>>
    <3>1. Disc!Laid' = Disc!Laid
      BY <2>1 DEF cueVars, Disc!Laid
    <3>2. Disc!Sound(Disc!Laid)' <=> Disc!Sound(Disc!Laid)
      BY <3>1 DEF Disc!Sound
    <3> QED
      BY <2>1, <3>1, <3>2 DEF cueVars, CueInv
  <2>2. CASE UnitsNext /\ unit = "cue" /\ Disc!Next
    BY <2>2, CueStep DEF UnitsNext
  <2>3. CASE UnitsNext /\ unit # "cue"
    BY <2>3 DEF UnitsNext
  <2>4. UNCHANGED unitsVars => UNCHANGED <<unit, cueVars>>
    BY DEF unitsVars
  <2>5. UnitsNext /\ unit = "cue" => Disc!Next \/ UNCHANGED <<unit, cueVars>>
    BY DEF UnitsNext
  <2> QED
    BY <2>1, <2>2, <2>3, <2>4, <2>5
<1>3. Inv => TracksInPlace
  BY CueShows DEF TracksInPlace
<1> QED
  <2>1. [UnitsNext]_unitsVars <=> [UnitsNext]_<<
          unit, controlVars, cheatsVars, scanVars, ttyVars, packetsVars, cueVars>>
    BY DEF unitsVars
  <2> QED
    BY <1>1, <1>2, <1>3, <2>1, PTL DEF UnitsSpec
-----------------------------------------------------------------------------
(* Packets. *)

(* What the sequences of s come to, joined one after the other.            *)
Joining(s, S) == [n \in 1 .. Len(s) |-> [r \in Seq(S) |-> r \o s[n]]]
Joins(s, S) == Courses(Len(s), Seq(S), <<>>, Joining(s, S))

LEMMA JoinsAre ==
  ASSUME NEW S, NEW s \in Seq(Seq(S)), NEW f
  PROVE  f \in Joins(s, S) <=>
           /\ f \in [0 .. Len(s) -> Seq(S)] /\ f[0] = <<>>
           /\ \A n \in 1 .. Len(s) : f[n] = f[n - 1] \o s[n]
<1> DEFINE G == Joining(s, S)
<1>1. ASSUME NEW n \in 1 .. Len(s), f \in [0 .. Len(s) -> Seq(S)]
      PROVE  G[n][f[n - 1]] = f[n - 1] \o s[n]
  <2>1. n - 1 \in 0 .. Len(s)
    OBVIOUS
  <2>2. f[n - 1] \in Seq(S)
    BY <1>1, <2>1
  <2> QED
    BY <2>2 DEF Joining
<1> HIDE DEF G
<1> QED
  BY <1>1 DEF Joins, Courses, G

LEMMA JoinsExist ==
  ASSUME NEW S, NEW s \in Seq(Seq(S))
  PROVE  Joins(s, S) # {}
<1> DEFINE G == Joining(s, S)
           N == Len(s)
<1>1. N \in Nat /\ <<>> \in Seq(S)
  OBVIOUS
<1>2. G \in [1 .. N -> [Seq(S) -> Seq(S)]]
  <2>1. ASSUME NEW n \in 1 .. N, NEW r \in Seq(S) PROVE r \o s[n] \in Seq(S)
    <3>1. s[n] \in Seq(S)
      OBVIOUS
    <3> QED
      BY <3>1
  <2> QED
    BY <2>1 DEF Joining
<1> HIDE DEF G, N
<1>3. Courses(N, Seq(S), <<>>, G) # {}
  BY <1>1, <1>2, UptoRecursion
<1> QED
  BY <1>3 DEF Joins, G, N

(* FlattenSeq is what they come to. *)
LEMMA FlattenIs ==
  ASSUME NEW S, NEW s \in Seq(Seq(S)), NEW f \in Joins(s, S)
  PROVE  Wire!FlattenSeq(s) = f[Len(s)]
<1> DEFINE N == Len(s)
           Flattens(h) == h = [i \in 1 .. N |-> IF i = 1 THEN s[i] ELSE h[i - 1] \o s[i]]
           g == CHOOSE h : Flattens(h)
<1>0. /\ N \in Nat /\ f[0] = <<>>
      /\ \A n \in 1 .. N : f[n] = f[n - 1] \o s[n] /\ s[n] \in Seq(S)
  <2>1. f[0] = <<>> /\ \A n \in 1 .. N : f[n] = f[n - 1] \o s[n]
    BY JoinsAre
  <2>2. N \in Nat /\ \A n \in 1 .. N : s[n] \in Seq(S)
    OBVIOUS
  <2> QED
    BY <2>1, <2>2
<1>1. CASE N = 0
  <2>1. s = <<>>
    BY <1>1
  <2> QED
    BY <1>0, <1>1, <2>1 DEF Wire!FlattenSeq
<1>2. CASE N # 0
  <2>1. Wire!FlattenSeq(s) = g[N]
    BY <1>2 DEF Wire!FlattenSeq
  <2> DEFINE e == [i \in 1 .. N |-> f[i]]
  <2>2. ASSUME NEW i \in 1 .. N PROVE e[i] = IF i = 1 THEN s[i] ELSE e[i - 1] \o s[i]
    <3>1. e[i] = f[i - 1] \o s[i] /\ s[i] \in Seq(S)
      BY <1>0
    <3>2. i = 1 => f[i - 1] = <<>> /\ <<>> \o s[i] = s[i]
      BY <1>0, <3>1
    <3>3. i # 1 => i - 1 \in 1 .. N /\ e[i - 1] = f[i - 1]
      BY <1>0
    <3> HIDE DEF e
    <3> QED
      BY <3>1, <3>2, <3>3
  <2>3. Flattens(e)
    <3>1. e = [i \in 1 .. N |-> e[i]]
      OBVIOUS
    <3> HIDE DEF e
    <3> QED
      BY <2>2, <3>1
  <2>4. Flattens(g)
    <3> HIDE DEF Flattens, e
    <3> QED
      BY <2>3
  <2> HIDE DEF g
  <2>5. \A i \in 1 .. N : g[i] = IF i = 1 THEN s[i] ELSE g[i - 1] \o s[i]
    BY <2>4
  <2> HIDE DEF Flattens
  <2> DEFINE T == {m \in 0 .. N : m = 0 \/ g[m] = f[m]}
  <2>6. 0 \in T
    BY <1>0
  <2>7. ASSUME NEW m \in 0 .. N, m < N, m \in T PROVE m + 1 \in T
    <3> HIDE DEF N
    <3>1. PICK n : n = m + 1
      OBVIOUS
    <3>2. n \in 1 .. N /\ n - 1 = m /\ (n = 1 <=> m = 0) /\ n \in 0 .. N
      BY <1>0, <2>7, <3>1
    <3>3. f[n] = f[m] \o s[n] /\ s[n] \in Seq(S)
      BY <1>0, <3>2
    <3>4. g[n] = IF n = 1 THEN s[n] ELSE g[m] \o s[n]
      BY <2>5, <3>2
    <3>5. m = 0 => <<>> \o s[n] = s[n]
      BY <3>3
    <3>6. g[n] = f[n]
      BY <1>0, <2>7, <3>2, <3>3, <3>4, <3>5
    <3> QED
      BY <3>1, <3>2, <3>6
  <2> HIDE DEF T, N
  <2>8. 0 .. N \subseteq T
    BY <1>0, <2>6, <2>7, UptoInduction
  <2>9. N \in T
    BY <1>0, <2>8
  <2> QED
    BY <1>2, <2>1, <2>9 DEF T, N
<1> QED
  BY <1>1, <1>2

LEMMA FlattenAppend ==
  ASSUME NEW S, NEW s \in Seq(Seq(S)), NEW x \in Seq(S)
  PROVE  /\ Wire!FlattenSeq(s) \in Seq(S)
         /\ Wire!FlattenSeq(Append(s, x)) = Wire!FlattenSeq(s) \o x
<1> DEFINE t == Append(s, x)
           N == Len(s)
<1>1. t \in Seq(Seq(S)) /\ Len(t) = N + 1 /\ t[N + 1] = x /\ N \in Nat
      /\ \A n \in 1 .. N : t[n] = s[n]
  BY AppendProperties
<1> HIDE DEF t
<1>2. PICK f : f \in Joins(t, S)
  BY <1>1, JoinsExist
<1>3. /\ f \in [0 .. N + 1 -> Seq(S)] /\ f[0] = <<>>
      /\ \A n \in 1 .. N + 1 : f[n] = f[n - 1] \o t[n]
  <2>1. /\ f \in [0 .. Len(t) -> Seq(S)] /\ f[0] = <<>>
        /\ \A n \in 1 .. Len(t) : f[n] = f[n - 1] \o t[n]
    BY <1>1, <1>2, JoinsAre
  <2> QED
    BY <1>1, <2>1
<1> DEFINE e == [n \in 0 .. N |-> f[n]]
<1>4. e \in Joins(s, S)
  <2>1. e \in [0 .. N -> Seq(S)]
    BY <1>1, <1>3
  <2>2. e[0] = <<>>
    BY <1>1, <1>3
  <2>3. ASSUME NEW n \in 1 .. N PROVE e[n] = e[n - 1] \o s[n]
    <3>1. n \in 1 .. N + 1 /\ n \in 0 .. N /\ n - 1 \in 0 .. N
      BY <1>1
    <3> QED
      BY <1>1, <1>3, <3>1
  <2> HIDE DEF e
  <2> QED
    BY <2>1, <2>2, <2>3, JoinsAre
<1>5. Wire!FlattenSeq(s) = f[N]
  <2>1. e[N] = f[N]
    BY <1>1
  <2> HIDE DEF e
  <2> QED
    BY <1>4, <2>1, FlattenIs
<1>6. Wire!FlattenSeq(t) = f[N + 1]
  BY <1>1, <1>2, FlattenIs
<1>7. N + 1 \in 1 .. N + 1 /\ (N + 1) - 1 = N /\ N \in 0 .. N + 1
  BY <1>1
<1>8. f[N + 1] = f[N] \o x /\ f[N] \in Seq(S)
  BY <1>1, <1>3, <1>7
<1> QED
  BY <1>5, <1>6, <1>8 DEF t

(* Three sequences are joined in either order.                             *)
LEMMA Regrouped ==
  ASSUME NEW S, NEW a \in Seq(S), NEW b \in Seq(S), NEW c \in Seq(S)
  PROVE  (a \o b) \o c = a \o (b \o c)
  BY ConcatAssociative

LEMMA FlattenEmpty == Wire!FlattenSeq(<<>>) = <<>>
  BY DEF Wire!FlattenSeq

(* Joining two sequences of sequences, one behind the other.               *)
LEMMA FlattenConcat ==
  ASSUME NEW S, NEW s \in Seq(Seq(S)), NEW t \in Seq(Seq(S))
  PROVE  /\ Wire!FlattenSeq(s) \in Seq(S)
         /\ Wire!FlattenSeq(s \o t) = Wire!FlattenSeq(s) \o Wire!FlattenSeq(t)
<1> DEFINE N == Len(t)
           P(m) == SubSeq(t, 1, m)
           T == {m \in 0 .. N :
                   Wire!FlattenSeq(s \o P(m)) = Wire!FlattenSeq(s) \o Wire!FlattenSeq(P(m))}
<1>1. N \in Nat /\ Wire!FlattenSeq(s) \in Seq(S)
  BY FlattenAppend, EmptySeq
<1>2. 0 \in T
  <2>1. P(0) = <<>>
    BY SubSeqEmpty
  <2>2. s \o <<>> = s /\ Wire!FlattenSeq(s) \o <<>> = Wire!FlattenSeq(s)
    BY <1>1, ConcatEmptySeq
  <2>3. 0 \in 0 .. N
    BY <1>1
  <2> HIDE DEF N, P
  <2> QED
    BY <2>1, <2>2, <2>3, FlattenEmpty
<1>3. ASSUME NEW m \in 0 .. N, m < N, m \in T PROVE m + 1 \in T
  <2> DEFINE x == t[m + 1]
             p == P(m)
  <2>1. m + 1 \in 1 .. N /\ m + 1 \in 0 .. N /\ (m + 1) - 1 = m
    BY <1>1, <1>3
  <2>2. x \in Seq(S) /\ p \in Seq(Seq(S))
    BY <2>1
  <2>3. P(m + 1) = Append(p, x)
    <3>1. SubSeq(t, 1, m + 1) = SubSeq(t, 1, (m + 1) - 1) \o <<t[m + 1]>>
      <4>1. 1 \in 1 .. Len(t) /\ m + 1 \in 1 .. Len(t)
        BY <2>1
      <4> QED
        BY <4>1, SubSeqRecursiveSecond
    <3>2. Append(p, x) = p \o <<x>>
      BY <2>2, AppendIsConcat
    <3> QED
      BY <2>1, <3>1, <3>2
  <2>4. Wire!FlattenSeq(s \o p) = Wire!FlattenSeq(s) \o Wire!FlattenSeq(p)
    BY <1>3
  <2> HIDE DEF x, p, P, N
  <2>5. s \o Append(p, x) = Append(s \o p, x) /\ s \o p \in Seq(Seq(S))
    <3>1. Append(p, x) = p \o <<x>> /\ Append(s \o p, x) = (s \o p) \o <<x>>
          /\ s \o p \in Seq(Seq(S)) /\ <<x>> \in Seq(Seq(S))
      BY <2>2, AppendIsConcat, ConcatProperties
    <3>2. (s \o p) \o <<x>> = s \o (p \o <<x>>)
      BY <2>2, <3>1, ConcatAssociative
    <3> QED
      BY <3>1, <3>2
  <2>6. /\ Wire!FlattenSeq(Append(p, x)) = Wire!FlattenSeq(p) \o x
        /\ Wire!FlattenSeq(Append(s \o p, x)) = Wire!FlattenSeq(s \o p) \o x
        /\ Wire!FlattenSeq(p) \in Seq(S)
    BY <2>2, <2>5, FlattenAppend
  <2>7. (Wire!FlattenSeq(s) \o Wire!FlattenSeq(p)) \o x
          = Wire!FlattenSeq(s) \o (Wire!FlattenSeq(p) \o x)
    <3> DEFINE u == Wire!FlattenSeq(s)
               v == Wire!FlattenSeq(p)
    <3>1. u \in Seq(S) /\ v \in Seq(S) /\ x \in Seq(S)
      BY <1>1, <2>2, <2>6
    <3> HIDE DEF u, v
    <3>2. (u \o v) \o x = u \o (v \o x)
      BY ONLY <3>1, Regrouped
    <3> QED
      BY <3>2 DEF u, v
  <2>8. Wire!FlattenSeq(s \o P(m + 1)) = Wire!FlattenSeq(s) \o Wire!FlattenSeq(P(m + 1))
    BY <2>3, <2>4, <2>5, <2>6, <2>7
  <2> QED
    BY <2>1, <2>8
<1>4. P(N) = t
  BY SubSeqFull
<1> HIDE DEF T, N, P
<1>5. 0 .. N \subseteq T
  BY <1>1, <1>2, <1>3, UptoInduction
<1>6. N \in T
  BY <1>1, <1>5
<1> QED
  BY <1>1, <1>4, <1>6 DEF T
-----------------------------------------------------------------------------
(* What is on the wire, and what a server makes of it. *)
Plain == {<<n>> : n \in {"text", "hash", "dollar", "brace", "space", "etx", "eot", "bracket", "plus"}}
Octet == Plain \cup ({"digit"} \X {1, 2} \X Seq(Plain))
Flipped == Octet \cup {Wire!Flip(b) : b \in Octet}
Item == [kind : {"packet"}, data : Seq(Flipped)] \cup {Wire!Corrupt, Wire!Interrupt, Wire!Ack}
Parsed == [items : Seq(Item), left : Seq(Octet)]

(* The octets of b behind the first n.                                     *)
Rest(b, n) == SubSeq(b, n + 1, Len(b))

LEMMA RestIs ==
  ASSUME NEW S, NEW b \in Seq(S), NEW n \in 0 .. Len(b)
  PROVE  /\ Rest(b, n) \in Seq(S) /\ Len(Rest(b, n)) = Len(b) - n
         /\ \A k \in 1 .. Len(b) - n : Rest(b, n)[k] = b[n + k]
  BY SuffixIs DEF Rest

LEMMA RestOfRest ==
  ASSUME NEW S, NEW b \in Seq(S), NEW n \in 0 .. Len(b), NEW m \in 0 .. Len(b) - n
  PROVE  Rest(Rest(b, n), m) = Rest(b, n + m)
<1> DEFINE c == Rest(b, n)
           d == Rest(c, m)
           e == Rest(b, n + m)
           N == Len(b)
<1>1. c \in Seq(S) /\ Len(c) = N - n /\ \A k \in 1 .. N - n : c[k] = b[n + k]
  BY RestIs
<1> HIDE DEF c
<1>2. N \in Nat /\ m \in 0 .. Len(c) /\ n + m \in 0 .. N /\ Len(c) - m = N - (n + m)
  BY <1>1
<1>3. d \in Seq(S) /\ Len(d) = Len(c) - m /\ \A k \in 1 .. Len(c) - m : d[k] = c[m + k]
  BY <1>1, <1>2, RestIs
<1>4. e \in Seq(S) /\ Len(e) = N - (n + m) /\ \A k \in 1 .. N - (n + m) : e[k] = b[(n + m) + k]
  BY <1>2, RestIs
<1> HIDE DEF d, e, N
<1>5. ASSUME NEW k \in 1 .. Len(d) PROVE d[k] = e[k]
  <2>1. k \in 1 .. Len(c) - m /\ k \in 1 .. N - (n + m)
    BY <1>2, <1>3
  <2>2. PICK j : j = m + k
    OBVIOUS
  <2>3. j \in 1 .. N - n /\ n + j = (n + m) + k
    BY <1>1, <1>2, <2>1, <2>2
  <2> QED
    BY <1>1, <1>3, <1>4, <2>1, <2>2, <2>3
<1>6. d = e
  BY <1>2, <1>3, <1>4, <1>5, SeqEqual
<1> QED
  BY <1>6 DEF c, d, e

LEMMA RestOfConcat ==
  ASSUME NEW S, NEW x \in Seq(S), NEW y \in Seq(S), NEW n \in 0 .. Len(x)
  PROVE  Rest(x \o y, n) = Rest(x, n) \o y
<1> DEFINE b == x \o y
           M == Len(x)
           N == Len(y)
           c == Rest(x, n)
           d == Rest(b, n)
           e == c \o y
<1>1. /\ b \in Seq(S) /\ Len(b) = M + N /\ M \in Nat /\ N \in Nat
      /\ \A i \in 1 .. M : b[i] = x[i]
      /\ \A i \in 1 .. N : b[M + i] = y[i]
  BY JoinedIs
<1>2. c \in Seq(S) /\ Len(c) = M - n /\ \A k \in 1 .. M - n : c[k] = x[n + k]
  BY RestIs
<1> HIDE DEF b, c
<1>3. n \in 0 .. M /\ n \in 0 .. Len(b) /\ M - n \in Nat
  BY <1>1
<1>4. d \in Seq(S) /\ Len(d) = Len(b) - n /\ \A k \in 1 .. Len(b) - n : d[k] = b[n + k]
  BY <1>1, <1>3, RestIs
<1>5. /\ e \in Seq(S) /\ Len(e) = (M - n) + N
      /\ \A i \in 1 .. M - n : e[i] = c[i]
      /\ \A i \in 1 .. N : e[(M - n) + i] = y[i]
  <2>1. PICK p : p = M - n
    OBVIOUS
  <2>2. p = Len(c) /\ N = Len(y)
    BY <1>2, <2>1
  <2> HIDE DEF M, N
  <2>3. /\ c \o y \in Seq(S) /\ Len(c \o y) = p + N
        /\ \A i \in 1 .. p : (c \o y)[i] = c[i]
        /\ \A i \in 1 .. N : (c \o y)[p + i] = y[i]
    BY <1>2, <2>2, JoinedIs
  <2> QED
    BY <2>1, <2>3
<1> HIDE DEF d, e, M, N
<1>6. Len(d) = Len(e) /\ Len(d) = (M - n) + N
  BY <1>1, <1>3, <1>4, <1>5
<1>7. ASSUME NEW k \in 1 .. Len(d) PROVE d[k] = e[k]
  <2>1. PICK j : j = n + k
    OBVIOUS
  <2>2. k \in 1 .. Len(b) - n /\ j \in 1 .. M + N
    BY <1>1, <1>3, <1>4, <1>6, <2>1
  <2>3. d[k] = b[j]
    BY <1>4, <2>1, <2>2
  <2>4. CASE k <= M - n
    <3>1. k \in 1 .. M - n /\ j \in 1 .. M
      BY <1>1, <1>3, <2>1, <2>2, <2>4
    <3> QED
      BY <1>1, <1>2, <1>5, <2>1, <2>3, <3>1
  <2>5. CASE ~(k <= M - n)
    <3>1. PICK i : i = k - (M - n)
      OBVIOUS
    <3>2. i \in 1 .. N /\ k = (M - n) + i /\ j = M + i
      BY <1>1, <1>3, <1>6, <2>1, <2>2, <2>5, <3>1
    <3> QED
      BY <1>1, <1>5, <2>3, <3>2
  <2> QED
    BY <2>4, <2>5
<1>8. d = e
  BY <1>4, <1>5, <1>6, <1>7, SeqEqual
<1> QED
  BY <1>8 DEF b, c, d, e

(* What a parse makes of what begins at place k.                           *)
LEMMA ParseIs ==
  ASSUME NEW rest, NEW k, NEW h
  PROVE  /\ rest = <<>> => Wire!ParseAt(rest, k, h) = [items |-> <<>>, left |-> <<>>]
         /\ rest # <<>> =>
              /\ rest[1][1] = "plus" => Wire!ParseAt(rest, k, h) = Wire!Then(Wire!Ack, h[k + 1])
              /\ rest[1][1] = "etx" => Wire!ParseAt(rest, k, h) = Wire!Then(Wire!Interrupt, h[k + 1])
              /\ rest[1][1] = "dollar" /\ Wire!Whole(rest) =>
                   Wire!ParseAt(rest, k, h) = Wire!Then(Wire!Opened(rest), h[k + Wire!Hash(rest) + 2])
              /\ rest[1][1] = "dollar" /\ ~Wire!Whole(rest) =>
                   Wire!ParseAt(rest, k, h) = [items |-> <<>>, left |-> rest]
              /\ rest[1][1] \notin {"plus", "etx", "dollar"} => Wire!ParseAt(rest, k, h) = h[k + 1]
<1>1. "plus" # "etx" /\ "plus" # "dollar" /\ "etx" # "dollar"
  OBVIOUS
<1>2. CASE rest = <<>>
  BY <1>2 DEF Wire!ParseAt
<1>3. CASE rest # <<>> /\ rest[1][1] = "plus"
  BY <1>1, <1>3 DEF Wire!ParseAt
<1>4. CASE rest # <<>> /\ rest[1][1] = "etx"
  BY <1>1, <1>4 DEF Wire!ParseAt
<1>5. CASE rest # <<>> /\ rest[1][1] = "dollar"
  BY <1>1, <1>5 DEF Wire!ParseAt
<1>6. CASE rest # <<>> /\ rest[1][1] \notin {"plus", "etx", "dollar"}
  BY <1>6 DEF Wire!ParseAt
<1> QED
  BY <1>1, <1>2, <1>3, <1>4, <1>5, <1>6

(* Where the first '#' is, and that the packet at the front ends behind it. *)
LEMMA HashIs ==
  ASSUME NEW S, NEW b \in Seq(S), Wire!Hashes(b) # {}
  PROVE  /\ Wire!Hash(b) \in 1 .. Len(b) /\ b[Wire!Hash(b)][1] = "hash"
         /\ \A j \in 1 .. Len(b) : j < Wire!Hash(b) => b[j][1] # "hash"
<1> DEFINE H == Wire!Hashes(b)
<1>1. H \subseteq 1 .. Len(b) /\ H # {} /\ \A k \in 1 .. Len(b) : k \in H <=> b[k][1] = "hash"
  BY DEF Wire!Hashes
<1>2. Wire!Hash(b) = CHOOSE k \in H : \A j \in H : k <= j
  BY DEF Wire!Hash
<1> HIDE DEF H
<1>3. PICK k \in H : \A j \in H : k <= j
  <2>1. H \subseteq Nat
    BY <1>1
  <2> QED
    BY <1>1, <2>1, NatLeast
<1>4. Wire!Hash(b) \in H /\ \A j \in H : Wire!Hash(b) <= j
  BY <1>2, <1>3
<1>5. ASSUME NEW j \in 1 .. Len(b), j < Wire!Hash(b) PROVE j \notin H
  <2>1. Wire!Hash(b) \in 1 .. Len(b) /\ (j \in H => Wire!Hash(b) <= j)
    BY <1>1, <1>4
  <2> QED
    BY <1>5, <2>1
<1> QED
  BY <1>1, <1>4, <1>5

(* The first '#' is the one nothing before is.                             *)
LEMMA HashAt ==
  ASSUME NEW S, NEW b \in Seq(S), NEW k \in 1 .. Len(b), b[k][1] = "hash",
         \A j \in 1 .. Len(b) : j < k => b[j][1] # "hash"
  PROVE  Wire!Hashes(b) # {} /\ Wire!Hash(b) = k
<1>1. k \in Wire!Hashes(b)
  BY DEF Wire!Hashes
<1>2. /\ Wire!Hash(b) \in 1 .. Len(b) /\ b[Wire!Hash(b)][1] = "hash"
      /\ \A j \in 1 .. Len(b) : j < Wire!Hash(b) => b[j][1] # "hash"
  BY <1>1, HashIs
<1> QED
  BY <1>1, <1>2

(* What solves the equations of a parse of b.                              *)
Solves(h, b) ==
  \A k \in 1 .. Len(b) + 1 : h[k] = Wire!ParseAt(SubSeq(b, k, Len(b)), k, h)

(* A parse of what lies behind the first n octets is a parse of the whole   *)
(* from there.                                                             *)
LEMMA ParseShifts ==
  ASSUME NEW b \in Seq(Octet), NEW n \in 0 .. Len(b), NEW h, Solves(h, b),
         NEW g, Solves(g, Rest(b, n)), NEW j \in 1 .. Len(b) - n + 1
  PROVE  h[n + j] = g[j]
<1> DEFINE c == Rest(b, n)
           N == Len(b)
           M == Len(c)
           T == {i \in 1 .. M + 1 : h[n + i] # g[i]}
<1>1. c \in Seq(Octet) /\ M = N - n /\ N \in Nat /\ M \in Nat
  BY RestIs
<1>2. SUFFICES ASSUME T # {} PROVE FALSE
  BY <1>1
<1>3. PICK i \in T : \A l \in T : i >= l
  <2>1. T \subseteq 0 .. M + 1 /\ M + 1 \in Nat
    BY <1>1
  <2> HIDE DEF T, M
  <2> QED
    BY <1>2, <2>1, UptoGreatest
<1>4. i \in 1 .. M + 1 /\ h[n + i] # g[i] /\ \A l \in 1 .. M + 1 : l > i => h[n + l] = g[l]
  BY <1>1, <1>3
<1> DEFINE r == Rest(c, i - 1)
<1>5. r = SubSeq(c, i, M) /\ r = SubSeq(b, n + i, N) /\ r \in Seq(Octet) /\ Len(r) = M - (i - 1)
  <2>1. i - 1 \in 0 .. M /\ (i - 1) + 1 = i /\ (n + (i - 1)) + 1 = n + i
    BY <1>1, <1>4
  <2>2. r = Rest(b, n + (i - 1))
    BY <1>1, <2>1, RestOfRest
  <2>3. r \in Seq(Octet) /\ Len(r) = M - (i - 1)
    BY <1>1, <2>1, RestIs
  <2>4. r = SubSeq(c, (i - 1) + 1, M)
    BY DEF Rest
  <2>5. r = SubSeq(b, (n + (i - 1)) + 1, N)
    BY <2>2 DEF Rest
  <2> HIDE DEF r, c, M, N
  <2> QED
    BY <2>1, <2>3, <2>4, <2>5
<1> HIDE DEF r, T
<1>6. n + i \in 1 .. N + 1
  BY <1>1, <1>4
<1>7. h[n + i] = Wire!ParseAt(r, n + i, h)
  BY <1>5, <1>6 DEF Solves
<1>8. g[i] = Wire!ParseAt(r, i, g)
  BY <1>4, <1>5 DEF Solves
<1> HIDE DEF c, M, N
<1>9. CASE r = <<>>
  BY <1>4, <1>7, <1>8, <1>9, ParseIs
<1>10. CASE r # <<>>
  <2>1. Len(r) > 0 /\ i < M + 1
    BY <1>1, <1>4, <1>5, <1>10
  <2>2. h[(n + i) + 1] = g[i + 1]
    <3>1. i + 1 \in 1 .. M + 1 /\ i + 1 > i /\ (n + i) + 1 = n + (i + 1)
      BY <1>1, <1>4, <2>1
    <3> QED
      BY <1>4, <3>1
  <2>3. CASE r[1][1] = "dollar" /\ Wire!Whole(r)
    <3>1. PICK d : d = Wire!Hash(r)
      OBVIOUS
    <3>2. d \in 1 .. Len(r) /\ Len(r) >= d + 2
      BY <1>5, <2>3, <3>1, HashIs DEF Wire!Whole
    <3>3. PICK l : l = i + d + 2
      OBVIOUS
    <3>4. l \in 1 .. M + 1 /\ l > i /\ (n + i) + d + 2 = n + l
      BY <1>1, <1>4, <1>5, <3>2, <3>3
    <3>5. h[(n + i) + d + 2] = g[i + d + 2]
      BY <1>4, <3>3, <3>4
    <3>6. /\ Wire!ParseAt(r, n + i, h) = Wire!Then(Wire!Opened(r), h[(n + i) + d + 2])
          /\ Wire!ParseAt(r, i, g) = Wire!Then(Wire!Opened(r), g[i + d + 2])
      BY <1>10, <2>3, <3>1, ParseIs
    <3> QED
      BY <1>4, <1>7, <1>8, <3>5, <3>6
  <2>4. CASE r[1][1] = "dollar" /\ ~Wire!Whole(r)
    BY <1>4, <1>7, <1>8, <1>10, <2>4, ParseIs
  <2>5. CASE r[1][1] = "plus"
    <3>1. Wire!ParseAt(r, n + i, h) = Wire!Then(Wire!Ack, h[(n + i) + 1]) /\ Wire!ParseAt(r, i, g) = Wire!Then(Wire!Ack, g[i + 1])
      BY <1>10, <2>5, ParseIs
    <3> QED
      BY <1>4, <1>7, <1>8, <2>2, <3>1
  <2>6. CASE r[1][1] = "etx"
    <3>1. /\ Wire!ParseAt(r, n + i, h) = Wire!Then(Wire!Interrupt, h[(n + i) + 1])
          /\ Wire!ParseAt(r, i, g) = Wire!Then(Wire!Interrupt, g[i + 1])
      BY <1>10, <2>6, ParseIs
    <3> QED
      BY <1>4, <1>7, <1>8, <2>2, <3>1
  <2>7. CASE r[1][1] \notin {"plus", "etx", "dollar"}
    <3>1. Wire!ParseAt(r, n + i, h) = h[(n + i) + 1] /\ Wire!ParseAt(r, i, g) = g[i + 1]
      BY <1>10, <2>7, ParseIs
    <3> QED
      BY <1>4, <1>7, <1>8, <2>2, <3>1
  <2> QED
    BY <2>3, <2>4, <2>5, <2>6, <2>7
<1> QED
  BY <1>9, <1>10

(* What is read at place k.                                                *)
ReadsAs(b, k, h) ==
  /\ k > Len(b) => Wire!ReadAt(b, k, h) = <<>>
  /\ k <= Len(b) /\ b[k][1] # "brace" => Wire!ReadAt(b, k, h) = <<b[k]>> \o h[k + 1]
  /\ k < Len(b) /\ b[k][1] = "brace" =>
       Wire!ReadAt(b, k, h) = <<Wire!Flip(b[k + 1])>> \o h[k + 2]
  /\ k = Len(b) /\ b[k][1] = "brace" => Wire!ReadAt(b, k, h) = <<>>

LEMMA ReadIs ==
  ASSUME NEW S, NEW b \in Seq(S), NEW k \in Nat, NEW h
  PROVE  ReadsAs(b, k, h)
<1>0. Len(b) \in Nat
  OBVIOUS
<1>1. (k > Len(b) <=> ~(k <= Len(b))) /\ (k > Len(b) => ~(k < Len(b)))
      /\ (k = Len(b) => ~(k > Len(b)) /\ ~(k < Len(b)) /\ k <= Len(b))
      /\ (k < Len(b) => k <= Len(b)) /\ (k <= Len(b) => k < Len(b) \/ k = Len(b))
  BY <1>0
<1>2. CASE k > Len(b)
  BY <1>1, <1>2 DEF Wire!ReadAt, ReadsAs
<1>3. CASE k <= Len(b) /\ b[k][1] # "brace"
  BY <1>1, <1>3 DEF Wire!ReadAt, ReadsAs
<1>4. CASE k < Len(b) /\ b[k][1] = "brace"
  BY <1>1, <1>4 DEF Wire!ReadAt, ReadsAs
<1>5. CASE k = Len(b) /\ b[k][1] = "brace"
  BY <1>1, <1>5 DEF Wire!ReadAt, ReadsAs
<1> QED
  BY <1>1, <1>2, <1>3, <1>4, <1>5 DEF ReadsAs

Reads(h, b) == \A k \in 1 .. Len(b) + 1 : h[k] = Wire!ReadAt(b, k, h)

LEMMA ReadShifts ==
  ASSUME NEW b \in Seq(Octet), NEW n \in 0 .. Len(b), NEW h, Reads(h, b),
         NEW g, Reads(g, Rest(b, n)), NEW j \in 1 .. Len(b) - n + 1
  PROVE  h[n + j] = g[j]
<1> DEFINE c == Rest(b, n)
           N == Len(b)
           M == Len(c)
           T == {i \in 1 .. M + 1 : h[n + i] # g[i]}
<1>1. c \in Seq(Octet) /\ M = N - n /\ N \in Nat /\ M \in Nat /\ \A i \in 1 .. M : c[i] = b[n + i]
  BY RestIs
<1>2. SUFFICES ASSUME T # {} PROVE FALSE
  BY <1>1
<1>3. PICK i \in T : \A l \in T : i >= l
  <2>1. T \subseteq 0 .. M + 1 /\ M + 1 \in Nat
    BY <1>1
  <2> HIDE DEF T, M
  <2> QED
    BY <1>2, <2>1, UptoGreatest
<1>4. i \in 1 .. M + 1 /\ h[n + i] # g[i] /\ \A l \in 1 .. M + 1 : l > i => h[n + l] = g[l]
  BY <1>1, <1>3
<1>5. PICK k : k = n + i
  OBVIOUS
<1>6. k \in 1 .. N + 1 /\ k \in Nat /\ i \in Nat /\ (k > N <=> i > M)
      /\ (k <= N <=> i <= M) /\ (k < N <=> i < M) /\ (k = N <=> i = M)
  BY <1>1, <1>4, <1>5
<1>10. ReadsAs(b, k, h) /\ ReadsAs(c, i, g)
  BY <1>1, <1>6, ReadIs
<1>7. h[k] = Wire!ReadAt(b, k, h) /\ g[i] = Wire!ReadAt(c, i, g)
  BY <1>1, <1>4, <1>6 DEF Reads
<1> HIDE DEF c, M, N, T
<1>8. CASE k > N
  BY <1>1, <1>4, <1>5, <1>6, <1>7, <1>8, <1>10 DEF ReadsAs, N, M
<1>9. CASE k <= N
  <2>1. i \in 1 .. M /\ b[k] = c[i]
    BY <1>1, <1>4, <1>5, <1>6, <1>9
  <2>2. h[k + 1] = g[i + 1]
    <3>1. i + 1 \in 1 .. M + 1 /\ i + 1 > i /\ k + 1 = n + (i + 1)
      BY <1>1, <1>5, <2>1
    <3> QED
      BY <1>4, <3>1
  <2>3. CASE b[k][1] # "brace"
    <3>1. Wire!ReadAt(b, k, h) = <<b[k]>> \o h[k + 1] /\ Wire!ReadAt(c, i, g) = <<c[i]>> \o g[i + 1]
      BY <1>1, <1>6, <1>9, <2>1, <2>3, <1>10 DEF ReadsAs, N, M
    <3> QED
      BY <1>4, <1>5, <1>7, <2>1, <2>2, <3>1
  <2>4. CASE b[k][1] = "brace" /\ k < N
    <3>1. h[k + 2] = g[i + 2]
      <4>1. i + 2 \in 1 .. M + 1 /\ i + 2 > i /\ k + 2 = n + (i + 2)
        BY <1>1, <1>5, <1>6, <2>1, <2>4
      <4> QED
        BY <1>4, <4>1
    <3>2. b[k + 1] = c[i + 1]
      <4>1. i + 1 \in 1 .. M /\ k + 1 = n + (i + 1)
        BY <1>1, <1>5, <1>6, <2>1, <2>4
      <4> QED
        BY <1>1, <4>1
    <3>3. /\ Wire!ReadAt(b, k, h) = <<Wire!Flip(b[k + 1])>> \o h[k + 2]
          /\ Wire!ReadAt(c, i, g) = <<Wire!Flip(c[i + 1])>> \o g[i + 2]
      BY <1>1, <1>6, <2>1, <2>4, <1>10 DEF ReadsAs, N, M
    <3> QED
      BY <1>4, <1>5, <1>7, <3>1, <3>2, <3>3
  <2>5. CASE b[k][1] = "brace" /\ k = N
    <3>1. Wire!ReadAt(b, k, h) = <<>> /\ Wire!ReadAt(c, i, g) = <<>>
      BY <1>1, <1>6, <2>1, <2>5, <1>10 DEF ReadsAs, N, M
    <3> QED
      BY <1>4, <1>5, <1>7, <3>1
  <2> QED
    BY <1>1, <1>6, <1>9, <2>3, <2>4, <2>5
<1> QED
  BY <1>1, <1>6, <1>8, <1>9

ReadsOf(h, b) == Reads(h, b) /\ Wire!Unescaped(b) = h[1] /\ h[1] \in Seq(Flipped)

LEMMA UnescapedIs ==
  ASSUME NEW b \in Seq(Octet)
  PROVE  \E h : ReadsOf(h, b)
<1> DEFINE N == Len(b) + 1
           D == Seq(Flipped)
           F == [1 .. N -> D]
           G == [k \in 1 .. N |-> [f \in F |-> Wire!ReadAt(b, k, f)]]
           h == CHOOSE f : f = [k \in 1 .. N |-> Wire!ReadAt(b, k, f)]
<1>0. Len(b) \in Nat /\ N \in Nat /\ <<>> \in D /\ D # {} /\ 1 \in 1 .. N
  <2>1. Len(b) \in Nat /\ <<>> \in D
    OBVIOUS
  <2>2. D # {}
    <3> HIDE DEF D
    <3> QED
      BY <2>1
  <2>3. N \in Nat /\ 1 \in 1 .. N
    BY <2>1
  <2> QED
    BY <2>1, <2>2, <2>3
<1>1. ASSUME NEW k \in 1 .. N, NEW f \in F PROVE Wire!ReadAt(b, k, f) \in D
  <2>1. k \in Nat
    BY <1>0
  <2>6. ReadsAs(b, k, f)
    BY <2>1, ReadIs
  <2>2. CASE k > Len(b)
    BY <1>0, <2>1, <2>2, <2>6 DEF ReadsAs
  <2>3. CASE k <= Len(b) /\ b[k][1] # "brace"
    <3>1. k + 1 \in 1 .. N /\ b[k] \in Flipped
      <4>1. k \in 1 .. Len(b)
        BY <1>0, <2>3
      <4>2. b[k] \in Octet
        BY <4>1
      <4> QED
        BY <1>0, <2>3, <4>2 DEF Flipped
    <3>2. <<b[k]>> \in D /\ f[k + 1] \in D
      BY <3>1
    <3>3. <<b[k]>> \o f[k + 1] \in D
      BY <3>2, ConcatProperties
    <3> QED
      BY <1>0, <2>1, <2>3, <2>6, <3>3 DEF ReadsAs
  <2>4. CASE k < Len(b) /\ b[k][1] = "brace"
    <3>1. k + 2 \in 1 .. N /\ Wire!Flip(b[k + 1]) \in Flipped
      <4>1. k + 1 \in 1 .. Len(b)
        BY <1>0, <2>4
      <4>2. b[k + 1] \in Octet
        BY <4>1
      <4> QED
        BY <1>0, <2>4, <4>2 DEF Flipped
    <3>2. <<Wire!Flip(b[k + 1])>> \in D /\ f[k + 2] \in D
      BY <3>1
    <3>3. <<Wire!Flip(b[k + 1])>> \o f[k + 2] \in D
      BY <3>2, ConcatProperties
    <3> QED
      BY <1>0, <2>1, <2>4, <2>6, <3>3 DEF ReadsAs
  <2>5. CASE k = Len(b) /\ b[k][1] = "brace"
    BY <1>0, <2>1, <2>5, <2>6 DEF ReadsAs
  <2> QED
    BY <1>0, <2>1, <2>2, <2>3, <2>4, <2>5
<1>2. ASSUME NEW k \in 1 .. N, NEW f \in F, NEW g \in F, \A j \in 1 .. N : j > k => f[j] = g[j]
      PROVE  Wire!ReadAt(b, k, f) = Wire!ReadAt(b, k, g)
  <2>1. k \in Nat
    BY <1>0
  <2>2. k <= Len(b) => f[k + 1] = g[k + 1]
    <3>1. k <= Len(b) => k + 1 \in 1 .. N /\ k + 1 > k
      BY <1>0
    <3> QED
      BY <1>2, <3>1
  <2>3. k < Len(b) => f[k + 2] = g[k + 2]
    <3>1. k < Len(b) => k + 2 \in 1 .. N /\ k + 2 > k
      BY <1>0
    <3> QED
      BY <1>2, <3>1
  <2>4. /\ k > Len(b) \/ k < Len(b) \/ k = Len(b)
        /\ k < Len(b) \/ k = Len(b) => k <= Len(b)
    BY <1>0, <2>1
  <2>5. ReadsAs(b, k, f) /\ ReadsAs(b, k, g)
    BY <2>1, ReadIs
  <2> HIDE DEF N, D, F
  <2> QED
    BY <2>2, <2>3, <2>4, <2>5 DEF ReadsAs
<1>3. G \in [1 .. N -> [F -> D]]
  BY <1>1
<1>4. \A k \in 1 .. N : \A f, g \in F :
        (\A j \in 1 .. N : j > k => f[j] = g[j]) => G[k][f] = G[k][g]
  BY <1>2
<1>5. PICK f : f \in Descents(N, D, G)
  <2> HIDE DEF G, D, N
  <2>1. Descents(N, D, G) # {}
    BY <1>0, <1>3, <1>4, DownRecursion
  <2> QED
    BY <2>1
<1>6. f \in F /\ \A k \in 1 .. N : f[k] = Wire!ReadAt(b, k, f)
  <2>1. f \in F /\ \A k \in 1 .. N : f[k] = G[k][f]
    <3> HIDE DEF G, D, N
    <3> QED
      BY <1>5 DEF Descents
  <2>2. \A k \in 1 .. N : G[k][f] = Wire!ReadAt(b, k, f)
    BY <2>1
  <2> HIDE DEF G, D, N
  <2> QED
    BY <2>1, <2>2
<1>7. f = [k \in 1 .. N |-> Wire!ReadAt(b, k, f)]
  <2>1. f = [k \in 1 .. N |-> f[k]]
    BY <1>6
  <2> HIDE DEF N, F, D
  <2> QED
    BY <1>6, <2>1
<1>8. h = [k \in 1 .. N |-> Wire!ReadAt(b, k, h)]
  <2> HIDE DEF N
  <2> QED
    BY <1>7
<1>9. Wire!Unescaped(b) = h[1]
  BY DEF Wire!Unescaped
<1> HIDE DEF h
<1>10. \A k \in 1 .. N : h[k] = Wire!ReadAt(b, k, h)
  <2> HIDE DEF N
  <2> QED
    BY <1>8
<1>11. h[1] = f[1]
  <2>1. Rest(b, 0) = b
    BY SubSeqFull DEF Rest
  <2>2. Reads(h, b) /\ Reads(f, b)
    BY <1>6, <1>10 DEF Reads
  <2>3. 0 \in 0 .. Len(b) /\ 1 \in 1 .. Len(b) - 0 + 1
    BY <1>0
  <2>4. h[0 + 1] = f[1]
    <3> HIDE DEF N
    <3> QED
      BY <2>1, <2>2, <2>3, ReadShifts
  <2> QED
    BY <2>4
<1>12. f[1] \in D
  BY <1>0, <1>6
<1> QED
  BY <1>9, <1>10, <1>11, <1>12 DEF ReadsOf, Reads

(* Reading octet by octet. *)
LEMMA UnescapedReads ==
  ASSUME NEW b \in Seq(Octet)
  PROVE  /\ Wire!Unescaped(b) \in Seq(Flipped)
         /\ b = <<>> => Wire!Unescaped(b) = <<>>
         /\ b # <<>> /\ b[1][1] # "brace" =>
              Wire!Unescaped(b) = <<b[1]>> \o Wire!Unescaped(Rest(b, 1))
         /\ Len(b) >= 2 /\ b[1][1] = "brace" =>
              Wire!Unescaped(b) = <<Wire!Flip(b[2])>> \o Wire!Unescaped(Rest(b, 2))
<1>1. PICK h : ReadsOf(h, b)
  BY UnescapedIs
<1>2. Len(b) \in Nat /\ (b = <<>> <=> Len(b) = 0) /\ 1 \in 1 .. Len(b) + 1
  OBVIOUS
<1>3. h[1] = Wire!ReadAt(b, 1, h) /\ Wire!Unescaped(b) = h[1] /\ h[1] \in Seq(Flipped) /\ Reads(h, b)
  BY <1>1, <1>2 DEF ReadsOf, Reads
<1>8. ReadsAs(b, 1, h)
  BY ReadIs
<1>4. ASSUME NEW n \in 1 .. Len(b) PROVE Wire!Unescaped(Rest(b, n)) = h[n + 1]
  <2>1. n \in 0 .. Len(b) /\ 1 \in 1 .. Len(b) - n + 1
    BY <1>2
  <2>2. Rest(b, n) \in Seq(Octet)
    BY <2>1, RestIs
  <2>3. PICK g : ReadsOf(g, Rest(b, n))
    BY <2>2, UnescapedIs
  <2>4. h[n + 1] = g[1]
    BY <1>3, <2>1, <2>3, ReadShifts DEF ReadsOf
  <2> QED
    BY <2>3, <2>4 DEF ReadsOf
<1>5. CASE b = <<>>
  BY <1>2, <1>3, <1>5, <1>8 DEF ReadsAs
<1>6. CASE b # <<>> /\ b[1][1] # "brace"
  <2>1. 1 <= Len(b) /\ 1 \in 1 .. Len(b) /\ 1 \in Nat
    BY <1>2, <1>6
  <2>2. h[1] = <<b[1]>> \o h[1 + 1]
    BY <1>2, <1>3, <1>6, <1>8, <2>1 DEF ReadsAs
  <2>3. Wire!Unescaped(Rest(b, 1)) = h[1 + 1]
    BY <1>4, <2>1
  <2> QED
    BY <1>2, <1>3, <1>6, <2>2, <2>3
<1>7. CASE Len(b) >= 2 /\ b[1][1] = "brace"
  <2>1. 1 < Len(b) /\ 2 \in 1 .. Len(b) /\ 1 \in Nat /\ 1 + 1 = 2 /\ 1 + 2 = 3 /\ 2 + 1 = 3
    BY <1>2, <1>7
  <2>2. h[1] = <<Wire!Flip(b[1 + 1])>> \o h[1 + 2]
    BY <1>2, <1>3, <1>7, <1>8, <2>1 DEF ReadsAs
  <2>3. Wire!Unescaped(Rest(b, 2)) = h[2 + 1]
    BY <1>4, <2>1
  <2> QED
    BY <1>2, <1>3, <1>7, <2>1, <2>2, <2>3
<1> QED
  BY <1>3, <1>5, <1>6, <1>7

(* What a debugger makes of one octet of its data.                         *)
Mark(d) ==
  IF d[1] \in {"hash", "dollar", "brace"} THEN <<<<"brace">>, Wire!Flip(d)>> ELSE <<d>>
Marks(data) == [k \in DOMAIN data |-> Mark(data[k])]

LEMMA FlipIs ==
  ASSUME NEW d \in {<<"hash">>, <<"dollar">>, <<"brace">>}
  PROVE  /\ Wire!Flip(d) \in Plain /\ Wire!Flip(d)[1] # "hash"
         /\ Wire!Flip(Wire!Flip(d)) = d
<1> DEFINE X == Wire!Xor
           N == {"text", "hash", "dollar", "brace"}
<1>1. /\ DOMAIN X = N /\ X["text"] = "space" /\ X["hash"] = "etx"
      /\ X["dollar"] = "eot" /\ X["brace"] = "bracket"
  BY DEF Wire!Xor
<1> HIDE DEF X
<1>2. \A b : Wire!Flip(b) = <<IF b[1] \in N THEN X[b[1]] ELSE CHOOSE c \in N : X[c] = b[1]>>
  BY <1>1 DEF Wire!Flip, X
<1>3. CASE d = <<"hash">>
  <2>1. d[1] = "hash"
    BY <1>3
  <2>2. Wire!Flip(d) = <<"etx">>
    BY <1>1, <1>2, <2>1
  <2>3. (CHOOSE c \in N : X[c] = "etx") = "hash"
    BY <1>1
  <2>4. Wire!Flip(<<"etx">>) = <<CHOOSE c \in N : X[c] = "etx">>
    BY <1>2
  <2>5. Wire!Flip(<<"etx">>) = d
    BY <1>3, <2>3, <2>4
  <2>6. <<"etx">> \in Plain /\ <<"etx">>[1] # "hash"
    BY DEF Plain
  <2> QED
    BY <2>2, <2>5, <2>6
<1>4. CASE d = <<"dollar">>
  <2>1. d[1] = "dollar"
    BY <1>4
  <2>2. Wire!Flip(d) = <<"eot">>
    BY <1>1, <1>2, <2>1
  <2>3. (CHOOSE c \in N : X[c] = "eot") = "dollar"
    BY <1>1
  <2>4. Wire!Flip(<<"eot">>) = <<CHOOSE c \in N : X[c] = "eot">>
    BY <1>2
  <2>5. Wire!Flip(<<"eot">>) = d
    BY <1>4, <2>3, <2>4
  <2>6. <<"eot">> \in Plain /\ <<"eot">>[1] # "hash"
    BY DEF Plain
  <2> QED
    BY <2>2, <2>5, <2>6
<1>5. CASE d = <<"brace">>
  <2>1. d[1] = "brace"
    BY <1>5
  <2>2. Wire!Flip(d) = <<"bracket">>
    BY <1>1, <1>2, <2>1
  <2>3. (CHOOSE c \in N : X[c] = "bracket") = "brace"
    BY <1>1
  <2>4. Wire!Flip(<<"bracket">>) = <<CHOOSE c \in N : X[c] = "bracket">>
    BY <1>2
  <2>5. Wire!Flip(<<"bracket">>) = d
    BY <1>5, <2>3, <2>4
  <2>6. <<"bracket">> \in Plain /\ <<"bracket">>[1] # "hash"
    BY DEF Plain
  <2> QED
    BY <2>2, <2>5, <2>6
<1> QED
  BY <1>3, <1>4, <1>5

LEMMA MarkIs ==
  ASSUME NEW d \in PacketData
  PROVE  /\ Mark(d) \in Seq(Plain) /\ \A k \in 1 .. Len(Mark(d)) : Mark(d)[k][1] # "hash"
         /\ d \in Plain
         /\ \/ Mark(d) = <<d>> /\ d[1] # "brace"
            \/ Mark(d) = <<<<"brace">>, Wire!Flip(d)>> /\ Wire!Flip(Wire!Flip(d)) = d
<1>1. d \in {<<"text">>, <<"hash">>, <<"dollar">>, <<"brace">>}
  BY PacketsAssumption
<1>2. CASE d = <<"text">>
  <2>1. Mark(d) = <<d>> /\ d \in Plain /\ d[1] = "text"
    BY <1>2 DEF Mark, Plain
  <2> QED
    BY <2>1
<1>3. CASE d \in {<<"hash">>, <<"dollar">>, <<"brace">>}
  <2>1. Mark(d) = <<<<"brace">>, Wire!Flip(d)>> /\ d \in Plain /\ <<"brace">> \in Plain
    BY <1>3 DEF Mark, Plain
  <2>2. Wire!Flip(d) \in Plain /\ Wire!Flip(d)[1] # "hash" /\ Wire!Flip(Wire!Flip(d)) = d
    BY <1>3, FlipIs
  <2>3. <<"brace">>[1] # "hash"
    OBVIOUS
  <2> QED
    BY <2>1, <2>2, <2>3
<1> QED
  BY <1>1, <1>2, <1>3

LEMMA MarksAre ==
  ASSUME NEW data \in Seq(PacketData)
  PROVE  Marks(data) \in Seq(Seq(Plain)) /\ Wire!Escaped(data) = Wire!FlattenSeq(Marks(data))
<1>1. \A k \in 1 .. Len(data) : Mark(data[k]) \in Seq(Plain)
  BY MarkIs
<1>2. Marks(data) = [k \in 1 .. Len(data) |-> Mark(data[k])] /\ Len(data) \in Nat
  BY DEF Marks
<1>3. Marks(data) \in Seq(Seq(Plain))
  BY <1>1, <1>2
<1> QED
  BY <1>3 DEF Wire!Escaped, Marks, Mark

LEMMA EscapedFirst ==
  ASSUME NEW data \in Seq(PacketData), data # <<>>
  PROVE  Wire!Escaped(data) = Mark(data[1]) \o Wire!Escaped(Rest(data, 1))
<1> DEFINE r == Rest(data, 1)
           s == Marks(data)
           t == Marks(r)
           x == Mark(data[1])
           N == Len(data)
<1>1. N \in Nat /\ 1 \in 1 .. N /\ data[1] \in PacketData
  OBVIOUS
<1>2. r \in Seq(PacketData) /\ Len(r) = N - 1 /\ \A k \in 1 .. N - 1 : r[k] = data[1 + k]
  BY <1>1, RestIs
<1>3. x \in Seq(Plain)
  BY <1>1, MarkIs
<1>4. s \in Seq(Seq(Plain)) /\ t \in Seq(Seq(Plain))
  BY <1>2, MarksAre
<1>5. /\ Len(s) = N /\ \A k \in 1 .. N : s[k] = Mark(data[k])
      /\ Len(t) = N - 1 /\ \A k \in 1 .. N - 1 : t[k] = Mark(data[1 + k])
  <2>1. s = [k \in 1 .. N |-> Mark(data[k])]
    BY DEF Marks
  <2>2. t = [k \in 1 .. N - 1 |-> Mark(r[k])] /\ N - 1 \in Nat
    BY <1>1, <1>2 DEF Marks
  <2> HIDE DEF s, t, r
  <2> QED
    BY <1>1, <1>2, <2>1, <2>2
<1> HIDE DEF s, t, r, x
<1> DEFINE u == <<x>> \o t
<1>6. <<x>> \in Seq(Seq(Plain)) /\ Len(<<x>>) = 1 /\ <<x>>[1] = x
  BY <1>3
<1>7. /\ u \in Seq(Seq(Plain)) /\ Len(u) = 1 + (N - 1) /\ u[1] = x
      /\ \A i \in 1 .. N - 1 : u[1 + i] = t[i]
  BY <1>4, <1>5, <1>6, JoinedIs
<1> HIDE DEF u
<1>8. ASSUME NEW k \in 1 .. Len(s) PROVE s[k] = u[k]
  <2>1. CASE k = 1
    BY <1>5, <1>7, <1>8, <2>1 DEF x
  <2>2. CASE k # 1
    <3>1. PICK i : i = k - 1
      OBVIOUS
    <3>2. i \in 1 .. N - 1 /\ k = 1 + i /\ k \in 1 .. N
      BY <1>1, <1>5, <1>8, <2>2, <3>1
    <3> QED
      BY <1>5, <1>7, <3>2
  <2> QED
    BY <2>1, <2>2
<1>9. s = u
  <2>1. Len(s) = Len(u)
    BY <1>1, <1>5, <1>7
  <2> QED
    BY <1>4, <1>7, <1>8, <2>1, SeqEqual
<1>10. Wire!FlattenSeq(u) = Wire!FlattenSeq(<<x>>) \o Wire!FlattenSeq(t)
  BY <1>4, <1>6, FlattenConcat DEF u
<1>11. Wire!FlattenSeq(<<x>>) = x
  <2>1. <<>> \in Seq(Seq(Plain)) /\ Append(<<>>, x) = <<x>> /\ <<>> \o x = x
    BY <1>3
  <2> QED
    BY <1>3, <2>1, FlattenAppend, FlattenEmpty
<1> QED
  BY <1>2, <1>9, <1>10, <1>11, MarksAre DEF s, t, r, x

(* What is escaped has no '#' in it, and reads as what it was made of.     *)
EscapesWell(data) ==
  /\ Wire!Escaped(data) \in Seq(Plain)
  /\ \A k \in 1 .. Len(Wire!Escaped(data)) : Wire!Escaped(data)[k][1] # "hash"
  /\ Wire!Unescaped(Wire!Escaped(data)) = data

LEMMA RestBehind ==
  ASSUME NEW S, NEW x \in Seq(S), NEW y \in Seq(S), NEW n, n = Len(x)
  PROVE  Rest(x \o y, n) = y
<1>1. n \in 0 .. Len(x)
  OBVIOUS
<1>2. Rest(x \o y, n) = Rest(x, n) \o y
  BY <1>1, RestOfConcat
<1>3. Rest(x, n) \in Seq(S) /\ Len(Rest(x, n)) = Len(x) - n
  BY <1>1, RestIs
<1>4. Rest(x, n) = <<>>
  BY <1>3
<1> QED
  BY <1>2, <1>4

LEMMA PlainOctets == Plain \subseteq Octet
  BY DEF Octet

LEMMA EscapedIs ==
  ASSUME NEW data \in Seq(PacketData)
  PROVE  EscapesWell(data)
<1> DEFINE N == Len(data)
           T == {m \in 0 .. N : \A d \in Seq(PacketData) : Len(d) = m => EscapesWell(d)}
<1>0. N \in Nat
  OBVIOUS
<1>1. 0 \in T
  <2>1. ASSUME NEW d \in Seq(PacketData), Len(d) = 0 PROVE EscapesWell(d)
    <3>1. d = <<>>
      BY <2>1
    <3>2. Marks(d) = <<>>
      BY <3>1 DEF Marks
    <3>3. Wire!Escaped(d) = <<>>
      BY <2>1, <3>2, MarksAre, FlattenEmpty
    <3>4. <<>> \in Seq(Octet) /\ <<>> \in Seq(Plain) /\ Len(<<>>) = 0
      OBVIOUS
    <3>5. Wire!Unescaped(<<>>) = <<>>
      BY <3>4, UnescapedReads
    <3>6. \A k \in 1 .. Len(<<>>) : FALSE
      BY <3>4
    <3> QED
      BY <3>1, <3>3, <3>4, <3>5, <3>6 DEF EscapesWell
  <2>2. 0 \in 0 .. N
    BY <1>0
  <2> QED
    BY <2>1, <2>2
<1>2. ASSUME NEW m \in 0 .. N, m < N, m \in T PROVE m + 1 \in T
  <2>1. m + 1 \in 0 .. N /\ m \in Nat
    BY <1>0, <1>2
  <2>2. ASSUME NEW d \in Seq(PacketData), Len(d) = m + 1 PROVE EscapesWell(d)
    <3> DEFINE r == Rest(d, 1)
               e == Wire!Escaped(r)
               x == Mark(d[1])
               b == x \o e
    <3>1. 1 \in 0 .. Len(d) /\ d # <<>> /\ d[1] \in PacketData /\ 1 \in 1 .. Len(d)
          /\ Len(d) - 1 = m
      BY <2>1, <2>2
    <3>2. r \in Seq(PacketData) /\ Len(r) = m
      BY <3>1, RestIs
    <3>3. EscapesWell(r)
      BY <1>2, <3>2
    <3>4. Wire!Escaped(d) = b
      BY <3>1, EscapedFirst
    <3>5. d = <<d[1]>> \o r
      <4>1. SubSeq(d, 1, Len(d)) = <<d[1]>> \o SubSeq(d, 1 + 1, Len(d))
        <5>1. Len(d) \in 1 .. Len(d)
          BY <2>1, <2>2
        <5> QED
          BY <3>1, <5>1, SubSeqRecursiveFirst
      <4> QED
        BY <4>1, SubSeqFull DEF Rest
    <3>6. /\ e \in Seq(Plain) /\ \A k \in 1 .. Len(e) : e[k][1] # "hash"
          /\ Wire!Unescaped(e) = r
      BY <3>3 DEF EscapesWell
    <3>7. /\ x \in Seq(Plain) /\ \A k \in 1 .. Len(x) : x[k][1] # "hash"
          /\ \/ x = <<d[1]>> /\ d[1][1] # "brace"
             \/ x = <<<<"brace">>, Wire!Flip(d[1])>> /\ Wire!Flip(Wire!Flip(d[1])) = d[1]
      BY <3>1, MarkIs
    <3> HIDE DEF r, e, x
    <3>8. /\ b \in Seq(Plain) /\ Len(b) = Len(x) + Len(e) /\ Len(x) \in Nat /\ Len(e) \in Nat
          /\ \A i \in 1 .. Len(x) : b[i] = x[i]
          /\ \A i \in 1 .. Len(e) : b[Len(x) + i] = e[i]
      BY <3>6, <3>7, JoinedIs
    <3>9. Rest(b, Len(x)) = e
      BY <3>6, <3>7, RestBehind
    <3> HIDE DEF b
    <3>10. ASSUME NEW k \in 1 .. Len(b) PROVE b[k][1] # "hash"
      <4>1. CASE k <= Len(x)
        <5>1. k \in 1 .. Len(x)
          BY <3>8, <4>1
        <5> QED
          BY <3>7, <3>8, <5>1
      <4>2. CASE ~(k <= Len(x))
        <5>1. PICK i : i = k - Len(x)
          OBVIOUS
        <5>2. i \in 1 .. Len(e) /\ k = Len(x) + i
          BY <3>8, <4>2, <5>1
        <5> QED
          BY <3>6, <3>8, <5>2
      <4> QED
        BY <4>1, <4>2
    <3>11. b \in Seq(Octet)
      BY <3>8, PlainOctets, SeqMonotonic
    <3>12. Wire!Unescaped(b) = d
      <4>1. CASE x = <<d[1]>> /\ d[1][1] # "brace"
        <5>1. Len(x) = 1 /\ x[1] = d[1]
          BY <4>1
        <5>2. b # <<>> /\ b[1] = d[1] /\ Rest(b, 1) = e
          BY <3>8, <3>9, <5>1
        <5>3. Wire!Unescaped(b) = <<b[1]>> \o Wire!Unescaped(Rest(b, 1))
          BY <3>11, <4>1, <5>2, UnescapedReads
        <5> QED
          BY <3>5, <3>6, <5>2, <5>3
      <4>2. CASE x = <<<<"brace">>, Wire!Flip(d[1])>> /\ Wire!Flip(Wire!Flip(d[1])) = d[1]
        <5>1. Len(x) = 2 /\ x[1] = <<"brace">> /\ x[2] = Wire!Flip(d[1])
          BY <4>2
        <5>2. Len(b) >= 2 /\ b[1][1] = "brace" /\ b[2] = Wire!Flip(d[1]) /\ Rest(b, 2) = e
          BY <3>8, <3>9, <5>1
        <5>3. Wire!Unescaped(b) = <<Wire!Flip(b[2])>> \o Wire!Unescaped(Rest(b, 2))
          BY <3>11, <5>2, UnescapedReads
        <5> QED
          BY <3>5, <3>6, <4>2, <5>2, <5>3
      <4> QED
        BY <3>7, <4>1, <4>2
    <3> QED
      BY <3>4, <3>8, <3>10, <3>12 DEF EscapesWell
  <2> QED
    BY <2>1, <2>2
<1> HIDE DEF T
<1>3. 0 .. N \subseteq T
  BY <1>0, <1>1, <1>2, UptoInduction
<1>4. N \in T
  BY <1>0, <1>3
<1> QED
  BY <1>4 DEF T

LEMMA OpenedIsItem ==
  ASSUME NEW b \in Seq(Octet), Wire!Hashes(b) # {}
  PROVE  Wire!Opened(b) \in Item
<1> DEFINE p == SubSeq(b, 2, Wire!Hash(b) - 1)
<1>1. Wire!Hash(b) \in 1 .. Len(b) /\ Len(b) \in Nat
  BY HashIs
<1>2. p \in Seq(Octet)
  <2>1. 2 \in Int /\ Wire!Hash(b) - 1 \in Int
    BY <1>1
  <2>2. \A i \in 2 .. Wire!Hash(b) - 1 : b[i] \in Octet
    <3>1. \A i \in 2 .. Wire!Hash(b) - 1 : i \in 1 .. Len(b)
      BY <1>1
    <3> QED
      BY <3>1
  <2> QED
    BY <2>1, <2>2, SubSeqProperties
<1> HIDE DEF p
<1>3. Wire!Unescaped(p) \in Seq(Flipped)
  BY <1>2, UnescapedReads
<1>4. Wire!Opened(b) = Wire!Packet(Wire!Unescaped(p)) \/ Wire!Opened(b) = Wire!Corrupt
  BY DEF Wire!Opened, p
<1>5. Wire!Packet(Wire!Unescaped(p)) \in Item
  BY <1>3 DEF Wire!Packet, Item
<1> QED
  BY <1>4, <1>5 DEF Item

ParsesOf(h, b) == Solves(h, b) /\ Wire!Items(b) = h[1] /\ h[1] \in Parsed

LEMMA ThenIsParsed ==
  ASSUME NEW item \in Item, NEW r \in Parsed
  PROVE  Wire!Then(item, r) \in Parsed
<1>1. r.items \in Seq(Item) /\ r.left \in Seq(Octet) /\ <<item>> \in Seq(Item)
  BY DEF Parsed
<1>2. <<item>> \o r.items \in Seq(Item)
  BY <1>1, ConcatProperties
<1> QED
  BY <1>1, <1>2 DEF Parsed, Wire!Then

LEMMA ItemsIs ==
  ASSUME NEW b \in Seq(Octet)
  PROVE  \E h : ParsesOf(h, b)
<1> DEFINE N == Len(b) + 1
           D == Parsed
           F == [1 .. N -> D]
           R(k) == SubSeq(b, k, Len(b))
           G == [k \in 1 .. N |-> [f \in F |-> Wire!ParseAt(R(k), k, f)]]
           h == CHOOSE f : f = [k \in 1 .. N |-> Wire!ParseAt(R(k), k, f)]
           nothing == [items |-> <<>>, left |-> <<>>]
<1>0. Len(b) \in Nat /\ N \in Nat /\ nothing \in D /\ D # {} /\ 1 \in 1 .. N
  <2>1. nothing \in D
    BY DEF Parsed
  <2>2. D # {}
    <3> HIDE DEF D
    <3> QED
      BY <2>1
  <2>3. Len(b) \in Nat
    OBVIOUS
  <2>4. N \in Nat /\ 1 \in 1 .. N
    BY <2>3
  <2> QED
    BY <2>1, <2>2, <2>3, <2>4
<1>1. ASSUME NEW k \in 1 .. N
      PROVE  /\ R(k) \in Seq(Octet) /\ Len(R(k)) = N - k
             /\ R(k) # <<>> => k + 1 \in 1 .. N /\ k + 1 > k
             /\ R(k) # <<>> /\ Wire!Whole(R(k)) =>
                  /\ k + Wire!Hash(R(k)) + 2 \in 1 .. N /\ k + Wire!Hash(R(k)) + 2 > k
                  /\ Wire!Opened(R(k)) \in Item
  <2>1. k - 1 \in 0 .. Len(b) /\ (k - 1) + 1 = k /\ Len(b) - (k - 1) = N - k
    BY <1>0
  <2>2. R(k) = Rest(b, k - 1)
    BY <2>1 DEF Rest
  <2>3. R(k) \in Seq(Octet) /\ Len(R(k)) = N - k
    <3> HIDE DEF R, N
    <3> QED
      BY <2>1, <2>2, RestIs
  <2> DEFINE r == R(k)
  <2>4. r \in Seq(Octet) /\ Len(r) = N - k
    BY <2>3
  <2> HIDE DEF r
  <2>5. r # <<>> => k + 1 \in 1 .. N /\ k + 1 > k
    <3>1. r # <<>> => Len(r) > 0
      BY <2>4
    <3> QED
      BY <1>0, <2>4, <3>1
  <2>6. ASSUME Wire!Whole(r)
        PROVE  k + Wire!Hash(r) + 2 \in 1 .. N /\ k + Wire!Hash(r) + 2 > k /\ Wire!Opened(r) \in Item
    <3>1. Wire!Hashes(r) # {} /\ Len(r) >= Wire!Hash(r) + 2
      BY <2>6 DEF Wire!Whole
    <3>2. Wire!Hash(r) \in 1 .. Len(r) /\ Wire!Opened(r) \in Item
      BY <2>4, <3>1, HashIs, OpenedIsItem
    <3> QED
      BY <1>0, <2>4, <3>1, <3>2
  <2> QED
    BY <2>4, <2>5, <2>6 DEF r
<1> HIDE DEF R, D
<1>2. ASSUME NEW k \in 1 .. N, NEW f \in F PROVE Wire!ParseAt(R(k), k, f) \in D
  <2> DEFINE r == R(k)
             a == Wire!ParseAt(r, k, f)
  <2>1. CASE r = <<>>
    BY <1>0, <2>1, ParseIs
  <2>2. CASE r # <<>> /\ r[1][1] = "plus"
    <3>3. f[k + 1] \in D
      BY <1>1, <2>2
    <3>1. a = Wire!Then(Wire!Ack, f[k + 1])
      BY <2>2, ParseIs
    <3>2. Wire!Ack \in Item
      BY DEF Item
    <3> QED
      BY <3>1, <3>2, <3>3, ThenIsParsed DEF D
  <2>3. CASE r # <<>> /\ r[1][1] = "etx"
    <3>3. f[k + 1] \in D
      BY <1>1, <2>3
    <3>1. a = Wire!Then(Wire!Interrupt, f[k + 1])
      BY <2>3, ParseIs
    <3>2. Wire!Interrupt \in Item
      BY DEF Item
    <3> QED
      BY <3>1, <3>2, <3>3, ThenIsParsed DEF D
  <2>4. CASE r # <<>> /\ r[1][1] = "dollar" /\ Wire!Whole(r)
    <3>1. /\ a = Wire!Then(Wire!Opened(r), f[k + Wire!Hash(r) + 2])
          /\ f[k + Wire!Hash(r) + 2] \in D /\ Wire!Opened(r) \in Item
      BY <1>1, <2>4, ParseIs
    <3> QED
      BY <3>1, ThenIsParsed DEF D
  <2>5. CASE r # <<>> /\ r[1][1] = "dollar" /\ ~Wire!Whole(r)
    <3>1. a = [items |-> <<>>, left |-> r] /\ r \in Seq(Octet)
      BY <1>1, <2>5, ParseIs
    <3> QED
      BY <3>1 DEF D, Parsed
  <2>6. CASE r # <<>> /\ r[1][1] \notin {"plus", "etx", "dollar"}
    <3>1. a = f[k + 1] /\ f[k + 1] \in D
      BY <1>1, <2>6, ParseIs
    <3> QED
      BY <3>1
  <2> HIDE DEF r, F, N
  <2> QED
    BY <2>1, <2>2, <2>3, <2>4, <2>5, <2>6 DEF r
<1>3. ASSUME NEW k \in 1 .. N, NEW f \in F, NEW g \in F, \A j \in 1 .. N : j > k => f[j] = g[j]
      PROVE  Wire!ParseAt(R(k), k, f) = Wire!ParseAt(R(k), k, g)
  <2> DEFINE r == R(k)
  <2>0. SUFFICES Wire!ParseAt(r, k, f) = Wire!ParseAt(r, k, g)
    OBVIOUS
  <2>1. r # <<>> => f[k + 1] = g[k + 1]
    BY <1>1, <1>3
  <2>2. r # <<>> /\ Wire!Whole(r) => f[k + Wire!Hash(r) + 2] = g[k + Wire!Hash(r) + 2]
    BY <1>1, <1>3
  <2> HIDE DEF r, F, N
  <2>3. CASE r = <<>>
    BY <2>3, ParseIs
  <2>4. CASE r # <<>> /\ r[1][1] = "plus"
    BY <2>1, <2>4, ParseIs
  <2>5. CASE r # <<>> /\ r[1][1] = "etx"
    BY <2>1, <2>5, ParseIs
  <2>6. CASE r # <<>> /\ r[1][1] = "dollar" /\ Wire!Whole(r)
    BY <2>2, <2>6, ParseIs
  <2>7. CASE r # <<>> /\ r[1][1] = "dollar" /\ ~Wire!Whole(r)
    BY <2>7, ParseIs
  <2>8. CASE r # <<>> /\ r[1][1] \notin {"plus", "etx", "dollar"}
    BY <2>1, <2>8, ParseIs
  <2> QED
    BY <2>3, <2>4, <2>5, <2>6, <2>7, <2>8
<1>4. G \in [1 .. N -> [F -> D]]
  BY <1>2
<1>5. \A k \in 1 .. N : \A f, g \in F :
        (\A j \in 1 .. N : j > k => f[j] = g[j]) => G[k][f] = G[k][g]
  BY <1>3
<1>6. PICK f : f \in Descents(N, D, G)
  <2> HIDE DEF G, N
  <2>1. Descents(N, D, G) # {}
    BY <1>0, <1>4, <1>5, DownRecursion
  <2> QED
    BY <2>1
<1>7. f \in F /\ \A k \in 1 .. N : f[k] = Wire!ParseAt(R(k), k, f)
  <2>1. f \in F /\ \A k \in 1 .. N : f[k] = G[k][f]
    <3> HIDE DEF G, N
    <3> QED
      BY <1>6 DEF Descents
  <2>2. \A k \in 1 .. N : G[k][f] = Wire!ParseAt(R(k), k, f)
    BY <2>1
  <2> HIDE DEF G, N
  <2> QED
    BY <2>1, <2>2
<1>8. f = [k \in 1 .. N |-> Wire!ParseAt(R(k), k, f)]
  <2>1. f = [k \in 1 .. N |-> f[k]]
    BY <1>7
  <2> HIDE DEF N, F
  <2> QED
    BY <1>7, <2>1
<1>9. h = [k \in 1 .. N |-> Wire!ParseAt(R(k), k, h)]
  <2> HIDE DEF N
  <2> QED
    BY <1>8
<1>10. Wire!Items(b) = h[1]
  BY DEF Wire!Items, R
<1> HIDE DEF h
<1>11. \A k \in 1 .. N : h[k] = Wire!ParseAt(R(k), k, h)
  <2> HIDE DEF N
  <2> QED
    BY <1>9
<1>12. Solves(h, b) /\ Solves(f, b)
  BY <1>7, <1>11 DEF Solves, R
<1>13. h[1] = f[1]
  <2>1. Rest(b, 0) = b
    BY SubSeqFull DEF Rest
  <2>2. 0 \in 0 .. Len(b) /\ 1 \in 1 .. Len(b) - 0 + 1
    BY <1>0
  <2>3. h[0 + 1] = f[1]
    <3> HIDE DEF N
    <3> QED
      BY <1>12, <2>1, <2>2, ParseShifts
  <2> QED
    BY <2>3
<1>14. f[1] \in D
  BY <1>0, <1>7
<1> QED
  BY <1>10, <1>12, <1>13, <1>14 DEF ParsesOf, D

(* Taking the items out one by one. *)
LEMMA ItemsTaken ==
  ASSUME NEW b \in Seq(Octet)
  PROVE  /\ Wire!Items(b) \in Parsed
         /\ b = <<>> => Wire!Items(b) = [items |-> <<>>, left |-> <<>>]
         /\ b # <<>> =>
              /\ b[1][1] = "plus" => Wire!Items(b) = Wire!Then(Wire!Ack, Wire!Items(Rest(b, 1)))
              /\ b[1][1] = "etx" => Wire!Items(b) = Wire!Then(Wire!Interrupt, Wire!Items(Rest(b, 1)))
              /\ b[1][1] = "dollar" /\ Wire!Whole(b) =>
                   Wire!Items(b) = Wire!Then(Wire!Opened(b), Wire!Items(Rest(b, Wire!Hash(b) + 2)))
              /\ b[1][1] = "dollar" /\ ~Wire!Whole(b) =>
                   Wire!Items(b) = [items |-> <<>>, left |-> b]
              /\ b[1][1] \notin {"plus", "etx", "dollar"} =>
                   Wire!Items(b) = Wire!Items(Rest(b, 1))
<1>1. PICK h : ParsesOf(h, b)
  BY ItemsIs
<1>2. Len(b) \in Nat /\ (b = <<>> <=> Len(b) = 0) /\ 1 \in 1 .. Len(b) + 1
      /\ SubSeq(b, 1, Len(b)) = b
  BY SubSeqFull
<1>3. h[1] = Wire!ParseAt(b, 1, h) /\ Wire!Items(b) = h[1] /\ h[1] \in Parsed /\ Solves(h, b)
  BY <1>1, <1>2 DEF ParsesOf, Solves
<1>4. ASSUME NEW n \in 1 .. Len(b) PROVE Wire!Items(Rest(b, n)) = h[1 + n]
  <2>1. n \in 0 .. Len(b) /\ 1 \in 1 .. Len(b) - n + 1 /\ n + 1 = 1 + n
    BY <1>2
  <2>2. Rest(b, n) \in Seq(Octet)
    BY <2>1, RestIs
  <2>3. PICK g : ParsesOf(g, Rest(b, n))
    BY <2>2, ItemsIs
  <2>4. h[n + 1] = g[1]
    BY <1>3, <2>1, <2>3, ParseShifts DEF ParsesOf
  <2> QED
    BY <2>1, <2>3, <2>4 DEF ParsesOf
<1>5. b # <<>> => Wire!Items(Rest(b, 1)) = h[1 + 1]
  <2>1. b # <<>> => 1 \in 1 .. Len(b)
    BY <1>2
  <2> QED
    BY <1>4, <2>1
<1>6. Wire!Whole(b) => Wire!Items(Rest(b, Wire!Hash(b) + 2)) = h[1 + Wire!Hash(b) + 2]
  <2> SUFFICES ASSUME Wire!Whole(b)
               PROVE  Wire!Items(Rest(b, Wire!Hash(b) + 2)) = h[1 + Wire!Hash(b) + 2]
    OBVIOUS
  <2>1. Wire!Hash(b) \in 1 .. Len(b) /\ Len(b) >= Wire!Hash(b) + 2
    BY HashIs DEF Wire!Whole
  <2>2. Wire!Hash(b) + 2 \in 1 .. Len(b) /\ 1 + (Wire!Hash(b) + 2) = 1 + Wire!Hash(b) + 2
    BY <1>2, <2>1
  <2> QED
    BY <1>4, <2>2
<1> QED
  BY <1>3, <1>5, <1>6, ParseIs

(* Where the first packet ends does not depend on what comes behind.       *)
LEMMA WholeStays ==
  ASSUME NEW x \in Seq(Octet), NEW y \in Seq(Octet), Wire!Whole(x)
  PROVE  /\ Wire!Whole(x \o y) /\ Wire!Hash(x \o y) = Wire!Hash(x)
         /\ Wire!Opened(x \o y) = Wire!Opened(x)
         /\ Wire!Hash(x) + 2 \in 1 .. Len(x) /\ x # <<>>
<1> DEFINE b == x \o y
           d == Wire!Hash(x)
           M == Len(x)
<1>1. /\ b \in Seq(Octet) /\ Len(b) = M + Len(y) /\ M \in Nat /\ Len(y) \in Nat
      /\ \A i \in 1 .. M : b[i] = x[i]
  BY JoinedIs
<1> HIDE DEF b, d
<1>2. Wire!Hashes(x) # {} /\ M >= d + 2
  BY DEF Wire!Whole, d
<1>3. d \in 1 .. M /\ x[d][1] = "hash" /\ \A j \in 1 .. M : j < d => x[j][1] # "hash"
  BY <1>2, HashIs DEF d
<1> HIDE DEF M
<1>4. Wire!Hashes(b) # {} /\ Wire!Hash(b) = d
  <2>1. d \in 1 .. Len(b) /\ b[d][1] = "hash"
    BY <1>1, <1>3
  <2>2. ASSUME NEW j \in 1 .. Len(b), j < d PROVE b[j][1] # "hash"
    <3>1. j \in 1 .. M
      BY <1>1, <1>3, <2>2
    <3> QED
      BY <1>1, <1>3, <2>2, <3>1
  <2> QED
    BY <1>1, <2>1, <2>2, HashAt
<1>5. Wire!Whole(b)
  <2>1. Len(b) >= d + 2
    BY <1>1, <1>2, <1>3
  <2> QED
    BY <1>4, <2>1 DEF Wire!Whole
<1>6. ASSUME NEW m \in 1 .. M, NEW n \in 0 .. M PROVE SubSeq(b, m, n) = SubSeq(x, m, n)
  <2>1. /\ SubSeq(b, m, n) = [i \in 1 .. n - m + 1 |-> b[m + i - 1]]
        /\ SubSeq(x, m, n) = [i \in 1 .. n - m + 1 |-> x[m + i - 1]]
    BY <1>1, <1>6
  <2>2. ASSUME NEW i \in 1 .. n - m + 1 PROVE b[m + i - 1] = x[m + i - 1]
    <3>1. m + i - 1 \in 1 .. M
      BY <1>1, <1>6
    <3> QED
      BY <1>1, <3>1
  <2> QED
    BY <2>1, <2>2
<1>7. SubSeq(b, 2, d - 1) = SubSeq(x, 2, d - 1)
  <2>1. 2 \in 1 .. M /\ d - 1 \in 0 .. M
    BY <1>1, <1>2, <1>3
  <2> QED
    BY <1>6, <2>1
<1>8. SubSeq(b, d + 1, d + 2) = SubSeq(x, d + 1, d + 2)
  <2>1. d + 1 \in 1 .. M /\ d + 2 \in 0 .. M
    BY <1>1, <1>2, <1>3
  <2> QED
    BY <1>6, <2>1
<1>9. Wire!Opened(b) = Wire!Opened(x)
  BY <1>4, <1>7, <1>8 DEF Wire!Opened, d
<1>10. d + 2 \in 1 .. M /\ x # <<>>
  BY <1>1, <1>2, <1>3 DEF M
<1> QED
  BY <1>4, <1>5, <1>9, <1>10 DEF b, d, M

(* Octets that arrive in two parts: the items of the first, then those of   *)
(* what is left of it with the second behind.                              *)
Behind(p, q) == [items |-> p.items \o q.items, left |-> q.left]
InTwo(x, y) ==
  Wire!Items(x \o y) = Behind(Wire!Items(x), Wire!Items(Wire!Items(x).left \o y))

LEMMA BehindNothing ==
  ASSUME NEW q \in Parsed, NEW l
  PROVE  Behind([items |-> <<>>, left |-> l], q) = q
<1>1. q.items \in Seq(Item) /\ q = [items |-> q.items, left |-> q.left]
  BY DEF Parsed
<1>2. <<>> \o q.items = q.items
  BY <1>1, ConcatEmptySeq
<1> QED
  BY <1>1, <1>2 DEF Behind

LEMMA BehindThen ==
  ASSUME NEW item \in Item, NEW p \in Parsed, NEW q \in Parsed
  PROVE  Behind(Wire!Then(item, p), q) = Wire!Then(item, Behind(p, q)) /\ Wire!Then(item, p).left = p.left
<1>1. p.items \in Seq(Item) /\ q.items \in Seq(Item) /\ <<item>> \in Seq(Item)
  BY DEF Parsed
<1>2. (<<item>> \o p.items) \o q.items = <<item>> \o (p.items \o q.items)
  <2> DEFINE u == <<item>>
             v == p.items
             w == q.items
  <2>1. u \in Seq(Item) /\ v \in Seq(Item) /\ w \in Seq(Item)
    BY <1>1
  <2> HIDE DEF u, v, w
  <2>2. (u \o v) \o w = u \o (v \o w)
    BY ONLY <2>1, Regrouped
  <2> QED
    BY <2>2 DEF u, v, w
<1> QED
  BY <1>2 DEF Behind, Wire!Then

LEMMA ItemsInTwo ==
  ASSUME NEW x \in Seq(Octet), NEW y \in Seq(Octet)
  PROVE  InTwo(x, y)
<1> DEFINE N == Len(x)
           T == {m \in 0 .. N : \A s \in Seq(Octet) : Len(s) <= m => InTwo(s, y)}
<1>0. N \in Nat
  OBVIOUS
<1>1. ASSUME NEW s \in Seq(Octet), s = <<>> PROVE InTwo(s, y)
  <2>1. Wire!Items(s) = [items |-> <<>>, left |-> <<>>] /\ Wire!Items(y) \in Parsed
    BY <1>1, ItemsTaken
  <2>2. s \o y = y /\ Wire!Items(s).left \o y = y
    BY <1>1, <2>1, ConcatEmptySeq
  <2> QED
    BY <2>1, <2>2, BehindNothing DEF InTwo
<1>2. 0 \in T
  <2>1. ASSUME NEW s \in Seq(Octet), Len(s) <= 0 PROVE InTwo(s, y)
    <3>1. s = <<>>
      BY <2>1
    <3> QED
      BY <1>1, <3>1
  <2>2. 0 \in 0 .. N
    BY <1>0
  <2> HIDE DEF N
  <2> QED
    BY <2>1, <2>2
<1>3. ASSUME NEW m \in 0 .. N, m < N, m \in T PROVE m + 1 \in T
  <2>1. m + 1 \in 0 .. N /\ m \in Nat
    BY <1>0, <1>3
  <2>2. \A s \in Seq(Octet) : Len(s) <= m => InTwo(s, y)
    BY <1>3
  <2>3. ASSUME NEW s \in Seq(Octet), Len(s) <= m + 1, s # <<>> PROVE InTwo(s, y)
    <3> DEFINE b == s \o y
    <3>1. /\ b \in Seq(Octet) /\ Len(b) = Len(s) + Len(y) /\ Len(s) \in Nat /\ Len(y) \in Nat
          /\ \A i \in 1 .. Len(s) : b[i] = s[i]
      BY JoinedIs
    <3>2. Len(s) > 0 /\ 1 \in 1 .. Len(s) /\ b[1] = s[1] /\ b # <<>>
      BY <2>3, <3>1
    <3>3. ASSUME NEW n \in 1 .. Len(s)
          PROVE  /\ Rest(s, n) \in Seq(Octet) /\ InTwo(Rest(s, n), y)
                 /\ Rest(b, n) = Rest(s, n) \o y /\ Rest(b, n) \in Seq(Octet)
      <4>1. n \in 0 .. Len(s)
        BY <3>1
      <4>2. Rest(s, n) \in Seq(Octet) /\ Len(Rest(s, n)) = Len(s) - n
        BY <4>1, RestIs
      <4>3. Rest(b, n) = Rest(s, n) \o y
        BY <4>1, RestOfConcat
      <4>4. Len(Rest(s, n)) <= m
        BY <2>1, <2>3, <3>1, <4>2
      <4>5. Rest(b, n) \in Seq(Octet)
        BY <4>2, <4>3, ConcatProperties
      <4> QED
        BY <2>2, <4>2, <4>3, <4>4, <4>5
    <3> HIDE DEF b
    <3> DEFINE r == Rest(s, 1)
               p == Wire!Items(r)
               q == Wire!Items(p.left \o y)
    <3>4. r \in Seq(Octet) /\ Rest(b, 1) = r \o y /\ Wire!Items(r \o y) = Behind(p, q)
      BY <3>2, <3>3 DEF InTwo
    <3>5. p \in Parsed /\ q \in Parsed
      <4>1. p \in Parsed
        BY <3>4, ItemsTaken
      <4>2. p.left \o y \in Seq(Octet)
        BY <4>1, ConcatProperties DEF Parsed
      <4> QED
        BY <4>1, <4>2, ItemsTaken
    <3> HIDE DEF r, p, q
    <3>6. ASSUME NEW item \in Item, Wire!Items(s) = Wire!Then(item, p), Wire!Items(b) = Wire!Then(item, Wire!Items(r \o y))
          PROVE  InTwo(s, y)
      <4>1. Wire!Items(s).left = p.left /\ Behind(Wire!Items(s), q) = Wire!Items(b)
        BY <3>4, <3>5, <3>6, BehindThen
      <4> QED
        BY <4>1 DEF InTwo, b, q
    <3>7. CASE s[1][1] = "plus"
      <4>1. Wire!Items(s) = Wire!Then(Wire!Ack, p)
        BY <2>3, <3>7, ItemsTaken DEF p, r
      <4>2. Wire!Items(b) = Wire!Then(Wire!Ack, Wire!Items(r \o y))
        BY <3>1, <3>2, <3>4, <3>7, ItemsTaken
      <4>3. Wire!Ack \in Item
        BY DEF Item
      <4> QED
        BY <3>6, <4>1, <4>2, <4>3
    <3>8. CASE s[1][1] = "etx"
      <4>1. Wire!Items(s) = Wire!Then(Wire!Interrupt, p)
        BY <2>3, <3>8, ItemsTaken DEF p, r
      <4>2. Wire!Items(b) = Wire!Then(Wire!Interrupt, Wire!Items(r \o y))
        BY <3>1, <3>2, <3>4, <3>8, ItemsTaken
      <4>3. Wire!Interrupt \in Item
        BY DEF Item
      <4> QED
        BY <3>6, <4>1, <4>2, <4>3
    <3>9. CASE s[1][1] \notin {"plus", "etx", "dollar"}
      <4>1. Wire!Items(s) = p
        BY <2>3, <3>9, ItemsTaken DEF p, r
      <4>2. Wire!Items(b) = Wire!Items(r \o y)
        BY <3>1, <3>2, <3>4, <3>9, ItemsTaken
      <4> QED
        BY <3>4, <4>1, <4>2 DEF InTwo, b, q
    <3>10. CASE s[1][1] = "dollar" /\ ~Wire!Whole(s)
      <4>1. Wire!Items(s) = [items |-> <<>>, left |-> s]
        BY <2>3, <3>10, ItemsTaken
      <4>2. Wire!Items(s).left = s /\ Wire!Items(b) \in Parsed
        BY <3>1, <4>1, ItemsTaken
      <4> QED
        BY <4>1, <4>2, BehindNothing DEF InTwo, b
    <3>11. CASE s[1][1] = "dollar" /\ Wire!Whole(s)
      <4> DEFINE n == Wire!Hash(s) + 2
                 item == Wire!Opened(s)
                 r2 == Rest(s, n)
                 p2 == Wire!Items(r2)
                 q2 == Wire!Items(p2.left \o y)
      <4>1. /\ Wire!Whole(b) /\ Wire!Hash(b) = Wire!Hash(s) /\ Wire!Opened(b) = item
            /\ n \in 1 .. Len(s)
        BY <3>11, WholeStays DEF b
      <4>2. item \in Item
        BY <3>11, OpenedIsItem DEF Wire!Whole
      <4>3. Wire!Items(s) = Wire!Then(item, p2)
        BY <2>3, <3>11, ItemsTaken
      <4>4. Wire!Items(b) = Wire!Then(item, Wire!Items(Rest(b, n)))
        BY <3>1, <3>2, <3>11, <4>1, ItemsTaken
      <4> HIDE DEF n, item
      <4>5. r2 \in Seq(Octet) /\ Rest(b, n) = r2 \o y /\ Wire!Items(r2 \o y) = Behind(p2, q2)
        BY <3>3, <4>1 DEF InTwo
      <4>6. p2 \in Parsed /\ q2 \in Parsed
        <5>1. p2 \in Parsed
          BY <4>5, ItemsTaken
        <5>2. p2.left \o y \in Seq(Octet)
          BY <5>1, ConcatProperties DEF Parsed
        <5> QED
          BY <5>1, <5>2, ItemsTaken
      <4>7. Wire!Items(s).left = p2.left /\ Behind(Wire!Items(s), q2) = Wire!Items(b)
        <5> HIDE DEF r2, p2, q2
        <5> QED
          BY <4>2, <4>3, <4>4, <4>5, <4>6, BehindThen
      <4> QED
        BY <4>7 DEF InTwo, b
    <3> QED
      BY <3>7, <3>8, <3>9, <3>10, <3>11
  <2> HIDE DEF N
  <2> QED
    BY <1>1, <2>1, <2>3
<1> HIDE DEF T
<1>4. 0 .. N \subseteq T
  BY <1>0, <1>2, <1>3, UptoInduction
<1>5. N \in T /\ N <= N
  BY <1>0, <1>4
<1> QED
  BY <1>5 DEF T

(* What stays when the items have been taken has none.                     *)
LEMMA LeftHasNone ==
  ASSUME NEW x \in Seq(Octet)
  PROVE  Wire!Items(Wire!Items(x).left) = [items |-> <<>>, left |-> Wire!Items(x).left]
<1> DEFINE p == Wire!Items(x)
           q == Wire!Items(p.left)
<1>1. p \in Parsed
  BY ItemsTaken
<1>2. p.left \in Seq(Octet) /\ p.items \in Seq(Item)
  BY <1>1 DEF Parsed
<1>3. q \in Parsed
  BY <1>2, ItemsTaken
<1>4. q.items \in Seq(Item) /\ q = [items |-> q.items, left |-> q.left]
  BY <1>3 DEF Parsed
<1>5. <<>> \in Seq(Octet) /\ x \o <<>> = x /\ p.left \o <<>> = p.left
  BY <1>2, ConcatEmptySeq
<1>6. p = Behind(p, q)
  BY <1>5, ItemsInTwo DEF InTwo
<1> HIDE DEF p, q
<1>7. p.items = p.items \o q.items /\ p.left = q.left
  BY <1>6 DEF Behind
<1>8. q.items = <<>>
  BY <1>2, <1>4, <1>7, ConcatEqualIffEmpty
<1> QED
  BY <1>4, <1>7, <1>8 DEF p, q

(* Octets that say one item, and nothing else.                             *)
Says(c, item) ==
  c \in Seq(Octet) /\ item \in Item /\ Wire!Items(c) = [items |-> <<item>>, left |-> <<>>]

LEMMA OneOctetSays ==
  Says(<<<<"plus">>>>, Wire!Ack) /\ Says(<<<<"etx">>>>, Wire!Interrupt)
<1>1. ASSUME NEW b \in Octet, NEW item \in Item,
             Wire!Items(<<b>>) = Wire!Then(item, Wire!Items(Rest(<<b>>, 1)))
      PROVE  Says(<<b>>, item)
  <2>1. <<b>> \in Seq(Octet) /\ Len(<<b>>) = 1
    OBVIOUS
  <2>2. 1 \in 0 .. Len(<<b>>) /\ Len(<<b>>) - 1 = 0
    BY <2>1
  <2>3. Rest(<<b>>, 1) \in Seq(Octet) /\ Len(Rest(<<b>>, 1)) = 0
    BY <2>1, <2>2, RestIs
  <2>4. Wire!Items(Rest(<<b>>, 1)) = [items |-> <<>>, left |-> <<>>]
    BY <2>3, ItemsTaken
  <2>5. <<item>> \o <<>> = <<item>>
    OBVIOUS
  <2>6. Wire!Then(item, [items |-> <<>>, left |-> <<>>]) = [items |-> <<item>>, left |-> <<>>]
    BY <2>5 DEF Wire!Then
  <2> QED
    BY <1>1, <2>1, <2>4, <2>6 DEF Says
<1>2. <<"plus">> \in Octet /\ <<"etx">> \in Octet /\ Wire!Ack \in Item /\ Wire!Interrupt \in Item
  BY DEF Octet, Plain, Item
<1>3. <<<<"plus">>>> \in Seq(Octet) /\ <<<<"plus">>>>[1][1] = "plus" /\ <<<<"plus">>>> # <<>>
  BY <1>2
<1>4. <<<<"etx">>>> \in Seq(Octet) /\ <<<<"etx">>>>[1][1] = "etx" /\ <<<<"etx">>>> # <<>>
  BY <1>2
<1>5. Wire!Items(<<<<"plus">>>>) = Wire!Then(Wire!Ack, Wire!Items(Rest(<<<<"plus">>>>, 1)))
  BY <1>3, ItemsTaken
<1>6. Wire!Items(<<<<"etx">>>>) = Wire!Then(Wire!Interrupt, Wire!Items(Rest(<<<<"etx">>>>, 1)))
  BY <1>4, ItemsTaken
<1> QED
  BY <1>1, <1>2, <1>5, <1>6

(* Where the octets of a frame are.                                        *)
IsFrame(c, p, q) ==
  /\ c \in Seq(Octet) /\ Len(c) = Len(p) + 4 /\ Len(p) \in Nat
  /\ c[1] = <<"dollar">> /\ \A i \in 1 .. Len(p) : c[1 + i] = p[i]
  /\ c[Len(p) + 2] = <<"hash">>
  /\ c[Len(p) + 3] = <<"digit", 1, q>> /\ c[Len(p) + 4] = <<"digit", 2, q>>

LEMMA FramedIs ==
  ASSUME NEW p \in Seq(Plain), NEW q \in Seq(Plain)
  PROVE  IsFrame(Wire!Framed(p, Wire!Digits(q)), p, q)
<1> DEFINE c == Wire!Framed(p, Wire!Digits(q))
           P == Len(p)
<1> DEFINE a == <<<<"dollar">>>>
           h == <<<<"hash">>>>
           s == Wire!Digits(q)
           ap == a \o p
           aph == ap \o h
<1>1. <<"dollar">> \in Octet /\ <<"hash">> \in Octet
  BY DEF Octet, Plain
<1>2. <<"digit", 1, q>> \in Octet /\ <<"digit", 2, q>> \in Octet
  BY DEF Octet
<1>3. a \in Seq(Octet) /\ Len(a) = 1 /\ a[1] = <<"dollar">>
  BY <1>1
<1>4. h \in Seq(Octet) /\ Len(h) = 1 /\ h[1] = <<"hash">>
  BY <1>1
<1>5. s \in Seq(Octet) /\ Len(s) = 2 /\ s[1] = <<"digit", 1, q>> /\ s[2] = <<"digit", 2, q>>
  BY <1>2 DEF Wire!Digits
<1>6. p \in Seq(Octet) /\ P \in Nat /\ P = Len(p)
  BY PlainOctets, SeqMonotonic
<1>7. c = aph \o s
  BY DEF Wire!Framed
<1> HIDE DEF a, h, s, c, P
<1>8. /\ ap \in Seq(Octet) /\ Len(ap) = 1 + P
      /\ \A i \in 1 .. 1 : ap[i] = a[i]
      /\ \A i \in 1 .. P : ap[1 + i] = p[i]
  <2>1. PICK m : m = 1
    OBVIOUS
  <2>2. PICK n : n = P
    OBVIOUS
  <2>3. m = Len(a) /\ n = Len(p)
    BY <1>3, <1>6, <2>1, <2>2
  <2>5. a \in Seq(Octet) /\ p \in Seq(Octet)
    BY <1>3, <1>6
  <2>4. /\ a \o p \in Seq(Octet) /\ Len(a \o p) = m + n
        /\ \A i \in 1 .. m : (a \o p)[i] = a[i]
        /\ \A i \in 1 .. n : (a \o p)[m + i] = p[i]
    BY ONLY <2>3, <2>5, JoinedIs
  <2> QED
    BY <2>1, <2>2, <2>4
<1> HIDE DEF ap
<1>9. /\ aph \in Seq(Octet) /\ Len(aph) = (1 + P) + 1
      /\ \A i \in 1 .. 1 + P : aph[i] = ap[i]
      /\ \A i \in 1 .. 1 : aph[(1 + P) + i] = h[i]
  <2>1. PICK m : m = 1 + P
    OBVIOUS
  <2>2. PICK n : n = 1
    OBVIOUS
  <2>3. m = Len(ap) /\ n = Len(h)
    BY <1>4, <1>8, <2>1, <2>2
  <2>5. ap \in Seq(Octet) /\ h \in Seq(Octet)
    BY <1>4, <1>8
  <2>4. /\ ap \o h \in Seq(Octet) /\ Len(ap \o h) = m + n
        /\ \A i \in 1 .. m : (ap \o h)[i] = ap[i]
        /\ \A i \in 1 .. n : (ap \o h)[m + i] = h[i]
    BY ONLY <2>3, <2>5, JoinedIs
  <2> QED
    BY <2>1, <2>2, <2>4
<1> HIDE DEF aph
<1>10. /\ c \in Seq(Octet) /\ Len(c) = ((1 + P) + 1) + 2
       /\ \A i \in 1 .. (1 + P) + 1 : c[i] = aph[i]
       /\ \A i \in 1 .. 2 : c[((1 + P) + 1) + i] = s[i]
  <2>1. PICK m : m = (1 + P) + 1
    OBVIOUS
  <2>2. PICK n : n = 2
    OBVIOUS
  <2>3. m = Len(aph) /\ n = Len(s)
    BY <1>5, <1>9, <2>1, <2>2
  <2>5. aph \in Seq(Octet) /\ s \in Seq(Octet)
    BY <1>5, <1>9
  <2>4. /\ aph \o s \in Seq(Octet) /\ Len(aph \o s) = m + n
        /\ \A i \in 1 .. m : (aph \o s)[i] = aph[i]
        /\ \A i \in 1 .. n : (aph \o s)[m + i] = s[i]
    BY ONLY <2>3, <2>5, JoinedIs
  <2> QED
    BY <1>7, <2>1, <2>2, <2>4
<1>11. c[1] = <<"dollar">>
  <2>1. 1 \in 1 .. 1 /\ 1 \in 1 .. 1 + P /\ 1 \in 1 .. (1 + P) + 1
    BY <1>6
  <2> QED
    BY <1>3, <1>8, <1>9, <1>10, <2>1
<1>12. ASSUME NEW i \in 1 .. P PROVE c[1 + i] = p[i]
  <2>1. 1 + i \in 1 .. 1 + P /\ 1 + i \in 1 .. (1 + P) + 1
    BY <1>6
  <2> QED
    BY <1>8, <1>9, <1>10, <2>1
<1>13. c[P + 2] = <<"hash">>
  <2>1. 1 \in 1 .. 1 /\ P + 2 = (1 + P) + 1 /\ (1 + P) + 1 \in 1 .. (1 + P) + 1
    BY <1>6
  <2> QED
    BY <1>4, <1>9, <1>10, <2>1
<1>14. c[P + 3] = <<"digit", 1, q>> /\ c[P + 4] = <<"digit", 2, q>>
  <2>1. 1 \in 1 .. 2 /\ 2 \in 1 .. 2 /\ P + 3 = ((1 + P) + 1) + 1 /\ P + 4 = ((1 + P) + 1) + 2
    BY <1>6
  <2> QED
    BY <1>5, <1>10, <2>1
<1>15. Len(c) = P + 4
  BY <1>6, <1>10
<1> QED
  BY <1>6, <1>10, <1>11, <1>12, <1>13, <1>14, <1>15 DEF IsFrame, c, P

(* A frame says its packet, or that it is damaged.                         *)
LEMMA FramedSays ==
  ASSUME NEW p \in Seq(Plain), \A k \in 1 .. Len(p) : p[k][1] # "hash", NEW q \in Seq(Plain)
  PROVE  Says(Wire!Framed(p, Wire!Digits(q)),
              IF p = q THEN Wire!Packet(Wire!Unescaped(p)) ELSE Wire!Corrupt)
<1> DEFINE c == Wire!Framed(p, Wire!Digits(q))
           P == Len(p)
           item == IF p = q THEN Wire!Packet(Wire!Unescaped(p)) ELSE Wire!Corrupt
<1>1. /\ c \in Seq(Octet) /\ Len(c) = P + 4 /\ P \in Nat
      /\ c[1] = <<"dollar">> /\ \A i \in 1 .. P : c[1 + i] = p[i]
      /\ c[P + 2] = <<"hash">>
      /\ c[P + 3] = <<"digit", 1, q>> /\ c[P + 4] = <<"digit", 2, q>>
  <2>1. IsFrame(c, p, q)
    BY FramedIs
  <2> HIDE DEF c
  <2> QED
    BY <2>1 DEF IsFrame
<1> HIDE DEF c, P
<1>2. Wire!Hashes(c) # {} /\ Wire!Hash(c) = P + 2
  <2>1. P + 2 \in 1 .. Len(c) /\ c[P + 2][1] = "hash"
    BY <1>1
  <2>2. ASSUME NEW j \in 1 .. Len(c), j < P + 2 PROVE c[j][1] # "hash"
    <3>1. CASE j = 1
      BY <1>1, <3>1
    <3>2. CASE j # 1
      <4>1. PICK i : i = j - 1
        OBVIOUS
      <4>2. i \in 1 .. P /\ j = 1 + i
        BY <1>1, <2>2, <3>2, <4>1
      <4> QED
        BY <1>1, <4>2 DEF P
    <3> QED
      BY <3>1, <3>2
  <2> QED
    BY <1>1, <2>1, <2>2, HashAt
<1>3. Wire!Whole(c)
  <2>1. Len(c) >= (P + 2) + 2
    BY <1>1
  <2> QED
    BY <1>2, <2>1 DEF Wire!Whole
<1>4. SubSeq(c, 2, (P + 2) - 1) = p
  <2>1. SubSeq(c, 2, (P + 2) - 1) = [i \in 1 .. P |-> c[1 + i]]
    <3>1. SubSeq(c, 2, (P + 2) - 1) = [i \in 1 .. (P + 2) - 1 - 2 + 1 |-> c[2 + i - 1]]
      BY <1>1
    <3>2. (P + 2) - 1 - 2 + 1 = P /\ \A i \in 1 .. P : 2 + i - 1 = 1 + i
      BY <1>1
    <3> QED
      BY <3>1, <3>2
  <2>2. p = [i \in 1 .. P |-> p[i]]
    BY DEF P
  <2> QED
    BY <1>1, <2>1, <2>2
<1>5. SubSeq(c, (P + 2) + 1, (P + 2) + 2) = Wire!Digits(q)
  <2>1. (P + 2) + 1 = P + 3 /\ (P + 2) + 2 = P + 4
    BY <1>1
  <2>2. SubSeq(c, P + 3, P + 4) = <<c[P + 3], c[P + 4]>>
    <3> DEFINE s == SubSeq(c, P + 3, P + 4)
               t == <<c[P + 3], c[P + 4]>>
    <3>1. /\ s \in Seq(Octet)
          /\ Len(s) = 2 /\ s[1] = c[P + 3] /\ s[2] = c[P + 4]
      <4>1. P + 3 \in 1 .. Len(c) /\ P + 4 \in 1 .. Len(c) /\ P + 3 \in Int /\ P + 4 \in Int
        BY <1>1
      <4>2. \A i \in P + 3 .. P + 4 : c[i] \in Octet
        BY <1>1, <4>1
      <4>3. s \in Seq(Octet)
        BY <4>1, <4>2, SubSeqProperties
      <4>4. s = [i \in 1 .. P + 4 - (P + 3) + 1 |-> c[P + 3 + i - 1]]
        BY <1>1
      <4>5. P + 4 - (P + 3) + 1 = 2 /\ P + 3 + 1 - 1 = P + 3 /\ P + 3 + 2 - 1 = P + 4
        BY <1>1
      <4> HIDE DEF s
      <4>6. s = [i \in 1 .. 2 |-> c[P + 3 + i - 1]]
        BY <4>4, <4>5
      <4>7. Len(s) = 2 /\ 1 \in 1 .. 2 /\ 2 \in 1 .. 2
        BY <4>6
      <4> QED
        BY <4>3, <4>5, <4>6, <4>7
    <3>2. t \in Seq(Octet) /\ Len(t) = 2 /\ t[1] = c[P + 3] /\ t[2] = c[P + 4]
      <4>1. c[P + 3] \in Octet /\ c[P + 4] \in Octet
        <5>1. P + 3 \in 1 .. Len(c) /\ P + 4 \in 1 .. Len(c)
          BY <1>1
        <5>2. \A j \in 1 .. Len(c) : c[j] \in Octet
          BY <1>1
        <5> QED
          BY <5>1, <5>2
      <4> QED
        BY <4>1
    <3> HIDE DEF s, t
    <3>3. \A i \in 1 .. Len(s) : s[i] = t[i]
      <4>1. \A i \in 1 .. 2 : i = 1 \/ i = 2
        OBVIOUS
      <4> QED
        BY <3>1, <3>2, <4>1
    <3>4. s = t
      BY <3>1, <3>2, <3>3, SeqEqual
    <3> QED
      BY <3>4 DEF s, t
  <2> QED
    BY <1>1, <2>1, <2>2 DEF Wire!Digits
<1>6. Wire!Digits(q) = Wire!Digits(p) <=> q = p
  BY DEF Wire!Digits
<1>7. Wire!Opened(c) = item
  BY <1>2, <1>4, <1>5, <1>6 DEF Wire!Opened
<1> HIDE DEF item
<1>8. Wire!Items(c) = Wire!Then(item, Wire!Items(Rest(c, (P + 2) + 2)))
  <2>1. c # <<>> /\ c[1][1] = "dollar"
    BY <1>1
  <2> QED
    BY <1>1, <1>2, <1>3, <1>7, <2>1, ItemsTaken
<1>9. Wire!Items(Rest(c, (P + 2) + 2)) = [items |-> <<>>, left |-> <<>>]
  <2>1. (P + 2) + 2 \in 0 .. Len(c) /\ Len(c) - ((P + 2) + 2) = 0
    BY <1>1
  <2>2. Rest(c, (P + 2) + 2) \in Seq(Octet) /\ Len(Rest(c, (P + 2) + 2)) = 0
    BY <1>1, <2>1, RestIs
  <2> QED
    BY <2>2, ItemsTaken
<1>10. item \in Item
  BY <1>1, <1>2, <1>7, OpenedIsItem
<1>11. <<item>> \o <<>> = <<item>>
  OBVIOUS
<1>12. Wire!Items(c) = [items |-> <<item>>, left |-> <<>>]
  BY <1>8, <1>9, <1>11 DEF Wire!Then
<1>13. Says(c, item)
  BY <1>1, <1>10, <1>12 DEF Says
<1> QED
  BY <1>13 DEF c, item

(* The invariant: what has arrived and what is under way hold exactly the    *)
(* items sent and not yet taken, and what the server keeps back holds none. *)
Pending == Wire!Items(packetsBuf \o packetsWire)
AnswersTo(s) == [k \in DOMAIN s |-> Wire!Answer(s[k])]
WireInv ==
  /\ packetsWire \in Seq(Octet) /\ packetsBuf \in Seq(Octet)
  /\ packetsSent \in Seq(Item) /\ packetsTaken \in Seq(Item) /\ Len(packetsSent) <= PacketItems
  /\ packetsSent = packetsTaken \o Pending.items /\ Pending.left = <<>>
  /\ Wire!Items(packetsBuf) = [items |-> <<>>, left |-> packetsBuf]
  /\ packetsReplies = Wire!FlattenSeq(AnswersTo(packetsTaken))

LEMMA SendStep ==
  ASSUME WireInv, NEW item, NEW c, Says(c, item), Wire!Send(item, c)
  PROVE  WireInv'
<1> DEFINE b == packetsBuf
           w == packetsWire
           r == Wire!Items(b \o w)
<1>1. /\ c \in Seq(Octet) /\ item \in Item /\ Wire!Items(c) = [items |-> <<item>>, left |-> <<>>]
  BY DEF Says
<1>2. /\ packetsSent' = Append(packetsSent, item) /\ packetsWire' = w \o c
      /\ Len(packetsSent) < PacketItems
      /\ UNCHANGED <<packetsBuf, packetsTaken, packetsReplies>>
  BY DEF Wire!Send
<1>3. /\ b \in Seq(Octet) /\ w \in Seq(Octet) /\ packetsSent \in Seq(Item)
      /\ packetsTaken \in Seq(Item) /\ packetsSent = packetsTaken \o r.items /\ r.left = <<>>
  BY DEF WireInv, Pending
<1>4. b \o w \in Seq(Octet) /\ w \o c \in Seq(Octet) /\ b \o (w \o c) = (b \o w) \o c
  <2> HIDE DEF b, w, r
  <2>1. b \in Seq(Octet) /\ w \in Seq(Octet) /\ c \in Seq(Octet)
    BY <1>1, <1>3
  <2>2. (b \o w) \o c = b \o (w \o c)
    BY ONLY <2>1, Regrouped
  <2> QED
    BY <2>1, <2>2, ConcatProperties
<1>5. r \in Parsed
  <2> HIDE DEF b, w
  <2> QED
    BY <1>4, ItemsTaken
<1>6. Pending' = Wire!Items(b \o (w \o c))
  BY <1>2 DEF Pending
<1> HIDE DEF b, w
<1>7. Wire!Items(b \o (w \o c)) = [items |-> r.items \o <<item>>, left |-> <<>>]
  <2>1. Wire!Items((b \o w) \o c) = Behind(r, Wire!Items(r.left \o c))
    BY <1>1, <1>4, ItemsInTwo DEF InTwo
  <2>2. r.left \o c = c
    BY <1>1, <1>3, ConcatEmptySeq
  <2>3. Wire!Items(r.left \o c) = [items |-> <<item>>, left |-> <<>>]
    BY <1>1, <2>2
  <2> HIDE DEF r
  <2>4. Behind(r, [items |-> <<item>>, left |-> <<>>])
          = [items |-> r.items \o <<item>>, left |-> <<>>]
    BY DEF Behind
  <2> QED
    BY <1>4, <2>1, <2>3, <2>4
<1> HIDE DEF r
<1>8. packetsTaken \o (r.items \o <<item>>) = Append(packetsSent, item)
  <2>1. r.items \in Seq(Item) /\ <<item>> \in Seq(Item)
    BY <1>1, <1>5 DEF Parsed
  <2>2. packetsTaken \o (r.items \o <<item>>) = (packetsTaken \o r.items) \o <<item>>
    <3> DEFINE u == packetsTaken
               v == r.items
               x == <<item>>
    <3>1. u \in Seq(Item) /\ v \in Seq(Item) /\ x \in Seq(Item)
      BY <1>3, <2>1
    <3> HIDE DEF u, v, x
    <3>2. (u \o v) \o x = u \o (v \o x)
      BY ONLY <3>1, Regrouped
    <3> QED
      BY <3>2 DEF u, v, x
  <2>3. Append(packetsSent, item) = packetsSent \o <<item>>
    BY <1>1, <1>3, AppendIsConcat
  <2> QED
    BY <1>3, <2>2, <2>3
<1>9. Append(packetsSent, item) \in Seq(Item) /\ Len(Append(packetsSent, item)) <= PacketItems
  <2>1. /\ Append(packetsSent, item) \in Seq(Item)
        /\ Len(Append(packetsSent, item)) = Len(packetsSent) + 1
    BY <1>1, <1>3, AppendProperties
  <2>2. Len(packetsSent) \in Nat /\ PacketItems \in Nat
    BY <1>3, PacketsAssumption
  <2> QED
    BY <1>2, <2>1, <2>2
<1>10. Pending'.items = r.items \o <<item>> /\ Pending'.left = <<>>
  BY <1>6, <1>7
<1> QED
  BY <1>2, <1>3, <1>4, <1>8, <1>9, <1>10 DEF WireInv, AnswersTo, b, w

LEMMA AnswersAre ==
  ASSUME NEW s \in Seq(Item)
  PROVE  AnswersTo(s) \in Seq(Seq({"+", "-"})) /\ Len(AnswersTo(s)) = Len(s)
         /\ \A k \in 1 .. Len(s) : AnswersTo(s)[k] = Wire!Answer(s[k])
<1>1. ASSUME NEW item \in Item PROVE Wire!Answer(item) \in Seq({"+", "-"})
  <2>1. <<"+">> \in Seq({"+", "-"}) /\ <<"-">> \in Seq({"+", "-"}) /\ <<>> \in Seq({"+", "-"})
    OBVIOUS
  <2>2. CASE item.kind = "packet"
    BY <2>1, <2>2 DEF Wire!Answer
  <2>3. CASE item.kind = "corrupt"
    BY <2>1, <2>3 DEF Wire!Answer
  <2>4. CASE item.kind # "packet" /\ item.kind # "corrupt"
    BY <2>1, <2>4 DEF Wire!Answer
  <2> QED
    BY <2>2, <2>3, <2>4
<1>2. AnswersTo(s) = [k \in 1 .. Len(s) |-> Wire!Answer(s[k])] /\ Len(s) \in Nat
  BY DEF AnswersTo
<1>3. \A k \in 1 .. Len(s) : Wire!Answer(s[k]) \in Seq({"+", "-"})
  BY <1>1
<1> QED
  BY <1>2, <1>3

LEMMA AnswersConcat ==
  ASSUME NEW s, NEW t, s \in Seq(Item), t \in Seq(Item)
  PROVE  AnswersTo(s \o t) = AnswersTo(s) \o AnswersTo(t)
<1> DEFINE M == Len(s)
           N == Len(t)
           st == s \o t
           a == AnswersTo(st)
           fs == AnswersTo(s)
           ft == AnswersTo(t)
           b == fs \o ft
           S == Seq({"+", "-"})
<1>1. /\ st \in Seq(Item) /\ Len(st) = M + N /\ M \in Nat /\ N \in Nat
      /\ \A i \in 1 .. M : st[i] = s[i]
      /\ \A i \in 1 .. N : st[M + i] = t[i]
  BY JoinedIs
<1> HIDE DEF st
<1>2. /\ a \in Seq(S) /\ Len(a) = M + N /\ \A k \in 1 .. M + N : a[k] = Wire!Answer(st[k])
      /\ fs \in Seq(S) /\ Len(fs) = M /\ \A k \in 1 .. M : fs[k] = Wire!Answer(s[k])
      /\ ft \in Seq(S) /\ Len(ft) = N /\ \A k \in 1 .. N : ft[k] = Wire!Answer(t[k])
  BY <1>1, AnswersAre
<1> HIDE DEF a, fs, ft, S, M, N
<1>3. /\ b \in Seq(S) /\ Len(b) = M + N
      /\ \A i \in 1 .. M : b[i] = fs[i]
      /\ \A i \in 1 .. N : b[M + i] = ft[i]
  <2>1. fs \in Seq(S) /\ ft \in Seq(S) /\ M = Len(fs) /\ N = Len(ft)
    BY <1>2
  <2> HIDE DEF b
  <2>2. /\ fs \o ft \in Seq(S) /\ Len(fs \o ft) = M + N
        /\ \A i \in 1 .. M : (fs \o ft)[i] = fs[i]
        /\ \A i \in 1 .. N : (fs \o ft)[M + i] = ft[i]
    BY ONLY <2>1, JoinedIs
  <2> QED
    BY <2>2 DEF b
<1> HIDE DEF b
<1>4. ASSUME NEW k \in 1 .. Len(a) PROVE a[k] = b[k]
  <2>1. k \in 1 .. M + N
    BY <1>2
  <2>2. CASE k <= M
    <3>1. k \in 1 .. M
      BY <1>1, <2>1, <2>2
    <3>2. a[k] = Wire!Answer(st[k]) /\ st[k] = s[k]
      BY <1>1, <1>2, <2>1, <3>1
    <3>3. b[k] = fs[k] /\ fs[k] = Wire!Answer(s[k])
      BY <1>2, <1>3, <3>1
    <3> QED
      BY <3>2, <3>3
  <2>3. CASE ~(k <= M)
    <3>1. PICK i : i = k - M
      OBVIOUS
    <3>2. i \in 1 .. N /\ k = M + i
      BY <1>1, <2>1, <2>3, <3>1
    <3>3. a[k] = Wire!Answer(st[k]) /\ st[k] = t[i]
      BY <1>1, <1>2, <2>1, <3>2
    <3>4. b[k] = ft[i] /\ ft[i] = Wire!Answer(t[i])
      BY <1>2, <1>3, <3>2
    <3> QED
      BY <3>3, <3>4
  <2> QED
    BY <2>2, <2>3
<1>5. a = b
  BY <1>2, <1>3, <1>4, SeqEqual
<1> QED
  BY <1>5 DEF a, b, fs, ft, st

LEMMA ServiceStep ==
  ASSUME WireInv, Wire!Service
  PROVE  WireInv'
<1> DEFINE b == packetsBuf
           w == packetsWire
           x(n) == b \o SubSeq(w, 1, n)
<1>1. PICK n \in 1 .. Len(w) :
        LET r == Wire!Items(x(n)) IN
          /\ packetsWire' = SubSeq(w, n + 1, Len(w))
          /\ packetsBuf' = r.left
          /\ packetsTaken' = packetsTaken \o r.items
          /\ packetsReplies' = packetsReplies
               \o Wire!FlattenSeq([k \in DOMAIN r.items |-> Wire!Answer(r.items[k])])
          /\ UNCHANGED packetsSent
  BY DEF Wire!Service
<1> DEFINE u == x(n)
           y == SubSeq(w, n + 1, Len(w))
           r == Wire!Items(u)
           q == Wire!Items(r.left \o y)
           all == Wire!Items(b \o w)
<1>2. /\ packetsWire' = y /\ packetsBuf' = r.left /\ packetsTaken' = packetsTaken \o r.items
      /\ packetsReplies' = packetsReplies \o Wire!FlattenSeq(AnswersTo(r.items))
      /\ UNCHANGED packetsSent
  BY <1>1 DEF AnswersTo
<1>3. /\ b \in Seq(Octet) /\ w \in Seq(Octet) /\ packetsSent \in Seq(Item)
      /\ packetsTaken \in Seq(Item) /\ packetsSent = packetsTaken \o all.items /\ all.left = <<>>
      /\ packetsReplies = Wire!FlattenSeq(AnswersTo(packetsTaken))
      /\ Len(packetsSent) <= PacketItems
  BY DEF WireInv, Pending
<1>4. Pending' = q
  BY <1>2 DEF Pending
<1> HIDE DEF b, w
<1>5. u \in Seq(Octet) /\ y \in Seq(Octet) /\ u \o y = b \o w
  <2> DEFINE z == SubSeq(w, 1, n)
  <2>1. n \in 0 .. Len(w) /\ 1 \in 1 .. Len(w) + 1 /\ n \in 1 - 1 .. Len(w) /\ Len(w) \in n .. Len(w)
        /\ Len(w) \in Nat
    BY <1>3
  <2>2. z \in Seq(Octet)
    <3>1. \A i \in 1 .. n : i \in 1 .. Len(w)
      BY <2>1
    <3>2. \A i \in 1 .. n : w[i] \in Octet
      BY <1>3, <3>1
    <3>3. 1 \in Int /\ n \in Int
      OBVIOUS
    <3> QED
      BY <3>2, <3>3, SubSeqProperties
  <2>3. y \in Seq(Octet)
    BY <1>3, <2>1, SuffixIs
  <2>4. z \o y = w
    <3>1. z \o y = SubSeq(w, 1, Len(w))
      BY <1>3, <2>1, ConcatAdjacentSubSeq
    <3> QED
      BY <1>3, <3>1, SubSeqFull
  <2> HIDE DEF y, z
  <2>5. (b \o z) \o y = b \o (z \o y) /\ b \o z \in Seq(Octet)
    <3>1. b \in Seq(Octet) /\ z \in Seq(Octet) /\ y \in Seq(Octet)
      BY <1>3, <2>2, <2>3
    <3>2. (b \o z) \o y = b \o (z \o y)
      BY ONLY <3>1, Regrouped
    <3> QED
      BY <3>1, <3>2, ConcatProperties
  <2> QED
    BY <2>3, <2>4, <2>5 DEF z
<1> HIDE DEF u, y
<1>6. r \in Parsed /\ all = Behind(r, q)
  <2>1. InTwo(u, y)
    BY <1>5, ItemsInTwo
  <2>2. r \in Parsed
    BY <1>5, ItemsTaken
  <2> QED
    BY <1>5, <2>1, <2>2 DEF InTwo
<1>7. r.items \in Seq(Item) /\ r.left \in Seq(Octet)
  BY <1>6 DEF Parsed
<1>8. q \in Parsed
  <2>1. r.left \o y \in Seq(Octet)
    BY <1>5, <1>7, ConcatProperties
  <2> QED
    BY <2>1, ItemsTaken
<1>9. q.items \in Seq(Item)
  BY <1>8 DEF Parsed
<1>10. Wire!Items(r.left) = [items |-> <<>>, left |-> r.left]
  BY <1>5, LeftHasNone
<1> HIDE DEF r, q, all
<1>11. all.items = r.items \o q.items /\ all.left = q.left
  BY <1>6 DEF Behind
<1>12. packetsTaken \o r.items \in Seq(Item)
       /\ (packetsTaken \o r.items) \o q.items = packetsSent /\ q.left = <<>>
  <2>1. (packetsTaken \o r.items) \o q.items = packetsTaken \o (r.items \o q.items)
    <3> DEFINE i == packetsTaken
               j == r.items
               k == q.items
    <3>1. i \in Seq(Item) /\ j \in Seq(Item) /\ k \in Seq(Item)
      BY <1>3, <1>7, <1>9
    <3> HIDE DEF i, j, k
    <3>2. (i \o j) \o k = i \o (j \o k)
      BY ONLY <3>1, Regrouped
    <3> QED
      BY <3>2 DEF i, j, k
  <2> QED
    BY <1>3, <1>7, <1>11, <2>1, ConcatProperties
<1>13. packetsReplies \o Wire!FlattenSeq(AnswersTo(r.items))
         = Wire!FlattenSeq(AnswersTo(packetsTaken \o r.items))
  <2>1. /\ AnswersTo(packetsTaken) \in Seq(Seq({"+", "-"}))
        /\ AnswersTo(r.items) \in Seq(Seq({"+", "-"}))
        /\ AnswersTo(packetsTaken \o r.items) = AnswersTo(packetsTaken) \o AnswersTo(r.items)
    BY <1>3, <1>7, AnswersAre, AnswersConcat
  <2>2. Wire!FlattenSeq(AnswersTo(packetsTaken) \o AnswersTo(r.items))
          = Wire!FlattenSeq(AnswersTo(packetsTaken)) \o Wire!FlattenSeq(AnswersTo(r.items))
    BY <2>1, FlattenConcat
  <2> QED
    BY <1>3, <2>1, <2>2
<1>14. packetsReplies' = Wire!FlattenSeq(AnswersTo(packetsTaken)')
  <2>1. AnswersTo(packetsTaken)' = AnswersTo(packetsTaken \o r.items)
    BY <1>2 DEF AnswersTo
  <2> QED
    BY <1>2, <1>13, <2>1
<1>15. Wire!Items(packetsBuf') = [items |-> <<>>, left |-> packetsBuf']
  BY <1>2, <1>10
<1>16. packetsWire' \in Seq(Octet) /\ packetsBuf' \in Seq(Octet)
  BY <1>2, <1>5, <1>7
<1>17. packetsTaken' \in Seq(Item) /\ packetsSent' = packetsTaken' \o Pending'.items
       /\ Pending'.left = <<>>
  BY <1>2, <1>4, <1>12
<1>18. packetsSent' \in Seq(Item) /\ Len(packetsSent') <= PacketItems
  BY <1>2, <1>3
<1> QED
  BY <1>14, <1>15, <1>16, <1>17, <1>18 DEF WireInv

LEMMA WireStep ==
  ASSUME WireInv, Wire!Next
  PROVE  WireInv'
<1>1. ASSUME NEW data \in Wire!SeqOf(PacketData, PacketLongest),
             Wire!SendPacket(data) \/ Wire!SendDamaged(data)
      PROVE  WireInv'
  <2> DEFINE p == Wire!Escaped(data)
             q == <<<<"text">>>> \o p
  <2>1. data \in Seq(PacketData)
    <3>1. PICK m \in 0 .. PacketLongest : data \in [1 .. m -> PacketData]
      BY <1>1 DEF Wire!SeqOf
    <3>2. m \in Nat
      BY <3>1, PacketsAssumption
    <3> QED
      BY <3>1, <3>2
  <2>2. /\ p \in Seq(Plain) /\ \A k \in 1 .. Len(p) : p[k][1] # "hash"
        /\ Wire!Unescaped(p) = data
    BY <2>1, EscapedIs DEF EscapesWell
  <2> HIDE DEF p
  <2>3. Says(Wire!Framed(p, Wire!Digits(p)), Wire!Packet(data))
    BY <2>2, FramedSays
  <2>4. Says(Wire!Framed(p, Wire!Digits(q)), Wire!Corrupt)
    <3>1. <<<<"text">>>> \in Seq(Plain) /\ Len(<<<<"text">>>>) = 1
      BY DEF Plain
    <3>2. q \in Seq(Plain) /\ Len(q) = 1 + Len(p) /\ Len(p) \in Nat
      BY <2>2, <3>1, JoinedIs
    <3>3. p # q
      BY <3>2
    <3> HIDE DEF q
    <3> QED
      BY <2>2, <3>2, <3>3, FramedSays
  <2>5. CASE Wire!SendPacket(data)
    <3>1. Wire!Send(Wire!Packet(data), Wire!Framed(p, Wire!Digits(p)))
      BY <2>5 DEF Wire!SendPacket, p
    <3> QED
      BY <2>3, <3>1, SendStep
  <2>6. CASE Wire!SendDamaged(data)
    <3>1. Wire!Send(Wire!Corrupt, Wire!Framed(p, Wire!Digits(q)))
      BY <2>6 DEF Wire!SendDamaged, p
    <3> QED
      BY <2>4, <3>1, SendStep
  <2> QED
    BY <1>1, <2>5, <2>6
<1>2. CASE Wire!SendInterrupt
  BY <1>2, OneOctetSays, SendStep DEF Wire!SendInterrupt
<1>3. CASE Wire!SendAck
  BY <1>3, OneOctetSays, SendStep DEF Wire!SendAck
<1>4. CASE Wire!Service
  BY <1>4, ServiceStep
<1> QED
  BY <1>1, <1>2, <1>3, <1>4 DEF Wire!Next

LEMMA WireInit == Wire!Init => WireInv
<1> SUFFICES ASSUME Wire!Init PROVE WireInv
  OBVIOUS
<1>1. packetsWire = <<>> /\ packetsBuf = <<>> /\ packetsSent = <<>> /\ packetsTaken = <<>>
      /\ packetsReplies = <<>>
  BY DEF Wire!Init
<1>2. <<>> \in Seq(Octet) /\ <<>> \in Seq(Item) /\ Len(<<>>) = 0 /\ <<>> \o <<>> = <<>>
  OBVIOUS
<1>3. Wire!Items(<<>>) = [items |-> <<>>, left |-> <<>>]
  BY <1>2, ItemsTaken
<1>4. AnswersTo(<<>>) = <<>>
  BY DEF AnswersTo
<1>5. 0 <= PacketItems
  BY PacketsAssumption
<1> QED
  BY <1>1, <1>2, <1>3, <1>4, <1>5, FlattenEmpty DEF WireInv, Pending

LEMMA WireShows == WireInv => Wire!TypeOK /\ Wire!ItemsSurvive
<1> SUFFICES ASSUME WireInv PROVE Wire!TypeOK /\ Wire!ItemsSurvive
  OBVIOUS
<1> DEFINE t == packetsTaken
           s == packetsSent
           r == Pending
<1>1. /\ packetsWire \in Seq(Octet) /\ packetsBuf \in Seq(Octet) /\ s \in Seq(Item)
      /\ t \in Seq(Item) /\ Len(s) <= PacketItems /\ s = t \o r.items /\ r.left = <<>>
      /\ Wire!Items(packetsBuf) = [items |-> <<>>, left |-> packetsBuf]
      /\ packetsReplies = Wire!FlattenSeq(AnswersTo(t))
  BY DEF WireInv
<1>2. r.items \in Seq(Item)
  <2>1. packetsBuf \o packetsWire \in Seq(Octet)
    BY <1>1, ConcatProperties
  <2>2. r \in Parsed
    BY <2>1, ItemsTaken DEF Pending
  <2> QED
    BY <2>2 DEF Parsed
<1>3. packetsWire = <<>> => t = s /\ packetsBuf = <<>>
  <2> SUFFICES ASSUME packetsWire = <<>> PROVE t = s /\ packetsBuf = <<>>
    OBVIOUS
  <2>1. packetsBuf \o packetsWire = packetsBuf
    BY <1>1, ConcatEmptySeq
  <2>2. r = [items |-> <<>>, left |-> packetsBuf]
    BY <1>1, <2>1 DEF Pending
  <2>3. t \o <<>> = t
    BY <1>1, ConcatEmptySeq
  <2> HIDE DEF r, t, s
  <2> QED
    BY <1>1, <2>2, <2>3
<1> HIDE DEF r
<1>4. Len(t) <= Len(s) /\ Len(t) \in Nat /\ Len(s) \in Nat /\ \A i \in 1 .. Len(t) : s[i] = t[i]
  <2>1. /\ Len(s) = Len(t) + Len(r.items) /\ Len(t) \in Nat /\ Len(r.items) \in Nat
        /\ \A i \in 1 .. Len(t) : s[i] = t[i]
    BY <1>1, <1>2, JoinedIs
  <2> HIDE DEF t, s
  <2> QED
    BY <2>1
<1>5. SubSeq(t, 1, Len(t)) = SubSeq(s, 1, Len(t))
  <2>1. /\ SubSeq(t, 1, Len(t)) = [i \in 1 .. Len(t) |-> t[i]]
        /\ SubSeq(s, 1, Len(t)) = [i \in 1 .. Len(t) |-> s[i]]
    <3> HIDE DEF t, s
    <3>1. Len(t) - 1 + 1 = Len(t) /\ \A i \in 1 .. Len(t) : 1 + i - 1 = i
      BY <1>4
    <3> QED
      BY <1>1, <1>4, <3>1
  <2> HIDE DEF t, s
  <2> QED
    BY <1>4, <2>1
<1>6. Wire!IsPrefix(t, s)
  BY <1>4, <1>5 DEF Wire!IsPrefix
<1>7. packetsReplies = Wire!FlattenSeq([k \in DOMAIN t |-> Wire!Answer(t[k])])
  BY <1>1 DEF AnswersTo
<1>8. packetsReplies \in Seq({"+", "-"})
  <2>1. AnswersTo(t) \in Seq(Seq({"+", "-"}))
    BY <1>1, AnswersAre
  <2> QED
    BY <1>1, <2>1, FlattenConcat
<1>9. \A k \in DOMAIN t : t[k].kind \in {"packet", "corrupt", "interrupt", "ack"}
  <2>1. \A item \in Item : item.kind \in {"packet", "corrupt", "interrupt", "ack"}
    BY DEF Item, Wire!Corrupt, Wire!Interrupt, Wire!Ack
  <2> QED
    BY <1>1, <2>1
<1>10. Len(s) <= PacketItems /\ Len(t) <= PacketItems
  BY <1>1, <1>4, PacketsAssumption
<1> QED
  BY <1>3, <1>6, <1>7, <1>8, <1>9, <1>10 DEF Wire!TypeOK, Wire!ItemsSurvive

(* However the bytes are cut into segments, the server takes out exactly    *)
(* the items that were sent, in order and with the data they were sent      *)
(* with, answers each packet in its turn, and keeps nothing back once        *)
(* everything has arrived (Receiver::next_item, service_client).           *)
THEOREM ItemsDoSurvive == UnitsSpec => []ItemsSurvive
<1> DEFINE Inv == unit = "packets" => WireInv
<1>1. UnitsInit => Inv
  BY WireInit DEF UnitsInit
<1>2. Inv /\ [UnitsNext]_unitsVars => Inv'
  <2> SUFFICES ASSUME Inv, [UnitsNext]_unitsVars PROVE Inv'
    OBVIOUS
  <2>1. CASE UNCHANGED <<unit, packetsVars>>
    BY <2>1 DEF packetsVars, WireInv, Pending, AnswersTo
  <2>2. CASE UnitsNext /\ unit = "packets"
    <3>1. unit' = unit /\ WireInv /\ (Wire!Next \/ UNCHANGED packetsVars)
      BY <2>2 DEF UnitsNext
    <3>2. CASE Wire!Next
      BY <3>1, <3>2, WireStep
    <3>3. CASE UNCHANGED packetsVars
      BY <2>1, <3>1, <3>3
    <3> QED
      BY <3>1, <3>2, <3>3
  <2>3. CASE UnitsNext /\ unit # "packets"
    BY <2>3 DEF UnitsNext
  <2>4. UNCHANGED unitsVars => UNCHANGED <<unit, packetsVars>>
    BY DEF unitsVars
  <2> QED
    BY <2>1, <2>2, <2>3, <2>4
<1>3. Inv => ItemsSurvive
  BY WireShows DEF ItemsSurvive
<1> QED
  <2>1. [UnitsNext]_unitsVars <=> [UnitsNext]_<<
          unit, controlVars, cheatsVars, scanVars, ttyVars, packetsVars, cueVars>>
    BY DEF unitsVars
  <2> QED
    BY <1>1, <1>2, <1>3, <2>1, PTL DEF UnitsSpec
=============================================================================
