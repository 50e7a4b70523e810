--------------------------- MODULE SioCardProofs ---------------------------
(***************************************************************************)
(* Proofs about the controller port and the memory card (module SioCard),  *)
(* for every payload length, set of sectors and bytes, program and bound.  *)
(***************************************************************************)
EXTENDS MCCard, TLAPS

USE SioCardAssumption DEF SioCardAssumption

(* What the game saved is in the file, or is still to be written, or the   *)
(* user was told (memcard.rs, main.rs, emu.rs: flush_memcard).             *)
THEOREM SavesAreKept == Spec => []NoLostSave
<1>1. Init => NoLostSave
  BY DEF Init, NoLostSave
<1>2. NoLostSave /\ [Next]_vars => NoLostSave'
  <2> SUFFICES ASSUME NoLostSave, [Next]_vars PROVE NoLostSave'
    OBVIOUS
  <2> USE DEF NoLostSave
  <2>1. ASSUME NEW tx \in Program(seq), WriteData(tx) PROVE NoLostSave'
    <3>1. UNCHANGED <<file, unsaved>> /\ (UNCHANGED <<data, dirty>> \/ dirty')
      BY <2>1 DEF WriteData, Exchange
    <3> QED
      BY <3>1
  <2>2. ASSUME NEW bits \in Controls, WriteCtrl(bits) PROVE NoLostSave'
    BY <2>2 DEF WriteCtrl, storage
  <2>3. CASE FlushCard
    BY <2>3 DEF FlushCard
  <2>4. CASE Service \/ SaveState \/ LoadState \/ Reset \/ UNCHANGED vars
    BY <2>4 DEF Service, SaveState, LoadState, Reset, vars, storage
  <2> QED
    BY <2>1, <2>2, <2>3, <2>4 DEF Next
<1> QED
  BY <1>1, <1>2, PTL DEF Spec
-----------------------------------------------------------------------------
(* The card. *)

(* The members of a pair.                                                  *)
LEMMA Pairs ==
  ASSUME NEW S, NEW p \in S \X S, NEW x \in S
  PROVE  /\ p = <<p[1], p[2]>> /\ p[1] \in S /\ p[2] \in S
         /\ [p EXCEPT ![2] = x] = <<p[1], x>>
  OBVIOUS

(* A byte advances the card by one step, keeps its type, and leaves the    *)
(* payload it has no place for alone.                                      *)
LEMMA CardStep ==
  ASSUME NEW c \in Card, NEW tx \in Byte
  PROVE  CardAfter(c, tx) \in Card /\ CardAfter(c, tx).step = c.step + 1
<1>1. Received(c, tx) \in Card /\ Received(c, tx).step = c.step
  <2> USE DEF Card, CardCommands
  <2> DEFINE hi == [c EXCEPT !.address = <<tx, 0>>]
             lo == [c EXCEPT !.address[2] = tx]
             addressed == [lo EXCEPT !.chk = XorByte(lo.address[1], tx)]
             written == [c EXCEPT !.buf[c.step - 5] = tx, !.chk = XorByte(@, tx)]
  <2>1. [c EXCEPT !.cmd = Decode(tx)] \in Card /\ [c EXCEPT !.cmd = Decode(tx)].step = c.step
    BY DEF Decode
  <2>2. hi \in Card /\ hi.step = c.step
    OBVIOUS
  <2>3. lo \in Card /\ lo.step = c.step /\ addressed \in Card /\ addressed.step = c.step
    <3>0. c.address \in Byte \X Byte
      OBVIOUS
    <3> DEFINE a == c.address[1]
    <3>1. a \in Byte /\ [c.address EXCEPT ![2] = tx] = <<a, tx>>
      BY <3>0, Pairs
    <3>3. lo = [c EXCEPT !.address = <<a, tx>>]
      BY <3>1
    <3> HIDE DEF a, lo
    <3>4. <<a, tx>> \in Byte \X Byte /\ XorByte(a, tx) \in Byte
      BY <3>1
    <3>5. lo \in Card /\ lo.step = c.step /\ lo.address[1] = a
      BY <3>3, <3>4
    <3>6. addressed = [lo EXCEPT !.chk = XorByte(a, tx)]
      BY <3>5
    <3> QED
      BY <3>4, <3>5, <3>6
  <2>4. c.step \in 6 .. 5 + Payload => written \in Card /\ written.step = c.step
    OBVIOUS
  <2>5. [c EXCEPT !.recv_chk = tx] \in Card /\ [c EXCEPT !.recv_chk = tx].step = c.step
    OBVIOUS
  <2>6. [c EXCEPT !.cmd = "done"] \in Card /\ [c EXCEPT !.cmd = "done"].step = c.step
    OBVIOUS
  <2> HIDE DEF hi, lo, addressed, written, Card, CardCommands
  <2>7. Received(c, tx) \in {[c EXCEPT !.cmd = Decode(tx)], hi, lo, addressed, 
                              [c EXCEPT !.recv_chk = tx], [c EXCEPT !.cmd = "done"], c}
        \/ (c.step \in 6 .. 5 + Payload /\ Received(c, tx) = written)
    BY DEF Received, hi, lo, addressed, written
  <2> QED
    BY <2>1, <2>2, <2>3, <2>4, <2>5, <2>6, <2>7
<1> DEFINE r == Received(c, tx)
<1>2. r \in Card /\ r.step = c.step
  BY <1>1
<1> HIDE DEF r
<1>3. c.step + 1 \in Nat
  BY DEF Card
<1>4. [r EXCEPT !.step = c.step + 1] \in Card
      /\ [r EXCEPT !.step = c.step + 1].step = c.step + 1
  BY <1>2, <1>3 DEF Card
<1> QED
  BY <1>4 DEF CardAfter, r
-----------------------------------------------------------------------------
(* The types. *)

(* What a program sends is a byte.                                         *)
LEMMA ProgramSends ==
  ASSUME seq \in Nat, NEW tx \in Program(seq), seq < TransferBound
  PROVE  tx \in Byte
  BY SioCardAssumption

(* A byte through the port keeps the types,                                *)
LEMMA WriteDataTyped ==
  ASSUME TypeOK, NEW tx \in Program(seq), WriteData(tx)
  PROVE  TypeOK'
<1>1. tx \in Byte
  BY ProgramSends DEF TypeOK, WriteData
<1>2. CardAfter(card, tx) \in Card
  BY <1>1, CardStep DEF TypeOK
<1>3. Chosen(tx) \in Devices
  BY DEF Chosen, TypeOK, Devices
<1>4. device' \in Devices /\ seq' \in Nat
  <2>1. seq + 1 \in Nat
    BY DEF TypeOK
  <2> QED
    BY <1>3, <2>1 DEF WriteData, TypeOK, Devices
<1>8. ack_at' \in BOOLEAN /\ acked' \in BOOLEAN
  BY DEF WriteData, TypeOK, CardAcks, PadAcks
<1>5. card' \in Card
  BY <1>2 DEF WriteData, Exchange, TypeOK
<1>6. data' \in Contents /\ dirty' \in BOOLEAN
  <2>1. card.buf \in [1 .. Payload -> Byte]
    BY DEF TypeOK, Card
  <2>2. [data EXCEPT ![card.address] = card.buf] \in Contents
    BY <2>1 DEF TypeOK, Contents
  <2> QED
    BY <2>2 DEF WriteData, Exchange, TypeOK
<1>7. sent' \in Seq(Byte)
  <2>1. sent \in Seq(Byte) /\ Append(sent, tx) \in Seq(Byte)
    BY <1>1 DEF TypeOK
  <2> QED
    BY <2>1 DEF WriteData
<1> QED
  BY <1>4, <1>5, <1>6, <1>7, <1>8 DEF WriteData, TypeOK

(* The port, the card, the file and the save state keep their types.       *)
LEMMA TypesStart == Init => TypeOK
<1> SUFFICES ASSUME Init PROVE TypeOK
  OBVIOUS
<1>1. card \in Card
  BY DEF Init, Card, CardCommands
<1>2. data \in Contents /\ file \in Contents
  BY DEF Init, Contents, Blank
<1>3. sent \in Seq(Byte) /\ device \in Devices /\ ctrl \subseteq ControlBits \ {"ack", "reset"}
      /\ seq \in Nat /\ saved \in Port \cup {None}
  BY DEF Init, Devices
<1> QED
  BY <1>1, <1>2, <1>3, Zenon DEF Init, TypeOK

(* and so does every step.                                                 *)
LEMMA TypesStay == TypeOK /\ [Next]_vars => TypeOK'
<1> SUFFICES ASSUME TypeOK, [Next]_vars PROVE TypeOK'
  OBVIOUS
<1>1. ASSUME NEW tx \in Program(seq), WriteData(tx) PROVE TypeOK'
  BY <1>1, WriteDataTyped
<1>2. ASSUME NEW bits \in Controls, WriteCtrl(bits) PROVE TypeOK'
  <2>1. ctrl' \subseteq ControlBits \ {"ack", "reset"}
    BY <1>2 DEF WriteCtrl, Latched
  <2>2. card' \in Card
    BY <1>2 DEF WriteCtrl, Deselected, TypeOK, Card, CardCommands
  <2>3. seq' \in Nat /\ device' \in Devices /\ sent' \in Seq(Byte)
    <3>1. seq' \in {0, seq} /\ device' \in {"none", device} /\ sent' \in {<<>>, sent}
      BY <1>2 DEF WriteCtrl
    <3>2. <<>> \in Seq(Byte) /\ 0 \in Nat /\ "none" \in Devices
      BY DEF Devices
    <3> QED
      BY <3>1, <3>2, Zenon DEF TypeOK
  <2>4. acked' \in BOOLEAN /\ irq_flag' \in BOOLEAN /\ ack_at' \in BOOLEAN
    BY <1>2, Zenon DEF WriteCtrl, TypeOK
  <2> QED
    BY <1>2, <2>1, <2>2, <2>3, <2>4 DEF WriteCtrl, storage, TypeOK
<1>3. CASE Service \/ FlushCard \/ UNCHANGED vars
  BY <1>3 DEF Service, FlushCard, vars, port, storage, TypeOK
<1>4. CASE SaveState
  <2>1. saved' \in Port
    BY <1>4 DEF SaveState, TypeOK, Port
  <2> QED
    BY <1>4, <2>1 DEF SaveState, port, storage, TypeOK
<1>5. CASE LoadState
  <2>1. saved \in Port
    BY <1>5 DEF LoadState, TypeOK
  <2>2. /\ ctrl' \subseteq ControlBits \ {"ack", "reset"} /\ seq' \in Nat /\ device' \in Devices
        /\ irq_flag' \in BOOLEAN /\ ack_at' \in BOOLEAN
    BY <1>5, <2>1 DEF LoadState, SetPort, Port
  <2>3. sent' \in Seq(Byte)
    BY <1>5 DEF LoadState
  <2> QED
    BY <1>5, <2>2, <2>3, Zenon DEF LoadState, storage, TypeOK
<1>6. CASE Reset
  <2>1. /\ ctrl' = {} /\ seq' = 0 /\ device' = "none" /\ irq_flag' = FALSE /\ ack_at' = FALSE
    BY <1>6 DEF Reset, SetPort, PowerOnPort
  <2>2. sent' \in Seq(Byte) /\ device' \in Devices /\ seq' \in Nat
    BY <1>6, <2>1 DEF Reset, Devices
  <2> QED
    BY <1>6, <2>1, <2>2, Zenon DEF Reset, storage, TypeOK
<1> QED
  BY <1>1, <1>2, <1>3, <1>4, <1>5, <1>6 DEF Next

(* No byte, interrupt, save or load puts anything out of its type.         *)
THEOREM TypesAreKept == Spec => []TypeOK
  BY TypesStart, TypesStay, PTL DEF Spec
-----------------------------------------------------------------------------
(* One machine, whose program resets the port only together with a         *)
(* deselect, as the kernel does.                                           *)
Undisturbed ==
  /\ Replacements = {}
  /\ \A bits \in Controls : "reset" \in bits => "select" \notin bits

(* What the port, the card and the bytes since the 0x81 have to do with    *)
(* one another.                                                            *)
Together ==
  /\ InStep
  /\ Len(sent) = card.step
  /\ device = "memcard" => seq > 0
  /\ card.step > 0 => sent[1] = SelectCard
  /\ card.step < 2 => card.cmd = "none"
  /\ saved = None

(* What is no byte of a transaction leaves the counts together.            *)
LEMMA PortKeeps ==
  ASSUME Undisturbed, TypeOK, Together, ~\E tx \in Program(seq) : WriteData(tx), [Next]_vars
  PROVE  Together' /\ ((card' = card /\ sent' = sent) \/ card'.cmd = "none")
<1>1. card \in Card
  BY DEF TypeOK
<1>2. ASSUME NEW bits \in Controls, WriteCtrl(bits)
      PROVE  Together' /\ ((card' = card /\ sent' = sent) \/ card'.cmd = "none")
  <2>1. CASE "select" \notin bits
    <3>1. card'.cmd = "none" /\ card'.step = 0
      BY <1>1, <1>2, <2>1 DEF WriteCtrl, Deselected, Card
    <3>2. seq' = 0 /\ device' = "none" /\ sent' = <<>> /\ saved' = saved
      BY <1>2, <2>1 DEF WriteCtrl
    <3> QED
      BY <3>1, <3>2 DEF Together, InStep
  <2>2. CASE "select" \in bits
    <3>1. UNCHANGED <<card, seq, device, sent, saved>>
      BY <1>2, <2>2 DEF WriteCtrl, Undisturbed
    <3> QED
      BY <3>1 DEF Together, InStep
  <2> QED
    BY <2>1, <2>2
<1>3. CASE Service \/ FlushCard \/ UNCHANGED vars
  <2>1. UNCHANGED <<card, seq, device, sent, saved>>
    BY <1>3 DEF Service, FlushCard, vars, port
  <2> QED
    BY <2>1 DEF Together, InStep
<1>4. ~SaveState /\ ~LoadState /\ ~Reset
  BY DEF SaveState, LoadState, Reset, Undisturbed, Together
<1> QED
  BY <1>2, <1>3, <1>4 DEF Next

(* A byte: either the card has it, and counts it with the port, or it is   *)
(* left alone.                                                             *)
LEMMA ByteReaches ==
  ASSUME TypeOK, Together, NEW tx \in Program(seq), WriteData(tx)
  PROVE  /\ tx \in Byte
         /\ Together'
         /\ \/ /\ sent' = Append(sent, tx) /\ card' = CardAfter(card, tx)
               /\ data' = IF Commits(card) THEN [data EXCEPT ![card.address] = card.buf]
                          ELSE data
            \/ UNCHANGED <<card, data, sent>>
<1>1. tx \in Byte /\ card \in Card /\ seq \in Nat /\ sent \in Seq(Byte)
  BY ProgramSends DEF TypeOK, WriteData
<1>2. CASE UNCHANGED <<seq, device, card, data, sent, saved>>
  BY <1>1, <1>2 DEF Together, InStep
<1> DEFINE selected == {"tx", "select"} \subseteq ctrl /\ "slot2" \notin ctrl
<1>5. ~selected => UNCHANGED <<seq, device, card, data, sent, saved>>
  BY Zenon DEF WriteData
<1>6. selected => /\ seq' = seq + 1 /\ saved' = saved
                  /\ device' = IF Chosen(tx) = "pad" /\ ~PadKeeps(seq, tx) THEN "absent"
                               ELSE Chosen(tx)
                  /\ IF Chosen(tx) = "memcard" THEN Exchange(tx) /\ sent' = Append(sent, tx)
                                               ELSE UNCHANGED <<card, data, dirty, sent>>
  BY Zenon DEF WriteData
<1> HIDE DEF selected
<1>3. CASE selected /\ Chosen(tx) = "memcard"
  <2>1. /\ device' = "memcard" /\ sent' = Append(sent, tx) /\ card' = CardAfter(card, tx)
        /\ data' = IF Commits(card) THEN [data EXCEPT ![card.address] = card.buf] ELSE data
        /\ saved' = saved
    BY <1>3, <1>6 DEF Exchange
  <2>2. card'.step = card.step + 1 /\ card.step \in Nat
    BY <1>1, <2>1, CardStep DEF Card
  <2>3. card.step = seq
    BY <1>3 DEF Together, InStep, Chosen
  <2>4. Len(sent') = Len(sent) + 1 /\ sent'[Len(sent) + 1] = tx
        /\ \A i \in 1 .. Len(sent) : sent'[i] = sent[i]
    BY <1>1, <2>1
  <2>5. sent'[1] = SelectCard
    <3>1. CASE seq = 0
      <4>1. tx = SelectCard
        BY <1>3, <3>1 DEF Chosen
      <4> QED
        BY <2>3, <2>4, <3>1, <4>1 DEF Together
    <3>2. CASE seq # 0
      BY <1>1, <2>3, <2>4, <3>2 DEF Together
    <3> QED
      BY <3>1, <3>2
  <2>6. card'.step < 2 => card'.cmd = "none"
    BY <1>1, <2>1, <2>2 DEF CardAfter, Received, Finishes, Card, Together
  <2> QED
    BY <1>1, <1>3, <1>6, <2>1, <2>2, <2>3, <2>4, <2>5, <2>6 DEF Together, InStep
<1>4. CASE selected /\ Chosen(tx) # "memcard"
  <2>1. device' # "memcard" /\ UNCHANGED <<card, data, sent, saved>>
    BY <1>4, <1>6
  <2>2. card.step = 0
    BY <1>1, <1>4 DEF Together, InStep, Chosen
  <2> QED
    BY <1>1, <1>4, <1>6, <2>1, <2>2 DEF Together, InStep
<1> QED
  BY <1>2, <1>3, <1>4, <1>5

(* The two byte counts agree (memcard.rs:13): as long as nothing replaces  *)
(* the machine, which is what breaks it.                                   *)
THEOREM CountsAgree ==
  ASSUME Undisturbed
  PROVE  MCSpec => []KeptInStep
<1> DEFINE Inv == instance = "kept" => TypeOK /\ Together
<1>1. MCInit => Inv
  BY TypesStart DEF MCInit, Init, Together, InStep
<1>2. Inv /\ [MCNext]_<<instance, vars>> => Inv'
  <2> SUFFICES ASSUME Inv, [MCNext]_<<instance, vars>>, instance' = "kept"
               PROVE  TypeOK' /\ Together'
    OBVIOUS
  <2>1. instance = "kept" /\ [Next]_vars
    BY DEF MCNext
  <2> QED
    BY <2>1, TypesStay, PortKeeps, ByteReaches
<1>3. Inv => KeptInStep
  BY DEF KeptInStep, Together
<1> QED
  BY <1>1, <1>2, <1>3, PTL DEF MCSpec
-----------------------------------------------------------------------------
(* A write under way: the card holds what the bytes said.                  *)

(* f is the running checksum of the address and k payload bytes in s.      *)
Sums(f, s, k) ==
  /\ f[0] = XorByte(s[5], s[6])
  /\ \A i \in 1 .. k : f[i] = XorByte(f[i - 1], s[6 + i])

Counted(n) == IF n - 6 > Payload THEN Payload ELSE n - 6

(* Whoever adds them up comes to the card's checksum.                      *)
SummedUp(chk, s, k) ==
  /\ \E f \in [0 .. Payload -> Byte] : Sums(f, s, k)
  /\ \A f : Sums(f, s, k) => f[k] = chk

Holds(c, s) ==
  /\ Len(s) >= 2 /\ Len(s) <= 9 + Payload
  /\ s[2] = WriteCommand
  /\ Len(s) >= 5 => c.address[1] = s[5]
  /\ Len(s) >= 6 => c.address[2] = s[6]
  /\ \A i \in 1 .. Payload : Len(s) >= 6 + i => c.buf[i] = s[6 + i]
  /\ Len(s) >= 6 => SummedUp(c.chk, s, Counted(Len(s)))
  /\ Len(s) >= 7 + Payload => c.recv_chk = s[7 + Payload]

(* Bytes heard later change nothing about the sum of earlier ones.         *)
LEMMA SumsKept ==
  ASSUME NEW s \in Seq(Byte), NEW tx \in Byte, NEW k \in Nat, 6 + k <= Len(s), NEW f
  PROVE  Sums(f, Append(s, tx), k) <=> Sums(f, s, k)
<1>1. \A i \in 1 .. Len(s) : Append(s, tx)[i] = s[i]
  OBVIOUS
<1>2. 5 \in 1 .. Len(s) /\ 6 \in 1 .. Len(s) /\ \A i \in 1 .. k : 6 + i \in 1 .. Len(s)
  OBVIOUS
<1> HIDE DEF Sums
<1>3. Append(s, tx)[5] = s[5] /\ Append(s, tx)[6] = s[6]
      /\ \A i \in 1 .. k : Append(s, tx)[6 + i] = s[6 + i]
  BY <1>1, <1>2
<1> QED
  BY <1>3 DEF Sums

(* The checksum of bytes already sent stays what it was,                   *)
LEMMA SummedUpKept ==
  ASSUME NEW s \in Seq(Byte), NEW tx \in Byte, NEW k \in Nat, 6 + k <= Len(s), NEW chk
  PROVE  SummedUp(chk, Append(s, tx), k) <=> SummedUp(chk, s, k)
  BY SumsKept DEF SummedUp

(* The next payload byte is added to the sum.                              *)
LEMMA SummedUpNext ==
  ASSUME NEW s \in Seq(Byte), NEW tx \in Byte, NEW k \in 0 .. Payload - 1, Len(s) = 6 + k,
         NEW chk \in Byte, SummedUp(chk, s, k)
  PROVE  SummedUp(XorByte(chk, tx), Append(s, tx), k + 1)
<1> DEFINE t == Append(s, tx)
<1>1. t[6 + (k + 1)] = tx
  OBVIOUS
<1>2. \A f : Sums(f, t, k) <=> Sums(f, s, k)
  BY SumsKept
<1>3. \A f : Sums(f, t, k + 1) <=> Sums(f, t, k) /\ f[k + 1] = XorByte(f[k], tx)
  <2> SUFFICES ASSUME NEW f
               PROVE  Sums(f, t, k + 1) <=> Sums(f, t, k) /\ f[k + 1] = XorByte(f[k], tx)
    OBVIOUS
  <2> HIDE DEF t
  <2>1. \A i \in 1 .. k + 1 : i \in 1 .. k \/ i = k + 1
    OBVIOUS
  <2>2. 1 .. k \subseteq 1 .. k + 1 /\ k + 1 \in 1 .. k + 1 /\ (k + 1) - 1 = k
    OBVIOUS
  <2> QED
    BY <1>1, <2>1, <2>2 DEF Sums
<1> HIDE DEF t
<1>4. PICK f \in [0 .. Payload -> Byte] : Sums(f, s, k)
  BY DEF SummedUp
<1> DEFINE g == [f EXCEPT ![k + 1] = XorByte(f[k], tx)]
<1>5. f[k] = chk /\ XorByte(f[k], tx) \in Byte
  BY <1>4 DEF SummedUp
<1>6. g \in [0 .. Payload -> Byte] /\ g[k + 1] = XorByte(f[k], tx)
      /\ \A i \in 0 .. k : g[i] = f[i]
  BY <1>5
<1> HIDE DEF g
<1>7. Sums(g, s, k)
  <2>1. 0 \in 0 .. k /\ \A i \in 1 .. k : i \in 0 .. k /\ i - 1 \in 0 .. k
    OBVIOUS
  <2> QED
    BY <1>4, <1>6, <2>1 DEF Sums
<1>8. Sums(g, t, k + 1)
  <2>1. g[k] = f[k]
    BY <1>6
  <2> QED
    BY <1>2, <1>3, <1>6, <1>7, <2>1
<1>9. ASSUME NEW h, Sums(h, t, k + 1) PROVE h[k + 1] = XorByte(chk, tx)
  <2>1. Sums(h, s, k) /\ h[k + 1] = XorByte(h[k], tx)
    BY <1>2, <1>3, <1>9
  <2> QED
    BY <2>1 DEF SummedUp
<1> QED
  BY <1>6, <1>8, <1>9 DEF SummedUp, t

(* and starts with the sector number.                                      *)
LEMMA SummedUpFirst ==
  ASSUME NEW s, s[5] \in Byte, s[6] \in Byte
  PROVE  SummedUp(XorByte(s[5], s[6]), s, 0)
<1> DEFINE x == XorByte(s[5], s[6])
           f == [i \in 0 .. Payload |-> x]
<1>0. x \in Byte
  OBVIOUS
<1> HIDE DEF x
<1>1. f \in [0 .. Payload -> Byte] /\ f[0] = x
  BY <1>0
<1>2. \A i \in 1 .. 0 : FALSE
  OBVIOUS
<1> HIDE DEF f
<1> QED
  BY <1>1, <1>2 DEF SummedUp, Sums, x

(* Every byte of a write keeps what is held.                               *)
LEMMA HoldsKept ==
  ASSUME NEW c \in Card, NEW s \in Seq(Byte), NEW tx \in Byte, Len(s) = c.step,
         c.cmd = "write", Holds(c, s), CardAfter(c, tx).cmd = "write"
  PROVE  Holds(CardAfter(c, tx), Append(s, tx))
<1> DEFINE n == Len(s)
           t == Append(s, tx)
           d == CardAfter(c, tx)
<1>1. n \in 2 .. 8 + Payload
  <2>1. Finishes(c) => Received(c, tx).cmd # "write"
    BY DEF Finishes, Received, LastStep, Card
  <2>2. c.step \in Nat /\ c.step >= 2 /\ c.step <= 9 + Payload
    BY DEF Holds, Card
  <2>3. Received(c, tx).cmd = "write"
    BY CardStep DEF CardAfter, Received, Card
  <2> QED
    BY <2>1, <2>2, <2>3 DEF Finishes, LastStep
<1>2. Len(t) = n + 1 /\ t[n + 1] = tx /\ \A i \in 1 .. n : t[i] = s[i]
  OBVIOUS
<1>3. ~Finishes(c)
  BY <1>1 DEF Finishes, LastStep
<1>4. \A a, b : SummedUp(a, s, b) /\ b \in Nat /\ 6 + b <= n => SummedUp(a, t, b)
  BY SummedUpKept
<1> HIDE DEF t
<1>5. CASE n \in {2, 3}
  <2>1. d.address = c.address /\ d.buf = c.buf
    BY <1>3, <1>5 DEF CardAfter, Received, Card
  <2> QED
    BY <1>2, <1>5 DEF Holds, t
<1>6. CASE n = 4
  <2>1. d.address[1] = tx
    BY <1>3, <1>6 DEF CardAfter, Received, Card
  <2> QED
    BY <1>2, <1>6, <2>1 DEF Holds, t
<1>7. CASE n = 5
  <2>1. c.address \in Byte \X Byte
    BY DEF Card
  <2>2. [c.address EXCEPT ![2] = tx] = <<c.address[1], tx>> /\ c.address[1] \in Byte
    BY <2>1, Pairs
  <2>3. d.address = <<c.address[1], tx>> /\ d.chk = XorByte(c.address[1], tx)
    BY <1>3, <1>7, <2>2 DEF CardAfter, Received, Card
  <2>4. c.address[1] = s[5]
    BY <1>7 DEF Holds
  <2>5. t[5] = c.address[1] /\ t[6] = tx /\ t[2] = s[2] /\ Len(t) = 6
    BY <1>2, <1>7, <2>4
  <2>6. SummedUp(d.chk, t, 0)
    BY <2>2, <2>3, <2>5, SummedUpFirst
  <2>7. Counted(6) = 0
    BY DEF Counted
  <2> HIDE DEF d
  <2> QED
    BY <1>7, <2>2, <2>3, <2>5, <2>6, <2>7 DEF Holds, d, t
<1>8. CASE n \in 6 .. 5 + Payload
  <2>1. d.address = c.address /\ d.buf = [c.buf EXCEPT ![n - 5] = tx] /\ d.chk = XorByte(c.chk, tx)
    BY <1>3, <1>8 DEF CardAfter, Received, Card
  <2>2. n - 6 \in 0 .. Payload - 1 /\ n - 5 \in 1 .. Payload /\ (n - 6) + 1 = n - 5
        /\ Counted(n) = n - 6 /\ Counted(n + 1) = n - 5
    BY <1>8 DEF Counted
  <2>3. SummedUp(c.chk, s, n - 6) /\ c.chk \in Byte /\ c.buf \in [1 .. Payload -> Byte]
    BY <1>8, <2>2 DEF Holds, Card
  <2>4. SummedUp(d.chk, t, n - 5)
    <3>1. PICK k \in 0 .. Payload - 1 : Len(s) = 6 + k /\ k = n - 6 /\ k + 1 = n - 5
      BY <1>8, <2>2
    <3>2. SummedUp(c.chk, s, k)
      BY <2>3, <3>1
    <3>3. SummedUp(XorByte(c.chk, tx), t, k + 1)
      BY <2>3, <3>1, <3>2, SummedUpNext DEF t
    <3> QED
      BY <2>1, <3>1, <3>3
  <2>5. \A i \in 1 .. Payload : Len(t) >= 6 + i => d.buf[i] = t[6 + i]
    <3> SUFFICES ASSUME NEW i \in 1 .. Payload, Len(t) >= 6 + i PROVE d.buf[i] = t[6 + i]
      OBVIOUS
    <3>1. CASE i = n - 5
      <4>1. d.buf[i] = tx
        BY <2>1, <2>2, <2>3, <3>1
      <4>2. 6 + i = n + 1 /\ t[n + 1] = tx
        <5>1. n \in Nat
          OBVIOUS
        <5> QED
          BY <1>2, <3>1, <5>1
      <4> QED
        BY <4>1, <4>2
    <3>2. CASE i < n - 5
      <4>1. c.buf[i] = s[6 + i] /\ 6 + i \in 1 .. n
        BY <1>8, <3>2 DEF Holds
      <4>2. t[6 + i] = s[6 + i]
        BY <1>2, <4>1
      <4>3. d.buf[i] = c.buf[i]
        BY <2>1, <2>2, <2>3, <3>2
      <4> QED
        BY <4>1, <4>2, <4>3
    <3> QED
      BY <1>2, <3>1, <3>2
  <2>6. t[2] = s[2] /\ t[5] = s[5] /\ t[6] = s[6] /\ c.address[1] = s[5] /\ c.address[2] = s[6]
    BY <1>2, <1>8 DEF Holds
  <2>7. d.address[1] = t[5] /\ d.address[2] = t[6] /\ SummedUp(d.chk, t, Counted(n + 1))
    BY <2>1, <2>2, <2>4, <2>6
  <2>8. t[2] = WriteCommand /\ Len(t) >= 2 /\ Len(t) <= 9 + Payload /\ ~(Len(t) >= 7 + Payload)
    BY <1>2, <1>8, <2>6 DEF Holds
  <2> HIDE DEF d
  <2>9. Holds(d, t)
    BY <1>2, <2>5, <2>7, <2>8 DEF Holds
  <2> QED
    BY <2>9 DEF d, t
<1>9. CASE n \in 6 + Payload .. 8 + Payload
  <2>1. d.address = c.address /\ d.buf = c.buf /\ d.chk = c.chk
        /\ d.recv_chk = IF n = 6 + Payload THEN tx ELSE c.recv_chk
    BY <1>3, <1>9 DEF CardAfter, Received, Card
  <2>2. Counted(n) = Payload /\ Counted(n + 1) = Payload
    BY <1>9 DEF Counted
  <2>3. SummedUp(d.chk, t, Payload)
    BY <1>4, <1>9, <2>1, <2>2 DEF Holds
  <2>4. \A i \in 1 .. Payload : d.buf[i] = t[6 + i]
    <3> SUFFICES ASSUME NEW i \in 1 .. Payload PROVE d.buf[i] = t[6 + i]
      OBVIOUS
    <3>1. c.buf[i] = s[6 + i] /\ 6 + i \in 1 .. n
      BY <1>9 DEF Holds
    <3> QED
      BY <1>2, <2>1, <3>1
  <2>5. t[2] = s[2] /\ t[5] = s[5] /\ t[6] = s[6] /\ c.address[1] = s[5] /\ c.address[2] = s[6]
    BY <1>2, <1>9 DEF Holds
  <2>6. d.recv_chk = t[7 + Payload]
    BY <1>2, <1>9, <2>1 DEF Holds
  <2>7. d.address[1] = t[5] /\ d.address[2] = t[6] /\ SummedUp(d.chk, t, Counted(n + 1))
    BY <2>1, <2>2, <2>3, <2>5
  <2>8. t[2] = WriteCommand /\ Len(t) >= 2 /\ Len(t) <= 9 + Payload
    BY <1>2, <1>9, <2>5 DEF Holds
  <2> HIDE DEF d
  <2>9. Holds(d, t)
    BY <1>2, <2>4, <2>6, <2>7, <2>8 DEF Holds
  <2> QED
    BY <2>9 DEF d, t
<1> QED
  BY <1>1, <1>5, <1>6, <1>7, <1>8, <1>9

(* A write begins with its command, the second byte.                       *)
LEMMA HoldsFirst ==
  ASSUME NEW c \in Card, NEW s \in Seq(Byte), NEW tx \in Byte, Len(s) = c.step,
         c.cmd # "write", CardAfter(c, tx).cmd = "write"
  PROVE  Holds(CardAfter(c, tx), Append(s, tx))
<1>1. c.step = 1 /\ tx = WriteCommand
  BY DEF CardAfter, Received, Decode, Card
<1>2. Len(Append(s, tx)) = 2 /\ Append(s, tx)[2] = tx
  <2>1. Len(Append(s, tx)) = Len(s) + 1 /\ Append(s, tx)[Len(s) + 1] = tx
    OBVIOUS
  <2> QED
    BY <1>1, <2>1
<1> QED
  BY <1>1, <1>2 DEF Holds

(* A card that stores a sector has heard the whole of it.                  *)
LEMMA CommitsWhole ==
  ASSUME NEW c \in Card, NEW s \in Seq(Byte), NEW tx \in Byte, Len(s) = c.step,
         s[1] = SelectCard, Holds(c, s), Commits(c),
         NEW new, new = [data EXCEPT ![c.address] = c.buf]
  PROVE  WholeWrite(Append(s, tx), new)
<1> DEFINE t == Append(s, tx)
           payload == [i \in 1 .. Payload |-> t[6 + i]]
           Adds(f) == f = [i \in 0 .. Payload |->
                             IF i = 0 THEN XorByte(t[5], t[6]) ELSE XorByte(f[i - 1], payload[i])]
           sum == CHOOSE f : Adds(f)
<1>1. Len(s) = 9 + Payload
  BY DEF Commits, Finishes, LastStep, Holds, Card
<1>2. Len(t) = 10 + Payload /\ \A i \in 1 .. 9 + Payload : t[i] = s[i]
  BY <1>1
<1>3. /\ t[1] = SelectCard /\ t[2] = WriteCommand /\ t[5] = s[5] /\ t[6] = s[6]
      /\ t[7 + Payload] = s[7 + Payload]
      /\ \A i \in 1 .. Payload : t[6 + i] = s[6 + i]
  BY <1>1, <1>2 DEF Holds
<1>4. <<t[5], t[6]>> = c.address
  <2>1. c.address \in Byte \X Byte /\ c.address[1] = s[5] /\ c.address[2] = s[6]
    BY <1>1 DEF Holds, Card
  <2> QED
    BY <1>3, <2>1
<1>5. payload = c.buf
  <2>1. c.buf \in [1 .. Payload -> Byte] /\ \A i \in 1 .. Payload : c.buf[i] = s[6 + i]
    BY <1>1 DEF Holds, Card
  <2> QED
    BY <1>3, <2>1
<1>6. t[7 + Payload] = c.chk
  BY <1>1, <1>3 DEF Holds, Commits
<1>7. SummedUp(c.chk, s, Payload)
  BY <1>1 DEF Holds, Counted
<1>8. \A i \in 1 .. Payload : payload[i] = s[6 + i]
  BY <1>3
<1> HIDE DEF t, payload
<1>9. ASSUME NEW f, Adds(f) PROVE Sums(f, s, Payload)
  <2>1. 0 \in 0 .. Payload /\ \A i \in 1 .. Payload : i \in 0 .. Payload /\ i # 0
    OBVIOUS
  <2>2. f[0] = XorByte(t[5], t[6])
    BY <1>9, <2>1, Zenon
  <2>3. \A i \in 1 .. Payload : f[i] = XorByte(f[i - 1], payload[i])
    BY <1>9, <2>1, Zenon
  <2> QED
    BY <1>3, <1>8, <2>2, <2>3 DEF Sums
<1>10. \E f : Adds(f)
  <2>1. PICK f \in [0 .. Payload -> Byte] : Sums(f, s, Payload)
    BY <1>7 DEF SummedUp
  <2>2. Adds(f)
    BY <1>3, <1>8, <2>1 DEF Sums
  <2> HIDE DEF Adds
  <2> QED
    BY <2>2
<1>11. Adds(sum)
  <2> HIDE DEF Adds
  <2> QED
    BY <1>10
<1>12. sum[Payload] = c.chk
  <2> HIDE DEF sum
  <2> QED
    BY <1>7, <1>9, <1>11 DEF SummedUp
<1>13. new = [data EXCEPT ![<<t[5], t[6]>>] = payload]
  BY <1>4, <1>5
<1> HIDE DEF Adds
<1>14. Len(t) = 10 + Payload /\ t[1] = SelectCard /\ t[2] = WriteCommand
       /\ t[7 + Payload] = sum[Payload]
  BY <1>2, <1>3, <1>6, <1>12
<1> QED
  BY <1>13, <1>14 DEF WholeWrite, t, payload, sum, Adds

(* A sector is stored only by one whole write, in one machine's life.      *)
THEOREM StoredWhole ==
  ASSUME Undisturbed
  PROVE  MCSpec => KeptCommitWhole
<1> DEFINE Heard == card.cmd = "write" => Holds(card, sent)
           Inv == instance = "kept" => TypeOK /\ Together /\ Heard
<1>1. Init => Together /\ Heard
  BY DEF Init, Together, InStep
<1>2. TypeOK /\ Together /\ Heard /\ [Next]_vars
        => /\ Together' /\ Heard'
           /\ data' # data => WholeWrite(sent', data')
  <2> SUFFICES ASSUME TypeOK, Together, Heard, [Next]_vars
               PROVE  Together' /\ Heard' /\ (data' # data => WholeWrite(sent', data'))
    OBVIOUS
  <2>1. ASSUME NEW tx \in Program(seq), WriteData(tx)
        PROVE  Together' /\ Heard' /\ (data' # data => WholeWrite(sent', data'))
    <3>1. tx \in Byte /\ Together' /\ card \in Card /\ sent \in Seq(Byte) /\ Len(sent) = card.step
      BY <2>1, ByteReaches DEF TypeOK, Together
    <3>2. CASE UNCHANGED <<card, data, sent>>
      BY <3>1, <3>2
    <3>3. CASE /\ sent' = Append(sent, tx) /\ card' = CardAfter(card, tx)
               /\ data' = IF Commits(card) THEN [data EXCEPT ![card.address] = card.buf] ELSE data
      <4>1. Heard'
        BY <3>1, <3>3, HoldsKept, HoldsFirst
      <4>2. ASSUME data' # data PROVE WholeWrite(sent', data')
        <5>1. Commits(card) /\ data' = [data EXCEPT ![card.address] = card.buf]
          BY <3>3, <4>2
        <5>2. card.step > 0 /\ card.cmd = "write"
          BY <3>1, <5>1 DEF Commits, Finishes, Card
        <5>3. sent[1] = SelectCard /\ Holds(card, sent)
          BY <5>2 DEF Together
        <5> QED
          BY <3>1, <3>3, <5>1, <5>3, CommitsWhole
      <4> QED
        BY <3>1, <4>1, <4>2
    <3> QED
      BY <2>1, <3>2, <3>3, ByteReaches
  <2>2. CASE ~\E tx \in Program(seq) : WriteData(tx)
    <3>1. Together' /\ Heard'
      BY <2>2, PortKeeps
    <3>2. data' = data
      BY <2>2 DEF Next, WriteCtrl, Service, FlushCard, SaveState, LoadState, Reset, vars, storage
    <3> QED
      BY <3>1, <3>2
  <2> QED
    BY <2>1, <2>2
<1>3. MCInit => Inv
  BY <1>1, TypesStart DEF MCInit
<1>4. Inv /\ [MCNext]_<<instance, vars>>
        => /\ Inv'
           /\ [instance = "kept" /\ data' # data => WholeWrite(sent', data')]_<<instance, vars>>
  <2> SUFFICES ASSUME Inv, [MCNext]_<<instance, vars>>, instance = "kept" \/ instance' = "kept"
               PROVE  /\ TypeOK' /\ Together' /\ Heard'
                      /\ data' # data => WholeWrite(sent', data')
    OBVIOUS
  <2>1. instance = "kept" /\ [Next]_vars
    BY DEF MCNext
  <2> HIDE DEF Heard
  <2> QED
    BY <1>2, <2>1, TypesStay
<1> QED
  BY <1>3, <1>4, PTL DEF MCSpec, KeptCommitWhole
=============================================================================
