------------------------------ MODULE SioCard ------------------------------
(***************************************************************************)
(* The controller port with a digital pad and a memory card in slot 1      *)
(* (psx-core/src/sio.rs, memcard.rs), and the card's image file, which the *)
(* frontend owns (psx-app/src/main.rs, emu.rs).                            *)
(*                                                                         *)
(* Both the port and the card count the bytes of a transaction: the port   *)
(* decides at its byte 0 whom the transaction is for, the card decides     *)
(* from its own count what each byte means.                                *)
(*                                                                         *)
(* A payload has Payload bytes (128 in the code) and the step numbers      *)
(* follow it; the address stays two bytes.  Reply bytes are left out but   *)
(* for whether they were acknowledged.  The /ACK delay is a wait for an    *)
(* event of unknown time: module Machine has the timing.                   *)
(***************************************************************************)
EXTENDS Integers, Sequences

CONSTANTS
  Payload,        (* SECTOR: bytes of one card sector                      *)
  ValidAddress,   (* the addresses <<hi, lo>> of the card's sectors        *)
  Byte,           (* the bytes considered                                  *)
  XorByte(_, _),  (* exclusive or of two bytes                             *)
  Program(_),     (* the bytes a program may send at a position            *)
  Controls,       (* the JOY_CTRL values it writes: sets of bits           *)
  Replacements,   (* ways the machine is replaced: subset of ReplacedBy    *)
  TransferBound   (* bound: bytes sent without a new transaction           *)

SelectCard == 129    (* 0x81 *)
SelectPad == 1       (* 0x01 *)
ReadCommand == 82    (* 0x52 *)
WriteCommand == 87   (* 0x57 *)
IdCommand == 83      (* 0x53 *)
PadPoll == 66        (* 0x42 *)

ControlBits == {"tx", "select", "ack", "reset", "slot2"}
ReplacedBy == {"reset", "load"}
None == <<>>

ASSUME SioCardAssumption ==
  /\ Payload \in Nat \ {0}
  /\ Byte \subseteq 0 .. 255 /\ 0 \in Byte
  /\ ValidAddress \subseteq Byte \X Byte
  /\ \A a, b \in Byte : XorByte(a, b) \in Byte
  /\ \A n \in 0 .. TransferBound : Program(n) \subseteq Byte
  /\ Controls \subseteq SUBSET ControlBits
  /\ Replacements \subseteq ReplacedBy
  /\ TransferBound \in 0 .. 255   (* seq, a u8, does not wrap              *)

VARIABLES
  ctrl,       (* JOY_CTRL: the bits that latch                             *)
  seq,        (* byte position in the port's transaction                   *)
  device,     (* whom it is for                                            *)
  irq_flag,   (* the /ACK interrupt is latched                             *)
  ack_at,     (* an /ACK is on its way                                     *)
  card,       (* the transaction state of the MemCard                      *)
  data,       (* MemCard.data: the sectors                                 *)
  dirty,
  file,       (* the content of the card's image file                      *)
  unsaved,    (* the user was told that the card was not saved             *)
  saved,      (* a save state: the port, without the card                  *)
  sent,       (* history: the bytes the card received since it was chosen  *)
  acked       (* history: the last byte was acknowledged                   *)

port == <<ctrl, seq, device, irq_flag, ack_at>>
storage == <<data, dirty, file, unsaved>>
vars == <<port, card, storage, saved, sent, acked>>

Devices == {"none", "pad", "memcard", "absent"}
CardCommands == {"none", "read", "write", "id", "done"}
Contents == [ValidAddress -> [1 .. Payload -> Byte]]
Blank == [a \in ValidAddress |-> [i \in 1 .. Payload |-> 0]]
Port == [ctrl : SUBSET (ControlBits \ {"ack", "reset"}), seq : Nat, device : Devices,
         irq_flag : BOOLEAN, ack_at : BOOLEAN]
Card == [cmd : CardCommands, step : Nat, address : Byte \X Byte,
         buf : [1 .. Payload -> Byte], chk : Byte, recv_chk : Byte]

(* Mutated form of Deselected: the count is not reset.                     *)
DeselectedCommand(c) == [c EXCEPT !.cmd = "none"]
Deselected(c) == [c EXCEPT !.cmd = "none", !.step = 0]

PowerOnPort == [ctrl |-> {}, seq |-> 0, device |-> "none", irq_flag |-> FALSE, ack_at |-> FALSE]

SetPort(p) ==
  /\ ctrl' = p.ctrl /\ seq' = p.seq /\ device' = p.device
  /\ irq_flag' = p.irq_flag /\ ack_at' = p.ack_at

Init ==
  /\ ctrl = {} /\ seq = 0 /\ device = "none" /\ irq_flag = FALSE /\ ack_at = FALSE
  /\ card = [cmd |-> "none", step |-> 0, address |-> <<0, 0>>,
             buf |-> [i \in 1 .. Payload |-> 0], chk |-> 0, recv_chk |-> 0]
  /\ data = Blank /\ dirty = FALSE
  /\ file = Blank
  /\ unsaved = FALSE /\ saved = None /\ sent = <<>> /\ acked = FALSE
-----------------------------------------------------------------------------
(* MemCard::exchange and its steps.  The card c after byte tx, and whether *)
(* it acknowledges it.                                                     *)
Decode(tx) == CASE tx = ReadCommand -> "read" [] tx = WriteCommand -> "write"
                [] tx = IdCommand -> "id" [] OTHER -> "done"

LastStep(cmd) == CASE cmd = "read" -> 11 + Payload [] cmd = "write" -> 9 + Payload
                   [] cmd = "id" -> 9 [] OTHER -> 0

Finishes(c) == c.step >= 4 /\ c.cmd \in {"read", "write", "id"} /\ c.step >= LastStep(c.cmd)

Received(c, tx) ==
  LET hi == [c EXCEPT !.address = <<tx, 0>>]
      lo == [c EXCEPT !.address[2] = tx]
      addressed == [lo EXCEPT !.chk = XorByte(lo.address[1], tx)]
      written == [c EXCEPT !.buf[c.step - 5] = tx, !.chk = XorByte(@, tx)]
  IN CASE c.step = 1 -> [c EXCEPT !.cmd = Decode(tx)]
       [] c.step = 4 /\ c.cmd \in {"read", "write"} -> hi
       [] c.step = 5 /\ c.cmd = "read" -> lo
       [] c.step = 5 /\ c.cmd = "write" -> addressed
       [] c.cmd = "write" /\ c.step \in 6 .. 5 + Payload -> written
       [] c.cmd = "write" /\ c.step = 6 + Payload -> [c EXCEPT !.recv_chk = tx]
       [] Finishes(c) -> [c EXCEPT !.cmd = "done"]
       [] OTHER -> c

CardAfter(c, tx) == [Received(c, tx) EXCEPT !.step = c.step + 1]

(* Step 0 acknowledges whatever the byte, steps 2 and 3 whatever the       *)
(* command turned out to be.                                               *)
CardAcks(c, tx) ==
  \/ c.step \in {0, 2, 3}
  \/ c.step = 1 /\ Decode(tx) # "done"
  \/ c.step >= 4 /\ c.cmd \in {"read", "write", "id"} /\ ~Finishes(c)

(* Mutated form of Commits: the checksum is not compared.                  *)
CommitsUnchecked(c) == c.cmd = "write" /\ Finishes(c) /\ c.address \in ValidAddress

Commits(c) ==
  /\ c.cmd = "write" /\ Finishes(c)
  /\ c.address \in ValidAddress
  /\ c.recv_chk = c.chk

(* Byte tx reaches the card.                                               *)
Exchange(tx) ==
  /\ card' = CardAfter(card, tx)
  /\ IF Commits(card)
     THEN data' = [data EXCEPT ![card.address] = card.buf] /\ dirty' = TRUE
     ELSE UNCHANGED <<data, dirty>>
-----------------------------------------------------------------------------
(* pad_exchange: whom the transaction is for afterwards, and the /ACK.     *)
PadKeeps(n, tx) == n # 1 \/ tx = PadPoll
PadAcks(n, tx) == n \in {0, 2, 3} \/ (n = 1 /\ tx = PadPoll)

Chosen(tx) == IF seq # 0 THEN device
              ELSE CASE tx = SelectPad -> "pad" [] tx = SelectCard -> "memcard"
                     [] OTHER -> "absent"

(* JOY_DATA write.  An /ACK on its way is not called off by a byte that is *)
(* not acknowledged.                                                       *)
WriteData(tx) ==
  /\ seq < TransferBound /\ card.step < TransferBound
  /\ IF {"tx", "select"} \subseteq ctrl /\ "slot2" \notin ctrl
     THEN LET to == Chosen(tx)
              ack == \/ to = "pad" /\ PadAcks(seq, tx)
                     \/ to = "memcard" /\ CardAcks(card, tx)
          IN /\ device' = IF to = "pad" /\ ~PadKeeps(seq, tx) THEN "absent" ELSE to
             /\ IF to = "memcard" THEN Exchange(tx) /\ sent' = Append(sent, tx)
                                  ELSE UNCHANGED <<card, data, dirty, sent>>
             /\ seq' = seq + 1
             /\ ack_at' = (ack_at \/ ack)
             /\ acked' = ack
     ELSE UNCHANGED <<seq, device, ack_at, card, data, dirty, sent, acked>>
  /\ UNCHANGED <<ctrl, irq_flag, file, unsaved, saved>>

(* Mutated form of Latched: the strobes latch too.                         *)
LatchedAll(bits) == bits
(* The acknowledge and reset bits do not latch.                            *)
Latched(bits) == bits \ {"ack", "reset"}

(* JOY_CTRL write: acknowledge, reset, deselect, in the code's order.      *)
WriteCtrl(bits) ==
  LET reset == "reset" \in bits
      deselect == "select" \notin bits
  IN /\ ctrl' = Latched(bits)
     /\ irq_flag' = (irq_flag /\ "ack" \notin bits /\ ~reset)
     /\ ack_at' = (ack_at /\ ~reset)
     /\ IF reset \/ deselect
        THEN seq' = 0 /\ device' = "none" /\ sent' = <<>> /\ acked' = FALSE
        ELSE UNCHANGED <<seq, device, sent, acked>>
     /\ card' = IF deselect THEN Deselected(card) ELSE card
     /\ UNCHANGED <<storage, saved>>

(* Sio::service: the /ACK arrives.                                         *)
Service ==
  /\ ack_at
  /\ ack_at' = FALSE /\ irq_flag' = TRUE
  /\ UNCHANGED <<ctrl, seq, device, card, storage, saved, sent, acked>>
-----------------------------------------------------------------------------
(* flush_memcard, after a batch of instructions: the flag is taken before  *)
(* the write is tried, and a write that fails is not tried again.          *)
FlushCard ==
  /\ dirty /\ dirty' = FALSE
  /\ \/ file' = data /\ unsaved' = FALSE
     \/ file' = file /\ unsaved' = TRUE
  /\ UNCHANGED <<port, card, data, saved, sent, acked>>

(* A save state holds the port; the card, with the count of its            *)
(* transaction, is carried over from the machine that is replaced.         *)
SaveState ==
  /\ "load" \in Replacements
  /\ saved' = [ctrl |-> ctrl, seq |-> seq, device |-> device,
               irq_flag |-> irq_flag, ack_at |-> ack_at]
  /\ UNCHANGED <<port, card, storage, sent, acked>>

LoadState ==
  /\ saved # None
  /\ SetPort(saved)
  /\ sent' = <<>> /\ acked' = FALSE
  /\ UNCHANGED <<card, storage, saved>>

(* Mutated form of Reset: the card's image goes into a card made anew,     *)
(* which has nothing to save.                                              *)
ResetRewrapping ==
  /\ "reset" \in Replacements
  /\ SetPort(PowerOnPort)
  /\ card' = Deselected(card) /\ dirty' = FALSE
  /\ sent' = <<>> /\ acked' = FALSE
  /\ UNCHANGED <<data, file, unsaved, saved>>

Reset ==
  /\ "reset" \in Replacements
  /\ SetPort(PowerOnPort)
  /\ sent' = <<>> /\ acked' = FALSE
  /\ UNCHANGED <<card, storage, saved>>

Next ==
  \/ \E tx \in Program(seq) : WriteData(tx)
  \/ \E bits \in Controls : WriteCtrl(bits)
  \/ Service
  \/ FlushCard
  \/ SaveState
  \/ LoadState
  \/ Reset

Spec == Init /\ [][Next]_vars
-----------------------------------------------------------------------------
TypeOK ==
  /\ ctrl \subseteq ControlBits \ {"ack", "reset"}
  /\ seq \in Nat /\ device \in Devices
  /\ irq_flag \in BOOLEAN /\ ack_at \in BOOLEAN
  /\ card \in Card
  /\ data \in Contents /\ file \in Contents
  /\ dirty \in BOOLEAN /\ unsaved \in BOOLEAN /\ acked \in BOOLEAN
  /\ saved \in Port \cup {None}
  /\ sent \in Seq(Byte)

(* The two counts agree: while the port's transaction is for the card, the *)
(* card's step is the number of bytes since the 0x81 that chose it         *)
(* (memcard.rs:13), and otherwise the card waits for that byte.            *)
InStep == card.step = IF device = "memcard" THEN seq ELSE 0

(* A sector changes only as the outcome of one whole write transaction:    *)
(* the select, the command, a valid address, every payload byte and their  *)
(* checksum, in place and in that order since the port chose the card.     *)
(* Nothing interrupted, spliced or short is ever stored.                   *)
WholeWrite(bytes, new) ==
  LET address == <<bytes[5], bytes[6]>>
      payload == [i \in 1 .. Payload |-> bytes[6 + i]]
      sum[i \in 0 .. Payload] ==
        IF i = 0 THEN XorByte(bytes[5], bytes[6]) ELSE XorByte(sum[i - 1], payload[i])
  IN /\ Len(bytes) = 10 + Payload
     /\ bytes[1] = SelectCard /\ bytes[2] = WriteCommand
     /\ bytes[7 + Payload] = sum[Payload]
     /\ new = [data EXCEPT ![address] = payload]

CommitWhole == [][data' # data => WholeWrite(sent', data')]_vars

(* What the game saved is in the file, or the worker still knows it has to *)
(* write it, or the user was told that could not be done.  No reset, state *)
(* load or further transaction loses a save in between.                    *)
NoLostSave == data # file => dirty \/ unsaved
=============================================================================
