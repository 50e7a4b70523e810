----------------------------- MODULE MCSioCard -----------------------------
(* Model-checking instances of SioCard: see the .cfg files.                *)
EXTENDS SioCard

MCByte == 0 .. 255
MCXor(a, b) ==    (* the exclusive or of two bytes *)
  LET bit(k) == (((a \div k) + (b \div k)) % 2) * k
  IN bit(1) + bit(2) + bit(4) + bit(8) + bit(16) + bit(32) + bit(64) + bit(128)
MCValidAddress == {<<0, 0>>, <<0, 1>>}
OneAddress == {<<0, 0>>}

(* What a program sends where it matters; 0 where any byte would do.  The  *)
(* bytes that may differ are the address, one of the payload's and, after  *)
(* two of those, the checksum.                                             *)
Transfer(n) ==
  CASE n = 0 -> {SelectCard, SelectPad, 0}
    [] n = 1 -> {ReadCommand, WriteCommand, IdCommand, PadPoll, 0}
    [] n \in {5, 6, 8} -> {0, 1}
    [] OTHER -> {0}

(* Only card writes, for the runs in which transactions are cut short.     *)
CardWrites(n) ==
  CASE n = 0 -> {SelectCard}
    [] n = 1 -> {WriteCommand}
    [] n \in 4 .. 8 -> {0, 1}
    [] OTHER -> {0}

(* One write to one sector with a payload of one byte, its checksum right. *)
OneWrite(n) ==
  CASE n = 0 -> {SelectCard}
    [] n = 1 -> {WriteCommand}
    [] n \in {6, 7} -> {1}
    [] OTHER -> {0}

(* JOY_CTRL as the kernel writes it: reset only together with a deselect.  *)
KernelControls == {{}, {"reset"}, {"tx", "select"}, {"tx", "select", "ack"},
                   {"tx", "select", "slot2"}}
PlainControls == {{}, {"tx", "select"}}

(* States that differ only in the history and in the /ACK interrupt, on    *)
(* which no guard but that of Service and none of the variables here       *)
(* depends, count as one.                                                  *)
Kept(p) == IF p = None THEN None ELSE <<p.ctrl, p.seq, p.device>>
NoHistory == <<ctrl, seq, device, card, storage, Kept(saved)>>

(* Bound: the states saved are those before the checksum of a write with a payload of one byte.       *)
FewSaves == saved # None => saved.seq = 7
=============================================================================
