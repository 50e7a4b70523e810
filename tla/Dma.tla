-------------------------------- MODULE Dma ---------------------------------
(***************************************************************************)
(* The DMA controller (psx-core/src/dma.rs) and the transfers bus.rs       *)
(* carries out for it: ordering tables, linked lists, and the completion   *)
(* flags and interrupt of DICR.                                            *)
(*                                                                         *)
(* A transfer is done in full by the write that starts it.  The program is *)
(* a game and its library: it has an ordering table cleared by channel 6,  *)
(* links packets into it, has channel 2 send the list, and serves the      *)
(* completion interrupt with callbacks that may start a transfer again.    *)
(* Memory is a function from word addresses to headers of list nodes;      *)
(* what a packet holds is known by the packet's number.                    *)
(***************************************************************************)
EXTENDS Integers, Sequences, SequencesExt, FiniteSets

CONSTANTS
  Channels,   (* channels whose completion may interrupt, 2 and 6 of them  *)
  Entries,    (* entries of the ordering table                             *)
  Packets,    (* bound: packets linked between two clears                  *)
  Payload,    (* words of a packet                                         *)
  GuardBound  (* nodes after which a list is given up: 0x40000             *)

(* What the constants are. *)
DmaAssumption ==
  /\ {2, 6} \subseteq Channels /\ Channels \subseteq 0 .. 6
  /\ Entries \in Nat \ {0} /\ Packets \in Nat /\ GuardBound \in Nat
  /\ Payload \subseteq Nat

VARIABLES
  memory,    (* the nodes: how many words follow, the next node's address  *)
  linked,    (* the program: the packets of each entry, latest first       *)
  used,      (* the program: packets linked, -1 before there is a table    *)
  received,  (* what the GPU got from the last list                        *)
  enables, flags,             (* DICR, master enable set, force bit clear  *)
  stat,      (* I_STAT bit 3                                               *)
  handler,   (* the interrupt handler is running                           *)
  owed       (* history: completions that are to be served                 *)

lists == <<memory, linked, used, received>>
control == <<enables, flags, stat, handler, owed>>
vars == <<lists, control>>

End == -1
(* Entry e of the table is at address e, the n-th packet at Entries + n.   *)
Addresses == 0 .. Entries + Packets
Node(count, next) == [count |-> count, next |-> next]

Init ==
  /\ memory = [a \in Addresses |-> Node(0, End)]
  /\ linked = [e \in 0 .. Entries - 1 |-> <<>>]
  /\ used = -1 /\ received = <<>>
  /\ enables = {} /\ flags = {}
  /\ stat = FALSE /\ handler = FALSE /\ owed = {}
-----------------------------------------------------------------------------
(* DICR. *)

(* irq_asserted, for flags f and enables e. *)
Asserted(f, e) == f \cap e # {}

(* complete *)
RaisesIrq(ch) == ~Asserted(flags, enables)
                   /\ Asserted(IF ch \in enables THEN flags \cup {ch} ELSE flags, enables)

(* run_dma, after the transfer. *)
Complete(ch) ==
  /\ stat' = (stat \/ RaisesIrq(ch))
  /\ flags' = IF ch \in enables THEN flags \cup {ch} ELSE flags
  /\ owed' = IF ch \in enables THEN owed \cup {ch} ELSE owed

(* A write of the whole register acknowledges the flags it has a 1 for.    *)
(* The program enables a channel with its stale flag acknowledged.         *)
EnableChannel ==
  /\ ~handler
  /\ \E ch \in Channels \ enables :
       /\ enables' = enables \cup {ch}
       /\ flags' = flags \ {ch}
       /\ owed' = owed \ {ch}
  /\ UNCHANGED <<lists, stat, handler>>

(* Mutated form of Merged: the register as it reads, flags and all, is     *)
(* written back.                                                           *)
MergedFlags == flags
(* The flags a write of the lower half acknowledges: none, they are kept   *)
(* out of the merge.                                                       *)
Merged == {}

WriteLowHalf ==
  /\ flags' = flags \ Merged
  /\ UNCHANGED <<lists, enables, stat, handler, owed>>
-----------------------------------------------------------------------------
(* The handler: it acknowledges I_STAT, then serves and acknowledges the   *)
(* flags one by one until none is left; a callback may start a transfer.   *)

TakeIrq ==
  /\ stat /\ ~handler
  /\ stat' = FALSE /\ handler' = TRUE
  /\ UNCHANGED <<lists, enables, flags, owed>>

Serve ==
  /\ handler
  /\ \E ch \in flags \cap enables :
       /\ flags' = flags \ {ch} /\ owed' = owed \ {ch}
  /\ UNCHANGED <<lists, enables, stat, handler>>

Return ==
  /\ handler /\ flags \cap enables = {}
  /\ handler' = FALSE
  /\ UNCHANGED <<lists, enables, flags, stat, owed>>
-----------------------------------------------------------------------------
(* Transfers. *)

(* Channels that stream to or from a device. *)
StreamTransfer ==
  /\ \E ch \in Channels \ {2, 6} : Complete(ch)
  /\ UNCHANGED <<lists, enables, handler>>

(* Mutated form of TableEntry: one entry too many points on. *)
TableEntryOpen(e) == Node(0, IF e = 0 THEN 0 ELSE e - 1)
(* dma_otc: written backwards from the last entry; the first ends it.      *)
TableEntry(e) == Node(0, IF e = 0 THEN End ELSE e - 1)

ClearTable ==
  /\ memory' = [a \in Addresses |-> IF a < Entries THEN TableEntry(a) ELSE memory[a]]
  /\ linked' = [e \in 0 .. Entries - 1 |-> <<>>]
  /\ used' = 0 /\ received' = <<>>
  /\ Complete(6)
  /\ UNCHANGED <<enables, handler>>

(* The program's AddPrim: the packet goes in front of the entry's list.    *)
AddPacket ==
  /\ ~handler
  /\ used \in 0 .. Packets - 1
  /\ \E e \in 0 .. Entries - 1, count \in Payload :
       LET a == Entries + used
       IN /\ memory' = [memory EXCEPT ![a] = Node(count, memory[e].next), ![e].next = a]
          /\ linked' = [linked EXCEPT ![e] = <<<<a, count>>>> \o @]
  /\ used' = used + 1
  /\ UNCHANGED <<received, control>>

(* dma_gpu, linked list: from each node its payload, then the next node,   *)
(* until one is the last or too many have been seen.                       *)
PayloadOf(a) == [k \in 1 .. memory[a].count |-> <<a, k>>]
Walk(start) ==
  LET from[left \in 0 .. GuardBound] ==
        [a \in Addresses |-> PayloadOf(a) \o
          (IF memory[a].next = End \/ left = 0 THEN <<>>
           ELSE from[left - 1][memory[a].next])]
  IN from[GuardBound][start]

SendList ==
  /\ used >= 0
  /\ received' = Walk(Entries - 1)
  /\ Complete(2)
  /\ UNCHANGED <<memory, linked, used, enables, handler>>

Next ==
  \/ EnableChannel \/ WriteLowHalf \/ TakeIrq \/ Serve \/ Return
  \/ StreamTransfer \/ ClearTable \/ AddPacket \/ SendList

Spec == Init /\ [][Next]_vars
-----------------------------------------------------------------------------
TypeOK ==
  /\ memory \in [Addresses -> [count : Payload \cup {0}, next : Addresses \cup {End}]]
  /\ enables \subseteq Channels /\ flags \subseteq Channels /\ owed \subseteq Channels
  /\ {stat, handler} \subseteq BOOLEAN

(* A list sent to the GPU arrives back to front as the table has it: each  *)
(* packet of each entry, from the last entry to the first, the one linked  *)
(* last before those linked before it, every word of it once.              *)
InTable ==
  LET packets == FlattenSeq([n \in 1 .. Entries |-> linked[Entries - n]])
  IN FlattenSeq([n \in DOMAIN packets |-> [k \in 1 .. packets[n][2] |-> <<packets[n][1], k>>]])
DrawnInOrderStep ==
  SendList => received' = InTable
DrawnInOrder == [][DrawnInOrderStep]_vars

(* No completion goes unheard: what is to be served is flagged, and while  *)
(* the master flag is up an interrupt is pending or its handler running.   *)
CompletionsKept ==
  /\ owed \subseteq flags
  /\ Asserted(flags, enables) => stat \/ handler
=============================================================================
