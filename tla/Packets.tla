------------------------------ MODULE Packets ------------------------------
(***************************************************************************)
(* The wire of the debug server (psx-debug/src/packet.rs and the X packet  *)
(* of lib.rs): a debugger's items arrive as bytes, in segments cut         *)
(* anywhere, and the server takes them out again.                          *)
(*                                                                         *)
(* A byte is named for what it means to the framing, <<"hash">> for '#'.   *)
(* Flipping bit 5, as an escape does, turns '#' into 0x03, the byte that   *)
(* interrupts.  The two digits of a checksum are <<"digit", 1 or 2, what   *)
(* they were computed over>>: sums that differ in the program differ here. *)
(***************************************************************************)
EXTENDS Integers, Sequences, SequencesExt

CONSTANTS
  Data,     (* what the bytes of a packet's data may be                    *)
  Longest,  (* bound: bytes of data in a packet                            *)
  MaxItems  (* bound: items a debugger sends                               *)

VARIABLES
  wire,     (* bytes sent and not yet read                                 *)
  buf,      (* Receiver.buf                                                *)
  sent,     (* history: the items, in order                                *)
  taken,    (* what the server made of them                                *)
  replies   (* the acknowledgements it sent                                *)

vars == <<wire, buf, sent, taken, replies>>

Xor == [text |-> "space", hash |-> "etx", dollar |-> "eot", brace |-> "bracket"]
Flip(b) ==
  <<IF b[1] \in DOMAIN Xor THEN Xor[b[1]]
    ELSE CHOOSE c \in DOMAIN Xor : Xor[c] = b[1]>>

Digits(payload) == <<<<"digit", 1, payload>>, <<"digit", 2, payload>>>>

(* frame *)
Framed(payload, sum) == <<<<"dollar">>>> \o payload \o <<<<"hash">>>> \o sum

\* What a debugger escapes in the data of an X packet.
Escaped(data) ==
  FlattenSeq([k \in DOMAIN data |->
     IF data[k][1] \in {"hash", "dollar", "brace"} THEN <<<<"brace">>, Flip(data[k])>>
     ELSE <<data[k]>>])

Packet(data) == [kind |-> "packet", data |-> data]
Corrupt == [kind |-> "corrupt"]
Interrupt == [kind |-> "interrupt"]
Ack == [kind |-> "ack"]

Init == wire = <<>> /\ buf = <<>> /\ sent = <<>> /\ taken = <<>> /\ replies = <<>>

Send(item, bytes) ==
  /\ Len(sent) < MaxItems
  /\ sent' = Append(sent, item) /\ wire' = wire \o bytes
  /\ UNCHANGED <<buf, taken, replies>>

\* A debugger sends a packet, one that the line has damaged, an interrupt,
\* an acknowledgement.
SendPacket(data) == Send(Packet(data), Framed(Escaped(data), Digits(Escaped(data))))
SendDamaged(data) == Send(Corrupt, Framed(Escaped(data), Digits(<<<<"text">>>> \o Escaped(data))))
SendInterrupt == Send(Interrupt, <<<<"etx">>>>)
SendAck == Send(Ack, <<<<"plus">>>>)
-----------------------------------------------------------------------------
(* unescape_binary; from[k] is what the bytes from the k-th on come to. *)
ReadAt(bytes, k, from) ==
  CASE k > Len(bytes) -> <<>>
    [] k <= Len(bytes) /\ bytes[k][1] # "brace" -> <<bytes[k]>> \o from[k + 1]
    [] k < Len(bytes) /\ bytes[k][1] = "brace" -> <<Flip(bytes[k + 1])>> \o from[k + 2]
    [] OTHER -> <<>>
Unescaped(bytes) ==
  LET from[k \in 1 .. Len(bytes) + 1] == ReadAt(bytes, k, from) IN from[1]

Hashes(b) == {k \in DOMAIN b : b[k][1] = "hash"}
(* Mutated form of Hash: searched for from the end of the buffer. *)
HashLast(b) == CHOOSE k \in Hashes(b) : \A j \in Hashes(b) : k >= j
Hash(b) == CHOOSE k \in Hashes(b) : \A j \in Hashes(b) : k <= j

Whole(b) == Hashes(b) # {} /\ Len(b) >= Hash(b) + 2

\* The packet at the front of b, checked and taken apart.
Opened(b) ==
  LET payload == SubSeq(b, 2, Hash(b) - 1)
  IN  IF SubSeq(b, Hash(b) + 1, Hash(b) + 2) = Digits(payload)
      THEN Packet(Unescaped(payload)) ELSE Corrupt

\* next_item: rest is what begins at place k, from what follows comes to.
Then(item, r) == [items |-> <<item>> \o r.items, left |-> r.left]
ParseAt(rest, k, from) ==
  CASE rest = <<>> -> [items |-> <<>>, left |-> <<>>]
    [] rest # <<>> /\ rest[1][1] = "plus" -> Then(Ack, from[k + 1])
    [] rest # <<>> /\ rest[1][1] = "etx" -> Then(Interrupt, from[k + 1])
    [] rest # <<>> /\ rest[1][1] = "dollar" ->
         IF Whole(rest) THEN Then(Opened(rest), from[k + Hash(rest) + 2])
         ELSE [items |-> <<>>, left |-> rest]
    [] OTHER -> from[k + 1]     (* noise between packets *)

\* next_item, again and again: the items that can be taken out of b, and
\* the bytes that stay.
Items(b) ==
  LET from[k \in 1 .. Len(b) + 1] == ParseAt(SubSeq(b, k, Len(b)), k, from) IN from[1]

Answer(item) ==
  CASE item.kind = "packet" -> <<"+">> [] item.kind = "corrupt" -> <<"-">> [] OTHER -> <<>>

\* service_client: read what has arrived, handle every whole item.
Service ==
  \E n \in 1 .. Len(wire) :
    LET r == Items(buf \o SubSeq(wire, 1, n)) IN
      /\ wire' = SubSeq(wire, n + 1, Len(wire))
      /\ buf' = r.left
      /\ taken' = taken \o r.items
      /\ replies' = replies \o FlattenSeq([k \in DOMAIN r.items |-> Answer(r.items[k])])
      /\ UNCHANGED sent

Next ==
  \/ \E data \in SeqOf(Data, Longest) : SendPacket(data) \/ SendDamaged(data)
  \/ SendInterrupt \/ SendAck
  \/ Service

Spec == Init /\ [][Next]_vars
-----------------------------------------------------------------------------
TypeOK ==
  /\ Len(sent) <= MaxItems /\ Len(taken) <= MaxItems
  /\ \A k \in DOMAIN taken : taken[k].kind \in {"packet", "corrupt", "interrupt", "ack"}
  /\ replies \in Seq({"+", "-"})

(* However the bytes are cut into segments, the server takes out exactly   *)
(* the items that were sent, in order and with the data they were sent     *)
(* with; every packet is acknowledged or refused in its turn; and once     *)
(* everything has arrived nothing is left waiting (next_item).             *)
ItemsSurvive ==
  /\ IsPrefix(taken, sent)
  /\ wire = <<>> => taken = sent /\ buf = <<>>
  /\ replies = FlattenSeq([k \in DOMAIN taken |-> Answer(taken[k])])
=============================================================================
