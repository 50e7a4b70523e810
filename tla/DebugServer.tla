---------------------------- MODULE DebugServer ----------------------------
(***************************************************************************)
(* The gdb-remote stub (src/crates/psx-debug) between the machine and the  *)
(* debuggers that connect to it: its connection, the halted flag, the      *)
(* breakpoints, and the steps of a pump(): accept, read, handle what was   *)
(* read item by item, run a slice.  The clients go on in between.          *)
(*                                                                         *)
(* A client is a debugger that keeps to the protocol: it resumes or        *)
(* inspects a target it has been told is stopped, and interrupts one it    *)
(* has resumed.  It may connect, hang up and connect again at any time.    *)
(* Packets arrive whole (module Packets has their framing), and those that *)
(* read or write registers and memory are left out.  An address is the     *)
(* physical one that Bus::mask_address makes of it.                        *)
(***************************************************************************)
EXTENDS Integers, Sequences

CONSTANTS
  Clients, NoClient,
  Size,        (* the machine runs round a program of this many words      *)
  Targets,     (* bound: the words clients set breakpoints at              *)
  SendBound,   (* bound: packets of a client not yet handled               *)
  Longest      (* cycles of the longest instruction                        *)

Words == 0 .. Size - 1

ASSUME StubAssumption ==
  /\ NoClient \notin Clients
  /\ Size \in Nat \ {0, 1} /\ SendBound \in Nat /\ Longest \in Nat \ {0}
  /\ Targets \subseteq Words

VARIABLES
  stub,      (* the DebugServer, with what its client's Receiver holds (rx)*)
  machine,   (* pc, lid and cycle count of the PsxSystem                   *)
  link,      (* each client's connection                                   *)
  sent,      (* packets each client has on the way                         *)
  stops,     (* stop replies on the way to each client                     *)
  view,      (* what each client believes of its target                    *)
  fresh      (* history: no instruction since the last resume              *)

stubVars == <<stub, machine, link, sent, stops, view, fresh>>

Requests ==
  [kind : {"continue", "step", "interrupt", "detach"}]
  \cup [kind : {"insert", "remove"}, address : Targets]

StubInit ==
  /\ stub = [client |-> NoClient, halted |-> FALSE, breakpoints |-> {}, skip |-> FALSE,
             rx |-> <<>>]
  /\ link = [c \in Clients |-> "away"]
  /\ sent = [c \in Clients |-> <<>>]
  /\ stops = [c \in Clients |-> 0]
  /\ view = [c \in Clients |-> "stopped"]
  /\ fresh = FALSE

Attached == stub.client # NoClient

(* Cycles are counted only where a loop reads the count (Session).         *)
Uncounted == -1
Later(cycles, n) == IF cycles = Uncounted THEN cycles ELSE cycles + n

(* PsxSystem::step: an instruction takes one cycle and the wait states of  *)
(* its bus accesses.                                                       *)
Costs == 1 .. Longest
Stepped(m, cost) ==
  [m EXCEPT !.pc = (@ + 1) % Size, !.cycles = Later(@, cost)]
-----------------------------------------------------------------------------
(* The clients. *)

Knock(c) ==
  /\ link[c] = "away"
  /\ link' = [link EXCEPT ![c] = "knocking"]
  /\ UNCHANGED <<stub, machine, sent, stops, view, fresh>>

(* A client's packets that are not yet handled, read or not. *)
Underway(c) == IF stub.client = c THEN stub.rx \o sent[c] ELSE sent[c]

(* What a client may ask, by what it believes of its target. *)
Legal(request, belief) ==
  IF request.kind = "interrupt" THEN belief = "running" ELSE belief = "stopped"

Send(c, request) ==
  /\ link[c] \in {"knocking", "open"}
  /\ Len(Underway(c)) < SendBound
  /\ Legal(request, view[c])
  /\ sent' = [sent EXCEPT ![c] = Append(@, request)]
  /\ view' = IF request.kind \in {"continue", "step"}
             THEN [view EXCEPT ![c] = "running"] ELSE view
  /\ UNCHANGED <<stub, machine, link, stops, fresh>>

Receive(c) ==
  /\ stops[c] > 0
  /\ stops' = [stops EXCEPT ![c] = @ - 1]
  /\ view' = [view EXCEPT ![c] = "stopped"]
  /\ UNCHANGED <<stub, machine, link, sent, fresh>>

HangUp(c) ==
  /\ link[c] \in {"knocking", "open"}
  /\ link' = [link EXCEPT ![c] = "shut"]
  /\ UNCHANGED <<stub, machine, sent, stops, view, fresh>>

ClientNext ==
  \E c \in Clients :
    \/ Knock(c)
    \/ \E request \in Requests : Send(c, request)
    \/ Receive(c)
    \/ HangUp(c)
-----------------------------------------------------------------------------
(* The stub: connections. *)

(* Whom accept() would give: a client that knocks, even one that has hung  *)
(* up since.                                                               *)
AtTheDoor == {c \in Clients : link[c] \in {"knocking", "shut"}}

(* Mutated form of Accepted: the target runs on. *)
AcceptedRunning(c) == [stub EXCEPT !.client = c]
(* accept_new_client: attaching halts the target. *)
Accepted(c) == [stub EXCEPT !.client = c, !.halted = TRUE]

(* detach: b is the stub; what its client still sends finds nobody.        *)
Left(b) ==
  [b EXCEPT !.client = NoClient, !.breakpoints = {}, !.halted = FALSE, !.rx = <<>>]
Forget(c) ==
  /\ link' = [link EXCEPT ![c] = "away"]
  /\ sent' = [sent EXCEPT ![c] = <<>>]
  /\ stops' = [stops EXCEPT ![c] = 0]
  /\ view' = [view EXCEPT ![c] = "stopped"]
Detach(b) ==
  /\ stub' = Left(b)
  /\ Forget(b.client)
  /\ UNCHANGED <<machine, fresh>>

(* The first half of service_client: everything that has arrived is read;  *)
(* but a closed connection detaches, whatever arrived before it closed.    *)
Read(b) ==
  IF b.client = NoClient THEN UNCHANGED stubVars
  ELSE IF link[b.client] = "shut" THEN Detach(b)
  ELSE /\ stub' = [b EXCEPT !.rx = sent[b.client]]
       /\ sent' = [sent EXCEPT ![b.client] = <<>>]
       /\ link' = [link EXCEPT ![b.client] = "open"]
       /\ UNCHANGED <<machine, stops, view, fresh>>

Pump ==
  IF Attached \/ AtTheDoor = {} THEN Read(stub)
  ELSE \E c \in AtTheDoor : Read(Accepted(c))
-----------------------------------------------------------------------------
(* The stub: one item of what was read, handle_packet or the interrupt.    *)
Taken == [stub EXCEPT !.rx = Tail(@)]

(* Mutated form of Resume: nothing lets the target off its breakpoint. *)
ResumeOnBreakpoint ==
  /\ stub' = [Taken EXCEPT !.halted = FALSE]
  /\ fresh' = TRUE
  /\ UNCHANGED <<machine, link, sent, stops, view>>
Resume ==
  /\ stub' = [Taken EXCEPT !.halted = FALSE, !.skip = TRUE]
  /\ fresh' = TRUE
  /\ UNCHANGED <<machine, link, sent, stops, view>>

SingleStep ==
  /\ stub' = Taken
  /\ \E cost \in Costs : machine' = Stepped(machine, cost)
  /\ stops' = [stops EXCEPT ![stub.client] = @ + 1]
  /\ fresh' = FALSE
  /\ UNCHANGED <<link, sent, view>>

(* Mutated form of Interrupt: the stop is not reported. *)
InterruptUnreported ==
  /\ stub' = [Taken EXCEPT !.halted = TRUE]
  /\ UNCHANGED <<machine, link, sent, stops, view, fresh>>
(* Mutated form of Interrupt: a halted target is reported once more. *)
InterruptAgain ==
  /\ stub' = [Taken EXCEPT !.halted = TRUE]
  /\ stops' = [stops EXCEPT ![stub.client] = @ + 1]
  /\ UNCHANGED <<machine, link, sent, view, fresh>>
Interrupt ==
  /\ stub' = [Taken EXCEPT !.halted = TRUE]
  /\ stops' = IF stub.halted THEN stops ELSE [stops EXCEPT ![stub.client] = @ + 1]
  /\ UNCHANGED <<machine, link, sent, view, fresh>>

HandleBreakpoint(set) ==
  /\ stub' = [Taken EXCEPT !.breakpoints = set]
  /\ UNCHANGED <<machine, link, sent, stops, view, fresh>>

(* A detach leaves what was read behind it unhandled.                      *)
Handle(request) ==
  CASE request.kind = "continue" -> Resume
    [] request.kind = "step" -> SingleStep
    [] request.kind = "interrupt" -> Interrupt
    [] request.kind = "detach" -> Detach(stub)
    [] request.kind = "insert" -> HandleBreakpoint(stub.breakpoints \cup {request.address})
    [] request.kind = "remove" -> HandleBreakpoint(stub.breakpoints \ {request.address})

(* A write fails (send_raw), because the client has hung up since it was   *)
(* read: the stub detaches, and when it was the acknowledgement that was   *)
(* not written it goes on to handle the packet, for nobody.                *)
CutOff == link[stub.client] = "shut" /\ Forget(stub.client)

HandleCutOff(request) ==
  /\ CutOff
  /\ CASE request.kind = "continue" ->
            /\ stub' = [Left(stub) EXCEPT !.skip = TRUE] /\ fresh' = TRUE
            /\ UNCHANGED machine
       [] request.kind = "step" ->
            /\ stub' = Left(stub) /\ fresh' = FALSE
            /\ \E cost \in Costs : machine' = Stepped(machine, cost)
       [] request.kind = "interrupt" ->
            ~stub.halted /\ stub' = Left(stub) /\ UNCHANGED <<machine, fresh>>
       [] request.kind = "insert" ->
            /\ \E set \in {{}, {request.address}} : stub' = [Left(stub) EXCEPT !.breakpoints = set]
            /\ UNCHANGED <<machine, fresh>>
       [] request.kind \in {"detach", "remove"} ->
            stub' = Left(stub) /\ UNCHANGED <<machine, fresh>>

ServiceItem ==
  stub.rx # <<>> /\ (Handle(Head(stub.rx)) \/ HandleCutOff(Head(stub.rx)))
-----------------------------------------------------------------------------
(* run_slice, one instruction at a time: a breakpoint stops it, but not at *)
(* the first instruction after a resume.                                   *)
OnBreakpoint == ~stub.skip /\ machine.pc \in stub.breakpoints

StopAtBreakpoint ==
  /\ OnBreakpoint
  /\ stub' = [stub EXCEPT !.halted = TRUE]
  /\ stops' = [stops EXCEPT ![stub.client] = @ + 1]
  /\ UNCHANGED <<machine, link, sent, view, fresh>>

(* The same for a client that has hung up, when its reply is not written.  *)
StopCutOff ==
  /\ OnBreakpoint
  /\ CutOff
  /\ stub' = Left(stub)
  /\ UNCHANGED <<machine, fresh>>

RunInstruction(cost) ==
  /\ ~OnBreakpoint
  /\ stub' = [stub EXCEPT !.skip = FALSE]
  /\ machine' = Stepped(machine, cost)
  /\ fresh' = FALSE
  /\ UNCHANGED <<link, sent, stops, view>>
=============================================================================
