------------------------------ MODULE Machine ------------------------------
(***************************************************************************)
(* The main loop of psx-core: PsxSystem::step, serve_events and vblank     *)
(* (lib.rs), the arm_* functions and the register dispatch of the bus      *)
(* (bus.rs), over the event heap (module Scheduler).                       *)
(*                                                                         *)
(* The components themselves are abstracted to what the loop can see: the  *)
(* value next_deadline() would return.  What moves it, and whether a       *)
(* wake_by follows, is translated from the code; how far it moves is left  *)
(* open.  Module Cdrom models a component in full, and module Timers       *)
(* computes the deadlines of a counter.                                    *)
(*                                                                         *)
(* For a timer, deadline is its estimate when it was last armed, moved     *)
(* later by the catch-ups since.  (In a reset-on-edge mode a catch-up can  *)
(* also bring a crossing beyond one period back under the reachability     *)
(* cap; it lies beyond the edge that resets the counter, timers.rs:199,    *)
(* and is not a crossing the timer needs to be woken for.)                 *)
(***************************************************************************)
EXTENDS Scheduler, FiniteSets

CONSTANTS
  VBlank, Drive, Port,  (* EventKind::{VBlank, Cdrom, Sio}                 *)
  Timers,               (* EventKind::Timer(_)                             *)
  Cost,                 (* cycles one instruction takes, DMA stalls too    *)
  Field,                (* cycles_per_frame of the display modes           *)
  PowerOnField,         (* CYCLES_PER_FRAME, the field of the mode at boot *)
  SamplePeriod,         (* spu::CYCLES_PER_SAMPLE                          *)
  Times,                (* per component, the deadlines considered         *)
  Horizon,              (* bound: the last cycle considered                *)
  Slots                 (* the save states that are kept                   *)

Device == {Drive, Port} \cup Timers
Unserved == [k \in Device |-> 0]

ASSUME MachineAssumption ==
  /\ Kind = {VBlank} \cup Device
  /\ VBlank \notin Device
  /\ Drive # Port /\ Drive \notin Timers /\ Port \notin Timers
  /\ Cost \subseteq Nat \ {0}
  /\ Field \subseteq Nat \ {0}
  /\ PowerOnField \in Field
  /\ SamplePeriod \in Nat \ {0}
  /\ Times \in [Device -> SUBSET Nat]
  /\ Horizon \in Nat

VARIABLES
  cycles,       (* PsxSystem.cycles                                        *)
  heap,         (* bus.scheduler                                           *)
  deadline,     (* next_deadline() of every component                      *)
  field,        (* gpu.video_timing().cycles_per_frame()                   *)
  origin,       (* timers.frame_origin: the cycle of the last vblank       *)
  nextSample,   (* PsxSystem.next_sample                                   *)
  served,       (* history: how often the last instruction serviced each   *)
  saved         (* the save-state files, None where there is none          *)

machine == <<cycles, heap, deadline, field, origin, nextSample, served>>
vars == <<cycles, heap, deadline, field, origin, nextSample, served, saved>>

(* The deadlines a component may come to report, and those of a set of     *)
(* components.                                                             *)
When(k) == Times[k] \cup {Never}
Whens(K) == {at \in [K -> UNION {When(k) : k \in K}] : \A k \in K : at[k] \in When(k)}
Deadlines == [Device -> Nat \cup {Never}]
None == <<>>
(* A catch-up only moves a crossing later, or drops it.                    *)
Later(old, new) == new # Never => old # Never /\ old <= new
-----------------------------------------------------------------------------
(* with_bus, around Bus::build: every component idle, one field to go.     *)
PowerOn ==
  /\ cycles = 0
  /\ heap = Schedule({}, PowerOnField, VBlank)
  /\ deadline = [k \in Device |-> Never]
  /\ field = PowerOnField
  /\ origin = 0
  /\ nextSample = SamplePeriod
  /\ served = Unserved

Init == PowerOn /\ saved = [s \in Slots |-> None]

(* Mutated form of SampleAfter: at most one sample per instruction.        *)
SampleAfterOne(now, next) == IF now < next THEN next ELSE next + SamplePeriod

(* The samples due by cycle now have been generated: the one after them.   *)
SampleAfter(now, next) ==
  IF now < next THEN next
                ELSE next + ((now - next) \div SamplePeriod + 1) * SamplePeriod

(* Mutated form of TimesServed: a component is serviced as its entries are *)
(* popped, once for each of them.                                          *)
TimesServedPerEntry(h, now) ==
  [k \in Device |-> Cardinality({e \in Due(h, now) : e.kind = k})]

(* The drain sets a flag per component, and each flag that is set makes    *)
(* for one service, however many entries woke it.                          *)
TimesServed(h, now) == [k \in Device |-> IF k \in DueKinds(h, now) THEN 1 ELSE 0]

(***************************************************************************)
(* The part of step() after cpu.step: c cycles have passed, and the        *)
(* instruction left the heap at h, the deadlines at dl, the field length   *)
(* at f.  Drain the heap of what is due; take the vertical blank, which    *)
(* lets every timer catch up without being armed, and schedule the next;   *)
(* then service each woken component once and arm it at its new deadline,  *)
(* which may already have been reached.                                    *)
(***************************************************************************)
EndStep(c, h, dl, f) ==
  LET now == cycles + c
      woken == DueKinds(h, now)
      vblank == VBlank \in woken
      serviced == woken \cap Device
      moved == serviced \cup (IF vblank THEN Timers ELSE {})
  IN /\ now <= Horizon
     /\ cycles' = now
     /\ \E new \in Whens(moved) :
          /\ \A k \in moved \ serviced : Later(dl[k], new[k])
          /\ deadline' = [k \in Device |-> IF k \in moved THEN new[k] ELSE dl[k]]
          /\ heap' = ArmAll(IF vblank THEN Schedule(NotDue(h, now), now + f, VBlank)
                                      ELSE NotDue(h, now),
                            deadline', serviced)
     /\ field' = f
     /\ origin' = IF vblank THEN now ELSE origin
     /\ nextSample' = SampleAfter(now, nextSample)
     /\ served' = TimesServed(h, now)
     /\ UNCHANGED saved
-----------------------------------------------------------------------------
(* An instruction that moves no deadline.                                  *)
Compute == \E c \in Cost : EndStep(c, heap, deadline, field)

(* A drive register write, a JOY_DATA write or a timer register write: the *)
(* deadline may move either way, and the component is armed.               *)
WriteRegister(k) ==
  \E c \in Cost, at \in When(k) :
    LET dl == [deadline EXCEPT ![k] = at]
    IN EndStep(c, ArmAll(heap, dl, {k}), dl, field)

(* A JOY_CTRL write with the reset bit drops the pending /ACK; a timer     *)
(* read catches the timer up.  Neither arms anything.                      *)
ResetPort == \E c \in Cost : EndStep(c, heap, [deadline EXCEPT ![Port] = Never], field)

ReadTimer(k) ==
  \E c \in Cost, at \in When(k) :
    /\ Later(deadline[k], at)
    /\ EndStep(c, heap, [deadline EXCEPT ![k] = at], field)

(* GP1: a new display mode changes the field length and, the video timing  *)
(* being an input of every estimate, the deadline of every timer.          *)
WriteGp1 ==
  \E c \in Cost, f \in Field, at \in Whens(Timers) :
    LET dl == [k \in Device |-> IF k \in Timers THEN at[k] ELSE deadline[k]]
    IN EndStep(c, ArmAll(heap, dl, Timers), dl, f)

Step ==
  \/ Compute
  \/ \E k \in Device : WriteRegister(k)
  \/ ResetPort
  \/ \E k \in Timers : ReadTimer(k)
  \/ WriteGp1
-----------------------------------------------------------------------------
(* Between two instructions: open_shell leaves the drive with at most an   *)
(* error to report, an ack_delay from now, and arms it.                    *)
OpenShell ==
  \E at \in {Never} \cup {t \in Times[Drive] : t > cycles} :
    /\ deadline' = [deadline EXCEPT ![Drive] = at]
    /\ heap' = ArmAll(heap, deadline', {Drive})
    /\ UNCHANGED <<cycles, field, origin, nextSample, served, saved>>

(* Mutated form of Reset: the video timing is zeroed, not its boot value.  *)
ResetZeroed ==
  /\ cycles' = 0
  /\ heap' = Schedule({}, PowerOnField, VBlank)
  /\ deadline' = [k \in Device |-> Never]
  /\ field' = 0
  /\ origin' = 0
  /\ nextSample' = SamplePeriod
  /\ served' = Unserved
  /\ UNCHANGED saved

Reset ==
  /\ cycles' = 0
  /\ heap' = Schedule({}, PowerOnField, VBlank)
  /\ deadline' = [k \in Device |-> Never]
  /\ field' = PowerOnField
  /\ origin' = 0
  /\ nextSample' = SamplePeriod
  /\ served' = Unserved
  /\ UNCHANGED saved

SaveState(s) ==
  /\ saved' = [saved EXCEPT ![s] =
       [cycles |-> cycles, heap |-> heap, deadline |-> deadline, field |-> field,
        origin |-> origin, nextSample |-> nextSample, served |-> served]]
  /\ UNCHANGED machine

(* Mutated form of LoadState: the event heap is left out of the state and  *)
(* stays that of the machine that is replaced.                             *)
LoadStateKeepingHeap(s) ==
  /\ saved[s] # None
  /\ cycles' = saved[s].cycles
  /\ deadline' = saved[s].deadline
  /\ field' = saved[s].field
  /\ origin' = saved[s].origin
  /\ nextSample' = saved[s].nextSample
  /\ served' = saved[s].served
  /\ UNCHANGED <<heap, saved>>

LoadState(s) ==
  /\ saved[s] # None
  /\ cycles' = saved[s].cycles
  /\ heap' = saved[s].heap
  /\ deadline' = saved[s].deadline
  /\ field' = saved[s].field
  /\ origin' = saved[s].origin
  /\ nextSample' = saved[s].nextSample
  /\ served' = saved[s].served
  /\ UNCHANGED saved

Next ==
  \/ Step
  \/ OpenShell
  \/ Reset
  \/ \E s \in Slots : SaveState(s) \/ LoadState(s)

Spec == Init /\ [][Next]_vars
-----------------------------------------------------------------------------
(* The shape of a snapshot, a save state or the running machine.           *)
Snapshot ==
  [cycles : Nat, heap : SUBSET Entry, deadline : Deadlines, field : Field,
   origin : Nat, nextSample : Nat, served : [Device -> Nat]]

TypeOK ==
  /\ cycles \in Nat
  /\ heap \subseteq Entry
  /\ deadline \in Deadlines
  /\ field \in Field
  /\ origin \in Nat
  /\ nextSample \in Nat
  /\ served \in [Device -> Nat]
  /\ saved \in [Slots -> Snapshot \cup {None}]

(* The parts of the safety properties, as predicates of any machine state: *)
(* they have to hold of the running machine and of every save state, which *)
(* carries the heap and comes back whole.                                  *)
Covered(h, dl) == \A k \in Device : dl[k] # Never => WakesBy(h, k, dl[k])

Overdue(dl, now) == {k \in Device : dl[k] # Never /\ dl[k] <= now}
Serviced(counts) == {k \in Device : counts[k] > 0}

VBlanks(h) == {e \in h : e.kind = VBlank}

VBlankAhead(h, now, since) ==
  \E e \in h :
    /\ VBlanks(h) = {e}
    /\ e.deadline > now
    /\ e.deadline - since \in Field

Paced(now, next) == now < next /\ next <= now + SamplePeriod

Files == {s \in Slots : saved[s] # None}

(* Every component that waits for a cycle has an entry that wakes it up no *)
(* later: no register write, service, vertical blank, lid, reset or loaded *)
(* state ever leaves a component waiting for a wake-up that does not come. *)
(* (scheduler.rs:6-9; bus.rs:208-241, "call after anything that can move   *)
(* it".)                                                                   *)
NoLostWakeup ==
  /\ Covered(heap, deadline)
  /\ \A s \in Files : Covered(saved[s].heap, saved[s].deadline)

(* A component whose deadline has passed was serviced by the instruction   *)
(* that passed it: only one that asked to be woken again at once is still  *)
(* overdue between two instructions.  (scheduler.rs:3-6, "an event fires   *)
(* at the end of the first instruction whose cycle count reaches its       *)
(* deadline"; lib.rs:413-415.)                                             *)
OnTime ==
  /\ Overdue(deadline, cycles) \subseteq Serviced(served)
  /\ \A s \in Files :
       Overdue(saved[s].deadline, saved[s].cycles) \subseteq Serviced(saved[s].served)

(* Exactly one VBlank entry is pending (scheduler.rs:50), it lies ahead,   *)
(* and it is one whole field after the vertical blank before it, however   *)
(* long the instruction that crossed that one took and whatever display    *)
(* mode was set since.                                                     *)
OneVBlank ==
  /\ VBlankAhead(heap, cycles, origin)
  /\ \A s \in Files : VBlankAhead(saved[s].heap, saved[s].cycles, saved[s].origin)

(* Samples are generated at a fixed rate whatever an instruction costs:    *)
(* between two instructions the next one is due within a period.           *)
SamplePacing ==
  /\ Paced(cycles, nextSample)
  /\ \A s \in Files : Paced(saved[s].cycles, saved[s].nextSample)

(* The machine driven by the heap does what one that polls every component *)
(* after every instruction would do: in the instruction that reaches its   *)
(* deadline a component is serviced, once, though the heap may hold        *)
(* several entries for it; nothing else moves what is not serviced; and a  *)
(* reset or a loaded state is the machine at boot or the one that was      *)
(* saved.  (lib.rs:411-415; scheduler.rs:3-10.)                            *)
VBlankOf(h) == (CHOOSE e \in h : e.kind = VBlank).deadline
VBlankAt == VBlankOf(heap)
KeptMachines ==
  [s \in Slots |->
     IF saved[s] = None THEN None
     ELSE <<saved[s].cycles, saved[s].deadline, VBlankOf(saved[s].heap), saved[s].served>>]
Polled == INSTANCE Polling WITH vblankAt <- VBlankAt, saved <- KeptMachines
ImplementsPolling == Polled!Spec
=============================================================================
