------------------------------ MODULE Polling ------------------------------
(***************************************************************************)
(* What the event scheduler promises, stated with no scheduler: an ideal   *)
(* machine that looks at every component after every instruction.          *)
(*                                                                         *)
(* Each component knows the cycle at which it next has something to do,    *)
(* its deadline.  Accesses during an instruction may move deadlines.  At   *)
(* the end of the instruction every component whose deadline has been      *)
(* reached is serviced, once, in that instruction and not a later one; an  *)
(* early wake-up is harmless, so that others may be serviced too.  The     *)
(* vertical blank happens in the instruction that reaches its cycle and is *)
(* set again one field later, never twice in one instruction.              *)
(*                                                                         *)
(* A power cycle starts the machine over, and a save state brings back the *)
(* machine that was saved and no other.                                    *)
(*                                                                         *)
(* Module Machine, which has only a heap of entries to go by, implements   *)
(* this one.                                                               *)
(***************************************************************************)
EXTENDS Integers

CONSTANTS
  Device,       (* the drive, the controller port and the root counters    *)
  Drive,        (* the drive                                               *)
  Timers,       (* the root counters                                       *)
  Never,        (* no deadline: next_deadline() = None                     *)
  Field,        (* the field lengths of the display modes, in cycles       *)
  PowerOnField, (* the field length at boot                                *)
  Slots,        (* the save states that are kept                           *)
  None          (* no save state in a slot                                 *)

VARIABLES
  cycles,       (* elapsed CPU cycles                                      *)
  deadline,     (* per component, what next_deadline() reports             *)
  vblankAt,     (* the cycle of the next vertical blank                    *)
  served,       (* how often the last instruction serviced each component  *)
  saved         (* per slot, the machine that was saved                    *)

state == <<cycles, deadline, vblankAt, served>>
vars == <<cycles, deadline, vblankAt, served, saved>>

Reached(at, now) == at # Never /\ at <= now
(* A catch-up only moves a deadline later, or drops it.                    *)
Later(old, new) == new # Never => old # Never /\ old <= new

PowerOn ==
  /\ cycles = 0
  /\ deadline = [k \in Device |-> Never]
  /\ vblankAt = PowerOnField
  /\ served = [k \in Device |-> 0]

Init == PowerOn /\ saved = [s \in Slots |-> None]

(***************************************************************************)
(* One instruction.  `touched` is what its register accesses may have      *)
(* moved: nothing, one component, or (a display mode change) every timer.  *)
(* A component may go unserviced only if its deadline was not reached,     *)
(* neither before nor after the vertical blank let the timers catch up.    *)
(***************************************************************************)
Unserviced(k, touched) ==
  /\ served'[k] = 0
  /\ ~Reached(deadline'[k], cycles')
  /\ \/ k \in touched
     \/ deadline'[k] = deadline[k]
     \/ /\ k \in Timers /\ vblankAt <= cycles'
        /\ ~Reached(deadline[k], cycles') /\ Later(deadline[k], deadline'[k])

Instruction ==
  /\ cycles' > cycles
  /\ \E touched \in {{}} \cup {{k} : k \in Device} \cup {Timers} :
       \A k \in Device : served'[k] = 1 \/ Unserviced(k, touched)
  /\ IF vblankAt <= cycles'
     THEN \E f \in Field : vblankAt' = cycles' + f
     ELSE vblankAt' = vblankAt
  /\ UNCHANGED saved

(* The lid is opened between two instructions: the drive drops what it was *)
(* doing and may have an error to report, in the future.                   *)
OpenShell ==
  /\ \A k \in Device \ {Drive} : deadline'[k] = deadline[k]
  /\ ~Reached(deadline'[Drive], cycles)
  /\ UNCHANGED <<cycles, vblankAt, served, saved>>

Reset == PowerOn' /\ UNCHANGED saved

Save(s) == saved' = [saved EXCEPT ![s] = state] /\ UNCHANGED state
Load(s) == saved[s] # None /\ state' = saved[s] /\ UNCHANGED saved

Next == Instruction \/ OpenShell \/ Reset \/ \E s \in Slots : Save(s) \/ Load(s)

Spec == Init /\ [][Next]_vars
=============================================================================
