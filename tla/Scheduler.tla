----------------------------- MODULE Scheduler -----------------------------
(***************************************************************************)
(* The event heap of psx-core (src/crates/psx-core/src/scheduler.rs) as    *)
(* operators on a value: a heap is a finite set of entries, each an        *)
(* absolute cycle deadline and the kind of event it wakes up.              *)
(*                                                                         *)
(* The insertion number that breaks ties between entries of one deadline   *)
(* is left out: the only consumer (serve_events, module Machine) drains    *)
(* every due entry into a set of flags before it services anything, so the *)
(* order inside one drain is not observable.  Without it two equal entries *)
(* are one; wake_by never pushes an entry equal to a pending one, and      *)
(* Machine shows that VBlank, which is pushed unconditionally, is pending  *)
(* exactly once.                                                           *)
(***************************************************************************)
EXTENDS Integers

CONSTANTS
  Kind,    (* what an entry can wake up: enum EventKind                    *)
  Never    (* a component with nothing to wait for: next_deadline() = None *)

ASSUME NeverAssumption == Never \notin Nat

Entry == [deadline : Nat, kind : Kind]

(* Some pending entry of kind k fires no later than d. *)
WakesBy(heap, k, d) == \E e \in heap : e.kind = k /\ e.deadline <= d

(* schedule: push unconditionally. *)
Schedule(heap, d, k) == heap \cup {[deadline |-> d, kind |-> k]}

(* wake_by: push unless an entry of the same kind is pending at or before. *)
WakeBy(heap, d, k) == IF WakesBy(heap, k, d) THEN heap ELSE Schedule(heap, d, k)

(* Mutated forms of Due: an event misses its own cycle; one pop per call.  *)
DueLate(heap, now) == {e \in heap : e.deadline < now}
DueFirst(heap, now) ==
  {e \in heap : e.deadline <= now /\ \A f \in heap : e.deadline <= f.deadline}

(* The entries the loop over pop_due(now) returns, and those it leaves. *)
Due(heap, now) == {e \in heap : e.deadline <= now}
NotDue(heap, now) == heap \ Due(heap, now)

(* The kinds woken by draining the heap at cycle now. *)
DueKinds(heap, now) == {e.kind : e \in Due(heap, now)}

(* Arm every component of K at the deadline it reports, dl[k], one wake_by *)
(* each; the calls touch different kinds, so their order is irrelevant.    *)
ArmAll(heap, dl, K) ==
  heap \cup {[deadline |-> dl[k], kind |-> k] :
               k \in {j \in K : dl[j] # Never /\ ~WakesBy(heap, j, dl[j])}}
=============================================================================
