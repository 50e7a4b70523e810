------------------------------- MODULE Timers -------------------------------
(***************************************************************************)
(* One root counter (src/crates/psx-core/src/timers.rs) as the main loop   *)
(* drives it: it catches up when a register is accessed, when a scheduled  *)
(* wake-up at next_deadline arrives, and at the vertical blank.  Module    *)
(* Machine has the event heap and takes next_deadline for granted; here    *)
(* is one counter's share of the heap, and next_deadline in full.          *)
(*                                                                         *)
(* The three counters differ in the gates their modes can have and in the  *)
(* period those work on: a line for counter 0, a field for counter 1.      *)
(* Time is counted from the start of the field.  The reached-target and    *)
(* overflow flags (bits 11 and 12), which only a read shows, are left out. *)
(***************************************************************************)
EXTENDS Integers, FiniteSetsExt

CONSTANTS
  Cost,         (* cycles one instruction takes, DMA stalls too            *)
  Wrap,         (* 0x10000                                                 *)
  Margin,       (* EDGE_OVERSHOOT_MARGIN_CYCLES                            *)
  Modes, Targets, Counts, Timings,   (* what the program may write         *)
  Allowed(_, _, _)   (* mode, target, count: the program may combine them  *)

(* The synchronization modes: none, 0, 1, 2 and 3 of counters 0 and 1; the *)
(* modes that stop counter 2.                                              *)
Gates == {"run", "pause", "reset", "window", "start", "stop"}
Sources == {"cpu", "external"}
Mode == [gate : Gates, reset : BOOLEAN, on_target : BOOLEAN, on_overflow : BOOLEAN,
         repeat : BOOLEAN, toggle : BOOLEAN, source : Sources]

PowerOnMode == [gate |-> "run", reset |-> FALSE, on_target |-> FALSE, on_overflow |-> FALSE,
                repeat |-> FALSE, toggle |-> FALSE, source |-> "cpu"]

ASSUME TimersAssumption ==
  /\ Cost \subseteq Nat \ {0}
  /\ Wrap \in Nat \ {0} /\ Margin \in Nat
  /\ PowerOnMode \in Modes /\ Modes \subseteq Mode
  /\ Targets \subseteq 0 .. Wrap - 1 /\ Counts \subseteq 0 .. Wrap - 1
  /\ \A t \in Timings :
       /\ t.period \in Nat \ {0} /\ t.lines \in Nat \ {0} /\ t.blank \in 0 .. t.period
       /\ \A s \in Sources : /\ t.ratio[s][1] \in Nat \ {0}
                             /\ t.ratio[s][2] \in 1 .. t.ratio[s][1]

VARIABLES
  phase,        (* cycles - frame_origin                                   *)
  field,        (* the phase at which the pending vertical blank is due    *)
  timing,       (* gpu.video_timing()                                      *)
  timer,        (* the Timer; age is the time since last_sync              *)
  wakes,        (* its entries in the heap, in cycles still to go          *)
  ideal         (* history: a counter that ticks, accessed the same way    *)

vars == <<phase, field, timing, timer, wakes, ideal>>

Ticks == INSTANCE Ticking

Num(t, tm) == tm.ratio[t.mode.source][1]
Den(t, tm) == tm.ratio[t.mode.source][2]
-----------------------------------------------------------------------------
(* request_irq. *)
RequestIrq(t) ==
  IF ~t.mode.repeat /\ t.irq_fired THEN t
  ELSE [t EXCEPT !.irq_fired = TRUE,
                 !.line = IF t.mode.toggle THEN ~@ ELSE @,
                 !.raised = @ \/ (t.mode.toggle => t.line)]

(* advance: the target is crossed, or the last value, somewhere within the *)
(* ticks of one call; a condition is served at most once per call.         *)
Advance(t, cycles, tm) ==
  LET elapsed == cycles * Den(t, tm) + t.frac
      reached == t.counter + elapsed \div Num(t, tm)
      crossed == t.counter <= t.target /\ t.target < reached
      counter == IF crossed /\ t.mode.reset THEN reached % (t.target + 1) ELSE reached
      overflow == counter >= Wrap
      next == [t EXCEPT !.counter = counter % Wrap, !.frac = elapsed % Num(t, tm)]
  IN IF (crossed /\ t.mode.on_target) \/ (overflow /\ t.mode.on_overflow)
     THEN RequestIrq(next) ELSE next

(* Blanking cycles of the field before phase p.                            *)
BlankingBefore(p, tm) == (p \div tm.period) * tm.blank + Min({p % tm.period, tm.blank})
BlankingWithin(from, to, tm) == BlankingBefore(to, tm) - BlankingBefore(from, tm)

(* The cycles between two phases, within one period, in which t counts.    *)
Counting(t, from, to, tm) ==
  CASE t.mode.gate = "pause" -> (to - from) - BlankingWithin(from, to, tm)
    [] t.mode.gate = "window" -> BlankingWithin(from, to, tm)
    [] t.mode.gate = "stop" -> 0
    [] t.mode.gate = "start" /\ ~t.sync_started -> 0
    [] OTHER -> to - from

Edge(t) ==
  CASE t.mode.gate \in {"reset", "window"} -> [t EXCEPT !.counter = 0, !.frac = 0]
    [] t.mode.gate = "start" -> [t EXCEPT !.sync_started = TRUE]
    [] OTHER -> t

(* The edges after one phase and up to another that catch_up stops at.     *)
Edges(t, from, to, tm) ==
  IF t.mode.gate \in {"run", "stop"} THEN {} ELSE {e \in from + 1 .. to : e % tm.period = 0}

(* One round of catch_up's loop, from the cursor to where it stops next.   *)
Segment(t, cursor, end, now, tm) ==
  LET counted == Advance([t EXCEPT !.age = now - end], Counting(t, cursor, end, tm), tm)
  IN IF end % tm.period = 0 THEN Edge(counted) ELSE counted

(* catch_up: from edge to edge, if the gate has any, up to the phase now.  *)
CatchUp(t, now, tm) ==
  LET from == now - t.age
      Cursor(end) == Max({from} \cup Edges(t, from, end - 1, tm))
      walked[end \in from .. now] ==
        IF end = from THEN t ELSE Segment(walked[Cursor(end)], Cursor(end), end, now, tm)
  IN walked[now]

(* Mutated form of CeilDiv: a wake-up before the last tick is complete.    *)
FloorDiv(a, b) == a \div b
CeilDiv(a, b) == (a + b - 1) \div b

(* next_deadline: the numbers of ticks after which an interrupt condition  *)
(* could be met.  Past its target, a counter has to be watched as it wraps *)
(* even if only the target interrupts.                                     *)
Past(t) == t.mode.on_target /\ t.counter > t.target
ResetsOnEdge(t) == t.mode.gate \in {"reset", "window"}

ToTarget(t) == IF t.mode.on_target /\ ~Past(t) THEN {t.target + 1 - t.counter} ELSE {}

(* Mutated form of ToWrap: only the overflow interrupt asks for it.        *)
ToOverflow(t) == IF t.mode.on_overflow THEN {Wrap - t.counter} ELSE {}
ToWrap(t) == IF t.mode.on_overflow \/ Past(t) THEN {Wrap - t.counter} ELSE {}

ToTargetAfterReset(t) == IF Past(t) /\ ResetsOnEdge(t) THEN {t.target + 1} ELSE {}

(* What a gate that resets the counter can deliver between two edges.      *)
Reachable(t, tm, n) ==
  ResetsOnEdge(t) =>
    LET counting == (IF t.mode.gate = "reset" THEN tm.period ELSE tm.blank) + Margin
    IN n <= CeilDiv(counting * Den(t, tm), Num(t, tm))

Estimates(t, tm) ==
  IF t.mode.gate = "stop" \/ (~t.mode.repeat /\ t.irq_fired) THEN {}
  ELSE {n \in ToTarget(t) \cup ToWrap(t) \cup ToTargetAfterReset(t) : Reachable(t, tm, n)}

(* The cycles until next_deadline.                                         *)
ToDeadline(t, tm) ==
  LET parts == Min(Estimates(t, tm)) * Num(t, tm) - t.frac
  IN Max({0, CeilDiv(parts, Den(t, tm)) - t.age})

(* arm_timer. *)
Arm(w, t, tm) ==
  IF Estimates(t, tm) = {} \/ \E e \in w : e <= ToDeadline(t, tm)
  THEN w ELSE w \cup {ToDeadline(t, tm)}
-----------------------------------------------------------------------------
Visible(t) ==
  [mode |-> t.mode, target |-> t.target, counter |-> t.counter, frac |-> t.frac,
   sync_started |-> t.sync_started, irq_fired |-> t.irq_fired, line |-> t.line,
   raised |-> t.raised]

Init ==
  /\ phase = 0
  /\ timing \in Timings
  /\ field = timing.period * timing.lines
  /\ timer = [mode |-> PowerOnMode, target |-> 0, counter |-> 0, frac |-> 0, age |-> 0,
              sync_started |-> FALSE, irq_fired |-> FALSE, line |-> FALSE, raised |-> FALSE]
  /\ wakes = {}
  /\ ideal = Visible(timer)

(* Mutated form of SyncAll: the field's origin moves all the same.         *)
SyncAllSkipped(t, now, tm) == t

(* sync_all, just before the field's origin moves. *)
SyncAll(t, now, tm) == CatchUp(t, now, tm)

(* An instruction whose access left the timer at t, its entries at w and   *)
(* the timing at tm ends n cycles later.  The vertical blank closes out    *)
(* the field under the old origin; a wake-up that is due is served and the *)
(* timer armed again.                                                      *)
EndStep(t, w, tm, n) ==
  LET now == phase + n
      vblank == now >= field
      woken == \E e \in w : e <= n
      left == {e - n : e \in {x \in w : x > n}}
      later == [t EXCEPT !.age = @ + n]
      closed == IF vblank THEN SyncAll(later, now, tm) ELSE later
  IN /\ timer' = IF woken THEN CatchUp(closed, now, tm) ELSE closed
     /\ wakes' = IF woken THEN Arm(left, timer', tm) ELSE left
     /\ phase' = IF vblank THEN 0 ELSE now
     /\ field' = IF vblank THEN tm.period * tm.lines ELSE field
     /\ timing' = tm

Quiet(t) == [t EXCEPT !.raised = FALSE]
Synced == CatchUp(Quiet(timer), phase, timing)

(* The ticking counter takes the same access and the same cycles.          *)
Idealised(i, tm, n) == ideal' = Ticks!Cycles(i, phase, tm, n)

Compute ==
  \E n \in Cost : EndStep(Quiet(timer), wakes, timing, n) /\ Idealised(Quiet(ideal), timing, n)

Read ==
  \E n \in Cost : EndStep(Synced, wakes, timing, n) /\ Idealised(Quiet(ideal), timing, n)

(* A register write: what it makes of the timer after the catch-up.        *)
Write(new(_)) ==
  \E n \in Cost :
    /\ EndStep(new(Synced), Arm(wakes, new(Synced), timing), timing, n)
    /\ Idealised(new(Quiet(ideal)), timing, n)

WriteCounter ==
  \E v \in Counts :
    /\ Allowed(timer.mode, timer.target, v)
    /\ Write(LAMBDA t : [t EXCEPT !.counter = v])

WriteTarget ==
  \E v \in Targets :
    /\ Allowed(timer.mode, v, Synced.counter)
    /\ Write(LAMBDA t : [t EXCEPT !.target = v])

WriteMode ==
  \E m \in Modes :
    /\ Allowed(m, timer.target, 0)
    /\ Write(LAMBDA t : [t EXCEPT !.mode = m, !.counter = 0, !.frac = 0,
                           !.sync_started = FALSE, !.irq_fired = FALSE, !.line = TRUE])

(* A display mode change; the counter is armed anew, without a catch-up.   *)
WriteGp1 ==
  \E n \in Cost, tm \in Timings :
    /\ EndStep(Quiet(timer), Arm(wakes, timer, tm), tm, n)
    /\ Idealised(Quiet(ideal), tm, n)

Next == Compute \/ Read \/ WriteCounter \/ WriteTarget \/ WriteMode \/ WriteGp1

Spec == Init /\ [][Next]_vars
-----------------------------------------------------------------------------
TypeOK ==
  /\ timing \in Timings
  /\ field \in Nat /\ phase \in 0 .. field
  /\ timer.mode \in Modes /\ timer.target \in 0 .. Wrap - 1
  /\ timer.counter \in 0 .. Wrap - 1
  /\ wakes \subseteq Nat
  /\ timer.frac \in Nat /\ timer.age \in 0 .. phase
  /\ {timer.sync_started, timer.irq_fired, timer.line, timer.raised} \subseteq BOOLEAN

(* A wake-up moves time forward: no service leaves one for the cycle it    *)
(* was served in, so the loop never spins on a timer (timers.rs,           *)
(* "wake-up must move forward").                                           *)
WakeMovesOn == \A e \in wakes : e > 0

(* The lazy counter, seen through a catch-up, is one that counts cycle by  *)
(* cycle, and it raised its interrupt in the same instruction              *)
(* (timers.rs:3-14 and the test of the wake-ups against polling).          *)
CountsLikeTicking ==
  Visible([CatchUp(timer, phase, timing) EXCEPT !.raised = timer.raised]) = ideal

(* "a scheduled wake-up raises the IRQ at the end of the instruction that  *)
(* reaches it" (timers.rs:10-11).                                          *)
InterruptsOnTime == ideal.raised => timer.raised
=============================================================================
