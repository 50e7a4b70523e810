------------------------------ MODULE Ticking -------------------------------
(***************************************************************************)
(* What a root counter promises, stated with no laziness: a counter that   *)
(* counts cycle by cycle and serves an interrupt condition in the cycle    *)
(* that meets it.  Module Timers, which counts only when it is looked at   *)
(* or woken up, is compared with it.                                       *)
(***************************************************************************)
EXTENDS Integers, Sequences, SequencesExt

CONSTANT Wrap   (* values of the counter: 0x10000                          *)

(* A condition is served: once only, unless the mode repeats.  In toggle   *)
(* mode every other one raises the interrupt.                              *)
Serve(c) ==
  IF c.irq_fired /\ ~c.mode.repeat THEN c
  ELSE [c EXCEPT !.irq_fired = TRUE,
                 !.line = IF c.mode.toggle THEN ~@ ELSE @,
                 !.raised = @ \/ ~c.mode.toggle \/ c.line]

(* One tick: past the target, round to 0 if the mode says so; past the     *)
(* last value, round to 0.                                                 *)
Tick(c) ==
  LET reached == c.counter = c.target
      full == c.counter + 1 = Wrap /\ ~(reached /\ c.mode.reset)
      ticked == [c EXCEPT !.counter = IF full \/ (reached /\ c.mode.reset) THEN 0 ELSE @ + 1]
  IN IF (reached /\ c.mode.on_target) \/ (full /\ c.mode.on_overflow)
     THEN Serve(ticked) ELSE ticked

IsCounting(c, blanking) ==
  CASE c.mode.gate = "run" \/ c.mode.gate = "reset" -> TRUE
    [] c.mode.gate = "pause" -> ~blanking
    [] c.mode.gate = "window" -> blanking
    [] c.mode.gate = "start" -> c.sync_started
    [] c.mode.gate = "stop" -> FALSE

(* One cycle, from p to p + 1 of the field: den parts of a tick, of which  *)
(* num make a whole one; at the end of the period, its edge.               *)
Cycle(c, p, t) ==
  LET num == t.ratio[c.mode.source][1]
      den == t.ratio[c.mode.source][2]
      parts == c.frac + den
      counted ==
        IF ~IsCounting(c, p % t.period < t.blank) THEN c
        ELSE IF parts < num THEN [c EXCEPT !.frac = parts]
        ELSE [Tick(c) EXCEPT !.frac = parts - num]
  IN IF (p + 1) % t.period # 0 THEN counted
     ELSE CASE c.mode.gate \in {"reset", "window"} -> [counted EXCEPT !.counter = 0, !.frac = 0]
            [] c.mode.gate = "start" -> [counted EXCEPT !.sync_started = TRUE]
            [] OTHER -> counted

(* n cycles, from the phase p.                                             *)
Cycles(c, p, t, n) ==
  FoldLeft(LAMBDA d, i : Cycle(d, p + i, t), c, [i \in 1 .. n |-> i - 1])
=============================================================================
