------------------------------ MODULE MCTimers ------------------------------
(* Model-checking instances of Timers: see the .cfg files.                 *)
EXTENDS Timers

Irq(gate, bits, source) ==
  [gate |-> gate, reset |-> "reset" \in bits, on_target |-> "target" \in bits,
   on_overflow |-> "overflow" \in bits, repeat |-> "repeat" \in bits,
   toggle |-> "toggle" \in bits, source |-> source]

(* Every gate with every kind of condition that makes it behave otherwise. *)
MCModes ==
  {PowerOnMode}
  \cup {Irq(g, {"target", "repeat"}, "cpu") : g \in Gates}
  \cup {Irq(g, {"target", "overflow", "repeat"}, "cpu") : g \in {"run", "reset"}}
  \cup {Irq(g, {"target"}, "cpu") : g \in {"run", "start"}}
  \cup {Irq(g, {"target", "repeat"}, "external") : g \in {"run", "reset"}}
  \cup {Irq("run", {"reset", "target", "repeat", "toggle"}, "cpu"), Irq("run", {"reset"}, "cpu")}

MCTiming == {[period |-> 5, blank |-> 2, lines |-> 2,
              ratio |-> [cpu |-> <<1, 1>>, external |-> <<3, 2>>]]}

(* Targets no shorter than an instruction; no counter moved past a target  *)
(* at which it is to start again.                                          *)
Longest == Max(Cost)
LongTargets(m, target, count) ==
  /\ m.on_target \/ m.reset => target >= Longest
  /\ m.reset => count <= target
AnyTarget(m, target, count) == TRUE
OverrunModes == {PowerOnMode, Irq("run", {"target", "repeat"}, "cpu")}

(* The counter has its type and every wake-up is ahead (WakeMovesOn).      *)
MovesOn == TypeOK /\ WakeMovesOn
=============================================================================
