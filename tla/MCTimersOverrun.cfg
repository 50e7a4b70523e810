\* A target shorter than an instruction.
CONSTANTS
  Cost = {1, 3}
  Wrap = 8
  Margin = 2
  Modes <- OverrunModes
  Targets = {1}
  Counts = {0}
  Timings <- MCTiming
  Allowed <- AnyTarget
SPECIFICATION Spec
INVARIANT InterruptsOnTime
