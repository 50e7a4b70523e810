\* Every gate, wake-ups against cycle-by-cycle counting.
CONSTANTS
  Cost = {1, 3}
  Wrap = 7
  Margin = 2
  Modes <- MCModes
  Targets = {3, 5}
  Counts = {6}
  Timings <- MCTiming
  Allowed <- LongTargets
SPECIFICATION Spec
INVARIANTS MovesOn CountsLikeTicking
