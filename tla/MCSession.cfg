SPECIFICATION Spec
CONSTANTS
  Clients = {c1}
  NoClient = none
  Size = 2
  Targets = {1}
  SendBound = 2
  Longest = 2
  Modes = {"window", "budget", "control"}
  Waits = {TRUE, FALSE}
  Slice = 2
  Cycles = 3
  QueueBound = 1
  Asked = {"run", "pause", "step", "advance", "reset", "load", "open", "close"}
INVARIANTS MovesTogether WaitHolds BudgetSpent
PROPERTIES Undisturbed BreakpointsHold Stoppable
