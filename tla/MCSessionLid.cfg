SPECIFICATION Spec
CONSTANTS
  Clients = {c1}
  NoClient = none
  Size = 2
  Targets = {1}
  SendBound = 2
  Longest = 2
  Modes = {"window"}
  Waits = {FALSE}
  Slice = 2
  Cycles = 3
  QueueBound = 1
  Asked = {"reset", "save", "load", "open", "close"}
INVARIANT LidFollowsPicker
