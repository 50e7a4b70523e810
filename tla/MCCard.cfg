\* Whole transactions, as the kernel makes them; and resets and state loads in
\* the middle of a write.
CONSTANTS
  Payload = 2
  ValidAddress <- OneAddress
  Byte <- MCByte
  XorByte <- MCXor
  Program <- Transfer
  Controls <- KernelControls
  Replacements = {}
  TransferBound = 13
SPECIFICATION MCSpec
INVARIANTS KeptInStep NoLostSave
PROPERTY KeptCommitWhole
VIEW MCView
CONSTRAINT MCBound
