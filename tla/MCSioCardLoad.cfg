\* A state load in the middle of a transaction.
CONSTANTS
  Payload = 1
  ValidAddress <- MCValidAddress
  Byte <- MCByte
  XorByte <- MCXor
  Program <- CardWrites
  Controls <- KernelControls
  Replacements = {"load"}
  TransferBound = 11
SPECIFICATION Spec
INVARIANT InStep
