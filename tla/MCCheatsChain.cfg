SPECIFICATION Spec
CONSTANTS
  Base = 2
  Ram = {0, 1}
  Rom = {2}
  Files <- MCFiles
  Swapped <- MCSwapped
  Held = {1, 3}
PROPERTY ChainsNest
