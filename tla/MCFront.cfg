\* Control: two clients, three lines, one vblank; the game keeps two values.
\* The files and addresses of the cheats are in the module.
CONSTANTS
  Clients = {"c1", "c2"}
  Buttons = {"B"}
  Values = {0, 1}
  Slots = {0}
  Arguments <- SentCommands
  MaxLines = 3
  MaxTime = 1
  ScanBase = 2
  ScanSize = 2
  ScanWidths = {1, 2}
  ScanValues = {2}
  ScanPasses = 3
  TtyCap = 4
  TtyLimit = 9
  PacketData <- DataBytes
  PacketLongest = 2
  PacketItems = 2
  CueFiles = {"A", "B", "C"}
  CueLength <- FileLengths
  CueNumbers = {1}
  CuePositions = {0, 1, 2}
  CueMaxLines = 6
SPECIFICATION UnitsSpec
CONSTRAINT FirstComes
INVARIANTS ListsSurvivors ItemsSurvive TracksInPlace
PROPERTIES CommandsKept CheatsAsWritten OutputReadOnce
