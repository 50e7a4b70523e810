\* Data, CD-DA and status commands against sectors, acknowledgements, the lid
\* and reloads; and CD-DA over a track boundary, sought while it plays.
CONSTANTS
  Discs <- AllDiscs
  Commands <- AllCommands
  Modes <- AllModes
  Streams = {"voice", "music"}
  Delay <- MCDelay
  SeekTimes = {1}
  ReportEvery = 2
  Hold = 1
  SectorAudio = 2
  QueueBound = 2
SPECIFICATION MCSpec
INVARIANTS InOrder OneStream NoStaleStatus SwapNotMissed
PROPERTIES IntNotOverwritten SectorsWait
