\* CD-DA at double speed, which outruns the SPU: reports under back-pressure.
CONSTANTS
  Discs <- AudioDiscs
  Commands <- FastCommands
  Modes <- FastModes
  Streams = {"voice", "music"}
  Delay <- MCDelay
  SeekTimes = {1}
  ReportEvery = 2
  Hold = 1
  SectorAudio = 2
  QueueBound = 1
SPECIFICATION Spec
PROPERTY ReportSpacing
