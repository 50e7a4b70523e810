\* Machine: one timer, one save-state slot, every access, service, save and
\* load; then the units of the console, each with its own.
CONSTANTS
  VBlank = VBlank
  Drive = Drive
  Port = Port
  T1 = T1
  S1 = S1
  Timers = {T1}
  Kind = {VBlank, Drive, Port, T1}
  Never = Never
  Cost <- MCCost
  Field <- MCField
  PowerOnField = 1
  SamplePeriod = 1
  Times <- MCTimes
  Horizon = 2
  Slots = {S1}
  Programs <- MCPrograms
  Interrupts = 2
  Breaks <- MCBreaks
  Channels = {2, 3, 6}
  Entries = 2
  Packets = 2
  Payload = {0, 1, 2}
  GuardBound = 6
  Opcodes <- MCOpcodes
  TopBytes = {2, 72, 160}
  ImageSizes = {1, 2, 5}
  Segments = 2
  Rows = 8
  Tall = 3
  Nominal = 2
  Widths = {1, 2}
  Starts = {0, 1}
  Ranges <- MCRanges
  Lines = 4
  LineClocks = 5
  LineCycles = 4
  Blanking = 1
  VramWidth = 3
  VramHeight = 3
  Reach = 2
  Coordinates = {0, 1, 2, 3}
  Corners <- MCCorners
  Texels = {FALSE}
  Areas <- MCAreas
  Offsets <- MCOffsets
  Shades <- MCShades
  Effort = 2
  Size = 3
  ColorBlocks = 2
  Chroma = 1
  Counts = {1, 2, 3}
  Tables = {1}
  Voices = {0}
  Blocks = 2
  Span = 2
  Pitches = {1}
  Full = 15
  Pivot = 1
  Envelopes <- MCEnvelopes
  Flags = {{}, {"end"}, {"start", "end", "repeat"}}
SPECIFICATION UnitsSpec
INVARIANTS TypeOK NoLostWakeup OnTime OneVBlank SamplePacing
INVARIANTS ProgramUndisturbed CompletionsKept CommandsInSync FramesWoven DecodedInStep
PROPERTIES ImplementsPolling DrawnInOrder DrawnAsGiven VoicesEnd
