\* Realtime XA audio under back-pressure: the read goes on, answers arrive.
CONSTANTS
  Discs <- XaDiscs
  Commands <- XaCommands
  Modes <- XaModes
  Streams = {"voice", "music"}
  Delay <- MCDelay
  SeekTimes = {1}
  ReportEvery = 0
  Hold = 1
  SectorAudio = 2
  QueueBound = 1
SPECIFICATION FairSpec
INVARIANT BacklogBounded
PROPERTIES AnswersArrive ReadMoves
