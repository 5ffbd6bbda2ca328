CONSTANTS
  Channels = {mic, system}
  CompactionThreshold = 2
  MaxCaptures = 5
  MaxCrashes = 2
SPECIFICATION OutboxSpec
SYMMETRY ChannelSymmetry
INVARIANTS OutboxSound
PROPERTIES ImplementsQueue
CHECK_DEADLOCK FALSE
