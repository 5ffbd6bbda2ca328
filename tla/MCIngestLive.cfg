CONSTANTS
  Channels = {mic}
  Conns = {k1, k2}
  Gens = {g1, g2}
  Rest = rest
  Window = 0
  MaxFrames = 2
  Scenarios <- LiveScenarios
SPECIFICATION FairSpec
PROPERTIES RecordedStored EndFinalizes
CHECK_DEADLOCK FALSE
