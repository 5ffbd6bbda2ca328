SPECIFICATION Spec
CONSTANTS
  MaxPos = 4
  MaxAsks = 2
  MaxWindows = 2
  Preroll = 1
  MaxHold = 2
  Settle = 1
  MaxRequest = 2
  Pad = 1
  VoiceScenarios <- MCVoiceScenarios
  Producers = {"copilot", "voice"}
  MaxNew = 2
  MaxOpen = 2
  MaxSegs = 2
  MinSegs = 2
  Ttl = 1
  MaxSuggestions = 1
  Deltas <- MCDeltas
  SpokenProposals <- MCSpokenProposals
  Notes = {"n1", "n2"}
  CopilotScenarios <- MCCopilotScenarios
INVARIANTS FiledOnceLive CopilotSound
PROPERTIES AssistantForward HeardOut ClientCatchesUp
CHECK_DEADLOCK FALSE
