SPECIFICATION Spec
CONSTANTS
  CloseFrames = 2
  MaxFrames = 5
  OverlapFrames = 1
  MinSpeech = 2
  HoldFrames = 3
  StreamLength <- MCStreamLength
  TranscriptScenarios <- MCTranscriptScenarios
  TierList <- MCTierList
  Askers = {1, 2}
  MaxTierEvents = 3
  LineChannel <- MCLineChannel
  Labels = {"a", "b"}
  MaxJobs = 2
  MaxVoices = 1
  SpeakerScenarios <- MCSpeakerScenarios
  SpokenLines = {"l1", "l2"}
  QueueSize = 1
  MaxReads = 2
  ViewScenarios <- MCViewScenarios
INVARIANTS SpeechSound VoicesSound PageSound
PROPERTIES SpeechForward SpeechLive
CHECK_DEADLOCK FALSE
