SPECIFICATION Spec
CONSTANTS
  p1 = p1
  p2 = p2
  c1 = c1
  c2 = c2
  e1 = e1
  e2 = e2
  Parts = {p1, p2}
  MaxJobs = 7
  Enders = {e1, e2}
  Clients = {c1, c2}
  Scenarios <- MCScenarios
SYMMETRY Symmetric
INVARIANTS NeverSecondJob TranscriptSound
PROPERTIES NoSpeechLostAlone
CHECK_DEADLOCK FALSE
