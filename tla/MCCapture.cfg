SPECIFICATION Spec
CONSTANTS
  Captures = {"c1", "c2"}
  Names = {"n1"}
  Notifs = {"m1", "m2"}
  MaxTime = 2
  AgentTasks = {"t1", "t2"}
  MaxIterations = 2
  MaxWindow = 3
  KeepTail = 2
  Paths = {"p"}
  Branches = {"main", "b"}
  CaptureScenarios <- MCCaptureScenarios
  Processes = {"d1", "d2"}
  MaxSessions = 3
  MaxClock = 3
  MaxUnacked = 1
  MaxRapid = 2
  DaemonScenarios <- MCDaemonScenarios
  MaxHolds = 3
  SinkStates = {"nothing", "jack", "unplugged", "usb"}
  SinkOf <- MCSinkOf
  HoldScenarios <- MCHoldScenarios
INVARIANTS ClientsSound
PROPERTIES ClientsForward ClientsEnd
CHECK_DEADLOCK FALSE
