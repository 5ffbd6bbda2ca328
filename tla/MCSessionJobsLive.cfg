SPECIFICATION FairSpec
CONSTANTS
  p1 = p1
  c1 = c1
  e1 = e1
  Parts = {p1}
  MaxJobs = 6
  Enders = {e1}
  Clients = {c1}
  Scenarios <- LiveScenarios
PROPERTIES FinalizingEnds PendingServed
CHECK_DEADLOCK FALSE
