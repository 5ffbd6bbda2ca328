SPECIFICATION FairSpec
CONSTANTS
  N = 2
  Reminders <- MCReminders
  Payloads = {p1, p2}
  Editors = {e1, e2}
  Scenarios <- MCScenarios
  p1 = p1
  p2 = p2
  e1 = e1
  e2 = e2
INVARIANTS ExecutedAsApproved EffectOnce SucceededLanded
PROPERTIES ActionsSettle
CHECK_DEADLOCK FALSE
