SPECIFICATION Spec
CONSTANTS
  People = {"ann", "bob"}
  OwnerPerson = "ann"
  MaxUsers = 2
  Flows = {1, 2}
  Calls = {1, 2}
  MaxKeys = 3
  AccountScenarios <- MCAccountScenarios
  Recs = {"a"}
  Reqs = {1, 2}
  Total = 2
  Paths = {"p", "q"}
  MaxStreams = 1
  Grace = 2
  MaxSessions = 4
  RecordingScenarios <- MCRecordingScenarios
  MaxNow = 3
  MaxLen = 1
  PerDay = 2
  PerWeek = 3
  KeepDaily = 1
  KeepWeekly = 1
  MaxAge = 1
  BackupScenarios <- MCBackupScenarios
  PublicationScenarios <- MCPublicationScenarios
INVARIANTS OnceOnly UploadOnceWhole BackupsSound NoteSound
PROPERTIES PlatformForward PlatformLive
CHECK_DEADLOCK FALSE
