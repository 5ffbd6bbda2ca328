----------------------------- MODULE MCPlatform -----------------------------
(* What surrounds a session, on small instances: accounts and credentials,  *)
(* uploads and streams, backups and restores, and the publication of its    *)
(* note.  A run explores one of them, as Init chooses.                      *)
EXTENDS Accounts, Recordings, Backups, Publication

VARIABLE platform

AccountQuiet == [e \in AccountEvents |-> 0]
MCAccountScenarios ==
  {[AccountQuiet EXCEPT !["login"] = 2, !["claim"] = 1, !["failed"] = 1],
   [AccountQuiet EXCEPT !["login"] = 2, !["claim"] = 1, !["redeem"] = 2],
   [AccountQuiet EXCEPT !["login"] = 1, !["expire"] = 3, !["use"] = 1, !["logout"] = 1],
   [AccountQuiet EXCEPT !["login"] = 1, !["expire"] = 1, !["ticket"] = 2, !["redeem"] = 1, !["revoke"] = 1],
   [AccountQuiet EXCEPT !["key"] = 4]}

RecordingQuiet == [e \in RecordingEvents |-> 0]
MCRecordingScenarios ==
  {[RecordingQuiet EXCEPT !["upload"] = 3, !["lost"] = 1, !["bad"] = 1, !["broken"] = 1],
   [RecordingQuiet EXCEPT !["upload"] = 3, !["lost"] = 1, !["owner end"] = 1],
   [RecordingQuiet EXCEPT !["upload"] = 3, !["lost"] = 1, !["restart"] = 1],
   [RecordingQuiet EXCEPT !["publish"] = 2, !["drop"] = 2, !["broken"] = 1],
   [RecordingQuiet EXCEPT !["publish"] = 2, !["drop"] = 2, !["revoke"] = 1],
   [RecordingQuiet EXCEPT !["publish"] = 2, !["drop"] = 1, !["restart"] = 1]}

BackupQuiet == [e \in BackupEvents |-> 0]
MCBackupScenarios ==
  {[BackupQuiet EXCEPT !["failed"] = 1, !["killed"] = 1],
   [BackupQuiet EXCEPT !["expire"] = 1, !["restore"] = 1, !["broken"] = 1],
   [BackupQuiet EXCEPT !["purge"] = 1, !["restore"] = 1],
   [BackupQuiet EXCEPT !["restore"] = 1, !["killed"] = 1]}

NoteQuiet == [e \in PublicationEvents |-> 0]
Merging == [NoteQuiet EXCEPT !["edit"] = 1, !["publish"] = 2, !["merge"] = 2, !["push"] = 1,
                         !["outside"] = 1, !["refused"] = 1, !["close"] = 1]
LostAnswers == [NoteQuiet EXCEPT !["edit"] = 1, !["publish"] = 2, !["merge"] = 1, !["close"] = 1, !["lost"] = 1,
                      !["refused"] = 1]
Skipping == [NoteQuiet EXCEPT !["publish"] = 2, !["close"] = 1, !["skip"] = 2, !["unskip"] = 1,
                          !["outside"] = 1, !["all"] = 1, !["refused"] = 1]
Rewriting == [NoteQuiet EXCEPT !["edit"] = 1, !["publish"] = 1, !["regenerate"] = 2, !["close"] = 1,
                           !["merge"] = 1]
Lifting == [NoteQuiet EXCEPT !["edit"] = 1, !["publish"] = 1, !["regenerate"] = 1, !["lift"] = 2,
                         !["crash"] = 1]
Trashing == [NoteQuiet EXCEPT !["publish"] = 1, !["delete"] = 2, !["restore"] = 1, !["skip"] = 1,
                          !["outside"] = 1, !["regenerate"] = 1, !["refused"] = 1, !["crash"] = 1]
MCPublicationScenarios == {Merging, LostAnswers, Skipping, Rewriting, Lifting, Trashing}

vars == <<accountVars, recordingVars, backupVars, publicationVars, platform>>
\* A part that does not run has one initial state.
Init ==
  /\ AccountInit /\ RecordingInit /\ BackupInit /\ PublicationInit
  /\ platform \in {"accounts", "recordings", "backups", "notes"}
  /\ platform # "backups" => target = NoTarget
  /\ platform # "notes" => ~session.restricted
Next ==
  \/ platform = "accounts" /\ AccountNext /\ UNCHANGED <<recordingVars, backupVars, publicationVars, platform>>
  \/ platform = "recordings" /\ RecordingNext /\ UNCHANGED <<accountVars, backupVars, publicationVars, platform>>
  \/ platform = "backups" /\ BackupNext /\ UNCHANGED <<accountVars, recordingVars, publicationVars, platform>>
  \/ platform = "notes" /\ PublicationNext /\ UNCHANGED <<accountVars, recordingVars, backupVars, platform>>
\* Fairness, asked of the part that runs.
\* Tasks run, the reconcile loop and the retention sweep come round, and days pass.
PublicationFair ==
  /\ WF_publicationVars(platform = "notes" /\ Serve) /\ WF_publicationVars(platform = "notes" /\ Automatic) /\ WF_publicationVars(platform = "notes" /\ Note)
  /\ SF_publicationVars(platform = "notes" /\ Refresh) /\ WF_publicationVars(platform = "notes" /\ SoftDeleteDue)
  /\ WF_publicationVars(platform = "notes" /\ PurgeNote) /\ WF_publicationVars(platform = "notes" /\ Age)
\* The poll, the watchdog and the tasks of the server run for as long as it does.
RecordingFair ==
  /\ WF_recordingVars(platform = "recordings" /\ OnlinePaths) /\ WF_recordingVars(platform = "recordings" /\ EndTick)
  /\ \A p \in Paths : WF_recordingVars(platform = "recordings" /\ (Seen(p) \/ NotStarted(p) \/ StartStream(p)))
  /\ \A r \in Reqs : WF_recordingVars(platform = "recordings" /\ UploadStep(r))
  /\ \A s \in Sessions : WF_recordingVars(platform = "recordings" /\ (CheckOnce(s) \/ Finish(s)))
\* The retention loop runs for as long as the server does.
BackupFair ==
  WF_backupVars(platform = "backups" /\ CheckBackup)
Spec == Init /\ [][Next]_vars /\ PublicationFair /\ RecordingFair /\ BackupFair


\* A login that was logged out and a device that was revoked stay so, only its logout or its expiry
\* signs a browser out, and a merge puts into the vault what was last pushed.
PlatformForward == LoginsHonest /\ MergedAsPushed

\* What happens outside is noticed: streams that come and go, backups that do not, pull requests
\* that are merged or closed; and the trash is emptied.
PlatformLive == StreamsFollowed /\ MissingNoticed /\ OutsideNoticed /\ TrashEmptied
=============================================================================
