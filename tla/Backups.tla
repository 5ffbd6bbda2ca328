------------------------------ MODULE Backups -------------------------------
(* The nightly backup job, the pruning of old backups, the check that one   *)
(* was made, and the restore of one session: server/src/jarvis_live/        *)
(* backup.py and the part of retention.py that reads its record.            *)
(*                                                                          *)
(* One session is followed.  Its rows hold the number of its audio chunks;  *)
(* its recording is its length; a copy of the volume is a length too, or    *)
(* other bytes.  Time counts the moments at which a job may start: a        *)
(* moment is the stamp of the backup made at it.                            *)
EXTENDS Naturals, FiniteSets, FiniteSetsExt

CONSTANTS
  MaxNow,           \* bound: the moments
  MaxLen,           \* bound: chunks of the recording
  PerDay, PerWeek,  \* moments in a day and in a week
  KeepDaily, KeepWeekly, MaxAge,
  BackupScenarios   \* bound: what may go wrong, how often, together

BackupEvents == {"failed", "killed", "expire", "purge", "restore", "broken"}
ASSUME BackupAssumption ==
  /\ {MaxNow, MaxLen, MaxAge} \subseteq Nat
  /\ {PerDay, PerWeek, KeepDaily, KeepWeekly} \subseteq Nat \ {0}
  /\ \A s \in BackupScenarios : s \in [BackupEvents -> Nat]

VARIABLES
  now,       \* the clock
  live,      \* the session on the server: its rows and its recording
  dumps,     \* db/<stamp>.dump
  manifests, \* audio/<stamp>.manifest.json
  last,      \* last_success.json: a stamp, or 0
  job,       \* the job that runs
  told,      \* when somebody was last told of a missing backup
  copy,      \* the copy of the volume an operator has at hand
  target,    \* the database and the directory a restore writes to
  restore,   \* the restore that runs
  wrong      \* the events so far, bounded by BackupScenarios

backupVars == <<now, live, dumps, manifests, last, job, told, copy, target, restore, wrong>>
jobVars == <<dumps, manifests, last, job>>
restoreVars == <<copy, target, restore>>

Stamps == 1..MaxNow
Absent == [made |-> FALSE, row |-> FALSE, chunks |-> 0]
NoEntry == [listed |-> FALSE, size |-> 0]
NoManifest == [there |-> FALSE, entry |-> NoEntry]
NoJob == [pc |-> "idle", stamp |-> 0]
NoTarget == [row |-> FALSE, chunks |-> 0, file |-> FALSE, size |-> 0, staged |-> FALSE]
NoCopy == [size |-> 0, same |-> TRUE]
NoRestore == [pc |-> "idle", from |-> 0, entry |-> NoEntry, rows |-> Absent, force |-> FALSE, before |-> NoTarget]

Might(e) == \E most \in BackupScenarios : wrong[e] < most[e] /\ \A f \in BackupEvents : wrong[f] <= most[f]
Happens(e) == Might(e) /\ wrong' = [wrong EXCEPT ![e] = @ + 1]

\* A restore reads its backup once and then touches the target only: what the server and the
\* job do meanwhile commutes with it and is left out.
AtRest == restore.pc = "idle"

----------------------------------------------------------------------------
(* The session, as the server goes on recording, expiring and purging it.   *)
(* A chunk's bytes are in the file before its row is committed.             *)
Record ==
  /\ AtRest /\ live.row /\ ~live.expired
  /\ \/ live.size < MaxLen /\ live' = [live EXCEPT !.size = @ + 1]
     \/ live.chunks < live.size /\ live' = [live EXCEPT !.chunks = @ + 1]
  /\ UNCHANGED <<now, jobVars, told, restoreVars, wrong>>

PurgeExpiredAudio ==
  /\ AtRest /\ live.row /\ ~live.expired /\ Happens("expire")
  /\ live' = [live EXCEPT !.expired = TRUE, !.size = 0]
  /\ UNCHANGED <<now, jobVars, told, restoreVars>>

PurgeOne ==
  /\ AtRest /\ live.row /\ Happens("purge")
  /\ live' = [live EXCEPT !.row = FALSE, !.chunks = 0, !.expired = TRUE, !.size = 0]
  /\ UNCHANGED <<now, jobVars, told, restoreVars>>

Tick == AtRest /\ now < MaxNow /\ now' = now + 1 /\ UNCHANGED <<live, jobVars, told, restoreVars, wrong>>

----------------------------------------------------------------------------
(* run_backup: the dump, checked by reading it back and moved to its name;  *)
(* the manifest; the record of success; the pruning.                        *)
RunBackup ==
  /\ AtRest /\ job.pc = "idle" /\ now > job.stamp /\ now > 0
  /\ job' = [pc |-> "dump", stamp |-> now]
  /\ UNCHANGED <<now, live, dumps, manifests, last, told, restoreVars, wrong>>

\* pg_dump into .part, pg_restore --list, os.replace.
PgDump ==
  /\ AtRest /\ job.pc = "dump"
  /\ dumps' = [dumps EXCEPT ![job.stamp] = [made |-> TRUE, row |-> live.row, chunks |-> live.chunks]]
  /\ job' = [job EXCEPT !.pc = "manifest"]
  /\ UNCHANGED <<now, live, manifests, last, told, restoreVars, wrong>>

\* build_manifest: a file at the length it has, whether it grows or not.
Entry == [listed |-> live.size > 0, size |-> live.size]

BuildManifest ==
  /\ AtRest /\ job.pc = "manifest"
  /\ manifests' = [manifests EXCEPT ![job.stamp] = [there |-> TRUE, entry |-> Entry]]
  /\ job' = [job EXCEPT !.pc = "record"]
  /\ UNCHANGED <<now, live, dumps, last, told, restoreVars, wrong>>

WriteLastSuccess ==
  /\ AtRest /\ job.pc = "record"
  /\ last' = job.stamp
  /\ job' = [job EXCEPT !.pc = "prune"]
  /\ UNCHANGED <<now, live, dumps, manifests, told, restoreVars, wrong>>

\* The newest of each of the last limit groups, groups counted from the newest on.
NewestPer(stamps, per, limit) ==
  {s \in stamps : /\ \A t \in stamps : t \div per = s \div per => t <= s
                  /\ Cardinality({t \div per : t \in {u \in stamps : u >= s}}) <= limit}

Keep(stamps) ==
  {s \in stamps : \A t \in stamps : t <= s}
    \cup NewestPer(stamps, PerDay, KeepDaily) \cup NewestPer(stamps, PerWeek, KeepWeekly)

\* The dumps are listed and their manifests go with them, the newest first.
PruneTo(stop) ==
  LET stamps == {s \in Stamps : dumps[s].made}
      gone == stamps \ Keep(stamps)
  IN  /\ dumps' = [s \in Stamps |-> IF s \in gone /\ s >= stop THEN Absent ELSE dumps[s]]
      /\ manifests' = [s \in Stamps |-> IF s \in gone /\ s > stop THEN NoManifest ELSE manifests[s]]

Prune ==
  /\ AtRest /\ job.pc = "prune" /\ PruneTo(0)
  /\ job' = [job EXCEPT !.pc = "idle"]
  /\ UNCHANGED <<now, live, last, told, restoreVars, wrong>>

\* Any exception up to the manifest removes the part, the dump and the manifest; one later
\* leaves them.  run_and_report says so on Gotify either way.
BackupFails ==
  /\ AtRest /\ job.pc # "idle" /\ Happens("failed")
  /\ told' = now /\ job' = [job EXCEPT !.pc = "idle"]
  /\ IF job.pc \in {"dump", "manifest"}
     THEN /\ dumps' = [dumps EXCEPT ![job.stamp] = Absent]
          /\ manifests' = [manifests EXCEPT ![job.stamp] = NoManifest]
     ELSE IF job.pc = "prune" THEN \E stop \in Stamps : PruneTo(stop)
          ELSE UNCHANGED <<dumps, manifests>>
  /\ UNCHANGED <<now, live, last, restoreVars>>

\* The pod is killed: nothing is cleaned up and nobody is told.
JobKilled ==
  /\ AtRest /\ job.pc # "idle" /\ Happens("killed")
  /\ job' = [job EXCEPT !.pc = "idle"]
  /\ UNCHANGED <<now, live, dumps, manifests, last, told, restoreVars>>

\* backup_status: with no success on record the age of the volume stands in for it.
Stale == now - last > MaxAge

\* _check_backup, once in every turn of the retention loop.
CheckBackup ==
  /\ Stale /\ told # now
  /\ told' = now
  /\ UNCHANGED <<now, live, jobVars, restoreVars, wrong>>

----------------------------------------------------------------------------
(* restore_session, from the dump and the manifest of one stamp.            *)
\* An operator has a copy of the volume, taken earlier: no longer than the recording is, or
\* was, or damaged; and starts a restore into a target.
RestoreSession ==
  /\ restore.pc = "idle" /\ job.pc = "idle" /\ Happens("restore")
  /\ \E s \in Stamps, n \in 0..MaxLen, same \in BOOLEAN, force \in BOOLEAN :
       /\ same \/ n = MaxLen
       /\ manifests[s].there /\ dumps[s].made
       /\ copy' = [size |-> n, same |-> same]
       /\ restore' = [pc |-> "verify", from |-> s, entry |-> manifests[s].entry, rows |-> dumps[s],
                      force |-> force, before |-> target]
  /\ UNCHANGED <<now, live, jobVars, told, target>>

Refuse == restore' = [restore EXCEPT !.pc = "refused"] /\ UNCHANGED target

\* A mutant: a recording that is too short is not refused.
VerifiedPrefix(e) == ~e.listed \/ copy.same

\* _verify_audio: the copy is there, is not shorter than the manifest says, and agrees with it.
Verified(e) == ~e.listed \/ (copy.size >= e.size /\ copy.same)

VerifyAudio ==
  /\ restore.pc = "verify"
  /\ IF restore.rows.row /\ Verified(restore.entry)
     THEN restore' = [restore EXCEPT !.pc = "write"] /\ UNCHANGED target
     ELSE Refuse
  /\ UNCHANGED <<now, live, jobVars, told, copy, wrong>>

\* One transaction: the old rows go, the files are staged, the new rows come, all is committed;
\* or a statement or the staging fails and nothing is.
WriteRows ==
  /\ restore.pc = "write"
  /\ \/ (target.row /\ ~restore.force) /\ Refuse /\ UNCHANGED wrong
     \/ Happens("broken") /\ Refuse
     \/ /\ target.row => restore.force
        /\ target' = [target EXCEPT !.row = TRUE, !.chunks = restore.rows.chunks, !.staged = TRUE]
        /\ restore' = [restore EXCEPT !.pc = "clear"]
        /\ UNCHANGED wrong
  /\ UNCHANGED <<now, live, jobVars, told, copy>>

\* rmtree of the files that were there.
ClearFiles ==
  /\ restore.pc = "clear"
  /\ target' = [target EXCEPT !.file = FALSE, !.size = 0]
  /\ restore' = [restore EXCEPT !.pc = "replace"]
  /\ UNCHANGED <<now, live, jobVars, told, copy, wrong>>

\* os.replace of the staged directory, which holds the files the manifest lists; the notes follow.
ReplaceFiles ==
  /\ restore.pc = "replace"
  /\ target' = [target EXCEPT !.file = restore.entry.listed, !.staged = FALSE,
                              !.size = IF restore.entry.listed THEN copy.size ELSE 0]
  /\ restore' = [restore EXCEPT !.pc = "done"]
  /\ UNCHANGED <<now, live, jobVars, told, copy, wrong>>

\* A file error after the commit: finally removes what was staged, the rows stay.
FilesFail ==
  /\ restore.pc \in {"clear", "replace"} /\ Happens("broken")
  /\ target' = [target EXCEPT !.staged = FALSE]
  /\ restore' = [restore EXCEPT !.pc = "error"]
  /\ UNCHANGED <<now, live, jobVars, told, copy>>

\* The process dies: what was staged stays beside the sessions.
RestoreKilled ==
  /\ restore.pc \in {"verify", "write", "clear", "replace"} /\ Happens("killed")
  /\ restore' = [restore EXCEPT !.pc = "error"]
  /\ UNCHANGED <<now, live, jobVars, told, copy, target>>

----------------------------------------------------------------------------
BackupInit ==
  /\ now = 0 /\ live = [row |-> TRUE, chunks |-> 0, size |-> 0, expired |-> FALSE]
  /\ dumps = [s \in Stamps |-> Absent] /\ manifests = [s \in Stamps |-> NoManifest]
  /\ last = 0 /\ job = NoJob /\ told = 0
  /\ copy = NoCopy /\ restore = NoRestore
  /\ target \in {NoTarget, [NoTarget EXCEPT !.row = TRUE, !.file = TRUE, !.size = MaxLen, !.chunks = MaxLen]}
  /\ wrong = [e \in BackupEvents |-> 0]

BackupNext ==
  \/ Record \/ PurgeExpiredAudio \/ PurgeOne \/ Tick
  \/ RunBackup \/ PgDump \/ BuildManifest \/ WriteLastSuccess \/ Prune
  \/ BackupFails \/ JobKilled \/ CheckBackup
  \/ RestoreSession \/ VerifyAudio \/ WriteRows \/ ClearFiles \/ ReplaceFiles
  \/ FilesFail \/ RestoreKilled

----------------------------------------------------------------------------
\* The server's session, the backups and the restore.
BackupTypeOK ==
  /\ now \in 0..MaxNow /\ {last, told, job.stamp, restore.from} \subseteq 0..now
  /\ live \in [row : BOOLEAN, chunks : 0..MaxLen, size : 0..MaxLen, expired : BOOLEAN]
  /\ dumps \in [Stamps -> [made : BOOLEAN, row : BOOLEAN, chunks : 0..MaxLen]]
  /\ manifests \in [Stamps -> [there : BOOLEAN, entry : [listed : BOOLEAN, size : 0..MaxLen]]]
  /\ job.pc \in {"idle", "dump", "manifest", "record", "prune"}
  /\ copy \in [size : 0..MaxLen, same : BOOLEAN]
  /\ target \in [row : BOOLEAN, chunks : 0..MaxLen, file : BOOLEAN, size : 0..MaxLen, staged : BOOLEAN]
  /\ restore.pc \in {"idle", "verify", "write", "clear", "replace", "done", "refused", "error"}

(* The record of the last success names a dump and a manifest that are both *)
(* there, whatever failed, was killed or was pruned since (backup.py:       *)
(* "a dump without its manifest is half a backup").                         *)
LastSuccessWhole == last > 0 => dumps[last].made /\ manifests[last].there

(* A restore that ended well has put a recording beside the rows that is as *)
(* long as they say, however the session was recorded, expired or purged    *)
(* between the dump and the manifest; only a recording the manifest does    *)
(* not list is left out.  A restore that was refused has changed nothing.   *)
RestoreWhole ==
  /\ restore.pc = "done" /\ restore.entry.listed => target.file /\ target.size >= target.chunks
  /\ restore.pc = "refused" => target = restore.before

(* A backup that stops happening is noticed: whenever the last good one is  *)
(* too old, somebody is told, unless a good one comes first.                *)
MissingNoticed == [](now > last + MaxAge => <>(told > last \/ now <= last + MaxAge))

(* backup.py says of restore_session that "It never writes a session's rows *)
(* without its audio": no restore leaves rows whose listed recording is     *)
(* neither in place nor staged.                                             *)
NeverRowsWithoutAudio ==
  restore.pc \in {"error", "done"} /\ target.row /\ target # restore.before /\ restore.entry.listed => target.file

\* What the record calls a success is whole, and what is restored from it is.
BackupsSound == BackupTypeOK /\ LastSuccessWhole /\ RestoreWhole
=============================================================================
