----------------------------- MODULE SessionJobs -----------------------------
(***************************************************************************)
(* The life of one session's transcript and note: hub.end and its drain,   *)
(* the orchestrator's finalize, regenerate and reprocess runs, the API     *)
(* requests and the watchdog that start them, soft deletion and the audio  *)
(* purge, at the granularity of their awaits.                              *)
(*                                                                         *)
(* A transcript is the set of its rows; a row is the part of the recording *)
(* it transcribes and the run that wrote it (Live, or a reprocess).  The   *)
(* note is the set of rows it was written from.  Reading a row and acting  *)
(* on it up to the next await is one step.                                 *)
(***************************************************************************)
EXTENDS Integers, FiniteSets

CONSTANTS Parts,       \* the speech segments of the recording
          MaxJobs,     \* orchestrator runs; a run's number is also its identity
          Enders,      \* callers of hub.end: the producer, the REST API, the watchdog
          Clients,     \* API requests that may be in flight together
          Scenarios    \* bounds on what users and faults do: how often each, together

\* Requests (process, regenerate), ends, deletions, purges; the process dies (crash) or is shut
\* down; the producer goes away; the recovery window passes (aged); the recording's files are
\* missing (lost); no STT tier answers the live pipeline (stt) or a rerun; the LLM fails.
Verbs == {"process", "regenerate"}
Events == Verbs \cup {"end", "delete", "purge", "crash", "shutdown", "gone", "aged", "lost",
                      "stt", "rerun", "llm"}

ASSUME SessionJobsBounds == MaxJobs \in Nat /\ Scenarios \subseteq [Events -> Nat]

Jobs == 1..MaxJobs
Live == 0           \* the run of the rows the live pipeline writes
NoJob == 0
NoHolder == "none"

\* The name of no holder names no request.
ASSUME LockNamed == NoHolder \notin Clients

VARIABLES
  \* Durable: the session row, its segments, note and recording.
  status,        \* Session.status
  deleted,       \* Session.deleted_at is set
  pending,       \* Session.transcription_pending
  recent,        \* Session.ended_at is within finalize_recover_max_age_s
  rows,          \* the final segments
  note,          \* the rows the latest note was written from; {}: no note
  audio,         \* the recording is on disk
  \* The server process.
  server,        \* "up" or "down"
  ingest,        \* the session has an ingest in the hub
  producer,      \* its producer is connected and sending
  pipe,          \* parts fed to the live pipeline and not yet through STT
  sttAway,       \* SessionPipeline._stt_away of the live pipeline
  draining,      \* IngestHub._draining holds the session
  ender,         \* ender[e]: the hub.end call of e
  job,           \* job[j]: the orchestrator run j
  entry,         \* Orchestrator._jobs of the session: the registered run, or NoJob
  lock,          \* holder of PublishService.lock
  request,       \* request[r]: the API request r
  backfill,      \* the watchdog's _backfill_one
  backfilling,   \* Orchestrator._backfilling
  deleting,      \* a DELETE request has found the session finished
  purging,       \* the audio purge has selected the session
  budget         \* how often each fault or request has happened

rowVars == <<status, deleted, pending, recent>>
hubVars == <<ingest, producer, pipe, sttAway, draining, ender>>
jobVars == <<job, entry>>
apiVars == <<lock, request>>
watchVars == <<backfill, backfilling>>
sweepVars == <<deleting, purging>>
vars == <<status, deleted, pending, recent, rows, note, audio, server, ingest, producer, pipe,
          sttAway, draining, ender, job, entry, lock, request, backfill, backfilling, deleting, purging,
          budget>>

Active == {"live", "finalizing"}
Finished == {"done", "failed"}

Idle == [st |-> "idle", moved |-> FALSE, took |-> FALSE]
Unused == [st |-> "unused", todo |-> {}, lost |-> FALSE, old |-> {}, seen |-> {},
           restore |-> "done", backfill |-> FALSE]
NoRequest == [st |-> "idle", verb |-> "process", before |-> "done"]

Init ==
  /\ status = "live" /\ deleted = FALSE /\ pending = FALSE /\ recent = TRUE
  /\ rows = {} /\ note = {} /\ audio = TRUE
  /\ server = "up" /\ ingest = TRUE /\ producer = TRUE /\ pipe = Parts
  /\ sttAway = FALSE /\ draining = FALSE /\ ender = [e \in Enders |-> Idle]
  /\ job = [j \in Jobs |-> Unused] /\ entry = NoJob
  /\ lock = NoHolder /\ request = [r \in Clients |-> NoRequest]
  /\ backfill = NoRequest /\ backfilling = NoJob
  /\ deleting = FALSE /\ purging = FALSE
  /\ budget = [e \in Events |-> 0]

\* The event happens once more, within one of the scenarios.
Affords(event) ==
  \E most \in Scenarios : budget[event] < most[event] /\ \A e \in Events : budget[e] <= most[e]
Spend(event) == Affords(event) /\ budget' = [budget EXCEPT ![event] = @ + 1]

\* An UPDATE of the status guarded by the status it expects.
MoveFinalizing(to) == status' = IF status = "finalizing" THEN to ELSE status

-----------------------------------------------------------------------------
(* The live pipeline *)

\* It works until it is closed: by the hub.end that took it, or with the process.
PipelineRuns == server = "up" /\ (ingest \/ \E e \in Enders : ender[e].st = "draining" /\ ender[e].took)

Transcribe(p) ==
  /\ PipelineRuns /\ p \in pipe
  /\ pipe' = pipe \ {p}
  /\ rows' = rows \cup {[part |-> p, by |-> Live]}
  /\ sttAway' = FALSE
  /\ UNCHANGED <<rowVars, note, audio, server, ingest, producer, draining, ender, jobVars,
                 apiVars, watchVars, sweepVars, budget>>

\* No tier answers: the audio is kept for later, which is recorded once per outage.
TranscribeFails(p) ==
  /\ PipelineRuns /\ p \in pipe
  /\ pipe' = pipe \ {p}
  /\ pending' = (pending \/ ~sttAway)
  /\ sttAway' = TRUE
  /\ Spend("stt")
  /\ UNCHANGED <<status, deleted, recent, rows, note, audio, server, ingest, producer, draining,
                 ender, jobVars, apiVars, watchVars, sweepVars>>

ProducerGone ==
  /\ server = "up" /\ producer
  /\ producer' = FALSE
  /\ Spend("gone")
  /\ UNCHANGED <<rowVars, rows, note, audio, server, ingest, pipe, sttAway, draining, ender,
                 jobVars, apiVars, watchVars, sweepVars>>

-----------------------------------------------------------------------------
(* Registering a run *)

\* _track: run j starts and becomes the session's entry, whatever the entry was.
Track(j, st, restore, isBackfill) ==
  /\ job[j].st = "unused" /\ \A i \in Jobs : i < j => job[i].st # "unused"
  /\ job' = [job EXCEPT ![j] = [Unused EXCEPT !.st = st, !.restore = restore,
                                              !.backfill = isBackfill]]
  /\ entry' = j

\* Mutant of Over: the backfill's slot is never given back.
OverKeepsSlot(j) ==
  /\ job' = [job EXCEPT ![j] = [Unused EXCEPT !.st = "over"]]
  /\ entry' = NoJob
  /\ UNCHANGED backfilling

\* Run j ends: whatever is registered is removed, and a backfill makes way for the next.
Over(j) ==
  /\ job' = [job EXCEPT ![j] = [Unused EXCEPT !.st = "over"]]
  /\ entry' = NoJob
  /\ backfilling' = IF job[j].backfill THEN NoJob ELSE backfilling

\* Run j goes on to st.
Goto(j, st) ==
  /\ job' = [job EXCEPT ![j].st = st]
  /\ UNCHANGED <<entry, backfilling>>

At(j, st) == server = "up" /\ job[j].st = st

-----------------------------------------------------------------------------
(* hub.end *)

EndMark(e) ==
  /\ server = "up" /\ ender[e].st = "idle"
  /\ draining' = TRUE
  /\ status' = IF status = "live" THEN "finalizing" ELSE status
  /\ ender' = [ender EXCEPT ![e] = [st |-> "marked", moved |-> status = "live", took |-> FALSE]]
  /\ Spend("end")
  /\ UNCHANGED <<deleted, pending, recent, rows, note, audio, server, ingest, producer, pipe,
                 sttAway, jobVars, apiVars, watchVars, sweepVars>>

\* Take the ingest out of the hub and close its store.
EndTake(e) ==
  /\ server = "up" /\ ender[e].st = "marked"
  /\ ender' = [ender EXCEPT ![e].st = "draining", ![e].took = ingest]
  /\ ingest' = FALSE
  /\ UNCHANGED <<rowVars, rows, note, audio, server, producer, pipe, sttAway, draining, jobVars, apiVars,
                 watchVars, sweepVars, budget>>

\* The pipeline has drained; on_end starts the finalize run if this call moved the session.
EndReturn(e) ==
  /\ server = "up" /\ ender[e].st = "draining"
  /\ ender[e].took => pipe = {}
  /\ draining' = FALSE
  /\ \/ ender[e].moved /\ \E j \in Jobs : Track(j, "ending", "done", FALSE)
     \/ ~ender[e].moved /\ UNCHANGED jobVars
  /\ ender' = [ender EXCEPT ![e].st = "over"]
  /\ UNCHANGED <<rowVars, rows, note, audio, server, ingest, producer, pipe, sttAway, apiVars,
                 watchVars, sweepVars, budget>>
-----------------------------------------------------------------------------
(* A run: what _end, _reprocess and _finalize do between two awaits *)

runVars == <<server, hubVars, apiVars, backfill, sweepVars>>

\* _end: with audio waiting for STT the note waits too.
EndRun(j) ==
  /\ At(j, "ending")
  /\ Goto(j, IF pending THEN "setdone" ELSE "note")
  /\ UNCHANGED <<rowVars, rows, note, audio, runVars, budget>>

\* _set_done, and the finalizer's last step.
SetDone(j) ==
  /\ At(j, "setdone") \/ At(j, "written")
  /\ MoveFinalizing("done")
  /\ Goto(j, "tail")
  /\ UNCHANGED <<deleted, pending, recent, rows, note, audio, runVars, budget>>

\* Finalizer._finalize: the session has moved on, has no transcript, or goes to the LLM.
ReadTranscript(j) ==
  /\ At(j, "note")
  /\ \/ status # "finalizing" /\ Goto(j, "tail") /\ UNCHANGED status
     \/ status = "finalizing" /\ rows = {} /\ Goto(j, "setdone") /\ UNCHANGED status
     \/ /\ status = "finalizing" /\ rows # {}
        /\ job' = [job EXCEPT ![j].st = "llm", ![j].seen = rows]
        /\ UNCHANGED <<status, entry, backfilling>>
  /\ UNCHANGED <<deleted, pending, recent, rows, note, audio, runVars, budget>>

\* The answer is rendered, written to the outbox and recorded.
WriteNote(j) ==
  /\ At(j, "llm")
  /\ note' = job[j].seen
  /\ Goto(j, "written")
  /\ UNCHANGED <<rowVars, rows, audio, runVars, budget>>

NoteFails(j) ==
  /\ At(j, "llm")
  /\ MoveFinalizing("failed")
  /\ Goto(j, "tail")
  /\ Spend("llm")
  /\ UNCHANGED <<deleted, pending, recent, rows, note, audio, runVars>>

\* The notification and the after-note hook are done: the run leaves the registry.
EndTail(j) ==
  /\ At(j, "tail")
  /\ Over(j)
  /\ UNCHANGED <<rowVars, rows, note, audio, runVars, budget>>

\* retranscribe begins: with no recording on disk it fails.
FindRecording(j) ==
  /\ At(j, "queued")
  /\ Goto(j, IF audio THEN "select" ELSE "restore")
  /\ UNCHANGED <<rowVars, rows, note, audio, runVars, budget>>

\* The transcript to replace is read and the recording opened.
SelectOld(j) ==
  /\ At(j, "select") /\ audio
  /\ job' = [job EXCEPT ![j].st = "rerun", ![j].old = rows, ![j].todo = Parts]
  /\ UNCHANGED <<rowVars, rows, note, audio, entry, backfilling, runVars, budget>>

\* The recording went away since it was found: stat raises, and nothing restores the session.
RecordingGone(j) ==
  /\ At(j, "select") /\ ~audio
  /\ Over(j)
  /\ UNCHANGED <<rowVars, rows, note, audio, runVars, budget>>

\* The rerun's pipeline transcribes p.
RerunPart(j, p) ==
  /\ At(j, "rerun") /\ p \in job[j].todo
  /\ rows' = rows \cup {[part |-> p, by |-> j]}
  /\ job' = [job EXCEPT ![j].todo = @ \ {p}]
  /\ UNCHANGED <<rowVars, note, audio, entry, backfilling, runVars, budget>>

\* No tier answers: p counts as lost.
RerunLost(j, p) ==
  /\ At(j, "rerun") /\ p \in job[j].todo
  /\ job' = [job EXCEPT ![j].todo = @ \ {p}, ![j].lost = TRUE]
  /\ Spend("rerun")
  /\ UNCHANGED <<rowVars, rows, note, audio, entry, backfilling, runVars>>

RerunFinish(j) ==
  /\ At(j, "rerun") /\ job[j].todo = {}
  /\ Goto(j, "settle")
  /\ UNCHANGED <<rowVars, rows, note, audio, runVars, budget>>

\* Mutant of RerunSettle: the old rows go whether or not a part was lost.
RerunSettleDropsOld(j) ==
  /\ At(j, "settle")
  /\ rows' = rows \ job[j].old
  /\ Goto(j, IF job[j].lost THEN "restore" ELSE "clear")
  /\ UNCHANGED <<rowVars, note, audio, runVars, budget>>

\* All transcribed: the old rows go.  Otherwise every row that was not there before goes.
RerunSettle(j) ==
  /\ At(j, "settle")
  /\ rows' = IF job[j].lost THEN rows \cap job[j].old ELSE rows \ job[j].old
  /\ Goto(j, IF job[j].lost THEN "restore" ELSE "clear")
  /\ UNCHANGED <<rowVars, note, audio, runVars, budget>>

\* Mutant of RestoreStatus: a failed session comes back as done.
RestoreDone(j) ==
  /\ At(j, "restore")
  /\ MoveFinalizing("done")
  /\ Goto(j, "tail")
  /\ UNCHANGED <<deleted, pending, recent, rows, note, audio, runVars, budget>>

RestoreStatus(j) ==
  /\ At(j, "restore")
  /\ MoveFinalizing(job[j].restore)
  /\ Goto(j, "tail")
  /\ UNCHANGED <<deleted, pending, recent, rows, note, audio, runVars, budget>>

ClearPending(j) ==
  /\ At(j, "clear")
  /\ pending' = FALSE
  /\ Goto(j, "note")
  /\ UNCHANGED <<status, deleted, recent, rows, note, audio, runVars, budget>>

-----------------------------------------------------------------------------
(* POST .../process and .../regenerate *)

requestVars == <<rowVars, rows, note, audio, server, hubVars, watchVars, sweepVars>>

\* A deleted session is not found.
Submit(r, verb) ==
  /\ server = "up" /\ request[r].st = "idle" /\ ~deleted
  /\ request' = [request EXCEPT ![r] = [st |-> "waiting", verb |-> verb, before |-> "done"]]
  /\ Spend(verb)
  /\ UNCHANGED <<requestVars, jobVars, lock>>

\* Mutant of Busy: an ending session that still drains is not seen.
BusyNotDraining ==
  \/ entry # NoJob
  \/ status = "live" /\ ingest /\ producer
  \/ pending /\ status \in Finished

\* processing_of(...).busy
Busy ==
  \/ entry # NoJob
  \/ status = "finalizing" /\ draining
  \/ status = "live" /\ ingest /\ producer
  \/ pending /\ status \in Finished

\* The request ends, and with it its hold on the lock.
Return(r) ==
  /\ request' = [request EXCEPT ![r] = NoRequest]
  /\ lock' = NoHolder

\* Under the lock, process first looks whether a job is in flight.
Acquire(r) ==
  /\ server = "up" /\ request[r].st = "waiting" /\ lock = NoHolder
  /\ \/ request[r].verb = "process" /\ Busy /\ Return(r)
     \/ /\ request[r].verb = "process" => ~Busy
        /\ lock' = r
        /\ request' = [request EXCEPT ![r].st = "read"]
  /\ UNCHANGED <<requestVars, jobVars, budget>>

\* The statuses _reopen accepts: finalizing too when no run is registered.
Reopenable == Finished \cup (IF entry = NoJob THEN {"finalizing"} ELSE {})

ReopenRead(r) ==
  /\ server = "up" /\ request[r].st = "read"
  /\ \/ status \notin Reopenable /\ Return(r)
     \/ /\ status \in Reopenable
        /\ request' = [request EXCEPT ![r].st = "cas", ![r].before = status]
        /\ UNCHANGED lock
  /\ UNCHANGED <<requestVars, jobVars, budget>>

\* The guarded UPDATE.  It is ORM-enabled and SQLAlchemy's default synchronisation writes the new
\* status into the row the session has loaded, so the row.status that _reopen returns after the
\* commit is no longer the status before.
ReopenCas(r) ==
  /\ server = "up" /\ request[r].st = "cas"
  /\ \/ status # request[r].before /\ Return(r) /\ UNCHANGED status
     \/ /\ status = request[r].before
        /\ status' = "finalizing"
        /\ request' = [request EXCEPT ![r].st = "start", ![r].before = "finalizing"]
        /\ UNCHANGED lock
  /\ UNCHANGED <<deleted, pending, recent, rows, note, audio, server, hubVars, watchVars,
                 sweepVars, jobVars, budget>>

\* What a failed reprocess puts back: a session that was stuck reads failed.
RestoreTo(before) == IF before = "finalizing" THEN "failed" ELSE before

\* process transcribes again if there is a recording; otherwise only the note is written again.
StartJob(r) ==
  /\ server = "up" /\ request[r].st = "start"
  /\ \E j \in Jobs : IF request[r].verb = "process" /\ audio
                      THEN Track(j, "queued", RestoreTo(request[r].before), FALSE)
                      ELSE Track(j, "note", "done", FALSE)
  /\ Return(r)
  /\ UNCHANGED <<requestVars, budget>>

-----------------------------------------------------------------------------
(* The watchdog's _backfill_one *)

backfillVars == <<deleted, recent, rows, note, audio, server, hubVars, apiVars, sweepVars, budget>>

BackfillPick ==
  /\ server = "up" /\ backfill.st = "idle" /\ ~ingest /\ backfilling = NoJob
  /\ pending /\ status \in Finished /\ ~deleted
  /\ backfill' = [st |-> "cas", verb |-> "process", before |-> status]
  /\ UNCHANGED <<status, pending, jobVars, backfilling, backfillVars>>

BackfillCas ==
  /\ server = "up" /\ backfill.st = "cas"
  /\ \/ status # backfill.before /\ backfill' = NoRequest /\ UNCHANGED status
     \/ /\ status = backfill.before
        /\ status' = "finalizing"
        /\ backfill' = [backfill EXCEPT !.st = "start"]
  /\ UNCHANGED <<pending, jobVars, backfilling, backfillVars>>

\* With a recording the kept audio is transcribed.
BackfillStart ==
  /\ server = "up" /\ backfill.st = "start" /\ audio
  /\ \E j \in Jobs : Track(j, "queued", backfill.before, TRUE) /\ backfilling' = j
  /\ backfill' = NoRequest
  /\ UNCHANGED <<status, pending, backfillVars>>

\* Without one the note is written from what there is.
BackfillNoAudio ==
  /\ server = "up" /\ backfill.st = "start" /\ ~audio
  /\ pending' = FALSE
  /\ \E j \in Jobs : Track(j, "note", "done", FALSE)
  /\ backfill' = NoRequest
  /\ UNCHANGED <<status, backfilling, backfillVars>>

-----------------------------------------------------------------------------
(* Deletion and retention *)

sweepFrame == <<status, pending, recent, rows, note, server, hubVars, jobVars, apiVars, watchVars>>

\* DELETE reads the session; it is finished and not yet deleted.
DeleteRead ==
  /\ server = "up" /\ ~deleting /\ ~deleted /\ status \notin Active
  /\ deleting' = TRUE
  /\ Spend("delete")
  /\ UNCHANGED <<deleted, audio, purging, sweepFrame>>

DeleteCommit ==
  /\ server = "up" /\ deleting
  /\ deleted' = TRUE
  /\ deleting' = FALSE
  /\ UNCHANGED <<audio, purging, budget, sweepFrame>>

RestoreSession ==
  /\ server = "up" /\ deleted
  /\ deleted' = FALSE
  /\ UNCHANGED <<audio, sweepVars, budget, sweepFrame>>

\* soft_delete_due: one UPDATE that checks the status.
SoftDeleteDue ==
  /\ server = "up" /\ ~deleted /\ status \notin Active
  /\ deleted' = TRUE
  /\ Spend("delete")
  /\ UNCHANGED <<audio, sweepVars, sweepFrame>>

\* purge_expired_audio selects the done sessions, then unlinks their files.
PurgeSelect ==
  /\ server = "up" /\ ~purging /\ status = "done" /\ ~pending
  /\ purging' = TRUE
  /\ Spend("purge")
  /\ UNCHANGED <<deleted, audio, deleting, sweepFrame>>

PurgeUnlink ==
  /\ server = "up" /\ purging
  /\ audio' = FALSE
  /\ purging' = FALSE
  /\ UNCHANGED <<deleted, deleting, budget, sweepFrame>>

\* The files of a finished session are missing: a data directory that was moved or not restored.
AudioLost ==
  /\ audio /\ ~ingest
  /\ audio' = FALSE
  /\ Spend("lost")
  /\ UNCHANGED <<deleted, sweepVars, sweepFrame>>

-----------------------------------------------------------------------------
(* The process stops and starts *)

\* Nothing in memory survives; runs, requests and calls in flight are gone.
ProcessGone ==
  /\ server' = "down"
  /\ ingest' = FALSE /\ producer' = FALSE /\ pipe' = {} /\ sttAway' = FALSE /\ draining' = FALSE
  /\ ender' = [e \in Enders |-> IF ender[e].st = "over" THEN ender[e] ELSE Idle]
  /\ job' = [j \in Jobs |-> IF job[j].st = "unused" THEN Unused ELSE [Unused EXCEPT !.st = "over"]]
  /\ entry' = NoJob
  /\ lock' = NoHolder /\ request' = [r \in Clients |-> NoRequest]
  /\ backfill' = NoRequest /\ backfilling' = NoJob
  /\ deleting' = FALSE /\ purging' = FALSE

Crash ==
  /\ server = "up"
  /\ ProcessGone
  /\ Spend("crash")
  /\ UNCHANGED <<rowVars, rows, note, audio>>

\* Orchestrator.shutdown cancels the runs: a rerun still transcribing removes the rows it wrote;
\* one cancelled in the middle of settling leaves both transcripts.
Shutdown ==
  /\ server = "up"
  /\ ProcessGone
  /\ rows' = {x \in rows : \A j \in Jobs : job[j].st = "rerun" => x \in job[j].old}
  /\ Spend("shutdown")
  /\ UNCHANGED <<rowVars, note, audio>>

\* Mutant of Restart: nothing is recovered.
RestartOnly ==
  /\ server = "down"
  /\ server' = "up"
  /\ UNCHANGED <<rowVars, rows, note, audio, hubVars, jobVars, apiVars, watchVars, sweepVars, budget>>

\* The server starts and recovers a recent session left in finalizing.
Restart ==
  /\ server = "down"
  /\ server' = "up"
  /\ \/ status = "finalizing" /\ recent /\ \E j \in Jobs : Track(j, "ending", "done", FALSE)
     \/ ~(status = "finalizing" /\ recent) /\ UNCHANGED jobVars
  /\ UNCHANGED <<rowVars, rows, note, audio, hubVars, apiVars, watchVars, sweepVars, budget>>

\* The recovery window of an ended session passes.
Age ==
  /\ recent /\ status # "live"
  /\ recent' = FALSE
  /\ Spend("aged")
  /\ UNCHANGED <<status, deleted, pending, rows, note, audio, server, hubVars, jobVars, apiVars,
                 watchVars, sweepVars>>

-----------------------------------------------------------------------------
(* Specification *)

Pipeline == \E p \in Parts : Transcribe(p) \/ TranscribeFails(p)
Ending(e) == EndTake(e) \/ EndReturn(e)
Run(j) ==
  \/ EndRun(j) \/ SetDone(j) \/ ReadTranscript(j) \/ WriteNote(j) \/ NoteFails(j) \/ EndTail(j)
  \/ FindRecording(j) \/ SelectOld(j) \/ RecordingGone(j) \/ RerunFinish(j) \/ RerunSettle(j)
  \/ RestoreStatus(j) \/ ClearPending(j)
  \/ \E p \in Parts : RerunPart(j, p) \/ RerunLost(j, p)
Handle(r) == Acquire(r) \/ ReopenRead(r) \/ ReopenCas(r) \/ StartJob(r)
Backfill == BackfillPick \/ BackfillCas \/ BackfillStart \/ BackfillNoAudio
Sweep ==
  \/ DeleteRead \/ DeleteCommit \/ RestoreSession \/ SoftDeleteDue
  \/ PurgeSelect \/ PurgeUnlink \/ AudioLost

Next ==
  \/ Pipeline \/ ProducerGone
  \/ \E e \in Enders : EndMark(e) \/ Ending(e)
  \/ \E j \in Jobs : Run(j)
  \/ \E r \in Clients : Handle(r) \/ \E v \in Verbs : Submit(r, v)
  \/ Backfill \/ Sweep
  \/ Crash \/ Shutdown \/ Restart \/ Age

Spec == Init /\ [][Next]_vars

\* Tasks of the event loop are scheduled, an outage of the STT tiers ends, the watchdog keeps
\* running and a stopped server is started again.  Nobody has to end, delete or ask for anything.
Fairness ==
  /\ WF_vars(Pipeline) /\ WF_vars(Backfill) /\ WF_vars(Restart)
  /\ \A e \in Enders : WF_vars(Ending(e))
  /\ \A j \in Jobs : WF_vars(Run(j))
  /\ \A r \in Clients : SF_vars(Handle(r))

FairSpec == Spec /\ Fairness

-----------------------------------------------------------------------------
(* Properties *)

Row == [part : Parts, by : {Live} \cup Jobs]

\* Every variable has its type.  A run never puts an active status back.
TypeOK ==
  /\ status \in Active \cup Finished /\ {deleted, pending, recent, audio} \subseteq BOOLEAN
  /\ rows \subseteq Row /\ note \subseteq Row
  /\ server \in {"up", "down"} /\ {ingest, producer, sttAway, draining} \subseteq BOOLEAN
  /\ pipe \subseteq Parts
  /\ ender \in [Enders -> [st : {"idle", "marked", "draining", "over"}, moved : BOOLEAN,
                           took : BOOLEAN]]
  /\ \A j \in Jobs :
       /\ job[j].st \in {"unused", "ending", "setdone", "note", "llm", "written", "tail", "queued",
                         "select", "rerun", "settle", "restore", "clear", "over"}
       /\ job[j].todo \subseteq Parts /\ job[j].old \subseteq Row /\ job[j].seen \subseteq Row
       /\ job[j].restore \in Finished /\ {job[j].lost, job[j].backfill} \subseteq BOOLEAN
  /\ {entry, backfilling} \subseteq {NoJob} \cup Jobs
  /\ lock \in {NoHolder} \cup Clients
  /\ \A r \in Clients : request[r].st \in {"idle", "waiting", "read", "cas", "start"}
  /\ backfill.st \in {"idle", "cas", "start"}
  /\ {deleting, purging} \subseteq BOOLEAN /\ budget \in [Events -> Nat]

Working == {j \in Jobs : job[j].st \notin {"unused", "tail", "over"}}
Drains == {e \in Enders : ender[e].moved /\ ender[e].st \in {"marked", "draining"}}

\* None of these has happened.
Never(events) == \A e \in events : budget[e] = 0

\* The regime in which processing_of and _reopen see every other job: the process lives, its
\* producer stays connected until the one end, no kept audio calls for the backfill (which
\* registers its run late), and nobody regenerates (which does not look).
Sheltered ==
  Never({"regenerate", "gone", "crash", "shutdown", "stt"}) /\ budget["end"] <= 1

\* process "never starts a second job": at any time at most one run or draining end works on the
\* session's transcript and note, however the requests, the drain and the runs interleave.
NeverSecondJob == Sheltered => Cardinality(Working) + Cardinality(Drains) <= 1

Quiet == server = "up" /\ Working = {} /\ \A e \in Enders : ender[e].st \in {"idle", "over"}

\* "End-of-session: full-transcript LLM pass": when nothing works on a done session and no audio
\* waits to be transcribed, its note was written from exactly the transcript it has.
NoteOfTranscript == (Quiet /\ status = "done" /\ ~pending) => note = rows

\* The note is that of the transcript, whatever fails, is purged, deleted or asked for meanwhile.
NoteMatchesTranscript == Sheltered => NoteOfTranscript

\* A finished session's transcript holds every part at most once: a reprocess replaces the old
\* rows or leaves them, and never mixes the two.
TranscriptOnce ==
  (Sheltered /\ Quiet /\ status \in Finished) =>
    \A x, y \in rows : x.part = y.part => x = y

Rerunning == {j \in Jobs : job[j].st \in {"rerun", "settle"}}

\* "The session's transcript was left as it was": no step takes the last row of a part away, except
\* one that a rerun has written and has not yet put in place of the old transcript.
SpeechKept == \A x \in rows : x.by \in Rerunning \/ \E y \in rows' : y.part = x.part
NoSpeechLost == [][SpeechKept]_vars

\* Two reruns of one session, or a rerun next to a drain, may delete each other's rows.  Where a
\* rerun is alone nothing that was transcribed is lost, whatever fails, dies or is purged: with one
\* end, no regeneration, and either the sheltered regime, or the backfill only, or a single process
\* request and no backfill.
Alone ==
  /\ Never({"regenerate"}) /\ budget["end"] <= 1
  /\ \/ Sheltered
     \/ Never({"process"})
     \/ Never({"stt", "gone"}) /\ budget["process"] <= 1
NoSpeechLostAlone == [][Alone => SpeechKept]_vars

\* A session does not stay in finalizing.
FinalizingEnds == status = "finalizing" ~> status \in Finished

\* Audio that waited for STT is eventually transcribed, or its session deleted.
PendingServed == (pending /\ status # "live") ~> (~pending \/ deleted)

\* A finished session has one transcript and the note of it.
TranscriptSound == TypeOK /\ NoteMatchesTranscript /\ TranscriptOnce
=============================================================================
