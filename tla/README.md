# Jarvis Live: a TLA+ verification project

Jarvis Live (`src/server/src/jarvis_live`) records conversations: a capture client streams
microphone and system audio to a server, which stores it, transcribes it, writes a note about it
with an LLM and proposes actions that its owner reviews. What must not go wrong is simple to say.
No recorded audio is lost, no transcribed speech is lost or doubled, a note is about the transcript
it is filed with, and nothing is done in the owner's name that the owner did not approve. The
program is hard to test in exactly these points, because they depend on where two coroutines are
between their awaits, or on which write the process died after.

This directory models that core and the parts around it in TLA+: speech and speakers, the assistants,
the capture clients, accounts, uploads, streams, backups and publication. It checks them with TLC on small
instances, and proves every safety and action property those runs check with TLAPS, for every size of instance. `PROJECT.json` is the machine-readable
index: it maps each definition to the lines it models and lists runs, mutants, findings, hazards and
theorems.

## 1. Inventory

### The recording path

| Part | State it keeps | Operations | Hard because |
|---|---|---|---|
| Outbox (`client/outbox.py`) | payload and index file per channel, `acked.json`, cursors in memory | append, unacked, mark_acked, compaction, reopen | the process may die between any two writes; compaction truncates two files; the unacked-bytes counter is maintained incrementally |
| Producer connection (`client/transport.py`) | send cursor, connection state | connect, hello, send, receive acks, end, retry | drops, restarts and late messages; a close has to be told from an end |
| Producer handler (`api/stream.py`) | producer of a session, dirty channels | hello, frames, ack loop, end, close | a superseded handler still works through its buffer; state read before an await is used after it |
| Ingest hub (`ingest/hub.py`) | ingests, draining sessions | get, end, is_streaming | two callers of end; a late producer re-creates an ingest |
| Audio store (`ingest/store.py`) | file, index rows, cursors | load, append, fsync, close | two writers of one truth (file and database), one of which may fail |
| Pipeline, segmenter, STT (`ingest/pipeline.py`, `ingest/segmenter.py`, `stt/`) | open segment, queue, outage flag | feed, finish, keep for later | outages in the middle of a session; draining while the session ends |

The client calls the server over one WebSocket per connection: frames and `end` go up, `hello_ack`,
acks and errors come down. The handlers share the hub's ingest of the session, the ingest owns the
store and the pipeline, and the database row of the session is shared with everything below.

### From recording to note

| Part | State it keeps | Operations | Hard because |
|---|---|---|---|
| Orchestrator (`orchestrator.py`) | registered run per session, the backfill's slot | finalize, regenerate, reprocess, backfill, recover, shutdown | runs, requests and the watchdog look at each other's marks across awaits |
| Finalizer (`finalize/`) | status, note | read transcript, LLM pass, write note | the transcript may change while the LLM works |
| Reprocessing (`ingest/retranscribe.py`) | transcript rows, ids in memory | select, rerun, settle | some parts fail; the process dies with two transcripts in the table |
| Requests (`api/publishing.py`, `api/sessions.py`, `processing.py`) | the session's lock | process, regenerate, delete, restore | decide on derived state, then act |
| Retention (`retention.py`) | `deleted_at`, files | soft delete, purge of audio | races the runs that read the files |

### From note to action

| Part | State it keeps | Operations | Hard because |
|---|---|---|---|
| Action queue (`actions/service.py`, `api/actions.py`) | proposal rows and audit log | admit, edit, approve, reject, retry, expire, execute, recover | an approval binds to content that may be edited; effects outlive the process that made them |
| Executors (`actions/comments.py`, `vault.py`, `pi.py`) | none; markers at the target | execute, reconcile | lost answers |
| Reminders (`actions/reminders.py`) | `scheduled_reminders` | store, claim, push, settle, recover | push and record cannot be one step |
| Publication (`publish/`, `finalize/restriction.py`) | the note's file, branch, pull request and row | publish, edit, merge, skip, close, refresh, purge | several GitHub calls, each of which may fail; GitHub's users move in between |
| Work items (`workitems/`) | item rows, the ideas cursor | ideas pass, edit, approve, merge, close, reopen | the LLM's answer is applied to rows its owner may have edited meanwhile |
| Dispatch (`dispatch/`, `workitems/prwatch.py`) | run rows, Jobs, Secrets, branches | gate, queue, start, check, cancel, close on merge | Kubernetes Jobs outlive the process; an answer may be lost |

### Assistants of a live session

| Part | State it keeps | Operations | Hard because |
|---|---|---|---|
| Voice requests (`voice/`) | cursor, held windows, the current ask, echoes | hear, hold, let go, answer, play, end | the same words come as audio and as transcript; three tasks may answer; Jarvis hears himself |
| Action intake (`actions/intake.py`, `state.py`) | memory of proposals beside the rows | ground, deduplicate, admit, restore | two producers; memory and rows change in different steps |
| Copilot (`copilot/`) | notes, suggestions, version, snapshots | cycle, announce, snapshot, name, restore | others announce between any two awaits of the cycle |

### Clients

| Part | State it keeps | Operations | Hard because |
|---|---|---|---|
| Capture API (`jarvis_voice/capture_api.py`) | notes, notifications, tasks, and their files | capture, poll, run a task, reply, delete, restart | threads share dictionaries that are saved as a whole |
| Capture daemon (`client/daemon.py`, `capture.py`, `control.py`) | socket, session files, recorder's position, subscribers | claim, open, resume, roll, stop, watch, tail | two starts; death at any step; a timeline across restarts |
| Desktop keys (`jarvis_desktop/trigger.py`) | what is held, chorded, begun | press, release, other keys, Esc | all orders of two keys and everything between |
| Hold to ask (`jarvis_desktop/ask.py`, `speech.py`, `route.py`) | the ask, its delivery, the speech, the route | press, release, reply, deliver, speak, report | holds overlap; headphones are unplugged between check and playback |
| Live page (`web/src/ws.ts`, `reducer.ts`; `bus.py`) | events queued, snapshot shown | connect, receive, poll, reconnect | snapshots overtake one another and events are dropped |

### Speech

| Part | State it keeps | Operations | Hard because |
|---|---|---|---|
| Segmenter and pipeline (`ingest/segmenter.py`, `pipeline.py`) | open segments, queues, held microphone segments | feed, cut, transcribe, hold, release, finish | a decision waits for the other channel, which may be late, fail or end |
| STT tiers (`stt/tiers.py`) | healthy tiers, fault clock | probe, ask, fall through | requests are in the air while probes change the list |
| Speakers (`diarize/`, `api/speakers.py`) | voices, profiles, labels of lines | label, diarize, align, name, forget | provisional and final labels meet; commits may be broken off in between |

### Platform

| Part | State it keeps | Operations | Hard because |
|---|---|---|---|
| Accounts (`auth.py`, `oidc.py`, `users.py`, `api/auth.py`, `streams/keys.py`) | users, logins, codes, devices, tickets, keys | sign in, redeem, use, slide, log out, claim | one-time things asked for twice at once |
| Uploads and streams (`ingest/upload.py`, `streams/`) | session rows, decoded files, live streams | upload, feed, poll, begin, end | an answer is lost and the request repeated; restarts; capacity |
| Backups (`backup.py`, `retention.py`) | backups on the volume, the record, staging | dump, copy, verify, prune, check, restore | a failure between any two steps; rows and files are not one transaction |

Metrics, reports, the clients of external services, the Swift and Kotlin ports, the remaining web pages and an older
LiveKit agent are not modelled (section 6). `PROJECT.json` lists every part with what is or is not
modelled of it, and every hazard with the properties that would catch it.

## 2. Modules

| Module | Models | Composed with |
|---|---|---|
| `Outbox` | `client/outbox.py`, one action per file write | |
| `Ingest` | client connection, network, handlers, hub and store of one session | uses the outbox as the counters `recorded` and `acked`, which `FrameQueue` justifies |
| `FrameQueue` | what the outbox promises | the abstract specification that `Outbox` implements with files and the client of `Ingest` keeps to |
| `AudioLog` | what the audio path promises | the abstract specification `Ingest` implements |
| `SessionJobs` | status, transcript, note, recording and jobs of one session | starts where `Ingest` ends: `EndMark` is hub.end's first step there and here |
| `Actions` | the action queue, the comment's executor and the reminder loop | |
| `WorkItems` | the ideas pass and the review of work items | extended by `Dispatch` |
| `Dispatch` | runs, Kubernetes, the runner, pull requests and the watch on them | extends `WorkItems`: the runs read its rows |
| `Publication` | one note's branch, pull request, restriction and trash | |
| `Voice` | spoken requests, held asks, the guard against echoes | |
| `Intake` | how a proposal enters the queue | extended by `Copilot`, one of its producers |
| `Copilot` | the cycle, announcements, snapshots, a client | extends `Intake` |
| `CaptureApi` | captures, notifications, agent tasks and their tools | |
| `Daemon` | daemon processes, recorder, control socket, session files | the connection is `Ingest`'s and only acknowledges, gives up or ends here |
| `Triggers`, `HoldToAsk` | the desktop's keys; what holding one does | |
| `Transcript` | segmenter and pipeline of one session | refines what `SessionJobs` calls transcribed or kept, informally |
| `Tiers`, `Speakers`, `Viewing` | the tier pool; the speakers; event bus and live page | |
| `Accounts`, `Recordings`, `Backups` | who may call; uploads and streams; backup and restore | |
| `ClientProofs` | proofs about `Outbox`, `Triggers`, `Daemon`, `CaptureApi` and `HoldToAsk` | extends `Outbox` and `MCCapture`, whose composition it proves as well |
| `ActionsProofs`, `SessionJobsProofs`, `WorkProofs` | proofs about `Actions`; about `SessionJobs`; about `WorkItems` and `Dispatch` | |
| `StoreProofs` | `Ingest` implements `AudioLog`; its pipeline, its files, its ends | |
| `AssistantProofs` | proofs about `Voice`, and about `Intake` with `Copilot` | extends `MCAssistant` |
| `SpeechProofs` | proofs about `Transcript`, `Tiers`, `Speakers` and `Viewing` | extends `MCSpeech` |
| `PlatformProofs` | proofs about `Accounts`, `Recordings`, `Backups` and `Publication` | extends `MCPlatform` |
| `MC...` | instances for TLC | `MCAssistant`, `MCCapture`, `MCSpeech` and `MCPlatform` instantiate several modules that share no state |

A variable is named for the attribute or row it stands for, an action for the function, or for
the stretch of a function between two awaits (`EditRead`, `EditCas`). Definitions commented as mutants
are plausible bugs: each property has one that makes TLC refute it. Time is counted in the units the
properties need (frames, lines, moments), and what an LLM, a voice detector, a diarizer or a server
answers is a choice.

Where several modules are checked in one instance, a variable chosen by `Init` (`part`, `client_kind`,
`speech`, `platform`) says which of them the behaviour is about; the others stay in an initial state. Nothing is claimed about
their interaction there.

### The core
**Outbox.** The disk (`pcm`, `index`, `ackedFile`) survives a crash, the memory does not, and `pc` says which
write comes next, so that `Crash` can fall between any two. A payload is the ordinal of its capture.
`TearIndexLine` is a death inside a line. Frames are one unit long, so offsets count frames.

**Ingest.** One session, one client, up to two connections alive together (a superseded one and its
successor). A connection is two FIFO queues. After a drop a prefix of what was sent still arrives. Each
coroutine of the server is a record in `handler`, with the SessionIngest it holds. `store[g]` is the
AudioStore of ingest `g`, with its lock and cursors; `file`, `synced` and `index` are durable. The faults
are counted in `budget`. Abstractions: acks of several frames may be sent as one, as `_flush_acks`
does; the select and the truncation of `load` are one step, as nothing else can reach that store
yet; `EndMark` joins the status update and the hub's pop.

**SessionJobs.** The transcript is a set of rows, and a row is the part of the recording it transcribes
plus the run that wrote it. The note is the set of rows it was written from, so that "the note is about this
transcript" is an equation. Each run, request, `hub.end` call, the backfill and the purge is a record
with its own step. Abstractions: parts are the segments the guards keep; the reads of one database
session are one step; the publication's state is not looked at; a producer does not come back after a
restart; the session is not local-only. SQLAlchemy's default synchronisation of an ORM update
with the loaded row is modelled, because `_reopen` returns that row's status.

**Actions.** One session's proposals in order of position. The audit log is kept as the content and the
number of the events that let something run (`approved`, `grants`) and the number of `exec_started`
events. `landed` is the target, per proposal, since comments and reminder rows carry the proposal's id.
`run` is the execute_approved task that holds the session's lock, `queue` the ones that wait for it.
`Approve` takes a whole request, with the content its owner saw of each item, and starts one
task for it.

### After the note
**WorkItems, Dispatch.** An item's criteria stand for its other free texts, and a prompt is the content
it is rendered from, so equal prompts have equal hashes. A pass reads lines and items, asks the LLM, and applies
the answer under the rows' locks in a later transaction. A run is its position in `runs`; its Job and Secret
are named after it, and a call to Kubernetes may succeed, be refused, or succeed with a lost answer. A
branch holds the runs that pushed to it. What a tick of the loop is about to start is a set of runs, of which it
takes the oldest, since runs are numbered as they are queued.

**Publication.** A text is a number and a commit is its text. `op` is the holder of the session's lock
with what it has read; GitHub's users push, merge and close between two of its steps. The texts that carry
the restriction's tag are `secret`.

### Assistants
**Voice.** The microphone's stream is a sequence of stretches; stretch *k* is line *k* of the transcript. It
is quiet, talk, a wake phrase, or Jarvis's own voice. Filing counts, whichever queue a request goes to.

**Intake, Copilot.** A proposal is what it says and the date it names; what it cites exists or not. The
loop's step and what it holds across an await are in `cycle`. The client keeps the highest version. A batch of
proposals, and a delta's changes, are gone through by recursive functions, one entry at a time, as the loops
of `intake.py` and `copilot/state.py` do. The ids an answer dismisses, removes or cites are sets.

### Clients
**CaptureApi.** A voice note's file is named after minute and device, and two captures of one minute share a name.
The dictionaries and the files they are saved to are separate variables; a failed save leaves them apart.

**Daemon.** Stream mode with one channel. The clock counts frames and audio comes no faster than time
passes. `sock` is the process that listens, a stale socket, or none.

**Triggers, HoldToAsk.** Of a press's length only the grade is kept (below the hold threshold, a tap, longer).
Each press and release runs in a task, as in the tests; requests to the daemon are handled and answered
in separate steps. `told` is what the server has been told of deliveries and `reports` what is on its way.

**Viewing.** Writers store first and publish later. The snapshot's queries are separate steps, and a
subscription's queue drops when it is full. Of a line its presence and its speaker's revision are kept.

### Speech
**Transcript.** Every pattern of speech over the bounded stream is explored. The blocks under the
pipeline's lock are single steps; what an await inside them may break off half way is kept.

**Tiers, Speakers.** What a request has left to try is a set of places in the list of tiers, and it takes the
least. Answers of servers are chosen when they arrive. Which voiceprint matches
which voice, and what the diarizer finds, are choices; every action is at most one transaction.

### Platform
**Accounts.** A secret is the slot it was made in. Everyone has the same slug, the worst case for folder names.

**Recordings.** Recordings, requests, sessions and paths are small sets; the decoded file and the stored
frames are separate, so that a restart can fall between them.

**Backups.** One session is followed; its rows hold a number of chunks, its recording is a length, a copy is a
length or other bytes. A moment is the stamp of the backup made at it.

## 3. Runs

TLC explores every interleaving within the bounds. What users, the network and failures may do is
bounded by the constants named `...Scenarios`: sets of combinations, each saying how often each event may
happen. A behaviour stays within one of them, and one run explores them all. They are in the MC
modules. The bounds are chosen so that each fault can strike at each step of each actor, and again
while its recovery is under way where that matters.

| Run | Bounds |
|---|---|
| `outbox` | 2 channels, 5 captures, 2 crashes, compaction at 2 frames |
| `ingest` | 3 connections, 2 ingests, 2 frames, window 1; 2 drops, a crash and a failed commit, or a drop and a client stop, or an ambiguous commit, a power loss and a REST end |
| `ingest_live` | 2 connections, 2 frames, window 0 (so that backpressure bites), a drop, a crash |
| `jobs` | 2 parts, 2 clients, 2 enders, 7 runs; requests with failures, a delete and a purge; an outage with backfill, crash, shutdown and a lost recording; a rerun with crash and shutdown; two ends; an outage with a regeneration |
| `jobs_live` | 1 part; outage, crash, failed rerun, a request |
| `actions` | a comment and a reminder, 2 payloads, 2 editors; two edits, failures and failed transactions, deaths, batches |
| `work` | 2 items, 2 titles, 1 repository, 3 lines, stored in any order, of which a pass takes 2, 2 runs of which 1 at a time; ideas, review, races, slots, failures, lost answers, closing, two merged pull requests |
| `assistant` | voice: 4 stretches, 2 asks, 2 windows; copilot: 2 segments, 2 notes, 2 producers, 2 open proposals |
| `capture` | API: 2 captures with one name, 2 notifications, 2 tasks of 2 iterations; daemon: 2 processes, 3 sessions, 3 frames of time, an outbox of 1; keys: every mode; ask: 2 holds, or 3 where a release may overtake its press; 4 states of the sink |
| `speech` | 7 microphone frames, or 5 and 3 on two channels; 2 tiers, 2 askers, 3 events; 3 lines on 2 channels; page: 2 lines, a queue of 1, 2 overlapping reads |
| `platform` | accounts: 2 people, 2 sign-ins, 2 calls, 3 keys; recordings: 1 recording, 2 requests, 2 paths, 1 slot, grace 2; backups: 3 moments, 1 chunk; note: six scenarios |
| `platform_upload` | as `platform`; refutes `AckMeansStored` (section 4) |

Two parts are enough to have a transcript that is partly replaced. Three connections are needed: one
superseded while it stores, one accepted and abandoned, and one that ends the session. Two proposals are
enough for a batch whose first item fails, two runs with one slot for a queue that has to wait, seven frames
for a segment that is cut at its greatest length and followed by another, two overlapping reads for a snapshot
that overtakes another. Symmetry is used for channels, connections, ingests, parts, clients and enders in
three safety runs only. Deadlock is not checked: each bounded system stops when its work is done.

### Properties

| Run | Property | Says |
|---|---|---|
| `outbox` | `OutboxSound` | whatever write the process dies after, reopening finds every unacked frame with its payload (`UnackedRecoverable`); what `unacked` yields is what was captured and not acked (`UnackedServed`); seqs continue; the counter of unacked bytes is exact |
| | `ImplementsQueue` | `Outbox` implements `FrameQueue` |
| `ingest` | `StoreSound` | acks are truthful (`AckedStored`); file and index agree (`FileMatchesIndex`) |
| | `EndedMeansStored` | a client that was told `ended` has all its frames stored |
| | `FedOnce` | no frame reaches the pipeline twice |
| | `PathImplements` | `Ingest` implements `AudioLog` (`ImplementsLog`), and its client keeps to `FrameQueue` (`KeepsQueue`) |
| `ingest_live` | `RecordedStored`, `EndFinalizes` | everything recorded is stored; every end reaches finalizing |
| `jobs` | `NeverSecondJob` | no two jobs of a session at once |
| | `TranscriptSound` | the note is about the transcript (`NoteMatchesTranscript`), which is not a mixture (`TranscriptOnce`) |
| | `NoSpeechLostAlone` | a rerun that is alone never removes transcribed speech |
| `jobs_live` | `FinalizingEnds`, `PendingServed` | finalizing ends; kept audio is transcribed |
| `actions` | `ExecutedAsApproved`, `EffectOnce`, `SucceededLanded` | what is done is what was approved, once; success is real |
| | `ActionsSettle` | executing, sending and approved are settled |
| `work` | `ItemsSound` | the pass never overwrites the owner's words (`OwnerWins`), and passes over no line that was stored in time (`LinesConsidered`) |
| | `RunsSound` | only approved prompts run (`RunsAsApproved`), and no more at once than allowed (`JobsWithinLimit`) |
| | `RunsForward`, `RunEnds` | pushed work stays and outcomes are final; every run ends |
| `assistant` | `FiledOnceLive`, `HeardOut` | what was said to Jarvis is filed once, and heard out in the end |
| | `CopilotSound` | references are unique, few proposals are open, a suggestion is shown once |
| | `AssistantForward` | replies go to the last ask, played stays played, a title is kept |
| | `ClientCatchesUp` | a client shows the latest state in the end |
| `capture` | `ClientsSound` | a notification is handed out once, a task has one runner, a deleted task stays away; one daemon answers, nothing is recorded after the end, the outbox is bounded; a key's action ends with it; a reply is spoken into headphones and stops once they are gone; how it was played is reported in order and settled once |
| | `ClientsForward` | the recorded timeline goes forward; a key acts only when pressed alone |
| | `ClientsEnd` | tasks end, `stop` is answered, the pill clears, the ask is released |
| `speech` | `SpeechSound` | every utterance is cut and stored once, the microphone's copy of what both channels heard is stored only when it could be held no longer, an absent server is no fault |
| | `VoicesSound` | lines name voices that exist, with distinct numbers; final labels replace provisional ones |
| | `PageSound` | the page shows only what is stored, and all of it once the session has finished |
| | `SpeechForward`, `SpeechLive` | neither progress nor the page goes back; the transcript ends, tiers recover, the page catches up |
| `platform` | `OnceOnly` | a code makes one device, a ticket opens one connection, a path has one key, a person has one account and it one folder |
| | `UploadOnceWhole` | a repeated upload makes one session, fed whole |
| | `BackupsSound` | the recorded backup is whole, and so is what is restored from it |
| | `NoteSound` | an open pull request shows the note, a restricted note is never sent, an open one is known |
| | `PlatformForward` | only its logout or its expiry signs a browser out, and a logged-out login or a revoked device stays so (`LoginsHonest`); what is merged is what was pushed (`MergedAsPushed`) |
| | `PlatformLive` | streams are followed, missing backups and outside merges noticed, the trash emptied |

The merged properties are conjunctions of named parts, each commented where it is defined. One invariant of
each component has its type invariant as a conjunct, except in `Actions`, whose `TypeOK` no run names: it is the
theorem `TypeCorrect`.

### Fairness
Weak fairness is assumed of what an asyncio task, a thread or the supervisor does: a coroutine that can go
on goes on, timers fire, a dead server is started again, the client reconnects, loops come round, requests end
by their timeout. Strong fairness is used twice, for requests in `SessionJobs` and for `Refresh` in
`Publication`: both wait for a FIFO lock that others take meanwhile. A Job ends by its deadline (`Dispatch`).
Nothing is assumed of users, of the network or of crashes, and no fairness is given to the steps that fail.
In `Actions` the fairness is of the worker and the loop as a whole: they take some step, not a chosen one.

### Conditions in the properties
A property that the code keeps only while certain events have not happened says so itself, with
`Never(events)` or the like; the scenarios go beyond the condition, so that it is TLC that has shown where the
boundary is.

- `AckedStored`: no power loss, no REST end, no client stop. `FileMatchesIndex`: no ambiguous
  commit, no REST end, no client stop. A stop matters because an `end` sent before it may arrive while the
  resumed client sends again. `EndedMeansStored`: no failed commit and none of the ends above.
- `NeverSecondJob`, `NoteMatchesTranscript`, `TranscriptOnce`: `Sheltered`, that is, one end, one process,
  a producer that stays connected, no outage and no regeneration. `NoSpeechLostAlone`: reruns that are
  alone, including outages, crashes and lost recordings. Its condition (`Alone`) was narrowed when the invariant it needs was
  checked: a regeneration or a second end while the first one still drains lets the backfill start a rerun next to
  the drain, and either may then delete the other's rows. What is left is one end, no regeneration, and the
  sheltered regime, or the backfill alone, or one `process` request and no backfill.
- `ApprovedSettles`: no crash and no failing transaction.
- `JobsWithinLimit`: no refused call, lost answer or crash. `OpenPrKnown`: no lost answer or crash.
  `OpenShowsNote`, `TrashEmptied`: no crash.
- `FiledOnceLive`: the session has not ended and there are no more asks than windows. `RepliesToLast`: no
  ask held to its limit. `ClientCatchesUp`: no failure or crash.
- `HandedOnce`, `DeletedStaysAway`: every save succeeded. `TaskEnds`: no crash.
- `DaemonSound`: no two starts at once. `AskReleased`, `PillClears`, and the silence while listening in
  `SpeechGuarded`: no release that overtakes its press, and for the first no timeout. `ReportsSettleOnce`: with such
  a release a delivery may be told skipped twice. The property first said that it never is, and two holds do not show otherwise; the
  invariant its proof needs did not hold, and three holds gave the behaviour (`ask.py:101`, `ask.py:280`): a press that
  is let go while it waits for the delivery to stop lets the next press find, and report, the same delivery again.
- `LinesConsidered`: only lines stored before the pass that moved the cursor past them read the transcript. For the
  others see `FlushLeavesNothing` in section 4.
- `ProvisionalReplaced`: no pass broken off. `SpeakersKnown`: nor a database error, a silent channel or a
  forgotten profile. `RowsGuarded`: the database answers.

`PathImplements`, `FedOnce` and the safety properties of `Outbox` and `Actions` have no condition.

## 4. Findings

Each is a place where TLC refutes what a comment, a docstring, a test or a document of the repository says;
`PROJECT.json` quotes the sentence. `AckMeansStored` has a run of its own, `platform_upload`. The other
properties in the table are defined in their modules beside the ones that hold, and adding one to the cfg of
the run in the second column makes TLC print the behaviour.

| Property | Run | What happens |
|---|---|---|
| `AckedDurable` | `ingest` | acks precede the fsync (`api/stream.py:174`) |
| `EndedStored` | `ingest` | a handler that died closes with 1000, which the client takes for the end (`client/transport.py:268`) |
| `NoSpeechLost` | `jobs` | a request and the backfill both rerun a session and delete each other's rows (`orchestrator.py:516`) |
| `NoteOfTranscript` | `jobs` | a regeneration during the drain leaves a note of half the transcript (`api/publishing.py:88`) |
| `ApprovedRun` | `actions` | an approval the process died after is never run (`actions/service.py:399`) |
| `SamePrOnce` | `work` | an item reopened after two merged pull requests is closed by the same ones again and again (`workitems/prwatch.py:92`) |
| `FlushLeavesNothing` | `work` | a line stored late, behind the cursor, is not sent by the last pass (`workitems/ideas.py:126`) |
| `SkipHolds` | `platform` | automatic publication reads the row before the lock and publishes a note skipped meanwhile (`publish/service.py:490`) |
| `TrashAlwaysEmptied` | `platform` | a row left in `publishing` by a death keeps its session in the trash for good (`publish/service.py:199`) |
| `PromptSent` | `capture` | a first run that fails loses the task's prompt (`capture_api.py:811`) |
| `AckMeansStored` | `platform_upload` | a restart removes the decoded file of an acknowledged upload (`ingest/upload.py:106`) |
| `NeverRowsWithoutAudio` | `platform` | a restore that fails between rows and files leaves the rows alone (`backup.py:551`) |
| `OneDaemon` | `capture` | two starts that meet both record (`client/daemon.py:160`) |
| `TailComplete` | `capture` | events relayed while a subscriber gets its backlog are lost (`client/daemon.py:396`) |
| `GuardUntilSettled` | `speech` | the end of a stream releases held microphone segments early (`ingest/pipeline.py:264`) |
| `LinesStayKnown` | `speech` | a pass broken off leaves lines with deleted speakers (`diarize/service.py:120`), and so does a live voice without a row (`diarize/livelabel.py:126`) |
| `OnePersonIsMe` | `speech` | two voices of one session are the owner (`diarize/service.py:211`) |
| `DraftsReplaced` | `speech` | a draft relayed after its final line stays (`web/src/reducer.ts:124`) |
| `AlwaysReported` | `capture` | a press during a delivery's first awaits cancels it without a report (`jarvis_desktop/ask.py:108`) |

The models also showed the following while they were written; most are the reasons for conditions above, and
dropping the condition prints the behaviour.

*Audio and jobs.* A producer whose session row was read before an end re-creates the session's ingest after it
(`api/stream.py:73`); if an append was in progress, `load` cuts its bytes off the file and the row is
committed without them. A commit that took effect and raised leaves a row without bytes
(`ingest/store.py:122`), and `load` refuses the store from then on. A superseded handler may feed the
pipeline after its successor (`api/stream.py:212`). A second `hub.end` clears the first one's drain mark
(`ingest/hub.py:140`). A crash during a rerun leaves two transcripts, both final
(`ingest/retranscribe.py:118`). A recording purged between the look at it and its opening
(`ingest/retranscribe.py:93`) leaves the session in finalizing. `_reopen` returns the status after its own update
(`api/publishing.py:100`). DELETE commits a status that has become stale (`api/sessions.py:615`).

*Actions, work, publication.* The reminder loop and the execution task overwrite each other's part of the
action's result (`actions/reminders.py:184`). A Job that was created while its Secret's owner could not be set goes on
although its run reads failed, and so does one whose creation's answer was lost (409 on the next try). Lines beyond
`ideas_max_lines` are dropped, the oldest first. Skipping a note that failed after its pull request was opened
leaves that pull request open. A death between the overwrite and the push of an edit leaves the pull request stale.

*Assistants.* A voice loop cancelled between filing and storing its cursor files again when it is flushed
(`voice/loop.py:107`). Windows of held asks are kept in memory only, and the last 32. An ask let go but unanswered when
the session ends is neither answered nor heard. Reviewed proposals count as open (`actions/state.py:247`:
nothing calls `close`). A snapshot row with an older version may be inserted last.

*Clients.* Voice notes of one minute and device share their file. Tasks saved as running stay so after a restart. The
daemon's outbox passes its limit by one frame per resume, and only the newest unfinished session is resumed. A
release that overtakes its press leaves the ask open. A reply that arrives before the answer to `ask_end` is
ignored. A deleted session stays shown while its socket is open. `capture_cli`'s viewer fetches before it
subscribes (`capture_cli.py:334`).

*Speech and platform.* A database error while held segments are released stores one again and ends the releaser;
one in `_process` loses its segment. Half a backup counts as its day's newest when old ones are pruned. A stream whose start fails after its
commit leaves a live row with each poll. `claim_owner` fails on an account that still has rows, and overwrites a
subject that is linked.

## 5. Proofs

TLAPS checks the proofs for every size of instance: any channels, connections, sessions, people, items, runs
or stretches, any limits and any set of scenarios. The constants' assumptions are named where the constants
are declared. They say that bounds are natural numbers (`VoiceBounds`, `DispatchBounds`, `WorkItemsBounds` and the like), that a
few markers are distinct from what they mark (`LockNamed`, `DistinctIdentities`, `NoFlowZero`, `ProducersNamed`, `DaemonConfigured`: a row's
empty field is no identifier), that a recording's id is no stream's path (`RecordingNames`), that an answer of the LLM has the shape
its parser lets through (`AnswersShaped`), and how settings relate: a conversation that is cut keeps fewer messages than the window it is cut
to (`CaptureBounds`; 10 and 20 in the code), and a segment of the greatest length that no silence closed holds the speech a
segment has to have (`SegmenterConfig`; of 500 frames less 17, each 24 hold one, and 14 are asked for).

A theorem that names a property of section 3 states it as it is, with the condition it carries. Each follows
from an inductive invariant, in a proof that goes action by action. The invariants were checked by TLC first; several
were refuted and strengthened, and one refutation became a condition (`NoSpeechLostAlone`, above).

**Outbox.** The properties are not inductive: recovery reads what earlier writes left, so one needs to
know how file, index, cursors and `pc` fit together at every step. `OutboxInv` says it per channel
(index lines are consecutive seqs at consecutive offsets within the payload file, the ack covers what
is missing in front, at most the last line is torn, and while `pc` is inside an operation the files are
one write apart). From it: `CrashSafety`, `NothingUnackedLost`, `SeqsContinue`,
`UnackedBytesCorrect`, together `OutboxIsSound`. `OutboxImplementsQueue` maps the files to the queue of `FrameQueue`: what the disk would give back now, less what
`acked.json` covers (`Recoverable`). By `RecoverableIs` that is, in every state, what has been recorded above `acked.json`, so a step adds
a frame at the end (the index line's write), takes frames from the front (the replacement of `acked.json`), or
changes nothing, as compaction, death, recovery and the raise of the acks in memory do.

**Ingest.** `LogInv` says where a claim "stored up to here" may be: in a store's cursor, in a message
down, in the client's `acked`. Each is the seq of an indexed row or nothing, every frame in flight was recorded,
and a handler that commits a frame has all frames before it indexed, whichever store did that. The last
part is what makes two stores of one session safe. With it every step of `Ingest` maps to a step
of `AudioLog` or to a stutter (`IngestImplementsLog`), and the client's part of it to a step of `FrameQueue` (`ClientKeepsQueue`; both: `PathImplementsBoth`):
the same queue that the outbox implements, so `recorded` and `acked` may stand for its files.

On top of it, in `StoreProofs`:
- `PipelineFedOnce`: a frame between its commit and the pipeline is indexed, not fed, and carried by one handler (`Carried`).
- `AudioStoreSound` needs three more things, each only as long as the faults it does not stand are absent (`StoreInv`). A
  row's offset is its seq and a store's lock is held by the handler that commits its next frame
  (`AppendInv`). A file ends with the hub's cursor or the frame being committed (`FilesInv`). And a handler whose ingest is
  no longer the hub's is there only once everything is stored (`StaleInv`), which is why its late writes do no
  harm. That last one rests on the order of the queues (`QueueInv`): no message reaches a
  handler before the frames it comes after.
- `EndedIsStored`: a clean close is on its way only when everything is indexed, or where the client will retry
  before it sees the close (`CloseInv`).

**Actions.** `ActionsInv` has a part per row (what its state says of its target, its grants and its
reminder), one for the task that holds the lock (its row is executing, it read the approved content, it has
found the target empty if it is about to post), and one for the loop (its reminder is sending and not
yet pushed). The properties alone are not inductive: `EffectOnce` needs what the task found, and
`PushedOnce` needs that a reminder that was never inserted was never pushed. From it:
`OnlyApprovedContent`, `NoUnapprovedRun`, `OneGrantOneStart`, `NoRepeatedEffect`, `NoRepeatedPush`,
`SuccessIsReal`.

**SessionJobs.** Each regime of the conditions has its invariant. `Single` (one end, no regeneration): the live
pipeline works alone, since `LiveAlone` says that nothing may register a run before it has drained. `Sheltered`: the session is streaming, or
draining, or ended with at most one request past the lock or one run (`SoleInv`), from which `OneJobAtATime`. In
the regimes of `Alone`, a rerun's rows are the old ones and its own, and it has one for every part it has been through
(`RowInv`), from which `NothingTranscribedLost`. `OneTranscriptItsNote` also needs what a run has in hand
between two steps: what the LLM saw is still the transcript (`NoteInv`).

**WorkItems, Dispatch.** `OwnerAlwaysWins` needs what a pass has sent (`PassSends`: the window of lines it will
account for), which lines were stored too late for it, and that a frozen prompt was approved. `RunsAsApprovedAlways` follows a prompt from the approval
through request, row and loop to the Job (`CarryApproved`, `Started`). Its count of Jobs needs `SlotsInv`: the runs that run, those the tick is about to
start and the one being queued are together no more than allowed, and without failures a Job that works is that of one of
them. `NothingUndone` needs that a run before its push has pushed nothing and that a reported pull request exists
(`PushedReported`).

**Platform.** The four components are proved one by one, and then `MCPlatform`'s composition.
- `EverythingOnce` (`AccountInv`): no two accounts share a person or a folder (`UsersApart`), every credential points at
  an account that is there, also across a claim (`CredsPoint`), and a call that makes a device has used its code up before
  (`CodesOnce`, `DevicesLast`).
- `UploadedOnceWhole` (`RecordingInv`): a recording has one session and every answer names it, one task feeds it and has
  stored what it fed (`FeedsSound`), and a session that nothing cut short is whole or still being fed (`WholeOrFed`).
- `BackupsAreSound` (`BackupInv`): nothing in the backups is younger than the job's stamp, a manifest is at least as long as the
  rows of its dump (`PairsAgree`), and what a restore has done agrees with what it has read (`RestoreSound`).
- `NoteStaysSound`: what the lock's holder has read between two calls is still so, up to what GitHub's users
  may do meanwhile (`NoteInv`: `OpShape`, `OpText`, `PrThere`, `OpenText`).
- `NothingComesBack`, with `LoginsStayHonest` (a step counts what it is, and only the steps of a logout and of time
  sign out) and `MergesAsPushed`: the step properties, from the same invariants.

**Voice.** That no word is filed twice is no invariant by itself, since a word passes from the stream through an ask's
window or the loop's hearing to a filing. `OnceInv` follows it: what was filed is behind the loop's cursor, in a remembered window, or what
the loop is about to store its cursor behind (`FiledPast`); what a task has taken is in a window and nobody else's
(`TakenPast`); what the loop has heard is ahead of its cursor and outside every window (`HeardApart`); and the ask
that is held begins after all that (`HeldLater`). From it: `WordsFiledOnce`, and for the run's specification `SessionFilesOnce`. `AssistantsGoForward` rests on two
further parts: one task answers, the last ask's (`OneAnswers`), and the writes that wait say `started` before `done` (`PlaysSound`).

**Intake, Copilot.** `CopilotKeeps`. That refs are unique and few proposals wait is a statement about rows, but they are admitted by
a memory that may be gone after a restart. `IntakeInv` relates the two: the memory's refs are below the next one and every
row is in it, as open if the row is (`MemoryKept`); whoever is past the lock has read rows that still cover the table, and what it is about to
store has refs of no row (`HolderKnows`, `LockHeld`). What a batch does is shown entry by entry along the function that goes through
it, so the statement about a batch of any length is an induction over numbers. `ShownKnown`: what is stored as shown is in the
state's set of shown notes, but for the notes of the cycle that is about to put them there.

**Speech.** The four components one by one, then `MCSpeech`'s composition.
- `AudioIsSound`, the Segmenter's half: of an utterance less is left out than `MinSpeech`. `Segmented` says of any stream what has been cut
  from it, what is open and what has been carried over the last cut (`Carried`: it lies in the segment before). What is left out lies together
  in a stretch with too little speech (`LittleLost`), and while the channel is heard a silence closed it (`LostClosed`), so a later segment
  cannot belong to the same utterance. That a segment cut at its greatest length has enough speech is `SegmenterConfig`.
- Its other half: a segment is in its channel's queue, held, or stored (`QueueFits`, `HeldOnce`, `StoredOnce`), and what has left the queue starts
  before what is undecided (`Left`). An echo that was settled lies where the system channel is transcribed, and nothing of that channel that
  comes later overlaps it (`EchoesApart`).
- `FaultNotAway` of the tiers needs only that a request has a tier left as long as it is on (`AskersHaveTiers`).
- `SessionVoicesSound` (`SpeakersInv`): numbers of voices differ; lines, turns and tracker point at rows of their own channel (`LinesAre`,
  `TurnsKnown`, `TrackerKnows`). While nothing was cut off, failed or forgotten, every voice of the tracker has a row except the one being
  committed (`VoicesHeard`), and a line is without one only between the pass that replaced its voices and the alignment (`LinesKnown`).
- `SessionPageSound` (`ViewInv`): rows only grow, so everything that has been read from them, is on the bus or waits in a queue is behind them
  (`EventsTell`, `ReadsTell`), and an answer that found the session over has read the whole of it, since its rows stay.
- `AudioGoesForward`: the first undecided frame never goes back, and an answer that overtakes a newer one is merged, not shown.

**Clients.** The four one by one, then `MCCapture`'s composition (`ClientsAreSound`, `ClientsGoForward`).
- The keys (`KeysInv`): what has been begun is what the two keys remember, a key held into an action is down and was not chorded
  (`KeysBegun`), and while both are down nothing was pressed alone (`KeysAlone`).
- The daemon (`DaemonInv`): as long as no two starts met, the socket is that of the process that serves (`Reached`), and what its
  recorder counts is not before what the session has (`Ahead`), because it counts from the session's start and no faster than time
  passes (`Timed`). That nothing comes after the end needs to know who is about to note it (`Noted`). The outbox's limit is an argument about a count: the
  sessions' excess and the processes that can still add to it are together no more than the starts (`Bounded`).
- The capture API (`CapInv`): file and memory agree while no save failed (`Kept`), what was handed out is marked or gone (`NotifInv`), and a
  thread's task waits for it or was deleted (`Owned`), so a reply is refused while a thread runs.
- The hold to ask (`HoldInv`): asks are numbered, and what is open, ended and being delivered are different ones (`Numbered`); the sink was still
  headphones when the guard last looked, or the one late look is used up (`Guarded`); a delivery that nobody holds was cancelled, and
  without an overtaking release the key that cancelled it waits for it (`Stops`); what is being delivered is not settled (`Settled`).

**Only model-checked.**
- Liveness, which is out of the prover's reach, as is `ENABLED`: `RecordedStored`, `EndFinalizes`, `FinalizingEnds`, `PendingServed`,
  `ActionsSettle`, `RunEnds`, `HeardOut`, `ClientCatchesUp`, `ClientsEnd`, `SpeechLive` and `PlatformLive`.
- `AckMeansStored`, which is refuted, and the other properties of section 4.
- That the parts an MC module places side by side work together: the models say nothing about it.

All other properties of section 3 are theorems.

## 6. Not modelled

- Algorithms on signals and texts: voice detection, speech recognition, voiceprints, resampling, prompts,
  rendering; wire and file formats; cryptography. Their outcomes are choices or model values.
- Metrics, health, reports and evaluation tools: they read and change nothing the rest depends on.
- The clients of the LLM, Gotify, the vault's index and the homelab: calls whose answers the models choose.
- The Swift and Kotlin ports of the capture client. `Outbox` and `Ingest` are translated from the Python
  client; a port that differs would need modules of its own.
- The web pages other than the live page, and the LiveKit agent: requests and rendering without lasting
  state.
- Of modelled parts: the vault's and the Pi session's executors, markers and drafts on the producer's socket, the
  daemon's local mode, token refreshes and notifications of runs. A frame has one length, a message is
  lost only together with its connection, and GitHub shows what it has accepted.
- Interactions between the parts that one MC module only places side by side.

## 7. What could come next

1. The link between `Transcript` and `SessionJobs`, whose parts are the segments `Transcript` stores, by an abstract module as
   `FrameQueue` is between `Outbox` and `Ingest`.
2. A model of the stream's local mode and of what the Swift and Kotlin clients do differently.
