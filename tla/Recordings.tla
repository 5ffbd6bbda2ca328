----------------------------- MODULE Recordings -----------------------------
(* The two other ways a recording becomes a session.  A file is uploaded    *)
(* (upload_recording in server/src/jarvis_live/api/sessions.py and          *)
(* ingest/upload.py): decoded, given a row, acknowledged, and then fed to   *)
(* the store like a live producer's audio.  A stream is pushed into         *)
(* MediaMTX (streams/): the ingest polls which paths have a publisher and   *)
(* keeps one session per path.                                              *)
EXTENDS Naturals, FiniteSets

CONSTANTS
  Recs,        \* recordings an uploader has, each with its client_id
  Reqs,        \* upload requests
  Total,       \* frames of a recording
  Paths,       \* stream paths
  MaxStreams,  \* streams_max
  Grace,       \* polls that find a path offline before its stream is over
  MaxSessions, \* bound: sessions
  RecordingScenarios

RecordingEvents == {"upload", "lost", "bad", "broken", "restart", "owner end", "publish", "drop", "revoke"}
ASSUME RecordingAssumption ==
  /\ {Total, MaxStreams, Grace, MaxSessions} \subseteq Nat
  /\ \A s \in RecordingScenarios : s \in [RecordingEvents -> Nat]
\* An uploader's client_id is not a stream's path: they are columns of their own.
ASSUME RecordingNames == Recs \cap Paths = {}

VARIABLES
  kept,     \* recordings the uploader still has
  answers,  \* the sessions a 202 named, per recording
  reqs,     \* the upload requests
  feeds,    \* the task a request started
  rows,     \* sessions: status, what it holds, whether something cut it short
  onAir,    \* per path: nobody publishes, a stream without audio, or with
  keys,     \* paths with an active ingest key
  active,   \* StreamIngest.active: per path its session, or 0
  missed,   \* polls since a path of active was last seen
  tick,     \* the poll that runs: what it listed and has still to look at
  ending,   \* sessions whose _finish runs
  happened  \* the events so far, bounded by RecordingScenarios

uploadVars == <<kept, answers, reqs, feeds>>
streamVars == <<onAir, keys, active, missed, tick, ending>>
recordingVars == <<uploadVars, rows, streamVars, happened>>

Sessions == 1..MaxSessions
NoRow == [status |-> "none", rec |-> "none", stored |-> 0, uploading |-> FALSE, cut |-> FALSE]
NoReq == [pc |-> "idle", rec |-> "none"]
NoFeed == [pc |-> "none", sid |-> 0, at |-> 0]
NoTick == [on |-> FALSE, listed |-> [p \in Paths |-> "off"], left |-> {}]
Live == {s \in Sessions : rows[s].status = "live"}
Unused == {s \in Sessions : rows[s].status = "none" /\ \A t \in Sessions : t < s => rows[t].status # "none"}
RowsOf(rec) == {s \in Sessions : rows[s].status # "none" /\ rows[s].rec = rec}

CanHappen(e) ==
  \E most \in RecordingScenarios : happened[e] < most[e] /\ \A f \in RecordingEvents : happened[f] <= most[f]
Occurs(e) == CanHappen(e) /\ happened' = [happened EXCEPT ![e] = @ + 1]

----------------------------------------------------------------------------
(* upload_recording.                                                        *)
Answer(r, rec, s) ==
  /\ answers' = [answers EXCEPT ![rec] = @ \cup {s}]
  /\ reqs' = [reqs EXCEPT ![r] = NoReq]

\* The response reaches the uploader, which then lets go of its recording, or is lost.
Answered(rec) ==
  \/ kept' = kept \ {rec} /\ UNCHANGED happened
  \/ Occurs("lost") /\ UNCHANGED kept

\* The uploader sends a recording it has not seen acknowledged, again if need be.
UploadRecording(r, rec) ==
  /\ reqs[r].pc = "idle" /\ feeds[r].pc = "none" /\ rec \in kept /\ Occurs("upload")
  /\ IF RowsOf(rec) # {}
     THEN Answer(r, rec, CHOOSE s \in RowsOf(rec) : TRUE) /\ kept' = kept \ {rec}
     ELSE reqs' = [reqs EXCEPT ![r] = [pc |-> "decode", rec |-> rec]] /\ UNCHANGED <<answers, kept>>
  /\ UNCHANGED <<feeds, rows, streamVars>>

\* Too large, empty, no audio in it, or the client went away: nothing is left behind.
UploadRefused(r) ==
  /\ reqs[r].pc = "decode" /\ Occurs("bad")
  /\ reqs' = [reqs EXCEPT ![r] = NoReq]
  /\ UNCHANGED <<kept, answers, feeds, rows, streamVars>>

DecodeToPcm(r) ==
  /\ reqs[r].pc = "decode"
  /\ reqs' = [reqs EXCEPT ![r].pc = "insert"]
  /\ UNCHANGED <<kept, answers, feeds, rows, streamVars, happened>>

Started(r, s) == feeds' = [feeds EXCEPT ![r] = [pc |-> "get", sid |-> s, at |-> 0]]
NewRow(rec) == [NoRow EXCEPT !.status = "live", !.rec = rec]

\* The unique index refuses the second of two requests that raced past the check: its audio is
\* dropped and the first one's session is the answer.
InsertRow(r) ==
  /\ reqs[r].pc = "insert"
  /\ LET rec == reqs[r].rec
     IN  /\ Answered(rec)
         /\ IF RowsOf(rec) # {}
            THEN Answer(r, rec, CHOOSE s \in RowsOf(rec) : TRUE) /\ UNCHANGED <<rows, feeds>>
            ELSE \E s \in Unused :
                   /\ rows' = [rows EXCEPT ![s] = NewRow(rec)]
                   /\ Started(r, s) /\ Answer(r, rec, s)
  /\ UNCHANGED streamVars

----------------------------------------------------------------------------
(* Uploads._ingest.                                                         *)
FeedGet(r) ==
  /\ feeds[r].pc = "get"
  /\ rows' = [rows EXCEPT ![feeds[r].sid].uploading = TRUE]
  /\ feeds' = [feeds EXCEPT ![r].pc = "feed"]
  /\ UNCHANGED <<kept, answers, reqs, streamVars, happened>>

\* One frame, or the end of the file; a store that was closed by an end refuses it.
FeedFrame(r) ==
  LET s == feeds[r].sid
  IN  /\ feeds[r].pc = "feed"
      /\ IF s \in Live /\ feeds[r].at < Total
         THEN /\ rows' = [rows EXCEPT ![s].stored = @ + 1]
              /\ feeds' = [feeds EXCEPT ![r].at = @ + 1]
         ELSE /\ rows' = [rows EXCEPT ![s].uploading = FALSE]
              /\ feeds' = [feeds EXCEPT ![r].pc = "end"]
      /\ UNCHANGED <<kept, answers, reqs, streamVars, happened>>

FeedFails(r) ==
  /\ feeds[r].pc = "feed" /\ Occurs("broken")
  /\ rows' = [rows EXCEPT ![feeds[r].sid].uploading = FALSE, ![feeds[r].sid].cut = TRUE]
  /\ feeds' = [feeds EXCEPT ![r].pc = "end"]
  /\ UNCHANGED <<kept, answers, reqs, streamVars>>

FeedEnd(r) ==
  /\ feeds[r].pc = "end"
  /\ rows' = [rows EXCEPT ![feeds[r].sid].status = "ended"]
  /\ feeds' = [feeds EXCEPT ![r] = NoFeed]
  /\ UNCHANGED <<kept, answers, reqs, streamVars, happened>>

\* POST .../end by the session's owner while it is fed.
OwnerEnds(s) ==
  /\ s \in Live /\ rows[s].rec \in Recs /\ Occurs("owner end")
  /\ rows' = [rows EXCEPT ![s].status = "ended", ![s].cut = TRUE]
  /\ UNCHANGED <<uploadVars, streamVars>>

Streaming(s) == s \in ending \/ \E p \in Paths : active[p] = s
Feeding(s) == \E r \in Reqs : feeds[r].sid = s /\ feeds[r].pc \in {"get", "feed"}

\* A mutant: the watchdog does not know of uploads, which wait for the transcription.
CheckOnceAll(s) ==
  /\ s \in Live /\ ~Streaming(s)
  /\ rows' = [rows EXCEPT ![s].status = "ended"]
  /\ UNCHANGED <<uploadVars, streamVars, happened>>

\* A mutant: the watchdog ends only what the hub has had audio of in this process.
CheckOnceInHub(s) ==
  /\ s \in Live /\ rows[s].stored > 0 /\ ~rows[s].uploading /\ ~Feeding(s) /\ ~Streaming(s)
  /\ rows' = [rows EXCEPT ![s].status = "ended"]
  /\ UNCHANGED <<uploadVars, streamVars, happened>>

\* The watchdog ends a live session without audio: not one that is uploading, and not one whose
\* task is about to (that takes no time beside idle_end_s).
CheckOnce(s) ==
  /\ s \in Live /\ ~rows[s].uploading /\ ~Feeding(s) /\ ~Streaming(s)
  /\ rows' = [rows EXCEPT ![s].status = "ended"]
  /\ UNCHANGED <<uploadVars, streamVars, happened>>

----------------------------------------------------------------------------
(* Streams.  A publisher is let in by the hook with the key of its path and *)
(* while there is room; a stream that already runs may always come back.    *)
HasRoom(p) == active[p] # 0 \/ Cardinality({q \in Paths : active[q] # 0}) < MaxStreams

Publish(p) ==
  /\ onAir[p] = "off" /\ p \in keys /\ HasRoom(p) /\ Occurs("publish")
  /\ \E tracks \in {"audio", "video"} : onAir' = [onAir EXCEPT ![p] = tracks]
  /\ UNCHANGED <<uploadVars, rows, keys, active, missed, tick, ending>>

Drop(p) ==
  /\ onAir[p] # "off" /\ Occurs("drop")
  /\ onAir' = [onAir EXCEPT ![p] = "off"]
  /\ UNCHANGED <<uploadVars, rows, keys, active, missed, tick, ending>>

\* A key that is revoked leaves a stream that runs alone.
RevokeKey(p) ==
  /\ p \in keys /\ Occurs("revoke")
  /\ keys' = keys \ {p}
  /\ UNCHANGED <<uploadVars, rows, onAir, active, missed, tick, ending>>

\* tick: the paths MediaMTX lists now, looked at one by one.
OnlinePaths ==
  /\ ~tick.on
  /\ tick' = [on |-> TRUE, listed |-> onAir, left |-> {p \in Paths : onAir[p] # "off"}]
  /\ UNCHANGED <<uploadVars, rows, onAir, keys, active, missed, ending, happened>>

Looked(p) == tick' = [tick EXCEPT !.left = @ \ {p}]

Seen(p) ==
  /\ p \in tick.left /\ active[p] # 0 /\ Looked(p)
  /\ missed' = [missed EXCEPT ![p] = 0]
  /\ UNCHANGED <<uploadVars, rows, onAir, keys, active, ending, happened>>

Startable(p) == active[p] = 0 /\ tick.listed[p] = "audio" /\ HasRoom(p) /\ p \in keys

NotStarted(p) ==
  /\ p \in tick.left /\ active[p] = 0 /\ ~Startable(p) /\ Looked(p)
  /\ UNCHANGED <<uploadVars, rows, onAir, keys, active, missed, ending, happened>>

\* A row with the key's profile, an outbox, a producer connection, a reader per track.
StartStream(p) ==
  /\ p \in tick.left /\ Startable(p) /\ Looked(p)
  /\ \E s \in Unused :
       /\ rows' = [rows EXCEPT ![s] = NewRow(p)]
       /\ active' = [active EXCEPT ![p] = s]
  /\ missed' = [missed EXCEPT ![p] = 0]
  /\ UNCHANGED <<uploadVars, onAir, keys, ending, happened>>

\* The row is there and the rest fails: the poll is given up, its later paths and its ends too.
StartFails(p) ==
  /\ p \in tick.left /\ Startable(p) /\ Occurs("broken")
  /\ \E s \in Unused : rows' = [rows EXCEPT ![s] = NewRow(p)]
  /\ tick' = NoTick
  /\ UNCHANGED <<uploadVars, onAir, keys, active, missed, ending>>

\* The streams that have been away for the grace are over; _finish runs on its own.
Over(p) == active[p] # 0 /\ tick.listed[p] = "off" /\ missed[p] + 1 >= Grace

EndTick ==
  /\ tick.on /\ tick.left = {}
  /\ tick' = NoTick
  /\ active' = [p \in Paths |-> IF Over(p) THEN 0 ELSE active[p]]
  /\ missed' = [p \in Paths |-> IF active[p] # 0 /\ tick.listed[p] = "off" /\ ~Over(p) THEN missed[p] + 1
                                  ELSE IF Over(p) THEN 0 ELSE missed[p]]
  /\ ending' = ending \cup {active[p] : p \in {q \in Paths : Over(q)}}
  /\ UNCHANGED <<uploadVars, rows, onAir, keys, happened>>

\* The readers stop and end is sent; confirmed, or not within the time: the outbox is then kept
\* and the watchdog ends the session.
Finish(s) ==
  /\ s \in ending
  /\ ending' = ending \ {s}
  /\ \/ rows' = [rows EXCEPT ![s].status = "ended"] /\ UNCHANGED happened
     \/ Occurs("broken") /\ UNCHANGED rows
  /\ UNCHANGED <<uploadVars, onAir, keys, active, missed, tick>>

\* The server goes down and comes back: the tasks, the requests and the active streams are gone,
\* the decoded files are removed or orphaned, the sessions stay live.
Restart ==
  /\ Occurs("restart")
  /\ reqs' = [r \in Reqs |-> NoReq] /\ feeds' = [r \in Reqs |-> NoFeed]
  /\ rows' = [s \in Sessions |-> IF Feeding(s) THEN [rows[s] EXCEPT !.uploading = FALSE, !.cut = TRUE]
                                   ELSE rows[s]]
  /\ active' = [p \in Paths |-> 0] /\ missed' = [p \in Paths |-> 0]
  /\ tick' = NoTick /\ ending' = {}
  /\ UNCHANGED <<kept, answers, onAir, keys>>

----------------------------------------------------------------------------
RecordingInit ==
  /\ kept = Recs /\ answers = [rec \in Recs |-> {}]
  /\ reqs = [r \in Reqs |-> NoReq] /\ feeds = [r \in Reqs |-> NoFeed]
  /\ rows = [s \in Sessions |-> NoRow]
  /\ onAir = [p \in Paths |-> "off"] /\ keys = Paths
  /\ active = [p \in Paths |-> 0] /\ missed = [p \in Paths |-> 0] /\ tick = NoTick /\ ending = {}
  /\ happened = [e \in RecordingEvents |-> 0]

UploadStep(r) ==
  \/ UploadRefused(r) \/ DecodeToPcm(r) \/ InsertRow(r)
  \/ FeedGet(r) \/ FeedFrame(r) \/ FeedFails(r) \/ FeedEnd(r)
TickStep == OnlinePaths \/ EndTick \/ \E p \in Paths : Seen(p) \/ NotStarted(p) \/ StartStream(p)

RecordingNext ==
  \/ \E r \in Reqs : UploadStep(r) \/ \E rec \in Recs : UploadRecording(r, rec)
  \/ TickStep
  \/ \E p \in Paths : Publish(p) \/ Drop(p) \/ RevokeKey(p) \/ StartFails(p)
  \/ \E s \in Sessions : OwnerEnds(s) \/ CheckOnce(s) \/ Finish(s)
  \/ Restart

----------------------------------------------------------------------------
\* Uploads, sessions and streams.
RecordingTypeOK ==
  /\ kept \subseteq Recs /\ answers \in [Recs -> SUBSET Sessions] /\ keys \subseteq Paths
  /\ reqs \in [Reqs -> [pc : {"idle", "decode", "insert"}, rec : Recs \cup {"none"}]]
  /\ feeds \in [Reqs -> [pc : {"none", "get", "feed", "end"}, sid : 0..MaxSessions, at : 0..Total]]
  /\ rows \in [Sessions -> [status : {"none", "live", "ended"}, rec : Recs \cup Paths \cup {"none"},
                          stored : 0..Total, uploading : BOOLEAN, cut : BOOLEAN]]
  /\ {onAir, tick.listed} \subseteq [Paths -> {"off", "audio", "video"}]
  /\ active \in [Paths -> 0..MaxSessions] /\ missed \in [Paths -> 0..Grace]
  /\ tick.left \subseteq Paths /\ ending \subseteq Sessions

(* However often and however concurrently a recording is sent, every 202    *)
(* names the same session (api/sessions.py: "repeating an upload with the   *)
(* same one returns the existing session"), and a session that nobody and   *)
(* nothing cut short ends only once it holds the whole recording: the       *)
(* watchdog leaves an upload alone however long it waits.                   *)
UploadOnceWhole ==
  /\ RecordingTypeOK
  /\ \A rec \in Recs : Cardinality(answers[rec]) <= 1
  /\ \A s \in Sessions :
       rows[s].status = "ended" /\ rows[s].rec \in Recs /\ ~rows[s].cut => rows[s].stored = Total

(* A stream is followed: a path with a key that stays on air gets a running *)
(* session if there is room, one that stays off air loses it, and every     *)
(* session of a stream that is over ends, whatever failed or restarted.     *)
StreamsFollowed ==
  \A p \in Paths :
    /\ <>[](onAir[p] = "audio" /\ p \in keys) => []<>(active[p] # 0 \/ ~HasRoom(p))
    /\ <>[](onAir[p] = "off") => <>[](active[p] = 0 /\ \A s \in Live : rows[s].rec # p)

(* api/sessions.py: "The 202 is the server's acknowledgement that the audio *)
(* is stored: only then may the uploader delete it."  A recording the       *)
(* uploader no longer has is in the store or still being put there.         *)
AckMeansStored ==
  \A rec \in Recs : rec \notin kept =>
    \E s \in answers[rec] : rows[s].stored = Total \/ Feeding(s)
=============================================================================
