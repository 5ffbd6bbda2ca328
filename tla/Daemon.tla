-------------------------------- MODULE Daemon --------------------------------
(***************************************************************************)
(* The capture daemon of one user (client/daemon.py) with its recorder     *)
(* (client/capture.py), its control socket (client/control.py) and the     *)
(* commands that start and stop it (client/capture_cli.py).  Processes may *)
(* be started while another one runs, and may be killed at any step.       *)
(*                                                                         *)
(* One channel; time is counted in frames and audio arrives no faster than *)
(* time passes (the padding of a last partial frame is left out).  The     *)
(* connection to the server is module Ingest's: here it acknowledges what  *)
(* is stored, gives up, and ends the session or runs into the timeout.     *)
(***************************************************************************)
EXTENDS Integers, Sequences, FiniteSetsExt

CONSTANTS Processes,     \* daemon processes of the user
          MaxSessions, MaxClock,
          MaxUnacked,    \* max_outbox_bytes, in frames
          MaxRapid,      \* RestartPolicy.max_rapid
          DaemonScenarios

ASSUME DaemonConfigured ==
  /\ {MaxClock, MaxSessions, MaxUnacked} \subseteq Nat /\ MaxRapid \in Nat \ {0}
  /\ Processes \cap {"none", "stale", "idle", "answered"} = {}

DaemonEvents == {"start", "race", "kill", "stop", "roll", "die", "nocreate", "rejected", "unsure", "ask", "tail", "event"}

VARIABLES wall,
          session,   \* sessions/<id>/session.json and the outbox, in order of creation
          sock,      \* ctl.sock: the process listening, "stale" or "none"
          proc,      \* each process
          rec,       \* its recorder (Capturer.run)
          client,    \* a `capture stop`: "idle", the process it waits for, or "answered"
          tail,      \* a subscriber: the process, what it was sent, and its stage
          jolts      \* events so far

daemonVars == <<wall, session, sock, proc, rec, client, tail, jolts>>

Sessions == DOMAIN session
Off == [at |-> "off", roll |-> FALSE, resume |-> FALSE, stop |-> FALSE, rolled |-> FALSE, sid |-> 0, sure |-> FALSE,
        voice |-> FALSE, ask |-> FALSE, history |-> 0]
NoRec == [on |-> "no", t0 |-> 0, start |-> 0, base |-> 0, produced |-> 0, end |-> 0, rapid |-> 0]
NoTail == [of |-> "none", stage |-> "no", sent |-> 0, due |-> 0]

MayJolt(e) == \E most \in DaemonScenarios : jolts[e] < most[e] /\ \A f \in DaemonEvents : jolts[f] <= most[f]
Jolts(e) == MayJolt(e) /\ jolts' = [jolts EXCEPT ![e] = @ + 1]

Moves(d, at) == proc' = [proc EXCEPT ![d].at = at]
\* A process that answers on its control socket, and one that has a session open.
Serving == {"opening", "recording", "failed", "ending", "ended"}
Open(d) == proc[d].at \in {"recording", "failed", "ending"}

----------------------------------------------------------------------------
(* Starting.                                                                *)
\* `capture start`, or the service manager's: _effective_config and Daemon.run up to _claim.
Start(d) ==
  /\ proc[d].at = "off" /\ Jolts("start")
  /\ \E roll, resume \in BOOLEAN :
       proc' = [proc EXCEPT ![d] = [Off EXCEPT !.at = "claiming", !.roll = roll, !.resume = resume \/ roll]]
  /\ UNCHANGED <<wall, session, sock, rec, client, tail>>

\* _claim: a process that answers refuses this one; a socket at which nobody answers within a
\* second is removed, even one whose process is slow or about to remove it itself.
Claim(d) ==
  /\ proc[d].at = "claiming"
  /\ \/ sock \in Processes /\ proc[sock].at \in Serving /\ Moves(d, "off") /\ UNCHANGED <<sock, jolts>>
     \/ sock \in Processes /\ Jolts("race") /\ Moves(d, "claimed") /\ sock' = "none"
     \/ sock \in {"none", "stale"} /\ Moves(d, "claimed") /\ sock' = "none" /\ UNCHANGED jolts
  /\ UNCHANGED <<wall, session, rec, client, tail>>

\* ControlServer.start: the event loop removes a socket that is already there.
Bind(d) ==
  /\ proc[d].at = "claimed" /\ Moves(d, "opening")
  /\ IF sock = "none" THEN UNCHANGED jolts ELSE Jolts("race")
  /\ sock' = d
  /\ UNCHANGED <<wall, session, rec, client, tail>>

----------------------------------------------------------------------------
(* A session.                                                               *)
\* find_resumable: the newest session that was not ended cleanly.
Resumable == {s \in Sessions : ~session[s].ended}

\* _open: after what is not acknowledged and not before the wall clock.
ResumeAt(s) == Max({IF session[s].unacked > 0 THEN session[s].pos ELSE 0, wall - session[s].started})

Records(d, s, from) ==
  /\ rec' = [rec EXCEPT ![d] = [NoRec EXCEPT !.on = "running", !.t0 = wall - from, !.start = from, !.base = from, !.end = from]]
  /\ proc' = [proc EXCEPT ![d].at = "recording", ![d].sid = s, ![d].resume = FALSE, ![d].rolled = FALSE,
                          ![d].voice = FALSE, ![d].ask = FALSE, ![d].history = 0]

OpenSession(d) ==
  /\ proc[d].at = "opening"
  /\ \/ /\ proc[d].resume /\ Resumable # {}
        /\ Records(d, Max(Resumable), ResumeAt(Max(Resumable))) /\ UNCHANGED <<session, jolts>>
     \/ /\ ~proc[d].resume \/ Resumable = {}
        /\ Len(session) < MaxSessions
        /\ session' = Append(session, [started |-> wall, pos |-> 0, unacked |-> 0, over |-> FALSE, ended |-> FALSE, late |-> FALSE])
        /\ Records(d, Len(session) + 1, 0) /\ UNCHANGED jolts
     \/ /\ ~proc[d].resume \/ Resumable = {}     \* create_session fails: run's finally
        /\ Jolts("nocreate") /\ Moves(d, "closing") /\ UNCHANGED <<session, rec>>
  /\ UNCHANGED <<wall, sock, client, tail>>

Tick ==
  /\ wall < MaxClock /\ wall' = wall + 1
  /\ UNCHANGED <<session, sock, proc, rec, client, tail, jolts>>

\* on_frame: the frame is in the outbox before its limit is looked at.
Full(s) == session[s].unacked + 1 > MaxUnacked

\* Capturer._store.
Frame(d) ==
  LET s == proc[d].sid
      at == rec[d].base + rec[d].produced
  IN  /\ rec[d].on = "running" /\ at < wall - rec[d].t0
      /\ session' = [session EXCEPT ![s].pos = at + 1, ![s].unacked = @ + 1, ![s].late = @ \/ session[s].over]
      /\ rec' = [rec EXCEPT ![d].produced = @ + 1, ![d].on = IF Full(s) THEN "failed" ELSE @]
      /\ UNCHANGED <<wall, sock, proc, client, tail, jolts>>

\* The recorder exits; quick failures in a row are counted.
RecorderDies(d) ==
  /\ rec[d].on = "running" /\ Jolts("die")
  /\ \E rapid \in {0} \cup (IF rec[d].produced = 0 THEN {rec[d].rapid + 1} ELSE {}) :
       rec' = [rec EXCEPT ![d].end = Max({@, rec[d].base + rec[d].produced}), ![d].rapid = rapid,
                          ![d].on = IF rapid >= MaxRapid THEN "failed" ELSE "waiting"]
  /\ UNCHANGED <<wall, session, sock, proc, client, tail>>

\* A mutant: a recorder started again starts over at the first one's position.
NextBaseStart(r) == r.start

\* Not before what is stored, and moved on by the gap.
NextBase(r) == Max({r.end, wall - r.t0})

RecorderRestarts(d) ==
  /\ rec[d].on = "waiting"
  /\ rec' = [rec EXCEPT ![d].on = "running", ![d].base = NextBase(rec[d]), ![d].produced = 0]
  /\ UNCHANGED <<wall, session, sock, proc, client, tail, jolts>>

\* Acknowledged audio leaves the outbox.
Acked(d) ==
  /\ Open(d) /\ session[proc[d].sid].unacked > 0 /\ ~session[proc[d].sid].over
  /\ session' = [session EXCEPT ![proc[d].sid].unacked = @ - 1]
  /\ UNCHANGED <<wall, sock, proc, rec, client, tail, jolts>>

----------------------------------------------------------------------------
(* What ends a session: _session's watch loop.                              *)
Cancelled(d) == rec' = [rec EXCEPT ![d] = NoRec]

\* A mutant: a daemon that failed no longer looks at the stop.
WatchStopRecording(d) ==
  /\ proc[d].at = "recording" /\ proc[d].stop
  /\ Moves(d, "ending") /\ Cancelled(d)
  /\ UNCHANGED <<wall, session, sock, client, tail, jolts>>

WatchStop(d) ==
  /\ proc[d].at \in {"recording", "failed"} /\ proc[d].stop
  /\ Moves(d, "ending") /\ Cancelled(d)
  /\ UNCHANGED <<wall, session, sock, client, tail, jolts>>

WatchRoll(d) ==
  /\ proc[d].at = "recording" /\ proc[d].roll /\ ~proc[d].stop /\ Jolts("roll")
  /\ proc' = [proc EXCEPT ![d].at = "ending", ![d].rolled = TRUE] /\ Cancelled(d)
  /\ UNCHANGED <<wall, session, sock, client, tail>>

\* The recorder or the transport gave up: a standing endpoint exits, another waits to be stopped.
WatchFailed(d) ==
  /\ proc[d].at = "recording" /\ ~proc[d].stop
  /\ IF rec[d].on = "failed" THEN UNCHANGED jolts ELSE Jolts("rejected")
  /\ Moves(d, IF proc[d].roll THEN "ending" ELSE "failed") /\ Cancelled(d)
  /\ UNCHANGED <<wall, session, sock, client, tail>>

\* sink.end: everything is acknowledged and the server says so, or the timeout passes, possibly
\* after the server has ended the session.
EndSink(d) ==
  /\ proc[d].at = "ending"
  /\ \/ /\ session[proc[d].sid].unacked = 0 /\ ~session[proc[d].sid].over
        /\ session' = [session EXCEPT ![proc[d].sid].over = TRUE]
        /\ proc' = [proc EXCEPT ![d].at = "ended", ![d].sure = TRUE] /\ UNCHANGED jolts
     \/ /\ IF session[proc[d].sid].over THEN UNCHANGED jolts ELSE Jolts("unsure")
        /\ proc' = [proc EXCEPT ![d].at = "ended", ![d].sure = FALSE]
        /\ \E over \in {FALSE, session[proc[d].sid].unacked = 0} :
             session' = [session EXCEPT ![proc[d].sid].over = @ \/ over]
  /\ UNCHANGED <<wall, sock, rec, client, tail>>

\* The rest of _session: subscribers are let go, the session is marked, and the next one begins
\* or the daemon finishes.
SessionOver(d) ==
  /\ proc[d].at = "ended"
  /\ session' = [session EXCEPT ![proc[d].sid].ended = @ \/ proc[d].sure]
  /\ Moves(d, IF proc[d].rolled THEN "opening" ELSE "closing")
  /\ tail' = IF tail.of = d /\ tail.stage = "live" THEN NoTail ELSE tail
  /\ UNCHANGED <<wall, sock, rec, client, jolts>>

\* ControlServer.close: requests are answered, then whatever is at the path is removed.
CloseControl(d) ==
  /\ proc[d].at = "closing"
  /\ proc' = [proc EXCEPT ![d] = Off] /\ sock' = "none"
  /\ client' = IF client = d THEN "answered" ELSE client
  /\ tail' = IF tail.of = d THEN NoTail ELSE tail
  /\ UNCHANGED <<wall, session, rec, jolts>>

Kill(d) ==
  /\ proc[d].at # "off" /\ Jolts("kill")
  /\ proc' = [proc EXCEPT ![d] = Off] /\ rec' = [rec EXCEPT ![d] = NoRec]
  /\ sock' = IF sock = d THEN "stale" ELSE sock
  /\ client' = IF client = d THEN "answered" ELSE client
  /\ tail' = IF tail.of = d THEN NoTail ELSE tail
  /\ UNCHANGED <<wall, session>>

----------------------------------------------------------------------------
(* The control socket.                                                      *)
\* `capture stop`, also sent by a `capture start` that sees no audio: it waits for the end.
RequestStop(d) ==
  /\ client = "idle" /\ sock = d /\ proc[d].at \in Serving /\ Jolts("stop")
  /\ client' = d /\ proc' = [proc EXCEPT ![d].stop = TRUE]
  /\ UNCHANGED <<wall, session, sock, rec, tail>>

\* _subscribe: the backlog is sent with an await per event before the subscriber is added.
Subscribe(d) ==
  /\ tail.of = "none" /\ sock = d /\ Open(d) /\ Jolts("tail")
  /\ tail' = [of |-> d, stage |-> "backlog", sent |-> 0, due |-> proc[d].history]
  /\ UNCHANGED <<wall, session, sock, proc, rec, client>>

SubscriberAdded ==
  /\ tail.stage = "backlog"
  /\ tail' = [tail EXCEPT !.stage = "live", !.sent = tail.due]
  /\ UNCHANGED <<wall, session, sock, proc, rec, client, jolts>>

\* _pump: the server's events go to the history and to the subscribers there are; its voice
\* state says whether asks are taken.
Pump(d) ==
  /\ Open(d) /\ Jolts("event")
  /\ \/ proc' = [proc EXCEPT ![d].voice = ~@] /\ UNCHANGED tail
     \/ /\ proc' = [proc EXCEPT ![d].history = @ + 1]
        /\ tail' = IF tail.of = d /\ tail.stage = "live" THEN [tail EXCEPT !.sent = @ + 1] ELSE tail
  /\ UNCHANGED <<wall, session, sock, rec, client>>

\* _ask: a held ask is open between ask_begin and ask_end.
Ask(d) ==
  /\ sock = d /\ Open(d) /\ Jolts("ask")
  /\ proc[d].ask \/ proc[d].voice
  /\ proc' = [proc EXCEPT ![d].ask = ~@]
  /\ UNCHANGED <<wall, session, sock, rec, client, tail>>

----------------------------------------------------------------------------
DaemonInit ==
  /\ wall = 0 /\ session = <<>> /\ sock = "none"
  /\ proc = [d \in Processes |-> Off] /\ rec = [d \in Processes |-> NoRec]
  /\ client = "idle" /\ tail = NoTail /\ jolts = [e \in DaemonEvents |-> 0]

DaemonStep(d) ==
  \/ Claim(d) \/ Bind(d) \/ OpenSession(d) \/ RecorderRestarts(d) \/ Acked(d) \/ WatchStop(d) \/ EndSink(d)
  \/ SessionOver(d) \/ CloseControl(d)

DaemonNext ==
  \/ \E d \in Processes :
       \/ Start(d) \/ DaemonStep(d) \/ Frame(d) \/ RecorderDies(d) \/ WatchRoll(d) \/ WatchFailed(d) \/ Kill(d)
       \/ RequestStop(d) \/ Subscribe(d) \/ Pump(d) \/ Ask(d)
  \/ SubscriberAdded \/ Tick

----------------------------------------------------------------------------
\* The sessions on disk, the processes and their recorders.
DaemonTypeOK ==
  /\ wall \in 0..MaxClock /\ Len(session) <= MaxSessions
  /\ sock \in Processes \cup {"none", "stale"} /\ client \in Processes \cup {"idle", "answered"}
  /\ \A s \in Sessions : session[s] \in [started : 0..MaxClock, pos : 0..MaxClock, unacked : Nat,
                                          over : BOOLEAN, ended : BOOLEAN, late : BOOLEAN]
  /\ \A d \in Processes :
       /\ proc[d].at \in Serving \cup {"off", "claiming", "claimed", "closing"} /\ proc[d].sid \in 0..Len(session)
       /\ rec[d].on \in {"no", "running", "waiting", "failed"} /\ rec[d].rapid \in 0..MaxRapid
  /\ tail.of \in Processes \cup {"none"} /\ tail.stage \in {"no", "backlog", "live"}

(* Properties.                                                              *)
\* A session's frames move forward in time, over restarts of its recorder and of the daemon,
\* unless two daemons may have come to record into it.
TimelineForward == [][jolts["race"] = 0 => \A s \in Sessions : session'[s].pos >= session[s].pos]_daemonVars

\* One daemon at most has a session open, and it can be reached.
OneDaemonReached == \A d \in Processes : Open(d) => sock = d

\* Nothing is recorded into a session that is over at the server, as long as no process was killed
\* or gave up waiting before it could note that.
NothingAfterEnd == jolts["kill"] + jolts["unsure"] = 0 => \A s \in Sessions : ~session[s].late

\* The outbox's limit is passed by one frame, and by one more each time the session is resumed.
OutboxBounded == \A s \in Sessions : session[s].unacked <= MaxUnacked + jolts["start"]

\* All of this as long as no two processes met between looking at the socket and having it, and
\* none was too slow to answer at its own.
DaemonSound ==
  DaemonTypeOK /\ (jolts["race"] = 0 => OneDaemonReached /\ NothingAfterEnd /\ OutboxBounded)

\* Whoever asks for the daemon to stop is answered: while it is failed, rolling or starting, too.
StopAnswered == (client \in Processes) ~> (client = "answered")

\* What daemon.py says: one daemon per user.
OneDaemon == \A d, e \in Processes : Open(d) /\ Open(e) => d = e

\* What _subscribe says: backlog first, then live.
TailComplete == tail.stage = "live" => tail.sent = proc[tail.of].history
=============================================================================
