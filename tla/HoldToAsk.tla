----------------------------- MODULE HoldToAsk ------------------------------
(***************************************************************************)
(* Hold to ask from the desktop app (linux/.../ask.py): AskController with *)
(* the tasks that a press and a release of the ask key start, its requests *)
(* to the capture daemon (client/daemon.py's _ask), the delivery of a      *)
(* reply and the guarded speech (speech.py, route.py).  Each press and     *)
(* release runs in a task of its own, as the tests drive it.  A request is *)
(* handled by the daemon and answered later, or times out; the reply, its  *)
(* delivery, the route and the subscription each come when they come.      *)
(***************************************************************************)
EXTENDS Naturals, Sequences, SequencesExt, FiniteSets

CONSTANTS MaxHolds,      \* presses of the key
          SinkStates,    \* the states of the default sink
          SinkOf,        \* what pw-dump says in each of them: a Sink, or NoSink
          HoldScenarios  \* how often each of HoldEvents happens

HoldEvents == {"hold", "rewire", "voice", "gone", "timeout", "broken", "system", "overtake", "overlap"}
SinkFields == {"name", "api", "bus", "form", "profile", "port", "available"}
NoSink == [f \in SinkFields |-> "none"]

ASSUME HoldConfigured ==
  /\ MaxHolds \in Nat /\ SinkOf \in [SinkStates -> [SinkFields -> STRING]]
  /\ HoldScenarios \subseteq [HoldEvents -> Nat]

VARIABLES app,      \* AskController: session, voice, view, id, begin, and the key
          press,    \* each hold's down(): "no", "stopping" a delivery, "done"
          begins,   \* each hold's _ask_begin: step and the id it got
          release,  \* each hold's up(): step, and the hold whose begin it took
          delivery, \* _deliver of one ask: step, cancelled, and the speech
          reports,  \* ask_played requests not yet sent, in order
          told,     \* those the daemon has taken
          daemon,   \* the capture session's side: up, voice, system, the open ask, the number of asks
          sink,     \* the default sink
          holdsLeft

holdVars == <<app, press, begins, release, delivery, reports, told, daemon, sink, holdsLeft>>

Holds == 1 .. MaxHolds
HoldSpend(e) == holdsLeft[e] > 0 /\ holdsLeft' = [holdsLeft EXCEPT ![e] = @ - 1]
NoDelivery == [step |-> "no", ask |-> 0, cancelled |-> FALSE, read |-> "none", target |-> "none",
               sounds |-> "no", guard |-> "wait", late |-> 0]

----------------------------------------------------------------------------
(* route.py: may a reply be spoken where the default sink plays it?         *)
Plugged(s) == s.port \in {"headphones", "headset"} /\ s.available = "yes"
Classify(s) ==
  CASE s = NoSink                                              -> "unknown"
    [] s.port = "hdmi" \/ s.profile = "hdmi"                   -> "hdmi"
    [] s.form \in {"speaker", "internal"} \/ s.port = "speaker" -> "speakers"
    [] s.api = "bluez5" -> IF s.form \in {"headset", "headphone"} /\ s.profile \in {"a2dp-sink", "headset-head-unit"}
                           THEN "bluetooth" ELSE "unknown"
    [] s.api # "alsa"                                          -> "unknown"
    [] s.bus = "usb" -> IF Plugged(s) \/ s.form \in {"headset", "headphone"} THEN "usb_headset" ELSE "unknown"
    [] OTHER -> IF Plugged(s) THEN "headphones" ELSE "unknown"
Closed(state) == Classify(SinkOf[state]) \in {"headphones", "usb_headset", "bluetooth"}
SameSink(s, t) == SinkOf[s].name = SinkOf[t].name

----------------------------------------------------------------------------
(* The pill.                                                                *)
Show(a, phase) == [a EXCEPT !.view = phase]
Lost(a) == [a EXCEPT !.view = "no_session", !.id = 0]
Messages == {"no_session", "voice_off", "failed", "nothing_heard", "no_answer", "reply"}

\* A message or a reply is hidden after a while; an ask that is waited for is given up.
Dismiss ==
  /\ \/ app.view \in Messages /\ app' = Show(app, "idle")
     \/ app.view = "waiting" /\ app' = [app EXCEPT !.view = "no_answer", !.id = 0]
  /\ UNCHANGED <<press, begins, release, delivery, reports, told, daemon, sink, holdsLeft>>

----------------------------------------------------------------------------
(* The key.                                                                 *)
Report(ask, state) == Append(reports, <<ask, state>>)
Delivering == delivery.step \notin {"no", "over"}

\* down() once there is no delivery to stop: the session and the voice are looked at now.
Listen(h, a) ==
  IF ~a.session THEN app' = Show(a, "no_session") /\ UNCHANGED begins
  ELSE IF ~a.voice THEN app' = Show(a, "voice_off") /\ UNCHANGED begins
  ELSE /\ app' = [Show(a, "listening") EXCEPT !.begin = h]
       /\ begins' = [begins EXCEPT ![h] = [step |-> "begin", answer |-> "none", id |-> 0]]

\* The presses come one after the other; one may come before the last release has been answered.
MayHold(h) ==
  /\ ~app.held /\ press[h] = "no"
  /\ \A g \in 1 .. h - 1 : press[g] # "no" /\ (release[g].step = "done" \/ holdsLeft["overlap"] > 0)

\* down(): what is being spoken is reported as superseded and stopped, which takes a while.
Down ==
  \E h \in Holds :
    /\ MayHold(h) /\ HoldSpend("hold")
    /\ reports' = IF delivery.step = "speaking" THEN Report(delivery.ask, "skipped") ELSE reports
    /\ IF app.attached /\ Delivering
       THEN /\ delivery' = [delivery EXCEPT !.cancelled = TRUE]
            /\ press' = [press EXCEPT ![h] = "stopping"]
            /\ app' = [app EXCEPT !.id = 0, !.held = TRUE, !.hold = h, !.attached = FALSE] /\ UNCHANGED begins
       ELSE /\ press' = [press EXCEPT ![h] = "done"]
            /\ Listen(h, [app EXCEPT !.id = 0, !.held = TRUE, !.hold = h, !.attached = FALSE]) /\ UNCHANGED delivery
    /\ UNCHANGED <<release, told, daemon, sink>>

Stopped(h) ==
  /\ press[h] = "stopping" /\ ~Delivering /\ press' = [press EXCEPT ![h] = "done"]
  /\ Listen(h, app)
  /\ UNCHANGED <<release, delivery, reports, told, daemon, sink, holdsLeft>>

\* up(): the begin that is there is taken, and its answer waited for.  A release that overtakes the
\* stop of a delivery finds none.
Up ==
  /\ app.held
  /\ release' = [release EXCEPT ![app.hold] = IF app.begin = 0 THEN [step |-> "done", of |-> 0, answer |-> "none"]
                                              ELSE [step |-> "waiting", of |-> app.begin, answer |-> "none"]]
  /\ app' = [app EXCEPT !.held = FALSE, !.begin = 0]
  /\ press[app.hold] = "stopping" => holdsLeft["overtake"] > 0
  /\ UNCHANGED <<press, begins, delivery, reports, told, daemon, sink, holdsLeft>>

\* Its begin has ended: without an ask there is nothing to end.
UpBegun(h) ==
  /\ release[h].step = "waiting" /\ begins[release[h].of].step = "over"
  /\ release' = [release EXCEPT ![h].step = IF begins[release[h].of].id = 0 THEN "done" ELSE "end"]
  /\ UNCHANGED <<app, press, begins, delivery, reports, told, daemon, sink, holdsLeft>>

UpEnded(h) ==
  /\ release[h].step = "end" /\ release[h].answer # "none"
  /\ release' = [release EXCEPT ![h].step = "done"]
  /\ app' = CASE release[h].answer = "gone"  -> Lost(app)
              [] release[h].answer = "ok"    -> IF app.id = begins[release[h].of].id THEN Show(app, "waiting") ELSE app
              [] OTHER                       -> Show(app, "failed")
  /\ UNCHANGED <<press, begins, delivery, reports, told, daemon, sink, holdsLeft>>

\* _ask_begin: an ask left open is ended first, then begun again.
Begun(h) ==
  LET b == begins[h]
      Goes(step) == begins' = [begins EXCEPT ![h].step = step, ![h].answer = "none"] /\ UNCHANGED app
      Over(a) == begins' = [begins EXCEPT ![h].step = "over"] /\ app' = a
  IN
  /\ b.step \in {"begin", "closing", "again"} /\ b.answer # "none"
  /\ CASE b.answer = "gone"                         -> Over(Lost(app))
       [] b.answer = "voice"                        -> Over(Show(app, "voice_off"))
       [] b.answer = "open" /\ b.step = "begin"     -> Goes("closing")
       [] b.answer = "ok" /\ b.step = "closing"     -> Goes("again")
       [] b.answer = "ok"                           -> Over([app EXCEPT !.id = b.id])
       [] OTHER                                     -> Over(Show(app, "failed"))
  /\ UNCHANGED <<press, release, delivery, reports, told, daemon, sink, holdsLeft>>

----------------------------------------------------------------------------
(* The daemon: _ask, and what it relays to its subscriber.                  *)
\* What a request is answered, and what the daemon is after it.
OnBegin ==
  CASE ~daemon.up      -> <<"gone", daemon>>
    [] ~daemon.voice   -> <<"voice", daemon>>
    [] daemon.open # 0 -> <<"open", daemon>>
    [] OTHER           -> <<"ok", [daemon EXCEPT !.open = daemon.asks + 1, !.asks = @ + 1]>>
OnEnd ==
  CASE ~daemon.up      -> <<"gone", daemon>>
    [] daemon.open = 0 -> <<"error", daemon>>
    [] OTHER           -> <<"ok", [daemon EXCEPT !.open = 0, !.asked = @ \cup {daemon.open}]>>

\* A request is answered, or times out whether or not it was handled.
AskAnswers == {"gone", "voice", "open", "ok", "error"}
Answered(outcome, answer) ==
  \/ answer = outcome[1] /\ daemon' = outcome[2] /\ UNCHANGED holdsLeft
  \/ answer = "error" /\ daemon.up /\ daemon' \in {daemon, outcome[2]} /\ HoldSpend("timeout")

AnswerBegin(h) ==
  /\ begins[h].step \in {"begin", "closing", "again"} /\ begins[h].answer = "none"
  /\ \E a \in AskAnswers :
       /\ Answered(IF begins[h].step = "closing" THEN OnEnd ELSE OnBegin, a)
       /\ begins' = [begins EXCEPT ![h].answer = a,
                                   ![h].id = IF a = "ok" /\ begins[h].step # "closing" THEN daemon'.asks ELSE 0]
  /\ UNCHANGED <<app, press, release, delivery, reports, told, sink>>

AnswerEnd(h) ==
  /\ release[h].step = "end" /\ release[h].answer = "none"
  /\ \E a \in AskAnswers : Answered(OnEnd, a) /\ release' = [release EXCEPT ![h].answer = a]
  /\ UNCHANGED <<app, press, begins, delivery, reports, told, sink>>

\* _report's chain: one after the other, and best effort.
SendReport ==
  /\ reports # <<>> /\ reports' = Tail(reports)
  /\ \/ told' = (IF daemon.up THEN Append(told, Head(reports)) ELSE told) /\ UNCHANGED holdsLeft
     \/ daemon.up /\ UNCHANGED told /\ HoldSpend("timeout")
  /\ UNCHANGED <<app, press, begins, release, delivery, daemon, sink>>

\* watch: the subscription begins with the voice state and ends with the daemon.
Subscribed ==
  /\ daemon.up /\ (~app.session \/ app.voice # daemon.voice)
  /\ app' = [app EXCEPT !.session = TRUE, !.voice = daemon.voice]
  /\ UNCHANGED <<press, begins, release, delivery, reports, told, daemon, sink, holdsLeft>>

OnSessionEnded ==
  /\ app.session /\ ~daemon.up
  /\ LET a == [app EXCEPT !.session = FALSE, !.voice = FALSE] IN
     IF app.attached /\ Delivering
     THEN app' = Lost(a) /\ delivery' = [delivery EXCEPT !.cancelled = TRUE]
     ELSE app' = (IF app.view \in {"listening", "waiting"} THEN Lost(a) ELSE a) /\ UNCHANGED delivery
  /\ UNCHANGED <<press, begins, release, reports, told, daemon, sink, holdsLeft>>

\* A reply, to the ask the pill waits for or to an older one.
OnReply(ask) ==
  /\ app.session /\ ask \in daemon.asked /\ daemon' = [daemon EXCEPT !.asked = @ \ {ask}]
  /\ IF ask # app.id \/ app.view # "waiting" THEN UNCHANGED <<app, delivery>>
     ELSE \/ /\ app.speaker /\ ~Delivering
             /\ app' = [app EXCEPT !.id = 0, !.attached = TRUE]
             /\ delivery' = [NoDelivery EXCEPT !.step = "route", !.ask = ask]
          \/ \E phase \in {"nothing_heard", "no_answer", "reply"} : app' = [app EXCEPT !.id = 0, !.view = phase] /\ UNCHANGED delivery
  /\ UNCHANGED <<press, begins, release, reports, told, sink, holdsLeft>>

DaemonChanges ==
  /\ \/ daemon.up /\ HoldSpend("gone") /\ daemon' = [daemon EXCEPT !.up = FALSE, !.open = 0, !.asked = {}]
     \/ ~daemon.up /\ ~app.session /\ daemon' = [daemon EXCEPT !.up = TRUE] /\ UNCHANGED holdsLeft
     \/ HoldSpend("voice") /\ daemon' = [daemon EXCEPT !.voice = ~@]
  /\ UNCHANGED <<app, press, begins, release, delivery, reports, told, sink>>

----------------------------------------------------------------------------
(* The delivery of a reply.                                                 *)
DeliveryEnds(a, rs) == delivery' = [delivery EXCEPT !.step = "over", !.sounds = "no"] /\ app' = a /\ reports' = rs
NotSpoken == DeliveryEnds(Show(app, "reply"), Report(delivery.ask, "skipped"))
Delivers(step) == delivery.step = step /\ ~delivery.cancelled

\* _deliver: the route, then what the session records; each fails closed.
CheckRoute ==
  /\ Delivers("route")
  /\ IF Closed(sink)
     THEN delivery' = [delivery EXCEPT !.step = "status", !.target = sink] /\ UNCHANGED <<app, reports>>
     ELSE NotSpoken
  /\ UNCHANGED <<press, begins, release, told, daemon, sink, holdsLeft>>

CheckStatus ==
  /\ Delivers("status")
  /\ \/ /\ daemon.up /\ ~daemon.system /\ UNCHANGED holdsLeft
        /\ delivery' = [delivery EXCEPT !.step = "speaking"] /\ app' = Show(app, "speaking") /\ UNCHANGED reports
     \/ (~daemon.up \/ daemon.system) /\ NotSpoken /\ UNCHANGED holdsLeft
     \/ daemon.up /\ NotSpoken /\ HoldSpend("timeout")
  /\ UNCHANGED <<press, begins, release, told, daemon, sink>>

\* PipeWireSpeaker.speak, a task of its own: it is cancelled only when its deliverer is.
Speaks ==
  /\ delivery.step = "speaking"
  /\ \/ delivery.sounds = "no" /\ delivery' = [delivery EXCEPT !.sounds = "on"]
        /\ reports' = Report(delivery.ask, "started") /\ UNCHANGED holdsLeft
     \/ delivery.sounds = "on" /\ delivery' = [delivery EXCEPT !.sounds = "out"] /\ UNCHANGED <<reports, holdsLeft>>
     \/ /\ delivery.sounds \in {"no", "on"} /\ HoldSpend("broken")
        /\ delivery' = [delivery EXCEPT !.sounds = "failed"] /\ UNCHANGED reports
  /\ UNCHANGED <<app, press, begins, release, told, daemon, sink>>

\* speak_guarded: the default sink is read again and again while the speech goes on.
Exposed == delivery.step = "speaking" /\ delivery.sounds = "on" /\ SameSink(sink, delivery.target) /\ ~Closed(sink)
GuardReads ==
  /\ Delivers("speaking") /\ delivery.guard = "wait" /\ delivery.sounds \in {"no", "on"}
  /\ delivery' = [delivery EXCEPT !.guard = "read", !.read = sink, !.late = IF Exposed THEN @ + 1 ELSE 0]
  /\ UNCHANGED <<app, press, begins, release, reports, told, daemon, sink, holdsLeft>>

\* A mutant: only another default sink stops it.
GuardDecidesByName ==
  /\ Delivers("speaking") /\ delivery.guard = "read"
  /\ IF SameSink(delivery.read, delivery.target)
     THEN delivery' = [delivery EXCEPT !.guard = "wait"] /\ UNCHANGED <<app, reports>>
     ELSE NotSpoken
  /\ UNCHANGED <<press, begins, release, told, daemon, sink, holdsLeft>>

GuardDecides ==
  /\ Delivers("speaking") /\ delivery.guard = "read"
  /\ IF Closed(delivery.read) /\ SameSink(delivery.read, delivery.target)
     THEN delivery' = [delivery EXCEPT !.guard = "wait"] /\ UNCHANGED <<app, reports>>
     ELSE NotSpoken
  /\ UNCHANGED <<press, begins, release, told, daemon, sink, holdsLeft>>

Spoken ==
  /\ Delivers("speaking") /\ delivery.guard = "wait"
  /\ \/ delivery.sounds = "out" /\ DeliveryEnds(Show(app, "reply"), Report(delivery.ask, "done"))
     \/ delivery.sounds = "failed" /\ NotSpoken
  /\ UNCHANGED <<press, begins, release, told, daemon, sink, holdsLeft>>

DeliveryCancelled ==
  /\ Delivering /\ delivery.cancelled /\ delivery' = [delivery EXCEPT !.step = "over", !.sounds = "no"]
  /\ UNCHANGED <<app, press, begins, release, reports, told, daemon, sink, holdsLeft>>

Rewire ==
  /\ HoldSpend("rewire") /\ sink' \in SinkStates
  /\ UNCHANGED <<app, press, begins, release, delivery, reports, told, daemon>>

----------------------------------------------------------------------------
HoldInit ==
  /\ holdsLeft \in HoldScenarios
  /\ app \in [session : {FALSE}, voice : {FALSE}, view : {"idle"}, id : {0}, begin : {0}, held : {FALSE}, hold : {0},
              attached : {FALSE}, speaker : BOOLEAN]
  /\ press = [h \in Holds |-> "no"] /\ begins = [h \in Holds |-> [step |-> "no", answer |-> "none", id |-> 0]]
  /\ release = [h \in Holds |-> [step |-> "no", of |-> 0, answer |-> "none"]]
  /\ delivery = NoDelivery /\ reports = <<>> /\ told = <<>> /\ sink \in SinkStates
  /\ daemon = [up |-> TRUE, voice |-> TRUE, system |-> holdsLeft["system"] > 0, open |-> 0, asked |-> {}, asks |-> 0]

KeyTasks(h) == Stopped(h) \/ Begun(h) \/ AnswerBegin(h) \/ UpBegun(h) \/ AnswerEnd(h) \/ UpEnded(h)
DeliveryTask == CheckRoute \/ CheckStatus \/ GuardDecides \/ Spoken \/ DeliveryCancelled

HoldNext ==
  \/ Down \/ Up \/ Dismiss \/ SendReport \/ Subscribed \/ OnSessionEnded \/ DaemonChanges \/ Rewire
  \/ DeliveryTask \/ Speaks \/ GuardReads
  \/ \E h \in Holds : KeyTasks(h)
  \/ \E ask \in daemon.asked : OnReply(ask)

----------------------------------------------------------------------------
\* The pill, each hold's requests, and the delivery of a reply.
HoldTypeOK ==
  /\ app \in [session : BOOLEAN, voice : BOOLEAN, view : Messages \cup {"idle", "listening", "waiting", "speaking"},
             id : 0..daemon.asks, begin : 0..MaxHolds, held : BOOLEAN, hold : 0..MaxHolds, attached : BOOLEAN,
             speaker : BOOLEAN]
  /\ press \in [Holds -> {"no", "stopping", "done"}]
  /\ \A h \in Holds : /\ begins[h].step \in {"no", "begin", "closing", "again", "over"}
                     /\ release[h].step \in {"no", "waiting", "end", "done"} /\ release[h].of \in 0..MaxHolds
  /\ delivery.step \in {"no", "route", "status", "speaking", "over"} /\ delivery.ask \in 0..daemon.asks
  /\ delivery.sounds \in {"no", "on", "out", "failed"} /\ delivery.guard \in {"wait", "read"}
  /\ Range(reports) \cup Range(told) \subseteq (1..daemon.asks) \X {"started", "done", "skipped"}
  /\ daemon.open \in 0..daemon.asks /\ daemon.asked \subseteq 1..daemon.asks /\ sink \in SinkStates

\* A reply is spoken into headphones, and at the first look at the sink that finds it is not
\* headphones any more the speech is over; while the key is held and heard, Jarvis is silent.
SpeechGuarded ==
  /\ HoldTypeOK
  /\ delivery.late <= 1
  /\ app.view = "listening" /\ holdsLeft["overtake"] = 0 => delivery.sounds # "on"

\* How a reply was played is told in order and settled once: started before done, and never both
\* done and skipped.  A key that is pressed and let go again while a delivery is being stopped may
\* have it told once more that it was skipped.
Follows(first, next) ==
  first[1] = next[1] =>
    \/ first[2] = "started"
    \/ first[2] = "skipped" /\ next[2] \in {"started"} \cup (IF holdsLeft["overtake"] > 0 THEN {"skipped"} ELSE {})
ReportsSettleOnce ==
  LET all == told \o reports IN \A i, j \in DOMAIN all : i < j => Follows(all[i], all[j])

\* The pill does not keep saying that Jarvis listens, thinks or speaks once the key is up.
PillClears ==
  holdsLeft["overtake"] > 0 \/ ((app.view # "idle" /\ ~app.held) ~> (app.view = "idle" \/ app.held))

\* An ask that was begun is ended by the release of the key, if the daemon answers.
AskReleased ==
  holdsLeft["overtake"] + holdsLeft["timeout"] > 0 \/ ((daemon.open # 0 /\ ~app.held) ~> (daemon.open = 0 \/ app.held))

\* What ask.py says of a reply with a speaker: either way it is reported what was done.  A press
\* while the delivery looks at the route or at the session stops it without a report.
AlwaysReported ==
  delivery.step = "over" /\ daemon.up =>
    \E i \in DOMAIN (told \o reports) : (told \o reports)[i][1] = delivery.ask /\ (told \o reports)[i][2] # "started"

=============================================================================
