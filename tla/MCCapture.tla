----------------------------- MODULE MCCapture ------------------------------
(* The clients on small instances: the capture API, the capture daemon, the *)
(* desktop app's keys and its hold to ask.  A run explores one of them, as  *)
(* Init chooses; each scenario is a kind of use with what may go wrong.     *)
EXTENDS CaptureApi, Daemon, Triggers, HoldToAsk

VARIABLE client_kind

CaptureQuiet == [e \in CaptureEvents |-> 0]
MCCaptureScenarios ==
  {[CaptureQuiet EXCEPT !["capture"] = 2],
   [CaptureQuiet EXCEPT !["notify"] = 2, !["crash"] = 1],
   [CaptureQuiet EXCEPT !["notify"] = 1, !["unsaved"] = 1, !["crash"] = 1],
   [CaptureQuiet EXCEPT !["task"] = 1, !["reply"] = 2, !["llm"] = 1],
   [CaptureQuiet EXCEPT !["task"] = 2, !["tool"] = 2, !["crash"] = 1],
   [CaptureQuiet EXCEPT !["task"] = 1, !["tool"] = 4],
   [CaptureQuiet EXCEPT !["task"] = 1, !["unsaved"] = 1, !["crash"] = 1]}

DaemonQuiet == [e \in DaemonEvents |-> 0]
MCDaemonScenarios ==
  {[DaemonQuiet EXCEPT !["start"] = 2, !["kill"] = 1, !["die"] = 1, !["stop"] = 1],
   [DaemonQuiet EXCEPT !["start"] = 2, !["stop"] = 1, !["roll"] = 1, !["unsure"] = 1],
   [DaemonQuiet EXCEPT !["start"] = 1, !["stop"] = 1, !["rejected"] = 1, !["nocreate"] = 1],
   [DaemonQuiet EXCEPT !["start"] = 1, !["stop"] = 1, !["die"] = 2],
   [DaemonQuiet EXCEPT !["start"] = 2, !["race"] = 1, !["stop"] = 1],
   [DaemonQuiet EXCEPT !["start"] = 1, !["tail"] = 1, !["event"] = 2, !["ask"] = 2]}

Jack == [NoSink EXCEPT !.name = "jack", !.api = "alsa", !.bus = "pci", !.profile = "analog", !.port = "headphones",
                       !.available = "yes"]
MCSinkOf ==
  [s \in {"nothing", "jack", "unplugged", "usb"} |->
     CASE s = "nothing"   -> NoSink
       [] s = "jack"      -> Jack
       [] s = "unplugged" -> [Jack EXCEPT !.port = "speaker"]
       [] s = "usb"       -> [Jack EXCEPT !.name = "usb", !.bus = "usb", !.form = "headset", !.available = "no"]]

HoldQuiet == [e \in HoldEvents |-> 0]
MCHoldScenarios ==
  {[HoldQuiet EXCEPT !["hold"] = 2, !["rewire"] = 1, !["broken"] = 1],
   [HoldQuiet EXCEPT !["hold"] = 1, !["system"] = 1],
   [HoldQuiet EXCEPT !["hold"] = 2, !["voice"] = 1],
   [HoldQuiet EXCEPT !["hold"] = 2, !["gone"] = 1],
   [HoldQuiet EXCEPT !["hold"] = 2, !["timeout"] = 1],
   [HoldQuiet EXCEPT !["hold"] = 2, !["overlap"] = 1],
   [HoldQuiet EXCEPT !["hold"] = 3, !["overtake"] = 1]}

vars == <<captureVars, daemonVars, triggerVars, holdVars, client_kind>>
Init ==
  /\ CaptureInit /\ DaemonInit /\ TriggerInit /\ HoldInit /\ client_kind \in {"api", "daemon", "keys", "ask"}
  /\ client_kind # "keys" => mode = "hold" /\ askOn
  /\ client_kind # "ask" => app.speaker /\ holdsLeft["system"] > 0
  /\ holdsLeft["rewire"] = 0 => sink = "jack"
Next ==
  \/ client_kind = "api" /\ CaptureNext /\ UNCHANGED <<daemonVars, triggerVars, holdVars, client_kind>>
  \/ client_kind = "daemon" /\ DaemonNext /\ UNCHANGED <<captureVars, triggerVars, holdVars, client_kind>>
  \/ client_kind = "keys" /\ TriggerNext /\ UNCHANGED <<captureVars, daemonVars, holdVars, client_kind>>
  \/ client_kind = "ask" /\ HoldNext /\ UNCHANGED <<captureVars, daemonVars, triggerVars, client_kind>>
\* Fairness, asked of the part that runs.
\* Threads run, and every call of theirs has a timeout.
CaptureFair ==
  WF_captureVars(client_kind = "api" /\ ThreadSteps)
\* The event loop runs each task; sink.end ends by its timeout at the latest, which the
\* model needs only where no acknowledgement can come.
DaemonFair ==
  \A d \in Processes : WF_daemonVars(client_kind = "daemon" /\ DaemonStep(d))
\* Timers fire, the subscription is read, requests are answered or time out, and speech ends.
HoldFair ==
  /\ WF_holdVars(client_kind = "ask" /\ Dismiss)
  /\ WF_holdVars(client_kind = "ask" /\ SendReport)
  /\ WF_holdVars(client_kind = "ask" /\ (Subscribed \/ OnSessionEnded))
  /\ WF_holdVars(client_kind = "ask" /\ DeliveryTask)
  /\ WF_holdVars(client_kind = "ask" /\ Speaks)
  /\ \A h \in Holds : WF_holdVars(client_kind = "ask" /\ KeyTasks(h))
Spec == Init /\ [][Next]_vars /\ CaptureFair /\ DaemonFair /\ HoldFair

\* Each of the clients keeps its state sound over restarts and concurrent use.
ClientsSound == CaptureSound /\ DaemonSound /\ KeysSound /\ SpeechGuarded /\ ReportsSettleOnce

\* What the clients do goes one way: frames forward in time, and from a key pressed
\* alone to its release.
ClientsForward == TimelineForward /\ LoneKeysOnly

\* Each of the clients ends what it was asked to end.
ClientsEnd == TaskEnds /\ StopAnswered /\ PillClears /\ AskReleased
=============================================================================
