------------------------------ MODULE MCSpeech ------------------------------
(* What is made of a session's audio, on small instances: its transcript,   *)
(* the tiers that transcribe, its speakers, and the page that shows them.   *)
(* A run explores one of them, as Init chooses.                             *)
EXTENDS Transcript, Tiers, Speakers, Viewing

VARIABLE speech

MCStreamLength == <<[mic |-> 7], [mic |-> 5, system |-> 3]>>
MCTranscriptScenarios == {[away |-> 1, broken |-> 0], [away |-> 0, broken |-> 1]}
MCTierList == <<"gpu", "cpu">>

MCLineChannel == [l1 |-> "mic", l2 |-> "mic", l3 |-> "system"]
SpeakerQuiet == [e \in SpeakerEvents |-> 0]
MCSpeakerScenarios ==
  {[SpeakerQuiet EXCEPT !["name"] = 1, !["forget"] = 1],
   [SpeakerQuiet EXCEPT !["restart"] = 1, !["again"] = 1],
   [SpeakerQuiet EXCEPT !["cut"] = 1],
   [SpeakerQuiet EXCEPT !["dberror"] = 1],
   [SpeakerQuiet EXCEPT !["silent"] = 1, !["again"] = 1]}

ViewQuiet == [e \in ViewEvents |-> 0]
MCViewScenarios ==
  {[ViewQuiet EXCEPT !["line"] = 2],
   [ViewQuiet EXCEPT !["line"] = 1, !["copilot"] = 1, !["drop"] = 1],
   [ViewQuiet EXCEPT !["line"] = 1, !["speaker"] = 1, !["crash"] = 1],
   [ViewQuiet EXCEPT !["line"] = 1, !["draft"] = 1, !["failed"] = 1],
   [ViewQuiet EXCEPT !["line"] = 1, !["delete"] = 1, !["signout"] = 1]}

vars == <<transcriptVars, tierVars, speakerVars, viewVars, speech>>
\* A part that does not run has one initial state.
Init ==
  /\ TranscriptInit /\ TierInit /\ SpeakerInit /\ ViewInit
  /\ speech \in {"transcript", "tiers", "speakers", "viewing"}
  /\ speech # "transcript" => channels = {"mic"}
  /\ speech # "tiers" => serverUp = {}
  /\ speech # "speakers" => profile[1].label = "a" /\ profile[1].owner
  /\ speech # "viewing" => left["line"] = 2
Next ==
  \/ speech = "transcript" /\ TranscriptNext /\ UNCHANGED <<tierVars, speakerVars, viewVars, speech>>
  \/ speech = "tiers" /\ TierNext /\ UNCHANGED <<transcriptVars, speakerVars, viewVars, speech>>
  \/ speech = "speakers" /\ SpeakerNext /\ UNCHANGED <<transcriptVars, tierVars, viewVars, speech>>
  \/ speech = "viewing" /\ ViewNext /\ UNCHANGED <<transcriptVars, tierVars, speakerVars, speech>>
\* Fairness, asked of the part that runs.
\* The tasks run, and a request to Whisper ends by its timeout at the latest.
TranscriptFair ==
  /\ \A c \in Channels : WF_transcriptVars(speech = "transcript" /\ c \in channels /\ (HearNothing(c) \/ Process(c) \/ Discard(c)))
  /\ WF_transcriptVars(speech = "transcript" /\ FinishRelease)
\* The probe loop runs, and requests have timeouts.
TierFair ==
  /\ WF_tierVars(speech = "tiers" /\ Probe) /\ WF_tierVars(speech = "tiers" /\ Probed)
  /\ \A a \in Askers : WF_tierVars(speech = "tiers" /\ (Answers(a) \/ Fails(a)))
\* The timers fire, and requests are answered or fail.
ViewFair ==
  /\ WF_viewVars(speech = "viewing" /\ GetTicket) /\ WF_viewVars(speech = "viewing" /\ OpenSocket) /\ WF_viewVars(speech = "viewing" /\ AfterLoss)
  /\ WF_viewVars(speech = "viewing" /\ Poll) /\ WF_viewVars(speech = "viewing" /\ Receive)
  /\ \A i \in 1 .. MaxReads : WF_viewVars(speech = "viewing" /\ ReadNext(i))
Spec == Init /\ [][Next]_vars /\ TranscriptFair /\ TierFair /\ ViewFair


\* Every utterance is cut, transcribed and stored once, and Whisper being away is not a fault.
SpeechSound == TranscriptTypeOK /\ TierTypeOK /\ SpeechHeard /\ RowsGuarded /\ FaultNotAway

\* Neither the progress of the transcript nor what the page shows of it goes back.
SpeechForward == ProgressForward /\ PageForward

\* The transcript is finished, the tiers are found again, and the page catches up.
SpeechLive == FinishEnds /\ TiersRecover /\ PageCatchesUp
=============================================================================
