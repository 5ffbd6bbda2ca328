---------------------------- MODULE MCAssistant -----------------------------
(* The two assistants of a live session on small instances: the requests    *)
(* spoken to Jarvis, and the copilot with the intake of proposals.  A run   *)
(* explores the one or the other, as Init chooses.                          *)
EXTENDS Voice, Copilot

VARIABLE part

VoiceQuiet == [e \in VoiceEvents |-> 0]
MCVoiceScenarios ==
  {[VoiceQuiet EXCEPT !["wake"] = 1, !["ask"] = 2],
   [VoiceQuiet EXCEPT !["wake"] = 1, !["echo"] = 1, !["ask"] = 1, !["play"] = 1],
   [VoiceQuiet EXCEPT !["wake"] = 2, !["talk"] = 1, !["failed"] = 1],
   [VoiceQuiet EXCEPT !["wake"] = 1, !["ask"] = 1, !["failed"] = 1],
   [VoiceQuiet EXCEPT !["wake"] = 1, !["ask"] = 1, !["limit"] = 1],
   [VoiceQuiet EXCEPT !["wake"] = 1, !["talk"] = 1, !["ask"] = 1, !["end"] = 1]}

Said(what, when) == [what |-> what, when |-> when, cites |-> 1, valid |-> TRUE]
Item(id, text, due) == [id |-> id, text |-> text, due |-> due]
MCDeltas ==
  {[NoDelta EXCEPT !.upserts = <<Item(0, "a", "none")>>, !.title = TRUE, !.suggest = "s",
                   !.proposals = <<Said("x", "none"), [Said("z", "none") EXCEPT !.valid = FALSE], Said("y", "mon")>>],
   [NoDelta EXCEPT !.upserts = <<Item(1, "b", "mon"), Item(0, "b", "tue")>>, !.topics = TRUE,
                   !.proposals = <<Said("x", "tue")>>],
   [NoDelta EXCEPT !.remove = {1}, !.dismiss = {1}, !.topics = TRUE,
                   !.proposals = <<[Said("w", "none") EXCEPT !.cites = 9]>>]}
MCSpokenProposals ==
  {[incoming |-> <<Said("x", "mon")>>, said |-> "no date"], [incoming |-> <<Said("x", "tue")>>, said |-> "date"]}
CopilotQuiet == [e \in CopilotEvents |-> 0]
MCCopilotScenarios ==
  {[CopilotQuiet EXCEPT !["announce"] = 1, !["rename"] = 1],
   [CopilotQuiet EXCEPT !["voice"] = 1, !["crash"] = 1, !["review"] = 1],
   [CopilotQuiet EXCEPT !["failed"] = 1, !["voice"] = 1]}

vars == <<voiceVars, copilotVars, part>>
Init == VoiceInit /\ CopilotInit /\ part \in {"voice", "copilot"}
Next ==
  \/ part = "voice" /\ VoiceNext /\ UNCHANGED <<copilotVars, part>>
  \/ part = "copilot" /\ CopilotNext /\ UNCHANGED <<voiceVars, part>>
\* Fairness, asked of the part that runs.
\* Tasks run, the loop polls, and Whisper answers.
VoiceFair ==
  /\ WF_voiceVars(part = "voice" /\ AskTasks) /\ WF_voiceVars(part = "voice" /\ Tick)
  /\ WF_voiceVars(part = "voice" /\ StorePlayed) /\ WF_voiceVars(part = "voice" /\ Transcribe)
\* The loop polls, the LLM and the database answer or fail in time, and tasks run.
CopilotFair ==
  /\ WF_copilotVars(part = "copilot" /\ Loop) /\ WF_copilotVars(part = "copilot" /\ AnnouncePersist)
  /\ \A p \in Producers : WF_copilotVars(part = "copilot" /\ Intaking(p))
Spec == Init /\ [][Next]_vars /\ VoiceFair /\ CopilotFair


\* Neither assistant takes back what it said: replies go to the last ask, a reply that was played
\* stays so, and a title once given is kept.
AssistantForward == RepliesToLast /\ PlayedStays /\ TitleKept
=============================================================================
