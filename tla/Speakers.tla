------------------------------- MODULE Speakers -------------------------------
(***************************************************************************)
(* The voices of one session: the provisional labels while it runs         *)
(* (diarize/livelabel.py, diarize/live.py), the authoritative pass after   *)
(* it has ended (diarize/service.py), and naming and forgetting voices     *)
(* (api/speakers.py).  Voiceprints are abstracted: which enrolled or heard *)
(* voice one matches is a choice, and so is what the diarizer finds.       *)
(* The live worker is single; every action is at most one transaction.     *)
(***************************************************************************)
EXTENDS Integers, Sequences, FiniteSetsExt, Functions

CONSTANTS LineChannel,      \* the channel of every line
          Labels,           \* names given to voices
          MaxJobs,          \* speaker_live_queue
          MaxVoices,        \* most voices the diarizer finds in a channel
          SpeakerScenarios

\* "cut": a pass is broken off between two commits.
SpeakerEvents == {"name", "forget", "restart", "again", "cut", "dberror", "silent"}

ASSUME SpeakersConfigured == IsFiniteSet(DOMAIN LineChannel) /\ {MaxJobs, MaxVoices} \subseteq Nat

VARIABLES line,      \* segments: saved, speaker_rev, speaker_id
          voice,     \* session_speakers by id
          profile,   \* speaker_profiles by id
          made,      \* profiles made so far
          jobs,      \* the labeler's queue
          label,     \* the job its worker is about to commit
          tracker,   \* its LiveSpeakers: the profiles read at first use, the voices by channel
          turns,     \* speaker_turns: the speakers by channel
          pass,      \* "live", "ended", "stored", "named", "done"
          found,     \* channels of the running pass
          bumps      \* events so far

speakerVars == <<line, voice, profile, made, jobs, label, tracker, turns, pass, found, bumps>>

Lines == DOMAIN LineChannel
LineChannels == Range(LineChannel)
NoOne == <<>>
NoLabel == [line |-> "none"]
Unlabelled == [there |-> TRUE, rev |-> 0, who |-> NoOne]
FreshTracker == [on |-> FALSE, known |-> <<>>, voices |-> [c \in LineChannels |-> <<>>]]

Expected(e) == \E most \in SpeakerScenarios : bumps[e] < most[e] /\ \A f \in SpeakerEvents : bumps[f] <= most[f]
Bumps(e) == Expected(e) /\ bumps' = [bumps EXCEPT ![e] = @ + 1]

NextOrdinal(v) == Max({0} \cup {v[i].ordinal : i \in DOMAIN v}) + 1
Put(f, id, row) == [i \in DOMAIN f \cup {id} |-> IF i = id THEN row ELSE f[i]]

----------------------------------------------------------------------------
(* Provisional labels.                                                      *)
\* The pipeline saved the line; submit leaves out short ones and those that find the queue full.
Submit(l) ==
  /\ pass = "live" /\ ~line[l].there
  /\ line' = [line EXCEPT ![l] = Unlabelled]
  /\ jobs' \in {jobs} \cup (IF Len(jobs) < MaxJobs THEN {Append(jobs, l)} ELSE {})
  /\ UNCHANGED <<voice, profile, made, label, tracker, turns, pass, found, bumps>>

\* LiveSpeakers.assign: the tracker with the voice that spoke, its place, and whether it is new.
\* An enrolled voice is matched first; another joins a voice that is not enrolled, or is new.
Assign(t, c) ==
  LET at(p) == {i \in DOMAIN t.voices[c] : t.voices[c][i] = p}
      Known(i) == [tracker |-> t, n |-> i, new |-> FALSE]
      New(p) == [tracker |-> [t EXCEPT !.voices[c] = Append(@, p)], n |-> Len(t.voices[c]) + 1, new |-> TRUE]
  IN  {Known(i) : i \in at(0)} \cup {New(0)}
        \cup UNION {IF at(p) = {} THEN {New(p)} ELSE {Known(i) : i \in at(p)} : p \in DOMAIN t.known}

\* _tracker_for_user: the profiles are read at the first label and kept.
TrackerForUser == IF tracker.on THEN tracker ELSE [FreshTracker EXCEPT !.on = TRUE, !.known = profile]

\* _label up to the transaction: no print, or an assigned voice.
Embed ==
  /\ jobs # <<>> /\ label = NoLabel /\ jobs' = Tail(jobs)
  /\ LET c == LineChannel[Head(jobs)]
     IN  \/ UNCHANGED <<label, tracker>>
         \/ \E a \in Assign(TrackerForUser, c) :
              /\ tracker' = a.tracker
              /\ label' = [line |-> Head(jobs), id |-> <<"live", c, a.n>>, new |-> a.new, of |-> a.tracker.voices[c][a.n]]
  /\ UNCHANGED <<line, voice, profile, made, turns, pass, found, bumps>>

\* _save_voice: a new voice takes over the row a worker before a restart left.
LiveRow(p) ==
  [channel |-> label.id[2], ordinal |-> NextOrdinal(voice), profile |-> p,
   label |-> IF p = 0 THEN "" ELSE tracker.known[p].label, owner |-> p # 0 /\ tracker.known[p].owner]

\* The transaction: only a line of revision 0.  A profile forgotten since it was read is refused
\* by its foreign key, and an error leaves the voice in the tracker.
CommitLabel ==
  /\ label # NoLabel /\ label' = NoLabel
  /\ \/ /\ line[label.line].rev = 0 /\ (label.new => label.of \in DOMAIN profile \cup {0})
        /\ line' = [line EXCEPT ![label.line].rev = 1, ![label.line].who = label.id]
        /\ voice' = IF label.new THEN Put(voice, label.id, LiveRow(label.of)) ELSE voice
        /\ UNCHANGED bumps
     \/ line[label.line].rev > 0 /\ UNCHANGED <<line, voice, bumps>>
     \/ Bumps("dberror") /\ UNCHANGED <<line, voice>>
     \/ label.new /\ label.of \notin DOMAIN profile \cup {0} /\ UNCHANGED <<line, voice, bumps>>
  /\ UNCHANGED <<profile, made, jobs, tracker, turns, pass, found>>

\* drain waits a little, close cancels the worker: before the pass.
CloseLabeler ==
  /\ pass = "live" /\ pass' = "ended"
  /\ jobs' = <<>> /\ label' = NoLabel /\ tracker' = FreshTracker
  /\ UNCHANGED <<line, voice, profile, made, turns, found, bumps>>

----------------------------------------------------------------------------
(* The pass.                                                                *)
Spoken(c, k) == {<<"spk", c, n>> : n \in 1..k}

\* A mutant: the voices of every channel are replaced.
ReplacedAll(v, count) ==
  LET ids == UNION {Spoken(c, count[c]) : c \in DOMAIN count}
      place == CHOOSE f \in [ids -> 1..Cardinality(ids)] : IsInjective(f)
  IN  [i \in ids |-> [channel |-> i[2], ordinal |-> place[i], label |-> "", profile |-> 0, owner |-> FALSE]]

\* _store: the voices of the channels found go, the others keep theirs and their numbers.
Replaced(v, count) ==
  LET kept == {i \in DOMAIN v : v[i].channel \notin DOMAIN count}
      ids == UNION {Spoken(c, count[c]) : c \in DOMAIN count}
      place == CHOOSE f \in [ids -> 1..Cardinality(ids)] : IsInjective(f)
  IN  [i \in kept \cup ids |->
         IF i \in kept THEN v[i]
         ELSE [channel |-> i[2], ordinal |-> NextOrdinal(Restrict(v, kept)) + place[i] - 1, label |-> "",
               profile |-> 0, owner |-> FALSE]]

\* The diarizer's answers for the channels it did not fail for, stored in one transaction.
Store ==
  /\ pass = "ended"
  /\ \E cs \in SUBSET LineChannels \ {{}} : \E count \in [cs -> 0..MaxVoices] :
       /\ IF \E c \in cs : count[c] = 0 THEN Bumps("silent") ELSE UNCHANGED bumps
       /\ voice' = Replaced(voice, count)
       /\ turns' = [c \in LineChannels |-> IF c \in cs THEN Spoken(c, count[c]) ELSE turns[c]]
       /\ found' = cs
  /\ pass' = "stored"
  /\ UNCHANGED <<line, profile, made, jobs, label, tracker>>

\* No channel has audio or an answer, or there is no diarizer.
FindNothing ==
  /\ pass = "ended" /\ pass' = "done"
  /\ UNCHANGED <<line, voice, profile, made, jobs, label, tracker, turns, found, bumps>>

\* match: a profile is given to one voice of a channel at most.
Matches(ids) ==
  {who \in [ids -> {0} \cup DOMAIN profile] :
     \A i, j \in ids : (i # j /\ i[2] = j[2] /\ who[i] # 0) => who[i] # who[j]}

\* _recognise: the voices of the channels found that are enrolled ones.
Recognise ==
  /\ pass = "stored" /\ pass' = "named"
  /\ \E who \in Matches({i \in DOMAIN voice : voice[i].channel \in found}) :
       voice' = [i \in DOMAIN voice |->
            IF i \in DOMAIN who /\ who[i] # 0
            THEN [voice[i] EXCEPT !.profile = who[i], !.label = profile[who[i]].label, !.owner = profile[who[i]].owner]
            ELSE voice[i]]
  /\ UNCHANGED <<line, profile, made, jobs, label, tracker, turns, found, bumps>>

\* assign: the speaker whose turns cover most of a line, or nobody.
Candidates(c) == {NoOne} \cup turns[c]

\* _align: the lines of the channels with turns.
Aligned(l, who) ==
  IF line[l].there /\ turns[LineChannel[l]] # {}
  THEN [there |-> TRUE, rev |-> Max({line[l].rev + 1, 2}), who |-> who] ELSE line[l]

Align ==
  /\ pass = "named" /\ pass' = "done"
  /\ \E who \in [Lines -> {NoOne} \cup UNION Range(turns)] :
       /\ \A l \in Lines : who[l] \in Candidates(LineChannel[l])
       /\ line' = [l \in Lines |-> Aligned(l, who[l])]
  /\ UNCHANGED <<voice, profile, made, jobs, label, tracker, turns, found, bumps>>

\* run's wait_for, or an error: what is committed stays.
GiveUp ==
  /\ pass \in {"stored", "named"} /\ Bumps("cut") /\ pass' = "done"
  /\ UNCHANGED <<line, voice, profile, made, jobs, label, tracker, turns, found>>

\* A retranscription replaces the lines and has them aligned from the stored turns.
Again ==
  /\ pass = "done" /\ Bumps("again") /\ pass' = "named"
  /\ line' = [l \in Lines |-> IF line[l].there THEN Unlabelled ELSE line[l]]
  /\ UNCHANGED <<voice, profile, made, jobs, label, tracker, turns, found>>

\* The server starts again: a session that ended has its pass run from the start.
Restart ==
  /\ Bumps(IF pass \in {"stored", "named"} THEN "cut" ELSE "restart")
  /\ jobs' = <<>> /\ label' = NoLabel /\ tracker' = FreshTracker
  /\ pass' = IF pass \in {"stored", "named"} THEN "ended" ELSE pass
  /\ UNCHANGED <<line, voice, profile, made, turns, found>>

----------------------------------------------------------------------------
(* Naming.                                                                  *)
ProfileOf(name) == {p \in DOMAIN profile : profile[p].label = name}

\* Only voices of the same person may be "me".
OthersNotMe(v, id) ==
  [i \in DOMAIN v |-> IF i # id /\ v[id].owner /\ (v[i].profile = 0 \/ v[i].profile # v[id].profile)
                      THEN [v[i] EXCEPT !.owner = FALSE] ELSE v[i]]

\* name_speaker with a print to enrol: the profile of that name, or a new one; one owner.
Enrol(id, name, me) ==
  LET p == IF ProfileOf(name) = {} THEN made + 1 ELSE CHOOSE q \in ProfileOf(name) : TRUE
      was == p \in DOMAIN profile /\ profile[p].owner
      others == [q \in DOMAIN profile |-> IF me /\ ~was THEN [profile[q] EXCEPT !.owner = FALSE] ELSE profile[q]]
  IN  /\ profile' = Put(others, p, [label |-> name, owner |-> me \/ was])
      /\ made' = Max({made, p})
      /\ voice' = OthersNotMe([voice EXCEPT ![id].label = name, ![id].profile = p, ![id].owner = me \/ was], id)

NameOnly(id, name, me) ==
  /\ voice' = OthersNotMe([voice EXCEPT ![id].label = name, ![id].owner = @ \/ me], id)
  /\ UNCHANGED <<profile, made>>

NameSpeaker ==
  /\ Bumps("name")
  /\ \E id \in DOMAIN voice : \E name \in Labels : \E me \in BOOLEAN : Enrol(id, name, me) \/ NameOnly(id, name, me)
  /\ UNCHANGED <<line, jobs, label, tracker, turns, pass, found>>

\* delete_profile: voices keep their name and lose the link.
DeleteProfile ==
  /\ Bumps("forget")
  /\ \E p \in DOMAIN profile :
       /\ profile' = Restrict(profile, DOMAIN profile \ {p})
       /\ voice' = [i \in DOMAIN voice |-> IF voice[i].profile = p THEN [voice[i] EXCEPT !.profile = 0] ELSE voice[i]]
  /\ UNCHANGED <<line, made, jobs, label, tracker, turns, pass, found>>

----------------------------------------------------------------------------
\* The user enrolled a voice in an earlier session.
SpeakerInit ==
  /\ line = [l \in Lines |-> [Unlabelled EXCEPT !.there = FALSE]]
  /\ voice = <<>> /\ made = 1 /\ \E name \in Labels : \E me \in BOOLEAN : profile = <<[label |-> name, owner |-> me]>>
  /\ jobs = <<>> /\ label = NoLabel /\ tracker = FreshTracker
  /\ turns = [c \in LineChannels |-> {}] /\ pass = "live" /\ found = {}
  /\ bumps = [e \in SpeakerEvents |-> 0]

SpeakerNext ==
  \/ \E l \in Lines : Submit(l)
  \/ Embed \/ CommitLabel \/ CloseLabeler \/ Store \/ FindNothing \/ Recognise \/ Align \/ GiveUp \/ Again
  \/ Restart \/ NameSpeaker \/ DeleteProfile

----------------------------------------------------------------------------
\* The rows of lines, voices and profiles, and the labeler's worker.
SpeakerTypeOK ==
  /\ \A l \in Lines : line[l].there \in BOOLEAN /\ line[l].rev \in Nat
  /\ \A i \in DOMAIN voice : /\ voice[i].channel = i[2] /\ voice[i].ordinal \in Nat \ {0}
                            /\ voice[i].label \in Labels \cup {""} /\ voice[i].owner \in BOOLEAN
                            /\ voice[i].profile \in 0..made
  /\ DOMAIN profile \subseteq 1..made /\ \A p \in DOMAIN profile : profile[p].label \in Labels
  /\ Range(jobs) \subseteq Lines /\ Len(jobs) <= MaxJobs /\ label.line \in Lines \cup {"none"}
  /\ pass \in {"live", "ended", "stored", "named", "done"} /\ found \subseteq LineChannels

(* Properties.                                                              *)
\* Outside a running pass every labelled line names a voice of the session, unless the pass was
\* cut short, found a channel without a voice, or a first label could not be stored.
SpeakersKnown ==
  (pass \in {"live", "ended", "done"} /\ bumps["cut"] + bumps["dberror"] + bumps["silent"] + bumps["forget"] = 0)
    => \A l \in Lines : line[l].who # NoOne => line[l].who \in DOMAIN voice

\* "Speaker N" is one voice, across channels, takeovers after a restart and the pass.
NumbersDistinct == IsInjective([i \in DOMAIN voice |-> voice[i].ordinal])

\* After the pass no provisional label is left in a channel that has turns.
ProvisionalReplaced ==
  (pass = "done" /\ bumps["cut"] = 0) => \A l \in Lines : turns[LineChannel[l]] # {} => line[l].rev # 1

VoicesSound == SpeakerTypeOK /\ SpeakersKnown /\ NumbersDistinct /\ ProvisionalReplaced

\* What name_speaker says of a session: only voices of the same person are "me".  A provisional
\* or recognised voice marked as the owner leaves the others as they are.
OnePersonIsMe ==
  \A i, j \in DOMAIN voice : (i # j /\ voice[i].owner /\ voice[j].owner) => voice[i].profile # 0 /\ voice[i].profile = voice[j].profile

\* What the pass says of its failures: the transcript stays as it is.
LinesStayKnown == pass \in {"live", "ended", "done"} => \A l \in Lines : line[l].who # NoOne => line[l].who \in DOMAIN voice
=============================================================================
