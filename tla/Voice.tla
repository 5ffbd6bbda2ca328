------------------------------- MODULE Voice --------------------------------
(***************************************************************************)
(* Requests spoken to Jarvis in one live session: the loop that hears them *)
(* in the transcript, the desk that takes held asks from the audio, and    *)
(* the guard against Jarvis hearing himself.                               *)
(*                                                                         *)
(* The mic's stream is a sequence of stretches of equal length; stretch k  *)
(* becomes the line k of the transcript, ends at position k, and is quiet, *)
(* talk, a wake phrase, or Jarvis's own voice saying one.  Client and      *)
(* server count the same positions.  What the LLM makes of a request is a  *)
(* choice; its filing counts, whatever queue it goes to.                   *)
(***************************************************************************)
EXTENDS Naturals, Sequences, SequencesExt, FiniteSets, FiniteSetsExt

CONSTANTS MaxPos, MaxAsks,
          MaxWindows,  \* finished asks remembered
          Preroll, MaxHold, Settle, MaxRequest, Pad,  \* lengths, in stretches
          VoiceScenarios

ASSUME VoiceBounds == {MaxPos, MaxAsks, MaxWindows, Preroll, MaxHold, Settle, MaxRequest, Pad} \subseteq Nat

VARIABLES
  said,     \* the mic's stream so far
  finals,   \* how many of its lines are final in the database
  echoes,   \* lines dropped as Jarvis's own voice
  live,     \* "live", then "ending"
  audio,    \* AskAudio: the ask that is held, the windows of finished ones
  desk,     \* AskDesk: the ask that is held, the tasks that answer, the last ask begun
  replies,  \* the asks replied to, in order
  plays,    \* EchoGuard: from where to where each reply was played
  writes,   \* the writes of how a reply was played, in the order they were asked for
  played,   \* what the rows say of it
  loop,     \* VoiceLoop: its cursors and the request it is filing
  filings,  \* the lines of every request filed, with and without the pre-roll of an ask
  handled,  \* lines a request or an ask was made of
  voiceBudget

micVars == <<said, finals, echoes>>
askVars == <<audio, desk, replies, plays, writes, played>>
loopVars == <<loop, filings, handled>>
voiceVars == <<micVars, live, askVars, loopVars, voiceBudget>>

VoiceEvents == {"wake", "talk", "echo", "ask", "play", "failed", "limit", "end"}
Asks == 1..MaxAsks
Unended == MaxPos + MaxHold + 1
NoAsk == [id |-> 0, begin |-> 0, start |-> 0, end |-> Unended]
NoDesk == [held |-> 0, tasks |-> {}, last |-> 0, made |-> 0]
NewLoop == [pc |-> "idle", cursor |-> 0, heard |-> {}, until |-> 0]
Never(events) == \A e \in events : voiceBudget[e] = 0
VoiceAffords(e) ==
  \E most \in VoiceScenarios : voiceBudget[e] < most[e] /\ \A f \in VoiceEvents : voiceBudget[f] <= most[f]
VoiceSpend(e) == VoiceAffords(e) /\ voiceBudget' = [voiceBudget EXCEPT ![e] = @ + 1]

VoiceInit ==
  /\ said = <<>> /\ finals = 0 /\ echoes = {} /\ live = "live"
  /\ audio = [held |-> NoAsk, windows |-> <<>>]
  /\ desk = NoDesk /\ replies = <<>> /\ plays = <<>>
  /\ writes = <<>> /\ played = [i \in Asks |-> "none"]
  /\ loop = NewLoop /\ filings = <<>>
  /\ handled = {} /\ voiceBudget = [e \in VoiceEvents |-> 0]

Pos == Len(said)

-----------------------------------------------------------------------------
(* AskAudio *)

\* The ask's frames as far as they have arrived, with the pre-roll.
Clip(h) ==
  LET end == IF h.end = Unended THEN h.begin + MaxHold ELSE h.end
  IN {k \in 1..Pos : k > h.start /\ k <= end}

\* The ask ended and its last frame is here, or it was held to the limit.
Complete(h, pos) == h.id # 0 /\ pos >= (IF h.end = Unended THEN h.begin + MaxHold ELSE h.end)

Remember(w) == LET ws == Append(audio.windows, w)
               IN IF Len(ws) > MaxWindows THEN Tail(ws) ELSE ws

Window(h) == <<h.start, IF Clip(h) = {} THEN h.start ELSE Max(Clip(h))>>
Taken == [held |-> NoAsk, windows |-> Remember(Window(audio.held))]

\* A mutant: only the ask that is held keeps its words from the loop.
InHeldWindow(k) == audio.held.id # 0 /\ k > audio.held.start

InWindow(k) ==
  \/ audio.held.id # 0 /\ k > audio.held.start
  \/ \E i \in DOMAIN audio.windows : k > audio.windows[i][1] /\ k <= audio.windows[i][2]

-----------------------------------------------------------------------------
(* The producer: audio and markers *)

\* _finish: a task of its own answers.
Finish(id) ==
  [desk EXCEPT !.held = 0, !.made = @ + 1,
               !.tasks = @ \cup {[id |-> id, no |-> desk.made + 1, pc |-> "wait", clip |-> {}, begin |-> 0]}]
\* _cancel: the ask that is held is dropped, the task made last is cancelled if it has not ended.
Cancelled == [desk EXCEPT !.held = 0, !.tasks = {t \in @ : t.no # desk.made}]

\* feed: an ask held to the limit is answered as far as it was said.
Speak(kind) ==
  /\ live = "live" /\ Pos < MaxPos /\ said' = Append(said, kind)
  /\ LET limit == desk.held # 0 /\ Complete(audio.held, Pos + 1)
     IN /\ \/ limit /\ VoiceSpend("limit")
           \/ ~limit /\ kind # "quiet" /\ VoiceSpend(kind)
           \/ ~limit /\ kind = "quiet" /\ UNCHANGED voiceBudget
        /\ desk' = IF limit THEN Finish(desk.held) ELSE desk
  /\ kind = "echo" => \E i \in DOMAIN plays : plays[i][2] = 0 \/ Pos < plays[i][2] + Pad
  /\ UNCHANGED <<finals, echoes, live, audio, replies, plays, writes, played, loopVars>>

\* begin: one ask at a time.  A held one is dropped, and the task that answers is cancelled.
Press ==
  /\ live = "live" /\ desk.last < MaxAsks /\ VoiceSpend("ask")
  /\ desk' = [Cancelled EXCEPT !.held = desk.last + 1, !.last = desk.last + 1]
  /\ LET before == IF desk.held # 0 THEN Taken ELSE audio
         start == IF Pos < Preroll THEN 0 ELSE Pos - Preroll
     IN audio' = [before EXCEPT !.held = [id |-> desk.last + 1, begin |-> Pos, start |-> start,
                                          end |-> Unended]]
  /\ handled' = IF desk.held # 0 THEN handled \cup Clip(audio.held) ELSE handled
  /\ UNCHANGED <<micVars, live, replies, plays, writes, played, loop, filings>>

\* end: the key is let go now, or a stretch ahead of the audio that has arrived.  The desk may
\* have begun to answer already, at the limit.
LetGo(ahead) ==
  /\ live = "live" /\ audio.held.id # 0 /\ audio.held.end = Unended
  /\ audio' = [audio EXCEPT !.held.end = Min({Pos + ahead, audio.held.begin + MaxHold})]
  /\ desk' = Finish(audio.held.id)
  /\ UNCHANGED <<micVars, live, replies, plays, writes, played, loopVars, voiceBudget>>

\* played: the client starts and finishes reading a reply aloud.
PlayStarted(id) ==
  /\ live = "live" /\ id \in Range(replies) /\ id = desk.last /\ \A i \in DOMAIN plays : plays[i][3] # id
  /\ VoiceSpend("play")
  /\ plays' = Append(plays, <<Pos, 0, id>>) /\ writes' = Append(writes, [id |-> id, state |-> "started"])
  /\ UNCHANGED <<micVars, live, audio, desk, replies, played, loopVars>>

PlayDone(i) ==
  /\ live = "live" /\ plays[i][2] = 0
  /\ plays' = [plays EXCEPT ![i][2] = Max({Pos, 1})]
  /\ writes' = Append(writes, [id |-> plays[i][3], state |-> "done"])
  /\ UNCHANGED <<micVars, live, audio, desk, replies, played, loopVars, voiceBudget>>

\* A mutant: each write is a task of its own, and the row's lock goes to any of them.
StorePlayedUnordered ==
  \E i \in DOMAIN writes :
    /\ played' = [played EXCEPT ![writes[i].id] = writes[i].state] /\ writes' = RemoveAt(writes, i)
    /\ UNCHANGED <<micVars, live, audio, desk, replies, plays, loopVars, voiceBudget>>

\* Each write waits for the one before it.
StorePlayed ==
  /\ writes # <<>>
  /\ played' = [played EXCEPT ![Head(writes).id] = Head(writes).state] /\ writes' = Tail(writes)
  /\ UNCHANGED <<micVars, live, audio, desk, replies, plays, loopVars, voiceBudget>>

\* The pipeline transcribes the mic's stretches in order; Jarvis's own words are dropped.
IsEcho(k) ==
  /\ said[k] = "echo"
  /\ \E i \in DOMAIN plays : k + Pad > plays[i][1] /\ (plays[i][2] = 0 \/ k <= plays[i][2] + Pad)

Transcribe ==
  /\ finals < Pos /\ finals' = finals + 1
  /\ echoes' = IF IsEcho(finals + 1) THEN echoes \cup {finals + 1} ELSE echoes
  /\ UNCHANGED <<said, live, askVars, loopVars, voiceBudget>>

-----------------------------------------------------------------------------
(* Answering an ask *)

Move(t, u) == desk' = [desk EXCEPT !.tasks = (@ \ {t}) \cup {u}]
Wakes(lines) == {k \in lines : said[k] = "wake"}

\* The audio is complete, or the tail did not come in time.  There may be nothing to take.
TakeClip(t) ==
  /\ t.pc = "wait"
  /\ IF audio.held.id = t.id
     THEN /\ LET clip == Clip(audio.held)
             IN /\ Move(t, [t EXCEPT !.pc = IF clip = {} THEN "reply" ELSE "stt", !.clip = clip,
                                        !.begin = audio.held.begin])
                /\ handled' = handled \cup clip
          /\ audio' = Taken
     ELSE Move(t, [t EXCEPT !.pc = "reply"]) /\ UNCHANGED <<audio, handled>>
  /\ UNCHANGED <<micVars, live, replies, plays, writes, played, loop, filings, voiceBudget>>

\* No speech, no tier, a hallucination: the ask is stored as such.  Words that open with the
\* wake phrase are a request.
HearClip(t) ==
  /\ t.pc = "stt"
  /\ \/ Move(t, [t EXCEPT !.pc = IF Wakes(t.clip) = {} THEN "ask" ELSE "file"]) /\ UNCHANGED voiceBudget
     \/ Move(t, [t EXCEPT !.pc = "store"]) /\ VoiceSpend("failed")
  /\ UNCHANGED <<micVars, live, audio, replies, plays, writes, played, loopVars>>

\* VoicePass: the LLM reads the request, and a homelab session, a work item or proposals are filed.
File(all, held) == filings' = Append(filings, [all |-> all, held |-> held])

\* The voice pass files it; or it is no request after all and is answered.
FileAsk(t) ==
  /\ t.pc = "file"
  /\ \/ File(t.clip, {k \in t.clip : k > t.begin}) /\ Move(t, [t EXCEPT !.pc = "store"]) /\ UNCHANGED voiceBudget
     \/ UNCHANGED filings /\ Move(t, [t EXCEPT !.pc = "ask"]) /\ VoiceSpend("failed")
  /\ UNCHANGED <<micVars, live, audio, replies, plays, writes, played, loop, handled>>

\* The question is answered from the transcript and the notes, or times out: either is stored.
Answer(t) ==
  /\ t.pc = "ask" /\ Move(t, [t EXCEPT !.pc = "store"])
  /\ UNCHANGED <<micVars, live, audio, replies, plays, writes, played, loopVars, voiceBudget>>

\* Storing may fail: then the reply is an apology, and there is no row.
StoreAsk(t) ==
  /\ t.pc = "store"
  /\ \/ Move(t, [t EXCEPT !.pc = "reply"]) /\ UNCHANGED voiceBudget
     \/ Move(t, [t EXCEPT !.pc = "reply"]) /\ VoiceSpend("failed")
  /\ UNCHANGED <<micVars, live, audio, replies, plays, writes, played, loopVars>>

Reply(t) ==
  /\ t.pc = "reply" /\ replies' = Append(replies, t.id)
  /\ desk' = [desk EXCEPT !.tasks = @ \ {t}]
  /\ UNCHANGED <<micVars, live, audio, plays, writes, played, loopVars, voiceBudget>>

-----------------------------------------------------------------------------
(* The loop *)

\* The owner's final lines past the cursor that no ask was cut from.
OwnLines ==
  {k \in (loop.cursor + 1)..finals : said[k] # "quiet" /\ k \notin echoes /\ ~InWindow(k)}
Opens(k) == said[k] \in {"wake", "echo"}

\* The lines of the request that opens with first: until a pause, the next wake phrase, or too long.
RequestLines(lines, first) ==
  {x \in lines : x >= first /\ \A y \in lines : first < y /\ y <= x =>
     /\ ~Opens(y) /\ y < first + MaxRequest
     /\ \E z \in lines : z < y /\ z >= first /\ y <= z + 1 + Settle}

\* A mutant: a look that finds no wake phrase moves past everything said so far.
ListenAhead(final) ==
  LET lines == OwnLines
      opening == {k \in lines : Opens(k)}
      first == Min(opening)
      taken == RequestLines(lines, first)
      ended == final \/ Max(lines) > Max(taken) \/ Pos >= Max(taken) + Settle
  IN  /\ loop.pc = "idle" /\ lines # {}
      /\ loop' = IF opening = {} THEN [loop EXCEPT !.cursor = Pos]
                 ELSE IF ~ended THEN [loop EXCEPT !.cursor = Max({loop.cursor, first - 1})]
                 ELSE [loop EXCEPT !.pc = "file", !.heard = taken, !.until = Max(taken)]
      /\ loop' # loop
      /\ UNCHANGED <<micVars, live, askVars, filings, handled, voiceBudget>>

\* One look: nothing, a request still being spoken, or one that ended.
Listen(final) ==
  LET lines == OwnLines
      opening == {k \in lines : Opens(k)}
      first == Min(opening)
      taken == RequestLines(lines, first)
      ended == final \/ Max(lines) > Max(taken) \/ Pos >= Max(taken) + Settle
  IN  /\ loop.pc = "idle" /\ lines # {}
      /\ loop' = IF opening = {} THEN [loop EXCEPT !.cursor = Max(lines)]
                 ELSE IF ~ended THEN [loop EXCEPT !.cursor = Max({loop.cursor, first - 1})]
                 ELSE [loop EXCEPT !.pc = "file", !.heard = taken, !.until = Max(taken)]
      /\ loop' # loop
      /\ UNCHANGED <<micVars, live, askVars, filings, handled, voiceBudget>>

\* The pass files the request, makes nothing of it, or fails; the speaker is told once.
FileHeard ==
  /\ loop.pc = "file"
  /\ \/ File(loop.heard, loop.heard) /\ UNCHANGED voiceBudget
     \/ UNCHANGED filings /\ VoiceSpend("failed")
  /\ loop' = [loop EXCEPT !.pc = "store"]
  /\ UNCHANGED <<micVars, live, askVars, handled>>

\* The cursor is stored before the reply.
StoreCursor ==
  /\ loop.pc = "store"
  /\ loop' = [loop EXCEPT !.pc = "idle", !.cursor = loop.until, !.heard = {}]
  /\ handled' = handled \cup loop.heard
  /\ UNCHANGED <<micVars, live, askVars, filings, voiceBudget>>

\* stop_voice: the pipeline has drained; the desk closes, the loop is cancelled wherever it is,
\* and what is left is heard out.
StopVoice ==
  /\ live = "live" /\ finals = Pos /\ VoiceSpend("end") /\ live' = "ending"
  /\ audio' = IF desk.held # 0 THEN Taken ELSE audio
  /\ handled' = IF desk.held # 0 THEN handled \cup Clip(audio.held) ELSE handled
  /\ desk' = Cancelled
  /\ loop' = [loop EXCEPT !.pc = "idle", !.heard = {}]
  /\ UNCHANGED <<micVars, replies, plays, writes, played, filings>>

Task(t) == TakeClip(t) \/ HearClip(t) \/ FileAsk(t) \/ Answer(t) \/ StoreAsk(t) \/ Reply(t)
AskTasks == \E t \in desk.tasks : Task(t)
Tick == Listen(live = "ending") \/ FileHeard \/ StoreCursor
Client ==
  \/ \E kind \in {"quiet", "talk", "wake", "echo"} : Speak(kind)
  \/ Press \/ (\E ahead \in {0, 1} : LetGo(ahead))
  \/ (\E id \in Asks : PlayStarted(id)) \/ (\E i \in DOMAIN plays : PlayDone(i))

VoiceNext == Client \/ AskTasks \/ Tick \/ StorePlayed \/ Transcribe \/ StopVoice

-----------------------------------------------------------------------------
(* Properties *)

\* Positions are of the stream, and asks are ones that were begun.
VoiceTypeOK ==
  /\ Range(said) \subseteq {"quiet", "talk", "wake", "echo"} /\ finals \in 0..Pos /\ echoes \subseteq 1..finals
  /\ live \in {"live", "ending"}
  /\ audio.held.id \in 0..desk.last /\ audio.held.begin \in 0..Pos /\ Len(audio.windows) <= MaxWindows
  /\ desk.held \in {0, desk.last} /\ desk.last \in 0..MaxAsks
  /\ \A t \in desk.tasks : /\ t.id \in 1..desk.last /\ t.no \in 1..desk.made /\ t.clip \subseteq 1..Pos
                          /\ t.pc \in {"wait", "stt", "file", "ask", "store", "reply"}
  /\ Range(replies) \subseteq 1..desk.last /\ played \in [Asks -> {"none", "started", "done"}]
  /\ loop.pc \in {"idle", "file", "store"} /\ loop.cursor \in 0..finals /\ loop.heard \subseteq 1..finals
  /\ handled \subseteq 1..Pos

\* No word is part of two filed requests (a pre-roll aside): what an ask was cut from is not heard again by the loop,
\* and what the loop filed is not read again -- as long as no more asks are made than windows are
\* remembered and the session's end does not cancel a filing half way.
FiledOnce ==
  \A i, j \in DOMAIN filings : filings[i].held \cap filings[j].held # {} => i = j
FiledOnceLive == VoiceTypeOK /\ (Never({"end"}) /\ desk.last <= MaxWindows => FiledOnce)

\* A reply is only ever given to the last ask: one that a new press replaced stays silent.  (Held
\* to the limit and let go at the same moment, an ask is answered by two tasks.)
RepliesToLast ==
  [][Never({"limit"}) /\ replies' # replies => Last(replies') = desk.last]_voiceVars

\* Once a row says its reply was played to the end it goes on saying so.
PlayedStays == [][\A i \in Asks : played[i] = "done" => played'[i] = "done"]_voiceVars

\* Every wake phrase that reached the transcript is heard out, by the loop or by the ask it is in,
\* past asks and failures: once the longest request and a pause have passed, or the session ended.
\* (An ask the session ends on, or that is held still, keeps its words from the loop.)
Due(k) == said[k] = "wake" /\ (live = "ending" \/ Pos >= k + MaxRequest + Settle)
HeardOut == []<>(\A k \in 1..finals : Due(k) => k \in handled \/ InWindow(k))
=============================================================================
