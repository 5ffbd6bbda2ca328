------------------------------ MODULE Transcript ------------------------------
(***************************************************************************)
(* One session's SessionPipeline (ingest/pipeline.py) and its Segmenters   *)
(* (ingest/segmenter.py): frames of each channel are cut into segments,    *)
(* one worker per channel has them transcribed in order, and a microphone  *)
(* segment is held until the system channel has settled past it, because   *)
(* the microphone hears what the loudspeakers play.                        *)
(*                                                                         *)
(* Time is counted in frames.  The voice detector's verdict on a frame and *)
(* what Whisper makes of a segment are choices.  The blocks under the      *)
(* pipeline's lock are single steps; what an await inside them may break   *)
(* off half way is kept (ReleaseHeld).                                     *)
(***************************************************************************)
EXTENDS Integers, Sequences, FiniteSetsExt

CONSTANTS CloseFrames,    \* segment_close_silence_ms
          MaxFrames,      \* segment_max_ms
          OverlapFrames,  \* segment_overlap_ms
          MinSpeech,      \* segment_min_speech_ms
          HoldFrames,     \* duplicate_hold_ms
          StreamLength,   \* frames by the number of channels and by channel
          TranscriptScenarios

TranscriptEvents == {"away", "broken"}

\* The defaults (24, 500, 17 and 14 frames) satisfy the last relation: a segment that reaches its
\* longest without having been closed has speech enough.
ASSUME SegmenterConfig ==
  /\ {CloseFrames, MaxFrames, OverlapFrames, MinSpeech} \subseteq Nat \ {0} /\ HoldFrames \in Nat
  /\ OverlapFrames < MaxFrames
  /\ (MaxFrames - OverlapFrames) \div CloseFrames >= MinSpeech

VARIABLES channels,   \* of the session
          heard,      \* the verdicts so far, one BOOLEAN per frame and channel
          open,       \* the Segmenter's open segment
          queue,      \* segments cut and not transcribed
          work,       \* the start of the segment a worker is done with but has not discarded
          held,       \* _held_mic: microphone segments, whose starts order them
          rows,       \* how often each segment was stored and published
          ending,     \* finish: "no", "join" or "over"
          wake,       \* what the releaser waits for; "dead" once an exception ended it
          away,       \* _stt_away
          pending,    \* transcription_pending
          cuts,       \* every segment cut so far (for the properties)
          upset       \* events so far

transcriptVars == <<channels, heard, open, queue, work, held, rows, ending, wake, away, pending, cuts, upset>>

Channels == {"mic", "system"}
NotOpen == [on |-> FALSE, start |-> 0, carry |-> 0]
Nobody == -1

Allowed(e) == \E most \in TranscriptScenarios : upset[e] < most[e] /\ \A f \in TranscriptEvents : upset[f] <= most[f]
Upsets(e) == Allowed(e) /\ upset' = [upset EXCEPT ![e] = @ + 1]

----------------------------------------------------------------------------
(* The Segmenter, over the verdicts h and the open segment o.               *)

TrailingSilence(h, o) == Len(h) - Max({o.start} \cup {i \in (o.start + 1)..Len(h) : h[i]})
Speech(h, from, to) == {i \in (from + 1)..to : h[i]}

\* _build: speech that was only carried over has already been cut.
Build(h, o, end) ==
  IF Cardinality(Speech(h, o.start + o.carry, end)) >= MinSpeech THEN {[start |-> o.start, end |-> end]} ELSE {}

\* _push of the last frame of h: silence closes the segment before the silence, the greatest
\* length cuts it and opens the next one with its last frames.
Push(h, o) ==
  LET p == IF o.on THEN o ELSE IF h[Len(h)] THEN [on |-> TRUE, start |-> Len(h) - 1, carry |-> 0] ELSE NotOpen
  IN  IF ~p.on THEN [open |-> p, cut |-> {}]
      ELSE IF TrailingSilence(h, p) >= CloseFrames
           THEN [open |-> NotOpen, cut |-> Build(h, p, Len(h) - TrailingSilence(h, p))]
      ELSE IF Len(h) - p.start >= MaxFrames
           THEN [open |-> [on |-> TRUE, start |-> Len(h) - OverlapFrames, carry |-> OverlapFrames],
                 cut |-> Build(h, p, Len(h))]
      ELSE [open |-> p, cut |-> {}]

Flush(h, o) == IF o.on THEN Build(h, o, Len(h) - TrailingSilence(h, o)) ELSE {}

----------------------------------------------------------------------------
(* Cutting, and how far each channel has been transcribed.                  *)
Position(c) == Len(heard[c])
Inflight(c) == {queue[c][i].start : i \in DOMAIN queue[c]} \cup ({work[c]} \ {Nobody})

\* _transcribed_ms: up to the first segment that waits, else the open one, else everything.
Transcribed(c) == Min({IF open[c].on THEN open[c].start ELSE Position(c)} \cup Inflight(c))

\* _enqueue of the segments in cut: at most one.
Enqueued(c, cut) == IF cut = {} THEN queue[c] ELSE Append(queue[c], CHOOSE s \in cut : TRUE)

Feed(c) ==
  /\ ending = "no" /\ Position(c) < StreamLength[Cardinality(channels)][c]
  /\ \E speech \in BOOLEAN :
       LET h == Append(heard[c], speech)
           p == Push(h, open[c])
       IN  /\ heard' = [heard EXCEPT ![c] = h] /\ open' = [open EXCEPT ![c] = p.open]
           /\ queue' = [queue EXCEPT ![c] = Enqueued(c, p.cut)]
           /\ cuts' = [cuts EXCEPT ![c] = @ \cup p.cut]
  /\ wake' = IF c = "system" /\ wake = "no" THEN "yes" ELSE wake
  /\ UNCHANGED <<channels, work, held, rows, ending, away, pending, upset>>

----------------------------------------------------------------------------
(* Releasing what is held.                                                  *)
Overlap(m, s) == m.start < s.end /\ s.start < m.end
Duplicate(m, stored) ==
  m.text = "echo" /\ \E r \in DOMAIN stored : r.channel = "system" /\ Overlap(m, r)

Settled(m) == Transcribed("system") >= m.end
HeldLong(m) == Position("mic") - m.end >= HoldFrames
Why(m) == IF HeldLong(m) THEN "held long" ELSE IF ending # "no" /\ ~Settled(m) THEN "ending" ELSE "settled"
Row(m) == [channel |-> m.channel, start |-> m.start, end |-> m.end, text |-> m.text, why |-> Why(m)]

\* A mutant: a segment is released once the system channel has been heard past it.
ReadyHeard(m) == ending # "no" \/ Position("system") >= m.end \/ HeldLong(m)

\* A mutant: the end of the stream makes no difference.
ReadySettled(m) == Settled(m) \/ HeldLong(m)

\* The system channel has settled past the segment, or the microphone is too far ahead, or the
\* stream ends.
Ready(m) == ending # "no" \/ Settled(m) \/ HeldLong(m)

Emitted(waiting, stored) == {m \in waiting : Ready(m) /\ ~Duplicate(m, stored)}

\* After the rows stored, each of those in some is stored.
Stored(stored, some) ==
  [r \in DOMAIN stored \cup some |-> (IF r \in DOMAIN stored THEN stored[r] ELSE 0) + (IF r \in some THEN 1 ELSE 0)]

\* _release_held of the segments waiting, after the rows stored: all that are ready are stored
\* and leave the list.  An exception while storing one leaves the list as it was, with those
\* already stored.
ReleaseHeld(waiting, stored) ==
  /\ rows' = Stored(stored, {Row(m) : m \in Emitted(waiting, stored)})
  /\ held' = {m \in waiting : ~Ready(m)}

ReleaseBreaks(waiting, stored) ==
  \E failing \in Emitted(waiting, stored) :
    /\ Upsets("broken") /\ held' = waiting
    /\ rows' = Stored(stored, {Row(m) : m \in {n \in Emitted(waiting, stored) : n.start < failing.start}})

\* _releaser: not guarded against exceptions.
Releaser ==
  /\ wake = "yes" /\ ending # "over"
  /\ \/ ReleaseHeld(held, rows) /\ wake' = "no" /\ UNCHANGED upset
     \/ ReleaseBreaks(held, rows) /\ wake' = "dead"
  /\ UNCHANGED <<channels, heard, open, queue, work, ending, away, pending, cuts>>

----------------------------------------------------------------------------
(* The workers.  A segment is in flight from its cut until it is discarded. *)
Pops(c) == /\ work[c] = Nobody /\ queue[c] # <<>>
           /\ work' = [work EXCEPT ![c] = Head(queue[c]).start]
           /\ queue' = [queue EXCEPT ![c] = Tail(@)]

\* Nothing was said, or Whisper made it up, or it is Jarvis heard back.
HearNothing(c) ==
  /\ Pops(c) /\ away' = FALSE
  /\ UNCHANGED <<channels, heard, open, held, rows, ending, wake, pending, cuts, upset>>

\* _keep_for_later, said once per outage.
KeepForLater(c) ==
  /\ Pops(c) /\ Upsets("away")
  /\ away' = TRUE /\ pending' = (pending \/ ~away)
  /\ UNCHANGED <<channels, heard, open, held, rows, ending, wake, cuts>>

\* _process: a system segment is stored at once, and so is any if there is no system channel; a
\* microphone segment joins those held; then what is ready is released.  A failing store loses
\* the segment, not the worker.
Process(c) ==
  /\ Pops(c) /\ away' = FALSE
  /\ \E text \in {"own", "echo"} :
       LET m == [channel |-> c, start |-> Head(queue[c]).start, end |-> Head(queue[c]).end, text |-> text]
           first == [channel |-> c, start |-> m.start, end |-> m.end, text |-> text, why |-> "at once"]
       IN  /\ (text = "echo") => "system" \in channels /\ c = "mic"
           /\ IF c = "system" \/ "system" \notin channels
              THEN \/ ReleaseHeld(held, Stored(rows, {first})) /\ UNCHANGED upset
                   \/ Upsets("broken") /\ UNCHANGED <<rows, held>>
                   \/ ReleaseBreaks(held, Stored(rows, {first}))
              ELSE \/ ReleaseHeld(held \cup {m}, rows) /\ UNCHANGED upset
                   \/ ReleaseBreaks(held \cup {m}, rows)
  /\ UNCHANGED <<channels, heard, open, ending, wake, pending, cuts>>

\* The end of the worker's round: the segment leaves those in flight and the releaser is woken.
Discard(c) ==
  /\ work[c] # Nobody
  /\ work' = [work EXCEPT ![c] = Nobody]
  /\ wake' = IF wake = "no" THEN "yes" ELSE wake
  /\ UNCHANGED <<channels, heard, open, queue, held, rows, ending, away, pending, cuts, upset>>

----------------------------------------------------------------------------
(* finish.                                                                  *)
Finish ==
  /\ ending = "no" /\ ending' = "join"
  /\ LET cut == [c \in Channels |-> Flush(heard[c], open[c])]
     IN  /\ queue' = [c \in Channels |-> Enqueued(c, cut[c])]
         /\ cuts' = [c \in Channels |-> cuts[c] \cup cut[c]]
  /\ open' = [c \in Channels |-> NotOpen]
  /\ UNCHANGED <<channels, heard, work, held, rows, wake, away, pending, upset>>

Joined == \A c \in Channels : queue[c] = <<>> /\ work[c] = Nobody

FinishRelease ==
  /\ ending = "join" /\ Joined /\ ending' = "over"
  /\ \/ ReleaseHeld(held, rows) /\ UNCHANGED upset
     \/ ReleaseBreaks(held, rows)
  /\ UNCHANGED <<channels, heard, open, queue, work, wake, away, pending, cuts>>

----------------------------------------------------------------------------
TranscriptInit ==
  /\ channels \in {{"mic"}, {"mic", "system"}}
  /\ heard = [c \in Channels |-> <<>>] /\ open = [c \in Channels |-> NotOpen]
  /\ queue = [c \in Channels |-> <<>>] /\ work = [c \in Channels |-> Nobody]
  /\ held = {} /\ rows = <<>> /\ ending = "no" /\ wake = "no" /\ away = FALSE /\ pending = FALSE
  /\ cuts = [c \in Channels |-> {}] /\ upset = [e \in TranscriptEvents |-> 0]

Worker(c) == HearNothing(c) \/ KeepForLater(c) \/ Process(c) \/ Discard(c)

TranscriptNext == (\E c \in channels : Feed(c) \/ Worker(c)) \/ Releaser \/ Finish \/ FinishRelease

----------------------------------------------------------------------------
(* Properties.                                                              *)
\* Two frames belong to one utterance when no silence that closes a segment lies between them.
SameUtterance(h, i, j) ==
  ~\E k \in Min({i, j})..(Max({i, j}) - CloseFrames) : \A n \in (k + 1)..(k + CloseFrames) : ~h[n]

Unheard(c) ==
  {i \in Speech(heard[c], 0, IF open[c].on THEN open[c].start ELSE Position(c)) :
     \A s \in cuts[c] : ~(s.start < i /\ i <= s.end)}

\* The verdicts, the segments in their queues, and the rows.
TranscriptTypeOK ==
  /\ \A c \in Channels :
       /\ Range(heard[c]) \subseteq BOOLEAN /\ work[c] \in 0..Position(c) \cup {Nobody}
       /\ open[c] \in [on : BOOLEAN, start : 0..Position(c), carry : {0, OverlapFrames}]
       /\ \A s \in cuts[c] \cup Range(queue[c]) : 0 <= s.start /\ s.start < s.end /\ s.end <= Position(c)
  /\ \A m \in held : m.channel = "mic" /\ m.text \in {"own", "echo"}
  /\ \A r \in DOMAIN rows : r.channel \in channels
  /\ ending \in {"no", "join", "over"} /\ wake \in {"no", "yes", "dead"} /\ {away, pending} \subseteq BOOLEAN

\* The Segmenter leaves out less speech of an utterance than a segment has to have, whatever the
\* silences, the cuts at the greatest length and the frames carried over between them.
SpeechHeard ==
  \A c \in Channels : \A i \in Unheard(c) :
    Cardinality({j \in Unheard(c) : SameUtterance(heard[c], i, j)}) < MinSpeech

\* How far a channel is transcribed, which the duplicate guard and the progress shown rely on,
\* never goes back: not when a segment is cut from audio that seemed settled.
ProgressForward == [][\A c \in Channels : Transcribed(c)' >= Transcribed(c)]_transcriptVars

\* As long as the database answers, every segment is stored once; and of the speech that both
\* channels heard the microphone's copy is stored only if it could not be held any longer.
RowsGuarded ==
  /\ upset["broken"] = 0 =>
       \A r, s \in DOMAIN rows : rows[r] = 1 /\ (r # s => <<r.channel, r.start>> # <<s.channel, s.start>>)
  /\ \A r, s \in DOMAIN rows :
       (r.text = "echo" /\ s.channel = "system" /\ Overlap(r, s)) => r.why \in {"held long", "ending"}

\* A stream that ends is transcribed to its end, and nothing is held when that is done.
FinishEnds == (ending = "join") ~> (ending = "over" /\ (upset["broken"] = 0 => held = {}))

\* What the guard is said to do at all times: a microphone segment waits until the system channel
\* has settled past it.  The code lets go of everything as soon as the stream ends.
GuardUntilSettled ==
  \A r, s \in DOMAIN rows :
    (r.text = "echo" /\ s.channel = "system" /\ Overlap(r, s)) => r.why = "held long"
=============================================================================
