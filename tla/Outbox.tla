------------------------------- MODULE Outbox -------------------------------
(***************************************************************************)
(* The capture client's durable store of audio frames for one session      *)
(* (jarvis_live/client/outbox.py), at the granularity of its file writes.  *)
(*                                                                         *)
(* Per channel there is a payload file (pcm), an index file with one line  *)
(* per frame, and one acked.json for all channels.  The process may die    *)
(* between any two writes; reopening recovers what the files still prove.  *)
(* Payloads are capture ordinals, every frame is one unit long, so a byte  *)
(* offset is a number of frames and a seq is a position in the recording.  *)
(***************************************************************************)
EXTENDS Integers, Sequences, FiniteSets

CONSTANTS Channels,             \* "mic", "system"
          CompactionThreshold,  \* compaction_threshold, in frames
          MaxCaptures,          \* bound: capture attempts over the whole run
          MaxCrashes            \* bound: process deaths

ASSUME ThresholdAssumption == CompactionThreshold \in Nat
ASSUME OutboxBounds == MaxCaptures \in Nat /\ MaxCrashes \in Nat

None == -1        \* a null cursor: nothing acked yet
Torn == [seq |-> None, offset |-> None]   \* an index line without its newline
Idle == [step |-> "idle", chan |-> None]

VARIABLES
  \* On disk: survives the process.
  pcm,            \* pcm[c]: the payloads in <c>.pcm
  index,          \* index[c]: the lines of <c>.index.jsonl
  ackedFile,      \* acked.json
  \* In memory: lost with the process.
  entries,        \* _Channel.entries
  pcmEnd,         \* _Channel.pcm_end
  ackedIdx,       \* _Channel.acked_idx
  unackedBytes,   \* _Channel.unacked_bytes
  acked,          \* Outbox._acked
  opened,         \* channels _open_channel has finished
  pc,             \* the write the process makes next
  \* Observers and environment.
  log,            \* log[c]: the payload each seq was recorded with
  sent,           \* sent[c]: the highest seq handed to the transport
  captured, crashes

disk == <<pcm, index, ackedFile>>
memory == <<entries, pcmEnd, ackedIdx, unackedBytes, acked, opened>>
env == <<log, sent, captured, crashes>>
outboxVars == <<pcm, index, ackedFile, entries, pcmEnd, ackedIdx, unackedBytes, acked, opened,
          pc, log, sent, captured, crashes>>

MaxOf(a, b) == IF a >= b THEN a ELSE b

At(step, c) == pc = [step |-> step, chan |-> c]

-----------------------------------------------------------------------------
(* Queries *)

\* next_seq: one past the last entry, and never at or below the server's ack.
NextSeq(c) ==
  MaxOf(IF entries[c] = <<>> THEN 0 ELSE entries[c][Len(entries[c])].seq + 1,
        acked[c] + 1)

\* unacked: the entries above the server's ack.
UnackedEntries(c) ==
  {i \in 1..Len(entries[c]) : entries[c][i].seq > acked[c]}

\* _advance_acked: skip the leading entries the ack covers.
AdvancedIdx(ents, idx, a) ==
  CHOOSE k \in idx..Len(ents) :
    /\ \A j \in (idx + 1)..k : ents[j].seq <= a
    /\ k = Len(ents) \/ ents[k + 1].seq > a

\* An index line recovery accepts: whole, contiguous with the line before it in both seq and
\* offset, and pointing at bytes that are in the payload file.
ValidLine(lines, size, i) ==
  /\ lines[i] # Torn
  /\ lines[i].offset = i - 1
  /\ lines[i].offset + 1 <= size
  /\ i > 1 => lines[i - 1].seq + 1 = lines[i].seq

\* _open_channel keeps the longest valid prefix of the index.
RecoveredLen(lines, size) ==
  CHOOSE k \in 0..Len(lines) :
    /\ \A i \in 1..k : ValidLine(lines, size, i)
    /\ k = Len(lines) \/ ~ValidLine(lines, size, k + 1)

Recovered(c) == SubSeq(index[c], 1, RecoveredLen(index[c], Len(pcm[c])))

-----------------------------------------------------------------------------
OutboxInit ==
  /\ pcm = [c \in Channels |-> <<>>]
  /\ index = [c \in Channels |-> <<>>]
  /\ ackedFile = [c \in Channels |-> None]
  /\ entries = [c \in Channels |-> <<>>]
  /\ pcmEnd = [c \in Channels |-> 0]
  /\ ackedIdx = [c \in Channels |-> 0]
  /\ unackedBytes = [c \in Channels |-> 0]
  /\ acked = [c \in Channels |-> None]
  /\ opened = Channels
  /\ pc = Idle
  /\ log = [c \in Channels |-> <<>>]
  /\ sent = [c \in Channels |-> None]
  /\ captured = 0
  /\ crashes = 0

-----------------------------------------------------------------------------
(* append_frame: payload first, index line after it *)

\* seek(pcm_end), write and flush the payload: it lands at pcm_end, over anything beyond it.
AppendPayload(c) ==
  /\ pc = Idle
  /\ captured < MaxCaptures
  /\ captured' = captured + 1
  /\ pcm' = [pcm EXCEPT ![c] = Append(SubSeq(@, 1, pcmEnd[c]), captured)]
  /\ pc' = [step |-> "payload", chan |-> c]
  /\ UNCHANGED <<index, ackedFile, memory, log, sent, crashes>>

\* Append the index line at the file's end, then account for the frame in memory.
AppendIndex(c) ==
  /\ At("payload", c)
  /\ LET entry == [seq |-> NextSeq(c), offset |-> pcmEnd[c]]
     IN  /\ index' = [index EXCEPT ![c] = Append(@, entry)]
         /\ entries' = [entries EXCEPT ![c] = Append(@, entry)]
  /\ pcmEnd' = [pcmEnd EXCEPT ![c] = @ + 1]
  /\ unackedBytes' = [unackedBytes EXCEPT ![c] = @ + 1]
  /\ log' = [log EXCEPT ![c] = Append(@, pcm[c][pcmEnd[c] + 1])]
  /\ pc' = Idle
  /\ UNCHANGED <<pcm, ackedFile, ackedIdx, acked, opened, sent, captured, crashes>>

\* The process dies part-way through writing the index line.
TearIndexLine(c) ==
  /\ At("payload", c)
  /\ crashes < MaxCrashes
  /\ index' = [index EXCEPT ![c] = Append(@, Torn)]
  /\ crashes' = crashes + 1
  /\ pc' = [step |-> "down", chan |-> None]
  /\ UNCHANGED <<pcm, ackedFile, memory, log, sent, captured>>

-----------------------------------------------------------------------------
(* The transport reads unacked frames and brings back the server's acks *)

\* unacked() hands an unacked frame to the send loop.
HandOut(c) ==
  /\ pc = Idle
  /\ \E i \in UnackedEntries(c) :
       sent' = [sent EXCEPT ![c] = MaxOf(@, entries[c][i].seq)]
  /\ UNCHANGED <<disk, memory, pc, log, captured, crashes>>

\* mark_acked with a higher cursor: memory first.  Lower or equal values return at once.
MarkAcked(c) ==
  /\ pc = Idle
  /\ \E s \in 0..sent[c] :
       /\ s > acked[c]
       /\ acked' = [acked EXCEPT ![c] = s]
       /\ LET k == AdvancedIdx(entries[c], ackedIdx[c], s)
          IN  /\ ackedIdx' = [ackedIdx EXCEPT ![c] = k]
              /\ unackedBytes' = [unackedBytes EXCEPT ![c] = @ - (k - ackedIdx[c])]
  /\ pc' = [step |-> "acked", chan |-> c]
  /\ UNCHANGED <<disk, entries, pcmEnd, opened, env>>

\* Mutant: compaction looks at the size only.
CompactionDueWhenLarge(c) == entries[c] # <<>> /\ pcmEnd[c] >= CompactionThreshold

\* _compact_if_fully_acked's early returns.
CompactionDue(c) ==
  /\ entries[c] # <<>>
  /\ acked[c] >= entries[c][Len(entries[c])].seq
  /\ pcmEnd[c] >= CompactionThreshold

\* Write acked.json.tmp and rename it over acked.json.
ReplaceAckedFile(c) ==
  /\ At("acked", c)
  /\ ackedFile' = acked
  /\ pc' = IF CompactionDue(c) THEN [step |-> "compact", chan |-> c] ELSE Idle
  /\ UNCHANGED <<pcm, index, memory, env>>

\* Compaction empties the payload file, then the index.
TruncatePcm(c) ==
  /\ At("compact", c)
  /\ pcm' = [pcm EXCEPT ![c] = <<>>]
  /\ pc' = [step |-> "compact_index", chan |-> c]
  /\ UNCHANGED <<index, ackedFile, memory, env>>

TruncateIndex(c) ==
  /\ At("compact_index", c)
  /\ index' = [index EXCEPT ![c] = <<>>]
  /\ entries' = [entries EXCEPT ![c] = <<>>]
  /\ pcmEnd' = [pcmEnd EXCEPT ![c] = 0]
  /\ ackedIdx' = [ackedIdx EXCEPT ![c] = 0]
  /\ unackedBytes' = [unackedBytes EXCEPT ![c] = 0]
  /\ pc' = Idle
  /\ UNCHANGED <<pcm, ackedFile, acked, opened, env>>

-----------------------------------------------------------------------------
(* Crash and reopen *)

\* The process exits or is killed between two writes.
Crash ==
  /\ pc.step # "down"
  /\ crashes < MaxCrashes
  /\ crashes' = crashes + 1
  /\ pc' = [step |-> "down", chan |-> None]
  /\ UNCHANGED <<disk, memory, log, sent, captured>>

\* Outbox.reopen: load acked.json, nothing recovered yet.
Reopen ==
  /\ pc.step = "down"
  /\ acked' = ackedFile
  /\ opened' = {}
  /\ entries' = [c \in Channels |-> <<>>]
  /\ pcmEnd' = [c \in Channels |-> 0]
  /\ ackedIdx' = [c \in Channels |-> 0]
  /\ unackedBytes' = [c \in Channels |-> 0]
  /\ pc' = [step |-> "opening", chan |-> None]
  /\ UNCHANGED <<disk, env>>

\* _open_channel: recover the entries and cut the payload file to them.
OpenPcm(c) ==
  /\ pc.step = "opening"
  /\ c \notin opened
  /\ LET ents == Recovered(c)
     IN  /\ entries' = [entries EXCEPT ![c] = ents]
         /\ pcmEnd' = [pcmEnd EXCEPT ![c] = Len(ents)]
         /\ pcm' = [pcm EXCEPT ![c] = SubSeq(@, 1, Len(ents))]
  /\ pc' = [step |-> "open_index", chan |-> c]
  /\ UNCHANGED <<index, ackedFile, ackedIdx, unackedBytes, acked, opened, env>>

\* Mutant: a torn line is left at the end of the index.
OpenIndexKeepingTail(c) ==
  /\ At("open_index", c)
  /\ LET k == AdvancedIdx(entries[c], 0, acked[c])
     IN  /\ ackedIdx' = [ackedIdx EXCEPT ![c] = k]
         /\ unackedBytes' = [unackedBytes EXCEPT ![c] = Len(entries[c]) - k]
  /\ opened' = opened \cup {c}
  /\ pc' = IF opened' = Channels THEN Idle ELSE [step |-> "opening", chan |-> None]
  /\ UNCHANGED <<pcm, index, ackedFile, entries, pcmEnd, acked, env>>

\* _open_channel cuts the index to the recovered lines; the counters then start from the
\* recovered entries and skip what acked.json covers.
OpenIndex(c) ==
  /\ At("open_index", c)
  /\ index' = [index EXCEPT ![c] = SubSeq(@, 1, Len(entries[c]))]
  /\ LET k == AdvancedIdx(entries[c], 0, acked[c])
     IN  /\ ackedIdx' = [ackedIdx EXCEPT ![c] = k]
         /\ unackedBytes' = [unackedBytes EXCEPT ![c] = Len(entries[c]) - k]
  /\ opened' = opened \cup {c}
  /\ pc' = IF opened' = Channels THEN Idle ELSE [step |-> "opening", chan |-> None]
  /\ UNCHANGED <<pcm, ackedFile, entries, pcmEnd, acked, env>>

OutboxNext ==
  \/ \E c \in Channels :
       \/ AppendPayload(c) \/ AppendIndex(c) \/ TearIndexLine(c)
       \/ HandOut(c) \/ MarkAcked(c) \/ ReplaceAckedFile(c)
       \/ TruncatePcm(c) \/ TruncateIndex(c)
       \/ OpenPcm(c) \/ OpenIndex(c)
  \/ Crash
  \/ Reopen

OutboxSpec == OutboxInit /\ [][OutboxNext]_outboxVars

-----------------------------------------------------------------------------
(* Properties *)

Entry == [seq : Nat, offset : Nat]
Steps == {"idle", "payload", "acked", "compact", "compact_index", "down", "opening", "open_index"}

\* The shape of the outbox's files and of its in-memory mirror.
TypeOK ==
  /\ pcm \in [Channels -> Seq(Nat)]
  /\ index \in [Channels -> Seq(Entry \cup {Torn})]
  /\ ackedFile \in [Channels -> Nat \cup {None}]
  /\ entries \in [Channels -> Seq(Entry)]
  /\ pcmEnd \in [Channels -> Nat]
  /\ ackedIdx \in [Channels -> Nat]
  /\ unackedBytes \in [Channels -> Nat]
  /\ acked \in [Channels -> Nat \cup {None}]
  /\ opened \in SUBSET Channels
  /\ pc \in [step : Steps, chan : Channels \cup {None}]
  /\ log \in [Channels -> Seq(Nat)]
  /\ sent \in [Channels -> Nat \cup {None}]
  /\ captured \in 0..MaxCaptures
  /\ crashes \in 0..MaxCrashes

\* Whatever write the process dies after, reopening recovers every frame that acked.json does
\* not cover, under its own seq and with its own payload: only the server's ack frees audio.
UnackedRecoverable ==
  \A c \in Channels :
    \A s \in (ackedFile[c] + 1)..(Len(log[c]) - 1) :
      \E i \in 1..Len(Recovered(c)) :
        /\ Recovered(c)[i].seq = s
        /\ pcm[c][Recovered(c)[i].offset + 1] = log[c][s + 1]

\* Between operations, unacked() serves every recorded frame above the ack with the payload it
\* was recorded with, through any number of acks, compactions and reopenings.
UnackedServed ==
  pc = Idle =>
    \A c \in Channels :
      \A s \in (acked[c] + 1)..(Len(log[c]) - 1) :
        \E i \in UnackedEntries(c) :
          /\ entries[c][i].seq = s
          /\ pcm[c][entries[c][i].offset + 1] = log[c][s + 1]

\* A new frame takes the seq right after the last recorded one: compaction and crashes neither
\* reuse a seq the server may hold nor leave a gap the server would refuse.
SeqsNeitherReusedNorSkipped ==
  pc = Idle => \A c \in Channels : NextSeq(c) = Len(log[c])

\* unacked_bytes, which the daemon compares with the disk cap, is the size of the unacked frames.
UnackedBytesExact ==
  pc = Idle => \A c \in Channels : unackedBytes[c] = Cardinality(UnackedEntries(c))

\* The outbox is sound: what was recorded and not acked is served and survives, seqs continue, and
\* the counter of its bytes is exact.
OutboxSound ==
  TypeOK /\ UnackedRecoverable /\ UnackedServed /\ SeqsNeitherReusedNorSkipped /\ UnackedBytesExact

\* What the files still prove: the frames that reopening would find above acked.json.
Covered(c) == AdvancedIdx(Recovered(c), 0, ackedFile[c])
Recoverable(c) ==
  [i \in 1..(Len(Recovered(c)) - Covered(c)) |->
     LET line == Recovered(c)[Covered(c) + i] IN [seq |-> line.seq, payload |-> pcm[c][line.offset + 1]]]
Queue == INSTANCE FrameQueue WITH
  Payloads <- 0..MaxCaptures, first <- [c \in Channels |-> ackedFile[c] + 1], queue <- [c \in Channels |-> Recoverable(c)]

\* At every write, whatever the process dies after, the files are the queue of FrameQueue.tla: a
\* frame joins it with its index line and leaves it with the acked.json that covers it, and no
\* compaction, crash, torn line or reopening changes it.
ImplementsQueue == Queue!Spec

-----------------------------------------------------------------------------
(* The inductive invariant behind the properties above.  The index always holds the last n     *)
(* recorded seqs in order, the ack on disk covers everything older, and the payloads match the *)
(* lines unless a compaction of a fully acked channel has already emptied the payload file.    *)

\* The lines of an index file, without a torn one at its end.
WholeLen(lines) ==
  IF lines # <<>> /\ lines[Len(lines)] = Torn THEN Len(lines) - 1 ELSE Len(lines)

PayloadsMatch(c) ==
  LET n == WholeLen(index[c])
  IN  /\ n <= Len(pcm[c])
      /\ \A i \in 1..n : pcm[c][i] = log[c][Len(log[c]) - n + i]

FullyAcked(c) == ackedFile[c] >= Len(log[c]) - 1

DiskInv(c) ==
  LET n == WholeLen(index[c])
  IN  /\ n <= Len(log[c])
      /\ \A i \in 1..n :
           index[c][i] = [seq |-> Len(log[c]) - n + i - 1, offset |-> i - 1]
      /\ ackedFile[c] >= Len(log[c]) - n - 1
      /\ ackedFile[c] <= sent[c]
      /\ sent[c] < Len(log[c])
      /\ PayloadsMatch(c) \/ (pcm[c] = <<>> /\ FullyAcked(c))

\* The channels whose in-memory state mirrors the files.
Loaded(c) ==
  \/ pc.step \in {"idle", "payload", "acked", "compact", "compact_index"}
  \/ pc.step \in {"opening", "open_index"} /\ c \in opened

MirrorInv(c) ==
  /\ entries[c] = index[c]
  /\ pcmEnd[c] = Len(entries[c])
  /\ ackedFile[c] <= acked[c]
  /\ acked[c] <= sent[c]
  /\ ackedIdx[c] = acked[c] + 1 - (Len(log[c]) - Len(entries[c]))
  /\ unackedBytes[c] = Len(log[c]) - 1 - acked[c]
  /\ PayloadsMatch(c) \/ At("compact_index", c)

StepInv(c) ==
  /\ At("payload", c) => pcmEnd[c] < Len(pcm[c])
  /\ At("compact", c) => FullyAcked(c)
  /\ At("compact_index", c) => FullyAcked(c) /\ pcm[c] = <<>>
  /\ pc.step \in {"opening", "open_index"} => acked[c] = ackedFile[c]
  /\ At("open_index", c) =>
       /\ entries[c] = SubSeq(index[c], 1, Len(entries[c]))
       /\ pcmEnd[c] = Len(entries[c])
       /\ \/ Len(entries[c]) = WholeLen(index[c]) /\ PayloadsMatch(c)
          \/ Len(entries[c]) = 0 /\ FullyAcked(c)

ChannelInv(c) == DiskInv(c) /\ (Loaded(c) => MirrorInv(c)) /\ StepInv(c)

\* The files and memory agree as above on every channel, whatever write comes next.
OutboxInv == TypeOK /\ \A c \in Channels : ChannelInv(c)
=============================================================================
