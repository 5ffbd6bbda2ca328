---------------------------- MODULE ClientProofs ----------------------------
(***************************************************************************)
(* Proofs about the clients: the frame store that survives the capture     *)
(* client's process (Outbox.tla), the keys (Triggers.tla), the capture     *)
(* daemon (Daemon.tla), the capture API (CaptureApi.tla), the hold to ask  *)
(* (HoldToAsk.tla); and, as the last four never touch each other's         *)
(* variables, about MCCapture's specification.                             *)
(***************************************************************************)
EXTENDS MCCapture, Outbox, SequenceTheorems, WellFoundedInduction, FiniteSetTheorems, TLAPS

-----------------------------------------------------------------------------
(* The outbox (Outbox.tla) *)


\* The prefix truncate() leaves.
LEMMA PrefixProperties ==
  ASSUME NEW S, NEW s \in Seq(S), NEW k \in 0..Len(s)
  PROVE  /\ SubSeq(s, 1, k) \in Seq(S)
         /\ Len(SubSeq(s, 1, k)) = k
         /\ \A i \in 1..k : SubSeq(s, 1, k)[i] = s[i]
<1>1. 1 \in 1..(Len(s) + 1) /\ k \in (1 - 1)..Len(s)
  OBVIOUS
<1> QED BY <1>1, SubSeqProperties

\* Recovery keeps exactly the whole lines when the payloads they point at are there, and
\* nothing when the payload file is empty (_open_channel's scan).
LEMMA RecoveredLenFull ==
  ASSUME NEW lines \in Seq(Entry \cup {Torn}), NEW size \in Nat, NEW b \in Int,
         WholeLen(lines) <= size,
         \A i \in 1..WholeLen(lines) : lines[i] = [seq |-> b + i, offset |-> i - 1]
  PROVE  RecoveredLen(lines, size) = WholeLen(lines)
<1> DEFINE n == WholeLen(lines)
           Q(k) == /\ \A i \in 1..k : ValidLine(lines, size, i)
                   /\ k = Len(lines) \/ ~ValidLine(lines, size, k + 1)
<1>1. /\ n \in 0..Len(lines)
      /\ n # Len(lines) => n + 1 = Len(lines) /\ lines[n + 1] = Torn
  BY DEF WholeLen
<1>2. \A i \in 1..n : ValidLine(lines, size, i)
  <2> SUFFICES ASSUME NEW i \in 1..n PROVE ValidLine(lines, size, i)
    OBVIOUS
  <2>1. lines[i] \in Entry \cup {Torn}
    BY <1>1
  <2>2. lines[i] = [seq |-> b + i, offset |-> i - 1]
    OBVIOUS
  <2>3. lines[i].offset = i - 1 /\ lines[i].seq = b + i
    BY <2>2
  <2>4. lines[i] # Torn
    BY <2>3 DEF Torn, None
  <2>5. i > 1 => lines[i - 1].seq = b + (i - 1)
    <3> SUFFICES ASSUME i > 1 PROVE lines[i - 1].seq = b + (i - 1)
      OBVIOUS
    <3>1. i - 1 \in 1..n
      BY <1>1
    <3>2. lines[i - 1] = [seq |-> b + (i - 1), offset |-> (i - 1) - 1]
      BY <3>1
    <3> QED BY <3>2
  <2> QED BY <2>3, <2>4, <2>5, <1>1 DEF ValidLine
<1>3. n = Len(lines) \/ ~ValidLine(lines, size, n + 1)
  BY <1>1 DEF ValidLine
<1>4. ASSUME NEW k \in 0..Len(lines), Q(k) PROVE k = n
  BY <1>1, <1>2, <1>3, <1>4
<1>5. Q(n)
  BY <1>2, <1>3
<1>6. RecoveredLen(lines, size) = CHOOSE k \in 0..Len(lines) : Q(k)
  BY DEF RecoveredLen
<1> HIDE DEF Q, n
<1>7. RecoveredLen(lines, size) = n
  BY <1>1, <1>4, <1>5, <1>6
<1> QED BY <1>7 DEF n

\* An empty index recovers nothing.
LEMMA RecoveredLenEmpty ==
  ASSUME NEW lines \in Seq(Entry \cup {Torn})
  PROVE  RecoveredLen(lines, 0) = 0
<1> DEFINE Q(k) == /\ \A i \in 1..k : ValidLine(lines, 0, i)
                   /\ k = Len(lines) \/ ~ValidLine(lines, 0, k + 1)
<1>1. \A i \in 1..Len(lines) : ~ValidLine(lines, 0, i)
  BY DEF ValidLine
<1>2. ASSUME NEW k \in 0..Len(lines), Q(k) PROVE k = 0
  BY <1>1, <1>2
<1>3. Q(0)
  BY <1>1
<1>4. RecoveredLen(lines, 0) = CHOOSE k \in 0..Len(lines) : Q(k)
  BY DEF RecoveredLen
<1>5. 0 \in 0..Len(lines)
  OBVIOUS
<1> HIDE DEF Q
<1> QED BY <1>2, <1>3, <1>4, <1>5

\* Over consecutive seqs, _advance_acked stops at the first seq above the ack.
LEMMA AdvancedIdxExact ==
  ASSUME NEW ents \in Seq(Entry), NEW b \in Int, NEW idx \in Nat, NEW a \in Int,
         \A i \in 1..Len(ents) : ents[i].seq = b + i - 1,
         idx <= a + 1 - b, a + 1 - b <= Len(ents)
  PROVE  AdvancedIdx(ents, idx, a) = a + 1 - b
<1> DEFINE m == a + 1 - b
           Q(k) == /\ \A j \in (idx + 1)..k : ents[j].seq <= a
                   /\ k = Len(ents) \/ ents[k + 1].seq > a
<1>1. m \in idx..Len(ents)
  OBVIOUS
<1>2. Q(m)
  OBVIOUS
<1>3. ASSUME NEW k \in idx..Len(ents), Q(k) PROVE k = m
  <2>1. CASE k < m
    BY <1>3, <2>1
  <2>2. CASE k > m
    <3>1. m + 1 \in (idx + 1)..k
      BY <2>2
    <3>2. ents[m + 1].seq <= a
      BY <1>3, <3>1
    <3>3. m + 1 \in 1..Len(ents) /\ b + (m + 1) - 1 = a + 1
      BY <1>1, <2>2
    <3>4. ents[m + 1].seq = b + (m + 1) - 1
      BY <3>3
    <3> QED BY <3>2, <3>3, <3>4
  <2> QED BY <2>1, <2>2
<1>4. AdvancedIdx(ents, idx, a) = CHOOSE k \in idx..Len(ents) : Q(k)
  BY DEF AdvancedIdx
<1> HIDE DEF Q, m
<1>5. AdvancedIdx(ents, idx, a) = m
  BY <1>1, <1>2, <1>3, <1>4
<1> QED BY <1>5 DEF m

-----------------------------------------------------------------------------
(* OutboxInv is inductive: one lemma per action. *)

\* A channel an action leaves alone keeps its invariant.
LEMMA OtherChannel ==
  ASSUME NEW d \in Channels, ChannelInv(d),
         pcm'[d] = pcm[d], index'[d] = index[d], ackedFile'[d] = ackedFile[d],
         entries'[d] = entries[d], pcmEnd'[d] = pcmEnd[d], ackedIdx'[d] = ackedIdx[d],
         unackedBytes'[d] = unackedBytes[d], acked'[d] = acked[d],
         log'[d] = log[d], sent'[d] = sent[d],
         Loaded(d)' => Loaded(d),
         ~At("compact_index", d),
         pc'.step \in {"opening", "open_index"} => acked[d] = ackedFile[d],
         pc'.step \in {"payload", "compact", "compact_index", "open_index"} => pc'.chan # d
  PROVE  ChannelInv(d)'
<1>1. DiskInv(d)'
  BY DEF ChannelInv, DiskInv, PayloadsMatch, FullyAcked
<1>2. ASSUME Loaded(d)' PROVE MirrorInv(d)'
  BY <1>2 DEF ChannelInv, MirrorInv, PayloadsMatch, At
<1>3. StepInv(d)'
  BY DEF StepInv, At
<1> QED BY <1>1, <1>2, <1>3 DEF ChannelInv

\* The whole lines of an index that holds no torn one, as the mirror of the entries is.
LEMMA WholeLenEntries ==
  ASSUME NEW lines \in Seq(Entry)
  PROVE  WholeLen(lines) = Len(lines)
BY DEF WholeLen, Entry, Torn, None

\* Writing a payload keeps the invariant.
LEMMA AppendPayloadStep ==
  ASSUME OutboxInv, NEW c \in Channels, AppendPayload(c)
  PROVE  OutboxInv'
<1> USE DEF OutboxInv
<1>2. ASSUME NEW d \in Channels, d # c PROVE ChannelInv(d)'
  BY <1>2, OtherChannel DEF TypeOK, AppendPayload, memory, Loaded, At, Idle
<1>3. ChannelInv(c)' /\ pcm'[c] \in Seq(Nat)
  <2>1. /\ pcmEnd[c] = Len(index[c]) /\ WholeLen(index[c]) = Len(index[c])
        /\ PayloadsMatch(c) /\ MirrorInv(c) /\ DiskInv(c)
    <3>1. MirrorInv(c) /\ DiskInv(c) /\ ~At("compact_index", c)
      BY DEF ChannelInv, Loaded, AppendPayload, Idle, At
    <3> QED BY <3>1, WholeLenEntries DEF MirrorInv, TypeOK
  <2>2. /\ Len(pcm'[c]) = pcmEnd[c] + 1
        /\ pcm'[c] \in Seq(Nat)
        /\ \A i \in 1..pcmEnd[c] : pcm'[c][i] = pcm[c][i]
    <3>1. pcm[c] \in Seq(Nat) /\ pcmEnd[c] \in 0..Len(pcm[c]) /\ captured \in Nat
      BY <2>1, OutboxBounds DEF PayloadsMatch, TypeOK
    <3>2. pcm'[c] = Append(SubSeq(pcm[c], 1, pcmEnd[c]), captured)
      BY DEF AppendPayload, TypeOK
    <3>3. /\ SubSeq(pcm[c], 1, pcmEnd[c]) \in Seq(Nat)
          /\ Len(SubSeq(pcm[c], 1, pcmEnd[c])) = pcmEnd[c]
          /\ \A i \in 1..pcmEnd[c] : SubSeq(pcm[c], 1, pcmEnd[c])[i] = pcm[c][i]
      BY <3>1, PrefixProperties
    <3> QED BY <3>1, <3>2, <3>3
  <2>3. PayloadsMatch(c)'
    <3>1. \A i \in 1..pcmEnd[c] : pcm[c][i] = log[c][Len(log[c]) - pcmEnd[c] + i]
      BY <2>1 DEF PayloadsMatch
    <3>2. pcmEnd[c] \in Nat
      BY DEF TypeOK
    <3>3. pcmEnd[c] <= Len(pcm'[c])
      BY ONLY <2>2, <3>2
    <3>4. ASSUME NEW i \in 1..pcmEnd[c] PROVE pcm'[c][i] = log[c][Len(log[c]) - pcmEnd[c] + i]
      <4>1. pcm'[c][i] = pcm[c][i]
        BY ONLY <2>2, <3>4
      <4>2. pcm[c][i] = log[c][Len(log[c]) - pcmEnd[c] + i]
        BY ONLY <3>1, <3>4
      <4> QED BY ONLY <4>1, <4>2
    <3> QED BY <2>1, <3>3, <3>4 DEF PayloadsMatch, AppendPayload
  <2>4. DiskInv(c)'
    BY <2>1, <2>3 DEF DiskInv, AppendPayload
  <2>5. MirrorInv(c)'
    BY <2>1, <2>3 DEF MirrorInv, AppendPayload, memory
  <2>6. StepInv(c)'
    BY <2>2, <2>1 DEF StepInv, AppendPayload, memory, At, TypeOK
  <2> QED BY <2>2, <2>4, <2>5, <2>6 DEF ChannelInv
<1>4. TypeOK'
  <2>1. pcm' \in [Channels -> Seq(Nat)]
    BY <1>3 DEF TypeOK, AppendPayload
  <2>2. captured' \in 0..MaxCaptures
    BY OutboxBounds DEF TypeOK, AppendPayload
  <2>3. pc' \in [step : Steps, chan : Channels \cup {None}]
    BY DEF AppendPayload, Steps
  <2> QED BY <2>1, <2>2, <2>3 DEF TypeOK, AppendPayload, memory
<1> QED BY <1>2, <1>3, <1>4

\* What the invariant says of a channel whose n entries mirror its index, L frames recorded.
View(c, n, L) ==
  /\ n \in Nat /\ L \in Nat /\ n <= L
  /\ n = Len(entries[c]) /\ L = Len(log[c])
  /\ entries[c] = index[c] /\ index[c] \in Seq(Entry)
  /\ WholeLen(index[c]) = n
  /\ pcmEnd[c] = n
  /\ acked[c] \in Int /\ ackedFile[c] \in Int /\ sent[c] \in Int
  /\ \A i \in 1..n : entries[c][i] = [seq |-> L - n + i - 1, offset |-> i - 1]
  /\ ackedFile[c] >= L - n - 1
  /\ ackedFile[c] <= acked[c] /\ acked[c] <= sent[c] /\ sent[c] < L
  /\ ackedIdx[c] = acked[c] + 1 - (L - n)
  /\ unackedBytes[c] = L - 1 - acked[c]
  /\ pcm[c] \in Seq(Nat) /\ Len(pcm[c]) \in Nat
  /\ At("compact_index", c) \/
       (n <= Len(pcm[c]) /\ \A i \in 1..n : pcm[c][i] = log[c][L - n + i])

\* What a loaded channel looks like.
LEMMA LoadedView ==
  ASSUME OutboxInv, NEW c \in Channels, Loaded(c)
  PROVE  \E n, L : View(c, n, L)
<1> DEFINE n == Len(entries[c])
           L == Len(log[c])
<1>1. MirrorInv(c) /\ DiskInv(c)
  BY DEF OutboxInv, ChannelInv
<1>2. /\ entries[c] \in Seq(Entry) /\ log[c] \in Seq(Nat) /\ pcm[c] \in Seq(Nat)
      /\ acked[c] \in Int /\ ackedFile[c] \in Int /\ sent[c] \in Int
  <2>1. /\ entries[c] \in Seq(Entry) /\ log[c] \in Seq(Nat) /\ pcm[c] \in Seq(Nat)
        /\ acked[c] \in Nat \cup {None} /\ ackedFile[c] \in Nat \cup {None}
        /\ sent[c] \in Nat \cup {None}
    BY DEF OutboxInv, TypeOK
  <2> QED BY <2>1 DEF None
<1>3. entries[c] = index[c] /\ WholeLen(index[c]) = n
  BY <1>1, <1>2, WholeLenEntries DEF MirrorInv
<1>4. /\ n \in Nat /\ L \in Nat /\ Len(pcm[c]) \in Nat
  BY <1>2
<1>5. /\ n <= L
      /\ \A i \in 1..n : entries[c][i] = [seq |-> L - n + i - 1, offset |-> i - 1]
      /\ ackedFile[c] >= L - n - 1
      /\ sent[c] < L
  BY <1>1, <1>3 DEF DiskInv
<1>6. At("compact_index", c) \/
       (n <= Len(pcm[c]) /\ \A i \in 1..n : pcm[c][i] = log[c][L - n + i])
  BY <1>1, <1>3 DEF MirrorInv, PayloadsMatch
<1>7. /\ pcmEnd[c] = n /\ ackedFile[c] <= acked[c] /\ acked[c] <= sent[c]
      /\ ackedIdx[c] = acked[c] + 1 - (L - n) /\ unackedBytes[c] = L - 1 - acked[c]
  BY <1>1 DEF MirrorInv
<1>8. View(c, n, L)
  BY <1>2, <1>3, <1>4, <1>5, <1>6, <1>7 DEF View
<1> QED BY <1>8

\* next_seq is the number of frames recorded so far.
LEMMA NextSeqExact ==
  ASSUME NEW c, NEW n, NEW L, View(c, n, L)
  PROVE  NextSeq(c) = L
<1>0. /\ n \in Nat /\ L \in Nat /\ acked[c] \in Int /\ ackedFile[c] \in Int /\ sent[c] \in Int
      /\ ackedFile[c] >= L - n - 1 /\ ackedFile[c] <= acked[c] /\ acked[c] <= sent[c]
      /\ sent[c] < L
  BY DEF View
<1>1. CASE entries[c] = <<>>
  <2>1. n = 0
    BY <1>1 DEF View
  <2>2. acked[c] + 1 = L
    BY <1>0, <2>1
  <2> QED BY <1>0, <1>1, <2>2 DEF NextSeq, MaxOf
<1>2. CASE entries[c] # <<>>
  <2>1. n \in 1..n
    BY <1>2, EmptySeq DEF View
  <2>2. entries[c][n] = [seq |-> L - n + n - 1, offset |-> n - 1]
    BY <2>1 DEF View
  <2>3. entries[c][Len(entries[c])].seq = L - 1
    BY <1>0, <2>2 DEF View
  <2> QED BY <1>0, <1>2, <2>3 DEF NextSeq, MaxOf
<1> QED BY <1>1, <1>2

\* So does writing its index line.
LEMMA AppendIndexStep ==
  ASSUME OutboxInv, NEW c \in Channels, AppendIndex(c)
  PROVE  OutboxInv'
<1>1. ASSUME NEW d \in Channels, d # c PROVE ChannelInv(d)'
  <2>1. ChannelInv(d) /\ TypeOK
    BY DEF OutboxInv
  <2> QED BY <1>1, <2>1, OtherChannel DEF TypeOK, AppendIndex, Loaded, At, Idle
<1>2. Loaded(c) /\ ~At("compact_index", c) /\ TypeOK
  BY DEF AppendIndex, At, Loaded, Idle, OutboxInv
<1>3. PICK n, L : View(c, n, L)
  BY <1>2, LoadedView
<1> DEFINE e == [seq |-> L, offset |-> n]
<1>4. /\ n \in Nat /\ L \in Nat /\ n <= L /\ e \in Entry
      /\ acked[c] \in Int /\ ackedFile[c] \in Int /\ sent[c] \in Int
      /\ ackedFile[c] >= L - n - 1 /\ ackedFile[c] <= acked[c] /\ acked[c] <= sent[c]
      /\ sent[c] < L
  BY <1>3 DEF View, Entry
<1>5. /\ index' = [index EXCEPT ![c] = Append(@, e)]
      /\ entries' = [entries EXCEPT ![c] = Append(@, e)]
      /\ log' = [log EXCEPT ![c] = Append(@, pcm[c][n + 1])]
  BY <1>3, NextSeqExact DEF AppendIndex, View
<1> HIDE DEF e
<1>6. /\ entries'[c] = index'[c] /\ index'[c] \in Seq(Entry)
      /\ WholeLen(index'[c]) = n + 1 /\ Len(index'[c]) = n + 1
      /\ \A i \in 1..n : index'[c][i] = entries[c][i]
      /\ index'[c][n + 1] = e
  <2>1. index'[c] = Append(entries[c], e) /\ entries'[c] = Append(entries[c], e)
    BY <1>2, <1>3, <1>5 DEF TypeOK, View
  <2>2. entries[c] \in Seq(Entry) /\ Len(entries[c]) = n
    BY <1>3 DEF View
  <2>3. /\ Append(entries[c], e) \in Seq(Entry) /\ Len(Append(entries[c], e)) = n + 1
        /\ \A i \in 1..n : Append(entries[c], e)[i] = entries[c][i]
        /\ Append(entries[c], e)[n + 1] = e
    BY <1>4, <2>2, AppendProperties
  <2> QED BY <2>1, <2>3, WholeLenEntries
<1>7. /\ n + 1 <= Len(pcm[c])
      /\ log'[c] \in Seq(Nat) /\ Len(log'[c]) = L + 1
      /\ \A i \in 1..L : log'[c][i] = log[c][i]
      /\ log'[c][L + 1] = pcm[c][n + 1]
  <2>1. pcm[c] \in Seq(Nat) /\ log[c] \in Seq(Nat) /\ Len(log[c]) = L /\ pcmEnd[c] = n
    BY <1>2, <1>3 DEF TypeOK, View
  <2>2. pcmEnd[c] < Len(pcm[c])
    BY DEF OutboxInv, ChannelInv, StepInv, AppendIndex
  <2>3. n + 1 \in 1..Len(pcm[c])
    BY <1>4, <2>1, <2>2
  <2>4. pcm[c][n + 1] \in Nat
    BY <2>1, <2>3
  <2>5. log'[c] = Append(log[c], pcm[c][n + 1])
    BY <1>2, <1>5 DEF TypeOK
  <2>6. /\ Append(log[c], pcm[c][n + 1]) \in Seq(Nat)
        /\ Len(Append(log[c], pcm[c][n + 1])) = L + 1
        /\ \A i \in 1..L : Append(log[c], pcm[c][n + 1])[i] = log[c][i]
        /\ Append(log[c], pcm[c][n + 1])[L + 1] = pcm[c][n + 1]
    BY <2>1, <2>4, AppendProperties
  <2> QED BY <1>4, <2>1, <2>3, <2>5, <2>6
<1>8. PayloadsMatch(c)'
  <2>1. pcm'[c] = pcm[c]
    BY DEF AppendIndex
  <2>2. ASSUME NEW i \in 1..(n + 1) PROVE pcm[c][i] = log'[c][(L + 1) - (n + 1) + i]
    <3>1. CASE i = n + 1
      <4>1. (L + 1) - (n + 1) + i = L + 1
        BY <1>4, <3>1
      <4> QED BY <1>7, <3>1, <4>1
    <3>2. CASE i \in 1..n
      <4>1. pcm[c][i] = log[c][L - n + i]
        BY <1>2, <1>3, <3>2 DEF View
      <4>2. L - n + i \in 1..L /\ (L + 1) - (n + 1) + i = L - n + i
        BY <1>4, <3>2
      <4> QED BY <1>7, <4>1, <4>2
    <3> QED BY <1>4, <3>1, <3>2
  <2> QED BY <1>6, <1>7, <2>1, <2>2 DEF PayloadsMatch
<1>9. DiskInv(c)'
  <2>1. ASSUME NEW i \in 1..(n + 1)
        PROVE  index'[c][i] = [seq |-> (L + 1) - (n + 1) + i - 1, offset |-> i - 1]
    <3>1. CASE i = n + 1
      <4>1. (L + 1) - (n + 1) + i - 1 = L /\ i - 1 = n
        BY <1>4, <3>1
      <4> QED BY <1>6, <3>1, <4>1 DEF e
    <3>2. CASE i \in 1..n
      <4>1. (L + 1) - (n + 1) + i - 1 = L - n + i - 1
        BY <1>4
      <4>2. entries[c][i] = [seq |-> L - n + i - 1, offset |-> i - 1]
        BY <1>3, <3>2 DEF View
      <4> QED BY <1>6, <3>2, <4>1, <4>2
    <3> QED BY <1>4, <3>1, <3>2
  <2>2. /\ n + 1 <= L + 1 /\ ackedFile[c] >= (L + 1) - (n + 1) - 1 /\ sent[c] < L + 1
        /\ ackedFile[c] <= sent[c]
    BY <1>4
  <2>3. ackedFile'[c] = ackedFile[c] /\ sent'[c] = sent[c]
    BY DEF AppendIndex
  <2> QED BY <1>6, <1>7, <1>8, <2>1, <2>2, <2>3 DEF DiskInv
<1>10. MirrorInv(c)'
  <2>1. pcmEnd'[c] = n + 1 /\ unackedBytes'[c] = L - 1 - acked[c] + 1
    BY <1>2, <1>3 DEF AppendIndex, TypeOK, View
  <2>2. ackedIdx[c] = acked[c] + 1 - ((L + 1) - (n + 1)) /\ L - 1 - acked[c] + 1 = (L + 1) - 1 - acked[c]
    <3>1. ackedIdx[c] = acked[c] + 1 - (L - n)
      BY <1>3 DEF View
    <3> QED BY <1>4, <3>1
  <2>3. /\ acked'[c] = acked[c] /\ ackedIdx'[c] = ackedIdx[c]
        /\ sent'[c] = sent[c] /\ ackedFile'[c] = ackedFile[c]
    BY DEF AppendIndex
  <2> QED BY <1>4, <1>6, <1>7, <1>8, <2>1, <2>2, <2>3 DEF MirrorInv
<1>11. StepInv(c)'
  BY DEF StepInv, At, AppendIndex, Idle
<1>12. TypeOK'
  <2>1. index' \in [Channels -> Seq(Entry \cup {Torn})]
    <3>1. index[c] \in Seq(Entry \cup {Torn}) /\ e \in Entry \cup {Torn}
      BY <1>2, <1>4 DEF TypeOK
    <3>2. Append(index[c], e) \in Seq(Entry \cup {Torn})
      BY <3>1, AppendProperties
    <3> QED BY <1>2, <1>5, <3>2 DEF TypeOK
  <2>2. entries' \in [Channels -> Seq(Entry)]
    BY <1>2, <1>5, <1>6 DEF TypeOK
  <2>3. log' \in [Channels -> Seq(Nat)]
    BY <1>2, <1>5, <1>7 DEF TypeOK
  <2>4. /\ pcmEnd' = [pcmEnd EXCEPT ![c] = @ + 1]
        /\ unackedBytes' = [unackedBytes EXCEPT ![c] = @ + 1]
        /\ pcmEnd \in [Channels -> Nat] /\ unackedBytes \in [Channels -> Nat]
    BY <1>2 DEF TypeOK, AppendIndex
  <2>5. pcmEnd' \in [Channels -> Nat] /\ unackedBytes' \in [Channels -> Nat]
    BY <2>4
  <2>6. pc' \in [step : Steps, chan : Channels \cup {None}]
    BY DEF AppendIndex, Steps, Idle
  <2> QED BY <1>2, <2>1, <2>2, <2>3, <2>4, <2>5, <2>6 DEF TypeOK, AppendIndex
<1> QED BY <1>1, <1>9, <1>10, <1>11, <1>12 DEF ChannelInv, OutboxInv

\* So does dying inside an index line.
LEMMA TearIndexLineStep ==
  ASSUME OutboxInv, NEW c \in Channels, TearIndexLine(c)
  PROVE  OutboxInv'
<1>1. ASSUME NEW d \in Channels, d # c PROVE ChannelInv(d)'
  <2>1. ChannelInv(d) /\ TypeOK
    BY DEF OutboxInv
  <2> QED BY <1>1, <2>1, OtherChannel DEF TypeOK, TearIndexLine, memory, Loaded, At
<1>2. Loaded(c) /\ ~At("compact_index", c) /\ TypeOK
  BY DEF TearIndexLine, At, Loaded, OutboxInv
<1>3. PICK n, L : View(c, n, L)
  BY <1>2, LoadedView
<1>4. /\ index'[c] \in Seq(Entry \cup {Torn})
      /\ WholeLen(index'[c]) = n
      /\ \A i \in 1..n : index'[c][i] = entries[c][i]
  <2>1. /\ index'[c] = Append(index[c], Torn) /\ index[c] = entries[c]
        /\ index[c] \in Seq(Entry \cup {Torn}) /\ Len(index[c]) = n
        /\ Torn \in Entry \cup {Torn} /\ n \in Nat
    BY <1>2, <1>3 DEF TypeOK, TearIndexLine, View
  <2> DEFINE S == Entry \cup {Torn}
  <2>a. index[c] \in Seq(S) /\ Torn \in S
    BY <2>1
  <2> HIDE DEF S
  <2>b. /\ Append(index[c], Torn) \in Seq(S)
        /\ Append(index[c], Torn) # <<>>
        /\ Len(Append(index[c], Torn)) = Len(index[c]) + 1
        /\ \A i \in 1..Len(index[c]) : Append(index[c], Torn)[i] = index[c][i]
        /\ Append(index[c], Torn)[Len(index[c]) + 1] = Torn
    BY <2>a, AppendProperties
  <2>2. /\ Append(index[c], Torn) \in Seq(Entry \cup {Torn})
        /\ Append(index[c], Torn) # <<>>
        /\ Len(Append(index[c], Torn)) = n + 1
        /\ \A i \in 1..n : Append(index[c], Torn)[i] = index[c][i]
        /\ Append(index[c], Torn)[n + 1] = Torn
    BY <2>1, <2>b DEF S
  <2> QED BY <2>1, <2>2 DEF WholeLen
<1>5. DiskInv(c)'
  <2>1. /\ pcm'[c] = pcm[c] /\ log'[c] = log[c] /\ ackedFile'[c] = ackedFile[c]
        /\ sent'[c] = sent[c]
    BY DEF TearIndexLine
  <2>2. /\ n <= L /\ ackedFile[c] >= L - n - 1 /\ sent[c] < L
        /\ L = Len(log[c])
        /\ \A i \in 1..n : entries[c][i] = [seq |-> L - n + i - 1, offset |-> i - 1]
    BY <1>3 DEF View
  <2>3. n <= Len(pcm[c]) /\ \A i \in 1..n : pcm[c][i] = log[c][L - n + i]
    BY <1>2, <1>3 DEF View
  <2>4. ackedFile[c] <= sent[c]
    BY DEF OutboxInv, ChannelInv, DiskInv
  <2> QED BY <1>4, <2>1, <2>2, <2>3, <2>4 DEF DiskInv, PayloadsMatch
<1>6. ~Loaded(c)' /\ StepInv(c)'
  BY DEF StepInv, At, TearIndexLine, Loaded
<1>7. TypeOK'
  <2>1. index' \in [Channels -> Seq(Entry \cup {Torn})]
    BY <1>2, <1>4 DEF TypeOK, TearIndexLine
  <2>2. pc' \in [step : Steps, chan : Channels \cup {None}]
    BY DEF TearIndexLine, Steps
  <2>3. crashes' \in 0..MaxCrashes
    BY <1>2, OutboxBounds DEF TypeOK, TearIndexLine
  <2> QED BY <1>2, <2>1, <2>2, <2>3 DEF TypeOK, TearIndexLine, memory
<1> QED BY <1>1, <1>5, <1>6, <1>7 DEF ChannelInv, OutboxInv

\* So does handing out unacked frames.
LEMMA HandOutStep ==
  ASSUME OutboxInv, NEW c \in Channels, HandOut(c)
  PROVE  OutboxInv'
<1>1. ASSUME NEW d \in Channels, d # c PROVE ChannelInv(d)'
  <2>1. ChannelInv(d) /\ TypeOK
    BY DEF OutboxInv
  <2>2. sent'[d] = sent[d]
    BY <1>1, <2>1 DEF TypeOK, HandOut
  <2> QED BY <1>1, <2>1, <2>2, OtherChannel DEF HandOut, disk, memory, Loaded, At, Idle
<1>2. Loaded(c) /\ pc = Idle /\ TypeOK /\ ChannelInv(c)
  BY DEF HandOut, Loaded, Idle, OutboxInv
<1>3. PICK n, L : View(c, n, L)
  BY <1>2, LoadedView
<1>4. PICK i \in 1..n : sent' = [sent EXCEPT ![c] = MaxOf(@, entries[c][i].seq)]
  BY <1>3 DEF HandOut, UnackedEntries, View
<1>5. /\ entries[c][i].seq = L - n + i - 1 /\ n \in Nat /\ L \in Nat /\ n <= L
      /\ sent[c] \in Int /\ sent[c] < L
  <2>1. entries[c][i] = [seq |-> L - n + i - 1, offset |-> i - 1]
    BY <1>3 DEF View
  <2>2. n \in Nat /\ L \in Nat /\ n <= L /\ sent[c] \in Int /\ sent[c] < L
    BY <1>3 DEF View
  <2> QED BY <2>1, <2>2
<1>6. sent'[c] = MaxOf(sent[c], entries[c][i].seq)
  BY <1>2, <1>4 DEF TypeOK
<1>7. sent'[c] \in Nat \cup {None} /\ sent'[c] >= sent[c] /\ sent'[c] < L
  <2>1. sent[c] \in Nat \cup {None}
    BY <1>2 DEF TypeOK
  <2> QED BY <1>5, <1>6, <2>1 DEF MaxOf, None
<1>8. /\ pcm' = pcm /\ index' = index /\ ackedFile' = ackedFile /\ entries' = entries
      /\ pcmEnd' = pcmEnd /\ ackedIdx' = ackedIdx /\ unackedBytes' = unackedBytes
      /\ acked' = acked /\ opened' = opened /\ pc' = pc /\ log' = log
      /\ captured' = captured /\ crashes' = crashes
  BY DEF HandOut, disk, memory
<1>9. /\ ackedFile[c] <= sent'[c] /\ acked[c] <= sent'[c] /\ sent'[c] < Len(log[c])
  <2>1. /\ ackedFile[c] \in Int /\ acked[c] \in Int /\ L = Len(log[c])
        /\ ackedFile[c] <= acked[c] /\ acked[c] <= sent[c]
    BY <1>3 DEF View
  <2>2. sent'[c] \in Int
    BY <1>7 DEF None
  <2> QED BY <1>5, <1>7, <2>1, <2>2
<1>10. DiskInv(c)'
  BY <1>2, <1>8, <1>9 DEF ChannelInv, DiskInv, PayloadsMatch, FullyAcked
<1>11. MirrorInv(c)'
  BY <1>2, <1>8, <1>9 DEF ChannelInv, MirrorInv, PayloadsMatch, At
<1>12. StepInv(c)'
  BY <1>2, <1>8 DEF StepInv, At, Idle
<1>13. TypeOK'
  <2>1. sent' \in [Channels -> Nat \cup {None}]
    BY <1>2, <1>4, <1>7 DEF TypeOK
  <2> QED BY <1>2, <1>8, <2>1 DEF TypeOK
<1> QED BY <1>1, <1>10, <1>11, <1>12, <1>13 DEF ChannelInv, OutboxInv

\* The arithmetic of an ack that moves from old to a.
LEMMA AckArithmetic ==
  ASSUME NEW n \in Nat, NEW L \in Nat, NEW old \in Int, NEW a \in Nat, NEW s \in Int,
         n <= L, old >= L - n - 1, a > old, a <= s, s < L
  PROVE  /\ old + 1 - (L - n) <= a + 1 - (L - n) /\ a + 1 - (L - n) <= n
         /\ a + 1 - (L - n) \in Nat /\ L - 1 - a \in Nat
         /\ (L - 1 - old) - ((a + 1 - (L - n)) - (old + 1 - (L - n))) = L - 1 - a
OBVIOUS

\* So does raising the ack in memory.
LEMMA MarkAckedStep ==
  ASSUME OutboxInv, NEW c \in Channels, MarkAcked(c)
  PROVE  OutboxInv'
<1>1. /\ pcm' = pcm /\ index' = index /\ ackedFile' = ackedFile /\ entries' = entries
      /\ pcmEnd' = pcmEnd /\ opened' = opened /\ log' = log /\ sent' = sent
      /\ captured' = captured /\ crashes' = crashes
      /\ pc = Idle /\ pc' = [step |-> "acked", chan |-> c]
  BY DEF MarkAcked, disk, env
<1>2. Loaded(c) /\ TypeOK /\ ChannelInv(c)
  BY <1>1 DEF Loaded, Idle, OutboxInv
<1>3. PICK n, L : View(c, n, L)
  BY <1>2, LoadedView
<1>4. PICK a \in 0..sent[c] :
        /\ a > acked[c]
        /\ acked' = [acked EXCEPT ![c] = a]
        /\ ackedIdx' = [ackedIdx EXCEPT ![c] = AdvancedIdx(entries[c], ackedIdx[c], a)]
        /\ unackedBytes' = [unackedBytes EXCEPT
             ![c] = @ - (AdvancedIdx(entries[c], ackedIdx[c], a) - ackedIdx[c])]
  BY DEF MarkAcked
<1>5. /\ n \in Nat /\ L \in Nat /\ n <= L
      /\ acked[c] \in Int /\ ackedFile[c] \in Int /\ sent[c] \in Int
      /\ ackedFile[c] >= L - n - 1 /\ ackedFile[c] <= acked[c] /\ acked[c] <= sent[c]
      /\ sent[c] < L
  BY <1>3 DEF View
<1>c. /\ n = Len(entries[c]) /\ L = Len(log[c])
      /\ ackedIdx[c] = acked[c] + 1 - (L - n) /\ unackedBytes[c] = L - 1 - acked[c]
  BY <1>3 DEF View
<1>a. a \in Nat /\ a <= sent[c] /\ a > acked[c]
  <2>1. a \in 0..sent[c] /\ a > acked[c] /\ sent[c] \in Int
    BY <1>4, <1>5
  <2> QED BY <2>1
<1>b. /\ ackedIdx[c] <= a + 1 - (L - n) /\ a + 1 - (L - n) <= n
      /\ a + 1 - (L - n) \in Nat /\ L - 1 - a \in Nat
      /\ unackedBytes[c] - ((a + 1 - (L - n)) - ackedIdx[c]) = L - 1 - a
  <2>1. acked[c] >= L - n - 1
    BY <1>5
  <2>2. /\ n \in Nat /\ L \in Nat /\ n <= L /\ acked[c] \in Int /\ sent[c] \in Int /\ sent[c] < L
    BY <1>5
  <2>3. /\ acked[c] + 1 - (L - n) <= a + 1 - (L - n) /\ a + 1 - (L - n) <= n
        /\ a + 1 - (L - n) \in Nat /\ L - 1 - a \in Nat
        /\ (L - 1 - acked[c]) - ((a + 1 - (L - n)) - (acked[c] + 1 - (L - n))) = L - 1 - a
    BY <1>a, <2>1, <2>2, AckArithmetic
  <2> QED BY <1>c, <2>3
<1>6. AdvancedIdx(entries[c], ackedIdx[c], a) = a + 1 - (L - n)
  <2>1. \A i \in 1..Len(entries[c]) : entries[c][i].seq = (L - n) + i - 1
    <3> SUFFICES ASSUME NEW i \in 1..Len(entries[c])
                 PROVE  entries[c][i].seq = (L - n) + i - 1
      OBVIOUS
    <3>1. entries[c][i] = [seq |-> L - n + i - 1, offset |-> i - 1]
      BY <1>3, <1>c DEF View
    <3> QED BY <3>1
  <2>2. entries[c] \in Seq(Entry) /\ ackedIdx[c] \in Nat
    BY <1>2 DEF TypeOK
  <2>3. ackedIdx[c] <= a + 1 - (L - n) /\ a + 1 - (L - n) <= Len(entries[c]) /\ a \in Int
    <3>1. n = Len(entries[c])
      BY <1>c
    <3>2. a \in Int
      BY <1>a
    <3> QED BY <1>b, <3>1, <3>2
  <2>4. L - n \in Int
    BY <1>5
  <2> QED BY <2>1, <2>2, <2>3, <2>4, AdvancedIdxExact
<1>7. /\ acked'[c] = a /\ ackedIdx'[c] = a + 1 - (L - n)
      /\ unackedBytes'[c] = L - 1 - a
  <2>1. /\ acked'[c] = a /\ ackedIdx'[c] = a + 1 - (L - n)
        /\ unackedBytes'[c] = unackedBytes[c] - ((a + 1 - (L - n)) - ackedIdx[c])
    BY <1>2, <1>4, <1>6 DEF TypeOK
  <2> QED BY <1>b, <2>1
<1>8. ackedFile[c] <= a /\ a <= sent[c] /\ a \in Nat /\ a + 1 - (L - n) \in Nat /\ L - 1 - a \in Nat
  BY <1>5, <1>a, <1>b
<1>9. ASSUME NEW d \in Channels, d # c PROVE ChannelInv(d)'
  <2>1. acked'[d] = acked[d] /\ ackedIdx'[d] = ackedIdx[d] /\ unackedBytes'[d] = unackedBytes[d]
    BY <1>2, <1>4, <1>9 DEF TypeOK
  <2>2. ChannelInv(d)
    BY DEF OutboxInv
  <2> QED BY <1>1, <1>9, <2>1, <2>2, OtherChannel DEF Loaded, At, Idle
<1>10. DiskInv(c)'
  BY <1>1, <1>2 DEF ChannelInv, DiskInv, PayloadsMatch, FullyAcked
<1>11. MirrorInv(c)'
  <2>1. PayloadsMatch(c) /\ entries[c] = index[c] /\ pcmEnd[c] = Len(entries[c])
    BY <1>1, <1>2 DEF ChannelInv, MirrorInv, At, Idle
  <2> QED BY <1>1, <1>c, <1>7, <1>8, <2>1 DEF MirrorInv, PayloadsMatch
<1>12. StepInv(c)'
  BY <1>1 DEF StepInv, At
<1>13. TypeOK'
  <2>1. /\ acked' \in [Channels -> Nat \cup {None}] /\ ackedIdx' \in [Channels -> Nat]
        /\ unackedBytes' \in [Channels -> Nat]
    BY <1>2, <1>4, <1>7, <1>8 DEF TypeOK
  <2>2. pc' \in [step : Steps, chan : Channels \cup {None}]
    BY <1>1 DEF Steps
  <2> QED BY <1>1, <1>2, <2>1, <2>2 DEF TypeOK
<1> QED BY <1>9, <1>10, <1>11, <1>12, <1>13 DEF ChannelInv, OutboxInv

\* A channel compaction starts on is fully acked.
LEMMA CompactionDueFullyAcked ==
  ASSUME NEW c, NEW n, NEW L, View(c, n, L), CompactionDue(c)
  PROVE  acked[c] >= L - 1
<1>1. n \in 1..n
  BY EmptySeq DEF View, CompactionDue
<1>2. entries[c][n] = [seq |-> L - n + n - 1, offset |-> n - 1]
  BY <1>1 DEF View
<1>3. n \in Nat /\ L \in Nat /\ n = Len(entries[c])
  BY DEF View
<1>4. entries[c][n].seq = L - 1
  BY <1>2, <1>3
<1> QED BY <1>3, <1>4 DEF CompactionDue

\* So does replacing acked.json.
LEMMA ReplaceAckedFileStep ==
  ASSUME OutboxInv, NEW c \in Channels, ReplaceAckedFile(c)
  PROVE  OutboxInv'
<1>1. /\ pcm' = pcm /\ index' = index /\ ackedFile' = acked /\ entries' = entries
      /\ pcmEnd' = pcmEnd /\ ackedIdx' = ackedIdx /\ unackedBytes' = unackedBytes
      /\ acked' = acked /\ opened' = opened /\ log' = log /\ sent' = sent
      /\ captured' = captured /\ crashes' = crashes
      /\ pc = [step |-> "acked", chan |-> c]
      /\ pc' = IF CompactionDue(c) THEN [step |-> "compact", chan |-> c] ELSE Idle
  BY DEF ReplaceAckedFile, memory, env, At
<1>2. ASSUME NEW d \in Channels PROVE ChannelInv(d)'
  <2>1. Loaded(d) /\ ChannelInv(d) /\ ~At("compact_index", d)
    BY <1>1 DEF Loaded, At, OutboxInv
  <2>2. PICK n, L : View(d, n, L)
    BY <2>1, LoadedView
  <2>3. /\ n \in Nat /\ L \in Nat /\ acked[d] \in Int /\ ackedFile[d] \in Int
        /\ ackedFile[d] >= L - n - 1 /\ ackedFile[d] <= acked[d] /\ acked[d] <= sent[d]
        /\ L = Len(log[d]) /\ n = WholeLen(index[d])
    BY <2>2 DEF View
  <2>4. ackedFile'[d] >= L - n - 1 /\ ackedFile'[d] <= sent[d] /\ ackedFile'[d] <= acked'[d]
    BY <1>1, <2>3
  <2>5. PayloadsMatch(d)'
    BY <1>1, <2>1 DEF ChannelInv, MirrorInv, PayloadsMatch
  <2>6. DiskInv(d)'
    BY <1>1, <2>1, <2>3, <2>4, <2>5 DEF ChannelInv, DiskInv
  <2>7. MirrorInv(d)'
    BY <1>1, <2>1, <2>4, <2>5 DEF ChannelInv, MirrorInv
  <2>8. StepInv(d)'
    <3>1. CASE d = c /\ CompactionDue(c)
      BY <1>1, <2>2, <2>3, <3>1, CompactionDueFullyAcked DEF StepInv, At, FullyAcked
    <3>2. CASE d # c \/ ~CompactionDue(c)
      BY <1>1, <3>2 DEF StepInv, At, Idle
    <3> QED BY <3>1, <3>2
  <2> QED BY <2>6, <2>7, <2>8 DEF ChannelInv
<1>3. TypeOK'
  <2>1. pc' \in [step : Steps, chan : Channels \cup {None}]
    BY <1>1 DEF Steps, Idle
  <2> QED BY <1>1, <2>1 DEF TypeOK, OutboxInv
<1> QED BY <1>2, <1>3 DEF OutboxInv

\* So does the first half of compaction.
LEMMA TruncatePcmStep ==
  ASSUME OutboxInv, NEW c \in Channels, TruncatePcm(c)
  PROVE  OutboxInv'
<1>1. /\ pcm' = [pcm EXCEPT ![c] = <<>>] /\ index' = index /\ ackedFile' = ackedFile
      /\ entries' = entries
      /\ pcmEnd' = pcmEnd /\ ackedIdx' = ackedIdx /\ unackedBytes' = unackedBytes
      /\ acked' = acked /\ opened' = opened /\ log' = log /\ sent' = sent
      /\ captured' = captured /\ crashes' = crashes
      /\ pc = [step |-> "compact", chan |-> c]
      /\ pc' = [step |-> "compact_index", chan |-> c]
  BY DEF TruncatePcm, memory, env, At
<1>2. TypeOK /\ ChannelInv(c) /\ Loaded(c) /\ FullyAcked(c)
  BY <1>1 DEF OutboxInv, ChannelInv, StepInv, At, Loaded
<1>3. pcm'[c] = <<>> /\ FullyAcked(c)'
  BY <1>1, <1>2 DEF TypeOK, FullyAcked
<1>4. ASSUME NEW d \in Channels, d # c PROVE ChannelInv(d)'
  <2>1. ChannelInv(d) /\ pcm'[d] = pcm[d]
    BY <1>1, <1>2, <1>4 DEF OutboxInv, TypeOK
  <2> QED BY <1>1, <1>4, <2>1, OtherChannel DEF Loaded, At
<1>5. DiskInv(c)'
  BY <1>1, <1>2, <1>3 DEF ChannelInv, DiskInv
<1>6. MirrorInv(c)'
  BY <1>1, <1>2 DEF ChannelInv, MirrorInv, At
<1>7. StepInv(c)'
  BY <1>1, <1>3 DEF StepInv, At
<1>8. TypeOK'
  <2>1. pc' \in [step : Steps, chan : Channels \cup {None}]
    BY <1>1 DEF Steps
  <2>2. pcm' \in [Channels -> Seq(Nat)]
    BY <1>1, <1>2 DEF TypeOK
  <2> QED BY <1>1, <1>2, <2>1, <2>2 DEF TypeOK
<1> QED BY <1>4, <1>5, <1>6, <1>7, <1>8 DEF ChannelInv, OutboxInv

\* So does its second half.
LEMMA TruncateIndexStep ==
  ASSUME OutboxInv, NEW c \in Channels, TruncateIndex(c)
  PROVE  OutboxInv'
<1>1. /\ pcm' = pcm /\ index' = [index EXCEPT ![c] = <<>>] /\ ackedFile' = ackedFile
      /\ entries' = [entries EXCEPT ![c] = <<>>]
      /\ pcmEnd' = [pcmEnd EXCEPT ![c] = 0] /\ ackedIdx' = [ackedIdx EXCEPT ![c] = 0]
      /\ unackedBytes' = [unackedBytes EXCEPT ![c] = 0]
      /\ acked' = acked /\ opened' = opened /\ log' = log /\ sent' = sent
      /\ captured' = captured /\ crashes' = crashes
      /\ pc = [step |-> "compact_index", chan |-> c] /\ pc' = Idle
  BY DEF TruncateIndex, env, At
<1>2. TypeOK /\ ChannelInv(c) /\ Loaded(c) /\ FullyAcked(c)
  BY <1>1 DEF OutboxInv, ChannelInv, StepInv, At, Loaded
<1>3. PICK n, L : View(c, n, L)
  BY <1>2, LoadedView
<1>4. /\ index'[c] = <<>> /\ entries'[c] = <<>> /\ pcmEnd'[c] = 0 /\ ackedIdx'[c] = 0
      /\ unackedBytes'[c] = 0 /\ WholeLen(index'[c]) = 0
  BY <1>1, <1>2 DEF TypeOK, WholeLen
<1>5. /\ L \in Nat /\ L = Len(log[c]) /\ acked[c] \in Int /\ ackedFile[c] \in Int
      /\ ackedFile[c] <= acked[c] /\ acked[c] <= sent[c] /\ sent[c] < L /\ sent[c] \in Int
      /\ ackedFile[c] >= L - 1 /\ pcm[c] \in Seq(Nat)
  BY <1>2, <1>3 DEF View, FullyAcked
<1>6. acked[c] = L - 1 /\ ackedFile[c] = L - 1 /\ sent[c] = L - 1
  BY <1>5
<1>7. PayloadsMatch(c)'
  BY <1>1, <1>4, <1>5 DEF PayloadsMatch
<1>8. DiskInv(c)'
  BY <1>1, <1>4, <1>5, <1>6, <1>7 DEF DiskInv
<1>9. MirrorInv(c)'
  <2>1. Len(entries'[c]) = 0 /\ acked[c] + 1 - (L - 0) = 0 /\ L - 1 - acked[c] = 0
    BY <1>4, <1>5, <1>6
  <2> QED BY <1>1, <1>4, <1>5, <1>7, <2>1 DEF MirrorInv
<1>10. StepInv(c)'
  BY <1>1 DEF StepInv, At, Idle
<1>11. ASSUME NEW d \in Channels, d # c PROVE ChannelInv(d)'
  <2>1. /\ index'[d] = index[d] /\ entries'[d] = entries[d] /\ pcmEnd'[d] = pcmEnd[d]
        /\ ackedIdx'[d] = ackedIdx[d] /\ unackedBytes'[d] = unackedBytes[d]
    BY <1>1, <1>2, <1>11 DEF TypeOK
  <2>2. ChannelInv(d)
    BY DEF OutboxInv
  <2> QED BY <1>1, <1>11, <2>1, <2>2, OtherChannel DEF Loaded, At, Idle
<1>12. TypeOK'
  <2>1. pc' \in [step : Steps, chan : Channels \cup {None}]
    BY <1>1 DEF Steps, Idle
  <2>2. /\ index' \in [Channels -> Seq(Entry \cup {Torn})]
        /\ entries' \in [Channels -> Seq(Entry)]
        /\ pcmEnd' \in [Channels -> Nat] /\ ackedIdx' \in [Channels -> Nat]
        /\ unackedBytes' \in [Channels -> Nat]
    <3>1. /\ index \in [Channels -> Seq(Entry \cup {Torn})] /\ entries \in [Channels -> Seq(Entry)]
          /\ pcmEnd \in [Channels -> Nat] /\ ackedIdx \in [Channels -> Nat] /\ unackedBytes \in [Channels -> Nat]
      BY <1>2 DEF TypeOK
    <3>2. <<>> \in Seq(Entry \cup {Torn}) /\ <<>> \in Seq(Entry)
      OBVIOUS
    <3>3. index' \in [Channels -> Seq(Entry \cup {Torn})] /\ entries' \in [Channels -> Seq(Entry)]
      BY ONLY <1>1, <3>1, <3>2
    <3>4. pcmEnd' \in [Channels -> Nat] /\ ackedIdx' \in [Channels -> Nat] /\ unackedBytes' \in [Channels -> Nat]
      BY ONLY <1>1, <3>1
    <3> QED BY ONLY <3>3, <3>4
  <2> QED BY <1>1, <1>2, <2>1, <2>2 DEF TypeOK
<1> QED BY <1>8, <1>9, <1>10, <1>11, <1>12 DEF ChannelInv, OutboxInv

\* So does the death of the process.
LEMMA CrashStep ==
  ASSUME OutboxInv, Crash
  PROVE  OutboxInv'
<1>1. /\ UNCHANGED <<pcm, index, ackedFile, entries, pcmEnd, ackedIdx, unackedBytes, acked,
                     opened, log, sent, captured>>
      /\ pc' = [step |-> "down", chan |-> None]
      /\ crashes < MaxCrashes /\ crashes' = crashes + 1
  BY DEF Crash, disk, memory
<1>2. ASSUME NEW d \in Channels PROVE ChannelInv(d)'
  <2>1. DiskInv(d)
    BY DEF OutboxInv, ChannelInv
  <2>2. DiskInv(d)'
    BY <1>1, <2>1 DEF DiskInv, PayloadsMatch, FullyAcked
  <2>3. ~Loaded(d)' /\ StepInv(d)'
    BY <1>1 DEF Loaded, StepInv, At
  <2> QED BY <2>2, <2>3 DEF ChannelInv
<1>3. TypeOK'
  <2>1. pc' \in [step : Steps, chan : Channels \cup {None}]
    BY <1>1 DEF Steps
  <2>2. crashes' \in 0..MaxCrashes
    BY <1>1, OutboxBounds DEF OutboxInv, TypeOK
  <2> QED BY <1>1, <2>1, <2>2 DEF OutboxInv, TypeOK
<1> QED BY <1>2, <1>3 DEF OutboxInv

\* So does opening the outbox again.
LEMMA ReopenStep ==
  ASSUME OutboxInv, Reopen
  PROVE  OutboxInv'
<1>1. /\ UNCHANGED <<pcm, index, ackedFile, log, sent, captured, crashes>>
      /\ pc' = [step |-> "opening", chan |-> None]
      /\ acked' = ackedFile /\ opened' = {}
      /\ entries' = [c \in Channels |-> <<>>] /\ pcmEnd' = [c \in Channels |-> 0]
      /\ ackedIdx' = [c \in Channels |-> 0] /\ unackedBytes' = [c \in Channels |-> 0]
  BY DEF Reopen, disk, env
<1>2. ASSUME NEW d \in Channels PROVE ChannelInv(d)'
  <2>1. DiskInv(d)
    BY DEF OutboxInv, ChannelInv
  <2>2. DiskInv(d)'
    BY <1>1, <2>1 DEF DiskInv, PayloadsMatch, FullyAcked
  <2>3. ~Loaded(d)' /\ StepInv(d)'
    BY <1>1 DEF Loaded, StepInv, At
  <2> QED BY <2>2, <2>3 DEF ChannelInv
<1>3. TypeOK'
  <2>1. pc' \in [step : Steps, chan : Channels \cup {None}]
    BY <1>1 DEF Steps
  <2> QED BY <1>1, <2>1 DEF OutboxInv, TypeOK
<1> QED BY <1>2, <1>3 DEF OutboxInv

\* Recovery of one channel: all its whole lines, or nothing once compaction has emptied it.
LEMMA RecoveredCases ==
  ASSUME OutboxInv, NEW c \in Channels
  PROVE  LET k == RecoveredLen(index[c], Len(pcm[c]))
         IN  /\ k \in 0..Len(index[c]) /\ k <= Len(pcm[c])
             /\ k <= WholeLen(index[c])
             /\ \/ k = WholeLen(index[c]) /\ PayloadsMatch(c)
                \/ k = 0 /\ FullyAcked(c)
<1>1. TypeOK /\ DiskInv(c)
  BY DEF OutboxInv, ChannelInv
<1>2. /\ index[c] \in Seq(Entry \cup {Torn}) /\ pcm[c] \in Seq(Nat) /\ log[c] \in Seq(Nat)
  BY <1>1 DEF TypeOK
<1>3. WholeLen(index[c]) \in 0..Len(index[c]) /\ Len(pcm[c]) \in Nat /\ Len(log[c]) \in Nat
  BY <1>2 DEF WholeLen
<1>4. CASE PayloadsMatch(c)
  <2> DEFINE b == Len(log[c]) - WholeLen(index[c]) - 1
  <2>1. WholeLen(index[c]) <= Len(pcm[c]) /\ b \in Int
    BY <1>3, <1>4 DEF PayloadsMatch
  <2>2. \A i \in 1..WholeLen(index[c]) : index[c][i] = [seq |-> b + i, offset |-> i - 1]
    <3> SUFFICES ASSUME NEW i \in 1..WholeLen(index[c])
                 PROVE  index[c][i] = [seq |-> b + i, offset |-> i - 1]
      OBVIOUS
    <3>1. index[c][i] = [seq |-> Len(log[c]) - WholeLen(index[c]) + i - 1, offset |-> i - 1]
      BY <1>1 DEF DiskInv
    <3>2. Len(log[c]) - WholeLen(index[c]) + i - 1 = b + i
      BY <1>3
    <3> QED BY <3>1, <3>2
  <2> HIDE DEF b
  <2>3. RecoveredLen(index[c], Len(pcm[c])) = WholeLen(index[c])
    BY <1>2, <1>3, <2>1, <2>2, RecoveredLenFull
  <2> QED BY <1>3, <1>4, <2>1, <2>3
<1>5. CASE pcm[c] = <<>> /\ FullyAcked(c)
  <2>1. Len(pcm[c]) = 0
    BY <1>5
  <2>2. RecoveredLen(index[c], Len(pcm[c])) = 0
    BY <1>2, <2>1, RecoveredLenEmpty
  <2> QED BY <1>3, <1>5, <2>1, <2>2
<1> QED BY <1>1, <1>4, <1>5 DEF DiskInv

\* So does cutting the payload file back on open.
LEMMA OpenPcmStep ==
  ASSUME OutboxInv, NEW c \in Channels, OpenPcm(c)
  PROVE  OutboxInv'
<1> DEFINE k == RecoveredLen(index[c], Len(pcm[c]))
<1>1. /\ UNCHANGED <<index, ackedFile, ackedIdx, unackedBytes, acked, opened, log, sent,
                     captured, crashes>>
      /\ pc.step = "opening" /\ c \notin opened
      /\ pc' = [step |-> "open_index", chan |-> c]
      /\ entries' = [entries EXCEPT ![c] = SubSeq(index[c], 1, k)]
      /\ pcmEnd' = [pcmEnd EXCEPT ![c] = Len(SubSeq(index[c], 1, k))]
      /\ pcm' = [pcm EXCEPT ![c] = SubSeq(@, 1, Len(SubSeq(index[c], 1, k)))]
  BY DEF OpenPcm, env, Recovered
<1>2. TypeOK /\ ChannelInv(c)
  BY DEF OutboxInv
<1>3. /\ k \in 0..Len(index[c]) /\ k <= Len(pcm[c]) /\ k <= WholeLen(index[c])
      /\ \/ k = WholeLen(index[c]) /\ PayloadsMatch(c)
         \/ k = 0 /\ FullyAcked(c)
  BY RecoveredCases
<1> HIDE DEF k
<1>4. index[c] \in Seq(Entry \cup {Torn}) /\ pcm[c] \in Seq(Nat) /\ k \in 0..Len(pcm[c])
  BY <1>2, <1>3 DEF TypeOK
<1>5. /\ SubSeq(index[c], 1, k) \in Seq(Entry \cup {Torn}) /\ Len(SubSeq(index[c], 1, k)) = k
      /\ \A i \in 1..k : SubSeq(index[c], 1, k)[i] = index[c][i]
  BY <1>3, <1>4, PrefixProperties
<1>6. /\ SubSeq(pcm[c], 1, k) \in Seq(Nat) /\ Len(SubSeq(pcm[c], 1, k)) = k
      /\ \A i \in 1..k : SubSeq(pcm[c], 1, k)[i] = pcm[c][i]
  BY <1>4, PrefixProperties
<1>7. /\ entries'[c] = SubSeq(index[c], 1, k) /\ pcmEnd'[c] = k
      /\ pcm'[c] = SubSeq(pcm[c], 1, k)
  BY <1>1, <1>2, <1>5 DEF TypeOK
<1>8. SubSeq(index[c], 1, k) \in Seq(Entry)
  <2>1. \A i \in 1..k : index[c][i] \in Entry
    <3> SUFFICES ASSUME NEW i \in 1..k PROVE index[c][i] \in Entry
      OBVIOUS
    <3>1. i \in 1..WholeLen(index[c]) /\ i \in 1..Len(index[c])
      BY <1>3, <1>4 DEF WholeLen
    <3>2. index[c][i] = [seq |-> Len(log[c]) - WholeLen(index[c]) + i - 1, offset |-> i - 1]
      BY <1>2, <3>1 DEF ChannelInv, DiskInv
    <3>3. index[c][i] \in Entry \cup {Torn}
      BY <1>4, <3>1
    <3>4. index[c][i].offset = i - 1
      BY <3>2
    <3>5. index[c][i] # Torn
      BY <3>4 DEF Torn, None
    <3> QED BY <3>3, <3>5
  <2>2. \A i \in 1..Len(SubSeq(index[c], 1, k)) : SubSeq(index[c], 1, k)[i] \in Entry
    BY <1>5, <2>1
  <2> QED BY <1>3, <2>1, SubSeqProperties
<1>9. PayloadsMatch(c)' \/ (k = 0 /\ pcm'[c] = <<>> /\ FullyAcked(c)')
  <2>1. CASE k = WholeLen(index[c]) /\ PayloadsMatch(c)
    <3>1. \A i \in 1..k : pcm[c][i] = log[c][Len(log[c]) - k + i]
      BY <2>1 DEF PayloadsMatch
    <3>2. \A i \in 1..k : pcm'[c][i] = log[c][Len(log[c]) - k + i]
      BY <1>6, <1>7, <3>1
    <3>3. k <= Len(pcm'[c])
      BY <1>3, <1>6, <1>7
    <3> QED BY <1>1, <2>1, <3>2, <3>3 DEF PayloadsMatch
  <2>2. CASE k = 0 /\ FullyAcked(c)
    <3>1. pcm'[c] = <<>>
      BY <1>6, <1>7, <2>2, EmptySeq
    <3> QED BY <1>1, <2>2, <3>1 DEF FullyAcked
  <2> QED BY <1>3, <2>1, <2>2
<1>10. DiskInv(c)'
  BY <1>1, <1>2, <1>9 DEF ChannelInv, DiskInv
<1>11. ~Loaded(c)'
  BY <1>1 DEF Loaded
<1>12. StepInv(c)'
  <2>1. acked'[c] = ackedFile'[c]
    BY <1>1, <1>2 DEF ChannelInv, StepInv
  <2>2. Len(entries'[c]) = k /\ entries'[c] = SubSeq(index'[c], 1, Len(entries'[c]))
    BY <1>1, <1>5, <1>7
  <2>3. \/ k = WholeLen(index'[c]) /\ PayloadsMatch(c)'
        \/ k = 0 /\ FullyAcked(c)'
    <3>1. CASE k = WholeLen(index[c]) /\ PayloadsMatch(c)
      <4>1. CASE PayloadsMatch(c)'
        BY <1>1, <3>1, <4>1
      <4>2. CASE k = 0 /\ FullyAcked(c)'
        BY <4>2
      <4> QED BY <1>9, <4>1, <4>2
    <3>2. CASE k = 0 /\ FullyAcked(c)
      BY <1>1, <3>2 DEF FullyAcked
    <3> QED BY <1>3, <3>1, <3>2
  <2> QED BY <1>1, <1>7, <2>1, <2>2, <2>3 DEF StepInv, At
<1>13. ASSUME NEW d \in Channels, d # c PROVE ChannelInv(d)'
  <2>1. entries'[d] = entries[d] /\ pcmEnd'[d] = pcmEnd[d] /\ pcm'[d] = pcm[d]
    BY <1>1, <1>2, <1>13 DEF TypeOK
  <2>2. ChannelInv(d) /\ acked[d] = ackedFile[d]
    BY <1>1 DEF OutboxInv, ChannelInv, StepInv
  <2> QED BY <1>1, <1>13, <2>1, <2>2, OtherChannel DEF Loaded, At
<1>14. TypeOK'
  <2>1. pc' \in [step : Steps, chan : Channels \cup {None}]
    BY <1>1 DEF Steps
  <2>2. entries' \in [Channels -> Seq(Entry)]
    BY <1>1, <1>2, <1>8 DEF TypeOK
  <2>3. pcmEnd' \in [Channels -> Nat]
    <3>1. k \in Nat
      BY <1>3
    <3> QED BY <1>1, <1>2, <1>5, <3>1 DEF TypeOK
  <2>4. pcm' \in [Channels -> Seq(Nat)]
    BY <1>1, <1>2, <1>6, <1>7 DEF TypeOK
  <2> QED BY <1>1, <1>2, <2>1, <2>2, <2>3, <2>4 DEF TypeOK
<1> QED BY <1>10, <1>11, <1>12, <1>13, <1>14 DEF ChannelInv, OutboxInv

\* So does cutting the index back on open.
LEMMA OpenIndexStep ==
  ASSUME OutboxInv, NEW c \in Channels, OpenIndex(c)
  PROVE  OutboxInv'
<1> DEFINE m == Len(entries[c])
           L == Len(log[c])
           k == AdvancedIdx(entries[c], 0, acked[c])
<1>1. /\ UNCHANGED <<pcm, ackedFile, entries, pcmEnd, acked, log, sent, captured, crashes>>
      /\ pc = [step |-> "open_index", chan |-> c]
      /\ index' = [index EXCEPT ![c] = SubSeq(@, 1, m)]
      /\ ackedIdx' = [ackedIdx EXCEPT ![c] = k]
      /\ unackedBytes' = [unackedBytes EXCEPT ![c] = m - k]
      /\ opened' = opened \cup {c}
      /\ pc' = IF opened' = Channels THEN Idle ELSE [step |-> "opening", chan |-> None]
  BY DEF OpenIndex, env, At
<1>2. TypeOK /\ ChannelInv(c) /\ DiskInv(c) /\ StepInv(c) /\ At("open_index", c)
  BY <1>1 DEF OutboxInv, ChannelInv, At
<1>3. /\ entries[c] = SubSeq(index[c], 1, m) /\ pcmEnd[c] = m /\ acked[c] = ackedFile[c]
      /\ \/ m = WholeLen(index[c]) /\ PayloadsMatch(c)
         \/ m = 0 /\ FullyAcked(c)
  BY <1>1, <1>2 DEF StepInv
<1>4. /\ entries[c] \in Seq(Entry) /\ m \in Nat /\ L \in Nat
      /\ index[c] \in Seq(Entry \cup {Torn}) /\ pcm[c] \in Seq(Nat)
  BY <1>2 DEF TypeOK
<1>5. acked[c] \in Int /\ sent[c] \in Int /\ ackedFile[c] \in Int
  <2>1. /\ acked[c] \in Nat \cup {None} /\ sent[c] \in Nat \cup {None}
        /\ ackedFile[c] \in Nat \cup {None}
    BY <1>2 DEF TypeOK
  <2> QED BY <2>1 DEF None
<1>6. /\ m <= L /\ ackedFile[c] >= L - m - 1 /\ ackedFile[c] <= sent[c] /\ sent[c] < L
      /\ \A i \in 1..m : entries[c][i] = [seq |-> L - m + i - 1, offset |-> i - 1]
  <2>1. ackedFile[c] <= sent[c] /\ sent[c] < L
    BY <1>2 DEF DiskInv
  <2>2. CASE m = WholeLen(index[c])
    <3>1. m <= L /\ ackedFile[c] >= L - m - 1
      BY <1>2, <2>2 DEF DiskInv
    <3>2. m \in 0..Len(index[c])
      BY <1>4, <2>2 DEF WholeLen
    <3>3. \A i \in 1..m : SubSeq(index[c], 1, m)[i] = index[c][i]
      BY <1>4, <3>2, PrefixProperties
    <3>4. \A i \in 1..m : index[c][i] = [seq |-> L - m + i - 1, offset |-> i - 1]
      BY <1>2, <2>2 DEF DiskInv
    <3>5. \A i \in 1..m : entries[c][i] = index[c][i]
      BY <1>3, <3>3
    <3> QED BY <2>1, <3>1, <3>4, <3>5
  <2>3. CASE m = 0 /\ FullyAcked(c)
    <3>1. ackedFile[c] >= L - m - 1 /\ m <= L
      BY <1>4, <1>5, <2>3 DEF FullyAcked
    <3> QED BY <2>1, <2>3, <3>1
  <2> QED BY <1>3, <2>2, <2>3
<1>7. k = acked[c] + 1 - (L - m) /\ k \in Nat /\ m - k = L - 1 - acked[c] /\ m - k \in Nat
  <2>1. \A i \in 1..Len(entries[c]) : entries[c][i].seq = (L - m) + i - 1
    <3> SUFFICES ASSUME NEW i \in 1..Len(entries[c])
                 PROVE  entries[c][i].seq = (L - m) + i - 1
      OBVIOUS
    <3>1. entries[c][i] = [seq |-> L - m + i - 1, offset |-> i - 1]
      BY <1>6
    <3> QED BY <3>1
  <2> HIDE DEF m, L
  <2>2. /\ 0 <= acked[c] + 1 - (L - m) /\ acked[c] + 1 - (L - m) <= m
        /\ m - (acked[c] + 1 - (L - m)) = L - 1 - acked[c] /\ L - m \in Int
    BY <1>3, <1>4, <1>5, <1>6
  <2>3. 0 \in Nat /\ m = Len(entries[c])
    BY DEF m
  <2>4. AdvancedIdx(entries[c], 0, acked[c]) = acked[c] + 1 - (L - m)
    <3>1. PICK es, a, b : es = entries[c] /\ a = acked[c] /\ b = L - m
      OBVIOUS
    <3>2. es \in Seq(Entry) /\ Len(es) = m /\ a \in Int /\ b \in Int
      BY <1>4, <1>5, <2>2, <2>3, <3>1
    <3>3. \A i \in 1..Len(es) : es[i].seq = b + i - 1
      BY <2>1, <3>1
    <3>4. 0 <= a + 1 - b /\ a + 1 - b <= Len(es)
      BY <2>2, <3>1, <3>2
    <3>5. AdvancedIdx(es, 0, a) = a + 1 - b
      BY ONLY <2>3, <3>2, <3>3, <3>4, AdvancedIdxExact
    <3> QED BY <3>1, <3>5
  <2> QED BY <1>4, <1>5, <2>2, <2>4
<1> HIDE DEF k
<1>8. /\ index'[c] = entries[c] /\ ackedIdx'[c] = k /\ unackedBytes'[c] = m - k
      /\ WholeLen(index'[c]) = m
  <2>1. index'[c] = entries[c] /\ ackedIdx'[c] = k /\ unackedBytes'[c] = m - k
    BY <1>1, <1>2, <1>3 DEF TypeOK
  <2> QED BY <1>4, <2>1, WholeLenEntries
<1>9. PayloadsMatch(c)'
  <2>1. m <= Len(pcm[c]) /\ \A i \in 1..m : pcm[c][i] = log[c][L - m + i]
    <3>1. CASE m = WholeLen(index[c]) /\ PayloadsMatch(c)
      BY <3>1 DEF PayloadsMatch
    <3>2. CASE m = 0
      BY <1>4, <3>2
    <3> QED BY <1>3, <3>1, <3>2
  <2> QED BY <1>1, <1>8, <2>1 DEF PayloadsMatch
<1>10. DiskInv(c)'
  BY <1>1, <1>6, <1>8, <1>9 DEF DiskInv
<1>11. MirrorInv(c)'
  <2>1. ackedFile[c] <= acked[c] /\ acked[c] <= sent[c]
    BY <1>3, <1>5, <1>6
  <2> QED BY <1>1, <1>3, <1>7, <1>8, <1>9, <2>1 DEF MirrorInv
<1>12. StepInv(c)'
  BY <1>1, <1>3 DEF StepInv, At, Idle
<1>13. ASSUME NEW d \in Channels, d # c PROVE ChannelInv(d)'
  <2>1. index'[d] = index[d] /\ ackedIdx'[d] = ackedIdx[d] /\ unackedBytes'[d] = unackedBytes[d]
    BY <1>1, <1>2, <1>13 DEF TypeOK
  <2>2. ChannelInv(d) /\ acked[d] = ackedFile[d]
    BY <1>1 DEF OutboxInv, ChannelInv, StepInv
  <2>3. Loaded(d)' => Loaded(d)
    BY <1>1, <1>13 DEF Loaded, Idle
  <2> QED BY <1>1, <1>13, <2>1, <2>2, <2>3, OtherChannel DEF At, Idle
<1>14. TypeOK'
  <2>1. pc' \in [step : Steps, chan : Channels \cup {None}]
    BY <1>1 DEF Steps, Idle
  <2>2. index' \in [Channels -> Seq(Entry \cup {Torn})]
    <3>1. m \in 0..Len(index[c])
      BY <1>3, <1>4 DEF WholeLen
    <3>2. SubSeq(index[c], 1, m) \in Seq(Entry \cup {Torn})
      BY <1>4, <3>1, PrefixProperties
    <3> QED BY <1>1, <1>2, <3>2 DEF TypeOK
  <2>3. ackedIdx' \in [Channels -> Nat] /\ unackedBytes' \in [Channels -> Nat]
    BY <1>1, <1>2, <1>7 DEF TypeOK
  <2>4. opened' \in SUBSET Channels
    BY <1>1, <1>2 DEF TypeOK
  <2> QED BY <1>1, <1>2, <2>1, <2>2, <2>3, <2>4 DEF TypeOK
<1> QED BY <1>10, <1>11, <1>12, <1>13, <1>14 DEF ChannelInv, OutboxInv

-----------------------------------------------------------------------------
(* The theorems *)

\* The invariant holds of a new outbox.
LEMMA OutboxInitInv == OutboxInit => OutboxInv
<1> SUFFICES ASSUME OutboxInit PROVE OutboxInv
  OBVIOUS
<1>1. TypeOK
  BY OutboxBounds DEF OutboxInit, TypeOK, Idle, Steps, None
<1>2. ASSUME NEW c \in Channels PROVE ChannelInv(c)
  <2>1. /\ index[c] = <<>> /\ entries[c] = <<>> /\ log[c] = <<>> /\ pcm[c] = <<>>
        /\ acked[c] = -1 /\ ackedFile[c] = -1 /\ sent[c] = -1 /\ pcmEnd[c] = 0
        /\ ackedIdx[c] = 0 /\ unackedBytes[c] = 0 /\ pc.step = "idle"
    BY DEF OutboxInit, None, Idle
  <2>2. WholeLen(index[c]) = 0 /\ Len(log[c]) = 0 /\ Len(pcm[c]) = 0 /\ Len(entries[c]) = 0
    BY <2>1 DEF WholeLen
  <2>3. PayloadsMatch(c)
    BY <2>2 DEF PayloadsMatch
  <2>4. DiskInv(c)
    BY <2>1, <2>2, <2>3 DEF DiskInv
  <2>5. MirrorInv(c)
    BY <2>1, <2>2, <2>3 DEF MirrorInv
  <2>6. StepInv(c)
    BY <2>1 DEF StepInv, At
  <2> QED BY <2>4, <2>5, <2>6 DEF ChannelInv
<1> QED BY <1>1, <1>2 DEF OutboxInv

\* Every step keeps it.
LEMMA OutboxNextInv == OutboxInv /\ [OutboxNext]_outboxVars => OutboxInv'
<1> SUFFICES ASSUME OutboxInv, [OutboxNext]_outboxVars PROVE OutboxInv'
  OBVIOUS
<1>1. ASSUME NEW c \in Channels,
             \/ AppendPayload(c) \/ AppendIndex(c) \/ TearIndexLine(c)
             \/ HandOut(c) \/ MarkAcked(c) \/ ReplaceAckedFile(c)
             \/ TruncatePcm(c) \/ TruncateIndex(c)
             \/ OpenPcm(c) \/ OpenIndex(c)
      PROVE  OutboxInv'
  BY <1>1, AppendPayloadStep, AppendIndexStep, TearIndexLineStep, HandOutStep, MarkAckedStep,
     ReplaceAckedFileStep, TruncatePcmStep, TruncateIndexStep, OpenPcmStep, OpenIndexStep
<1>2. CASE Crash
  BY <1>2, CrashStep
<1>3. CASE Reopen
  BY <1>3, ReopenStep
<1>4. CASE UNCHANGED outboxVars
  BY <1>4 DEF OutboxInv, TypeOK, ChannelInv, DiskInv, MirrorInv, StepInv, Loaded, PayloadsMatch,
              FullyAcked, At, outboxVars
<1> QED BY <1>1, <1>2, <1>3, <1>4 DEF OutboxNext

\* OutboxInv holds in every state of every behaviour of the outbox.
THEOREM OutboxInvariant == OutboxSpec => []OutboxInv
BY OutboxInitInv, OutboxNextInv, PTL DEF OutboxSpec

\* The outbox's files and in-memory mirror keep their shape; in particular the unacked-bytes
\* counter never goes negative.
THEOREM OutboxTypeCorrect == OutboxSpec => []TypeOK
<1>1. OutboxInv => TypeOK
  BY DEF OutboxInv
<1> QED BY <1>1, OutboxInvariant, PTL

\* A new frame takes the seq after the last recorded one, across acks, compactions and crashes.
THEOREM SeqsContinue == OutboxSpec => []SeqsNeitherReusedNorSkipped
<1>1. OutboxInv => SeqsNeitherReusedNorSkipped
  <2> SUFFICES ASSUME OutboxInv, pc = Idle, NEW c \in Channels
               PROVE  NextSeq(c) = Len(log[c])
    BY DEF SeqsNeitherReusedNorSkipped
  <2>1. PICK n, L : View(c, n, L)
    BY LoadedView DEF Loaded, Idle
  <2> QED BY <2>1, NextSeqExact DEF View
<1> QED BY <1>1, OutboxInvariant, PTL

\* Whatever write the process dies after, every frame acked.json does not cover is recovered
\* with its own payload: what _open_channel and the order of the writes promise.
THEOREM CrashSafety == OutboxSpec => []UnackedRecoverable
<1>1. OutboxInv => UnackedRecoverable
  <2> SUFFICES ASSUME OutboxInv, NEW c \in Channels,
                      NEW s \in (ackedFile[c] + 1)..(Len(log[c]) - 1)
               PROVE  \E i \in 1..Len(Recovered(c)) :
                        /\ Recovered(c)[i].seq = s
                        /\ pcm[c][Recovered(c)[i].offset + 1] = log[c][s + 1]
    BY DEF UnackedRecoverable
  <2> DEFINE n == WholeLen(index[c])
             L == Len(log[c])
             k == RecoveredLen(index[c], Len(pcm[c]))
  <2>1. /\ k \in 0..Len(index[c])
        /\ \/ k = n /\ PayloadsMatch(c)
           \/ k = 0 /\ FullyAcked(c)
    BY RecoveredCases
  <2>2. /\ index[c] \in Seq(Entry \cup {Torn}) /\ log[c] \in Seq(Nat)
        /\ ackedFile[c] \in Nat \cup {None}
    BY DEF OutboxInv, TypeOK
  <2>3. n \in Nat /\ L \in Nat /\ ackedFile[c] \in Int
    BY <2>2 DEF WholeLen, None
  <2>4. /\ ackedFile[c] >= L - n - 1
        /\ \A i \in 1..n : index[c][i] = [seq |-> L - n + i - 1, offset |-> i - 1]
    BY DEF OutboxInv, ChannelInv, DiskInv
  <2>5. s \in Int /\ s >= ackedFile[c] + 1 /\ s <= L - 1
    BY <2>3
  <2>6. k = n /\ \A i \in 1..n : pcm[c][i] = log[c][L - n + i]
    <3>1. CASE k = n /\ PayloadsMatch(c)
      BY <3>1 DEF PayloadsMatch
    <3>2. CASE k = 0 /\ FullyAcked(c)
      <4>1. ackedFile[c] >= L - 1
        BY <3>2 DEF FullyAcked
      <4> HIDE DEF L
      <4> QED BY <2>3, <2>5, <4>1
    <3> QED BY <2>1, <3>1, <3>2
  <2>7. /\ Len(Recovered(c)) = k
        /\ \A i \in 1..k : Recovered(c)[i] = index[c][i]
    BY <2>1, <2>2, PrefixProperties DEF Recovered
  <2> DEFINE j == s - (L - n) + 1
  <2> HIDE DEF n, L, k
  <2>8. j \in 1..n /\ L - n + j = s + 1 /\ L - n + j - 1 = s /\ j - 1 + 1 = j
    BY <2>3, <2>4, <2>5
  <2> HIDE DEF j
  <2>9. Recovered(c)[j] = [seq |-> s, offset |-> j - 1]
    BY <2>4, <2>6, <2>7, <2>8
  <2>10. pcm[c][j] = log[c][s + 1]
    BY <2>6, <2>8
  <2>11. Recovered(c)[j].seq = s /\ Recovered(c)[j].offset + 1 = j
    BY <2>8, <2>9
  <2>12. j \in 1..Len(Recovered(c))
    BY <2>6, <2>7, <2>8
  <2> QED BY <2>10, <2>11, <2>12
<1> QED BY <1>1, OutboxInvariant, PTL

\* Between operations the transport can read every unacked frame with its own payload.
THEOREM NothingUnackedLost == OutboxSpec => []UnackedServed
<1>1. OutboxInv => UnackedServed
  <2> SUFFICES ASSUME OutboxInv, pc = Idle, NEW c \in Channels,
                      NEW s \in (acked[c] + 1)..(Len(log[c]) - 1)
               PROVE  \E i \in UnackedEntries(c) :
                        /\ entries[c][i].seq = s
                        /\ pcm[c][entries[c][i].offset + 1] = log[c][s + 1]
    BY DEF UnackedServed
  <2>1. PICK n, L : View(c, n, L)
    BY LoadedView DEF Loaded, Idle
  <2>2. /\ n \in Nat /\ L \in Nat /\ acked[c] \in Int /\ ackedFile[c] \in Int
        /\ ackedFile[c] >= L - n - 1 /\ ackedFile[c] <= acked[c]
    BY <2>1 DEF View
  <2>3. n = Len(entries[c]) /\ L = Len(log[c])
    BY <2>1 DEF View
  <2>4. s \in Int /\ s >= acked[c] + 1 /\ s <= L - 1
    BY <2>2, <2>3
  <2> DEFINE j == s - (L - n) + 1
  <2>5. j \in 1..n /\ L - n + j = s + 1 /\ L - n + j - 1 = s /\ j - 1 + 1 = j /\ s > acked[c]
    BY <2>2, <2>4
  <2> HIDE DEF j
  <2>6. entries[c][j] = [seq |-> s, offset |-> j - 1] /\ pcm[c][j] = log[c][s + 1]
    <3>1. entries[c][j] = [seq |-> L - n + j - 1, offset |-> j - 1]
      BY <2>1, <2>5 DEF View
    <3>2. pcm[c][j] = log[c][L - n + j]
      BY <2>1, <2>5 DEF View, At, Idle
    <3> QED BY <2>5, <3>1, <3>2
  <2>7. entries[c][j].seq = s /\ entries[c][j].offset + 1 = j
    BY <2>5, <2>6
  <2>8. j \in UnackedEntries(c)
    BY <2>3, <2>5, <2>7 DEF UnackedEntries
  <2> QED BY <2>6, <2>7, <2>8
<1> QED BY <1>1, OutboxInvariant, PTL

\* The unacked-bytes counter, maintained incrementally, equals the size of the unacked frames.
THEOREM UnackedBytesCorrect == OutboxSpec => []UnackedBytesExact
<1>1. OutboxInv => UnackedBytesExact
  <2> SUFFICES ASSUME OutboxInv, pc = Idle, NEW c \in Channels
               PROVE  unackedBytes[c] = Cardinality(UnackedEntries(c))
    BY DEF UnackedBytesExact
  <2>1. PICK n, L : View(c, n, L)
    BY LoadedView DEF Loaded, Idle
  <2>2. /\ n \in Nat /\ L \in Nat /\ n <= L /\ acked[c] \in Int /\ ackedFile[c] \in Int
        /\ sent[c] \in Int
        /\ ackedFile[c] >= L - n - 1 /\ ackedFile[c] <= acked[c] /\ acked[c] <= sent[c]
        /\ sent[c] < L
    BY <2>1 DEF View
  <2>3. n = Len(entries[c]) /\ unackedBytes[c] = L - 1 - acked[c]
    BY <2>1 DEF View
  <2> DEFINE b == acked[c] + 2 - (L - n)
  <2>4. UnackedEntries(c) = b..n
    <3>1. ASSUME NEW i \in 1..n PROVE entries[c][i].seq = L - n + i - 1
      <4>1. entries[c][i] = [seq |-> L - n + i - 1, offset |-> i - 1]
        BY <2>1 DEF View
      <4> QED BY <4>1
    <3>2. \A i \in 1..n : entries[c][i].seq > acked[c] <=> i \in b..n
      BY <2>2, <3>1
    <3>3. UnackedEntries(c) = {i \in 1..n : i \in b..n}
      BY <2>3, <3>2 DEF UnackedEntries
    <3>4. \A i \in b..n : i \in 1..n
      BY <2>2
    <3> QED BY <3>3, <3>4
  <2>5. b \in Int /\ (IF b > n THEN 0 ELSE n - b + 1) = L - 1 - acked[c]
    BY <2>2
  <2>6. Cardinality(b..n) = IF b > n THEN 0 ELSE n - b + 1
    <3>1. b \in Int /\ n \in Int
      BY <2>2, <2>5
    <3> HIDE DEF b
    <3> QED BY ONLY <3>1, FS_Interval
  <2> QED BY <2>3, <2>4, <2>5, <2>6
<1> QED BY <1>1, OutboxInvariant, PTL

\* All of it together: nothing unacked is lost, reused, skipped or miscounted, whatever the process
\* dies after (append_frame, mark_acked, _compact_if_fully_acked, _open_channel).
THEOREM OutboxIsSound == OutboxSpec => []OutboxSound
  BY OutboxTypeCorrect, CrashSafety, NothingUnackedLost, SeqsContinue, UnackedBytesCorrect, PTL DEF OutboxSound

-----------------------------------------------------------------------------
(* The outbox implements FrameQueue *)

\* What the files still prove is what was recorded above acked.json.
Recorded(c) ==
  [i \in 1..(Len(log[c]) - 1 - ackedFile[c]) |-> [seq |-> ackedFile[c] + i, payload |-> log[c][ackedFile[c] + 1 + i]]]
LEMMA RecoverableIs ==
  ASSUME OutboxInv, NEW c \in Channels
  PROVE  /\ Recoverable(c) = Recorded(c)
         /\ ackedFile[c] \in Int /\ ackedFile[c] >= -1 /\ ackedFile[c] < Len(log[c]) /\ Len(log[c]) \in Nat
<1>1. /\ index[c] \in Seq(Entry \cup {Torn}) /\ log[c] \in Seq(Nat) /\ pcm[c] \in Seq(Nat)
      /\ ackedFile[c] \in Nat \cup {None} /\ sent[c] \in Nat \cup {None} /\ Len(log[c]) \in Nat
  <2>1. TypeOK
    BY DEF OutboxInv
  <2>2. /\ index \in [Channels -> Seq(Entry \cup {Torn})] /\ log \in [Channels -> Seq(Nat)] /\ pcm \in [Channels -> Seq(Nat)]
        /\ ackedFile \in [Channels -> Nat \cup {None}] /\ sent \in [Channels -> Nat \cup {None}]
    BY <2>1 DEF TypeOK
  <2>3. log[c] \in Seq(Nat)
    BY <2>2
  <2> QED BY <2>2, <2>3
<1>2. PICK n : n = WholeLen(index[c])
  OBVIOUS
<1>3. PICK L : L = Len(log[c])
  OBVIOUS
<1>4. PICK a : a = ackedFile[c]
  OBVIOUS
<1>5. PICK k : k = RecoveredLen(index[c], Len(pcm[c]))
  OBVIOUS
<1>6. n \in Nat /\ L \in Nat /\ a \in Int /\ a >= -1
  BY <1>1, <1>2, <1>3, <1>4 DEF WholeLen, None
<1>7. /\ n <= L /\ a >= L - n - 1 /\ a < L
      /\ \A i \in 1..n : index[c][i] = [seq |-> L - n + i - 1, offset |-> i - 1]
  <2>1. n <= L /\ a >= L - n - 1 /\ \A i \in 1..n : index[c][i] = [seq |-> L - n + i - 1, offset |-> i - 1]
    BY <1>2, <1>3, <1>4 DEF OutboxInv, ChannelInv, DiskInv
  <2>2. a <= sent[c] /\ sent[c] < L /\ sent[c] \in Int
    BY <1>1, <1>2, <1>3, <1>4 DEF OutboxInv, ChannelInv, DiskInv, None
  <2> QED BY <1>6, <2>1, <2>2
<1>8. /\ k \in 0..Len(index[c]) /\ k <= n
      /\ \/ k = n /\ PayloadsMatch(c)
         \/ k = 0 /\ FullyAcked(c)
  BY <1>2, <1>5, RecoveredCases
<1>9. Len(Recovered(c)) = k /\ \A i \in 1..k : Recovered(c)[i] = index[c][i]
  BY <1>1, <1>5, <1>8, PrefixProperties DEF Recovered
<1>10. k \in Nat
  BY <1>8
<1>11. PICK lines : lines = Recovered(c)
  OBVIOUS
<1>12. \A i \in 1..k : lines[i] = [seq |-> L - n + i - 1, offset |-> i - 1]
  <2> SUFFICES ASSUME NEW i \in 1..k PROVE lines[i] = [seq |-> L - n + i - 1, offset |-> i - 1]
    OBVIOUS
  <2>1. i \in 1..n
    BY <1>6, <1>8, <1>10
  <2>2. lines[i] = index[c][i]
    BY <1>9, <1>11
  <2> QED BY <1>7, <2>1, <2>2
<1>13. lines \in Seq(Entry)
  <2>1. lines = SubSeq(index[c], 1, k)
    BY <1>5, <1>11 DEF Recovered
  <2>2. \A i \in 1..k : index[c][i] \in Entry
    <3> SUFFICES ASSUME NEW i \in 1..k PROVE index[c][i] \in Entry
      OBVIOUS
    <3>1. n <= L
      BY <1>7
    <3>2. L - n + i - 1 \in Nat /\ i - 1 \in Nat
      BY <1>6, <1>10, <3>1
    <3>3. index[c][i] = [seq |-> L - n + i - 1, offset |-> i - 1]
      BY <1>9, <1>11, <1>12
    <3> QED BY <3>2, <3>3 DEF Entry
  <2> QED BY <1>10, <2>1, <2>2, SubSeqProperties
<1>14. CASE k = n /\ PayloadsMatch(c)
  <2>1. \A i \in 1..n : pcm[c][i] = log[c][L - n + i]
    BY <1>2, <1>3, <1>14 DEF PayloadsMatch
  <2>2. Covered(c) = a + 1 - (L - n)
    <3>1. \A i \in 1..Len(lines) : lines[i].seq = (L - n) + i - 1
      BY <1>9, <1>11, <1>12
    <3>2. L - n \in Int /\ 0 <= a + 1 - (L - n) /\ a + 1 - (L - n) <= Len(lines)
      BY <1>6, <1>7, <1>9, <1>11, <1>14
    <3>3. AdvancedIdx(lines, 0, a) = a + 1 - (L - n)
      BY <1>6, <1>13, <3>1, <3>2, AdvancedIdxExact
    <3> QED BY <1>4, <1>11, <3>3 DEF Covered
  <2>3. Len(lines) - Covered(c) = L - 1 - a
    BY <1>6, <1>9, <1>11, <1>14, <2>2
  <2>4. ASSUME NEW i \in 1..(L - 1 - a)
        PROVE  lines[Covered(c) + i].seq = a + i /\ pcm[c][lines[Covered(c) + i].offset + 1] = log[c][a + 1 + i]
    <3>1. PICK j \in 1..n : j = Covered(c) + i /\ L - n + j - 1 = a + i /\ L - n + j = a + 1 + i /\ j - 1 + 1 = j
      BY <1>6, <1>7, <2>2
    <3>2. lines[j] = [seq |-> L - n + j - 1, offset |-> j - 1]
      BY <1>12, <1>14
    <3>3. lines[j].seq = a + i /\ lines[j].offset + 1 = j
      BY <3>1, <3>2
    <3>4. pcm[c][j] = log[c][a + 1 + i]
      BY <2>1, <3>1
    <3> QED BY <3>1, <3>3, <3>4
  <2> QED BY <1>3, <1>4, <1>6, <1>7, <1>11, <2>3, <2>4 DEF Recoverable, Recorded
<1>15. CASE k = 0 /\ FullyAcked(c)
  <2>1. a = L - 1
    BY <1>3, <1>4, <1>6, <1>7, <1>15 DEF FullyAcked
  <2>2. Covered(c) = 0
    <3>1. Len(lines) = 0 /\ \A i \in 1..Len(lines) : lines[i].seq = L + i - 1
      BY <1>9, <1>11, <1>15
    <3>2. 0 <= a + 1 - L /\ a + 1 - L <= Len(lines)
      BY <1>6, <2>1, <3>1
    <3>3. a + 1 - L = 0
      BY <1>6, <2>1
    <3>4. AdvancedIdx(lines, 0, a) = a + 1 - L
      <4>1. \A i \in 1..Len(lines) : lines[i].seq = L + i - 1
        BY <3>1
      <4>2. L \in Int /\ a \in Int /\ 0 \in Nat
        BY <1>6
      <4> QED BY ONLY <1>13, <3>2, <4>1, <4>2, AdvancedIdxExact
    <3> QED BY <1>4, <1>11, <3>3, <3>4 DEF Covered
  <2>3. 1..(Len(Recovered(c)) - Covered(c)) = {} /\ 1..(L - 1 - a) = {}
    BY <1>6, <1>9, <1>15, <2>1, <2>2
  <2> QED BY <1>3, <1>4, <1>6, <1>7, <2>3 DEF Recoverable, Recorded
<1> QED BY <1>8, <1>14, <1>15

\* Payloads are ordinals of captures.
Ordinals == \A c \in Channels : \A i \in 1..Len(pcm[c]) : pcm[c][i] \in 0..MaxCaptures
LEMMA OrdinalsKept == OutboxInv /\ Ordinals /\ [OutboxNext]_outboxVars => Ordinals'
<1> SUFFICES ASSUME OutboxInv, Ordinals, [OutboxNext]_outboxVars, NEW d \in Channels, NEW i \in 1..Len(pcm'[d])
             PROVE  pcm'[d][i] \in 0..MaxCaptures
  BY DEF Ordinals
<1>1. /\ pcm \in [Channels -> Seq(Nat)] /\ pcmEnd \in [Channels -> Nat] /\ captured \in 0..MaxCaptures
      /\ entries \in [Channels -> Seq(Entry)]
  BY DEF OutboxInv, TypeOK
<1>2. CASE UNCHANGED pcm
  BY <1>2 DEF Ordinals
<1>3. ASSUME NEW c \in Channels, AppendPayload(c) PROVE pcm'[d][i] \in 0..MaxCaptures
  <2>1. pcmEnd[c] \in 0..Len(pcm[c])
    <3>1. PICK n, L : View(c, n, L)
      BY <1>3, LoadedView DEF Loaded, AppendPayload, Idle
    <3>2. ~At("compact_index", c)
      BY <1>3 DEF At, AppendPayload, Idle
    <3>3. pcmEnd[c] = n /\ n <= Len(pcm[c])
      BY <3>1, <3>2 DEF View
    <3>4. pcmEnd[c] \in Nat /\ Len(pcm[c]) \in Nat
      BY <1>1
    <3> QED BY <3>3, <3>4
  <2>2. PICK s : s = SubSeq(pcm[c], 1, pcmEnd[c])
    OBVIOUS
  <2>3. s \in Seq(Nat) /\ Len(s) = pcmEnd[c] /\ \A j \in 1..pcmEnd[c] : s[j] = pcm[c][j]
    BY <1>1, <2>1, <2>2, PrefixProperties
  <2>4. pcm' = [pcm EXCEPT ![c] = Append(s, captured)]
    BY <1>3, <2>2 DEF AppendPayload
  <2>5. CASE d # c
    BY <1>1, <2>4, <2>5 DEF Ordinals
  <2>6. CASE d = c
    <3>1. pcm'[d] = Append(s, captured)
      BY <1>1, <2>4, <2>6
    <3>a. captured \in Nat
      BY <1>1, OutboxBounds
    <3>b. /\ Len(Append(s, captured)) = Len(s) + 1 /\ Append(s, captured)[Len(s) + 1] = captured
          /\ \A j \in 1..Len(s) : Append(s, captured)[j] = s[j]
      BY <2>3, <3>a
    <3>c. Len(s) \in Nat /\ i \in 1..(Len(s) + 1)
      BY <2>3, <3>1, <3>b
    <3>2. CASE i = Len(s) + 1
      BY <1>1, <3>1, <3>2, <3>b
    <3>3. CASE i # Len(s) + 1
      <4>1. i \in 1..Len(s) /\ i \in 1..Len(pcm[c])
        <5>1. Len(pcm[c]) \in Nat
          BY <1>1
        <5> QED BY <2>1, <2>3, <3>3, <3>c, <5>1
      <4>2. pcm'[d][i] = pcm[c][i]
        BY <2>3, <3>1, <3>b, <4>1
      <4> QED BY <4>1, <4>2 DEF Ordinals
    <3> QED BY <3>2, <3>3
  <2> QED BY <2>5, <2>6
<1>4. ASSUME NEW c \in Channels, TruncatePcm(c) PROVE pcm'[d][i] \in 0..MaxCaptures
  <2>1. pcm' = [pcm EXCEPT ![c] = <<>>]
    BY <1>4 DEF TruncatePcm
  <2>2. d # c
    BY <1>1, <2>1
  <2> QED BY <1>1, <2>1, <2>2 DEF Ordinals
<1>5. ASSUME NEW c \in Channels, OpenPcm(c) PROVE pcm'[d][i] \in 0..MaxCaptures
  <2>1. PICK m : m = Len(Recovered(c))
    OBVIOUS
  <2>2. pcm' = [pcm EXCEPT ![c] = SubSeq(@, 1, m)]
    BY <1>5, <2>1 DEF OpenPcm
  <2>3. m \in 0..Len(pcm[c])
    <3>1. PICK k : k = RecoveredLen(index[c], Len(pcm[c]))
      OBVIOUS
    <3>2. k \in 0..Len(index[c]) /\ k <= Len(pcm[c])
      BY <3>1, RecoveredCases
    <3>3. index[c] \in Seq(Entry \cup {Torn}) /\ Len(pcm[c]) \in Nat
      <4>1. index[c] \in Seq(Entry \cup {Torn})
        BY DEF OutboxInv, TypeOK
      <4> QED BY <1>1, <4>1
    <3>4. m = k
      BY <2>1, <3>1, <3>2, <3>3, PrefixProperties DEF Recovered
    <3> QED BY <3>2, <3>3, <3>4
  <2>4. CASE d # c
    BY <1>1, <2>2, <2>4 DEF Ordinals
  <2>5. CASE d = c
    <3>1. pcm'[d] = SubSeq(pcm[c], 1, m)
      BY <1>1, <2>2, <2>5
    <3>2. Len(SubSeq(pcm[c], 1, m)) = m /\ \A j \in 1..m : SubSeq(pcm[c], 1, m)[j] = pcm[c][j]
      BY <1>1, <2>3, PrefixProperties
    <3>3. i \in 1..m /\ i \in 1..Len(pcm[c])
      BY <2>3, <3>1, <3>2
    <3> QED BY <3>1, <3>2, <3>3 DEF Ordinals
  <2> QED BY <2>4, <2>5
<1>6. ASSUME NEW c \in Channels,
             \/ AppendIndex(c) \/ TearIndexLine(c) \/ HandOut(c) \/ MarkAcked(c) \/ ReplaceAckedFile(c)
             \/ TruncateIndex(c) \/ OpenIndex(c)
      PROVE  UNCHANGED pcm
  BY <1>6 DEF AppendIndex, TearIndexLine, HandOut, MarkAcked, ReplaceAckedFile, TruncateIndex, OpenIndex, disk
<1>7. UNCHANGED outboxVars \/ Crash \/ Reopen => UNCHANGED pcm
  BY DEF outboxVars, Crash, Reopen, disk
<1> QED BY <1>2, <1>3, <1>4, <1>5, <1>6, <1>7 DEF OutboxNext

\* What is recorded moves as a queue does: by one frame at its end, by acks at its front.
Grows(c) ==
  /\ ackedFile' = ackedFile /\ \A d \in Channels \ {c} : Recorded(d)' = Recorded(d)
  /\ \E p \in 0..MaxCaptures : Recorded(c)' = Append(Recorded(c), [seq |-> ackedFile[c] + 1 + Len(Recorded(c)), payload |-> p])
Shrinks ==
  \A c \in Channels :
    /\ ackedFile'[c] \in Int /\ ackedFile[c] <= ackedFile'[c] /\ ackedFile'[c] < Len(log[c])
    /\ Recorded(c)' = SubSeq(Recorded(c), ackedFile'[c] - ackedFile[c] + 1, Len(Recorded(c)))

LEMMA RecordedLen ==
  ASSUME OutboxInv, NEW c \in Channels
  PROVE  Recorded(c) \in Seq([seq : Int, payload : Nat]) /\ Len(Recorded(c)) = Len(log[c]) - 1 - ackedFile[c]
<1>1. ackedFile[c] \in Int /\ ackedFile[c] >= -1 /\ ackedFile[c] < Len(log[c]) /\ Len(log[c]) \in Nat
  BY RecoverableIs
<1>2. log[c] \in Seq(Nat)
  BY DEF OutboxInv, TypeOK
<1>3. PICK n \in Nat : n = Len(log[c]) - 1 - ackedFile[c]
  BY <1>1
<1>4. PICK a \in Int : a = ackedFile[c]
  BY <1>1
<1>5. Recorded(c) = [i \in 1..n |-> [seq |-> a + i, payload |-> log[c][a + 1 + i]]]
  BY <1>3, <1>4 DEF Recorded
<1>6. \A i \in 1..n : [seq |-> a + i, payload |-> log[c][a + 1 + i]] \in [seq : Int, payload : Nat]
  <2> SUFFICES ASSUME NEW i \in 1..n PROVE a + i \in Int /\ log[c][a + 1 + i] \in Nat
    OBVIOUS
  <2>1. PICK L \in Nat : L = Len(log[c])
    BY <1>1
  <2>2. n = L - 1 - a /\ a >= -1
    BY ONLY <1>1, <1>3, <1>4, <2>1
  <2>3. a + i \in Int /\ a + 1 + i \in 1..L
    BY ONLY <2>2, n \in Nat, a \in Int, L \in Nat, i \in 1..n
  <2> QED BY <1>2, <2>1, <2>3
<1>7. Recorded(c) \in [1..n -> [seq : Int, payload : Nat]]
  BY <1>5, <1>6
<1>8. Len(Recorded(c)) = n /\ Recorded(c) \in Seq([seq : Int, payload : Nat])
  <2> DEFINE FrameShape == [seq : Int, payload : Nat]
  <2>1. PICK r : r = Recorded(c)
    OBVIOUS
  <2>2. r \in [1..n -> FrameShape]
    BY <1>7, <2>1
  <2> HIDE DEF FrameShape
  <2>3. r \in Seq(FrameShape) /\ Len(r) = n
    BY <2>2
  <2> QED BY <2>1, <2>3 DEF FrameShape
<1> QED BY <1>3, <1>8

LEMMA AppendGrows == ASSUME OutboxInv, OutboxInv', Ordinals, NEW c \in Channels, AppendIndex(c) PROVE Grows(c)
<1>1. PICK p : p = pcm[c][pcmEnd[c] + 1]
  OBVIOUS
<1>2. ackedFile' = ackedFile /\ log' = [log EXCEPT ![c] = Append(@, p)]
  BY <1>1 DEF AppendIndex
<1>3. p \in 0..MaxCaptures
  <2>1. pcmEnd[c] \in Nat /\ Len(pcm[c]) \in Nat
    BY DEF OutboxInv, TypeOK
  <2>2. pcmEnd[c] < Len(pcm[c])
    BY DEF AppendIndex, OutboxInv, ChannelInv, StepInv
  <2>3. pcmEnd[c] + 1 \in 1..Len(pcm[c])
    BY <2>1, <2>2
  <2> QED BY <1>1, <2>3 DEF Ordinals
<1>4. log \in [Channels -> Seq(Nat)] /\ ackedFile \in [Channels -> Nat \cup {None}]
  BY DEF OutboxInv, TypeOK
<1>5. \A d \in Channels \ {c} : Recorded(d)' = Recorded(d)
  BY <1>2, <1>4 DEF Recorded
<1>6. PICK a, L, n : a = ackedFile[c] /\ L = Len(log[c]) /\ n = L - 1 - a
  OBVIOUS
<1>7. a \in Int /\ L \in Nat /\ a >= -1 /\ a < L /\ n \in Nat /\ n = L - 1 - a
  BY <1>6, RecoverableIs
<1>8. PICK l : l = log[c]
  OBVIOUS
<1>9. l \in Seq(Nat) /\ Len(l) = L /\ log'[c] = Append(l, p) /\ p \in Nat
  BY <1>2, <1>3, <1>4, <1>6, <1>8
<1>10. Len(Append(l, p)) = L + 1 /\ Append(l, p)[L + 1] = p /\ \A i \in 1..L : Append(l, p)[i] = l[i]
  BY <1>9
<1>11. Recorded(c)' = [i \in 1..(n + 1) |-> [seq |-> a + i, payload |-> Append(l, p)[a + 1 + i]]]
  <2>1. L + 1 - 1 - a = n + 1
    BY ONLY <1>7
  <2>2. Recorded(c)' = [i \in 1..(Len(log'[c]) - 1 - ackedFile'[c]) |->
                         [seq |-> ackedFile'[c] + i, payload |-> log'[c][ackedFile'[c] + 1 + i]]]
    BY DEF Recorded
  <2>3. ackedFile'[c] = a /\ log'[c] = Append(l, p) /\ Len(log'[c]) = L + 1
    BY <1>2, <1>6, <1>9, <1>10
  <2>4. PICK a1, l1 : a1 = ackedFile'[c] /\ l1 = log'[c]
    OBVIOUS
  <2>5. Recorded(c)' = [i \in 1..(Len(l1) - 1 - a1) |-> [seq |-> a1 + i, payload |-> l1[a1 + 1 + i]]]
    BY <2>2, <2>4
  <2>6. a1 = a /\ l1 = Append(l, p)
    BY <2>3, <2>4
  <2>7. Len(l1) = L + 1
    BY <1>10, <2>6
  <2>8. Len(l1) - 1 - a1 = n + 1
    BY ONLY <1>7, <2>1, <2>6, <2>7
  <2> QED BY <2>5, <2>6, <2>8
<1>12. PICK r : r = Recorded(c)
  OBVIOUS
<1>13. r = [i \in 1..n |-> [seq |-> a + i, payload |-> l[a + 1 + i]]]
  BY <1>6, <1>8, <1>12 DEF Recorded
<1>14. Len(r) = n /\ r \in Seq([seq : Int, payload : Nat])
  BY <1>6, <1>12, RecordedLen
<1>15. Append(r, [seq |-> a + 1 + n, payload |-> p]) = [i \in 1..(n + 1) |-> IF i = n + 1 THEN [seq |-> a + 1 + n, payload |-> p] ELSE r[i]]
  BY <1>7, <1>14
<1>16. ASSUME NEW i \in 1..(n + 1)
       PROVE  [seq |-> a + i, payload |-> Append(l, p)[a + 1 + i]] = (IF i = n + 1 THEN [seq |-> a + 1 + n, payload |-> p] ELSE r[i])
  <2>1. CASE i = n + 1
    <3>1. a + 1 + i = L + 1 /\ a + i = a + 1 + n
      BY ONLY <1>7, <2>1
    <3> QED BY <1>10, <2>1, <3>1
  <2>2. CASE i # n + 1
    <3>1. i \in 1..n /\ a + 1 + i \in 1..L
      BY ONLY <1>7, <1>16, <2>2
    <3>2. Append(l, p)[a + 1 + i] = l[a + 1 + i]
      BY ONLY <1>10, <3>1
    <3>3. r[i] = [seq |-> a + i, payload |-> l[a + 1 + i]]
      BY ONLY <1>13, <3>1
    <3> QED BY ONLY <2>2, <3>2, <3>3
  <2> QED BY <2>1, <2>2
<1>17. Recorded(c)' = Append(r, [seq |-> a + 1 + n, payload |-> p])
  BY <1>11, <1>15, <1>16
<1> QED BY <1>2, <1>3, <1>5, <1>6, <1>12, <1>14, <1>17 DEF Grows

LEMMA AckShrinks == ASSUME OutboxInv, NEW c \in Channels, ReplaceAckedFile(c) PROVE Shrinks
<1> SUFFICES ASSUME NEW d \in Channels
             PROVE  /\ ackedFile'[d] \in Int /\ ackedFile[d] <= ackedFile'[d] /\ ackedFile'[d] < Len(log[d])
                    /\ Recorded(d)' = SubSeq(Recorded(d), ackedFile'[d] - ackedFile[d] + 1, Len(Recorded(d)))
  BY DEF Shrinks
<1>1. ackedFile' = acked /\ UNCHANGED log
  BY DEF ReplaceAckedFile, env
<1>2. PICK n0, L0 : View(d, n0, L0)
  BY LoadedView DEF Loaded, ReplaceAckedFile, At
<1>3. acked[d] \in Int /\ ackedFile[d] <= acked[d] /\ acked[d] < Len(log[d])
  BY <1>2 DEF View
<1>4. PICK a, b, L, n : a = ackedFile[d] /\ b = acked[d] /\ L = Len(log[d]) /\ n = L - 1 - a
  OBVIOUS
<1>5. a \in Int /\ b \in Int /\ L \in Nat /\ a >= -1 /\ a <= b /\ b < L /\ n \in Nat /\ n = L - 1 - a
  BY <1>3, <1>4, RecoverableIs
<1>6. PICK r, l : r = Recorded(d) /\ l = log[d]
  OBVIOUS
<1>7. r = [i \in 1..n |-> [seq |-> a + i, payload |-> l[a + 1 + i]]] /\ Len(r) = n
  BY <1>4, <1>6, RecordedLen DEF Recorded
<1>8. Recorded(d)' = [i \in 1..(L - 1 - b) |-> [seq |-> b + i, payload |-> l[b + 1 + i]]]
  BY <1>1, <1>4, <1>6 DEF Recorded
<1>9. SubSeq(r, b - a + 1, n) = [i \in 1..(L - 1 - b) |-> r[i + (b - a + 1) - 1]]
  <2>1. 1 + n - (b - a + 1) = L - 1 - b /\ b - a + 1 \in Int /\ n \in Int
    BY ONLY <1>5
  <2>2. SubSeq(r, b - a + 1, n) = [i \in 1..(1 + n - (b - a + 1)) |-> r[i + (b - a + 1) - 1]]
    BY <2>1
  <2> QED BY <2>1, <2>2
<1>10. ASSUME NEW i \in 1..(L - 1 - b) PROVE r[i + (b - a + 1) - 1] = [seq |-> b + i, payload |-> l[b + 1 + i]]
  <2>1. PICK j \in 1..n : j = i + (b - a + 1) - 1 /\ a + j = b + i /\ a + 1 + j = b + 1 + i
    <3>1. i \in Int /\ 1 <= i /\ i <= L - 1 - b
      BY <1>5
    <3>2. PICK j \in Int : j = i + (b - a + 1) - 1
      BY <1>5, <3>1
    <3>3. 1 <= j /\ j <= n /\ a + j = b + i /\ a + 1 + j = b + 1 + i
      BY <1>5, <3>1, <3>2
    <3>4. j \in 1..n
      BY <1>5, <3>3
    <3> QED BY <3>2, <3>3, <3>4
  <2> QED BY <1>7, <2>1
<1>11. Recorded(d)' = SubSeq(r, b - a + 1, n)
  BY <1>8, <1>9, <1>10
<1> QED BY <1>1, <1>3, <1>4, <1>6, <1>7, <1>11

LEMMA QueueMoves ==
  ASSUME OutboxInv, OutboxInv', Ordinals, [OutboxNext]_outboxVars
  PROVE  (\E c \in Channels : Grows(c)) \/ Shrinks \/ (UNCHANGED ackedFile /\ \A c \in Channels : Recorded(c)' = Recorded(c))
<1>1. CASE UNCHANGED <<ackedFile, log>>
  BY <1>1 DEF Recorded
<1>2. ASSUME NEW c \in Channels, AppendIndex(c) PROVE Grows(c)
  BY <1>2, AppendGrows
<1>3. ASSUME NEW c \in Channels, ReplaceAckedFile(c) PROVE Shrinks
  BY <1>3, AckShrinks
<1>4. ASSUME NEW c \in Channels,
             \/ AppendPayload(c) \/ TearIndexLine(c) \/ HandOut(c) \/ MarkAcked(c)
             \/ TruncatePcm(c) \/ TruncateIndex(c) \/ OpenPcm(c) \/ OpenIndex(c)
      PROVE  UNCHANGED <<ackedFile, log>>
  BY <1>4 DEF AppendPayload, TearIndexLine, HandOut, MarkAcked, TruncatePcm, TruncateIndex, OpenPcm, OpenIndex, disk, env
<1>5. UNCHANGED outboxVars \/ Crash \/ Reopen => UNCHANGED <<ackedFile, log>>
  BY DEF outboxVars, Crash, Reopen, disk, env
<1> QED BY <1>1, <1>2, <1>3, <1>4, <1>5 DEF OutboxNext

\* The outbox implements the queue: at every write, and whatever the process dies after, what
\* reopening would find is what was recorded above acked.json, in order, with its payloads.
THEOREM OutboxImplementsQueue == OutboxSpec => ImplementsQueue
<1> DEFINE FirstSeq == [c \in Channels |-> ackedFile[c] + 1]
           Frames == [c \in Channels |-> Recoverable(c)]
           Files == \A c \in Channels : Recoverable(c) = Recorded(c)
<1>1. OutboxInit => Queue!Init /\ Ordinals
  <2> SUFFICES ASSUME OutboxInit PROVE Queue!Init /\ Ordinals
    OBVIOUS
  <2>1. \A c \in Channels : ackedFile[c] = -1 /\ log[c] = <<>> /\ pcm[c] = <<>>
    BY DEF OutboxInit, None
  <2>2. \A c \in Channels : Recorded(c) = <<>>
    BY <2>1 DEF Recorded
  <2>3. \A c \in Channels : Recoverable(c) = <<>>
    BY <2>2, OutboxInitInv, RecoverableIs
  <2>4. Ordinals
    BY <2>1 DEF Ordinals
  <2> QED BY <2>1, <2>3, <2>4 DEF Queue!Init
<1>2. OutboxInv => Files
  BY RecoverableIs
<1>3. OutboxInv /\ OutboxInv' /\ Files /\ Files' /\ Ordinals /\ [OutboxNext]_outboxVars => [Queue!Next]_(Queue!queueVars)
  <2> SUFFICES ASSUME OutboxInv, OutboxInv', Files, Files', Ordinals, [OutboxNext]_outboxVars
               PROVE  Queue!Next \/ UNCHANGED Queue!queueVars
    OBVIOUS
  <2>1. \A c \in Channels : Frames[c] = Recorded(c) /\ Frames'[c] = Recorded(c)' /\ FirstSeq[c] = ackedFile[c] + 1 /\ FirstSeq'[c] = ackedFile'[c] + 1
    OBVIOUS
  <2>2. ASSUME NEW c \in Channels, Grows(c) PROVE Queue!Next
    <3>1. PICK p \in 0..MaxCaptures : Recorded(c)' = Append(Recorded(c), [seq |-> ackedFile[c] + 1 + Len(Recorded(c)), payload |-> p])
      BY <2>2 DEF Grows
    <3>2. FirstSeq' = FirstSeq /\ \A d \in Channels \ {c} : Recorded(d)' = Recorded(d)
      BY <2>2 DEF Grows
    <3>3. Frames' = [Frames EXCEPT ![c] = Append(@, [seq |-> FirstSeq[c] + Len(@), payload |-> p])]
      <4>1. Frames[c] = Recorded(c) /\ FirstSeq[c] = ackedFile[c] + 1 /\ Frames'[c] = Recorded(c)'
        BY <2>1
      <4>2. Frames'[c] = Append(Frames[c], [seq |-> FirstSeq[c] + Len(Frames[c]), payload |-> p])
        BY <3>1, <4>1
      <4>3. \A d \in Channels \ {c} : Frames'[d] = Frames[d]
        BY <2>1, <3>2
      <4>4. DOMAIN Frames = Channels /\ DOMAIN Frames' = Channels /\ Frames = [d \in Channels |-> Frames[d]] /\ Frames' = [d \in Channels |-> Frames'[d]]
        OBVIOUS
      <4> HIDE DEF Frames, FirstSeq
      <4> QED BY <4>2, <4>3, <4>4
    <3>4. Queue!Record(c)
      BY <3>2, <3>3 DEF Queue!Record
    <3> QED BY <3>4 DEF Queue!Next
  <2>3. CASE Shrinks
    <3>1. \A c \in Channels : ackedFile[c] \in Int /\ ackedFile[c] >= -1 /\ Len(log[c]) \in Nat /\ Len(Recorded(c)) = Len(log[c]) - 1 - ackedFile[c]
      BY RecoverableIs, RecordedLen
    <3>2. \A c \in Channels : /\ FirstSeq'[c] \in Nat /\ FirstSeq[c] <= FirstSeq'[c] /\ FirstSeq'[c] <= FirstSeq[c] + Len(Recorded(c))
                              /\ FirstSeq'[c] - FirstSeq[c] = ackedFile'[c] - ackedFile[c]
      <4> SUFFICES ASSUME NEW c \in Channels
                   PROVE  /\ FirstSeq'[c] \in Nat /\ FirstSeq[c] <= FirstSeq'[c] /\ FirstSeq'[c] <= FirstSeq[c] + Len(Recorded(c))
                          /\ FirstSeq'[c] - FirstSeq[c] = ackedFile'[c] - ackedFile[c]
        OBVIOUS
      <4>1. PICK a, b, L, n : a = ackedFile[c] /\ b = ackedFile'[c] /\ L = Len(log[c]) /\ n = Len(Recorded(c))
        OBVIOUS
      <4>2. a \in Int /\ a >= -1 /\ L \in Nat /\ n = L - 1 - a /\ b \in Int /\ a <= b /\ b < L
        BY <2>3, <3>1, <4>1 DEF Shrinks
      <4>3. b + 1 \in Nat /\ a + 1 <= b + 1 /\ b + 1 <= a + 1 + n /\ (b + 1) - (a + 1) = b - a
        BY ONLY <4>2
      <4>4. FirstSeq[c] = a + 1 /\ FirstSeq'[c] = b + 1
        BY <2>1, <4>1
      <4> QED BY <4>1, <4>3, <4>4
    <3>3. FirstSeq' \in [Channels -> Nat]
      BY <3>2
    <3>4. Frames' = [c \in Channels |-> SubSeq(Frames[c], FirstSeq'[c] - FirstSeq[c] + 1, Len(Frames[c]))]
      <4>1. \A c \in Channels : Recorded(c)' = SubSeq(Recorded(c), ackedFile'[c] - ackedFile[c] + 1, Len(Recorded(c)))
        BY <2>3 DEF Shrinks
      <4>2. \A c \in Channels : Frames'[c] = SubSeq(Frames[c], FirstSeq'[c] - FirstSeq[c] + 1, Len(Frames[c]))
        BY <2>1, <3>2, <4>1
      <4>3. Frames' = [c \in Channels |-> Frames'[c]]
        OBVIOUS
      <4> HIDE DEF Frames, FirstSeq
      <4> QED BY <4>2, <4>3
    <3>5. \A c \in Channels : FirstSeq[c] <= FirstSeq'[c] /\ FirstSeq'[c] <= FirstSeq[c] + Len(Frames[c])
      BY <2>1, <3>2
    <3>6. Queue!Acknowledge
      BY <3>3, <3>4, <3>5 DEF Queue!Acknowledge
    <3> QED BY <3>6 DEF Queue!Next
  <2>4. CASE UNCHANGED ackedFile /\ \A c \in Channels : Recorded(c)' = Recorded(c)
    BY <2>1, <2>4 DEF Queue!queueVars
  <2> QED BY <2>2, <2>3, <2>4, QueueMoves
<1> HIDE DEF Files
<1> QED BY <1>1, <1>2, <1>3, OutboxInvariant, OrdinalsKept, PTL DEF OutboxSpec, ImplementsQueue, Queue!Spec

-----------------------------------------------------------------------------
(* The keys (Triggers.tla) *)

\* Each key's state, and what the actions so far have begun: a key that is held into an action
\* is down, and dictation's is not chorded; a key whose press was not chorded is the only one
\* that is down.
DictKeys == [down : BOOLEAN, grade : 0..2, chorded : BOOLEAN, began : BOOLEAN, tap : {NoTap, "near", "opened"}]
KeyActions == {"none", "begin", "commit", "cancel", "toggle", "tap", "double_tap", "ask_begin", "ask_end"}
KeysTyped ==
  /\ mode \in TriggerModes /\ askOn \in BOOLEAN
  /\ askKey \in Keys /\ dict \in DictKeys /\ emitted \in KeyActions
KeysBegun ==
  /\ doing = (IF askKey.began THEN {"ask"} ELSE {}) \cup (IF dict.began THEN {"dictation"} ELSE {})
  /\ askKey.began => askKey.down
  /\ dict.began => dict.down /\ ~dict.chorded /\ mode = "hold"
KeysAlone ==
  /\ alone \subseteq {"dictation", "ask"}
  /\ dict.down /\ ~dict.chorded => "dictation" \in alone
  /\ askKey.down /\ ~askKey.chorded /\ ~askKey.began => "ask" \in alone
  /\ dict.down /\ askKey.down => alone = {}
KeysInv == KeysTyped /\ KeysBegun /\ KeysAlone

\* What LoneKeysOnly asks of a step.
LoneStep ==
  /\ emitted' \in {"begin", "commit", "toggle", "tap", "double_tap"} => "dictation" \in alone
  /\ emitted' = "ask_begin" => "ask" \in alone
  /\ "ask" \in doing \ doing' => emitted' = "ask_end" /\ ~askKey'.down
KeysKept == KeysInv' /\ LoneStep

LEMMA KeysBegin == TriggerInit => KeysInv
BY DEF TriggerInit, KeysInv, KeysTyped, KeysBegun, KeysAlone, Keys, DictKeys, KeyActions, Lifted, NoTap, TriggerModes

\* A key's states after an event of its own or of another.
LEMMA KeyEvents ==
  ASSUME NEW a \in Keys, NEW d \in DictKeys
  PROVE  /\ Press(a) \in Keys /\ Press(a).down /\ (a.down => Press(a) = a)
         /\ ~a.down => ~Press(a).chorded /\ ~Press(a).began
         /\ AskOther(a) \in Keys /\ AskOther(a).down = a.down /\ AskOther(a).began = a.began
         /\ AskOther(a).chorded = (a.chorded \/ (a.down /\ ~a.began))
         /\ Aged(a) \in Keys /\ Aged(a).down = a.down /\ Aged(a).began = a.began /\ Aged(a).chorded = a.chorded
         /\ Press(d) \in DictKeys /\ Press(d).down /\ (d.down => Press(d) = d)
         /\ ~d.down => ~Press(d).chorded /\ ~Press(d).began
         /\ DictationOther(d) \in DictKeys /\ DictationOther(d).down = d.down
         /\ DictationOther(d).chorded = (d.chorded \/ d.down)
         /\ DictationOther(d).began = (d.began /\ ~d.down)
         /\ Aged(d) \in DictKeys /\ Aged(d).down = d.down /\ Aged(d).began = d.began /\ Aged(d).chorded = d.chorded
<1>1. /\ Press(a) \in Keys /\ Press(a).down /\ (a.down => Press(a) = a)
      /\ ~a.down => ~Press(a).chorded /\ ~Press(a).began
  <2>1. CASE a.down
    BY <2>1 DEF Press
  <2>2. CASE ~a.down
    <3>1. Press(a) = [a EXCEPT !.down = TRUE, !.grade = 0, !.chorded = FALSE, !.began = FALSE]
      BY <2>2 DEF Press
    <3>2. 0 \in 0..2
      OBVIOUS
    <3> QED BY <2>2, <3>1, <3>2 DEF Keys
  <2> QED BY <2>1, <2>2
<1>2. /\ AskOther(a) \in Keys /\ AskOther(a).down = a.down /\ AskOther(a).began = a.began
      /\ AskOther(a).chorded = (a.chorded \/ (a.down /\ ~a.began))
  BY DEF AskOther, Keys
<1>3. Aged(a) \in Keys /\ Aged(a).down = a.down /\ Aged(a).began = a.began /\ Aged(a).chorded = a.chorded
  BY DEF Aged, Keys
<1>4. /\ Press(d) \in DictKeys /\ Press(d).down /\ (d.down => Press(d) = d)
      /\ ~d.down => ~Press(d).chorded /\ ~Press(d).began
  <2>1. CASE d.down
    BY <2>1 DEF Press
  <2>2. CASE ~d.down
    <3>1. Press(d) = [d EXCEPT !.down = TRUE, !.grade = 0, !.chorded = FALSE, !.began = FALSE]
      BY <2>2 DEF Press
    <3>2. 0 \in 0..2
      OBVIOUS
    <3> QED BY <2>2, <3>1, <3>2 DEF DictKeys
  <2> QED BY <2>1, <2>2
<1>5. /\ DictationOther(d) \in DictKeys /\ DictationOther(d).down = d.down
      /\ DictationOther(d).chorded = (d.chorded \/ d.down)
      /\ DictationOther(d).began = (d.began /\ ~d.down)
  BY DEF DictationOther, DictKeys
<1>6. Aged(d) \in DictKeys /\ Aged(d).down = d.down /\ Aged(d).began = d.began /\ Aged(d).chorded = d.chorded
  BY DEF Aged, DictKeys
<1> QED BY <1>1, <1>2, <1>3, <1>4, <1>5, <1>6

\* A key's type, for reading its parts.
LEMMA KeyParts ==
  ASSUME NEW a \in Keys, NEW d \in DictKeys
  PROVE  /\ a.down \in BOOLEAN /\ a.chorded \in BOOLEAN /\ a.began \in BOOLEAN /\ a.grade \in 0..2
         /\ d.down \in BOOLEAN /\ d.chorded \in BOOLEAN /\ d.began \in BOOLEAN /\ d.grade \in 0..2
         /\ d.tap \in {NoTap, "near", "opened"}
BY DEF Keys, DictKeys

LEMMA KeysStep == KeysInv /\ [TriggerNext]_triggerVars => KeysKept \/ UNCHANGED triggerVars
<1> SUFFICES ASSUME KeysInv, TriggerNext PROVE KeysKept
  OBVIOUS
<1> USE DEF KeysInv, KeysTyped
<1>0. askKey \in Keys /\ dict \in DictKeys
  OBVIOUS
<1>1. CASE DictationDown
  <2>1. PressDictation \in DictKeys /\ PressDictation.down
        /\ PressDictation.chorded = Press(dict).chorded /\ PressDictation.began = Press(dict).began
    BY <1>0, KeyEvents DEF PressDictation, DictKeys
  <2>2. KeysTyped'
    BY <1>0, <1>1, <2>1, KeyEvents DEF DictationDown, Emit, KeyActions
  <2>3. KeysBegun' /\ KeysAlone'
    BY <1>0, <1>1, <2>1, KeyEvents, KeyParts DEF DictationDown, Emit, After, KeysBegun, KeysAlone, NewlyAlone
  <2> QED BY <1>1, <2>2, <2>3 DEF KeysKept, LoneStep, DictationDown, Emit, After
<1>2. CASE DictationUp
  <2>1. dict' \in DictKeys /\ ~dict'.down /\ ~dict'.began /\ askKey' = askKey /\ alone' = alone
    BY <1>0, <1>2 DEF DictationUp, DictKeys, KeysBegun, TriggerModes
  <2>2. KeysTyped'
    <3>1. mode' = mode /\ askOn' = askOn
      BY <1>2 DEF DictationUp, Emit, TriggerModes
    <3>2. emitted' \in {"none", "commit", "toggle", "tap", "double_tap"}
      BY <1>2 DEF DictationUp, Emit, TriggerModes
    <3> QED BY <1>0, <2>1, <3>1, <3>2 DEF KeyActions
  <2>3. CASE dict.began
    <3>1. emitted' = "commit" /\ doing' = doing \ {"dictation"} /\ "dictation" \in alone
      BY <1>2, <2>3 DEF DictationUp, Emit, After, KeysBegun, KeysAlone
    <3> QED BY <1>0, <2>1, <2>2, <2>3, <3>1, KeyParts DEF KeysKept, LoneStep, KeysBegun, KeysAlone
  <2>4. CASE ~dict.began
    <3>1. /\ emitted' \in {"none", "toggle", "tap", "double_tap"} /\ doing' = doing
          /\ emitted' # "none" => ~dict.chorded /\ dict.down
      BY <1>2, <2>4 DEF DictationUp, Emit, After, LoneTap, TriggerModes
    <3> QED BY <1>0, <2>1, <2>2, <2>4, <3>1, KeyParts DEF KeysKept, LoneStep, KeysBegun, KeysAlone
  <2> QED BY <1>0, <2>3, <2>4, KeyParts
<1>3. CASE AskDown
  <2>1. /\ dict' \in DictKeys /\ dict'.down = dict.down /\ dict'.chorded = (dict.chorded \/ dict.down) /\ ~dict'.began
    BY <1>0, <1>3, KeyEvents, KeyParts DEF AskDown, KeysBegun
  <2>2. /\ askKey' \in Keys /\ askKey'.down
        /\ (askKey.down => askKey'.began = askKey.began) /\ (~askKey.down => ~askKey'.began)
        /\ dict.down => (askKey'.chorded \/ askKey'.began)
        /\ ~dict.down /\ askKey.down => askKey'.chorded = askKey.chorded
    BY <1>0, <1>3, <2>1, KeyEvents, KeyParts DEF AskDown
  <2>3. emitted' = (IF dict.began THEN "cancel" ELSE "none") /\ mode' = mode /\ askOn' = askOn
    BY <1>3 DEF AskDown, Emit, DictationOtherAction, KeysBegun
  <2>4. doing' = (IF dict.began THEN doing \ {"dictation"} ELSE doing)
    BY <1>3, <2>3 DEF AskDown, Emit, After
  <2>5. KeysTyped'
    BY <2>1, <2>2, <2>3 DEF KeyActions
  <2>6. KeysBegun'
    BY <1>0, <2>1, <2>2, <2>4, KeyParts DEF KeysBegun
  <2>7. alone' = (IF askKey.down THEN alone \cap {"ask"} ELSE IF dict.down THEN {} ELSE {"ask"})
    BY <1>3 DEF AskDown, NewlyAlone
  <2>8. KeysAlone'
    BY <1>0, <2>1, <2>2, <2>7, KeyParts DEF KeysAlone
  <2> QED BY <2>3, <2>4, <2>5, <2>6, <2>8 DEF KeysKept, LoneStep
<1>4. CASE AskUp
  <2>1. askKey' \in Keys /\ ~askKey'.down /\ ~askKey'.began /\ dict' = dict /\ alone' = alone
    BY <1>0, <1>4 DEF AskUp, Keys
  <2>2. emitted' = (IF askKey.began THEN "ask_end" ELSE "none") /\ mode' = mode /\ askOn' = askOn
    BY <1>4 DEF AskUp, Emit
  <2>3. doing' = (IF askKey.began THEN doing \ {"ask"} ELSE doing)
    BY <1>4, <2>2 DEF AskUp, Emit, After
  <2>4. KeysTyped'
    BY <2>1, <2>2 DEF KeyActions
  <2>5. KeysBegun' /\ KeysAlone'
    BY <1>0, <2>1, <2>2, <2>3, KeyParts DEF KeysBegun, KeysAlone
  <2>6. LoneStep
    BY <2>1, <2>2, <2>3 DEF LoneStep
  <2> QED BY <2>4, <2>5, <2>6 DEF KeysKept
<1>5. CASE TriggerTick
  <2>1. CASE Ripe(askKey)
    <3>1. /\ askKey' = [askKey EXCEPT !.began = TRUE] /\ dict' = dict /\ alone' = alone
          /\ emitted' = "ask_begin" /\ mode' = mode /\ askOn' = askOn /\ doing' = doing \cup {"ask"}
      BY <1>5, <2>1 DEF TriggerTick, Emit, After
    <3>2. /\ askKey' \in Keys /\ askKey'.began /\ askKey'.down /\ askKey.down /\ ~askKey.chorded /\ ~askKey.began
          /\ ~askKey'.chorded
      BY <1>0, <2>1, <3>1 DEF Ripe, Keys
    <3>3. KeysTyped'
      BY <3>1, <3>2 DEF KeyActions
    <3>4. KeysBegun' /\ KeysAlone' /\ "ask" \in alone
      BY <1>0, <3>1, <3>2, KeyParts DEF KeysBegun, KeysAlone
    <3> QED BY <3>1, <3>3, <3>4 DEF KeysKept, LoneStep
  <2>2. CASE ~Ripe(askKey)
    <3>1. /\ dict' = [dict EXCEPT !.began = TRUE] /\ askKey' = askKey /\ alone' = alone /\ mode = "hold" /\ Ripe(dict)
          /\ emitted' = "begin" /\ mode' = mode /\ askOn' = askOn /\ doing' = doing \cup {"dictation"}
      BY <1>5, <2>2 DEF TriggerTick, Emit, After
    <3>2. dict' \in DictKeys /\ dict'.began /\ dict'.down /\ dict.down /\ ~dict.chorded /\ ~dict'.chorded
      BY <1>0, <3>1 DEF Ripe, DictKeys
    <3>3. KeysTyped'
      BY <3>1, <3>2 DEF KeyActions
    <3>4. KeysBegun' /\ KeysAlone' /\ "dictation" \in alone
      BY <1>0, <3>1, <3>2, KeyParts DEF KeysBegun, KeysAlone
    <3> QED BY <3>1, <3>3, <3>4 DEF KeysKept, LoneStep
  <2> QED BY <2>1, <2>2
<1>6. ASSUME OtherInput \/ Escape PROVE KeysKept
  <2>1. askKey' = AskOther(askKey) /\ dict' = DictationOther(dict) /\ alone' = {} /\ mode' = mode /\ askOn' = askOn
    BY <1>6 DEF OtherInput, Escape, Emit
  <2>2. emitted' \in {"none", "cancel"} /\ (dict.began => emitted' = "cancel")
    BY <1>6 DEF OtherInput, Escape, Emit, DictationOtherAction, KeysBegun
  <2>3. doing' = (IF emitted' = "cancel" THEN doing \ {"dictation"} ELSE doing)
    BY <1>6, <2>2 DEF OtherInput, Escape, Emit, After
  <2>4. KeysTyped'
    BY <1>0, <2>1, <2>2, KeyEvents DEF KeyActions
  <2>5. KeysBegun'
    BY <1>0, <2>1, <2>2, <2>3, KeyEvents, KeyParts DEF KeysBegun
  <2>6. KeysAlone'
    BY <1>0, <2>1, KeyEvents, KeyParts DEF KeysAlone
  <2> QED BY <2>2, <2>3, <2>4, <2>5, <2>6 DEF KeysKept, LoneStep
<1>7. CASE Lapse
  <2>1. dict' = [Aged(dict) EXCEPT !.tap = IF ~dict.down /\ @ = "near" THEN NoTap ELSE @] /\ askKey' = Aged(askKey)
        /\ emitted' = "none" /\ mode' = mode /\ askOn' = askOn /\ doing' = doing /\ alone' = alone
    BY <1>7 DEF Lapse
  <2>2. /\ dict' \in DictKeys /\ dict'.down = dict.down /\ dict'.began = dict.began /\ dict'.chorded = dict.chorded
        /\ askKey' \in Keys /\ askKey'.down = askKey.down /\ askKey'.began = askKey.began /\ askKey'.chorded = askKey.chorded
    BY <1>0, <2>1, KeyEvents DEF DictKeys
  <2>3. KeysTyped'
    BY <2>1, <2>2 DEF KeyActions
  <2>4. KeysBegun' /\ KeysAlone'
    BY <2>1, <2>2 DEF KeysBegun, KeysAlone
  <2> QED BY <2>1, <2>3, <2>4 DEF KeysKept, LoneStep
<1> QED BY <1>1, <1>2, <1>3, <1>4, <1>5, <1>6, <1>7 DEF TriggerNext

\* What is asked of the keys follows.
LEMMA KeysFollow == KeysInv => KeysSound
<1> SUFFICES ASSUME KeysInv PROVE KeysSound
  OBVIOUS
<1>1. TriggerTypeOK
  <2>1. DOMAIN Lifted = {"down", "grade", "chorded", "began"}
    BY DEF Lifted
  <2>2. [f \in DOMAIN Lifted |-> dict[f]] \in Keys
    BY <2>1 DEF KeysInv, KeysTyped, Keys, DictKeys
  <2>3. doing \subseteq {"dictation", "ask"} /\ alone \subseteq {"dictation", "ask"}
    BY DEF KeysInv, KeysBegun, KeysAlone
  <2> QED BY <2>2, <2>3 DEF KeysInv, KeysTyped, KeyActions, TriggerTypeOK, DictKeys
<1>2. "ask" \in doing <=> askKey.began
  BY DEF KeysInv, KeysBegun
<1>3. "dictation" \in doing <=> dict.began
  BY DEF KeysInv, KeysBegun
<1>4. ~(askKey.began /\ dict.began)
  BY DEF KeysInv, KeysBegun, KeysAlone
<1> QED BY <1>1, <1>2, <1>3, <1>4 DEF KeysSound

\* No chord, Esc or autorepeat leaves a dictation or an ask behind, and the two keys are never both
\* held into one (trigger.py), whatever is pressed.
THEOREM KeysAreSound == TriggerInit /\ [][TriggerNext]_triggerVars => []KeysSound
<1>1. KeysInv /\ [TriggerNext]_triggerVars => KeysInv'
  BY KeysStep DEF KeysKept, triggerVars, KeysInv, KeysTyped, KeysBegun, KeysAlone
<1> QED BY <1>1, KeysBegin, KeysFollow, PTL

\* Only a key that is pressed alone does anything, and what was begun ends with its release.
THEOREM KeysGoForward == TriggerInit /\ [][TriggerNext]_triggerVars => LoneKeysOnly
<1>1. KeysInv /\ [TriggerNext]_triggerVars => KeysInv'
  BY KeysStep DEF KeysKept, triggerVars, KeysInv, KeysTyped, KeysBegun, KeysAlone
<1>2. KeysInv /\ [TriggerNext]_triggerVars => [LoneStep]_triggerVars
  BY KeysStep DEF KeysKept
<1> QED BY <1>1, <1>2, KeysBegin, PTL DEF LoneKeysOnly, LoneStep

-----------------------------------------------------------------------------
(* The capture daemon (Daemon.tla) *)

SessionShape == [started : 0..MaxClock, pos : 0..MaxClock, unacked : Nat, over : BOOLEAN, ended : BOOLEAN, late : BOOLEAN]
Stages == Serving \cup {"off", "claiming", "claimed", "closing"}
ProcShape == [at : Stages, roll : BOOLEAN, resume : BOOLEAN, stop : BOOLEAN, rolled : BOOLEAN, sid : Nat,
              sure : BOOLEAN, voice : BOOLEAN, ask : BOOLEAN, history : Nat]
RecShape == [on : {"no", "running", "waiting", "failed"}, t0 : Int, start : Int, base : Int, produced : Nat, end : Int,
             rapid : 0..MaxRapid]
TailShape == [of : Processes \cup {"none"}, stage : {"no", "backlog", "live"}, sent : Nat, due : Nat]
DaemonTyped ==
  /\ wall \in 0..MaxClock /\ session \in Seq(SessionShape) /\ Len(session) <= MaxSessions
  /\ sock \in Processes \cup {"none", "stale"} /\ client \in Processes \cup {"idle", "answered"}
  /\ proc \in [Processes -> ProcShape] /\ rec \in [Processes -> RecShape]
  /\ tail \in TailShape /\ jolts \in [DaemonEvents -> Nat]

\* A process that has a session, and the recorder of one that records, belong to a session there
\* is; the recorder counts from that session's start and is never ahead of the time.
Belongs ==
  /\ \A d \in Processes : proc[d].sid \in 0..Len(session)
  /\ \A d \in Processes : Open(d) \/ proc[d].at = "ended" => proc[d].sid # 0 /\ ~proc[d].resume
  /\ \A d \in Processes : rec[d].on # "no" => proc[d].at = "recording"
  /\ \A d \in Processes : rec[d].on \in {"running", "waiting"} => rec[d].rapid < MaxRapid
Timed ==
  /\ \A s \in Sessions : session[s].started <= wall /\ session[s].pos <= wall - session[s].started
  /\ \A d \in Processes : rec[d].on # "no" =>
       /\ rec[d].t0 = session[proc[d].sid].started
       /\ rec[d].base + rec[d].produced <= wall - rec[d].t0 /\ rec[d].end <= wall - rec[d].t0
       /\ rec[d].base >= 0

\* The socket is that of the process that serves, and what it records next is not before what
\* its session has.
Reached == \A d \in Processes : proc[d].at \in Serving \cup {"closing"} => sock = d
Ahead ==
  \A d \in Processes :
    /\ rec[d].on = "running" => session[proc[d].sid].pos <= rec[d].base + rec[d].produced
    /\ rec[d].on = "waiting" => session[proc[d].sid].pos <= rec[d].end

\* What is over at the server is so here, or is about to be.
Noted ==
  /\ \A s \in Sessions : ~session[s].late
  /\ \A s \in Sessions : session[s].over /\ ~session[s].ended =>
       \E d \in Processes : proc[d].at = "ended" /\ proc[d].sid = s
  /\ \A d \in Processes : Open(d) => ~session[proc[d].sid].over
  /\ \A d \in Processes : proc[d].at = "ended" => proc[d].sure

\* Each process started may still bring one frame too many into a session's outbox, or did.
Alive == {d \in Processes : proc[d].at # "off"}
Able(s) ==
  {d \in Processes : \/ proc[d].at \in {"claiming", "claimed"}
                     \/ proc[d].at = "opening" /\ proc[d].resume
                     \/ rec[d].on \in {"running", "waiting"} /\ proc[d].sid = s}
Bounded ==
  /\ IsFiniteSet(Alive) /\ Cardinality(Alive) <= jolts["start"]
  /\ \A s \in Sessions : session[s].unacked + Cardinality(Able(s)) <= MaxUnacked + jolts["start"]

DaemonInv ==
  /\ DaemonTyped /\ Belongs /\ Timed /\ Bounded
  /\ jolts["race"] = 0 => Reached /\ Ahead /\ (jolts["kill"] + jolts["unsure"] = 0 => Noted)

\* The parts of a session and of a recorder.
LEMMA SessionParts ==
  ASSUME DaemonTyped
  PROVE  /\ Sessions = 1..Len(session) /\ Len(session) \in Nat
         /\ \A s \in Sessions :
              /\ session[s] \in SessionShape
              /\ session[s].started \in Nat /\ session[s].pos \in Nat /\ session[s].unacked \in Nat
              /\ session[s].started <= MaxClock /\ session[s].pos <= MaxClock
              /\ session[s].over \in BOOLEAN /\ session[s].ended \in BOOLEAN /\ session[s].late \in BOOLEAN
<1>1. session \in Seq(SessionShape)
  BY DEF DaemonTyped
<1>2. Sessions = 1..Len(session) /\ Len(session) \in Nat
  BY <1>1 DEF Sessions
<1>3. \A s \in Sessions : session[s] \in SessionShape
  BY <1>1, <1>2
<1>4. \A x \in SessionShape :
        /\ x.started \in Nat /\ x.pos \in Nat /\ x.unacked \in Nat /\ x.started <= MaxClock /\ x.pos <= MaxClock
        /\ x.over \in BOOLEAN /\ x.ended \in BOOLEAN /\ x.late \in BOOLEAN
  BY DaemonConfigured DEF SessionShape
<1> QED BY <1>2, <1>3, <1>4

LEMMA RecParts ==
  ASSUME DaemonTyped, NEW d \in Processes
  PROVE  /\ rec[d] \in RecShape /\ proc[d] \in ProcShape
         /\ rec[d].t0 \in Int /\ rec[d].base \in Int /\ rec[d].produced \in Nat /\ rec[d].end \in Int
         /\ rec[d].start \in Int /\ rec[d].rapid \in 0..MaxRapid
         /\ rec[d].on \in {"no", "running", "waiting", "failed"}
         /\ proc[d].at \in Stages /\ proc[d].sid \in Nat
<1>1. rec[d] \in RecShape /\ proc[d] \in ProcShape
  BY DEF DaemonTyped
<1> QED BY <1>1 DEF RecShape, ProcShape

LEMMA DaemonBegins == DaemonInit => DaemonInv
<1> SUFFICES ASSUME DaemonInit PROVE DaemonInv
  OBVIOUS
<1> USE DEF DaemonInit
<1>1. DaemonTyped
  <2>1. 0 \in 0..MaxClock /\ 0 <= MaxSessions /\ 0 \in 0..MaxRapid
    BY DaemonConfigured
  <2>2. session \in Seq(SessionShape) /\ Len(session) = 0
    OBVIOUS
  <2>3. Off \in ProcShape
    BY DEF Off, ProcShape, Stages
  <2>4. NoRec \in RecShape
    BY <2>1 DEF NoRec, RecShape
  <2>5. NoTail \in TailShape
    BY DEF NoTail, TailShape
  <2> QED BY <2>1, <2>2, <2>3, <2>4, <2>5 DEF DaemonTyped
<1>2. Sessions = {}
  BY DEF Sessions
<1>3. \A d \in Processes : proc[d].at = "off" /\ proc[d].sid = 0 /\ rec[d].on = "no"
  BY DEF Off, NoRec
<1>4. Belongs /\ Timed /\ Reached /\ Ahead /\ Noted
  <2>1. Belongs
    BY <1>3 DEF Belongs, Open
  <2>2. Timed
    BY <1>2, <1>3 DEF Timed
  <2>3. Reached
    BY <1>3 DEF Reached, Serving
  <2>4. Ahead
    BY <1>3 DEF Ahead
  <2>5. Noted
    BY <1>2, <1>3 DEF Noted, Open
  <2> QED BY <2>1, <2>2, <2>3, <2>4, <2>5
<1>5. Bounded
  <2>1. Alive = {}
    BY <1>3 DEF Alive
  <2>2. Cardinality(Alive) = 0 /\ IsFiniteSet(Alive) /\ jolts["start"] = 0
    BY <2>1, FS_EmptySet DEF DaemonEvents
  <2> QED BY <1>2, <2>2 DEF Bounded
<1> QED BY <1>1, <1>4, <1>5 DEF DaemonInv

\* What is counted only grows.
LEMMA Counted ==
  ASSUME jolts \in [DaemonEvents -> Nat], NEW e \in DaemonEvents, Jolts(e)
  PROVE  /\ jolts' \in [DaemonEvents -> Nat] /\ \A f \in DaemonEvents : jolts'[f] >= jolts[f]
         /\ jolts'[e] = jolts[e] + 1 /\ \A f \in DaemonEvents \ {e} : jolts'[f] = jolts[f]
BY DEF Jolts

LEMMA NotCounted ==
  ASSUME jolts \in [DaemonEvents -> Nat], NEW e \in DaemonEvents, jolts'[e] = 0
  PROVE  ~Jolts(e)
<1> SUFFICES ASSUME Jolts(e) PROVE FALSE
  OBVIOUS
<1>1. jolts'[e] = jolts[e] + 1 /\ jolts[e] \in Nat
  BY Counted
<1> QED BY <1>1

Later == jolts' \in [DaemonEvents -> Nat] /\ \A f \in DaemonEvents : jolts'[f] >= jolts[f]
LEMMA NotLater == ASSUME jolts \in [DaemonEvents -> Nat], UNCHANGED jolts PROVE Later
BY DEF Later
LEMMA JoltsLater == ASSUME jolts \in [DaemonEvents -> Nat], NEW e \in DaemonEvents, Jolts(e) PROVE Later
BY Counted DEF Later

\* Sessions of which only other things change.
SameTimes ==
  /\ Len(session') = Len(session) /\ Sessions' = Sessions /\ wall' >= wall
  /\ \A s \in Sessions : session'[s].started = session[s].started /\ session'[s].pos = session[s].pos
\* A recorder is left alone or gone.
RecordersLess ==
  \A d \in Processes : rec'[d].on = "no" \/ (rec'[d] = rec[d] /\ proc'[d].sid = proc[d].sid)

LEMMA TimesKept ==
  ASSUME DaemonTyped, DaemonTyped', Belongs, Belongs', Timed, SameTimes, RecordersLess
  PROVE  Timed' /\ (Ahead => Ahead')
<1>0. /\ wall \in Nat /\ wall' \in Nat
  BY DaemonConfigured DEF DaemonTyped
<1>1. \A s \in Sessions : session[s].started \in Int /\ session[s].pos \in Int
  BY SessionParts
<1>2. \A s \in Sessions' : session'[s].started <= wall' /\ session'[s].pos <= wall' - session'[s].started
  BY <1>0, <1>1 DEF SameTimes, Timed
<1>3. ASSUME NEW d \in Processes, rec'[d].on # "no"
      PROVE  /\ rec'[d] = rec[d] /\ proc'[d].sid = proc[d].sid /\ rec[d].on # "no"
             /\ proc[d].sid \in Sessions /\ session'[proc'[d].sid].pos = session[proc[d].sid].pos
             /\ session'[proc'[d].sid].started = session[proc[d].sid].started
  <2>1. rec'[d] = rec[d] /\ proc'[d].sid = proc[d].sid
    BY <1>3 DEF RecordersLess
  <2>2. proc[d].sid \in Sessions
    <3>1. proc[d].at = "recording" /\ proc[d].sid \in 0..Len(session)
      BY <1>3, <2>1 DEF Belongs
    <3>2. proc[d].sid # 0
      BY <3>1 DEF Belongs, Open
    <3> QED BY <3>1, <3>2, SessionParts
  <2> QED BY <1>3, <2>1, <2>2 DEF SameTimes
<1>4. \A d \in Processes : rec[d] \in RecShape
  BY DEF DaemonTyped
<1>5. ASSUME NEW d \in Processes, rec'[d].on # "no"
      PROVE  /\ rec'[d].t0 = session'[proc'[d].sid].started
             /\ rec'[d].base + rec'[d].produced <= wall' - rec'[d].t0 /\ rec'[d].end <= wall' - rec'[d].t0
             /\ rec'[d].base >= 0
  <2>1. /\ rec[d].t0 \in Int /\ rec[d].base \in Int /\ rec[d].produced \in Nat /\ rec[d].end \in Int
    BY RecParts
  <2>2. /\ rec[d].t0 = session[proc[d].sid].started /\ rec[d].base >= 0
        /\ rec[d].base + rec[d].produced <= wall - rec[d].t0 /\ rec[d].end <= wall - rec[d].t0
    BY <1>3, <1>5 DEF Timed
  <2>3. wall' >= wall
    BY DEF SameTimes
  <2>4. /\ rec[d].base + rec[d].produced <= wall' - rec[d].t0 /\ rec[d].end <= wall' - rec[d].t0
    <3> HIDE DEF DaemonTyped
    <3> QED BY ONLY <1>0, <2>1, <2>2, <2>3
  <2>5. rec'[d] = rec[d] /\ rec[d].t0 = session'[proc'[d].sid].started
    BY <1>3, <1>5, <2>2
  <2> QED BY <2>2, <2>4, <2>5
<1>6. Timed'
  BY <1>2, <1>5 DEF Timed
<1>7. ASSUME Ahead PROVE Ahead'
  BY <1>3, <1>7 DEF Ahead
<1> QED BY <1>6, <1>7

\* Nothing that says what is over changes.
SameEnds ==
  /\ Sessions' = Sessions
  /\ \A s \in Sessions : /\ session'[s].over = session[s].over /\ session'[s].ended = session[s].ended
                         /\ session'[s].late = session[s].late
  /\ \A d \in Processes :
       /\ Open(d)' => Open(d) /\ proc'[d].sid = proc[d].sid
       /\ proc'[d].at = "ended" <=> proc[d].at = "ended"
       /\ proc[d].at = "ended" => proc'[d].sid = proc[d].sid /\ proc'[d].sure = proc[d].sure
LEMMA NotedKept ==
  ASSUME DaemonTyped, Belongs, Noted, SameEnds
  PROVE  Noted'
<1>1. \A s \in Sessions' : ~session'[s].late
  BY DEF Noted, SameEnds
<1>2. ASSUME NEW s \in Sessions', session'[s].over, ~session'[s].ended
      PROVE  \E d \in Processes : proc'[d].at = "ended" /\ proc'[d].sid = s
  BY <1>2 DEF Noted, SameEnds
<1>3. ASSUME NEW d \in Processes, Open(d)' PROVE ~session'[proc'[d].sid].over
  <2>1. Open(d) /\ proc'[d].sid = proc[d].sid /\ proc[d].sid \in Sessions
    BY <1>3, SessionParts DEF SameEnds, Belongs
  <2> QED BY <2>1 DEF Noted, SameEnds
<1>4. \A d \in Processes : proc'[d].at = "ended" => proc'[d].sure
  BY DEF Noted, SameEnds
<1> QED BY <1>1, <1>2, <1>3, <1>4 DEF Noted

\* No process, and none that may still bring a frame too many, is new.
Fewer ==
  /\ Sessions' = Sessions /\ jolts'["start"] \in Nat /\ jolts'["start"] >= jolts["start"]
  /\ \A s \in Sessions : session'[s].unacked \in Nat /\ session'[s].unacked <= session[s].unacked
  /\ Alive' \subseteq Alive /\ \A s \in Sessions : Able(s)' \subseteq Able(s)
LEMMA AbleAlive == ASSUME DaemonTyped, Belongs, NEW s PROVE Able(s) \subseteq Alive
<1>1. ASSUME NEW d \in Able(s) PROVE d \in Alive
  <2>1. d \in Processes
    BY DEF Able
  <2>2. CASE rec[d].on \in {"running", "waiting"}
    BY <2>1, <2>2 DEF Belongs, Alive
  <2>3. CASE proc[d].at \in {"claiming", "claimed", "opening"}
    BY <2>1, <2>3 DEF Alive
  <2> QED BY <2>1, <2>2, <2>3 DEF Able
<1> QED BY <1>1

LEMMA BoundedKept ==
  ASSUME DaemonTyped, Belongs, Bounded, Fewer
  PROVE  Bounded'
<1>0. jolts["start"] \in Nat /\ MaxUnacked \in Nat
  BY DaemonConfigured DEF DaemonTyped, DaemonEvents
<1>1. IsFiniteSet(Alive) /\ Cardinality(Alive) <= jolts["start"] /\ Alive' \subseteq Alive
  BY DEF Bounded, Fewer
<1>2. IsFiniteSet(Alive') /\ Cardinality(Alive') <= Cardinality(Alive) /\ Cardinality(Alive) \in Nat /\ Cardinality(Alive') \in Nat
  BY <1>1, FS_Subset, FS_CardinalityType
<1>3. ASSUME NEW s \in Sessions PROVE session'[s].unacked + Cardinality(Able(s)') <= MaxUnacked + jolts'["start"]
  <2>1. IsFiniteSet(Able(s)) /\ Able(s)' \subseteq Able(s)
    BY <1>1, AbleAlive, FS_Subset DEF Fewer
  <2>2. /\ Cardinality(Able(s)') <= Cardinality(Able(s)) /\ Cardinality(Able(s)) \in Nat /\ Cardinality(Able(s)') \in Nat
    BY <2>1, FS_Subset, FS_CardinalityType
  <2>3. session[s].unacked + Cardinality(Able(s)) <= MaxUnacked + jolts["start"]
    BY DEF Bounded
  <2>4. /\ session'[s].unacked \in Nat /\ session'[s].unacked <= session[s].unacked /\ session[s].unacked \in Nat
        /\ jolts'["start"] \in Nat /\ jolts'["start"] >= jolts["start"]
    BY SessionParts DEF Fewer
  <2> QED BY ONLY <1>0, <2>2, <2>3, <2>4
<1>4. Cardinality(Alive') <= jolts'["start"]
  BY <1>0, <1>1, <1>2 DEF Fewer
<1> QED BY <1>2, <1>3, <1>4 DEF Bounded, Fewer

\* What DaemonInv and TimelineForward ask of a step.
PosStep == jolts["race"] = 0 => \A s \in Sessions : session'[s].pos >= session[s].pos
DaemonKept == DaemonInv' /\ PosStep
Undisturbed == jolts["race"] = 0 /\ Reached /\ Ahead
Trusted == Undisturbed /\ jolts["kill"] + jolts["unsure"] = 0 /\ Noted

\* As nothing that is counted is forgotten, what holds as long as nothing happened held before.
LEMMA Assembled ==
  ASSUME DaemonInv, Later, DaemonTyped', Belongs', Timed', Bounded', PosStep,
         Undisturbed /\ jolts'["race"] = 0 => Reached' /\ Ahead',
         Trusted /\ jolts'["race"] = 0 /\ jolts'["kill"] + jolts'["unsure"] = 0 => Noted'
  PROVE  DaemonKept
<1>1. /\ jolts'["race"] \in Nat /\ jolts'["kill"] \in Nat /\ jolts'["unsure"] \in Nat
      /\ jolts["race"] \in Nat /\ jolts["kill"] \in Nat /\ jolts["unsure"] \in Nat
      /\ jolts'["race"] >= jolts["race"] /\ jolts'["kill"] >= jolts["kill"] /\ jolts'["unsure"] >= jolts["unsure"]
  BY DEF Later, DaemonInv, DaemonTyped, DaemonEvents
<1>2. jolts'["race"] = 0 => jolts["race"] = 0
  BY <1>1
<1>3. jolts'["kill"] + jolts'["unsure"] = 0 => jolts["kill"] + jolts["unsure"] = 0
  BY <1>1
<1>4. jolts'["race"] = 0 => Undisturbed
  BY <1>2 DEF Undisturbed, DaemonInv
<1>5. jolts'["race"] = 0 /\ jolts'["kill"] + jolts'["unsure"] = 0 => Trusted
  BY <1>2, <1>3, <1>4 DEF Trusted, DaemonInv
<1> QED BY <1>4, <1>5 DEF DaemonKept, DaemonInv

LEMMA Settles ==
  ASSUME DaemonInv, Later, DaemonTyped', Belongs', SameTimes, RecordersLess, Fewer,
         Undisturbed /\ jolts'["race"] = 0 => Reached',
         Trusted /\ jolts'["race"] = 0 /\ jolts'["kill"] + jolts'["unsure"] = 0 => Noted'
  PROVE  DaemonKept
<1>1. DaemonTyped /\ Belongs /\ Timed /\ Bounded
  BY DEF DaemonInv
<1>2. Timed' /\ (Ahead => Ahead')
  BY <1>1, TimesKept
<1>3. Bounded'
  BY <1>1, BoundedKept
<1>4. PosStep
  BY <1>1, SessionParts DEF PosStep, SameTimes
<1>5. Undisturbed /\ jolts'["race"] = 0 => Reached' /\ Ahead'
  BY <1>2 DEF Undisturbed
<1> QED BY <1>2, <1>3, <1>4, <1>5, Assembled

\* Sessions and recorders are left alone, and what is known of the processes that the rest depends on.
Still ==
  /\ UNCHANGED <<wall, session, rec, sock>> /\ Later
  /\ \A d \in Processes : /\ proc'[d].at = proc[d].at /\ proc'[d].sid = proc[d].sid
                          /\ proc'[d].sure = proc[d].sure /\ proc'[d].resume = proc[d].resume
LEMMA StillSettles ==
  ASSUME DaemonInv, DaemonTyped', Still
  PROVE  DaemonKept
<1>1. DaemonTyped /\ Belongs
  BY DEF DaemonInv
<1>2. Sessions' = Sessions /\ session' = session /\ rec' = rec /\ sock' = sock /\ wall' = wall /\ Later
  BY DEF Still, Sessions
<1>3. Belongs'
  BY <1>1, <1>2 DEF Belongs, Still, Open
<1>4. wall \in Int
  BY <1>1, DaemonConfigured DEF DaemonTyped
<1>5. SameTimes
  BY <1>2, <1>4 DEF SameTimes
<1>6. RecordersLess
  BY <1>2 DEF RecordersLess, Still
<1>7. Fewer
  <2>1. Alive' \subseteq Alive
    BY DEF Alive, Still
  <2>2. \A s \in Sessions : Able(s)' \subseteq Able(s)
    BY <1>2 DEF Able, Still
  <2>3. jolts'["start"] \in Nat /\ jolts'["start"] >= jolts["start"]
    BY <1>2 DEF Later, DaemonEvents
  <2>4. \A s \in Sessions : session'[s].unacked \in Nat /\ session'[s].unacked <= session[s].unacked
    BY <1>1, <1>2, SessionParts
  <2> QED BY <1>2, <2>1, <2>2, <2>3, <2>4 DEF Fewer
<1>8. Reached => Reached'
  BY <1>2 DEF Reached, Still
<1>9. Noted => Noted'
  <2>1. SameEnds
    BY <1>2 DEF SameEnds, Still, Open
  <2> QED BY <1>1, <2>1, NotedKept
<1> QED BY <1>2, <1>3, <1>5, <1>6, <1>7, <1>8, <1>9, Settles DEF Undisturbed, Trusted

LEMMA RequestStopKeeps == ASSUME DaemonInv, NEW d \in Processes, RequestStop(d) PROVE DaemonKept
<1>1. DaemonTyped
  BY DEF DaemonInv
<1>2. Later
  BY <1>1, JoltsLater DEF RequestStop, DaemonTyped, DaemonEvents
<1>3. proc' \in [Processes -> ProcShape]
  <2>1. proc \in [Processes -> ProcShape] /\ proc' = [proc EXCEPT ![d] = [proc[d] EXCEPT !.stop = TRUE]]
    BY <1>1 DEF RequestStop, DaemonTyped
  <2>2. PICK x : x = proc[d]
    OBVIOUS
  <2>3. x \in ProcShape
    BY <2>1, <2>2
  <2>4. PICK y : y = [x EXCEPT !.stop = TRUE]
    OBVIOUS
  <2>5. y \in ProcShape
    BY ONLY <2>3, <2>4 DEF ProcShape
  <2>6. proc' = [proc EXCEPT ![d] = y]
    BY <2>1, <2>2, <2>4
  <2> QED BY ONLY <2>1, <2>5, <2>6
<1>4. DaemonTyped'
  BY <1>1, <1>2, <1>3 DEF RequestStop, DaemonTyped, Later
<1>5. Still
  BY <1>1, <1>2 DEF RequestStop, Still, DaemonTyped, ProcShape
<1> QED BY <1>4, <1>5, StillSettles

LEMMA SubscribeKeeps == ASSUME DaemonInv, NEW d \in Processes, Subscribe(d) PROVE DaemonKept
<1>1. DaemonTyped
  BY DEF DaemonInv
<1>2. Later
  BY <1>1, JoltsLater DEF Subscribe, DaemonTyped, DaemonEvents
<1>3. tail' \in TailShape
  BY <1>1 DEF Subscribe, DaemonTyped, ProcShape, TailShape
<1>4. DaemonTyped'
  BY <1>1, <1>2, <1>3 DEF Subscribe, DaemonTyped, Later
<1>5. Still
  BY <1>2 DEF Subscribe, Still
<1> QED BY <1>4, <1>5, StillSettles

LEMMA SubscriberAddedKeeps == ASSUME DaemonInv, SubscriberAdded PROVE DaemonKept
<1>1. DaemonTyped
  BY DEF DaemonInv
<1>2. Later
  BY <1>1, NotLater DEF SubscriberAdded, DaemonTyped
<1>3. tail' \in TailShape
  BY <1>1 DEF SubscriberAdded, DaemonTyped, TailShape
<1>4. DaemonTyped'
  BY <1>1, <1>2, <1>3 DEF SubscriberAdded, DaemonTyped, Later
<1>5. Still
  BY <1>2 DEF SubscriberAdded, Still
<1> QED BY <1>4, <1>5, StillSettles

LEMMA PumpKeeps == ASSUME DaemonInv, NEW d \in Processes, Pump(d) PROVE DaemonKept
<1>1. DaemonTyped
  BY DEF DaemonInv
<1>2. Later
  BY <1>1, JoltsLater DEF Pump, DaemonTyped, DaemonEvents
<1>3. /\ proc' \in [Processes -> ProcShape]
      /\ \A e \in Processes : /\ proc'[e].at = proc[e].at /\ proc'[e].sid = proc[e].sid
                              /\ proc'[e].sure = proc[e].sure /\ proc'[e].resume = proc[e].resume
  <2>1. CASE proc' = [proc EXCEPT ![d].voice = ~@]
    BY <1>1, <2>1 DEF DaemonTyped, ProcShape
  <2>2. CASE proc' = [proc EXCEPT ![d].history = @ + 1]
    <3>1. proc[d] \in ProcShape /\ proc[d].history + 1 \in Nat
      BY <1>1 DEF DaemonTyped, ProcShape
    <3>2. [proc[d] EXCEPT !.history = @ + 1] \in ProcShape
      BY <3>1 DEF ProcShape
    <3> QED BY <1>1, <2>2, <3>2 DEF DaemonTyped
  <2> QED BY <2>1, <2>2 DEF Pump
<1>4. tail' \in TailShape
  <2>1. tail' \in {tail, [tail EXCEPT !.sent = @ + 1]}
    BY DEF Pump
  <2> QED BY <1>1, <2>1 DEF DaemonTyped, TailShape
<1>5. DaemonTyped'
  BY <1>1, <1>2, <1>3, <1>4 DEF Pump, DaemonTyped, Later
<1>6. Still
  BY <1>2, <1>3 DEF Pump, Still
<1> QED BY <1>5, <1>6, StillSettles

LEMMA AskKeeps == ASSUME DaemonInv, NEW d \in Processes, Ask(d) PROVE DaemonKept
<1>1. DaemonTyped
  BY DEF DaemonInv
<1>2. Later
  BY <1>1, JoltsLater DEF Ask, DaemonTyped, DaemonEvents
<1>3. /\ proc' \in [Processes -> ProcShape]
      /\ \A e \in Processes : /\ proc'[e].at = proc[e].at /\ proc'[e].sid = proc[e].sid
                              /\ proc'[e].sure = proc[e].sure /\ proc'[e].resume = proc[e].resume
  <2>1. proc \in [Processes -> ProcShape] /\ proc' = [proc EXCEPT ![d] = [proc[d] EXCEPT !.ask = ~@]]
    BY <1>1 DEF Ask, DaemonTyped
  <2>2. PICK x : x = proc[d]
    OBVIOUS
  <2>3. x \in ProcShape
    BY <2>1, <2>2
  <2>4. PICK y : y = [x EXCEPT !.ask = ~@]
    OBVIOUS
  <2>5. y \in ProcShape /\ y.at = x.at /\ y.sid = x.sid /\ y.sure = x.sure /\ y.resume = x.resume
    BY ONLY <2>3, <2>4 DEF ProcShape
  <2>6. proc' = [proc EXCEPT ![d] = y]
    BY <2>1, <2>2, <2>4
  <2> QED BY ONLY <2>1, <2>2, <2>5, <2>6
<1>4. DaemonTyped'
  BY <1>1, <1>2, <1>3 DEF Ask, DaemonTyped, Later
<1>5. Still
  BY <1>2, <1>3 DEF Ask, Still
<1> QED BY <1>4, <1>5, StillSettles

\* Sessions and recorders are left alone, and one process moves.
LEMMA MoveTyped ==
  ASSUME DaemonTyped, NEW d \in Processes, NEW at \in Stages, Moves(d, at)
  PROVE  /\ proc' \in [Processes -> ProcShape] /\ proc'[d].at = at /\ proc'[d].sid = proc[d].sid
         /\ proc'[d].sure = proc[d].sure /\ proc'[d].resume = proc[d].resume
         /\ \A e \in Processes \ {d} : proc'[e] = proc[e]
<1>1. proc \in [Processes -> ProcShape] /\ proc' = [proc EXCEPT ![d] = [proc[d] EXCEPT !.at = at]]
  BY DEF Moves, DaemonTyped
<1>2. PICK x : x = proc[d]
  OBVIOUS
<1>3. x \in ProcShape
  BY <1>1, <1>2
<1>4. PICK y : y = [x EXCEPT !.at = at]
  OBVIOUS
<1>5. y \in ProcShape /\ y.at = at /\ y.sid = x.sid /\ y.sure = x.sure /\ y.resume = x.resume
  BY ONLY <1>3, <1>4, at \in Stages DEF ProcShape
<1>6. proc' = [proc EXCEPT ![d] = y]
  BY <1>1, <1>2, <1>4
<1>7. proc' \in [Processes -> ProcShape] /\ proc'[d] = y /\ \A e \in Processes \ {d} : proc'[e] = proc[e]
  BY <1>1, <1>5, <1>6
<1> QED BY <1>2, <1>5, <1>7

\* Another process serves than the one that the socket is of: none.
LEMMA OneServes ==
  ASSUME Undisturbed, DaemonTyped, NEW d \in Processes, NEW e \in Processes,
         proc[d].at \in Serving \cup {"closing"}, proc[e].at \in Serving \cup {"closing"}
  PROVE  d = e /\ sock = d
BY DEF Undisturbed, Reached

\* One process moves before or after it has a session, or to another stage of having it.
Shifts(d) ==
  /\ UNCHANGED <<wall, session, rec>> /\ rec[d].on = "no" /\ Later
  /\ \A e \in Processes \ {d} : proc'[e] = proc[e]
  /\ proc'[d].sid \in {0, proc[d].sid}
  /\ proc[d].at # "ended" /\ proc'[d].at \in Stages \ {"recording", "failed", "ending", "ended"}
LEMMA ShiftsSettles ==
  ASSUME DaemonInv, DaemonTyped', NEW d \in Processes, Shifts(d),
         proc[d].at # "off", proc'[d].at \in {"claiming", "claimed"} => proc[d].at \in {"claiming", "claimed"},
         proc'[d].at = "opening" /\ proc'[d].resume => proc[d].at \in {"claiming", "claimed"},
         Undisturbed /\ jolts'["race"] = 0 => Reached'
  PROVE  DaemonKept
<1>1. DaemonTyped /\ Belongs
  BY DEF DaemonInv
<1>2. Sessions' = Sessions /\ session' = session /\ rec' = rec /\ wall' = wall /\ Later
  BY DEF Shifts, Sessions
<1>3. \A e \in Processes : e = d \/ proc'[e] = proc[e]
  BY DEF Shifts
<1>4. ~Open(d)' /\ proc'[d].at # "ended" /\ proc'[d].at # "recording"
  BY DEF Shifts, Open
<1>5. Belongs'
  <2>1. \A e \in Processes : proc'[e].sid \in 0..Len(session')
    BY <1>1, <1>2, <1>3, SessionParts DEF Belongs, Shifts
  <2>2. \A e \in Processes : Open(e)' \/ proc'[e].at = "ended" => proc'[e].sid # 0 /\ ~proc'[e].resume
    BY <1>1, <1>3, <1>4 DEF Belongs, Open
  <2>3. \A e \in Processes : rec'[e].on # "no" => proc'[e].at = "recording"
    BY <1>1, <1>2, <1>3 DEF Belongs, Shifts
  <2>4. \A e \in Processes : rec'[e].on \in {"running", "waiting"} => rec'[e].rapid < MaxRapid
    BY <1>1, <1>2 DEF Belongs
  <2> QED BY <2>1, <2>2, <2>3, <2>4 DEF Belongs
<1>6. wall \in Int
  BY <1>1, DaemonConfigured DEF DaemonTyped
<1>7. SameTimes
  BY <1>2, <1>6 DEF SameTimes
<1>8. RecordersLess
  BY <1>2, <1>3 DEF RecordersLess, Shifts
<1>9. Fewer
  <2>1. Alive' \subseteq Alive
    BY <1>3 DEF Alive
  <2>2. ASSUME NEW s \in Sessions, NEW e \in Able(s)' PROVE e \in Able(s)
    <3>1. e \in Processes
      BY <2>2 DEF Able
    <3>2. CASE e # d
      BY <1>2, <1>3, <2>2, <3>2 DEF Able
    <3>3. CASE e = d
      BY <1>2, <2>2, <3>3 DEF Able, Shifts
    <3> QED BY <3>2, <3>3
  <2>3. jolts'["start"] \in Nat /\ jolts'["start"] >= jolts["start"]
    BY <1>2 DEF Later, DaemonEvents
  <2>4. \A s \in Sessions : session'[s].unacked \in Nat /\ session'[s].unacked <= session[s].unacked
    BY <1>1, <1>2, SessionParts
  <2> QED BY <1>2, <2>1, <2>2, <2>3, <2>4 DEF Fewer
<1>10. Noted => Noted'
  <2>1. SameEnds
    <3>1. ASSUME NEW e \in Processes
          PROVE  /\ Open(e)' => Open(e) /\ proc'[e].sid = proc[e].sid
                 /\ proc'[e].at = "ended" <=> proc[e].at = "ended"
                 /\ proc[e].at = "ended" => proc'[e].sid = proc[e].sid /\ proc'[e].sure = proc[e].sure
      <4>1. CASE e = d
        BY <1>4, <4>1 DEF Shifts
      <4>2. CASE e # d
        BY <1>3, <4>2 DEF Open
      <4> QED BY <4>1, <4>2
    <3> QED BY <1>2, <3>1 DEF SameEnds
  <2> QED BY <1>1, <2>1, NotedKept
<1> QED BY <1>2, <1>5, <1>7, <1>8, <1>9, <1>10, Settles DEF Trusted

\* A process that has not got as far as recording has no recorder.
LEMMA NoRecorder ==
  ASSUME DaemonInv, NEW d \in Processes, proc[d].at # "recording"
  PROVE  rec[d].on = "no"
BY RecParts DEF DaemonInv, Belongs

LEMMA ClaimKeeps == ASSUME DaemonInv, NEW d \in Processes, Claim(d) PROVE DaemonKept
<1>1. DaemonTyped
  BY DEF DaemonInv
<1>2. Later
  BY <1>1, NotLater, JoltsLater DEF Claim, DaemonTyped, DaemonEvents
<1>3. PICK at \in {"off", "claimed"} : Moves(d, at)
  BY DEF Claim
<1>4. /\ proc' \in [Processes -> ProcShape] /\ proc'[d].at = at /\ proc'[d].sid = proc[d].sid
      /\ \A e \in Processes \ {d} : proc'[e] = proc[e]
  BY <1>1, <1>3, MoveTyped DEF Stages
<1>5. DaemonTyped'
  BY <1>1, <1>2, <1>4 DEF Claim, DaemonTyped, Later
<1>6. Shifts(d)
  BY <1>2, <1>4, NoRecorder DEF Claim, Shifts, Stages
<1>7. ASSUME Undisturbed, jolts'["race"] = 0 PROVE Reached'
  <2>1. "race" \in DaemonEvents
    BY DEF DaemonEvents
  <2>2. ~Jolts("race")
    BY <1>1, <1>7, <2>1, NotCounted DEF DaemonTyped
  <2>3. at \notin Serving \cup {"closing"}
    BY DEF Serving
  <2>4. CASE UNCHANGED sock
    BY <1>4, <1>7, <2>3, <2>4 DEF Reached, Undisturbed
  <2>5. CASE sock \in {"none", "stale"}
    <3>1. \A e \in Processes : proc[e].at \notin Serving \cup {"closing"}
      BY <1>7, <2>5, DaemonConfigured DEF Reached, Undisturbed
    <3> QED BY <1>4, <2>3, <3>1 DEF Reached
  <2> QED BY <2>2, <2>4, <2>5 DEF Claim
<1> QED BY <1>4, <1>5, <1>6, <1>7, ShiftsSettles DEF Claim

LEMMA BindKeeps == ASSUME DaemonInv, NEW d \in Processes, Bind(d) PROVE DaemonKept
<1>1. DaemonTyped
  BY DEF DaemonInv
<1>2. Later
  BY <1>1, NotLater, JoltsLater DEF Bind, DaemonTyped, DaemonEvents
<1>3. /\ proc' \in [Processes -> ProcShape] /\ proc'[d].at = "opening" /\ proc'[d].sid = proc[d].sid
      /\ \A e \in Processes \ {d} : proc'[e] = proc[e]
  BY <1>1, MoveTyped DEF Bind, Stages, Serving
<1>4. DaemonTyped'
  BY <1>1, <1>2, <1>3 DEF Bind, DaemonTyped, Later
<1>5. Shifts(d)
  BY <1>2, <1>3, NoRecorder DEF Bind, Shifts, Stages, Serving
<1>6. ASSUME Undisturbed, jolts'["race"] = 0 PROVE Reached'
  <2>1. "race" \in DaemonEvents
    BY DEF DaemonEvents
  <2>2. sock = "none"
    BY <1>1, <1>6, <2>1, NotCounted DEF Bind, DaemonTyped
  <2>3. \A e \in Processes : proc[e].at \notin Serving \cup {"closing"}
    BY <1>6, <2>2, DaemonConfigured DEF Reached, Undisturbed
  <2> QED BY <1>3, <2>3 DEF Reached, Bind
<1> QED BY <1>3, <1>4, <1>5, <1>6, ShiftsSettles DEF Bind

LEMMA CloseControlKeeps == ASSUME DaemonInv, NEW d \in Processes, CloseControl(d) PROVE DaemonKept
<1>1. DaemonTyped
  BY DEF DaemonInv
<1>2. Later
  BY <1>1, NotLater DEF CloseControl, DaemonTyped
<1>3. /\ proc' \in [Processes -> ProcShape] /\ proc'[d].at = "off" /\ proc'[d].sid = 0
      /\ \A e \in Processes \ {d} : proc'[e] = proc[e]
  BY <1>1 DEF CloseControl, DaemonTyped, ProcShape, Off, Stages
<1>4. tail' \in TailShape
  BY <1>1 DEF CloseControl, DaemonTyped, TailShape, NoTail
<1>5. DaemonTyped'
  BY <1>1, <1>2, <1>3, <1>4 DEF CloseControl, DaemonTyped, Later
<1>6. Shifts(d)
  BY <1>2, <1>3, NoRecorder DEF CloseControl, Shifts, Stages
<1>7. ASSUME Undisturbed PROVE Reached'
  <2>1. \A e \in Processes \ {d} : proc[e].at \notin Serving \cup {"closing"}
    BY <1>1, <1>7, OneServes DEF CloseControl
  <2> QED BY <1>3, <2>1 DEF Reached, Serving
<1> QED BY <1>3, <1>5, <1>6, <1>7, ShiftsSettles DEF CloseControl

LEMMA KillKeeps == ASSUME DaemonInv, NEW d \in Processes, Kill(d) PROVE DaemonKept
<1>1. DaemonTyped /\ Belongs
  BY DEF DaemonInv
<1>2. Later /\ jolts'["kill"] \in Nat /\ jolts'["kill"] > 0
  <2>1. "kill" \in DaemonEvents /\ Jolts("kill") /\ jolts \in [DaemonEvents -> Nat]
    BY <1>1 DEF Kill, DaemonTyped, DaemonEvents
  <2> QED BY <2>1, JoltsLater, NotCounted DEF Later
<1>3. /\ proc' \in [Processes -> ProcShape] /\ proc'[d].at = "off" /\ proc'[d].sid = 0
      /\ \A e \in Processes \ {d} : proc'[e] = proc[e]
  BY <1>1 DEF Kill, DaemonTyped, ProcShape, Off, Stages
<1>4. /\ rec' \in [Processes -> RecShape] /\ rec'[d].on = "no" /\ \A e \in Processes \ {d} : rec'[e] = rec[e]
  <2>1. NoRec \in RecShape /\ NoRec.on = "no"
    BY DaemonConfigured DEF NoRec, RecShape
  <2> QED BY <1>1, <2>1 DEF Kill, DaemonTyped
<1>5. tail' \in TailShape
  BY <1>1 DEF Kill, DaemonTyped, TailShape, NoTail
<1>6. DaemonTyped'
  BY <1>1, <1>2, <1>3, <1>4, <1>5 DEF Kill, DaemonTyped, Later
<1>7. session' = session /\ Sessions' = Sessions /\ wall' = wall /\ wall \in Int
  BY <1>1, DaemonConfigured DEF Kill, Sessions, DaemonTyped
<1>8. Belongs'
  <2>1. \A e \in Processes : proc'[e].sid \in 0..Len(session')
    BY <1>1, <1>3, <1>7, SessionParts DEF Belongs
  <2>2. \A e \in Processes : Open(e)' \/ proc'[e].at = "ended" => proc'[e].sid # 0 /\ ~proc'[e].resume
    BY <1>1, <1>3 DEF Belongs, Open
  <2>3. \A e \in Processes : rec'[e].on # "no" => proc'[e].at = "recording"
    BY <1>1, <1>3, <1>4 DEF Belongs
  <2>4. \A e \in Processes : rec'[e].on \in {"running", "waiting"} => rec'[e].rapid < MaxRapid
    BY <1>1, <1>4 DEF Belongs
  <2> QED BY <2>1, <2>2, <2>3, <2>4 DEF Belongs
<1>9. SameTimes /\ RecordersLess
  BY <1>3, <1>4, <1>7 DEF SameTimes, RecordersLess
<1>10. Fewer
  <2>1. Alive' \subseteq Alive
    BY <1>3 DEF Alive
  <2>2. \A s \in Sessions : Able(s)' \subseteq Able(s)
    <3> SUFFICES ASSUME NEW s \in Sessions, NEW e \in Able(s)' PROVE e \in Able(s)
      OBVIOUS
    <3>1. e # d /\ e \in Processes
      BY <1>3, <1>4 DEF Able
    <3> QED BY <1>3, <1>4, <3>1 DEF Able
  <2>3. jolts'["start"] \in Nat /\ jolts'["start"] >= jolts["start"]
    BY <1>2 DEF Later, DaemonEvents
  <2>4. \A s \in Sessions : session'[s].unacked \in Nat /\ session'[s].unacked <= session[s].unacked
    BY <1>1, <1>7, SessionParts
  <2> QED BY <1>7, <2>1, <2>2, <2>3, <2>4 DEF Fewer
<1>11. ASSUME Undisturbed PROVE Reached'
  <2>1. ASSUME NEW e \in Processes, proc'[e].at \in Serving \cup {"closing"} PROVE sock' = e
    <3>1. e # d /\ proc[e].at \in Serving \cup {"closing"}
      BY <1>3, <2>1 DEF Serving
    <3>2. sock = e
      BY <1>11, <3>1 DEF Reached, Undisturbed
    <3> QED BY <3>1, <3>2 DEF Kill
  <2> QED BY <2>1 DEF Reached
<1>12. ~(jolts'["kill"] + jolts'["unsure"] = 0)
  <2>1. jolts'["unsure"] \in Nat
    BY <1>2 DEF Later, DaemonEvents
  <2> QED BY <1>2, <2>1
<1> QED BY <1>2, <1>6, <1>8, <1>9, <1>10, <1>11, <1>12, Settles

LEMMA TickKeeps == ASSUME DaemonInv, Tick PROVE DaemonKept
<1>1. DaemonTyped /\ Belongs
  BY DEF DaemonInv
<1>2. Later
  BY <1>1, NotLater DEF Tick, DaemonTyped
<1>3. wall' = wall + 1 /\ wall \in Nat /\ wall' \in 0..MaxClock
  BY <1>1, DaemonConfigured DEF Tick, DaemonTyped
<1>4. DaemonTyped'
  BY <1>1, <1>2, <1>3 DEF Tick, DaemonTyped, Later
<1>5. session' = session /\ Sessions' = Sessions /\ proc' = proc /\ rec' = rec /\ sock' = sock /\ jolts' = jolts
  BY DEF Tick, Sessions
<1>6. Belongs'
  BY <1>1, <1>5 DEF Belongs, Open
<1>7. SameTimes /\ RecordersLess
  BY <1>3, <1>5 DEF SameTimes, RecordersLess
<1>8. Fewer
  <2>1. jolts'["start"] \in Nat /\ jolts'["start"] >= jolts["start"]
    BY <1>2 DEF Later, DaemonEvents
  <2>2. \A s \in Sessions : session'[s].unacked \in Nat /\ session'[s].unacked <= session[s].unacked
    BY <1>1, <1>5, SessionParts
  <2> QED BY <1>5, <2>1, <2>2 DEF Fewer, Alive, Able
<1>9. (Reached => Reached') /\ (Noted => Noted')
  BY <1>5 DEF Reached, Noted, Open
<1> QED BY <1>2, <1>4, <1>6, <1>7, <1>8, <1>9, Settles DEF Undisturbed, Trusted

\* A process ends its session, or waits to be told to.
Leaves(d) ==
  /\ UNCHANGED <<wall, session, sock>> /\ Later /\ Open(d) /\ Open(d)'
  /\ \A e \in Processes \ {d} : proc'[e] = proc[e] /\ rec'[e] = rec[e]
  /\ rec'[d].on = "no" /\ proc'[d].sid = proc[d].sid /\ proc'[d].resume = proc[d].resume /\ proc'[d].at # "recording"
LEMMA LeavesSettles ==
  ASSUME DaemonInv, DaemonTyped', NEW d \in Processes, Leaves(d)
  PROVE  DaemonKept
<1>1. DaemonTyped /\ Belongs
  BY DEF DaemonInv
<1>2. session' = session /\ Sessions' = Sessions /\ wall' = wall /\ sock' = sock /\ wall \in Int /\ Later
  BY <1>1, DaemonConfigured DEF Leaves, Sessions, DaemonTyped
<1>3. \A e \in Processes : e = d \/ (proc'[e] = proc[e] /\ rec'[e] = rec[e])
  BY DEF Leaves
<1>4. Belongs'
  <2>1. \A e \in Processes : proc'[e].sid \in 0..Len(session') /\ proc'[e].sid = proc[e].sid
    BY <1>1, <1>2, <1>3, SessionParts DEF Belongs, Leaves
  <2>2. \A e \in Processes : Open(e)' \/ proc'[e].at = "ended" => proc'[e].sid # 0 /\ ~proc'[e].resume
    BY <1>1, <1>3, <2>1 DEF Belongs, Open, Leaves
  <2>3. \A e \in Processes : rec'[e].on # "no" => proc'[e].at = "recording"
    BY <1>1, <1>3 DEF Belongs, Leaves
  <2>4. \A e \in Processes : rec'[e].on \in {"running", "waiting"} => rec'[e].rapid < MaxRapid
    BY <1>1, <1>3 DEF Belongs, Leaves
  <2> QED BY <2>1, <2>2, <2>3, <2>4 DEF Belongs
<1>5. SameTimes /\ RecordersLess
  BY <1>2, <1>3 DEF SameTimes, RecordersLess, Leaves
<1>6. Fewer
  <2>1. Alive' \subseteq Alive
    BY <1>3 DEF Alive, Leaves, Open
  <2>2. \A s \in Sessions : Able(s)' \subseteq Able(s)
    <3> SUFFICES ASSUME NEW s \in Sessions, NEW e \in Able(s)' PROVE e \in Able(s)
      OBVIOUS
    <3>1. e # d /\ e \in Processes
      BY DEF Able, Leaves, Open
    <3> QED BY <1>3, <3>1 DEF Able
  <2>3. jolts'["start"] \in Nat /\ jolts'["start"] >= jolts["start"]
    BY <1>2 DEF Later, DaemonEvents
  <2>4. \A s \in Sessions : session'[s].unacked \in Nat /\ session'[s].unacked <= session[s].unacked
    BY <1>1, <1>2, SessionParts
  <2> QED BY <1>2, <2>1, <2>2, <2>3, <2>4 DEF Fewer
<1>7. Reached => Reached'
  <2>1. ASSUME Reached, NEW e \in Processes, proc'[e].at \in Serving \cup {"closing"} PROVE sock' = e
    BY <1>2, <1>3, <2>1 DEF Reached, Leaves, Open, Serving
  <2> QED BY <2>1 DEF Reached
<1>8. Noted => Noted'
  <2>1. SameEnds
    <3>1. ASSUME NEW e \in Processes
          PROVE  /\ Open(e)' => Open(e) /\ proc'[e].sid = proc[e].sid
                 /\ proc'[e].at = "ended" <=> proc[e].at = "ended"
                 /\ proc[e].at = "ended" => proc'[e].sid = proc[e].sid /\ proc'[e].sure = proc[e].sure
      BY <1>3 DEF Leaves, Open
    <3> QED BY <1>2, <3>1 DEF SameEnds
  <2> QED BY <1>1, <2>1, NotedKept
<1> QED BY <1>2, <1>4, <1>5, <1>6, <1>7, <1>8, Settles DEF Undisturbed, Trusted

LEMMA CancelledTyped ==
  ASSUME DaemonTyped, NEW d \in Processes, Cancelled(d)
  PROVE  /\ rec' \in [Processes -> RecShape] /\ rec'[d].on = "no"
         /\ \A e \in Processes \ {d} : rec'[e] = rec[e]
<1>1. NoRec \in RecShape /\ NoRec.on = "no"
  BY DaemonConfigured DEF NoRec, RecShape
<1> QED BY <1>1 DEF Cancelled, DaemonTyped

LEMMA WatchKeeps ==
  ASSUME DaemonInv, NEW d \in Processes, WatchStop(d) \/ WatchRoll(d) \/ WatchFailed(d)
  PROVE  DaemonKept
<1>1. DaemonTyped
  BY DEF DaemonInv
<1>2. Later
  BY <1>1, NotLater, JoltsLater DEF WatchStop, WatchRoll, WatchFailed, DaemonTyped, DaemonEvents
<1>3. Cancelled(d) /\ UNCHANGED <<wall, session, sock, client, tail>>
  BY DEF WatchStop, WatchRoll, WatchFailed
<1>4. /\ proc' \in [Processes -> ProcShape] /\ proc'[d].at \in {"ending", "failed"} /\ proc'[d].sid = proc[d].sid
      /\ proc'[d].resume = proc[d].resume /\ \A e \in Processes \ {d} : proc'[e] = proc[e]
  <2>1. CASE WatchRoll(d)
    <3>1. proc' = [proc EXCEPT ![d].at = "ending", ![d].rolled = TRUE]
      BY <2>1 DEF WatchRoll
    <3>2. [[proc[d] EXCEPT !.at = "ending"] EXCEPT !.rolled = TRUE] \in ProcShape
      <4>1. PICK x : x = proc[d]
        OBVIOUS
      <4>2. x \in ProcShape /\ "ending" \in Stages
        BY <1>1, <4>1 DEF DaemonTyped, Stages, Serving
      <4>3. PICK y : y = [x EXCEPT !.at = "ending"]
        OBVIOUS
      <4>4. y \in ProcShape
        BY ONLY <4>2, <4>3 DEF ProcShape
      <4>5. [y EXCEPT !.rolled = TRUE] \in ProcShape
        BY ONLY <4>4 DEF ProcShape
      <4> QED BY <4>1, <4>3, <4>5
    <3> QED BY <1>1, <3>1, <3>2 DEF DaemonTyped, ProcShape
  <2>2. CASE ~WatchRoll(d)
    <3>1. PICK at \in {"ending", "failed"} : Moves(d, at)
      BY <2>2 DEF WatchStop, WatchFailed
    <3> QED BY <1>1, <3>1, MoveTyped DEF Stages, Serving
  <2> QED BY <2>1, <2>2
<1>5. DaemonTyped'
  BY <1>1, <1>2, <1>3, <1>4, CancelledTyped DEF DaemonTyped, Later
<1>6. Open(d)
  BY DEF WatchStop, WatchRoll, WatchFailed, Open
<1>7. Leaves(d)
  BY <1>1, <1>2, <1>3, <1>4, <1>6, CancelledTyped DEF Leaves, Open
<1> QED BY <1>5, <1>7, LeavesSettles

\* One session is written to.
LEMMA SessionPut ==
  ASSUME DaemonTyped, NEW s \in Sessions, NEW x \in SessionShape, session' = [session EXCEPT ![s] = x]
  PROVE  /\ session' \in Seq(SessionShape) /\ Len(session') = Len(session) /\ Sessions' = Sessions
         /\ session'[s] = x /\ \A t \in Sessions : t # s => session'[t] = session[t]
<1>1. session \in Seq(SessionShape) /\ Sessions = 1..Len(session) /\ Len(session) \in Nat
  BY SessionParts DEF DaemonTyped
<1>2. \A t \in Sessions : session[t] \in SessionShape
  BY SessionParts
<1>3. session' \in [1..Len(session) -> SessionShape]
  BY <1>1, <1>2
<1>4. session' \in Seq(SessionShape) /\ Len(session') = Len(session)
  BY <1>1, <1>3
<1> QED BY <1>1, <1>4 DEF Sessions

\* Its owner has one.
LEMMA Owns ==
  ASSUME DaemonInv, NEW d \in Processes, Open(d) \/ proc[d].at = "ended"
  PROVE  proc[d].sid \in Sessions
BY SessionParts DEF DaemonInv, Belongs

LEMMA AckedKeeps == ASSUME DaemonInv, NEW d \in Processes, Acked(d) PROVE DaemonKept
<1>1. DaemonTyped /\ Belongs
  BY DEF DaemonInv
<1>2. Later
  BY <1>1, NotLater DEF Acked, DaemonTyped
<1>3. PICK s \in Sessions : s = proc[d].sid
  BY Owns DEF Acked
<1>4. PICK x : x = [session[s] EXCEPT !.unacked = @ - 1]
  OBVIOUS
<1>41. session' = [session EXCEPT ![s] = x] /\ session[s].unacked - 1 \in Nat /\ session[s] \in SessionShape
  BY <1>1, <1>3, <1>4, SessionParts DEF Acked
<1>5. /\ x \in SessionShape /\ x.unacked = session[s].unacked - 1 /\ x.unacked \in Nat /\ x.pos = session[s].pos
      /\ x.started = session[s].started /\ x.over = session[s].over /\ x.ended = session[s].ended /\ x.late = session[s].late
  BY <1>4, <1>41 DEF SessionShape
<1>6. /\ session' \in Seq(SessionShape) /\ Len(session') = Len(session) /\ Sessions' = Sessions
      /\ session'[s] = x /\ \A t \in Sessions : t # s => session'[t] = session[t]
  BY <1>1, <1>41, <1>5, SessionPut
<1>7. wall' = wall /\ proc' = proc /\ rec' = rec /\ sock' = sock /\ jolts' = jolts /\ client' = client /\ tail' = tail /\ wall \in Int
  BY <1>1, DaemonConfigured DEF Acked, DaemonTyped
<1>8. DaemonTyped'
  BY <1>1, <1>6, <1>7 DEF DaemonTyped
<1>9. Belongs'
  BY <1>1, <1>6, <1>7 DEF Belongs, Open
<1>10. SameTimes
  BY <1>5, <1>6, <1>7 DEF SameTimes
<1>11. RecordersLess
  BY <1>7 DEF RecordersLess
<1>12. Fewer
  <2>1. jolts'["start"] \in Nat /\ jolts'["start"] >= jolts["start"]
    BY <1>2 DEF Later, DaemonEvents
  <2>2. \A t \in Sessions : session'[t].unacked \in Nat /\ session'[t].unacked <= session[t].unacked
    <3> SUFFICES ASSUME NEW t \in Sessions
                 PROVE  session'[t].unacked \in Nat /\ session'[t].unacked <= session[t].unacked
      OBVIOUS
    <3>1. session[t].unacked \in Nat
      BY <1>1, SessionParts
    <3>2. CASE t = s
      <4>1. session'[t].unacked = session[t].unacked - 1 /\ session'[t].unacked \in Nat
        BY <1>5, <1>6, <3>2
      <4> QED BY ONLY <3>1, <4>1
    <3>3. CASE t # s
      <4>1. session'[t].unacked = session[t].unacked
        BY <1>6, <3>3
      <4> QED BY ONLY <3>1, <4>1
    <3> QED BY <3>2, <3>3
  <2> QED BY <1>6, <1>7, <2>1, <2>2 DEF Fewer, Alive, Able
<1>13. Reached => Reached'
  BY <1>7 DEF Reached
<1>14. Noted => Noted'
  <2>1. SameEnds
    BY <1>5, <1>6, <1>7 DEF SameEnds, Open
  <2> QED BY <1>1, <2>1, NotedKept
<1> QED BY <1>2, <1>8, <1>9, <1>10, <1>11, <1>12, <1>13, <1>14, Settles DEF Undisturbed, Trusted

\* A session that is over at the server or here, and its process moves on.
Closes(d) ==
  /\ UNCHANGED <<wall, sock, rec>> /\ rec[d].on = "no" /\ Later
  /\ proc[d].at \in {"ending", "ended"} /\ proc'[d].at \in {"ended", "opening", "closing"}
  /\ proc'[d].sid = proc[d].sid /\ proc'[d].resume = proc[d].resume /\ \A e \in Processes \ {d} : proc'[e] = proc[e]
  /\ Len(session') = Len(session) /\ Sessions' = Sessions
  /\ \A s \in Sessions : /\ session'[s].started = session[s].started /\ session'[s].pos = session[s].pos
                         /\ session'[s].unacked = session[s].unacked
LEMMA ClosesSettles ==
  ASSUME DaemonInv, DaemonTyped', NEW d \in Processes, Closes(d),
         Trusted /\ jolts'["race"] = 0 /\ jolts'["kill"] + jolts'["unsure"] = 0 => Noted'
  PROVE  DaemonKept
<1>1. DaemonTyped /\ Belongs
  BY DEF DaemonInv
<1>2. Sessions' = Sessions /\ wall' = wall /\ sock' = sock /\ rec' = rec /\ wall \in Int /\ Later
  BY <1>1, DaemonConfigured DEF Closes, DaemonTyped
<1>3. \A e \in Processes : (e = d \/ proc'[e] = proc[e]) /\ proc'[e].sid = proc[e].sid
  BY DEF Closes
<1>4. Belongs'
  <2>1. \A e \in Processes : proc'[e].sid \in 0..Len(session')
    BY <1>1, <1>3 DEF Belongs, Closes
  <2>2. \A e \in Processes : Open(e)' \/ proc'[e].at = "ended" => proc'[e].sid # 0 /\ ~proc'[e].resume
    BY <1>1, <1>3 DEF Belongs, Open, Closes
  <2>3. \A e \in Processes : rec'[e].on # "no" => proc'[e].at = "recording"
    BY <1>1, <1>2, <1>3 DEF Belongs, Closes
  <2>4. \A e \in Processes : rec'[e].on \in {"running", "waiting"} => rec'[e].rapid < MaxRapid
    BY <1>1, <1>2 DEF Belongs
  <2> QED BY <2>1, <2>2, <2>3, <2>4 DEF Belongs
<1>5. SameTimes /\ RecordersLess
  BY <1>2, <1>3 DEF SameTimes, RecordersLess, Closes
<1>6. Fewer
  <2>1. Alive' \subseteq Alive
    BY <1>3 DEF Alive, Closes
  <2>2. \A s \in Sessions : Able(s)' \subseteq Able(s)
    <3> SUFFICES ASSUME NEW s \in Sessions, NEW e \in Able(s)' PROVE e \in Able(s)
      OBVIOUS
    <3>1. e # d /\ e \in Processes
      BY <1>1, <1>2 DEF Able, Closes, Belongs, Open
    <3> QED BY <1>2, <1>3, <3>1 DEF Able
  <2>3. jolts'["start"] \in Nat /\ jolts'["start"] >= jolts["start"]
    BY <1>2 DEF Later, DaemonEvents
  <2>4. \A s \in Sessions : session'[s].unacked \in Nat /\ session'[s].unacked <= session[s].unacked
    BY <1>1, SessionParts DEF Closes
  <2> QED BY <1>2, <2>1, <2>2, <2>3, <2>4 DEF Fewer
<1>7. Reached => Reached'
  <2>1. ASSUME Reached, NEW e \in Processes, proc'[e].at \in Serving \cup {"closing"} PROVE sock' = e
    BY <1>2, <1>3, <2>1 DEF Reached, Closes, Serving
  <2> QED BY <2>1 DEF Reached
<1> QED BY <1>2, <1>4, <1>5, <1>6, <1>7, Settles DEF Undisturbed

LEMMA EndSinkKeeps == ASSUME DaemonInv, NEW d \in Processes, EndSink(d) PROVE DaemonKept
<1>1. DaemonTyped /\ Belongs
  BY DEF DaemonInv
<1>2. Later
  BY <1>1, NotLater, JoltsLater DEF EndSink, DaemonTyped, DaemonEvents
<1>3. proc[d].sid \in Sessions /\ proc[d].at = "ending"
  BY Owns DEF EndSink, Open
<1>4. PICK s \in Sessions : s = proc[d].sid
  BY <1>3
<1>5. PICK sure \in BOOLEAN : proc' = [proc EXCEPT ![d].at = "ended", ![d].sure = sure]
  BY DEF EndSink
<1>6. /\ proc' \in [Processes -> ProcShape] /\ proc'[d].at = "ended" /\ proc'[d].sid = s /\ proc'[d].sure = sure
      /\ proc'[d].resume = proc[d].resume
      /\ \A e \in Processes \ {d} : proc'[e] = proc[e]
  <2>1. proc \in [Processes -> ProcShape]
    BY <1>1 DEF DaemonTyped
  <2>2. PICK x : x = proc[d]
    OBVIOUS
  <2>3. x \in ProcShape /\ "ended" \in Stages
    BY <2>1, <2>2 DEF Stages, Serving
  <2>4. PICK y : y = [x EXCEPT !.at = "ended"]
    OBVIOUS
  <2>5. y \in ProcShape /\ y.at = "ended" /\ y.sid = x.sid /\ y.resume = x.resume
    BY ONLY <2>3, <2>4 DEF ProcShape
  <2>6. PICK z : z = [y EXCEPT !.sure = sure]
    OBVIOUS
  <2>7. z \in ProcShape /\ z.at = "ended" /\ z.sid = x.sid /\ z.resume = x.resume /\ z.sure = sure
    BY ONLY <2>5, <2>6, sure \in BOOLEAN DEF ProcShape
  <2>8. proc' = [proc EXCEPT ![d] = z]
    BY <1>5, <2>1, <2>2, <2>4, <2>6
  <2>9. proc' \in [Processes -> ProcShape] /\ proc'[d] = z /\ \A e \in Processes \ {d} : proc'[e] = proc[e]
    BY <2>1, <2>7, <2>8
  <2> QED BY <1>4, <2>2, <2>7, <2>9
<1>7. PICK over \in BOOLEAN : /\ session' = [session EXCEPT ![s] = [session[s] EXCEPT !.over = over]]
                              /\ session[s].over => over
  <2>1. session[s].over \in BOOLEAN
    BY <1>1, SessionParts
  <2>2. CASE session' = [session EXCEPT ![proc[d].sid].over = TRUE]
    BY <1>4, <2>2
  <2>3. ASSUME NEW o \in {FALSE, session[s].unacked = 0}, session' = [session EXCEPT ![proc[d].sid].over = @ \/ o]
        PROVE  \E over \in BOOLEAN : /\ session' = [session EXCEPT ![s] = [session[s] EXCEPT !.over = over]]
                                     /\ session[s].over => over
    <3>1. session' = [session EXCEPT ![s] = [session[s] EXCEPT !.over = session[s].over \/ o]]
      BY <1>4, <2>3
    <3>2. (session[s].over \/ o) \in BOOLEAN
      OBVIOUS
    <3> QED BY <3>1, <3>2
  <2> QED BY <1>4, <2>2, <2>3 DEF EndSink
<1>8. /\ session' \in Seq(SessionShape) /\ Len(session') = Len(session) /\ Sessions' = Sessions
      /\ session'[s] = [session[s] EXCEPT !.over = over] /\ \A t \in Sessions : t # s => session'[t] = session[t]
  <2>1. [session[s] EXCEPT !.over = over] \in SessionShape
    BY <1>1, SessionParts DEF SessionShape
  <2> QED BY <1>1, <1>7, <2>1, SessionPut
<1>9. /\ session'[s].over = over /\ session'[s].ended = session[s].ended /\ session'[s].late = session[s].late
      /\ session'[s].started = session[s].started /\ session'[s].pos = session[s].pos /\ session'[s].unacked = session[s].unacked
  BY <1>1, <1>8, SessionParts DEF SessionShape
<1>10. DaemonTyped'
  BY <1>1, <1>2, <1>6, <1>8 DEF EndSink, DaemonTyped, Later
<1>11. Closes(d)
  <2>1. rec[d].on = "no"
    BY <1>3, NoRecorder
  <2> QED BY <1>2, <1>3, <1>4, <1>6, <1>8, <1>9, <2>1 DEF Closes, EndSink
<1>12. ASSUME Trusted, jolts'["unsure"] = 0 PROVE Noted'
  <2>1. ~session[s].over /\ Noted
    BY <1>3, <1>4, <1>12 DEF Trusted, Noted, Open
  <2>2. sure /\ over
    <3>1. "unsure" \in DaemonEvents
      BY DEF DaemonEvents
    <3>2. ~Jolts("unsure")
      BY <1>1, <1>12, <3>1, NotCounted DEF DaemonTyped
    <3>3. proc' = [proc EXCEPT ![d].at = "ended", ![d].sure = TRUE] /\ session' = [session EXCEPT ![proc[d].sid].over = TRUE]
      BY <1>4, <2>1, <3>2 DEF EndSink
    <3>4. proc'[d].sure = TRUE
      BY <1>1, <3>3 DEF DaemonTyped, ProcShape
    <3>5. session'[s].over = TRUE
      BY <1>1, <1>4, <3>3, SessionParts DEF SessionShape
    <3> QED BY <1>6, <1>9, <3>4, <3>5
  <2>3. \A t \in Sessions' : ~session'[t].late
    BY <1>8, <1>9, <2>1 DEF Noted
  <2>4. ASSUME NEW t \in Sessions', session'[t].over, ~session'[t].ended
        PROVE  \E e \in Processes : proc'[e].at = "ended" /\ proc'[e].sid = t
    <3>1. CASE t = s
      BY <1>6, <3>1
    <3>2. CASE t # s
      <4>1. PICK e \in Processes : proc[e].at = "ended" /\ proc[e].sid = t
        BY <1>8, <2>1, <2>4, <3>2 DEF Noted
      <4>2. e # d
        BY <1>3, <4>1
      <4> QED BY <1>6, <4>1, <4>2
    <3> QED BY <3>1, <3>2
  <2>5. ASSUME NEW e \in Processes, Open(e)' PROVE ~session'[proc'[e].sid].over
    <3>1. e # d
      BY <1>6, <2>5 DEF Open
    <3>2. Open(e) /\ proc'[e] = proc[e]
      BY <1>6, <2>5, <3>1 DEF Open
    <3>3. d = e
      BY <1>1, <1>3, <1>12, <3>2, OneServes DEF Open, Serving, Trusted
    <3> QED BY <3>1, <3>3
  <2>6. \A e \in Processes : proc'[e].at = "ended" => proc'[e].sure
    BY <1>6, <2>1, <2>2 DEF Noted
  <2> QED BY <2>3, <2>4, <2>5, <2>6 DEF Noted
<1>13. jolts'["kill"] \in Nat /\ jolts'["unsure"] \in Nat
  BY <1>2 DEF Later, DaemonEvents
<1>14. jolts'["kill"] + jolts'["unsure"] = 0 => jolts'["unsure"] = 0
  BY <1>13
<1> QED BY <1>10, <1>11, <1>12, <1>14, ClosesSettles

LEMMA SessionOverKeeps == ASSUME DaemonInv, NEW d \in Processes, SessionOver(d) PROVE DaemonKept
<1>1. DaemonTyped /\ Belongs
  BY DEF DaemonInv
<1>2. Later
  BY <1>1, NotLater DEF SessionOver, DaemonTyped
<1>3. proc[d].at = "ended" /\ proc[d].sid \in Sessions /\ proc[d].sure \in BOOLEAN
  BY <1>1, Owns, RecParts DEF SessionOver, ProcShape
<1>4. PICK s \in Sessions : s = proc[d].sid
  BY <1>3
<1>5. PICK sure \in BOOLEAN : sure = proc[d].sure
  BY <1>3
<1>6. /\ proc' \in [Processes -> ProcShape] /\ proc'[d].at \in {"opening", "closing"} /\ proc'[d].sid = s
      /\ proc'[d].resume = proc[d].resume /\ \A e \in Processes \ {d} : proc'[e] = proc[e]
  <2>1. PICK at \in {"opening", "closing"} : Moves(d, at)
    BY DEF SessionOver
  <2> QED BY <1>1, <1>4, <2>1, MoveTyped DEF Stages, Serving
<1>7. PICK ended \in BOOLEAN : /\ session' = [session EXCEPT ![s] = [session[s] EXCEPT !.ended = ended]]
                               /\ session[s].ended \/ sure => ended
  <2>1. session' = [session EXCEPT ![s] = [session[s] EXCEPT !.ended = session[s].ended \/ sure]]
    BY <1>4, <1>5 DEF SessionOver
  <2>2. (session[s].ended \/ sure) \in BOOLEAN
    OBVIOUS
  <2> QED BY <2>1, <2>2
<1>8. /\ session' \in Seq(SessionShape) /\ Len(session') = Len(session) /\ Sessions' = Sessions
      /\ session'[s] = [session[s] EXCEPT !.ended = ended] /\ \A t \in Sessions : t # s => session'[t] = session[t]
  <2>1. [session[s] EXCEPT !.ended = ended] \in SessionShape
    BY <1>1, SessionParts DEF SessionShape
  <2> QED BY <1>1, <1>7, <2>1, SessionPut
<1>9. /\ session'[s].over = session[s].over /\ session'[s].ended = ended /\ session'[s].late = session[s].late
      /\ session'[s].started = session[s].started /\ session'[s].pos = session[s].pos /\ session'[s].unacked = session[s].unacked
  BY <1>1, <1>8, SessionParts DEF SessionShape
<1>10. tail' \in TailShape
  BY <1>1 DEF SessionOver, DaemonTyped, TailShape, NoTail
<1>11. DaemonTyped'
  BY <1>1, <1>2, <1>6, <1>8, <1>10 DEF SessionOver, DaemonTyped, Later
<1>12. Closes(d)
  <2>1. rec[d].on = "no"
    BY <1>3, NoRecorder
  <2> QED BY <1>2, <1>3, <1>4, <1>6, <1>8, <1>9, <2>1 DEF Closes, SessionOver
<1>13. ASSUME Trusted PROVE Noted'
  <2>1. Noted /\ sure
    BY <1>3, <1>5, <1>13 DEF Trusted, Noted
  <2>2. \A t \in Sessions' : ~session'[t].late
    BY <1>8, <1>9, <2>1 DEF Noted
  <2>3. ASSUME NEW t \in Sessions', session'[t].over, ~session'[t].ended
        PROVE  \E e \in Processes : proc'[e].at = "ended" /\ proc'[e].sid = t
    <3>1. t # s
      BY <1>7, <1>9, <2>1, <2>3
    <3>2. PICK e \in Processes : proc[e].at = "ended" /\ proc[e].sid = t
      BY <1>8, <2>1, <2>3, <3>1 DEF Noted
    <3>3. e # d
      BY <1>4, <3>1, <3>2
    <3> QED BY <1>6, <3>2, <3>3
  <2>4. ASSUME NEW e \in Processes, Open(e)' PROVE ~session'[proc'[e].sid].over
    <3>1. e # d
      BY <1>6, <2>4 DEF Open
    <3>2. Open(e)
      BY <1>6, <2>4, <3>1 DEF Open
    <3>3. d = e
      BY <1>1, <1>3, <1>13, <3>2, OneServes DEF Open, Serving, Trusted
    <3> QED BY <3>1, <3>3
  <2>5. \A e \in Processes : proc'[e].at = "ended" => proc'[e].sure
    BY <1>6, <2>1 DEF Noted
  <2> QED BY <2>2, <2>3, <2>4, <2>5 DEF Noted
<1> QED BY <1>11, <1>12, <1>13, ClosesSettles

LEMMA StartKeeps == ASSUME DaemonInv, NEW d \in Processes, Start(d) PROVE DaemonKept
<1>1. DaemonTyped /\ Belongs /\ Bounded
  BY DEF DaemonInv
<1>2. "start" \in DaemonEvents /\ Jolts("start") /\ jolts \in [DaemonEvents -> Nat]
  BY <1>1 DEF Start, DaemonTyped, DaemonEvents
<1>3. Later /\ jolts'["start"] = jolts["start"] + 1 /\ jolts["start"] \in Nat
  BY <1>2, JoltsLater, Counted
<1>4. PICK roll \in BOOLEAN, resume \in BOOLEAN :
        proc' = [proc EXCEPT ![d] = [Off EXCEPT !.at = "claiming", !.roll = roll, !.resume = resume \/ roll]]
  BY DEF Start
<1>5. /\ proc' \in [Processes -> ProcShape] /\ proc'[d].at = "claiming" /\ proc'[d].sid = 0
      /\ \A e \in Processes \ {d} : proc'[e] = proc[e]
  <2>1. (resume \/ roll) \in BOOLEAN
    OBVIOUS
  <2>2. [Off EXCEPT !.at = "claiming", !.roll = roll, !.resume = resume \/ roll] \in ProcShape
    BY <2>1 DEF Off, ProcShape, Stages
  <2> QED BY <1>1, <1>4, <2>2 DEF DaemonTyped, Off
<1>6. DaemonTyped'
  BY <1>1, <1>3, <1>5 DEF Start, DaemonTyped, Later
<1>7. session' = session /\ Sessions' = Sessions /\ wall' = wall /\ rec' = rec /\ sock' = sock /\ wall \in Int
  BY <1>1, DaemonConfigured DEF Start, Sessions, DaemonTyped
<1>8. rec[d].on = "no" /\ proc[d].at = "off"
  BY NoRecorder DEF Start
<1>9. Belongs'
  <2>1. \A e \in Processes : proc'[e].sid \in 0..Len(session')
    BY <1>1, <1>5, <1>7, SessionParts DEF Belongs
  <2>2. \A e \in Processes : Open(e)' \/ proc'[e].at = "ended" => proc'[e].sid # 0 /\ ~proc'[e].resume
    BY <1>1, <1>5 DEF Belongs, Open
  <2>3. \A e \in Processes : rec'[e].on # "no" => proc'[e].at = "recording"
    BY <1>1, <1>5, <1>7, <1>8 DEF Belongs
  <2>4. \A e \in Processes : rec'[e].on \in {"running", "waiting"} => rec'[e].rapid < MaxRapid
    BY <1>1, <1>7 DEF Belongs
  <2> QED BY <2>1, <2>2, <2>3, <2>4 DEF Belongs
<1>10. Timed' /\ (Ahead => Ahead')
  <2>1. SameTimes /\ RecordersLess
    BY <1>5, <1>7, <1>8 DEF SameTimes, RecordersLess
  <2> QED BY <1>1, <1>6, <1>9, <2>1, TimesKept DEF DaemonInv
<1>11. Bounded'
  <2>1. Alive' = Alive \cup {d} /\ d \notin Alive
    BY <1>5, <1>8 DEF Alive
  <2>2. IsFiniteSet(Alive) /\ Cardinality(Alive) \in Nat /\ Cardinality(Alive) <= jolts["start"]
    BY <1>1, FS_CardinalityType DEF Bounded
  <2>3. IsFiniteSet(Alive') /\ Cardinality(Alive') = Cardinality(Alive) + 1
    BY <2>1, <2>2, FS_AddElement
  <2>4. ASSUME NEW s \in Sessions PROVE session[s].unacked + Cardinality(Able(s)') <= MaxUnacked + jolts'["start"]
    <3>1. Able(s) \subseteq Alive
      BY <1>1, AbleAlive
    <3>2. d \notin Able(s) /\ IsFiniteSet(Able(s)) /\ Cardinality(Able(s)) \in Nat
      BY <2>1, <2>2, <3>1, FS_Subset, FS_CardinalityType
    <3>3. Able(s)' \subseteq Able(s) \cup {d}
      BY <1>5, <1>7 DEF Able
    <3>4. Cardinality(Able(s) \cup {d}) = Cardinality(Able(s)) + 1 /\ IsFiniteSet(Able(s) \cup {d})
      BY <3>2, FS_AddElement
    <3>5. Cardinality(Able(s)') <= Cardinality(Able(s)) + 1 /\ Cardinality(Able(s)') \in Nat
      BY <3>3, <3>4, FS_Subset, FS_CardinalityType
    <3>6. session[s].unacked + Cardinality(Able(s)) <= MaxUnacked + jolts["start"]
      BY <1>1 DEF Bounded
    <3>7. session[s].unacked \in Nat /\ MaxUnacked \in Nat
      BY <1>1, SessionParts, DaemonConfigured
    <3> QED BY ONLY <1>3, <3>2, <3>5, <3>6, <3>7
  <2>5. Cardinality(Alive') <= jolts'["start"]
    BY <1>3, <2>2, <2>3
  <2> QED BY <1>7, <2>3, <2>4, <2>5 DEF Bounded
<1>12. Reached => Reached'
  BY <1>5, <1>7 DEF Reached, Serving
<1>13. Noted => Noted'
  <2>1. SameEnds
    <3>1. ASSUME NEW e \in Processes
          PROVE  /\ Open(e)' => Open(e) /\ proc'[e].sid = proc[e].sid
                 /\ proc'[e].at = "ended" <=> proc[e].at = "ended"
                 /\ proc[e].at = "ended" => proc'[e].sid = proc[e].sid /\ proc'[e].sure = proc[e].sure
      BY <1>5, <1>8 DEF Open
    <3> QED BY <1>7, <3>1 DEF SameEnds
  <2> QED BY <1>1, <2>1, NotedKept
<1>14. PosStep
  BY <1>1, <1>7, SessionParts DEF PosStep
<1> QED BY <1>3, <1>6, <1>9, <1>10, <1>11, <1>12, <1>13, <1>14, Assembled DEF Undisturbed, Trusted

\* The greater of two numbers, and the greatest session of some.
LEMMA GreaterOf ==
  ASSUME NEW a \in Int, NEW b \in Int
  PROVE  Max({a, b}) \in {a, b} /\ Max({a, b}) >= a /\ Max({a, b}) >= b
<1>1. \E x \in {a, b} : \A y \in {a, b} : x >= y
  <2>1. CASE a >= b
    BY <2>1
  <2>2. CASE b >= a
    BY <2>2
  <2> QED BY <2>1, <2>2
<1>2. Max({a, b}) \in {a, b} /\ \A y \in {a, b} : Max({a, b}) >= y
  BY <1>1 DEF Max
<1> QED BY <1>2

\* One recorder goes on.
LEMMA RecorderPut ==
  ASSUME DaemonInv, NEW d \in Processes, NEW r \in RecShape, Later,
         UNCHANGED <<wall, session, sock, proc, client, tail>>, rec' = [rec EXCEPT ![d] = r],
         rec[d].on # "no", r.t0 = rec[d].t0, r.base >= 0,
         r.base + r.produced <= wall - r.t0, r.end <= wall - r.t0,
         r.on \in {"running", "waiting"} => rec[d].on \in {"running", "waiting"} /\ r.rapid < MaxRapid,
         Ahead => /\ r.on = "running" => session[proc[d].sid].pos <= r.base + r.produced
                  /\ r.on = "waiting" => session[proc[d].sid].pos <= r.end
  PROVE  DaemonKept
<1>1. DaemonTyped /\ Belongs /\ Bounded /\ Timed
  BY DEF DaemonInv
<1>2. rec'[d] = r /\ \A e \in Processes \ {d} : rec'[e] = rec[e]
  BY <1>1 DEF DaemonTyped
<1>3. DaemonTyped'
  BY <1>1 DEF DaemonTyped, Later
<1>4. Sessions' = Sessions
  BY DEF Sessions
<1>5. Belongs'
  <2>1. \A e \in Processes : rec'[e].on # "no" => proc'[e].at = "recording"
    BY <1>1, <1>2 DEF Belongs
  <2>2. \A e \in Processes : rec'[e].on \in {"running", "waiting"} => rec'[e].rapid < MaxRapid
    BY <1>1, <1>2 DEF Belongs
  <2> QED BY <1>1, <2>1, <2>2 DEF Belongs, Open
<1>6. Timed'
  <2>1. ASSUME NEW e \in Processes, rec'[e].on # "no"
        PROVE  /\ rec'[e].t0 = session'[proc'[e].sid].started
               /\ rec'[e].base + rec'[e].produced <= wall' - rec'[e].t0 /\ rec'[e].end <= wall' - rec'[e].t0
               /\ rec'[e].base >= 0
    <3>1. CASE e = d
      BY <1>1, <1>2, <3>1 DEF Timed
    <3>2. CASE e # d
      BY <1>1, <1>2, <2>1, <3>2 DEF Timed
    <3> QED BY <3>1, <3>2
  <2> QED BY <1>1, <1>4, <2>1 DEF Timed
<1>7. Bounded'
  <2>1. \A s \in Sessions : Able(s)' \subseteq Able(s)
    <3> SUFFICES ASSUME NEW s \in Sessions, NEW e \in Able(s)' PROVE e \in Able(s)
      OBVIOUS
    <3>1. e \in Processes /\ proc' = proc
      BY DEF Able
    <3>2. rec'[e].on \in {"running", "waiting"} => rec[e].on \in {"running", "waiting"}
      BY <1>2, <3>1
    <3> QED BY <3>1, <3>2 DEF Able
  <2>2. jolts'["start"] \in Nat /\ jolts'["start"] >= jolts["start"]
    BY DEF Later, DaemonEvents
  <2>3. \A s \in Sessions : session'[s].unacked \in Nat /\ session'[s].unacked <= session[s].unacked
    BY <1>1, SessionParts
  <2>4. Fewer
    BY <1>4, <2>1, <2>2, <2>3 DEF Fewer, Alive
  <2> QED BY <1>1, <2>4, BoundedKept
<1>8. Reached => Reached'
  BY DEF Reached
<1>9. Ahead => Ahead'
  BY <1>2 DEF Ahead
<1>10. Noted => Noted'
  BY <1>4 DEF Noted, Open
<1>11. PosStep
  BY <1>1, SessionParts DEF PosStep
<1> QED BY <1>3, <1>5, <1>6, <1>7, <1>8, <1>9, <1>10, <1>11, Assembled DEF Undisturbed, Trusted

LEMMA RecorderDiesKeeps == ASSUME DaemonInv, NEW d \in Processes, RecorderDies(d) PROVE DaemonKept
<1>1. DaemonTyped /\ Belongs /\ Timed
  BY DEF DaemonInv
<1>2. Later
  BY <1>1, JoltsLater DEF RecorderDies, DaemonTyped, DaemonEvents
<1>3. PICK rapid \in {0, rec[d].rapid + 1} :
        rec' = [rec EXCEPT ![d].end = Max({@, rec[d].base + rec[d].produced}), ![d].rapid = rapid,
                           ![d].on = IF rapid >= MaxRapid THEN "failed" ELSE "waiting"]
  BY DEF RecorderDies
<1>4. rec[d].on = "running" /\ UNCHANGED <<wall, session, sock, proc, client, tail>>
  BY DEF RecorderDies
<1>5. PICK end : end = Max({rec[d].end, rec[d].base + rec[d].produced})
  OBVIOUS
<1>6. PICK on : on = IF rapid >= MaxRapid THEN "failed" ELSE "waiting"
  OBVIOUS
<1>7. PICK r : r = [[[rec[d] EXCEPT !.end = end] EXCEPT !.rapid = rapid] EXCEPT !.on = on]
  OBVIOUS
<1>8. rec' = [rec EXCEPT ![d] = r]
  BY <1>1, <1>3, <1>5, <1>6, <1>7 DEF DaemonTyped, RecShape
<1>9. /\ rec[d] \in RecShape /\ rec[d].t0 \in Int /\ rec[d].base \in Int /\ rec[d].produced \in Nat /\ rec[d].end \in Int
      /\ rec[d].rapid \in 0..MaxRapid /\ MaxRapid \in Nat /\ MaxRapid > 0
  BY <1>1, RecParts, DaemonConfigured
<1>10. end \in {rec[d].end, rec[d].base + rec[d].produced} /\ end >= rec[d].base + rec[d].produced /\ end \in Int
  <2>1. PICK a \in Int, b \in Int : a = rec[d].end /\ b = rec[d].base + rec[d].produced
    BY <1>9
  <2>2. end = Max({a, b})
    BY <1>5, <2>1
  <2>3. end \in {a, b} /\ end >= a /\ end >= b
    BY <2>2, GreaterOf
  <2> QED BY <2>1, <2>3
<1>11. rec[d].rapid < MaxRapid
  BY <1>1, <1>4 DEF Belongs
<1>12. rapid \in 0..MaxRapid
  BY <1>9, <1>11
<1>13. /\ r \in RecShape /\ r.t0 = rec[d].t0 /\ r.base = rec[d].base /\ r.produced = rec[d].produced
       /\ r.end = end /\ r.on = on /\ r.rapid = rapid
  BY <1>6, <1>7, <1>9, <1>10, <1>12 DEF RecShape
<1>14. /\ rec[d].base + rec[d].produced <= wall - rec[d].t0 /\ rec[d].end <= wall - rec[d].t0 /\ rec[d].base >= 0
  BY <1>1, <1>4 DEF Timed
<1>15. r.base + r.produced <= wall - r.t0 /\ r.end <= wall - r.t0 /\ r.base >= 0
  BY <1>10, <1>13, <1>14
<1>16. on \in {"running", "waiting"} => rapid < MaxRapid /\ on = "waiting"
  BY <1>6, <1>9, <1>12
<1>17. ASSUME Ahead, r.on = "waiting" PROVE session[proc[d].sid].pos <= r.end
  <2>1. session[proc[d].sid].pos <= rec[d].base + rec[d].produced
    BY <1>4, <1>17 DEF Ahead
  <2>2. session[proc[d].sid].pos \in Nat
    BY <1>1, <1>4, Owns, SessionParts DEF Belongs, Open
  <2> QED BY <1>9, <1>10, <1>13, <2>1, <2>2
<1>18. r.on # "running"
  BY <1>6, <1>13
<1> QED BY <1>2, <1>4, <1>8, <1>13, <1>15, <1>16, <1>17, <1>18, RecorderPut

LEMMA RecorderRestartsKeeps == ASSUME DaemonInv, NEW d \in Processes, RecorderRestarts(d) PROVE DaemonKept
<1>1. DaemonTyped /\ Belongs /\ Timed
  BY DEF DaemonInv
<1>2. Later
  BY <1>1, NotLater DEF RecorderRestarts, DaemonTyped
<1>3. rec[d].on = "waiting" /\ UNCHANGED <<wall, session, sock, proc, client, tail>>
  BY DEF RecorderRestarts
<1>4. PICK base : base = Max({rec[d].end, wall - rec[d].t0})
  OBVIOUS
<1>5. PICK r : r = [[[rec[d] EXCEPT !.on = "running"] EXCEPT !.base = base] EXCEPT !.produced = 0]
  OBVIOUS
<1>6. rec' = [rec EXCEPT ![d] = r]
  BY <1>1, <1>4, <1>5 DEF RecorderRestarts, NextBase, DaemonTyped, RecShape
<1>7. /\ rec[d] \in RecShape /\ rec[d].t0 \in Int /\ rec[d].base \in Int /\ rec[d].produced \in Nat /\ rec[d].end \in Int
      /\ wall \in Nat
  BY <1>1, RecParts, DaemonConfigured DEF DaemonTyped
<1>8. base \in {rec[d].end, wall - rec[d].t0} /\ base >= rec[d].end /\ base >= wall - rec[d].t0 /\ base \in Int
  <2>1. PICK a \in Int, b \in Int : a = rec[d].end /\ b = wall - rec[d].t0
    BY <1>7
  <2>2. base = Max({a, b})
    BY <1>4, <2>1
  <2>3. base \in {a, b} /\ base >= a /\ base >= b
    BY <2>2, GreaterOf
  <2> QED BY <2>1, <2>3
<1>9. r \in RecShape /\ r.t0 = rec[d].t0 /\ r.base = base /\ r.produced = 0 /\ r.end = rec[d].end /\ r.on = "running" /\ r.rapid = rec[d].rapid
  BY <1>5, <1>7, <1>8 DEF RecShape
<1>10. /\ rec[d].base + rec[d].produced <= wall - rec[d].t0 /\ rec[d].end <= wall - rec[d].t0 /\ rec[d].base >= 0
  BY <1>1, <1>3 DEF Timed
<1>11. r.base + r.produced <= wall - r.t0 /\ r.end <= wall - r.t0 /\ r.base >= 0
  BY <1>7, <1>8, <1>9, <1>10
<1>12. r.rapid < MaxRapid
  BY <1>1, <1>3, <1>9 DEF Belongs
<1>13. ASSUME Ahead PROVE session[proc[d].sid].pos <= r.base + r.produced
  <2>1. session[proc[d].sid].pos <= rec[d].end
    BY <1>3, <1>13 DEF Ahead
  <2>2. session[proc[d].sid].pos \in Nat
    BY <1>1, <1>3, Owns, SessionParts DEF Belongs, Open
  <2> QED BY <1>7, <1>8, <1>9, <2>1, <2>2
<1> QED BY <1>2, <1>3, <1>6, <1>9, <1>11, <1>12, <1>13, RecorderPut

LEMMA FrameKeeps == ASSUME DaemonInv, NEW d \in Processes, Frame(d) PROVE DaemonKept
<1>1. DaemonTyped /\ Belongs /\ Bounded /\ Timed
  BY DEF DaemonInv
<1>2. Later
  BY <1>1, NotLater DEF Frame, DaemonTyped
<1>3. rec[d].on = "running" /\ UNCHANGED <<wall, sock, proc, client, tail, jolts>>
  BY DEF Frame
<1>4. proc[d].at = "recording" /\ Open(d)
  BY <1>1, <1>3 DEF Belongs, Open
<1>5. PICK s \in Sessions : s = proc[d].sid
  BY <1>4, Owns
<1>6. /\ rec[d] \in RecShape /\ rec[d].t0 \in Int /\ rec[d].base \in Int /\ rec[d].produced \in Nat /\ rec[d].end \in Int
      /\ wall \in Nat /\ wall <= MaxClock /\ MaxClock \in Nat
  BY <1>1, RecParts, DaemonConfigured DEF DaemonTyped
<1>7. PICK at \in Int : at = rec[d].base + rec[d].produced
  BY <1>6
<1>8. /\ rec[d].t0 = session[s].started /\ at <= wall - rec[d].t0 /\ rec[d].end <= wall - rec[d].t0 /\ rec[d].base >= 0
  BY <1>1, <1>3, <1>5, <1>7 DEF Timed
<1>9. at < wall - rec[d].t0
  BY <1>7 DEF Frame
<1>10. /\ session[s] \in SessionShape /\ session[s].started \in Nat /\ session[s].unacked \in Nat /\ session[s].pos \in Nat
       /\ session[s].over \in BOOLEAN /\ session[s].late \in BOOLEAN
  BY <1>1, SessionParts
<1>11. at + 1 \in 0..MaxClock /\ at + 1 <= wall - session[s].started
  BY <1>6, <1>7, <1>8, <1>9, <1>10
<1>12. PICK late \in BOOLEAN : late = (session[s].late \/ session[s].over)
  OBVIOUS
<1>13. PICK x : x = [[[session[s] EXCEPT !.pos = at + 1] EXCEPT !.unacked = @ + 1] EXCEPT !.late = late]
  OBVIOUS
<1>14. session' = [session EXCEPT ![s] = x]
  <2>1. session' = [session EXCEPT ![s].pos = at + 1, ![s].unacked = @ + 1, ![s].late = @ \/ session[s].over]
    BY <1>5, <1>7 DEF Frame
  <2>2. s \in DOMAIN session
    BY DEF Sessions
  <2> QED BY <1>10, <1>12, <1>13, <2>1, <2>2 DEF SessionShape
<1>15. /\ x \in SessionShape /\ x.started = session[s].started /\ x.pos = at + 1 /\ x.unacked = session[s].unacked + 1
       /\ x.over = session[s].over /\ x.ended = session[s].ended /\ x.late = late
  <2>1. session[s].unacked + 1 \in Nat
    BY <1>10
  <2> QED BY <1>10, <1>11, <1>13, <2>1 DEF SessionShape
<1>16. /\ session' \in Seq(SessionShape) /\ Len(session') = Len(session) /\ Sessions' = Sessions
       /\ session'[s] = x /\ \A t \in Sessions : t # s => session'[t] = session[t]
  BY <1>1, <1>14, <1>15, SessionPut
<1>17. PICK on : on = IF Full(s) THEN "failed" ELSE rec[d].on
  OBVIOUS
<1>18. PICK r : r = [[rec[d] EXCEPT !.produced = @ + 1] EXCEPT !.on = on]
  OBVIOUS
<1>19. rec' = [rec EXCEPT ![d] = r]
  BY <1>1, <1>5, <1>6, <1>17, <1>18 DEF Frame, DaemonTyped, RecShape
<1>20. /\ r \in RecShape /\ r.t0 = rec[d].t0 /\ r.base = rec[d].base /\ r.produced = rec[d].produced + 1
       /\ r.end = rec[d].end /\ r.on = on /\ r.rapid = rec[d].rapid
  <2>1. rec[d].produced + 1 \in Nat /\ on \in {"running", "failed"}
    BY <1>3, <1>6, <1>17
  <2> QED BY <1>6, <1>18, <2>1 DEF RecShape
<1>21. rec'[d] = r /\ \A e \in Processes \ {d} : rec'[e] = rec[e]
  BY <1>1, <1>19 DEF DaemonTyped
<1>22. rec' \in [Processes -> RecShape]
  BY <1>1, <1>19, <1>20 DEF DaemonTyped
<1>23. DaemonTyped'
  BY <1>1, <1>3, <1>16, <1>22 DEF DaemonTyped
<1>24. Belongs'
  <2>1. \A e \in Processes : rec'[e].on # "no" => proc'[e].at = "recording"
    BY <1>1, <1>3, <1>4, <1>21 DEF Belongs
  <2>2. \A e \in Processes : rec'[e].on \in {"running", "waiting"} => rec'[e].rapid < MaxRapid
    BY <1>1, <1>3, <1>20, <1>21 DEF Belongs
  <2> QED BY <1>1, <1>3, <1>16, <2>1, <2>2 DEF Belongs, Open
<1>25. Timed'
  <2>1. \A t \in Sessions' : session'[t].started <= wall' /\ session'[t].pos <= wall' - session'[t].started
    BY <1>1, <1>3, <1>11, <1>15, <1>16 DEF Timed
  <2>2. ASSUME NEW e \in Processes, rec'[e].on # "no"
        PROVE  /\ rec'[e].t0 = session'[proc'[e].sid].started
               /\ rec'[e].base + rec'[e].produced <= wall' - rec'[e].t0 /\ rec'[e].end <= wall' - rec'[e].t0
               /\ rec'[e].base >= 0
    <3>1. rec[e].on # "no"
      BY <1>3, <1>21, <2>2
    <3>2. session'[proc'[e].sid].started = session[proc[e].sid].started
      <4>1. proc[e].sid \in Sessions /\ proc' = proc
        BY <1>1, <1>3, <3>1, Owns DEF Belongs, Open
      <4> QED BY <1>15, <1>16, <4>1
    <3>3. CASE e = d
      <4>1. rec[d].base + (rec[d].produced + 1) <= wall - rec[d].t0
        BY <1>6, <1>7, <1>8, <1>9, <1>10
      <4> QED BY <1>3, <1>5, <1>8, <1>20, <1>21, <3>2, <3>3, <4>1
    <3>4. CASE e # d
      BY <1>1, <1>3, <1>21, <3>1, <3>2, <3>4 DEF Timed
    <3> QED BY <3>3, <3>4
  <2> QED BY <2>1, <2>2 DEF Timed
<1>26. Bounded'
  <2>1. Alive' = Alive /\ jolts["start"] \in Nat /\ MaxUnacked \in Nat
    BY <1>1, <1>3, DaemonConfigured DEF Alive, DaemonTyped, DaemonEvents
  <2>2. \A t : Able(t)' \subseteq Able(t)
    <3> SUFFICES ASSUME NEW t, NEW e \in Able(t)' PROVE e \in Able(t)
      OBVIOUS
    <3>1. e \in Processes
      BY DEF Able
    <3>2. rec'[e].on \in {"running", "waiting"} => rec[e].on \in {"running", "waiting"}
      BY <1>3, <1>21, <3>1
    <3> QED BY <1>3, <3>1, <3>2 DEF Able
  <2>3. ASSUME NEW t \in Sessions PROVE session'[t].unacked + Cardinality(Able(t)') <= MaxUnacked + jolts'["start"]
    <3>1. /\ IsFiniteSet(Able(t)) /\ Cardinality(Able(t)) \in Nat /\ Cardinality(Able(t)) <= jolts["start"]
      <4>1. Able(t) \subseteq Alive /\ IsFiniteSet(Alive) /\ Cardinality(Alive) <= jolts["start"]
        BY <1>1, AbleAlive DEF Bounded
      <4>2. IsFiniteSet(Able(t)) /\ Cardinality(Able(t)) <= Cardinality(Alive) /\ Cardinality(Alive) \in Nat /\ Cardinality(Able(t)) \in Nat
        BY <4>1, FS_Subset, FS_CardinalityType
      <4> QED BY <2>1, <4>1, <4>2
    <3>2. Cardinality(Able(t)') \in Nat /\ Cardinality(Able(t)') <= Cardinality(Able(t)) /\ IsFiniteSet(Able(t)')
      BY <2>2, <3>1, FS_Subset, FS_CardinalityType
    <3>3. session[t].unacked + Cardinality(Able(t)) <= MaxUnacked + jolts["start"] /\ session[t].unacked \in Nat
      BY <1>1, SessionParts DEF Bounded
    <3>4. CASE t # s
      <4>1. session'[t].unacked = session[t].unacked /\ jolts' = jolts
        BY <1>3, <1>16, <3>4
      <4>2. PICK u, p, q, j : u = session[t].unacked /\ p = Cardinality(Able(t)') /\ q = Cardinality(Able(t)) /\ j = jolts["start"]
        OBVIOUS
      <4>3. u \in Nat /\ p \in Nat /\ q \in Nat /\ j \in Nat /\ p <= q /\ u + q <= MaxUnacked + j
        BY ONLY <2>1, <3>1, <3>2, <3>3, <4>2
      <4>4. u + p <= MaxUnacked + j
        BY ONLY <2>1, <4>3
      <4> QED BY <4>1, <4>2, <4>4
    <3>5. CASE t = s /\ session[s].unacked + 1 <= MaxUnacked
      <4>1. session'[t].unacked = session[s].unacked + 1 /\ jolts' = jolts
        BY <1>3, <1>15, <1>16, <3>5
      <4> QED BY <1>10, <2>1, <3>1, <3>2, <3>5, <4>1
    <3>6. CASE t = s /\ ~(session[s].unacked + 1 <= MaxUnacked)
      <4>1. on = "failed"
        BY <1>10, <1>17, <2>1, <3>6 DEF Full
      <4>2. d \in Able(t) /\ d \notin Able(t)'
        BY <1>3, <1>4, <1>5, <1>20, <1>21, <3>6, <4>1 DEF Able
      <4>3. Able(t)' \subseteq Able(t) \ {d}
        BY <2>2, <4>2
      <4>4. Cardinality(Able(t) \ {d}) = Cardinality(Able(t)) - 1 /\ IsFiniteSet(Able(t) \ {d})
        BY <3>1, <4>2, FS_RemoveElement
      <4>5. Cardinality(Able(t)') <= Cardinality(Able(t)) - 1
        BY <4>3, <4>4, FS_Subset
      <4>6. session'[t].unacked = session[t].unacked + 1 /\ jolts' = jolts
        BY <1>3, <1>15, <1>16, <3>6
      <4> QED BY <2>1, <3>1, <3>2, <3>3, <4>5, <4>6
    <3> QED BY <3>4, <3>5, <3>6
  <2> QED BY <1>1, <1>3, <1>16, <2>1, <2>3 DEF Bounded
<1>27. Reached => Reached'
  BY <1>3 DEF Reached
\* With one process serving, no other recorder runs.
<1>28. ASSUME Undisturbed PROVE \A e \in Processes \ {d} : rec[e].on = "no"
  <2>1. ASSUME NEW e \in Processes \ {d}, rec[e].on # "no" PROVE FALSE
    <3>1. proc[e].at = "recording"
      BY <1>1, <2>1 DEF Belongs
    <3> QED BY <1>1, <1>4, <1>28, <2>1, <3>1, OneServes DEF Serving
  <2> QED BY <2>1
<1>29. ASSUME Undisturbed PROVE Ahead'
  <2>1. ASSUME NEW e \in Processes
        PROVE  /\ rec'[e].on = "running" => session'[proc'[e].sid].pos <= rec'[e].base + rec'[e].produced
               /\ rec'[e].on = "waiting" => session'[proc'[e].sid].pos <= rec'[e].end
    <3>1. CASE e = d
      <4>1. rec'[e].on # "waiting" /\ session'[proc'[e].sid].pos = at + 1
        BY <1>3, <1>5, <1>15, <1>16, <1>17, <1>20, <1>21, <3>1
      <4>2. rec'[e].base + rec'[e].produced = at + 1
        BY <1>6, <1>7, <1>20, <1>21, <3>1
      <4> QED BY <4>1, <4>2, <1>7
    <3>2. CASE e # d
      BY <1>21, <1>28, <1>29, <3>2
    <3> QED BY <3>1, <3>2
  <2> QED BY <2>1 DEF Ahead
<1>30. ASSUME Trusted PROVE Noted'
  <2>1. Noted /\ ~session[s].over /\ ~session[s].late /\ ~late
    BY <1>4, <1>5, <1>12, <1>30 DEF Trusted, Noted
  <2>2. SameEnds
    <3>1. \A t \in Sessions : /\ session'[t].over = session[t].over /\ session'[t].ended = session[t].ended
                              /\ session'[t].late = session[t].late
      <4>1. late = FALSE /\ session[s].late = FALSE
        BY <1>10, <2>1
      <4>2. x.over = session[s].over /\ x.ended = session[s].ended /\ x.late = session[s].late
        BY <1>15, <4>1
      <4> QED BY <1>16, <4>2
    <3> QED BY <1>3, <1>16, <3>1 DEF SameEnds, Open
  <2> QED BY <1>1, <2>1, <2>2, NotedKept
<1>31. PosStep
  <2>1. ASSUME jolts["race"] = 0 PROVE session[s].pos <= at
    <3>1. Ahead
      BY <2>1 DEF DaemonInv
    <3> QED BY <1>3, <1>5, <1>7, <3>1 DEF Ahead
  <2>2. \A t \in Sessions : t # s => session'[t].pos = session[t].pos /\ session[t].pos \in Nat
    BY <1>1, <1>16, SessionParts
  <2>3. jolts["race"] = 0 => session'[s].pos >= session[s].pos
    BY <1>10, <1>15, <1>16, <2>1
  <2> QED BY <2>2, <2>3 DEF PosStep
<1> QED BY <1>2, <1>23, <1>24, <1>25, <1>26, <1>27, <1>29, <1>30, <1>31, Assembled DEF Undisturbed

\* The greatest of some sessions.
LEMMA NewestSession ==
  ASSUME NEW n \in Nat, NEW S \in SUBSET (1..n), S # {}
  PROVE  Max(S) \in S
<1>1. S \subseteq Nat
  OBVIOUS
<1> DEFINE T == {n - x : x \in S}
<1>2. T \in SUBSET Nat /\ T # {}
  <2>1. \A x \in S : n - x \in Nat
    OBVIOUS
  <2> QED BY <2>1
<1> DEFINE Less == {ss \in Nat \X Nat : ss[1] < ss[2]}
<1>3. IsWellFoundedOn(Less, Nat)
  BY NatLessThanWellFounded, Zenon DEF OpToRel
<1>4. PICK m \in T : \A y \in T : ~(<<y, m>> \in Less)
  BY <1>2, <1>3, WFMin
<1>5. PICK x \in S : m = n - x
  BY <1>4
<1>6. ASSUME NEW y \in S PROVE x >= y
  <2>1. n - y \in T /\ n - y \in Nat /\ m \in Nat /\ y \in Nat /\ x \in Nat
    BY <1>1, <1>2
  <2>2. ~(<<n - y, m>> \in Less)
    BY <1>4, <2>1
  <2>3. ~(n - y < m)
    BY <2>1, <2>2
  <2> QED BY <1>5, <2>1, <2>3
<1> QED BY <1>6 DEF Max

\* What the recorder of a session that is opened is.
Opened(d, s, from) ==
  /\ rec' = [rec EXCEPT ![d] = [NoRec EXCEPT !.on = "running", !.t0 = wall - from, !.start = from, !.base = from, !.end = from]]
  /\ proc' \in [Processes -> ProcShape] /\ proc'[d].at = "recording" /\ proc'[d].sid = s /\ ~proc'[d].resume
  /\ \A e \in Processes \ {d} : proc'[e] = proc[e]
LEMMA RecordsOpens ==
  ASSUME DaemonTyped, NEW d \in Processes, NEW s \in Nat, NEW from, Records(d, s, from)
  PROVE  Opened(d, s, from)
<1>1. PICK p : p = [[[[[[[proc[d] EXCEPT !.at = "recording"] EXCEPT !.sid = s] EXCEPT !.resume = FALSE] EXCEPT !.rolled = FALSE]
                       EXCEPT !.voice = FALSE] EXCEPT !.ask = FALSE] EXCEPT !.history = 0]
  OBVIOUS
<1>2. proc[d] \in ProcShape
  BY DEF DaemonTyped
<1>3. p \in ProcShape /\ p.at = "recording" /\ p.sid = s /\ p.resume = FALSE
  BY <1>1, <1>2 DEF ProcShape, Stages, Serving
<1>4. proc' = [proc EXCEPT ![d] = p]
  BY <1>1, <1>2 DEF Records, DaemonTyped, ProcShape
<1>5. proc' \in [Processes -> ProcShape] /\ proc'[d] = p /\ \A e \in Processes \ {d} : proc'[e] = proc[e]
  BY <1>3, <1>4 DEF DaemonTyped
<1> QED BY <1>3, <1>5 DEF Records, Opened

\* A session is opened, new or again, where its time has come to.
LEMMA OpenedKeeps ==
  ASSUME DaemonInv, NEW d \in Processes, NEW s \in Nat, Later, proc[d].at = "opening",
         UNCHANGED <<wall, sock, client, tail, jolts>>, Opened(d, s, wall - session'[s].started),
         session' \in Seq(SessionShape), Len(session') \in {Len(session), Len(session) + 1}, Len(session') <= MaxSessions,
         \A t \in Sessions : session'[t] = session[t],
         s \in 1..Len(session'), session'[s].started <= wall, session'[s].pos <= wall - session'[s].started,
         s \in Sessions => proc[d].resume /\ Len(session') = Len(session) /\ ~session[s].ended,
         s \notin Sessions => /\ s = Len(session) + 1 /\ Len(session') = s
                              /\ session'[s].unacked = 0 /\ ~session'[s].over /\ ~session'[s].late
  PROVE  DaemonKept
<1>1. DaemonTyped /\ Belongs /\ Bounded /\ Timed
  BY DEF DaemonInv
<1>2. /\ Sessions = 1..Len(session) /\ Len(session) \in Nat /\ Sessions' = 1..Len(session') /\ Len(session') \in Nat
      /\ Sessions \subseteq Sessions' /\ s \in Sessions'
  BY <1>1, SessionParts DEF Sessions
<1>3. \A t \in Sessions' : t \in Sessions \/ t = s
  BY <1>2
<1>4. \A t \in Sessions' :
         /\ session'[t] \in SessionShape /\ session'[t].started \in Nat /\ session'[t].pos \in Nat /\ session'[t].unacked \in Nat
  <2>1. \A t \in Sessions' : session'[t] \in SessionShape
    BY <1>2
  <2>2. \A x \in SessionShape : x.started \in Nat /\ x.pos \in Nat /\ x.unacked \in Nat
    BY DaemonConfigured DEF SessionShape
  <2> QED BY <2>1, <2>2
<1>5. PICK from \in Nat : from = wall - session'[s].started /\ wall - from = session'[s].started
  <2>1. wall \in Nat /\ session'[s].started \in Nat
    BY <1>1, <1>2, <1>4, DaemonConfigured DEF DaemonTyped
  <2>2. wall - session'[s].started \in Nat /\ wall - (wall - session'[s].started) = session'[s].started
    BY <2>1
  <2> QED BY <2>2
<1>6. PICK r : r = [NoRec EXCEPT !.on = "running", !.t0 = wall - from, !.start = from, !.base = from, !.end = from]
  OBVIOUS
<1>7. rec' = [rec EXCEPT ![d] = r]
  BY <1>5, <1>6 DEF Opened
<1>8. /\ r \in RecShape /\ r.on = "running" /\ r.t0 = session'[s].started /\ r.base = from /\ r.end = from
      /\ r.produced = 0 /\ r.rapid = 0
  <2>1. wall - from \in Int /\ from \in Int /\ 0 \in 0..MaxRapid
    BY <1>1, <1>2, <1>4, <1>5, DaemonConfigured
  <2> QED BY <1>5, <1>6, <2>1 DEF NoRec, RecShape
<1>9. rec' \in [Processes -> RecShape] /\ rec'[d] = r /\ \A e \in Processes \ {d} : rec'[e] = rec[e]
  BY <1>1, <1>7, <1>8 DEF DaemonTyped
<1>10. /\ proc' \in [Processes -> ProcShape] /\ proc'[d].at = "recording" /\ proc'[d].sid = s /\ ~proc'[d].resume
       /\ \A e \in Processes \ {d} : proc'[e] = proc[e]
  BY DEF Opened
<1>11. DaemonTyped'
  BY <1>1, <1>9, <1>10 DEF DaemonTyped, Later
<1>12. Belongs'
  <2>1. \A e \in Processes : proc'[e].sid \in 0..Len(session')
    BY <1>1, <1>2, <1>10 DEF Belongs
  <2>2. \A e \in Processes : Open(e)' \/ proc'[e].at = "ended" => proc'[e].sid # 0 /\ ~proc'[e].resume
    BY <1>1, <1>2, <1>10 DEF Belongs, Open
  <2>3. \A e \in Processes : rec'[e].on # "no" => proc'[e].at = "recording"
    BY <1>1, <1>9, <1>10 DEF Belongs
  <2>4. \A e \in Processes : rec'[e].on \in {"running", "waiting"} => rec'[e].rapid < MaxRapid
    BY <1>1, <1>8, <1>9, DaemonConfigured DEF Belongs
  <2> QED BY <2>1, <2>2, <2>3, <2>4 DEF Belongs
\* Another process's session is one there was.
<1>13. ASSUME NEW e \in Processes \ {d}, Open(e) \/ proc[e].at = "ended"
       PROVE  proc'[e].sid = proc[e].sid /\ proc[e].sid \in Sessions /\ session'[proc'[e].sid] = session[proc[e].sid]
  BY <1>10, <1>13, Owns
<1>14. ASSUME NEW e \in Processes \ {d}, rec'[e].on # "no" PROVE rec'[e] = rec[e] /\ proc[e].at = "recording" /\ Open(e)
  BY <1>1, <1>9, <1>14 DEF Belongs, Open
<1>15. Timed'
  <2>1. \A t \in Sessions' : session'[t].started <= wall' /\ session'[t].pos <= wall' - session'[t].started
    BY <1>1, <1>3 DEF Timed
  <2>2. ASSUME NEW e \in Processes, rec'[e].on # "no"
        PROVE  /\ rec'[e].t0 = session'[proc'[e].sid].started
               /\ rec'[e].base + rec'[e].produced <= wall' - rec'[e].t0 /\ rec'[e].end <= wall' - rec'[e].t0
               /\ rec'[e].base >= 0
    <3>1. CASE e = d
      BY <1>5, <1>8, <1>9, <1>10, <3>1
    <3>2. CASE e # d
      BY <1>1, <1>13, <1>14, <2>2, <3>2 DEF Timed
    <3> QED BY <3>1, <3>2
  <2> QED BY <2>1, <2>2 DEF Timed
<1>16. Bounded'
  <2>1. Alive' = Alive
    BY <1>10 DEF Alive
  <2>2. /\ jolts["start"] \in Nat /\ MaxUnacked \in Nat /\ jolts' = jolts
    BY <1>1, DaemonConfigured DEF DaemonTyped, DaemonEvents
  <2>3. ASSUME NEW t \in Sessions', t # s \/ s \in Sessions PROVE Able(t)' \subseteq Able(t) /\ t \in Sessions
    <3>1. t \in Sessions
      BY <1>3, <2>3
    <3>2. ASSUME NEW e \in Able(t)' PROVE e \in Able(t)
      <4>1. e \in Processes
        BY <3>2 DEF Able
      <4>2. CASE e # d
        BY <1>9, <1>10, <3>2, <4>1, <4>2 DEF Able
      <4>3. CASE e = d
        <5>1. t = s
          BY <1>10, <3>2, <4>3 DEF Able
        <5>2. proc[d].resume
          BY <2>3, <5>1
        <5> QED BY <4>1, <4>3, <5>2 DEF Able
      <4> QED BY <4>2, <4>3
    <3> QED BY <3>1, <3>2
  <2>4. ASSUME NEW t \in Sessions' PROVE session'[t].unacked + Cardinality(Able(t)') <= MaxUnacked + jolts["start"]
    <3>1. CASE t # s \/ s \in Sessions
      <4>1. Able(t)' \subseteq Able(t) /\ t \in Sessions
        BY <2>3, <3>1
      <4>2. IsFiniteSet(Able(t)) /\ session[t].unacked + Cardinality(Able(t)) <= MaxUnacked + jolts["start"]
        BY <1>1, <4>1, AbleAlive, FS_Subset DEF Bounded
      <4>3. /\ Cardinality(Able(t)') <= Cardinality(Able(t)) /\ Cardinality(Able(t)) \in Nat /\ Cardinality(Able(t)') \in Nat
        BY <4>1, <4>2, FS_Subset, FS_CardinalityType
      <4>4. session'[t].unacked = session[t].unacked /\ session[t].unacked \in Nat
        BY <1>1, <4>1, SessionParts
      <4> QED BY ONLY <2>2, <4>2, <4>3, <4>4
    <3>2. CASE t = s /\ s \notin Sessions
      <4>1. Able(s)' \subseteq Alive'
        <5>1. \A e \in Processes : rec'[e].on \in {"running", "waiting"} => proc'[e].at # "off"
          BY <1>12 DEF Belongs
        <5>2. ASSUME NEW e \in Able(s)' PROVE e \in Alive'
          BY <5>1, <5>2 DEF Able, Alive
        <5> QED BY <5>2
      <4>2. IsFiniteSet(Alive) /\ Cardinality(Alive) <= jolts["start"]
        BY <1>1 DEF Bounded
      <4>3. Cardinality(Able(s)') <= Cardinality(Alive) /\ Cardinality(Alive) \in Nat /\ Cardinality(Able(s)') \in Nat
        BY <2>1, <4>1, <4>2, FS_Subset, FS_CardinalityType
      <4>4. session'[s].unacked = 0
        BY <3>2
      <4> QED BY <2>2, <3>2, <4>2, <4>3, <4>4
    <3> QED BY <3>1, <3>2
  <2> QED BY <1>1, <2>1, <2>2, <2>4 DEF Bounded
<1>17. Reached => Reached'
  <2>1. ASSUME Reached, NEW e \in Processes, proc'[e].at \in Serving \cup {"closing"} PROVE sock' = e
    <3>1. proc[e].at \in Serving \cup {"closing"}
      BY <1>10, <2>1 DEF Serving
    <3> QED BY <2>1, <3>1 DEF Reached
  <2> QED BY <2>1 DEF Reached
<1>18. Ahead => Ahead'
  <2>1. ASSUME Ahead, NEW e \in Processes
        PROVE  /\ rec'[e].on = "running" => session'[proc'[e].sid].pos <= rec'[e].base + rec'[e].produced
               /\ rec'[e].on = "waiting" => session'[proc'[e].sid].pos <= rec'[e].end
    <3>1. CASE e = d
      BY <1>5, <1>8, <1>9, <1>10, <3>1
    <3>2. CASE e # d
      BY <1>13, <1>14, <2>1, <3>2 DEF Ahead
    <3> QED BY <3>1, <3>2
  <2> QED BY <2>1 DEF Ahead
<1>19. ASSUME Trusted PROVE Noted'
  <2>1. Noted /\ Undisturbed
    BY <1>19 DEF Trusted
  <2>2. \A e \in Processes : ~Open(e) /\ proc[e].at # "ended"
    BY <1>1, <2>1, OneServes DEF Open, Serving
  <2>3. ~session'[s].over
    BY <2>1, <2>2 DEF Noted
  <2>4. \A t \in Sessions' : ~session'[t].late
    BY <1>3, <2>1 DEF Noted
  <2>5. \A t \in Sessions' : session'[t].over => session'[t].ended
    BY <1>3, <2>1, <2>2, <2>3 DEF Noted
  <2>6. ASSUME NEW e \in Processes, Open(e)' PROVE ~session'[proc'[e].sid].over
    BY <1>10, <2>2, <2>3, <2>6 DEF Open
  <2>7. \A e \in Processes : proc'[e].at # "ended"
    BY <1>10, <2>2
  <2> QED BY <2>4, <2>5, <2>6, <2>7 DEF Noted
<1>20. PosStep
  BY <1>1, SessionParts DEF PosStep
<1> QED BY <1>11, <1>12, <1>15, <1>16, <1>17, <1>18, <1>19, <1>20, Assembled DEF Undisturbed

LEMMA OpenSessionKeeps == ASSUME DaemonInv, NEW d \in Processes, OpenSession(d) PROVE DaemonKept
<1>1. DaemonTyped /\ Belongs /\ Timed
  BY DEF DaemonInv
<1>2. Later
  BY <1>1, NotLater, JoltsLater DEF OpenSession, DaemonTyped, DaemonEvents
<1>3. proc[d].at = "opening" /\ UNCHANGED <<wall, sock, client, tail>>
  BY DEF OpenSession
<1>4. /\ session \in Seq(SessionShape) /\ Len(session) <= MaxSessions /\ wall \in 0..MaxClock /\ wall \in Nat
      /\ Sessions = 1..Len(session) /\ Len(session) \in Nat
  BY <1>1, SessionParts, DaemonConfigured DEF DaemonTyped
<1>5. CASE proc[d].resume /\ Resumable # {} /\ Records(d, Max(Resumable), ResumeAt(Max(Resumable))) /\ UNCHANGED <<session, jolts>>
  <2>1. PICK s \in Resumable : s = Max(Resumable)
    <3>1. Resumable \subseteq 1..Len(session)
      BY <1>4 DEF Resumable
    <3> QED BY <1>4, <1>5, <3>1, NewestSession
  <2>2. s \in Sessions /\ ~session[s].ended
    BY DEF Resumable
  <2>3. ResumeAt(s) = wall - session[s].started
    <3>1. PICK a \in Int, b \in Int : a = (IF session[s].unacked > 0 THEN session[s].pos ELSE 0) /\ b = wall - session[s].started
      BY <1>1, <1>4, <2>2, SessionParts
    <3>2. session[s].pos <= wall - session[s].started /\ session[s].pos \in Nat /\ session[s].started \in Nat /\ 0 <= wall - session[s].started
      BY <1>1, <1>4, <2>2, SessionParts DEF Timed
    <3>3. a <= b
      BY <3>1, <3>2
    <3>4. Max({a, b}) \in {a, b} /\ Max({a, b}) >= b
      BY GreaterOf
    <3>5. Max({a, b}) = b
      BY <3>3, <3>4
    <3> QED BY <3>1, <3>5 DEF ResumeAt
  <2>4. Opened(d, s, wall - session'[s].started)
    BY <1>1, <1>4, <1>5, <2>1, <2>2, <2>3, RecordsOpens
  <2>5. session'[s].started <= wall /\ session'[s].pos <= wall - session'[s].started
    BY <1>1, <1>5, <2>2 DEF Timed
  <2> QED BY <1>2, <1>3, <1>4, <1>5, <2>2, <2>4, <2>5, OpenedKeeps
<1>6. CASE /\ Len(session) < MaxSessions
           /\ session' = Append(session, [started |-> wall, pos |-> 0, unacked |-> 0, over |-> FALSE, ended |-> FALSE, late |-> FALSE])
           /\ Records(d, Len(session) + 1, 0) /\ UNCHANGED jolts
  <2>1. PICK x : x = [started |-> wall, pos |-> 0, unacked |-> 0, over |-> FALSE, ended |-> FALSE, late |-> FALSE]
    OBVIOUS
  <2>2. x \in SessionShape /\ x.started = wall /\ x.pos = 0 /\ x.unacked = 0 /\ x.over = FALSE /\ x.late = FALSE
    BY <1>4, <2>1, DaemonConfigured DEF SessionShape
  <2>3. PICK s \in Nat : s = Len(session) + 1
    BY <1>4
  <2>4. /\ session' \in Seq(SessionShape) /\ Len(session') = s /\ session'[s] = x /\ \A t \in Sessions : session'[t] = session[t]
    BY <1>4, <1>6, <2>1, <2>2, <2>3
  <2>5. wall - session'[s].started = 0
    BY <1>4, <2>2, <2>4
  <2>6. Opened(d, s, wall - session'[s].started)
    BY <1>1, <1>6, <2>3, <2>5, RecordsOpens
  <2>7. Len(session') <= MaxSessions /\ s \in 1..Len(session') /\ s \notin Sessions
    BY <1>4, <1>6, <2>3, <2>4, DaemonConfigured
  <2>8. session'[s].started <= wall /\ session'[s].pos <= wall - session'[s].started
    BY <1>4, <2>2, <2>4
  <2> QED BY <1>2, <1>3, <1>6, <2>2, <2>3, <2>4, <2>6, <2>7, <2>8, OpenedKeeps
<1>7. CASE Moves(d, "closing") /\ UNCHANGED <<session, rec>>
  <2>1. /\ proc' \in [Processes -> ProcShape] /\ proc'[d].at = "closing" /\ proc'[d].sid = proc[d].sid
        /\ \A e \in Processes \ {d} : proc'[e] = proc[e]
    BY <1>1, <1>7, MoveTyped DEF Stages
  <2>2. DaemonTyped'
    BY <1>1, <1>2, <1>3, <1>7, <2>1 DEF DaemonTyped, Later
  <2>3. Shifts(d)
    BY <1>2, <1>3, <1>7, <2>1, NoRecorder DEF Shifts, Stages
  <2>4. Reached => Reached'
    BY <1>3, <2>1 DEF Reached, Serving
  <2> QED BY <1>3, <2>1, <2>2, <2>3, <2>4, ShiftsSettles DEF Undisturbed
<1> QED BY <1>5, <1>6, <1>7 DEF OpenSession

LEMMA DaemonStepKeeps == ASSUME DaemonInv, [DaemonNext]_daemonVars PROVE DaemonKept
<1>1. CASE DaemonNext
  <2>1. ASSUME NEW d \in Processes, DaemonStep(d) PROVE DaemonKept
    BY <2>1, ClaimKeeps, BindKeeps, OpenSessionKeeps, RecorderRestartsKeeps, AckedKeeps, WatchKeeps, EndSinkKeeps,
       SessionOverKeeps, CloseControlKeeps DEF DaemonStep
  <2>2. ASSUME NEW d \in Processes,
               \/ Start(d) \/ Frame(d) \/ RecorderDies(d) \/ WatchRoll(d) \/ WatchFailed(d) \/ Kill(d)
               \/ RequestStop(d) \/ Subscribe(d) \/ Pump(d) \/ Ask(d)
        PROVE  DaemonKept
    BY <2>2, StartKeeps, FrameKeeps, RecorderDiesKeeps, WatchKeeps, KillKeeps, RequestStopKeeps, SubscribeKeeps, PumpKeeps, AskKeeps
  <2> QED BY <1>1, <2>1, <2>2, SubscriberAddedKeeps, TickKeeps DEF DaemonNext
<1>2. CASE UNCHANGED daemonVars
  <2>1. DaemonTyped /\ UNCHANGED <<wall, session, sock, proc, rec, client, tail, jolts>>
    BY <1>2 DEF daemonVars, DaemonInv
  <2>2. DaemonTyped'
    BY <2>1 DEF DaemonTyped
  <2>3. Still
    BY <2>1, NotLater DEF Still, DaemonTyped
  <2> QED BY <2>2, <2>3, StillSettles
<1> QED BY <1>1, <1>2

\* What is asked of the daemon follows.
LEMMA DaemonFollows == DaemonInv => DaemonSound
<1> SUFFICES ASSUME DaemonInv PROVE DaemonSound
  OBVIOUS
<1>1. DaemonTyped /\ Belongs /\ Bounded
  BY DEF DaemonInv
<1>2. DaemonTypeOK
  <2>1. \A s \in Sessions : session[s] \in [started : 0..MaxClock, pos : 0..MaxClock, unacked : Nat,
                                            over : BOOLEAN, ended : BOOLEAN, late : BOOLEAN]
    BY <1>1, SessionParts DEF SessionShape
  <2>2. ASSUME NEW d \in Processes
        PROVE  /\ proc[d].at \in Serving \cup {"off", "claiming", "claimed", "closing"} /\ proc[d].sid \in 0..Len(session)
               /\ rec[d].on \in {"no", "running", "waiting", "failed"} /\ rec[d].rapid \in 0..MaxRapid
    BY <1>1, RecParts DEF Belongs, Stages
  <2>3. tail.of \in Processes \cup {"none"} /\ tail.stage \in {"no", "backlog", "live"}
    BY <1>1 DEF DaemonTyped, TailShape
  <2> QED BY <1>1, <2>1, <2>2, <2>3 DEF DaemonTypeOK, DaemonTyped
<1>3. jolts["race"] = 0 => OneDaemonReached
  BY DEF DaemonInv, Reached, OneDaemonReached, Open, Serving
<1>4. jolts["race"] = 0 => NothingAfterEnd
  BY DEF DaemonInv, NothingAfterEnd, Noted
<1>5. OutboxBounded
  <2>1. ASSUME NEW s \in Sessions PROVE session[s].unacked <= MaxUnacked + jolts["start"]
    <3>1. session[s].unacked + Cardinality(Able(s)) <= MaxUnacked + jolts["start"]
      BY <1>1 DEF Bounded
    <3>2. Cardinality(Able(s)) \in Nat
      BY <1>1, AbleAlive, FS_Subset, FS_CardinalityType DEF Bounded
    <3>3. session[s].unacked \in Nat /\ MaxUnacked \in Nat /\ jolts["start"] \in Nat
      BY <1>1, SessionParts, DaemonConfigured DEF DaemonTyped, DaemonEvents
    <3> QED BY <3>1, <3>2, <3>3
  <2> QED BY <2>1 DEF OutboxBounded
<1> QED BY <1>2, <1>3, <1>4, <1>5 DEF DaemonSound

\* As long as no two processes met between looking at the socket and having it, the one that has a
\* session can be reached; as long as none was killed or gave up waiting, nothing is recorded into
\* a session that is over; and the outbox's limit is passed by a frame for each start at most
\* (daemon.py, control.py): for any number of processes, sessions, frames, failures and limits.
THEOREM DaemonIsSound == DaemonInit /\ [][DaemonNext]_daemonVars => []DaemonSound
<1>1. DaemonInv /\ [DaemonNext]_daemonVars => DaemonInv'
  BY DaemonStepKeeps DEF DaemonKept
<1> QED BY <1>1, DaemonBegins, DaemonFollows, PTL

\* A session's frames go forward in time, over restarts of its recorder and of the daemon
\* (capture.py's next base, daemon.py's _open).
THEOREM DaemonGoesForward == DaemonInit /\ [][DaemonNext]_daemonVars => TimelineForward
<1>1. DaemonInv /\ [DaemonNext]_daemonVars => DaemonInv'
  BY DaemonStepKeeps DEF DaemonKept
<1>2. DaemonInv /\ [DaemonNext]_daemonVars => [PosStep]_daemonVars
  BY DaemonStepKeeps DEF DaemonKept
<1> QED BY <1>1, <1>2, DaemonBegins, PTL DEF TimelineForward, PosStep

-----------------------------------------------------------------------------
(* The capture API (CaptureApi.tla) *)

Words == {"prompt", "reply", "answer", "tool"}
NotifShape == [at : Nat, delivered : BOOLEAN, there : BOOLEAN]
TaskShape == [status : {"absent", "queued", "running", "done", "failed"}, messages : Seq(Words)]
ThreadShape == [task : AgentTasks, no : Nat, pc : {"start", "call", "tool", "done", "failed"}, send : Seq(Words),
                new : Seq(Words), first : BOOLEAN, iteration : 1..MaxIterations + 1]
RepoShape == [kind : {"none", "dir", "repo"}, branch : Branches \cup {"main"}, dirty : SUBSET Paths,
              commits : [Branches -> SUBSET Paths]]

Spent == capBudget \in [CaptureEvents -> Nat]

InboxInv ==
  /\ captures \in [Captures -> [pc : {"new", "heard", "write", "received", "refused"}, name : Names \cup {"none"}, mp3 : BOOLEAN]]
  /\ inbox \in [Names -> [text : Captures \cup {"none"}, audio : Captures \cup {"none"}]]

ToolInv == vault \subseteq Paths /\ workspace \in RepoShape

\* A file is what the memory is, as long as every save went well.
Kept(file, mem) == capBudget["unsaved"] = 0 => file = mem

\* What was handed out is cancelled or marked, so that no poll finds it again.
There(ns) == {n \in Notifs : ns[n].there}
NotifInv ==
  /\ {notifs, notifsFile} \subseteq [Notifs -> NotifShape] /\ handed \in Seq(Notifs) /\ clock \in 0..MaxTime
  /\ IsFiniteSet(There(notifs)) /\ IsFiniteSet(There(notifsFile))
  /\ Kept(notifsFile, notifs)
  /\ capBudget["unsaved"] = 0 =>
       /\ \A i \in DOMAIN handed : notifs[handed[i]].there => notifs[handed[i]].delivered
       /\ \A i, j \in DOMAIN handed : handed[i] = handed[j] => i = j

\* A thread's task waits for it, or was deleted.
ThreadOK(th) ==
  /\ th \in ThreadShape
  /\ th.pc \in {"start", "call", "tool"} => th.iteration <= MaxIterations
  /\ th.first => th.send # <<>>
Owned(th) == tasks[th.task].status \in {"queued", "running"} \/ (tasks[th.task].status = "absent" /\ th.task \in removed)
TaskInv ==
  /\ {tasks, tasksFile} \subseteq [AgentTasks -> TaskShape] /\ removed \subseteq AgentTasks
  /\ Kept(tasksFile, tasks)
  /\ \A th \in threads : ThreadOK(th) /\ Owned(th)
  /\ \A a, b \in threads : a.task = b.task => a = b
  /\ capBudget["unsaved"] = 0 => \A t \in removed : tasks[t].status = "absent"

CapInv == Spent /\ InboxInv /\ ToolInv /\ NotifInv /\ TaskInv

\* What is counted is only added to.
BudgetLater == Spent' /\ (capBudget'["unsaved"] = 0 => capBudget["unsaved"] = 0)

LEMMA CapSpendLater ==
  ASSUME Spent, NEW e \in CaptureEvents, CapSpend(e)
  PROVE  BudgetLater /\ (e = "unsaved" => capBudget'["unsaved"] # 0)
<1>1. capBudget' = [capBudget EXCEPT ![e] = @ + 1] /\ capBudget \in [CaptureEvents -> Nat] /\ "unsaved" \in CaptureEvents
  BY DEF CapSpend, Spent, CaptureEvents
<1>2. capBudget[e] \in Nat /\ capBudget["unsaved"] \in Nat /\ capBudget[e] + 1 \in Nat /\ capBudget[e] + 1 # 0
  BY <1>1
<1>3. capBudget' \in [CaptureEvents -> Nat] /\ capBudget'[e] # 0 /\ (e # "unsaved" => capBudget'["unsaved"] = capBudget["unsaved"])
  BY <1>1, <1>2
<1> QED BY <1>3 DEF BudgetLater, Spent

LEMMA CapIdle == ASSUME Spent, UNCHANGED capBudget PROVE BudgetLater
BY DEF BudgetLater, Spent

LEMMA InboxStill == ASSUME InboxInv, UNCHANGED inboxVars PROVE InboxInv'
BY DEF InboxInv, inboxVars
LEMMA ToolStill == ASSUME ToolInv, UNCHANGED toolVars PROVE ToolInv'
BY DEF ToolInv, toolVars
LEMMA NotifStill == ASSUME NotifInv, BudgetLater, UNCHANGED notifVars PROVE NotifInv'
<1>1. UNCHANGED <<clock, notifs, notifsFile, handed>>
  BY DEF notifVars
<1>2. There(notifs)' = There(notifs) /\ There(notifsFile)' = There(notifsFile)
  BY <1>1 DEF There
<1> QED BY <1>1, <1>2 DEF NotifInv, BudgetLater, Kept
LEMMA TaskStill == ASSUME TaskInv, BudgetLater, UNCHANGED taskVars PROVE TaskInv'
<1>1. UNCHANGED <<tasks, tasksFile, threads, removed>>
  BY DEF taskVars
<1> QED BY <1>1 DEF TaskInv, BudgetLater, Kept, Owned

LEMMA CaptureBegins == CaptureInit => CapInv
<1> SUFFICES ASSUME CaptureInit PROVE CapInv
  OBVIOUS
<1>1. Spent
  BY DEF CaptureInit, Spent
<1>2. InboxInv
  BY DEF CaptureInit, InboxInv, Nothing
<1>3. ToolInv
  BY DEF CaptureInit, ToolInv, NoRepo, RepoShape
<1>4. NotifInv
  <2>1. NoNotif \in NotifShape /\ ~NoNotif.there
    BY DEF NoNotif, NotifShape
  <2>2. notifs \in [Notifs -> NotifShape] /\ notifsFile = notifs /\ There(notifs) = {} /\ There(notifsFile) = {}
    BY <2>1 DEF CaptureInit, There
  <2>3. handed = <<>> /\ handed \in Seq(Notifs) /\ DOMAIN handed = {} /\ clock \in 0..MaxTime
    BY CaptureBounds DEF CaptureInit
  <2>4. IsFiniteSet({})
    BY FS_EmptySet
  <2> QED BY <2>2, <2>3, <2>4 DEF NotifInv, Kept
<1>5. TaskInv
  <2>1. NoTask \in TaskShape /\ NoTask.status = "absent"
    BY DEF NoTask, TaskShape
  <2> QED BY <2>1 DEF CaptureInit, TaskInv, Kept
<1> QED BY <1>1, <1>2, <1>3, <1>4, <1>5 DEF CapInv

-----------------------------------------------------------------------------
(* Voice notes and tools.                                                   *)

Rest == UNCHANGED <<notifVars, taskVars, toolVars>>
LEMMA RestStill == ASSUME CapInv, Rest, BudgetLater PROVE ToolInv' /\ NotifInv' /\ TaskInv'
BY ToolStill, NotifStill, TaskStill DEF CapInv, Rest

LEMMA NotesKeep ==
  ASSUME CapInv, NEW c \in Captures, Transcode(c) \/ WriteVoiceNote(c) \/ (\E n \in Names : Upload(c, n) \/ CaptureVoice(c, n))
  PROVE  CapInv'
<1>1. Rest /\ BudgetLater
  BY CapIdle, CapSpendLater DEF Rest, Transcode, WriteVoiceNote, Upload, CaptureVoice, CapInv, CaptureEvents
<1> DEFINE Pcs == {"new", "heard", "write", "received", "refused"}
           CapShape == [pc : Pcs, name : Names \cup {"none"}, mp3 : BOOLEAN]
<1>2. captures \in [Captures -> CapShape] /\ inbox \in [Names -> [text : Captures \cup {"none"}, audio : Captures \cup {"none"}]]
  BY DEF CapInv, InboxInv
<1>3. captures[c] \in CapShape
  BY <1>2
<1>4. CASE Transcode(c)
  <2>1. PICK ok \in BOOLEAN :
          /\ captures' = [captures EXCEPT ![c].pc = "write", ![c].mp3 = ok]
          /\ inbox' = IF ok THEN [inbox EXCEPT ![captures[c].name].audio = c] ELSE inbox
    BY <1>4 DEF Transcode
  <2>2. PICK x : x = [[captures[c] EXCEPT !.pc = "write"] EXCEPT !.mp3 = ok]
    OBVIOUS
  <2>3. x \in CapShape
    BY <1>3, <2>2
  <2>4. captures' = [captures EXCEPT ![c] = x]
    BY <1>2, <2>1, <2>2
  <2>5. captures' \in [Captures -> CapShape]
    BY <1>2, <2>3, <2>4
  <2>6. inbox' \in [Names -> [text : Captures \cup {"none"}, audio : Captures \cup {"none"}]]
    BY <1>2, <2>1
  <2> QED BY <1>1, <2>5, <2>6, RestStill DEF CapInv, InboxInv, BudgetLater
<1>5. CASE WriteVoiceNote(c)
  <2>1. captures' = [captures EXCEPT ![c].pc = "received"] /\ inbox' = [inbox EXCEPT ![captures[c].name].text = c]
    BY <1>5 DEF WriteVoiceNote
  <2> PICK x : x = [captures[c] EXCEPT !.pc = "received"]
    OBVIOUS
  <2>2. captures' \in [Captures -> CapShape]
    <3>1. x \in CapShape
      BY <1>3
    <3>2. captures' = [captures EXCEPT ![c] = x]
      BY <1>2, <2>1
    <3> QED BY <1>2, <3>1, <3>2
  <2>3. inbox' \in [Names -> [text : Captures \cup {"none"}, audio : Captures \cup {"none"}]]
    BY <1>2, <2>1
  <2> QED BY <1>1, <2>2, <2>3, RestStill DEF CapInv, InboxInv, BudgetLater
<1>6. ASSUME NEW n \in Names, Upload(c, n) PROVE CapInv'
  <2>1. inbox' = inbox /\ (captures' = [captures EXCEPT ![c] = [pc |-> "heard", name |-> n, mp3 |-> FALSE]]
                           \/ captures' = [captures EXCEPT ![c].pc = "refused"])
    BY <1>6 DEF Upload
  <2> PICK x : x = [captures[c] EXCEPT !.pc = "refused"]
    OBVIOUS
  <2> PICK y : y = [pc |-> "heard", name |-> n, mp3 |-> FALSE]
    OBVIOUS
  <2>2. captures' \in [Captures -> CapShape]
    <3>1. x \in CapShape /\ y \in CapShape
      BY <1>3
    <3>2. captures' = [captures EXCEPT ![c] = x] \/ captures' = [captures EXCEPT ![c] = y]
      BY <1>2, <2>1
    <3> QED BY <1>2, <3>1, <3>2
  <2> QED BY <1>1, <1>2, <2>1, <2>2, RestStill DEF CapInv, InboxInv, BudgetLater
<1>7. ASSUME NEW n \in Names, CaptureVoice(c, n) PROVE CapInv'
  <2>1. inbox' = inbox /\ captures' = [captures EXCEPT ![c] = [pc |-> "write", name |-> n, mp3 |-> FALSE]]
    BY <1>7 DEF CaptureVoice
  <2>2. captures' \in [Captures -> CapShape]
    BY <1>2, <1>3, <2>1
  <2> QED BY <1>1, <1>2, <2>1, <2>2, RestStill DEF CapInv, InboxInv, BudgetLater
<1> QED BY <1>4, <1>5, <1>6, <1>7

LEMMA ToolsKeep == ASSUME ToolInv, ExecuteTool PROVE ToolInv'
<1>1. vault \subseteq Paths /\ workspace \in RepoShape
  BY DEF ToolInv
<1>2. CASE Reads
  BY <1>2, ToolStill DEF Reads
<1>3. ASSUME NEW p \in Paths, GitWrite(p) PROVE ToolInv'
  <2>1. PICK k : k = (IF workspace.kind = "none" THEN "dir" ELSE workspace.kind)
    OBVIOUS
  <2>2. PICK w : w = [[workspace EXCEPT !.kind = k] EXCEPT !.dirty = workspace.dirty \cup {p}]
    OBVIOUS
  <2>3. k \in {"none", "dir", "repo"} /\ w \in RepoShape
    BY <1>1, <2>1, <2>2 DEF RepoShape
  <2>4. workspace' = w
    BY <1>1, <1>3, <2>1, <2>2 DEF GitWrite, RepoShape
  <2> QED BY <1>1, <1>3, <2>3, <2>4 DEF ToolInv, GitWrite
<1>4. ASSUME NEW p \in Paths, VaultWrite(p) \/ VaultAppend(p) PROVE ToolInv'
  BY <1>1, <1>4 DEF ToolInv, VaultWrite, VaultAppend
<1>5. ASSUME NEW b \in Branches, GitClone(b) PROVE ToolInv'
  <2>1. CASE workspace' = [NoRepo EXCEPT !.kind = "repo", !.branch = b]
    <3>1. workspace' \in RepoShape
      BY <2>1 DEF NoRepo, RepoShape
    <3> QED BY <1>1, <1>5, <3>1 DEF ToolInv, GitClone
  <2>2. CASE workspace' = Checkout(workspace, b)
    <3>1. workspace' \in RepoShape
      BY <1>1, <2>2 DEF Checkout, RepoShape
    <3> QED BY <1>1, <1>5, <3>1 DEF ToolInv, GitClone
  <2> QED BY <1>1, <1>5, <2>1, <2>2 DEF ToolInv, GitClone
<1>6. ASSUME NEW b \in Branches, GitCommit(b) PROVE ToolInv'
  <2>1. PICK to \in {b, workspace.branch} :
          workspace' = [workspace EXCEPT !.branch = to, !.dirty = {}, !.commits[to] = @ \cup workspace.dirty]
    BY <1>6 DEF GitCommit
  <2>2. PICK cs : cs = [workspace.commits EXCEPT ![to] = workspace.commits[to] \cup workspace.dirty]
    OBVIOUS
  <2>3. workspace.commits \in [Branches -> SUBSET Paths] /\ workspace.dirty \subseteq Paths /\ to \in Branches \cup {"main"}
    BY <1>1, <2>1 DEF RepoShape
  <2>4. cs \in [Branches -> SUBSET Paths]
    BY <2>2, <2>3
  <2>5. PICK w : w = [[[workspace EXCEPT !.branch = to] EXCEPT !.dirty = {}] EXCEPT !.commits = cs]
    OBVIOUS
  <2>6. w \in RepoShape
    BY <1>1, <2>3, <2>4, <2>5 DEF RepoShape
  <2>7. workspace' = w
    BY <1>1, <2>1, <2>2, <2>5 DEF RepoShape
  <2> QED BY <1>1, <1>6, <2>6, <2>7 DEF ToolInv, GitCommit
<1> QED BY <1>2, <1>3, <1>4, <1>5, <1>6 DEF ExecuteTool

LEMMA HttpToolKeeps == ASSUME CapInv, HttpTool PROVE CapInv'
<1>1. BudgetLater /\ UNCHANGED <<inboxVars, notifVars, taskVars>>
  BY CapSpendLater DEF HttpTool, CapInv, CaptureEvents
<1> QED BY <1>1, ToolsKeep, InboxStill, NotifStill, TaskStill DEF CapInv, HttpTool, BudgetLater

-----------------------------------------------------------------------------
(* Notifications.                                                           *)

LEMMA NotifRest ==
  ASSUME CapInv, BudgetLater, UNCHANGED <<inboxVars, taskVars, toolVars>>, NotifInv'
  PROVE  CapInv'
BY InboxStill, ToolStill, TaskStill DEF CapInv, BudgetLater

\* A finite set becomes a sequence of its elements, each once.
LEMMA EachOnce ==
  ASSUME NEW S, IsFiniteSet(S)
  PROVE  /\ SetToSeq(S) \in Seq(S)
         /\ \A i, j \in DOMAIN SetToSeq(S) : SetToSeq(S)[i] = SetToSeq(S)[j] => i = j
<1>1. Cardinality(S) \in Nat /\ ExistsBijection(1..Cardinality(S), S)
  BY FS_CardinalityType
<1>2. \E f \in [1..Cardinality(S) -> S] : IsInjective(f)
  BY <1>1 DEF ExistsBijection, Bijection, Injection
<1>3. SetToSeq(S) \in [1..Cardinality(S) -> S] /\ IsInjective(SetToSeq(S))
  BY <1>2 DEF SetToSeq
<1> QED BY <1>1, <1>3 DEF IsInjective

LEMMA ElapseKeeps == ASSUME CapInv, Elapse PROVE CapInv'
<1>1. BudgetLater /\ UNCHANGED <<inboxVars, notifs, notifsFile, handed, taskVars, toolVars, capBudget>>
  BY CapIdle DEF Elapse, CapInv
<1>2. clock' \in 0..MaxTime
  BY CaptureBounds DEF Elapse, CapInv, NotifInv
<1>3. There(notifs)' = There(notifs) /\ There(notifsFile)' = There(notifsFile)
  BY <1>1 DEF There
<1>4. NotifInv'
  BY <1>1, <1>2, <1>3 DEF CapInv, NotifInv, Kept
<1> QED BY <1>1, <1>4, NotifRest

LEMMA NotifyScheduleKeeps == ASSUME CapInv, NEW n \in Notifs, NotifySchedule(n, 1) PROVE CapInv'
<1>1. BudgetLater /\ UNCHANGED <<inboxVars, clock, handed, taskVars, toolVars>>
  BY CapSpendLater DEF NotifySchedule, CapInv, CaptureEvents
<1>2. notifs \in [Notifs -> NotifShape] /\ clock \in Nat /\ clock \in 0..MaxTime /\ handed \in Seq(Notifs) /\ IsFiniteSet(There(notifs))
  BY CaptureBounds DEF CapInv, NotifInv
<1>3. PICK x : x = [at |-> clock + 1, delivered |-> FALSE, there |-> TRUE]
  OBVIOUS
<1>4. x \in NotifShape
  BY <1>2, <1>3 DEF NotifShape
<1>5. notifs' = [notifs EXCEPT ![n] = x] /\ notifsFile' = notifs' /\ \A i \in DOMAIN handed : handed[i] # n
  BY <1>3 DEF NotifySchedule
<1>6. notifs' \in [Notifs -> NotifShape] /\ notifsFile' \in [Notifs -> NotifShape]
  BY <1>2, <1>4, <1>5
<1>7. There(notifs') \subseteq There(notifs) \cup {n}
  BY <1>2, <1>5 DEF There
<1>8. IsFiniteSet(There(notifs'))
  <2>1. IsFiniteSet(There(notifs) \cup {n})
    BY <1>2, FS_AddElement
  <2> QED BY <1>7, <2>1, FS_Subset
<1>9. There(notifs)' = There(notifs') /\ There(notifsFile)' = There(notifs')
  BY <1>5 DEF There
<1>10. \A i \in DOMAIN handed : handed[i] \in Notifs /\ notifs'[handed[i]] = notifs[handed[i]]
  BY <1>2, <1>5
<1>11. capBudget'["unsaved"] = 0 =>
         /\ \A i \in DOMAIN handed : notifs'[handed[i]].there => notifs'[handed[i]].delivered
         /\ \A i, j \in DOMAIN handed : handed[i] = handed[j] => i = j
  BY <1>1, <1>10 DEF CapInv, NotifInv, BudgetLater
<1>12. NotifInv'
  <2>1. handed' = handed /\ clock' = clock
    BY <1>1
  <2>2. IsFiniteSet(There(notifs))' /\ IsFiniteSet(There(notifsFile))'
    BY <1>8, <1>9
  <2>3. Kept(notifsFile, notifs)'
    BY <1>5 DEF Kept
  <2> QED BY <1>2, <1>6, <1>11, <2>1, <2>2, <2>3 DEF NotifInv
<1> QED BY <1>1, <1>12, NotifRest

LEMMA SavedNotifs ==
  ASSUME Spent, NotifInv, NEW new \in [Notifs -> NotifShape], SaveNotifs(new), There(new) \subseteq There(notifs)
  PROVE  /\ BudgetLater /\ notifs' = new /\ Kept(notifsFile, notifs)'
         /\ {notifs', notifsFile'} \subseteq [Notifs -> NotifShape]
         /\ IsFiniteSet(There(notifs))' /\ IsFiniteSet(There(notifsFile))'
<1>1. /\ {notifs, notifsFile} \subseteq [Notifs -> NotifShape]
      /\ IsFiniteSet(There(notifs)) /\ IsFiniteSet(There(notifsFile))
  BY DEF NotifInv
<1>2. notifs' = new
  BY DEF SaveNotifs
<1>3. IsFiniteSet(There(new)) /\ There(notifs)' = There(new)
  BY <1>1, <1>2, FS_Subset DEF There
<1>4. CASE notifsFile' = new /\ UNCHANGED capBudget
  <2>1. There(notifsFile)' = There(new)
    BY <1>4 DEF There
  <2> QED BY <1>2, <1>3, <1>4, <2>1, CapIdle DEF Kept
<1>5. CASE UNCHANGED notifsFile /\ CapSpend("unsaved")
  <2>1. BudgetLater /\ capBudget'["unsaved"] # 0
    BY <1>5, CapSpendLater DEF CaptureEvents
  <2>2. There(notifsFile)' = There(notifsFile)
    BY <1>5 DEF There
  <2> QED BY <1>1, <1>2, <1>3, <1>5, <2>1, <2>2 DEF Kept
<1> QED BY <1>4, <1>5 DEF SaveNotifs

LEMMA NotifyPendingKeeps == ASSUME CapInv, NotifyPending PROVE CapInv'
<1>1. Spent /\ NotifInv /\ notifs \in [Notifs -> NotifShape] /\ handed \in Seq(Notifs) /\ clock \in 0..MaxTime /\ IsFiniteSet(There(notifs))
  BY DEF CapInv, NotifInv
<1>2. PICK new : new = [n \in Notifs |-> IF n \in Due THEN [notifs[n] EXCEPT !.delivered = TRUE] ELSE notifs[n]]
  OBVIOUS
<1>3. /\ new \in [Notifs -> NotifShape]
      /\ \A n \in Notifs : new[n].there = notifs[n].there /\ (n \in Due => new[n].delivered)
      /\ \A n \in Notifs : notifs[n].delivered => new[n].delivered
  <2>1. ASSUME NEW n \in Notifs
        PROVE  /\ new[n] \in NotifShape /\ new[n].there = notifs[n].there
               /\ n \in Due => new[n].delivered
               /\ notifs[n].delivered => new[n].delivered
    <3>1. notifs[n] \in NotifShape
      BY <1>1
    <3>2. CASE n \in Due
      BY <1>2, <3>1, <3>2 DEF NotifShape
    <3>3. CASE n \notin Due
      BY <1>2, <3>1, <3>3
    <3> QED BY <3>2, <3>3
  <2>2. new \in [Notifs -> NotifShape]
    <3>1. DOMAIN new = Notifs /\ new = [n \in DOMAIN new |-> new[n]]
      BY <1>2
    <3> QED BY <2>1, <3>1
  <2> QED BY <2>1, <2>2
<1>4. There(new) \subseteq There(notifs)
  BY <1>3 DEF There
<1>5. SaveNotifs(new) /\ UNCHANGED <<inboxVars, clock, taskVars, toolVars>> /\ handed' = handed \o SetToSeq(Due)
  BY <1>2 DEF NotifyPending
<1>6. /\ BudgetLater /\ notifs' = new /\ Kept(notifsFile, notifs)'
      /\ {notifs', notifsFile'} \subseteq [Notifs -> NotifShape]
      /\ IsFiniteSet(There(notifs))' /\ IsFiniteSet(There(notifsFile))'
  BY <1>1, <1>3, <1>4, <1>5, SavedNotifs
<1>7. Due \subseteq There(notifs) /\ Due \subseteq Notifs /\ \A n \in Due : notifs[n].there /\ ~notifs[n].delivered
  BY DEF Due, There
<1>8. PICK q : q = SetToSeq(Due)
  OBVIOUS
<1>9. q \in Seq(Due) /\ \A i, j \in DOMAIN q : q[i] = q[j] => i = j
  <2>1. IsFiniteSet(Due)
    BY <1>1, <1>7, FS_Subset
  <2> QED BY <1>8, <2>1, EachOnce
<1>10. q \in Seq(Notifs) /\ \A i \in DOMAIN q : q[i] \in Due
  BY <1>7, <1>9
<1>11. PICK m \in Nat, k \in Nat : m = Len(handed) /\ k = Len(q) /\ DOMAIN handed = 1..m /\ DOMAIN q = 1..k
  BY <1>1, <1>10
<1>12. /\ handed' \in Seq(Notifs) /\ DOMAIN handed' = 1..m + k
       /\ \A i \in 1..m : handed'[i] = handed[i] /\ handed[i] \in Notifs
       /\ \A i \in 1..m + k : i > m => i - m \in 1..k /\ handed'[i] = q[i - m] /\ q[i - m] \in Due
  <2>1. /\ handed \o q \in Seq(Notifs) /\ Len(handed \o q) = Len(handed) + Len(q)
        /\ \A i \in 1..Len(handed) + Len(q) : (handed \o q)[i] = IF i <= Len(handed) THEN handed[i] ELSE q[i - Len(handed)]
    BY <1>1, <1>10, ConcatProperties
  <2>2. \A i \in 1..m + k : handed'[i] = IF i <= m THEN handed[i] ELSE q[i - m]
    BY <1>5, <1>8, <1>11, <2>1
  <2>3. \A i \in 1..m + k : i > m => i - m \in 1..k
    BY <1>11
  <2>4. \A i \in 1..m + k : i > m => i - m \in 1..k /\ handed'[i] = q[i - m] /\ q[i - m] \in Due
    BY <1>10, <1>11, <2>2, <2>3
  <2>5. \A i \in 1..m : i \in 1..m + k /\ handed'[i] = handed[i] /\ handed[i] \in Notifs
    BY <1>1, <1>11, <2>2
  <2>6. handed' \in Seq(Notifs) /\ Len(handed') = m + k
    BY <1>5, <1>8, <1>11, <2>1
  <2> QED BY <2>4, <2>5, <2>6
<1>13. ASSUME capBudget'["unsaved"] = 0
       PROVE  /\ \A i \in DOMAIN handed' : notifs'[handed'[i]].there => notifs'[handed'[i]].delivered
              /\ \A i, j \in DOMAIN handed' : handed'[i] = handed'[j] => i = j
  <2>1. /\ \A i \in 1..m : notifs[handed[i]].there => notifs[handed[i]].delivered
        /\ \A i, j \in 1..m : handed[i] = handed[j] => i = j
    BY <1>1, <1>6, <1>11, <1>13 DEF BudgetLater, NotifInv
  <2>2. ASSUME NEW i \in 1..m + k PROVE notifs'[handed'[i]].there => notifs'[handed'[i]].delivered
    <3>1. CASE i <= m
      BY <1>3, <1>6, <1>12, <2>1, <3>1
    <3>2. CASE i > m
      BY <1>3, <1>6, <1>7, <1>12, <3>2
    <3> QED BY <1>11, <3>1, <3>2
  <2>3. \A i \in 1..m : handed'[i] \notin Due
    BY <1>7, <1>12, <2>1
  <2>4. ASSUME NEW i \in 1..m + k, NEW j \in 1..m + k, handed'[i] = handed'[j] PROVE i = j
    <3>1. CASE i <= m /\ j <= m
      BY <1>12, <2>1, <2>4, <3>1
    <3>2. CASE i > m /\ j > m
      <4> PICK x \in Nat, y \in Nat : x = i - m /\ y = j - m /\ x \in 1..k /\ y \in 1..k
        BY <1>11, <1>12, <3>2
      <4>1. q[x] = q[y]
        BY <1>12, <2>4, <3>2
      <4>2. x = y
        BY <1>9, <1>11, <4>1
      <4> QED BY <1>11, <4>2
    <3>3. CASE ~(i <= m /\ j <= m) /\ ~(i > m /\ j > m)
      BY <1>11, <1>12, <2>3, <2>4, <3>3
    <3> QED BY <1>11, <3>1, <3>2, <3>3
  <2> QED BY <1>12, <2>2, <2>4
<1>14. NotifInv'
  <2>1. clock' = clock
    BY <1>5
  <2> QED BY <1>1, <1>6, <1>12, <1>13, <2>1 DEF NotifInv
<1> QED BY <1>5, <1>6, <1>14, NotifRest

LEMMA NotifyCancelKeeps == ASSUME CapInv, NEW n \in Notifs, NotifyCancel(n) PROVE CapInv'
<1>1. Spent /\ NotifInv /\ notifs \in [Notifs -> NotifShape] /\ handed \in Seq(Notifs) /\ clock \in 0..MaxTime
  BY DEF CapInv, NotifInv
<1>2. PICK new : new = [notifs EXCEPT ![n] = NoNotif]
  OBVIOUS
<1>3. /\ new \in [Notifs -> NotifShape] /\ ~new[n].there /\ \A o \in Notifs \ {n} : new[o] = notifs[o]
  BY <1>1, <1>2 DEF NoNotif, NotifShape
<1>4. There(new) \subseteq There(notifs)
  BY <1>3 DEF There
<1>5. SaveNotifs(new) /\ UNCHANGED <<inboxVars, clock, handed, taskVars, toolVars>>
  BY <1>2 DEF NotifyCancel
<1>6. /\ BudgetLater /\ notifs' = new /\ Kept(notifsFile, notifs)'
      /\ {notifs', notifsFile'} \subseteq [Notifs -> NotifShape]
      /\ IsFiniteSet(There(notifs))' /\ IsFiniteSet(There(notifsFile))'
  BY <1>1, <1>3, <1>4, <1>5, SavedNotifs
<1>7. \A i \in DOMAIN handed : handed[i] \in Notifs
  BY <1>1
<1>8. capBudget'["unsaved"] = 0 =>
         /\ \A i \in DOMAIN handed : notifs'[handed[i]].there => notifs'[handed[i]].delivered
         /\ \A i, j \in DOMAIN handed : handed[i] = handed[j] => i = j
  BY <1>1, <1>3, <1>6, <1>7 DEF NotifInv, BudgetLater
<1>9. NotifInv'
  <2>1. handed' = handed /\ clock' = clock
    BY <1>5
  <2> QED BY <1>1, <1>6, <1>8, <2>1 DEF NotifInv
<1> QED BY <1>5, <1>6, <1>9, NotifRest

-----------------------------------------------------------------------------
(* Agent tasks.                                                             *)

LEMMA TaskRest ==
  ASSUME CapInv, BudgetLater, UNCHANGED <<inboxVars, notifVars, toolVars>>, TaskInv'
  PROVE  CapInv'
BY InboxStill, ToolStill, NotifStill DEF CapInv, BudgetLater

LEMMA TaskParts ==
  ASSUME TaskInv, NEW t \in AgentTasks
  PROVE  /\ tasks \in [AgentTasks -> TaskShape] /\ tasksFile \in [AgentTasks -> TaskShape] /\ tasks[t] \in TaskShape
         /\ tasks[t].status \in {"absent", "queued", "running", "done", "failed"} /\ tasks[t].messages \in Seq(Words)
BY DEF TaskInv, TaskShape

LEMMA SavedTasks ==
  ASSUME Spent, TaskInv, NEW new \in [AgentTasks -> TaskShape], SaveTasks(new)
  PROVE  BudgetLater /\ tasks' = new /\ Kept(tasksFile, tasks)' /\ {tasks', tasksFile'} \subseteq [AgentTasks -> TaskShape]
<1>1. CASE tasksFile' = new /\ UNCHANGED capBudget
  BY <1>1, CapIdle DEF SaveTasks, Kept
<1>2. CASE UNCHANGED tasksFile /\ CapSpend("unsaved")
  <2>1. BudgetLater /\ capBudget'["unsaved"] # 0
    BY <1>2, CapSpendLater DEF CaptureEvents
  <2> QED BY <1>2, <2>1 DEF SaveTasks, Kept, TaskInv
<1> QED BY <1>1, <1>2 DEF SaveTasks

\* A new thread, for a task that has none.
LEMMA ThreadBegins == 
  ASSUME CapInv, NEW t \in AgentTasks, tasks[t].status \in {"absent", "done", "failed"}, t \notin removed \/ tasks[t].status # "absent",
         NEW x \in TaskShape, x.status = "queued", StoreTasks([tasks EXCEPT ![t] = x]),
         BudgetLater, threads' = threads \cup {Thread(t)}, UNCHANGED <<inboxVars, notifVars, removed, toolVars>>
  PROVE  CapInv'
<1>1. Spent /\ TaskInv
  BY DEF CapInv
<1>2. /\ tasks' \in [AgentTasks -> TaskShape] /\ tasksFile' = tasks' /\ tasks'[t].status = "queued"
      /\ \A u \in AgentTasks \ {t} : tasks'[u] = tasks[u]
  BY <1>1, TaskParts DEF StoreTasks
<1>3. PICK th : th = Thread(t)
  OBVIOUS
<1>4. ThreadOK(th) /\ th.task = t
  <2>1. capBudget["task"] + capBudget["reply"] \in Nat
    BY <1>1 DEF Spent, CaptureEvents
  <2>2. <<>> \in Seq(Words) /\ 1 \in 1..MaxIterations + 1 /\ 1 <= MaxIterations
    BY CaptureBounds
  <2> QED BY <1>3, <2>1, <2>2 DEF Thread, ThreadOK, ThreadShape
<1>5. ASSUME NEW o \in threads PROVE o.task # t /\ ThreadOK(o) /\ o.task \in AgentTasks /\ Owned(o)
  <2>1. ThreadOK(o) /\ Owned(o)
    BY <1>1 DEF TaskInv
  <2> QED BY <2>1 DEF ThreadOK, ThreadShape, Owned
<1>6. ASSUME NEW o \in threads' PROVE ThreadOK(o) /\ Owned(o)'
  <2>1. CASE o = th
    BY <1>2, <1>4, <2>1 DEF Owned
  <2>2. CASE o \in threads
    <3>1. tasks'[o.task] = tasks[o.task] /\ removed' = removed
      BY <1>2, <1>5, <2>2
    <3> QED BY <1>5, <2>2, <3>1 DEF Owned
  <2> QED BY <1>3, <2>1, <2>2
<1>7. \A a, b \in threads' : a.task = b.task => a = b
  BY <1>1, <1>3, <1>4, <1>5 DEF TaskInv
<1>8. capBudget'["unsaved"] = 0 => \A u \in removed' : tasks'[u].status = "absent"
  <2>1. ASSUME capBudget'["unsaved"] = 0, NEW u \in removed PROVE tasks'[u].status = "absent"
    <3>1. tasks[u].status = "absent" /\ u \in AgentTasks
      BY <1>1, <2>1 DEF TaskInv, BudgetLater
    <3> QED BY <1>2, <3>1
  <2> QED BY <2>1
<1>9. TaskInv'
  <2>1. removed' \subseteq AgentTasks
    BY <1>1 DEF TaskInv
  <2>2. Kept(tasksFile, tasks)'
    BY <1>2 DEF Kept
  <2>3. \A o \in threads' : ThreadOK(o)' /\ Owned(o)'
    BY <1>6 DEF ThreadOK
  <2> QED BY <1>2, <1>7, <1>8, <2>1, <2>2, <2>3 DEF TaskInv
<1> QED BY <1>9, TaskRest

LEMMA AgentTaskCreateKeeps == ASSUME CapInv, NEW t \in AgentTasks, AgentTaskCreate(t) PROVE CapInv'
<1>1. BudgetLater /\ tasks[t].status = "absent" /\ t \notin removed /\ threads' = threads \cup {Thread(t)}
      /\ UNCHANGED <<inboxVars, notifVars, removed, toolVars>>
  BY CapSpendLater DEF AgentTaskCreate, CapInv, CaptureEvents
<1>2. PICK x : x = [status |-> "queued", messages |-> <<>>]
  OBVIOUS
<1>3. x \in TaskShape /\ x.status = "queued"
  BY <1>2 DEF TaskShape
<1>4. StoreTasks([tasks EXCEPT ![t] = x])
  BY <1>2 DEF AgentTaskCreate
<1> QED BY <1>1, <1>3, <1>4, ThreadBegins

LEMMA AgentTaskReplyKeeps == ASSUME CapInv, NEW t \in AgentTasks, AgentTaskReply(t) PROVE CapInv'
<1>1. BudgetLater /\ tasks[t].status \in {"done", "failed"} /\ threads' = threads \cup {Thread(t)}
      /\ UNCHANGED <<inboxVars, notifVars, removed, toolVars>>
  BY CapSpendLater DEF AgentTaskReply, CapInv, CaptureEvents
<1>2. tasks \in [AgentTasks -> TaskShape] /\ tasks[t].messages \in Seq(Words)
  BY TaskParts DEF CapInv
<1>3. PICK x : x = [status |-> "queued", messages |-> Append(tasks[t].messages, "reply")]
  OBVIOUS
<1>4. x \in TaskShape /\ x.status = "queued"
  <2>1. Append(tasks[t].messages, "reply") \in Seq(Words)
    BY <1>2, AppendProperties DEF Words
  <2> QED BY <1>3, <2>1 DEF TaskShape
<1>5. StoreTasks([tasks EXCEPT ![t] = x])
  BY <1>3 DEF AgentTaskReply
<1> QED BY <1>1, <1>4, <1>5, ThreadBegins

LEMMA AgentTaskDeleteKeeps == ASSUME CapInv, NEW t \in AgentTasks, AgentTaskDelete(t) PROVE CapInv'
<1>1. Spent /\ TaskInv /\ tasks \in [AgentTasks -> TaskShape]
  BY TaskParts DEF CapInv
<1>2. PICK new : new = [tasks EXCEPT ![t] = NoTask]
  OBVIOUS
<1>3. new \in [AgentTasks -> TaskShape] /\ new[t].status = "absent" /\ \A u \in AgentTasks \ {t} : new[u] = tasks[u]
  BY <1>1, <1>2 DEF NoTask, TaskShape
<1>4. SaveTasks(new) /\ removed' = removed \cup {t} /\ UNCHANGED <<inboxVars, notifVars, threads, toolVars>>
  BY <1>2 DEF AgentTaskDelete
<1>5. BudgetLater /\ tasks' = new /\ Kept(tasksFile, tasks)' /\ {tasks', tasksFile'} \subseteq [AgentTasks -> TaskShape]
  BY <1>1, <1>3, <1>4, SavedTasks
<1>6. ASSUME NEW o \in threads PROVE ThreadOK(o) /\ Owned(o)'
  <2>1. ThreadOK(o) /\ Owned(o) /\ o.task \in AgentTasks
    BY <1>1 DEF TaskInv, ThreadOK, ThreadShape
  <2> QED BY <1>3, <1>4, <1>5, <2>1 DEF Owned
<1>7. capBudget'["unsaved"] = 0 => \A u \in removed' : tasks'[u].status = "absent"
  <2>1. ASSUME capBudget'["unsaved"] = 0, NEW u \in removed PROVE tasks'[u].status = "absent"
    <3>1. tasks[u].status = "absent" /\ u \in AgentTasks
      BY <1>1, <1>5, <2>1 DEF TaskInv, BudgetLater
    <3> QED BY <1>3, <1>5, <3>1
  <2> QED BY <1>3, <1>4, <1>5, <2>1
<1>8. TaskInv'
  <2>1. removed' \subseteq AgentTasks /\ threads' = threads
    BY <1>1, <1>4 DEF TaskInv
  <2>2. \A o \in threads' : ThreadOK(o)' /\ Owned(o)'
    BY <1>6, <2>1 DEF ThreadOK
  <2>3. \A a, b \in threads' : a.task = b.task => a = b
    BY <1>1, <2>1 DEF TaskInv
  <2> QED BY <1>5, <1>7, <2>1, <2>2, <2>3 DEF TaskInv
<1> QED BY <1>4, <1>5, <1>8, TaskRest

-----------------------------------------------------------------------------
(* Threads.                                                                 *)

\* A thread that goes on, while its task stays or is still its own.
LEMMA ThreadGoesOn ==
  ASSUME CapInv, NEW th \in threads, NEW next, ThreadOK(next), next.task = th.task, Become(th, next),
         BudgetLater, UNCHANGED <<tasks, tasksFile, removed>>
  PROVE  TaskInv'
<1>1. TaskInv
  BY DEF CapInv
<1>2. \A o \in threads' : o = next \/ o \in threads
  BY DEF Become
<1>3. \A o \in threads' : ThreadOK(o)' /\ Owned(o)'
  BY <1>1, <1>2 DEF TaskInv, ThreadOK, Owned
<1>4. \A a, b \in threads' : a.task = b.task => a = b
  BY <1>1 DEF TaskInv, Become
<1>5. capBudget'["unsaved"] = 0 => \A u \in removed' : tasks'[u].status = "absent"
  BY <1>1 DEF TaskInv, BudgetLater
<1> QED BY <1>1, <1>3, <1>4, <1>5 DEF TaskInv, Kept, BudgetLater

LEMMA ThreadFields ==
  ASSUME NEW th, ThreadOK(th)
  PROVE  /\ th \in ThreadShape /\ th.task \in AgentTasks /\ th.send \in Seq(Words) /\ th.new \in Seq(Words) /\ th.iteration \in Nat
         /\ th.iteration \in 1..MaxIterations + 1 /\ th.first \in BOOLEAN
BY CaptureBounds DEF ThreadOK, ThreadShape

LEMMA PrunedTyped == ASSUME NEW s \in Seq(Words) PROVE Pruned(s) \in Seq(Words)
<1>1. CASE Len(s) <= MaxWindow
  BY <1>1 DEF Pruned
<1>2. CASE ~(Len(s) <= MaxWindow)
  <2>1. PICK n \in Nat, k \in Nat : n = Len(s) /\ k = KeepTail /\ k <= n /\ 0 < n
    BY <1>2, CaptureBounds
  <2>2. n - k + 1 \in Int /\ n \in Int /\ \A i \in n - k + 1 .. n : s[i] \in Words
    BY <2>1
  <2>3. SubSeq(s, n - k + 1, n) \in Seq(Words)
    BY <2>2, SubSeqProperties
  <2>4. <<s[1]>> \in Seq(Words)
    BY <2>1
  <2>5. Pruned(s) = <<s[1]>> \o SubSeq(s, n - k + 1, n)
    BY <1>2, <2>1 DEF Pruned
  <2> QED BY <2>3, <2>4, <2>5, ConcatProperties
<1> QED BY <1>1, <1>2

LEMMA SaidTyped ==
  ASSUME NEW th, ThreadOK(th), NEW x, x = Said(th, "answer")
  PROVE  ThreadOK(x) /\ x.task = th.task /\ x.pc = th.pc /\ x.iteration = th.iteration /\ x.send # <<>>
<1>1. th \in ThreadShape /\ th.send \in Seq(Words) /\ th.new \in Seq(Words)
  BY ThreadFields
<1>2. PICK a \in Seq(Words), b \in Seq(Words) : a = Append(Pruned(th.send), "answer") /\ b = Append(th.new, "answer") /\ a # <<>>
  <2>1. "answer" \in Words /\ Pruned(th.send) \in Seq(Words)
    BY <1>1, PrunedTyped DEF Words
  <2>2. Append(Pruned(th.send), "answer") \in Seq(Words) /\ Append(Pruned(th.send), "answer") # <<>>
    BY <2>1, AppendProperties
  <2>3. Append(th.new, "answer") \in Seq(Words)
    BY <1>1, <2>1, AppendProperties
  <2> QED BY <2>2, <2>3
<1>3. x = [[th EXCEPT !.send = a] EXCEPT !.new = b]
  BY <1>1, <1>2 DEF Said, ThreadShape
<1>4. x \in ThreadShape /\ x.send = a /\ x.pc = th.pc /\ x.iteration = th.iteration /\ x.task = th.task
  BY <1>1, <1>3 DEF ThreadShape
<1> QED BY <1>2, <1>4 DEF ThreadOK

LEMMA ThreadRest ==
  ASSUME CapInv, BudgetLater, UNCHANGED <<inboxVars, notifVars>>, ToolInv', TaskInv'
  PROVE  CapInv'
BY InboxStill, NotifStill DEF CapInv, BudgetLater

LEMMA LlmKeeps ==
  ASSUME CapInv, NEW th \in threads, LlmSaysTool(th) \/ LlmSaysText(th) \/ LlmSaysDone(th) \/ LlmFails(th)
  PROVE  CapInv'
<1>1. /\ BudgetLater /\ th.pc = "call" /\ UNCHANGED <<inboxVars, notifVars, tasks, tasksFile, removed, toolVars>>
  BY CapSpendLater, CapIdle DEF LlmSaysTool, LlmSaysText, LlmSaysDone, LlmFails, CapInv, CaptureEvents
<1>2. ThreadOK(th) /\ th.iteration \in 1..MaxIterations /\ th.iteration \in Nat /\ th \in ThreadShape
  BY <1>1, ThreadFields DEF CapInv, TaskInv, ThreadOK
<1>3. PICK x : x = Said(th, "answer")
  OBVIOUS
<1>4. /\ ThreadOK(x) /\ x.task = th.task /\ x.iteration = th.iteration /\ x.send # <<>> /\ x \in ThreadShape
  BY <1>2, <1>3, SaidTyped DEF ThreadOK
<1>5. \E next : ThreadOK(next) /\ next.task = th.task /\ Become(th, next)
  <2>1. CASE LlmSaysTool(th)
    <3>1. PICK next : next = [x EXCEPT !.pc = "tool"]
      OBVIOUS
    <3>2. /\ next \in ThreadShape /\ next.pc = "tool" /\ next.iteration = x.iteration /\ next.task = x.task
          /\ next.first = x.first /\ next.send = x.send
      BY <1>4, <3>1 DEF ThreadShape
    <3>3. ThreadOK(next)
      <4>1. next.iteration <= MaxIterations
        BY <1>2, <1>4, <3>2
      <4> QED BY <1>4, <3>2, <4>1 DEF ThreadOK
    <3> QED BY <1>3, <1>4, <2>1, <3>1, <3>2, <3>3 DEF LlmSaysTool
  <2>2. CASE LlmSaysText(th)
    <3>1. PICK p \in {"call", "done"}, k \in Nat :
            p = (IF th.iteration < MaxIterations THEN "call" ELSE "done") /\ k = th.iteration + 1
      BY <1>2
    <3>2. k \in 1..MaxIterations + 1 /\ (p = "call" => k <= MaxIterations)
      BY <1>2, <3>1, CaptureBounds
    <3>3. PICK next : next = [[x EXCEPT !.pc = p] EXCEPT !.iteration = k]
      OBVIOUS
    <3>4. ThreadOK(next) /\ next.task = th.task
      BY <1>4, <3>2, <3>3 DEF ThreadOK, ThreadShape
    <3>5. [x EXCEPT !.pc = IF th.iteration < MaxIterations THEN "call" ELSE "done", !.iteration = @ + 1] = next
      BY <1>4, <3>1, <3>3 DEF ThreadShape
    <3> QED BY <1>3, <2>2, <3>4, <3>5 DEF LlmSaysText
  <2>3. CASE LlmSaysDone(th)
    <3>1. PICK next : next = [x EXCEPT !.pc = "done"]
      OBVIOUS
    <3>2. ThreadOK(next) /\ next.task = th.task
      BY <1>4, <3>1 DEF ThreadOK, ThreadShape
    <3> QED BY <1>3, <2>3, <3>1, <3>2 DEF LlmSaysDone
  <2>4. CASE LlmFails(th)
    <3>1. PICK next : next = [th EXCEPT !.pc = "failed"]
      OBVIOUS
    <3>2. ThreadOK(next) /\ next.task = th.task
      BY <1>2, <3>1 DEF ThreadOK, ThreadShape
    <3> QED BY <2>4, <3>1, <3>2 DEF LlmFails
  <2> QED BY <2>1, <2>2, <2>3, <2>4
<1>6. TaskInv'
  BY <1>1, <1>5, ThreadGoesOn
<1>7. ToolInv'
  BY <1>1, ToolStill DEF CapInv
<1> QED BY <1>1, <1>6, <1>7, ThreadRest

LEMMA RunToolKeeps == ASSUME CapInv, NEW th \in threads, RunTool(th) PROVE CapInv'
<1>1. BudgetLater /\ th.pc = "tool" /\ UNCHANGED <<inboxVars, notifVars, tasks, tasksFile, removed, capBudget>>
  BY CapIdle DEF RunTool, CapInv
<1>2. ThreadOK(th) /\ th.iteration \in 1..MaxIterations /\ th.iteration \in Nat /\ th \in ThreadShape /\ th.send \in Seq(Words) /\ th.new \in Seq(Words)
  BY <1>1, ThreadFields DEF CapInv, TaskInv, ThreadOK
<1>3. "tool" \in Words
  BY DEF Words
<1>4. PICK a \in Seq(Words), b \in Seq(Words) : a = Append(th.send, "tool") /\ b = Append(th.new, "tool") /\ a # <<>>
  <2>1. Append(th.send, "tool") \in Seq(Words) /\ Append(th.send, "tool") # <<>>
    BY <1>2, <1>3, AppendProperties
  <2>2. Append(th.new, "tool") \in Seq(Words)
    BY <1>2, <1>3, AppendProperties
  <2> QED BY <2>1, <2>2
<1>5. PICK p \in {"call", "done"}, k \in Nat :
        p = (IF th.iteration < MaxIterations THEN "call" ELSE "done") /\ k = th.iteration + 1
  BY <1>2
<1>6. k \in 1..MaxIterations + 1 /\ (p = "call" => k <= MaxIterations)
  BY <1>2, <1>5, CaptureBounds
<1>7. PICK next : next = [[[[th EXCEPT !.send = a] EXCEPT !.new = b] EXCEPT !.pc = p] EXCEPT !.iteration = k]
  OBVIOUS
<1>8. ThreadOK(next) /\ next.task = th.task
  BY <1>2, <1>4, <1>6, <1>7 DEF ThreadOK, ThreadShape
<1>9. [th EXCEPT !.send = Append(@, "tool"), !.new = Append(@, "tool"),
                 !.pc = IF th.iteration < MaxIterations THEN "call" ELSE "done", !.iteration = @ + 1] = next
  BY <1>2, <1>4, <1>5, <1>7 DEF ThreadShape
<1>10. Become(th, next)
  BY <1>9 DEF RunTool
<1>11. TaskInv'
  BY <1>1, <1>8, <1>10, ThreadGoesOn
<1>12. ToolInv'
  BY ToolsKeep DEF CapInv, RunTool
<1> QED BY <1>1, <1>11, <1>12, ThreadRest

\* What a thread writes of its task; the other tasks stay.
LEMMA ThreadWrites ==
  ASSUME CapInv, NEW th \in threads, NEW new \in [AgentTasks -> TaskShape], SaveTasks(new),
         \A u \in AgentTasks \ {th.task} : new[u] = tasks[u],
         tasks[th.task].status = "absent" => new = tasks,
         threads' \subseteq (threads \ {th}) \/ (\E next : /\ ThreadOK(next) /\ next.task = th.task /\ Become(th, next)
                                                         /\ new[th.task].status = "running"),
         UNCHANGED <<inboxVars, notifVars, removed, toolVars>>
  PROVE  CapInv'
<1>1. Spent /\ TaskInv /\ th.task \in AgentTasks /\ ToolInv
  BY ThreadFields DEF CapInv, TaskInv
<1>2. BudgetLater /\ tasks' = new /\ Kept(tasksFile, tasks)' /\ {tasks', tasksFile'} \subseteq [AgentTasks -> TaskShape]
  BY <1>1, SavedTasks
<1>3. ASSUME NEW o \in threads, o # th PROVE o.task \in AgentTasks \ {th.task} /\ ThreadOK(o) /\ Owned(o)'
  <2>1. ThreadOK(o) /\ Owned(o) /\ o.task \in AgentTasks /\ o.task # th.task
    BY <1>1, <1>3, ThreadFields DEF TaskInv
  <2> QED BY <1>2, <2>1 DEF Owned
<1>4. /\ \A o \in threads' : ThreadOK(o) /\ Owned(o)'
      /\ \A a, b \in threads' : a.task = b.task => a = b
  <2>1. CASE threads' \subseteq (threads \ {th})
    BY <1>1, <1>3, <2>1 DEF TaskInv
  <2>2. ASSUME NEW next, ThreadOK(next), next.task = th.task, Become(th, next), new[th.task].status = "running"
        PROVE  /\ \A o \in threads' : ThreadOK(o) /\ Owned(o)'
               /\ \A a, b \in threads' : a.task = b.task => a = b
    <3>1. \A o \in threads' : o = next \/ (o \in threads /\ o # th)
      BY <2>2 DEF Become
    <3>2. Owned(next)'
      BY <1>2, <2>2 DEF Owned
    <3>3. \A o \in threads' : ThreadOK(o) /\ Owned(o)'
      BY <1>3, <2>2, <3>1, <3>2
    <3>4. \A a, b \in threads' : a.task = b.task => a = b
      BY <1>1, <1>3, <2>2, <3>1 DEF TaskInv
    <3> QED BY <3>3, <3>4
  <2> QED BY <2>1, <2>2
<1>5. capBudget'["unsaved"] = 0 => \A u \in removed' : tasks'[u].status = "absent"
  <2>1. ASSUME capBudget'["unsaved"] = 0, NEW u \in removed PROVE tasks'[u].status = "absent"
    <3>1. tasks[u].status = "absent" /\ u \in AgentTasks
      BY <1>1, <1>2, <2>1 DEF TaskInv, BudgetLater
    <3> QED BY <1>2, <3>1
  <2> QED BY <2>1
<1>6. TaskInv'
  <2>1. removed' \subseteq AgentTasks
    BY <1>1 DEF TaskInv
  <2>2. \A o \in threads' : ThreadOK(o)' /\ Owned(o)'
    BY <1>4 DEF ThreadOK
  <2> QED BY <1>2, <1>4, <1>5, <2>1, <2>2 DEF TaskInv
<1>7. ToolInv'
  BY <1>1, ToolStill
<1> QED BY <1>2, <1>6, <1>7, ThreadRest

LEMMA StartTaskKeeps == ASSUME CapInv, NEW th \in threads, StartTask(th) PROVE CapInv'
<1>1. Spent /\ TaskInv /\ ThreadOK(th) /\ th \in ThreadShape /\ th.task \in AgentTasks /\ th.pc = "start" /\ ToolInv
      /\ UNCHANGED <<inboxVars, notifVars, removed, toolVars>>
  BY ThreadFields DEF CapInv, TaskInv, StartTask
<1>2. PICK t \in TaskShape : t = tasks[th.task] /\ tasks \in [AgentTasks -> TaskShape] /\ t.messages \in Seq(Words)
  BY <1>1, TaskParts
<1>3. CASE t.status = "absent"
  <2>1. threads' = threads \ {th} /\ UNCHANGED <<tasks, tasksFile, capBudget>>
    BY <1>2, <1>3 DEF StartTask
  <2>2. BudgetLater /\ ToolInv'
    BY <1>1, <2>1, CapIdle, ToolStill
  <2>3. TaskInv'
    BY <1>1, <2>1, <2>2 DEF TaskInv, BudgetLater, Kept, Owned, ThreadOK
  <2> QED BY <1>1, <2>2, <2>3, ThreadRest
<1>4. CASE t.status # "absent"
  <2>1. PICK new : new = [tasks EXCEPT ![th.task].status = "running"]
    OBVIOUS
  <2>2. PICK f \in BOOLEAN, s \in Seq(Words) : f = (t.messages = <<>>) /\ s = (IF t.messages = <<>> THEN <<"prompt">> ELSE t.messages)
    <3>1. <<"prompt">> \in Seq(Words)
      BY DEF Words
    <3> QED BY <1>2, <3>1
  <2>3. SaveTasks(new) /\ Become(th, [th EXCEPT !.pc = "call", !.first = f, !.send = s])
    BY <1>2, <1>4, <2>1, <2>2 DEF StartTask
  <2>4. PICK y : y = [t EXCEPT !.status = "running"]
    OBVIOUS
  <2>5. y \in TaskShape /\ y.status = "running" /\ new = [tasks EXCEPT ![th.task] = y]
    BY <1>1, <1>2, <2>1, <2>4 DEF TaskShape
  <2>6. new \in [AgentTasks -> TaskShape] /\ new[th.task].status = "running" /\ \A u \in AgentTasks \ {th.task} : new[u] = tasks[u]
    BY <1>1, <1>2, <2>5
  <2>7. PICK next : next = [[[th EXCEPT !.pc = "call"] EXCEPT !.first = f] EXCEPT !.send = s]
    OBVIOUS
  <2>8. ThreadOK(next) /\ next.task = th.task
    BY <1>1, <2>2, <2>7 DEF ThreadOK, ThreadShape
  <2>9. Become(th, next)
    <3>1. [th EXCEPT !.pc = "call", !.first = f, !.send = s] = next
      BY <1>1, <2>7 DEF ThreadShape
    <3> QED BY <2>3, <3>1
  <2> QED BY <1>1, <1>2, <1>4, <2>3, <2>6, <2>8, <2>9, ThreadWrites
<1> QED BY <1>3, <1>4

LEMMA EndTaskKeeps == ASSUME CapInv, NEW th \in threads, EndTask(th) PROVE CapInv'
<1>1. TaskInv /\ ThreadOK(th) /\ th.task \in AgentTasks /\ th.send \in Seq(Words) /\ th.new \in Seq(Words)
      /\ th.pc \in {"done", "failed"} /\ threads' = threads \ {th} /\ UNCHANGED <<inboxVars, notifVars, removed, toolVars>>
  BY ThreadFields DEF CapInv, TaskInv, EndTask
<1>2. PICK t \in TaskShape : t = tasks[th.task] /\ tasks \in [AgentTasks -> TaskShape] /\ t.messages \in Seq(Words)
  BY <1>1, TaskParts
<1>3. PICK history : history = (IF th.first THEN <<th.send[1]>> ELSE t.messages) \o th.new
  OBVIOUS
<1>4. history \in Seq(Words)
  <2>1. th.first => <<th.send[1]>> \in Seq(Words)
    BY <1>1 DEF ThreadOK
  <2>2. PICK h \in Seq(Words) : h = (IF th.first THEN <<th.send[1]>> ELSE t.messages)
    BY <1>2, <2>1
  <2> QED BY <1>1, <1>3, <2>2, ConcatProperties
<1>5. PICK ms \in Seq(Words) : ms = (IF th.pc = "failed" /\ th.new = <<>> THEN t.messages ELSE history)
  BY <1>2, <1>4
<1>6. PICK x : x = [status |-> th.pc, messages |-> ms]
  OBVIOUS
<1>7. PICK new : new = (IF t.status = "absent" THEN tasks ELSE [tasks EXCEPT ![th.task] = x])
  OBVIOUS
<1>8. SaveTasks(new)
  BY <1>2, <1>3, <1>5, <1>6, <1>7 DEF EndTask
<1>9. x \in TaskShape
  BY <1>1, <1>6 DEF TaskShape
<1>10. /\ new \in [AgentTasks -> TaskShape] /\ \A u \in AgentTasks \ {th.task} : new[u] = tasks[u]
       /\ tasks[th.task].status = "absent" => new = tasks
  BY <1>1, <1>2, <1>7, <1>9
<1> QED BY <1>1, <1>8, <1>10, ThreadWrites

LEMMA CaptureCrashKeeps == ASSUME CapInv, CaptureCrash PROVE CapInv'
<1>1. BudgetLater /\ UNCHANGED <<inbox, clock, notifsFile, handed, tasksFile, removed, toolVars>>
      /\ notifs' = notifsFile /\ tasks' = tasksFile /\ threads' = {}
  BY CapSpendLater DEF CaptureCrash, CapInv, CaptureEvents
<1>2. InboxInv'
  <2> DEFINE CapShape == [pc : {"new", "heard", "write", "received", "refused"}, name : Names \cup {"none"}, mp3 : BOOLEAN]
  <2>1. captures \in [Captures -> CapShape]
    BY DEF CapInv, InboxInv
  <2>2. \A c \in Captures : captures[c] \in CapShape /\ [captures[c] EXCEPT !.pc = "refused"] \in CapShape
    BY <2>1
  <2>3. captures' \in [Captures -> CapShape]
    BY <2>2 DEF CaptureCrash
  <2> QED BY <1>1, <2>3 DEF CapInv, InboxInv
<1>3. NotifInv'
  <2>1. There(notifs)' = There(notifsFile) /\ There(notifsFile)' = There(notifsFile)
    BY <1>1 DEF There
  <2>2. capBudget'["unsaved"] = 0 => notifs' = notifs
    BY <1>1 DEF CapInv, NotifInv, Kept, BudgetLater
  <2> QED BY <1>1, <2>1, <2>2 DEF CapInv, NotifInv, Kept, BudgetLater
<1>4. TaskInv'
  <2>1. capBudget'["unsaved"] = 0 => tasks' = tasks
    BY <1>1 DEF CapInv, TaskInv, Kept, BudgetLater
  <2> QED BY <1>1, <2>1 DEF CapInv, TaskInv, Kept, BudgetLater
<1>5. ToolInv'
  BY <1>1, ToolStill DEF CapInv
<1> QED BY <1>1, <1>2, <1>3, <1>4, <1>5 DEF CapInv, BudgetLater

LEMMA CaptureStepKeeps == ASSUME CapInv, [CaptureNext]_captureVars PROVE CapInv'
<1>1. ASSUME NEW th \in threads, ThreadStep(th) PROVE CapInv'
  BY <1>1, StartTaskKeeps, LlmKeeps, RunToolKeeps, EndTaskKeeps DEF ThreadStep
<1>2. CASE UNCHANGED captureVars
  <2>1. UNCHANGED <<inboxVars, notifVars, taskVars, toolVars, capBudget>>
    BY <1>2 DEF captureVars
  <2> QED BY <2>1, CapIdle, InboxStill, NotifStill, TaskStill, ToolStill DEF CapInv, BudgetLater
<1>3. CASE CaptureNext
  BY <1>1, <1>3, NotesKeep, ElapseKeeps, NotifyPendingKeeps, NotifyScheduleKeeps, NotifyCancelKeeps, AgentTaskCreateKeeps,
     AgentTaskReplyKeeps, AgentTaskDeleteKeeps, HttpToolKeeps, CaptureCrashKeeps DEF CaptureNext, ThreadSteps
<1> QED BY <1>2, <1>3

\* What is asked of the capture API follows.
LEMMA CaptureFollows == CapInv => CaptureSound
<1> SUFFICES ASSUME CapInv PROVE CaptureSound
  OBVIOUS
<1>1. ASSUME NEW ms \in Seq(Words) PROVE Range(ms) \subseteq Words
  <2>1. \A i \in DOMAIN ms : ms[i] \in Words
    OBVIOUS
  <2> QED BY <2>1 DEF Range
<1>2. ASSUME NEW t \in TaskShape PROVE TaskOK(t)
  BY <1>1 DEF TaskOK, TaskShape, Words
<1>3. CaptureTypeOK
  <2>1. \A c \in Captures : captures[c].pc \in {"new", "heard", "write", "received", "refused"}
    BY DEF CapInv, InboxInv
  <2>2. inbox \in [Names -> [text : Captures \cup {"none"}, audio : Captures \cup {"none"}]]
    BY DEF CapInv, InboxInv
  <2>3. {notifs, notifsFile} \subseteq [Notifs -> [at : Nat, delivered : BOOLEAN, there : BOOLEAN]]
    BY DEF CapInv, NotifInv, NotifShape
  <2>4. Range(handed) \subseteq Notifs /\ clock \in 0..MaxTime
    <3>1. \A i \in DOMAIN handed : handed[i] \in Notifs
      BY DEF CapInv, NotifInv
    <3> QED BY <3>1 DEF Range, CapInv, NotifInv
  <2>5. \A t \in AgentTasks : TaskOK(tasks[t]) /\ TaskOK(tasksFile[t])
    BY <1>2 DEF CapInv, TaskInv
  <2>6. \A th \in threads : /\ th.task \in AgentTasks /\ th.pc \in {"start", "call", "tool", "done", "failed"}
                           /\ th.iteration \in 1..MaxIterations + 1
    BY DEF CapInv, TaskInv, ThreadOK, ThreadShape
  <2>7. removed \subseteq AgentTasks /\ vault \subseteq Paths /\ workspace \in RepoShape
    BY DEF CapInv, TaskInv, ToolInv
  <2> QED BY <2>1, <2>2, <2>3, <2>4, <2>5, <2>6, <2>7 DEF CaptureTypeOK, RepoShape
<1>4. HandedOnce
  BY DEF HandedOnce, CapInv, NotifInv
<1>5. OneRunner
  BY DEF OneRunner, CapInv, TaskInv
<1>6. DeletedStaysAway
  BY DEF DeletedStaysAway, CapInv, TaskInv, Kept
<1> QED BY <1>3, <1>4, <1>5, <1>6 DEF CaptureSound

\* As long as no save fails, a notification is handed out once and a deleted task stays away, over
\* any number of restarts; and no two threads run one task, whatever fails (capture_api.py's
\* notifications and agent tasks): for any number of them, and any bounds on a conversation.
THEOREM CaptureIsSound == CaptureInit /\ [][CaptureNext]_captureVars => []CaptureSound
<1>1. CapInv /\ [CaptureNext]_captureVars => CapInv'
  BY CaptureStepKeeps
<1> QED BY <1>1, CaptureBegins, CaptureFollows, PTL

-----------------------------------------------------------------------------
(* The hold to ask (HoldToAsk.tla) *)

States == {"started", "done", "skipped"}
AppShape ==
  [session : BOOLEAN, voice : BOOLEAN, view : Messages \cup {"idle", "listening", "waiting", "speaking"}, id : Nat,
   begin : 0..MaxHolds, held : BOOLEAN, hold : 0..MaxHolds, attached : BOOLEAN, speaker : BOOLEAN]
BeginShape == [step : {"no", "begin", "closing", "again", "over"}, answer : AskAnswers \cup {"none"}, id : Nat]
ReleaseShape == [step : {"no", "waiting", "end", "done"}, of : 0..MaxHolds, answer : AskAnswers \cup {"none"}]
DeliveryShape ==
  [step : {"no", "route", "status", "speaking", "over"}, ask : Nat, cancelled : BOOLEAN, read : SinkStates \cup {"none"},
   target : SinkStates \cup {"none"}, sounds : {"no", "on", "out", "failed"}, guard : {"wait", "read"}, late : {0, 1}]
SideShape == [up : BOOLEAN, voice : BOOLEAN, system : BOOLEAN, open : Nat, asked : SUBSET Nat, asks : Nat]

HoldTyped ==
  /\ app \in AppShape /\ press \in [Holds -> {"no", "stopping", "done"}]
  /\ begins \in [Holds -> BeginShape] /\ release \in [Holds -> ReleaseShape]
  /\ delivery \in DeliveryShape /\ daemon \in SideShape /\ sink \in SinkStates
  /\ reports \in Seq(Nat \X States) /\ told \in Seq(Nat \X States)
  /\ holdsLeft \in [HoldEvents -> Nat]

\* Asks are numbered as they are opened; what is open, ended and delivered are different ones.
Numbered ==
  /\ daemon.open <= daemon.asks /\ daemon.asked \subseteq 1..daemon.asks /\ daemon.open \notin daemon.asked
  /\ app.id <= daemon.asks /\ \A h \in Holds : begins[h].id <= daemon.asks
  /\ delivery.ask <= daemon.asks /\ delivery.ask \notin daemon.asked
  /\ delivery.ask # 0 => delivery.ask # daemon.open
  /\ Delivering => delivery.ask # 0
  /\ app.held => app.hold # 0
  /\ \A h \in Holds : release[h].step \in {"waiting", "end"} => release[h].of # 0

\* What the guard saw last.
Guarded ==
  /\ delivery.sounds # "no" => delivery.step = "speaking"
  /\ Delivering /\ delivery.guard = "wait" => delivery.late = 0
  /\ delivery.guard = "read" /\ delivery.late = 1 => ~Closed(delivery.read)

Reported == Range(told) \cup Range(reports)

\* A delivery that is left alone was cancelled, and who pressed the key waits for it to stop.
Stops ==
  /\ Delivering /\ ~app.attached => delivery.cancelled
  /\ holdsLeft["overtake"] = 0 =>
       /\ Delivering /\ (~app.attached \/ <<delivery.ask, "skipped">> \in Reported) => app.held /\ press[app.hold] = "stopping"
       /\ app.view = "listening" => ~Delivering

\* What is reported is of asks that were delivered; what is being delivered is not settled.
InOrder(s) == \A i, j \in DOMAIN s : i < j => Follows(s[i], s[j])
Settled ==
  /\ \A r \in Reported : r[1] \in 1..daemon.asks /\ r[1] \notin daemon.asked /\ r[1] # daemon.open
  /\ Delivering => /\ <<delivery.ask, "done">> \notin Reported
                   /\ ~delivery.cancelled => <<delivery.ask, "skipped">> \notin Reported
  /\ InOrder(told) /\ InOrder(reports)
  /\ \A i \in DOMAIN told, j \in DOMAIN reports : Follows(told[i], reports[j])

HoldInv == HoldTyped /\ Numbered /\ Guarded /\ Stops /\ Settled

\* Records of what the key, the delivery and the daemon are.
LEMMA HoldParts ==
  ASSUME HoldTyped
  PROVE  /\ app.id \in Nat /\ app.begin \in 0..MaxHolds /\ app.held \in BOOLEAN /\ app.hold \in 0..MaxHolds
         /\ app.attached \in BOOLEAN /\ delivery.ask \in Nat /\ delivery.cancelled \in BOOLEAN
         /\ daemon.open \in Nat /\ daemon.asked \subseteq Nat /\ daemon.asks \in Nat
         /\ \A h \in Holds : begins[h] \in BeginShape /\ begins[h].id \in Nat /\ release[h] \in ReleaseShape /\ release[h].of \in 0..MaxHolds
         /\ holdsLeft["overtake"] \in Nat /\ MaxHolds \in Nat
<1>1. app.id \in Nat /\ app.begin \in 0..MaxHolds /\ app.held \in BOOLEAN /\ app.hold \in 0..MaxHolds /\ app.attached \in BOOLEAN
  BY DEF HoldTyped, AppShape
<1>2. delivery.ask \in Nat /\ delivery.cancelled \in BOOLEAN
  BY DEF HoldTyped, DeliveryShape
<1>3. daemon.open \in Nat /\ daemon.asked \subseteq Nat /\ daemon.asks \in Nat
  BY DEF HoldTyped, SideShape
<1>4. \A h \in Holds : begins[h] \in BeginShape /\ begins[h].id \in Nat /\ release[h] \in ReleaseShape /\ release[h].of \in 0..MaxHolds
  BY DEF HoldTyped, BeginShape, ReleaseShape
<1> QED BY <1>1, <1>2, <1>3, <1>4, HoldConfigured DEF HoldTyped, HoldEvents

\* What was not asked of the key goes on as it is.
KeySame ==
  /\ app'.attached = app.attached /\ app'.held = app.held /\ app'.hold = app.hold /\ press' = press
  /\ app'.view = "listening" => app.view = "listening"
SideLater ==
  /\ daemon.asks <= daemon'.asks
  /\ daemon'.open <= daemon'.asks /\ daemon'.asked \subseteq 1..daemon'.asks /\ daemon'.open \notin daemon'.asked
  /\ \A a \in 1..daemon.asks : a \in daemon'.asked \cup {daemon'.open} => a \in daemon.asked \cup {daemon.open}
IdsKept ==
  /\ app'.id <= daemon'.asks /\ \A h \in Holds : begins'[h].id <= daemon'.asks
  /\ \A h \in Holds : release'[h].step \in {"waiting", "end"} => release'[h].of # 0
DeliveryKept ==
  /\ delivery'.ask = delivery.ask /\ (delivery.cancelled => delivery'.cancelled)
  /\ delivery'.step \notin {"no", "over"} => Delivering
Calm ==
  /\ KeySame /\ SideLater /\ IdsKept /\ DeliveryKept
  /\ holdsLeft'["overtake"] = holdsLeft["overtake"] /\ UNCHANGED <<reports, told>>

LEMMA FollowsSame ==
  ASSUME NEW a, NEW b, holdsLeft'["overtake"] = holdsLeft["overtake"]
  PROVE  Follows(a, b)' <=> Follows(a, b)
BY DEF Follows

LEMMA NumberedKept ==
  ASSUME HoldTyped, Numbered, HoldTyped', SideLater, IdsKept, DeliveryKept, app'.held => app'.hold # 0
  PROVE  Numbered'
<1>1. /\ daemon.asks \in Nat /\ daemon'.asks \in Nat /\ daemon'.open \in Nat /\ delivery.ask \in Nat /\ daemon.open \in Nat
      /\ daemon.asks <= daemon'.asks /\ delivery.ask <= daemon.asks /\ delivery'.ask = delivery.ask
  BY HoldParts DEF Numbered, SideLater, DeliveryKept, HoldTyped, SideShape
<1>2. delivery'.ask <= daemon'.asks
  BY <1>1
<1>3. delivery'.ask \notin daemon'.asked /\ (delivery'.ask # 0 => delivery'.ask # daemon'.open)
  <2>1. CASE delivery.ask = 0
    BY <1>1, <2>1 DEF SideLater
  <2>2. CASE delivery.ask # 0
    <3>1. delivery.ask \in 1..daemon.asks /\ delivery.ask \notin daemon.asked \cup {daemon.open}
      BY <1>1, <2>2 DEF Numbered
    <3> QED BY <1>1, <3>1 DEF SideLater
  <2> QED BY <2>1, <2>2
<1>4. Delivering' => delivery'.ask # 0
  BY <1>1 DEF DeliveryKept, Delivering, Numbered
<1> QED BY <1>2, <1>3, <1>4 DEF Numbered, SideLater, IdsKept

LEMMA CalmKeeps == ASSUME HoldInv, Calm, HoldTyped', Guarded' PROVE HoldInv'
<1>1. HoldTyped /\ Numbered /\ Stops /\ Settled /\ KeySame /\ SideLater /\ IdsKept /\ DeliveryKept
      /\ holdsLeft'["overtake"] = holdsLeft["overtake"] /\ reports' = reports /\ told' = told
  BY DEF HoldInv, Calm
<1>2. Numbered'
  <2>1. app'.held => app'.hold # 0
    BY <1>1 DEF KeySame, Numbered
  <2> QED BY <1>1, <2>1, NumberedKept
<1>3. Reported' = Reported /\ (Delivering' => Delivering) /\ delivery'.ask = delivery.ask /\ (delivery.cancelled => delivery'.cancelled)
  BY <1>1 DEF Reported, DeliveryKept, Delivering
<1>4. Stops'
  BY <1>1, <1>3 DEF Stops, KeySame
<1>5. Settled'
  <2>1. ASSUME NEW r \in Reported PROVE r[1] \in 1..daemon'.asks /\ r[1] \notin daemon'.asked /\ r[1] # daemon'.open
    <3>1. r[1] \in 1..daemon.asks /\ r[1] \notin daemon.asked \cup {daemon.open}
      BY <1>1 DEF Settled
    <3>2. daemon.asks \in Nat /\ daemon'.asks \in Nat /\ daemon.asks <= daemon'.asks
      BY <1>1 DEF HoldTyped, SideShape, SideLater
    <3>3. r[1] \in 1..daemon'.asks
      BY <3>1, <3>2
    <3> QED BY <1>1, <3>1, <3>3 DEF SideLater
  <2>2. \A a, b : Follows(a, b)' <=> Follows(a, b)
    BY <1>1, FollowsSame
  <2>3. InOrder(told)' /\ InOrder(reports)' /\ \A i \in DOMAIN told', j \in DOMAIN reports' : Follows(told[i], reports[j])'
    BY <1>1, <2>2 DEF Settled, InOrder
  <2>4. Delivering' => /\ <<delivery'.ask, "done">> \notin Reported'
                       /\ ~delivery'.cancelled => <<delivery'.ask, "skipped">> \notin Reported'
    <3>1. delivery.cancelled \in BOOLEAN /\ delivery'.cancelled \in BOOLEAN
      BY DEF HoldInv, HoldTyped, DeliveryShape
    <3> QED BY <1>1, <1>3, <3>1 DEF Settled
  <2> QED BY <1>1, <1>3, <2>1, <2>3, <2>4 DEF Settled
<1> QED BY <1>2, <1>4, <1>5 DEF HoldInv

LEMMA SideIdle ==
  ASSUME HoldInv, UNCHANGED daemon
  PROVE  SideLater
BY HoldParts DEF SideLater, HoldInv, Numbered

LEMMA HoldSpends ==
  ASSUME HoldTyped, NEW e \in HoldEvents, e # "overtake", HoldSpend(e)
  PROVE  holdsLeft' \in [HoldEvents -> Nat] /\ holdsLeft'["overtake"] = holdsLeft["overtake"]
<1>1. holdsLeft[e] \in Nat /\ holdsLeft[e] > 0 /\ holdsLeft' = [holdsLeft EXCEPT ![e] = @ - 1]
  BY DEF HoldTyped, HoldSpend
<1>2. holdsLeft[e] - 1 \in Nat
  BY <1>1
<1> QED BY <1>1, <1>2 DEF HoldTyped

\* What is shown changes nothing else.
Views == Messages \cup {"idle", "listening", "waiting", "speaking"}
SameButShown(a, b) ==
  b.begin = a.begin /\ b.held = a.held /\ b.hold = a.hold /\ b.attached = a.attached
LEMMA Shown ==
  ASSUME NEW a \in AppShape, NEW phase \in Views, NEW b, b = Show(a, phase)
  PROVE  b \in AppShape /\ b.view = phase /\ b.id = a.id /\ SameButShown(a, b)
<1>1. b = [a EXCEPT !.view = phase]
  BY DEF Show
<1>2. b \in AppShape
  BY <1>1 DEF AppShape, Views
<1> QED BY <1>1, <1>2 DEF AppShape, SameButShown
LEMMA IdSet ==
  ASSUME NEW a \in AppShape, NEW n \in Nat, NEW b, b = [a EXCEPT !.id = n]
  PROVE  b \in AppShape /\ b.view = a.view /\ b.id = n /\ SameButShown(a, b)
<1>1. b \in AppShape
  BY DEF AppShape
<1> QED BY <1>1 DEF AppShape, SameButShown
LEMMA LostShown ==
  ASSUME NEW a \in AppShape, NEW b, b = Lost(a)
  PROVE  b \in AppShape /\ b.view = "no_session" /\ b.id = 0 /\ SameButShown(a, b)
<1>1. b = [[a EXCEPT !.view = "no_session"] EXCEPT !.id = 0]
  BY DEF Lost, AppShape
<1>2. PICK c : c = [a EXCEPT !.view = "no_session"]
  OBVIOUS
<1>3. "no_session" \in Messages /\ 0 \in Nat
  BY DEF Messages
<1>4. c \in AppShape /\ c.view = "no_session" /\ SameButShown(a, c)
  BY <1>2, <1>3 DEF AppShape, SameButShown
<1> PICK d : d = [c EXCEPT !.id = 0]
  OBVIOUS
<1>6. b = d
  BY <1>1, <1>2
<1>7. b \in AppShape /\ b.view = c.view /\ b.id = 0 /\ SameButShown(c, b)
  BY <1>3, <1>4, <1>6, IdSet
<1> QED BY <1>4, <1>7 DEF SameButShown

LEMMA HoldBegins == HoldInit => HoldInv
<1> SUFFICES ASSUME HoldInit PROVE HoldInv
  OBVIOUS
<1>0. MaxHolds \in Nat /\ HoldScenarios \subseteq [HoldEvents -> Nat]
  BY HoldConfigured
<1>1. HoldTyped
  <2>1. app \in AppShape
    <3>1. 0 \in 0..MaxHolds /\ 0 \in Nat
      BY <1>0
    <3>2. app \in [session : {FALSE}, voice : {FALSE}, view : {"idle"}, id : {0}, begin : {0}, held : {FALSE}, hold : {0},
                   attached : {FALSE}, speaker : BOOLEAN]
      BY DEF HoldInit
    <3>3. PICK p \in BOOLEAN : app = [session |-> FALSE, voice |-> FALSE, view |-> "idle", id |-> 0, begin |-> 0, held |-> FALSE,
                                     hold |-> 0, attached |-> FALSE, speaker |-> p]
      BY <3>2
    <3> QED BY <3>1, <3>3 DEF AppShape
  <2>2. press \in [Holds -> {"no", "stopping", "done"}] /\ begins \in [Holds -> BeginShape]
    BY DEF HoldInit, BeginShape
  <2>3. release \in [Holds -> ReleaseShape]
    BY <1>0 DEF HoldInit, ReleaseShape
  <2>4. delivery \in DeliveryShape
    BY DEF HoldInit, NoDelivery, DeliveryShape
  <2>5. holdsLeft \in [HoldEvents -> Nat] /\ sink \in SinkStates
    BY <1>0 DEF HoldInit
  <2>6. daemon \in SideShape
    BY DEF HoldInit, SideShape
  <2>7. reports \in Seq(Nat \X States) /\ told \in Seq(Nat \X States)
    BY DEF HoldInit
  <2> QED BY <2>1, <2>2, <2>3, <2>4, <2>5, <2>6, <2>7 DEF HoldTyped
<1>2. delivery.step = "no" /\ delivery.ask = 0 /\ delivery.sounds = "no" /\ delivery.guard = "wait" /\ delivery.late = 0 /\ ~Delivering
  BY DEF HoldInit, NoDelivery, Delivering
<1>3. app.id = 0 /\ app.held = FALSE /\ app.view = "idle" /\ daemon.open = 0 /\ daemon.asks = 0 /\ daemon.asked = {}
  BY DEF HoldInit
<1>4. Numbered
  <2>1. \A h \in Holds : begins[h].id = 0 /\ release[h].step = "no"
    BY DEF HoldInit
  <2> QED BY <1>2, <1>3, <2>1 DEF Numbered
<1>5. Guarded
  BY <1>2 DEF Guarded
<1>6. Stops
  BY <1>2 DEF Stops
<1>7. Settled
  <2>1. told = <<>> /\ reports = <<>>
    BY DEF HoldInit
  <2>2. Reported = {}
    BY <2>1 DEF Reported, Range
  <2> QED BY <1>2, <2>1, <2>2 DEF Settled, InOrder
<1> QED BY <1>1, <1>4, <1>5, <1>6, <1>7 DEF HoldInv

-----------------------------------------------------------------------------
(* Steps that leave the key and the delivery alone.                         *)

LEMMA GuardedSame ==
  ASSUME HoldTyped, Guarded, delivery' = delivery \/ delivery' = [delivery EXCEPT !.cancelled = TRUE]
  PROVE  delivery' \in DeliveryShape /\ Guarded' /\ DeliveryKept
<1>1. CASE delivery' = delivery
  BY <1>1 DEF HoldTyped, Guarded, Delivering, DeliveryKept
<1>2. CASE delivery' = [delivery EXCEPT !.cancelled = TRUE]
  <2>1. delivery' \in DeliveryShape
    BY <1>2 DEF HoldTyped, DeliveryShape
  <2>2. /\ delivery'.step = delivery.step /\ delivery'.ask = delivery.ask /\ delivery'.sounds = delivery.sounds
        /\ delivery'.guard = delivery.guard /\ delivery'.late = delivery.late /\ delivery'.read = delivery.read
        /\ delivery'.cancelled = TRUE
    BY <1>2 DEF HoldTyped, DeliveryShape
  <2> QED BY <2>1, <2>2 DEF Guarded, Delivering, DeliveryKept
<1> QED BY <1>1, <1>2

BeginsOK == begins' \in [Holds -> BeginShape] /\ \A h \in Holds : begins'[h].id <= daemon'.asks
ReleaseOK ==
  /\ release' \in [Holds -> ReleaseShape]
  /\ \A h \in Holds : release'[h].step \in {"waiting", "end"} => release'[h].of # 0

LEMMA BeginsSame == ASSUME HoldInv, UNCHANGED <<begins, daemon>> PROVE BeginsOK
BY DEF BeginsOK, HoldInv, HoldTyped, Numbered
LEMMA ReleaseSame == ASSUME HoldInv, UNCHANGED release PROVE ReleaseOK
BY DEF ReleaseOK, HoldInv, HoldTyped, Numbered

\* The pill changes, or a request goes on.
LEMMA PillMoves ==
  ASSUME HoldInv, app' \in AppShape, SameButShown(app, app'), app'.view = "listening" => app.view = "listening",
         app'.id <= daemon.asks, delivery' = delivery \/ delivery' = [delivery EXCEPT !.cancelled = TRUE],
         BeginsOK, ReleaseOK, UNCHANGED <<press, reports, told, daemon, sink, holdsLeft>>
  PROVE  HoldInv'
<1>1. delivery' \in DeliveryShape /\ Guarded' /\ DeliveryKept
  BY GuardedSame DEF HoldInv
<1>2. HoldTyped'
  BY <1>1 DEF HoldInv, HoldTyped, BeginsOK, ReleaseOK
<1>3. SideLater
  BY SideIdle
<1>4. Calm
  BY <1>1, <1>3 DEF Calm, KeySame, IdsKept, SameButShown, BeginsOK, ReleaseOK
<1> QED BY <1>1, <1>2, <1>4, CalmKeeps

LEMMA DismissKeeps == ASSUME HoldInv, Dismiss PROVE HoldInv'
<1>1. UNCHANGED <<press, begins, release, delivery, reports, told, daemon, sink, holdsLeft>> /\ app \in AppShape
      /\ app.id <= daemon.asks /\ daemon.asks \in Nat
  BY HoldParts DEF Dismiss, HoldInv, HoldTyped, Numbered
<1>2. /\ app' \in AppShape /\ SameButShown(app, app') /\ app'.view # "listening" /\ app'.id <= daemon.asks
  <2>1. CASE app' = Show(app, "idle")
    BY <1>1, <2>1, Shown DEF Views
  <2>2. CASE app' = [app EXCEPT !.view = "no_answer", !.id = 0]
    <3>1. PICK b : b = Show(app, "no_answer")
      OBVIOUS
    <3>2. b \in AppShape /\ b.view = "no_answer" /\ SameButShown(app, b)
      BY <1>1, <3>1, Shown DEF Views, Messages
    <3>3. app' = [b EXCEPT !.id = 0]
      BY <1>1, <2>2, <3>1 DEF Show, AppShape
    <3>4. app' \in AppShape /\ app'.view = b.view /\ app'.id = 0 /\ SameButShown(b, app')
      BY <3>2, <3>3, IdSet
    <3> QED BY <1>1, <3>2, <3>4 DEF SameButShown
  <2> QED BY <2>1, <2>2 DEF Dismiss
<1> QED BY <1>1, <1>2, BeginsSame, ReleaseSame, PillMoves

LEMMA SubscribedKeeps == ASSUME HoldInv, Subscribed PROVE HoldInv'
<1>1. UNCHANGED <<press, begins, release, delivery, reports, told, daemon, sink, holdsLeft>> /\ app \in AppShape
      /\ app.id <= daemon.asks /\ daemon.voice \in BOOLEAN
  BY DEF Subscribed, HoldInv, HoldTyped, Numbered, SideShape
<1>2. app' = [[app EXCEPT !.session = TRUE] EXCEPT !.voice = daemon.voice]
  BY <1>1 DEF Subscribed, AppShape
<1>3. app' \in AppShape /\ app'.view = app.view /\ app'.id = app.id /\ SameButShown(app, app')
  BY <1>1, <1>2 DEF AppShape, SameButShown
<1> QED BY <1>1, <1>3, BeginsSame, ReleaseSame, PillMoves

LEMMA OnSessionEndedKeeps == ASSUME HoldInv, OnSessionEnded PROVE HoldInv'
<1>1. UNCHANGED <<press, begins, release, reports, told, daemon, sink, holdsLeft>> /\ app \in AppShape
      /\ app.id <= daemon.asks /\ daemon.asks \in Nat
  BY HoldParts DEF OnSessionEnded, HoldInv, HoldTyped, Numbered
<1>2. PICK a : a = [[app EXCEPT !.session = FALSE] EXCEPT !.voice = FALSE]
  OBVIOUS
<1>3. a \in AppShape /\ a.view = app.view /\ a.id = app.id /\ SameButShown(app, a)
  BY <1>1, <1>2 DEF AppShape, SameButShown
<1>4. (app' = Lost(a) \/ app' = a) /\ (delivery' = delivery \/ delivery' = [delivery EXCEPT !.cancelled = TRUE])
  <2>1. a = [app EXCEPT !.session = FALSE, !.voice = FALSE]
    BY <1>1, <1>2 DEF AppShape
  <2> QED BY <2>1 DEF OnSessionEnded
<1>5. app' \in AppShape /\ SameButShown(app, app') /\ (app'.view = "listening" => app.view = "listening") /\ app'.id <= daemon.asks
  <2>1. CASE app' = a
    BY <1>1, <1>3, <2>1
  <2>2. CASE app' = Lost(a)
    <3>1. app' \in AppShape /\ app'.view = "no_session" /\ app'.id = 0 /\ SameButShown(a, app')
      BY <1>3, <2>2, LostShown
    <3> QED BY <1>1, <1>3, <3>1 DEF SameButShown
  <2> QED BY <1>4, <2>1, <2>2
<1> QED BY <1>1, <1>4, <1>5, BeginsSame, ReleaseSame, PillMoves

LEMMA UpBegunKeeps == ASSUME HoldInv, NEW h \in Holds, UpBegun(h) PROVE HoldInv'
<1>1. UNCHANGED <<app, press, begins, delivery, reports, told, daemon, sink, holdsLeft>> /\ app \in AppShape
      /\ app.id <= daemon.asks /\ release[h].step = "waiting" /\ release \in [Holds -> ReleaseShape]
  BY DEF UpBegun, HoldInv, HoldTyped, Numbered
<1>2. PICK s \in {"done", "end"} : release' = [release EXCEPT ![h].step = s]
  BY DEF UpBegun
<1>3. PICK x : x = [release[h] EXCEPT !.step = s]
  OBVIOUS
<1>4. release[h] \in ReleaseShape /\ release[h].of # 0
  BY <1>1 DEF HoldInv, Numbered
<1>5. x \in ReleaseShape /\ x.of # 0 /\ release' = [release EXCEPT ![h] = x]
  BY <1>1, <1>2, <1>3, <1>4 DEF ReleaseShape
<1>6. ReleaseOK
  BY <1>1, <1>5, ReleaseSame DEF ReleaseOK, HoldInv, Numbered
<1>7. SameButShown(app, app')
  BY <1>1 DEF SameButShown
<1> QED BY <1>1, <1>6, <1>7, BeginsSame, PillMoves

LEMMA UpEndedKeeps == ASSUME HoldInv, NEW h \in Holds, UpEnded(h) PROVE HoldInv'
<1>1. UNCHANGED <<press, begins, delivery, reports, told, daemon, sink, holdsLeft>> /\ app \in AppShape
      /\ app.id <= daemon.asks /\ daemon.asks \in Nat /\ release \in [Holds -> ReleaseShape]
      /\ release' = [release EXCEPT ![h].step = "done"]
  BY HoldParts DEF UpEnded, HoldInv, HoldTyped, Numbered
<1>2. PICK x : x = [release[h] EXCEPT !.step = "done"]
  OBVIOUS
<1>3. x \in ReleaseShape /\ x.step = "done" /\ release' = [release EXCEPT ![h] = x]
  BY <1>1, <1>2 DEF ReleaseShape
<1>4. ReleaseOK
  BY <1>1, <1>3 DEF ReleaseOK, HoldInv, Numbered
<1>5. app' = Lost(app) \/ app' = Show(app, "waiting") \/ app' = app \/ app' = Show(app, "failed")
  BY DEF UpEnded
<1>6. app' \in AppShape /\ SameButShown(app, app') /\ (app'.view = "listening" => app.view = "listening") /\ app'.id <= daemon.asks
  <2>1. CASE app' = Lost(app)
    BY <1>1, <2>1, LostShown
  <2>2. ASSUME NEW v \in {"waiting", "failed"}, app' = Show(app, v)
        PROVE  app' \in AppShape /\ SameButShown(app, app') /\ app'.view # "listening" /\ app'.id <= daemon.asks
    <3>1. v \in Views
      BY DEF Views, Messages
    <3> QED BY <1>1, <2>2, <3>1, Shown
  <2>3. CASE app' = app
    BY <1>1, <2>3 DEF SameButShown
  <2> QED BY <1>5, <2>1, <2>2, <2>3
<1> QED BY <1>1, <1>4, <1>6, BeginsSame, PillMoves

LEMMA BegunKeeps == ASSUME HoldInv, NEW h \in Holds, Begun(h) PROVE HoldInv'
<1>1. UNCHANGED <<press, release, delivery, reports, told, daemon, sink, holdsLeft>> /\ app \in AppShape
      /\ app.id <= daemon.asks /\ daemon.asks \in Nat /\ begins \in [Holds -> BeginShape]
      /\ begins[h].id <= daemon.asks /\ begins[h].id \in Nat /\ \A g \in Holds : begins[g].id <= daemon.asks
  BY HoldParts DEF Begun, HoldInv, HoldTyped, Numbered
<1>2. \/ \E s \in {"closing", "again"} : begins' = [begins EXCEPT ![h].step = s, ![h].answer = "none"] /\ app' = app
      \/ /\ begins' = [begins EXCEPT ![h].step = "over"]
         /\ \/ app' = Lost(app) \/ (\E v \in {"voice_off", "failed"} : app' = Show(app, v))
            \/ app' = [app EXCEPT !.id = begins[h].id]
  BY DEF Begun
<1>3. BeginsOK
  <2>1. \E x \in BeginShape : x.id = begins[h].id /\ begins' = [begins EXCEPT ![h] = x]
    <3>1. CASE begins' = [begins EXCEPT ![h].step = "over"]
      <4>1. PICK x : x = [begins[h] EXCEPT !.step = "over"]
        OBVIOUS
      <4>2. x \in BeginShape /\ x.id = begins[h].id /\ begins' = [begins EXCEPT ![h] = x]
        BY <1>1, <3>1, <4>1 DEF BeginShape
      <4> QED BY <4>2
    <3>2. ASSUME NEW s \in {"closing", "again"}, begins' = [begins EXCEPT ![h].step = s, ![h].answer = "none"]
          PROVE  \E x \in BeginShape : x.id = begins[h].id /\ begins' = [begins EXCEPT ![h] = x]
      <4>1. PICK x : x = [[begins[h] EXCEPT !.step = s] EXCEPT !.answer = "none"]
        OBVIOUS
      <4>2. x \in BeginShape /\ x.id = begins[h].id
        BY <1>1, <4>1 DEF BeginShape
      <4>3. begins' = [begins EXCEPT ![h] = x]
        BY <1>1, <3>2, <4>1
      <4> QED BY <4>2, <4>3
    <3> QED BY <1>2, <3>1, <3>2
  <2> QED BY <1>1, <2>1 DEF BeginsOK
<1>4. app' \in AppShape /\ SameButShown(app, app') /\ (app'.view = "listening" => app.view = "listening") /\ app'.id <= daemon.asks
  <2>1. CASE app' = Lost(app)
    BY <1>1, <2>1, LostShown
  <2>2. ASSUME NEW v \in {"voice_off", "failed"}, app' = Show(app, v)
        PROVE  app' \in AppShape /\ SameButShown(app, app') /\ app'.view # "listening" /\ app'.id <= daemon.asks
    <3>1. v \in Views
      BY DEF Views, Messages
    <3> QED BY <1>1, <2>2, <3>1, Shown
  <2>3. CASE app' = app
    BY <1>1, <2>3 DEF SameButShown
  <2>4. CASE app' = [app EXCEPT !.id = begins[h].id]
    BY <1>1, <2>4, IdSet
  <2> QED BY <1>2, <2>1, <2>2, <2>3, <2>4
<1> QED BY <1>1, <1>3, <1>4, ReleaseSame, PillMoves

-----------------------------------------------------------------------------
(* The daemon.                                                              *)

\* The daemon moves on, and the key, the pill and the delivery do not.
LEMMA SideMoves ==
  ASSUME HoldInv, daemon' \in SideShape, SideLater, BeginsOK, ReleaseOK,
         holdsLeft' \in [HoldEvents -> Nat], holdsLeft'["overtake"] = holdsLeft["overtake"],
         sink' \in SinkStates, UNCHANGED <<app, press, delivery, reports, told>>
  PROVE  HoldInv'
<1>1. delivery' \in DeliveryShape /\ Guarded' /\ DeliveryKept
  BY GuardedSame DEF HoldInv
<1>2. HoldTyped'
  BY <1>1 DEF HoldInv, HoldTyped, BeginsOK, ReleaseOK
<1>3. app'.id <= daemon'.asks
  <2>1. app.id <= daemon.asks /\ daemon.asks <= daemon'.asks /\ app' = app
    BY DEF HoldInv, Numbered, SideLater
  <2>2. app.id \in Nat /\ daemon.asks \in Nat /\ daemon'.asks \in Nat
    BY HoldParts DEF HoldInv, SideShape
  <2> QED BY <2>1, <2>2
<1>4. Calm
  BY <1>1, <1>3 DEF Calm, KeySame, IdsKept, BeginsOK, ReleaseOK
<1> QED BY <1>1, <1>2, <1>4, CalmKeeps

LEMMA DaemonChangesKeeps == ASSUME HoldInv, DaemonChanges PROVE HoldInv'
<1>1. UNCHANGED <<app, press, begins, release, delivery, reports, told, sink>> /\ HoldTyped /\ daemon \in SideShape
      /\ holdsLeft \in [HoldEvents -> Nat] /\ sink' \in SinkStates
  BY DEF DaemonChanges, HoldInv, HoldTyped
<1>2. /\ holdsLeft' \in [HoldEvents -> Nat] /\ holdsLeft'["overtake"] = holdsLeft["overtake"]
  <2>1. HoldSpend("gone") \/ HoldSpend("voice") \/ UNCHANGED holdsLeft
    BY DEF DaemonChanges
  <2>2. "gone" \in HoldEvents /\ "voice" \in HoldEvents
    BY DEF HoldEvents
  <2> QED BY <1>1, <2>1, <2>2, HoldSpends
<1>3. /\ daemon' \in SideShape /\ daemon'.asks = daemon.asks
      /\ (daemon'.open = 0 /\ daemon'.asked = {}) \/ (daemon'.open = daemon.open /\ daemon'.asked = daemon.asked)
  <2>1. CASE daemon' = [daemon EXCEPT !.up = FALSE, !.open = 0, !.asked = {}]
    <3>1. PICK x : x = [[[daemon EXCEPT !.up = FALSE] EXCEPT !.open = 0] EXCEPT !.asked = {}]
      OBVIOUS
    <3>2. daemon' = x
      BY <1>1, <2>1, <3>1 DEF SideShape
    <3> QED BY <1>1, <3>1, <3>2 DEF SideShape
  <2>2. CASE daemon' = [daemon EXCEPT !.up = TRUE]
    BY <1>1, <2>2 DEF SideShape
  <2>3. CASE daemon' = [daemon EXCEPT !.voice = ~@]
    BY <1>1, <2>3 DEF SideShape
  <2> QED BY <2>1, <2>2, <2>3 DEF DaemonChanges
<1>4. SideLater /\ \A h \in Holds : begins[h].id <= daemon'.asks
  <2>1. daemon.asks \in Nat /\ daemon.open <= daemon.asks /\ daemon.asked \subseteq 1..daemon.asks /\ daemon.open \notin daemon.asked
        /\ \A h \in Holds : begins[h].id <= daemon.asks
    BY HoldParts DEF HoldInv, Numbered
  <2> QED BY <1>3, <2>1 DEF SideLater
<1>5. BeginsOK
  BY <1>1, <1>4 DEF BeginsOK, HoldTyped
<1> QED BY <1>1, <1>2, <1>3, <1>4, <1>5, ReleaseSame, SideMoves

LEMMA RewireKeeps == ASSUME HoldInv, Rewire PROVE HoldInv'
<1>1. UNCHANGED <<app, press, begins, release, delivery, reports, told, daemon>> /\ HoldTyped /\ daemon' \in SideShape /\ sink' \in SinkStates
  BY DEF Rewire, HoldInv, HoldTyped
<1>2. holdsLeft' \in [HoldEvents -> Nat] /\ holdsLeft'["overtake"] = holdsLeft["overtake"]
  BY <1>1, HoldSpends DEF Rewire, HoldEvents
<1> QED BY <1>1, <1>2, SideIdle, BeginsSame, ReleaseSame, SideMoves

\* What the daemon is after a request: as it was, with a new ask, or with the open one ended.
LEMMA BeginLater ==
  ASSUME HoldInv, daemon' \in {daemon, OnBegin[2]} PROVE daemon' \in SideShape /\ SideLater
<1>1. daemon \in SideShape /\ daemon.asks \in Nat /\ daemon.open \in Nat /\ daemon.open <= daemon.asks
      /\ daemon.asked \subseteq 1..daemon.asks /\ daemon.open \notin daemon.asked
  BY HoldParts DEF HoldInv, HoldTyped, Numbered
<1>2. PICK n \in Nat : n = daemon.asks + 1 /\ n \notin 1..daemon.asks /\ daemon.asks <= n
  <2>1. daemon.asks \in Nat
    BY <1>1
  <2> QED BY ONLY <2>1
<1>3. PICK x : x = [[daemon EXCEPT !.open = n] EXCEPT !.asks = n]
  OBVIOUS
<1>4. x \in SideShape /\ x.open = n /\ x.asks = n /\ x.asked = daemon.asked
  BY <1>1, <1>3 DEF SideShape
<1>5. daemon' = daemon \/ daemon' = x
  <2>1. x = [daemon EXCEPT !.open = daemon.asks + 1, !.asks = @ + 1]
    BY <1>1, <1>2, <1>3 DEF SideShape
  <2> QED BY <2>1 DEF OnBegin
<1>6. CASE daemon' = daemon
  BY <1>1, <1>6, SideIdle
<1>7. CASE daemon' = x
  <2>1. x.asked \subseteq 1..x.asks /\ x.open \notin x.asked
    BY <1>1, <1>2, <1>4
  <2>2. \A a \in 1..daemon.asks : a \in x.asked \cup {x.open} => a \in daemon.asked \cup {daemon.open}
    BY <1>2, <1>4
  <2>3. x.open <= x.asks /\ daemon.asks <= x.asks
    BY <1>2, <1>4
  <2> QED BY <1>4, <1>7, <2>1, <2>2, <2>3 DEF SideLater
<1> QED BY <1>5, <1>6, <1>7

LEMMA EndLater ==
  ASSUME HoldInv, daemon' \in {daemon, OnEnd[2]} PROVE daemon' \in SideShape /\ SideLater
<1>1. daemon \in SideShape /\ daemon.asks \in Nat /\ daemon.open \in Nat /\ daemon.open <= daemon.asks
      /\ daemon.asked \subseteq 1..daemon.asks /\ daemon.open \notin daemon.asked
  BY HoldParts DEF HoldInv, HoldTyped, Numbered
<1>2. PICK s : s = daemon.asked \cup {daemon.open}
  OBVIOUS
<1>3. PICK x : x = [[daemon EXCEPT !.open = 0] EXCEPT !.asked = s]
  OBVIOUS
<1>4. x \in SideShape /\ x.open = 0 /\ x.asks = daemon.asks /\ x.asked = s
  BY <1>1, <1>2, <1>3 DEF SideShape
<1>5. daemon' = daemon \/ (daemon' = x /\ daemon.open # 0)
  <2>1. x = [daemon EXCEPT !.open = 0, !.asked = @ \cup {daemon.open}]
    BY <1>1, <1>2, <1>3 DEF SideShape
  <2> QED BY <2>1 DEF OnEnd
<1>6. CASE daemon' = daemon
  BY <1>1, <1>6, SideIdle
<1>7. CASE daemon' = x /\ daemon.open # 0
  <2>1. daemon.open \in 1..daemon.asks
    BY <1>1, <1>7
  <2>2. x.asked \subseteq 1..x.asks /\ x.open \notin x.asked /\ x.open <= x.asks /\ daemon.asks <= x.asks
    BY <1>1, <1>2, <1>4, <2>1
  <2>3. \A a \in 1..daemon.asks : a \in x.asked \cup {x.open} => a \in daemon.asked \cup {daemon.open}
    BY <1>2, <1>4
  <2> QED BY <1>4, <1>7, <2>2, <2>3 DEF SideLater
<1> QED BY <1>5, <1>6, <1>7

LEMMA AnsweredParts ==
  ASSUME HoldTyped, NEW outcome, NEW answer, Answered(outcome, answer)
  PROVE  daemon' \in {daemon, outcome[2]} /\ holdsLeft' \in [HoldEvents -> Nat] /\ holdsLeft'["overtake"] = holdsLeft["overtake"]
BY HoldSpends DEF Answered, HoldTyped, HoldEvents

LEMMA AnswerBeginKeeps == ASSUME HoldInv, NEW h \in Holds, AnswerBegin(h) PROVE HoldInv'
<1>1. UNCHANGED <<app, press, release, delivery, reports, told, sink>> /\ HoldTyped /\ sink' \in SinkStates
      /\ begins \in [Holds -> BeginShape]
  BY DEF AnswerBegin, HoldInv, HoldTyped
<1>2. PICK a \in AskAnswers :
        /\ Answered(IF begins[h].step = "closing" THEN OnEnd ELSE OnBegin, a)
        /\ begins' = [begins EXCEPT ![h].answer = a,
                                    ![h].id = IF a = "ok" /\ begins[h].step # "closing" THEN daemon'.asks ELSE 0]
  BY DEF AnswerBegin
<1>3. holdsLeft' \in [HoldEvents -> Nat] /\ holdsLeft'["overtake"] = holdsLeft["overtake"]
  BY <1>1, <1>2, AnsweredParts
<1>4. daemon' \in SideShape /\ SideLater
  BY <1>1, <1>2, AnsweredParts, BeginLater, EndLater
<1>5. PICK n \in Nat : n = (IF a = "ok" /\ begins[h].step # "closing" THEN daemon'.asks ELSE 0) /\ n <= daemon'.asks
  BY <1>4 DEF SideShape
<1>6. PICK x : x = [[begins[h] EXCEPT !.answer = a] EXCEPT !.id = n]
  OBVIOUS
<1>7. x \in BeginShape /\ x.id = n
  BY <1>1, <1>6 DEF BeginShape
<1>8. begins' = [begins EXCEPT ![h] = x]
  BY <1>1, <1>2, <1>5, <1>6
<1>9. BeginsOK
  <2>1. \A g \in Holds : begins[g].id <= daemon.asks /\ begins[g].id \in Nat
    BY HoldParts DEF HoldInv, Numbered
  <2>2. daemon.asks <= daemon'.asks /\ daemon.asks \in Nat /\ daemon'.asks \in Nat
    BY <1>4, HoldParts DEF HoldInv, SideLater, SideShape
  <2>3. \A g \in Holds : begins[g].id <= daemon'.asks
    BY <2>1, <2>2
  <2> QED BY <1>1, <1>5, <1>7, <1>8, <2>3 DEF BeginsOK
<1> QED BY <1>1, <1>3, <1>4, <1>9, ReleaseSame, SideMoves

LEMMA AnswerEndKeeps == ASSUME HoldInv, NEW h \in Holds, AnswerEnd(h) PROVE HoldInv'
<1>1. UNCHANGED <<app, press, begins, delivery, reports, told, sink>> /\ HoldTyped /\ sink' \in SinkStates
      /\ begins \in [Holds -> BeginShape] /\ release \in [Holds -> ReleaseShape] /\ release[h].step = "end"
  BY DEF AnswerEnd, HoldInv, HoldTyped
<1>2. PICK a \in AskAnswers : Answered(OnEnd, a) /\ release' = [release EXCEPT ![h].answer = a]
  BY DEF AnswerEnd
<1>3. holdsLeft' \in [HoldEvents -> Nat] /\ holdsLeft'["overtake"] = holdsLeft["overtake"] /\ daemon' \in SideShape /\ SideLater
  BY <1>1, <1>2, AnsweredParts, EndLater
<1>4. PICK x : x = [release[h] EXCEPT !.answer = a]
  OBVIOUS
<1>5. release[h] \in ReleaseShape /\ x \in ReleaseShape /\ x.of = release[h].of /\ release[h].of # 0 /\ release' = [release EXCEPT ![h] = x]
  BY <1>1, <1>2, <1>4 DEF ReleaseShape, HoldInv, Numbered
<1>6. ReleaseOK
  BY <1>1, <1>5 DEF ReleaseOK, HoldInv, Numbered
<1>7. BeginsOK
  <2>1. \A g \in Holds : begins[g].id <= daemon.asks /\ begins[g].id \in Nat
    BY HoldParts DEF HoldInv, Numbered
  <2>2. daemon.asks <= daemon'.asks /\ daemon.asks \in Nat /\ daemon'.asks \in Nat
    BY <1>3, HoldParts DEF HoldInv, SideLater, SideShape
  <2>3. \A g \in Holds : begins[g].id <= daemon'.asks
    BY <2>1, <2>2
  <2> QED BY <1>1, <2>3 DEF BeginsOK
<1> QED BY <1>1, <1>3, <1>6, <1>7, SideMoves

-----------------------------------------------------------------------------
(* The delivery.                                                            *)

LEMMA SpeechGoes ==
  ASSUME HoldInv, delivery' \in DeliveryShape, Guarded', DeliveryKept, app' = app \/ app' = Show(app, "speaking"),
         holdsLeft' \in [HoldEvents -> Nat], holdsLeft'["overtake"] = holdsLeft["overtake"],
         UNCHANGED <<press, begins, release, reports, told, daemon, sink>>
  PROVE  HoldInv'
<1>1. app' \in AppShape /\ SameButShown(app, app') /\ (app'.view = "listening" => app.view = "listening") /\ app'.id = app.id
  <2>1. app \in AppShape /\ "speaking" \in Views
    BY DEF HoldInv, HoldTyped, Views
  <2>2. CASE app' = app
    BY <2>1, <2>2 DEF SameButShown
  <2>3. CASE app' = Show(app, "speaking")
    BY <2>1, <2>3, Shown
  <2> QED BY <2>2, <2>3
<1>2. HoldTyped'
  BY <1>1 DEF HoldInv, HoldTyped
<1>3. SideLater
  BY SideIdle
<1>4. Calm
  BY <1>1, <1>3 DEF Calm, KeySame, IdsKept, SameButShown, HoldInv, Numbered
<1> QED BY <1>2, <1>4, CalmKeeps

\* Where the delivery is.
LEMMA DeliveryParts ==
  ASSUME HoldInv, Delivering
  PROVE  /\ delivery \in DeliveryShape /\ delivery.ask \in 1..daemon.asks /\ delivery.ask \notin daemon.asked
         /\ delivery.ask # daemon.open /\ delivery.ask \in Nat
         /\ delivery.sounds # "no" => delivery.step = "speaking"
         /\ delivery.guard = "wait" => delivery.late = 0
         /\ delivery.guard = "read" /\ delivery.late = 1 => ~Closed(delivery.read)
<1>1. delivery \in DeliveryShape /\ delivery.ask \in Nat /\ daemon.asks \in Nat
  BY HoldParts DEF HoldInv, HoldTyped
<1> QED BY <1>1 DEF HoldInv, Numbered, Guarded

\* One more report, which nothing told or waiting forbids.
InTurn ==
  InOrder(told) /\ InOrder(reports) /\ \A i \in DOMAIN told, j \in DOMAIN reports : Follows(told[i], reports[j])

LEMMA RangeParts == ASSUME NEW S, NEW s \in Seq(S) PROVE Range(s) \subseteq S /\ \A i \in DOMAIN s : s[i] \in Range(s)
<1>1. \A i \in DOMAIN s : s[i] \in S
  OBVIOUS
<1> QED BY <1>1 DEF Range

LEMMA ReportAdded ==
  ASSUME HoldTyped, NEW r \in Nat \X States, reports' = Append(reports, r), told' = told,
         holdsLeft'["overtake"] = holdsLeft["overtake"], InTurn, \A q \in Reported : Follows(q, r)
  PROVE  reports' \in Seq(Nat \X States) /\ Reported' = Reported \cup {r} /\ InTurn'
<1>1. reports \in Seq(Nat \X States) /\ told \in Seq(Nat \X States)
  BY DEF HoldTyped
<1>2. PICK n \in Nat : n = Len(reports) /\ DOMAIN reports = 1..n
  BY <1>1
<1>3. /\ reports' \in Seq(Nat \X States) /\ DOMAIN reports' = 1..n + 1 /\ reports'[n + 1] = r
      /\ \A i \in 1..n : reports'[i] = reports[i]
  BY <1>1, <1>2, AppendProperties
<1>4. Reported' = Reported \cup {r}
  <2>1. Range(reports)' = Range(reports) \cup {r}
    <3>1. \A i \in 1..n + 1 : i \in 1..n \/ i = n + 1
      BY <1>2
    <3>2. \A i \in 1..n : i \in 1..n + 1
      BY <1>2
    <3>3. n + 1 \in 1..n + 1
      BY <1>2
    <3> QED BY <1>2, <1>3, <3>1, <3>2, <3>3 DEF Range
  <2> QED BY <2>1 DEF Reported
<1>5. \A a, b : Follows(a, b)' <=> Follows(a, b)
  BY FollowsSame
<1>6. \A i \in 1..n : reports[i] \in Reported
  BY <1>1, <1>2, RangeParts DEF Reported
<1>7. \A i \in DOMAIN told : told[i] \in Reported
  BY <1>1, RangeParts DEF Reported
<1>8. ASSUME NEW i \in 1..n + 1, NEW j \in 1..n + 1, i < j PROVE Follows(reports'[i], reports'[j])
  <2>1. i \in 1..n
    BY <1>2, <1>8
  <2>2. CASE j \in 1..n
    BY <1>2, <1>3, <1>8, <2>1, <2>2 DEF InTurn, InOrder
  <2>3. CASE j = n + 1
    BY <1>3, <1>6, <2>1, <2>3
  <2> QED BY <1>2, <2>2, <2>3
<1>9. InOrder(reports)'
  BY <1>3, <1>5, <1>8 DEF InOrder
<1>10. InOrder(told)'
  BY <1>5 DEF InTurn, InOrder
<1>11. ASSUME NEW i \in DOMAIN told, NEW j \in 1..n + 1 PROVE Follows(told[i], reports'[j])
  <2>1. CASE j \in 1..n
    BY <1>2, <1>3, <2>1 DEF InTurn
  <2>2. CASE j = n + 1
    BY <1>3, <1>7, <2>2
  <2> QED BY <1>2, <2>1, <2>2
<1>12. \A i \in DOMAIN told', j \in DOMAIN reports' : Follows(told[i], reports[j])'
  BY <1>3, <1>5, <1>11
<1> QED BY <1>3, <1>4, <1>9, <1>10, <1>12 DEF InTurn

\* A report of what is being delivered.
LEMMA AskReported ==
  ASSUME HoldInv, Delivering, NEW s \in States, reports' = Report(delivery.ask, s), UNCHANGED <<told, daemon>>,
         holdsLeft'["overtake"] = holdsLeft["overtake"],
         s # "started" /\ <<delivery.ask, "skipped">> \in Reported => s = "skipped" /\ holdsLeft["overtake"] > 0
  PROVE  /\ reports' \in Seq(Nat \X States) /\ Reported' = Reported \cup {<<delivery.ask, s>>} /\ InTurn'
         /\ \A r \in Reported' : r[1] \in 1..daemon'.asks /\ r[1] \notin daemon'.asked /\ r[1] # daemon'.open
<1>1. HoldTyped /\ Settled /\ delivery.ask \in Nat /\ delivery.ask \in 1..daemon.asks /\ delivery.ask \notin daemon.asked
      /\ delivery.ask # daemon.open
  BY DeliveryParts DEF HoldInv
<1>2. PICK r \in Nat \X States : r = <<delivery.ask, s>> /\ r[1] = delivery.ask /\ r[2] = s
  <2> PICK r : r = <<delivery.ask, s>>
    OBVIOUS
  <2>1. r \in Nat \X States /\ r[1] = delivery.ask /\ r[2] = s
    BY <1>1
  <2> QED BY <2>1
<1>3. reports' = Append(reports, r)
  BY <1>2 DEF Report
<1>4. ASSUME NEW q \in Reported PROVE Follows(q, r)
  <2>1. q \in Nat \X States
    BY <1>1, RangeParts DEF Reported, HoldTyped
  <2>2. q = <<q[1], q[2]>> /\ q[2] \in States
    BY <2>1
  <2>3. CASE q[1] # r[1]
    BY <2>3 DEF Follows
  <2>4. CASE q[1] = r[1]
    <3>1. q[2] # "done"
      BY <1>1, <1>2, <2>2, <2>4 DEF Settled
    <3>2. CASE q[2] = "started"
      BY <3>2 DEF Follows
    <3>3. CASE q[2] = "skipped"
      <4>1. <<delivery.ask, "skipped">> \in Reported
        BY <1>2, <2>2, <2>4, <3>3
      <4>2. CASE s = "started"
        BY <1>2, <3>3, <4>2 DEF Follows
      <4>3. CASE s # "started"
        BY <1>2, <3>3, <4>1, <4>3 DEF Follows
      <4> QED BY <4>2, <4>3
    <3> QED BY <2>2, <3>1, <3>2, <3>3 DEF States
  <2> QED BY <2>3, <2>4
<1>5. InTurn
  BY <1>1 DEF Settled, InTurn
<1>6. reports' \in Seq(Nat \X States) /\ Reported' = Reported \cup {r} /\ InTurn'
  BY <1>1, <1>3, <1>4, <1>5, ReportAdded
<1>7. \A q \in Reported' : q[1] \in 1..daemon'.asks /\ q[1] \notin daemon'.asked /\ q[1] # daemon'.open
  BY <1>1, <1>2, <1>6 DEF Settled
<1> QED BY <1>2, <1>6, <1>7

\* It ends, and how is reported.
LEMMA EndsKeeps ==
  ASSUME HoldInv, Delivering, ~delivery.cancelled, NEW s \in {"done", "skipped"},
         DeliveryEnds(Show(app, "reply"), Report(delivery.ask, s)),
         UNCHANGED <<press, begins, release, told, daemon, sink>>,
         holdsLeft' \in [HoldEvents -> Nat], holdsLeft'["overtake"] = holdsLeft["overtake"]
  PROVE  HoldInv'
<1>1. delivery' = [delivery EXCEPT !.step = "over", !.sounds = "no"] /\ app' = Show(app, "reply") /\ reports' = Report(delivery.ask, s)
  BY DEF DeliveryEnds
<1>2. app' \in AppShape /\ app'.view = "reply" /\ app'.id = app.id /\ SameButShown(app, app')
  BY <1>1, Shown DEF HoldInv, HoldTyped, Views, Messages
<1>3. PICK x : x = [[delivery EXCEPT !.step = "over"] EXCEPT !.sounds = "no"]
  OBVIOUS
<1>4. /\ delivery' = x /\ x \in DeliveryShape /\ x.step = "over" /\ x.sounds = "no" /\ x.ask = delivery.ask /\ x.guard = delivery.guard
      /\ x.late = delivery.late /\ x.read = delivery.read /\ x.cancelled = delivery.cancelled
  BY <1>1, <1>3, DeliveryParts DEF DeliveryShape
<1>5. ~Delivering' /\ Guarded' /\ DeliveryKept
  BY <1>4 DEF Delivering, Guarded, DeliveryKept, HoldInv
<1>6. <<delivery.ask, "skipped">> \notin Reported /\ s \in States
  BY DEF HoldInv, Settled, States
<1>7. /\ reports' \in Seq(Nat \X States) /\ InTurn'
      /\ \A r \in Reported' : r[1] \in 1..daemon'.asks /\ r[1] \notin daemon'.asked /\ r[1] # daemon'.open
  BY <1>1, <1>6, AskReported
<1>8. HoldTyped'
  BY <1>2, <1>4, <1>7 DEF HoldInv, HoldTyped
<1>9. Numbered'
  <2>1. HoldTyped /\ Numbered /\ SideLater
    BY SideIdle DEF HoldInv
  <2>2. IdsKept /\ (app'.held => app'.hold # 0)
    BY <1>2 DEF IdsKept, HoldInv, Numbered, SameButShown
  <2> QED BY <1>5, <1>8, <2>1, <2>2, NumberedKept
<1>10. Stops' /\ Settled'
  BY <1>5, <1>7 DEF Stops, Settled, InTurn
<1> QED BY <1>5, <1>8, <1>9, <1>10 DEF HoldInv

LEMMA NotSpokenKeeps ==
  ASSUME HoldInv, Delivering, ~delivery.cancelled, NotSpoken, UNCHANGED <<press, begins, release, told, daemon, sink>>,
         holdsLeft' \in [HoldEvents -> Nat], holdsLeft'["overtake"] = holdsLeft["overtake"]
  PROVE  HoldInv'
BY EndsKeeps DEF NotSpoken

LEMMA CheckRouteKeeps == ASSUME HoldInv, CheckRoute PROVE HoldInv'
<1>1. Delivering /\ ~delivery.cancelled /\ delivery.step = "route" /\ UNCHANGED <<press, begins, release, told, daemon, sink, holdsLeft>>
      /\ holdsLeft' \in [HoldEvents -> Nat] /\ sink \in SinkStates
  BY DEF CheckRoute, Delivers, Delivering, HoldInv, HoldTyped
<1>2. CASE delivery' = [delivery EXCEPT !.step = "status", !.target = sink] /\ UNCHANGED <<app, reports>>
  <2>1. PICK x : x = [[delivery EXCEPT !.step = "status"] EXCEPT !.target = sink]
    OBVIOUS
  <2>2. /\ delivery' = x /\ x \in DeliveryShape /\ x.step = "status" /\ x.sounds = delivery.sounds /\ x.ask = delivery.ask
        /\ x.guard = delivery.guard /\ x.late = delivery.late /\ x.read = delivery.read /\ x.cancelled = delivery.cancelled
    BY <1>1, <1>2, <2>1, DeliveryParts DEF DeliveryShape
  <2>3. Guarded' /\ DeliveryKept
    BY <1>1, <2>2, DeliveryParts DEF Guarded, DeliveryKept
  <2> QED BY <1>1, <1>2, <2>2, <2>3, SpeechGoes
<1> QED BY <1>1, <1>2, NotSpokenKeeps DEF CheckRoute

LEMMA CheckStatusKeeps == ASSUME HoldInv, CheckStatus PROVE HoldInv'
<1>1. Delivering /\ ~delivery.cancelled /\ delivery.step = "status" /\ UNCHANGED <<press, begins, release, told, daemon, sink>>
  BY DEF CheckStatus, Delivers, Delivering
<1>2. holdsLeft' \in [HoldEvents -> Nat] /\ holdsLeft'["overtake"] = holdsLeft["overtake"]
  BY HoldSpends DEF CheckStatus, HoldInv, HoldTyped, HoldEvents
<1>3. CASE delivery' = [delivery EXCEPT !.step = "speaking"] /\ app' = Show(app, "speaking") /\ UNCHANGED reports
  <2>1. PICK x : x = [delivery EXCEPT !.step = "speaking"]
    OBVIOUS
  <2>2. /\ delivery' = x /\ x \in DeliveryShape /\ x.step = "speaking" /\ x.sounds = delivery.sounds /\ x.ask = delivery.ask
        /\ x.guard = delivery.guard /\ x.late = delivery.late /\ x.read = delivery.read /\ x.cancelled = delivery.cancelled
    BY <1>1, <1>3, <2>1, DeliveryParts DEF DeliveryShape
  <2>3. Guarded' /\ DeliveryKept
    BY <1>1, <2>2, DeliveryParts DEF Guarded, DeliveryKept
  <2> QED BY <1>1, <1>2, <1>3, <2>2, <2>3, SpeechGoes
<1> QED BY <1>1, <1>2, <1>3, NotSpokenKeeps DEF CheckStatus

LEMMA GuardDecidesKeeps == ASSUME HoldInv, GuardDecides PROVE HoldInv'
<1>1. Delivering /\ ~delivery.cancelled /\ delivery.step = "speaking" /\ delivery.guard = "read"
      /\ UNCHANGED <<press, begins, release, told, daemon, sink, holdsLeft>> /\ holdsLeft' \in [HoldEvents -> Nat]
  BY DEF GuardDecides, Delivers, Delivering, HoldInv, HoldTyped
<1>2. CASE Closed(delivery.read) /\ delivery' = [delivery EXCEPT !.guard = "wait"] /\ UNCHANGED <<app, reports>>
  <2>1. PICK x : x = [delivery EXCEPT !.guard = "wait"]
    OBVIOUS
  <2>2. /\ delivery' = x /\ x \in DeliveryShape /\ x.step = "speaking" /\ x.sounds = delivery.sounds /\ x.ask = delivery.ask
        /\ x.guard = "wait" /\ x.late = delivery.late /\ x.read = delivery.read /\ x.cancelled = delivery.cancelled
    BY <1>1, <1>2, <2>1, DeliveryParts DEF DeliveryShape
  <2>3. delivery.late = 0
    BY <1>1, <1>2, DeliveryParts DEF DeliveryShape
  <2>4. Guarded' /\ DeliveryKept
    BY <1>1, <2>2, <2>3, DeliveryParts DEF Guarded, DeliveryKept
  <2> QED BY <1>1, <1>2, <2>2, <2>4, SpeechGoes
<1> QED BY <1>1, <1>2, NotSpokenKeeps DEF GuardDecides

LEMMA GuardReadsKeeps == ASSUME HoldInv, GuardReads PROVE HoldInv'
<1>1. Delivering /\ ~delivery.cancelled /\ delivery.step = "speaking" /\ delivery.guard = "wait"
      /\ UNCHANGED <<app, press, begins, release, reports, told, daemon, sink, holdsLeft>>
      /\ holdsLeft' \in [HoldEvents -> Nat] /\ sink \in SinkStates
  BY DEF GuardReads, Delivers, Delivering, HoldInv, HoldTyped
<1>2. delivery.late = 0 /\ delivery \in DeliveryShape
  BY <1>1, DeliveryParts
<1>3. PICK l \in {0, 1} : l = (IF Exposed THEN delivery.late + 1 ELSE 0) /\ (l = 1 => ~Closed(sink))
  BY <1>2 DEF Exposed
<1>4. PICK x : x = [[[delivery EXCEPT !.guard = "read"] EXCEPT !.read = sink] EXCEPT !.late = l]
  OBVIOUS
<1>5. /\ x \in DeliveryShape /\ x.step = "speaking" /\ x.sounds = delivery.sounds /\ x.ask = delivery.ask
      /\ x.guard = "read" /\ x.late = l /\ x.read = sink /\ x.cancelled = delivery.cancelled
  BY <1>1, <1>2, <1>4 DEF DeliveryShape
<1>6. delivery' = x
  BY <1>2, <1>3, <1>4 DEF GuardReads, DeliveryShape
<1>7. Guarded' /\ DeliveryKept
  BY <1>1, <1>3, <1>5, <1>6 DEF Guarded, DeliveryKept
<1> QED BY <1>1, <1>5, <1>6, <1>7, SpeechGoes

LEMMA SpokenKeeps == ASSUME HoldInv, Spoken PROVE HoldInv'
<1>1. Delivering /\ ~delivery.cancelled /\ UNCHANGED <<press, begins, release, told, daemon, sink, holdsLeft>>
      /\ holdsLeft' \in [HoldEvents -> Nat]
  BY DEF Spoken, Delivers, Delivering, HoldInv, HoldTyped
<1> QED BY <1>1, NotSpokenKeeps, EndsKeeps DEF Spoken

LEMMA DeliveryCancelledKeeps == ASSUME HoldInv, DeliveryCancelled PROVE HoldInv'
<1>1. Delivering /\ UNCHANGED <<app, press, begins, release, reports, told, daemon, sink, holdsLeft>>
      /\ holdsLeft' \in [HoldEvents -> Nat]
  BY DEF DeliveryCancelled, HoldInv, HoldTyped
<1>2. PICK x : x = [[delivery EXCEPT !.step = "over"] EXCEPT !.sounds = "no"]
  OBVIOUS
<1>3. /\ delivery' = x /\ x \in DeliveryShape /\ x.step = "over" /\ x.sounds = "no" /\ x.ask = delivery.ask
      /\ x.guard = delivery.guard /\ x.late = delivery.late /\ x.read = delivery.read /\ x.cancelled = delivery.cancelled
  BY <1>1, <1>2, DeliveryParts DEF DeliveryShape, DeliveryCancelled
<1>4. Guarded' /\ DeliveryKept
  BY <1>1, <1>3, DeliveryParts DEF Guarded, DeliveryKept, Delivering
<1> QED BY <1>1, <1>3, <1>4, SpeechGoes

LEMMA SpeaksKeeps == ASSUME HoldInv, Speaks PROVE HoldInv'
<1>1. Delivering /\ delivery.step = "speaking" /\ UNCHANGED <<app, press, begins, release, told, daemon, sink>>
  BY DEF Speaks, Delivering
<1>2. holdsLeft' \in [HoldEvents -> Nat] /\ holdsLeft'["overtake"] = holdsLeft["overtake"]
  BY HoldSpends DEF Speaks, HoldInv, HoldTyped, HoldEvents
<1>3. PICK s \in {"on", "out", "failed"} :
        delivery' = [delivery EXCEPT !.sounds = s] /\ (reports' = reports \/ reports' = Report(delivery.ask, "started"))
  BY DEF Speaks
<1>4. PICK x : x = [delivery EXCEPT !.sounds = s]
  OBVIOUS
<1>5. /\ delivery' = x /\ x \in DeliveryShape /\ x.step = "speaking" /\ x.sounds = s /\ x.ask = delivery.ask
      /\ x.guard = delivery.guard /\ x.late = delivery.late /\ x.read = delivery.read /\ x.cancelled = delivery.cancelled
  BY <1>1, <1>3, <1>4, DeliveryParts DEF DeliveryShape
<1>6. Guarded' /\ DeliveryKept
  BY <1>1, <1>5, DeliveryParts DEF Guarded, DeliveryKept, Delivering
<1>7. CASE reports' = reports
  BY <1>1, <1>2, <1>5, <1>6, <1>7, SpeechGoes
<1>8. CASE reports' = Report(delivery.ask, "started")
  <2>1. /\ reports' \in Seq(Nat \X States) /\ Reported' = Reported \cup {<<delivery.ask, "started">>} /\ InTurn'
        /\ \A r \in Reported' : r[1] \in 1..daemon'.asks /\ r[1] \notin daemon'.asked /\ r[1] # daemon'.open
    BY <1>1, <1>2, <1>8, AskReported DEF States
  <2>2. HoldTyped'
    BY <1>1, <1>2, <1>5, <2>1 DEF HoldInv, HoldTyped
  <2>3. Numbered'
    <3>1. HoldTyped /\ Numbered /\ SideLater
      BY <1>1, SideIdle DEF HoldInv
    <3>2. IdsKept /\ (app'.held => app'.hold # 0)
      BY <1>1 DEF IdsKept, HoldInv, Numbered
    <3> QED BY <1>6, <2>2, <3>1, <3>2, NumberedKept
  <2>4. \A t \in {"done", "skipped"} : <<delivery'.ask, t>> \in Reported' => <<delivery.ask, t>> \in Reported
    BY <1>5, <2>1
  <2>5. Delivering' /\ delivery'.ask = delivery.ask /\ delivery'.cancelled = delivery.cancelled
    BY <1>5 DEF Delivering
  <2>6. Stops'
    BY <1>1, <1>2, <2>4, <2>5 DEF Stops, HoldInv
  <2>7. Settled'
    BY <1>1, <2>1, <2>4, <2>5 DEF Settled, InTurn, HoldInv
  <2> QED BY <1>6, <2>2, <2>3, <2>6, <2>7 DEF HoldInv
<1> QED BY <1>3, <1>7, <1>8

\* A reply takes an ask that was ended; it is shown or delivered.
LEMMA OnReplyKeeps == ASSUME HoldInv, NEW ask \in daemon.asked, OnReply(ask) PROVE HoldInv'
<1>1. UNCHANGED <<press, begins, release, reports, told, sink, holdsLeft>> /\ daemon' = [daemon EXCEPT !.asked = @ \ {ask}]
      /\ HoldTyped /\ Numbered /\ Settled /\ daemon \in SideShape /\ app \in AppShape
  BY DEF OnReply, HoldInv, HoldTyped
<1>2. /\ daemon' \in SideShape /\ daemon'.asks = daemon.asks /\ daemon'.open = daemon.open /\ daemon'.asked = daemon.asked \ {ask}
  BY <1>1 DEF SideShape
<1>3. SideLater
  BY <1>1, <1>2, HoldParts DEF SideLater, Numbered
<1>4. /\ \A h \in Holds : begins'[h].id <= daemon'.asks
      /\ \A h \in Holds : release'[h].step \in {"waiting", "end"} => release'[h].of # 0
  BY <1>1, <1>2 DEF Numbered
<1>5. app.id <= daemon.asks /\ daemon.asks \in Nat /\ 0 <= daemon.asks
  BY <1>1, HoldParts DEF Numbered
<1>6. ASSUME UNCHANGED delivery, app' \in AppShape, SameButShown(app, app'), app'.view = "listening" => app.view = "listening", app'.id \in {0, app.id}
      PROVE  HoldInv'
  <2>1. Guarded' /\ DeliveryKept
    BY <1>1, <1>6, GuardedSame DEF HoldInv
  <2>2. HoldTyped'
    BY <1>1, <1>2, <1>6 DEF HoldTyped
  <2>3. app'.id <= daemon'.asks
    BY <1>2, <1>5, <1>6
  <2>4. KeySame
    BY <1>1, <1>6 DEF KeySame, SameButShown
  <2>5. IdsKept
    BY <1>4, <2>3 DEF IdsKept
  <2>6. Calm
    BY <1>1, <1>3, <2>1, <2>4, <2>5 DEF Calm
  <2> QED BY <2>1, <2>2, <2>6, CalmKeeps
<1>7. CASE UNCHANGED <<app, delivery>>
  BY <1>1, <1>6, <1>7 DEF SameButShown
<1>8. ASSUME NEW phase \in {"nothing_heard", "no_answer", "reply"}, app' = [app EXCEPT !.id = 0, !.view = phase], UNCHANGED delivery
      PROVE  HoldInv'
  <2>1. PICK b : b = [app EXCEPT !.id = 0]
    OBVIOUS
  <2>2. b \in AppShape /\ b.id = 0 /\ SameButShown(app, b)
    BY <1>1, <2>1, IdSet
  <2>3. app' = Show(b, phase) /\ phase \in Views
    BY <1>1, <1>8, <2>1 DEF Show, AppShape, Views, Messages
  <2>4. app' \in AppShape /\ app'.view = phase /\ app'.id = b.id /\ SameButShown(b, app')
    BY <2>2, <2>3, Shown
  <2> QED BY <1>6, <1>8, <2>2, <2>4 DEF SameButShown
<1>9. CASE /\ ask = app.id /\ app.view = "waiting" /\ app.speaker /\ ~Delivering
           /\ app' = [app EXCEPT !.id = 0, !.attached = TRUE]
           /\ delivery' = [NoDelivery EXCEPT !.step = "route", !.ask = ask]
  <2>1. PICK b : b = [[app EXCEPT !.id = 0] EXCEPT !.attached = TRUE]
    OBVIOUS
  <2>2. app' = b /\ b \in AppShape /\ b.id = 0 /\ b.attached /\ b.view = "waiting" /\ b.held = app.held /\ b.hold = app.hold
    BY <1>1, <1>9, <2>1 DEF AppShape
  <2>3. ask \in 1..daemon.asks /\ ask \in Nat /\ ask # 0 /\ ask # daemon.open /\ ask \in daemon.asked
    BY <1>1, HoldParts DEF Numbered
  <2>4. /\ delivery' \in DeliveryShape /\ delivery'.step = "route" /\ delivery'.ask = ask /\ delivery'.sounds = "no"
        /\ delivery'.guard = "wait" /\ delivery'.late = 0 /\ Delivering'
    BY <1>9, <2>3 DEF NoDelivery, DeliveryShape, Delivering
  <2>5. HoldTyped'
    BY <1>1, <1>2, <2>2, <2>4 DEF HoldTyped
  <2>6. Numbered'
    BY <1>1, <1>2, <1>3, <1>4, <1>5, <2>2, <2>3, <2>4 DEF Numbered, SideLater
  <2>7. Guarded'
    BY <2>4 DEF Guarded
  <2>8. Reported' = Reported /\ \A t : <<ask, t>> \notin Reported
    BY <1>1, <2>3 DEF Reported, Settled
  <2>9. Stops'
    BY <2>2, <2>4, <2>8 DEF Stops
  <2>10. \A a, b2 : Follows(a, b2)' <=> Follows(a, b2)
    BY <1>1, FollowsSame
  <2>11. InOrder(told)' /\ InOrder(reports)' /\ \A i \in DOMAIN told', j \in DOMAIN reports' : Follows(told[i], reports[j])'
    BY <1>1, <2>10 DEF Settled, InOrder
  <2>12. Settled'
    BY <1>1, <1>2, <2>4, <2>8, <2>11 DEF Settled
  <2> QED BY <2>5, <2>6, <2>7, <2>9, <2>12 DEF HoldInv
<1> QED BY <1>7, <1>8, <1>9 DEF OnReply

-----------------------------------------------------------------------------
(* The key.                                                                 *)

LEMMA Listens ==
  ASSUME HoldInv, NEW h \in Holds, NEW a \in AppShape, Listen(h, a), UNCHANGED daemon
  PROVE  /\ app' \in AppShape /\ app'.id = a.id /\ app'.held = a.held /\ app'.hold = a.hold /\ app'.attached = a.attached
         /\ BeginsOK
<1>1. UNCHANGED begins => BeginsOK
  BY BeginsSame
<1>2. ASSUME NEW v \in {"no_session", "voice_off"}, app' = Show(a, v)
      PROVE  app' \in AppShape /\ app'.id = a.id /\ SameButShown(a, app')
  <2>1. v \in Views
    BY DEF Views, Messages
  <2> QED BY <1>2, <2>1, Shown
<1>3. CASE app' = [Show(a, "listening") EXCEPT !.begin = h] /\ begins' = [begins EXCEPT ![h] = [step |-> "begin", answer |-> "none", id |-> 0]]
  <2>1. PICK b : b = Show(a, "listening")
    OBVIOUS
  <2>2. b \in AppShape /\ b.id = a.id /\ SameButShown(a, b)
    BY <2>1, Shown DEF Views
  <2>3. h \in 0..MaxHolds
    BY HoldConfigured DEF Holds
  <2>4. app' \in AppShape /\ app'.id = b.id /\ app'.held = b.held /\ app'.hold = b.hold /\ app'.attached = b.attached
    BY <1>3, <2>1, <2>2, <2>3 DEF AppShape
  <2>5. [step |-> "begin", answer |-> "none", id |-> 0] \in BeginShape
    BY DEF BeginShape
  <2>6. begins \in [Holds -> BeginShape] /\ daemon.asks \in Nat /\ \A g \in Holds : begins[g].id <= daemon.asks
    BY HoldParts DEF HoldInv, HoldTyped, Numbered
  <2>7. BeginsOK
    BY <1>3, <2>5, <2>6 DEF BeginsOK
  <2> QED BY <2>2, <2>4, <2>7 DEF SameButShown
<1> QED BY <1>1, <1>2, <1>3 DEF Listen, SameButShown

LEMMA StoppedKeeps == ASSUME HoldInv, NEW h \in Holds, Stopped(h) PROVE HoldInv'
<1>1. UNCHANGED <<release, delivery, reports, told, daemon, sink, holdsLeft>> /\ press' = [press EXCEPT ![h] = "done"] /\ ~Delivering
      /\ Listen(h, app) /\ HoldTyped /\ Numbered /\ Guarded /\ Settled /\ app \in AppShape
  BY DEF Stopped, HoldInv, HoldTyped
<1>2. app' \in AppShape /\ app'.id = app.id /\ app'.held = app.held /\ app'.hold = app.hold /\ BeginsOK
  BY <1>1, Listens
<1>3. HoldTyped'
  BY <1>1, <1>2 DEF HoldTyped, BeginsOK
<1>4. Delivering' = Delivering /\ Reported' = Reported /\ Guarded' /\ DeliveryKept
  BY <1>1 DEF Delivering, Reported, Guarded, DeliveryKept
<1>5. Numbered'
  <2>1. SideLater /\ IdsKept /\ (app'.held => app'.hold # 0)
    BY <1>1, <1>2, SideIdle DEF IdsKept, BeginsOK, Numbered
  <2> QED BY <1>1, <1>3, <1>4, <2>1, NumberedKept
<1>6. Stops'
  BY <1>1, <1>4 DEF Stops
<1>7. Settled'
  <2>1. \A a, b : Follows(a, b)' <=> Follows(a, b)
    BY <1>1, FollowsSame
  <2>2. InOrder(told)' /\ InOrder(reports)' /\ \A i \in DOMAIN told', j \in DOMAIN reports' : Follows(told[i], reports[j])'
    BY <1>1, <2>1 DEF Settled, InOrder
  <2> QED BY <1>1, <1>4, <2>2 DEF Settled
<1> QED BY <1>3, <1>4, <1>5, <1>6, <1>7 DEF HoldInv

LEMMA UpKeeps == ASSUME HoldInv, Up PROVE HoldInv'
<1>1. UNCHANGED <<press, begins, delivery, reports, told, daemon, sink, holdsLeft>> /\ app.held /\ app \in AppShape
      /\ app' = [app EXCEPT !.held = FALSE, !.begin = 0] /\ HoldTyped /\ Numbered /\ Guarded /\ Settled /\ Stops
      /\ (press[app.hold] = "stopping" => holdsLeft["overtake"] > 0)
  BY DEF Up, HoldInv, HoldTyped
<1>2. PICK b : b = [[app EXCEPT !.held = FALSE] EXCEPT !.begin = 0]
  OBVIOUS
<1>3. 0 \in 0..MaxHolds /\ app.hold \in Holds /\ app.begin \in 0..MaxHolds /\ holdsLeft["overtake"] \in Nat
  BY <1>1, HoldParts DEF Numbered, Holds
<1>4. app' = b /\ b \in AppShape /\ b.held = FALSE /\ b.hold = app.hold /\ b.attached = app.attached /\ b.view = app.view /\ b.id = app.id
  BY <1>1, <1>2, <1>3 DEF AppShape
<1>5. ReleaseOK
  <2>1. PICK x : x = (IF app.begin = 0 THEN [step |-> "done", of |-> 0, answer |-> "none"]
                      ELSE [step |-> "waiting", of |-> app.begin, answer |-> "none"])
    OBVIOUS
  <2>2. x \in ReleaseShape /\ (x.step \in {"waiting", "end"} => x.of # 0)
    BY <1>3, <2>1 DEF ReleaseShape
  <2>3. release' = [release EXCEPT ![app.hold] = x]
    BY <2>1 DEF Up
  <2> QED BY <1>1, <1>3, <2>2, <2>3 DEF ReleaseOK, HoldTyped, Numbered
<1>6. HoldTyped'
  BY <1>1, <1>4, <1>5 DEF HoldTyped, ReleaseOK
<1>7. Delivering' = Delivering /\ Reported' = Reported /\ Guarded' /\ DeliveryKept
  BY <1>1 DEF Delivering, Reported, Guarded, DeliveryKept
<1>8. Numbered'
  <2>1. SideLater /\ IdsKept /\ ~app'.held
    BY <1>1, <1>4, <1>5, SideIdle DEF IdsKept, ReleaseOK, Numbered
  <2> QED BY <1>1, <1>6, <1>7, <2>1, NumberedKept
<1>9. Stops'
  <2>1. holdsLeft["overtake"] = 0 => press[app.hold] # "stopping"
    BY <1>1, <1>3
  <2> QED BY <1>1, <1>4, <1>7, <2>1 DEF Stops
<1>10. Settled'
  <2>1. \A c, d : Follows(c, d)' <=> Follows(c, d)
    BY <1>1, FollowsSame
  <2>2. InOrder(told)' /\ InOrder(reports)' /\ \A i \in DOMAIN told', j \in DOMAIN reports' : Follows(told[i], reports[j])'
    BY <1>1, <2>1 DEF Settled, InOrder
  <2> QED BY <1>1, <1>7, <2>2 DEF Settled
<1> QED BY <1>6, <1>7, <1>8, <1>9, <1>10 DEF HoldInv

LEMMA DownKeeps == ASSUME HoldInv, Down PROVE HoldInv'
<1>1. PICK h \in Holds :
        /\ MayHold(h) /\ HoldSpend("hold")
        /\ reports' = IF delivery.step = "speaking" THEN Report(delivery.ask, "skipped") ELSE reports
        /\ IF app.attached /\ Delivering
           THEN /\ delivery' = [delivery EXCEPT !.cancelled = TRUE]
                /\ press' = [press EXCEPT ![h] = "stopping"]
                /\ app' = [app EXCEPT !.id = 0, !.held = TRUE, !.hold = h, !.attached = FALSE] /\ UNCHANGED begins
           ELSE /\ press' = [press EXCEPT ![h] = "done"]
                /\ Listen(h, [app EXCEPT !.id = 0, !.held = TRUE, !.hold = h, !.attached = FALSE]) /\ UNCHANGED delivery
  BY DEF Down
<1>2. /\ UNCHANGED <<release, told, daemon, sink>> /\ ~app.held /\ app \in AppShape /\ press \in [Holds -> {"no", "stopping", "done"}]
      /\ HoldTyped /\ Numbered /\ Guarded /\ Stops /\ Settled
  BY <1>1 DEF Down, MayHold, HoldInv, HoldTyped
<1>3. holdsLeft' \in [HoldEvents -> Nat] /\ holdsLeft'["overtake"] = holdsLeft["overtake"] /\ holdsLeft["overtake"] \in Nat
  BY <1>1, <1>2, HoldSpends, HoldParts DEF HoldEvents
<1>4. /\ reports' \in Seq(Nat \X States) /\ InTurn'
      /\ Reported' = Reported \/ (Delivering /\ Reported' = Reported \cup {<<delivery.ask, "skipped">>})
      /\ \A r \in Reported' : r[1] \in 1..daemon'.asks /\ r[1] \notin daemon'.asked /\ r[1] # daemon'.open
  <2>1. CASE delivery.step = "speaking"
    <3>1. Delivering /\ reports' = Report(delivery.ask, "skipped") /\ "skipped" \in States
      BY <1>1, <2>1 DEF Delivering, States
    <3>2. <<delivery.ask, "skipped">> \in Reported => holdsLeft["overtake"] > 0
      BY <1>2, <1>3, <3>1 DEF Stops
    <3> QED BY <1>2, <1>3, <3>1, <3>2, AskReported
  <2>2. CASE delivery.step # "speaking"
    <3>1. reports' = reports /\ told' = told
      BY <1>1, <1>2, <2>2
    <3>2. \A a, b : Follows(a, b)' <=> Follows(a, b)
      BY <1>3, FollowsSame
    <3>3. Reported' = Reported /\ reports' \in Seq(Nat \X States)
      BY <1>2, <3>1 DEF Reported, HoldTyped
    <3>4. InTurn'
      BY <1>2, <3>1, <3>2 DEF Settled, InTurn, InOrder
    <3> QED BY <1>2, <3>3, <3>4 DEF Settled
  <2> QED BY <2>1, <2>2
<1>5. PICK a : a = [[[[app EXCEPT !.id = 0] EXCEPT !.held = TRUE] EXCEPT !.hold = h] EXCEPT !.attached = FALSE]
  OBVIOUS
<1>6. h \in 0..MaxHolds /\ h # 0
  BY HoldConfigured DEF Holds
<1>7. /\ a = [app EXCEPT !.id = 0, !.held = TRUE, !.hold = h, !.attached = FALSE]
      /\ a \in AppShape /\ a.id = 0 /\ a.held = TRUE /\ a.hold = h /\ a.attached = FALSE /\ a.view = app.view
  BY <1>2, <1>5, <1>6 DEF AppShape
<1>8. /\ app' \in AppShape /\ app'.id = 0 /\ app'.held = TRUE /\ app'.hold = h /\ app'.attached = FALSE /\ BeginsOK
      /\ delivery' \in DeliveryShape /\ Guarded' /\ DeliveryKept
  <2>1. CASE app.attached /\ Delivering
    <3>1. delivery' = [delivery EXCEPT !.cancelled = TRUE] /\ app' = a /\ UNCHANGED begins
      BY <1>1, <1>7, <2>1
    <3> QED BY <1>2, <1>7, <3>1, GuardedSame, BeginsSame
  <2>2. CASE ~(app.attached /\ Delivering)
    <3>1. Listen(h, a) /\ UNCHANGED delivery
      BY <1>1, <1>7, <2>2
    <3> QED BY <1>2, <1>7, <3>1, GuardedSame, Listens
  <2> QED BY <2>1, <2>2
<1>9. HoldTyped'
  <2>1. press' \in [Holds -> {"no", "stopping", "done"}]
    BY <1>1, <1>2
  <2> QED BY <1>2, <1>3, <1>4, <1>8, <2>1 DEF HoldTyped, BeginsOK
<1>10. Numbered'
  <2>1. SideLater /\ daemon'.asks = daemon.asks /\ 0 <= daemon.asks
    BY <1>2, SideIdle, HoldParts
  <2>2. IdsKept /\ (app'.held => app'.hold # 0)
    BY <1>2, <1>6, <1>8, <2>1 DEF IdsKept, BeginsOK, Numbered
  <2> QED BY <1>2, <1>8, <1>9, <2>1, <2>2, NumberedKept
<1>11. Stops' /\ (Delivering' => Delivering /\ delivery'.ask = delivery.ask /\ delivery'.cancelled)
  <2>1. CASE app.attached /\ Delivering
    <3>1. delivery' = [delivery EXCEPT !.cancelled = TRUE] /\ press' = [press EXCEPT ![h] = "stopping"] /\ app' = a
      BY <1>1, <1>7, <2>1
    <3>2. delivery'.cancelled /\ delivery'.ask = delivery.ask /\ press'[h] = "stopping" /\ app'.view = app.view
      BY <1>2, <1>7, <3>1 DEF HoldTyped, DeliveryShape
    <3>3. holdsLeft["overtake"] = 0 => app'.view # "listening"
      BY <1>2, <2>1, <3>2 DEF Stops
    <3> QED BY <1>3, <1>8, <2>1, <3>2, <3>3 DEF Stops
  <2>2. CASE ~(app.attached /\ Delivering)
    <3>1. delivery' = delivery
      BY <1>1, <2>2
    <3>2. Delivering => delivery.cancelled /\ holdsLeft["overtake"] # 0
      BY <1>2, <2>2 DEF Stops
    <3>3. Delivering' = Delivering
      BY <3>1 DEF Delivering
    <3> QED BY <1>3, <3>1, <3>2, <3>3 DEF Stops
  <2> QED BY <2>1, <2>2
<1>12. Settled'
  <2>1. Delivering' => <<delivery'.ask, "done">> \notin Reported'
    <3>1. ASSUME Delivering' PROVE <<delivery'.ask, "done">> \notin Reported'
      <4>1. Delivering /\ delivery'.ask = delivery.ask /\ <<delivery.ask, "done">> \notin Reported
        BY <1>2, <1>11, <3>1 DEF Settled
      <4>2. <<delivery.ask, "done">> # <<delivery.ask, "skipped">>
        OBVIOUS
      <4> QED BY <1>4, <4>1, <4>2
    <3> QED BY <3>1
  <2> QED BY <1>4, <1>11, <2>1 DEF Settled, InTurn
<1> QED BY <1>8, <1>9, <1>10, <1>11, <1>12 DEF HoldInv

\* The first report waiting is told, or lost.
LEMMA SendReportKeeps == ASSUME HoldInv, SendReport PROVE HoldInv'
<1>1. UNCHANGED <<app, press, begins, release, delivery, daemon, sink>> /\ reports # <<>> /\ reports' = Tail(reports)
      /\ (told' = told \/ told' = Append(told, Head(reports))) /\ HoldTyped /\ Numbered /\ Guarded /\ Stops /\ Settled
  BY DEF SendReport, HoldInv
<1>2. holdsLeft' \in [HoldEvents -> Nat] /\ holdsLeft'["overtake"] = holdsLeft["overtake"]
  BY <1>1, HoldSpends DEF SendReport, HoldTyped, HoldEvents
<1>3. reports \in Seq(Nat \X States) /\ told \in Seq(Nat \X States)
  BY <1>1 DEF HoldTyped
<1>4. PICK n \in Nat, m \in Nat : /\ n + 1 = Len(reports) /\ m = Len(told)
                                  /\ DOMAIN reports = 1..n + 1 /\ DOMAIN told = 1..m
  <2>1. Len(reports) \in Nat /\ Len(reports) # 0 /\ Len(told) \in Nat
    BY <1>1, <1>3
  <2>2. Len(reports) - 1 \in Nat /\ (Len(reports) - 1) + 1 = Len(reports)
    BY <2>1
  <2>3. DOMAIN reports = 1..Len(reports) /\ DOMAIN told = 1..Len(told)
    BY <1>3
  <2> QED BY <2>1, <2>2, <2>3
<1>5. PICK r : r = reports[1]
  OBVIOUS
<1>6. /\ r \in Nat \X States /\ Head(reports) = r
      /\ reports' \in Seq(Nat \X States) /\ DOMAIN reports' = 1..n /\ \A i \in 1..n : reports'[i] = reports[i + 1]
  BY <1>1, <1>3, <1>4, <1>5, HeadTailProperties
<1>7. \A i \in 1..n : i + 1 \in 1..n + 1 /\ 1 < i + 1 /\ 1 \in 1..n + 1
  BY <1>4
<1>8. /\ told' \in Seq(Nat \X States)
      /\ \/ told' = told
         \/ DOMAIN told' = 1..m + 1 /\ told'[m + 1] = r /\ \A i \in 1..m : told'[i] = told[i]
  <2>1. CASE told' = told
    BY <1>3, <2>1
  <2>2. CASE told' = Append(told, r)
    BY <1>3, <1>4, <1>6, <2>2, AppendProperties
  <2> QED BY <1>1, <1>6, <2>1, <2>2
<1>9. \A a, b : Follows(a, b)' <=> Follows(a, b)
  BY <1>2, FollowsSame
<1>10. /\ \A i, j \in 1..m : i < j => Follows(told[i], told[j])
       /\ \A i, j \in 1..n + 1 : i < j => Follows(reports[i], reports[j])
       /\ \A i \in 1..m, j \in 1..n + 1 : Follows(told[i], reports[j])
  BY <1>1, <1>4 DEF Settled, InOrder
<1>11. InOrder(reports)'
  <2>1. ASSUME NEW i \in 1..n, NEW j \in 1..n, i < j PROVE Follows(reports'[i], reports'[j])
    <3>1. i + 1 < j + 1
      BY <2>1
    <3> QED BY <1>6, <1>7, <1>10, <3>1
  <2> QED BY <1>6, <1>9, <2>1 DEF InOrder
<1>12. InOrder(told)' /\ \A i \in DOMAIN told', j \in DOMAIN reports' : Follows(told[i], reports[j])'
  <2>1. CASE told' = told
    BY <1>4, <1>6, <1>7, <1>9, <1>10, <2>1 DEF InOrder
  <2>2. CASE DOMAIN told' = 1..m + 1 /\ told'[m + 1] = r /\ \A i \in 1..m : told'[i] = told[i]
    <3>1. ASSUME NEW i \in 1..m + 1, NEW j \in 1..m + 1, i < j PROVE Follows(told'[i], told'[j])
      <4>1. i \in 1..m
        BY <1>4, <3>1
      <4>2. CASE j \in 1..m
        BY <1>10, <2>2, <3>1, <4>1, <4>2
      <4>3. CASE j = m + 1
        <5>1. 1 \in 1..n + 1
          BY <1>4
        <5> QED BY <1>5, <1>10, <2>2, <4>1, <4>3, <5>1
      <4> QED BY <1>4, <4>2, <4>3
    <3>2. ASSUME NEW i \in 1..m + 1, NEW j \in 1..n PROVE Follows(told'[i], reports'[j])
      <4>1. CASE i \in 1..m
        BY <1>6, <1>7, <1>10, <2>2, <4>1
      <4>2. CASE i = m + 1
        BY <1>5, <1>6, <1>7, <1>10, <2>2, <4>2
      <4> QED BY <1>4, <4>1, <4>2
    <3>3. InOrder(told)'
      BY <1>9, <2>2, <3>1 DEF InOrder
    <3>4. \A i \in DOMAIN told', j \in DOMAIN reports' : Follows(told[i], reports[j])'
      BY <1>6, <1>9, <2>2, <3>2
    <3> QED BY <3>3, <3>4
  <2> QED BY <1>8, <2>1, <2>2
<1>13. Reported' \subseteq Reported
  <2>1. Range(reports)' \subseteq Range(reports)
    <3> SUFFICES ASSUME NEW x, x \in Range(reports)' PROVE x \in Range(reports)
      OBVIOUS
    <3>1. \E i \in DOMAIN reports' : x = reports'[i]
      BY DEF Range
    <3>2. PICK i \in 1..n : x = reports'[i]
      BY <1>6, <3>1
    <3>3. i + 1 \in 1..n + 1 /\ x = reports[i + 1]
      BY <1>6, <1>7, <3>2
    <3>4. i + 1 \in DOMAIN reports
      BY <1>4, <3>3
    <3> QED BY <3>3, <3>4 DEF Range
  <2>2. r \in Range(reports)
    <3>1. 1 \in 1..n + 1
      BY <1>4
    <3> QED BY <1>4, <1>5, <3>1 DEF Range
  <2>3. Range(told)' \subseteq Range(told) \cup {r}
    <3>1. CASE told' = told
      BY <3>1
    <3>2. CASE DOMAIN told' = 1..m + 1 /\ told'[m + 1] = r /\ \A i \in 1..m : told'[i] = told[i]
      <4>1. \A i \in 1..m + 1 : i \in 1..m \/ i = m + 1
        BY <1>4
      <4> QED BY <1>4, <3>2, <4>1 DEF Range
    <3> QED BY <1>8, <3>1, <3>2
  <2> QED BY <2>1, <2>2, <2>3 DEF Reported
<1>14. HoldTyped'
  BY <1>1, <1>2, <1>6, <1>8 DEF HoldTyped
<1>15. Delivering' = Delivering /\ Guarded' /\ DeliveryKept
  BY <1>1 DEF Delivering, Guarded, DeliveryKept
<1>16. Numbered'
  <2>1. SideLater /\ IdsKept /\ (app'.held => app'.hold # 0)
    BY <1>1, SideIdle DEF IdsKept, Numbered
  <2> QED BY <1>1, <1>14, <1>15, <2>1, NumberedKept
<1>17. Stops'
  BY <1>1, <1>2, <1>13, <1>15 DEF Stops
<1>18. Settled'
  <2>1. \A q \in Reported' : q[1] \in 1..daemon'.asks /\ q[1] \notin daemon'.asked /\ q[1] # daemon'.open
    BY <1>1, <1>13 DEF Settled
  <2>2. Delivering' => /\ <<delivery'.ask, "done">> \notin Reported'
                       /\ ~delivery'.cancelled => <<delivery'.ask, "skipped">> \notin Reported'
    BY <1>1, <1>13, <1>15 DEF Settled
  <2> QED BY <1>11, <1>12, <2>1, <2>2 DEF Settled
<1> QED BY <1>14, <1>15, <1>16, <1>17, <1>18 DEF HoldInv

LEMMA HoldStepKeeps == ASSUME HoldInv, [HoldNext]_holdVars PROVE HoldInv'
<1>1. CASE UNCHANGED holdVars
  <2>1. UNCHANGED <<app, press, begins, release, delivery, reports, told, daemon, sink, holdsLeft>>
    BY <1>1 DEF holdVars
  <2>2. app' \in AppShape /\ SameButShown(app, app') /\ app'.id <= daemon.asks
    BY <2>1 DEF HoldInv, HoldTyped, Numbered, SameButShown
  <2> QED BY <2>1, <2>2, BeginsSame, ReleaseSame, PillMoves
<1>2. ASSUME NEW h \in Holds, KeyTasks(h) PROVE HoldInv'
  BY <1>2, StoppedKeeps, BegunKeeps, AnswerBeginKeeps, UpBegunKeeps, AnswerEndKeeps, UpEndedKeeps DEF KeyTasks
<1>3. CASE DeliveryTask
  BY <1>3, CheckRouteKeeps, CheckStatusKeeps, GuardDecidesKeeps, SpokenKeeps, DeliveryCancelledKeeps DEF DeliveryTask
<1>4. CASE HoldNext
  BY <1>2, <1>3, <1>4, DownKeeps, UpKeeps, DismissKeeps, SendReportKeeps, SubscribedKeeps, OnSessionEndedKeeps,
     DaemonChangesKeeps, RewireKeeps, SpeaksKeeps, GuardReadsKeeps, OnReplyKeeps DEF HoldNext
<1> QED BY <1>1, <1>4

\* What is asked of the key and of what is spoken follows.
LEMMA SpeechFollows == HoldInv => SpeechGuarded
<1> SUFFICES ASSUME HoldInv PROVE SpeechGuarded
  OBVIOUS
<1>1. HoldTyped /\ Numbered /\ Guarded /\ Stops /\ Settled
  BY DEF HoldInv
<1>2. /\ daemon.asks \in Nat /\ daemon.open \in Nat /\ daemon.open <= daemon.asks /\ daemon.asked \subseteq 1..daemon.asks
      /\ app.id \in Nat /\ app.id <= daemon.asks /\ delivery.ask \in Nat /\ delivery.ask <= daemon.asks
  BY <1>1, HoldParts DEF Numbered
<1>3. app \in [session : BOOLEAN, voice : BOOLEAN, view : Messages \cup {"idle", "listening", "waiting", "speaking"},
               id : 0..daemon.asks, begin : 0..MaxHolds, held : BOOLEAN, hold : 0..MaxHolds, attached : BOOLEAN,
               speaker : BOOLEAN]
  <2>1. app.id \in 0..daemon.asks
    BY <1>2
  <2> QED BY <1>1, <2>1 DEF HoldTyped, AppShape
<1>4. \A h \in Holds : /\ begins[h].step \in {"no", "begin", "closing", "again", "over"}
                      /\ release[h].step \in {"no", "waiting", "end", "done"} /\ release[h].of \in 0..MaxHolds
  BY <1>1 DEF HoldTyped, BeginShape, ReleaseShape
<1>5. Range(reports) \cup Range(told) \subseteq (1..daemon.asks) \X {"started", "done", "skipped"}
  <2>1. ASSUME NEW r \in Reported PROVE r \in (1..daemon.asks) \X {"started", "done", "skipped"}
    <3>1. r \in Nat \X States /\ r[1] \in 1..daemon.asks
      BY <1>1, RangeParts DEF Reported, HoldTyped, Settled
    <3> QED BY <3>1 DEF States
  <2> QED BY <2>1 DEF Reported
<1>6. HoldTypeOK
  <2>1. /\ delivery.step \in {"no", "route", "status", "speaking", "over"} /\ delivery.ask \in 0..daemon.asks
        /\ delivery.sounds \in {"no", "on", "out", "failed"} /\ delivery.guard \in {"wait", "read"}
    BY <1>1, <1>2 DEF HoldTyped, DeliveryShape
  <2>2. daemon.open \in 0..daemon.asks
    BY <1>2
  <2> QED BY <1>1, <1>2, <1>3, <1>4, <1>5, <2>1, <2>2 DEF HoldTypeOK, HoldTyped
<1>7. delivery.late <= 1
  BY <1>1 DEF HoldTyped, DeliveryShape
<1>8. app.view = "listening" /\ holdsLeft["overtake"] = 0 => delivery.sounds # "on"
  BY <1>1 DEF Stops, Guarded, Delivering
<1> QED BY <1>6, <1>7, <1>8 DEF SpeechGuarded

LEMMA ReportsFollow == HoldInv => ReportsSettleOnce
<1> SUFFICES ASSUME HoldInv PROVE ReportsSettleOnce
  OBVIOUS
<1>1. told \in Seq(Nat \X States) /\ reports \in Seq(Nat \X States) /\ InTurn
  BY DEF HoldInv, HoldTyped, Settled, InTurn
<1>2. PICK m \in Nat, n \in Nat : m = Len(told) /\ n = Len(reports) /\ DOMAIN told = 1..m /\ DOMAIN reports = 1..n
  BY <1>1
<1>3. PICK all : all = told \o reports
  OBVIOUS
<1>4. DOMAIN all = 1..m + n /\ \A i \in 1..m + n : all[i] = IF i <= m THEN told[i] ELSE reports[i - m]
  BY <1>1, <1>2, <1>3, ConcatProperties
<1>5. ASSUME NEW i \in 1..m + n, NEW j \in 1..m + n, i < j PROVE Follows(all[i], all[j])
  <2>1. CASE j <= m
    <3>1. i \in 1..m /\ j \in 1..m /\ all[i] = told[i] /\ all[j] = told[j]
      BY <1>2, <1>4, <1>5, <2>1
    <3> QED BY <1>1, <1>2, <1>5, <3>1 DEF InTurn, InOrder
  <2>2. CASE i <= m /\ j > m
    <3>1. i \in 1..m /\ j - m \in 1..n /\ all[i] = told[i] /\ all[j] = reports[j - m]
      BY <1>2, <1>4, <2>2
    <3> QED BY <1>1, <1>2, <3>1 DEF InTurn
  <2>3. CASE i > m
    <3>1. i - m \in 1..n /\ j - m \in 1..n /\ i - m < j - m /\ all[i] = reports[i - m] /\ all[j] = reports[j - m]
      BY <1>2, <1>4, <1>5, <2>3
    <3> QED BY <1>1, <1>2, <3>1 DEF InTurn, InOrder
  <2> QED BY <1>2, <1>5, <2>1, <2>2, <2>3
<1> QED BY <1>3, <1>4, <1>5 DEF ReportsSettleOnce

\* Speech stops at the first look that finds no headphones, Jarvis is silent while it listens, and
\* how a reply was played is told in order and settled once (speech.py's guard, ask.py's down, up,
\* _deliver and _report): for any number of presses, sinks and failures, in any order.
THEOREM HoldIsSound == HoldInit /\ [][HoldNext]_holdVars => [](SpeechGuarded /\ ReportsSettleOnce)
<1>1. HoldInv /\ [HoldNext]_holdVars => HoldInv'
  BY HoldStepKeeps
<1>2. HoldInv => SpeechGuarded /\ ReportsSettleOnce
  BY SpeechFollows, ReportsFollow
<1> QED BY <1>1, <1>2, HoldBegins, PTL

-----------------------------------------------------------------------------
(* The clients together: a step of one leaves the others where they are.    *)

LEMMA StepOfOne ==
  ASSUME [Next]_vars
  PROVE  [CaptureNext]_captureVars /\ [DaemonNext]_daemonVars /\ [TriggerNext]_triggerVars /\ [HoldNext]_holdVars
<1>1. CASE UNCHANGED vars
  BY <1>1 DEF vars
<1>2. CASE Next
  BY <1>2 DEF Next
<1> QED BY <1>1, <1>2

LEMMA EachRuns ==
  Spec => /\ CaptureInit /\ [][CaptureNext]_captureVars
          /\ DaemonInit /\ [][DaemonNext]_daemonVars
          /\ TriggerInit /\ [][TriggerNext]_triggerVars
          /\ HoldInit /\ [][HoldNext]_holdVars
<1>1. [Next]_vars => [CaptureNext]_captureVars /\ [DaemonNext]_daemonVars /\ [TriggerNext]_triggerVars /\ [HoldNext]_holdVars
  BY StepOfOne
<1>2. Init => CaptureInit /\ DaemonInit /\ TriggerInit /\ HoldInit
  BY DEF Init
<1> QED BY <1>1, <1>2, PTL DEF Spec

\* Over restarts and concurrent use: what the capture API saved is what it answers from and it does
\* each task once (capture_api.py); one daemon is reached and nothing of a session comes after its end
\* (capture/daemon.py); a key's actions are the ones its hold began (triggers); and Jarvis speaks only
\* where it may and reports each delivery once (ask.py).
THEOREM ClientsAreSound == Spec => []ClientsSound
  BY EachRuns, CaptureIsSound, DaemonIsSound, KeysAreSound, HoldIsSound, PTL DEF ClientsSound

\* A session's frames go forward in time whatever starts, dies or rolls over (capture/daemon.py), and
\* only a key pressed alone begins to record (triggers).
THEOREM ClientsGoForward == Spec => ClientsForward
  BY EachRuns, DaemonGoesForward, KeysGoForward, PTL DEF ClientsForward
=============================================================================
