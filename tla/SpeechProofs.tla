---------------------------- MODULE SpeechProofs -----------------------------
(***************************************************************************)
(* Proofs about what is made of a session's audio: the page that shows it  *)
(* (Viewing.tla), its speakers (Speakers.tla), the tiers that transcribe   *)
(* it (Tiers.tla) and its transcript (Transcript.tla); and, as the four    *)
(* never touch each other's variables, about MCSpeech's specification.     *)
(***************************************************************************)
EXTENDS MCSpeech, WellFoundedInduction, FiniteSetTheorems, TLAPS

-----------------------------------------------------------------------------
(* Least and greatest elements *)

\* A set of numbers that is not empty has a least one.
LEMMA LeastNumber ==
  ASSUME NEW S \in SUBSET Nat, S # {}
  PROVE  \E x \in S : \A y \in S : x <= y
<1> DEFINE Less == {ss \in Nat \X Nat : ss[1] < ss[2]}
<1>1. IsWellFoundedOn(Less, Nat)
  BY NatLessThanWellFounded, Zenon DEF OpToRel
<1>2. PICK x \in S : \A y \in S : ~(<<y, x>> \in Less)
  BY <1>1, WFMin
<1>3. ASSUME NEW y \in S PROVE x <= y
  <2>1. y \in Nat /\ x \in Nat
    OBVIOUS
  <2>2. ~(<<y, x>> \in Less)
    BY <1>2
  <2>3. ASSUME y < x PROVE <<y, x>> \in Less
    BY <2>1, <2>3
  <2> QED BY <2>1, <2>2, <2>3
<1> QED BY <1>3

\* What Max is of a bounded set of numbers that is not empty.
LEMMA GreatestNumber ==
  ASSUME NEW n \in Nat, NEW S \in SUBSET (0..n), S # {}
  PROVE  Max(S) \in S /\ \A y \in S : y <= Max(S)
<1> DEFINE T == {n - x : x \in S}
<1>1. T \in SUBSET Nat /\ T # {}
  <2>1. \A x \in S : n - x \in Nat
    OBVIOUS
  <2> QED BY <2>1
<1>2. PICK m \in T : \A y \in T : m <= y
  BY <1>1, LeastNumber
<1>3. PICK x \in S : m = n - x
  BY <1>2
<1>4. \A y \in S : n - y \in T
  OBVIOUS
<1>5. \A y \in S : x >= y
  BY <1>2, <1>3, <1>4
<1>6. \E z \in S : \A y \in S : z >= y
  BY <1>5
<1>7. Max(S) = CHOOSE z \in S : \A y \in S : z >= y
  BY DEF Max
<1>8. Max(S) \in S /\ \A y \in S : Max(S) >= y
  BY <1>6, <1>7
<1> QED BY <1>8

\* What Min is of one.
LEMMA SmallestNumber ==
  ASSUME NEW S \in SUBSET Nat, S # {}
  PROVE  Min(S) \in S /\ \A y \in S : Min(S) <= y
<1>1. \E z \in S : \A y \in S : z =< y
  BY LeastNumber
<1>2. Min(S) = CHOOSE z \in S : \A y \in S : z =< y
  BY DEF Min
<1> QED BY <1>1, <1>2

\* A finite set of numbers has a bound.
LEMMA FiniteBounded ==
  ASSUME NEW S \in SUBSET Nat, IsFiniteSet(S)
  PROVE  \E n \in Nat : S \subseteq 0..n
<1> DEFINE Unbounded(T) == T \in SUBSET Nat /\ IsFiniteSet(T) /\ ~\E n \in Nat : T \subseteq 0..n
           Sizes == {c \in Nat : \E T : Unbounded(T) /\ Cardinality(T) = c}
<1>1. Sizes = {}
  <2> SUFFICES ASSUME Sizes # {} PROVE FALSE
    OBVIOUS
  <2>1. PICK c \in Sizes : \A k \in Sizes : c <= k
    <3>1. Sizes \in SUBSET Nat
      OBVIOUS
    <3> HIDE DEF Sizes
    <3> QED BY <3>1, LeastNumber
  <2>2. PICK T : Unbounded(T) /\ Cardinality(T) = c
    BY <2>1
  <2>3. PICK x \in T : TRUE
    <3>1. {} \subseteq 0..0
      OBVIOUS
    <3> QED BY <2>2, <3>1
  <2>4. IsFiniteSet(T \ {x}) /\ Cardinality(T \ {x}) = c - 1 /\ c \in Nat /\ Cardinality(T \ {x}) \in Nat
    BY <2>1, <2>2, FS_RemoveElement, FS_CardinalityType
  <2>5. ~Unbounded(T \ {x})
    <3>1. c - 1 \in Nat /\ c - 1 \notin Sizes
      <4> HIDE DEF Sizes
      <4> QED BY <2>1, <2>4
    <3> HIDE DEF Unbounded
    <3> QED BY <3>1, <2>4
  <2>6. PICK n \in Nat : T \ {x} \subseteq 0..n
    BY <2>2, <2>4, <2>5
  <2>7. T \subseteq 0..(IF x > n THEN x ELSE n) /\ x \in Nat
    BY <2>2, <2>6
  <2> QED BY <2>2, <2>7
<1>2. Cardinality(S) \in Nat
  BY FS_CardinalityType
<1> QED BY <1>1, <1>2

-----------------------------------------------------------------------------
(* The page of a session: whatever is shown, in the air or waiting for the  *)
(* viewer is behind the rows, and the rows of a session that is over stay.  *)

Revs == Nat \cup {-1}
Statuses == {"live", "done", "deleted"}
Records == [status : Statuses, lines : SUBSET SpokenLines, rev : [SpokenLines -> Revs], version : Nat]
Pages == [status : Statuses, lines : SUBSET SpokenLines, drafts : SUBSET SpokenLines, rev : [SpokenLines -> Revs], version : Int]
Asks ==
  [step : {"row", "answer", "failed", "gone"}, why : {"first", "poll", "last"}, status : Statuses,
   lines : SUBSET SpokenLines, rev : [SpokenLines -> Revs], version : Nat]
BusEvents ==
  [type : {"segment"}, line : SpokenLines] \cup [type : {"speaker_update"}, line : SpokenLines, rev : Revs]
    \cup [type : {"copilot"}, version : Nat] \cup [type : {"draft_segment"}, line : SpokenLines]
Watches == {"start", "ticket", "first", "open", "lost", "last", "finished", "signedOut", "notFound"}

\* One view of the session is behind another one.
Upto(x, y) == x.lines \subseteq y.lines /\ x.version <= y.version /\ \A l \in SpokenLines : x.rev[l] <= y.rev[l]
SameAs(x, y) == x.lines = y.lines /\ x.version = y.version /\ x.rev = y.rev
\* An event tells of something that is stored.
Tells(event, kept) ==
  /\ event.type = "segment" => event.line \in kept.lines
  /\ event.type = "speaker_update" => event.rev <= kept.rev[event.line]
  /\ event.type = "copilot" => event.version <= kept.version
\* What a request has read; one that found the session over reads the whole of it.
ReadOf(d, kept) ==
  /\ d = Idle \/ d \in Asks
  /\ d.step = "answer" => Upto(d, kept)
  /\ d.step \in {"row", "answer"} /\ d.status = "done" => kept.status # "live"
  /\ d.step = "answer" /\ d.status = "done" => SameAs(d, kept)

EventsTell ==
  /\ unpublished \in SUBSET BusEvents /\ inbox \in Seq(BusEvents) /\ Len(inbox) <= QueueSize
  /\ \A event \in unpublished : Tells(event, record)
  /\ \A k \in 1..Len(inbox) : Tells(inbox[k], record)
ReadsTell == DOMAIN reads = 1..MaxReads /\ \A i \in 1..MaxReads : ReadOf(reads[i], record)
PageBehind == page \in Pages /\ Upto(page, record)
FinishedWhole == watch = "finished" => record.status # "live" /\ SameAs(page, record)
ViewInv == record \in Records /\ watch \in Watches /\ EventsTell /\ ReadsTell /\ PageBehind /\ FinishedWhole

LEMMA UptoSame == ASSUME NEW x, NEW y, x.version \in Int, x.rev \in [SpokenLines -> Revs], SameAs(x, y) PROVE Upto(x, y)
  BY DEF Upto, SameAs, Revs

LEMMA UptoOn ==
  ASSUME NEW x, NEW y, NEW z, Upto(x, y), Upto(y, z), x.version \in Int, y.version \in Int, z.version \in Int,
         x.rev \in [SpokenLines -> Revs], y.rev \in [SpokenLines -> Revs], z.rev \in [SpokenLines -> Revs]
  PROVE  Upto(x, z)
  BY DEF Upto, Revs

\* The rows go on: what told of them still does, if no request and no page had the whole of them.
LEMMA RowsGrow ==
  ASSUME ViewInv, record' \in Records, record.status = "live", Upto(record, record'),
         NEW event \in BusEvents, Tells(event, record'), unpublished' = unpublished \cup {event},
         UNCHANGED <<inbox, page, watch, reads>>
  PROVE  ViewInv' /\ Upto(page, page')
<1>1. record \in Records /\ page \in Pages
  BY DEF ViewInv, PageBehind
<1>2. \A e \in BusEvents : Tells(e, record) => Tells(e, record')
  <2> SUFFICES ASSUME NEW e \in BusEvents, Tells(e, record) PROVE Tells(e, record')
    OBVIOUS
  <2>1. record.lines \subseteq record'.lines /\ record.version <= record'.version /\ \A l \in SpokenLines : record.rev[l] <= record'.rev[l]
    BY DEF Upto
  <2>2. CASE e.type = "segment"
    BY <2>1, <2>2 DEF Tells
  <2>3. CASE e.type = "speaker_update"
    <3>1. e.line \in SpokenLines /\ e.rev \in Revs
      BY <2>3 DEF BusEvents
    <3>2. record.rev[e.line] \in Revs /\ record'.rev[e.line] \in Revs
      BY <3>1, <1>1 DEF Records
    <3> QED BY <2>1, <2>3, <3>1, <3>2 DEF Tells, Revs
  <2>4. CASE e.type = "copilot"
    <3>1. e.version \in Nat
      BY <2>4 DEF BusEvents
    <3>2. record.version \in Nat /\ record'.version \in Nat
      BY <1>1 DEF Records
    <3> QED BY <2>1, <2>4, <3>1, <3>2 DEF Tells
  <2> QED BY <2>2, <2>3, <2>4 DEF Tells
<1>3. EventsTell'
  BY <1>2 DEF ViewInv, EventsTell
<1>4. ReadsTell'
  <2> SUFFICES ASSUME NEW i \in 1..MaxReads PROVE ReadOf(reads[i], record')
    BY DEF ViewInv, ReadsTell
  <2>1. ReadOf(reads[i], record)
    BY DEF ViewInv, ReadsTell
  <2>2. ASSUME reads[i].step = "answer" PROVE Upto(reads[i], record')
    <3>1. reads[i] \in Asks /\ Upto(reads[i], record)
      BY <2>1, <2>2 DEF ReadOf, Idle
    <3> QED BY <3>1, <1>1, UptoOn DEF Asks, Records
  <2> QED BY <2>1, <2>2 DEF ReadOf
<1>5. PageBehind'
  BY <1>1, UptoOn DEF ViewInv, PageBehind, Pages, Records
<1>6. FinishedWhole' /\ watch' \in Watches
  BY DEF ViewInv, FinishedWhole
<1>7. Upto(page, page')
  BY <1>1, UptoSame DEF Pages, SameAs
<1> QED BY <1>3, <1>4, <1>5, <1>6, <1>7 DEF ViewInv

LEMMA RowsStored ==
  ASSUME ViewInv, (\E l \in SpokenLines : StoreLine(l) \/ StoreSpeaker(l) \/ RelayDraft(l)) \/ StoreCopilot
  PROVE  ViewInv' /\ Upto(page, page')
<1>1. record \in Records /\ record.rev \in [SpokenLines -> Revs] /\ record.version \in Nat /\ record.lines \in SUBSET SpokenLines
  BY DEF ViewInv, Records
<1>2. ASSUME NEW l \in SpokenLines, StoreLine(l) PROVE ViewInv' /\ Upto(page, page')
  <2> DEFINE event == [type |-> "segment", line |-> l]
  <2>1. /\ record.status = "live" /\ record' = [record EXCEPT !.lines = @ \cup {l}]
        /\ unpublished' = unpublished \cup {event} /\ UNCHANGED <<inbox, page, watch, reads>>
    BY <1>2 DEF StoreLine, Writes
  <2>2. record' \in Records /\ record'.lines = record.lines \cup {l} /\ record'.rev = record.rev /\ record'.version = record.version
    BY <1>1, <2>1 DEF Records
  <2>3. Upto(record, record')
    BY <1>1, <2>2 DEF Upto, Revs
  <2>4. event \in BusEvents /\ Tells(event, record')
    BY <2>2 DEF BusEvents, Tells
  <2> HIDE DEF event
  <2> QED BY <2>1, <2>2, <2>3, <2>4, RowsGrow
<1>3. ASSUME NEW l \in SpokenLines, StoreSpeaker(l) PROVE ViewInv' /\ Upto(page, page')
  <2> DEFINE n == record.rev[l] + 1
             event == [type |-> "speaker_update", line |-> l, rev |-> n]
  <2>1. /\ record.status = "live" /\ record' = [record EXCEPT !.rev[l] = n]
        /\ unpublished' = unpublished \cup {event} /\ UNCHANGED <<inbox, page, watch, reads>>
    BY <1>3 DEF StoreSpeaker, Writes
  <2>2. n \in Revs /\ record.rev[l] <= n
    BY <1>1 DEF Revs
  <2> HIDE DEF n
  <2>3. record'.rev = [record.rev EXCEPT ![l] = n] /\ record'.lines = record.lines /\ record'.version = record.version
        /\ record'.status = record.status
    BY <1>1, <2>1 DEF Records
  <2>4. record'.rev \in [SpokenLines -> Revs] /\ record'.rev[l] = n /\ \A k \in SpokenLines : record.rev[k] <= record'.rev[k]
    BY <1>1, <2>2, <2>3 DEF Revs
  <2>5. record' \in Records
    BY <1>1, <2>1, <2>2 DEF Records
  <2>6. Upto(record, record')
    BY <1>1, <2>3, <2>4 DEF Upto
  <2>7. n <= n
    BY <2>2 DEF Revs
  <2>8. event \in BusEvents /\ Tells(event, record')
    BY <2>2, <2>4, <2>7 DEF BusEvents, Tells
  <2> HIDE DEF event
  <2> QED BY <2>1, <2>5, <2>6, <2>8, RowsGrow
<1>4. ASSUME NEW l \in SpokenLines, RelayDraft(l) PROVE ViewInv' /\ Upto(page, page')
  <2> DEFINE event == [type |-> "draft_segment", line |-> l]
  <2>1. record.status = "live" /\ record' = record /\ unpublished' = unpublished \cup {event} /\ UNCHANGED <<inbox, page, watch, reads>>
    BY <1>4 DEF RelayDraft, Writes
  <2>2. event \in BusEvents /\ Tells(event, record')
    BY DEF BusEvents, Tells
  <2>3. Upto(record, record')
    BY <1>1, <2>1, UptoSame DEF SameAs
  <2> HIDE DEF event
  <2> QED BY <1>1, <2>1, <2>2, <2>3, RowsGrow
<1>5. ASSUME StoreCopilot PROVE ViewInv' /\ Upto(page, page')
  <2> DEFINE n == record.version + 1
             event == [type |-> "copilot", version |-> n]
  <2>1. /\ record.status = "live" /\ record' = [record EXCEPT !.version = n]
        /\ unpublished' = unpublished \cup {event} /\ UNCHANGED <<inbox, page, watch, reads>>
    BY <1>5 DEF StoreCopilot, Writes
  <2>2. n \in Nat /\ record.version <= n /\ n <= n
    BY <1>1
  <2> HIDE DEF n
  <2>3. record' \in Records /\ record'.rev = record.rev /\ record'.lines = record.lines /\ record'.version = n
    BY <1>1, <2>1, <2>2 DEF Records
  <2>4. Upto(record, record')
    BY <1>1, <2>2, <2>3 DEF Upto, Revs
  <2>5. event \in BusEvents /\ Tells(event, record')
    BY <2>2, <2>3 DEF BusEvents, Tells
  <2> HIDE DEF event
  <2> QED BY <2>1, <2>3, <2>4, <2>5, RowsGrow
<1> QED BY <1>2, <1>3, <1>4, <1>5

\* The session ends or is deleted: the rows stay.
LEMMA SessionOver == ASSUME ViewInv, End \/ Delete PROVE ViewInv' /\ UNCHANGED page
<1>1. PICK status \in {"done", "deleted"} : record' = [record EXCEPT !.status = status]
  BY DEF End, Delete
<1>2. UNCHANGED <<inbox, page, watch, reads, unpublished>>
  BY DEF End, Delete, Writes
<1>3. record' \in Records /\ record'.status # "live" /\ record'.lines = record.lines /\ record'.rev = record.rev /\ record'.version = record.version
  BY <1>1 DEF ViewInv, Records, Statuses
<1>4. EventsTell'
  BY <1>2, <1>3 DEF ViewInv, EventsTell, Tells
<1>5. ReadsTell'
  BY <1>2, <1>3 DEF ViewInv, ReadsTell, ReadOf, Upto, SameAs
<1>6. PageBehind' /\ FinishedWhole' /\ watch' \in Watches
  BY <1>2, <1>3 DEF ViewInv, PageBehind, FinishedWhole, Upto, SameAs
<1> QED BY <1>2, <1>3, <1>4, <1>5, <1>6 DEF ViewInv

\* The rows and the page stay, and what is waiting or in the air still tells of the rows.
LEMMA PageStays ==
  ASSUME ViewInv, UNCHANGED <<record, page>>, EventsTell', ReadsTell', watch' \in Watches, watch' = "finished" => watch = "finished"
  PROVE  ViewInv' /\ UNCHANGED page
<1>1. PageBehind' /\ FinishedWhole'
  BY DEF ViewInv, PageBehind, FinishedWhole
<1> QED BY <1>1 DEF ViewInv

LEMMA QueueEmptied ==
  ASSUME ViewInv, UNCHANGED record, unpublished' \in SUBSET unpublished, inbox' \in {inbox, <<>>}
  PROVE  EventsTell'
<1>1. EventsTell /\ QueueSize \in Nat
  BY ViewingConfigured DEF ViewInv
<1>2. <<>> \in Seq(BusEvents) /\ Len(<<>>) = 0
  OBVIOUS
<1>3. inbox' \in Seq(BusEvents) /\ Len(inbox') <= QueueSize /\ \A k \in 1..Len(inbox') : Tells(inbox'[k], record)
  <2>1. CASE inbox' = inbox
    BY <2>1, <1>1 DEF EventsTell
  <2>2. CASE inbox' = <<>>
    BY <2>2, <1>1, <1>2
  <2> QED BY <2>1, <2>2
<1> QED BY <1>1, <1>3 DEF EventsTell

LEMMA Published == ASSUME ViewInv, NEW event \in unpublished, Publish(event) PROVE ViewInv' /\ UNCHANGED page
<1>1. /\ unpublished' = unpublished \ {event} /\ UNCHANGED <<record, page, watch, reads>>
      /\ inbox' = inbox \/ (Len(inbox) < QueueSize /\ inbox' = Append(inbox, event))
  BY DEF Publish
<1>2. EventsTell'
  <2>1. CASE inbox' = inbox
    BY <1>1, <2>1, QueueEmptied
  <2>2. CASE Len(inbox) < QueueSize /\ inbox' = Append(inbox, event)
    <3>1. event \in BusEvents /\ Tells(event, record) /\ inbox \in Seq(BusEvents) /\ QueueSize \in Nat
      BY ViewingConfigured DEF ViewInv, EventsTell
    <3>2. inbox' \in Seq(BusEvents) /\ Len(inbox') = Len(inbox) + 1 /\ Len(inbox) \in Nat
          /\ \A k \in 1..Len(inbox') : inbox'[k] = event \/ (k \in 1..Len(inbox) /\ inbox'[k] = inbox[k])
      <4> DEFINE S == BusEvents
      <4> HIDE DEF S
      <4>1. event \in S /\ inbox \in Seq(S)
        BY <3>1 DEF S
      <4>2. inbox' \in Seq(S) /\ Len(inbox') = Len(inbox) + 1 /\ Len(inbox) \in Nat
            /\ \A k \in 1..Len(inbox') : inbox'[k] = event \/ (k \in 1..Len(inbox) /\ inbox'[k] = inbox[k])
        BY <2>2, <4>1
      <4> QED BY <4>2 DEF S
    <3> QED BY <1>1, <2>2, <3>1, <3>2 DEF ViewInv, EventsTell
  <2> QED BY <1>1, <2>1, <2>2
<1>3. ReadsTell'
  BY <1>1 DEF ViewInv, ReadsTell
<1> QED BY <1>1, <1>2, <1>3, PageStays DEF ViewInv

\* A request is made, fails or is let go of.
LEMMA ReadsStay ==
  ASSUME ViewInv, UNCHANGED record, DOMAIN reads' = DOMAIN reads,
         \A i \in 1..MaxReads : \/ reads'[i] = reads[i] \/ reads'[i] = Idle
                                \/ (reads[i] \in Asks /\ reads'[i] = [reads[i] EXCEPT !.step = "failed"])
                                \/ \E why \in {"first", "poll", "last"} : reads'[i] = Asked(why)
  PROVE  ReadsTell'
<1>1. record \in Records /\ DOMAIN reads = 1..MaxReads /\ \A i \in 1..MaxReads : ReadOf(reads[i], record)
  BY DEF ViewInv, ReadsTell
<1>2. ReadOf(Idle, record)
  BY DEF ReadOf, Idle
<1>3. ASSUME NEW d \in Asks PROVE ReadOf([d EXCEPT !.step = "failed"], record)
  BY DEF ReadOf, Asks
<1>4. ASSUME NEW why \in {"first", "poll", "last"} PROVE ReadOf(Asked(why), record)
  <2>1. NoSpeakers \in [SpokenLines -> Revs]
    BY DEF NoSpeakers, Revs
  <2>2. Asked(why) \in Asks /\ Asked(why).step # "answer" /\ Asked(why).status = record.status
    BY <1>1, <2>1 DEF Asked, Asks, Records
  <2> QED BY <2>2 DEF ReadOf
<1> QED BY <1>1, <1>2, <1>3, <1>4 DEF ReadsTell

LEMMA Restarted == ASSUME ViewInv, ServerRestarts PROVE ViewInv' /\ UNCHANGED page
<1>1. /\ unpublished' = {} /\ inbox' = <<>> /\ reads' = [i \in DOMAIN reads |-> Cut(reads[i])]
      /\ watch' \in {watch, "lost"} /\ UNCHANGED <<record, page>>
  BY DEF ServerRestarts
<1>2. \A i \in 1..MaxReads : reads'[i] = reads[i] \/ (reads[i] \in Asks /\ reads'[i] = [reads[i] EXCEPT !.step = "failed"])
  <2> SUFFICES ASSUME NEW i \in 1..MaxReads, reads'[i] # reads[i] PROVE reads[i] \in Asks /\ reads'[i] = [reads[i] EXCEPT !.step = "failed"]
    OBVIOUS
  <2>1. reads'[i] = Cut(reads[i]) /\ ReadOf(reads[i], record)
    BY <1>1 DEF ViewInv, ReadsTell
  <2> QED BY <2>1 DEF Cut, ReadOf, Idle
<1>3. ReadsTell'
  BY <1>1, <1>2, ReadsStay
<1>4. EventsTell'
  BY <1>1, QueueEmptied
<1> QED BY <1>1, <1>3, <1>4, PageStays DEF ViewInv, Watches

\* watchSession asks, connects and loses its socket.
LEMMA Connecting ==
  ASSUME ViewInv, GetTicket \/ OpenSocket \/ SocketDrops \/ Poll \/ AfterLoss
  PROVE  ViewInv' /\ UNCHANGED page
<1>1. /\ UNCHANGED <<record, unpublished, page>> /\ inbox' \in {inbox, <<>>}
      /\ watch' \in {watch, "ticket", "notFound", "lost", "signedOut", "first", "last"}
      /\ UNCHANGED reads \/ \E i \in DOMAIN reads : \E why \in {"first", "poll", "last"} : Ask(i, why)
  BY DEF GetTicket, OpenSocket, SocketDrops, Poll, AfterLoss
<1>2. EventsTell'
  BY <1>1, QueueEmptied
<1>3. ReadsTell'
  <2>1. CASE UNCHANGED reads
    BY <1>1, <2>1, ReadsStay
  <2>2. ASSUME NEW i \in DOMAIN reads, NEW why \in {"first", "poll", "last"}, Ask(i, why) PROVE ReadsTell'
    <3>1. reads' = [reads EXCEPT ![i] = Asked(why)]
      BY <2>2 DEF Ask
    <3> QED BY <3>1, <1>1, ReadsStay DEF ViewInv, ReadsTell
  <2> QED BY <1>1, <2>1, <2>2
<1> QED BY <1>1, <1>2, <1>3, PageStays DEF ViewInv, Watches

LEMMA ReadingOn ==
  ASSUME ViewInv, NEW i \in DOMAIN reads, ReadRest(i) \/ RequestFails(i) \/ NoSnapshot(i)
  PROVE  ViewInv' /\ UNCHANGED page
<1>1. UNCHANGED <<record, page, unpublished>> /\ inbox' \in {inbox, <<>>} /\ watch' \in {watch, "notFound", "lost", "start"}
  BY DEF ReadRest, RequestFails, NoSnapshot
<1>2. i \in 1..MaxReads /\ ReadOf(reads[i], record) /\ record \in Records
  BY DEF ViewInv, ReadsTell
<1>3. ReadsTell'
  <2>1. CASE ReadRest(i)
    <3> DEFINE d == [reads[i] EXCEPT !.step = "answer", !.lines = record.lines, !.rev = record.rev, !.version = record.version]
    <3>1. reads[i].step = "row" /\ reads' = [reads EXCEPT ![i] = d]
      BY <2>1 DEF ReadRest
    <3>2. reads[i] \in Asks
      BY <1>2, <3>1 DEF ReadOf, Idle
    <3>3. d \in Asks /\ d.step = "answer" /\ d.status = reads[i].status /\ SameAs(d, record)
      BY <1>2, <3>2 DEF Asks, Records, SameAs
    <3> HIDE DEF d
    <3>4. ReadOf(d, record)
      <4>1. Upto(d, record)
        BY <3>3, UptoSame DEF Asks
      <4> QED BY <1>2, <3>1, <3>3, <4>1 DEF ReadOf
    <3> QED BY <1>1, <3>1, <3>4 DEF ViewInv, ReadsTell
  <2>2. CASE RequestFails(i)
    <3>1. reads[i].step \in {"row", "answer"} /\ reads' = [reads EXCEPT ![i] = [reads[i] EXCEPT !.step = "failed"]]
      BY <2>2 DEF RequestFails
    <3>2. reads[i] \in Asks
      BY <1>2, <3>1 DEF ReadOf, Idle
    <3> QED BY <1>1, <3>1, <3>2, ReadsStay DEF ViewInv, ReadsTell
  <2>3. CASE NoSnapshot(i)
    <3>1. reads' = [reads EXCEPT ![i] = Idle]
      BY <2>3 DEF NoSnapshot
    <3> QED BY <1>1, <3>1, ReadsStay DEF ViewInv, ReadsTell
  <2> QED BY <2>1, <2>2, <2>3
<1>4. EventsTell'
  BY <1>1, QueueEmptied
<1> QED BY <1>1, <1>3, <1>4, PageStays DEF ViewInv, Watches

-----------------------------------------------------------------------------
\* The reducer: a page goes forward, and not past the rows.
LEMMA SpeakersApplied ==
  ASSUME NEW p \in Pages, NEW rev \in [SpokenLines -> Revs]
  PROVE  /\ ApplySpeakers(p, rev) \in Pages /\ Upto(p, ApplySpeakers(p, rev))
         /\ ApplySpeakers(p, rev).lines = p.lines /\ ApplySpeakers(p, rev).version = p.version
         /\ \A kept \in Records : (\A l \in SpokenLines : rev[l] <= kept.rev[l]) /\ Upto(p, kept) => Upto(ApplySpeakers(p, rev), kept)
<1> DEFINE newest == Newest(p.rev, rev)
<1>1. newest \in [SpokenLines -> Revs] /\ \A l \in SpokenLines : newest[l] \in {p.rev[l], rev[l]} /\ p.rev[l] <= newest[l]
  BY DEF Newest, Pages, Revs
<1>2. ApplySpeakers(p, rev) = [p EXCEPT !.rev = newest]
  BY DEF ApplySpeakers
<1> HIDE DEF newest
<1> DEFINE q == [p EXCEPT !.rev = newest]
<1>3. q \in Pages /\ q.lines = p.lines /\ q.version = p.version /\ q.rev = newest /\ p.version \in Int
  BY <1>1 DEF Pages
<1> HIDE DEF q
<1>4. Upto(p, q)
  BY <1>1, <1>3 DEF Upto
<1>5. \A kept \in Records : (\A l \in SpokenLines : rev[l] <= kept.rev[l]) /\ Upto(p, kept) => Upto(q, kept)
  BY <1>1, <1>3 DEF Upto
<1> QED BY <1>2, <1>3, <1>4, <1>5 DEF q

LEMMA SegmentsMerged ==
  ASSUME NEW p \in Pages, NEW lines \in SUBSET SpokenLines
  PROVE  /\ MergeSegments(p, lines) \in Pages /\ Upto(p, MergeSegments(p, lines))
         /\ \A kept \in Records : lines \subseteq kept.lines /\ Upto(p, kept) => Upto(MergeSegments(p, lines), kept)
<1> DEFINE q == MergeSegments(p, lines)
<1>1. q \in Pages /\ q.version = p.version /\ q.rev = p.rev /\ p.lines \subseteq q.lines /\ q.lines \subseteq p.lines \cup lines
  BY DEF MergeSegments, Pages
<1> HIDE DEF q
<1>2. Upto(p, q)
  BY <1>1 DEF Upto, Pages, Revs
<1>3. \A kept \in Records : lines \subseteq kept.lines /\ Upto(p, kept) => Upto(q, kept)
  BY <1>1 DEF Upto
<1> QED BY <1>1, <1>2, <1>3 DEF q

LEMMA CopilotShown ==
  ASSUME NEW p \in Pages, NEW version \in Nat
  PROVE  /\ ApplyCopilot(p, version) \in Pages /\ Upto(p, ApplyCopilot(p, version))
         /\ \A kept \in Records : version <= kept.version /\ Upto(p, kept) => Upto(ApplyCopilot(p, version), kept)
<1> DEFINE q == ApplyCopilot(p, version)
<1>1. q \in Pages /\ q.lines = p.lines /\ q.rev = p.rev /\ p.version <= q.version /\ q.version \in {p.version, version}
  BY DEF ApplyCopilot, Pages
<1> HIDE DEF q
<1>2. Upto(p, q)
  BY <1>1 DEF Upto, Pages, Revs
<1>3. \A kept \in Records : version <= kept.version /\ Upto(p, kept) => Upto(q, kept)
  BY <1>1 DEF Upto
<1> QED BY <1>1, <1>2, <1>3 DEF q

LEMMA Reduced ==
  ASSUME NEW p \in Pages, NEW event \in BusEvents, NEW kept \in Records, Tells(event, kept), Upto(p, kept)
  PROVE  Reduce(p, event) \in Pages /\ Upto(p, Reduce(p, event)) /\ Upto(Reduce(p, event), kept)
<1>1. CASE event.type = "segment"
  <2>1. event.line \in SpokenLines /\ event.line \in kept.lines
    BY <1>1 DEF BusEvents, Tells
  <2>2. Reduce(p, event) = MergeSegments(p, {event.line})
    BY <1>1 DEF Reduce
  <2>3. {event.line} \in SUBSET SpokenLines /\ {event.line} \subseteq kept.lines
    BY <2>1
  <2> QED BY <2>2, <2>3, SegmentsMerged
<1>2. CASE event.type = "speaker_update"
  <2> DEFINE rev == [NoSpeakers EXCEPT ![event.line] = event.rev]
  <2>1. event.line \in SpokenLines /\ event.rev \in Revs /\ event.rev <= kept.rev[event.line]
    BY <1>2 DEF BusEvents, Tells
  <2>2. rev \in [SpokenLines -> Revs] /\ \A l \in SpokenLines : rev[l] <= kept.rev[l]
    <3>1. \A l \in SpokenLines : rev[l] = IF l = event.line THEN event.rev ELSE -1
      BY DEF NoSpeakers
    <3>2. \A l \in SpokenLines : kept.rev[l] \in Revs
      BY DEF Records
    <3>3. \A l \in SpokenLines : rev[l] <= kept.rev[l]
      BY <2>1, <3>1, <3>2 DEF Revs
    <3>4. rev \in [SpokenLines -> Revs]
      BY <2>1 DEF NoSpeakers, Revs
    <3> QED BY <3>3, <3>4
  <2>3. Reduce(p, event) = ApplySpeakers(p, rev)
    BY <1>2 DEF Reduce
  <2> HIDE DEF rev
  <2> QED BY <2>2, <2>3, SpeakersApplied
<1>3. CASE event.type = "copilot"
  <2>1. event.version \in Nat /\ event.version <= kept.version
    BY <1>3 DEF BusEvents, Tells
  <2>2. Reduce(p, event) = ApplyCopilot(p, event.version)
    BY <1>3 DEF Reduce
  <2> QED BY <2>1, <2>2, CopilotShown
<1>4. CASE event.type = "draft_segment"
  <2> DEFINE q == [p EXCEPT !.drafts = @ \cup {event.line}]
  <2>1. event.line \in SpokenLines
    BY <1>4 DEF BusEvents
  <2>2. Reduce(p, event) = q
    BY <1>4 DEF Reduce
  <2>3. q \in Pages /\ SameAs(q, p)
    BY <2>1 DEF Pages, SameAs
  <2> HIDE DEF q
  <2>4. Upto(p, q) /\ Upto(q, kept)
    BY <2>3, UptoSame DEF Pages, SameAs, Upto
  <2> QED BY <2>2, <2>3, <2>4
<1> QED BY <1>1, <1>2, <1>3, <1>4 DEF BusEvents

LEMMA SnapshotReduced ==
  ASSUME NEW p \in Pages, NEW d \in Asks, NEW kept \in Records, Upto(d, kept), Upto(p, kept)
  PROVE  ReduceSnapshot(p, d) \in Pages /\ Upto(p, ReduceSnapshot(p, d)) /\ Upto(ReduceSnapshot(p, d), kept)
<1> DEFINE a == MergeSegments(p, d.lines)
           b == ApplySpeakers(a, d.rev)
           c == ApplyCopilot(b, d.version)
           e == [c EXCEPT !.status = d.status]
<1>1. /\ d.lines \in SUBSET SpokenLines /\ d.rev \in [SpokenLines -> Revs] /\ d.version \in Nat /\ d.status \in Statuses
      /\ d.lines \subseteq kept.lines /\ d.version <= kept.version /\ \A l \in SpokenLines : d.rev[l] <= kept.rev[l]
  BY DEF Asks, Upto
<1>2. ReduceSnapshot(p, d) = e
  BY DEF ReduceSnapshot
<1>3. a \in Pages /\ Upto(p, a) /\ Upto(a, kept)
  BY <1>1, SegmentsMerged
<1> HIDE DEF a
<1>4. b \in Pages /\ Upto(a, b) /\ Upto(b, kept)
  BY <1>1, <1>3, SpeakersApplied
<1> HIDE DEF b
<1>5. c \in Pages /\ Upto(b, c) /\ Upto(c, kept)
  BY <1>1, <1>4, CopilotShown
<1> HIDE DEF c
<1>6. e \in Pages /\ SameAs(e, c)
  BY <1>1, <1>5 DEF Pages, SameAs
<1> HIDE DEF e
<1>7. Upto(c, e) /\ Upto(e, kept)
  BY <1>5, <1>6, UptoSame DEF Pages, SameAs, Upto
<1>8. Upto(p, c)
  <2>1. Upto(p, b)
    BY <1>3, <1>4, UptoOn DEF Pages
  <2> QED BY <2>1, <1>4, <1>5, UptoOn DEF Pages
<1>9. Upto(p, e)
  BY <1>5, <1>6, <1>7, <1>8, UptoOn DEF Pages
<1> QED BY <1>2, <1>6, <1>7, <1>9

LEMMA Received == ASSUME ViewInv, Receive PROVE ViewInv' /\ Upto(page, page')
<1>1. /\ inbox # <<>> /\ inbox' = Tail(inbox) /\ page' = Reduce(page, Head(inbox)) /\ watch \in {"first", "open"}
      /\ UNCHANGED <<record, unpublished, watch, reads>>
  BY DEF Receive, Watching
<1>2. inbox \in Seq(BusEvents) /\ Len(inbox) <= QueueSize /\ QueueSize \in Nat /\ \A k \in 1..Len(inbox) : Tells(inbox[k], record)
  BY ViewingConfigured DEF ViewInv, EventsTell
<1>3. /\ Head(inbox) \in BusEvents /\ Head(inbox) = inbox[1] /\ 1 \in 1..Len(inbox)
      /\ inbox' \in Seq(BusEvents) /\ Len(inbox') <= Len(inbox) /\ Len(inbox') \in Nat /\ Len(inbox) \in Nat
      /\ \A k \in 1..Len(inbox') : inbox'[k] = inbox[k + 1] /\ k + 1 \in 1..Len(inbox)
  <2> DEFINE S == BusEvents
  <2> HIDE DEF S
  <2>1. inbox \in Seq(S)
    BY <1>2 DEF S
  <2>2. /\ Head(inbox) \in S /\ Head(inbox) = inbox[1] /\ 1 \in 1..Len(inbox)
        /\ inbox' \in Seq(S) /\ Len(inbox') <= Len(inbox) /\ Len(inbox') \in Nat /\ Len(inbox) \in Nat
        /\ \A k \in 1..Len(inbox') : inbox'[k] = inbox[k + 1] /\ k + 1 \in 1..Len(inbox)
    BY <1>1, <2>1
  <2> QED BY <2>2 DEF S
<1>4. page' \in Pages /\ Upto(page, page') /\ Upto(page', record)
  BY <1>1, <1>2, <1>3, Reduced DEF ViewInv, PageBehind
<1>5. EventsTell'
  BY <1>1, <1>2, <1>3 DEF ViewInv, EventsTell
<1>6. ReadsTell' /\ FinishedWhole' /\ watch' \in Watches /\ record' \in Records
  BY <1>1 DEF ViewInv, ReadsTell, FinishedWhole
<1> QED BY <1>1, <1>4, <1>5, <1>6 DEF ViewInv, PageBehind

LEMMA SnapshotTaken == ASSUME ViewInv, NEW i \in DOMAIN reads, Snapshot(i) PROVE ViewInv' /\ Upto(page, page')
<1> DEFINE d == reads[i]
<1>1. d.step = "answer" /\ reads' = [reads EXCEPT ![i] = Idle] /\ UNCHANGED <<record, unpublished>>
  BY DEF Snapshot
<1>2. i \in 1..MaxReads /\ ReadOf(d, record) /\ record \in Records /\ page \in Pages /\ Upto(page, record)
  BY DEF ViewInv, ReadsTell, PageBehind
<1>3. d \in Asks /\ Upto(d, record)
  BY <1>1, <1>2 DEF ReadOf, Idle
<1>4. ReadsTell'
  BY <1>1, ReadsStay DEF ViewInv, ReadsTell
<1>5. CASE watch \in {"finished", "signedOut", "notFound"}
  <2>1. UNCHANGED <<page, watch, inbox>>
    BY <1>5 DEF Snapshot
  <2>2. Upto(page, page')
    BY <1>2, <2>1, UptoSame DEF Pages, SameAs
  <2> QED BY <2>1, <2>2, <1>1, <1>4, QueueEmptied, PageStays DEF ViewInv
<1>6. CASE watch \notin {"finished", "signedOut", "notFound"} /\ d.status = "done"
  <2>1. watch' = "finished" /\ page' = Final(d) /\ inbox' = <<>>
    BY <1>6 DEF Snapshot, Finished
  <2>2. SameAs(d, record) /\ record.status # "live"
    BY <1>1, <1>2, <1>6 DEF ReadOf
  <2>3. page' \in Pages /\ SameAs(page', d)
    BY <2>1, <1>3 DEF Final, Pages, Asks, SameAs
  <2>4. SameAs(page', record)
    BY <2>2, <2>3 DEF SameAs
  <2>5. Upto(page, page') /\ Upto(page', record)
    <3>1. Upto(page', record)
      BY <2>3, <2>4, UptoSame DEF Pages
    <3>2. Upto(page, page')
      BY <1>2, <2>4 DEF Upto, SameAs
    <3> QED BY <3>1, <3>2
  <2>6. EventsTell'
    BY <1>1, <2>1, QueueEmptied
  <2> QED BY <1>1, <1>2, <1>4, <2>1, <2>2, <2>3, <2>4, <2>5, <2>6 DEF ViewInv, PageBehind, FinishedWhole, Watches
<1>7. CASE watch \notin {"finished", "signedOut", "notFound"} /\ d.status # "done"
  <2>1. page' = ReduceSnapshot(page, d) /\ UNCHANGED inbox /\ watch' \in {watch, "open", "start"}
    BY <1>7 DEF Snapshot, Finished
  <2>2. page' \in Pages /\ Upto(page, page') /\ Upto(page', record)
    BY <1>2, <1>3, <2>1, SnapshotReduced
  <2>3. EventsTell'
    BY <1>1, <2>1, QueueEmptied
  <2> QED BY <1>1, <1>2, <1>4, <1>7, <2>1, <2>2, <2>3 DEF ViewInv, PageBehind, FinishedWhole, Watches
<1> QED BY <1>5, <1>6, <1>7

LEMMA ViewStep == ViewInv /\ [ViewNext]_viewVars => ViewInv' /\ Upto(page, page')
<1> SUFFICES ASSUME ViewInv, [ViewNext]_viewVars PROVE ViewInv' /\ Upto(page, page')
  OBVIOUS
<1>1. ASSUME UNCHANGED page PROVE Upto(page, page')
  BY <1>1, UptoSame DEF ViewInv, PageBehind, Pages, SameAs
<1>2. CASE UNCHANGED viewVars
  <2>1. UNCHANGED <<record, unpublished, inbox, page, watch, reads>>
    BY <1>2 DEF viewVars
  <2>2. ReadsTell'
    BY <2>1 DEF ViewInv, ReadsTell
  <2> QED BY <2>1, <2>2, <1>1, QueueEmptied, PageStays DEF ViewInv
<1>3. CASE ViewNext
  BY <1>1, <1>3, RowsStored, SessionOver, Published, Restarted, Connecting, ReadingOn, Received, SnapshotTaken DEF ViewNext, ReadNext
<1> QED BY <1>2, <1>3

LEMMA ViewStarts == ViewInit => ViewInv
<1> SUFFICES ASSUME ViewInit PROVE ViewInv
  OBVIOUS
<1>1. NoSpeakers \in [SpokenLines -> Revs] /\ \A l \in SpokenLines : NoSpeakers[l] = -1
  BY DEF NoSpeakers, Revs
<1>2. record \in Records /\ page \in Pages /\ Upto(page, record)
  BY <1>1 DEF ViewInit, Records, Pages, Statuses, Upto
<1>3. EventsTell
  <2>1. <<>> \in Seq(BusEvents) /\ Len(<<>>) = 0
    OBVIOUS
  <2> QED BY <2>1, ViewingConfigured DEF ViewInit, EventsTell
<1>4. ReadsTell
  BY DEF ViewInit, ReadsTell, ReadOf, Idle
<1> QED BY <1>2, <1>3, <1>4 DEF ViewInv, ViewInit, PageBehind, FinishedWhole, Watches

LEMMA ViewInvSays == ViewInv => PageSound
<1> SUFFICES ASSUME ViewInv PROVE PageSound
  OBVIOUS
<1>1. page \in Pages /\ record \in Records /\ Upto(page, record)
  BY DEF ViewInv, PageBehind
<1>2. \A i \in DOMAIN reads : reads[i].step \in {"idle", "row", "answer", "failed", "gone"}
  BY DEF ViewInv, ReadsTell, ReadOf, Idle, Asks
<1>3. ViewTypeOK
  BY <1>1, <1>2 DEF ViewInv, ViewTypeOK, EventsTell, Pages, Records, Revs, Statuses, Watches
<1> QED BY <1>1, <1>3 DEF PageSound, Upto, ViewInv, FinishedWhole, SameAs

\* The page never shows what was not stored, and once it has left a finished session it shows the
\* whole of it, however events and snapshots overtake one another: for any lines, queue and number
\* of requests.
THEOREM PageIsSound == ViewInit /\ [][ViewNext]_viewVars => []PageSound
<1>1. ViewInit => ViewInv
  BY ViewStarts
<1>2. ViewInv /\ [ViewNext]_viewVars => ViewInv'
  BY ViewStep
<1>3. ViewInv => PageSound
  BY ViewInvSays
<1> QED BY <1>1, <1>2, <1>3, PTL

LEMMA ViewForward == ViewInv /\ [ViewNext]_viewVars =>
  [/\ page.lines \subseteq page'.lines /\ page.version <= page'.version
   /\ \A l \in SpokenLines : page.rev[l] <= page'.rev[l]]_viewVars
  BY ViewStep DEF Upto

\* Nothing that is shown is taken back.
THEOREM PageGoesForward == ViewInit /\ [][ViewNext]_viewVars => PageForward
<1>1. ViewInit => ViewInv
  BY ViewStarts
<1>2. ViewInv /\ [ViewNext]_viewVars => ViewInv'
  BY ViewStep
<1>3. ViewInv /\ [ViewNext]_viewVars =>
        [/\ page.lines \subseteq page'.lines /\ page.version <= page'.version
         /\ \A l \in SpokenLines : page.rev[l] <= page'.rev[l]]_viewVars
  BY ViewForward
<1> QED BY <1>1, <1>2, <1>3, PTL DEF PageForward
-----------------------------------------------------------------------------
(* The voices of a session: the invariant.                                  *)

VoiceIds == {"live", "spk"} \X LineChannels \X Nat
VoiceRows == [channel : LineChannels, ordinal : Nat \ {0}, label : Labels \cup {""}, profile : Nat, owner : BOOLEAN]
ProfileRows == [label : Labels, owner : BOOLEAN]
KnownProfiles == UNION {[ps -> ProfileRows] : ps \in SUBSET Nat}
Trackers == [on : BOOLEAN, known : KnownProfiles, voices : [LineChannels -> Seq(Nat)]]
LabelRows == [line : Lines, id : VoiceIds, new : BOOLEAN, of : Nat]
LineRows == [there : BOOLEAN, rev : Nat, who : VoiceIds \cup {NoOne}]
Passes == {"live", "ended", "stored", "named", "done"}

SpeakersTyped ==
  /\ line \in [Lines -> LineRows] /\ made \in Nat /\ jobs \in Seq(Lines) /\ Len(jobs) <= MaxJobs
  /\ label \in {NoLabel} \cup LabelRows /\ tracker \in Trackers /\ turns \in [LineChannels -> SUBSET VoiceIds]
  /\ pass \in Passes /\ found \in SUBSET LineChannels /\ bumps \in [SpeakerEvents -> Nat]
\* The rows of voices: finitely many, each of the channel its id says, with a number of its own.
VoicesAre(v, most) ==
  /\ DOMAIN v \in SUBSET VoiceIds /\ v \in [DOMAIN v -> VoiceRows] /\ IsFiniteSet(DOMAIN v)
  /\ \A i \in DOMAIN v : v[i].channel = i[2] /\ v[i].profile <= most
  /\ \A i, j \in DOMAIN v : v[i].ordinal = v[j].ordinal => i = j
ProfilesAre(ps, most) == DOMAIN ps \in SUBSET (1..most) /\ ps \in [DOMAIN ps -> ProfileRows]
\* What has a label has it from a voice of its own channel; what is not there has none.
LinesAre ==
  \A l \in Lines : /\ line[l].who # NoOne => line[l].who[2] = LineChannel[l]
                   /\ ~line[l].there => line[l].rev = 0 /\ line[l].who = NoOne
\* The turns' speakers are voices, and none of them precedes the first pass.
TurnsKnown ==
  /\ \A c \in LineChannels : \A i \in turns[c] : i \in DOMAIN voice /\ i[2] = c
  /\ pass \in {"live", "ended"} /\ bumps["cut"] = 0 => \A c \in LineChannels : turns[c] = {}
\* The labeler works while the session is live, on lines of revision 0, each once.
LabelerLive ==
  /\ pass # "live" => jobs = <<>> /\ label = NoLabel /\ tracker = FreshTracker
  /\ \A k \in 1..Len(jobs) : line[jobs[k]].there /\ line[jobs[k]].rev = 0
  /\ \A k, m \in 1..Len(jobs) : jobs[k] = jobs[m] => k = m
  /\ label # NoLabel => /\ line[label.line].there /\ line[label.line].rev = 0 /\ \A k \in 1..Len(jobs) : jobs[k] # label.line
                        /\ label.id[2] = LineChannel[label.line] /\ (label.of = 0 \/ label.of \in DOMAIN tracker.known)
\* What the tracker knows was enrolled.
TrackerKnows ==
  /\ DOMAIN tracker.known \in SUBSET (1..made)
  /\ \A c \in LineChannels : \A n \in 1..Len(tracker.voices[c]) : tracker.voices[c][n] = 0 \/ tracker.voices[c][n] \in DOMAIN tracker.known
\* Nothing that the labels need has failed, been cut off or been forgotten.
Regular == bumps["cut"] = 0 /\ bumps["dberror"] = 0 /\ bumps["silent"] = 0 /\ bumps["forget"] = 0
\* Then the tracker's voices have rows, but for the one about to be committed, and so have the
\* voices of the lines, but for lines that the pass is about to align.
VoicesHeard ==
  /\ DOMAIN tracker.known \subseteq DOMAIN profile
  /\ label # NoLabel /\ ~label.new => label.id \in DOMAIN voice
  /\ \A c \in LineChannels : \A n \in 1..Len(tracker.voices[c]) :
       <<"live", c, n>> \in DOMAIN voice \/ (label # NoLabel /\ label.new /\ label.id = <<"live", c, n>>)
LinesKnown ==
  \A l \in Lines : line[l].who # NoOne => line[l].who \in DOMAIN voice \/ (pass \in {"stored", "named"} /\ turns[LineChannel[l]] # {})
\* No provisional label outlives a pass that was not cut off.
Replacing == pass = "done" /\ bumps["cut"] = 0 => \A l \in Lines : turns[LineChannel[l]] # {} => line[l].rev # 1
SpeakersInv ==
  /\ SpeakersTyped /\ VoicesAre(voice, made) /\ ProfilesAre(profile, made) /\ LinesAre /\ TurnsKnown /\ LabelerLive
  /\ TrackerKnows /\ (Regular => VoicesHeard /\ LinesKnown) /\ Replacing

-----------------------------------------------------------------------------
\* Ids, numbers and events.
LEMMA IdIs ==
  ASSUME NEW kind \in {"live", "spk"}, NEW c \in LineChannels, NEW n \in Nat
  PROVE  <<kind, c, n>> \in VoiceIds /\ <<kind, c, n>>[2] = c
  BY DEF VoiceIds

LEMMA ChannelIs == ASSUME NEW l \in Lines PROVE LineChannel[l] \in LineChannels
  BY DEF Lines, LineChannels, Range

LEMMA FreshIs ==
  /\ FreshTracker \in Trackers /\ DOMAIN FreshTracker.known = {} /\ \A c \in LineChannels : Len(FreshTracker.voices[c]) = 0
<1>1. <<>> \in Seq(Nat) /\ Len(<<>>) = 0 /\ <<>> \in [{} -> ProfileRows] /\ DOMAIN <<>> = {}
  OBVIOUS
<1>2. <<>> \in KnownProfiles
  BY <1>1 DEF KnownProfiles
<1> QED BY <1>1, <1>2 DEF FreshTracker, Trackers

\* An event that happens counts up, and the others stay.
LEMMA Bumping ==
  ASSUME bumps \in [SpeakerEvents -> Nat], NEW e \in SpeakerEvents, Bumps(e)
  PROVE  /\ bumps' \in [SpeakerEvents -> Nat] /\ bumps'[e] # 0
         /\ \A f \in SpeakerEvents : f # e => bumps'[f] = bumps[f]
<1>1. bumps' = [bumps EXCEPT ![e] = @ + 1]
  BY DEF Bumps
<1>2. bumps[e] \in Nat
  OBVIOUS
<1> QED BY <1>1, <1>2

LEMMA EventsAre == {"name", "forget", "restart", "again", "cut", "dberror", "silent"} \subseteq SpeakerEvents
  BY DEF SpeakerEvents

\* The next number is higher than those in use.
LEMMA NextNumber ==
  ASSUME NEW v, v \in [DOMAIN v -> VoiceRows], IsFiniteSet(DOMAIN v)
  PROVE  NextOrdinal(v) \in Nat \ {0} /\ \A i \in DOMAIN v : v[i].ordinal < NextOrdinal(v)
<1> DEFINE ns == {v[i].ordinal : i \in DOMAIN v}
           all == {0} \cup ns
<1>1. \A i \in DOMAIN v : v[i].ordinal \in Nat
  BY DEF VoiceRows
<1>2. all \in SUBSET Nat /\ all # {}
  BY <1>1
<1>3. IsFiniteSet(all)
  <2>1. [i \in DOMAIN v |-> v[i].ordinal] \in Surjection(DOMAIN v, ns)
    BY DEF Surjection
  <2>2. IsFiniteSet(ns)
    BY <2>1, FS_Surjection
  <2>3. IsFiniteSet(ns \cup {0}) /\ all = ns \cup {0}
    BY <2>2, FS_AddElement
  <2> QED BY <2>3
<1>4. PICK n \in Nat : all \subseteq 0..n
  <2> HIDE DEF all
  <2> QED BY <1>2, <1>3, FiniteBounded
<1>5. Max(all) \in all /\ \A x \in all : x <= Max(all)
  <2> HIDE DEF all
  <2> QED BY <1>2, <1>4, GreatestNumber
<1>6. NextOrdinal(v) = Max(all) + 1
  BY DEF NextOrdinal
<1>7. \A i \in DOMAIN v : v[i].ordinal \in all
  OBVIOUS
<1> DEFINE m == Max(all)
<1>8. m \in Nat /\ \A x \in all : x <= m
  <2> HIDE DEF all
  <2> QED BY <1>2, <1>5
<1>9. NextOrdinal(v) = m + 1
  BY <1>6
<1> HIDE DEF m, all
<1> QED BY <1>1, <1>7, <1>8, <1>9

LEMMA MaxOfTwo ==
  ASSUME NEW a \in Nat, NEW b \in Nat
  PROVE  Max({a, b}) \in Nat /\ a <= Max({a, b}) /\ b <= Max({a, b}) /\ Max({a, b}) \in {a, b}
<1>1. {a, b} \in SUBSET (0..(a + b)) /\ a + b \in Nat
  OBVIOUS
<1>2. Max({a, b}) \in {a, b} /\ \A x \in {a, b} : x <= Max({a, b})
  BY <1>1, GreatestNumber
<1> QED BY <1>2

\* A voice more, or again, with the next number.
LEMMA VoicePut ==
  ASSUME NEW v, NEW most \in Nat, VoicesAre(v, most), NEW id \in VoiceIds, NEW row \in VoiceRows,
         row.channel = id[2], row.profile <= most, row.ordinal = NextOrdinal(v)
  PROVE  VoicesAre(Put(v, id, row), most) /\ DOMAIN Put(v, id, row) = DOMAIN v \cup {id}
<1> DEFINE w == Put(v, id, row)
<1>1. DOMAIN w = DOMAIN v \cup {id} /\ \A i \in DOMAIN w : w[i] = IF i = id THEN row ELSE v[i]
  BY DEF Put
<1>2. DOMAIN w \in SUBSET VoiceIds /\ w \in [DOMAIN w -> VoiceRows]
  BY <1>1 DEF VoicesAre, Put
<1>3. IsFiniteSet(DOMAIN w)
  <2> HIDE DEF w
  <2> QED BY <1>1, FS_AddElement DEF VoicesAre
<1>4. \A i \in DOMAIN v : v[i].ordinal < row.ordinal /\ v[i].ordinal \in Nat /\ row.ordinal \in Nat
  <2>1. \A i \in DOMAIN v : v[i] \in VoiceRows /\ v[i].ordinal < NextOrdinal(v)
    BY NextNumber DEF VoicesAre
  <2> QED BY <2>1 DEF VoiceRows
<1> HIDE DEF w
<1>5. \A i, j \in DOMAIN w : w[i].ordinal = w[j].ordinal => i = j
  <2> TAKE i \in DOMAIN w, j \in DOMAIN w
  <2>1. CASE i = id \/ j = id
    BY <2>1, <1>1, <1>4
  <2>2. CASE i # id /\ j # id
    BY <2>2, <1>1 DEF VoicesAre
  <2> QED BY <2>1, <2>2
<1>6. \A i \in DOMAIN w : w[i].channel = i[2] /\ w[i].profile <= most
  BY <1>1 DEF VoicesAre
<1> QED BY <1>1, <1>2, <1>3, <1>5, <1>6 DEF VoicesAre, w

\* Voices that keep their ids, channels and numbers.
LEMMA VoicesStay ==
  ASSUME NEW v, NEW w, NEW most \in Nat, NEW more \in Nat, VoicesAre(v, most), DOMAIN w = DOMAIN v, w \in [DOMAIN w -> VoiceRows],
         \A i \in DOMAIN v : w[i].channel = v[i].channel /\ w[i].ordinal = v[i].ordinal /\ w[i].profile <= more
  PROVE  VoicesAre(w, more)
<1>1. DOMAIN w \in SUBSET VoiceIds /\ IsFiniteSet(DOMAIN w)
  BY DEF VoicesAre
<1>2. \A i \in DOMAIN w : w[i].channel = i[2] /\ w[i].profile <= more
  BY DEF VoicesAre
<1>3. \A i, j \in DOMAIN w : w[i].ordinal = w[j].ordinal => i = j
  BY DEF VoicesAre
<1> QED BY <1>1, <1>2, <1>3 DEF VoicesAre

\* The voices found are finitely many.
LEMMA SpokenIs ==
  ASSUME NEW cs \in SUBSET LineChannels, NEW count \in [cs -> 0..MaxVoices]
  PROVE  /\ \A c \in cs : Spoken(c, count[c]) \in SUBSET VoiceIds /\ \A i \in Spoken(c, count[c]) : i[2] = c
         /\ IsFiniteSet(UNION {Spoken(c, count[c]) : c \in cs})
<1>0. MaxVoices \in Nat
  BY SpeakersConfigured
<1>1. ASSUME NEW c \in cs
      PROVE  Spoken(c, count[c]) \in SUBSET VoiceIds /\ (\A i \in Spoken(c, count[c]) : i[2] = c) /\ IsFiniteSet(Spoken(c, count[c]))
  <2> DEFINE k == count[c]
  <2>1. k \in Nat
    BY <1>0
  <2> HIDE DEF k
  <2>2. \A n \in 1..k : <<"spk", c, n>> \in VoiceIds /\ <<"spk", c, n>>[2] = c
    BY <2>1, IdIs
  <2>3. [n \in 1..k |-> <<"spk", c, n>>] \in Surjection(1..k, Spoken(c, k))
    BY DEF Spoken, Surjection
  <2>4. IsFiniteSet(1..k)
    BY <2>1, FS_Interval
  <2>5. IsFiniteSet(Spoken(c, k))
    BY <2>3, <2>4, FS_Surjection
  <2>6. Spoken(c, k) \in SUBSET VoiceIds /\ \A i \in Spoken(c, k) : i[2] = c
    BY <2>2 DEF Spoken
  <2> QED BY <2>5, <2>6 DEF k
<1>2. IsFiniteSet(cs)
  <2>1. [l \in Lines |-> LineChannel[l]] \in Surjection(Lines, LineChannels)
    BY DEF Surjection, LineChannels, Range, Lines
  <2>2. IsFiniteSet(LineChannels)
    BY <2>1, FS_Surjection, SpeakersConfigured DEF Lines
  <2> QED BY <2>2, FS_Subset
<1> DEFINE sets == {Spoken(c, count[c]) : c \in cs}
<1>3. IsFiniteSet(sets)
  <2>1. [c \in cs |-> Spoken(c, count[c])] \in Surjection(cs, sets)
    BY DEF Surjection
  <2> QED BY <2>1, <1>2, FS_Surjection
<1>4. \A T \in sets : IsFiniteSet(T)
  BY <1>1
<1>5. IsFiniteSet(UNION sets)
  <2> HIDE DEF sets
  <2> QED BY <1>3, <1>4, FS_UNION
<1> QED BY <1>1, <1>5

\* A finite set can be numbered.
LEMMA Numbered ==
  ASSUME NEW S, IsFiniteSet(S)
  PROVE  \E f \in [S -> 1..Cardinality(S)] : IsInjective(f)
<1>1. Cardinality(S) \in Nat /\ IsFiniteSet(1..Cardinality(S)) /\ Cardinality(1..Cardinality(S)) = Cardinality(S)
  <2>1. Cardinality(S) \in Nat
    BY FS_CardinalityType
  <2> HIDE DEF Cardinality
  <2> QED BY <2>1, FS_Interval
<1>2. ExistsBijection(S, 1..Cardinality(S))
  BY <1>1, FS_SameCardinalityBij
<1> QED BY <1>2 DEF ExistsBijection, Bijection, Injection

\* The pass's voices in place of those of the channels found.
LEMMA ReplacedIs ==
  ASSUME NEW v, NEW most \in Nat, VoicesAre(v, most), NEW cs \in SUBSET LineChannels, NEW count \in [cs -> 0..MaxVoices]
  PROVE  /\ VoicesAre(Replaced(v, count), most)
         /\ \A i \in DOMAIN v : i[2] \notin cs => i \in DOMAIN Replaced(v, count)
         /\ \A c \in cs : Spoken(c, count[c]) \subseteq DOMAIN Replaced(v, count)
<1> DEFINE kept == {i \in DOMAIN v : v[i].channel \notin DOMAIN count}
           ids == UNION {Spoken(c, count[c]) : c \in DOMAIN count}
           place == CHOOSE f \in [ids -> 1..Cardinality(ids)] : IsInjective(f)
           from == NextOrdinal(Restrict(v, kept))
           New(i) == [channel |-> i[2], ordinal |-> from + place[i] - 1, label |-> "", profile |-> 0, owner |-> FALSE]
           w == [i \in kept \cup ids |-> IF i \in kept THEN v[i] ELSE New(i)]
<1>0. DOMAIN count = cs
  OBVIOUS
<1>1. Replaced(v, count) = w
  BY DEF Replaced
<1>2. (\A i \in ids : i \in VoiceIds /\ i[2] \in cs) /\ IsFiniteSet(ids)
  <2>1. ids = UNION {Spoken(c, count[c]) : c \in cs}
    BY <1>0
  <2>2. \A c \in cs : Spoken(c, count[c]) \in SUBSET VoiceIds /\ \A i \in Spoken(c, count[c]) : i[2] = c
    BY SpokenIs
  <2>3. IsFiniteSet(ids)
    BY <2>1, SpokenIs
  <2> QED BY <2>1, <2>2, <2>3
<1>3. kept \subseteq DOMAIN v /\ (\A i \in kept : i[2] \notin cs) /\ \A i \in DOMAIN v : i[2] \notin cs => i \in kept
  BY <1>0 DEF VoicesAre
<1>4. \A c \in cs : Spoken(c, count[c]) \subseteq ids
  BY <1>0
<1> HIDE DEF ids, kept
<1>5. place \in [ids -> 1..Cardinality(ids)] /\ IsInjective(place)
  BY <1>2, Numbered
<1>6. IsFiniteSet(kept) /\ Cardinality(ids) \in Nat
  BY <1>2, <1>3, FS_Subset, FS_CardinalityType DEF VoicesAre
<1>7. from \in Nat \ {0} /\ \A i \in kept : v[i].ordinal < from /\ v[i].ordinal \in Nat
  <2> DEFINE r == Restrict(v, kept)
  <2>1. DOMAIN r = kept /\ r \in [kept -> VoiceRows] /\ \A i \in kept : r[i] = v[i]
    BY <1>3 DEF Restrict, VoicesAre
  <2> HIDE DEF r
  <2>2. NextOrdinal(r) \in Nat \ {0} /\ \A i \in DOMAIN r : r[i].ordinal < NextOrdinal(r)
    BY <1>6, <2>1, NextNumber
  <2>3. \A i \in kept : v[i].ordinal \in Nat
    BY <2>1 DEF VoiceRows
  <2> QED BY <2>1, <2>2, <2>3 DEF r
<1> HIDE DEF place, from
<1>8. \A i \in ids : place[i] \in Nat /\ 1 <= place[i] /\ from + place[i] - 1 \in Nat \ {0} /\ from <= from + place[i] - 1
  BY <1>5, <1>6, <1>7
<1>9. \A i, j \in ids : place[i] = place[j] => i = j
  BY <1>5 DEF IsInjective
<1>10. \A i \in ids : New(i) \in VoiceRows /\ New(i).channel = i[2] /\ New(i).profile = 0 /\ New(i).ordinal = from + place[i] - 1
  BY <1>2, <1>8 DEF VoiceRows
<1> HIDE DEF New
<1>11. DOMAIN w = kept \cup ids /\ \A i \in DOMAIN w : w[i] = IF i \in kept THEN v[i] ELSE New(i)
  OBVIOUS
<1>12. \A i \in kept : v[i] \in VoiceRows /\ i \in VoiceIds /\ v[i].channel = i[2] /\ v[i].profile <= most
  BY <1>3 DEF VoicesAre
<1>13. DOMAIN w \in SUBSET VoiceIds /\ w \in [DOMAIN w -> VoiceRows]
  BY <1>2, <1>10, <1>11, <1>12
<1> HIDE DEF w
<1>14. IsFiniteSet(DOMAIN w)
  <2>1. IsFiniteSet(kept \cup ids)
    BY <1>2, <1>6, FS_Union
  <2> QED BY <2>1, <1>11
<1>15. \A i, j \in DOMAIN w : w[i].ordinal = w[j].ordinal => i = j
  <2> TAKE i \in DOMAIN w, j \in DOMAIN w
  <2> HAVE w[i].ordinal = w[j].ordinal
  <2>1. CASE i \in kept /\ j \in kept
    <3>1. v[i].ordinal = v[j].ordinal /\ i \in DOMAIN v /\ j \in DOMAIN v
      BY <2>1, <1>3, <1>11
    <3> QED BY <3>1 DEF VoicesAre
  <2>2. CASE i \notin kept /\ j \notin kept
    <3>1. i \in ids /\ j \in ids /\ from + place[i] - 1 = from + place[j] - 1
      BY <2>2, <1>10, <1>11
    <3>2. place[i] = place[j]
      BY <3>1, <1>7, <1>8
    <3> QED BY <3>1, <3>2, <1>9
  <2>3. CASE i \in kept /\ j \notin kept
    BY <2>3, <1>7, <1>8, <1>10, <1>11
  <2>4. CASE i \notin kept /\ j \in kept
    BY <2>4, <1>7, <1>8, <1>10, <1>11
  <2> QED BY <2>1, <2>2, <2>3, <2>4
<1>16. \A i \in DOMAIN w : w[i].channel = i[2] /\ w[i].profile <= most
  BY <1>10, <1>11, <1>12
<1>17. VoicesAre(w, most)
  BY <1>13, <1>14, <1>15, <1>16 DEF VoicesAre
<1> QED BY <1>1, <1>3, <1>4, <1>11, <1>17

-----------------------------------------------------------------------------
(* The voices of a session: provisional labels.                             *)
LEMMA UnlabelledIs == Unlabelled \in LineRows /\ Unlabelled.who = NoOne /\ Unlabelled.rev = 0 /\ Unlabelled.there
  BY DEF Unlabelled, LineRows

\* A line the labeler holds is on its way: it is in the queue no more than once.
LEMMA SubmitKeeps == ASSUME SpeakersInv, NEW l \in Lines, Submit(l) PROVE SpeakersInv'
<1>1. /\ pass = "live" /\ ~line[l].there /\ line' = [line EXCEPT ![l] = Unlabelled] /\ line \in [Lines -> LineRows]
      /\ jobs \in Seq(Lines) /\ Len(jobs) <= MaxJobs /\ MaxJobs \in Nat
  BY SpeakersConfigured DEF Submit, SpeakersInv, SpeakersTyped
<1>2. UNCHANGED <<voice, profile, made, label, tracker, turns, pass, found, bumps>>
  BY DEF Submit
<1>3. line' \in [Lines -> LineRows] /\ line'[l] = Unlabelled /\ \A k \in Lines : k # l => line'[k] = line[k]
  BY <1>1, UnlabelledIs
<1>4. jobs' = jobs \/ (Len(jobs) < MaxJobs /\ jobs' = Append(jobs, l))
  BY DEF Submit
<1>5. jobs' \in Seq(Lines) /\ Len(jobs') <= MaxJobs
  BY <1>1, <1>4
<1>6. \A k \in 1..Len(jobs) : jobs[k] \in Lines /\ line[jobs[k]].there /\ line[jobs[k]].rev = 0 /\ jobs[k] # l
  BY <1>1 DEF SpeakersInv, LabelerLive
<1>7. \A k \in 1..Len(jobs') : (k \in 1..Len(jobs) /\ jobs'[k] = jobs[k]) \/ (jobs'[k] = l /\ k = Len(jobs) + 1)
  BY <1>1, <1>4
<1>8. SpeakersTyped'
  BY <1>2, <1>3, <1>5 DEF SpeakersInv, SpeakersTyped
<1>9. VoicesAre(voice, made)' /\ ProfilesAre(profile, made)' /\ TurnsKnown' /\ TrackerKnows'
  BY <1>2 DEF SpeakersInv, VoicesAre, ProfilesAre, TurnsKnown, TrackerKnows
<1>10. LinesAre'
  BY <1>3, UnlabelledIs DEF SpeakersInv, LinesAre
<1>11. LabelerLive'
  <2>1. \A k \in 1..Len(jobs') : line'[jobs'[k]].there /\ line'[jobs'[k]].rev = 0
    BY <1>3, <1>6, <1>7, UnlabelledIs
  <2>2. \A k, m \in 1..Len(jobs') : jobs'[k] = jobs'[m] => k = m
    BY <1>6, <1>7 DEF SpeakersInv, LabelerLive
  <2>3. ASSUME label # NoLabel
        PROVE  /\ line'[label.line].there /\ line'[label.line].rev = 0 /\ \A k \in 1..Len(jobs') : jobs'[k] # label.line
               /\ label.id[2] = LineChannel[label.line] /\ (label.of = 0 \/ label.of \in DOMAIN tracker.known)
    <3>1. label.line \in Lines /\ label.line # l
      BY <1>1, <2>3 DEF SpeakersInv, SpeakersTyped, LabelerLive, LabelRows
    <3> QED BY <1>3, <1>6, <1>7, <2>3, <3>1 DEF SpeakersInv, LabelerLive
  <2> QED BY <1>1, <1>2, <2>1, <2>2, <2>3 DEF LabelerLive
<1>12. Regular' => VoicesHeard' /\ LinesKnown'
  <2> SUFFICES ASSUME Regular PROVE VoicesHeard' /\ LinesKnown'
    BY <1>2 DEF Regular
  <2>1. VoicesHeard'
    BY <1>2 DEF SpeakersInv, VoicesHeard
  <2>2. LinesKnown'
    BY <1>2, <1>3, UnlabelledIs DEF SpeakersInv, LinesKnown
  <2> QED BY <2>1, <2>2
<1>13. Replacing'
  BY <1>1, <1>2 DEF Replacing
<1> QED BY <1>8, <1>9, <1>10, <1>11, <1>12, <1>13 DEF SpeakersInv

\* What the tracker knows when it is asked.
LEMMA TrackerAsked ==
  ASSUME SpeakersInv
  PROVE  LET t == TrackerForUser
         IN  /\ t \in Trackers /\ DOMAIN t.known \in SUBSET (1..made)
             /\ \A c \in LineChannels : \A n \in 1..Len(t.voices[c]) : t.voices[c][n] = 0 \/ t.voices[c][n] \in DOMAIN t.known
             /\ Regular => DOMAIN t.known \subseteq DOMAIN profile
             /\ (\A c \in LineChannels : Len(t.voices[c]) = 0) \/ t.voices = tracker.voices
<1>1. CASE tracker.on
  BY <1>1 DEF SpeakersInv, SpeakersTyped, TrackerKnows, VoicesHeard, TrackerForUser
<1>2. CASE ~tracker.on
  <2> DEFINE t == [FreshTracker EXCEPT !.on = TRUE, !.known = profile]
  <2>1. profile \in KnownProfiles /\ DOMAIN profile \in SUBSET (1..made)
    BY DEF KnownProfiles, SpeakersInv, ProfilesAre, SpeakersTyped
  <2>2. t \in Trackers /\ t.known = profile /\ t.voices = FreshTracker.voices
    BY <2>1, FreshIs DEF Trackers
  <2>3. TrackerForUser = t
    BY <1>2 DEF TrackerForUser
  <2> HIDE DEF t
  <2> QED BY <2>1, <2>2, <2>3, FreshIs
<1> QED BY <1>1, <1>2

\* A voice assigned is one of its channel's, and new ones come last.
LEMMA AssignIs ==
  ASSUME NEW t \in Trackers, NEW c \in LineChannels, NEW a \in Assign(t, c)
  PROVE  /\ a.tracker \in Trackers /\ a.tracker.known = t.known /\ a.new \in BOOLEAN /\ a.n \in 1..Len(a.tracker.voices[c])
         /\ \A d \in LineChannels : d # c => a.tracker.voices[d] = t.voices[d]
         /\ ~a.new => a.tracker = t
         /\ a.new => /\ a.n = Len(t.voices[c]) + 1 /\ Len(a.tracker.voices[c]) = a.n
                     /\ \A m \in 1..Len(t.voices[c]) : a.tracker.voices[c][m] = t.voices[c][m]
                     /\ a.tracker.voices[c][a.n] = 0 \/ a.tracker.voices[c][a.n] \in DOMAIN t.known
<1> DEFINE at(p) == {i \in DOMAIN t.voices[c] : t.voices[c][i] = p}
           Known(i) == [tracker |-> t, n |-> i, new |-> FALSE]
           New(p) == [tracker |-> [t EXCEPT !.voices[c] = Append(@, p)], n |-> Len(t.voices[c]) + 1, new |-> TRUE]
<1>1. (\E i \in DOMAIN t.voices[c] : a = Known(i)) \/ (\E p \in {0} \cup DOMAIN t.known : a = New(p))
  BY DEF Assign
<1>2. t.voices[c] \in Seq(Nat) /\ t.voices \in [LineChannels -> Seq(Nat)] /\ DOMAIN t.known \subseteq Nat
  BY DEF Trackers, KnownProfiles
<1>3. CASE \E i \in DOMAIN t.voices[c] : a = Known(i)
  <2> DEFINE s == t.voices[c]
  <2>1. s \in Seq(Nat)
    BY <1>2
  <2> HIDE DEF s
  <2>2. DOMAIN s = 1..Len(s)
    BY <2>1
  <2> QED BY <1>3, <2>2 DEF s
<1>4. CASE \E p \in {0} \cup DOMAIN t.known : a = New(p)
  <2>1. PICK p \in {0} \cup DOMAIN t.known : a = New(p)
    BY <1>4
  <2> DEFINE s == t.voices[c]
             more == [t.voices EXCEPT ![c] = Append(s, p)]
  <2>2. s \in Seq(Nat) /\ p \in Nat
    BY <1>2
  <2>3. more \in [LineChannels -> Seq(Nat)] /\ more[c] = Append(s, p) /\ \A d \in LineChannels : d # c => more[d] = t.voices[d]
    BY <1>2
  <2>4. [t EXCEPT !.voices[c] = Append(@, p)] = [t EXCEPT !.voices = more]
    BY DEF Trackers
  <2> HIDE DEF more
  <2>5. a.tracker = [t EXCEPT !.voices = more] /\ a.n = Len(s) + 1 /\ a.new = TRUE
    BY <2>1, <2>4
  <2>6. a.tracker \in Trackers /\ a.tracker.known = t.known /\ a.tracker.voices = more
    BY <2>3, <2>5 DEF Trackers
  <2>7. Len(Append(s, p)) = Len(s) + 1 /\ Append(s, p)[Len(s) + 1] = p /\ \A m \in 1..Len(s) : Append(s, p)[m] = s[m]
    BY <2>2
  <2>8. Len(s) \in Nat
    BY <2>2
  <2>9. a.tracker.voices[c] = Append(s, p) /\ \A d \in LineChannels : d # c => a.tracker.voices[d] = t.voices[d]
    BY <2>3, <2>6
  <2>10. a.tracker.voices[c][a.n] = 0 \/ a.tracker.voices[c][a.n] \in DOMAIN t.known
    BY <2>5, <2>7, <2>9
  <2>11. a.n \in 1..Len(a.tracker.voices[c]) /\ Len(a.tracker.voices[c]) = a.n
    BY <2>5, <2>7, <2>8, <2>9
  <2>12. /\ a.tracker \in Trackers /\ a.tracker.known = t.known /\ a.new = TRUE /\ a.n = Len(t.voices[c]) + 1
         /\ \A m \in 1..Len(t.voices[c]) : a.tracker.voices[c][m] = t.voices[c][m]
    BY <2>5, <2>6, <2>7, <2>9
  <2> QED BY <2>9, <2>10, <2>11, <2>12
<1> QED BY <1>1, <1>3, <1>4

\* The rest of a queue.
LEMMA TailIs ==
  ASSUME jobs \in Seq(Lines), jobs # <<>>
  PROVE  /\ Tail(jobs) \in Seq(Lines) /\ Len(Tail(jobs)) = Len(jobs) - 1 /\ Len(jobs) \in Nat \ {0}
         /\ \A k \in 1..Len(Tail(jobs)) : k + 1 \in 2..Len(jobs) /\ Tail(jobs)[k] = jobs[k + 1]
         /\ Head(jobs) = jobs[1] /\ jobs[1] \in Lines
  OBVIOUS

\* Taken from the queue; what it is heard as is committed in a step of its own.
LEMMA EmbedKeeps == ASSUME SpeakersInv, Embed PROVE SpeakersInv'
<1> DEFINE l == jobs[1]
           c == LineChannel[l]
           t == TrackerForUser
<1>1. /\ jobs # <<>> /\ label = NoLabel /\ jobs' = Tail(jobs) /\ jobs \in Seq(Lines)
      /\ Len(jobs) <= MaxJobs /\ MaxJobs \in Nat
  BY SpeakersConfigured DEF Embed, SpeakersInv, SpeakersTyped
<1>2. UNCHANGED <<line, voice, profile, made, turns, pass, found, bumps>>
  BY DEF Embed
<1>3. Head(jobs) = l /\ l \in Lines /\ c \in LineChannels
  BY <1>1, TailIs, ChannelIs
<1>4. /\ jobs' \in Seq(Lines) /\ Len(jobs') <= MaxJobs
      /\ \A k \in 1..Len(jobs') : k + 1 \in 2..Len(jobs) /\ jobs'[k] = jobs[k + 1]
  BY <1>1, TailIs
<1>5. /\ \A k \in 1..Len(jobs) : jobs[k] \in Lines /\ line[jobs[k]].there /\ line[jobs[k]].rev = 0
      /\ \A k, m \in 1..Len(jobs) : jobs[k] = jobs[m] => k = m
  BY <1>1 DEF SpeakersInv, LabelerLive
<1>6. 1 \in 1..Len(jobs) /\ Len(jobs) \in Nat \ {0}
  BY <1>1, TailIs
<1>7. pass = "live"
  BY <1>1 DEF SpeakersInv, LabelerLive
<1>8. /\ \A k \in 1..Len(jobs') : line[jobs'[k]].there /\ line[jobs'[k]].rev = 0 /\ jobs'[k] # l
      /\ \A k, m \in 1..Len(jobs') : jobs'[k] = jobs'[m] => k = m
  BY <1>4, <1>5, <1>6
<1>9. line[l].there /\ line[l].rev = 0
  BY <1>5, <1>6
<1>10. VoicesAre(voice, made)' /\ ProfilesAre(profile, made)' /\ LinesAre' /\ TurnsKnown' /\ Replacing'
  BY <1>2 DEF SpeakersInv, VoicesAre, ProfilesAre, LinesAre, TurnsKnown, Replacing
<1>11. Regular' => Regular /\ LinesKnown'
  BY <1>2 DEF SpeakersInv, Regular, LinesKnown
<1>12. CASE UNCHANGED <<label, tracker>>
  <2>1. SpeakersTyped' /\ TrackerKnows'
    BY <1>2, <1>4, <1>12 DEF SpeakersInv, SpeakersTyped, TrackerKnows
  <2>2. LabelerLive'
    BY <1>1, <1>2, <1>7, <1>8, <1>12 DEF LabelerLive
  <2>3. Regular => VoicesHeard'
    BY <1>2, <1>12 DEF SpeakersInv, VoicesHeard
  <2> QED BY <1>10, <1>11, <2>1, <2>2, <2>3 DEF SpeakersInv
<1>13. CASE \E a \in Assign(t, c) :
              /\ tracker' = a.tracker
              /\ label' = [line |-> l, id |-> <<"live", c, a.n>>, new |-> a.new, of |-> a.tracker.voices[c][a.n]]
  <2>1. PICK a \in Assign(t, c) :
              /\ tracker' = a.tracker
              /\ label' = [line |-> l, id |-> <<"live", c, a.n>>, new |-> a.new, of |-> a.tracker.voices[c][a.n]]
    BY <1>13
  <2>2. /\ t \in Trackers /\ DOMAIN t.known \in SUBSET (1..made)
        /\ \A d \in LineChannels : \A n \in 1..Len(t.voices[d]) : t.voices[d][n] = 0 \/ t.voices[d][n] \in DOMAIN t.known
        /\ Regular => DOMAIN t.known \subseteq DOMAIN profile
        /\ (\A d \in LineChannels : Len(t.voices[d]) = 0) \/ t.voices = tracker.voices
    BY TrackerAsked
  <2> HIDE DEF t, c, l
  <2>3. /\ a.tracker \in Trackers /\ a.tracker.known = t.known /\ a.new \in BOOLEAN /\ a.n \in 1..Len(a.tracker.voices[c])
        /\ \A d \in LineChannels : d # c => a.tracker.voices[d] = t.voices[d]
        /\ ~a.new => a.tracker = t
        /\ a.new => /\ a.n = Len(t.voices[c]) + 1 /\ Len(a.tracker.voices[c]) = a.n
                    /\ \A m \in 1..Len(t.voices[c]) : a.tracker.voices[c][m] = t.voices[c][m]
                    /\ a.tracker.voices[c][a.n] = 0 \/ a.tracker.voices[c][a.n] \in DOMAIN t.known
    BY <1>3, <2>2, AssignIs
  <2>4. /\ \A d \in LineChannels : t.voices[d] \in Seq(Nat) /\ Len(t.voices[d]) \in Nat
        /\ \A d \in LineChannels : tracker'.voices[d] \in Seq(Nat) /\ Len(tracker'.voices[d]) \in Nat
    BY <2>1, <2>2, <2>3 DEF Trackers
  <2>5. a.n \in Nat /\ a.tracker.voices[c][a.n] \in Nat
    <3>1. a.tracker.voices[c] \in Seq(Nat)
      BY <1>3, <2>1, <2>4
    <3> DEFINE s == a.tracker.voices[c]
    <3>2. s \in Seq(Nat) /\ a.n \in 1..Len(s)
      BY <2>3, <3>1
    <3> HIDE DEF s
    <3>3. s[a.n] \in Nat /\ a.n \in Nat
      BY <3>2
    <3> QED BY <3>3 DEF s
  <2>6. /\ label' \in LabelRows /\ label'.line = l /\ label'.id = <<"live", c, a.n>> /\ label'.id[2] = c /\ label'.new = a.new
        /\ label'.of = a.tracker.voices[c][a.n]
    BY <1>3, <2>1, <2>3, <2>5, IdIs DEF LabelRows
  <2>7. \A d \in LineChannels : \A n \in 1..Len(tracker'.voices[d]) : tracker'.voices[d][n] = 0 \/ tracker'.voices[d][n] \in DOMAIN tracker'.known
    <3> TAKE d \in LineChannels
    <3> TAKE n \in 1..Len(tracker'.voices[d])
    <3>1. CASE d # c \/ ~a.new
      BY <3>1, <2>1, <2>2, <2>3
    <3>2. CASE d = c /\ a.new
      <4>1. Len(tracker'.voices[c]) = Len(t.voices[c]) + 1 /\ Len(t.voices[c]) \in Nat
        BY <1>3, <3>2, <2>1, <2>3, <2>4
      <4>2. CASE n = a.n
        BY <4>2, <3>2, <2>1, <2>3
      <4>3. CASE n # a.n
        <5>1. n \in 1..Len(t.voices[c])
          BY <4>1, <4>3, <3>2, <2>1, <2>3
        <5>2. tracker'.voices[c][n] = t.voices[c][n] /\ tracker'.known = t.known
          BY <5>1, <3>2, <2>1, <2>3
        <5> QED BY <1>3, <5>1, <5>2, <3>2, <2>2
      <4> QED BY <4>2, <4>3
    <3> QED BY <3>1, <3>2
  <2>8. TrackerKnows' /\ DOMAIN tracker'.known = DOMAIN t.known
    BY <1>2, <2>1, <2>2, <2>3, <2>7 DEF TrackerKnows
  <2>9. SpeakersTyped'
    BY <1>2, <1>4, <2>1, <2>3, <2>6 DEF SpeakersInv, SpeakersTyped
  <2>10. c = LineChannel[l]
    BY DEF c, l
  <2>11. label'.of = 0 \/ label'.of \in DOMAIN tracker'.known
    BY <1>3, <2>1, <2>3, <2>6, <2>7
  <2>12. LabelerLive'
    BY <1>2, <1>7, <1>8, <1>9, <2>6, <2>10, <2>11 DEF LabelerLive
  <2>13. ASSUME Regular
         PROVE  VoicesHeard'
    <3>1. \A d \in LineChannels : \A n \in 1..Len(t.voices[d]) : <<"live", d, n>> \in DOMAIN voice
      <4> TAKE d \in LineChannels
      <4> TAKE n \in 1..Len(t.voices[d])
      <4>1. t.voices = tracker.voices
        BY <2>2, <2>4
      <4> QED BY <1>1, <2>13, <4>1 DEF SpeakersInv, VoicesHeard
    <3>2. DOMAIN tracker'.known \subseteq DOMAIN profile'
      BY <1>2, <2>2, <2>8, <2>13
    <3>3. ~label'.new => label'.id \in DOMAIN voice'
      BY <1>2, <1>3, <2>3, <2>6, <3>1
    <3>4. ASSUME NEW d \in LineChannels, NEW n \in 1..Len(tracker'.voices[d])
          PROVE  <<"live", d, n>> \in DOMAIN voice' \/ (label' # NoLabel /\ label'.new /\ label'.id = <<"live", d, n>>)
      <4>1. CASE n \in 1..Len(t.voices[d])
        BY <1>2, <3>1, <4>1
      <4>2. CASE n \notin 1..Len(t.voices[d])
        <5>1. d = c /\ a.new
          BY <1>3, <2>1, <2>3, <3>4, <4>2
        <5>2. n = a.n
          <6>1. Len(tracker'.voices[d]) = Len(t.voices[d]) + 1 /\ a.n = Len(t.voices[d]) + 1
            BY <2>1, <2>3, <5>1
          <6>2. PICK v : v = Len(t.voices[d])
            OBVIOUS
          <6>3. v \in Nat /\ n \in 1..v + 1 /\ n \notin 1..v
            BY <2>4, <3>4, <4>2, <6>1, <6>2
          <6>4. n = v + 1
            BY ONLY <6>3
          <6> QED BY <6>1, <6>2, <6>4
        <5>3. label' # NoLabel
          BY <2>6, <1>3, <5>1, <5>2 DEF NoLabel, LabelRows
        <5> QED BY <2>6, <5>1, <5>2, <5>3
      <4> QED BY <4>1, <4>2
    <3> QED BY <3>2, <3>3, <3>4 DEF VoicesHeard
  <2> QED BY <1>10, <1>11, <2>8, <2>9, <2>12, <2>13 DEF SpeakersInv
<1> QED BY <1>3, <1>12, <1>13 DEF Embed

\* A label committed: a new voice has its row with it, and a line is labelled once.
LEMMA CommitLabelKeeps == ASSUME SpeakersInv, CommitLabel PROVE SpeakersInv'
<1>1. label # NoLabel /\ label' = NoLabel /\ pass = "live" /\ UNCHANGED <<profile, made, jobs, tracker, turns, pass, found>>
  BY DEF CommitLabel, SpeakersInv, LabelerLive
<1>2. /\ label \in LabelRows /\ label.line \in Lines /\ label.id \in VoiceIds /\ label.new \in BOOLEAN
      /\ line[label.line].there /\ line[label.line].rev = 0 /\ label.id[2] = LineChannel[label.line]
      /\ (label.of = 0 \/ label.of \in DOMAIN tracker.known) /\ \A k \in 1..Len(jobs) : jobs[k] # label.line
  BY <1>1 DEF SpeakersInv, SpeakersTyped, LabelerLive, LabelRows
<1>3. line \in [Lines -> LineRows] /\ jobs \in Seq(Lines) /\ made \in Nat /\ bumps \in [SpeakerEvents -> Nat] /\ tracker \in Trackers
  BY DEF SpeakersInv, SpeakersTyped
<1>4. ProfilesAre(profile, made)' /\ TrackerKnows' /\ Replacing'
  BY <1>1 DEF SpeakersInv, ProfilesAre, TrackerKnows, Replacing
<1>5. CASE /\ line' = [line EXCEPT ![label.line].rev = 1, ![label.line].who = label.id]
           /\ voice' = IF label.new THEN Put(voice, label.id, LiveRow(label.of)) ELSE voice
           /\ UNCHANGED bumps
  <2>1. /\ line' \in [Lines -> LineRows] /\ \A k \in Lines : k # label.line => line'[k] = line[k]
        /\ line'[label.line].there /\ line'[label.line].rev = 1 /\ line'[label.line].who = label.id
    <3>1. [line[label.line] EXCEPT !.rev = 1, !.who = label.id] \in LineRows /\ line[label.line] \in LineRows
      BY <1>2, <1>3 DEF LineRows
    <3>2. line' = [line EXCEPT ![label.line] = [line[label.line] EXCEPT !.rev = 1, !.who = label.id]]
      BY <1>2, <1>3, <1>5 DEF LineRows
    <3>3. /\ [line[label.line] EXCEPT !.rev = 1, !.who = label.id].there = line[label.line].there
          /\ [line[label.line] EXCEPT !.rev = 1, !.who = label.id].rev = 1
          /\ [line[label.line] EXCEPT !.rev = 1, !.who = label.id].who = label.id
      BY <3>1 DEF LineRows
    <3> QED BY <1>2, <1>3, <3>1, <3>2, <3>3
  <2>2. VoicesAre(voice', made) /\ DOMAIN voice' = IF label.new THEN DOMAIN voice \cup {label.id} ELSE DOMAIN voice
    <3>1. CASE ~label.new
      BY <1>5, <3>1 DEF SpeakersInv
    <3>2. CASE label.new
      <4> DEFINE row == LiveRow(label.of)
      <4>1. label.of \in Nat /\ label.of <= made
        BY <1>2, <1>3 DEF LabelRows, SpeakersInv, TrackerKnows
      <4>2. NextOrdinal(voice) \in Nat \ {0}
        BY NextNumber DEF SpeakersInv, VoicesAre
      <4>3. \A p \in DOMAIN tracker.known : tracker.known[p].label \in Labels /\ tracker.known[p].owner \in BOOLEAN
        <5>1. PICK ps \in SUBSET Nat : tracker.known \in [ps -> ProfileRows]
          BY <1>3 DEF Trackers, KnownProfiles
        <5>2. \A p \in DOMAIN tracker.known : tracker.known[p] \in ProfileRows
          BY <5>1
        <5> QED BY <5>2 DEF ProfileRows
      <4>4. LineChannel[label.line] \in LineChannels
        BY <1>2, ChannelIs
      <4>5. row.channel = label.id[2] /\ row.ordinal = NextOrdinal(voice) /\ row.profile = label.of
        BY DEF LiveRow
      <4>6. CASE label.of = 0
        <5>1. row.label = "" /\ row.owner = FALSE
          BY <4>6 DEF LiveRow
        <5> DEFINE lb == row.label
                   ow == row.owner
        <5>2. row = [channel |-> label.id[2], ordinal |-> NextOrdinal(voice), profile |-> label.of, label |-> lb, owner |-> ow]
          BY DEF LiveRow
        <5>3. lb \in Labels \cup {""} /\ ow \in BOOLEAN
          BY <5>1
        <5> HIDE DEF lb, ow
        <5>4. row \in VoiceRows
          <6>1. label.id[2] \in LineChannels
            BY <1>2, <4>4
          <6> DEFINE id2 == label.id[2]
          <6> HIDE DEF id2, row
          <6> QED BY <4>1, <4>2, <5>2, <5>3, <6>1 DEF VoiceRows, id2
        <5> HIDE DEF row
        <5>5. row.channel = label.id[2] /\ row.profile <= made /\ row.ordinal = NextOrdinal(voice)
          BY <4>1, <4>5
        <5>6. VoicesAre(Put(voice, label.id, row), made) /\ DOMAIN Put(voice, label.id, row) = DOMAIN voice \cup {label.id}
          <6>1. VoicesAre(voice, made)
            BY DEF SpeakersInv
          <6>2. PICK id, rw : id = label.id /\ rw = row
            OBVIOUS
          <6>3. id \in VoiceIds /\ rw \in VoiceRows /\ rw.channel = id[2] /\ rw.profile <= made /\ rw.ordinal = NextOrdinal(voice) /\ made \in Nat
            BY <1>2, <1>3, <5>4, <5>5, <6>2
          <6>4. VoicesAre(Put(voice, id, rw), made) /\ DOMAIN Put(voice, id, rw) = DOMAIN voice \cup {id}
            BY ONLY <6>1, <6>3, VoicePut
          <6> QED BY <6>2, <6>4
        <5>7. voice' = Put(voice, label.id, row)
          BY <1>5, <3>2 DEF row
        <5> QED BY <3>2, <5>6, <5>7
      <4>7. CASE label.of # 0
        <5>1. row.label = tracker.known[label.of].label /\ row.owner = tracker.known[label.of].owner
          BY <1>2, <4>3, <4>7 DEF LiveRow
        <5> DEFINE lb == row.label
                   ow == row.owner
        <5>2. row = [channel |-> label.id[2], ordinal |-> NextOrdinal(voice), profile |-> label.of, label |-> lb, owner |-> ow]
          BY DEF LiveRow
        <5>3. lb \in Labels \cup {""} /\ ow \in BOOLEAN
          BY <1>2, <4>3, <4>7, <5>1
        <5> HIDE DEF lb, ow
        <5>4. row \in VoiceRows
          <6>1. label.id[2] \in LineChannels
            BY <1>2, <4>4
          <6> DEFINE id2 == label.id[2]
          <6> HIDE DEF id2, row
          <6> QED BY <4>1, <4>2, <5>2, <5>3, <6>1 DEF VoiceRows, id2
        <5> HIDE DEF row
        <5>5. row.channel = label.id[2] /\ row.profile <= made /\ row.ordinal = NextOrdinal(voice)
          BY <4>1, <4>5
        <5>6. VoicesAre(Put(voice, label.id, row), made) /\ DOMAIN Put(voice, label.id, row) = DOMAIN voice \cup {label.id}
          <6>1. VoicesAre(voice, made)
            BY DEF SpeakersInv
          <6>2. PICK id, rw : id = label.id /\ rw = row
            OBVIOUS
          <6>3. id \in VoiceIds /\ rw \in VoiceRows /\ rw.channel = id[2] /\ rw.profile <= made /\ rw.ordinal = NextOrdinal(voice) /\ made \in Nat
            BY <1>2, <1>3, <5>4, <5>5, <6>2
          <6>4. VoicesAre(Put(voice, id, rw), made) /\ DOMAIN Put(voice, id, rw) = DOMAIN voice \cup {id}
            BY ONLY <6>1, <6>3, VoicePut
          <6> QED BY <6>2, <6>4
        <5>7. voice' = Put(voice, label.id, row)
          BY <1>5, <3>2 DEF row
        <5> QED BY <3>2, <5>6, <5>7
      <4> QED BY <4>6, <4>7
    <3> QED BY <1>2, <3>1, <3>2
  <2>3. VoicesAre(voice, made)'
    BY <1>1, <2>2 DEF VoicesAre
  <2>4. SpeakersTyped'
    BY <1>1, <1>5, <2>1 DEF SpeakersInv, SpeakersTyped
  <2>5. LinesAre'
    BY <1>2, <2>1 DEF SpeakersInv, LinesAre
  <2>6. TurnsKnown'
    BY <1>1, <1>5, <2>2 DEF SpeakersInv, TurnsKnown
  <2>7. LabelerLive'
    <3>1. \A k \in 1..Len(jobs) : jobs[k] \in Lines /\ jobs[k] # label.line
      BY <1>2, <1>3
    <3> QED BY <1>1, <2>1, <3>1 DEF SpeakersInv, LabelerLive
  <2>8. ASSUME Regular
        PROVE  VoicesHeard' /\ LinesKnown'
    <3>1. label.id \in DOMAIN voice'
      BY <1>1, <2>2, <2>8 DEF SpeakersInv, VoicesHeard
    <3>2. VoicesHeard'
      BY <1>1, <2>2, <2>8, <3>1 DEF SpeakersInv, VoicesHeard
    <3>3. LinesKnown'
      BY <1>1, <1>2, <2>1, <2>2, <2>8, <3>1 DEF SpeakersInv, LinesKnown
    <3> QED BY <3>2, <3>3
  <2>9. Regular' => Regular
    BY <1>5 DEF Regular
  <2> QED BY <1>4, <2>3, <2>4, <2>5, <2>6, <2>7, <2>8, <2>9 DEF SpeakersInv
<1>6. ASSUME UNCHANGED <<line, voice>>, bumps' \in [SpeakerEvents -> Nat], bumps'["cut"] = bumps["cut"], ~Regular'
      PROVE  SpeakersInv'
  <2>1. SpeakersTyped' /\ VoicesAre(voice, made)' /\ LinesAre' /\ TurnsKnown'
    BY <1>1, <1>6 DEF SpeakersInv, SpeakersTyped, VoicesAre, LinesAre, TurnsKnown
  <2>2. LabelerLive'
    BY <1>1, <1>6 DEF SpeakersInv, LabelerLive
  <2>3. Replacing'
    BY <1>1 DEF Replacing
  <2> QED BY <1>4, <1>6, <2>1, <2>2, <2>3 DEF SpeakersInv
<1>7. CASE line[label.line].rev > 0
  BY <1>2, <1>7
<1>8. CASE Bumps("dberror") /\ UNCHANGED <<line, voice>>
  <2>1. "dberror" \in SpeakerEvents /\ "cut" \in SpeakerEvents /\ "cut" # "dberror"
    BY EventsAre
  <2>2. bumps' \in [SpeakerEvents -> Nat] /\ bumps'["dberror"] # 0 /\ bumps'["cut"] = bumps["cut"]
    BY <1>3, <1>8, <2>1, Bumping
  <2> QED BY <1>6, <1>8, <2>2 DEF Regular
<1>9. CASE label.of \notin DOMAIN profile \cup {0} /\ UNCHANGED <<line, voice, bumps>>
  <2>1. ~Regular
    BY <1>2, <1>9 DEF SpeakersInv, VoicesHeard
  <2> QED BY <1>3, <1>6, <1>9, <2>1 DEF Regular
<1> QED BY <1>5, <1>7, <1>8, <1>9 DEF CommitLabel

-----------------------------------------------------------------------------
(* The voices of a session: the pass.                                       *)
\* What an event leaves of the rest.
LEMMA BumpSays ==
  ASSUME bumps \in [SpeakerEvents -> Nat], NEW e \in SpeakerEvents, Bumps(e)
  PROVE  /\ bumps' \in [SpeakerEvents -> Nat]
         /\ IF e = "cut" THEN bumps'["cut"] # 0 ELSE bumps'["cut"] = bumps["cut"]
         /\ Regular' => Regular /\ e \notin {"cut", "dberror", "silent", "forget"}
<1>1. bumps' \in [SpeakerEvents -> Nat] /\ bumps'[e] # 0 /\ \A f \in SpeakerEvents : f # e => bumps'[f] = bumps[f]
  BY Bumping
<1>2. {"cut", "dberror", "silent", "forget"} \subseteq SpeakerEvents
  BY EventsAre
<1> QED BY <1>1, <1>2 DEF Regular

\* A labeler without a job, a label or a voice.
LEMMA LabelerIdle ==
  ASSUME jobs' = <<>>, label' = NoLabel, tracker' = FreshTracker, MaxJobs \in Nat
  PROVE  /\ LabelerLive' /\ TrackerKnows' /\ VoicesHeard' /\ tracker' \in Trackers
         /\ jobs' \in Seq(Lines) /\ Len(jobs') <= MaxJobs
<1>1. jobs' \in Seq(Lines) /\ Len(jobs') = 0
  OBVIOUS
<1> QED BY <1>1, FreshIs DEF LabelerLive, TrackerKnows, VoicesHeard

LEMMA CloseLabelerKeeps == ASSUME SpeakersInv, CloseLabeler PROVE SpeakersInv'
<1>1. /\ pass = "live" /\ pass' = "ended" /\ jobs' = <<>> /\ label' = NoLabel /\ tracker' = FreshTracker
      /\ UNCHANGED <<line, voice, profile, made, turns, found, bumps>>
  BY DEF CloseLabeler
<1>2. /\ LabelerLive' /\ TrackerKnows' /\ VoicesHeard' /\ tracker' \in Trackers /\ jobs' \in Seq(Lines) /\ Len(jobs') <= MaxJobs
  BY <1>1, LabelerIdle, SpeakersConfigured
<1>3. SpeakersTyped'
  BY <1>1, <1>2 DEF SpeakersInv, SpeakersTyped, Passes
<1>4. VoicesAre(voice, made)' /\ ProfilesAre(profile, made)' /\ LinesAre' /\ TurnsKnown' /\ Replacing'
  BY <1>1 DEF SpeakersInv, VoicesAre, ProfilesAre, LinesAre, TurnsKnown, Replacing
<1>5. Regular' => LinesKnown'
  BY <1>1 DEF SpeakersInv, Regular, LinesKnown
<1> QED BY <1>2, <1>3, <1>4, <1>5 DEF SpeakersInv

\* The voices of the channels found are replaced, and every speaker of a turn has a row.
LEMMA StoreKeeps == ASSUME SpeakersInv, Store PROVE SpeakersInv'
<1>1. pass = "ended" /\ pass' = "stored" /\ UNCHANGED <<line, profile, made, jobs, label, tracker>>
  BY DEF Store
<1>2. PICK cs \in SUBSET LineChannels \ {{}} : \E count \in [cs -> 0..MaxVoices] :
       /\ IF \E c \in cs : count[c] = 0 THEN Bumps("silent") ELSE UNCHANGED bumps
       /\ voice' = Replaced(voice, count)
       /\ turns' = [c \in LineChannels |-> IF c \in cs THEN Spoken(c, count[c]) ELSE turns[c]]
       /\ found' = cs
  BY DEF Store
<1>3. PICK count \in [cs -> 0..MaxVoices] :
       /\ IF \E c \in cs : count[c] = 0 THEN Bumps("silent") ELSE UNCHANGED bumps
       /\ voice' = Replaced(voice, count)
       /\ turns' = [c \in LineChannels |-> IF c \in cs THEN Spoken(c, count[c]) ELSE turns[c]]
       /\ found' = cs
  BY <1>2
<1>4. cs \in SUBSET LineChannels /\ MaxVoices \in Nat /\ MaxJobs \in Nat
  BY SpeakersConfigured
<1>5. /\ made \in Nat /\ VoicesAre(voice, made) /\ line \in [Lines -> LineRows] /\ turns \in [LineChannels -> SUBSET VoiceIds]
      /\ bumps \in [SpeakerEvents -> Nat]
  BY DEF SpeakersInv, SpeakersTyped
<1>6. /\ VoicesAre(voice', made)
      /\ \A i \in DOMAIN voice : i[2] \notin cs => i \in DOMAIN voice'
      /\ \A c \in cs : Spoken(c, count[c]) \subseteq DOMAIN voice'
  <2>1. /\ VoicesAre(Replaced(voice, count), made)
        /\ \A i \in DOMAIN voice : i[2] \notin cs => i \in DOMAIN Replaced(voice, count)
        /\ \A c \in cs : Spoken(c, count[c]) \subseteq DOMAIN Replaced(voice, count)
    BY <1>4, <1>5, ReplacedIs
  <2> QED BY <1>3, <2>1
<1>7. \A c \in cs : Spoken(c, count[c]) \in SUBSET VoiceIds /\ \A i \in Spoken(c, count[c]) : i[2] = c
  BY <1>4, SpokenIs
<1>8. /\ turns' \in [LineChannels -> SUBSET VoiceIds]
      /\ \A c \in LineChannels : turns'[c] = IF c \in cs THEN Spoken(c, count[c]) ELSE turns[c]
  BY <1>3, <1>5, <1>7
<1>9. bumps' \in [SpeakerEvents -> Nat] /\ (Regular' => Regular /\ \A c \in cs : count[c] # 0)
  <2>1. CASE \E c \in cs : count[c] = 0
    BY <1>3, <1>5, <2>1, BumpSays, EventsAre
  <2>2. CASE \A c \in cs : count[c] # 0
    BY <1>3, <1>5, <2>2 DEF Regular
  <2> QED BY <2>1, <2>2
<1>10. LabelerLive' /\ TrackerKnows' /\ VoicesHeard' /\ tracker' \in Trackers /\ jobs' \in Seq(Lines) /\ Len(jobs') <= MaxJobs /\ label' = NoLabel
  <2>1. jobs' = <<>> /\ label' = NoLabel /\ tracker' = FreshTracker
    BY <1>1 DEF SpeakersInv, LabelerLive
  <2> QED BY <1>4, <2>1, LabelerIdle
<1>11. SpeakersTyped'
  BY <1>1, <1>3, <1>4, <1>5, <1>8, <1>9, <1>10 DEF SpeakersTyped, Passes
<1>12. VoicesAre(voice, made)' /\ ProfilesAre(profile, made)' /\ LinesAre' /\ Replacing'
  BY <1>1, <1>6 DEF SpeakersInv, VoicesAre, ProfilesAre, LinesAre, Replacing
<1>13. TurnsKnown'
  <2> SUFFICES ASSUME NEW c \in LineChannels, NEW i \in turns'[c] PROVE i \in DOMAIN voice' /\ i[2] = c
    BY <1>1 DEF TurnsKnown
  <2>1. CASE c \in cs
    BY <2>1, <1>6, <1>7, <1>8
  <2>2. CASE c \notin cs
    <3>1. i \in DOMAIN voice /\ i[2] = c
      BY <2>2, <1>8 DEF SpeakersInv, TurnsKnown
    <3> QED BY <2>2, <3>1, <1>6
  <2> QED BY <2>1, <2>2
<1>14. ASSUME Regular' PROVE LinesKnown'
  <2> SUFFICES ASSUME NEW l \in Lines, line[l].who # NoOne
               PROVE  line[l].who \in DOMAIN voice' \/ turns'[LineChannel[l]] # {}
    BY <1>1 DEF LinesKnown
  <2>1. line[l].who \in DOMAIN voice /\ line[l].who[2] = LineChannel[l] /\ LineChannel[l] \in LineChannels
    BY <1>1, <1>9, <1>14, ChannelIs DEF SpeakersInv, LinesKnown, LinesAre
  <2> DEFINE c == LineChannel[l]
             k == count[c]
  <2>2. CASE c \in cs
    <3>1. k \in Nat /\ k # 0
      BY <1>4, <1>9, <1>14, <2>2
    <3> HIDE DEF k
    <3>2. 1 \in 1..k
      BY <3>1
    <3>3. <<"spk", c, 1>> \in Spoken(c, k)
      BY <3>2 DEF Spoken
    <3> QED BY <1>8, <2>1, <2>2, <3>3 DEF k
  <2>3. CASE c \notin cs
    BY <1>6, <2>1, <2>3
  <2> QED BY <2>2, <2>3
<1> QED BY <1>10, <1>11, <1>12, <1>13, <1>14 DEF SpeakersInv

\* Steps of the pass leave the labeler as it was closed.
LEMMA StillIdle ==
  ASSUME SpeakersInv, pass # "live", UNCHANGED <<jobs, label, tracker>>
  PROVE  /\ LabelerLive' /\ TrackerKnows' /\ VoicesHeard' /\ tracker' \in Trackers
         /\ jobs' \in Seq(Lines) /\ Len(jobs') <= MaxJobs /\ label' = NoLabel
<1>1. jobs' = <<>> /\ label' = NoLabel /\ tracker' = FreshTracker
  BY DEF SpeakersInv, LabelerLive
<1> QED BY <1>1, LabelerIdle, SpeakersConfigured

LEMMA FindNothingKeeps == ASSUME SpeakersInv, FindNothing PROVE SpeakersInv'
<1>1. pass = "ended" /\ pass' = "done" /\ UNCHANGED <<line, voice, profile, made, jobs, label, tracker, turns, found, bumps>>
  BY DEF FindNothing
<1>2. LabelerLive' /\ TrackerKnows' /\ VoicesHeard'
  BY <1>1, StillIdle
<1>3. SpeakersTyped'
  BY <1>1 DEF SpeakersInv, SpeakersTyped, Passes
<1>4. VoicesAre(voice, made)' /\ ProfilesAre(profile, made)' /\ LinesAre' /\ TurnsKnown'
  BY <1>1 DEF SpeakersInv, VoicesAre, ProfilesAre, LinesAre, TurnsKnown
<1>5. Regular' => LinesKnown'
  BY <1>1 DEF SpeakersInv, Regular, LinesKnown
<1>6. Replacing'
  <2>1. \A l \in Lines : LineChannel[l] \in LineChannels
    BY ChannelIs
  <2> QED BY <1>1, <2>1 DEF SpeakersInv, TurnsKnown, Replacing
<1> QED BY <1>2, <1>3, <1>4, <1>5, <1>6 DEF SpeakersInv

LEMMA ProfileFacts ==
  ASSUME SpeakersInv
  PROVE  \A p \in DOMAIN profile : p \in Nat /\ 1 <= p /\ p <= made /\ profile[p] \in ProfileRows /\ profile[p].label \in Labels /\ profile[p].owner \in BOOLEAN
<1>1. \A p \in DOMAIN profile : p \in 1..made /\ profile[p] \in ProfileRows
  BY DEF SpeakersInv, ProfilesAre
<1> QED BY <1>1 DEF ProfileRows, SpeakersInv, SpeakersTyped

LEMMA RecogniseKeeps == ASSUME SpeakersInv, Recognise PROVE SpeakersInv'
<1>1. pass = "stored" /\ pass' = "named" /\ UNCHANGED <<line, profile, made, jobs, label, tracker, turns, found, bumps>>
  BY DEF Recognise
<1> DEFINE ids == {i \in DOMAIN voice : voice[i].channel \in found}
<1>2. PICK who \in Matches(ids) :
       voice' = [i \in DOMAIN voice |->
            IF i \in DOMAIN who /\ who[i] # 0
            THEN [voice[i] EXCEPT !.profile = who[i], !.label = profile[who[i]].label, !.owner = profile[who[i]].owner]
            ELSE voice[i]]
  BY DEF Recognise
<1>3. who \in [ids -> {0} \cup DOMAIN profile]
  BY DEF Matches
<1>4. made \in Nat /\ VoicesAre(voice, made) /\ voice \in [DOMAIN voice -> VoiceRows]
  BY DEF SpeakersInv, SpeakersTyped, VoicesAre
<1>5. ASSUME NEW i \in DOMAIN voice
      PROVE  voice'[i] \in VoiceRows /\ voice'[i].channel = voice[i].channel /\ voice'[i].ordinal = voice[i].ordinal /\ voice'[i].profile <= made
  <2>1. voice[i] \in VoiceRows /\ voice[i].profile <= made
    BY <1>4 DEF VoicesAre
  <2>2. CASE i \in DOMAIN who /\ who[i] # 0
    <3>1. who[i] \in DOMAIN profile
      BY <1>3, <2>2
    <3>2. /\ who[i] \in Nat /\ who[i] <= made /\ profile[who[i]].label \in Labels \cup {""}
          /\ profile[who[i]].owner \in BOOLEAN
      BY <3>1, ProfileFacts
    <3>3. voice'[i] = [voice[i] EXCEPT !.profile = who[i], !.label = profile[who[i]].label, !.owner = profile[who[i]].owner]
      BY <1>2, <2>2
    <3>4. /\ voice'[i] \in VoiceRows /\ voice'[i].channel = voice[i].channel /\ voice'[i].ordinal = voice[i].ordinal
          /\ voice'[i].profile = who[i]
      <4> DEFINE p == who[i]
                 name == profile[who[i]].label
                 mine == profile[who[i]].owner
      <4>1. p \in Nat /\ name \in Labels \cup {""} /\ mine \in BOOLEAN /\ voice'[i] = [voice[i] EXCEPT !.profile = p, !.label = name, !.owner = mine]
        BY <3>2, <3>3
      <4> HIDE DEF p, name, mine
      <4>2. voice'[i] \in VoiceRows /\ voice'[i].channel = voice[i].channel /\ voice'[i].ordinal = voice[i].ordinal /\ voice'[i].profile = p
        <5> DEFINE r == voice[i]
        <5>1. r \in VoiceRows /\ voice'[i] = [r EXCEPT !.profile = p, !.label = name, !.owner = mine]
          BY <2>1, <4>1
        <5> HIDE DEF r
        <5>2. voice'[i] \in VoiceRows /\ voice'[i].channel = r.channel /\ voice'[i].ordinal = r.ordinal /\ voice'[i].profile = p
          BY <4>1, <5>1 DEF VoiceRows
        <5> QED BY <5>2 DEF r
      <4> QED BY <4>2 DEF p
    <3> QED BY <3>2, <3>4
  <2>3. CASE ~(i \in DOMAIN who /\ who[i] # 0)
    <3>1. voice'[i] = voice[i]
      BY <1>2, <2>3
    <3> QED BY <2>1, <3>1
  <2> QED BY <2>2, <2>3
<1>6. DOMAIN voice' = DOMAIN voice /\ voice' \in [DOMAIN voice' -> VoiceRows]
  BY <1>2, <1>5
<1>7. VoicesAre(voice', made)
  BY <1>4, <1>5, <1>6, VoicesStay
<1>8. LabelerLive' /\ TrackerKnows' /\ VoicesHeard'
  BY <1>1, StillIdle
<1>9. SpeakersTyped'
  BY <1>1 DEF SpeakersInv, SpeakersTyped, Passes
<1>10. VoicesAre(voice, made)' /\ ProfilesAre(profile, made)' /\ LinesAre' /\ TurnsKnown' /\ Replacing'
  BY <1>1, <1>6, <1>7 DEF SpeakersInv, VoicesAre, ProfilesAre, LinesAre, TurnsKnown, Replacing
<1>11. Regular' => LinesKnown'
  BY <1>1, <1>6 DEF SpeakersInv, Regular, LinesKnown
<1> QED BY <1>8, <1>9, <1>10, <1>11 DEF SpeakersInv

\* The lines of the channels with turns get the speakers of the turns.
LEMMA AlignKeeps == ASSUME SpeakersInv, Align PROVE SpeakersInv'
<1>1. pass = "named" /\ pass' = "done" /\ UNCHANGED <<voice, profile, made, jobs, label, tracker, turns, found, bumps>>
  BY DEF Align
<1>2. PICK who \in [Lines -> {NoOne} \cup UNION Range(turns)] :
        /\ \A l \in Lines : who[l] \in Candidates(LineChannel[l])
        /\ line' = [l \in Lines |-> Aligned(l, who[l])]
  BY DEF Align
<1>3. line \in [Lines -> LineRows] /\ turns \in [LineChannels -> SUBSET VoiceIds]
  BY DEF SpeakersInv, SpeakersTyped
<1>4. ASSUME NEW l \in Lines
      PROVE  \/ line'[l] = line[l] /\ (~line[l].there \/ turns[LineChannel[l]] = {})
             \/ /\ line'[l] \in LineRows /\ line'[l].there /\ line'[l].rev \in Nat /\ line'[l].rev >= 2
                /\ line'[l].who = NoOne \/ line'[l].who \in turns[LineChannel[l]]
  <2>1. line'[l] = Aligned(l, who[l]) /\ LineChannel[l] \in LineChannels /\ line[l].rev \in Nat
    BY <1>2, <1>3, ChannelIs DEF LineRows
  <2>2. who[l] = NoOne \/ who[l] \in turns[LineChannel[l]]
    BY <1>2 DEF Candidates
  <2> DEFINE n == Max({line[l].rev + 1, 2})
  <2>3. n \in Nat /\ n >= 2
    <3>1. line[l].rev + 1 \in Nat /\ 2 \in Nat
      BY <2>1
    <3>2. n \in Nat /\ 2 <= n
      BY <3>1, MaxOfTwo
    <3> HIDE DEF n
    <3> QED BY <3>2
  <2>4. Aligned(l, who[l]) = IF line[l].there /\ turns[LineChannel[l]] # {} THEN [there |-> TRUE, rev |-> n, who |-> who[l]] ELSE line[l]
    BY DEF Aligned
  <2> HIDE DEF n
  <2>5. who[l] \in VoiceIds \cup {NoOne}
    BY <1>3, <2>1, <2>2
  <2>6. [there |-> TRUE, rev |-> n, who |-> who[l]] \in LineRows
    BY <2>3, <2>5 DEF LineRows
  <2> QED BY <2>1, <2>2, <2>3, <2>4, <2>6
<1>5. line' \in [Lines -> LineRows]
  <2>1. \A l \in Lines : line'[l] \in LineRows
    BY <1>3, <1>4
  <2> QED BY <1>2, <2>1
<1>6. LabelerLive' /\ TrackerKnows' /\ VoicesHeard'
  BY <1>1, StillIdle DEF LabelerLive
<1>7. SpeakersTyped'
  BY <1>1, <1>5 DEF SpeakersInv, SpeakersTyped, Passes
<1>8. VoicesAre(voice, made)' /\ ProfilesAre(profile, made)' /\ TurnsKnown'
  BY <1>1 DEF SpeakersInv, VoicesAre, ProfilesAre, TurnsKnown
<1>9. \A l \in Lines : \A i \in turns[LineChannel[l]] : i \in DOMAIN voice /\ i[2] = LineChannel[l]
  BY ChannelIs DEF SpeakersInv, TurnsKnown
<1>10. LinesAre'
  BY <1>4, <1>9 DEF SpeakersInv, LinesAre
<1>11. Replacing'
  <2> SUFFICES ASSUME NEW l \in Lines, turns[LineChannel[l]] # {} PROVE line'[l].rev # 1
    BY <1>1 DEF Replacing
  <2> QED BY <1>4 DEF SpeakersInv, LinesAre
<1>12. ASSUME Regular' PROVE LinesKnown'
  <2>1. Regular
    BY <1>1, <1>12 DEF Regular
  <2> SUFFICES ASSUME NEW l \in Lines, line'[l].who # NoOne PROVE line'[l].who \in DOMAIN voice
    BY <1>1 DEF LinesKnown
  <2>2. CASE line'[l] = line[l] /\ turns[LineChannel[l]] = {}
    BY <2>1, <2>2, <1>1 DEF SpeakersInv, LinesKnown
  <2>3. CASE line'[l] = line[l] /\ ~line[l].there
    BY <2>3 DEF SpeakersInv, LinesAre
  <2> QED BY <1>4, <1>9, <2>2, <2>3
<1> QED BY <1>6, <1>7, <1>8, <1>10, <1>11, <1>12 DEF SpeakersInv

\* A pass cut off says nothing of the lines.
LEMMA GiveUpKeeps == ASSUME SpeakersInv, GiveUp PROVE SpeakersInv'
<1>1. /\ pass \in {"stored", "named"} /\ pass' = "done" /\ Bumps("cut")
      /\ UNCHANGED <<line, voice, profile, made, jobs, label, tracker, turns, found>>
  BY DEF GiveUp
<1>2. bumps' \in [SpeakerEvents -> Nat] /\ bumps'["cut"] # 0 /\ ~Regular'
  BY <1>1, BumpSays, EventsAre DEF SpeakersInv, SpeakersTyped
<1>3. LabelerLive' /\ TrackerKnows'
  BY <1>1, StillIdle
<1>4. SpeakersTyped'
  BY <1>1, <1>2 DEF SpeakersInv, SpeakersTyped, Passes
<1>5. VoicesAre(voice, made)' /\ ProfilesAre(profile, made)' /\ LinesAre' /\ TurnsKnown' /\ Replacing'
  BY <1>1, <1>2 DEF SpeakersInv, VoicesAre, ProfilesAre, LinesAre, TurnsKnown, Replacing
<1> QED BY <1>2, <1>3, <1>4, <1>5 DEF SpeakersInv

LEMMA AgainKeeps == ASSUME SpeakersInv, Again PROVE SpeakersInv'
<1>1. /\ pass = "done" /\ pass' = "named" /\ Bumps("again") /\ line' = [l \in Lines |-> IF line[l].there THEN Unlabelled ELSE line[l]]
      /\ UNCHANGED <<voice, profile, made, jobs, label, tracker, turns, found>>
  BY DEF Again
<1>2. bumps' \in [SpeakerEvents -> Nat] /\ bumps'["cut"] = bumps["cut"] /\ (Regular' => Regular)
  BY <1>1, BumpSays, EventsAre DEF SpeakersInv, SpeakersTyped
<1>3. \A l \in Lines : line'[l] = IF line[l].there THEN Unlabelled ELSE line[l]
  BY <1>1
<1>4. line' \in [Lines -> LineRows]
  BY <1>1, UnlabelledIs DEF SpeakersInv, SpeakersTyped
<1>5. LabelerLive' /\ TrackerKnows' /\ VoicesHeard'
  BY <1>1, StillIdle
<1>6. SpeakersTyped'
  BY <1>1, <1>2, <1>4 DEF SpeakersInv, SpeakersTyped, Passes
<1>7. VoicesAre(voice, made)' /\ ProfilesAre(profile, made)' /\ TurnsKnown' /\ Replacing'
  BY <1>1, <1>2 DEF SpeakersInv, VoicesAre, ProfilesAre, TurnsKnown, Replacing
<1>8. LinesAre' /\ \A l \in Lines : line'[l].who = NoOne
  BY <1>3, UnlabelledIs DEF SpeakersInv, LinesAre
<1>9. LinesKnown'
  BY <1>8 DEF LinesKnown
<1> QED BY <1>5, <1>6, <1>7, <1>8, <1>9 DEF SpeakersInv

\* The labeler and its tracker are lost; a pass that had begun starts over.
LEMMA RestartKeeps == ASSUME SpeakersInv, Restart PROVE SpeakersInv'
<1> DEFINE cut == pass \in {"stored", "named"}
<1>1. /\ Bumps(IF cut THEN "cut" ELSE "restart") /\ jobs' = <<>> /\ label' = NoLabel /\ tracker' = FreshTracker
      /\ pass' = IF cut THEN "ended" ELSE pass
      /\ UNCHANGED <<line, voice, profile, made, turns, found>>
  BY DEF Restart
<1>2. /\ bumps' \in [SpeakerEvents -> Nat]
      /\ IF cut THEN bumps'["cut"] # 0 /\ ~Regular' ELSE bumps'["cut"] = bumps["cut"] /\ (Regular' => Regular)
  <2>1. bumps \in [SpeakerEvents -> Nat]
    BY DEF SpeakersInv, SpeakersTyped
  <2>2. CASE cut
    BY <1>1, <2>1, <2>2, BumpSays, EventsAre
  <2>3. CASE ~cut
    BY <1>1, <2>1, <2>3, BumpSays, EventsAre
  <2> QED BY <2>2, <2>3
<1>3. /\ LabelerLive' /\ TrackerKnows' /\ VoicesHeard' /\ tracker' \in Trackers /\ jobs' \in Seq(Lines) /\ Len(jobs') <= MaxJobs
  BY <1>1, LabelerIdle, SpeakersConfigured
<1>4. SpeakersTyped'
  BY <1>1, <1>2, <1>3 DEF SpeakersInv, SpeakersTyped, Passes
<1>5. VoicesAre(voice, made)' /\ ProfilesAre(profile, made)' /\ LinesAre' /\ TurnsKnown' /\ Replacing'
  BY <1>1, <1>2 DEF SpeakersInv, VoicesAre, ProfilesAre, LinesAre, TurnsKnown, Replacing
<1>6. Regular' => LinesKnown'
  BY <1>1, <1>2 DEF SpeakersInv, LinesKnown
<1> QED BY <1>3, <1>4, <1>5, <1>6 DEF SpeakersInv

-----------------------------------------------------------------------------
(* The voices of a session: naming.                                         *)
\* Steps that change the rows of voices and profiles, and forget no profile a label needs.
LEMMA VoicesKept ==
  ASSUME SpeakersInv, UNCHANGED <<line, jobs, label, tracker, turns, pass, found>>, DOMAIN voice' = DOMAIN voice,
         VoicesAre(voice', made'), ProfilesAre(profile', made'), made' \in Nat, made <= made',
         bumps' \in [SpeakerEvents -> Nat], bumps'["cut"] = bumps["cut"], Regular' => Regular /\ DOMAIN profile \subseteq DOMAIN profile'
  PROVE  SpeakersInv'
<1>1. SpeakersTyped' /\ made \in Nat
  BY DEF SpeakersInv, SpeakersTyped
<1>2. VoicesAre(voice, made)' /\ ProfilesAre(profile, made)' /\ LinesAre' /\ TurnsKnown' /\ LabelerLive' /\ Replacing'
  <2>1. VoicesAre(voice, made)' /\ ProfilesAre(profile, made)'
    BY DEF VoicesAre, ProfilesAre
  <2>2. LinesAre'
    BY DEF SpeakersInv, LinesAre
  <2>3. TurnsKnown'
    BY DEF SpeakersInv, TurnsKnown
  <2>4. LabelerLive'
    BY DEF SpeakersInv, LabelerLive
  <2>5. Replacing'
    BY DEF SpeakersInv, Replacing
  <2> QED BY <2>1, <2>2, <2>3, <2>4, <2>5
<1>3. TrackerKnows'
  BY <1>1 DEF SpeakersInv, TrackerKnows
<1>4. ASSUME Regular' PROVE VoicesHeard' /\ LinesKnown'
  <2>1. VoicesHeard /\ LinesKnown /\ DOMAIN profile \subseteq DOMAIN profile'
    BY <1>4 DEF SpeakersInv
  <2>2. VoicesHeard'
    BY <2>1 DEF VoicesHeard
  <2>3. LinesKnown'
    BY <2>1 DEF LinesKnown
  <2> QED BY <2>2, <2>3
<1> QED BY <1>1, <1>2, <1>3, <1>4 DEF SpeakersInv

LEMMA OthersKeep ==
  ASSUME NEW v, NEW most \in Nat, VoicesAre(v, most), NEW id
  PROVE  VoicesAre(OthersNotMe(v, id), most) /\ DOMAIN OthersNotMe(v, id) = DOMAIN v
<1> DEFINE w == OthersNotMe(v, id)
<1>1. /\ DOMAIN w = DOMAIN v /\ v \in [DOMAIN v -> VoiceRows]
      /\ \A i \in DOMAIN v : w[i] = v[i] \/ w[i] = [v[i] EXCEPT !.owner = FALSE]
  BY DEF OthersNotMe, VoicesAre
<1>2. ASSUME NEW i \in DOMAIN v
      PROVE  w[i] \in VoiceRows /\ w[i].channel = v[i].channel /\ w[i].ordinal = v[i].ordinal /\ w[i].profile <= most
  <2>1. v[i] \in VoiceRows /\ v[i].profile <= most
    BY <1>1 DEF VoicesAre
  <2> DEFINE r == v[i]
             s == w[i]
  <2>2. r \in VoiceRows /\ (s = r \/ s = [r EXCEPT !.owner = FALSE]) /\ r.profile <= most
    BY <1>1, <2>1
  <2> HIDE DEF r, s
  <2>3. s \in VoiceRows /\ s.channel = r.channel /\ s.ordinal = r.ordinal /\ s.profile = r.profile
    BY <2>2 DEF VoiceRows
  <2> QED BY <2>2, <2>3 DEF r, s
<1> HIDE DEF w
<1>3. DOMAIN w = DOMAIN v /\ w \in [DOMAIN w -> VoiceRows]
  <2>1. w = [i \in DOMAIN v |-> w[i]]
    BY DEF w, OthersNotMe
  <2> QED BY <1>1, <1>2, <2>1
<1>4. VoicesAre(w, most)
  BY <1>2, <1>3, VoicesStay
<1> QED BY <1>3, <1>4 DEF w

\* One row replaced by one with the same channel and number.
LEMMA RowReplaced ==
  ASSUME NEW v, NEW most \in Nat, NEW more \in Nat, most <= more, VoicesAre(v, most), NEW id \in DOMAIN v, NEW row \in VoiceRows,
         row.channel = v[id].channel, row.ordinal = v[id].ordinal, row.profile <= more
  PROVE  VoicesAre([v EXCEPT ![id] = row], more) /\ DOMAIN [v EXCEPT ![id] = row] = DOMAIN v
<1> DEFINE w == [v EXCEPT ![id] = row]
<1>1. v \in [DOMAIN v -> VoiceRows] /\ \A i \in DOMAIN v : v[i] \in VoiceRows /\ v[i].profile <= most /\ v[i].profile \in Nat
  BY DEF VoicesAre, VoiceRows
<1>2. DOMAIN w = DOMAIN v /\ w \in [DOMAIN w -> VoiceRows] /\ \A i \in DOMAIN v : w[i] = IF i = id THEN row ELSE v[i]
  BY <1>1
<1> HIDE DEF w
<1>3. \A i \in DOMAIN v : w[i].channel = v[i].channel /\ w[i].ordinal = v[i].ordinal /\ w[i].profile <= more
  BY <1>1, <1>2
<1>4. VoicesAre(w, more)
  BY <1>2, <1>3, VoicesStay
<1> QED BY <1>2, <1>4 DEF w

\* The profile of a name, or a new one.
LEMMA EnrolKeeps ==
  ASSUME SpeakersInv, NEW id \in DOMAIN voice, NEW name \in Labels, NEW me \in BOOLEAN, Enrol(id, name, me)
  PROVE  /\ made' \in Nat /\ made <= made' /\ VoicesAre(voice', made') /\ ProfilesAre(profile', made')
         /\ DOMAIN voice' = DOMAIN voice /\ DOMAIN profile \subseteq DOMAIN profile'
<1> DEFINE p == IF ProfileOf(name) = {} THEN made + 1 ELSE CHOOSE q \in ProfileOf(name) : TRUE
           was == p \in DOMAIN profile /\ profile[p].owner
           others == [q \in DOMAIN profile |-> IF me /\ ~was THEN [profile[q] EXCEPT !.owner = FALSE] ELSE profile[q]]
           mine == me \/ was
           top == Max({made, p})
<1>1. /\ profile' = Put(others, p, [label |-> name, owner |-> mine]) /\ made' = top
      /\ voice' = OthersNotMe([voice EXCEPT ![id].label = name, ![id].profile = p, ![id].owner = mine], id)
  BY DEF Enrol
<1>2. /\ made \in Nat /\ VoicesAre(voice, made) /\ DOMAIN profile \in SUBSET (1..made) /\ profile \in [DOMAIN profile -> ProfileRows]
  BY DEF SpeakersInv, SpeakersTyped, ProfilesAre
<1>3. p \in Nat /\ 1 <= p
  <2>1. CASE ProfileOf(name) = {}
    BY <1>2, <2>1
  <2>2. CASE ProfileOf(name) # {}
    <3>1. p \in ProfileOf(name)
      BY <2>2
    <3> QED BY <1>2, <3>1 DEF ProfileOf
  <2> QED BY <2>1, <2>2
<1>4. was \in BOOLEAN /\ mine \in BOOLEAN
  BY <1>2, ProfileFacts
<1> HIDE DEF p, was, mine
<1>5. top \in Nat /\ made <= top /\ p <= top
  BY <1>2, <1>3, MaxOfTwo
<1> HIDE DEF top
<1>6. DOMAIN others = DOMAIN profile /\ \A q \in DOMAIN profile : others[q] \in ProfileRows
  <2>1. ASSUME NEW q \in DOMAIN profile PROVE others[q] \in ProfileRows
    <3> DEFINE r == profile[q]
    <3>1. r \in ProfileRows /\ (others[q] = r \/ others[q] = [r EXCEPT !.owner = FALSE])
      BY <1>2
    <3> HIDE DEF r, others
    <3> QED BY <3>1 DEF ProfileRows
  <2> QED BY <2>1
<1> HIDE DEF others
<1>7. ProfilesAre(profile', top) /\ DOMAIN profile \subseteq DOMAIN profile'
  <2>1. [label |-> name, owner |-> mine] \in ProfileRows
    BY <1>4 DEF ProfileRows
  <2>2. profile' = [q \in DOMAIN profile \cup {p} |-> IF q = p THEN [label |-> name, owner |-> mine] ELSE others[q]]
    BY <1>1, <1>6 DEF Put
  <2>3. DOMAIN profile' = DOMAIN profile \cup {p} /\ profile' \in [DOMAIN profile' -> ProfileRows]
    BY <1>6, <2>1, <2>2
  <2>4. DOMAIN profile' \in SUBSET (1..top)
    BY <1>2, <1>3, <1>5, <2>3
  <2> QED BY <2>3, <2>4 DEF ProfilesAre
<1> DEFINE old == voice[id]
           row == [old EXCEPT !.label = name, !.profile = p, !.owner = mine]
<1>8. old \in VoiceRows /\ voice \in [DOMAIN voice -> VoiceRows]
  BY <1>2 DEF VoicesAre
<1>9. [voice EXCEPT ![id].label = name, ![id].profile = p, ![id].owner = mine] = [voice EXCEPT ![id] = row]
  BY <1>8 DEF VoiceRows
<1> HIDE DEF old
<1>10. row \in VoiceRows /\ row.channel = old.channel /\ row.ordinal = old.ordinal /\ row.profile = p
  BY <1>3, <1>4, <1>8 DEF VoiceRows
<1> HIDE DEF row
<1>11. VoicesAre([voice EXCEPT ![id] = row], top) /\ DOMAIN [voice EXCEPT ![id] = row] = DOMAIN voice
  BY <1>2, <1>5, <1>10, RowReplaced DEF old
<1> DEFINE w == [voice EXCEPT ![id] = row]
<1>12. voice' = OthersNotMe(w, id) /\ VoicesAre(w, top) /\ DOMAIN w = DOMAIN voice
  BY <1>1, <1>9, <1>11
<1> HIDE DEF w
<1>13. VoicesAre(voice', top) /\ DOMAIN voice' = DOMAIN voice
  BY <1>5, <1>12, OthersKeep
<1> QED BY <1>1, <1>5, <1>7, <1>13

LEMMA NameOnlyKeeps ==
  ASSUME SpeakersInv, NEW id \in DOMAIN voice, NEW name \in Labels, NEW me \in BOOLEAN, NameOnly(id, name, me)
  PROVE  /\ made' \in Nat /\ made <= made' /\ VoicesAre(voice', made') /\ ProfilesAre(profile', made')
         /\ DOMAIN voice' = DOMAIN voice /\ DOMAIN profile \subseteq DOMAIN profile'
<1>1. /\ voice' = OthersNotMe([voice EXCEPT ![id].label = name, ![id].owner = @ \/ me], id) /\ UNCHANGED <<profile, made>>
      /\ made \in Nat /\ VoicesAre(voice, made) /\ ProfilesAre(profile, made)
  BY DEF NameOnly, SpeakersInv, SpeakersTyped
<1> DEFINE old == voice[id]
           mine == old.owner \/ me
           row == [old EXCEPT !.label = name, !.owner = mine]
<1>2. old \in VoiceRows /\ voice \in [DOMAIN voice -> VoiceRows] /\ old.profile <= made
  BY <1>1 DEF VoicesAre
<1>3. [voice EXCEPT ![id].label = name, ![id].owner = @ \/ me] = [voice EXCEPT ![id] = row]
  BY <1>2 DEF VoiceRows
<1>4. mine \in BOOLEAN
  BY <1>2 DEF VoiceRows
<1> HIDE DEF old, mine
<1>5. row \in VoiceRows /\ row.channel = old.channel /\ row.ordinal = old.ordinal /\ row.profile <= made
  BY <1>2, <1>4 DEF VoiceRows
<1> HIDE DEF row
<1> DEFINE w == [voice EXCEPT ![id] = row]
<1>6. VoicesAre(w, made) /\ DOMAIN w = DOMAIN voice
  <2>1. made \in Nat /\ made <= made /\ row.channel = voice[id].channel /\ row.ordinal = voice[id].ordinal
    BY <1>1, <1>5 DEF old
  <2>2. VoicesAre([voice EXCEPT ![id] = row], made) /\ DOMAIN [voice EXCEPT ![id] = row] = DOMAIN voice
    BY <1>1, <1>5, <2>1, RowReplaced
  <2> QED BY <2>2
<1>7. voice' = OthersNotMe(w, id)
  BY <1>1, <1>3
<1> HIDE DEF w
<1>8. VoicesAre(voice', made) /\ DOMAIN voice' = DOMAIN voice
  BY <1>1, <1>6, <1>7, OthersKeep
<1> QED BY <1>1, <1>8

LEMMA NameSpeakerKeeps == ASSUME SpeakersInv, NameSpeaker PROVE SpeakersInv'
<1>1. Bumps("name") /\ UNCHANGED <<line, jobs, label, tracker, turns, pass, found>>
  BY DEF NameSpeaker
<1>2. bumps' \in [SpeakerEvents -> Nat] /\ bumps'["cut"] = bumps["cut"] /\ (Regular' => Regular)
  BY <1>1, BumpSays, EventsAre DEF SpeakersInv, SpeakersTyped
<1>3. PICK id \in DOMAIN voice, name \in Labels, me \in BOOLEAN : Enrol(id, name, me) \/ NameOnly(id, name, me)
  BY DEF NameSpeaker
<1>4. /\ made' \in Nat /\ made <= made' /\ VoicesAre(voice', made') /\ ProfilesAre(profile', made')
      /\ DOMAIN voice' = DOMAIN voice /\ DOMAIN profile \subseteq DOMAIN profile'
  BY <1>3, EnrolKeeps, NameOnlyKeeps
<1> QED BY <1>1, <1>2, <1>4, VoicesKept

\* A forgotten profile takes its links with it.
LEMMA DeleteProfileKeeps == ASSUME SpeakersInv, DeleteProfile PROVE SpeakersInv'
<1>1. Bumps("forget") /\ UNCHANGED <<line, made, jobs, label, tracker, turns, pass, found>>
  BY DEF DeleteProfile
<1>2. bumps' \in [SpeakerEvents -> Nat] /\ bumps'["cut"] = bumps["cut"] /\ ~Regular'
  BY <1>1, BumpSays, EventsAre DEF SpeakersInv, SpeakersTyped
<1>3. PICK p \in DOMAIN profile :
        /\ profile' = Restrict(profile, DOMAIN profile \ {p})
        /\ voice' = [i \in DOMAIN voice |-> IF voice[i].profile = p THEN [voice[i] EXCEPT !.profile = 0] ELSE voice[i]]
  BY DEF DeleteProfile
<1>4. made \in Nat /\ VoicesAre(voice, made) /\ ProfilesAre(profile, made)
  BY DEF SpeakersInv, SpeakersTyped
<1>5. ProfilesAre(profile', made)
  <2>1. DOMAIN profile' = DOMAIN profile \ {p} /\ profile' = [q \in DOMAIN profile \ {p} |-> profile[q]]
    BY <1>3 DEF Restrict
  <2> QED BY <1>4, <2>1 DEF ProfilesAre
<1>6. ASSUME NEW i \in DOMAIN voice
      PROVE  voice'[i] \in VoiceRows /\ voice'[i].channel = voice[i].channel /\ voice'[i].ordinal = voice[i].ordinal /\ voice'[i].profile <= made
  <2> DEFINE r == voice[i]
             s == voice'[i]
  <2>1. r \in VoiceRows /\ r.profile <= made /\ (s = r \/ s = [r EXCEPT !.profile = 0])
    BY <1>3, <1>4 DEF VoicesAre
  <2> HIDE DEF r, s
  <2>2. s \in VoiceRows /\ s.channel = r.channel /\ s.ordinal = r.ordinal /\ s.profile <= made
    <3>1. CASE s = r
      BY <2>1, <3>1
    <3>2. CASE s = [r EXCEPT !.profile = 0]
      <4>1. s \in VoiceRows /\ s.channel = r.channel /\ s.ordinal = r.ordinal /\ s.profile = 0
        BY <2>1, <3>2 DEF VoiceRows
      <4> QED BY <1>4, <4>1
    <3> QED BY <2>1, <3>1, <3>2
  <2> QED BY <2>2 DEF r, s
<1>7. DOMAIN voice' = DOMAIN voice /\ voice' \in [DOMAIN voice' -> VoiceRows]
  BY <1>3, <1>6
<1>8. VoicesAre(voice', made)
  BY <1>4, <1>6, <1>7, VoicesStay
<1> QED BY <1>1, <1>2, <1>4, <1>5, <1>7, <1>8, VoicesKept

-----------------------------------------------------------------------------
(* The voices of a session: what the invariant says.                        *)
LEMMA SpeakersStart == SpeakerInit => SpeakersInv
<1> SUFFICES ASSUME SpeakerInit PROVE SpeakersInv
  OBVIOUS
<1>1. /\ line = [l \in Lines |-> [Unlabelled EXCEPT !.there = FALSE]] /\ voice = <<>> /\ made = 1 /\ jobs = <<>>
      /\ label = NoLabel /\ tracker = FreshTracker /\ turns = [c \in LineChannels |-> {}] /\ pass = "live" /\ found = {}
      /\ bumps = [e \in SpeakerEvents |-> 0]
  BY DEF SpeakerInit
<1>2. PICK name \in Labels, me \in BOOLEAN : profile = <<[label |-> name, owner |-> me]>>
  BY DEF SpeakerInit
<1>3. jobs \in Seq(Lines) /\ Len(jobs) = 0 /\ MaxJobs \in Nat /\ DOMAIN voice = {} /\ voice \in [{} -> VoiceRows]
  BY <1>1, SpeakersConfigured
<1>4. line \in [Lines -> LineRows] /\ \A l \in Lines : line[l].rev = 0 /\ line[l].who = NoOne
  <2>1. [Unlabelled EXCEPT !.there = FALSE] \in LineRows /\ [Unlabelled EXCEPT !.there = FALSE].rev = 0
        /\ [Unlabelled EXCEPT !.there = FALSE].who = NoOne
    BY DEF Unlabelled, LineRows
  <2> QED BY <1>1, <2>1
<1>5. ProfilesAre(profile, made)
  <2>1. [label |-> name, owner |-> me] \in ProfileRows
    BY DEF ProfileRows
  <2> DEFINE row == [label |-> name, owner |-> me]
  <2> HIDE DEF row
  <2>2. DOMAIN <<row>> = 1..1 /\ <<row>> \in [1..1 -> ProfileRows]
    BY <2>1 DEF row
  <2> QED BY <1>1, <1>2, <2>2 DEF ProfilesAre, row
<1>6. SpeakersTyped
  <2>1. turns \in [LineChannels -> SUBSET VoiceIds] /\ bumps \in [SpeakerEvents -> Nat]
    BY <1>1
  <2>2. made \in Nat /\ jobs \in Seq(Lines) /\ Len(jobs) <= MaxJobs /\ label \in {NoLabel} \cup LabelRows
    BY <1>1, <1>3
  <2>3. tracker \in Trackers /\ pass \in Passes /\ found \in SUBSET LineChannels
    BY <1>1, FreshIs DEF Passes
  <2> QED BY <1>4, <2>1, <2>2, <2>3 DEF SpeakersTyped
<1>7. VoicesAre(voice, made)
  BY <1>3, FS_EmptySet DEF VoicesAre
<1>8. LinesAre /\ LinesKnown
  BY <1>4 DEF LinesAre, LinesKnown
<1>9. TurnsKnown /\ Replacing
  BY <1>1 DEF TurnsKnown, Replacing
<1>10. LabelerLive
  BY <1>1, <1>3 DEF LabelerLive
<1>11. TrackerKnows /\ VoicesHeard
  BY <1>1, FreshIs DEF TrackerKnows, VoicesHeard
<1> QED BY <1>5, <1>6, <1>7, <1>8, <1>9, <1>10, <1>11 DEF SpeakersInv

LEMMA SpeakersStep == SpeakersInv /\ [SpeakerNext]_speakerVars => SpeakersInv'
<1> SUFFICES ASSUME SpeakersInv, [SpeakerNext]_speakerVars PROVE SpeakersInv'
  OBVIOUS
<1>1. CASE UNCHANGED speakerVars
  <2>1. UNCHANGED <<line, voice, profile, made, jobs, label, tracker, turns, pass, found, bumps>>
    BY <1>1 DEF speakerVars
  <2>2. made \in Nat /\ VoicesAre(voice, made) /\ ProfilesAre(profile, made) /\ bumps \in [SpeakerEvents -> Nat]
    BY DEF SpeakersInv, SpeakersTyped
  <2>3. made <= made' /\ (Regular' => Regular)
    BY <2>1, <2>2 DEF Regular
  <2> QED BY <2>1, <2>2, <2>3, VoicesKept
<1>2. CASE SpeakerNext
  BY <1>2, SubmitKeeps, EmbedKeeps, CommitLabelKeeps, CloseLabelerKeeps, StoreKeeps, FindNothingKeeps, RecogniseKeeps, AlignKeeps,
     GiveUpKeeps, AgainKeeps, RestartKeeps, NameSpeakerKeeps, DeleteProfileKeeps DEF SpeakerNext
<1> QED BY <1>1, <1>2

LEMMA SpeakersInvSays == SpeakersInv => VoicesSound
<1> SUFFICES ASSUME SpeakersInv PROVE VoicesSound
  OBVIOUS
<1>1. /\ line \in [Lines -> LineRows] /\ made \in Nat /\ jobs \in Seq(Lines) /\ Len(jobs) <= MaxJobs
      /\ label \in {NoLabel} \cup LabelRows /\ pass \in Passes /\ found \in SUBSET LineChannels /\ bumps \in [SpeakerEvents -> Nat]
  BY DEF SpeakersInv, SpeakersTyped
<1>2. \A i \in DOMAIN voice : voice[i] \in VoiceRows /\ voice[i].channel = i[2] /\ voice[i].profile <= made
  BY DEF SpeakersInv, VoicesAre
<1>3. SpeakerTypeOK
  <2>1. \A l \in Lines : line[l].there \in BOOLEAN /\ line[l].rev \in Nat
    BY <1>1 DEF LineRows
  <2>2. \A i \in DOMAIN voice : /\ voice[i].channel = i[2] /\ voice[i].ordinal \in Nat \ {0}
                                /\ voice[i].label \in Labels \cup {""} /\ voice[i].owner \in BOOLEAN
                                /\ voice[i].profile \in 0..made
    <3> SUFFICES ASSUME NEW i \in DOMAIN voice
                 PROVE  /\ voice[i].channel = i[2] /\ voice[i].ordinal \in Nat \ {0}
                        /\ voice[i].label \in Labels \cup {""} /\ voice[i].owner \in BOOLEAN
                        /\ voice[i].profile \in 0..made
      OBVIOUS
    <3>1. voice[i].profile \in Nat /\ voice[i].profile <= made
      BY <1>2 DEF VoiceRows
    <3>2. voice[i].profile \in 0..made
      BY <1>1, <3>1
    <3> QED BY <1>2, <3>2 DEF VoiceRows
  <2>3. DOMAIN profile \subseteq 1..made /\ \A p \in DOMAIN profile : profile[p].label \in Labels
    BY ProfileFacts DEF SpeakersInv, ProfilesAre
  <2>4. Range(jobs) \subseteq Lines
    BY <1>1 DEF Range
  <2>5. label.line \in Lines \cup {"none"}
    BY <1>1 DEF NoLabel, LabelRows
  <2> QED BY <1>1, <2>1, <2>2, <2>3, <2>4, <2>5 DEF SpeakerTypeOK, Passes
<1>4. SpeakersKnown
  <2> SUFFICES ASSUME pass \in {"live", "ended", "done"}, bumps["cut"] + bumps["dberror"] + bumps["silent"] + bumps["forget"] = 0,
                      NEW l \in Lines, line[l].who # NoOne
               PROVE  line[l].who \in DOMAIN voice
    BY DEF SpeakersKnown
  <2>1. bumps["cut"] \in Nat /\ bumps["dberror"] \in Nat /\ bumps["silent"] \in Nat /\ bumps["forget"] \in Nat
    BY <1>1, EventsAre
  <2>2. \A a, b, c, d \in Nat : a + b + c + d = 0 => a = 0 /\ b = 0 /\ c = 0 /\ d = 0
    OBVIOUS
  <2>3. bumps["cut"] = 0 /\ bumps["dberror"] = 0 /\ bumps["silent"] = 0 /\ bumps["forget"] = 0
    BY <2>1, <2>2
  <2>4. Regular
    BY <2>3 DEF Regular
  <2> QED BY <2>4 DEF SpeakersInv, LinesKnown
<1>5. NumbersDistinct
  BY DEF NumbersDistinct, IsInjective, SpeakersInv, VoicesAre
<1>6. ProvisionalReplaced
  BY DEF ProvisionalReplaced, SpeakersInv, Replacing
<1> QED BY <1>3, <1>4, <1>5, <1>6 DEF VoicesSound

\* Whatever is named, forgotten, restarted, retranscribed or cut off: the rows of the voices and
\* profiles fit, "Speaker N" is one voice, no provisional label outlives a pass that was not cut
\* off, and a line names a voice of the session unless a write failed or a voice went away.
THEOREM VoicesAreSound == SpeakerInit /\ [][SpeakerNext]_speakerVars => []VoicesSound
<1>1. SpeakerInit => SpeakersInv
  BY SpeakersStart
<1>2. SpeakersInv /\ [SpeakerNext]_speakerVars => SpeakersInv'
  BY SpeakersStep
<1>3. SpeakersInv => VoicesSound
  BY SpeakersInvSays
<1> QED BY <1>1, <1>2, <1>3, PTL

-----------------------------------------------------------------------------
(* The tiers.                                                               *)
Places == DOMAIN TierList
TiersTyped ==
  /\ serverUp \in SUBSET TierNames /\ healthy \in SUBSET TierNames /\ probe \in [on : BOOLEAN, ok : SUBSET TierNames]
  /\ asks \in [Askers -> [on : BOOLEAN, left : SUBSET Places]] /\ {exhausted, answering} \subseteq BOOLEAN
  /\ fault \in {"none", "once", "lasting"}
AskersHaveTiers == \A a \in Askers : asks[a].on <=> asks[a].left # {}
TiersInv == TiersTyped /\ AskersHaveTiers /\ FaultNotAway

LEMMA PlacesAre == Places \in SUBSET Nat /\ Places # {} /\ (\A i \in Places : TierList[i] \in TierNames) /\ \A t \in TierNames : \E i \in Places : TierList[i] = t
<1>1. TierList \in Seq(STRING) /\ TierList # <<>>
  BY TiersConfigured
<1>2. Len(TierList) \in Nat /\ Len(TierList) # 0 /\ DOMAIN TierList = 1..Len(TierList)
  <2> DEFINE Each == STRING
  <2>1. TierList \in Seq(Each) /\ TierList # <<>>
    BY <1>1
  <2> HIDE DEF Each
  <2> QED BY <2>1
<1>3. Places \in SUBSET Nat /\ 1 \in Places
  BY <1>2 DEF Places
<1> QED BY <1>3 DEF Places, TierNames

\* A worker's round with the tiers: what is asked of them changes for it alone.
LEMMA RoundTyped ==
  ASSUME TiersInv, NEW a \in Askers, NEW round \in [on : BOOLEAN, left : SUBSET Places], round.on <=> round.left # {},
         asks' = [asks EXCEPT ![a] = round]
  PROVE  asks' \in [Askers -> [on : BOOLEAN, left : SUBSET Places]] /\ AskersHaveTiers'
<1>1. asks \in [Askers -> [on : BOOLEAN, left : SUBSET Places]]
  BY DEF TiersInv, TiersTyped
<1>2. \A b \in Askers : asks'[b] = IF b = a THEN round ELSE asks[b]
  BY <1>1
<1> QED BY <1>1, <1>2 DEF TiersInv, AskersHaveTiers

LEMMA NotAskingIs == NotAsking \in [on : BOOLEAN, left : SUBSET Places] /\ ~NotAsking.on /\ NotAsking.left = {}
  BY DEF NotAsking

LEMMA TiersStart == TierInit => TiersInv
<1> SUFFICES ASSUME TierInit PROVE TiersInv
  OBVIOUS
<1>1. asks = [a \in Askers |-> NotAsking] /\ fault = "none" /\ probe = NotProbing
  BY DEF TierInit
<1>2. asks \in [Askers -> [on : BOOLEAN, left : SUBSET Places]] /\ AskersHaveTiers
  BY <1>1, NotAskingIs DEF AskersHaveTiers
<1>3. TiersTyped
  <2>1. serverUp \in SUBSET TierNames /\ healthy \in SUBSET TierNames /\ {exhausted, answering} \subseteq BOOLEAN
    BY DEF TierInit
  <2>2. probe \in [on : BOOLEAN, ok : SUBSET TierNames]
    BY <1>1 DEF NotProbing
  <2> QED BY <1>1, <1>2, <2>1, <2>2 DEF TiersTyped
<1> QED BY <1>1, <1>2, <1>3 DEF TiersInv, FaultNotAway

LEMMA TiersStep == TiersInv /\ [TierNext]_tierVars => TiersInv'
<1> SUFFICES ASSUME TiersInv, [TierNext]_tierVars PROVE TiersInv'
  OBVIOUS
<1>0. /\ serverUp \in SUBSET TierNames /\ healthy \in SUBSET TierNames /\ probe \in [on : BOOLEAN, ok : SUBSET TierNames]
      /\ asks \in [Askers -> [on : BOOLEAN, left : SUBSET Places]] /\ {exhausted, answering} \subseteq BOOLEAN
      /\ fault \in {"none", "once", "lasting"}
  BY DEF TiersInv, TiersTyped
<1>1. CASE UNCHANGED tierVars
  BY <1>1 DEF tierVars, TiersInv, TiersTyped, AskersHaveTiers, FaultNotAway
<1>2. CASE ServerChanges
  <2>1. serverUp' \in SUBSET TierNames /\ UNCHANGED <<healthy, exhausted, answering, fault, asks, probe>>
    BY <1>0, <1>2 DEF ServerChanges
  <2> QED BY <2>1 DEF TiersInv, TiersTyped, AskersHaveTiers, FaultNotAway
<1>3. CASE Probe
  <2>1. probe' \in [on : BOOLEAN, ok : SUBSET TierNames] /\ UNCHANGED <<serverUp, healthy, exhausted, answering, fault, asks>>
    BY <1>0, <1>3 DEF Probe
  <2> QED BY <2>1 DEF TiersInv, TiersTyped, AskersHaveTiers, FaultNotAway
<1>4. CASE Probed
  <2>1. /\ probe' = NotProbing /\ healthy' = probe.ok /\ exhausted' = FALSE /\ answering' = (probe.ok # {})
        /\ fault' = (IF probe.ok = {} THEN "none" ELSE fault) /\ UNCHANGED <<serverUp, asks>>
    BY <1>4 DEF Probed
  <2>2. probe' \in [on : BOOLEAN, ok : SUBSET TierNames] /\ healthy' \in SUBSET TierNames
    BY <1>0, <2>1 DEF NotProbing
  <2>3. {exhausted', answering'} \subseteq BOOLEAN /\ fault' \in {"none", "once", "lasting"} /\ FaultNotAway'
    <3>1. CASE probe.ok = {}
      BY <2>1, <3>1 DEF FaultNotAway
    <3>2. CASE probe.ok # {}
      BY <1>0, <2>1, <3>2 DEF FaultNotAway
    <3> QED BY <3>1, <3>2
  <2> QED BY <1>0, <2>1, <2>2, <2>3 DEF TiersInv, TiersTyped, AskersHaveTiers
<1>5. ASSUME NEW a \in Askers, Transcribe(a) PROVE TiersInv'
  <2> DEFINE left1 == {i \in Places : healthy = {} \/ TierList[i] \in healthy}
             round == [on |-> TRUE, left |-> left1]
  <2>1. asks' = [asks EXCEPT ![a] = round] /\ UNCHANGED <<serverUp, healthy, exhausted, answering, fault, probe>>
    BY <1>5 DEF Transcribe, Places
  <2>2. left1 # {} /\ left1 \in SUBSET Places
    BY <1>0, PlacesAre
  <2> HIDE DEF left1
  <2>3. round \in [on : BOOLEAN, left : SUBSET Places] /\ (round.on <=> round.left # {})
    BY <2>2
  <2> HIDE DEF round
  <2>4. asks' \in [Askers -> [on : BOOLEAN, left : SUBSET Places]] /\ AskersHaveTiers'
    BY <2>1, <2>3, RoundTyped
  <2> QED BY <1>0, <2>1, <2>4 DEF TiersInv, TiersTyped, FaultNotAway
<1>6. ASSUME NEW a \in Askers, Answers(a) PROVE TiersInv'
  <2>1. asks' = [asks EXCEPT ![a] = NotAsking] /\ fault' = "none" /\ UNCHANGED <<serverUp, healthy, exhausted, answering, probe>>
    BY <1>6 DEF Answers
  <2>2. asks' \in [Askers -> [on : BOOLEAN, left : SUBSET Places]] /\ AskersHaveTiers'
    BY <2>1, NotAskingIs, RoundTyped
  <2> QED BY <1>0, <2>1, <2>2 DEF TiersInv, TiersTyped, FaultNotAway
<1>7. ASSUME NEW a \in Askers, Fails(a) PROVE TiersInv'
  <2> DEFINE left1 == asks[a].left
             first == Min(left1)
  <2>1. asks[a].on /\ left1 \in SUBSET Places /\ left1 # {}
    BY <1>0, <1>7 DEF Fails, TiersInv, AskersHaveTiers
  <2>2. healthy' \in SUBSET TierNames /\ UNCHANGED <<serverUp, answering, probe>>
    BY <1>0, <1>7 DEF Fails
  <2>3. CASE left1 # {first}
    <3> DEFINE round == [asks[a] EXCEPT !.left = left1 \ {first}]
    <3>1. asks' = [asks EXCEPT ![a].left = left1 \ {first}] /\ UNCHANGED <<exhausted, fault>>
      BY <1>0, <1>7, <2>3 DEF Fails
    <3>2. asks' = [asks EXCEPT ![a] = round]
      BY <1>0, <3>1
    <3>3. left1 \ {first} # {}
      BY <2>1, <2>3
    <3> HIDE DEF left1, first
    <3>4. round \in [on : BOOLEAN, left : SUBSET Places] /\ round.on /\ round.left = left1 \ {first}
      BY <1>0, <2>1
    <3> HIDE DEF round
    <3>5. asks' \in [Askers -> [on : BOOLEAN, left : SUBSET Places]] /\ AskersHaveTiers'
      BY <3>2, <3>3, <3>4, RoundTyped
    <3> QED BY <1>0, <2>2, <3>1, <3>5 DEF TiersInv, TiersTyped, FaultNotAway
  <2>4. CASE left1 = {first}
    <3>1. /\ asks' = [asks EXCEPT ![a] = NotAsking] /\ exhausted' = TRUE
          /\ fault' = IF ~answering THEN fault ELSE IF fault = "none" THEN "once" ELSE "lasting"
      BY <1>7, <2>4 DEF Fails
    <3>2. asks' \in [Askers -> [on : BOOLEAN, left : SUBSET Places]] /\ AskersHaveTiers'
      BY <3>1, NotAskingIs, RoundTyped
    <3>3. fault' \in {"none", "once", "lasting"} /\ FaultNotAway'
      <4>1. CASE answering
        BY <2>2, <3>1, <4>1 DEF FaultNotAway
      <4>2. CASE ~answering
        BY <1>0, <2>2, <3>1, <4>2 DEF TiersInv, FaultNotAway
      <4> QED BY <4>1, <4>2
    <3> QED BY <1>0, <2>2, <3>1, <3>2, <3>3 DEF TiersInv, TiersTyped
  <2> QED BY <2>3, <2>4
<1> QED BY <1>1, <1>2, <1>3, <1>4, <1>5, <1>6, <1>7 DEF TierNext

LEMMA TiersInvSays == TiersInv => TierTypeOK /\ FaultNotAway
<1> SUFFICES ASSUME TiersInv PROVE TierTypeOK /\ FaultNotAway
  OBVIOUS
<1>1. serverUp \cup healthy \cup probe.ok \subseteq TierNames /\ {exhausted, answering, probe.on} \subseteq BOOLEAN
  BY DEF TiersInv, TiersTyped
<1>2. \A a \in Askers : asks[a].left \subseteq DOMAIN TierList
  BY DEF TiersInv, TiersTyped, Places
<1> QED BY <1>1, <1>2 DEF TiersInv, TiersTyped, AskersHaveTiers, TierTypeOK

\* A fault of Whisper is told from its being away, whichever requests fail late.
THEOREM TiersAreSound == TierInit /\ [][TierNext]_tierVars => [](TierTypeOK /\ FaultNotAway)
<1>1. TierInit => TiersInv
  BY TiersStart
<1>2. TiersInv /\ [TierNext]_tierVars => TiersInv'
  BY TiersStep
<1>3. TiersInv => TierTypeOK /\ FaultNotAway
  BY TiersInvSays
<1> QED BY <1>1, <1>2, <1>3, PTL

-----------------------------------------------------------------------------
(* The transcript: the invariant.                                           *)
Cuts == [start : Nat, end : Nat]
Opens == [on : BOOLEAN, start : Nat, carry : {0, OverlapFrames}]
HeldRows == [channel : {"mic"}, start : Nat, end : Nat, text : {"own", "echo"}]
Whys == {"held long", "ending", "settled", "at once"}
StoredRows == [channel : Channels, start : Nat, end : Nat, text : {"own", "echo"}, why : Whys]

TranscriptTyped ==
  /\ channels \in {{"mic"}, {"mic", "system"}} /\ heard \in [Channels -> Seq(BOOLEAN)] /\ open \in [Channels -> Opens]
  /\ queue \in [Channels -> Seq(Cuts)] /\ work \in [Channels -> Nat \cup {Nobody}] /\ cuts \in [Channels -> SUBSET Cuts]
  /\ held \in SUBSET HeldRows /\ DOMAIN rows \in SUBSET StoredRows /\ rows \in [DOMAIN rows -> Nat \ {0}]
  /\ ending \in {"no", "join", "over"} /\ wake \in {"no", "yes", "dead"} /\ {away, pending} \subseteq BOOLEAN
  /\ upset \in [TranscriptEvents -> Nat]

\* Where the speech that is not decided yet begins.
Edge(h, o) == IF o.on THEN o.start ELSE Len(h)
\* An open segment is shorter than the longest, and holds no silence that closes one.
OpenFits(h, o) ==
  /\ ~o.on => o = NotOpen
  /\ o.on => /\ o.start < Len(h) /\ o.start + o.carry <= Len(h) /\ Len(h) - o.start < MaxFrames
             /\ \A n \in Nat : (o.start <= n /\ n + CloseFrames <= Len(h)) => \E i \in (n + 1)..(n + CloseFrames) : h[i]
\* Segments are cut from what was heard, before what is still open.
CutsFit(h, o, cut) == \A s \in cut : s.start < s.end /\ s.end <= Len(h) /\ s.start < Edge(h, o)
\* The frames carried over are in the segment cut before.
Carried(o, cut) == (o.on /\ o.carry > 0) => \E s \in cut : s.start <= o.start /\ s.end >= o.start + o.carry

\* The speech left out.
LeftOut(h, o, cut) == {i \in 1..Edge(h, o) : h[i] /\ \A s \in cut : ~(s.start < i /\ i <= s.end)}
Silent(h, k) == \A n \in (k + 1)..(k + CloseFrames) : ~h[n]
\* What is left out together is less than a segment has to have.
LittleLost(h, out) ==
  \A i \in out : \E a, b \in 0..Len(h) :
    /\ Cardinality(Speech(h, a, b)) < MinSpeech
    /\ \A j \in out : SameUtterance(h, i, j) => a < j /\ j <= b
\* While the channel is heard, a silence has closed what was left out.
LostClosed(h, o, out) == \A i \in out : \E k \in Nat : i <= k /\ k + CloseFrames <= Edge(h, o) /\ Silent(h, k)

\* A channel's segments so far, of what was heard.
Segmented(h, o, cut) == OpenFits(h, o) /\ CutsFit(h, o, cut) /\ Carried(o, cut) /\ LittleLost(h, LeftOut(h, o, cut))
SegmenterSound ==
  \A c \in Channels : /\ Segmented(heard[c], open[c], cuts[c])
                      /\ ending = "no" => LostClosed(heard[c], open[c], LeftOut(heard[c], open[c], cuts[c]))

\* A channel's queue holds segments that were cut, each once; what starts where none of them does,
\* before all that is undecided, has left it for good.
QueueFits(e, q, w, cut) ==
  /\ \A i \in 1..Len(q) : q[i] \in cut
  /\ \A i, j \in 1..Len(q) : q[i].start = q[j].start => i = j
  /\ w # Nobody => w < e
Left(e, q, start) == start < e /\ \A i \in 1..Len(q) : q[i].start # start
Gone(c, start) == Left(Edge(heard[c], open[c]), queue[c], start)
Queued == \A c \in Channels : QueueFits(Edge(heard[c], open[c]), queue[c], work[c], cuts[c])

\* Segments held and rows are of segments that left their queue; as long as no store failed each
\* segment is in one of them, once.
Distinct(waiting) == \A m, n \in waiting : m.start = n.start => m = n
Once(waiting, stored) ==
  /\ \A r \in DOMAIN stored : stored[r] = 1 /\ \A m \in waiting : r.channel = "mic" => m.start # r.start
  /\ \A r, s \in DOMAIN stored : (r.channel = s.channel /\ r.start = s.start) => r = s
HeldOnce == Distinct(held) /\ \A m \in held : Gone("mic", m.start) /\ (m.text = "echo" => "system" \in channels)
StoredOnce ==
  /\ \A r \in DOMAIN rows : r.channel \in channels /\ Gone(r.channel, r.start)
  /\ upset["broken"] = 0 => Once(held, rows)

\* What the microphone heard again is not over what the system channel has said, nor will it be.
Apart(stored, settled) ==
  \A r \in DOMAIN stored : (r.text = "echo" /\ r.why \notin {"held long", "ending"}) =>
    r.end <= settled /\ \A s \in DOMAIN stored : s.channel = "system" => ~Overlap(r, s)
EchoesApart == Apart(rows, Transcribed("system"))
TranscriptInv == TranscriptTyped /\ SegmenterSound /\ Queued /\ HeldOnce /\ StoredOnce /\ EchoesApart

-----------------------------------------------------------------------------
(* The transcript: numbers and silences.                                    *)
LEMMA ConfigIs ==
  /\ CloseFrames \in Nat \ {0} /\ MaxFrames \in Nat \ {0} /\ OverlapFrames \in Nat \ {0} /\ MinSpeech \in Nat \ {0}
  /\ OverlapFrames < MaxFrames
  BY SegmenterConfig

LEMMA MinOfTwo ==
  ASSUME NEW a \in Nat, NEW b \in Nat
  PROVE  Min({a, b}) \in Nat /\ Min({a, b}) <= a /\ Min({a, b}) <= b /\ Min({a, b}) \in {a, b}
<1>1. {a, b} \in SUBSET Nat /\ {a, b} # {}
  OBVIOUS
<1>2. Min({a, b}) \in {a, b} /\ \A x \in {a, b} : Min({a, b}) <= x
  BY <1>1, SmallestNumber
<1> QED BY <1>2

\* The first of what is not done, as more is done.
LEMMA Onward ==
  ASSUME NEW e \in Nat, NEW S \in SUBSET Nat, NEW e1 \in Nat, NEW S1 \in SUBSET Nat, \A x \in {e1} \cup S1 : \E y \in {e} \cup S : y <= x
  PROVE  Min({e} \cup S) <= Min({e1} \cup S1)
<1>1. {e} \cup S \in SUBSET Nat /\ {e} \cup S # {} /\ {e1} \cup S1 \in SUBSET Nat /\ {e1} \cup S1 # {}
  OBVIOUS
<1>2. Min({e1} \cup S1) \in {e1} \cup S1 /\ Min({e} \cup S) \in {e} \cup S /\ \A y \in {e} \cup S : Min({e} \cup S) <= y
  BY <1>1, SmallestNumber
<1> DEFINE lo == Min({e} \cup S)
           hi == Min({e1} \cup S1)
<1>3. lo \in Nat /\ hi \in {e1} \cup S1 /\ hi \in Nat /\ \A y \in {e} \cup S : lo <= y /\ y \in Nat
  BY <1>1, <1>2
<1> HIDE DEF lo, hi
<1>4. PICK y \in {e} \cup S : y <= hi
  BY <1>3
<1>5. lo <= hi
  BY <1>3, <1>4
<1> QED BY <1>5 DEF lo, hi

\* A silence between two frames parts them.
LEMMA Parted ==
  ASSUME NEW h, NEW i \in Nat, NEW j \in Nat, NEW k \in Nat, i <= k, k + CloseFrames <= j, Silent(h, k)
  PROVE  ~SameUtterance(h, i, j) /\ ~SameUtterance(h, j, i)
<1>1. i <= j /\ CloseFrames \in Nat
  BY ConfigIs
<1>2. Min({i, j}) = i /\ Min({j, i}) = i /\ Max({i, j}) = j /\ Max({j, i}) = j
  BY <1>1, MinOfTwo, MaxOfTwo
<1>3. k \in i..(j - CloseFrames)
  BY <1>1
<1> QED BY <1>2, <1>3 DEF SameUtterance, Silent

\* More frames do not join what was parted.
LEMMA StillParted ==
  ASSUME NEW h \in Seq(BOOLEAN), NEW g \in Seq(BOOLEAN), \A n \in 1..Len(h) : g[n] = h[n],
         NEW i \in 1..Len(h), NEW j \in 1..Len(h), SameUtterance(g, i, j)
  PROVE  SameUtterance(h, i, j)
<1>1. Min({i, j}) \in Nat /\ Max({i, j}) \in Nat /\ 1 <= Min({i, j}) /\ Max({i, j}) <= Len(h)
  BY MinOfTwo, MaxOfTwo
<1> SUFFICES ASSUME NEW k \in Min({i, j})..(Max({i, j}) - CloseFrames), Silent(h, k) PROVE FALSE
  BY DEF SameUtterance, Silent
<1> DEFINE lo == Min({i, j})
           hi == Max({i, j})
<1>2. k \in Nat /\ 1 <= k /\ k + CloseFrames <= Len(h) /\ CloseFrames \in Nat
  <2>1. lo \in Nat /\ hi \in Nat /\ 1 <= lo /\ hi <= Len(h) /\ k \in lo..(hi - CloseFrames) /\ Len(h) \in Nat
    BY <1>1
  <2> HIDE DEF lo, hi
  <2> QED BY <2>1, ConfigIs
<1>3. \A n \in (k + 1)..(k + CloseFrames) : n \in 1..Len(h)
  BY <1>2
<1>4. Silent(g, k)
  BY <1>3 DEF Silent
<1> QED BY <1>4 DEF SameUtterance, Silent

\* Speech can be counted.
LEMMA SpeechIs ==
  ASSUME NEW h, NEW a \in Nat, NEW b \in Nat
  PROVE  IsFiniteSet(Speech(h, a, b)) /\ Cardinality(Speech(h, a, b)) \in Nat
<1>1. IsFiniteSet((a + 1)..b)
  BY FS_Interval
<1>2. Speech(h, a, b) \subseteq (a + 1)..b
  BY DEF Speech
<1> QED BY <1>1, <1>2, FS_Subset, FS_CardinalityType

LEMMA TrailingIs ==
  ASSUME NEW h \in Seq(BOOLEAN), NEW o, o.start \in Nat, o.start <= Len(h)
  PROVE  LET t == TrailingSilence(h, o)
         IN  /\ t \in Nat /\ t <= Len(h) - o.start /\ \A n \in (Len(h) - t + 1)..Len(h) : ~h[n]
             /\ t < Len(h) - o.start => h[Len(h) - t]
<1> DEFINE last == {o.start} \cup {i \in (o.start + 1)..Len(h) : h[i]}
           m == Max(last)
<1>1. Len(h) \in Nat /\ last \in SUBSET (0..Len(h)) /\ last # {}
  OBVIOUS
<1>2. m \in last /\ \A y \in last : y <= m
  <2> HIDE DEF last
  <2> QED BY <1>1, GreatestNumber
<1>3. TrailingSilence(h, o) = Len(h) - m
  BY DEF TrailingSilence
<1> HIDE DEF m
<1>4. m \in Nat /\ o.start <= m /\ m <= Len(h)
  BY <1>1, <1>2
<1>5. \A n \in (m + 1)..Len(h) : ~h[n]
  BY <1>2, <1>4
<1>6. o.start < m => h[m]
  BY <1>2, <1>4
<1>7. Len(h) - (Len(h) - m) = m
  BY <1>1, <1>4
<1> QED BY <1>1, <1>3, <1>4, <1>5, <1>6, <1>7

\* A segment has speech, after what was carried over.
LEMMA BuildIs ==
  ASSUME NEW h, NEW o \in Opens, NEW end \in Nat
  PROVE  \/ Build(h, o, end) = {[start |-> o.start, end |-> end]} /\ o.start + o.carry < end
         \/ Build(h, o, end) = {} /\ Cardinality(Speech(h, o.start + o.carry, end)) < MinSpeech
<1> DEFINE from == o.start + o.carry
<1>1. from \in Nat
  BY ConfigIs DEF Opens
<1>2. Cardinality(Speech(h, from, end)) \in Nat
  BY <1>1, SpeechIs
<1>3. ASSUME Cardinality(Speech(h, from, end)) >= MinSpeech PROVE from < end
  <2>1. Speech(h, from, end) # {}
    BY <1>2, <1>3, FS_EmptySet, ConfigIs
  <2>2. PICK i \in (from + 1)..end : TRUE
    BY <2>1 DEF Speech
  <2> QED BY <1>1, <2>2
<1> HIDE DEF from
<1>4. Build(h, o, end) = IF Cardinality(Speech(h, from, end)) >= MinSpeech THEN {[start |-> o.start, end |-> end]} ELSE {}
  BY DEF Build, from
<1>5. CASE Cardinality(Speech(h, from, end)) >= MinSpeech
  BY <1>3, <1>4, <1>5 DEF from
<1>6. CASE ~(Cardinality(Speech(h, from, end)) >= MinSpeech)
  BY <1>2, <1>4, <1>6, ConfigIs DEF from
<1> QED BY <1>5, <1>6

\* A stretch with no closing silence in it has a frame of speech in each part of that length.
LEMMA SpeechEnough ==
  ASSUME NEW h \in Seq(BOOLEAN), NEW from \in Nat, from + (MaxFrames - OverlapFrames) <= Len(h),
         \A n \in Nat : (from <= n /\ n + CloseFrames <= Len(h)) => \E i \in (n + 1)..(n + CloseFrames) : h[i]
  PROVE  Cardinality(Speech(h, from, Len(h))) >= MinSpeech
<1> DEFINE part(m) == from + (m - 1) * CloseFrames
           long == MaxFrames - OverlapFrames
<1>1. MinSpeech \in Nat /\ CloseFrames \in Nat \ {0} /\ long \in Nat /\ Len(h) \in Nat /\ long \div CloseFrames >= MinSpeech
  BY SegmenterConfig
<1> HIDE DEF long
<1>2. MinSpeech * CloseFrames <= long
  <2>1. \A a \in Nat, b \in Nat \ {0} : (a \div b) \in Nat /\ (a \div b) * b <= a
    OBVIOUS
  <2> DEFINE q == long \div CloseFrames
  <2>2. q \in Nat /\ q * CloseFrames <= long /\ MinSpeech <= q
    BY <1>1, <2>1
  <2> HIDE DEF q
  <2>3. \A x, y, z \in Nat : x <= y => x * z <= y * z
    OBVIOUS
  <2>4. MinSpeech * CloseFrames <= q * CloseFrames /\ MinSpeech * CloseFrames \in Nat /\ q * CloseFrames \in Nat
    BY <1>1, <2>2, <2>3
  <2> QED BY <1>1, <2>2, <2>4
<1>3. \A m, k \in Nat : m <= k => m * CloseFrames \in Nat /\ k * CloseFrames \in Nat /\ m * CloseFrames <= k * CloseFrames
  BY <1>1
<1>4. \A m \in 1..MinSpeech : part(m) \in Nat /\ from <= part(m) /\ part(m) + CloseFrames = from + m * CloseFrames
  <2> TAKE m \in 1..MinSpeech
  <2>1. m - 1 \in Nat /\ m \in Nat
    BY <1>1
  <2>2. (m - 1) * CloseFrames \in Nat /\ (m - 1) * CloseFrames + CloseFrames = m * CloseFrames
    BY <1>1, <2>1
  <2> QED BY <1>1, <2>2
<1>5. \A m \in 1..MinSpeech : part(m) + CloseFrames <= Len(h)
  <2> TAKE m \in 1..MinSpeech
  <2>1. m * CloseFrames <= MinSpeech * CloseFrames /\ m * CloseFrames \in Nat /\ MinSpeech * CloseFrames \in Nat
    BY <1>1, <1>3
  <2> QED BY <1>1, <1>2, <1>4, <2>1 DEF long
<1>6. \A m \in 1..MinSpeech : \E i \in (part(m) + 1)..(part(m) + CloseFrames) : h[i]
  BY <1>4, <1>5
<1> DEFINE f == [m \in 1..MinSpeech |-> CHOOSE i \in (part(m) + 1)..(part(m) + CloseFrames) : h[i]]
<1>7. \A m \in 1..MinSpeech : f[m] \in (part(m) + 1)..(part(m) + CloseFrames) /\ h[f[m]]
  BY <1>6
<1> HIDE DEF f
<1>8. \A m \in 1..MinSpeech : f[m] \in Speech(h, from, Len(h))
  <2> TAKE m \in 1..MinSpeech
  <2>1. f[m] \in (from + 1)..Len(h)
    <3> DEFINE p == part(m)
    <3>1. p \in Nat /\ from <= p /\ p + CloseFrames <= Len(h) /\ f[m] \in (p + 1)..(p + CloseFrames)
      BY <1>4, <1>5, <1>7
    <3> HIDE DEF p
    <3> QED BY <1>1, <3>1
  <2> QED BY <1>7, <2>1 DEF Speech
<1>9. \A m, k \in 1..MinSpeech : m < k => f[m] # f[k]
  <2> TAKE m \in 1..MinSpeech, k \in 1..MinSpeech
  <2> HAVE m < k
  <2>1. m \in Nat /\ k - 1 \in Nat /\ m <= k - 1
    BY <1>1
  <2>2. m * CloseFrames <= (k - 1) * CloseFrames /\ m * CloseFrames \in Nat /\ (k - 1) * CloseFrames \in Nat
    BY <1>3, <2>1
  <2>3. part(m) + CloseFrames = from + m * CloseFrames /\ part(k) = from + (k - 1) * CloseFrames
    BY <1>4
  <2>4. part(m) + CloseFrames <= part(k) /\ part(m) \in Nat /\ part(k) \in Nat
    BY <1>4, <2>2, <2>3
  <2> HIDE DEF part
  <2> QED BY <1>1, <1>7, <2>4
<1>10. f \in Injection(1..MinSpeech, Speech(h, from, Len(h)))
  <2>1. f \in [1..MinSpeech -> Speech(h, from, Len(h))]
    BY <1>8 DEF f
  <2>2. \A m, k \in 1..MinSpeech : f[m] = f[k] => m = k
    BY <1>1, <1>9
  <2> QED BY <2>1, <2>2 DEF Injection, IsInjective
<1>11. Cardinality(1..MinSpeech) <= Cardinality(Speech(h, from, Len(h)))
  BY <1>1, <1>10, SpeechIs, FS_Injection
<1>12. Cardinality(1..MinSpeech) = MinSpeech
  BY <1>1, FS_Interval
<1> QED BY <1>1, <1>11, <1>12, SpeechIs

-----------------------------------------------------------------------------
(* The transcript: the Segmenter.                                           *)
\* What a frame does: p is the Segmenter's answer to the verdict b after h, t the silence at the end.
Pushed(h, b, g, o, t, p) ==
  \/ ~o.on /\ ~b /\ p.open = NotOpen /\ p.cut = {}
  \/ ~o.on /\ b /\ p.open = [on |-> TRUE, start |-> Len(h), carry |-> 0] /\ p.cut = {}
  \/ o.on /\ t >= CloseFrames /\ p.open = NotOpen /\ p.cut = Build(g, o, Len(g) - t)
  \/ /\ o.on /\ t < CloseFrames /\ Len(g) - o.start >= MaxFrames /\ p.cut = Build(g, o, Len(g))
     /\ p.open = [on |-> TRUE, start |-> Len(g) - OverlapFrames, carry |-> OverlapFrames]
  \/ o.on /\ t < CloseFrames /\ Len(g) - o.start < MaxFrames /\ p.open = o /\ p.cut = {}

LEMMA PushIs ==
  ASSUME NEW h \in Seq(BOOLEAN), NEW o \in Opens, OpenFits(h, o), NEW b \in BOOLEAN
  PROVE  Pushed(h, b, Append(h, b), o, TrailingSilence(Append(h, b), o), Push(Append(h, b), o))
<1> DEFINE g == Append(h, b)
           t == TrailingSilence(g, o)
<1> HIDE DEF t
<1>0. t = TrailingSilence(g, o) /\ g = Append(h, b)
  BY DEF t
<1> HIDE DEF g
<1> SUFFICES Pushed(h, b, g, o, t, Push(g, o))
  BY DEF t, g
<1>1. g \in Seq(BOOLEAN) /\ Len(h) \in Nat /\ Len(g) = Len(h) + 1 /\ g[Len(g)] = b
  BY <1>0
<1>2. CASE ~o.on /\ ~b
  <2>1. ~g[Len(g)] /\ ~NotOpen.on
    BY <1>1, <1>2 DEF NotOpen
  <2> QED BY <1>2, <2>1 DEF Push, Pushed
<1>3. CASE ~o.on /\ b
  <2> DEFINE p == [on |-> TRUE, start |-> Len(g) - 1, carry |-> 0]
  <2>1. Push(g, o) = IF TrailingSilence(g, p) >= CloseFrames
           THEN [open |-> NotOpen, cut |-> Build(g, p, Len(g) - TrailingSilence(g, p))]
      ELSE IF Len(g) - p.start >= MaxFrames
           THEN [open |-> [on |-> TRUE, start |-> Len(g) - OverlapFrames, carry |-> OverlapFrames],
                 cut |-> Build(g, p, Len(g))]
      ELSE [open |-> p, cut |-> {}]
    BY <1>1, <1>3 DEF Push
  <2>2. p.start = Len(h) /\ p.start \in Nat /\ p.start <= Len(g) /\ Len(g) - p.start = 1 /\ p = [on |-> TRUE, start |-> Len(h), carry |-> 0]
    BY <1>1
  <2> HIDE DEF p
  <2>3. /\ TrailingSilence(g, p) \in Nat /\ TrailingSilence(g, p) <= 1
        /\ \A n \in (Len(g) - TrailingSilence(g, p) + 1)..Len(g) : ~g[n]
    BY <1>1, <2>2, TrailingIs
  <2>4. TrailingSilence(g, p) = 0
    <3> DEFINE u == TrailingSilence(g, p)
    <3>1. u \in Nat /\ u <= 1 /\ \A n \in (Len(g) - u + 1)..Len(g) : ~g[n]
      BY <2>3
    <3> HIDE DEF u
    <3>2. u # 1
      <4> SUFFICES ASSUME u = 1 PROVE FALSE
        OBVIOUS
      <4>1. Len(g) \in (Len(g) - u + 1)..Len(g)
        BY <1>1
      <4> QED BY <1>1, <1>3, <3>1, <4>1
    <3>3. u = 0
      BY <3>1, <3>2
    <3> QED BY <3>3 DEF u
  <2>5. Push(g, o) = [open |-> p, cut |-> {}]
    BY <2>1, <2>2, <2>4, ConfigIs
  <2>6. Push(g, o).open = p /\ Push(g, o).cut = {}
    BY <2>5
  <2>7. Push(g, o).open = [on |-> TRUE, start |-> Len(h), carry |-> 0]
    BY <2>2, <2>6
  <2> QED BY <1>3, <2>6, <2>7 DEF Pushed
<1>4. CASE o.on
  <2>1. Push(g, o) = IF t >= CloseFrames THEN [open |-> NotOpen, cut |-> Build(g, o, Len(g) - t)]
      ELSE IF Len(g) - o.start >= MaxFrames
           THEN [open |-> [on |-> TRUE, start |-> Len(g) - OverlapFrames, carry |-> OverlapFrames], cut |-> Build(g, o, Len(g))]
      ELSE [open |-> o, cut |-> {}]
    BY <1>0, <1>4 DEF Push
  <2>2. t \in Nat /\ o.start \in Nat
    <3>1. o.start \in Nat /\ o.start <= Len(g)
      BY <1>1, <1>4 DEF OpenFits, Opens
    <3> QED BY <1>0, <1>1, <3>1, TrailingIs
  <2>3. CASE t >= CloseFrames
    BY <1>4, <2>1, <2>3 DEF Pushed
  <2>4. CASE t < CloseFrames /\ Len(g) - o.start >= MaxFrames
    BY <1>4, <2>1, <2>2, <2>4, ConfigIs DEF Pushed
  <2>5. CASE t < CloseFrames /\ Len(g) - o.start < MaxFrames
    BY <1>1, <1>4, <2>1, <2>2, <2>5, ConfigIs DEF Pushed
  <2> QED BY <1>1, <2>2, <2>3, <2>4, <2>5, ConfigIs
<1> QED BY <1>2, <1>3, <1>4

\* A frame that does not close a segment leaves no closing silence in it.
LEMMA StillLoud ==
  ASSUME NEW h \in Seq(BOOLEAN), NEW o \in Opens, OpenFits(h, o), o.on, NEW b \in BOOLEAN, NEW g, g = Append(h, b), TrailingSilence(g, o) < CloseFrames,
         NEW n \in Nat, o.start <= n, n + CloseFrames <= Len(g)
  PROVE  \E i \in (n + 1)..(n + CloseFrames) : g[i]
<1> DEFINE t == TrailingSilence(g, o)
<1>1. /\ g \in Seq(BOOLEAN) /\ Len(h) \in Nat /\ Len(g) = Len(h) + 1 /\ o.start \in Nat /\ o.start < Len(h) /\ CloseFrames \in Nat \ {0}
      /\ \A i \in 1..Len(h) : g[i] = h[i]
  BY ConfigIs DEF OpenFits, Opens
<1>2. t \in Nat /\ (t < Len(g) - o.start => g[Len(g) - t])
  <2>1. o.start <= Len(g)
    BY <1>1
  <2>2. TrailingSilence(g, o) \in Nat /\ (TrailingSilence(g, o) < Len(g) - o.start => g[Len(g) - TrailingSilence(g, o)])
    BY <1>1, <2>1, TrailingIs
  <2> QED BY <2>2
<1>3. t < CloseFrames
  OBVIOUS
<1> HIDE DEF t
<1>4. CASE n + CloseFrames <= Len(h)
  <2>1. PICK i \in (n + 1)..(n + CloseFrames) : h[i]
    BY <1>4 DEF OpenFits
  <2>2. i \in 1..Len(h)
    BY <1>1, <1>4
  <2> QED BY <1>1, <2>1, <2>2
<1>5. CASE n + CloseFrames = Len(g)
  <2>1. t < Len(g) - o.start
    BY <1>1, <1>2, <1>3, <1>5
  <2>2. Len(g) - t \in (n + 1)..(n + CloseFrames)
    BY <1>1, <1>2, <1>3, <1>5
  <2> QED BY <1>2, <2>1, <2>2
<1> QED BY <1>1, <1>4, <1>5

\* What is left out, when at most one stretch with little speech is added behind a silence.
LEMMA StretchLost ==
  ASSUME NEW h \in Seq(BOOLEAN), NEW g \in Seq(BOOLEAN), Len(h) <= Len(g), \A n \in 1..Len(h) : g[n] = h[n],
         NEW o \in Opens, Edge(h, o) <= Len(h), NEW out \in SUBSET (1..Edge(h, o)), LittleLost(h, out), LostClosed(h, o, out),
         NEW a \in 0..Len(g), NEW b \in 0..Len(g), Edge(h, o) <= a, Cardinality(Speech(g, a, b)) < MinSpeech,
         NEW out1, out1 \subseteq out \cup Speech(g, a, b)
  PROVE  LittleLost(g, out1)
<1> DEFINE e == Edge(h, o)
<1>1. Len(h) \in Nat /\ Len(g) \in Nat /\ e \in Nat /\ e <= Len(h) /\ CloseFrames \in Nat
  BY ConfigIs DEF Edge, Opens
<1>2. \A k \in Nat : k + CloseFrames <= e /\ Silent(h, k) => Silent(g, k)
  <2> TAKE k \in Nat
  <2> HAVE k + CloseFrames <= e /\ Silent(h, k)
  <2>1. \A n \in (k + 1)..(k + CloseFrames) : n \in 1..Len(h)
    BY <1>1
  <2> QED BY <2>1 DEF Silent
<1>3. ASSUME NEW i \in out, NEW j \in Speech(g, a, b)
      PROVE  ~SameUtterance(g, i, j) /\ ~SameUtterance(g, j, i)
  <2>1. PICK k \in Nat : i <= k /\ k + CloseFrames <= e /\ Silent(h, k)
    BY DEF LostClosed
  <2>2. i \in Nat /\ j \in Nat /\ k + CloseFrames <= j /\ Silent(g, k)
    BY <1>1, <1>2, <2>1 DEF Speech
  <2> QED BY <2>1, <2>2, Parted
<1> SUFFICES ASSUME NEW i \in out1
             PROVE  \E x, y \in 0..Len(g) : /\ Cardinality(Speech(g, x, y)) < MinSpeech
                                            /\ \A j \in out1 : SameUtterance(g, i, j) => x < j /\ j <= y
  BY DEF LittleLost
<1>4. CASE i \in out
  <2>1. PICK x, y \in 0..Len(h) : /\ Cardinality(Speech(h, x, y)) < MinSpeech
                                  /\ \A j \in out : SameUtterance(h, i, j) => x < j /\ j <= y
    BY <1>4 DEF LittleLost
  <2>2. Speech(g, x, y) = Speech(h, x, y)
    <3>1. \A n \in (x + 1)..y : n \in 1..Len(h)
      BY <1>1
    <3>2. \A n \in (x + 1)..y : g[n] = h[n]
      BY <3>1
    <3> QED BY <3>2 DEF Speech
  <2>3. x \in 0..Len(g) /\ y \in 0..Len(g)
    BY <1>1
  <2>4. \A j \in out1 : SameUtterance(g, i, j) => x < j /\ j <= y
    <3> TAKE j \in out1
    <3> HAVE SameUtterance(g, i, j)
    <3>1. j \in out
      BY <1>3, <1>4
    <3>2. i \in 1..Len(h) /\ j \in 1..Len(h)
      BY <1>1, <1>4, <3>1
    <3>3. SameUtterance(h, i, j)
      BY <3>2, StillParted
    <3> QED BY <2>1, <3>1, <3>3
  <2> QED BY <2>1, <2>2, <2>3, <2>4
<1>5. CASE i \in Speech(g, a, b)
  <2>1. \A j \in out1 : SameUtterance(g, i, j) => a < j /\ j <= b
    <3> TAKE j \in out1
    <3> HAVE SameUtterance(g, i, j)
    <3>1. j \in Speech(g, a, b)
      BY <1>3, <1>5
    <3> QED BY <1>1, <3>1 DEF Speech
  <2> QED BY <2>1
<1> QED BY <1>4, <1>5

\* Nothing more is left out.
LEMMA NothingLost ==
  ASSUME NEW h \in Seq(BOOLEAN), NEW g \in Seq(BOOLEAN), Len(h) <= Len(g), \A n \in 1..Len(h) : g[n] = h[n],
         NEW o \in Opens, Edge(h, o) <= Len(h), NEW out \in SUBSET (1..Edge(h, o)), LittleLost(h, out), LostClosed(h, o, out),
         NEW out1 \in SUBSET out
  PROVE  LittleLost(g, out1)
<1>1. Edge(h, o) \in 0..Len(g) /\ Len(g) \in Nat
  BY DEF Edge, Opens
<1>2. Speech(g, Edge(h, o), Edge(h, o)) = {}
  <2> DEFINE e == Edge(h, o)
  <2>1. e \in Nat
    BY <1>1
  <2> HIDE DEF e
  <2>2. Speech(g, e, e) = {}
    BY <2>1 DEF Speech
  <2> QED BY <2>2 DEF e
<1>3. Cardinality(Speech(g, Edge(h, o), Edge(h, o))) < MinSpeech /\ Edge(h, o) <= Edge(h, o)
  BY <1>1, <1>2, FS_EmptySet, ConfigIs
<1>4. out1 \subseteq out \cup Speech(g, Edge(h, o), Edge(h, o))
  OBVIOUS
<1> QED BY <1>1, <1>3, <1>4, StretchLost

\* What a silence has closed stays so.
LEMMA StillClosed ==
  ASSUME NEW h \in Seq(BOOLEAN), NEW g \in Seq(BOOLEAN), \A n \in 1..Len(h) : g[n] = h[n],
         NEW o \in Opens, NEW p, Edge(h, o) <= Len(h), Edge(g, p) \in Nat, Edge(h, o) <= Edge(g, p),
         NEW out, LostClosed(h, o, out), NEW i \in out
  PROVE  \E k \in Nat : i <= k /\ k + CloseFrames <= Edge(g, p) /\ Silent(g, k)
<1> DEFINE e == Edge(h, o)
<1>1. Len(h) \in Nat /\ e \in Nat /\ e <= Len(h) /\ CloseFrames \in Nat /\ e <= Edge(g, p)
  BY ConfigIs DEF Edge, Opens
<1>2. PICK k \in Nat : i <= k /\ k + CloseFrames <= e /\ Silent(h, k)
  BY DEF LostClosed
<1>3. \A n \in (k + 1)..(k + CloseFrames) : n \in 1..Len(h)
  BY <1>1, <1>2
<1>4. Silent(g, k) /\ k + CloseFrames <= Edge(g, p)
  BY <1>1, <1>2, <1>3 DEF Silent
<1> QED BY <1>2, <1>4

\* What a channel's Segmenter did with a frame, or at the end: at most one segment is cut, it
\* starts where the speech not decided yet began, and what is undecided now begins after that.
Advanced(h, o, g, p, cut) ==
  /\ p \in Opens /\ Edge(h, o) <= Edge(g, p)
  /\ cut = {} \/ \E s \in Cuts : cut = {s} /\ s.start = Edge(h, o) /\ s.start < Edge(g, p)

LEMMA OpensAre ==
  /\ NotOpen \in Opens /\ ~NotOpen.on /\ NotOpen.carry = 0
  /\ \A n \in Nat : [on |-> TRUE, start |-> n, carry |-> 0] \in Opens /\ [on |-> TRUE, start |-> n, carry |-> OverlapFrames] \in Opens
  BY DEF NotOpen, Opens

\* Where what was left out lies.
LEMMA LeftOutIs ==
  ASSUME NEW h \in Seq(BOOLEAN), NEW o \in Opens, NEW cut
  PROVE  /\ LeftOut(h, o, cut) \in SUBSET (1..Edge(h, o)) /\ Edge(h, o) \in Nat
         /\ OpenFits(h, o) => Edge(h, o) <= Len(h)
<1>1. Len(h) \in Nat /\ o.start \in Nat
  BY DEF Opens
<1> QED BY <1>1 DEF LeftOut, Edge, OpenFits

\* A silence ends the open segment, or the stream does: what lies between it and its end is in the
\* segment cut, or too little for one.
LEMMA ClosingKeeps ==
  ASSUME NEW h \in Seq(BOOLEAN), NEW g \in Seq(BOOLEAN), Len(h) <= Len(g), \A n \in 1..Len(h) : g[n] = h[n],
         NEW o \in Opens, o.on, NEW cut \in SUBSET Cuts, Segmented(h, o, cut), LostClosed(h, o, LeftOut(h, o, cut)),
         NEW t \in Nat, t <= Len(g) - o.start, \A n \in (Len(g) - t + 1)..Len(g) : ~g[n],
         NEW more, more = Build(g, o, Len(g) - t)
  PROVE  /\ Segmented(g, NotOpen, cut \cup more) /\ Advanced(h, o, g, NotOpen, more)
         /\ t >= CloseFrames => LostClosed(g, NotOpen, LeftOut(g, NotOpen, cut \cup more))
<1> DEFINE end == Len(g) - t
           from == o.start + o.carry
           out == LeftOut(h, o, cut)
           out1 == LeftOut(g, NotOpen, cut \cup more)
<1>1. /\ Len(h) \in Nat /\ Len(g) \in Nat /\ o.start \in Nat /\ o.carry \in {0, OverlapFrames} /\ OverlapFrames \in Nat \ {0} /\ CloseFrames \in Nat \ {0}
      /\ o.start < Len(h) /\ from <= Len(h)
  BY ConfigIs DEF Opens, Segmented, OpenFits
<1>2. end \in Nat /\ end <= Len(g) /\ o.start <= end /\ from \in Nat /\ Edge(h, o) = o.start /\ Edge(g, NotOpen) = Len(g) /\ Edge(h, o) <= Len(h)
  BY <1>1, OpensAre DEF Edge
<1>3. \/ more = {[start |-> o.start, end |-> end]} /\ from < end
      \/ more = {} /\ Cardinality(Speech(g, from, end)) < MinSpeech
  BY <1>2, BuildIs
<1>4. out \in SUBSET (1..Edge(h, o)) /\ LittleLost(h, out) /\ LostClosed(h, o, out)
  BY LeftOutIs DEF Segmented
<1>5. \A i \in out1 : i \in 1..Len(g) /\ g[i] /\ \A s \in cut \cup more : ~(s.start < i /\ i <= s.end)
  BY <1>2 DEF LeftOut
<1>6. \A i \in 1..Len(h) : (i <= o.start /\ h[i] /\ \A s \in cut : ~(s.start < i /\ i <= s.end)) => i \in out
  BY <1>1, <1>2 DEF LeftOut
<1> HIDE DEF out, out1, end, from
<1>7. ASSUME NEW i \in out1, i \notin out PROVE i \in Speech(g, from, end)
  <2>1. i \in Nat /\ 1 <= i /\ i <= Len(g) /\ g[i]
    BY <1>1, <1>5
  <2>2. o.start < i
    <3> SUFFICES ASSUME i <= o.start PROVE FALSE
      BY <1>1, <2>1
    <3>1. i \in 1..Len(h) /\ h[i]
      BY <1>1, <2>1
    <3> QED BY <1>5, <1>6, <1>7, <3>1
  <2>3. i <= end
    <3> SUFFICES ASSUME end < i PROVE FALSE
      BY <1>2, <2>1
    <3>1. i \in (Len(g) - t + 1)..Len(g)
      BY <1>1, <2>1 DEF end
    <3> QED BY <2>1, <3>1
  <2>4. from < i
    <3> SUFFICES ASSUME i <= from PROVE FALSE
      BY <1>2, <2>1
    <3>1. o.carry > 0
      BY <1>1, <2>1, <2>2 DEF from
    <3>2. PICK s \in cut : s.start <= o.start /\ s.end >= from
      BY <3>1 DEF Segmented, Carried, from
    <3>3. s.start \in Nat /\ s.end \in Nat
      BY DEF Cuts
    <3>4. s.start < i /\ i <= s.end
      BY <1>1, <1>2, <2>1, <2>2, <3>2, <3>3
    <3> QED BY <1>5, <3>4
  <2>5. i \in (from + 1)..end
    BY <1>2, <2>1, <2>3, <2>4
  <2> QED BY <2>1, <2>5 DEF Speech
<1>8. more = {} => Cardinality(Speech(g, from, end)) < MinSpeech
  BY <1>3
<1>9. more # {} => out1 \subseteq out
  <2> SUFFICES ASSUME more # {}, NEW i \in out1, i \notin out PROVE FALSE
    OBVIOUS
  <2>1. more = {[start |-> o.start, end |-> end]}
    BY <1>3
  <2>2. i \in (from + 1)..end
    BY <1>7 DEF Speech
  <2>3. o.start < i /\ i <= end
    BY <1>1, <1>2, <2>2 DEF from
  <2>4. ~([start |-> o.start, end |-> end].start < i /\ i <= [start |-> o.start, end |-> end].end)
    BY <1>5, <2>1
  <2> QED BY <2>3, <2>4
<1>10. LittleLost(g, out1)
  <2>1. CASE more # {}
    <3>1. out1 \in SUBSET out
      BY <1>9, <2>1
    <3> QED BY <1>2, <1>4, <3>1, NothingLost
  <2>2. CASE more = {}
    <3>1. from \in 0..Len(g) /\ end \in 0..Len(g) /\ Edge(h, o) <= from
      BY <1>1, <1>2 DEF from
    <3>2. out1 \subseteq out \cup Speech(g, from, end)
      BY <1>7
    <3>3. Cardinality(Speech(g, from, end)) < MinSpeech
      BY <1>8, <2>2
    <3>4. o \in Opens /\ Edge(h, o) <= Len(h) /\ out \in SUBSET (1..Edge(h, o)) /\ LittleLost(h, out) /\ LostClosed(h, o, out)
      BY <1>2, <1>4
    <3> QED BY <3>1, <3>2, <3>3, <3>4, StretchLost
  <2> QED BY <2>1, <2>2
<1>11. ASSUME t >= CloseFrames PROVE LostClosed(g, NotOpen, out1)
  <2> SUFFICES ASSUME NEW i \in out1 PROVE \E k \in Nat : i <= k /\ k + CloseFrames <= Edge(g, NotOpen) /\ Silent(g, k)
    BY DEF LostClosed
  <2>1. CASE i \in out
    <3>1. Edge(g, NotOpen) \in Nat /\ Edge(h, o) <= Edge(g, NotOpen)
      BY <1>1, <1>2
    <3> QED BY <1>2, <1>4, <2>1, <3>1, StillClosed
  <2>2. CASE i \notin out
    <3>1. i \in (from + 1)..end
      BY <1>7, <2>2 DEF Speech
    <3>2. i <= end /\ end + CloseFrames <= Len(g)
      BY <1>1, <1>2, <1>11, <3>1 DEF end
    <3>3. \A n \in (end + 1)..(end + CloseFrames) : n \in (Len(g) - t + 1)..Len(g)
      BY <1>1, <1>2, <3>2 DEF end
    <3>4. Silent(g, end)
      BY <3>3 DEF Silent
    <3> QED BY <1>2, <3>2, <3>4
  <2> QED BY <2>1, <2>2
<1>12. \A s \in more : s = [start |-> o.start, end |-> end] /\ s.start = o.start /\ s.end = end /\ s \in Cuts /\ s.start < s.end
  <2> SUFFICES ASSUME NEW s \in more
               PROVE s = [start |-> o.start, end |-> end] /\ s.start = o.start /\ s.end = end /\ s \in Cuts /\ s.start < s.end
    OBVIOUS
  <2>1. s = [start |-> o.start, end |-> end] /\ from < end
    BY <1>3
  <2>2. s.start = o.start /\ s.end = end
    BY <2>1
  <2>3. s \in Cuts
    BY <1>1, <1>2, <2>1 DEF Cuts
  <2>4. o.start < end
    BY <1>1, <1>2, <2>1 DEF from
  <2> QED BY <2>1, <2>2, <2>3, <2>4
<1>13. CutsFit(g, NotOpen, cut \cup more)
  <2> SUFFICES ASSUME NEW s \in cut \cup more PROVE s.start < s.end /\ s.end <= Len(g) /\ s.start < Len(g)
    BY <1>2 DEF CutsFit
  <2>1. CASE s \in cut
    <3>1. s.start < s.end /\ s.end <= Len(h) /\ s.start < Edge(h, o) /\ s.start \in Nat /\ s.end \in Nat
      BY <2>1 DEF Segmented, CutsFit, Cuts
    <3> QED BY <1>1, <3>1
  <2>2. CASE s \in more
    BY <1>1, <1>2, <1>12, <2>2
  <2> QED BY <2>1, <2>2
<1>14. OpenFits(g, NotOpen) /\ Carried(NotOpen, cut \cup more)
  BY OpensAre DEF OpenFits, Carried
<1>15. Advanced(h, o, g, NotOpen, more)
  <2>1. more = {} \/ \E s \in Cuts : more = {s}
    BY <1>3, <1>12
  <2>2. \A s \in more : s.start = Edge(h, o) /\ s.start < Edge(g, NotOpen)
    BY <1>1, <1>2, <1>12
  <2>3. Edge(h, o) <= Edge(g, NotOpen)
    BY <1>1, <1>2
  <2> QED BY <2>1, <2>2, <2>3, OpensAre DEF Advanced
<1> QED BY <1>10, <1>11, <1>13, <1>14, <1>15 DEF Segmented, out1

\* A frame.
LEMMA PushKeeps ==
  ASSUME NEW h \in Seq(BOOLEAN), NEW o \in Opens, NEW b \in BOOLEAN, NEW g, g = Append(h, b),
         NEW cut \in SUBSET Cuts, Segmented(h, o, cut), LostClosed(h, o, LeftOut(h, o, cut)), NEW p, p = Push(g, o)
  PROVE  /\ Segmented(g, p.open, cut \cup p.cut) /\ Advanced(h, o, g, p.open, p.cut)
         /\ LostClosed(g, p.open, LeftOut(g, p.open, cut \cup p.cut))
<1> DEFINE t == TrailingSilence(g, o)
           out == LeftOut(h, o, cut)
           e == Edge(h, o)
<1>1. /\ g \in Seq(BOOLEAN) /\ Len(h) \in Nat /\ Len(g) = Len(h) + 1 /\ g[Len(g)] = b /\ \A i \in 1..Len(h) : g[i] = h[i]
      /\ OpenFits(h, o) /\ o.start \in Nat
  BY DEF Segmented, Opens
<1>2. out \in SUBSET (1..e) /\ e \in Nat /\ e <= Len(h) /\ LittleLost(h, out) /\ LostClosed(h, o, out)
  BY <1>1, LeftOutIs DEF Segmented
<1>3. \/ ~o.on /\ ~b /\ p.open = NotOpen /\ p.cut = {}
      \/ ~o.on /\ b /\ p.open = [on |-> TRUE, start |-> Len(h), carry |-> 0] /\ p.cut = {}
      \/ o.on /\ t >= CloseFrames /\ p.open = NotOpen /\ p.cut = Build(g, o, Len(g) - t)
      \/ /\ o.on /\ t < CloseFrames /\ Len(g) - o.start >= MaxFrames /\ p.cut = Build(g, o, Len(g))
         /\ p.open = [on |-> TRUE, start |-> Len(g) - OverlapFrames, carry |-> OverlapFrames]
      \/ o.on /\ t < CloseFrames /\ Len(g) - o.start < MaxFrames /\ p.open = o /\ p.cut = {}
  <2>1. Pushed(h, b, g, o, t, p)
    BY <1>1, PushIs
  <2> HIDE DEF t, e, out
  <2> QED BY <2>1 DEF Pushed
<1>4. CloseFrames \in Nat \ {0} /\ MaxFrames \in Nat \ {0} /\ OverlapFrames \in Nat \ {0} /\ MinSpeech \in Nat \ {0} /\ OverlapFrames < MaxFrames
  BY ConfigIs
\* Steps that leave no more out.
<1>5. ASSUME NEW q \in Opens, NEW all \in SUBSET Cuts, e <= Edge(g, q), LeftOut(g, q, all) \subseteq out
      PROVE  LittleLost(g, LeftOut(g, q, all)) /\ LostClosed(g, q, LeftOut(g, q, all))
  <2> DEFINE out1 == LeftOut(g, q, all)
  <2>1. Edge(g, q) \in Nat /\ out1 \in SUBSET out /\ Len(h) <= Len(g)
    <3>1. Edge(g, q) \in Nat
      BY <1>1, LeftOutIs
    <3> QED BY <1>1, <1>5, <3>1
  <2> HIDE DEF out1, out
  <2>2. LittleLost(g, out1)
    BY <1>1, <1>2, <2>1, NothingLost
  <2>3. \A i \in out1 : \E k \in Nat : i <= k /\ k + CloseFrames <= Edge(g, q) /\ Silent(g, k)
    BY <1>1, <1>2, <1>5, <2>1, StillClosed
  <2> QED BY <2>2, <2>3 DEF LostClosed, out1
<1>6. ASSUME NEW s \in cut
      PROVE  s.start < s.end /\ s.end <= Len(g) /\ s.start < e /\ s.start \in Nat /\ s.end \in Nat /\ s.end <= Len(h)
  <2>1. s.start < s.end /\ s.end <= Len(h) /\ s.start < e /\ s.start \in Nat /\ s.end \in Nat
    BY DEF Segmented, CutsFit, Cuts
  <2> QED BY <1>1, <2>1
<1>7. CASE ~o.on /\ ~b /\ p.open = NotOpen /\ p.cut = {}
  <2>1. e = Len(h) /\ Edge(g, NotOpen) = Len(g) /\ e <= Len(g)
    BY <1>1, <1>7, OpensAre DEF Edge
  <2>2. LeftOut(g, NotOpen, cut) \subseteq out
    <3> SUFFICES ASSUME NEW i \in LeftOut(g, NotOpen, cut) PROVE i \in out
      OBVIOUS
    <3>1. i \in 1..Len(g) /\ g[i] /\ \A s \in cut : ~(s.start < i /\ i <= s.end)
      BY <2>1 DEF LeftOut
    <3>2. i # Len(g)
      BY <1>1, <1>7, <3>1
    <3>3. i \in 1..Len(h)
      BY <1>1, <3>1, <3>2
    <3> QED BY <1>1, <2>1, <3>1, <3>3 DEF LeftOut
  <2>3. OpenFits(g, NotOpen) /\ Carried(NotOpen, cut)
    BY OpensAre DEF OpenFits, Carried
  <2>4. CutsFit(g, NotOpen, cut)
    BY <1>1, <1>2, <1>6, <2>1 DEF CutsFit
  <2>5. LittleLost(g, LeftOut(g, NotOpen, cut)) /\ LostClosed(g, NotOpen, LeftOut(g, NotOpen, cut))
    BY <1>5, <2>1, <2>2, OpensAre
  <2>6. cut \cup p.cut = cut
    BY <1>7
  <2> QED BY <1>7, <2>1, <2>3, <2>4, <2>5, <2>6, OpensAre DEF Segmented, Advanced
<1>8. CASE ~o.on /\ b /\ p.open = [on |-> TRUE, start |-> Len(h), carry |-> 0] /\ p.cut = {}
  <2> DEFINE q == [on |-> TRUE, start |-> Len(h), carry |-> 0]
  <2>1. q \in Opens /\ q.on /\ q.start = Len(h) /\ q.carry = 0 /\ e = Len(h) /\ Edge(g, q) = Len(h)
    BY <1>1, <1>8, OpensAre DEF Edge
  <2> HIDE DEF q
  <2>2. LeftOut(g, q, cut) \subseteq out
    BY <1>1, <2>1 DEF LeftOut
  <2>3. OpenFits(g, q)
    <3>1. ASSUME NEW n \in Nat, q.start <= n, n + CloseFrames <= Len(g)
          PROVE  \E i \in (n + 1)..(n + CloseFrames) : g[i]
      <4>1. Len(g) \in (n + 1)..(n + CloseFrames)
        BY <1>1, <1>4, <2>1, <3>1
      <4> QED BY <1>1, <1>8, <4>1
    <3>2. q.start < Len(g) /\ q.start + q.carry <= Len(g) /\ Len(g) - q.start < MaxFrames
      BY <1>1, <1>4, <2>1
    <3> QED BY <2>1, <3>1, <3>2 DEF OpenFits
  <2>4. Carried(q, cut)
    BY <2>1 DEF Carried
  <2>5. CutsFit(g, q, cut)
    BY <1>6, <2>1 DEF CutsFit
  <2>6. LittleLost(g, LeftOut(g, q, cut)) /\ LostClosed(g, q, LeftOut(g, q, cut))
    BY <1>1, <1>5, <2>1, <2>2
  <2>7. cut \cup p.cut = cut /\ p.open = q
    BY <1>8 DEF q
  <2>8. Advanced(h, o, g, q, {})
    BY <1>1, <2>1 DEF Advanced
  <2> QED BY <1>8, <2>3, <2>4, <2>5, <2>6, <2>7, <2>8 DEF Segmented
<1>9. CASE o.on /\ t >= CloseFrames /\ p.open = NotOpen /\ p.cut = Build(g, o, Len(g) - t)
  <2>1. o.start <= Len(g) /\ Len(h) <= Len(g)
    BY <1>1, <1>2, <1>9 DEF Edge
  <2>2. t \in Nat /\ t <= Len(g) - o.start /\ \A n \in (Len(g) - t + 1)..Len(g) : ~g[n]
    BY <1>1, <2>1, TrailingIs
  <2>3. p.open = NotOpen /\ p.cut = Build(g, o, Len(g) - t) /\ o.on /\ t >= CloseFrames
    BY <1>9
  <2>4. /\ Segmented(g, NotOpen, cut \cup p.cut) /\ Advanced(h, o, g, NotOpen, p.cut)
        /\ t >= CloseFrames => LostClosed(g, NotOpen, LeftOut(g, NotOpen, cut \cup p.cut))
    <3>1. PICK u, more : u = t /\ more = p.cut
      OBVIOUS
    <3>2. u \in Nat /\ u <= Len(g) - o.start /\ (\A n \in (Len(g) - u + 1)..Len(g) : ~g[n]) /\ more = Build(g, o, Len(g) - u)
      BY <2>2, <2>3, <3>1
    <3>3. g \in Seq(BOOLEAN) /\ Len(h) <= Len(g) /\ \A n \in 1..Len(h) : g[n] = h[n]
      BY <1>1, <2>1
    <3>4. Segmented(h, o, cut) /\ LostClosed(h, o, LeftOut(h, o, cut))
      OBVIOUS
    <3>5. /\ Segmented(g, NotOpen, cut \cup more) /\ Advanced(h, o, g, NotOpen, more)
          /\ u >= CloseFrames => LostClosed(g, NotOpen, LeftOut(g, NotOpen, cut \cup more))
      BY ONLY <2>3, <3>2, <3>3, <3>4, h \in Seq(BOOLEAN), o \in Opens, cut \in SUBSET Cuts, ClosingKeeps
    <3> QED BY <3>1, <3>5
  <2> HIDE DEF t
  <2> QED BY <2>3, <2>4
<1>10. CASE /\ o.on /\ t < CloseFrames /\ Len(g) - o.start >= MaxFrames /\ p.cut = Build(g, o, Len(g))
            /\ p.open = [on |-> TRUE, start |-> Len(g) - OverlapFrames, carry |-> OverlapFrames]
  <2> DEFINE from == o.start + o.carry
             s == [start |-> o.start, end |-> Len(g)]
             n1 == Len(g) - OverlapFrames
             q == [on |-> TRUE, start |-> n1, carry |-> OverlapFrames]
  <2>1. o.start < Len(h) /\ o.carry \in {0, OverlapFrames} /\ from \in Nat /\ from + (MaxFrames - OverlapFrames) <= Len(g) /\ o.start <= from
    BY <1>1, <1>4, <1>10 DEF OpenFits, Opens
  <2>2. ASSUME NEW n \in Nat, o.start <= n, n + CloseFrames <= Len(g)
        PROVE  \E i \in (n + 1)..(n + CloseFrames) : g[i]
    BY <1>1, <1>10, <2>2, StillLoud
  <2>3. Cardinality(Speech(g, from, Len(g))) >= MinSpeech
    <3>1. \A n \in Nat : (from <= n /\ n + CloseFrames <= Len(g)) => \E i \in (n + 1)..(n + CloseFrames) : g[i]
      <4> TAKE n \in Nat
      <4> HAVE from <= n /\ n + CloseFrames <= Len(g)
      <4> HIDE DEF from
      <4>1. o.start <= n
        BY <1>1, <2>1
      <4> QED BY <2>2, <4>1
    <3> HIDE DEF from
    <3> QED BY <1>1, <2>1, <3>1, SpeechEnough
  <2>4. p.cut = {s} /\ from < Len(g)
    <3>1. Cardinality(Speech(g, from, Len(g))) \in Nat /\ Len(g) \in Nat
      BY <1>1, <2>1, SpeechIs
    <3>2. \/ Build(g, o, Len(g)) = {[start |-> o.start, end |-> Len(g)]} /\ o.start + o.carry < Len(g)
          \/ Build(g, o, Len(g)) = {} /\ Cardinality(Speech(g, o.start + o.carry, Len(g))) < MinSpeech
      BY <3>1, BuildIs
    <3> QED BY <1>4, <1>10, <2>3, <3>1, <3>2
  <2>5. n1 \in Nat /\ o.start < n1 /\ n1 + OverlapFrames = Len(g) /\ n1 < Len(g)
    BY <1>1, <1>4, <1>10
  <2> HIDE DEF n1, from
  <2>6. q \in Opens /\ q.on /\ q.start = n1 /\ q.carry = OverlapFrames /\ Edge(g, q) = n1 /\ e = o.start
    BY <1>10, <2>5, OpensAre DEF Edge
  <2>7. p.open = q
    BY <1>10 DEF n1
  <2> HIDE DEF q
  <2>8. s \in Cuts /\ s.start = o.start /\ s.end = Len(g) /\ cut \cup p.cut = cut \cup {s}
    BY <1>1, <2>4 DEF Cuts
  <2> HIDE DEF s
  <2>9. LeftOut(g, q, cut \cup {s}) \subseteq out
    <3> SUFFICES ASSUME NEW i \in LeftOut(g, q, cut \cup {s}) PROVE i \in out
      OBVIOUS
    <3>1. i \in 1..n1 /\ g[i] /\ \A x \in cut \cup {s} : ~(x.start < i /\ i <= x.end)
      BY <2>6 DEF LeftOut
    <3>2. i <= o.start
      BY <1>1, <2>5, <2>8, <3>1
    <3>3. i \in 1..Len(h) /\ i \in 1..e
      BY <1>1, <2>1, <2>5, <2>6, <3>1, <3>2
    <3> QED BY <1>1, <3>1, <3>3 DEF LeftOut
  <2>10. OpenFits(g, q)
    <3>1. \A n \in Nat : (q.start <= n /\ n + CloseFrames <= Len(g)) => \E i \in (n + 1)..(n + CloseFrames) : g[i]
      <4> TAKE n \in Nat
      <4> HAVE q.start <= n /\ n + CloseFrames <= Len(g)
      <4>1. o.start <= n
        BY <1>1, <2>5, <2>6
      <4> QED BY <2>2, <4>1
    <3>2. q.start < Len(g) /\ q.start + q.carry <= Len(g) /\ Len(g) - q.start < MaxFrames
      BY <1>1, <1>4, <2>5, <2>6
    <3> QED BY <2>6, <3>1, <3>2 DEF OpenFits
  <2>11. Carried(q, cut \cup {s})
    <3>1. s.start <= q.start /\ s.end >= q.start + q.carry
      BY <1>1, <2>5, <2>6, <2>8
    <3> QED BY <3>1 DEF Carried
  <2>12. CutsFit(g, q, cut \cup {s})
    <3>1. s.start < s.end /\ s.end <= Len(g) /\ s.start < n1
      BY <1>1, <2>5, <2>8
    <3>2. \A x \in cut : x.start < n1
      BY <1>1, <1>6, <2>5, <2>6
    <3> QED BY <1>6, <2>6, <3>1, <3>2 DEF CutsFit
  <2>13. e <= Edge(g, q) /\ cut \cup {s} \in SUBSET Cuts
    BY <1>1, <2>5, <2>6, <2>8
  <2>14. LittleLost(g, LeftOut(g, q, cut \cup {s})) /\ LostClosed(g, q, LeftOut(g, q, cut \cup {s}))
    BY <1>5, <2>6, <2>9, <2>13
  <2>15. Advanced(h, o, g, q, {s})
    BY <2>5, <2>6, <2>8, <2>13 DEF Advanced
  <2> QED BY <2>4, <2>7, <2>8, <2>10, <2>11, <2>12, <2>14, <2>15 DEF Segmented
<1>11. CASE o.on /\ t < CloseFrames /\ Len(g) - o.start < MaxFrames /\ p.open = o /\ p.cut = {}
  <2>1. e = o.start /\ Edge(g, o) = o.start /\ o.start < Len(h) /\ o.start + o.carry <= Len(h) /\ o.carry \in Nat
    BY <1>4, <1>11 DEF Edge, Segmented, OpenFits, Opens
  <2>2. LeftOut(g, o, cut) \subseteq out
    BY <1>1, <2>1 DEF LeftOut
  <2>3. OpenFits(g, o)
    <3>1. \A n \in Nat : (o.start <= n /\ n + CloseFrames <= Len(g)) => \E i \in (n + 1)..(n + CloseFrames) : g[i]
      BY <1>1, <1>11, StillLoud
    <3>2. o.start < Len(g) /\ o.start + o.carry <= Len(g)
      BY <1>1, <2>1
    <3> QED BY <1>11, <3>1, <3>2 DEF OpenFits
  <2>4. CutsFit(g, o, cut)
    BY <1>6, <2>1 DEF CutsFit
  <2>5. LittleLost(g, LeftOut(g, o, cut)) /\ LostClosed(g, o, LeftOut(g, o, cut))
    BY <1>1, <1>5, <2>1, <2>2
  <2>6. cut \cup p.cut = cut /\ Carried(o, cut)
    BY <1>11 DEF Segmented
  <2>7. Advanced(h, o, g, o, {})
    BY <1>1, <2>1 DEF Advanced
  <2> QED BY <1>11, <2>3, <2>4, <2>5, <2>6, <2>7 DEF Segmented
<1> QED BY <1>3, <1>7, <1>8, <1>9, <1>10, <1>11

\* The end of the stream.
LEMMA FlushKeeps ==
  ASSUME NEW h \in Seq(BOOLEAN), NEW o \in Opens, NEW cut \in SUBSET Cuts, Segmented(h, o, cut), LostClosed(h, o, LeftOut(h, o, cut)),
         NEW more, more = Flush(h, o)
  PROVE  Segmented(h, NotOpen, cut \cup more) /\ Advanced(h, o, h, NotOpen, more)
<1>1. CASE o.on
  <2> DEFINE t == TrailingSilence(h, o)
  <2>1. o.start \in Nat /\ o.start <= Len(h) /\ Len(h) <= Len(h)
    BY <1>1 DEF Segmented, OpenFits, Opens
  <2>2. t \in Nat /\ t <= Len(h) - o.start /\ \A n \in (Len(h) - t + 1)..Len(h) : ~h[n]
    BY <2>1, TrailingIs
  <2>3. more = Build(h, o, Len(h) - t)
    BY <1>1 DEF Flush
  <2> HIDE DEF t
  <2> QED BY <1>1, <2>1, <2>2, <2>3, ClosingKeeps
<1>2. CASE ~o.on
  <2>1. o = NotOpen /\ more = {} /\ cut \cup more = cut
    BY <1>2 DEF Flush, Segmented, OpenFits
  <2>2. Edge(h, o) <= Edge(h, o)
    BY LeftOutIs
  <2> QED BY <2>1, <2>2, OpensAre DEF Advanced
<1> QED BY <1>1, <1>2

-----------------------------------------------------------------------------
(* The transcript: one channel's queue and how far it is transcribed.       *)
Waiting(q, w) == {q[i].start : i \in DOMAIN q} \cup ({w} \ {Nobody})
First(e, q, w) == Min({e} \cup Waiting(q, w))

LEMMA TranscribedIs ==
  ASSUME NEW c
  PROVE  /\ Transcribed(c) = First(Edge(heard[c], open[c]), queue[c], work[c])
         /\ Transcribed(c)' = First(Edge(heard'[c], open'[c]), queue'[c], work'[c])
<1>1. Transcribed(c) = First(Edge(heard[c], open[c]), queue[c], work[c])
  BY DEF Transcribed, First, Waiting, Edge, Inflight, Position
<1>2. Transcribed(c)' = First(Edge(heard'[c], open'[c]), queue'[c], work'[c])
  BY DEF Transcribed, First, Waiting, Edge, Inflight, Position
<1> QED BY <1>1, <1>2

LEMMA WaitingIs ==
  ASSUME NEW q \in Seq(Cuts), NEW w \in Nat \cup {Nobody}
  PROVE  Waiting(q, w) \in SUBSET Nat /\ \A x : x \in Waiting(q, w) <=> (\E i \in 1..Len(q) : x = q[i].start) \/ (w # Nobody /\ x = w)
<1>1. DOMAIN q = 1..Len(q) /\ \A i \in 1..Len(q) : q[i].start \in Nat
  <2>1. DOMAIN q = 1..Len(q) /\ \A i \in 1..Len(q) : q[i] \in Cuts
    OBVIOUS
  <2> QED BY <2>1 DEF Cuts
<1> QED BY <1>1 DEF Waiting

LEMMA FirstIs ==
  ASSUME NEW e \in Nat, NEW q \in Seq(Cuts), NEW w \in Nat \cup {Nobody}
  PROVE  First(e, q, w) \in Nat /\ First(e, q, w) <= e /\ \A x \in Waiting(q, w) : First(e, q, w) <= x
<1>1. {e} \cup Waiting(q, w) \in SUBSET Nat /\ {e} \cup Waiting(q, w) # {}
  BY WaitingIs
<1>2. Min({e} \cup Waiting(q, w)) \in {e} \cup Waiting(q, w) /\ \A x \in {e} \cup Waiting(q, w) : Min({e} \cup Waiting(q, w)) <= x
  BY <1>1, SmallestNumber
<1> QED BY <1>1, <1>2 DEF First

\* What a step does to one channel: its audio advances, with nothing cut and its worker perhaps
\* free again; or a segment is cut; or its worker takes the first segment.
Steps(e, q, w, cut, e1, q1, w1, cut1) ==
  \/ e <= e1 /\ q1 = q /\ cut1 = cut /\ w1 \in {w, Nobody}
  \/ w1 = w /\ \E s \in Cuts : s.start = e /\ e < e1 /\ q1 = Append(q, s) /\ cut1 = cut \cup {s}
  \/ q # <<>> /\ w = Nobody /\ e1 = e /\ q1 = Tail(q) /\ w1 = Head(q).start /\ cut1 = cut

\* Then its queue is as it should be, what has left it stays out of it, and how far it is
\* transcribed does not go back.
Carries(e, q, w, e1, q1, w1, cut1) ==
  /\ QueueFits(e1, q1, w1, cut1) /\ First(e, q, w) <= First(e1, q1, w1)
  /\ \A x \in Nat : Left(e, q, x) => Left(e1, q1, x)

LEMMA AppendIs ==
  ASSUME NEW q \in Seq(Cuts), NEW s \in Cuts
  PROVE  /\ Append(q, s) \in Seq(Cuts) /\ Len(Append(q, s)) = Len(q) + 1 /\ Append(q, s)[Len(q) + 1] = s
         /\ \A i \in 1..Len(q) : Append(q, s)[i] = q[i]
         /\ \A i \in 1..Len(Append(q, s)) : i \in 1..Len(q) \/ i = Len(q) + 1
  OBVIOUS

LEMMA QueueTailIs ==
  ASSUME NEW q \in Seq(Cuts), q # <<>>
  PROVE  /\ Tail(q) \in Seq(Cuts) /\ Head(q) = q[1] /\ 1 \in 1..Len(q) /\ Head(q) \in Cuts
         /\ \A i \in 1..Len(Tail(q)) : i + 1 \in 1..Len(q) /\ Tail(q)[i] = q[i + 1] /\ i + 1 # 1
  OBVIOUS

LEMMA CutCarries ==
  ASSUME NEW e \in Nat, NEW q \in Seq(Cuts), NEW w \in Nat \cup {Nobody}, NEW cut \in SUBSET Cuts, QueueFits(e, q, w, cut), \A s \in cut : s.start < e,
         NEW e1 \in Nat, NEW s \in Cuts, s.start = e, e < e1
  PROVE  Carries(e, q, w, e1, Append(q, s), w, cut \cup {s})
<1> DEFINE q1 == Append(q, s)
<1>1. /\ q1 \in Seq(Cuts) /\ Len(q) \in Nat /\ Len(q1) = Len(q) + 1 /\ q1[Len(q) + 1] = s /\ \A i \in 1..Len(q) : q1[i] = q[i]
      /\ \A i \in 1..Len(q1) : i \in 1..Len(q) \/ i = Len(q) + 1
  BY AppendIs
<1> HIDE DEF q1
<1>2. \A i \in 1..Len(q) : q[i] \in cut /\ q[i].start < e /\ q[i].start \in Nat
  BY DEF QueueFits, Cuts
<1>3. QueueFits(e1, q1, w, cut \cup {s})
  <2>1. \A i \in 1..Len(q1) : q1[i] \in cut \cup {s}
    BY <1>1, <1>2
  <2>2. ASSUME NEW i \in 1..Len(q1), NEW j \in 1..Len(q1), q1[i].start = q1[j].start PROVE i = j
    <3>1. CASE i \in 1..Len(q) /\ j \in 1..Len(q)
      BY <1>1, <2>2, <3>1 DEF QueueFits
    <3>2. CASE i \in 1..Len(q) /\ j = Len(q) + 1
      BY <1>1, <1>2, <2>2, <3>2
    <3>3. CASE i = Len(q) + 1 /\ j \in 1..Len(q)
      BY <1>1, <1>2, <2>2, <3>3
    <3>4. CASE i = Len(q) + 1 /\ j = Len(q) + 1
      BY <3>4
    <3> QED BY <1>1, <3>1, <3>2, <3>3, <3>4
  <2>3. w # Nobody => w < e1
    BY DEF QueueFits
  <2> QED BY <2>1, <2>2, <2>3 DEF QueueFits
<1>4. First(e, q, w) <= First(e1, q1, w)
  <2>1. \A x \in Waiting(q1, w) : x \in Waiting(q, w) \/ x = e
    <3> TAKE x \in Waiting(q1, w)
    <3>1. (\E i \in 1..Len(q1) : x = q1[i].start) \/ (w # Nobody /\ x = w)
      BY <1>1, WaitingIs
    <3>2. CASE w # Nobody /\ x = w
      BY <3>2, WaitingIs
    <3>3. ASSUME NEW i \in 1..Len(q1), x = q1[i].start PROVE x \in Waiting(q, w) \/ x = e
      <4>1. CASE i \in 1..Len(q)
        BY <1>1, <3>3, <4>1, WaitingIs
      <4>2. CASE i = Len(q) + 1
        BY <1>1, <3>3, <4>2
      <4> QED BY <1>1, <4>1, <4>2
    <3> QED BY <3>1, <3>2, <3>3
  <2>2. Waiting(q, w) \in SUBSET Nat /\ Waiting(q1, w) \in SUBSET Nat
    BY <1>1, WaitingIs
  <2>3. \A x \in {e1} \cup Waiting(q1, w) : \E y \in {e} \cup Waiting(q, w) : y <= x
    BY <2>1, <2>2
  <2> QED BY <2>2, <2>3, Onward DEF First
<1>5. ASSUME NEW x \in Nat, Left(e, q, x) PROVE Left(e1, q1, x)
  <2>1. \A i \in 1..Len(q1) : q1[i].start # x
    BY <1>1, <1>5 DEF Left
  <2> QED BY <1>5, <2>1 DEF Left
<1> QED BY <1>3, <1>4, <1>5 DEF Carries, q1

LEMMA PopCarries ==
  ASSUME NEW e \in Nat, NEW q \in Seq(Cuts), NEW cut \in SUBSET Cuts, QueueFits(e, q, Nobody, cut), \A s \in cut : s.start < e, q # <<>>
  PROVE  /\ Carries(e, q, Nobody, e, Tail(q), Head(q).start, cut)
         /\ Left(e, Tail(q), Head(q).start) /\ First(e, q, Nobody) <= Head(q).start /\ Head(q) \in cut
         /\ \A x \in Nat : Left(e, q, x) => x # Head(q).start
<1> DEFINE q1 == Tail(q)
           w1 == Head(q).start
<1>1. /\ q1 \in Seq(Cuts) /\ w1 = q[1].start /\ 1 \in 1..Len(q) /\ w1 \in Nat /\ Head(q) = q[1]
      /\ \A i \in 1..Len(q1) : i + 1 \in 1..Len(q) /\ q1[i] = q[i + 1] /\ i + 1 # 1
  BY QueueTailIs DEF Cuts
<1> HIDE DEF q1, w1
<1>2. w1 < e /\ Head(q) \in cut /\ Nobody \in Nat \cup {Nobody} /\ w1 # Nobody
  BY <1>1 DEF QueueFits, Nobody
<1>3. \A i \in 1..Len(q1) : q1[i].start # w1
  <2> TAKE i \in 1..Len(q1)
  <2> SUFFICES ASSUME q[i + 1].start = q[1].start PROVE FALSE
    BY <1>1
  <2> QED BY <1>1 DEF QueueFits
<1>4. QueueFits(e, q1, w1, cut)
  <2>1. \A i \in 1..Len(q1) : q1[i] \in cut
    BY <1>1 DEF QueueFits
  <2>2. ASSUME NEW i \in 1..Len(q1), NEW j \in 1..Len(q1), q1[i].start = q1[j].start PROVE i = j
    <3>1. i + 1 = j + 1
      BY <1>1, <2>2 DEF QueueFits
    <3> QED BY <3>1
  <2> QED BY <1>2, <2>1, <2>2 DEF QueueFits
<1>5. Waiting(q, Nobody) \in SUBSET Nat /\ Waiting(q1, w1) \in SUBSET Nat /\ Waiting(q1, w1) \subseteq Waiting(q, Nobody) /\ w1 \in Waiting(q, Nobody)
  <2>1. \A x : x \in Waiting(q, Nobody) <=> \E i \in 1..Len(q) : x = q[i].start
    <3>1. DOMAIN q = 1..Len(q)
      OBVIOUS
    <3> QED BY <3>1 DEF Waiting
  <2>2. \A x : x \in Waiting(q1, w1) <=> (\E i \in 1..Len(q1) : x = q1[i].start) \/ x = w1
    BY <1>1, <1>2, WaitingIs
  <2>3. Waiting(q, Nobody) \in SUBSET Nat /\ Waiting(q1, w1) \in SUBSET Nat
    BY <1>1, <1>2, WaitingIs
  <2>4. w1 \in Waiting(q, Nobody)
    BY <1>1, <2>1
  <2>5. ASSUME NEW i \in 1..Len(q1) PROVE q1[i].start \in Waiting(q, Nobody)
    BY <1>1, <2>1
  <2> QED BY <2>2, <2>3, <2>4, <2>5
<1>6. First(e, q, Nobody) <= First(e, q1, w1)
  <2>1. \A x \in {e} \cup Waiting(q1, w1) : \E y \in {e} \cup Waiting(q, Nobody) : y <= x
    BY <1>5
  <2> QED BY <1>5, <2>1, Onward DEF First
<1>7. First(e, q, Nobody) <= w1
  BY <1>2, <1>5, FirstIs
<1>8. \A x \in Nat : Left(e, q, x) => Left(e, q1, x) /\ x # w1
  BY <1>1 DEF Left
<1>9. Left(e, q1, w1)
  BY <1>2, <1>3 DEF Left
<1> QED BY <1>2, <1>4, <1>6, <1>7, <1>8, <1>9 DEF Carries, q1, w1

LEMMA StepCarries ==
  ASSUME NEW e \in Nat, NEW q \in Seq(Cuts), NEW w \in Nat \cup {Nobody}, NEW cut \in SUBSET Cuts, QueueFits(e, q, w, cut), \A s \in cut : s.start < e,
         NEW e1 \in Nat, NEW q1, NEW w1, NEW cut1, Steps(e, q, w, cut, e1, q1, w1, cut1)
  PROVE  Carries(e, q, w, e1, q1, w1, cut1)
<1>1. CASE e <= e1 /\ q1 = q /\ cut1 = cut /\ w1 \in {w, Nobody}
  <2>1. QueueFits(e1, q, w1, cut)
    BY <1>1 DEF QueueFits
  <2>2. Waiting(q, w) \in SUBSET Nat /\ Waiting(q, w1) \in SUBSET Nat /\ Waiting(q, w1) \subseteq Waiting(q, w)
    BY <1>1, WaitingIs DEF Waiting
  <2>3. \A x \in {e1} \cup Waiting(q, w1) : \E y \in {e} \cup Waiting(q, w) : y <= x
    BY <1>1, <2>2
  <2>4. First(e, q, w) <= First(e1, q, w1)
    BY <2>2, <2>3, Onward DEF First
  <2>5. \A x \in Nat : Left(e, q, x) => Left(e1, q, x)
    BY <1>1 DEF Left
  <2> QED BY <1>1, <2>1, <2>4, <2>5 DEF Carries
<1>2. CASE w1 = w /\ \E s \in Cuts : s.start = e /\ e < e1 /\ q1 = Append(q, s) /\ cut1 = cut \cup {s}
  BY <1>2, CutCarries
<1>3. CASE q # <<>> /\ w = Nobody /\ e1 = e /\ q1 = Tail(q) /\ w1 = Head(q).start /\ cut1 = cut
  BY <1>3, PopCarries
<1> QED BY <1>1, <1>2, <1>3 DEF Steps

-----------------------------------------------------------------------------
(* The transcript: storing.                                                 *)
StoredFit(stored) == DOMAIN stored \in SUBSET StoredRows /\ stored \in [DOMAIN stored -> Nat \ {0}]

LEMMA StoredIs ==
  ASSUME NEW stored, StoredFit(stored), NEW some \in SUBSET StoredRows
  PROVE  /\ StoredFit(Stored(stored, some)) /\ DOMAIN Stored(stored, some) = DOMAIN stored \cup some
         /\ \A r \in DOMAIN stored \ some : Stored(stored, some)[r] = stored[r]
         /\ \A r \in some \ DOMAIN stored : Stored(stored, some)[r] = 1
<1> DEFINE after == Stored(stored, some)
<1>1. after = [r \in DOMAIN stored \cup some |-> (IF r \in DOMAIN stored THEN stored[r] ELSE 0) + (IF r \in some THEN 1 ELSE 0)]
  BY DEF Stored
<1>2. \A r \in DOMAIN stored : stored[r] \in Nat \ {0}
  BY DEF StoredFit
<1>3. DOMAIN after = DOMAIN stored \cup some
  BY <1>1
<1>4. ASSUME NEW r \in DOMAIN stored \cup some
      PROVE  /\ after[r] \in Nat \ {0} /\ (r \notin some => after[r] = stored[r]) /\ (r \notin DOMAIN stored => after[r] = 1)
  <2>1. after[r] = (IF r \in DOMAIN stored THEN stored[r] ELSE 0) + (IF r \in some THEN 1 ELSE 0)
    BY <1>1
  <2>2. CASE r \in DOMAIN stored
    BY <1>2, <2>1, <2>2
  <2>3. CASE r \notin DOMAIN stored
    BY <2>1, <2>3
  <2> QED BY <2>2, <2>3
<1>5. after \in [DOMAIN after -> Nat \ {0}]
  BY <1>1, <1>3, <1>4
<1> HIDE DEF after
<1>6. StoredFit(after)
  BY <1>3, <1>5 DEF StoredFit
<1> QED BY <1>3, <1>4, <1>6 DEF after

LEMMA RowIs ==
  ASSUME NEW m \in HeldRows
  PROVE  /\ Row(m) \in StoredRows /\ Row(m).channel = "mic" /\ Row(m).start = m.start /\ Row(m).end = m.end /\ Row(m).text = m.text
         /\ Row(m).why \in {"held long", "ending", "settled"} /\ (Row(m).why = "settled" => HeldLong(m) = FALSE /\ ~(ending # "no" /\ ~Settled(m)))
<1> DEFINE why == Why(m)
<1>1. why \in {"held long", "ending", "settled"} /\ (why = "settled" => ~HeldLong(m) /\ ~(ending # "no" /\ ~Settled(m)))
  BY DEF Why
<1>2. Row(m) = [channel |-> m.channel, start |-> m.start, end |-> m.end, text |-> m.text, why |-> why]
  BY DEF Row
<1>3. HeldLong(m) \in BOOLEAN
  BY DEF HeldLong
<1> HIDE DEF why
<1>4. m.channel = "mic" /\ m.start \in Nat /\ m.end \in Nat /\ m.text \in {"own", "echo"}
  BY DEF HeldRows
<1>5. Row(m) \in StoredRows
  <2>1. m.channel \in Channels /\ why \in Whys
    BY <1>1, <1>4 DEF Channels, Whys
  <2> QED BY <1>2, <1>4, <2>1 DEF StoredRows
<1>6. Row(m).channel = m.channel /\ Row(m).start = m.start /\ Row(m).end = m.end /\ Row(m).text = m.text /\ Row(m).why = why
  BY <1>2
<1>7. Row(m).why = "settled" => HeldLong(m) = FALSE /\ ~(ending # "no" /\ ~Settled(m))
  BY <1>1, <1>3, <1>6
<1> QED BY <1>1, <1>4, <1>5, <1>6, <1>7

\* Some of what waits is stored and some of it kept.
Releases(waiting, stored, some, after) ==
  /\ StoredFit(after) /\ Apart(after, Transcribed("system"))
  /\ \A r \in DOMAIN after : r \in DOMAIN stored \/ \E m \in some : m \in waiting /\ r.channel = "mic" /\ r.start = m.start
  /\ Once(waiting, stored) => Once({m \in waiting : ~Ready(m)}, after)

LEMMA ReleaseKeeps ==
  ASSUME NEW waiting \in SUBSET HeldRows, Distinct(waiting), NEW stored, StoredFit(stored), Apart(stored, Transcribed("system")),
         NEW some \in SUBSET Emitted(waiting, stored), NEW after, after = Stored(stored, {Row(m) : m \in some})
  PROVE  Releases(waiting, stored, some, after)
<1> DEFINE new == {Row(m) : m \in some}
<1>1. \A m \in some : m \in waiting /\ m \in HeldRows /\ Ready(m) /\ ~Duplicate(m, stored)
  BY DEF Emitted
<1>2. new \in SUBSET StoredRows
  <2> SUFFICES ASSUME NEW m \in some PROVE Row(m) \in StoredRows
    OBVIOUS
  <2> QED BY <1>1, RowIs
<1>0. after = Stored(stored, new) /\ \A r \in new : \E m \in some : r = Row(m)
  OBVIOUS
<1> HIDE DEF new
<1>3. /\ StoredFit(after) /\ DOMAIN after = DOMAIN stored \cup new
      /\ \A r \in DOMAIN stored \ new : after[r] = stored[r]
      /\ \A r \in new \ DOMAIN stored : after[r] = 1
  <2>2. /\ StoredFit(Stored(stored, new)) /\ DOMAIN Stored(stored, new) = DOMAIN stored \cup new
        /\ \A r \in DOMAIN stored \ new : Stored(stored, new)[r] = stored[r]
        /\ \A r \in new \ DOMAIN stored : Stored(stored, new)[r] = 1
    BY <1>2, StoredIs
  <2>3. StoredFit(after)
    BY <1>0, <2>2
  <2>4. DOMAIN after = DOMAIN stored \cup new
    BY <1>0, <2>2
  <2>5. \A r \in DOMAIN stored \ new : after[r] = stored[r]
    BY <1>0, <2>2
  <2>6. \A r \in new \ DOMAIN stored : after[r] = 1
    BY <1>0, <2>2
  <2> QED BY <2>3, <2>4, <2>5, <2>6
<1>4. ASSUME NEW m \in some
      PROVE  /\ m \in waiting /\ Row(m).channel = "mic" /\ Row(m).start = m.start /\ Row(m).end = m.end /\ Row(m).text = m.text
             /\ Row(m).why \in {"held long", "ending", "settled"} /\ (Row(m).why = "settled" => Settled(m))
  <2>1. /\ Row(m).channel = "mic" /\ Row(m).start = m.start /\ Row(m).end = m.end /\ Row(m).text = m.text
        /\ Row(m).why \in {"held long", "ending", "settled"}
        /\ Row(m).why = "settled" => ~HeldLong(m) /\ ~(ending # "no" /\ ~Settled(m))
    <3>1. m \in HeldRows
      BY <1>1
    <3>2. Row(m).why = "settled" => HeldLong(m) = FALSE /\ ~(ending # "no" /\ ~Settled(m))
      BY <3>1, RowIs
    <3> QED BY <3>1, <3>2, RowIs
  <2>2. Ready(m) /\ m \in waiting
    BY <1>1
  <2>3. Row(m).why = "settled" => Settled(m)
    BY <2>1, <2>2 DEF Ready
  <2> QED BY <2>1, <2>2, <2>3
<1>5. \A r \in new : \E m \in some : r = Row(m)
  BY <1>0
<1>6. \A r \in DOMAIN after : r \in DOMAIN stored \/ \E m \in some : m \in waiting /\ r.channel = "mic" /\ r.start = m.start
  <2> TAKE r \in DOMAIN after
  <2> SUFFICES ASSUME r \notin DOMAIN stored PROVE \E m \in some : m \in waiting /\ r.channel = "mic" /\ r.start = m.start
    OBVIOUS
  <2>1. PICK m \in some : r = Row(m)
    BY <1>3, <1>5
  <2> QED BY <1>4, <2>1
<1>7. Apart(after, Transcribed("system"))
  <2> SUFFICES ASSUME NEW r \in DOMAIN after, r.text = "echo", r.why \notin {"held long", "ending"}
               PROVE  r.end <= Transcribed("system") /\ \A s \in DOMAIN after : s.channel = "system" => ~Overlap(r, s)
    BY DEF Apart
  <2>1. \A s \in DOMAIN after : s.channel = "system" => s \in DOMAIN stored
    <3> TAKE s \in DOMAIN after
    <3>1. s \in new => s.channel = "mic"
      BY <1>4, <1>5
    <3> QED BY <1>3, <3>1
  <2>2. CASE r \in DOMAIN stored
    <3>1. r.end <= Transcribed("system") /\ \A s \in DOMAIN stored : s.channel = "system" => ~Overlap(r, s)
      BY <2>2 DEF Apart
    <3> QED BY <2>1, <3>1
  <2>3. CASE r \notin DOMAIN stored
    <3>1. PICK m \in some : r = Row(m)
      BY <1>3, <1>5, <2>3
    <3>2. Settled(m) /\ r.start = m.start /\ r.end = m.end /\ m.text = "echo"
      BY <1>4, <3>1
    <3>3. r.end <= Transcribed("system")
      <4>1. Transcribed("system") >= m.end
        BY <3>2 DEF Settled
      <4> QED BY <3>2, <4>1
    <3>4. \A s \in DOMAIN stored : s.channel = "system" => ~Overlap(m, s)
      BY <1>1, <3>2 DEF Duplicate
    <3>5. \A s : Overlap(r, s) <=> Overlap(m, s)
      BY <3>2 DEF Overlap
    <3> QED BY <2>1, <3>3, <3>4, <3>5
  <2> QED BY <2>2, <2>3
<1>8. ASSUME Once(waiting, stored) PROVE Once({m \in waiting : ~Ready(m)}, after)
  <2> DEFINE kept == {m \in waiting : ~Ready(m)}
  <2>1. \A r \in new : r \notin DOMAIN stored
    <3> SUFFICES ASSUME NEW m \in some, Row(m) \in DOMAIN stored PROVE FALSE
      BY <1>5
    <3> QED BY <1>4, <1>8 DEF Once
  <2>2. ASSUME NEW r \in DOMAIN after PROVE after[r] = 1 /\ \A m \in kept : r.channel = "mic" => m.start # r.start
    <3>1. CASE r \in DOMAIN stored
      <4>1. r \notin new
        BY <2>1, <3>1
      <4>2. after[r] = stored[r]
        BY <1>3, <3>1, <4>1
      <4>3. stored[r] = 1 /\ \A m \in waiting : r.channel = "mic" => m.start # r.start
        BY <1>8, <3>1 DEF Once
      <4> QED BY <4>2, <4>3
    <3>2. CASE r \notin DOMAIN stored
      <4>1. r \in new /\ after[r] = 1
        BY <1>3, <3>2
      <4>2. PICK n \in some : r = Row(n)
        BY <1>5, <4>1
      <4>3. n \in waiting /\ Ready(n) /\ r.start = n.start
        BY <1>1, <1>4, <4>2
      <4>4. \A m \in kept : m \in waiting /\ m # n
        BY <4>3
      <4>5. \A m \in kept : m.start # r.start
        BY <4>3, <4>4 DEF Distinct
      <4> QED BY <4>1, <4>5
    <3> QED BY <3>1, <3>2
  <2>3. ASSUME NEW r \in DOMAIN after, NEW s \in DOMAIN after, r.channel = s.channel, r.start = s.start
        PROVE  r = s
    <3>1. CASE r \in DOMAIN stored /\ s \in DOMAIN stored
      BY <1>8, <2>3, <3>1 DEF Once
    <3>2. ASSUME NEW x \in DOMAIN stored, NEW y \in new, x.channel = y.channel, x.start = y.start PROVE FALSE
      <4>1. PICK n \in some : y = Row(n)
        BY <1>5
      <4>2. n \in waiting /\ y.start = n.start /\ y.channel = "mic"
        BY <1>4, <4>1
      <4> QED BY <1>8, <3>2, <4>2 DEF Once
    <3>3. CASE r \in new /\ s \in new
      <4>1. PICK m \in some : r = Row(m)
        BY <1>5, <3>3
      <4>2. PICK n \in some : s = Row(n)
        BY <1>5, <3>3
      <4>3. m \in waiting /\ n \in waiting /\ m.start = n.start
        BY <1>4, <2>3, <4>1, <4>2
      <4>4. m = n
        BY <4>3 DEF Distinct
      <4> QED BY <4>1, <4>2, <4>4
    <3> QED BY <1>3, <2>3, <3>1, <3>2, <3>3
  <2> HIDE DEF kept
  <2>4. Once(kept, after)
    BY <2>2, <2>3 DEF Once
  <2> QED BY <2>4 DEF kept
<1> QED BY <1>3, <1>6, <1>7, <1>8 DEF Releases

\* What the rows and the segments held are, in a step that stores nothing.
RowsInv == HeldOnce /\ StoredOnce /\ EchoesApart
Forward(c) == Transcribed(c) <= Transcribed(c)' /\ Transcribed(c) \in Nat /\ Transcribed(c)' \in Nat
Leaves(c) == \A x \in Nat : Gone(c, x) => Gone(c, x)'

LEMMA ApartForward ==
  ASSUME NEW stored, StoredFit(stored), NEW n \in Nat, NEW m \in Nat, n <= m, Apart(stored, n)
  PROVE  Apart(stored, m)
<1>1. \A r \in DOMAIN stored : r.end \in Nat
  BY DEF StoredFit, StoredRows
<1>2. \A r \in DOMAIN stored : r.end <= n => r.end <= m
  BY <1>1
<1> QED BY <1>2 DEF Apart

LEMMA RowsStay ==
  ASSUME TranscriptTyped, RowsInv, UNCHANGED <<channels, held, rows>>, upset'["broken"] = 0 => upset["broken"] = 0,
         Leaves("mic"), Leaves("system"), Forward("system")
  PROVE  RowsInv'
<1>1. \A m \in held : m.start \in Nat
  BY DEF TranscriptTyped, HeldRows
<1>2. \A r \in DOMAIN rows : r.channel \in Channels /\ r.start \in Nat
  BY DEF TranscriptTyped, StoredRows
<1>3. HeldOnce'
  <2>1. \A m \in held : Gone("mic", m.start)'
    BY <1>1 DEF RowsInv, HeldOnce, Leaves
  <2> QED BY <2>1 DEF RowsInv, HeldOnce, Distinct
<1>4. StoredOnce'
  <2>1. \A r \in DOMAIN rows : Gone(r.channel, r.start)'
    <3> TAKE r \in DOMAIN rows
    <3>1. CASE r.channel = "mic"
      BY <1>2, <3>1 DEF RowsInv, StoredOnce, Leaves
    <3>2. CASE r.channel = "system"
      BY <1>2, <3>2 DEF RowsInv, StoredOnce, Leaves
    <3> QED BY <1>2, <3>1, <3>2 DEF Channels
  <2>2. \A r \in DOMAIN rows : r.channel \in channels
    BY DEF RowsInv, StoredOnce
  <2>3. upset["broken"] = 0 => Once(held, rows)
    BY DEF RowsInv, StoredOnce
  <2> QED BY <2>1, <2>2, <2>3 DEF StoredOnce
<1>5. EchoesApart'
  <2>1. StoredFit(rows) /\ Apart(rows, Transcribed("system"))
    BY DEF TranscriptTyped, StoredFit, RowsInv, EchoesApart
  <2> DEFINE n == Transcribed("system")
             m == Transcribed("system")'
  <2>2. n \in Nat /\ m \in Nat /\ n <= m /\ Apart(rows, n)
    BY <2>1 DEF Forward
  <2> HIDE DEF n, m
  <2>3. Apart(rows, m)
    BY <2>1, <2>2, ApartForward
  <2> QED BY <2>3 DEF EchoesApart, m
<1> QED BY <1>3, <1>4, <1>5 DEF RowsInv

\* In a step that releases what is ready of waiting, when stored is stored already.
LEMMA RowsReleased ==
  ASSUME TranscriptTyped, UNCHANGED channels, NEW waiting \in SUBSET HeldRows, Distinct(waiting), NEW stored, StoredFit(stored),
         \/ ReleaseHeld(waiting, stored) /\ UNCHANGED upset
         \/ ReleaseBreaks(waiting, stored),
         upset["broken"] = 0 => Once(waiting, stored),
         \A m \in waiting : Gone("mic", m.start)' /\ (m.text = "echo" => "system" \in channels),
         \A r \in DOMAIN stored : r.channel \in channels /\ Gone(r.channel, r.start)',
         Apart(stored, Transcribed("system")), Forward("system")
  PROVE  RowsInv' /\ held' \in SUBSET HeldRows /\ StoredFit(rows') /\ upset' \in [TranscriptEvents -> Nat]
<1>1. /\ held' \in SUBSET waiting /\ upset' \in [TranscriptEvents -> Nat]
      /\ upset'["broken"] = 0 => upset["broken"] = 0 /\ held' = {m \in waiting : ~Ready(m)}
      /\ \E some \in SUBSET Emitted(waiting, stored) : rows' = Stored(stored, {Row(m) : m \in some})
  <2>1. CASE ReleaseHeld(waiting, stored) /\ UNCHANGED upset
    BY <2>1 DEF ReleaseHeld, TranscriptTyped
  <2>2. CASE ReleaseBreaks(waiting, stored)
    <3>1. PICK failing \in Emitted(waiting, stored) :
            /\ Upsets("broken") /\ held' = waiting
            /\ rows' = Stored(stored, {Row(m) : m \in {n \in Emitted(waiting, stored) : n.start < failing.start}})
      BY <2>2 DEF ReleaseBreaks
    <3>2. upset \in [TranscriptEvents -> Nat] /\ "broken" \in TranscriptEvents /\ upset' = [upset EXCEPT !["broken"] = @ + 1]
      BY <3>1 DEF TranscriptTyped, TranscriptEvents, Upsets
    <3>3. upset' \in [TranscriptEvents -> Nat] /\ upset'["broken"] # 0
      BY <3>2
    <3>4. {n \in Emitted(waiting, stored) : n.start < failing.start} \in SUBSET Emitted(waiting, stored)
      OBVIOUS
    <3> QED BY <3>1, <3>3, <3>4
  <2> QED BY <2>1, <2>2
<1>2. PICK some \in SUBSET Emitted(waiting, stored) : rows' = Stored(stored, {Row(m) : m \in some})
  BY <1>1
<1>3. /\ StoredFit(rows') /\ Apart(rows', Transcribed("system"))
      /\ \A r \in DOMAIN rows' : r \in DOMAIN stored \/ \E m \in some : m \in waiting /\ r.channel = "mic" /\ r.start = m.start
      /\ Once(waiting, stored) => Once({m \in waiting : ~Ready(m)}, rows')
  <2> DEFINE after == rows'
  <2>1. after = Stored(stored, {Row(m) : m \in some})
    BY <1>2
  <2> HIDE DEF after
  <2>2. Releases(waiting, stored, some, after)
    BY <2>1, ReleaseKeeps
  <2> QED BY <2>2 DEF after, Releases
<1>4. HeldOnce'
  <2>1. Distinct(held')
    BY <1>1 DEF Distinct
  <2>2. \A m \in held' : Gone("mic", m.start)' /\ (m.text = "echo" => "system" \in channels')
    BY <1>1
  <2> QED BY <2>1, <2>2 DEF HeldOnce
<1>5. StoredOnce'
  <2>1. "mic" \in channels
    BY DEF TranscriptTyped
  <2>2. ASSUME NEW r \in DOMAIN rows' PROVE r.channel \in channels /\ Gone(r.channel, r.start)'
    <3>1. CASE r \in DOMAIN stored
      BY <3>1
    <3>2. ASSUME NEW m \in waiting, r.channel = "mic", r.start = m.start PROVE r.channel \in channels /\ Gone(r.channel, r.start)'
      BY <2>1, <3>2
    <3> QED BY <1>3, <3>1, <3>2
  <2>3. upset'["broken"] = 0 => Once(held', rows')
    BY <1>1, <1>3
  <2> QED BY <2>2, <2>3 DEF StoredOnce
<1>6. EchoesApart'
  <2> DEFINE n == Transcribed("system")
             m == Transcribed("system")'
             after == rows'
  <2>1. n \in Nat /\ m \in Nat /\ n <= m /\ Apart(after, n) /\ StoredFit(after)
    BY <1>3 DEF Forward
  <2> HIDE DEF n, m, after
  <2>2. Apart(after, m)
    BY <2>1, ApartForward
  <2> QED BY <2>2 DEF EchoesApart, m, after
<1>7. held' \in SUBSET HeldRows
  BY <1>1
<1> QED BY <1>1, <1>3, <1>4, <1>5, <1>6, <1>7 DEF RowsInv

-----------------------------------------------------------------------------
(* The transcript: the steps.                                               *)
ChannelSteps(c) ==
  Steps(Edge(heard[c], open[c]), queue[c], work[c], cuts[c], Edge(heard'[c], open'[c]), queue'[c], work'[c], cuts'[c])

LEMMA StreamIs ==
  ASSUME TranscriptTyped, SegmenterSound, NEW c \in Channels
  PROVE  /\ heard[c] \in Seq(BOOLEAN) /\ open[c] \in Opens /\ queue[c] \in Seq(Cuts) /\ work[c] \in Nat \cup {Nobody} /\ cuts[c] \in SUBSET Cuts
         /\ Edge(heard[c], open[c]) \in Nat /\ Edge(heard[c], open[c]) <= Len(heard[c])
         /\ \A s \in cuts[c] : s.start < Edge(heard[c], open[c])
<1>1. /\ heard[c] \in Seq(BOOLEAN) /\ open[c] \in Opens /\ queue[c] \in Seq(Cuts) /\ work[c] \in Nat \cup {Nobody} /\ cuts[c] \in SUBSET Cuts
  BY DEF TranscriptTyped
<1>2. OpenFits(heard[c], open[c]) /\ CutsFit(heard[c], open[c], cuts[c])
  BY DEF SegmenterSound, Segmented
<1>3. Edge(heard[c], open[c]) \in Nat /\ Edge(heard[c], open[c]) <= Len(heard[c])
  BY <1>1, <1>2, LeftOutIs
<1> QED BY <1>1, <1>2, <1>3 DEF CutsFit

LEMMA ChannelsCarry ==
  ASSUME TranscriptTyped, SegmenterSound, Queued, \A c \in Channels : ChannelSteps(c),
         \A c \in Channels : Edge(heard'[c], open'[c]) \in Nat, queue' \in [Channels -> Seq(Cuts)], work' \in [Channels -> Nat \cup {Nobody}]
  PROVE  Queued' /\ \A c \in Channels : Forward(c) /\ Leaves(c)
<1>1. ASSUME NEW c \in Channels
      PROVE  QueueFits(Edge(heard'[c], open'[c]), queue'[c], work'[c], cuts'[c]) /\ Forward(c) /\ Leaves(c)
  <2> DEFINE e == Edge(heard[c], open[c])
             q == queue[c]
             w == work[c]
             cut == cuts[c]
             e1 == Edge(heard'[c], open'[c])
             q1 == queue'[c]
             w1 == work'[c]
             cut1 == cuts'[c]
  <2>1. /\ e \in Nat /\ q \in Seq(Cuts) /\ w \in Nat \cup {Nobody} /\ cut \in SUBSET Cuts /\ \A s \in cut : s.start < e
    BY StreamIs
  <2>2. e1 \in Nat /\ q1 \in Seq(Cuts) /\ w1 \in Nat \cup {Nobody} /\ QueueFits(e, q, w, cut)
    BY DEF Queued
  <2>3. Steps(e, q, w, cut, e1, q1, w1, cut1)
    BY DEF ChannelSteps
  <2>4. Transcribed(c) = First(e, q, w) /\ Transcribed(c)' = First(e1, q1, w1)
    BY TranscribedIs
  <2>5. \A x \in Nat : (Gone(c, x) <=> Left(e, q, x)) /\ (Gone(c, x)' <=> Left(e1, q1, x))
    BY DEF Gone, Left
  <2> HIDE DEF e, q, w, cut, e1, q1, w1, cut1
  <2>6. Carries(e, q, w, e1, q1, w1, cut1)
    BY <2>1, <2>2, <2>3, StepCarries
  <2>7. First(e, q, w) \in Nat /\ First(e1, q1, w1) \in Nat
    BY <2>1, <2>2, FirstIs
  <2>8. Forward(c)
    BY <2>4, <2>6, <2>7 DEF Carries, Forward
  <2>9. Leaves(c)
    BY <2>5, <2>6 DEF Carries, Leaves
  <2> QED BY <2>6, <2>8, <2>9 DEF Carries, e1, q1, w1, cut1
<1> QED BY <1>1 DEF Queued

\* What the Segmenter cuts is appended to the queue.
Enqueues(h, o, g, p, more, q, w, cut, q1) ==
  Steps(Edge(h, o), q, w, cut, Edge(g, p), q1, w, cut \cup more) /\ q1 \in Seq(Cuts) /\ cut \cup more \in SUBSET Cuts

LEMMA AdvancedSteps ==
  ASSUME NEW h, NEW o, NEW g, NEW p, NEW more, Advanced(h, o, g, p, more),
         NEW q \in Seq(Cuts), NEW w, NEW cut \in SUBSET Cuts,
         NEW q1, q1 = IF more = {} THEN q ELSE Append(q, CHOOSE s \in more : TRUE)
  PROVE  Enqueues(h, o, g, p, more, q, w, cut, q1)
<1>1. CASE more = {}
  <2>1. q1 = q /\ cut \cup more = cut /\ Edge(h, o) <= Edge(g, p)
    BY <1>1 DEF Advanced
  <2> QED BY <2>1 DEF Steps, Enqueues
<1>2. ASSUME NEW s \in Cuts, more = {s}, s.start = Edge(h, o), s.start < Edge(g, p)
      PROVE  Enqueues(h, o, g, p, more, q, w, cut, q1)
  <2>1. q1 = Append(q, s)
    <3>1. (CHOOSE x \in more : TRUE) = s
      BY <1>2
    <3> QED BY <1>2, <3>1
  <2>2. q1 \in Seq(Cuts)
    <3>1. Append(q, s) \in Seq(Cuts)
      BY ONLY s \in Cuts, q \in Seq(Cuts), AppendIs
    <3> QED BY ONLY <2>1, <3>1
  <2>3. cut \cup more \in SUBSET Cuts
    BY <1>2
  <2>4. Steps(Edge(h, o), q, w, cut, Edge(g, p), q1, w, cut \cup more)
    <3>1. s.start = Edge(h, o) /\ Edge(h, o) < Edge(g, p) /\ q1 = Append(q, s) /\ cut \cup more = cut \cup {s}
      BY <1>2, <2>1
    <3> QED BY <1>2, <3>1 DEF Steps
  <2> QED BY <2>2, <2>3, <2>4 DEF Enqueues
<1> QED BY <1>1, <1>2 DEF Advanced

\* A frame.
LEMMA FeedKeeps ==
  ASSUME TranscriptInv, NEW c \in channels, Feed(c)
  PROVE  TranscriptInv' /\ \A d \in Channels : Forward(d)
<1>1. c \in Channels /\ TranscriptTyped /\ SegmenterSound /\ Queued /\ RowsInv /\ ending = "no"
  BY DEF TranscriptInv, TranscriptTyped, Channels, RowsInv, Feed
<1> DEFINE h == heard[c]
           o == open[c]
           q == queue[c]
           cut == cuts[c]
<1>2. PICK b \in BOOLEAN : /\ heard' = [heard EXCEPT ![c] = Append(h, b)] /\ open' = [open EXCEPT ![c] = Push(Append(h, b), o).open]
                           /\ queue' = [queue EXCEPT ![c] = Enqueued(c, Push(Append(h, b), o).cut)]
                           /\ cuts' = [cuts EXCEPT ![c] = cut \cup Push(Append(h, b), o).cut]
  BY DEF Feed
<1> DEFINE g == Append(h, b)
           p == Push(g, o)
<1>3. /\ h \in Seq(BOOLEAN) /\ o \in Opens /\ q \in Seq(Cuts) /\ cut \in SUBSET Cuts
      /\ Segmented(h, o, cut) /\ LostClosed(h, o, LeftOut(h, o, cut))
  BY <1>1, StreamIs DEF SegmenterSound
<1>4. g \in Seq(BOOLEAN) /\ g = Append(h, b) /\ p = Push(g, o)
  BY <1>3
<1>5. /\ heard' = [heard EXCEPT ![c] = g] /\ open' = [open EXCEPT ![c] = p.open]
      /\ queue' = [queue EXCEPT ![c] = Enqueued(c, p.cut)] /\ cuts' = [cuts EXCEPT ![c] = cut \cup p.cut]
  BY <1>2
<1> HIDE DEF g, p
<1>6. Segmented(g, p.open, cut \cup p.cut) /\ Advanced(h, o, g, p.open, p.cut) /\ LostClosed(g, p.open, LeftOut(g, p.open, cut \cup p.cut))
  <2> HIDE DEF h, o, cut
  <2> QED BY <1>3, <1>4, PushKeeps
<1> DEFINE q1 == Enqueued(c, p.cut)
<1>7. Steps(Edge(h, o), q, work[c], cut, Edge(g, p.open), q1, work[c], cut \cup p.cut) /\ q1 \in Seq(Cuts) /\ cut \cup p.cut \in SUBSET Cuts
  <2>1. q1 = IF p.cut = {} THEN q ELSE Append(q, CHOOSE s \in p.cut : TRUE)
    BY DEF Enqueued
  <2> HIDE DEF q1, h, o, q, cut
  <2>2. Enqueues(h, o, g, p.open, p.cut, q, work[c], cut, q1)
    BY <1>3, <1>6, <2>1, AdvancedSteps
  <2> QED BY <2>2 DEF Enqueues
<1> HIDE DEF q1
<1>8. p.open \in Opens /\ Edge(g, p.open) \in Nat
  <2>1. p.open \in Opens
    BY <1>6 DEF Advanced
  <2> QED BY <1>4, <2>1, LeftOutIs
<1>9. /\ heard \in [Channels -> Seq(BOOLEAN)] /\ open \in [Channels -> Opens] /\ queue \in [Channels -> Seq(Cuts)]
      /\ work \in [Channels -> Nat \cup {Nobody}] /\ cuts \in [Channels -> SUBSET Cuts]
  BY <1>1 DEF TranscriptTyped
<1>10. /\ heard' \in [Channels -> Seq(BOOLEAN)] /\ open' \in [Channels -> Opens] /\ queue' \in [Channels -> Seq(Cuts)] /\ cuts' \in [Channels -> SUBSET Cuts]
  <2>1. queue' = [queue EXCEPT ![c] = q1]
    BY <1>5 DEF q1
  <2> HIDE DEF h, o, q, cut
  <2> QED BY <1>1, <1>4, <1>5, <1>7, <1>8, <1>9, <2>1
<1>11. /\ heard'[c] = g /\ open'[c] = p.open /\ queue'[c] = q1 /\ cuts'[c] = cut \cup p.cut
       /\ \A d \in Channels \ {c} : heard'[d] = heard[d] /\ open'[d] = open[d] /\ queue'[d] = queue[d] /\ cuts'[d] = cuts[d]
  <2>1. queue' = [queue EXCEPT ![c] = q1]
    BY <1>5 DEF q1
  <2> HIDE DEF h, o, q, cut
  <2> QED BY <1>1, <1>5, <1>9, <2>1
<1>12. UNCHANGED <<channels, work, held, rows, ending, away, pending, upset>> /\ wake' \in {"no", "yes", "dead"}
  BY <1>1 DEF Feed, TranscriptTyped
<1>13. TranscriptTyped'
  BY <1>1, <1>10, <1>12 DEF TranscriptTyped
<1>14. \A d \in Channels : ChannelSteps(d) /\ Edge(heard'[d], open'[d]) \in Nat
  <2> TAKE d \in Channels
  <2>1. CASE d = c
    BY <1>7, <1>8, <1>11, <1>12, <2>1 DEF ChannelSteps
  <2>2. CASE d # c
    <3>1. heard'[d] = heard[d] /\ open'[d] = open[d] /\ queue'[d] = queue[d] /\ cuts'[d] = cuts[d] /\ work'[d] = work[d]
      BY <1>11, <1>12, <2>2
    <3>2. Edge(heard[d], open[d]) \in Nat
      BY <1>1, StreamIs
    <3> QED BY <3>1, <3>2 DEF ChannelSteps, Steps
  <2> QED BY <2>1, <2>2
<1>15. Queued' /\ \A d \in Channels : Forward(d) /\ Leaves(d)
  BY <1>1, <1>9, <1>10, <1>12, <1>14, ChannelsCarry
<1>16. RowsInv'
  BY <1>1, <1>12, <1>15, RowsStay DEF Channels
<1>17. SegmenterSound'
  <2> SUFFICES ASSUME NEW d \in Channels
               PROVE  /\ Segmented(heard'[d], open'[d], cuts'[d])
                      /\ ending' = "no" => LostClosed(heard'[d], open'[d], LeftOut(heard'[d], open'[d], cuts'[d]))
    BY DEF SegmenterSound
  <2>1. CASE d = c
    BY <1>6, <1>11, <2>1
  <2>2. CASE d # c
    <3>1. heard'[d] = heard[d] /\ open'[d] = open[d] /\ cuts'[d] = cuts[d] /\ ending' = ending
      BY <1>11, <1>12, <2>2
    <3> QED BY <1>1, <3>1 DEF SegmenterSound
  <2> QED BY <2>1, <2>2
<1> QED BY <1>13, <1>15, <1>16, <1>17 DEF TranscriptInv, RowsInv

\* The end of the stream.
LEMMA FinishKeeps ==
  ASSUME TranscriptInv, Finish
  PROVE  TranscriptInv' /\ \A d \in Channels : Forward(d)
<1>1. TranscriptTyped /\ SegmenterSound /\ Queued /\ RowsInv /\ ending = "no" /\ ending' = "join"
  BY DEF TranscriptInv, RowsInv, Finish
<1>2. UNCHANGED <<channels, heard, work, held, rows, wake, away, pending, upset>>
  BY DEF Finish
<1>3. ASSUME NEW c \in Channels
      PROVE  /\ open'[c] = NotOpen /\ queue'[c] = Enqueued(c, Flush(heard[c], open[c])) /\ cuts'[c] = cuts[c] \cup Flush(heard[c], open[c])
             /\ Segmented(heard[c], NotOpen, cuts'[c]) /\ queue'[c] \in Seq(Cuts) /\ cuts'[c] \in SUBSET Cuts /\ ChannelSteps(c)
             /\ Edge(heard'[c], open'[c]) \in Nat
  <2> DEFINE h == heard[c]
             o == open[c]
             q == queue[c]
             cut == cuts[c]
             more == Flush(h, o)
             q1 == Enqueued(c, more)
  <2>1. open'[c] = NotOpen /\ queue'[c] = q1 /\ cuts'[c] = cut \cup more /\ heard'[c] = h /\ work'[c] = work[c]
    BY <1>2 DEF Finish
  <2>2. /\ h \in Seq(BOOLEAN) /\ o \in Opens /\ q \in Seq(Cuts) /\ cut \in SUBSET Cuts
        /\ Segmented(h, o, cut) /\ LostClosed(h, o, LeftOut(h, o, cut))
    BY <1>1, StreamIs DEF SegmenterSound
  <2>3. more = Flush(h, o) /\ q1 = IF more = {} THEN q ELSE Append(q, CHOOSE s \in more : TRUE)
    BY DEF Enqueued
  <2> HIDE DEF more, q1
  <2>4. Segmented(h, NotOpen, cut \cup more) /\ Advanced(h, o, h, NotOpen, more)
    <3> HIDE DEF h, o, cut
    <3> QED BY <2>2, <2>3, FlushKeeps
  <2>5. Steps(Edge(h, o), q, work[c], cut, Edge(h, NotOpen), q1, work[c], cut \cup more) /\ q1 \in Seq(Cuts) /\ cut \cup more \in SUBSET Cuts
    <3> HIDE DEF h, o, q, cut
    <3>1. Enqueues(h, o, h, NotOpen, more, q, work[c], cut, q1)
      BY <2>2, <2>3, <2>4, AdvancedSteps
    <3> QED BY <3>1 DEF Enqueues
  <2>6. Edge(h, NotOpen) \in Nat
    BY <2>2, OpensAre, LeftOutIs
  <2>7. ChannelSteps(c)
    BY <2>1, <2>5 DEF ChannelSteps
  <2>8. Edge(heard'[c], open'[c]) \in Nat
    BY <2>1, <2>6
  <2> QED BY <2>1, <2>4, <2>5, <2>7, <2>8 DEF more, q1
<1>4. /\ open' \in [Channels -> Opens] /\ queue' \in [Channels -> Seq(Cuts)] /\ cuts' \in [Channels -> SUBSET Cuts]
  <2>1. open' = [c \in Channels |-> NotOpen] /\ queue' = [c \in Channels |-> queue'[c]] /\ cuts' = [c \in Channels |-> cuts'[c]]
    BY DEF Finish
  <2>2. open' \in [Channels -> Opens]
    BY <2>1, OpensAre
  <2>3. queue' \in [Channels -> Seq(Cuts)] /\ cuts' \in [Channels -> SUBSET Cuts]
    BY <1>3, <2>1
  <2> QED BY <2>2, <2>3
<1>5. TranscriptTyped'
  BY <1>1, <1>2, <1>4 DEF TranscriptTyped
<1>6. work' \in [Channels -> Nat \cup {Nobody}]
  BY <1>1, <1>2 DEF TranscriptTyped
<1>7. Queued' /\ \A d \in Channels : Forward(d) /\ Leaves(d)
  BY <1>1, <1>3, <1>4, <1>6, ChannelsCarry
<1>8. RowsInv'
  BY <1>1, <1>2, <1>7, RowsStay DEF Channels
<1>9. SegmenterSound'
  BY <1>1, <1>2, <1>3 DEF SegmenterSound
<1> QED BY <1>5, <1>7, <1>8, <1>9 DEF TranscriptInv, RowsInv

LEMMA SegmenterStays ==
  ASSUME SegmenterSound, UNCHANGED <<heard, open, cuts>>, ending' = "no" => ending = "no"
  PROVE  SegmenterSound'
  BY DEF SegmenterSound

\* A worker takes the first segment of its queue.
LEMMA PopsIs ==
  ASSUME TranscriptInv, NEW c \in Channels, Pops(c), UNCHANGED <<heard, open, cuts>>, NEW hd, hd = Head(queue[c])
  PROVE  /\ queue' \in [Channels -> Seq(Cuts)] /\ work' \in [Channels -> Nat \cup {Nobody}]
         /\ Queued' /\ \A d \in Channels : Forward(d) /\ Leaves(d)
         /\ hd \in Cuts /\ Gone(c, hd.start)' /\ Transcribed(c) <= hd.start /\ \A x \in Nat : Gone(c, x) => x # hd.start
<1> DEFINE e == Edge(heard[c], open[c])
           q == queue[c]
           cut == cuts[c]
<1>1. /\ TranscriptTyped /\ SegmenterSound /\ Queued
      /\ q \in Seq(Cuts) /\ q # <<>> /\ work[c] = Nobody /\ e \in Nat /\ cut \in SUBSET Cuts /\ \A s \in cut : s.start < e
  BY StreamIs DEF TranscriptInv, Pops
<1>2. QueueFits(e, q, Nobody, cut)
  BY <1>1 DEF Queued
<1>3. /\ Carries(e, q, Nobody, e, Tail(q), Head(q).start, cut)
      /\ Left(e, Tail(q), Head(q).start) /\ First(e, q, Nobody) <= Head(q).start /\ Head(q) \in cut
      /\ \A x \in Nat : Left(e, q, x) => x # Head(q).start
  <2> HIDE DEF e, q, cut
  <2> QED BY <1>1, <1>2, PopCarries
<1>4. queue' = [queue EXCEPT ![c] = Tail(q)] /\ work' = [work EXCEPT ![c] = Head(q).start]
  BY DEF Pops
<1>5. Tail(q) \in Seq(Cuts) /\ hd \in Cuts /\ hd.start \in Nat /\ hd = Head(q)
  BY <1>1, QueueTailIs DEF Cuts
<1>6. queue' \in [Channels -> Seq(Cuts)] /\ work' \in [Channels -> Nat \cup {Nobody}]
  <2>1. queue \in [Channels -> Seq(Cuts)] /\ work \in [Channels -> Nat \cup {Nobody}]
    BY <1>1 DEF TranscriptTyped
  <2> HIDE DEF q
  <2> QED BY <1>4, <1>5, <2>1
<1>7. queue'[c] = Tail(q) /\ work'[c] = Head(q).start /\ \A d \in Channels \ {c} : queue'[d] = queue[d] /\ work'[d] = work[d]
  <2>1. queue \in [Channels -> Seq(Cuts)] /\ work \in [Channels -> Nat \cup {Nobody}]
    BY <1>1 DEF TranscriptTyped
  <2> HIDE DEF q
  <2> QED BY <1>4, <2>1
<1>8. \A d \in Channels : ChannelSteps(d) /\ Edge(heard'[d], open'[d]) \in Nat
  <2> TAKE d \in Channels
  <2>1. Edge(heard'[d], open'[d]) = Edge(heard[d], open[d]) /\ Edge(heard[d], open[d]) \in Nat /\ cuts'[d] = cuts[d]
    BY <1>1, StreamIs
  <2>2. CASE d = c
    <3>1. Steps(e, q, work[c], cut, e, Tail(q), Head(q).start, cut)
      BY <1>1 DEF Steps
    <3> QED BY <1>7, <2>1, <2>2, <3>1 DEF ChannelSteps
  <2>3. CASE d # c
    <3>1. queue'[d] = queue[d] /\ work'[d] = work[d]
      BY <1>7, <2>3
    <3> QED BY <2>1, <3>1 DEF ChannelSteps, Steps
  <2> QED BY <2>2, <2>3
<1>9. Queued' /\ \A d \in Channels : Forward(d) /\ Leaves(d)
  BY <1>1, <1>6, <1>8, ChannelsCarry
<1>10. Gone(c, hd.start)'
  BY <1>3, <1>5, <1>7 DEF Gone, Left
<1>11. Transcribed(c) <= hd.start
  BY <1>1, <1>3, <1>5, TranscribedIs
<1>12. \A x \in Nat : Gone(c, x) => x # hd.start
  BY <1>3, <1>5 DEF Gone
<1> QED BY <1>5, <1>6, <1>9, <1>10, <1>11, <1>12

\* A segment with nothing in it, or whose transcription has to wait.
LEMMA NothingKeeps ==
  ASSUME TranscriptInv, NEW c \in channels, HearNothing(c) \/ KeepForLater(c)
  PROVE  TranscriptInv' /\ \A d \in Channels : Forward(d)
<1>1. c \in Channels /\ TranscriptTyped /\ SegmenterSound /\ RowsInv
  BY DEF TranscriptInv, TranscriptTyped, Channels, RowsInv
<1>2. Pops(c) /\ UNCHANGED <<channels, heard, open, held, rows, ending, wake, cuts>>
  BY DEF HearNothing, KeepForLater
<1>3. upset' \in [TranscriptEvents -> Nat] /\ upset'["broken"] = upset["broken"] /\ {away', pending'} \subseteq BOOLEAN
  <2>1. upset \in [TranscriptEvents -> Nat] /\ {away, pending} \subseteq BOOLEAN /\ TranscriptEvents = {"away", "broken"}
    BY <1>1 DEF TranscriptTyped, TranscriptEvents
  <2>2. CASE HearNothing(c)
    BY <2>1, <2>2 DEF HearNothing
  <2>3. CASE KeepForLater(c)
    <3>1. upset' = [upset EXCEPT !["away"] = @ + 1] /\ away' = TRUE /\ pending' = (pending \/ ~away)
      BY <2>3 DEF KeepForLater, Upsets
    <3>2. upset' \in [TranscriptEvents -> Nat] /\ upset'["broken"] = upset["broken"]
      BY <2>1, <3>1
    <3> QED BY <3>1, <3>2
  <2> QED BY <2>2, <2>3
<1>4. /\ queue' \in [Channels -> Seq(Cuts)] /\ work' \in [Channels -> Nat \cup {Nobody}]
      /\ Queued' /\ \A d \in Channels : Forward(d) /\ Leaves(d)
  BY <1>1, <1>2, PopsIs
<1>5. TranscriptTyped'
  BY <1>1, <1>2, <1>3, <1>4 DEF TranscriptTyped
<1>6. SegmenterSound'
  BY <1>1, <1>2, SegmenterStays
<1>7. RowsInv'
  BY <1>1, <1>2, <1>3, <1>4, RowsStay DEF Channels
<1> QED BY <1>4, <1>5, <1>6, <1>7 DEF TranscriptInv, RowsInv

LEMMA ProcessKeeps ==
  ASSUME TranscriptInv, NEW c \in channels, Process(c)
  PROVE  TranscriptInv' /\ \A d \in Channels : Forward(d)
<1>1. c \in Channels /\ TranscriptTyped /\ SegmenterSound /\ RowsInv /\ channels \subseteq Channels /\ "mic" \in channels
  BY DEF TranscriptInv, TranscriptTyped, Channels, RowsInv
<1>2. Pops(c) /\ away' = FALSE /\ UNCHANGED <<channels, heard, open, ending, wake, pending, cuts>>
  BY DEF Process
<1>0. PICK hd : hd = Head(queue[c])
  OBVIOUS
<1>3. /\ queue' \in [Channels -> Seq(Cuts)] /\ work' \in [Channels -> Nat \cup {Nobody}]
      /\ Queued' /\ \A d \in Channels : Forward(d) /\ Leaves(d)
      /\ hd \in Cuts /\ Gone(c, hd.start)' /\ Transcribed(c) <= hd.start /\ \A x \in Nat : Gone(c, x) => x # hd.start
  BY <1>0, <1>1, <1>2, PopsIs
<1>4. PICK text \in {"own", "echo"} :
        LET m == [channel |-> c, start |-> hd.start, end |-> hd.end, text |-> text]
            first == [channel |-> c, start |-> m.start, end |-> m.end, text |-> text, why |-> "at once"]
        IN  /\ (text = "echo") => "system" \in channels /\ c = "mic"
            /\ IF c = "system" \/ "system" \notin channels
               THEN \/ ReleaseHeld(held, Stored(rows, {first})) /\ UNCHANGED upset
                    \/ Upsets("broken") /\ UNCHANGED <<rows, held>>
                    \/ ReleaseBreaks(held, Stored(rows, {first}))
               ELSE \/ ReleaseHeld(held \cup {m}, rows) /\ UNCHANGED upset
                    \/ ReleaseBreaks(held \cup {m}, rows)
  BY <1>0 DEF Process
<1>m. PICK m : m = [channel |-> c, start |-> hd.start, end |-> hd.end, text |-> text]
  OBVIOUS
<1>f. PICK first : first = [channel |-> c, start |-> hd.start, end |-> hd.end, text |-> text, why |-> "at once"]
  OBVIOUS
<1>5. /\ (text = "echo") => "system" \in channels /\ c = "mic"
      /\ IF c = "system" \/ "system" \notin channels
         THEN \/ ReleaseHeld(held, Stored(rows, {first})) /\ UNCHANGED upset
              \/ Upsets("broken") /\ UNCHANGED <<rows, held>>
              \/ ReleaseBreaks(held, Stored(rows, {first}))
         ELSE \/ ReleaseHeld(held \cup {m}, rows) /\ UNCHANGED upset
              \/ ReleaseBreaks(held \cup {m}, rows)
  BY <1>4, <1>m, <1>f
<1>6. /\ m.channel = c /\ m.start = hd.start /\ m.text = text /\ first.channel = c /\ first.start = hd.start /\ first.text = text
      /\ hd.start \in Nat /\ hd.end \in Nat
  BY <1>3, <1>m, <1>f DEF Cuts
<1>7. first \in StoredRows /\ (c = "mic" => m \in HeldRows)
  <2>1. "at once" \in Whys /\ text \in {"own", "echo"}
    BY DEF Whys
  <2>2. first \in StoredRows
    BY <1>1, <1>6, <1>f, <2>1 DEF StoredRows
  <2>3. c = "mic" => m \in HeldRows
    BY <1>6, <1>m DEF HeldRows
  <2> QED BY <2>2, <2>3
<1>8. StoredFit(rows) /\ held \in SUBSET HeldRows /\ Distinct(held) /\ Apart(rows, Transcribed("system")) /\ upset \in [TranscriptEvents -> Nat]
  BY <1>1 DEF TranscriptTyped, StoredFit, RowsInv, HeldOnce, EchoesApart
<1>9. ASSUME NEW n \in held
      PROVE  n.start \in Nat /\ n.channel = "mic" /\ Gone("mic", n.start) /\ Gone("mic", n.start)' /\ (n.text = "echo" => "system" \in channels) /\ (c = "mic" => n.start # hd.start)
  <2>1. n.start \in Nat /\ n.channel = "mic" /\ Gone("mic", n.start) /\ (n.text = "echo" => "system" \in channels)
    BY <1>1, <1>8 DEF HeldRows, RowsInv, HeldOnce
  <2>2. Leaves("mic")
    BY <1>3 DEF Channels
  <2> QED BY <1>3, <2>1, <2>2 DEF Leaves
<1>10. ASSUME NEW r \in DOMAIN rows
       PROVE  r.channel \in channels /\ r.start \in Nat /\ r.end \in Nat /\ Gone(r.channel, r.start)' /\ (r.channel = c => r.start # hd.start)
  <2>1. r.start \in Nat /\ r.end \in Nat /\ r.channel \in channels /\ Gone(r.channel, r.start)
    BY <1>1, <1>8 DEF StoredFit, StoredRows, RowsInv, StoredOnce
  <2>2. Leaves(r.channel)
    BY <1>1, <1>3, <2>1
  <2> QED BY <1>3, <2>1, <2>2 DEF Leaves
<1>11. upset["broken"] = 0 => Once(held, rows)
  BY <1>1 DEF RowsInv, StoredOnce
<1>12. "system" \in Channels /\ Forward("system") /\ Transcribed("system") \in Nat
  BY <1>3 DEF Channels, Forward
<1>13. RowsInv' /\ held' \in SUBSET HeldRows /\ StoredFit(rows') /\ upset' \in [TranscriptEvents -> Nat]
  <2>1. CASE c = "system" \/ "system" \notin channels
    <3>1. CASE Upsets("broken") /\ UNCHANGED <<rows, held>>
      <4>1. upset' = [upset EXCEPT !["broken"] = @ + 1] /\ "broken" \in TranscriptEvents
        BY <3>1 DEF Upsets, TranscriptEvents
      <4>2. upset' \in [TranscriptEvents -> Nat] /\ upset'["broken"] # 0
        BY <1>8, <4>1
      <4>3. RowsInv'
        BY <1>1, <1>2, <1>3, <3>1, <4>2, RowsStay DEF Channels
      <4> QED BY <1>8, <3>1, <4>2, <4>3
    <3>2. CASE (ReleaseHeld(held, Stored(rows, {first})) /\ UNCHANGED upset) \/ ReleaseBreaks(held, Stored(rows, {first}))
      <4> DEFINE stored == Stored(rows, {first})
      <4>1. first \notin DOMAIN rows
        BY <1>6, <1>10
      <4>2. /\ StoredFit(stored) /\ DOMAIN stored = DOMAIN rows \cup {first} /\ stored[first] = 1
            /\ \A r \in DOMAIN rows : stored[r] = rows[r]
        <5>1. {first} \in SUBSET StoredRows
          BY <1>7
        <5>2. /\ StoredFit(Stored(rows, {first})) /\ DOMAIN Stored(rows, {first}) = DOMAIN rows \cup {first}
              /\ \A r \in DOMAIN rows \ {first} : Stored(rows, {first})[r] = rows[r]
              /\ \A r \in {first} \ DOMAIN rows : Stored(rows, {first})[r] = 1
          BY <1>8, <5>1, StoredIs
        <5> QED BY <4>1, <5>2
      <4> HIDE DEF stored
      <4>3. upset["broken"] = 0 => Once(held, stored)
        <5> SUFFICES ASSUME Once(held, rows) PROVE Once(held, stored)
          BY <1>11
        <5>1. ASSUME NEW r \in DOMAIN stored PROVE stored[r] = 1 /\ \A n \in held : r.channel = "mic" => n.start # r.start
          <6>1. CASE r \in DOMAIN rows
            BY <4>2, <6>1 DEF Once
          <6>2. CASE r = first
            BY <1>6, <1>9, <4>2, <6>2
          <6> QED BY <4>2, <6>1, <6>2
        <5>2. ASSUME NEW r \in DOMAIN stored, NEW s \in DOMAIN stored, r.channel = s.channel, r.start = s.start PROVE r = s
          <6>1. CASE r \in DOMAIN rows /\ s \in DOMAIN rows
            BY <5>2, <6>1 DEF Once
          <6>2. CASE r = first /\ s \in DOMAIN rows
            BY <1>6, <1>10, <5>2, <6>2
          <6>3. CASE r \in DOMAIN rows /\ s = first
            BY <1>6, <1>10, <5>2, <6>3
          <6> QED BY <4>2, <6>1, <6>2, <6>3
        <5> QED BY <5>1, <5>2 DEF Once
      <4>4. \A r \in DOMAIN stored : r.channel \in channels /\ Gone(r.channel, r.start)'
        <5> TAKE r \in DOMAIN stored
        <5>1. CASE r \in DOMAIN rows
          BY <1>10, <5>1
        <5>2. CASE r = first
          BY <1>3, <1>6, <5>2
        <5> QED BY <4>2, <5>1, <5>2
      <4>5. Apart(stored, Transcribed("system"))
        <5> SUFFICES ASSUME NEW r \in DOMAIN stored, r.text = "echo", r.why \notin {"held long", "ending"}
                     PROVE  r.end <= Transcribed("system") /\ \A s \in DOMAIN stored : s.channel = "system" => ~Overlap(r, s)
          BY DEF Apart
        <5>1. r # first
          BY <1>5, <1>6, <2>1
        <5>2. r \in DOMAIN rows
          BY <4>2, <5>1
        <5>3. r.end <= Transcribed("system") /\ \A s \in DOMAIN rows : s.channel = "system" => ~Overlap(r, s)
          BY <1>8, <5>2 DEF Apart
        <5>4. first.channel = "system" => ~Overlap(r, first)
          <6> SUFFICES ASSUME c = "system" PROVE ~(first.start < r.end)
            BY <1>6 DEF Overlap
          <6>1. Transcribed("system") <= hd.start
            BY <1>3
          <6> DEFINE n == Transcribed("system")
          <6>2. n \in Nat /\ n <= hd.start /\ r.end <= n /\ r.end \in Nat /\ hd.start \in Nat /\ first.start = hd.start
            BY <1>6, <1>10, <1>12, <5>2, <5>3, <6>1
          <6> HIDE DEF n
          <6>3. ~(hd.start < r.end)
            BY ONLY <6>2
          <6>4. first.start = hd.start
            BY <6>2
          <6> QED BY ONLY <6>3, <6>4
        <5> QED BY <4>2, <5>3, <5>4
      <4>6. \/ ReleaseHeld(held, stored) /\ UNCHANGED upset
            \/ ReleaseBreaks(held, stored)
        BY <3>2 DEF stored
      <4>7. \A n \in held : Gone("mic", n.start)' /\ (n.text = "echo" => "system" \in channels)
        BY <1>9
      <4> QED BY <1>1, <1>2, <1>8, <1>12, <4>2, <4>3, <4>4, <4>5, <4>6, <4>7, RowsReleased
    <3> QED BY <1>5, <2>1, <3>1, <3>2
  <2>2. CASE c # "system" /\ "system" \in channels
    <3> DEFINE waiting == held \cup {m}
    <3>1. c = "mic" /\ m \in HeldRows /\ waiting \in SUBSET HeldRows
      BY <1>1, <1>7, <1>8, <2>2 DEF Channels
    <3>2. Distinct(waiting)
      <4> SUFFICES ASSUME NEW a \in waiting, NEW b \in waiting, a.start = b.start PROVE a = b
        BY DEF Distinct
      <4>1. \A n \in held : n.start # m.start
        BY <1>6, <1>9, <3>1
      <4>2. CASE a \in held /\ b \in held
        BY <1>8, <4>2 DEF Distinct
      <4> QED BY <4>1, <4>2
    <3>3. upset["broken"] = 0 => Once(waiting, rows)
      <4> SUFFICES ASSUME Once(held, rows) PROVE Once(waiting, rows)
        BY <1>11
      <4>1. \A r \in DOMAIN rows : rows[r] = 1 /\ \A n \in waiting : r.channel = "mic" => n.start # r.start
        BY <1>6, <1>10, <3>1 DEF Once
      <4> QED BY <4>1 DEF Once
    <3>4. \A n \in waiting : Gone("mic", n.start)' /\ (n.text = "echo" => "system" \in channels)
      <4> TAKE n \in waiting
      <4>1. CASE n \in held
        BY <1>9, <4>1
      <4>2. CASE n = m
        BY <1>3, <1>6, <2>2, <3>1, <4>2
      <4> QED BY <4>1, <4>2
    <3>5. \A r \in DOMAIN rows : r.channel \in channels /\ Gone(r.channel, r.start)'
      BY <1>10
    <3>6. \/ ReleaseHeld(waiting, rows) /\ UNCHANGED upset
          \/ ReleaseBreaks(waiting, rows)
      BY <1>5, <2>2
    <3> HIDE DEF waiting
    <3> QED BY <1>1, <1>2, <1>8, <1>12, <3>1, <3>2, <3>3, <3>4, <3>5, <3>6, RowsReleased
  <2> QED BY <2>1, <2>2
<1>14. TranscriptTyped'
  BY <1>1, <1>2, <1>3, <1>13 DEF TranscriptTyped, StoredFit
<1>15. SegmenterSound'
  BY <1>1, <1>2, SegmenterStays
<1> QED BY <1>3, <1>13, <1>14, <1>15 DEF TranscriptInv, RowsInv

\* A worker has done with a segment.
LEMMA DiscardKeeps ==
  ASSUME TranscriptInv, NEW c \in channels, Discard(c)
  PROVE  TranscriptInv' /\ \A d \in Channels : Forward(d)
<1>1. /\ c \in Channels /\ TranscriptTyped /\ SegmenterSound /\ Queued /\ RowsInv
      /\ work' = [work EXCEPT ![c] = Nobody] /\ wake' \in {"no", "yes", "dead"}
      /\ UNCHANGED <<channels, heard, open, queue, held, rows, ending, away, pending, cuts, upset>>
  BY DEF TranscriptInv, TranscriptTyped, Channels, RowsInv, Discard
<1>2. work \in [Channels -> Nat \cup {Nobody}] /\ queue \in [Channels -> Seq(Cuts)]
  BY <1>1 DEF TranscriptTyped
<1>3. work' \in [Channels -> Nat \cup {Nobody}] /\ queue' \in [Channels -> Seq(Cuts)] /\ \A d \in Channels : work'[d] \in {work[d], Nobody}
  BY <1>1, <1>2
<1>4. \A d \in Channels : ChannelSteps(d) /\ Edge(heard'[d], open'[d]) \in Nat
  <2> TAKE d \in Channels
  <2>1. Edge(heard[d], open[d]) \in Nat
    BY <1>1, StreamIs
  <2> QED BY <1>1, <1>3, <2>1 DEF ChannelSteps, Steps
<1>5. Queued' /\ \A d \in Channels : Forward(d) /\ Leaves(d)
  BY <1>1, <1>3, <1>4, ChannelsCarry
<1>6. RowsInv'
  BY <1>1, <1>5, RowsStay DEF Channels
<1>7. TranscriptTyped'
  BY <1>1, <1>3 DEF TranscriptTyped
<1>8. SegmenterSound'
  BY <1>1, SegmenterStays
<1> QED BY <1>5, <1>6, <1>7, <1>8 DEF TranscriptInv, RowsInv

\* What is held is released, by the releaser or at the end.
LEMMA ReleaserKeeps ==
  ASSUME TranscriptInv, Releaser \/ FinishRelease
  PROVE  TranscriptInv' /\ \A d \in Channels : Forward(d)
<1>1. TranscriptTyped /\ SegmenterSound /\ Queued /\ RowsInv
  BY DEF TranscriptInv, RowsInv
<1>2. /\ UNCHANGED <<channels, heard, open, queue, work, away, pending, cuts>> /\ wake' \in {"no", "yes", "dead"}
      /\ ending' \in {"no", "join", "over"} /\ (ending' = "no" => ending = "no")
      /\ (ReleaseHeld(held, rows) /\ UNCHANGED upset) \/ ReleaseBreaks(held, rows)
  BY <1>1 DEF Releaser, FinishRelease, TranscriptTyped
<1>3. work' \in [Channels -> Nat \cup {Nobody}] /\ queue' \in [Channels -> Seq(Cuts)]
  BY <1>1, <1>2 DEF TranscriptTyped
<1>4. \A d \in Channels : ChannelSteps(d) /\ Edge(heard'[d], open'[d]) \in Nat
  <2> TAKE d \in Channels
  <2>1. Edge(heard[d], open[d]) \in Nat
    BY <1>1, StreamIs
  <2> QED BY <1>2, <2>1 DEF ChannelSteps, Steps
<1>5. Queued' /\ \A d \in Channels : Forward(d) /\ Leaves(d)
  BY <1>1, <1>3, <1>4, ChannelsCarry
<1>6. /\ StoredFit(rows) /\ held \in SUBSET HeldRows /\ Distinct(held) /\ Apart(rows, Transcribed("system"))
      /\ upset["broken"] = 0 => Once(held, rows)
  BY <1>1 DEF TranscriptTyped, StoredFit, RowsInv, HeldOnce, StoredOnce, EchoesApart
<1>7. \A n \in held : Gone("mic", n.start)' /\ (n.text = "echo" => "system" \in channels)
  <2> TAKE n \in held
  <2>1. n.start \in Nat /\ Gone("mic", n.start) /\ (n.text = "echo" => "system" \in channels)
    BY <1>1, <1>6 DEF HeldRows, RowsInv, HeldOnce
  <2>2. Leaves("mic")
    BY <1>5 DEF Channels
  <2> QED BY <2>1, <2>2 DEF Leaves
<1>8. \A r \in DOMAIN rows : r.channel \in channels /\ Gone(r.channel, r.start)'
  <2> TAKE r \in DOMAIN rows
  <2>1. r.start \in Nat /\ r.channel \in Channels /\ r.channel \in channels /\ Gone(r.channel, r.start)
    BY <1>1, <1>6 DEF StoredFit, StoredRows, RowsInv, StoredOnce
  <2>2. Leaves(r.channel)
    BY <1>5, <2>1
  <2> QED BY <2>1, <2>2 DEF Leaves
<1>9. Forward("system")
  BY <1>5 DEF Channels
<1>10. RowsInv' /\ held' \in SUBSET HeldRows /\ StoredFit(rows') /\ upset' \in [TranscriptEvents -> Nat]
  BY <1>1, <1>2, <1>6, <1>7, <1>8, <1>9, RowsReleased
<1>11. TranscriptTyped'
  BY <1>1, <1>2, <1>10 DEF TranscriptTyped, StoredFit
<1>12. SegmenterSound'
  BY <1>1, <1>2, SegmenterStays
<1> QED BY <1>5, <1>10, <1>11, <1>12 DEF TranscriptInv, RowsInv

-----------------------------------------------------------------------------
(* The transcript: the theorems.                                            *)
LEMMA TranscriptStarts ==
  ASSUME TranscriptInit
  PROVE  TranscriptInv
<1>1. /\ channels \in {{"mic"}, {"mic", "system"}} /\ held = {} /\ rows = <<>> /\ DOMAIN rows = {} /\ ending = "no" /\ wake = "no" /\ away = FALSE /\ pending = FALSE
  BY DEF TranscriptInit
<1>2. ASSUME NEW c \in Channels
      PROVE  heard[c] = <<>> /\ open[c] = NotOpen /\ queue[c] = <<>> /\ work[c] = Nobody /\ cuts[c] = {}
  BY DEF TranscriptInit
<1>3. TranscriptTyped
  <2>1. heard \in [Channels -> Seq(BOOLEAN)] /\ queue \in [Channels -> Seq(Cuts)] /\ cuts \in [Channels -> SUBSET Cuts]
    <3>1. <<>> \in Seq(BOOLEAN) /\ <<>> \in Seq(Cuts) /\ {} \in SUBSET Cuts
      OBVIOUS
    <3> HIDE DEF Cuts
    <3> QED BY <3>1 DEF TranscriptInit
  <2>2. open \in [Channels -> Opens] /\ work \in [Channels -> Nat \cup {Nobody}] /\ upset \in [TranscriptEvents -> Nat]
    BY OpensAre DEF TranscriptInit
  <2>3. rows \in [DOMAIN rows -> Nat \ {0}]
    BY <1>1
  <2> QED BY <1>1, <2>1, <2>2, <2>3 DEF TranscriptTyped
<1>4. SegmenterSound
  <2> SUFFICES ASSUME NEW c \in Channels
               PROVE  /\ Segmented(heard[c], open[c], cuts[c])
                      /\ LostClosed(heard[c], open[c], LeftOut(heard[c], open[c], cuts[c]))
    BY DEF SegmenterSound
  <2>1. Len(heard[c]) = 0 /\ Edge(heard[c], open[c]) = 0
    BY <1>2, OpensAre DEF Edge
  <2>2. LeftOut(heard[c], open[c], cuts[c]) = {}
    BY <2>1 DEF LeftOut
  <2>3. OpenFits(heard[c], open[c]) /\ CutsFit(heard[c], open[c], cuts[c]) /\ Carried(open[c], cuts[c])
    BY <1>2, OpensAre DEF OpenFits, CutsFit, Carried
  <2> QED BY <2>2, <2>3 DEF Segmented, LittleLost, LostClosed
<1>5. Queued
  <2> SUFFICES ASSUME NEW c \in Channels PROVE QueueFits(Edge(heard[c], open[c]), queue[c], work[c], cuts[c])
    BY DEF Queued
  <2>1. 1..Len(queue[c]) = {} /\ work[c] = Nobody
    BY <1>2
  <2> QED BY <2>1 DEF QueueFits
<1>6. HeldOnce /\ StoredOnce /\ EchoesApart
  BY <1>1 DEF HeldOnce, Distinct, StoredOnce, Once, EchoesApart, Apart
<1> QED BY <1>3, <1>4, <1>5, <1>6 DEF TranscriptInv

LEMMA TranscriptStep ==
  ASSUME TranscriptInv, TranscriptNext
  PROVE  TranscriptInv' /\ \A d \in Channels : Forward(d)
<1>1. ASSUME NEW c \in channels, Feed(c) \/ Worker(c) PROVE TranscriptInv' /\ \A d \in Channels : Forward(d)
  BY <1>1, FeedKeeps, NothingKeeps, ProcessKeeps, DiscardKeeps DEF Worker
<1> QED BY <1>1, FinishKeeps, ReleaserKeeps DEF TranscriptNext

LEMMA TranscriptStutter ==
  ASSUME TranscriptInv, UNCHANGED transcriptVars
  PROVE  TranscriptInv'
<1>1. UNCHANGED <<channels, heard, open, queue, work, held, rows, ending, wake, away, pending, cuts, upset>>
  BY DEF transcriptVars
<1>2. TranscriptTyped'
  BY <1>1 DEF TranscriptInv, TranscriptTyped
<1>3. SegmenterSound'
  BY <1>1, SegmenterStays DEF TranscriptInv
<1>4. Queued'
  BY <1>1 DEF TranscriptInv, Queued
<1>5. HeldOnce' /\ StoredOnce'
  BY <1>1 DEF TranscriptInv, HeldOnce, StoredOnce, Gone
<1>6. EchoesApart'
  BY <1>1 DEF TranscriptInv, EchoesApart, Transcribed, Inflight, Position
<1> QED BY <1>2, <1>3, <1>4, <1>5, <1>6 DEF TranscriptInv

LEMMA TypesSaid ==
  ASSUME TranscriptInv
  PROVE  TranscriptTypeOK
<1>1. TranscriptTyped /\ SegmenterSound /\ Queued /\ StoredOnce
  BY DEF TranscriptInv
<1>2. ASSUME NEW c \in Channels
      PROVE  /\ Range(heard[c]) \subseteq BOOLEAN /\ work[c] \in 0..Position(c) \cup {Nobody}
             /\ open[c] \in [on : BOOLEAN, start : 0..Position(c), carry : {0, OverlapFrames}]
             /\ \A s \in cuts[c] \cup Range(queue[c]) : 0 <= s.start /\ s.start < s.end /\ s.end <= Position(c)
  <2>1. /\ heard[c] \in Seq(BOOLEAN) /\ open[c] \in Opens /\ queue[c] \in Seq(Cuts) /\ work[c] \in Nat \cup {Nobody} /\ cuts[c] \in SUBSET Cuts
        /\ Edge(heard[c], open[c]) \in Nat /\ Edge(heard[c], open[c]) <= Len(heard[c]) /\ Len(heard[c]) \in Nat
    BY <1>1, StreamIs
  <2>2. /\ QueueFits(Edge(heard[c], open[c]), queue[c], work[c], cuts[c])
        /\ OpenFits(heard[c], open[c]) /\ CutsFit(heard[c], open[c], cuts[c])
    BY <1>1 DEF Queued, SegmenterSound, Segmented
  <2>3. Range(heard[c]) \subseteq BOOLEAN
    BY <2>1 DEF Range
  <2>4. work[c] \in 0..Position(c) \cup {Nobody}
    <3>1. work[c] # Nobody => work[c] < Edge(heard[c], open[c])
      BY <2>2 DEF QueueFits
    <3> QED BY <2>1, <3>1 DEF Position
  <2>5. open[c] \in [on : BOOLEAN, start : 0..Position(c), carry : {0, OverlapFrames}]
    <3>1. open[c].start \in 0..Position(c)
      <4>1. CASE open[c].on
        BY <2>1, <2>2, <4>1 DEF OpenFits, Opens, Position
      <4>2. CASE ~open[c].on
        BY <2>1, <2>2, <4>2 DEF OpenFits, NotOpen, Position
      <4> QED BY <4>1, <4>2
    <3> QED BY <2>1, <3>1 DEF Opens
  <2>6. ASSUME NEW s \in cuts[c] \cup Range(queue[c]) PROVE 0 <= s.start /\ s.start < s.end /\ s.end <= Position(c)
    <3>1. s \in cuts[c]
      BY <2>1, <2>2 DEF Range, QueueFits
    <3>2. s \in Cuts
      BY <2>1, <3>1
    <3> QED BY <2>2, <3>1, <3>2 DEF CutsFit, Cuts, Position
  <2> QED BY <2>3, <2>4, <2>5, <2>6
<1>3. \A m \in held : m.channel = "mic" /\ m.text \in {"own", "echo"}
  BY <1>1 DEF TranscriptTyped, HeldRows
<1>4. \A r \in DOMAIN rows : r.channel \in channels
  BY <1>1 DEF StoredOnce
<1> QED BY <1>1, <1>2, <1>3, <1>4 DEF TranscriptTypeOK, TranscriptTyped

LEMMA SpeechSaid ==
  ASSUME TranscriptInv
  PROVE  SpeechHeard
<1> SUFFICES ASSUME NEW c \in Channels, NEW i \in Unheard(c)
             PROVE  Cardinality({j \in Unheard(c) : SameUtterance(heard[c], i, j)}) < MinSpeech
  BY DEF SpeechHeard
<1> DEFINE h == heard[c]
           out == LeftOut(h, open[c], cuts[c])
           lost == {j \in Unheard(c) : SameUtterance(h, i, j)}
<1>1. Unheard(c) = out
  BY DEF Unheard, LeftOut, Speech, Edge, Position
<1>2. LittleLost(h, out) /\ Len(h) \in Nat /\ out \in SUBSET Nat /\ \A j \in out : h[j]
  <2>1. LittleLost(h, out) /\ Len(h) \in Nat
    BY StreamIs DEF TranscriptInv, SegmenterSound, Segmented
  <2> QED BY <2>1 DEF LeftOut
<1> HIDE DEF out
<1>3. PICK a, b \in 0..Len(h) : /\ Cardinality(Speech(h, a, b)) < MinSpeech
                                /\ \A j \in out : SameUtterance(h, i, j) => a < j /\ j <= b
  BY <1>1, <1>2 DEF LittleLost
<1> HIDE DEF h
<1>4. a \in Nat /\ b \in Nat
  BY <1>2, <1>3
<1>5. lost \subseteq Speech(h, a, b)
  <2> SUFFICES ASSUME NEW j \in out, SameUtterance(h, i, j) PROVE j \in Speech(h, a, b)
    BY <1>1
  <2>1. j \in Nat /\ h[j] /\ a < j /\ j <= b
    BY <1>2, <1>3
  <2> QED BY <1>4, <2>1 DEF Speech
<1> HIDE DEF lost
<1>6. IsFiniteSet(Speech(h, a, b)) /\ Cardinality(Speech(h, a, b)) \in Nat
  BY <1>4, SpeechIs
<1>7. Cardinality(lost) <= Cardinality(Speech(h, a, b)) /\ Cardinality(lost) \in Nat
  BY <1>5, <1>6, FS_Subset, FS_CardinalityType
<1>8. Cardinality(lost) < MinSpeech
  BY <1>3, <1>6, <1>7, ConfigIs
<1> QED BY <1>8 DEF lost, h

LEMMA RowsSaid ==
  ASSUME TranscriptInv
  PROVE  RowsGuarded
<1>1. StoredOnce /\ EchoesApart
  BY DEF TranscriptInv
<1>2. ASSUME upset["broken"] = 0, NEW r \in DOMAIN rows, NEW s \in DOMAIN rows
      PROVE  rows[r] = 1 /\ (r # s => <<r.channel, r.start>> # <<s.channel, s.start>>)
  BY <1>1, <1>2 DEF StoredOnce, Once
<1>3. ASSUME NEW r \in DOMAIN rows, NEW s \in DOMAIN rows, r.text = "echo", s.channel = "system", Overlap(r, s)
      PROVE  r.why \in {"held long", "ending"}
  BY <1>1, <1>3 DEF EchoesApart, Apart
<1> QED BY <1>2, <1>3 DEF RowsGuarded

\* At all times of any session the Segmenters have left out less of an utterance than a segment has
\* to have (segmenter.py, _push and _build), whatever they heard; and as long as no store fails each
\* segment is stored once, and the microphone's copy of what both channels heard only if it could
\* not be held any longer (pipeline.py, _release_held).
THEOREM TranscriptIsSound ==
  TranscriptInit /\ [][TranscriptNext]_transcriptVars => [](TranscriptTypeOK /\ SpeechHeard /\ RowsGuarded)
<1>1. TranscriptInit => TranscriptInv
  BY TranscriptStarts
<1>2. TranscriptInv /\ [TranscriptNext]_transcriptVars => TranscriptInv'
  BY TranscriptStep, TranscriptStutter
<1>3. TranscriptInv => TranscriptTypeOK /\ SpeechHeard /\ RowsGuarded
  BY TypesSaid, SpeechSaid, RowsSaid
<1> QED BY <1>1, <1>2, <1>3, PTL

\* How far a channel is transcribed never goes back (pipeline.py, _transcribed_ms), whatever is cut,
\* transcribed, given up or discarded.
THEOREM TranscriptGoesForward ==
  TranscriptInit /\ [][TranscriptNext]_transcriptVars => ProgressForward
<1>1. TranscriptInit => TranscriptInv
  BY TranscriptStarts
<1>2. TranscriptInv /\ [TranscriptNext]_transcriptVars => TranscriptInv'
  BY TranscriptStep, TranscriptStutter
<1>3. TranscriptInv /\ [TranscriptNext]_transcriptVars => [\A c \in Channels : Transcribed(c)' >= Transcribed(c)]_transcriptVars
  <2>1. CASE TranscriptInv /\ TranscriptNext
    BY <2>1, TranscriptStep DEF Forward
  <2> QED BY <2>1
<1> QED BY <1>1, <1>2, <1>3, PTL DEF ProgressForward

-----------------------------------------------------------------------------
(* All of a session's audio.                                                *)
LEMMA StepOfOne ==
  ASSUME [Next]_vars
  PROVE  [TranscriptNext]_transcriptVars /\ [TierNext]_tierVars /\ [SpeakerNext]_speakerVars /\ [ViewNext]_viewVars
<1>1. CASE UNCHANGED vars
  BY <1>1 DEF vars
<1>2. CASE Next
  BY <1>2 DEF Next
<1> QED BY <1>1, <1>2

LEMMA StartOfEach ==
  ASSUME Init
  PROVE  TranscriptInit /\ TierInit /\ SpeakerInit /\ ViewInit
  BY DEF Init

LEMMA EachRuns ==
  Spec => /\ TranscriptInit /\ [][TranscriptNext]_transcriptVars
          /\ TierInit /\ [][TierNext]_tierVars
          /\ SpeakerInit /\ [][SpeakerNext]_speakerVars
          /\ ViewInit /\ [][ViewNext]_viewVars
<1>1. [Next]_vars => [TranscriptNext]_transcriptVars /\ [TierNext]_tierVars /\ [SpeakerNext]_speakerVars /\ [ViewNext]_viewVars
  BY StepOfOne
<1>2. Init => TranscriptInit /\ TierInit /\ SpeakerInit /\ ViewInit
  BY StartOfEach
<1> QED BY <1>1, <1>2, PTL DEF Spec

\* Of what is said in a session, less of an utterance is left out than a segment has to have; its
\* segments are stored once, echoes only when they could not be held; and a tier that is away is
\* not reported as a fault (segmenter.py, pipeline.py, tiers.py).
THEOREM AudioIsSound == Spec => []SpeechSound
<1>1. TranscriptTypeOK /\ SpeechHeard /\ RowsGuarded /\ TierTypeOK /\ FaultNotAway => SpeechSound
  BY DEF SpeechSound
<1> QED BY <1>1, EachRuns, TranscriptIsSound, TiersAreSound, PTL

\* "Speaker N" is one voice, no provisional label outlives a pass that was not cut off, and a line
\* names a voice of the session unless a write failed or a voice went away (diarize/service.py,
\* diarize/livelabel.py, api/speakers.py).
THEOREM SessionVoicesSound == Spec => []VoicesSound
  BY EachRuns, VoicesAreSound, PTL

\* The live page shows nothing that was not stored, and the whole of a session it left as finished
\* (web/live, api/sessions.py, events/bus.py).
THEOREM SessionPageSound == Spec => []PageSound
  BY EachRuns, PageIsSound, PTL

\* Neither how far a channel is transcribed (pipeline.py, _transcribed_ms) nor what the page shows
\* of it goes back.
THEOREM AudioGoesForward == Spec => SpeechForward
  BY EachRuns, TranscriptGoesForward, PageGoesForward, PTL DEF SpeechForward
=============================================================================
