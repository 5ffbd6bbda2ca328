-------------------------- MODULE AssistantProofs ---------------------------
(***************************************************************************)
(* Proofs about the two assistants of a live session: the requests spoken  *)
(* to Jarvis (Voice.tla), and the copilot (Copilot.tla).                   *)
(***************************************************************************)
EXTENDS MCAssistant, WellFoundedInduction, FiniteSetTheorems, TLAPS

-----------------------------------------------------------------------------
(* Least and greatest elements *)

\* A set of numbers that is not empty has a least one.
LEMMA LeastNumber ==
  ASSUME NEW S \in SUBSET Nat, S # {}
  PROVE  \E x \in S : \A y \in S : x <= y
<1> DEFINE Less == {ss \in Nat \X Nat : ss[1] < ss[2]}
<1>1. IsWellFoundedOn(Less, Nat)
  BY NatLessThanWellFounded, Zenon DEF OpToRel
<1>2. PICK x \in S : \A y \in S : ~(<<y, x>> \in Less)
  BY <1>1, WFMin
<1>3. ASSUME NEW y \in S PROVE x <= y
  <2>1. y \in Nat /\ x \in Nat
    OBVIOUS
  <2>2. ~(<<y, x>> \in Less)
    BY <1>2
  <2>3. ASSUME y < x PROVE <<y, x>> \in Less
    BY <2>1, <2>3
  <2> QED BY <2>1, <2>2, <2>3
<1> QED BY <1>3

\* What Max is of a bounded set of numbers that is not empty.
LEMMA GreatestNumber ==
  ASSUME NEW n \in Nat, NEW S \in SUBSET (0..n), S # {}
  PROVE  Max(S) \in S /\ \A y \in S : y <= Max(S)
<1> DEFINE T == {n - x : x \in S}
<1>1. T \in SUBSET Nat /\ T # {}
  <2>1. \A x \in S : n - x \in Nat
    OBVIOUS
  <2> QED BY <2>1
<1>2. PICK m \in T : \A y \in T : m <= y
  BY <1>1, LeastNumber
<1>3. PICK x \in S : m = n - x
  BY <1>2
<1>4. \A y \in S : n - y \in T
  OBVIOUS
<1>5. \A y \in S : x >= y
  BY <1>2, <1>3, <1>4
<1>6. \E z \in S : \A y \in S : z >= y
  BY <1>5
<1>7. Max(S) = CHOOSE z \in S : \A y \in S : z >= y
  BY DEF Max
<1>8. Max(S) \in S /\ \A y \in S : Max(S) >= y
  BY <1>6, <1>7
<1> QED BY <1>8

\* What Min is of one.
LEMMA SmallestNumber ==
  ASSUME NEW S \in SUBSET Nat, S # {}
  PROVE  Min(S) \in S /\ \A y \in S : Min(S) <= y
<1>1. \E z \in S : \A y \in S : z =< y
  BY LeastNumber
<1>2. Min(S) = CHOOSE z \in S : \A y \in S : z =< y
  BY DEF Min
<1> QED BY <1>1, <1>2

-----------------------------------------------------------------------------
(* Voice: the invariant *)

Kinds == {"quiet", "talk", "wake", "echo"}
HeldRows == [id : Nat, begin : Nat, start : Nat, end : Nat]
TaskRows == [id : Nat, no : Nat, pc : {"wait", "stt", "file", "ask", "store", "reply"}, clip : SUBSET Nat, begin : Nat]
PlayRows == [1..3 -> Nat]
WriteRows == [id : Asks, state : {"started", "done"}]
DeskRows == [held : Nat, tasks : SUBSET TaskRows, last : 0..MaxAsks, made : Nat]
LoopRows == [pc : {"idle", "file", "store"}, cursor : Nat, heard : SUBSET Nat, until : Nat]
FilingRows == [all : SUBSET Nat, held : SUBSET Nat]

VoiceRows ==
  /\ said \in Seq(Kinds) /\ finals \in 0..Pos /\ echoes \subseteq 1..finals /\ live \in {"live", "ending"}
  /\ audio \in [held : HeldRows, windows : Seq(Nat \X Nat)] /\ Len(audio.windows) <= MaxWindows
  /\ desk \in DeskRows
  /\ replies \in Seq(Nat) /\ writes \in Seq(WriteRows) /\ played \in [Asks -> {"none", "started", "done"}]
  /\ plays \in Seq(PlayRows)
  /\ loop \in LoopRows /\ filings \in Seq(FilingRows) /\ handled \subseteq 1..Pos
  /\ voiceBudget \in [VoiceEvents -> Nat]

\* Positions are of the stream, and asks are ones that were begun.
VoiceBoundsKept ==
  /\ Pos <= MaxPos
  /\ audio.held.id \in {0, desk.last} /\ audio.held.begin \in 0..Pos /\ audio.held.start <= audio.held.begin
  /\ Range(replies) \subseteq 1..desk.last
  /\ loop.cursor \in 0..finals /\ loop.heard \subseteq 1..finals /\ loop.until \in 0..finals
  /\ \A t \in desk.tasks : t.id \in 1..desk.last /\ t.no \in 1..desk.made /\ t.clip \subseteq 1..Pos
  /\ \A i \in DOMAIN filings : filings[i].held \subseteq 1..Pos
\* A key that is down holds the last ask, which no task answers yet; tasks are told apart by number.
DeskShape ==
  /\ desk.held \in {0, desk.last}
  /\ desk.held # 0 => audio.held.id = desk.held /\ audio.held.end = Unended /\ \A t \in desk.tasks : t.id # desk.last
  /\ \A t, u \in desk.tasks : t.no = u.no => t = u
  /\ Len(audio.windows) + (IF audio.held.id # 0 THEN 1 ELSE 0) <= desk.last

\* As long as every window is remembered and the session goes on.
Unforgotten == Never({"end"}) /\ desk.last <= MaxWindows
PastWindow(k) == \E i \in DOMAIN audio.windows : k > audio.windows[i][1] /\ k <= audio.windows[i][2]
Own(t) == {k \in t.clip : k > t.begin}
Busy == {t \in desk.tasks : t.pc \in {"stt", "file"}}
Filed(k) == \E i \in DOMAIN filings : k \in filings[i].held
\* What was filed is behind the loop, in a window, or what the loop is about to be behind of.
FiledPast == \A k \in Nat : Filed(k) => k <= loop.cursor \/ PastWindow(k) \/ (loop.pc = "store" /\ k \in loop.heard)
\* What a task has taken is in a window, was filed by nobody, and is no other task's.
TakenPast ==
  /\ \A t \in Busy : \A k \in t.clip : PastWindow(k)
  /\ \A t \in Busy : \A k \in Own(t) : ~Filed(k)
  /\ \A t, u \in Busy : t # u => Own(t) \cap Own(u) = {}
\* What the loop has heard is ahead of its cursor, was filed by nobody, and is no task's.
HeardApart ==
  /\ loop.pc # "idle" => loop.cursor <= loop.until /\ \A k \in loop.heard : k <= loop.until
  /\ loop.pc = "file" => \A k \in loop.heard : ~Filed(k) /\ \A t \in Busy : k \notin Own(t)
\* The ask that is held begins after all that.
HeldLater ==
  audio.held.id # 0 => \A k \in Nat :
    Filed(k) \/ k \in loop.heard \/ (\E t \in Busy : k \in Own(t)) => k <= audio.held.begin
OnceInv == Unforgotten => FiledPast /\ TakenPast /\ HeardApart /\ HeldLater /\ FiledOnce

\* Without an ask held to the limit, one task answers, the last ask's, and none while it is spoken.
OneAnswers ==
  Never({"limit"}) =>
    /\ \A t \in desk.tasks : t.id = desk.last /\ t.no = desk.made
    /\ audio.held.id # 0 /\ audio.held.end = Unended => desk.tasks = {}

\* A reply is played once, its start is written before its end, and nothing after that.
PlaysSound ==
  /\ \A i \in DOMAIN plays : plays[i][3] \in Asks
  /\ \A i, j \in DOMAIN plays : plays[i][3] = plays[j][3] => i = j
  /\ \A i \in DOMAIN writes : \E j \in DOMAIN plays :
       plays[j][3] = writes[i].id /\ (writes[i].state = "done" => plays[j][2] # 0)
  /\ \A a \in Asks : played[a] = "done" =>
       (\A i \in DOMAIN writes : writes[i].id # a) /\ \E j \in DOMAIN plays : plays[j][3] = a /\ plays[j][2] # 0
  /\ \A i, j \in DOMAIN writes : i < j /\ writes[i].id = writes[j].id => writes[i].state = "started" /\ writes[j].state = "done"

VoiceInv == VoiceRows /\ VoiceBoundsKept /\ DeskShape /\ OnceInv /\ OneAnswers /\ PlaysSound

-----------------------------------------------------------------------------
(* Voice: the proof *)

\* A step spends one event or none.
VoiceSpent == UNCHANGED voiceBudget \/ \E e \in VoiceEvents : VoiceSpend(e)

\* Events are counted: what has not happened had not happened before.
LEMMA VoiceCounted ==
  ASSUME voiceBudget \in [VoiceEvents -> Nat], VoiceSpent
  PROVE  /\ voiceBudget' \in [VoiceEvents -> Nat]
         /\ Never({"end"})' => Never({"end"}) /\ ~VoiceSpend("end")
         /\ Never({"limit"})' => Never({"limit"}) /\ ~VoiceSpend("limit")
<1>1. voiceBudget' \in [VoiceEvents -> Nat] /\ \A e \in VoiceEvents : voiceBudget[e] <= voiceBudget'[e]
  BY DEF VoiceSpent, VoiceSpend
<1>2. {"end", "limit"} \subseteq VoiceEvents
  BY DEF VoiceEvents
<1>3. \A e \in {"end", "limit"} : VoiceSpend(e) => voiceBudget'[e] > 0
  BY <1>2 DEF VoiceSpend
<1>4. \A e \in {"end", "limit"} : voiceBudget'[e] = 0 => voiceBudget[e] = 0
  BY <1>1, <1>2
<1> QED BY <1>1, <1>3, <1>4 DEF Never

\* The rows of an ask, of a desk, and a loop with nothing to do.
LEMMA VoiceNames ==
  /\ NoAsk \in HeldRows /\ NoAsk.id = 0 /\ NoAsk.begin = 0 /\ NoAsk.start = 0
  /\ NoDesk.held = 0 /\ NoDesk.tasks = {} /\ NoDesk.last = 0 /\ NoDesk.made = 0
  /\ NewLoop \in LoopRows /\ NewLoop.pc = "idle" /\ NewLoop.cursor = 0 /\ NewLoop.heard = {} /\ NewLoop.until = 0
  /\ MaxPos \in Nat /\ MaxAsks \in Nat /\ MaxWindows \in Nat /\ Preroll \in Nat /\ MaxHold \in Nat
  /\ Unended \in Nat
BY VoiceBounds DEF NoAsk, HeldRows, Unended, NoDesk, NewLoop, LoopRows

\* The invariant holds where everything begins.
LEMMA VoiceInitInv == VoiceInit => VoiceInv
<1> SUFFICES ASSUME VoiceInit PROVE VoiceInv
  OBVIOUS
<1>1. /\ said = <<>> /\ finals = 0 /\ echoes = {} /\ live = "live"
      /\ audio = [held |-> NoAsk, windows |-> <<>>] /\ desk = NoDesk /\ replies = <<>> /\ plays = <<>>
      /\ writes = <<>> /\ played = [i \in Asks |-> "none"] /\ loop = NewLoop /\ filings = <<>>
      /\ handled = {} /\ voiceBudget = [e \in VoiceEvents |-> 0]
  BY DEF VoiceInit
<1>2. Pos = 0
  BY <1>1 DEF Pos
<1>3. VoiceRows
  <2>1. desk \in DeskRows
    <3>1. 0 \in 0..MaxAsks
      BY VoiceNames
    <3> QED BY <1>1, <3>1 DEF NoDesk, DeskRows
  <2>2. audio \in [held : HeldRows, windows : Seq(Nat \X Nat)] /\ Len(audio.windows) <= MaxWindows
    BY <1>1, VoiceNames
  <2>3. voiceBudget \in [VoiceEvents -> Nat] /\ played \in [Asks -> {"none", "started", "done"}]
    BY <1>1
  <2> QED BY <1>1, <1>2, <2>1, <2>2, <2>3, VoiceNames DEF VoiceRows
<1>4. VoiceBoundsKept
  BY <1>1, <1>2, VoiceNames DEF VoiceBoundsKept, Range
<1>5. DeskShape
  BY <1>1, VoiceNames DEF DeskShape
<1>6. OnceInv
  BY <1>1, VoiceNames DEF OnceInv, FiledPast, TakenPast, HeardApart, HeldLater, FiledOnce, Filed, Busy
<1>7. OneAnswers
  BY <1>1, VoiceNames DEF OneAnswers
<1>8. PlaysSound
  BY <1>1 DEF PlaysSound
<1> QED BY <1>3, <1>4, <1>5, <1>6, <1>7, <1>8 DEF VoiceInv

\* What the invariant says is that nothing is filed twice.
LEMMA VoiceInvSays == VoiceInv => FiledOnceLive
<1> SUFFICES ASSUME VoiceInv PROVE FiledOnceLive
  OBVIOUS
<1> USE DEF VoiceInv
<1>1. Never({"end"}) /\ desk.last <= MaxWindows => FiledOnce
  BY DEF OnceInv, Unforgotten
<1>2. VoiceTypeOK
  <2>1. Range(said) \subseteq Kinds
    BY DEF VoiceRows, Range
  <2>2. desk.last \in Nat /\ desk.last \in 0..MaxAsks /\ audio.held.id \in 0..desk.last
    BY DEF VoiceRows, VoiceBoundsKept, DeskRows
  <2>3. \A t \in desk.tasks : t.pc \in {"wait", "stt", "file", "ask", "store", "reply"}
    BY DEF VoiceRows, DeskRows, TaskRows
  <2>4. loop.pc \in {"idle", "file", "store"}
    BY DEF VoiceRows, LoopRows
  <2> QED BY <2>1, <2>2, <2>3, <2>4 DEF VoiceRows, VoiceBoundsKept, DeskShape, VoiceTypeOK, Kinds
<1> QED BY <1>1, <1>2 DEF FiledOnceLive

\* A stretch is in the past of a window that is remembered, and windows are not forgotten while there
\* is room for them.
LEMMA Remembered ==
  ASSUME VoiceInv, NEW a \in Nat, NEW b \in Nat, audio'.windows = Remember(<<a, b>>)
  PROVE  /\ audio'.windows \in Seq(Nat \X Nat) /\ Len(audio'.windows) <= MaxWindows
         /\ Len(audio'.windows) \in Nat /\ Len(audio'.windows) <= Len(audio.windows) + 1
         /\ Len(audio.windows) + 1 <= MaxWindows =>
              \A k \in Nat : PastWindow(k) \/ (k > a /\ k <= b) => PastWindow(k)'
<1> DEFINE ws == Append(audio.windows, <<a, b>>)
<1>1. audio.windows \in Seq(Nat \X Nat) /\ Len(audio.windows) <= MaxWindows /\ <<a, b>> \in Nat \X Nat
  BY DEF VoiceInv, VoiceRows
<1>2. /\ ws \in Seq(Nat \X Nat) /\ Len(ws) = Len(audio.windows) + 1
      /\ ws[Len(ws)] = <<a, b>> /\ \A i \in DOMAIN audio.windows : i \in DOMAIN ws /\ ws[i] = audio.windows[i]
  <2>1. PICK seq \in Seq(Nat \X Nat) : seq = audio.windows
    BY <1>1
  <2>2. PICK w \in Nat \X Nat : w = <<a, b>>
    BY <1>1
  <2>3. PICK S : S = Nat \X Nat
    OBVIOUS
  <2>4. seq \in Seq(S) /\ w \in S
    BY <2>3
  <2>5. Append(seq, w) \in Seq(S) /\ Len(Append(seq, w)) = Len(seq) + 1
    BY ONLY <2>4
  <2>6. Append(seq, w)[Len(Append(seq, w))] = w
    BY ONLY <2>4
  <2>7. ASSUME NEW i \in DOMAIN seq PROVE i \in DOMAIN Append(seq, w) /\ Append(seq, w)[i] = seq[i]
    BY ONLY <2>4, <2>7
  <2>8. ws = Append(seq, w)
    BY <2>1, <2>2
  <2> HIDE DEF ws
  <2> QED BY <2>1, <2>2, <2>3, <2>5, <2>6, <2>7, <2>8
<1> HIDE DEF ws
<1>3. audio'.windows = IF Len(ws) > MaxWindows THEN Tail(ws) ELSE ws
  BY DEF Remember, ws
<1>4. Len(audio.windows) \in Nat
  BY <1>1
<1>6. Tail(ws) \in Seq(Nat \X Nat) /\ Len(Tail(ws)) = Len(audio.windows)
  <2>1. ws # <<>>
    BY <1>2, <1>4
  <2> QED BY <1>2, <1>4, <2>1
<1>5. ASSUME Len(audio.windows) + 1 <= MaxWindows, NEW k \in Nat, PastWindow(k) \/ (k > a /\ k <= b)
      PROVE  PastWindow(k)'
  <2>1. audio'.windows = ws
    BY <1>1, <1>2, <1>3, <1>5, VoiceNames
  <2>2. CASE PastWindow(k)
    BY <1>2, <2>1, <2>2 DEF PastWindow
  <2>3. CASE k > a /\ k <= b
    <3>1. Len(ws) \in DOMAIN ws /\ ws[Len(ws)][1] = a /\ ws[Len(ws)][2] = b
      BY <1>1, <1>2
    <3> QED BY <2>1, <2>3, <3>1 DEF PastWindow
  <2> QED BY <1>5, <2>2, <2>3
<1>7. Len(audio'.windows) \in Nat /\ Len(audio'.windows) <= MaxWindows /\ audio'.windows \in Seq(Nat \X Nat)
      /\ Len(audio'.windows) <= Len(audio.windows) + 1
  <2>1. CASE Len(ws) > MaxWindows
    <3>1. audio'.windows = Tail(ws)
      BY <1>3, <2>1
    <3>2. Len(Tail(ws)) <= MaxWindows /\ Len(Tail(ws)) <= Len(audio.windows) + 1 /\ Len(Tail(ws)) \in Nat
      BY <1>1, <1>4, <1>6
    <3> QED BY <1>6, <3>1, <3>2
  <2>2. CASE ~(Len(ws) > MaxWindows)
    BY <1>2, <1>3, <1>4, <2>2, VoiceNames
  <2> QED BY <2>1, <2>2
<1> QED BY <1>5, <1>7

\* What is taken of the ask that is held, and the window that keeps its words from the loop.
LEMMA WindowIs ==
  ASSUME VoiceInv
  PROVE  /\ Clip(audio.held) \subseteq 1..Pos /\ \A k \in Clip(audio.held) : k > audio.held.start
         /\ \E b \in Nat : Window(audio.held) = <<audio.held.start, b>> /\ \A k \in Clip(audio.held) : k <= b
<1>1. audio.held \in HeldRows /\ Pos \in Nat
  BY DEF VoiceInv, VoiceRows, Pos
<1>2. Clip(audio.held) \subseteq 1..Pos /\ \A k \in Clip(audio.held) : k > audio.held.start
  BY DEF Clip
<1>3. CASE Clip(audio.held) = {}
  BY <1>1, <1>2, <1>3 DEF Window, HeldRows
<1>4. CASE Clip(audio.held) # {}
  <2>1. Clip(audio.held) \in SUBSET (0..Pos)
    BY <1>1, <1>2
  <2>2. Max(Clip(audio.held)) \in Clip(audio.held) /\ \A y \in Clip(audio.held) : y <= Max(Clip(audio.held))
    BY <1>1, <1>4, <2>1, GreatestNumber
  <2>3. Max(Clip(audio.held)) \in Nat
    BY <1>1, <2>1, <2>2
  <2> QED BY <1>2, <1>4, <2>2, <2>3 DEF Window
<1> QED BY <1>2, <1>3, <1>4

\* A filing is added: what is filed grows by it, and if its words were in none, no two filings share
\* one.
LEMMA FilingAdds ==
  ASSUME filings \in Seq(FilingRows), NEW all \in SUBSET Nat, NEW held \in SUBSET Nat, File(all, held)
  PROVE  /\ filings' \in Seq(FilingRows)
         /\ \A k \in Nat : Filed(k)' <=> Filed(k) \/ k \in held
         /\ \A i \in DOMAIN filings' : filings'[i].held = held \/ (i \in DOMAIN filings /\ filings'[i] = filings[i])
         /\ FiledOnce /\ (\A k \in held : ~Filed(k)) => FiledOnce'
<1> DEFINE new == [all |-> all, held |-> held]
<1>1. new \in FilingRows /\ new.held = held
  BY DEF FilingRows
<1> HIDE DEF new
<1>2. filings' = Append(filings, new)
  BY DEF File, new
<1>3. /\ filings' \in Seq(FilingRows) /\ DOMAIN filings' = DOMAIN filings \cup {Len(filings) + 1}
      /\ filings'[Len(filings) + 1] = new /\ \A i \in DOMAIN filings : filings'[i] = filings[i]
      /\ Len(filings) + 1 \notin DOMAIN filings
  BY <1>1, <1>2
<1>4. \A k \in Nat : Filed(k)' <=> Filed(k) \/ k \in held
  BY <1>1, <1>3 DEF Filed
<1>5. ASSUME FiledOnce, \A k \in held : ~Filed(k) PROVE FiledOnce'
  <2>1. ASSUME NEW i \in DOMAIN filings PROVE filings[i].held \cap held = {}
    BY <1>5, <2>1 DEF Filed
  <2> QED BY <1>1, <1>3, <1>5, <2>1 DEF FiledOnce
<1> QED BY <1>1, <1>3, <1>4, <1>5

-----------------------------------------------------------------------------
(* Voice: the tasks that answer *)

\* What the invariant says of one task, and of the desk.
LEMMA TaskIs ==
  ASSUME VoiceInv
  PROVE  /\ Pos \in Nat /\ desk \in DeskRows /\ desk.last \in Nat /\ desk.made \in Nat /\ audio.held \in HeldRows
         /\ \A t \in desk.tasks : t \in TaskRows /\ t.id \in Nat /\ t.no \in Nat /\ t.no <= desk.made /\ t.clip \subseteq Nat
  BY DEF VoiceInv, VoiceRows, VoiceBoundsKept, DeskRows, TaskRows, Pos

\* What has been filed or taken, and what the loop stands at, is as it was: nothing is filed twice.
LEMMA OnceStays ==
  ASSUME VoiceInv, Unforgotten' => Unforgotten, UNCHANGED <<loop, filings>>, audio'.windows = audio.windows,
         audio'.held.id # 0 => audio.held.id # 0 /\ audio'.held.begin = audio.held.begin,
         \A x \in Busy' : \E y \in Busy : x.no = y.no /\ x.clip = y.clip /\ x.begin = y.begin,
         \A x, y \in Busy' : x.no = y.no => x = y
  PROVE  OnceInv'
<1> SUFFICES ASSUME Unforgotten' PROVE (FiledPast /\ TakenPast /\ HeardApart /\ HeldLater /\ FiledOnce)'
  BY DEF OnceInv
<1>1. FiledPast /\ TakenPast /\ HeardApart /\ HeldLater /\ FiledOnce
  BY DEF VoiceInv, OnceInv
<1>2. /\ \A k \in Nat : Filed(k)' <=> Filed(k)
      /\ \A k \in Nat : PastWindow(k)' <=> PastWindow(k)
  BY DEF Filed, PastWindow
<1>3. \A y \in Busy : y.clip \subseteq Nat
  BY TaskIs DEF Busy
<1>4. FiledPast' /\ FiledOnce'
  BY <1>1, <1>2 DEF FiledPast, FiledOnce
<1>5. ASSUME NEW x \in Busy' PROVE \E y \in Busy : x.no = y.no /\ x.clip = y.clip /\ Own(x) = Own(y)
  BY <1>5 DEF Own
<1>6. TakenPast'
  <2>1. ASSUME NEW x \in Busy', NEW k \in x.clip PROVE PastWindow(k)'
    BY <1>1, <1>2, <1>3, <1>5 DEF TakenPast
  <2>2. ASSUME NEW x \in Busy', NEW k \in Own(x) PROVE ~Filed(k)'
    BY <1>1, <1>2, <1>3, <1>5 DEF TakenPast, Own
  <2>3. ASSUME NEW x \in Busy', NEW z \in Busy', x # z PROVE Own(x) \cap Own(z) = {}
    <3>1. PICK y \in Busy : x.no = y.no /\ Own(x) = Own(y)
      BY <1>5
    <3>2. PICK w \in Busy : z.no = w.no /\ Own(z) = Own(w)
      BY <1>5
    <3>3. x.no # z.no
      BY <2>3
    <3> QED BY <1>1, <3>1, <3>2, <3>3 DEF TakenPast
  <2> QED BY <2>1, <2>2, <2>3 DEF TakenPast
<1>7. loop.heard \subseteq Nat
  BY DEF VoiceInv, VoiceRows, LoopRows
<1>8. HeardApart'
  BY <1>1, <1>2, <1>5, <1>7 DEF HeardApart
<1>9. HeldLater'
  <2> SUFFICES ASSUME audio'.held.id # 0, NEW k \in Nat,
                      Filed(k) \/ k \in loop.heard \/ \E x \in Busy' : k \in Own(x)
               PROVE  k <= audio.held.begin
    BY <1>2 DEF HeldLater
  <2> QED BY <1>1, <1>5 DEF HeldLater
<1> QED BY <1>4, <1>6, <1>8, <1>9

\* The number of a task tells it apart, also when one takes another's place.
LEMMA TaskMoves ==
  ASSUME VoiceInv, NEW t \in desk.tasks, NEW u \in TaskRows, u.no = t.no, u.id = t.id, u.clip \subseteq 1..Pos, Move(t, u)
  PROVE  /\ desk' \in DeskRows /\ desk'.held = desk.held /\ desk'.last = desk.last /\ desk'.made = desk.made
         /\ desk'.tasks = (desk.tasks \ {t}) \cup {u}
         /\ \A x, y \in desk'.tasks : x.no = y.no => x = y
         /\ \A x \in desk'.tasks : x.id \in 1..desk'.last /\ x.no \in 1..desk'.made /\ x.clip \subseteq 1..Pos
         /\ \A x \in desk'.tasks : \E y \in desk.tasks : x.id = y.id /\ x.no = y.no
<1> USE DEF VoiceInv
<1>1. /\ desk' \in DeskRows /\ desk'.held = desk.held /\ desk'.last = desk.last /\ desk'.made = desk.made
      /\ desk'.tasks = (desk.tasks \ {t}) \cup {u}
  BY TaskIs DEF Move, DeskRows
<1>2. \A x, y \in desk.tasks : x.no = y.no => x = y
  BY DEF DeskShape
<1>3. \A x, y \in desk'.tasks : x.no = y.no => x = y
  BY <1>1, <1>2
<1>4. \A x \in desk.tasks : x.id \in 1..desk.last /\ x.no \in 1..desk.made /\ x.clip \subseteq 1..Pos
  BY DEF VoiceBoundsKept
<1>5. \A x \in desk'.tasks : x.id \in 1..desk'.last /\ x.no \in 1..desk'.made /\ x.clip \subseteq 1..Pos
  BY <1>1, <1>4
<1> QED BY <1>1, <1>3, <1>5

\* A task moves with the desk as it is otherwise: the types, the bounds and the desk's shape.
LEMMA DeskStands ==
  ASSUME VoiceInv, NEW t \in desk.tasks, NEW u \in TaskRows, u.no = t.no, u.id = t.id, u.clip \subseteq 1..Pos, Move(t, u),
         VoiceSpent, UNCHANGED <<micVars, live, audio, replies, plays, writes, played, loop, handled>>,
         filings' \in Seq(FilingRows), \A i \in DOMAIN filings' : filings'[i].held \subseteq 1..Pos
  PROVE  VoiceRows' /\ VoiceBoundsKept' /\ DeskShape' /\ OneAnswers' /\ PlaysSound'
<1> USE DEF VoiceInv
<1>1. /\ UNCHANGED <<said, finals, echoes>> /\ Pos' = Pos
      /\ voiceBudget' \in [VoiceEvents -> Nat]
      /\ Never({"limit"})' => Never({"limit"})
  BY VoiceCounted DEF micVars, Pos, VoiceRows
<1>2. VoiceRows'
  BY <1>1, TaskMoves DEF VoiceRows
<1>3. VoiceBoundsKept'
  BY <1>1, TaskMoves DEF VoiceBoundsKept
<1>4. DeskShape'
  <2>1. /\ desk'.held = desk.held /\ desk'.last = desk.last /\ \A x, y \in desk'.tasks : x.no = y.no => x = y
        /\ \A x \in desk'.tasks : \E y \in desk.tasks : x.id = y.id
    BY TaskMoves
  <2>2. desk.held # 0 => \A x \in desk'.tasks : x.id # desk.last
    BY <2>1 DEF DeskShape
  <2> QED BY <2>1, <2>2 DEF DeskShape
<1>5. OneAnswers'
  BY <1>1, TaskMoves DEF OneAnswers
<1>6. PlaysSound'
  BY DEF PlaysSound
<1> QED BY <1>2, <1>3, <1>4, <1>5, <1>6

\* As long as windows are remembered and the session goes on, they were and it did.
LEMMA StillUnforgotten ==
  ASSUME VoiceInv, VoiceSpent, desk'.last \in Nat, desk.last <= desk'.last
  PROVE  Unforgotten' => Unforgotten /\ ~VoiceSpend("end")
<1>1. voiceBudget \in [VoiceEvents -> Nat]
  BY DEF VoiceInv, VoiceRows
<1>2. Never({"end"})' => Never({"end"}) /\ ~VoiceSpend("end")
  BY <1>1, VoiceCounted
<1>3. desk'.last <= MaxWindows => desk.last <= MaxWindows
  BY VoiceNames, TaskIs
<1> QED BY <1>2, <1>3 DEF Unforgotten

\* A task that answers goes a step on: it hears, it answers, it stores, or finds nothing to take.
LEMMA Answering ==
  ASSUME VoiceInv, NEW t \in desk.tasks,
         HearClip(t) \/ Answer(t) \/ StoreAsk(t) \/ (TakeClip(t) /\ audio.held.id # t.id) \/ (FileAsk(t) /\ UNCHANGED filings)
  PROVE  VoiceInv'
<1> USE DEF VoiceInv
<1>1. /\ UNCHANGED <<micVars, live, audio, replies, plays, writes, played, loop, handled, filings>> /\ VoiceSpent
      /\ \E pc \in {"file", "ask", "store", "reply"} :
           (pc = "file" => t.pc = "stt") /\ Move(t, [t EXCEPT !.pc = pc])
  BY DEF HearClip, Answer, StoreAsk, TakeClip, FileAsk, VoiceSpent, VoiceEvents, loopVars
<1>2. PICK pc \in {"file", "ask", "store", "reply"} : (pc = "file" => t.pc = "stt") /\ Move(t, [t EXCEPT !.pc = pc])
  BY <1>1
<1> DEFINE u == [t EXCEPT !.pc = pc]
<1>3. /\ u \in TaskRows /\ u.no = t.no /\ u.id = t.id /\ u.clip = t.clip /\ u.begin = t.begin /\ u.pc = pc
      /\ u.clip \subseteq 1..Pos
  BY TaskIs DEF TaskRows, VoiceBoundsKept
<1> HIDE DEF u
<1>4. Move(t, u)
  BY <1>2 DEF u
<1>5. VoiceRows' /\ VoiceBoundsKept' /\ DeskShape' /\ OneAnswers' /\ PlaysSound'
  <2>1. filings' \in Seq(FilingRows) /\ \A i \in DOMAIN filings' : filings'[i].held \subseteq 1..Pos
    BY <1>1 DEF VoiceRows, VoiceBoundsKept
  <2> QED BY <1>1, <1>3, <1>4, <2>1, DeskStands
<1>6. OnceInv'
  <2>1. desk'.tasks = (desk.tasks \ {t}) \cup {u} /\ desk'.last = desk.last /\ \A x, y \in desk'.tasks : x.no = y.no => x = y
    BY <1>3, <1>4, TaskMoves
  <2>2. u.pc \in {"stt", "file"} => t \in Busy
    BY <1>2, <1>3 DEF Busy
  <2>3. \A x \in Busy' : \E y \in Busy : x.no = y.no /\ x.clip = y.clip /\ x.begin = y.begin
    BY <1>3, <2>1, <2>2 DEF Busy
  <2>4. Unforgotten' => Unforgotten
    BY <1>1, <2>1, StillUnforgotten, TaskIs
  <2>5. \A x, y \in Busy' : x.no = y.no => x = y
    BY <2>1 DEF Busy
  <2> QED BY <1>1, <2>3, <2>4, <2>5, OnceStays
<1> QED BY <1>5, <1>6

\* A request that an ask was is filed: its words were in no other filing, in no other task's, and
\* are not what the loop has heard.
LEMMA Filing ==
  ASSUME VoiceInv, NEW t \in desk.tasks, FileAsk(t), filings' # filings
  PROVE  VoiceInv'
<1> USE DEF VoiceInv
<1> DEFINE u == [t EXCEPT !.pc = "store"]
<1>1. /\ UNCHANGED <<micVars, live, audio, replies, plays, writes, played, loop, handled>> /\ VoiceSpent
      /\ t.pc = "file" /\ File(t.clip, Own(t)) /\ Move(t, u)
  BY DEF FileAsk, VoiceSpent, Own
<1>2. /\ u \in TaskRows /\ u.no = t.no /\ u.id = t.id /\ u.clip = t.clip /\ u.begin = t.begin /\ u.pc = "store"
      /\ u.clip \subseteq 1..Pos /\ t \in Busy /\ t.clip \subseteq Nat /\ Own(t) \subseteq t.clip
  BY <1>1, TaskIs DEF TaskRows, VoiceBoundsKept, Busy, Own
<1> HIDE DEF u
<1>3. /\ filings' \in Seq(FilingRows) /\ \A k \in Nat : Filed(k)' <=> Filed(k) \/ k \in Own(t)
      /\ \A i \in DOMAIN filings' : filings'[i].held = Own(t) \/ (i \in DOMAIN filings /\ filings'[i] = filings[i])
      /\ FiledOnce /\ (\A k \in Own(t) : ~Filed(k)) => FiledOnce'
  <2>1. filings \in Seq(FilingRows) /\ t.clip \in SUBSET Nat /\ Own(t) \in SUBSET Nat
    BY <1>2 DEF VoiceRows
  <2> QED BY <1>1, <2>1, FilingAdds
<1>4. \A i \in DOMAIN filings' : filings'[i].held \subseteq 1..Pos
  BY <1>2, <1>3 DEF VoiceBoundsKept
<1>5. VoiceRows' /\ VoiceBoundsKept' /\ DeskShape' /\ OneAnswers' /\ PlaysSound'
  BY <1>1, <1>2, <1>3, <1>4, DeskStands
<1>6. desk'.tasks = (desk.tasks \ {t}) \cup {u} /\ desk'.last = desk.last
  BY <1>1, <1>2, TaskMoves
<1>7. \A x \in Busy' : x \in Busy /\ x # t
  BY <1>2, <1>6 DEF Busy
<1>8. ASSUME Unforgotten' PROVE (FiledPast /\ TakenPast /\ HeardApart /\ HeldLater /\ FiledOnce)'
  <2>1. Unforgotten
    BY <1>1, <1>6, <1>8, StillUnforgotten, TaskIs
  <2>2. FiledPast /\ TakenPast /\ HeardApart /\ HeldLater /\ FiledOnce
    BY <2>1 DEF OnceInv
  <2>3. \A k \in Nat : PastWindow(k)' <=> PastWindow(k)
    BY <1>1 DEF PastWindow
  <2>4. FiledPast'
    BY <1>1, <1>2, <1>3, <2>2, <2>3 DEF FiledPast, TakenPast
  <2>5. TakenPast'
    <3>1. ASSUME NEW x \in Busy', NEW k \in x.clip PROVE PastWindow(k)'
      BY <1>7, <2>2, <2>3, TaskIs DEF TakenPast, Busy
    <3>2. ASSUME NEW x \in Busy', NEW k \in Own(x) PROVE ~Filed(k)'
      <4>1. k \in Nat /\ ~Filed(k) /\ k \notin Own(t)
        BY <1>2, <1>7, <2>2, TaskIs DEF TakenPast, Busy, Own
      <4> QED BY <1>3, <4>1
    <3> QED BY <1>7, <2>2, <3>1, <3>2 DEF TakenPast
  <2>6. HeardApart'
    <3>1. loop.heard \subseteq Nat
      BY DEF VoiceRows, LoopRows
    <3> QED BY <1>1, <1>2, <1>3, <1>7, <2>2, <3>1 DEF HeardApart
  <2>7. HeldLater'
    BY <1>1, <1>2, <1>3, <1>7, <2>2 DEF HeldLater
  <2>8. FiledOnce'
    BY <1>2, <1>3, <2>2 DEF TakenPast
  <2> QED BY <2>4, <2>5, <2>6, <2>7, <2>8
<1> QED BY <1>5, <1>8 DEF OnceInv

\* What is taken of the ask that is held: its window is remembered, and nothing taken or filed so far
\* is past its beginning.
LEMMA Taking ==
  ASSUME VoiceInv, NEW t \in desk.tasks, TakeClip(t), audio.held.id = t.id
  PROVE  VoiceInv'
<1> USE DEF VoiceInv
<1> DEFINE clip == Clip(audio.held)
           u == [t EXCEPT !.pc = IF clip = {} THEN "reply" ELSE "stt", !.clip = clip, !.begin = audio.held.begin]
<1>1. /\ UNCHANGED <<micVars, live, replies, plays, writes, played, loop, filings>> /\ VoiceSpent
      /\ Move(t, u) /\ handled' = handled \cup clip /\ audio' = Taken /\ t.pc = "wait"
  BY DEF TakeClip, VoiceSpent
<1>2. clip \subseteq 1..Pos /\ clip \subseteq Nat /\ audio.held.begin \in Nat /\ Pos' = Pos
  BY <1>1, WindowIs, TaskIs DEF HeldRows, micVars, Pos
<1> HIDE DEF clip
<1>3. /\ u \in TaskRows /\ u.no = t.no /\ u.id = t.id /\ u.clip = clip /\ u.begin = audio.held.begin
      /\ u.pc \in {"reply", "stt"}
  BY <1>2, TaskIs DEF TaskRows
<1> HIDE DEF u
<1>4. /\ desk' \in DeskRows /\ desk'.held = desk.held /\ desk'.last = desk.last /\ desk'.made = desk.made
      /\ desk'.tasks = (desk.tasks \ {t}) \cup {u}
      /\ \A x, y \in desk'.tasks : x.no = y.no => x = y
      /\ \A x \in desk'.tasks : x.id \in 1..desk'.last /\ x.no \in 1..desk'.made /\ x.clip \subseteq 1..Pos
      /\ \A x \in desk'.tasks : \E y \in desk.tasks : x.id = y.id /\ x.no = y.no
  BY <1>1, <1>2, <1>3, TaskMoves
<1>5. audio.held.id # 0 /\ desk.held = 0
  BY TaskIs DEF VoiceBoundsKept, DeskShape
<1>6. PICK b \in Nat : Window(audio.held) = <<audio.held.start, b>> /\ \A k \in clip : k <= b /\ k > audio.held.start
  BY WindowIs DEF clip
<1>7. audio'.held = NoAsk /\ audio'.windows = Remember(<<audio.held.start, b>>) /\ audio.held.start \in Nat
  BY <1>1, <1>6, TaskIs DEF Taken, HeldRows
<1>8. /\ audio'.windows \in Seq(Nat \X Nat) /\ Len(audio'.windows) <= MaxWindows
      /\ Len(audio'.windows) \in Nat /\ Len(audio'.windows) <= Len(audio.windows) + 1
      /\ Len(audio.windows) + 1 <= MaxWindows =>
           \A k \in Nat : PastWindow(k) \/ (k > audio.held.start /\ k <= b) => PastWindow(k)'
  BY <1>7, Remembered
<1>9. Len(audio.windows) \in Nat /\ Len(audio.windows) + 1 <= desk.last
  BY <1>5 DEF DeskShape, VoiceRows
<1>10. VoiceRows'
  <2>1. audio' \in [held : HeldRows, windows : Seq(Nat \X Nat)]
    BY <1>1, <1>7, <1>8, VoiceNames DEF Taken
  <2>2. voiceBudget' \in [VoiceEvents -> Nat]
    BY <1>1, VoiceCounted DEF VoiceRows
  <2> QED BY <1>1, <1>2, <1>4, <1>8, <2>1, <2>2 DEF VoiceRows, micVars
<1>11. VoiceBoundsKept'
  <2>1. /\ audio'.held.id \in {0, desk'.last} /\ audio'.held.begin \in 0..Pos
        /\ audio'.held.start <= audio'.held.begin
    <3>1. audio'.held.id = 0 /\ audio'.held.begin = 0 /\ audio'.held.start = 0
      BY <1>7, VoiceNames
    <3> QED BY <3>1, TaskIs
  <2>2. UNCHANGED <<finals, replies, loop, filings>>
    BY <1>1 DEF micVars
  <2> QED BY <1>2, <1>4, <2>1, <2>2 DEF VoiceBoundsKept
<1>12. DeskShape'
  <2>1. Len(audio'.windows) + (IF audio'.held.id # 0 THEN 1 ELSE 0) <= desk'.last
    BY <1>4, <1>7, <1>8, <1>9, VoiceNames, TaskIs
  <2> QED BY <1>4, <1>5, <2>1 DEF DeskShape
<1>13. OneAnswers' /\ PlaysSound'
  <2>1. Never({"limit"})' => Never({"limit"})
    BY <1>1, VoiceCounted DEF VoiceRows
  <2>2. OneAnswers'
    BY <1>4, <1>7, <2>1, VoiceNames DEF OneAnswers
  <2> QED BY <1>1, <2>2 DEF PlaysSound
<1>14. ASSUME Unforgotten' PROVE (FiledPast /\ TakenPast /\ HeardApart /\ HeldLater /\ FiledOnce)'
  <2>1. Unforgotten
    BY <1>1, <1>4, <1>14, StillUnforgotten, TaskIs
  <2>2. FiledPast /\ TakenPast /\ HeardApart /\ HeldLater /\ FiledOnce
    BY <2>1 DEF OnceInv
  <2>3. Len(audio.windows) + 1 <= MaxWindows
    BY <1>9, <2>1, TaskIs, VoiceNames DEF Unforgotten
  <2>4. /\ \A k \in Nat : PastWindow(k) => PastWindow(k)'
        /\ \A k \in clip : PastWindow(k)'
    BY <1>2, <1>6, <1>8, <2>3
  <2>5. \A k \in Nat : Filed(k)' <=> Filed(k)
    BY <1>1 DEF Filed
  <2>6. \A x \in Busy' : (x \in Busy /\ x # t) \/ x = u
    BY <1>4 DEF Busy
  <2>7. \A k \in Own(u) : /\ k \in Nat /\ ~Filed(k) /\ k \notin loop.heard
                          /\ \A x \in Busy : k \notin Own(x)
    <3>1. \A k \in Own(u) : k \in Nat /\ ~(k <= audio.held.begin)
      BY <1>2, <1>3 DEF Own
    <3> QED BY <1>5, <2>2, <3>1 DEF HeldLater
  <2>8. FiledPast' /\ FiledOnce'
    BY <1>1, <2>2, <2>4, <2>5 DEF FiledPast, FiledOnce
  <2>9. TakenPast'
    <3>1. ASSUME NEW x \in Busy', NEW k \in x.clip PROVE PastWindow(k)'
      BY <1>3, <2>2, <2>4, <2>6, TaskIs DEF TakenPast, Busy
    <3>2. ASSUME NEW x \in Busy', NEW k \in Own(x) PROVE ~Filed(k)'
      <4>1. k \in Nat /\ ~Filed(k)
        BY <2>2, <2>6, <2>7, TaskIs DEF TakenPast, Busy, Own
      <4> QED BY <2>5, <4>1
    <3>3. ASSUME NEW x \in Busy', NEW y \in Busy', x # y PROVE Own(x) \cap Own(y) = {}
      BY <2>2, <2>6, <2>7, <3>3 DEF TakenPast
    <3> QED BY <3>1, <3>2, <3>3 DEF TakenPast
  <2>10. HeardApart'
    <3>1. loop.heard \subseteq Nat
      BY DEF VoiceRows, LoopRows
    <3> QED BY <1>1, <2>2, <2>5, <2>6, <2>7, <3>1 DEF HeardApart
  <2>11. HeldLater'
    BY <1>7, VoiceNames DEF HeldLater
  <2> QED BY <2>8, <2>9, <2>10, <2>11
<1> QED BY <1>10, <1>11, <1>12, <1>13, <1>14 DEF OnceInv

\* A task ends with its reply.
LEMMA Replying ==
  ASSUME VoiceInv, NEW t \in desk.tasks, Reply(t)
  PROVE  VoiceInv'
<1> USE DEF VoiceInv
<1>1. /\ UNCHANGED <<micVars, live, audio, plays, writes, played, loop, filings, handled>> /\ VoiceSpent
      /\ replies' = Append(replies, t.id) /\ desk' = [desk EXCEPT !.tasks = @ \ {t}]
  BY DEF Reply, VoiceSpent, loopVars
<1>2. /\ desk' \in DeskRows /\ desk'.held = desk.held /\ desk'.last = desk.last /\ desk'.made = desk.made
      /\ desk'.tasks = desk.tasks \ {t}
  BY <1>1, TaskIs DEF DeskRows
<1>3. /\ UNCHANGED <<said, finals, echoes>> /\ Pos' = Pos /\ voiceBudget' \in [VoiceEvents -> Nat]
      /\ Never({"limit"})' => Never({"limit"})
  BY <1>1, VoiceCounted DEF micVars, Pos, VoiceRows
<1>4. /\ t.id \in Nat /\ t.id \in 1..desk.last
      /\ replies' \in Seq(Nat) /\ Range(replies') \subseteq 1..desk.last
  <2>1. t.id \in Nat /\ t.id \in 1..desk.last /\ replies \in Seq(Nat)
    BY TaskIs DEF VoiceBoundsKept, VoiceRows
  <2>2. /\ replies' \in Seq(Nat) /\ DOMAIN replies' = DOMAIN replies \cup {Len(replies) + 1}
        /\ replies'[Len(replies) + 1] = t.id /\ \A i \in DOMAIN replies : replies'[i] = replies[i]
    BY <1>1, <2>1
  <2>3. \A i \in DOMAIN replies : replies[i] \in 1..desk.last
    BY DEF VoiceBoundsKept, Range
  <2> QED BY <2>1, <2>2, <2>3 DEF Range
<1>5. VoiceRows' /\ VoiceBoundsKept'
  BY <1>1, <1>2, <1>3, <1>4 DEF VoiceRows, VoiceBoundsKept
<1>6. DeskShape' /\ OneAnswers' /\ PlaysSound'
  <2>1. DeskShape'
    BY <1>1, <1>2 DEF DeskShape
  <2>2. OneAnswers'
    BY <1>1, <1>2, <1>3 DEF OneAnswers
  <2>3. PlaysSound'
    BY <1>1 DEF PlaysSound
  <2> QED BY <2>1, <2>2, <2>3
<1>7. OnceInv'
  <2>1. Unforgotten' => Unforgotten
    BY <1>1, <1>2, StillUnforgotten, TaskIs
  <2>2. Busy' \subseteq Busy /\ \A x, y \in Busy' : x.no = y.no => x = y
    BY <1>2 DEF Busy, DeskShape
  <2> QED BY <1>1, <2>1, <2>2, OnceStays
<1> QED BY <1>5, <1>6, <1>7

-----------------------------------------------------------------------------
(* Voice: the client *)

\* A new task: the desk is as it was but for it, and it waits for its audio.
LEMMA FinishIs ==
  ASSUME VoiceInv, NEW id \in 1..desk.last, desk' = Finish(id)
  PROVE  /\ desk' \in DeskRows /\ desk'.held = 0 /\ desk'.last = desk.last /\ desk'.made = desk.made + 1
         /\ \E u \in TaskRows : /\ u.id = id /\ u.no = desk.made + 1 /\ u.pc = "wait" /\ u.clip = {}
                                /\ desk'.tasks = desk.tasks \cup {u}
         /\ \A x, y \in desk'.tasks : x.no = y.no => x = y
         /\ \A x \in desk'.tasks : x.id \in 1..desk'.last /\ x.no \in 1..desk'.made /\ x.clip \subseteq 1..Pos
         /\ \A x \in desk'.tasks : x.pc \in {"stt", "file"} => x \in desk.tasks
<1> USE DEF VoiceInv
<1> DEFINE u == [id |-> id, no |-> desk.made + 1, pc |-> "wait", clip |-> {}, begin |-> 0]
<1>1. u \in TaskRows /\ u.id = id /\ u.no = desk.made + 1 /\ u.pc = "wait" /\ u.clip = {}
  BY TaskIs DEF TaskRows
<1>2. desk' = [desk EXCEPT !.held = 0, !.made = @ + 1, !.tasks = @ \cup {u}]
  BY DEF Finish
<1> HIDE DEF u
<1>3. /\ desk' \in DeskRows /\ desk'.held = 0 /\ desk'.last = desk.last /\ desk'.made = desk.made + 1
      /\ desk'.tasks = desk.tasks \cup {u}
  <2>1. desk \in DeskRows /\ desk.made + 1 \in Nat /\ desk.tasks \cup {u} \in SUBSET TaskRows /\ 0 \in Nat
    BY <1>1, TaskIs DEF DeskRows
  <2>2. desk' = [held |-> 0, tasks |-> desk.tasks \cup {u}, last |-> desk.last, made |-> desk.made + 1]
    BY <1>2, <2>1 DEF DeskRows
  <2> QED BY <2>1, <2>2 DEF DeskRows
<1>4. \A x, y \in desk'.tasks : x.no = y.no => x = y
  <2>1. \A x, y \in desk.tasks : x.no = y.no => x = y
    BY DEF DeskShape
  <2>2. \A x \in desk.tasks : x.no # u.no
    BY <1>1, TaskIs
  <2> QED BY <1>3, <2>1, <2>2
<1>5. \A x \in desk'.tasks : x.id \in 1..desk'.last /\ x.no \in 1..desk'.made /\ x.clip \subseteq 1..Pos
  <2>1. \A x \in desk.tasks : x.id \in 1..desk.last /\ x.no \in 1..desk.made /\ x.clip \subseteq 1..Pos
    BY DEF VoiceBoundsKept
  <2> QED BY <1>1, <1>3, <2>1, TaskIs
<1> QED BY <1>1, <1>3, <1>4, <1>5

\* The stream goes on, and an ask held to the limit is answered.
LEMMA Speaking ==
  ASSUME VoiceInv, NEW kind \in Kinds, Speak(kind)
  PROVE  VoiceInv'
<1> USE DEF VoiceInv
<1> DEFINE limit == desk.held # 0 /\ Complete(audio.held, Pos + 1)
<1>1. /\ UNCHANGED <<finals, echoes, live, audio, replies, plays, writes, played, loop, filings, handled>>
      /\ Pos < MaxPos /\ said' = Append(said, kind) /\ VoiceSpent
      /\ limit => desk' = Finish(desk.held) /\ VoiceSpend("limit")
      /\ ~limit => desk' = desk
  BY DEF Speak, VoiceSpent, VoiceEvents, loopVars, Kinds
<1> HIDE DEF limit
<1>2. /\ said' \in Seq(Kinds) /\ Pos' = Pos + 1 /\ Pos' <= MaxPos /\ Pos \in Nat
  BY <1>1, VoiceNames, TaskIs DEF VoiceRows, Pos
<1>3. /\ voiceBudget' \in [VoiceEvents -> Nat]
      /\ Never({"limit"})' => Never({"limit"}) /\ ~limit
  BY <1>1, VoiceCounted DEF VoiceRows
<1>4. desk.held \in {0, desk.last} /\ (limit => desk.held \in 1..desk.last)
  <2>1. desk.held \in {0, desk.last} /\ desk.last \in Nat
    BY TaskIs DEF DeskShape
  <2> QED BY <2>1 DEF limit
<1>5. /\ desk' \in DeskRows /\ desk'.last = desk.last /\ \A x, y \in desk'.tasks : x.no = y.no => x = y
      /\ \A x \in desk'.tasks : x.id \in 1..desk'.last /\ x.no \in 1..desk'.made /\ x.clip \subseteq 1..Pos
      /\ \A x \in desk'.tasks : x.pc \in {"stt", "file"} => x \in desk.tasks
  <2>1. CASE limit
    BY <1>1, <1>4, <2>1, FinishIs
  <2>2. CASE ~limit
    BY <1>1, <2>2, TaskIs DEF VoiceBoundsKept, DeskShape
  <2> QED BY <2>1, <2>2
<1>6. VoiceRows'
  <2>1. finals \in 0..Pos' /\ handled \subseteq 1..Pos'
    BY <1>2 DEF VoiceRows
  <2> QED BY <1>1, <1>2, <1>3, <1>5, <2>1 DEF VoiceRows
<1>7. VoiceBoundsKept'
  <2>1. 1..Pos \subseteq 1..Pos' /\ 0..Pos \subseteq 0..Pos'
    BY <1>2
  <2>2. \A x \in desk'.tasks : x.id \in 1..desk'.last /\ x.no \in 1..desk'.made /\ x.clip \subseteq 1..Pos'
    BY <1>5, <2>1
  <2>3. \A i \in DOMAIN filings : filings[i].held \subseteq 1..Pos'
    BY <2>1 DEF VoiceBoundsKept
  <2> QED BY <1>1, <1>2, <1>5, <2>1, <2>2, <2>3 DEF VoiceBoundsKept
<1>8. DeskShape'
  <2>1. CASE limit
    <3>1. desk'.held = 0
      BY <1>1, <1>4, <2>1, FinishIs
    <3> QED BY <1>1, <1>5, <3>1 DEF DeskShape
  <2>2. CASE ~limit
    BY <1>1, <2>2 DEF DeskShape
  <2> QED BY <2>1, <2>2
<1>9. OneAnswers' /\ PlaysSound'
  <2>1. PlaysSound'
    BY <1>1 DEF PlaysSound
  <2>2. ASSUME Never({"limit"})' PROVE Never({"limit"}) /\ desk' = desk /\ audio' = audio
    BY <1>1, <1>3, <2>2
  <2> QED BY <2>1, <2>2 DEF OneAnswers
<1>10. OnceInv'
  <2>1. Unforgotten' => Unforgotten
    BY <1>1, <1>5, StillUnforgotten, TaskIs
  <2>2. Busy' \subseteq Busy /\ \A x, y \in Busy' : x.no = y.no => x = y
    BY <1>5 DEF Busy
  <2> QED BY <1>1, <2>1, <2>2, OnceStays
<1> QED BY <1>6, <1>7, <1>8, <1>9, <1>10

\* The key is let go: the ask ends, not later than the limit, and a task of its own answers.
LEMMA LettingGo ==
  ASSUME VoiceInv, NEW ahead \in {0, 1}, LetGo(ahead)
  PROVE  VoiceInv'
<1> USE DEF VoiceInv
<1> DEFINE ends == {Pos + ahead, audio.held.begin + MaxHold}
           end == Min(ends)
<1>1. /\ UNCHANGED <<micVars, live, replies, plays, writes, played, loop, filings, handled, voiceBudget>>
      /\ audio.held.id # 0 /\ audio.held.end = Unended /\ desk' = Finish(audio.held.id)
      /\ audio' = [audio EXCEPT !.held.end = end]
  BY DEF LetGo, loopVars
<1>2. end \in Nat /\ end < Unended
  <2>1. Pos \in Nat /\ MaxPos \in Nat /\ MaxHold \in Nat /\ Pos <= MaxPos /\ audio.held.begin \in 0..Pos
    BY VoiceNames, TaskIs DEF VoiceBoundsKept
  <2>2. ends \in SUBSET Nat /\ ends # {}
    BY <2>1
  <2>3. end \in Nat /\ end <= audio.held.begin + MaxHold
    BY <2>2, SmallestNumber
  <2> QED BY <2>1, <2>3 DEF Unended
<1> HIDE DEF end
<1>3. /\ audio' \in [held : HeldRows, windows : Seq(Nat \X Nat)] /\ audio'.windows = audio.windows
      /\ audio'.held.id = audio.held.id /\ audio'.held.begin = audio.held.begin
      /\ audio'.held.start = audio.held.start /\ audio'.held.end = end
  <2>1. audio \in [held : HeldRows, windows : Seq(Nat \X Nat)]
    BY DEF VoiceRows
  <2>2. audio' = [audio EXCEPT !.held = [audio.held EXCEPT !.end = end]]
    BY <1>1, <2>1 DEF HeldRows
  <2> QED BY <1>2, <2>1, <2>2 DEF HeldRows
<1>4. audio.held.id = desk.last /\ audio.held.id \in 1..desk.last
  BY <1>1, TaskIs DEF VoiceBoundsKept
<1>5. /\ desk' \in DeskRows /\ desk'.held = 0 /\ desk'.last = desk.last /\ desk'.made = desk.made + 1
      /\ \E u \in TaskRows : /\ u.id = audio.held.id /\ u.no = desk.made + 1 /\ desk'.tasks = desk.tasks \cup {u}
      /\ \A x, y \in desk'.tasks : x.no = y.no => x = y
      /\ \A x \in desk'.tasks : x.id \in 1..desk'.last /\ x.no \in 1..desk'.made /\ x.clip \subseteq 1..Pos
      /\ \A x \in desk'.tasks : x.pc \in {"stt", "file"} => x \in desk.tasks
  BY <1>1, <1>4, FinishIs
<1>6. UNCHANGED <<said, finals, echoes>> /\ Pos' = Pos /\ VoiceSpent
  BY <1>1 DEF micVars, Pos, VoiceSpent
<1>7. VoiceRows' /\ VoiceBoundsKept'
  BY <1>1, <1>3, <1>5, <1>6 DEF VoiceRows, VoiceBoundsKept
<1>8. DeskShape'
  BY <1>3, <1>5 DEF DeskShape
<1>9. OneAnswers'
  <2>1. audio'.held.end # Unended
    BY <1>2, <1>3, VoiceNames
  <2>2. ASSUME Never({"limit"}) PROVE \A t \in desk'.tasks : t.id = desk'.last /\ t.no = desk'.made
    <3>1. desk.tasks = {}
      BY <1>1, <2>2 DEF OneAnswers
    <3> QED BY <1>4, <1>5, <3>1
  <2> QED BY <1>1, <2>1, <2>2 DEF OneAnswers, Never
<1>10. PlaysSound'
  BY <1>1 DEF PlaysSound
<1>11. OnceInv'
  <2>1. Unforgotten' => Unforgotten
    BY <1>5, <1>6, StillUnforgotten, TaskIs
  <2>2. Busy' \subseteq Busy /\ \A x, y \in Busy' : x.no = y.no => x = y
    BY <1>5 DEF Busy
  <2> QED BY <1>1, <1>3, <2>1, <2>2, OnceStays
<1> QED BY <1>7, <1>8, <1>9, <1>10, <1>11

\* The desk drops the ask that is held and the task made last: what is left.
LEMMA CancelledIs ==
  ASSUME VoiceInv
  PROVE  /\ Cancelled \in DeskRows /\ Cancelled.held = 0 /\ Cancelled.last = desk.last /\ Cancelled.made = desk.made
         /\ Cancelled.tasks \subseteq desk.tasks /\ \A t \in Cancelled.tasks : t.no # desk.made
  BY TaskIs DEF Cancelled, DeskRows

\* The ask that is held is taken from the audio: its window is remembered.
LEMMA TakenIs ==
  ASSUME VoiceInv, audio'.windows = Taken.windows
  PROVE  /\ audio'.windows \in Seq(Nat \X Nat) /\ Len(audio'.windows) <= MaxWindows /\ Len(audio'.windows) \in Nat
         /\ Len(audio'.windows) <= Len(audio.windows) + 1
         /\ Len(audio.windows) + 1 <= MaxWindows => \A k \in Nat : PastWindow(k) => PastWindow(k)'
<1>1. PICK b \in Nat : Window(audio.held) = <<audio.held.start, b>>
  BY WindowIs
<1>2. audio.held.start \in Nat /\ audio'.windows = Remember(<<audio.held.start, b>>)
  BY <1>1, TaskIs DEF Taken, HeldRows
<1> QED BY <1>2, Remembered

\* The key is pressed: an ask that was held is dropped and its window remembered, the task made last
\* is cancelled, and the new ask begins after all that was filed, taken or heard.
LEMMA Pressing ==
  ASSUME VoiceInv, Press
  PROVE  VoiceInv'
<1> USE DEF VoiceInv
<1>1. /\ UNCHANGED <<micVars, live, replies, plays, writes, played, loop, filings>> /\ VoiceSpent
      /\ desk.last < MaxAsks /\ desk' = [Cancelled EXCEPT !.held = desk.last + 1, !.last = desk.last + 1]
      /\ handled' = IF desk.held # 0 THEN handled \cup Clip(audio.held) ELSE handled
  BY DEF Press, VoiceSpent, VoiceEvents
<1> DEFINE start == IF Pos < Preroll THEN 0 ELSE Pos - Preroll
           before == IF desk.held # 0 THEN Taken ELSE audio
           ask == [id |-> desk.last + 1, begin |-> Pos, start |-> start, end |-> Unended]
<1>2. audio' = [before EXCEPT !.held = ask]
  BY DEF Press
<1>3. start \in Nat /\ start <= Pos
  BY VoiceNames, TaskIs
<1> HIDE DEF start
<1>4. ask \in HeldRows /\ ask.id = desk.last + 1 /\ ask.begin = Pos /\ ask.start = start /\ ask.end = Unended
  BY <1>3, VoiceNames, TaskIs DEF HeldRows
<1> HIDE DEF ask
<1>5. /\ audio'.windows = before.windows /\ audio'.held = ask
      /\ audio' = [held |-> ask, windows |-> before.windows]
  <2>1. CASE desk.held # 0
    BY <1>2, <2>1 DEF Taken
  <2>2. CASE desk.held = 0
    BY <1>2, <2>2 DEF VoiceRows
  <2> QED BY <2>1, <2>2
<1>6. /\ audio'.windows \in Seq(Nat \X Nat) /\ Len(audio'.windows) <= MaxWindows /\ Len(audio'.windows) \in Nat
      /\ Len(audio'.windows) <= desk.last
      /\ desk.last <= MaxWindows => \A k \in Nat : PastWindow(k) => PastWindow(k)'
  <2>1. Len(audio.windows) \in Nat /\ desk.last \in Nat /\ MaxWindows \in Nat
    BY VoiceNames, TaskIs DEF VoiceRows
  <2>2. CASE desk.held # 0
    <3>1. audio.held.id # 0 /\ Len(audio.windows) + 1 <= desk.last
      BY <2>2 DEF DeskShape
    <3>2. audio'.windows = Taken.windows
      BY <1>5, <2>2
    <3>3. /\ audio'.windows \in Seq(Nat \X Nat) /\ Len(audio'.windows) <= MaxWindows /\ Len(audio'.windows) \in Nat
          /\ Len(audio'.windows) <= Len(audio.windows) + 1
          /\ Len(audio.windows) + 1 <= MaxWindows => \A k \in Nat : PastWindow(k) => PastWindow(k)'
      BY <3>2, TakenIs
    <3> QED BY <2>1, <3>1, <3>3
  <2>3. CASE desk.held = 0
    <3>1. audio'.windows = audio.windows
      BY <1>5, <2>3
    <3>2. Len(audio.windows) <= desk.last
      <4>1. Len(audio.windows) + (IF audio.held.id # 0 THEN 1 ELSE 0) <= desk.last
        BY DEF DeskShape
      <4>2. CASE audio.held.id # 0
        BY <2>1, <4>1, <4>2
      <4>3. CASE audio.held.id = 0
        BY <2>1, <4>1, <4>3
      <4> QED BY <4>2, <4>3
    <3> QED BY <2>1, <3>1, <3>2 DEF VoiceRows, PastWindow
  <2> QED BY <2>2, <2>3
<1> HIDE DEF before
<1>7. /\ desk' \in DeskRows /\ desk'.held = desk.last + 1 /\ desk'.last = desk.last + 1 /\ desk'.made = desk.made
      /\ desk'.tasks \subseteq desk.tasks /\ \A t \in desk'.tasks : t.no # desk.made
  <2>1. desk.last + 1 \in Nat /\ desk.last + 1 \in 0..MaxAsks
    BY <1>1, TaskIs, VoiceNames
  <2> QED BY <1>1, <2>1, CancelledIs, TaskIs DEF DeskRows
<1>8. UNCHANGED <<said, finals, echoes>> /\ Pos' = Pos
  BY <1>1 DEF micVars, Pos
<1>9. /\ voiceBudget' \in [VoiceEvents -> Nat]
      /\ Never({"limit"})' => Never({"limit"})
  BY <1>1, VoiceCounted DEF VoiceRows
<1>10. VoiceRows'
  <2>1. handled' \subseteq 1..Pos
    BY <1>1, WindowIs DEF VoiceRows
  <2>2. audio' \in [held : HeldRows, windows : Seq(Nat \X Nat)]
    BY <1>4, <1>5, <1>6
  <2> QED BY <1>1, <1>6, <1>7, <1>8, <1>9, <2>1, <2>2 DEF VoiceRows
<1>11. VoiceBoundsKept'
  <2>1. 1..desk.last \subseteq 1..desk'.last
    BY <1>7, TaskIs
  <2>2. \A t \in desk'.tasks : t.id \in 1..desk'.last /\ t.no \in 1..desk'.made /\ t.clip \subseteq 1..Pos
    BY <1>7, <2>1 DEF VoiceBoundsKept
  <2>3. /\ audio'.held.id = desk'.last /\ audio'.held.begin \in 0..Pos /\ audio'.held.start <= audio'.held.begin
    BY <1>3, <1>4, <1>5, <1>7, TaskIs
  <2>4. Range(replies) \subseteq 1..desk'.last
    BY <2>1 DEF VoiceBoundsKept
  <2> QED BY <1>1, <1>8, <2>2, <2>3, <2>4 DEF VoiceBoundsKept
<1>12. DeskShape'
  <2>1. \A t \in desk'.tasks : t.id # desk'.last
    <3>1. \A t \in desk.tasks : t.id \in 1..desk.last
      BY DEF VoiceBoundsKept
    <3> QED BY <1>7, <3>1, TaskIs
  <2>2. Len(audio'.windows) + 1 <= desk'.last
    BY <1>6, <1>7, TaskIs
  <2>3. audio'.held.id = desk'.held /\ audio'.held.end = Unended /\ desk'.held # 0
    BY <1>4, <1>5, <1>7, TaskIs
  <2>4. \A x, y \in desk'.tasks : x.no = y.no => x = y
    BY <1>7 DEF DeskShape
  <2> QED BY <1>7, <2>1, <2>2, <2>3, <2>4 DEF DeskShape
<1>13. OneAnswers' /\ PlaysSound'
  <2>1. ASSUME Never({"limit"})' PROVE desk'.tasks = {}
    <3>1. \A t \in desk.tasks : t.no = desk.made
      BY <1>9, <2>1 DEF OneAnswers
    <3> QED BY <1>7, <3>1
  <2> QED BY <1>1, <2>1 DEF OneAnswers, PlaysSound
<1>14. ASSUME Unforgotten' PROVE (FiledPast /\ TakenPast /\ HeardApart /\ HeldLater /\ FiledOnce)'
  <2>1. Unforgotten
    BY <1>1, <1>7, <1>14, StillUnforgotten, TaskIs
  <2>2. FiledPast /\ TakenPast /\ HeardApart /\ HeldLater /\ FiledOnce
    BY <2>1 DEF OnceInv
  <2>3. \A k \in Nat : PastWindow(k) => PastWindow(k)'
    BY <1>6, <2>1 DEF Unforgotten
  <2>4. \A k \in Nat : Filed(k)' <=> Filed(k)
    BY <1>1 DEF Filed
  <2>5. Busy' \subseteq Busy /\ \A t \in Busy : t.clip \subseteq Nat /\ Own(t) \subseteq t.clip
    BY <1>7, TaskIs DEF Busy, Own
  <2>6. FiledPast' /\ FiledOnce'
    BY <1>1, <2>2, <2>3, <2>4 DEF FiledPast, FiledOnce
  <2>7. TakenPast'
    <3>1. ASSUME NEW x \in Busy', NEW k \in x.clip PROVE PastWindow(k)'
      BY <2>2, <2>3, <2>5 DEF TakenPast
    <3>2. ASSUME NEW x \in Busy', NEW k \in Own(x) PROVE ~Filed(k)'
      BY <2>2, <2>4, <2>5 DEF TakenPast
    <3> QED BY <2>2, <2>5, <3>1, <3>2 DEF TakenPast
  <2>8. HeardApart'
    <3>1. loop.heard \subseteq Nat
      BY DEF VoiceRows, LoopRows
    <3> QED BY <1>1, <2>2, <2>4, <2>5, <3>1 DEF HeardApart
  <2>9. HeldLater'
    <3>1. ASSUME NEW k \in Nat, Filed(k) PROVE k <= Pos
      BY <3>1 DEF Filed, VoiceBoundsKept
    <3>2. ASSUME NEW k \in loop.heard PROVE k <= Pos
      <4>1. k \in 1..finals /\ finals \in 0..Pos
        BY <3>2 DEF VoiceRows, VoiceBoundsKept
      <4> QED BY <4>1, TaskIs
    <3>3. ASSUME NEW t \in Busy, NEW k \in Own(t) PROVE k <= Pos
      BY <3>3 DEF Busy, Own, VoiceBoundsKept
    <3>4. audio'.held.begin = Pos
      BY <1>4, <1>5
    <3> QED BY <1>1, <2>4, <2>5, <3>1, <3>2, <3>3, <3>4 DEF HeldLater
  <2> QED BY <2>6, <2>7, <2>8, <2>9
<1> QED BY <1>10, <1>11, <1>12, <1>13, <1>14 DEF OnceInv

\* The session ends: an ask that is held is dropped, as is the task made last, and the loop's request.
LEMMA Stopping ==
  ASSUME VoiceInv, StopVoice
  PROVE  VoiceInv'
<1> USE DEF VoiceInv
<1>1. /\ UNCHANGED <<micVars, replies, plays, writes, played, filings>> /\ VoiceSpent /\ VoiceSpend("end")
      /\ live' = "ending" /\ desk' = Cancelled /\ loop' = [loop EXCEPT !.pc = "idle", !.heard = {}]
      /\ audio' = IF desk.held # 0 THEN Taken ELSE audio
      /\ handled' = IF desk.held # 0 THEN handled \cup Clip(audio.held) ELSE handled
  BY DEF StopVoice, VoiceSpent, VoiceEvents
<1>2. /\ desk' \in DeskRows /\ desk'.held = 0 /\ desk'.last = desk.last /\ desk'.made = desk.made
      /\ desk'.tasks \subseteq desk.tasks /\ \A t \in desk'.tasks : t.no # desk.made
  BY <1>1, CancelledIs
<1>3. UNCHANGED <<said, finals, echoes>> /\ Pos' = Pos
  BY <1>1 DEF micVars, Pos
<1>4. /\ voiceBudget' \in [VoiceEvents -> Nat] /\ ~Never({"end"})'
      /\ Never({"limit"})' => Never({"limit"})
  BY <1>1, VoiceCounted DEF VoiceRows
<1>5. loop' \in LoopRows /\ loop'.pc = "idle" /\ loop'.cursor = loop.cursor /\ loop'.heard = {} /\ loop'.until = loop.until
  BY <1>1 DEF VoiceRows, LoopRows
<1>6. /\ audio' \in [held : HeldRows, windows : Seq(Nat \X Nat)] /\ Len(audio'.windows) <= MaxWindows
      /\ audio'.held = NoAsk \/ audio'.held = audio.held
      /\ Len(audio'.windows) + (IF audio'.held.id # 0 THEN 1 ELSE 0) <= desk.last
  <2>1. Len(audio.windows) \in Nat /\ desk.last \in Nat
    BY TaskIs DEF VoiceRows
  <2>2. CASE desk.held # 0
    <3>1. audio' = [held |-> NoAsk, windows |-> Taken.windows]
      BY <1>1, <2>2 DEF Taken
    <3>2. audio'.held = NoAsk /\ audio'.windows = Taken.windows
      BY <3>1
    <3>3. audio.held.id # 0 /\ Len(audio.windows) + 1 <= desk.last
      BY <2>2 DEF DeskShape
    <3>4. /\ audio'.windows \in Seq(Nat \X Nat) /\ Len(audio'.windows) <= MaxWindows /\ Len(audio'.windows) \in Nat
          /\ Len(audio'.windows) <= Len(audio.windows) + 1
      BY <3>2, TakenIs
    <3>5. audio' \in [held : HeldRows, windows : Seq(Nat \X Nat)]
      BY <3>1, <3>2, <3>4, VoiceNames
    <3>6. Len(audio'.windows) + (IF audio'.held.id # 0 THEN 1 ELSE 0) <= desk.last
      BY <2>1, <3>2, <3>3, <3>4, VoiceNames
    <3> QED BY <3>2, <3>4, <3>5, <3>6
  <2>3. CASE desk.held = 0
    BY <1>1, <2>3 DEF VoiceRows, DeskShape
  <2> QED BY <2>2, <2>3
<1>7. VoiceRows'
  <2>1. handled' \subseteq 1..Pos
    BY <1>1, WindowIs DEF VoiceRows
  <2> QED BY <1>1, <1>2, <1>3, <1>4, <1>5, <1>6, <2>1 DEF VoiceRows
<1>8. VoiceBoundsKept'
  <2>1. audio'.held.id \in {0, desk'.last} /\ audio'.held.begin \in 0..Pos /\ audio'.held.start <= audio'.held.begin
    <3>1. 0 \in 0..Pos
      BY TaskIs
    <3> QED BY <1>2, <1>6, <3>1, VoiceNames DEF VoiceBoundsKept
  <2> QED BY <1>1, <1>2, <1>3, <1>5, <2>1 DEF VoiceBoundsKept
<1>9. DeskShape'
  BY <1>2, <1>6 DEF DeskShape
<1>10. OneAnswers' /\ PlaysSound'
  <2>1. ASSUME Never({"limit"})' PROVE desk'.tasks = {}
    <3>1. \A t \in desk.tasks : t.no = desk.made
      BY <1>4, <2>1 DEF OneAnswers
    <3> QED BY <1>2, <3>1
  <2> QED BY <1>1, <2>1 DEF OneAnswers, PlaysSound
<1>11. OnceInv'
  <2>1. Unforgotten' => Never({"end"})'
    BY DEF Unforgotten
  <2> QED BY <1>4, <2>1 DEF OnceInv
<1> QED BY <1>7, <1>8, <1>9, <1>10, <1>11

-----------------------------------------------------------------------------
(* Voice: replies that are played *)

\* The start of a reply's playing: it was not played before.
LEMMA Starting ==
  ASSUME VoiceInv, NEW id \in Asks, PlayStarted(id)
  PROVE  VoiceInv'
<1> USE DEF VoiceInv
<1> DEFINE play == <<Pos, 0, id>>
           write == [id |-> id, state |-> "started"]
<1>1. /\ UNCHANGED <<micVars, live, audio, desk, replies, played, loop, filings, handled>> /\ VoiceSpent
      /\ \A i \in DOMAIN plays : plays[i][3] # id
      /\ plays' = Append(plays, play) /\ writes' = Append(writes, write)
  BY DEF PlayStarted, VoiceSpent, VoiceEvents, loopVars
<1>2. play \in PlayRows /\ play[3] = id /\ play[2] = 0
  <2>1. Pos \in Nat /\ id \in Nat
    BY TaskIs DEF Asks
  <2> QED BY <2>1 DEF PlayRows
<1>3. write \in WriteRows /\ write.id = id /\ write.state = "started"
  BY DEF WriteRows
<1> HIDE DEF play, write
<1>4. /\ plays' \in Seq(PlayRows) /\ DOMAIN plays' = DOMAIN plays \cup {Len(plays) + 1}
      /\ plays'[Len(plays) + 1] = play /\ \A i \in DOMAIN plays : plays'[i] = plays[i]
  <2>1. plays \in Seq(PlayRows) /\ plays' = Append(plays, play)
    BY <1>1 DEF VoiceRows
  <2> QED BY <1>2, <2>1
<1>5. /\ writes' \in Seq(WriteRows) /\ DOMAIN writes' = DOMAIN writes \cup {Len(writes) + 1}
      /\ writes'[Len(writes) + 1] = write /\ \A i \in DOMAIN writes : writes'[i] = writes[i]
      /\ \A i \in DOMAIN writes : i < Len(writes) + 1
  <2>1. writes \in Seq(WriteRows) /\ writes' = Append(writes, write)
    BY <1>1 DEF VoiceRows
  <2> QED BY <1>3, <2>1
<1>6. /\ UNCHANGED <<said, finals, echoes>> /\ Pos' = Pos
      /\ voiceBudget' \in [VoiceEvents -> Nat]
      /\ Never({"limit"})' => Never({"limit"})
  BY <1>1, VoiceCounted DEF micVars, Pos, VoiceRows
<1>7. VoiceRows' /\ VoiceBoundsKept' /\ DeskShape' /\ OneAnswers'
  <2>1. VoiceRows'
    BY <1>1, <1>4, <1>5, <1>6 DEF VoiceRows
  <2>2. VoiceBoundsKept' /\ DeskShape'
    BY <1>1, <1>6 DEF VoiceBoundsKept, DeskShape
  <2> QED BY <1>1, <1>6, <2>1, <2>2 DEF OneAnswers
<1>8. OnceInv'
  <2>1. Unforgotten' => Unforgotten
    BY <1>1, StillUnforgotten, TaskIs
  <2>2. Busy' \subseteq Busy /\ \A x, y \in Busy' : x.no = y.no => x = y
    BY <1>1 DEF Busy, DeskShape
  <2> QED BY <1>1, <2>1, <2>2, OnceStays
<1>9. PlaysSound'
  <2>1. \A i \in DOMAIN plays' : plays'[i][3] \in Asks
    BY <1>2, <1>4 DEF PlaysSound
  <2>2. \A i, j \in DOMAIN plays' : plays'[i][3] = plays'[j][3] => i = j
    <3>1. \A i, j \in DOMAIN plays : plays[i][3] = plays[j][3] => i = j
      BY DEF PlaysSound
    <3>2. \A i \in DOMAIN plays' : i \in DOMAIN plays \/ (i = Len(plays) + 1 /\ plays'[i][3] = id)
      BY <1>2, <1>4
    <3>3. \A i \in DOMAIN plays : plays'[i][3] = plays[i][3] /\ plays'[i][3] # id
      BY <1>1, <1>4
    <3> QED BY <3>1, <3>2, <3>3
  <2>3. \A i \in DOMAIN writes : writes[i].id # id
    BY <1>1 DEF PlaysSound
  <2>4. ASSUME NEW i \in DOMAIN writes'
        PROVE  \E j \in DOMAIN plays' : plays'[j][3] = writes'[i].id /\ (writes'[i].state = "done" => plays'[j][2] # 0)
    <3>1. CASE i \in DOMAIN writes
      BY <1>4, <1>5, <3>1 DEF PlaysSound
    <3>2. CASE i = Len(writes) + 1
      BY <1>2, <1>3, <1>4, <1>5, <3>2
    <3> QED BY <1>5, <2>4, <3>1, <3>2
  <2>5. ASSUME NEW a \in Asks, played[a] = "done"
        PROVE  (\A i \in DOMAIN writes' : writes'[i].id # a) /\ \E j \in DOMAIN plays' : plays'[j][3] = a /\ plays'[j][2] # 0
    <3>1. PICK j \in DOMAIN plays : plays[j][3] = a /\ plays[j][2] # 0
      BY <2>5 DEF PlaysSound
    <3>2. a # id /\ \A i \in DOMAIN writes : writes[i].id # a
      BY <1>1, <2>5, <3>1 DEF PlaysSound
    <3> QED BY <1>3, <1>4, <1>5, <3>1, <3>2
  <2>6. ASSUME NEW i \in DOMAIN writes', NEW j \in DOMAIN writes', i < j, writes'[i].id = writes'[j].id
        PROVE  writes'[i].state = "started" /\ writes'[j].state = "done"
    <3>1. DOMAIN writes = 1..Len(writes) /\ Len(writes) \in Nat
      BY DEF VoiceRows
    <3>2. i \in DOMAIN writes
      BY <1>5, <2>6, <3>1
    <3>3. j \in DOMAIN writes
      BY <1>3, <1>5, <2>3, <2>6, <3>2
    <3> QED BY <1>5, <2>6, <3>2, <3>3 DEF PlaysSound
  <2> QED BY <1>1, <2>1, <2>2, <2>4, <2>5, <2>6 DEF PlaysSound
<1> QED BY <1>7, <1>8, <1>9

\* The end of a reply's playing is written after its start.
LEMMA Ending ==
  ASSUME VoiceInv, NEW i \in DOMAIN plays, PlayDone(i)
  PROVE  VoiceInv'
<1> USE DEF VoiceInv
<1> DEFINE until == Max({Pos, 1})
           play == [plays[i] EXCEPT ![2] = until]
           id == plays[i][3]
           write == [id |-> id, state |-> "done"]
<1>1. /\ UNCHANGED <<micVars, live, audio, desk, replies, played, loop, filings, handled, voiceBudget>>
      /\ plays[i][2] = 0 /\ plays' = [plays EXCEPT ![i] = play] /\ writes' = Append(writes, write)
  BY DEF PlayDone, loopVars
<1>2. until \in Nat /\ until # 0
  <2>1. Pos \in Nat
    BY TaskIs
  <2>2. PICK n \in Nat : n >= Pos /\ n >= 1
    BY <2>1
  <2>3. {Pos, 1} \in SUBSET (0..n) /\ {Pos, 1} # {}
    BY <2>1, <2>2
  <2>4. until \in {Pos, 1} /\ until >= 1
    BY <2>3, GreatestNumber
  <2> QED BY <2>1, <2>4
<1> HIDE DEF until
<1>3. play \in PlayRows /\ play[3] = id /\ play[2] = until
  <2>1. plays[i] \in PlayRows
    BY DEF VoiceRows
  <2> QED BY <1>2, <2>1 DEF PlayRows
<1>4. id \in Asks
  BY DEF PlaysSound
<1> HIDE DEF play, id
<1>5. write \in WriteRows /\ write.id = id /\ write.state = "done"
  BY <1>4 DEF WriteRows
<1> HIDE DEF write
<1>6. /\ plays' \in Seq(PlayRows) /\ DOMAIN plays' = DOMAIN plays
      /\ plays'[i] = play /\ \A j \in DOMAIN plays : j # i => plays'[j] = plays[j]
  <2>1. plays \in Seq(PlayRows) /\ plays' = [plays EXCEPT ![i] = play]
    BY <1>1 DEF VoiceRows
  <2> QED BY <1>3, <2>1
<1>7. \A j \in DOMAIN plays : plays'[j][3] = plays[j][3] /\ (plays[j][2] # 0 => plays'[j][2] # 0)
  BY <1>2, <1>3, <1>6 DEF id
<1>8. /\ writes' \in Seq(WriteRows) /\ DOMAIN writes' = DOMAIN writes \cup {Len(writes) + 1}
      /\ writes'[Len(writes) + 1] = write /\ \A j \in DOMAIN writes : writes'[j] = writes[j]
  <2>1. writes \in Seq(WriteRows) /\ writes' = Append(writes, write)
    BY <1>1 DEF VoiceRows
  <2> QED BY <1>5, <2>1
<1>9. UNCHANGED <<said, finals, echoes>> /\ Pos' = Pos /\ VoiceSpent
  BY <1>1 DEF micVars, Pos, VoiceSpent
<1>10. VoiceRows' /\ VoiceBoundsKept' /\ DeskShape' /\ OneAnswers'
  <2>1. VoiceRows'
    BY <1>1, <1>6, <1>8, <1>9 DEF VoiceRows
  <2>2. VoiceBoundsKept' /\ DeskShape'
    BY <1>1, <1>9 DEF VoiceBoundsKept, DeskShape
  <2> QED BY <1>1, <2>1, <2>2 DEF OneAnswers, Never
<1>11. OnceInv'
  <2>1. Unforgotten' => Unforgotten
    BY <1>1, <1>9, StillUnforgotten, TaskIs
  <2>2. Busy' \subseteq Busy /\ \A x, y \in Busy' : x.no = y.no => x = y
    BY <1>1 DEF Busy, DeskShape
  <2> QED BY <1>1, <2>1, <2>2, OnceStays
<1>12. PlaysSound'
  <2>1. /\ \A j \in DOMAIN plays' : plays'[j][3] \in Asks
        /\ \A j, k \in DOMAIN plays' : plays'[j][3] = plays'[k][3] => j = k
    BY <1>6, <1>7 DEF PlaysSound
  <2>2. \A j \in DOMAIN plays : plays[j][3] = id => plays[j][2] = 0
    BY <1>1 DEF PlaysSound, id
  <2>3. plays'[i][3] = id /\ plays'[i][2] # 0
    BY <1>2, <1>3, <1>6
  <2>4. ASSUME NEW k \in DOMAIN writes'
        PROVE  \E j \in DOMAIN plays' : plays'[j][3] = writes'[k].id /\ (writes'[k].state = "done" => plays'[j][2] # 0)
    <3>1. CASE k \in DOMAIN writes
      <4>1. PICK j \in DOMAIN plays : plays[j][3] = writes[k].id /\ (writes[k].state = "done" => plays[j][2] # 0)
        BY <3>1 DEF PlaysSound
      <4> QED BY <1>6, <1>7, <1>8, <3>1, <4>1
    <3>2. CASE k = Len(writes) + 1
      BY <1>5, <1>6, <1>8, <2>3, <3>2
    <3> QED BY <1>8, <2>4, <3>1, <3>2
  <2>5. ASSUME NEW a \in Asks, played[a] = "done"
        PROVE  (\A k \in DOMAIN writes' : writes'[k].id # a) /\ \E j \in DOMAIN plays' : plays'[j][3] = a /\ plays'[j][2] # 0
    <3>1. PICK j \in DOMAIN plays : plays[j][3] = a /\ plays[j][2] # 0
      BY <2>5 DEF PlaysSound
    <3>2. a # id /\ \A k \in DOMAIN writes : writes[k].id # a
      BY <2>2, <2>5, <3>1 DEF PlaysSound
    <3> QED BY <1>5, <1>6, <1>7, <1>8, <3>1, <3>2
  <2>6. ASSUME NEW k \in DOMAIN writes', NEW j \in DOMAIN writes', k < j, writes'[k].id = writes'[j].id
        PROVE  writes'[k].state = "started" /\ writes'[j].state = "done"
    <3>1. DOMAIN writes = 1..Len(writes) /\ Len(writes) \in Nat
      BY DEF VoiceRows
    <3>2. k \in DOMAIN writes
      BY <1>8, <2>6, <3>1
    <3>3. CASE j \in DOMAIN writes
      BY <1>8, <2>6, <3>2, <3>3 DEF PlaysSound
    <3>4. CASE j = Len(writes) + 1
      <4>1. writes[k].id = id /\ writes[k].state \in {"started", "done"}
        <5>1. writes[k] \in WriteRows
          BY <3>2 DEF VoiceRows
        <5> QED BY <1>5, <1>8, <2>6, <3>2, <3>4, <5>1 DEF WriteRows
      <4>2. writes[k].state # "done"
        BY <2>2, <3>2, <4>1 DEF PlaysSound
      <4> QED BY <1>5, <1>8, <3>2, <3>4, <4>1, <4>2
    <3> QED BY <1>8, <2>6, <3>3, <3>4
  <2> QED BY <1>1, <2>1, <2>4, <2>5, <2>6 DEF PlaysSound
<1> QED BY <1>10, <1>11, <1>12

\* The first write that waits is made: its end is not followed by another, and what said so goes on
\* saying it.
LEMMA Storing ==
  ASSUME VoiceInv, StorePlayed
  PROVE  VoiceInv' /\ \A a \in Asks : played[a] = "done" => played'[a] = "done"
<1> USE DEF VoiceInv
<1>1. /\ UNCHANGED <<micVars, live, audio, desk, replies, plays, loop, filings, handled, voiceBudget>>
      /\ writes # <<>> /\ played' = [played EXCEPT ![Head(writes).id] = Head(writes).state]
      /\ writes' = Tail(writes)
  BY DEF StorePlayed, loopVars
<1>2. /\ writes \in Seq(WriteRows) /\ Len(writes) \in Nat /\ Len(writes) > 0
      /\ DOMAIN writes = 1..Len(writes) /\ Head(writes) = writes[1] /\ 1 \in DOMAIN writes
  BY <1>1 DEF VoiceRows
<1>3. /\ writes' \in Seq(WriteRows) /\ Len(writes') = Len(writes) - 1 /\ DOMAIN writes' = 1..(Len(writes) - 1)
      /\ \A i \in DOMAIN writes' : i + 1 \in DOMAIN writes /\ writes'[i] = writes[i + 1]
  BY <1>1, <1>2
<1>4. PICK id \in Asks, state \in {"started", "done"} : writes[1].id = id /\ writes[1].state = state
  <2>1. writes[1] \in WriteRows
    BY <1>2
  <2> QED BY <2>1 DEF WriteRows
<1>5. /\ played' \in [Asks -> {"none", "started", "done"}] /\ played'[id] = state
      /\ \A a \in Asks : a # id => played'[a] = played[a]
  BY <1>1, <1>2, <1>4 DEF VoiceRows
<1>6. UNCHANGED <<said, finals, echoes>> /\ Pos' = Pos /\ VoiceSpent
  BY <1>1 DEF micVars, Pos, VoiceSpent
<1>7. VoiceRows' /\ VoiceBoundsKept' /\ DeskShape' /\ OneAnswers'
  <2>1. VoiceRows'
    BY <1>1, <1>3, <1>5, <1>6 DEF VoiceRows
  <2>2. VoiceBoundsKept' /\ DeskShape'
    BY <1>1, <1>6 DEF VoiceBoundsKept, DeskShape
  <2> QED BY <1>1, <2>1, <2>2 DEF OneAnswers, Never
<1>8. OnceInv'
  <2>1. Unforgotten' => Unforgotten
    BY <1>1, <1>6, StillUnforgotten, TaskIs
  <2>2. Busy' \subseteq Busy /\ \A x, y \in Busy' : x.no = y.no => x = y
    BY <1>1 DEF Busy, DeskShape
  <2> QED BY <1>1, <2>1, <2>2, OnceStays
<1>9. PlaysSound'
  <2>1. \A i \in DOMAIN writes' : \E j \in DOMAIN plays :
          plays[j][3] = writes'[i].id /\ (writes'[i].state = "done" => plays[j][2] # 0)
    BY <1>3 DEF PlaysSound
  <2>2. ASSUME NEW a \in Asks, played'[a] = "done"
        PROVE  (\A i \in DOMAIN writes' : writes'[i].id # a) /\ \E j \in DOMAIN plays : plays[j][3] = a /\ plays[j][2] # 0
    <3>1. CASE a = id
      <4>1. state = "done"
        BY <1>5, <2>2, <3>1
      <4>2. \E j \in DOMAIN plays : plays[j][3] = a /\ plays[j][2] # 0
        BY <1>2, <1>4, <3>1, <4>1 DEF PlaysSound
      <4>3. ASSUME NEW i \in DOMAIN writes', writes'[i].id = a PROVE FALSE
        <5>1. i + 1 \in DOMAIN writes /\ writes[i + 1].id = id /\ 1 < i + 1
          BY <1>3, <3>1, <4>3
        <5>2. writes[1].state = "started"
          BY <1>2, <1>4, <5>1 DEF PlaysSound
        <5> QED BY <1>4, <4>1, <5>2
      <4> QED BY <4>2, <4>3
    <3>2. CASE a # id
      BY <1>3, <1>5, <2>2, <3>2 DEF PlaysSound
    <3> QED BY <3>1, <3>2
  <2>3. ASSUME NEW i \in DOMAIN writes', NEW j \in DOMAIN writes', i < j, writes'[i].id = writes'[j].id
        PROVE  writes'[i].state = "started" /\ writes'[j].state = "done"
    <3>1. i + 1 \in DOMAIN writes /\ j + 1 \in DOMAIN writes /\ i + 1 < j + 1
      BY <1>3, <2>3
    <3> QED BY <1>3, <2>3, <3>1 DEF PlaysSound
  <2> QED BY <1>1, <2>1, <2>2, <2>3 DEF PlaysSound
<1>10. ASSUME NEW a \in Asks, played[a] = "done" PROVE played'[a] = "done"
  BY <1>2, <1>4, <1>5, <1>10 DEF PlaysSound
<1> QED BY <1>7, <1>8, <1>9, <1>10

-----------------------------------------------------------------------------
(* Voice: the loop *)

\* The pipeline goes on.
LEMMA Transcribing ==
  ASSUME VoiceInv, Transcribe
  PROVE  VoiceInv'
<1> USE DEF VoiceInv
<1>1. /\ UNCHANGED <<said, live, askVars, loop, filings, handled, voiceBudget>>
      /\ finals < Pos /\ finals' = finals + 1 /\ echoes' \subseteq echoes \cup {finals + 1}
  BY DEF Transcribe, loopVars
<1>2. /\ UNCHANGED <<audio, desk, replies, plays, writes, played>> /\ Pos' = Pos /\ VoiceSpent
      /\ Pos \in Nat /\ finals \in 0..Pos
  BY <1>1, TaskIs DEF askVars, Pos, VoiceSpent, VoiceRows
<1>3. /\ finals' \in 0..Pos /\ 0..finals \subseteq 0..finals' /\ 1..finals \subseteq 1..finals' /\ finals + 1 \in 1..finals'
  BY <1>1, <1>2
<1>4. VoiceRows'
  BY <1>1, <1>2, <1>3 DEF VoiceRows
<1>5. VoiceBoundsKept'
  BY <1>1, <1>2, <1>3 DEF VoiceBoundsKept
<1>6. DeskShape' /\ OneAnswers' /\ PlaysSound'
  <2>1. DeskShape'
    BY <1>2 DEF DeskShape
  <2>2. OneAnswers'
    BY <1>1, <1>2 DEF OneAnswers, Never
  <2>3. PlaysSound'
    BY <1>2 DEF PlaysSound
  <2> QED BY <2>1, <2>2, <2>3
<1>7. OnceInv'
  <2>1. Unforgotten' => Unforgotten
    BY <1>2, StillUnforgotten, TaskIs
  <2>2. Busy' \subseteq Busy /\ \A x, y \in Busy' : x.no = y.no => x = y
    BY <1>2 DEF Busy, DeskShape
  <2> QED BY <1>1, <1>2, <2>1, <2>2, OnceStays
<1> QED BY <1>4, <1>5, <1>6, <1>7

\* What a look makes of the loop: its cursor goes on, or it has heard a request, of lines that no
\* ask was cut from.
LEMMA ListenIs ==
  ASSUME VoiceInv, NEW final \in BOOLEAN, Listen(final)
  PROVE  /\ loop' \in LoopRows /\ loop.pc = "idle" /\ loop'.cursor \in 0..finals /\ loop.cursor <= loop'.cursor
         /\ \/ loop'.pc = "idle" /\ loop'.heard = loop.heard /\ loop'.until = loop.until
            \/ /\ loop'.pc = "file" /\ loop'.cursor = loop.cursor /\ loop'.heard \subseteq 1..finals /\ loop'.until \in 1..finals
               /\ loop.cursor <= loop'.until
               /\ \A k \in loop'.heard : k \in Nat /\ k <= loop'.until /\ k > loop.cursor /\ ~InWindow(k)
<1> DEFINE lines == OwnLines
           opening == {k \in lines : Opens(k)}
           first == Min(opening)
           taken == RequestLines(lines, first)
           ended == final \/ Max(lines) > Max(taken) \/ Pos >= Max(taken) + Settle
<1>1. /\ loop.pc = "idle" /\ lines # {}
      /\ loop' = IF opening = {} THEN [loop EXCEPT !.cursor = Max(lines)]
                 ELSE IF ~ended THEN [loop EXCEPT !.cursor = Max({loop.cursor, first - 1})]
                 ELSE [loop EXCEPT !.pc = "file", !.heard = taken, !.until = Max(taken)]
  BY DEF Listen
<1>2. finals \in Nat /\ loop.cursor \in 0..finals /\ loop.cursor \in Nat /\ loop \in LoopRows
  BY TaskIs DEF VoiceInv, VoiceRows, VoiceBoundsKept
<1>3. lines \subseteq 1..finals /\ \A k \in lines : k \in Nat /\ k > loop.cursor /\ ~InWindow(k)
  BY <1>2 DEF OwnLines
<1>4. opening \subseteq lines
  OBVIOUS
<1> HIDE DEF lines
<1>5. CASE opening = {}
  <2>1. lines \in SUBSET (0..finals)
    BY <1>2, <1>3
  <2>2. Max(lines) \in lines
    BY <1>1, <1>2, <2>1, GreatestNumber
  <2>3. Max(lines) \in 0..finals /\ loop.cursor <= Max(lines) /\ Max(lines) \in Nat
    <3>1. Max(lines) \in 1..finals /\ Max(lines) \in Nat /\ Max(lines) > loop.cursor
      BY <1>3, <2>2, Zenon
    <3> QED BY <1>2, <3>1
  <2>4. loop' = [loop EXCEPT !.cursor = Max(lines)]
    BY <1>1, <1>5
  <2> QED BY <1>1, <1>2, <2>3, <2>4 DEF LoopRows
<1>6. ASSUME opening # {}
      PROVE  first \in lines /\ first \in 1..finals
  <2>1. opening \in SUBSET Nat
    BY <1>3, <1>4
  <2>2. first \in opening
    BY <1>6, <2>1, SmallestNumber
  <2> QED BY <1>3, <1>4, <2>2
<1> HIDE DEF opening, first
<1>7. CASE opening # {} /\ ~ended
  <2>1. loop' = [loop EXCEPT !.cursor = Max({loop.cursor, first - 1})]
    BY <1>1, <1>7
  <2>2. {loop.cursor, first - 1} \in SUBSET (0..finals) /\ {loop.cursor, first - 1} # {}
    BY <1>2, <1>6, <1>7
  <2>3. Max({loop.cursor, first - 1}) \in 0..finals /\ loop.cursor <= Max({loop.cursor, first - 1})
    BY <1>2, <2>2, GreatestNumber
  <2>4. Max({loop.cursor, first - 1}) \in Nat
    BY <1>2, <2>3
  <2> QED BY <1>1, <1>2, <2>1, <2>3, <2>4 DEF LoopRows
<1>8. CASE opening # {} /\ ended
  <2>1. taken \subseteq lines /\ first \in taken
    BY <1>3, <1>6, <1>8 DEF RequestLines
  <2>2. loop' = [loop EXCEPT !.pc = "file", !.heard = taken, !.until = Max(taken)]
    BY <1>1, <1>8
  <2> HIDE DEF taken
  <2>3. taken \in SUBSET (0..finals) /\ taken # {}
    BY <1>2, <1>3, <2>1
  <2>4. Max(taken) \in taken /\ \A k \in taken : k <= Max(taken)
    BY <1>2, <2>3, GreatestNumber
  <2>5. Max(taken) \in 1..finals /\ Max(taken) \in Nat /\ loop.cursor <= Max(taken) /\ taken \subseteq 1..finals /\ taken \subseteq Nat
    <3>1. taken \subseteq 1..finals /\ taken \subseteq Nat /\ \A k \in taken : k > loop.cursor
      BY <1>3, <2>1
    <3>2. Max(taken) \in 1..finals /\ Max(taken) \in Nat /\ Max(taken) > loop.cursor
      BY <2>4, <3>1, Zenon
    <3> QED BY <1>2, <3>1, <3>2
  <2>6. /\ loop' \in LoopRows /\ loop'.pc = "file" /\ loop'.cursor = loop.cursor /\ loop'.heard = taken
        /\ loop'.until = Max(taken)
    BY <1>2, <2>2, <2>5 DEF LoopRows
  <2> QED BY <1>1, <1>2, <1>3, <2>1, <2>4, <2>5, <2>6
<1> QED BY <1>5, <1>7, <1>8

\* The loop and the filings change, and nothing else does: the types, the bounds, the desk, the plays.
LEMMA LoopStands ==
  ASSUME VoiceInv, VoiceSpent, UNCHANGED <<micVars, live, askVars>>, loop' \in LoopRows,
         loop'.cursor \in 0..finals, loop'.heard \subseteq 1..finals, loop'.until \in 0..finals,
         handled' \subseteq 1..Pos, filings' \in Seq(FilingRows), \A i \in DOMAIN filings' : filings'[i].held \subseteq 1..Pos
  PROVE  VoiceRows' /\ VoiceBoundsKept' /\ DeskShape' /\ OneAnswers' /\ PlaysSound'
<1> USE DEF VoiceInv
<1>1. /\ UNCHANGED <<said, finals, echoes>> /\ Pos' = Pos
      /\ UNCHANGED <<audio, desk, replies, plays, writes, played>>
      /\ voiceBudget' \in [VoiceEvents -> Nat]
      /\ Never({"limit"})' => Never({"limit"})
  BY VoiceCounted DEF micVars, askVars, Pos, VoiceRows
<1>2. VoiceRows'
  BY <1>1 DEF VoiceRows
<1>3. VoiceBoundsKept'
  BY <1>1 DEF VoiceBoundsKept
<1>4. DeskShape' /\ OneAnswers' /\ PlaysSound'
  <2>1. DeskShape'
    BY <1>1 DEF DeskShape
  <2>2. OneAnswers'
    BY <1>1 DEF OneAnswers
  <2>3. PlaysSound'
    BY <1>1 DEF PlaysSound
  <2> QED BY <2>1, <2>2, <2>3
<1> QED BY <1>2, <1>3, <1>4

\* A look at the transcript: what it hears is ahead of the cursor and outside every window, so nobody
\* filed it and no task has it.
LEMMA Listening ==
  ASSUME VoiceInv, NEW final \in BOOLEAN, Listen(final)
  PROVE  VoiceInv'
<1> USE DEF VoiceInv
<1>1. UNCHANGED <<micVars, live, askVars, filings, handled, voiceBudget>>
  BY DEF Listen
<1>2. /\ UNCHANGED <<audio, desk>> /\ VoiceSpent
  BY <1>1 DEF askVars, VoiceSpent
<1>3. /\ loop' \in LoopRows /\ loop.pc = "idle" /\ loop'.cursor \in 0..finals /\ loop.cursor <= loop'.cursor
      /\ \/ loop'.pc = "idle" /\ loop'.heard = loop.heard /\ loop'.until = loop.until
         \/ /\ loop'.pc = "file" /\ loop'.cursor = loop.cursor /\ loop'.heard \subseteq 1..finals /\ loop'.until \in 1..finals
            /\ loop.cursor <= loop'.until
            /\ \A k \in loop'.heard : k \in Nat /\ k <= loop'.until /\ k > loop.cursor /\ ~InWindow(k)
  BY ListenIs
<1>4. VoiceRows' /\ VoiceBoundsKept' /\ DeskShape' /\ OneAnswers' /\ PlaysSound'
  <2>1. loop'.heard \subseteq 1..finals /\ loop'.until \in 0..finals
    <3>1. finals \in Nat /\ loop.heard \subseteq 1..finals /\ loop.until \in 0..finals
      BY TaskIs DEF VoiceRows, VoiceBoundsKept
    <3> QED BY <1>3, <3>1
  <2>2. handled' \subseteq 1..Pos /\ filings' \in Seq(FilingRows) /\ \A i \in DOMAIN filings' : filings'[i].held \subseteq 1..Pos
    BY <1>1 DEF VoiceRows, VoiceBoundsKept
  <2> QED BY <1>1, <1>2, <1>3, <2>1, <2>2, LoopStands
<1>5. ASSUME Unforgotten' PROVE (FiledPast /\ TakenPast /\ HeardApart /\ HeldLater /\ FiledOnce)'
  <2>1. Unforgotten
    BY <1>2, <1>5, StillUnforgotten, TaskIs
  <2>2. FiledPast /\ TakenPast /\ HeardApart /\ HeldLater /\ FiledOnce
    BY <2>1 DEF OnceInv
  <2>3. /\ \A k \in Nat : Filed(k)' <=> Filed(k)
        /\ \A k \in Nat : PastWindow(k)' <=> PastWindow(k)
    BY <1>1, <1>2 DEF Filed, PastWindow
  <2>4. Busy' = Busy
    BY <1>2 DEF Busy
  <2>5. /\ loop.cursor \in Nat /\ loop'.cursor \in Nat /\ loop.heard \subseteq Nat /\ loop'.heard \subseteq Nat
        /\ \A t \in Busy : t.clip \subseteq Nat /\ Own(t) \subseteq t.clip
    BY <1>3, TaskIs DEF VoiceRows, LoopRows, Busy, Own
  <2>6. FiledPast' /\ FiledOnce'
    <3>1. ASSUME NEW k \in Nat, Filed(k) PROVE k <= loop'.cursor \/ PastWindow(k)
      BY <1>3, <2>2, <2>5, <3>1 DEF FiledPast
    <3> QED BY <1>1, <2>2, <2>3, <3>1 DEF FiledPast, FiledOnce
  <2>7. TakenPast'
    <3>1. ASSUME NEW x \in Busy, NEW k \in x.clip PROVE PastWindow(k)'
      BY <2>2, <2>3, <2>5 DEF TakenPast
    <3>2. ASSUME NEW x \in Busy, NEW k \in Own(x) PROVE ~Filed(k)'
      BY <2>2, <2>3, <2>5 DEF TakenPast
    <3> QED BY <2>2, <2>4, <3>1, <3>2 DEF TakenPast
  <2>8. HeardApart'
    <3>1. CASE loop'.pc = "idle"
      BY <3>1 DEF HeardApart
    <3>2. CASE loop'.pc = "file"
      <4>1. /\ loop'.cursor = loop.cursor /\ loop.cursor <= loop'.until
            /\ \A k \in loop'.heard : k \in Nat /\ k <= loop'.until /\ k > loop.cursor /\ ~InWindow(k)
        BY <1>3, <3>2
      <4>2. ASSUME NEW k \in loop'.heard PROVE ~PastWindow(k) /\ ~(k <= loop.cursor)
        BY <2>5, <4>1 DEF InWindow, PastWindow
      <4>3. ASSUME NEW k \in loop'.heard PROVE ~Filed(k)
        BY <1>3, <2>2, <4>1, <4>2 DEF FiledPast
      <4>4. ASSUME NEW k \in loop'.heard, NEW t \in Busy PROVE k \notin Own(t)
        BY <2>2, <2>5, <4>2 DEF TakenPast
      <4> QED BY <2>3, <2>4, <4>1, <4>3, <4>4 DEF HeardApart
    <3> QED BY <1>3, <3>1, <3>2
  <2>9. HeldLater'
    <3>1. ASSUME audio.held.id # 0, NEW k \in loop'.heard PROVE k <= audio.held.begin
      <4>1. CASE loop'.heard = loop.heard
        BY <2>2, <2>5, <3>1, <4>1 DEF HeldLater
      <4>2. CASE ~InWindow(k) /\ k \in Nat
        <5>1. audio.held.start \in Nat /\ audio.held.begin \in Nat /\ audio.held.start <= audio.held.begin
          BY TaskIs DEF HeldRows, VoiceBoundsKept
        <5> QED BY <3>1, <4>2, <5>1 DEF InWindow
      <4> QED BY <1>3, <3>1, <4>1, <4>2
    <3> QED BY <1>2, <2>2, <2>3, <2>4, <3>1 DEF HeldLater
  <2> QED BY <2>6, <2>7, <2>8, <2>9
<1> QED BY <1>4, <1>5 DEF OnceInv

\* The request the loop has heard is filed, or nothing comes of it; its lines are what the loop stands
\* before, until it stores that.
LEMMA FilingHeard ==
  ASSUME VoiceInv, FileHeard
  PROVE  VoiceInv'
<1> USE DEF VoiceInv
<1>1. /\ UNCHANGED <<micVars, live, askVars, handled>> /\ VoiceSpent /\ loop.pc = "file"
      /\ loop' = [loop EXCEPT !.pc = "store"]
      /\ File(loop.heard, loop.heard) \/ UNCHANGED filings
  BY DEF FileHeard, VoiceSpent, VoiceEvents
<1>2. UNCHANGED <<audio, desk>>
  BY <1>1 DEF askVars
<1>3. /\ loop' \in LoopRows /\ loop'.pc = "store" /\ loop'.cursor = loop.cursor /\ loop'.heard = loop.heard
      /\ loop'.until = loop.until /\ loop.heard \in SUBSET Nat /\ loop.heard \subseteq 1..finals /\ loop.heard \subseteq 1..Pos
  <2>1. loop \in LoopRows /\ loop.heard \subseteq 1..finals /\ finals \in 0..Pos /\ Pos \in Nat
    BY TaskIs DEF VoiceRows, VoiceBoundsKept
  <2> QED BY <1>1, <2>1 DEF LoopRows
<1>4. /\ filings' \in Seq(FilingRows)
      /\ \A k \in Nat : Filed(k) => Filed(k)'
      /\ \A k \in Nat : Filed(k)' => Filed(k) \/ k \in loop.heard
      /\ \A i \in DOMAIN filings' : filings'[i].held = loop.heard \/ (i \in DOMAIN filings /\ filings'[i] = filings[i])
      /\ FiledOnce /\ (\A k \in loop.heard : ~Filed(k)) => FiledOnce'
  <2>1. filings \in Seq(FilingRows)
    BY DEF VoiceRows
  <2>2. CASE File(loop.heard, loop.heard)
    BY <1>3, <2>1, <2>2, FilingAdds
  <2>3. CASE UNCHANGED filings
    BY <2>1, <2>3 DEF Filed, FiledOnce
  <2> QED BY <1>1, <2>2, <2>3
<1>5. VoiceRows' /\ VoiceBoundsKept' /\ DeskShape' /\ OneAnswers' /\ PlaysSound'
  <2>1. \A i \in DOMAIN filings' : filings'[i].held \subseteq 1..Pos
    BY <1>3, <1>4 DEF VoiceBoundsKept
  <2>2. handled' \subseteq 1..Pos /\ loop.cursor \in 0..finals /\ loop.until \in 0..finals
    BY <1>1 DEF VoiceRows, VoiceBoundsKept
  <2> QED BY <1>1, <1>3, <1>4, <2>1, <2>2, LoopStands
<1>6. ASSUME Unforgotten' PROVE (FiledPast /\ TakenPast /\ HeardApart /\ HeldLater /\ FiledOnce)'
  <2>1. Unforgotten
    BY <1>1, <1>2, <1>6, StillUnforgotten, TaskIs
  <2>2. FiledPast /\ TakenPast /\ HeardApart /\ HeldLater /\ FiledOnce
    BY <2>1 DEF OnceInv
  <2>3. /\ \A k \in Nat : PastWindow(k)' <=> PastWindow(k)
        /\ Busy' = Busy /\ \A t \in Busy : t.clip \subseteq Nat /\ Own(t) \subseteq t.clip
    BY <1>2, TaskIs DEF PastWindow, Busy, Own
  <2>4. \A k \in loop.heard : ~Filed(k) /\ \A t \in Busy : k \notin Own(t)
    BY <1>1, <2>2 DEF HeardApart
  <2>5. FiledPast' /\ FiledOnce'
    BY <1>1, <1>3, <1>4, <2>2, <2>3, <2>4 DEF FiledPast
  <2>6. TakenPast'
    <3>1. ASSUME NEW x \in Busy, NEW k \in x.clip PROVE PastWindow(k)'
      BY <2>2, <2>3 DEF TakenPast
    <3>2. ASSUME NEW x \in Busy, NEW k \in Own(x) PROVE ~Filed(k)'
      BY <1>4, <2>2, <2>3, <2>4 DEF TakenPast
    <3> QED BY <2>2, <2>3, <3>1, <3>2 DEF TakenPast
  <2>7. HeardApart'
    BY <1>1, <1>3, <2>2 DEF HeardApart
  <2>8. HeldLater'
    BY <1>2, <1>3, <1>4, <2>2, <2>3 DEF HeldLater
  <2> QED BY <2>5, <2>6, <2>7, <2>8
<1> QED BY <1>5, <1>6 DEF OnceInv

\* The loop's cursor goes past what it has heard.
LEMMA CursorStored ==
  ASSUME VoiceInv, StoreCursor
  PROVE  VoiceInv'
<1> USE DEF VoiceInv
<1>1. /\ UNCHANGED <<micVars, live, askVars, filings, voiceBudget>> /\ loop.pc = "store"
      /\ loop' = [loop EXCEPT !.pc = "idle", !.cursor = loop.until, !.heard = {}]
      /\ handled' = handled \cup loop.heard
  BY DEF StoreCursor
<1>2. UNCHANGED <<audio, desk>> /\ VoiceSpent
  BY <1>1 DEF askVars, VoiceSpent
<1>3. /\ loop' \in LoopRows /\ loop'.pc = "idle" /\ loop'.cursor = loop.until /\ loop'.heard = {} /\ loop'.until = loop.until
      /\ loop.heard \subseteq Nat /\ loop.until \in Nat /\ loop.cursor \in Nat
  BY <1>1 DEF VoiceRows, LoopRows
<1>4. VoiceRows' /\ VoiceBoundsKept' /\ DeskShape' /\ OneAnswers' /\ PlaysSound'
  <2>1. loop.heard \subseteq 1..Pos
    <3>1. loop.heard \subseteq 1..finals /\ finals \in 0..Pos /\ Pos \in Nat
      BY TaskIs DEF VoiceRows, VoiceBoundsKept
    <3> QED BY <3>1
  <2>2. /\ handled' \subseteq 1..Pos /\ loop.until \in 0..finals /\ filings' \in Seq(FilingRows)
        /\ \A i \in DOMAIN filings' : filings'[i].held \subseteq 1..Pos
    BY <1>1, <2>1 DEF VoiceRows, VoiceBoundsKept
  <2> QED BY <1>1, <1>2, <1>3, <2>2, LoopStands
<1>5. ASSUME Unforgotten' PROVE (FiledPast /\ TakenPast /\ HeardApart /\ HeldLater /\ FiledOnce)'
  <2>1. Unforgotten
    BY <1>2, <1>5, StillUnforgotten, TaskIs
  <2>2. FiledPast /\ TakenPast /\ HeardApart /\ HeldLater /\ FiledOnce
    BY <2>1 DEF OnceInv
  <2>3. /\ \A k \in Nat : PastWindow(k)' <=> PastWindow(k)
        /\ \A k \in Nat : Filed(k)' <=> Filed(k)
        /\ Busy' = Busy /\ \A t \in Busy : t.clip \subseteq Nat /\ Own(t) \subseteq t.clip
    BY <1>1, <1>2, TaskIs DEF PastWindow, Busy, Own, Filed
  <2>4. loop.cursor <= loop.until /\ \A k \in loop.heard : k <= loop.until
    BY <1>1, <2>2 DEF HeardApart
  <2>5. FiledPast' /\ FiledOnce'
    <3>1. ASSUME NEW k \in Nat, Filed(k) PROVE k <= loop.until \/ PastWindow(k)
      BY <1>3, <2>2, <2>4, <3>1 DEF FiledPast
    <3> QED BY <1>1, <1>3, <2>2, <2>3, <3>1 DEF FiledPast, FiledOnce
  <2>6. TakenPast'
    <3>1. ASSUME NEW x \in Busy, NEW k \in x.clip PROVE PastWindow(k)'
      BY <2>2, <2>3 DEF TakenPast
    <3>2. ASSUME NEW x \in Busy, NEW k \in Own(x) PROVE ~Filed(k)'
      BY <2>2, <2>3 DEF TakenPast
    <3> QED BY <2>2, <2>3, <3>1, <3>2 DEF TakenPast
  <2>7. HeardApart' /\ HeldLater'
    BY <1>2, <1>3, <2>2, <2>3 DEF HeardApart, HeldLater
  <2> QED BY <2>5, <2>6, <2>7
<1> QED BY <1>4, <1>5 DEF OnceInv

-----------------------------------------------------------------------------
(* Voice: the theorems *)

\* A task's step keeps the invariant.
LEMMA TaskStep ==
  ASSUME VoiceInv, AskTasks
  PROVE  VoiceInv'
<1>1. PICK t \in desk.tasks : Task(t)
  BY DEF AskTasks
<1>2. CASE TakeClip(t)
  BY <1>2, Answering, Taking
<1>3. CASE FileAsk(t)
  BY <1>3, Answering, Filing
<1>4. CASE HearClip(t) \/ Answer(t) \/ StoreAsk(t)
  BY <1>4, Answering
<1>5. CASE Reply(t)
  BY <1>5, Replying
<1> QED BY <1>1, <1>2, <1>3, <1>4, <1>5 DEF Task

\* Every step keeps it.
LEMMA VoiceStep ==
  ASSUME VoiceInv, [VoiceNext]_voiceVars
  PROVE  VoiceInv'
<1>1. CASE Client
  <2>1. ASSUME NEW kind \in {"quiet", "talk", "wake", "echo"}, Speak(kind) PROVE VoiceInv'
    BY <2>1, Speaking DEF Kinds
  <2>2. ASSUME Press PROVE VoiceInv'
    BY <2>2, Pressing
  <2>3. ASSUME NEW ahead \in {0, 1}, LetGo(ahead) PROVE VoiceInv'
    BY <2>3, LettingGo
  <2>4. ASSUME NEW id \in Asks, PlayStarted(id) PROVE VoiceInv'
    BY <2>4, Starting
  <2>5. ASSUME NEW i \in DOMAIN plays, PlayDone(i) PROVE VoiceInv'
    BY <2>5, Ending
  <2> QED BY <1>1, <2>1, <2>2, <2>3, <2>4, <2>5 DEF Client
<1>2. CASE AskTasks
  BY <1>2, TaskStep
<1>3. CASE Tick
  <2>1. (live = "ending") \in BOOLEAN
    OBVIOUS
  <2> QED BY <1>3, <2>1, Listening, FilingHeard, CursorStored DEF Tick
<1>4. CASE StorePlayed \/ Transcribe \/ StopVoice
  BY <1>4, Storing, Transcribing, Stopping
<1>5. CASE UNCHANGED voiceVars
  <2>1. UNCHANGED <<said, finals, echoes, live, audio, desk, replies, plays, writes, played, loop, filings, handled, voiceBudget>>
    BY <1>5 DEF voiceVars, micVars, askVars, loopVars
  <2>2. VoiceRows' /\ VoiceBoundsKept' /\ DeskShape'
    BY <2>1 DEF VoiceInv, VoiceRows, VoiceBoundsKept, DeskShape, Pos
  <2>3. OnceInv'
    <3>1. Unforgotten' => Unforgotten
      BY <2>1 DEF Unforgotten, Never
    <3>2. Busy' \subseteq Busy /\ \A x, y \in Busy' : x.no = y.no => x = y
      BY <2>1 DEF Busy, VoiceInv, DeskShape
    <3> QED BY <2>1, <3>1, <3>2, OnceStays
  <2>4. OneAnswers' /\ PlaysSound'
    BY <2>1 DEF VoiceInv, OneAnswers, PlaysSound, Never
  <2> QED BY <2>2, <2>3, <2>4 DEF VoiceInv
<1> QED BY <1>1, <1>2, <1>3, <1>4, <1>5 DEF VoiceNext

\* The run's steps are the requests' or leave them alone.
LEMMA AssistantSteps == [Next]_vars => [VoiceNext]_voiceVars /\ [CopilotNext]_copilotVars
  BY DEF Next, vars

\* No word a session's owner speaks to Jarvis is part of two requests that are filed, whichever of
\* the loop and the desk hears it and in whatever order they take, file and store it: for any stream,
\* any number of asks and windows, any pre-roll, limit and pause.
THEOREM WordsFiledOnce == VoiceInit /\ [][VoiceNext]_voiceVars => []FiledOnceLive
<1>1. VoiceInit => VoiceInv
  BY VoiceInitInv
<1>2. VoiceInv /\ [VoiceNext]_voiceVars => VoiceInv'
  BY VoiceStep
<1>3. VoiceInv => FiledOnceLive
  BY VoiceInvSays
<1> QED BY <1>1, <1>2, <1>3, PTL

\* What a step does to the replies, the rows that say they were played, and the session's title.
LEMMA NothingTakenBack ==
  ASSUME VoiceInv, [Next]_vars
  PROVE  /\ [Never({"limit"}) /\ replies' # replies => Last(replies') = desk.last]_voiceVars
         /\ [\A i \in Asks : played[i] = "done" => played'[i] = "done"]_voiceVars
         /\ [title # "none" => title' \in {title, "user"}]_copilotVars
<1>1. [VoiceNext]_voiceVars /\ [CopilotNext]_copilotVars
  BY AssistantSteps
<1>2. ASSUME VoiceNext, Never({"limit"}), replies' # replies PROVE Last(replies') = desk.last
  <2>1. \E t \in desk.tasks : Reply(t)
    BY <1>2 DEF VoiceNext, Client, Speak, Press, LetGo, PlayStarted, PlayDone, AskTasks, Task, TakeClip, HearClip,
                FileAsk, Answer, StoreAsk, Tick, Listen, FileHeard, StoreCursor, StorePlayed, Transcribe, StopVoice, askVars
  <2>2. PICK t \in desk.tasks : replies' = Append(replies, t.id)
    BY <2>1 DEF Reply
  <2>3. t.id = desk.last /\ desk.last \in Nat /\ replies \in Seq(Nat)
    BY <1>2, <2>2, TaskIs DEF VoiceInv, OneAnswers, VoiceRows
  <2> QED BY <2>2, <2>3 DEF Last
<1>3. ASSUME VoiceNext, NEW i \in Asks, played[i] = "done" PROVE played'[i] = "done"
  <2>1. StorePlayed \/ played' = played
    BY <1>3 DEF VoiceNext, Client, Speak, Press, LetGo, PlayStarted, PlayDone, AskTasks, Task, TakeClip, HearClip,
                FileAsk, Answer, StoreAsk, Reply, Tick, Listen, FileHeard, StoreCursor, Transcribe, StopVoice, askVars
  <2> QED BY <1>3, <2>1, Storing
<1>4. ASSUME CopilotNext, title # "none" PROVE title' \in {title, "user"}
  <2>1. UNCHANGED title \/ Rename \/ Merge
    BY <1>4 DEF CopilotNext, Segment, Loop, Look, LlmAnswers, StoreRelated, ShowRelated, Persist, LlmFails, PersistFails,
                Announce, AnnouncePersist, Crash, VoiceProposes, Intaking, IntakeFails, OwnerReviews, watchVars
  <2>2. Merge => title' = title
    BY <1>4 DEF Merge, NameSession
  <2> QED BY <2>1, <2>2 DEF Rename
<1> QED BY <1>1, <1>2, <1>3, <1>4

\* The words of a live session are filed once beside the copilot, too.
THEOREM SessionFilesOnce == Spec => []FiledOnceLive
<1>1. Init => VoiceInv
  BY VoiceInitInv DEF Init
<1>2. VoiceInv /\ [Next]_vars => VoiceInv'
  BY VoiceStep, AssistantSteps
<1>3. VoiceInv => FiledOnceLive
  BY VoiceInvSays
<1> QED BY <1>1, <1>2, <1>3, PTL DEF Spec

\* Neither assistant takes back what it said: the reply of an ask that a press has replaced is never
\* given, a reply that a row says was played stays so, and a session's title is the user's to change.
THEOREM AssistantsGoForward == Spec => AssistantForward
<1>1. Init => VoiceInv
  BY VoiceInitInv DEF Init
<1>2. VoiceInv /\ [Next]_vars => VoiceInv'
  BY VoiceStep, AssistantSteps
<1>3. VoiceInv /\ [Next]_vars =>
        /\ [Never({"limit"}) /\ replies' # replies => Last(replies') = desk.last]_voiceVars
        /\ [\A i \in Asks : played[i] = "done" => played'[i] = "done"]_voiceVars
        /\ [title # "none" => title' \in {title, "user"}]_copilotVars
  BY NothingTakenBack
<1> QED BY <1>1, <1>2, <1>3, PTL DEF Spec, AssistantForward, RepliesToLast, PlayedStays, TitleKept

-----------------------------------------------------------------------------
(* The intake of proposals: what the memory, the rows and a proposal at the *)
(* door know of one another.                                                *)

Rows == [ref : Nat, what : STRING, when : STRING, open : BOOLEAN]
Doors ==
  [pc : {"idle", "wait", "load", "apply", "admit", "done"}, incoming : Proposals, backed : SUBSET Nat,
   said : {"no", "no date", "date"}, loads : BOOLEAN, rows : SUBSET Rows, admitted : SUBSET Rows]

\* Rows with refs of their own, of which no more are open than may be.
Refs(rows) == IsFiniteSet(rows) /\ (\A a, b \in rows : a.ref = b.ref => a = b) /\ Cardinality(OpenOnes(rows)) <= MaxOpen
\* A memory that can go on from the ref it has next.
Book(state) == Refs(state.known) /\ state.next # 0 /\ \A k \in state.known : k.ref < state.next
\* Every row is known by its ref, and as open if it is.
Covers(known, rows) == \A row \in rows : \E k \in known : k.ref = row.ref /\ (row.open => k.open)

IntakeTyped ==
  /\ queue \in SUBSET Rows /\ states \in [known : SUBSET Rows, next : Nat] /\ lock \in Producers \cup {"free"}
  /\ door \in [Producers -> Doors]
\* One producer is past the lock.
LockHeld == \A p \in Producers : door[p].pc \in {"load", "apply", "admit"} => lock = p
\* What the process remembers, if it remembers anything.
MemoryKept == states # NoState => Book(states) /\ Covers(states.known, queue)
\* What a producer has read, and what it is about to store.
Knows(d) ==
  /\ d.pc = "apply" => IF d.loads THEN Refs(d.rows) /\ Covers(d.rows, queue) ELSE states # NoState
  /\ d.pc # "apply" => ~d.loads
  /\ d.pc = "admit" => /\ states # NoState /\ d.admitted \subseteq states.known
                       /\ \A a \in d.admitted : \A row \in queue : a.ref # row.ref
  /\ IsFiniteSet(d.admitted) /\ Cardinality(d.admitted) <= MaxNew
HolderKnows == \A p \in Producers : Knows(door[p])
IntakeInv == IntakeTyped /\ Refs(queue) /\ LockHeld /\ MemoryKept /\ HolderKnows

-----------------------------------------------------------------------------
(* The copilot's state and what it has shown.                               *)

\* Items or suggestions by id.  (The provers do not know a literal to be a string.)
Bounded == UNION {SUBSET (0..n) : n \in Nat}
Tables(Entries) == UNION {[ids -> Entries] : ids \in Bounded}
Items == [text : STRING, due : STRING]
Suggestions == [text : STRING \cup {"notice"}, until : Nat]
Upserts == [id : Nat, text : STRING, due : STRING]
Snaps ==
  {snap \in [version : Nat, items : Tables(Items), suggestions : Tables(Suggestions), related : SUBSET Notes] :
     Cardinality(DOMAIN snap.suggestions) <= MaxSuggestions}
Mems == [snap : Snaps, shown : SUBSET Notes, nextItem : Nat, nextSugg : Nat]
AnyDelta ==
  [upserts : Seq(Upserts), remove : SUBSET Nat, dismiss : SUBSET Nat, suggest : STRING \cup {"none"},
   topics : BOOLEAN, proposals : Proposals, title : BOOLEAN]
CyclePcs == {"idle", "ask", "propose", "related", "setrelated", "persist"}
Cycles == [pc : CyclePcs, delta : AnyDelta, now : Nat, untitled : BOOLEAN, hits : SUBSET Notes, snap : Snaps]
CopilotTyped ==
  /\ segs \in 0..MaxSegs /\ seen \in 0..segs /\ title \in {"none", "user", "copilot"}
  /\ mem \in Mems /\ cycle \in Cycles
  /\ spoken \in [pc : {"idle", "persist"}, snap : Snaps] /\ snaps \in Snaps /\ client \in Snaps
\* The cycle waits for its proposal.
OneProposal == door["copilot"].pc # "idle" => cycle.pc = "propose"
\* Nothing is stored as shown that the state does not count as shown, but for what the cycle is
\* about to show; and what it is about to store has not been shown.
ShownKnown ==
  /\ related \in Seq(SUBSET Notes) /\ ShownOnce
  /\ \A i \in DOMAIN related : related[i] \subseteq mem.shown \cup (IF cycle.pc = "setrelated" THEN cycle.hits ELSE {})
  /\ cycle.pc = "related" => cycle.hits \cap mem.shown = {}
CopilotInv == IntakeInv /\ CopilotTyped /\ OneProposal /\ ShownKnown
\* A batch is gone through in its order: the function Apply chooses is there.
LEMMA BatchAfter ==
  ASSUME NEW state, NEW incoming, Len(incoming) \in Nat, NEW backed, NEW aloud
  PROVE  \E after : /\ Apply(state, incoming, backed, aloud) = after[Len(incoming)]
                    /\ after[0] = [state |-> state, admitted |-> {}]
                    /\ \A n \in 1..Len(incoming) :
                         after[n] = IF n \in backed THEN ApplyOne(after[n - 1], incoming[n], aloud) ELSE after[n - 1]
<1> DEFINE Base == [state |-> state, admitted |-> {}]
           Next1(st, n) == IF n \in backed THEN ApplyOne(st, incoming[n], aloud) ELSE st
           Through(m, f) == f = [n \in 0..m |-> IF n = 0 THEN Base ELSE Next1(f[n - 1], n)]
           Without == {m \in Nat : ~\E f : Through(m, f)}
<1> HIDE DEF Next1
<1>1. Without = {}
  <2> SUFFICES ASSUME Without # {} PROVE FALSE
    OBVIOUS
  <2>1. PICK m \in Without : \A k \in Without : m <= k
    BY LeastNumber
  <2>2. m # 0
    <3>1. Through(0, [n \in 0..0 |-> Base])
      OBVIOUS
    <3> QED BY <3>1
  <2>3. m - 1 \in Nat /\ m - 1 \notin Without
    <3>1. Without \subseteq Nat
      OBVIOUS
    <3> HIDE DEF Without
    <3> QED BY <3>1, <2>1, <2>2
  <2>4. PICK f : Through(m - 1, f)
    BY <2>3
  <2> DEFINE g == [n \in 0..m |-> IF n = m THEN Next1(f[m - 1], m) ELSE f[n]]
  <2>5. \A n \in 0..m : g[n] = IF n = 0 THEN Base ELSE Next1(g[n - 1], n)
    <3> TAKE n \in 0..m
    <3>1. CASE n = m
      <4>1. g[n - 1] = f[m - 1]
        BY <3>1, <2>1, <2>2
      <4> QED BY <3>1, <4>1, <2>2
    <3>2. CASE n # m
      <4>1. n \in 0..(m - 1) /\ g[n] = f[n]
        BY <3>2, <2>1
      <4>2. f[n] = IF n = 0 THEN Base ELSE Next1(f[n - 1], n)
        BY <4>1, <2>4
      <4>3. n # 0 => g[n - 1] = f[n - 1]
        BY <4>1, <2>1
      <4> QED BY <4>1, <4>2, <4>3
    <3> QED BY <3>1, <3>2
  <2>6. Through(m, g)
    <3> HIDE DEF Base
    <3>1. g = [n \in 0..m |-> g[n]]
      OBVIOUS
    <3> HIDE DEF g
    <3> QED BY <3>1, <2>5
  <2> QED BY <2>1, <2>6
<1>2. PICK f : Through(Len(incoming), f)
  BY <1>1
<1> DEFINE h == CHOOSE f0 : f0 = [n \in 0..Len(incoming) |-> IF n = 0 THEN Base ELSE Next1(f0[n - 1], n)]
<1>3. Through(Len(incoming), h)
  BY <1>2
<1>4. Apply(state, incoming, backed, aloud) = h[Len(incoming)]
  BY DEF Apply, Next1
<1>5. \A n \in 0..Len(incoming) : h[n] = IF n = 0 THEN Base ELSE Next1(h[n - 1], n)
  <2> HIDE DEF Base, h
  <2> QED BY <1>3
<1>6. h[0] = Base /\ \A n \in 1..Len(incoming) : h[n] = Next1(h[n - 1], n)
  <2> HIDE DEF Base, h
  <2> QED BY <1>5
<1> HIDE DEF h
<1> QED BY <1>4, <1>6 DEF Next1

\* What a batch has come to, from a memory that can go on.
Admitting(st, state) ==
  /\ st.state \in [known : SUBSET Rows, next : Nat] /\ Book(st.state)
  /\ state.known \subseteq st.state.known /\ st.state.next >= state.next
  /\ st.admitted \subseteq st.state.known /\ (\A a \in st.admitted : a.ref >= state.next)
  /\ IsFiniteSet(st.admitted) /\ Cardinality(st.admitted) <= MaxNew

LEMMA OneApplied ==
  ASSUME NEW state \in [known : SUBSET Rows, next : Nat], NEW st, Admitting(st, state),
         NEW p \in [what : STRING, when : STRING, cites : Nat, valid : BOOLEAN], NEW aloud
  PROVE  Admitting(ApplyOne(st, p, aloud), state)
<1> DEFINE known == st.state.known
           new == [ref |-> st.state.next, what |-> p.what, when |-> p.when, open |-> TRUE]
           after == [state |-> [known |-> known \cup {new}, next |-> st.state.next + 1], admitted |-> st.admitted \cup {new}]
<1>1. ApplyOne(st, p, aloud) = st
      \/ /\ ~(Cardinality(st.admitted) >= MaxNew) /\ ~(Cardinality(OpenOnes(known)) >= MaxOpen)
         /\ ApplyOne(st, p, aloud) = after
  BY DEF ApplyOne
<1>2. ASSUME ~(Cardinality(st.admitted) >= MaxNew), ~(Cardinality(OpenOnes(known)) >= MaxOpen)
      PROVE  Admitting(after, state)
  <2>1. known \in SUBSET Rows /\ st.state.next \in Nat /\ new \in Rows
    BY DEF Admitting, Rows
  <2>2. IsFiniteSet(known) /\ (\A a, b \in known : a.ref = b.ref => a = b) /\ (\A k \in known : k.ref < st.state.next)
    BY DEF Admitting, Book, Refs
  <2>3. IsFiniteSet(known \cup {new}) /\ new \notin known
    <3>1. new \notin known
      BY <2>1, <2>2
    <3> QED BY <3>1, <2>2, FS_AddElement
  <2>4. \A a, b \in known \cup {new} : a.ref = b.ref => a = b
    <3> TAKE a \in known \cup {new}, b \in known \cup {new}
    <3>1. new.ref = st.state.next
      OBVIOUS
    <3> HIDE DEF new
    <3>2. \A k \in known : k.ref \in Nat
      BY <2>1 DEF Rows
    <3> HIDE DEF known
    <3> QED BY <3>1, <3>2, <2>1, <2>2
  <2>5. OpenOnes(known \cup {new}) = OpenOnes(known) \cup {new} /\ IsFiniteSet(OpenOnes(known))
    <3>1. OpenOnes(known) \subseteq known
      BY DEF OpenOnes
    <3>2. new.open
      OBVIOUS
    <3> HIDE DEF new
    <3> QED BY <3>1, <3>2, <2>2, FS_Subset DEF OpenOnes
  <2>6. Cardinality(OpenOnes(known \cup {new})) <= MaxOpen
    <3>1. Cardinality(OpenOnes(known) \cup {new}) <= Cardinality(OpenOnes(known)) + 1 /\ Cardinality(OpenOnes(known)) \in Nat
      <4>1. Cardinality(OpenOnes(known)) \in Nat
        BY <2>5, FS_CardinalityType
      <4> HIDE DEF new
      <4>2. Cardinality(OpenOnes(known) \cup {new})
              = IF new \in OpenOnes(known) THEN Cardinality(OpenOnes(known)) ELSE Cardinality(OpenOnes(known)) + 1
        BY <2>5, FS_AddElement
      <4> QED BY <4>1, <4>2
    <3> HIDE DEF new, known
    <3>2. Cardinality(OpenOnes(known) \cup {new}) \in Nat
      BY <2>5, FS_AddElement, FS_CardinalityType
    <3> QED BY <3>1, <3>2, <2>5, <1>2, IntakeBounds
  <2>7. Book(after.state)
    <3>1. \A k \in known \cup {new} : k.ref < st.state.next + 1
      <4>1. new.ref = st.state.next
        OBVIOUS
      <4>2. \A k \in known : k.ref \in Nat
        BY <2>1 DEF Rows
      <4> HIDE DEF new, known
      <4> QED BY <2>1, <2>2, <4>1, <4>2
    <3>2. after.state.known = known \cup {new} /\ after.state.next = st.state.next + 1
      OBVIOUS
    <3> HIDE DEF after, new, known
    <3> QED BY <3>1, <3>2, <2>1, <2>3, <2>4, <2>6 DEF Book, Refs
  <2>8. IsFiniteSet(st.admitted \cup {new}) /\ Cardinality(st.admitted \cup {new}) <= MaxNew
    <3>1. IsFiniteSet(st.admitted) /\ Cardinality(st.admitted) \in Nat
      BY FS_CardinalityType DEF Admitting
    <3> HIDE DEF new
    <3>2. IsFiniteSet(st.admitted \cup {new}) /\ Cardinality(st.admitted \cup {new}) \in Nat
      BY <3>1, FS_AddElement, FS_CardinalityType
    <3>3. Cardinality(st.admitted \cup {new})
            = IF new \in st.admitted THEN Cardinality(st.admitted) ELSE Cardinality(st.admitted) + 1
      BY <3>1, FS_AddElement
    <3> QED BY <3>1, <3>2, <3>3, <1>2, IntakeBounds
  <2>9. \A a \in st.admitted \cup {new} : a.ref >= state.next
    BY DEF Admitting
  <2>10. after.state \in [known : SUBSET Rows, next : Nat]
    <3>1. known \cup {new} \in SUBSET Rows /\ st.state.next + 1 \in Nat
      <4> HIDE DEF new, known
      <4> QED BY <2>1
    <3> HIDE DEF new, known
    <3> QED BY <3>1
  <2>11. state.known \subseteq after.state.known /\ after.state.next >= state.next /\ after.admitted \subseteq after.state.known
    BY <2>1 DEF Admitting
  <2>12. after.admitted = st.admitted \cup {new}
    OBVIOUS
  <2> HIDE DEF after, new, known
  <2> QED BY <2>7, <2>8, <2>9, <2>10, <2>11, <2>12 DEF Admitting
<1> HIDE DEF after
<1> QED BY <1>1, <1>2

\* A memory that can go on can go on after a batch, which is among what it knows then.
LEMMA BatchApplied ==
  ASSUME NEW state \in [known : SUBSET Rows, next : Nat], Book(state), NEW incoming \in Proposals, NEW backed, NEW aloud
  PROVE  Admitting(Apply(state, incoming, backed, aloud), state)
<1>1. Len(incoming) \in Nat
  BY DEF Proposals
<1>2. PICK after : /\ Apply(state, incoming, backed, aloud) = after[Len(incoming)]
                   /\ after[0] = [state |-> state, admitted |-> {}]
                   /\ \A n \in 1..Len(incoming) :
                        after[n] = IF n \in backed THEN ApplyOne(after[n - 1], incoming[n], aloud) ELSE after[n - 1]
  BY <1>1, BatchAfter
<1> DEFINE Fails == {n \in 0..Len(incoming) : ~Admitting(after[n], state)}
<1>3. Admitting(after[0], state)
  BY <1>2, FS_EmptySet, IntakeBounds DEF Admitting
<1>4. Fails = {}
  <2> SUFFICES ASSUME Fails # {} PROVE FALSE
    OBVIOUS
  <2>0. Fails \subseteq 0..Len(incoming) /\ 0 \notin Fails
    BY <1>3
  <2>1. PICK n \in Fails : \A k \in Fails : n <= k
    <3>1. Fails \in SUBSET Nat
      BY <2>0, <1>1
    <3> HIDE DEF Fails
    <3> QED BY <3>1, LeastNumber
  <2>2. n \in 1..Len(incoming) /\ n - 1 \in 0..Len(incoming) /\ n - 1 \notin Fails
    <3> HIDE DEF Fails
    <3> QED BY <2>0, <2>1, <1>1
  <2>3. Admitting(after[n - 1], state)
    BY <2>2
  <2>4. incoming[n] \in [what : STRING, when : STRING, cites : Nat, valid : BOOLEAN]
    <3> DEFINE Each == [what : STRING, when : STRING, cites : Nat, valid : BOOLEAN]
    <3>1. incoming \in Seq(Each)
      BY DEF Proposals
    <3> HIDE DEF Each
    <3>2. incoming[n] \in Each
      BY <3>1, <2>2
    <3> QED BY <3>2 DEF Each
  <2>5. Admitting(ApplyOne(after[n - 1], incoming[n], aloud), state)
    BY <2>3, <2>4, OneApplied
  <2>6. Admitting(after[n], state)
    BY <2>2, <2>3, <2>5, <1>2
  <2> QED BY <2>1, <2>6
<1>5. Admitting(after[Len(incoming)], state)
  BY <1>4, <1>1
<1> QED BY <1>2, <1>5
\* A finite set of numbers has a bound.
LEMMA FiniteBounded ==
  ASSUME NEW S \in SUBSET Nat, IsFiniteSet(S)
  PROVE  \E n \in Nat : S \subseteq 0..n
<1> DEFINE Unbounded(T) == T \in SUBSET Nat /\ IsFiniteSet(T) /\ ~\E n \in Nat : T \subseteq 0..n
           Sizes == {c \in Nat : \E T : Unbounded(T) /\ Cardinality(T) = c}
<1>1. Sizes = {}
  <2> SUFFICES ASSUME Sizes # {} PROVE FALSE
    OBVIOUS
  <2>1. PICK c \in Sizes : \A k \in Sizes : c <= k
    <3>1. Sizes \in SUBSET Nat
      OBVIOUS
    <3> HIDE DEF Sizes
    <3> QED BY <3>1, LeastNumber
  <2>2. PICK T : Unbounded(T) /\ Cardinality(T) = c
    BY <2>1
  <2>3. PICK x \in T : TRUE
    <3>1. {} \subseteq 0..0
      OBVIOUS
    <3> QED BY <2>2, <3>1
  <2>4. IsFiniteSet(T \ {x}) /\ Cardinality(T \ {x}) = c - 1 /\ c \in Nat /\ Cardinality(T \ {x}) \in Nat
    BY <2>1, <2>2, FS_RemoveElement, FS_CardinalityType
  <2>5. ~Unbounded(T \ {x})
    <3>1. c - 1 \in Nat /\ c - 1 \notin Sizes
      <4> HIDE DEF Sizes
      <4> QED BY <2>1, <2>4
    <3> HIDE DEF Unbounded
    <3> QED BY <3>1, <2>4
  <2>6. PICK n \in Nat : T \ {x} \subseteq 0..n
    BY <2>2, <2>4, <2>5
  <2>7. T \subseteq 0..(IF x > n THEN x ELSE n) /\ x \in Nat
    BY <2>2, <2>6
  <2> QED BY <2>2, <2>7
<1>2. Cardinality(S) \in Nat
  BY FS_CardinalityType
<1> QED BY <1>1, <1>2

\* A memory restored from rows goes on from the highest ref.
LEMMA RestoredBook ==
  ASSUME NEW rows \in SUBSET Rows, Refs(rows)
  PROVE  Restore(rows) \in [known : SUBSET Rows, next : Nat] /\ Book(Restore(rows)) /\ Restore(rows).known = rows
<1> DEFINE refs == {0} \cup {r.ref : r \in rows}
<1>1. refs \in SUBSET Nat /\ refs # {}
  BY DEF Rows
<1>2. IsFiniteSet(refs)
  <2>1. IsFiniteSet({r.ref : r \in rows})
    <3> DEFINE number == [r \in rows |-> r.ref]
    <3>1. number \in Surjection(rows, {r.ref : r \in rows})
      BY DEF Surjection
    <3> QED BY <3>1, FS_Surjection DEF Refs
  <2>2. IsFiniteSet({r.ref : r \in rows} \cup {0})
    BY <2>1, FS_AddElement
  <2>3. refs = {r.ref : r \in rows} \cup {0}
    OBVIOUS
  <2> QED BY <2>2, <2>3
<1>3. PICK n \in Nat : refs \subseteq 0..n
  <2> HIDE DEF refs
  <2> QED BY <1>1, <1>2, FiniteBounded
<1>4. Max(refs) \in refs /\ \A r \in refs : r <= Max(refs)
  <2> HIDE DEF refs
  <2> QED BY <1>1, <1>3, GreatestNumber
<1>5. Max(refs) \in Nat /\ \A r \in rows : r.ref <= Max(refs) /\ r.ref \in Nat
  BY <1>1, <1>4
<1> DEFINE m == Max(refs)
<1>6. Restore(rows) = [known |-> rows, next |-> m + 1]
  BY DEF Restore
<1> HIDE DEF m, refs
<1>7. m \in Nat /\ \A r \in rows : r.ref < m + 1
  BY <1>5 DEF m
<1> QED BY <1>6, <1>7 DEF Book

\* Rows that are known are open at most as often as what is known.
LEMMA CoveredCap ==
  ASSUME NEW known \in SUBSET Rows, NEW rows \in SUBSET Rows, Covers(known, rows), Refs(known),
         \A a, b \in rows : a.ref = b.ref => a = b
  PROVE  IsFiniteSet(OpenOnes(rows)) /\ Cardinality(OpenOnes(rows)) <= MaxOpen
<1> DEFINE Of(row) == CHOOSE k \in known : k.ref = row.ref /\ (row.open => k.open)
           inj == [row \in OpenOnes(rows) |-> Of(row)]
<1>1. \A row \in rows : Of(row) \in known /\ Of(row).ref = row.ref /\ (row.open => Of(row).open)
  BY DEF Covers
<1>2. \A row \in OpenOnes(rows) : row \in rows /\ row.open
  BY DEF OpenOnes
<1>3. inj \in Injection(OpenOnes(rows), OpenOnes(known))
  <2>1. \A row \in OpenOnes(rows) : Of(row) \in OpenOnes(known)
    BY <1>1, <1>2 DEF OpenOnes
  <2>2. \A x, y \in OpenOnes(rows) : Of(x) = Of(y) => x = y
    <3> HIDE DEF Of
    <3> QED BY <1>1, <1>2
  <2> HIDE DEF Of
  <2> QED BY <2>1, <2>2 DEF Injection, IsInjective
<1>4. IsFiniteSet(OpenOnes(known)) /\ Cardinality(OpenOnes(known)) <= MaxOpen
  <2>1. OpenOnes(known) \in SUBSET known
    BY DEF OpenOnes
  <2> QED BY <2>1, FS_Subset DEF Refs
<1>5. IsFiniteSet(OpenOnes(rows)) /\ Cardinality(OpenOnes(rows)) <= Cardinality(OpenOnes(known))
  BY <1>3, <1>4, FS_Injection
<1> QED BY <1>4, <1>5, FS_CardinalityType, IntakeBounds
Past(d) == d.pc \in {"load", "apply", "admit"}

\* A proposal that is not past the lock.
Waits(d) == d \in Doors /\ ~Past(d) /\ ~d.loads /\ d.admitted = {}

LEMMA NoDoorIs == Waits(NoDoor) /\ \A pc \in {"idle", "done"} : Waits([NoDoor EXCEPT !.pc = pc])
<1>1. <<>> \in Proposals
  BY DEF Proposals
<1>2. Waits(NoDoor)
  BY <1>1 DEF NoDoor, Doors, Waits, Past
<1>3. ASSUME NEW pc \in {"idle", "done"} PROVE Waits([NoDoor EXCEPT !.pc = pc])
  BY <1>1, <1>3 DEF NoDoor, Doors, Waits, Past
<1> QED BY <1>2, <1>3

\* A producer's proposal waits, or is done with.
LEMMA DoorWaits ==
  ASSUME IntakeInv, NEW p \in Producers, NEW d, Waits(d), door' = [door EXCEPT ![p] = d], UNCHANGED <<queue, states>>,
         lock' = lock \/ (lock' = "free" /\ Past(door[p]))
  PROVE  IntakeInv'
<1>1. \A q \in Producers : door'[q] = IF q = p THEN d ELSE door[q]
  BY DEF IntakeInv, IntakeTyped
<1>2. IntakeTyped'
  BY DEF IntakeInv, IntakeTyped, Waits
<1>3. LockHeld'
  <2> SUFFICES ASSUME NEW q \in Producers, Past(door'[q]) PROVE lock' = q
    BY DEF LockHeld, Past
  <2>1. q # p /\ Past(door[q])
    BY <1>1 DEF Waits
  <2> QED BY <2>1 DEF IntakeInv, LockHeld, Past
<1>4. MemoryKept' /\ Refs(queue)'
  BY DEF IntakeInv, MemoryKept
<1>5. HolderKnows'
  <2> SUFFICES ASSUME NEW q \in Producers PROVE Knows(door[q])'
    BY DEF HolderKnows
  <2>1. CASE q = p
    BY <2>1, <1>1, FS_EmptySet, IntakeBounds DEF Waits, Past, Knows
  <2>2. CASE q # p
    <3>1. Knows(door[q]) /\ door'[q] = door[q]
      BY <2>2, <1>1 DEF IntakeInv, HolderKnows
    <3> QED BY <3>1 DEF Knows
  <2> QED BY <2>1, <2>2
<1> QED BY <1>2, <1>3, <1>4, <1>5 DEF IntakeInv

LEMMA BatchNumbers == \A Each : \A incoming \in Seq(Each) : DOMAIN incoming \subseteq Nat
  OBVIOUS

LEMMA Entering ==
  ASSUME IntakeInv, NEW p \in Producers, NEW incoming \in Proposals, NEW lines, NEW aloud \in {"no", "no date", "date"},
         Enter(p, incoming, lines, aloud), UNCHANGED <<queue, states, lock>>
  PROVE  IntakeInv' /\ \A q \in Producers : q # p => door'[q] = door[q]
<1> DEFINE waits == [NoDoor EXCEPT !.pc = "wait", !.incoming = incoming, !.backed = Ground(incoming, lines), !.said = aloud]
<1>1. PICK d : d \in {waits, [NoDoor EXCEPT !.pc = "done"]} /\ door' = [door EXCEPT ![p] = d]
  BY DEF Enter
<1>2. Ground(incoming, lines) \in SUBSET Nat
  <2>1. DOMAIN incoming \subseteq Nat
    BY BatchNumbers DEF Proposals
  <2> QED BY <2>1 DEF Ground
<1>3. Waits(waits)
  BY <1>2 DEF Doors, NoDoor, Past, Waits
<1>4. Waits(d)
  <2> HIDE DEF waits
  <2> QED BY <1>1, <1>3, NoDoorIs
<1>5. IntakeInv'
  BY <1>1, <1>4, DoorWaits
<1> QED BY <1>1, <1>5 DEF IntakeInv, IntakeTyped

LEMMA LockTaken ==
  ASSUME IntakeInv, NEW p \in Producers, TakeLock(p)
  PROVE  IntakeInv' /\ (\A q \in Producers : q # p => door'[q] = door[q]) /\ door[p].pc # "idle"
<1>1. PICK pc \in {"load", "apply"} : door' = [door EXCEPT ![p].pc = pc] /\ (pc = "apply" => states # NoState)
  BY DEF TakeLock
<1>2. door[p] \in Doors /\ door[p].pc = "wait" /\ lock = "free" /\ lock' = p /\ UNCHANGED <<queue, states>>
  BY DEF TakeLock, IntakeInv, IntakeTyped
<1> DEFINE d == [door[p] EXCEPT !.pc = pc]
<1>3. d \in Doors /\ d.pc = pc /\ d.admitted = door[p].admitted /\ d.loads = door[p].loads /\ d.rows = door[p].rows
  BY <1>2 DEF Doors
<1>4. \A q \in Producers : door'[q] = IF q = p THEN d ELSE door[q]
  BY <1>1 DEF IntakeInv, IntakeTyped
<1>5. door' \in [Producers -> Doors]
  <2>1. door' = [door EXCEPT ![p] = d]
    BY <1>1
  <2> HIDE DEF d
  <2> QED BY <2>1, <1>3 DEF IntakeInv, IntakeTyped
<1> HIDE DEF d
<1>6. IntakeTyped'
  BY <1>2, <1>5 DEF IntakeInv, IntakeTyped
<1>7. LockHeld'
  <2> SUFFICES ASSUME NEW q \in Producers, q # p PROVE ~(door[q].pc \in {"load", "apply", "admit"})
    BY <1>2, <1>4 DEF LockHeld
  <2> QED BY <1>2, ProducersNamed DEF IntakeInv, LockHeld
<1>8. MemoryKept' /\ Refs(queue)'
  BY <1>2 DEF IntakeInv, MemoryKept
<1>9. HolderKnows'
  <2> SUFFICES ASSUME NEW q \in Producers PROVE Knows(door[q])'
    BY DEF HolderKnows
  <2>1. Knows(door[q])
    BY DEF IntakeInv, HolderKnows
  <2>2. CASE q = p
    BY <2>1, <2>2, <1>1, <1>2, <1>3, <1>4 DEF Knows
  <2>3. CASE q # p
    BY <2>1, <2>3, <1>2, <1>4 DEF Knows
  <2> QED BY <2>2, <2>3
<1> QED BY <1>2, <1>4, <1>6, <1>7, <1>8, <1>9 DEF IntakeInv

LEMMA RowsLoaded ==
  ASSUME IntakeInv, NEW p \in Producers, LoadRows(p)
  PROVE  IntakeInv' /\ (\A q \in Producers : q # p => door'[q] = door[q]) /\ door[p].pc # "idle"
<1> DEFINE d == [door[p] EXCEPT !.pc = "apply", !.loads = TRUE, !.rows = queue]
<1>1. door[p] \in Doors /\ door[p].pc = "load" /\ UNCHANGED <<queue, states, lock>> /\ door' = [door EXCEPT ![p] = d]
  BY DEF LoadRows, IntakeInv, IntakeTyped
<1>2. d \in Doors /\ d.pc = "apply" /\ d.admitted = door[p].admitted /\ d.loads = TRUE /\ d.rows = queue
  BY <1>1 DEF Doors, IntakeInv, IntakeTyped
<1> HIDE DEF d
<1>3. \A q \in Producers : door'[q] = IF q = p THEN d ELSE door[q]
  BY <1>1 DEF IntakeInv, IntakeTyped
<1>4. IntakeTyped'
  BY <1>1, <1>2 DEF IntakeInv, IntakeTyped
<1>5. LockHeld'
  BY <1>1, <1>3 DEF IntakeInv, LockHeld
<1>6. MemoryKept' /\ Refs(queue)'
  BY <1>1 DEF IntakeInv, MemoryKept
<1>7. HolderKnows'
  <2> SUFFICES ASSUME NEW q \in Producers PROVE Knows(door[q])'
    BY DEF HolderKnows
  <2>1. Knows(door[q])
    BY DEF IntakeInv, HolderKnows
  <2>2. CASE q = p
    <3>1. Covers(queue, queue) /\ Refs(queue)
      BY DEF IntakeInv, Covers
    <3> QED BY <3>1, <2>1, <2>2, <1>1, <1>2, <1>3 DEF Knows
  <2>3. CASE q # p
    BY <2>1, <2>3, <1>1, <1>3 DEF Knows
  <2> QED BY <2>2, <2>3
<1> QED BY <1>1, <1>3, <1>4, <1>5, <1>6, <1>7 DEF IntakeInv

LEMMA IncomingApplied ==
  ASSUME IntakeInv, NEW p \in Producers, ApplyIncoming(p)
  PROVE  IntakeInv' /\ (\A q \in Producers : q # p => door'[q] = door[q]) /\ door[p].pc # "idle"
<1> DEFINE d == door[p]
           from == IF d.loads THEN Restore(d.rows) ELSE states
           applied == Apply(from, d.incoming, d.backed, d.said)
<1>1. d \in Doors /\ d.pc = "apply" /\ Knows(d) /\ lock = p
  BY DEF ApplyIncoming, IntakeInv, IntakeTyped, HolderKnows, LockHeld
<1>2. from \in [known : SUBSET Rows, next : Nat] /\ Book(from) /\ Covers(from.known, queue)
  <2>1. CASE d.loads
    <3>1. d.rows \in SUBSET Rows /\ Refs(d.rows) /\ Covers(d.rows, queue)
      BY <1>1, <2>1 DEF Doors, Knows
    <3> QED BY <3>1, <2>1, RestoredBook
  <2>2. CASE ~d.loads
    BY <1>1, <2>2 DEF Knows, IntakeInv, IntakeTyped, MemoryKept
  <2> QED BY <2>1, <2>2
<1>3. Admitting(applied, from)
  <2>1. d.incoming \in Proposals
    BY <1>1 DEF Doors
  <2> HIDE DEF from
  <2> QED BY <2>1, <1>2, BatchApplied
<1>4. /\ states' = applied.state /\ UNCHANGED queue /\ lock' = (IF applied.admitted = {} THEN "free" ELSE lock)
      /\ door' = [door EXCEPT ![p] = [NoDoor EXCEPT !.pc = IF applied.admitted = {} THEN "done" ELSE "admit",
                                                    !.admitted = applied.admitted]]
  BY DEF ApplyIncoming
<1> DEFINE e == [NoDoor EXCEPT !.pc = IF applied.admitted = {} THEN "done" ELSE "admit", !.admitted = applied.admitted]
<1> HIDE DEF applied, from
<1>5. /\ applied.state \in [known : SUBSET Rows, next : Nat] /\ Book(applied.state) /\ applied.admitted \subseteq applied.state.known
      /\ from.known \subseteq applied.state.known /\ IsFiniteSet(applied.admitted) /\ Cardinality(applied.admitted) <= MaxNew
      /\ \A a \in applied.admitted : a.ref >= from.next
  BY <1>3 DEF Admitting
<1>6. Covers(applied.state.known, queue)
  BY <1>2, <1>5 DEF Covers
<1>7. applied.state # NoState
  BY <1>5 DEF Book, NoState
<1>8. \A a \in applied.admitted : \A row \in queue : a.ref # row.ref
  <2> SUFFICES ASSUME NEW a \in applied.admitted, NEW row \in queue PROVE a.ref # row.ref
    OBVIOUS
  <2>1. PICK k \in from.known : k.ref = row.ref
    BY <1>2 DEF Covers
  <2>2. k.ref < from.next /\ a.ref >= from.next /\ k.ref \in Nat /\ a.ref \in Nat /\ from.next \in Nat
    BY <2>1, <1>2, <1>5 DEF Book, Rows
  <2> QED BY <2>1, <2>2
<1>9. /\ e \in Doors /\ e.pc \in {"done", "admit"} /\ e.admitted = applied.admitted /\ ~e.loads
      /\ e.pc = (IF applied.admitted = {} THEN "done" ELSE "admit")
  <2>1. applied.admitted \in SUBSET Rows /\ <<>> \in Proposals
    BY <1>5 DEF Proposals
  <2> QED BY <2>1 DEF NoDoor, Doors
<1>10. \A q \in Producers : door'[q] = IF q = p THEN e ELSE door[q]
  BY <1>4 DEF IntakeInv, IntakeTyped
<1>11. IntakeTyped'
  <2>1. door' = [door EXCEPT ![p] = e]
    BY <1>4
  <2> HIDE DEF e
  <2> QED BY <2>1, <1>4, <1>5, <1>9 DEF IntakeInv, IntakeTyped
<1> HIDE DEF e
<1>12. LockHeld'
  <2> SUFFICES ASSUME NEW q \in Producers, door'[q].pc \in {"load", "apply", "admit"} PROVE lock' = q
    BY DEF LockHeld
  <2>1. CASE q = p
    BY <2>1, <1>1, <1>4, <1>9, <1>10
  <2>2. CASE q # p
    BY <2>2, <1>1, <1>10 DEF IntakeInv, LockHeld
  <2> QED BY <2>1, <2>2
<1>13. MemoryKept' /\ Refs(queue)'
  BY <1>4, <1>5, <1>6 DEF IntakeInv, MemoryKept
<1>14. HolderKnows'
  <2> SUFFICES ASSUME NEW q \in Producers PROVE Knows(door[q])'
    BY DEF HolderKnows
  <2>1. CASE q = p
    BY <2>1, <1>4, <1>5, <1>7, <1>8, <1>9, <1>10 DEF Knows
  <2>2. CASE q # p
    <3>1. Knows(door[q]) /\ door'[q] = door[q] /\ door[q].pc # "apply" /\ door[q].pc # "admit"
      BY <2>2, <1>1, <1>10 DEF IntakeInv, HolderKnows, LockHeld
    <3> QED BY <3>1 DEF Knows
  <2> QED BY <2>1, <2>2
<1> QED BY <1>1, <1>10, <1>11, <1>12, <1>13, <1>14, <1>4 DEF IntakeInv

\* What is admitted is stored, but for what the queue has already: the memory is dropped then.
LEMMA Admitted ==
  ASSUME IntakeInv, NEW p \in Producers, Admit(p)
  PROVE  IntakeInv' /\ (\A q \in Producers : q # p => door'[q] = door[q]) /\ door[p].pc # "idle"
<1> DEFINE d == door[p]
           new == {x \in d.admitted : \A row \in queue : Key(row) # Key(x)}
           e == [NoDoor EXCEPT !.pc = "done"]
<1>1. d \in Doors /\ d.pc = "admit" /\ Knows(d) /\ lock = p
  BY DEF Admit, IntakeInv, IntakeTyped, HolderKnows, LockHeld
<1>2. /\ queue' = queue \cup new /\ lock' = "free" /\ door' = [door EXCEPT ![p] = e]
      /\ states' = IF new # d.admitted THEN NoState ELSE states
  BY DEF Admit
<1>3. new \subseteq d.admitted
  OBVIOUS
<1> HIDE DEF new, e
<1>4. /\ states # NoState /\ d.admitted \subseteq states.known /\ (\A a \in d.admitted : \A row \in queue : a.ref # row.ref)
      /\ IsFiniteSet(d.admitted) /\ d.admitted \in SUBSET Rows
  BY <1>1 DEF Knows, Doors
<1>5. queue \in SUBSET Rows /\ Refs(queue) /\ states \in [known : SUBSET Rows, next : Nat] /\ Book(states) /\ Covers(states.known, queue)
  BY <1>4 DEF IntakeInv, IntakeTyped, MemoryKept
<1>6. queue' \in SUBSET Rows
  BY <1>2, <1>3, <1>4, <1>5
<1>7. \A a, b \in queue' : a.ref = b.ref => a = b
  <2>1. \A a, b \in states.known : a.ref = b.ref => a = b
    BY <1>5 DEF Book, Refs
  <2>2. \A a, b \in queue : a.ref = b.ref => a = b
    BY <1>5 DEF Refs
  <2> QED BY <2>1, <2>2, <1>2, <1>3, <1>4
<1>8. Covers(states.known, queue')
  <2>1. \A row \in new : row \in states.known
    BY <1>3, <1>4
  <2> QED BY <2>1, <1>2, <1>5 DEF Covers
<1>9. Refs(queue)'
  <2>1. IsFiniteSet(queue')
    <3>1. IsFiniteSet(new)
      BY <1>3, <1>4, FS_Subset
    <3> QED BY <3>1, <1>2, <1>5, FS_Union DEF Refs
  <2>2. Refs(states.known)
    BY <1>5 DEF Book
  <2>3. Cardinality(OpenOnes(queue')) <= MaxOpen
    BY <2>2, <1>5, <1>6, <1>7, <1>8, CoveredCap
  <2> QED BY <2>1, <2>3, <1>7 DEF Refs, OpenOnes
<1>10. Waits(e)
  BY NoDoorIs DEF e
<1>11. \A q \in Producers : door'[q] = IF q = p THEN e ELSE door[q]
  BY <1>2 DEF IntakeInv, IntakeTyped
<1>12. IntakeTyped'
  <2>1. NoState \in [known : SUBSET Rows, next : Nat]
    BY DEF NoState
  <2>2. e \in Doors
    BY <1>10 DEF Waits
  <2> QED BY <2>1, <2>2, <1>2, <1>5, <1>6 DEF IntakeInv, IntakeTyped
<1>13. \A q \in Producers : ~Past(door'[q])
  <2> SUFFICES ASSUME NEW q \in Producers PROVE ~Past(door'[q])
    OBVIOUS
  <2>1. CASE q = p
    BY <2>1, <1>10, <1>11 DEF Waits
  <2>2. CASE q # p
    BY <2>2, <1>1, <1>11 DEF Past, IntakeInv, LockHeld
  <2> QED BY <2>1, <2>2
<1>14. LockHeld'
  BY <1>13 DEF LockHeld, Past
<1>15. MemoryKept'
  <2>1. Book(states) /\ Covers(states.known, queue')
    BY <1>5, <1>8
  <2> QED BY <2>1, <1>2 DEF MemoryKept
<1>16. HolderKnows'
  <2> SUFFICES ASSUME NEW q \in Producers PROVE Knows(door[q])'
    BY DEF HolderKnows
  <2>1. CASE q = p
    BY <2>1, <1>10, <1>11, FS_EmptySet, IntakeBounds DEF Waits, Past, Knows
  <2>2. CASE q # p
    <3>1. Knows(door[q]) /\ door'[q] = door[q] /\ ~Past(door[q])
      BY <2>2, <1>11, <1>13 DEF IntakeInv, HolderKnows
    <3> QED BY <3>1 DEF Knows, Past
  <2> QED BY <2>1, <2>2
<1> QED BY <1>1, <1>9, <1>11, <1>12, <1>14, <1>15, <1>16 DEF IntakeInv

LEMMA AdmissionFailed ==
  ASSUME IntakeInv, NEW p \in Producers, AdmitFails(p)
  PROVE  IntakeInv' /\ (\A q \in Producers : q # p => door'[q] = door[q]) /\ door[p].pc # "idle"
<1>1. door' = [door EXCEPT ![p] = [NoDoor EXCEPT !.pc = "done"]] /\ lock' = "free" /\ UNCHANGED <<queue, states>> /\ door[p].pc = "admit"
  BY DEF AdmitFails
<1>2. IntakeInv'
  <2> DEFINE e == [NoDoor EXCEPT !.pc = "done"]
  <2>1. Waits(e)
    BY NoDoorIs
  <2>2. door' = [door EXCEPT ![p] = e]
    BY <1>1
  <2> HIDE DEF e
  <2> QED BY <2>1, <2>2, <1>1, DoorWaits DEF Past
<1> QED BY <1>1, <1>2 DEF IntakeInv, IntakeTyped

\* A review closes a row: nothing that is known of it is wrong then.
LEMMA Reviewed ==
  ASSUME IntakeInv, NEW row \in queue, Review(row)
  PROVE  IntakeInv' /\ UNCHANGED door
<1> DEFINE closed == [row EXCEPT !.open = FALSE]
<1>1. queue' = (queue \ {row}) \cup {closed} /\ UNCHANGED <<states, lock, door>>
  BY DEF Review
<1>2. row \in Rows /\ closed \in Rows /\ closed.ref = row.ref /\ ~closed.open
  BY DEF IntakeInv, IntakeTyped, Rows
<1> HIDE DEF closed
<1>3. queue \in SUBSET Rows /\ queue' \in SUBSET Rows /\ Refs(queue)
  BY <1>1, <1>2 DEF IntakeInv, IntakeTyped
<1>4. \A a, b \in queue' : a.ref = b.ref => a = b
  <2>1. \A a, b \in queue : a.ref = b.ref => a = b
    BY <1>3 DEF Refs
  <2> QED BY <2>1, <1>1, <1>2
<1>5. IsFiniteSet(queue') /\ OpenOnes(queue') \in SUBSET OpenOnes(queue) /\ IsFiniteSet(OpenOnes(queue))
  <2>1. IsFiniteSet(queue \ {row}) /\ IsFiniteSet(queue)
    BY <1>3, FS_RemoveElement, FS_Subset DEF Refs
  <2>2. IsFiniteSet(queue')
    BY <2>1, <1>1, FS_AddElement
  <2>3. OpenOnes(queue') \in SUBSET OpenOnes(queue)
    BY <1>1, <1>2 DEF OpenOnes
  <2>4. OpenOnes(queue) \in SUBSET queue
    BY DEF OpenOnes
  <2> QED BY <2>1, <2>2, <2>3, <2>4, FS_Subset
<1>6. Cardinality(OpenOnes(queue')) <= MaxOpen
  <2>1. Cardinality(OpenOnes(queue')) <= Cardinality(OpenOnes(queue)) /\ Cardinality(OpenOnes(queue)) <= MaxOpen
    BY <1>3, <1>5, FS_Subset DEF Refs
  <2>2. Cardinality(OpenOnes(queue')) \in Nat /\ Cardinality(OpenOnes(queue)) \in Nat
    BY <1>5, FS_Subset, FS_CardinalityType
  <2> QED BY <2>1, <2>2, IntakeBounds
<1>7. Refs(queue)'
  BY <1>4, <1>5, <1>6 DEF Refs, OpenOnes
<1>8. \A known : Covers(known, queue) => Covers(known, queue')
  <2> SUFFICES ASSUME NEW known, Covers(known, queue), NEW r \in queue' PROVE \E k \in known : k.ref = r.ref /\ (r.open => k.open)
    BY DEF Covers
  <2>1. PICK q \in queue : q.ref = r.ref /\ (r.open => q.open)
    BY <1>1, <1>2
  <2> QED BY <2>1 DEF Covers
<1>9. MemoryKept'
  BY <1>1, <1>8 DEF IntakeInv, MemoryKept
<1>10. \A x : (\A q \in queue : x.ref # q.ref) => (\A q \in queue' : x.ref # q.ref)
  BY <1>1, <1>2
<1>11. HolderKnows'
  <2> SUFFICES ASSUME NEW q \in Producers PROVE Knows(door[q])'
    BY DEF HolderKnows
  <2>1. Knows(door[q]) /\ door'[q] = door[q]
    BY <1>1 DEF IntakeInv, HolderKnows
  <2> QED BY <2>1, <1>1, <1>8, <1>10 DEF Knows
<1>12. IntakeTyped' /\ LockHeld'
  BY <1>1, <1>3 DEF IntakeInv, IntakeTyped, LockHeld
<1> QED BY <1>1, <1>7, <1>9, <1>11, <1>12 DEF IntakeInv

\* A new process has the rows and nothing else; so does the first.
LEMMA Forgotten ==
  ASSUME IntakeInv, ForgetIntake
  PROVE  IntakeInv' /\ \A p \in Producers : door'[p].pc = "idle"
<1>1. states' = NoState /\ lock' = "free" /\ door' = [p \in Producers |-> NoDoor] /\ UNCHANGED queue
  BY DEF ForgetIntake
<1>2. \A p \in Producers : door'[p] = NoDoor
  BY <1>1
<1>3. NoDoor.pc = "idle" /\ NoDoor \in Doors /\ ~NoDoor.loads /\ NoDoor.admitted = {}
  BY NoDoorIs DEF NoDoor, Waits
<1>4. IntakeTyped'
  BY <1>1, <1>3 DEF IntakeInv, IntakeTyped, NoState
<1>5. LockHeld' /\ MemoryKept' /\ Refs(queue)'
  BY <1>1, <1>2, <1>3 DEF IntakeInv, LockHeld, MemoryKept
<1>6. HolderKnows'
  BY <1>2, <1>3, FS_EmptySet, IntakeBounds DEF HolderKnows, Knows
<1> QED BY <1>2, <1>3, <1>4, <1>5, <1>6 DEF IntakeInv

LEMMA IntakeStarts == ASSUME IntakeInit PROVE IntakeInv /\ \A p \in Producers : door[p].pc = "idle"
<1>1. queue = {} /\ states = NoState /\ lock = "free" /\ \A p \in Producers : door[p] = NoDoor
  BY DEF IntakeInit
<1>2. NoDoor.pc = "idle" /\ NoDoor \in Doors /\ ~NoDoor.loads /\ NoDoor.admitted = {}
  BY NoDoorIs DEF NoDoor, Waits
<1>3. IntakeTyped
  BY <1>1, <1>2 DEF IntakeInit, IntakeTyped, NoState
<1>4. LockHeld /\ MemoryKept
  BY <1>1, <1>2 DEF LockHeld, MemoryKept
<1>5. HolderKnows
  BY <1>1, <1>2, FS_EmptySet, IntakeBounds DEF HolderKnows, Knows
<1>6. Refs(queue)
  <2>1. OpenOnes(queue) = {}
    BY <1>1 DEF OpenOnes
  <2> QED BY <2>1, <1>1, FS_EmptySet, IntakeBounds DEF Refs
<1> QED BY <1>1, <1>2, <1>3, <1>4, <1>5, <1>6 DEF IntakeInv

LEMMA IntakeKept == ASSUME IntakeInv, UNCHANGED intakeVars PROVE IntakeInv' /\ UNCHANGED door
<1>1. UNCHANGED <<queue, states, lock, door>>
  BY DEF intakeVars
<1>2. IntakeTyped' /\ LockHeld' /\ MemoryKept' /\ Refs(queue)'
  BY <1>1 DEF IntakeInv, IntakeTyped, LockHeld, MemoryKept
<1>3. HolderKnows'
  BY <1>1 DEF IntakeInv, HolderKnows, Knows
<1> QED BY <1>1, <1>2, <1>3 DEF IntakeInv

LEMMA Proposed ==
  ASSUME IntakeInv, NEW p \in Producers, Propose(p) \/ AdmitFails(p)
  PROVE  IntakeInv' /\ (\A q \in Producers : q # p => door'[q] = door[q]) /\ door[p].pc # "idle"
  BY LockTaken, RowsLoaded, IncomingApplied, Admitted, AdmissionFailed DEF Propose

\* The queue's part of CopilotSound.
LEMMA IntakeIsSound == ASSUME IntakeInv PROVE IntakeTypeOK /\ RefsUnique /\ OpenCap
<1>1. \A p \in Producers : door[p] \in Doors /\ Knows(door[p])
  BY DEF IntakeInv, IntakeTyped, HolderKnows
<1>2. \A p \in Producers : /\ door[p].pc \in {"idle", "wait", "load", "apply", "admit", "done"}
                           /\ Cardinality(door[p].admitted) <= MaxNew /\ door[p].loads \in BOOLEAN
  BY <1>1 DEF Doors, Knows
<1>3. lock \in Producers \cup {"free"} /\ states.next \in Nat /\ \A row \in queue : row.open \in BOOLEAN /\ row.ref \in Nat
  BY DEF IntakeInv, IntakeTyped, Rows
<1> QED BY <1>2, <1>3 DEF IntakeTypeOK, RefsUnique, OpenCap, IntakeInv, Refs

-----------------------------------------------------------------------------
\* Tables by id: they are finite, and stay so.
LEMMA TableIs ==
  ASSUME NEW Entries, NEW f \in Tables(Entries)
  PROVE  /\ DOMAIN f \in SUBSET Nat /\ IsFiniteSet(DOMAIN f) /\ Cardinality(DOMAIN f) \in Nat
         /\ \E n \in Nat : DOMAIN f \subseteq 0..n
         /\ f \in [DOMAIN f -> Entries]
<1>1. PICK ids \in Bounded : f \in [ids -> Entries]
  BY DEF Tables
<1>2. PICK n \in Nat : ids \subseteq 0..n
  BY <1>1 DEF Bounded
<1>3. IsFiniteSet(0..n)
  BY <1>2, FS_Interval
<1>4. IsFiniteSet(ids)
  BY <1>2, <1>3, FS_Subset
<1>5. DOMAIN f = ids /\ ids \in SUBSET Nat
  BY <1>1, <1>2
<1> QED BY <1>1, <1>2, <1>4, <1>5, FS_CardinalityType

LEMMA TableMade ==
  ASSUME NEW Entries, NEW n \in Nat, NEW ids \in SUBSET (0..n), NEW f \in [ids -> Entries]
  PROVE  f \in Tables(Entries)
<1>1. ids \in Bounded
  BY DEF Bounded
<1> QED BY <1>1 DEF Tables

LEMMA TableCut ==
  ASSUME NEW Entries, NEW f \in Tables(Entries), NEW ids \in SUBSET DOMAIN f
  PROVE  Restrict(f, ids) \in Tables(Entries) /\ DOMAIN Restrict(f, ids) = ids
<1>1. PICK n \in Nat : DOMAIN f \subseteq 0..n
  BY TableIs
<1>2. f \in [DOMAIN f -> Entries]
  BY TableIs
<1>3. Restrict(f, ids) \in [ids -> Entries] /\ DOMAIN Restrict(f, ids) = ids
  BY <1>2 DEF Restrict
<1>4. ids \in SUBSET (0..n)
  BY <1>1
<1> QED BY <1>3, <1>4, TableMade

LEMMA TablePut ==
  ASSUME NEW Entries, NEW f \in Tables(Entries), NEW id \in Nat, NEW row \in Entries
  PROVE  Put(f, id, row) \in Tables(Entries) /\ DOMAIN Put(f, id, row) = DOMAIN f \cup {id}
<1>1. PICK n \in Nat : DOMAIN f \subseteq 0..n
  BY TableIs
<1> DEFINE m == IF id > n THEN id ELSE n
<1>2. m \in Nat /\ DOMAIN f \cup {id} \in SUBSET (0..m)
  BY <1>1
<1> HIDE DEF m
<1>3. f \in [DOMAIN f -> Entries]
  BY TableIs
<1>4. Put(f, id, row) \in [DOMAIN f \cup {id} -> Entries] /\ DOMAIN Put(f, id, row) = DOMAIN f \cup {id}
  BY <1>3 DEF Put
<1> QED BY <1>2, <1>4, TableMade

LEMMA EmptyTable == \A Entries : <<>> \in Tables(Entries) /\ DOMAIN <<>> = {}
<1> SUFFICES ASSUME NEW Entries PROVE <<>> \in Tables(Entries) /\ DOMAIN <<>> = {}
  OBVIOUS
<1>1. <<>> \in [{} -> Entries] /\ DOMAIN <<>> = {}
  OBVIOUS
<1>2. {} \in SUBSET (0..0)
  OBVIOUS
<1> QED BY <1>1, <1>2, TableMade

LEMMA Upserting ==
  ASSUME NEW st \in [items : Tables(Items), next : Nat], NEW u \in Upserts
  PROVE  Upsert(st, u) \in [items : Tables(Items), next : Nat]
<1> DEFINE items == st.items
           same == {i \in DOMAIN items : items[i].text = u.text}
           due(old) == IF u.due = "none" THEN old ELSE u.due
           Known == [st EXCEPT !.items[u.id] = [text |-> u.text, due |-> due(@.due)]]
           Again == [st EXCEPT !.items[Min(same)].due = due(@)]
           Fresh == [items |-> Put(items, st.next, [text |-> u.text, due |-> u.due]), next |-> st.next + 1]
<1>1. items \in Tables(Items) /\ st.next \in Nat
  OBVIOUS
<1>2. PICK n \in Nat : DOMAIN items \in SUBSET (0..n) /\ items \in [DOMAIN items -> Items]
  BY <1>1, TableIs
<1>3. u.id \in Nat /\ u.text \in STRING /\ u.due \in STRING
  BY DEF Upserts
<1>4. \A i \in DOMAIN items : items[i].due \in STRING /\ items[i] \in Items /\ due(items[i].due) \in STRING
  BY <1>2, <1>3 DEF Items
<1>5. ASSUME u.id \in DOMAIN items PROVE Known \in [items : Tables(Items), next : Nat]
  <2> DEFINE row == [text |-> u.text, due |-> due(items[u.id].due)]
  <2>1. row \in Items
    BY <1>3, <1>4, <1>5 DEF Items
  <2>2. Known = [st EXCEPT !.items = [items EXCEPT ![u.id] = row]]
    OBVIOUS
  <2> HIDE DEF row, due, Known
  <2>3. [items EXCEPT ![u.id] = row] \in [DOMAIN items -> Items]
    <3> HIDE DEF items
    <3> QED BY <1>2, <2>1
  <2>4. [items EXCEPT ![u.id] = row] \in Tables(Items)
    <3> HIDE DEF items
    <3> QED BY <2>3, <1>2, TableMade
  <2> HIDE DEF items
  <2> QED BY <2>2, <2>4
<1>6. ASSUME same # {} PROVE Again \in [items : Tables(Items), next : Nat]
  <2> DEFINE least == Min(same)
  <2>1. least \in DOMAIN items
    <3>1. same \in SUBSET Nat
      BY <1>2
    <3> HIDE DEF same
    <3>2. least \in same
      BY <3>1, <1>6, SmallestNumber
    <3> QED BY <3>2 DEF same
  <2> DEFINE row == [items[least] EXCEPT !.due = due(items[least].due)]
  <2>2. row \in Items
    <3>1. items[least] \in Items /\ due(items[least].due) \in STRING
      BY <1>4, <2>1
    <3> HIDE DEF items, due, least
    <3> QED BY <3>1 DEF Items
  <2>3. Again = [st EXCEPT !.items = [items EXCEPT ![least] = row]]
    OBVIOUS
  <2> HIDE DEF row, due, Again, same, least
  <2>4. [items EXCEPT ![least] = row] \in [DOMAIN items -> Items]
    <3> HIDE DEF items
    <3> QED BY <1>2, <2>2
  <2>5. [items EXCEPT ![least] = row] \in Tables(Items)
    <3> HIDE DEF items
    <3> QED BY <2>4, <1>2, TableMade
  <2> HIDE DEF items
  <2> QED BY <2>3, <2>5
<1>7. Fresh \in [items : Tables(Items), next : Nat]
  <2>1. [text |-> u.text, due |-> u.due] \in Items
    BY <1>3 DEF Items
  <2>2. Put(items, st.next, [text |-> u.text, due |-> u.due]) \in Tables(Items)
    BY <1>1, <2>1, TablePut
  <2> QED BY <1>1, <2>2
<1>8. Upsert(st, u) = IF u.id \in DOMAIN items THEN Known ELSE IF same # {} THEN Again ELSE Fresh
  BY DEF Upsert
<1> HIDE DEF Known, Again, Fresh, same, items
<1> QED BY <1>5, <1>6, <1>7, <1>8

\* The items after a delta's upserts, one by one.
LEMMA AllUpserted ==
  ASSUME NEW m \in Mems, NEW upserts \in Seq(Upserts)
  PROVE  Upserted(m, upserts) \in [items : Tables(Items), next : Nat]
<1> DEFINE Base == [items |-> m.snap.items, next |-> m.nextItem]
           Typed == [items : Tables(Items), next : Nat]
           Step(st, n) == Upsert(st, upserts[n])
           Through(k, f) == f = [n \in 0..k |-> IF n = 0 THEN Base ELSE Step(f[n - 1], n)]
           Fails == {k \in 0..Len(upserts) : ~\E f : Through(k, f)}
<1>1. Base \in Typed
  BY DEF Mems, Snaps
<1>2. Len(upserts) \in Nat /\ \A n \in 1..Len(upserts) : upserts[n] \in Upserts
  <2> HIDE DEF Fails, Through, Step, Typed, Base
  <2> QED OBVIOUS
<1>3. \A st \in Typed : \A n \in 1..Len(upserts) : Step(st, n) \in Typed
  BY <1>2, Upserting
<1> HIDE DEF Step, Typed, Base
<1>4. Fails = {}
  <2> SUFFICES ASSUME Fails # {} PROVE FALSE
    OBVIOUS
  <2>1. PICK k \in Fails : \A j \in Fails : k <= j
    <3>1. Fails \in SUBSET Nat
      BY <1>2
    <3> HIDE DEF Fails
    <3> QED BY <3>1, LeastNumber
  <2>2. k # 0 /\ k \in 0..Len(upserts)
    <3>1. Through(0, [n \in 0..0 |-> Base])
      OBVIOUS
    <3> QED BY <3>1, <2>1
  <2>3. k - 1 \in 0..Len(upserts) /\ k - 1 \notin Fails /\ k \in 1..Len(upserts)
    <3> HIDE DEF Fails
    <3> QED BY <2>1, <2>2, <1>2
  <2>4. PICK f : Through(k - 1, f)
    BY <2>3
  <2> DEFINE g == [n \in 0..k |-> IF n = k THEN Step(f[k - 1], k) ELSE f[n]]
  <2>5. \A n \in 0..k : g[n] = IF n = 0 THEN Base ELSE Step(g[n - 1], n)
    <3> TAKE n \in 0..k
    <3>1. CASE n = k
      <4>1. g[n - 1] = f[k - 1]
        BY <3>1, <2>2, <2>3
      <4> QED BY <3>1, <4>1, <2>2, <2>3
    <3>2. CASE n # k
      <4>1. n \in 0..(k - 1) /\ g[n] = f[n]
        BY <3>2, <2>2, <2>3
      <4>2. f[n] = IF n = 0 THEN Base ELSE Step(f[n - 1], n)
        BY <4>1, <2>4
      <4>3. n # 0 => g[n - 1] = f[n - 1]
        BY <4>1, <2>2, <2>3
      <4> QED BY <4>1, <4>2, <4>3
    <3> QED BY <3>1, <3>2
  <2>6. Through(k, g)
    <3>1. g = [n \in 0..k |-> g[n]]
      OBVIOUS
    <3> HIDE DEF g
    <3> QED BY <3>1, <2>5
  <2> QED BY <2>1, <2>6
<1> DEFINE h == CHOOSE f0 : f0 = [n \in 0..Len(upserts) |-> IF n = 0 THEN Base ELSE Step(f0[n - 1], n)]
<1>5. PICK f : Through(Len(upserts), f)
  <2>1. Len(upserts) \in 0..Len(upserts)
    BY <1>2
  <2> QED BY <2>1, <1>4
<1>6. Through(Len(upserts), h)
  BY <1>5
<1>7. \A n \in 0..Len(upserts) : h[n] = IF n = 0 THEN Base ELSE Step(h[n - 1], n)
  <2> HIDE DEF h
  <2> QED BY <1>6
<1> HIDE DEF h
<1> DEFINE Wrong == {n \in 0..Len(upserts) : h[n] \notin Typed}
<1>8. Wrong = {}
  <2> SUFFICES ASSUME Wrong # {} PROVE FALSE
    OBVIOUS
  <2>1. PICK n \in Wrong : \A j \in Wrong : n <= j
    <3>1. Wrong \in SUBSET Nat
      BY <1>2
    <3> HIDE DEF Wrong
    <3> QED BY <3>1, LeastNumber
  <2>2. n # 0 /\ n \in 0..Len(upserts)
    BY <1>1, <1>7, <2>1
  <2>3. n - 1 \in 0..Len(upserts) /\ n - 1 \notin Wrong /\ n \in 1..Len(upserts)
    <3> HIDE DEF Wrong
    <3> QED BY <2>1, <2>2, <1>2
  <2>4. h[n - 1] \in Typed
    BY <2>3
  <2> QED BY <2>1, <2>2, <2>3, <2>4, <1>3, <1>7
<1>9. Upserted(m, upserts) = h[Len(upserts)]
  BY DEF Upserted, Base, Step, h
<1>10. h[Len(upserts)] \in Typed
  <2>1. Len(upserts) \in 0..Len(upserts)
    BY <1>2
  <2> QED BY <2>1, <1>8
<1> QED BY <1>9, <1>10 DEF Typed

-----------------------------------------------------------------------------
\* What CopilotState's operations make of its state.
LEMMA SnapIs ==
  ASSUME NEW snap \in Snaps
  PROVE  /\ snap.version \in Nat /\ snap.items \in Tables(Items) /\ snap.suggestions \in Tables(Suggestions)
         /\ snap.related \in SUBSET Notes /\ Cardinality(DOMAIN snap.suggestions) <= MaxSuggestions
         /\ \A version \in Nat : [snap EXCEPT !.version = version] \in Snaps
         /\ \A items \in Tables(Items) : [snap EXCEPT !.items = items] \in Snaps
         /\ \A hits \in SUBSET Notes : [snap EXCEPT !.related = hits] \in Snaps
         /\ \A told \in Tables(Suggestions) :
              Cardinality(DOMAIN told) <= MaxSuggestions => [snap EXCEPT !.suggestions = told] \in Snaps
  BY DEF Snaps

LEMMA Bumped ==
  ASSUME NEW m \in Mems, NEW snap \in Snaps
  PROVE  Bump(m, snap) \in Mems /\ Bump(m, snap).shown = m.shown
<1>1. snap.version + 1 \in Nat
  BY SnapIs
<1>2. [snap EXCEPT !.version = @ + 1] \in Snaps
  BY <1>1, SnapIs
<1> QED BY <1>2 DEF Bump, Mems

LEMMA Suggested ==
  ASSUME NEW m \in Mems, NEW text \in STRING \cup {"notice"}, NEW now \in Nat
  PROVE  Suggest(m, text, now) \in Tables(Suggestions) /\ Cardinality(DOMAIN Suggest(m, text, now)) <= MaxSuggestions
<1> DEFINE old == m.snap.suggestions
           row == [text |-> text, until |-> now + Ttl]
           s == Put(old, m.nextSugg, row)
<1>0. Ttl \in Nat /\ MaxSuggestions \in Nat
  BY CopilotBounds
<1>1. old \in Tables(Suggestions) /\ Cardinality(DOMAIN old) <= MaxSuggestions /\ m.nextSugg \in Nat
  BY SnapIs DEF Mems
<1>2. row \in Suggestions
  BY <1>0 DEF Suggestions
<1> HIDE DEF row, old
<1>3. s \in Tables(Suggestions) /\ DOMAIN s = DOMAIN old \cup {m.nextSugg}
  <2>1. \A f \in Tables(Suggestions) : \A id \in Nat : \A r \in Suggestions :
          Put(f, id, r) \in Tables(Suggestions) /\ DOMAIN Put(f, id, r) = DOMAIN f \cup {id}
    BY TablePut
  <2> QED BY <1>1, <1>2, <2>1
<1>4. IsFiniteSet(DOMAIN s) /\ Cardinality(DOMAIN s) \in Nat /\ Cardinality(DOMAIN s) <= MaxSuggestions + 1
      /\ DOMAIN s \in SUBSET Nat /\ DOMAIN s # {}
  <2> HIDE DEF old, s
  <2>1. IsFiniteSet(DOMAIN old) /\ Cardinality(DOMAIN old) \in Nat
    BY <1>1, TableIs
  <2>2. Cardinality(DOMAIN old \cup {m.nextSugg}) <= Cardinality(DOMAIN old) + 1
    <3>1. Cardinality(DOMAIN old \cup {m.nextSugg})
            = IF m.nextSugg \in DOMAIN old THEN Cardinality(DOMAIN old) ELSE Cardinality(DOMAIN old) + 1
      BY <2>1, FS_AddElement
    <3> QED BY <3>1, <2>1
  <2>3. Cardinality(DOMAIN s) \in Nat /\ IsFiniteSet(DOMAIN s) /\ DOMAIN s \in SUBSET Nat
    BY <1>3, TableIs
  <2> QED BY <2>1, <2>2, <2>3, <1>0, <1>1, <1>3
<1> HIDE DEF s
<1>5. Suggest(m, text, now) = IF Cardinality(DOMAIN s) > MaxSuggestions THEN Restrict(s, DOMAIN s \ {Min(DOMAIN s)}) ELSE s
  BY DEF Suggest, LastOnes, s, old, row
<1>6. CASE Cardinality(DOMAIN s) > MaxSuggestions
  <2> DEFINE least == Min(DOMAIN s)
  <2>1. least \in DOMAIN s
    BY <1>4, SmallestNumber
  <2> HIDE DEF least
  <2>2. Restrict(s, DOMAIN s \ {least}) \in Tables(Suggestions) /\ DOMAIN Restrict(s, DOMAIN s \ {least}) = DOMAIN s \ {least}
    BY <1>3, TableCut
  <2>3. Cardinality(DOMAIN s \ {least}) = Cardinality(DOMAIN s) - 1
    BY <1>4, <2>1, FS_RemoveElement
  <2>4. Cardinality(DOMAIN s \ {least}) <= MaxSuggestions
    BY <2>3, <1>0, <1>4
  <2> QED BY <2>2, <2>4, <1>5, <1>6 DEF least
<1>7. CASE ~(Cardinality(DOMAIN s) > MaxSuggestions)
  BY <1>0, <1>3, <1>4, <1>5, <1>7
<1> QED BY <1>6, <1>7

LEMMA DeltaApplied ==
  ASSUME NEW m \in Mems, NEW d \in AnyDelta, NEW now \in Nat
  PROVE  ApplyDelta(m, d, now) \in Mems /\ ApplyDelta(m, d, now).shown = m.shown
<1> DEFINE upserted == Upserted(m, d.upserts)
           items == Restrict(upserted.items, DOMAIN upserted.items \ d.remove)
           told == Restrict(m.snap.suggestions, DOMAIN m.snap.suggestions \ d.dismiss)
           left == [m EXCEPT !.snap.items = items, !.snap.suggestions = told, !.nextItem = upserted.next]
           fresh == d.suggest # "none" /\ \A i \in DOMAIN left.snap.suggestions : left.snap.suggestions[i].text # d.suggest
           more == [left EXCEPT !.snap.suggestions = Suggest(left, d.suggest, now), !.nextSugg = @ + 1]
           after == IF fresh THEN more ELSE left
<1>1. d.upserts \in Seq(Upserts) /\ (fresh => d.suggest \in STRING)
  BY DEF AnyDelta
<1>2. upserted.items \in Tables(Items) /\ upserted.next \in Nat
  BY <1>1, AllUpserted
<1>3. m.snap \in Snaps /\ m.shown \in SUBSET Notes /\ m.nextItem \in Nat /\ m.nextSugg \in Nat
  BY DEF Mems
<1>4. items \in Tables(Items)
  <2>1. \A f \in Tables(Items) : Restrict(f, DOMAIN f \ d.remove) \in Tables(Items)
    BY TableCut
  <2> HIDE DEF upserted
  <2> QED BY <2>1, <1>2
<1>5. told \in Tables(Suggestions) /\ Cardinality(DOMAIN told) <= MaxSuggestions
  <2> DEFINE old == m.snap.suggestions
             ids == DOMAIN old \ d.dismiss
  <2>1. old \in Tables(Suggestions) /\ Cardinality(DOMAIN old) <= MaxSuggestions
    BY <1>3, SnapIs
  <2> HIDE DEF old
  <2>2. Restrict(old, ids) \in Tables(Suggestions) /\ DOMAIN Restrict(old, ids) = ids
    BY <2>1, TableCut
  <2>3. IsFiniteSet(DOMAIN old) /\ Cardinality(DOMAIN old) \in Nat /\ ids \in SUBSET DOMAIN old
    BY <2>1, TableIs
  <2>4. Cardinality(ids) <= Cardinality(DOMAIN old) /\ Cardinality(ids) \in Nat
    BY <2>3, FS_Subset, FS_CardinalityType
  <2> HIDE DEF ids
  <2>5. Restrict(old, ids) \in Tables(Suggestions) /\ Cardinality(DOMAIN Restrict(old, ids)) <= MaxSuggestions
    BY <2>1, <2>2, <2>3, <2>4, CopilotBounds
  <2> QED BY <2>5 DEF old, ids
<1>6. ApplyDelta(m, d, now) = IF after.snap = m.snap THEN after ELSE Bump(after, after.snap)
  BY DEF ApplyDelta
<1> HIDE DEF items, told, upserted, fresh
<1>7. left \in Mems /\ left.shown = m.shown
  <2> DEFINE changed == [m.snap EXCEPT !.items = items]
  <2>1. changed \in Snaps
    BY <1>3, <1>4, SnapIs
  <2> HIDE DEF changed
  <2> DEFINE snap == [changed EXCEPT !.suggestions = told]
  <2>2. snap \in Snaps
    BY <2>1, <1>5, SnapIs
  <2>3. snap = [m.snap EXCEPT !.items = items, !.suggestions = told]
    BY <1>3 DEF changed, Snaps
  <2> HIDE DEF snap
  <2>4. left = [m EXCEPT !.snap = snap, !.nextItem = upserted.next]
    BY <2>3 DEF Mems
  <2> HIDE DEF left
  <2> QED BY <2>2, <2>4, <1>2, <1>3 DEF Mems
<1> HIDE DEF left
<1>8. ASSUME fresh PROVE more \in Mems /\ more.shown = m.shown
  <2>1. Suggest(left, d.suggest, now) \in Tables(Suggestions) /\ Cardinality(DOMAIN Suggest(left, d.suggest, now)) <= MaxSuggestions
    BY <1>1, <1>7, <1>8, Suggested
  <2>2. left.snap \in Snaps /\ left.nextSugg \in Nat /\ left.shown = m.shown
    BY <1>7 DEF Mems
  <2> DEFINE snap == [left.snap EXCEPT !.suggestions = Suggest(left, d.suggest, now)]
  <2>3. snap \in Snaps
    BY <2>1, <2>2, SnapIs
  <2>4. more = [left EXCEPT !.snap = snap, !.nextSugg = left.nextSugg + 1]
    BY <1>7 DEF Mems
  <2> HIDE DEF snap, more
  <2>5. left.nextSugg + 1 \in Nat
    BY <2>2
  <2> DEFINE n == left.nextSugg + 1
  <2>6. more = [left EXCEPT !.snap = snap, !.nextSugg = n] /\ n \in Nat
    BY <2>4, <2>5
  <2> HIDE DEF n
  <2> QED BY <2>2, <2>3, <2>6, <1>7 DEF Mems
<1> HIDE DEF more
<1>9. after \in Mems /\ after.shown = m.shown /\ after.snap \in Snaps
  BY <1>7, <1>8 DEF Mems
<1> HIDE DEF after
<1> QED BY <1>6, <1>9, Bumped

LEMMA Expired ==
  ASSUME NEW m \in Mems, NEW now
  PROVE  Expire(m, now) \in Mems /\ Expire(m, now).shown = m.shown
<1> DEFINE old == m.snap.suggestions
           ids == {i \in DOMAIN old : old[i].until > now}
           keep == Restrict(old, ids)
<1>1. m.snap \in Snaps /\ old \in Tables(Suggestions) /\ Cardinality(DOMAIN old) <= MaxSuggestions
  BY SnapIs DEF Mems
<1>2. ids \in SUBSET DOMAIN old
  OBVIOUS
<1> HIDE DEF ids
<1>3. keep \in Tables(Suggestions) /\ DOMAIN keep = ids
  BY <1>1, <1>2, TableCut
<1>4. Cardinality(ids) <= MaxSuggestions
  <2>1. IsFiniteSet(DOMAIN old) /\ Cardinality(DOMAIN old) \in Nat
    BY <1>1, TableIs
  <2>2. Cardinality(ids) <= Cardinality(DOMAIN old) /\ Cardinality(ids) \in Nat
    BY <2>1, <1>2, FS_Subset, FS_CardinalityType
  <2> HIDE DEF old
  <2> QED BY <2>1, <2>2, <1>1, CopilotBounds
<1>5. Expire(m, now) = IF keep = old THEN m ELSE Bump(m, [m.snap EXCEPT !.suggestions = keep])
  BY DEF Expire, ids
<1> HIDE DEF keep
<1>6. [m.snap EXCEPT !.suggestions = keep] \in Snaps
  BY <1>1, <1>3, <1>4, SnapIs
<1> QED BY <1>5, <1>6, Bumped

LEMMA Noticed ==
  ASSUME NEW m \in Mems, NEW now \in Nat
  PROVE  Notice(m, now) \in Mems /\ Notice(m, now).shown = m.shown
<1> DEFINE snap == [m.snap EXCEPT !.suggestions = Suggest(m, "notice", now)]
           bumped == Bump(m, snap)
<1>1. snap \in Snaps
  <2>1. m.snap \in Snaps
    BY DEF Mems
  <2>2. Suggest(m, "notice", now) \in Tables(Suggestions) /\ Cardinality(DOMAIN Suggest(m, "notice", now)) <= MaxSuggestions
    BY Suggested
  <2> QED BY <2>1, <2>2, SnapIs
<1> HIDE DEF snap
<1>2. bumped \in Mems /\ bumped.shown = m.shown
  BY <1>1, Bumped
<1>3. Notice(m, now) = [bumped EXCEPT !.nextSugg = @ + 1]
  BY DEF Notice, snap
<1> HIDE DEF bumped
<1> QED BY <1>2, <1>3 DEF Mems

LEMMA RelatedSet ==
  ASSUME NEW m \in Mems, NEW hits \in SUBSET Notes
  PROVE  SetRelated(m, hits) \in Mems /\ SetRelated(m, hits).shown = m.shown \cup hits
<1> DEFINE bumped == Bump(m, [m.snap EXCEPT !.related = hits])
<1>1. [m.snap EXCEPT !.related = hits] \in Snaps
  BY SnapIs DEF Mems
<1>2. bumped \in Mems /\ bumped.shown = m.shown
  BY <1>1, Bumped
<1>3. SetRelated(m, hits) = [bumped EXCEPT !.shown = @ \cup hits]
  BY DEF SetRelated
<1> HIDE DEF bumped
<1> QED BY <1>2, <1>3 DEF Mems

\* The ids go on from the greatest stored.
LEMMA NextId ==
  ASSUME NEW Entries, NEW f \in Tables(Entries)
  PROVE  Max({0} \cup DOMAIN f) + 1 \in Nat
<1> DEFINE ids == {0} \cup DOMAIN f
<1>1. PICK n \in Nat : DOMAIN f \subseteq 0..n
  BY TableIs
<1>2. ids \in SUBSET Nat /\ ids # {} /\ ids \subseteq 0..n
  BY <1>1
<1> HIDE DEF ids
<1>3. Max(ids) \in Nat
  BY <1>2, <1>1, GreatestNumber
<1> QED BY <1>3 DEF ids

LEMMA PickedUp ==
  ASSUME NEW snap \in Snaps, NEW surfaced \in SUBSET Notes
  PROVE  FromSnapshot(snap, surfaced) \in Mems /\ surfaced \subseteq FromSnapshot(snap, surfaced).shown
<1>1. snap.items \in Tables(Items) /\ snap.suggestions \in Tables(Suggestions) /\ snap.related \in SUBSET Notes
  BY SnapIs
<1>2. Max({0} \cup DOMAIN snap.items) + 1 \in Nat /\ Max({0} \cup DOMAIN snap.suggestions) + 1 \in Nat
  BY <1>1, NextId
<1> QED BY <1>1, <1>2 DEF FromSnapshot, Mems

-----------------------------------------------------------------------------
\* The steps of the loop, of the voice task, of the owner and of the process.
LEMMA IdleIs ==
  /\ Idle \in Cycles /\ Idle.pc = "idle" /\ Blank \in Snaps /\ NewState \in Mems /\ NewState.shown = {}
  /\ \A p \in CyclePcs : \A snap \in Snaps : [Idle EXCEPT !.pc = p, !.snap = snap] \in Cycles
  /\ \A p \in CyclePcs : \A hits \in SUBSET Notes : [Idle EXCEPT !.pc = p, !.hits = hits] \in Cycles
  /\ \A p \in CyclePcs : \A now \in Nat : \A un \in BOOLEAN : [Idle EXCEPT !.pc = p, !.now = now, !.untitled = un] \in Cycles
<1>1. Blank \in Snaps
  <2>1. <<>> \in Tables(Items) /\ <<>> \in Tables(Suggestions) /\ DOMAIN <<>> = {}
    BY EmptyTable
  <2>2. Cardinality(DOMAIN <<>>) = 0 /\ MaxSuggestions \in Nat
    BY <2>1, FS_EmptySet, CopilotBounds
  <2> QED BY <2>1, <2>2 DEF Blank, Snaps
<1>2. NoDelta \in AnyDelta
  BY DEF NoDelta, AnyDelta, Proposals
<1>3. Idle \in Cycles /\ Idle.pc = "idle"
  BY <1>1, <1>2 DEF Idle, Cycles, CyclePcs
<1>4. NewState \in Mems /\ NewState.shown = {}
  BY <1>1 DEF NewState, Mems
<1> HIDE DEF Idle
<1> QED BY <1>1, <1>3, <1>4 DEF Cycles

LEMMA ShownStays ==
  ASSUME ShownKnown, UNCHANGED related, mem.shown \subseteq mem'.shown, cycle.pc # "setrelated",
         cycle'.pc \notin {"related", "setrelated"}
  PROVE  ShownKnown'
<1>1. ShownOnce'
  BY DEF ShownKnown, ShownOnce
<1> QED BY <1>1 DEF ShownKnown

LEMMA ShownIdles ==
  ASSUME ShownKnown, UNCHANGED <<related, cycle>>, mem'.shown = mem.shown
  PROVE  ShownKnown'
<1>1. ShownOnce'
  BY DEF ShownKnown, ShownOnce
<1> QED BY <1>1 DEF ShownKnown

\* What a step of the loop needs to know.
LEMMA Typed ==
  ASSUME CopilotInv
  PROVE  /\ segs \in Nat /\ seen \in Nat /\ seen <= segs /\ MaxSegs \in Nat /\ segs <= MaxSegs
         /\ mem \in Mems /\ cycle \in Cycles /\ cycle.snap \in Snaps /\ cycle.hits \in SUBSET Notes /\ cycle.now \in Nat
         /\ cycle.delta \in AnyDelta /\ cycle.untitled \in BOOLEAN /\ cycle.pc \in CyclePcs
         /\ mem.snap \in Snaps /\ mem.shown \in SUBSET Notes
         /\ spoken.snap \in Snaps /\ snaps \in Snaps /\ client \in Snaps /\ title \in {"none", "user", "copilot"}
         /\ "copilot" \in Producers /\ "voice" \in Producers
<1>1. MaxSegs \in Nat
  BY CopilotBounds
<1>2. segs \in 0..MaxSegs /\ seen \in 0..segs
  BY DEF CopilotInv, CopilotTyped
<1>3. mem \in Mems /\ cycle \in Cycles /\ spoken \in [pc : {"idle", "persist"}, snap : Snaps] /\ snaps \in Snaps /\ client \in Snaps
      /\ title \in {"none", "user", "copilot"}
  BY DEF CopilotInv, CopilotTyped
<1>4. /\ cycle.snap \in Snaps /\ cycle.hits \in SUBSET Notes /\ cycle.now \in Nat /\ cycle.delta \in AnyDelta
      /\ cycle.untitled \in BOOLEAN /\ cycle.pc \in CyclePcs
  BY <1>3 DEF Cycles
<1>5. mem.snap \in Snaps /\ mem.shown \in SUBSET Notes /\ spoken.snap \in Snaps
  BY <1>3 DEF Mems
<1> QED BY <1>1, <1>2, <1>3, <1>4, <1>5, ProducersNamed

LEMMA SegmentKeeps == ASSUME CopilotInv, Segment PROVE CopilotInv'
<1>1. segs < MaxSegs /\ segs' = segs + 1 /\ UNCHANGED <<intakeVars, seen, cycle, title, mem, spoken, snaps, related, client>>
  BY DEF Segment
<1>2. IntakeInv' /\ UNCHANGED door
  BY <1>1, IntakeKept DEF CopilotInv
<1>3. CopilotTyped'
  <2>1. segs' \in 0..MaxSegs /\ seen' \in 0..segs'
    BY <1>1, Typed
  <2> QED BY <1>1, <2>1 DEF CopilotInv, CopilotTyped
<1>4. OneProposal' /\ ShownKnown'
  BY <1>1, <1>2, ShownIdles DEF CopilotInv, OneProposal
<1> QED BY <1>2, <1>3, <1>4 DEF CopilotInv

LEMMA LookKeeps == ASSUME CopilotInv, Look PROVE CopilotInv'
<1> DEFINE m == Expire(mem, segs)
           un == title = "none"
<1>1. m \in Mems /\ m.shown = mem.shown
  BY Typed, Expired
<1>2. cycle.pc = "idle" /\ mem' = m /\ UNCHANGED <<intakeVars, segs, title, spoken, snaps, related, client>>
  BY DEF Look
<1>3. \/ seen' = segs /\ cycle' = [Idle EXCEPT !.pc = "ask", !.now = segs, !.untitled = un]
      \/ UNCHANGED seen /\ cycle' = [Idle EXCEPT !.pc = "persist", !.snap = m.snap]
  BY DEF Look
<1>0. un \in BOOLEAN
  OBVIOUS
<1> HIDE DEF m, un
<1>4. IntakeInv' /\ UNCHANGED door
  BY <1>2, IntakeKept DEF CopilotInv
<1>5. cycle' \in Cycles /\ cycle'.pc \in {"ask", "persist"} /\ seen' \in 0..segs
  <2>1. m.snap \in Snaps /\ {"ask", "persist"} \subseteq CyclePcs
    BY <1>1 DEF Mems, CyclePcs
  <2>2. cycle' \in Cycles
    <3>1. segs \in Nat
      BY Typed
    <3>2. [Idle EXCEPT !.pc = "ask", !.now = segs, !.untitled = un] \in Cycles
      BY <3>1, <2>1, <1>0, IdleIs
    <3>3. [Idle EXCEPT !.pc = "persist", !.snap = m.snap] \in Cycles
      BY <2>1, IdleIs
    <3> QED BY <3>2, <3>3, <1>3
  <2>3. cycle'.pc \in {"ask", "persist"}
    BY <1>3 DEF Idle
  <2> QED BY <1>3, <2>2, <2>3, Typed
<1>6. CopilotTyped'
  BY <1>1, <1>2, <1>5 DEF CopilotInv, CopilotTyped
<1>7. OneProposal'
  BY <1>2, <1>4 DEF CopilotInv, OneProposal
<1>8. ShownKnown'
  BY <1>1, <1>2, <1>5, ShownStays DEF CopilotInv
<1> QED BY <1>4, <1>6, <1>7, <1>8 DEF CopilotInv

LEMMA AnswerKeeps == ASSUME CopilotInv, NEW d \in Deltas, LlmAnswers(d) PROVE CopilotInv'
<1>1. /\ cycle.pc = "ask" /\ cycle' = [cycle EXCEPT !.pc = "propose", !.delta = d]
      /\ Enter("copilot", d.proposals, 1..segs, "no")
      /\ UNCHANGED <<queue, states, lock, segs, seen, title, mem, spoken, snaps, related, client>>
  BY DEF LlmAnswers
<1>2. d \in AnyDelta /\ d.proposals \in Proposals
  BY AnswersShaped DEF AnyDelta, Upserts
<1>3. IntakeInv'
  BY <1>1, <1>2, Entering, Typed DEF CopilotInv
<1>4. cycle' \in Cycles /\ cycle'.pc = "propose"
  BY <1>1, <1>2, Typed DEF Cycles, CyclePcs
<1>5. CopilotTyped' /\ OneProposal'
  BY <1>1, <1>4 DEF CopilotInv, CopilotTyped, OneProposal
<1>6. ShownKnown'
  BY <1>1, <1>4, ShownStays DEF CopilotInv
<1> QED BY <1>3, <1>5, <1>6 DEF CopilotInv

\* A cycle that fails is skipped.
LEMMA FailureKeeps == ASSUME CopilotInv, LlmFails \/ PersistFails PROVE CopilotInv'
<1>1. /\ cycle.pc \in {"ask", "persist", "related"} /\ cycle' = Idle
      /\ UNCHANGED <<intakeVars, segs, seen, title, mem, spoken, snaps, related, client>>
  BY DEF LlmFails, PersistFails
<1>2. IntakeInv' /\ UNCHANGED door
  BY <1>1, IntakeKept DEF CopilotInv
<1>3. CopilotTyped' /\ OneProposal'
  BY <1>1, <1>2, IdleIs DEF CopilotInv, CopilotTyped, OneProposal
<1>4. ShownKnown'
  BY <1>1, IdleIs, ShownStays DEF CopilotInv
<1> QED BY <1>2, <1>3, <1>4 DEF CopilotInv

LEMMA MergeKeeps == ASSUME CopilotInv, Merge PROVE CopilotInv'
<1> DEFINE m == ApplyDelta(mem, cycle.delta, cycle.now)
<1>1. m \in Mems /\ m.shown = mem.shown
  BY Typed, DeltaApplied
<1>2. /\ cycle.pc = "propose" /\ door["copilot"].pc = "done" /\ door' = [door EXCEPT !["copilot"] = NoDoor]
      /\ UNCHANGED <<queue, states, lock>> /\ mem' = m /\ UNCHANGED <<segs, seen, spoken, snaps, related, client>>
  BY DEF Merge
<1>3. \/ \E hits \in SUBSET (Notes \ mem.shown) \ {{}} : cycle' = [Idle EXCEPT !.pc = "related", !.hits = hits]
      \/ cycle' = IF m.snap = mem.snap THEN Idle ELSE [Idle EXCEPT !.pc = "persist", !.snap = m.snap]
  BY DEF Merge
<1>4. title' \in {"none", "user", "copilot"}
  BY Typed DEF Merge, NameSession
<1> HIDE DEF m
<1>5. IntakeInv' /\ door'["copilot"] = NoDoor
  <2>1. IntakeInv'
    BY <1>2, NoDoorIs, Typed, DoorWaits DEF CopilotInv
  <2> QED BY <2>1, <1>2, Typed DEF CopilotInv, IntakeInv, IntakeTyped
<1>6. cycle' \in Cycles /\ cycle'.pc # "setrelated" /\ (cycle'.pc = "related" => cycle'.hits \cap mem.shown = {})
  <2>1. {"related", "persist"} \subseteq CyclePcs /\ m.snap \in Snaps
    BY <1>1 DEF CyclePcs, Mems
  <2>2. CASE \E hits \in SUBSET (Notes \ mem.shown) \ {{}} : cycle' = [Idle EXCEPT !.pc = "related", !.hits = hits]
    <3>1. PICK hits \in SUBSET (Notes \ mem.shown) \ {{}} : cycle' = [Idle EXCEPT !.pc = "related", !.hits = hits]
      BY <2>2
    <3>2. hits \in SUBSET Notes /\ hits \cap mem.shown = {}
      OBVIOUS
    <3>3. cycle' \in Cycles
      BY <3>1, <3>2, <2>1, IdleIs
    <3>4. cycle'.pc = "related" /\ cycle'.hits = hits
      BY <3>1 DEF Idle
    <3> QED BY <3>2, <3>3, <3>4
  <2>3. CASE cycle' = Idle
    BY <2>3, IdleIs
  <2>4. CASE cycle' = [Idle EXCEPT !.pc = "persist", !.snap = m.snap]
    <3>1. cycle' \in Cycles
      BY <2>1, <2>4, IdleIs
    <3>2. cycle'.pc = "persist"
      BY <2>4 DEF Idle
    <3> QED BY <3>1, <3>2
  <2> QED BY <1>3, <2>2, <2>3, <2>4
<1>7. CopilotTyped'
  BY <1>1, <1>2, <1>4, <1>6 DEF CopilotInv, CopilotTyped
<1>8. OneProposal'
  BY <1>5 DEF OneProposal, NoDoor
<1>9. ShownKnown'
  <2>1. ShownOnce'
    BY <1>2 DEF CopilotInv, ShownKnown, ShownOnce
  <2> QED BY <2>1, <1>1, <1>2, <1>6 DEF CopilotInv, ShownKnown
<1> QED BY <1>5, <1>7, <1>8, <1>9 DEF CopilotInv

\* What was not shown yet is stored as shown.
LEMMA StoreKeeps == ASSUME CopilotInv, StoreRelated PROVE CopilotInv'
<1>1. /\ cycle.pc = "related" /\ related' = Append(related, cycle.hits) /\ cycle' = [cycle EXCEPT !.pc = "setrelated"]
      /\ UNCHANGED <<intakeVars, segs, seen, title, mem, spoken, snaps, client>>
  BY DEF StoreRelated
<1>2. IntakeInv' /\ UNCHANGED door
  BY <1>1, IntakeKept DEF CopilotInv
<1>3. cycle' \in Cycles /\ cycle'.pc = "setrelated" /\ cycle'.hits = cycle.hits
  BY <1>1, Typed DEF Cycles, CyclePcs
<1>4. CopilotTyped' /\ OneProposal'
  BY <1>1, <1>2, <1>3 DEF CopilotInv, CopilotTyped, OneProposal
<1> DEFINE S == SUBSET Notes
           n == Len(related) + 1
<1>5. related \in Seq(S) /\ cycle.hits \in S
  BY Typed DEF CopilotInv, ShownKnown
<1>6. /\ (\A i \in DOMAIN related : related[i] \subseteq mem.shown) /\ cycle.hits \cap mem.shown = {}
      /\ \A i, j \in DOMAIN related : related[i] \cap related[j] # {} => i = j
  BY <1>1 DEF CopilotInv, ShownKnown, ShownOnce
<1>7. /\ related' \in Seq(S) /\ related'[n] = cycle.hits
      /\ \A i \in DOMAIN related' : i = n \/ (i \in DOMAIN related /\ related'[i] = related[i])
  <2> HIDE DEF S
  <2> QED BY <1>1, <1>5
<1> HIDE DEF n
<1>8. ShownOnce'
  <2> SUFFICES ASSUME NEW i \in DOMAIN related', NEW j \in DOMAIN related', related'[i] \cap related'[j] # {} PROVE i = j
    BY DEF ShownOnce
  <2>1. CASE i = n /\ j # n
    BY <2>1, <1>6, <1>7
  <2>2. CASE i # n /\ j = n
    BY <2>2, <1>6, <1>7
  <2>3. CASE i # n /\ j # n
    BY <2>3, <1>6, <1>7
  <2> QED BY <2>1, <2>2, <2>3
<1>9. \A i \in DOMAIN related' : related'[i] \subseteq mem.shown \cup cycle.hits
  BY <1>6, <1>7
<1>10. ShownKnown'
  BY <1>1, <1>3, <1>7, <1>8, <1>9 DEF ShownKnown
<1> QED BY <1>2, <1>4, <1>10 DEF CopilotInv

LEMMA ShowKeeps == ASSUME CopilotInv, ShowRelated PROVE CopilotInv'
<1> DEFINE m == SetRelated(mem, cycle.hits)
<1>1. m \in Mems /\ m.shown = mem.shown \cup cycle.hits
  BY Typed, RelatedSet
<1>2. /\ cycle.pc = "setrelated" /\ mem' = m /\ cycle' = [cycle EXCEPT !.pc = "persist", !.snap = m.snap]
      /\ UNCHANGED <<intakeVars, segs, seen, title, spoken, snaps, related, client>>
  BY DEF ShowRelated
<1> HIDE DEF m
<1>3. IntakeInv' /\ UNCHANGED door
  BY <1>2, IntakeKept DEF CopilotInv
<1>4. cycle' \in Cycles /\ cycle'.pc = "persist"
  BY <1>1, <1>2, Typed DEF Cycles, CyclePcs, Mems
<1>5. CopilotTyped' /\ OneProposal'
  BY <1>1, <1>2, <1>3, <1>4 DEF CopilotInv, CopilotTyped, OneProposal
<1>6. ShownKnown'
  <2>1. ShownOnce'
    BY <1>2 DEF CopilotInv, ShownKnown, ShownOnce
  <2> QED BY <2>1, <1>1, <1>2, <1>4 DEF CopilotInv, ShownKnown
<1> QED BY <1>3, <1>5, <1>6 DEF CopilotInv

LEMMA PersistKeeps == ASSUME CopilotInv, Persist PROVE CopilotInv'
<1>1. /\ cycle.pc = "persist" /\ snaps' = cycle.snap /\ client' = Shown(cycle.snap) /\ cycle' = Idle
      /\ UNCHANGED <<intakeVars, segs, seen, title, mem, spoken, related>>
  BY DEF Persist
<1>2. IntakeInv' /\ UNCHANGED door
  BY <1>1, IntakeKept DEF CopilotInv
<1>3. snaps' \in Snaps /\ client' \in Snaps
  BY <1>1, Typed DEF Shown
<1>4. CopilotTyped' /\ OneProposal'
  BY <1>1, <1>2, <1>3, IdleIs DEF CopilotInv, CopilotTyped, OneProposal
<1>5. ShownKnown'
  BY <1>1, IdleIs, ShownStays DEF CopilotInv
<1> QED BY <1>2, <1>4, <1>5 DEF CopilotInv

LEMMA AnnounceKeeps == ASSUME CopilotInv, Announce \/ AnnouncePersist PROVE CopilotInv'
<1>1. UNCHANGED <<intakeVars, segs, seen, cycle, title, related>>
  BY DEF Announce, AnnouncePersist, watchVars
<1>2. IntakeInv' /\ UNCHANGED door
  BY <1>1, IntakeKept DEF CopilotInv
<1>3. /\ mem' \in Mems /\ mem'.shown = mem.shown /\ snaps' \in Snaps /\ client' \in Snaps
      /\ spoken' \in [pc : {"idle", "persist"}, snap : Snaps]
  <2>1. CASE Announce
    <3> DEFINE m == Notice(mem, segs)
    <3>1. m \in Mems /\ m.shown = mem.shown
      BY Typed, Noticed
    <3>2. mem' = m /\ spoken' = [pc |-> "persist", snap |-> m.snap] /\ UNCHANGED <<snaps, client>>
      BY <2>1 DEF Announce
    <3> HIDE DEF m
    <3> QED BY <3>1, <3>2, Typed DEF Mems
  <2>2. CASE AnnouncePersist
    <3>1. snaps' = spoken.snap /\ client' = Shown(spoken.snap) /\ spoken' = [pc |-> "idle", snap |-> Blank] /\ UNCHANGED mem
      BY <2>2 DEF AnnouncePersist
    <3> QED BY <3>1, Typed, IdleIs DEF Shown
  <2> QED BY <2>1, <2>2
<1>4. CopilotTyped' /\ OneProposal'
  BY <1>1, <1>2, <1>3 DEF CopilotInv, CopilotTyped, OneProposal
<1>5. ShownKnown'
  BY <1>1, <1>3, ShownIdles DEF CopilotInv
<1> QED BY <1>2, <1>4, <1>5 DEF CopilotInv

\* A step of the intake or of the owner leaves the copilot's own state alone.
LEMMA ElsewhereKeeps ==
  ASSUME CopilotInv, IntakeInv', title' \in {"none", "user", "copilot"},
         UNCHANGED <<segs, seen, cycle, mem, spoken, snaps, related, client>>,
         door["copilot"].pc = "idle" => door'["copilot"].pc = "idle"
  PROVE  CopilotInv'
<1>1. CopilotTyped' /\ OneProposal'
  BY DEF CopilotInv, CopilotTyped, OneProposal
<1> QED BY <1>1, ShownIdles DEF CopilotInv

LEMMA OthersKeep ==
  ASSUME CopilotInv,
         \/ Rename \/ (\E v \in SpokenProposals : VoiceProposes(v.incoming, v.said))
         \/ (\E p \in Producers : Intaking(p) \/ IntakeFails(p)) \/ (\E row \in queue : OwnerReviews(row))
  PROVE  CopilotInv'
<1>1. CASE Rename
  <2>1. IntakeInv' /\ UNCHANGED door
    BY <1>1, IntakeKept DEF Rename, CopilotInv
  <2> QED BY <1>1, <2>1, ElsewhereKeeps DEF Rename
<1>2. ASSUME NEW v \in SpokenProposals, VoiceProposes(v.incoming, v.said) PROVE CopilotInv'
  <2>1. v.incoming \in Proposals /\ v.said \in {"no", "no date", "date"}
    BY AnswersShaped
  <2>2. Enter("voice", v.incoming, 1..segs, v.said) /\ UNCHANGED <<queue, states, lock, watchVars, mem, spoken, snaps, related, client>>
    BY <1>2 DEF VoiceProposes
  <2>3. IntakeInv' /\ door'["copilot"] = door["copilot"]
    BY <2>1, <2>2, Entering, Typed DEF CopilotInv
  <2> QED BY <2>2, <2>3, Typed, ElsewhereKeeps DEF watchVars
<1>3. ASSUME NEW p \in Producers, Intaking(p) \/ IntakeFails(p) PROVE CopilotInv'
  <2>1. (Propose(p) \/ AdmitFails(p)) /\ UNCHANGED <<watchVars, mem, spoken, snaps, related, client>>
    BY <1>3 DEF Intaking, IntakeFails
  <2>2. IntakeInv' /\ (\A q \in Producers : q # p => door'[q] = door[q]) /\ door[p].pc # "idle"
    BY <2>1, Proposed DEF CopilotInv
  <2> QED BY <2>1, <2>2, Typed, ElsewhereKeeps DEF watchVars
<1>4. ASSUME NEW row \in queue, OwnerReviews(row) PROVE CopilotInv'
  <2>1. Review(row) /\ UNCHANGED <<watchVars, mem, spoken, snaps, related, client>>
    BY <1>4 DEF OwnerReviews
  <2>2. IntakeInv' /\ UNCHANGED door
    BY <2>1, Reviewed DEF CopilotInv
  <2> QED BY <2>1, <2>2, Typed, ElsewhereKeeps DEF watchVars
<1> QED BY <1>1, <1>2, <1>3, <1>4

\* A new process counts as shown what is stored as shown.
LEMMA CrashKeeps == ASSUME CopilotInv, Crash PROVE CopilotInv'
<1> DEFINE surfaced == UNION Range(related)
           m == FromSnapshot(snaps, surfaced)
<1>1. /\ ForgetIntake /\ cycle' = Idle /\ seen' = segs /\ spoken' = [pc |-> "idle", snap |-> Blank] /\ mem' = m
      /\ UNCHANGED <<segs, title, snaps, related, client>>
  BY DEF Crash
<1>2. IntakeInv' /\ \A p \in Producers : door'[p].pc = "idle"
  BY <1>1, Forgotten DEF CopilotInv
<1>3. surfaced \in SUBSET Notes /\ \A i \in DOMAIN related : related[i] \subseteq surfaced
  <2> DEFINE S == SUBSET Notes
  <2>1. related \in Seq(S)
    BY DEF CopilotInv, ShownKnown
  <2>2. \A i \in DOMAIN related : related[i] \in S
    <3> HIDE DEF S
    <3> QED BY <2>1
  <2> QED BY <2>2 DEF Range
<1> HIDE DEF surfaced
<1>4. m \in Mems /\ surfaced \subseteq m.shown
  BY <1>3, Typed, PickedUp
<1> HIDE DEF m
<1>5. CopilotTyped' /\ OneProposal'
  <2>1. seen' \in 0..segs /\ spoken' \in [pc : {"idle", "persist"}, snap : Snaps]
    <3>1. seen' \in 0..segs
      BY <1>1, Typed
    <3>2. spoken' \in [pc : {"idle", "persist"}, snap : Snaps]
      BY <1>1, IdleIs
    <3> QED BY <3>1, <3>2
  <2> QED BY <2>1, <1>1, <1>2, <1>4, Typed, IdleIs DEF CopilotInv, CopilotTyped, OneProposal
<1>6. ShownKnown'
  <2>1. ShownOnce'
    BY <1>1 DEF CopilotInv, ShownKnown, ShownOnce
  <2> QED BY <2>1, <1>1, <1>3, <1>4, IdleIs DEF CopilotInv, ShownKnown
<1> QED BY <1>2, <1>5, <1>6 DEF CopilotInv

LEMMA CopilotStep == CopilotInv /\ [CopilotNext]_copilotVars => CopilotInv'
<1> SUFFICES ASSUME CopilotInv, [CopilotNext]_copilotVars PROVE CopilotInv'
  OBVIOUS
<1>1. CASE UNCHANGED copilotVars
  <2>1. UNCHANGED <<intakeVars, segs, seen, cycle, title, mem, spoken, snaps, related, client>>
    BY <1>1 DEF copilotVars, watchVars
  <2>2. IntakeInv' /\ UNCHANGED door
    BY <2>1, IntakeKept DEF CopilotInv
  <2> QED BY <2>1, <2>2, Typed, ElsewhereKeeps
<1>2. CASE CopilotNext
  BY <1>2, SegmentKeeps, LookKeeps, AnswerKeeps, FailureKeeps, MergeKeeps, StoreKeeps, ShowKeeps, PersistKeeps,
     AnnounceKeeps, OthersKeep, CrashKeeps DEF CopilotNext, Loop
<1> QED BY <1>1, <1>2

LEMMA CopilotStarts == CopilotInit => CopilotInv
<1> SUFFICES ASSUME CopilotInit PROVE CopilotInv
  OBVIOUS
<1>1. /\ IntakeInit /\ segs = 0 /\ seen = 0 /\ mem = NewState /\ cycle = Idle /\ spoken = [pc |-> "idle", snap |-> Blank]
      /\ snaps = Blank /\ related = <<>> /\ client = Blank /\ title = "none"
  BY DEF CopilotInit
<1>2. IntakeInv /\ OneProposal
  BY <1>1, IntakeStarts, ProducersNamed DEF OneProposal
<1>3. CopilotTyped
  <2>1. segs \in 0..MaxSegs /\ seen \in 0..segs
    BY <1>1, CopilotBounds
  <2>2. spoken \in [pc : {"idle", "persist"}, snap : Snaps]
    BY <1>1, IdleIs
  <2> QED BY <1>1, <2>1, <2>2, IdleIs DEF CopilotTyped
<1>4. ShownKnown
  <2>1. related \in Seq(SUBSET Notes) /\ DOMAIN related = {}
    BY <1>1
  <2> QED BY <2>1, <1>1, IdleIs DEF ShownKnown, ShownOnce
<1> QED BY <1>2, <1>3, <1>4 DEF CopilotInv

LEMMA CopilotInvSays == CopilotInv => CopilotSound
<1> SUFFICES ASSUME CopilotInv PROVE CopilotSound
  OBVIOUS
<1>1. IntakeTypeOK /\ RefsUnique /\ OpenCap
  BY IntakeIsSound DEF CopilotInv
<1>2. \A snap \in Snaps : SnapOK(snap)
  BY SnapIs DEF SnapOK
<1>3. SnapOK(mem.snap) /\ SnapOK(snaps) /\ SnapOK(client) /\ SnapOK(cycle.snap) /\ SnapOK(spoken.snap)
  BY <1>2, Typed
<1>4. mem.shown \subseteq Notes /\ mem.nextItem \in Nat /\ mem.nextSugg \in Nat /\ cycle.pc \in CyclePcs
  BY Typed DEF Mems
<1>5. segs \in 0..MaxSegs /\ seen \in 0..segs /\ title \in {"none", "user", "copilot"} /\ spoken.pc \in {"idle", "persist"}
  BY DEF CopilotInv, CopilotTyped
<1>6. CopilotTypeOK
  BY <1>3, <1>4, <1>5 DEF CopilotTypeOK, CyclePcs
<1>7. ShownOnce
  BY DEF CopilotInv, ShownKnown
<1> QED BY <1>1, <1>6, <1>7 DEF CopilotSound

\* The copilot's proposals have refs of their own and no more of them wait than may, no note is
\* surfaced twice and the suggestions stay within their bound, past failed writes, reviews and
\* restarts: for any producers, bounds, notes and answers of the LLM.
THEOREM CopilotKeeps == CopilotInit /\ [][CopilotNext]_copilotVars => []CopilotSound
<1>1. CopilotInit => CopilotInv
  BY CopilotStarts
<1>2. CopilotInv /\ [CopilotNext]_copilotVars => CopilotInv'
  BY CopilotStep
<1>3. CopilotInv => CopilotSound
  BY CopilotInvSays
<1> QED BY <1>1, <1>2, <1>3, PTL

\* So it does beside the requests spoken to Jarvis.
THEOREM SessionCopilotKeeps == Spec => []CopilotSound
<1>1. Init => CopilotInv
  BY CopilotStarts DEF Init
<1>2. CopilotInv /\ [Next]_vars => CopilotInv'
  BY CopilotStep, AssistantSteps
<1>3. CopilotInv => CopilotSound
  BY CopilotInvSays
<1> QED BY <1>1, <1>2, <1>3, PTL DEF Spec
=============================================================================
