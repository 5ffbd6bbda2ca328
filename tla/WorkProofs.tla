------------------------------ MODULE WorkProofs ------------------------------
(***************************************************************************)
(* Proofs about WorkItems.tla and Dispatch.tla: what the owner said stands *)
(* and no line stored in time is passed over, a run carries what was       *)
(* approved, no more Jobs work at once than allowed, and neither what a    *)
(* run pushed nor how it ended is undone.                                  *)
(***************************************************************************)
EXTENDS Dispatch, WellFoundedInduction, FiniteSetTheorems, TLAPS

-----------------------------------------------------------------------------
(* Invariants *)

\* What a pass that runs has sent ends past the cursor, and leaves out only what was stored late or
\* was one too many.
PassSends ==
  ideas.pass # "idle" =>
    \E h \in ideas.sent :
      /\ h > ideas.cursor /\ \A m \in ideas.sent : m <= h
      /\ \A l \in ideas.heard :
           l > ideas.cursor /\ l <= h => l \in ideas.sent \/ l \in ideas.late \/ OneTooMany(l, h)

\* A frozen prompt was approved for its item.
FrozenApproved == \A i \in Items : items[i].prompt # NoPrompt => <<i, items[i].prompt>> \in approvals

ItemsInv == WorkTypeOK /\ OwnerWins /\ LinesConsidered /\ PassSends /\ FrozenApproved

IdeasRows == [heard : SUBSET Lines, cursor : 0..MaxLines, considered : SUBSET Lines,
              late : SUBSET Lines, pass : {"idle", "asked", "storing"}, sent : SUBSET Lines]
Prompts == [title : Titles \cup {None}, repo : Repos \cup {None}, criteria : SUBSET Criteria,
            sources : SUBSET Lines]
RunRows == [item : Items, prompt : Prompts, state : Active \cup Outcomes, named : BOOLEAN, pr : Nat,
            branch : Nat]
Phases == {None, "created", "prepared", "answered", "reported", "expired", "failed", "gone"}
JobRows == [phase : Phases, secret : BOOLEAN, prompt : Prompts, base : Seq(Nat),
            result : Results \cup Outcomes \cup {None}]
PrRows == [item : Items, branch : Nat, state : {"open", "merged"}]

\* Requests between the gate and the queue carry what was approved for their item.
RequestsOK ==
  /\ requests \subseteq [id : Nat, item : Items, guided : BOOLEAN, prompt : Prompts]
  /\ \A q \in requests : <<q.item, q.prompt>> \in approvals
\* The loop speaks of runs that are there.
LoopRows == [pc : {"idle", "check", "ended", "start", "mint", "secret", "job"}, todo : SUBSET Nat,
             queue : SUBSET Nat, run : Nat, verdict : Outcomes \cup {None}, prompt : Prompts]
LoopOK ==
  /\ loop \in LoopRows
  /\ loop.todo \subseteq DOMAIN runs /\ loop.queue \subseteq DOMAIN runs /\ loop.run \in 0..Len(runs)
\* A run belongs to an item, to a branch no younger than it, and to a pull request that is there.
RowsOK ==
  /\ runs \in Seq(RunRows) /\ Len(runs) <= MaxRuns
  /\ \A r \in DOMAIN runs : runs[r].branch \in 1..r /\ runs[r].pr \in 0..Len(prs)
\* Branches hold runs, pull requests belong to items and branches.
GitOK ==
  /\ branches \in [Runs -> Seq(Nat)]
  /\ \A b \in Runs : \A n \in DOMAIN branches[b] : branches[b][n] \in DOMAIN runs
  /\ prs \in Seq(PrRows) /\ \A p \in DOMAIN prs : prs[p].branch \in 0..Len(runs)
  /\ watch \subseteq [item : Items, known : Nat] /\ closedBy \in [Items -> SUBSET DOMAIN prs]
Shaped ==
  RequestsOK /\ LoopOK /\ RowsOK /\ GitOK /\ jobs \in [Runs -> JobRows] /\ budget \in [Events -> Nat]

Starting == {"mint", "secret", "job"}
\* A run that is being started is queued, and is started with the prompt it was queued with.
Started ==
  loop.pc \in Starting =>
    /\ loop.run \in DOMAIN runs /\ runs[loop.run].state = "queued"
    /\ loop.prompt = runs[loop.run].prompt

\* What a run and its Job carry was approved for the item, and a run that is not there has no Job.
CarryApproved ==
  /\ \A r \in DOMAIN runs : /\ <<runs[r].item, runs[r].prompt>> \in approvals
                           /\ jobs[r].prompt \in {NoPrompt, runs[r].prompt}
  /\ \A r \in Runs \ DOMAIN runs : jobs[r].phase = None /\ jobs[r].prompt = NoPrompt

Asks == {"pr_opened", "needs_input"}
Pushed(r) == \E n \in DOMAIN branches[runs[r].branch] : branches[runs[r].branch][n] = r
HasPr(r) == \E p \in DOMAIN prs : prs[p].branch = runs[r].branch
Before == {None, "created", "prepared", "answered"}
\* A run that has not come to its push has pushed nothing; one that reports a pull request for
\* what it pushed has one.
PushedReported ==
  \A r \in DOMAIN runs :
    /\ jobs[r].phase \in Before => ~Pushed(r)
    /\ jobs[r].phase = "reported" =>
         jobs[r].result \in Outcomes /\ (jobs[r].result \in Asks /\ Pushed(r) => HasPr(r))
\* So has the one whose verdict the loop has read.
VerdictSound ==
  loop.pc = "ended" =>
    /\ loop.run \in DOMAIN runs /\ loop.verdict \in Outcomes
    /\ loop.verdict \in Asks =>
         /\ jobs[loop.run].phase \notin Before
         /\ Pushed(loop.run) => HasPr(loop.run)

RunsInv == Shaped /\ Started /\ CarryApproved /\ PushedReported /\ VerdictSound

\* The runs that run or are about to: those of the tick's queue and the one it is starting.
Claimed == InState("running") \cup (loop.queue \cap InState("queued")) \cup RunLock
\* No more are claimed than may run.
SlotsInv ==
  /\ loop.pc \in {"idle", "check", "ended"} => loop.queue = {}
  /\ Cardinality(Claimed) <= MaxConcurrent
  /\ \A r \in DOMAIN runs : runs[r].state = "running" => runs[r].named
  /\ loop.pc = "ended" => loop.run \notin Working
Calm == Never({"refused", "lost", "crash"})
\* Without failures a Job that works is that of a claimed run.
WorkingClaimed ==
  Calm => \A r \in Working : r \in InState("running") \/ (loop.pc = "job" /\ loop.run = r)

-----------------------------------------------------------------------------
(* Least and greatest *)

\* A set of numbers that is not empty has a least one (the title match and the tick's next run).
LEMMA LeastOf ==
  ASSUME NEW S \in SUBSET Nat, S # {}
  PROVE  Min(S) \in S /\ \A y \in S : Min(S) <= y
<1> DEFINE Less == {ss \in Nat \X Nat : ss[1] < ss[2]}
<1>1. IsWellFoundedOn(Less, Nat)
  BY NatLessThanWellFounded, Zenon DEF OpToRel
<1>2. PICK x \in S : \A y \in S : ~(<<y, x>> \in Less)
  BY <1>1, WFMin
<1>3. ASSUME NEW y \in S PROVE x <= y
  <2>1. y \in Nat /\ x \in Nat
    OBVIOUS
  <2>2. ~(<<y, x>> \in Less)
    BY <1>2
  <2>3. ASSUME y < x PROVE <<y, x>> \in Less
    BY <2>1, <2>3
  <2> QED BY <2>1, <2>2, <2>3
<1>4. \E z \in S : \A y \in S : z =< y
  BY <1>3
<1>5. Min(S) = CHOOSE z \in S : \A y \in S : z =< y
  BY DEF Min
<1> QED BY <1>4, <1>5

\* A bounded set of numbers that is not empty has a greatest one (the cursor, the last run of an
\* item, the pull request of a branch).
LEMMA GreatestOf ==
  ASSUME NEW S \in SUBSET Nat, S # {}, NEW n \in Nat, \A y \in S : y <= n
  PROVE  Max(S) \in S /\ \A y \in S : y <= Max(S)
<1> DEFINE Bounds == {b \in Nat : \A y \in S : y <= b}
<1>1. Bounds \in SUBSET Nat /\ Bounds # {}
  OBVIOUS
<1>2. PICK m \in Bounds : \A b \in Bounds : m <= b
  BY <1>1, LeastOf
<1>3. m \in S
  <2>1. SUFFICES ASSUME m \notin S PROVE FALSE
    OBVIOUS
  <2>2. \A y \in S : y < m
    BY <1>2, <2>1
  <2>3. PICK s \in S : TRUE
    OBVIOUS
  <2>4. m - 1 \in Nat /\ \A y \in S : y <= m - 1
    BY <1>2, <2>2, <2>3
  <2>5. m - 1 \in Bounds
    BY <2>4
  <2> QED BY <1>2, <2>5
<1>4. \E z \in S : \A y \in S : z >= y
  BY <1>2, <1>3
<1>5. Max(S) = CHOOSE z \in S : \A y \in S : z >= y
  BY DEF Max
<1> QED BY <1>4, <1>5
-----------------------------------------------------------------------------
(* What the owner said, and what was said in the session *)

\* The lines after one of them, up to a later end.
After(l, until, heard) == {m \in heard : l < m /\ m <= until}

\* Of lines that are among others, no more come after a line up to an earlier end.
LEMMA MoreSaid ==
  ASSUME NEW some \in SUBSET Lines, NEW more \in SUBSET Lines, some \subseteq more,
         NEW l \in Nat, NEW u \in Nat, NEW v \in Nat, u <= v
  PROVE  /\ Cardinality(After(l, u, some)) \in Nat /\ Cardinality(After(l, v, more)) \in Nat
         /\ Cardinality(After(l, u, some)) <= Cardinality(After(l, v, more))
<1> DEFINE S == After(l, u, some)
           T == After(l, v, more)
<1>1. MaxLines \in Nat
  BY WorkItemsBounds
<1>2. IsFiniteSet(Lines)
  BY <1>1, FS_Interval DEF Lines
<1>3. Lines \subseteq Nat
  BY <1>1 DEF Lines
<1>4. S \subseteq T /\ T \subseteq Lines
  <2>1. ASSUME NEW m \in some, l < m, m <= u PROVE m \in more /\ m <= v
    <3>1. m \in Nat
      BY <1>3
    <3> QED BY <2>1, <3>1
  <2> QED BY <2>1 DEF After
<1> HIDE DEF S, T
<1>5. IsFiniteSet(T)
  BY <1>2, <1>4, FS_Subset
<1>6. IsFiniteSet(S) /\ Cardinality(S) <= Cardinality(T)
  BY <1>4, <1>5, FS_Subset
<1>7. Cardinality(S) \in Nat /\ Cardinality(T) \in Nat
  BY <1>5, <1>6, FS_CardinalityType
<1> QED BY <1>6, <1>7 DEF S, T

\* The window ends in the last line that is stored, and leaves out only what is one too many.
LEMMA WindowEnds ==
  ASSUME NEW heard \in SUBSET Lines, NEW cursor \in Nat, NEW last \in heard, last > cursor
  PROVE  \E h \in Window(cursor, heard) :
           /\ h > cursor /\ \A m \in Window(cursor, heard) : m <= h
           /\ \A l \in heard : l > cursor /\ l <= h =>
                \/ l \in Window(cursor, heard)
                \/ Cardinality(After(l, h, heard)) >= IdeasMaxLines
<1>1. {MaxLines, IdeasMaxLines, Overlap} \subseteq Nat /\ IdeasMaxLines > 0
  BY WorkItemsBounds
<1>2. heard \in SUBSET Nat /\ heard # {} /\ \A m \in heard : m <= MaxLines
  BY <1>1 DEF Lines
<1>3. Max(heard) \in heard /\ \A m \in heard : m <= Max(heard)
  BY <1>1, <1>2, GreatestOf
<1>4. PICK h \in heard : \A m \in heard : m <= h
  BY <1>3
<1>5. h \in Nat /\ last \in Nat /\ h > cursor
  BY <1>2, <1>4
<1>6. h \in Window(cursor, heard)
  <2>1. {m \in heard : m > h} = {}
    <3>1. ASSUME NEW m \in heard PROVE ~(m > h)
      <4>1. m \in Nat /\ m <= h
        BY <1>2, <1>4
      <4> QED BY <1>5, <4>1
    <3> QED BY <3>1
  <2>2. Cardinality({m \in heard : m > h}) = 0
    BY <2>1, FS_EmptySet
  <2>3. h + Overlap > cursor
    BY <1>1, <1>5
  <2> QED BY <1>1, <2>2, <2>3 DEF Window
<1>7. \A m \in Window(cursor, heard) : m <= h
  BY <1>4 DEF Window
<1>8. ASSUME NEW l \in heard, l > cursor, l <= h, l \notin Window(cursor, heard)
      PROVE  Cardinality(After(l, h, heard)) >= IdeasMaxLines
  <2>1. l \in Nat /\ l + Overlap > cursor
    BY <1>1, <1>2, <1>8
  <2>2. ~(Cardinality({m \in heard : m > l}) < IdeasMaxLines)
    BY <1>8, <2>1 DEF Window
  <2>3. {m \in heard : m > l} = After(l, h, heard)
    <3>1. ASSUME NEW m \in heard PROVE m > l <=> l < m /\ m <= h
      <4>1. m \in Nat /\ m <= h
        BY <1>2, <1>4
      <4> QED BY <2>1, <4>1
    <3> QED BY <3>1 DEF After
  <2> DEFINE n == Cardinality(After(l, h, heard))
  <2>4. h <= h
    BY <1>5
  <2>5. n \in Nat
    BY <1>5, <2>1, <2>4, MoreSaid
  <2>6. ~(n < IdeasMaxLines)
    BY <2>2, <2>3
  <2> HIDE DEF n
  <2>7. n >= IdeasMaxLines
    BY ONLY <1>1, <2>5, <2>6
  <2> QED BY <2>7 DEF n
<1> QED BY <1>5, <1>6, <1>7, <1>8

Hearing == (\E l \in Lines : Hear(l)) \/ PassRead \/ PassFails \/ PassLocks \/ PassStored

\* One line too many stays one too many when more is stored, and when the cursor is put further.
LEMMA StaysOneTooMany ==
  ASSUME ideas \in IdeasRows, ideas' \in IdeasRows, ideas.heard \subseteq ideas'.heard,
         NEW l \in Nat, NEW u \in Nat, NEW v \in Nat, u <= v, OneTooMany(l, u)
  PROVE  OneTooMany(l, v)'
<1>1. IdeasMaxLines \in Nat
  BY WorkItemsBounds
<1>2. ideas.heard \in SUBSET Lines /\ ideas'.heard \in SUBSET Lines
  BY DEF IdeasRows
<1> DEFINE n == Cardinality(After(l, u, ideas.heard))
           k == Cardinality(After(l, v, ideas'.heard))
<1>3. n \in Nat /\ k \in Nat /\ n <= k
  BY <1>2, MoreSaid
<1>4. n >= IdeasMaxLines
  BY DEF OneTooMany, After
<1> HIDE DEF n, k
<1>5. k >= IdeasMaxLines
  BY ONLY <1>1, <1>3, <1>4
<1> QED BY <1>5 DEF k, OneTooMany, After

\* The lines and the passes: the cursor moves only past lines that were sent, were stored late or
\* were too many.
LEMMA HearingStep ==
  ASSUME ItemsInv, Hearing
  PROVE  ItemsInv'
<1>1. MaxLines \in Nat /\ Lines \subseteq Nat
  BY WorkItemsBounds DEF Lines
<1>2. ideas \in IdeasRows
  BY DEF ItemsInv, WorkTypeOK, IdeasRows
<1>3. UNCHANGED <<items, said, approvals>>
  BY DEF Hearing, Hear, PassRead, PassFails, PassLocks, PassStored
<1>4. SUFFICES ideas' \in IdeasRows /\ LinesConsidered' /\ PassSends'
  BY <1>3 DEF ItemsInv, WorkTypeOK, OwnerWins, FrozenApproved, IdeasRows
<1>5. LinesConsidered /\ PassSends
  BY DEF ItemsInv
<1>6. ASSUME NEW new \in Lines, Hear(new)
      PROVE  ideas' \in IdeasRows /\ LinesConsidered' /\ PassSends'
  <2>1. ideas' = [ideas EXCEPT !.heard = @ \cup {new}, !.late = IF Late(new) THEN @ \cup {new} ELSE @]
    BY <1>6 DEF Hear
  <2>2. /\ ideas'.heard = ideas.heard \cup {new}
        /\ ideas'.late = (IF Late(new) THEN ideas.late \cup {new} ELSE ideas.late)
        /\ ideas'.cursor = ideas.cursor /\ ideas'.sent = ideas.sent
        /\ ideas'.pass = ideas.pass /\ ideas'.considered = ideas.considered
    BY <1>2, <2>1 DEF IdeasRows
  <2>3. ideas' \in IdeasRows
    <3>1. ideas.heard \cup {new} \in SUBSET Lines
          /\ (IF Late(new) THEN ideas.late \cup {new} ELSE ideas.late) \in SUBSET Lines
      BY <1>2 DEF IdeasRows
    <3> QED BY <1>2, <2>1, <3>1 DEF IdeasRows
  <2>4. ideas.late \subseteq ideas'.late /\ (Late(new) => new \in ideas'.late)
    BY <2>2
  <2>5. ASSUME NEW l \in ideas.heard, NEW u \in Nat, OneTooMany(l, u) PROVE OneTooMany(l, u)'
    <3>1. l \in Nat
      BY <1>1, <1>2 DEF IdeasRows
    <3> QED BY <1>2, <2>2, <2>3, <2>5, <3>1, StaysOneTooMany
  <2>6. ideas.cursor \in Nat
    BY <1>1, <1>2 DEF IdeasRows
  <2>7. LinesConsidered'
    <3>1. ASSUME NEW l \in ideas'.heard, l <= ideas'.cursor
          PROVE  l \in ideas'.considered \/ l \in ideas'.late \/ OneTooMany(l, ideas.cursor)'
      <4>1. CASE l \in ideas.heard
        BY <1>5, <2>2, <2>4, <2>5, <2>6, <3>1, <4>1 DEF LinesConsidered
      <4>2. CASE l = new
        BY <2>2, <2>4, <3>1, <4>2 DEF Late
      <4> QED BY <2>2, <4>1, <4>2
    <3> QED BY <2>2, <3>1 DEF LinesConsidered, OneTooMany
  <2>8. ASSUME ideas'.pass # "idle" PROVE PassSends'
    <3>1. PICK h \in ideas.sent :
            /\ h > ideas.cursor /\ \A m \in ideas.sent : m <= h
            /\ \A l \in ideas.heard :
                 l > ideas.cursor /\ l <= h => l \in ideas.sent \/ l \in ideas.late \/ OneTooMany(l, h)
      BY <1>5, <2>2, <2>8 DEF PassSends
    <3>2. h \in Nat
      BY <1>1, <1>2 DEF IdeasRows
    <3>3. ASSUME NEW l \in ideas'.heard, l > ideas'.cursor, l <= h
          PROVE  l \in ideas'.sent \/ l \in ideas'.late \/ OneTooMany(l, h)'
      <4>1. CASE l \in ideas.heard
        BY <2>2, <2>4, <2>5, <3>1, <3>2, <3>3, <4>1
      <4>2. CASE l = new
        BY <2>4, <3>3, <4>2 DEF Late
      <4> QED BY <2>2, <4>1, <4>2
    <3> QED BY <2>2, <3>1, <3>3 DEF PassSends, OneTooMany
  <2>9. PassSends'
    BY <2>8 DEF PassSends
  <2> QED BY <2>3, <2>7, <2>9
<1>7. CASE PassRead
  <2>1. /\ \E l \in ideas.heard : l > ideas.cursor
        /\ ideas' = [ideas EXCEPT !.pass = "asked", !.sent = Window(ideas.cursor, ideas.heard)]
    BY <1>7 DEF PassRead
  <2>2. /\ ideas'.heard = ideas.heard /\ ideas'.cursor = ideas.cursor /\ ideas'.late = ideas.late
        /\ ideas'.sent = Window(ideas.cursor, ideas.heard)
        /\ ideas'.considered = ideas.considered
    BY <1>2, <2>1 DEF IdeasRows
  <2>3. LinesConsidered'
    BY <1>5, <2>2 DEF LinesConsidered, OneTooMany
  <2>4. ideas.heard \in SUBSET Lines /\ ideas.cursor \in Nat
    BY <1>1, <1>2 DEF IdeasRows
  <2>5. PICK h \in Window(ideas.cursor, ideas.heard) :
          /\ h > ideas.cursor /\ \A m \in Window(ideas.cursor, ideas.heard) : m <= h
          /\ \A l \in ideas.heard : l > ideas.cursor /\ l <= h =>
               \/ l \in Window(ideas.cursor, ideas.heard)
               \/ OneTooMany(l, h)
    BY <2>1, <2>4, WindowEnds DEF After, OneTooMany
  <2>6. PassSends'
    BY <2>2, <2>5 DEF PassSends, OneTooMany
  <2>7. Window(ideas.cursor, ideas.heard) \subseteq Lines
    BY <2>4 DEF Window
  <2> QED BY <1>2, <2>1, <2>3, <2>6, <2>7 DEF IdeasRows
<1>8. CASE PassFails
  <2>1. ideas' = [ideas EXCEPT !.pass = "idle", !.sent = {}]
    BY <1>8 DEF PassFails
  <2>2. /\ ideas'.heard = ideas.heard /\ ideas'.cursor = ideas.cursor /\ ideas'.late = ideas.late
        /\ ideas'.considered = ideas.considered /\ ideas'.pass = "idle"
    BY <1>2, <2>1 DEF IdeasRows
  <2>3. LinesConsidered' /\ PassSends'
    BY <1>5, <2>2 DEF LinesConsidered, PassSends, OneTooMany
  <2> QED BY <1>2, <2>1, <2>3 DEF IdeasRows
<1>9. CASE PassLocks
  <2>1. ideas.pass = "asked" /\ ideas' = [ideas EXCEPT !.pass = "storing"]
    BY <1>9 DEF PassLocks
  <2>2. /\ ideas'.heard = ideas.heard /\ ideas'.cursor = ideas.cursor /\ ideas'.sent = ideas.sent
        /\ ideas'.considered = ideas.considered /\ ideas'.late = ideas.late
    BY <1>2, <2>1 DEF IdeasRows
  <2>3. LinesConsidered'
    BY <1>5, <2>2 DEF LinesConsidered, OneTooMany
  <2>4. PassSends'
    BY <1>5, <2>1, <2>2 DEF PassSends, OneTooMany
  <2> QED BY <1>2, <2>1, <2>3, <2>4 DEF IdeasRows
<1>10. CASE PassStored
  <2>1. /\ ideas.pass = "storing"
        /\ ideas' = [ideas EXCEPT !.pass = "idle", !.sent = {}, !.cursor = Max(ideas.sent),
                                  !.considered = @ \cup ideas.sent]
    BY <1>10 DEF PassStored
  <2>2. PICK h \in ideas.sent :
          /\ h > ideas.cursor /\ \A m \in ideas.sent : m <= h
          /\ \A l \in ideas.heard :
               l > ideas.cursor /\ l <= h => l \in ideas.sent \/ l \in ideas.late \/ OneTooMany(l, h)
    BY <1>5, <2>1 DEF PassSends
  <2>3. ideas.sent \in SUBSET Nat /\ h \in Nat /\ h \in 0..MaxLines /\ ideas.cursor \in Nat
    BY <1>1, <1>2 DEF IdeasRows, Lines
  <2>4. Max(ideas.sent) = h
    <3>1. Max(ideas.sent) \in ideas.sent /\ \A m \in ideas.sent : m <= Max(ideas.sent)
      BY <2>2, <2>3, GreatestOf
    <3>2. Max(ideas.sent) \in Nat /\ Max(ideas.sent) <= h /\ h <= Max(ideas.sent)
      BY <2>2, <2>3, <3>1
    <3> QED BY <2>3, <3>2
  <2>5. /\ ideas'.pass = "idle" /\ ideas'.cursor = h /\ ideas'.heard = ideas.heard
        /\ ideas'.late = ideas.late /\ ideas'.considered = ideas.considered \cup ideas.sent
    BY <1>2, <2>1, <2>4 DEF IdeasRows
  <2>6. ideas' \in IdeasRows
    BY <1>2, <2>1, <2>3, <2>4 DEF IdeasRows
  <2>7. ASSUME NEW l \in ideas.heard, l <= h
        PROVE  l \in ideas'.considered \/ l \in ideas'.late \/ OneTooMany(l, h)'
    <3>1. l \in Nat
      BY <1>1, <1>2 DEF IdeasRows
    <3>2. ASSUME NEW u \in Nat, u <= h, OneTooMany(l, u) PROVE OneTooMany(l, h)'
      BY <1>2, <2>3, <2>5, <2>6, <3>1, <3>2, StaysOneTooMany
    <3>3. CASE l <= ideas.cursor
      <4>1. l \in ideas.considered \/ l \in ideas.late \/ OneTooMany(l, ideas.cursor)
        BY <1>5, <3>3 DEF LinesConsidered
      <4>2. ideas.cursor <= h
        BY <2>2, <2>3
      <4> QED BY <2>3, <2>5, <3>2, <4>1, <4>2
    <3>4. CASE l > ideas.cursor
      <4>1. l \in ideas.sent \/ l \in ideas.late \/ OneTooMany(l, h)
        BY <2>2, <2>7, <3>4
      <4>2. h <= h
        BY <2>3
      <4> QED BY <2>3, <2>5, <3>2, <4>1, <4>2
    <3> QED BY <2>3, <3>1, <3>3, <3>4
  <2>8. LinesConsidered'
    BY <2>5, <2>7 DEF LinesConsidered, OneTooMany
  <2>9. PassSends'
    BY <2>5 DEF PassSends
  <2> QED BY <2>6, <2>8, <2>9
<1> QED BY <1>6, <1>7, <1>8, <1>9, <1>10 DEF Hearing

\* A row keeps the owner's words in the fields that are locked, and a frozen prompt was approved.
Owned(row, words) == \A f \in row.locked : row.text[f] = words[f]
Frozen(i, row) == row.prompt # NoPrompt => <<i, row.prompt>> \in approvals

\* What is written to one item need only be right for that item.
LEMMA ItemWritten ==
  ASSUME ItemsInv, NEW i \in Items, NEW row \in ItemRows, NEW words \in Texts,
         items' = [items EXCEPT ![i] = row], said' = [said EXCEPT ![i] = words],
         Owned(row, words),
         row.prompt # NoPrompt => <<i, row.prompt>> \in approvals',
         ideas' = ideas, approvals \subseteq approvals',
         \A a \in approvals' : a \in approvals \/ (a[1] \in Items /\ a[2].title \in Titles /\ a[2].repo \in Repos)
  PROVE  ItemsInv'
<1>1. items \in [Items -> ItemRows] /\ said \in [Items -> Texts]
  BY DEF ItemsInv, WorkTypeOK
<1>2. items' \in [Items -> ItemRows] /\ said' \in [Items -> Texts]
  BY <1>1
<1>3. WorkTypeOK'
  BY <1>2 DEF ItemsInv, WorkTypeOK
<1>4. OwnerWins'
  <2>1. ASSUME NEW j \in Items PROVE \A f \in items'[j].locked : items'[j].text[f] = said'[j][f]
    BY <1>1 DEF ItemsInv, OwnerWins, Owned
  <2> QED BY <2>1 DEF OwnerWins
<1>5. FrozenApproved'
  BY <1>1 DEF ItemsInv, FrozenApproved
<1>6. LinesConsidered' /\ PassSends'
  BY DEF ItemsInv, LinesConsidered, PassSends, OneTooMany
<1> QED BY <1>3, <1>4, <1>5, <1>6 DEF ItemsInv

\* The same where the owner said nothing new.
LEMMA ItemTouched ==
  ASSUME ItemsInv, NEW i \in Items, NEW row \in ItemRows,
         items' = [items EXCEPT ![i] = row], Owned(row, said[i]), Frozen(i, row),
         UNCHANGED <<ideas, said, approvals>>
  PROVE  ItemsInv'
<1>1. said \in [Items -> Texts]
  BY DEF ItemsInv, WorkTypeOK
<1>2. said[i] \in Texts /\ said' = [said EXCEPT ![i] = said[i]]
  BY <1>1
<1>3. row.prompt # NoPrompt => <<i, row.prompt>> \in approvals'
  BY DEF Frozen
<1> QED BY <1>2, <1>3, ItemWritten

\* What the items have before a step.
LEMMA ItemBefore ==
  ASSUME ItemsInv, NEW i \in Items
  PROVE  /\ items[i] \in ItemRows /\ said[i] \in Texts
         /\ Owned(items[i], said[i]) /\ Frozen(i, items[i])
         /\ NoPrompt \in Prompts /\ NoItem \in ItemRows
<1>1. NoPrompt \in Prompts
  BY DEF NoPrompt, Prompts
<1>2. Blank \in Texts
  BY DEF Blank, Texts
<1>3. NoItem \in ItemRows
  BY <1>1, <1>2 DEF NoItem, ItemRows, Prompts
<1> QED BY <1>1, <1>3 DEF ItemsInv, WorkTypeOK, OwnerWins, FrozenApproved, Owned, Frozen

\* The row with another state, and its prompt or none.
Marked(row, state, prompt, pr) == [row EXCEPT !.state = state, !.prompt = prompt, !.mergedPr = pr]

\* A row that is marked is a row, with the fields it was given.
LEMMA MarkedRow ==
  ASSUME NEW row \in ItemRows, NEW state \in Closed \cup {None, "draft"}, NEW prompt \in {row.prompt, NoPrompt},
         NEW pr \in Nat
  PROVE  /\ Marked(row, state, prompt, pr) \in ItemRows
         /\ Marked(row, state, prompt, pr).text = row.text
         /\ Marked(row, state, prompt, pr).locked = row.locked
         /\ Marked(row, state, prompt, pr).prompt = prompt
<1>1. NoPrompt \in [title : Titles \cup {None}, repo : Repos \cup {None}, criteria : SUBSET Criteria,
                    sources : SUBSET Lines]
  BY DEF NoPrompt
<1> QED BY <1>1 DEF Marked, ItemRows

\* The owner's decisions on one item that write no text: at most the frozen prompt goes.
LEMMA ReviewStep ==
  ASSUME ItemsInv, NEW i \in Items, NEW state \in Closed \cup {None, "draft"},
         NEW prompt \in {items[i].prompt, NoPrompt}, NEW pr \in Nat,
         items' = [items EXCEPT ![i] = Marked(items[i], state, prompt, pr)],
         UNCHANGED <<ideas, said, approvals>>
  PROVE  ItemsInv'
<1> DEFINE row == Marked(items[i], state, prompt, pr)
<1>1. items[i] \in ItemRows
  BY ItemBefore
<1>2. /\ row \in ItemRows /\ row.text = items[i].text /\ row.locked = items[i].locked
      /\ row.prompt = prompt
  BY <1>1, MarkedRow
<1>3. Owned(items[i], said[i]) /\ Frozen(i, items[i])
  BY ItemBefore
<1> HIDE DEF row
<1>4. Owned(row, said[i]) /\ Frozen(i, row)
  BY <1>2, <1>3 DEF Owned, Frozen
<1> QED BY <1>2, <1>4, ItemTouched DEF row

Reviewed(i) ==
  \/ Approve(i) \/ Unapprove(i) \/ Discard(i) \/ Restore(i) \/ Done(i) \/ Reopen(i)

\* Taking an approval back leaves the row otherwise as it is.
LEMMA UnfrozenIs ==
  ASSUME NEW row \in ItemRows
  PROVE  /\ Unfrozen(row) = Marked(row, IF row.state = "approved" THEN "draft" ELSE row.state, NoPrompt,
                                  row.mergedPr)
         /\ Unfrozen(row) \in ItemRows /\ Unfrozen(row).prompt = NoPrompt
         /\ Unfrozen(row).text = row.text /\ Unfrozen(row).locked = row.locked
<1>1. NoPrompt \in [title : Titles \cup {None}, repo : Repos \cup {None}, criteria : SUBSET Criteria,
                    sources : SUBSET Lines]
  BY DEF NoPrompt
<1> QED BY <1>1 DEF Unfrozen, Marked, ItemRows

\* Approving, withdrawing, discarding, restoring, closing and reopening an item.
LEMMA ReviewedStep ==
  ASSUME ItemsInv, NEW i \in Items, Reviewed(i)
  PROVE  ItemsInv'
<1>1. items[i] \in ItemRows /\ Owned(items[i], said[i]) /\ Frozen(i, items[i])
  BY ItemBefore
<1>2. items[i].mergedPr \in Nat /\ items[i].state \in Closed \cup {None, "draft"}
  BY <1>1 DEF ItemRows
<1>3. CASE Approve(i)
  <2> DEFINE row == [items[i] EXCEPT !.state = "approved", !.prompt = Render(items[i])]
  <2>1. /\ items' = [items EXCEPT ![i] = row] /\ approvals' = approvals \cup {<<i, Render(items[i])>>}
        /\ UNCHANGED <<ideas, said>>
    BY <1>3 DEF Approve
  <2>2. Approvable(items[i])
    BY <1>3 DEF Approve
  <2>3. /\ Render(items[i]).title \in Titles /\ Render(items[i]).repo \in Repos
        /\ Render(items[i]) \in Prompts
    BY <1>1, <2>2 DEF Approvable, Render, ItemRows, Texts, Prompts
  <2>4. /\ row \in ItemRows /\ row.text = items[i].text /\ row.locked = items[i].locked
        /\ row.prompt = Render(items[i])
    BY <1>1, <2>3 DEF ItemRows, Prompts, Closed
  <2> HIDE DEF row
  <2>5. said[i] \in Texts /\ said' = [said EXCEPT ![i] = said[i]]
    BY <2>1 DEF ItemsInv, WorkTypeOK
  <2>6. Owned(row, said[i])
    BY <1>1, <2>4 DEF Owned
  <2>7. \A a \in approvals' :
          a \in approvals \/ (a[1] \in Items /\ a[2].title \in Titles /\ a[2].repo \in Repos)
    BY <2>1, <2>3
  <2> QED BY <2>1, <2>4, <2>5, <2>6, <2>7, ItemWritten
<1>4. CASE Unapprove(i)
  <2>1. items' = [items EXCEPT ![i] = Unfrozen(items[i])] /\ UNCHANGED <<ideas, said, approvals>>
    BY <1>4 DEF Unapprove
  <2>2. (IF items[i].state = "approved" THEN "draft" ELSE items[i].state) \in Closed \cup {None, "draft"}
    BY <1>2
  <2> QED BY <1>1, <1>2, <2>1, <2>2, UnfrozenIs, ReviewStep
<1>5. CASE Discard(i)
  <2>1. /\ items' = [items EXCEPT ![i] = [Unfrozen(items[i]) EXCEPT !.state = "discarded"]]
        /\ UNCHANGED <<ideas, said, approvals>>
    BY <1>5 DEF Discard
  <2>2. [Unfrozen(items[i]) EXCEPT !.state = "discarded"]
          = Marked(items[i], "discarded", NoPrompt, items[i].mergedPr)
    <3> DEFINE state == IF items[i].state = "approved" THEN "draft" ELSE items[i].state
    <3>1. Unfrozen(items[i]) = Marked(items[i], state, NoPrompt, items[i].mergedPr)
      BY <1>1, UnfrozenIs
    <3> HIDE DEF state
    <3>2. [Marked(items[i], state, NoPrompt, items[i].mergedPr) EXCEPT !.state = "discarded"]
            = Marked(items[i], "discarded", NoPrompt, items[i].mergedPr)
      BY <1>1 DEF ItemRows, Marked
    <3> QED BY <3>1, <3>2
  <2>3. items' = [items EXCEPT ![i] = Marked(items[i], "discarded", NoPrompt, items[i].mergedPr)]
    BY <2>1, <2>2
  <2>4. "discarded" \in Closed \cup {None, "draft"} /\ NoPrompt \in {items[i].prompt, NoPrompt}
    BY DEF Closed
  <2> QED BY <1>2, <2>1, <2>3, <2>4, ReviewStep
<1>6. CASE Restore(i)
  <2>1. /\ items' = [items EXCEPT ![i].state = "draft"] /\ UNCHANGED <<ideas, said, approvals>>
    BY <1>6 DEF Restore
  <2>2. [items[i] EXCEPT !.state = "draft"]
          = Marked(items[i], "draft", items[i].prompt, items[i].mergedPr)
    BY <1>1 DEF ItemRows, Marked
  <2> QED BY <1>2, <2>1, <2>2, ReviewStep
<1>7. CASE Done(i)
  <2>1. /\ items' = [items EXCEPT ![i].state = "done"] /\ UNCHANGED <<ideas, said, approvals>>
    BY <1>7 DEF Done
  <2>2. [items[i] EXCEPT !.state = "done"]
          = Marked(items[i], "done", items[i].prompt, items[i].mergedPr)
    BY <1>1 DEF ItemRows, Marked
  <2> QED BY <1>2, <2>1, <2>2, ReviewStep DEF Closed
<1>8. CASE Reopen(i)
  <2> DEFINE state == IF items[i].prompt = NoPrompt THEN "draft" ELSE "approved"
  <2>1. /\ items' = [items EXCEPT ![i].state = state] /\ UNCHANGED <<ideas, said, approvals>>
    BY <1>8 DEF Reopen
  <2>2. state \in Closed \cup {None, "draft"}
    BY DEF Closed
  <2> HIDE DEF state
  <2>3. [items[i] EXCEPT !.state = state]
          = Marked(items[i], state, items[i].prompt, items[i].mergedPr)
    BY <1>1 DEF ItemRows, Marked
  <2> QED BY <1>2, <2>1, <2>2, <2>3, ReviewStep
<1> QED BY <1>3, <1>4, <1>5, <1>6, <1>7, <1>8 DEF Reviewed

\* An edit: what it changes becomes the owner's, and is locked.
LEMMA EditStep ==
  ASSUME ItemsInv, NEW i \in Items, NEW text \in Texts, Edit(i, text)
  PROVE  ItemsInv'
<1> DEFINE changed == Changed(items[i].text, text)
           row == [Unfrozen(items[i]) EXCEPT !.text = text, !.locked = items[i].locked \cup changed]
           words == [f \in Fields |-> IF f \in changed THEN text[f] ELSE said[i][f]]
<1>1. items[i] \in ItemRows /\ Owned(items[i], said[i]) /\ said[i] \in Texts
  BY ItemBefore
<1>2. UNCHANGED <<ideas, approvals>>
  BY Zenon DEF Edit
<1>3. items' = [items EXCEPT ![i] = row]
  BY Zenon DEF Edit
<1>4. said' = [said EXCEPT ![i] = words]
  BY Zenon DEF Edit
<1>5. changed \subseteq Fields /\ \A f \in Fields : f \in changed <=> items[i].text[f] # text[f]
  BY DEF Changed
<1>6. /\ row \in ItemRows /\ row.text = text /\ row.locked = items[i].locked \cup changed
      /\ row.prompt = NoPrompt
  <2> HIDE DEF changed
  <2> QED BY <1>1, <1>5, UnfrozenIs DEF ItemRows
<1>7. items[i].locked \subseteq Fields
  BY <1>1 DEF ItemRows
<1>8. words \in Texts
  <2> HIDE DEF changed
  <2> QED BY <1>1, <1>5 DEF Texts, Fields
<1>9. Owned(row, words)
  <2> HIDE DEF row, changed
  <2> QED BY <1>1, <1>5, <1>6, <1>7 DEF Owned
<1> HIDE DEF row, words, changed
<1> QED BY <1>3, <1>6, <1>8, <1>9, <1>4, <1>2, ItemWritten

\* A merge: the item the others are folded into is the owner's in every field.
LEMMA MergeStep ==
  ASSUME ItemsInv, NEW into \in Items, NEW from \in SUBSET Items, Merge(into, from)
  PROVE  ItemsInv'
<1>1. items \in [Items -> ItemRows] /\ said \in [Items -> Texts]
  BY DEF ItemsInv, WorkTypeOK
<1>2. into \notin from /\ UNCHANGED <<ideas, approvals>>
  BY DEF Merge
<1> DEFINE all == from \cup {into}
           repos == IF items[into].text.repo # None THEN {items[into].text.repo}
                    ELSE IF \A i \in from : items[i].text.repo = None THEN {None}
                    ELSE {items[i].text.repo : i \in from} \ {None}
           criteria == UNION {items[i].text.criteria : i \in all}
           sources == UNION {items[j].sources : j \in all}
<1>3. PICK repo \in repos :
        LET text == [title |-> items[into].text.title, repo |-> repo, criteria |-> criteria]
        IN /\ items' = [i \in Items |->
                          IF i \in from THEN [items[i] EXCEPT !.state = "merged"]
                          ELSE IF i = into
                          THEN [items[i] EXCEPT !.text = text, !.locked = Fields, !.sources = sources]
                          ELSE items[i]]
           /\ said' = [said EXCEPT ![into] = text]
  BY Zenon DEF Merge
<1> DEFINE text == [title |-> items[into].text.title, repo |-> repo, criteria |-> criteria]
           row == [items[into] EXCEPT !.text = text, !.locked = Fields, !.sources = sources]
<1>4. text \in Texts
  <2>0. \A i \in Items : items[i].text.repo \in Repos \cup {None}
    BY <1>1 DEF ItemRows, Texts
  <2>1. repo \in Repos \cup {None}
    BY <1>3, <2>0
  <2>2. criteria \in SUBSET Criteria
    BY <1>1 DEF ItemRows, Texts
  <2> HIDE DEF criteria
  <2> QED BY <1>1, <2>1, <2>2 DEF ItemRows, Texts
<1>5. sources \in SUBSET Lines
  BY <1>1 DEF ItemRows
<1> HIDE DEF repos, criteria, sources, all
<1>6. /\ row \in ItemRows /\ row.text = text /\ row.locked = Fields /\ row.prompt = items[into].prompt
  <2> HIDE DEF text
  <2> QED BY <1>1, <1>4, <1>5 DEF ItemRows
<1>7. /\ items'[into] = row /\ said'[into] = text
      /\ \A i \in from : items'[i] = [items[i] EXCEPT !.state = "merged"]
      /\ \A i \in Items \ (from \cup {into}) : items'[i] = items[i]
      /\ \A i \in Items \ {into} : said'[i] = said[i]
  BY <1>1, <1>2, <1>3
<1>8. items' = [i \in Items |-> items'[i]] /\ said' \in [Items -> Texts]
  <2> HIDE DEF text
  <2> QED BY <1>1, <1>3, <1>4, Zenon DEF text
<1> HIDE DEF row, text
<1>9. ASSUME NEW i \in from
      PROVE  /\ items'[i] \in ItemRows /\ items'[i].text = items[i].text
             /\ items'[i].locked = items[i].locked /\ items'[i].prompt = items[i].prompt
  <2>1. items[i] \in ItemRows /\ "merged" \in Closed
    BY <1>1 DEF Closed
  <2>2. items'[i] = [items[i] EXCEPT !.state = "merged"]
    BY <1>7
  <2> QED BY <2>1, <2>2 DEF ItemRows
<1>10. items' \in [Items -> ItemRows]
  <2>1. ASSUME NEW i \in Items PROVE items'[i] \in ItemRows
    BY <1>1, <1>6, <1>7, <1>9
  <2> QED BY <1>8, <2>1
<1>11. WorkTypeOK'
  BY <1>2, <1>8, <1>10 DEF ItemsInv, WorkTypeOK
<1>12. OwnerWins'
  <2>1. ASSUME NEW i \in Items, NEW f \in items'[i].locked PROVE items'[i].text[f] = said'[i][f]
    <3>1. CASE i = into
      BY <1>6, <1>7, <3>1
    <3>2. CASE i \in from
      BY <1>2, <1>7, <1>9, <3>2 DEF ItemsInv, OwnerWins
    <3>3. CASE i \notin from \cup {into}
      BY <1>7, <3>3 DEF ItemsInv, OwnerWins
    <3> QED BY <3>1, <3>2, <3>3
  <2> QED BY <2>1 DEF OwnerWins
<1>13. FrozenApproved'
  <2>1. \A i \in Items : items'[i].prompt = items[i].prompt
    BY <1>6, <1>7, <1>9
  <2> QED BY <1>2, <2>1 DEF ItemsInv, FrozenApproved
<1>14. LinesConsidered' /\ PassSends'
  BY <1>2 DEF ItemsInv, LinesConsidered, PassSends, OneTooMany
<1> QED BY <1>11, <1>12, <1>13, <1>14 DEF ItemsInv

Answers == [ref : Items \cup {0}, title : Titles \cup {None}, repo : Repos \cup {None},
            criteria : SUBSET Criteria, lines : SUBSET Lines]

\* What the LLM proposes does not reach the fields that are locked, and no frozen prompt.
LEMMA RefinedRow ==
  ASSUME NEW row \in ItemRows, NEW up \in Answers
  PROVE  /\ Refined(row, up) \in ItemRows
         /\ Refined(row, up).locked = row.locked /\ Refined(row, up).prompt = row.prompt
         /\ \A f \in Fields : f \in row.locked => Refined(row, up).text[f] = row.text[f]
<1> DEFINE title == IF up.title # None /\ "title" \notin row.locked THEN up.title ELSE row.text.title
           repo == IF up.repo # None /\ "repo" \notin row.locked THEN up.repo ELSE row.text.repo
           criteria == IF up.criteria # {} /\ "criteria" \notin row.locked THEN up.criteria ELSE row.text.criteria
           text == [title |-> title, repo |-> repo, criteria |-> criteria]
           sources == Sourced(row.sources, up.lines)
<1>1. Refined(row, up) = [row EXCEPT !.text = text, !.sources = sources]
  BY DEF Refined
<1>2. row.text \in Texts /\ row.sources \in SUBSET Lines /\ up \in Answers
  BY DEF ItemRows
<1>3. text \in Texts
  BY <1>2 DEF Texts, Answers
<1>4. sources \in SUBSET Lines
  BY <1>2 DEF Sourced, Earliest, Answers
<1>5. \A f \in Fields : f \in row.locked => text[f] = row.text[f]
  BY DEF Fields
<1> HIDE DEF text, sources
<1> QED BY <1>1, <1>3, <1>4, <1>5 DEF ItemRows

\* A proposal is merged into the item it is about, or becomes a new one.
LEMMA UpsertStep ==
  ASSUME ItemsInv, NEW up \in Answers, Upsert(up)
  PROVE  ItemsInv'
<1>1. UNCHANGED <<ideas, said, approvals>>
  BY DEF Upsert
<1>2. ASSUME NEW i \in Items, items' = [items EXCEPT ![i] = Refined(items[i], up)]
      PROVE  ItemsInv'
  <2> DEFINE row == Refined(items[i], up)
  <2>1. items[i] \in ItemRows /\ Owned(items[i], said[i]) /\ Frozen(i, items[i])
    BY ItemBefore
  <2>2. /\ row \in ItemRows /\ row.locked = items[i].locked /\ row.prompt = items[i].prompt
        /\ \A f \in Fields : f \in items[i].locked => row.text[f] = items[i].text[f]
    BY <2>1, RefinedRow
  <2>3. items[i].locked \subseteq Fields
    BY <2>1 DEF ItemRows
  <2>4. items' = [items EXCEPT ![i] = row]
    BY <1>2
  <2> HIDE DEF row
  <2>5. Owned(row, said[i]) /\ Frozen(i, row)
    BY <2>1, <2>2, <2>3 DEF Owned, Frozen
  <2> QED BY <1>1, <2>2, <2>4, <2>5, ItemTouched
<1>3. ASSUME NEW i \in Items, items' = [items EXCEPT ![i] = [Refined(NoItem, up) EXCEPT !.state = "draft"]]
      PROVE  ItemsInv'
  <2> DEFINE new == Refined(NoItem, up)
             row == [new EXCEPT !.state = "draft"]
  <2>1. NoItem \in ItemRows
    BY <1>3, ItemBefore
  <2>2. new \in ItemRows /\ new.locked = NoItem.locked /\ new.prompt = NoItem.prompt
    BY <2>1, RefinedRow
  <2>3. NoItem.locked = {} /\ NoItem.prompt = NoPrompt
    BY DEF NoItem
  <2>4. items' = [items EXCEPT ![i] = row]
    BY <1>3
  <2> HIDE DEF new
  <2>5. row \in ItemRows /\ row.locked = {} /\ row.prompt = NoPrompt
    BY <2>2, <2>3 DEF ItemRows
  <2> HIDE DEF row
  <2>6. Owned(row, said[i]) /\ Frozen(i, row)
    BY <2>5 DEF Owned, Frozen
  <2> QED BY <1>1, <2>4, <2>5, <2>6, ItemTouched
<1>4. \/ \E i \in Matched(up) : items' = [items EXCEPT ![i] = Refined(items[i], up)]
      \/ \E i \in Items : items' = [items EXCEPT ![i] = [Refined(NoItem, up) EXCEPT !.state = "draft"]]
  BY Zenon DEF Upsert
<1>5. Matched(up) \subseteq Items
  <2> DEFINE twins == {i \in Items : Open(i) /\ items[i].text.title = up.title}
  <2>1. twins \in SUBSET Nat
    BY DEF Items
  <2>2. twins # {} => Min(twins) \in twins
    BY <2>1, LeastOf
  <2>3. twins # {} => Min(twins) \in Items
    BY <2>2
  <2>4. Matched(up) = IF up.ref \in Items /\ items[up.ref].state # None THEN {up.ref}
                      ELSE IF twins = {} THEN {} ELSE {Min(twins)}
    BY DEF Matched
  <2> HIDE DEF twins
  <2> QED BY <2>3, <2>4
<1> QED BY <1>2, <1>3, <1>4, <1>5

\* Every step of the session's items keeps them sound.
LEMMA WorkNextStep ==
  ASSUME ItemsInv, WorkNext
  PROVE  ItemsInv'
<1>1. CASE (\E l \in Lines : Hear(l)) \/ PassRead \/ PassFails \/ PassLocks \/ PassStored
  BY <1>1, HearingStep DEF Hearing
<1>2. ASSUME NEW text \in Texts, NEW ref \in Items \cup {0}, NEW lines \in SUBSET ideas.sent,
             Upsert([ref |-> ref, title |-> text.title, repo |-> text.repo, criteria |-> text.criteria,
                     lines |-> lines])
      PROVE  ItemsInv'
  <2> DEFINE up == [ref |-> ref, title |-> text.title, repo |-> text.repo, criteria |-> text.criteria,
                    lines |-> lines]
  <2>1. ideas.sent \in SUBSET Lines
    BY DEF ItemsInv, WorkTypeOK
  <2>2. up \in Answers
    BY <2>1 DEF Answers, Texts
  <2>3. Upsert(up)
    BY <1>2
  <2> HIDE DEF up
  <2> QED BY <2>2, <2>3, UpsertStep
<1>3. ASSUME NEW i \in Items,
             Approve(i) \/ Unapprove(i) \/ Discard(i) \/ Restore(i) \/ Done(i) \/ Reopen(i)
      PROVE  ItemsInv'
  BY <1>3, ReviewedStep DEF Reviewed
<1>4. ASSUME NEW i \in Items, NEW text \in Texts, Edit(i, text) PROVE ItemsInv'
  BY <1>4, EditStep
<1>5. ASSUME NEW i \in Items, NEW from \in SUBSET Items, Merge(i, from) PROVE ItemsInv'
  BY <1>5, MergeStep
<1> QED BY <1>1, <1>2, <1>3, <1>4, <1>5 DEF WorkNext

\* The watch closes an item whose pull request merged.
LEMMA WatchCloseItems ==
  ASSUME ItemsInv, Shaped, NEW w \in watch, WatchClose(w)
  PROVE  ItemsInv'
<1>1. w.item \in Items /\ UNCHANGED <<ideas, said, approvals>>
  BY DEF Shaped, GitOK, WatchClose
<1>2. CASE items' = items
  BY <1>1, <1>2 DEF ItemsInv, WorkTypeOK, OwnerWins, LinesConsidered, PassSends, OneTooMany, FrozenApproved
<1>3. ASSUME NEW p \in Merged(w),
             items' = [items EXCEPT ![w.item].state = "done", ![w.item].mergedPr = p]
      PROVE  ItemsInv'
  <2>1. p \in Nat
    BY DEF Merged, Shaped, GitOK
  <2>2. items \in [Items -> ItemRows] /\ items[w.item] \in ItemRows
    BY <1>1 DEF ItemsInv, WorkTypeOK
  <2>3. Marked(items[w.item], "done", items[w.item].prompt, p)
          = [[items[w.item] EXCEPT !.state = "done"] EXCEPT !.mergedPr = p]
    BY <2>2 DEF Marked, ItemRows
  <2>4. items' = [items EXCEPT ![w.item] = Marked(items[w.item], "done", items[w.item].prompt, p)]
    BY <1>1, <1>3, <2>2, <2>3
  <2> QED BY <1>1, <2>1, <2>4, ReviewStep DEF Closed
<1> QED BY <1>2, <1>3 DEF WatchClose

\* A death of the process ends the pass that runs.
LEMMA CrashItems ==
  ASSUME ItemsInv, Crash
  PROVE  ItemsInv'
<1>1. /\ ideas' = [ideas EXCEPT !.pass = "idle", !.sent = {}] /\ UNCHANGED <<items, said, approvals>>
  BY DEF Crash
<1>2. ideas \in IdeasRows
  BY DEF ItemsInv, WorkTypeOK, IdeasRows
<1>3. /\ ideas'.cursor = ideas.cursor /\ ideas'.considered = ideas.considered /\ ideas'.pass = "idle"
      /\ ideas'.heard = ideas.heard /\ ideas'.late = ideas.late /\ ideas' \in IdeasRows
  BY <1>1, <1>2 DEF IdeasRows
<1>4. LinesConsidered' /\ PassSends'
  BY <1>3 DEF ItemsInv, LinesConsidered, PassSends, OneTooMany
<1> QED BY <1>1, <1>3, <1>4 DEF ItemsInv, WorkTypeOK, OwnerWins, FrozenApproved, IdeasRows

\* The steps of dispatch that leave the items, the transcript and what was said alone.
Dispatching ==
  \/ \E i \in Items, guided \in BOOLEAN : Gate(i, guided)
  \/ \E q \in requests : Queue(q)
  \/ LoopStep \/ MintFails \/ StartLost
  \/ \E r \in Runs : \/ Cancel(r) \/ CancelLost(r) \/ CheckFails(r)
                     \/ Prepare(r) \/ Claude(r) \/ Push(r) \/ JobEnds(r)
  \/ \E i \in Items : OutsidePr(i)
  \/ \E p \in DOMAIN prs : MergePr(p)
  \/ WatchRead

\* They do.
LEMMA DispatchingItems ==
  ASSUME Dispatching
  PROVE  UNCHANGED workVars
<1>1. ASSUME NEW i \in Items, NEW guided \in BOOLEAN, Gate(i, guided) PROVE UNCHANGED workVars
  BY <1>1 DEF Gate
<1>2. ASSUME NEW q \in requests, Queue(q) PROVE UNCHANGED workVars
  BY <1>2 DEF Queue
<1>3. CASE MintFails \/ StartLost \/ WatchRead
  BY <1>3 DEF MintFails, StartLost, WatchRead
<1>4. CASE LoopStep
  BY <1>4 DEF LoopStep, Tick, CheckWrite, TickCount, TickEnds, StartRead, StartSecret, StartJob,
     StartCommit, CheckRead, StartRefused
<1>5. ASSUME NEW r \in Runs,
             \/ Cancel(r) \/ CancelLost(r) \/ CheckFails(r)
             \/ Prepare(r) \/ Claude(r) \/ Push(r) \/ JobEnds(r)
      PROVE  UNCHANGED workVars
  BY <1>5 DEF Cancel, CancelLost, CheckFails, Prepare, Claude, Push, JobEnds
<1>6. ASSUME NEW i \in Items, OutsidePr(i) PROVE UNCHANGED workVars
  BY <1>6 DEF OutsidePr
<1>7. ASSUME NEW p \in DOMAIN prs, MergePr(p) PROVE UNCHANGED workVars
  BY <1>7 DEF MergePr
<1> QED BY <1>1, <1>2, <1>3, <1>4, <1>5, <1>6, <1>7 DEF Dispatching

\* The steps of the whole, by what they may do.
LEMMA NextCases ==
  ASSUME Next
  PROVE  \/ WorkNext /\ UNCHANGED <<runVars, prVars>>
         \/ Dispatching
         \/ \E w \in watch : WatchClose(w)
         \/ Crash
BY DEF Next, Dispatching

\* Every step of the whole keeps the items sound.
LEMMA ItemsStep ==
  ASSUME ItemsInv, Shaped, [Next]_vars
  PROVE  ItemsInv'
<1>1. CASE UNCHANGED workVars
  BY <1>1 DEF workVars, ItemsInv, WorkTypeOK, OwnerWins, LinesConsidered, PassSends, OneTooMany, FrozenApproved
<1>2. CASE Next
  BY <1>1, <1>2, NextCases, WorkNextStep, WatchCloseItems, CrashItems, DispatchingItems
<1> QED BY <1>1, <1>2 DEF vars

\* In the beginning there are no items and nothing was said.
LEMMA ItemsInit ==
  ASSUME Init
  PROVE  ItemsInv
<1>1. Blank \in Texts /\ NoPrompt \in Prompts
  BY DEF Blank, Texts, NoPrompt, Prompts
<1>2. NoItem \in ItemRows /\ NoItem.locked = {} /\ NoItem.prompt = NoPrompt
  BY <1>1 DEF NoItem, ItemRows, Prompts
<1>3. items = [i \in Items |-> NoItem] /\ said = [i \in Items |-> Blank] /\ approvals = {}
  BY DEF Init, WorkInit
<1>4. ideas = [heard |-> {}, cursor |-> 0, considered |-> {}, late |-> {}, pass |-> "idle", sent |-> {}]
  BY DEF Init, WorkInit
<1>5. MaxLines \in Nat
  BY WorkItemsBounds
<1> HIDE DEF NoItem
<1>6. WorkTypeOK
  BY <1>1, <1>2, <1>3, <1>4, <1>5 DEF WorkTypeOK
<1>7. OwnerWins /\ FrozenApproved
  BY <1>2, <1>3 DEF OwnerWins, FrozenApproved
<1>8. LinesConsidered /\ PassSends
  BY <1>4 DEF LinesConsidered, PassSends
<1> QED BY <1>6, <1>7, <1>8 DEF ItemsInv
-----------------------------------------------------------------------------
(* Runs: what a step may do to a row *)

RunRow(r, state, named, pr) ==
  [item |-> runs[r].item, prompt |-> runs[r].prompt, state |-> state, named |-> named, pr |-> pr,
   branch |-> runs[r].branch]
\* A run moves to another state; its item, its prompt and its branch stay.
Moves(r, state, named, pr) ==
  /\ runs' \in Seq(RunRows) /\ Len(runs') = Len(runs) /\ DOMAIN runs' = DOMAIN runs
  /\ \A s \in DOMAIN runs : s # r => runs'[s] = runs[s]
  /\ runs'[r].item = runs[r].item /\ runs'[r].prompt = runs[r].prompt /\ runs'[r].branch = runs[r].branch
  /\ runs'[r].state = state /\ runs'[r].named = named /\ runs'[r].pr = pr

\* A row written with another state, name or pull request is a run that moved.
LEMMA RunMoves ==
  ASSUME runs \in Seq(RunRows), NEW r \in DOMAIN runs, NEW state \in Active \cup Outcomes,
         NEW named \in BOOLEAN, NEW pr \in Nat, runs' = [runs EXCEPT ![r] = RunRow(r, state, named, pr)]
  PROVE  Moves(r, state, named, pr)
<1> DEFINE row == RunRow(r, state, named, pr)
<1>1. runs[r] \in RunRows
  OBVIOUS
<1>2. /\ row \in RunRows /\ row.item = runs[r].item /\ row.prompt = runs[r].prompt
      /\ row.branch = runs[r].branch /\ row.state = state /\ row.named = named /\ row.pr = pr
  BY <1>1 DEF RunRow, RunRows
<1>3. runs' = [runs EXCEPT ![r] = row]
  OBVIOUS
<1> HIDE DEF row
<1>4. runs' \in Seq(RunRows) /\ Len(runs') = Len(runs) /\ DOMAIN runs' = DOMAIN runs
  BY <1>2, <1>3
<1>5. runs'[r] = row /\ \A s \in DOMAIN runs : s # r => runs'[s] = runs[s]
  BY <1>3
<1> QED BY <1>2, <1>4, <1>5 DEF Moves

\* The three ways a row is written, as moves: a cancellation, an end, and the commit of a start.
LEMMA CancelMoves ==
  ASSUME runs \in Seq(RunRows), NEW r \in DOMAIN runs, runs' = [runs EXCEPT ![r].state = "cancelled"]
  PROVE  Moves(r, "cancelled", runs[r].named, runs[r].pr)
<1>1. runs[r] \in RunRows
  OBVIOUS
<1>2. [runs[r] EXCEPT !.state = "cancelled"] = RunRow(r, "cancelled", runs[r].named, runs[r].pr)
  BY <1>1 DEF RunRow, RunRows
<1>3. runs' = [runs EXCEPT ![r] = RunRow(r, "cancelled", runs[r].named, runs[r].pr)]
  BY <1>2
<1>4. runs[r].named \in BOOLEAN /\ runs[r].pr \in Nat /\ "cancelled" \in Active \cup Outcomes
  BY <1>1 DEF RunRows, Outcomes
<1> QED BY <1>3, <1>4, RunMoves

\* An outcome.
LEMMA EndMoves ==
  ASSUME runs \in Seq(RunRows), NEW r \in DOMAIN runs, NEW outcome \in Outcomes, NEW pr \in Nat,
         runs' = Ended(r, outcome, pr)
  PROVE  Moves(r, outcome, runs[r].named, pr)
<1>1. runs[r] \in RunRows
  OBVIOUS
<1> DEFINE first == RunRow(r, outcome, runs[r].named, runs[r].pr)
<1>2. [runs[r] EXCEPT !.state = outcome] = first
  BY <1>1 DEF RunRow, RunRows
<1>3. [first EXCEPT !.pr = pr] = RunRow(r, outcome, runs[r].named, pr)
  BY DEF RunRow
<1> HIDE DEF first
<1>4. [[runs[r] EXCEPT !.state = outcome] EXCEPT !.pr = pr] = RunRow(r, outcome, runs[r].named, pr)
  BY <1>2, <1>3
<1>5. runs' = [runs EXCEPT ![r] = RunRow(r, outcome, runs[r].named, pr)]
  BY <1>4 DEF Ended
<1>6. runs[r].named \in BOOLEAN
  BY <1>1 DEF RunRows
<1> QED BY <1>5, <1>6, RunMoves

\* The commit of a start.
LEMMA CommitMoves ==
  ASSUME runs \in Seq(RunRows), NEW r \in DOMAIN runs,
         runs' = [runs EXCEPT ![r].state = "running", ![r].named = TRUE]
  PROVE  \E named \in BOOLEAN : named /\ Moves(r, "running", named, runs[r].pr)
<1>1. runs[r] \in RunRows
  OBVIOUS
<1> DEFINE yes == TRUE
<1>2. yes \in BOOLEAN /\ yes
  OBVIOUS
<1>3. runs' = [runs EXCEPT ![r].state = "running", ![r].named = yes]
  OBVIOUS
<1> HIDE DEF yes
<1> DEFINE first == RunRow(r, "running", runs[r].named, runs[r].pr)
<1>4. [runs[r] EXCEPT !.state = "running"] = first
  <2>1. PICK x : x = runs[r]
    OBVIOUS
  <2>2. [x EXCEPT !.state = "running"] = [item |-> x.item, prompt |-> x.prompt, state |-> "running", named |-> x.named,
                                          pr |-> x.pr, branch |-> x.branch]
    <3>1. x \in RunRows
      BY <1>1, <2>1
    <3> QED BY ONLY <3>1 DEF RunRows
  <2> QED BY <2>1, <2>2 DEF RunRow
<1>5. [first EXCEPT !.named = yes] = RunRow(r, "running", yes, runs[r].pr)
  BY SMTT(30) DEF RunRow
<1> HIDE DEF first
<1>6. [[runs[r] EXCEPT !.state = "running"] EXCEPT !.named = yes] = RunRow(r, "running", yes, runs[r].pr)
  BY <1>4, <1>5
<1>7. runs' = [runs EXCEPT ![r] = RunRow(r, "running", yes, runs[r].pr)]
  BY <1>6, <1>3
<1>8. runs[r].pr \in Nat /\ "running" \in Active \cup Outcomes
  BY <1>1 DEF RunRows, Active
<1> QED BY <1>7, <1>8, <1>2, RunMoves
-----------------------------------------------------------------------------
(* Steps that write no branch and make no run *)

\* Rows keep what they are about.
SameRows ==
  /\ runs' \in Seq(RunRows) /\ Len(runs') = Len(runs) /\ DOMAIN runs' = DOMAIN runs
  /\ \A s \in DOMAIN runs :
       /\ runs'[s].item = runs[s].item /\ runs'[s].prompt = runs[s].prompt
       /\ runs'[s].branch = runs[s].branch /\ runs'[s].pr \in 0..Len(prs')
\* Jobs carry the prompts of their runs, do not go back before their push and report nothing new.
SameJobs ==
  /\ jobs' \in [Runs -> JobRows]
  /\ \A r \in DOMAIN runs :
       /\ jobs'[r].prompt = jobs[r].prompt \/ jobs'[r].prompt = runs[r].prompt
       /\ jobs'[r].phase \in Before => jobs[r].phase \in Before
       /\ jobs'[r].phase = "reported" => jobs[r].phase = "reported" /\ jobs'[r].result = jobs[r].result
  /\ \A r \in Runs \ DOMAIN runs : jobs'[r] = jobs[r]
\* Pull requests only come.
SamePrs ==
  /\ prs' \in Seq(PrRows) /\ Len(prs) <= Len(prs')
  /\ \A p \in DOMAIN prs : prs'[p].branch = prs[p].branch
  /\ \A p \in DOMAIN prs' : prs'[p].branch \in 0..Len(runs)

Frame ==
  /\ SameRows /\ SameJobs /\ SamePrs /\ branches' = branches
  /\ RequestsOK' /\ LoopOK' /\ budget' \in [Events -> Nat]
  /\ watch' \subseteq [item : Items, known : Nat] /\ closedBy' \in [Items -> SUBSET DOMAIN prs']
  /\ approvals \subseteq approvals'
  /\ Started' /\ VerdictSound'

\* Rows and pull requests, as the frame leaves them.
LEMMA FramePushed ==
  ASSUME RunsInv, SameRows, SamePrs, branches' = branches, NEW r \in DOMAIN runs
  PROVE  /\ Pushed(r)' <=> Pushed(r)
         /\ HasPr(r) => HasPr(r)'
<1>1. runs'[r].branch = runs[r].branch
  BY DEF SameRows
<1>2. Pushed(r)' <=> Pushed(r)
  BY <1>1 DEF Pushed
<1>3. ASSUME NEW p \in DOMAIN prs PROVE p \in DOMAIN prs' /\ prs'[p].branch = prs[p].branch
  BY DEF SamePrs, RunsInv, Shaped, GitOK
<1>4. HasPr(r) => \E p \in DOMAIN prs' : prs'[p].branch = runs[r].branch
  BY <1>3 DEF HasPr
<1> QED BY <1>1, <1>2, <1>4 DEF HasPr

\* A step within the frame keeps the runs sound.
LEMMA FrameStep ==
  ASSUME RunsInv, Frame
  PROVE  RunsInv'
<1>1. /\ Shaped /\ CarryApproved /\ PushedReported
      /\ SameRows /\ SameJobs /\ SamePrs /\ branches' = branches
  BY DEF RunsInv, Frame
<1>2. DOMAIN runs' = DOMAIN runs /\ Len(runs') = Len(runs)
  BY <1>1 DEF SameRows
<1>3. RowsOK'
  <2>1. Len(runs) <= MaxRuns /\ \A r \in DOMAIN runs : runs[r].branch \in 1..r
    BY <1>1 DEF Shaped, RowsOK
  <2> QED BY <1>1, <1>2, <2>1 DEF RowsOK, SameRows
<1>4. GitOK'
  BY <1>1, <1>2 DEF Shaped, GitOK, SamePrs, Frame
<1>5. Shaped'
  BY <1>3, <1>4 DEF Shaped, Frame, SameJobs
<1>6. CarryApproved'
  <2>1. approvals \subseteq approvals'
    BY DEF Frame
  <2>2. ASSUME NEW r \in DOMAIN runs'
        PROVE  /\ <<runs'[r].item, runs'[r].prompt>> \in approvals'
               /\ jobs'[r].prompt \in {NoPrompt, runs'[r].prompt}
    BY <1>1, <1>2, <2>1 DEF CarryApproved, SameRows, SameJobs
  <2>3. ASSUME NEW r \in Runs \ DOMAIN runs' PROVE jobs'[r].phase = None /\ jobs'[r].prompt = NoPrompt
    BY <1>1, <1>2 DEF CarryApproved, SameJobs
  <2> QED BY <2>2, <2>3 DEF CarryApproved
<1>7. PushedReported'
  <2>1. ASSUME NEW r \in DOMAIN runs'
        PROVE  /\ jobs'[r].phase \in Before => ~Pushed(r)'
               /\ jobs'[r].phase = "reported" =>
                    /\ jobs'[r].result \in Outcomes
                    /\ jobs'[r].result \in Asks /\ Pushed(r)' => HasPr(r)'
    <3>1. r \in DOMAIN runs
      BY <1>2
    <3>2. /\ Pushed(r)' <=> Pushed(r)
          /\ HasPr(r) => HasPr(r)'
      BY <1>1, <3>1, FramePushed
    <3>3. /\ jobs'[r].phase \in Before => jobs[r].phase \in Before
          /\ jobs'[r].phase = "reported" => jobs[r].phase = "reported" /\ jobs'[r].result = jobs[r].result
      BY <1>1, <3>1 DEF SameJobs
    <3>4. /\ jobs[r].phase \in Before => ~Pushed(r)
          /\ jobs[r].phase = "reported" =>
               jobs[r].result \in Outcomes /\ (jobs[r].result \in Asks /\ Pushed(r) => HasPr(r))
      BY <1>1, <3>1 DEF PushedReported
    <3> QED BY <3>2, <3>3, <3>4
  <2> QED BY <2>1 DEF PushedReported
<1> QED BY <1>5, <1>6, <1>7 DEF RunsInv, Frame

\* A loop that does nothing keeps its verdict and the run it starts.
LEMMA LoopKept ==
  ASSUME RunsInv, SameRows, SameJobs, SamePrs, branches' = branches, loop' = loop,
         loop.pc \in Starting => runs'[loop.run].state = runs[loop.run].state
  PROVE  LoopOK' /\ Started' /\ VerdictSound'
<1>1. LoopOK /\ Started /\ VerdictSound
  BY DEF RunsInv, Shaped
<1>2. DOMAIN runs' = DOMAIN runs /\ Len(runs') = Len(runs)
  BY DEF SameRows
<1>3. LoopOK'
  BY <1>1, <1>2 DEF LoopOK
<1>4. Started'
  BY <1>1, <1>2 DEF Started, SameRows
<1>5. VerdictSound'
  <2>1. SUFFICES ASSUME loop.pc = "ended"
                 PROVE  /\ loop.run \in DOMAIN runs' /\ loop.verdict \in Outcomes
                        /\ loop.verdict \in Asks =>
                             /\ jobs'[loop.run].phase \notin Before
                             /\ Pushed(loop.run)' => HasPr(loop.run)'
    BY DEF VerdictSound
  <2>2. loop.run \in DOMAIN runs /\ loop.verdict \in Outcomes
    BY <1>1, <2>1 DEF VerdictSound
  <2>3. Pushed(loop.run)' => Pushed(loop.run)
    BY <2>2, FramePushed DEF Pushed
  <2>4. HasPr(loop.run) => HasPr(loop.run)'
    BY <2>2, FramePushed
  <2>5. jobs'[loop.run].phase \in Before => jobs[loop.run].phase \in Before
    BY <2>2 DEF SameJobs
  <2>6. loop.verdict \in Asks =>
          /\ jobs[loop.run].phase \notin Before
          /\ Pushed(loop.run) => HasPr(loop.run)
    BY <1>1, <2>1 DEF VerdictSound
  <2>7. loop.run \in DOMAIN runs' /\ loop.verdict \in Outcomes
    BY <1>2, <2>2
  <2> QED BY <2>3, <2>4, <2>5, <2>6, <2>7
<1> QED BY <1>3, <1>4, <1>5

\* What is not written is the same.
LEMMA Unwritten ==
  ASSUME RunsInv
  PROVE  /\ runs' = runs /\ Len(prs) <= Len(prs') /\ prs' \in Seq(PrRows) => SameRows
         /\ jobs' = jobs => SameJobs
         /\ prs' = prs => SamePrs
         /\ UNCHANGED <<requests, approvals>> => RequestsOK'
         /\ UNCHANGED <<prs, watch, closedBy>> =>
              watch' \subseteq [item : Items, known : Nat] /\ closedBy' \in [Items -> SUBSET DOMAIN prs']
         /\ UNCHANGED budget => budget' \in [Events -> Nat]
<1>1. Shaped
  BY DEF RunsInv
<1>2. ASSUME runs' = runs, Len(prs) <= Len(prs'), prs' \in Seq(PrRows) PROVE SameRows
  <2>1. Len(prs) \in Nat /\ Len(prs') \in Nat
    BY <1>1, <1>2 DEF Shaped, GitOK
  <2> QED BY <1>1, <1>2, <2>1 DEF Shaped, RowsOK, SameRows
<1>3. ASSUME jobs' = jobs PROVE SameJobs
  BY <1>1, <1>3 DEF Shaped, SameJobs
<1>4. ASSUME prs' = prs PROVE SamePrs
  BY <1>1, <1>4 DEF Shaped, GitOK, SamePrs
<1>5. ASSUME UNCHANGED <<requests, approvals>> PROVE RequestsOK'
  BY <1>1, <1>5 DEF Shaped, RequestsOK
<1>6. ASSUME UNCHANGED <<prs, watch, closedBy>>
      PROVE  watch' \subseteq [item : Items, known : Nat] /\ closedBy' \in [Items -> SUBSET DOMAIN prs']
  BY <1>1, <1>6 DEF Shaped, GitOK
<1>7. ASSUME UNCHANGED budget PROVE budget' \in [Events -> Nat]
  BY <1>1, <1>7 DEF Shaped
<1> QED BY <1>2, <1>3, <1>4, <1>5, <1>6, <1>7

\* What happens is counted.
LEMMA SpendCounts ==
  ASSUME budget \in [Events -> Nat], NEW event \in Events, Spend(event)
  PROVE  /\ budget' \in [Events -> Nat] /\ budget'[event] > 0
         /\ \A e \in Events : budget[e] <= budget'[e]
<1>1. budget' = [budget EXCEPT ![event] = budget[event] + 1]
  BY DEF Spend
<1> QED BY <1>1

\* The runs that are there are among those that may be.
LEMMA RunExists ==
  ASSUME RunsInv
  PROVE  /\ DOMAIN runs = 1..Len(runs) /\ Len(runs) \in Nat /\ DOMAIN runs \subseteq Runs
         /\ \A r \in DOMAIN runs : runs[r] \in RunRows /\ jobs[r] \in JobRows /\ runs[r].branch \in Runs
<1>1. runs \in Seq(RunRows) /\ Len(runs) <= MaxRuns /\ jobs \in [Runs -> JobRows] /\ MaxRuns \in Nat
  BY DispatchBounds DEF RunsInv, Shaped, RowsOK
<1>2. DOMAIN runs = 1..Len(runs) /\ Len(runs) \in Nat
  BY <1>1
<1>3. DOMAIN runs \subseteq Runs
  BY <1>1, <1>2 DEF Runs
<1>4. \A r \in DOMAIN runs : runs[r].branch \in 1..r
  BY DEF RunsInv, Shaped, RowsOK
<1>5. \A r \in DOMAIN runs : runs[r].branch \in Runs
  BY <1>1, <1>2, <1>4 DEF Runs
<1> QED BY <1>1, <1>2, <1>3, <1>5

\* A row that moved, with a pull request that is there, is about what it was.
LEMMA MovedRows ==
  ASSUME RunsInv, NEW r \in DOMAIN runs, NEW state, NEW named, NEW pr \in 0..Len(prs),
         Moves(r, state, named, pr), prs' = prs
  PROVE  SameRows
BY DEF Moves, SameRows, RunsInv, Shaped, RowsOK

\* A Job of a run that moved on, with the prompt of the run, reports nothing new.
LEMMA MovedJobs ==
  ASSUME RunsInv, NEW r \in DOMAIN runs, NEW row \in JobRows, jobs' = [jobs EXCEPT ![r] = row],
         row.prompt = jobs[r].prompt \/ row.prompt = runs[r].prompt,
         row.phase \in Before => jobs[r].phase \in Before,
         row.phase = "reported" => jobs[r].phase = "reported" /\ row.result = jobs[r].result
  PROVE  SameJobs /\ jobs'[r] = row
<1>1. jobs \in [Runs -> JobRows] /\ r \in Runs
  BY RunExists DEF RunsInv, Shaped
<1>2. jobs' \in [Runs -> JobRows] /\ jobs'[r] = row /\ \A s \in Runs : s # r => jobs'[s] = jobs[s]
  BY <1>1
<1>3. DOMAIN runs \subseteq Runs
  BY RunExists
<1> QED BY <1>2, <1>3 DEF SameJobs

\* A Job that ends, or is deleted, reports nothing.
LEMMA PhaseMoves ==
  ASSUME RunsInv, NEW r \in DOMAIN runs, NEW phase \in Phases, jobs' = [jobs EXCEPT ![r].phase = phase],
         phase # "reported", phase \in Before => jobs[r].phase \in Before
  PROVE  SameJobs
<1> DEFINE row == [jobs[r] EXCEPT !.phase = phase]
<1>1. jobs[r] \in JobRows
  BY RunExists
<1>2. row \in JobRows /\ row.prompt = jobs[r].prompt /\ row.phase = phase
  BY <1>1 DEF JobRows
<1>3. jobs' = [jobs EXCEPT ![r] = row]
  OBVIOUS
<1> HIDE DEF row
<1> QED BY <1>2, <1>3, MovedJobs

\* A step of the loop that writes nothing else.
LoopOnly == UNCHANGED <<workVars, requests, runs, jobs, branches, prVars>>

\* It keeps the runs sound if the loop's own part holds after it.
LEMMA LoopOnlyStep ==
  ASSUME RunsInv, LoopOnly, budget' \in [Events -> Nat], LoopOK', Started', VerdictSound'
  PROVE  RunsInv'
<1>1. /\ runs' = runs /\ jobs' = jobs /\ prs' = prs /\ branches' = branches
      /\ UNCHANGED <<requests, approvals>> /\ UNCHANGED <<prs, watch, closedBy>>
  BY DEF LoopOnly, workVars, prVars
<1>2. prs' \in Seq(PrRows) /\ Len(prs) <= Len(prs')
  BY <1>1 DEF RunsInv, Shaped, GitOK
<1>3. SameRows /\ SameJobs /\ SamePrs /\ RequestsOK'
      /\ watch' \subseteq [item : Items, known : Nat] /\ closedBy' \in [Items -> SUBSET DOMAIN prs']
  BY <1>1, <1>2, Unwritten
<1>4. Frame
  BY <1>1, <1>3 DEF Frame
<1> QED BY <1>4, FrameStep

\* An idle loop speaks of no run.
LEMMA IdleOK == Idle \in LoopRows /\ Idle.pc = "idle" /\ Idle.todo = {} /\ Idle.queue = {} /\ Idle.run = 0
<1>1. NoPrompt \in Prompts
  BY DEF NoPrompt, Prompts
<1> HIDE DEF NoPrompt
<1> QED BY <1>1 DEF Idle, LoopRows

\* Runs of a state are runs that are there.
LEMMA StatesThere ==
  ASSUME RunsInv, NEW state
  PROVE  InState(state) \subseteq DOMAIN runs /\ InState(state) \in SUBSET Nat
BY RunExists DEF InState

\* A tick begins with the runs that run.
LEMMA TickStep ==
  ASSUME RunsInv, Tick
  PROVE  RunsInv'
<1>1. InState("running") \subseteq DOMAIN runs /\ InState("running") \in SUBSET Nat
  BY StatesThere
<1>2. /\ loop' = [Idle EXCEPT !.pc = "check", !.todo = InState("running")]
      /\ LoopOnly /\ budget' = budget
  BY DEF Tick, LoopOnly
<1>3. loop' \in LoopRows /\ loop'.pc = "check" /\ loop'.todo = InState("running") /\ loop'.queue = {} /\ loop'.run = 0
  BY <1>1, <1>2, IdleOK DEF LoopRows
<1>4. LoopOK' /\ Started' /\ VerdictSound'
  BY <1>1, <1>2, <1>3, RunExists DEF LoopOK, Started, Starting, VerdictSound, LoopOnly
<1>5. budget' \in [Events -> Nat]
  BY <1>2, Unwritten
<1> QED BY <1>2, <1>4, <1>5, LoopOnlyStep

\* The verdict on a Job is an outcome; one that reports a pull request was reported by the Job.
LEMMA VerdictOf ==
  ASSUME RunsInv, NEW r \in DOMAIN runs, Interpret(jobs[r]) # None
  PROVE  /\ Interpret(jobs[r]) \in Outcomes
         /\ Interpret(jobs[r]) \in Asks => jobs[r].phase \notin Before /\ (Pushed(r) => HasPr(r))
<1>1. jobs[r].phase = "reported" =>
        jobs[r].result \in Outcomes /\ (jobs[r].result \in Asks /\ Pushed(r) => HasPr(r))
  BY DEF RunsInv, PushedReported
<1>2. CASE jobs[r].phase = "reported"
  BY <1>1, <1>2 DEF Interpret, Before, None
<1>3. CASE jobs[r].phase \in {None, "gone", "failed"}
  BY <1>3 DEF Interpret, Outcomes, Asks, None
<1>4. CASE jobs[r].phase = "expired"
  BY <1>4 DEF Interpret, Outcomes, Asks, None
<1> QED BY <1>2, <1>3, <1>4 DEF Interpret

\* The loop reads a Job's verdict.
LEMMA CheckReadStep ==
  ASSUME RunsInv, NEW r \in Runs, CheckRead(r)
  PROVE  RunsInv'
<1> DEFINE verdict == Interpret(jobs[r])
           pc == IF verdict = None THEN "check" ELSE "ended"
<1>1. LoopOnly /\ budget' = budget /\ r \in loop.todo
  BY DEF CheckRead, LoopOnly
<1>2. loop \in LoopRows /\ loop.todo \subseteq DOMAIN runs /\ loop.queue \subseteq DOMAIN runs
  BY DEF RunsInv, Shaped, LoopOK
<1>3. r \in DOMAIN runs /\ r \in 0..Len(runs) /\ r \in Nat
  BY <1>1, <1>2, RunExists
<1>4. verdict # None =>
        /\ verdict \in Outcomes
        /\ verdict \in Asks => jobs[r].phase \notin Before /\ (Pushed(r) => HasPr(r))
  BY <1>3, VerdictOf
<1>5. loop' = [loop EXCEPT !.pc = pc, !.todo = loop.todo \ {r}, !.run = r, !.verdict = verdict]
  BY DEF CheckRead
<1>6. verdict \in Outcomes \cup {None} /\ pc \in {"check", "ended"} /\ (pc = "ended" => verdict # None)
  BY <1>4
<1> HIDE DEF verdict, pc
<1>7. /\ loop' \in LoopRows /\ loop'.pc = pc /\ loop'.todo = loop.todo \ {r} /\ loop'.queue = loop.queue
      /\ loop'.run = r /\ loop'.verdict = verdict
  BY <1>2, <1>3, <1>5, <1>6 DEF LoopRows
<1>8. LoopOK' /\ Started'
  BY <1>1, <1>2, <1>3, <1>6, <1>7 DEF LoopOK, Started, Starting, LoopOnly
<1>9. UNCHANGED <<runs, jobs, branches, prs>>
  BY <1>1 DEF LoopOnly, prVars
<1>10. VerdictSound'
  <2>1. loop'.run = r
    BY <1>7
  <2>2. Pushed(loop.run)' => Pushed(r)
    BY <2>1, <1>9 DEF Pushed
  <2>3. HasPr(r) => HasPr(loop.run)'
    BY <2>1, <1>9 DEF HasPr
  <2>4. loop'.pc = "ended" => verdict # None
    BY <1>6, <1>7
  <2>5. ASSUME loop'.pc = "ended"
        PROVE  /\ loop'.run \in DOMAIN runs' /\ loop'.verdict \in Outcomes
               /\ loop'.verdict \in Asks =>
                    /\ jobs'[loop'.run].phase \notin Before
                    /\ Pushed(loop.run)' => HasPr(loop.run)'
    <3>1. /\ verdict \in Outcomes
          /\ verdict \in Asks => jobs[r].phase \notin Before /\ (Pushed(r) => HasPr(r))
      BY <2>4, <2>5, <1>4
    <3>2. jobs'[loop'.run].phase = jobs[r].phase /\ loop'.verdict = verdict /\ loop'.run \in DOMAIN runs'
      BY <2>1, <1>3, <1>7, <1>9
    <3> QED BY <2>2, <2>3, <3>1, <3>2
  <2> QED BY <2>5 DEF VerdictSound
<1>11. budget' \in [Events -> Nat]
  BY <1>1, Unwritten
<1> QED BY <1>1, <1>8, <1>10, <1>11, LoopOnlyStep

\* A loop that asks no Kubernetes and starts no run has nothing to keep.
LEMMA NothingHeld ==
  ASSUME loop'.pc \notin Starting \cup {"ended"}
  PROVE  Started' /\ VerdictSound'
BY DEF Started, VerdictSound

\* The loop goes on to its next step.
LEMMA LoopGoes ==
  ASSUME RunsInv, NEW pc \in {"idle", "check", "ended", "start", "mint", "secret", "job"},
         loop' = [loop EXCEPT !.pc = pc], DOMAIN runs' = DOMAIN runs, Len(runs') = Len(runs)
  PROVE  /\ LoopOK' /\ loop'.pc = pc /\ loop'.run = loop.run /\ loop'.prompt = loop.prompt
         /\ loop'.queue = loop.queue /\ loop'.todo = loop.todo
<1>1. loop \in LoopRows /\ loop.todo \subseteq DOMAIN runs /\ loop.queue \subseteq DOMAIN runs
      /\ loop.run \in 0..Len(runs)
  BY DEF RunsInv, Shaped, LoopOK
<1>2. /\ loop' \in LoopRows /\ loop'.pc = pc /\ loop'.run = loop.run /\ loop'.prompt = loop.prompt
      /\ loop'.queue = loop.queue /\ loop'.todo = loop.todo
  BY <1>1 DEF LoopRows
<1> QED BY <1>1, <1>2 DEF LoopOK

\* The loop falls back to the beginning of a tick.
LEMMA LoopIdle ==
  ASSUME loop' = Idle, Len(runs') \in Nat
  PROVE  LoopOK' /\ Started' /\ VerdictSound'
<1>1. loop' \in LoopRows /\ loop'.pc = "idle" /\ loop'.todo = {} /\ loop'.queue = {} /\ loop'.run = 0
  BY IdleOK
<1> QED BY <1>1, NothingHeld DEF LoopOK, Starting

\* A failing call skips the run.
LEMMA CheckFailsStep ==
  ASSUME RunsInv, NEW r \in Runs, CheckFails(r)
  PROVE  RunsInv'
<1>1. LoopOnly /\ loop.pc = "check" /\ loop' = [loop EXCEPT !.todo = loop.todo \ {r}] /\ Spend("refused")
  BY DEF CheckFails, LoopOnly
<1>2. loop \in LoopRows /\ loop.todo \subseteq DOMAIN runs /\ loop.queue \subseteq DOMAIN runs
      /\ loop.run \in 0..Len(runs)
  BY DEF RunsInv, Shaped, LoopOK
<1>3. /\ loop' \in LoopRows /\ loop'.pc = "check" /\ loop'.todo = loop.todo \ {r}
      /\ loop'.queue = loop.queue /\ loop'.run = loop.run
  BY <1>1, <1>2 DEF LoopRows
<1>4. LoopOK' /\ Started' /\ VerdictSound'
  BY <1>1, <1>2, <1>3, NothingHeld DEF LoopOK, LoopOnly, Starting
<1>5. budget' \in [Events -> Nat]
  BY <1>1, SpendCounts DEF RunsInv, Shaped, Events
<1> QED BY <1>1, <1>4, <1>5, LoopOnlyStep

\* The tick takes queued runs.
LEMMA TickCountStep ==
  ASSUME RunsInv, TickCount
  PROVE  RunsInv'
<1>1. PICK n : loop' = [loop EXCEPT !.pc = "start", !.queue = Oldest(InState("queued"), n)]
  BY DEF TickCount
<1>2. LoopOnly /\ budget' = budget
  BY DEF TickCount, LoopOnly
<1>3. Oldest(InState("queued"), n) \subseteq DOMAIN runs /\ Oldest(InState("queued"), n) \in SUBSET Nat
  BY StatesThere DEF Oldest
<1>4. loop \in LoopRows /\ loop.todo \subseteq DOMAIN runs /\ loop.run \in 0..Len(runs)
  BY DEF RunsInv, Shaped, LoopOK
<1>5. /\ loop' \in LoopRows /\ loop'.pc = "start" /\ loop'.todo = loop.todo
      /\ loop'.queue = Oldest(InState("queued"), n) /\ loop'.run = loop.run
  BY <1>1, <1>3, <1>4 DEF LoopRows
<1>6. LoopOK' /\ Started' /\ VerdictSound'
  BY <1>2, <1>3, <1>4, <1>5, NothingHeld DEF LoopOK, LoopOnly, Starting
<1>7. budget' \in [Events -> Nat]
  BY <1>2, Unwritten
<1> QED BY <1>2, <1>6, <1>7, LoopOnlyStep

\* The tick is over, or its answer is lost.
LEMMA TickOverStep ==
  ASSUME RunsInv, TickEnds \/ StartLost
  PROVE  RunsInv'
<1>1. LoopOnly /\ loop' = Idle
  BY DEF TickEnds, StartLost, LoopOnly
<1>2. LoopOK' /\ Started' /\ VerdictSound'
  BY <1>1, LoopIdle, RunExists DEF LoopOnly
<1>3. budget' \in [Events -> Nat]
  BY SpendCounts, Unwritten DEF TickEnds, StartLost, RunsInv, Shaped, Events
<1> QED BY <1>1, <1>2, <1>3, LoopOnlyStep

\* A step of the loop on a run and its Job.
RunOnly == UNCHANGED <<workVars, requests, branches, prVars>>

\* It keeps the runs sound if the rows, the Jobs and the loop's part hold after it.
LEMMA RunOnlyStep ==
  ASSUME RunsInv, RunOnly, SameRows, SameJobs, budget' \in [Events -> Nat], LoopOK', Started', VerdictSound'
  PROVE  RunsInv'
<1>1. /\ prs' = prs /\ branches' = branches
      /\ UNCHANGED <<requests, approvals>> /\ UNCHANGED <<prs, watch, closedBy>>
  BY DEF RunOnly, workVars, prVars
<1>2. SamePrs /\ RequestsOK'
      /\ watch' \subseteq [item : Items, known : Nat] /\ closedBy' \in [Items -> SUBSET DOMAIN prs']
  BY <1>1, Unwritten
<1>3. Frame
  BY <1>1, <1>2 DEF Frame
<1> QED BY <1>3, FrameStep

\* Rows that are not written are about what they were.
LEMMA RowsKept ==
  ASSUME RunsInv, runs' = runs, prs' = prs
  PROVE  SameRows
<1>1. prs' \in Seq(PrRows) /\ Len(prs) <= Len(prs')
  BY DEF RunsInv, Shaped, GitOK
<1> QED BY <1>1, Unwritten

\* A verdict's pull request is one that is there.
LEMMA ReportedThere ==
  ASSUME RunsInv, loop.pc = "ended"
  PROVE  /\ loop.run \in DOMAIN runs /\ loop.verdict \in Outcomes
         /\ ReportedPr(loop.run, loop.verdict) \in 0..Len(prs)
<1>1. /\ loop.run \in DOMAIN runs /\ loop.verdict \in Outcomes
      /\ loop.verdict \in Asks => (Pushed(loop.run) => HasPr(loop.run))
  BY DEF RunsInv, VerdictSound
<1> DEFINE ofBranch == {p \in DOMAIN prs : prs[p].branch = runs[loop.run].branch}
<1>2. prs \in Seq(PrRows) /\ Len(prs) \in Nat /\ DOMAIN prs = 1..Len(prs)
  BY DEF RunsInv, Shaped, GitOK
<1>3. CASE loop.verdict \in Asks /\ Pushed(loop.run)
  <2>1. \E p \in DOMAIN prs : prs[p].branch = runs[loop.run].branch
    BY <1>1, <1>3 DEF HasPr
  <2>2. ofBranch # {} /\ ofBranch \in SUBSET Nat /\ \A p \in ofBranch : p <= Len(prs)
    BY <1>2, <2>1
  <2>3. Max(ofBranch) \in ofBranch
    BY <1>2, <2>2, GreatestOf
  <2>4. Max(ofBranch) \in 0..Len(prs) /\ 0 \in 0..Len(prs)
    BY <1>2, <2>3
  <2> HIDE DEF ofBranch
  <2>5. ReportedPr(loop.run, loop.verdict) \in {0, Max(ofBranch)}
    BY DEF ReportedPr, ofBranch
  <2> QED BY <1>1, <2>4, <2>5
<1>4. CASE ~(loop.verdict \in Asks /\ Pushed(loop.run))
  <2>1. loop.run \in Range(branches[runs[loop.run].branch]) => Pushed(loop.run)
    BY DEF Range, Pushed
  <2>2. ReportedPr(loop.run, loop.verdict) = 0
    BY <1>4, <2>1 DEF ReportedPr, Asks
  <2> QED BY <1>1, <1>2, <2>2
<1> QED BY <1>3, <1>4

\* The outcome of a run that ended is written.
LEMMA CheckWriteStep ==
  ASSUME RunsInv, CheckWrite
  PROVE  RunsInv'
<1>1. /\ loop.pc = "ended" /\ RunOnly /\ budget' = budget /\ jobs' = jobs /\ prs' = prs
      /\ loop' = [loop EXCEPT !.pc = "check"]
  BY DEF CheckWrite, RunOnly, prVars
<1> DEFINE pr == ReportedPr(loop.run, loop.verdict)
<1>2. loop.run \in DOMAIN runs /\ loop.verdict \in Outcomes /\ pr \in 0..Len(prs) /\ pr \in Nat
  BY <1>1, ReportedThere
<1>3. runs \in Seq(RunRows)
  BY DEF RunsInv, Shaped, RowsOK
<1>4. runs' = Ended(loop.run, loop.verdict, pr) \/ runs' = runs
  BY DEF CheckWrite
<1> HIDE DEF pr
<1>5. SameRows
  <2>1. CASE runs' = Ended(loop.run, loop.verdict, pr)
    <3>1. Moves(loop.run, loop.verdict, runs[loop.run].named, pr)
      BY <1>2, <1>3, <2>1, EndMoves
    <3> QED BY <1>1, <1>2, <3>1, MovedRows
  <2>2. CASE runs' = runs
    BY <1>1, <2>2, RowsKept
  <2> QED BY <1>4, <2>1, <2>2
<1>6. LoopOK' /\ loop'.pc = "check"
  BY <1>1, <1>5, LoopGoes DEF SameRows
<1>7. Started' /\ VerdictSound'
  BY <1>6, NothingHeld DEF Starting
<1>8. SameJobs /\ budget' \in [Events -> Nat]
  BY <1>1, Unwritten
<1> QED BY <1>1, <1>5, <1>6, <1>7, <1>8, RunOnlyStep

\* The loop takes the oldest of its queue.
LEMMA NextQueued ==
  ASSUME RunsInv, loop.queue # {}
  PROVE  Min(loop.queue) \in loop.queue /\ Min(loop.queue) \in DOMAIN runs
<1>1. loop.queue \subseteq DOMAIN runs /\ loop.queue \in SUBSET Nat
  BY RunExists DEF RunsInv, Shaped, LoopOK
<1>2. Min(loop.queue) \in loop.queue
  BY <1>1, LeastOf
<1> QED BY <1>1, <1>2

\* It starts it with the prompt it was queued with, passes it over, or ends it.
LEMMA StartReadStep ==
  ASSUME RunsInv, StartRead
  PROVE  RunsInv'
<1> DEFINE r == Min(loop.queue)
<1>1. /\ loop.pc = "start" /\ loop.queue # {} /\ RunOnly /\ budget' = budget /\ jobs' = jobs /\ prs' = prs
      /\ branches' = branches
  BY DEF StartRead, RunOnly, prVars
<1>2. r \in loop.queue /\ r \in DOMAIN runs /\ r \in Nat /\ r \in 0..Len(runs)
  BY <1>1, NextQueued, RunExists
<1>3. loop \in LoopRows /\ loop.todo \subseteq DOMAIN runs /\ loop.queue \subseteq DOMAIN runs
      /\ loop.run \in 0..Len(runs) /\ runs \in Seq(RunRows)
  BY DEF RunsInv, Shaped, LoopOK, RowsOK
<1>4. SameJobs /\ budget' \in [Events -> Nat]
  BY <1>1, Unwritten
<1>5. \/ /\ loop' = [loop EXCEPT !.queue = loop.queue \ {r}]
         /\ runs' = runs \/ runs' = Ended(r, "failed", 0)
      \/ /\ runs[r].state = "queued" /\ items[runs[r].item].prompt = runs[r].prompt
         /\ loop' = [loop EXCEPT !.pc = "mint", !.queue = loop.queue \ {r}, !.run = r,
                                 !.prompt = items[runs[r].item].prompt]
         /\ runs' = runs
  BY DEF StartRead
<1> HIDE DEF r
<1>6. ASSUME runs' = runs \/ runs' = Ended(r, "failed", 0) PROVE SameRows
  <2>1. CASE runs' = runs
    BY <1>1, <2>1, RowsKept
  <2>2. CASE runs' = Ended(r, "failed", 0)
    <3>1. "failed" \in Outcomes /\ 0 \in Nat /\ 0 \in 0..Len(prs)
      BY DEF Outcomes, RunsInv, Shaped, GitOK
    <3>2. Moves(r, "failed", runs[r].named, 0)
      BY <1>2, <1>3, <2>2, <3>1, EndMoves
    <3> QED BY <1>1, <1>2, <3>1, <3>2, MovedRows
  <2> QED BY <1>6, <2>1, <2>2
<1>7. CASE loop' = [loop EXCEPT !.queue = loop.queue \ {r}] /\ (runs' = runs \/ runs' = Ended(r, "failed", 0))
  <2>1. /\ loop' \in LoopRows /\ loop'.pc = "start" /\ loop'.queue = loop.queue \ {r}
        /\ loop'.todo = loop.todo /\ loop'.run = loop.run
    BY <1>1, <1>3, <1>7 DEF LoopRows
  <2>2. SameRows
    BY <1>6, <1>7
  <2>3. LoopOK' /\ Started' /\ VerdictSound'
    BY <1>3, <2>1, <2>2, NothingHeld DEF LoopOK, SameRows, Starting
  <2> QED BY <1>1, <1>4, <2>2, <2>3, RunOnlyStep
<1>8. CASE /\ runs[r].state = "queued" /\ items[runs[r].item].prompt = runs[r].prompt
           /\ loop' = [loop EXCEPT !.pc = "mint", !.queue = loop.queue \ {r}, !.run = r,
                                   !.prompt = items[runs[r].item].prompt]
           /\ runs' = runs
  <2>1. runs[r].prompt \in Prompts
    BY <1>2, RunExists DEF RunRows
  <2>2. /\ loop' \in LoopRows /\ loop'.pc = "mint" /\ loop'.queue = loop.queue \ {r}
        /\ loop'.todo = loop.todo /\ loop'.run = r /\ loop'.prompt = runs[r].prompt
    BY <1>2, <1>3, <1>8, <2>1 DEF LoopRows
  <2>3. SameRows
    BY <1>6, <1>8
  <2>4. LoopOK' /\ Started' /\ VerdictSound'
    BY <1>2, <1>3, <1>8, <2>2 DEF LoopOK, Starting, Started, VerdictSound
  <2> QED BY <1>1, <1>4, <2>3, <2>4, RunOnlyStep
<1> QED BY <1>5, <1>7, <1>8

\* A run that is being started, and its Job.
LEMMA RunStarted ==
  ASSUME RunsInv, loop.pc \in Starting
  PROVE  /\ loop.run \in DOMAIN runs /\ loop.run \in Runs /\ runs[loop.run].state = "queued"
         /\ loop.prompt = runs[loop.run].prompt /\ runs[loop.run].prompt \in Prompts
         /\ jobs[loop.run] \in JobRows /\ runs \in Seq(RunRows)
<1>1. loop.run \in DOMAIN runs /\ runs[loop.run].state = "queued" /\ loop.prompt = runs[loop.run].prompt
  BY DEF RunsInv, Started
<1>2. runs \in Seq(RunRows)
  BY DEF RunsInv, Shaped, RowsOK
<1> QED BY <1>1, <1>2, RunExists DEF RunRows

\* A Secret is no part of what a Job reports.
LEMMA SecretMoves ==
  ASSUME RunsInv, NEW r \in DOMAIN runs, NEW secret \in BOOLEAN,
         jobs' = [jobs EXCEPT ![r].secret = secret]
  PROVE  SameJobs
<1> DEFINE row == [jobs[r] EXCEPT !.secret = secret]
<1>1. jobs[r] \in JobRows
  BY RunExists
<1>2. /\ row \in JobRows /\ row.prompt = jobs[r].prompt /\ row.phase = jobs[r].phase
      /\ row.result = jobs[r].result
  BY <1>1 DEF JobRows
<1>3. jobs' = [jobs EXCEPT ![r] = row]
  OBVIOUS
<1> HIDE DEF row
<1> QED BY <1>2, <1>3, MovedJobs

\* A run is started: its Secret, its Job and its row.
LEMMA StartSecretStep ==
  ASSUME RunsInv, StartSecret
  PROVE  RunsInv'
<1>1. /\ loop.pc = "mint" /\ RunOnly /\ budget' = budget /\ runs' = runs /\ prs' = prs
      /\ loop' = [loop EXCEPT !.pc = "secret"]
  BY DEF StartSecret, RunOnly, prVars
<1> DEFINE yes == TRUE
<1>2. yes \in BOOLEAN /\ jobs' = [jobs EXCEPT ![loop.run].secret = yes]
  BY DEF StartSecret
<1> HIDE DEF yes
<1>3. loop.run \in DOMAIN runs /\ runs[loop.run].state = "queued" /\ loop.prompt = runs[loop.run].prompt
  BY <1>1, RunStarted DEF Starting
<1>4. SameRows /\ budget' \in [Events -> Nat]
  BY <1>1, RowsKept, Unwritten
<1>5. SameJobs
  BY <1>2, <1>3, SecretMoves
<1>6. LoopOK' /\ loop'.pc = "secret" /\ loop'.run = loop.run /\ loop'.prompt = loop.prompt
  BY <1>1, LoopGoes
<1>7. Started' /\ VerdictSound'
  BY <1>1, <1>3, <1>6 DEF Started, VerdictSound
<1> QED BY <1>1, <1>4, <1>5, <1>6, <1>7, RunOnlyStep

\* The Job carries the prompt the run was queued with.
LEMMA StartJobStep ==
  ASSUME RunsInv, StartJob
  PROVE  RunsInv'
<1>1. /\ loop.pc = "secret" /\ RunOnly /\ budget' = budget /\ runs' = runs /\ prs' = prs
      /\ loop' = [loop EXCEPT !.pc = "job"] /\ jobs[loop.run].phase = None
  BY DEF StartJob, RunOnly, prVars
<1>2. /\ loop.run \in DOMAIN runs /\ runs[loop.run].state = "queued" /\ loop.prompt = runs[loop.run].prompt
      /\ runs[loop.run].prompt \in Prompts /\ jobs[loop.run] \in JobRows
  BY <1>1, RunStarted DEF Starting
<1>3. SameRows /\ budget' \in [Events -> Nat]
  BY <1>1, RowsKept, Unwritten
<1> DEFINE first == [jobs[loop.run] EXCEPT !.phase = "created"]
           row == [first EXCEPT !.prompt = loop.prompt]
<1>4. first \in JobRows /\ first.phase = "created"
  BY <1>2 DEF JobRows, Phases
<1>5. jobs' = [jobs EXCEPT ![loop.run] = row]
  BY DEF StartJob
<1> HIDE DEF first
<1>6. row \in JobRows /\ row.phase = "created" /\ row.prompt = runs[loop.run].prompt
  BY <1>2, <1>4 DEF JobRows
<1> HIDE DEF row
<1>7. SameJobs
  BY <1>1, <1>2, <1>5, <1>6, MovedJobs DEF Before
<1>8. LoopOK' /\ loop'.pc = "job" /\ loop'.run = loop.run /\ loop'.prompt = loop.prompt
  BY <1>1, LoopGoes
<1>9. Started' /\ VerdictSound'
  BY <1>1, <1>2, <1>8 DEF Started, VerdictSound
<1> QED BY <1>1, <1>3, <1>7, <1>8, <1>9, RunOnlyStep

\* The row of a run that started.
LEMMA StartCommitStep ==
  ASSUME RunsInv, StartCommit
  PROVE  RunsInv'
<1>1. /\ loop.pc = "job" /\ RunOnly /\ budget' = budget /\ jobs' = jobs /\ prs' = prs
      /\ loop' = [loop EXCEPT !.pc = "start"]
      /\ runs' = [runs EXCEPT ![loop.run].state = "running", ![loop.run].named = TRUE]
  BY DEF StartCommit, RunOnly, prVars
<1>2. loop.run \in DOMAIN runs /\ runs \in Seq(RunRows)
  BY <1>1, RunStarted DEF Starting
<1>3. PICK named \in BOOLEAN : Moves(loop.run, "running", named, runs[loop.run].pr)
  BY <1>1, <1>2, CommitMoves
<1>4. runs[loop.run].pr \in 0..Len(prs)
  BY <1>2 DEF RunsInv, Shaped, RowsOK
<1>5. SameRows
  BY <1>1, <1>2, <1>3, <1>4, MovedRows
<1>6. SameJobs /\ budget' \in [Events -> Nat]
  BY <1>1, Unwritten
<1>7. LoopOK' /\ loop'.pc = "start"
  BY <1>1, <1>5, LoopGoes DEF SameRows
<1>8. Started' /\ VerdictSound'
  BY <1>7, NothingHeld DEF Starting
<1> QED BY <1>1, <1>5, <1>6, <1>7, <1>8, RunOnlyStep

\* A start that fails ends the run.
LEMMA StartFailsStep ==
  ASSUME RunsInv, MintFails \/ StartRefused
  PROVE  RunsInv'
<1>1. /\ loop.pc \in Starting /\ RunOnly /\ prs' = prs
      /\ loop' = [loop EXCEPT !.pc = "start"] /\ runs' = Ended(loop.run, "failed", 0)
      /\ budget' = budget \/ Spend("refused")
      /\ jobs' = jobs \/ (\E kept \in BOOLEAN :
                            jobs' = [jobs EXCEPT ![loop.run].secret = jobs[loop.run].secret /\ kept])
  BY DEF MintFails, StartRefused, Starting, RunOnly, prVars
<1>2. loop.run \in DOMAIN runs /\ runs \in Seq(RunRows) /\ jobs[loop.run] \in JobRows
  BY <1>1, RunStarted
<1>3. "failed" \in Outcomes /\ 0 \in Nat /\ 0 \in 0..Len(prs)
  BY DEF Outcomes, RunsInv, Shaped, GitOK
<1>4. Moves(loop.run, "failed", runs[loop.run].named, 0)
  BY <1>1, <1>2, <1>3, EndMoves
<1>5. SameRows
  BY <1>1, <1>2, <1>3, <1>4, MovedRows
<1>6. SameJobs
  <2>1. CASE jobs' = jobs
    BY <2>1, Unwritten
  <2>2. ASSUME NEW kept \in BOOLEAN,
               jobs' = [jobs EXCEPT ![loop.run].secret = jobs[loop.run].secret /\ kept]
        PROVE  SameJobs
    <3> DEFINE secret == jobs[loop.run].secret /\ kept
    <3>1. secret \in BOOLEAN
      OBVIOUS
    <3>2. jobs' = [jobs EXCEPT ![loop.run].secret = secret]
      BY <2>2
    <3> HIDE DEF secret
    <3> QED BY <1>2, <3>1, <3>2, SecretMoves
  <2> QED BY <1>1, <2>1, <2>2
<1>7. budget' \in [Events -> Nat]
  BY <1>1, SpendCounts, Unwritten DEF RunsInv, Shaped, Events
<1>8. LoopOK' /\ loop'.pc = "start"
  BY <1>1, <1>5, LoopGoes DEF SameRows
<1>9. Started' /\ VerdictSound'
  BY <1>8, NothingHeld DEF Starting
<1> QED BY <1>1, <1>5, <1>6, <1>7, <1>8, <1>9, RunOnlyStep

\* Cancellations and the runner's steps leave the loop alone.
LEMMA CancelStep ==
  ASSUME RunsInv, NEW r \in Runs, Cancel(r)
  PROVE  RunsInv'
<1>1. /\ RunOnly /\ loop' = loop /\ prs' = prs /\ branches' = branches
      /\ r \in DOMAIN runs /\ r \notin RunLock /\ Spend("cancel")
      /\ runs' = [runs EXCEPT ![r].state = "cancelled"]
      /\ jobs' = jobs \/ jobs' = [jobs EXCEPT ![r].phase = "gone"]
  BY DEF Cancel, RunOnly, prVars
<1>2. runs \in Seq(RunRows) /\ runs[r].pr \in 0..Len(prs)
  BY <1>1 DEF RunsInv, Shaped, RowsOK
<1>3. Moves(r, "cancelled", runs[r].named, runs[r].pr)
  BY <1>1, <1>2, CancelMoves
<1>4. SameRows
  BY <1>1, <1>2, <1>3, MovedRows
<1>5. "gone" \in Phases /\ "gone" # "reported" /\ "gone" \notin Before
  BY DEF Phases, Before, None
<1>6. SameJobs
  BY <1>1, <1>5, PhaseMoves, Unwritten
<1>7. SamePrs
  BY <1>1, Unwritten
<1>8. loop.pc \in Starting => runs'[loop.run].state = runs[loop.run].state
  BY <1>1, <1>3, RunStarted DEF RunLock, Starting, Moves
<1>9. LoopOK' /\ Started' /\ VerdictSound'
  BY <1>1, <1>4, <1>6, <1>7, <1>8, LoopKept
<1>10. budget' \in [Events -> Nat]
  BY <1>1, SpendCounts DEF RunsInv, Shaped, Events
<1> QED BY <1>1, <1>4, <1>6, <1>9, <1>10, RunOnlyStep

\* A step of a Job, which the loop has not read.
LEMMA JobOnlyStep ==
  ASSUME RunsInv, RunOnly, loop' = loop, runs' = runs, SameJobs, budget' \in [Events -> Nat]
  PROVE  RunsInv'
<1>1. prs' = prs /\ branches' = branches
  BY DEF RunOnly, prVars
<1>2. SameRows /\ SamePrs
  BY <1>1, RowsKept, Unwritten
<1>3. LoopOK' /\ Started' /\ VerdictSound'
  BY <1>1, <1>2, LoopKept
<1> QED BY <1>2, <1>3, RunOnlyStep

\* A Job is one of a run that is there.
LEMMA JobThere ==
  ASSUME RunsInv, NEW r \in Runs, jobs[r].phase # None
  PROVE  r \in DOMAIN runs /\ jobs[r] \in JobRows
<1>1. r \in DOMAIN runs
  BY DEF RunsInv, CarryApproved
<1> QED BY <1>1, RunExists

\* A Job that is deleted, expires or fails.
LEMMA JobPhaseStep ==
  ASSUME RunsInv, NEW r \in Runs, CancelLost(r) \/ JobEnds(r)
  PROVE  RunsInv'
<1>1. /\ RunOnly /\ loop' = loop /\ runs' = runs /\ r \in DOMAIN runs
      /\ budget' = budget \/ Spend("lost") \/ Spend("refused")
      /\ \E phase \in {"gone", "expired", "failed"} : jobs' = [jobs EXCEPT ![r].phase = phase]
  BY JobThere DEF CancelLost, JobEnds, RunOnly, prVars, None
<1>2. PICK phase \in {"gone", "expired", "failed"} : jobs' = [jobs EXCEPT ![r].phase = phase]
  BY <1>1
<1>3. phase \in Phases /\ phase # "reported" /\ phase \notin Before
  BY DEF Phases, Before, None
<1>4. SameJobs
  BY <1>1, <1>2, <1>3, PhaseMoves
<1>5. budget' \in [Events -> Nat]
  BY <1>1, SpendCounts, Unwritten DEF RunsInv, Shaped, Events
<1> QED BY <1>1, <1>4, <1>5, JobOnlyStep

\* The runner takes the branch as it is.
LEMMA PrepareStep ==
  ASSUME RunsInv, NEW r \in Runs, Prepare(r)
  PROVE  RunsInv'
<1>1. /\ RunOnly /\ loop' = loop /\ runs' = runs /\ budget' = budget /\ jobs[r].phase = "created"
      /\ jobs' = [jobs EXCEPT ![r].phase = "prepared", ![r].base = branches[runs[r].branch]]
  BY DEF Prepare, RunOnly, prVars
<1>2. r \in DOMAIN runs /\ jobs[r] \in JobRows
  BY <1>1, JobThere DEF None
<1>3. branches[runs[r].branch] \in Seq(Nat)
  BY <1>2, RunExists DEF RunsInv, Shaped, GitOK
<1> DEFINE first == [jobs[r] EXCEPT !.phase = "prepared"]
           row == [first EXCEPT !.base = branches[runs[r].branch]]
<1>4. first \in JobRows /\ first.phase = "prepared" /\ first.prompt = jobs[r].prompt
  BY <1>2 DEF JobRows, Phases
<1>5. jobs' = [jobs EXCEPT ![r] = row]
  BY <1>1
<1> HIDE DEF first
<1>6. row \in JobRows /\ row.phase = "prepared" /\ row.prompt = jobs[r].prompt
  BY <1>3, <1>4 DEF JobRows
<1> HIDE DEF row
<1>7. SameJobs
  BY <1>1, <1>2, <1>5, <1>6, MovedJobs DEF Before
<1>8. budget' \in [Events -> Nat]
  BY <1>1, Unwritten
<1> QED BY <1>1, <1>7, <1>8, JobOnlyStep

\* Claude answers.
LEMMA ClaudeStep ==
  ASSUME RunsInv, NEW r \in Runs, Claude(r)
  PROVE  RunsInv'
<1>1. /\ RunOnly /\ loop' = loop /\ runs' = runs /\ budget' = budget /\ jobs[r].phase = "prepared"
      /\ \E result \in Results : jobs' = [jobs EXCEPT ![r].phase = "answered", ![r].result = result]
  BY DEF Claude, RunOnly, prVars
<1>2. PICK result \in Results : jobs' = [jobs EXCEPT ![r].phase = "answered", ![r].result = result]
  BY <1>1
<1>3. r \in DOMAIN runs /\ jobs[r] \in JobRows
  BY <1>1, JobThere DEF None
<1> DEFINE first == [jobs[r] EXCEPT !.phase = "answered"]
           row == [first EXCEPT !.result = result]
<1>4. first \in JobRows /\ first.phase = "answered" /\ first.prompt = jobs[r].prompt
  BY <1>3 DEF JobRows, Phases
<1>5. jobs' = [jobs EXCEPT ![r] = row]
  BY <1>2
<1> HIDE DEF first
<1>6. row \in JobRows /\ row.phase = "answered" /\ row.prompt = jobs[r].prompt
  BY <1>4 DEF JobRows
<1> HIDE DEF row
<1>7. SameJobs
  BY <1>1, <1>3, <1>5, <1>6, MovedJobs DEF Before
<1>8. budget' \in [Events -> Nat]
  BY <1>1, Unwritten
<1> QED BY <1>1, <1>7, <1>8, JobOnlyStep

\* Steps beside the runs: pull requests, the watch, the gate and the items themselves.
LEMMA AsideStep ==
  ASSUME RunsInv, UNCHANGED <<runs, jobs, branches>>, SamePrs, approvals \subseteq approvals', RequestsOK',
         loop' = loop \/ loop' = Idle, budget' \in [Events -> Nat],
         watch' \subseteq [item : Items, known : Nat], closedBy' \in [Items -> SUBSET DOMAIN prs']
  PROVE  RunsInv'
<1>1. prs' \in Seq(PrRows) /\ Len(prs) <= Len(prs')
  BY DEF SamePrs
<1>2. SameRows /\ SameJobs
  BY <1>1, Unwritten
<1>3. LoopOK' /\ Started' /\ VerdictSound'
  <2>1. CASE loop' = loop
    BY <1>2, <2>1, LoopKept
  <2>2. CASE loop' = Idle
    BY <2>2, LoopIdle, RunExists
  <2> QED BY <2>1, <2>2
<1> QED BY <1>2, <1>3, FrameStep DEF Frame

\* A pull request from outside is on no run's branch.
LEMMA OutsidePrStep ==
  ASSUME RunsInv, NEW i \in Items, OutsidePr(i)
  PROVE  RunsInv'
<1> DEFINE row == [item |-> i, branch |-> 0, state |-> "open"]
<1>1. /\ UNCHANGED <<runs, jobs, branches>> /\ loop' = loop /\ UNCHANGED <<requests, approvals>>
      /\ UNCHANGED <<watch, closedBy>> /\ prs' = Append(prs, row) /\ Spend("outside")
  BY DEF OutsidePr, workVars, runVars
<1>2. row \in PrRows /\ row.branch = 0
  BY DEF PrRows
<1> HIDE DEF row
<1>3. prs \in Seq(PrRows) /\ closedBy \in [Items -> SUBSET DOMAIN prs] /\ watch \subseteq [item : Items, known : Nat]
      /\ \A p \in DOMAIN prs : prs[p].branch \in 0..Len(runs)
  BY DEF RunsInv, Shaped, GitOK
<1>4. /\ prs' \in Seq(PrRows) /\ Len(prs') = Len(prs) + 1 /\ DOMAIN prs = 1..Len(prs)
      /\ DOMAIN prs' = 1..Len(prs') /\ Len(prs) \in Nat
      /\ \A p \in DOMAIN prs : prs'[p] = prs[p]
  BY <1>1, <1>2, <1>3
<1>5. prs'[Len(prs) + 1] = row
  BY <1>1, <1>2, <1>3
<1>6. SamePrs
  BY <1>2, <1>3, <1>4, <1>5, RunExists DEF SamePrs
<1>7. closedBy' \in [Items -> SUBSET DOMAIN prs']
  BY <1>1, <1>3, <1>4
<1>8. RequestsOK' /\ budget' \in [Events -> Nat]
  BY <1>1, Unwritten, SpendCounts DEF RunsInv, Shaped, Events
<1> QED BY <1>1, <1>3, <1>6, <1>7, <1>8, AsideStep

\* A pull request that merges stays on its branch.
LEMMA MergePrStep ==
  ASSUME RunsInv, NEW p \in DOMAIN prs, MergePr(p)
  PROVE  RunsInv'
<1> DEFINE row == [prs[p] EXCEPT !.state = "merged"]
<1>1. /\ UNCHANGED <<runs, jobs, branches>> /\ loop' = loop /\ UNCHANGED <<requests, approvals>>
      /\ UNCHANGED <<watch, closedBy>> /\ prs' = [prs EXCEPT ![p] = row] /\ Spend("mergepr")
  BY DEF MergePr, workVars, runVars
<1>2. prs \in Seq(PrRows) /\ closedBy \in [Items -> SUBSET DOMAIN prs] /\ watch \subseteq [item : Items, known : Nat]
      /\ \A q \in DOMAIN prs : prs[q].branch \in 0..Len(runs)
  BY DEF RunsInv, Shaped, GitOK
<1>3. prs[p] \in PrRows
  BY <1>2
<1>4. row \in PrRows /\ row.branch = prs[p].branch
  BY <1>3 DEF PrRows
<1> HIDE DEF row
<1>5. /\ prs' \in Seq(PrRows) /\ Len(prs') = Len(prs) /\ DOMAIN prs' = DOMAIN prs
      /\ \A q \in DOMAIN prs : prs'[q].branch = prs[q].branch
  BY <1>1, <1>2, <1>4
<1>6. Len(prs) \in Nat
  BY <1>2
<1>7. SamePrs
  BY <1>2, <1>5, <1>6 DEF SamePrs
<1>8. RequestsOK' /\ budget' \in [Events -> Nat]
  BY <1>1, Unwritten, SpendCounts DEF RunsInv, Shaped, Events
<1> QED BY <1>1, <1>2, <1>5, <1>7, <1>8, AsideStep

\* The watch reads the items, and closes one.
LEMMA WatchStep ==
  ASSUME RunsInv, ItemsInv, WatchRead \/ (\E w \in watch : WatchClose(w))
  PROVE  RunsInv'
<1>1. /\ UNCHANGED <<runs, jobs, branches>> /\ loop' = loop /\ UNCHANGED <<requests, approvals>> /\ prs' = prs
      /\ budget' = budget
  BY DEF WatchRead, WatchClose, workVars, runVars
<1>2. watch \subseteq [item : Items, known : Nat] /\ closedBy \in [Items -> SUBSET DOMAIN prs]
  BY DEF RunsInv, Shaped, GitOK
<1>3. SamePrs /\ RequestsOK' /\ budget' \in [Events -> Nat]
  BY <1>1, Unwritten
<1>4. watch' \subseteq [item : Items, known : Nat] /\ closedBy' \in [Items -> SUBSET DOMAIN prs']
  <2>1. CASE WatchRead
    <3>1. items \in [Items -> ItemRows]
      BY DEF ItemsInv, WorkTypeOK
    <3>2. \A i \in Items : items[i].mergedPr \in Nat
      BY <3>1 DEF ItemRows
    <3>3. /\ watch' = {[item |-> i, known |-> items[i].mergedPr] :
                         i \in {j \in Items : items[j].state = "approved"}}
          /\ closedBy' = closedBy
      BY <2>1 DEF WatchRead
    <3>4. watch' \subseteq [item : Items, known : Nat]
      BY <3>2, <3>3
    <3> QED BY <1>1, <1>2, <3>3, <3>4
  <2>2. ASSUME NEW w \in watch, WatchClose(w)
        PROVE  watch' \subseteq [item : Items, known : Nat] /\ closedBy' \in [Items -> SUBSET DOMAIN prs']
    <3>1. w.item \in Items /\ watch' = watch \ {w}
      BY <1>2, <2>2 DEF WatchClose
    <3>2. \/ closedBy' = closedBy
          \/ \E p \in DOMAIN prs : closedBy' = [closedBy EXCEPT ![w.item] = closedBy[w.item] \cup {p}]
      BY <2>2 DEF WatchClose, Merged
    <3>3. closedBy' \in [Items -> SUBSET DOMAIN prs]
      BY <1>2, <3>1, <3>2
    <3> QED BY <1>1, <1>2, <3>1, <3>3
  <2> QED BY <2>1, <2>2
<1> QED BY <1>1, <1>3, <1>4, AsideStep

\* The gate captures a prompt that was approved.
LEMMA GateStep ==
  ASSUME RunsInv, ItemsInv, NEW i \in Items, NEW guided \in BOOLEAN, Gate(i, guided)
  PROVE  RunsInv'
<1> DEFINE q == [id |-> budget["request"], item |-> i, guided |-> guided, prompt |-> items[i].prompt]
<1>1. /\ UNCHANGED <<runs, jobs, branches>> /\ loop' = loop /\ approvals' = approvals
      /\ UNCHANGED <<prs, watch, closedBy>> /\ prs' = prs /\ items[i].prompt # NoPrompt
      /\ requests' = requests \cup {q} /\ Spend("request")
  BY DEF Gate, workVars, prVars
<1>2. /\ items \in [Items -> ItemRows] /\ <<i, items[i].prompt>> \in approvals
  BY <1>1 DEF ItemsInv, WorkTypeOK, FrozenApproved
<1>3. items[i].prompt \in Prompts /\ budget["request"] \in Nat
  BY <1>2 DEF ItemRows, Prompts, RunsInv, Shaped, Events
<1>4. /\ q \in [id : Nat, item : Items, guided : BOOLEAN, prompt : Prompts]
      /\ q.item = i /\ q.prompt = items[i].prompt
  BY <1>3
<1> HIDE DEF q
<1>5. RequestsOK
  BY DEF RunsInv, Shaped
<1>6. RequestsOK'
  BY <1>1, <1>2, <1>4, <1>5 DEF RequestsOK
<1>7. SamePrs /\ watch' \subseteq [item : Items, known : Nat] /\ closedBy' \in [Items -> SUBSET DOMAIN prs']
  BY <1>1, Unwritten
<1>8. budget' \in [Events -> Nat]
  BY <1>1, SpendCounts DEF RunsInv, Shaped, Events
<1> QED BY <1>1, <1>6, <1>7, <1>8, AsideStep

\* A death of the process loses the requests and the loop.
LEMMA CrashStep ==
  ASSUME RunsInv, Crash
  PROVE  RunsInv'
<1>1. /\ UNCHANGED <<runs, jobs, branches>> /\ loop' = Idle /\ approvals' = approvals
      /\ prs' = prs /\ closedBy' = closedBy /\ requests' = {} /\ watch' = {} /\ Spend("crash")
  BY DEF Crash
<1>2. RequestsOK'
  BY <1>1 DEF RequestsOK
<1>3. SamePrs
  BY <1>1, Unwritten
<1>4. closedBy' \in [Items -> SUBSET DOMAIN prs'] /\ watch' \subseteq [item : Items, known : Nat]
  BY <1>1 DEF RunsInv, Shaped, GitOK
<1>5. budget' \in [Events -> Nat]
  BY <1>1, SpendCounts DEF RunsInv, Shaped, Events
<1> QED BY <1>1, <1>2, <1>3, <1>4, <1>5, AsideStep

\* The items' own steps only add to the approvals.
LEMMA WorkAside ==
  ASSUME budget \in [Events -> Nat], WorkNext
  PROVE  approvals \subseteq approvals' /\ budget' \in [Events -> Nat] /\ \A e \in Events : budget[e] <= budget'[e]
<1> DEFINE Calls == \E event \in Events : Spend(event)
<1>1. approvals \subseteq approvals' /\ (budget' = budget \/ Calls)
  <2>1. CASE (\E l \in Lines : Hear(l)) \/ PassRead \/ PassFails \/ PassLocks \/ PassStored
    BY <2>1 DEF Hear, PassRead, PassFails, PassLocks, PassStored, Events
  <2>2. ASSUME NEW up, Upsert(up) PROVE approvals \subseteq approvals' /\ Calls
    BY <2>2 DEF Upsert, Events
  <2>3. ASSUME NEW i \in Items,
               Approve(i) \/ Unapprove(i) \/ Discard(i) \/ Restore(i) \/ Done(i) \/ Reopen(i)
        PROVE  approvals \subseteq approvals' /\ Calls
    BY <2>3 DEF Approve, Unapprove, Discard, Restore, Done, Reopen, Events
  <2>4. ASSUME NEW i \in Items, NEW text \in Texts, Edit(i, text) PROVE approvals \subseteq approvals' /\ Calls
    BY <2>4 DEF Edit, Events
  <2>5. ASSUME NEW i \in Items, NEW from \in SUBSET Items, Merge(i, from)
        PROVE  approvals \subseteq approvals' /\ Calls
    BY <2>5 DEF Merge, Events
  <2> HIDE DEF Calls
  <2> QED BY <2>1, <2>2, <2>3, <2>4, <2>5 DEF WorkNext
<1>2. CASE budget' = budget
  BY <1>1, <1>2
<1>3. CASE Calls
  BY <1>1, <1>3, SpendCounts
<1> QED BY <1>1, <1>2, <1>3

\* The items' own steps leave the runs alone.
LEMMA WorkRuns ==
  ASSUME RunsInv, WorkNext, UNCHANGED <<runVars, prVars>>
  PROVE  RunsInv'
<1>1. /\ UNCHANGED <<runs, jobs, branches>> /\ loop' = loop /\ requests' = requests
      /\ UNCHANGED <<prs, watch, closedBy>> /\ prs' = prs
  BY DEF runVars, prVars
<1>2. budget \in [Events -> Nat]
  BY DEF RunsInv, Shaped
<1>3. approvals \subseteq approvals' /\ budget' \in [Events -> Nat]
  BY <1>2, WorkAside
<1>4. RequestsOK'
  BY <1>1, <1>3 DEF RunsInv, Shaped, RequestsOK
<1>5. SamePrs /\ watch' \subseteq [item : Items, known : Nat] /\ closedBy' \in [Items -> SUBSET DOMAIN prs']
  BY <1>1, Unwritten
<1> QED BY <1>1, <1>3, <1>4, <1>5, AsideStep
-----------------------------------------------------------------------------
(* Steps that make a run, or write a branch *)

\* A branch is that of a run of the item, or one of its own.
LEMMA QueuedBranch ==
  ASSUME RunsInv, NEW q \in requests, ~Refuses(q)
  PROVE  (IF q.guided THEN runs[Max(RunsOf(q.item))].branch ELSE Len(runs) + 1) \in 1..(Len(runs) + 1)
<1>1. DOMAIN runs = 1..Len(runs) /\ Len(runs) \in Nat
  BY RunExists
<1>2. \A r \in DOMAIN runs : runs[r].branch \in 1..r
  BY DEF RunsInv, Shaped, RowsOK
<1>3. ASSUME q.guided PROVE runs[Max(RunsOf(q.item))].branch \in 1..(Len(runs) + 1)
  <2>1. RunsOf(q.item) # {}
    BY <1>3 DEF Refuses
  <2>2. RunsOf(q.item) \in SUBSET Nat /\ RunsOf(q.item) \subseteq DOMAIN runs
    BY <1>1 DEF RunsOf
  <2>3. \A y \in RunsOf(q.item) : y <= Len(runs)
    BY <1>1, <2>2
  <2>4. Max(RunsOf(q.item)) \in DOMAIN runs
    BY <1>1, <2>1, <2>2, <2>3, GreatestOf
  <2> QED BY <1>1, <1>2, <2>4
<1> QED BY <1>1, <1>3

\* A request is queued with the prompt it was gated with.
LEMMA QueueStep ==
  ASSUME RunsInv, NEW q \in requests, Queue(q)
  PROVE  RunsInv'
<1>1. /\ UNCHANGED <<jobs, branches>> /\ loop' = loop /\ approvals' = approvals /\ budget' = budget
      /\ UNCHANGED <<prs, watch, closedBy>> /\ prs' = prs /\ requests' = requests \ {q}
  BY DEF Queue, workVars, prVars
<1>2. RequestsOK /\ LoopOK /\ RowsOK /\ GitOK /\ Started /\ CarryApproved /\ PushedReported /\ VerdictSound
      /\ jobs \in [Runs -> JobRows] /\ budget \in [Events -> Nat]
  BY DEF RunsInv, Shaped
<1>3. RequestsOK'
  BY <1>1, <1>2 DEF RequestsOK
<1>4. CASE runs' = runs
  <2>1. SamePrs /\ budget' \in [Events -> Nat]
        /\ watch' \subseteq [item : Items, known : Nat] /\ closedBy' \in [Items -> SUBSET DOMAIN prs']
    BY <1>1, Unwritten
  <2> QED BY <1>1, <1>3, <1>4, <2>1, AsideStep
<1>5. CASE runs' # runs
  <2>0. PICK new \in Nat : new = Len(runs) + 1
    BY RunExists
  <2> DEFINE branch == IF q.guided THEN runs[Max(RunsOf(q.item))].branch ELSE Len(runs) + 1
             no == FALSE
             row == [item |-> q.item, prompt |-> q.prompt, state |-> "queued", named |-> no, pr |-> 0,
                     branch |-> branch]
  <2>1. ~Refuses(q) /\ Len(runs) # MaxRuns /\ runs' = Append(runs, row)
    BY <1>5 DEF Queue
  <2>2. branch \in 1..new
    BY <2>0, <2>1, QueuedBranch
  <2>3. DOMAIN runs = 1..Len(runs) /\ Len(runs) \in Nat /\ MaxRuns \in Nat /\ Len(runs) <= MaxRuns
    BY <1>2, RunExists, DispatchBounds DEF RowsOK
  <2>4. q.item \in Items /\ q.prompt \in Prompts /\ <<q.item, q.prompt>> \in approvals
    BY <1>2 DEF RequestsOK
  <2>5. no \in BOOLEAN /\ "queued" \in Active /\ 0 \in Nat /\ branch \in Nat
    BY <2>2, <2>3 DEF Active
  <2> HIDE DEF branch, no
  <2>6. /\ row \in RunRows /\ row.item = q.item /\ row.prompt = q.prompt /\ row.branch = branch
        /\ row.pr = 0 /\ row.state = "queued"
    BY <2>4, <2>5 DEF RunRows
  <2> HIDE DEF row
  <2>7. /\ runs' \in Seq(RunRows) /\ Len(runs') = new /\ DOMAIN runs' = 1..new
        /\ runs'[new] = row /\ \A r \in DOMAIN runs : runs'[r] = runs[r]
    BY <1>2, <2>0, <2>1, <2>6 DEF RowsOK
  <2>8. new \in Runs \ DOMAIN runs /\ new <= MaxRuns /\ DOMAIN runs' = DOMAIN runs \cup {new} /\ new \in Nat
    <3>1. Len(runs) # MaxRuns
      BY <2>1
    <3>2. Len(runs) + 1 <= MaxRuns
      <4>1. ASSUME NEW n \in Nat, NEW m \in Nat, n <= m, n # m PROVE n + 1 <= m
        BY <4>1
      <4>2. Len(runs) \in Nat /\ MaxRuns \in Nat /\ Len(runs) <= MaxRuns
        BY <2>3
      <4> QED BY <3>1, <4>1, <4>2
    <3>3. new <= MaxRuns /\ new \in Runs
      BY <2>0, <2>3, <3>2 DEF Runs
    <3>4. new \notin DOMAIN runs /\ 1..new = 1..Len(runs) \cup {new}
      BY <2>0, <2>3
    <3> QED BY <2>3, <2>7, <3>3, <3>4
  <2>9. LoopOK'
    BY <1>1, <1>2, <2>0, <2>3, <2>7, <2>8 DEF LoopOK
  <2>10. RowsOK'
    <3>1. Len(prs) \in Nat /\ 0 \in 0..Len(prs)
      BY <1>2 DEF GitOK
    <3> QED BY <1>1, <1>2, <2>2, <2>6, <2>7, <2>8, <3>1 DEF RowsOK
  <2>11. GitOK'
    <3>1. \A b \in Runs : \A n \in DOMAIN branches[b] : branches[b][n] \in DOMAIN runs'
      BY <1>2, <2>8 DEF GitOK
    <3>2. \A p \in DOMAIN prs : prs[p].branch \in 0..Len(runs')
      BY <1>2, <2>0, <2>3, <2>7 DEF GitOK
    <3> QED BY <1>1, <1>2, <3>1, <3>2 DEF GitOK
  <2>12. Shaped'
    BY <1>1, <1>2, <1>3, <2>9, <2>10, <2>11 DEF Shaped
  <2>13. Started'
    BY <1>1, <1>2, <2>7, <2>8 DEF Started
  <2>14. CarryApproved'
    BY <1>1, <1>2, <2>4, <2>6, <2>7, <2>8 DEF CarryApproved
  <2>15. ASSUME NEW r \in DOMAIN runs PROVE (Pushed(r)' <=> Pushed(r)) /\ (HasPr(r)' <=> HasPr(r))
    BY <1>1, <2>7 DEF Pushed, HasPr
  <2>16. jobs'[new].phase = None /\ ~Pushed(new)'
    <3>1. jobs[new].phase = None
      BY <1>2, <2>8 DEF CarryApproved
    <3>2. branch \in Runs
      BY <2>2, <2>8, DispatchBounds DEF Runs
    <3>3. ASSUME NEW n \in DOMAIN branches[branch] PROVE branches[branch][n] # new
      BY <1>2, <2>8, <3>2 DEF GitOK
    <3>4. branches'[runs'[new].branch] = branches[branch]
      BY <1>1, <2>6, <2>7
    <3> QED BY <1>1, <3>1, <3>3, <3>4 DEF Pushed
  <2>17. PushedReported'
    <3>1. ASSUME NEW r \in DOMAIN runs'
          PROVE  /\ jobs'[r].phase \in Before => ~Pushed(r)'
                 /\ jobs'[r].phase = "reported" =>
                      /\ jobs'[r].result \in Outcomes
                      /\ jobs'[r].result \in Asks /\ Pushed(r)' => HasPr(r)'
      <4>1. CASE r = new
        BY <2>16, <4>1 DEF None
      <4>2. CASE r \in DOMAIN runs
        <5>1. /\ jobs[r].phase \in Before => ~Pushed(r)
              /\ jobs[r].phase = "reported" =>
                   jobs[r].result \in Outcomes /\ (jobs[r].result \in Asks /\ Pushed(r) => HasPr(r))
          BY <1>2, <4>2 DEF PushedReported
        <5> QED BY <1>1, <2>15, <4>2, <5>1
      <4> QED BY <2>8, <4>1, <4>2
    <3> QED BY <3>1 DEF PushedReported
  <2>18. VerdictSound'
    <3>1. SUFFICES ASSUME loop.pc = "ended"
                   PROVE  /\ loop.run \in DOMAIN runs' /\ loop.verdict \in Outcomes
                          /\ loop.verdict \in Asks =>
                               /\ jobs'[loop.run].phase \notin Before
                               /\ Pushed(loop.run)' => HasPr(loop.run)'
      BY <1>1 DEF VerdictSound
    <3>2. /\ loop.run \in DOMAIN runs /\ loop.verdict \in Outcomes
          /\ loop.verdict \in Asks =>
               /\ jobs[loop.run].phase \notin Before
               /\ Pushed(loop.run) => HasPr(loop.run)
      BY <1>2, <3>1 DEF VerdictSound
    <3>3. (Pushed(loop.run)' <=> Pushed(loop.run)) /\ (HasPr(loop.run)' <=> HasPr(loop.run))
      BY <1>1, <2>15, <3>2
    <3> QED BY <1>1, <2>8, <3>2, <3>3
  <2> QED BY <2>12, <2>13, <2>14, <2>17, <2>18 DEF RunsInv
<1> QED BY <1>4, <1>5

\* What a push may do: the Job reports, its branch takes the run, and the pull request is there.
Reports(r, outcome) == jobs' = [jobs EXCEPT ![r].phase = "reported", ![r].result = outcome]
Branch(r) == runs[r].branch

\* A push writes the branch and the pull request together with the report, or less and reports
\* that it failed.
LEMMA PushCases ==
  ASSUME RunsInv, NEW r \in DOMAIN runs, Push(r)
  PROVE  /\ UNCHANGED <<workVars, requests, runs, loop, watch, closedBy>> /\ jobs[r].phase = "answered"
         /\ budget' = budget \/ Spend("refused")
         /\ branches' = branches
            \/ branches' = [branches EXCEPT ![Branch(r)] = Append(branches[Branch(r)], r)]
         /\ prs' = prs \/ prs' = Append(prs, [item |-> runs[r].item, branch |-> Branch(r), state |-> "open"])
         /\ \E outcome \in Outcomes :
              /\ Reports(r, outcome)
              /\ outcome \in Asks => branches' = branches \/ (\E p \in DOMAIN prs' : prs'[p].branch = Branch(r))
<1>1. prs \in Seq(PrRows)
  BY DEF RunsInv, Shaped, GitOK
<1>2. UNCHANGED <<workVars, requests, runs, loop, watch, closedBy>> /\ jobs[r].phase = "answered"
  BY DEF Push
<1> DEFINE pr == [item |-> runs[r].item, branch |-> Branch(r), state |-> "open"]
           Goal == /\ budget' = budget \/ Spend("refused")
                   /\ branches' = branches
                      \/ branches' = [branches EXCEPT ![Branch(r)] = Append(branches[Branch(r)], r)]
                   /\ prs' = prs \/ prs' = Append(prs, pr)
                   /\ \E outcome \in Outcomes :
                        /\ Reports(r, outcome)
                        /\ outcome \in Asks =>
                             branches' = branches \/ (\E p \in DOMAIN prs' : prs'[p].branch = Branch(r))
<1>3. ASSUME jobs[r].result \in DOMAIN WithoutPatch, Reports(r, WithoutPatch[jobs[r].result]),
             UNCHANGED <<branches, prs, budget>>
      PROVE  Goal
  <2>1. WithoutPatch[jobs[r].result] \in Outcomes
    BY <1>3 DEF WithoutPatch, Outcomes
  <2> QED BY <1>3, <2>1
<1>4. ASSUME budget' = budget \/ Spend("refused"), Reports(r, "failed"), prs' = prs,
             branches' = branches
             \/ branches' = [branches EXCEPT ![Branch(r)] = Append(branches[Branch(r)], r)]
      PROVE  Goal
  <2>1. "failed" \in Outcomes /\ "failed" \notin Asks
    BY DEF Outcomes, Asks
  <2> QED BY <1>4, <2>1
<1>5. ASSUME branches' = [branches EXCEPT ![Branch(r)] = Append(branches[Branch(r)], r)],
             Reports(r, "pr_opened") \/ Reports(r, "needs_input"),
             prs' = (IF OpenPr(Branch(r)) # {} THEN prs ELSE Append(prs, pr)), budget' = budget
      PROVE  Goal
  <2>1. \E p \in DOMAIN prs' : prs'[p].branch = Branch(r)
    <3>1. CASE OpenPr(Branch(r)) # {}
      BY <1>5, <3>1 DEF OpenPr
    <3>2. CASE OpenPr(Branch(r)) = {}
      <4>1. prs' = Append(prs, pr) /\ pr.branch = Branch(r)
        BY <1>5, <3>2
      <4> HIDE DEF pr
      <4>2. Len(prs) + 1 \in DOMAIN prs' /\ prs'[Len(prs) + 1] = pr
        BY <1>1, <4>1
      <4> QED BY <4>1, <4>2
    <3> QED BY <3>1, <3>2
  <2>2. {"pr_opened", "needs_input"} \subseteq Outcomes
    BY DEF Outcomes
  <2> QED BY <1>5, <2>1, <2>2
<1>6. Goal
  <2> DEFINE b == runs[r].branch
             reports(outcome) == jobs' = [jobs EXCEPT ![r].phase = "reported", ![r].result = outcome]
  <2>1. CASE /\ jobs[r].result \in DOMAIN WithoutPatch
             /\ reports(WithoutPatch[jobs[r].result])
             /\ UNCHANGED <<branches, prs, budget>>
    BY <1>3, <2>1 DEF Reports
  <2>2. CASE /\ IF branches[b] = jobs[r].base THEN Spend("refused") ELSE UNCHANGED budget
             /\ reports("failed")
             /\ UNCHANGED <<branches, prs>>
    BY <1>4, <2>2 DEF Reports
  <2>3. CASE /\ branches' = [branches EXCEPT ![b] = Append(@, r)]
             /\ Spend("refused") /\ reports("failed") /\ UNCHANGED prs
    BY <1>4, <2>3 DEF Reports, Branch
  <2>4. CASE /\ branches' = [branches EXCEPT ![b] = Append(@, r)]
             /\ reports(IF jobs[r].result = "patch" THEN "pr_opened" ELSE "needs_input")
             /\ prs' = IF OpenPr(b) # {} THEN prs
                       ELSE Append(prs, [item |-> runs[r].item, branch |-> b, state |-> "open"])
             /\ UNCHANGED budget
    BY <1>5, <2>4 DEF Reports, Branch
  <2> HIDE DEF Goal
  <2> QED BY <2>1, <2>2, <2>3, <2>4 DEF Push
<1> QED BY <1>2, <1>6

\* The one push of a run is written on its branch with the pull request that shows it.
LEMMA PushStep ==
  ASSUME RunsInv, NEW r \in Runs, Push(r)
  PROVE  RunsInv'
<1>1. jobs[r].phase = "answered"
  BY DEF Push
<1>2. r \in DOMAIN runs /\ jobs[r] \in JobRows /\ runs[r] \in RunRows /\ Branch(r) \in Runs /\ r \in Nat
  BY <1>1, JobThere, RunExists DEF None, Branch
<1>3. /\ runs' = runs /\ loop' = loop /\ approvals' = approvals
      /\ UNCHANGED <<requests, approvals>> /\ UNCHANGED <<watch, closedBy>>
      /\ budget' = budget \/ Spend("refused")
      /\ branches' = branches
         \/ branches' = [branches EXCEPT ![Branch(r)] = Append(branches[Branch(r)], r)]
      /\ prs' = prs \/ prs' = Append(prs, [item |-> runs[r].item, branch |-> Branch(r), state |-> "open"])
  BY <1>2, PushCases DEF workVars
<1>4. PICK outcome \in Outcomes :
        /\ Reports(r, outcome)
        /\ outcome \in Asks => branches' = branches \/ (\E p \in DOMAIN prs' : prs'[p].branch = Branch(r))
  BY <1>2, PushCases
<1>5. /\ RequestsOK /\ LoopOK /\ RowsOK /\ GitOK /\ jobs \in [Runs -> JobRows] /\ budget \in [Events -> Nat]
      /\ Started /\ CarryApproved /\ PushedReported /\ VerdictSound
  BY DEF RunsInv, Shaped
<1>6. DOMAIN runs \subseteq Runs /\ (\A s \in DOMAIN runs : runs[s].branch \in Runs) /\ Len(runs) \in Nat
  BY RunExists
<1>7. /\ jobs' \in [Runs -> JobRows] /\ jobs'[r].phase = "reported" /\ jobs'[r].result = outcome
      /\ jobs'[r].prompt = jobs[r].prompt /\ \A s \in Runs : s # r => jobs'[s] = jobs[s]
  <2> DEFINE first == [jobs[r] EXCEPT !.phase = "reported"]
             row == [first EXCEPT !.result = outcome]
  <2>1. first \in JobRows /\ first.phase = "reported" /\ first.prompt = jobs[r].prompt
    BY <1>2 DEF JobRows, Phases
  <2>2. jobs' = [jobs EXCEPT ![r] = row]
    BY <1>4 DEF Reports
  <2> HIDE DEF first
  <2>3. /\ row \in JobRows /\ row.phase = "reported" /\ row.prompt = jobs[r].prompt
        /\ row.result = outcome
    BY <2>1 DEF JobRows
  <2> HIDE DEF row
  <2> QED BY <1>5, <2>2, <2>3
<1>8. /\ branches' \in [Runs -> Seq(Nat)]
      /\ \A b \in Runs : \A n \in DOMAIN branches[b] :
           n \in DOMAIN branches'[b] /\ branches'[b][n] = branches[b][n]
      /\ \A b \in Runs : \A n \in DOMAIN branches'[b] :
           (n \in DOMAIN branches[b] /\ branches'[b][n] = branches[b][n]) \/ branches'[b][n] = r
  <2>1. branches \in [Runs -> Seq(Nat)]
    BY <1>5 DEF GitOK
  <2>2. CASE branches' = branches
    BY <2>1, <2>2
  <2>3. CASE branches' = [branches EXCEPT ![Branch(r)] = Append(branches[Branch(r)], r)]
    <3> DEFINE line == Append(branches[Branch(r)], r)
    <3>1. branches[Branch(r)] \in Seq(Nat)
      BY <1>2, <2>1
    <3>2. /\ line \in Seq(Nat) /\ DOMAIN line = DOMAIN branches[Branch(r)] \cup {Len(branches[Branch(r)]) + 1}
          /\ line[Len(branches[Branch(r)]) + 1] = r
          /\ \A n \in DOMAIN branches[Branch(r)] : line[n] = branches[Branch(r)][n]
      BY <1>2, <3>1
    <3>3. branches' = [branches EXCEPT ![Branch(r)] = line]
      BY <2>3
    <3> HIDE DEF line
    <3>4. branches'[Branch(r)] = line /\ \A b \in Runs : b # Branch(r) => branches'[b] = branches[b]
      BY <1>2, <2>1, <3>3
    <3>5. branches' \in [Runs -> Seq(Nat)]
      BY <2>1, <3>2, <3>3
    <3> QED BY <3>2, <3>4, <3>5
  <2> QED BY <1>3, <2>2, <2>3
<1>9. /\ prs' \in Seq(PrRows) /\ DOMAIN prs \subseteq DOMAIN prs' /\ Len(prs') >= Len(prs) /\ Len(prs') \in Nat
      /\ Len(prs) \in Nat
      /\ \A p \in DOMAIN prs : prs'[p].branch = prs[p].branch
      /\ \A p \in DOMAIN prs' : prs'[p].branch \in 0..Len(runs)
  <2>1. prs \in Seq(PrRows) /\ \A p \in DOMAIN prs : prs[p].branch \in 0..Len(runs)
    BY <1>5 DEF GitOK
  <2>2. CASE prs' = prs
    BY <2>1, <2>2
  <2>3. CASE prs' = Append(prs, [item |-> runs[r].item, branch |-> Branch(r), state |-> "open"])
    <3> DEFINE row == [item |-> runs[r].item, branch |-> Branch(r), state |-> "open"]
    <3>1. Branch(r) \in 1..r /\ DOMAIN runs = 1..Len(runs)
      BY <1>2, <1>5, RunExists DEF RowsOK, Branch
    <3>2. Branch(r) \in 0..Len(runs) /\ Branch(r) \in Nat
      BY <1>2, <1>6, <3>1
    <3>3. row \in PrRows /\ row.branch \in 0..Len(runs)
      BY <1>2, <3>2 DEF PrRows, RunRows
    <3>4. prs' = Append(prs, row)
      BY <2>3
    <3> HIDE DEF row
    <3>5. /\ prs' \in Seq(PrRows) /\ Len(prs') = Len(prs) + 1 /\ Len(prs) \in Nat
          /\ DOMAIN prs' = DOMAIN prs \cup {Len(prs) + 1} /\ prs'[Len(prs) + 1] = row
          /\ \A p \in DOMAIN prs : prs'[p] = prs[p]
      BY <2>1, <3>3, <3>4
    <3> QED BY <2>1, <3>3, <3>5
  <2> QED BY <1>3, <2>2, <2>3
<1>10. Shaped'
  <2>1. RequestsOK' /\ LoopOK'
    BY <1>3, <1>5 DEF RequestsOK, LoopOK
  <2>2. RowsOK'
    BY <1>3, <1>5, <1>9 DEF RowsOK
  <2>3. GitOK'
    <3>1. \A b \in Runs : \A n \in DOMAIN branches'[b] : branches'[b][n] \in DOMAIN runs
      BY <1>2, <1>5, <1>8 DEF GitOK
    <3>2. closedBy' \in [Items -> SUBSET DOMAIN prs'] /\ watch' \subseteq [item : Items, known : Nat]
      BY <1>3, <1>5, <1>9 DEF GitOK
    <3> QED BY <1>3, <1>8, <1>9, <3>1, <3>2 DEF GitOK
  <2>4. budget' \in [Events -> Nat]
    BY <1>3, <1>5, SpendCounts DEF Events
  <2> QED BY <1>7, <2>1, <2>2, <2>3, <2>4 DEF Shaped
<1>11. Started'
  BY <1>3, <1>5 DEF Started
<1>12. CarryApproved'
  BY <1>2, <1>3, <1>5, <1>6, <1>7 DEF CarryApproved
<1>13. ASSUME NEW s \in DOMAIN runs
       PROVE  (s # r => (Pushed(s)' => Pushed(s))) /\ (HasPr(s) => HasPr(s)')
  <2>1. s # r => (Pushed(s)' => Pushed(s))
    BY <1>3, <1>6, <1>8 DEF Pushed
  <2>2. HasPr(s) => HasPr(s)'
    BY <1>3, <1>9 DEF HasPr
  <2> QED BY <2>1, <2>2
<1>14. outcome \in Asks => ~Pushed(r)' \/ HasPr(r)'
  <2>1. ~Pushed(r)
    BY <1>1, <1>2, <1>5 DEF PushedReported, Before
  <2>2. branches' = branches => ~Pushed(r)'
    BY <1>3, <2>1 DEF Pushed
  <2>3. (\E p \in DOMAIN prs' : prs'[p].branch = Branch(r)) => HasPr(r)'
    BY <1>3 DEF HasPr, Branch
  <2> QED BY <1>4, <2>2, <2>3
<1>15. PushedReported'
  <2>1. ASSUME NEW s \in DOMAIN runs'
        PROVE  /\ jobs'[s].phase \in Before => ~Pushed(s)'
               /\ jobs'[s].phase = "reported" =>
                    /\ jobs'[s].result \in Outcomes
                    /\ jobs'[s].result \in Asks /\ Pushed(s)' => HasPr(s)'
    <3>1. CASE s = r
      BY <1>4, <1>7, <1>14, <3>1 DEF Before, None
    <3>2. CASE s # r
      <4>1. s \in DOMAIN runs /\ jobs'[s] = jobs[s]
        BY <1>3, <1>6, <1>7, <3>2
      <4>2. /\ jobs[s].phase \in Before => ~Pushed(s)
            /\ jobs[s].phase = "reported" =>
                 jobs[s].result \in Outcomes /\ (jobs[s].result \in Asks /\ Pushed(s) => HasPr(s))
        BY <1>5, <4>1 DEF PushedReported
      <4>3. (Pushed(s)' => Pushed(s)) /\ (HasPr(s) => HasPr(s)')
        BY <1>13, <3>2, <4>1
      <4> QED BY <4>1, <4>2, <4>3
    <3> QED BY <3>1, <3>2
  <2> QED BY <2>1 DEF PushedReported
<1>16. VerdictSound'
  <2>1. SUFFICES ASSUME loop.pc = "ended"
                 PROVE  /\ loop.run \in DOMAIN runs' /\ loop.verdict \in Outcomes
                        /\ loop.verdict \in Asks =>
                             /\ jobs'[loop.run].phase \notin Before
                             /\ Pushed(loop.run)' => HasPr(loop.run)'
    BY <1>3 DEF VerdictSound
  <2>2. /\ loop.run \in DOMAIN runs /\ loop.verdict \in Outcomes
        /\ loop.verdict \in Asks =>
             /\ jobs[loop.run].phase \notin Before
             /\ Pushed(loop.run) => HasPr(loop.run)
    BY <1>5, <2>1 DEF VerdictSound
  <2>3. loop.verdict \in Asks => loop.run # r
    BY <1>1, <2>2 DEF Before
  <2>4. loop.run # r => jobs'[loop.run] = jobs[loop.run]
    BY <1>6, <1>7, <2>2
  <2>5. (loop.run # r => (Pushed(loop.run)' => Pushed(loop.run))) /\ (HasPr(loop.run) => HasPr(loop.run)')
    BY <1>3, <1>13, <2>2
  <2>6. loop.run \in DOMAIN runs'
    BY <1>3, <2>2
  <2> QED BY <2>2, <2>3, <2>4, <2>5, <2>6
<1> QED BY <1>10, <1>11, <1>12, <1>15, <1>16 DEF RunsInv
-----------------------------------------------------------------------------
(* Every step, and the beginning *)

\* Every step of the loop keeps the runs sound.
LEMMA LoopRuns ==
  ASSUME RunsInv, LoopStep
  PROVE  RunsInv'
BY TickStep, CheckWriteStep, TickCountStep, TickOverStep, StartReadStep, StartSecretStep, StartJobStep,
   StartCommitStep, CheckReadStep, StartFailsStep DEF LoopStep

\* Every step keeps the runs, their Jobs and what they pushed sound.
LEMMA RunsStep ==
  ASSUME RunsInv, ItemsInv, [Next]_vars
  PROVE  RunsInv'
<1>1. CASE UNCHANGED vars
  <2>1. /\ UNCHANGED <<runs, jobs, branches>> /\ loop' = loop /\ UNCHANGED <<requests, approvals>>
        /\ approvals' = approvals /\ UNCHANGED budget /\ UNCHANGED <<prs, watch, closedBy>> /\ prs' = prs
    BY <1>1 DEF vars, runVars, prVars, workVars
  <2>2. SamePrs /\ RequestsOK' /\ budget' \in [Events -> Nat]
        /\ watch' \subseteq [item : Items, known : Nat] /\ closedBy' \in [Items -> SUBSET DOMAIN prs']
    BY <2>1, Unwritten
  <2> QED BY <2>1, <2>2, AsideStep
<1>2. CASE WorkNext /\ UNCHANGED <<runVars, prVars>>
  BY <1>2, WorkRuns
<1>3. ASSUME NEW i \in Items, NEW guided \in BOOLEAN, Gate(i, guided) PROVE RunsInv'
  BY <1>3, GateStep
<1>4. ASSUME NEW q \in requests, Queue(q) PROVE RunsInv'
  BY <1>4, QueueStep
<1>5. CASE LoopStep \/ MintFails \/ StartLost
  BY <1>5, LoopRuns, StartFailsStep, TickOverStep
<1>6. ASSUME NEW r \in Runs, Cancel(r) \/ CancelLost(r) \/ CheckFails(r) PROVE RunsInv'
  BY <1>6, CancelStep, JobPhaseStep, CheckFailsStep
<1>7. ASSUME NEW r \in Runs, Prepare(r) \/ Claude(r) \/ Push(r) \/ JobEnds(r) PROVE RunsInv'
  BY <1>7, PrepareStep, ClaudeStep, PushStep, JobPhaseStep
<1>8. ASSUME NEW i \in Items, OutsidePr(i) PROVE RunsInv'
  BY <1>8, OutsidePrStep
<1>9. ASSUME NEW p \in DOMAIN prs, MergePr(p) PROVE RunsInv'
  BY <1>9, MergePrStep
<1>10. CASE WatchRead \/ (\E w \in watch : WatchClose(w))
  BY <1>10, WatchStep
<1>11. CASE Crash
  BY <1>11, CrashStep
<1> QED BY <1>1, <1>2, <1>3, <1>4, <1>5, <1>6, <1>7, <1>8, <1>9, <1>10, <1>11 DEF Next

\* In the beginning nothing is queued and nothing runs.
LEMMA RunsInit ==
  ASSUME Init
  PROVE  RunsInv
<1>1. /\ requests = {} /\ runs = <<>> /\ loop = Idle /\ jobs = [r \in Runs |-> NoJob]
      /\ branches = [r \in Runs |-> <<>>] /\ prs = <<>> /\ watch = {} /\ closedBy = [i \in Items |-> {}]
      /\ budget = [e \in Events |-> 0]
  BY DEF Init, WorkInit
<1>2. runs \in Seq(RunRows) /\ Len(runs) = 0 /\ DOMAIN runs = {} /\ prs \in Seq(PrRows) /\ DOMAIN prs = {}
  BY <1>1
<1>3. NoJob \in JobRows /\ NoJob.phase = None /\ NoJob.prompt = NoPrompt
  <2>1. NoPrompt \in Prompts /\ FALSE \in BOOLEAN /\ <<>> \in Seq(Nat) /\ None \in Phases
    BY DEF NoPrompt, Prompts, Phases
  <2> HIDE DEF NoPrompt
  <2> DEFINE no == FALSE
  <2>2. no \in BOOLEAN
    OBVIOUS
  <2>3. NoJob = [phase |-> None, secret |-> no, prompt |-> NoPrompt, base |-> <<>>, result |-> None]
    BY DEF NoJob
  <2> HIDE DEF no
  <2> QED BY <2>1, <2>2, <2>3 DEF JobRows
<1> HIDE DEF NoJob
<1>4. LoopOK
  BY <1>1, <1>2, IdleOK DEF LoopOK
<1>5. RequestsOK /\ RowsOK
  BY <1>1, <1>2, DispatchBounds DEF RequestsOK, RowsOK
<1>6. GitOK
  BY <1>1, <1>2 DEF GitOK
<1>7. jobs \in [Runs -> JobRows] /\ budget \in [Events -> Nat]
  BY <1>1, <1>3
<1>8. Started /\ VerdictSound
  BY <1>1, IdleOK DEF Started, Starting, VerdictSound
<1>9. CarryApproved /\ PushedReported
  BY <1>1, <1>2, <1>3 DEF CarryApproved, PushedReported
<1> QED BY <1>4, <1>5, <1>6, <1>7, <1>8, <1>9 DEF RunsInv, Shaped

\* The items and the runs, whatever happens.
LEMMA AlwaysSound == Spec => [](ItemsInv /\ RunsInv)
<1>1. Init => ItemsInv /\ RunsInv
  BY ItemsInit, RunsInit
<1>2. ItemsInv /\ RunsInv /\ [Next]_vars => ItemsInv' /\ RunsInv'
  <2>1. RunsInv => Shaped
    BY DEF RunsInv
  <2> QED BY <2>1, ItemsStep, RunsStep
<1> QED BY <1>1, <1>2, PTL DEF Spec
-----------------------------------------------------------------------------
(* What is not undone *)

\* A step leaves the branches alone, or is the push of a run that is there.
LEMMA BranchesMove ==
  ASSUME RunsInv, [Next]_vars
  PROVE  branches' = branches \/ \E r \in DOMAIN runs : Push(r)
<1>1. CASE UNCHANGED vars
  BY <1>1 DEF vars, runVars
<1>2. CASE WorkNext /\ UNCHANGED <<runVars, prVars>>
  BY <1>2 DEF runVars
<1>3. ASSUME NEW i \in Items, NEW guided \in BOOLEAN, Gate(i, guided) PROVE branches' = branches
  BY <1>3 DEF Gate
<1>4. ASSUME NEW q \in requests, Queue(q) PROVE branches' = branches
  BY <1>4 DEF Queue
<1>5. CASE LoopStep \/ MintFails \/ StartLost
  BY <1>5 DEF LoopStep, MintFails, StartLost, Tick, CheckWrite, TickCount, TickEnds, StartRead, StartSecret,
     StartJob, StartCommit, CheckRead, StartRefused
<1>6. ASSUME NEW r \in Runs, Cancel(r) \/ CancelLost(r) \/ CheckFails(r) \/ Prepare(r) \/ Claude(r) \/ JobEnds(r)
      PROVE  branches' = branches
  BY <1>6 DEF Cancel, CancelLost, CheckFails, Prepare, Claude, JobEnds
<1>7. ASSUME NEW r \in Runs, Push(r) PROVE r \in DOMAIN runs
  <2>1. jobs[r].phase # None
    BY <1>7 DEF Push, None
  <2> QED BY <2>1, JobThere
<1>8. ASSUME NEW i \in Items, OutsidePr(i) PROVE branches' = branches
  BY <1>8 DEF OutsidePr, runVars
<1>9. ASSUME NEW p \in DOMAIN prs, MergePr(p) PROVE branches' = branches
  BY <1>9 DEF MergePr, runVars
<1>10. CASE WatchRead \/ (\E w \in watch : WatchClose(w)) \/ Crash
  BY <1>10 DEF WatchRead, WatchClose, Crash, runVars
<1> QED BY <1>1, <1>2, <1>3, <1>4, <1>5, <1>6, <1>7, <1>8, <1>9, <1>10 DEF Next

\* A branch begins as it was.
Begins == \A b \in Runs : SubSeq(branches'[b], 1, Len(branches[b])) = branches[b]

\* No step takes away what was pushed.
LEMMA BranchesBegin ==
  ASSUME RunsInv, [Next]_vars
  PROVE  Begins
<1>1. branches \in [Runs -> Seq(Nat)]
  BY DEF RunsInv, Shaped, GitOK
<1>2. ASSUME NEW s \in Seq(Nat) PROVE SubSeq(s, 1, Len(s)) = s
  OBVIOUS
<1>3. ASSUME NEW s \in Seq(Nat), NEW n \in Nat PROVE SubSeq(Append(s, n), 1, Len(s)) = s
  OBVIOUS
<1>4. CASE branches' = branches
  BY <1>1, <1>2, <1>4 DEF Begins
<1>5. ASSUME NEW r \in DOMAIN runs, Push(r) PROVE Begins
  <2>1. \/ branches' = branches
        \/ branches' = [branches EXCEPT ![Branch(r)] = Append(branches[Branch(r)], r)]
    BY <1>5, PushCases
  <2>2. CASE branches' = [branches EXCEPT ![Branch(r)] = Append(branches[Branch(r)], r)]
    <3>1. r \in Nat
      BY RunExists
    <3>2. ASSUME NEW b \in Runs PROVE branches'[b] = branches[b] \/ branches'[b] = Append(branches[b], r)
      BY <1>1, <2>2
    <3>3. ASSUME NEW b \in Runs PROVE SubSeq(branches'[b], 1, Len(branches[b])) = branches[b]
      <4>1. branches[b] \in Seq(Nat)
        BY <1>1
      <4> QED BY <1>2, <1>3, <3>1, <3>2, <4>1
    <3> QED BY <3>3 DEF Begins
  <2> QED BY <1>4, <2>1, <2>2
<1> QED BY <1>4, <1>5, BranchesMove

\* The outcome of a run that ended stays.
Stays == \A r \in DOMAIN runs : runs[r].state \notin Active => runs'[r].state = runs[r].state

\* A row that is active may move: nothing that ended does.
LEMMA ActiveMoves ==
  ASSUME NEW r \in DOMAIN runs, NEW state, NEW named, NEW pr, Moves(r, state, named, pr),
         runs[r].state \in Active
  PROVE  Stays
BY DEF Moves, Stays

\* No step replaces an outcome.
LEMMA OutcomesStay ==
  ASSUME RunsInv, [Next]_vars
  PROVE  Stays
<1>1. CASE runs' = runs
  BY <1>1 DEF Stays
<1>2. runs \in Seq(RunRows)
  BY DEF RunsInv, Shaped, RowsOK
<1>3. ASSUME NEW r \in DOMAIN runs, runs[r].state \in Active, NEW outcome \in Outcomes, NEW pr \in Nat,
             runs' = Ended(r, outcome, pr)
      PROVE  Stays
  BY <1>2, <1>3, EndMoves, ActiveMoves
<1>4. "failed" \in Outcomes /\ 0 \in Nat /\ {"queued", "running"} \subseteq Active
  BY DEF Outcomes, Active
<1>5. ASSUME NEW q \in requests, Queue(q) PROVE Stays
  <2>1. runs' = runs \/ \E row : runs' = Append(runs, row)
    BY <1>5 DEF Queue
  <2>2. ASSUME NEW row, runs' = Append(runs, row) PROVE Stays
    BY <1>2, <2>2 DEF Stays
  <2> QED BY <1>1, <2>1, <2>2
<1>6. ASSUME NEW r \in Runs, Cancel(r) PROVE Stays
  <2>1. r \in DOMAIN runs /\ runs[r].state \in Active /\ runs' = [runs EXCEPT ![r].state = "cancelled"]
    BY <1>6 DEF Cancel
  <2> QED BY <1>2, <2>1, CancelMoves, ActiveMoves
<1>7. CASE CheckWrite
  <2>1. CASE runs[loop.run].state = "running"
    <3>1. loop.pc = "ended" /\ runs' = Ended(loop.run, loop.verdict, ReportedPr(loop.run, loop.verdict))
      BY <1>7, <2>1 DEF CheckWrite
    <3>2. loop.run \in DOMAIN runs /\ loop.verdict \in Outcomes /\ ReportedPr(loop.run, loop.verdict) \in Nat
      BY <3>1, ReportedThere
    <3> QED BY <1>3, <1>4, <2>1, <3>1, <3>2
  <2> QED BY <1>1, <1>7, <2>1 DEF CheckWrite
<1>8. CASE StartRead
  <2> DEFINE r == Min(loop.queue)
  <2>1. r \in DOMAIN runs
    BY <1>8, NextQueued DEF StartRead
  <2>2. runs' = runs \/ (runs[r].state = "queued" /\ runs' = Ended(r, "failed", 0))
    BY <1>8 DEF StartRead
  <2> HIDE DEF r
  <2> QED BY <1>1, <1>3, <1>4, <2>1, <2>2
<1>9. CASE StartCommit
  <2>1. loop.pc \in Starting /\ runs' = [runs EXCEPT ![loop.run].state = "running", ![loop.run].named = TRUE]
    BY <1>9 DEF StartCommit, Starting
  <2>2. loop.run \in DOMAIN runs /\ runs[loop.run].state = "queued"
    BY <2>1, RunStarted
  <2>3. \E named \in BOOLEAN : Moves(loop.run, "running", named, runs[loop.run].pr)
    BY <1>2, <2>1, <2>2, CommitMoves
  <2> QED BY <1>4, <2>2, <2>3, ActiveMoves
<1>10. CASE MintFails \/ StartRefused
  <2>1. loop.pc \in Starting /\ runs' = Ended(loop.run, "failed", 0)
    BY <1>10 DEF MintFails, StartRefused, Starting
  <2>2. loop.run \in DOMAIN runs /\ runs[loop.run].state = "queued"
    BY <2>1, RunStarted
  <2> QED BY <1>3, <1>4, <2>1, <2>2
<1>11. ASSUME Tick \/ TickCount \/ TickEnds \/ StartSecret \/ StartJob \/ StartLost
              \/ (\E r \in Runs : CheckRead(r))
       PROVE  runs' = runs
  BY <1>11 DEF Tick, TickCount, TickEnds, StartSecret, StartJob, StartLost, CheckRead
<1>12. ASSUME NEW r \in Runs, CancelLost(r) \/ CheckFails(r) \/ Prepare(r) \/ Claude(r) \/ JobEnds(r) \/ Push(r)
       PROVE  runs' = runs
  BY <1>12 DEF CancelLost, CheckFails, Prepare, Claude, JobEnds, Push
<1>13. ASSUME \/ UNCHANGED vars \/ (WorkNext /\ UNCHANGED <<runVars, prVars>>)
              \/ (\E i \in Items : OutsidePr(i)) \/ (\E p \in DOMAIN prs : MergePr(p))
              \/ WatchRead \/ (\E w \in watch : WatchClose(w)) \/ Crash
              \/ (\E i \in Items, guided \in BOOLEAN : Gate(i, guided))
       PROVE  runs' = runs
  BY <1>13 DEF vars, runVars, OutsidePr, MergePr, WatchRead, WatchClose, Crash, Gate
<1> QED
  BY <1>1, <1>5, <1>6, <1>7, <1>8, <1>9, <1>10, <1>11, <1>12, <1>13 DEF Next, LoopStep
-----------------------------------------------------------------------------
(* Slots *)

\* The oldest n are no more than n.
LEMMA OldestFew ==
  ASSUME NEW m \in Nat, NEW S \in SUBSET (1..m), NEW n \in Nat
  PROVE  IsFiniteSet(Oldest(S, n)) /\ Cardinality(Oldest(S, n)) <= n
<1>1. IsFiniteSet(1..m)
  BY FS_Interval
<1>2. ASSUME NEW T \in SUBSET S PROVE IsFiniteSet(T) /\ Cardinality(T) \in Nat
  <2>1. T \in SUBSET (1..m)
    OBVIOUS
  <2>2. IsFiniteSet(T)
    BY <1>1, <2>1, FS_Subset
  <2> QED BY <2>2, FS_CardinalityType
<1> DEFINE O == Oldest(S, n)
<1>3. O \in SUBSET S /\ O \in SUBSET Nat /\ \A y \in O : y <= m
  <2>1. O \in SUBSET S
    BY DEF Oldest
  <2>2. \A y \in S : y \in Nat /\ y <= m
    OBVIOUS
  <2> HIDE DEF O
  <2> QED BY <2>1, <2>2
<1>4. CASE O = {}
  BY <1>4, FS_EmptySet
<1>5. CASE O # {}
  <2>1. Max(O) \in O /\ \A y \in O : y <= Max(O)
    <3> HIDE DEF O
    <3> QED BY <1>3, <1>5, GreatestOf
  <2> DEFINE upTo == {s \in S : s <= Max(O)}
  <2>2. Cardinality(upTo) <= n
    BY <2>1 DEF Oldest
  <2>3. O \in SUBSET upTo /\ upTo \in SUBSET S
    BY <1>3, <2>1
  <2> HIDE DEF O, upTo
  <2>4. IsFiniteSet(upTo) /\ Cardinality(upTo) \in Nat /\ IsFiniteSet(O) /\ Cardinality(O) \in Nat
    BY <1>2, <1>3, <2>3
  <2>5. Cardinality(O) <= Cardinality(upTo)
    BY <2>3, <2>4, FS_Subset
  <2>6. Cardinality(O) <= n
    BY <2>2, <2>4, <2>5
  <2> QED BY <2>4, <2>6 DEF O
<1> QED BY <1>4, <1>5

\* Sets of runs that are there are finite.
LEMMA RunsFinite ==
  ASSUME RunsInv, NEW T \in SUBSET DOMAIN runs
  PROVE  IsFiniteSet(T) /\ Cardinality(T) \in Nat
<1>1. DOMAIN runs = 1..Len(runs) /\ Len(runs) \in Nat
  BY RunExists
<1>2. IsFiniteSet(DOMAIN runs)
  BY <1>1, FS_Interval
<1>3. IsFiniteSet(T)
  BY <1>2, FS_Subset
<1> QED BY <1>3, FS_CardinalityType

\* Claimed runs are runs that are there.
LEMMA ClaimedThere ==
  ASSUME RunsInv
  PROVE  Claimed \in SUBSET DOMAIN runs /\ RunLock \in SUBSET DOMAIN runs
<1>1. RunLock \subseteq DOMAIN runs
  BY RunStarted DEF RunLock, Starting
<1> QED BY <1>1, StatesThere DEF Claimed

\* Fewer claims are no more than there may be.
LEMMA FewerClaimed ==
  ASSUME RunsInv, SlotsInv, Claimed' \in SUBSET Claimed
  PROVE  Cardinality(Claimed') <= MaxConcurrent
<1>1. Claimed \in SUBSET DOMAIN runs
  BY ClaimedThere
<1>2. IsFiniteSet(Claimed) /\ Cardinality(Claimed) \in Nat
  BY <1>1, RunsFinite
<1>3. IsFiniteSet(Claimed') /\ Cardinality(Claimed') <= Cardinality(Claimed)
  BY <1>2, FS_Subset
<1>4. Cardinality(Claimed') \in Nat
  BY <1>3, FS_CardinalityType
<1> QED BY <1>2, <1>3, <1>4, DispatchBounds DEF SlotsInv

\* What failed stays counted.
LEMMA CalmBefore ==
  ASSUME RunsInv, [Next]_vars
  PROVE  \A e \in Events : budget[e] <= budget'[e]
<1>1. budget \in [Events -> Nat]
  BY DEF RunsInv, Shaped
<1>2. ASSUME budget' = budget \/ (\E event \in Events : Spend(event))
      PROVE  \A e \in Events : budget[e] <= budget'[e]
  <2>1. CASE budget' = budget
    <3>1. \A e \in Events : budget[e] \in Nat /\ budget'[e] = budget[e]
      BY <1>1, <2>1
    <3> QED BY <3>1
  <2> QED BY <1>1, <1>2, <2>1, SpendCounts
<1>3. CASE WorkNext
  BY <1>1, <1>3, WorkAside
<1>4. ASSUME Next, ~WorkNext PROVE budget' = budget \/ (\E event \in Events : Spend(event))
  <2>1. ASSUME LoopStep \/ MintFails \/ StartLost \/ WatchRead \/ (\E w \in watch : WatchClose(w)) \/ Crash
        PROVE  budget' = budget \/ (\E event \in Events : Spend(event))
    BY <2>1 DEF LoopStep, MintFails, StartLost, Tick, CheckWrite, TickCount, TickEnds, StartRead, StartSecret,
       StartJob, StartCommit, CheckRead, StartRefused, WatchRead, WatchClose, Crash, Events
  <2>2. ASSUME NEW r \in Runs, Cancel(r) \/ CancelLost(r) \/ CheckFails(r) \/ Prepare(r) \/ Claude(r) \/ JobEnds(r)
                               \/ Push(r)
        PROVE  budget' = budget \/ (\E event \in Events : Spend(event))
    BY <2>2 DEF Cancel, CancelLost, CheckFails, Prepare, Claude, JobEnds, Push, Events
  <2>3. ASSUME \/ (\E i \in Items : OutsidePr(i)) \/ (\E p \in DOMAIN prs : MergePr(p))
               \/ (\E i \in Items, guided \in BOOLEAN : Gate(i, guided)) \/ (\E q \in requests : Queue(q))
        PROVE  budget' = budget \/ (\E event \in Events : Spend(event))
    BY <2>3 DEF OutsidePr, MergePr, Gate, Queue, Events
  <2> QED BY <1>4, <2>1, <2>2, <2>3 DEF Next
<1>5. CASE UNCHANGED vars
  BY <1>2, <1>5 DEF vars
<1> QED BY <1>2, <1>3, <1>4, <1>5

\* A calm run of things was calm before.
LEMMA CalmStays ==
  ASSUME RunsInv, [Next]_vars
  PROVE  Calm' => Calm
<1>1. \A e \in Events : budget[e] \in Nat /\ budget[e] <= budget'[e]
  BY CalmBefore DEF RunsInv, Shaped
<1>2. {"refused", "lost", "crash"} \subseteq Events
  BY DEF Events
<1>3. ASSUME Calm', NEW e \in {"refused", "lost", "crash"} PROVE budget[e] = 0
  <2>1. budget'[e] = 0
    BY <1>3 DEF Calm, Never
  <2> QED BY <1>1, <1>2, <2>1
<1>4. ASSUME Calm' PROVE Calm
  BY <1>3, <1>4 DEF Calm, Never
<1> QED BY <1>4

\* What failed is not calm.
LEMMA FailedNotCalm ==
  ASSUME RunsInv, NEW event \in {"refused", "lost", "crash"}, Spend(event)
  PROVE  ~Calm'
<1>1. event \in Events /\ budget \in [Events -> Nat]
  BY DEF Events, RunsInv, Shaped
<1>2. budget'[event] > 0 /\ budget' \in [Events -> Nat]
  BY <1>1, SpendCounts
<1>3. budget'[event] # 0
  BY <1>1, <1>2
<1> QED BY <1>3 DEF Calm, Never

Slots == SlotsInv /\ WorkingClaimed

\* Steps beside the rows and the loop, which start no Job.
LEMMA QuietSlots ==
  ASSUME RunsInv, Slots, runs' = runs, loop' = loop, Working' \subseteq Working, Calm' => Calm
  PROVE  Slots'
<1>1. InState("running")' = InState("running") /\ Claimed' = Claimed
  BY DEF InState, Claimed, RunLock
<1>2. SlotsInv'
  <2>1. Cardinality(Claimed) <= MaxConcurrent
    BY DEF Slots, SlotsInv
  <2>2. loop.pc \in {"idle", "check", "ended"} => loop.queue = {}
    BY DEF Slots, SlotsInv
  <2>3. (\A r \in DOMAIN runs : runs[r].state = "running" => runs[r].named)
        /\ (loop.pc = "ended" => loop.run \notin Working)
    BY DEF Slots, SlotsInv
  <2> QED BY <1>1, <2>1, <2>2, <2>3 DEF SlotsInv
<1>3. WorkingClaimed'
  BY <1>1 DEF Slots, WorkingClaimed
<1> QED BY <1>2, <1>3 DEF Slots

\* A loop that turns away from starting, with nothing queued.
LEMMA LoopSlots ==
  ASSUME RunsInv, Slots, runs' = runs, jobs' = jobs, loop'.pc \notin Starting, loop'.queue = {},
         loop'.pc = "ended" => loop'.run \notin Working, Calm' => Calm /\ loop.pc # "job"
  PROVE  Slots'
<1>1. InState("running")' = InState("running") /\ Working' = Working
  BY DEF InState, Working
<1>2. Claimed' \in SUBSET Claimed
  BY <1>1 DEF Claimed, RunLock, Starting
<1>3. Cardinality(Claimed') <= MaxConcurrent
  BY <1>2, FewerClaimed DEF Slots
<1>4. SlotsInv'
  BY <1>1, <1>3 DEF Slots, SlotsInv
<1>5. WorkingClaimed'
  BY <1>1 DEF Slots, WorkingClaimed
<1> QED BY <1>4, <1>5 DEF Slots

\* The ticks' reads of Kubernetes, their end and the deaths of the process.
LEMMA ReadSlots ==
  ASSUME RunsInv, Slots, Calm' => Calm,
         \/ Tick \/ TickEnds \/ StartLost \/ Crash
         \/ \E r \in Runs : CheckRead(r) \/ CheckFails(r)
  PROVE  Slots'
<1>1. CASE Tick
  <2>1. loop'.pc = "check" /\ loop'.queue = {} /\ runs' = runs /\ jobs' = jobs /\ loop.pc = "idle"
    BY <1>1 DEF Tick, Idle
  <2> QED BY <2>1, LoopSlots DEF Starting
<1>2. CASE TickEnds
  <2>1. loop'.pc = "idle" /\ loop'.queue = {} /\ runs' = runs /\ jobs' = jobs /\ loop.pc = "start"
    BY <1>2, IdleOK DEF TickEnds
  <2> QED BY <2>1, LoopSlots DEF Starting
<1>3. CASE StartLost
  <2>1. /\ loop'.pc = "idle" /\ loop'.queue = {} /\ runs' = runs /\ jobs' = jobs
        /\ Spend("lost")
    BY <1>3, IdleOK DEF StartLost
  <2>2. ~Calm'
    BY <2>1, FailedNotCalm
  <2> QED BY <2>1, <2>2, LoopSlots DEF Starting
<1>4. CASE Crash
  <2>1. /\ loop'.pc = "idle" /\ loop'.queue = {} /\ runs' = runs /\ jobs' = jobs
        /\ Spend("crash")
    BY <1>4, IdleOK DEF Crash
  <2>2. ~Calm'
    BY <2>1, FailedNotCalm
  <2> QED BY <2>1, <2>2, LoopSlots DEF Starting
<1>5. ASSUME NEW r \in Runs, CheckRead(r) PROVE Slots'
  <2> DEFINE pc == IF Interpret(jobs[r]) = None THEN "check" ELSE "ended"
  <2>1. loop \in LoopRows
    BY DEF RunsInv, Shaped, LoopOK
  <2>2. /\ loop' = [loop EXCEPT !.pc = pc, !.todo = loop.todo \ {r}, !.run = r, !.verdict = Interpret(jobs[r])]
        /\ loop.pc = "check" /\ runs' = runs /\ jobs' = jobs
    BY <1>5 DEF CheckRead
  <2>3. pc \in {"check", "ended"} /\ (pc = "ended" => Interpret(jobs[r]) # None)
    OBVIOUS
  <2> HIDE DEF pc
  <2>4. loop'.pc = pc /\ loop'.queue = loop.queue /\ loop'.run = r
    BY <2>1, <2>2 DEF LoopRows
  <2>5. loop'.queue = {}
    BY <2>2, <2>4 DEF Slots, SlotsInv
  <2>6. Interpret(jobs[r]) # None => r \notin Working
    BY DEF Interpret, Working, None
  <2> QED BY <2>2, <2>3, <2>4, <2>5, <2>6, LoopSlots DEF Starting
<1>6. ASSUME NEW r \in Runs, CheckFails(r) PROVE Slots'
  <2>1. loop \in LoopRows
    BY DEF RunsInv, Shaped, LoopOK
  <2>2. /\ loop' = [loop EXCEPT !.todo = loop.todo \ {r}] /\ loop.pc = "check" /\ runs' = runs /\ jobs' = jobs
    BY <1>6 DEF CheckFails
  <2>3. loop'.pc = "check" /\ loop'.queue = loop.queue
    BY <2>1, <2>2 DEF LoopRows
  <2>4. loop'.queue = {}
    BY <2>2, <2>3 DEF Slots, SlotsInv
  <2> QED BY <2>2, <2>3, <2>4, LoopSlots DEF Starting
<1> QED BY <1>1, <1>2, <1>3, <1>4, <1>5, <1>6

\* The tick takes as many queued runs as slots are free.
LEMMA CountSlots ==
  ASSUME RunsInv, Slots, Calm' => Calm, TickCount
  PROVE  Slots'
<1> DEFINE busy == Cardinality(InState("running"))
           n == IF busy < MaxConcurrent THEN MaxConcurrent - busy ELSE 0
           queue == Oldest(InState("queued"), n)
<1>1. /\ loop.pc = "check" /\ runs' = runs /\ jobs' = jobs
      /\ loop' = [loop EXCEPT !.pc = "start", !.queue = queue]
  BY DEF TickCount
<1>2. InState("running") \in SUBSET DOMAIN runs /\ InState("queued") \in SUBSET DOMAIN runs
  BY StatesThere
<1>3. IsFiniteSet(InState("running")) /\ busy \in Nat
  BY <1>2, RunsFinite
<1>4. MaxConcurrent \in Nat /\ n \in Nat
  BY <1>3, DispatchBounds
<1>5. busy <= MaxConcurrent
  <2>1. IsFiniteSet(Claimed) /\ Cardinality(Claimed) \in Nat
    BY ClaimedThere, RunsFinite
  <2>2. InState("running") \in SUBSET Claimed
    BY DEF Claimed
  <2>3. busy <= Cardinality(Claimed)
    BY <2>1, <2>2, FS_Subset
  <2> HIDE DEF busy
  <2> QED BY <1>3, <1>4, <2>1, <2>3 DEF Slots, SlotsInv
<1>6. IsFiniteSet(queue) /\ Cardinality(queue) <= n
  <2>1. InState("queued") \in SUBSET (1..Len(runs)) /\ Len(runs) \in Nat
    BY <1>2, RunExists
  <2> HIDE DEF n
  <2> QED BY <1>4, <2>1, OldestFew
<1>7. busy + n <= MaxConcurrent
  <2> HIDE DEF busy
  <2> QED BY <1>3, <1>4, <1>5
<1> HIDE DEF n, queue
<1>8. Cardinality(InState("running") \cup queue) <= MaxConcurrent
  <2>1. Cardinality(queue) \in Nat /\ Cardinality(InState("running") \cap queue) \in Nat
    BY <1>2, <1>6, RunsFinite, FS_CardinalityType
  <2>2. Cardinality(InState("running") \cup queue)
          = busy + Cardinality(queue) - Cardinality(InState("running") \cap queue)
    BY <1>3, <1>6, FS_Union
  <2> HIDE DEF busy
  <2> QED BY <1>3, <1>4, <1>6, <1>7, <2>1, <2>2
<1>9. loop'.pc = "start" /\ loop'.queue = queue
  BY <1>1 DEF RunsInv, Shaped, LoopOK, LoopRows
<1>10. InState("running")' = InState("running") /\ InState("queued")' = InState("queued") /\ Working' = Working
  BY <1>1 DEF InState, Working
<1>11. Claimed' = InState("running") \cup queue
  <2>1. queue \subseteq InState("queued")
    BY DEF queue, Oldest
  <2>2. RunLock' = {}
    BY <1>9 DEF RunLock
  <2> QED BY <1>9, <1>10, <2>1, <2>2 DEF Claimed
<1>12. SlotsInv'
  BY <1>1, <1>8, <1>9, <1>11 DEF Slots, SlotsInv
<1>13. WorkingClaimed'
  BY <1>1, <1>10 DEF Slots, WorkingClaimed
<1> QED BY <1>12, <1>13 DEF Slots

\* A run that moved is in its new state, the others are in theirs.
LEMMA MovedStates ==
  ASSUME NEW r \in DOMAIN runs, NEW state, NEW named, NEW pr, Moves(r, state, named, pr)
  PROVE  /\ \A s : InState(s)' \subseteq InState(s) \cup {r}
         /\ \A s : s # state => InState(s)' = InState(s) \ {r}
         /\ \A s \in DOMAIN runs' : s = r \/ (s \in DOMAIN runs /\ runs'[s] = runs[s])
         /\ runs'[r].state = state /\ runs'[r].named = named
<1>1. /\ DOMAIN runs' = DOMAIN runs /\ \A s \in DOMAIN runs : s # r => runs'[s] = runs[s]
      /\ runs'[r].state = state /\ runs'[r].named = named
  BY DEF Moves
<1>2. \A s : InState(s)' \subseteq InState(s) \cup {r}
  BY <1>1 DEF InState
<1>3. \A s : s # state => InState(s)' = InState(s) \ {r}
  BY <1>1 DEF InState
<1> QED BY <1>1, <1>2, <1>3

\* A run that ends gives its slot back.
LEMMA EndSlots ==
  ASSUME RunsInv, Slots, NEW r \in DOMAIN runs, NEW state \in Outcomes, NEW pr,
         Moves(r, state, runs[r].named, pr), loop'.pc \in {"check", "start"}, loop'.queue \subseteq loop.queue,
         loop'.pc = "check" => loop'.queue = {}, Working' \subseteq Working,
         Calm' => Calm /\ r \notin Working' /\ loop.pc # "job"
  PROVE  Slots'
<1>1. state # "running" /\ state # "queued"
  BY DEF Outcomes
<1>2. InState("running")' = InState("running") \ {r} /\ InState("queued")' = InState("queued") \ {r}
  BY <1>1, MovedStates
<1>3. RunLock' = {}
  BY DEF RunLock
<1>4. Claimed' \in SUBSET Claimed
  BY <1>2, <1>3 DEF Claimed
<1>5. Cardinality(Claimed') <= MaxConcurrent
  BY <1>4, FewerClaimed DEF Slots
<1>6. \A s \in DOMAIN runs' : runs'[s].state = "running" => runs'[s].named
  BY <1>1, MovedStates DEF Slots, SlotsInv
<1>7. SlotsInv'
  BY <1>5, <1>6 DEF SlotsInv
<1>8. WorkingClaimed'
  BY <1>2 DEF Slots, WorkingClaimed
<1> QED BY <1>7, <1>8 DEF Slots

\* The run whose outcome is written had no Job at work.
LEMMA CheckWriteSlots ==
  ASSUME RunsInv, Slots, Calm' => Calm, CheckWrite
  PROVE  Slots'
<1>1. loop.pc = "ended" /\ loop' = [loop EXCEPT !.pc = "check"] /\ jobs' = jobs
  BY DEF CheckWrite
<1> DEFINE pr == ReportedPr(loop.run, loop.verdict)
<1>2. loop.run \in DOMAIN runs /\ loop.verdict \in Outcomes /\ pr \in Nat
  BY <1>1, ReportedThere
<1>3. runs' = Ended(loop.run, loop.verdict, pr) \/ runs' = runs
  BY DEF CheckWrite
<1> HIDE DEF pr
<1>4. loop'.pc = "check" /\ loop'.queue = loop.queue /\ loop.queue = {} /\ loop.run \notin Working
      /\ Working' = Working
  BY <1>1 DEF RunsInv, Shaped, LoopOK, LoopRows, Slots, SlotsInv, Working
<1>5. CASE runs' = runs
  BY <1>1, <1>4, <1>5, LoopSlots DEF Starting
<1>6. CASE runs' = Ended(loop.run, loop.verdict, pr)
  <2>1. Moves(loop.run, loop.verdict, runs[loop.run].named, pr)
    BY <1>2, <1>6, EndMoves DEF RunsInv, Shaped, RowsOK
  <2> QED BY <1>1, <1>2, <1>4, <2>1, EndSlots
<1> QED BY <1>3, <1>5, <1>6

\* A start that fails gives the slot back; in calm weather it had created no Job.
LEMMA StartFailsSlots ==
  ASSUME RunsInv, Slots, Calm' => Calm, MintFails \/ StartRefused
  PROVE  Slots'
<1>1. /\ loop.pc \in Starting
      /\ loop' = [loop EXCEPT !.pc = "start"] /\ runs' = Ended(loop.run, "failed", 0)
  BY DEF MintFails, StartRefused, Starting
<1>2. loop.run \in DOMAIN runs /\ runs[loop.run].state = "queued" /\ runs \in Seq(RunRows)
  BY <1>1, RunStarted
<1>3. "failed" \in Outcomes /\ 0 \in Nat
  BY DEF Outcomes
<1>4. Moves(loop.run, "failed", runs[loop.run].named, 0)
  BY <1>1, <1>2, <1>3, EndMoves
<1>5. loop'.pc = "start" /\ loop'.queue = loop.queue
  BY <1>1 DEF RunsInv, Shaped, LoopOK, LoopRows
<1>6. Working' = Working
  <2>1. jobs \in [Runs -> JobRows]
    BY DEF RunsInv, Shaped
  <2>2. jobs' = jobs \/ (\E kept \in BOOLEAN :
                           jobs' = [jobs EXCEPT ![loop.run].secret = jobs[loop.run].secret /\ kept])
    BY DEF MintFails, StartRefused
  <2>3. \A r \in Runs : jobs'[r].phase = jobs[r].phase
    <3>1. ASSUME NEW kept \in BOOLEAN,
                 jobs' = [jobs EXCEPT ![loop.run] = [jobs[loop.run] EXCEPT !.secret = jobs[loop.run].secret /\ kept]]
          PROVE  \A r \in Runs : jobs'[r].phase = jobs[r].phase
      <4>1. jobs[loop.run] \in JobRows
        BY <1>2, RunExists
      <4> DEFINE row == [jobs[loop.run] EXCEPT !.secret = jobs[loop.run].secret /\ kept]
      <4>2. row.phase = jobs[loop.run].phase
        BY <4>1 DEF JobRows
      <4>3. jobs' = [jobs EXCEPT ![loop.run] = row]
        BY <3>1
      <4> HIDE DEF row
      <4> QED BY <2>1, <4>2, <4>3
    <3> QED BY <2>2, <3>1
  <2> QED BY <2>3 DEF Working
<1>7. Calm' => loop.pc # "job"
  <2>1. loop.pc = "job" => Spend("refused")
    BY DEF MintFails, StartRefused
  <2> QED BY <2>1, FailedNotCalm
<1>8. Calm' => loop.run \notin Working
  BY <1>2, <1>7 DEF Slots, WorkingClaimed, InState
<1> QED BY <1>2, <1>3, <1>4, <1>5, <1>6, <1>7, <1>8, EndSlots

\* A run that is taken from the queue keeps the slot it claimed there.
LEMMA StartReadSlots ==
  ASSUME RunsInv, Slots, Calm' => Calm, StartRead
  PROVE  Slots'
<1> DEFINE r == Min(loop.queue)
<1>1. loop.pc = "start" /\ loop.queue # {} /\ jobs' = jobs
  BY DEF StartRead
<1>2. r \in loop.queue /\ r \in DOMAIN runs
  BY <1>1, NextQueued
<1>3. loop \in LoopRows /\ runs \in Seq(RunRows)
  BY DEF RunsInv, Shaped, LoopOK, RowsOK
<1>4. \/ loop' = [loop EXCEPT !.queue = loop.queue \ {r}] /\ runs' = runs
      \/ /\ loop' = [loop EXCEPT !.queue = loop.queue \ {r}] /\ runs' = Ended(r, "failed", 0)
         /\ runs[r].state = "queued"
      \/ /\ runs[r].state = "queued" /\ runs' = runs
         /\ loop' = [loop EXCEPT !.pc = "mint", !.queue = loop.queue \ {r}, !.run = r,
                                 !.prompt = items[runs[r].item].prompt]
  BY DEF StartRead
<1> HIDE DEF r
<1>5. Working' = Working
  BY <1>1 DEF Working
<1>6. ASSUME loop' = [loop EXCEPT !.queue = loop.queue \ {r}]
      PROVE  loop'.pc = "start" /\ loop'.queue = loop.queue \ {r}
  BY <1>1, <1>3, <1>6 DEF LoopRows
<1>7. CASE runs' = runs
  <2>1. InState("running")' = InState("running") /\ InState("queued")' = InState("queued")
    BY <1>7 DEF InState
  <2>2. ASSUME loop'.pc \in {"start", "mint"}, Claimed' \in SUBSET Claimed PROVE Slots'
    <3>1. Cardinality(Claimed') <= MaxConcurrent
      BY <2>2, FewerClaimed DEF Slots
    <3>2. SlotsInv'
      BY <1>7, <2>2, <3>1 DEF Slots, SlotsInv
    <3>3. WorkingClaimed'
      BY <1>1, <1>5, <2>1 DEF Slots, WorkingClaimed
    <3> QED BY <3>2, <3>3 DEF Slots
  <2>3. CASE loop' = [loop EXCEPT !.queue = loop.queue \ {r}]
    <3>1. loop'.pc = "start" /\ loop'.queue = loop.queue \ {r}
      BY <1>6, <2>3
    <3>2. Claimed' \in SUBSET Claimed
      BY <2>1, <3>1 DEF Claimed, RunLock
    <3> QED BY <2>2, <3>1, <3>2
  <2>4. CASE /\ runs[r].state = "queued"
             /\ loop' = [loop EXCEPT !.pc = "mint", !.queue = loop.queue \ {r}, !.run = r,
                                     !.prompt = items[runs[r].item].prompt]
    <3>1. loop'.pc = "mint" /\ loop'.queue = loop.queue \ {r} /\ loop'.run = r
      BY <1>3, <2>4 DEF LoopRows
    <3>2. r \in loop.queue \cap InState("queued")
      BY <1>2, <2>4 DEF InState
    <3>3. RunLock' = {r}
      BY <3>1 DEF RunLock
    <3>4. Claimed' \in SUBSET Claimed
      BY <2>1, <3>1, <3>2, <3>3 DEF Claimed
    <3> QED BY <2>2, <3>1, <3>4
  <2>5. CASE runs' = Ended(r, "failed", 0) /\ loop' = [loop EXCEPT !.queue = loop.queue \ {r}]
    BY <2>3, <2>5
  <2> QED BY <1>4, <2>3, <2>4, <2>5
<1>8. CASE /\ loop' = [loop EXCEPT !.queue = loop.queue \ {r}] /\ runs' = Ended(r, "failed", 0)
           /\ runs[r].state = "queued"
  <2>1. "failed" \in Outcomes /\ 0 \in Nat
    BY DEF Outcomes
  <2>2. Moves(r, "failed", runs[r].named, 0)
    BY <1>2, <1>3, <1>8, <2>1, EndMoves
  <2>3. loop'.pc = "start" /\ loop'.queue \subseteq loop.queue
    BY <1>6, <1>8
  <2>4. Calm' => r \notin Working'
    BY <1>1, <1>5, <1>8 DEF Slots, WorkingClaimed, InState
  <2> QED BY <1>1, <1>2, <1>5, <2>1, <2>2, <2>3, <2>4, EndSlots
<1> QED BY <1>4, <1>7, <1>8

\* A start that goes on keeps its slot.
LEMMA StartGoesSlots ==
  ASSUME RunsInv, Slots, Calm' => Calm, StartSecret \/ StartJob
  PROVE  Slots'
<1>1. /\ loop.pc \in {"mint", "secret"} /\ runs' = runs /\ jobs \in [Runs -> JobRows]
      /\ \E pc \in {"secret", "job"} : loop' = [loop EXCEPT !.pc = pc]
      /\ StartJob => loop' = [loop EXCEPT !.pc = "job"]
  BY DEF StartSecret, StartJob, RunsInv, Shaped
<1>2. PICK pc \in {"secret", "job"} : loop' = [loop EXCEPT !.pc = pc] /\ (StartJob => pc = "job")
  BY <1>1
<1>3. loop'.pc = pc /\ loop'.queue = loop.queue /\ loop'.run = loop.run
  BY <1>2 DEF RunsInv, Shaped, LoopOK, LoopRows
<1>4. loop.run \in Runs
  BY <1>1, RunStarted DEF Starting
<1>5. InState("running")' = InState("running") /\ InState("queued")' = InState("queued")
  BY <1>1 DEF InState
<1>6. Claimed' \in SUBSET Claimed
  BY <1>1, <1>3, <1>5 DEF Claimed, RunLock
<1>7. Cardinality(Claimed') <= MaxConcurrent
  BY <1>6, FewerClaimed DEF Slots
<1>8. SlotsInv'
  BY <1>1, <1>3, <1>7 DEF Slots, SlotsInv
<1>9. \A r \in Working' : r \in Working \/ (r = loop.run /\ pc = "job")
  <2>1. CASE StartSecret
    <3> DEFINE row == [jobs[loop.run] EXCEPT !.secret = TRUE]
    <3>1. jobs[loop.run] \in JobRows
      BY <1>1, <1>4
    <3>2. row.phase = jobs[loop.run].phase
      BY <3>1 DEF JobRows
    <3>3. jobs' = [jobs EXCEPT ![loop.run] = row]
      BY <2>1 DEF StartSecret
    <3> HIDE DEF row
    <3>4. \A r \in Runs : jobs'[r].phase = jobs[r].phase
      BY <1>1, <3>2, <3>3
    <3> QED BY <3>4 DEF Working
  <2>2. CASE StartJob
    <3>1. \A r \in Runs : r # loop.run => jobs'[r] = jobs[r]
      BY <1>1, <2>2 DEF StartJob
    <3> QED BY <1>2, <2>2, <3>1 DEF Working
  <2> QED BY <2>1, <2>2
<1>10. WorkingClaimed'
  <2>1. ASSUME Calm', NEW r \in Working' PROVE r \in InState("running")' \/ (loop'.pc = "job" /\ loop'.run = r)
    <3>1. r \in Working => r \in InState("running")
      BY <1>1, <2>1 DEF Slots, WorkingClaimed
    <3> QED BY <1>3, <1>5, <1>9, <2>1, <3>1
  <2> QED BY <2>1 DEF WorkingClaimed
<1> QED BY <1>8, <1>10 DEF Slots

\* The commit of a start: the run that was being started runs.
LEMMA CommitSlots ==
  ASSUME RunsInv, Slots, Calm' => Calm, StartCommit
  PROVE  Slots'
<1>1. /\ loop.pc = "job" /\ jobs' = jobs /\ loop' = [loop EXCEPT !.pc = "start"]
      /\ runs' = [runs EXCEPT ![loop.run].state = "running", ![loop.run].named = TRUE]
  BY DEF StartCommit
<1>2. loop.run \in DOMAIN runs /\ runs \in Seq(RunRows)
  BY <1>1, RunStarted DEF Starting
<1>3. PICK named \in BOOLEAN : named /\ Moves(loop.run, "running", named, runs[loop.run].pr)
  BY <1>1, <1>2, CommitMoves
<1>4. loop'.pc = "start" /\ loop'.queue = loop.queue
  BY <1>1 DEF RunsInv, Shaped, LoopOK, LoopRows
<1>5. /\ InState("running")' \subseteq InState("running") \cup {loop.run}
      /\ InState("queued")' \subseteq InState("queued")
      /\ InState("running") \cup {loop.run} \subseteq InState("running")'
  BY <1>2, <1>3, MovedStates DEF Moves, InState
<1>6. RunLock = {loop.run} /\ RunLock' = {}
  BY <1>1, <1>4 DEF RunLock
<1>7. Claimed' \in SUBSET Claimed
  BY <1>4, <1>5, <1>6 DEF Claimed
<1>8. Cardinality(Claimed') <= MaxConcurrent
  BY <1>7, FewerClaimed DEF Slots
<1>9. \A s \in DOMAIN runs' : runs'[s].state = "running" => runs'[s].named
  <2>1. \A s \in DOMAIN runs' : s = loop.run \/ (s \in DOMAIN runs /\ runs'[s] = runs[s])
    BY <1>2, <1>3, MovedStates
  <2>2. runs'[loop.run].named
    BY <1>3 DEF Moves
  <2> QED BY <2>1, <2>2 DEF Slots, SlotsInv
<1>10. SlotsInv'
  BY <1>4, <1>8, <1>9 DEF SlotsInv
<1>11. WorkingClaimed'
  <2>1. Working' = Working
    BY <1>1 DEF Working
  <2> QED BY <1>5, <2>1 DEF Slots, WorkingClaimed
<1> QED BY <1>10, <1>11 DEF Slots

\* A cancelled run gives its slot back with its Job.
LEMMA CancelSlots ==
  ASSUME RunsInv, Slots, Calm' => Calm, NEW r \in Runs, Cancel(r)
  PROVE  Slots'
<1>1. /\ loop' = loop /\ r \in DOMAIN runs /\ r \notin RunLock /\ runs[r].state \in Active
      /\ jobs' = (IF runs[r].named THEN [jobs EXCEPT ![r].phase = "gone"] ELSE jobs)
      /\ runs' = [runs EXCEPT ![r].state = "cancelled"]
  BY DEF Cancel
<1>2. runs \in Seq(RunRows) /\ jobs \in [Runs -> JobRows]
  BY DEF RunsInv, Shaped, RowsOK
<1>3. Moves(r, "cancelled", runs[r].named, runs[r].pr)
  BY <1>1, <1>2, CancelMoves
<1>4. /\ InState("running")' = InState("running") \ {r} /\ InState("queued")' = InState("queued") \ {r}
      /\ RunLock' = RunLock
  BY <1>1, <1>3, MovedStates DEF RunLock
<1>5. Claimed' \in SUBSET Claimed
  BY <1>1, <1>4 DEF Claimed
<1>6. Cardinality(Claimed') <= MaxConcurrent
  BY <1>5, FewerClaimed DEF Slots
<1>7. \A s \in DOMAIN runs' : runs'[s].state = "running" => runs'[s].named
  BY <1>1, <1>3, MovedStates DEF Slots, SlotsInv
<1>8. Working' \subseteq Working /\ (runs[r].named => r \notin Working')
  <2>1. CASE runs[r].named
    <3>1. jobs' = [jobs EXCEPT ![r].phase = "gone"] /\ jobs[r] \in JobRows
      BY <1>1, <1>2, <2>1
    <3>2. jobs'[r].phase = "gone" /\ \A s \in Runs : s # r => jobs'[s] = jobs[s]
      BY <1>2, <3>1 DEF JobRows
    <3> QED BY <3>2 DEF Working
  <2>2. CASE ~runs[r].named
    BY <1>1, <2>2 DEF Working
  <2> QED BY <2>1, <2>2
<1>9. SlotsInv'
  <2>1. loop.pc \in {"idle", "check", "ended"} => loop.queue = {}
    BY DEF Slots, SlotsInv
  <2>2. loop.pc = "ended" => loop.run \notin Working
    BY DEF Slots, SlotsInv
  <2> QED BY <1>1, <1>6, <1>7, <1>8, <2>1, <2>2 DEF SlotsInv
<1>10. ASSUME Calm' PROVE r \notin Working'
  <2>1. runs[r].state = "running" => runs[r].named
    BY <1>1 DEF Slots, SlotsInv
  <2>2. ~runs[r].named => r \notin Working
    BY <1>1, <1>10, <2>1 DEF Slots, WorkingClaimed, InState, RunLock
  <2> QED BY <1>8, <2>2
<1>11. WorkingClaimed'
  <2>1. ASSUME Calm', NEW s \in Working' PROVE s \in InState("running")' \/ (loop'.pc = "job" /\ loop'.run = s)
    <3>1. s # r /\ s \in Working
      BY <1>8, <1>10, <2>1
    <3> QED BY <1>1, <1>4, <2>1, <3>1 DEF Slots, WorkingClaimed
  <2> QED BY <2>1 DEF WorkingClaimed
<1> QED BY <1>9, <1>11 DEF Slots

\* A run that is queued claims nothing yet.
LEMMA QueueSlots ==
  ASSUME RunsInv, Slots, Calm' => Calm, NEW q \in requests, Queue(q)
  PROVE  Slots'
<1>1. loop' = loop /\ jobs' = jobs
  BY DEF Queue
<1>2. Working' = Working
  BY <1>1 DEF Working
<1>3. CASE runs' = runs
  BY <1>1, <1>2, <1>3, QuietSlots
<1>4. ASSUME NEW row, row.state = "queued", runs' = Append(runs, row) PROVE Slots'
  <2>1. runs \in Seq(RunRows) /\ loop.queue \subseteq DOMAIN runs
    BY DEF RunsInv, Shaped, RowsOK, LoopOK
  <2>2. /\ DOMAIN runs' = DOMAIN runs \cup {Len(runs) + 1} /\ runs'[Len(runs) + 1] = row
        /\ \A r \in DOMAIN runs : runs'[r] = runs[r]
    BY <1>4, <2>1
  <2>3. Len(runs) + 1 \notin DOMAIN runs
    BY RunExists
  <2>4. /\ InState("running")' = InState("running")
        /\ loop.queue \cap InState("queued")' = loop.queue \cap InState("queued")
    BY <1>4, <2>1, <2>2, <2>3 DEF InState
  <2>5. Claimed' \in SUBSET Claimed
    BY <1>1, <2>4 DEF Claimed, RunLock
  <2>6. Cardinality(Claimed') <= MaxConcurrent
    BY <2>5, FewerClaimed DEF Slots
  <2>7. \A s \in DOMAIN runs' : runs'[s].state = "running" => runs'[s].named
    BY <1>4, <2>2 DEF Slots, SlotsInv
  <2>8. SlotsInv'
    <3>1. /\ loop.pc \in {"idle", "check", "ended"} => loop.queue = {}
          /\ loop.pc = "ended" => loop.run \notin Working
      BY DEF Slots, SlotsInv
    <3> QED BY <1>1, <1>2, <2>6, <2>7, <3>1 DEF SlotsInv
  <2>9. WorkingClaimed'
    BY <1>1, <1>2, <2>4 DEF Slots, WorkingClaimed
  <2> QED BY <2>8, <2>9 DEF Slots
<1>5. runs' = runs \/ \E row : row.state = "queued" /\ runs' = Append(runs, row)
  BY DEF Queue
<1> QED BY <1>3, <1>4, <1>5

\* The runner's steps, and cancellations whose answer is lost, start no Job.
LEMMA NoneStarted ==
  ASSUME RunsInv, NEW r \in Runs, CancelLost(r) \/ Prepare(r) \/ Claude(r) \/ Push(r) \/ JobEnds(r)
  PROVE  runs' = runs /\ loop' = loop /\ Working' \subseteq Working
<1>1. jobs \in [Runs -> JobRows]
  BY DEF RunsInv, Shaped
<1>2. runs' = runs /\ loop' = loop /\ \A s \in Runs : s # r => jobs'[s] = jobs[s]
  BY <1>1 DEF CancelLost, Prepare, Claude, Push, JobEnds
<1>3. r \in Working' => r \in Working
  <2>1. jobs[r] \in JobRows
    BY <1>1
  <2>2. CASE Prepare(r) \/ Claude(r) \/ Push(r) \/ JobEnds(r)
    BY <2>2 DEF Prepare, Claude, Push, JobEnds, Working
  <2>3. CASE CancelLost(r)
    <3>1. jobs'[r].phase = "gone"
      BY <1>1, <2>1, <2>3 DEF CancelLost, JobRows
    <3> QED BY <3>1 DEF Working
  <2> QED BY <2>2, <2>3
<1> QED BY <1>2, <1>3 DEF Working

\* Every step keeps the slots.
LEMMA SlotsStep ==
  ASSUME RunsInv, Slots, [Next]_vars
  PROVE  Slots'
<1>1. Calm' => Calm
  BY CalmStays
<1>2. ASSUME runs' = runs, loop' = loop, jobs' = jobs PROVE Slots'
  <2>1. Working' = Working
    BY <1>2 DEF Working
  <2> QED BY <1>1, <1>2, <2>1, QuietSlots
<1>3. ASSUME \/ UNCHANGED vars \/ (WorkNext /\ UNCHANGED <<runVars, prVars>>)
             \/ (\E i \in Items : OutsidePr(i)) \/ (\E p \in DOMAIN prs : MergePr(p))
             \/ WatchRead \/ (\E w \in watch : WatchClose(w))
             \/ (\E i \in Items, guided \in BOOLEAN : Gate(i, guided))
      PROVE  runs' = runs /\ loop' = loop /\ jobs' = jobs
  BY <1>3 DEF vars, runVars, OutsidePr, MergePr, WatchRead, WatchClose, Gate
<1>4. ASSUME NEW r \in Runs, CancelLost(r) \/ Prepare(r) \/ Claude(r) \/ Push(r) \/ JobEnds(r) PROVE Slots'
  BY <1>1, <1>4, NoneStarted, QuietSlots
<1>5. ASSUME NEW r \in Runs, Cancel(r) \/ CheckFails(r) PROVE Slots'
  BY <1>1, <1>5, CancelSlots, ReadSlots
<1>6. ASSUME NEW q \in requests, Queue(q) PROVE Slots'
  BY <1>1, <1>6, QueueSlots
<1>7. CASE LoopStep \/ MintFails \/ StartLost \/ Crash
  BY <1>1, <1>7, ReadSlots, CountSlots, CheckWriteSlots, StartFailsSlots, StartReadSlots, StartGoesSlots,
     CommitSlots DEF LoopStep
<1> QED BY <1>2, <1>3, <1>4, <1>5, <1>6, <1>7 DEF Next

\* In the beginning no slot is taken.
LEMMA SlotsInit ==
  ASSUME Init
  PROVE  Slots
<1>1. runs = <<>> /\ loop = Idle /\ jobs = [r \in Runs |-> NoJob]
  BY DEF Init
<1>2. DOMAIN runs = {} /\ loop.pc = "idle" /\ loop.queue = {}
  BY <1>1, IdleOK
<1>3. Claimed = {} /\ Cardinality(Claimed) <= MaxConcurrent
  BY <1>2, FS_EmptySet, DispatchBounds DEF Claimed, InState, RunLock
<1>4. Working = {}
  BY <1>1 DEF Working, NoJob, None
<1> QED BY <1>2, <1>3, <1>4 DEF Slots, SlotsInv, WorkingClaimed

\* The slots, whatever happens.
LEMMA AlwaysInSlots == Spec => []Slots
<1>1. RunsInv /\ Slots /\ [Next]_vars => Slots'
  BY SlotsStep
<1> QED BY <1>1, SlotsInit, AlwaysSound, PTL DEF Spec
-----------------------------------------------------------------------------
(* Theorems *)

\* A field the owner edited keeps his value whatever passes were running, and the cursor is put past
\* no line that was stored in time, but for those sent to an LLM that answered and those that were
\* one too many for it (WorkItemService.edit and merge, IdeasState, IdeasPass.run): for every number
\* of items and lines stored in any order, every bound and every scenario.
THEOREM OwnerAlwaysWins == Spec => []ItemsSound
<1>1. ItemsInv => ItemsSound
  BY DEF ItemsInv, ItemsSound
<1> QED BY <1>1, AlwaysSound, PTL

\* What a run has pushed stays on its branch and the outcome of a run that ended is never replaced,
\* whatever is cancelled, restarted, refused or lost in between (dispatch service and runner).
THEOREM NothingUndone == Spec => RunsForward
<1>1. RunsInv /\ [Next]_vars => [Begins]_vars
  BY BranchesBegin
<1>2. RunsInv /\ [Next]_vars => [Stays]_vars
  BY OutcomesStay
<1>3. Spec => [][Begins]_vars
  BY <1>1, AlwaysSound, PTL DEF Spec
<1>4. Spec => [][Stays]_vars
  BY <1>2, AlwaysSound, PTL DEF Spec
<1>5. [][Begins]_vars <=> PushedStays
  BY DEF Begins, PushedStays
<1>6. [][Stays]_vars <=> OutcomeFinal
  BY DEF Stays, OutcomeFinal
<1> QED BY <1>3, <1>4, <1>5, <1>6 DEF RunsForward

\* A Job carries a prompt its item's owner approved and the very one that was queued, and no more Jobs
\* work than dispatch_max_concurrent allows unless a call failed or the process died (dispatch gate,
\* queue and start; DispatchService.tick and cancel): for every number of items and runs, and every limit.
THEOREM RunsAsApprovedAlways == Spec => []RunsSound
<1>1. RunsInv => DispatchTypeOK
  <2> SUFFICES ASSUME RunsInv PROVE DispatchTypeOK
    OBVIOUS
  <2>1. LoopOK /\ RowsOK /\ GitOK /\ jobs \in [Runs -> JobRows]
    BY DEF RunsInv, Shaped
  <2>2. Len(runs) <= MaxRuns /\ \A r \in DOMAIN runs :
          /\ runs[r].item \in Items /\ runs[r].state \in Active \cup Outcomes
          /\ runs[r].named \in BOOLEAN /\ runs[r].branch \in 1..r /\ runs[r].pr \in 0..Len(prs)
    <3>1. \A r \in DOMAIN runs : runs[r] \in RunRows
      BY RunExists
    <3> QED BY <2>1, <3>1 DEF RowsOK, RunRows
  <2>3. /\ loop.pc \in {"idle", "check", "ended", "start", "mint", "secret", "job"}
        /\ loop.todo \subseteq DOMAIN runs /\ loop.queue \subseteq DOMAIN runs
        /\ loop.run \in 0..Len(runs) /\ loop.verdict \in Outcomes \cup {None}
    BY <2>1 DEF LoopOK, LoopRows
  <2>4. ASSUME NEW r \in Runs
        PROVE  /\ jobs[r].phase \in Phases /\ jobs[r].secret \in BOOLEAN
               /\ Range(branches[r]) \subseteq DOMAIN runs
    <3>1. jobs[r] \in JobRows
      BY <2>1
    <3>2. jobs[r].phase \in Phases /\ jobs[r].secret \in BOOLEAN
      BY <3>1 DEF JobRows
    <3>3. Range(branches[r]) \subseteq DOMAIN runs
      BY <2>1 DEF GitOK, Range
    <3> QED BY <3>2, <3>3
  <2>5. \A p \in DOMAIN prs : /\ prs[p].item \in Items /\ prs[p].branch \in 0..Len(runs)
                              /\ prs[p].state \in {"open", "merged"}
    <3>1. prs \in Seq(PrRows)
      BY <2>1 DEF GitOK
    <3>2. \A p \in DOMAIN prs : prs[p] \in PrRows
      BY <3>1
    <3> QED BY <2>1, <3>2 DEF GitOK, PrRows
  <2>6. closedBy \in [Items -> SUBSET DOMAIN prs]
    BY <2>1 DEF GitOK
  <2> QED BY <2>2, <2>3, <2>4, <2>5, <2>6 DEF DispatchTypeOK, Phases
<1>2. RunsInv => RunsAsApproved
  BY DEF RunsInv, CarryApproved, RunsAsApproved
<1>3. RunsInv /\ Slots => JobsWithinLimit
  <2> SUFFICES ASSUME RunsInv, Slots, Calm PROVE Cardinality(Working) <= MaxConcurrent
    BY DEF JobsWithinLimit, Calm
  <2>1. Working \in SUBSET Claimed
    BY DEF Slots, WorkingClaimed, Claimed, RunLock
  <2>2. IsFiniteSet(Claimed) /\ Cardinality(Claimed) \in Nat
    BY ClaimedThere, RunsFinite
  <2>3. IsFiniteSet(Working) /\ Cardinality(Working) <= Cardinality(Claimed)
    BY <2>1, <2>2, FS_Subset
  <2>4. Cardinality(Working) \in Nat
    BY <2>3, FS_CardinalityType
  <2>5. Cardinality(Claimed) <= MaxConcurrent /\ MaxConcurrent \in Nat
    BY DispatchBounds DEF Slots, SlotsInv
  <2> QED BY <2>2, <2>3, <2>4, <2>5
<1>4. RunsInv /\ Slots => RunsSound
  BY <1>1, <1>2, <1>3 DEF RunsSound
<1> QED BY <1>4, AlwaysSound, AlwaysInSlots, PTL
=============================================================================
