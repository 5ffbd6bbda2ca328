----------------------------- MODULE WorkItems -----------------------------
(***************************************************************************)
(* The work items of one session: proposed and refined by the ideas pass,  *)
(* and reviewed by the session's owner.                                    *)
(*                                                                         *)
(* An item's criteria stand for its intent and done_when too, and a        *)
(* rendered prompt is the content it is rendered from, so equal prompts    *)
(* have equal sha256.  The actor is the owner, signed in on the dashboard: *)
(* anyone else is refused before anything changes.  Items are numbered in  *)
(* the order of their refs, transcript lines in the order in which they    *)
(* were said (by their ends): two workers and the lines held for the       *)
(* duplicate guard may store them in any other order.                      *)
(***************************************************************************)
EXTENDS Naturals, FiniteSets, FiniteSetsExt

CONSTANTS NItems, Titles, Repos, Criteria,
          MaxLines,       \* lines that are said
          IdeasMaxLines,  \* ideas_max_lines: a pass sends no more than these
          Overlap,        \* ideas_overlap_s, in lines
          MaxOpen,        \* MAX_OPEN_ITEMS
          MaxSources,     \* MAX_SOURCES
          Scenarios       \* bounds on what may happen, and fail: how often each, together

\* Lines that are stored in order and before one that was said earlier, passes and their upserts,
\* what the owner does, failing LLM, GitHub and Kubernetes calls, calls whose answer is lost, pull
\* requests from outside and ones that merge, and deaths of the process.
Events == {"hear", "overtake", "pass", "upsert", "edit", "review", "close", "reopen", "merge",
           "request", "cancel", "llm", "refused", "lost", "outside", "mergepr", "crash"}

ASSUME WorkItemsBounds ==
  /\ {NItems, MaxLines, IdeasMaxLines, Overlap, MaxOpen, MaxSources} \subseteq Nat
  /\ IdeasMaxLines > 0
  /\ Scenarios \subseteq [Events -> Nat]

Items == 1..NItems
Lines == 1..MaxLines
None == "none"
Fields == {"title", "repo", "criteria"}
Closed == {"approved", "discarded", "merged", "done"}

VARIABLES
  items,      \* the WorkItem rows
  ideas,      \* the transcript, the ideas cursor, and the pass that runs; history: the lines that
              \* were sent to an LLM that answered, and those that were stored late
  said,       \* history: what the owner last gave each field
  approvals,  \* history: the prompts the owner approved, with their items
  budget

workVars == <<items, ideas, said, approvals>>

Blank == [title |-> None, repo |-> None, criteria |-> {}]
NoPrompt == [title |-> None, repo |-> None, criteria |-> {}, sources |-> {}]
NoItem == [state |-> None, text |-> Blank, sources |-> {}, locked |-> {}, prompt |-> NoPrompt,
           mergedPr |-> 0]

WorkInit ==
  /\ items = [i \in Items |-> NoItem]
  /\ ideas = [heard |-> {}, cursor |-> 0, considered |-> {}, late |-> {}, pass |-> "idle", sent |-> {}]
  /\ said = [i \in Items |-> Blank]
  /\ approvals = {}
  /\ budget = [e \in Events |-> 0]

Affords(event) ==
  \E most \in Scenarios : budget[event] < most[event] /\ \A e \in Events : budget[e] <= most[e]
Spend(event) == Affords(event) /\ budget' = [budget EXCEPT ![event] = @ + 1]

-----------------------------------------------------------------------------
(* The ideas pass *)

\* A line that ends before the cursor, or before a line that a running pass has already read.
Late(l) == l <= ideas.cursor \/ \E m \in ideas.sent : l <= m

\* A final segment is stored.  Each channel has its worker, and a line of the microphone may be
\* held until the system channel has settled: it may come after lines that were said later.
Hear(l) ==
  /\ l \notin ideas.heard
  /\ ideas' = [ideas EXCEPT !.heard = @ \cup {l}, !.late = IF Late(l) THEN @ \cup {l} ELSE @]
  /\ Spend(IF \E m \in Lines : m < l /\ m \notin ideas.heard THEN "overtake" ELSE "hear")
  /\ UNCHANGED <<items, said, approvals>>

\* The newest of the lines since the overlap, no more than the limit.
Window(cursor, heard) ==
  {l \in heard : l + Overlap > cursor /\ Cardinality({m \in heard : m > l}) < IdeasMaxLines}

\* A pass is due, or the session ends: it reads the lines and the items, and asks the LLM.
PassRead ==
  /\ ideas.pass = "idle" /\ \E l \in ideas.heard : l > ideas.cursor
  /\ ideas' = [ideas EXCEPT !.pass = "asked", !.sent = Window(ideas.cursor, ideas.heard)]
  /\ Spend("pass")
  /\ UNCHANGED <<items, said, approvals>>

\* The LLM fails: the cursor stays, so that the next pass sends these lines again.
PassFails ==
  /\ ideas.pass = "asked"
  /\ ideas' = [ideas EXCEPT !.pass = "idle", !.sent = {}]
  /\ Spend("llm")
  /\ UNCHANGED <<items, said, approvals>>

\* The answer is merged in one transaction that holds the row locks of every item.  Until it
\* commits, whoever changes an item waits; a death in it is one before it.
Unlocked == ideas.pass # "storing"
PassLocks ==
  /\ ideas.pass = "asked"
  /\ ideas' = [ideas EXCEPT !.pass = "storing"]
  /\ UNCHANGED <<items, said, approvals, budget>>

Open(i) == items[i].state = "draft"
Earliest(lines) == {l \in lines : Cardinality({m \in lines : m <= l}) <= MaxSources}
\* Only lines that are new to an item make its sources be cut to the limit: a merge's are not.
Sourced(sources, lines) == IF lines \subseteq sources THEN sources ELSE Earliest(sources \cup lines)

\* A mutant: a field the owner edited is overwritten.
RefinedUnlocked(item, up) ==
  [item EXCEPT !.text = [title    |-> IF up.title # None THEN up.title ELSE @.title,
                         repo     |-> IF up.repo # None THEN up.repo ELSE @.repo,
                         criteria |-> IF up.criteria # {} THEN up.criteria ELSE @.criteria],
               !.sources = Sourced(@, up.lines)]

\* What the proposal gives replaces what the item has, but for what the owner edited.
Refined(item, up) ==
  LET put(f, given) == IF given /\ f \notin item.locked THEN up[f] ELSE item.text[f]
  IN [item EXCEPT !.text = [title    |-> put("title", up.title # None),
                            repo     |-> put("repo", up.repo # None),
                            criteria |-> put("criteria", up.criteria # {})],
                  !.sources = Sourced(@, up.lines)]

\* The item a proposal is about: by its ref, else an open one with that title.
Matched(up) ==
  IF up.ref \in Items /\ items[up.ref].state # None
  THEN {up.ref}
  ELSE LET twins == {i \in Items : Open(i) /\ items[i].text.title = up.title}
       IN IF twins = {} THEN {} ELSE {Min(twins)}

\* A title like that of a closed item, or one item too many, creates nothing.
MayCreate(title) ==
  /\ title # None
  /\ \A i \in Items : items[i].state \in Closed => items[i].text.title # title
  /\ Cardinality({i \in Items : Open(i)}) < MaxOpen

\* One entry of the answer is applied.
Upsert(up) ==
  /\ ideas.pass = "storing"
  /\ Spend("upsert")
  /\ \/ \E i \in Matched(up) : /\ Open(i)
                               /\ items' = [items EXCEPT ![i] = Refined(@, up)]
     \/ /\ Matched(up) = {} /\ up.lines # {} /\ MayCreate(up.title)
        /\ \E i \in Items :
             /\ items[i].state = None /\ \A j \in Items : j < i => items[j].state # None
             /\ items' = [items EXCEPT ![i] = [Refined(NoItem, up) EXCEPT !.state = "draft"]]
  /\ UNCHANGED <<ideas, said, approvals>>

\* The transaction commits, with the cursor at the last line that was sent.
PassStored ==
  /\ ideas.pass = "storing"
  /\ ideas' = [ideas EXCEPT !.pass = "idle", !.sent = {}, !.cursor = Max(ideas.sent),
                            !.considered = @ \cup ideas.sent]
  /\ UNCHANGED <<items, said, approvals, budget>>

-----------------------------------------------------------------------------
(* The owner's review: each in a transaction that holds the row's lock *)

Unfrozen(item) == [item EXCEPT !.prompt = NoPrompt, !.state = IF @ = "approved" THEN "draft" ELSE @]
Changed(old, new) == {f \in Fields : old[f] # new[f]}

\* Edits lock what they change against the LLM, and take an approval back.
Edit(i, text) ==
  LET changed == Changed(items[i].text, text) IN
  /\ Unlocked /\ items[i].state \in {"draft", "approved"}
  /\ text.title # None /\ changed # {}
  /\ items' = [items EXCEPT ![i] = [Unfrozen(@) EXCEPT !.text = text, !.locked = items[i].locked \cup changed]]
  /\ said' = [said EXCEPT ![i] = [f \in Fields |-> IF f \in changed THEN text[f] ELSE @[f]]]
  /\ Spend("edit")
  /\ UNCHANGED <<ideas, approvals>>

Approvable(item) == item.text.repo # None /\ item.text.title # None /\ item.text.criteria # {}
Render(item) == [title |-> item.text.title, repo |-> item.text.repo,
                 criteria |-> item.text.criteria, sources |-> item.sources]

\* An approval freezes the prompt.
Approve(i) ==
  /\ Unlocked /\ Open(i) /\ Approvable(items[i])
  /\ items' = [items EXCEPT ![i].state = "approved", ![i].prompt = Render(items[i])]
  /\ approvals' = approvals \cup {<<i, Render(items[i])>>}
  /\ Spend("review")
  /\ UNCHANGED <<ideas, said>>

Unapprove(i) ==
  /\ Unlocked /\ items[i].state = "approved"
  /\ items' = [items EXCEPT ![i] = Unfrozen(@)]
  /\ Spend("review")
  /\ UNCHANGED <<ideas, said, approvals>>

Discard(i) ==
  /\ Unlocked /\ items[i].state \in {"draft", "approved"}
  /\ items' = [items EXCEPT ![i] = [Unfrozen(@) EXCEPT !.state = "discarded"]]
  /\ Spend("close")
  /\ UNCHANGED <<ideas, said, approvals>>

Restore(i) ==
  /\ Unlocked /\ items[i].state = "discarded"
  /\ items' = [items EXCEPT ![i].state = "draft"]
  /\ Spend("reopen")
  /\ UNCHANGED <<ideas, said, approvals>>

\* The frozen prompt stays, for a reopen.
Done(i) ==
  /\ Unlocked /\ items[i].state \in {"draft", "approved"}
  /\ items' = [items EXCEPT ![i].state = "done"]
  /\ Spend("close")
  /\ UNCHANGED <<ideas, said, approvals>>

Reopen(i) ==
  /\ Unlocked /\ items[i].state = "done"
  /\ items' = [items EXCEPT ![i].state = IF items[i].prompt = NoPrompt THEN "draft" ELSE "approved"]
  /\ Spend("reopen")
  /\ UNCHANGED <<ideas, said, approvals>>

\* Drafts are folded into one, which the LLM no longer rewrites.
Merge(into, from) ==
  LET all == from \cup {into} IN
  /\ Unlocked /\ from # {} /\ into \notin from /\ \A i \in all : Open(i)
  /\ \E repo \in IF items[into].text.repo # None THEN {items[into].text.repo}
                 ELSE IF \A i \in from : items[i].text.repo = None THEN {None}
                 ELSE {items[i].text.repo : i \in from} \ {None} :
       LET text == [title |-> items[into].text.title, repo |-> repo,
                    criteria |-> UNION {items[i].text.criteria : i \in all}]
       IN /\ items' = [i \in Items |->
                         IF i \in from THEN [items[i] EXCEPT !.state = "merged"]
                         ELSE IF i = into
                         THEN [items[i] EXCEPT !.text = text, !.locked = Fields,
                                 !.sources = UNION {items[j].sources : j \in all}]
                         ELSE items[i]]
          /\ said' = [said EXCEPT ![into] = text]
  /\ Spend("merge")
  /\ UNCHANGED <<ideas, approvals>>

Texts == [title : Titles \cup {None}, repo : Repos \cup {None}, criteria : SUBSET Criteria]

WorkNext ==
  \/ (\E l \in Lines : Hear(l)) \/ PassRead \/ PassFails \/ PassLocks \/ PassStored
  \/ \E text \in Texts, ref \in Items \cup {0}, lines \in SUBSET ideas.sent :
       Upsert([ref |-> ref, title |-> text.title, repo |-> text.repo, criteria |-> text.criteria,
               lines |-> lines])
  \/ \E i \in Items : \/ Approve(i) \/ Unapprove(i) \/ Discard(i) \/ Restore(i) \/ Done(i)
                      \/ Reopen(i)
                      \/ \E text \in Texts : Edit(i, text)
                      \/ \E from \in SUBSET Items : Merge(i, from)

-----------------------------------------------------------------------------
(* Properties *)

\* The rows of items and the pass are what the ORM's columns allow.
ItemRows ==
  [state : Closed \cup {None, "draft"}, text : Texts, sources : SUBSET Lines, locked : SUBSET Fields,
   prompt : [title : Titles \cup {None}, repo : Repos \cup {None}, criteria : SUBSET Criteria,
             sources : SUBSET Lines],
   mergedPr : Nat]
WorkTypeOK ==
  /\ items \in [Items -> ItemRows]
  /\ ideas \in [heard : SUBSET Lines, cursor : 0..MaxLines, considered : SUBSET Lines,
               late : SUBSET Lines, pass : {"idle", "asked", "storing"}, sent : SUBSET Lines]
  /\ said \in [Items -> Texts]
  /\ \A a \in approvals : a[1] \in Items /\ a[2].title \in Titles /\ a[2].repo \in Repos

\* A field the owner edited or merged keeps the owner's value, whatever passes were running
\* when it was edited (IdeasState._update, WorkItemService.edit and merge).
OwnerWins ==
  \A i \in Items : \A f \in items[i].locked : items[i].text[f] = said[i][f]

\* More lines than a pass takes were said after this one, up to where the cursor is put.
OneTooMany(l, until) == Cardinality({m \in ideas.heard : l < m /\ m <= until}) >= IdeasMaxLines

\* The cursor is put past no line that was stored before its pass read the transcript: such a
\* line was sent to an LLM that answered, then or in an earlier pass, or was left out because
\* more than ideas_max_lines were waiting (IdeasPass.run).
LinesConsidered ==
  \A l \in ideas.heard :
    l <= ideas.cursor => l \in ideas.considered \/ l \in ideas.late \/ OneTooMany(l, ideas.cursor)

\* What is proposed to the owner is his where he touched it, and what was stored in time is not
\* passed over.
ItemsSound == WorkTypeOK /\ OwnerWins /\ LinesConsidered

\* A session that ends where no line is past the cursor, so that its last pass has nothing new to
\* send, has had every line considered that was not one too many (IdeasPass.run, and what
\* docs/plans/copilot-to-claude-code.md:139 says of the flush).
FlushLeavesNothing ==
  ideas.pass = "idle" /\ (\A l \in ideas.heard : l <= ideas.cursor) =>
    \A l \in ideas.heard : l \in ideas.considered \/ OneTooMany(l, ideas.cursor)
=============================================================================
