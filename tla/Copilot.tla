------------------------------ MODULE Copilot -------------------------------
(***************************************************************************)
(* The live copilot of one session: a loop that asks the LLM what the new  *)
(* lines changed, merges the answer into the state it owns, stores a       *)
(* snapshot and publishes it; the spoken requests' task announces on the   *)
(* same channel, between any two awaits of the loop.  Clients keep the     *)
(* snapshot with the highest version.  A stretch of time is one final      *)
(* line; the LLM's answers are a set of deltas.                            *)
(***************************************************************************)
EXTENDS Intake, Functions

CONSTANTS MaxSegs, MinSegs, Ttl, MaxSuggestions, Deltas, SpokenProposals, Notes, CopilotScenarios

ASSUME CopilotBounds == {MaxSegs, MinSegs, Ttl, MaxSuggestions} \subseteq Nat

Proposals == Seq([what : STRING, when : STRING, cites : Nat, valid : BOOLEAN])
\* What the LLM may answer, and what may be proposed of a spoken request.
ASSUME AnswersShaped ==
  /\ Deltas \subseteq [upserts : Seq([id : Nat, text : STRING, due : STRING]), remove : SUBSET Nat, dismiss : SUBSET Nat,
                      suggest : STRING, topics : BOOLEAN, proposals : Proposals, title : BOOLEAN]
  /\ SpokenProposals \subseteq [incoming : Proposals, said : {"no date", "date"}]

VARIABLES
  segs,     \* final segments of the session, which is also the time
  seen,     \* those a cycle accounted for
  mem,      \* CopilotState
  cycle,    \* the loop's step and what it holds across its awaits
  spoken,   \* the voice task that announces, and its snapshot
  snaps,    \* the latest snapshot row (no older one is read)
  related,  \* related rows: the notes each surfaced
  client,   \* the snapshot a connected client shows
  title,    \* of the session: none, by the user, by the copilot
  coBudget

watchVars == <<segs, seen, cycle, title>>
copilotVars == <<intakeVars, watchVars, mem, spoken, snaps, related, client, coBudget>>

CopilotEvents == {"announce", "crash", "failed", "review", "rename", "voice"}
CoAffords(e) ==
  \E most \in CopilotScenarios : coBudget[e] < most[e] /\ \A f \in CopilotEvents : coBudget[f] <= most[f]
CoSpend(e) == CoAffords(e) /\ coBudget' = [coBudget EXCEPT ![e] = @ + 1]

\* Items and suggestions by id; ids count up, so the first of a list is the one with the least.
Blank == [version |-> 0, items |-> <<>>, suggestions |-> <<>>, related |-> {}]
NewState == [snap |-> Blank, shown |-> {}, nextItem |-> 1, nextSugg |-> 1]
NoDelta == [upserts |-> <<>>, remove |-> {}, dismiss |-> {}, suggest |-> "none", topics |-> FALSE,
            proposals |-> <<>>, title |-> FALSE]
Idle == [pc |-> "idle", delta |-> NoDelta, now |-> 0, untitled |-> FALSE, hits |-> {}, snap |-> Blank]

CopilotInit ==
  /\ IntakeInit /\ segs = 0 /\ seen = 0 /\ mem = NewState /\ cycle = Idle
  /\ spoken = [pc |-> "idle", snap |-> Blank] /\ snaps = Blank /\ related = <<>> /\ client = Blank
  /\ title = "none" /\ coBudget = [e \in CopilotEvents |-> 0]

-----------------------------------------------------------------------------
(* CopilotState *)

Put(f, id, row) == [i \in DOMAIN f \cup {id} |-> IF i = id THEN row ELSE f[i]]

\* A known id is changed in place; a text that is there already only refreshes its date.
Upsert(st, u) ==
  LET items == st.items
      same == {i \in DOMAIN items : items[i].text = u.text}
      due(old) == IF u.due = "none" THEN old ELSE u.due
  IN  IF u.id \in DOMAIN items THEN [st EXCEPT !.items[u.id] = [text |-> u.text, due |-> due(@.due)]]
      ELSE IF same # {} THEN [st EXCEPT !.items[Min(same)].due = due(@)]
      ELSE [items |-> Put(items, st.next, [text |-> u.text, due |-> u.due]), next |-> st.next + 1]

\* The items after each of the upserts.
Upserted(m, upserts) ==
  LET after[n \in 0..Len(upserts)] ==
        IF n = 0 THEN [items |-> m.snap.items, next |-> m.nextItem] ELSE Upsert(after[n - 1], upserts[n])
  IN  after[Len(upserts)]

LastOnes(s) == IF Cardinality(DOMAIN s) > MaxSuggestions THEN Restrict(s, DOMAIN s \ {Min(DOMAIN s)}) ELSE s
Bump(m, snap) == [m EXCEPT !.snap = [snap EXCEPT !.version = @ + 1]]

\* The suggestions with one more.
Suggest(m, text, now) == LastOnes(Put(m.snap.suggestions, m.nextSugg, [text |-> text, until |-> now + Ttl]))

ApplyDelta(m, d, now) ==
  LET upserted == Upserted(m, d.upserts)
      left == [m EXCEPT !.snap.items = Restrict(upserted.items, DOMAIN upserted.items \ d.remove),
                        !.snap.suggestions = Restrict(@, DOMAIN @ \ d.dismiss), !.nextItem = upserted.next]
      fresh == d.suggest # "none" /\ \A i \in DOMAIN left.snap.suggestions : left.snap.suggestions[i].text # d.suggest
      after == IF fresh THEN [left EXCEPT !.snap.suggestions = Suggest(left, d.suggest, now), !.nextSugg = @ + 1] ELSE left
  IN  IF after.snap = m.snap THEN after ELSE Bump(after, after.snap)

Expire(m, now) ==
  LET keep == Restrict(m.snap.suggestions, {i \in DOMAIN m.snap.suggestions : m.snap.suggestions[i].until > now})
  IN  IF keep = m.snap.suggestions THEN m ELSE Bump(m, [m.snap EXCEPT !.suggestions = keep])

\* A mutant: a notice is added to the version that clients may have.
NoticeQuietly(m, now) == [m EXCEPT !.snap.suggestions = Suggest(m, "notice", now), !.nextSugg = @ + 1]

Notice(m, now) ==
  [Bump(m, [m.snap EXCEPT !.suggestions = Suggest(m, "notice", now)]) EXCEPT !.nextSugg = @ + 1]

SetRelated(m, hits) ==
  [Bump(m, [m.snap EXCEPT !.related = hits]) EXCEPT !.shown = @ \cup hits]

FromSnapshot(snap, shown) ==
  [snap |-> snap, shown |-> shown \cup snap.related,
   nextItem |-> Max({0} \cup DOMAIN snap.items) + 1, nextSugg |-> Max({0} \cup DOMAIN snap.suggestions) + 1]

-----------------------------------------------------------------------------
(* The loop *)

\* A final line arrives.
Segment ==
  /\ segs < MaxSegs /\ segs' = segs + 1
  /\ UNCHANGED <<intakeVars, seen, cycle, title, mem, spoken, snaps, related, client, coBudget>>

\* One scheduling decision.  With fewer new lines than MinSegs the wait may be over or not.
Look ==
  LET m == Expire(mem, segs)
      cycles == segs > seen
  IN  /\ cycle.pc = "idle" /\ mem' = m
      /\ \/ /\ cycles /\ seen' = segs
            /\ cycle' = [Idle EXCEPT !.pc = "ask", !.now = segs, !.untitled = title = "none"]
         \/ /\ segs - seen < MinSegs /\ m # mem /\ UNCHANGED seen
            /\ cycle' = [Idle EXCEPT !.pc = "persist", !.snap = m.snap]
      /\ UNCHANGED <<intakeVars, segs, title, spoken, snaps, related, client, coBudget>>

\* The LLM answers, and what it proposes goes through the intake first; or it fails, and the cycle
\* is skipped.
LlmAnswers(d) ==
  /\ cycle.pc = "ask" /\ cycle' = [cycle EXCEPT !.pc = "propose", !.delta = d]
  /\ Enter("copilot", d.proposals, 1..segs, "no")
  /\ UNCHANGED <<queue, states, lock, segs, seen, title, mem, spoken, snaps, related, client, coBudget>>

LlmFails ==
  /\ cycle.pc = "ask" /\ CoSpend("failed") /\ cycle' = Idle
  /\ UNCHANGED <<intakeVars, segs, seen, title, mem, spoken, snaps, related, client>>

\* _name_session: only while there is none.
NameSession == title' = IF title = "none" THEN "copilot" ELSE title

\* The delta is merged.  Notes of the vault that were not shown yet may match its topics.
Merge ==
  LET m == ApplyDelta(mem, cycle.delta, cycle.now)
  IN  /\ cycle.pc = "propose" /\ door["copilot"].pc = "done"
      /\ door' = [door EXCEPT !["copilot"] = NoDoor] /\ UNCHANGED <<queue, states, lock>>
      /\ IF cycle.untitled /\ cycle.delta.title THEN NameSession ELSE UNCHANGED title
      /\ mem' = m
      /\ \/ /\ cycle.delta.topics
            /\ \E hits \in SUBSET (Notes \ mem.shown) \ {{}} : cycle' = [Idle EXCEPT !.pc = "related", !.hits = hits]
         \/ cycle' = IF m.snap = mem.snap THEN Idle ELSE [Idle EXCEPT !.pc = "persist", !.snap = m.snap]
      /\ UNCHANGED <<segs, seen, spoken, snaps, related, client, coBudget>>

\* What is shown is stored before it is shown.
StoreRelated ==
  /\ cycle.pc = "related" /\ related' = Append(related, cycle.hits)
  /\ cycle' = [cycle EXCEPT !.pc = "setrelated"]
  /\ UNCHANGED <<intakeVars, segs, seen, title, mem, spoken, snaps, client, coBudget>>

ShowRelated ==
  LET m == SetRelated(mem, cycle.hits)
  IN  /\ cycle.pc = "setrelated" /\ mem' = m
      /\ cycle' = [cycle EXCEPT !.pc = "persist", !.snap = m.snap]
      /\ UNCHANGED <<intakeVars, segs, seen, title, spoken, snaps, related, client, coBudget>>

\* _publish: a snapshot is stored, then sent.  Clients ignore one that is not newer than theirs.
Shown(snap) == IF snap.version > client.version THEN snap ELSE client

Persist ==
  /\ cycle.pc = "persist" /\ snaps' = cycle.snap /\ client' = Shown(cycle.snap)
  /\ cycle' = Idle
  /\ UNCHANGED <<intakeVars, segs, seen, title, mem, spoken, related, coBudget>>

PersistFails ==
  /\ cycle.pc \in {"persist", "related"} /\ CoSpend("failed") /\ cycle' = Idle
  /\ UNCHANGED <<intakeVars, segs, seen, title, mem, spoken, snaps, related, client>>

-----------------------------------------------------------------------------
(* Spoken requests, the owner and the process *)

Announce ==
  /\ spoken.pc = "idle" /\ CoSpend("announce") /\ mem' = Notice(mem, segs)
  /\ spoken' = [pc |-> "persist", snap |-> Notice(mem, segs).snap]
  /\ UNCHANGED <<intakeVars, watchVars, snaps, related, client>>

AnnouncePersist ==
  /\ spoken.pc = "persist" /\ snaps' = spoken.snap /\ client' = Shown(spoken.snap)
  /\ spoken' = [pc |-> "idle", snap |-> Blank]
  /\ UNCHANGED <<intakeVars, watchVars, mem, related, coBudget>>

\* The voice pass proposes what was asked for aloud.
VoiceProposes(incoming, said) ==
  /\ door["voice"].pc \in {"idle", "done"} /\ CoSpend("voice") /\ Enter("voice", incoming, 1..segs, said)
  /\ UNCHANGED <<queue, states, lock, watchVars, mem, spoken, snaps, related, client>>

Intaking(p) == Propose(p) /\ UNCHANGED <<watchVars, mem, spoken, snaps, related, client, coBudget>>
IntakeFails(p) ==
  AdmitFails(p) /\ CoSpend("failed") /\ UNCHANGED <<watchVars, mem, spoken, snaps, related, client>>
OwnerReviews(row) ==
  Review(row) /\ CoSpend("review") /\ UNCHANGED <<watchVars, mem, spoken, snaps, related, client>>

Rename ==
  /\ title # "user" /\ CoSpend("rename") /\ title' = "user"
  /\ UNCHANGED <<intakeVars, segs, seen, cycle, mem, spoken, snaps, related, client>>

\* A new process picks up the last snapshot; a client that connects again shows that one.
Crash ==
  LET shown == UNION Range(related)
  IN  /\ CoSpend("crash") /\ ForgetIntake /\ cycle' = Idle /\ seen' = segs
      /\ spoken' = [pc |-> "idle", snap |-> Blank]
      /\ mem' = FromSnapshot(snaps, shown)
      /\ UNCHANGED <<segs, title, snaps, related, client>>

Loop == Look \/ (\E d \in Deltas : LlmAnswers(d)) \/ Merge \/ StoreRelated \/ ShowRelated \/ Persist
CopilotNext ==
  \/ Segment \/ Loop \/ LlmFails \/ PersistFails \/ Announce \/ AnnouncePersist \/ Rename \/ Crash
  \/ \E v \in SpokenProposals : VoiceProposes(v.incoming, v.said)
  \/ \E p \in Producers : Intaking(p) \/ IntakeFails(p)
  \/ \E row \in queue : OwnerReviews(row)

-----------------------------------------------------------------------------
(* Properties *)

\* A snapshot's version, items and suggestions are in the bounds the state keeps.
SnapOK(snap) == snap.version \in Nat /\ Cardinality(DOMAIN snap.suggestions) <= MaxSuggestions /\ snap.related \subseteq Notes
CopilotTypeOK ==
  /\ segs \in 0..MaxSegs /\ seen \in 0..segs /\ title \in {"none", "user", "copilot"}
  /\ SnapOK(mem.snap) /\ SnapOK(snaps) /\ SnapOK(client) /\ SnapOK(cycle.snap) /\ SnapOK(spoken.snap)
  /\ mem.shown \subseteq Notes /\ mem.nextItem \in Nat /\ mem.nextSugg \in Nat
  /\ cycle.pc \in {"idle", "ask", "propose", "related", "setrelated", "persist"}
  /\ spoken.pc \in {"idle", "persist"}

\* A note of the vault is surfaced once in a session, past restarts: it is stored as shown before
\* it is shown.
ShownOnce == \A i, j \in DOMAIN related : related[i] \cap related[j] # {} => i = j

\* The copilot names a session once, and never one that its user has named since the cycle began.
TitleKept == [][title # "none" => title' \in {title, "user"}]_copilotVars

\* What clients show catches up with the copilot's state, whichever of the two tasks published it,
\* as long as no write failed and the process did not start anew.  (A suggestion that expires as a
\* cycle begins is dropped without a word if that cycle changes nothing.)
Undisturbed == coBudget["failed"] = 0 /\ coBudget["crash"] = 0
Current(snap) == <<snap.items, snap.related, Expire([snap |-> snap], segs).snap.suggestions>>
ClientCatchesUp == []<>(Undisturbed => Current(client) = Current(mem.snap))

\* What the copilot keeps over its cycles, its failures and restarts: the refs of its proposals,
\* how many of them are open, and which notes it has shown.
CopilotSound == IntakeTypeOK /\ CopilotTypeOK /\ RefsUnique /\ OpenCap /\ ShownOnce
=============================================================================
