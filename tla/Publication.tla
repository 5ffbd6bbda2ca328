---------------------------- MODULE Publication -----------------------------
(***************************************************************************)
(* The note of one finished session on its way to the vault repository: a  *)
(* branch and a pull request, what the owner does with them here, what     *)
(* others do with them on GitHub, and the trash and the restriction that   *)
(* keep a session out of it.                                               *)
(*                                                                         *)
(* A text is a number; a commit is the text it commits.  The operations on *)
(* the note run one at a time under the session's in-process lock, and op  *)
(* is the one that holds it, with what it has read.  Between two of its    *)
(* steps others move: GitHub's users, the finalizer, the trash.            *)
(***************************************************************************)
EXTENDS Naturals, Sequences, FiniteSets

CONSTANT PublicationScenarios  \* how often each event may happen

VARIABLES
  session,  \* status, deleted_at, purge_after passed, restricted; or purged for good
  text,     \* the note in the outbox; 0: there is none
  used,     \* how many texts exist
  secret,   \* the texts that carry the restriction's tag
  pub,      \* the NotePublication row
  op,       \* the holder of PublishService.lock
  run,      \* the finalizer's run, with the flag it has read
  asked,    \* automatic publications between their reading and their publish()
  branch,   \* GitHub: the session's branch; 0: there is none
  prs,      \* GitHub: the pull requests, in the order they were opened
  vault,    \* GitHub: the file on the base branch
  budget    \* how often each event has happened

localVars == <<session, text, used, secret, run, asked>>
gitVars == <<branch, prs, vault>>
publicationVars == <<localVars, pub, op, gitVars, budget>>

PublicationEvents == {"edit", "publish", "merge", "close", "skip", "unskip", "regenerate", "lift", "delete",
           "restore", "push", "outside", "refused", "lost", "crash", "all"}

NoPublication == [state |-> "none", pr |-> 0, text |-> 0, stale |-> FALSE]
Free == [name |-> "none", pc |-> "idle", by |-> "none", text |-> 0, blob |-> 0, pr |-> "none"]
InFlight == {"open", "publishing"}

Affords(e) ==
  \E most \in PublicationScenarios : budget[e] < most[e] /\ \A f \in PublicationEvents : budget[f] <= most[f]
Spend(e) == Affords(e) /\ budget' = [budget EXCEPT ![e] = @ + 1]
Fresh == used' = used + 1

PublicationInit ==
  /\ \E r \in BOOLEAN :
       /\ session = [status |-> "done", deleted |-> "no", due |-> FALSE, restricted |-> r,
                     gone |-> FALSE]
       /\ secret = IF r THEN {1} ELSE {}
  /\ text = 1 /\ used = 1 /\ pub = NoPublication /\ op = Free /\ run = "none" /\ asked = {}
  /\ branch = 0 /\ prs = <<>> /\ vault = 0
  /\ budget = [e \in PublicationEvents |-> 0]

\* A request reaches its handler only for a session that is not in the trash.
Visible == ~session.gone /\ session.deleted = "no"
Finished == session.status = "done"
Locked == op # Free
OpenPrs == {p \in DOMAIN prs : prs[p].state = "open"}
Hold(name, pc, by) == op' = [Free EXCEPT !.name = name, !.pc = pc, !.by = by, !.text = text]
Step(pc) == op' = [op EXCEPT !.pc = pc]
At(name, pc) == op.name = name /\ op.pc = pc
Release == op' = Free

-----------------------------------------------------------------------------
(* GitHub *)

\* A leftover branch of the same name is reset to the base.
EnsureBranch == branch' = vault /\ UNCHANGED <<prs, vault>>

\* A commit must quote the blob it replaces.
Quoted == branch = op.blob
PutFile == branch' = op.text /\ UNCHANGED <<prs, vault>>

\* The pull request that is open for the branch already is the answer.
OpenPr ==
  /\ prs' = IF OpenPrs = {} THEN Append(prs, [state |-> "open", text |-> 0]) ELSE prs
  /\ UNCHANGED <<branch, vault>>

End(p, state) == prs' = [prs EXCEPT ![p] = [state |-> state, text |-> branch]]

\* GitHub merges only if the head is still the one it is told.
Mergeable(p, head) == prs[p].state = "open" /\ branch = head
MergePr(p) == End(p, "merged") /\ vault' = branch /\ UNCHANGED branch

\* Closing a pull request that is not open changes nothing.
ClosePr(p) ==
  /\ IF prs[p].state = "open" THEN End(p, "closed") ELSE UNCHANGED prs
  /\ UNCHANGED <<branch, vault>>

\* Deleting a branch closes what is open for it.
DeleteBranch ==
  /\ branch' = 0
  /\ prs' = [p \in DOMAIN prs |-> IF prs[p].state = "open"
                                  THEN [state |-> "closed", text |-> branch] ELSE prs[p]]
  /\ UNCHANGED vault

OutsidePush ==
  /\ Spend("push") /\ branch # 0 /\ Fresh /\ branch' = used'
  /\ UNCHANGED <<session, text, secret, run, asked, pub, op, prs, vault>>

OutsideEnds(p) ==
  /\ Spend("outside") /\ p \in OpenPrs
  /\ \/ End(p, "merged") /\ vault' = branch
     \/ End(p, "closed") /\ UNCHANGED vault
  /\ UNCHANGED <<localVars, pub, op, branch>>

\* A call is answered, is refused before it did anything, or does it and its answer is lost.
Call(accepted, Effect, Answered, Failed) ==
  /\ \/ accepted /\ Effect /\ Answered /\ UNCHANGED budget
     \/ accepted /\ Effect /\ Failed /\ Spend("lost")
     \/ UNCHANGED gitVars /\ Failed /\ IF accepted THEN Spend("refused") ELSE UNCHANGED budget
  /\ UNCHANGED localVars

-----------------------------------------------------------------------------
(* publish *)

Publishable ==
  /\ Finished /\ ~session.restricted /\ text # 0
  /\ pub.state # "open" /\ ~(pub.state = "merged" /\ pub.text = text)

\* The owner's request, the finalizer's, or one of publish-all.
PublishNote(by) ==
  /\ ~Locked /\ Visible /\ Publishable
  /\ IF by = "owner" THEN Spend("publish") /\ UNCHANGED asked
                     ELSE by \in asked /\ asked' = asked \ {by} /\ UNCHANGED budget
  /\ pub' = [pub EXCEPT !.state = "publishing", !.pr = 0, !.stale = FALSE]
  /\ Hold("publish", "branch", by)
  /\ UNCHANGED <<session, text, used, secret, run, gitVars>>

\* A refused automatic publication is logged.
PublishRefused(by) ==
  /\ by \in asked /\ ~Locked /\ ~(Visible /\ Publishable)
  /\ asked' = asked \ {by}
  /\ UNCHANGED <<session, text, used, secret, run, pub, op, gitVars, budget>>

Fail == pub' = [pub EXCEPT !.state = "failed"] /\ Release

PublishBranch == At("publish", "branch") /\ Call(TRUE, EnsureBranch, Step("blob") /\ UNCHANGED pub, Fail)

ReadBlob(failed) ==
  /\ op.pc = "blob"
  /\ \/ op' = [op EXCEPT !.pc = "put", !.blob = branch] /\ UNCHANGED <<pub, budget>>
     \/ failed /\ Spend("refused")
  /\ UNCHANGED <<localVars, gitVars>>

PublishBlob == op.name = "publish" /\ ReadBlob(Fail)
PublishPut == At("publish", "put") /\ Call(Quoted, PutFile, Step("pr") /\ UNCHANGED pub, Fail)
PublishPr ==
  /\ At("publish", "pr")
  /\ Call(TRUE, OpenPr, Step("record") /\ UNCHANGED pub, Fail)

PublishRecord ==
  /\ At("publish", "record") /\ Release
  /\ pub' = [pub EXCEPT !.state = "open", !.text = op.text, !.pr = Len(prs)]
  /\ UNCHANGED <<localVars, gitVars, budget>>

-----------------------------------------------------------------------------
(* edit_note *)

\* The note is replaced first; an open pull request then gets the text.
EditNote ==
  /\ ~Locked /\ Visible /\ Finished /\ text # 0 /\ Spend("edit") /\ Fresh
  /\ text' = used'
  /\ secret' = IF session.restricted /\ text \in secret THEN secret \cup {text'} ELSE secret
  /\ IF pub.state = "open"
     THEN op' = [Free EXCEPT !.name = "edit", !.pc = "blob", !.text = text']
     ELSE UNCHANGED op
  /\ UNCHANGED <<session, run, asked, pub, gitVars>>

NotPushed == pub' = [pub EXCEPT !.stale = TRUE] /\ Release

EditBlob == op.name = "edit" /\ ReadBlob(NotPushed)
EditPut == At("edit", "put") /\ Call(Quoted, PutFile, Step("record") /\ UNCHANGED pub, NotPushed)
EditRecord ==
  /\ At("edit", "record") /\ Release
  /\ pub' = [pub EXCEPT !.text = op.text, !.stale = FALSE]
  /\ UNCHANGED <<localVars, gitVars, budget>>

-----------------------------------------------------------------------------
(* merge, close, skip, refresh *)

\* What a pull request that is no longer open makes of the row.
Settled(state) ==
  IF state = "open" THEN pub ELSE [pub EXCEPT !.state = state]

Merge ==
  /\ ~Locked /\ Visible /\ Spend("merge") /\ pub.state = "open" /\ Hold("merge", "get", "owner")
  /\ UNCHANGED <<localVars, pub, gitVars>>

Abandon == Release /\ UNCHANGED pub

\* get_pr: one that is not open is settled, one whose head moved is refused.
MergeGet ==
  /\ At("merge", "get")
  /\ \/ /\ IF prs[pub.pr].state # "open" THEN pub' = Settled(prs[pub.pr].state) /\ Release
           ELSE IF branch # pub.text THEN Abandon
           ELSE Step("merge") /\ UNCHANGED pub
        /\ UNCHANGED budget
     \/ Abandon /\ Spend("refused")
  /\ UNCHANGED <<localVars, gitVars>>

\* A mutant: the merge does not say which head it is for.
MergeCallBlindly ==
  /\ At("merge", "merge")
  /\ Call(prs[pub.pr].state = "open", MergePr(pub.pr), Step("drop") /\ UNCHANGED pub, Abandon)

MergeCall ==
  /\ At("merge", "merge")
  /\ Call(Mergeable(pub.pr, pub.text), MergePr(pub.pr), Step("drop") /\ UNCHANGED pub, Abandon)

\* Deleting the branch may fail: that is logged.
DropBranch ==
  /\ op.pc = "drop"
  /\ LET next == IF op.name = "refresh" THEN Release ELSE Step("record")
     IN Call(TRUE, DeleteBranch, next /\ UNCHANGED pub, next /\ UNCHANGED pub)

MergeRecord ==
  /\ At("merge", "record") /\ Release
  /\ pub' = [pub EXCEPT !.state = "merged"]
  /\ UNCHANGED <<localVars, gitVars, budget>>

Close ==
  /\ ~Locked /\ Visible /\ Spend("close") /\ pub.state = "open" /\ Hold("close", "close", "owner")
  /\ UNCHANGED <<localVars, pub, gitVars>>

Skipped == pub' = [pub EXCEPT !.state = "skipped", !.stale = FALSE]

\* A mutant: the open pull request is left open.
SkipLeaving ==
  /\ ~Locked /\ Visible /\ Spend("skip") /\ pub.state # "merged"
  /\ Skipped /\ UNCHANGED <<op, localVars, gitVars>>

\* An open pull request is closed first.
Skip ==
  /\ ~Locked /\ Visible /\ Spend("skip") /\ pub.state # "merged"
  /\ IF pub.state = "open" THEN Hold("skip", "close", "owner") /\ UNCHANGED pub
                           ELSE Skipped /\ UNCHANGED op
  /\ UNCHANGED <<localVars, gitVars>>

CloseCall ==
  /\ op.name \in {"close", "skip"} /\ op.pc = "close"
  /\ Call(TRUE, ClosePr(pub.pr),
          op' = [op EXCEPT !.pc = "drop", !.pr = prs'[pub.pr].state] /\ UNCHANGED pub, Abandon)

CloseRecord ==
  /\ op.name \in {"close", "skip"} /\ op.pc = "record"
  /\ pub' = Settled(op.pr)
  /\ IF op.name = "skip" THEN Step("skip") ELSE Release
  /\ UNCHANGED <<localVars, gitVars, budget>>

\* The row may have been purged with its session by now: then there is nothing to keep out.
SkipRecord ==
  /\ At("skip", "skip") /\ Release
  /\ IF session.gone THEN UNCHANGED pub ELSE Skipped
  /\ UNCHANGED <<localVars, gitVars, budget>>

Unskip ==
  /\ ~Locked /\ Visible /\ Spend("unskip") /\ pub.state = "skipped"
  /\ pub' = IF pub.pr = 0 THEN NoPublication ELSE [pub EXCEPT !.state = "closed"]
  /\ UNCHANGED <<localVars, op, gitVars>>

\* The reconcile loop, a sync request, or a look at the publication; it changes nothing while the
\* pull request is open.
Refresh ==
  /\ ~Locked /\ pub.state = "open" /\ prs[pub.pr].state # "open" /\ Hold("refresh", "get", "loop")
  /\ UNCHANGED <<localVars, pub, gitVars, budget>>

RefreshGet ==
  /\ At("refresh", "get")
  /\ \/ pub' = Settled(prs[pub.pr].state) /\ Step("drop") /\ UNCHANGED budget
     \/ Abandon /\ Spend("refused")
  /\ UNCHANGED <<localVars, gitVars>>

-----------------------------------------------------------------------------
(* The note is written again *)

\* regenerate and process put the session back into finalizing, under the same lock.
Reopen ==
  /\ ~Locked /\ Visible /\ Spend("regenerate")
  /\ pub.state \notin InFlight
  /\ Finished \/ (session.status = "finalizing" /\ run = "none")
  /\ session' = [session EXCEPT !.status = "finalizing"] /\ run' = "start"
  /\ UNCHANGED <<text, used, secret, asked, pub, op, gitVars>>

\* The finalizer reads the session, then writes its note, then ends the session.
FinalizeRead ==
  /\ run = "start" /\ run' = IF session.restricted THEN "restricted" ELSE "plain"
  /\ UNCHANGED <<session, text, used, secret, asked, pub, op, gitVars, budget>>

FinalizeWrite ==
  /\ run \in {"restricted", "plain"} /\ Fresh
  /\ text' = used' /\ secret' = IF run = "restricted" THEN secret \cup {text'} ELSE secret
  /\ session' = [session EXCEPT !.status = "done"] /\ run' = "ready"
  /\ UNCHANGED <<asked, pub, op, gitVars, budget>>

\* on_note_ready, for a user who wants it or not, reads the row without the lock.
NoteReady ==
  /\ run = "ready" /\ run' = "none"
  /\ \/ pub = NoPublication /\ ~session.restricted /\ asked' = asked \cup {"auto"}
     \/ UNCHANGED asked
  /\ UNCHANGED <<session, text, used, secret, pub, op, gitVars, budget>>

\* publish-all reads the queue and comes to this note later.
PublishAll ==
  /\ Spend("all") /\ Visible /\ Finished /\ ~session.restricted /\ pub = NoPublication
  /\ asked' = asked \cup {"all"}
  /\ UNCHANGED <<session, text, used, secret, run, pub, op, gitVars>>

-----------------------------------------------------------------------------
(* Restriction and trash *)

\* The note is filed without its tag; the flag goes last.
LiftMove ==
  /\ ~Locked /\ Visible /\ session.restricted /\ Finished /\ Spend("lift")
  /\ \/ text # 0 /\ Fresh /\ text' = used'
     \/ text = 0 /\ UNCHANGED <<text, used>>
  /\ op' = [Free EXCEPT !.name = "lift"]
  /\ UNCHANGED <<session, secret, run, asked, pub, gitVars>>

LiftClear ==
  /\ op.name = "lift" /\ Release
  /\ session' = [session EXCEPT !.restricted = FALSE]
  /\ UNCHANGED <<text, used, secret, run, asked, pub, gitVars, budget>>

Trash == session' = [session EXCEPT !.deleted = "new"]
Delete ==
  /\ Spend("delete") /\ Visible /\ session.status # "finalizing" /\ Trash
  /\ UNCHANGED <<text, used, secret, run, asked, pub, op, gitVars>>

\* update_session: delete after some days; the day comes.
SetDeadline ==
  /\ Spend("delete") /\ Visible /\ session' = [session EXCEPT !.due = TRUE]
  /\ UNCHANGED <<text, used, secret, run, asked, pub, op, gitVars>>
SoftDeleteDue ==
  /\ session.due /\ Visible /\ session.status # "finalizing" /\ Trash
  /\ UNCHANGED <<text, used, secret, run, asked, pub, op, gitVars, budget>>

Restore ==
  /\ Spend("restore") /\ ~session.gone /\ session.deleted # "no"
  /\ session' = [session EXCEPT !.deleted = "no", !.due = FALSE]
  /\ UNCHANGED <<text, used, secret, run, asked, pub, op, gitVars>>

\* trash_retention_days pass: no operation and no run takes that long.
Age ==
  /\ session.deleted = "new" /\ ~Locked /\ run = "none" /\ asked = {}
  /\ session' = [session EXCEPT !.deleted = "old"]
  /\ UNCHANGED <<text, used, secret, run, asked, pub, op, gitVars, budget>>

\* Files and rows go together; a publication in flight keeps the session.
PurgeNote ==
  /\ ~session.gone /\ session.deleted = "old" /\ pub.state \notin InFlight
  /\ session' = [session EXCEPT !.gone = TRUE] /\ text' = 0 /\ pub' = NoPublication
  /\ UNCHANGED <<used, secret, run, asked, op, gitVars, budget>>

\* The process dies.  A session left finalizing is picked up again by recovery.
Crash ==
  /\ Spend("crash") /\ (Locked \/ run # "none" \/ asked # {})
  /\ op' = Free /\ asked' = {} /\ run' = IF session.status = "finalizing" THEN "start" ELSE "none"
  /\ UNCHANGED <<session, text, used, secret, pub, gitVars>>

-----------------------------------------------------------------------------
Serve ==
  \/ PublishBranch \/ PublishBlob \/ PublishPut \/ PublishPr \/ PublishRecord
  \/ EditBlob \/ EditPut \/ EditRecord
  \/ MergeGet \/ MergeCall \/ DropBranch \/ MergeRecord \/ CloseCall \/ CloseRecord \/ SkipRecord
  \/ RefreshGet \/ LiftClear
Automatic == \E by \in {"auto", "all"} : PublishNote(by) \/ PublishRefused(by)
Note == FinalizeRead \/ FinalizeWrite \/ NoteReady
Sweep == SoftDeleteDue \/ PurgeNote

OwnerActs ==
  \/ PublishNote("owner") \/ EditNote \/ Merge \/ Close \/ Skip \/ Unskip \/ Reopen \/ PublishAll
  \/ LiftMove \/ Delete \/ SetDeadline \/ Restore
Others == OutsidePush \/ (\E p \in DOMAIN prs : OutsideEnds(p)) \/ Crash

PublicationNext == OwnerActs \/ Others \/ Serve \/ Automatic \/ Note \/ Refresh \/ Sweep \/ Age

-----------------------------------------------------------------------------
(* Properties *)

Never(events) == \A e \in events : budget[e] = 0

\* The row, the lock's holder and GitHub have the states the code knows, and no text is used before
\* it exists.
PublicationTypeOK ==
  /\ session \in [status : {"done", "finalizing"}, deleted : {"no", "new", "old"}, due : BOOLEAN,
                 restricted : BOOLEAN, gone : BOOLEAN]
  /\ {text, pub.text, op.text, op.blob, branch, vault} \subseteq 0..used /\ secret \subseteq 1..used
  /\ pub.state \in {"none", "publishing", "open", "merged", "closed", "failed", "skipped"}
  /\ pub.stale \in BOOLEAN /\ pub.pr \in 0..Len(prs)
  /\ op.name \in {"none", "publish", "edit", "merge", "close", "skip", "refresh", "lift"}
  /\ op.by \in {"none", "owner", "auto", "all", "loop"}
  /\ run \in {"none", "start", "restricted", "plain", "ready"} /\ asked \subseteq {"auto", "all"}
  /\ \A p \in DOMAIN prs : prs[p].state \in {"open", "merged", "closed"} /\ prs[p].text \in 0..used

\* A merge from here puts into the vault the text this server last published or pushed, whatever
\* happened to the branch after get_pr looked at it.
MergedAsPushed ==
  [][op.pc = "merge" /\ op' # op /\ vault' # vault => vault' = pub.text]_publicationVars

\* While a pull request is open and nothing failed, the row records the note as it is in the
\* outbox: edits are pushed and the finalizer does not write behind it.
OpenShowsNote ==
  pub.state = "open" /\ ~Locked /\ ~pub.stale /\ Never({"crash"}) => pub.text = text

\* No text with the restriction's tag reaches the repository, however lifting the restriction,
\* writing the note again, dying half way and publishing fall together.
RestrictedKept == {branch, vault} \cap secret = {}

\* Unless an answer was lost or the process died, a pull request that is open on GitHub is the one
\* the row knows and keeps up with.
OpenPrKnown ==
  ~Locked /\ Never({"lost", "crash"}) => \A p \in OpenPrs : pub.state = "open" /\ pub.pr = p

\* A merge or a close on GitHub is noticed here, also for a session in the trash.
OutsideNoticed ==
  pub.state = "open" /\ OpenPrs = {} ~> pub.state # "open"

Leaving == session.deleted # "no" /\ OpenPrs = {}

\* A session that stays in the trash is purged once no pull request is open, if the process did
\* not die while it published.
TrashEmptied == <>[](Leaving /\ Never({"crash"})) => <>session.gone

\* The same, said without that condition as retention.py does.
TrashAlwaysEmptied == <>[]Leaving => <>session.gone

\* A skipped note is published again only by its owner.
SkipHolds ==
  [][pub.state = "skipped" /\ pub'.state = "publishing" => op'.by = "owner"]_publicationVars

\* The row, the note and GitHub agree as far as this server can make them.
NoteSound == PublicationTypeOK /\ OpenShowsNote /\ RestrictedKept /\ OpenPrKnown
=============================================================================
