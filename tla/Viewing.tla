------------------------------ MODULE Viewing ------------------------------
(***************************************************************************)
(* The live page of a session: watchSession (web/src/ws.ts) and the        *)
(* reducer behind it, fed by the event bus through a viewer's socket       *)
(* (bus.py, api/stream.py) and by the session's REST snapshot              *)
(* (api/sessions.get_session), whose queries run one after the other while *)
(* the session goes on.  Writers store first and publish afterwards; the   *)
(* subscription's queue is bounded and drops.  Of a transcript line the    *)
(* model keeps that it is there and the revision of its speaker.           *)
(***************************************************************************)
EXTENDS Integers, Sequences, FiniteSets

CONSTANTS SpokenLines,   \* the lines of the session's transcript
          QueueSize,     \* Bus._queue_size
          MaxReads,      \* requests for the session that overlap, at most
          ViewScenarios  \* how often each of ViewEvents happens

ViewEvents == {"line", "speaker", "copilot", "draft", "crash", "drop", "failed", "delete", "signout"}

ASSUME ViewingConfigured ==
  /\ IsFiniteSet(SpokenLines)
  /\ {QueueSize, MaxReads} \subseteq Nat \ {0} /\ ViewScenarios \subseteq [ViewEvents -> Nat]

VARIABLES record,      \* the session's rows: status, lines, rev of each line (-1: nobody), version
          unpublished, \* events whose rows are stored
          inbox,       \* the viewer's Subscription
          page,        \* LiveState: status, lines, drafts, rev, version
          watch,       \* where watchSession is
          reads,       \* the requests for the session, each with what it has read
          left         \* what of the scenario may still happen

viewVars == <<record, unpublished, inbox, page, watch, reads, left>>

Spend(e) == left[e] > 0 /\ left' = [left EXCEPT ![e] = @ - 1]
NoSpeakers == [l \in SpokenLines |-> -1]
Finished(status) == status = "done"
Idle == [step |-> "idle"]
Watching == watch \in {"first", "open"}

----------------------------------------------------------------------------
\* The session.  A row is stored, then its event is published; the writers are tasks of their own.
Writes(event) == unpublished' = unpublished \cup {event} /\ UNCHANGED <<inbox, page, watch, reads>>

StoreLine(l) ==
  /\ record.status = "live" /\ l \notin record.lines /\ Spend("line")
  /\ record' = [record EXCEPT !.lines = @ \cup {l}] /\ Writes([type |-> "segment", line |-> l])

StoreSpeaker(l) ==
  /\ record.status = "live" /\ l \in record.lines /\ Spend("speaker")
  /\ record' = [record EXCEPT !.rev[l] = @ + 1]
  /\ Writes([type |-> "speaker_update", line |-> l, rev |-> record.rev[l] + 1])

StoreCopilot ==
  /\ record.status = "live" /\ Spend("copilot")
  /\ record' = [record EXCEPT !.version = @ + 1] /\ Writes([type |-> "copilot", version |-> record.version + 1])

\* A partial draft is relayed without being stored.
RelayDraft(l) ==
  /\ record.status = "live" /\ Spend("draft") /\ Writes([type |-> "draft_segment", line |-> l])
  /\ UNCHANGED record

\* Bus.publish: to the subscribers of the moment; a full queue drops the event.
Publish(event) ==
  /\ event \in unpublished /\ unpublished' = unpublished \ {event}
  /\ inbox' = IF Watching /\ Len(inbox) < QueueSize THEN Append(inbox, event) ELSE inbox
  /\ UNCHANGED <<record, page, watch, reads, left>>

\* The session is over: nothing is written any more.  The viewers' sockets stay open.
End ==
  /\ record.status = "live" /\ unpublished = {} /\ record' = [record EXCEPT !.status = "done"]
  /\ UNCHANGED <<unpublished, inbox, page, watch, reads, left>>

Delete ==
  /\ record.status # "deleted" /\ Spend("delete") /\ record' = [record EXCEPT !.status = "deleted"]
  /\ UNCHANGED <<unpublished, inbox, page, watch, reads>>

\* The requests that are in the air fail, and the socket's queue is gone.
Cut(r) == IF r.step = "idle" THEN r ELSE [r EXCEPT !.step = "failed"]
ServerRestarts ==
  /\ Spend("crash") /\ unpublished' = {} /\ inbox' = <<>>
  /\ reads' = [i \in DOMAIN reads |-> Cut(reads[i])]
  /\ watch' = IF watch \in {"ticket", "first", "open"} THEN "lost" ELSE watch
  /\ UNCHANGED <<record, page>>

----------------------------------------------------------------------------
\* get_session: the row first, which settles the status; the lines, their speakers and the newest
\* copilot snapshot by queries after it.
Asked(why) ==
  [step |-> IF record.status = "deleted" THEN "gone" ELSE "row", why |-> why, status |-> record.status,
   lines |-> {}, rev |-> NoSpeakers, version |-> 0]
Ask(i, why) == reads[i].step = "idle" /\ reads' = [reads EXCEPT ![i] = Asked(why)]

ReadRest(i) ==
  /\ reads[i].step = "row"
  /\ reads' = [reads EXCEPT ![i].step = "answer", ![i].lines = record.lines, ![i].rev = record.rev,
                            ![i].version = record.version]
  /\ UNCHANGED <<record, unpublished, inbox, page, watch, left>>

RequestFails(i) ==
  /\ reads[i].step \in {"row", "answer"} /\ Spend("failed")
  /\ reads' = [reads EXCEPT ![i].step = "failed"]
  /\ UNCHANGED <<record, unpublished, inbox, page, watch>>

----------------------------------------------------------------------------
\* The reducer: the highest revision, and only a higher version, whatever the order of arrival.
Newest(old, new) == [l \in SpokenLines |-> IF new[l] > old[l] THEN new[l] ELSE old[l]]

\* A mutant: the last one to arrive is shown.
ApplyCopilotLast(p, version) == [p EXCEPT !.version = version]
ApplyCopilot(p, version) == IF version <= p.version THEN p ELSE [p EXCEPT !.version = version]

\* mergeSegments: nothing to do if no line is new; otherwise the lines take the drafts' place.
MergeSegments(p, lines) ==
  IF lines \subseteq p.lines THEN p ELSE [p EXCEPT !.lines = @ \cup lines, !.drafts = @ \ lines]

ApplySpeakers(p, rev) == [p EXCEPT !.rev = Newest(p.rev, rev)]

Reduce(p, event) ==
  CASE event.type = "segment"        -> MergeSegments(p, {event.line})
    [] event.type = "speaker_update" -> ApplySpeakers(p, [NoSpeakers EXCEPT ![event.line] = event.rev])
    [] event.type = "copilot"        -> ApplyCopilot(p, event.version)
    [] event.type = "draft_segment"  -> [p EXCEPT !.drafts = @ \cup {event.line}]

ReduceSnapshot(p, d) ==
  [ApplyCopilot(ApplySpeakers(MergeSegments(p, d.lines), d.rev), d.version) EXCEPT !.status = d.status]

\* onFinished: the page is made anew from the detail.
Final(d) == [status |-> d.status, lines |-> d.lines, drafts |-> {}, rev |-> d.rev, version |-> d.version]

----------------------------------------------------------------------------
\* watchSession: a ticket, a socket, the first snapshot; then the socket's events and a snapshot
\* every few seconds until the session has finished.  A lost socket starts over after a snapshot.
GetTicket ==
  /\ watch = "start"
  /\ \/ watch' = (IF record.status = "deleted" THEN "notFound" ELSE "ticket") /\ UNCHANGED left
     \/ watch' = "lost" /\ Spend("failed")
     \/ watch' = "signedOut" /\ Spend("signout")
  /\ UNCHANGED <<record, unpublished, inbox, page, reads>>

\* The server subscribes the viewer before it accepts; the snapshot is asked for once it is open.
OpenSocket ==
  /\ watch = "ticket"
  /\ \/ /\ record.status # "deleted" /\ watch' = "first" /\ inbox' = <<>>
        /\ \E i \in DOMAIN reads : Ask(i, "first")
        /\ UNCHANGED left
     \/ record.status = "deleted" /\ watch' = "lost" /\ UNCHANGED <<reads, inbox, left>>
     \/ watch' = "lost" /\ Spend("failed") /\ UNCHANGED <<reads, inbox>>
  /\ UNCHANGED <<record, unpublished, page>>

Receive ==
  /\ Watching /\ inbox # <<>> /\ inbox' = Tail(inbox) /\ page' = Reduce(page, Head(inbox))
  /\ UNCHANGED <<record, unpublished, watch, reads, left>>

SocketDrops ==
  /\ Watching /\ Spend("drop") /\ watch' = "lost" /\ inbox' = <<>>
  /\ UNCHANGED <<record, unpublished, page, reads>>

\* The interval asks again whether or not the last answer has come.
Poll ==
  /\ Watching /\ (\E i \in DOMAIN reads : Ask(i, "poll"))
  /\ UNCHANGED <<record, unpublished, inbox, page, watch, left>>

AfterLoss ==
  /\ watch = "lost" /\ watch' = "last" /\ (\E i \in DOMAIN reads : Ask(i, "last"))
  /\ UNCHANGED <<record, unpublished, inbox, page, left>>

\* A mutant: the status is asked for after the lines.
SnapshotLate(i) ==
  LET d == reads[i] IN
  /\ d.step = "answer" /\ reads' = [reads EXCEPT ![i] = Idle]
  /\ IF watch \in {"finished", "signedOut", "notFound"} THEN UNCHANGED <<page, watch, inbox>>
     ELSE IF Finished(record.status) THEN watch' = "finished" /\ page' = Final(d) /\ inbox' = <<>>
     ELSE /\ page' = ReduceSnapshot(page, d) /\ UNCHANGED inbox
          /\ watch' = CASE d.why = "first" /\ watch = "first" -> "open"
                        [] d.why = "last"                     -> "start"
                        [] OTHER                              -> watch
  /\ UNCHANGED <<record, unpublished, left>>

\* A snapshot arrives, in whatever order.  The detail of a finished session ends the watch; what
\* arrives after that is no longer shown.
Snapshot(i) ==
  LET d == reads[i] IN
  /\ d.step = "answer" /\ reads' = [reads EXCEPT ![i] = Idle]
  /\ IF watch \in {"finished", "signedOut", "notFound"} THEN UNCHANGED <<page, watch, inbox>>
     ELSE IF Finished(d.status) THEN watch' = "finished" /\ page' = Final(d) /\ inbox' = <<>>
     ELSE /\ page' = ReduceSnapshot(page, d) /\ UNCHANGED inbox
          /\ watch' = CASE d.why = "first" /\ watch = "first" -> "open"
                        [] d.why = "last"                     -> "start"
                        [] OTHER                              -> watch
  /\ UNCHANGED <<record, unpublished, left>>

\* A poll that fails is forgotten; the first snapshot's failure gives the socket up, and a session
\* that is gone ends the watch there.
NoSnapshot(i) ==
  /\ reads[i].step \in {"failed", "gone"} /\ reads' = [reads EXCEPT ![i] = Idle]
  /\ watch' = CASE reads[i].why = "first" /\ watch = "first" /\ reads[i].step = "gone" -> "notFound"
                [] reads[i].why = "first" /\ watch = "first" -> "lost"
                [] reads[i].why = "last" /\ watch = "last"   -> "start"
                [] OTHER                                     -> watch
  /\ inbox' = IF watch' \in {"first", "open"} THEN inbox ELSE <<>>
  /\ UNCHANGED <<record, unpublished, page, left>>

----------------------------------------------------------------------------
ViewInit ==
  /\ record = [status |-> "live", lines |-> {}, rev |-> NoSpeakers, version |-> 0]
  /\ unpublished = {} /\ inbox = <<>> /\ watch = "start" /\ reads = [i \in 1 .. MaxReads |-> Idle]
  /\ page = [status |-> "live", lines |-> {}, drafts |-> {}, rev |-> NoSpeakers, version |-> -1]
  /\ left \in ViewScenarios

ReadNext(i) == ReadRest(i) \/ Snapshot(i) \/ NoSnapshot(i)

ViewNext ==
  \/ \E l \in SpokenLines : StoreLine(l) \/ StoreSpeaker(l) \/ RelayDraft(l)
  \/ StoreCopilot \/ End \/ Delete \/ ServerRestarts
  \/ \E event \in unpublished : Publish(event)
  \/ GetTicket \/ OpenSocket \/ Receive \/ SocketDrops \/ Poll \/ AfterLoss
  \/ \E i \in DOMAIN reads : ReadNext(i) \/ RequestFails(i)

----------------------------------------------------------------------------
\* What is stored, what is in the air and what is shown.
ViewTypeOK ==
  /\ record.status \in {"live", "done", "deleted"} /\ record.lines \subseteq SpokenLines /\ record.version \in Nat
  /\ page.lines \cup page.drafts \subseteq SpokenLines /\ {page.rev, record.rev} \subseteq [SpokenLines -> Nat \cup {-1}]
  /\ Len(inbox) <= QueueSize
  /\ watch \in {"start", "ticket", "first", "open", "lost", "last", "finished", "signedOut", "notFound"}
  /\ \A i \in DOMAIN reads : reads[i].step \in {"idle", "row", "answer", "failed", "gone"}

\* The page never shows what was not stored, and once the session has finished it shows the whole
\* of it: the snapshot that says "done" was made by several queries, and its lines were read
\* after its status.
PageSound ==
  /\ ViewTypeOK
  /\ page.lines \subseteq record.lines /\ page.version <= record.version
  /\ \A l \in SpokenLines : page.rev[l] <= record.rev[l]
  /\ watch = "finished" /\ record.status = "done" =>
        page.lines = record.lines /\ page.rev = record.rev /\ page.version = record.version

\* Nothing that is shown is taken back while events and snapshots overtake one another.
PageForward ==
  [][/\ page.lines \subseteq page'.lines /\ page.version <= page'.version
     /\ \A l \in SpokenLines : page.rev[l] <= page'.rev[l]]_viewVars

\* However many events the bus drops, a page that is being watched comes to show what is stored,
\* and leaves when the session has finished, although its socket stays open.
PageCatchesUp ==
  /\ []<>(page.lines = record.lines \/ record.status = "deleted" \/ watch = "signedOut")
  /\ (record.status = "done") ~> (watch \in {"finished", "signedOut", "notFound"} \/ record.status = "deleted")

\* "replaced by a final segment", as the reducer says of a draft.  A draft that arrives after its
\* segment is not: no later snapshot brings a new line, and mergeSegments then leaves it.
DraftsReplaced == page.drafts \cap page.lines = {}
=============================================================================
