------------------------------- MODULE Actions -------------------------------
(***************************************************************************)
(* The action proposals of one session: reviewed by their owner, executed  *)
(* by the background tasks an approval starts, settled after a restart,    *)
(* and, for reminders, pushed by the reminder loop when they are due.      *)
(*                                                                         *)
(* A payload stands for its sha256 and its dedupe key too.  A proposal is  *)
(* its position, and of kind git.pr_comment or reminder.schedule.  What is *)
(* written for a proposal carries its id (the marker in a comment, the     *)
(* unique proposal_id of a reminder's row), so the target is a set of      *)
(* payloads per proposal.                                                  *)
(***************************************************************************)
EXTENDS Integers

CONSTANTS N,           \* the proposals are 1..N
          Reminders,   \* the ones of kind reminder.schedule
          Payloads,
          Editors,     \* PATCH requests that may be in flight together
          Scenarios    \* bounds on what may happen, and fail: how often each, together

\* PATCH requests, retries, failing calls to a target or to Gotify, failing database
\* transactions, and deaths of the process.
Events == {"edit", "retry", "failure", "db", "crash"}

ASSUME ActionsBounds ==
  N \in Nat /\ Reminders \subseteq 1..N /\ Scenarios \subseteq [Events -> Nat]

Proposals == 1..N
NoPayload == "nothing"

ASSUME NoPayloadOutside == NoPayload \notin Payloads

VARIABLES
  \* Durable: the rows and their audit log.
  state, payload,  \* ActionProposal.state and .payload
  approved,        \* the payload hash of the last approved or retry_requested event
  grants,          \* how many of those events there are
  starts,          \* how many exec_started events there are
  result,          \* ActionProposal.result
  reminder,        \* ScheduledReminder.state, "none" without a row
  landed,          \* the target: the payloads written for the proposal
  writes,          \* how often something was written for it
  pushes,          \* how often the reminder was handed to Gotify
  \* The process.
  server,          \* "up", "down", or "recovering" before it serves
  edit,            \* edit[e]: the PATCH request e
  queue,           \* execute_approved tasks waiting for the session's lock
  run,             \* the execute_approved task that holds it
  loop,            \* the reminder loop
  budget

rowVars == <<state, payload, approved, grants, starts>>
targetVars == <<landed, writes>>
reminderVars == <<reminder, pushes, loop>>
vars == <<state, payload, approved, grants, starts, result, reminder, landed, writes, pushes,
          server, edit, queue, run, loop, budget>>

NoResult == [reminder |-> "none", full |-> FALSE]
NoEdit == [st |-> "idle", id |-> 0, new |-> NoPayload]
NoRun == [st |-> "idle", id |-> 0, row |-> NoPayload, found |-> NoResult, ok |-> FALSE]
NoLoop == [st |-> "idle", id |-> 0, read |-> NoResult, outcome |-> "failed", recovering |-> FALSE]

Init ==
  /\ state = [a \in Proposals |-> "absent"] /\ payload = [a \in Proposals |-> NoPayload]
  /\ approved = [a \in Proposals |-> NoPayload]
  /\ grants = [a \in Proposals |-> 0] /\ starts = [a \in Proposals |-> 0]
  /\ result = [a \in Proposals |-> NoResult] /\ reminder = [a \in Proposals |-> "none"]
  /\ landed = [a \in Proposals |-> {}] /\ writes = [a \in Proposals |-> 0]
  /\ pushes = [a \in Proposals |-> 0]
  /\ server = "up" /\ edit = [e \in Editors |-> NoEdit]
  /\ queue = 0 /\ run = NoRun /\ loop = NoLoop
  /\ budget = [e \in Events |-> 0]

\* The event happens once more, within one of the scenarios.
Affords(event) ==
  \E most \in Scenarios : budget[event] < most[event] /\ \A e \in Events : budget[e] <= most[e]
Spend(event) == Affords(event) /\ budget' = [budget EXCEPT ![event] = @ + 1]

\* The unique index on session and dedupe key.
Unique(a, p) == \A b \in Proposals \ {a} : payload[b] # p

-----------------------------------------------------------------------------
(* Proposing and reviewing *)

Admit(a, p) ==
  /\ server = "up" /\ state[a] = "absent" /\ \A b \in Proposals : b < a => state[b] # "absent"
  /\ Unique(a, p)
  /\ state' = [state EXCEPT ![a] = "proposed"]
  /\ payload' = [payload EXCEPT ![a] = p]
  /\ UNCHANGED <<approved, grants, starts, result, reminderVars, targetVars, server, edit, queue,
                 run, budget>>

\* edit reads the row and builds the new payload ...
EditRead(e, a, p) ==
  /\ server = "up" /\ edit[e].st = "idle" /\ state[a] = "proposed"
  /\ edit' = [edit EXCEPT ![e] = [st |-> "cas", id |-> a, new |-> p]]
  /\ Spend("edit")
  /\ UNCHANGED <<rowVars, result, reminderVars, targetVars, server, queue, run>>

\* A mutant: the update is not conditional on the row's state.
EditCasUnguarded(e) ==
  /\ server = "up" /\ edit[e].st = "cas"
  /\ payload' = IF Unique(edit[e].id, edit[e].new)
                THEN [payload EXCEPT ![edit[e].id] = edit[e].new]
                ELSE payload
  /\ edit' = [edit EXCEPT ![e] = NoEdit]
  /\ UNCHANGED <<state, approved, grants, starts, result, reminderVars, targetVars, server, queue,
                 run, budget>>

\* ... and writes it if the row is still proposed and no other row has that content.
EditCas(e) ==
  /\ server = "up" /\ edit[e].st = "cas"
  /\ payload' = IF state[edit[e].id] = "proposed" /\ Unique(edit[e].id, edit[e].new)
                THEN [payload EXCEPT ![edit[e].id] = edit[e].new]
                ELSE payload
  /\ edit' = [edit EXCEPT ![e] = NoEdit]
  /\ UNCHANGED <<state, approved, grants, starts, result, reminderVars, targetVars, server, queue,
                 run, budget>>

Reject(a) ==
  /\ server = "up" /\ state[a] = "proposed"
  /\ state' = [state EXCEPT ![a] = "rejected"]
  /\ UNCHANGED <<payload, approved, grants, starts, result, reminderVars, targetVars, server, edit,
                 queue, run, budget>>

ExpireStale(a) ==
  /\ server = "up" /\ state[a] = "proposed"
  /\ state' = [state EXCEPT ![a] = "expired"]
  /\ UNCHANGED <<payload, approved, grants, starts, result, reminderVars, targetVars, server, edit,
                 queue, run, budget>>

\* The event that lets each of these run, with the content it is given for, and the one task
\* that will run them.
Grant(As, given) ==
  /\ state' = [a \in Proposals |-> IF a \in As THEN "approved" ELSE state[a]]
  /\ approved' = [a \in Proposals |-> IF a \in As THEN given[a] ELSE approved[a]]
  /\ grants' = [a \in Proposals |-> IF a \in As THEN grants[a] + 1 ELSE grants[a]]
  /\ queue' = queue + 1

\* The requested items that are open and have the content the reviewer saw.
Fresh(seen) == {a \in Proposals : state[a] = "proposed" /\ payload[a] = seen[a]}

\* One request: seen[a] is NoPayload for an action it does not name.
Approve(seen) ==
  /\ server = "up" /\ Fresh(seen) # {}
  /\ Grant(Fresh(seen), seen)
  /\ UNCHANGED <<payload, starts, result, reminderVars, targetVars, server, edit, run, budget>>

Retry(a) ==
  /\ server = "up" /\ state[a] = "failed"
  /\ Grant({a}, payload)
  /\ Spend("retry")
  /\ UNCHANGED <<payload, starts, result, reminderVars, targetVars, server, edit, run>>

-----------------------------------------------------------------------------
(* execute_approved *)

\* A task gets the session's lock.
TakeLock ==
  /\ server = "up" /\ run.st = "idle" /\ queue > 0
  /\ queue' = queue - 1
  /\ run' = [NoRun EXCEPT !.st = "pick"]
  /\ UNCHANGED <<rowVars, result, reminderVars, targetVars, server, edit, budget>>

IsNext(a) == state[a] = "approved" /\ \A b \in Proposals : b < a => state[b] # "approved"

\* _next_approved: the lowest position, or the task is done.
NextApproved ==
  /\ server = "up" /\ run.st = "pick"
  /\ \/ \E a \in Proposals : IsNext(a) /\ run' = [NoRun EXCEPT !.st = "claim", !.id = a]
     \/ (\A a \in Proposals : state[a] # "approved") /\ run' = NoRun
  /\ UNCHANGED <<rowVars, result, reminderVars, targetVars, server, edit, queue, budget>>

\* _run: the row goes to executing if it is still approved, and is read again.
Claim ==
  /\ server = "up" /\ run.st = "claim"
  /\ IF state[run.id] = "approved"
     THEN /\ state' = [state EXCEPT ![run.id] = "executing"]
          /\ starts' = [starts EXCEPT ![run.id] = @ + 1]
          /\ run' = [run EXCEPT !.st = "check", !.row = payload[run.id]]
     ELSE run' = [NoRun EXCEPT !.st = "pick"] /\ UNCHANGED <<state, starts>>
  /\ UNCHANGED <<payload, approved, grants, result, reminderVars, targetVars, server, edit, queue,
                 budget>>

\* _find: a comment that carries the proposal's marker.
Marked(a) == landed[a] # {}

\* A mutant: nothing is looked up before the write.
CheckNothing ==
  /\ server = "up" /\ run.st = "check"
  /\ run' = [run EXCEPT !.st = "write"]
  /\ UNCHANGED <<rowVars, result, reminderVars, targetVars, server, edit, queue, budget>>

\* The comment's executor looks for its marker before it posts; a reminder's insert does nothing
\* on conflict.
Check ==
  /\ server = "up" /\ run.st = "check"
  /\ run' = IF run.id \notin Reminders /\ Marked(run.id)
            THEN [run EXCEPT !.st = "finish", !.ok = TRUE]
            ELSE [run EXCEPT !.st = "write"]
  /\ UNCHANGED <<rowVars, result, reminderVars, targetVars, server, edit, queue, budget>>

\* The write: it lands and is confirmed, or it lands and the answer is lost.  A reminder is
\* inserted unless it has a row, and then read back.
Write ==
  /\ server = "up" /\ run.st = "write"
  /\ IF run.id \in Reminders /\ landed[run.id] # {}
     THEN UNCHANGED <<targetVars, reminder>>
     ELSE /\ landed' = [landed EXCEPT ![run.id] = @ \cup {run.row}]
          /\ writes' = [writes EXCEPT ![run.id] = @ + 1]
          /\ reminder' = IF run.id \in Reminders THEN [reminder EXCEPT ![run.id] = "pending"]
                                                 ELSE reminder
  /\ \/ /\ run' = [run EXCEPT !.st = IF run.id \in Reminders THEN "readback" ELSE "finish",
                               !.ok = run.id \notin Reminders]
        /\ UNCHANGED budget
     \/ /\ Spend("failure")
        /\ run' = [run EXCEPT !.st = "finish"]
  /\ UNCHANGED <<rowVars, result, pushes, loop, server, edit, queue>>

\* The executor fails before it writes, or reading back what it wrote.
ExecuteFails ==
  /\ server = "up" /\ run.st \in {"check", "write", "readback"}
  /\ run' = [run EXCEPT !.st = "finish"]
  /\ Spend("failure")
  /\ UNCHANGED <<rowVars, result, reminderVars, targetVars, server, edit, queue>>

ReadBack ==
  /\ server = "up" /\ run.st = "readback"
  /\ run' = [run EXCEPT !.st = "finish",
                        !.ok = TRUE,
                        !.found = [reminder |-> reminder[run.id], full |-> TRUE]]
  /\ UNCHANGED <<rowVars, result, reminderVars, targetVars, server, edit, queue, budget>>

\* _finish: the outcome of a row that is executing, with its result.
Finish ==
  /\ server = "up" /\ run.st = "finish"
  /\ IF state[run.id] = "executing"
     THEN /\ state' = [state EXCEPT ![run.id] = IF run.ok THEN "succeeded" ELSE "failed"]
          /\ result' = [result EXCEPT ![run.id] = run.found]
     ELSE UNCHANGED <<state, result>>
  /\ run' = [NoRun EXCEPT !.st = "pick"]
  /\ UNCHANGED <<payload, approved, grants, starts, reminderVars, targetVars, server, edit, queue,
                 budget>>

\* _finish's transaction fails: the task dies and leaves its row executing.
FinishFails ==
  /\ server = "up" /\ run.st = "finish"
  /\ run' = NoRun
  /\ Spend("db")
  /\ UNCHANGED <<rowVars, result, reminderVars, targetVars, server, edit, queue>>

-----------------------------------------------------------------------------
(* The reminder loop *)

\* A due reminder is claimed before it is pushed.
ClaimDue(a) ==
  /\ server = "up" /\ loop.st = "idle" /\ reminder[a] = "pending"
  /\ reminder' = [reminder EXCEPT ![a] = "sending"]
  /\ loop' = [NoLoop EXCEPT !.st = "send", !.id = a]
  /\ UNCHANGED <<rowVars, result, pushes, targetVars, server, edit, queue, run, budget>>

\* Gotify takes it, or the call fails after or before it was taken.
Push ==
  /\ server = "up" /\ loop.st = "send"
  /\ pushes' = [pushes EXCEPT ![loop.id] = @ + 1]
  /\ \/ /\ loop' = [loop EXCEPT !.st = "settle", !.outcome = "sent"]
        /\ UNCHANGED budget
     \/ /\ Spend("failure")
        /\ loop' = [loop EXCEPT !.st = "settle", !.outcome = "failed"]
  /\ UNCHANGED <<rowVars, result, reminder, targetVars, server, edit, queue, run>>

\* _settle reads the action's result ...
SettleRead ==
  /\ server = "up" /\ loop.st = "settle"
  /\ loop' = [loop EXCEPT !.st = "commit", !.read = result[loop.id]]
  /\ UNCHANGED <<rowVars, result, reminder, pushes, targetVars, server, edit, queue, run, budget>>

LoopNext == [NoLoop EXCEPT !.st = IF loop.recovering THEN "recover" ELSE "idle"]

\* ... and writes it back with the reminder's outcome in it.
SettleCommit ==
  /\ server = "up" /\ loop.st = "commit"
  /\ reminder' = [reminder EXCEPT ![loop.id] = loop.outcome]
  /\ result' = [result EXCEPT ![loop.id] = [loop.read EXCEPT !.reminder = loop.outcome]]
  /\ loop' = LoopNext
  /\ UNCHANGED <<rowVars, pushes, targetVars, server, edit, queue, run, budget>>

\* _settle's transaction fails: a pass is given up and the loop goes on; in recover() the loop
\* ends.
SettleFails ==
  /\ server = "up" /\ loop.st = "commit"
  /\ loop' = [NoLoop EXCEPT !.st = IF loop.recovering THEN "dead" ELSE "idle"]
  /\ Spend("db")
  /\ UNCHANGED <<rowVars, result, reminder, pushes, targetVars, server, edit, queue, run>>

\* ReminderLoop.recover: what a dead process left sending is settled as failed, then the
\* passes begin.
RecoverReminders ==
  /\ server = "up" /\ loop.st = "recover"
  /\ \/ \E a \in Proposals :
          /\ reminder[a] = "sending"
          /\ loop' = [NoLoop EXCEPT !.st = "settle", !.id = a, !.recovering = TRUE]
     \/ (\A a \in Proposals : reminder[a] # "sending") /\ loop' = NoLoop
  /\ UNCHANGED <<rowVars, result, reminder, pushes, targetVars, server, edit, queue, run, budget>>

-----------------------------------------------------------------------------
(* Death and restart *)

Crash ==
  /\ server # "down"
  /\ server' = "down"
  /\ edit' = [e \in Editors |-> NoEdit]
  /\ queue' = 0 /\ run' = NoRun /\ loop' = NoLoop
  /\ Spend("crash")
  /\ UNCHANGED <<rowVars, result, reminder, pushes, targetVars>>

Restart ==
  /\ server = "down"
  /\ server' = "recovering"
  /\ UNCHANGED <<rowVars, result, reminderVars, targetVars, edit, queue, run, budget>>

\* A mutant: an interrupted action is taken to have landed.
ReconciledBlindly(a) == BOOLEAN

\* reconcile: the effect is found, or it is not there or cannot be looked up.
Reconciled(a) == {found \in BOOLEAN : found => Marked(a)}

Found(a) == IF a \in Reminders THEN [reminder |-> reminder[a], full |-> TRUE] ELSE NoResult

\* ActionService.recover: one row left executing.
Recover(a) ==
  /\ server = "recovering" /\ state[a] = "executing"
  /\ \E found \in Reconciled(a) :
       /\ state' = [state EXCEPT ![a] = IF found THEN "succeeded" ELSE "failed"]
       /\ result' = [result EXCEPT ![a] = IF found THEN Found(a) ELSE NoResult]
  /\ UNCHANGED <<payload, approved, grants, starts, reminderVars, targetVars, server, edit, queue,
                 run, budget>>

\* A mutant: the reminder loop starts with its passes.
ServeWithoutReminders ==
  /\ server = "recovering" /\ \A a \in Proposals : state[a] # "executing"
  /\ server' = "up"
  /\ UNCHANGED <<rowVars, result, reminder, pushes, targetVars, edit, queue, run, loop, budget>>

\* The recovery is over: the API serves and the reminder loop starts.
Serve ==
  /\ server = "recovering" /\ \A a \in Proposals : state[a] # "executing"
  /\ server' = "up"
  /\ loop' = [NoLoop EXCEPT !.st = "recover"]
  /\ UNCHANGED <<rowVars, result, reminder, pushes, targetVars, edit, queue, run, budget>>

-----------------------------------------------------------------------------
Review == \E a \in Proposals :
  \/ Reject(a) \/ ExpireStale(a) \/ Retry(a)
  \/ \E p \in Payloads : Admit(a, p) \/ \E e \in Editors : EditRead(e, a, p)

Worker == TakeLock \/ NextApproved \/ Claim \/ Check \/ Write \/ ExecuteFails \/ ReadBack
          \/ Finish \/ FinishFails

ReminderLoop == Push \/ SettleRead \/ SettleCommit \/ SettleFails \/ RecoverReminders

Next ==
  \/ Review \/ (\E seen \in [Proposals -> Payloads \cup {NoPayload}] : Approve(seen))
  \/ (\E e \in Editors : EditCas(e)) \/ Worker \/ ReminderLoop
  \/ (\E a \in Proposals : ClaimDue(a))
  \/ Crash \/ Restart \/ (\E a \in Proposals : Recover(a)) \/ Serve

Spec == Init /\ [][Next]_vars

\* Started tasks run, the loop's task runs, and the server is started again and recovers.
FairSpec ==
  /\ Spec /\ WF_vars(Worker) /\ WF_vars(ReminderLoop)
  /\ WF_vars(Restart) /\ WF_vars(\E a \in Proposals : Recover(a)) /\ WF_vars(Serve)

-----------------------------------------------------------------------------
(* Properties *)

States == {"absent", "proposed", "rejected", "expired", "approved", "executing", "succeeded",
           "failed"}
Ungranted == {"absent", "proposed", "rejected", "expired"}
ReminderStates == {"none", "pending", "sending", "sent", "failed"}
Results == [reminder : ReminderStates, full : BOOLEAN]
Edits == [st : {"idle", "cas"}, id : Proposals \cup {0}, new : Payloads \cup {NoPayload}]
Runs == [st : {"idle", "pick", "claim", "check", "write", "readback", "finish"},
         id : Proposals \cup {0}, row : Payloads \cup {NoPayload}, found : Results, ok : BOOLEAN]
Loops == [st : {"idle", "send", "settle", "commit", "recover", "dead"}, id : Proposals \cup {0},
          read : Results, outcome : {"sent", "failed"}, recovering : BOOLEAN]

\* The type invariant.
TypeOK ==
  /\ state \in [Proposals -> States]
  /\ payload \in [Proposals -> Payloads \cup {NoPayload}]
  /\ approved \in [Proposals -> Payloads \cup {NoPayload}]
  /\ grants \in [Proposals -> Nat] /\ starts \in [Proposals -> Nat]
  /\ result \in [Proposals -> Results] /\ reminder \in [Proposals -> ReminderStates]
  /\ landed \in [Proposals -> SUBSET (Payloads \cup {NoPayload})]
  /\ writes \in [Proposals -> Nat] /\ pushes \in [Proposals -> Nat]
  /\ server \in {"up", "down", "recovering"}
  /\ edit \in [Editors -> Edits] /\ queue \in Nat /\ run \in Runs /\ loop \in Loops
  /\ budget \in [Events -> Nat]

\* "The exact content the reviewer saw": whatever edits race the approval, what reaches the
\* target for a proposal is what the last approval or retry was given for (approve binds to
\* payload_sha256, edit is refused once the row is not proposed).
ExecutedAsApproved ==
  \A a \in Proposals : landed[a] \subseteq {approved[a]}

\* A proposal that waits, was rejected or expired never started and left nothing at its target,
\* whatever it went through before.
NothingUnapprovedRuns ==
  \A a \in Proposals :
    state[a] \in Ungranted => starts[a] = 0 /\ landed[a] = {}

\* Every run of a proposal has an approval or an explicit retry of its own: no restart, second
\* task or late edit makes one grant start two runs.
EachStartGranted ==
  \A a \in Proposals : starts[a] + (IF state[a] = "approved" THEN 1 ELSE 0) <= grants[a]

\* Across lost answers, crashes and retries the target is written at most once per proposal.
EffectOnce == \A a \in Proposals : writes[a] <= 1

\* A reminder is handed to Gotify at most once, though its action may be run again and the loop
\* may die between the push and the record of it.
PushedOnce == \A a \in Proposals : pushes[a] <= 1

\* What is reported as succeeded is at the target, also when it was settled after a restart.
SucceededLanded == \A a \in Proposals : state[a] = "succeeded" => landed[a] # {}

\* What the row of a proposal says of its target and its reminder.
RowInv(a) ==
  /\ state[a] \in Ungranted => starts[a] = 0 /\ landed[a] = {}
  /\ state[a] \notin Ungranted => approved[a] = payload[a]
  /\ starts[a] + (IF state[a] = "approved" THEN 1 ELSE 0) <= grants[a]
  /\ landed[a] = {} \/ landed[a] = {approved[a]}
  /\ writes[a] = IF landed[a] = {} THEN 0 ELSE 1
  /\ state[a] = "succeeded" => landed[a] # {}
  /\ reminder[a] # "none" => landed[a] # {}
  /\ reminder[a] \in {"none", "pending"} => pushes[a] = 0
  /\ pushes[a] <= 1

\* The task that holds the lock owns an executing row and has read its approved content.
RunInv ==
  /\ server # "up" => run = NoRun
  /\ run.st = "claim" => run.id \in Proposals
  /\ run.st \in {"check", "write", "readback", "finish"} =>
       run.id \in Proposals /\ state[run.id] = "executing" /\ run.row = payload[run.id]
  /\ run.st = "write" /\ run.id \notin Reminders => landed[run.id] = {}
  /\ run.st = "readback" \/ run.ok => landed[run.id] # {}
  /\ run.ok => run.st = "finish"

\* The loop owns the reminder it claimed, and has not pushed it before.
LoopInv ==
  /\ server # "up" => loop = NoLoop
  /\ loop.st \in {"send", "settle", "commit"} =>
       loop.id \in Proposals /\ reminder[loop.id] = "sending"
  /\ loop.st = "send" => pushes[loop.id] = 0

\* The inductive invariant the safety properties follow from.
ActionsInv == TypeOK /\ (\A a \in Proposals : RowInv(a)) /\ RunInv /\ LoopInv

\* While the process lives and its transactions commit, what is executing gets an outcome; after
\* a death the recovery settles it.
ExecutingSettles ==
  \A a \in Proposals : state[a] = "executing" ~> state[a] # "executing" \/ budget["db"] > 0

\* A claimed reminder gets an outcome, also when its process died in between, if the transaction
\* that settles it commits: one that fails leaves it to the next start.
SendingSettles ==
  \A a \in Proposals : reminder[a] = "sending" ~> reminder[a] # "sending" \/ budget["db"] > 0

\* "Approving only marks them; execute_approved runs them": an approved action is run and settled.
ApprovedRun ==
  \A a \in Proposals : state[a] = "approved" ~> state[a] \in {"succeeded", "failed"}

\* In a process that lives and whose transactions commit, every approved action of every batch is
\* run and settled, past others that fail, retries and edits.
ApprovedSettles ==
  \A a \in Proposals :
    state[a] = "approved" ~> state[a] \in {"succeeded", "failed"} \/ budget["crash"] + budget["db"] > 0

\* Everything that was approved, started or claimed is settled.
ActionsSettle == ExecutingSettles /\ SendingSettles /\ ApprovedSettles
=============================================================================
