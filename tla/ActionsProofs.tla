---------------------------- MODULE ActionsProofs ----------------------------
(***************************************************************************)
(* TLAPS proofs about Actions.tla: ActionsInv is inductive, and the safety *)
(* properties of reviewing, executing and reminding follow from it, for    *)
(* any number of proposals, payloads, editors, retries, failures and       *)
(* crashes.                                                                *)
(***************************************************************************)
EXTENDS Actions, TLAPS

\* The empty program state of a dead or idle process has the right shape.
LEMMA NothingTyped ==
  /\ NoResult \in Results
  /\ NoEdit \in Edits
  /\ NoRun \in Runs
  /\ NoLoop \in Loops
<1>1. NoResult \in Results
  BY DEF NoResult, Results, ReminderStates
<1> QED BY <1>1 DEF NoEdit, NoRun, NoLoop, Edits, Runs, Loops

\* Spending a budget keeps it a budget.
LEMMA SpendTyped ==
  ASSUME budget \in [Events -> Nat], NEW b \in Events, Spend(b)
  PROVE  budget' \in [Events -> Nat]
BY DEF Spend

\* The rows' invariant only reads the rows, the target and the reminders.
LEMMA RowsKept ==
  ASSUME \A a \in Proposals : RowInv(a), UNCHANGED <<rowVars, targetVars, reminder, pushes>>
  PROVE  \A a \in Proposals : RowInv(a)'
BY DEF RowInv, rowVars, targetVars

\* A step that leaves the proposals, the run and the server alone keeps the run's invariant.
LEMMA RunKept ==
  ASSUME RunInv, UNCHANGED <<state, payload, landed, run, server>>
  PROVE  RunInv'
BY DEF RunInv

\* One that leaves the reminders, the pushes and the loop alone keeps the loop's.
LEMMA LoopKept ==
  ASSUME LoopInv, UNCHANGED <<reminder, pushes, loop, server>>
  PROVE  LoopInv'
BY DEF LoopInv

\* Admit keeps the invariant.
LEMMA AdmitStep ==
  ASSUME ActionsInv, NEW a \in Proposals, NEW p \in Payloads, Admit(a, p)
  PROVE  ActionsInv'
<1> USE DEF ActionsInv
<1>1. TypeOK'
  BY DEF TypeOK, Admit, reminderVars, targetVars, States
<1>2. \A b \in Proposals : RowInv(b)'
  BY DEF TypeOK, RowInv, Admit, reminderVars, targetVars, Ungranted
<1>3. RunInv'
  BY DEF TypeOK, RunInv, Admit, reminderVars, targetVars
<1>4. LoopInv'
  BY LoopKept DEF Admit, reminderVars
<1> QED BY <1>1, <1>2, <1>3, <1>4

\* EditRead keeps the invariant.
LEMMA EditReadStep ==
  ASSUME ActionsInv, NEW e \in Editors, NEW a \in Proposals, NEW p \in Payloads, EditRead(e, a, p)
  PROVE  ActionsInv'
<1> USE DEF ActionsInv
<1>0. budget' \in [Events -> Nat]
  BY SpendTyped DEF TypeOK, Events, EditRead
<1>a. edit' \in [Editors -> Edits]
  BY NothingTyped DEF TypeOK, EditRead, Edits
<1>1. TypeOK'
  BY <1>0, <1>a DEF TypeOK, EditRead, rowVars, reminderVars, targetVars
<1>2. \A b \in Proposals : RowInv(b)'
  BY RowsKept DEF EditRead, reminderVars
<1>3. RunInv'
  BY RunKept DEF EditRead, rowVars, targetVars
<1>4. LoopInv'
  BY LoopKept DEF EditRead, reminderVars
<1> QED BY <1>1, <1>2, <1>3, <1>4

\* EditCas keeps the invariant.
LEMMA EditCasStep ==
  ASSUME ActionsInv, NEW e \in Editors, EditCas(e)
  PROVE  ActionsInv'
<1> USE DEF ActionsInv
<1>a. edit[e].new \in Payloads \cup {NoPayload}
  BY DEF TypeOK, Edits
<1>b. payload' \in [Proposals -> Payloads \cup {NoPayload}]
  BY <1>a DEF TypeOK, EditCas
<1>c. edit' \in [Editors -> Edits]
  BY NothingTyped DEF TypeOK, EditCas
<1>1. TypeOK'
  BY <1>b, <1>c DEF TypeOK, EditCas, reminderVars, targetVars
<1>2. \A b \in Proposals : RowInv(b)'
  BY DEF TypeOK, RowInv, EditCas, reminderVars, targetVars, Ungranted
<1>3. RunInv'
  BY DEF TypeOK, RunInv, EditCas, reminderVars, targetVars
<1>4. LoopInv'
  BY LoopKept DEF EditCas, reminderVars
<1> QED BY <1>1, <1>2, <1>3, <1>4

\* Reject keeps the invariant.
LEMMA RejectStep ==
  ASSUME ActionsInv, NEW a \in Proposals, Reject(a)
  PROVE  ActionsInv'
<1> USE DEF ActionsInv
<1>1. TypeOK'
  BY DEF TypeOK, Reject, reminderVars, targetVars, States
<1>2. \A b \in Proposals : RowInv(b)'
  BY DEF TypeOK, RowInv, Reject, reminderVars, targetVars, Ungranted
<1>3. RunInv'
  BY DEF TypeOK, RunInv, Reject, reminderVars, targetVars
<1>4. LoopInv'
  BY LoopKept DEF Reject, reminderVars
<1> QED BY <1>1, <1>2, <1>3, <1>4

\* ExpireStale keeps the invariant.
LEMMA ExpireStaleStep ==
  ASSUME ActionsInv, NEW a \in Proposals, ExpireStale(a)
  PROVE  ActionsInv'
<1> USE DEF ActionsInv
<1>1. TypeOK'
  BY DEF TypeOK, ExpireStale, reminderVars, targetVars, States
<1>2. \A b \in Proposals : RowInv(b)'
  BY DEF TypeOK, RowInv, ExpireStale, reminderVars, targetVars, Ungranted
<1>3. RunInv'
  BY DEF TypeOK, RunInv, ExpireStale, reminderVars, targetVars
<1>4. LoopInv'
  BY LoopKept DEF ExpireStale, reminderVars
<1> QED BY <1>1, <1>2, <1>3, <1>4

\* Approve keeps the invariant.
LEMMA ApproveStep ==
  ASSUME ActionsInv, NEW seen \in [Proposals -> Payloads \cup {NoPayload}], Approve(seen)
  PROVE  ActionsInv'
<1> USE DEF ActionsInv
<1>1. TypeOK'
  BY DEF TypeOK, Approve, Grant, Fresh, reminderVars, targetVars, States
<1>2. \A b \in Proposals : RowInv(b)'
  BY DEF TypeOK, RowInv, Approve, Grant, Fresh, reminderVars, targetVars, Ungranted
<1>3. RunInv'
  BY DEF TypeOK, RunInv, Approve, Grant, Fresh, reminderVars, targetVars
<1>4. LoopInv'
  BY LoopKept DEF Approve, reminderVars
<1> QED BY <1>1, <1>2, <1>3, <1>4

\* Retry keeps the invariant.
LEMMA RetryStep ==
  ASSUME ActionsInv, NEW a \in Proposals, Retry(a)
  PROVE  ActionsInv'
<1> USE DEF ActionsInv
<1>0. budget' \in [Events -> Nat]
  BY SpendTyped DEF TypeOK, Events, Retry
<1>1. TypeOK'
  BY <1>0 DEF TypeOK, Retry, Grant, reminderVars, targetVars, States
<1>2. \A b \in Proposals : RowInv(b)'
  BY DEF TypeOK, RowInv, Retry, Grant, reminderVars, targetVars, Ungranted
<1>3. RunInv'
  BY DEF TypeOK, RunInv, Retry, Grant, reminderVars, targetVars
<1>4. LoopInv'
  BY LoopKept DEF Retry, reminderVars
<1> QED BY <1>1, <1>2, <1>3, <1>4

\* TakeLock keeps the invariant.
LEMMA TakeLockStep ==
  ASSUME ActionsInv, TakeLock
  PROVE  ActionsInv'
<1> USE DEF ActionsInv
<1>b. run' \in Runs
  BY NothingTyped DEF TypeOK, TakeLock, RunInv, NoRun, Runs
<1>1. TypeOK'
  BY <1>b, NothingTyped DEF TypeOK, RunInv, TakeLock, rowVars, reminderVars, targetVars
<1>2. \A b \in Proposals : RowInv(b)'
  BY RowsKept DEF TakeLock, reminderVars
<1>3. RunInv'
  BY DEF TypeOK, RunInv, TakeLock, rowVars, reminderVars, targetVars, NoRun
<1>4. LoopInv'
  BY LoopKept DEF TakeLock, reminderVars
<1> QED BY <1>1, <1>2, <1>3, <1>4

\* NextApproved keeps the invariant.
LEMMA NextApprovedStep ==
  ASSUME ActionsInv, NextApproved
  PROVE  ActionsInv'
<1> USE DEF ActionsInv
<1>c. run' \in Runs /\ RunInv'
  <2>1. CASE \E a \in Proposals : IsNext(a) /\ run' = [NoRun EXCEPT !.st = "claim", !.id = a]
    <3>1. PICK a \in Proposals : run' = [NoRun EXCEPT !.st = "claim", !.id = a]
      BY <2>1
    <3>2. run' \in Runs
      BY <3>1, NothingTyped DEF NoRun, Runs
    <3>3. server' = "up" /\ run'.st = "claim" /\ run'.id \in Proposals /\ ~run'.ok
      BY <3>1 DEF NoRun, NextApproved
    <3> QED BY <3>2, <3>3 DEF RunInv
  <2>2. CASE run' = NoRun
    BY <2>2, NothingTyped DEF RunInv, NoRun
  <2> QED BY <2>1, <2>2 DEF NextApproved
<1>1. TypeOK'
  BY <1>c DEF TypeOK, NextApproved, rowVars, reminderVars, targetVars
<1>2. \A b \in Proposals : RowInv(b)'
  BY RowsKept DEF NextApproved, reminderVars
<1>3. RunInv'
  BY <1>c
<1>4. LoopInv'
  BY LoopKept DEF NextApproved, reminderVars
<1> QED BY <1>1, <1>2, <1>3, <1>4

\* Claim keeps the invariant.
LEMMA ClaimStep ==
  ASSUME ActionsInv, Claim
  PROVE  ActionsInv'
<1> USE DEF ActionsInv
<1>a. run.id \in Proposals /\ ~run.ok
  BY DEF RunInv, Claim
<1>b. payload[run.id] \in Payloads \cup {NoPayload}
  BY <1>a DEF TypeOK
<1>c. run' \in Runs /\ RunInv'
  <2>1. CASE state[run.id] = "approved"
    <3>1. run' = [run EXCEPT !.st = "check", !.row = payload[run.id]]
      BY <2>1 DEF Claim
    <3>2. run' \in Runs
      BY <3>1, <1>b DEF TypeOK, Runs
    <3>3. run'.st = "check" /\ run'.id = run.id /\ run'.row = payload[run.id] /\ ~run'.ok
      BY <3>1, <1>a DEF TypeOK, Runs
    <3>4. state'[run.id] = "executing" /\ payload' = payload /\ server' = "up"
      BY <1>a, <2>1 DEF Claim, TypeOK
    <3> QED BY <1>a, <3>2, <3>3, <3>4 DEF RunInv
  <2>2. CASE state[run.id] # "approved"
    <3>1. run' = [NoRun EXCEPT !.st = "pick"] /\ server' = "up"
      BY <2>2 DEF Claim
    <3> QED BY <3>1, NothingTyped DEF RunInv, NoRun, Runs
  <2> QED BY <2>1, <2>2
<1>1. TypeOK'
  BY <1>a, <1>c DEF TypeOK, Claim, States, reminderVars, targetVars
<1>2. \A b \in Proposals : RowInv(b)'
  BY <1>a DEF TypeOK, RowInv, Claim, reminderVars, targetVars, Ungranted
<1>3. RunInv'
  BY <1>c
<1>4. LoopInv'
  BY LoopKept DEF Claim, reminderVars
<1> QED BY <1>1, <1>2, <1>3, <1>4

\* Check keeps the invariant.
LEMMA CheckStep ==
  ASSUME ActionsInv, Check
  PROVE  ActionsInv'
<1> USE DEF ActionsInv
<1>b. run' \in Runs
  BY NothingTyped DEF TypeOK, Check, Marked, RunInv, NoRun, Runs
<1>1. TypeOK'
  BY <1>b DEF TypeOK, RunInv, Check, Marked, rowVars, reminderVars, targetVars
<1>2. \A b \in Proposals : RowInv(b)'
  BY RowsKept DEF Check, reminderVars
<1>3. RunInv'
  BY DEF TypeOK, RunInv, Check, Marked, rowVars, reminderVars, targetVars
<1>4. LoopInv'
  BY LoopKept DEF Check, reminderVars
<1> QED BY <1>1, <1>2, <1>3, <1>4

\* Write keeps the invariant.
LEMMA WriteStep ==
  ASSUME ActionsInv, Write
  PROVE  ActionsInv'
<1> USE DEF ActionsInv
<1>0. budget' \in [Events -> Nat]
  BY SpendTyped DEF TypeOK, Events, Write
<1> DEFINE inserted == run.id \in Reminders /\ landed[run.id] # {}
<1>a. run.id \in Proposals /\ state[run.id] = "executing" /\ run.row = payload[run.id] /\ ~run.ok
  BY DEF RunInv, TypeOK, Write, Runs
<1>b. approved[run.id] = payload[run.id] /\ run.row \in Payloads \cup {NoPayload}
  BY <1>a DEF RowInv, TypeOK, Ungranted
<1>c. inserted \/ landed[run.id] = {}
  BY DEF RunInv, Write
<1>d. /\ run' \in Runs /\ run'.id = run.id /\ run'.row = run.row
      /\ run'.st \in {"readback", "finish"} /\ (run'.ok => run'.st = "finish")
  BY <1>a DEF Write, TypeOK, Runs
<1>e. landed'[run.id] # {}
  <2>1. CASE inserted
    BY <2>1 DEF Write, targetVars
  <2>2. CASE landed[run.id] = {}
    <3>1. landed' = [landed EXCEPT ![run.id] = @ \cup {run.row}]
      BY <2>2 DEF Write
    <3>2. run.row \in landed'[run.id]
      BY <3>1, <1>a DEF TypeOK
    <3> QED BY <3>2
  <2> QED BY <2>1, <2>2, <1>c
<1>1. TypeOK'
  BY <1>0, <1>a, <1>b, <1>d DEF TypeOK, Write, ReminderStates, rowVars, targetVars
<1>2. \A b \in Proposals : RowInv(b)'
  <2> SUFFICES ASSUME NEW b \in Proposals PROVE RowInv(b)'
    OBVIOUS
  <2>1. UNCHANGED <<state, payload, approved, grants, starts, pushes>>
    BY DEF Write, rowVars
  <2>2. CASE b # run.id \/ inserted
    <3>1. UNCHANGED <<landed[b], writes[b], reminder[b]>>
      BY <2>2, <1>a DEF Write, TypeOK, targetVars
    <3> QED BY <2>1, <3>1 DEF RowInv
  <2>3. CASE b = run.id /\ landed[run.id] = {}
    <3>1. landed'[b] = {approved[b]} /\ writes'[b] = 1
      BY <2>3, <1>a, <1>b DEF Write, TypeOK, RowInv
    <3>2. reminder[b] = "none" /\ pushes[b] = 0
      BY <2>3, <1>a DEF RowInv
    <3> QED BY <2>1, <2>3, <3>1, <3>2, <1>a DEF RowInv, Ungranted
  <2> QED BY <2>2, <2>3, <1>c
<1>3. RunInv'
  BY <1>a, <1>d, <1>e DEF RunInv, Write, rowVars
<1>4. LoopInv'
  <2>1. CASE reminder' = reminder
    BY <2>1, LoopKept DEF Write
  <2>2. CASE reminder' # reminder
    <3>1. landed[run.id] = {} /\ reminder' = [reminder EXCEPT ![run.id] = "pending"]
      BY <2>2, <1>c DEF Write, targetVars
    <3>2. reminder[run.id] = "none"
      BY <3>1, <1>a DEF RowInv
    <3> QED BY <3>1, <3>2 DEF LoopInv, Write, TypeOK
  <2> QED BY <2>1, <2>2
<1> QED BY <1>1, <1>2, <1>3, <1>4

\* ExecuteFails keeps the invariant.
LEMMA ExecuteFailsStep ==
  ASSUME ActionsInv, ExecuteFails
  PROVE  ActionsInv'
<1> USE DEF ActionsInv
<1>0. budget' \in [Events -> Nat]
  BY SpendTyped DEF TypeOK, Events, ExecuteFails
<1>b. run' \in Runs
  BY NothingTyped DEF TypeOK, ExecuteFails, RunInv, NoRun, Runs
<1>1. TypeOK'
  BY <1>0, <1>b DEF TypeOK, RunInv, ExecuteFails, rowVars, reminderVars, targetVars
<1>2. \A b \in Proposals : RowInv(b)'
  BY RowsKept DEF ExecuteFails, reminderVars
<1>3. RunInv'
  BY DEF TypeOK, RunInv, ExecuteFails, rowVars, reminderVars, targetVars
<1>4. LoopInv'
  BY LoopKept DEF ExecuteFails, reminderVars
<1> QED BY <1>1, <1>2, <1>3, <1>4

\* ReadBack keeps the invariant.
LEMMA ReadBackStep ==
  ASSUME ActionsInv, ReadBack
  PROVE  ActionsInv'
<1> USE DEF ActionsInv
<1>b. run' \in Runs
  BY NothingTyped DEF TypeOK, ReadBack, RunInv, NoRun, Runs, Results
<1>1. TypeOK'
  BY <1>b DEF TypeOK, RunInv, ReadBack, rowVars, reminderVars, targetVars
<1>2. \A b \in Proposals : RowInv(b)'
  BY RowsKept DEF ReadBack, reminderVars
<1>3. RunInv'
  BY DEF TypeOK, RunInv, ReadBack, rowVars, reminderVars, targetVars
<1>4. LoopInv'
  BY LoopKept DEF ReadBack, reminderVars
<1> QED BY <1>1, <1>2, <1>3, <1>4

\* Finish keeps the invariant.
LEMMA FinishStep ==
  ASSUME ActionsInv, Finish
  PROVE  ActionsInv'
<1> USE DEF ActionsInv
<1>a. run.id \in Proposals /\ run.found \in Results
  BY DEF RunInv, TypeOK, Finish, Runs
<1>b. run' \in Runs
  BY NothingTyped DEF Finish, NoRun, Runs
<1>1. TypeOK'
  BY <1>a, <1>b DEF TypeOK, Finish, States, reminderVars, targetVars
<1>2. \A b \in Proposals : RowInv(b)'
  BY DEF TypeOK, RowInv, RunInv, Finish, reminderVars, targetVars, Ungranted
<1>3. RunInv'
  BY DEF TypeOK, RunInv, Finish, reminderVars, targetVars, NoRun
<1>4. LoopInv'
  BY LoopKept DEF Finish, reminderVars
<1> QED BY <1>1, <1>2, <1>3, <1>4

\* FinishFails keeps the invariant.
LEMMA FinishFailsStep ==
  ASSUME ActionsInv, FinishFails
  PROVE  ActionsInv'
<1> USE DEF ActionsInv
<1>0. budget' \in [Events -> Nat]
  BY SpendTyped DEF TypeOK, Events, FinishFails
<1>1. TypeOK'
  BY <1>0, NothingTyped DEF TypeOK, RunInv, FinishFails, rowVars, reminderVars, targetVars
<1>2. \A b \in Proposals : RowInv(b)'
  BY RowsKept DEF FinishFails, reminderVars
<1>3. RunInv'
  BY DEF TypeOK, RunInv, FinishFails, rowVars, reminderVars, targetVars, NoRun
<1>4. LoopInv'
  BY LoopKept DEF FinishFails, reminderVars
<1> QED BY <1>1, <1>2, <1>3, <1>4

\* ClaimDue keeps the invariant.
LEMMA ClaimDueStep ==
  ASSUME ActionsInv, NEW a \in Proposals, ClaimDue(a)
  PROVE  ActionsInv'
<1> USE DEF ActionsInv
<1>a. loop' \in Loops
  BY NothingTyped DEF ClaimDue, NoLoop, Loops
<1>1. TypeOK'
  BY <1>a DEF TypeOK, ClaimDue, ReminderStates, rowVars, targetVars
<1>2. \A b \in Proposals : RowInv(b)'
  BY DEF TypeOK, RowInv, LoopInv, ClaimDue, rowVars, targetVars
<1>3. RunInv'
  BY RunKept DEF ClaimDue, rowVars, targetVars
<1>4. LoopInv'
  BY DEF TypeOK, RowInv, LoopInv, ClaimDue, NoLoop
<1> QED BY <1>1, <1>2, <1>3, <1>4

\* Push keeps the invariant.
LEMMA PushStep ==
  ASSUME ActionsInv, Push
  PROVE  ActionsInv'
<1> USE DEF ActionsInv
<1>0. budget' \in [Events -> Nat]
  BY SpendTyped DEF TypeOK, Events, Push
<1>a. loop.id \in Proposals /\ reminder[loop.id] = "sending" /\ pushes[loop.id] = 0
  BY DEF LoopInv, Push
<1>b. loop' \in Loops /\ loop'.st = "settle" /\ loop'.id = loop.id
  BY DEF Push, TypeOK, Loops
<1>1. TypeOK'
  BY <1>0, <1>a, <1>b DEF TypeOK, Push, rowVars, targetVars
<1>2. \A b \in Proposals : RowInv(b)'
  BY <1>a DEF TypeOK, RowInv, Push, rowVars, targetVars
<1>3. RunInv'
  BY RunKept DEF Push, rowVars, targetVars
<1>4. LoopInv'
  BY <1>a, <1>b DEF LoopInv, Push
<1> QED BY <1>1, <1>2, <1>3, <1>4

\* SettleRead keeps the invariant.
LEMMA SettleReadStep ==
  ASSUME ActionsInv, SettleRead
  PROVE  ActionsInv'
<1> USE DEF ActionsInv
<1>c. loop' \in Loops
  BY NothingTyped DEF TypeOK, SettleRead, LoopInv, NoLoop, Loops
<1>1. TypeOK'
  BY <1>c DEF TypeOK, LoopInv, SettleRead, rowVars, targetVars
<1>2. \A b \in Proposals : RowInv(b)'
  BY RowsKept DEF SettleRead
<1>3. RunInv'
  BY RunKept DEF SettleRead, rowVars, targetVars
<1>4. LoopInv'
  BY DEF TypeOK, LoopInv, SettleRead, rowVars, targetVars
<1> QED BY <1>1, <1>2, <1>3, <1>4

\* SettleCommit keeps the invariant.
LEMMA SettleCommitStep ==
  ASSUME ActionsInv, SettleCommit
  PROVE  ActionsInv'
<1> USE DEF ActionsInv
<1>a. /\ loop.id \in Proposals /\ reminder[loop.id] = "sending"
      /\ loop.outcome \in {"sent", "failed"} /\ loop.read \in Results
  BY DEF LoopInv, SettleCommit, TypeOK, Loops
<1>b. [loop.read EXCEPT !.reminder = loop.outcome] \in Results
  BY <1>a DEF Results, ReminderStates
<1>c. loop' \in Loops /\ loop'.st \in {"idle", "recover"}
  BY NothingTyped DEF SettleCommit, LoopNext, NoLoop, Loops
<1>1. TypeOK'
  BY <1>a, <1>b, <1>c DEF TypeOK, SettleCommit, ReminderStates, rowVars, targetVars
<1>2. \A b \in Proposals : RowInv(b)'
  <2> SUFFICES ASSUME NEW b \in Proposals PROVE RowInv(b)'
    OBVIOUS
  <2>1. UNCHANGED <<state, payload, approved, grants, starts, landed, writes, pushes>>
    BY DEF SettleCommit, rowVars, targetVars
  <2>2. reminder'[b] = IF b = loop.id THEN loop.outcome ELSE reminder[b]
    BY DEF SettleCommit, TypeOK
  <2> QED BY <1>a, <2>1, <2>2 DEF RowInv
<1>3. RunInv'
  BY RunKept DEF SettleCommit, rowVars, targetVars
<1>4. LoopInv'
  BY DEF TypeOK, LoopInv, SettleCommit, LoopNext, rowVars, targetVars
<1> QED BY <1>1, <1>2, <1>3, <1>4

\* SettleFails keeps the invariant.
LEMMA SettleFailsStep ==
  ASSUME ActionsInv, SettleFails
  PROVE  ActionsInv'
<1> USE DEF ActionsInv
<1>0. budget' \in [Events -> Nat]
  BY SpendTyped DEF TypeOK, Events, SettleFails
<1>c. loop' \in Loops
  BY NothingTyped DEF TypeOK, SettleFails, LoopInv, NoLoop, Loops
<1>1. TypeOK'
  BY <1>0, <1>c, NothingTyped DEF TypeOK, LoopInv, SettleFails, rowVars, targetVars
<1>2. \A b \in Proposals : RowInv(b)'
  BY RowsKept DEF SettleFails
<1>3. RunInv'
  BY RunKept DEF SettleFails, rowVars, targetVars
<1>4. LoopInv'
  BY DEF TypeOK, LoopInv, SettleFails, rowVars, targetVars, NoLoop
<1> QED BY <1>1, <1>2, <1>3, <1>4

\* RecoverReminders keeps the invariant.
LEMMA RecoverRemindersStep ==
  ASSUME ActionsInv, RecoverReminders
  PROVE  ActionsInv'
<1> USE DEF ActionsInv
<1>c. loop' \in Loops /\ LoopInv'
  <2>1. CASE \E a \in Proposals :
                /\ reminder[a] = "sending"
                /\ loop' = [NoLoop EXCEPT !.st = "settle", !.id = a, !.recovering = TRUE]
    <3>1. PICK a \in Proposals :
            /\ reminder[a] = "sending"
            /\ loop' = [NoLoop EXCEPT !.st = "settle", !.id = a, !.recovering = TRUE]
      BY <2>1
    <3>2. loop' \in Loops /\ loop'.st = "settle" /\ loop'.id = a
      BY <3>1, NothingTyped DEF NoLoop, Loops
    <3> QED BY <3>1, <3>2 DEF LoopInv, RecoverReminders
  <2>2. CASE loop' = NoLoop
    BY <2>2, NothingTyped DEF LoopInv, NoLoop
  <2> QED BY <2>1, <2>2 DEF RecoverReminders
<1>1. TypeOK'
  BY <1>c DEF TypeOK, RecoverReminders, rowVars, targetVars
<1>2. \A b \in Proposals : RowInv(b)'
  BY RowsKept DEF RecoverReminders
<1>3. RunInv'
  BY RunKept DEF RecoverReminders, rowVars, targetVars
<1>4. LoopInv'
  BY <1>c
<1> QED BY <1>1, <1>2, <1>3, <1>4

\* Crash keeps the invariant.
LEMMA CrashStep ==
  ASSUME ActionsInv, Crash
  PROVE  ActionsInv'
<1> USE DEF ActionsInv
<1>0. budget' \in [Events -> Nat]
  BY SpendTyped DEF TypeOK, Events, Crash
<1>1. TypeOK'
  BY <1>0, NothingTyped DEF TypeOK, Crash, rowVars, targetVars
<1>2. \A b \in Proposals : RowInv(b)'
  BY RowsKept DEF Crash
<1>3. RunInv'
  BY DEF TypeOK, RunInv, Crash, rowVars, targetVars, NoRun
<1>4. LoopInv'
  BY DEF TypeOK, LoopInv, Crash, rowVars, targetVars, NoLoop
<1> QED BY <1>1, <1>2, <1>3, <1>4

\* Restart keeps the invariant.
LEMMA RestartStep ==
  ASSUME ActionsInv, Restart
  PROVE  ActionsInv'
<1> USE DEF ActionsInv
<1>1. TypeOK'
  BY DEF TypeOK, Restart, rowVars, reminderVars, targetVars
<1>2. \A b \in Proposals : RowInv(b)'
  BY RowsKept DEF Restart, reminderVars
<1>3. RunInv'
  BY DEF TypeOK, RunInv, Restart, rowVars, reminderVars, targetVars
<1>4. LoopInv'
  BY DEF TypeOK, LoopInv, Restart, rowVars, reminderVars, targetVars
<1> QED BY <1>1, <1>2, <1>3, <1>4

\* Recover keeps the invariant.
LEMMA RecoverStep ==
  ASSUME ActionsInv, NEW a \in Proposals, Recover(a)
  PROVE  ActionsInv'
<1> USE DEF ActionsInv
<1>a. Found(a) \in Results /\ NoResult \in Results
  BY NothingTyped DEF TypeOK, Found, Results
<1>1. TypeOK'
  BY <1>a DEF TypeOK, Recover, States, reminderVars, targetVars
<1>2. \A b \in Proposals : RowInv(b)'
  BY DEF TypeOK, RowInv, Recover, Reconciled, Marked, Found, reminderVars, targetVars, Ungranted
<1>3. RunInv'
  BY DEF TypeOK, RunInv, Recover, Reconciled, Marked, Found, reminderVars, targetVars, NoRun
<1>4. LoopInv'
  BY LoopKept DEF Recover, reminderVars
<1> QED BY <1>1, <1>2, <1>3, <1>4

\* Serve keeps the invariant.
LEMMA ServeStep ==
  ASSUME ActionsInv, Serve
  PROVE  ActionsInv'
<1> USE DEF ActionsInv
<1>c. loop' \in Loops
  BY NothingTyped DEF TypeOK, Serve, LoopInv, NoLoop, Loops
<1>1. TypeOK'
  BY <1>c, NothingTyped DEF TypeOK, Serve, rowVars, targetVars
<1>2. \A b \in Proposals : RowInv(b)'
  BY RowsKept DEF Serve
<1>3. RunInv'
  BY DEF TypeOK, RunInv, Serve, rowVars, targetVars
<1>4. LoopInv'
  BY DEF TypeOK, LoopInv, Serve, rowVars, targetVars, NoLoop
<1> QED BY <1>1, <1>2, <1>3, <1>4

\* Initially nothing is proposed and nothing runs.
LEMMA InitInv == Init => ActionsInv
<1> SUFFICES ASSUME Init PROVE ActionsInv
  OBVIOUS
<1>1. TypeOK
  BY NothingTyped DEF Init, TypeOK, States, ReminderStates
<1>2. \A a \in Proposals : RowInv(a)
  BY DEF Init, RowInv, Ungranted
<1>3. RunInv /\ LoopInv
  BY DEF Init, RunInv, LoopInv, NoRun, NoLoop
<1> QED BY <1>1, <1>2, <1>3 DEF ActionsInv

\* Every step keeps the invariant.
LEMMA NextInv == ActionsInv /\ [Next]_vars => ActionsInv'
<1> SUFFICES ASSUME ActionsInv, [Next]_vars PROVE ActionsInv'
  OBVIOUS
<1>1. CASE Review
  BY <1>1, AdmitStep, EditReadStep, RejectStep, ExpireStaleStep, RetryStep DEF Review
<1>2. CASE \E seen \in [Proposals -> Payloads \cup {NoPayload}] : Approve(seen)
  BY <1>2, ApproveStep
<1>3. CASE \E e \in Editors : EditCas(e)
  BY <1>3, EditCasStep
<1>4. CASE Worker
  BY <1>4, TakeLockStep, NextApprovedStep, ClaimStep, CheckStep, WriteStep, ExecuteFailsStep,
     ReadBackStep, FinishStep, FinishFailsStep DEF Worker
<1>5. CASE ReminderLoop
  BY <1>5, PushStep, SettleReadStep, SettleCommitStep, SettleFailsStep, RecoverRemindersStep
     DEF ReminderLoop
<1>6. CASE \E a \in Proposals : ClaimDue(a)
  BY <1>6, ClaimDueStep
<1>7. CASE Crash
  BY <1>7, CrashStep
<1>8. CASE Restart
  BY <1>8, RestartStep
<1>9. CASE \E a \in Proposals : Recover(a)
  BY <1>9, RecoverStep
<1>10. CASE Serve
  BY <1>10, ServeStep
<1>11. CASE UNCHANGED vars
  <2>1. TypeOK'
    BY <1>11 DEF ActionsInv, TypeOK, vars
  <2>2. (\A a \in Proposals : RowInv(a))' /\ RunInv' /\ LoopInv'
    BY <1>11, RowsKept, RunKept, LoopKept DEF ActionsInv, vars, rowVars, targetVars, Proposals
  <2> QED BY <2>1, <2>2 DEF ActionsInv
<1> QED BY <1>1, <1>2, <1>3, <1>4, <1>5, <1>6, <1>7, <1>8, <1>9, <1>10, <1>11 DEF Next

-----------------------------------------------------------------------------
\* Every reachable state of the action queue satisfies the inductive invariant.
THEOREM Invariance == Spec => []ActionsInv
BY InitInv, NextInv, PTL DEF Spec

\* The rows, the requests, the tasks and the reminder loop keep their shape.
THEOREM TypeCorrect == Spec => []TypeOK
<1>1. ActionsInv => TypeOK
  BY DEF ActionsInv
<1> QED BY <1>1, Invariance, PTL

\* However edits, approvals, retries and crashes interleave, only the approved content reaches
\* a target.
THEOREM OnlyApprovedContent == Spec => []ExecutedAsApproved
<1>1. ActionsInv => ExecutedAsApproved
  BY DEF ActionsInv, RowInv, ExecutedAsApproved
<1> QED BY <1>1, Invariance, PTL

\* What the owner did not approve never runs.
THEOREM NoUnapprovedRun == Spec => []NothingUnapprovedRuns
<1>1. ActionsInv => NothingUnapprovedRuns
  BY DEF ActionsInv, RowInv, NothingUnapprovedRuns
<1> QED BY <1>1, Invariance, PTL

\* One approval or retry starts at most one run.
THEOREM OneGrantOneStart == Spec => []EachStartGranted
<1>1. ActionsInv => EachStartGranted
  BY DEF ActionsInv, RowInv, EachStartGranted
<1> QED BY <1>1, Invariance, PTL

\* Retries after lost answers and crashes do not repeat the effect.
THEOREM NoRepeatedEffect == Spec => []EffectOnce
<1>1. ActionsInv => EffectOnce
  BY DEF ActionsInv, RowInv, EffectOnce
<1> QED BY <1>1, Invariance, PTL

\* A reminder is pushed at most once.
THEOREM NoRepeatedPush == Spec => []PushedOnce
<1>1. ActionsInv => PushedOnce
  BY DEF ActionsInv, RowInv, PushedOnce
<1> QED BY <1>1, Invariance, PTL

\* Success is only reported for what is at the target.
THEOREM SuccessIsReal == Spec => []SucceededLanded
<1>1. ActionsInv => SucceededLanded
  BY DEF ActionsInv, RowInv, SucceededLanded
<1> QED BY <1>1, Invariance, PTL
=============================================================================
