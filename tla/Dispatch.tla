------------------------------ MODULE Dispatch ------------------------------
(***************************************************************************)
(* Approved work items run as Kubernetes Jobs: the gate, the queue, the    *)
(* loop that starts runs and reads their outcomes back, the runner in the  *)
(* Job, and the watch that closes items whose pull request merged.         *)
(*                                                                         *)
(* A run is its position in runs.  Its Job and its Secret are named after  *)
(* it.  A branch is the run that first used its name, and holds the runs   *)
(* that pushed to it.  What the Job reports stands for the fields of the   *)
(* report; token refreshes and notifications are left out.                 *)
(***************************************************************************)
EXTENDS WorkItems, Sequences

CONSTANTS MaxRuns, MaxConcurrent,
          Results  \* what Claude may leave

ASSUME DispatchBounds == {MaxRuns, MaxConcurrent} \subseteq Nat /\ MaxConcurrent > 0

VARIABLES
  requests,  \* dispatch requests between the gate and the queue
  runs,      \* the WorkItemDispatch rows
  loop,      \* DispatchService.run_loop
  jobs,      \* Kubernetes: the Job and the Secret of each run
  branches,  \* the repository
  prs,       \* its pull requests, in the order they were opened
  watch,     \* PrWatch.once: the items it still has to look at, as it read them
  closedBy   \* history: the pull requests that closed each item

runVars == <<requests, runs, loop, jobs, branches>>
prVars == <<prs, watch, closedBy>>
vars == <<workVars, budget, runVars, prVars>>

Runs == 1..MaxRuns
Active == {"queued", "running"}
NoJob == [phase |-> None, secret |-> FALSE, prompt |-> NoPrompt, base |-> <<>>, result |-> None]
Idle == [pc |-> "idle", todo |-> {}, queue |-> {}, run |-> 0, verdict |-> None,
         prompt |-> NoPrompt]

Init ==
  /\ WorkInit
  /\ requests = {} /\ runs = <<>> /\ loop = Idle
  /\ jobs = [r \in Runs |-> NoJob] /\ branches = [r \in Runs |-> <<>>]
  /\ prs = <<>> /\ watch = {} /\ closedBy = [i \in Items |-> {}]

InState(s) == {r \in DOMAIN runs : runs[r].state = s}
RunsOf(i) == {r \in DOMAIN runs : runs[r].item = i}

-----------------------------------------------------------------------------
(* Requests *)

\* The gate passes an approved item whose prompt is as it was approved, and captures the prompt
\* under the row's lock.
Gate(i, guided) ==
  /\ Unlocked /\ items[i].state = "approved" /\ items[i].prompt # NoPrompt
  /\ requests' = requests \cup {[id |-> budget["request"], item |-> i, guided |-> guided,
                                 prompt |-> items[i].prompt]}
  /\ Spend("request")
  /\ UNCHANGED <<workVars, runs, loop, jobs, branches, prVars>>

Refuses(q) ==
  \/ \E r \in RunsOf(q.item) : runs[r].state \in Active
  \/ q.guided /\ RunsOf(q.item) = {}

\* A second transaction queues the run, or refuses it.  A follow-up run keeps the last branch.
Queue(q) ==
  /\ q \in requests /\ Unlocked
  /\ requests' = requests \ {q}
  /\ runs' = IF Refuses(q) \/ Len(runs) = MaxRuns
             THEN runs
             ELSE Append(runs, [item |-> q.item, prompt |-> q.prompt, state |-> "queued",
                                named |-> FALSE, pr |-> 0,
                                branch |-> IF q.guided THEN runs[Max(RunsOf(q.item))].branch
                                           ELSE Len(runs) + 1])
  /\ UNCHANGED <<workVars, budget, loop, jobs, branches, prVars>>

\* The row of the run that is being started is locked by its start.
RunLock == IF loop.pc \in {"mint", "secret", "job"} THEN {loop.run} ELSE {}

Cancel(r) ==
  /\ r \in DOMAIN runs \ RunLock /\ runs[r].state \in Active
  /\ jobs' = IF runs[r].named THEN [jobs EXCEPT ![r].phase = "gone"] ELSE jobs
  /\ runs' = [runs EXCEPT ![r].state = "cancelled"]
  /\ Spend("cancel")
  /\ UNCHANGED <<workVars, requests, loop, branches, prVars>>

\* The Job is deleted and the transaction is not committed.
CancelLost(r) ==
  /\ r \in DOMAIN runs \ RunLock /\ runs[r].state \in Active /\ runs[r].named
  /\ jobs' = [jobs EXCEPT ![r].phase = "gone"]
  /\ Spend("lost")
  /\ UNCHANGED <<workVars, requests, runs, loop, branches, prVars>>

-----------------------------------------------------------------------------
(* The loop *)

\* A tick reads the running runs ...
Tick ==
  /\ loop.pc = "idle" /\ InState("running") \cup InState("queued") # {}
  /\ loop' = [Idle EXCEPT !.pc = "check", !.todo = InState("running")]
  /\ UNCHANGED <<workVars, budget, requests, runs, jobs, branches, prVars>>

\* interpret: the verdict on a Job, None while it runs.
Interpret(job) ==
  CASE job.phase \in {None, "gone", "failed"} -> "failed"
    [] job.phase = "expired" -> "timed_out"
    [] job.phase = "reported" -> job.result
    [] OTHER -> None

\* ... asks Kubernetes about each ...
CheckRead(r) ==
  /\ loop.pc = "check" /\ r \in loop.todo
  /\ loop' = [loop EXCEPT !.pc = IF Interpret(jobs[r]) = None THEN "check" ELSE "ended",
                          !.todo = @ \ {r}, !.run = r, !.verdict = Interpret(jobs[r])]
  /\ UNCHANGED <<workVars, budget, requests, runs, jobs, branches, prVars>>

CheckFails(r) ==
  /\ loop.pc = "check" /\ r \in loop.todo
  /\ loop' = [loop EXCEPT !.todo = @ \ {r}]
  /\ Spend("refused")
  /\ UNCHANGED <<workVars, requests, runs, jobs, branches, prVars>>

Ended(r, outcome, pr) == [runs EXCEPT ![r].state = outcome, ![r].pr = pr]
OpenPr(b) == {p \in DOMAIN prs : prs[p].branch = b /\ prs[p].state = "open"}
ReportedPr(r, outcome) ==
  IF outcome \in {"pr_opened", "needs_input"} /\ r \in Range(branches[runs[r].branch])
  THEN Max({p \in DOMAIN prs : prs[p].branch = runs[r].branch})
  ELSE 0

\* A mutant: the outcome is written whatever became of the run meanwhile.
CheckWriteBlindly ==
  /\ loop.pc = "ended"
  /\ runs' = Ended(loop.run, loop.verdict, ReportedPr(loop.run, loop.verdict))
  /\ loop' = [loop EXCEPT !.pc = "check"]
  /\ UNCHANGED <<workVars, budget, requests, jobs, branches, prVars>>

\* ... and records the outcome of one that ended, unless it was cancelled meanwhile.
CheckWrite ==
  /\ loop.pc = "ended"
  /\ runs' = IF runs[loop.run].state = "running"
             THEN Ended(loop.run, loop.verdict, ReportedPr(loop.run, loop.verdict))
             ELSE runs
  /\ loop' = [loop EXCEPT !.pc = "check"]
  /\ UNCHANGED <<workVars, budget, requests, jobs, branches, prVars>>

\* Then it counts the running ones and takes as many queued ones as there are free slots, which it
\* starts in the order they were queued in.
Oldest(S, n) == {r \in S : Cardinality({s \in S : s <= r}) <= n}
TickCount ==
  /\ loop.pc = "check" /\ loop.todo = {}
  /\ LET busy == Cardinality(InState("running"))
     IN loop' = [loop EXCEPT !.pc = "start",
                   !.queue = Oldest(InState("queued"),
                                    IF busy < MaxConcurrent THEN MaxConcurrent - busy ELSE 0)]
  /\ UNCHANGED <<workVars, budget, requests, runs, jobs, branches, prVars>>

TickEnds ==
  /\ loop.pc = "start" /\ loop.queue = {}
  /\ loop' = Idle
  /\ UNCHANGED <<workVars, budget, requests, runs, jobs, branches, prVars>>

\* A mutant: the item's prompt is not compared with the one that was queued.
StartReadUnchecked ==
  /\ loop.pc = "start" /\ loop.queue # {}
  /\ LET r == Min(loop.queue) IN
     IF runs[r].state # "queued" THEN /\ loop' = [loop EXCEPT !.queue = @ \ {r}]
                                      /\ UNCHANGED runs
     ELSE IF items[runs[r].item].state = "approved"
     THEN /\ loop' = [loop EXCEPT !.pc = "mint", !.queue = @ \ {r}, !.run = r,
                                  !.prompt = items[runs[r].item].prompt]
          /\ UNCHANGED runs
     ELSE /\ runs' = Ended(r, "failed", 0)
          /\ loop' = [loop EXCEPT !.queue = @ \ {r}]
  /\ UNCHANGED <<workVars, budget, requests, jobs, branches, prVars>>

\* A run starts if it is still queued and its item still carries the prompt it was queued with.
StartRead ==
  /\ loop.pc = "start" /\ loop.queue # {}
  /\ LET r == Min(loop.queue)
         item == items[runs[r].item] IN
     IF runs[r].state # "queued" THEN /\ loop' = [loop EXCEPT !.queue = @ \ {r}]
                                      /\ UNCHANGED runs
     ELSE IF item.state = "approved" /\ item.prompt = runs[r].prompt
     THEN /\ loop' = [loop EXCEPT !.pc = "mint", !.queue = @ \ {r}, !.run = r,
                                  !.prompt = item.prompt]
          /\ UNCHANGED runs
     ELSE /\ runs' = Ended(r, "failed", 0)
          /\ loop' = [loop EXCEPT !.queue = @ \ {r}]
  /\ UNCHANGED <<workVars, budget, requests, jobs, branches, prVars>>

\* With a GitHub token, the Secret is created, unless one of that name exists ...
StartSecret ==
  /\ loop.pc = "mint" /\ ~jobs[loop.run].secret
  /\ jobs' = [jobs EXCEPT ![loop.run].secret = TRUE]
  /\ loop' = [loop EXCEPT !.pc = "secret"]
  /\ UNCHANGED <<workVars, budget, requests, runs, branches, prVars>>

\* ... then the Job, unless one of that name exists ...
StartJob ==
  /\ loop.pc = "secret" /\ jobs[loop.run].phase = None
  /\ jobs' = [jobs EXCEPT ![loop.run].phase = "created", ![loop.run].prompt = loop.prompt]
  /\ loop' = [loop EXCEPT !.pc = "job"]
  /\ UNCHANGED <<workVars, budget, requests, runs, branches, prVars>>

\* ... then the Secret is given to the Job, and the row is committed.
StartCommit ==
  /\ loop.pc = "job"
  /\ runs' = [runs EXCEPT ![loop.run].state = "running", ![loop.run].named = TRUE]
  /\ loop' = [loop EXCEPT !.pc = "start"]
  /\ UNCHANGED <<workVars, budget, requests, jobs, branches, prVars>>

\* No token: the run has failed.
MintFails ==
  /\ loop.pc = "mint"
  /\ runs' = Ended(loop.run, "failed", 0)
  /\ loop' = [loop EXCEPT !.pc = "start"]
  /\ Spend("refused")
  /\ UNCHANGED <<workVars, requests, jobs, branches, prVars>>

\* A mutant: a start that is refused stays queued.
StartRefusedRetrying ==
  /\ loop.pc \in {"mint", "secret", "job"}
  /\ \/ loop.pc = "mint" /\ jobs[loop.run].secret
     \/ loop.pc = "secret" /\ jobs[loop.run].phase # None
  /\ loop' = [loop EXCEPT !.pc = "start"]
  /\ UNCHANGED <<workVars, budget, requests, runs, jobs, branches, prVars>>

\* Kubernetes refuses a call, because the name is taken or for another reason: the Secret is
\* deleted if that works, a Job that was created is left, and the run has failed.
StartRefused ==
  /\ loop.pc \in {"mint", "secret", "job"}
  /\ IF \/ loop.pc = "mint" /\ jobs[loop.run].secret
        \/ loop.pc = "secret" /\ jobs[loop.run].phase # None
     THEN UNCHANGED budget
     ELSE Spend("refused")
  /\ runs' = Ended(loop.run, "failed", 0)
  /\ \E kept \in BOOLEAN : jobs' = [jobs EXCEPT ![loop.run].secret = @ /\ kept]
  /\ loop' = [loop EXCEPT !.pc = "start"]
  /\ UNCHANGED <<workVars, requests, branches, prVars>>

\* An answer does not come: the transaction is rolled back and the tick is over.
StartLost ==
  /\ loop.pc \in {"mint", "secret", "job"}
  /\ loop' = Idle
  /\ Spend("lost")
  /\ UNCHANGED <<workVars, requests, runs, jobs, branches, prVars>>

-----------------------------------------------------------------------------
(* The Job: the runner's three steps *)

\* The worktree starts from the branch if an earlier run pushed it, else from the default.
Prepare(r) ==
  /\ jobs[r].phase = "created" /\ jobs[r].secret
  /\ jobs' = [jobs EXCEPT ![r].phase = "prepared", ![r].base = branches[runs[r].branch]]
  /\ UNCHANGED <<workVars, budget, requests, runs, loop, branches, prVars>>

\* Claude leaves a patch or none, and questions, a message, an error or a usage limit.
Claude(r) ==
  /\ jobs[r].phase = "prepared"
  /\ \E result \in Results :
       jobs' = [jobs EXCEPT ![r].phase = "answered", ![r].result = result]
  /\ UNCHANGED <<workVars, budget, requests, runs, loop, branches, prVars>>

\* outcomes without a patch (Results has those, "patch" and "patch_asking")
WithoutPatch == [asking |-> "needs_input", nothing |-> "no_changes", limit |-> "rate_limited",
                 error |-> "failed"]

\* A patch is committed on the base it was made from; the branch takes it if it is still there.
\* Its open pull request is used again, else one is opened; either call may fail after the push.
Push(r) ==
  LET b == runs[r].branch
      reports(outcome) == jobs' = [jobs EXCEPT ![r].phase = "reported", ![r].result = outcome]
  IN
  /\ jobs[r].phase = "answered"
  /\ \/ /\ jobs[r].result \in DOMAIN WithoutPatch
        /\ reports(WithoutPatch[jobs[r].result])
        /\ UNCHANGED <<branches, prs, budget>>
     \/ /\ jobs[r].result \notin DOMAIN WithoutPatch
        /\ IF branches[b] = jobs[r].base THEN Spend("refused") ELSE UNCHANGED budget
        /\ reports("failed")
        /\ UNCHANGED <<branches, prs>>
     \/ /\ jobs[r].result \notin DOMAIN WithoutPatch /\ branches[b] = jobs[r].base
        /\ branches' = [branches EXCEPT ![b] = Append(@, r)]
        /\ \/ /\ Spend("refused") /\ reports("failed") /\ UNCHANGED prs
           \/ /\ reports(IF jobs[r].result = "patch" THEN "pr_opened" ELSE "needs_input")
              /\ prs' = IF OpenPr(b) # {} THEN prs
                        ELSE Append(prs, [item |-> runs[r].item, branch |-> b, state |-> "open"])
              /\ UNCHANGED budget
  /\ UNCHANGED <<workVars, requests, runs, loop, watch, closedBy>>

\* activeDeadlineSeconds, or a step that exits with an error.
JobEnds(r) ==
  /\ jobs[r].phase \in {"created", "prepared", "answered"}
  /\ \/ /\ jobs' = [jobs EXCEPT ![r].phase = "expired"]
        /\ UNCHANGED budget
     \/ /\ jobs' = [jobs EXCEPT ![r].phase = "failed"]
        /\ Spend("refused")
  /\ UNCHANGED <<workVars, requests, runs, loop, branches, prVars>>

-----------------------------------------------------------------------------
(* Pull requests *)

\* A prompt that was copied ran elsewhere: its pull request names the item.
OutsidePr(i) ==
  /\ items[i].state = "approved"
  /\ prs' = Append(prs, [item |-> i, branch |-> 0, state |-> "open"])
  /\ Spend("outside")
  /\ UNCHANGED <<workVars, runVars, watch, closedBy>>

MergePr(p) ==
  /\ p \in DOMAIN prs /\ prs[p].state = "open"
  /\ prs' = [prs EXCEPT ![p].state = "merged"]
  /\ Spend("mergepr")
  /\ UNCHANGED <<workVars, runVars, watch, closedBy>>

\* A pass reads the approved items ...
WatchRead ==
  /\ watch = {} /\ \E p \in DOMAIN prs : prs[p].state = "merged"
  /\ watch' = {[item |-> i, known |-> items[i].mergedPr] :
                 i \in {j \in Items : items[j].state = "approved"}}
  /\ UNCHANGED <<workVars, budget, runVars, prs, closedBy>>

Merged(w) == {p \in DOMAIN prs : /\ prs[p].state = "merged" /\ prs[p].item = w.item
                                 /\ p # w.known}

\* ... and closes each that a merged pull request is found for, unless it moved on.
WatchClose(w) ==
  /\ w \in watch /\ Unlocked
  /\ watch' = watch \ {w}
  /\ \/ Merged(w) = {} /\ UNCHANGED <<items, closedBy>>
     \/ \E p \in Merged(w) :
          IF items[w.item].state = "approved" /\ items[w.item].mergedPr # p
          THEN /\ items' = [items EXCEPT ![w.item].state = "done", ![w.item].mergedPr = p]
               /\ closedBy' = [closedBy EXCEPT ![w.item] = @ \cup {p}]
          ELSE UNCHANGED <<items, closedBy>>
  /\ UNCHANGED <<ideas, said, approvals, budget, runVars, prs>>

\* The process dies and comes back: what was not committed is gone.
Crash ==
  /\ Unlocked
  /\ requests' = {} /\ loop' = Idle /\ watch' = {}
  /\ ideas' = [ideas EXCEPT !.pass = "idle", !.sent = {}]
  /\ Spend("crash")
  /\ UNCHANGED <<items, said, approvals, runs, jobs, branches, prs, closedBy>>

LoopStep ==
  \/ Tick \/ CheckWrite \/ TickCount \/ TickEnds \/ StartRead \/ StartSecret \/ StartJob
  \/ StartCommit
  \/ \E r \in Runs : CheckRead(r)
  \/ StartRefused

Next ==
  \/ WorkNext /\ UNCHANGED <<runVars, prVars>>
  \/ \E i \in Items, guided \in BOOLEAN : Gate(i, guided)
  \/ \E q \in requests : Queue(q)
  \/ LoopStep \/ MintFails \/ StartLost
  \/ \E r \in Runs : \/ Cancel(r) \/ CancelLost(r) \/ CheckFails(r)
                     \/ Prepare(r) \/ Claude(r) \/ Push(r) \/ JobEnds(r)
  \/ \E i \in Items : OutsidePr(i)
  \/ \E p \in DOMAIN prs : MergePr(p)
  \/ WatchRead \/ \E w \in watch : WatchClose(w)
  \/ Crash

Spec == Init /\ [][Next]_vars

\* The loop runs as long as the process does, a process that dies is started again, and
\* Kubernetes ends a Job at its deadline.
Fairness ==
  /\ WF_vars(LoopStep)
  /\ \A r \in Runs : WF_vars(JobEnds(r))
FairSpec == Spec /\ Fairness

-----------------------------------------------------------------------------
(* Properties *)

\* The rows of runs, the loop and Kubernetes's objects have the states the code knows.
Outcomes == {"pr_opened", "needs_input", "no_changes", "rate_limited", "failed", "timed_out", "cancelled"}
DispatchTypeOK ==
  /\ Len(runs) <= MaxRuns
  /\ \A r \in DOMAIN runs : /\ runs[r].item \in Items /\ runs[r].state \in Active \cup Outcomes
                           /\ runs[r].named \in BOOLEAN /\ runs[r].branch \in 1..r
                           /\ runs[r].pr \in 0..Len(prs)
  /\ loop.pc \in {"idle", "check", "ended", "start", "mint", "secret", "job"}
  /\ loop.todo \subseteq DOMAIN runs /\ loop.queue \subseteq DOMAIN runs
  /\ loop.run \in 0..Len(runs) /\ loop.verdict \in Outcomes \cup {None}
  /\ \A r \in Runs : /\ jobs[r].phase \in {None, "created", "prepared", "answered", "reported", "expired",
                                          "failed", "gone"}
                     /\ jobs[r].secret \in BOOLEAN /\ Range(branches[r]) \subseteq DOMAIN runs
  /\ \A p \in DOMAIN prs : /\ prs[p].item \in Items /\ prs[p].branch \in 0..Len(runs)
                          /\ prs[p].state \in {"open", "merged"}
  /\ closedBy \in [Items -> SUBSET DOMAIN prs]

\* A Job carries a prompt its item's owner approved, and the very one that was queued, whatever
\* was edited, approved or withdrawn between the gate, the queue and the start.
RunsAsApproved ==
  \A r \in DOMAIN runs :
    jobs[r].prompt # NoPrompt => /\ jobs[r].prompt = runs[r].prompt
                                 /\ <<runs[r].item, jobs[r].prompt>> \in approvals

\* What a run has pushed stays on its branch: a run that continues it, a Job that outlived its
\* run's row and a cancelled one never take it away.
PushedStays ==
  [][\A b \in Runs : SubSeq(branches'[b], 1, Len(branches[b])) = branches[b]]_vars

\* The outcome of a run that ended is never replaced: not by a check that read the Job before
\* the run was cancelled, nor by a restarted loop.
OutcomeFinal ==
  [][\A r \in DOMAIN runs : runs[r].state \notin Active => runs'[r].state = runs[r].state]_vars

Never(events) == \A e \in events : budget[e] = 0
Working == {r \in Runs : jobs[r].phase \in {"created", "prepared", "answered"}}

\* No more Jobs work than dispatch_max_concurrent allows, cancellations and failing calls
\* included, as long as no start is cut off between Kubernetes and the row, nor refused after
\* its Job was created.
JobsWithinLimit == Never({"refused", "lost", "crash"}) => Cardinality(Working) <= MaxConcurrent

\* A queued or running run ends, past runs ahead of it in the queue, refusals, lost answers and
\* deaths of the process.
IsActive(r) == r \in DOMAIN runs /\ runs[r].state \in Active
RunEnds == \A r \in Runs : IsActive(r) ~> ~IsActive(r)

\* README: "Reopen undoes it, and the same PR does not close the item again."
SamePrOnce ==
  [][\A i \in Items : items'[i].mergedPr # items[i].mergedPr
                        => items'[i].mergedPr \notin closedBy[i]]_vars

\* What runs is what was approved, and no more of it at once than allowed.
RunsSound == DispatchTypeOK /\ RunsAsApproved /\ JobsWithinLimit

\* Neither what a run pushed nor how it ended is undone.
RunsForward == PushedStays /\ OutcomeFinal
=============================================================================
