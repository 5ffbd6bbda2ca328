----------------------------- MODULE CaptureApi -----------------------------
(***************************************************************************)
(* The capture API: voice notes put into the vault's inbox, notifications  *)
(* that wait for a poll, and background agent tasks with their tools.      *)
(* Requests and task threads run in parallel; notifications and tasks are  *)
(* dictionaries under a lock each, saved to a file after every change and  *)
(* read from it when the process starts.  A voice note's file is named     *)
(* after the minute and the device; texts are the ids they came from.      *)
(***************************************************************************)
EXTENDS Naturals, Sequences, SequencesExt, FiniteSets, FiniteSetsExt

CONSTANTS Captures, Names, Notifs, MaxTime, AgentTasks, MaxIterations, MaxWindow, KeepTail,
          Paths, Branches, CaptureScenarios

ASSUME CaptureBounds ==
  /\ {MaxTime, MaxIterations, MaxWindow, KeepTail} \subseteq Nat /\ MaxIterations > 0 /\ KeepTail <= MaxWindow

VARIABLES
  captures,   \* uploads: their step, and the name they got
  inbox,      \* by name: the note's transcript and the recording beside it
  clock,
  notifs, notifsFile,  \* _NOTIFS and its file
  handed,     \* notifications given to the phone, in order
  tasks, tasksFile,    \* _TASKS and its file
  threads,    \* those that run a task
  removed,    \* tasks that were deleted
  vault,      \* notes of the vault
  workspace,  \* one repository's working directory
  capBudget

inboxVars == <<captures, inbox>>
notifVars == <<clock, notifs, notifsFile, handed>>
toolVars == <<vault, workspace>>
taskVars == <<tasks, tasksFile, threads, removed>>
captureVars == <<inboxVars, notifVars, taskVars, toolVars, capBudget>>

CaptureEvents == {"capture", "notify", "task", "reply", "tool", "unsaved", "llm", "crash"}
CapAffords(e) ==
  \E most \in CaptureScenarios : capBudget[e] < most[e] /\ \A f \in CaptureEvents : capBudget[f] <= most[f]
CapSpend(e) == CapAffords(e) /\ capBudget' = [capBudget EXCEPT ![e] = @ + 1]

Nothing == [text |-> "none", audio |-> "none"]
NoNotif == [at |-> 0, delivered |-> FALSE, there |-> FALSE]
NoTask == [status |-> "absent", messages |-> <<>>]
NoRepo == [kind |-> "none", branch |-> "main", dirty |-> {}, commits |-> [b \in Branches |-> {}]]

CaptureInit ==
  /\ captures = [c \in Captures |-> [pc |-> "new", name |-> "none", mp3 |-> FALSE]]
  /\ inbox = [n \in Names |-> Nothing]
  /\ clock = 0 /\ notifs = [n \in Notifs |-> NoNotif] /\ notifsFile = notifs /\ handed = <<>>
  /\ tasks = [t \in AgentTasks |-> NoTask] /\ tasksFile = tasks /\ threads = {} /\ removed = {}
  /\ vault = {} /\ workspace = NoRepo /\ capBudget = [e \in CaptureEvents |-> 0]

-----------------------------------------------------------------------------
(* Voice notes *)

\* capture_audio: the upload is in a temporary file and has been transcribed; nothing heard, or a
\* decoder that fails, is refused.
Upload(c, name) ==
  /\ captures[c].pc = "new" /\ CapSpend("capture")
  /\ \/ captures' = [captures EXCEPT ![c] = [pc |-> "heard", name |-> name, mp3 |-> FALSE]]
     \/ captures' = [captures EXCEPT ![c].pc = "refused"]
  /\ UNCHANGED <<inbox, notifVars, taskVars, toolVars>>

\* The recording is put beside the note to come; without ffmpeg the note goes without.
Transcode(c) ==
  /\ captures[c].pc = "heard"
  /\ \E ok \in BOOLEAN :
       /\ captures' = [captures EXCEPT ![c].pc = "write", ![c].mp3 = ok]
       /\ inbox' = IF ok THEN [inbox EXCEPT ![captures[c].name].audio = c] ELSE inbox
  /\ UNCHANGED <<notifVars, taskVars, toolVars, capBudget>>

\* write_voice_note: the file is overwritten if it is there.
WriteVoiceNote(c) ==
  /\ captures[c].pc = "write"
  /\ inbox' = [inbox EXCEPT ![captures[c].name].text = c]
  /\ captures' = [captures EXCEPT ![c].pc = "received"]
  /\ UNCHANGED <<notifVars, taskVars, toolVars, capBudget>>

\* capture_voice: the client transcribed it.
CaptureVoice(c, name) ==
  /\ captures[c].pc = "new" /\ CapSpend("capture")
  /\ captures' = [captures EXCEPT ![c] = [pc |-> "write", name |-> name, mp3 |-> FALSE]]
  /\ UNCHANGED <<inbox, notifVars, taskVars, toolVars>>

-----------------------------------------------------------------------------
(* Notifications *)

Elapse ==
  /\ clock < MaxTime /\ (\E n \in Notifs : notifs[n].there) /\ clock' = clock + 1
  /\ UNCHANGED <<inboxVars, notifs, notifsFile, handed, taskVars, toolVars, capBudget>>

\* _notifs_save swallows a failure.
SaveNotifs(new) ==
  /\ notifs' = new
  /\ \/ notifsFile' = new /\ UNCHANGED capBudget
     \/ UNCHANGED notifsFile /\ CapSpend("unsaved")

NotifySchedule(n, delay) ==
  /\ ~notifs[n].there /\ \A i \in DOMAIN handed : handed[i] # n
  /\ CapSpend("notify")
  /\ notifs' = [notifs EXCEPT ![n] = [at |-> clock + delay, delivered |-> FALSE, there |-> TRUE]]
  /\ notifsFile' = notifs'
  /\ UNCHANGED <<inboxVars, clock, handed, taskVars, toolVars>>

Due == {n \in Notifs : notifs[n].there /\ ~notifs[n].delivered /\ notifs[n].at <= clock}

\* A poll gets all that are due, and marks them.
NotifyPending ==
  /\ Due # {}
  /\ SaveNotifs([n \in Notifs |-> IF n \in Due THEN [notifs[n] EXCEPT !.delivered = TRUE] ELSE notifs[n]])
  /\ handed' = handed \o SetToSeq(Due)
  /\ UNCHANGED <<inboxVars, clock, taskVars, toolVars>>

NotifyCancel(n) ==
  /\ notifs[n].there /\ SaveNotifs([notifs EXCEPT ![n] = NoNotif])
  /\ UNCHANGED <<inboxVars, clock, handed, taskVars, toolVars>>

-----------------------------------------------------------------------------
(* Agent tasks *)

\* _tasks_save swallows a failure, too (of the saves after the task was made).
StoreTasks(new) == tasks' = new /\ tasksFile' = new
SaveTasks(new) ==
  /\ tasks' = new
  /\ \/ tasksFile' = new /\ UNCHANGED capBudget
     \/ UNCHANGED tasksFile /\ CapSpend("unsaved")
Thread(t) == [task |-> t, no |-> capBudget["task"] + capBudget["reply"], pc |-> "start", send |-> <<>>,
              new |-> <<>>, first |-> FALSE, iteration |-> 1]
Become(th, next) == threads' = (threads \ {th}) \cup {next}

AgentTaskCreate(t) ==
  /\ tasks[t].status = "absent" /\ t \notin removed /\ CapSpend("task")
  /\ StoreTasks([tasks EXCEPT ![t] = [status |-> "queued", messages |-> <<>>]])
  /\ threads' = threads \cup {Thread(t)}
  /\ UNCHANGED <<inboxVars, notifVars, removed, toolVars>>

\* A reply goes to a task that has ended, and a new thread continues it.
AgentTaskReply(t) ==
  /\ tasks[t].status \in {"done", "failed"} /\ CapSpend("reply")
  /\ StoreTasks([tasks EXCEPT ![t] = [status |-> "queued", messages |-> Append(@.messages, "reply")]])
  /\ threads' = threads \cup {Thread(t)}
  /\ UNCHANGED <<inboxVars, notifVars, removed, toolVars>>

AgentTaskDelete(t) ==
  /\ tasks[t].status # "absent" /\ SaveTasks([tasks EXCEPT ![t] = NoTask]) /\ removed' = removed \cup {t}
  /\ UNCHANGED <<inboxVars, notifVars, threads, toolVars>>

\* The thread starts: the stored conversation goes on, or the prompt opens one.
StartTask(th) ==
  LET t == tasks[th.task]
  IN  /\ th.pc = "start"
      /\ IF t.status = "absent" THEN threads' = threads \ {th} /\ UNCHANGED <<tasks, tasksFile, capBudget>>
         ELSE /\ SaveTasks([tasks EXCEPT ![th.task].status = "running"])
              /\ Become(th, [th EXCEPT !.pc = "call", !.first = t.messages = <<>>,
                                       !.send = IF t.messages = <<>> THEN <<"prompt">> ELSE t.messages])
      /\ UNCHANGED <<inboxVars, notifVars, removed, toolVars>>

\* The seed stays when the middle of a long conversation is left out.
Pruned(send) ==
  IF Len(send) <= MaxWindow THEN send
  ELSE <<send[1]>> \o SubSeq(send, Len(send) - KeepTail + 1, Len(send))

Said(th, answer) == [th EXCEPT !.send = Append(Pruned(@), answer), !.new = Append(@, answer)]

\* The LLM asks for a tool; calls task_done; or just says something and is told to go on, up to
\* the last iteration, whose answer is taken as it is.
LlmSaysTool(th) ==
  /\ th.pc = "call" /\ CapSpend("tool") /\ Become(th, [Said(th, "answer") EXCEPT !.pc = "tool"])
  /\ UNCHANGED <<inboxVars, notifVars, tasks, tasksFile, removed, toolVars>>

LlmSaysText(th) ==
  /\ th.pc = "call"
  /\ Become(th, [Said(th, "answer") EXCEPT !.pc = IF th.iteration < MaxIterations THEN "call" ELSE "done",
                                           !.iteration = @ + 1])
  /\ UNCHANGED <<inboxVars, notifVars, tasks, tasksFile, removed, toolVars, capBudget>>

LlmSaysDone(th) ==
  /\ th.pc = "call" /\ Become(th, [Said(th, "answer") EXCEPT !.pc = "done"])
  /\ UNCHANGED <<inboxVars, notifVars, tasks, tasksFile, removed, toolVars, capBudget>>

LlmFails(th) ==
  /\ th.pc = "call" /\ CapSpend("llm") /\ Become(th, [th EXCEPT !.pc = "failed"])
  /\ UNCHANGED <<inboxVars, notifVars, tasks, tasksFile, removed, toolVars>>

\* The outcome is written, unless the task was deleted meanwhile.  A failure before the first answer
\* keeps no conversation.
EndTask(th) ==
  LET t == tasks[th.task]
      history == (IF th.first THEN <<th.send[1]>> ELSE t.messages) \o th.new
  IN  /\ th.pc \in {"done", "failed"} /\ threads' = threads \ {th}
      /\ SaveTasks(IF t.status = "absent" THEN tasks
                   ELSE [tasks EXCEPT ![th.task] =
                           [status |-> th.pc,
                            messages |-> IF th.pc = "failed" /\ th.new = <<>> THEN t.messages ELSE history]])
      /\ UNCHANGED <<inboxVars, notifVars, removed, toolVars>>

-----------------------------------------------------------------------------
(* Tools, called by a task or over HTTP *)

Checkout(w, b) == IF w.kind = "repo" THEN [w EXCEPT !.branch = b] ELSE w

\* A workspace that is there is fetched, whatever it is; git may refuse to switch with open changes.
GitClone(b) ==
  /\ UNCHANGED vault
  /\ \/ workspace.kind = "none" /\ workspace' = [NoRepo EXCEPT !.kind = "repo", !.branch = b]
     \/ workspace.kind # "none" /\ workspace' = Checkout(workspace, b)
     \/ UNCHANGED workspace

\* The endpoint asks for a clone first; the agent's tool makes the directory.
GitWrite(p) ==
  /\ UNCHANGED vault
  /\ workspace' = [workspace EXCEPT !.kind = IF @ = "none" THEN "dir" ELSE @, !.dirty = @ \cup {p}]

\* On the branch that was asked for, or on the one git refused to leave.
GitCommit(b) ==
  /\ UNCHANGED vault /\ workspace.kind = "repo" /\ workspace.dirty # {}
  /\ \E to \in {b, workspace.branch} :
       workspace' = [workspace EXCEPT !.branch = to, !.dirty = {}, !.commits[to] = @ \cup workspace.dirty]

VaultWrite(p) == UNCHANGED workspace /\ vault' = vault \cup {p}
VaultAppend(p) == UNCHANGED workspace /\ p \in vault /\ UNCHANGED vault
Reads == UNCHANGED toolVars

ExecuteTool ==
  \/ Reads
  \/ \E p \in Paths : GitWrite(p) \/ VaultWrite(p) \/ VaultAppend(p)
  \/ \E b \in Branches : GitClone(b) \/ GitCommit(b)

\* The tool's result, an error included, goes back to the LLM.
RunTool(th) ==
  /\ th.pc = "tool" /\ ExecuteTool
  /\ Become(th, [th EXCEPT !.send = Append(@, "tool"), !.new = Append(@, "tool"),
                           !.pc = IF th.iteration < MaxIterations THEN "call" ELSE "done",
                           !.iteration = @ + 1])
  /\ UNCHANGED <<inboxVars, notifVars, tasks, tasksFile, removed, capBudget>>

\* The same over HTTP, with the API's key.
HttpTool ==
  CapSpend("tool") /\ ExecuteTool /\ UNCHANGED <<inboxVars, notifVars, taskVars>>

\* A new process: the files, and no thread.
CaptureCrash ==
  /\ CapSpend("crash") /\ notifs' = notifsFile /\ tasks' = tasksFile /\ threads' = {}
  /\ captures' = [c \in Captures |-> IF captures[c].pc \in {"heard", "write"}
                                     THEN [captures[c] EXCEPT !.pc = "refused"] ELSE captures[c]]
  /\ UNCHANGED <<inbox, clock, notifsFile, handed, tasksFile, removed, toolVars>>

ThreadStep(th) ==
  \/ StartTask(th) \/ LlmSaysTool(th) \/ LlmSaysText(th) \/ LlmSaysDone(th) \/ LlmFails(th)
  \/ RunTool(th) \/ EndTask(th)
ThreadSteps == \E th \in threads : ThreadStep(th)

CaptureNext ==
  \/ \E c \in Captures : Transcode(c) \/ WriteVoiceNote(c)
  \/ \E c \in Captures, n \in Names : Upload(c, n) \/ CaptureVoice(c, n)
  \/ Elapse \/ NotifyPending \/ (\E n \in Notifs : NotifySchedule(n, 1) \/ NotifyCancel(n))
  \/ \E t \in AgentTasks : AgentTaskCreate(t) \/ AgentTaskReply(t) \/ AgentTaskDelete(t)
  \/ ThreadSteps \/ HttpTool \/ CaptureCrash

-----------------------------------------------------------------------------
(* Properties *)

\* What is in memory and what is in the files have the same form.
TaskOK(t) ==
  /\ t.status \in {"absent", "queued", "running", "done", "failed"}
  /\ Range(t.messages) \subseteq {"prompt", "reply", "answer", "tool"}
CaptureTypeOK ==
  /\ \A c \in Captures : captures[c].pc \in {"new", "heard", "write", "received", "refused"}
  /\ inbox \in [Names -> [text : Captures \cup {"none"}, audio : Captures \cup {"none"}]]
  /\ {notifs, notifsFile} \subseteq [Notifs -> [at : Nat, delivered : BOOLEAN, there : BOOLEAN]]
  /\ Range(handed) \subseteq Notifs /\ clock \in 0..MaxTime
  /\ \A t \in AgentTasks : TaskOK(tasks[t]) /\ TaskOK(tasksFile[t])
  /\ \A th \in threads : /\ th.task \in AgentTasks /\ th.pc \in {"start", "call", "tool", "done", "failed"}
                        /\ th.iteration \in 1..MaxIterations + 1
  /\ removed \subseteq AgentTasks /\ vault \subseteq Paths
  /\ workspace \in [kind : {"none", "dir", "repo"}, branch : Branches \cup {"main"}, dirty : SUBSET Paths,
                   commits : [Branches -> SUBSET Paths]]

\* A notification is handed to the phone once, past restarts: it is marked and saved before the
\* answer is sent (saves that failed aside).
HandedOnce ==
  capBudget["unsaved"] = 0 => \A i, j \in DOMAIN handed : handed[i] = handed[j] => i = j

\* Two threads never run the same task: a reply is refused until the last run has ended.
OneRunner == \A a, b \in threads : a.task = b.task /\ tasks[a.task].status # "absent" => a = b

\* A task that was deleted stays away, though its thread runs to its end and writes an outcome,
\* past restarts (saves that failed aside).
DeletedStaysAway == capBudget["unsaved"] = 0 => \A t \in removed : tasks[t].status = "absent" /\ tasksFile[t].status = "absent"

\* A task that was started ends, is deleted, or the process is lost.
TaskEnds == \A t \in AgentTasks :
  []<>(capBudget["crash"] = 0 => tasks[t].status \notin {"queued", "running"})

\* Every call of the LLM carries the task's prompt, however long the conversation and whatever failed.
PromptSent == \A th \in threads : th.pc = "call" => "prompt" \in Range(th.send)

\* What the capture API keeps over restarts and threads: what it handed out, who runs a task, what
\* was deleted.
CaptureSound == CaptureTypeOK /\ HandedOnce /\ OneRunner /\ DeletedStaysAway
=============================================================================
