-------------------------- MODULE SessionJobsProofs --------------------------
(***************************************************************************)
(* TLAPS proofs about SessionJobs.tla, for any number of parts, runs,      *)
(* callers and requests, any faults and any interleaving: process never    *)
(* starts a second job, the note is that of the transcript, a reprocess    *)
(* never mixes two transcripts, and where a rerun is alone nothing that    *)
(* was transcribed is lost.                                                *)
(***************************************************************************)
EXTENDS SessionJobs, FiniteSetTheorems, TLAPS

-----------------------------------------------------------------------------
(* Types *)

Stages == {"unused", "ending", "setdone", "note", "llm", "written", "tail", "queued", "select",
           "rerun", "settle", "restore", "clear", "over"}
RunRow == [st : Stages, todo : SUBSET Parts, lost : BOOLEAN, old : SUBSET Row, seen : SUBSET Row,
           restore : Finished, backfill : BOOLEAN]
EnderRow == [st : {"idle", "marked", "draining", "over"}, moved : BOOLEAN, took : BOOLEAN]
RequestRow == [st : {"idle", "waiting", "read", "cas", "start"}, verb : Verbs,
               before : Finished \cup {"finalizing"}]
PickRow == [st : {"idle", "cas", "start"}, verb : Verbs, before : Finished]

RowTypes == status \in Active \cup Finished /\ deleted \in BOOLEAN /\ pending \in BOOLEAN
            /\ recent \in BOOLEAN /\ audio \in BOOLEAN /\ rows \subseteq Row /\ note \subseteq Row
HubTypes == server \in {"up", "down"} /\ ingest \in BOOLEAN /\ producer \in BOOLEAN
            /\ pipe \subseteq Parts /\ sttAway \in BOOLEAN /\ draining \in BOOLEAN
            /\ ender \in [Enders -> EnderRow]
JobTypes == job \in [Jobs -> RunRow] /\ entry \in {NoJob} \cup Jobs
            /\ backfilling \in {NoJob} \cup Jobs
CallTypes == lock \in {NoHolder} \cup Clients /\ request \in [Clients -> RequestRow]
             /\ backfill \in PickRow /\ deleting \in BOOLEAN /\ purging \in BOOLEAN

\* TypeOK with the variables that hold records as functions.
Typed ==
  RowTypes /\ HubTypes /\ JobTypes /\ CallTypes /\ budget \in [Events -> Nat]

LEMMA TypesHold ==
  ASSUME Typed
  PROVE  TypeOK
<1>1. \A e \in Events : budget[e] \in Nat
  BY DEF Typed
<1> QED BY <1>1 DEF Typed, TypeOK, RowTypes, HubTypes, JobTypes, CallTypes, Stages, RunRow, EnderRow, RequestRow, PickRow

\* The rows of a call, a request and a run at rest are typed.
LEMMA RestTyped ==
  /\ Idle \in EnderRow
  /\ Unused \in RunRow
  /\ NoRequest \in RequestRow
  /\ NoRequest \in PickRow
<1>1. Unused \in RunRow
  BY DEF Unused, RunRow, Stages, Finished
<1> QED BY <1>1 DEF Idle, EnderRow, NoRequest, RequestRow, PickRow, Verbs, Finished

\* A job number is a positive number.
LEMMA JobNumbers == /\ Jobs \subseteq Nat
                    /\ \A j \in Jobs : j # NoJob /\ j # Live /\ j > 0
BY SessionJobsBounds DEF Jobs, NoJob, Live

\* What happens once more is counted, and no count goes down.
LEMMA SpendCounts ==
  ASSUME budget \in [Events -> Nat], NEW event \in Events, Spend(event)
  PROVE  /\ budget' \in [Events -> Nat]
         /\ \A e \in Events : budget'[e] >= budget[e]
         /\ \A e \in Events : budget'[e] > budget[e] => e = event
         /\ budget'[event] = budget[event] + 1
BY DEF Spend

\* A run in its first stage is typed, and nothing but it and the entry changes.
LEMMA TrackCase ==
  ASSUME JobTypes, NEW j \in Jobs, NEW st \in Stages, NEW restore \in Finished,
         NEW b \in BOOLEAN, Track(j, st, restore, b)
  PROVE  /\ job' \in [Jobs -> RunRow] /\ entry' = j
         /\ job[j].st = "unused"
         /\ \A i \in Jobs : i # j => job'[i] = job[i]
         /\ job'[j].st = st /\ job'[j].restore = restore /\ job'[j].backfill = b
<1> DEFINE new == [Unused EXCEPT !.st = st, !.restore = restore, !.backfill = b]
<1>1. new \in RunRow /\ new.st = st /\ new.restore = restore /\ new.backfill = b
  BY DEF Unused, RunRow, Finished
<1>2. job' = [job EXCEPT ![j] = new]
  BY DEF Track
<1> HIDE DEF new
<1>3. job' \in [Jobs -> RunRow] /\ job'[j] = new /\ \A i \in Jobs : i # j => job'[i] = job[i]
  BY <1>1, <1>2 DEF JobTypes
<1> QED BY <1>1, <1>3 DEF Track
\* A run that goes on keeps everything but its stage.
LEMMA GotoCase ==
  ASSUME JobTypes, NEW j \in Jobs, NEW st \in Stages, Goto(j, st)
  PROVE  /\ job' \in [Jobs -> RunRow] /\ entry' = entry /\ backfilling' = backfilling
         /\ \A i \in Jobs : i # j => job'[i] = job[i]
         /\ job'[j].st = st /\ job'[j].todo = job[j].todo /\ job'[j].lost = job[j].lost
         /\ job'[j].old = job[j].old /\ job'[j].seen = job[j].seen
         /\ job'[j].restore = job[j].restore /\ job'[j].backfill = job[j].backfill
<1>1. job' = [job EXCEPT ![j].st = st] /\ entry' = entry /\ backfilling' = backfilling
  BY DEF Goto
<1>2. job[j] \in RunRow
  BY DEF JobTypes
<1> DEFINE new == [job[j] EXCEPT !.st = st]
<1>3. /\ new \in RunRow
      /\ new.st = st /\ new.todo = job[j].todo /\ new.lost = job[j].lost
      /\ new.old = job[j].old /\ new.seen = job[j].seen
      /\ new.restore = job[j].restore /\ new.backfill = job[j].backfill
  BY <1>2 DEF RunRow
<1>4. job' = [job EXCEPT ![j] = new]
  BY <1>1
<1> HIDE DEF new
<1>5. job' \in [Jobs -> RunRow] /\ job'[j] = new /\ \A i \in Jobs : i # j => job'[i] = job[i]
  BY <1>3, <1>4 DEF JobTypes
<1> QED BY <1>1, <1>3, <1>5

\* A run that ends leaves an empty row.
LEMMA OverCase ==
  ASSUME JobTypes, NEW j \in Jobs, Over(j)
  PROVE  /\ job' \in [Jobs -> RunRow] /\ entry' = NoJob
         /\ backfilling' = IF job[j].backfill THEN NoJob ELSE backfilling
         /\ \A i \in Jobs : i # j => job'[i] = job[i]
         /\ job'[j].st = "over" /\ job'[j].backfill = FALSE
<1> DEFINE new == [Unused EXCEPT !.st = "over"]
<1>1. new \in RunRow /\ new.st = "over" /\ new.backfill = FALSE
  BY DEF Unused, RunRow, Stages, Finished
<1>2. job' = [job EXCEPT ![j] = new]
  BY DEF Over
<1> HIDE DEF new
<1>3. job' \in [Jobs -> RunRow] /\ job'[j] = new /\ \A i \in Jobs : i # j => job'[i] = job[i]
  BY <1>1, <1>2 DEF JobTypes
<1> QED BY <1>1, <1>3 DEF Over

Redo == {"queued", "select", "rerun", "settle"}

\* What every step of run j leaves alone.
RunFrame == UNCHANGED <<deleted, recent, audio, server, hubVars, apiVars, backfill, sweepVars>>

\* Run j goes on, or leaves the registry.
RunGoes(j) ==
  /\ \A i \in Jobs : i # j => job'[i] = job[i]
  /\ \/ /\ job'[j].st = "over" /\ entry' = NoJob /\ job'[j].backfill = FALSE
        /\ backfilling' = IF job[j].backfill THEN NoJob ELSE backfilling
     \/ /\ job'[j].st \notin {"unused", "over"} /\ entry' = entry /\ backfilling' = backfilling
        /\ job'[j].restore = job[j].restore /\ job'[j].backfill = job[j].backfill

\* The order of a rerun's stages.
RunOrder(j) ==
  /\ job'[j].st \in Redo => job[j].st \in Redo
  /\ job'[j].st = "select" => job[j].st = "queued"
  /\ job'[j].st = "restore" => job[j].st \in {"queued", "settle"}
  /\ job'[j].st # "queued"
  /\ job'[j].st \notin {"tail", "over"} => job[j].st # "tail"

\* What a step of run j may do to the durable state.
RunWrites(j) ==
  /\ (status' = status) \/ (status = "finalizing" /\ status' \in Finished /\ job'[j].st = "tail")
  /\ (pending' = pending) \/ (pending' = FALSE)
  /\ job[j].st \notin {"rerun", "settle"} => rows' = rows
  /\ job[j].st # "llm" => note' = note

\* What every step of a run is.
LEMMA RunCase ==
  ASSUME JobTypes, RowTypes, budget \in [Events -> Nat], NEW j \in Jobs, Run(j)
  PROVE  /\ server = "up" /\ job[j].st \notin {"unused", "over"} /\ RunFrame
         /\ job' \in [Jobs -> RunRow] /\ RunGoes(j) /\ RunOrder(j) /\ RunWrites(j)
         /\ rows' \subseteq Row /\ note' \subseteq Row
         /\ budget' \in [Events -> Nat] /\ \A e \in Events : budget'[e] >= budget[e]
<1> DEFINE Goal == /\ server = "up" /\ job[j].st \notin {"unused", "over"} /\ RunFrame
                   /\ job' \in [Jobs -> RunRow] /\ RunGoes(j) /\ RunOrder(j) /\ RunWrites(j)
                   /\ rows' \subseteq Row /\ note' \subseteq Row
           Counted == budget' \in [Events -> Nat] /\ \A e \in Events : budget'[e] >= budget[e]
<1>1. job[j] \in RunRow /\ rows \subseteq Row /\ note \subseteq Row
  BY DEF JobTypes, RowTypes
<1>2. ASSUME EndRun(j) PROVE Goal
  <2>1. \E st \in {"setdone", "note"} : Goto(j, st)
    BY <1>2 DEF EndRun
  <2>2. PICK st \in {"setdone", "note"} : Goto(j, st)
    BY <2>1
  <2> QED BY <1>1, <1>2, <2>2, GotoCase
          DEF EndRun, At, runVars, RunFrame, RunGoes, RunOrder, RunWrites, Redo, rowVars, Stages
<1>3. ASSUME SetDone(j) PROVE Goal
  <2>1. Goto(j, "tail")
    BY <1>3 DEF SetDone
  <2> QED BY <1>1, <1>3, <2>1, GotoCase
          DEF SetDone, At, runVars, RunFrame, RunGoes, RunOrder, RunWrites, Redo, Stages,
              MoveFinalizing, Finished
<1>4. ASSUME ReadTranscript(j) PROVE Goal
  <2>1. CASE \E st \in {"tail", "setdone"} : Goto(j, st)
    <3>1. PICK st \in {"tail", "setdone"} : Goto(j, st)
      BY <2>1
    <3> QED BY <1>1, <1>4, <3>1, GotoCase
            DEF ReadTranscript, At, runVars, RunFrame, RunGoes, RunOrder, RunWrites, Redo, Stages
  <2>2. CASE job' = [job EXCEPT ![j].st = "llm", ![j].seen = rows] /\ UNCHANGED <<entry, backfilling>>
    <3> DEFINE new == [job[j] EXCEPT !.st = "llm", !.seen = rows]
    <3>1. new \in RunRow /\ new.st = "llm" /\ new.restore = job[j].restore /\ new.backfill = job[j].backfill
      BY <1>1 DEF RunRow, Stages
    <3>2. job' = [job EXCEPT ![j] = new]
      BY <2>2
    <3> HIDE DEF new
    <3>3. job' \in [Jobs -> RunRow] /\ job'[j] = new /\ \A i \in Jobs : i # j => job'[i] = job[i]
      BY <3>1, <3>2 DEF JobTypes
    <3> QED BY <1>1, <1>4, <2>2, <3>1, <3>3
            DEF ReadTranscript, At, runVars, RunFrame, RunGoes, RunOrder, RunWrites, Redo
  <2> QED BY <1>4, <2>1, <2>2 DEF ReadTranscript
<1>5. ASSUME WriteNote(j) PROVE Goal
  <2>1. Goto(j, "written") /\ note' \subseteq Row
    BY <1>1, <1>5 DEF WriteNote, RunRow
  <2> QED BY <1>1, <1>5, <2>1, GotoCase
          DEF WriteNote, At, runVars, RunFrame, RunGoes, RunOrder, RunWrites, Redo, Stages, rowVars
<1>6. ASSUME NoteFails(j) PROVE Goal
  <2>1. Goto(j, "tail")
    BY <1>6 DEF NoteFails
  <2> QED BY <1>1, <1>6, <2>1, GotoCase
          DEF NoteFails, At, runVars, RunFrame, RunGoes, RunOrder, RunWrites, Redo, Stages,
              MoveFinalizing, Finished
<1>7. ASSUME EndTail(j) \/ RecordingGone(j) PROVE Goal
  <2>1. Over(j)
    BY <1>7 DEF EndTail, RecordingGone
  <2>2. server = "up" /\ job[j].st \notin {"unused", "over"} /\ RunFrame
        /\ status' = status /\ pending' = pending /\ rows' = rows /\ note' = note
    BY <1>7 DEF EndTail, RecordingGone, At, runVars, RunFrame, rowVars
  <2>3. /\ job' \in [Jobs -> RunRow] /\ entry' = NoJob
        /\ backfilling' = IF job[j].backfill THEN NoJob ELSE backfilling
        /\ \A i \in Jobs : i # j => job'[i] = job[i]
        /\ job'[j].st = "over" /\ job'[j].backfill = FALSE
    BY <2>1, OverCase
  <2>4. RunGoes(j)
    BY <2>3 DEF RunGoes
  <2>5. RunOrder(j) /\ RunWrites(j)
    BY <2>2, <2>3 DEF RunOrder, RunWrites, Redo
  <2> QED BY <1>1, <2>2, <2>3, <2>4, <2>5
<1>8. ASSUME FindRecording(j) PROVE Goal
  <2>1. \E st \in {"select", "restore"} : Goto(j, st)
    BY <1>8 DEF FindRecording
  <2>2. PICK st \in {"select", "restore"} : Goto(j, st)
    BY <2>1
  <2> QED BY <1>1, <1>8, <2>2, GotoCase
          DEF FindRecording, At, runVars, RunFrame, RunGoes, RunOrder, RunWrites, Redo, rowVars, Stages
<1>9. ASSUME SelectOld(j) PROVE Goal
  <2> DEFINE new == [job[j] EXCEPT !.st = "rerun", !.old = rows, !.todo = Parts]
  <2>1. new \in RunRow /\ new.st = "rerun" /\ new.restore = job[j].restore /\ new.backfill = job[j].backfill
    BY <1>1 DEF RunRow, Stages
  <2>2. job' = [job EXCEPT ![j] = new]
    BY <1>9 DEF SelectOld
  <2> HIDE DEF new
  <2>3. job' \in [Jobs -> RunRow] /\ job'[j] = new /\ \A i \in Jobs : i # j => job'[i] = job[i]
    BY <2>1, <2>2 DEF JobTypes
  <2> QED BY <1>1, <1>9, <2>1, <2>3
          DEF SelectOld, At, runVars, RunFrame, RunGoes, RunOrder, RunWrites, Redo, rowVars
<1>10. ASSUME NEW p \in Parts, RerunPart(j, p) \/ RerunLost(j, p) PROVE Goal
  <2>1. \E lost \in BOOLEAN : job' = [job EXCEPT ![j].todo = @ \ {p}, ![j].lost = lost]
    <3>1. job \in [Jobs -> RunRow]
      BY DEF JobTypes
    <3>2. CASE RerunPart(j, p)
      <4>1. PICK x, y : x = job[j] /\ y = [x EXCEPT !.todo = @ \ {p}]
        OBVIOUS
      <4>2. x \in RunRow /\ x.lost \in BOOLEAN
        BY <1>1, <4>1 DEF RunRow
      <4>3. [x EXCEPT !.todo = @ \ {p}, !.lost = x.lost] = y
        BY ONLY <4>1, <4>2 DEF RunRow
      <4>4. job' = [job EXCEPT ![j] = y]
        BY <3>2, <4>1 DEF RerunPart
      <4>5. job' = [job EXCEPT ![j].todo = @ \ {p}, ![j].lost = x.lost]
        BY <3>1, <4>1, <4>3, <4>4
      <4> QED BY <4>2, <4>5
    <3>3. CASE RerunLost(j, p)
      <4>1. job' = [job EXCEPT ![j].todo = @ \ {p}, ![j].lost = TRUE]
        BY <3>3 DEF RerunLost
      <4> QED BY <4>1
    <3> QED BY <1>10, <3>2, <3>3
  <2>2. PICK lost \in BOOLEAN : job' = [job EXCEPT ![j].todo = @ \ {p}, ![j].lost = lost]
    BY <2>1
  <2> DEFINE new == [job[j] EXCEPT !.todo = @ \ {p}, !.lost = lost]
  <2>3. new \in RunRow /\ new.st = job[j].st /\ new.restore = job[j].restore /\ new.backfill = job[j].backfill
    BY <1>1 DEF RunRow
  <2>4. job' = [job EXCEPT ![j] = new]
    BY <2>2
  <2> HIDE DEF new
  <2>5. job' \in [Jobs -> RunRow] /\ job'[j] = new /\ \A i \in Jobs : i # j => job'[i] = job[i]
    BY <2>3, <2>4 DEF JobTypes
  <2>6. rows' \subseteq Row
    BY <1>1, <1>10 DEF RerunPart, RerunLost, Row, Live
  <2> QED BY <1>1, <1>10, <2>3, <2>5, <2>6
          DEF RerunPart, RerunLost, At, runVars, RunFrame, RunGoes, RunOrder, RunWrites, Redo, rowVars
<1>11. ASSUME RerunFinish(j) PROVE Goal
  <2>1. Goto(j, "settle")
    BY <1>11 DEF RerunFinish
  <2> QED BY <1>1, <1>11, <2>1, GotoCase
          DEF RerunFinish, At, runVars, RunFrame, RunGoes, RunOrder, RunWrites, Redo, rowVars, Stages
<1>12. ASSUME RerunSettle(j) PROVE Goal
  <2>1. \E st \in {"restore", "clear"} : Goto(j, st)
    BY <1>12 DEF RerunSettle
  <2>2. PICK st \in {"restore", "clear"} : Goto(j, st)
    BY <2>1
  <2>3. rows' \subseteq Row
    BY <1>1, <1>12 DEF RerunSettle
  <2> QED BY <1>1, <1>12, <2>2, <2>3, GotoCase
          DEF RerunSettle, At, runVars, RunFrame, RunGoes, RunOrder, RunWrites, Redo, rowVars, Stages
<1>13. ASSUME RestoreStatus(j) PROVE Goal
  <2>1. Goto(j, "tail") /\ job[j].restore \in Finished
    BY <1>1, <1>13 DEF RestoreStatus, RunRow
  <2> QED BY <1>1, <1>13, <2>1, GotoCase
          DEF RestoreStatus, At, runVars, RunFrame, RunGoes, RunOrder, RunWrites, Redo, Stages,
              MoveFinalizing
<1>14. ASSUME ClearPending(j) PROVE Goal
  <2>1. Goto(j, "note")
    BY <1>14 DEF ClearPending
  <2> QED BY <1>1, <1>14, <2>1, GotoCase
          DEF ClearPending, At, runVars, RunFrame, RunGoes, RunOrder, RunWrites, Redo, Stages
<1>15. Counted
  <2>1. (UNCHANGED budget) \/ Spend("llm") \/ Spend("rerun")
    BY DEF Run, EndRun, SetDone, ReadTranscript, WriteNote, NoteFails, EndTail, FindRecording,
           SelectOld, RecordingGone, RerunFinish, RerunSettle, RestoreStatus, ClearPending,
           RerunPart, RerunLost
  <2> QED BY <2>1, SpendCounts DEF Events, Verbs
<1> HIDE DEF Goal
<1>16. Goal
  BY <1>2, <1>3, <1>4, <1>5, <1>6, <1>7, <1>8, <1>9, <1>10, <1>11, <1>12, <1>13, <1>14 DEF Run
<1> QED BY <1>15, <1>16 DEF Goal
\* A request that goes away leaves an idle one, and the lock free.
LEMMA ReturnCase ==
  ASSUME CallTypes, NEW r \in Clients, Return(r)
  PROVE  /\ request' \in [Clients -> RequestRow] /\ lock' = NoHolder
         /\ request'[r] = NoRequest
         /\ \A q \in Clients : q # r => request'[q] = request[q]
BY RestTyped DEF CallTypes, Return

\* A request goes on: its stage and the status it has seen change.
LEMMA RequestGoes ==
  ASSUME CallTypes, NEW r \in Clients, NEW st \in {"waiting", "read", "cas", "start"},
         NEW before \in Finished \cup {"finalizing"},
         request' = [request EXCEPT ![r].st = st, ![r].before = before]
  PROVE  /\ request' \in [Clients -> RequestRow]
         /\ request'[r].st = st /\ request'[r].before = before
         /\ request'[r].verb = request[r].verb
         /\ \A q \in Clients : q # r => request'[q] = request[q]
<1>1. request[r] \in RequestRow
  BY DEF CallTypes
<1> DEFINE new == [request[r] EXCEPT !.st = st, !.before = before]
<1>2. new \in RequestRow /\ new.st = st /\ new.before = before /\ new.verb = request[r].verb
  BY <1>1 DEF RequestRow
<1>3. request' = [request EXCEPT ![r] = new]
  OBVIOUS
<1> HIDE DEF new
<1>4. /\ request' \in [Clients -> RequestRow] /\ request'[r] = new
      /\ \A q \in Clients : q # r => request'[q] = request[q]
  BY <1>2, <1>3 DEF CallTypes
<1> QED BY <1>2, <1>4

\* What a step of a request is.
Handles(r) ==
  /\ request' \in [Clients -> RequestRow]
  /\ \A q \in Clients : q # r => request'[q] = request[q]
  /\ \/ request'[r] = NoRequest /\ lock' = NoHolder
     \/ /\ request'[r].st \in {"read", "cas", "start"} /\ lock' \in {lock, r}
        /\ request'[r].verb = request[r].verb

\* A request that waits is given the lock, or answers that the session is busy and is over.
LEMMA AcquireCase ==
  ASSUME CallTypes, NEW r \in Clients, Acquire(r)
  PROVE  /\ Handles(r) /\ request[r].st = "waiting" /\ lock = NoHolder
         /\ \/ request'[r] = NoRequest /\ lock' = NoHolder
            \/ /\ request'[r].st = "read" /\ lock' = r /\ request'[r].verb = request[r].verb
               /\ request[r].verb = "process" => ~Busy
<1>1. CASE Return(r)
  BY <1>1, ReturnCase DEF Handles, Acquire
<1>2. CASE /\ request[r].verb = "process" => ~Busy
           /\ lock' = r
           /\ request' = [request EXCEPT ![r].st = "read"]
  <2>1. request[r] \in RequestRow
    BY DEF CallTypes
  <2>2. request' = [request EXCEPT ![r].st = "read", ![r].before = request[r].before]
    BY <1>2, <2>1 DEF CallTypes, RequestRow
  <2>3. request[r].before \in Finished \cup {"finalizing"}
    BY <2>1 DEF RequestRow
  <2> QED BY <1>2, <2>2, <2>3, RequestGoes DEF Handles, Acquire
<1> QED BY <1>1, <1>2 DEF Acquire

\* A reopen reads the status it will compare with, or answers.
LEMMA ReopenReadCase ==
  ASSUME CallTypes, RowTypes, NEW r \in Clients, ReopenRead(r)
  PROVE  /\ Handles(r) /\ request[r].st = "read"
         /\ \/ request'[r] = NoRequest /\ lock' = NoHolder
            \/ /\ request'[r].st = "cas" /\ lock' = lock /\ request'[r].verb = request[r].verb
               /\ request'[r].before = status /\ status \in Finished \cup {"finalizing"}
<1>1. CASE Return(r)
  BY <1>1, ReturnCase DEF Handles, ReopenRead
<1>2. CASE /\ status \in Reopenable
           /\ request' = [request EXCEPT ![r].st = "cas", ![r].before = status]
           /\ UNCHANGED lock
  <2>1. status \in Finished \cup {"finalizing"}
    BY <1>2 DEF Reopenable
  <2> QED BY <1>2, <2>1, RequestGoes DEF Handles, ReopenRead
<1> QED BY <1>1, <1>2 DEF ReopenRead

\* A reopen sets the status it read to finalizing, or answers that it has changed.
LEMMA ReopenCasCase ==
  ASSUME CallTypes, NEW r \in Clients, ReopenCas(r)
  PROVE  /\ Handles(r) /\ request[r].st = "cas"
         /\ \/ request'[r] = NoRequest /\ lock' = NoHolder /\ status' = status
            \/ /\ request'[r].st = "start" /\ lock' = lock /\ request'[r].verb = request[r].verb
               /\ request'[r].before = "finalizing" /\ status' = "finalizing"
               /\ status = request[r].before
<1>1. CASE Return(r) /\ UNCHANGED status
  BY <1>1, ReturnCase DEF Handles, ReopenCas
<1>2. CASE /\ status = request[r].before
           /\ status' = "finalizing"
           /\ request' = [request EXCEPT ![r].st = "start", ![r].before = "finalizing"]
           /\ UNCHANGED lock
  BY <1>2, RequestGoes DEF Handles, ReopenCas
<1> QED BY <1>1, <1>2 DEF ReopenCas

\* What a request registers: a rerun that may put failed back, or the note again.
Started(j, r) ==
  /\ job' \in [Jobs -> RunRow] /\ entry' = j /\ job[j].st = "unused"
  /\ \A i \in Jobs : i # j => job'[i] = job[i]
  /\ job'[j].backfill = FALSE
  /\ \/ job'[j].st = "note"
     \/ /\ job'[j].st = "queued" /\ request[r].verb = "process"
        /\ job'[j].restore = RestoreTo(request[r].before)

\* A request ends with the Job it starts.
LEMMA StartCase ==
  ASSUME CallTypes, JobTypes, NEW r \in Clients, StartJob(r)
  PROVE  /\ Handles(r) /\ request[r].st = "start" /\ request'[r] = NoRequest /\ lock' = NoHolder
         /\ \E j \in Jobs : Started(j, r)
<1>1. request[r] \in RequestRow
  BY DEF CallTypes
<1>2. RestoreTo(request[r].before) \in Finished
  BY <1>1 DEF RequestRow, RestoreTo, Finished
<1>3. PICK j \in Jobs : IF request[r].verb = "process" /\ audio
                         THEN Track(j, "queued", RestoreTo(request[r].before), FALSE)
                         ELSE Track(j, "note", "done", FALSE)
  BY DEF StartJob
<1>4. Started(j, r)
  <2>1. CASE request[r].verb = "process" /\ audio
    <3>1. Track(j, "queued", RestoreTo(request[r].before), FALSE)
      BY <1>3, <2>1
    <3> DEFINE back == RestoreTo(request[r].before)
    <3> DEFINE queued == "queued"
               no == FALSE
    <3>2. back \in Finished /\ queued \in Stages /\ no \in BOOLEAN /\ Track(j, queued, back, no)
      BY <1>2, <3>1 DEF Stages
    <3> HIDE DEF back, queued, no
    <3>3. /\ job' \in [Jobs -> RunRow] /\ entry' = j /\ job[j].st = "unused"
          /\ \A i \in Jobs : i # j => job'[i] = job[i]
          /\ job'[j].st = queued /\ job'[j].restore = back /\ job'[j].backfill = no
      BY <3>2, TrackCase
    <3> QED BY <2>1, <3>3 DEF Started, back, queued, no
  <2>2. CASE ~(request[r].verb = "process" /\ audio)
    <3>1. Track(j, "note", "done", FALSE)
      BY <1>3, <2>2
    <3>2. /\ job' \in [Jobs -> RunRow] /\ entry' = j /\ job[j].st = "unused"
          /\ \A i \in Jobs : i # j => job'[i] = job[i]
          /\ job'[j].st = "note" /\ job'[j].backfill = FALSE
      BY <3>1, TrackCase DEF Stages, Finished
    <3> QED BY <3>2 DEF Started
  <2> QED BY <2>1, <2>2
<1>5. Handles(r) /\ request'[r] = NoRequest /\ lock' = NoHolder
  BY ReturnCase DEF StartJob, Handles
<1> QED BY <1>4, <1>5 DEF StartJob
\* What each step of a call to hub.end makes of the call.
LEMMA EnderCase ==
  ASSUME HubTypes, NEW e \in Enders,
         NEW st \in {"idle", "marked", "draining", "over"}, NEW moved \in BOOLEAN, NEW took \in BOOLEAN,
         ender' = [ender EXCEPT ![e] = [st |-> st, moved |-> moved, took |-> took]]
  PROVE  /\ ender' \in [Enders -> EnderRow]
         /\ ender'[e].st = st /\ ender'[e].moved = moved /\ ender'[e].took = took
         /\ \A f \in Enders : f # e => ender'[f] = ender[f]
BY DEF HubTypes, EnderRow

\* An end notes whether it was the one that moved the session from live.
LEMMA EndMarkCase ==
  ASSUME HubTypes, NEW e \in Enders, EndMark(e)
  PROVE  /\ ender' \in [Enders -> EnderRow] /\ ender[e].st = "idle" /\ ender'[e].st = "marked"
         /\ ender'[e].moved = (status = "live")
         /\ \A f \in Enders : f # e => ender'[f] = ender[f]
<1>1. ender' = [ender EXCEPT ![e] = [st |-> "marked", moved |-> status = "live", took |-> FALSE]]
  BY DEF EndMark
<1> DEFINE live == status = "live"
           marked == "marked"
           no == FALSE
<1>2. /\ ender' = [ender EXCEPT ![e] = [st |-> marked, moved |-> live, took |-> no]]
      /\ live \in BOOLEAN /\ no \in BOOLEAN /\ marked \in {"idle", "marked", "draining", "over"}
  BY <1>1
<1> HIDE DEF live, marked, no
<1>3. /\ ender' \in [Enders -> EnderRow] /\ ender'[e].st = marked /\ ender'[e].moved = live
      /\ \A f \in Enders : f # e => ender'[f] = ender[f]
  BY <1>2, EnderCase
<1> QED BY <1>3 DEF marked, live, EndMark

\* An end takes the session's ingest, if it is still there.
LEMMA EndTakeCase ==
  ASSUME HubTypes, NEW e \in Enders, EndTake(e)
  PROVE  /\ ender' \in [Enders -> EnderRow] /\ ender[e].st = "marked" /\ ender'[e].st = "draining"
         /\ ender'[e].moved = ender[e].moved /\ ender'[e].took = ingest
         /\ \A f \in Enders : f # e => ender'[f] = ender[f]
<1>1. ender[e] \in EnderRow /\ ingest \in BOOLEAN
  BY DEF HubTypes
<1> DEFINE new == [ender[e] EXCEPT !.st = "draining", !.took = ingest]
<1>2. new \in EnderRow /\ new.st = "draining" /\ new.moved = ender[e].moved /\ new.took = ingest
  BY <1>1 DEF EnderRow
<1>3. ender' = [ender EXCEPT ![e] = new]
  BY DEF EndTake
<1> HIDE DEF new
<1> QED BY <1>2, <1>3 DEF HubTypes, EndTake

\* An end returns when its drain is over.
LEMMA EndReturnCase ==
  ASSUME HubTypes, NEW e \in Enders, EndReturn(e)
  PROVE  /\ ender' \in [Enders -> EnderRow] /\ ender[e].st = "draining" /\ ender'[e].st = "over"
         /\ \A f \in Enders : f # e => ender'[f] = ender[f]
<1>1. ender[e] \in EnderRow
  BY DEF HubTypes
<1> DEFINE new == [ender[e] EXCEPT !.st = "over"]
<1>2. new \in EnderRow /\ new.st = "over"
  BY <1>1 DEF EnderRow
<1>3. ender' = [ender EXCEPT ![e] = new]
  BY DEF EndReturn
<1> HIDE DEF new
<1> QED BY <1>2, <1>3 DEF HubTypes, EndReturn

\* A finalize run or a note run, registered when a session ends, is recovered or has no audio.
LEMMA PlainTrack ==
  ASSUME JobTypes, NEW j \in Jobs, NEW st \in {"ending", "note"}, Track(j, st, "done", FALSE)
  PROVE  /\ job' \in [Jobs -> RunRow] /\ entry' = j /\ job[j].st = "unused"
         /\ \A i \in Jobs : i # j => job'[i] = job[i]
         /\ job'[j].st = st /\ job'[j].backfill = FALSE
BY TrackCase DEF Stages, Finished

\* The watchdog's rerun.
LEMMA BackfillTrack ==
  ASSUME JobTypes, CallTypes, NEW j \in Jobs, Track(j, "queued", backfill.before, TRUE)
  PROVE  /\ job' \in [Jobs -> RunRow] /\ entry' = j /\ job[j].st = "unused"
         /\ \A i \in Jobs : i # j => job'[i] = job[i]
         /\ job'[j].st = "queued" /\ job'[j].backfill = TRUE
<1> DEFINE queued == "queued"
           yes == TRUE
           back == backfill.before
<1>1. back \in Finished /\ queued \in Stages /\ yes \in BOOLEAN /\ Track(j, queued, back, yes)
  BY DEF CallTypes, PickRow, Stages
<1> HIDE DEF queued, yes, back
<1>2. /\ job' \in [Jobs -> RunRow] /\ entry' = j /\ job[j].st = "unused"
      /\ \A i \in Jobs : i # j => job'[i] = job[i]
      /\ job'[j].st = queued /\ job'[j].backfill = yes
  BY <1>1, TrackCase
<1> QED BY <1>2 DEF queued, yes

\* What is left when the process goes.
LEMMA GoneCase ==
  ASSUME JobTypes, HubTypes, CallTypes, ProcessGone
  PROVE  /\ HubTypes' /\ JobTypes' /\ CallTypes'
         /\ server' = "down" /\ ingest' = FALSE /\ draining' = FALSE /\ entry' = NoJob
         /\ backfilling' = NoJob /\ backfill' = NoRequest /\ lock' = NoHolder
         /\ \A r \in Clients : request'[r] = NoRequest
         /\ \A e \in Enders : /\ ender[e].st = "over" => ender'[e] = ender[e]
                              /\ ender[e].st # "over" => ender'[e] = Idle
         /\ \A j \in Jobs : /\ job[j].st = "unused" => job'[j].st = "unused"
                            /\ job[j].st # "unused" => job'[j].st = "over"
                            /\ job'[j].backfill = FALSE
<1> DEFINE new == [Unused EXCEPT !.st = "over"]
<1>1. new \in RunRow /\ new.st = "over" /\ new.backfill = FALSE
      /\ Unused.st = "unused" /\ Unused.backfill = FALSE
  BY DEF Unused, RunRow, Stages, Finished
<1>2. job' = [j \in Jobs |-> IF job[j].st = "unused" THEN Unused ELSE new]
  BY DEF ProcessGone
<1> HIDE DEF new
<1>3. /\ job' \in [Jobs -> RunRow]
      /\ \A j \in Jobs : /\ job[j].st = "unused" => job'[j].st = "unused"
                         /\ job[j].st # "unused" => job'[j].st = "over"
                         /\ job'[j].backfill = FALSE
  BY <1>1, <1>2, RestTyped
<1>4. /\ ender' \in [Enders -> EnderRow]
      /\ \A e \in Enders : /\ ender[e].st = "over" => ender'[e] = ender[e]
                           /\ ender[e].st # "over" => ender'[e] = Idle
  BY RestTyped DEF ProcessGone, HubTypes
<1>5. request' \in [Clients -> RequestRow] /\ backfill' \in PickRow
      /\ \A r \in Clients : request'[r] = NoRequest
  BY RestTyped DEF ProcessGone
<1>6. HubTypes'
  BY <1>4 DEF HubTypes, ProcessGone
<1>7. JobTypes'
  BY <1>3 DEF JobTypes, ProcessGone
<1>8. CallTypes'
  BY <1>5 DEF CallTypes, ProcessGone
<1> QED BY <1>3, <1>4, <1>5, <1>6, <1>7, <1>8 DEF ProcessGone

\* No step takes back what has happened.
LEMMA BudgetGrows ==
  ASSUME Typed, Next
  PROVE  budget' \in [Events -> Nat] /\ \A e \in Events : budget'[e] >= budget[e]
<1>1. budget \in [Events -> Nat] /\ JobTypes /\ RowTypes
  BY DEF Typed
<1>2. ASSUME NEW j \in Jobs, Run(j)
      PROVE  budget' \in [Events -> Nat] /\ \A e \in Events : budget'[e] >= budget[e]
  BY <1>1, <1>2, RunCase
<1>3. ASSUME UNCHANGED budget
      PROVE  budget' \in [Events -> Nat] /\ \A e \in Events : budget'[e] >= budget[e]
  BY <1>1, <1>3
<1>4. CASE Pipeline \/ ProducerGone \/ \E e \in Enders : EndMark(e) \/ Ending(e)
  <2>1. (UNCHANGED budget) \/ Spend("stt") \/ Spend("gone") \/ Spend("end")
    BY <1>4 DEF Pipeline, ProducerGone, EndMark, Ending, Transcribe, TranscribeFails, EndTake, EndReturn
  <2> QED BY <1>1, <1>3, <2>1, SpendCounts DEF Events, Verbs
<1>5. ASSUME NEW r \in Clients, Handle(r) \/ \E v \in Verbs : Submit(r, v)
      PROVE  budget' \in [Events -> Nat] /\ \A e \in Events : budget'[e] >= budget[e]
  <2>1. (UNCHANGED budget) \/ \E v \in Verbs : Spend(v)
    BY <1>5 DEF Handle, Submit, Acquire, ReopenRead, ReopenCas, StartJob
  <2> QED BY <1>1, <1>3, <2>1, SpendCounts DEF Events
<1>6. CASE Backfill \/ Restart
  BY <1>3, <1>6 DEF Backfill, BackfillPick, BackfillCas, BackfillStart, BackfillNoAudio, Restart, backfillVars
<1>7. CASE Sweep \/ Crash \/ Shutdown \/ Age
  <2>1. (UNCHANGED budget) \/ \E e \in {"delete", "purge", "lost", "crash", "shutdown", "aged"} : Spend(e)
    BY <1>7 DEF Sweep, DeleteRead, DeleteCommit, RestoreSession, SoftDeleteDue, PurgeSelect,
           PurgeUnlink, AudioLost, Crash, Shutdown, Age
  <2> QED BY <1>1, <1>3, <2>1, SpendCounts DEF Events, Verbs
<1> QED BY <1>2, <1>4, <1>5, <1>6, <1>7 DEF Next
\* Every step keeps the types.
LEMMA TypedStep ==
  ASSUME Typed, Next
  PROVE  Typed'
<1>1. RowTypes /\ HubTypes /\ JobTypes /\ CallTypes /\ budget \in [Events -> Nat]
  BY DEF Typed
<1> DEFINE Kept == RowTypes' /\ HubTypes' /\ JobTypes' /\ CallTypes'
<1>2. ASSUME NEW p \in Parts, Transcribe(p) \/ TranscribeFails(p) PROVE Kept
  <2>1. [part |-> p, by |-> Live] \in Row
    BY DEF Row, Live
  <2>2. rows' \subseteq Row /\ pending' \in BOOLEAN /\ pipe' \subseteq Parts
    BY <1>1, <1>2, <2>1 DEF Transcribe, TranscribeFails, RowTypes, HubTypes, rowVars
  <2>3. UNCHANGED <<status, deleted, recent, note, audio, server, ingest, producer, draining, ender,
                    jobVars, apiVars, watchVars, sweepVars>> /\ sttAway' \in BOOLEAN
    BY <1>2 DEF Transcribe, TranscribeFails, rowVars
  <2>4. RowTypes'
    BY <1>1, <2>2, <2>3 DEF RowTypes
  <2>5. HubTypes'
    BY <1>1, <2>2, <2>3 DEF HubTypes
  <2>6. JobTypes'
    BY <1>1, <2>3 DEF JobTypes, jobVars, watchVars
  <2>7. CallTypes'
    BY <1>1, <2>3 DEF CallTypes, apiVars, watchVars, sweepVars
  <2> QED BY <2>4, <2>5, <2>6, <2>7
<1>3. ASSUME ProducerGone PROVE Kept
  <2>1. RowTypes' /\ HubTypes'
    BY <1>1, <1>3 DEF ProducerGone, RowTypes, HubTypes, rowVars
  <2>2. JobTypes' /\ CallTypes'
    BY <1>1, <1>3 DEF ProducerGone, JobTypes, CallTypes, jobVars, apiVars, watchVars, sweepVars
  <2> QED BY <2>1, <2>2
<1>4. ASSUME NEW e \in Enders, EndMark(e) PROVE Kept
  <2>1. status' \in Active \cup Finished
    BY <1>1, <1>4 DEF EndMark, RowTypes, Active
  <2>2. HubTypes'
    BY <1>1, <1>4, EndMarkCase DEF EndMark, HubTypes
  <2> QED BY <1>1, <1>4, <2>1, <2>2 DEF EndMark, RowTypes, JobTypes, CallTypes, jobVars, apiVars,
          watchVars, sweepVars
<1>5. ASSUME NEW e \in Enders, EndTake(e) PROVE Kept
  <2>1. HubTypes'
    BY <1>1, <1>5, EndTakeCase DEF EndTake, HubTypes
  <2> QED BY <1>1, <1>5, <2>1 DEF EndTake, RowTypes, JobTypes, CallTypes, rowVars, jobVars, apiVars,
          watchVars, sweepVars
<1>6. ASSUME NEW e \in Enders, EndReturn(e) PROVE Kept
  <2>1. HubTypes'
    BY <1>1, <1>6, EndReturnCase DEF EndReturn, HubTypes
  <2>2. JobTypes'
    <3>1. ASSUME NEW j \in Jobs, Track(j, "ending", "done", FALSE) PROVE JobTypes'
      BY <1>1, <1>6, <3>1, PlainTrack DEF JobTypes, EndReturn, watchVars
    <3> QED BY <1>1, <1>6, <3>1 DEF EndReturn, JobTypes, jobVars, watchVars
  <2> QED BY <1>1, <1>6, <2>1, <2>2 DEF EndReturn, RowTypes, CallTypes, rowVars, apiVars,
          watchVars, sweepVars
<1>7. ASSUME NEW j \in Jobs, Run(j) PROVE Kept
  <2>1. /\ RunFrame /\ job' \in [Jobs -> RunRow] /\ RunGoes(j) /\ RunWrites(j)
        /\ rows' \subseteq Row /\ note' \subseteq Row
    BY <1>1, <1>7, RunCase
  <2>2. RowTypes'
    BY <1>1, <2>1 DEF RunFrame, RunWrites, RowTypes
  <2>3. JobTypes'
    BY <1>1, <2>1 DEF RunGoes, JobTypes
  <2> QED BY <1>1, <2>1, <2>2, <2>3 DEF RunFrame, HubTypes, CallTypes, hubVars, apiVars, sweepVars
<1>8. ASSUME NEW r \in Clients, NEW v \in Verbs, Submit(r, v) PROVE Kept
  <2>1. request' \in [Clients -> RequestRow]
    BY <1>1, <1>8 DEF Submit, CallTypes, RequestRow, Finished
  <2> QED BY <1>1, <1>8, <2>1 DEF Submit, requestVars, RowTypes, HubTypes, JobTypes, CallTypes, rowVars,
          hubVars, jobVars, watchVars, sweepVars
<1>9. ASSUME NEW r \in Clients, Handle(r) PROVE Kept
  <2>1. Handles(r)
    BY <1>1, <1>9, AcquireCase, ReopenReadCase, ReopenCasCase, StartCase DEF Handle
  <2>2. request' \in [Clients -> RequestRow] /\ lock' \in {NoHolder} \cup Clients
    BY <1>1, <2>1 DEF Handles, CallTypes
  <2>3. JobTypes'
    <3>1. CASE StartJob(r)
      <4>1. PICK j \in Jobs : Started(j, r)
        BY <1>1, <3>1, StartCase
      <4> QED BY <1>1, <3>1, <4>1 DEF Started, JobTypes, StartJob, requestVars, watchVars
    <3>2. CASE Acquire(r) \/ ReopenRead(r) \/ ReopenCas(r)
      BY <1>1, <3>2 DEF Acquire, ReopenRead, ReopenCas, JobTypes, requestVars, jobVars, watchVars
    <3> QED BY <1>9, <3>1, <3>2 DEF Handle
  <2>4. RowTypes'
    BY <1>1, <1>9 DEF Handle, Acquire, ReopenRead, ReopenCas, StartJob, RowTypes, requestVars, rowVars, Active
  <2>5. HubTypes' /\ backfill' = backfill /\ deleting' = deleting /\ purging' = purging
    BY <1>1, <1>9 DEF Handle, Acquire, ReopenRead, ReopenCas, StartJob, HubTypes, requestVars, hubVars,
       watchVars, sweepVars
  <2> QED BY <1>1, <2>2, <2>3, <2>4, <2>5 DEF CallTypes
<1>10. ASSUME Backfill PROVE Kept
  <2>1. RowTypes' /\ HubTypes'
    BY <1>1, <1>10 DEF Backfill, BackfillPick, BackfillCas, BackfillStart, BackfillNoAudio, backfillVars,
       RowTypes, HubTypes, hubVars, Active
  <2>2. backfill' \in PickRow
    <3>1. CASE BackfillPick
      BY <1>1, <3>1 DEF BackfillPick, PickRow, Verbs, Finished
    <3>2. CASE BackfillCas
      BY <1>1, <3>2, RestTyped DEF BackfillCas, CallTypes, PickRow
    <3> QED BY <1>10, <3>1, <3>2, RestTyped DEF Backfill, BackfillStart, BackfillNoAudio
  <2>3. CallTypes'
    BY <1>1, <1>10, <2>2 DEF Backfill, BackfillPick, BackfillCas, BackfillStart, BackfillNoAudio, backfillVars,
       CallTypes, apiVars, sweepVars
  <2>4. JobTypes'
    <3>1. CASE BackfillStart
      <4>1. PICK j \in Jobs : Track(j, "queued", backfill.before, TRUE) /\ backfilling' = j
        BY <3>1 DEF BackfillStart
      <4> QED BY <1>1, <4>1, BackfillTrack DEF JobTypes
    <3>2. CASE BackfillNoAudio
      <4>1. PICK j \in Jobs : Track(j, "note", "done", FALSE)
        BY <3>2 DEF BackfillNoAudio
      <4> QED BY <1>1, <3>2, <4>1, PlainTrack DEF JobTypes, BackfillNoAudio
    <3> QED BY <1>1, <1>10, <3>1, <3>2 DEF Backfill, BackfillPick, BackfillCas, JobTypes, jobVars
  <2> QED BY <2>1, <2>3, <2>4
<1>11. ASSUME Sweep PROVE Kept
  <2>1. UNCHANGED sweepFrame /\ deleted' \in BOOLEAN /\ audio' \in BOOLEAN /\ deleting' \in BOOLEAN
        /\ purging' \in BOOLEAN
    BY <1>1, <1>11 DEF Sweep, DeleteRead, DeleteCommit, RestoreSession, SoftDeleteDue, PurgeSelect,
       PurgeUnlink, AudioLost, RowTypes, CallTypes, sweepVars
  <2>2. RowTypes' /\ HubTypes'
    BY <1>1, <2>1 DEF sweepFrame, RowTypes, HubTypes, hubVars
  <2>3. JobTypes' /\ CallTypes'
    BY <1>1, <2>1 DEF sweepFrame, JobTypes, CallTypes, jobVars, apiVars, watchVars
  <2> QED BY <2>2, <2>3
<1>12. ASSUME Crash \/ Shutdown PROVE Kept
  <2>1. HubTypes' /\ JobTypes' /\ CallTypes'
    BY <1>1, <1>12, GoneCase DEF Crash, Shutdown
  <2>2. RowTypes'
    BY <1>1, <1>12 DEF Crash, Shutdown, RowTypes, rowVars
  <2> QED BY <2>1, <2>2
<1>13. ASSUME Restart PROVE Kept
  <2>1. JobTypes'
    <3>1. ASSUME NEW j \in Jobs, Track(j, "ending", "done", FALSE) PROVE JobTypes'
      BY <1>1, <1>13, <3>1, PlainTrack DEF JobTypes, Restart, watchVars
    <3> QED BY <1>1, <1>13, <3>1 DEF Restart, JobTypes, jobVars, watchVars
  <2> QED BY <1>1, <1>13, <2>1 DEF Restart, RowTypes, HubTypes, CallTypes, rowVars, hubVars, apiVars,
          watchVars, sweepVars
<1>14. ASSUME Age PROVE Kept
  <2>1. RowTypes' /\ HubTypes'
    BY <1>1, <1>14 DEF Age, RowTypes, HubTypes, hubVars
  <2>2. JobTypes' /\ CallTypes'
    BY <1>1, <1>14 DEF Age, JobTypes, CallTypes, jobVars, apiVars, watchVars, sweepVars
  <2> QED BY <2>1, <2>2
<1>15. Kept
  BY <1>2, <1>3, <1>4, <1>5, <1>6, <1>7, <1>8, <1>9, <1>10, <1>11, <1>12, <1>13, <1>14
     DEF Next, Pipeline, Ending
<1> QED BY <1>15, BudgetGrows DEF Typed

\* At the start, and whatever happens, everything is typed.
LEMMA Typing == Spec => []Typed
<1>1. Init => Typed
  <2> SUFFICES ASSUME Init PROVE Typed
    OBVIOUS
  <2>1. JobTypes
    BY RestTyped DEF Init, JobTypes
  <2>2. HubTypes
    BY RestTyped DEF Init, HubTypes
  <2>3. CallTypes
    BY RestTyped DEF Init, CallTypes
  <2> QED BY <2>1, <2>2, <2>3 DEF Init, Typed, RowTypes, Active
<1>2. Typed /\ UNCHANGED vars => Typed'
  BY DEF Typed, RowTypes, HubTypes, JobTypes, CallTypes, vars
<1> QED BY <1>1, <1>2, TypedStep, PTL DEF Spec
-----------------------------------------------------------------------------
(* The live pipeline works alone *)

\* The live pipeline works, or would if the server were up.
Alive == ingest \/ \E e \in Enders : ender[e].st = "draining" /\ ender[e].took

Asking(r) == request[r].st \in {"read", "cas", "start"}

\* The regime in which no run is registered while the live pipeline works: one end, nobody
\* regenerates, and nobody processes a session whose producer went away.
Single ==
  /\ Never({"regenerate"}) /\ budget["end"] <= 1
  /\ Never({"process"}) \/ Never({"gone"})

\* At most one call ends the session, and then the session is no longer live.
OneEnder ==
  /\ \A e, f \in Enders : ender[e].st # "idle" /\ ender[f].st # "idle" => e = f
  /\ \A e \in Enders : ender[e].st # "idle" => budget["end"] = 1 /\ status # "live"
  /\ \A e \in Enders : ender[e].st = "draining" => ~ingest

\* While the live pipeline works no run, request or backfill does.
LiveAlone ==
  Alive => /\ \A j \in Jobs : job[j].st = "unused"
           /\ entry = NoJob /\ backfill.st = "idle" /\ server = "up"
           /\ \A r \in Clients : ~Asking(r)
           /\ status \in Active /\ (status = "finalizing" => draining)
           /\ (ingest /\ budget["gone"] = 0) => producer
           /\ ~ingest => status = "finalizing"

\* What nobody has asked for does not happen.
Unasked ==
  /\ budget["process"] = 0 => \A r \in Clients : request[r].st = "idle"
  /\ \A r \in Clients : request[r].verb = "process"
  /\ budget["stt"] = 0 => pending = FALSE /\ backfill.st = "idle"

EndInv == OneEnder /\ LiveAlone /\ Unasked

\* What has never happened after a step had not happened before it.
LEMMA NeverBefore ==
  ASSUME Typed, Next, NEW E \in SUBSET Events, Never(E)'
  PROVE  Never(E)
<1>1. budget' \in [Events -> Nat] /\ \A e \in Events : budget'[e] >= budget[e]
  BY BudgetGrows
<1>2. budget \in [Events -> Nat]
  BY DEF Typed
<1>3. ASSUME NEW e \in E PROVE budget[e] = 0
  <2>1. e \in Events /\ budget'[e] = 0
    BY DEF Never
  <2> QED BY <1>1, <1>2, <2>1
<1> QED BY <1>3 DEF Never

\* A session with a single end had no more before.
LEMMA SingleBefore ==
  ASSUME Typed, Next, Single'
  PROVE  Single
<1>1. {"regenerate"} \in SUBSET Events /\ {"process"} \in SUBSET Events /\ {"gone"} \in SUBSET Events
      /\ "end" \in Events
  BY DEF Events, Verbs
<1>2. budget'["end"] >= budget["end"] /\ budget["end"] \in Nat /\ budget'["end"] \in Nat
  BY <1>1, BudgetGrows DEF Typed
<1>3. Never({"regenerate"})
  BY <1>1, NeverBefore DEF Single
<1>4. Never({"process"}) \/ Never({"gone"})
  <2>1. CASE Never({"process"})'
    BY <1>1, <2>1, NeverBefore
  <2>2. CASE Never({"gone"})'
    BY <1>1, <2>2, NeverBefore
  <2> QED BY <2>1, <2>2 DEF Single
<1>5. budget["end"] <= 1
  BY <1>2 DEF Single
<1> QED BY <1>3, <1>4, <1>5 DEF Single

\* The ends and the crashes are what changes the hub.
LEMMA HubKept ==
  ASSUME Typed, Next,
         ~(\E e \in Enders : EndMark(e) \/ EndTake(e) \/ EndReturn(e)), ~Crash, ~Shutdown
  PROVE  ender' = ender /\ ingest' = ingest /\ draining' = draining
<1>1. CASE Pipeline \/ ProducerGone
  BY <1>1 DEF Pipeline, ProducerGone, Transcribe, TranscribeFails
<1>2. ASSUME NEW j \in Jobs, Run(j) PROVE UNCHANGED <<ender, ingest, draining>>
  BY <1>2, RunCase DEF Typed, RunFrame, hubVars
<1>3. ASSUME NEW r \in Clients, Handle(r) \/ \E v \in Verbs : Submit(r, v)
      PROVE  UNCHANGED <<ender, ingest, draining>>
  BY <1>3 DEF Handle, Submit, Acquire, ReopenRead, ReopenCas, StartJob, requestVars, hubVars
<1>4. CASE Backfill
  BY <1>4 DEF Backfill, BackfillPick, BackfillCas, BackfillStart, BackfillNoAudio, backfillVars, hubVars
<1>5. CASE Sweep
  <2>1. UNCHANGED sweepFrame
    BY <1>5 DEF Sweep, DeleteRead, DeleteCommit, RestoreSession, SoftDeleteDue, PurgeSelect,
       PurgeUnlink, AudioLost
  <2> QED BY <2>1 DEF sweepFrame, hubVars
<1>6. CASE Restart \/ Age
  BY <1>6 DEF Restart, Age, hubVars
<1> QED BY <1>1, <1>2, <1>3, <1>4, <1>5, <1>6 DEF Next, Ending

\* A session that is not live any more stays so.
LEMMA NotLiveAgain ==
  ASSUME Typed, Next, status # "live"
  PROVE  status' # "live"
<1>1. ASSUME NEW j \in Jobs, Run(j) PROVE status' # "live"
  BY <1>1, RunCase DEF Typed, RunWrites, Finished
<1>2. CASE Pipeline \/ ProducerGone \/ \E e \in Enders : EndMark(e) \/ Ending(e)
  BY <1>2 DEF Pipeline, ProducerGone, Transcribe, TranscribeFails, EndMark, Ending, EndTake, EndReturn,
     rowVars
<1>3. ASSUME NEW r \in Clients, Handle(r) \/ \E v \in Verbs : Submit(r, v)
      PROVE  status' # "live"
  BY <1>3 DEF Handle, Submit, Acquire, ReopenRead, ReopenCas, StartJob, requestVars, rowVars
<1>4. CASE Backfill
  BY <1>4 DEF Backfill, BackfillPick, BackfillCas, BackfillStart, BackfillNoAudio
<1>5. CASE Sweep
  BY <1>5 DEF Sweep, DeleteRead, DeleteCommit, RestoreSession, SoftDeleteDue, PurgeSelect,
     PurgeUnlink, AudioLost, sweepFrame
<1>6. CASE Crash \/ Shutdown \/ Restart \/ Age
  BY <1>6 DEF Crash, Shutdown, Restart, Age, rowVars
<1> QED BY <1>1, <1>2, <1>3, <1>4, <1>5, <1>6 DEF Next

\* One end keeps the session.
LEMMA OneEnderStep ==
  ASSUME Typed, Next, Single', OneEnder
  PROVE  OneEnder'
<1>1. /\ budget'["end"] >= budget["end"] /\ budget["end"] \in Nat /\ budget'["end"] \in Nat
      /\ budget'["end"] <= 1 /\ HubTypes
  BY BudgetGrows DEF Typed, Events, Single
<1>2. status # "live" => status' # "live"
  BY NotLiveAgain
<1>3. ASSUME NEW e \in Enders, EndMark(e) PROVE OneEnder'
  <2>1. budget'["end"] = budget["end"] + 1
    BY <1>3, SpendCounts DEF EndMark, Events, Typed
  <2>2. \A f \in Enders : ender[f].st = "idle"
    BY <1>1, <2>1 DEF OneEnder
  <2>3. /\ ender'[e].st = "marked" /\ \A f \in Enders : f # e => ender'[f] = ender[f]
        /\ status' # "live"
    BY <1>1, <1>3, EndMarkCase DEF EndMark
  <2> QED BY <1>1, <2>1, <2>2, <2>3 DEF OneEnder
<1>4. ASSUME NEW e \in Enders, EndTake(e) PROVE OneEnder'
  <2>1. /\ ender[e].st = "marked" /\ ingest' = FALSE
        /\ \A f \in Enders : f # e => ender'[f] = ender[f]
    BY <1>1, <1>4, EndTakeCase DEF EndTake
  <2> QED BY <1>1, <1>2, <2>1 DEF OneEnder
<1>5. ASSUME NEW e \in Enders, EndReturn(e) PROVE OneEnder'
  <2>1. /\ ender[e].st = "draining" /\ ender'[e].st = "over" /\ ingest' = ingest
        /\ \A f \in Enders : f # e => ender'[f] = ender[f]
    BY <1>1, <1>5, EndReturnCase DEF EndReturn
  <2> QED BY <1>1, <1>2, <2>1 DEF OneEnder
<1>6. CASE Crash \/ Shutdown
  <2>1. \A e \in Enders : /\ ender[e].st = "over" => ender'[e] = ender[e]
                          /\ ender[e].st # "over" => ender'[e].st = "idle"
    <3>1. Idle.st = "idle"
      BY DEF Idle
    <3>2. \A e \in Enders : /\ ender[e].st = "over" => ender'[e] = ender[e]
                            /\ ender[e].st # "over" => ender'[e] = Idle
      BY <1>6, GoneCase DEF Crash, Shutdown, Typed
    <3> QED BY <3>1, <3>2
  <2> QED BY <1>1, <1>2, <2>1 DEF OneEnder
<1>7. CASE ~(\E e \in Enders : EndMark(e) \/ EndTake(e) \/ EndReturn(e)) /\ ~Crash /\ ~Shutdown
  <2>1. ender' = ender /\ ingest' = ingest
    BY <1>7, HubKept
  <2> QED BY <1>1, <1>2, <2>1 DEF OneEnder
<1> QED BY <1>3, <1>4, <1>5, <1>6, <1>7
\* Outside the sessions' runs and requests, only a step of the hub starts the pipeline's end, and
\* only a crash stops it.
LEMMA LiveAloneStep ==
  ASSUME Typed, Next, Single', Single, EndInv
  PROVE  LiveAlone'
<1>1. RowTypes /\ HubTypes /\ JobTypes /\ CallTypes /\ budget \in [Events -> Nat]
  BY DEF Typed
<1>2. /\ budget'["gone"] >= budget["gone"] /\ budget["gone"] \in Nat /\ budget'["gone"] \in Nat
      /\ budget'["end"] >= budget["end"] /\ budget["end"] \in Nat /\ budget'["end"] <= 1
      /\ budget["process"] \in Nat /\ budget'["end"] \in Nat
  BY BudgetGrows DEF Typed, Events, Verbs, Single
<1>3. OneEnder /\ LiveAlone /\ Unasked
  BY DEF EndInv
<1>4. ASSUME NEW p \in Parts, Transcribe(p) \/ TranscribeFails(p) PROVE LiveAlone'
  <2>1. UNCHANGED <<ender, ingest, draining, job, entry, backfill, server, request, status, producer>>
    BY <1>4 DEF Transcribe, TranscribeFails, rowVars, jobVars, apiVars, watchVars
  <2> QED BY <1>2, <1>3, <2>1 DEF LiveAlone, Alive, Asking
<1>5. ASSUME ProducerGone PROVE LiveAlone'
  <2>1. UNCHANGED <<ender, ingest, draining, job, entry, backfill, server, request, status>>
    BY <1>5 DEF ProducerGone, rowVars, jobVars, apiVars, watchVars
  <2>2. budget'["gone"] # 0
    BY <1>1, <1>2, <1>5, SpendCounts DEF ProducerGone, Events
  <2> QED BY <1>3, <2>1, <2>2 DEF LiveAlone, Alive, Asking
<1>6. ASSUME NEW e \in Enders, EndMark(e) PROVE LiveAlone'
  <2>1. budget'["end"] = budget["end"] + 1
    BY <1>1, <1>6, SpendCounts DEF EndMark, Events
  <2>2. \A f \in Enders : ender[f].st = "idle"
    BY <1>2, <1>3, <2>1 DEF OneEnder
  <2>3. ender'[e].st = "marked" /\ \A f \in Enders : f # e => ender'[f] = ender[f]
    BY <1>1, <1>6, EndMarkCase
  <2>4. Alive' => ingest
    BY <1>6, <2>2, <2>3 DEF Alive, EndMark
  <2>5. UNCHANGED <<ingest, job, entry, backfill, server, request, producer>> /\ draining' = TRUE
        /\ (status' = IF status = "live" THEN "finalizing" ELSE status)
    BY <1>6 DEF EndMark, jobVars, apiVars, watchVars
  <2> QED BY <1>2, <1>3, <2>4, <2>5 DEF LiveAlone, Alive, Asking, Active
<1>7. ASSUME NEW e \in Enders, EndTake(e) PROVE LiveAlone'
  <2>1. /\ ender[e].st = "marked" /\ ender'[e].st = "draining" /\ ender'[e].took = ingest
        /\ \A f \in Enders : f # e => ender'[f] = ender[f]
    BY <1>1, <1>7, EndTakeCase
  <2>2. \A f \in Enders : f # e => ender[f].st = "idle"
    BY <1>3, <2>1 DEF OneEnder
  <2>3. ingest' = FALSE /\ UNCHANGED <<draining, job, entry, backfill, server, request, status>>
    BY <1>7 DEF EndTake, rowVars, jobVars, apiVars, watchVars
  <2>4. Alive' => ingest
    BY <2>1, <2>2, <2>3 DEF Alive
  <2>5. status # "live"
    BY <1>3, <2>1 DEF OneEnder
  <2> QED BY <1>3, <2>3, <2>4, <2>5 DEF LiveAlone, Alive, Asking, Active
<1>8. ASSUME NEW e \in Enders, EndReturn(e) PROVE LiveAlone'
  <2>1. /\ ender[e].st = "draining" /\ ender'[e].st = "over" /\ ingest' = ingest
        /\ \A f \in Enders : f # e => ender'[f] = ender[f]
    BY <1>1, <1>8, EndReturnCase DEF EndReturn
  <2>2. ~ingest /\ \A f \in Enders : f # e => ender[f].st = "idle"
    BY <1>3, <2>1 DEF OneEnder
  <2>3. ~Alive'
    BY <2>1, <2>2 DEF Alive
  <2> QED BY <2>3 DEF LiveAlone
<1>9. ASSUME NEW j \in Jobs, Run(j) PROVE LiveAlone'
  <2>1. job[j].st # "unused" /\ UNCHANGED <<ender, ingest>>
    BY <1>1, <1>9, RunCase DEF RunFrame, hubVars
  <2> QED BY <1>3, <2>1 DEF LiveAlone, Alive
<1>10. ASSUME NEW r \in Clients, NEW v \in Verbs, Submit(r, v) PROVE LiveAlone'
  <2>1. UNCHANGED <<ender, ingest, draining, job, entry, backfill, server, status, producer>>
    BY <1>10 DEF Submit, requestVars, rowVars, hubVars, jobVars, watchVars
  <2>2. /\ request'[r].st = "waiting"
        /\ \A q \in Clients : q # r => request'[q] = request[q]
    BY <1>1, <1>10 DEF Submit, CallTypes
  <2> QED BY <1>2, <1>3, <2>1, <2>2 DEF LiveAlone, Alive, Asking
<1>11. ASSUME NEW r \in Clients, Handle(r) PROVE LiveAlone'
  <2>1. UNCHANGED <<ender, ingest, draining, backfill, server, producer>> /\ Handles(r)
        /\ UNCHANGED budget
    BY <1>1, <1>11, AcquireCase, ReopenReadCase, ReopenCasCase, StartCase
       DEF Handle, Acquire, ReopenRead, ReopenCas, StartJob, requestVars, hubVars, watchVars
  <2>2. CASE ~Alive
    BY <2>1, <2>2 DEF LiveAlone, Alive
  <2>3. CASE Alive
    <3>1. Acquire(r)
      BY <1>3, <1>11, <2>3 DEF LiveAlone, Asking, Handle, ReopenRead, ReopenCas, StartJob
    <3>2. UNCHANGED <<job, entry, status>>
      BY <3>1 DEF Acquire, requestVars, rowVars, jobVars
    <3>3. request[r].st # "idle" /\ request[r].verb = "process"
      BY <1>1, <1>3, <3>1, AcquireCase DEF Unasked
    <3>4. budget["gone"] = 0
      BY <1>2, <1>3, <3>3 DEF Unasked, Single, Never
    <3>5. Busy
      BY <1>3, <2>3, <3>4 DEF LiveAlone, Busy, Active
    <3>6. request'[r].st = "idle" /\ \A q \in Clients : q # r => request'[q] = request[q]
      BY <1>1, <2>1, <3>1, <3>3, <3>5, AcquireCase DEF Handles, NoRequest
    <3> QED BY <1>3, <2>1, <3>2, <3>6 DEF LiveAlone, Alive, Asking
  <2> QED BY <2>2, <2>3
<1>12. ASSUME Backfill PROVE LiveAlone'
  <2>1. UNCHANGED <<ender, ingest>>
    BY <1>12 DEF Backfill, BackfillPick, BackfillCas, BackfillStart, BackfillNoAudio, backfillVars, hubVars
  <2>2. ~Alive
    BY <1>3, <1>12 DEF LiveAlone, Backfill, BackfillPick, BackfillCas, BackfillStart, BackfillNoAudio,
       Active, Finished
  <2> QED BY <2>1, <2>2 DEF LiveAlone, Alive
<1>13. ASSUME Sweep PROVE LiveAlone'
  <2>1. UNCHANGED sweepFrame
    BY <1>13 DEF Sweep, DeleteRead, DeleteCommit, RestoreSession, SoftDeleteDue, PurgeSelect,
       PurgeUnlink, AudioLost
  <2>2. UNCHANGED <<ender, ingest, draining, job, entry, backfill, server, request, status, producer>>
    BY <2>1 DEF sweepFrame, hubVars, jobVars, apiVars, watchVars
  <2> QED BY <1>2, <1>3, <2>2 DEF LiveAlone, Alive, Asking
<1>14. ASSUME Crash \/ Shutdown PROVE LiveAlone'
  <2>1. /\ ~ingest'
        /\ \A e \in Enders : /\ ender[e].st = "over" => ender'[e] = ender[e]
                             /\ ender[e].st # "over" => ender'[e] = Idle
    BY <1>1, <1>14, GoneCase DEF Crash, Shutdown
  <2>2. Idle.st = "idle"
    BY DEF Idle
  <2> QED BY <2>1, <2>2 DEF LiveAlone, Alive
<1>15. ASSUME Restart PROVE LiveAlone'
  <2>1. UNCHANGED <<ender, ingest>> /\ server # "up"
    BY <1>15 DEF Restart, hubVars
  <2> QED BY <1>3, <2>1 DEF LiveAlone, Alive
<1>16. ASSUME Age PROVE LiveAlone'
  <2>1. UNCHANGED <<ender, ingest, draining, job, entry, backfill, server, request, status, producer>>
    BY <1>16 DEF Age, hubVars, jobVars, apiVars, watchVars
  <2> QED BY <1>2, <1>3, <2>1 DEF LiveAlone, Alive, Asking
<1> QED BY <1>4, <1>5, <1>6, <1>7, <1>8, <1>9, <1>10, <1>11, <1>12, <1>13, <1>14, <1>15, <1>16
        DEF Next, Pipeline, Ending
\* A step of a request or a crash is what changes the requests.
LEMMA RequestStep ==
  ASSUME Typed, Next
  PROVE  \/ request' = request
         \/ \E r \in Clients : /\ Handles(r) /\ request[r].st # "idle"
                               /\ UNCHANGED <<budget, pending, backfill>>
         \/ \E r \in Clients, v \in Verbs : Submit(r, v)
         \/ \A r \in Clients : request'[r] = NoRequest
<1>1. RowTypes /\ HubTypes /\ JobTypes /\ CallTypes
  BY DEF Typed
<1>2. CASE Pipeline \/ ProducerGone \/ \E e \in Enders : EndMark(e) \/ Ending(e)
  BY <1>2 DEF Pipeline, ProducerGone, Transcribe, TranscribeFails, EndMark, Ending, EndTake, EndReturn,
     apiVars
<1>3. ASSUME NEW j \in Jobs, Run(j) PROVE request' = request
  BY <1>3, RunCase DEF Typed, RunFrame, apiVars
<1>4. ASSUME NEW r \in Clients, Handle(r)
      PROVE  Handles(r) /\ request[r].st # "idle" /\ UNCHANGED <<budget, pending, backfill>>
  BY <1>1, <1>4, AcquireCase, ReopenReadCase, ReopenCasCase, StartCase
     DEF Handle, Acquire, ReopenRead, ReopenCas, StartJob, requestVars, rowVars, watchVars
<1>5. CASE Backfill
  BY <1>5 DEF Backfill, BackfillPick, BackfillCas, BackfillStart, BackfillNoAudio, backfillVars, apiVars
<1>6. CASE Sweep
  <2>1. UNCHANGED sweepFrame
    BY <1>6 DEF Sweep, DeleteRead, DeleteCommit, RestoreSession, SoftDeleteDue, PurgeSelect,
       PurgeUnlink, AudioLost
  <2> QED BY <2>1 DEF sweepFrame, apiVars
<1>7. CASE Crash \/ Shutdown
  BY <1>1, <1>7, GoneCase DEF Crash, Shutdown
<1>8. CASE Restart \/ Age
  BY <1>8 DEF Restart, Age, apiVars
<1> QED BY <1>2, <1>3, <1>4, <1>5, <1>6, <1>7, <1>8 DEF Next

\* Requests are to process, and only audio without a tier waits for the backfill.
LEMMA UnaskedStep ==
  ASSUME Typed, Next, Single', Unasked
  PROVE  Unasked'
<1>1. RowTypes /\ HubTypes /\ JobTypes /\ CallTypes /\ budget \in [Events -> Nat]
  BY DEF Typed
<1>2. /\ budget'["process"] >= budget["process"] /\ budget'["stt"] >= budget["stt"]
      /\ budget["process"] \in Nat /\ budget["stt"] \in Nat /\ budget'["regenerate"] = 0
      /\ budget'["process"] \in Nat /\ budget'["stt"] \in Nat /\ budget["regenerate"] \in Nat
  BY BudgetGrows DEF Typed, Events, Verbs, Single, Never
<1>3. NoRequest.st = "idle" /\ NoRequest.verb = "process"
  BY DEF NoRequest
<1>4. /\ budget'["process"] = 0 => \A r \in Clients : request'[r].st = "idle"
      /\ \A r \in Clients : request'[r].verb = "process"
  <2>1. CASE request' = request
    BY <1>2, <2>1 DEF Unasked
  <2>2. ASSUME NEW r \in Clients, Handles(r), request[r].st # "idle", UNCHANGED budget
        PROVE  /\ budget'["process"] = 0 => \A q \in Clients : request'[q].st = "idle"
               /\ \A q \in Clients : request'[q].verb = "process"
    BY <1>2, <1>3, <2>2 DEF Unasked, Handles
  <2>3. ASSUME NEW r \in Clients, NEW v \in Verbs, Submit(r, v)
        PROVE  /\ budget'["process"] = 0 => \A q \in Clients : request'[q].st = "idle"
               /\ \A q \in Clients : request'[q].verb = "process"
    <3>1. budget'[v] = budget[v] + 1
      BY <1>1, <2>3, SpendCounts DEF Submit, Events
    <3>2. v = "process" /\ budget'["process"] # 0
      BY <1>2, <3>1 DEF Verbs
    <3>3. /\ request'[r].verb = v
          /\ \A q \in Clients : q # r => request'[q] = request[q]
      BY <1>1, <2>3 DEF Submit, CallTypes
    <3> QED BY <3>2, <3>3 DEF Unasked
  <2>4. CASE \A r \in Clients : request'[r] = NoRequest
    BY <1>3, <2>4
  <2> QED BY <2>1, <2>2, <2>3, <2>4, RequestStep
<1>5. ASSUME budget'["stt"] = 0 PROVE pending' = FALSE /\ backfill'.st = "idle"
  <2>1. pending = FALSE /\ backfill.st = "idle"
    BY <1>2, <1>5 DEF Unasked
  <2>2. CASE Pipeline \/ ProducerGone \/ \E e \in Enders : EndMark(e) \/ Ending(e)
    <3>1. ~Spend("stt")
      BY <1>1, <1>2, <1>5, SpendCounts DEF Events
    <3> QED BY <2>1, <2>2, <3>1 DEF Pipeline, ProducerGone, Transcribe, TranscribeFails, EndMark,
            Ending, EndTake, EndReturn, rowVars, watchVars
  <2>3. ASSUME NEW j \in Jobs, Run(j) PROVE pending' = FALSE /\ backfill'.st = "idle"
    BY <2>1, <2>3, RunCase DEF Typed, RunFrame, RunWrites
  <2>4. ASSUME NEW r \in Clients, Handle(r) \/ \E v \in Verbs : Submit(r, v)
        PROVE  pending' = FALSE /\ backfill'.st = "idle"
    BY <2>1, <2>4 DEF Handle, Submit, Acquire, ReopenRead, ReopenCas, StartJob, requestVars, rowVars,
       watchVars
  <2>5. CASE Backfill
    BY <2>1, <2>5 DEF Backfill, BackfillPick, BackfillCas, BackfillStart, BackfillNoAudio
  <2>6. CASE Sweep
    <3>1. UNCHANGED sweepFrame
      BY <2>6 DEF Sweep, DeleteRead, DeleteCommit, RestoreSession, SoftDeleteDue, PurgeSelect,
         PurgeUnlink, AudioLost
    <3> QED BY <2>1, <3>1 DEF sweepFrame, watchVars
  <2>7. CASE Crash \/ Shutdown
    BY <1>1, <1>3, <2>1, <2>7, GoneCase DEF Crash, Shutdown, rowVars
  <2>8. CASE Restart \/ Age
    BY <2>1, <2>8 DEF Restart, Age, rowVars, watchVars
  <2> QED BY <2>2, <2>3, <2>4, <2>5, <2>6, <2>7, <2>8 DEF Next
<1> QED BY <1>4, <1>5 DEF Unasked

\* With a single end, no step breaks what an end relies on.
LEMMA EndStep ==
  ASSUME Typed, Next, Single => EndInv
  PROVE  Single' => EndInv'
BY SingleBefore, OneEnderStep, LiveAloneStep, UnaskedStep DEF EndInv

-----------------------------------------------------------------------------
(* One rerun at a time *)

Redoing(j) == job[j].st \in Redo

\* A backfill's run holds its slot, a run that has not begun has no rows, and a run settles when
\* nothing is left to transcribe.
RunShape ==
  /\ \A j \in Jobs : job[j].backfill => backfilling = j
  /\ backfill.st # "idle" => backfilling = NoJob
  /\ \A j \in Jobs : job[j].st \in {"unused", "queued", "select"} => \A x \in rows : x.by # j
  /\ \A j \in Jobs : job[j].st = "settle" => job[j].todo = {}

\* Without requests only the backfill transcribes again.
BackfillOnly == Never({"process"}) => \A j \in Jobs : Redoing(j) => job[j].backfill

\* Without a backfill one request transcribes again once.
OneRequest ==
  (Never({"stt"}) /\ budget["process"] <= 1) =>
    /\ \A r, q \in Clients : request[r].st # "idle" /\ request[q].st # "idle" => q = r
    /\ \A r \in Clients : request[r].st # "idle" => budget["process"] = 1
    /\ \A j \in Jobs : Redoing(j) => budget["process"] = 1 /\ \A r \in Clients : request[r].st = "idle"
    /\ \A i, j \in Jobs : Redoing(i) /\ Redoing(j) => i = j
\* What a step of a rerun writes.
RerunWrites(j) ==
  \/ /\ job[j].st = "select" /\ job'[j].st = "rerun" /\ rows' = rows
     /\ job'[j].old = rows /\ job'[j].todo = Parts /\ job'[j].lost = job[j].lost
  \/ /\ job[j].st = "rerun" /\ job'[j].st = "rerun" /\ job'[j].old = job[j].old
     /\ \E p \in job[j].todo :
          /\ job'[j].todo = job[j].todo \ {p}
          /\ \/ rows' = rows \cup {[part |-> p, by |-> j]} /\ job'[j].lost = job[j].lost
             \/ rows' = rows /\ job'[j].lost = TRUE
  \/ /\ job[j].st = "rerun" /\ job'[j].st = "settle" /\ rows' = rows /\ job[j].todo = {}
     /\ job'[j].old = job[j].old /\ job'[j].todo = {} /\ job'[j].lost = job[j].lost
  \/ /\ job[j].st = "settle" /\ job[j].lost /\ job'[j].st = "restore" /\ rows' = rows \cap job[j].old
  \/ /\ job[j].st = "settle" /\ ~job[j].lost /\ job'[j].st = "clear" /\ rows' = rows \ job[j].old

\* The rows and the old transcript only change in the steps of a rerun.
LEMMA RerunCase ==
  ASSUME JobTypes, RowTypes, budget \in [Events -> Nat], NEW j \in Jobs, Run(j)
  PROVE  \/ /\ rows' = rows /\ job[j].st \notin {"rerun", "settle"}
            /\ job'[j].st \notin {"rerun", "settle"}
         \/ RerunWrites(j)
<1> DEFINE Plain == /\ rows' = rows /\ job[j].st \notin {"rerun", "settle"}
                    /\ job'[j].st \notin {"rerun", "settle"}
<1>1. job[j] \in RunRow
  BY DEF JobTypes
<1>2. ASSUME EndRun(j) \/ SetDone(j) \/ WriteNote(j) \/ NoteFails(j) \/ FindRecording(j)
             \/ RestoreStatus(j) \/ ClearPending(j)
      PROVE  Plain
  <2>1. rows' = rows /\ \E st \in {"setdone", "note", "tail", "written", "select", "restore"} : Goto(j, st)
    BY <1>2 DEF EndRun, SetDone, WriteNote, NoteFails, FindRecording, RestoreStatus, ClearPending, rowVars
  <2>2. PICK st \in {"setdone", "note", "tail", "written", "select", "restore"} : Goto(j, st)
    BY <2>1
  <2>3. st \in Stages
    BY <2>2 DEF Stages
  <2>4. job'[j].st = st
    BY <2>2, <2>3, GotoCase
  <2>5. job[j].st \notin {"rerun", "settle"}
    BY <1>2 DEF EndRun, SetDone, WriteNote, NoteFails, FindRecording, RestoreStatus, ClearPending, At
  <2> QED BY <2>1, <2>4, <2>5
<1>3. ASSUME ReadTranscript(j) PROVE Plain
  <2>1. rows' = rows /\ job[j].st \notin {"rerun", "settle"}
    BY <1>3 DEF ReadTranscript, At
  <2>2. ASSUME NEW st \in {"tail", "setdone"}, Goto(j, st) PROVE job'[j].st = st
    BY <2>2, GotoCase DEF Stages
  <2>3. CASE job' = [job EXCEPT ![j].st = "llm", ![j].seen = rows]
    BY <1>1, <2>1, <2>3 DEF JobTypes, RunRow
  <2> QED BY <1>3, <2>1, <2>2, <2>3 DEF ReadTranscript
<1>4. ASSUME EndTail(j) \/ RecordingGone(j) PROVE Plain
  <2>1. rows' = rows /\ Over(j) /\ job[j].st \notin {"rerun", "settle"}
    BY <1>4 DEF EndTail, RecordingGone, rowVars, At
  <2> QED BY <2>1, OverCase
<1>5. ASSUME SelectOld(j) PROVE RerunWrites(j)
  <2> DEFINE new == [job[j] EXCEPT !.st = "rerun", !.old = rows, !.todo = Parts]
  <2>1. new.st = "rerun" /\ new.old = rows /\ new.todo = Parts /\ new.lost = job[j].lost
    BY <1>1 DEF RunRow
  <2>2. job' = [job EXCEPT ![j] = new]
    BY <1>5 DEF SelectOld
  <2> HIDE DEF new
  <2>3. job'[j] = new
    BY <2>2 DEF JobTypes
  <2> QED BY <1>5, <2>1, <2>3 DEF SelectOld, At, RerunWrites, rowVars
<1>6. ASSUME NEW p \in Parts, RerunPart(j, p) PROVE RerunWrites(j)
  <2> DEFINE new == [job[j] EXCEPT !.todo = @ \ {p}]
  <2>1. new.st = job[j].st /\ new.old = job[j].old /\ new.todo = job[j].todo \ {p} /\ new.lost = job[j].lost
    BY <1>1 DEF RunRow
  <2>2. job' = [job EXCEPT ![j] = new]
    BY <1>6 DEF RerunPart
  <2> HIDE DEF new
  <2>3. job'[j] = new
    BY <2>2 DEF JobTypes
  <2> QED BY <1>6, <2>1, <2>3 DEF RerunPart, At, RerunWrites
<1>7. ASSUME NEW p \in Parts, RerunLost(j, p) PROVE RerunWrites(j)
  <2> DEFINE new == [job[j] EXCEPT !.todo = @ \ {p}, !.lost = TRUE]
  <2>1. new.st = job[j].st /\ new.old = job[j].old /\ new.todo = job[j].todo \ {p} /\ new.lost = TRUE
    BY <1>1 DEF RunRow
  <2>2. job' = [job EXCEPT ![j] = new]
    BY <1>7 DEF RerunLost
  <2> HIDE DEF new
  <2>3. job'[j] = new
    BY <2>2 DEF JobTypes
  <2> QED BY <1>7, <2>1, <2>3 DEF RerunLost, At, RerunWrites, rowVars
<1>8. ASSUME RerunFinish(j) PROVE RerunWrites(j)
  <2>1. Goto(j, "settle")
    BY <1>8 DEF RerunFinish
  <2> QED BY <1>8, <2>1, GotoCase DEF RerunFinish, At, RerunWrites, Stages, rowVars
<1>9. ASSUME RerunSettle(j) PROVE RerunWrites(j)
  <2>1. CASE job[j].lost
    <3>1. Goto(j, "restore") /\ rows' = rows \cap job[j].old
      BY <1>9, <2>1 DEF RerunSettle
    <3> QED BY <1>9, <2>1, <3>1, GotoCase DEF RerunSettle, At, RerunWrites, Stages
  <2>2. CASE ~job[j].lost
    <3>1. Goto(j, "clear") /\ rows' = rows \ job[j].old
      BY <1>9, <2>2 DEF RerunSettle
    <3> QED BY <1>9, <2>2, <3>1, GotoCase DEF RerunSettle, At, RerunWrites, Stages
  <2> QED BY <2>1, <2>2
<1> QED BY <1>2, <1>3, <1>4, <1>5, <1>6, <1>7, <1>8, <1>9 DEF Run

\* A rerun's rows are its own, and what it settles with is all done.
LEMMA RunRows ==
  ASSUME JobTypes, RowTypes, budget \in [Events -> Nat], NEW j \in Jobs, Run(j)
  PROVE  /\ \A x \in rows' : x \in rows \/ (x.by = j /\ job'[j].st = "rerun")
         /\ job'[j].st = "settle" => job'[j].todo = {}
<1>1. (rows' = rows /\ job'[j].st \notin {"rerun", "settle"}) \/ RerunWrites(j)
  BY RerunCase
<1>2. \A p : [part |-> p, by |-> j].by = j
  OBVIOUS
<1>3. ASSUME RerunWrites(j)
      PROVE  /\ \A x \in rows' : x \in rows \/ (x.by = j /\ job'[j].st = "rerun")
             /\ job'[j].st = "settle" => job'[j].todo = {}
  <2>1. job'[j].st = "settle" => job'[j].todo = {}
    BY <1>3 DEF RerunWrites
  <2>2. CASE rows' \subseteq rows
    BY <2>1, <2>2
  <2>3. CASE job'[j].st = "rerun" /\ \E p \in job[j].todo : rows' = rows \cup {[part |-> p, by |-> j]}
    BY <1>2, <2>1, <2>3
  <2> QED BY <1>3, <2>2, <2>3 DEF RerunWrites
<1> QED BY <1>1, <1>3
\* Outside a run, a run is registered or nothing is, and only the live pipeline writes a row.
Registered ==
  \/ UNCHANGED <<job, backfilling>>
  \/ \E j \in Jobs : /\ job[j].st = "unused" /\ \A i \in Jobs : i # j => job'[i] = job[i]
                     /\ job'[j].st \in {"ending", "note", "queued"}
                     /\ \/ /\ job'[j].backfill = FALSE /\ backfilling' = backfilling
                           /\ job'[j].st = "queued" => \E r \in Clients : StartJob(r)
                        \/ BackfillStart /\ job'[j].backfill /\ backfilling' = j
  \/ /\ backfilling' = NoJob /\ backfill'.st = "idle"
     /\ \A j \in Jobs : /\ job[j].st = "unused" => job'[j].st = "unused"
                        /\ job[j].st # "unused" => job'[j].st = "over"
                        /\ job'[j].backfill = FALSE

\* What is not a step of a running Job only registers Jobs and adds live rows.
LEMMA RegisterCase ==
  ASSUME Typed, Next, ~(\E j \in Jobs : Run(j))
  PROVE  /\ Registered
         /\ \A x \in rows' : x \in rows \/ (x.by = Live /\ \E p \in Parts : Transcribe(p))
         /\ (rows' = rows) \/ Shutdown \/ \E p \in Parts : Transcribe(p)
<1>1. RowTypes /\ HubTypes /\ JobTypes /\ CallTypes
  BY DEF Typed
<1> DEFINE Rows == /\ \A x \in rows' : x \in rows \/ (x.by = Live /\ \E p \in Parts : Transcribe(p))
                   /\ (rows' = rows) \/ Shutdown \/ \E p \in Parts : Transcribe(p)
<1>2. Rows
  <2>1. ASSUME NEW p \in Parts, Transcribe(p) PROVE Rows
    <3>1. rows' = rows \cup {[part |-> p, by |-> Live]} /\ [part |-> p, by |-> Live].by = Live
      BY <2>1 DEF Transcribe
    <3> QED BY <2>1, <3>1
  <2>2. ASSUME \E p \in Parts : TranscribeFails(p) PROVE Rows
    BY <2>2 DEF TranscribeFails
  <2>3. ASSUME ProducerGone \/ \E e \in Enders : EndMark(e) \/ Ending(e) PROVE Rows
    BY <2>3 DEF ProducerGone, EndMark, Ending, EndTake, EndReturn
  <2>4. ASSUME NEW r \in Clients, Handle(r) \/ \E v \in Verbs : Submit(r, v) PROVE rows' = rows
    BY <2>4 DEF Handle, Submit, Acquire, ReopenRead, ReopenCas, StartJob, requestVars
  <2>5. ASSUME Backfill PROVE Rows
    BY <2>5 DEF Backfill, BackfillPick, BackfillCas, BackfillStart, BackfillNoAudio, backfillVars
  <2>6. ASSUME Sweep PROVE Rows
    BY <2>6 DEF Sweep, DeleteRead, DeleteCommit, RestoreSession, SoftDeleteDue, PurgeSelect,
       PurgeUnlink, AudioLost, sweepFrame
  <2>7. ASSUME Crash \/ Shutdown \/ Restart \/ Age PROVE Rows
    BY <2>7 DEF Crash, Shutdown, Restart, Age
  <2> QED BY <2>1, <2>2, <2>3, <2>4, <2>5, <2>6, <2>7 DEF Next, Pipeline
<1>3. ASSUME Pipeline \/ ProducerGone \/ \E e \in Enders : EndMark(e) \/ EndTake(e) PROVE Registered
  <2>1. UNCHANGED <<job, backfilling>>
    BY <1>3 DEF Pipeline, Transcribe, TranscribeFails, ProducerGone, EndMark, EndTake, jobVars, watchVars
  <2> QED BY <2>1 DEF Registered
<1>4. ASSUME (\E e \in Enders : EndReturn(e)) \/ Restart PROVE Registered
  <2>1. backfilling' = backfilling
    BY <1>4 DEF EndReturn, Restart, watchVars
  <2>2. CASE job' = job
    BY <2>1, <2>2 DEF Registered
  <2>3. ASSUME NEW j \in Jobs, Track(j, "ending", "done", FALSE) PROVE Registered
    BY <1>1, <2>1, <2>3, PlainTrack DEF Registered
  <2> QED BY <1>4, <2>2, <2>3 DEF EndReturn, Restart, jobVars
<1>5. ASSUME NEW r \in Clients, NEW v \in Verbs, Submit(r, v) PROVE Registered
  BY <1>5 DEF Submit, Registered, requestVars, jobVars, watchVars
<1>6. ASSUME NEW r \in Clients, Handle(r) PROVE Registered
  <2>1. backfilling' = backfilling
    BY <1>6 DEF Handle, Acquire, ReopenRead, ReopenCas, StartJob, requestVars, watchVars
  <2>2. CASE StartJob(r)
    <3>1. PICK j \in Jobs : Started(j, r)
      BY <1>1, <2>2, StartCase
    <3>2. /\ job[j].st = "unused" /\ \A i \in Jobs : i # j => job'[i] = job[i]
          /\ job'[j].st \in {"ending", "note", "queued"} /\ job'[j].backfill = FALSE
      BY <3>1 DEF Started
    <3> QED BY <2>1, <2>2, <3>2 DEF Registered
  <2>3. CASE Acquire(r) \/ ReopenRead(r) \/ ReopenCas(r)
    BY <2>1, <2>3 DEF Acquire, ReopenRead, ReopenCas, jobVars, Registered
  <2> QED BY <1>6, <2>2, <2>3 DEF Handle
<1>7. ASSUME Backfill PROVE Registered
  <2>1. CASE BackfillStart
    <3>1. PICK j \in Jobs : Track(j, "queued", backfill.before, TRUE) /\ backfilling' = j
      BY <2>1 DEF BackfillStart
    <3> QED BY <1>1, <2>1, <3>1, BackfillTrack DEF Registered
  <2>2. CASE BackfillNoAudio
    <3>1. PICK j \in Jobs : Track(j, "note", "done", FALSE)
      BY <2>2 DEF BackfillNoAudio
    <3> QED BY <1>1, <2>2, <3>1, PlainTrack DEF Registered, BackfillNoAudio
  <2> QED BY <1>7, <2>1, <2>2 DEF Backfill, BackfillPick, BackfillCas, jobVars, Registered
<1>8. ASSUME Sweep PROVE Registered
  <2>1. UNCHANGED sweepFrame
    BY <1>8 DEF Sweep, DeleteRead, DeleteCommit, RestoreSession, SoftDeleteDue, PurgeSelect,
       PurgeUnlink, AudioLost
  <2> QED BY <2>1 DEF sweepFrame, jobVars, watchVars, Registered
<1>9. ASSUME Crash \/ Shutdown PROVE Registered
  <2>1. NoRequest.st = "idle"
    BY DEF NoRequest
  <2> QED BY <1>1, <1>9, <2>1, GoneCase DEF Crash, Shutdown, Registered
<1>10. ASSUME Age PROVE Registered
  BY <1>10 DEF Age, jobVars, watchVars, Registered
<1>11. Registered
  BY <1>3, <1>4, <1>5, <1>6, <1>7, <1>8, <1>9, <1>10 DEF Next, Ending
<1> QED BY <1>2, <1>11

\* Every step keeps the shape of the runs.
LEMMA RunShapeStep ==
  ASSUME Typed, Next, RunShape
  PROVE  RunShape'
<1>1. RowTypes /\ HubTypes /\ JobTypes /\ CallTypes /\ budget \in [Events -> Nat]
      /\ job \in [Jobs -> RunRow]
  BY DEF Typed, JobTypes
<1>2. \A j \in Jobs : j # NoJob /\ j # Live
  BY JobNumbers
<1>3. ASSUME NEW j \in Jobs, Run(j) PROVE RunShape'
  <2>1. RunFrame /\ RunGoes(j) /\ RunOrder(j) /\ job' \in [Jobs -> RunRow]
        /\ job[j].st \notin {"unused", "over"}
    BY <1>1, <1>3, RunCase
  <2>2. /\ \A x \in rows' : x \in rows \/ (x.by = j /\ job'[j].st = "rerun")
        /\ job'[j].st = "settle" => job'[j].todo = {}
    BY <1>1, <1>3, RunRows
  <2>3. \A i \in Jobs : job'[i].backfill => backfilling' = i
    BY <1>2, <2>1 DEF RunGoes, RunShape
  <2>4. backfill'.st # "idle" => backfilling' = NoJob
    BY <2>1 DEF RunGoes, RunShape, RunFrame
  <2>5. \A i \in Jobs : job'[i].st \in {"unused", "queued", "select"} => \A x \in rows' : x.by # i
    <3>1. ASSUME NEW i \in Jobs, job'[i].st \in {"unused", "queued", "select"}
          PROVE  job[i].st \in {"unused", "queued", "select"}
      BY <2>1, <3>1 DEF RunGoes, RunOrder
    <3> QED BY <2>1, <2>2, <3>1 DEF RunShape, RunGoes
  <2>6. \A i \in Jobs : job'[i].st = "settle" => job'[i].todo = {}
    BY <2>1, <2>2 DEF RunGoes, RunShape
  <2> QED BY <2>3, <2>4, <2>5, <2>6 DEF RunShape
<1>4. CASE ~(\E j \in Jobs : Run(j))
  <2>1. Registered /\ \A x \in rows' : x \in rows \/ x.by = Live
    BY <1>4, RegisterCase
  <2>2. \A j \in Jobs : job'[j].backfill => backfilling' = j
    BY <1>2, <2>1 DEF Registered, RunShape, BackfillStart
  <2>3. backfill'.st # "idle" => backfilling' = NoJob
    <3>1. NoRequest.st = "idle"
      BY DEF NoRequest
    <3>2. CASE Backfill
      BY <3>1, <3>2 DEF RunShape, Backfill, BackfillPick, BackfillCas, BackfillStart, BackfillNoAudio
    <3>3. CASE Crash \/ Shutdown
      BY <1>1, <3>1, <3>3, GoneCase DEF Crash, Shutdown
    <3>4. CASE ~Backfill /\ ~Crash /\ ~Shutdown
      <4>1. UNCHANGED <<backfill, backfilling>>
        <5>1. CASE Sweep
          <6>1. UNCHANGED sweepFrame
            BY <5>1 DEF Sweep, DeleteRead, DeleteCommit, RestoreSession, SoftDeleteDue, PurgeSelect,
               PurgeUnlink, AudioLost
          <6> QED BY <6>1 DEF sweepFrame, watchVars
        <5>2. CASE Pipeline \/ ProducerGone \/ (\E e \in Enders : EndMark(e) \/ Ending(e)) \/ Restart \/ Age
          BY <5>2 DEF Pipeline, Transcribe, TranscribeFails, ProducerGone, EndMark, Ending, EndTake,
             EndReturn, Restart, Age, watchVars
        <5>3. ASSUME NEW r \in Clients, Handle(r) \/ \E v \in Verbs : Submit(r, v)
              PROVE  UNCHANGED <<backfill, backfilling>>
          BY <5>3 DEF Handle, Submit, Acquire, ReopenRead, ReopenCas, StartJob, requestVars, watchVars
        <5> QED BY <1>4, <3>4, <5>1, <5>2, <5>3 DEF Next
      <4> QED BY <4>1 DEF RunShape
    <3> QED BY <3>2, <3>3, <3>4
  <2>4. \A j \in Jobs : job'[j].st \in {"unused", "queued", "select"} =>
          job[j].st \in {"unused", "queued", "select"}
    BY <2>1 DEF Registered
  <2>5. \A j \in Jobs : job'[j].st \in {"unused", "queued", "select"} => \A x \in rows' : x.by # j
    BY <1>2, <2>1, <2>4 DEF RunShape
  <2>6. \A j \in Jobs : job'[j].st = "settle" => job'[j].todo = {}
    BY <2>1 DEF Registered, RunShape
  <2> QED BY <2>2, <2>3, <2>5, <2>6 DEF RunShape
<1> QED BY <1>3, <1>4
\* What is transcribed again had been asked for before, or is registered now.
LEMMA RedoingBefore ==
  ASSUME Typed, Next, NEW j \in Jobs, Redoing(j)'
  PROVE  \/ Redoing(j) /\ job'[j].backfill = job[j].backfill
         \/ job[j].st = "unused" /\ job'[j].st = "queued" /\ \E r \in Clients : StartJob(r)
         \/ BackfillStart /\ job'[j].backfill
<1>1. CASE \E i \in Jobs : Run(i)
  <2>1. PICK i \in Jobs : Run(i)
    BY <1>1
  <2>2. RunGoes(i) /\ RunOrder(i)
    BY <2>1, RunCase DEF Typed
  <2>3. "over" \notin Redo
    BY DEF Redo
  <2> QED BY <2>2, <2>3 DEF RunGoes, RunOrder, Redoing
<1>2. CASE ~(\E i \in Jobs : Run(i))
  <2>1. Registered
    BY <1>2, RegisterCase
  <2>2. CASE job'[j] = job[j]
    BY <2>2 DEF Redoing
  <2>3. CASE job'[j] # job[j]
    <3>1. "over" \notin Redo /\ "unused" \notin Redo /\ "ending" \notin Redo /\ "note" \notin Redo
      BY DEF Redo
    <3>2. \/ job[j].st = "unused" /\ job'[j].st = "queued" /\ \E r \in Clients : StartJob(r)
          \/ BackfillStart /\ job'[j].backfill
      BY <2>1, <2>3, <3>1 DEF Registered, Redoing
    <3> QED BY <3>2
  <2> QED BY <2>2, <2>3
<1> QED BY <1>1, <1>2

\* While no one asks for processing, every rerun is a backfill.
LEMMA BackfillOnlyStep ==
  ASSUME Typed, Next, Unasked, BackfillOnly
  PROVE  BackfillOnly'
<1> SUFFICES ASSUME Never({"process"})', NEW j \in Jobs, Redoing(j)' PROVE job'[j].backfill
  BY DEF BackfillOnly
<1>1. Never({"process"})
  <2>1. {"process"} \in SUBSET Events
    BY DEF Events, Verbs
  <2> QED BY <2>1, NeverBefore
<1>2. \A r \in Clients : request[r].st = "idle"
  BY <1>1 DEF Unasked, Never
<1>3. ~\E r \in Clients : StartJob(r)
  BY <1>2 DEF StartJob
<1> QED BY <1>1, <1>3, RedoingBefore DEF BackfillOnly

\* One call for processing makes one request.
LEMMA OneRequestStep ==
  ASSUME Typed, Next, Single', Single, EndInv, OneRequest
  PROVE  OneRequest'
<1>1. RowTypes /\ HubTypes /\ JobTypes /\ CallTypes /\ budget \in [Events -> Nat] /\ Unasked
  BY DEF Typed, EndInv
<1> SUFFICES ASSUME Never({"stt"})', budget'["process"] <= 1
             PROVE  /\ \A r, q \in Clients : request'[r].st # "idle" /\ request'[q].st # "idle" => q = r
                    /\ \A r \in Clients : request'[r].st # "idle" => budget'["process"] = 1
                    /\ \A j \in Jobs : Redoing(j)' => /\ budget'["process"] = 1
                                                      /\ \A r \in Clients : request'[r].st = "idle"
                    /\ \A i, j \in Jobs : Redoing(i)' /\ Redoing(j)' => i = j
  BY DEF OneRequest
<1>2. Never({"stt"})
  <2>1. {"stt"} \in SUBSET Events
    BY DEF Events
  <2> QED BY <2>1, NeverBefore
<1>3. /\ budget'["process"] >= budget["process"] /\ budget["process"] \in Nat
      /\ budget'["process"] \in Nat /\ budget["process"] <= 1
  BY BudgetGrows DEF Typed, Events, Verbs
<1>4. /\ \A r, q \in Clients : request[r].st # "idle" /\ request[q].st # "idle" => q = r
      /\ \A r \in Clients : request[r].st # "idle" => budget["process"] = 1
      /\ \A j \in Jobs : Redoing(j) => budget["process"] = 1 /\ \A r \in Clients : request[r].st = "idle"
      /\ \A i, j \in Jobs : Redoing(i) /\ Redoing(j) => i = j
  BY <1>2, <1>3 DEF OneRequest
<1>5. ~BackfillStart
  BY <1>1, <1>2 DEF BackfillStart, Unasked, Never
<1>6. NoRequest.st = "idle"
  BY DEF NoRequest
<1>7. ASSUME NEW r \in Clients, StartJob(r)
      PROVE  /\ \A q, s \in Clients : request'[q].st # "idle" /\ request'[s].st # "idle" => s = q
             /\ \A q \in Clients : request'[q].st # "idle" => budget'["process"] = 1
             /\ \A j \in Jobs : Redoing(j)' => /\ budget'["process"] = 1
                                               /\ \A q \in Clients : request'[q].st = "idle"
             /\ \A i, j \in Jobs : Redoing(i)' /\ Redoing(j)' => i = j
  <2>1. request[r].st # "idle" /\ request'[r] = NoRequest
        /\ \A q \in Clients : q # r => request'[q] = request[q]
    BY <1>1, <1>7, StartCase DEF Handles
  <2>2. \A q \in Clients : request'[q].st = "idle"
    BY <1>4, <1>6, <2>1
  <2>3. budget'["process"] = 1 /\ \A j \in Jobs : ~Redoing(j)
    BY <1>3, <1>4, <2>1
  <2>4. PICK j \in Jobs : Started(j, r)
    BY <1>1, <1>7, StartCase
  <2>5. \A i \in Jobs : i # j => ~Redoing(i)'
    BY <2>3, <2>4 DEF Started, Redoing
  <2> QED BY <2>2, <2>3, <2>5
<1>8. CASE ~\E r \in Clients : StartJob(r)
  <2>1. \A j \in Jobs : Redoing(j)' => Redoing(j)
    BY <1>5, <1>8, RedoingBefore
  <2>2. CASE request' = request
    BY <1>3, <1>4, <2>1, <2>2
  <2>3. ASSUME NEW r \in Clients, Handles(r), request[r].st # "idle"
        PROVE  \A q \in Clients : request'[q].st # "idle" => request[q].st # "idle"
    BY <2>3 DEF Handles
  <2>4. CASE \A q \in Clients : request'[q].st # "idle" => request[q].st # "idle"
    BY <1>3, <1>4, <2>1, <2>4
  <2>5. ASSUME NEW r \in Clients, NEW v \in Verbs, Submit(r, v)
        PROVE  /\ \A q, s \in Clients : request'[q].st # "idle" /\ request'[s].st # "idle" => s = q
               /\ \A q \in Clients : request'[q].st # "idle" => budget'["process"] = 1
               /\ \A j \in Jobs : ~Redoing(j)
    <3>1. budget'[v] = budget[v] + 1
      BY <1>1, <2>5, SpendCounts DEF Submit, Events
    <3>2. v = "process"
      <4>1. budget'["regenerate"] = 0 /\ budget["regenerate"] \in Nat
        BY BudgetGrows DEF Typed, Events, Verbs, Single, Never
      <4> QED BY <3>1, <4>1 DEF Verbs
    <3>3. budget["process"] = 0 /\ budget'["process"] = 1
      BY <1>3, <3>1, <3>2
    <3>4. \A q \in Clients : request[q].st = "idle"
      BY <1>1, <3>3 DEF Unasked
    <3>5. \A q \in Clients : q # r => request'[q] = request[q]
      BY <1>1, <2>5 DEF Submit, CallTypes
    <3> QED BY <1>4, <3>3, <3>4, <3>5
  <2>6. CASE \A r \in Clients : request'[r] = NoRequest
    BY <1>6, <2>4, <2>6
  <2> QED BY <2>1, <2>2, <2>3, <2>4, <2>5, <2>6, RequestStep
<1> QED BY <1>7, <1>8
-----------------------------------------------------------------------------
(* The sheltered regime: one worker at a time *)

\* Nothing but the live pipeline has worked on the session.
Unstarted ==
  /\ entry = NoJob /\ note = {}
  /\ \A j \in Jobs : job[j].st = "unused"
  /\ \A r \in Clients : ~Asking(r)

Streaming == status = "live" /\ ingest /\ budget["end"] = 0 /\ \A e \in Enders : ender[e].st = "idle"

DrainedBy(e) ==
  /\ status = "finalizing" /\ draining /\ ender[e].moved /\ budget["end"] = 1
  /\ \A f \in Enders : f # e => ender[f].st = "idle"
  /\ \/ ender[e].st = "marked" /\ ingest
     \/ ender[e].st = "draining" /\ ender[e].took /\ ~ingest

Ended ==
  /\ status # "live" /\ ~ingest /\ budget["end"] = 1
  /\ \A e \in Enders : ender[e].st \in {"idle", "over"}

\* The live pipeline works, or it has ended and at most one request or run does.
Phases ==
  \/ Streaming /\ Unstarted
  \/ (\E e \in Enders : DrainedBy(e)) /\ Unstarted
  \/ Ended

\* The server stays up and the backfill has nothing to do.
Calm ==
  /\ server = "up" /\ pending = FALSE /\ producer /\ backfill.st = "idle" /\ backfilling = NoJob
  /\ \A r \in Clients : request[r].verb = "process"

\* A request past the lock is alone, and then moves the session to finalizing.
AskingAlone ==
  /\ \A r \in Clients : Asking(r) => lock = r /\ entry = NoJob /\ Ended
  /\ \A r \in Clients : request[r].st = "start" => status = "finalizing" /\ request[r].before = "finalizing"

\* A run is the registered one, the session is finalizing while it works, and a rerun that fails
\* puts back failed.
RunAlone ==
  \A j \in Jobs : /\ job[j].st \notin {"unused", "over"} => entry = j
                  /\ job[j].st \notin {"unused", "tail", "over"} => status = "finalizing"
                  /\ job[j].st \in Redo \cup {"restore"} => job[j].restore = "failed"

SoleInv == Phases /\ Calm /\ AskingAlone /\ RunAlone

\* A session that nothing disturbed was not disturbed before.
LEMMA ShelteredBefore ==
  ASSUME Typed, Next, Sheltered'
  PROVE  Sheltered
<1>1. {"regenerate", "gone", "crash", "shutdown", "stt"} \in SUBSET Events /\ "end" \in Events
  BY DEF Events, Verbs
<1>2. budget'["end"] >= budget["end"] /\ budget["end"] \in Nat /\ budget'["end"] \in Nat
  BY <1>1, BudgetGrows DEF Typed
<1>3. Never({"regenerate", "gone", "crash", "shutdown", "stt"})
  BY <1>1, NeverBefore DEF Sheltered
<1> QED BY <1>2, <1>3 DEF Sheltered

\* What the regime excludes does not happen.
LEMMA ShelteredSteps ==
  ASSUME Typed, Next, Sheltered', SoleInv
  PROVE  /\ ~Crash /\ ~Shutdown /\ ~ProducerGone /\ ~Restart /\ ~Backfill
         /\ \A p \in Parts : ~TranscribeFails(p)
         /\ \A r \in Clients : ~Submit(r, "regenerate")
<1>1. /\ budget \in [Events -> Nat]
      /\ budget'["regenerate"] = 0 /\ budget'["gone"] = 0 /\ budget'["crash"] = 0
      /\ budget'["shutdown"] = 0 /\ budget'["stt"] = 0
  BY DEF Sheltered, Never, Typed
<1>2. /\ ~Spend("regenerate") /\ ~Spend("gone") /\ ~Spend("crash") /\ ~Spend("shutdown") /\ ~Spend("stt")
  <2>1. {"regenerate", "gone", "crash", "shutdown", "stt"} \subseteq Events
    BY DEF Events, Verbs
  <2>2. \A e \in {"regenerate", "gone", "crash", "shutdown", "stt"} : ~Spend(e)
    BY <1>1, <2>1, SpendCounts
  <2> QED BY <2>2
<1>3. ~Backfill
  BY DEF SoleInv, Calm, Backfill, BackfillPick, BackfillCas, BackfillStart, BackfillNoAudio
<1>4. ~Restart
  BY DEF SoleInv, Calm, Restart
<1> QED BY <1>2, <1>3, <1>4 DEF Crash, Shutdown, ProducerGone, TranscribeFails, Submit

\* A step that leaves the session's workers alone keeps the invariant.
LEMMA SoleKept ==
  ASSUME SoleInv, budget'["end"] = budget["end"],
         UNCHANGED <<status, note, pending, server, ingest, producer, draining, ender, job, entry, lock,
                     request, backfill, backfilling>>
  PROVE  SoleInv'
<1>1. Phases'
  BY DEF SoleInv, Phases, Streaming, Unstarted, DrainedBy, Ended, Asking
<1>2. Calm' /\ RunAlone'
  BY DEF SoleInv, Calm, RunAlone
<1>3. AskingAlone'
  BY DEF SoleInv, AskingAlone, Ended, Asking
<1> QED BY <1>1, <1>2, <1>3 DEF SoleInv
\* The step that ends the session.
LEMMA SoleEnding ==
  ASSUME Typed, Next, Sheltered', SoleInv, NEW e \in Enders, EndMark(e) \/ EndTake(e) \/ EndReturn(e)
  PROVE  SoleInv'
<1>1. RowTypes /\ HubTypes /\ JobTypes /\ CallTypes /\ budget \in [Events -> Nat]
  BY DEF Typed
<1>2. budget["end"] \in Nat /\ budget'["end"] \in Nat /\ budget'["end"] <= 1
  BY BudgetGrows DEF Typed, Events, Sheltered
<1>3. Phases /\ Calm /\ AskingAlone /\ RunAlone
  BY DEF SoleInv
<1>4. Calm'
  BY <1>3 DEF Calm, EndMark, EndTake, EndReturn, rowVars, apiVars, watchVars
<1>5. UNCHANGED <<note, request, lock>>
  BY DEF EndMark, EndTake, EndReturn, apiVars
<1>6. CASE EndMark(e)
  <2>1. budget'["end"] = budget["end"] + 1
    BY <1>1, <1>6, SpendCounts DEF EndMark, Events
  <2>2. Streaming /\ Unstarted
    BY <1>2, <1>3, <2>1 DEF Phases, DrainedBy, Ended
  <2>3. /\ ender'[e].st = "marked" /\ ender'[e].moved = TRUE /\ ender[e].st = "idle"
        /\ \A f \in Enders : f # e => ender'[f] = ender[f]
    BY <1>1, <1>6, <2>2, EndMarkCase DEF Streaming
  <2>4. UNCHANGED <<job, entry, ingest>> /\ status' = "finalizing" /\ draining' = TRUE
    BY <1>6, <2>2 DEF EndMark, jobVars, Streaming
  <2>5. DrainedBy(e)'
    BY <1>2, <2>1, <2>2, <2>3, <2>4 DEF DrainedBy, Streaming
  <2>6. Unstarted'
    BY <1>5, <2>2, <2>4 DEF Unstarted, Asking
  <2>7. AskingAlone' /\ RunAlone'
    BY <1>5, <2>2, <2>4, <2>6 DEF Unstarted, AskingAlone, RunAlone, Asking, Redo
  <2> QED BY <1>4, <2>5, <2>6, <2>7 DEF SoleInv, Phases
<1>7. CASE EndTake(e)
  <2>1. /\ ender[e].st = "marked" /\ ender'[e].st = "draining" /\ ender'[e].took = ingest
        /\ ender'[e].moved = ender[e].moved /\ \A f \in Enders : f # e => ender'[f] = ender[f]
    BY <1>1, <1>7, EndTakeCase
  <2>2. Unstarted /\ \E f \in Enders : DrainedBy(f)
    BY <1>3, <2>1 DEF Phases, Streaming, Ended
  <2>3. DrainedBy(e)
    BY <2>1, <2>2 DEF DrainedBy
  <2>4. UNCHANGED <<job, entry, status, draining, budget>> /\ ingest' = FALSE
    BY <1>7 DEF EndTake, jobVars, rowVars
  <2>5. DrainedBy(e)'
    BY <2>1, <2>3, <2>4 DEF DrainedBy
  <2>6. Unstarted'
    BY <1>5, <2>2, <2>4 DEF Unstarted, Asking
  <2>7. AskingAlone' /\ RunAlone'
    BY <1>5, <2>2, <2>4, <2>6 DEF Unstarted, AskingAlone, RunAlone, Asking, Redo
  <2> QED BY <1>4, <2>5, <2>6, <2>7 DEF SoleInv, Phases
<1>8. CASE EndReturn(e)
  <2>1. /\ ender[e].st = "draining" /\ ender'[e].st = "over"
        /\ \A f \in Enders : f # e => ender'[f] = ender[f]
    BY <1>1, <1>8, EndReturnCase
  <2>2. Unstarted /\ \E f \in Enders : DrainedBy(f)
    BY <1>3, <2>1 DEF Phases, Streaming, Ended
  <2>3. DrainedBy(e)
    BY <2>1, <2>2 DEF DrainedBy
  <2>4. UNCHANGED <<status, ingest, budget>>
    BY <1>8 DEF EndReturn, rowVars
  <2>5. PICK j \in Jobs : Track(j, "ending", "done", FALSE)
    BY <1>8, <2>3 DEF EndReturn, DrainedBy
  <2>6. /\ entry' = j /\ job'[j].st = "ending"
        /\ \A i \in Jobs : i # j => job'[i] = job[i]
    BY <1>1, <2>5, PlainTrack
  <2>7. Ended'
    BY <2>1, <2>3, <2>4 DEF Ended, DrainedBy
  <2>8. \A r \in Clients : ~Asking(r)'
    BY <1>5, <2>2 DEF Unstarted, Asking
  <2>9. RunAlone'
    BY <2>2, <2>3, <2>4, <2>6 DEF RunAlone, Unstarted, DrainedBy, Redo
  <2> QED BY <1>4, <2>7, <2>8, <2>9 DEF SoleInv, Phases, AskingAlone, Asking
<1> QED BY <1>6, <1>7, <1>8

\* A step of a run: it is the only one, and it is registered until it is over.
LEMMA SoleRun ==
  ASSUME Typed, Next, Sheltered', SoleInv, NEW j \in Jobs, Run(j)
  PROVE  SoleInv'
<1>1. /\ server = "up" /\ job[j].st \notin {"unused", "over"} /\ RunFrame
      /\ RunGoes(j) /\ RunOrder(j) /\ RunWrites(j)
  BY RunCase DEF Typed
<1>2. budget["end"] \in Nat /\ budget'["end"] \in Nat /\ budget'["end"] <= 1 /\ budget'["end"] >= budget["end"]
      /\ j # NoJob
  BY BudgetGrows, JobNumbers DEF Typed, Events, Sheltered
<1>3. Phases /\ Calm /\ AskingAlone /\ RunAlone
  BY DEF SoleInv
<1>4. Ended /\ entry = j
  BY <1>1, <1>3 DEF Phases, Unstarted, RunAlone
<1>5. UNCHANGED <<ender, ingest, producer, server, request, lock, backfill>>
  BY <1>1 DEF RunFrame, hubVars, apiVars
<1>6. \A r \in Clients : ~Asking(r) /\ ~Asking(r)'
  BY <1>2, <1>3, <1>4, <1>5 DEF AskingAlone, Asking
<1>7. Ended'
  BY <1>1, <1>2, <1>4, <1>5 DEF Ended, RunWrites, Finished
<1>8. Calm'
  BY <1>1, <1>3, <1>5 DEF Calm, RunWrites, RunGoes
<1>9. AskingAlone'
  BY <1>5, <1>6 DEF AskingAlone, Asking
<1>10. \A i \in Jobs : i # j => job'[i] = job[i] /\ job[i].st \in {"unused", "over"}
  BY <1>1, <1>3, <1>4 DEF RunAlone, RunGoes
<1>11. job'[j].st \notin {"unused", "over"} => entry' = j
  BY <1>1, <1>4 DEF RunGoes
<1>12. job'[j].st \notin {"unused", "tail", "over"} => status' = "finalizing"
  BY <1>1, <1>3 DEF RunAlone, RunOrder, RunWrites
<1>13. job'[j].st \in Redo \cup {"restore"} => job'[j].restore = "failed"
  <2>1. "over" \notin Redo \cup {"restore"} /\ {"queued", "settle"} \subseteq Redo
    BY DEF Redo
  <2> QED BY <1>1, <1>3, <2>1 DEF RunAlone, RunOrder, RunGoes
<1>14. RunAlone'
  <2>1. "over" \notin Redo \cup {"restore"} /\ "unused" \notin Redo \cup {"restore"}
    BY DEF Redo
  <2> QED BY <1>10, <1>11, <1>12, <1>13, <2>1 DEF RunAlone
<1> QED BY <1>7, <1>8, <1>9, <1>14 DEF SoleInv, Phases
\* A request: at the lock it finds nobody at work, and until it returns nobody begins.
LEMMA SoleRequest ==
  ASSUME Typed, Next, Sheltered', SoleInv, NEW r \in Clients, Handle(r)
  PROVE  SoleInv'
<1>1. RowTypes /\ HubTypes /\ JobTypes /\ CallTypes
  BY DEF Typed
<1>2. Phases /\ Calm /\ AskingAlone /\ RunAlone
  BY DEF SoleInv
<1>3. /\ UNCHANGED <<note, pending, server, ingest, producer, draining, ender, backfill, backfilling, budget>>
      /\ Handles(r)
  BY <1>1, AcquireCase, ReopenReadCase, ReopenCasCase, StartCase
     DEF Handle, Acquire, ReopenRead, ReopenCas, StartJob, requestVars, rowVars, hubVars, watchVars
<1>4. NoRequest.st = "idle" /\ NoRequest.verb = "process"
  BY DEF NoRequest
<1>5. Calm'
  BY <1>2, <1>3, <1>4 DEF Calm, Handles
<1>6. \A q \in Clients : q # r => request'[q] = request[q]
  BY <1>3 DEF Handles
<1>7. CASE Acquire(r)
  <2>1. /\ request[r].st = "waiting" /\ lock = NoHolder /\ UNCHANGED <<status, job, entry>>
        /\ \/ request'[r] = NoRequest /\ lock' = NoHolder
           \/ request'[r].st = "read" /\ lock' = r /\ ~Busy
    BY <1>1, <1>2, <1>7, AcquireCase DEF Acquire, requestVars, rowVars, jobVars, Calm
  <2>2. \A q \in Clients : ~Asking(q)
    BY <1>2, <2>1, LockNamed DEF AskingAlone
  <2>3. \A q \in Clients : q # r => ~Asking(q)'
    BY <1>6, <2>2 DEF Asking
  <2>4. RunAlone'
    BY <1>2, <2>1 DEF RunAlone
  <2>5. CASE request'[r] = NoRequest
    <3>1. \A q \in Clients : ~Asking(q)'
      BY <1>4, <2>3, <2>5 DEF Asking
    <3>2. Phases'
      BY <1>2, <1>3, <2>1, <3>1 DEF Phases, Streaming, Unstarted, DrainedBy, Ended
    <3> QED BY <1>5, <2>4, <3>1, <3>2 DEF SoleInv, AskingAlone, Asking
  <2>6. CASE request'[r].st = "read" /\ lock' = r /\ ~Busy
    <3>1. entry = NoJob /\ Ended
      BY <1>2, <2>6 DEF Busy, Phases, Streaming, DrainedBy, Calm
    <3>2. Ended' /\ entry' = NoJob
      BY <1>3, <2>1, <3>1 DEF Ended
    <3>3. AskingAlone'
      BY <2>3, <2>6, <3>2 DEF AskingAlone, Asking
    <3> QED BY <1>5, <2>4, <3>2, <3>3 DEF SoleInv, Phases
  <2> QED BY <2>1, <2>5, <2>6
<1>8. CASE ReopenRead(r) \/ ReopenCas(r) \/ StartJob(r)
  <2>1. Asking(r)
    BY <1>8 DEF ReopenRead, ReopenCas, StartJob, Asking
  <2>2. lock = r /\ entry = NoJob /\ Ended
    BY <1>2, <2>1 DEF AskingAlone
  <2>3. \A q \in Clients : q # r => ~Asking(q) /\ ~Asking(q)'
    BY <1>2, <1>6, <2>2 DEF AskingAlone, Asking
  <2>4. \A j \in Jobs : job[j].st \in {"unused", "over"}
    BY <1>2, <2>2, JobNumbers DEF RunAlone
  <2>5. CASE ReopenRead(r)
    <3>1. /\ UNCHANGED <<status, job, entry>>
          /\ (request'[r] = NoRequest) \/ (request'[r].st = "cas" /\ lock' = lock)
      BY <1>1, <2>5, ReopenReadCase DEF ReopenRead, requestVars, rowVars, jobVars
    <3>2. Ended' /\ RunAlone'
      BY <1>2, <1>3, <2>2, <3>1 DEF Ended, RunAlone
    <3>3. AskingAlone'
      BY <1>4, <2>2, <2>3, <3>1, <3>2 DEF AskingAlone, Asking
    <3> QED BY <1>5, <3>2, <3>3 DEF SoleInv, Phases
  <2>6. CASE ReopenCas(r)
    <3>1. /\ UNCHANGED <<job, entry>>
          /\ \/ request'[r] = NoRequest /\ status' = status
             \/ /\ request'[r].st = "start" /\ lock' = lock /\ request'[r].before = "finalizing"
                /\ status' = "finalizing"
      BY <1>1, <2>6, ReopenCasCase DEF ReopenCas, jobVars
    <3>2. Ended'
      BY <1>3, <2>2, <3>1 DEF Ended
    <3>3. RunAlone'
      BY <1>2, <2>4, <3>1 DEF RunAlone, Redo
    <3>4. AskingAlone'
      BY <1>4, <2>2, <2>3, <3>1, <3>2 DEF AskingAlone, Asking
    <3> QED BY <1>5, <3>2, <3>3, <3>4 DEF SoleInv, Phases
  <2>7. CASE StartJob(r)
    <3>1. request[r].st = "start" /\ request'[r] = NoRequest /\ status' = status
      BY <1>1, <2>7, StartCase DEF StartJob, requestVars, rowVars
    <3>2. PICK j \in Jobs : Started(j, r)
      BY <1>1, <2>7, StartCase
    <3>3. status = "finalizing" /\ request[r].before = "finalizing"
      BY <1>2, <3>1 DEF AskingAlone
    <3>4. \A q \in Clients : ~Asking(q)'
      BY <1>4, <2>3, <3>1 DEF Asking
    <3>5. Ended' /\ AskingAlone'
      BY <1>3, <2>2, <3>1, <3>4 DEF Ended, AskingAlone, Asking
    <3>6. /\ entry' = j /\ \A i \in Jobs : i # j => job'[i] = job[i]
          /\ (job'[j].st = "note") \/ (job'[j].st = "queued" /\ job'[j].restore = "failed")
      BY <3>2, <3>3 DEF Started, RestoreTo
    <3>7. RunAlone'
      BY <2>4, <3>1, <3>3, <3>6 DEF RunAlone, Redo
    <3> QED BY <1>5, <3>5, <3>7 DEF SoleInv, Phases
  <2> QED BY <1>8, <2>5, <2>6, <2>7
<1> QED BY <1>7, <1>8 DEF Handle

\* Every step of the sheltered regime keeps the invariant.
LEMMA SoleStep ==
  ASSUME Typed, Next, Sheltered => SoleInv
  PROVE  Sheltered' => SoleInv'
<1> SUFFICES ASSUME Sheltered' PROVE SoleInv'
  OBVIOUS
<1>1. SoleInv /\ budget \in [Events -> Nat] /\ CallTypes
  BY ShelteredBefore DEF Typed
<1>2. /\ ~Crash /\ ~Shutdown /\ ~ProducerGone /\ ~Restart /\ ~Backfill
      /\ \A p \in Parts : ~TranscribeFails(p)
      /\ \A r \in Clients : ~Submit(r, "regenerate")
  BY <1>1, ShelteredSteps
<1>3. CASE \E p \in Parts : Transcribe(p)
  BY <1>1, <1>3, SoleKept DEF Transcribe, rowVars, jobVars, apiVars, watchVars
<1>4. CASE Sweep
  <2>1. UNCHANGED sweepFrame /\ ((UNCHANGED budget) \/ \E e \in {"delete", "purge", "lost"} : Spend(e))
    BY <1>4 DEF Sweep, DeleteRead, DeleteCommit, RestoreSession, SoftDeleteDue, PurgeSelect,
       PurgeUnlink, AudioLost
  <2>2. budget'["end"] = budget["end"]
    BY <1>1, <2>1 DEF Spend, Events
  <2> QED BY <1>1, <2>1, <2>2, SoleKept DEF sweepFrame, hubVars, jobVars, apiVars, watchVars
<1>5. CASE Age
  <2>1. budget'["end"] = budget["end"]
    BY <1>1, <1>5 DEF Age, Spend, Events
  <2> QED BY <1>1, <1>5, <2>1, SoleKept DEF Age, hubVars, jobVars, apiVars, watchVars
<1>6. ASSUME NEW r \in Clients, NEW v \in Verbs, Submit(r, v) PROVE SoleInv'
  <2>1. v = "process" /\ request[r].st = "idle"
    BY <1>2, <1>6 DEF Verbs, Submit
  <2>2. /\ request'[r].st = "waiting" /\ request'[r].verb = "process"
        /\ \A q \in Clients : q # r => request'[q] = request[q]
    BY <1>1, <1>6, <2>1 DEF Submit, CallTypes
  <2>3. /\ UNCHANGED <<status, note, pending, server, ingest, producer, draining, ender, job, entry, lock,
                       backfill, backfilling>>
        /\ budget'["end"] = budget["end"]
    BY <1>1, <1>6 DEF Submit, requestVars, rowVars, hubVars, jobVars, watchVars, Spend, Events, Verbs
  <2>4. \A q \in Clients : Asking(q)' => Asking(q) /\ q # r
    BY <2>2 DEF Asking
  <2>5. Phases'
    BY <1>1, <2>3, <2>4 DEF SoleInv, Phases, Streaming, Unstarted, DrainedBy, Ended
  <2>6. Calm' /\ RunAlone'
    BY <1>1, <2>2, <2>3 DEF SoleInv, Calm, RunAlone
  <2>7. AskingAlone'
    BY <1>1, <2>2, <2>3, <2>4 DEF SoleInv, AskingAlone, Ended
  <2> QED BY <2>5, <2>6, <2>7 DEF SoleInv
<1> QED BY <1>1, <1>2, <1>3, <1>4, <1>5, <1>6, SoleEnding, SoleRun, SoleRequest
        DEF Next, Pipeline, Ending
\* At most one run works, and not while the session drains.
LEMMA SoleWorker ==
  ASSUME SoleInv
  PROVE  Cardinality(Working) + Cardinality(Drains) <= 1
<1>1. Phases /\ RunAlone
  BY DEF SoleInv
<1>2. Working \subseteq {entry}
  BY <1>1 DEF Working, RunAlone
<1>3. ASSUME NEW S, NEW x, S \subseteq {x} PROVE Cardinality(S) \in 0..1
  <2>1. CASE S = {}
    <3>1. Cardinality(S) = 0
      BY <2>1, FS_EmptySet
    <3> QED BY <3>1
  <2>2. CASE S = {x}
    <3>1. Cardinality({x}) = 1
      BY FS_Singleton
    <3> QED BY <2>2, <3>1
  <2> QED BY <1>3, <2>1, <2>2
<1>4. CASE Unstarted
  <2>1. Working = {}
    BY <1>4 DEF Unstarted, Working
  <2>2. \E e : Drains \subseteq {e}
    <3>1. CASE Ended \/ Streaming
      BY <3>1 DEF Ended, Streaming, Drains
    <3>2. ASSUME NEW e \in Enders, DrainedBy(e) PROVE Drains \subseteq {e}
      BY <3>2 DEF DrainedBy, Drains
    <3> QED BY <1>1, <3>1, <3>2 DEF Phases
  <2>3. Cardinality(Drains) \in 0..1
    BY <1>3, <2>2
  <2>4. Cardinality(Working) = 0
    BY <2>1, FS_EmptySet
  <2> QED BY <2>3, <2>4
<1>5. CASE Ended
  <2>1. Drains = {}
    BY <1>5 DEF Ended, Drains
  <2>2. Cardinality(Drains) = 0
    BY <2>1, FS_EmptySet
  <2>3. Cardinality(Working) \in 0..1
    BY <1>2, <1>3
  <2> QED BY <2>2, <2>3
<1> QED BY <1>1, <1>4, <1>5 DEF Phases

\* At the start the live pipeline streams and nobody has asked for anything.
LEMMA SoleStarts ==
  ASSUME Init
  PROVE  (Sheltered => SoleInv) /\ (Single => EndInv)
<1>1. /\ \A e \in Enders : ender[e].st = "idle"
      /\ \A r \in Clients : request[r].st = "idle" /\ request[r].verb = "process"
      /\ backfill.st = "idle"
  BY DEF Init, Idle, NoRequest
<1>2. \A j \in Jobs : job[j].st = "unused"
  BY DEF Init, Unused
<1>3. budget["end"] = 0
  BY DEF Init, Events
<1>4. SoleInv
  <2>1. Streaming /\ Unstarted
    BY <1>1, <1>2, <1>3 DEF Streaming, Unstarted, Asking, Init
  <2>2. Calm
    BY <1>1 DEF Calm, Init
  <2>3. AskingAlone /\ RunAlone
    BY <1>1, <1>2 DEF AskingAlone, RunAlone, Asking, Redo
  <2> QED BY <2>1, <2>2, <2>3 DEF SoleInv, Phases
<1>5. EndInv
  <2>1. OneEnder
    BY <1>1 DEF OneEnder
  <2>2. LiveAlone
    BY <1>1, <1>2 DEF LiveAlone, Init, Asking, Active
  <2>3. Unasked
    BY <1>1 DEF Unasked, Init
  <2> QED BY <2>1, <2>2, <2>3 DEF EndInv
<1> QED BY <1>4, <1>5

\* In the sheltered regime the invariant of the single worker holds throughout.
LEMMA SoleAlways == Spec => [](Sheltered => SoleInv)
<1>1. Init => (Sheltered => SoleInv)
  BY SoleStarts
<1>2. Typed /\ (Sheltered => SoleInv) /\ [Next]_vars => (Sheltered => SoleInv)'
  <2> SUFFICES ASSUME Typed, Sheltered => SoleInv, [Next]_vars PROVE (Sheltered => SoleInv)'
    OBVIOUS
  <2>1. CASE Next
    BY <2>1, SoleStep
  <2>2. CASE UNCHANGED vars
    <3>1. (Sheltered' <=> Sheltered)
      BY <2>2 DEF vars, Sheltered, Never
    <3>2. ASSUME SoleInv PROVE SoleInv'
      BY <2>2, <3>2, SoleKept DEF vars
    <3> QED BY <3>1, <3>2
  <2> QED BY <2>1, <2>2
<1> QED BY <1>1, <1>2, Typing, PTL DEF Spec

\* process never starts a second job: however requests, the drain, the runs, deletions and purges
\* interleave, at most one run or draining end works on the session.
THEOREM OneJobAtATime == Spec => []NeverSecondJob
<1>1. (Sheltered => SoleInv) => NeverSecondJob
  BY SoleWorker DEF NeverSecondJob
<1> QED BY <1>1, SoleAlways, PTL
-----------------------------------------------------------------------------
(* Where a rerun is alone, nothing that was transcribed is lost *)

\* A rerun next to nothing: every row is an old one or its own, and while nothing was lost it has
\* a row for every part it has been through.
RowInv ==
  \A j \in Jobs : job[j].st \in {"rerun", "settle"} =>
    /\ \A x \in rows : x \in job[j].old \/ x.by = j
    /\ \A x \in job[j].old : x.by # j
    /\ ~job[j].lost => \A p \in Parts \ job[j].todo : [part |-> p, by |-> j] \in rows

\* What holds in each regime.
Regimes ==
  /\ Typed /\ RunShape
  /\ Single => EndInv /\ BackfillOnly /\ OneRequest
  /\ Sheltered => SoleInv

\* A session with one rerun at most has a single end.
LEMMA AloneIsSingle == Alone => Single
BY DEF Alone, Single, Sheltered, Never

\* A session with one rerun at most had no more before.
LEMMA AloneBefore ==
  ASSUME Typed, Next, Alone'
  PROVE  Alone
<1>1. {"regenerate"} \in SUBSET Events /\ {"process"} \in SUBSET Events /\ {"stt", "gone"} \in SUBSET Events
      /\ "end" \in Events /\ "process" \in Events
  BY DEF Events, Verbs
<1>2. /\ budget'["end"] >= budget["end"] /\ budget["end"] \in Nat /\ budget'["end"] \in Nat
      /\ budget'["process"] >= budget["process"] /\ budget["process"] \in Nat /\ budget'["process"] \in Nat
  BY <1>1, BudgetGrows DEF Typed
<1>3. Never({"regenerate"}) /\ budget["end"] <= 1
  BY <1>1, <1>2, NeverBefore DEF Alone
<1>4. CASE Sheltered'
  BY <1>3, <1>4, ShelteredBefore DEF Alone
<1>5. CASE Never({"process"})'
  BY <1>1, <1>3, <1>5, NeverBefore DEF Alone
<1>6. CASE Never({"stt", "gone"})' /\ budget'["process"] <= 1
  BY <1>1, <1>2, <1>3, <1>6, NeverBefore DEF Alone
<1> QED BY <1>4, <1>5, <1>6 DEF Alone

\* In these regimes one run at most transcribes again.
LEMMA OneRedo ==
  ASSUME Regimes, Alone
  PROVE  \A i, j \in Jobs : Redoing(i) /\ Redoing(j) => i = j
<1>1. Single /\ BackfillOnly /\ OneRequest
  BY AloneIsSingle DEF Regimes
<1>2. CASE Sheltered
  <2>1. RunAlone
    BY <1>2 DEF Regimes, SoleInv
  <2> QED BY <2>1 DEF RunAlone, Redoing, Redo
<1>3. CASE Never({"process"})
  BY <1>1, <1>3 DEF BackfillOnly, Regimes, RunShape
<1>4. CASE Never({"stt", "gone"}) /\ budget["process"] <= 1
  <2>1. Never({"stt"})
    BY <1>4 DEF Never
  <2> QED BY <1>1, <1>4, <2>1 DEF OneRequest
<1> QED BY <1>2, <1>3, <1>4 DEF Alone

\* Every regime keeps its invariant.
LEMMA RegimesStep ==
  ASSUME Regimes, Next
  PROVE  Regimes'
<1>1. Typed' /\ RunShape'
  BY TypedStep, RunShapeStep DEF Regimes
<1>2. ASSUME Single' PROVE EndInv' /\ BackfillOnly' /\ OneRequest'
  <2>1. Single /\ EndInv /\ BackfillOnly /\ OneRequest
    BY <1>2, SingleBefore DEF Regimes
  <2>2. EndInv'
    BY <1>2, <2>1, EndStep DEF Regimes
  <2>3. BackfillOnly'
    BY <2>1, BackfillOnlyStep DEF EndInv, Regimes
  <2>4. OneRequest'
    BY <1>2, <2>1, OneRequestStep DEF Regimes
  <2> QED BY <2>2, <2>3, <2>4
<1>3. Sheltered' => SoleInv'
  BY SoleStep DEF Regimes
<1> QED BY <1>1, <1>2, <1>3 DEF Regimes

\* Every step keeps the rerun's rows apart.
LEMMA RowStep ==
  ASSUME Regimes, Next, Alone => RowInv
  PROVE  Alone' => RowInv'
<1> SUFFICES ASSUME Alone' PROVE RowInv'
  OBVIOUS
<1>1. Typed /\ RunShape /\ RowTypes /\ JobTypes /\ budget \in [Events -> Nat]
  BY DEF Regimes, Typed
<1>2. Alone /\ RowInv /\ Single /\ EndInv
  BY <1>1, AloneBefore, AloneIsSingle DEF Regimes
<1>3. \A i, j \in Jobs : Redoing(i) /\ Redoing(j) => i = j
  BY <1>2, OneRedo
<1>4. ASSUME NEW j \in Jobs, Run(j) PROVE RowInv'
  <2>1. RunGoes(j)
    BY <1>1, <1>4, RunCase
  <2>2. CASE /\ rows' = rows /\ job[j].st \notin {"rerun", "settle"}
             /\ job'[j].st \notin {"rerun", "settle"}
    BY <1>2, <2>1, <2>2 DEF RowInv, RunGoes
  <2>3. CASE RerunWrites(j)
    <3>1. \A i \in Jobs : i # j => job'[i] = job[i] /\ job[i].st \notin {"rerun", "settle"}
      <4>1. Redoing(j)
        BY <2>3 DEF RerunWrites, Redoing, Redo
      <4>2. \A i \in Jobs : job[i].st \in {"rerun", "settle"} => Redoing(i)
        BY DEF Redoing, Redo
      <4> QED BY <1>3, <2>1, <4>1, <4>2 DEF RunGoes
    <3> SUFFICES ASSUME job'[j].st \in {"rerun", "settle"}
                 PROVE  /\ \A x \in rows' : x \in job'[j].old \/ x.by = j
                        /\ \A x \in job'[j].old : x.by # j
                        /\ ~job'[j].lost => \A p \in Parts \ job'[j].todo : [part |-> p, by |-> j] \in rows'
      BY <3>1 DEF RowInv
    <3>2. CASE /\ job[j].st = "select" /\ job'[j].st = "rerun" /\ rows' = rows
               /\ job'[j].old = rows /\ job'[j].todo = Parts
      BY <1>1, <3>2 DEF RunShape
    <3>3. CASE /\ job[j].st = "rerun" /\ job'[j].old = job[j].old
               /\ \E p \in job[j].todo :
                    /\ job'[j].todo = job[j].todo \ {p}
                    /\ \/ rows' = rows \cup {[part |-> p, by |-> j]} /\ job'[j].lost = job[j].lost
                       \/ rows' = rows /\ job'[j].lost = TRUE
      <4>1. /\ \A x \in rows : x \in job[j].old \/ x.by = j
            /\ \A x \in job[j].old : x.by # j
            /\ ~job[j].lost => \A p \in Parts \ job[j].todo : [part |-> p, by |-> j] \in rows
        BY <1>2, <3>3 DEF RowInv
      <4>2. PICK p \in job[j].todo :
              /\ job'[j].todo = job[j].todo \ {p}
              /\ \/ rows' = rows \cup {[part |-> p, by |-> j]} /\ job'[j].lost = job[j].lost
                 \/ rows' = rows /\ job'[j].lost = TRUE
        BY <3>3
      <4>3. [part |-> p, by |-> j].by = j
        OBVIOUS
      <4>4. CASE rows' = rows \cup {[part |-> p, by |-> j]} /\ job'[j].lost = job[j].lost
        BY <3>3, <4>1, <4>2, <4>3, <4>4
      <4>5. CASE rows' = rows /\ job'[j].lost = TRUE
        BY <3>3, <4>1, <4>2, <4>5
      <4> QED BY <4>2, <4>4, <4>5
    <3>4. CASE /\ job[j].st = "rerun" /\ rows' = rows /\ job[j].todo = {} /\ job'[j].old = job[j].old
               /\ job'[j].todo = {} /\ job'[j].lost = job[j].lost
      BY <1>2, <3>4 DEF RowInv
    <3> QED BY <2>3, <3>2, <3>3, <3>4 DEF RerunWrites
  <2> QED BY <1>1, <1>4, <2>2, <2>3, RerunCase
<1>5. CASE ~\E j \in Jobs : Run(j)
  <2>1. Registered /\ ((rows' = rows) \/ Shutdown \/ \E p \in Parts : Transcribe(p))
    BY <1>1, <1>5, RegisterCase
  <2>2. CASE Shutdown
    <3>1. \A j \in Jobs : job'[j].st \in {"unused", "over"}
      BY <2>2, GoneCase DEF Shutdown, Regimes, Typed
    <3> QED BY <3>1 DEF RowInv
  <2>3. ASSUME NEW p \in Parts, Transcribe(p) PROVE RowInv'
    <3>1. Alive /\ job' = job
      BY <2>3 DEF Transcribe, PipelineRuns, Alive, jobVars
    <3>2. \A j \in Jobs : job[j].st = "unused"
      BY <1>2, <3>1 DEF EndInv, LiveAlone
    <3> QED BY <3>1, <3>2 DEF RowInv
  <2>4. CASE rows' = rows
    <3>1. \A j \in Jobs : job'[j].st \in {"rerun", "settle"} => job'[j] = job[j]
      BY <2>1 DEF Registered
    <3> QED BY <1>2, <2>4, <3>1 DEF RowInv
  <2> QED BY <2>1, <2>2, <2>3, <2>4
<1> QED BY <1>4, <1>5
\* A step next to which the rerun's rows are apart takes no part's last row.
LEMMA SpeechStep ==
  ASSUME Regimes, Next, Alone, RowInv
  PROVE  SpeechKept
<1>1. Typed /\ RunShape /\ RowTypes /\ JobTypes /\ budget \in [Events -> Nat] /\ rows \subseteq Row
  BY DEF Regimes, Typed, RowTypes
<1>2. ASSUME NEW x \in rows, x \in rows' PROVE \E y \in rows' : y.part = x.part
  BY <1>2
<1>3. ASSUME NEW j \in Jobs, Run(j) PROVE SpeechKept
  <2>1. CASE rows \subseteq rows'
    BY <1>2, <2>1 DEF SpeechKept
  <2>2. CASE job[j].st = "settle" /\ job[j].lost /\ rows' = rows \cap job[j].old
    <3>1. j \in Rerunning
      BY <2>2 DEF Rerunning
    <3>2. \A x \in rows : x \in rows' \/ x.by = j
      BY <2>2 DEF RowInv
    <3> QED BY <1>2, <3>1, <3>2 DEF SpeechKept
  <2>3. CASE job[j].st = "settle" /\ ~job[j].lost /\ rows' = rows \ job[j].old
    <3>1. job[j].todo = {} /\ \A p \in Parts : [part |-> p, by |-> j] \in rows
      BY <1>1, <2>3 DEF RowInv, RunShape
    <3>2. \A x \in job[j].old : x.by # j
      BY <2>3 DEF RowInv
    <3>3. \A p \in Parts : [part |-> p, by |-> j] \in rows'
      <4>1. \A p \in Parts : [part |-> p, by |-> j].by = j
        OBVIOUS
      <4> QED BY <2>3, <3>1, <3>2, <4>1
    <3>4. ASSUME NEW x \in rows PROVE \E y \in rows' : y.part = x.part
      <4>1. x.part \in Parts
        BY <1>1 DEF Row
      <4>2. [part |-> x.part, by |-> j] \in rows' /\ [part |-> x.part, by |-> j].part = x.part
        BY <3>3, <4>1
      <4> QED BY <4>2
    <3> QED BY <3>4 DEF SpeechKept
  <2> QED BY <1>1, <1>3, <2>1, <2>2, <2>3, RerunCase DEF RerunWrites
<1>4. CASE ~\E j \in Jobs : Run(j)
  <2>1. (rows' = rows) \/ Shutdown \/ \E p \in Parts : Transcribe(p)
    BY <1>1, <1>4, RegisterCase
  <2>2. CASE Shutdown
    <3>1. ASSUME NEW x \in rows, x \notin rows' PROVE x.by \in Rerunning
      <4>1. PICK j \in Jobs : job[j].st = "rerun" /\ x \notin job[j].old
        BY <2>2, <3>1 DEF Shutdown
      <4>2. x.by = j
        BY <4>1 DEF RowInv
      <4> QED BY <4>1, <4>2 DEF Rerunning
    <3> QED BY <1>2, <3>1 DEF SpeechKept
  <2>3. CASE rows \subseteq rows'
    BY <1>2, <2>3 DEF SpeechKept
  <2>4. ASSUME NEW p \in Parts, Transcribe(p) PROVE rows \subseteq rows'
    BY <2>4 DEF Transcribe
  <2> QED BY <2>1, <2>2, <2>3, <2>4
<1> QED BY <1>3, <1>4

\* Nothing is different after a step that changes nothing.
LEMMA RegimesKept ==
  ASSUME UNCHANGED vars
  PROVE  /\ Regimes => Regimes'
         /\ (Alone => RowInv) => (Alone => RowInv)'
         /\ (Sheltered' <=> Sheltered)
<1>1. (Sheltered' <=> Sheltered) /\ (Single' <=> Single) /\ (Alone' <=> Alone)
  BY DEF vars, Sheltered, Single, Alone, Never
<1>2. Typed => Typed'
  BY DEF vars, Typed, RowTypes, HubTypes, JobTypes, CallTypes
<1>3. RunShape => RunShape'
  BY DEF vars, RunShape
<1>4. EndInv => EndInv'
  BY DEF vars, EndInv, OneEnder, LiveAlone, Alive, Asking, Unasked
<1>5. (BackfillOnly => BackfillOnly') /\ (OneRequest => OneRequest')
  BY DEF vars, BackfillOnly, OneRequest, Redoing, Never
<1>6. SoleInv => SoleInv'
  BY SoleKept DEF vars
<1>7. RowInv => RowInv'
  BY DEF vars, RowInv
<1> QED BY <1>1, <1>2, <1>3, <1>4, <1>5, <1>6, <1>7 DEF Regimes

\* The invariants hold in every behaviour, each under the events it admits.
LEMMA RegimesAlways == Spec => [](Regimes /\ (Alone => RowInv))
<1>1. Init => Regimes /\ RowInv
  <2> SUFFICES ASSUME Init PROVE Regimes /\ RowInv
    OBVIOUS
  <2>1. \A j \in Jobs : job[j].st = "unused" /\ job[j].backfill = FALSE
    BY DEF Init, Unused
  <2>2. RunShape /\ RowInv /\ BackfillOnly
    <3>1. "unused" \notin Redo /\ NoRequest.st = "idle" /\ rows = {} /\ backfill = NoRequest
      BY DEF Redo, NoRequest, Init
    <3> QED BY <2>1, <3>1 DEF RunShape, RowInv, BackfillOnly, Redoing
  <2>3. OneRequest
    <3>1. "unused" \notin Redo /\ \A r \in Clients : request[r].st = "idle"
      BY DEF Redo, NoRequest, Init
    <3> QED BY <2>1, <3>1 DEF OneRequest, Redoing
  <2>4. Typed
    <3>1. JobTypes
      BY RestTyped DEF Init, JobTypes
    <3>2. HubTypes
      BY RestTyped DEF Init, HubTypes
    <3>3. CallTypes
      BY RestTyped DEF Init, CallTypes
    <3> QED BY <3>1, <3>2, <3>3 DEF Init, Typed, RowTypes, Active
  <2> QED BY <2>2, <2>3, <2>4, SoleStarts DEF Regimes
<1>2. Regimes /\ (Alone => RowInv) /\ [Next]_vars => (Regimes /\ (Alone => RowInv))'
  BY RegimesStep, RowStep, RegimesKept
<1> QED BY <1>1, <1>2, PTL DEF Spec

\* "The session's transcript was left as it was": in the regimes in which a rerun is alone, no step
\* of the program takes the last row of a transcribed part away, whatever fails or dies.
THEOREM NothingTranscribedLost == Spec => NoSpeechLostAlone
<1>1. Regimes /\ (Alone => RowInv) /\ [Next]_vars => [Alone => SpeechKept]_vars
  BY SpeechStep
<1> QED BY <1>1, RegimesAlways, PTL DEF Spec, NoSpeechLostAlone

-----------------------------------------------------------------------------
(* The note is that of the transcript *)

Distinct(R) == \A x, y \in R : x.part = y.part => x = y

\* What a run at stage st has in hand.
InHand(j) ==
  /\ job[j].st = "setdone" => rows = {}
  /\ job[j].st = "llm" => job[j].seen = rows
  /\ job[j].st = "written" => note = rows
  /\ job[j].st \in {"rerun", "settle"} =>
       Distinct(job[j].old) /\ job[j].old \subseteq rows /\ (note # {} => job[j].old # {})

NoteInv ==
  /\ status = "done" => note = rows
  /\ note # {} => rows # {}
  /\ (\A j \in Jobs : job[j].st = "unused") => \A x \in rows : x.by = Live
  /\ (\A j \in Jobs : job[j].st \notin {"rerun", "settle"}) => Distinct(rows)
  /\ \A j \in Jobs : InHand(j)

\* Rows by one run differ in their parts.
LEMMA ByOneRun ==
  ASSUME NEW R \in SUBSET Row, NEW b, \A x \in R : x.by = b
  PROVE  Distinct(R)
<1> SUFFICES ASSUME NEW x \in R, NEW y \in R, x.part = y.part PROVE x = y
  BY DEF Distinct
<1>1. x \in Row /\ y \in Row /\ x.by = y.by
  OBVIOUS
<1> QED BY <1>1 DEF Row
\* A step of a run keeps the note that of the transcript.
LEMMA NoteRun ==
  ASSUME Regimes, Next, Sheltered, SoleInv, RowInv, NoteInv, NEW j \in Jobs, Run(j)
  PROVE  NoteInv'
<1>1. Typed /\ RunShape /\ RowTypes /\ JobTypes /\ budget \in [Events -> Nat] /\ rows \subseteq Row
      /\ job[j] \in RunRow
  BY DEF Regimes, Typed, RowTypes, JobTypes
<1>2. RunGoes(j) /\ job[j].st \notin {"unused", "over"}
  BY <1>1, RunCase
<1>3. \A i \in Jobs : i # j => job'[i] = job[i] /\ job[i].st \in {"unused", "over"}
  <2>1. \A i \in Jobs : job[i].st \notin {"unused", "over"} => entry = i
    BY DEF SoleInv, RunAlone
  <2> QED BY <1>2, <2>1 DEF RunGoes
<1>4. pending = FALSE /\ (job[j].st # "tail" => status = "finalizing")
      /\ (job[j].st = "restore" => job[j].restore = "failed")
  BY <1>2 DEF SoleInv, Calm, RunAlone
<1>5. job'[j].st # "unused"
  BY <1>2 DEF RunGoes
<1> SUFFICES /\ status' = "done" => note' = rows'
             /\ note' # {} => rows' # {}
             /\ job'[j].st \notin {"rerun", "settle"} => Distinct(rows')
             /\ InHand(j)'
  <2>1. \A i \in Jobs : i # j => InHand(i)'
    BY <1>3 DEF InHand
  <2> QED BY <1>5, <2>1 DEF NoteInv, Distinct
<1> DEFINE Goal == /\ status' = "done" => note' = rows'
                   /\ note' # {} => rows' # {}
                   /\ job'[j].st \notin {"rerun", "settle"} => Distinct(rows')
                   /\ InHand(j)'
<1>6. /\ note # {} => rows # {}
      /\ status = "done" => note = rows
      /\ job[j].st \notin {"rerun", "settle"} => Distinct(rows)
      /\ InHand(j)
  BY <1>3 DEF NoteInv
<1>7. ASSUME rows' = rows, note' = note, job[j].st \notin {"rerun", "settle"},
             job'[j].st \notin {"setdone", "llm", "written", "rerun", "settle"},
             status' = "done" => status = "done"
      PROVE  Goal
  BY <1>6, <1>7 DEF InHand
<1>8. ASSUME EndRun(j) \/ FindRecording(j) \/ ClearPending(j) PROVE Goal
  <2>1. \E st \in {"note", "select", "restore"} : Goto(j, st)
    BY <1>4, <1>8 DEF EndRun, FindRecording, ClearPending
  <2>2. PICK st \in {"note", "select", "restore"} : Goto(j, st)
    BY <2>1
  <2>3. job'[j].st = st
    BY <1>1, <2>2, GotoCase DEF Stages
  <2>4. rows' = rows /\ note' = note /\ status' = status /\ job[j].st \notin {"rerun", "settle"}
    BY <1>8 DEF EndRun, FindRecording, ClearPending, At, rowVars
  <2> QED BY <1>7, <2>3, <2>4
<1>9. ASSUME EndTail(j) \/ RecordingGone(j) PROVE Goal
  <2>1. rows' = rows /\ note' = note /\ status' = status /\ job[j].st \notin {"rerun", "settle"} /\ Over(j)
    BY <1>9 DEF EndTail, RecordingGone, At, rowVars
  <2>2. job'[j].st = "over"
    BY <1>1, <2>1, OverCase
  <2> QED BY <1>7, <2>1, <2>2
<1>10. ASSUME NoteFails(j) \/ RestoreStatus(j) PROVE Goal
  <2>1. rows' = rows /\ note' = note /\ job[j].st \notin {"rerun", "settle"} /\ Goto(j, "tail")
        /\ status' = "failed"
    BY <1>4, <1>10 DEF NoteFails, RestoreStatus, At, MoveFinalizing
  <2>2. job'[j].st = "tail"
    BY <1>1, <2>1, GotoCase DEF Stages
  <2> QED BY <1>7, <2>1, <2>2
<1>11. ASSUME SetDone(j) PROVE Goal
  <2>1. rows' = rows /\ note' = note /\ job[j].st \in {"setdone", "written"} /\ Goto(j, "tail")
    BY <1>11 DEF SetDone, At
  <2>2. job'[j].st = "tail"
    BY <1>1, <2>1, GotoCase DEF Stages
  <2>3. note = rows
    BY <1>6, <2>1 DEF InHand
  <2> QED BY <1>6, <2>1, <2>2, <2>3 DEF InHand
<1>12. ASSUME ReadTranscript(j) PROVE Goal
  <2>1. rows' = rows /\ note' = note /\ job[j].st = "note" /\ status' = "finalizing"
    BY <1>4, <1>12 DEF ReadTranscript, At
  <2>2. CASE rows = {} /\ Goto(j, "setdone")
    <3>1. job'[j].st = "setdone"
      BY <1>1, <2>2, GotoCase DEF Stages
    <3> QED BY <1>6, <2>1, <2>2, <3>1 DEF InHand
  <2>3. CASE job' = [job EXCEPT ![j].st = "llm", ![j].seen = rows]
    <3> DEFINE new == [job[j] EXCEPT !.st = "llm", !.seen = rows]
    <3>1. new.st = "llm" /\ new.seen = rows
      BY <1>1 DEF RunRow
    <3>2. job' = [job EXCEPT ![j] = new]
      BY <2>3
    <3> HIDE DEF new
    <3>3. job'[j] = new
      BY <1>1, <3>2 DEF JobTypes
    <3> QED BY <1>6, <2>1, <3>1, <3>3 DEF InHand
  <2> QED BY <1>4, <1>12, <2>1, <2>2, <2>3 DEF ReadTranscript
<1>13. ASSUME WriteNote(j) PROVE Goal
  <2>1. rows' = rows /\ note' = job[j].seen /\ job[j].st = "llm" /\ status' = status /\ Goto(j, "written")
    BY <1>13 DEF WriteNote, At, rowVars
  <2>2. job'[j].st = "written"
    BY <1>1, <2>1, GotoCase DEF Stages
  <2>3. note' = rows
    BY <1>6, <2>1 DEF InHand
  <2> QED BY <1>4, <1>6, <2>1, <2>2, <2>3 DEF InHand
<1>14. ASSUME RerunWrites(j), note' = note, status' = status PROVE Goal
  <2>1. status' = "finalizing"
    BY <1>4, <1>14 DEF RerunWrites
  <2>2. CASE job[j].st = "select" /\ job'[j].st = "rerun" /\ rows' = rows /\ job'[j].old = rows
    BY <1>6, <1>14, <2>1, <2>2 DEF InHand
  <2>3. CASE /\ job[j].st = "rerun" /\ job'[j].st \in {"rerun", "settle"} /\ job'[j].old = job[j].old
             /\ rows \subseteq rows'
    BY <1>6, <1>14, <2>1, <2>3 DEF InHand
  <2>4. CASE job[j].st = "settle" /\ job[j].lost /\ job'[j].st = "restore" /\ rows' = rows \cap job[j].old
    <3>1. rows' = job[j].old /\ Distinct(job[j].old) /\ (note # {} => job[j].old # {})
      BY <1>6, <2>4 DEF InHand
    <3> QED BY <1>14, <2>1, <2>4, <3>1 DEF InHand
  <2>5. CASE job[j].st = "settle" /\ ~job[j].lost /\ job'[j].st = "clear" /\ rows' = rows \ job[j].old
    <3>1. /\ \A x \in rows : x \in job[j].old \/ x.by = j
          /\ \A x \in job[j].old : x.by # j
          /\ \A p \in Parts : [part |-> p, by |-> j] \in rows
      BY <1>1, <2>5 DEF RowInv, RunShape
    <3>2. rows' \subseteq Row /\ \A x \in rows' : x.by = j
      BY <1>1, <2>5, <3>1
    <3>3. Distinct(rows')
      BY <3>2, ByOneRun
    <3>4. ASSUME note # {} PROVE rows' # {}
      <4>1. PICK x \in job[j].old : TRUE
        BY <1>6, <2>5, <3>4 DEF InHand
      <4>2. x.part \in Parts
        BY <1>1, <4>1 DEF RunRow, Row
      <4>3. [part |-> x.part, by |-> j] \in rows /\ [part |-> x.part, by |-> j].by = j
        BY <3>1, <4>2
      <4>4. [part |-> x.part, by |-> j] \in rows'
        BY <2>5, <3>1, <4>3
      <4> QED BY <4>4
    <3> QED BY <1>14, <2>1, <2>5, <3>3, <3>4 DEF InHand
  <2> QED BY <1>14, <2>2, <2>3, <2>4, <2>5 DEF RerunWrites
<1>15. ASSUME SelectOld(j) \/ RerunFinish(j) \/ RerunSettle(j) \/ \E p \in Parts : RerunPart(j, p) \/ RerunLost(j, p)
       PROVE  Goal
  <2>1. note' = note /\ status' = status
    BY <1>15 DEF SelectOld, RerunFinish, RerunSettle, RerunPart, RerunLost, rowVars
  <2>2. RerunWrites(j)
    <3>1. job[j].st \in {"rerun", "settle"} \/ SelectOld(j)
      BY <1>15 DEF RerunFinish, RerunSettle, RerunPart, RerunLost, At
    <3>2. SelectOld(j) => job'[j].st = "rerun"
      BY <1>1 DEF SelectOld, JobTypes, RunRow
    <3> QED BY <1>1, <3>1, <3>2, RerunCase
  <2> QED BY <1>14, <2>1, <2>2
<1> QED BY <1>8, <1>9, <1>10, <1>11, <1>12, <1>13, <1>15 DEF Run

\* Every step of the sheltered regime keeps the note that of the transcript.
LEMMA NoteStep ==
  ASSUME Regimes, Next, Alone => RowInv, Sheltered => NoteInv
  PROVE  Sheltered' => NoteInv'
<1> SUFFICES ASSUME Sheltered' PROVE NoteInv'
  OBVIOUS
<1>1. Typed /\ RowTypes /\ HubTypes /\ JobTypes /\ CallTypes /\ rows \subseteq Row
  BY DEF Regimes, Typed, RowTypes
<1>2. Sheltered /\ SoleInv /\ NoteInv
  BY <1>1, ShelteredBefore DEF Regimes
<1>3. RowInv
  BY <1>2 DEF Alone, Sheltered, Never
<1>4. /\ ~Crash /\ ~Shutdown /\ ~ProducerGone /\ ~Restart /\ ~Backfill
      /\ \A p \in Parts : ~TranscribeFails(p)
  BY <1>1, <1>2, ShelteredSteps
<1>5. ASSUME NEW j \in Jobs, Run(j) PROVE NoteInv'
  BY <1>2, <1>3, <1>5, NoteRun
<1>6. ASSUME NEW p \in Parts, Transcribe(p) PROVE NoteInv'
  <2>1. rows' = rows \cup {[part |-> p, by |-> Live]} /\ UNCHANGED <<status, note, job>>
    BY <1>6 DEF Transcribe, rowVars, jobVars
  <2>2. ~Ended
    BY <1>6 DEF Transcribe, PipelineRuns, Ended
  <2>3. Unstarted /\ status # "done"
    BY <1>2, <2>2 DEF SoleInv, Phases, Streaming, DrainedBy
  <2>4. /\ \A j \in Jobs : job'[j].st = "unused"
        /\ note' = {} /\ status' # "done"
    BY <2>1, <2>3 DEF Unstarted
  <2>5. rows' \subseteq Row /\ \A x \in rows' : x.by = Live
    <3>1. [part |-> p, by |-> Live] \in Row /\ [part |-> p, by |-> Live].by = Live
      BY DEF Row, Live
    <3>2. \A x \in rows : x.by = Live
      BY <1>2, <2>3 DEF NoteInv, Unstarted
    <3> QED BY <1>1, <2>1, <3>1, <3>2
  <2>6. Distinct(rows')
    BY <2>5, ByOneRun
  <2>7. \A j \in Jobs : InHand(j)'
    BY <2>4 DEF InHand
  <2> QED BY <2>4, <2>5, <2>6, <2>7 DEF NoteInv, Distinct
<1>7. CASE ~(\E j \in Jobs : Run(j)) /\ ~\E p \in Parts : Transcribe(p)
  <2>1. Registered /\ rows' = rows
    BY <1>1, <1>4, <1>7, RegisterCase
  <2>2. note' = note /\ (status' = "done" => status = "done")
    <3>1. CASE \E e \in Enders : EndMark(e) \/ Ending(e)
      BY <3>1 DEF EndMark, Ending, EndTake, EndReturn, rowVars
    <3>2. ASSUME NEW r \in Clients, Handle(r) \/ \E v \in Verbs : Submit(r, v)
          PROVE  note' = note /\ (status' = "done" => status = "done")
      BY <3>2 DEF Handle, Submit, Acquire, ReopenRead, ReopenCas, StartJob, requestVars, rowVars
    <3>3. CASE Sweep
      BY <3>3 DEF Sweep, DeleteRead, DeleteCommit, RestoreSession, SoftDeleteDue, PurgeSelect,
         PurgeUnlink, AudioLost, sweepFrame
    <3>4. CASE Age
      BY <3>4 DEF Age
    <3> QED BY <1>4, <1>7, <3>1, <3>2, <3>3, <3>4 DEF Next, Pipeline
  <2>3. \A j \in Jobs : \/ job'[j] = job[j]
                        \/ job[j].st = "unused" /\ job'[j].st \in {"ending", "note", "queued"}
                        \/ job'[j].st \in {"unused", "over"} /\ (job'[j].st = "unused" => job[j].st = "unused")
    BY <2>1 DEF Registered
  <2>4. \A j \in Jobs : InHand(j)'
    BY <1>2, <2>1, <2>2, <2>3 DEF NoteInv, InHand
  <2>5. (\A j \in Jobs : job'[j].st = "unused") => \A j \in Jobs : job[j].st = "unused"
    BY <2>3
  <2>6. ASSUME \A j \in Jobs : job'[j].st \notin {"rerun", "settle"}
        PROVE  \A j \in Jobs : job[j].st \notin {"rerun", "settle"}
    <3>1. UNCHANGED job \/ \E j \in Jobs : job[j].st = "unused" /\ \A i \in Jobs : i # j => job'[i] = job[i]
      <4>1. ~Crash /\ ~Shutdown
        BY <1>4
      <4>2. CASE \E e \in Enders : EndMark(e) \/ EndTake(e)
        BY <4>2 DEF EndMark, EndTake, jobVars
      <4>3. ASSUME NEW e \in Enders, EndReturn(e)
            PROVE  UNCHANGED job \/ \E j \in Jobs : job[j].st = "unused" /\ \A i \in Jobs : i # j => job'[i] = job[i]
        <5>1. ASSUME NEW j \in Jobs, Track(j, "ending", "done", FALSE)
              PROVE  job[j].st = "unused" /\ \A i \in Jobs : i # j => job'[i] = job[i]
          BY <1>1, <5>1, PlainTrack
        <5> QED BY <4>3, <5>1 DEF EndReturn, jobVars
      <4>4. ASSUME NEW r \in Clients, Handle(r) \/ \E v \in Verbs : Submit(r, v)
            PROVE  UNCHANGED job \/ \E j \in Jobs : job[j].st = "unused" /\ \A i \in Jobs : i # j => job'[i] = job[i]
        <5>1. StartJob(r) => \E j \in Jobs : Started(j, r)
          BY <1>1, StartCase
        <5> QED BY <4>4, <5>1 DEF Handle, Submit, Acquire, ReopenRead, ReopenCas, jobVars, Started
      <4>5. CASE Sweep
        <5>1. UNCHANGED sweepFrame
          BY <4>5 DEF Sweep, DeleteRead, DeleteCommit, RestoreSession, SoftDeleteDue, PurgeSelect,
             PurgeUnlink, AudioLost
        <5> QED BY <5>1 DEF sweepFrame, jobVars
      <4>6. CASE Age
        BY <4>6 DEF Age, jobVars
      <4> QED BY <1>4, <1>7, <4>2, <4>3, <4>4, <4>5, <4>6 DEF Next, Pipeline, Ending
    <3> QED BY <2>6, <3>1
  <2> QED BY <1>2, <2>1, <2>2, <2>4, <2>5, <2>6 DEF NoteInv, Distinct
<1> QED BY <1>5, <1>6, <1>7

\* The transcript is what is at hand when nothing works on the session.
LEMMA NoteSound ==
  ASSUME Sheltered => NoteInv
  PROVE  NoteMatchesTranscript /\ TranscriptOnce
<1>1. NoteMatchesTranscript
  BY DEF NoteMatchesTranscript, NoteOfTranscript, NoteInv
<1>2. TranscriptOnce
  <2> SUFFICES ASSUME Sheltered, Quiet PROVE \A x, y \in rows : x.part = y.part => x = y
    BY DEF TranscriptOnce
  <2>1. \A j \in Jobs : job[j].st \notin {"rerun", "settle"}
    BY DEF Quiet, Working
  <2> QED BY <2>1 DEF NoteInv, Distinct
<1> QED BY <1>1, <1>2

\* A finished session has one transcript and the note of exactly that transcript, however requests,
\* reruns that fail half-way, deletions and purges interleave.
THEOREM OneTranscriptItsNote == Spec => []TranscriptSound
<1>1. Init => (Sheltered => NoteInv)
  <2> SUFFICES ASSUME Init PROVE NoteInv
    OBVIOUS
  <2>1. \A j \in Jobs : job[j].st = "unused"
    BY DEF Init, Unused
  <2> QED BY <2>1 DEF Init, NoteInv, InHand, Distinct
<1>2. /\ Regimes /\ (Alone => RowInv) /\ (Sheltered => NoteInv) /\ [Next]_vars
      => (Sheltered => NoteInv)'
  <2> SUFFICES ASSUME Regimes, Alone => RowInv, Sheltered => NoteInv, [Next]_vars
               PROVE  Sheltered' => NoteInv'
    OBVIOUS
  <2>1. CASE Next
    BY <2>1, NoteStep
  <2>2. CASE UNCHANGED vars
    <3>1. Sheltered' <=> Sheltered
      BY <2>2, RegimesKept
    <3>2. NoteInv => NoteInv'
      BY <2>2 DEF vars, NoteInv, InHand, Distinct
    <3> QED BY <3>1, <3>2
  <2> QED BY <2>1, <2>2
<1>3. Regimes /\ (Sheltered => NoteInv) => TranscriptSound
  BY NoteSound, TypesHold DEF Regimes, TranscriptSound
<1> QED BY <1>1, <1>2, <1>3, RegimesAlways, PTL DEF Spec
=============================================================================
