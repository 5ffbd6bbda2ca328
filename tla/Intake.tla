------------------------------- MODULE Intake -------------------------------
(***************************************************************************)
(* How a proposal of the live copilot or of a spoken request enters one    *)
(* session's review queue: what it cites must have been said, what the     *)
(* queue knows is not proposed again, and only so many may be open.  The   *)
(* process keeps a ProposalState beside the rows, rebuilt from them when   *)
(* it has none.  A proposal is what it says and the date it names; rows    *)
(* and known proposals are sets, as their refs give their order.           *)
(***************************************************************************)
EXTENDS Naturals, Sequences, SequencesExt, FiniteSets, FiniteSetsExt

CONSTANTS Producers, MaxNew, MaxOpen

ASSUME IntakeBounds == MaxNew \in Nat /\ MaxOpen \in Nat
\* The two that propose, and what holds the lock when neither does.
ASSUME ProducersNamed == {"copilot", "voice"} \subseteq Producers /\ "free" \notin Producers

VARIABLES
  queue,   \* the rows of action_proposals
  states,  \* the process's ProposalState: known proposals and the next ref; or none
  lock,    \* who is proposing
  door     \* each producer's proposal on its way

intakeVars == <<queue, states, lock, door>>

NoState == [known |-> {}, next |-> 0]
NoDoor == [pc |-> "idle", incoming |-> <<>>, backed |-> {}, said |-> "no", loads |-> FALSE, rows |-> {}, admitted |-> {}]
IntakeInit == queue = {} /\ states = NoState /\ lock = "free" /\ door = [p \in Producers |-> NoDoor]

-----------------------------------------------------------------------------
\* Nothing is proposed that no line of the transcript backs: those of a batch that go on.
Ground(incoming, lines) == {i \in DOMAIN incoming : incoming[i].cites \in lines}

\* build_payload: what the kind asks for is there, and a date, a path or a repository it names will do.
Presentable(p) == p.valid
Key(p) == <<p.what, p.when>>
OpenOnes(known) == {k \in known : k.open}

\* A repeat of a stored one: what it says is the same, and so is its date, unless the speaker
\* named none.
AddsNothing(p, stored, said) ==
  p.what = stored.what /\ (p.when \in {"none", stored.when} \/ said = "no date")

\* One proposal of a batch: it is admitted if it is valid, new, and there is room for it.
ApplyOne(st, p, said) ==
  LET known == st.state.known
      new == [ref |-> st.state.next, what |-> p.what, when |-> p.when, open |-> TRUE]
  IN  IF \/ Cardinality(st.admitted) >= MaxNew \/ Cardinality(OpenOnes(known)) >= MaxOpen
         \/ ~Presentable(p)
         \/ \E k \in known : Key(k) = Key(p) \/ (said # "no" /\ AddsNothing(p, k, said))
      THEN st
      ELSE [state |-> [known |-> known \cup {new}, next |-> st.state.next + 1], admitted |-> st.admitted \cup {new}]

\* The batch in its order: what it has come to after each of its proposals.
Apply(state, incoming, backed, said) ==
  LET after[n \in 0..Len(incoming)] ==
        IF n = 0 THEN [state |-> state, admitted |-> {}]
        ELSE IF n \in backed THEN ApplyOne(after[n - 1], incoming[n], said) ELSE after[n - 1]
  IN  after[Len(incoming)]

\* The state an earlier process left.
Restore(rows) == [known |-> rows, next |-> Max({0} \cup {r.ref : r \in rows}) + 1]

-----------------------------------------------------------------------------
(* SessionProposals.propose, step by step *)

Enter(p, incoming, lines, said) ==
  LET backed == Ground(incoming, lines)
  IN  door' = [door EXCEPT ![p] = IF backed = {} THEN [NoDoor EXCEPT !.pc = "done"]
                                  ELSE [NoDoor EXCEPT !.pc = "wait", !.incoming = incoming, !.backed = backed, !.said = said]]

\* A mutant: a proposal does not wait for the one before it.
TakeNoLock(p) ==
  /\ door[p].pc = "wait" /\ lock' = p
  /\ door' = [door EXCEPT ![p].pc = IF states = NoState THEN "load" ELSE "apply"]
  /\ UNCHANGED <<queue, states>>

TakeLock(p) ==
  /\ door[p].pc = "wait" /\ lock = "free" /\ lock' = p
  /\ door' = [door EXCEPT ![p].pc = IF states = NoState THEN "load" ELSE "apply"]
  /\ UNCHANGED <<queue, states>>

LoadRows(p) ==
  /\ door[p].pc = "load"
  /\ door' = [door EXCEPT ![p].pc = "apply", ![p].loads = TRUE, ![p].rows = queue]
  /\ UNCHANGED <<queue, states, lock>>

ApplyIncoming(p) ==
  LET d == door[p]
      done == Apply(IF d.loads THEN Restore(d.rows) ELSE states, d.incoming, d.backed, d.said)
  IN  /\ d.pc = "apply" /\ states' = done.state
      /\ lock' = IF done.admitted = {} THEN "free" ELSE lock
      /\ door' = [door EXCEPT ![p] = [NoDoor EXCEPT !.pc = IF done.admitted = {} THEN "done" ELSE "admit",
                                                    !.admitted = done.admitted]]
      /\ UNCHANGED queue

\* admit: one with the content of a stored row is skipped, and the memory is dropped then.
Admit(p) ==
  LET new == {x \in door[p].admitted : \A row \in queue : Key(row) # Key(x)}
  IN  /\ door[p].pc = "admit" /\ queue' = queue \cup new
      /\ states' = IF new # door[p].admitted THEN NoState ELSE states
      /\ lock' = "free" /\ door' = [door EXCEPT ![p] = [NoDoor EXCEPT !.pc = "done"]]

\* The database refused: nothing is stored, and the memory still counts it.
AdmitFails(p) ==
  /\ door[p].pc = "admit" /\ lock' = "free" /\ door' = [door EXCEPT ![p] = [NoDoor EXCEPT !.pc = "done"]]
  /\ UNCHANGED <<queue, states>>

Propose(p) == TakeLock(p) \/ LoadRows(p) \/ ApplyIncoming(p) \/ Admit(p)

\* The owner reviews a proposal, or it expires: the process's memory is not told.
Review(row) ==
  /\ row.open /\ queue' = (queue \ {row}) \cup {[row EXCEPT !.open = FALSE]}
  /\ UNCHANGED <<states, lock, door>>

\* A new process.
ForgetIntake == states' = NoState /\ lock' = "free" /\ door' = [p \in Producers |-> NoDoor] /\ UNCHANGED queue

-----------------------------------------------------------------------------
(* Properties *)

\* What waits at the door, and who holds the lock.
IntakeTypeOK ==
  /\ lock \in Producers \cup {"free"} /\ states.next \in Nat
  /\ \A p \in Producers : /\ door[p].pc \in {"idle", "wait", "load", "apply", "admit", "done"}
                          /\ Cardinality(door[p].admitted) <= MaxNew /\ door[p].loads \in BOOLEAN
  /\ \A row \in queue : row.open \in BOOLEAN /\ row.ref \in Nat

\* Refs never collide, whoever proposed, past failures and restarts: _state loads under the lock and
\* goes on from the highest ref stored.
RefsUnique == \A a, b \in queue : a.ref = b.ref => a = b

\* At most MAX_OPEN proposals of a session wait for a review, however often the process started anew.
OpenCap == Cardinality(OpenOnes(queue)) <= MaxOpen
=============================================================================
