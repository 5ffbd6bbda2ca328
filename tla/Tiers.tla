-------------------------------- MODULE Tiers --------------------------------
(***************************************************************************)
(* The TierPool of stt/tiers.py: Whisper servers in order of preference,   *)
(* a loop that probes them, and the workers that ask them to transcribe.   *)
(* The answers of the servers are a choice at the moment they arrive; a    *)
(* request is in the air while probes come and go.                         *)
(***************************************************************************)
EXTENDS Integers, Sequences, FiniteSetsExt

CONSTANTS TierList,     \* the tiers, the preferred one first
          Askers,       \* the workers that transcribe
          MaxTierEvents \* how often servers come and go, and requests to working ones fail

ASSUME TiersConfigured == TierList \in Seq(STRING) /\ TierList # <<>> /\ MaxTierEvents \in Nat

VARIABLES serverUp,   \* which servers work
          healthy,    \* _healthy
          exhausted,  \* _exhausted: every tier failed since the last probe
          answering,  \* _answering: a tier answered the last probe
          fault,      \* _fault: "none", "once" or "lasting"
          asks,       \* the tiers each worker still has to try, by their places
          probe,      \* the answers a probe has collected
          tierEvents

tierVars == <<serverUp, healthy, exhausted, answering, fault, asks, probe, tierEvents>>

TierNames == {TierList[i] : i \in DOMAIN TierList}
NotAsking == [on |-> FALSE, left |-> {}]
NotProbing == [on |-> FALSE, ok |-> {}]

\* A server comes or goes.
ServerChanges ==
  /\ tierEvents < MaxTierEvents /\ tierEvents' = tierEvents + 1
  /\ \E t \in TierNames : serverUp' = IF t \in serverUp THEN serverUp \ {t} ELSE serverUp \cup {t}
  /\ UNCHANGED <<healthy, exhausted, answering, fault, asks, probe>>

\* probe_all asks the tiers at once and takes the answers when it has them all.
Probe ==
  /\ ~probe.on /\ probe' = [on |-> TRUE, ok |-> serverUp]
  /\ UNCHANGED <<serverUp, healthy, exhausted, answering, fault, asks, tierEvents>>

Probed ==
  /\ probe.on /\ probe' = NotProbing
  /\ healthy' = probe.ok /\ exhausted' = FALSE /\ answering' = (probe.ok # {})
  /\ fault' = IF probe.ok = {} THEN "none" ELSE fault
  /\ UNCHANGED <<serverUp, asks, tierEvents>>

\* transcribe: the healthy tiers in order; without any, all of them, once per probe.
Transcribe(a) ==
  /\ ~asks[a].on /\ (healthy # {} \/ ~exhausted)
  /\ asks' = [asks EXCEPT ![a] = [on |-> TRUE, left |-> {i \in DOMAIN TierList : healthy = {} \/ TierList[i] \in healthy}]]
  /\ UNCHANGED <<serverUp, healthy, exhausted, answering, fault, probe, tierEvents>>

\* The tier a worker asks: the first of those it has left.
Preferred(a) == TierList[Min(asks[a].left)]

Answers(a) ==
  /\ asks[a].on /\ Preferred(a) \in serverUp
  /\ asks' = [asks EXCEPT ![a] = NotAsking] /\ fault' = "none"
  /\ UNCHANGED <<serverUp, healthy, exhausted, answering, probe, tierEvents>>

\* The request fails: the tier is taken out and the next is tried; after the last one it is a
\* fault if a tier answered its probe.
Fails(a) ==
  /\ asks[a].on
  /\ \/ Preferred(a) \notin serverUp /\ UNCHANGED tierEvents
     \/ tierEvents < MaxTierEvents /\ tierEvents' = tierEvents + 1
  /\ healthy' = healthy \ {Preferred(a)}
  /\ IF asks[a].left # {Min(asks[a].left)}
     THEN asks' = [asks EXCEPT ![a].left = @ \ {Min(@)}] /\ UNCHANGED <<exhausted, fault>>
     ELSE /\ asks' = [asks EXCEPT ![a] = NotAsking] /\ exhausted' = TRUE
          /\ fault' = IF ~answering THEN fault ELSE IF fault = "none" THEN "once" ELSE "lasting"
  /\ UNCHANGED <<serverUp, answering, probe>>

TierInit ==
  /\ serverUp \in SUBSET TierNames /\ healthy = {} /\ exhausted = FALSE /\ answering = FALSE /\ fault = "none"
  /\ asks = [a \in Askers |-> NotAsking] /\ probe = NotProbing /\ tierEvents = 0

TierNext == ServerChanges \/ Probe \/ Probed \/ \E a \in Askers : Transcribe(a) \/ Answers(a) \/ Fails(a)

----------------------------------------------------------------------------
\* What is known of the tiers is about tiers there are, in their order.
TierTypeOK ==
  /\ serverUp \cup healthy \cup probe.ok \subseteq TierNames /\ {exhausted, answering, probe.on} \subseteq BOOLEAN
  /\ fault \in {"none", "once", "lasting"}
  /\ \A a \in Askers : asks[a].left \subseteq DOMAIN TierList /\ (asks[a].on <=> asks[a].left # {})

\* A fault is reported only while a tier answers its probe, which is what tells it from Whisper
\* being away; requests that were sent before the last probe fail after it.
FaultNotAway == fault # "none" => answering

\* Once the servers stay up, a segment finds a tier again, whatever late failures took out.
TiersRecover == <>[](serverUp = TierNames) => <>[](healthy # {})
=============================================================================
