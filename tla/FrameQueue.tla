----------------------------- MODULE FrameQueue -----------------------------
(***************************************************************************)
(* What the capture client's outbox promises: each channel is a queue of   *)
(* frames that lasts.  A frame gets the seq after the one before it, and   *)
(* stays, with its payload, until the server has acknowledged it; nothing  *)
(* else changes the queue, the end of the process included.  Outbox.tla    *)
(* implements this specification with files, and the client of Ingest.tla  *)
(* keeps to it.                                                            *)
(***************************************************************************)
EXTENDS Naturals, Sequences

CONSTANTS Channels, Payloads

VARIABLES first,   \* first[c]: the seq after the last one acknowledged
          queue    \* queue[c]: the frames from there on

queueVars == <<first, queue>>

Init == first = [c \in Channels |-> 0] /\ queue = [c \in Channels |-> <<>>]

Record(c) ==
  /\ \E p \in Payloads : queue' = [queue EXCEPT ![c] = Append(@, [seq |-> first[c] + Len(@), payload |-> p])]
  /\ UNCHANGED first

\* Frames from the front of any channels are acknowledged.
Acknowledge ==
  /\ first' \in [Channels -> Nat]
  /\ \A c \in Channels : first[c] <= first'[c] /\ first'[c] <= first[c] + Len(queue[c])
  /\ queue' = [c \in Channels |-> SubSeq(queue[c], first'[c] - first[c] + 1, Len(queue[c]))]

Next == Acknowledge \/ \E c \in Channels : Record(c)

Spec == Init /\ [][Next]_queueVars
=============================================================================
