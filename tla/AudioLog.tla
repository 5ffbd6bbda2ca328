------------------------------ MODULE AudioLog ------------------------------
(***************************************************************************)
(* What the audio path promises, whatever it runs on: each channel of a    *)
(* session is a log.  The client adds frames at its end, the server stores *)
(* them one by one without gaps, and the client only ever learns that      *)
(* stored frames are stored.  Ingest.tla implements this specification.    *)
(***************************************************************************)
EXTENDS Integers

CONSTANT Channels

VARIABLES recorded,   \* recorded[c]: frames the client has recorded
          stored,     \* stored[c]: the seqs the server has indexed
          acked       \* acked[c]: the last seq the client knows to be stored, or -1

logVars == <<recorded, stored, acked>>

Init ==
  /\ recorded = [c \in Channels |-> 0]
  /\ stored = [c \in Channels |-> {}]
  /\ acked = [c \in Channels |-> -1]

Record(c) ==
  /\ recorded' = [recorded EXCEPT ![c] = @ + 1]
  /\ UNCHANGED <<stored, acked>>

\* The next frame of the log is stored: the ones before it are, and it has been recorded.
Store(c) ==
  /\ \E s \in 0..(recorded[c] - 1) :
       /\ stored[c] = 0..(s - 1)
       /\ stored' = [stored EXCEPT ![c] = 0..s]
  /\ UNCHANGED <<recorded, acked>>

\* The client learns of stored frames, on any of its channels.
Learn ==
  /\ acked' \in [Channels -> Int]
  /\ \A c \in Channels :
       \/ acked'[c] = acked[c]
       \/ acked'[c] > acked[c] /\ acked'[c] \in stored[c]
  /\ UNCHANGED <<recorded, stored>>

Next == Learn \/ \E c \in Channels : Record(c) \/ Store(c)

Spec == Init /\ [][Next]_logVars
=============================================================================
