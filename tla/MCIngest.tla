------------------------------ MODULE MCIngest ------------------------------
(* Ingest.tla for TLC: connections and ingest objects are interchangeable. *)
EXTENDS Ingest, TLC

Identities == Permutations(Conns) \cup Permutations(Gens)

\* Which faults come together, and how often.
Quiet == [f \in Faults |-> 0]
Network == [Quiet EXCEPT !["drop"] = 2, !["crash"] = 1, !["db"] = 1]
Daemon == [Quiet EXCEPT !["drop"] = 1, !["stop"] = 1]
Disk == [Quiet EXCEPT !["ambiguous"] = 1, !["power"] = 1, !["end"] = 1]
Outage == [Quiet EXCEPT !["drop"] = 1, !["crash"] = 1]

MCScenarios == {Network, Daemon, Disk}
LiveScenarios == {Outage}
=============================================================================
