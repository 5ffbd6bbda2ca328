--------------------------- MODULE MCSessionJobs ---------------------------
(* SessionJobs with small sets of parts, clients and enders. *)
EXTENDS SessionJobs, TLC

Symmetric == Permutations(Parts) \cup Permutations(Clients) \cup Permutations(Enders)

\* What happens together, and how often.
Ended == [e \in Events |-> IF e = "end" THEN 1 ELSE 0]
Requests == [Ended EXCEPT !["process"] = 3, !["delete"] = 1, !["purge"] = 1, !["rerun"] = 1,
                          !["llm"] = 1]
Restarts == [Ended EXCEPT !["crash"] = 1, !["shutdown"] = 1, !["gone"] = 1, !["aged"] = 1,
                          !["lost"] = 1, !["stt"] = 1, !["rerun"] = 1, !["llm"] = 1]
Rerun == [Ended EXCEPT !["process"] = 1, !["crash"] = 1, !["shutdown"] = 1, !["aged"] = 1,
                       !["rerun"] = 1, !["lost"] = 1, !["llm"] = 1]
TwoEnds == [Ended EXCEPT !["end"] = 2, !["process"] = 1, !["regenerate"] = 1, !["rerun"] = 1]
Outage == [Ended EXCEPT !["end"] = 2, !["regenerate"] = 1, !["gone"] = 1, !["stt"] = 1]
MCScenarios == {Requests, Restarts, Rerun, TwoEnds, Outage}

Recovery == [Ended EXCEPT !["process"] = 1, !["crash"] = 1, !["stt"] = 1, !["rerun"] = 1]
LiveScenarios == {Recovery, [Recovery EXCEPT !["process"] = 0, !["regenerate"] = 1]}

=============================================================================
