------------------------------- MODULE MCWork -------------------------------
(* Dispatch and WorkItems with two items, one repository and few runs. *)
EXTENDS Dispatch

Quiet == [e \in Events |-> 0]
Drafted == [Quiet EXCEPT !["hear"] = 1, !["pass"] = 1, !["upsert"] = 1]

\* What happens together, and how often.
Ideas == [Quiet EXCEPT !["hear"] = 3, !["overtake"] = 2, !["pass"] = 3, !["upsert"] = 2,
                       !["edit"] = 1, !["merge"] = 1, !["llm"] = 1]
Review == [Drafted EXCEPT !["edit"] = 2, !["review"] = 2, !["close"] = 1, !["reopen"] = 1]
Races == [Drafted EXCEPT !["edit"] = 1, !["review"] = 2, !["request"] = 1, !["cancel"] = 1]
Slots == [Drafted EXCEPT !["upsert"] = 2, !["review"] = 2, !["request"] = 2, !["cancel"] = 1]
Failures == [Drafted EXCEPT !["review"] = 1, !["request"] = 2, !["refused"] = 1, !["crash"] = 1]
Lost == [Drafted EXCEPT !["review"] = 1, !["request"] = 2, !["lost"] = 1, !["cancel"] = 1]
Closing == [Drafted EXCEPT !["review"] = 2, !["outside"] = 1, !["mergepr"] = 1, !["reopen"] = 1,
                           !["close"] = 1]
TwoMerged == [Drafted EXCEPT !["review"] = 1, !["outside"] = 2, !["mergepr"] = 2, !["reopen"] = 2]
MCScenarios == {Ideas, Review, Races, Slots, Failures, Lost, Closing, TwoMerged}
=============================================================================
