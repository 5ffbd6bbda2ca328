------------------------------ MODULE MCActions ------------------------------
(***************************************************************************)
(* Small instances of Actions: proposal 1 writes to a repository, proposal *)
(* 2 is a reminder.                                                        *)
(***************************************************************************)
EXTENDS Actions

MCReminders == {2}

\* What happens together, and how often.
Quiet == [e \in Events |-> 0]
EditedTwice == [Quiet EXCEPT !["edit"] = 2, !["failure"] = 1]
Broken == [Quiet EXCEPT !["retry"] = 1, !["failure"] = 1, !["db"] = 1]
Deaths == [Quiet EXCEPT !["retry"] = 1, !["failure"] = 2, !["crash"] = 2]
Batches == [Quiet EXCEPT !["edit"] = 1, !["retry"] = 1, !["failure"] = 1]

MCScenarios == {EditedTwice, Broken, Deaths, Batches}
=============================================================================
