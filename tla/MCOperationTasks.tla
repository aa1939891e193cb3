-------------------------- MODULE MCOperationTasks --------------------------
(* A batch, or runs of a script, or searches: they share nothing but the    *)
(* bounds, so that their interleavings say nothing more.                    *)
EXTENDS OperationTasks, TLC

Asked == {r \in SearchRuns : step[r] = "idle"}

MCInit ==
    /\ Init
    /\ \/ batch = "queued" /\ script.deleted /\ Asked = {}
       \/ batch = "none" /\ ~script.deleted /\ Asked = {}
       \/ batch = "none" /\ script.deleted /\ Asked = SearchRuns

MCFairSpec == MCInit /\ [][Next]_vars /\ Fairness

=============================================================================
