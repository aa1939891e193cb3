--------------------------- MODULE MCOperationRun ---------------------------
(***************************************************************************)
(* A dangerous operation for TLC: starts and rollbacks are interchangeable;*)
(* and the commands that roll a single thing back from its snapshot.       *)
(***************************************************************************)
EXTENDS OperationRun, SnapshotRollback, TLC

Symmetry == Permutations(Starter) \cup Permutations(Roller)

\* Either the operation is run or the commands of one task are looked at.
MCInit == Init /\ SnapshotInit
MCNext ==
    \/ stage = "idle" /\ Next /\ UNCHANGED snapshotVars
    \/ run = "validating" /\ preview = "begin" /\ open /\ SnapshotNext /\ UNCHANGED vars
MCSpec == MCInit /\ [][MCNext]_<<vars, snapshotVars>>
=============================================================================
