-------------------------- MODULE MCDataAndUpdates --------------------------
(***************************************************************************)
(* The data root and the updates for TLC: the commands of one or of the    *)
(* other run, as a variable that never changes says.  They meet only in    *)
(* the check for idleness, where DataMigration lets any command that is    *)
(* seen by it ("gated") be under way.                                      *)
(***************************************************************************)
EXTENDS DataMigration, Updates, TLC

VARIABLE subject

mcVars == <<vars, updatesVars, subject>>

OfData(A)    == subject = "data" /\ A /\ UNCHANGED <<updatesVars, subject>>
OfUpdates(A) == subject = "updates" /\ A /\ UNCHANGED <<vars, subject>>

MCInit ==
    /\ Init /\ UpdatesInit
    /\ \/ subject = "data" /\ \A s \in Source : latest[s] = current
       \/ subject = "updates"

MCNext == OfData(Next) \/ OfUpdates(UpdatesNext)

\* The fairness of FairSpec.
MCFairSpec == /\ MCInit /\ [][MCNext]_mcVars
              /\ WF_mcVars(OfData(WorkerStep)) /\ WF_mcVars(OfData(Exit))
=============================================================================
