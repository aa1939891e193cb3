-------------------------- MODULE MCTransferQueue --------------------------
(***************************************************************************)
(* Instances of TransferQueue for TLC.                                     *)
(***************************************************************************)
EXTENDS TransferQueue, TLC

\* Workers are interchangeable; jobs are not (they are ranked).
Symmetry == Permutations(Worker)

\* An upload, or a download checked by size only, and a download that hashes
\* the remote file before it reads it.
RealPlans == {<<"transferring", "verifying", "finalizing">>,
              <<"verifying", "transferring", "verifying", "finalizing">>}

\* For the runs in which only the end of a transfer matters.
OnePhase == {<<"finalizing">>}
=============================================================================
