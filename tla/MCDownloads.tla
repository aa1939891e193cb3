---------------------------- MODULE MCDownloads ----------------------------
(***************************************************************************)
(* The two halves of a download for TLC: the pipelined read of one remote  *)
(* file, byte counts scaled down with their order kept; and calls for one  *)
(* destination side by side, which are let go when the pipeline, given an  *)
(* empty file, has ended.  The calls have their own steps for what the     *)
(* pipeline hands over: their blocks come in order and whole.              *)
(***************************************************************************)
EXTENDS DownloadPipeline, SftpDownload

VARIABLE subject

mcVars == <<vars, downloadVars, subject>>

\* packet_len and read_len: absent, below the overhead, small, beyond the cap
SomeLens == {None, 0, 1, 3, 9}

OfPipeline(A) == A /\ UNCHANGED <<downloadVars, subject>>
OfCalls(A) == subject = "calls" /\ pc = "done" /\ A /\ UNCHANGED <<vars, subject>>

MCInit ==
    /\ Init /\ DownloadInit
    /\ \/ /\ subject = "pipeline"
          /\ dest = Absent
          /\ \A d \in Download : good[d] /\ request[d].kind = "backup"
       \/ /\ subject = "calls"
          /\ total = 0 /\ packet = None /\ chunk = DefaultChunk

MCNext ==
    \/ OfPipeline(Step) \/ OfPipeline(Returned)
    \/ subject = "pipeline" /\ OfPipeline(Cancel)
    \/ OfCalls(DownloadNext)

\* The fairness of FairSpec.
MCFairSpec == MCInit /\ [][MCNext]_mcVars /\ WF_mcVars(OfPipeline(Step))
=============================================================================
