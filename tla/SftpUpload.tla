---------------------------- MODULE SftpUpload ----------------------------
(***************************************************************************)
(* sftp::upload of core/sftp/transfer.rs: several uploads to one remote    *)
(* path, each through a partial file of its own that is verified and then  *)
(* renamed over the target.  What a remote file holds is abstracted to     *)
(* whose bytes they are and whether they are intact.                       *)
(***************************************************************************)
EXTENDS Naturals, FiniteSets

CONSTANTS Upload,     \* concurrent calls of upload for the same remote path
          Prior,      \* what may be at the remote path at first
          MaxBreaks   \* bound on broken connections

None == [by |-> "nobody", is |-> "none"]
Old  == [by |-> "before", is |-> "whole"]

ASSUME UploadAssumption ==
    /\ Prior \subseteq {None, Old} /\ MaxBreaks \in Nat
    /\ Upload \cap {"nobody", "before"} = {}

VARIABLES
    target,      \* the file at the remote path
    partial,     \* partial[u]: .qingzhou-<name>.<uuid>.partial of u
    overwrite,   \* UploadRequest::overwrite
    strategy,    \* what select_verification chose
    pc, result,
    cancelled,   \* the cancellation token of u
    link,        \* FALSE once the connection of u is lost
    breaks,
    history      \* uploads that took a file away from the remote path

vars == <<target, partial, overwrite, strategy, pc, result, cancelled, link,
          breaks, history>>

request == <<overwrite, strategy>>

Files == [by : Upload \cup {"nobody", "before"},
          is : {"none", "cut", "altered", "whole"}]

Policies == {"transport_only", "balanced", "strict"}

SelectVerification(policy, hashAvailable) ==
    IF policy = "transport_only" THEN "size"
    ELSE IF hashAvailable THEN "hash"
    ELSE IF policy = "balanced" THEN "size" ELSE "reread"

Init ==
    /\ target \in Prior
    /\ partial = [u \in Upload |-> None]
    /\ overwrite \in [Upload -> BOOLEAN]
    /\ strategy \in [Upload -> {SelectVerification(p, h) : p \in Policies, h \in BOOLEAN}]
    /\ pc = [u \in Upload |-> "check"]
    /\ result = [u \in Upload |-> "none"]
    /\ cancelled = [u \in Upload |-> FALSE]
    /\ link = [u \in Upload |-> TRUE]
    /\ breaks = 0
    /\ history = {}

Goto(u, p) == pc' = [pc EXCEPT ![u] = p]

\* upload_to_partial returned an error: the partial file is removed next.
Fail(u, why) ==
    /\ Goto(u, "cleanup")
    /\ result' = [result EXCEPT ![u] = why]

-----------------------------------------------------------------------------

\* try_exists of the target before anything is written
CheckTarget(u) ==
    /\ pc[u] = "check" /\ link[u]
    /\ IF target # None /\ ~overwrite[u]
       THEN /\ Goto(u, "done")
            /\ result' = [result EXCEPT ![u] = "exists"]
       ELSE /\ Goto(u, "open")
            /\ UNCHANGED result
    /\ UNCHANGED <<target, partial, request, cancelled, link, breaks, history>>

\* CREATE | TRUNCATE | WRITE on the partial path
OpenPartial(u) ==
    /\ pc[u] = "open" /\ link[u]
    /\ partial' = [partial EXCEPT ![u] = [by |-> u, is |-> "cut"]]
    /\ Goto(u, "write")
    /\ UNCHANGED <<target, request, result, cancelled, link, breaks, history>>

\* The blocks are on the server, intact or not, and the file is closed.
WriteBlocks(u) ==
    /\ pc[u] = "write" /\ link[u]
    /\ \E is \in {"cut", "altered", "whole"} :
          partial' = [partial EXCEPT ![u].is = is]
    /\ Goto(u, "verify")
    /\ UNCHANGED <<target, request, result, cancelled, link, breaks, history>>

\* A request is refused, the local file cannot be read, or the receiver of the
\* events is gone.  (An error of the first check finds no partial to remove.)
RequestFails(u) ==
    /\ pc[u] \in {"check", "open", "write", "verify", "finalize", "remove", "rename"}
    /\ Fail(u, "error")
    /\ UNCHANGED <<target, partial, request, cancelled, link, breaks, history>>

\* Mutant: the size is not looked at.
AcceptsAnySize(s, is, sized) ==
    s \in {"hash", "reread"} => is = "whole"

\* What the size, and the hash where one is compared, lets through; a server
\* may not report a size, which only a hash makes up for.
Accepts(s, is, sized) ==
    /\ s = "size" => sized
    /\ sized => is # "cut"
    /\ s \in {"hash", "reread"} => is = "whole"

Verify(u) ==
    /\ pc[u] = "verify" /\ link[u]
    /\ \E sized \in BOOLEAN :
          IF Accepts(strategy[u], partial[u].is, sized)
          THEN Goto(u, "finalize") /\ UNCHANGED result
          ELSE Fail(u, "integrity")
    /\ UNCHANGED <<target, partial, request, cancelled, link, breaks, history>>

\* Mutant: the token is also watched between the removal and the rename.
SeesCancelAlways(u) == pc[u] \in {"write", "verify", "finalize", "rename"}

\* The token is watched while blocks move and while a hash is computed.
SeesCancel(u) ==
    \/ pc[u] = "write"
    \/ pc[u] = "verify" /\ strategy[u] \in {"hash", "reread"}

CancelSeen(u) ==
    /\ cancelled[u]
    /\ SeesCancel(u)
    /\ Fail(u, "cancelled")
    /\ UNCHANGED <<target, partial, request, cancelled, link, breaks, history>>

-----------------------------------------------------------------------------

\* Mutant: whatever is at the remote path is in the way.
FindTargetAnyway(u) ==
    /\ pc[u] = "finalize" /\ link[u]
    /\ Goto(u, IF target # None THEN "remove" ELSE "rename")
    /\ UNCHANGED <<target, partial, request, result, cancelled, link, breaks, history>>

\* try_exists of the target, only when it may be overwritten
FindTarget(u) ==
    /\ pc[u] = "finalize" /\ link[u]
    /\ Goto(u, IF overwrite[u] /\ target # None THEN "remove" ELSE "rename")
    /\ UNCHANGED <<target, partial, request, result, cancelled, link, breaks, history>>

\* remove_file of the target; another upload may have been faster
RemoveTarget(u) ==
    /\ pc[u] = "remove" /\ link[u]
    /\ IF target = None
       THEN Fail(u, "error") /\ UNCHANGED <<target, history>>
       ELSE /\ target' = None
            /\ history' = history \cup {u}
            /\ Goto(u, "rename")
            /\ UNCHANGED result
    /\ UNCHANGED <<partial, request, cancelled, link, breaks>>

\* SSH_FXP_RENAME refuses a target that exists (external: the SFTP server).
RenameRefused == target # None

Rename(u) ==
    /\ pc[u] = "rename" /\ link[u]
    /\ IF RenameRefused
       THEN Fail(u, "error") /\ UNCHANGED <<target, partial>>
       ELSE /\ target' = partial[u]
            /\ partial' = [partial EXCEPT ![u] = None]
            /\ Goto(u, "done")
            /\ result' = [result EXCEPT ![u] = "ok"]
    /\ UNCHANGED <<request, cancelled, link, breaks, history>>

\* remove_file of the partial path after an error
Cleanup(u) ==
    /\ pc[u] = "cleanup"
    /\ partial' = IF link[u] THEN [partial EXCEPT ![u] = None] ELSE partial
    /\ Goto(u, "done")
    /\ UNCHANGED <<target, request, result, cancelled, link, breaks, history>>

-----------------------------------------------------------------------------

Cancel(u) ==
    /\ pc[u] # "done" /\ ~cancelled[u]
    /\ cancelled' = [cancelled EXCEPT ![u] = TRUE]
    /\ UNCHANGED <<target, partial, request, pc, result, link, breaks, history>>

Breaks(u) ==
    /\ link[u] /\ breaks < MaxBreaks
    /\ link' = [link EXCEPT ![u] = FALSE]
    /\ breaks' = breaks + 1

\* The connection is lost; every request that follows fails.  The first one
\* may still have been carried out: only its answer is lost.
Disconnect(u) ==
    /\ pc[u] \notin {"cleanup", "done"}
    /\ Breaks(u)
    /\ Fail(u, "error")
    /\ UNCHANGED <<target, partial, request, cancelled, history>>

RenameAnswerLost(u) ==
    /\ pc[u] = "rename" /\ ~RenameRefused
    /\ Breaks(u)
    /\ target' = partial[u]
    /\ partial' = [partial EXCEPT ![u] = None]
    /\ Fail(u, "error")
    /\ UNCHANGED <<request, cancelled, history>>

RemoveAnswerLost(u) ==
    /\ pc[u] = "remove" /\ target # None
    /\ Breaks(u)
    /\ target' = None
    /\ history' = history \cup {u}
    /\ Fail(u, "error")
    /\ UNCHANGED <<partial, request, cancelled>>

Proceed(u) ==
    \/ CheckTarget(u) \/ OpenPartial(u) \/ WriteBlocks(u) \/ Verify(u)
    \/ CancelSeen(u) \/ FindTarget(u) \/ RemoveTarget(u) \/ Rename(u) \/ Cleanup(u)

Mishap(u) ==
    \/ RequestFails(u) \/ Disconnect(u) \/ RemoveAnswerLost(u) \/ RenameAnswerLost(u)

AllDone == (\A u \in Upload : pc[u] = "done") /\ UNCHANGED vars

Next == (\E u \in Upload : Proceed(u) \/ Mishap(u) \/ Cancel(u)) \/ AllDone

Spec == Init /\ [][Next]_vars

\* The call keeps being polled and every request is answered or times out.
FairSpec == Spec /\ \A u \in Upload : WF_vars(Proceed(u))

-----------------------------------------------------------------------------

\* Types.
TypeOK ==
    /\ target \in Files
    /\ partial \in [Upload -> Files]
    /\ overwrite \in [Upload -> BOOLEAN]
    /\ strategy \in [Upload -> {"size", "hash", "reread"}]
    /\ pc \in [Upload -> {"check", "open", "write", "verify", "finalize",
                          "remove", "rename", "cleanup", "done"}]
    /\ result \in [Upload -> {"none", "ok", "exists", "error", "integrity",
                              "cancelled"}]
    /\ cancelled \in [Upload -> BOOLEAN]
    /\ link \in [Upload -> BOOLEAN]
    /\ breaks \in 0 .. MaxBreaks
    /\ history \in SUBSET Upload

\* A reader of the remote path never sees a truncated upload, nor an altered one
\* of an upload that compares hashes, whatever fails or runs beside it.
TargetVerified ==
    target.by \in Upload =>
        /\ target.is # "cut"
        /\ strategy[target.by] # "size" => target.is = "whole"

\* A file is taken away from the remote path only by an upload the user let
\* overwrite, although the check at the start is stale when the rename comes.
OnlyOverwriteReplaces ==
    [][target # None /\ target' # target
          => \E u \in Upload : overwrite[u] /\ pc[u] = "remove"]_vars

\* An upload reported as cancelled or as refused by a check has not touched the
\* remote path.
RefusedLeavesTarget ==
    \A u \in Upload :
        result[u] \in {"cancelled", "integrity", "exists"} =>
            u \notin history /\ target.by # u

\* An upload that has returned over a connection that held leaves no partial
\* file behind.
NoLitter ==
    \A u \in Upload : pc[u] = "done" /\ link[u] => partial[u] = None

\* Every upload returns.
EveryUploadReturns == \A u \in Upload : <>(pc[u] = "done")
=============================================================================
