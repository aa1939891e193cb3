------------------------- MODULE SftpUploadProofs -------------------------
(***************************************************************************)
(* For any number of uploads racing for one remote path and any number of  *)
(* lost connections: the path shows only content that passed the           *)
(* verification of its upload, and is cleared only with the user's         *)
(* consent; an upload that is refused leaves no trace there.               *)
(***************************************************************************)
EXTENDS SftpUpload, TLAPS

\* Content that the verification of upload u lets through.
Good(u, is) == is # "cut" /\ (strategy[u] # "size" => is = "whole")

\* From verification to rename the partial file is u's own and verified, and
\* an upload about to remove the target was allowed to.
Prepared ==
    \A u \in Upload :
        /\ pc[u] \in {"write", "verify", "finalize", "remove", "rename"} => partial[u].by = u
        /\ pc[u] \in {"finalize", "remove", "rename"} => Good(u, partial[u].is)
        /\ pc[u] = "remove" => overwrite[u]

UploadInv == TypeOK /\ Prepared /\ TargetVerified

LEMMA InitUpload == Init => UploadInv
<1> SUFFICES ASSUME Init PROVE UploadInv
  OBVIOUS
<1>1. strategy \in [Upload -> {"size", "hash", "reread"}]
  BY DEF Init, SelectVerification
<1>2. target \in Files /\ target.by \notin Upload
  BY UploadAssumption DEF Init, Files, None, Old
<1>3. None \in Files
  BY DEF None, Files
<1>4. TypeOK
  BY <1>1, <1>2, <1>3, UploadAssumption DEF Init, TypeOK
<1>5. QED
  BY <1>2, <1>4 DEF Init, UploadInv, Prepared, TargetVerified

LEMMA NextUpload == UploadInv /\ [Next]_vars => UploadInv'
<1> SUFFICES ASSUME UploadInv, [Next]_vars PROVE UploadInv'
  OBVIOUS
<1> USE DEF UploadInv
<1>0. None \in Files /\ None.by = "nobody" /\ "nobody" \notin Upload
      /\ \A u \in Upload : [by |-> u, is |-> "cut"] \in Files
  BY UploadAssumption DEF None, Files
<1>1. ASSUME NEW u \in Upload, CheckTarget(u) PROVE UploadInv'
  BY <1>1 DEF CheckTarget, Goto, request, TypeOK, Prepared, Good, TargetVerified
<1>2. ASSUME NEW u \in Upload, OpenPartial(u) PROVE UploadInv'
  BY <1>2, <1>0 DEF OpenPartial, Goto, request, TypeOK, Prepared, Good, TargetVerified
<1>3. ASSUME NEW u \in Upload, WriteBlocks(u) PROVE UploadInv'
  <2>1. PICK is \in {"cut", "altered", "whole"} :
           partial' = [partial EXCEPT ![u].is = is]
    BY <1>3 DEF WriteBlocks
  <2>2. partial[u] \in Files /\ partial'[u] = [partial[u] EXCEPT !.is = is]
    BY <2>1 DEF TypeOK
  <2>3. [partial[u] EXCEPT !.is = is] \in Files
        /\ [partial[u] EXCEPT !.is = is].by = partial[u].by
    BY <2>2 DEF Files
  <2>4. \A v \in Upload : v # u => partial'[v] = partial[v]
    BY <2>1 DEF TypeOK
  <2>5. partial' \in [Upload -> Files]
    BY <2>1, <2>2, <2>3 DEF TypeOK
  <2>6. TypeOK'
    BY <1>3, <2>5 DEF WriteBlocks, Goto, request, TypeOK
  <2>7. Prepared' /\ TargetVerified'
    BY <1>3, <2>2, <2>3, <2>4
    DEF WriteBlocks, Goto, request, TypeOK, Prepared, Good, TargetVerified
  <2>8. QED
    BY <2>6, <2>7
<1>4. ASSUME NEW u \in Upload, Verify(u) PROVE UploadInv'
  <2>1. /\ pc[u] = "verify"
        /\ \/ Accepts(strategy[u], partial[u].is, TRUE) /\ Goto(u, "finalize") /\ result' = result
           \/ Accepts(strategy[u], partial[u].is, FALSE) /\ Goto(u, "finalize") /\ result' = result
           \/ Fail(u, "integrity")
        /\ UNCHANGED <<target, partial, request, cancelled, link, breaks, history>>
    BY <1>4 DEF Verify
  <2>2. \A sized \in BOOLEAN : Accepts(strategy[u], partial[u].is, sized)
                                  => Good(u, partial[u].is)
    BY DEF Accepts, Good, TypeOK
  <2>3. CASE Goto(u, "finalize") /\ Good(u, partial[u].is) /\ result' = result
    BY <2>1, <2>3 DEF Goto, request, TypeOK, Prepared, Good, TargetVerified
  <2>4. CASE Fail(u, "integrity")
    BY <2>1, <2>4 DEF Fail, Goto, request, TypeOK, Prepared, Good, TargetVerified
  <2>5. QED
    BY <2>1, <2>2, <2>3, <2>4
<1>5. ASSUME NEW u \in Upload, CancelSeen(u) PROVE UploadInv'
  BY <1>5 DEF CancelSeen, Fail, Goto, request, TypeOK, Prepared, Good, TargetVerified
<1>6. ASSUME NEW u \in Upload, FindTarget(u) PROVE UploadInv'
  BY <1>6 DEF FindTarget, Goto, request, TypeOK, Prepared, Good, TargetVerified
<1>7. ASSUME NEW u \in Upload, RemoveTarget(u) PROVE UploadInv'
  <2>1. CASE target = None
    BY <1>7, <2>1 DEF RemoveTarget, Fail, Goto, request, TypeOK, Prepared, Good, TargetVerified
  <2>2. CASE target # None
    BY <1>7, <2>2, <1>0 DEF RemoveTarget, Goto, request, TypeOK, Prepared, Good, TargetVerified
  <2>3. QED
    BY <2>1, <2>2
<1>8. ASSUME NEW u \in Upload, pc[u] = "rename",
             target' = partial[u], partial' = [partial EXCEPT ![u] = None],
             UNCHANGED <<request, cancelled, history>>,
             link' \in [Upload -> BOOLEAN], breaks' \in 0 .. MaxBreaks,
             NEW p \in {"done", "cleanup"}, NEW r \in {"ok", "error"},
             pc' = [pc EXCEPT ![u] = p], result' = [result EXCEPT ![u] = r]
      PROVE  UploadInv'
  <2>1. TypeOK'
    BY <1>8, <1>0 DEF request, TypeOK
  <2>2. Prepared'
    BY <1>8 DEF request, TypeOK, Prepared, Good
  <2>3. TargetVerified'
    BY <1>8 DEF request, TypeOK, Prepared, Good, TargetVerified
  <2>4. QED
    BY <2>1, <2>2, <2>3
<1>9. ASSUME NEW u \in Upload, Rename(u) PROVE UploadInv'
  <2>1. CASE RenameRefused
    BY <1>9, <2>1 DEF Rename, Fail, Goto, request, TypeOK, Prepared, Good, TargetVerified
  <2>2. CASE ~RenameRefused
    BY <1>9, <2>2, <1>8 DEF Rename, Goto, TypeOK
  <2>3. QED
    BY <2>1, <2>2
<1>10. ASSUME NEW u \in Upload, Cleanup(u) PROVE UploadInv'
  BY <1>10, <1>0 DEF Cleanup, Goto, request, TypeOK, Prepared, Good, TargetVerified
<1>11. ASSUME NEW u \in Upload, RequestFails(u) PROVE UploadInv'
  BY <1>11 DEF RequestFails, Fail, Goto, request, TypeOK, Prepared, Good, TargetVerified
<1>12. ASSUME NEW u \in Upload, Breaks(u)
       PROVE  link' \in [Upload -> BOOLEAN] /\ breaks' \in 0 .. MaxBreaks
  BY <1>12, UploadAssumption DEF Breaks, TypeOK
<1>13. ASSUME NEW u \in Upload, Disconnect(u) PROVE UploadInv'
  <2>1. link' \in [Upload -> BOOLEAN] /\ breaks' \in 0 .. MaxBreaks
    BY <1>13, <1>12 DEF Disconnect
  <2>2. QED
    BY <1>13, <2>1 DEF Disconnect, Fail, Goto, request, TypeOK, Prepared, Good, TargetVerified
<1>14. ASSUME NEW u \in Upload, RemoveAnswerLost(u) PROVE UploadInv'
  <2>1. link' \in [Upload -> BOOLEAN] /\ breaks' \in 0 .. MaxBreaks
    BY <1>14, <1>12 DEF RemoveAnswerLost
  <2>2. QED
    BY <1>14, <2>1, <1>0 DEF RemoveAnswerLost, Fail, Goto, request, TypeOK, Prepared, Good, TargetVerified
<1>15. ASSUME NEW u \in Upload, RenameAnswerLost(u) PROVE UploadInv'
  BY <1>15, <1>12, <1>8 DEF RenameAnswerLost, Fail, Goto
<1>16. ASSUME NEW u \in Upload, Cancel(u) PROVE UploadInv'
  BY <1>16 DEF Cancel, request, TypeOK, Prepared, Good, TargetVerified
<1>17. CASE UNCHANGED vars
  BY <1>17 DEF vars, request, TypeOK, Prepared, Good, TargetVerified
<1>18. QED
  BY <1>1, <1>2, <1>3, <1>4, <1>5, <1>6, <1>7, <1>9, <1>10, <1>11, <1>13, <1>14,
     <1>15, <1>16, <1>17
  DEF Next, Proceed, Mishap, AllDone

LEMMA UploadInvariant == Spec => []UploadInv
  BY InitUpload, NextUpload, PTL DEF Spec

\* The remote path never shows content its upload did not verify
\* (upload_to_partial), with any number of rivals and failures.
THEOREM OnlyVerifiedContent == Spec => []TargetVerified
<1>1. UploadInv => TargetVerified
  BY DEF UploadInv
<1>2. QED
  BY <1>1, UploadInvariant, PTL

\* A file at the remote path is only ever taken away by an upload whose request
\* says overwrite, in its finalizing phase.
THEOREM ConsentBeforeReplace == Spec => OnlyOverwriteReplaces
<1> DEFINE Replace == target # None /\ target' # target
                        => \E u \in Upload : overwrite[u] /\ pc[u] = "remove"
<1>1. UploadInv /\ [Next]_vars => [Replace]_vars
  <2> SUFFICES ASSUME UploadInv, Next, target # None, target' # target
               PROVE  \E u \in Upload : overwrite[u] /\ pc[u] = "remove"
    OBVIOUS
  <2>1. PICK u \in Upload : RemoveTarget(u) \/ RemoveAnswerLost(u)
    BY DEF Next, Proceed, Mishap, AllDone, vars, CheckTarget, OpenPartial,
       WriteBlocks, Verify, CancelSeen, FindTarget, Rename, RenameRefused,
       Cleanup, RequestFails, Disconnect, RenameAnswerLost, Cancel
  <2>2. pc[u] = "remove"
    BY <2>1 DEF RemoveTarget, RemoveAnswerLost
  <2>3. QED
    BY <2>2 DEF UploadInv, Prepared
<1>2. QED
  BY <1>1, UploadInvariant, PTL DEF Spec, OnlyOverwriteReplaces

-----------------------------------------------------------------------------
(* What a refused upload leaves behind.                                    *)

\* An upload that is under way has not decided, and the remote path is not its
\* own; its mark on the path comes after its removal, which is too late for a
\* refusal.  Its partial file is gone when it has returned.
Clean(u) ==
    /\ pc[u] \notin {"cleanup", "done"} => result[u] = "none" /\ target.by # u
    /\ pc[u] \in {"check", "open", "write", "verify", "finalize", "remove"} => u \notin history
    /\ result[u] \in {"cancelled", "integrity", "exists"} => u \notin history /\ target.by # u
    /\ pc[u] = "check" => partial[u] = None
    /\ pc[u] = "done" /\ link[u] => partial[u] = None

CleanInv == \A u \in Upload : Clean(u)

\* A step of u leaves the others alone unless it puts u's file at the path, or
\* takes the file there away.
LEMMA CleanOthers ==
    ASSUME UploadInv, CleanInv, NEW u \in Upload, NEW v \in Upload, v # u,
           Proceed(u) \/ Mishap(u) \/ Cancel(u)
    PROVE  Clean(v)'
<1>1. UNCHANGED <<pc[v], result[v], partial[v], link[v]>>
  BY DEF UploadInv, TypeOK, Proceed, Mishap, CheckTarget, OpenPartial, WriteBlocks, Verify, CancelSeen, FindTarget,
     RemoveTarget, Rename, Cleanup, RequestFails, Disconnect, RemoveAnswerLost, RenameAnswerLost, Cancel, Breaks, Fail, Goto
<1>2. v \in history' => v \in history
  BY DEF Proceed, Mishap, CheckTarget, OpenPartial, WriteBlocks, Verify, CancelSeen, FindTarget,
     RemoveTarget, Rename, Cleanup, RequestFails, Disconnect, RemoveAnswerLost, RenameAnswerLost, Cancel
<1>3. target'.by = v => target.by = v
  <2>1. \/ target' = target \/ target' = None
        \/ target' = partial[u] /\ pc[u] = "rename"
    BY DEF Proceed, Mishap, CheckTarget, OpenPartial, WriteBlocks, Verify, CancelSeen, FindTarget,
       RemoveTarget, Rename, Cleanup, RequestFails, Disconnect, RemoveAnswerLost, RenameAnswerLost, Cancel
  <2>2. None.by # v
    BY UploadAssumption DEF None
  <2>3. pc[u] = "rename" => partial[u].by = u
    BY DEF UploadInv, Prepared
  <2> QED  BY <2>1, <2>2, <2>3
<1> QED  BY <1>1, <1>2, <1>3 DEF CleanInv, Clean

LEMMA CleanSelf ==
    ASSUME UploadInv, CleanInv, NEW u \in Upload, Proceed(u) \/ Mishap(u) \/ Cancel(u)
    PROVE  Clean(u)'
<1>0. /\ Clean(u) /\ pc \in [Upload -> {"check", "open", "write", "verify", "finalize", "remove", "rename", "cleanup", "done"}]
      /\ result \in [Upload -> {"none", "ok", "exists", "error", "integrity", "cancelled"}]
      /\ partial \in [Upload -> Files] /\ link \in [Upload -> BOOLEAN]
      /\ None.by # u
  BY UploadAssumption DEF UploadInv, TypeOK, CleanInv, None
<1>1. CASE CheckTarget(u) \/ OpenPartial(u) \/ FindTarget(u)
  BY <1>0, <1>1 DEF CheckTarget, OpenPartial, FindTarget, Goto, Clean
<1>2. CASE WriteBlocks(u)
  <2>1. pc[u] = "write" /\ pc' = [pc EXCEPT ![u] = "verify"] /\ UNCHANGED <<target, result, history>>
    BY <1>2 DEF WriteBlocks, Goto
  <2> QED  BY <1>0, <2>1 DEF Clean
<1>3. CASE Verify(u) \/ CancelSeen(u)
  <2>1. /\ pc[u] \in {"write", "verify"} /\ UNCHANGED <<target, history>>
        /\ \/ pc' = [pc EXCEPT ![u] = "finalize"] /\ result' = result
           \/ pc' = [pc EXCEPT ![u] = "cleanup"]
    BY <1>3 DEF Verify, CancelSeen, SeesCancel, Fail, Goto
  <2> QED  BY <1>0, <2>1 DEF Clean
<1>4. CASE RequestFails(u) \/ Disconnect(u) \/ RemoveAnswerLost(u) \/ RenameAnswerLost(u)
  <2>1. pc' = [pc EXCEPT ![u] = "cleanup"] /\ result' = [result EXCEPT ![u] = "error"]
    BY <1>4 DEF RequestFails, Disconnect, RemoveAnswerLost, RenameAnswerLost, Fail, Goto
  <2> QED  BY <1>0, <2>1 DEF Clean
<1>5. CASE RemoveTarget(u)
  <2>1. CASE target = None
    BY <1>0, <1>5, <2>1 DEF RemoveTarget, Fail, Goto, Clean
  <2>2. CASE target # None
    <3>1. pc[u] = "remove" /\ target' = None /\ pc' = [pc EXCEPT ![u] = "rename"] /\ result' = result
      BY <1>5, <2>2 DEF RemoveTarget, Goto
    <3> QED  BY <1>0, <3>1 DEF Clean
  <2> QED  BY <2>1, <2>2
<1>6. CASE Rename(u)
  <2>1. CASE RenameRefused
    BY <1>0, <1>6, <2>1 DEF Rename, Fail, Goto, Clean
  <2>2. CASE ~RenameRefused
    BY <1>0, <1>6, <2>2 DEF Rename, Goto, Clean
  <2> QED  BY <2>1, <2>2
<1>7. CASE Cleanup(u)
  BY <1>0, <1>7 DEF Cleanup, Goto, Clean
<1>8. CASE Cancel(u)
  BY <1>0, <1>8 DEF Cancel, Clean
<1> QED
  BY <1>1, <1>2, <1>3, <1>4, <1>5, <1>6, <1>7, <1>8 DEF Proceed, Mishap

LEMMA CleanInvariant == Spec => []CleanInv
<1>1. Init => CleanInv
  BY UploadAssumption DEF Init, CleanInv, Clean, None, Old
<1>2. UploadInv /\ CleanInv /\ [Next]_vars => CleanInv'
  <2> SUFFICES ASSUME UploadInv, CleanInv, [Next]_vars PROVE CleanInv'
    OBVIOUS
  <2>1. CASE UNCHANGED vars
    BY <2>1 DEF vars, CleanInv, Clean
  <2>2. ASSUME NEW u \in Upload, Proceed(u) \/ Mishap(u) \/ Cancel(u) PROVE CleanInv'
    <3> SUFFICES ASSUME NEW v \in Upload PROVE Clean(v)'
      BY DEF CleanInv
    <3> QED  BY <2>2, CleanOthers, CleanSelf
  <2> QED  BY <2>1, <2>2 DEF Next, AllDone
<1> QED  BY <1>1, <1>2, UploadInvariant, PTL DEF Spec

\* An upload that ends as cancelled, with a size or a hash that differs, or
\* because the path was taken has neither removed a file there nor left its
\* own: upload_to_partial looks at the token and compares before upload removes
\* the target and renames the partial file.
THEOREM RefusalsLeaveTheTarget == Spec => []RefusedLeavesTarget
<1>1. CleanInv => RefusedLeavesTarget
  BY DEF CleanInv, Clean, RefusedLeavesTarget
<1> QED  BY <1>1, CleanInvariant, PTL

\* An upload that returned over a connection that held has removed or renamed
\* its partial file, on every path out of upload.
THEOREM ReturnsWithoutLitter == Spec => []NoLitter
<1>1. CleanInv => NoLitter
  BY DEF CleanInv, Clean, NoLitter
<1> QED  BY <1>1, CleanInvariant, PTL
=============================================================================
