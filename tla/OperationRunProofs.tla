------------------------- MODULE OperationRunProofs -------------------------
(***************************************************************************)
(* Proofs about OperationRun: types, that at most one call works on the    *)
(* server for a run, and that there is a way back, for every number of     *)
(* targets, confirmations, rollbacks and cancellations, failing statements *)
(* and exits.                                                              *)
(*                                                                         *)
(* The argument: a call that has won the transition to                     *)
(* waiting_confirmation or to rolling_back owns the run until it has made  *)
(* its last transition; while it does, the run's status is one that its    *)
(* label names (or cancelled), and from these no other call can win.  So   *)
(* only the owner changes the restore point, its items and the server, and *)
(* what it knows at each label is enough to carry on what they promise.    *)
(***************************************************************************)
EXTENDS OperationRun, TLAPS

\* The labels of an owner, by the status of the run it works under.
BackupLabels == {"backup", "point", "link", "capture", "available", "backed", "unsaved", "giveup",
                 "run"}
RunLabels == {"exec", "work", "record", "skip", "verify"}
VerifyLabels == {"check", "checking", "checked", "result", "succeed"}
RollbackLabels == {"mark", "read", "begin", "reach", "item", "restore", "note", "report", "final"}
OwnLabels == {"waiting", "settle"} \cup BackupLabels \cup RunLabels \cup VerifyLabels
               \cup RollbackLabels

\* Statuses of a run that has been at work; none leads back.
LateStatus == {"succeeded", "failed", "uncertain", "rollback_partial", "rollback_failed",
               "rollback_available", "rolling_back", "rolled_back"}

\* What a call at label l says of the run's status s.
Fits(l, s) ==
    /\ l = "waiting" => s \in {"waiting_confirmation", "cancelled"}
    /\ l \in BackupLabels => s \in {"backing_up", "cancelled"}
    /\ l \in RunLabels => s \in {"running", "cancelled"}
    /\ l \in VerifyLabels => s \in {"verifying", "cancelled"}
    /\ l = "settle" => s \in {"running", "verifying", "cancelled"}
    /\ l \in RollbackLabels => s = "rolling_back"
    /\ l = "offer" => s \in LateStatus

\* What preflight's progress says of the run.
PreviewMatches ==
    /\ preview = "begin" => run \in {"validating", "cancelled"}
    /\ preview \in {"probe", "ready"} => run \in {"preflighting", "cancelled"}

\* After an exit nothing is left of the calls.
Halted == ~open => preview = "over" /\ \A c \in Call : pc[c] \in {"idle", "done"}

\* A run has one owner.
Sole == \A c, d \in Call : pc[c] \in OwnLabels /\ pc[d] \in OwnLabels => c = d

OwnInv == PreviewMatches /\ Halted /\ Sole /\ \A c \in Call : Fits(pc[c], run)

\* What a rollback has read or is at has a backup.
Backed ==
    /\ \A t \in Target : item[t] # "none" => saved[t] # "none"
    /\ \A c \in Call : /\ \A t \in todo[c] : item[t] # "none"
                       /\ pc[c] \in {"restore", "note"} => item[at[c]] # "none"

RunInv == TypeOK /\ Backed /\ OwnInv

-----------------------------------------------------------------------------
(* The tables of transitions                                               *)

\* The statuses of a run, as can_transition_to lists them.
LEMMA RunStatusIs ==
    RunStatus = {"validating", "preflighting", "preview_ready", "waiting_confirmation", "backing_up",
                 "running", "verifying", "uncertain", "failed", "succeeded", "rollback_partial",
                 "rollback_failed", "rollback_available", "rolling_back", "rolled_back", "cancelled"}
  BY DEF RunStatus, Onward

\* No transition leaves the statuses of a run.
LEMMA OnwardClosed == \A s \in RunStatus : Onward[s] \subseteq RunStatus
  BY RunStatusIs DEF Onward

\* Nor those of a step.
LEMMA StepOnwardClosed ==
    /\ {"none", "pending", "running", "failed", "uncertain", "succeeded", "cancelled", "skipped"}
         = StepStatus
    /\ \A s \in StepStatus : StepOnward[s] \subseteq StepStatus
  BY DEF StepStatus, StepOnward

\* What the transition table says of the statuses the argument is about.
LEMMA OnwardFacts ==
    /\ Onward["cancelled"] = {}
    /\ Onward["rolling_back"] = {"rolled_back", "rollback_partial", "rollback_failed", "uncertain"}
    /\ \A s \in RunStatus : "waiting_confirmation" \in Onward[s] => s = "preview_ready"
    /\ \A s \in RunStatus : "rolling_back" \in Onward[s] => s = "rollback_available"
    /\ \A s \in LateStatus : Onward[s] \subseteq LateStatus
  BY RunStatusIs DEF Onward, LateStatus

-----------------------------------------------------------------------------
(* One owner                                                               *)

\* A step of one call that leaves the run alone keeps the owner.
LEMMA Moves ==
    ASSUME RunInv, NEW c \in Call, open, NEW l,
           run' = run, preview' = preview, open' = open, pc' = [pc EXCEPT ![c] = l],
           l \in OwnLabels => pc[c] \in OwnLabels,
           Fits(l, run)
    PROVE  OwnInv'
<1>1. pc \in [Call -> Label]
  BY DEF RunInv, TypeOK
<1>2. \A d \in Call : pc'[d] = IF d = c THEN l ELSE pc[d]
  BY <1>1
<1>3. PreviewMatches' /\ Halted'
  BY DEF RunInv, OwnInv, PreviewMatches, Halted
<1>4. Sole'
  BY <1>2 DEF RunInv, OwnInv, Sole
<1>5. \A d \in Call : Fits(pc[d], run)'
  BY <1>2 DEF RunInv, OwnInv, Fits
<1> QED
  BY <1>3, <1>4, <1>5 DEF OwnInv

\* A status of a run at preflight fits no owner but a cancelled one's.
LEMMA EarlyOrOwned ==
    ASSUME NEW l \in OwnLabels, NEW s, Fits(l, s)
    PROVE  s \notin {"validating", "preflighting", "preview_ready", "rollback_available"}
  BY DEF OwnLabels, Fits, LateStatus

\* The owner's own transition, to a status that fits its next label.
LEMMA OwnerTransition ==
    ASSUME RunInv, NEW c \in Call, open, NEW to, NEW l,
           Transition(c, to, l), preview' = preview, open' = open,
           pc[c] \in OwnLabels, to \in Onward[run] => Fits(l, to)
    PROVE  OwnInv'
<1> DEFINE ok == to \in Onward[run]
           m == IF ok THEN l ELSE "done"
<1>1. /\ pc \in [Call -> Label] /\ run \in RunStatus
      /\ PreviewMatches /\ Halted /\ Sole /\ \A d \in Call : Fits(pc[d], run)
  BY DEF RunInv, TypeOK, OwnInv
<1>2. \A d \in Call : pc'[d] = IF d = c THEN m ELSE pc[d]
  BY <1>1 DEF Transition, Goto
<1>3. run' = IF ok THEN to ELSE run
  BY DEF Transition
<1>4. ok => run \notin {"validating", "preflighting", "cancelled"}
  BY <1>1, EarlyOrOwned, OnwardFacts
<1>5. PreviewMatches' /\ Halted'
  BY <1>1, <1>3, <1>4 DEF PreviewMatches, Halted
<1>6. Sole'
  BY <1>1, <1>2 DEF Sole
<1>7. \A d \in Call : d # c => pc[d] \notin OwnLabels
  BY <1>1 DEF Sole
<1>8. ASSUME NEW d \in Call PROVE Fits(pc'[d], run')
  <2>1. CASE d = c
    BY <1>1, <1>2, <1>3, <2>1 DEF Fits, BackupLabels, RunLabels, VerifyLabels, RollbackLabels
  <2>2. CASE d # c
    BY <1>1, <1>2, <1>3, <1>7, <2>2, OnwardFacts DEF Fits, OwnLabels
  <2> QED
    BY <2>1, <2>2
<1> QED
  BY <1>5, <1>6, <1>8 DEF OwnInv

\* A transition only one call can win makes its call the owner.
LEMMA EnteringTransition ==
    ASSUME RunInv, NEW c \in Call, open, NEW to, NEW l,
           Transition(c, to, l), preview' = preview, open' = open,
           \/ to = "waiting_confirmation" /\ l = "waiting"
           \/ to = "rolling_back" /\ l = "mark",
           pc[c] \notin OwnLabels
    PROVE  OwnInv'
<1> DEFINE ok == to \in Onward[run]
           m == IF ok THEN l ELSE "done"
<1>1. /\ pc \in [Call -> Label] /\ run \in RunStatus
      /\ PreviewMatches /\ Halted /\ Sole /\ \A d \in Call : Fits(pc[d], run)
  BY DEF RunInv, TypeOK, OwnInv
<1>2. \A d \in Call : pc'[d] = IF d = c THEN m ELSE pc[d]
  BY <1>1 DEF Transition, Goto
<1>3. run' = IF ok THEN to ELSE run
  BY DEF Transition
<1>4. ok => run = IF to = "rolling_back" THEN "rollback_available" ELSE "preview_ready"
  BY <1>1, OnwardFacts
<1>5. ok => \A d \in Call : pc[d] \notin OwnLabels
  BY <1>1, <1>4, EarlyOrOwned
<1>6. PreviewMatches' /\ Halted'
  BY <1>1, <1>3, <1>4 DEF PreviewMatches, Halted
<1>7. Sole'
  BY <1>1, <1>2, <1>5 DEF Sole, OwnLabels, BackupLabels, RunLabels, VerifyLabels, RollbackLabels
<1>8. ASSUME NEW d \in Call PROVE Fits(pc'[d], run')
  <2>1. CASE d = c
    BY <1>1, <1>2, <1>3, <2>1 DEF Fits, BackupLabels, RunLabels, VerifyLabels, RollbackLabels
  <2>2. CASE d # c
    BY <1>1, <1>2, <1>3, <1>4, <1>5, <2>2 DEF Fits, OwnLabels, LateStatus
  <2> QED
    BY <2>1, <2>2
<1> QED
  BY <1>6, <1>7, <1>8 DEF OwnInv

\* Offering a rollback and cancelling leave an owner where it is.
LEMMA OutsideTransition ==
    ASSUME RunInv, NEW c \in Call, open, NEW to, NEW l,
           Transition(c, to, l), preview' = preview, open' = open,
           \/ to = "rollback_available" /\ l = "rolling" /\ pc[c] = "offer"
           \/ to = "cancelled" /\ l = "done"
    PROVE  OwnInv'
<1> DEFINE ok == to \in Onward[run]
           m == IF ok THEN l ELSE "done"
<1>1. /\ pc \in [Call -> Label] /\ run \in RunStatus
      /\ PreviewMatches /\ Halted /\ Sole /\ \A d \in Call : Fits(pc[d], run)
  BY DEF RunInv, TypeOK, OwnInv
<1>2. \A d \in Call : pc'[d] = IF d = c THEN m ELSE pc[d]
  BY <1>1 DEF Transition, Goto
<1>3. run' = IF ok THEN to ELSE run
  BY DEF Transition
<1>4. m \in {"rolling", "done"} /\ m \notin OwnLabels
  BY DEF OwnLabels, BackupLabels, RunLabels, VerifyLabels, RollbackLabels
<1>5. \A s \in LateStatus : "cancelled" \notin Onward[s]
  BY OnwardFacts DEF LateStatus
<1>6. to = "rollback_available" => run \in LateStatus
  BY <1>1 DEF Fits
<1>7. PreviewMatches' /\ Halted'
  BY <1>1, <1>3, <1>6 DEF PreviewMatches, Halted, LateStatus
<1>8. Sole'
  BY <1>1, <1>2, <1>4 DEF Sole
<1>9. ASSUME NEW d \in Call PROVE Fits(pc'[d], run')
  <2>1. CASE d = c
    BY <1>2, <1>4, <2>1 DEF Fits, BackupLabels, RunLabels, VerifyLabels, RollbackLabels
  <2>2. CASE d # c
    BY <1>1, <1>2, <1>3, <1>5, <1>6, <2>2, OnwardFacts DEF Fits, LateStatus
  <2> QED
    BY <2>1, <2>2
<1> QED
  BY <1>7, <1>8, <1>9 DEF OwnInv

\* Preparing a run, up to the restore point, keeps its one owner.
LEMMA PrepareOwns ==
    ASSUME RunInv, NEW c \in Call, Prepare(c)
    PROVE  OwnInv'
<1>1. Fits(pc[c], run) /\ pc \in [Call -> Label] /\ run \in RunStatus
  BY DEF RunInv, OwnInv, TypeOK
<1> USE DEF Fits, OwnLabels, BackupLabels, RunLabels, VerifyLabels, RollbackLabels, Goto, tables,
            server, world
<1>2. CASE RequirePreview(c)
  BY <1>1, <1>2, Moves DEF RequirePreview
<1>3. CASE Confirm(c)
  BY <1>1, <1>3, EnteringTransition DEF Confirm
<1>4. CASE AfterConfirmation(c)
  BY <1>1, <1>4, OwnerTransition DEF AfterConfirmation
<1>5. CASE StartBackup(c)
  BY <1>1, <1>5, Moves DEF StartBackup, StepTo
<1>6. CASE CreatePoint(c)
  BY <1>1, <1>6, Moves DEF CreatePoint
<1>7. CASE ConnectForBackup(c)
  BY <1>1, <1>7, Moves DEF ConnectForBackup
<1>8. CASE Capture(c)
  BY <1>1, <1>8, Moves DEF Capture
<1>9. CASE CaptureFails(c)
  BY <1>1, <1>9, Moves DEF CaptureFails
<1>10. CASE MarkAvailable(c)
  BY <1>1, <1>10, Moves DEF MarkAvailable
<1>11. CASE FinishBackup(c)
  BY <1>1, <1>11, Moves DEF FinishBackup, StepTo
<1>12. CASE GiveUp(c)
  BY <1>1, <1>12, OwnerTransition DEF GiveUp
<1> QED
  BY <1>2, <1>3, <1>4, <1>5, <1>6, <1>7, <1>8, <1>9, <1>10, <1>11, <1>12 DEF Prepare

\* So does the change and its verification.
LEMMA ChangeOwns ==
    ASSUME RunInv, NEW c \in Call, Change(c)
    PROVE  OwnInv'
<1>1. Fits(pc[c], run) /\ pc \in [Call -> Label] /\ run \in RunStatus
  BY DEF RunInv, OwnInv, TypeOK
<1> USE DEF Fits, OwnLabels, BackupLabels, RunLabels, VerifyLabels, RollbackLabels, Goto, tables,
            server, world
<1>2. CASE StartRunning(c)
  BY <1>1, <1>2, OwnerTransition DEF StartRunning
<1>3. CASE StartStep(c)
  BY <1>1, <1>3, Moves DEF StartStep, ExecutedTo
<1>4. CASE Work(c)
  BY <1>1, <1>4, Moves DEF Work
<1>5. CASE RecordStep(c)
  BY <1>1, <1>5, Moves DEF RecordStep, ExecutedTo
<1>6. CASE SkipRest(c)
  BY <1>1, <1>6, Moves DEF SkipRest
<1>7. CASE StartVerifying(c)
  BY <1>1, <1>7, OwnerTransition DEF StartVerifying
<1>8. CASE StartCheck(c)
  BY <1>1, <1>8, Moves DEF StartCheck, StepTo
<1>9. CASE Check(c)
  BY <1>1, <1>9, Moves DEF Check
<1>10. CASE RecordCheck(c)
  BY <1>1, <1>10, Moves DEF RecordCheck, StepTo
<1>11. CASE SetResult(c)
  BY <1>1, <1>11, Moves DEF SetResult
<1>12. CASE Succeed(c)
  BY <1>1, <1>12, OwnerTransition DEF Succeed
<1>13. CASE Settle(c)
  BY <1>1, <1>13, OwnerTransition, OnwardFacts DEF Settle
<1> QED
  BY <1>2, <1>3, <1>4, <1>5, <1>6, <1>7, <1>8, <1>9, <1>10, <1>11, <1>12, <1>13 DEF Change

\* So does a rollback, automatic or asked for.
LEMMA RollbackOwns ==
    ASSUME RunInv, NEW c \in Call, Rollback(c)
    PROVE  OwnInv'
<1>1. Fits(pc[c], run) /\ pc \in [Call -> Label] /\ run \in RunStatus
  BY DEF RunInv, OwnInv, TypeOK
<1> USE DEF Fits, OwnLabels, BackupLabels, RunLabels, VerifyLabels, RollbackLabels, Goto, tables,
            server, world
<1>2. CASE RequestRollback(c)
  BY <1>1, <1>2, Moves DEF RequestRollback
<1>3. CASE ReadRun(c)
  BY <1>1, <1>3, Moves DEF ReadRun, Offered, LateStatus
<1>4. CASE OfferRollback(c)
  BY <1>1, <1>4, OutsideTransition DEF OfferRollback
<1>5. CASE StartRolling(c)
  BY <1>1, <1>5, EnteringTransition DEF StartRolling
<1>6. CASE MarkRollback(c)
  BY <1>1, <1>6, Moves DEF MarkRollback, StepTo
<1>7. CASE ReadItems(c)
  BY <1>1, <1>7, Moves DEF ReadItems
<1>8. CASE BeginRollback(c)
  BY <1>1, <1>8, Moves DEF BeginRollback
<1>9. CASE ConnectForRollback(c)
  BY <1>1, <1>9, Moves DEF ConnectForRollback
<1>10. CASE ConnectFails(c)
  BY <1>1, <1>10, Moves DEF ConnectFails
<1>11. CASE NextItem(c)
  <2>1. PICK l \in {"restore", "report"} : pc' = [pc EXCEPT ![c] = l]
    BY <1>11 DEF NextItem
  <2> QED
    BY <1>1, <1>11, <2>1, Moves DEF NextItem
<1>12. CASE Restore(c)
  BY <1>1, <1>12, Moves DEF Restore
<1>13. CASE RecordItem(c)
  BY <1>1, <1>13, Moves DEF RecordItem
<1>14. CASE FinishRollback(c)
  BY <1>1, <1>14, Moves DEF FinishRollback
<1>15. CASE ReportRollback(c)
  BY <1>1, <1>15, Moves DEF ReportRollback, StepTo
<1>16. CASE EndRollback(c)
  BY <1>1, <1>16, OwnerTransition, OnwardFacts DEF EndRollback, LateStatus
<1> QED
  BY <1>2, <1>3, <1>4, <1>5, <1>6, <1>7, <1>8, <1>9, <1>10, <1>11, <1>12, <1>13, <1>14,
     <1>15, <1>16 DEF Rollback

\* So do preflight, cancellation, failing statements, exit and recovery.
LEMMA OthersOwn ==
    ASSUME RunInv,
           \/ Preflight
           \/ \E c \in Call : GetRun(c) \/ CancelRun(c) \/ Fault(c)
           \/ \E t \in Target : Land(t)
           \/ Exit \/ Open \/ UNCHANGED vars
    PROVE  OwnInv'
<1>1. /\ PreviewMatches /\ Halted /\ Sole /\ \A c \in Call : Fits(pc[c], run)
      /\ pc \in [Call -> Label] /\ run \in RunStatus
  BY DEF RunInv, OwnInv, TypeOK
<1>2. CASE Preflight
  <2>1. pc' = pc /\ open' = open /\ open
    BY <1>2 DEF Preflight, BeginPreflight, PreflightFails, CreateSteps, CompletePreflight, locals,
                world
  <2>2. run' # run => run \in {"validating", "preflighting"}
    BY <1>1, <1>2, OnwardFacts DEF Preflight, BeginPreflight, PreflightFails, CreateSteps,
                CompletePreflight, PreviewMatches
  <2>3. run' # run => \A c \in Call : pc[c] \notin OwnLabels /\ pc[c] # "offer"
    BY <1>1, <2>2, EarlyOrOwned DEF Fits, LateStatus
  <2>4. PreviewMatches'
    BY <1>1, <1>2, OnwardFacts DEF Preflight, BeginPreflight, PreflightFails, CreateSteps,
                CompletePreflight, PreviewMatches
  <2>5. Halted' /\ Sole'
    BY <1>1, <2>1 DEF Halted, Sole
  <2>6. \A c \in Call : Fits(pc'[c], run')
    BY <1>1, <2>1, <2>3 DEF Fits, OwnLabels
  <2> QED
    BY <2>4, <2>5, <2>6 DEF OwnInv
<1>3. ASSUME NEW c \in Call, GetRun(c) PROVE OwnInv'
  BY <1>1, <1>3, Moves DEF GetRun, Goto, tables, world, Fits, OwnLabels, BackupLabels, RunLabels,
     VerifyLabels, RollbackLabels
<1>4. ASSUME NEW c \in Call, CancelRun(c) PROVE OwnInv'
  BY <1>4, OutsideTransition DEF CancelRun, world
<1>5. ASSUME NEW c \in Call, Fault(c) PROVE OwnInv'
  <2> DEFINE l == CASE pc[c] \in Capturing -> "unsaved" [] pc[c] \in Restoring -> "report"
                    [] OTHER -> "done"
  <2>1. l \in OwnLabels => pc[c] \in OwnLabels
    BY DEF Capturing, Restoring, OwnLabels, BackupLabels, RunLabels, VerifyLabels, RollbackLabels
  <2>2. Fits(l, run)
    BY <1>1 DEF Capturing, Restoring, Fits, BackupLabels, RunLabels, VerifyLabels, RollbackLabels
  <2>3. open /\ run' = run /\ preview' = preview /\ open' = open /\ pc' = [pc EXCEPT ![c] = l]
    BY <1>5 DEF Fault, Goto
  <2> QED
    BY <2>1, <2>2, <2>3, Moves
<1>6. ASSUME NEW t \in Target, Land(t) PROVE OwnInv'
  BY <1>1, <1>6 DEF Land, tables, locals, world, OwnInv, PreviewMatches, Halted, Sole, Fits
<1>7. CASE Exit
  <2>1. \A c \in Call : pc'[c] \in {"idle", "done"}
    BY <1>7 DEF Exit
  <2> QED
    BY <1>7, <2>1 DEF Exit, OwnInv, PreviewMatches, Halted, Sole, Fits, OwnLabels, BackupLabels,
                      RunLabels, VerifyLabels, RollbackLabels
<1>8. CASE Open
  <2>1. preview' = "over" /\ open' /\ \A c \in Call : pc'[c] \in {"idle", "done"}
    BY <1>1, <1>8 DEF Open, Halted, locals
  <2> QED
    BY <2>1 DEF OwnInv, PreviewMatches, Halted, Sole, Fits, OwnLabels, BackupLabels, RunLabels,
                VerifyLabels, RollbackLabels
<1>9. CASE UNCHANGED vars
  BY <1>1, <1>9 DEF vars, tables, locals, world, OwnInv, PreviewMatches, Halted, Sole, Fits
<1> QED
  BY <1>2, <1>3, <1>4, <1>5, <1>6, <1>7, <1>8, <1>9

-----------------------------------------------------------------------------
(* Types                                                                   *)

\* transition keeps the types of the run and of the labels.
LEMMA TransitionTypes ==
    ASSUME TypeOK, NEW c \in Call, NEW to, NEW l \in Label, Transition(c, to, l)
    PROVE  run' \in RunStatus /\ pc' \in [Call -> Label]
<1>1. "done" \in Label
  BY DEF Label
<1> QED
  BY <1>1, OnwardClosed DEF Transition, Goto, TypeOK

\* So does transition_step, for the row of a phase ...
LEMMA StepTypes ==
    ASSUME TypeOK, NEW c \in Call, NEW phase \in Phase, NEW to, NEW l \in Label,
           StepTo(c, phase, to, l)
    PROVE  step' \in [Phase -> StepStatus] /\ pc' \in [Call -> Label]
<1>1. "done" \in Label
  BY DEF Label
<1>2. step[phase] \in StepStatus
  BY DEF TypeOK
<1> QED
  BY <1>1, <1>2, StepOnwardClosed DEF StepTo, Goto, TypeOK

\* ... and for an execution step.
LEMMA ExecutedTypes ==
    ASSUME TypeOK, NEW c \in Call, NEW to, NEW l \in Label, ExecutedTo(c, to, l)
    PROVE  executed' \in [Target -> StepStatus] /\ pc' \in [Call -> Label]
<1>1. "done" \in Label
  BY DEF Label
<1>2. at[c] \in Target /\ executed[at[c]] \in StepStatus
  BY DEF TypeOK
<1> QED
  BY <1>1, <1>2, StepOnwardClosed DEF ExecutedTo, Goto, TypeOK

\* How commands and rollbacks end is a verdict.
LEMMA VerdictTypes ==
    /\ Fine \in Verdict /\ Broken \in Verdict /\ Lost \in Verdict /\ Bad \subseteq Verdict
    /\ \A c : RunAfter(c) \in Verdict
  BY RunStatusIs, StepOnwardClosed DEF Fine, Broken, Lost, Bad, Verdict, RunAfter, PointAfter

\* There is a first target.
LEMMA FirstTarget == 1 \in Target /\ \A t \in Target : t # N => t + 1 \in Target
  BY TargetAssumption DEF Target

\* The steps up to the restore point keep the types.
LEMMA PrepareTypes ==
    ASSUME TypeOK, Backed, NEW c \in Call, Prepare(c)
    PROVE  TypeOK' /\ Backed'
<1> USE FirstTarget, VerdictTypes DEF TypeOK, Backed, Label, PointStatus, ItemStatus, Goto, Forget, tables,
            server, world
<1>1. CASE RequirePreview(c)
  <2>1. TypeOK'
    BY <1>1 DEF RequirePreview
  <2>2. Backed'
    BY <1>1 DEF RequirePreview
  <2> QED
    BY <2>1, <2>2
<1>2. CASE Confirm(c)
  <2>1. TypeOK'
    BY <1>2, TransitionTypes DEF Confirm
  <2>2. Backed'
    BY <1>2 DEF Confirm, Transition
  <2> QED
    BY <2>1, <2>2
<1>3. CASE AfterConfirmation(c)
  <2>1. TypeOK'
    BY <1>3, TransitionTypes DEF AfterConfirmation
  <2>2. Backed'
    BY <1>3 DEF AfterConfirmation, Transition
  <2> QED
    BY <2>1, <2>2
<1>4. CASE StartBackup(c)
  <2>1. TypeOK'
    BY <1>4, StepTypes DEF StartBackup, Phase
  <2>2. Backed'
    BY <1>4 DEF StartBackup, StepTo
  <2> QED
    BY <2>1, <2>2
<1>5. CASE CreatePoint(c)
  <2>1. TypeOK'
    BY <1>5 DEF CreatePoint
  <2>2. Backed'
    BY <1>5 DEF CreatePoint
  <2> QED
    BY <2>1, <2>2
<1>6. CASE ConnectForBackup(c)
  <2>1. TypeOK'
    BY <1>6 DEF ConnectForBackup
  <2>2. Backed'
    BY <1>6 DEF ConnectForBackup
  <2> QED
    BY <2>1, <2>2
<1>7. CASE Capture(c)
  <2>1. TypeOK'
    BY <1>7 DEF Capture
  <2>2. Backed'
    BY <1>7 DEF Capture
  <2> QED
    BY <2>1, <2>2
<1>8. CASE CaptureFails(c)
  <2>1. TypeOK'
    BY <1>8 DEF CaptureFails
  <2>2. Backed'
    BY <1>8 DEF CaptureFails
  <2> QED
    BY <2>1, <2>2
<1>9. CASE MarkAvailable(c)
  <2>1. TypeOK'
    BY <1>9 DEF MarkAvailable
  <2>2. Backed'
    BY <1>9 DEF MarkAvailable
  <2> QED
    BY <2>1, <2>2
<1>10. CASE FinishBackup(c)
  <2>1. TypeOK'
    BY <1>10, StepTypes DEF FinishBackup, Phase
  <2>2. Backed'
    BY <1>10 DEF FinishBackup, StepTo
  <2> QED
    BY <2>1, <2>2
<1>11. CASE GiveUp(c)
  <2>1. TypeOK'
    BY <1>11, TransitionTypes DEF GiveUp
  <2>2. Backed'
    BY <1>11 DEF GiveUp, Transition
  <2> QED
    BY <2>1, <2>2
<1> QED
  BY <1>1, <1>2, <1>3, <1>4, <1>5, <1>6, <1>7, <1>8, <1>9, <1>10, <1>11 DEF Prepare

\* So do those of the change and its verification.
LEMMA ChangeTypes ==
    ASSUME TypeOK, Backed, NEW c \in Call, Change(c)
    PROVE  TypeOK' /\ Backed'
<1> USE FirstTarget, VerdictTypes DEF TypeOK, Backed, Label, PointStatus, ItemStatus, Goto, Forget, tables,
            server, world
<1>1. CASE StartRunning(c)
  <2>1. TypeOK'
    BY <1>1, TransitionTypes DEF StartRunning
  <2>2. Backed'
    BY <1>1 DEF StartRunning, Transition
  <2> QED
    BY <2>1, <2>2
<1>2. CASE StartStep(c)
  <2>1. TypeOK'
    BY <1>2, ExecutedTypes DEF StartStep
  <2>2. Backed'
    BY <1>2 DEF StartStep, ExecutedTo
  <2> QED
    BY <2>1, <2>2
<1>3. CASE Work(c)
  <2>1. TypeOK'
    BY <1>3 DEF Work
  <2>2. Backed'
    BY <1>3 DEF Work
  <2> QED
    BY <2>1, <2>2
<1>4. CASE RecordStep(c)
  <2>1. TypeOK'
    BY <1>4, ExecutedTypes DEF RecordStep
  <2>2. Backed'
    BY <1>4 DEF RecordStep, ExecutedTo
  <2> QED
    BY <2>1, <2>2
<1>5. CASE SkipRest(c)
  <2>1. TypeOK'
    BY <1>5, StepOnwardClosed DEF SkipRest, SkipFrom
  <2>2. Backed'
    BY <1>5 DEF SkipRest
  <2> QED
    BY <2>1, <2>2
<1>6. CASE StartVerifying(c)
  <2>1. TypeOK'
    BY <1>6, TransitionTypes DEF StartVerifying
  <2>2. Backed'
    BY <1>6 DEF StartVerifying, Transition
  <2> QED
    BY <2>1, <2>2
<1>7. CASE StartCheck(c)
  <2>1. TypeOK'
    BY <1>7, StepTypes DEF StartCheck, Phase
  <2>2. Backed'
    BY <1>7 DEF StartCheck, StepTo
  <2> QED
    BY <2>1, <2>2
<1>8. CASE Check(c)
  <2>1. TypeOK'
    BY <1>8 DEF Check
  <2>2. Backed'
    BY <1>8 DEF Check
  <2> QED
    BY <2>1, <2>2
<1>9. CASE RecordCheck(c)
  <2>1. TypeOK'
    BY <1>9, StepTypes DEF RecordCheck, Phase
  <2>2. Backed'
    BY <1>9 DEF RecordCheck, StepTo
  <2> QED
    BY <2>1, <2>2
<1>10. CASE SetResult(c)
  <2>1. TypeOK'
    BY <1>10 DEF SetResult
  <2>2. Backed'
    BY <1>10 DEF SetResult
  <2> QED
    BY <2>1, <2>2
<1>11. CASE Succeed(c)
  <2>1. TypeOK'
    BY <1>11, TransitionTypes DEF Succeed
  <2>2. Backed'
    BY <1>11 DEF Succeed, Transition
  <2> QED
    BY <2>1, <2>2
<1>12. CASE Settle(c)
  <2>1. TypeOK'
    BY <1>12, TransitionTypes DEF Settle
  <2>2. Backed'
    BY <1>12 DEF Settle, Transition
  <2> QED
    BY <2>1, <2>2
<1> QED
  BY <1>1, <1>2, <1>3, <1>4, <1>5, <1>6, <1>7, <1>8, <1>9, <1>10, <1>11, <1>12 DEF Change

\* So do those of a rollback.
LEMMA RollbackTypes ==
    ASSUME TypeOK, Backed, NEW c \in Call, Rollback(c)
    PROVE  TypeOK' /\ Backed'
<1> USE FirstTarget, VerdictTypes DEF TypeOK, Backed, Label, PointStatus, ItemStatus, Goto, Forget, tables,
            server, world
<1>1. CASE RequestRollback(c)
  <2>1. TypeOK'
    BY <1>1 DEF RequestRollback
  <2>2. Backed'
    BY <1>1 DEF RequestRollback
  <2> QED
    BY <2>1, <2>2
<1>2. CASE ReadRun(c)
  <2>1. TypeOK'
    BY <1>2 DEF ReadRun
  <2>2. Backed'
    BY <1>2 DEF ReadRun
  <2> QED
    BY <2>1, <2>2
<1>3. CASE OfferRollback(c)
  <2>1. TypeOK'
    BY <1>3, TransitionTypes DEF OfferRollback
  <2>2. Backed'
    BY <1>3 DEF OfferRollback, Transition
  <2> QED
    BY <2>1, <2>2
<1>4. CASE StartRolling(c)
  <2>1. TypeOK'
    BY <1>4, TransitionTypes DEF StartRolling
  <2>2. Backed'
    BY <1>4 DEF StartRolling, Transition
  <2> QED
    BY <2>1, <2>2
<1>5. CASE MarkRollback(c)
  <2>1. TypeOK'
    BY <1>5, StepTypes DEF MarkRollback, Phase
  <2>2. Backed'
    BY <1>5 DEF MarkRollback, StepTo
  <2> QED
    BY <2>1, <2>2
<1>6. CASE ReadItems(c)
  <2>1. TypeOK'
    BY <1>6 DEF ReadItems
  <2>2. Backed'
    BY <1>6 DEF ReadItems
  <2> QED
    BY <2>1, <2>2
<1>7. CASE BeginRollback(c)
  <2>1. TypeOK'
    BY <1>7 DEF BeginRollback
  <2>2. Backed'
    BY <1>7 DEF BeginRollback
  <2> QED
    BY <2>1, <2>2
<1>8. CASE ConnectForRollback(c)
  <2>1. TypeOK'
    BY <1>8 DEF ConnectForRollback
  <2>2. Backed'
    BY <1>8 DEF ConnectForRollback
  <2> QED
    BY <2>1, <2>2
<1>9. CASE ConnectFails(c)
  <2>1. TypeOK'
    BY <1>9 DEF ConnectFails
  <2>2. Backed'
    BY <1>9 DEF ConnectFails
  <2> QED
    BY <2>1, <2>2
<1>10. CASE NextItem(c)
  <2>1. TypeOK'
    BY <1>10 DEF NextItem
  <2>2. Backed'
    BY <1>10 DEF NextItem
  <2> QED
    BY <2>1, <2>2
<1>11. CASE Restore(c)
  <2>1. TypeOK'
    BY <1>11 DEF Restore
  <2>2. Backed'
    BY <1>11 DEF Restore
  <2> QED
    BY <2>1, <2>2
<1>12. CASE RecordItem(c)
  <2>1. TypeOK'
    BY <1>12 DEF RecordItem
  <2>2. Backed'
    BY <1>12 DEF RecordItem
  <2> QED
    BY <2>1, <2>2
<1>13. CASE FinishRollback(c)
  <2>1. TypeOK'
    BY <1>13 DEF FinishRollback, PointAfter
  <2>2. Backed'
    BY <1>13 DEF FinishRollback
  <2> QED
    BY <2>1, <2>2
<1>14. CASE ReportRollback(c)
  <2>1. TypeOK'
    BY <1>14, StepTypes DEF ReportRollback, Phase
  <2>2. Backed'
    BY <1>14 DEF ReportRollback, StepTo
  <2> QED
    BY <2>1, <2>2
<1>15. CASE EndRollback(c)
  <2>1. TypeOK'
    BY <1>15, TransitionTypes DEF EndRollback
  <2>2. Backed'
    BY <1>15 DEF EndRollback, Transition
  <2> QED
    BY <2>1, <2>2
<1> QED
  BY <1>1, <1>2, <1>3, <1>4, <1>5, <1>6, <1>7, <1>8, <1>9, <1>10, <1>11, <1>12, <1>13,
     <1>14, <1>15 DEF Rollback

\* So do preflight, cancellation, failing statements, exit and recovery.
LEMMA OtherTypes ==
    ASSUME TypeOK, Backed,
           \/ Preflight
           \/ \E c \in Call : GetRun(c) \/ CancelRun(c) \/ Fault(c)
           \/ \E t \in Target : Land(t)
           \/ Exit \/ Open \/ UNCHANGED vars
    PROVE  TypeOK' /\ Backed'
<1> USE FirstTarget, VerdictTypes DEF TypeOK, Backed, Label, PointStatus, ItemStatus, tables, server,
            locals, world
<1>1. CASE Preflight
  BY <1>1, RunStatusIs, StepOnwardClosed DEF Preflight, BeginPreflight, PreflightFails, CreateSteps,
     CompletePreflight
<1>2. ASSUME NEW c \in Call, GetRun(c) PROVE TypeOK' /\ Backed'
  BY <1>2 DEF GetRun, Goto
<1>3. ASSUME NEW c \in Call, CancelRun(c) PROVE TypeOK' /\ Backed'
  <2>1. TypeOK'
    BY <1>3, TransitionTypes DEF CancelRun
  <2>2. Backed'
    BY <1>3 DEF CancelRun, Transition, Goto
  <2> QED
    BY <2>1, <2>2
<1>4. ASSUME NEW c \in Call, Fault(c) PROVE TypeOK' /\ Backed'
  <2>1. TypeOK'
    BY <1>4 DEF Fault, Goto, Forget
  <2>2. Backed'
    BY <1>4 DEF Fault, Goto, Forget
  <2> QED
    BY <2>1, <2>2
<1>5. ASSUME NEW t \in Target, Land(t) PROVE TypeOK' /\ Backed'
  BY <1>5 DEF Land
<1>6. CASE Exit
  <2>1. {at[c] : c \in {d \in Call : pc[d] = "work"}} \subseteq Target
    OBVIOUS
  <2>2. /\ adrift' \subseteq Target /\ pc' \in [Call -> Label] /\ verdict' \in [Call -> Verdict]
        /\ at' \in [Call -> Target] /\ todo' \in [Call -> SUBSET Target]
    BY <1>6, <2>1 DEF Exit
  <2>3. /\ failures' \in Nat /\ preview' \in {"begin", "probe", "ready", "over"}
        /\ undone' \subseteq Call /\ troubled' \subseteq Call
    BY <1>6 DEF Exit
  <2>4. open' \in BOOLEAN
    BY <1>6 DEF Exit
  <2>5. UNCHANGED <<run, step, executed, point, item, saved, remote, landed>>
    BY <1>6 DEF Exit
  <2>6. TypeOK'
    BY <2>2, <2>3, <2>4, <2>5
  <2>7. Backed'
    BY <1>6 DEF Exit
  <2> QED
    BY <2>6, <2>7
<1>7. CASE Open
  BY <1>7, RunStatusIs, StepOnwardClosed DEF Open
<1>8. CASE UNCHANGED vars
  BY <1>8 DEF vars
<1> QED
  BY <1>1, <1>2, <1>3, <1>4, <1>5, <1>6, <1>7, <1>8

-----------------------------------------------------------------------------
\* The inductive invariant: types, backups and the one owner.
THEOREM Invariance == Spec => []RunInv
<1>1. Init => RunInv
  <2> SUFFICES ASSUME Init PROVE RunInv
    OBVIOUS
  <2>1. TypeOK
    BY FirstTarget, VerdictTypes, RunStatusIs, StepOnwardClosed
       DEF Init, TypeOK, Label, PointStatus, ItemStatus
  <2>2. Backed
    BY DEF Init, Backed
  <2>3. OwnInv
    BY DEF Init, OwnInv, PreviewMatches, Halted, Sole, Fits, OwnLabels, BackupLabels, RunLabels,
           VerifyLabels, RollbackLabels
  <2> QED
    BY <2>1, <2>2, <2>3 DEF RunInv
<1>2. RunInv /\ [Next]_vars => RunInv'
  <2> SUFFICES ASSUME RunInv, [Next]_vars PROVE RunInv'
    OBVIOUS
  <2>1. TypeOK /\ Backed
    BY DEF RunInv
  <2>2. ASSUME NEW c \in Call, Prepare(c) PROVE RunInv'
    BY <2>1, <2>2, PrepareTypes, PrepareOwns DEF RunInv
  <2>3. ASSUME NEW c \in Call, Change(c) PROVE RunInv'
    BY <2>1, <2>3, ChangeTypes, ChangeOwns DEF RunInv
  <2>4. ASSUME NEW c \in Call, Rollback(c) PROVE RunInv'
    BY <2>1, <2>4, RollbackTypes, RollbackOwns DEF RunInv
  <2>5. CASE \/ Preflight
             \/ \E c \in Call : GetRun(c) \/ CancelRun(c) \/ Fault(c)
             \/ \E t \in Target : Land(t)
             \/ Exit \/ Open \/ UNCHANGED vars
    BY <2>1, <2>5, OtherTypes, OthersOwn DEF RunInv
  <2> QED
    BY <2>2, <2>3, <2>4, <2>5 DEF Next
<1> QED
  BY <1>1, <1>2, PTL DEF Spec

\* Every variable keeps its type; in particular a rollback never writes to the
\* server what no backup holds.
THEOREM TypeCorrect == Spec => []TypeOK
<1>1. RunInv => TypeOK
  BY DEF RunInv
<1> QED
  BY <1>1, Invariance, PTL

\* At most one call works on the server for a run, however many confirmations,
\* rollbacks and cancellations are made at the same time.
THEOREM OneCallAtWork == Spec => []Exclusive
<1>1. RunInv => Exclusive
  BY DEF RunInv, OwnInv, Sole, Exclusive, AtWork, OwnLabels, BackupLabels, RunLabels, VerifyLabels,
         RollbackLabels
<1> QED
  BY <1>1, Invariance, PTL

-----------------------------------------------------------------------------
(* The way back: what the restore point and its items promise.             *)

\* Nothing has been done to the server, nor may be by a command given up.
Untouched == adrift = {} /\ landed = {} /\ \A t \in Target : remote[t] = "old"

\* As it was, but for what a command given up did after it was restored.
Clean(t) == remote[t] = "old" \/ t \in landed

\* A backup is the old state; a restored item means a clean target, and a
\* target may only be touched once it has its item.
Kept ==
    \A t \in Target :
       /\ item[t] # "none" => saved[t] = "old"
       /\ item[t] = "rolled_back" => Clean(t)
       /\ point = "rolled_back" => item[t] \in {"none", "rolled_back"}
       /\ Untouched \/ item[t] # "none"

\* What the rows of the run, of the point and of the rollback step say of
\* each other.
Early == {"validating", "preflighting", "preview_ready", "waiting_confirmation"}
Rows ==
    /\ run \in Early => Untouched /\ point = "none"
    /\ Untouched \/ (point \notin {"none", "creating"} /\ step["rollback"] # "none")
    /\ run = "rolled_back" => point = "rolled_back"
    /\ step["rollback"] = "succeeded" => point = "rolled_back"
    /\ step["rollback"] = "running" => run = "rolling_back"
    /\ step["rollback"] \notin {"cancelled", "skipped"}
    /\ preview = "ready" \/ run \in {"preview_ready", "waiting_confirmation"} =>
          step["rollback"] # "none"

\* The labels of a start with a restore point, and of a rollback at its items.
Secured == {"backed", "run", "settle"} \cup RunLabels \cup VerifyLabels
Itemized == {"reach", "item", "restore", "note"}

\* What an owner knows at its label.
Known(c) ==
    /\ pc[c] \in {"waiting", "backup", "point"} => point = "none"
    /\ pc[c] \in {"link", "capture", "available"} => point = "creating"
    /\ pc[c] \in Secured => point = "available"
    /\ pc[c] \in Itemized => point = "rolling_back"
    /\ pc[c] \in {"waiting"} \cup BackupLabels => Untouched
    /\ pc[c] \in {"waiting"} \cup BackupLabels \cup Secured => step["rollback"] # "none"
    /\ pc[c] = "capture" => \A t \in Target : t < at[c] => item[t] = "available"
    /\ pc[c] \in {"available"} \cup Secured => \A t \in Target : item[t] = "available"
    /\ pc[c] \in {"begin"} \cup Itemized /\ c \notin troubled =>
          \A t \in Target : t \in todo[c] \/ item[t] \in {"none", "rolled_back"}
    /\ pc[c] \in {"restore", "note"} => item[at[c]] = "rolling_back" /\ at[c] \in todo[c]
    /\ pc[c] = "note" /\ verdict[c] = Fine => Clean(at[c])
    /\ pc[c] \in {"report", "final"} =>
          \/ verdict[c].step \in {"failed", "uncertain"} /\ verdict[c].run # "rolled_back"
          \/ verdict[c].step = "succeeded" /\ point = "rolled_back"
    /\ pc[c] = "final" => step["rollback"] # "running"

BackInv == Kept /\ Rows /\ \A c \in Call : Known(c)

\* A call that owns nothing knows nothing.
LEMMA KnownOff ==
    ASSUME NEW c \in Call, pc'[c] \notin OwnLabels
    PROVE  Known(c)'
BY DEF Known, OwnLabels, BackupLabels, RunLabels, VerifyLabels, RollbackLabels, Secured, Itemized

\* A step of the owner disturbs nobody else.
LEMMA OwnerKnows ==
    ASSUME RunInv, NEW c \in Call, pc[c] \in OwnLabels, NEW l, pc' = [pc EXCEPT ![c] = l], Known(c)'
    PROVE  \A d \in Call : Known(d)'
<1> SUFFICES ASSUME NEW d \in Call, d # c PROVE Known(d)'
  OBVIOUS
<1>1. pc'[d] = pc[d]
  BY DEF RunInv, TypeOK
<1>2. pc[d] \notin OwnLabels
  BY DEF RunInv, OwnInv, Sole
<1> QED  BY <1>1, <1>2, KnownOff

\* Nor does a step of anybody that leaves the rows and the server alone.
LEMMA OthersKnow ==
    ASSUME TypeOK, NEW c \in Call, NEW l, pc' = [pc EXCEPT ![c] = l], \A d \in Call : Known(d), Known(c)',
           step'["rollback"] = step["rollback"], UNCHANGED <<point, item, remote, adrift, landed>>,
           \A d \in Call : d # c => /\ at'[d] = at[d] /\ verdict'[d] = verdict[d] /\ todo'[d] = todo[d]
                                    /\ (d \in troubled' <=> d \in troubled)
    PROVE  \A d \in Call : Known(d)'
<1> SUFFICES ASSUME NEW d \in Call, d # c PROVE Known(d)'
  OBVIOUS
<1>1. pc'[d] = pc[d]
  BY DEF TypeOK
<1> QED  BY <1>1 DEF Known, Untouched, Clean

\* A step of a call that writes to no row but the run's, or to those of steps
\* other than the rollback.
LEMMA BackFrame ==
    ASSUME RunInv, BackInv, NEW c \in Call, NEW l, pc' = [pc EXCEPT ![c] = l],
           step'["rollback"] = step["rollback"],
           UNCHANGED <<point, item, saved, remote, adrift, landed, preview>>,
           \A d \in Call : d # c => /\ at'[d] = at[d] /\ verdict'[d] = verdict[d] /\ todo'[d] = todo[d]
                                    /\ (d \in troubled' <=> d \in troubled),
           run' # run => /\ run' \in Early => run' = "waiting_confirmation" /\ run = "preview_ready"
                         /\ run' = "rolled_back" => point = "rolled_back"
                         /\ step["rollback"] # "running",
           Known(c)'
    PROVE  BackInv'
<1>1. Kept'
  BY DEF BackInv, Kept, Untouched, Clean
<1>2. Rows'
  BY DEF BackInv, Rows, Early, Untouched
<1>3. \A d \in Call : Known(d)'
  BY OthersKnow DEF BackInv, RunInv
<1> QED  BY <1>1, <1>2, <1>3 DEF BackInv

\* The steps of a start up to its restore point that the frame covers.
LEMMA BackPrepare ==
    ASSUME RunInv, BackInv, NEW c \in Call,
           \/ RequirePreview(c) \/ Confirm(c) \/ AfterConfirmation(c) \/ StartBackup(c)
           \/ ConnectForBackup(c) \/ FinishBackup(c) \/ GiveUp(c)
    PROVE  BackInv'
<1>1. Known(c) /\ Fits(pc[c], run) /\ pc \in [Call -> Label] /\ run \in RunStatus /\ Rows
  BY DEF RunInv, OwnInv, TypeOK, BackInv
<1>2. at \in [Call -> Target] /\ verdict \in [Call -> Verdict] /\ todo \in [Call -> SUBSET Target]
      /\ step \in [Phase -> StepStatus]
  BY DEF RunInv, TypeOK
<1> USE DEF Goto, tables, server, world
<1>3. CASE RequirePreview(c)
  <2>1. Known(c)'
    BY <1>1, <1>3, KnownOff DEF RequirePreview, OwnLabels, BackupLabels, RunLabels, VerifyLabels, RollbackLabels
  <2> QED  BY <1>1, <1>3, <2>1, BackFrame DEF RequirePreview
<1>4. CASE Confirm(c)
  <2> DEFINE ok == "waiting_confirmation" \in Onward[run]
  <2>1. ok => run = "preview_ready"
    BY <1>1, OnwardFacts
  <2>2. Known(c)'
    <3>1. CASE ok
      BY <1>1, <1>4, <2>1, <3>1
         DEF Confirm, Transition, Known, Rows, Early, BackupLabels, RunLabels, VerifyLabels, Secured, Itemized,
             Untouched
    <3>2. CASE ~ok
      BY <1>1, <1>4, <3>2, KnownOff
         DEF Confirm, Transition, OwnLabels, BackupLabels, RunLabels, VerifyLabels, RollbackLabels
    <3> QED  BY <3>1, <3>2
  <2>3. run' # run => run = "preview_ready" /\ run' = "waiting_confirmation" /\ step["rollback"] # "running"
    BY <1>1, <1>4, <2>1 DEF Confirm, Transition, Rows
  <2>4. pc' = [pc EXCEPT ![c] = IF ok THEN "waiting" ELSE "done"]
    BY <1>4 DEF Confirm, Transition
  <2> QED  BY <1>4, <2>2, <2>3, <2>4, BackFrame DEF Confirm
<1>5. CASE AfterConfirmation(c)
  <2>1. Known(c)'
    BY <1>1, <1>5
       DEF AfterConfirmation, Transition, Known, BackupLabels, RunLabels, VerifyLabels, Secured, Itemized, Untouched
  <2>2. run' # run => run' = "backing_up" /\ step["rollback"] # "running"
    BY <1>1, <1>5 DEF AfterConfirmation, Transition, Fits, Rows
  <2>3. \E l : pc' = [pc EXCEPT ![c] = l]
    BY <1>5 DEF AfterConfirmation, Transition
  <2> QED  BY <1>5, <2>1, <2>2, <2>3, BackFrame DEF AfterConfirmation, Early
<1>6. CASE StartBackup(c)
  <2>1. step'["rollback"] = step["rollback"]
    BY <1>2, <1>6 DEF StartBackup, StepTo
  <2>2. Known(c)'
    BY <1>1, <1>6, <2>1
       DEF StartBackup, StepTo, Known, BackupLabels, RunLabels, VerifyLabels, Secured, Itemized, Untouched
  <2>3. \E l : pc' = [pc EXCEPT ![c] = l]
    BY <1>6 DEF StartBackup, StepTo
  <2> QED  BY <1>6, <2>1, <2>2, <2>3, BackFrame DEF StartBackup
<1>7. CASE ConnectForBackup(c)
  <2>1. \A t \in Target : ~(t < 1)
    BY TargetAssumption DEF Target
  <2>2. Known(c)'
    BY <1>1, <1>2, <1>7, <2>1
       DEF ConnectForBackup, Known, BackupLabels, RunLabels, VerifyLabels, Secured, Itemized, Untouched
  <2> QED  BY <1>2, <1>7, <2>2, BackFrame DEF ConnectForBackup
<1>8. CASE FinishBackup(c)
  <2>1. step'["rollback"] = step["rollback"]
    <3>1. PICK to : StepTo(c, "backup", to, IF pc[c] = "backed" THEN "run" ELSE "giveup")
      BY <1>8 DEF FinishBackup
    <3> QED  BY <1>2, <3>1 DEF StepTo, Phase
  <2>2. \E l : pc' = [pc EXCEPT ![c] = l]
    BY <1>8 DEF FinishBackup, StepTo
  <2>3. Known(c)'
    BY <1>1, <1>8, <2>1
       DEF FinishBackup, StepTo, Known, BackupLabels, RunLabels, VerifyLabels, Secured, Itemized, Untouched
  <2> QED  BY <1>8, <2>1, <2>2, <2>3, BackFrame DEF FinishBackup
<1>9. CASE GiveUp(c)
  <2>1. Known(c)'
    BY <1>1, <1>9, KnownOff
       DEF GiveUp, Transition, OwnLabels, BackupLabels, RunLabels, VerifyLabels, RollbackLabels
  <2>2. run' # run => run' = "failed" /\ step["rollback"] # "running"
    BY <1>1, <1>9 DEF GiveUp, Transition, Fits, Rows, BackupLabels
  <2>3. \E l : pc' = [pc EXCEPT ![c] = l]
    BY <1>9 DEF GiveUp, Transition
  <2> QED  BY <1>9, <2>1, <2>2, <2>3, BackFrame DEF GiveUp, Early
<1> QED  BY <1>3, <1>4, <1>5, <1>6, <1>7, <1>8, <1>9

\* Those of the change and its verification.
LEMMA BackChange ==
    ASSUME RunInv, BackInv, NEW c \in Call,
           \/ StartRunning(c) \/ StartStep(c) \/ RecordStep(c)
           \/ SkipRest(c) \/ StartVerifying(c) \/ StartCheck(c) \/ Check(c) \/ RecordCheck(c)
           \/ SetResult(c) \/ Succeed(c) \/ Settle(c)
    PROVE  BackInv'
<1>1. Known(c) /\ Fits(pc[c], run) /\ pc \in [Call -> Label] /\ run \in RunStatus /\ Rows
  BY DEF RunInv, OwnInv, TypeOK, BackInv
<1>2. at \in [Call -> Target] /\ verdict \in [Call -> Verdict] /\ todo \in [Call -> SUBSET Target]
      /\ step \in [Phase -> StepStatus]
  BY DEF RunInv, TypeOK
<1> USE DEF Goto, Forget, tables, server, world
<1>3. pc[c] \in {"run"} \cup Secured
  BY DEF StartRunning, StartStep, RecordStep, SkipRest, StartVerifying, StartCheck, Check, RecordCheck,
         SetResult, Succeed, Settle, Secured, RunLabels, VerifyLabels
<1>4. /\ point = "available" /\ step["rollback"] # "none" /\ step["rollback"] # "running"
      /\ \A t \in Target : item[t] = "available"
  BY <1>1, <1>3 DEF Known, Fits, Rows, Secured, RunLabels, VerifyLabels, BackupLabels
<1>5. /\ UNCHANGED <<point, item, saved, remote, adrift, landed, preview, todo, troubled>>
      /\ \A d \in Call : d # c => at'[d] = at[d] /\ verdict'[d] = verdict[d]
  <2>1. CASE StartRunning(c) \/ StartStep(c) \/ RecordStep(c) \/ SkipRest(c) \/ StartVerifying(c)
             \/ StartCheck(c) \/ RecordCheck(c) \/ SetResult(c) \/ Succeed(c)
    BY <1>2, <2>1
       DEF StartRunning, StartStep, RecordStep, SkipRest, StartVerifying, StartCheck, RecordCheck, SetResult, Succeed
  <2>2. CASE Check(c) \/ Settle(c)
    BY <1>2, <2>2 DEF Check, Settle
  <2> QED  BY <2>1, <2>2
<1>6. step'["rollback"] = step["rollback"]
  BY <1>2 DEF StartRunning, StartStep, RecordStep, SkipRest, StartVerifying, StartCheck, Check, RecordCheck,
              SetResult, Succeed, Settle, StepTo, Phase
<1>7. \E l \in Secured \cup {"rolling", "done"} : pc' = [pc EXCEPT ![c] = l]
  <2>1. CASE StartRunning(c) \/ StartVerifying(c) \/ Succeed(c) \/ Settle(c)
    BY <2>1 DEF StartRunning, StartVerifying, Succeed, Settle, Transition, Secured, RunLabels, VerifyLabels
  <2>2. CASE StartStep(c) \/ RecordStep(c) \/ SkipRest(c) \/ SetResult(c)
    BY <2>2 DEF StartStep, RecordStep, SkipRest, SetResult, ExecutedTo, Secured, RunLabels, VerifyLabels
  <2>3. CASE StartCheck(c) \/ Check(c) \/ RecordCheck(c)
    BY <2>3 DEF StartCheck, Check, RecordCheck, StepTo, Secured, RunLabels, VerifyLabels
  <2> QED  BY <2>1, <2>2, <2>3
<1>8. Known(c)'
  <2>1. PICK l \in Secured \cup {"rolling", "done"} : pc' = [pc EXCEPT ![c] = l]
    BY <1>7
  <2>2. pc'[c] = l
    BY <1>1, <2>1
  <2>3. CASE l \in {"rolling", "done"}
    BY <2>2, <2>3, KnownOff DEF OwnLabels, BackupLabels, RunLabels, VerifyLabels, RollbackLabels
  <2>4. CASE l \in Secured /\ l \in BackupLabels
    <3>1. pc[c] \in BackupLabels
      BY <1>1, <2>2, <2>4
         DEF StartRunning, StartStep, RecordStep, SkipRest, StartVerifying, StartCheck, Check, RecordCheck,
             SetResult, Succeed, Settle, StepTo, ExecutedTo, Transition, BackupLabels
    <3>2. Untouched'
      BY <1>1, <1>5, <3>1 DEF Known, Untouched
    <3> QED  BY <1>4, <1>5, <1>6, <2>2, <2>4, <3>2
             DEF Known, Secured, Itemized, RunLabels, VerifyLabels, BackupLabels
  <2>5. CASE l \in Secured /\ l \notin BackupLabels
    BY <1>4, <1>5, <1>6, <2>2, <2>5 DEF Known, Secured, Itemized, RunLabels, VerifyLabels, BackupLabels
  <2> QED  BY <2>3, <2>4, <2>5
<1>9. run' # run => run' \notin Early \cup {"rolled_back"}
  <2>1. CASE StartRunning(c) \/ StartVerifying(c) \/ Succeed(c) \/ Settle(c)
    BY <2>1 DEF StartRunning, StartVerifying, Succeed, Settle, Transition, Early
  <2>2. CASE ~(StartRunning(c) \/ StartVerifying(c) \/ Succeed(c) \/ Settle(c))
    BY <2>2 DEF StartStep, RecordStep, SkipRest, StartCheck, Check, RecordCheck, SetResult
  <2> QED  BY <2>1, <2>2
<1> QED  BY <1>4, <1>5, <1>6, <1>7, <1>8, <1>9, BackFrame

\* Those of a rollback, and of a cancellation.
LEMMA BackRollback ==
    ASSUME RunInv, BackInv, NEW c \in Call,
           \/ RequestRollback(c) \/ ReadRun(c) \/ OfferRollback(c) \/ StartRolling(c)
           \/ ReadItems(c) \/ ConnectForRollback(c) \/ EndRollback(c) \/ GetRun(c) \/ CancelRun(c)
    PROVE  BackInv'
<1>1. Known(c) /\ Fits(pc[c], run) /\ pc \in [Call -> Label] /\ run \in RunStatus /\ Rows
  BY DEF RunInv, OwnInv, TypeOK, BackInv
<1>2. at \in [Call -> Target] /\ verdict \in [Call -> Verdict] /\ todo \in [Call -> SUBSET Target]
      /\ step \in [Phase -> StepStatus]
  BY DEF RunInv, TypeOK
<1> USE DEF Goto, tables, server, world
<1>3. CASE RequestRollback(c) \/ ReadRun(c) \/ GetRun(c)
  <2>1. \E l \in {"ask", "offer", "rolling", "done", "cancel"} : pc' = [pc EXCEPT ![c] = l]
    BY <1>3 DEF RequestRollback, ReadRun, GetRun
  <2>2. Known(c)'
    BY <1>1, <2>1, KnownOff DEF OwnLabels, BackupLabels, RunLabels, VerifyLabels, RollbackLabels
  <2>3. UNCHANGED <<run, step, point, item, saved, remote, adrift, landed, preview, at, verdict, todo, troubled>>
    BY <1>3 DEF RequestRollback, ReadRun, GetRun
  <2> QED  BY <2>1, <2>2, <2>3, BackFrame
<1>4. CASE OfferRollback(c) \/ CancelRun(c)
  <2>1. \E l \in {"rolling", "done"} : pc' = [pc EXCEPT ![c] = l]
    BY <1>4 DEF OfferRollback, CancelRun, Transition
  <2>2. Known(c)'
    BY <1>1, <2>1, KnownOff DEF OwnLabels, BackupLabels, RunLabels, VerifyLabels, RollbackLabels
  <2>3. run' # run => run' \in {"rollback_available", "cancelled"} /\ run # "rolling_back"
    BY <1>4, OnwardFacts DEF OfferRollback, CancelRun, Transition
  <2>4. UNCHANGED <<step, point, item, saved, remote, adrift, landed, preview, at, verdict, todo, troubled>>
    BY <1>4 DEF OfferRollback, CancelRun
  <2> QED  BY <1>1, <2>1, <2>2, <2>3, <2>4, BackFrame DEF Rows, Early
<1>5. CASE StartRolling(c)
  <2>1. \E l \in {"mark", "done"} : pc' = [pc EXCEPT ![c] = l]
    BY <1>5 DEF StartRolling, Transition
  <2>2. Known(c)'
    BY <1>1, <2>1 DEF Known, BackupLabels, RunLabels, VerifyLabels, Secured, Itemized
  <2>3. run' # run => run' = "rolling_back" /\ run # "rolling_back"
    BY <1>5, OnwardFacts DEF StartRolling, Transition
  <2>4. UNCHANGED <<step, point, item, saved, remote, adrift, landed, preview, at, verdict, todo, troubled>>
    BY <1>5 DEF StartRolling
  <2> QED  BY <1>1, <2>1, <2>2, <2>3, <2>4, BackFrame DEF Rows, Early
<1>6. CASE ReadItems(c)
  <2>1. pc'[c] = "begin" /\ todo'[c] = {t \in Target : item[t] \notin {"none", "rolled_back"}} /\ item' = item
    BY <1>1, <1>2, <1>6 DEF ReadItems
  <2>2. Known(c)'
    BY <2>1 DEF Known, BackupLabels, RunLabels, VerifyLabels, Secured, Itemized
  <2> QED  BY <1>2, <1>6, <2>2, BackFrame DEF ReadItems
<1>7. CASE ConnectForRollback(c)
  <2>1. Known(c)'
    BY <1>1, <1>7
       DEF ConnectForRollback, Known, BackupLabels, RunLabels, VerifyLabels, Secured, Itemized
  <2> QED  BY <1>7, <2>1, BackFrame DEF ConnectForRollback
<1>8. CASE EndRollback(c)
  <2>1. \E l : pc' = [pc EXCEPT ![c] = l] /\ l = "done"
    BY <1>8 DEF EndRollback, Transition
  <2>2. Known(c)'
    BY <1>1, <2>1, KnownOff DEF OwnLabels, BackupLabels, RunLabels, VerifyLabels, RollbackLabels
  <2>3. run = "rolling_back" /\ pc[c] = "final"
    BY <1>1, <1>8 DEF EndRollback, Fits, RollbackLabels
  <2>4. run' # run => run' = verdict[c].run /\ run' \in {"rolled_back", "rollback_partial", "rollback_failed", "uncertain"}
    BY <1>8, <2>3, OnwardFacts DEF EndRollback, Transition
  <2>5. verdict[c].run = "rolled_back" => point = "rolled_back"
    BY <1>1, <2>3 DEF Known
  <2>6. step["rollback"] # "running"
    BY <1>1, <2>3 DEF Known
  <2> QED  BY <1>2, <1>8, <2>1, <2>2, <2>4, <2>5, <2>6, BackFrame DEF EndRollback, Early
<1> QED  BY <1>3, <1>4, <1>5, <1>6, <1>7, <1>8

\* A step of the owner, from what it does to the rows and to what it knows.
LEMMA BackOwner ==
    ASSUME RunInv, NEW c \in Call, pc[c] \in OwnLabels, NEW l, pc' = [pc EXCEPT ![c] = l],
           Kept', Rows', Known(c)'
    PROVE  BackInv'
BY OwnerKnows DEF BackInv

\* The restore point is made while nothing has been touched.
LEMMA BackCapture ==
    ASSUME RunInv, BackInv, NEW c \in Call,
           CreatePoint(c) \/ Capture(c) \/ CaptureFails(c) \/ MarkAvailable(c)
    PROVE  BackInv'
<1>1. Known(c) /\ Fits(pc[c], run) /\ pc \in [Call -> Label] /\ run \in RunStatus /\ Rows /\ Kept
  BY DEF RunInv, OwnInv, TypeOK, BackInv
<1>2. at \in [Call -> Target] /\ item \in [Target -> ItemStatus] /\ saved \in [Target -> {"none", "old", "new"}]
  BY DEF RunInv, TypeOK
<1> USE DEF Goto, Forget, tables, server, world
<1>3. pc[c] \in {"point", "link", "capture", "available"} /\ pc[c] \in OwnLabels /\ pc[c] \in BackupLabels
  BY DEF CreatePoint, Capture, CaptureFails, MarkAvailable, OwnLabels, BackupLabels
<1>4. /\ Untouched /\ point \in {"none", "creating"} /\ run \in {"backing_up", "cancelled"}
      /\ step["rollback"] \notin {"none", "running", "succeeded", "cancelled", "skipped"}
  BY <1>1, <1>3 DEF Known, Fits, Rows
<1>5. /\ Untouched' /\ UNCHANGED <<run, step, preview>> /\ point' \in {"creating", "failed", "available"}
      /\ \E l : pc' = [pc EXCEPT ![c] = l]
  BY <1>1, <1>4 DEF CreatePoint, Capture, CaptureFails, MarkAvailable, Untouched, Known
<1>6. Rows'
  BY <1>4, <1>5 DEF Rows, Early
<1>7. CASE Capture(c)
  <2>1. /\ at[c] \in Target /\ item' = [item EXCEPT ![at[c]] = "available"]
        /\ saved' = [saved EXCEPT ![at[c]] = remote[at[c]]] /\ point' = point /\ point = "creating"
        /\ remote[at[c]] = "old" /\ remote' = remote /\ landed' = landed
    BY <1>1, <1>2, <1>4, <1>7 DEF Capture, Untouched, Known
  <2>2. Kept'
    BY <1>1, <1>2, <1>5, <2>1 DEF Kept, Clean
  <2>3. Known(c)'
    <3>1. \A t \in Target : t < at[c] => item[t] = "available"
      BY <1>1, <1>7 DEF Capture, Known
    <3>2. CASE at[c] = N
      <4>1. \A t \in Target : item'[t] = "available"
        BY <1>2, <2>1, <3>1, <3>2, TargetAssumption DEF Target
      <4> QED  BY <1>1, <1>4, <1>5, <1>7, <2>1, <3>2, <4>1
               DEF Capture, Known, BackupLabels, RunLabels, VerifyLabels, Secured, Itemized
    <3>3. CASE at[c] # N
      <4>1. at'[c] = at[c] + 1 /\ pc'[c] = "capture"
        BY <1>1, <1>2, <1>7, <3>3 DEF Capture
      <4>2. \A t \in Target : t < at'[c] => item'[t] = "available"
        BY <1>2, <2>1, <3>1, <4>1, TargetAssumption DEF Target
      <4> QED  BY <1>4, <1>5, <2>1, <4>1, <4>2
               DEF Known, BackupLabels, RunLabels, VerifyLabels, Secured, Itemized
    <3> QED  BY <3>2, <3>3
  <2> QED  BY <1>3, <1>5, <1>6, <2>2, <2>3, BackOwner
<1>8. CASE CreatePoint(c) \/ CaptureFails(c) \/ MarkAvailable(c)
  <2>1. UNCHANGED <<item, saved, remote, landed>>
    BY <1>8 DEF CreatePoint, CaptureFails, MarkAvailable
  <2>2. Kept'
    BY <1>1, <1>5, <2>1 DEF Kept, Clean
  <2>3. Known(c)'
    BY <1>1, <1>4, <1>5, <1>8, <2>1
       DEF CreatePoint, CaptureFails, MarkAvailable, Known, BackupLabels, RunLabels, VerifyLabels, Secured, Itemized
  <2> QED  BY <1>3, <1>5, <1>6, <2>2, <2>3, BackOwner
<1> QED  BY <1>7, <1>8

\* A command changes a target that has its backup and its item.
LEMMA BackWork ==
    ASSUME RunInv, BackInv, NEW c \in Call, Work(c)
    PROVE  BackInv'
<1>1. Known(c) /\ Fits(pc[c], run) /\ pc \in [Call -> Label] /\ Rows /\ Kept
  BY DEF RunInv, OwnInv, TypeOK, BackInv
<1>2. pc[c] = "work" /\ pc[c] \in OwnLabels /\ run \in {"running", "cancelled"}
  BY <1>1 DEF Work, OwnLabels, RunLabels, Fits
<1>3. /\ point = "available" /\ \A t \in Target : item[t] = "available"
      /\ step["rollback"] \notin {"none", "running", "succeeded", "cancelled", "skipped"}
  BY <1>1, <1>2 DEF Known, Secured, RunLabels, Rows
<1>4. UNCHANGED <<run, step, point, item, saved, preview>> /\ pc' = [pc EXCEPT ![c] = "record"]
  BY DEF Work, tables, Goto
<1>5. Kept'
  BY <1>1, <1>3, <1>4 DEF Kept
<1>6. Rows'
  BY <1>2, <1>3, <1>4 DEF Rows, Early
<1>7. Known(c)'
  BY <1>1, <1>3, <1>4 DEF Known, BackupLabels, RunLabels, VerifyLabels, Secured, Itemized
<1> QED  BY <1>2, <1>4, <1>5, <1>6, <1>7, BackOwner

\* The rollback step and the point of a rollback that begins, cannot begin or
\* ends.
LEMMA BackPoint ==
    ASSUME RunInv, BackInv, NEW c \in Call,
           \/ MarkRollback(c) \/ BeginRollback(c) \/ ConnectFails(c) \/ FinishRollback(c) \/ ReportRollback(c)
    PROVE  BackInv'
<1>1. Known(c) /\ Fits(pc[c], run) /\ pc \in [Call -> Label] /\ Rows /\ Kept
  BY DEF RunInv, OwnInv, TypeOK, BackInv
<1>2. at \in [Call -> Target] /\ verdict \in [Call -> Verdict] /\ todo \in [Call -> SUBSET Target]
      /\ step \in [Phase -> StepStatus]
  BY DEF RunInv, TypeOK
<1> USE DEF Goto, tables, server, world
<1>3. pc[c] \in RollbackLabels /\ pc[c] \in OwnLabels /\ run = "rolling_back"
  BY <1>1 DEF MarkRollback, BeginRollback, ConnectFails, FinishRollback, ReportRollback, RollbackLabels,
              OwnLabels, Fits
<1>4. UNCHANGED <<run, item, saved, remote, adrift, landed, preview>>
  BY DEF MarkRollback, BeginRollback, ConnectFails, FinishRollback, ReportRollback
<1>5. \E l : pc' = [pc EXCEPT ![c] = l]
  BY DEF MarkRollback, BeginRollback, ConnectFails, FinishRollback, ReportRollback, StepTo
<1>6. CASE MarkRollback(c)
  <2>1. point' = point /\ step'["rollback"] \in {step["rollback"], "running"} /\ pc'[c] \in {"read", "done"}
        /\ (step'["rollback"] # step["rollback"] => step["rollback"] # "none")
    BY <1>1, <1>2, <1>6, StepOnwardClosed DEF MarkRollback, StepTo, Phase, StepOnward
  <2>2. Kept' /\ Rows'
    BY <1>1, <1>3, <1>4, <2>1 DEF Kept, Rows, Early, Untouched, Clean
  <2>3. Known(c)'
    BY <2>1 DEF Known, BackupLabels, RunLabels, VerifyLabels, Secured, Itemized
  <2> QED  BY <1>3, <1>5, <2>2, <2>3, BackOwner
<1>7. CASE BeginRollback(c)
  <2>1. step' = step /\ todo' = todo /\ troubled' = troubled
        /\ \/ point \in Usable /\ point' = "rolling_back" /\ pc'[c] = "reach"
           \/ point' = point /\ pc'[c] = "report" /\ verdict'[c] = Broken
    BY <1>1, <1>2, <1>7 DEF BeginRollback
  <2>2. Kept'
    BY <1>1, <1>4, <2>1 DEF Kept, Untouched, Clean
  <2>3. Rows'
    BY <1>1, <1>3, <1>4, <2>1 DEF Rows, Early, Untouched, Usable
  <2>4. \A t \in Target : c \notin troubled => t \in todo[c] \/ item[t] \in {"none", "rolled_back"}
    BY <1>1, <1>7 DEF BeginRollback, Known
  <2>5. Known(c)'
    BY <1>4, <2>1, <2>4 DEF Known, BackupLabels, RunLabels, VerifyLabels, Secured, Itemized, Broken
  <2> QED  BY <1>3, <1>5, <2>2, <2>3, <2>5, BackOwner
<1>8. CASE ConnectFails(c)
  <2>1. step' = step /\ point = "rolling_back" /\ point' = "failed" /\ pc'[c] = "report"
        /\ verdict'[c] \in {Broken, Lost}
    BY <1>1, <1>2, <1>8 DEF ConnectFails, Known, Itemized
  <2>2. Kept'
    BY <1>1, <1>4, <2>1 DEF Kept, Untouched, Clean
  <2>3. Rows'
    BY <1>1, <1>3, <1>4, <2>1 DEF Rows, Early, Untouched
  <2>4. Known(c)'
    BY <2>1 DEF Known, BackupLabels, RunLabels, VerifyLabels, Secured, Itemized, Broken, Lost
  <2> QED  BY <1>3, <1>5, <2>2, <2>3, <2>4, BackOwner
<1>9. CASE FinishRollback(c)
  <2>1. /\ step' = step /\ point = "rolling_back" /\ pc'[c] = "report" /\ todo[c] = {}
        /\ point' = PointAfter(c) /\ verdict'[c] = RunAfter(c)
        /\ \A t \in Target : c \notin troubled => item[t] \in {"none", "rolled_back"}
    BY <1>1, <1>2, <1>9 DEF FinishRollback, Known, Itemized
  <2>2. point' \in {"rolled_back", "partial", "failed"} /\ (point' = "rolled_back" => c \notin troubled)
    BY <2>1 DEF PointAfter
  <2>3. Kept'
    BY <1>1, <1>4, <2>1, <2>2 DEF Kept, Untouched, Clean
  <2>4. Rows'
    BY <1>1, <1>3, <1>4, <2>1, <2>2 DEF Rows, Early, Untouched
  <2>5. \/ verdict'[c].step \in {"failed", "uncertain"} /\ verdict'[c].run # "rolled_back"
        \/ verdict'[c].step = "succeeded" /\ point' = "rolled_back"
    BY <2>1 DEF RunAfter, PointAfter, Lost
  <2>6. Known(c)'
    BY <2>1, <2>5 DEF Known, BackupLabels, RunLabels, VerifyLabels, Secured, Itemized
  <2> QED  BY <1>3, <1>5, <2>3, <2>4, <2>6, BackOwner
<1>10. CASE ReportRollback(c)
  <2>1. \/ verdict[c].step \in {"failed", "uncertain"} /\ verdict[c].run # "rolled_back"
        \/ verdict[c].step = "succeeded" /\ point = "rolled_back"
    BY <1>1, <1>10 DEF ReportRollback, Known
  <2>2. /\ point' = point /\ verdict' = verdict
        /\ \/ step'["rollback"] = step["rollback"] /\ pc'[c] = "done"
           \/ /\ step'["rollback"] = verdict[c].step /\ pc'[c] = "final"
              /\ step["rollback"] # "none"
    BY <1>1, <1>2, <1>10, StepOnwardClosed DEF ReportRollback, StepTo, Phase, StepOnward
  <2>3. Kept'
    BY <1>1, <1>4, <2>2 DEF Kept, Untouched, Clean
  <2>4. Rows'
    BY <1>1, <1>3, <1>4, <2>1, <2>2 DEF Rows, Early, Untouched
  <2>5. Known(c)'
    BY <2>1, <2>2 DEF Known, BackupLabels, RunLabels, VerifyLabels, Secured, Itemized
  <2> QED  BY <1>3, <1>5, <2>3, <2>4, <2>5, BackOwner
<1> QED  BY <1>6, <1>7, <1>8, <1>9, <1>10

\* The items of a rollback, one after the other.
LEMMA BackItems ==
    ASSUME RunInv, BackInv, NEW c \in Call, NextItem(c) \/ Restore(c) \/ RecordItem(c)
    PROVE  BackInv'
<1>1. Known(c) /\ Fits(pc[c], run) /\ pc \in [Call -> Label] /\ Rows /\ Kept
  BY DEF RunInv, OwnInv, TypeOK, BackInv
<1>2. /\ at \in [Call -> Target] /\ verdict \in [Call -> Verdict] /\ todo \in [Call -> SUBSET Target]
      /\ item \in [Target -> ItemStatus] /\ remote \in [Target -> {"old", "new"}] /\ landed \subseteq Target
  BY DEF RunInv, TypeOK
<1> USE DEF Goto, Forget, tables, server, world
<1>3. pc[c] \in {"item", "restore", "note"} /\ pc[c] \in OwnLabels /\ run = "rolling_back"
  BY <1>1 DEF NextItem, Restore, RecordItem, RollbackLabels, OwnLabels, Fits
<1>4. /\ point = "rolling_back" /\ UNCHANGED <<run, step, point, saved, adrift, preview>>
      /\ \A t \in Target : c \notin troubled => t \in todo[c] \/ item[t] \in {"none", "rolled_back"}
  BY <1>1, <1>3 DEF NextItem, Restore, RecordItem, Known, Itemized
<1>5. CASE NextItem(c)
  <2>1. PICK t \in todo[c] :
          /\ item' = [item EXCEPT ![t] = IF @ \in {"available", "failed"} THEN "rolling_back" ELSE @]
          /\ at' = [at EXCEPT ![c] = t]
          /\ verdict' = [verdict EXCEPT ![c] = IF item[t] \in {"available", "failed"}
                                               THEN @ ELSE Broken]
          /\ pc' = [pc EXCEPT ![c] = IF item[t] \in {"available", "failed"} THEN "restore" ELSE "report"]
    BY <1>5 DEF NextItem
  <2>2. UNCHANGED <<remote, landed, todo, troubled>> /\ t \in Target
    BY <1>2, <1>5 DEF NextItem
  <2>3. Kept'
    BY <1>1, <1>2, <1>4, <2>1, <2>2 DEF Kept, Untouched, Clean
  <2>4. Rows'
    BY <1>1, <1>3, <1>4, <2>2 DEF Rows, Early, Untouched
  <2>5. Known(c)'
    BY <1>1, <1>2, <1>4, <2>1, <2>2
       DEF Known, BackupLabels, RunLabels, VerifyLabels, Secured, Itemized, Broken
  <2> QED  BY <1>3, <2>1, <2>3, <2>4, <2>5, BackOwner
<1>6. CASE Restore(c)
  <2>1. /\ item' = item /\ at' = at /\ todo' = todo /\ troubled' = troubled /\ pc' = [pc EXCEPT ![c] = "note"]
        /\ item[at[c]] = "rolling_back" /\ at[c] \in todo[c] /\ at[c] \in Target /\ saved[at[c]] = "old"
    BY <1>1, <1>2, <1>6 DEF Restore, Known, Kept
  <2>2. \/ remote' = [remote EXCEPT ![at[c]] = "old"] /\ landed' = landed \ {at[c]}
        \/ UNCHANGED <<remote, landed>> /\ verdict'[c] # Fine
    BY <1>2, <1>6, <2>1 DEF Restore, Fine, Broken, Lost
  <2>3. Untouched => Untouched'
    BY <1>2, <1>4, <2>1, <2>2 DEF Untouched
  <2>4. \A t \in Target : Clean(t) => Clean(t)'
    BY <1>2, <2>1, <2>2 DEF Clean
  <2>5. Kept'
    BY <1>1, <1>4, <2>1, <2>3, <2>4 DEF Kept
  <2>6. Rows'
    BY <1>1, <1>3, <1>4, <2>3 DEF Rows, Early
  <2>7. verdict'[c] = Fine => Clean(at[c])'
    BY <1>2, <2>1, <2>2 DEF Clean
  <2>8. Known(c)'
    BY <1>1, <1>4, <2>1, <2>7 DEF Known, BackupLabels, RunLabels, VerifyLabels, Secured, Itemized
  <2> QED  BY <1>3, <2>1, <2>5, <2>6, <2>8, BackOwner
<1>7. CASE RecordItem(c)
  <2>1. /\ UNCHANGED <<remote, landed>> /\ pc' = [pc EXCEPT ![c] = "item"]
        /\ item' = [item EXCEPT ![at[c]] = IF verdict[c] = Fine THEN "rolled_back" ELSE "failed"]
        /\ at[c] \in Target /\ item[at[c]] = "rolling_back" /\ (verdict[c] = Fine => Clean(at[c]))
        /\ verdict[c] # Fine => c \in troubled'
        /\ verdict[c] = Fine => todo'[c] = todo[c] \ {at[c]} /\ troubled' = troubled
    BY <1>1, <1>2, <1>7 DEF RecordItem, Known, Fine, Lost
  <2>2. Kept'
    BY <1>1, <1>2, <1>4, <2>1 DEF Kept, Untouched, Clean
  <2>3. Rows'
    BY <1>1, <1>3, <1>4, <2>1 DEF Rows, Early, Untouched
  <2>4. \A t \in Target : c \notin troubled' => t \in todo'[c] \/ item'[t] \in {"none", "rolled_back"}
    BY <1>2, <1>4, <2>1
  <2>5. Known(c)'
    BY <1>1, <1>4, <2>1, <2>4 DEF Known, BackupLabels, RunLabels, VerifyLabels, Secured, Itemized
  <2> QED  BY <1>3, <2>1, <2>2, <2>3, <2>5, BackOwner
<1> QED  BY <1>5, <1>6, <1>7

\* A statement that fails, in whatever place.
LEMMA BackFault ==
    ASSUME RunInv, BackInv, NEW c \in Call, Fault(c)
    PROVE  BackInv'
<1>1. Known(c) /\ Fits(pc[c], run) /\ pc \in [Call -> Label] /\ Rows /\ Kept
  BY DEF RunInv, OwnInv, TypeOK, BackInv
<1>2. at \in [Call -> Target] /\ verdict \in [Call -> Verdict] /\ todo \in [Call -> SUBSET Target]
  BY DEF RunInv, TypeOK
<1>3. /\ UNCHANGED <<run, step, item, saved, remote, adrift, landed, preview>>
      /\ pc' = [pc EXCEPT ![c] = CASE pc[c] \in Capturing -> "unsaved" [] pc[c] \in Restoring -> "report"
                                   [] OTHER -> "done"]
  BY DEF Fault, Goto, server
<1>4. Untouched' <=> Untouched
  BY <1>3 DEF Untouched
<1>5. CASE pc[c] \in Capturing
  <2>1. /\ pc[c] \in BackupLabels /\ pc[c] \in OwnLabels /\ pc'[c] = "unsaved"
        /\ Untouched /\ step["rollback"] # "none" /\ point \in {"none", "creating"}
        /\ run \in {"backing_up", "cancelled"}
    <3>1. pc[c] \in {"point", "link", "capture", "available"} /\ pc[c] \in BackupLabels /\ pc[c] \in OwnLabels
      BY <1>5 DEF Capturing, BackupLabels, OwnLabels
    <3>2. pc'[c] = "unsaved"
      BY <1>1, <1>3, <1>5 DEF Capturing, Restoring
    <3> QED  BY <1>1, <3>1, <3>2 DEF Known, Fits
  <2>2. point' \in {point, "failed"}
    BY DEF Fault
  <2>3. Kept'
    BY <1>1, <1>3, <1>4, <2>1, <2>2 DEF Kept, Clean
  <2>4. Rows'
    BY <1>1, <1>3, <1>4, <2>1, <2>2 DEF Rows, Early
  <2>5. Known(c)'
    BY <1>3, <1>4, <2>1 DEF Known, BackupLabels, RunLabels, VerifyLabels, Secured, Itemized
  <2> QED  BY <1>3, <2>1, <2>3, <2>4, <2>5, BackOwner
<1>6. CASE pc[c] \in Restoring
  <2>1. pc[c] \in OwnLabels /\ pc'[c] = "report" /\ verdict'[c] = Broken /\ point' = point
    BY <1>1, <1>2, <1>3, <1>6 DEF Fault, Capturing, Restoring, RollbackLabels, OwnLabels
  <2>2. Kept' /\ Rows'
    BY <1>1, <1>3, <1>4, <2>1 DEF Kept, Clean, Rows
  <2>3. Known(c)'
    BY <2>1 DEF Known, BackupLabels, RunLabels, VerifyLabels, Secured, Itemized, Broken
  <2> QED  BY <1>3, <2>1, <2>2, <2>3, BackOwner
<1>7. CASE pc[c] \notin Capturing \cup Restoring
  <2>1. pc'[c] = "done" /\ point' = point
    BY <1>1, <1>3, <1>7 DEF Fault
  <2>2. Known(c)'
    BY <2>1, KnownOff DEF OwnLabels, BackupLabels, RunLabels, VerifyLabels, RollbackLabels
  <2>3. \A d \in Call : d # c => /\ at'[d] = at[d] /\ verdict'[d] = verdict[d] /\ todo'[d] = todo[d]
                                 /\ (d \in troubled' <=> d \in troubled)
    BY <1>2 DEF Fault, Forget
  <2> QED  BY <1>3, <2>1, <2>2, <2>3, BackFrame
<1> QED  BY <1>5, <1>6, <1>7

\* A command that was given up takes effect.
LEMMA BackLand ==
    ASSUME RunInv, BackInv, NEW t \in Target, Land(t)
    PROVE  BackInv'
<1>1. pc \in [Call -> Label] /\ Rows /\ Kept /\ \A c \in Call : Known(c)
  BY DEF RunInv, TypeOK, BackInv
<1>2. remote \in [Target -> {"old", "new"}] /\ at \in [Call -> Target]
  BY DEF RunInv, TypeOK
<1>3. /\ UNCHANGED <<run, step, point, item, saved, preview, pc, at, verdict, todo, troubled>>
      /\ ~Untouched /\ remote' = [remote EXCEPT ![t] = "new"]
      /\ landed' = IF item[t] \in {"rolling_back", "rolled_back"} THEN landed \cup {t} ELSE landed
  BY DEF Land, tables, locals, Untouched
<1>4. \A u \in Target : item[u] \in {"rolling_back", "rolled_back"} /\ Clean(u) => Clean(u)'
  BY <1>2, <1>3 DEF Clean
<1>5. Kept'
  BY <1>1, <1>3, <1>4 DEF Kept
<1>6. Rows'
  BY <1>1, <1>3 DEF Rows
<1>7. ASSUME NEW c \in Call PROVE Known(c)'
  <2>1. Known(c) /\ at[c] \in Target
    BY <1>1, <1>2
  <2>2. pc[c] = "note" /\ verdict[c] = Fine => Clean(at[c])'
    <3>1. pc[c] = "note" /\ verdict[c] = Fine => Clean(at[c]) /\ item[at[c]] = "rolling_back"
      BY <2>1 DEF Known
    <3>2. at' = at
      BY <1>3
    <3> QED  BY <1>4, <2>1, <3>1, <3>2 DEF Clean
  <2>3. pc[c] \notin {"waiting"} \cup BackupLabels
    BY <1>3, <2>1 DEF Known
  <2> QED  BY <1>3, <2>1, <2>2, <2>3 DEF Known
<1> QED  BY <1>5, <1>6, <1>7 DEF BackInv

\* The application exits and starts again.
LEMMA BackRestart ==
    ASSUME RunInv, BackInv, Exit \/ Open
    PROVE  BackInv'
<1>1. /\ pc \in [Call -> Label] /\ Rows /\ Kept /\ Halted
      /\ \A c \in Call : Known(c) /\ Fits(pc[c], run)
      /\ step \in [Phase -> StepStatus] /\ item \in [Target -> ItemStatus] /\ at \in [Call -> Target]
  BY DEF RunInv, OwnInv, TypeOK, BackInv
<1>2. \A c \in Call : pc'[c] \in {"idle", "done"}
  BY <1>1 DEF Exit, Open, Halted, locals
<1>3. \A c \in Call : Known(c)'
  BY <1>2, KnownOff DEF OwnLabels, BackupLabels, RunLabels, VerifyLabels, RollbackLabels
<1>4. CASE Exit
  <2>1. UNCHANGED <<run, step, point, item, saved, remote, landed>> /\ preview' = "over"
    BY <1>4 DEF Exit, tables
  <2>2. CASE \E d \in Call : pc[d] = "work"
    <3>1. /\ point = "available" /\ step["rollback"] # "none" /\ run \in {"running", "cancelled"}
          /\ \A t \in Target : item[t] = "available"
      BY <1>1, <2>2 DEF Known, Fits, Secured, RunLabels
    <3> QED  BY <1>1, <1>3, <2>1, <3>1 DEF BackInv, Kept, Rows, Early
  <2>3. CASE ~\E d \in Call : pc[d] = "work"
    <3>1. adrift' = adrift
      BY <1>4, <2>3 DEF Exit
    <3> QED  BY <1>1, <1>3, <2>1, <3>1 DEF BackInv, Kept, Rows, Early, Untouched, Clean
  <2> QED  BY <2>2, <2>3
<1>5. CASE Open
  <2>1. /\ UNCHANGED <<saved, remote, adrift, landed, preview>> /\ preview = "over"
        /\ run' = IF run \in Interrupted THEN "uncertain" ELSE run
        /\ point' = IF point = "rolling_back" THEN "partial" ELSE point
        /\ \A t \in Target : item'[t] = IF item[t] = "rolling_back" THEN "failed" ELSE item[t]
    BY <1>1, <1>5 DEF Open, server, Halted
  <2>2. step'["rollback"] = IF step["rollback"] = "running" /\ run \in Interrupted
                            THEN "uncertain" ELSE step["rollback"]
    BY <1>5 DEF Open, Phase
  <2>3. Kept'
    BY <1>1, <2>1 DEF Kept, Untouched, Clean
  <2>4. Rows'
    BY <1>1, <2>1, <2>2 DEF Rows, Early, Untouched, Interrupted, Remote
  <2> QED  BY <1>3, <2>3, <2>4 DEF BackInv
<1> QED  BY <1>4, <1>5

\* The preview.
LEMMA BackPreflight ==
    ASSUME RunInv, BackInv, Preflight
    PROVE  BackInv'
<1>1. /\ pc \in [Call -> Label] /\ Rows /\ Kept /\ PreviewMatches
      /\ \A c \in Call : Known(c)
  BY DEF RunInv, OwnInv, TypeOK, BackInv
<1>2. UNCHANGED <<point, item, saved, remote, adrift, landed, pc, at, verdict, todo, troubled>>
  BY DEF Preflight, BeginPreflight, PreflightFails, CreateSteps, CompletePreflight, server, locals
<1>3. Kept'
  BY <1>1, <1>2 DEF Kept, Untouched, Clean
<1>4. step'["rollback"] = step["rollback"] \/ step'["rollback"] = "pending"
  BY DEF Preflight, BeginPreflight, PreflightFails, CreateSteps, CompletePreflight, Phase
<1>5. \A c \in Call : Known(c)'
  BY <1>1, <1>2, <1>4 DEF Known, Untouched, Clean
<1>6. Rows'
  <2>1. CASE BeginPreflight
    BY <1>1, <1>2, <2>1 DEF BeginPreflight, PreviewMatches, Rows, Early, Untouched
  <2>2. CASE PreflightFails
    BY <1>1, <1>2, <2>2 DEF PreflightFails, PreviewMatches, Rows, Early, Untouched
  <2>3. CASE CreateSteps
    BY <1>1, <1>2, <2>3 DEF CreateSteps, PreviewMatches, Rows, Early, Untouched, Phase
  <2>4. CASE CompletePreflight
    BY <1>1, <1>2, <2>4, OnwardFacts DEF CompletePreflight, PreviewMatches, Rows, Early, Untouched
  <2> QED  BY <2>1, <2>2, <2>3, <2>4 DEF Preflight
<1> QED  BY <1>3, <1>5, <1>6 DEF BackInv

-----------------------------------------------------------------------------
\* The rows, the items and what an owner knows are inductive.
THEOREM BackInvariance == Spec => []BackInv
<1>1. Init => BackInv
  BY DEF Init, BackInv, Kept, Rows, Early, Known, Untouched, Clean, Phase, BackupLabels, RunLabels, VerifyLabels,
         Secured, Itemized
<1>2. RunInv /\ BackInv /\ [Next]_vars => BackInv'
  <2> SUFFICES ASSUME RunInv, BackInv, [Next]_vars PROVE BackInv'
    OBVIOUS
  <2>1. ASSUME NEW c \in Call, Prepare(c) PROVE BackInv'
    BY <2>1, BackPrepare, BackCapture DEF Prepare
  <2>2. ASSUME NEW c \in Call, Change(c) PROVE BackInv'
    BY <2>2, BackChange, BackWork DEF Change
  <2>3. ASSUME NEW c \in Call, Rollback(c) PROVE BackInv'
    BY <2>3, BackRollback, BackPoint, BackItems DEF Rollback
  <2>4. ASSUME NEW c \in Call, GetRun(c) \/ CancelRun(c) \/ Fault(c) PROVE BackInv'
    BY <2>4, BackRollback, BackFault
  <2>5. CASE Preflight \/ Exit \/ Open \/ \E t \in Target : Land(t)
    BY <2>5, BackPreflight, BackRestart, BackLand
  <2>6. CASE UNCHANGED vars
    <3>1. UNCHANGED <<run, step, point, item, saved, remote, adrift, landed, preview, pc, at, verdict, todo,
                      troubled>>
      BY <2>6 DEF vars, tables, server, locals
    <3> QED  BY <3>1 DEF BackInv, Kept, Rows, Known, Untouched, Clean
  <2> QED  BY <2>1, <2>2, <2>3, <2>4, <2>5, <2>6 DEF Next
<1> QED  BY <1>1, <1>2, Invariance, PTL DEF Spec

\* run_dangerous and rollback_operation: a run shown as rolled back has every
\* target as it was, but for commands that were given up and took effect later.
THEOREM RolledBackRunsAreOriginal == Spec => []RolledBackIsOriginal
<1>1. BackInv => RolledBackIsOriginal
  BY DEF BackInv, Rows, Kept, Clean, Untouched, RolledBackIsOriginal
<1> QED  BY <1>1, BackInvariance, PTL

\* Until then what the run changed can be restored: backup, item, point,
\* status and rollback step all lead back.
THEOREM ThereIsAWayBack == Spec => []WayBack
<1>1. RunInv /\ BackInv => WayBack
  <2> SUFFICES ASSUME RunInv, BackInv, run # "rolled_back",
                      NEW s \in Target \ landed, remote[s] = "new"
               PROVE  /\ \A t \in Target \ landed : remote[t] = "new" =>
                           item[t] \in {"available", "rolling_back", "failed"} /\ saved[t] = "old"
                      /\ point \in Usable \cup {"rolling_back"}
                      /\ run \in Offered \cup Remote \cup {"rollback_available", "cancelled"}
                      /\ run \in Offered \cup {"rollback_available"} =>
                           step["rollback"] \in {"pending", "failed", "uncertain"}
    BY DEF WayBack
  <2>1. /\ ~Untouched /\ Kept /\ Rows /\ item \in [Target -> ItemStatus] /\ point \in PointStatus
        /\ run \in RunStatus /\ step["rollback"] \in StepStatus /\ ~Clean(s)
    BY DEF Untouched, Clean, BackInv, RunInv, TypeOK, Phase
  <2>2. \A t \in Target \ landed : remote[t] = "new" =>
           item[t] \in {"available", "rolling_back", "failed"} /\ saved[t] = "old"
    BY <2>1 DEF Kept, Clean, ItemStatus
  <2>3. point # "rolled_back"
    BY <2>1, <2>2 DEF Kept
  <2>4. point \in Usable \cup {"rolling_back"}
    BY <2>1, <2>3 DEF Rows, PointStatus, Usable
  <2>5. run \in Offered \cup Remote \cup {"rollback_available", "cancelled"}
    BY <2>1, RunStatusIs DEF Rows, Early, Offered, Remote
  <2>6. run \in Offered \cup {"rollback_available"} => step["rollback"] \in {"pending", "failed", "uncertain"}
    BY <2>1, <2>3, StepOnwardClosed DEF Rows, Offered
  <2> QED  BY <2>2, <2>4, <2>5, <2>6
<1> QED  BY <1>1, Invariance, BackInvariance, PTL
=============================================================================
