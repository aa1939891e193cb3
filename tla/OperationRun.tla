---------------------------- MODULE OperationRun ----------------------------
(***************************************************************************)
(* One run of a dangerous operation (OperationService::run_dangerous): the *)
(* preview, its confirmation, the restore point taken before the change,   *)
(* the change, its verification, the automatic rollback after a failure,   *)
(* the rollback a user asks for, cancellation, exit and recovery.  Every   *)
(* statement and every remote command is a step of its own; calls          *)
(* interleave between them.                                                *)
(*                                                                         *)
(* The operation changes N targets: execution step t changes target t from *)
(* "old" to "new", restore item t is its backup.  The phases backup,       *)
(* verify and rollback have one row each in operation_steps.  A change of  *)
(* the IP address, with its timer on the server, is not modelled here.     *)
(***************************************************************************)
EXTENDS Integers

CONSTANTS
    N,           \* number of targets
    Starter,     \* calls of start_with_cancel for the preview
    Roller,      \* calls of rollback_operation
    Canceller,   \* calls of cancel
    MaxFailures  \* bound: statements that fail and exits of the application

ASSUME TargetAssumption == N \in Nat \ {0}
ASSUME CallsAssumption == /\ Starter \cap Roller = {}
                          /\ Starter \cap Canceller = {}
                          /\ Roller \cap Canceller = {}
ASSUME LimitAssumption == MaxFailures \in Nat

VARIABLES
    run,       \* status in operation_runs
    step,      \* status in operation_steps of the backup, verify and rollback rows
    executed,  \* status in operation_steps of the execution steps
    point,     \* status in operation_restore_points; "none" before create
    item,      \* status in operation_restore_items; "none" before add_item
    saved,     \* what the backup of each target holds
    remote,    \* what each target is on the server
    adrift,    \* targets with a command that was given up but may be at work
    landed,    \* targets such a command changed since they were restored
    preview,   \* the next step of preflight
    pc,        \* the next step of each call
    at,        \* the target an execution or a capture is at
    verdict,   \* how the step and the run of a call are to end
    todo,      \* the items a rollback still has to restore, as it read them
    undone,    \* rollbacks that have restored an item
    troubled,  \* rollbacks that have a failure to report
    open,      \* the application is running
    failures

tables == <<run, step, executed, point, item, saved>>
server == <<remote, adrift, landed>>
locals == <<pc, at, verdict, todo, undone, troubled>>
world  == <<open, failures>>
vars   == <<tables, server, preview, locals, world>>

Target == 1 .. N
Call == Starter \cup Roller \cup Canceller
Phase == {"backup", "verify", "rollback"}

\* OperationStatus::can_transition_to.
Onward ==
    [validating           |-> {"preflighting", "failed", "cancelled"},
     preflighting         |-> {"preview_ready", "backing_up", "running", "failed", "cancelled",
                               "uncertain"},
     preview_ready        |-> {"waiting_confirmation", "backing_up", "running", "cancelled"},
     waiting_confirmation |-> {"backing_up", "cancelled"},
     backing_up           |-> {"running", "failed", "cancelled", "uncertain",
                               "rollback_available"},
     running              |-> {"verifying", "succeeded", "failed", "cancelled", "uncertain",
                               "rollback_available"},
     verifying            |-> {"succeeded", "failed", "cancelled", "uncertain",
                               "rollback_available"},
     uncertain            |-> {"succeeded", "rolled_back", "rollback_available"},
     failed               |-> {"rollback_available"},
     succeeded            |-> {"rollback_available"},
     rollback_partial     |-> {"rollback_available"},
     rollback_failed      |-> {"rollback_available"},
     rollback_available   |-> {"rolling_back"},
     rolling_back         |-> {"rolled_back", "rollback_partial", "rollback_failed", "uncertain"},
     rolled_back          |-> {},
     cancelled            |-> {}]

\* OperationStepStatus::can_transition_to.
StepOnward ==
    [none      |-> {},
     pending   |-> {"running", "cancelled", "skipped"},
     running   |-> {"succeeded", "failed", "cancelled", "uncertain"},
     failed    |-> {"running"},
     uncertain |-> {"running", "succeeded"},
     succeeded |-> {}, cancelled |-> {}, skipped |-> {}]

RunStatus == DOMAIN Onward
StepStatus == DOMAIN StepOnward
PointStatus == {"none", "creating", "available", "rolling_back", "rolled_back", "partial", "failed"}
ItemStatus == {"none", "available", "rolling_back", "rolled_back", "failed"}

\* A command's end as the phase sees it: the step's status and the run's, "none"
\* when the phase goes on.  A failure for want of a connection is uncertain.
Verdict == [step : StepStatus, run : RunStatus \cup {"none"}]
Fine == [step |-> "succeeded", run |-> "none"]
Bad == {[step |-> "cancelled", run |-> "cancelled"], [step |-> "uncertain", run |-> "uncertain"],
        [step |-> "failed", run |-> "failed"], [step |-> "failed", run |-> "uncertain"]}

\* What the run becomes when a rollback ends with an error.
Broken == [step |-> "failed", run |-> "rollback_failed"]
Lost == [step |-> "uncertain", run |-> "uncertain"]

\* Statuses rollback_operation starts from, and the points it accepts.
Offered == {"succeeded", "failed", "uncertain", "rollback_partial", "rollback_failed"}
Usable == {"available", "partial", "failed"}

\* Statuses cancel refuses, and those recover_interrupted looks for.
Remote == {"backing_up", "running", "verifying", "rolling_back"}
Interrupted == Remote \cup {"preflighting"}

Goto(c, label) == pc' = [pc EXCEPT ![c] = label]

\* Locals that are no longer used have the values they had at first.
Forget(c) == at' = [at EXCEPT ![c] = 1]

\* Mutant: transition without the comparison.
TransitionBlindly(c, to, label) == run' = to /\ Goto(c, label)

\* transition: the statement compares and sets; a refusal ends the call.
Transition(c, to, label) ==
    /\ run' = IF to \in Onward[run] THEN to ELSE run
    /\ Goto(c, IF to \in Onward[run] THEN label ELSE "done")

\* transition_step, for the single row of a phase and for an execution step.
StepTo(c, phase, to, label) ==
    /\ step' = [step EXCEPT ![phase] = IF to \in StepOnward[@] THEN to ELSE @]
    /\ Goto(c, IF to \in StepOnward[step[phase]] THEN label ELSE "done")

ExecutedTo(c, to, label) ==
    /\ executed' = [executed EXCEPT ![at[c]] = IF to \in StepOnward[@] THEN to ELSE @]
    /\ Goto(c, IF to \in StepOnward[executed[at[c]]] THEN label ELSE "done")

\* skip_pending_steps.
SkipFrom(t) == [u \in Target |-> IF u >= t /\ executed[u] = "pending" THEN "skipped" ELSE executed[u]]

-----------------------------------------------------------------------------
(* preflight                                                               *)

\* begin_preflight: the row is there, transition to preflighting.
BeginPreflight ==
    /\ open /\ preview = "begin"
    /\ run' = IF run = "validating" THEN "preflighting" ELSE run
    /\ preview' = IF run = "validating" THEN "probe" ELSE "over"
    /\ UNCHANGED <<step, executed, point, item, saved, server, locals, world>>

\* Connection, privilege, plan or preview command fails: mark_preflight_failed.
PreflightFails ==
    /\ open /\ preview = "probe"
    /\ run' = IF "failed" \in Onward[run] THEN "failed" ELSE run
    /\ preview' = "over"
    /\ UNCHANGED <<step, executed, point, item, saved, server, locals, world>>

\* create_steps.
CreateSteps ==
    /\ open /\ preview = "probe"
    /\ step' = [p \in Phase |-> "pending"]
    /\ executed' = [t \in Target |-> "pending"]
    /\ preview' = "ready"
    /\ UNCHANGED <<run, point, item, saved, server, locals, world>>

\* complete_preflight: transition to preview_ready.
CompletePreflight ==
    /\ open /\ preview = "ready"
    /\ run' = IF "preview_ready" \in Onward[run] THEN "preview_ready" ELSE run
    /\ preview' = "over"
    /\ UNCHANGED <<step, executed, point, item, saved, server, locals, world>>

-----------------------------------------------------------------------------
(* run_dangerous up to the change                                          *)

\* require_matching_preview.
RequirePreview(c) ==
    /\ open /\ c \in Starter /\ pc[c] = "idle"
    /\ run = "preview_ready"
    /\ Goto(c, "confirm")
    /\ UNCHANGED <<tables, server, preview, at, verdict, todo, undone, troubled, world>>

Confirm(c) ==
    /\ open /\ pc[c] = "confirm"
    /\ Transition(c, "waiting_confirmation", "waiting")
    /\ UNCHANGED <<step, executed, point, item, saved, server, preview, at, verdict, todo, undone,
                   troubled, world>>

\* The token a user's start carries is its own and nobody cancels it: only
\* batches share a token, and they have no dangerous operations.
AfterConfirmation(c) ==
    /\ open /\ pc[c] = "waiting"
    /\ Transition(c, "backing_up", "backup")
    /\ UNCHANGED <<step, executed, point, item, saved, server, preview, at, verdict, todo, undone,
                   troubled, world>>

StartBackup(c) ==
    /\ open /\ pc[c] = "backup"
    /\ StepTo(c, "backup", "running", "point")
    /\ UNCHANGED <<run, executed, point, item, saved, server, preview, at, verdict, todo, undone,
                   troubled, world>>

\* capture: create, connect, one item after the other, mark_available.
CreatePoint(c) ==
    /\ open /\ pc[c] = "point"
    /\ point' = "creating"
    /\ Goto(c, "link")
    /\ UNCHANGED <<run, step, executed, item, saved, server, preview, at, verdict, todo, undone,
                   troubled, world>>

ConnectForBackup(c) ==
    /\ open /\ pc[c] = "link"
    /\ Goto(c, "capture")
    /\ at' = [at EXCEPT ![c] = 1]
    /\ UNCHANGED <<tables, server, preview, verdict, todo, undone, troubled, world>>

Capture(c) ==
    /\ open /\ pc[c] = "capture"
    /\ item' = [item EXCEPT ![at[c]] = "available"]
    /\ saved' = [saved EXCEPT ![at[c]] = remote[at[c]]]
    /\ IF at[c] = N THEN Goto(c, "available") /\ Forget(c)
                    ELSE at' = [at EXCEPT ![c] = @ + 1] /\ pc' = pc
    /\ UNCHANGED <<run, step, executed, point, server, preview, verdict, todo, undone, troubled,
                   world>>

\* The connection or a backup fails: mark_creation_failed.
CaptureFails(c) ==
    /\ open /\ pc[c] \in {"link", "capture"}
    /\ point' = "failed"
    /\ Goto(c, "unsaved") /\ Forget(c)
    /\ UNCHANGED <<run, step, executed, item, saved, server, preview, verdict, todo, undone, troubled,
                   world>>

MarkAvailable(c) ==
    /\ open /\ pc[c] = "available"
    /\ point' = "available"
    /\ Goto(c, "backed")
    /\ UNCHANGED <<run, step, executed, item, saved, server, preview, at, verdict, todo, undone,
                   troubled, world>>

FinishBackup(c) ==
    /\ open /\ pc[c] \in {"backed", "unsaved"}
    /\ IF pc[c] = "backed" THEN StepTo(c, "backup", "succeeded", "run")
                           ELSE StepTo(c, "backup", "failed", "giveup")
    /\ UNCHANGED <<run, executed, point, item, saved, server, preview, at, verdict, todo, undone,
                   troubled, world>>

GiveUp(c) ==
    /\ open /\ pc[c] = "giveup"
    /\ Transition(c, "failed", "done")
    /\ UNCHANGED <<step, executed, point, item, saved, server, preview, at, verdict, todo, undone,
                   troubled, world>>

-----------------------------------------------------------------------------
(* run_phase                                                               *)

StartRunning(c) ==
    /\ open /\ pc[c] = "run"
    /\ Transition(c, "running", "exec")
    /\ at' = [at EXCEPT ![c] = 1]
    /\ UNCHANGED <<step, executed, point, item, saved, server, preview, verdict, todo, undone,
                   troubled, world>>

StartStep(c) ==
    /\ open /\ pc[c] = "exec"
    /\ ExecutedTo(c, "running", "work")
    /\ UNCHANGED <<run, step, point, item, saved, server, preview, at, verdict, todo, undone,
                   troubled, world>>

\* execute_planned_step_with_cancel: the command takes effect, or it ends in
\* some other way, with or without its effect, or is given up while at work.
Work(c) ==
    /\ open /\ pc[c] = "work"
    /\ \/ /\ remote' = [remote EXCEPT ![at[c]] = "new"]
          /\ verdict' \in {[verdict EXCEPT ![c] = v] : v \in Bad \cup {Fine}}
          /\ adrift' = adrift
       \/ /\ verdict' \in {[verdict EXCEPT ![c] = v] : v \in Bad}
          /\ adrift' \in {adrift, adrift \cup {at[c]}}
          /\ remote' = remote
    /\ Goto(c, "record")
    /\ UNCHANGED <<tables, landed, preview, at, todo, undone, troubled, world>>

\* finish_step, then the next step or the end of the phase.
RecordStep(c) ==
    /\ open /\ pc[c] = "record"
    /\ ExecutedTo(c, verdict[c].step,
                  IF verdict[c] # Fine THEN "skip" ELSE IF at[c] = N THEN "verify" ELSE "exec")
    /\ at' = [at EXCEPT ![c] = IF verdict[c] # Fine THEN @ ELSE IF @ = N THEN 1 ELSE @ + 1]
    /\ UNCHANGED <<run, step, point, item, saved, server, preview, verdict, todo, undone, troubled,
                   world>>

SkipRest(c) ==
    /\ open /\ pc[c] = "skip"
    /\ executed' = SkipFrom(at[c] + 1)
    /\ Goto(c, "settle") /\ Forget(c)
    /\ UNCHANGED <<run, step, point, item, saved, server, preview, verdict, todo, undone, troubled,
                   world>>

StartVerifying(c) ==
    /\ open /\ pc[c] = "verify"
    /\ Transition(c, "verifying", "check")
    /\ UNCHANGED <<step, executed, point, item, saved, server, preview, at, verdict, todo, undone,
                   troubled, world>>

StartCheck(c) ==
    /\ open /\ pc[c] = "check"
    /\ StepTo(c, "verify", "running", "checking")
    /\ UNCHANGED <<run, executed, point, item, saved, server, preview, at, verdict, todo, undone,
                   troubled, world>>

\* The verification only succeeds on the state that was asked for.
Check(c) ==
    /\ open /\ pc[c] = "checking"
    /\ \E v \in Bad \cup {Fine} :
          /\ v = Fine => \A t \in Target : remote[t] = "new"
          /\ verdict' = [verdict EXCEPT ![c] = v]
    /\ Goto(c, "checked")
    /\ UNCHANGED <<tables, server, preview, at, todo, undone, troubled, world>>

RecordCheck(c) ==
    /\ open /\ pc[c] = "checked"
    /\ StepTo(c, "verify", verdict[c].step, IF verdict[c] = Fine THEN "result" ELSE "settle")
    /\ UNCHANGED <<run, executed, point, item, saved, server, preview, at, verdict, todo, undone,
                   troubled, world>>

\* set_result only writes while the run is running or verifying.
SetResult(c) ==
    /\ open /\ pc[c] = "result"
    /\ Goto(c, IF run \in {"running", "verifying"} THEN "succeed" ELSE "done")
    /\ UNCHANGED <<tables, server, preview, at, verdict, todo, undone, troubled, world>>

Succeed(c) ==
    /\ open /\ pc[c] = "succeed"
    /\ Transition(c, "succeeded", "done")
    /\ UNCHANGED <<step, executed, point, item, saved, server, preview, at, verdict, todo, undone,
                   troubled, world>>

\* finish_dangerous_failure: an uncertain run waits for the user, any other
\* failure is rolled back at once.
Settle(c) ==
    /\ open /\ pc[c] = "settle"
    /\ IF verdict[c].run = "uncertain" THEN Transition(c, "uncertain", "done")
                                       ELSE Transition(c, "rollback_available", "rolling")
    /\ verdict' = [verdict EXCEPT ![c] = Fine]
    /\ UNCHANGED <<step, executed, point, item, saved, server, preview, at, todo, undone, troubled,
                   world>>

-----------------------------------------------------------------------------
(* Rollback                                                                *)

\* rollback_operation reads the point, then the run, and then compares and sets.
RequestRollback(c) ==
    /\ open /\ c \in Roller /\ pc[c] = "idle"
    /\ point \in Usable
    /\ Goto(c, "ask")
    /\ UNCHANGED <<tables, server, preview, at, verdict, todo, undone, troubled, world>>

ReadRun(c) ==
    /\ open /\ pc[c] = "ask"
    /\ Goto(c, IF run \in Offered THEN "offer"
               ELSE IF run = "rollback_available" THEN "rolling" ELSE "done")
    /\ UNCHANGED <<tables, server, preview, at, verdict, todo, undone, troubled, world>>

OfferRollback(c) ==
    /\ open /\ pc[c] = "offer"
    /\ Transition(c, "rollback_available", "rolling")
    /\ UNCHANGED <<step, executed, point, item, saved, server, preview, at, verdict, todo, undone,
                   troubled, world>>

StartRolling(c) ==
    /\ open /\ pc[c] = "rolling"
    /\ Transition(c, "rolling_back", "mark")
    /\ UNCHANGED <<step, executed, point, item, saved, server, preview, at, verdict, todo, undone,
                   troubled, world>>

MarkRollback(c) ==
    /\ open /\ pc[c] = "mark"
    /\ StepTo(c, "rollback", "running", "read")
    /\ UNCHANGED <<run, executed, point, item, saved, server, preview, at, verdict, todo, undone,
                   troubled, world>>

\* OperationRestoreService::rollback: items already restored are left alone.
ReadItems(c) ==
    /\ open /\ pc[c] = "read"
    /\ todo' = [todo EXCEPT ![c] = {t \in Target : item[t] \notin {"none", "rolled_back"}}]
    /\ Goto(c, "begin")
    /\ UNCHANGED <<tables, server, preview, at, verdict, undone, troubled, world>>

BeginRollback(c) ==
    /\ open /\ pc[c] = "begin"
    /\ point' = IF point \in Usable THEN "rolling_back" ELSE point
    /\ verdict' = [verdict EXCEPT ![c] = IF point \in Usable THEN Fine ELSE Broken]
    /\ Goto(c, IF point \in Usable THEN "reach" ELSE "report")
    /\ UNCHANGED <<run, step, executed, item, saved, server, preview, at, todo, undone, troubled,
                   world>>

ConnectForRollback(c) ==
    /\ open /\ pc[c] = "reach"
    /\ Goto(c, "item")
    /\ UNCHANGED <<tables, server, preview, at, verdict, todo, undone, troubled, world>>

ConnectFails(c) ==
    /\ open /\ pc[c] = "reach"
    /\ point' = "failed"
    /\ verdict' \in {[verdict EXCEPT ![c] = v] : v \in {Broken, Lost}}
    /\ Goto(c, "report")
    /\ UNCHANGED <<run, step, executed, item, saved, server, preview, at, todo, undone, troubled,
                   world>>

\* The items in reverse order: mark_item_rolling_back.
NextItem(c) ==
    /\ open /\ pc[c] = "item"
    /\ \E t \in todo[c] :
          /\ \A u \in todo[c] : u <= t
          /\ item' = [item EXCEPT ![t] = IF @ \in {"available", "failed"} THEN "rolling_back" ELSE @]
          /\ at' = [at EXCEPT ![c] = t]
          /\ verdict' = [verdict EXCEPT ![c] = IF item[t] \in {"available", "failed"}
                                               THEN @ ELSE Broken]
          /\ Goto(c, IF item[t] \in {"available", "failed"} THEN "restore" ELSE "report")
    /\ UNCHANGED <<run, step, executed, point, saved, server, preview, todo, undone, troubled,
                   world>>

\* rollback_item restores and verifies, or fails with or without its effect.
Restore(c) ==
    /\ open /\ pc[c] = "restore"
    /\ \/ /\ remote' = [remote EXCEPT ![at[c]] = saved[at[c]]]
          /\ landed' = landed \ {at[c]}
          /\ verdict' \in {[verdict EXCEPT ![c] = v] : v \in {Fine, Broken, Lost}}
       \/ /\ verdict' \in {[verdict EXCEPT ![c] = v] : v \in {Broken, Lost}}
          /\ UNCHANGED <<remote, landed>>
    /\ Goto(c, "note")
    /\ UNCHANGED <<tables, adrift, preview, at, todo, undone, troubled, world>>

\* finish_item_rollback; a lost connection ends the loop.
RecordItem(c) ==
    /\ open /\ pc[c] = "note"
    /\ item' = [item EXCEPT ![at[c]] = IF verdict[c] = Fine THEN "rolled_back" ELSE "failed"]
    /\ todo' = [todo EXCEPT ![c] = IF verdict[c] = Lost THEN {} ELSE @ \ {at[c]}]
    /\ undone' = IF verdict[c] = Fine THEN undone \cup {c} ELSE undone
    /\ troubled' = IF verdict[c] = Fine THEN troubled ELSE troubled \cup {c}
    /\ Goto(c, "item") /\ Forget(c)
    /\ UNCHANGED <<run, step, executed, point, saved, server, preview, verdict, world>>

\* What finish_rollback makes of the point.
PointAfter(c) ==
    IF c \notin troubled THEN "rolled_back" ELSE IF c \in undone THEN "partial" ELSE "failed"

\* Mutant: a rollback that was not cut short counts as complete.
RunAfterAnyPoint(c) ==
    IF verdict[c] = Lost THEN Lost ELSE [step |-> "succeeded", run |-> "rolled_back"]

\* What the point's status means for the run: rollback_operation takes every
\* incomplete rollback for a partial one.
RunAfter(c) ==
    IF verdict[c] = Lost THEN Lost
    ELSE CASE PointAfter(c) = "rolled_back" -> [step |-> "succeeded", run |-> "rolled_back"]
           [] PointAfter(c) = "partial" -> [step |-> "failed", run |-> "rollback_partial"]
           [] OTHER -> [step |-> "failed",
                        run |-> IF c \in Roller THEN "rollback_partial" ELSE "rollback_failed"]

\* finish_rollback.
FinishRollback(c) ==
    /\ open /\ pc[c] = "item" /\ todo[c] = {}
    /\ point' = IF point = "rolling_back" THEN PointAfter(c) ELSE point
    /\ verdict' = [verdict EXCEPT ![c] = IF point = "rolling_back" THEN RunAfter(c) ELSE Broken]
    /\ undone' = undone \ {c} /\ troubled' = troubled \ {c}
    /\ Goto(c, "report")
    /\ UNCHANGED <<run, step, executed, item, saved, server, preview, at, todo, world>>

ReportRollback(c) ==
    /\ open /\ pc[c] = "report"
    /\ StepTo(c, "rollback", verdict[c].step, "final")
    /\ UNCHANGED <<run, executed, point, item, saved, server, preview, at, verdict, todo, undone,
                   troubled, world>>

EndRollback(c) ==
    /\ open /\ pc[c] = "final"
    /\ Transition(c, verdict[c].run, "done")
    /\ verdict' = [verdict EXCEPT ![c] = Fine]
    /\ UNCHANGED <<step, executed, point, item, saved, server, preview, at, todo, undone, troubled,
                   world>>

-----------------------------------------------------------------------------
(* Cancellation, commands given up, failing statements, exit               *)

\* cancel reads the run ...
GetRun(c) ==
    /\ open /\ c \in Canceller /\ pc[c] = "idle"
    /\ run \notin Remote
    /\ Goto(c, "cancel")
    /\ UNCHANGED <<tables, server, preview, at, verdict, todo, undone, troubled, world>>

\* ... and sets it later.
CancelRun(c) ==
    /\ open /\ pc[c] = "cancel"
    /\ Transition(c, "cancelled", "done")
    /\ UNCHANGED <<step, executed, point, item, saved, server, preview, at, verdict, todo, undone,
                   troubled, world>>

\* A command nobody waits for any more takes effect on the server.
Land(t) ==
    /\ t \in adrift
    /\ adrift' = adrift \ {t}
    /\ remote' = [remote EXCEPT ![t] = "new"]
    /\ landed' = IF item[t] \in {"rolling_back", "rolled_back"} THEN landed \cup {t} ELSE landed
    /\ UNCHANGED <<tables, preview, locals, world>>

Capturing == {"point", "link", "capture", "available"}
Restoring == {"read", "begin", "reach", "item", "note"}
Waiting == {"idle", "done", "work", "checking", "restore"}

\* A statement fails: capture and rollback hand the error to their caller, which
\* records it; elsewhere the call returns.
Fault(c) ==
    /\ open /\ failures < MaxFailures
    /\ pc[c] \notin Waiting
    /\ failures' = failures + 1
    /\ Goto(c, CASE pc[c] \in Capturing -> "unsaved" [] pc[c] \in Restoring -> "report"
                 [] OTHER -> "done")
    /\ verdict' = [verdict EXCEPT ![c] = IF pc[c] \in Restoring THEN Broken ELSE Fine]
    /\ point' \in IF pc[c] \in Capturing \ {"point"} THEN {point, "failed"} ELSE {point}
    /\ todo' = [todo EXCEPT ![c] = {}]
    /\ undone' = undone \ {c} /\ troubled' = troubled \ {c}
    /\ Forget(c)
    /\ UNCHANGED <<run, step, executed, item, saved, server, preview, open>>

\* The application exits; commands may still be at work on the server.
Exit ==
    /\ open /\ failures < MaxFailures
    /\ failures' = failures + 1
    /\ open' = FALSE
    /\ adrift' = adrift \cup {at[c] : c \in {d \in Call : pc[d] = "work"}}
    /\ pc' = [c \in Call |-> IF pc[c] = "idle" THEN "idle" ELSE "done"]
    /\ preview' = "over"
    /\ at' = [c \in Call |-> 1] /\ verdict' = [c \in Call |-> Fine] /\ todo' = [c \in Call |-> {}]
    /\ undone' = {} /\ troubled' = {}
    /\ UNCHANGED <<tables, remote, landed>>

\* Mutant: recovery forgets the steps.
OpenRunsOnly ==
    /\ ~open
    /\ open' = TRUE
    /\ run' = IF run \in Interrupted THEN "uncertain" ELSE run
    /\ point' = IF point = "rolling_back" THEN "partial" ELSE point
    /\ item' = [t \in Target |-> IF item[t] = "rolling_back" THEN "failed" ELSE item[t]]
    /\ UNCHANGED <<step, executed, saved, server, preview, locals, failures>>

\* recover_interrupted of both repositories when the application starts again.
Open ==
    /\ ~open
    /\ open' = TRUE
    /\ LET Cut(s) == IF s = "running" /\ run \in Interrupted THEN "uncertain" ELSE s
       IN  /\ step' = [p \in Phase |-> Cut(step[p])]
           /\ executed' = [t \in Target |-> Cut(executed[t])]
    /\ run' = IF run \in Interrupted THEN "uncertain" ELSE run
    /\ point' = IF point = "rolling_back" THEN "partial" ELSE point
    /\ item' = [t \in Target |-> IF item[t] = "rolling_back" THEN "failed" ELSE item[t]]
    /\ UNCHANGED <<saved, server, preview, locals, failures>>

-----------------------------------------------------------------------------
Preflight == BeginPreflight \/ PreflightFails \/ CreateSteps \/ CompletePreflight

Prepare(c) ==
    \/ RequirePreview(c) \/ Confirm(c) \/ AfterConfirmation(c) \/ StartBackup(c)
    \/ CreatePoint(c) \/ ConnectForBackup(c) \/ Capture(c) \/ CaptureFails(c) \/ MarkAvailable(c)
    \/ FinishBackup(c) \/ GiveUp(c)

Change(c) ==
    \/ StartRunning(c) \/ StartStep(c) \/ Work(c) \/ RecordStep(c)
    \/ SkipRest(c) \/ StartVerifying(c) \/ StartCheck(c) \/ Check(c) \/ RecordCheck(c)
    \/ SetResult(c) \/ Succeed(c) \/ Settle(c)

Rollback(c) ==
    \/ RequestRollback(c) \/ ReadRun(c) \/ OfferRollback(c) \/ StartRolling(c) \/ MarkRollback(c)
    \/ ReadItems(c) \/ BeginRollback(c) \/ ConnectForRollback(c) \/ ConnectFails(c) \/ NextItem(c)
    \/ Restore(c) \/ RecordItem(c) \/ FinishRollback(c) \/ ReportRollback(c) \/ EndRollback(c)

Init ==
    /\ run = "validating"
    /\ step = [p \in Phase |-> "none"]
    /\ executed = [t \in Target |-> "none"]
    /\ point = "none"
    /\ item = [t \in Target |-> "none"]
    /\ saved = [t \in Target |-> "none"]
    /\ remote = [t \in Target |-> "old"]
    /\ adrift = {} /\ landed = {}
    /\ preview = "begin"
    /\ pc = [c \in Call |-> "idle"]
    /\ at = [c \in Call |-> 1]
    /\ verdict = [c \in Call |-> Fine]
    /\ todo = [c \in Call |-> {}]
    /\ undone = {} /\ troubled = {}
    /\ open = TRUE /\ failures = 0

Next ==
    \/ Preflight
    \/ \E c \in Call : \/ Prepare(c) \/ Change(c) \/ Rollback(c) \/ GetRun(c) \/ CancelRun(c)
                       \/ Fault(c)
    \/ \E t \in Target : Land(t)
    \/ Exit \/ Open

Spec == Init /\ [][Next]_vars

-----------------------------------------------------------------------------
Label == {"idle", "confirm", "waiting", "backup", "point", "link", "capture", "available", "backed",
          "unsaved", "giveup", "run", "exec", "work", "record", "skip", "verify", "check",
          "checking", "checked", "result", "succeed", "settle", "ask", "offer", "rolling", "mark",
          "read", "begin", "reach", "item", "restore", "note", "report", "final", "cancel", "done"}

\* Types of the tables, of the server's state and of the locals of the calls.
TypeOK ==
    /\ run \in RunStatus
    /\ step \in [Phase -> StepStatus] /\ executed \in [Target -> StepStatus]
    /\ point \in PointStatus /\ item \in [Target -> ItemStatus]
    /\ saved \in [Target -> {"none", "old", "new"}]
    /\ remote \in [Target -> {"old", "new"}]
    /\ adrift \subseteq Target /\ landed \subseteq Target
    /\ preview \in {"begin", "probe", "ready", "over"}
    /\ pc \in [Call -> Label] /\ at \in [Call -> Target]
    /\ verdict \in [Call -> Verdict] /\ todo \in [Call -> SUBSET Target]
    /\ undone \subseteq Call /\ troubled \subseteq Call
    /\ open \in BOOLEAN /\ failures \in Nat

\* Labels at which a call is about to act on the server, or will without asking
\* the run's row again.
AtWork == {"backup", "point", "link", "capture", "available", "backed", "exec", "work", "record",
           "check", "checking", "checked", "mark", "read", "begin", "reach", "item", "restore",
           "note", "report", "final"}

\* At most one call works on the server for a run: two confirmations of one
\* preview, two rollbacks, or a rollback and the automatic rollback, exclude
\* each other by the transitions of the run's row alone.
Exclusive ==
    \A c, d \in Call : pc[c] \in AtWork /\ pc[d] \in AtWork => c = d

\* A run shown as rolled back has every target as it was before the run, except
\* for what a command that was given up did to it after it was restored.
RolledBackIsOriginal ==
    run = "rolled_back" => \A t \in Target : remote[t] = "old" \/ t \in landed

\* Until the run is rolled back, whatever it changed can be restored: its backup holds
\* the old state, its item and the restore point are not used up, the run's status
\* leads to a rollback and its rollback step can run.  A cancellation decided on
\* an old status (see CancelledIsUntouched) is the exception.
WayBack ==
    run # "rolled_back" /\ (\E t \in Target \ landed : remote[t] = "new") =>
       /\ \A t \in Target \ landed : remote[t] = "new" =>
             item[t] \in {"available", "rolling_back", "failed"} /\ saved[t] = "old"
       /\ point \in Usable \cup {"rolling_back"}
       /\ run \in Offered \cup Remote \cup {"rollback_available", "cancelled"}
       /\ run \in Offered \cup {"rollback_available"} =>
             step["rollback"] \in {"pending", "failed", "uncertain"}

\* A run shown as cancelled has changed nothing and is not at work.
CancelledIsUntouched ==
    run = "cancelled" => /\ \A t \in Target : remote[t] = "old"
                         /\ \A c \in Call : pc[c] # "work"
=============================================================================
