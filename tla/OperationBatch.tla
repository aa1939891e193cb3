--------------------------- MODULE OperationBatch ---------------------------
(***************************************************************************)
(* A batch: one safe task on several servers, OperationBatchService with   *)
(* OperationBatchRepository and the safe part of OperationService.  A task *)
(* per server takes a permit, marks its item, has the operation run and    *)
(* reports; the batch joins them and derives its status from the items.    *)
(***************************************************************************)
EXTENDS Execution, FiniteSets

CONSTANTS
    Server,    \* the servers of the batch, each with its operation run
    Permits    \* BATCH_CONCURRENCY

ASSUME BatchAssumption == /\ Server \subseteq Run /\ IsFiniteSet(Server)
                          /\ Permits \in Nat \ {0} /\ MaxFailures \in Nat

VARIABLES
    batch,     \* operation_batches.status
    item,      \* operation_batch_items.status
    outcome,   \* BatchItemOutcome
    main,      \* where start_background and run_prepared are
    broken,    \* worker_error
    registry,  \* OperationBatchRegistry
    asking     \* where OperationBatchService::cancel is

rows      == <<batch, item>>
batchVars == <<rows, outcome, main, broken, registry, asking>>

ItemOpen  == {"queued", "running"}
BatchOpen == {"queued", "running"}

\* prepare has written the rows and registered a token, or nobody asked for a batch.
BatchInit ==
    /\ \/ batch = "queued" /\ main = "mark" /\ registry = "live"
       \/ batch = "none" /\ main = "done" /\ registry = "none"
    /\ item = [s \in Server |-> batch]
    /\ outcome = [s \in Server |-> "none"]
    /\ broken = FALSE /\ asking = FALSE

Cancelled == registry = "cancelled"
Active(s) == step[s] \notin {"idle", "waiting", "returned"}

\* A task that ends without its report; the permit is free again.
Return(s, bad) ==
    /\ Move(s, "returned")
    /\ broken' = (broken \/ bad)

Keep == UNCHANGED <<batch, item, main, registry, asking>>
Rest == UNCHANGED <<exec, token, parent, end, remote>>

-----------------------------------------------------------------------------
(* The task of a server                                                     *)

Admit(s) ==
    /\ At(s, "waiting") /\ main = "join"
    /\ \/ Cancelled /\ Return(s, FALSE)
       \/ Cardinality({t \in Server : Active(t)}) < Permits /\ Move(s, "admitted") /\ UNCHANGED broken
    /\ UNCHANGED <<outcome, run, failures>> /\ Keep /\ Rest

LookAtToken(s) ==
    /\ At(s, "admitted")
    /\ IF Cancelled THEN Return(s, FALSE) ELSE Move(s, "mark_item") /\ UNCHANGED broken
    /\ UNCHANGED <<outcome, run, failures>> /\ Keep /\ Rest

\* Mutant: without the condition on the old status.
MarkItemAnyway(s) ==
    /\ At(s, "mark_item")
    /\ item' = [item EXCEPT ![s] = "running"] /\ Move(s, "start")
    /\ UNCHANGED <<broken, failures, batch, main, registry, asking, outcome, run>> /\ Rest

\* Refused when the item has been cancelled since the token was looked at.
MarkItemRunning(s) ==
    /\ At(s, "mark_item")
    /\ \/ /\ item[s] = "queued"
          /\ item' = [item EXCEPT ![s] = "running"]
          /\ Move(s, "start") /\ UNCHANGED <<broken, failures>>
       \/ /\ (item[s] # "queued" /\ UNCHANGED failures) \/ Fails
          /\ Return(s, TRUE) /\ UNCHANGED item
    /\ UNCHANGED <<batch, main, registry, asking, outcome, run>> /\ Rest

Report(s, status) ==
    /\ outcome' = [outcome EXCEPT ![s] = status]
    /\ Move(s, "report")

\* run_operation, start_with_cancel: a choice between the token and connect
Start(s) ==
    /\ At(s, "start")
    /\ \/ Cancelled /\ Report(s, "cancelled")
       \/ Report(s, "failed")
       \/ Move(s, "preview") /\ UNCHANGED outcome
    /\ UNCHANGED <<broken, run, failures>> /\ Keep /\ Rest

\* begin_preflight and complete_preflight; a plan that fails ends the run.
Preview(s) ==
    /\ At(s, "preview")
    /\ \/ Set(s, "preview_ready") /\ Move(s, "ready") /\ UNCHANGED <<outcome, failures>>
       \/ Set(s, "failed") /\ Report(s, "failed") /\ UNCHANGED failures
       \/ Fails /\ Report(s, "failed") /\ UNCHANGED run
    /\ UNCHANGED broken /\ Keep /\ Rest

\* start_with_capabilities_and_cancel, for a task that is safe
Ready(s) ==
    /\ At(s, "ready")
    /\ \/ Cancelled /\ Transition(s, "preview_ready", "cancelled") /\ Report(s, "cancelled")
       \/ ~Cancelled /\ Transition(s, "preview_ready", "running") /\ Move(s, "begin") /\ UNCHANGED outcome
       \/ NoTransition(s, "preview_ready") /\ Report(s, "failed")
    /\ UNCHANGED broken /\ Keep /\ Rest

\* skip_pending_steps, or mark_step_running
BeginStep(s) ==
    /\ At(s, "begin")
    /\ \/ Cancelled /\ Transition(s, "running", "cancelled") /\ Report(s, "cancelled") /\ UNCHANGED parent
       \/ /\ ~Cancelled /\ Move(s, "create")
          /\ UNCHANGED <<parent, run, failures, outcome>>
       \/ Fails /\ Report(s, "failed") /\ UNCHANGED <<run, parent>>
    /\ UNCHANGED <<broken, exec, token, end, remote>> /\ Keep

\* The row of the run follows that of the execution (statuses_for_execution).
AfterStep(s) ==
    LET status == IF Result(s) = "error" THEN "failed" ELSE Result(s)
    IN  /\ At(s, "executed")
        /\ \/ status = "succeeded" /\ Move(s, "result") /\ UNCHANGED <<run, failures, outcome>>
           \/ /\ status # "succeeded" /\ Transition(s, "running", status)
              /\ Report(s, IF status = "cancelled" THEN "cancelled" ELSE "failed")
           \/ Fails /\ Report(s, "failed") /\ UNCHANGED run
        /\ UNCHANGED broken /\ Keep /\ Rest

\* set_result, and "succeeded"; when the result is not saved the run has failed.
SaveResult(s) ==
    /\ At(s, "result")
    /\ \/ Transition(s, "running", "succeeded") /\ Report(s, "succeeded")
       \/ Fails /\ Report(s, "failed") /\ run' \in {run, [run EXCEPT ![s] = "failed"]}
    /\ UNCHANGED broken /\ Keep /\ Rest

\* finish_item: the row must still be running.
FinishItem(s) ==
    /\ At(s, "report")
    /\ \/ /\ item[s] = "running"
          /\ item' = [item EXCEPT ![s] = outcome[s]]
          /\ Return(s, FALSE) /\ UNCHANGED failures
       \/ /\ Fails
          /\ Return(s, TRUE) /\ UNCHANGED item
    /\ UNCHANGED <<batch, main, registry, asking, outcome, run>> /\ Rest

-----------------------------------------------------------------------------
(* run_prepared and the task that start_background spawns                   *)

MainAt(label) == main = label
Go(label)     == main' = label
Aside == UNCHANGED <<run, exec, step, token, parent, end, remote, outcome, broken, asking>>

\* Mutant: nobody is left to close the rows.
AbortQuietly == Fails /\ registry' = "none" /\ Go("done")

\* An error ends run_prepared_inner: registry.remove, then the rows.
Abort == Fails /\ registry' = "none" /\ Go("spread")

MarkBatchRunning ==
    /\ MainAt("mark")
    /\ \/ /\ batch' = "running" /\ Go("join")
          /\ step' = [s \in Run |-> IF s \in Server THEN "waiting" ELSE step[s]]
          /\ UNCHANGED <<registry, failures>>
       \/ Abort /\ UNCHANGED <<batch, step>>
    /\ UNCHANGED <<item, run, exec, token, parent, end, remote, outcome, broken, asking>>

\* Mutant: the first task that returns ends the batch.
JoinFirst ==
    /\ MainAt("join") /\ \E s \in Server : At(s, "returned")
    /\ Go(IF Cancelled THEN "cancel_queued" ELSE IF broken THEN "fail_open" ELSE "complete")
    /\ UNCHANGED <<rows, registry, failures>> /\ Aside

Join ==
    /\ MainAt("join") /\ \A s \in Server : At(s, "returned")
    /\ Go(IF Cancelled THEN "cancel_queued" ELSE IF broken THEN "fail_open" ELSE "complete")
    /\ UNCHANGED <<rows, registry, failures>> /\ Aside

Items(from, to) == item' = [s \in Server |-> IF item[s] \in from THEN to ELSE item[s]]

CancelQueued ==
    /\ MainAt("cancel_queued")
    /\ \/ /\ Items({"queued"}, "cancelled")
          /\ Go(IF broken THEN "fail_open" ELSE "complete") /\ UNCHANGED <<registry, failures>>
       \/ Abort /\ UNCHANGED item
    /\ UNCHANGED batch /\ Aside

FailOpen ==
    /\ MainAt("fail_open")
    /\ \/ Items(ItemOpen, "failed") /\ Go("complete") /\ UNCHANGED <<registry, failures>>
       \/ Abort /\ UNCHANGED item
    /\ UNCHANGED batch /\ Aside

Count(status) == Cardinality({s \in Server : item[s] = status})

\* Mutant: an item that was cancelled does not count.
DerivedForgetful(cancel) ==
    IF Count("failed") = 0 /\ Count("succeeded") > 0 THEN "succeeded"
    ELSE IF Count("succeeded") = 0 /\ Count("failed") > 0 THEN "failed" ELSE "partial"

Derived(cancel) ==
    IF cancel \/ Count("cancelled") > 0 THEN "cancelled"
    ELSE IF Count("failed") = 0 /\ Count("succeeded") > 0 THEN "succeeded"
    ELSE IF Count("succeeded") = 0 /\ Count("failed") > 0 THEN "failed" ELSE "partial"

\* complete reads the items and writes the batch in two statements; no item is
\* open after Join, so that nothing can come between them.
Closable == batch = "running" /\ \A s \in Server : item[s] \notin ItemOpen

Complete ==
    /\ MainAt("complete")
    /\ \/ /\ Closable /\ batch' = Derived(Cancelled)
          /\ registry' = "none" /\ Go("done") /\ UNCHANGED failures
       \/ Closable /\ Abort /\ UNCHANGED batch
    /\ UNCHANGED item /\ Aside

\* start_background: what is left open has failed; errors here are dropped.
Spread ==
    /\ MainAt("spread")
    /\ \/ Items(ItemOpen, "failed") /\ UNCHANGED failures
       \/ Fails /\ UNCHANGED item
    /\ Go("close")
    /\ UNCHANGED <<batch, registry>> /\ Aside

Close ==
    /\ MainAt("close")
    /\ \/ Closable /\ batch' = Derived(FALSE) /\ UNCHANGED failures
       \/ ~Closable /\ UNCHANGED <<batch, failures>>
       \/ Fails /\ UNCHANGED batch
    /\ Go("done")
    /\ UNCHANGED <<item, registry>> /\ Aside

\* OperationBatchService::cancel: the token, then the items
CancelBatch ==
    /\ registry # "none" /\ ~asking
    /\ registry' = "cancelled" /\ asking' = TRUE
    /\ parent' = [r \in Run |-> r \in Server \/ parent[r]]
    /\ UNCHANGED <<rows, outcome, main, broken, run, exec, step, token, end, remote, failures>>

CancelItems ==
    /\ asking
    /\ \/ Items({"queued"}, "cancelled") /\ UNCHANGED failures
       \/ Fails /\ UNCHANGED item
    /\ asking' = FALSE
    /\ UNCHANGED <<batch, outcome, main, broken, registry, run, exec, step, token, parent, end, remote>>

\* recover_interrupted
RecoverBatch ==
    /\ batch' = IF batch \in BatchOpen THEN "failed" ELSE batch
    /\ item' = [s \in Server |-> IF batch \in BatchOpen /\ item[s] \in ItemOpen THEN "failed" ELSE item[s]]
    /\ main' = "done" /\ registry' = "none" /\ asking' = FALSE
    /\ UNCHANGED <<outcome, broken>>

TaskStep(s) ==
    \/ Admit(s) \/ LookAtToken(s) \/ MarkItemRunning(s) \/ Start(s) \/ Preview(s) \/ Ready(s)
    \/ BeginStep(s) \/ AfterStep(s) \/ SaveResult(s) \/ FinishItem(s)

\* The command of the safe task's one step
CommandStep(s) == ClientStep(s) /\ UNCHANGED batchVars

MainStep == MarkBatchRunning \/ Join \/ CancelQueued \/ FailOpen \/ Complete \/ Spread \/ Close

=============================================================================
