---------------------------- MODULE TransferQueue ----------------------------
(***************************************************************************)
(* The persistent SFTP transfer queue: rows of the table transfer_jobs, the *)
(* worker loops that claim and run them, the task that applies the events   *)
(* of a running transfer to its row, the registry of cancellation tokens,   *)
(* and the calls of the user interface (enqueue, cancel, retry).  An        *)
(* interrupted application loses everything but the two tables.             *)
(*                                                                         *)
(* Every SQL statement is one step, as SQLite executes it; every await      *)
(* between two of them is a point where the other actors may run.           *)
(***************************************************************************)
EXTENDS Integers, Sequences, FiniteSets

CONSTANTS Job,          \* job ids, numbered by their rank in (created_at, id)
          Server,       \* the servers jobs belong to
          Worker,       \* the tasks spawned by start(): QUEUE_WORKERS of them
          MaxAttempts,  \* transfer_jobs.max_attempts
          PerServer,    \* active transfers next_runnable allows on one server
          Plans,        \* the phases transfers report after connecting
          Causes,       \* the errors that connections and transfers end with
          MaxRetries,   \* bound: accepted calls of retry()
          MaxFaults,    \* bound: database statements that fail
          MaxExits      \* bound: application exits

ASSUME QueueAssumption ==
    /\ Job \subseteq Nat \ {0}
    /\ Server # {}
    /\ MaxAttempts \in Nat \ {0}
    /\ PerServer \in Nat
    /\ MaxRetries \in Nat
    /\ MaxFaults \in Nat
    /\ MaxExits \in Nat

VARIABLES
    jobs,       \* table transfer_jobs
    execs,      \* table executions: status of each attempt's execution row
    registry,   \* ExecutionRegistry: executions with a registered token
    cancelled,  \* executions whose token was cancelled
    signals,    \* cancel() calls between request_cancel and registry.cancel
    pc, cur, att,  \* per worker: where it is, its job and attempt
    plan, out,     \* per worker: phases still to enter, how the transfer ended
    chan, upd,     \* per worker: events in flight, the task applying them
    permit,     \* the permit stored in the Notify
    up,         \* the application runs
    retries, faults, exits,
    overlap     \* history: a job went back to the queue while a worker had it

dbVars     == <<jobs, execs>>
tokenVars  == <<registry, cancelled, signals>>
workerVars == <<pc, cur, att, plan, out>>
eventVars  == <<chan, upd>>
countVars  == <<retries, faults, exits, overlap>>
vars == <<jobs, execs, registry, cancelled, signals, pc, cur, att, plan, out,
          chan, upd, permit, up, retries, faults, exits, overlap>>

-----------------------------------------------------------------------------
(* Statuses, phases and errors.                                            *)

Phase    == {"connecting", "transferring", "verifying", "finalizing"}
Terminal == {"succeeded", "failed", "cancelled", "uncertain"}
Status   == {"absent", "queued"} \cup Phase \cup Terminal

\* AppError as the queue tells errors apart.  "transient": io, ssh or transfer
\* with no marker of a lasting cause; "manual": retryable, but disk_space or a
\* message with such a marker; "permanent": everything not retryable.
Failure   == {"transient", "manual", "permanent", "uncertain", "cancelled"}
Retryable == {"transient", "manual", "uncertain"}
Outcome   == Failure \cup {"ok"}

\* The status process_events and finish_error derive from an outcome.
StatusOf(o) == CASE o = "ok"        -> "succeeded"
                 [] o = "cancelled" -> "cancelled"
                 [] o = "uncertain" -> "uncertain"
                 [] OTHER           -> "failed"

\* An execution row is named by its job and the attempt it belongs to.
Exec == Job \X (1..MaxAttempts)

ASSUME PlansAssumption == Plans # {} /\ Plans \subseteq Seq(Phase)
ASSUME CausesAssumption == Causes \subseteq Failure

Row == [status : Status, server : Server, exec : 0..MaxAttempts,
        attempts : 0..MaxAttempts, cancel : BOOLEAN, retryable : BOOLEAN,
        err : Failure \cup {"none", "interrupted"}]

IsActive(j) == jobs[j].status \in Phase
ActiveOn(s) == {j \in Job : IsActive(j) /\ jobs[j].server = s}

-----------------------------------------------------------------------------
(* Statements of the repository: the row each of them leaves.              *)

NewRow(row) == [row EXCEPT !.status = "queued"]

Runnable == {j \in Job : /\ jobs[j].status = "queued"
                         /\ Cardinality(ActiveOn(jobs[j].server)) < PerServer}

\* Mutant: a row that was just claimed can be claimed again.
CanClaimTwice(row) == row.status \in {"queued", "connecting"}
CanClaim(row) == row.status = "queued"
ClaimRow(row) == [row EXCEPT !.status = "connecting", !.attempts = @ + 1,
                             !.cancel = FALSE, !.retryable = FALSE, !.err = "none"]

SetExecution(row, a) == IF row.status \in Phase THEN [row EXCEPT !.exec = a] ELSE row

UpdateProgress(row, p) == IF row.status \in Phase THEN [row EXCEPT !.status = p] ELSE row

\* Mutant: a late verdict is written whatever the row says.
FinishRowAnyway(row, o) ==
    [row EXCEPT !.status = StatusOf(o), !.retryable = o \in Retryable,
                !.err = IF o = "ok" THEN "none" ELSE o]
FinishRow(row, o) ==
    IF row.status \in Phase
    THEN [row EXCEPT !.status = StatusOf(o),
                     !.retryable = o \in Retryable,
                     !.err = IF o = "ok" THEN "none" ELSE o]
    ELSE row

\* Mutant: an active row is cancelled at once, like a queued one.
CancelRowAtOnce(row) ==
    [row EXCEPT !.status = "cancelled", !.cancel = TRUE, !.retryable = FALSE]
\* request_cancel: a queued row is cancelled, an active one is only marked.
CancelRow(row) ==
    IF row.status = "queued"
    THEN [row EXCEPT !.status = "cancelled", !.cancel = TRUE, !.retryable = FALSE]
    ELSE [row EXCEPT !.cancel = TRUE]

CanRetry(row) == /\ row.status \in {"failed", "uncertain"}
                 /\ row.retryable
                 /\ row.attempts < MaxAttempts
RetryRow(row) == [row EXCEPT !.status = "queued", !.exec = 0, !.cancel = FALSE,
                             !.retryable = FALSE, !.err = "none"]

CanRequeue(row) == /\ row.status = "failed"
                   /\ row.retryable
                   /\ row.attempts < MaxAttempts
RequeueRow(row) == [row EXCEPT !.status = "queued", !.exec = 0, !.cancel = FALSE,
                               !.err = "none"]

RecoverRow(row) ==
    IF row.status \in Phase
    THEN [row EXCEPT !.status = "uncertain", !.retryable = TRUE, !.err = "interrupted"]
    ELSE row
RecoverExec(status) == IF status = "running" THEN "uncertain" ELSE status

\* can_automatically_retry on the row read after the attempt.
MayRetryAutomatically(row) == row.err = "transient" /\ row.attempts < MaxAttempts

-----------------------------------------------------------------------------
(* Workers.                                                                *)

\* A worker is executing its job in these places; in "decide" and "backoff"
\* the attempt is over and the job's row no longer belongs to the worker.
Running == {"create", "mark", "announce", "connect", "transfer",
            "record", "drain"}
PC      == {"off", "next", "claim", "none", "waiting", "decide", "backoff"} \cup Running

InHand(j) == \E w \in Worker : pc[w] \in Running /\ cur[w] = j

\* The execution row and token of the attempt a worker runs.
ExecOf(w) == <<cur[w], att[w]>>

\* wake_workers: QUEUE_WORKERS calls of notify_one.  Each wakes one waiting
\* worker or, when none is left waiting, stores the single permit.
Woken(pcs)       == [w \in Worker |-> IF pcs[w] = "waiting" THEN "next" ELSE pcs[w]]
\* Mutant: notify_waiters, which stores no permit.
PermitNever(pcs)  == permit
PermitAfter(pcs) == permit \/ \E w \in Worker : pcs[w] # "waiting"
WakeWorkers(pcs) == pc' = Woken(pcs) /\ permit' = PermitAfter(pcs)

Goto(w, place) == pc' = [pc EXCEPT ![w] = place]

\* The sink of the transfer: sending fails once the updater has returned.
Closed(w)  == upd[w] = "dead"
Emit(w, e) == chan' = [chan EXCEPT ![w] = Append(@, e)]

NextRunnable(w) ==
    /\ pc[w] = "next"
    /\ \/ /\ Runnable = {}
          /\ Goto(w, "none")
          /\ UNCHANGED cur
       \/ \E j \in Runnable :
             /\ \A k \in Runnable : j <= k
             /\ cur' = [cur EXCEPT ![w] = j]
             /\ Goto(w, "claim")
    /\ UNCHANGED <<dbVars, tokenVars, att, plan, out, eventVars, permit, up, countVars>>

\* claim, and the updater task execute_inner spawns before the transfer.
Claim(w) ==
    LET j == cur[w] IN
    /\ pc[w] = "claim"
    /\ \/ /\ CanClaim(jobs[j])
          /\ jobs' = [jobs EXCEPT ![j] = ClaimRow(@)]
          /\ att' = [att EXCEPT ![w] = jobs[j].attempts + 1]
          /\ upd' = [upd EXCEPT ![w] = "recv"]
          /\ chan' = [chan EXCEPT ![w] = <<>>]
          /\ Goto(w, "create")
          /\ UNCHANGED cur
       \/ /\ ~CanClaim(jobs[j])
          /\ Goto(w, "next")
          /\ cur' = [cur EXCEPT ![w] = 0]
          /\ UNCHANGED <<jobs, att, eventVars>>
    /\ UNCHANGED <<execs, tokenVars, plan, out, permit, up, countVars>>

AwaitNotify(w) ==
    /\ pc[w] = "none"
    /\ Goto(w, IF permit THEN "next" ELSE "waiting")
    /\ permit' = FALSE
    /\ UNCHANGED <<dbVars, tokenVars, cur, att, plan, out, eventVars, up, countVars>>

-----------------------------------------------------------------------------
(* One attempt: TransferService::upload / download.                        *)

CreateExecution(w) ==
    /\ pc[w] = "create"
    /\ execs' = [execs EXCEPT ![ExecOf(w)] = "queued"]
    /\ Goto(w, "mark")
    /\ UNCHANGED <<jobs, tokenVars, cur, att, plan, out, eventVars, permit, up, countVars>>

\* mark_running, register, and the event Started.
MarkRunning(w) ==
    /\ pc[w] = "mark"
    /\ execs' = [execs EXCEPT ![ExecOf(w)] = "running"]
    /\ registry' = registry \cup {ExecOf(w)}
    /\ Emit(w, "started")
    /\ Goto(w, "announce")
    /\ UNCHANGED <<jobs, cancelled, signals, cur, att, plan, out, upd, permit, up, countVars>>

\* The event Progress(connecting); if it cannot be sent the call returns with
\* the token still registered and the execution row still running.
AnnounceConnecting(w) ==
    /\ pc[w] = "announce"
    /\ \/ ~Closed(w) /\ Emit(w, "connecting") /\ Goto(w, "connect") /\ UNCHANGED out
       \/ Closed(w) /\ Goto(w, "drain") /\ out' = [out EXCEPT ![w] = "lost"] /\ UNCHANGED chan
    /\ UNCHANGED <<dbVars, tokenVars, cur, att, plan, upd, permit, up, countVars>>

\* The transfer has ended: registry.remove, and the token goes with it.
EndTransfer(w, o) ==
    /\ out' = [out EXCEPT ![w] = o]
    /\ registry' = registry \ {ExecOf(w)}
    /\ cancelled' = cancelled \ {ExecOf(w)}
    /\ Goto(w, "record")

\* connector.connect does not watch the token.
Connect(w) ==
    /\ pc[w] = "connect"
    /\ \/ /\ \E p \in Plans : plan' = [plan EXCEPT ![w] = p]
          /\ Goto(w, "transfer")
          /\ UNCHANGED <<out, registry, cancelled>>
       \/ /\ \E o \in Causes \ {"cancelled"} : EndTransfer(w, o)
          /\ UNCHANGED plan
    /\ UNCHANGED <<dbVars, signals, cur, att, eventVars, permit, up, countVars>>

\* A phase is reported when it begins; reporting fails when the sink is closed.
EnterPhase(w) ==
    /\ pc[w] = "transfer" /\ plan[w] # <<>> /\ ~Closed(w)
    /\ Emit(w, Head(plan[w]))
    /\ plan' = [plan EXCEPT ![w] = Tail(@)]
    /\ UNCHANGED <<dbVars, tokenVars, pc, cur, att, out, upd, permit, up, countVars>>

\* The ways sftp::upload and sftp::download end.  The token is watched until
\* the phase finalizing; removing the old target and renaming ignore it.
TransferEnds(w) ==
    /\ pc[w] = "transfer"
    /\ \E o \in Causes \cup {"ok"} :
          /\ o = "ok" => plan[w] = <<>>
          /\ o = "cancelled" => plan[w] # <<>> /\ ExecOf(w) \in cancelled
          /\ EndTransfer(w, o)
    /\ plan' = [plan EXCEPT ![w] = <<>>]
    /\ UNCHANGED <<dbVars, signals, cur, att, eventVars, permit, up, countVars>>

\* finish_success and finish_error: the execution row, then the last event.
\* When it cannot be sent the transfer returns an error.
RecordOutcome(w) ==
    /\ pc[w] = "record"
    /\ execs' = [execs EXCEPT ![ExecOf(w)] = StatusOf(out[w])]
    /\ \/ ~Closed(w) /\ Emit(w, out[w]) /\ UNCHANGED out
       \/ Closed(w) /\ out' = [out EXCEPT ![w] = "lost"] /\ UNCHANGED chan
    /\ Goto(w, "drain")
    /\ UNCHANGED <<jobs, tokenVars, cur, att, plan, upd, permit, up, countVars>>

\* The sink is dropped and the updater awaited.  An error of the updater or
\* of the transfer fails the job for good (database and validation errors are
\* not retryable); otherwise ensure_finished writes the outcome of this
\* attempt if it finds the row, whichever attempt it belongs to, not ended.
Drained(w) == Closed(w) \/ (upd[w] = "recv" /\ chan[w] = <<>>)
\* Mutant: a transfer that returned an error counts as finished.
VerdictTrusting(w) == IF out[w] = "lost" THEN "ok" ELSE out[w]
Verdict(w) == IF Closed(w) \/ out[w] = "lost" THEN "permanent" ELSE out[w]
Conclude(w) ==
    /\ pc[w] = "drain" /\ Drained(w)
    /\ jobs' = [jobs EXCEPT ![cur[w]] = FinishRow(@, Verdict(w))]
    /\ upd' = [upd EXCEPT ![w] = "off"]
    /\ out' = [out EXCEPT ![w] = "lost"]
    /\ Goto(w, "decide")
    /\ UNCHANGED <<execs, tokenVars, cur, att, plan, chan, permit, up, countVars>>

\* The end of execute: the other workers are woken and the loop goes on.
LeaveJob(w) == /\ WakeWorkers([pc EXCEPT ![w] = "next"])
               /\ cur' = [cur EXCEPT ![w] = 0]
               /\ att' = [att EXCEPT ![w] = 0]

\* The row is read again: a failure that may be retried automatically is
\* requeued after a pause, anything else ends the attempt.
Decide(w) ==
    LET row == jobs[cur[w]] IN
    /\ pc[w] = "decide"
    /\ IF row.status = "failed" /\ row.retryable /\ MayRetryAutomatically(row)
       THEN Goto(w, "backoff") /\ UNCHANGED <<cur, att, permit>>
       ELSE LeaveJob(w)
    /\ UNCHANGED <<dbVars, tokenVars, plan, out, eventVars, up, countVars>>

\* requeue_automatically: the statement checks the row, not the error that
\* was read before the pause.
RequeueAutomatically(w) ==
    LET j == cur[w] IN
    /\ pc[w] = "backoff"
    /\ \/ /\ CanRequeue(jobs[j])
          /\ jobs' = [jobs EXCEPT ![j] = RequeueRow(@)]
          /\ overlap' = (overlap \/ InHand(j))
       \/ ~CanRequeue(jobs[j]) /\ UNCHANGED <<jobs, overlap>>
    /\ LeaveJob(w)
    /\ UNCHANGED <<execs, tokenVars, plan, out, eventVars, up, retries, faults, exits>>

-----------------------------------------------------------------------------
(* process_events: the updater of a running attempt.                       *)

ApplyEvent(w) ==
    LET e == Head(chan[w])
        j == cur[w]
    IN
    /\ upd[w] = "recv" /\ chan[w] # <<>>
    /\ chan' = [chan EXCEPT ![w] = Tail(@)]
    /\ \/ /\ e = "started"
          /\ jobs' = [jobs EXCEPT ![j] = SetExecution(@, att[w])]
          /\ upd' = [upd EXCEPT ![w] = "check"]
       \/ /\ e \in Phase
          /\ jobs' = [jobs EXCEPT ![j] = UpdateProgress(@, e)]
          /\ UNCHANGED upd
       \/ /\ e \in Outcome
          /\ jobs' = [jobs EXCEPT ![j] = FinishRow(@, e)]
          /\ upd' = IF IsActive(j) THEN upd ELSE [upd EXCEPT ![w] = "dead"]
    /\ UNCHANGED <<execs, tokenVars, workerVars, permit, up, countVars>>

\* Mutant: the flag is not looked at once the execution is known.
CheckCancelSkipped(w) ==
    /\ upd[w] = "check"
    /\ upd' = [upd EXCEPT ![w] = "recv"]
    /\ UNCHANGED <<dbVars, tokenVars, workerVars, chan, permit, up, countVars>>
\* should_cancel after set_execution, and registry.cancel when it says so.
CheckCancel(w) ==
    /\ upd[w] = "check"
    /\ upd' = [upd EXCEPT ![w] = "recv"]
    /\ cancelled' = IF jobs[cur[w]].cancel THEN cancelled \cup ({ExecOf(w)} \cap registry)
                                           ELSE cancelled
    /\ UNCHANGED <<dbVars, registry, signals, workerVars, chan, permit, up, countVars>>

-----------------------------------------------------------------------------
(* Calls of the user interface.                                            *)

\* enqueue_upload / enqueue_download: created_at is taken before the INSERT
\* and equal stamps are ordered by a random id, so ranks need not grow.
Enqueue(j) ==
    /\ up /\ jobs[j].status = "absent"
    /\ jobs' = [jobs EXCEPT ![j] = NewRow(@)]
    /\ WakeWorkers(pc)
    /\ UNCHANGED <<execs, tokenVars, cur, att, plan, out, eventVars, up, countVars>>

\* request_cancel, one transaction; an ended job is refused.
RequestCancel(j) ==
    /\ up
    /\ \/ /\ jobs[j].status = "queued"
          /\ UNCHANGED signals
       \/ /\ IsActive(j)
          /\ signals' = IF jobs[j].exec = 0 THEN signals
                        ELSE signals \cup {<<j, jobs[j].exec>>}
    /\ jobs' = [jobs EXCEPT ![j] = CancelRow(@)]
    /\ UNCHANGED <<execs, registry, cancelled, workerVars, eventVars, permit, up, countVars>>

\* The rest of cancel(): registry.cancel refuses an unregistered execution.
SignalExecution(e) ==
    /\ e \in signals
    /\ signals' = signals \ {e}
    /\ cancelled' = cancelled \cup ({e} \cap registry)
    /\ UNCHANGED <<dbVars, registry, workerVars, eventVars, permit, up, countVars>>

Retry(j) ==
    /\ up /\ retries < MaxRetries /\ CanRetry(jobs[j])
    /\ retries' = retries + 1
    /\ jobs' = [jobs EXCEPT ![j] = RetryRow(@)]
    /\ overlap' = (overlap \/ InHand(j))
    /\ WakeWorkers(pc)
    /\ UNCHANGED <<execs, tokenVars, cur, att, plan, out, eventVars, up, faults, exits>>

-----------------------------------------------------------------------------
(* Failures: a statement that returns a database error, and an exit.       *)

Faulting == /\ faults < MaxFaults /\ faults' = faults + 1
            /\ UNCHANGED <<retries, exits, overlap>>

\* next_runnable or claim fails: the loop starts again after a pause.
LoopFault(w) ==
    /\ Faulting
    /\ pc[w] \in {"next", "claim"}
    /\ Goto(w, "next")
    /\ cur' = [cur EXCEPT ![w] = 0]
    /\ UNCHANGED <<dbVars, tokenVars, att, plan, out, eventVars, permit, up>>

\* Any statement of process_events fails: it returns and drops the receiver.
UpdaterFault(w) ==
    /\ Faulting
    /\ upd[w] = "check" \/ (upd[w] = "recv" /\ chan[w] # <<>>)
    /\ upd' = [upd EXCEPT ![w] = "dead"]
    /\ chan' = [chan EXCEPT ![w] = <<>>]
    /\ UNCHANGED <<dbVars, tokenVars, workerVars, permit, up>>

\* create, mark_running, finish or a read of the execution row fails: the
\* transfer returns the error and sends no further event.
ExecutionFault(w) ==
    /\ Faulting
    /\ pc[w] \in {"create", "mark", "record", "drain"}
    /\ out' = [out EXCEPT ![w] = "lost"]
    /\ Goto(w, "drain")
    /\ UNCHANGED <<dbVars, tokenVars, cur, att, plan, eventVars, permit, up>>

\* The finish of execute fails; its error is discarded and the row stays.
ConcludeFault(w) ==
    /\ Faulting
    /\ pc[w] = "drain" /\ Drained(w)
    /\ upd' = [upd EXCEPT ![w] = "off"]
    /\ out' = [out EXCEPT ![w] = "lost"]
    /\ Goto(w, "decide")
    /\ UNCHANGED <<dbVars, tokenVars, cur, att, plan, chan, permit, up>>

\* The row cannot be read again, or not requeued: the attempt ends.
RetryFault(w) ==
    /\ Faulting
    /\ pc[w] \in {"decide", "backoff"}
    /\ LeaveJob(w)
    /\ UNCHANGED <<dbVars, tokenVars, plan, out, eventVars, up>>

\* The process ends at any point: tasks, tokens, events and pending calls go.
Exit ==
    /\ up /\ exits < MaxExits
    /\ up' = FALSE /\ exits' = exits + 1
    /\ registry' = {} /\ cancelled' = {} /\ signals' = {}
    /\ pc' = [w \in Worker |-> "off"] /\ cur' = [w \in Worker |-> 0]
    /\ att' = [w \in Worker |-> 0]
    /\ plan' = [w \in Worker |-> <<>>] /\ out' = [w \in Worker |-> "lost"]
    /\ chan' = [w \in Worker |-> <<>>] /\ upd' = [w \in Worker |-> "off"]
    /\ permit' = FALSE
    /\ UNCHANGED <<dbVars, retries, faults, overlap>>

\* open_with_vault: both tables are recovered, then the workers start.
Open ==
    /\ ~up /\ up' = TRUE
    /\ execs' = [e \in Exec |-> RecoverExec(execs[e])]
    /\ jobs' = [j \in Job |-> RecoverRow(jobs[j])]
    /\ pc' = [w \in Worker |-> "next"]
    /\ UNCHANGED <<tokenVars, cur, att, plan, out, eventVars, permit, countVars>>

-----------------------------------------------------------------------------
Init ==
    /\ \E home \in [Job -> Server] :
          jobs = [j \in Job |-> [status |-> "absent", server |-> home[j], exec |-> 0,
                                 attempts |-> 0, cancel |-> FALSE,
                                 retryable |-> FALSE, err |-> "none"]]
    /\ execs = [e \in Exec |-> "absent"]
    /\ registry = {} /\ cancelled = {} /\ signals = {}
    /\ pc = [w \in Worker |-> "next"] /\ cur = [w \in Worker |-> 0]
    /\ att = [w \in Worker |-> 0]
    /\ plan = [w \in Worker |-> <<>>] /\ out = [w \in Worker |-> "lost"]
    /\ chan = [w \in Worker |-> <<>>] /\ upd = [w \in Worker |-> "off"]
    /\ permit = FALSE /\ up = TRUE
    /\ retries = 0 /\ faults = 0 /\ exits = 0 /\ overlap = FALSE

WorkerStep(w) ==
    \/ NextRunnable(w) \/ Claim(w) \/ AwaitNotify(w)
    \/ CreateExecution(w) \/ MarkRunning(w) \/ AnnounceConnecting(w) \/ Connect(w)
    \/ EnterPhase(w) \/ TransferEnds(w) \/ RecordOutcome(w)
    \/ Conclude(w) \/ Decide(w) \/ RequeueAutomatically(w)

UpdaterStep(w) == ApplyEvent(w) \/ CheckCancel(w)

UserStep == \/ \E j \in Job : Enqueue(j) \/ RequestCancel(j) \/ Retry(j)
            \/ \E e \in Exec : SignalExecution(e)

FaultStep(w) == \/ LoopFault(w) \/ UpdaterFault(w) \/ ExecutionFault(w)
                \/ ConcludeFault(w) \/ RetryFault(w)

Next == \/ \E w \in Worker : WorkerStep(w) \/ UpdaterStep(w) \/ FaultStep(w)
        \/ UserStep \/ Exit \/ Open

Spec == Init /\ [][Next]_vars

\* The runtime keeps polling ready tasks, and connections, transfers and
\* statements come to an end (SSH time-outs, SQLite's busy time-out).
Fairness == \A w \in Worker : WF_vars(WorkerStep(w)) /\ WF_vars(UpdaterStep(w))
FairSpec == Spec /\ Fairness

-----------------------------------------------------------------------------
(* Properties.                                                             *)

\* Every variable has the type of the column, set or local it stands for.
TypeOK ==
    /\ jobs \in [Job -> Row]
    /\ execs \in [Exec -> {"absent", "queued", "running"} \cup Terminal]
    /\ registry \subseteq Exec /\ cancelled \subseteq Exec /\ signals \subseteq Exec
    /\ pc \in [Worker -> PC] /\ cur \in [Worker -> Job \cup {0}]
    /\ att \in [Worker -> 0..MaxAttempts]
    /\ plan \in [Worker -> Seq(Phase)] /\ out \in [Worker -> Outcome \cup {"lost"}]
    /\ chan \in [Worker -> Seq({"started"} \cup Phase \cup Outcome)]
    /\ upd \in [Worker -> {"off", "recv", "check", "dead"}]
    /\ permit \in BOOLEAN /\ up \in BOOLEAN /\ overlap \in BOOLEAN
    /\ retries \in 0..MaxRetries /\ faults \in 0..MaxFaults /\ exits \in 0..MaxExits

\* Two workers that read the same queued row never both execute it, and a
\* retry never starts a second transfer beside the first, unless the job was
\* put back into the queue before the worker of its last attempt let go of it.
NoDoubleRun ==
    ~overlap => \A v, w \in Worker :
        v # w /\ pc[v] \in Running /\ pc[w] \in Running => cur[v] # cur[w]

\* A job shown as ended (succeeded, failed, cancelled or uncertain) has no
\* transfer still at work: its status is written by an event sent, or a
\* recovery done, after the remote side was left alone (same proviso).
AtWork == Running \ {"record", "drain"}
EndedIsQuiet == ~overlap => \A w \in Worker : pc[w] \in AtWork => IsActive(cur[w])

\* A queued job always has an attempt left, so claim never exceeds
\* max_attempts although it does not look at the counter.
AttemptBudget == \A j \in Job : jobs[j].status = "queued" => jobs[j].attempts < MaxAttempts

\* A cancellation of a running job is never lost between request_cancel and
\* set_execution: once the row names the execution, its token is cancelled,
\* or gone, or somebody is about to cancel it (unless a statement failed).
CancelDelivered ==
    \A j \in Job :
        LET e == <<j, jobs[j].exec>> IN
        IsActive(j) /\ jobs[j].cancel /\ jobs[j].exec # 0 =>
            \/ e \in cancelled \/ e \notin registry \/ e \in signals \/ faults > 0
            \/ \E w \in Worker : ExecOf(w) = e /\ upd[w] = "check"

\* A job never claims more than its execution record: succeeded and cancelled
\* jobs point at an execution row with that very status, whatever failed or
\* was interrupted on the way (a job cancelled in the queue points at none).
JobMatchesExecution ==
    ~overlap => \A j \in Job :
        /\ jobs[j].status = "succeeded" => jobs[j].exec # 0
        /\ jobs[j].status \in {"succeeded", "cancelled"} /\ jobs[j].exec # 0
              => execs[<<j, jobs[j].exec>>] = jobs[j].status

\* While no statement failed, an active row is being executed by a worker or
\* waits for the recovery of the next start: no slot of a server is leaked.
ActiveIsOwned == faults = 0 /\ up => \A j \in Job : IsActive(j) => InHand(j)

\* Every queued job is eventually taken up or cancelled: no wake-up is lost
\* between the empty answer of next_runnable and the wait on the Notify, and
\* a job held back by the server limit is woken when a slot is freed.
QueuedIsServed == \A j \in Job : jobs[j].status = "queued" ~> jobs[j].status # "queued"

\* Every attempt ends: an active job reaches a final status or the queue.
ActiveEnds == \A j \in Job : IsActive(j) ~> ~IsActive(j)

-----------------------------------------------------------------------------
(* What the queue implements.                                              *)

\* A job as its user sees it: the phases of a transfer are all one.
Shown(row) == IF row.status \in Phase THEN "active" ELSE row.status
JQ == INSTANCE JobQueue WITH state <- [j \in Job |-> Shown(jobs[j])],
                             tries <- [j \in Job |-> jobs[j].attempts],
                             asked <- [j \in Job |-> jobs[j].cancel],
                             torn <- overlap

\* Every statement on a job is a step of JobQueue or none that its user sees:
\* late events, verdicts by job id, retries and restarts in whatever order
\* never revive a job that succeeded or was cancelled, never end one that is
\* waiting, never start one without counting it and cancel none unasked (while
\* no job goes back to the queue in the hands of a worker: the verdict of the
\* last attempt may then meet a later one).
ImplementsJobQueue == JQ!Spec
=============================================================================
