----------------------------- MODULE Execution -----------------------------
(***************************************************************************)
(* One command of an operation run, from the row that is created for it to *)
(* the row's end: ExecutionService, ExecutionRegistry, execute_streaming.  *)
(* The components that start commands use the row of their run, hand in a  *)
(* token and go on from the step "executed".                               *)
(***************************************************************************)
EXTENDS Naturals

CONSTANTS
    Run,          \* operation runs, each with at most one command
    MaxFailures   \* bound on failing statements

VARIABLES
    run,       \* operation_runs.status, "none" before there is a row
    exec,      \* executions.status of the run's command
    step,      \* where the code that drives the run is
    token,     \* ExecutionRegistry: "none", "live" or "cancelled"
    parent,    \* the token the caller hands in is cancelled
    end,       \* what has become of the command, as the client knows it
    remote,    \* the command on the server
    failures

execVars == <<run, exec, step, token, parent, end, remote, failures>>

RunStatus  == {"none", "preview_ready", "waiting_confirmation", "running", "succeeded", "failed",
               "cancelled", "uncertain"}
ExecStatus == {"none", "queued", "running", "succeeded", "failed", "cancelled", "uncertain"}
ExecEnd    == {"succeeded", "failed", "cancelled", "uncertain"}

ExecInit ==
    /\ run = [r \in Run |-> "none"] /\ exec = [r \in Run |-> "none"]
    /\ token = [r \in Run |-> "none"] /\ parent = [r \in Run |-> FALSE]
    /\ end = [r \in Run |-> "none"] /\ remote = [r \in Run |-> "none"]
    /\ failures = 0

At(r, label)   == step[r] = label
Move(r, label) == step' = [step EXCEPT ![r] = label]
Set(r, status) == run' = [run EXCEPT ![r] = status]

\* A statement that fails
Fails == failures < MaxFailures /\ failures' = failures + 1

\* OperationRepository::transition: the row must still be in the old status.
Transition(r, from, to) ==
    run[r] = from /\ Set(r, to) /\ UNCHANGED failures
NoTransition(r, from) ==
    /\ (run[r] # from /\ UNCHANGED failures) \/ Fails
    /\ UNCHANGED run

-----------------------------------------------------------------------------

CreateExecution(r) ==
    /\ At(r, "create")
    /\ \/ exec' = [exec EXCEPT ![r] = "queued"] /\ Move(r, "connect") /\ UNCHANGED failures
       \/ Fails /\ Move(r, "executed") /\ UNCHANGED exec
    /\ UNCHANGED <<run, token, parent, end, remote>>

\* A choice between the token and connect
Connect(r) ==
    /\ At(r, "connect") /\ Move(r, "mark")
    /\ \/ UNCHANGED end
       \/ end' = [end EXCEPT ![r] = "failed"]
       \/ parent[r] /\ end' = [end EXCEPT ![r] = "cancelled"]
    /\ UNCHANGED <<run, exec, token, parent, remote, failures>>

\* mark_running, also for a command that failed before; register_child
MarkRunning(r) ==
    /\ At(r, "mark")
    /\ \/ /\ exec' = [exec EXCEPT ![r] = "running"] /\ UNCHANGED failures
          /\ IF end[r] = "none" THEN Move(r, "exec") /\ token' = [token EXCEPT ![r] = "live"]
                                ELSE Move(r, "finish") /\ UNCHANGED token
       \/ Fails /\ Move(r, "executed") /\ UNCHANGED <<exec, token>>
    /\ UNCHANGED <<run, parent, end, remote>>

\* open_session_channel and exec; the token is not looked at before.
Exec(r) ==
    /\ At(r, "exec")
    /\ \/ remote' = [remote EXCEPT ![r] = "running"] /\ Move(r, "wait") /\ UNCHANGED end
       \/ end' = [end EXCEPT ![r] = "failed"] /\ Move(r, "finish") /\ UNCHANGED remote
    /\ UNCHANGED <<run, exec, token, parent, failures>>

\* The command ends by itself, also when nobody waits for it any more.
RemoteEnds(r) ==
    /\ remote[r] = "running"
    /\ \E status \in {"succeeded", "failed"} : remote' = [remote EXCEPT ![r] = status]
    /\ UNCHANGED <<run, exec, step, token, parent, end, failures>>

Ended(r, how) ==
    /\ end' = [end EXCEPT ![r] = how]
    /\ Move(r, "finish")
    /\ UNCHANGED <<run, exec, token, parent, remote, failures>>

ExitStatus(r) == At(r, "wait") /\ remote[r] # "running" /\ Ended(r, remote[r])

\* Mutant: a channel that closes without a status is a success.
ChannelClosesFine(r) == At(r, "wait") /\ Ended(r, "succeeded")

\* No exit status before the channel closes: require_exit_status
ChannelCloses(r) == At(r, "wait") /\ Ended(r, "uncertain")

\* The timeout, the limit of the output or a file that cannot be written
WaitFails(r) == At(r, "wait") /\ Ended(r, "failed")

\* The channel is closed, or that cannot be confirmed.
CancelWait(r) ==
    /\ At(r, "wait") /\ (parent[r] \/ token[r] = "cancelled")
    /\ \E how \in {"cancelled", "uncertain"} : Ended(r, how)

\* The token is taken out, the row ends and the caller's events hear of it:
\* finish, finish_error.  When the statement fails the row stays "running" until
\* the next start; when the event does, the caller gets an error all the same.
Finish(r) ==
    /\ At(r, "finish")
    /\ token' = [token EXCEPT ![r] = "none"]
    /\ Move(r, "executed")
    /\ \/ exec' = [exec EXCEPT ![r] = end[r]] /\ UNCHANGED <<end, failures>>
       \/ /\ Fails /\ end' = [end EXCEPT ![r] = "none"]
          /\ exec' \in {exec, [exec EXCEPT ![r] = end[r]]}
    /\ UNCHANGED <<run, parent, remote>>

\* ExecutionService::cancel
CancelExecution(r) ==
    /\ token[r] = "live"
    /\ token' = [token EXCEPT ![r] = "cancelled"]
    /\ UNCHANGED <<run, exec, step, parent, end, remote, failures>>

\* OperationService::cancel, for a run that is still a preview
CancelRun(r) ==
    /\ run[r] \in {"preview_ready", "waiting_confirmation"}
    /\ Set(r, "cancelled")
    /\ UNCHANGED <<exec, step, token, parent, end, remote, failures>>

ClientStep(r) ==
    \/ CreateExecution(r) \/ Connect(r) \/ MarkRunning(r) \/ Exec(r) \/ ExitStatus(r)
    \/ ChannelCloses(r) \/ WaitFails(r) \/ CancelWait(r) \/ Finish(r)

Environment(r) == RemoteEnds(r) \/ CancelExecution(r) \/ CancelRun(r)

\* What the caller gets: the status in the row, or an error
Result(r) == IF end[r] # "none" /\ exec[r] = end[r] THEN end[r] ELSE "error"

\* Both rows at the next start: recover_interrupted.  A row that was never
\* marked running stays "queued", a preview stays as it is.
Recover ==
    /\ exec' = [r \in Run |-> IF exec[r] = "running" THEN "uncertain" ELSE exec[r]]
    /\ run' = [r \in Run |-> IF run[r] = "running" THEN "uncertain" ELSE run[r]]
    /\ token' = [r \in Run |-> "none"]
    /\ UNCHANGED <<parent, end, remote, failures>>

-----------------------------------------------------------------------------
(* Properties                                                               *)

\* A run that succeeded is one whose command's row did, and a row that succeeded
\* is that of a command that ended with status 0 on the server.
SuccessIsReal ==
    \A r \in Run : /\ run[r] = "succeeded" => exec[r] = "succeeded"
                 /\ exec[r] = "succeeded" => remote[r] = "succeeded"

=============================================================================
