--------------------------- MODULE OperationTasks ---------------------------
(***************************************************************************)
(* A batch, runs of scripts and searches in logs side by side: they share  *)
(* the executions with their registry, the idle gate, the failing          *)
(* statements and the exit of the application.                             *)
(***************************************************************************)
EXTENDS OperationBatch, ScriptRun, LogSearch

CONSTANT MaxExits   \* bound on exits of the application

ASSUME TasksAssumption ==
    /\ Server \cup ScriptRuns \cup SearchRuns = Run
    /\ Server \cap ScriptRuns = {} /\ (Server \cup ScriptRuns) \cap SearchRuns = {}

VARIABLE exits

vars == <<execVars, batchVars, scriptVars, searchVars, exits>>

Init ==
    /\ ExecInit /\ BatchInit /\ ScriptInit /\ SearchInit
    /\ step \in [Run -> {"idle", "returned"}]
    /\ \A r \in Run : step[r] = "returned" => r \in SearchRuns   \* nobody asks for it
    /\ exits = 0

\* The process ends anywhere; commands go on.  main.rs: recovery, then commands.
ExitAndOpen ==
    /\ exits < MaxExits /\ exits' = exits + 1
    /\ Recover /\ RecoverBatch /\ RecoverScripts /\ RecoverSearches
    /\ step' = [r \in Run |-> IF step[r] = "idle" THEN "idle" ELSE "returned"]

\* ensure_idle_for_data_migration, as far as it concerns these
Idle == registry = "none" /\ active = {} /\ \A r \in Run : token[r] = "none"

Next ==
    \/ /\ \/ \E s \in Server : TaskStep(s) \/ CommandStep(s)
          \/ MainStep \/ CancelBatch \/ CancelItems
       /\ UNCHANGED <<scriptVars, searchVars, exits>>
    \/ /\ \/ \E r \in ScriptRuns : ConfirmStep(r) \/ UserStep(r) \/ ScriptClientStep(r)
          \/ DefinitionStep
       /\ UNCHANGED <<batchVars, searchVars, exits>>
    \/ /\ \E r \in SearchRuns : SearchStep(r)
       /\ UNCHANGED <<batchVars, scriptVars, exits>>
    \/ /\ \E r \in Run : Environment(r)
       /\ UNCHANGED <<batchVars, scriptVars, searchVars, exits>>
    \/ ExitAndOpen

Spec == Init /\ [][Next]_vars

\* The tasks are polled by the runtime; a wait for a command has a timeout.
Fairness ==
    /\ WF_vars(MainStep /\ UNCHANGED <<scriptVars, searchVars, exits>>)
    /\ \A s \in Server : WF_vars((TaskStep(s) \/ CommandStep(s)) /\ UNCHANGED <<scriptVars, searchVars, exits>>)

FairSpec == Spec /\ Fairness

-----------------------------------------------------------------------------
(* Properties                                                               *)

\* A batch that has ended leaves no item open; one that succeeded stands for
\* commands that all ended with status 0, and one with an item that was cancelled
\* says so unless the application went away.
BatchIsAccurate ==
    batch \notin BatchOpen =>
        /\ \A s \in Server : item[s] \notin ItemOpen
        /\ batch = "succeeded" =>
               \A s \in Server : item[s] = "succeeded" /\ run[s] = "succeeded" /\ remote[s] = "succeeded"
        /\ Count("cancelled") > 0 /\ exits = 0 => batch = "cancelled"

\* An item that has ended keeps its status and its server gets no command any
\* more, also when the cancellation or the closing of the batch meets the task
\* between its look at the token and mark_item_running.
EndedItemsRest ==
    [][\A s \in Server : item[s] \notin ItemOpen =>
           item'[s] = item[s] /\ (remote[s] = "none" => remote'[s] = "none")]_vars

\* What ensure_idle_for_data_migration relies on: with nothing in the registries
\* this process drives no command of a batch or a script and waits for none of a
\* search.
IdleIsQuiet ==
    Idle => \A r \in Run : /\ step[r] \notin {"exec", "wait", "finish"}
                          /\ r \notin SearchRuns => step[r] \notin {"create", "connect", "mark", "executed"}

\* The gate tells the truth both ways: it is open only when nothing is at work
\* and shut only by entries that somebody is going to take out.
GateIsTrue == IdleIsQuiet /\ EntriesAreDriven

\* A batch that runs comes to an end, also after a failing statement and an exit.
\* When a second statement fails its row stays "running" until the next start.
BatchSettles == (batch = "running") ~> (batch \notin BatchOpen \/ failures > 1)

=============================================================================
