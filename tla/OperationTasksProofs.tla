------------------------ MODULE OperationTasksProofs ------------------------
(***************************************************************************)
(* What holds of batches, runs of scripts and searches for every set of    *)
(* runs, every bound and every interleaving: successes are real, scripts   *)
(* run as they were shown, the idle gate tells the truth, and the status   *)
(* of a batch is that of its items.                                        *)
(***************************************************************************)
EXTENDS OperationTasks, FiniteSetTheorems, TLAPS

-----------------------------------------------------------------------------
(* Types                                                                    *)

Client      == {"create", "connect", "mark", "exec", "wait", "finish", "executed"}
ServerLabel == Client \cup {"idle", "returned", "waiting", "admitted", "mark_item", "start",
                            "preview", "ready", "begin", "result", "report"}
ScriptLabel == Client \cup {"idle", "returned", "check", "version", "start", "record", "activate"}
SearchLabel == {"idle", "returned", "search", "dial", "files", "exec", "wait", "finish",
                "store", "conclude"}
Label       == ServerLabel \cup ScriptLabel \cup SearchLabel

ExecTypes ==
    /\ run \in [Run -> RunStatus] /\ exec \in [Run -> ExecStatus] /\ step \in [Run -> Label]
    /\ token \in [Run -> {"none", "live", "cancelled"}] /\ parent \in [Run -> BOOLEAN]
    /\ end \in [Run -> ExecEnd \cup {"none"}]
    /\ remote \in [Run -> {"none", "running", "succeeded", "failed"}]
    /\ failures \in Nat /\ exits \in Nat

ItemEnd  == {"succeeded", "failed", "cancelled"}
Working  == {"join", "cancel_queued", "fail_open", "complete"}

BatchTypes ==
    /\ batch \in BatchOpen \cup ItemEnd \cup {"none", "partial"}
    /\ item \in [Server -> ItemOpen \cup ItemEnd \cup {"none"}]
    /\ outcome \in [Server -> ItemEnd \cup {"none"}]
    /\ main \in Working \cup {"mark", "spread", "close", "done"}
    /\ broken \in BOOLEAN /\ asking \in BOOLEAN
    /\ registry \in {"none", "live", "cancelled"}

ScriptTypes ==
    /\ script \in [active : Nat, versions : Nat, enabled : BOOLEAN, deleted : BOOLEAN]
    /\ preview \in [ScriptRuns -> Nat] /\ using \in [ScriptRuns -> Nat]
    /\ shown \in [ScriptRuns -> Nat] /\ began \in [ScriptRuns -> Nat]
    /\ active \subseteq ScriptRuns /\ allowed \subseteq ScriptRuns

\* The files of a search are not typed: no theorem here is about them.
TypeInv == ExecTypes /\ BatchTypes /\ ScriptTypes

-----------------------------------------------------------------------------
(* The invariant: of each run, of each item and of the batch                *)

Labelled(r) ==
    /\ r \in Server => step[r] \in ServerLabel
    /\ r \in ScriptRuns => step[r] \in ScriptLabel
    /\ r \in SearchRuns => step[r] \in SearchLabel

\* No command is sent twice: before it is sent there is none.
Fresh(r) ==
    /\ remote[r] # "none" =>
           step[r] \in {"idle", "returned", "wait", "finish", "executed", "result", "report",
                        "store", "conclude"}
    /\ r \notin ScriptRuns /\ step[r] = "idle" => remote[r] = "none"
    /\ r \in ScriptRuns /\ preview[r] # 0 => run[r] # "none" /\ step[r] = "idle" /\ remote[r] = "none"
    /\ r \in ScriptRuns /\ run[r] = "none" => step[r] = "idle" /\ remote[r] = "none"
    /\ r \in Server /\ main = "mark" => step[r] = "idle"

\* A success goes from the server over the client and the row of the execution
\* to the row of the run, and nothing takes it back.
Real(r) ==
    /\ exec[r] = "succeeded" => remote[r] = "succeeded"
    /\ end[r] = "succeeded" => remote[r] = "succeeded"
    /\ run[r] = "succeeded" =>
           exec[r] = "succeeded" /\ step[r] \in {"idle", "returned", "report"} /\ r \notin SearchRuns
    /\ step[r] = "result" => exec[r] = "succeeded"

\* A command of a script runs under a token of ScriptService, one of a search
\* under an entry of the registry, and entries are taken out again.
Gated(r) ==
    /\ r \in ScriptRuns /\ step[r] \in Client => r \in active
    /\ r \in SearchRuns /\ step[r] \in {"dial", "files", "exec", "wait", "finish"} => token[r] # "none"
    /\ token[r] # "none" =>
           step[r] \in {"exec", "wait", "finish", "dial", "files"} \/ (r \in SearchRuns /\ failures > 0)

\* From the preview to the command it is the version that was shown.
Shown(r) ==
    /\ preview[r] # 0 => preview[r] = shown[r]
    /\ step[r] \in ScriptLabel \ {"idle", "returned"} => using[r] = shown[r]
    /\ step[r] = "check" /\ script.enabled => r \in allowed
    /\ step[r] \in ScriptLabel \ {"idle", "returned", "check"} => r \in allowed
    /\ began[r] # 0 => began[r] = shown[r] /\ r \in allowed /\ remote[r] # "none"

\* A task works only while the batch joins, and from mark_item_running to its
\* report its item is running.
Served(s) ==
    /\ step[s] \notin {"idle", "returned"} => main = "join"
    /\ step[s] \notin {"idle", "returned", "waiting", "admitted", "mark_item"} => item[s] = "running"
    /\ step[s] = "report" => outcome[s] # "none"
    /\ outcome[s] = "succeeded" => run[s] = "succeeded" /\ step[s] \in {"report", "returned"}
    /\ item[s] = "succeeded" => run[s] = "succeeded"
    /\ item[s] = "none" <=> batch = "none"
    /\ batch \notin BatchOpen => item[s] \notin ItemOpen

Joined ==
    /\ main = "mark" => batch = "queued"
    /\ main \in Working => batch = "running"
    /\ main \in {"spread", "close"} => batch \in BatchOpen
    /\ registry = "none" <=> main \in {"spread", "close", "done"}

Verdict ==
    /\ batch = "succeeded" => \A s \in Server : item[s] = "succeeded"
    /\ batch \notin BatchOpen /\ exits = 0 /\ (\E s \in Server : item[s] = "cancelled") =>
           batch = "cancelled"

Sound(r) == Labelled(r) /\ Fresh(r) /\ Real(r) /\ Gated(r)

RunInv    == \A r \in Run : Sound(r)
ShownInv  == \A r \in ScriptRuns : Shown(r)
ServedInv == Joined /\ Verdict /\ \A s \in Server : Served(s)

TasksInv == TypeInv /\ RunInv /\ ShownInv /\ ServedInv

-----------------------------------------------------------------------------
(* Type correctness                                                         *)

LEMMA Parts == Server \subseteq Run /\ ScriptRuns \subseteq Run /\ SearchRuns \subseteq Run
BY TasksAssumption

LEMMA InitTypes == Init => TypeInv
<1> SUFFICES ASSUME Init PROVE TypeInv
    OBVIOUS
<1>1. ExecTypes
  BY DEF Init, ExecInit, ExecTypes, RunStatus, ExecStatus, ExecEnd, Client, ServerLabel, Label
<1>2. BatchTypes
  BY DEF Init, BatchInit, BatchTypes, BatchOpen, ItemOpen, ItemEnd, Working
<1>3. ScriptTypes
  BY DEF Init, ScriptInit, ScriptTypes
<1> QED BY <1>1, <1>2, <1>3 DEF TypeInv

LEMMA ClientTypes ==
    ASSUME ExecTypes, NEW r \in Run, ClientStep(r), UNCHANGED exits
    PROVE  ExecTypes'
<1> USE DEF ExecTypes
<1> SUFFICES /\ run' = run /\ parent' = parent
             /\ exec' \in [Run -> ExecStatus] /\ step' \in [Run -> Label]
             /\ token' \in [Run -> {"none", "live", "cancelled"}]
             /\ end' \in [Run -> ExecEnd \cup {"none"}]
             /\ remote' \in [Run -> {"none", "running", "succeeded", "failed"}]
             /\ failures' \in Nat
    OBVIOUS
<1> USE DEF Move, ExecStatus, ExecEnd, Fails, Client, ServerLabel, Label
<1>1. CASE CreateExecution(r) BY <1>1 DEF CreateExecution
<1>2. CASE Connect(r) BY <1>2 DEF Connect
<1>3. CASE MarkRunning(r) BY <1>3 DEF MarkRunning
<1>4. CASE Exec(r) BY <1>4 DEF Exec
<1>5. CASE ExitStatus(r) BY <1>5 DEF ExitStatus, Ended
<1>6. CASE ChannelCloses(r) BY <1>6 DEF ChannelCloses, Ended
<1>7. CASE WaitFails(r) BY <1>7 DEF WaitFails, Ended
<1>8. CASE CancelWait(r) BY <1>8 DEF CancelWait, Ended
<1>9. CASE Finish(r)
  <2>1. end[r] \in ExecStatus BY DEF ExecEnd
  <2> QED BY <1>9, <2>1 DEF Finish
<1> QED BY <1>1, <1>2, <1>3, <1>4, <1>5, <1>6, <1>7, <1>8, <1>9 DEF ClientStep

LEMMA ResultTypes ==
    ASSUME ExecTypes, NEW r \in Run
    PROVE  /\ Result(r) \in ExecEnd \cup {"error"}
           /\ Result(r) \in RunStatus \cup {"error"}
           /\ Result(r) = "succeeded" => exec[r] = "succeeded"
BY DEF ExecTypes, Result, ExecEnd, RunStatus

LEMMA TaskTypes ==
    ASSUME ExecTypes, BatchTypes, NEW s \in Server, TaskStep(s), UNCHANGED exits
    PROVE  ExecTypes' /\ BatchTypes'
<1> s \in Run BY Parts
<1>1. /\ exec' = exec /\ token' = token /\ parent' = parent /\ end' = end /\ remote' = remote
      /\ batch' = batch /\ main' = main /\ registry' = registry /\ asking' = asking
  BY DEF TaskStep, Admit, LookAtToken, MarkItemRunning, Start, Preview, Ready, BeginStep, AfterStep,
         SaveResult, FinishItem, Keep, Rest
<1> SUFFICES /\ run' \in [Run -> RunStatus] /\ step' \in [Run -> Label] /\ failures' \in Nat
             /\ item' \in [Server -> ItemOpen \cup ItemEnd \cup {"none"}]
             /\ outcome' \in [Server -> ItemEnd \cup {"none"}]
             /\ broken' \in BOOLEAN
    BY <1>1 DEF ExecTypes, BatchTypes
<1> USE DEF ExecTypes, BatchTypes, Return, Move, Report, Fails, Transition, NoTransition, Set, Client,
            ServerLabel, Label, RunStatus, ItemEnd, ItemOpen, Keep, Rest
<1>2. CASE Admit(s) BY <1>2 DEF Admit
<1>3. CASE LookAtToken(s) BY <1>3 DEF LookAtToken
<1>4. CASE MarkItemRunning(s)
  <2>1. broken' \in BOOLEAN BY <1>4, Zenon DEF MarkItemRunning
  <2>2. step' \in [Run -> Label] /\ run' \in [Run -> RunStatus] BY <1>4 DEF MarkItemRunning
  <2>3. item' \in [Server -> ItemOpen \cup ItemEnd \cup {"none"}] BY <1>4 DEF MarkItemRunning
  <2>4. failures' \in Nat BY <1>4 DEF MarkItemRunning
  <2> QED BY <1>4, <2>1, <2>2, <2>3, <2>4 DEF MarkItemRunning
<1>5. CASE Start(s) BY <1>5 DEF Start
<1>6. CASE Preview(s) BY <1>6 DEF Preview
<1>7. CASE Ready(s) BY <1>7 DEF Ready
<1>8. CASE BeginStep(s) BY <1>8 DEF BeginStep
<1>9. CASE AfterStep(s) BY <1>9, ResultTypes DEF AfterStep
<1>10. CASE SaveResult(s) BY <1>10 DEF SaveResult
<1>11. CASE FinishItem(s)
  <2>1. broken' \in BOOLEAN BY <1>11, Zenon DEF FinishItem
  <2>2. step' \in [Run -> Label] /\ run' \in [Run -> RunStatus] BY <1>11 DEF FinishItem
  <2>3. item' \in [Server -> ItemOpen \cup ItemEnd \cup {"none"}] BY <1>11 DEF FinishItem
  <2>4. failures' \in Nat BY <1>11 DEF FinishItem
  <2> QED BY <1>11, <2>1, <2>2, <2>3, <2>4 DEF FinishItem
<1> QED BY <1>2, <1>3, <1>4, <1>5, <1>6, <1>7, <1>8, <1>9, <1>10, <1>11 DEF TaskStep

LEMMA MainTypes ==
    ASSUME ExecTypes, BatchTypes, MainStep \/ CancelBatch \/ CancelItems, UNCHANGED exits
    PROVE  ExecTypes' /\ BatchTypes'
<1> USE DEF ExecTypes, BatchTypes, Fails, ItemEnd, ItemOpen, BatchOpen, Working, Abort, Go, Items, Aside,
            Derived, rows
<1>1. CASE MarkBatchRunning
  BY <1>1 DEF MarkBatchRunning, Client, ServerLabel, Label
<1>2. CASE Join BY <1>2 DEF Join
<1>3. CASE CancelQueued BY <1>3 DEF CancelQueued
<1>4. CASE FailOpen BY <1>4 DEF FailOpen
<1>5. CASE Complete BY <1>5 DEF Complete
<1>6. CASE Spread BY <1>6 DEF Spread
<1>7. CASE Close BY <1>7 DEF Close
<1>8. CASE CancelBatch
  <2>1. parent' \in [Run -> BOOLEAN] BY <1>8, Zenon DEF CancelBatch
  <2> QED BY <1>8, <2>1 DEF CancelBatch
<1>9. CASE CancelItems
  <2>1. asking' \in BOOLEAN BY <1>9, Zenon DEF CancelItems
  <2>2. item' \in [Server -> ItemOpen \cup ItemEnd \cup {"none"}] BY <1>9 DEF CancelItems
  <2>3. failures' \in Nat BY <1>9 DEF CancelItems
  <2> QED BY <1>9, <2>1, <2>2, <2>3 DEF CancelItems
<1> QED BY <1>1, <1>2, <1>3, <1>4, <1>5, <1>6, <1>7, <1>8, <1>9 DEF MainStep

LEMMA ConfirmTypes ==
    ASSUME ExecTypes, ScriptTypes, NEW r \in ScriptRuns, ConfirmStep(r) \/ UserStep(r), UNCHANGED exits
    PROVE  ExecTypes' /\ ScriptTypes'
<1> r \in Run BY Parts
<1> USE DEF ExecTypes, ScriptTypes, Done, Move, Fails, Transition, NoTransition, Set, Client, ScriptLabel,
            ServerLabel, Label, RunStatus, Rows, scriptVars
<1>1. CASE CheckEnabled(r) BY <1>1 DEF CheckEnabled
<1>2. CASE GetVersion(r) BY <1>2 DEF GetVersion
<1>3. CASE StartConfirmed(r) BY <1>3 DEF StartConfirmed
<1>4. CASE RecordRun(r) BY <1>4 DEF RecordRun
<1>5. CASE Activate(r) BY <1>5 DEF Activate
<1>6. CASE Settle(r) BY <1>6, ResultTypes DEF Settle
<1>7. CASE PreviewRun(r) BY <1>7 DEF PreviewRun
<1>8. CASE Consume(r) BY <1>8 DEF Consume
<1>9. CASE CancelPreview(r) BY <1>9 DEF CancelPreview
<1>10. CASE CancelActive(r)
  <2>1. parent' \in [Run -> BOOLEAN] BY <1>10, Zenon DEF CancelActive
  <2> QED BY <1>10, <2>1 DEF CancelActive
<1> QED BY <1>1, <1>2, <1>3, <1>4, <1>5, <1>6, <1>7, <1>8, <1>9, <1>10 DEF ConfirmStep, UserStep

LEMMA DefinitionTypes ==
    ASSUME ExecTypes, ScriptTypes, DefinitionStep, UNCHANGED exits
    PROVE  ExecTypes' /\ ScriptTypes'
<1> USE DEF ExecTypes, ScriptTypes, Edit, Untouched, execVars
<1>1. CASE SaveVersion
  <2> DEFINE new == [script EXCEPT !.versions = @ + 1, !.active = script.versions + 1]
  <2>1. new \in [active : Nat, versions : Nat, enabled : BOOLEAN, deleted : BOOLEAN]
    <3> DEFINE next == script.versions + 1
    <3>1. next \in Nat OBVIOUS
    <3>2. new = [script EXCEPT !.versions = next, !.active = next] OBVIOUS
    <3> HIDE DEF next, new
    <3>3. [script EXCEPT !.versions = next, !.active = next]
             \in [active : Nat, versions : Nat, enabled : BOOLEAN, deleted : BOOLEAN]
      BY <3>1, Zenon
    <3> QED BY <3>1, <3>2, <3>3
  <2>2. Edit(new) BY <1>1 DEF SaveVersion
  <2> HIDE DEF new
  <2> QED BY <2>1, <2>2
<1>2. CASE SetEnabled BY <1>2 DEF SetEnabled
<1>3. CASE SoftDelete BY <1>3 DEF SoftDelete
<1> QED BY <1>1, <1>2, <1>3 DEF DefinitionStep

LEMMA SearchTypes ==
    ASSUME ExecTypes, NEW r \in SearchRuns, SearchStep(r), UNCHANGED exits
    PROVE  ExecTypes'
<1> r \in Run BY Parts
<1> USE DEF ExecTypes, Leave, Move, Fails, SearchLabel, Label, ExecStatus, ExecEnd
<1>1. CASE CreateSearch(r) BY <1>1 DEF CreateSearch
<1>2. CASE MarkSearch(r) BY <1>2 DEF MarkSearch
<1>3. CASE Dial(r) BY <1>3 DEF Dial
<1>4. CASE OpenCapture(r) BY <1>4 DEF OpenCapture
<1>5. CASE Stream(r) BY <1>5, ClientTypes DEF Stream, ClientStep
<1>6. CASE Flush(r) BY <1>6 DEF Flush
<1>7. CASE Store(r) BY <1>7 DEF Store
<1>8. CASE Conclude(r) BY <1>8 DEF Conclude
<1>9. CASE ReadPage(r) BY <1>9 DEF ReadPage, execVars
<1> QED BY <1>1, <1>2, <1>3, <1>4, <1>5, <1>6, <1>7, <1>8, <1>9 DEF SearchStep

LEMMA OtherTypes ==
    ASSUME TypeInv, ExitAndOpen \/ (\E r \in Run : Environment(r) /\ UNCHANGED <<batchVars, scriptVars, exits>>)
    PROVE  TypeInv'
<1> USE DEF TypeInv
<1>1. CASE ExitAndOpen
  <2> USE <1>1 DEF ExitAndOpen, Recover, RecoverBatch, RecoverScripts
  <2>1. ExecTypes'
    BY DEF ExecTypes, RunStatus, ExecStatus, ExecEnd, Client, ServerLabel, Label
  <2>2. BatchTypes' BY DEF BatchTypes, BatchOpen, ItemOpen, ItemEnd
  <2>3. ScriptTypes' BY DEF ScriptTypes
  <2> QED BY <2>1, <2>2, <2>3
<1>2. ASSUME NEW r \in Run, Environment(r), UNCHANGED <<batchVars, scriptVars, exits>> PROVE TypeInv'
  <2>1. ExecTypes'
    BY <1>2 DEF Environment, RemoteEnds, CancelExecution, CancelRun, Set, ExecTypes, RunStatus
  <2>2. BatchTypes' BY <1>2 DEF BatchTypes, batchVars, rows
  <2>3. ScriptTypes' BY <1>2 DEF ScriptTypes, scriptVars
  <2> QED BY <2>1, <2>2, <2>3
<1> QED BY <1>1, <1>2

LEMMA NextTypes == TypeInv /\ Next => TypeInv'
<1> SUFFICES ASSUME TypeInv, Next PROVE TypeInv'
    OBVIOUS
<1> USE DEF TypeInv
<1>1. CASE /\ \/ \E s \in Server : TaskStep(s) \/ CommandStep(s)
              \/ MainStep \/ CancelBatch \/ CancelItems
           /\ UNCHANGED <<scriptVars, searchVars, exits>>
  <2>1. ScriptTypes' BY <1>1 DEF ScriptTypes, scriptVars
  <2>2. ASSUME NEW s \in Server, CommandStep(s) PROVE ExecTypes' /\ BatchTypes'
    <3>1. ExecTypes' BY <1>1, <2>2, ClientTypes, Parts DEF CommandStep
    <3>2. BatchTypes' BY <2>2 DEF CommandStep, BatchTypes, batchVars, rows
    <3> QED BY <3>1, <3>2
  <2> QED BY <1>1, <2>1, <2>2, TaskTypes, MainTypes
<1>2. CASE /\ \/ \E r \in ScriptRuns : ConfirmStep(r) \/ UserStep(r) \/ ScriptClientStep(r)
              \/ DefinitionStep
           /\ UNCHANGED <<batchVars, searchVars, exits>>
  <2>1. BatchTypes' BY <1>2 DEF BatchTypes, batchVars, rows
  <2>2. ASSUME NEW r \in ScriptRuns, ScriptClientStep(r) PROVE ExecTypes' /\ ScriptTypes'
    <3>1. ExecTypes' BY <1>2, <2>2, ClientTypes, Parts DEF ScriptClientStep
    <3>2. ScriptTypes' BY <2>2 DEF ScriptClientStep, ScriptTypes
    <3> QED BY <3>1, <3>2
  <2> QED BY <1>2, <2>1, <2>2, ConfirmTypes, DefinitionTypes
<1>3. CASE /\ \E r \in SearchRuns : SearchStep(r)
           /\ UNCHANGED <<batchVars, scriptVars, exits>>
  <2>1. BatchTypes' BY <1>3 DEF BatchTypes, batchVars, rows
  <2>2. ScriptTypes' BY <1>3 DEF ScriptTypes, scriptVars
  <2> QED BY <1>3, <2>1, <2>2, SearchTypes
<1>4. CASE /\ \E r \in Run : Environment(r)
           /\ UNCHANGED <<batchVars, scriptVars, searchVars, exits>>
  BY <1>4, OtherTypes
<1>5. CASE ExitAndOpen BY <1>5, OtherTypes
<1> QED BY <1>1, <1>2, <1>3, <1>4, <1>5 DEF Next

-----------------------------------------------------------------------------
(* Every run                                                                *)

LEMMA Apart ==
    /\ \A r \in Server : r \in Run /\ r \notin ScriptRuns /\ r \notin SearchRuns
    /\ \A r \in ScriptRuns : r \in Run /\ r \notin Server /\ r \notin SearchRuns
    /\ \A r \in SearchRuns : r \in Run /\ r \notin Server /\ r \notin ScriptRuns
BY TasksAssumption

LEMMA InitSound == Init => RunInv
<1> SUFFICES ASSUME Init, NEW r \in Run PROVE Sound(r)
    BY DEF RunInv
<1> USE DEF Init, ExecInit, BatchInit, ScriptInit
<1>1. Labelled(r) BY DEF Labelled, Client, ServerLabel, ScriptLabel, SearchLabel
<1>2. Fresh(r) BY Apart DEF Fresh
<1>3. Real(r) BY DEF Real
<1>4. Gated(r) BY DEF Gated, Client
<1> QED BY <1>1, <1>2, <1>3, <1>4 DEF Sound

LEMMA ClientSound ==
    ASSUME ExecTypes, RunInv, NEW r \in Server \cup ScriptRuns, ClientStep(r), NEW q \in Run,
           UNCHANGED <<main, preview, active, exits>>
    PROVE  Sound(q)'
<1> r \in Run BY Parts
<1>1. Sound(q) /\ Sound(r) BY DEF RunInv
<1> USE <1>1, Apart DEF ExecTypes, Sound, Labelled, Fresh, Real, Gated, Client, ServerLabel, ScriptLabel,
                        SearchLabel, Move, At, Fails
<1>2. CASE CreateExecution(r) BY <1>2 DEF CreateExecution
<1>3. CASE Connect(r) BY <1>3 DEF Connect
<1>4. CASE MarkRunning(r) BY <1>4 DEF MarkRunning
<1>5. CASE Exec(r) BY <1>5 DEF Exec
<1>6. CASE ExitStatus(r) BY <1>6 DEF ExitStatus, Ended
<1>7. CASE ChannelCloses(r) BY <1>7 DEF ChannelCloses, Ended
<1>8. CASE WaitFails(r) BY <1>8 DEF WaitFails, Ended
<1>9. CASE CancelWait(r) BY <1>9 DEF CancelWait, Ended
<1>10. CASE Finish(r) BY <1>10 DEF Finish
<1> QED BY <1>2, <1>3, <1>4, <1>5, <1>6, <1>7, <1>8, <1>9, <1>10 DEF ClientStep

LEMMA TaskSound ==
    ASSUME ExecTypes, RunInv, NEW r \in Server, TaskStep(r), NEW q \in Run,
           UNCHANGED <<preview, active, exits>>
    PROVE  Sound(q)'
<1> r \in Run BY Parts
<1>1. Sound(q) /\ Sound(r) BY DEF RunInv
<1> USE <1>1, Apart DEF ExecTypes, Sound, Labelled, Fresh, Real, Gated, Client, ServerLabel, ScriptLabel,
                        SearchLabel, Move, At, Fails, Return, Report, Transition, NoTransition, Set, Keep, Rest
<1>2. CASE Admit(r) BY <1>2 DEF Admit
<1>3. CASE LookAtToken(r) BY <1>3 DEF LookAtToken
<1>4. CASE MarkItemRunning(r) BY <1>4 DEF MarkItemRunning
<1>5. CASE Start(r) BY <1>5 DEF Start
<1>6. CASE Preview(r) BY <1>6 DEF Preview
<1>7. CASE Ready(r) BY <1>7 DEF Ready
<1>8. CASE BeginStep(r) BY <1>8 DEF BeginStep
<1>9. CASE AfterStep(r) BY <1>9, ResultTypes DEF AfterStep
<1>10. CASE SaveResult(r) BY <1>10 DEF SaveResult
<1>11. CASE FinishItem(r) BY <1>11 DEF FinishItem
<1> QED BY <1>2, <1>3, <1>4, <1>5, <1>6, <1>7, <1>8, <1>9, <1>10, <1>11 DEF TaskStep

\* Only the first of these steps moves a run.
LEMMA MainSound ==
    ASSUME ExecTypes, RunInv, MainStep \/ CancelBatch \/ CancelItems, NEW q \in Run,
           UNCHANGED <<preview, active, exits>>
    PROVE  Sound(q)'
<1>1. Sound(q) BY DEF RunInv
<1> USE <1>1 DEF Sound, Labelled, Fresh, Real, Gated
<1>2. CASE MarkBatchRunning
  BY <1>2, Apart DEF MarkBatchRunning, MainAt, Go, Abort, Fails, ExecTypes, Client, ServerLabel
<1>3. CASE ~MarkBatchRunning
  <2>1. UNCHANGED <<run, exec, step, token, end, remote>>
    BY <1>3 DEF MainStep, Join, CancelQueued, FailOpen, Complete, Spread, Close, CancelBatch, CancelItems, Aside
  <2>2. main' = "mark" => main = "mark"
    BY <1>3 DEF MainStep, Join, CancelQueued, FailOpen, Complete, Spread, Close, CancelBatch, CancelItems,
                Go, Abort
  <2>3. failures' = failures \/ Fails
    BY <1>3, Zenon DEF MainStep, Join, CancelQueued, FailOpen, Complete, Spread, Close, CancelBatch,
                       CancelItems, Abort
  <2>4. failures > 0 => failures' > 0 BY <2>3 DEF Fails, ExecTypes
  <2>5. Labelled(q)' BY <2>1
  <2>6. Fresh(q)' BY <2>1, <2>2
  <2>7. Real(q)' BY <2>1
  <2>8. Gated(q)' BY <2>1, <2>4
  <2> QED BY <2>5, <2>6, <2>7, <2>8
<1> QED BY <1>2, <1>3

LEMMA ConfirmSound ==
    ASSUME ExecTypes, ScriptTypes, RunInv, NEW r \in ScriptRuns, ConfirmStep(r) \/ UserStep(r), NEW q \in Run,
           UNCHANGED <<main, exits>>
    PROVE  Sound(q)'
<1> r \in Run BY Parts
<1>1. Sound(q) /\ Sound(r) BY DEF RunInv
<1> USE <1>1, Apart DEF ExecTypes, ScriptTypes, Sound, Labelled, Fresh, Real, Gated, Client, ScriptLabel,
                        Move, At, Done, Fails, Transition, NoTransition, Set, Rows, scriptVars
<1>2. CASE CheckEnabled(r) BY <1>2 DEF CheckEnabled
<1>3. CASE GetVersion(r) BY <1>3 DEF GetVersion
<1>4. CASE StartConfirmed(r) BY <1>4 DEF StartConfirmed
<1>5. CASE RecordRun(r) BY <1>5 DEF RecordRun
<1>6. CASE Activate(r) BY <1>6 DEF Activate
<1>7. CASE Settle(r)
  <2> DEFINE status == IF Result(r) = "error" THEN "failed" ELSE Result(r)
  <2>1. status # "none" /\ (status = "succeeded" => exec[r] = "succeeded")
    BY ResultTypes DEF ExecEnd
  <2> HIDE DEF status
  <2>2. /\ At(r, "executed") /\ active' = active \ {r} /\ Done(r)
        /\ Transition(r, "running", status) \/ NoTransition(r, "running")
        /\ UNCHANGED <<script, preview, using, shown, began, allowed>> /\ Rows
    BY <1>7 DEF Settle, status
  <2>3. run' = run \/ (run[r] = "running" /\ run' = [run EXCEPT ![r] = status]) BY <2>2
  <2>4. failures > 0 => failures' > 0 BY <2>2
  <2>5. Labelled(q)' BY <2>2
  <2>6. Fresh(q)' BY <2>1, <2>2, <2>3
  <2>7. Real(q)' BY <2>1, <2>2, <2>3
  <2>8. Gated(q)' BY <2>2, <2>4
  <2> QED BY <2>5, <2>6, <2>7, <2>8
<1>8. CASE PreviewRun(r) BY <1>8 DEF PreviewRun
<1>9. CASE Consume(r) BY <1>9 DEF Consume
<1>10. CASE CancelPreview(r) BY <1>10 DEF CancelPreview
<1>11. CASE CancelActive(r) BY <1>11 DEF CancelActive
<1> QED BY <1>2, <1>3, <1>4, <1>5, <1>6, <1>7, <1>8, <1>9, <1>10, <1>11 DEF ConfirmStep, UserStep

LEMMA SearchSound ==
    ASSUME ExecTypes, RunInv, NEW r \in SearchRuns, SearchStep(r), NEW q \in Run,
           UNCHANGED <<main, preview, active, exits>>
    PROVE  Sound(q)'
<1> r \in Run BY Parts
<1>1. Sound(q) /\ Sound(r) BY DEF RunInv
<1> USE <1>1, Apart DEF ExecTypes, Sound, Labelled, Fresh, Real, Gated, SearchLabel, Move, At, Leave, Fails
<1>2. CASE CreateSearch(r) BY <1>2 DEF CreateSearch
<1>3. CASE MarkSearch(r) BY <1>3 DEF MarkSearch
<1>4. CASE Dial(r) BY <1>4 DEF Dial
<1>5. CASE OpenCapture(r) BY <1>5 DEF OpenCapture
<1>6. CASE Stream(r)
  <2>1. CASE Exec(r) BY <2>1 DEF Exec
  <2>2. CASE ExitStatus(r) BY <2>2 DEF ExitStatus, Ended
  <2>3. CASE ChannelCloses(r) BY <2>3 DEF ChannelCloses, Ended
  <2>4. CASE WaitFails(r) BY <2>4 DEF WaitFails, Ended
  <2>5. CASE CancelWait(r) BY <2>5 DEF CancelWait, Ended
  <2> QED BY <1>6, <2>1, <2>2, <2>3, <2>4, <2>5 DEF Stream
<1>7. CASE Flush(r) BY <1>7 DEF Flush
<1>8. CASE Store(r) BY <1>8 DEF Store
<1>9. CASE Conclude(r) BY <1>9 DEF Conclude
<1>10. CASE ReadPage(r) BY <1>10 DEF ReadPage, execVars
<1> QED BY <1>2, <1>3, <1>4, <1>5, <1>6, <1>7, <1>8, <1>9, <1>10 DEF SearchStep

LEMMA EnvironmentSound ==
    ASSUME ExecTypes, RunInv, NEW r \in Run, Environment(r), NEW q \in Run,
           UNCHANGED <<main, preview, active, exits>>
    PROVE  Sound(q)'
<1>1. Sound(q) /\ Sound(r) BY DEF RunInv
<1> USE <1>1, Apart DEF ExecTypes, Sound, Labelled, Fresh, Real, Gated
<1>2. CASE RemoteEnds(r) BY <1>2 DEF RemoteEnds
<1>3. CASE CancelExecution(r) BY <1>3 DEF CancelExecution
<1>4. CASE CancelRun(r) BY <1>4 DEF CancelRun, Set
<1> QED BY <1>2, <1>3, <1>4 DEF Environment

LEMMA ExitSound ==
    ASSUME ExecTypes, RunInv, ExitAndOpen, NEW q \in Run
    PROVE  Sound(q)'
<1>1. Sound(q) BY DEF RunInv
<1> USE <1>1, Apart DEF ExecTypes, Sound, ExitAndOpen, Recover, RecoverBatch, RecoverScripts
<1>2. Labelled(q)' BY DEF Labelled, ServerLabel, ScriptLabel, SearchLabel
<1>3. Fresh(q)' BY DEF Fresh
<1>4. Real(q)' BY DEF Real
<1>5. Gated(q)' BY DEF Gated, Client
<1> QED BY <1>2, <1>3, <1>4, <1>5

LEMMA NextSound == TypeInv /\ RunInv /\ Next => RunInv'
<1> SUFFICES ASSUME TypeInv, RunInv, Next, NEW q \in Run PROVE Sound(q)'
    BY DEF RunInv
<1> USE DEF TypeInv
<1>1. CASE /\ \/ \E s \in Server : TaskStep(s) \/ CommandStep(s)
              \/ MainStep \/ CancelBatch \/ CancelItems
           /\ UNCHANGED <<scriptVars, searchVars, exits>>
  BY <1>1, TaskSound, ClientSound, MainSound DEF CommandStep, scriptVars, batchVars
<1>2. ASSUME NEW r \in ScriptRuns, ConfirmStep(r) \/ UserStep(r) \/ ScriptClientStep(r),
             UNCHANGED <<batchVars, searchVars, exits>>
      PROVE  Sound(q)'
  BY <1>2, ConfirmSound, ClientSound DEF ScriptClientStep, batchVars
<1>3. CASE DefinitionStep /\ UNCHANGED <<batchVars, searchVars, exits>>
  <2>1. UNCHANGED <<execVars, preview, active, main>>
    BY <1>3 DEF DefinitionStep, SaveVersion, SetEnabled, SoftDelete, Edit, Untouched, batchVars
  <2>2. Sound(q) BY DEF RunInv
  <2> QED BY <2>1, <2>2 DEF execVars, Sound, Labelled, Fresh, Real, Gated
<1>4. CASE /\ \E r \in SearchRuns : SearchStep(r)
           /\ UNCHANGED <<batchVars, scriptVars, exits>>
  BY <1>4, SearchSound DEF scriptVars, batchVars
<1>5. CASE /\ \E r \in Run : Environment(r)
           /\ UNCHANGED <<batchVars, scriptVars, searchVars, exits>>
  BY <1>5, EnvironmentSound DEF scriptVars, batchVars
<1>6. CASE ExitAndOpen BY <1>6, ExitSound
<1> QED BY <1>1, <1>2, <1>3, <1>4, <1>5, <1>6 DEF Next

-----------------------------------------------------------------------------
(* Scripts                                                                  *)

LEMMA InitShown == Init => ShownInv
BY Parts DEF Init, ScriptInit, ShownInv, Shown, ScriptLabel, Client

\* The steps of others leave a script's run where it is.
LEMMA ElsewhereShown ==
    ASSUME ShownInv, NEW q \in ScriptRuns, UNCHANGED scriptVars,
           step'[q] = step[q], remote[q] # "none" => remote'[q] # "none"
    PROVE  Shown(q)'
BY DEF ShownInv, Shown, scriptVars

LEMMA ScriptShown ==
    ASSUME ExecTypes, ScriptTypes, RunInv, ShownInv, NEW r \in ScriptRuns,
           ConfirmStep(r) \/ UserStep(r) \/ ScriptClientStep(r), NEW q \in ScriptRuns
    PROVE  Shown(q)'
<1> r \in Run /\ q \in Run BY Parts
<1>1. Shown(q) /\ Shown(r) /\ Fresh(r) BY DEF ShownInv, RunInv, Sound
<1> USE <1>1 DEF ExecTypes, ScriptTypes, Shown, Fresh, Client, ScriptLabel, Move, At, Done, Rows, scriptVars
<1>2. CASE CheckEnabled(r) BY <1>2 DEF CheckEnabled, Usable
<1>3. CASE GetVersion(r) BY <1>3 DEF GetVersion
<1>4. CASE StartConfirmed(r) BY <1>4 DEF StartConfirmed
<1>5. CASE RecordRun(r) BY <1>5 DEF RecordRun
<1>6. CASE Activate(r) BY <1>6 DEF Activate
<1>7. CASE Settle(r) BY <1>7 DEF Settle
<1>8. CASE PreviewRun(r) BY <1>8 DEF PreviewRun
<1>9. CASE Consume(r) BY <1>9 DEF Consume
<1>10. CASE CancelPreview(r) BY <1>10 DEF CancelPreview
<1>11. CASE CancelActive(r) BY <1>11 DEF CancelActive
<1>12. CASE ScriptClientStep(r)
  <2> USE <1>12 DEF ScriptClientStep
  <2>1. CASE CreateExecution(r) BY <2>1 DEF CreateExecution
  <2>2. CASE Connect(r) BY <2>2 DEF Connect
  <2>3. CASE MarkRunning(r) BY <2>3 DEF MarkRunning
  <2>4. CASE Exec(r) BY <2>4 DEF Exec
  <2>5. CASE ExitStatus(r) BY <2>5 DEF ExitStatus, Ended
  <2>6. CASE ChannelCloses(r) BY <2>6 DEF ChannelCloses, Ended
  <2>7. CASE WaitFails(r) BY <2>7 DEF WaitFails, Ended
  <2>8. CASE CancelWait(r) BY <2>8 DEF CancelWait, Ended
  <2>9. CASE Finish(r) BY <2>9 DEF Finish
  <2> QED BY <2>1, <2>2, <2>3, <2>4, <2>5, <2>6, <2>7, <2>8, <2>9 DEF ClientStep
<1> QED BY <1>2, <1>3, <1>4, <1>5, <1>6, <1>7, <1>8, <1>9, <1>10, <1>11, <1>12 DEF ConfirmStep, UserStep

\* Who enables the script while a run is being confirmed allows that run.
LEMMA DefinitionShown ==
    ASSUME ScriptTypes, ShownInv, DefinitionStep, NEW q \in ScriptRuns
    PROVE  Shown(q)'
<1>1. Shown(q) BY DEF ShownInv
<1>2. PICK new : Edit(new) BY DEF DefinitionStep, SaveVersion, SetEnabled, SoftDelete
<1> QED BY <1>1, <1>2 DEF Edit, Shown, Confirming, Untouched, execVars

LEMMA NextShown == TypeInv /\ RunInv /\ ShownInv /\ Next => ShownInv'
<1> SUFFICES ASSUME TypeInv, RunInv, ShownInv, Next, NEW q \in ScriptRuns PROVE Shown(q)'
    BY DEF ShownInv
<1> q \in Run BY Parts
<1> USE DEF TypeInv
<1> DEFINE Stays == step'[q] = step[q] /\ (remote[q] # "none" => remote'[q] # "none")
<1>1. CASE /\ \/ \E s \in Server : TaskStep(s) \/ CommandStep(s)
              \/ MainStep \/ CancelBatch \/ CancelItems
           /\ UNCHANGED <<scriptVars, searchVars, exits>>
  <2>1. ASSUME NEW s \in Server, TaskStep(s) \/ CommandStep(s) PROVE Stays
    <3>1. s # q /\ s \in Run BY Apart
    <3>2. CASE TaskStep(s)
      BY <3>1, <3>2 DEF ExecTypes, TaskStep, Admit, LookAtToken, MarkItemRunning, Start, Preview, Ready,
         BeginStep, AfterStep, SaveResult, FinishItem, Move, Return, Report, Rest
    <3>3. CASE CommandStep(s)
      BY <3>1, <3>3 DEF ExecTypes, CommandStep, ClientStep, CreateExecution, Connect, MarkRunning, Exec,
         ExitStatus, ChannelCloses, WaitFails, CancelWait, Finish, Ended, Move
    <3> QED BY <2>1, <3>2, <3>3
  <2>2. ASSUME MainStep \/ CancelBatch \/ CancelItems PROVE Stays
    <3>1. CASE MarkBatchRunning BY <3>1, Apart DEF MarkBatchRunning
    <3> QED BY <2>2, <3>1 DEF MainStep, Join, CancelQueued, FailOpen, Complete, Spread, Close, CancelBatch,
                              CancelItems, Aside
  <2> QED BY <1>1, <2>1, <2>2, ElsewhereShown
<1>2. CASE \E r \in ScriptRuns : ConfirmStep(r) \/ UserStep(r) \/ ScriptClientStep(r)
  BY <1>2, ScriptShown
<1>3. CASE DefinitionStep BY <1>3, DefinitionShown
<1>4. ASSUME NEW r \in SearchRuns, SearchStep(r), UNCHANGED <<batchVars, scriptVars, exits>>
      PROVE  Shown(q)'
  <2>1. r # q /\ r \in Run BY Apart
  <2>2. Stays
    BY <1>4, <2>1 DEF ExecTypes, SearchStep, CreateSearch, MarkSearch, Dial, OpenCapture, Stream, Flush,
       Store, Conclude, ReadPage, Exec, ExitStatus, ChannelCloses, WaitFails, CancelWait, Ended, Move, Leave,
       execVars
  <2> QED BY <1>4, <2>2, ElsewhereShown
<1>5. ASSUME NEW r \in Run, Environment(r), UNCHANGED <<batchVars, scriptVars, searchVars, exits>>
      PROVE  Shown(q)'
  <2>1. Stays
    BY <1>5 DEF ExecTypes, Environment, RemoteEnds, CancelExecution, CancelRun
  <2> QED BY <1>5, <2>1, ElsewhereShown
<1>6. CASE ExitAndOpen
  BY <1>6 DEF ExitAndOpen, Recover, RecoverScripts, ShownInv, Shown, ExecTypes, ScriptTypes
<1> QED BY <1>1, <1>2, <1>3, <1>4, <1>5, <1>6 DEF Next

-----------------------------------------------------------------------------
(* Batches                                                                  *)

LEMMA CountFacts ==
    ASSUME NEW status
    PROVE  Count(status) \in Nat /\ (Count(status) = 0 <=> \A s \in Server : item[s] # status)
<1> DEFINE S == {s \in Server : item[s] = status}
<1>1. IsFiniteSet(S) BY BatchAssumption, FS_Subset
<1>2. Cardinality(S) \in Nat /\ (Cardinality(S) = 0 <=> S = {})
  BY <1>1, FS_CardinalityType, FS_EmptySet
<1> QED BY <1>2 DEF Count

LEMMA DerivedFacts ==
    ASSUME BatchTypes, NEW cancel \in BOOLEAN, \A s \in Server : item[s] \notin ItemOpen \cup {"none"}
    PROVE  /\ Derived(cancel) \in ItemEnd \cup {"partial"}
           /\ Derived(cancel) = "succeeded" => \A s \in Server : item[s] = "succeeded"
           /\ (\E s \in Server : item[s] = "cancelled") => Derived(cancel) = "cancelled"
<1>1. \A s \in Server : item[s] \in ItemEnd BY DEF BatchTypes
<1>2. Derived(cancel) \in ItemEnd \cup {"partial"} BY DEF Derived, ItemEnd
<1>3. ASSUME NEW s \in Server, item[s] = "cancelled" PROVE Derived(cancel) = "cancelled"
  <2>1. Count("cancelled") > 0 BY <1>3, CountFacts
  <2> QED BY <2>1 DEF Derived
<1>4. ASSUME Derived(cancel) = "succeeded" PROVE \A s \in Server : item[s] = "succeeded"
  <2>1. ~(Count("cancelled") > 0) /\ Count("failed") = 0 BY <1>4 DEF Derived
  <2>2. Count("cancelled") = 0 BY <2>1, CountFacts
  <2>3. \A s \in Server : item[s] # "cancelled" /\ item[s] # "failed" BY <2>1, <2>2, CountFacts
  <2> QED BY <1>1, <2>3 DEF ItemEnd
<1> QED BY <1>2, <1>3, <1>4

LEMMA InitServed == Init => ServedInv
<1> SUFFICES ASSUME Init PROVE ServedInv
    OBVIOUS
<1> USE Apart DEF Init, ExecInit, BatchInit
<1>1. Joined BY DEF Joined, Working
<1>2. Verdict BY DEF Verdict, BatchOpen
<1>3. ASSUME NEW s \in Server PROVE Served(s) BY <1>3 DEF Served, BatchOpen, ItemOpen
<1> QED BY <1>1, <1>2, <1>3 DEF ServedInv

\* The steps of scripts, searches and the environment
LEMMA ElsewhereServed ==
    ASSUME ServedInv, UNCHANGED <<batchVars, exits>>,
           \A s \in Server : step'[s] = step[s] /\ (run[s] = "succeeded" => run'[s] = "succeeded")
    PROVE  ServedInv'
<1> USE DEF batchVars, rows
<1>1. Joined' BY DEF ServedInv, Joined
<1>2. Verdict' BY DEF ServedInv, Verdict
<1>3. ASSUME NEW s \in Server PROVE Served(s)'
  <2>1. Served(s) BY DEF ServedInv
  <2> QED BY <2>1 DEF Served
<1> QED BY <1>1, <1>2, <1>3 DEF ServedInv

LEMMA TaskServed ==
    ASSUME ExecTypes, BatchTypes, RunInv, ServedInv, NEW r \in Server, TaskStep(r), NEW q \in Server
    PROVE  Served(q)'
<1> r \in Run /\ q \in Run BY Parts
<1>1. Served(q) /\ Served(r) /\ Real(r) BY DEF ServedInv, RunInv, Sound
<1>2. Joined BY DEF ServedInv
<1> USE <1>1, <1>2 DEF ExecTypes, BatchTypes, Served, Real, Joined, Working, BatchOpen, ItemOpen, ItemEnd, Move,
                At, Return, Report, Transition, NoTransition, Set, Keep, Rest
<1>3. CASE Admit(r) BY <1>3 DEF Admit
<1>4. CASE LookAtToken(r) BY <1>4 DEF LookAtToken
<1>5. CASE MarkItemRunning(r) BY <1>5 DEF MarkItemRunning
<1>6. CASE Start(r) BY <1>6 DEF Start
<1>7. CASE Preview(r) BY <1>7 DEF Preview
<1>8. CASE Ready(r) BY <1>8 DEF Ready
<1>9. CASE BeginStep(r) BY <1>9 DEF BeginStep
<1>10. CASE AfterStep(r) BY <1>10 DEF AfterStep
<1>11. CASE SaveResult(r) BY <1>11 DEF SaveResult
<1>12. CASE FinishItem(r) BY <1>12 DEF FinishItem
<1> QED BY <1>3, <1>4, <1>5, <1>6, <1>7, <1>8, <1>9, <1>10, <1>11, <1>12 DEF TaskStep

LEMMA TaskJoined ==
    ASSUME BatchTypes, ServedInv, NEW r \in Server, TaskStep(r), UNCHANGED exits
    PROVE  Joined' /\ Verdict'
<1>1. UNCHANGED <<batch, main, registry>>
  BY DEF TaskStep, Admit, LookAtToken, MarkItemRunning, Start, Preview, Ready, BeginStep, AfterStep,
         SaveResult, FinishItem, Keep
<1>2. Joined /\ Served(r) BY DEF ServedInv
<1>3. step[r] \notin {"idle", "returned"}
  BY DEF TaskStep, Admit, LookAtToken, MarkItemRunning, Start, Preview, Ready, BeginStep, AfterStep,
         SaveResult, FinishItem, At
<1>4. batch = "running" BY <1>2, <1>3 DEF Joined, Served, Working
<1> QED BY <1>1, <1>2, <1>4 DEF Joined, Verdict, BatchOpen

LEMMA CommandServed ==
    ASSUME ExecTypes, RunInv, ServedInv, NEW r \in Server, CommandStep(r), UNCHANGED exits
    PROVE  ServedInv'
<1> r \in Run BY Parts
<1> USE DEF CommandStep, batchVars, rows
<1>1. Joined' BY DEF ServedInv, Joined
<1>2. Verdict' BY DEF ServedInv, Verdict
<1>3. /\ step[r] \in Client \ {"executed"} /\ run' = run
      /\ \E to \in Client : step' = [step EXCEPT ![r] = to]
  BY DEF ClientStep, CreateExecution, Connect, MarkRunning, Exec, ExitStatus, ChannelCloses, WaitFails,
         CancelWait, Finish, Ended, Move, At, Client
<1>4. ASSUME NEW q \in Server PROVE Served(q)'
  <2>1. Served(q) /\ Served(r) BY DEF ServedInv
  <2> QED BY <1>3, <2>1, Parts DEF Served, Client, ExecTypes
<1> QED BY <1>1, <1>2, <1>4 DEF ServedInv

\* When the batch closes no item is open.
LEMMA Closing ==
    ASSUME BatchTypes, ServedInv, Closable, NEW cancel \in BOOLEAN, batch' = Derived(cancel), item' = item
    PROVE  /\ batch' \in ItemEnd \cup {"partial"} /\ Verdict'
           /\ \A s \in Server : item[s] \notin ItemOpen \cup {"none"}
<1>1. \A s \in Server : item[s] \notin ItemOpen \cup {"none"}
  BY DEF Closable, ServedInv, Served
<1>2. /\ batch' \in ItemEnd \cup {"partial"}
      /\ batch' = "succeeded" => \A s \in Server : item[s] = "succeeded"
      /\ (\E s \in Server : item[s] = "cancelled") => batch' = "cancelled"
  BY <1>1, DerivedFacts
<1> QED BY <1>1, <1>2 DEF Verdict

LEMMA MainServed ==
    ASSUME ExecTypes, BatchTypes, RunInv, ServedInv, MainStep \/ CancelBatch \/ CancelItems, UNCHANGED exits
    PROVE  ServedInv'
<1>1. /\ Joined /\ Verdict
      /\ \A s \in Server : Served(s) /\ s \in Run /\ (main = "mark" => step[s] = "idle")
  BY Parts DEF ServedInv, RunInv, Sound, Fresh
<1> SUFFICES Joined' /\ Verdict' /\ \A s \in Server : Served(s)'
    BY DEF ServedInv
<1> USE <1>1 DEF ExecTypes, BatchTypes, Joined, Working, BatchOpen, ItemOpen, ItemEnd, Abort, Go, MainAt, At,
                 Items, Aside, rows
<1>2. CASE MarkBatchRunning BY <1>2 DEF MarkBatchRunning, Verdict, Served
<1>3. CASE Join BY <1>3 DEF Join, Verdict, Served
<1>4. CASE CancelQueued BY <1>4 DEF CancelQueued, Verdict, Served
<1>5. CASE FailOpen BY <1>5 DEF FailOpen, Verdict, Served
<1>6. CASE Complete
  <2>1. CASE Closable /\ Abort /\ UNCHANGED batch BY <1>6, <2>1 DEF Complete, Verdict, Served
  <2>2. CASE Closable /\ batch' = Derived(Cancelled) /\ registry' = "none" /\ Go("done")
    <3>1. /\ batch' \in ItemEnd \cup {"partial"} /\ Verdict'
          /\ \A s \in Server : item[s] \notin ItemOpen \cup {"none"}
      <4>1. Cancelled \in BOOLEAN BY DEF Cancelled
      <4> QED BY <1>6, <2>2, <4>1, Closing DEF Complete
    <3>2. Joined' BY <2>2, <3>1
    <3>3. ASSUME NEW s \in Server PROVE Served(s)' BY <1>6, <2>2, <3>1 DEF Complete, Served
    <3> QED BY <3>1, <3>2, <3>3
  <2> QED BY <1>6, <2>1, <2>2 DEF Complete
<1>7. CASE Spread BY <1>7 DEF Spread, Verdict, Served
<1>8. CASE Close
  <2>1. CASE UNCHANGED batch BY <1>8, <2>1 DEF Close, Verdict, Served
  <2>2. CASE Closable /\ batch' = Derived(FALSE)
    <3>1. /\ batch' \in ItemEnd \cup {"partial"} /\ Verdict'
          /\ \A s \in Server : item[s] \notin ItemOpen \cup {"none"}
      BY <1>8, <2>2, Closing DEF Close
    <3>2. Joined' BY <1>8, <2>2, <3>1 DEF Close
    <3>3. ASSUME NEW s \in Server PROVE Served(s)' BY <1>8, <2>2, <3>1 DEF Close, Served
    <3> QED BY <3>1, <3>2, <3>3
  <2> QED BY <1>8, <2>1, <2>2 DEF Close
<1>9. CASE CancelBatch BY <1>9 DEF CancelBatch, Verdict, Served
<1>10. CASE CancelItems BY <1>10 DEF CancelItems, Verdict, Served
<1> QED BY <1>2, <1>3, <1>4, <1>5, <1>6, <1>7, <1>8, <1>9, <1>10 DEF MainStep

LEMMA ExitServed ==
    ASSUME ExecTypes, BatchTypes, ServedInv, ExitAndOpen
    PROVE  ServedInv'
<1>1. Joined /\ Verdict /\ \A s \in Server : Served(s) /\ s \in Run BY Parts DEF ServedInv
<1> USE <1>1 DEF ExecTypes, BatchTypes, ExitAndOpen, Recover, RecoverBatch
<1>2. Joined' BY DEF Joined, Working
<1>3. Verdict' BY DEF Verdict, BatchOpen
<1>4. ASSUME NEW s \in Server PROVE Served(s)' BY <1>4 DEF Served, BatchOpen, ItemOpen
<1> QED BY <1>2, <1>3, <1>4 DEF ServedInv

LEMMA NextServed == TypeInv /\ RunInv /\ ServedInv /\ Next => ServedInv'
<1> SUFFICES ASSUME TypeInv, RunInv, ServedInv, Next PROVE ServedInv'
    OBVIOUS
<1> USE DEF TypeInv
<1> DEFINE Stay == \A s \in Server : step'[s] = step[s] /\ (run[s] = "succeeded" => run'[s] = "succeeded")
<1>1. CASE /\ \/ \E s \in Server : TaskStep(s) \/ CommandStep(s)
              \/ MainStep \/ CancelBatch \/ CancelItems
           /\ UNCHANGED <<scriptVars, searchVars, exits>>
  <2>1. ASSUME NEW s \in Server, TaskStep(s) PROVE ServedInv'
    BY <1>1, <2>1, TaskServed, TaskJoined DEF ServedInv
  <2> QED BY <1>1, <2>1, CommandServed, MainServed
<1>2. ASSUME NEW r \in ScriptRuns, ConfirmStep(r) \/ UserStep(r) \/ ScriptClientStep(r),
             UNCHANGED <<batchVars, searchVars, exits>>
      PROVE  ServedInv'
  <2>1. \A s \in Server : s # r /\ s \in Run BY Apart
  <2>2. (\E to \in Label : Move(r, to)) \/ UNCHANGED step
    BY <1>2 DEF ConfirmStep, UserStep, ScriptClientStep, ClientStep, CreateExecution, Connect, MarkRunning,
       Exec, ExitStatus, ChannelCloses, WaitFails, CancelWait, Finish, Ended, CheckEnabled, GetVersion,
       StartConfirmed, RecordRun, Activate, Settle, PreviewRun, Consume, CancelPreview, CancelActive, Done,
       Client, ScriptLabel, Label
  <2>3. (\E status : Set(r, status)) \/ UNCHANGED run
    BY <1>2 DEF ConfirmStep, UserStep, ScriptClientStep, ClientStep, CreateExecution, Connect, MarkRunning,
       Exec, ExitStatus, ChannelCloses, WaitFails, CancelWait, Finish, Ended, CheckEnabled, GetVersion,
       StartConfirmed, RecordRun, Activate, Settle, PreviewRun, Consume, CancelPreview, CancelActive,
       Transition, NoTransition
  <2>4. Stay BY <2>1, <2>2, <2>3 DEF Move, Set, ExecTypes
  <2> QED BY <1>2, <2>4, ElsewhereServed
<1>3. CASE DefinitionStep /\ UNCHANGED <<batchVars, searchVars, exits>>
  <2>1. UNCHANGED execVars
    BY <1>3 DEF DefinitionStep, SaveVersion, SetEnabled, SoftDelete, Edit, Untouched
  <2> QED BY <1>3, <2>1, ElsewhereServed DEF execVars
<1>4. ASSUME NEW r \in SearchRuns, SearchStep(r), UNCHANGED <<batchVars, scriptVars, exits>>
      PROVE  ServedInv'
  <2>1. \A s \in Server : s # r /\ s \in Run BY Apart
  <2>2. Stay
    BY <1>4, <2>1 DEF ExecTypes, SearchStep, CreateSearch, MarkSearch, Dial, OpenCapture, Stream, Flush,
       Store, Conclude, ReadPage, Exec, ExitStatus, ChannelCloses, WaitFails, CancelWait, Ended, Move, Leave,
       execVars
  <2> QED BY <1>4, <2>2, ElsewhereServed
<1>5. ASSUME NEW r \in Run, Environment(r), UNCHANGED <<batchVars, scriptVars, searchVars, exits>>
      PROVE  ServedInv'
  <2>1. Stay BY <1>5, Parts DEF ExecTypes, Environment, RemoteEnds, CancelExecution, CancelRun, Set
  <2> QED BY <1>5, <2>1, ElsewhereServed
<1>6. CASE ExitAndOpen BY <1>6, ExitServed
<1> QED BY <1>1, <1>2, <1>3, <1>4, <1>5, <1>6 DEF Next

-----------------------------------------------------------------------------
(* The theorems                                                             *)

\* The invariant of the composition: types, the path of each run, the version
\* each script's run has in hand, and the batch with its items.
THEOREM TasksInvariance == Spec => []TasksInv
<1>1. Init => TasksInv
  BY InitTypes, InitSound, InitShown, InitServed DEF TasksInv
<1>2. TasksInv /\ Next => TasksInv'
  BY NextTypes, NextSound, NextShown, NextServed DEF TasksInv
<1>3. TasksInv /\ UNCHANGED vars => TasksInv'
  <2> SUFFICES ASSUME TasksInv, UNCHANGED vars PROVE TasksInv'
      OBVIOUS
  <2> USE DEF vars, execVars, batchVars, rows, scriptVars, TasksInv
  <2>1. TypeInv' BY DEF TypeInv, ExecTypes, BatchTypes, ScriptTypes
  <2>2. RunInv' BY DEF RunInv, Sound, Labelled, Fresh, Real, Gated
  <2>3. ShownInv' BY DEF ShownInv, Shown
  <2>4. ServedInv' BY DEF ServedInv, Joined, Verdict, Served
  <2> QED BY <2>1, <2>2, <2>3, <2>4
<1> QED BY <1>1, <1>2, <1>3, PTL DEF Spec

\* A run whose row says "succeeded", of a batch, a script or a search, stands for
\* a command that ended with status 0 on the server, whatever fails on the way:
\* ExecutionService::finish, require_exit_status, set_result.
THEOREM SuccessesAreReal == Spec => []SuccessIsReal
<1>1. TasksInv => SuccessIsReal BY DEF TasksInv, RunInv, Sound, Real, SuccessIsReal
<1> QED BY <1>1, TasksInvariance, PTL

\* The command of a script is the version its preview showed, and the script was
\* enabled during the confirmation: ScriptService::confirm_run against
\* ScriptRepository's new versions, flags and deletions.
THEOREM ScriptsRunAsShown == Spec => []RunsWhatWasShown
<1>1. TasksInv => RunsWhatWasShown BY DEF TasksInv, ShownInv, Shown, RunsWhatWasShown
<1> QED BY <1>1, TasksInvariance, PTL

\* ensure_idle_for_data_migration lets a migration through only when nothing is at
\* work, and an entry that holds it back has somebody who takes it out.
THEOREM TheGateIsTrue == Spec => []GateIsTrue
<1>1. TasksInv => IdleIsQuiet
  <2> SUFFICES ASSUME TasksInv, Idle, NEW r \in Run
               PROVE  /\ step[r] \notin {"exec", "wait", "finish"}
                      /\ r \notin SearchRuns => step[r] \notin {"create", "connect", "mark", "executed"}
      BY DEF IdleIsQuiet
  <2>1. Gated(r) /\ token[r] = "none" /\ r \notin active BY DEF TasksInv, RunInv, Sound, Idle
  <2>2. CASE r \in SearchRuns BY <2>1, <2>2 DEF Gated
  <2>3. CASE r \in ScriptRuns BY <2>1, <2>3, Apart DEF Gated, Client
  <2>4. CASE r \in Server
    <3>1. main # "join" BY DEF TasksInv, ServedInv, Joined, Idle
    <3>2. Served(r) BY <2>4 DEF TasksInv, ServedInv
    <3> QED BY <3>1, <3>2 DEF Served
  <2> QED BY <2>2, <2>3, <2>4, TasksAssumption
<1>2. TasksInv => EntriesAreDriven BY DEF TasksInv, RunInv, Sound, Gated, EntriesAreDriven
<1> QED BY <1>1, <1>2, TasksInvariance, PTL DEF GateIsTrue

\* What a batch that has ended says of its items, their runs and their commands:
\* OperationBatchRepository::complete and recover_interrupted.
THEOREM BatchesAreAccurate == Spec => []BatchIsAccurate
<1>1. TasksInv => BatchIsAccurate
  <2> SUFFICES ASSUME TasksInv, batch \notin BatchOpen
               PROVE  /\ \A s \in Server : item[s] \notin ItemOpen
                      /\ batch = "succeeded" => \A s \in Server : /\ item[s] = "succeeded"
                                                                 /\ run[s] = "succeeded"
                                                                 /\ remote[s] = "succeeded"
                      /\ Count("cancelled") > 0 /\ exits = 0 => batch = "cancelled"
      BY DEF BatchIsAccurate
  <2>1. \A s \in Server : Served(s) /\ Real(s) BY Parts DEF TasksInv, ServedInv, RunInv, Sound
  <2>2. Verdict BY DEF TasksInv, ServedInv
  <2>3. \A s \in Server : item[s] \notin ItemOpen BY <2>1 DEF Served
  <2>4. batch = "succeeded" => \A s \in Server : /\ item[s] = "succeeded" /\ run[s] = "succeeded"
                                                 /\ remote[s] = "succeeded"
    BY <2>1, <2>2 DEF Served, Real, Verdict
  <2>5. ASSUME Count("cancelled") > 0, exits = 0 PROVE batch = "cancelled"
    <3>1. \E s \in Server : item[s] = "cancelled" BY <2>5, CountFacts
    <3> QED BY <2>2, <2>5, <3>1 DEF Verdict
  <2> QED BY <2>3, <2>4, <2>5
<1> QED BY <1>1, TasksInvariance, PTL

\* No step, an exit of the application included, changes an item that has ended
\* or sends a command for it: mark_item_running and finish_item against cancel.
THEOREM EndedItemsStay == Spec => EndedItemsRest
<1> DEFINE Rests == \A s \in Server : item[s] \notin ItemOpen =>
                        item'[s] = item[s] /\ (remote[s] = "none" => remote'[s] = "none")
<1>1. TasksInv /\ [Next]_vars => Rests
  <2> SUFFICES ASSUME TasksInv, Next, NEW s \in Server, item[s] \notin ItemOpen
               PROVE  item'[s] = item[s] /\ (remote[s] = "none" => remote'[s] = "none")
      BY DEF vars, batchVars, rows, execVars
  <2> s \in Run BY Parts
  <2>1. Served(s) /\ TypeInv BY DEF TasksInv, ServedInv
  <2>2. ASSUME NEW r \in Run, r = s => step[r] # "exec",
               \/ ClientStep(r) \/ Environment(r)
               \/ Exec(r) \/ ExitStatus(r) \/ ChannelCloses(r) \/ WaitFails(r) \/ CancelWait(r)
        PROVE  remote[s] = "none" => remote'[s] = "none"
    BY <2>1, <2>2 DEF TypeInv, ExecTypes, ClientStep, CreateExecution, Connect, MarkRunning, Exec, ExitStatus,
       ChannelCloses, WaitFails, CancelWait, Finish, Ended, At, Environment, RemoteEnds, CancelExecution,
       CancelRun
  <2>3. step[s] # "exec" BY <2>1 DEF Served, ItemOpen
  <2>4. ASSUME NEW r \in Server, TaskStep(r) PROVE item'[s] = item[s] /\ remote' = remote
    BY <2>1, <2>4 DEF TypeInv, BatchTypes, ItemOpen, TaskStep, Admit, LookAtToken, MarkItemRunning, Start,
       Preview, Ready, BeginStep, AfterStep, SaveResult, FinishItem, Keep, Rest
  <2>5. ASSUME MainStep \/ CancelBatch \/ CancelItems PROVE item'[s] = item[s] /\ remote' = remote
    BY <2>1, <2>5 DEF TypeInv, BatchTypes, ItemOpen, MainStep, MarkBatchRunning, Join, CancelQueued, FailOpen,
       Complete, Spread, Close, CancelBatch, CancelItems, Items, Aside, rows
  <2>6. ASSUME NEW r \in Server, CommandStep(r) PROVE item' = item /\ ClientStep(r)
    BY <2>6 DEF CommandStep, batchVars, rows
  <2>7. ASSUME NEW r \in ScriptRuns, ConfirmStep(r) \/ UserStep(r) PROVE remote' = remote
    BY <2>7 DEF ConfirmStep, UserStep, CheckEnabled, GetVersion, StartConfirmed, RecordRun, Activate, Settle,
       PreviewRun, Consume, CancelPreview, CancelActive, Rows
  <2>8. ASSUME DefinitionStep PROVE remote' = remote
    BY <2>8 DEF DefinitionStep, SaveVersion, SetEnabled, SoftDelete, Edit, Untouched, execVars
  <2>9. ASSUME NEW r \in SearchRuns, SearchStep(r)
        PROVE  \/ remote' = remote
               \/ Exec(r) \/ ExitStatus(r) \/ ChannelCloses(r) \/ WaitFails(r) \/ CancelWait(r)
    BY <2>9 DEF SearchStep, CreateSearch, MarkSearch, Dial, OpenCapture, Stream, Flush, Store, Conclude,
       ReadPage, execVars
  <2>10. CASE ExitAndOpen BY <2>1, <2>10 DEF ExitAndOpen, Recover, RecoverBatch, TypeInv, BatchTypes
  <2>11. CASE /\ \/ \E r \in Server : TaskStep(r) \/ CommandStep(r)
                 \/ MainStep \/ CancelBatch \/ CancelItems
              /\ UNCHANGED <<scriptVars, searchVars, exits>>
    BY <2>2, <2>3, <2>4, <2>5, <2>6, <2>11, Parts
  <2>12. CASE /\ \/ \E r \in ScriptRuns : ConfirmStep(r) \/ UserStep(r) \/ ScriptClientStep(r)
                 \/ DefinitionStep
              /\ UNCHANGED <<batchVars, searchVars, exits>>
    BY <2>2, <2>3, <2>7, <2>8, <2>12, Parts DEF ScriptClientStep, batchVars, rows
  <2>13. CASE /\ \E r \in SearchRuns : SearchStep(r)
              /\ UNCHANGED <<batchVars, scriptVars, exits>>
    BY <2>2, <2>3, <2>9, <2>13, Parts DEF batchVars, rows
  <2>14. CASE /\ \E r \in Run : Environment(r)
              /\ UNCHANGED <<batchVars, scriptVars, searchVars, exits>>
    BY <2>2, <2>3, <2>14 DEF batchVars, rows
  <2> QED BY <2>10, <2>11, <2>12, <2>13, <2>14 DEF Next
<1> QED BY <1>1, TasksInvariance, PTL DEF Spec, EndedItemsRest

=============================================================================
