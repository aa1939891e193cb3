-------------------------- MODULE WorkflowRestore --------------------------
(***************************************************************************)
(* The restore points of one workflow run (RestorePointService): capture   *)
(* before each guarded upload, the rollback of the run and the cleanup of  *)
(* its backups.  The run itself is reduced to its guarded uploads, in the  *)
(* order in which it comes to them, with retries of the one that failed;   *)
(* WorkflowRun has the rest.  Calls are async: every statement, and every  *)
(* effect on the server or on the local backups, is a step.                *)
(*                                                                         *)
(* A content is a number: Absent, Before (what the server had before the   *)
(* run) or the number of the step that uploads it.  A restore point and    *)
(* its backup file have the position of the point in creation order.       *)
(***************************************************************************)
EXTENDS Integers, Sequences

CONSTANTS
    Path,        \* remote paths
    Target,      \* per guarded upload its remote path, in execution order
    Roller,      \* calls of rollback_run
    Cleaner,     \* calls of cleanup_run
    MaxRetries,  \* bound: retries of the run
    MaxFailures  \* bound: statements that fail and exits of the application

ASSUME TargetAssumption == Target \in Seq(Path) /\ Target # <<>>
ASSUME CallsAssumption == Roller \cap Cleaner = {}
ASSUME LimitAssumption == MaxRetries \in Nat /\ MaxFailures \in Nat

VARIABLES
    run,        \* status of the row in workflow_runs; "over" stands for
                \* succeeded, cancelled and uncertain, which are treated alike
    points,     \* workflow_restore_points: [status, path, existed, relative, saved]
    files,      \* per point the content of its backup file
    remote,     \* per path what is on the server
    original,   \* what was there before the run
    step,       \* the upload the run is at
    stage,      \* the next step of the call that drives the run
    got,        \* what capture found at the path
    ending,     \* the status the run ends with
    place,      \* the next step of each rollback and each cleanup
    todo,       \* the points it still has to deal with, as it read them
    failed,     \* rollbacks that have a failure to report
    disturbed,  \* a rollback was cut short, or calls for the run met
    retries, failures

driver      == <<step, stage, got, ending>>
calls       == <<place, todo, failed>>
bounds      == <<retries, failures>>
restoreVars == <<run, points, files, remote, original, driver, calls, disturbed, bounds>>

Absent == -1
Before == 0
Content == Absent .. Len(Target)
NoFile == -2

Call == Roller \cup Cleaner
Busy(c) == place[c] \notin {"idle", "done"}
Newest == Len(points)
Here == Target[step]

Move(c, label) == place' = [place EXCEPT ![c] = label]

\* The call returns.
Return(c) ==
    /\ Move(c, "done")
    /\ todo' = [todo EXCEPT ![c] = {}]
    /\ failed' = failed \ {c}

\* What a transfer that fails may have done: nothing, everything, or the old
\* file is gone and the new one is not in place.
AfterFailure(path, content) ==
    {[remote EXCEPT ![path] = x] : x \in {remote[path], content, Absent}}

-----------------------------------------------------------------------------
(* The run: capture, then the upload.                                      *)

\* create_restore_point.
CreatePoint ==
    /\ stage = "create"
    /\ points' = Append(points, [status |-> "creating", path |-> Here, existed |-> FALSE,
                                 relative |-> TRUE, saved |-> Absent])
    /\ files' = Append(files, NoFile)
    /\ stage' = "backup"
    /\ UNCHANGED <<run, remote, original, step, got, ending, calls, disturbed, bounds>>

\* connect and backup_remote_file: the file is complete before it has its
\* name; without a remote file there is no backup.
Backup ==
    /\ stage = "backup"
    /\ \/ /\ got' = remote[Here]
          /\ files' = IF remote[Here] = Absent THEN files
                      ELSE [files EXCEPT ![Newest] = remote[Here]]
          /\ stage' = "finish"
       \/ stage' = "record" /\ UNCHANGED <<got, files>>
    /\ UNCHANGED <<run, points, remote, original, step, ending, calls, disturbed, bounds>>

\* finish_restore_point.
FinishPoint ==
    /\ stage = "finish"
    /\ points' = [points EXCEPT ![Newest].status = "available", ![Newest].existed = (got # Absent),
                                ![Newest].relative = (got # Absent), ![Newest].saved = got]
    /\ stage' = "upload" /\ got' = Absent
    /\ UNCHANGED <<run, files, remote, original, step, ending, calls, disturbed, bounds>>

\* record_failure; the node fails and the run pauses.
RecordFailure ==
    /\ stage = "record"
    /\ points' = [points EXCEPT ![Newest].status = "failed", ![Newest].relative = FALSE]
    /\ stage' = "close" /\ ending' = "paused"
    /\ UNCHANGED <<run, files, remote, original, step, got, calls, disturbed, bounds>>

\* The upload that the restore point guards.
Upload ==
    /\ stage = "upload"
    /\ \/ /\ remote' = [remote EXCEPT ![Here] = step]
          /\ IF step = Len(Target)
               THEN stage' = "close" /\ ending' = "over" /\ step' = step
               ELSE stage' = "create" /\ ending' = ending /\ step' = step + 1
       \/ /\ remote' \in AfterFailure(Here, step)
          /\ ending' \in {"paused", "over"}
          /\ stage' = "close" /\ step' = step
    /\ UNCHANGED <<run, points, files, original, got, calls, disturbed, bounds>>

\* finish_run.
CloseRun ==
    /\ stage = "close"
    /\ run' = ending /\ stage' = "idle" /\ ending' = "paused"
    /\ UNCHANGED <<points, files, remote, original, step, got, calls, disturbed, bounds>>

\* retry_failed_node goes on with the upload that failed.
Retry ==
    /\ run = "paused" /\ stage = "idle" /\ retries < MaxRetries
    /\ run' = "running" /\ stage' = "create" /\ retries' = retries + 1
    /\ disturbed' = (disturbed \/ \E c \in Call : Busy(c))
    /\ UNCHANGED <<points, files, remote, original, step, got, ending, calls, failures>>

-----------------------------------------------------------------------------
(* rollback_run.                                                           *)

\* The row of the run; the points are read by a later statement.
Ended == {"paused", "over", "rollback_failed"}
ReadEndedRun(r) ==
    /\ place[r] = "idle" /\ run \in Ended
    /\ Move(r, "points")
    /\ UNCHANGED <<run, points, files, remote, original, driver, todo, failed, disturbed, bounds>>

\* Mutant: the points are dealt with in the order of the table.
OldestOf(left) == {i \in left : \A j \in left : i <= j}

\* points.reverse(): of the points that are left the newest is next.
NewestOf(left) == {i \in left : \A j \in left : j <= i}

\* The available points.
ReadPoints(r) ==
    LET plan == {i \in 1..Newest : points[i].status = "available"} IN
    /\ place[r] = "points"
    /\ todo' = [todo EXCEPT ![r] = plan]
    /\ Move(r, IF plan = {} THEN "done" ELSE "connect")
    /\ disturbed' = (disturbed \/ \E s \in Roller \ {r} : Busy(s))
    /\ UNCHANGED <<run, points, files, remote, original, driver, failed, bounds>>

ConnectServer(r) ==
    /\ place[r] = "connect"
    /\ \/ Move(r, "mark") /\ failed' = failed
       \/ Move(r, "close") /\ failed' = failed \cup {r}
    /\ UNCHANGED <<run, points, files, remote, original, driver, todo, disturbed, bounds>>

\* mark_restore_point_rolling_back; a point that is no longer available ends
\* the call.
\* Mutant: the statement does not ask for the status.
MarkAnyway(r) ==
    /\ place[r] = "mark"
    /\ \E i \in NewestOf(todo[r]) : points' = [points EXCEPT ![i].status = "rolling_back"]
    /\ Move(r, "restore")
    /\ UNCHANGED <<run, files, remote, original, driver, todo, failed, disturbed, bounds>>
Mark(r) ==
    /\ place[r] = "mark"
    /\ \E i \in NewestOf(todo[r]) :
          IF points[i].status = "available"
            THEN /\ points' = [points EXCEPT ![i].status = "rolling_back"]
                 /\ Move(r, "restore") /\ UNCHANGED <<todo, failed, disturbed>>
            ELSE points' = points /\ disturbed' = TRUE /\ Return(r)
    /\ UNCHANGED <<run, files, remote, original, driver, bounds>>

\* rollback_point: a file the run created is deleted, the backup of one that
\* existed is checked against its hash and uploaded.
Usable(i) == ~points[i].existed \/ files[i] = points[i].saved
Restore(r) ==
    /\ place[r] = "restore"
    /\ \E i \in NewestOf(todo[r]) :
          LET p == points[i] IN
          \/ Usable(i) /\ remote' = [remote EXCEPT ![p.path] = p.saved] /\ Move(r, "restored")
          \/ /\ remote' \in IF Usable(i) THEN AfterFailure(p.path, p.saved) ELSE {remote}
             /\ Move(r, "not restored")
    /\ UNCHANGED <<run, points, files, original, driver, todo, failed, disturbed, bounds>>

\* finish_restore_point_rollback.
Record(r) ==
    /\ place[r] \in {"restored", "not restored"}
    /\ \E i \in NewestOf(todo[r]) :
          /\ points' = [points EXCEPT ![i].status =
                           IF place[r] = "restored" THEN "rolled_back" ELSE "failed"]
          /\ todo' = [todo EXCEPT ![r] = @ \ {i}]
          /\ Move(r, IF todo[r] = {i} THEN "close" ELSE "mark")
    /\ failed' = IF place[r] = "restored" THEN failed ELSE failed \cup {r}
    /\ UNCHANGED <<run, files, remote, original, driver, disturbed, bounds>>

\* finish_rollback_run.
CloseRollback(r) ==
    /\ place[r] = "close"
    /\ run' = IF run \notin Ended THEN run
              ELSE IF r \in failed THEN "rollback_failed" ELSE "rolled_back"
    /\ Return(r)
    /\ UNCHANGED <<points, files, remote, original, driver, disturbed, bounds>>

-----------------------------------------------------------------------------
(* cleanup_run.                                                            *)

ReadRunToClean(c) ==
    /\ place[c] = "idle" /\ run # "running"
    /\ Move(c, "points")
    /\ UNCHANGED <<run, points, files, remote, original, driver, todo, failed, disturbed, bounds>>

\* Every point but the expired ones, with its path as it is now, oldest first.
FirstOf(left) == {x \in left : \A y \in left : x.id <= y.id}
ListPoints(c) ==
    LET listed == {[id |-> i, relative |-> points[i].relative] :
                      i \in {j \in 1..Newest : points[j].status # "expired"}}
    IN
    /\ place[c] = "points"
    /\ todo' = [todo EXCEPT ![c] = listed]
    /\ Move(c, IF listed = {} THEN "done" ELSE "remove")
    /\ UNCHANGED <<run, points, files, remote, original, driver, failed, disturbed, bounds>>

\* remove_file, when the point has a path and the file exists.
RemoveFile(c) ==
    /\ place[c] = "remove"
    /\ \E x \in FirstOf(todo[c]) :
          files' = IF x.relative THEN [files EXCEPT ![x.id] = NoFile] ELSE files
    /\ Move(c, "expire")
    /\ UNCHANGED <<run, points, remote, original, driver, todo, failed, disturbed, bounds>>

\* expire_restore_point: a point being created or rolled back is left alone.
Expire(c) ==
    /\ place[c] = "expire"
    /\ \E x \in FirstOf(todo[c]) :
          /\ points' = IF points[x.id].status \in {"available", "failed", "rolled_back"}
                         THEN [points EXCEPT ![x.id].status = "expired"] ELSE points
          /\ todo' = [todo EXCEPT ![c] = @ \ {x}]
          /\ Move(c, IF todo[c] = {x} THEN "done" ELSE "remove")
    /\ UNCHANGED <<run, files, remote, original, driver, failed, disturbed, bounds>>

-----------------------------------------------------------------------------
(* Failures and exit.                                                      *)

\* A statement fails.  In capture the node fails; everywhere else the call
\* returns and leaves what it has done, the run perhaps running with nobody
\* at work on it.
CaptureFault ==
    /\ failures < MaxFailures /\ stage \in {"create", "finish", "record"}
    /\ failures' = failures + 1
    /\ stage' = "close" /\ ending' = "paused" /\ got' = Absent
    /\ UNCHANGED <<run, points, files, remote, original, step, calls, disturbed, retries>>
CloseRunFault ==
    /\ failures < MaxFailures /\ stage = "close"
    /\ failures' = failures + 1
    /\ stage' = "idle" /\ ending' = "paused"
    /\ UNCHANGED <<run, points, files, remote, original, step, got, calls, disturbed, retries>>
CallFault(c) ==
    /\ failures < MaxFailures /\ Busy(c) /\ place[c] \notin {"connect", "restore"}
    /\ failures' = failures + 1
    /\ Return(c)
    /\ disturbed' = (disturbed \/ c \in Roller)
    /\ UNCHANGED <<run, points, files, remote, original, driver, retries>>

\* The application exits and is started again; recover_interrupted looks at
\* the run but not at its restore points.
Restart ==
    /\ failures < MaxFailures /\ failures' = failures + 1
    /\ run' = IF run = "running" THEN "over" ELSE run
    /\ stage' = "idle" /\ got' = Absent /\ ending' = "paused"
    /\ place' = [c \in Call |-> IF Busy(c) THEN "done" ELSE place[c]]
    /\ todo' = [c \in Call |-> {}] /\ failed' = {}
    /\ disturbed' = (disturbed \/ \E r \in Roller : Busy(r))
    /\ UNCHANGED <<points, files, remote, original, step, retries>>

-----------------------------------------------------------------------------
RestoreInit ==
    /\ run = "running" /\ points = <<>> /\ files = <<>>
    /\ original \in [Path -> {Absent, Before}] /\ remote = original
    /\ step = 1 /\ stage = "create" /\ got = Absent /\ ending = "paused"
    /\ place = [c \in Call |-> "idle"] /\ todo = [c \in Call |-> {}]
    /\ failed = {} /\ disturbed = FALSE
    /\ retries = 0 /\ failures = 0

Drive == CreatePoint \/ Backup \/ FinishPoint \/ RecordFailure \/ Upload \/ CloseRun
Rollback(r) ==
    \/ ReadEndedRun(r) \/ ReadPoints(r) \/ ConnectServer(r) \/ Mark(r) \/ Restore(r)
    \/ Record(r) \/ CloseRollback(r)
Clean(c) == ReadRunToClean(c) \/ ListPoints(c) \/ RemoveFile(c) \/ Expire(c)

RestoreNext ==
    \/ Drive \/ Retry \/ CaptureFault \/ CloseRunFault \/ Restart
    \/ \E r \in Roller : Rollback(r)
    \/ \E c \in Cleaner : Clean(c)
    \/ \E c \in Call : CallFault(c)

RestoreSpec == RestoreInit /\ [][RestoreNext]_restoreVars

-----------------------------------------------------------------------------
(* Properties.                                                             *)

Point == [status : {"creating", "available", "rolling_back", "rolled_back", "failed", "expired"},
          path : Path, existed : BOOLEAN, relative : BOOLEAN, saved : Content]
RestoreTypeOK ==
    /\ run \in {"running", "rolled_back"} \cup Ended
    /\ points \in Seq(Point) /\ files \in Seq(Content \cup {NoFile})
    /\ Len(files) = Len(points)
    /\ remote \in [Path -> Content] /\ original \in [Path -> Content]
    /\ step \in 1..Len(Target) /\ got \in Content
    /\ stage \in {"create", "backup", "finish", "record", "upload", "close", "idle"}
    /\ stage \in {"backup", "finish", "record"} => points # <<>>
    /\ ending \in Ended \ {"rollback_failed"}
    /\ place \in [Call -> {"idle", "points", "connect", "mark", "restore", "restored",
                        "not restored", "close", "remove", "expire", "done"}]
    /\ \A r \in Roller : todo[r] \subseteq 1..Len(points)
    /\ \A c \in Cleaner : todo[c] \subseteq [id : 1..Len(points), relative : BOOLEAN]
    /\ failed \subseteq Roller /\ disturbed \in BOOLEAN
    /\ retries \in 0..MaxRetries /\ failures \in 0..MaxFailures

\* A run shown as rolled back has put every path back to what was there
\* before its first upload, however often uploads of the path failed half way,
\* were retried or captured each other's results, unless the user had its
\* backups cleaned up, a rollback was cut short, or calls for the run met.
RolledBackRestored ==
    run = "rolled_back" /\ ~disturbed =>
        \A p \in Path :
            (\A i \in 1..Newest :
                points[i].path = p => points[i].status # "expired")
            => remote[p] = original[p]

\* rollback_point of r is under way.
Restoring(r) == place[r] \in {"restore", "restored", "not restored"}

\* Two rollbacks never work on the same restore point, and the one that does
\* has it marked: however calls meet, no backup is restored twice.
RestoresOnce ==
    \A r \in Roller : Restoring(r) =>
        \E i \in NewestOf(todo[r]) :
            /\ points[i].status = "rolling_back"
            /\ \A s \in Roller \ {r} : Restoring(s) => i \notin NewestOf(todo[s])

\* An expired restore point leaves no backup behind, unless calls for the run
\* met.
ExpiredIsGone ==
    ~disturbed => \A i \in 1..Newest : points[i].status = "expired" => files[i] = NoFile

-----------------------------------------------------------------------------
(* What the documentation says and the code does not do.                   *)

\* "No step that cannot be confirmed is misreported as a success": a run shown
\* as rolled back has no point whose rollback began and was given up.
NothingUnconfirmed ==
    run = "rolled_back" =>
        \A i \in 1..Newest : points[i].status = "rolling_back" =>
            \E r \in Roller : i \in NewestOf(todo[r])
=============================================================================
