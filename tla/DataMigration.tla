--------------------------- MODULE DataMigration ---------------------------
(***************************************************************************)
(* The migration of the data directory: DataMigrationService and the       *)
(* command that starts it, the worker process of core/data_migration, the  *)
(* pointer to the root and the choice of the root when the application     *)
(* starts.  A root is its files with the number of the write each holds,   *)
(* its journal and its completion marker.  One application and one worker  *)
(* run at a time; power may fail at any moment.                            *)
(***************************************************************************)
EXTENDS Naturals, FiniteSets

CONSTANTS Root, File,
          MaxWrites,       \* bound on what the application writes
          MaxMigrations,   \* bound on journals
          MaxFailures      \* bound on power failures

NoRoot  == "none"

ASSUME DataMigrationAssumption ==
    /\ NoRoot \notin Root
    /\ MaxWrites \in Nat /\ MaxMigrations \in Nat /\ MaxFailures \in Nat

Absent  == 0
Foreign == MaxWrites + 1                  \* a file somebody else put there
Content == 0 .. MaxWrites + 1
Empty   == [f \in File |-> Absent]
Phase   == {"prepared", "copying", "verifying", "switched", "completed", "failed"}
Journal == [id : 1 .. MaxMigrations, source : Root, target : Root, phase : Phase]
Marker  == [id : 1 .. MaxMigrations, source : Root]

NoJournal == [id |-> 0, source |-> NoRoot, target |-> NoRoot, phase |-> "none"]
NoMarker  == [id |-> 0, source |-> NoRoot]
NoPreview == [target |-> NoRoot, retry |-> FALSE]
NoWorker  == [pc |-> "none", journal |-> NoJournal, manifest |-> Empty,
              retry |-> FALSE, left |-> {}]

VARIABLES
    there,       \* the directories that exist
    data, journal, marker,   \* what is in each root
    pointer,     \* the root on record (registry, config or portable file)
    root,        \* the root the application runs on
    up,          \* the application runs
    work,        \* a command at work: "none", "gated" (ensure_idle sees it),
                 \* or "operation" (it does not)
    preview,     \* DataMigrationPreviewRegistry
    starting,    \* AppState::migration_starting
    cmd,         \* where start_data_root_migration is
    prepared,    \* the journal it prepares
    worker,      \* the worker process
    truth,       \* history: the last write to each file
    writes, migrations, failures

roots  == <<there, data, journal, marker>>
memory == <<root, work, preview, starting, cmd, prepared>>
counts == <<writes, migrations, failures>>
vars   == <<roots, pointer, up, memory, worker, truth, counts>>

Init ==
    /\ there = {}
    /\ data = [r \in Root |-> Empty]
    /\ journal = [r \in Root |-> NoJournal]
    /\ marker = [r \in Root |-> NoMarker]
    /\ pointer = NoRoot /\ root = NoRoot /\ up = TRUE
    /\ work = "none" /\ preview = NoPreview /\ starting = FALSE
    /\ cmd = "none" /\ prepared = NoJournal /\ worker = NoWorker
    /\ truth = Empty
    /\ writes = 0 /\ migrations = 0 /\ failures = 0

\* DataRootStore::save: the registry, the pointer file or the portable pointer
PointTo(r) == pointer' = r

Names(content) == {f \in File : content[f] # Absent}

-----------------------------------------------------------------------------
(* The application                                                          *)

\* commands::bootstrap::initialize_data_root, while no root is on record
SelectRoot(r) ==
    /\ up /\ root = NoRoot /\ data[r] = Empty
    /\ root' = r /\ PointTo(r)
    /\ there' = there \cup {r}
    /\ UNCHANGED <<data, journal, marker, up, work, preview, starting, cmd, prepared, worker, truth, counts>>

\* commands::services refuses when a migration is starting
BeginWork(kind) ==
    /\ up /\ root # NoRoot /\ ~starting /\ work = "none"
    /\ work' = kind
    /\ UNCHANGED <<roots, pointer, up, root, preview, starting, cmd, prepared, worker, truth, counts>>

\* What has begun goes on until it ends or the process does.
Write(f) ==
    /\ up /\ work # "none" /\ writes < MaxWrites
    /\ writes' = writes + 1
    /\ data' = [data EXCEPT ![root][f] = writes']
    /\ truth' = [truth EXCEPT ![f] = writes']
    /\ UNCHANGED <<there, journal, marker, pointer, up, memory, worker, migrations, failures>>

EndWork ==
    /\ up /\ work # "none"
    /\ work' = "none"
    /\ UNCHANGED <<roots, pointer, up, root, preview, starting, cmd, prepared, worker, truth, counts>>

EnsureIdle == work # "gated"

\* preflight_inner: the target is empty or, on a retry, holds no other names.
Admits(source, target, retry) ==
    /\ source # target
    /\ \/ Names(data[target]) = {}
       \/ retry /\ Names(data[target]) \subseteq Names(data[source])

Preflight(r) ==
    /\ up /\ root # NoRoot /\ ~starting /\ EnsureIdle
    /\ Admits(root, r, FALSE)
    /\ preview' = [target |-> r, retry |-> FALSE]
    /\ there' = there \cup {r}
    /\ UNCHANGED <<data, journal, marker, pointer, up, root, work, starting, cmd, prepared, worker, truth, counts>>

\* Only a failed migration away from the current root is taken up again.
PreflightRetry ==
    LET failed == journal[root]
    IN  /\ up /\ root # NoRoot /\ ~starting /\ EnsureIdle
        /\ failed.phase = "failed" /\ failed.source = root
        /\ Admits(root, failed.target, TRUE)
        /\ preview' = [target |-> failed.target, retry |-> TRUE]
        /\ there' = there \cup {failed.target}
        /\ UNCHANGED <<data, journal, marker, pointer, up, root, work, starting, cmd, prepared, worker, truth, counts>>

\* start_data_root_migration: idle here, busy perhaps when the flag is set
CheckIdle ==
    /\ up /\ root # NoRoot /\ ~starting /\ cmd = "none"
    /\ preview # NoPreview /\ EnsureIdle
    /\ cmd' = "checked"
    /\ UNCHANGED <<roots, pointer, up, root, work, preview, starting, prepared, worker, truth, counts>>

SetStarting ==
    /\ up /\ cmd = "checked"
    /\ starting' = TRUE /\ cmd' = "flagged"
    /\ UNCHANGED <<roots, pointer, up, root, work, preview, prepared, worker, truth, counts>>

\* DataMigrationService::start: the preview is used up, the preflight repeated
Consume ==
    /\ up /\ cmd = "flagged" /\ migrations < MaxMigrations
    /\ Admits(root, preview.target, preview.retry)
    /\ prepared' = [id |-> migrations + 1, source |-> root, target |-> preview.target,
                    phase |-> "prepared"]
    /\ migrations' = migrations + 1
    /\ preview' = NoPreview
    /\ there' = there \cup {preview.target}
    /\ cmd' = "save_source"
    /\ UNCHANGED <<data, journal, marker, pointer, up, root, work, starting, worker, truth, writes, failures>>

PrepareSource ==
    /\ up /\ cmd = "save_source"
    /\ journal' = [journal EXCEPT ![root] = prepared]
    /\ cmd' = "save_target"
    /\ UNCHANGED <<there, data, marker, pointer, up, root, work, preview, starting, prepared, worker,
                   truth, counts>>

PrepareTarget ==
    /\ up /\ cmd = "save_target"
    /\ journal' = [journal EXCEPT ![prepared.target] = prepared]
    /\ cmd' = "spawn"
    /\ UNCHANGED <<there, data, marker, pointer, up, root, work, preview, starting, prepared, worker,
                   truth, counts>>

Spawn ==
    /\ up /\ cmd = "spawn"
    /\ worker' = [NoWorker EXCEPT !.pc = "validate", !.journal = prepared]
    /\ cmd' = "exit" /\ prepared' = NoJournal
    /\ UNCHANGED <<roots, pointer, up, root, work, preview, starting, truth, counts>>

\* The preview has expired or no longer fits, a journal cannot be saved, the
\* worker not be spawned: the flag is taken back, the journal is not.
StartFails ==
    /\ up /\ cmd \in {"flagged", "save_source", "save_target", "spawn"}
    /\ starting' = FALSE /\ cmd' = "none" /\ prepared' = NoJournal
    /\ preview' = NoPreview
    /\ UNCHANGED <<roots, pointer, up, root, work, worker, truth, counts>>

\* The process is gone with everything it kept in memory.
Gone ==
    /\ up' = FALSE /\ root' = NoRoot /\ work' = "none"
    /\ preview' = NoPreview /\ starting' = FALSE /\ cmd' = "none"
    /\ prepared' = NoJournal

\* app.exit, 350 ms after the worker was spawned
Exit ==
    /\ up /\ cmd = "exit"
    /\ Gone
    /\ UNCHANGED <<roots, pointer, worker, truth, counts>>

\* MigrationJournalStore::save in one step: the target only if it exists
SaveBoth(j) ==
    journal' = [r \in Root |-> IF r = j.source \/ (r = j.target /\ r \in there)
                               THEN j ELSE journal[r]]

\* acknowledge: fails when the source has been deleted
Acknowledge ==
    LET j == journal[root]
    IN  /\ up /\ root # NoRoot /\ ~starting
        /\ j # NoJournal /\ j.source \in there
        /\ SaveBoth(j)
        /\ UNCHANGED <<there, data, marker, pointer, up, memory, worker, truth, counts>>

-----------------------------------------------------------------------------
(* The worker process                                                       *)

Keep == UNCHANGED <<up, memory, truth, counts>>

At(p) == worker.pc = p

Goto(p) == worker' = [worker EXCEPT !.pc = p]

\* The journal is transitioned and then saved in the source and the target.
Transition(phase) ==
    worker' = [worker EXCEPT !.journal.phase = phase, !.pc = "save_source"]

\* validate_worker_journal: nothing but a power failure comes between the journal
\* and the worker, so it never refuses what Spawn left.
Validate ==
    /\ At("validate")
    /\ worker' = [worker EXCEPT !.pc = "wait", !.journal = journal[worker.journal.source]]
    /\ worker'.journal.phase = "prepared"
    /\ UNCHANGED <<roots, pointer>> /\ Keep

\* Mutant: the worker begins while the application is still there.
ParentGoneOrNot == TRUE

ParentGone == ~up

\* SystemParentProcessWaiter
WaitForParent ==
    /\ At("wait") /\ ParentGone
    /\ Goto("preflight")
    /\ UNCHANGED <<roots, pointer>> /\ Keep

\* preflight_with, or else preflight_retry_with: whether the user asked for a
\* retry is not known here.
WorkerPreflight ==
    LET j == worker.journal
    IN  /\ At("preflight")
        /\ \E retry \in BOOLEAN :
              /\ Admits(j.source, j.target, retry)
              /\ retry => ~Admits(j.source, j.target, FALSE)
              /\ worker' = [worker EXCEPT !.pc = "save_source", !.retry = retry,
                                          !.journal.phase = "copying",
                                          !.manifest = data[j.source],
                                          !.left = Names(data[j.source])]
        /\ UNCHANGED <<roots, pointer>> /\ Keep

\* MigrationJournalStore::save
SaveSource ==
    /\ At("save_source")
    /\ journal' = [journal EXCEPT ![worker.journal.source] = worker.journal]
    /\ Goto("save_target")
    /\ UNCHANGED <<there, data, marker, pointer>> /\ Keep

AfterSave == [copying |-> "copy", verifying |-> "verify", switched |-> "complete",
              completed |-> "restart", failed |-> "restart"]

SaveTarget ==
    /\ At("save_target")
    /\ journal' = [journal EXCEPT ![worker.journal.target] = worker.journal]
    /\ Goto(AfterSave[worker.journal.phase])
    /\ UNCHANGED <<there, data, marker, pointer>> /\ Keep

\* should_copy_file
ShouldCopy(f) == data[worker.journal.target][f] # worker.manifest[f]

\* validate_existing_target: what is there already is only taken on a retry.
ExistingTargetOk(f) == data[worker.journal.target][f] # Absent => worker.retry

CopyFile(f) ==
    LET j == worker.journal
    IN  /\ At("copy") /\ f \in worker.left
        /\ ExistingTargetOk(f)
        /\ data' = IF ShouldCopy(f)
                   THEN [data EXCEPT ![j.target][f] = data[j.source][f]]
                   ELSE data
        /\ worker' = [worker EXCEPT !.left = @ \ {f}]
        /\ UNCHANGED <<there, journal, marker, pointer>> /\ Keep

AllCopied ==
    /\ At("copy") /\ worker.left = {}
    /\ Transition("verifying")
    /\ UNCHANGED <<roots, pointer>> /\ Keep

\* verify_manifest
VerifyManifest == data[worker.journal.target] = worker.manifest

Verify ==
    /\ At("verify") /\ VerifyManifest
    /\ Goto("mark")
    /\ UNCHANGED <<roots, pointer>> /\ Keep

WriteMarker ==
    LET j == worker.journal
    IN  /\ At("mark")
        /\ marker' = [marker EXCEPT ![j.target] = [id |-> j.id, source |-> j.source]]
        /\ Goto("commit")
        /\ UNCHANGED <<there, data, journal, pointer>> /\ Keep

Commit ==
    /\ At("commit")
    /\ PointTo(worker.journal.target)
    /\ Transition("switched")
    /\ UNCHANGED roots /\ Keep

Complete ==
    /\ At("complete")
    /\ Transition("completed")
    /\ UNCHANGED <<roots, pointer>> /\ Keep

\* Mutant: a migration that failed ends without the application.
WorkFailsForGood ==
    /\ worker # NoWorker /\ worker.journal.phase # "failed"
    /\ worker.pc \in {"wait", "preflight", "save_source", "save_target", "copy", "verify",
                      "mark", "commit"}
    /\ worker' = NoWorker
    /\ UNCHANGED <<roots, pointer>> /\ Keep

\* Any step fails: the journal says so, as far as it can be saved.
WorkFails ==
    /\ worker # NoWorker /\ worker.journal.phase # "failed"
    /\ worker.pc \in {"wait", "preflight", "save_source", "save_target", "copy", "verify",
                      "mark", "commit"}
    /\ Transition("failed")
    /\ UNCHANGED <<roots, pointer>> /\ Keep

FailureNotSaved ==
    /\ worker.journal.phase = "failed" /\ worker.pc \in {"save_source", "save_target"}
    /\ Goto("restart")
    /\ UNCHANGED <<roots, pointer>> /\ Keep

-----------------------------------------------------------------------------
(* Start of the application                                                 *)

\* completion_marker_is_valid
MarkerValid(r) == marker[r] = [id |-> journal[r].id, source |-> journal[r].source]

\* resolve_runtime_data_root and migration_recovery_resolution: a target whose
\* migration is not completed sends the application back to the source.
RootAtStart ==
    IF /\ pointer # NoRoot
       /\ journal[pointer].target = pointer
       /\ ~(journal[pointer].phase = "completed" /\ MarkerValid(pointer))
    THEN journal[pointer].source
    ELSE pointer

Start ==
    /\ up' = TRUE
    /\ root' = RootAtStart /\ PointTo(RootAtStart)
    /\ UNCHANGED <<roots, work, preview, starting, cmd, prepared, truth>>

\* ProcessLauncher::restart
Relaunch ==
    /\ At("restart") /\ ~up
    /\ worker' = NoWorker
    /\ Start
    /\ UNCHANGED counts

\* The user starts it after a power failure.
Open ==
    /\ ~up /\ worker = NoWorker
    /\ Start
    /\ UNCHANGED <<worker, counts>>

PowerFails ==
    /\ failures < MaxFailures
    /\ failures' = failures + 1
    /\ Gone
    /\ worker' = NoWorker
    /\ UNCHANGED <<roots, pointer, truth, writes, migrations>>

-----------------------------------------------------------------------------
(* The user and other programs, in roots the application does not run on    *)

InUse(r) == r \in {root, pointer, prepared.target, worker.journal.source, worker.journal.target}

\* An old or half copied root is deleted while the application runs on another.
DeleteRoot(r) ==
    /\ up /\ ~InUse(r) /\ r \in there
    /\ there' = there \ {r}
    /\ data' = [data EXCEPT ![r] = Empty]
    /\ journal' = [journal EXCEPT ![r] = NoJournal]
    /\ marker' = [marker EXCEPT ![r] = NoMarker]
    /\ UNCHANGED <<pointer, up, memory, worker, truth, counts>>

\* A file of that name appears in a target that was empty when it was chosen.
PutFile(f) ==
    LET r == prepared.target
    IN  /\ cmd \in {"save_source", "save_target", "spawn"}
        /\ data[r][f] = Absent
        /\ data' = [data EXCEPT ![r][f] = Foreign]
        /\ UNCHANGED <<there, journal, marker, pointer, up, memory, worker, truth, counts>>

WorkerStep ==
    \/ Validate \/ WaitForParent \/ WorkerPreflight \/ SaveSource \/ SaveTarget
    \/ (\E f \in File : CopyFile(f)) \/ AllCopied \/ Verify \/ WriteMarker \/ Commit
    \/ Complete \/ WorkFails \/ FailureNotSaved \/ Relaunch

Next ==
    \/ \E r \in Root : SelectRoot(r) \/ Preflight(r) \/ DeleteRoot(r)
    \/ \E kind \in {"gated", "operation"} : BeginWork(kind)
    \/ \E f \in File : Write(f) \/ PutFile(f)
    \/ EndWork \/ PreflightRetry \/ CheckIdle \/ SetStarting \/ Consume \/ PrepareSource
    \/ PrepareTarget \/ Spawn \/ StartFails \/ Exit \/ Acknowledge
    \/ WorkerStep \/ Open \/ PowerFails

Spec == Init /\ [][Next]_vars

\* The worker runs on by itself and the application leaves by a timer.
FairSpec == Spec /\ WF_vars(WorkerStep) /\ WF_vars(Exit)

-----------------------------------------------------------------------------
(* Properties                                                               *)

TypeOK ==
    /\ there \subseteq Root
    /\ data \in [Root -> [File -> Content]]
    /\ journal \in [Root -> Journal \cup {NoJournal}]
    /\ marker \in [Root -> Marker \cup {NoMarker}]
    /\ pointer \in Root \cup {NoRoot} /\ root \in Root \cup {NoRoot}
    /\ up \in BOOLEAN /\ starting \in BOOLEAN
    /\ work \in {"none", "gated", "operation"}
    /\ worker.journal \in Journal \cup {NoJournal}
    /\ worker.left \subseteq File /\ truth \in [File -> Content]

\* If everything stopped now, the next start would find a root, and in it the
\* last write to every file: during each step of a migration, whatever was
\* deleted, retried or put into the target.
AlwaysRecoverable ==
    pointer # NoRoot => /\ RootAtStart \in there
                        /\ data[RootAtStart] = truth

\* A root that a migration has completed into and that the application was
\* started on is its own: a later start does not go back to the source.
NoWayBack ==
    up /\ root # NoRoot => RootAtStart = root

\* Once the application leaves for a migration it comes back, whether the
\* migration succeeds, fails or is refused, unless the power fails meanwhile.
ComesBack ==
    \A n \in 0..MaxFailures :
        (cmd = "exit" /\ failures = n) ~> (up /\ cmd = "none") \/ failures > n

=============================================================================
