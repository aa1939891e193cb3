------------------------------ MODULE Updates ------------------------------
(***************************************************************************)
(* UpdateManager and UpdateService of services/update_service.rs with the  *)
(* lifecycle of domain/update.rs and the store of                          *)
(* core/updates/state_store.rs: checks, downloads, installations and       *)
(* clearings that run side by side.  A package is its version and whether  *)
(* its bytes are whole; what the user is told is left out.                 *)
(***************************************************************************)
EXTENDS Naturals, FiniteSets

CONSTANTS Call,        \* commands that may be under way at a time
          MaxVersion   \* bound on the versions that are published

ASSUME UpdatesAssumption == MaxVersion \in Nat \ {0}

Source  == {"github", "modelscope"}
Version == 0 .. MaxVersion
Release == [version : Version, source : Source]
None    == [version |-> 0, source |-> "none"]
Failed  == [version |-> 0, source |-> "failed"]        \* does not allow a fallback
Unreachable == [version |-> 0, source |-> "unreachable"]

VARIABLES
    current,    \* the version that runs
    disk,       \* the version an installer put in place last
    latest,     \* latest[s]: what the manifest of s announces
    phase, release,        \* UpdateLifecycle
    pending,    \* UpdateService::pending
    stored,     \* staged_file of state.json, as a version
    file, part, \* file[v], part[v]: staged/<v>/... and its .partial
    pc,
    what,       \* what[c]: the release a call works on
    snap,       \* snap[c]: the state.json it has loaded
    handle,     \* handle[c]: where the file it writes is now
    crossed,    \* history: a clearing overlaps another command
    raced       \* history: a state.json was saved over a newer one

life  == <<phase, release>>
files == <<file, part, handle>>
ghost == <<crossed, raced>>
updatesVars  == <<current, disk, latest, life, pending, stored, files, pc,
           what, snap, ghost>>

Bytes == {"none", "cut", "whole"}

UpdatesInit ==
    /\ current = 0 /\ disk = 0
    /\ latest \in [Source -> Version]
    /\ phase = "idle" /\ release = None
    /\ pending = None
    /\ stored = 0
    /\ file = [v \in Version |-> "none"]
    /\ part = [v \in Version |-> "none"]
    /\ pc = [c \in Call |-> "ready"]
    /\ what = [c \in Call |-> None]
    /\ snap = [c \in Call |-> 0]
    /\ handle = [c \in Call |-> "none"]
    /\ crossed = FALSE /\ raced = FALSE

Clearing   == {"clear", "clear_save", "reset"}
Fetching   == {"fetch", "open", "write", "rename", "record", "record_save",
               "pend", "downloaded"}
Checking   == {"ask_github", "ask_modelscope", "answer"}
Installing == {"install", "read", "resolve"}

Proceed(c, p) == pc' = [pc EXCEPT ![c] = p]

\* A command other than a clearing starts.
Begin(c, p) ==
    /\ Proceed(c, p)
    /\ crossed' = (crossed \/ \E d \in Call : pc[d] \in Clearing)
    /\ UNCHANGED raced

\* The command returns and its locals are gone.
Return(c) ==
    /\ Proceed(c, "ready")
    /\ what' = [what EXCEPT ![c] = None]
    /\ snap' = [snap EXCEPT ![c] = 0]

\* UpdateLifecycle::fail: whatever the phase is
Fail == phase' = "failed" /\ UNCHANGED release

\* UpdateStateStore::load and save: nothing keeps others out in between
Load(c) == snap' = [snap EXCEPT ![c] = stored]
Save(c, state) ==
    /\ stored' = state
    /\ raced' = (raced \/ snap[c] # stored)

-----------------------------------------------------------------------------
(* check                                                                    *)

\* UpdateLifecycle::begin_check
CanCheck == phase \in {"idle", "up_to_date", "available", "failed"}

\* A manual check, or an automatic one that is switched on and due.
Check(c) ==
    /\ pc[c] = "ready" /\ CanCheck
    /\ phase' = "checking" /\ release' = None
    /\ Begin(c, "ask_github")
    /\ UNCHANGED <<current, disk, latest, pending, stored, files, what, snap>>

\* parse_manifest: None when the source has nothing newer
ParseManifest(s) ==
    IF latest[s] > current THEN [version |-> latest[s], source |-> s] ELSE None

\* HttpManifestTransport::fetch: what the manifest says, a refusal of the
\* source or of its manifest, or a source that is out of reach.
SourceAnswers(s) == {ParseManifest(s), Failed, Unreachable}

\* DualSourceChecker::check: only a source out of reach is passed over.
AskGithub(c) ==
    /\ pc[c] = "ask_github"
    /\ \E a \in SourceAnswers("github") :
          IF a = Unreachable
          THEN Proceed(c, "ask_modelscope") /\ UNCHANGED what
          ELSE Proceed(c, "answer") /\ what' = [what EXCEPT ![c] = a]
    /\ UNCHANGED <<current, disk, latest, life, pending, stored, files, snap, ghost>>

AskModelscope(c) ==
    /\ pc[c] = "ask_modelscope"
    /\ \E a \in SourceAnswers("modelscope") :
          what' = [what EXCEPT ![c] = IF a = Unreachable THEN Failed ELSE a]
    /\ Proceed(c, "answer")
    /\ UNCHANGED <<current, disk, latest, life, pending, stored, files, snap, ghost>>

\* The error branch of check
SourceError(c) ==
    /\ what[c] = Failed
    /\ Fail

\* set_up_to_date, set_available
Accept(c) ==
    /\ what[c] # Failed /\ phase = "checking"
    /\ phase' = (IF what[c] = None THEN "up_to_date" ELSE "available")
    /\ release' = what[c]

TakeAnswer(c) ==
    /\ pc[c] = "answer"
    /\ SourceError(c) \/ Accept(c)
    /\ Proceed(c, "persist")
    /\ UNCHANGED <<current, disk, latest, pending, stored, files, what, snap, ghost>>

\* The phase is no longer the one of this check: a transition error.
AnswerTooLate(c) ==
    /\ pc[c] = "answer" /\ what[c] # Failed /\ phase # "checking"
    /\ Return(c)
    /\ UNCHANGED <<current, disk, latest, life, pending, stored, files, ghost>>

\* persist_check loads state.json ...
PersistLoad(c) ==
    /\ pc[c] = "persist"
    /\ Load(c) /\ Proceed(c, "persist_save")
    /\ UNCHANGED <<current, disk, latest, life, pending, stored, files, what, ghost>>

\* Mutant: the result of the check is saved in a fresh state.
PersistFresh(c) == 0

\* ... and saves it with the result of the check, the rest as it was read.
Persist(c) == snap[c]

PersistSave(c) ==
    /\ pc[c] = "persist_save"
    /\ Save(c, Persist(c))
    /\ Return(c)
    /\ UNCHANGED <<current, disk, latest, life, pending, files, crossed>>

-----------------------------------------------------------------------------
(* download                                                                 *)

Download(c) ==
    /\ pc[c] = "ready" /\ phase = "available"
    /\ phase' = "downloading"
    /\ what' = [what EXCEPT ![c] = release]
    /\ Begin(c, "fetch")
    /\ UNCHANGED <<current, disk, latest, release, pending, stored, files, snap>>

\* TauriSignedUpdateAdapter::resolve_update: the manifest still names the release
Resolves(r) == ParseManifest(r.source) = r

\* The bytes arrive and have the size and hash of the release.
Fetch(c) ==
    /\ pc[c] = "fetch" /\ Resolves(what[c])
    /\ Proceed(c, "open")
    /\ UNCHANGED <<current, disk, latest, life, pending, stored, files, what, snap, ghost>>

\* write_verified_file: an equal file is kept, another one is removed first.
OpenPartial(c) ==
    LET v == what[c].version
    IN  /\ pc[c] = "open"
        /\ IF file[v] = "whole"
           THEN Proceed(c, "record") /\ UNCHANGED files
           ELSE /\ file' = [file EXCEPT ![v] = "none"]
                /\ part' = [part EXCEPT ![v] = "cut"]
                /\ handle' = [d \in Call |->
                                 IF d = c THEN "part"
                                 ELSE IF what[d].version = v /\ handle[d] = "final" THEN "gone"
                                 ELSE handle[d]]
                /\ Proceed(c, "write")
        /\ UNCHANGED <<current, disk, latest, life, pending, stored, what, snap, ghost>>

\* Through the handle, wherever the file has been moved to meanwhile.
WriteAll(c) ==
    LET v == what[c].version
    IN  /\ pc[c] = "write"
        /\ part' = IF handle[c] = "part" THEN [part EXCEPT ![v] = "whole"] ELSE part
        /\ file' = IF handle[c] = "final" THEN [file EXCEPT ![v] = "whole"] ELSE file
        /\ Proceed(c, "rename")
        /\ UNCHANGED <<current, disk, latest, life, pending, stored, handle, what, snap, ghost>>

Rename(c) ==
    LET v == what[c].version
    IN  /\ pc[c] = "rename" /\ part[v] # "none"
        /\ file' = [file EXCEPT ![v] = part[v]]
        /\ part' = [part EXCEPT ![v] = "none"]
        /\ handle' = [d \in Call |->
                         IF d = c THEN "none"
                         ELSE IF what[d].version # v THEN handle[d]
                         ELSE CASE handle[d] = "part" -> "final"
                                [] handle[d] = "final" -> "gone"
                                [] OTHER -> handle[d]]
        /\ Proceed(c, "record")
        /\ UNCHANGED <<current, disk, latest, life, pending, stored, what, snap, ghost>>

\* Mutant: the error is returned at once, the lifecycle keeps its phase.
DownloadFailsQuietly(c) ==
    LET v == what[c].version
        writing == pc[c] \in {"open", "write", "rename"}
    IN  /\ pc[c] \in {"fetch", "open", "write", "rename", "record", "record_save"}
        /\ UNCHANGED life
        /\ part' = IF writing THEN [part EXCEPT ![v] = "none"] ELSE part
        /\ handle' = [d \in Call |->
                         IF d = c THEN "none"
                         ELSE IF writing /\ what[d].version = v /\ handle[d] = "part" THEN "gone"
                         ELSE handle[d]]
        /\ Return(c)
        /\ UNCHANGED <<current, disk, latest, pending, stored, file, ghost>>

\* The network, a signature, a file operation or the store fails; a partial
\* file is removed and the lifecycle fails.
DownloadFails(c) ==
    LET v == what[c].version
        writing == pc[c] \in {"open", "write", "rename"}
    IN  /\ pc[c] \in {"fetch", "open", "write", "rename", "record", "record_save"}
        /\ Fail
        /\ part' = IF writing THEN [part EXCEPT ![v] = "none"] ELSE part
        /\ handle' = [d \in Call |->
                         IF d = c THEN "none"
                         ELSE IF writing /\ what[d].version = v /\ handle[d] = "part" THEN "gone"
                         ELSE handle[d]]
        /\ Return(c)
        /\ UNCHANGED <<current, disk, latest, pending, stored, file, ghost>>

RecordLoad(c) ==
    /\ pc[c] = "record"
    /\ Load(c) /\ Proceed(c, "record_save")
    /\ UNCHANGED <<current, disk, latest, life, pending, stored, files, what, ghost>>

RecordSave(c) ==
    /\ pc[c] = "record_save"
    /\ Save(c, what[c].version)
    /\ Proceed(c, "pend")
    /\ UNCHANGED <<current, disk, latest, life, pending, files, what, snap, crossed>>

SetPending(c) ==
    /\ pc[c] = "pend"
    /\ pending' = what[c] /\ Proceed(c, "downloaded")
    /\ UNCHANGED <<current, disk, latest, life, stored, files, what, snap, ghost>>

\* set_downloaded, or its transition error
SetDownloaded(c) ==
    /\ pc[c] = "downloaded"
    /\ phase' = IF phase = "downloading" THEN "downloaded" ELSE phase
    /\ Return(c)
    /\ UNCHANGED <<current, disk, latest, release, pending, stored, files, ghost>>

-----------------------------------------------------------------------------
(* install, clear_downloaded, set_auto_check                                *)

\* Mutant: a release whose package was staged before is installed at once.
CanInstallAvailable == phase \in {"available", "downloaded"}

\* UpdateLifecycle::begin_install
CanInstall == phase = "downloaded"

\* Confirmed by the user
Install(c) ==
    /\ pc[c] = "ready" /\ CanInstall
    /\ phase' = "installing"
    /\ Begin(c, "install")
    /\ UNCHANGED <<current, disk, latest, release, pending, stored, files, what, snap>>

TakePending(c) ==
    /\ pc[c] = "install" /\ pending # None
    /\ what' = [what EXCEPT ![c] = pending]
    /\ Proceed(c, "read")
    /\ UNCHANGED <<current, disk, latest, life, pending, stored, files, snap, ghost>>

\* fs::read and verify_bytes
VerifyBytes(r) == file[r.version] = "whole"

ReadStaged(c) ==
    /\ pc[c] = "read" /\ VerifyBytes(what[c])
    /\ Proceed(c, "resolve")
    /\ UNCHANGED <<current, disk, latest, life, pending, stored, files, what, snap, ghost>>

\* The installer runs; the phase stays until the process ends.
RunInstaller(c) ==
    /\ pc[c] = "resolve" /\ Resolves(what[c])
    /\ disk' = what[c].version
    /\ Return(c)
    /\ UNCHANGED <<current, latest, life, pending, stored, files, ghost>>

\* Nothing is pending, the file is gone or altered, the manifest has changed,
\* the network or the installer fails.
InstallFails(c) ==
    /\ pc[c] \in Installing
    /\ pc[c] = "install" => pending = None
    /\ Fail /\ Return(c)
    /\ UNCHANGED <<current, disk, latest, pending, stored, files, ghost>>

\* UpdateService::clear_downloaded takes the pending package and loads the state.
Clear(c) ==
    /\ pc[c] = "ready"
    /\ what' = [what EXCEPT ![c] = pending]
    /\ pending' = None
    /\ Load(c)
    /\ Proceed(c, "clear")
    /\ crossed' = (crossed \/ \E d \in Call : pc[d] \in Fetching \cup Checking \cup Installing)
    /\ UNCHANGED <<current, disk, latest, life, stored, files, raced>>

\* The file of the pending package, else the one on record, is removed.
RemoveStaged(c) ==
    LET v == IF what[c] # None THEN what[c].version ELSE snap[c]
    IN  /\ pc[c] = "clear"
        /\ file' = [file EXCEPT ![v] = "none"]
        /\ handle' = [d \in Call |-> IF what[d].version = v /\ handle[d] = "final"
                                     THEN "gone" ELSE handle[d]]
        /\ Proceed(c, "clear_save")
        /\ UNCHANGED <<current, disk, latest, life, pending, stored, part, what, snap, ghost>>

ClearSave(c) ==
    /\ pc[c] = "clear_save"
    /\ Save(c, 0)
    /\ Proceed(c, "reset")
    /\ UNCHANGED <<current, disk, latest, life, pending, files, what, snap, crossed>>

\* The file cannot be removed or the state not be saved: nothing is reset.
ClearFails(c) ==
    /\ pc[c] \in {"clear", "clear_save"}
    /\ Return(c)
    /\ UNCHANGED <<current, disk, latest, life, pending, stored, files, ghost>>

Reset(c) ==
    /\ pc[c] = "reset"
    /\ phase' = "idle" /\ release' = None
    /\ Return(c)
    /\ crossed' = (crossed /\ \E d \in Call \ {c} : pc[d] # "ready")
    /\ UNCHANGED <<current, disk, latest, pending, stored, files, raced>>

\* set_auto_check
SetAutoLoad(c) ==
    /\ pc[c] = "ready"
    /\ Load(c) /\ Proceed(c, "auto_save")
    /\ UNCHANGED <<current, disk, latest, life, pending, stored, files, what, ghost>>

SetAutoSave(c) ==
    /\ pc[c] = "auto_save"
    /\ Save(c, snap[c])
    /\ Return(c)
    /\ UNCHANGED <<current, disk, latest, life, pending, files, crossed>>

-----------------------------------------------------------------------------
(* The world around                                                         *)

\* The release pipeline replaces the manifest of a source.
Publish(s) ==
    /\ \E v \in Version : v > latest[s] /\ latest' = [latest EXCEPT ![s] = v]
    /\ UNCHANGED <<current, disk, life, pending, stored, files, pc, what, snap, ghost>>

\* The application ends and starts again: UpdateManager::new and
\* cleanup_partial_files.
Restart ==
    /\ current' = disk
    /\ phase' = "idle" /\ release' = None
    /\ pending' = None
    /\ part' = [v \in Version |-> "none"]
    /\ handle' = [c \in Call |-> "none"]
    /\ pc' = [c \in Call |-> "ready"]
    /\ what' = [c \in Call |-> None]
    /\ snap' = [c \in Call |-> 0]
    /\ crossed' = FALSE
    /\ UNCHANGED <<disk, latest, stored, file, raced>>

Step(c) ==
    \/ AskGithub(c) \/ AskModelscope(c) \/ TakeAnswer(c) \/ AnswerTooLate(c)
    \/ PersistLoad(c) \/ PersistSave(c)
    \/ Fetch(c) \/ OpenPartial(c) \/ WriteAll(c) \/ Rename(c) \/ DownloadFails(c)
    \/ RecordLoad(c) \/ RecordSave(c) \/ SetPending(c) \/ SetDownloaded(c)
    \/ TakePending(c) \/ ReadStaged(c) \/ RunInstaller(c) \/ InstallFails(c)
    \/ RemoveStaged(c) \/ ClearSave(c) \/ ClearFails(c) \/ Reset(c)
    \/ SetAutoSave(c)

UpdatesNext ==
    \/ \E c \in Call : Step(c) \/ Check(c) \/ Download(c) \/ Install(c) \/ Clear(c)
                               \/ SetAutoLoad(c)
    \/ \E s \in Source : Publish(s)
    \/ Restart

UpdatesSpec == UpdatesInit /\ [][UpdatesNext]_updatesVars

-----------------------------------------------------------------------------
(* Properties                                                               *)

UpdatesTypeOK ==
    /\ current \in Version /\ disk \in Version
    /\ latest \in [Source -> Version]
    /\ phase \in {"idle", "checking", "up_to_date", "available", "downloading",
                  "downloaded", "installing", "failed"}
    /\ release \in Release \cup {None} /\ pending \in Release \cup {None}
    /\ stored \in Version
    /\ file \in [Version -> Bytes] /\ part \in [Version -> Bytes]
    /\ what \in [Call -> Release \cup {None, Failed}]
    /\ snap \in [Call -> Version]

\* As long as no clearing crosses another command, the package that is read for
\* installation is of the release the user saw when he confirmed: install takes
\* it from pending, the user was shown release.
InstallsWhatIsShown ==
    [][\A c \in Call :
          pc[c] = "read" /\ pc'[c] = "resolve" /\ ~crossed => what[c] = release]_updatesVars

\* A phase that keeps other commands and a data migration out belongs to a
\* command that is still at work, or to an installer that has started.
BusyIsOwned ==
    /\ phase = "checking" => \E c \in Call : pc[c] \in Checking
    /\ phase = "downloading" => \E c \in Call : pc[c] \in Fetching
    /\ phase = "installing" => \/ \E c \in Call : pc[c] \in Installing
                               \/ disk > current

\* As long as nobody saved state.json over a newer one and no clearing crossed
\* another command, it names the package that is ready to be installed, so that
\* a later process can still remove it.
StoreKept ==
    ~raced /\ ~crossed /\ pending # None /\ phase \in {"downloaded", "installing"} =>
        stored = pending.version

=============================================================================
