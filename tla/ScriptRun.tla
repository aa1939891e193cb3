----------------------------- MODULE ScriptRun -----------------------------
(***************************************************************************)
(* Personal scripts: versions and the flags of a definition                *)
(* (ScriptRepository), and a run from its preview over the confirmation to *)
(* the status of its command (ScriptService).  Each run is a preview.      *)
(***************************************************************************)
EXTENDS Execution

CONSTANTS
    ScriptRuns,   \* the operation runs of scripts
    MaxVersions   \* bound on the versions of the script

ASSUME ScriptAssumption == ScriptRuns \subseteq Run /\ MaxVersions \in Nat \ {0} /\ MaxFailures \in Nat

VARIABLES
    script,     \* the definition: active version, number of versions, enabled, deleted
    preview,    \* ScriptService::previews: the version of each, or 0
    active,     \* ScriptService::active
    using,      \* the version the confirmed run has in hand, or 0
    shown,      \* history: the version the user was shown for a run
    began,      \* history: the version whose command was sent, or 0
    allowed     \* history: the script was enabled while the run was confirmed

scriptVars == <<script, preview, active, using, shown, began, allowed>>

\* Imports and copies are created disabled, others as the user says.
ScriptInit ==
    /\ script \in [active : {1}, versions : {1}, enabled : BOOLEAN, deleted : BOOLEAN]
    /\ script.deleted => ~script.enabled
    /\ preview = [r \in ScriptRuns |-> 0] /\ active = {}
    /\ using = [r \in ScriptRuns |-> 0] /\ shown = [r \in ScriptRuns |-> 0]
    /\ began = [r \in ScriptRuns |-> 0] /\ allowed = {}

Usable == script.enabled /\ ~script.deleted

Confirming(r) == step[r] \in {"check", "version", "start", "record", "activate"}

Untouched == UNCHANGED execVars
Rows == UNCHANGED <<exec, token, parent, end, remote>>

-----------------------------------------------------------------------------
(* The definition                                                           *)

Edit(new) ==
    /\ ~script.deleted /\ script' = new
    /\ allowed' = IF new.enabled THEN allowed \cup {r \in ScriptRuns : Confirming(r)} ELSE allowed
    /\ UNCHANGED <<preview, active, using, shown, began>> /\ Untouched

\* The next number, and the new version is the active one: one transaction.
SaveVersion ==
    /\ script.versions < MaxVersions
    /\ Edit([script EXCEPT !.versions = @ + 1, !.active = script.versions + 1])

SetEnabled == Edit([script EXCEPT !.enabled = ~@])

SoftDelete == Edit([script EXCEPT !.deleted = TRUE, !.enabled = FALSE])

-----------------------------------------------------------------------------
(* A run                                                                    *)

\* preview_run: the row in three transitions, then the entry with the version
PreviewRun(r) ==
    /\ At(r, "idle") /\ run[r] = "none" /\ Usable
    /\ \/ /\ Set(r, "waiting_confirmation")
          /\ preview' = [preview EXCEPT ![r] = script.active]
          /\ shown' = [shown EXCEPT ![r] = script.active]
          /\ UNCHANGED failures
       \/ Fails /\ Set(r, "preview_ready") /\ UNCHANGED <<preview, shown>>
    /\ UNCHANGED <<step, script, active, using, began, allowed>> /\ Rows

\* consume_preview: the entry is taken out; an old one cancels the run.
Consume(r) ==
    /\ preview[r] # 0
    /\ preview' = [preview EXCEPT ![r] = 0]
    /\ \/ /\ using' = [using EXCEPT ![r] = preview[r]]
          /\ allowed' = IF script.enabled THEN allowed \cup {r} ELSE allowed
          /\ Move(r, "check") /\ UNCHANGED <<run, failures>>
       \/ /\ Transition(r, "waiting_confirmation", "cancelled") \/ NoTransition(r, "waiting_confirmation")
          /\ UNCHANGED <<step, using, allowed>>
    /\ UNCHANGED <<script, active, shown, began>> /\ Rows

Done(r) == Move(r, "idle")

\* require_enabled
CheckEnabled(r) ==
    /\ At(r, "check")
    /\ \/ Usable /\ Move(r, "version") /\ UNCHANGED <<run, failures>>
       \/ /\ ~Usable /\ Done(r)
          /\ Transition(r, "waiting_confirmation", "cancelled") \/ NoTransition(r, "waiting_confirmation")
    /\ UNCHANGED scriptVars /\ Rows

\* Mutant: the version that is active now.
GetActiveVersion(r) ==
    /\ At(r, "version")
    /\ using' = [using EXCEPT ![r] = script.active] /\ Move(r, "start") /\ UNCHANGED failures
    /\ UNCHANGED <<script, preview, active, shown, began, allowed, run>> /\ Rows

\* get_version by number.  On an error the preview is used up and its row waits
\* for a confirmation for ever.
GetVersion(r) ==
    /\ At(r, "version")
    /\ \/ Move(r, "start") /\ UNCHANGED failures
       \/ Fails /\ Done(r)
    /\ UNCHANGED scriptVars /\ UNCHANGED run /\ Rows

\* start_confirmed_unrecoverable_personal_script
StartConfirmed(r) ==
    /\ At(r, "start")
    /\ \/ Transition(r, "waiting_confirmation", "running") /\ Move(r, "record")
       \/ NoTransition(r, "waiting_confirmation") /\ Done(r)
    /\ UNCHANGED scriptVars /\ Rows

RecordRun(r) ==
    /\ At(r, "record")
    /\ \/ Move(r, "activate") /\ UNCHANGED <<run, failures>>
       \/ Fails /\ Set(r, "failed") /\ Done(r)
    /\ UNCHANGED scriptVars /\ Rows

Activate(r) ==
    /\ At(r, "activate")
    /\ active' = active \cup {r}
    /\ Move(r, "create")
    /\ UNCHANGED <<run, failures, script, preview, using, shown, began, allowed>> /\ Rows

\* The command that Execution sends is the script in hand.
ScriptClientStep(r) ==
    /\ ClientStep(r)
    /\ began' = IF remote'[r] # remote[r] THEN [began EXCEPT ![r] = using[r]] ELSE began
    /\ UNCHANGED <<script, preview, active, using, shown, allowed>>

\* The row of the run gets the status of the execution.
Settle(r) ==
    LET status == IF Result(r) = "error" THEN "failed" ELSE Result(r)
    IN  /\ At(r, "executed")
        /\ active' = active \ {r}
        /\ Transition(r, "running", status) \/ NoTransition(r, "running")
        /\ Done(r)
        /\ UNCHANGED <<script, preview, using, shown, began, allowed>> /\ Rows

\* cancel_run: a preview that is left, or the token of a run that is active.  A
\* run between the two cannot be cancelled.
CancelPreview(r) ==
    /\ preview[r] # 0
    /\ preview' = [preview EXCEPT ![r] = 0]
    /\ Transition(r, "waiting_confirmation", "cancelled") \/ NoTransition(r, "waiting_confirmation")
    /\ UNCHANGED <<step, script, active, using, shown, began, allowed>> /\ Rows

CancelActive(r) ==
    /\ r \in active
    /\ parent' = [parent EXCEPT ![r] = TRUE]
    /\ UNCHANGED <<run, exec, step, token, end, remote, failures>> /\ UNCHANGED scriptVars

\* The previews and tokens are gone; Recover does the rows.
RecoverScripts ==
    /\ preview' = [r \in ScriptRuns |-> 0] /\ active' = {}
    /\ UNCHANGED <<script, using, shown, began, allowed>>

DefinitionStep == SaveVersion \/ SetEnabled \/ SoftDelete

ConfirmStep(r) ==
    \/ CheckEnabled(r) \/ GetVersion(r) \/ StartConfirmed(r) \/ RecordRun(r) \/ Activate(r)
    \/ Settle(r)

UserStep(r) == PreviewRun(r) \/ Consume(r) \/ CancelPreview(r) \/ CancelActive(r)

-----------------------------------------------------------------------------
(* Properties                                                               *)

\* The command of a script is the version that the user was shown and has
\* confirmed, whatever was saved in between, and the script was enabled at some
\* moment of the confirmation.
RunsWhatWasShown ==
    \A r \in ScriptRuns : began[r] # 0 => began[r] = shown[r] /\ r \in allowed

=============================================================================
