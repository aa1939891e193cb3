------------------------------ MODULE IpChange ------------------------------
(***************************************************************************)
(* A change of the server's IP address (network.ip_change): the run that   *)
(* arms a timer on the server, adds the new address, connects to it and    *)
(* makes it permanent; the script the timer starts; the inspection of a    *)
(* run whose end is uncertain; other users of the connection pool.         *)
(*                                                                         *)
(* The commands are shell lines joined by ';' without 'set -e': a line or  *)
(* a test in them that fails stops nothing, and their exit status is that  *)
(* of their last echo, which is all the client looks at.  Each line that   *)
(* changes the server is a step, and may fail; a command goes on when the  *)
(* client gives it up, or dies at any line.  The timer's script has        *)
(* 'set -e': a line of it that fails is its last.                          *)
(***************************************************************************)
EXTENDS SessionPool

CONSTANTS
    Main,        \* the run's call
    Inspector,   \* calls of inspect_uncertain
    Browser,     \* any other users of the pool
    Old, New,    \* the two addresses
    Machine,     \* the server's key
    Lost         \* addresses another machine may be given once they are free

ASSUME IpChangeAssumption == /\ Caller = {Main} \cup Inspector \cup Browser
                             /\ {Old, New} = Addr /\ Old # New /\ Machine \in Key
                             /\ Lost \subseteq Addr
                             /\ Main \notin Inspector /\ NoKey \notin Key

VARIABLES
    run,        \* status in operation_runs
    point,      \* status in operation_restore_points
    step,       \* where each client is
    command,    \* the line a client's command is at on the server
    state,      \* the file "state" of the recovery directory
    committed,  \* the file "committed"
    config,     \* the address in the configuration of the network
    gateway,    \* the address whose default route the server has
    script,     \* the timer and the script it starts
    armed,      \* history: the timer has been set
    crossed,    \* history: a command changed the network after the script began
    passed      \* history: a command has got past its line of the flag

client == <<run, point, step>>
server == <<state, committed, config, gateway, script, armed, crossed, passed>>
ipVars == <<client, command, server>>
vars   == <<poolVars, ipVars>>

Commander == {Main} \cup Inspector

NoRoute == "no route"

Init ==
    /\ PoolInit(Old, Machine)
    /\ answers = [a \in Addr |-> IF a = Old THEN Machine ELSE NoKey]
    /\ run = "running" /\ point = "available"
    /\ step = [c \in Commander |-> IF c = Main THEN "arm" ELSE "done"]
    /\ command = [c \in Commander |-> "none"]
    /\ state = "none" /\ committed = FALSE /\ config = Old /\ gateway = Old
    /\ script = "idle" /\ armed = FALSE /\ crossed = FALSE /\ passed = FALSE

Addresses == {a \in Addr : answers[a] = Machine}

Move(c, label) == step' = [step EXCEPT ![c] = label]

ScriptBegun == script \notin {"idle", "scheduled"}

-----------------------------------------------------------------------------
(* Commands on the server                                                   *)

\* arm_command, apply_command and finalize_command
NextLine == [capture |-> "schedule", schedule |-> "ok",
             add |-> "stage", stage |-> "ok",
             persist |-> "reapply", reapply |-> "flush", flush |-> "add_new", add_new |-> "route",
             route |-> "flag", flag |-> "commit", commit |-> "cancel", cancel |-> "ok"]

GoOn(c) == command' = [command EXCEPT ![c] = NextLine[command[c]]]
Line(c, line) == command[c] = line /\ GoOn(c)

\* A line that fails changes nothing, and the next one is run.
LineFails(c) ==
    /\ command[c] \in DOMAIN NextLine
    /\ GoOn(c)
    /\ passed' = (passed \/ command[c] = "flag")
    /\ UNCHANGED <<state, committed, config, gateway, script, armed, crossed, answers>>

\* Private directory, script, capture of the network, state; when a line of it
\* fails there is nothing for the lines below to write to.
HasDirectory == state # "none"

Capture(c) ==
    /\ Line(c, "capture")
    /\ state' = "armed"
    /\ UNCHANGED <<committed, config, gateway, script, armed, crossed, passed, answers>>

\* systemd-run or at, for a script that is there
Schedule(c) ==
    /\ Line(c, "schedule")
    /\ armed' = HasDirectory
    /\ script' = IF HasDirectory THEN "scheduled" ELSE script
    /\ UNCHANGED <<state, committed, config, gateway, crossed, passed, answers>>

Gone(a) == IF Reaches(a, Machine) THEN NoKey ELSE answers[a]

\* A line that changes the network
Changes(c, line) ==
    /\ Line(c, line)
    /\ crossed' = (crossed \/ ScriptBegun)
    /\ UNCHANGED <<state, committed, script, armed, passed>>

AddAddress(c) ==
    /\ Changes(c, "add")
    /\ answers' = [answers EXCEPT ![New] = Machine]
    /\ UNCHANGED <<config, gateway>>

Write(s) == state' = IF HasDirectory THEN s ELSE state

Stage(c) ==
    /\ Line(c, "stage")
    /\ Write("staged")
    /\ UNCHANGED <<committed, config, gateway, script, armed, crossed, passed, answers>>

Persist(c) ==
    /\ Changes(c, "persist")
    /\ config' = New
    /\ UNCHANGED <<gateway, answers>>

\* nmcli device reapply, netplan apply: the network becomes what is configured.
\* The configuration files of the third backend have no such line.
Reapply(c) ==
    /\ Changes(c, "reapply")
    /\ \/ /\ answers' = [a \in Addr |-> IF a = config THEN Machine ELSE Gone(a)]
          /\ gateway' = config
       \/ UNCHANGED <<answers, gateway>>
    /\ UNCHANGED config

\* The default route goes with the last address.
Flush(c) ==
    /\ Changes(c, "flush")
    /\ answers' = [a \in Addr |-> Gone(a)]
    /\ gateway' = NoRoute
    /\ UNCHANGED config

AddNew(c) ==
    /\ Changes(c, "add_new")
    /\ answers' = [answers EXCEPT ![New] = Machine]
    /\ UNCHANGED <<config, gateway>>

Route(c) ==
    /\ Changes(c, "route")
    /\ gateway' = IF New \in Addresses THEN New ELSE gateway
    /\ UNCHANGED <<config, answers>>

\* Mutant: the timer is stopped before the flag is there.
FlagAfterCancel(c) ==
    /\ Line(c, "flag")
    /\ script' = IF script = "scheduled" THEN "idle" ELSE script
    /\ UNCHANGED <<state, committed, config, gateway, armed, crossed, passed, answers>>

\* The tests of the addresses and the route before it stop nothing.
Flag(c) ==
    /\ Line(c, "flag")
    /\ committed' = HasDirectory
    /\ passed' = TRUE
    /\ crossed' = (crossed \/ ScriptBegun)
    /\ UNCHANGED <<state, config, gateway, script, armed, answers>>

CommitState(c) ==
    /\ Line(c, "commit")
    /\ Write("committed")
    /\ UNCHANGED <<committed, config, gateway, script, armed, crossed, passed, answers>>

CancelTimer(c) ==
    /\ Line(c, "cancel")
    /\ script' = IF script = "scheduled" THEN "idle" ELSE script
    /\ UNCHANGED <<state, committed, config, gateway, armed, crossed, passed, answers>>

\* The shell is killed with its connection.
CommandDies(c) ==
    /\ command[c] \in DOMAIN NextLine /\ step[c] \notin {"arming", "applying", "finalizing"}
    /\ command' = [command EXCEPT ![c] = "none"]
    /\ UNCHANGED <<server, answers>>

CommandStep(c) ==
    /\ \/ Capture(c) \/ Schedule(c) \/ AddAddress(c) \/ Stage(c) \/ Persist(c) \/ Reapply(c) \/ Flush(c)
       \/ AddNew(c) \/ Route(c) \/ Flag(c) \/ CommitState(c) \/ CancelTimer(c)
       \/ LineFails(c) \/ CommandDies(c)
    /\ UNCHANGED <<client, records, pool, calls>>

-----------------------------------------------------------------------------
(* The script the timer starts                                              *)

Undoing == {"config", "flush", "addresses", "routes", "state"}

\* Mutant: the script does not look at the flag.
FireAnyway ==
    /\ script = "scheduled"
    /\ script' = "config"
    /\ UNCHANGED <<state, config, gateway, answers>>

Fire ==
    /\ script = "scheduled"
    /\ script' = IF committed THEN "idle" ELSE "config"
    /\ UNCHANGED <<state, config, gateway, answers>>

\* What the backend then applies is flushed by the line after it.
RestoreConfig ==
    /\ script = "config"
    /\ config' = Old
    /\ script' = "flush"
    /\ UNCHANGED <<state, gateway, answers>>

FlushAll ==
    /\ script = "flush"
    /\ answers' = [a \in Addr |-> Gone(a)]
    /\ gateway' = NoRoute
    /\ script' = "addresses"
    /\ UNCHANGED <<state, config>>

RestoreAddresses ==
    /\ script = "addresses"
    /\ answers' = [answers EXCEPT ![Old] = Machine]
    /\ script' = "routes"
    /\ UNCHANGED <<state, config, gateway>>

RestoreRoutes ==
    /\ script = "routes"
    /\ gateway' = Old
    /\ script' = "state"
    /\ UNCHANGED <<state, config, answers>>

RestoreState ==
    /\ script = "state"
    /\ state' = "rolled_back"
    /\ script' = "done"
    /\ UNCHANGED <<config, gateway, answers>>

ScriptStops ==
    /\ script \in Undoing
    /\ script' = "stopped"
    /\ UNCHANGED <<state, config, gateway, answers>>

ScriptStep ==
    /\ \/ Fire \/ RestoreConfig \/ FlushAll \/ RestoreAddresses \/ RestoreRoutes \/ RestoreState
       \/ ScriptStops
    /\ UNCHANGED <<committed, armed, crossed, passed, client, command, records, pool, calls>>

\* Another machine is given an address that has become free.
AddressTaken(a) ==
    /\ answers[a] = NoKey
    /\ \E k \in Key \ {Machine} : answers' = [answers EXCEPT ![a] = k]
    /\ UNCHANGED <<ipVars, records, pool, calls>>

\* trust_host_key: the machine that answers at the address on record, or at the
\* one that was when the call read it, is trusted from now on.
TrustKey(a) ==
    /\ a \in {Old, host} /\ answers[a] # NoKey
    /\ UpdateKey(answers[a])
    /\ UNCHANGED ipVars

-----------------------------------------------------------------------------
(* Clients                                                                  *)

Quiet == UNCHANGED <<command, server>>

\* connect for a command, an inspection or any other use
Ask(c) ==
    /\ \/ c \in Browser
       \/ c \in Commander /\ step[c] \in {"arm", "apply", "probe", "inspect"}
    /\ Begin(c)
    /\ UNCHANGED client /\ Quiet

Leave(c) ==
    /\ c \in Browser /\ link[c] \in {"ok", "failed"}
    /\ Hangup(c)
    /\ UNCHANGED <<records, answers, pool, lock, wanted, client>> /\ Quiet

Send(c, line) == command' = [command EXCEPT ![c] = line]

\* execute_planned_step_with_cancel: connect, then the command
SendStep(c) ==
    LET next == [arm |-> <<"arming", "capture">>, apply |-> <<"applying", "add">>]
    IN  /\ c = Main /\ step[c] \in DOMAIN next
        /\ link[c] = "ok" /\ Reaches(got[c].host, Machine)
        /\ Move(c, next[step[c]][1])
        /\ Send(c, next[step[c]][2])
        /\ Hangup(c)
        /\ UNCHANGED <<records, answers, pool, lock, wanted, run, point, server>>

\* A failed connection or a lost answer: the run is uncertain.
StepUncertain(c) ==
    /\ c = Main
    /\ \/ step[c] \in {"arm", "apply"} /\ link[c] = "failed"
       \/ step[c] \in {"arming", "applying"}
    /\ run' = "uncertain"
    /\ Move(c, "done")
    /\ Hangup(c)
    /\ UNCHANGED <<records, answers, pool, lock, wanted, point>> /\ Quiet

\* Cancelled before a step or in it, or refused by the server: the run goes to
\* the rollback of OperationRun, and the command and the timer to their end.
StepCancelled(c) ==
    /\ c = Main
    /\ \/ step[c] \in {"arm", "apply"} /\ link[c] = "idle"
       \/ step[c] \in {"arming", "applying"}
    /\ run' = "cancelled"
    /\ Move(c, "done")
    /\ UNCHANGED <<poolVars, point>> /\ Quiet

StepDone(c) ==
    LET next == [arming |-> "apply", applying |-> "verify"]
    IN  /\ c = Main /\ step[c] \in DOMAIN next
        /\ command[c] = "ok" /\ Reaches(Old, Machine)
        /\ run' = IF step[c] = "applying" THEN "verifying" ELSE run
        /\ Move(c, next[step[c]])
        /\ Send(c, "none")
        /\ UNCHANGED <<poolVars, point, server>>

\* finalize_ip_change: connect_at_verified_ip, without the pool
Finalize(c) ==
    /\ c \in Commander /\ step[c] \in {"verify", "staged"}
    /\ Reaches(New, trusted) /\ Reaches(New, Machine)
    /\ Move(c, "finalizing")
    /\ Send(c, "persist")
    /\ UNCHANGED <<poolVars, run, point, server>>

FinalizeDone(c) ==
    /\ c \in Commander /\ step[c] = "finalizing"
    /\ command[c] = "ok" /\ Reaches(New, Machine)
    /\ Move(c, "record")
    /\ Send(c, "none")
    /\ UNCHANGED <<poolVars, run, point, server>>

\* No connection to the new address, or no answer.  The run is uncertain; an
\* inspection that found "staged" stays with that.
FinalizeFails(c) ==
    /\ c \in Commander /\ step[c] \in {"verify", "staged", "finalizing"}
    /\ run' = IF c = Main THEN "uncertain" ELSE run
    /\ Move(c, "done")
    /\ UNCHANGED <<poolVars, point>> /\ Quiet

\* commit_verified_host_change: update_host, then invalidate
RecordHost(c) ==
    /\ c \in Commander /\ step[c] = "record"
    /\ UpdateHost(New)
    /\ Move(c, "invalidate")
    /\ UNCHANGED <<run, point>> /\ Quiet

InvalidatePool(c) ==
    /\ c \in Commander /\ step[c] = "invalidate"
    /\ Invalidate
    /\ Move(c, "result")
    /\ UNCHANGED <<run, point>> /\ Quiet

\* set_result only writes to a run that is running or verifying: the run ends,
\* an inspection fails here, and what it has left to do is never reached.
SetResult(c) ==
    /\ c \in Commander /\ step[c] = "result"
    /\ run' = IF c = Main THEN "succeeded" ELSE run
    /\ c = Main => run = "verifying"
    /\ Move(c, "done")
    /\ UNCHANGED <<poolVars, point>> /\ Quiet

-----------------------------------------------------------------------------
(* reconcile_ip_change                                                      *)

Inspect(i) ==
    /\ i \in Inspector /\ step[i] = "done" /\ run = "uncertain"
    /\ Move(i, "probe")
    /\ UNCHANGED <<poolVars, run, point>> /\ Quiet

\* The recorded address answers, and the inspection connects to it again; or it
\* does not, and the new one has to.
Probed(i) ==
    /\ i \in Inspector /\ step[i] = "probe" /\ link[i] \in {"ok", "failed"}
    /\ Move(i, IF link[i] = "ok" THEN "inspect"
               ELSE IF Reaches(New, trusted) THEN "inspect_new" ELSE "done")
    /\ Hangup(i)
    /\ UNCHANGED <<records, answers, pool, lock, wanted, run, point>> /\ Quiet

\* parse_ip_recovery_state
ParseState ==
    IF \/ state \in {"armed", "staged", "rolled_back"} /\ ~committed
       \/ state = "committed" /\ committed
    THEN state ELSE "broken"

\* Mutant: a staged change is taken for a confirmed one.
AfterStateEager == [staged |-> "record", committed |-> "record", rolled_back |-> "observed",
                    armed |-> "done", broken |-> "done", none |-> "done"]

AfterState == [staged |-> "staged", committed |-> "record", rolled_back |-> "observed",
               armed |-> "done", broken |-> "done", none |-> "done"]

\* inspect_command
ReadState(i) ==
    /\ i \in Inspector
    /\ \/ step[i] = "inspect" /\ link[i] = "ok" /\ Reaches(got[i].host, Machine)
       \/ step[i] = "inspect_new" /\ Reaches(New, trusted) /\ Reaches(New, Machine)
    /\ Move(i, AfterState[ParseState])
    /\ Hangup(i)
    /\ UNCHANGED <<records, answers, pool, lock, wanted, run, point>> /\ Quiet

ReadFails(i) ==
    /\ i \in Inspector
    /\ \/ step[i] = "inspect" /\ link[i] \in {"ok", "failed"}
       \/ step[i] = "inspect_new"
    /\ Move(i, "done")
    /\ Hangup(i)
    /\ UNCHANGED <<records, answers, pool, lock, wanted, run, point>> /\ Quiet

\* mark_remote_rollback_observed: refused when the point is used up
ObserveRollback(i) ==
    /\ i \in Inspector /\ step[i] = "observed"
    /\ point' = "rolled_back"
    /\ Move(i, IF point = "available" THEN "result" ELSE "done")
    /\ UNCHANGED <<poolVars, run>> /\ Quiet

-----------------------------------------------------------------------------
(* The application exits and is opened again: recover_interrupted           *)

ExitAndOpen ==
    /\ run' = IF run \in {"running", "verifying"} THEN "uncertain" ELSE run
    /\ step' = [c \in Commander |-> "done"]
    /\ pool' = NoSession /\ lock' = NoOne
    /\ link' = [c \in Caller |-> "idle"]
    /\ wanted' = [c \in Caller |-> NoSession]
    /\ got' = [c \in Caller |-> NoSession]
    /\ since' = [c \in Caller |-> {}]
    /\ UNCHANGED <<records, answers, point, command, server>>

PoolStep ==
    /\ \E c \in Caller : ConnectStep(c)
    /\ UNCHANGED ipVars

ClientStep(c) ==
    \/ Ask(c) \/ Leave(c) \/ SendStep(c) \/ StepUncertain(c) \/ StepCancelled(c) \/ StepDone(c) \/ Finalize(c)
    \/ FinalizeDone(c) \/ FinalizeFails(c) \/ RecordHost(c) \/ InvalidatePool(c) \/ SetResult(c)
    \/ Inspect(c) \/ Probed(c) \/ ReadState(c) \/ ReadFails(c) \/ ObserveRollback(c)

Next ==
    \/ PoolStep \/ ScriptStep \/ ExitAndOpen
    \/ \E c \in Caller : ClientStep(c)
    \/ \E c \in Commander : CommandStep(c)
    \/ \E a \in Lost : AddressTaken(a)
    \/ \E a \in Addr : TrustKey(a)

Spec == Init /\ [][Next]_vars

-----------------------------------------------------------------------------
(* Properties                                                               *)

TypeOK ==
    /\ PoolTypeOK
    /\ run \in {"running", "verifying", "succeeded", "uncertain", "cancelled"}
    /\ point \in {"available", "rolled_back"}
    /\ state \in {"none", "armed", "staged", "committed", "rolled_back"}
    /\ config \in Addr /\ gateway \in Addr \cup {NoRoute}
    /\ script \in {"idle", "scheduled", "done", "stopped"} \cup Undoing

\* The recorded address is only changed once a finalizing command has got to
\* its line of the flag, over a connection to the new address: whether the run
\* or an inspection changes it, and whatever answer was lost before.
HostIsConfirmed == host = New => passed

\* A run that has succeeded has changed the record, and the server has the new
\* address, unless the timer's script takes it away, which then has looked for
\* the flag before a command wrote it or where none could be written.
SucceededIsReached ==
    run = "succeeded" => /\ host = New
                         /\ New \in Addresses \/ (ScriptBegun /\ (crossed \/ ~committed))

\* Once the timer was set, a network that has been changed and not confirmed is
\* still going to be restored, or its script has failed at a line of its own,
\* whatever became of the client and of the lines of its commands.
ChangeIsGuarded ==
    armed /\ ~crossed /\ ~passed /\ (config # Old \/ Addresses # {Old} \/ gateway # Old)
        => script \in {"scheduled", "stopped"} \cup (Undoing \ {"state"})

\* What the plan of the operations says of an IP change: it is verified by the
\* new connection, the address and the route, and only then a success.
SuccessIsVerified ==
    run = "succeeded" => config = New /\ Addresses = {New} /\ gateway = New

=============================================================================
