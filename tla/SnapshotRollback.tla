-------------------------- MODULE SnapshotRollback --------------------------
(***************************************************************************)
(* A dangerous task whose restore point is what a command printed: the     *)
(* snapshot that is taken, the task's command, and the command and the     *)
(* check build_snapshot_rollback_command makes out of the snapshot.        *)
(*                                                                         *)
(* A command on the server is a list of steps, run one at a time; it may   *)
(* be cut short after any of them, and the rollback asked for again.  What *)
(* the tools of the server do (systemctl, docker, swapon, ip...) is not    *)
(* code of the application: it is taken from how the application uses them.*)
(***************************************************************************)
EXTENDS FiniteSets, Sequences, Integers

CONSTANT Kind   \* kinds of things that are changed

ASSUME KindAssumption == Kind \subseteq {"setting", "permissions", "service", "policy",
                                         "container", "swap", "firewall", "address", "profile"}

VARIABLES
    kind,    \* what is changed, "none" before a task is started
    before,  \* what it was when the snapshot was taken
    now,     \* what it is
    script,  \* the steps of the current command that are left
    stage,   \* "idle", "task", "stopped", "rollback", "verified" or "unverified"
    hurt     \* a step of the rollback failed though it could be done

snapshotVars == <<kind, before, now, script, stage, hurt>>

\* A step of a command: "must" is followed by && (or by an exit), "next" by a
\* semicolon, "may" by || true; "lenient" by && in a list that ends with || true.
CommandStep(do, to, join) == [do |-> do, to |-> to, join |-> join]
Must(do) == CommandStep(do, "none", "must")
Then(do) == CommandStep(do, "none", "next")
May(do)  == CommandStep(do, "none", "may")

MaxSwap == 2   \* 32 GiB, of which a file of size 3 is beyond

-----------------------------------------------------------------------------
(* What the tools of the server do with each kind of thing: the states a   *)
(* step may lead to, none when it cannot be done                           *)

\* hostnamectl, timedatectl
SettingAfter(s, c) == {[s EXCEPT !.value = c.to]}

\* A change of the owner may take the set-user-ID bit away.
PermissionsAfter(s, c) ==
    IF c.do = "chown" THEN {[owner |-> c.to, mode |-> m] : m \in {s.mode, "plain"}}
    ELSE {[s EXCEPT !.mode = c.to]}

\* A stop leaves a service that has failed as it is.
ServiceAfter(s, c) ==
    {[s EXCEPT !.active = IF c.do = "start" THEN "active"
                          ELSE IF @ = "failed" THEN "failed" ELSE "inactive"]}

\* Links under /etc and under /run; some versions of disable remove both.
PolicyAfter(s, c) ==
    CASE c.do = "enable"  -> {t \in {[s EXCEPT !.wants = @ \cup {c.to}]} : s.masked = {}}
      [] c.do = "disable" -> {[s EXCEPT !.wants = @ \ {"etc"}], [s EXCEPT !.wants = {}]}
      [] c.do = "mask"    -> {[s EXCEPT !.masked = @ \cup {c.to}]}
      [] c.do = "unmask"  -> {[s EXCEPT !.masked = @ \ {c.to}]}

\* A paused container is neither started nor stopped.
ContainerAfter(s, c) ==
    {t \in [state : {"running", "paused", "stopped"}] :
        \/ c.do = "start"   /\ s.state # "paused" /\ t.state = "running"
        \/ c.do = "stop"    /\ s.state # "paused" /\ t.state = "stopped"
        \/ c.do = "pause"   /\ s.state = "running" /\ t.state = "paused"
        \/ c.do = "unpause" /\ s.state = "paused" /\ t.state = "running"}

NoFile == [exists |-> FALSE, active |-> FALSE, size |-> 0, content |-> "none"]

\* fallocate extends a file and never shortens it; a file that is in use as
\* swap space cannot be changed or removed.
SwapAfter(s, c) ==
    CASE c.do = "absent"    -> IF s.exists THEN {} ELSE {s}
      [] c.do = "present"   -> IF s.exists THEN {s} ELSE {}
      [] c.do = "fallocate" -> IF s.active THEN {}
                               ELSE {[exists |-> TRUE, active |-> FALSE,
                                      size |-> IF s.size > c.to THEN s.size ELSE c.to,
                                      content |-> IF s.exists THEN s.content ELSE "blank"]}
      [] c.do = "mkswap"    -> IF s.active \/ ~s.exists THEN {} ELSE {[s EXCEPT !.content = "swap"]}
      [] c.do = "swapon"    -> IF s.active \/ s.content # "swap" THEN {}
                               ELSE {[s EXCEPT !.active = TRUE]}
      [] c.do = "swapoff"   -> IF s.active THEN {[s EXCEPT !.active = FALSE]} ELSE {}
      [] c.do = "rm"        -> IF s.active THEN {} ELSE {NoFile}

\* Rules that carry the entry's marker, for the port of the task or for another
\* one; firewalld keeps them apart from those in force.  ufw deletes by number.
Rows(s) == Cardinality(s.rules) * (IF s.backend = "ufw6" THEN 2 ELSE 1)
FirewallAfter(s, c) ==
    LET Ruled(rules) == [s EXCEPT !.rules = rules,
                                  !.live = IF s.backend = "firewalld" THEN @ ELSE rules]
    IN  CASE c.do = "add"    -> {Ruled(s.rules \cup {"asked"})}
          [] c.do = "remove" -> {Ruled(s.rules \ {"asked"})}
          [] c.do = "delete" -> IF Rows(s) = 1 THEN {Ruled({})} ELSE {}
          [] c.do = "reload" -> {[s EXCEPT !.live = s.rules]}

\* Without an address there is no route; the last address may take it along.
AddressAfter(s, c) ==
    CASE c.do = "flush" -> {[s EXCEPT !.addresses = {}],
                            [addresses |-> {}, gateway |-> "none"]}
      [] c.do = "add"   -> {t \in {[s EXCEPT !.addresses = @ \cup {c.to}]} : c.to \notin s.addresses}
      [] c.do = "del"   -> {[s EXCEPT !.gateway = "none"]}
      [] c.do = "route" -> {t \in {[s EXCEPT !.gateway = c.to]} : s.addresses # {}}

\* A connection of NetworkManager and what the device has.
ProfileAfter(s, c) ==
    CASE c.do = "modify"  -> {[s EXCEPT !.profile = c.to]}
      [] c.do = "reapply" -> {[s EXCEPT !.device = s.profile]}
      [] c.do = "ip"      -> {[s EXCEPT !.device = c.to]}

StateAfter(s, c) ==
    CASE kind = "setting"     -> SettingAfter(s, c)
      [] kind = "permissions" -> PermissionsAfter(s, c)
      [] kind = "service"     -> ServiceAfter(s, c)
      [] kind = "policy"      -> PolicyAfter(s, c)
      [] kind = "container"   -> ContainerAfter(s, c)
      [] kind = "swap"        -> SwapAfter(s, c)
      [] kind = "firewall"    -> FirewallAfter(s, c)
      [] kind = "address"     -> AddressAfter(s, c)
      [] kind = "profile"     -> ProfileAfter(s, c)

\* A service that cannot be started has failed.
StateAfterFailure(s, c) ==
    {s} \cup {[t EXCEPT !.active = "failed"] : t \in {u \in {s} : kind = "service"}}

-----------------------------------------------------------------------------
(* The snapshot                                                            *)

\* What `systemctl is-enabled` and `is-active` (`service status`) report.
IsEnabled(s) ==
    IF s.masked # {} THEN IF "etc" \in s.masked THEN "masked" ELSE "masked-runtime"
    ELSE IF "etc" \in s.wants THEN "enabled"
    ELSE IF "run" \in s.wants THEN "enabled-runtime" ELSE "disabled"
IsActive(s) == IF s.manager = "service" /\ s.active = "failed" THEN "inactive" ELSE s.active

\* The states of each kind a snapshot is accepted of; with the others the task
\* ends before it changes anything.
ServiceAdmitted ==
    {s \in [manager : {"systemd", "service"}, active : {"active", "inactive", "failed"}] :
        IsActive(s) \in {"active", "inactive"}}

SwapAdmitted ==
    {s \in [exists : {TRUE}, active : BOOLEAN, size : 0 .. MaxSwap + 1, content : {"data", "swap"}] :
        s.size \in 1 .. MaxSwap /\ (s.active => s.content = "swap")}
    \cup {NoFile}

\* A rule of another port is refused with firewalld; with ufw and nft the snapshot
\* goes on after the test that finds it, and iptables asks for one exact rule.
FirewallAdmitted ==
    {s \in [backend : {"firewalld", "ufw", "ufw6", "nftables", "iptables"},
            rules : SUBSET {"asked", "other"}, live : SUBSET {"asked", "other"}] :
        /\ s.live = s.rules
        /\ s.backend = "firewalld" => "other" \notin s.rules
        /\ s.backend # "iptables" => s.rules # {"asked", "other"}}

AddressAdmitted ==
    {s \in [addresses : SUBSET {"old", "new"}, gateway : {"none", "old", "new"}] :
        s.addresses = {} => s.gateway = "none"}

Admitted(k) ==
    CASE k = "setting"     -> [value : {"old", "new"}]
      [] k = "permissions" -> [owner : {"old", "new"}, mode : {"plain", "special"}]
      [] k = "service"     -> ServiceAdmitted
      [] k = "policy"      -> [masked : SUBSET {"etc", "run"}, wants : SUBSET {"etc", "run"}]
      [] k = "container"   -> [state : {"running", "paused", "stopped"}]
      [] k = "swap"        -> SwapAdmitted
      [] k = "firewall"    -> FirewallAdmitted
      [] k = "address"     -> AddressAdmitted
      [] k = "profile"     -> {s \in [profile : {"old", "new"}, device : {"old", "new"}] :
                                  s.profile = s.device}

\* Whether the snapshot says that the rule is there.
Present(s) == IF s.backend = "iptables" THEN "asked" \in s.rules ELSE s.rules # {}

RemoveRule(s) == IF s.backend \in {"ufw", "ufw6", "nftables"} THEN "delete" ELSE "remove"
Reload(s) == IF s.backend = "firewalld" THEN <<Must("reload")>> ELSE <<>>

-----------------------------------------------------------------------------
(* The commands                                                            *)

SettingTask == {<<CommandStep("set", "new", "must")>>}

PermissionsTask ==
    {<<CommandStep("chown", o, "must"), CommandStep("chmod", m, "must")>> :
        o \in {"old", "new"}, m \in {"plain", "special"}}

\* A restart stops and starts.
ServiceTask == {<<Must("start")>>, <<Must("stop")>>, <<Then("stop"), Must("start")>>}

PolicyTask == {<<CommandStep(do, "etc", "must")>> : do \in {"enable", "disable"}}

ContainerTask ==
    {<<Must(do)>> : do \in {"start", "stop", "pause", "unpause"}}
    \cup {<<Must("stop"), Must("start")>>}

SwapTask ==
    {<<Must("absent"), CommandStep("fallocate", size, "must"), Must("mkswap"), Must("swapon")>> :
        size \in 1 .. MaxSwap}
    \cup {<<Must("present"), Must("swapon")>>, <<Must("present"), Must("swapoff")>>,
          <<Must("present"), May("swapoff"), Must("rm")>>}

FirewallTask(s) ==
    {(IF Present(s) THEN <<>> ELSE <<Must("add")>>) \o Reload(s),
     (IF Present(s) THEN <<Must(RemoveRule(s))>> ELSE <<>>) \o Reload(s)}

\* The steps of a change of the address (see IpChange) that touch the network.
AddressTask ==
    {<<CommandStep("add", "new", "next"), Then("flush"), CommandStep("add", "new", "next"),
       CommandStep("route", "new", "next")>>}
ProfileTask == {<<CommandStep("modify", "new", "next"), CommandStep("ip", "new", "next")>>}

\* The command of a task of each kind.
TaskCommand(k, s) ==
    CASE k = "setting"     -> SettingTask
      [] k = "permissions" -> PermissionsTask
      [] k = "service"     -> ServiceTask
      [] k = "policy"      -> PolicyTask
      [] k = "container"   -> ContainerTask
      [] k = "swap"        -> SwapTask
      [] k = "firewall"    -> FirewallTask(s)
      [] k = "address"     -> AddressTask
      [] k = "profile"     -> ProfileTask

SettingRollback(s) == <<CommandStep("set", s.value, "must")>>

PermissionsRollback(s) == <<CommandStep("chown", s.owner, "must"), CommandStep("chmod", s.mode, "must")>>

ServiceRollback(s) == <<Must(IF IsActive(s) = "active" THEN "start" ELSE "stop")>>

PolicyRollback(recorded) ==
    CASE recorded = "enabled"         -> <<CommandStep("unmask", "etc", "may"), CommandStep("enable", "etc", "must")>>
      [] recorded = "enabled-runtime" -> <<CommandStep("unmask", "run", "may"), CommandStep("enable", "run", "must")>>
      [] recorded = "disabled"        -> <<CommandStep("unmask", "etc", "may"), CommandStep("disable", "etc", "must")>>
      [] recorded = "masked"          -> <<CommandStep("mask", "etc", "must")>>
      [] recorded = "masked-runtime"  -> <<CommandStep("mask", "run", "must")>>

ContainerRollback(recorded, state) ==
    CASE recorded = state     -> <<>>
      [] recorded = "running" -> IF state = "paused" THEN <<Must("unpause")>> ELSE <<Must("start")>>
      [] recorded = "paused"  -> IF state = "running" THEN <<Must("pause")>>
                                 ELSE <<Must("start"), Must("pause")>>
      [] recorded = "stopped" -> IF state = "paused" THEN <<Must("unpause"), Must("stop")>>
                                 ELSE <<Must("stop")>>

\* Mutant: the file is not taken out of use first.
SwapRollbackInUse(s) ==
    IF ~s.exists THEN <<Must("rm")>>
    ELSE <<CommandStep("fallocate", s.size, "must"), Must("mkswap"),
           IF s.active THEN Must("swapon") ELSE May("swapoff")>>

\* For a file that was not in use the list ends with `swapoff || true`, which
\* takes the failure of any step before it for a success.
SwapRollback(s) ==
    LET join == IF s.active THEN "must" ELSE "lenient"
    IN  IF ~s.exists THEN <<May("swapoff"), Must("rm")>>
        ELSE <<May("swapoff"), CommandStep("fallocate", s.size, join),
               CommandStep("mkswap", "none", join),
               IF s.active THEN Must("swapon") ELSE May("swapoff")>>

FirewallRollback(s, t) ==
    (IF Present(s) THEN IF Present(t) THEN <<>> ELSE <<Then("add")>>
     ELSE IF Present(t) THEN <<Must(RemoveRule(s))>> ELSE <<>>) \o Reload(s)

\* The addresses in any order, then the routes.
AddressRollback(s) ==
    LET add == {<<>>} \cup {<<CommandStep("add", a, "next")>> : a \in s.addresses}
        adds == {as \in {a \o b : a, b \in add} :
                    {as[i].to : i \in 1 .. Len(as)} = s.addresses /\ Len(as) = Cardinality(s.addresses)}
    IN  {<<Then("flush")>> \o as \o <<May("del")>>
            \o (IF s.gateway = "none" THEN <<>> ELSE <<CommandStep("route", s.gateway, "next")>>) : as \in adds}

ProfileRollback(s) == <<CommandStep("modify", s.profile, "next"), Then("reapply")>>

\* build_snapshot_rollback_command: what restores s when the server is at t.
RollbackCommand(k, s, t) ==
    CASE k = "setting"     -> {SettingRollback(s)}
      [] k = "permissions" -> {PermissionsRollback(s)}
      [] k = "service"     -> {ServiceRollback(s)}
      [] k = "policy"      -> {PolicyRollback(IsEnabled(s))}
      [] k = "container"   -> {ContainerRollback(s.state, t.state)}
      [] k = "swap"        -> {SwapRollback(s)}
      [] k = "firewall"    -> {FirewallRollback(s, t)}
      [] k = "address"     -> AddressRollback(s)
      [] k = "profile"     -> {ProfileRollback(s)}

\* Its check.
Verifies(k, s, t) ==
    CASE k \in {"setting", "permissions", "container"} -> t = s
      [] k = "service"  -> IsActive(t) = IsActive(s)
      [] k = "policy"   -> IsEnabled(t) = IsEnabled(s)
      [] k = "swap"     -> /\ t.exists = s.exists /\ t.active = s.active /\ t.size = s.size
      [] k = "firewall" -> IF s.backend \in {"firewalld", "iptables"} THEN Present(t) = Present(s)
                           ELSE Rows(t) = IF Present(s) THEN 1 ELSE 0
      [] k = "profile"  -> t.profile = s.profile
      [] k = "address"  -> t.addresses = s.addresses /\ s.gateway \in {"none", t.gateway}

-----------------------------------------------------------------------------
(* The steps                                                               *)

SnapshotInit ==
    /\ kind = "none" /\ before = <<>> /\ now = <<>>
    /\ script = <<>> /\ stage = "idle" /\ hurt = FALSE

\* The snapshot is taken, and the task's command begins.
TakeSnapshot ==
    /\ stage = "idle"
    /\ \E k \in Kind : \E s \in Admitted(k) :
           kind' = k /\ before' = s /\ now' = s /\ script' \in TaskCommand(k, s)
    /\ stage' = "task"
    /\ UNCHANGED hurt

\* The rollback's command and check are sent, after the task or a rollback failed.
RollBack ==
    /\ stage \in {"stopped", "unverified"}
    /\ script' \in RollbackCommand(kind, before, now)
    /\ stage' = "rollback" /\ hurt' = FALSE
    /\ UNCHANGED <<kind, before, now>>

StepSucceeds ==
    /\ script # <<>>
    /\ now' \in StateAfter(now, Head(script))
    /\ script' = Tail(script)
    /\ UNCHANGED <<kind, before, stage, hurt>>

Fatal == \/ Head(script).join = "must"
         \/ Head(script).join = "next" /\ Len(script) = 1

\* A step fails: it ends the command with an error, or the command goes on after
\* it or after the whole list.
StepFails ==
    /\ script # <<>>
    /\ now' \in StateAfterFailure(now, Head(script))
    /\ script' = IF Fatal \/ Head(script).join = "lenient" THEN <<>> ELSE Tail(script)
    /\ stage' = IF ~Fatal THEN stage ELSE IF stage = "task" THEN "stopped" ELSE "unverified"
    /\ hurt' = (hurt \/ (stage = "rollback" /\ StateAfter(now, Head(script)) # {}))
    /\ UNCHANGED <<kind, before>>

\* The connection is lost, or the task is over.
CutShort ==
    /\ \/ stage = "task"
       \/ stage = "rollback" /\ script # <<>>
    /\ stage' = "stopped" /\ script' = <<>>
    /\ UNCHANGED <<kind, before, now, hurt>>

VerifyRollback ==
    /\ stage = "rollback" /\ script = <<>>
    /\ stage' = IF Verifies(kind, before, now) THEN "verified" ELSE "unverified"
    /\ UNCHANGED <<kind, before, now, script, hurt>>

SnapshotNext == TakeSnapshot \/ RollBack \/ StepSucceeds \/ StepFails \/ CutShort \/ VerifyRollback

SnapshotSpec == SnapshotInit /\ [][SnapshotNext]_snapshotVars

-----------------------------------------------------------------------------
(* What must hold                                                          *)

\* Nothing looks into a swap file: what was no swap space is made one by any
\* rollback that keeps it, and a file that was not in use may have stayed blank.
\* ufw and nft count the rules of the marker, whatever their port; and nothing
\* looks for a default route where none was recorded.
Overlooked ==
    \/ /\ kind = "swap" /\ (before.content = "data" \/ ~before.active)
       /\ \E content \in {"swap", "blank"} : now = [before EXCEPT !.content = content]
    \/ kind = "firewall" /\ "other" \in before.rules /\ before.backend \in {"ufw", "nftables"}
    \/ kind = "address" /\ before.gateway = "none" /\ now.addresses = before.addresses

\* systemctl stop leaves a failed service failed; a unit enabled for good still is
\* when it is enabled for this boot; and ufw lists a rule once per IP version.
OutOfReach ==
    \/ kind = "service" /\ IsActive(before) = "inactive" /\ IsActive(now) = "failed"
    \/ kind = "policy" /\ IsEnabled(before) = "enabled-runtime" /\ IsEnabled(now) = "enabled"
    \/ kind = "firewall" /\ before.backend = "ufw6"

\* Wherever a task was cut short, and a rollback before this one too: a rollback
\* that is verified has brought back everything its snapshot recorded, except what
\* its check overlooks; and one whose steps were not disturbed is verified, except
\* where the commands cannot reach the recorded state.
SnapshotsRestore ==
    /\ stage = "verified" =>
           \/ now = before
           \/ kind = "policy" /\ IsEnabled(now) = IsEnabled(before)
           \/ kind = "service" /\ IsActive(now) = IsActive(before)
           \/ Overlooked
    /\ stage = "unverified" /\ ~hurt => OutOfReach
=============================================================================
