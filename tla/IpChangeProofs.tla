--------------------------- MODULE IpChangeProofs ---------------------------
(***************************************************************************)
(* Proofs about IpChange and the SessionPool under it, for any number of   *)
(* inspections, users of the pool, machines and exits: sessions are for    *)
(* what is on record, the record follows the server, and a change that is  *)
(* not confirmed is taken back.                                            *)
(***************************************************************************)
EXTENDS IpChange, TLAPS

\* The types TypeOK leaves open.
Steps == {"arm", "arming", "apply", "applying", "verify", "finalizing", "record", "invalidate", "result",
          "probe", "inspect", "inspect_new", "staged", "observed", "done"}
Lines == {"none", "capture", "schedule", "add", "stage", "persist", "reapply", "flush", "add_new", "route", "flag",
          "commit", "cancel", "ok"}
Scripts == {"idle", "scheduled", "done", "stopped"} \cup Undoing
Identity == [host : Addr \cup {"none"}, key : Key \cup {NoKey}]

TypeInv ==
    /\ TypeOK
    /\ wanted \in [Caller -> Identity]
    /\ since \in [Caller -> SUBSET (Addr \cup Key)]
    /\ step \in [Commander -> Steps] /\ command \in [Commander -> Lines]
    /\ committed \in BOOLEAN /\ armed \in BOOLEAN /\ crossed \in BOOLEAN /\ passed \in BOOLEAN

-----------------------------------------------------------------------------
(* Sessions.                                                               *)

\* What a call of connect wants, and has got, was on record since it began.
Current(c) ==
    /\ link[c] \in {"key", "choose", "put"} => /\ wanted[c].host \in Addr
                                               /\ {wanted[c].host, trusted} \subseteq since[c]
    /\ link[c] \in {"choose", "put"} => wanted[c].key \in Key /\ wanted[c].key \in since[c]
    /\ link[c] = "put" => got[c] = wanted[c]
    /\ link[c] = "ok" => {got[c].host, got[c].key} \subseteq since[c]

SessionInv == \A c \in Caller : Current(c)

-----------------------------------------------------------------------------
(* The change.                                                             *)

\* The network as it was.
Before == config = Old /\ Addresses = {Old} /\ gateway = Old

\* The new address is there, unless the script takes it away: it has begun
\* before the flag was written, or without one.
Reached == New \in Addresses \/ (ScriptBegun /\ (crossed \/ ~committed))

\* What a client knows of its command, and the lines a command may be at.
Confirms(c) ==
    /\ step[c] = "record" => passed
    /\ step[c] = "finalizing" => command[c] \in {"persist", "reapply", "flush", "add_new", "route", "flag", "commit",
                                                 "cancel", "ok"}
    /\ command[c] \in {"commit", "cancel"} => passed
    /\ step[c] = "finalizing" /\ command[c] = "ok" => passed
    /\ c # Main => command[c] \notin {"capture", "schedule", "add", "stage"}

\* The run: nobody inspects it before it is uncertain, and once its last command
\* is through it has reached the new address and sends no other.
Alone == \A i \in Inspector : step[i] = "done" /\ command[i] = "none"

Succeeds ==
    /\ run \in {"running", "verifying", "succeeded"} => Alone
    /\ step[Main] # "done" => run \in {"running", "verifying"}
    /\ run = "succeeded" => step[Main] = "done" /\ command[Main] = "none" /\ Reached /\ host = New
    /\ step[Main] \in {"record", "invalidate", "result"} => command[Main] = "none" /\ Reached
    /\ step[Main] \in {"invalidate", "result"} => host = New

\* The record, the flag, the timer and its script.
Guarded ==
    /\ step[Main] = "arm" => command[Main] = "none"
    /\ step[Main] = "arm" \/ command[Main] \in {"capture", "schedule"} => script = "idle" /\ ~armed
    /\ host = New \/ committed => passed
    /\ armed /\ script = "idle" => passed
    /\ ScriptBegun /\ committed => crossed
    /\ ~crossed /\ script \in {"flush", "addresses", "routes"} => config = Old
    /\ ~crossed /\ script = "addresses" => Addresses = {}
    /\ ~crossed /\ script = "routes" => Addresses = {Old}
    /\ ~crossed /\ script \in {"state", "done"} => Before

ChangeInv == Guarded /\ Succeeds /\ \A c \in Commander : Confirms(c)

IpInv == TypeInv /\ SessionInv /\ ChangeInv

-----------------------------------------------------------------------------
(* Types.                                                                  *)

LEMMA Parties ==
    /\ Main \in Commander /\ Commander \subseteq Caller /\ Inspector \subseteq Commander
    /\ Old \in Addr /\ New \in Addr /\ Old # New /\ Addr = {Old, New}
    /\ Machine \in Key /\ Machine # NoKey /\ NoSession \in Session /\ NoSession \in Identity
    /\ NoSession.host = "none" /\ NoSession.key = NoKey
BY IpChangeAssumption DEF Commander, Session, Identity, NoSession

\* A call of connect takes another place, and keeps the type of its session.
LEMMA TypeConnect ==
    ASSUME TypeInv, SessionInv, NEW c \in Caller, ConnectStep(c), UNCHANGED ipVars
    PROVE  TypeInv'
<1> USE Parties DEF ipVars, client, server, records
<1>1. Current(c)
  BY DEF SessionInv
<1>2. /\ UNCHANGED <<host, trusted, answers, since>>
      /\ UNCHANGED <<run, point, step, command, state, committed, config, gateway, script, armed, crossed, passed>>
  BY DEF ConnectStep, Take, Reuse, Dial, Put, DialFails
<1>3. /\ pool' \in Session /\ got' \in [Caller -> Session] /\ wanted' \in [Caller -> Identity]
      /\ link' \in [Caller -> {"idle", "key", "choose", "put", "ok", "failed"}]
      /\ lock' \in Caller \cup {NoOne}
  <2>0. /\ pool \in Session /\ got \in [Caller -> Session] /\ wanted \in [Caller -> Identity] /\ trusted \in Key
        /\ link \in [Caller -> {"idle", "key", "choose", "put", "ok", "failed"}] /\ lock \in Caller \cup {NoOne}
    BY DEF TypeInv, TypeOK, PoolTypeOK
  <2>1. CASE Take(c)
    <3>1. wanted[c] \in Identity /\ [wanted[c] EXCEPT !.key = trusted] \in Identity
      BY <2>0 DEF Identity
    <3>2. wanted' = [wanted EXCEPT ![c] = [wanted[c] EXCEPT !.key = trusted]]
      BY <2>1, <2>0 DEF Take
    <3> QED  BY <2>0, <2>1, <3>1, <3>2 DEF Take, Go
  <2>2. CASE Reuse(c) \/ Put(c) \/ DialFails(c)
    BY <2>0, <2>2 DEF Reuse, Put, DialFails, Release, Go
  <2>3. CASE Dial(c)
    <3>1. wanted[c] \in Session
      BY <1>1, <2>0, <2>3 DEF Dial, Current, Session, Identity
    <3> QED  BY <2>0, <2>3, <3>1 DEF Dial, Go
  <2> QED  BY <2>1, <2>2, <2>3 DEF ConnectStep
<1> QED  BY <1>2, <1>3 DEF TypeInv, TypeOK, PoolTypeOK

\* A line, and the one after it.
LEMMA LineOrder ==
    /\ DOMAIN NextLine = Lines \ {"none", "ok"}
    /\ \A l \in DOMAIN NextLine : NextLine[l] \in Lines \ {"none", "capture", "add", "persist"}
    /\ NextLine["capture"] = "schedule" /\ NextLine["schedule"] = "ok"
    /\ NextLine["add"] = "stage" /\ NextLine["stage"] = "ok"
    /\ NextLine["persist"] = "reapply" /\ NextLine["reapply"] = "flush" /\ NextLine["flush"] = "add_new"
    /\ NextLine["add_new"] = "route" /\ NextLine["route"] = "flag" /\ NextLine["flag"] = "commit"
    /\ NextLine["commit"] = "cancel" /\ NextLine["cancel"] = "ok"
BY DEF NextLine, Lines

\* A step of a command: the shell dies, or it goes on with the next line.
LEMMA CommandMoves ==
    ASSUME NEW c \in Commander, CommandStep(c)
    PROVE  /\ command[c] \in DOMAIN NextLine
           /\ \/ GoOn(c)
              \/ CommandDies(c)
           /\ UNCHANGED <<client, records, pool, calls>>
<1>1. CASE CommandDies(c)
  BY <1>1 DEF CommandStep, CommandDies
<1>2. CASE LineFails(c)
  BY <1>2 DEF CommandStep, LineFails
<1>3. CASE ~CommandDies(c) /\ ~LineFails(c)
  <2>1. \E l \in DOMAIN NextLine : Line(c, l)
    BY <1>3, LineOrder DEF Lines, CommandStep, Capture, Schedule, Changes, AddAddress, Stage, Persist, Reapply, Flush,
       AddNew, Route, Flag, CommitState, CancelTimer
  <2> QED  BY <2>1 DEF Line, CommandStep
<1> QED  BY <1>1, <1>2, <1>3

LEMMA TypeCommand ==
    ASSUME TypeInv, NEW c \in Commander, CommandStep(c)
    PROVE  TypeInv'
<1> USE Parties DEF client, records, calls
<1>0. TypeOK /\ PoolTypeOK
  BY DEF TypeInv, TypeOK
<1>1. UNCHANGED <<host, trusted, pool, lock, link, wanted, got, since, run, point, step>>
  BY CommandMoves
<1>2. command' \in [Commander -> Lines]
  <2>1. command \in [Commander -> Lines] /\ \A l \in DOMAIN NextLine : NextLine[l] \in Lines
    BY LineOrder DEF TypeInv
  <2>2. command[c] \in DOMAIN NextLine /\ (GoOn(c) \/ CommandDies(c))
    BY CommandMoves
  <2> QED  BY <2>1, <2>2 DEF GoOn, CommandDies, Lines
<1>3. /\ answers' \in [Addr -> Key \cup {NoKey}]
      /\ state' \in {"none", "armed", "staged", "committed", "rolled_back"}
      /\ config' \in Addr /\ gateway' \in Addr \cup {NoRoute} /\ script' \in Scripts
      /\ committed' \in BOOLEAN /\ armed' \in BOOLEAN /\ crossed' \in BOOLEAN /\ passed' \in BOOLEAN
  <2>0. /\ answers \in [Addr -> Key \cup {NoKey}]
        /\ state \in {"none", "armed", "staged", "committed", "rolled_back"}
        /\ config \in Addr /\ gateway \in Addr \cup {NoRoute} /\ script \in Scripts
        /\ committed \in BOOLEAN /\ armed \in BOOLEAN /\ crossed \in BOOLEAN /\ passed \in BOOLEAN
    BY <1>0 DEF TypeInv, TypeOK, PoolTypeOK, Scripts
  <2>1. \A a \in Addr : Gone(a) \in Key \cup {NoKey}
    BY <2>0 DEF Gone
  <2>2. CASE LineFails(c) \/ CommandDies(c)
    BY <2>0, <2>2 DEF LineFails, CommandDies, server
  <2>3. CASE Capture(c) \/ Schedule(c) \/ Stage(c) \/ Flag(c) \/ CommitState(c) \/ CancelTimer(c)
    BY <2>0, <2>3 DEF Capture, Schedule, Stage, Flag, CommitState, CancelTimer, Write, HasDirectory, Scripts
  <2>4. CASE AddAddress(c) \/ Persist(c) \/ Reapply(c) \/ Flush(c) \/ AddNew(c) \/ Route(c)
    <3>1. UNCHANGED <<state, committed, script, armed, passed>> /\ crossed' \in BOOLEAN
      BY <2>4 DEF AddAddress, Persist, Reapply, Flush, AddNew, Route, Changes
    <3>2. config' \in Addr /\ gateway' \in Addr \cup {NoRoute} /\ answers' \in [Addr -> Key \cup {NoKey}]
      BY <2>0, <2>1, <2>4 DEF AddAddress, Persist, Reapply, Flush, AddNew, Route
    <3> QED  BY <2>0, <3>1, <3>2
  <2> QED  BY <2>2, <2>3, <2>4 DEF CommandStep
<1> QED  BY <1>0, <1>1, <1>2, <1>3 DEF TypeInv, TypeOK, PoolTypeOK, Scripts

\* The timer's script, another machine, or another key.
LEMMA TypeServer ==
    ASSUME TypeInv, ScriptStep \/ (\E a \in Lost : AddressTaken(a)) \/ (\E a \in Addr : TrustKey(a))
    PROVE  TypeInv'
<1> USE Parties, IpChangeAssumption DEF client, server, records, calls, ipVars
<1>0. TypeOK /\ PoolTypeOK
  BY DEF TypeInv, TypeOK
<1>1. CASE ScriptStep
  <2>1. /\ UNCHANGED <<host, trusted, pool, lock, link, wanted, got, since, run, point, step, command>>
        /\ UNCHANGED <<committed, armed, crossed, passed>>
    BY <1>1 DEF ScriptStep
  <2>2. \A a \in Addr : Gone(a) \in Key \cup {NoKey}
    BY <1>0 DEF Gone, PoolTypeOK
  <2>3. /\ answers' \in [Addr -> Key \cup {NoKey}]
        /\ state' \in {"none", "armed", "staged", "committed", "rolled_back"}
        /\ config' \in Addr /\ gateway' \in Addr \cup {NoRoute} /\ script' \in Scripts
    BY <1>0, <1>1, <2>2 DEF TypeOK, PoolTypeOK, ScriptStep, Fire, RestoreConfig, FlushAll, RestoreAddresses,
       RestoreRoutes, RestoreState, ScriptStops, Scripts, Undoing
  <2> QED  BY <1>0, <2>1, <2>3 DEF TypeInv, TypeOK, PoolTypeOK, Scripts
<1>2. ASSUME NEW a \in Lost, AddressTaken(a) PROVE TypeInv'
  <2>1. UNCHANGED <<host, trusted, pool, lock, link, wanted, got, since, run, point, step, command>>
        /\ UNCHANGED <<state, committed, config, gateway, script, armed, crossed, passed>>
        /\ answers' \in [Addr -> Key \cup {NoKey}]
    BY <1>0, <1>2 DEF AddressTaken, PoolTypeOK
  <2> QED  BY <1>0, <2>1 DEF TypeInv, TypeOK, PoolTypeOK
<1>3. ASSUME NEW a \in Addr, TrustKey(a) PROVE TypeInv'
  <2>1. UNCHANGED <<host, answers, pool, lock, link, wanted, got, run, point, step, command>>
        /\ UNCHANGED <<state, committed, config, gateway, script, armed, crossed, passed>>
    BY <1>3 DEF TrustKey, UpdateKey
  <2>2. trusted' \in Key /\ since' \in [Caller -> SUBSET (Addr \cup Key)]
    BY <1>0, <1>3 DEF TrustKey, UpdateKey, TypeInv, PoolTypeOK
  <2> QED  BY <1>0, <2>1, <2>2 DEF TypeInv, TypeOK, PoolTypeOK
<1> QED  BY <1>1, <1>2, <1>3

\* A client, and the end of all of them.
LEMMA TypeClient ==
    ASSUME TypeInv, (\E c \in Caller : ClientStep(c)) \/ ExitAndOpen
    PROVE  TypeInv'
<1> USE Parties, IpChangeAssumption DEF client, server, records, calls, poolVars, Quiet
<1>0. TypeOK /\ PoolTypeOK
  BY DEF TypeInv, TypeOK
<1>1. ASSUME NEW c \in Caller, Hangup(c)
      PROVE  /\ link' \in [Caller -> {"idle", "key", "choose", "put", "ok", "failed"}]
             /\ got' \in [Caller -> Session] /\ since' \in [Caller -> SUBSET (Addr \cup Key)]
  BY <1>0, <1>1 DEF Hangup, TypeInv, PoolTypeOK
<1>2. ASSUME NEW c \in Commander, NEW l \in Steps, Move(c, l) PROVE step' \in [Commander -> Steps]
  BY <1>2 DEF Move, TypeInv
<1>3. ASSUME NEW c \in Commander, NEW l \in Lines, Send(c, l) PROVE command' \in [Commander -> Lines]
  BY <1>3 DEF Send, TypeInv
<1>4. ASSUME NEW c \in Caller, Ask(c) PROVE TypeInv'
  <2>1. lock' \in Caller \cup {NoOne} /\ since' \in [Caller -> SUBSET (Addr \cup Key)]
        /\ link' \in [Caller -> {"idle", "key", "choose", "put", "ok", "failed"}]
    BY <1>0, <1>4 DEF Ask, Begin, Go, TypeInv, PoolTypeOK
  <2>2. wanted' \in [Caller -> Identity]
    <3>1. wanted \in [Caller -> Identity] /\ host \in Addr
      BY <1>0 DEF TypeInv, PoolTypeOK
    <3>2. [wanted[c] EXCEPT !.host = host] \in Identity
      BY <3>1 DEF Identity
    <3>3. wanted' = [wanted EXCEPT ![c] = [wanted[c] EXCEPT !.host = host]]
      BY <1>4, <3>1 DEF Ask, Begin
    <3> QED  BY <3>1, <3>2, <3>3
  <2> QED  BY <1>0, <1>4, <2>1, <2>2 DEF Ask, Begin, TypeInv, TypeOK, PoolTypeOK
<1>5. ASSUME NEW c \in Caller, Leave(c) PROVE TypeInv'
  BY <1>0, <1>1, <1>5 DEF Leave, TypeInv, TypeOK, PoolTypeOK
<1>6. ASSUME NEW c \in Caller, SendStep(c) PROVE TypeInv'
  <2>1. step' \in [Commander -> Steps] /\ command' \in [Commander -> Lines]
    BY <1>2, <1>3, <1>6 DEF SendStep, Steps, Lines
  <2> QED  BY <1>0, <1>1, <1>6, <2>1 DEF SendStep, TypeInv, TypeOK, PoolTypeOK
<1>7. ASSUME NEW c \in Caller, StepUncertain(c) \/ StepCancelled(c) PROVE TypeInv'
  <2>1. step' \in [Commander -> Steps]
    BY <1>2, <1>7 DEF StepUncertain, StepCancelled, Steps
  <2>2. CASE StepUncertain(c)
    BY <1>0, <1>1, <2>1, <2>2 DEF StepUncertain, TypeInv, TypeOK, PoolTypeOK
  <2>3. CASE StepCancelled(c)
    BY <1>0, <2>1, <2>3 DEF StepCancelled, TypeInv, TypeOK, PoolTypeOK
  <2> QED  BY <1>7, <2>2, <2>3
<1>8. ASSUME NEW c \in Caller, StepDone(c) \/ Finalize(c) \/ FinalizeDone(c) PROVE TypeInv'
  <2>1. step' \in [Commander -> Steps] /\ command' \in [Commander -> Lines]
    BY <1>2, <1>3, <1>8 DEF StepDone, Finalize, FinalizeDone, Steps, Lines
  <2>2. run' \in {"running", "verifying", "succeeded", "uncertain", "cancelled"}
    BY <1>0, <1>8 DEF StepDone, Finalize, FinalizeDone, TypeOK
  <2> QED  BY <1>0, <1>8, <2>1, <2>2 DEF StepDone, Finalize, FinalizeDone, TypeInv, TypeOK, PoolTypeOK
<1>9. ASSUME NEW c \in Caller, FinalizeFails(c) \/ SetResult(c) \/ ObserveRollback(c) \/ Inspect(c) PROVE TypeInv'
  <2>1. step' \in [Commander -> Steps]
    BY <1>2, <1>9 DEF FinalizeFails, SetResult, ObserveRollback, Inspect, Steps
  <2>2. run' \in {"running", "verifying", "succeeded", "uncertain", "cancelled"}
    BY <1>0, <1>9 DEF FinalizeFails, SetResult, ObserveRollback, Inspect, TypeOK
  <2> QED  BY <1>0, <1>9, <2>1, <2>2 DEF FinalizeFails, SetResult, ObserveRollback, Inspect, TypeInv, TypeOK, PoolTypeOK
<1>10. ASSUME NEW c \in Caller, RecordHost(c) \/ InvalidatePool(c) PROVE TypeInv'
  <2>1. step' \in [Commander -> Steps]
    BY <1>2, <1>10 DEF RecordHost, InvalidatePool, Steps
  <2>2. host' \in Addr /\ pool' \in Session /\ since' \in [Caller -> SUBSET (Addr \cup Key)]
    BY <1>0, <1>10 DEF RecordHost, InvalidatePool, UpdateHost, Invalidate, TypeInv, PoolTypeOK
  <2> QED  BY <1>0, <1>10, <2>1, <2>2
           DEF RecordHost, InvalidatePool, UpdateHost, Invalidate, TypeInv, TypeOK, PoolTypeOK
<1>11. ASSUME NEW c \in Caller, Probed(c) \/ ReadState(c) \/ ReadFails(c) PROVE TypeInv'
  <2>1. AfterState[ParseState] \in Steps
    BY <1>0 DEF AfterState, ParseState, TypeOK, Steps
  <2>2. step' \in [Commander -> Steps]
    BY <1>2, <1>11, <2>1 DEF Probed, ReadState, ReadFails, Steps
  <2> QED  BY <1>0, <1>1, <1>11, <2>2 DEF Probed, ReadState, ReadFails, TypeInv, TypeOK, PoolTypeOK
<1>12. CASE ExitAndOpen
  BY <1>0, <1>12 DEF ExitAndOpen, TypeInv, TypeOK, PoolTypeOK, Steps
<1> QED
  BY <1>4, <1>5, <1>6, <1>7, <1>8, <1>9, <1>10, <1>11, <1>12 DEF ClientStep

-----------------------------------------------------------------------------
(* Sessions.                                                               *)

LEMMA SessionConnect ==
    ASSUME TypeInv, SessionInv, NEW c \in Caller, ConnectStep(c)
    PROVE  SessionInv'
<1>1. /\ wanted \in [Caller -> Identity] /\ got \in [Caller -> Session] /\ DOMAIN link = Caller
      /\ link \in [Caller -> {"idle", "key", "choose", "put", "ok", "failed"}] /\ trusted \in Key
  BY DEF TypeInv, TypeOK, PoolTypeOK
<1>2. ASSUME NEW d \in Caller, d # c PROVE Current(d)'
  <2>1. UNCHANGED <<link[d], wanted[d], got[d], since, trusted>>
    BY <1>1, <1>2
       DEF ConnectStep, Take, Reuse, Dial, Put, DialFails, Release, Go, records
  <2> QED  BY <2>1 DEF SessionInv, Current
<1>3. Current(c)'
  <2>1. Current(c)
    BY DEF SessionInv
  <2>2. CASE Take(c)
    <3>1. wanted'[c] = [wanted[c] EXCEPT !.key = trusted] /\ wanted[c] \in Identity
      BY <1>1, <2>2 DEF Take
    <3>2. wanted'[c].host = wanted[c].host /\ wanted'[c].key = trusted
      BY <3>1 DEF Identity
    <3> QED  BY <1>1, <2>1, <2>2, <3>2 DEF Take, Go, Current, records
  <2>3. CASE Dial(c)
    BY <1>1, <2>1, <2>3 DEF Dial, Go, Current, records
  <2>4. CASE Reuse(c) \/ Put(c)
    BY <1>1, <2>1, <2>4 DEF Reuse, Put, MayReuse, Release, Go, Current, records
  <2>5. CASE DialFails(c)
    BY <1>1, <2>5 DEF DialFails, Release, Go, Current
  <2> QED  BY <2>2, <2>3, <2>4, <2>5 DEF ConnectStep
<1> QED  BY <1>2, <1>3 DEF SessionInv

LEMMA SessionOthers ==
    ASSUME TypeInv, SessionInv,
           \/ (\E c \in Caller : ClientStep(c)) \/ ExitAndOpen \/ ScriptStep
           \/ (\E c \in Commander : CommandStep(c)) \/ (\E a \in Lost : AddressTaken(a))
           \/ (\E a \in Addr : TrustKey(a)) \/ UNCHANGED vars
    PROVE  SessionInv'
<1> USE DEF vars, poolVars, records, calls, client, Quiet
<1>1. /\ wanted \in [Caller -> Identity] /\ got \in [Caller -> Session]
      /\ link \in [Caller -> {"idle", "key", "choose", "put", "ok", "failed"}]
      /\ since \in [Caller -> SUBSET (Addr \cup Key)] /\ host \in Addr /\ trusted \in Key
  BY DEF TypeInv, TypeOK, PoolTypeOK
<1>2. CASE UNCHANGED <<link, wanted, got, since, trusted>>
  BY <1>2 DEF SessionInv, Current
<1>3. ASSUME NEW c \in Caller, Hangup(c), UNCHANGED <<wanted, trusted>> PROVE SessionInv'
  <2> SUFFICES ASSUME NEW d \in Caller PROVE Current(d)'
    BY DEF SessionInv
  <2>1. CASE d = c
    BY <1>1, <1>3, <2>1 DEF Hangup, Current
  <2>2. CASE d # c
    BY <1>1, <1>3, <2>2 DEF Hangup, Current, SessionInv
  <2> QED  BY <2>1, <2>2
<1>4. ASSUME NEW c \in Caller, Begin(c) PROVE SessionInv'
  <2> SUFFICES ASSUME NEW d \in Caller PROVE Current(d)'
    BY DEF SessionInv
  <2>1. CASE d = c
    <3>1. wanted'[c] = [wanted[c] EXCEPT !.host = host] /\ wanted[c] \in Identity
      BY <1>1, <1>4 DEF Begin
    <3>2. wanted'[c].host = host
      BY <3>1 DEF Identity
    <3> QED  BY <1>1, <1>4, <2>1, <3>2 DEF Begin, Go, Current
  <2>2. CASE d # c
    BY <1>1, <1>4, <2>2 DEF Begin, Go, Current, SessionInv
  <2> QED  BY <2>1, <2>2
<1>5. ASSUME UpdateHost(New) PROVE SessionInv'
  BY <1>1, <1>5 DEF UpdateHost, Current, SessionInv
<1>6. CASE ExitAndOpen
  BY <1>6 DEF ExitAndOpen, Current, SessionInv
<1>7. ASSUME NEW c \in Caller, ClientStep(c) PROVE SessionInv'
  <2>1. CASE Ask(c)
    BY <1>4, <2>1 DEF Ask
  <2>2. CASE Leave(c) \/ SendStep(c) \/ StepUncertain(c) \/ Probed(c) \/ ReadState(c) \/ ReadFails(c)
    BY <1>3, <2>2 DEF Leave, SendStep, StepUncertain, Probed, ReadState, ReadFails
  <2>3. CASE RecordHost(c)
    BY <1>5, <2>3 DEF RecordHost
  <2>4. CASE \/ StepCancelled(c) \/ StepDone(c) \/ Finalize(c) \/ FinalizeDone(c) \/ FinalizeFails(c)
             \/ InvalidatePool(c) \/ SetResult(c) \/ Inspect(c) \/ ObserveRollback(c)
    BY <1>2, <2>4 DEF StepCancelled, StepDone, Finalize, FinalizeDone, FinalizeFails, InvalidatePool, Invalidate,
                      SetResult, Inspect, ObserveRollback
  <2> QED  BY <1>7, <2>1, <2>2, <2>3, <2>4 DEF ClientStep
<1>8. CASE ScriptStep \/ (\E c \in Commander : CommandStep(c)) \/ (\E a \in Lost : AddressTaken(a))
           \/ UNCHANGED vars
  BY <1>2, <1>8 DEF ScriptStep, CommandStep, AddressTaken
<1>9. ASSUME NEW a \in Addr, TrustKey(a) PROVE SessionInv'
  BY <1>1, <1>9 DEF TrustKey, UpdateKey, Current, SessionInv
<1> QED  BY <1>6, <1>7, <1>8, <1>9

-----------------------------------------------------------------------------
(* The change.                                                             *)

\* Which addresses the server has, after the lines that change them.
LEMMA AddressesAfter ==
    ASSUME TypeInv
    PROVE  /\ \A x \in Addr : answers' = [answers EXCEPT ![x] = Machine] => Addresses' = Addresses \cup {x}
           /\ answers' = [a \in Addr |-> Gone(a)] => Addresses' = {}
           /\ \A a \in Addr, k \in Key \ {Machine} :
                 answers[a] = NoKey /\ answers' = [answers EXCEPT ![a] = k] => Addresses' = Addresses
           /\ answers' = answers => Addresses' = Addresses
<1>1. answers \in [Addr -> Key \cup {NoKey}]
  BY DEF TypeInv, TypeOK, PoolTypeOK
<1> QED  BY <1>1, Parties DEF Addresses, Reaches, Gone

\* Where a client may go, and its command, without a step of the server.
Harmless(c) ==
    /\ \/ step'[c] = step[c]
       \/ step'[c] \notin {"arm", "record", "finalizing"}
       \/ step'[c] = "record" /\ passed
       \/ step'[c] = "finalizing" /\ command'[c] = "persist"
    /\ \/ command'[c] = command[c]
       \/ command'[c] \in {"none", "persist"}
       \/ c = Main /\ step[c] = "arm" /\ command'[c] = "capture"
       \/ c = Main /\ command'[c] = "add"
    /\ step'[c] = "finalizing" => \/ command'[c] = "persist"
                                  \/ step[c] = "finalizing" /\ command'[c] = command[c]
    /\ step'[c] = "arm" => step[c] = "arm" /\ command'[c] = command[c]

\* What is left of the run's own part after such a step.
LEMMA ChangeFrame ==
    ASSUME TypeInv, ChangeInv,
           UNCHANGED <<answers, committed, config, gateway, script, armed, crossed, passed>>,
           host' = host \/ passed,
           \A c \in Commander : Harmless(c)
    PROVE  /\ Guarded' /\ (\A c \in Commander : Confirms(c)')
           /\ (Reached' <=> Reached) /\ (Before' <=> Before)
<1>1. Addresses' = Addresses /\ ScriptBegun' = ScriptBegun
  BY AddressesAfter DEF ScriptBegun
<1>2. (Before' <=> Before) /\ (Reached' <=> Reached)
  BY <1>1 DEF Before, Reached
<1>3. ASSUME NEW c \in Commander PROVE Confirms(c)'
  <2>1. Confirms(c)
    BY DEF ChangeInv
  <2> QED  BY <2>1, Parties DEF Confirms, Harmless
<1>4. Guarded'
  <2>1. Guarded
    BY DEF ChangeInv
  <2>2. /\ step'[Main] = "arm" \/ command'[Main] \in {"capture", "schedule"}
             => step[Main] = "arm" \/ command[Main] \in {"capture", "schedule"}
        /\ step'[Main] = "arm" => step[Main] = "arm" /\ command'[Main] = command[Main]
    BY Parties DEF Harmless
  <2> QED  BY <1>1, <1>2, <2>1, <2>2 DEF Guarded
<1> QED  BY <1>2, <1>3, <1>4

\* The steps that leave the run and the clients where they are.
LEMMA ChangeIdle ==
    ASSUME TypeInv, ChangeInv,
           UNCHANGED <<answers, committed, config, gateway, script, armed, crossed, passed, host, run, step, command>>
    PROVE  ChangeInv'
<1>1. \A c \in Commander : Harmless(c)
  BY DEF Harmless
<1>2. Guarded' /\ (\A c \in Commander : Confirms(c)') /\ (Reached' <=> Reached)
  BY <1>1, ChangeFrame
<1>3. Succeeds'
  BY <1>2 DEF ChangeInv, Succeeds, Alone
<1> QED  BY <1>2, <1>3 DEF ChangeInv

LEMMA ChangeClient ==
    ASSUME TypeInv, ChangeInv, NEW c \in Caller, ClientStep(c)
    PROVE  ChangeInv'
<1> USE Parties, IpChangeAssumption DEF client, server, records, poolVars, calls, Quiet
<1>1. /\ step \in [Commander -> Steps] /\ command \in [Commander -> Lines]
      /\ Guarded /\ Succeeds /\ \A d \in Commander : Confirms(d)
      /\ run \in {"running", "verifying", "succeeded", "uncertain", "cancelled"}
  BY DEF TypeInv, TypeOK, ChangeInv
<1>2. Commander = {Main} \cup Inspector /\ Main \notin Inspector
  BY DEF Commander
<1>3. CASE Ask(c) \/ Leave(c)
  <2>1. UNCHANGED <<answers, committed, config, gateway, script, armed, crossed, passed, host, run, step, command>>
    BY <1>3 DEF Ask, Begin, Leave
  <2> QED  BY <2>1, ChangeIdle
<1>4. CASE SendStep(c) \/ StepDone(c)
  <2>1. /\ UNCHANGED <<answers, committed, config, gateway, script, armed, crossed, passed, host>> /\ c = Main
        /\ run' \in {run, "verifying"}
    BY <1>4 DEF SendStep, StepDone
  <2>2. \/ /\ step[Main] = "arm" /\ step' = [step EXCEPT ![Main] = "arming"]
           /\ command' = [command EXCEPT ![Main] = "capture"]
        \/ /\ step[Main] = "apply" /\ step' = [step EXCEPT ![Main] = "applying"]
           /\ command' = [command EXCEPT ![Main] = "add"]
        \/ /\ step[Main] \in {"arming", "applying"}
           /\ step' \in {[step EXCEPT ![Main] = l] : l \in {"apply", "verify"}}
           /\ command' = [command EXCEPT ![Main] = "none"]
    BY <1>4 DEF SendStep, StepDone, Move, Send
  <2>3. \A d \in Commander : Harmless(d)
    BY <1>1, <2>1, <2>2 DEF Harmless
  <2>4. Guarded' /\ (\A d \in Commander : Confirms(d)')
    BY <2>1, <2>3, ChangeFrame
  <2>5. /\ run \in {"running", "verifying"} /\ Alone /\ Alone'
        /\ step'[Main] \in {"arming", "applying", "apply", "verify"}
    BY <1>1, <1>2, <2>2 DEF Succeeds, Alone
  <2>6. Succeeds'
    BY <2>1, <2>5 DEF Succeeds
  <2> QED  BY <2>4, <2>6 DEF ChangeInv
<1>5. CASE Finalize(c)
  <2>1. /\ UNCHANGED <<answers, committed, config, gateway, script, armed, crossed, passed, host, run>>
        /\ c \in Commander /\ step[c] \in {"verify", "staged"}
        /\ step' = [step EXCEPT ![c] = "finalizing"] /\ command' = [command EXCEPT ![c] = "persist"]
    BY <1>5 DEF Finalize, Move, Send
  <2>2. \A d \in Commander : Harmless(d)
    BY <1>1, <2>1 DEF Harmless
  <2>3. Guarded' /\ (\A d \in Commander : Confirms(d)')
    BY <2>1, <2>2, ChangeFrame
  <2>4. Succeeds'
    <3>1. CASE c = Main
      BY <1>1, <1>2, <2>1, <3>1 DEF Succeeds, Alone
    <3>2. CASE c \in Inspector
      BY <1>1, <1>2, <2>1, <3>2 DEF Succeeds, Alone
    <3> QED  BY <1>2, <2>1, <3>1, <3>2
  <2> QED  BY <2>3, <2>4 DEF ChangeInv
<1>6. CASE FinalizeDone(c)
  <2>1. /\ UNCHANGED <<answers, committed, config, gateway, script, armed, crossed, passed, host, run>>
        /\ c \in Commander /\ step[c] = "finalizing" /\ command[c] = "ok" /\ passed
        /\ step' = [step EXCEPT ![c] = "record"] /\ command' = [command EXCEPT ![c] = "none"]
    BY <1>1, <1>6 DEF FinalizeDone, Move, Send, Confirms
  <2>2. \A d \in Commander : Harmless(d)
    BY <1>1, <2>1 DEF Harmless
  <2>3. Guarded' /\ (\A d \in Commander : Confirms(d)') /\ (Reached' <=> Reached)
    BY <2>1, <2>2, ChangeFrame
  <2>4. Reached
    BY <1>6 DEF FinalizeDone, Reached, Addresses, Reaches
  <2>5. Succeeds'
    <3>1. CASE c = Main
      BY <1>1, <1>2, <2>1, <2>3, <2>4, <3>1 DEF Succeeds, Alone
    <3>2. CASE c \in Inspector
      BY <1>1, <1>2, <2>1, <3>2 DEF Succeeds, Alone
    <3> QED  BY <1>2, <2>1, <3>1, <3>2
  <2> QED  BY <2>3, <2>5 DEF ChangeInv
<1>7. CASE StepUncertain(c) \/ StepCancelled(c) \/ FinalizeFails(c)
  <2>1. /\ UNCHANGED <<answers, committed, config, gateway, script, armed, crossed, passed, host, command>>
        /\ c \in Commander /\ step[c] # "done" /\ step' = [step EXCEPT ![c] = "done"]
        /\ run' = run \/ (c = Main /\ run' \in {"uncertain", "cancelled"})
        /\ c = Main => run' \in {"uncertain", "cancelled"}
    BY <1>7 DEF StepUncertain, StepCancelled, FinalizeFails, Move
  <2>2. \A d \in Commander : Harmless(d)
    BY <1>1, <2>1 DEF Harmless
  <2>3. Guarded' /\ (\A d \in Commander : Confirms(d)')
    BY <2>1, <2>2, ChangeFrame
  <2>4. Succeeds'
    <3>1. CASE c = Main
      BY <1>1, <2>1, <3>1 DEF Succeeds
    <3>2. CASE c \in Inspector
      BY <1>1, <1>2, <2>1, <3>2 DEF Succeeds, Alone
    <3> QED  BY <1>2, <2>1, <3>1, <3>2
  <2> QED  BY <2>3, <2>4 DEF ChangeInv
<1>8. CASE Inspect(c) \/ Probed(c) \/ ReadState(c) \/ ReadFails(c) \/ ObserveRollback(c)
  <2>0. AfterState[ParseState] \in {"staged", "observed", "done"} \/ (AfterState[ParseState] = "record" /\ passed)
    BY <1>1 DEF AfterState, ParseState, TypeInv, TypeOK, Guarded
  <2>1. /\ UNCHANGED <<answers, committed, config, gateway, script, armed, crossed, passed, host, command, run>>
        /\ c \in Inspector /\ (step[c] # "done" \/ run = "uncertain")
        /\ \E l \in Steps : /\ step' = [step EXCEPT ![c] = l]
                            /\ \/ l \in {"probe", "inspect", "inspect_new", "staged", "observed", "result", "done"}
                               \/ l = "record" /\ passed
    BY <1>8, <2>0 DEF Inspect, Probed, ReadState, ReadFails, ObserveRollback, Move, Steps
  <2>2. c \in Inspector
    BY <1>8 DEF Inspect, Probed, ReadState, ReadFails, ObserveRollback
  <2>3. \A d \in Commander : Harmless(d)
    BY <1>1, <1>2, <2>1, <2>2 DEF Harmless
  <2>4. Guarded' /\ (\A d \in Commander : Confirms(d)')
    BY <2>1, <2>3, ChangeFrame
  <2>5. run \notin {"running", "verifying", "succeeded"} /\ step[Main] = "done" /\ step'[Main] = "done"
    BY <1>1, <1>2, <2>1, <2>2 DEF Succeeds, Alone
  <2>6. Succeeds'
    BY <2>1, <2>5 DEF Succeeds
  <2> QED  BY <2>4, <2>6 DEF ChangeInv
<1>9. CASE RecordHost(c) \/ InvalidatePool(c) \/ SetResult(c)
  <2>1. /\ UNCHANGED <<answers, committed, config, gateway, script, armed, crossed, passed, command>> /\ c \in Commander
        /\ \/ /\ step[c] = "record" /\ step' = [step EXCEPT ![c] = "invalidate"]
              /\ host' = New /\ run' = run
           \/ /\ step[c] = "invalidate" /\ step' = [step EXCEPT ![c] = "result"]
              /\ host' = host /\ run' = run
           \/ /\ step[c] = "result" /\ step' = [step EXCEPT ![c] = "done"]
              /\ host' = host /\ run' = IF c = Main THEN "succeeded" ELSE run
    BY <1>9 DEF RecordHost, UpdateHost, InvalidatePool, Invalidate, SetResult, Move
  <2>2. host' = host \/ passed
    BY <1>1, <2>1 DEF Confirms
  <2>3. \A d \in Commander : Harmless(d)
    BY <1>1, <2>1 DEF Harmless
  <2>4. Guarded' /\ (\A d \in Commander : Confirms(d)') /\ (Reached' <=> Reached)
    BY <2>1, <2>2, <2>3, ChangeFrame
  <2>5. Succeeds'
    <3>1. CASE c = Main
      BY <1>1, <1>2, <2>1, <2>4, <3>1 DEF Succeeds, Alone
    <3>2. CASE c \in Inspector
      BY <1>1, <1>2, <2>1, <3>2 DEF Succeeds, Alone
    <3> QED  BY <1>2, <2>1, <3>1, <3>2
  <2> QED  BY <2>4, <2>5 DEF ChangeInv
<1> QED
  BY <1>3, <1>4, <1>5, <1>6, <1>7, <1>8, <1>9 DEF ClientStep

\* The lines of a command.  Those that change the network tell when the script
\* had begun; none of them is run for a run that has succeeded.
LEMMA ChangeCommand ==
    ASSUME TypeInv, ChangeInv, NEW c \in Commander, CommandStep(c)
    PROVE  ChangeInv'
<1> USE Parties, IpChangeAssumption DEF client, server, records, calls
<1>1. /\ command \in [Commander -> Lines] /\ committed \in BOOLEAN /\ crossed \in BOOLEAN /\ armed \in BOOLEAN
      /\ passed \in BOOLEAN /\ Guarded /\ Succeeds /\ \A d \in Commander : Confirms(d)
      /\ script \in Scripts /\ Commander = {Main} \cup Inspector /\ Main \notin Inspector
  BY DEF TypeInv, TypeOK, ChangeInv, Scripts, Commander
<1>2. /\ UNCHANGED <<run, step, host>>
      /\ command[c] \in Lines \ {"none", "ok"}
      /\ \/ command' = [command EXCEPT ![c] = NextLine[command[c]]]
         \/ command' = [command EXCEPT ![c] = "none"] /\ CommandDies(c)
  BY CommandMoves, LineOrder DEF GoOn, CommandDies
<1>3. Succeeds'
  <2>1. run \in {"running", "verifying", "succeeded"} => c = Main /\ Alone /\ Alone'
    BY <1>1, <1>2 DEF Succeeds, Alone
  <2>2. run # "succeeded" /\ step[Main] \notin {"record", "invalidate", "result"}
    BY <1>1, <1>2, <2>1 DEF Succeeds
  <2> QED  BY <1>1, <1>2, <2>1, <2>2 DEF Succeeds
<1>4. passed => passed'
  BY <1>1 DEF CommandStep, Capture, Schedule, Changes, AddAddress, Stage, Persist, Reapply, Flush, AddNew, Route, Flag,
     CommitState, CancelTimer, LineFails, CommandDies
<1>5. command[c] = "flag" /\ ~CommandDies(c) => passed'
  BY <1>1 DEF CommandStep, Capture, Schedule, Changes, AddAddress, Stage, Persist, Reapply, Flush, AddNew, Route, Flag,
     CommitState, CancelTimer, LineFails, Line
<1>6. ASSUME NEW d \in Commander PROVE Confirms(d)'
  <2>1. CASE d # c
    BY <1>1, <1>2, <1>4, <2>1 DEF Confirms
  <2>2. CASE d = c /\ CommandDies(c)
    BY <1>1, <1>2, <1>4, <2>2 DEF Confirms, CommandDies
  <2>3. CASE d = c /\ ~CommandDies(c)
    <3>1. command'[c] = NextLine[command[c]] /\ step'[c] = step[c]
      BY <1>1, <1>2, <2>3
    <3>2. CASE command[c] \in {"capture", "schedule", "add", "stage"}
      BY <1>1, <1>4, <2>3, <3>1, <3>2, LineOrder DEF Confirms
    <3>3. CASE command[c] \in {"persist", "reapply", "flush", "add_new", "route"}
      BY <1>1, <1>4, <2>3, <3>1, <3>3, LineOrder DEF Confirms
    <3>4. CASE command[c] \in {"flag", "commit", "cancel"}
      BY <1>1, <1>4, <1>5, <2>3, <3>1, <3>4, LineOrder DEF Confirms
    <3> QED  BY <1>2, <3>2, <3>3, <3>4 DEF Lines
  <2> QED  BY <2>1, <2>2, <2>3
<1>7. Guarded'
  <2>1. /\ step[Main] # "arm" \/ c # Main
        /\ command'[Main] \in {"capture", "schedule"} => command[Main] \in {"capture", "schedule"}
        /\ step[Main] = "arm" => command'[Main] = command[Main]
    BY <1>1, <1>2, LineOrder DEF Guarded, Lines
  <2>2. CASE Capture(c) \/ Stage(c) \/ CommitState(c) \/ CommandDies(c) \/ LineFails(c)
    <3>1. UNCHANGED <<answers, committed, config, gateway, script, armed, crossed>>
      BY <2>2 DEF Capture, Stage, CommitState, CommandDies, LineFails
    <3>2. Addresses' = Addresses /\ (Before' <=> Before) /\ ScriptBegun' = ScriptBegun
      BY <3>1, AddressesAfter DEF Before, ScriptBegun
    <3> QED  BY <1>1, <1>2, <1>4, <2>1, <3>1, <3>2 DEF Guarded
  <2>3. CASE Schedule(c)
    <3>1. /\ UNCHANGED <<answers, committed, config, gateway, crossed, passed>>
          /\ c = Main /\ command[c] = "schedule" /\ script = "idle" /\ ~armed
          /\ script' = "scheduled" \/ (script' = "idle" /\ ~armed')
      BY <1>1, <2>3 DEF Schedule, Line, Confirms, Guarded
    <3>2. command'[Main] = "ok" \/ CommandDies(c)
      BY <1>1, <1>2, <3>1, LineOrder
    <3>3. command'[Main] \notin {"capture", "schedule"} /\ step'[Main] # "arm"
      BY <1>1, <1>2, <2>1, <3>1, <3>2 DEF CommandDies
    <3>4. ~ScriptBegun'
      BY <3>1 DEF ScriptBegun
    <3> QED  BY <1>1, <1>2, <3>1, <3>3, <3>4 DEF Guarded
  <2>4. CASE CancelTimer(c)
    <3>1. /\ UNCHANGED <<answers, committed, config, gateway, armed, crossed, passed>> /\ passed
          /\ script' = IF script = "scheduled" THEN "idle" ELSE script
      BY <1>1, <2>4 DEF CancelTimer, Line, Confirms
    <3>2. Addresses' = Addresses /\ (Before' <=> Before) /\ (ScriptBegun' <=> ScriptBegun)
      BY <3>1, AddressesAfter DEF Before, ScriptBegun
    <3> QED  BY <1>1, <1>2, <2>1, <3>1, <3>2 DEF Guarded
  <2>5. CASE AddAddress(c) \/ Persist(c) \/ Reapply(c) \/ Flush(c) \/ AddNew(c) \/ Route(c)
    <3>1. UNCHANGED <<committed, script, armed, passed>> /\ (crossed' <=> (crossed \/ ScriptBegun))
      BY <1>1, <2>5 DEF AddAddress, Persist, Reapply, Flush, AddNew, Route, Changes
    <3>2. ScriptBegun' = ScriptBegun /\ (~crossed' => script \in {"idle", "scheduled"})
      BY <3>1 DEF ScriptBegun
    <3> QED  BY <1>1, <1>2, <2>1, <3>1, <3>2 DEF Guarded
  <2>6. CASE Flag(c)
    <3>1. UNCHANGED <<script, armed>> /\ passed' /\ (crossed' <=> (crossed \/ ScriptBegun))
      BY <1>1, <2>6 DEF Flag
    <3>2. ScriptBegun' = ScriptBegun /\ (~crossed' => script \in {"idle", "scheduled"})
      BY <3>1 DEF ScriptBegun
    <3> QED  BY <1>1, <1>2, <2>1, <3>1, <3>2 DEF Guarded
  <2> QED  BY <2>2, <2>3, <2>4, <2>5, <2>6 DEF CommandStep
<1> QED  BY <1>3, <1>6, <1>7 DEF ChangeInv

\* The script takes the change back line by line, unless it finds the flag.
LEMMA ChangeScript ==
    ASSUME TypeInv, ChangeInv, ScriptStep
    PROVE  ChangeInv'
<1> USE Parties DEF client, server, records, calls
<1>1. /\ committed \in BOOLEAN /\ crossed \in BOOLEAN /\ armed \in BOOLEAN
      /\ Guarded /\ Succeeds /\ \A d \in Commander : Confirms(d)
  BY DEF TypeInv, ChangeInv
<1>2. UNCHANGED <<run, step, command, host, committed, armed, crossed, passed>>
  BY DEF ScriptStep
<1>3. /\ script # "idle" /\ (script' = "idle" => script = "scheduled" /\ committed /\ Addresses' = Addresses)
      /\ script' # "idle" => ScriptBegun' /\ (ScriptBegun \/ ~committed)
  BY AddressesAfter DEF ScriptStep, Fire, RestoreConfig, FlushAll, RestoreAddresses, RestoreRoutes, RestoreState,
     ScriptStops, ScriptBegun, Undoing
<1>4. \A d \in Commander : Confirms(d)'
  BY <1>1, <1>2 DEF Confirms
<1>5. Reached => Reached'
  <2>1. CASE script' = "idle"
    BY <1>2, <1>3, <2>1 DEF Reached, ScriptBegun
  <2>2. CASE script' # "idle"
    BY <1>1, <1>2, <1>3, <2>2 DEF Reached, Guarded
  <2> QED  BY <2>1, <2>2
<1>6. Succeeds'
  BY <1>1, <1>2, <1>5 DEF Succeeds, Alone
<1>7. Guarded'
  <2>1. CASE Fire
    <3>1. script' = IF committed THEN "idle" ELSE "config"
      BY <2>1 DEF Fire
    <3> QED  BY <1>1, <1>2, <1>3, <3>1 DEF Guarded, ScriptBegun
  <2>2. CASE RestoreConfig
    <3>1. script = "config" /\ script' = "flush" /\ config' = Old
      BY <2>2 DEF RestoreConfig
    <3> QED  BY <1>1, <1>2, <1>3, <3>1 DEF Guarded
  <2>3. CASE FlushAll
    <3>1. script = "flush" /\ script' = "addresses" /\ config' = config /\ Addresses' = {}
      BY <2>3, AddressesAfter DEF FlushAll
    <3> QED  BY <1>1, <1>2, <1>3, <3>1 DEF Guarded
  <2>4. CASE RestoreAddresses
    <3>1. script = "addresses" /\ script' = "routes" /\ config' = config /\ Addresses' = Addresses \cup {Old}
      BY <2>4, AddressesAfter DEF RestoreAddresses
    <3> QED  BY <1>1, <1>2, <1>3, <3>1 DEF Guarded
  <2>5. CASE RestoreRoutes
    <3>1. script = "routes" /\ script' = "state" /\ config' = config /\ Addresses' = Addresses /\ gateway' = Old
      BY <2>5, AddressesAfter DEF RestoreRoutes
    <3> QED  BY <1>1, <1>2, <1>3, <3>1 DEF Guarded, Before
  <2>6. CASE RestoreState
    <3>1. script = "state" /\ script' = "done" /\ config' = config /\ Addresses' = Addresses /\ gateway' = gateway
      BY <2>6, AddressesAfter DEF RestoreState
    <3>2. Before' <=> Before
      BY <3>1 DEF Before
    <3> QED  BY <1>1, <1>2, <1>3, <3>1, <3>2 DEF Guarded
  <2>7. CASE ScriptStops
    <3>1. script' = "stopped"
      BY <2>7 DEF ScriptStops
    <3> QED  BY <1>1, <1>2, <1>3, <3>1 DEF Guarded
  <2> QED  BY <2>1, <2>2, <2>3, <2>4, <2>5, <2>6, <2>7 DEF ScriptStep
<1> QED  BY <1>4, <1>6, <1>7 DEF ChangeInv

\* Another machine at a free address, another key, an exit, and calls of connect.
LEMMA ChangeOthers ==
    ASSUME TypeInv, ChangeInv,
           \/ PoolStep \/ ExitAndOpen \/ (\E a \in Lost : AddressTaken(a)) \/ (\E a \in Addr : TrustKey(a))
           \/ UNCHANGED vars
    PROVE  ChangeInv'
<1> USE Parties DEF client, server, records, calls, ipVars, poolVars, vars
<1>1. CASE PoolStep \/ (\E a \in Addr : TrustKey(a)) \/ UNCHANGED vars
  <2>1. UNCHANGED <<answers, committed, config, gateway, script, armed, crossed, passed, host, run, step, command>>
    BY <1>1 DEF PoolStep, ConnectStep, Take, Reuse, Dial, Put, DialFails, TrustKey, UpdateKey
  <2> QED  BY <2>1, ChangeIdle
<1>2. CASE ExitAndOpen
  <2>1. UNCHANGED <<answers, committed, config, gateway, script, armed, crossed, passed, host, command>>
        /\ run' = (IF run \in {"running", "verifying"} THEN "uncertain" ELSE run)
        /\ step' = [d \in Commander |-> "done"]
    BY <1>2 DEF ExitAndOpen
  <2>2. \A d \in Commander : Harmless(d)
    BY <2>1 DEF Harmless
  <2>3. Guarded' /\ (\A d \in Commander : Confirms(d)') /\ (Reached' <=> Reached)
    BY <2>1, <2>2, ChangeFrame
  <2>4. Succeeds'
    BY <2>1, <2>3, IpChangeAssumption DEF ChangeInv, Succeeds, Alone, Commander
  <2> QED  BY <2>3, <2>4 DEF ChangeInv
<1>3. ASSUME NEW a \in Lost, AddressTaken(a) PROVE ChangeInv'
  <2>1. UNCHANGED <<host, committed, config, gateway, script, armed, crossed, passed, run, step, command>>
    BY <1>3 DEF AddressTaken
  <2>2. Addresses' = Addresses
    BY <1>3, AddressesAfter, IpChangeAssumption DEF AddressTaken
  <2>3. (Before' <=> Before) /\ (Reached' <=> Reached) /\ (ScriptBegun' <=> ScriptBegun)
    BY <2>1, <2>2 DEF Before, Reached, ScriptBegun
  <2>4. Guarded'
    BY <2>1, <2>2, <2>3 DEF ChangeInv, Guarded
  <2>5. Succeeds'
    BY <2>1, <2>3 DEF ChangeInv, Succeeds, Alone
  <2>6. ASSUME NEW c \in Commander PROVE Confirms(c)'
    BY <2>1 DEF ChangeInv, Confirms
  <2> QED  BY <2>4, <2>5, <2>6 DEF ChangeInv
<1> QED  BY <1>1, <1>2, <1>3

-----------------------------------------------------------------------------
(* The invariant, and what it shows.                                       *)

LEMMA IpStart == Init => IpInv
<1> SUFFICES ASSUME Init PROVE IpInv
  OBVIOUS
<1> USE Parties DEF Init, PoolInit
<1>1. TypeInv
  BY DEF TypeInv, TypeOK, PoolTypeOK, Steps, Lines
<1>2. SessionInv
  BY DEF SessionInv, Current
<1>3. Guarded /\ Succeeds
  BY IpChangeAssumption DEF Guarded, Succeeds, Alone, ScriptBegun
<1>4. ASSUME NEW c \in Commander PROVE Confirms(c)
  BY DEF Confirms
<1> QED  BY <1>1, <1>2, <1>3, <1>4 DEF IpInv, ChangeInv

LEMMA IpStep == IpInv /\ [Next]_vars => IpInv'
<1> SUFFICES ASSUME IpInv, [Next]_vars PROVE IpInv'
  OBVIOUS
<1>1. TypeInv /\ SessionInv /\ ChangeInv
  BY DEF IpInv
<1>2. CASE PoolStep
  <2>1. PICK c \in Caller : ConnectStep(c) /\ UNCHANGED ipVars
    BY <1>2 DEF PoolStep
  <2> QED  BY <1>1, <1>2, <2>1, TypeConnect, SessionConnect, ChangeOthers DEF IpInv
<1>3. CASE ScriptStep
  BY <1>1, <1>3, TypeServer, SessionOthers, ChangeScript DEF IpInv
<1>4. CASE ExitAndOpen
  BY <1>1, <1>4, TypeClient, SessionOthers, ChangeOthers DEF IpInv
<1>5. CASE \E c \in Caller : ClientStep(c)
  BY <1>1, <1>5, TypeClient, SessionOthers, ChangeClient DEF IpInv
<1>6. CASE \E c \in Commander : CommandStep(c)
  BY <1>1, <1>6, TypeCommand, SessionOthers, ChangeCommand DEF IpInv
<1>7. CASE \E a \in Lost : AddressTaken(a)
  BY <1>1, <1>7, TypeServer, SessionOthers, ChangeOthers DEF IpInv
<1>8. CASE \E a \in Addr : TrustKey(a)
  BY <1>1, <1>8, TypeServer, SessionOthers, ChangeOthers DEF IpInv
<1>9. CASE UNCHANGED vars
  <2>1. TypeInv'
    BY <1>1, <1>9 DEF TypeInv, TypeOK, PoolTypeOK, vars, poolVars, ipVars, records, calls, client, server
  <2> QED  BY <1>1, <1>9, <2>1, SessionOthers, ChangeOthers DEF IpInv
<1> QED  BY <1>2, <1>3, <1>4, <1>5, <1>6, <1>7, <1>8, <1>9 DEF Next

\* The invariant holds in every state: sessions are for what connect has read,
\* the record and the flag go together, and the script of the timer takes back
\* what the flag does not confirm.
THEOREM IpInvariance == Spec => []IpInv
BY IpStart, IpStep, PTL DEF Spec

\* Every variable of a change of the address keeps its type.
THEOREM IpTypes == Spec => []TypeOK
<1>1. IpInv => TypeOK
  BY DEF IpInv, TypeInv
<1> QED  BY IpInvariance, <1>1, PTL

\* A session connect returns is for an address and a key that were on record
\* while the call was under way: connect reads the two in turn, may_reuse
\* compares both, and commit_verified_host_change goes on in the middle of it.
THEOREM SessionsAreCurrent == Spec => []SessionIsCurrent
<1>1. IpInv => SessionIsCurrent
  BY DEF IpInv, SessionInv, Current, SessionIsCurrent
<1> QED  BY IpInvariance, <1>1, PTL

\* commit_verified_host_change only records the new address once a finalizing
\* command has got to its line of the flag, whether the run or an inspection
\* calls it, and whichever lines of the command have failed.
THEOREM RecordedHostIsConfirmed == Spec => []HostIsConfirmed
<1>1. IpInv => HostIsConfirmed
  BY DEF IpInv, ChangeInv, Guarded, HostIsConfirmed
<1> QED  BY IpInvariance, <1>1, PTL

\* A run that set_result has made succeeded has changed the record, and the new
\* address answers unless the timer's script takes it away, which has begun
\* before the flag or without one: whichever lines of the commands have failed.
THEOREM SuccessIsReached == Spec => []SucceededIsReached
<1>1. IpInv => SucceededIsReached
  BY DEF IpInv, ChangeInv, Succeeds, Reached, SucceededIsReached
<1> QED  BY IpInvariance, <1>1, PTL

\* Once systemd-run or at has set the timer, a network that was changed and not
\* confirmed is still going to be restored by the script, or it has failed.
THEOREM ChangesAreGuarded == Spec => []ChangeIsGuarded
<1>1. IpInv => ChangeIsGuarded
  <2> SUFFICES ASSUME IpInv, armed, ~crossed, ~passed, config # Old \/ Addresses # {Old} \/ gateway # Old
               PROVE  script \in {"scheduled", "stopped"} \cup (Undoing \ {"state"})
    BY DEF ChangeIsGuarded
  <2>1. Guarded /\ script \in {"idle", "scheduled", "done", "stopped"} \cup Undoing
    BY DEF IpInv, TypeInv, TypeOK, ChangeInv
  <2> QED  BY <2>1 DEF Guarded, Before, Undoing
<1> QED  BY IpInvariance, <1>1, PTL

=============================================================================
