----------------------------- MODULE MCIpChange -----------------------------
(* Bounds for TLC: three kinds of behaviours, told apart by a variable that   *)
(* never changes.  Lines of commands and of the script fail; or other users  *)
(* connect, another machine is given an address and the application exits;   *)
(* or they connect and another key is trusted.                               *)
EXTENDS IpChange, TLC

VARIABLE kind

\* Others ask for a connection once the record is about to change: before that
\* they meet what the run's own calls meet.
Changing == host = New \/ \E c \in Commander : step[c] = "record"
OthersAsk == \E b \in Browser : link[b] = "idle" /\ link'[b] # "idle"

LineWorks(c) ==
    /\ \/ Capture(c) \/ Schedule(c) \/ AddAddress(c) \/ Stage(c) \/ Persist(c) \/ Reapply(c) \/ Flush(c)
       \/ AddNew(c) \/ Route(c) \/ Flag(c) \/ CommitState(c) \/ CancelTimer(c) \/ CommandDies(c)
    /\ UNCHANGED <<client, records, pool, calls>>

\* The client stays until the command it has sent is through.
Waits(c) == command[c] \in DOMAIN NextLine => step'[c] = step[c] /\ command'[c] # "none"

LinesFail ==
    /\ \/ PoolStep \/ ScriptStep
       \/ \E c \in Commander : ClientStep(c) \/ CommandStep(c)
    /\ \A i \in Inspector : Waits(i)

OthersConnect ==
    /\ \/ PoolStep \/ (ScriptStep /\ script' # "stopped") \/ ExitAndOpen
       \/ \E c \in Caller : ClientStep(c)
       \/ \E c \in Commander : LineWorks(c)
       \/ \E a \in Lost : AddressTaken(a)
    /\ OthersAsk => Changing

KeysChange ==
    /\ \/ PoolStep \/ (ScriptStep /\ script' # "stopped")
       \/ \E c \in Caller : ClientStep(c)
       \/ LineWorks(Main)
       \/ \E a \in Lost : AddressTaken(a)
       \/ \E a \in Addr : TrustKey(a)
    /\ \A c \in Commander : Waits(c) /\ (c \in Inspector => step'[c] = "done")

MCInit == Init /\ kind \in {"lines", "others", "keys"}
MCNext == \/ kind = "lines"  /\ LinesFail /\ UNCHANGED kind
          \/ kind = "others" /\ OthersConnect /\ UNCHANGED kind
          \/ kind = "keys"   /\ KeysChange /\ UNCHANGED kind
MCSpec == MCInit /\ [][MCNext]_<<vars, kind>>

=============================================================================
