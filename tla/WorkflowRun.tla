---------------------------- MODULE WorkflowRun ----------------------------
(***************************************************************************)
(* One workflow run: the row of workflow_runs, the attempts of its nodes   *)
(* (workflow_node_runs), the in-memory WorkflowRunRegistry, and the calls  *)
(* that drive it.  One call, Starter, is WorkflowService::run; the others  *)
(* are retry_failed_node, issued by the user at any time.  Every statement *)
(* on the database and every wait is a step of its own, because calls are  *)
(* async and interleave there.  An event is appended to the database and   *)
(* sent to the window between two steps; when that fails the call returns  *)
(* at its next step (Fault).                                               *)
(*                                                                         *)
(* The graph is a constant: require_valid_workflow admits only acyclic     *)
(* graphs with one start node and unambiguous branches, and a run refers   *)
(* to an immutable version.  Results of nodes are abstracted to a status,  *)
(* whether the error is retryable and, for conditions, the branch taken.   *)
(***************************************************************************)
EXTENDS Integers, Sequences, FiniteSets

CONSTANTS
    Node,       \* the nodes of the definition
    Start,      \* the start node
    Kind,       \* start, stop, condition, step (task, script, download, log
                \* search, plain upload) or guarded (upload with restore point)
    Source,     \* for a condition: the node whose result it looks at
    Edge,       \* [from, to, branch]
    Caller,     \* the calls that may be made for this run
    Starter,    \* the one that runs the workflow; the others retry
    MaxFaults,  \* bound: statements or event deliveries that fail
    MaxExits    \* bound: exits of the application

ASSUME GraphAssumption ==
    /\ Start \in Node
    /\ Kind \in [Node -> {"start", "stop", "condition", "step", "guarded"}]
    /\ Source \in [Node -> Node]
    /\ Edge \subseteq [from : Node, to : Node, branch : {"success", "true", "false"}]
\* What validate_workflow has admitted: nothing leads to the start node, only
\* conditions branch, each both ways, and the nodes have an order.
ASSUME ValidAssumption ==
    /\ IsFiniteSet(Node)
    /\ \A e \in Edge : e.to # Start
    /\ \A e, f \in Edge : e.from = f.from /\ e.branch = f.branch => e = f
    /\ \A e \in Edge : Kind[e.from] = "condition" <=> e.branch # "success"
    /\ \A n \in Node : Kind[n] = "condition" =>
          \A b \in {"true", "false"} : \E e \in Edge : e.from = n /\ e.branch = b
    /\ \E rank \in [Node -> 0..Cardinality(Node)] : \A e \in Edge : rank[e.from] < rank[e.to]
ASSUME CallAssumption == Starter \in Caller
ASSUME BoundAssumption == MaxFaults \in Nat /\ MaxExits \in Nat

VARIABLES
    row,        \* [status, current, retryable] of workflow_runs
    attempts,   \* per node its attempts in order: [status, retryable]
    holder,     \* the call whose token the registry entry of the run holds
    child,      \* the execution the entry names: <<call, node>>
    cancelled,  \* the calls whose token is cancelled
    signals,    \* executions a canceller has read and will cancel next
    stopped,    \* executions whose own token is cancelled
    pc,         \* the next step of each call
    at,         \* the node a call is at
    attempt,    \* the number of the attempt it works on
    visited,    \* nodes it has dealt with
    known,      \* nodes whose results it has (contexts)
    out,        \* the outcome of the node: [status, retryable, branch]
    round,      \* how often the run was started or resumed
    seen,       \* the round a retry read
    stale,      \* a retry resumed with what it had read before another one
    up, faults, exits

db      == <<row, attempts>>
memory  == <<holder, child, cancelled, signals, stopped>>
locals  == <<at, attempt, visited, known, out>>
history == <<round, seen, stale>>
world   == <<up, faults, exits>>
vars    == <<db, memory, pc, locals, history, world>>

NoCall == "none"
NoNode == "no node"
NoExec == <<>>

NodeStatus == {"running", "succeeded", "failed", "cancelled", "uncertain", "skipped"}
RunStatus  == {"absent", "queued", "running", "paused", "succeeded", "cancelled", "uncertain"}
Ending     == {"succeeded", "failed", "cancelled", "uncertain"}
Outcome    == [status : Ending, retryable : BOOLEAN, branch : {"success", "true", "false"}]

Succeeds(branch) == [status |-> "succeeded", retryable |-> FALSE, branch |-> branch]
Fails(retryable) == [status |-> "failed", retryable |-> retryable, branch |-> "success"]
Ends(status)     == [status |-> status, retryable |-> FALSE, branch |-> "success"]

Goto(c, label) == pc' = [pc EXCEPT ![c] = label]

\* Steps between the registration of a call and its return.
Loop    == {"current", "attempt", "check", "capture", "connect", "work",
            "finish", "skip", "close"}
Driving == {"mark", "announce", "remove"} \cup Loop

\* Where a call goes on an error: continue_retry is followed by
\* registry.remove, run and the start of a retry return with ?.
AfterError(c) == IF c # Starter /\ pc[c] \in Loop THEN "remove" ELSE "done"

-----------------------------------------------------------------------------
(* The start of a call.                                                    *)

\* preflight: the definition, the trust in the server, the confirmation of
\* dangerous steps or the capabilities of the server are not as required.
Refuse(c) ==
    /\ \/ pc[c] = "idle" /\ c = Starter /\ up
       \/ pc[c] = "resume"
    /\ Goto(c, "done")
    /\ UNCHANGED <<db, memory, locals, history, world>>

\* preflight succeeds and create_run inserts the row.
CreateRun(c) ==
    /\ pc[c] = "idle" /\ c = Starter /\ row.status = "absent" /\ up
    /\ row' = [row EXCEPT !.status = "queued"]
    /\ at' = [at EXCEPT ![c] = Start]
    /\ Goto(c, "register")
    /\ UNCHANGED <<attempts, memory, attempt, visited, known, out, history, world>>

\* registry.register.
Register(c) ==
    /\ pc[c] = "register"
    /\ IF holder = NoCall
         THEN holder' = c /\ Goto(c, IF c = Starter THEN "mark" ELSE "announce")
         ELSE holder' = holder /\ Goto(c, "collided")
    /\ UNCHANGED <<db, child, cancelled, signals, stopped, locals, history, world>>

\* mark_run_running.
MarkRunning(c) ==
    /\ pc[c] = "mark"
    /\ IF row.status = "queued"
         THEN /\ row' = [row EXCEPT !.status = "running", !.current = Start]
              /\ round' = round + 1
              /\ Goto(c, "current")
         ELSE UNCHANGED <<row, round>> /\ Goto(c, AfterError(c))
    /\ UNCHANGED <<attempts, memory, locals, seen, stale, world>>

\* latest_node_runs.
Latest(n) == attempts[n][Len(attempts[n])]
Done(status) == {n \in Node : attempts[n] # <<>> /\ Latest(n).status \in status}

\* retry_failed_node up to preflight: the run and its nodes are read once.
CanRetry ==
    /\ row.status = "paused" /\ row.retryable
    /\ attempts[row.current] # <<>>
    /\ Latest(row.current).status = "failed" /\ Latest(row.current).retryable
ReadRun(c) ==
    /\ pc[c] = "idle" /\ c # Starter /\ up
    /\ CanRetry
    /\ at' = [at EXCEPT ![c] = row.current]
    /\ known' = [known EXCEPT ![c] = Done({"succeeded"})]
    /\ visited' = [visited EXCEPT ![c] = Done({"succeeded", "skipped"})]
    /\ seen' = [seen EXCEPT ![c] = round]
    /\ Goto(c, "resume")
    /\ UNCHANGED <<db, memory, attempt, out, round, stale, world>>

\* resume_paused_run, after preflight has connected to the server.
CanResume == row.status = "paused" /\ row.retryable
Resume(c) ==
    /\ pc[c] = "resume"
    /\ IF CanResume
         THEN /\ row' = [row EXCEPT !.status = "running", !.retryable = FALSE]
              /\ stale' = (stale \/ seen[c] # round)
              /\ round' = round + 1
              /\ Goto(c, "register")
         ELSE UNCHANGED <<row, stale, round>> /\ Goto(c, "done")
    /\ UNCHANGED <<attempts, memory, locals, seen, world>>

\* The event of a retry; only its failure matters.
Announce(c) ==
    /\ pc[c] = "announce"
    /\ Goto(c, "current")
    /\ UNCHANGED <<db, memory, locals, history, world>>

-----------------------------------------------------------------------------
(* The loop over the nodes, the same in run and continue_retry.            *)

\* set_current_node.
SetCurrent(c) ==
    /\ pc[c] = "current"
    /\ IF row.status = "running"
         THEN row' = [row EXCEPT !.current = at[c]] /\ Goto(c, "attempt")
         ELSE row' = row /\ Goto(c, AfterError(c))
    /\ UNCHANGED <<attempts, memory, locals, history, world>>

\* start_node_attempt.
StartAttempt(c) ==
    /\ pc[c] = "attempt"
    /\ attempts' = [attempts EXCEPT ![at[c]] =
                       Append(@, [status |-> "running", retryable |-> FALSE])]
    /\ attempt' = [attempt EXCEPT ![c] = Len(attempts[at[c]]) + 1]
    /\ Goto(c, "check")
    /\ UNCHANGED <<row, memory, at, visited, known, out, history, world>>

\* execute_node for the nodes that need no server.
LocalOutcomes(c) ==
    CASE Kind[at[c]] \in {"start", "stop"} -> {Succeeds("success")}
      [] Kind[at[c]] = "condition" ->
            IF Source[at[c]] \in known[c]
              THEN {Succeeds("true"), Succeeds("false"), Fails(FALSE)}
              ELSE {Fails(FALSE)}
      [] OTHER -> {}

\* cancel.is_cancelled and the beginning of execute_node.
CheckCancel(c) ==
    /\ pc[c] = "check"
    /\ \/ /\ c \in cancelled
          /\ out' = [out EXCEPT ![c] = Ends("cancelled")]
          /\ Goto(c, "finish")
       \/ /\ c \notin cancelled
          /\ \E o \in LocalOutcomes(c) : out' = [out EXCEPT ![c] = o]
          /\ Goto(c, "finish")
       \/ /\ c \notin cancelled /\ Kind[at[c]] \in {"step", "guarded"}
          /\ Goto(c, IF Kind[at[c]] = "guarded" THEN "capture" ELSE "connect")
          /\ out' = out
    /\ UNCHANGED <<db, memory, at, attempt, visited, known, history, world>>

\* RestorePointService::capture, which is given the token of the run: an
\* interrupted capture is a failure, and not a retryable one.
Capture(c) ==
    /\ pc[c] = "capture"
    /\ \/ Goto(c, "connect") /\ out' = out
       \/ /\ \E r \in IF c \in cancelled THEN {FALSE} ELSE BOOLEAN :
                out' = [out EXCEPT ![c] = Fails(r)]
          /\ Goto(c, "finish")
    /\ UNCHANGED <<db, memory, at, attempt, visited, known, history, world>>

\* The adapter creates the execution and connects; the Started event makes
\* ChildTrackingSink call set_child_now.
Connect(c) ==
    /\ pc[c] = "connect"
    /\ \/ /\ holder # NoCall /\ child = NoExec
          /\ child' = <<c, at[c]>>
          /\ out' = out
          /\ Goto(c, "work")
       \/ /\ \E r \in BOOLEAN : out' = [out EXCEPT ![c] = Fails(r)]
          /\ Goto(c, "finish")
          /\ child' = child
    /\ UNCHANGED <<db, holder, cancelled, signals, stopped, at, attempt, visited, known, history, world>>

\* The remote command or transfer ends, by itself, by its timeout or because
\* its token was cancelled; the sink clears the child and the execution
\* leaves its registry.
Results(c) ==
    {Succeeds("success"), Fails(TRUE), Fails(FALSE), Ends("uncertain")}
        \cup IF <<c, at[c]>> \in stopped THEN {Ends("cancelled")} ELSE {}
Work(c) ==
    /\ pc[c] = "work"
    /\ \E o \in Results(c) : out' = [out EXCEPT ![c] = o]
    /\ child' = IF child = <<c, at[c]>> THEN NoExec ELSE child
    /\ stopped' = stopped \ {<<c, at[c]>>}
    /\ Goto(c, "finish")
    /\ UNCHANGED <<db, holder, cancelled, signals, at, attempt, visited, known, history, world>>

\* next_node: the edge of the branch taken, if there is one.
Successors(n, branch) == {e.to : e \in {x \in Edge : x.from = n /\ x.branch = branch}}

\* finish_node (the link to the execution included), then the way on.
Recorded(c) == [attempts EXCEPT ![at[c]][attempt[c]] =
                   [status |-> out[c].status, retryable |-> out[c].retryable]]
\* Mutant: a cancelled node ends the call without finish_run.
FinishNodeCancelledReturns(c) ==
    /\ pc[c] = "finish"
    /\ attempts' = Recorded(c)
    /\ visited' = [visited EXCEPT ![c] = @ \cup {at[c]}]
    /\ LET next == Successors(at[c], out[c].branch) IN
       IF out[c].status # "succeeded"
         THEN Goto(c, IF out[c].status = "cancelled" THEN "remove" ELSE "close")
              /\ UNCHANGED <<at, known>>
         ELSE /\ known' = [known EXCEPT ![c] = @ \cup {at[c]}]
              /\ IF next = {}
                   THEN Goto(c, "skip") /\ at' = at
                   ELSE Goto(c, "current") /\ \E n \in next : at' = [at EXCEPT ![c] = n]
    /\ UNCHANGED <<row, memory, attempt, out, history, world>>
FinishNode(c) ==
    /\ pc[c] = "finish"
    /\ attempts' = Recorded(c)
    /\ visited' = [visited EXCEPT ![c] = @ \cup {at[c]}]
    /\ LET next == Successors(at[c], out[c].branch) IN
       IF out[c].status # "succeeded"
         THEN Goto(c, "close") /\ UNCHANGED <<at, known>>
         ELSE /\ known' = [known EXCEPT ![c] = @ \cup {at[c]}]
              /\ IF next = {}
                   THEN Goto(c, "skip") /\ at' = at
                   ELSE Goto(c, "current") /\ \E n \in next : at' = [at EXCEPT ![c] = n]
    /\ UNCHANGED <<row, memory, attempt, out, history, world>>

\* record_skipped: every node that was not visited gets a skipped attempt.
RecordSkipped(c) ==
    /\ pc[c] = "skip"
    /\ \E n \in Node \ visited[c] :
          /\ attempts' = [attempts EXCEPT ![n] =
                             Append(@, [status |-> "skipped", retryable |-> FALSE])]
          /\ visited' = [visited EXCEPT ![c] = @ \cup {n}]
    /\ UNCHANGED <<row, memory, pc, at, attempt, known, out, history, world>>
\* Mutant: the loop over the nodes stops early.
AllRecordedEarly(c) ==
    /\ pc[c] = "skip"
    /\ Goto(c, "close")
    /\ UNCHANGED <<db, memory, locals, history, world>>
AllRecorded(c) ==
    /\ pc[c] = "skip" /\ visited[c] = Node
    /\ Goto(c, "close")
    /\ UNCHANGED <<db, memory, locals, history, world>>

\* finish_run: a failed node pauses the run.
RunStatusFor(status) == IF status = "failed" THEN "paused" ELSE status
FinishRun(c) ==
    /\ pc[c] = "close"
    /\ IF row.status = "running"
         THEN /\ row' = [row EXCEPT !.status = RunStatusFor(out[c].status),
                                    !.retryable = out[c].retryable]
              /\ Goto(c, "remove")
         ELSE row' = row /\ Goto(c, AfterError(c))
    /\ UNCHANGED <<attempts, memory, locals, history, world>>

\* registry.remove and the return.
Remove(c) ==
    /\ pc[c] = "remove"
    /\ holder' = NoCall /\ child' = NoExec
    /\ cancelled' = cancelled \ {c}
    /\ Goto(c, "done")
    /\ UNCHANGED <<db, signals, stopped, locals, history, world>>

-----------------------------------------------------------------------------
(* Cancellation, failures, exit and start.                                 *)

\* WorkflowService::cancel: the token first, then the child it names.
Cancel ==
    /\ up /\ holder # NoCall
    /\ cancelled' = cancelled \cup {holder}
    /\ signals' = IF child = NoExec THEN signals ELSE signals \cup {child}
    /\ UNCHANGED <<db, holder, child, stopped, pc, locals, history, world>>

\* ExecutionRegistry::cancel; an execution that has ended is not found.
CancelChild ==
    /\ \E e \in signals :
          /\ signals' = signals \ {e}
          /\ stopped' = IF pc[e[1]] = "work" /\ at[e[1]] = e[2]
                          THEN stopped \cup {e} ELSE stopped
    /\ UNCHANGED <<db, holder, child, cancelled, pc, locals, history, world>>

\* A statement or the delivery of an event fails and the call returns.
Fault(c) ==
    /\ faults < MaxFaults
    /\ pc[c] \in ({"register", "resume"} \cup Driving) \ {"capture", "connect", "work"}
    /\ faults' = faults + 1
    /\ Goto(c, IF pc[c] = "remove" /\ c # Starter THEN "remove" ELSE AfterError(c))
    /\ UNCHANGED <<db, memory, locals, history, up, exits>>

\* The process ends; the tables survive.
Exit ==
    /\ up /\ exits < MaxExits
    /\ up' = FALSE /\ exits' = exits + 1
    /\ pc' = [c \in Caller |-> IF pc[c] = "idle" THEN "idle" ELSE "done"]
    /\ holder' = NoCall /\ child' = NoExec
    /\ cancelled' = {} /\ signals' = {} /\ stopped' = {}
    /\ UNCHANGED <<db, locals, history, faults>>

\* recover_interrupted, when the application opens its services.
\* Mutant: the nodes are left as they are.
RecoverNoAttempt(a) == a
RecoverAttempt(a) == IF a.status = "running"
                       THEN [status |-> "uncertain", retryable |-> TRUE] ELSE a
Open ==
    /\ ~up /\ up' = TRUE
    /\ row' = IF row.status = "running"
                THEN [row EXCEPT !.status = "uncertain", !.retryable = TRUE] ELSE row
    /\ attempts' = [n \in Node |-> [i \in 1..Len(attempts[n]) |-> RecoverAttempt(attempts[n][i])]]
    /\ UNCHANGED <<memory, pc, locals, history, faults, exits>>

-----------------------------------------------------------------------------
Init ==
    /\ row = [status |-> "absent", current |-> NoNode, retryable |-> FALSE]
    /\ attempts = [n \in Node |-> <<>>]
    /\ holder = NoCall /\ child = NoExec
    /\ cancelled = {} /\ signals = {} /\ stopped = {}
    /\ pc = [c \in Caller |-> "idle"] /\ at = [c \in Caller |-> NoNode]
    /\ attempt = [c \in Caller |-> 0]
    /\ visited = [c \in Caller |-> {}] /\ known = [c \in Caller |-> {}]
    /\ out = [c \in Caller |-> Ends("succeeded")]
    /\ round = 0 /\ seen = [c \in Caller |-> 0] /\ stale = FALSE
    /\ up = TRUE /\ faults = 0 /\ exits = 0

\* A call that was made goes on.
Proceed(c) ==
    \/ Register(c) \/ MarkRunning(c) \/ Resume(c) \/ Announce(c)
    \/ SetCurrent(c) \/ StartAttempt(c) \/ CheckCancel(c)
    \/ Capture(c) \/ Connect(c) \/ Work(c) \/ FinishNode(c)
    \/ RecordSkipped(c) \/ AllRecorded(c) \/ FinishRun(c) \/ Remove(c)

Next ==
    \/ \E c \in Caller : CreateRun(c) \/ ReadRun(c) \/ Refuse(c) \/ Proceed(c) \/ Fault(c)
    \/ Cancel \/ CancelChild \/ Exit \/ Open

Spec == Init /\ [][Next]_vars

\* tokio polls every call that can go on, and connections, commands,
\* transfers and statements all end by themselves or by a timeout.
FairSpec == Spec /\ \A c \in Caller : WF_vars(Proceed(c))

-----------------------------------------------------------------------------
(* Properties.                                                             *)

Row == [status : RunStatus, current : Node \cup {NoNode}, retryable : BOOLEAN]
Attempt == [status : NodeStatus, retryable : BOOLEAN]
PC == {"idle", "register", "resume", "collided", "done"} \cup Driving
TypeOK ==
    /\ row \in Row
    /\ attempts \in [Node -> Seq(Attempt)]
    /\ holder \in Caller \cup {NoCall}
    /\ child \in (Caller \X Node) \cup {NoExec}
    /\ cancelled \subseteq Caller
    /\ signals \subseteq Caller \X Node /\ stopped \subseteq Caller \X Node
    /\ pc \in [Caller -> PC]
    /\ at \in [Caller -> Node \cup {NoNode}]
    /\ attempt \in [Caller -> Nat]
    /\ visited \in [Caller -> SUBSET Node] /\ known \in [Caller -> SUBSET Node]
    /\ out \in [Caller -> Outcome]
    /\ round \in Nat /\ seen \in [Caller -> Nat] /\ stale \in BOOLEAN
    /\ up \in BOOLEAN /\ faults \in 0..MaxFaults /\ exits \in 0..MaxExits

\* Execution is strictly serial, whatever calls, errors and restarts meet: an
\* attempt that is running is the last one of the node the row names, and the
\* row is running; so there is never a second one, nor one in a run that has
\* ended, is paused or was recovered.
Serial ==
    \A n \in Node : \A i \in 1..Len(attempts[n]) :
        attempts[n][i].status = "running" =>
            row.status = "running" /\ row.current = n /\ i = Len(attempts[n])

\* What a retry relies on: the two tables, written by two statements, agree.
\* The node named by a paused run failed, and the run is retryable exactly
\* when the failure is.
PausedAgrees ==
    row.status = "paused" =>
        /\ row.current \in Node /\ attempts[row.current] # <<>>
        /\ Latest(row.current).status = "failed"
        /\ Latest(row.current).retryable = row.retryable

\* The edges taken lead from the start node through all of the path: each of
\* its nodes is left and entered once, unless it ends or begins the path.
OneWay(taken, path) ==
    /\ Start \in path
    /\ \A e \in taken : e.from \in path /\ e.to \in path
    /\ \A e, f \in taken : e.from = f.from \/ e.to = f.to => e = f
    /\ \A n \in path : (\E e \in Edge : e.from = n) => \E e \in taken : e.from = n
    /\ \A n \in path \ {Start} : \E e \in taken : e.to = n

\* A run shown as succeeded has gone one way through its graph, over all its
\* attempts, and all the other nodes are skipped.  Unless a retry resumed with
\* stale results.
SucceededIsPath ==
    row.status = "succeeded" /\ ~stale =>
        LET path == Done({"succeeded"}) IN
        /\ \E taken \in SUBSET Edge : OneWay(taken, path)
        /\ path \cup Done({"skipped"}) = Node

\* A run shown as running has a call that drives it, unless a statement
\* failed or a retry resumed the run before the call that paused it had left
\* the registry.  (After an exit the next start recovers it.)
RunningIsDriven ==
    row.status = "running" /\ up /\ faults = 0 =>
        \/ \E c \in Caller : pc[c] \in {"register"} \cup (Driving \ {"remove"})
        \/ \E c \in Caller : pc[c] = "collided"

\* Every call that was made returns.
EveryCallReturns ==
    \A c \in Caller : pc[c] # "idle" ~> pc[c] \in {"done", "collided"}

-----------------------------------------------------------------------------
(* What the documentation says and the code does not do.                   *)

\* "A retry creates only a new attempt of the failed node": an attempt that
\* was followed by another one of the same node had failed.
OnlyFailedRetried ==
    \A n \in Node : \A i \in 1..(Len(attempts[n]) - 1) :
        attempts[n][i].status = "failed"
=============================================================================
