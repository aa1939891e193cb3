--------------------------- MODULE WorkflowProofs ---------------------------
(***************************************************************************)
(* The two models of a workflow run, for every graph, every set of calls   *)
(* and every bound.                                                        *)
(*                                                                         *)
(* WorkflowRun: TypeOK, Serial, PausedAgrees, RunningIsDriven and          *)
(* SucceededIsPath.  None but the first is inductive: they rest on who may *)
(* write.  A call owns the run from the statement that makes the row       *)
(* running until it has finished the run or given up.  The conditions on   *)
(* the status in mark_run_running and resume_paused_run admit one owner at *)
(* a time, and only the owner touches the attempts and the current node.   *)
(*                                                                         *)
(* WorkflowRestore: RestoreTypeOK, RestoresOnce and RolledBackRestored.    *)
(* RestoresOnce needs to know that a point being captured is nobody's to   *)
(* restore (Capturing).  RolledBackRestored holds because, per path, the     *)
(* oldest point that can still be restored saved what was there before the *)
(* run, and the path is as it was when none is left (Sound): a capture     *)
(* adds the newest, and a rollback takes the newest away after it has put  *)
(* back what that one saved.  A restore that fails breaks this for its     *)
(* path; then the run is never shown as rolled back (Recoverable).         *)
(***************************************************************************)
EXTENDS WorkflowRun, WorkflowRestore, FiniteSetTheorems, SequenceTheorems, TLAPS

-----------------------------------------------------------------------------
(* The run.                                                                *)

\* The owner is past the statement that set the row to running.
Owns(c) ==
    \/ pc[c] \in Loop \cup {"announce"}
    \/ pc[c] = "register" /\ c # Starter
Sole == \A c, d \in Caller : Owns(c) /\ Owns(d) => c = d
Halted == ~up => \A c \in Caller : pc[c] \in {"idle", "done"}

\* The steps between start_node_attempt and finish_node, and the ones at
\* which the row names the node the call is at.
InAttempt == {"check", "capture", "connect", "work", "finish"}
AtNode == {"attempt", "skip", "close"} \cup InAttempt
Quiet == \A n \in Node : \A i \in 1..Len(attempts[n]) : attempts[n][i].status # "running"

\* What the place of a call says of the tables.
Placed(c) ==
    /\ Owns(c) => row.status = "running" /\ at[c] \in Node
    /\ pc[c] \in {"register", "mark", "resume"} => at[c] \in Node
    /\ pc[c] \in AtNode => row.current = at[c]
    /\ pc[c] \in InAttempt => attempt[c] = Len(attempts[at[c]]) /\ attempt[c] >= 1
    /\ Owns(c) /\ pc[c] \notin InAttempt => Quiet
    /\ pc[c] = "skip" => out[c].status = "succeeded"
    /\ pc[c] = "close" /\ out[c].status = "failed" =>
          /\ attempts[at[c]] # <<>>
          /\ Latest(at[c]) = [status |-> "failed", retryable |-> out[c].retryable]

RunInv ==
    /\ TypeOK /\ Sole /\ Halted /\ (\A c \in Caller : Placed(c))
    /\ Serial /\ PausedAgrees

-----------------------------------------------------------------------------
(* What all the steps of a call have in common.                            *)

\* Only the owner writes, so a step of one call disturbs no other.
LEMMA Frame ==
    ASSUME RunInv, NEW c \in Caller, up, up' = up,
           \A d \in Caller \ {c} : /\ pc'[d] = pc[d] /\ at'[d] = at[d]
                                   /\ attempt'[d] = attempt[d] /\ out'[d] = out[d],
           Owns(c) \/ row.status # "running" \/ (row' = row /\ attempts' = attempts),
           Owns(c)' => Owns(c) \/ row.status # "running",
           Placed(c)'
    PROVE  Sole' /\ Halted' /\ (\A d \in Caller : Placed(d)')
<1>1. ASSUME NEW d \in Caller \ {c} PROVE Owns(d)' <=> Owns(d)
  BY DEF Owns
<1>2. ASSUME NEW d \in Caller \ {c}, Owns(d)
      PROVE  ~Owns(c) /\ row.status = "running" /\ row' = row /\ attempts' = attempts
  <2>1. ~Owns(c) /\ row.status = "running"
    BY <1>2 DEF RunInv, Sole, Placed
  <2> QED  BY <2>1
<1>3. Sole'
  <2> SUFFICES ASSUME NEW d \in Caller, NEW e \in Caller, Owns(d)', Owns(e)', d # e PROVE FALSE
    BY DEF Sole
  <2>1. CASE d # c /\ e # c
    BY <2>1, <1>1 DEF RunInv, Sole
  <2>2. CASE d = c
    <3>1. Owns(e) /\ e # c
      BY <1>1, <2>2
    <3>2. ~Owns(c) /\ row.status = "running"
      BY <1>2, <3>1
    <3> QED  BY <2>2, <3>2
  <2>3. CASE e = c
    <3>1. Owns(d) /\ d # c
      BY <1>1, <2>3
    <3>2. ~Owns(c) /\ row.status = "running"
      BY <1>2, <3>1
    <3> QED  BY <2>3, <3>2
  <2> QED  BY <2>1, <2>2, <2>3
<1>4. Halted'
  BY DEF Halted
<1>5. ASSUME NEW d \in Caller \ {c} PROVE Placed(d)'
  <2>0. Placed(d)
    BY DEF RunInv
  <2>1. CASE Owns(d)
    <3>1. row' = row /\ attempts' = attempts /\ Owns(d)'
      BY <1>1, <1>2, <2>1
    <3> QED  BY <2>0, <2>1, <3>1 DEF Placed, Quiet, Latest
  <2>2. CASE ~Owns(d)
    <3>1. pc[d] \notin AtNode
      BY <2>2 DEF Owns, AtNode, InAttempt, Loop
    <3>2. ~Owns(d)' /\ pc'[d] \notin AtNode
      BY <1>1, <2>2, <3>1
    <3> QED  BY <2>0, <3>1, <3>2 DEF Placed, AtNode, InAttempt
  <2> QED  BY <2>1, <2>2
<1> QED  BY <1>3, <1>4, <1>5

\* A call that is at work finds the application up.
LEMMA CallsAreUp ==
    ASSUME RunInv, NEW c \in Caller, pc[c] \notin {"idle", "done"}
    PROVE  up
BY DEF RunInv, Halted

\* A step that leaves the tables alone keeps what is said of them.
LEMMA TablesKept ==
    ASSUME RunInv, UNCHANGED db
    PROVE  Serial' /\ PausedAgrees'
BY DEF RunInv, Serial, PausedAgrees, Latest, db

\* The outcomes of nodes are outcomes.
LEMMA OutcomeTypes ==
    /\ \A b \in {"success", "true", "false"} : Succeeds(b) \in Outcome
    /\ \A r \in BOOLEAN : Fails(r) \in Outcome
    /\ \A s \in Ending : Ends(s) \in Outcome
    /\ \A o \in Outcome : [status |-> o.status, retryable |-> o.retryable] \in Attempt
<1>1. ASSUME NEW b \in {"success", "true", "false"} PROVE Succeeds(b) \in Outcome
  BY DEF Succeeds, Outcome, Ending
<1>2. ASSUME NEW r \in BOOLEAN PROVE Fails(r) \in Outcome
  <2>1. "failed" \in Ending /\ "success" \in {"success", "true", "false"}
    BY DEF Ending
  <2> QED  BY <2>1, Zenon DEF Fails, Outcome
<1>3. ASSUME NEW s \in Ending PROVE Ends(s) \in Outcome
  BY DEF Ends, Outcome
<1>4. ASSUME NEW o \in Outcome
      PROVE  [status |-> o.status, retryable |-> o.retryable] \in Attempt
  <2>1. o.status \in NodeStatus /\ o.retryable \in BOOLEAN
    BY DEF Outcome, Ending, NodeStatus
  <2> QED  BY <2>1, Zenon DEF Attempt
<1> QED  BY <1>1, <1>2, <1>3, <1>4

-----------------------------------------------------------------------------
(* The steps.                                                              *)

\* registry.register: a retry that is refused gives the run up.
LEMMA RegisterStep ==
    ASSUME RunInv, NEW c \in Caller, Register(c)
    PROVE  RunInv'
<1>1. TypeOK'
  BY CallAssumption DEF RunInv, TypeOK, PC, Register, Loop, Driving, InAttempt, AtNode, db, memory, locals, history, world, Goto
<1>2. UNCHANGED db
  BY DEF Register, db
<1>3. Placed(c)'
  BY <1>2, CallAssumption DEF RunInv, TypeOK, Placed, Owns, Quiet, Latest, Register, Loop, Driving, InAttempt, AtNode, db, memory, locals, history, world, Goto
<1>4. Sole' /\ Halted' /\ (\A d \in Caller : Placed(d)')
  BY <1>2, <1>3, CallsAreUp, Frame DEF RunInv, TypeOK, Owns, Register, Loop, Driving, InAttempt, AtNode, db, memory, locals, history, world, Goto
<1> QED  BY <1>1, <1>2, <1>4, TablesKept DEF RunInv

\* The event of a retry.
LEMMA AnnounceStep ==
    ASSUME RunInv, NEW c \in Caller, Announce(c)
    PROVE  RunInv'
<1>1. TypeOK'
  BY CallAssumption DEF RunInv, TypeOK, PC, Announce, Loop, Driving, InAttempt, AtNode, db, memory, locals, history, world, Goto
<1>2. UNCHANGED db
  BY DEF Announce, db
<1>a. Placed(c) /\ Owns(c)
  BY DEF RunInv, Owns, Announce
<1>3. Placed(c)'
  BY <1>2, <1>a DEF RunInv, TypeOK, Placed, Owns, Quiet, Latest, Announce, Loop, Driving, InAttempt, AtNode, db, memory, locals, history, world, Goto
<1>4. Sole' /\ Halted' /\ (\A d \in Caller : Placed(d)')
  BY <1>2, <1>3, CallsAreUp, Frame DEF RunInv, TypeOK, Owns, Announce, Loop, Driving, InAttempt, AtNode, db, memory, locals, history, world, Goto
<1> QED  BY <1>1, <1>2, <1>4, TablesKept DEF RunInv

\* The check of the token and the local nodes.
LEMMA CheckCancelStep ==
    ASSUME RunInv, NEW c \in Caller, CheckCancel(c)
    PROVE  RunInv'
<1>0. out' \in [Caller -> Outcome] /\ (\A d \in Caller \ {c} : out'[d] = out[d])
  <2>1. ASSUME NEW o \in LocalOutcomes(c) PROVE o \in Outcome
    BY OutcomeTypes DEF LocalOutcomes
  <2>2. Ends("cancelled") \in Outcome
    BY OutcomeTypes DEF Ending
  <2> QED  BY <2>1, <2>2 DEF CheckCancel, RunInv, TypeOK
<1>1. TypeOK'
  BY <1>0, CallAssumption DEF RunInv, TypeOK, PC, CheckCancel, Loop, Driving, InAttempt, AtNode, db, memory, locals, history, world, Goto
<1>2. UNCHANGED db
  BY DEF CheckCancel, db
<1>3. Placed(c)'
  BY <1>2, <1>0, CallAssumption DEF RunInv, TypeOK, Placed, Owns, Quiet, Latest, CheckCancel, Loop, Driving, InAttempt, AtNode, db, memory, locals, history, world, Goto
<1>4. Sole' /\ Halted' /\ (\A d \in Caller : Placed(d)')
  BY <1>2, <1>3, CallsAreUp, Frame DEF RunInv, TypeOK, Owns, CheckCancel, Loop, Driving, InAttempt, AtNode, db, memory, locals, history, world, Goto
<1> QED  BY <1>1, <1>2, <1>4, TablesKept DEF RunInv

\* The restore point is captured or not.
LEMMA CaptureStep ==
    ASSUME RunInv, NEW c \in Caller, Capture(c)
    PROVE  RunInv'
<1>0. out' \in [Caller -> Outcome] /\ (\A d \in Caller \ {c} : out'[d] = out[d])
  <2>1. ASSUME NEW r \in IF c \in cancelled THEN {FALSE} ELSE BOOLEAN PROVE Fails(r) \in Outcome
    BY OutcomeTypes, Zenon
  <2> QED  BY <2>1 DEF Capture, RunInv, TypeOK
<1>1. TypeOK'
  BY <1>0, CallAssumption DEF RunInv, TypeOK, PC, Capture, Loop, Driving, InAttempt, AtNode, db, memory, locals, history, world, Goto
<1>2. UNCHANGED db
  BY DEF Capture, db
<1>3. Placed(c)'
  BY <1>2, <1>0, CallAssumption DEF RunInv, TypeOK, Placed, Owns, Quiet, Latest, Capture, Loop, Driving, InAttempt, AtNode, db, memory, locals, history, world, Goto
<1>4. Sole' /\ Halted' /\ (\A d \in Caller : Placed(d)')
  BY <1>2, <1>3, CallsAreUp, Frame DEF RunInv, TypeOK, Owns, Capture, Loop, Driving, InAttempt, AtNode, db, memory, locals, history, world, Goto
<1> QED  BY <1>1, <1>2, <1>4, TablesKept DEF RunInv

\* The child is registered, or the connection fails.
LEMMA ConnectStep ==
    ASSUME RunInv, NEW c \in Caller, Connect(c)
    PROVE  RunInv'
<1>0. out' \in [Caller -> Outcome] /\ (\A d \in Caller \ {c} : out'[d] = out[d])
  BY OutcomeTypes DEF Connect, RunInv, TypeOK
<1>a. at[c] \in Node
  BY DEF RunInv, Placed, Owns, Loop, Connect
<1>1. TypeOK'
  <2>1. child' \in (Caller \X Node) \cup {NoExec}
    BY <1>a DEF RunInv, TypeOK, Connect
  <2>2. pc' \in [Caller -> PC]
    BY DEF RunInv, TypeOK, PC, Driving, Loop, Connect, Goto
  <2> QED  BY <1>0, <2>1, <2>2 DEF RunInv, TypeOK, Connect, db, history, world
<1>2. UNCHANGED db
  BY DEF Connect, db
<1>3. Placed(c)'
  BY <1>2, <1>0, CallAssumption DEF RunInv, TypeOK, Placed, Owns, Quiet, Latest, Connect, Loop, Driving, InAttempt, AtNode, db, memory, locals, history, world, Goto
<1>4. Sole' /\ Halted' /\ (\A d \in Caller : Placed(d)')
  BY <1>2, <1>3, CallsAreUp, Frame DEF RunInv, TypeOK, Owns, Connect, Loop, Driving, InAttempt, AtNode, db, memory, locals, history, world, Goto
<1> QED  BY <1>1, <1>2, <1>4, TablesKept DEF RunInv

\* The remote work ends.
LEMMA WorkStep ==
    ASSUME RunInv, NEW c \in Caller, Work(c)
    PROVE  RunInv'
<1>0. out' \in [Caller -> Outcome] /\ (\A d \in Caller \ {c} : out'[d] = out[d])
  <2>1. ASSUME NEW o \in Results(c) PROVE o \in Outcome
    BY OutcomeTypes DEF Results, Ending
  <2> QED  BY <2>1 DEF Work, RunInv, TypeOK
<1>1. TypeOK'
  BY <1>0, CallAssumption DEF RunInv, TypeOK, PC, Work, NoExec, Loop, Driving, InAttempt, AtNode, db, memory, locals, history, world, Goto
<1>2. UNCHANGED db
  BY DEF Work, db
<1>3. Placed(c)'
  BY <1>2, <1>0, CallAssumption DEF RunInv, TypeOK, Placed, Owns, Quiet, Latest, Work, Loop, Driving, InAttempt, AtNode, db, memory, locals, history, world, Goto
<1>4. Sole' /\ Halted' /\ (\A d \in Caller : Placed(d)')
  BY <1>2, <1>3, CallsAreUp, Frame DEF RunInv, TypeOK, Owns, Work, Loop, Driving, InAttempt, AtNode, db, memory, locals, history, world, Goto
<1> QED  BY <1>1, <1>2, <1>4, TablesKept DEF RunInv

\* All nodes are recorded.
LEMMA AllRecordedStep ==
    ASSUME RunInv, NEW c \in Caller, AllRecorded(c)
    PROVE  RunInv'
<1>1. TypeOK'
  BY CallAssumption DEF RunInv, TypeOK, PC, AllRecorded, Loop, Driving, InAttempt, AtNode, db, memory, locals, history, world, Goto
<1>2. UNCHANGED db
  BY DEF AllRecorded, db
<1>3. Placed(c)'
  BY <1>2, CallAssumption DEF RunInv, TypeOK, Placed, Owns, Quiet, Latest, AllRecorded, Loop, Driving, InAttempt, AtNode, db, memory, locals, history, world, Goto
<1>4. Sole' /\ Halted' /\ (\A d \in Caller : Placed(d)')
  BY <1>2, <1>3, CallsAreUp, Frame DEF RunInv, TypeOK, Owns, AllRecorded, Loop, Driving, InAttempt, AtNode, db, memory, locals, history, world, Goto
<1> QED  BY <1>1, <1>2, <1>4, TablesKept DEF RunInv

\* The call leaves the registry.
LEMMA RemoveStep ==
    ASSUME RunInv, NEW c \in Caller, Remove(c)
    PROVE  RunInv'
<1>1. TypeOK'
  BY CallAssumption DEF RunInv, TypeOK, PC, Remove, NoExec, NoCall, Loop, Driving, InAttempt, AtNode, db, memory, locals, history, world, Goto
<1>2. UNCHANGED db
  BY DEF Remove, db
<1>3. Placed(c)'
  BY <1>2, CallAssumption DEF RunInv, TypeOK, Placed, Owns, Quiet, Latest, Remove, Loop, Driving, InAttempt, AtNode, db, memory, locals, history, world, Goto
<1>4. Sole' /\ Halted' /\ (\A d \in Caller : Placed(d)')
  BY <1>2, <1>3, CallsAreUp, Frame DEF RunInv, TypeOK, Owns, Remove, Loop, Driving, InAttempt, AtNode, db, memory, locals, history, world, Goto
<1> QED  BY <1>1, <1>2, <1>4, TablesKept DEF RunInv

\* preflight refuses.
LEMMA RefuseStep ==
    ASSUME RunInv, NEW c \in Caller, Refuse(c)
    PROVE  RunInv'
<1>1. TypeOK'
  BY CallAssumption DEF RunInv, TypeOK, PC, Refuse, Loop, Driving, InAttempt, AtNode, db, memory, locals, history, world, Goto
<1>2. UNCHANGED db
  BY DEF Refuse, db
<1>3. Placed(c)'
  BY <1>2, CallAssumption DEF RunInv, TypeOK, Placed, Owns, Quiet, Latest, Refuse, Loop, Driving, InAttempt, AtNode, db, memory, locals, history, world, Goto
<1>4. Sole' /\ Halted' /\ (\A d \in Caller : Placed(d)')
  BY <1>2, <1>3, CallsAreUp, Frame DEF RunInv, TypeOK, Owns, Refuse, Loop, Driving, InAttempt, AtNode, db, memory, locals, history, world, Goto
<1> QED  BY <1>1, <1>2, <1>4, TablesKept DEF RunInv

\* A statement fails and the call returns.
LEMMA FaultStep ==
    ASSUME RunInv, NEW c \in Caller, Fault(c)
    PROVE  RunInv'
<1>1. TypeOK'
  BY BoundAssumption, CallAssumption DEF RunInv, TypeOK, PC, Fault, AfterError, Loop, Driving, InAttempt, AtNode, db, memory, locals, history, world, Goto
<1>2. UNCHANGED db
  BY DEF Fault, db
<1>3. Placed(c)'
  BY <1>2, CallAssumption DEF RunInv, TypeOK, Placed, Owns, Quiet, Latest, Fault, AfterError, Loop, Driving, InAttempt, AtNode, db, memory, locals, history, world, Goto
<1>4. Sole' /\ Halted' /\ (\A d \in Caller : Placed(d)')
  BY <1>2, <1>3, CallsAreUp, Frame DEF RunInv, TypeOK, Owns, Fault, AfterError, Loop, Driving, InAttempt, AtNode, db, memory, locals, history, world, Goto
<1> QED  BY <1>1, <1>2, <1>4, TablesKept DEF RunInv

\* A retry reads a paused run, whose current node is one.
LEMMA ReadRunStep ==
    ASSUME RunInv, NEW c \in Caller, ReadRun(c)
    PROVE  RunInv'
<1>0. row.current \in Node
  BY DEF RunInv, PausedAgrees, ReadRun, CanRetry
<1>1. TypeOK'
  BY <1>0, CallAssumption DEF RunInv, TypeOK, PC, ReadRun, CanRetry, Done, Loop, Driving, InAttempt, AtNode, db, memory, locals, history, world, Goto
<1>2. UNCHANGED db
  BY DEF ReadRun, db
<1>3. Placed(c)'
  BY <1>2, <1>0, CallAssumption DEF RunInv, TypeOK, Placed, Owns, Quiet, Latest, ReadRun, CanRetry, Done, Loop, Driving, InAttempt, AtNode, db, memory, locals, history, world, Goto
<1>4. Sole' /\ Halted' /\ (\A d \in Caller : Placed(d)')
  BY <1>2, <1>3, CallsAreUp, Frame DEF RunInv, TypeOK, Owns, ReadRun, CanRetry, Done, Loop, Driving, InAttempt, AtNode, db, memory, locals, history, world, Goto
<1> QED  BY <1>1, <1>2, <1>4, TablesKept DEF RunInv

\* The statements of the repository keep rows and attempts well typed.
LEMMA RowTypes ==
    ASSUME NEW r \in Row
    PROVE  /\ \A s \in RunStatus : /\ [r EXCEPT !.status = s] \in Row
                                   /\ [r EXCEPT !.status = s].status = s
           /\ \A n \in Node : /\ [r EXCEPT !.current = n] \in Row
                              /\ [r EXCEPT !.current = n].current = n
                              /\ [r EXCEPT !.current = n].status = r.status
           /\ \A s \in RunStatus, b \in BOOLEAN :
                 /\ [r EXCEPT !.status = s, !.retryable = b] \in Row
                 /\ [r EXCEPT !.status = s, !.retryable = b].status = s
                 /\ [r EXCEPT !.status = s, !.retryable = b].retryable = b
                 /\ [r EXCEPT !.status = s, !.retryable = b].current = r.current
<1>1. \A s \in RunStatus : [r EXCEPT !.status = s] \in Row /\ [r EXCEPT !.status = s].status = s
  BY DEF Row
<1>2. \A n \in Node : /\ [r EXCEPT !.current = n] \in Row
                     /\ [r EXCEPT !.current = n].current = n
                     /\ [r EXCEPT !.current = n].status = r.status
  BY DEF Row
<1>4. ASSUME NEW s \in RunStatus, NEW b \in BOOLEAN
      PROVE  /\ [r EXCEPT !.status = s, !.retryable = b] \in Row
             /\ [r EXCEPT !.status = s, !.retryable = b].status = s
             /\ [r EXCEPT !.status = s, !.retryable = b].retryable = b
             /\ [r EXCEPT !.status = s, !.retryable = b].current = r.current
  <2>1. [r EXCEPT !.status = s, !.retryable = b] \in Row
    BY Zenon DEF Row
  <2> QED  BY <2>1, Zenon DEF Row
<1> QED  BY <1>1, <1>2, <1>4

LEMMA AppendAttempt ==
    ASSUME NEW f \in [Node -> Seq(Attempt)], NEW n \in Node, NEW a \in Attempt
    PROVE  [f EXCEPT ![n] = Append(@, a)] \in [Node -> Seq(Attempt)]
OBVIOUS

LEMMA NewAttempts ==
    /\ [status |-> "running", retryable |-> FALSE] \in Attempt
    /\ [status |-> "skipped", retryable |-> FALSE] \in Attempt
BY DEF Attempt, NodeStatus

\* create_run.
LEMMA CreateRunStep ==
    ASSUME RunInv, NEW c \in Caller, CreateRun(c)
    PROVE  RunInv'
<1>0. row' \in Row /\ row'.status = "queued" /\ row.status = "absent" /\ Start \in Node
  <2>1. row \in Row /\ row' = [row EXCEPT !.status = "queued"] /\ "queued" \in RunStatus
    BY DEF RunInv, TypeOK, CreateRun, RunStatus
  <2>2. row' \in Row /\ row'.status = "queued"
    BY <2>1, RowTypes
  <2>3. Start \in Node
    BY GraphAssumption
  <2>4. row.status = "absent"
    BY DEF CreateRun
  <2> QED  BY <2>2, <2>3, <2>4
<1>1. TypeOK'
  BY <1>0 DEF RunInv, TypeOK, PC, CreateRun, db, memory, locals, history, world, Goto
<1>2. Placed(c)' /\ ~Owns(c)'
  BY <1>0, CallAssumption DEF RunInv, TypeOK, Placed, Owns, CreateRun, Loop, InAttempt, AtNode, Goto
<1>3. Sole' /\ Halted' /\ (\A d \in Caller : Placed(d)')
  BY <1>0, <1>2, Frame DEF RunInv, TypeOK, CreateRun, Goto, world
<1>4. Serial' /\ PausedAgrees'
  BY <1>0 DEF RunInv, Serial, PausedAgrees, CreateRun
<1> QED  BY <1>1, <1>3, <1>4 DEF RunInv

\* mark_run_running: the row was queued, so nothing is running yet.
LEMMA MarkRunningStep ==
    ASSUME RunInv, NEW c \in Caller, MarkRunning(c)
    PROVE  RunInv'
<1>1. CASE row.status = "queued"
  <2>0. row' \in Row /\ row'.status = "running" /\ row'.current = Start
    <3>1. row \in Row /\ "running" \in RunStatus
          /\ row' = [row EXCEPT !.status = "running", !.current = Start]
      BY <1>1 DEF RunInv, TypeOK, MarkRunning, RunStatus
    <3>2. Start \in Node
      BY GraphAssumption
    <3> DEFINE T(s, n) == [row EXCEPT !.status = s, !.current = n]
    <3>3. \A s \in RunStatus, n \in Node : T(s, n) \in Row /\ T(s, n).status = s /\ T(s, n).current = n
      BY <3>1 DEF Row
    <3>4. row' = T("running", Start)
      BY <3>1
    <3> HIDE DEF T
    <3> QED  BY <3>1, <3>2, <3>3, <3>4
  <2>1. TypeOK'
    <3>1. pc' \in [Caller -> PC]
      BY <1>1 DEF RunInv, TypeOK, PC, Driving, Loop, MarkRunning, Goto
    <3>2. round' \in Nat
      BY <1>1 DEF RunInv, TypeOK, MarkRunning
    <3> QED  BY <1>1, <2>0, <3>1, <3>2 DEF RunInv, TypeOK, MarkRunning, memory, locals, world
  <2>2. Quiet /\ Quiet'
    BY <1>1 DEF RunInv, Serial, Quiet, MarkRunning
  <2>3. Placed(c)'
    BY <1>1, <2>0, <2>2 DEF RunInv, TypeOK, Placed, Owns, MarkRunning, Loop, InAttempt, AtNode, Goto, locals
  <2>4. Sole' /\ Halted' /\ (\A d \in Caller : Placed(d)')
    BY <1>1, <2>3, CallsAreUp, Frame DEF RunInv, TypeOK, MarkRunning, Goto, world, locals
  <2>5. Serial' /\ PausedAgrees'
    BY <2>0, <2>2 DEF Serial, PausedAgrees, Quiet
  <2> QED  BY <2>1, <2>4, <2>5 DEF RunInv
<1>2. CASE row.status # "queued"
  <2>1. TypeOK'
    BY <1>2 DEF RunInv, TypeOK, PC, Driving, Loop, MarkRunning, AfterError, db, memory, locals, history, world, Goto
  <2>2. UNCHANGED db
    BY <1>2 DEF MarkRunning, db
  <2>3. Placed(c)' /\ ~Owns(c)'
    BY <1>2, <2>2 DEF RunInv, TypeOK, Placed, Owns, MarkRunning, AfterError, Loop, InAttempt, AtNode, Goto, locals, db
  <2>4. Sole' /\ Halted' /\ (\A d \in Caller : Placed(d)')
    BY <1>2, <2>2, <2>3, CallsAreUp, Frame DEF RunInv, TypeOK, MarkRunning, Goto, world, locals, db
  <2> QED  BY <2>1, <2>2, <2>4, TablesKept DEF RunInv
<1> QED  BY <1>1, <1>2

\* resume_paused_run: a paused run has no attempt running.
LEMMA ResumeStep ==
    ASSUME RunInv, NEW c \in Caller, Resume(c)
    PROVE  RunInv'
<1>1. CASE CanResume
  <2>0. row' \in Row /\ row'.status = "running" /\ row.status = "paused"
    <3>1. row \in Row /\ "running" \in RunStatus /\ FALSE \in BOOLEAN
          /\ row' = [row EXCEPT !.status = "running", !.retryable = FALSE]
      BY <1>1 DEF RunInv, TypeOK, Resume, RunStatus
    <3> QED  BY <1>1, <3>1, RowTypes DEF CanResume
  <2>1. TypeOK'
    <3>1. stale' \in BOOLEAN
      BY <1>1, Zenon DEF Resume
    <3>2. round' \in Nat
      BY <1>1 DEF RunInv, TypeOK, Resume
    <3>3. pc' \in [Caller -> PC]
      BY <1>1 DEF RunInv, TypeOK, PC, Resume, Goto
    <3> QED  BY <2>0, <3>1, <3>2, <3>3 DEF RunInv, TypeOK, Resume, memory, locals, world
  <2>2. Quiet /\ Quiet'
    BY <2>0 DEF RunInv, Serial, Quiet, Resume
  <2>3. Placed(c)'
    BY <1>1, <2>0, <2>2 DEF RunInv, TypeOK, Placed, Owns, Resume, Loop, InAttempt, AtNode, Goto, locals
  <2>4. Sole' /\ Halted' /\ (\A d \in Caller : Placed(d)')
    BY <2>0, <2>3, CallsAreUp, Frame DEF RunInv, TypeOK, Resume, Goto, world, locals
  <2>5. Serial' /\ PausedAgrees'
    BY <2>0, <2>2 DEF Serial, PausedAgrees, Quiet
  <2> QED  BY <2>1, <2>4, <2>5 DEF RunInv
<1>2. CASE ~CanResume
  <2>1. TypeOK'
    BY <1>2 DEF RunInv, TypeOK, PC, Resume, db, memory, locals, history, world, Goto
  <2>2. UNCHANGED db
    BY <1>2 DEF Resume, db
  <2>3. Placed(c)' /\ ~Owns(c)'
    BY <1>2, <2>2 DEF RunInv, TypeOK, Placed, Owns, Resume, Loop, InAttempt, AtNode, Goto, locals, db
  <2>4. Sole' /\ Halted' /\ (\A d \in Caller : Placed(d)')
    BY <1>2, <2>2, <2>3, CallsAreUp, Frame DEF RunInv, TypeOK, Resume, Goto, world, locals, db
  <2> QED  BY <2>1, <2>2, <2>4, TablesKept DEF RunInv
<1> QED  BY <1>1, <1>2

\* set_current_node: the owner moves on, between two attempts.
LEMMA SetCurrentStep ==
    ASSUME RunInv, NEW c \in Caller, SetCurrent(c)
    PROVE  RunInv'
<1>0. row' \in Row /\ row'.status = row.status /\ row'.current = at[c] /\ at[c] \in Node
      /\ row.status = "running" /\ pc'[c] = "attempt" /\ Owns(c) /\ Quiet
  <2>1. row \in Row /\ at[c] \in Node /\ row.status = "running" /\ Owns(c) /\ Quiet
    BY DEF RunInv, TypeOK, SetCurrent, Placed, Owns, Loop, InAttempt
  <2>2. row' = [row EXCEPT !.current = at[c]] /\ pc'[c] = "attempt"
    BY <2>1 DEF RunInv, TypeOK, SetCurrent, Goto
  <2> QED  BY <2>1, <2>2, RowTypes
<1>1. TypeOK'
  BY <1>0 DEF RunInv, TypeOK, PC, Driving, Loop, SetCurrent, db, memory, locals, history, world, Goto
<1>2. Placed(c)'
  BY <1>0 DEF RunInv, TypeOK, Placed, Owns, SetCurrent, Loop, InAttempt, AtNode, Quiet, Goto, locals
<1>3. Sole' /\ Halted' /\ (\A d \in Caller : Placed(d)')
  BY <1>0, <1>2, CallsAreUp, Frame DEF RunInv, TypeOK, SetCurrent, Goto, world, locals
<1>4. Serial' /\ PausedAgrees'
  BY <1>0 DEF Serial, PausedAgrees, Quiet, SetCurrent
<1> QED  BY <1>1, <1>3, <1>4 DEF RunInv

\* start_node_attempt: nothing was running, the new attempt is the last.
LEMMA StartAttemptStep ==
    ASSUME RunInv, NEW c \in Caller, StartAttempt(c)
    PROVE  RunInv'
<1> DEFINE n == at[c]
<1>0. n \in Node /\ row.current = n /\ row.status = "running" /\ Owns(c) /\ Quiet
  BY DEF RunInv, StartAttempt, Placed, Owns, Loop, InAttempt, AtNode
<1>1. /\ attempts' \in [Node -> Seq(Attempt)]
      /\ \A m \in Node \ {n} : attempts'[m] = attempts[m]
      /\ Len(attempts'[n]) = Len(attempts[n]) + 1
      /\ \A i \in 1..Len(attempts[n]) : attempts'[n][i] = attempts[n][i]
  BY <1>0, AppendAttempt, NewAttempts DEF RunInv, TypeOK, StartAttempt
<1>2. TypeOK'
  BY <1>0, <1>1 DEF RunInv, TypeOK, PC, Driving, Loop, StartAttempt, memory, history, world, Goto
<1>3. Placed(c)'
  BY <1>0, <1>1 DEF RunInv, TypeOK, Placed, Owns, StartAttempt, Loop, InAttempt, AtNode, Goto
<1>4. Sole' /\ Halted' /\ (\A d \in Caller : Placed(d)')
  BY <1>0, <1>3, CallsAreUp, Frame DEF RunInv, TypeOK, StartAttempt, Goto, world
<1>5. Serial' /\ PausedAgrees'
  BY <1>0, <1>1 DEF RunInv, TypeOK, Serial, PausedAgrees, Quiet, StartAttempt
<1> QED  BY <1>2, <1>4, <1>5 DEF RunInv

\* finish_node: the one running attempt ends, with the outcome at hand.
LEMMA FinishNodeStep ==
    ASSUME RunInv, NEW c \in Caller, FinishNode(c)
    PROVE  RunInv'
<1> DEFINE n == at[c]
<1> DEFINE a == [status |-> out[c].status, retryable |-> out[c].retryable]
<1>0. /\ n \in Node /\ row.current = n /\ row.status = "running" /\ Owns(c)
      /\ attempt[c] = Len(attempts[n]) /\ attempt[c] \in 1..Len(attempts[n])
      /\ attempts[n] \in Seq(Attempt)
  BY DEF RunInv, TypeOK, FinishNode, Placed, Owns, Loop, InAttempt, AtNode
<1>1. out[c] \in Outcome /\ a \in Attempt /\ a.status # "running"
      /\ a.status = out[c].status /\ a.retryable = out[c].retryable
  BY OutcomeTypes DEF RunInv, TypeOK, Outcome, Ending
<1> HIDE DEF a
<1>2. /\ attempts' \in [Node -> Seq(Attempt)]
      /\ \A m \in Node \ {n} : attempts'[m] = attempts[m]
      /\ Len(attempts'[n]) = Len(attempts[n])
      /\ \A i \in 1..(Len(attempts[n]) - 1) : attempts'[n][i] = attempts[n][i]
      /\ attempts'[n][Len(attempts[n])] = a
  <2>1. attempts' = [attempts EXCEPT ![n][attempt[c]] = a]
    BY DEF FinishNode, Recorded, a
  <2>2. attempts' = [attempts EXCEPT ![n] = [attempts[n] EXCEPT ![attempt[c]] = a]]
    BY <2>1
  <2> QED  BY <1>0, <1>1, <2>2 DEF RunInv, TypeOK
<1>3. Quiet'
  <2>1. ASSUME NEW m \in Node, NEW i \in 1..Len(attempts'[m]), m # n
        PROVE  attempts'[m][i].status # "running"
    BY <1>0, <1>2, <2>1 DEF RunInv, Serial
  <2>2. ASSUME NEW i \in 1..Len(attempts'[n]) PROVE attempts'[n][i].status # "running"
    <3>1. CASE i = Len(attempts[n])
      BY <1>1, <1>2, <3>1
    <3>2. CASE i # Len(attempts[n])
      <4>1. i \in 1..(Len(attempts[n]) - 1)
        BY <1>0, <1>2, <3>2
      <4>2. attempts'[n][i] = attempts[n][i] /\ i \in 1..Len(attempts[n])
        BY <1>0, <1>2, <4>1
      <4> QED  BY <1>0, <3>2, <4>2 DEF RunInv, Serial
    <3> QED  BY <3>1, <3>2
  <2> QED  BY <2>1, <2>2 DEF Quiet
<1>4. at' \in [Caller -> Node \cup {NoNode}] /\ at'[c] \in Node
      /\ (\A d \in Caller \ {c} : at'[d] = at[d])
  <2>1. Successors(n, out[c].branch) \subseteq Node
    BY GraphAssumption DEF Successors
  <2> QED  BY <1>0, <2>1 DEF RunInv, TypeOK, FinishNode
<1>5. TypeOK'
  <2>1. pc' \in [Caller -> PC]
    BY DEF RunInv, TypeOK, PC, Driving, Loop, FinishNode, Goto
  <2>2. visited' \in [Caller -> SUBSET Node] /\ known' \in [Caller -> SUBSET Node]
    <3>1. visited \in [Caller -> SUBSET Node] /\ known \in [Caller -> SUBSET Node]
      BY DEF RunInv, TypeOK
    <3>2. visited' = [visited EXCEPT ![c] = @ \cup {n}]
      BY DEF FinishNode
    <3>3. known' = known \/ known' = [known EXCEPT ![c] = @ \cup {n}]
      BY DEF FinishNode
    <3> QED  BY <1>0, <3>1, <3>2, <3>3
  <2> QED  BY <1>2, <1>4, <2>1, <2>2 DEF RunInv, TypeOK, FinishNode, memory, history, world
<1>6. Placed(c)'
  <2>1. CASE out[c].status # "succeeded"
    <3>1. pc'[c] = "close" /\ at' = at /\ out' = out /\ row' = row
      BY <2>1 DEF FinishNode, Goto, RunInv, TypeOK
    <3>2. out[c].status = "failed" => attempts'[n] # <<>> /\
              attempts'[n][Len(attempts'[n])] = [status |-> "failed", retryable |-> out[c].retryable]
      BY <1>0, <1>2 DEF a
    <3> QED  BY <1>0, <1>3, <3>1, <3>2 DEF Placed, Owns, Loop, InAttempt, AtNode, Latest
  <2>2. CASE out[c].status = "succeeded"
    <3>1. out' = out /\ row' = row /\ (pc'[c] = "current" \/ (pc'[c] = "skip" /\ at' = at))
      BY <2>2 DEF FinishNode, Goto, RunInv, TypeOK
    <3> QED  BY <1>0, <1>3, <1>4, <2>2, <3>1 DEF Placed, Owns, Loop, InAttempt, AtNode
  <2> QED  BY <2>1, <2>2
<1>7. Sole' /\ Halted' /\ (\A d \in Caller : Placed(d)')
  BY <1>0, <1>4, <1>6, CallsAreUp, Frame DEF RunInv, TypeOK, FinishNode, Goto, world
<1>8. Serial' /\ PausedAgrees'
  BY <1>0, <1>3 DEF Serial, PausedAgrees, Quiet, FinishNode
<1> QED  BY <1>5, <1>7, <1>8 DEF RunInv

\* record_skipped_node: nothing is running, and a skipped attempt is not.
LEMMA RecordSkippedStep ==
    ASSUME RunInv, NEW c \in Caller, RecordSkipped(c)
    PROVE  RunInv'
<1> PICK n \in Node \ visited[c] :
        /\ attempts' = [attempts EXCEPT ![n] = Append(@, [status |-> "skipped", retryable |-> FALSE])]
        /\ visited' = [visited EXCEPT ![c] = @ \cup {n}]
  BY DEF RecordSkipped
<1>0. row.status = "running" /\ Owns(c) /\ Quiet /\ out[c].status = "succeeded"
  BY DEF RunInv, RecordSkipped, Placed, Owns, Loop, InAttempt
<1>1. /\ attempts' \in [Node -> Seq(Attempt)]
      /\ \A m \in Node \ {n} : attempts'[m] = attempts[m]
      /\ Len(attempts'[n]) = Len(attempts[n]) + 1
      /\ \A i \in 1..Len(attempts[n]) : attempts'[n][i] = attempts[n][i]
      /\ attempts'[n][Len(attempts[n]) + 1].status = "skipped"
  BY AppendAttempt, NewAttempts DEF RunInv, TypeOK
<1>2. Quiet'
  BY <1>0, <1>1 DEF RunInv, TypeOK, Quiet
<1>3. TypeOK'
  BY <1>1 DEF RunInv, TypeOK, RecordSkipped, memory, history, world
<1>4. Placed(c)'
  BY <1>0, <1>2 DEF RunInv, TypeOK, Placed, Owns, RecordSkipped, Loop, InAttempt, AtNode
<1>5. Sole' /\ Halted' /\ (\A d \in Caller : Placed(d)')
  BY <1>0, <1>4, CallsAreUp, Frame DEF RunInv, TypeOK, RecordSkipped, world, Owns
<1>6. Serial' /\ PausedAgrees'
  BY <1>0, <1>2 DEF Serial, PausedAgrees, Quiet, RecordSkipped
<1> QED  BY <1>3, <1>5, <1>6 DEF RunInv

\* finish_run: what the row says was written into the attempt before.
LEMMA FinishRunStep ==
    ASSUME RunInv, NEW c \in Caller, FinishRun(c)
    PROVE  RunInv'
<1>0. /\ row.status = "running" /\ Owns(c) /\ Quiet /\ at[c] \in Node /\ row.current = at[c]
      /\ out[c] \in Outcome /\ row \in Row
  BY DEF RunInv, TypeOK, FinishRun, Placed, Owns, Loop, InAttempt, AtNode
<1>1. RunStatusFor(out[c].status) \in RunStatus \ {"running"} /\ out[c].retryable \in BOOLEAN
  BY <1>0 DEF RunStatusFor, RunStatus, Outcome, Ending
<1>2. /\ row' \in Row /\ row'.status = RunStatusFor(out[c].status)
      /\ row'.retryable = out[c].retryable /\ row'.current = row.current
      /\ pc'[c] = "remove" /\ attempts' = attempts
  <2>1. row' = [row EXCEPT !.status = RunStatusFor(out[c].status), !.retryable = out[c].retryable]
        /\ pc'[c] = "remove" /\ attempts' = attempts
    BY <1>0 DEF FinishRun, Goto, RunInv, TypeOK
  <2>2. row' \in Row
    BY <1>0, <1>1, <2>1, RowTypes
  <2> QED  BY <1>0, <2>1, <2>2 DEF Row
<1>3. TypeOK'
  BY <1>0, <1>2 DEF RunInv, TypeOK, PC, Driving, FinishRun, memory, locals, history, world, Goto
<1>4. Placed(c)' /\ ~Owns(c)'
  BY <1>2 DEF Placed, Owns, Loop, InAttempt, AtNode
<1>5. Sole' /\ Halted' /\ (\A d \in Caller : Placed(d)')
  BY <1>0, <1>4, CallsAreUp, Frame DEF RunInv, TypeOK, FinishRun, Goto, world, locals
<1>6. Serial'
  BY <1>0, <1>2 DEF Serial, Quiet
<1>7. PausedAgrees'
  <2> SUFFICES ASSUME row'.status = "paused" PROVE PausedAgrees'
    BY DEF PausedAgrees
  <2>1. out[c].status = "failed"
    BY <1>0, <1>2 DEF RunStatusFor, Outcome, Ending
  <2>2. attempts[at[c]] # <<>>
        /\ Latest(at[c]) = [status |-> "failed", retryable |-> out[c].retryable]
    BY <2>1 DEF RunInv, Placed, FinishRun
  <2> QED  BY <1>0, <1>2, <2>2 DEF PausedAgrees, Latest
<1> QED  BY <1>3, <1>5, <1>6, <1>7 DEF RunInv

\* Cancelling touches tokens only.
LEMMA CancelStep ==
    ASSUME RunInv, Cancel \/ CancelChild
    PROVE  RunInv'
<1>1. UNCHANGED <<db, pc, at, attempt, out, up>>
  BY DEF Cancel, CancelChild, locals, world, db
<1>2. TypeOK'
  BY DEF RunInv, TypeOK, Cancel, CancelChild, NoCall, NoExec, db, locals, history, world
<1>3. Sole' /\ Halted' /\ (\A c \in Caller : Placed(c)')
  BY <1>1 DEF RunInv, Sole, Halted, Placed, Owns, Quiet, Latest, db
<1> QED  BY <1>1, <1>2, <1>3, TablesKept DEF RunInv, db

\* An exit ends all calls and leaves the tables as they are.
LEMMA ExitStep ==
    ASSUME RunInv, Exit
    PROVE  RunInv'
<1>1. UNCHANGED db /\ (\A c \in Caller : pc'[c] \in {"idle", "done"})
  BY DEF Exit, db
<1>2. TypeOK'
  <2>1. pc' \in [Caller -> PC] /\ exits' \in 0..MaxExits
    BY BoundAssumption DEF RunInv, TypeOK, Exit, PC
  <2> QED  BY <2>1 DEF RunInv, TypeOK, Exit, NoCall, NoExec, db, locals, history
<1>3. Sole' /\ Halted' /\ (\A c \in Caller : Placed(c)')
  BY <1>1 DEF Sole, Halted, Placed, Owns, Loop, InAttempt, AtNode
<1> QED  BY <1>1, <1>2, <1>3, TablesKept DEF RunInv

\* recover_interrupted leaves nothing running; a paused run is not touched,
\* and none of its attempts was running.
LEMMA OpenStep ==
    ASSUME RunInv, Open
    PROVE  RunInv'
<1>1. \A a \in Attempt : RecoverAttempt(a) \in Attempt /\ RecoverAttempt(a).status # "running"
  <2>1. [status |-> "uncertain", retryable |-> TRUE] \in Attempt
    BY DEF Attempt, NodeStatus
  <2> QED  BY <2>1 DEF RecoverAttempt
<1>2. /\ attempts' \in [Node -> Seq(Attempt)]
      /\ \A n \in Node : Len(attempts'[n]) = Len(attempts[n])
      /\ \A n \in Node : \A i \in 1..Len(attempts[n]) :
            attempts'[n][i] = RecoverAttempt(attempts[n][i])
  BY <1>1 DEF RunInv, TypeOK, Open
<1>3. Quiet'
  <2> SUFFICES ASSUME NEW n \in Node, NEW i \in 1..Len(attempts[n])
               PROVE  attempts'[n][i].status # "running"
    BY <1>2 DEF Quiet
  <2>1. attempts[n][i] \in Attempt
    BY DEF RunInv, TypeOK
  <2> QED  BY <1>1, <1>2, <2>1
<1>4. row' \in Row /\ (row'.status = "paused" => row' = row)
  <2>1. CASE row.status = "running"
    <3>1. row \in Row /\ "uncertain" \in RunStatus
          /\ row' = [row EXCEPT !.status = "uncertain", !.retryable = TRUE]
      BY <2>1 DEF RunInv, TypeOK, Open, RunStatus
    <3> QED  BY <3>1, RowTypes
  <2>2. CASE row.status # "running"
    BY <2>2 DEF RunInv, TypeOK, Open
  <2> QED  BY <2>1, <2>2
<1>5. TypeOK'
  BY <1>2, <1>4 DEF RunInv, TypeOK, Open, memory, locals, history
<1>6. \A c \in Caller : pc'[c] = pc[c] /\ pc[c] \in {"idle", "done"}
  BY DEF RunInv, Halted, Open
<1>7. Sole' /\ Halted' /\ (\A c \in Caller : Placed(c)')
  BY <1>6 DEF Sole, Halted, Placed, Owns, Loop, InAttempt, AtNode
<1>8. Serial'
  BY <1>3 DEF Serial, Quiet
<1>9. PausedAgrees'
  <2> SUFFICES ASSUME row'.status = "paused" PROVE PausedAgrees'
    BY DEF PausedAgrees
  <2> DEFINE n == row.current
  <2>1. row' = row /\ n \in Node /\ attempts[n] # <<>> /\ Latest(n).status = "failed"
        /\ Latest(n).retryable = row.retryable
    BY <1>4 DEF RunInv, PausedAgrees
  <2>2. attempts[n] \in Seq(Attempt) /\ Len(attempts[n]) \in 1..Len(attempts[n])
    BY <2>1 DEF RunInv, TypeOK
  <2>3. attempts'[n][Len(attempts'[n])] = RecoverAttempt(Latest(n))
    BY <1>2, <2>1, <2>2 DEF Latest
  <2>4. RecoverAttempt(Latest(n)) = Latest(n)
    BY <2>1 DEF RecoverAttempt
  <2>5. attempts'[n] # <<>>
    BY <1>2, <2>1, <2>2
  <2> QED  BY <2>1, <2>3, <2>4, <2>5 DEF PausedAgrees, Latest
<1> QED  BY <1>5, <1>7, <1>8, <1>9 DEF RunInv

-----------------------------------------------------------------------------
(* The theorems.                                                           *)

LEMMA RunInit == Init => RunInv
<1> SUFFICES ASSUME Init PROVE RunInv
  OBVIOUS
<1>1. row \in Row /\ Ends("succeeded") \in Outcome
  BY OutcomeTypes DEF Init, Row, RunStatus, Ending
<1>2. TypeOK
  <2>1. attempts \in [Node -> Seq(Attempt)] /\ pc \in [Caller -> PC]
    BY DEF Init, PC
  <2>2. /\ at \in [Caller -> Node \cup {NoNode}]
        /\ attempt \in [Caller -> Nat] /\ seen \in [Caller -> Nat] /\ round \in Nat
        /\ visited \in [Caller -> SUBSET Node] /\ known \in [Caller -> SUBSET Node]
    BY DEF Init
  <2>3. out \in [Caller -> Outcome]
    BY <1>1 DEF Init
  <2>4. holder \in Caller \cup {NoCall} /\ child \in (Caller \X Node) \cup {NoExec}
    BY DEF Init
  <2>5. cancelled \subseteq Caller /\ signals \subseteq Caller \X Node /\ stopped \subseteq Caller \X Node
    BY DEF Init
  <2>6. faults \in 0..MaxFaults /\ exits \in 0..MaxExits
    BY BoundAssumption DEF Init
  <2>7. stale \in BOOLEAN /\ up \in BOOLEAN
    BY Zenon DEF Init
  <2> QED  BY <1>1, <2>1, <2>2, <2>3, <2>4, <2>5, <2>6, <2>7 DEF TypeOK
<1>3. Sole /\ Halted /\ (\A c \in Caller : Placed(c))
  BY DEF Init, Sole, Halted, Placed, Owns, Loop, InAttempt, AtNode
<1>4. Serial /\ PausedAgrees
  BY DEF Init, Serial, PausedAgrees
<1> QED  BY <1>2, <1>3, <1>4 DEF RunInv

LEMMA RunStep == RunInv /\ [Next]_vars => RunInv'
<1> SUFFICES ASSUME RunInv, [Next]_vars PROVE RunInv'
  OBVIOUS
<1>1. CASE UNCHANGED vars
  <2>1. UNCHANGED <<db, memory, pc, locals, history, world>>
    BY <1>1 DEF vars
  <2>2. TypeOK'
    BY <2>1 DEF RunInv, TypeOK, db, memory, locals, history, world
  <2>3. Sole' /\ Halted' /\ (\A c \in Caller : Placed(c)')
    BY <2>1 DEF RunInv, Sole, Halted, Placed, Owns, Quiet, Latest, db, locals, world
  <2> QED  BY <2>1, <2>2, <2>3, TablesKept DEF RunInv
<1>2. ASSUME NEW c \in Caller, CreateRun(c) \/ ReadRun(c) \/ Refuse(c) \/ Fault(c)
      PROVE  RunInv'
  BY <1>2, CreateRunStep, ReadRunStep, RefuseStep, FaultStep
<1>3. ASSUME NEW c \in Caller, Proceed(c) PROVE RunInv'
  BY <1>3, RegisterStep, MarkRunningStep, ResumeStep, AnnounceStep, SetCurrentStep,
     StartAttemptStep, CheckCancelStep, CaptureStep, ConnectStep, WorkStep, FinishNodeStep,
     RecordSkippedStep, AllRecordedStep, FinishRunStep, RemoveStep DEF Proceed
<1> QED  BY <1>1, <1>2, <1>3, CancelStep, ExitStep, OpenStep DEF Next

\* The inductive invariant holds in every reachable state.
THEOREM RunInvariant == Spec => []RunInv
BY RunInit, RunStep, PTL DEF Spec

\* Whatever the graph and however many calls retry, cancel, fail and meet a
\* restart, the tables, the registry and the locals of run and
\* retry_failed_node keep their types.
THEOREM RunTypeCorrect == Spec => []TypeOK
<1>1. RunInv => TypeOK
  BY DEF RunInv
<1> QED  BY <1>1, RunInvariant, PTL

\* Execution is serial: at most one attempt is running, it is the last one of
\* the current node, and only in a run that is running.
THEOREM SerialExecution == Spec => []Serial
<1>1. RunInv => Serial
  BY DEF RunInv
<1> QED  BY <1>1, RunInvariant, PTL

\* finish_node and finish_run are separate statements, yet a paused run always
\* names a node that failed, with the same verdict on retrying it.
THEOREM PausedRunsAgree == Spec => []PausedAgrees
<1>1. RunInv => PausedAgrees
  BY DEF RunInv
<1> QED  BY <1>1, RunInvariant, PTL

-----------------------------------------------------------------------------
(* A running run is driven.                                                *)

\* Only retries resume, and a running run has an owner, unless a retry met the
\* entry of the call that had paused the run.
Driven ==
    /\ \A c \in Caller : pc[c] = "resume" => c # Starter
    /\ row.status = "running" /\ up /\ faults = 0 => \E c \in Caller : Owns(c) \/ pc[c] = "collided"

\* A step of one call leaves the places of the others alone.
LEMMA OthersStay ==
    ASSUME RunInv, NEW c \in Caller, NEW d \in Caller, c # d,
           CreateRun(c) \/ ReadRun(c) \/ Refuse(c) \/ Proceed(c) \/ Fault(c)
    PROVE  pc'[d] = pc[d] /\ up' = up
BY DEF RunInv, TypeOK, CreateRun, ReadRun, Refuse, Fault, Proceed, Register, MarkRunning, Resume, Announce, SetCurrent,
   StartAttempt, CheckCancel, Capture, Connect, Work, FinishNode, RecordSkipped, AllRecorded, FinishRun, Remove, Goto, world

\* An owner goes on, collides, or leaves a run that is no longer running.
LEMMA OwnerGoesOn ==
    ASSUME RunInv, NEW c \in Caller, Owns(c), faults' = 0,
           CreateRun(c) \/ ReadRun(c) \/ Refuse(c) \/ Proceed(c) \/ Fault(c)
    PROVE  Owns(c)' \/ pc'[c] = "collided" \/ row'.status # "running"
<1>1. /\ pc \in [Caller -> PC] /\ faults \in 0..MaxFaults /\ out[c] \in Outcome /\ row \in Row
      /\ row.status = "running"
  BY DEF RunInv, TypeOK, Placed
<1>2. pc[c] \notin {"idle", "resume", "mark", "remove"} /\ ~Fault(c)
  BY <1>1, BoundAssumption DEF Owns, Loop, Fault
<1>3. CASE Register(c) \/ Announce(c) \/ SetCurrent(c) \/ StartAttempt(c)
  BY <1>1, <1>2, <1>3 DEF Register, Announce, SetCurrent, StartAttempt, Goto, Owns, Loop
<1>4. CASE CheckCancel(c) \/ Capture(c) \/ Connect(c) \/ Work(c)
  BY <1>1, <1>4 DEF CheckCancel, Capture, Connect, Work, Goto, Owns, Loop
<1>5. CASE FinishNode(c) \/ RecordSkipped(c) \/ AllRecorded(c)
  BY <1>1, <1>5 DEF FinishNode, RecordSkipped, AllRecorded, Goto, Owns, Loop
<1>6. CASE FinishRun(c)
  <2>1. row' = [row EXCEPT !.status = RunStatusFor(out[c].status), !.retryable = out[c].retryable]
    BY <1>1, <1>6 DEF FinishRun
  <2>2. RunStatusFor(out[c].status) # "running"
    BY <1>1 DEF Outcome, Ending, RunStatusFor
  <2> QED  BY <1>1, <2>1, <2>2 DEF Row
<1> QED
  BY <1>2, <1>3, <1>4, <1>5, <1>6 DEF Proceed, CreateRun, ReadRun, Refuse, MarkRunning, Resume, Remove

\* A call that makes the row running owns the run.
LEMMA OwnerBegins ==
    ASSUME RunInv, Driven, NEW c \in Caller, row.status # "running", row'.status = "running",
           CreateRun(c) \/ ReadRun(c) \/ Refuse(c) \/ Proceed(c) \/ Fault(c)
    PROVE  Owns(c)'
<1>1. pc \in [Caller -> PC] /\ row \in Row
  BY DEF RunInv, TypeOK
<1>2. ~Owns(c)
  BY DEF RunInv, Placed
<1>3. CASE MarkRunning(c) \/ Resume(c)
  BY <1>1, <1>3 DEF MarkRunning, Resume, Goto, Owns, Loop, Driven
<1>4. CASE CreateRun(c)
  BY <1>1, <1>4 DEF CreateRun, Row
<1>5. CASE ReadRun(c) \/ Refuse(c) \/ Fault(c) \/ Register(c) \/ Announce(c) \/ Remove(c)
  BY <1>5 DEF ReadRun, Refuse, Fault, Register, Announce, Remove, db
<1>6. CASE SetCurrent(c) \/ StartAttempt(c) \/ CheckCancel(c) \/ Capture(c) \/ Connect(c) \/ Work(c) \/ FinishNode(c)
           \/ RecordSkipped(c) \/ AllRecorded(c) \/ FinishRun(c)
  BY <1>2, <1>6 DEF SetCurrent, StartAttempt, CheckCancel, Capture, Connect, Work, FinishNode, RecordSkipped,
     AllRecorded, FinishRun, Owns, Loop
<1> QED  BY <1>3, <1>4, <1>5, <1>6 DEF Proceed

LEMMA DrivenInvariant == Spec => []Driven
<1>1. Init => Driven
  BY DEF Init, Driven
<1>2. RunInv /\ Driven /\ [Next]_vars => Driven'
  <2> SUFFICES ASSUME RunInv, Driven, [Next]_vars PROVE Driven'
    OBVIOUS
  <2>0. pc \in [Caller -> PC] /\ faults \in 0..MaxFaults /\ row \in Row
    BY DEF RunInv, TypeOK
  <2>1. CASE UNCHANGED vars \/ Cancel \/ CancelChild
    <3>1. UNCHANGED <<pc, row, up, faults>>
      BY <2>1 DEF vars, Cancel, CancelChild, db, world
    <3> QED  BY <3>1 DEF Driven, Owns
  <2>2. CASE Exit
    BY <2>0, <2>2 DEF Exit, Driven
  <2>3. CASE Open
    <3>1. UNCHANGED pc /\ row'.status # "running"
      BY <2>0, <2>3 DEF Open, Row
    <3> QED  BY <3>1 DEF Driven
  <2>4. ASSUME NEW c \in Caller, CreateRun(c) \/ ReadRun(c) \/ Refuse(c) \/ Proceed(c) \/ Fault(c)
        PROVE  Driven'
    <3>1. pc'[c] = "resume" => c # Starter
      BY <2>0, <2>4 DEF CreateRun, ReadRun, Refuse, Fault, Proceed, Register, MarkRunning, Resume, Announce, SetCurrent,
         StartAttempt, CheckCancel, Capture, Connect, Work, FinishNode, RecordSkipped, AllRecorded, FinishRun, Remove,
         Goto, AfterError, Driven
    <3>2. \A d \in Caller : d # c => pc'[d] = pc[d] /\ up' = up
      BY <2>4, OthersStay
    <3>3. up' = up
      BY <2>4 DEF CreateRun, ReadRun, Refuse, Fault, Proceed, Register, MarkRunning, Resume, Announce, SetCurrent,
         StartAttempt, CheckCancel, Capture, Connect, Work, FinishNode, RecordSkipped, AllRecorded, FinishRun, Remove, world
    <3>4. faults' = 0 => faults = 0
      <4>1. CASE Fault(c)
        BY <2>0, <4>1, BoundAssumption DEF Fault
      <4>2. CASE ~Fault(c)
        BY <2>4, <4>2 DEF CreateRun, ReadRun, Refuse, Proceed, Register, MarkRunning, Resume, Announce, SetCurrent,
           StartAttempt, CheckCancel, Capture, Connect, Work, FinishNode, RecordSkipped, AllRecorded, FinishRun, Remove, world
      <4> QED  BY <4>1, <4>2
    <3>5. ASSUME row'.status = "running", up', faults' = 0
          PROVE  \E d \in Caller : Owns(d)' \/ pc'[d] = "collided"
      <4>1. CASE row.status # "running"
        BY <2>4, <3>5, <4>1, OwnerBegins
      <4>2. CASE row.status = "running"
        <5>1. PICK d \in Caller : Owns(d) \/ pc[d] = "collided"
          BY <3>3, <3>4, <3>5, <4>2 DEF Driven
        <5>2. CASE d # c
          BY <3>2, <5>1, <5>2 DEF Owns
        <5>3. CASE d = c /\ Owns(c)
          BY <2>4, <3>5, <5>3, OwnerGoesOn
        <5>4. CASE d = c /\ pc[c] = "collided"
          BY <2>4, <5>4 DEF CreateRun, ReadRun, Refuse, Fault, Proceed, Register, MarkRunning, Resume, Announce, SetCurrent,
             StartAttempt, CheckCancel, Capture, Connect, Work, FinishNode, RecordSkipped, AllRecorded, FinishRun, Remove,
             Driving, Loop
        <5> QED  BY <5>1, <5>2, <5>3, <5>4
      <4> QED  BY <4>1, <4>2
    <3>6. \A d \in Caller : pc'[d] = "resume" => d # Starter
      BY <3>1, <3>2 DEF Driven
    <3> QED  BY <3>5, <3>6 DEF Driven
  <2> QED  BY <2>1, <2>2, <2>3, <2>4 DEF Next
<1> QED  BY <1>1, <1>2, RunInvariant, PTL DEF Spec

\* A run the window shows as running has a call of run or retry_failed_node at
\* work on it, for every graph and any number of retries: mark_run_running and
\* resume_paused_run make their call the owner, and finish_run ends the run
\* before the owner leaves the registry.
THEOREM RunningRunsAreDriven == Spec => []RunningIsDriven
<1>1. Driven => RunningIsDriven
  BY DEF Driven, RunningIsDriven, Owns, Driving, Loop
<1> QED  BY <1>1, DrivenInvariant, PTL

-----------------------------------------------------------------------------
(* A run that succeeded has gone one way.                                  *)

\* An order of the nodes in which every edge leads upwards.
Upwards(rank) == \A e \in Edge : rank[e.from] < rank[e.to]
Rank == CHOOSE rank \in [Node -> 0..Cardinality(Node)] : Upwards(rank)

Succeeded == Done({"succeeded"})
Skipped   == Done({"skipped"})

\* Edges that lead from the start node through P to n, which is not in P.
Leads(taken, P, n) ==
    /\ \A e \in taken : e.from \in P /\ e.to \in P \cup {n}
    /\ \A e, f \in taken : e.from = f.from \/ e.to = f.to => e = f
    /\ \A m \in P : \E e \in taken : e.from = m
    /\ \A m \in (P \cup {n}) \ {Start} : \E e \in taken : e.to = m
Way(P, n) ==
    /\ Start \in P \cup {n}
    /\ \A m \in P : Rank[m] < Rank[n]
    /\ \E taken \in SUBSET Edge : Leads(taken, P, n)
Complete == \E taken \in SUBSET Edge : OneWay(taken, Succeeded)

\* The steps up to finish_node.
Under == {"register", "announce", "current", "attempt"} \cup InAttempt

\* What the owner knows, unless a retry resumed with stale results.
Following(c) ==
    /\ pc[c] \in Under => /\ known[c] = Succeeded /\ visited[c] = Succeeded /\ Skipped = {}
                          /\ Way(Succeeded, at[c])
    /\ pc[c] = "skip" => /\ known[c] = Succeeded /\ Complete
                         /\ Succeeded \subseteq visited[c] /\ visited[c] \subseteq Succeeded \cup Skipped
    /\ pc[c] = "close" /\ out[c].status = "succeeded" => Complete /\ Succeeded \cup Skipped = Node
    /\ pc[c] = "close" /\ out[c].status = "failed" => Way(Succeeded, at[c]) /\ Skipped = {}

\* The branch of an outcome is one the node has.
BranchFits(c) ==
    /\ pc[c] \in {"capture", "connect", "work"} => Kind[at[c]] # "condition"
    /\ pc[c] = "finish" /\ out[c].status = "succeeded" =>
          (Kind[at[c]] = "condition" <=> out[c].branch # "success")

\* What a call has read or begins with.
Reads(c) ==
    /\ seen[c] <= round
    /\ (pc[c] = "resume" => c # Starter) /\ (pc[c] = "mark" => c = Starter)
    /\ pc[c] = "resume" /\ seen[c] = round =>
          /\ row.status = "paused" /\ at[c] = row.current
          /\ known[c] = Succeeded /\ visited[c] = Succeeded \cup Skipped
    /\ c = Starter /\ pc[c] \in {"idle", "register", "mark"} => known[c] = {} /\ visited[c] = {}
    /\ c = Starter /\ pc[c] \in {"register", "mark"} => at[c] = Start

\* What the row says of the nodes.
Tables ==
    /\ row.status \in {"absent", "queued"} => \A n \in Node : attempts[n] = <<>>
    /\ row.status = "paused" /\ ~stale => Way(Succeeded, row.current) /\ Skipped = {}
    /\ row.status = "succeeded" /\ ~stale => Complete /\ Succeeded \cup Skipped = Node

PathInv ==
    /\ Tables
    /\ \A c \in Caller : BranchFits(c) /\ Reads(c) /\ (Owns(c) /\ ~stale => Following(c))

LEMMA RankGrows ==
    /\ Rank \in [Node -> 0..Cardinality(Node)] /\ Cardinality(Node) \in Nat
    /\ \A e \in Edge : e.from \in Node /\ e.to \in Node /\ Rank[e.from] < Rank[e.to]
<1>1. \E rank \in [Node -> 0..Cardinality(Node)] : Upwards(rank)
  BY ValidAssumption DEF Upwards
<1>2. Rank \in [Node -> 0..Cardinality(Node)] /\ Upwards(Rank)
  BY <1>1 DEF Rank
<1>3. Cardinality(Node) \in Nat
  BY ValidAssumption, FS_CardinalityType
<1> QED  BY <1>2, <1>3, GraphAssumption DEF Upwards

\* The way goes on over an edge, as the order of the nodes keeps it from
\* coming back.
LEMMA WayGoesOn ==
    ASSUME NEW P \in SUBSET Node, NEW n \in Node, Way(P, n), NEW e \in Edge, e.from = n
    PROVE  Way(P \cup {n}, e.to)
<1>1. /\ Rank[n] \in Int /\ Rank[e.to] \in Int /\ Rank[n] < Rank[e.to]
      /\ \A m \in P : Rank[m] \in Int /\ Rank[m] < Rank[n]
  BY RankGrows DEF Way
<1>2. \A m \in P \cup {n} : Rank[m] < Rank[e.to]
  BY <1>1
<1>3. n \notin P /\ e.to \notin P \cup {n}
  BY <1>1, <1>2
<1>4. PICK taken \in SUBSET Edge : Leads(taken, P, n)
  BY DEF Way
<1>5. Leads(taken \cup {e}, P \cup {n}, e.to)
  BY <1>3, <1>4 DEF Leads
<1> QED  BY <1>2, <1>5 DEF Way

\* Where no edge leaves the node, the way is complete.
LEMMA WayEnds ==
    ASSUME NEW P \in SUBSET Node, NEW n \in Node, Way(P, n), \A e \in Edge : e.from # n
    PROVE  \E taken \in SUBSET Edge : OneWay(taken, P \cup {n})
<1>1. PICK taken \in SUBSET Edge : Leads(taken, P, n)
  BY DEF Way
<1>2. OneWay(taken, P \cup {n})
  BY <1>1 DEF Leads, OneWay, Way
<1> QED  BY <1>2

\* A node the way leads to is not behind it.
LEMMA WayIsNew ==
    ASSUME NEW P \in SUBSET Node, NEW n \in Node, Way(P, n)
    PROVE  n \notin P
BY RankGrows DEF Way

LEMMA WayBegins == Way({}, Start)
<1>1. Leads({}, {}, Start)
  BY DEF Leads
<1> QED  BY <1>1 DEF Way

\* The status of a node is that of its last attempt.
LEMMA DoneAfter ==
    ASSUME attempts \in [Node -> Seq(Attempt)], NEW n \in Node, attempts'[n] # <<>>,
           \A m \in Node \ {n} : attempts'[m] = attempts[m]
    PROVE  LET status == attempts'[n][Len(attempts'[n])].status
           IN  /\ Succeeded' = IF status = "succeeded" THEN Succeeded \cup {n} ELSE Succeeded \ {n}
               /\ Skipped' = IF status = "skipped" THEN Skipped \cup {n} ELSE Skipped \ {n}
BY DEF Succeeded, Skipped, Done, Latest

LEMMA DoneKept ==
    ASSUME UNCHANGED attempts
    PROVE  Succeeded' = Succeeded /\ Skipped' = Skipped /\ (Complete' <=> Complete)
<1>1. Succeeded' = Succeeded /\ Skipped' = Skipped
  BY DEF Succeeded, Skipped, Done, Latest
<1> QED  BY <1>1 DEF Complete

LEMMA DoneTypes == Succeeded \in SUBSET Node /\ Skipped \in SUBSET Node
BY DEF Succeeded, Skipped, Done

-----------------------------------------------------------------------------
(* What the steps of a call have in common, again.                         *)

LEMMA PathFrame ==
    ASSUME RunInv, PathInv, NEW c \in Caller,
           \A d \in Caller \ {c} : /\ pc'[d] = pc[d] /\ at'[d] = at[d] /\ known'[d] = known[d]
                                   /\ visited'[d] = visited[d] /\ out'[d] = out[d] /\ seen'[d] = seen[d],
           round' = round \/ round' = round + 1, stale => stale',
           round' = round /\ row.status = "paused" => UNCHANGED <<row, attempts>>,
           Owns(c) \/ row.status # "running" \/ UNCHANGED <<row, attempts>>,
           Tables', BranchFits(c)', Reads(c)', Owns(c)' /\ ~stale' => Following(c)'
    PROVE  PathInv'
<1>0. round \in Nat /\ \A d \in Caller : seen[d] \in Nat
  BY DEF RunInv, TypeOK
<1>1. ASSUME NEW d \in Caller \ {c} PROVE BranchFits(d)'
  BY DEF PathInv, BranchFits
<1>2. ASSUME NEW d \in Caller \ {c} PROVE Reads(d)'
  <2>0. Reads(d)
    BY DEF PathInv
  <2>1. seen'[d] <= round'
    BY <1>0, <2>0 DEF Reads
  <2>2. pc'[d] = "resume" /\ seen'[d] = round' => round' = round /\ seen[d] = round /\ row.status = "paused"
    BY <1>0, <2>0 DEF Reads
  <2>3. pc'[d] = "resume" /\ seen'[d] = round' => /\ UNCHANGED <<row, attempts>>
                                                 /\ Succeeded' = Succeeded /\ Skipped' = Skipped
    BY <2>2, DoneKept
  <2> QED  BY <2>0, <2>1, <2>2, <2>3 DEF Reads
<1>3. ASSUME NEW d \in Caller \ {c}, Owns(d)', ~stale' PROVE Following(d)'
  <2>1. Owns(d) /\ Following(d)
    BY <1>3 DEF Owns, PathInv
  <2>2. UNCHANGED attempts
    BY <2>1 DEF RunInv, Sole, Placed
  <2>3. Succeeded' = Succeeded /\ Skipped' = Skipped /\ (Complete' <=> Complete)
    BY <2>2, DoneKept
  <2> QED  BY <2>1, <2>3 DEF Following
<1> QED  BY <1>1, <1>2, <1>3 DEF PathInv

\* The tables and what the calls have read stay, and the call goes on towards
\* finish_node, to the end of the run or away from it.
LEMMA QuietStep ==
    ASSUME RunInv, PathInv, NEW c \in Caller,
           UNCHANGED <<row, attempts, round, stale, seen, known, visited, at>>,
           NEW l \in PC, pc' = [pc EXCEPT ![c] = l],
           \A d \in Caller \ {c} : out'[d] = out[d],
           \/ l \in {"done", "collided", "remove"}
           \/ Owns(c) /\ pc[c] \in Under /\ l \in Under \ {"register"} /\ BranchFits(c)'
           \/ pc[c] = "skip" /\ l = "close" /\ out' = out /\ visited[c] = Node
           \/ pc[c] = "register" /\ c = Starter /\ l = "mark"
    PROVE  PathInv'
<1>1. pc \in [Caller -> PC] /\ visited[c] \in SUBSET Node
  BY DEF RunInv, TypeOK
<1>2. Succeeded' = Succeeded /\ Skipped' = Skipped /\ (Complete' <=> Complete)
  BY DoneKept
<1>3. Tables'
  BY <1>2 DEF PathInv, Tables
<1>4. BranchFits(c)'
  BY <1>1 DEF BranchFits
<1>5. Reads(c)'
  BY <1>1 DEF PathInv, Reads, Under, InAttempt
<1>6. ASSUME Owns(c)', ~stale' PROVE Following(c)'
  <2>1. CASE Owns(c) /\ pc[c] \in Under /\ l \in Under
    <3>1. Following(c) /\ pc'[c] \in Under
      BY <1>1, <1>6, <2>1 DEF PathInv
    <3>2. known[c] = Succeeded /\ visited[c] = Succeeded /\ Skipped = {} /\ Way(Succeeded, at[c])
      BY <2>1, <3>1 DEF Following
    <3> QED  BY <1>2, <3>1, <3>2 DEF Following, Under, InAttempt
  <2>2. CASE pc[c] = "skip" /\ l = "close" /\ out' = out /\ visited[c] = Node
    <3>1. Following(c) /\ pc'[c] = "close" /\ out[c].status = "succeeded"
      BY <1>1, <1>6, <2>2 DEF PathInv, RunInv, Placed, Owns, Loop
    <3>2. Complete /\ Succeeded \cup Skipped = Node
      BY <2>2, <3>1, DoneTypes DEF Following
    <3> QED  BY <1>2, <2>2, <3>1, <3>2 DEF Following, Under, InAttempt
  <2>3. CASE l \in {"done", "collided", "remove"} \/ (c = Starter /\ l = "mark")
    BY <1>1, <1>6, <2>3 DEF Owns, Loop
  <2> QED  BY <2>1, <2>2, <2>3
<1> QED
  BY <1>1, <1>3, <1>4, <1>5, <1>6, PathFrame

LEMMA PathRegister ==
    ASSUME RunInv, PathInv, NEW c \in Caller, Register(c) PROVE PathInv'
<1>1. /\ UNCHANGED <<row, attempts, round, stale, seen, known, visited, at, out>> /\ pc[c] = "register"
      /\ pc' = [pc EXCEPT ![c] = "collided"]
         \/ pc' = [pc EXCEPT ![c] = IF c = Starter THEN "mark" ELSE "announce"]
  BY DEF Register, Goto, db, locals, history
<1>2. {"collided", "mark", "announce"} \subseteq PC /\ {"register", "announce"} \subseteq Under
  BY DEF PC, Driving, Under
<1>3. c # Starter => Owns(c)
  BY <1>1 DEF Owns
<1>4. pc'[c] = "announce" => BranchFits(c)'
  BY DEF BranchFits
<1>5. pc'[c] \in {"collided", "mark", "announce"} /\ pc' = [pc EXCEPT ![c] = pc'[c]]
  BY <1>1 DEF RunInv, TypeOK
<1>6. CASE pc'[c] = "announce"
  <2>1. c # Starter
    BY <1>1, <1>6 DEF RunInv, TypeOK
  <2> QED  BY <1>1, <1>2, <1>3, <1>4, <1>5, <1>6, <2>1, QuietStep
<1>7. CASE pc'[c] = "mark"
  <2>1. c = Starter
    BY <1>1, <1>7 DEF RunInv, TypeOK
  <2> QED  BY <1>1, <1>2, <1>5, <1>7, <2>1, QuietStep
<1>8. CASE pc'[c] = "collided"
  BY <1>1, <1>2, <1>5, <1>8, QuietStep
<1> QED  BY <1>5, <1>6, <1>7, <1>8

\* The steps of a node up to its outcome, which has a branch of the node.
LEMMA PathInNode ==
    ASSUME RunInv, PathInv, NEW c \in Caller,
           Announce(c) \/ CheckCancel(c) \/ Capture(c) \/ Connect(c) \/ Work(c)
    PROVE  PathInv'
<1>0. /\ pc \in [Caller -> PC] /\ out \in [Caller -> Outcome] /\ BranchFits(c)
  BY DEF RunInv, TypeOK, PathInv
<1>1. UNCHANGED <<row, attempts, round, stale, seen, known, visited, at>>
  BY DEF Announce, CheckCancel, Capture, Connect, Work, db, locals, history
<1>2. /\ pc[c] \in {"announce", "check", "capture", "connect", "work"}
      /\ \E l \in {"current", "capture", "connect", "work", "finish"} : pc' = [pc EXCEPT ![c] = l]
  BY DEF Announce, CheckCancel, Capture, Connect, Work, Goto
<1>3. PICK l \in {"current", "capture", "connect", "work", "finish"} : pc' = [pc EXCEPT ![c] = l]
  BY <1>2
<1>4. \A d \in Caller \ {c} : out'[d] = out[d]
  BY <1>0 DEF Announce, CheckCancel, Capture, Connect, Work, locals
<1>5. l \in PC /\ l \in Under \ {"register"} /\ pc[c] \in Under /\ Owns(c)
  BY <1>2 DEF PC, Driving, Loop, Under, InAttempt, Owns
<1>6. BranchFits(c)'
  <2>1. CASE Announce(c)
    BY <1>0, <2>1 DEF Announce, Goto, BranchFits
  <2>2. CASE CheckCancel(c)
    <3>1. at' = at /\ (pc'[c] \in {"capture", "connect"} => Kind[at[c]] # "condition") /\ pc'[c] # "work"
      BY <1>0, <2>2 DEF CheckCancel, Goto
    <3>2. pc'[c] = "finish" /\ out'[c].status = "succeeded" => out'[c] \in LocalOutcomes(c)
      BY <1>0, <2>2 DEF CheckCancel, Goto, Ends
    <3>3. \A o \in LocalOutcomes(c) : o.status = "succeeded" => (Kind[at[c]] = "condition" <=> o.branch # "success")
      BY DEF LocalOutcomes, Succeeds, Fails
    <3> QED  BY <3>1, <3>2, <3>3 DEF BranchFits
  <2>3. CASE Capture(c) \/ Connect(c)
    <3>1. Kind[at[c]] # "condition" /\ at' = at
      BY <1>0, <1>1, <2>3 DEF Capture, Connect, BranchFits
    <3>2. pc'[c] = "finish" => \E r \in BOOLEAN : out' = [out EXCEPT ![c] = Fails(r)]
      BY <1>0, <2>3 DEF Capture, Connect, Goto
    <3>3. pc'[c] = "finish" => out'[c].status = "failed"
      BY <1>0, <3>2 DEF Fails
    <3> QED  BY <3>1, <3>3 DEF BranchFits
  <2>4. CASE Work(c)
    <3>1. PICK o \in Results(c) : out' = [out EXCEPT ![c] = o]
      BY <2>4 DEF Work
    <3>2. o.status = "succeeded" => o.branch = "success"
      BY DEF Results, Succeeds, Fails, Ends
    <3> QED  BY <1>0, <2>4, <3>1, <3>2 DEF Work, Goto, BranchFits
  <2> QED  BY <2>1, <2>2, <2>3, <2>4
<1> QED  BY <1>1, <1>3, <1>4, <1>5, <1>6, QuietStep

LEMMA PathLeaves ==
    ASSUME RunInv, PathInv, NEW c \in Caller,
           AllRecorded(c) \/ Remove(c) \/ Refuse(c) \/ Fault(c)
    PROVE  PathInv'
<1>1. UNCHANGED <<row, attempts, round, stale, seen, known, visited, at, out>>
  BY DEF AllRecorded, Remove, Refuse, Fault, db, locals, history
<1>2. {"done", "remove", "close"} \subseteq PC
  BY DEF PC, Driving, Loop
<1>3. CASE AllRecorded(c)
  BY <1>1, <1>2, <1>3, QuietStep DEF AllRecorded, Goto
<1>4. CASE Remove(c) \/ Refuse(c) \/ Fault(c)
  <2>1. PICK l \in {"done", "remove"} : pc' = [pc EXCEPT ![c] = l]
    BY <1>4 DEF Remove, Refuse, Fault, Goto, AfterError
  <2> QED  BY <1>1, <1>2, <2>1, QuietStep
<1> QED  BY <1>3, <1>4

-----------------------------------------------------------------------------
(* The statements on the tables.                                           *)

LEMMA PathCreate ==
    ASSUME RunInv, PathInv, NEW c \in Caller, CreateRun(c) PROVE PathInv'
<1>0. pc \in [Caller -> PC] /\ at \in [Caller -> Node \cup {NoNode}] /\ row \in Row
  BY DEF RunInv, TypeOK
<1>1. /\ UNCHANGED <<attempts, known, visited, out, round, seen, stale>> /\ c = Starter /\ pc[c] = "idle"
      /\ pc' = [pc EXCEPT ![c] = "register"] /\ at' = [at EXCEPT ![c] = Start]
      /\ row.status = "absent" /\ row' = [row EXCEPT !.status = "queued"]
  BY DEF CreateRun, Goto, history
<1>2. row'.status = "queued"
  BY <1>0, <1>1 DEF Row
<1>3. Tables'
  BY <1>1, <1>2 DEF PathInv, Tables
<1>4. BranchFits(c)' /\ Reads(c)' /\ ~Owns(c)'
  BY <1>0, <1>1 DEF PathInv, BranchFits, Reads, Owns, Loop
<1> QED  BY <1>0, <1>1, <1>3, <1>4, PathFrame

LEMMA PathMark ==
    ASSUME RunInv, PathInv, NEW c \in Caller, MarkRunning(c) PROVE PathInv'
<1>0. /\ pc \in [Caller -> PC] /\ row \in Row /\ round \in Nat /\ seen[c] \in Nat /\ Reads(c)
  BY DEF RunInv, TypeOK, PathInv
<1>1. /\ UNCHANGED <<attempts, known, visited, at, out, seen, stale>> /\ pc[c] = "mark" /\ c = Starter
  BY <1>0 DEF MarkRunning, locals, Reads
<1>2. CASE row.status = "queued"
  <2>1. /\ row' = [row EXCEPT !.status = "running", !.current = Start] /\ round' = round + 1
        /\ pc' = [pc EXCEPT ![c] = "current"]
    BY <1>2 DEF MarkRunning, Goto
  <2>2. row'.status = "running"
    BY <1>0, <2>1 DEF Row
  <2>3. Tables' /\ BranchFits(c)' /\ Reads(c)'
    BY <1>0, <1>1, <2>1, <2>2 DEF Tables, BranchFits, Reads
  <2>4. Succeeded' = {} /\ Skipped' = {}
    BY <1>1, <1>2 DEF PathInv, Tables, Succeeded, Skipped, Done
  <2>5. known'[c] = {} /\ visited'[c] = {} /\ at'[c] = Start /\ pc'[c] = "current"
    BY <1>0, <1>1, <2>1 DEF Reads
  <2>6. Following(c)'
    BY <2>4, <2>5, WayBegins DEF Following, Under, InAttempt
  <2> QED  BY <1>0, <1>1, <1>2, <2>1, <2>3, <2>6, PathFrame
<1>3. CASE row.status # "queued"
  <2>1. UNCHANGED <<row, round>> /\ pc' = [pc EXCEPT ![c] = "done"] /\ "done" \in PC
    BY <1>1, <1>3 DEF MarkRunning, Goto, AfterError, PC
  <2> QED  BY <1>1, <2>1, QuietStep
<1> QED  BY <1>2, <1>3

LEMMA PathRead ==
    ASSUME RunInv, PathInv, NEW c \in Caller, ReadRun(c) PROVE PathInv'
<1>0. /\ pc \in [Caller -> PC] /\ at \in [Caller -> Node \cup {NoNode}] /\ round \in Nat
      /\ known \in [Caller -> SUBSET Node] /\ visited \in [Caller -> SUBSET Node] /\ seen \in [Caller -> Nat]
  BY DEF RunInv, TypeOK
<1>1. /\ UNCHANGED <<row, attempts, out, round, stale>> /\ c # Starter /\ row.status = "paused"
      /\ pc' = [pc EXCEPT ![c] = "resume"] /\ at' = [at EXCEPT ![c] = row.current]
      /\ known' = [known EXCEPT ![c] = Done({"succeeded"})]
      /\ visited' = [visited EXCEPT ![c] = Done({"succeeded", "skipped"})]
      /\ seen' = [seen EXCEPT ![c] = round]
  BY DEF ReadRun, CanRetry, Goto, db
<1>2. Succeeded' = Succeeded /\ Skipped' = Skipped /\ (Complete' <=> Complete)
  BY <1>1, DoneKept
<1>3. Done({"succeeded", "skipped"}) = Succeeded \cup Skipped /\ Done({"succeeded"}) = Succeeded
  BY DEF Done, Succeeded, Skipped
<1>4. Tables'
  BY <1>1, <1>2 DEF PathInv, Tables
<1>5. BranchFits(c)' /\ Reads(c)' /\ ~Owns(c)'
  BY <1>0, <1>1, <1>2, <1>3 DEF BranchFits, Reads, Owns, Loop
<1> QED  BY <1>0, <1>1, <1>4, <1>5, PathFrame

\* A retry that resumes with what is still true follows the same way.
LEMMA PathResume ==
    ASSUME RunInv, PathInv, NEW c \in Caller, Resume(c) PROVE PathInv'
<1>0. /\ pc \in [Caller -> PC] /\ row \in Row /\ round \in Nat /\ seen[c] \in Nat /\ Reads(c)
  BY DEF RunInv, TypeOK, PathInv
<1>1. UNCHANGED <<attempts, known, visited, at, out, seen>> /\ pc[c] = "resume" /\ c # Starter
  BY <1>0 DEF Resume, locals, Reads
<1>2. CASE CanResume
  <2>1. /\ row' = [row EXCEPT !.status = "running", !.retryable = FALSE] /\ round' = round + 1
        /\ stale' = (stale \/ seen[c] # round) /\ pc' = [pc EXCEPT ![c] = "register"]
        /\ row.status = "paused"
    BY <1>2 DEF Resume, CanResume, Goto
  <2>2. row'.status = "running"
    BY <1>0, <2>1 DEF Row
  <2>3. Tables' /\ BranchFits(c)' /\ Reads(c)'
    BY <1>0, <1>1, <2>1, <2>2 DEF Tables, BranchFits, Reads
  <2>4. ASSUME ~stale' PROVE Following(c)'
    <3>1. ~stale /\ seen[c] = round
      BY <2>1, <2>4
    <3>2. /\ known[c] = Succeeded /\ visited[c] = Succeeded \cup Skipped /\ at[c] = row.current
          /\ Way(Succeeded, row.current) /\ Skipped = {}
      BY <1>0, <1>1, <2>1, <3>1 DEF Reads, PathInv, Tables
    <3>3. Succeeded' = Succeeded /\ Skipped' = Skipped
      BY <1>1, DoneKept
    <3>4. pc'[c] = "register"
      BY <1>0, <2>1
    <3> QED  BY <1>1, <3>2, <3>3, <3>4 DEF Following
  <2>5. \A d \in Caller \ {c} : pc'[d] = pc[d]
    BY <1>0, <2>1
  <2>6. round' # round
    BY <1>0, <2>1
  <2>7. stale => stale'
    BY <2>1, Zenon
  <2> QED  BY <1>1, <2>1, <2>3, <2>4, <2>5, <2>6, <2>7, PathFrame
<1>3. CASE ~CanResume
  <2>1. UNCHANGED <<row, round, stale>> /\ pc' = [pc EXCEPT ![c] = "done"] /\ "done" \in PC
    BY <1>3 DEF Resume, Goto, PC
  <2> QED  BY <1>1, <2>1, QuietStep
<1> QED  BY <1>2, <1>3

LEMMA PathCurrent ==
    ASSUME RunInv, PathInv, NEW c \in Caller, SetCurrent(c) PROVE PathInv'
<1>0. pc \in [Caller -> PC] /\ row \in Row /\ Owns(c) /\ row.status = "running" /\ pc[c] = "current"
  BY DEF RunInv, TypeOK, SetCurrent, Placed, Owns, Loop
<1>1. /\ UNCHANGED <<attempts, known, visited, at, out, seen, round, stale>>
      /\ row' = [row EXCEPT !.current = at[c]] /\ pc' = [pc EXCEPT ![c] = "attempt"]
  BY <1>0 DEF SetCurrent, Goto, locals, history
<1>2. row'.status = "running" /\ pc'[c] = "attempt"
  BY <1>0, <1>1 DEF Row
<1>3. Tables' /\ BranchFits(c)' /\ Reads(c)'
  BY <1>1, <1>2 DEF PathInv, Tables, BranchFits, Reads
<1>4. ASSUME ~stale PROVE Following(c)'
  <2>1. Following(c)
    BY <1>0, <1>4 DEF PathInv
  <2>2. known[c] = Succeeded /\ visited[c] = Succeeded /\ Skipped = {} /\ Way(Succeeded, at[c])
    BY <1>0, <2>1 DEF Following, Under
  <2>3. Succeeded' = Succeeded /\ Skipped' = Skipped
    BY <1>1, DoneKept
  <2> QED  BY <1>1, <1>2, <2>2, <2>3 DEF Following
<1> QED  BY <1>0, <1>1, <1>3, <1>4, PathFrame

LEMMA PathAttempt ==
    ASSUME RunInv, PathInv, NEW c \in Caller, StartAttempt(c) PROVE PathInv'
<1> DEFINE n == at[c]
<1>0. /\ pc \in [Caller -> PC] /\ attempts \in [Node -> Seq(Attempt)] /\ Owns(c) /\ row.status = "running"
      /\ n \in Node /\ pc[c] = "attempt"
  BY DEF RunInv, TypeOK, StartAttempt, Placed, Owns, Loop
<1>1. /\ UNCHANGED <<row, known, visited, at, out, seen, round, stale>>
      /\ attempts' = [attempts EXCEPT ![n] = Append(@, [status |-> "running", retryable |-> FALSE])]
      /\ pc' = [pc EXCEPT ![c] = "check"] /\ pc'[c] = "check"
  BY <1>0 DEF StartAttempt, Goto, history
<1>2. Tables' /\ BranchFits(c)' /\ Reads(c)'
  BY <1>0, <1>1 DEF PathInv, Tables, BranchFits, Reads
<1>3. ASSUME ~stale PROVE Following(c)'
  <2>1. Following(c)
    BY <1>0, <1>3 DEF PathInv
  <2>2. known[c] = Succeeded /\ visited[c] = Succeeded /\ Skipped = {} /\ Way(Succeeded, n)
    BY <1>0, <2>1 DEF Following, Under
  <2>3. n \notin Succeeded
    BY <1>0, <2>2, WayIsNew, DoneTypes
  <2>4. /\ attempts' \in [Node -> Seq(Attempt)]
        /\ \A m \in Node \ {n} : attempts'[m] = attempts[m]
        /\ Len(attempts'[n]) = Len(attempts[n]) + 1
        /\ attempts'[n][Len(attempts[n]) + 1].status = "running"
    BY <1>0, <1>1, AppendAttempt, NewAttempts
  <2>5. attempts'[n] \in Seq(Attempt) /\ attempts'[n] # <<>> /\ attempts'[n][Len(attempts'[n])].status = "running"
    BY <1>0, <2>4
  <2>6. Succeeded' = Succeeded /\ Skipped' = {}
    <3>1. Succeeded' = Succeeded \ {n} /\ Skipped' = Skipped \ {n}
      BY <1>0, <2>4, <2>5, DoneAfter
    <3> QED  BY <2>2, <2>3, <3>1
  <2> QED  BY <1>1, <2>2, <2>6 DEF Following
<1> QED  BY <1>0, <1>1, <1>2, <1>3, PathFrame

\* finish_node: the way goes on over the branch taken, or is complete.
LEMMA PathFinishNode ==
    ASSUME RunInv, PathInv, NEW c \in Caller, FinishNode(c) PROVE PathInv'
<1> DEFINE n == at[c]
<1> DEFINE a == [status |-> out[c].status, retryable |-> out[c].retryable]
<1> DEFINE next == Successors(n, out[c].branch)
<1>0. /\ pc \in [Caller -> PC] /\ attempts \in [Node -> Seq(Attempt)] /\ Owns(c) /\ row.status = "running"
      /\ n \in Node /\ pc[c] = "finish" /\ at \in [Caller -> Node \cup {NoNode}]
      /\ known \in [Caller -> SUBSET Node] /\ visited \in [Caller -> SUBSET Node]
      /\ attempt[c] = Len(attempts[n]) /\ attempt[c] \in 1..Len(attempts[n])
      /\ attempts[n] \in Seq(Attempt) /\ out[c] \in Outcome /\ out[c].branch \in {"success", "true", "false"}
  BY DEF RunInv, TypeOK, FinishNode, Placed, Owns, Loop, InAttempt, AtNode, Outcome
<1>1. /\ UNCHANGED <<row, out, seen, round, stale>> /\ visited' = [visited EXCEPT ![c] = @ \cup {n}]
      /\ \/ /\ out[c].status # "succeeded" /\ UNCHANGED <<at, known>> /\ pc' = [pc EXCEPT ![c] = "close"]
         \/ /\ out[c].status = "succeeded" /\ known' = [known EXCEPT ![c] = @ \cup {n}]
            /\ next = {} /\ pc' = [pc EXCEPT ![c] = "skip"] /\ at' = at
         \/ /\ out[c].status = "succeeded" /\ known' = [known EXCEPT ![c] = @ \cup {n}]
            /\ pc' = [pc EXCEPT ![c] = "current"] /\ \E m \in next : at' = [at EXCEPT ![c] = m]
  BY DEF FinishNode, Goto, history
<1>2. \A d \in Caller \ {c} : pc'[d] = pc[d] /\ at'[d] = at[d] /\ known'[d] = known[d] /\ visited'[d] = visited[d]
  BY <1>0, <1>1
<1>3. pc'[c] \in {"close", "skip", "current"}
  BY <1>0, <1>1
<1>4. Tables' /\ BranchFits(c)' /\ Reads(c)'
  BY <1>0, <1>1, <1>3 DEF PathInv, Tables, BranchFits, Reads
<1>5. ASSUME ~stale PROVE Following(c)'
  <2>1. known[c] = Succeeded /\ visited[c] = Succeeded /\ Skipped = {} /\ Way(Succeeded, n)
    BY <1>0, <1>5 DEF PathInv, Following, Under, InAttempt
  <2>2. n \notin Succeeded /\ Succeeded \in SUBSET Node
    BY <1>0, <2>1, WayIsNew, DoneTypes
  <2>3. a \in Attempt /\ a.status = out[c].status /\ out[c].status # "skipped"
    BY <1>0, OutcomeTypes DEF Outcome, Ending
  <2> HIDE DEF a
  <2>4. attempts' = [attempts EXCEPT ![n] = [attempts[n] EXCEPT ![attempt[c]] = a]]
    BY DEF FinishNode, Recorded, a
  <2>5. /\ attempts'[n] \in Seq(Attempt) /\ attempts'[n] # <<>> /\ attempts'[n][Len(attempts'[n])].status = out[c].status
        /\ \A m \in Node \ {n} : attempts'[m] = attempts[m]
    BY <1>0, <2>3, <2>4
  <2>6. /\ Skipped' = {}
        /\ Succeeded' = IF out[c].status = "succeeded" THEN Succeeded \cup {n} ELSE Succeeded
    <3>1. /\ Succeeded' = IF out[c].status = "succeeded" THEN Succeeded \cup {n} ELSE Succeeded \ {n}
          /\ Skipped' = Skipped \ {n}
      BY <1>0, <2>3, <2>5, DoneAfter
    <3> QED  BY <2>1, <2>2, <3>1
  <2>7. CASE out[c].status # "succeeded"
    <3>1. pc'[c] = "close" /\ at' = at /\ Succeeded' = Succeeded
      BY <1>0, <1>1, <2>6, <2>7
    <3> QED  BY <1>1, <2>1, <2>6, <2>7, <3>1 DEF Following, Under, InAttempt
  <2>8. CASE out[c].status = "succeeded" /\ pc'[c] = "skip"
    <3>1. next = {} /\ at' = at /\ known'[c] = Succeeded \cup {n} /\ visited'[c] = Succeeded \cup {n}
      BY <1>0, <1>1, <2>1, <2>8
    <3>2. Kind[n] = "condition" <=> out[c].branch # "success"
      BY <1>0, <2>8 DEF PathInv, BranchFits
    <3>3. \A e \in Edge : e.from = n => e.branch # out[c].branch
      BY <3>1 DEF Successors
    <3>4. \A e \in Edge : e.branch \in {"success", "true", "false"}
      BY GraphAssumption
    <3>5. \A e \in Edge : e.from # n
      <4>1. CASE Kind[n] = "condition"
        <5>1. out[c].branch \in {"true", "false"}
          BY <1>0, <3>2, <4>1
        <5> QED  BY <1>0, <3>3, <4>1, <5>1, ValidAssumption
      <4>2. CASE Kind[n] # "condition"
        BY <3>2, <3>3, <4>2, ValidAssumption
      <4> QED  BY <4>1, <4>2
    <3>6. Complete'
      BY <1>0, <2>1, <2>2, <2>6, <2>8, <3>5, WayEnds DEF Complete
    <3> QED  BY <2>6, <2>8, <3>1, <3>6 DEF Following, Under, InAttempt
  <2>9. CASE out[c].status = "succeeded" /\ pc'[c] = "current"
    <3>1. /\ known'[c] = Succeeded \cup {n} /\ visited'[c] = Succeeded \cup {n}
          /\ \E m \in next : at'[c] = m
      BY <1>0, <1>1, <2>1, <2>9
    <3>2. PICK e \in Edge : e.from = n /\ at'[c] = e.to
      BY <3>1 DEF Successors
    <3>3. Way(Succeeded \cup {n}, e.to)
      BY <1>0, <2>1, <2>2, <3>2, WayGoesOn
    <3>4. Succeeded' = Succeeded \cup {n}
      BY <2>6, <2>9
    <3> QED  BY <2>6, <2>9, <3>1, <3>2, <3>3, <3>4 DEF Following
  <2> QED  BY <1>0, <1>1, <2>7, <2>8, <2>9
<1> QED  BY <1>0, <1>1, <1>2, <1>4, <1>5, PathFrame

LEMMA PathSkip ==
    ASSUME RunInv, PathInv, NEW c \in Caller, RecordSkipped(c) PROVE PathInv'
<1>0. /\ pc \in [Caller -> PC] /\ attempts \in [Node -> Seq(Attempt)] /\ Owns(c) /\ row.status = "running"
      /\ pc[c] = "skip" /\ visited \in [Caller -> SUBSET Node]
  BY DEF RunInv, TypeOK, RecordSkipped, Placed, Owns, Loop
<1>1. PICK n \in Node \ visited[c] :
        /\ attempts' = [attempts EXCEPT ![n] = Append(@, [status |-> "skipped", retryable |-> FALSE])]
        /\ visited' = [visited EXCEPT ![c] = @ \cup {n}]
  BY DEF RecordSkipped
<1>2. UNCHANGED <<row, pc, at, known, out, seen, round, stale>>
  BY DEF RecordSkipped, history
<1>3. Tables' /\ BranchFits(c)' /\ Reads(c)'
  BY <1>0, <1>2 DEF PathInv, Tables, BranchFits, Reads
<1>4. ASSUME ~stale PROVE Following(c)'
  <2>1. /\ known[c] = Succeeded /\ Complete /\ Succeeded \subseteq visited[c]
        /\ visited[c] \subseteq Succeeded \cup Skipped
    BY <1>0, <1>4 DEF PathInv, Following
  <2>2. /\ attempts' \in [Node -> Seq(Attempt)]
        /\ \A m \in Node \ {n} : attempts'[m] = attempts[m]
        /\ Len(attempts'[n]) = Len(attempts[n]) + 1
        /\ attempts'[n][Len(attempts[n]) + 1].status = "skipped"
    BY <1>0, <1>1, AppendAttempt, NewAttempts
  <2>3. attempts'[n] \in Seq(Attempt) /\ attempts'[n] # <<>> /\ attempts'[n][Len(attempts'[n])].status = "skipped"
    BY <1>0, <2>2
  <2>4. Succeeded' = Succeeded /\ Skipped' = Skipped \cup {n}
    <3>1. Succeeded' = Succeeded \ {n} /\ Skipped' = Skipped \cup {n}
      BY <1>0, <2>2, <2>3, DoneAfter
    <3> QED  BY <1>1, <2>1, <3>1
  <2>5. Complete' /\ visited'[c] = visited[c] \cup {n}
    BY <1>0, <1>1, <2>1, <2>4 DEF Complete
  <2> QED  BY <1>0, <1>2, <2>1, <2>4, <2>5 DEF Following, Under, InAttempt
<1>5. \A d \in Caller \ {c} : visited'[d] = visited[d]
  BY <1>0, <1>1
<1> QED  BY <1>0, <1>2, <1>3, <1>4, <1>5, PathFrame

LEMMA PathFinishRun ==
    ASSUME RunInv, PathInv, NEW c \in Caller, FinishRun(c) PROVE PathInv'
<1>0. /\ pc \in [Caller -> PC] /\ row \in Row /\ Owns(c) /\ row.status = "running" /\ pc[c] = "close"
      /\ row.current = at[c] /\ out[c] \in Outcome /\ out[c].status \in Ending
  BY DEF RunInv, TypeOK, FinishRun, Placed, Owns, Loop, AtNode, Outcome
<1>1. /\ UNCHANGED <<attempts, known, visited, at, out, seen, round, stale>>
      /\ row' = [row EXCEPT !.status = RunStatusFor(out[c].status), !.retryable = out[c].retryable]
      /\ pc' = [pc EXCEPT ![c] = "remove"]
  BY <1>0 DEF FinishRun, Goto, locals, history
<1>2. row'.status = RunStatusFor(out[c].status) /\ row'.current = row.current
  BY <1>0, <1>1 DEF Row
<1>3. Succeeded' = Succeeded /\ Skipped' = Skipped /\ (Complete' <=> Complete)
  BY <1>1, DoneKept
<1>4. Tables'
  <2>1. row'.status \notin {"absent", "queued"}
    BY <1>0, <1>2 DEF RunStatusFor, Ending
  <2>2. ASSUME row'.status = "paused", ~stale PROVE Way(Succeeded, at[c]) /\ Skipped = {}
    <3>1. out[c].status = "failed"
      BY <1>0, <1>2, <2>2 DEF RunStatusFor, Ending
    <3> QED  BY <1>0, <2>2, <3>1 DEF PathInv, Following
  <2>3. ASSUME row'.status = "succeeded", ~stale PROVE Complete /\ Succeeded \cup Skipped = Node
    <3>1. out[c].status = "succeeded"
      BY <1>0, <1>2, <2>3 DEF RunStatusFor, Ending
    <3> QED  BY <1>0, <2>3, <3>1 DEF PathInv, Following
  <2> QED  BY <1>0, <1>1, <1>2, <1>3, <2>1, <2>2, <2>3 DEF Tables
<1>5. BranchFits(c)' /\ Reads(c)' /\ ~Owns(c)'
  BY <1>0, <1>1 DEF PathInv, BranchFits, Reads, Owns, Loop
<1> QED  BY <1>0, <1>1, <1>4, <1>5, PathFrame

-----------------------------------------------------------------------------
(* The rest of the steps, and the theorem.                                 *)

LEMMA PathExit ==
    ASSUME RunInv, PathInv, Exit PROVE PathInv'
<1>1. /\ UNCHANGED <<row, attempts, known, visited, at, out, seen, round, stale>>
      /\ \A c \in Caller : pc'[c] = IF pc[c] = "idle" THEN "idle" ELSE "done"
  BY DEF Exit, db, locals, history
<1>2. Succeeded' = Succeeded /\ Skipped' = Skipped /\ (Complete' <=> Complete)
  BY <1>1, DoneKept
<1>3. Tables'
  BY <1>1, <1>2 DEF PathInv, Tables
<1>4. ASSUME NEW c \in Caller PROVE BranchFits(c)' /\ Reads(c)' /\ ~Owns(c)'
  BY <1>1 DEF PathInv, BranchFits, Reads, Owns, Loop
<1> QED  BY <1>3, <1>4 DEF PathInv

\* recover_interrupted changes no attempt of a run that has ended.
LEMMA PathOpen ==
    ASSUME RunInv, PathInv, Open PROVE PathInv'
<1>0. row \in Row /\ attempts \in [Node -> Seq(Attempt)]
  BY DEF RunInv, TypeOK
<1>1. /\ UNCHANGED <<pc, known, visited, at, out, seen, round, stale>>
      /\ \A c \in Caller : pc[c] \in {"idle", "done"}
  BY DEF RunInv, Halted, Open, locals, history
<1>2. ASSUME NEW c \in Caller PROVE BranchFits(c)' /\ Reads(c)' /\ ~Owns(c)'
  BY <1>1 DEF PathInv, BranchFits, Reads, Owns, Loop
<1>3. CASE row.status = "running"
  <2>1. row'.status = "uncertain"
    BY <1>0, <1>3 DEF Open, Row
  <2> QED  BY <1>2, <2>1 DEF PathInv, Tables
<1>4. CASE row.status # "running"
  <2>1. row' = row
    BY <1>4 DEF Open
  <2>2. ASSUME NEW n \in Node PROVE attempts'[n] = attempts[n]
    <3>1. attempts[n] \in Seq(Attempt) /\ attempts'[n] = [i \in 1..Len(attempts[n]) |-> RecoverAttempt(attempts[n][i])]
      BY <1>0 DEF Open
    <3>2. \A i \in 1..Len(attempts[n]) : RecoverAttempt(attempts[n][i]) = attempts[n][i]
      BY <1>4 DEF RunInv, Serial, RecoverAttempt
    <3>3. attempts[n] = [i \in 1..Len(attempts[n]) |-> attempts[n][i]]
      BY <3>1
    <3> QED  BY <3>1, <3>2, <3>3
  <2>3. attempts' = attempts
    BY <1>0, <2>2 DEF Open
  <2>4. Succeeded' = Succeeded /\ Skipped' = Skipped /\ (Complete' <=> Complete)
    BY <2>3, DoneKept
  <2>5. Tables'
    BY <1>1, <2>1, <2>3, <2>4 DEF PathInv, Tables
  <2> QED  BY <1>2, <2>5 DEF PathInv
<1> QED  BY <1>3, <1>4

LEMMA PathInvariant == Spec => []PathInv
<1>1. Init => PathInv
  BY DEF Init, PathInv, Tables, BranchFits, Reads, Owns, Loop
<1>2. RunInv /\ PathInv /\ [Next]_vars => PathInv'
  <2> SUFFICES ASSUME RunInv, PathInv, [Next]_vars PROVE PathInv'
    OBVIOUS
  <2>1. CASE UNCHANGED vars \/ Cancel \/ CancelChild
    <3>1. UNCHANGED <<row, attempts, pc, known, visited, at, out, seen, round, stale>>
      BY <2>1 DEF vars, Cancel, CancelChild, db, locals, history
    <3>2. Succeeded' = Succeeded /\ Skipped' = Skipped /\ (Complete' <=> Complete)
      BY <3>1, DoneKept
    <3>3. Tables'
      BY <3>1, <3>2 DEF PathInv, Tables
    <3>4. ASSUME NEW c \in Caller PROVE BranchFits(c)' /\ Reads(c)' /\ (Owns(c)' /\ ~stale' => Following(c)')
      <4>1. BranchFits(c)' /\ Reads(c)'
        BY <3>1, <3>2 DEF PathInv, BranchFits, Reads
      <4>2. Owns(c)' /\ ~stale' => Following(c)'
        BY <3>1, <3>2 DEF PathInv, Following, Owns
      <4> QED  BY <4>1, <4>2
    <3> QED  BY <3>3, <3>4 DEF PathInv
  <2>2. ASSUME NEW c \in Caller, CreateRun(c) \/ ReadRun(c) \/ Refuse(c) \/ Fault(c)
        PROVE  PathInv'
    BY <2>2, PathCreate, PathRead, PathLeaves
  <2>3. ASSUME NEW c \in Caller, Proceed(c) PROVE PathInv'
    BY <2>3, PathRegister, PathMark, PathResume, PathInNode, PathCurrent, PathAttempt, PathFinishNode, PathSkip,
       PathLeaves, PathFinishRun DEF Proceed
  <2> QED  BY <2>1, <2>2, <2>3, PathExit, PathOpen DEF Next
<1> QED  BY <1>1, <1>2, RunInvariant, PTL DEF Spec

\* A run that finish_run has made succeeded went one way through its graph,
\* whatever graph validate_workflow admitted and however often it was resumed:
\* next_node took one edge from every node that succeeded, and record_skipped
\* dealt with all the others.
THEOREM SucceededRunsArePaths == Spec => []SucceededIsPath
<1>1. PathInv => SucceededIsPath
  BY DEF PathInv, Tables, Complete, Succeeded, Skipped, SucceededIsPath
<1> QED  BY <1>1, PathInvariant, PTL

-----------------------------------------------------------------------------
(* The restore points.                                                     *)

\* Types: the tables, the server and the driving call; the memory of the
\* rollbacks and cleanups, with the domain of todo; the bounds.
Rows ==
    /\ run \in {"running", "rolled_back"} \cup Ended
    /\ points \in Seq(Point) /\ files \in Seq(Content \cup {NoFile})
    /\ Len(files) = Len(points)
    /\ remote \in [Path -> Content] /\ original \in [Path -> Content]
    /\ step \in 1..Len(Target) /\ got \in Content
    /\ stage \in {"create", "backup", "finish", "record", "upload", "close", "idle"}
    /\ stage \in {"backup", "finish", "record"} => Len(points) > 0
    /\ ending \in Ended \ {"rollback_failed"}
Locals ==
    /\ place \in [Call -> {"idle", "points", "connect", "mark", "restore", "restored",
                           "not restored", "close", "remove", "expire", "done"}]
    /\ todo \in [Call -> SUBSET (Nat \cup [id : Nat, relative : BOOLEAN])]
    /\ \A r \in Roller : todo[r] \subseteq 1..Len(points)
    /\ \A c \in Cleaner : todo[c] \subseteq [id : 1..Len(points), relative : BOOLEAN]
    /\ failed \subseteq Roller
Counts ==
    /\ disturbed \in BOOLEAN
    /\ retries \in 0..MaxRetries /\ failures \in 0..MaxFailures
RestoreTyped == Rows /\ Locals /\ Counts

\* Where the call that drives the run is: in a run that is running, and while
\* it captures, at a point of its own.
Capturing ==
    /\ stage # "idle" => run = "running"
    /\ stage \in {"backup", "finish", "record"} =>
          points[Newest].status = "creating" /\ points[Newest].path = Here

\* A rollback that has read the points.
Working(r) == place[r] \in {"connect", "mark", "restore", "restored", "not restored", "close"}

\* The points of a path that can still be restored.
Pending(p) ==
    {i \in 1..Newest :
        points[i].path = p /\ points[i].status \in {"available", "rolling_back"}}

\* Unless a backup of the path was cleaned up: the oldest point that can be
\* restored saved what was there, and without one that is what is there.
Sound(p) ==
    (\A i \in 1..Newest : points[i].path = p => points[i].status # "expired") =>
        /\ Pending(p) = {} => remote[p] = original[p]
        /\ \A i \in Pending(p) : (\A j \in Pending(p) : i <= j) => points[i].saved = original[p]
AllSound == \A p \in Path : Sound(p)
NoneAvailable == \A i \in 1..Newest : points[i].status # "available"

\* One rollback at work at a time, never beside the call that drives the run;
\* it knows of every available point, and only it has a point half restored.
OneWorks ==
    /\ \A r, s \in Roller : Working(r) /\ Working(s) => r = s
    /\ run = "running" => \A r \in Roller : ~Busy(r)
    /\ run = "rolled_back" => NoneAvailable /\ \A r \in Roller : ~Working(r)
    /\ \A r \in Roller : Working(r) =>
          /\ run \in Ended
          /\ \A i \in 1..Newest : points[i].status = "available" => i \in todo[r]
    /\ \A i \in 1..Newest : points[i].status = "rolling_back" =>
          \E r \in Roller : Restoring(r) /\ i \in NewestOf(todo[r])

\* What was captured is what is there until the upload, which a point guards;
\* a restored path holds what its point saved.
Copied ==
    /\ stage = "finish" => got = remote[Here]
    /\ stage = "upload" => \E i \in 1..Newest : points[i].path = Here
                              /\ points[i].status \in {"available", "expired"}
    /\ \A r \in Roller : place[r] = "restored" =>
          \A i \in NewestOf(todo[r]) : remote[points[i].path] = points[i].saved

\* Every path is sound, or a rollback has a failure to report, or one has
\* reported it and nothing is left to restore; a run shown as rolled back and
\* a rollback that gave up before its first point leave every path sound.
Recoverable ==
    /\ \/ AllSound
       \/ \E r \in Roller : Working(r) /\ r \in failed
       \/ /\ run = "rollback_failed" /\ NoneAvailable
          /\ \A r \in Roller : ~Working(r)
    /\ run = "rolled_back" => AllSound
    /\ \A r \in Roller : place[r] = "close" => todo[r] = {} \/ (r \in failed /\ AllSound)
    /\ \A r \in failed : place[r] \notin {"idle", "points", "connect", "done"}

-----------------------------------------------------------------------------
(* Sequences of points.                                                    *)

\* The point i gets the status s and nothing else changes that the rollback
\* relies on.
StatusSet(i, s) ==
    /\ points' \in Seq(Point) /\ Len(points') = Len(points)
    /\ \A j \in 1..Len(points) :
          /\ points'[j].path = points[j].path /\ points'[j].saved = points[j].saved
          /\ points'[j].existed = points[j].existed
          /\ points'[j].status = IF j = i THEN s ELSE points[j].status

\* What a restore point can be.
Statuses == {"creating", "available", "rolling_back", "rolled_back", "failed", "expired"}

LEMMA SetStatus ==
    ASSUME points \in Seq(Point), NEW i \in 1..Len(points), NEW s \in Statuses,
           points' = [points EXCEPT ![i].status = s]
    PROVE  StatusSet(i, s)
<1>0. points[i] \in Point
  OBVIOUS
<1>1. [points[i] EXCEPT !.status = s] \in Point
  BY <1>0 DEF Point, Statuses
<1>2. points' = [points EXCEPT ![i] = [points[i] EXCEPT !.status = s]]
  OBVIOUS
<1>3. points' \in Seq(Point) /\ Len(points') = Len(points)
  BY <1>1, <1>2
<1>4. \A j \in 1..Len(points) : points'[j] = IF j = i THEN [points[i] EXCEPT !.status = s] ELSE points[j]
  BY <1>2
<1>6. \A j \in 1..Len(points) : j # i => points'[j] = points[j]
  BY <1>4
<1>7. points'[i] = [points[i] EXCEPT !.status = s]
  BY <1>4
<1>8. /\ points'[i].path = points[i].path /\ points'[i].saved = points[i].saved
      /\ points'[i].existed = points[i].existed /\ points'[i].status = s
  BY <1>0, <1>7 DEF Point
<1> QED  BY <1>3, <1>6, <1>8 DEF StatusSet

\* create_restore_point: the new point comes last.
LEMMA NewPoint ==
    ASSUME Rows, CreatePoint
    PROVE  /\ points' \in Seq(Point) /\ Len(points') = Len(points) + 1
           /\ \A j \in 1..Len(points) : points'[j] = points[j]
           /\ points'[Len(points) + 1].status = "creating" /\ points'[Len(points) + 1].path = Here
<1> DEFINE new == [status |-> "creating", path |-> Here, existed |-> FALSE, relative |-> TRUE,
                   saved |-> Absent]
<1>1. Here \in Path /\ Len(Target) \in Nat
  <2>1. Target \in Seq(Path) /\ step \in 1..Len(Target)
    BY TargetAssumption DEF Rows
  <2> QED  BY <2>1 DEF Here
<1>2. new \in Point
  BY <1>1 DEF Point, Content, Absent
<1>3. points \in Seq(Point) /\ points' = Append(points, new)
  BY DEF Rows, CreatePoint
<1>4. new.status = "creating" /\ new.path = Here
  OBVIOUS
<1> HIDE DEF new
<1> QED  BY <1>2, <1>3, <1>4

\* finish_restore_point: the last point is available and holds what was found.
LEMMA PointFinished ==
    ASSUME Rows, FinishPoint
    PROVE  /\ points' \in Seq(Point) /\ Len(points') = Len(points) /\ Newest \in 1..Len(points)
           /\ \A j \in 1..Len(points) : j # Newest => points'[j] = points[j]
           /\ points'[Newest].path = points[Newest].path
           /\ points'[Newest].status = "available" /\ points'[Newest].saved = got
<1>1. Newest \in 1..Len(points) /\ points \in Seq(Point) /\ got \in Content
  BY DEF Rows, FinishPoint, Newest
<1>2. points[Newest] \in Point
  BY <1>1
<1> DEFINE new == [points[Newest] EXCEPT !.status = "available", !.existed = (got # Absent),
                                         !.relative = (got # Absent), !.saved = got]
<1>3. new \in Point
  BY <1>1, <1>2 DEF Point
<1>4. new.path = points[Newest].path /\ new.status = "available" /\ new.saved = got
  BY <1>1, <1>2 DEF Point
<1>5. points' = [points EXCEPT ![Newest] = new]
  BY <1>1, <1>2 DEF FinishPoint, Point
<1> HIDE DEF new
<1> QED  BY <1>1, <1>3, <1>4, <1>5

\* record_failure: the last point is failed.
LEMMA PointFailed ==
    ASSUME Rows, RecordFailure
    PROVE  Newest \in 1..Len(points) /\ StatusSet(Newest, "failed")
<1>1. Newest \in 1..Len(points) /\ points \in Seq(Point)
  BY DEF Rows, RecordFailure, Newest
<1>2. points[Newest] \in Point
  BY <1>1
<1> DEFINE new == [points[Newest] EXCEPT !.status = "failed", !.relative = FALSE]
<1>3. new \in Point
  BY <1>2 DEF Point
<1>4. /\ new.path = points[Newest].path /\ new.status = "failed" /\ new.saved = points[Newest].saved
      /\ new.existed = points[Newest].existed
  BY <1>2 DEF Point
<1>5. points' = [points EXCEPT ![Newest] = new]
  BY <1>1, <1>2 DEF RecordFailure, Point
<1> HIDE DEF new
<1> QED  BY <1>1, <1>3, <1>4, <1>5 DEF StatusSet

\* What a path or a backup can hold.
LEMMA Contents ==
    /\ Absent \in Content /\ Before \in Content
    /\ \A k \in 1..Len(Target) : k \in Content
<1>1. Len(Target) \in Nat
  BY TargetAssumption
<1> QED  BY <1>1 DEF Content, Absent, Before

\* A transfer that fails leaves contents on the server.
LEMMA AfterFailureType ==
    ASSUME remote \in [Path -> Content], NEW p, NEW x \in Content, NEW s \in AfterFailure(p, x)
    PROVE  s \in [Path -> Content] /\ \A q \in Path : q # p => s[q] = remote[q]
  BY Contents DEF AfterFailure

\* The newest of what is left is one point, and stands above the others.
LEMMA NewestIsOne ==
    ASSUME NEW n \in Nat, NEW left \in SUBSET (1..n), NEW i \in NewestOf(left)
    PROVE  /\ i \in left /\ \A j \in NewestOf(left) : j = i
           /\ \A j \in left : j # i => j < i
  BY DEF NewestOf

\* What the types say of sizes and elements.
LEMMA Sizes ==
    ASSUME Rows
    PROVE  /\ Len(points) \in Nat /\ Len(Target) \in Nat /\ Len(files) = Len(points)
           /\ Here \in Path /\ step \in 1..Len(Target)
           /\ points \in Seq(Point) /\ files \in Seq(Content \cup {NoFile})
           /\ \A i \in 1..Len(points) :
                 points[i] \in Point /\ points[i].path \in Path /\ points[i].saved \in Content
<1>1. Target \in Seq(Path) /\ step \in 1..Len(Target)
  BY TargetAssumption DEF Rows
<1>2. Here \in Path /\ Len(Target) \in Nat
  BY <1>1 DEF Here
<1>3. points \in Seq(Point) /\ files \in Seq(Content \cup {NoFile}) /\ Len(files) = Len(points)
  BY DEF Rows
<1>4. \A i \in 1..Len(points) : points[i] \in Point
  BY <1>3
<1>5. \A i \in 1..Len(points) : points[i].path \in Path /\ points[i].saved \in Content
  BY <1>4 DEF Point
<1>6. Len(points) \in Nat
  BY <1>3
<1> QED  BY <1>1, <1>2, <1>3, <1>4, <1>5, <1>6

\* What a rollback has left to do.
LEMMA LeftToRestore ==
    ASSUME Rows, Locals, NEW r \in Roller
    PROVE  /\ r \in Call /\ r \notin Cleaner /\ todo[r] \subseteq 1..Len(points)
           /\ \A i \in NewestOf(todo[r]) :
                 /\ i \in todo[r] /\ i \in 1..Len(points)
                 /\ \A j \in NewestOf(todo[r]) : j = i
                 /\ \A j \in todo[r] : j # i => j < i
<1>1. r \in Call /\ r \notin Cleaner
  BY CallsAssumption DEF Call
<1>2. todo[r] \subseteq 1..Len(points) /\ Len(points) \in Nat
  BY Sizes DEF Locals
<1> QED  BY <1>1, <1>2, NewestIsOne

\* What a cleanup has left to do.
LEMMA LeftToExpire ==
    ASSUME Rows, Locals, NEW c \in Cleaner
    PROVE  /\ c \in Call /\ c \notin Roller
           /\ todo[c] \subseteq [id : 1..Len(points), relative : BOOLEAN]
           /\ \A x \in FirstOf(todo[c]) : x \in todo[c] /\ x.id \in 1..Len(points)
<1>1. c \in Call /\ c \notin Roller
  BY CallsAssumption DEF Call
<1>2. todo[c] \subseteq [id : 1..Len(points), relative : BOOLEAN]
  BY DEF Locals
<1> QED  BY <1>1, <1>2 DEF FirstOf

\* A call that changes what it has left to do keeps the types of the others.
LEMMA LocalsKept ==
    ASSUME Locals, NEW c \in Call, NEW left, NEW label, NEW n \in Nat, n = Len(points),
           todo' = [todo EXCEPT ![c] = left], place' = [place EXCEPT ![c] = label],
           label \in {"connect", "mark", "close", "remove", "done"},
           c \in Roller => left \subseteq 1..n,
           c \in Cleaner => left \subseteq [id : 1..n, relative : BOOLEAN],
           Len(points') = n, failed' \subseteq Roller
    PROVE  Locals'
<1>1. place' \in [Call -> {"idle", "points", "connect", "mark", "restore", "restored",
                           "not restored", "close", "remove", "expire", "done"}]
  BY DEF Locals
<1>2. /\ todo \in [Call -> SUBSET (Nat \cup [id : Nat, relative : BOOLEAN])]
      /\ \A r \in Roller : todo[r] \subseteq 1..n
      /\ \A d \in Cleaner : todo[d] \subseteq [id : 1..n, relative : BOOLEAN]
  BY DEF Locals
<1>3. left \subseteq Nat \cup [id : Nat, relative : BOOLEAN]
  <2>1. 1..n \subseteq Nat /\ [id : 1..n, relative : BOOLEAN] \subseteq [id : Nat, relative : BOOLEAN]
    OBVIOUS
  <2>2. c \in Roller \/ c \in Cleaner
    BY DEF Call
  <2>3. CASE c \in Roller
    <3>1. left \subseteq Nat
      BY <2>1, <2>3, Zenon
    <3> QED  BY <3>1, Zenon
  <2>4. CASE c \in Cleaner
    <3>1. left \subseteq [id : Nat, relative : BOOLEAN]
      BY <2>1, <2>4, Zenon
    <3> QED  BY <3>1, Zenon
  <2> QED  BY <2>2, <2>3, <2>4, Zenon
<1> DEFINE Left == SUBSET (Nat \cup [id : Nat, relative : BOOLEAN])
<1>4. left \in Left /\ todo \in [Call -> Left]
  BY <1>2, <1>3, Zenon DEF Left
<1> HIDE DEF Left
<1>5. todo' \in [Call -> Left] /\ \A d \in Call : todo'[d] = IF d = c THEN left ELSE todo[d]
  BY <1>4
<1>6. \A r \in Roller : todo'[r] \subseteq 1..n
  <2> TAKE r \in Roller
  <2>1. r \in Call
    BY DEF Call
  <2>2. CASE r = c
    <3>1. todo'[r] = left
      BY <1>5, <2>1, <2>2
    <3> QED  BY <2>2, <3>1
  <2>3. CASE r # c
    <3>1. todo'[r] = todo[r]
      BY <1>5, <2>1, <2>3
    <3> QED  BY <1>2, <3>1
  <2> QED  BY <2>2, <2>3
<1>7. \A d \in Cleaner : todo'[d] \subseteq [id : 1..n, relative : BOOLEAN]
  <2> TAKE d \in Cleaner
  <2>1. d \in Call
    BY DEF Call
  <2>2. CASE d = c
    <3>1. todo'[d] = left
      BY <1>5, <2>1, <2>2
    <3> QED  BY <2>2, <3>1, Zenon
  <2>3. CASE d # c
    <3>1. todo'[d] = todo[d]
      BY <1>5, <2>1, <2>3
    <3> QED  BY <1>2, <3>1, Zenon
  <2> QED  BY <2>2, <2>3
<1>8. todo' \in [Call -> SUBSET (Nat \cup [id : Nat, relative : BOOLEAN])]
  BY <1>5, Zenon DEF Left
<1>9. Len(points') = n /\ failed' \subseteq Roller
  OBVIOUS
<1> HIDE DEF Left
<1> QED  BY <1>1, <1>6, <1>7, <1>8, <1>9, Zenon DEF Locals

\* mark_restore_point_rolling_back: the newest point that is left is marked, or
\* the call returns.
LEMMA Marks ==
    ASSUME Rows, Locals, NEW r \in Roller, Mark(r)
    PROVE  \E i \in NewestOf(todo[r]) :
              \/ /\ points[i].status = "available" /\ StatusSet(i, "rolling_back")
                 /\ place' = [place EXCEPT ![r] = "restore"] /\ UNCHANGED <<todo, failed, disturbed>>
              \/ /\ points' = points /\ disturbed' = TRUE /\ failed' = failed \ {r}
                 /\ place' = [place EXCEPT ![r] = "done"] /\ todo' = [todo EXCEPT ![r] = {}]
<1>1. PICK i \in NewestOf(todo[r]) :
         IF points[i].status = "available"
         THEN /\ points' = [points EXCEPT ![i].status = "rolling_back"]
              /\ Move(r, "restore") /\ UNCHANGED <<todo, failed, disturbed>>
         ELSE points' = points /\ disturbed' = TRUE /\ Return(r)
  BY DEF Mark
<1>2. i \in 1..Len(points) /\ points \in Seq(Point)
  BY LeftToRestore, Sizes
<1>3. "rolling_back" \in Statuses
  BY DEF Statuses
<1>4. CASE points[i].status = "available"
  BY <1>1, <1>2, <1>3, <1>4, SetStatus DEF Move
<1>5. CASE points[i].status # "available"
  BY <1>1, <1>5 DEF Return, Move
<1> QED  BY <1>4, <1>5

\* finish_restore_point_rollback.
LEMMA Records ==
    ASSUME Rows, Locals, NEW r \in Roller, Record(r)
    PROVE  \E i \in NewestOf(todo[r]) :
              /\ StatusSet(i, IF place[r] = "restored" THEN "rolled_back" ELSE "failed")
              /\ todo' = [todo EXCEPT ![r] = todo[r] \ {i}]
              /\ place' = [place EXCEPT ![r] = IF todo[r] = {i} THEN "close" ELSE "mark"]
              /\ failed' = IF place[r] = "restored" THEN failed ELSE failed \cup {r}
<1>1. PICK i \in NewestOf(todo[r]) :
         /\ points' = [points EXCEPT ![i].status =
                          IF place[r] = "restored" THEN "rolled_back" ELSE "failed"]
         /\ todo' = [todo EXCEPT ![r] = todo[r] \ {i}]
         /\ place' = [place EXCEPT ![r] = IF todo[r] = {i} THEN "close" ELSE "mark"]
  BY DEF Record, Move
<1>2. i \in 1..Len(points) /\ points \in Seq(Point)
  BY LeftToRestore, Sizes
<1> DEFINE s == IF place[r] = "restored" THEN "rolled_back" ELSE "failed"
<1>3. s \in Statuses
  BY DEF Statuses
<1>4. points' = [points EXCEPT ![i].status = s]
  BY <1>1
<1>5. failed' = IF place[r] = "restored" THEN failed ELSE failed \cup {r}
  BY DEF Record
<1> HIDE DEF s
<1>6. StatusSet(i, s)
  BY <1>2, <1>3, <1>4, SetStatus
<1> QED  BY <1>1, <1>5, <1>6 DEF s

\* expire_restore_point.
LEMMA Expires ==
    ASSUME Rows, Locals, NEW c \in Cleaner, Expire(c)
    PROVE  \E x \in FirstOf(todo[c]) :
              /\ \/ points' = points
                 \/ /\ points[x.id].status \in {"available", "failed", "rolled_back"}
                    /\ StatusSet(x.id, "expired")
              /\ todo' = [todo EXCEPT ![c] = todo[c] \ {x}]
              /\ place' = [place EXCEPT ![c] = "done"] \/ place' = [place EXCEPT ![c] = "remove"]
<1>1. PICK x \in FirstOf(todo[c]) :
         /\ points' = IF points[x.id].status \in {"available", "failed", "rolled_back"}
                        THEN [points EXCEPT ![x.id].status = "expired"] ELSE points
         /\ todo' = [todo EXCEPT ![c] = todo[c] \ {x}]
         /\ place' = [place EXCEPT ![c] = IF todo[c] = {x} THEN "done" ELSE "remove"]
  BY DEF Expire, Move
<1>2. x.id \in 1..Len(points) /\ points \in Seq(Point)
  BY LeftToExpire, Sizes
<1>3. "expired" \in Statuses
  BY DEF Statuses
<1>4. \/ points' = points
      \/ /\ points[x.id].status \in {"available", "failed", "rolled_back"}
         /\ StatusSet(x.id, "expired")
  BY <1>1, <1>2, <1>3, SetStatus
<1> QED  BY <1>1, <1>4

\* rollback_point: only the path of the point can change, and a restore that
\* succeeds puts the saved content there.
LEMMA Restores ==
    ASSUME Rows, Locals, NEW r \in Roller, Restore(r)
    PROVE  \E i \in NewestOf(todo[r]) :
              /\ remote' \in [Path -> Content]
              /\ \A p \in Path : p # points[i].path => remote'[p] = remote[p]
              /\ \/ /\ place' = [place EXCEPT ![r] = "restored"]
                    /\ remote'[points[i].path] = points[i].saved
                 \/ place' = [place EXCEPT ![r] = "not restored"]
<1>1. PICK i \in NewestOf(todo[r]) :
         \/ /\ remote' = [remote EXCEPT ![points[i].path] = points[i].saved]
            /\ place' = [place EXCEPT ![r] = "restored"]
         \/ /\ remote' \in IF Usable(i) THEN AfterFailure(points[i].path, points[i].saved) ELSE {remote}
            /\ place' = [place EXCEPT ![r] = "not restored"]
  BY DEF Restore, Move
<1>2. /\ points[i].path \in Path /\ points[i].saved \in Content
      /\ remote \in [Path -> Content]
  BY LeftToRestore, Sizes DEF Rows
<1>3. CASE /\ remote' = [remote EXCEPT ![points[i].path] = points[i].saved]
           /\ place' = [place EXCEPT ![r] = "restored"]
  BY <1>2, <1>3
<1>4. CASE /\ remote' \in IF Usable(i) THEN AfterFailure(points[i].path, points[i].saved) ELSE {remote}
           /\ place' = [place EXCEPT ![r] = "not restored"]
  BY <1>2, <1>4, AfterFailureType
<1> QED  BY <1>1, <1>3, <1>4

\* The tables, the server and the driving call.
LEMMA RowsStep ==
    ASSUME Rows, Locals, Counts, [RestoreNext]_restoreVars
    PROVE  Rows'
<1> USE TargetAssumption, CallsAssumption, LimitAssumption DEF driver, calls, bounds
<1>1. CASE CreatePoint
  <2>1. points' \in Seq(Point) /\ Len(points') = Len(points) + 1 /\ Len(points) \in Nat
    BY <1>1, NewPoint, Sizes
  <2>2. files' = Append(files, NoFile)
    BY <1>1 DEF CreatePoint
  <2>3. files' \in Seq(Content \cup {NoFile}) /\ Len(files') = Len(files) + 1
    <3>1. files \in Seq(Content \cup {NoFile})
      BY Sizes
    <3> QED  BY <2>2, <3>1
  <2>4. stage' = "backup" /\ UNCHANGED <<run, remote, original, step, got, ending>>
    BY <1>1 DEF CreatePoint
  <2> QED  BY <2>1, <2>3, <2>4 DEF Rows
<1>2. CASE Backup
  <2>1. Newest \in 1..Len(points) /\ Here \in Path
    BY <1>2, Sizes DEF Backup, Newest, Rows
  <2>2. remote[Here] \in Content
    BY <2>1 DEF Rows
  <2>3. files' \in Seq(Content \cup {NoFile}) /\ Len(files') = Len(files)
    <3>1. files \in Seq(Content \cup {NoFile}) /\ Newest \in 1..Len(files)
      BY <2>1, Sizes
    <3>2. CASE files' = files
      BY <3>1, <3>2
    <3>3. CASE files' = [files EXCEPT ![Newest] = remote[Here]]
      BY <2>2, <3>1, <3>3, ExceptSeq
    <3> QED  BY <1>2, <3>2, <3>3 DEF Backup
  <2>4. got' \in Content /\ stage' \in {"finish", "record"}
    BY <1>2, <2>2 DEF Backup, Rows
  <2>5. Len(points) > 0 /\ UNCHANGED <<run, points, remote, original, step, ending>>
    BY <1>2 DEF Backup, Rows
  <2> QED  BY <2>3, <2>4, <2>5 DEF Rows
<1>3. CASE FinishPoint
  <2>1. points' \in Seq(Point) /\ Len(points') = Len(points)
    BY <1>3, PointFinished
  <2>2. stage' = "upload" /\ got' \in Content /\ UNCHANGED <<run, files, remote, original, step, ending>>
    BY <1>3, Contents DEF FinishPoint
  <2> QED  BY <2>1, <2>2 DEF Rows
<1>4. CASE RecordFailure
  <2>1. points' \in Seq(Point) /\ Len(points') = Len(points)
    BY <1>4, PointFailed DEF StatusSet
  <2>2. stage' = "close" /\ ending' = "paused" /\ UNCHANGED <<run, files, remote, original, step, got>>
    BY <1>4 DEF RecordFailure
  <2> QED  BY <2>1, <2>2 DEF Rows, Ended
<1>5. CASE Upload
  <2>1. /\ remote' = [remote EXCEPT ![Here] = step] \/ remote' \in AfterFailure(Here, step)
        /\ step' = step \/ (step # Len(Target) /\ step' = step + 1)
        /\ stage' \in {"create", "close"} /\ ending' \in {ending, "paused", "over"}
        /\ UNCHANGED <<run, points, files, original, got>>
    BY <1>5 DEF Upload
  <2>2. remote' \in [Path -> Content]
    <3>1. step \in Content /\ remote \in [Path -> Content]
      BY Contents, Sizes DEF Rows
    <3> QED  BY <2>1, <3>1, AfterFailureType
  <2>3. step' \in 1..Len(Target)
    BY <2>1, Sizes
  <2> QED  BY <2>1, <2>2, <2>3 DEF Rows, Ended
<1>6. CASE CloseRun
  BY <1>6 DEF CloseRun, Move, Return, Rows, Ended
<1>7. CASE Retry
  BY <1>7 DEF Retry, Move, Return, Rows, Ended
<1>8. CASE CaptureFault
  BY <1>8, Contents DEF CaptureFault, Rows, Ended
<1>9. CASE CloseRunFault
  BY <1>9 DEF CloseRunFault, Move, Return, Rows, Ended
<1>10. CASE Restart
  BY <1>10, Contents DEF Restart, Rows, Ended
<1>11. ASSUME NEW r \in Roller, Rollback(r)
      PROVE  Rows'
  <2>0. r \in Call
    BY DEF Call
  <2>1. CASE ReadEndedRun(r)
    BY <2>0, <2>1 DEF ReadEndedRun, Move, Return, Rows, Ended
  <2>2. CASE ReadPoints(r)
    BY <2>0, <2>2 DEF ReadPoints, Move, Return, Rows, Ended
  <2>3. CASE ConnectServer(r)
    BY <2>0, <2>3 DEF ConnectServer, Move, Return, Rows, Ended
  <2>4. CASE Mark(r)
    <3>1. points' \in Seq(Point) /\ Len(points') = Len(points)
      BY <2>4, Marks, Sizes DEF StatusSet
    <3> QED  BY <2>4, <3>1 DEF Mark, Rows
  <2>5. CASE Restore(r)
    <3>1. remote' \in [Path -> Content]
      BY <2>5, Restores
    <3> QED  BY <2>5, <3>1 DEF Restore, Rows
  <2>6. CASE Record(r)
    <3>1. points' \in Seq(Point) /\ Len(points') = Len(points)
      BY <2>6, Records, Sizes DEF StatusSet
    <3> QED  BY <2>6, <3>1 DEF Record, Rows
  <2>7. CASE CloseRollback(r)
    BY <2>0, <2>7 DEF CloseRollback, Move, Return, Rows, Ended
  <2> QED  BY <1>11, <2>1, <2>2, <2>3, <2>4, <2>5, <2>6, <2>7 DEF Rollback
<1>12. ASSUME NEW c \in Cleaner, Clean(c)
      PROVE  Rows'
  <2>0. c \in Call
    BY DEF Call
  <2>1. CASE ReadRunToClean(c)
    BY <2>0, <2>1 DEF ReadRunToClean, Move, Return, Rows, Ended
  <2>2. CASE ListPoints(c)
    BY <2>0, <2>2 DEF ListPoints, Move, Return, Rows, Ended
  <2>3. CASE RemoveFile(c)
    <3>1. PICK x \in FirstOf(todo[c]) : files' = IF x.relative THEN [files EXCEPT ![x.id] = NoFile] ELSE files
      BY <2>3 DEF RemoveFile
    <3>2. x.id \in 1..Len(files) /\ files \in Seq(Content \cup {NoFile})
      BY Sizes, LeftToExpire
    <3>3. files' \in Seq(Content \cup {NoFile}) /\ Len(files') = Len(files)
      BY <3>1, <3>2, ExceptSeq
    <3> QED  BY <2>3, <3>3 DEF RemoveFile, Rows
  <2>4. CASE Expire(c)
    <3>1. points' \in Seq(Point) /\ Len(points') = Len(points)
      BY <2>4, Expires, Sizes DEF StatusSet
    <3> QED  BY <2>4, <3>1 DEF Expire, Rows
  <2> QED  BY <1>12, <2>1, <2>2, <2>3, <2>4 DEF Clean
<1>13. ASSUME NEW c \in Call, CallFault(c)
      PROVE  Rows'
  BY <1>13 DEF CallFault, Move, Return, Rows, Ended
<1>14. CASE UNCHANGED restoreVars
  BY <1>14 DEF restoreVars, Move, Return, Rows, Ended
<1> QED  BY <1>1, <1>2, <1>3, <1>4, <1>5, <1>6, <1>7, <1>8, <1>9, <1>10, <1>11, <1>12, <1>13, <1>14 DEF RestoreNext, Drive

\* The memory of the calls.
LEMMA LocalsStep ==
    ASSUME Rows, Locals, Counts, [RestoreNext]_restoreVars
    PROVE  Locals'
<1> USE TargetAssumption, CallsAssumption, LimitAssumption DEF driver, calls, bounds
<1>1. CASE CreatePoint
  <2>1. Len(points') = Len(points) + 1 /\ Len(points) \in Nat /\ UNCHANGED <<place, todo, failed>>
    BY <1>1, NewPoint, Sizes DEF CreatePoint
  <2>2. 1..Len(points) \subseteq 1..Len(points')
    BY <2>1
  <2> QED  BY <2>1, <2>2 DEF Locals
<1>2. CASE Backup
  BY <1>2 DEF Backup, Move, Return, Locals, Call
<1>3. CASE FinishPoint
  <2>1. Len(points') = Len(points) /\ UNCHANGED <<place, todo, failed>>
    BY <1>3, PointFinished DEF FinishPoint
  <2> QED  BY <2>1 DEF Locals
<1>4. CASE RecordFailure
  <2>1. Len(points') = Len(points) /\ UNCHANGED <<place, todo, failed>>
    BY <1>4, PointFailed DEF RecordFailure, StatusSet
  <2> QED  BY <2>1 DEF Locals
<1>5. CASE Upload
  BY <1>5 DEF Upload, Move, Return, Locals, Call
<1>6. CASE CloseRun
  BY <1>6 DEF CloseRun, Move, Return, Locals, Call
<1>7. CASE Retry
  BY <1>7 DEF Retry, Move, Return, Locals, Call
<1>8. CASE CaptureFault
  BY <1>8 DEF CaptureFault, Move, Return, Locals, Call
<1>9. CASE CloseRunFault
  BY <1>9 DEF CloseRunFault, Move, Return, Locals, Call
<1>10. CASE Restart
  BY <1>10 DEF Restart, Move, Return, Locals, Call
<1>11. ASSUME NEW r \in Roller, Rollback(r)
      PROVE  Locals'
  <2>0. r \in Call
    BY DEF Call
  <2>1. CASE ReadEndedRun(r)
    BY <2>0, <2>1 DEF ReadEndedRun, Move, Return, Locals, Call
  <2>2. CASE ReadPoints(r)
    <3> DEFINE plan == {i \in 1..Newest : points[i].status = "available"}
    <3>1. plan \subseteq 1..Len(points) /\ Len(points) \in Nat /\ r \in Call /\ r \notin Cleaner
      BY LeftToRestore, Sizes DEF Newest
    <3>2. /\ todo' = [todo EXCEPT ![r] = plan] /\ UNCHANGED <<points, failed>>
          /\ place' = [place EXCEPT ![r] = "done"] \/ place' = [place EXCEPT ![r] = "connect"]
      BY <2>2 DEF ReadPoints, Move
    <3>3. failed' \subseteq Roller /\ Len(points') = Len(points)
      BY <3>2 DEF Locals
    <3> HIDE DEF plan
    <3> QED  BY <3>1, <3>2, <3>3, LocalsKept
  <2>3. CASE ConnectServer(r)
    BY <2>0, <2>3 DEF ConnectServer, Move, Return, Locals, Call
  <2>4. CASE Mark(r)
    <3>1. Len(points') = Len(points) /\ Len(points) \in Nat
      BY <2>4, Marks, Sizes DEF StatusSet
    <3>2. r \in Call /\ r \notin Cleaner
      BY LeftToRestore
    <3>3. CASE place' = [place EXCEPT ![r] = "restore"] /\ UNCHANGED <<todo, failed>>
      BY <3>1, <3>2, <3>3 DEF Locals
    <3>4. CASE /\ place' = [place EXCEPT ![r] = "done"] /\ todo' = [todo EXCEPT ![r] = {}]
               /\ failed' = failed \ {r}
      <4>1. failed' \subseteq Roller
        BY <3>4 DEF Locals
      <4> QED  BY <3>1, <3>2, <3>4, <4>1, LocalsKept
    <3> QED  BY <2>4, <3>3, <3>4, Marks
  <2>5. CASE Restore(r)
    BY <2>0, <2>5 DEF Restore, Move, Return, Locals, Call
  <2>6. CASE Record(r)
    <3>1. PICK i \in NewestOf(todo[r]) :
             /\ StatusSet(i, IF place[r] = "restored" THEN "rolled_back" ELSE "failed")
             /\ todo' = [todo EXCEPT ![r] = todo[r] \ {i}]
             /\ place' = [place EXCEPT ![r] = IF todo[r] = {i} THEN "close" ELSE "mark"]
             /\ failed' = IF place[r] = "restored" THEN failed ELSE failed \cup {r}
      BY <2>6, Records
    <3>2. Len(points') = Len(points) /\ Len(points) \in Nat
      BY <3>1, Sizes DEF StatusSet
    <3>3. r \in Call /\ r \notin Cleaner /\ todo[r] \ {i} \subseteq 1..Len(points)
      BY LeftToRestore
    <3>4. failed' \subseteq Roller
      BY <3>1 DEF Locals
    <3> DEFINE left == todo[r] \ {i}
               label == IF todo[r] = {i} THEN "close" ELSE "mark"
    <3>5. label \in {"close", "mark"}
      OBVIOUS
    <3>6. /\ todo' = [todo EXCEPT ![r] = left] /\ place' = [place EXCEPT ![r] = label]
          /\ left \subseteq 1..Len(points)
      BY <3>1, <3>3
    <3> HIDE DEF left, label
    <3> QED  BY <3>2, <3>3, <3>4, <3>5, <3>6, LocalsKept
  <2>7. CASE CloseRollback(r)
    BY <2>0, <2>7 DEF CloseRollback, Move, Return, Locals, Call
  <2> QED  BY <1>11, <2>1, <2>2, <2>3, <2>4, <2>5, <2>6, <2>7 DEF Rollback
<1>12. ASSUME NEW c \in Cleaner, Clean(c)
      PROVE  Locals'
  <2>0. c \in Call
    BY DEF Call
  <2>1. CASE ReadRunToClean(c)
    BY <2>0, <2>1 DEF ReadRunToClean, Move, Return, Locals, Call
  <2>2. CASE ListPoints(c)
    <3> DEFINE listed == {[id |-> i, relative |-> points[i].relative] :
                             i \in {j \in 1..Newest : points[j].status # "expired"}}
    <3>1. listed \subseteq [id : 1..Len(points), relative : BOOLEAN]
      <4>1. \A i \in 1..Len(points) : points[i] \in Point
        BY Sizes
      <4>2. \A i \in 1..Len(points) : points[i].relative \in BOOLEAN
        BY <4>1 DEF Point
      <4> QED  BY <4>2 DEF Newest
    <3>2. /\ todo' = [todo EXCEPT ![c] = listed] /\ UNCHANGED <<points, failed>>
          /\ place' = [place EXCEPT ![c] = "done"] \/ place' = [place EXCEPT ![c] = "remove"]
      BY <2>2 DEF ListPoints, Move
    <3>3. failed' \subseteq Roller /\ Len(points') = Len(points)
      BY <3>2 DEF Locals
    <3>4. c \in Call /\ c \notin Roller /\ Len(points) \in Nat
      BY LeftToExpire, Sizes
    <3> HIDE DEF listed
    <3> QED  BY <3>1, <3>2, <3>3, <3>4, LocalsKept
  <2>3. CASE RemoveFile(c)
    BY <2>0, <2>3 DEF RemoveFile, Move, Return, Locals, Call
  <2>4. CASE Expire(c)
    <3>1. PICK x \in FirstOf(todo[c]) :
             /\ todo' = [todo EXCEPT ![c] = todo[c] \ {x}]
             /\ place' = [place EXCEPT ![c] = "done"] \/ place' = [place EXCEPT ![c] = "remove"]
      BY <2>4, Expires
    <3>2. Len(points') = Len(points) /\ failed' = failed /\ Len(points) \in Nat
      BY <2>4, Expires, Sizes DEF StatusSet, Expire
    <3>3. c \in Call /\ c \notin Roller /\ failed' \subseteq Roller
      BY <3>2, LeftToExpire DEF Locals
    <3> DEFINE left == todo[c] \ {x}
    <3>4. todo' = [todo EXCEPT ![c] = left] /\ left \subseteq [id : 1..Len(points), relative : BOOLEAN]
      BY <3>1, LeftToExpire
    <3> HIDE DEF left
    <3> QED  BY <3>1, <3>2, <3>3, <3>4, LocalsKept
  <2> QED  BY <1>12, <2>1, <2>2, <2>3, <2>4 DEF Clean
<1>13. ASSUME NEW c \in Call, CallFault(c)
      PROVE  Locals'
  BY <1>13 DEF CallFault, Move, Return, Locals, Call
<1>14. CASE UNCHANGED restoreVars
  BY <1>14 DEF restoreVars, Move, Return, Locals, Call
<1> QED  BY <1>1, <1>2, <1>3, <1>4, <1>5, <1>6, <1>7, <1>8, <1>9, <1>10, <1>11, <1>12, <1>13, <1>14 DEF RestoreNext, Drive

\* The bounds.
LEMMA CountsStep ==
    ASSUME Rows, Locals, Counts, [RestoreNext]_restoreVars
    PROVE  Counts'
<1> USE TargetAssumption, CallsAssumption, LimitAssumption DEF driver, calls, bounds
<1>1. CASE CreatePoint
  BY <1>1 DEF CreatePoint, Counts
<1>2. CASE Backup
  BY <1>2 DEF Backup, Counts
<1>3. CASE FinishPoint
  BY <1>3 DEF FinishPoint, Counts
<1>4. CASE RecordFailure
  BY <1>4 DEF RecordFailure, Counts
<1>5. CASE Upload
  BY <1>5 DEF Upload, Counts
<1>6. CASE CloseRun
  BY <1>6 DEF CloseRun, Counts
<1>7. CASE Retry
  BY <1>7 DEF Retry, Counts
<1>8. CASE CaptureFault
  BY <1>8 DEF CaptureFault, Counts
<1>9. CASE CloseRunFault
  BY <1>9 DEF CloseRunFault, Counts
<1>10. CASE Restart
  BY <1>10 DEF Restart, Counts
<1>11. ASSUME NEW r \in Roller, Rollback(r)
      PROVE  Counts'
  <2>0. r \in Call
    BY DEF Call
  <2>1. CASE ReadEndedRun(r)
    BY <2>0, <2>1 DEF ReadEndedRun, Counts
  <2>2. CASE ReadPoints(r)
    BY <2>0, <2>2 DEF ReadPoints, Counts
  <2>3. CASE ConnectServer(r)
    BY <2>0, <2>3 DEF ConnectServer, Counts
  <2>4. CASE Mark(r)
    BY <2>0, <2>4 DEF Mark, Counts
  <2>5. CASE Restore(r)
    BY <2>0, <2>5 DEF Restore, Counts
  <2>6. CASE Record(r)
    BY <2>0, <2>6 DEF Record, Counts
  <2>7. CASE CloseRollback(r)
    BY <2>0, <2>7 DEF CloseRollback, Counts
  <2> QED  BY <1>11, <2>1, <2>2, <2>3, <2>4, <2>5, <2>6, <2>7 DEF Rollback
<1>12. ASSUME NEW c \in Cleaner, Clean(c)
      PROVE  Counts'
  <2>0. c \in Call
    BY DEF Call
  <2>1. CASE ReadRunToClean(c)
    BY <2>0, <2>1 DEF ReadRunToClean, Counts
  <2>2. CASE ListPoints(c)
    BY <2>0, <2>2 DEF ListPoints, Counts
  <2>3. CASE RemoveFile(c)
    BY <2>0, <2>3 DEF RemoveFile, Counts
  <2>4. CASE Expire(c)
    BY <2>0, <2>4 DEF Expire, Counts
  <2> QED  BY <1>12, <2>1, <2>2, <2>3, <2>4 DEF Clean
<1>13. ASSUME NEW c \in Call, CallFault(c)
      PROVE  Counts'
  BY <1>13 DEF CallFault, Counts
<1>14. CASE UNCHANGED restoreVars
  BY <1>14 DEF restoreVars, Counts
<1> QED  BY <1>1, <1>2, <1>3, <1>4, <1>5, <1>6, <1>7, <1>8, <1>9, <1>10, <1>11, <1>12, <1>13, <1>14 DEF RestoreNext, Drive

-----------------------------------------------------------------------------
(* What a step leaves alone.                                               *)

\* The rollbacks are where they were, and points change only by expiring.
RollersKept == \A r \in Roller : place'[r] = place[r] /\ todo'[r] = todo[r]
OnlyExpires ==
    /\ Len(points') = Len(points)
    /\ \A j \in 1..Len(points) :
          /\ points'[j].path = points[j].path /\ points'[j].saved = points[j].saved
          /\ \/ points'[j].status = points[j].status
             \/ /\ points[j].status \in {"available", "failed", "rolled_back"}
                /\ points'[j].status = "expired"

\* A cleanup changes nothing of a rollback, and of a point only that it expires.
LEMMA Cleans ==
    ASSUME Rows, Locals, NEW c \in Cleaner, Clean(c)
    PROVE  /\ RollersKept /\ OnlyExpires
           /\ UNCHANGED <<run, remote, original, step, stage, got, failed, disturbed>>
<1> USE DEF driver
<1>0. c \in Call /\ c \notin Roller
  BY LeftToExpire
<1>1. UNCHANGED <<run, remote, original, step, stage, got, failed, disturbed>>
  BY DEF Clean, ReadRunToClean, ListPoints, RemoveFile, Expire
<1>2. /\ \E label : place' = [place EXCEPT ![c] = label]
      /\ todo' = todo \/ \E left : todo' = [todo EXCEPT ![c] = left]
  <2>1. CASE ReadRunToClean(c)
    BY <2>1 DEF ReadRunToClean, Move
  <2>2. CASE ListPoints(c)
    BY <2>2 DEF ListPoints, Move
  <2>3. CASE RemoveFile(c)
    BY <2>3 DEF RemoveFile, Move
  <2>4. CASE Expire(c)
    BY <2>4, Expires
  <2> QED  BY <2>1, <2>2, <2>3, <2>4 DEF Clean
<1>3. RollersKept
  BY <1>0, <1>2 DEF RollersKept, Locals, Call
<1>4. OnlyExpires
  <2>1. CASE points' = points
    BY <2>1 DEF OnlyExpires
  <2>2. CASE Expire(c)
    <3>1. PICK x \in FirstOf(todo[c]) :
             \/ points' = points
             \/ /\ points[x.id].status \in {"available", "failed", "rolled_back"}
                /\ StatusSet(x.id, "expired")
      BY <2>2, Expires
    <3> QED  BY <2>1, <3>1 DEF OnlyExpires, StatusSet
  <2> QED  BY <2>1, <2>2 DEF Clean, ReadRunToClean, ListPoints, RemoveFile
<1> QED  BY <1>1, <1>3, <1>4

\* A cleanup that fails: only its own memory changes.
LEMMA CleanFails ==
    ASSUME Rows, Locals, NEW c \in Call, CallFault(c), c \notin Roller \/ ~disturbed'
    PROVE  RollersKept /\ UNCHANGED <<run, points, remote, original, step, stage, got, failed>>
<1>1. c \in Cleaner /\ c \notin Roller
  BY CallsAssumption DEF CallFault, Call
<1>2. /\ place' = [place EXCEPT ![c] = "done"] /\ todo' = [todo EXCEPT ![c] = {}]
      /\ failed' = failed \ {c}
  BY DEF CallFault, Return, Move
<1>3. RollersKept
  BY <1>1, <1>2 DEF RollersKept, Locals, Call
<1>4. failed' = failed
  BY <1>1, <1>2 DEF Locals
<1> QED  BY <1>3, <1>4 DEF CallFault, driver

-----------------------------------------------------------------------------
(* The call that drives the run.                                           *)

\* The point being captured is not touched by the others.
LEMMA CapturingKept ==
    ASSUME Capturing, UNCHANGED <<run, stage, step>>, Len(points') = Len(points),
           stage \in {"backup", "finish", "record"} =>
               /\ points'[Newest].path = points[Newest].path
               /\ points[Newest].status = "creating" => points'[Newest].status = "creating"
    PROVE  Capturing'
  BY DEF Capturing, Newest, Here

\* Nobody touches a point while it is captured, and the run is running while
\* a call drives it.
LEMMA CapturingStep ==
    ASSUME Rows, Locals, Capturing, RestoresOnce, [RestoreNext]_restoreVars
    PROVE  Capturing'
<1> USE DEF driver, calls, bounds
<1>1. CASE CreatePoint
  <2>1. /\ Len(points) \in Nat /\ Len(points') = Len(points) + 1
        /\ points'[Len(points) + 1].status = "creating" /\ points'[Len(points) + 1].path = Here
    BY <1>1, NewPoint, Sizes
  <2>2. stage = "create" /\ UNCHANGED <<run, step>>
    BY <1>1 DEF CreatePoint
  <2> QED  BY <2>1, <2>2 DEF Capturing, Newest, Here
<1>2. CASE Backup
  BY <1>2 DEF Backup, Capturing, Newest, Here
<1>3. CASE FinishPoint
  BY <1>3 DEF FinishPoint, Capturing, Newest, Here
<1>4. CASE RecordFailure
  BY <1>4 DEF RecordFailure, Capturing, Newest, Here
<1>5. CASE Upload
  BY <1>5 DEF Upload, Capturing, Newest, Here
<1>6. CASE CloseRun
  BY <1>6 DEF CloseRun, Capturing, Newest, Here
<1>7. CASE Retry
  BY <1>7 DEF Retry, Capturing, Newest, Here
<1>8. CASE CaptureFault
  BY <1>8 DEF CaptureFault, Capturing, Newest, Here
<1>9. CASE CloseRunFault
  BY <1>9 DEF CloseRunFault, Capturing, Newest, Here
<1>10. CASE Restart
  BY <1>10 DEF Restart, Capturing, Newest, Here
<1>11. ASSUME NEW r \in Roller, Rollback(r)
      PROVE  Capturing'
  <2>0. r \in Call /\ r \notin Cleaner
    BY LeftToRestore
  <2>1. CASE ReadEndedRun(r)
    BY <2>1, <2>0 DEF ReadEndedRun, Move, Capturing, Newest, Here
  <2>2. CASE ReadPoints(r)
    BY <2>2, <2>0 DEF ReadPoints, Move, Capturing, Newest, Here
  <2>3. CASE ConnectServer(r)
    BY <2>3, <2>0 DEF ConnectServer, Move, Capturing, Newest, Here
  <2>4. CASE Mark(r)
    <3>1. PICK i \in NewestOf(todo[r]) :
             \/ points[i].status = "available" /\ StatusSet(i, "rolling_back")
             \/ points' = points
      BY <2>4, Marks
    <3>2. Newest \in 1..Len(points) \/ stage \notin {"backup", "finish", "record"}
      BY Sizes DEF Rows, Newest
    <3>3. UNCHANGED <<run, stage, step>>
      BY <2>4 DEF Mark
    <3>4. CASE points' = points
      BY <3>3, <3>4, CapturingKept
    <3>5. CASE points[i].status = "available" /\ StatusSet(i, "rolling_back")
      BY <3>2, <3>3, <3>5, CapturingKept DEF StatusSet
    <3> QED  BY <3>1, <3>4, <3>5
  <2>5. CASE Restore(r)
    BY <2>5, <2>0 DEF Restore, Move, Capturing, Newest, Here
  <2>6. CASE Record(r)
    <3>1. PICK i \in NewestOf(todo[r]) : \E s : StatusSet(i, s)
      BY <2>6, Records
    <3>2. Newest \in 1..Len(points) \/ stage \notin {"backup", "finish", "record"}
      BY Sizes DEF Rows, Newest
    <3>3. UNCHANGED <<run, stage, step>>
      BY <2>6 DEF Record
    <3>4. points[i].status = "rolling_back"
      BY <2>6, <3>1, LeftToRestore DEF RestoresOnce, Restoring, Record
    <3> QED  BY <3>1, <3>2, <3>3, <3>4, CapturingKept DEF StatusSet
  <2>7. CASE CloseRollback(r)
    BY <2>7 DEF CloseRollback, Return, Capturing, Newest, Here, Ended
  <2> QED  BY <1>11, <2>1, <2>2, <2>3, <2>4, <2>5, <2>6, <2>7 DEF Rollback
<1>12. ASSUME NEW c \in Cleaner, Clean(c)
      PROVE  Capturing'
  <2>1. Newest \in 1..Len(points) \/ stage \notin {"backup", "finish", "record"}
    BY Sizes DEF Rows, Newest
  <2> QED  BY <1>12, <2>1, Cleans, CapturingKept DEF OnlyExpires
<1>13. ASSUME NEW c \in Call, CallFault(c)
      PROVE  Capturing'
  <2>1. UNCHANGED <<run, points, stage, step>>
    BY <1>13 DEF CallFault
  <2> QED  BY <2>1, CapturingKept
<1>14. CASE UNCHANGED restoreVars
  BY <1>14, CapturingKept DEF restoreVars
<1> QED  BY <1>1, <1>2, <1>3, <1>4, <1>5, <1>6, <1>7, <1>8, <1>9, <1>10, <1>11, <1>12, <1>13, <1>14 DEF RestoreNext, Drive

-----------------------------------------------------------------------------
(* No restore point is restored twice.                                     *)

\* A step that lets nobody begin a restore and leaves the points alone that
\* are being restored.
LEMMA RestoresOnceKept ==
    ASSUME RestoresOnce, Rows, Locals,
           \A r \in Roller : Restoring(r)' => Restoring(r) /\ todo'[r] = todo[r],
           \A i \in 1..Len(points) :
              points[i].status = "rolling_back" => points'[i].status = "rolling_back"
    PROVE  RestoresOnce'
<1>1. \A r \in Roller : \A i \in NewestOf(todo[r]) : i \in 1..Len(points)
  BY LeftToRestore
<1>2. ASSUME NEW r \in Roller, Restoring(r)'
      PROVE  \E i \in NewestOf(todo'[r]) :
                /\ points'[i].status = "rolling_back"
                /\ \A s \in Roller \ {r} : Restoring(s)' => i \notin NewestOf(todo'[s])
  <2>1. Restoring(r) /\ todo'[r] = todo[r]
    BY <1>2
  <2>2. PICK i \in NewestOf(todo[r]) :
           /\ points[i].status = "rolling_back"
           /\ \A s \in Roller \ {r} : Restoring(s) => i \notin NewestOf(todo[s])
    BY <2>1 DEF RestoresOnce
  <2>3. points'[i].status = "rolling_back"
    BY <1>1, <2>2
  <2>4. ASSUME NEW s \in Roller \ {r}, Restoring(s)'
        PROVE  i \notin NewestOf(todo'[s])
    <3>1. Restoring(s) /\ todo'[s] = todo[s]
      BY <2>4
    <3> QED  BY <2>2, <3>1
  <2> QED  BY <2>1, <2>2, <2>3, <2>4
<1> QED  BY <1>2 DEF RestoresOnce, NewestOf

\* A rollback marks an available point, so one that nobody restores, and
\* leaves the point it has recorded.
LEMMA RestoresOnceStep ==
    ASSUME Rows, Locals, Capturing, RestoresOnce, [RestoreNext]_restoreVars
    PROVE  RestoresOnce'
<1> USE DEF driver, calls, bounds
<1>1. CASE CreatePoint
  <2>1. \A i \in 1..Len(points) : points'[i] = points[i]
    BY <1>1, NewPoint
  <2>2. UNCHANGED <<place, todo>>
    BY <1>1 DEF CreatePoint
  <2> QED  BY <2>1, <2>2, RestoresOnceKept DEF Restoring
<1>2. CASE Backup
  BY <1>2, RestoresOnceKept DEF Backup, Restoring
<1>3. CASE FinishPoint
  <2>1. /\ \A i \in 1..Len(points) : i # Newest => points'[i] = points[i]
        /\ points[Newest].status = "creating" /\ UNCHANGED <<place, todo>>
    BY <1>3, PointFinished DEF FinishPoint, Capturing
  <2> QED  BY <2>1, RestoresOnceKept DEF Restoring
<1>4. CASE RecordFailure
  <2>1. StatusSet(Newest, "failed") /\ points[Newest].status = "creating" /\ UNCHANGED <<place, todo>>
    BY <1>4, PointFailed DEF RecordFailure, Capturing
  <2> QED  BY <2>1, RestoresOnceKept DEF Restoring, StatusSet
<1>5. CASE Upload
  BY <1>5, RestoresOnceKept DEF Upload, Restoring
<1>6. CASE CloseRun
  BY <1>6, RestoresOnceKept DEF CloseRun, Restoring
<1>7. CASE Retry
  BY <1>7, RestoresOnceKept DEF Retry, Restoring
<1>8. CASE CaptureFault
  BY <1>8, RestoresOnceKept DEF CaptureFault, Restoring
<1>9. CASE CloseRunFault
  BY <1>9, RestoresOnceKept DEF CloseRunFault, Restoring
<1>10. CASE Restart
  <2>1. /\ \A r \in Roller : place'[r] \notin {"restore", "restored", "not restored"}
        /\ points' = points
    BY <1>10 DEF Restart, Call, Busy
  <2>2. \A r \in Roller : ~Restoring(r)'
    BY <2>1 DEF Restoring
  <2> QED  BY <2>1, <2>2, RestoresOnceKept
<1>11. ASSUME NEW r \in Roller, Rollback(r)
      PROVE  RestoresOnce'
  <2>0. r \in Call /\ r \notin Cleaner
    BY LeftToRestore
  <2>1. CASE ReadEndedRun(r)
    <3>1. place' = [place EXCEPT ![r] = "points"] /\ UNCHANGED <<points, todo>>
      BY <2>1 DEF ReadEndedRun, Move
    <3>2. \A s \in Roller : Restoring(s)' => Restoring(s)
      BY <2>0, <3>1 DEF Restoring, Locals, Call
    <3> QED  BY <3>1, <3>2, RestoresOnceKept
  <2>2. CASE ReadPoints(r)
    <3>1. /\ place[r] = "points" /\ points' = points
          /\ \/ place' = [place EXCEPT ![r] = "done"] \/ place' = [place EXCEPT ![r] = "connect"]
          /\ \E plan : todo' = [todo EXCEPT ![r] = plan]
      BY <2>2 DEF ReadPoints, Move
    <3>2. \A s \in Roller : Restoring(s)' => Restoring(s) /\ todo'[s] = todo[s]
      BY <2>0, <3>1 DEF Restoring, Locals, Call
    <3> QED  BY <3>1, <3>2, RestoresOnceKept
  <2>3. CASE ConnectServer(r)
    <3>1. /\ place' = [place EXCEPT ![r] = "mark"] \/ place' = [place EXCEPT ![r] = "close"]
          /\ UNCHANGED <<points, todo>>
      BY <2>3 DEF ConnectServer, Move
    <3>2. \A s \in Roller : Restoring(s)' => Restoring(s)
      BY <2>0, <3>1 DEF Restoring, Locals, Call
    <3> QED  BY <3>1, <3>2, RestoresOnceKept
  <2>4. CASE Mark(r)
    <3>1. PICK i \in NewestOf(todo[r]) :
             \/ /\ points[i].status = "available" /\ StatusSet(i, "rolling_back")
                /\ place' = [place EXCEPT ![r] = "restore"] /\ todo' = todo
             \/ /\ points' = points
                /\ place' = [place EXCEPT ![r] = "done"] /\ todo' = [todo EXCEPT ![r] = {}]
      BY <2>4, Marks
    <3>2. CASE points' = points /\ place' = [place EXCEPT ![r] = "done"]
               /\ todo' = [todo EXCEPT ![r] = {}]
      <4>1. \A s \in Roller : Restoring(s)' => Restoring(s) /\ todo'[s] = todo[s]
        BY <2>0, <3>2 DEF Restoring, Locals, Call
      <4> QED  BY <3>2, <4>1, RestoresOnceKept
    <3>3. CASE /\ points[i].status = "available" /\ StatusSet(i, "rolling_back")
               /\ place' = [place EXCEPT ![r] = "restore"] /\ todo' = todo
      <4>1. /\ i \in 1..Len(points) /\ \A j \in NewestOf(todo[r]) : j = i
            /\ \A s \in Roller : \A j \in NewestOf(todo[s]) : j \in 1..Len(points)
        BY <3>1, LeftToRestore
      <4>2. \A s \in Roller \ {r} : Restoring(s)' => Restoring(s)
        BY <2>0, <3>3 DEF Restoring, Locals, Call
      <4>3. ASSUME NEW s \in Roller \ {r}, Restoring(s)
            PROVE  \E j \in NewestOf(todo[s]) :
                      /\ points'[j].status = "rolling_back" /\ j # i
                      /\ \A q \in Roller \ {s} : Restoring(q) => j \notin NewestOf(todo[q])
        <5>1. PICK j \in NewestOf(todo[s]) :
                 /\ points[j].status = "rolling_back"
                 /\ \A q \in Roller \ {s} : Restoring(q) => j \notin NewestOf(todo[q])
          BY <4>3 DEF RestoresOnce
        <5>2. j # i /\ j \in 1..Len(points)
          BY <3>3, <4>1, <5>1
        <5> QED  BY <3>3, <5>1, <5>2 DEF StatusSet
      <4>4. \A s \in Roller \ {r} : Restoring(s) => i \notin NewestOf(todo[s])
        <5> SUFFICES ASSUME NEW s \in Roller \ {r}, Restoring(s)
                     PROVE  i \notin NewestOf(todo[s])
          OBVIOUS
        <5>1. PICK j \in NewestOf(todo[s]) : j # i
          BY <4>3
        <5> QED  BY <5>1, LeftToRestore
      <4>5. points'[i].status = "rolling_back"
        BY <3>3, <4>1 DEF StatusSet
      <4>6. ASSUME NEW s \in Roller, Restoring(s)'
            PROVE  \E j \in NewestOf(todo'[s]) :
                      /\ points'[j].status = "rolling_back"
                      /\ \A q \in Roller \ {s} : Restoring(q)' => j \notin NewestOf(todo'[q])
        <5>1. CASE s = r
          <6>1. \A q \in Roller \ {s} : Restoring(q)' => i \notin NewestOf(todo'[q])
            BY <3>3, <4>2, <4>4, <5>1
          <6> QED  BY <3>1, <3>3, <4>5, <5>1, <6>1
        <5>2. CASE s # r
          <6>1. PICK j \in NewestOf(todo[s]) :
                   /\ points'[j].status = "rolling_back" /\ j # i
                   /\ \A q \in Roller \ {s} : Restoring(q) => j \notin NewestOf(todo[q])
            BY <4>2, <4>3, <4>6, <5>2
          <6>2. \A q \in Roller \ {s} : Restoring(q)' => j \notin NewestOf(todo'[q])
            BY <3>3, <4>1, <4>2, <6>1
          <6> QED  BY <3>3, <6>1, <6>2
        <5> QED  BY <5>1, <5>2
      <4> QED  BY <4>6 DEF RestoresOnce, NewestOf
    <3> QED  BY <3>1, <3>2, <3>3
  <2>5. CASE Restore(r)
    <3>1. /\ place[r] = "restore" /\ UNCHANGED <<points, todo>>
          /\ place' = [place EXCEPT ![r] = "restored"] \/ place' = [place EXCEPT ![r] = "not restored"]
      BY <2>5 DEF Restore, Move
    <3>2. \A s \in Roller : Restoring(s)' => Restoring(s)
      BY <2>0, <3>1 DEF Restoring, Locals, Call
    <3> QED  BY <3>1, <3>2, RestoresOnceKept
  <2>6. CASE Record(r)
    <3>1. PICK i \in NewestOf(todo[r]) :
             /\ \E s : StatusSet(i, s)
             /\ todo' = [todo EXCEPT ![r] = todo[r] \ {i}]
             /\ \/ place' = [place EXCEPT ![r] = "close"] \/ place' = [place EXCEPT ![r] = "mark"]
      BY <2>6, Records
    <3>2. \A s \in Roller \ {r} : Restoring(s) => i \notin NewestOf(todo[s])
      <4>1. Restoring(r)
        BY <2>6 DEF Restoring, Record
      <4>2. PICK j \in NewestOf(todo[r]) :
               \A s \in Roller \ {r} : Restoring(s) => j \notin NewestOf(todo[s])
        BY <4>1 DEF RestoresOnce
      <4> QED  BY <3>1, <4>2, LeftToRestore
    <3>3. \A s \in Roller : Restoring(s)' => s # r /\ Restoring(s) /\ todo'[s] = todo[s]
      BY <2>0, <3>1 DEF Restoring, Locals, Call
    <3>4. \A s \in Roller : \A j \in NewestOf(todo[s]) : j \in 1..Len(points)
      BY LeftToRestore
    <3>5. ASSUME NEW s \in Roller, Restoring(s)'
          PROVE  \E j \in NewestOf(todo'[s]) :
                    /\ points'[j].status = "rolling_back"
                    /\ \A q \in Roller \ {s} : Restoring(q)' => j \notin NewestOf(todo'[q])
      <4>1. s # r /\ Restoring(s) /\ todo'[s] = todo[s]
        BY <3>3, <3>5
      <4>2. PICK j \in NewestOf(todo[s]) :
               /\ points[j].status = "rolling_back"
               /\ \A q \in Roller \ {s} : Restoring(q) => j \notin NewestOf(todo[q])
        BY <4>1 DEF RestoresOnce
      <4>3. j # i /\ j \in 1..Len(points)
        BY <3>2, <3>4, <4>1, <4>2
      <4>4. points'[j].status = "rolling_back"
        BY <3>1, <4>2, <4>3 DEF StatusSet
      <4>5. \A q \in Roller \ {s} : Restoring(q)' => j \notin NewestOf(todo'[q])
        BY <3>3, <4>2
      <4> QED  BY <4>1, <4>2, <4>4, <4>5
    <3> QED  BY <3>5 DEF RestoresOnce, NewestOf
  <2>7. CASE CloseRollback(r)
    <3>1. /\ place' = [place EXCEPT ![r] = "done"] /\ todo' = [todo EXCEPT ![r] = {}] /\ points' = points
      BY <2>7 DEF CloseRollback, Return, Move
    <3>2. \A s \in Roller : Restoring(s)' => Restoring(s) /\ todo'[s] = todo[s]
      BY <2>0, <3>1 DEF Restoring, Locals, Call
    <3> QED  BY <3>1, <3>2, RestoresOnceKept
  <2> QED  BY <1>11, <2>1, <2>2, <2>3, <2>4, <2>5, <2>6, <2>7 DEF Rollback
<1>12. ASSUME NEW c \in Cleaner, Clean(c)
      PROVE  RestoresOnce'
  <2>1. RollersKept /\ OnlyExpires
    BY <1>12, Cleans
  <2> QED  BY <2>1, RestoresOnceKept DEF RollersKept, OnlyExpires, Restoring
<1>13. ASSUME NEW c \in Call, CallFault(c)
      PROVE  RestoresOnce'
  <2>1. place' = [place EXCEPT ![c] = "done"] /\ todo' = [todo EXCEPT ![c] = {}] /\ points' = points
    BY <1>13 DEF CallFault, Return, Move
  <2>2. \A s \in Roller : Restoring(s)' => Restoring(s) /\ todo'[s] = todo[s]
    BY <2>1 DEF Restoring, Locals, Call
  <2> QED  BY <2>1, <2>2, RestoresOnceKept
<1>14. CASE UNCHANGED restoreVars
  BY <1>14, RestoresOnceKept DEF restoreVars, Restoring
<1> QED  BY <1>1, <1>2, <1>3, <1>4, <1>5, <1>6, <1>7, <1>8, <1>9, <1>10, <1>11, <1>12, <1>13, <1>14 DEF RestoreNext, Drive

-----------------------------------------------------------------------------
(* One rollback at a time, as long as none is disturbed.                   *)

\* Points that can be restored were that before the step, with the same status.
Unmoved ==
    \A i \in 1..Len(points') :
        points'[i].status \in {"available", "rolling_back"} =>
            i \in 1..Len(points) /\ points[i].status = points'[i].status

\* A step that leaves the rollbacks alone, and makes no point one to restore.
LEMMA OneWorksKept ==
    ASSUME OneWorks, RollersKept, Unmoved, run' = run
    PROVE  OneWorks'
<1>1. \A r \in Roller : /\ Busy(r)' => Busy(r)
                        /\ Working(r)' => Working(r)
                        /\ Restoring(r) => Restoring(r)'
  BY DEF RollersKept, Busy, Working, Restoring
<1>2. NoneAvailable => NoneAvailable'
  BY DEF NoneAvailable, Unmoved, Newest
<1>3. \A r \in Roller : Working(r) =>
         \A i \in 1..Newest' : points'[i].status = "available" => i \in todo'[r]
  BY DEF OneWorks, Unmoved, RollersKept, Newest
<1>4. ASSUME NEW i \in 1..Newest', points'[i].status = "rolling_back"
      PROVE  \E r \in Roller : Restoring(r)' /\ i \in NewestOf(todo'[r])
  <2>1. i \in 1..Newest /\ points[i].status = "rolling_back"
    BY <1>4 DEF Unmoved, Newest
  <2>2. PICK r \in Roller : Restoring(r) /\ i \in NewestOf(todo[r])
    BY <2>1 DEF OneWorks
  <2>3. todo'[r] = todo[r]
    BY DEF RollersKept
  <2>4. Restoring(r)'
    BY <1>1, <2>2
  <2> QED  BY <2>2, <2>3, <2>4 DEF NewestOf
<1> QED  BY <1>1, <1>2, <1>3, <1>4 DEF OneWorks, NewestOf, RollersKept

\* A state in which no rollback is at work.
LEMMA NoneWorks ==
    ASSUME \A r \in Roller : ~Working(r)',
           run' = "running" => \A r \in Roller : ~Busy(r)',
           run' = "rolled_back" => NoneAvailable',
           \A i \in 1..Len(points') : points'[i].status # "rolling_back"
    PROVE  OneWorks'
  BY DEF OneWorks, Newest

\* While the run is running nobody restores, and nothing is left half restored.
LEMMA NobodyRestores ==
    ASSUME OneWorks, run = "running"
    PROVE  /\ \A r \in Roller : ~Busy(r) /\ ~Working(r) /\ ~Restoring(r) /\ place[r] \in {"idle", "done"}
           /\ \A i \in 1..Len(points) : points[i].status # "rolling_back"
<1>1. \A r \in Roller : ~Busy(r)
  BY DEF OneWorks
<1>2. \A r \in Roller : ~Busy(r) /\ ~Working(r) /\ ~Restoring(r) /\ place[r] \in {"idle", "done"}
  BY <1>1 DEF Busy, Working, Restoring
<1> QED  BY <1>2 DEF OneWorks, Newest

\* A rollback that begins while another is busy, and a retry of the run while
\* one is, disturb it.
LEMMA OneWorksStep ==
    ASSUME Rows, Locals, Capturing, RestoresOnce, OneWorks, Recoverable, ~disturbed', [RestoreNext]_restoreVars
    PROVE  OneWorks'
<1> USE DEF driver, calls, bounds
<1>1. CASE CreatePoint
  <2>1. /\ Len(points) \in Nat /\ Len(points') = Len(points) + 1
        /\ \A i \in 1..Len(points) : points'[i] = points[i]
        /\ points'[Len(points) + 1].status = "creating"
    BY <1>1, NewPoint, Sizes
  <2>2. Unmoved
    BY <2>1 DEF Unmoved
  <2>3. RollersKept /\ run' = run
    BY <1>1 DEF CreatePoint, RollersKept
  <2> QED  BY <2>2, <2>3, OneWorksKept
<1>2. CASE Backup
  <2>1. RollersKept /\ Unmoved /\ run' = run
    BY <1>2 DEF Backup, RollersKept, Unmoved
  <2> QED  BY <2>1, OneWorksKept
<1>3. CASE FinishPoint
  <2>1. run = "running" /\ UNCHANGED <<run, place, todo>>
    BY <1>3 DEF FinishPoint, Capturing
  <2>2. /\ \A r \in Roller : ~Busy(r) /\ ~Working(r)
        /\ \A i \in 1..Len(points) : points[i].status # "rolling_back"
    BY <2>1, NobodyRestores
  <2>3. \A r \in Roller : ~Busy(r)' /\ ~Working(r)'
    BY <2>1, <2>2 DEF Busy, Working
  <2>4. \A i \in 1..Len(points') : points'[i].status # "rolling_back"
    BY <1>3, <2>2, PointFinished
  <2> QED  BY <2>1, <2>3, <2>4, NoneWorks
<1>4. CASE RecordFailure
  <2>1. StatusSet(Newest, "failed") /\ RollersKept /\ run' = run
    BY <1>4, PointFailed DEF RecordFailure, RollersKept
  <2>2. Unmoved
    BY <2>1 DEF Unmoved, StatusSet
  <2> QED  BY <2>1, <2>2, OneWorksKept
<1>5. CASE Upload
  <2>1. RollersKept /\ Unmoved /\ run' = run
    BY <1>5 DEF Upload, RollersKept, Unmoved
  <2> QED  BY <2>1, OneWorksKept
<1>6. CASE CloseRun
  <2>1. /\ \A r \in Roller : place[r] \in {"idle", "done"}
        /\ \A i \in 1..Len(points) : points[i].status # "rolling_back"
    BY <1>6, NobodyRestores DEF CloseRun, Capturing
  <2>2. /\ \A r \in Roller : ~Working(r)' /\ ~Busy(r)'
        /\ points' = points /\ run' # "rolled_back"
    BY <1>6, <2>1 DEF CloseRun, Working, Busy, Rows, Ended
  <2> QED  BY <2>1, <2>2, NoneWorks
<1>7. CASE Retry
  <2>1. \A r \in Roller : ~Busy(r)
    BY <1>7 DEF Retry, Call
  <2>2. \A r \in Roller : ~Working(r) /\ ~Restoring(r)
    BY <2>1 DEF Busy, Working, Restoring
  <2>3. \A i \in 1..Len(points) : points[i].status # "rolling_back"
    BY <2>2 DEF OneWorks, Newest
  <2>4. /\ points' = points /\ run' = "running"
        /\ \A r \in Roller : ~Working(r)' /\ ~Busy(r)'
    BY <1>7, <2>1, <2>2 DEF Retry, Working, Busy
  <2> QED  BY <2>3, <2>4, NoneWorks
<1>8. CASE CaptureFault
  <2>1. RollersKept /\ Unmoved /\ run' = run
    BY <1>8 DEF CaptureFault, RollersKept, Unmoved
  <2> QED  BY <2>1, OneWorksKept
<1>9. CASE CloseRunFault
  <2>1. RollersKept /\ Unmoved /\ run' = run
    BY <1>9 DEF CloseRunFault, RollersKept, Unmoved
  <2> QED  BY <2>1, OneWorksKept
<1>10. CASE Restart
  <2>1. \A r \in Roller : ~Busy(r)
    BY <1>10 DEF Restart
  <2>2. \A r \in Roller : ~Working(r) /\ ~Restoring(r)
    BY <2>1 DEF Busy, Working, Restoring
  <2>3. \A i \in 1..Len(points) : points[i].status # "rolling_back"
    BY <2>2 DEF OneWorks, Newest
  <2>4. /\ points' = points /\ run' # "running" /\ (run' = "rolled_back" => run = "rolled_back")
        /\ \A r \in Roller : ~Working(r)'
    BY <1>10, <2>1, <2>2 DEF Restart, Working, Busy, Call
  <2>5. run' = "rolled_back" => NoneAvailable'
    BY <2>4 DEF OneWorks, NoneAvailable, Newest
  <2> QED  BY <2>3, <2>4, <2>5, NoneWorks
<1>11. ASSUME NEW r \in Roller, Rollback(r)
      PROVE  OneWorks'
  <2>0. r \in Call /\ r \notin Cleaner
    BY LeftToRestore
  <2>1. CASE ReadEndedRun(r)
    <3>1. /\ place' = [place EXCEPT ![r] = "points"] /\ UNCHANGED <<run, points, todo>>
          /\ place[r] = "idle" /\ run \in Ended
      BY <2>1 DEF ReadEndedRun, Move
    <3>2. \A s \in Roller : /\ Working(s)' => Working(s)
                            /\ Restoring(s) => Restoring(s)'
      BY <2>0, <3>1 DEF Working, Restoring, Locals, Call
    <3>3. NoneAvailable => NoneAvailable'
      BY <3>1 DEF NoneAvailable, Newest
    <3> QED  BY <3>1, <3>2, <3>3 DEF OneWorks, Ended, Newest, NewestOf
  <2>2. CASE ReadPoints(r)
    <3> DEFINE plan == {i \in 1..Newest : points[i].status = "available"}
    <3>1. /\ place[r] = "points" /\ UNCHANGED <<run, points>>
          /\ todo' = [todo EXCEPT ![r] = plan]
          /\ place' = [place EXCEPT ![r] = IF plan = {} THEN "done" ELSE "connect"]
          /\ \A s \in Roller \ {r} : ~Busy(s)
      BY <2>2 DEF ReadPoints, Move
    <3>2. \A s \in Roller : ~Restoring(s) /\ ~Working(s)
      BY <3>1 DEF Busy, Restoring, Working
    <3>3. \A i \in 1..Len(points) : points[i].status # "rolling_back"
      BY <3>2 DEF OneWorks, Newest
    <3>4. run # "running" /\ (NoneAvailable => plan = {})
      BY <3>1 DEF OneWorks, Busy, NoneAvailable
    <3>5. run \in Ended \/ plan = {}
      BY <3>4 DEF OneWorks, Rows
    <3>6. \A s \in Roller \ {r} : place'[s] = place[s] /\ ~Working(s)'
      BY <2>0, <3>1, <3>2 DEF Working, Locals, Call
    <3>7. todo'[r] = plan /\ \A i \in 1..Newest : points[i].status = "available" => i \in plan
      BY <2>0, <3>1 DEF Locals
    <3>8. place'[r] = IF plan = {} THEN "done" ELSE "connect"
      BY <2>0, <3>1 DEF Locals
    <3> HIDE DEF plan
    <3>9. NoneAvailable' <=> NoneAvailable
      BY <3>1 DEF NoneAvailable, Newest
    <3>10. CASE plan = {}
      <4>1. \A s \in Roller : ~Working(s)'
        BY <3>6, <3>8, <3>10 DEF Working
      <4>2. run' = "rolled_back" => NoneAvailable'
        BY <3>1, <3>9 DEF OneWorks
      <4> QED  BY <3>1, <3>3, <3>4, <4>1, <4>2, NoneWorks
    <3>11. CASE plan # {}
      <4>1. run' \in Ended /\ run' # "running" /\ run' # "rolled_back"
        BY <3>1, <3>5, <3>11 DEF Ended
      <4>2. \A s \in Roller : Working(s)' => s = r
        BY <3>6
      <4>3. \A i \in 1..Newest' : /\ points'[i].status # "rolling_back"
                                  /\ points'[i].status = "available" => i \in todo'[r]
        BY <3>1, <3>3, <3>7 DEF Newest
      <4> QED  BY <4>1, <4>2, <4>3 DEF OneWorks, Newest
    <3> QED  BY <3>10, <3>11
  <2>3. CASE ConnectServer(r)
    <3>1. /\ place' = [place EXCEPT ![r] = "mark"] \/ place' = [place EXCEPT ![r] = "close"]
          /\ UNCHANGED <<run, points, todo>> /\ place[r] = "connect"
      BY <2>3 DEF ConnectServer, Move
    <3>2. \A s \in Roller : /\ Working(s)' => Working(s)
                            /\ Restoring(s) => Restoring(s)'
                            /\ Busy(s)' => Busy(s)
      BY <2>0, <3>1 DEF Working, Restoring, Busy, Locals, Call
    <3>3. NoneAvailable => NoneAvailable'
      BY <3>1 DEF NoneAvailable, Newest
    <3> QED  BY <3>1, <3>2, <3>3 DEF OneWorks, Newest, NewestOf
  <2>4. CASE Mark(r)
    <3>1. PICK i \in NewestOf(todo[r]) :
             /\ points[i].status = "available" /\ StatusSet(i, "rolling_back")
             /\ place' = [place EXCEPT ![r] = "restore"] /\ todo' = todo
      BY <2>4, Marks
    <3>2. place[r] = "mark" /\ run' = run /\ Len(points') = Len(points)
      BY <2>4, <3>1 DEF Mark, StatusSet
    <3>3. \A s \in Roller : /\ Working(s)' => Working(s)
                            /\ Restoring(s) \/ s = r => Restoring(s)'
                            /\ Busy(s)' => Busy(s)
      BY <2>0, <3>1, <3>2 DEF Working, Restoring, Busy, Locals, Call
    <3>4. \A j \in 1..Newest : /\ points'[j].status = "available" => points[j].status = "available"
                               /\ points'[j].status = "rolling_back" => points[j].status = "rolling_back" \/ j = i
      BY <3>1 DEF StatusSet, Newest
    <3>5. NoneAvailable => NoneAvailable'
      BY <3>2, <3>4 DEF NoneAvailable, Newest
    <3>6. \A j \in 1..Newest' : points'[j].status = "rolling_back" =>
             \E s \in Roller : Restoring(s)' /\ j \in NewestOf(todo'[s])
      BY <3>1, <3>2, <3>3, <3>4 DEF OneWorks, NewestOf, Newest
    <3> QED  BY <3>1, <3>2, <3>3, <3>4, <3>5, <3>6 DEF OneWorks, Newest
  <2>5. CASE Restore(r)
    <3>1. /\ place' = [place EXCEPT ![r] = "restored"] \/ place' = [place EXCEPT ![r] = "not restored"]
          /\ UNCHANGED <<run, points, todo>> /\ place[r] = "restore"
      BY <2>5 DEF Restore, Move
    <3>2. \A s \in Roller : /\ Working(s)' => Working(s)
                            /\ Restoring(s) => Restoring(s)'
                            /\ Busy(s)' => Busy(s)
      BY <2>0, <3>1 DEF Working, Restoring, Busy, Locals, Call
    <3>3. NoneAvailable => NoneAvailable'
      BY <3>1 DEF NoneAvailable, Newest
    <3> QED  BY <3>1, <3>2, <3>3 DEF OneWorks, Newest, NewestOf
  <2>6. CASE Record(r)
    <3>1. PICK i \in NewestOf(todo[r]) :
             /\ \E s \in {"rolled_back", "failed"} : StatusSet(i, s)
             /\ todo' = [todo EXCEPT ![r] = todo[r] \ {i}]
             /\ \/ place' = [place EXCEPT ![r] = "close"] \/ place' = [place EXCEPT ![r] = "mark"]
      BY <2>6, Records
    <3>2. Working(r) /\ Restoring(r) /\ run' = run /\ Len(points') = Len(points)
      BY <2>6, <3>1 DEF Record, Working, Restoring, StatusSet
    <3>3. \A s \in Roller \ {r} : ~Working(s) /\ ~Restoring(s)
      BY <3>2 DEF OneWorks, Working, Restoring
    <3>4. \A s \in Roller : /\ Working(s)' => Working(s)
                            /\ Busy(s)' => Busy(s)
      BY <2>0, <3>1, <3>2 DEF Working, Restoring, Busy, Locals, Call
    <3>5. \A j \in 1..Newest : /\ points'[j].status = "available" => points[j].status = "available" /\ j # i
                               /\ points'[j].status = "rolling_back" => points[j].status = "rolling_back" /\ j # i
      BY <3>1 DEF StatusSet, Newest
    <3>6. \A j \in 1..Newest : points[j].status = "rolling_back" => j = i
      BY <3>1, <3>3, LeftToRestore DEF OneWorks
    <3>7. NoneAvailable => NoneAvailable'
      BY <3>2, <3>5 DEF NoneAvailable, Newest
    <3>8. todo'[r] = todo[r] \ {i}
      BY <2>0, <3>1 DEF Locals
    <3>9. \A j \in 1..Newest' : points'[j].status # "rolling_back"
      BY <3>2, <3>5, <3>6 DEF Newest
    <3>10. \A j \in 1..Newest' : points'[j].status = "available" => j \in todo'[r]
      BY <3>2, <3>5, <3>8 DEF OneWorks, Newest
    <3> QED  BY <3>2, <3>3, <3>4, <3>7, <3>9, <3>10 DEF OneWorks, Newest
  <2>7. CASE CloseRollback(r)
    <3>1. /\ place' = [place EXCEPT ![r] = "done"] /\ points' = points /\ place[r] = "close"
          /\ run' = IF run \notin Ended THEN run
                    ELSE IF r \in failed THEN "rollback_failed" ELSE "rolled_back"
      BY <2>7 DEF CloseRollback, Return, Move
    <3>2. Working(r) /\ ~Restoring(r) /\ run \in Ended
      BY <3>1 DEF Working, Restoring, OneWorks
    <3>3. \A s \in Roller : ~Restoring(s) /\ (s # r => ~Working(s))
      BY <3>2 DEF OneWorks, Working, Restoring
    <3>4. \A s \in Roller : ~Working(s)'
      BY <2>0, <3>1, <3>3 DEF Working, Locals, Call
    <3>5. \A i \in 1..Len(points') : points'[i].status # "rolling_back"
      BY <3>1, <3>3 DEF OneWorks, Newest
    <3>6. run' # "running" /\ (run' = "rolled_back" => r \notin failed)
      BY <3>1, <3>2 DEF Ended
    <3>7. r \notin failed => todo[r] = {}
      BY <3>1 DEF Recoverable
    <3>8. run' = "rolled_back" => NoneAvailable'
      BY <3>1, <3>2, <3>6, <3>7 DEF OneWorks, NoneAvailable, Newest
    <3> QED  BY <3>4, <3>5, <3>6, <3>8, NoneWorks
  <2> QED  BY <1>11, <2>1, <2>2, <2>3, <2>4, <2>5, <2>6, <2>7 DEF Rollback
<1>12. ASSUME NEW c \in Cleaner, Clean(c)
      PROVE  OneWorks'
  <2>1. RollersKept /\ OnlyExpires /\ run' = run
    BY <1>12, Cleans
  <2>2. Unmoved
    BY <2>1 DEF OnlyExpires, Unmoved
  <2> QED  BY <2>1, <2>2, OneWorksKept
<1>13. ASSUME NEW c \in Call, CallFault(c)
      PROVE  OneWorks'
  <2>1. RollersKept /\ UNCHANGED <<run, points>>
    BY <1>13, CleanFails
  <2>2. Unmoved
    BY <2>1 DEF Unmoved
  <2> QED  BY <2>1, <2>2, OneWorksKept
<1>14. CASE UNCHANGED restoreVars
  <2>1. RollersKept /\ Unmoved /\ run' = run
    BY <1>14 DEF restoreVars, RollersKept, Unmoved
  <2> QED  BY <2>1, OneWorksKept
<1> QED  BY <1>1, <1>2, <1>3, <1>4, <1>5, <1>6, <1>7, <1>8, <1>9, <1>10, <1>11, <1>12, <1>13, <1>14 DEF RestoreNext, Drive

-----------------------------------------------------------------------------
(* What was copied is what is there.                                       *)

\* The points a rollback has left, and what a restored path holds, stay.
LEMMA CopiedKept ==
    ASSUME Copied, Rows, Locals, RollersKept, UNCHANGED <<remote, stage, got, step>>,
           \A i \in 1..Len(points) :
              /\ i \in 1..Len(points')
              /\ points'[i].path = points[i].path /\ points'[i].saved = points[i].saved
              /\ points[i].status \in {"available", "expired"} =>
                    points'[i].status \in {"available", "expired"}
    PROVE  Copied'
<1>1. stage' = "finish" => got' = remote'[Here']
  BY DEF Copied, Here
<1>2. stage' = "upload" => \E i \in 1..Newest' :
          points'[i].path = Here' /\ points'[i].status \in {"available", "expired"}
  BY DEF Copied, Here, Newest
<1>3. ASSUME NEW r \in Roller, place'[r] = "restored", NEW i \in NewestOf(todo'[r])
      PROVE  remote'[points'[i].path] = points'[i].saved
  <2>1. place[r] = "restored" /\ todo'[r] = todo[r]
    BY <1>3 DEF RollersKept
  <2>2. i \in 1..Len(points) /\ remote[points[i].path] = points[i].saved
    BY <1>3, <2>1, LeftToRestore DEF Copied
  <2> QED  BY <2>2
<1> QED  BY <1>1, <1>2, <1>3 DEF Copied, NewestOf

\* While no rollback has restored a point.
LEMMA NoneRestored ==
    ASSUME \A r \in Roller : place'[r] # "restored",
           stage' = "finish" => got' = remote'[Here'],
           stage' = "upload" => \E i \in 1..Len(points') :
               points'[i].path = Here' /\ points'[i].status \in {"available", "expired"}
    PROVE  Copied'
  BY DEF Copied, Newest

\* Between the capture and the upload nobody changes the path, and between
\* the restore of a point and its record nobody changes that.
LEMMA CopiedStep ==
    ASSUME Rows, Locals, Capturing, RestoresOnce, OneWorks, Recoverable, ~disturbed', Copied, [RestoreNext]_restoreVars
    PROVE  Copied'
<1> USE DEF driver, calls, bounds
<1>1. CASE CreatePoint
  <2>1. run = "running" /\ place' = place
    BY <1>1 DEF CreatePoint, Capturing
  <2>2. \A r \in Roller : place'[r] # "restored"
    BY <2>1, NobodyRestores
  <2>3. stage' = "backup"
    BY <1>1 DEF CreatePoint
  <2> QED  BY <2>2, <2>3, NoneRestored
<1>2. CASE Backup
  <2>1. run = "running" /\ place' = place
    BY <1>2 DEF Backup, Capturing
  <2>2. \A r \in Roller : place'[r] # "restored"
    BY <2>1, NobodyRestores
  <2>3. stage' = "record" \/ (stage' = "finish" /\ got' = remote'[Here'])
    BY <1>2 DEF Backup, Here
  <2> QED  BY <2>2, <2>3, NoneRestored
<1>3. CASE FinishPoint
  <2>1. run = "running" /\ place' = place
    BY <1>3 DEF FinishPoint, Capturing
  <2>2. \A r \in Roller : place'[r] # "restored"
    BY <2>1, NobodyRestores
  <2>3. stage' = "upload" /\ Here' = Here
    BY <1>3 DEF FinishPoint, Here
  <2>4. Newest \in 1..Len(points') /\ points'[Newest].path = Here /\ points'[Newest].status = "available"
    BY <1>3, PointFinished DEF FinishPoint, Capturing
  <2> QED  BY <2>2, <2>3, <2>4, NoneRestored
<1>4. CASE RecordFailure
  <2>1. run = "running" /\ place' = place
    BY <1>4 DEF RecordFailure, Capturing
  <2>2. \A r \in Roller : place'[r] # "restored"
    BY <2>1, NobodyRestores
  <2>3. stage' = "close"
    BY <1>4 DEF RecordFailure
  <2> QED  BY <2>2, <2>3, NoneRestored
<1>5. CASE Upload
  <2>1. run = "running" /\ place' = place
    BY <1>5 DEF Upload, Capturing
  <2>2. \A r \in Roller : place'[r] # "restored"
    BY <2>1, NobodyRestores
  <2>3. stage' \in {"close", "create"}
    BY <1>5 DEF Upload
  <2> QED  BY <2>2, <2>3, NoneRestored
<1>6. CASE CloseRun
  <2>1. run = "running" /\ place' = place
    BY <1>6 DEF CloseRun, Capturing
  <2>2. \A r \in Roller : place'[r] # "restored"
    BY <2>1, NobodyRestores
  <2>3. stage' = "idle"
    BY <1>6 DEF CloseRun
  <2> QED  BY <2>2, <2>3, NoneRestored
<1>7. CASE Retry
  <2>1. stage' = "create" /\ \A r \in Roller : place'[r] # "restored"
    BY <1>7 DEF Retry, Busy, Call
  <2> QED  BY <2>1, NoneRestored
<1>8. CASE CaptureFault
  <2>1. run = "running" /\ place' = place
    BY <1>8 DEF CaptureFault, Capturing
  <2>2. \A r \in Roller : place'[r] # "restored"
    BY <2>1, NobodyRestores
  <2>3. stage' = "close"
    BY <1>8 DEF CaptureFault
  <2> QED  BY <2>2, <2>3, NoneRestored
<1>9. CASE CloseRunFault
  <2>1. run = "running" /\ place' = place
    BY <1>9 DEF CloseRunFault, Capturing
  <2>2. \A r \in Roller : place'[r] # "restored"
    BY <2>1, NobodyRestores
  <2>3. stage' = "idle"
    BY <1>9 DEF CloseRunFault
  <2> QED  BY <2>2, <2>3, NoneRestored
<1>10. CASE Restart
  <2>1. /\ stage' = "idle"
        /\ \A r \in Roller : place'[r] # "restored"
    BY <1>10 DEF Restart, Busy, Call
  <2> QED  BY <2>1, NoneRestored
<1>11. ASSUME NEW r \in Roller, Rollback(r)
      PROVE  Copied'
  <2>0. r \in Call /\ r \notin Cleaner
    BY LeftToRestore
  <2>1. CASE ReadEndedRun(r)
    <3>1. /\ place[r] = "idle" /\ place' = [place EXCEPT ![r] = "points"]
          /\ UNCHANGED <<remote, points, stage, got, step, todo>>
      BY <2>1 DEF ReadEndedRun, Move
    <3>2. \A s \in Roller : place'[s] = "restored" => place[s] = "restored"
      BY <2>0, <3>1 DEF Locals, Call
    <3> QED  BY <3>1, <3>2 DEF Copied, Here, Newest, NewestOf
  <2>2. CASE ReadPoints(r)
    <3>1. /\ \A s \in Roller \ {r} : ~Busy(s)
          /\ \/ place' = [place EXCEPT ![r] = "done"] \/ place' = [place EXCEPT ![r] = "connect"]
          /\ UNCHANGED <<remote, points, stage, got, step>>
      BY <2>2 DEF ReadPoints, Move
    <3>2. \A s \in Roller : place'[s] # "restored"
      BY <2>0, <3>1 DEF Busy, Locals, Call
    <3>3. stage' = "finish" => got' = remote'[Here']
      BY <3>1 DEF Copied, Here
    <3>4. stage' = "upload" => \E i \in 1..Len(points') :
               points'[i].path = Here' /\ points'[i].status \in {"available", "expired"}
      BY <3>1 DEF Copied, Here, Newest
    <3> QED  BY <3>2, <3>3, <3>4, NoneRestored
  <2>3. CASE ConnectServer(r)
    <3>1. /\ place' = [place EXCEPT ![r] = "mark"] \/ place' = [place EXCEPT ![r] = "close"]
          /\ UNCHANGED <<remote, points, stage, got, step, todo>>
      BY <2>3 DEF ConnectServer, Move
    <3>2. \A s \in Roller : place'[s] = "restored" => place[s] = "restored"
      BY <2>0, <3>1 DEF Locals, Call
    <3> QED  BY <3>1, <3>2 DEF Copied, Here, Newest, NewestOf
  <2>4. CASE Mark(r)
    <3>0. run \in Ended
      BY <2>4 DEF OneWorks, Working, Mark
    <3>01. stage \notin {"finish", "upload"}
      BY <3>0 DEF Capturing, Ended
    <3>1. place' = [place EXCEPT ![r] = "restore"] \/ place' = [place EXCEPT ![r] = "done"]
      BY <2>4, Marks
    <3>2. \A s \in Roller : s # r => place[s] # "restored"
      BY <2>4 DEF Mark, OneWorks, Working
    <3>3. stage' = stage /\ \A s \in Roller : place'[s] # "restored"
      BY <2>4, <2>0, <3>1, <3>2 DEF Mark, Locals, Call
    <3> QED  BY <3>01, <3>3, NoneRestored
  <2>5. CASE Restore(r)
    <3>0. run \in Ended
      BY <2>5 DEF OneWorks, Working, Restore
    <3>01. stage \notin {"finish", "upload"}
      BY <3>0 DEF Capturing, Ended
    <3>1. PICK i \in NewestOf(todo[r]) :
             \/ /\ place' = [place EXCEPT ![r] = "restored"]
                /\ remote'[points[i].path] = points[i].saved
             \/ place' = [place EXCEPT ![r] = "not restored"]
      BY <2>5, Restores
    <3>2. \A s \in Roller : s # r => place[s] # "restored"
      BY <2>5 DEF Restore, OneWorks, Working
    <3>3. UNCHANGED <<stage, points, todo>>
      BY <2>5 DEF Restore
    <3>4. \A s \in Roller : place'[s] = "restored" =>
             s = r /\ remote'[points[i].path] = points[i].saved
      BY <2>0, <3>1, <3>2 DEF Locals, Call
    <3>5. \A j \in NewestOf(todo[r]) : j = i
      BY <3>1, LeftToRestore
    <3>6. \A s \in Roller : place'[s] = "restored" =>
             \A j \in NewestOf(todo'[s]) : remote'[points'[j].path] = points'[j].saved
      BY <3>3, <3>4, <3>5
    <3> QED  BY <3>01, <3>3, <3>6 DEF Copied, NewestOf
  <2>6. CASE Record(r)
    <3>0. run \in Ended
      BY <2>6 DEF OneWorks, Working, Record
    <3>01. stage \notin {"finish", "upload"}
      BY <3>0 DEF Capturing, Ended
    <3>1. place' = [place EXCEPT ![r] = "close"] \/ place' = [place EXCEPT ![r] = "mark"]
      BY <2>6, Records
    <3>2. \A s \in Roller : s # r => place[s] # "restored"
      BY <2>6 DEF Record, OneWorks, Working
    <3>3. stage' = stage /\ \A s \in Roller : place'[s] # "restored"
      BY <2>6, <2>0, <3>1, <3>2 DEF Record, Locals, Call
    <3> QED  BY <3>01, <3>3, NoneRestored
  <2>7. CASE CloseRollback(r)
    <3>0. run \in Ended
      BY <2>7 DEF OneWorks, Working, CloseRollback
    <3>01. stage \notin {"finish", "upload"}
      BY <3>0 DEF Capturing, Ended
    <3>1. place' = [place EXCEPT ![r] = "done"]
      BY <2>7 DEF CloseRollback, Return, Move
    <3>2. \A s \in Roller : s # r => place[s] # "restored"
      BY <2>7 DEF CloseRollback, OneWorks, Working
    <3>3. stage' = stage /\ \A s \in Roller : place'[s] # "restored"
      BY <2>7, <2>0, <3>1, <3>2 DEF CloseRollback, Locals, Call
    <3> QED  BY <3>01, <3>3, NoneRestored
  <2> QED  BY <1>11, <2>1, <2>2, <2>3, <2>4, <2>5, <2>6, <2>7 DEF Rollback
<1>12. ASSUME NEW c \in Cleaner, Clean(c)
      PROVE  Copied'
  <2>1. RollersKept /\ OnlyExpires /\ UNCHANGED <<remote, stage, got, step>>
    BY <1>12, Cleans
  <2>2. \A i \in 1..Len(points) :
           /\ i \in 1..Len(points')
           /\ points'[i].path = points[i].path /\ points'[i].saved = points[i].saved
           /\ points[i].status \in {"available", "expired"} =>
                 points'[i].status \in {"available", "expired"}
    BY <2>1 DEF OnlyExpires
  <2> QED  BY <2>1, <2>2, CopiedKept
<1>13. ASSUME NEW c \in Call, CallFault(c)
      PROVE  Copied'
  <2>1. RollersKept /\ UNCHANGED <<points, remote, stage, got, step>>
    BY <1>13, CleanFails
  <2> QED  BY <2>1, CopiedKept
<1>14. CASE UNCHANGED restoreVars
  <2>1. RollersKept /\ UNCHANGED <<points, remote, stage, got, step>>
    BY <1>14 DEF restoreVars, RollersKept
  <2> QED  BY <2>1, CopiedKept
<1> QED  BY <1>1, <1>2, <1>3, <1>4, <1>5, <1>6, <1>7, <1>8, <1>9, <1>10, <1>11, <1>12, <1>13, <1>14 DEF RestoreNext, Drive

-----------------------------------------------------------------------------
(* What can still be restored is what was there.                           *)

\* What can be restored, and the paths of which nothing has been given up.
Restorable == {"available", "rolling_back"}
Unexpired(p) == \A i \in 1..Newest : points[i].path = p => points[i].status # "expired"

\* A path none of whose points expires, and whose points can be restored as
\* before.
LEMMA SoundKept ==
    ASSUME AllSound, UNCHANGED <<remote, original>>,
           \A i \in 1..Len(points) :
              /\ i \in 1..Len(points')
              /\ points'[i].path = points[i].path
              /\ points[i].status = "expired" => points'[i].status = "expired"
              /\ points[i].status \in Restorable =>
                    /\ points'[i].saved = points[i].saved
                    /\ points'[i].status \in Restorable \cup {"expired"},
           \A i \in 1..Len(points') :
              points'[i].status \in Restorable =>
                 i \in 1..Len(points) /\ points[i].status \in Restorable
    PROVE  AllSound'
<1> SUFFICES ASSUME NEW p \in Path, Unexpired(p)'
             PROVE  /\ Pending(p)' = {} => remote'[p] = original'[p]
                    /\ \A i \in Pending(p)' :
                          (\A j \in Pending(p)' : i <= j) => points'[i].saved = original'[p]
  BY DEF AllSound, Sound, Unexpired
<1>1. Unexpired(p)
  BY DEF Unexpired, Newest
<1>2. \A i \in Pending(p) : i \in Pending(p)'
  <2> SUFFICES ASSUME NEW i \in Pending(p)
               PROVE  i \in Pending(p)'
    OBVIOUS
  <2>1. i \in 1..Len(points) /\ points[i].path = p /\ points[i].status \in Restorable
    BY DEF Pending, Newest, Restorable
  <2>2. i \in 1..Len(points') /\ points'[i].path = p /\ points'[i].status \in Restorable \cup {"expired"}
    BY <2>1
  <2>3. points'[i].status # "expired"
    BY <2>2 DEF Unexpired, Newest
  <2> QED  BY <2>2, <2>3 DEF Pending, Newest, Restorable
<1>3. \A i \in Pending(p)' : i \in Pending(p)
  BY DEF Pending, Newest, Restorable
<1>4. Pending(p)' = Pending(p)
  BY <1>2, <1>3
<1>5. /\ Pending(p) = {} => remote[p] = original[p]
      /\ \A i \in Pending(p) : (\A j \in Pending(p) : i <= j) => points[i].saved = original[p]
  BY <1>1 DEF AllSound, Sound, Unexpired
<1>6. \A i \in Pending(p) : points'[i].saved = points[i].saved
  BY DEF Pending, Newest, Restorable
<1> QED  BY <1>4, <1>5, <1>6

\* Only a path with a point that can be restored, or has expired, changes.
LEMMA SoundTouched ==
    ASSUME AllSound, UNCHANGED <<points, original>>,
           \A p \in Path : remote'[p] # remote[p] =>
              \E i \in 1..Len(points) :
                 points[i].path = p /\ points[i].status \in Restorable \cup {"expired"}
    PROVE  AllSound'
<1> SUFFICES ASSUME NEW p \in Path, Unexpired(p)
             PROVE  /\ Pending(p) = {} => remote'[p] = original[p]
                    /\ \A i \in Pending(p) :
                          (\A j \in Pending(p) : i <= j) => points[i].saved = original[p]
  BY DEF AllSound, Sound, Unexpired, Pending, Newest
<1>1. /\ Pending(p) = {} => remote[p] = original[p]
      /\ \A i \in Pending(p) : (\A j \in Pending(p) : i <= j) => points[i].saved = original[p]
  BY DEF AllSound, Sound, Unexpired
<1>2. ASSUME remote'[p] # remote[p]
      PROVE  Pending(p) # {}
  <2>1. PICK i \in 1..Len(points) :
           points[i].path = p /\ points[i].status \in Restorable \cup {"expired"}
    BY <1>2
  <2>2. i \in Pending(p)
    BY <2>1 DEF Unexpired, Pending, Newest, Restorable
  <2> QED  BY <2>2
<1> QED  BY <1>1, <1>2

\* finish_restore_point adds the newest point; it is the oldest of its path
\* only when the path is as it was.
LEMMA SoundFinished ==
    ASSUME AllSound, Rows, FinishPoint, Capturing, got = remote[Here]
    PROVE  AllSound'
<1> USE DEF bounds, calls
<1>1. /\ Len(points') = Len(points) /\ Newest \in 1..Len(points) /\ Len(points) \in Nat
      /\ \A j \in 1..Len(points) : j # Newest => points'[j] = points[j]
      /\ points'[Newest].path = Here
      /\ points'[Newest].status = "available" /\ points'[Newest].saved = got
      /\ points[Newest].status = "creating" /\ points[Newest].path = Here
      /\ UNCHANGED <<remote, original>>
  BY PointFinished, Sizes DEF Capturing, FinishPoint
<1> SUFFICES ASSUME NEW p \in Path, Unexpired(p)'
             PROVE  /\ Pending(p)' = {} => remote[p] = original[p]
                    /\ \A i \in Pending(p)' :
                          (\A j \in Pending(p)' : i <= j) => points'[i].saved = original[p]
  BY <1>1 DEF AllSound, Sound, Unexpired
<1>2. Unexpired(p)
  BY <1>1 DEF Unexpired, Newest
<1>3. /\ Pending(p) = {} => remote[p] = original[p]
      /\ \A i \in Pending(p) : (\A j \in Pending(p) : i <= j) => points[i].saved = original[p]
  BY <1>2 DEF AllSound, Sound, Unexpired
<1>4. \A i \in Pending(p) : i \in Pending(p)' /\ i # Newest /\ points'[i].saved = points[i].saved
  BY <1>1 DEF Pending, Newest
<1>5. \A i \in Pending(p)' : i \in Pending(p) \/ (i = Newest /\ p = Here)
  BY <1>1 DEF Pending, Newest
<1>6. ASSUME NEW i \in Pending(p)', \A j \in Pending(p)' : i <= j
      PROVE  points'[i].saved = original[p]
  <2>1. CASE i \in Pending(p)
    BY <1>3, <1>4, <1>6, <2>1
  <2>2. CASE i = Newest /\ p = Here
    <3>1. Pending(p) = {}
      <4> SUFFICES ASSUME NEW j \in Pending(p)
                   PROVE  FALSE
        OBVIOUS
      <4>1. j \in 1..Newest /\ j # Newest /\ Newest <= j
        BY <1>4, <1>6, <2>2 DEF Pending
      <4> QED  BY <1>1, <4>1
    <3> QED  BY <1>1, <1>3, <2>2, <3>1
  <2> QED  BY <1>5, <2>1, <2>2
<1>7. Pending(p)' = {} => Pending(p) = {}
  BY <1>4
<1> QED  BY <1>3, <1>6, <1>7

\* A point recorded as rolled back is the newest that could be restored, and
\* its path holds what it saved.
LEMMA SoundRecorded ==
    ASSUME AllSound, UNCHANGED <<remote, original>>, Len(points) \in Nat,
           NEW i \in 1..Len(points), StatusSet(i, "rolled_back"),
           points[i].status \in Restorable, remote[points[i].path] = points[i].saved,
           \A j \in 1..Len(points) : points[j].status \in Restorable => j <= i
    PROVE  AllSound'
<1>1. /\ Len(points') = Len(points)
      /\ \A j \in 1..Len(points) :
            /\ points'[j].path = points[j].path /\ points'[j].saved = points[j].saved
            /\ j # i => points'[j].status = points[j].status
      /\ points'[i].status = "rolled_back"
  BY DEF StatusSet
<1> SUFFICES ASSUME NEW p \in Path, Unexpired(p)'
             PROVE  /\ Pending(p)' = {} => remote[p] = original[p]
                    /\ \A j \in Pending(p)' :
                          (\A k \in Pending(p)' : j <= k) => points'[j].saved = original[p]
  BY DEF AllSound, Sound, Unexpired
<1>2. Unexpired(p)
  BY <1>1 DEF Unexpired, Newest, Restorable
<1>3. /\ Pending(p) = {} => remote[p] = original[p]
      /\ \A j \in Pending(p) : (\A k \in Pending(p) : j <= k) => points[j].saved = original[p]
  BY <1>2 DEF AllSound, Sound, Unexpired
<1>4. \A j \in Pending(p)' : j \in Pending(p) /\ j # i /\ points'[j].saved = points[j].saved
  BY <1>1 DEF Pending, Newest
<1>5. \A j \in Pending(p) : j \in Pending(p)' \/ j = i
  BY <1>1 DEF Pending, Newest
<1>6. \A j \in Pending(p) : j \in 1..Len(points) /\ j <= i
  BY DEF Pending, Newest, Restorable
<1>7. ASSUME NEW j \in Pending(p)', \A k \in Pending(p)' : j <= k
      PROVE  points'[j].saved = original[p]
  <2>1. j \in Pending(p) /\ points'[j].saved = points[j].saved
    BY <1>4
  <2>2. \A k \in Pending(p) : j <= k
    <3> SUFFICES ASSUME NEW k \in Pending(p)
                 PROVE  j <= k
      OBVIOUS
    <3>1. CASE k = i
      BY <1>6, <2>1, <3>1
    <3>2. CASE k # i
      BY <1>5, <1>7, <3>2
    <3> QED  BY <3>1, <3>2
  <2> QED  BY <1>3, <2>1, <2>2
<1>8. ASSUME Pending(p)' = {}
      PROVE  remote[p] = original[p]
  <2>1. CASE Pending(p) = {}
    BY <1>3, <2>1
  <2>2. CASE Pending(p) # {}
    <3>1. i \in Pending(p) /\ \A k \in Pending(p) : k = i
      BY <1>5, <1>8, <2>2
    <3>2. \A k \in Pending(p) : i <= k
      BY <3>1
    <3>3. points[i].saved = original[p] /\ points[i].path = p
      BY <1>3, <3>1, <3>2 DEF Pending
    <3> QED  BY <3>3
  <2> QED  BY <2>1, <2>2
<1> QED  BY <1>7, <1>8

\* A step that keeps the points sound, leaves the rollbacks alone, and whose
\* run is not shown as rolled back unless it was.
LEMMA RecoverableKept ==
    ASSUME Recoverable, RollersKept, failed' = failed, failed \subseteq Roller,
           AllSound => AllSound', NoneAvailable => NoneAvailable' \/ run = "running",
           run' = run \/ (run # "rollback_failed" /\ run' # "rolled_back")
    PROVE  Recoverable'
<1>1. \A r \in Roller : Working(r)' => Working(r)
  BY DEF RollersKept, Working
<1>2. \A r \in Roller : Working(r) => Working(r)'
  BY DEF RollersKept, Working
<1>3. run' = "rolled_back" => AllSound'
  BY DEF Recoverable
<1>4. \A r \in Roller : place'[r] = "close" => todo'[r] = {} \/ (r \in failed' /\ AllSound')
  BY DEF Recoverable, RollersKept
<1>5. \A r \in failed' : place'[r] \notin {"idle", "points", "connect", "done"}
  BY DEF Recoverable, RollersKept
<1>6. \/ AllSound'
      \/ \E r \in Roller : Working(r)' /\ r \in failed'
      \/ /\ run' = "rollback_failed" /\ NoneAvailable'
         /\ \A r \in Roller : ~Working(r)'
  <2>1. CASE AllSound
    BY <2>1
  <2>2. CASE \E r \in Roller : Working(r) /\ r \in failed
    BY <1>2, <2>2
  <2>3. CASE run = "rollback_failed" /\ NoneAvailable /\ \A r \in Roller : ~Working(r)
    BY <1>1, <2>3
  <2> QED  BY <2>1, <2>2, <2>3 DEF Recoverable
<1> QED  BY <1>3, <1>4, <1>5, <1>6 DEF Recoverable

\* What the third part says of a rollback that has not failed.
LEMMA UnfailedIsSound ==
    ASSUME Recoverable, OneWorks, NEW r \in Roller, Working(r), r \notin failed
    PROVE  AllSound
<1>1. \A s \in Roller : Working(s) => s = r
  BY DEF OneWorks
<1> QED  BY <1>1 DEF Recoverable

\* The argument of RolledBackRestored, step by step.
LEMMA RecoverableStep ==
    ASSUME Rows, Locals, Capturing, RestoresOnce, OneWorks, Recoverable, ~disturbed', Copied, [RestoreNext]_restoreVars
    PROVE  Recoverable'
<1> USE DEF driver, calls, bounds
<1>1. CASE CreatePoint
  <2>1. RollersKept /\ failed' = failed /\ failed \subseteq Roller
    BY <1>1 DEF CreatePoint, RollersKept, Locals
  <2>2. /\ Len(points') = Len(points) + 1 /\ Len(points) \in Nat
        /\ \A j \in 1..Len(points) : points'[j] = points[j]
        /\ points'[Len(points) + 1].status = "creating"
        /\ UNCHANGED <<run, remote, original>>
    BY <1>1, NewPoint, Sizes DEF CreatePoint
  <2>3. AllSound => AllSound'
    <3>1. \A i \in 1..Len(points) : i \in 1..Len(points')
      BY <2>2
    <3>2. \A i \in 1..Len(points') : points'[i].status \in Restorable =>
             i \in 1..Len(points) /\ points[i].status \in Restorable
      BY <2>2 DEF Restorable
    <3>3. \A i \in 1..Len(points) :
             points[i].status \in Restorable => points'[i].status \in Restorable \cup {"expired"}
      BY <2>2
    <3> QED  BY <2>2, <3>1, <3>2, <3>3, SoundKept
  <2>4. NoneAvailable => NoneAvailable'
    BY <2>2 DEF NoneAvailable, Newest
  <2> QED  BY <2>1, <2>2, <2>3, <2>4, RecoverableKept
<1>2. CASE Backup
  <2>1. RollersKept /\ failed' = failed /\ failed \subseteq Roller
    BY <1>2 DEF Backup, RollersKept, Locals
  <2>2. /\ UNCHANGED <<points, remote, original>>
        /\ run' = run \/ (run # "rollback_failed" /\ run' # "rolled_back")
    BY <1>2 DEF Backup, Capturing, Rows, Ended
  <2>3. AllSound => AllSound'
    BY <2>2, SoundKept
  <2>4. NoneAvailable => NoneAvailable'
    BY <2>2 DEF NoneAvailable, Newest
  <2> QED  BY <2>1, <2>2, <2>3, <2>4, RecoverableKept
<1>3. CASE FinishPoint
  <2>1. RollersKept /\ failed' = failed /\ failed \subseteq Roller
    BY <1>3 DEF FinishPoint, RollersKept, Locals
  <2>2. run = "running" /\ run' = run /\ got = remote[Here]
    BY <1>3 DEF FinishPoint, Capturing, Copied
  <2>3. AllSound => AllSound'
    BY <1>3, <2>2, SoundFinished
  <2> QED  BY <2>1, <2>2, <2>3, RecoverableKept
<1>4. CASE RecordFailure
  <2>1. RollersKept /\ failed' = failed /\ failed \subseteq Roller
    BY <1>4 DEF RecordFailure, RollersKept, Locals
  <2>2. /\ Newest \in 1..Len(points) /\ StatusSet(Newest, "failed")
        /\ points[Newest].status = "creating" /\ UNCHANGED <<run, remote, original>>
    BY <1>4, PointFailed DEF RecordFailure, Capturing
  <2>3. AllSound => AllSound'
    BY <2>2, SoundKept DEF StatusSet, Restorable
  <2>4. NoneAvailable => NoneAvailable'
    BY <2>2 DEF NoneAvailable, Newest, StatusSet
  <2> QED  BY <2>1, <2>2, <2>3, <2>4, RecoverableKept
<1>5. CASE Upload
  <2>1. RollersKept /\ failed' = failed /\ failed \subseteq Roller
    BY <1>5 DEF Upload, RollersKept, Locals
  <2>2. UNCHANGED <<run, points, original>> /\ stage = "upload"
    BY <1>5 DEF Upload
  <2>3. \A p \in Path : remote'[p] # remote[p] => p = Here
    <3>1. step \in Content /\ remote \in [Path -> Content]
      BY Contents, Sizes DEF Rows
    <3>2. remote' = [remote EXCEPT ![Here] = step] \/ remote' \in AfterFailure(Here, step)
      BY <1>5 DEF Upload
    <3> QED  BY <3>1, <3>2, AfterFailureType
  <2>4. \E i \in 1..Len(points) : points[i].path = Here /\ points[i].status \in Restorable \cup {"expired"}
    BY <2>2 DEF Copied, Newest, Restorable
  <2>5. AllSound => AllSound'
    BY <2>2, <2>3, <2>4, SoundTouched
  <2>6. NoneAvailable => NoneAvailable'
    BY <2>2 DEF NoneAvailable, Newest
  <2> QED  BY <2>1, <2>2, <2>5, <2>6, RecoverableKept
<1>6. CASE CloseRun
  <2>1. RollersKept /\ failed' = failed /\ failed \subseteq Roller
    BY <1>6 DEF CloseRun, RollersKept, Locals
  <2>2. /\ UNCHANGED <<points, remote, original>>
        /\ run' = run \/ (run # "rollback_failed" /\ run' # "rolled_back")
    BY <1>6 DEF CloseRun, Capturing, Rows, Ended
  <2>3. AllSound => AllSound'
    BY <2>2, SoundKept
  <2>4. NoneAvailable => NoneAvailable'
    BY <2>2 DEF NoneAvailable, Newest
  <2> QED  BY <2>1, <2>2, <2>3, <2>4, RecoverableKept
<1>7. CASE Retry
  <2>1. RollersKept /\ failed' = failed /\ failed \subseteq Roller
    BY <1>7 DEF Retry, RollersKept, Locals
  <2>2. /\ UNCHANGED <<points, remote, original>>
        /\ run' = run \/ (run # "rollback_failed" /\ run' # "rolled_back")
    BY <1>7 DEF Retry, Capturing, Rows, Ended
  <2>3. AllSound => AllSound'
    BY <2>2, SoundKept
  <2>4. NoneAvailable => NoneAvailable'
    BY <2>2 DEF NoneAvailable, Newest
  <2> QED  BY <2>1, <2>2, <2>3, <2>4, RecoverableKept
<1>8. CASE CaptureFault
  <2>1. RollersKept /\ failed' = failed /\ failed \subseteq Roller
    BY <1>8 DEF CaptureFault, RollersKept, Locals
  <2>2. /\ UNCHANGED <<points, remote, original>>
        /\ run' = run \/ (run # "rollback_failed" /\ run' # "rolled_back")
    BY <1>8 DEF CaptureFault, Capturing, Rows, Ended
  <2>3. AllSound => AllSound'
    BY <2>2, SoundKept
  <2>4. NoneAvailable => NoneAvailable'
    BY <2>2 DEF NoneAvailable, Newest
  <2> QED  BY <2>1, <2>2, <2>3, <2>4, RecoverableKept
<1>9. CASE CloseRunFault
  <2>1. RollersKept /\ failed' = failed /\ failed \subseteq Roller
    BY <1>9 DEF CloseRunFault, RollersKept, Locals
  <2>2. /\ UNCHANGED <<points, remote, original>>
        /\ run' = run \/ (run # "rollback_failed" /\ run' # "rolled_back")
    BY <1>9 DEF CloseRunFault, Capturing, Rows, Ended
  <2>3. AllSound => AllSound'
    BY <2>2, SoundKept
  <2>4. NoneAvailable => NoneAvailable'
    BY <2>2 DEF NoneAvailable, Newest
  <2> QED  BY <2>1, <2>2, <2>3, <2>4, RecoverableKept
<1>10. CASE Restart
  <2>1. /\ \A r \in Roller : ~Busy(r)
        /\ UNCHANGED <<points, remote, original>> /\ failed' = {}
        /\ run' = run \/ (run # "rollback_failed" /\ run' # "rolled_back")
    BY <1>10 DEF Restart
  <2>2. \A r \in Roller : ~Working(r)
    BY <2>1 DEF Busy, Working
  <2>3. \A r \in Roller : ~Working(r)' /\ place'[r] # "close"
    BY <1>10, <2>1 DEF Restart, Busy, Working, Call
  <2>4. AllSound => AllSound'
    BY <2>1, SoundKept
  <2>5. NoneAvailable => NoneAvailable'
    BY <2>1 DEF NoneAvailable, Newest
  <2>6. AllSound \/ (run = "rollback_failed" /\ NoneAvailable)
    BY <2>2 DEF Recoverable
  <2>7. run' = "rolled_back" => AllSound'
    BY <2>1, <2>4 DEF Recoverable
  <2>8. AllSound' \/ (run' = "rollback_failed" /\ NoneAvailable')
    BY <2>1, <2>4, <2>5, <2>6
  <2> QED  BY <2>1, <2>3, <2>7, <2>8 DEF Recoverable
<1>11. ASSUME NEW r \in Roller, Rollback(r)
      PROVE  Recoverable'
  <2>0. r \in Call /\ r \notin Cleaner
    BY LeftToRestore
  <2>1. CASE ReadEndedRun(r)
    <3>1. /\ place[r] = "idle" /\ place' = [place EXCEPT ![r] = "points"]
          /\ UNCHANGED <<run, points, remote, original, todo, failed>>
      BY <2>1 DEF ReadEndedRun, Move
    <3>2. AllSound => AllSound'
      BY <3>1, SoundKept
    <3>3. NoneAvailable => NoneAvailable'
      BY <3>1 DEF NoneAvailable, Newest
    <3>4. \A s \in Roller : /\ Working(s)' => Working(s)
                            /\ Working(s) => Working(s)'
                            /\ place'[s] = "close" => place[s] = "close"
      BY <2>0, <3>1 DEF Working, Locals, Call
    <3>5. r \notin failed /\ \A s \in failed : place'[s] \notin {"idle", "points", "connect", "done"}
      BY <2>0, <3>1 DEF Recoverable, Locals, Call
    <3> QED  BY <3>1, <3>2, <3>3, <3>4, <3>5 DEF Recoverable
  <2>2. CASE ReadPoints(r)
    <3> DEFINE plan == {i \in 1..Newest : points[i].status = "available"}
    <3>1. /\ place[r] = "points" /\ UNCHANGED <<run, points, remote, original, failed>>
          /\ place' = [place EXCEPT ![r] = IF plan = {} THEN "done" ELSE "connect"]
          /\ todo' = [todo EXCEPT ![r] = plan]
          /\ \A s \in Roller \ {r} : ~Busy(s)
      BY <2>2 DEF ReadPoints, Move
    <3>2. AllSound => AllSound'
      BY <3>1, SoundKept
    <3>3. NoneAvailable => NoneAvailable'
      BY <3>1 DEF NoneAvailable, Newest
    <3>4. \A s \in Roller : ~Working(s) /\ place[s] # "close"
      BY <3>1 DEF Busy, Working
    <3>5. NoneAvailable => plan = {}
      BY DEF NoneAvailable
    <3> HIDE DEF plan
    <3>6. \A s \in Roller : place'[s] # "close" /\ (NoneAvailable => ~Working(s)')
      BY <2>0, <3>1, <3>4, <3>5 DEF Working, Locals, Call
    <3>7. failed = {}
      <4> SUFFICES ASSUME NEW s \in failed
                   PROVE  FALSE
        OBVIOUS
      <4>1. s \in Roller /\ place[s] \notin {"idle", "points", "connect", "done"}
        BY DEF Locals, Recoverable
      <4> QED  BY <3>1, <4>1 DEF Busy
    <3>8. AllSound \/ (run = "rollback_failed" /\ NoneAvailable)
      BY <3>4 DEF Recoverable
    <3> QED  BY <3>1, <3>2, <3>3, <3>6, <3>7, <3>8 DEF Recoverable
  <2>3. CASE ConnectServer(r)
    <3>1. /\ place[r] = "connect" /\ UNCHANGED <<run, points, remote, original, todo>>
          /\ \/ place' = [place EXCEPT ![r] = "mark"] /\ failed' = failed
             \/ place' = [place EXCEPT ![r] = "close"] /\ failed' = failed \cup {r}
      BY <2>3 DEF ConnectServer, Move
    <3>2. AllSound => AllSound'
      BY <3>1, SoundKept
    <3>3. NoneAvailable => NoneAvailable'
      BY <3>1 DEF NoneAvailable, Newest
    <3>4. Working(r) /\ r \notin failed
      BY <3>1 DEF Working, Recoverable
    <3>5. AllSound /\ AllSound'
      BY <3>2, <3>4, UnfailedIsSound
    <3>6. \A s \in Roller : s # r => place[s] # "close"
      BY <3>4 DEF OneWorks, Working
    <3>7. \A s \in Roller : place'[s] = "close" => s = r /\ r \in failed'
      BY <2>0, <3>1, <3>6 DEF Locals, Call
    <3>8. \A s \in failed' : place'[s] \notin {"idle", "points", "connect", "done"}
      BY <2>0, <3>1 DEF Recoverable, Locals, Call
    <3> QED  BY <3>1, <3>5, <3>7, <3>8 DEF Recoverable
  <2>4. CASE Mark(r)
    <3>1. PICK i \in NewestOf(todo[r]) :
             /\ points[i].status = "available" /\ StatusSet(i, "rolling_back")
             /\ place' = [place EXCEPT ![r] = "restore"] /\ UNCHANGED <<todo, failed>>
      BY <2>4, Marks
    <3>2. /\ place[r] = "mark" /\ UNCHANGED <<run, remote, original>>
          /\ Working(r) /\ i \in 1..Len(points)
      BY <2>4, <3>1, LeftToRestore DEF Mark, Working
    <3>3. AllSound => AllSound'
      BY <3>1, <3>2, SoundKept DEF StatusSet, Restorable
    <3>4. \A s \in Roller : /\ Working(s) => Working(s)'
                            /\ place'[s] = "close" => place[s] = "close"
      BY <2>0, <3>1, <3>2 DEF Working, Locals, Call
    <3>5. \A s \in failed' : place'[s] \notin {"idle", "points", "connect", "done"}
      BY <2>0, <3>1 DEF Recoverable, Locals, Call
    <3>6. AllSound' \/ \E s \in Roller : Working(s)' /\ s \in failed'
      BY <3>1, <3>2, <3>3, <3>4 DEF Recoverable
    <3>7. run' = "rolled_back" => AllSound'
      BY <3>2, <3>3 DEF Recoverable
    <3>8. \A s \in Roller : place'[s] = "close" => todo'[s] = {} \/ (s \in failed' /\ AllSound')
      BY <3>1, <3>3, <3>4 DEF Recoverable
    <3> QED  BY <3>5, <3>6, <3>7, <3>8 DEF Recoverable
  <2>5. CASE Restore(r)
    <3>1. PICK i \in NewestOf(todo[r]) :
             /\ \A p \in Path : p # points[i].path => remote'[p] = remote[p]
             /\ place' = [place EXCEPT ![r] = "restored"] \/ place' = [place EXCEPT ![r] = "not restored"]
      BY <2>5, Restores
    <3>2. /\ place[r] = "restore" /\ UNCHANGED <<run, points, original, todo, failed>>
          /\ Working(r) /\ Restoring(r) /\ i \in 1..Len(points)
      BY <2>5, <3>1, LeftToRestore DEF Restore, Working, Restoring
    <3>3. points[i].status = "rolling_back"
      <4>1. PICK j \in NewestOf(todo[r]) : points[j].status = "rolling_back"
        BY <3>2 DEF RestoresOnce
      <4> QED  BY <3>1, <4>1, LeftToRestore
    <3>4. AllSound => AllSound'
      BY <3>1, <3>2, <3>3, SoundTouched DEF Restorable
    <3>5. \A s \in Roller : /\ Working(s) => Working(s)'
                            /\ place'[s] = "close" => place[s] = "close"
      BY <2>0, <3>1, <3>2 DEF Working, Locals, Call
    <3>6. \A s \in failed' : place'[s] \notin {"idle", "points", "connect", "done"}
      BY <2>0, <3>1, <3>2 DEF Recoverable, Locals, Call
    <3>7. AllSound' \/ \E s \in Roller : Working(s)' /\ s \in failed'
      BY <3>2, <3>4, <3>5 DEF Recoverable
    <3>8. run' = "rolled_back" => AllSound'
      BY <3>2, <3>4 DEF Recoverable
    <3>9. \A s \in Roller : place'[s] = "close" => todo'[s] = {} \/ (s \in failed' /\ AllSound')
      BY <3>2, <3>4, <3>5 DEF Recoverable
    <3> QED  BY <3>6, <3>7, <3>8, <3>9 DEF Recoverable
  <2>6. CASE Record(r)
    <3>1. PICK i \in NewestOf(todo[r]) :
             /\ StatusSet(i, IF place[r] = "restored" THEN "rolled_back" ELSE "failed")
             /\ todo' = [todo EXCEPT ![r] = todo[r] \ {i}]
             /\ place' = [place EXCEPT ![r] = IF todo[r] = {i} THEN "close" ELSE "mark"]
             /\ failed' = IF place[r] = "restored" THEN failed ELSE failed \cup {r}
      BY <2>6, Records
    <3>2. /\ UNCHANGED <<run, remote, original>>
          /\ Working(r) /\ Restoring(r) /\ i \in 1..Len(points) /\ Len(points) \in Nat
          /\ place[r] \in {"restored", "not restored"}
      BY <2>6, <3>1, LeftToRestore, Sizes DEF Record, Working, Restoring
    <3>3. run \in Ended /\ run # "rolled_back"
      BY <3>2 DEF OneWorks, Ended
    <3>4. \A s \in Roller \ {r} : ~Working(s) /\ ~Restoring(s)
      BY <3>2 DEF OneWorks, Working, Restoring
    <3>5. points[i].status = "rolling_back"
      <4>1. PICK j \in NewestOf(todo[r]) : points[j].status = "rolling_back"
        BY <3>2 DEF RestoresOnce
      <4> QED  BY <3>1, <4>1, LeftToRestore
    <3>6. \A j \in 1..Len(points) : points[j].status \in Restorable => j <= i
      <4> SUFFICES ASSUME NEW j \in 1..Len(points), points[j].status \in Restorable
                   PROVE  j <= i
        OBVIOUS
      <4>0. i \in Int /\ j \in Int
        <5>1. i \in 1..Len(points) /\ Len(points) \in Nat
          BY <3>1, LeftToRestore, Sizes
        <5> QED  BY <5>1
      <4>1. CASE points[j].status = "available"
        <5>1. j \in todo[r]
          BY <3>2, <4>1 DEF OneWorks, Newest
        <5>2. j # i => j < i
          BY <3>1, <5>1, LeftToRestore
        <5> QED  BY <4>0, <5>2
      <4>2. CASE points[j].status = "rolling_back"
        <5>1. j \in NewestOf(todo[r])
          BY <3>4, <4>2 DEF OneWorks, Newest
        <5>2. j = i
          BY <3>1, <5>1, LeftToRestore
        <5> QED  BY <4>0, <5>2
      <4> QED  BY <4>1, <4>2 DEF Restorable
    <3>7. place[r] = "restored" => (AllSound => AllSound')
      <4> SUFFICES ASSUME place[r] = "restored", AllSound
                   PROVE  AllSound'
        OBVIOUS
      <4>1. StatusSet(i, "rolled_back") /\ points[i].status \in Restorable
        BY <3>1, <3>5 DEF Restorable
      <4>2. remote[points[i].path] = points[i].saved
        BY <3>1 DEF Copied
      <4> QED  BY <3>2, <3>6, <4>1, <4>2, SoundRecorded
    <3>8. \A s \in Roller : /\ Working(s) => Working(s)'
                            /\ place'[s] = "close" => s = r /\ todo[r] = {i}
      BY <2>0, <3>1, <3>2, <3>4 DEF Working, Locals, Call
    <3>9. todo[r] = {i} => todo'[r] = {}
      BY <2>0, <3>1 DEF Locals
    <3>10. \A s \in failed' : place'[s] \notin {"idle", "points", "connect", "done"}
      BY <2>0, <3>1 DEF Recoverable, Locals, Call
    <3>11. AllSound' \/ \E s \in Roller : Working(s)' /\ s \in failed'
      <4>1. CASE place[r] = "not restored" \/ r \in failed
        BY <3>1, <3>2, <3>8, <4>1
      <4>2. CASE place[r] = "restored" /\ r \notin failed
        BY <3>2, <3>7, <4>2, UnfailedIsSound
      <4> QED  BY <3>2, <4>1, <4>2
    <3> QED  BY <3>2, <3>3, <3>8, <3>9, <3>10, <3>11 DEF Recoverable
  <2>7. CASE CloseRollback(r)
    <3>1. /\ place[r] = "close" /\ UNCHANGED <<points, remote, original>>
          /\ place' = [place EXCEPT ![r] = "done"] /\ failed' = failed \ {r}
          /\ run' = IF run \notin Ended THEN run
                    ELSE IF r \in failed THEN "rollback_failed" ELSE "rolled_back"
      BY <2>7 DEF CloseRollback, Return, Move
    <3>2. AllSound => AllSound'
      BY <3>1, SoundKept
    <3>3. NoneAvailable => NoneAvailable'
      BY <3>1 DEF NoneAvailable, Newest
    <3>4. Working(r) /\ run \in Ended
      BY <3>1 DEF Working, OneWorks
    <3>5. \A s \in Roller \ {r} : ~Working(s) /\ place[s] # "close"
      BY <3>4 DEF OneWorks, Working
    <3>6. \A s \in Roller : ~Working(s)' /\ place'[s] # "close"
      BY <2>0, <3>1, <3>5 DEF Working, Locals, Call
    <3>7. \A s \in failed' : place'[s] \notin {"idle", "points", "connect", "done"}
      BY <2>0, <3>1 DEF Recoverable, Locals, Call
    <3>8. CASE r \in failed
      <4>1. run' = "rollback_failed"
        BY <3>1, <3>4, <3>8
      <4>2. AllSound \/ todo[r] = {}
        BY <3>1 DEF Recoverable
      <4>3. todo[r] = {} => NoneAvailable
        BY <3>4 DEF OneWorks, NoneAvailable
      <4> QED  BY <3>2, <3>3, <3>6, <3>7, <4>1, <4>2, <4>3 DEF Recoverable
    <3>9. CASE r \notin failed
      <4>1. AllSound'
        BY <3>2, <3>4, <3>9, UnfailedIsSound
      <4> QED  BY <3>6, <3>7, <4>1 DEF Recoverable
    <3> QED  BY <3>8, <3>9
  <2> QED  BY <1>11, <2>1, <2>2, <2>3, <2>4, <2>5, <2>6, <2>7 DEF Rollback
<1>12. ASSUME NEW c \in Cleaner, Clean(c)
      PROVE  Recoverable'
  <2>1. /\ RollersKept /\ OnlyExpires
        /\ UNCHANGED <<run, remote, original, failed>> /\ failed \subseteq Roller
    BY <1>12, Cleans DEF Locals
  <2>2. AllSound => AllSound'
    BY <2>1, SoundKept DEF OnlyExpires, Restorable
  <2>3. NoneAvailable => NoneAvailable'
    BY <2>1 DEF NoneAvailable, Newest, OnlyExpires
  <2> QED  BY <2>1, <2>2, <2>3, RecoverableKept
<1>13. ASSUME NEW c \in Call, CallFault(c)
      PROVE  Recoverable'
  <2>1. /\ RollersKept
        /\ UNCHANGED <<run, points, remote, original, failed>> /\ failed \subseteq Roller
    BY <1>13, CleanFails DEF CallFault, Locals
  <2>2. AllSound => AllSound'
    BY <2>1, SoundKept
  <2>3. NoneAvailable => NoneAvailable'
    BY <2>1 DEF NoneAvailable, Newest
  <2> QED  BY <2>1, <2>2, <2>3, RecoverableKept
<1>14. CASE UNCHANGED restoreVars
  <2>1. /\ RollersKept
        /\ UNCHANGED <<run, points, remote, original, failed>> /\ failed \subseteq Roller
    BY <1>14 DEF restoreVars, RollersKept, Locals
  <2>2. AllSound => AllSound'
    BY <2>1, SoundKept
  <2>3. NoneAvailable => NoneAvailable'
    BY <2>1 DEF NoneAvailable, Newest
  <2> QED  BY <2>1, <2>2, <2>3, RecoverableKept
<1> QED  BY <1>1, <1>2, <1>3, <1>4, <1>5, <1>6, <1>7, <1>8, <1>9, <1>10, <1>11, <1>12, <1>13, <1>14 DEF RestoreNext, Drive

-----------------------------------------------------------------------------
(* Theorems.                                                               *)

\* What holds however calls meet, and what holds until they do.
RestoreInv ==
    /\ RestoreTyped /\ Capturing /\ RestoresOnce
    /\ ~disturbed => OneWorks /\ Copied /\ Recoverable

\* The first state: nothing captured, nobody at work.
LEMMA RestoreStarts ==
    RestoreInit => RestoreInv
<1> SUFFICES ASSUME RestoreInit
             PROVE  RestoreInv
  OBVIOUS
<1> USE DEF RestoreInit
<1>1. Target \in Seq(Path) /\ 1 \in 1..Len(Target)
  BY TargetAssumption
<1>2. /\ points = <<>> /\ files = <<>> /\ Len(points) = 0
      /\ points \in Seq(Point) /\ files \in Seq(Content \cup {NoFile})
  OBVIOUS
<1>3. Rows
  BY <1>1, <1>2, Contents DEF Rows, Ended
<1>4. Locals
  BY <1>2 DEF Locals, Call
<1>5. Counts
  <2>1. retries = 0 /\ failures = 0 /\ disturbed = FALSE
    OBVIOUS
  <2> HIDE DEF RestoreInit
  <2>2. retries \in 0..MaxRetries /\ failures \in 0..MaxFailures
    BY <2>1, LimitAssumption
  <2>3. disturbed \in BOOLEAN
    BY <2>1, Zenon
  <2> QED  BY <2>2, <2>3, Zenon DEF Counts
<1>6. Capturing
  BY DEF Capturing
<1>7. \A r \in Roller : place[r] = "idle"
  BY DEF Call
<1>8. RestoresOnce
  BY <1>7 DEF RestoresOnce, Restoring
<1>9. OneWorks
  <2>1. run = "running" /\ \A r \in Roller : ~Working(r) /\ ~Busy(r)
    BY <1>7 DEF Working, Busy
  <2>2. \A k \in 1..Newest : FALSE
    BY <1>2 DEF Newest
  <2> HIDE DEF RestoreInit
  <2> QED  BY <2>1, <2>2 DEF OneWorks
<1>10. Copied
  BY <1>7 DEF Copied
<1>11. Recoverable
  <2>1. \A p \in Path : Pending(p) = {}
    BY <1>2 DEF Pending, Newest
  <2>2. AllSound
    BY <2>1 DEF AllSound, Sound
  <2> QED  BY <1>7, <2>2 DEF Recoverable
<1> QED  BY <1>3, <1>4, <1>5, <1>6, <1>8, <1>9, <1>10, <1>11 DEF RestoreInv, RestoreTyped

\* A rollback stays disturbed.
LEMMA Disturbed ==
    ASSUME [RestoreNext]_restoreVars, disturbed
    PROVE  disturbed'
  BY DEF RestoreNext, restoreVars, Drive, Rollback, Clean, CreatePoint, Backup, FinishPoint,
         RecordFailure, Upload, CloseRun, Retry, CaptureFault, CloseRunFault, Restart,
         ReadEndedRun, ReadPoints, ConnectServer, Mark, Restore, Record, CloseRollback,
         ReadRunToClean, ListPoints, RemoveFile, Expire, CallFault

\* Every step keeps the invariant; the last part of it until a rollback is
\* disturbed.
LEMMA RestoreInvStep ==
    ASSUME RestoreInv, [RestoreNext]_restoreVars
    PROVE  RestoreInv'
<1>1. Rows /\ Locals /\ Counts /\ Capturing /\ RestoresOnce
  BY DEF RestoreInv, RestoreTyped
<1>2. Rows' /\ Locals' /\ Counts'
  BY <1>1, RowsStep, LocalsStep, CountsStep
<1>3. Capturing' /\ RestoresOnce'
  BY <1>1, CapturingStep, RestoresOnceStep
<1>4. ASSUME ~disturbed'
      PROVE  OneWorks' /\ Copied' /\ Recoverable'
  <2>1. OneWorks /\ Copied /\ Recoverable
    BY <1>4, Disturbed DEF RestoreInv
  <2> QED  BY <1>1, <1>4, <2>1, OneWorksStep, CopiedStep, RecoverableStep
<1> QED  BY <1>2, <1>3, <1>4 DEF RestoreInv, RestoreTyped

\* The invariant holds in every state.
LEMMA RestoreAlways ==
    RestoreSpec => []RestoreInv
  BY RestoreStarts, RestoreInvStep, PTL DEF RestoreSpec

\* The restore points, their backups, the server and the calls have the types
\* RestoreTypeOK gives them, for any uploads, paths, rollbacks and cleanups.
THEOREM RestoreTypes ==
    RestoreSpec => []RestoreTypeOK
<1>1. RestoreInv => RestoreTypeOK
  <2> SUFFICES ASSUME Rows, Locals, Counts
               PROVE  RestoreTypeOK
    BY DEF RestoreInv, RestoreTyped
  <2>1. stage \in {"backup", "finish", "record"} => points # <<>>
    BY DEF Rows
  <2> QED  BY <2>1, Zenon DEF Rows, Locals, Counts, RestoreTypeOK
<1> QED  BY <1>1, RestoreAlways, PTL

\* However many rollbacks of the run meet, mark_restore_point_rolling_back
\* lets one of them at a point: no backup is restored twice.
THEOREM PointsRestoredOnce ==
    RestoreSpec => []RestoresOnce
<1>1. RestoreInv => RestoresOnce
  BY DEF RestoreInv
<1> QED  BY <1>1, RestoreAlways, PTL

\* finish_rollback_run: a run shown as rolled back has every path, whose
\* backups were not cleaned up, as it was before the run.
THEOREM RollbackRestores ==
    RestoreSpec => []RolledBackRestored
<1>1. RestoreInv => RolledBackRestored
  <2> SUFFICES ASSUME RestoreInv, run = "rolled_back", ~disturbed, NEW p \in Path,
                      \A i \in 1..Newest : points[i].path = p => points[i].status # "expired"
               PROVE  remote[p] = original[p]
    BY DEF RolledBackRestored
  <2>1. AllSound /\ NoneAvailable /\ OneWorks
    BY DEF RestoreInv, Recoverable, OneWorks
  <2>2. \A r \in Roller : ~Restoring(r)
    BY <2>1 DEF OneWorks, Working, Restoring
  <2>3. Pending(p) = {}
    BY <2>1, <2>2 DEF Pending, OneWorks, NoneAvailable
  <2> QED  BY <2>1, <2>3 DEF AllSound, Sound
<1> QED  BY <1>1, RestoreAlways, PTL

=============================================================================
